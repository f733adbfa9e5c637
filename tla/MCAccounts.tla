----------------------------- MODULE MCAccounts -----------------------------
(* Accounts with interchangeable ids and requests. *)
EXTENDS Accounts, TLC

Interchangeable == Permutations(Ids) \cup Permutations(Requests)
=============================================================================
