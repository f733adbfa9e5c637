------------------------------- MODULE MCMedia -------------------------------
(* Media with interchangeable connections, readers and publishers. *)
EXTENDS Media, TLC

Interchangeable ==
  Permutations(Conns) \cup Permutations(Readers) \cup Permutations(Posts)
    \cup Permutations(SessionIds)
=============================================================================
