-------------------------- MODULE MCControlServer --------------------------
(* ControlServer with interchangeable vehicles, operators and slots, for TLC. *)
EXTENDS ControlServer, TLC

\* Vehicles, ids and slots carry no meaning of their own; an account only that
\* it is an observer's.
Symmetry ==
  Permutations(Vehicles) \cup Permutations(SessionIds) \cup Permutations(Conns)
    \cup Permutations(VConns) \cup Permutations(Requests)
    \cup {p \in Permutations(Operators) :
            \A o \in ObserverAccounts : p[o] \in ObserverAccounts}
=============================================================================
