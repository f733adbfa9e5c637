---------------------------- MODULE MCFleetTasks ----------------------------
(* FleetTasks with interchangeable requests and tasks. *)
EXTENDS FleetTasks, TLC

Interchangeable == Permutations(Requests) \cup Permutations(TaskIds)
=============================================================================
