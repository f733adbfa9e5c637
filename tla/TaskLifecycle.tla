---------------------------- MODULE TaskLifecycle ----------------------------
(***************************************************************************)
(* What a FleetStore promises of a task's status (ADR-030), as the         *)
(* in-memory FakeFleetStore implements it: every operation is one step     *)
(* under one mutex.  The handler tests run against that store, the service *)
(* against Postgres.                                                       *)
(***************************************************************************)
CONSTANTS TaskIds,
          NoTask     \* no such task

VARIABLE status      \* taskID -> its status, or NoTask

TaskStatus == {"pending", "in_progress", "completed", "cancelled"}

\* The statuses a task may be in for a PATCH to this target to succeed.
\* "pending" is never a target.
taskTransitionSources ==
  [in_progress |-> {"pending"},
   completed   |-> {"in_progress"},
   cancelled   |-> {"pending", "in_progress"}]

LifecycleInit == status = [t \in TaskIds |-> NoTask]

\* A new task is pending unless the request names another status.
CreateTask(t) ==
  /\ status[t] = NoTask
  /\ \E s \in TaskStatus : status' = [status EXCEPT ![t] = s]

UpdateTaskStatus(t, newStatus) ==
  /\ status[t] \in taskTransitionSources[newStatus]
  /\ status' = [status EXCEPT ![t] = newStatus]

LifecycleNext ==
  \E t \in TaskIds :
    \/ CreateTask(t)
    \/ \E newStatus \in DOMAIN taskTransitionSources : UpdateTaskStatus(t, newStatus)

LifecycleSpec == LifecycleInit /\ [][LifecycleNext]_status
=============================================================================
