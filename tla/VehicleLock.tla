----------------------------- MODULE VehicleLock -----------------------------
(***************************************************************************)
(* What the Global Session Authority promises (ADR-025): a lock per        *)
(* vehicle.  A vehicle is free or held by one session; a session that held *)
(* a lock once is never given one again, and a lock never passes from one  *)
(* session to another without being free in between.                       *)
(***************************************************************************)
CONSTANTS Vehicles, SessionIds, NoSession

VARIABLES holder,   \* vehicle -> the session that controls it, or NoSession
          spent     \* sessions that have held a lock

lockVars == <<holder, spent>>

LockInit == holder = [v \in Vehicles |-> NoSession] /\ spent = {}

Acquire(v, s) ==
  /\ holder[v] = NoSession
  /\ s \notin spent
  /\ holder' = [holder EXCEPT ![v] = s]
  /\ spent' = spent \cup {s}

Release(v) ==
  /\ holder[v] # NoSession
  /\ holder' = [holder EXCEPT ![v] = NoSession]
  /\ UNCHANGED spent

ReleaseAll ==
  /\ holder' = [v \in Vehicles |-> NoSession]
  /\ UNCHANGED spent

LockNext ==
  \/ \E v \in Vehicles, s \in SessionIds : Acquire(v, s)
  \/ \E v \in Vehicles : Release(v)
  \/ ReleaseAll

LockSpec == LockInit /\ [][LockNext]_lockVars
=============================================================================
