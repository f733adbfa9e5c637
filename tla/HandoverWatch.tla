----------------------------- MODULE HandoverWatch -----------------------------
(***************************************************************************)
(* Handover together with the AuthWatchdog of each vehicle                 *)
(* (internal/controlserver/safety/auth_watchdog.go), which polls the       *)
(* account it was started with until it is stopped or has fired.  Of the   *)
(* handlers, session start and recovery start it, session end and a lost   *)
(* socket stop it, and a confirmed handover does not call it.  The poller's*)
(* own races, with cancelled runs and failure counts, are in ControlServer.*)
(***************************************************************************)
EXTENDS Handover

VARIABLES
  watched,  \* vehicleID -> the account its AuthWatchdog polls, or NoOperator
  revoked   \* accounts that were deleted

watchVars == <<vars, watched, revoked>>

WatchInit ==
  /\ Init
  /\ watched = [v \in Vehicles |-> NoOperator]
  /\ revoked = {}

Watch(v, account) == watched' = [watched EXCEPT ![v] = account]

-----------------------------------------------------------------------------
\* advanceVehicleToActiveOperator starts the watchdog for a controller.
StartWatched(v, o, s) ==
  /\ SessionStart(v, o, s)
  /\ IF IsVehicleLocked(v) THEN UNCHANGED watched ELSE Watch(v, o)
  /\ UNCHANGED revoked

EndWatched(s) ==
  /\ SessionEnd(s)
  /\ IF ActiveOperator(s) THEN Watch(sessions[s].vehicle, NoOperator)
     ELSE UNCHANGED watched
  /\ UNCHANGED revoked

EndAllWatched ==
  /\ SessionEndAll
  /\ watched' = [v \in Vehicles |-> IF IsVehicleLocked(v) THEN NoOperator ELSE watched[v]]
  /\ UNCHANGED revoked

LostWatched(s) ==
  /\ OperatorLost(s)
  /\ Watch(sessions[s].vehicle, NoOperator)
  /\ UNCHANGED revoked

\* The session's operator at the time of the reconnect.
RecoverWatched(s) ==
  /\ Recover(s)
  /\ Watch(sessions[s].vehicle, sessions[s].operator)
  /\ UNCHANGED revoked

\* Two checks in a row failed, for a deleted account or for an error.
AuthFires(v) ==
  /\ watched[v] # NoOperator
  /\ SetOperator(v, "NO_OPERATOR")
  /\ Watch(v, NoOperator)
  /\ UNCHANGED <<sessVars, pending, call, revoked>>

\* DELETE /auth/users/{id}
RevokeAccount(o) ==
  /\ revoked' = revoked \cup {o}
  /\ UNCHANGED <<vars, watched>>

\* What leaves the watchdogs alone: the handover calls and the stops.
Unwatched ==
  /\ \/ \E v \in Vehicles, o \in Operators :
          RequestHandover(v, o) \/ ConfirmHandover(v, o)
     \/ \E v \in Vehicles : CancelHandover(v) \/ EmergencyStop(v)
     \/ CallStep
  /\ UNCHANGED <<watched, revoked>>

WatchNext ==
  \/ \E v \in Vehicles, o \in Operators, s \in SessionIds : StartWatched(v, o, s)
  \/ \E s \in SessionIds : EndWatched(s) \/ LostWatched(s) \/ RecoverWatched(s)
  \/ EndAllWatched
  \/ \E v \in Vehicles : AuthFires(v)
  \/ \E o \in Operators : RevokeAccount(o)
  \/ Unwatched

\* Even when the auth service always answers, so that handover calls run on and
\* the poller of a deleted account finds it out.
WatchSpec ==
  /\ WatchInit /\ [][WatchNext]_watchVars
  /\ WF_watchVars(CallStep /\ UNCHANGED <<watched, revoked>>)
  /\ \A v \in Vehicles : WF_watchVars(watched[v] \in revoked /\ AuthFires(v))

-----------------------------------------------------------------------------
\* ADR-009 "Auth Invalidation": when the account of a running session's operator
\* is deleted the vehicle is stopped, also for the operator who got the session
\* by a handover, unless the session ends or passes to somebody else first.
RevokedOperatorIsStopped ==
  \A s \in SessionIds, v \in Vehicles :
    /\ ActiveOperator(s) /\ sessions[s].vehicle = v
    /\ sessions[s].operator \in revoked
    ~> \/ ~Live(s) \/ ~Controlling(machines[v])
       \/ sessions[s].operator \notin revoked
=============================================================================
