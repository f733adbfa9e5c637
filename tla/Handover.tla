------------------------------- MODULE Handover -------------------------------
(***************************************************************************)
(* Operator handover (internal/controlserver/session/handover.go) on top   *)
(* of the session manager and the vehicles' state machines.                *)
(*                                                                         *)
(* The three handover calls run one at a time under the HandoverManager's  *)
(* mutex, which ConfirmHandover keeps while the auth service answers, so   *)
(* one variable holds the progress of the call that is inside; a call that *)
(* is refused changes nothing and is no step.  The handlers that start,    *)
(* end, stop and recover sessions do not take the mutex and run between    *)
(* any two steps of a handover call.  Those handlers are whole steps here: *)
(* ControlServer takes them apart.  The events for the SFU are in Media.   *)
(***************************************************************************)
EXTENDS SessionManager, Machine

CONSTANTS NoCall,     \* HandoverManager.mu is free
          NoOperator  \* no handover is pending

ASSUME HandoverAssumption == NoOperator \notin Operators

VARIABLES
  machines,  \* vehicleID -> its state machine
  pending,   \* vehicleID -> toOperatorID, or NoOperator
  call       \* the handover call that holds the mutex, or NoCall

hoVars == <<machines, pending, call>>
vars == <<sessVars, hoVars>>

Call == [pc : {"pend", "token", "activate", "restore"}, vehicle : Vehicles]

ASSUME CallAssumption == NoCall \notin Call

Init ==
  /\ SessInit
  /\ machines = [v \in Vehicles |-> NewMachine]
  /\ pending = [v \in Vehicles |-> NoOperator]
  /\ call = NoCall

-----------------------------------------------------------------------------
(* Handover calls *)

Enter(pc, v) == call = NoCall /\ call' = [pc |-> pc, vehicle |-> v]

Inside(pc) == call # NoCall /\ call.pc = pc

Leave == call' = NoCall

SetOperator(v, state) ==
  machines' = [machines EXCEPT ![v] = TransitionOperator(@, state)]

\* Only an ACTIVE_OPERATOR vehicle; an older request is replaced.
RequestHandover(v, to) ==
  /\ Enter("pend", v)
  /\ machines[v].Operator = "ACTIVE_OPERATOR"
  /\ pending' = [pending EXCEPT ![v] = to]
  /\ UNCHANGED <<sessVars, machines>>

RequestPends ==
  /\ Inside("pend")
  /\ SetOperator(call.vehicle, "HANDOVER_PENDING")
  /\ Leave
  /\ UNCHANGED <<sessVars, pending>>

\* A handover is pending and its target confirms: ask for a token.
ConfirmHandover(v, confirming) ==
  /\ Enter("token", v)
  /\ pending[v] = confirming
  /\ UNCHANGED <<sessVars, machines, pending>>

\* Fault: the pending handover is forgotten when the token is refused.
TokenRefusedForgets ==
  /\ Inside("token")
  /\ pending' = [pending EXCEPT ![call.vehicle] = NoOperator]
  /\ Leave
  /\ UNCHANGED <<sessVars, machines>>

\* issueHandoverToken fails: the handover stays pending and may be retried.
TokenRefused ==
  /\ Inside("token")
  /\ Leave
  /\ UNCHANGED <<sessVars, machines, pending>>

\* The auth service answers; the session changes its operator.
TokenIssued ==
  /\ Inside("token")
  /\ UpdateOperator(call.vehicle, pending[call.vehicle])
  /\ call' = [call EXCEPT !.pc = "activate"]
  /\ UNCHANGED <<machines, pending>>

ConfirmActivates ==
  /\ Inside("activate")
  /\ SetOperator(call.vehicle, "ACTIVE_OPERATOR")
  /\ pending' = [pending EXCEPT ![call.vehicle] = NoOperator]
  /\ Leave
  /\ UNCHANGED sessVars

CancelHandover(v) ==
  /\ Enter("restore", v)
  /\ pending[v] # NoOperator
  /\ pending' = [pending EXCEPT ![v] = NoOperator]
  /\ UNCHANGED <<sessVars, machines>>

CancelRestores ==
  /\ Inside("restore")
  /\ SetOperator(call.vehicle, "ACTIVE_OPERATOR")
  /\ Leave
  /\ UNCHANGED <<sessVars, pending>>

CallStep ==
  \/ RequestPends
  \/ TokenRefused \/ TokenIssued \/ ConfirmActivates
  \/ CancelRestores

-----------------------------------------------------------------------------
(* Everything else that starts, ends, stops and recovers sessions *)

\* advanceVehicleToActiveOperator
Activated(m) ==
  TransitionOperator(
    TransitionToConnected(
      TransitionSystem(TransitionSystem(m, "CONNECTING"), "AUTHENTICATED")),
    "ACTIVE_OPERATOR")

SessionStart(v, o, s) ==
  /\ StartSession(v, o, s)
  /\ machines' = IF IsVehicleLocked(v) THEN machines
                 ELSE [machines EXCEPT ![v] = Activated(@)]
  /\ UNCHANGED <<pending, call>>

SessionEnd(s) ==
  /\ Live(s)
  /\ ReleaseSession(s)
  /\ machines' = IF ActiveOperator(s)
                 THEN [machines EXCEPT ![sessions[s].vehicle] =
                         TransitionSystem(@, "IDLE")]
                 ELSE machines
  /\ UNCHANGED <<pending, call>>

\* POST /session/end without an id.
SessionEndAll ==
  /\ EndSession
  /\ machines' = [v \in Vehicles |->
                    IF IsVehicleLocked(v) THEN TransitionSystem(machines[v], "IDLE")
                    ELSE machines[v]]
  /\ UNCHANGED <<pending, call>>

\* An emergency stop; every other critical trigger does the same.
EmergencyStop(v) ==
  /\ machines' = [machines EXCEPT ![v] = TransitionSystem(@, "SAFE_MODE")]
  /\ IF IsVehicleLocked(v) THEN SaveCheckpoint ELSE UNCHANGED sessVars
  /\ UNCHANGED <<pending, call>>

\* The controller's socket closes; the AuthWatchdog's trigger is the same to
\* the machine.
OperatorLost(s) ==
  /\ ActiveOperator(s)
  /\ machines' = [machines EXCEPT ![sessions[s].vehicle] =
       IF @.System = "SAFE_MODE" THEN @
       ELSE TransitionOperator(TransitionSystem(@, "SAFE_MODE"), "NO_OPERATOR")]
  /\ SaveCheckpoint
  /\ UNCHANGED <<pending, call>>

\* recoverFromSafeMode
Recover(s) ==
  /\ ActiveOperator(s)
  /\ machines[sessions[s].vehicle].System = "SAFE_MODE"
  /\ machines' = [machines EXCEPT ![sessions[s].vehicle] =
       TransitionOperator(
         TransitionToConnected(
           TransitionSystem(TransitionSystem(@, "RECOVERING"), "AUTHENTICATED")),
         "ACTIVE_OPERATOR")]
  /\ UNCHANGED <<sessVars, pending, call>>

Next ==
  \/ \E v \in Vehicles, o \in Operators :
       RequestHandover(v, o) \/ ConfirmHandover(v, o)
  \/ \E v \in Vehicles : CancelHandover(v) \/ EmergencyStop(v)
  \/ CallStep
  \/ \E v \in Vehicles, o \in Operators, s \in SessionIds : SessionStart(v, o, s)
  \/ \E s \in SessionIds : SessionEnd(s) \/ OperatorLost(s) \/ Recover(s)
  \/ SessionEndAll

Spec == Init /\ [][Next]_vars

-----------------------------------------------------------------------------
\* The maps of the three components stay in their types.
HandoverTypeOK ==
  /\ SessTypeOK
  /\ machines \in [Vehicles -> MachineType]
  /\ pending \in [Vehicles -> Operators \cup {NoOperator}]
  /\ call \in Call \cup {NoCall}

\* A vehicle in HANDOVER_PENDING has a handover that can be confirmed or
\* cancelled, however sessions end, restart and recover while the calls run:
\* nobody could leave that state otherwise.
PendingIsResolvable ==
  \A v \in Vehicles :
    machines[v].Operator = "HANDOVER_PENDING" /\ call = NoCall => pending[v] # NoOperator
=============================================================================
