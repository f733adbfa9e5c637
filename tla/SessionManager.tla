---------------------------- MODULE SessionManager ----------------------------
(***************************************************************************)
(* The Global Session Authority (internal/controlserver/session/manager.go)*)
(* Every method runs under the manager's mutex and is one step.  Session   *)
(* ids are ULIDs: a fresh one per session, never reused.  The methods that *)
(* range over the Go map pick an arbitrary matching session, because map   *)
(* iteration order is unspecified.                                         *)
(***************************************************************************)
CONSTANTS Vehicles, Operators, SessionIds,
          NoSession    \* no entry in a map

Role == {"ACTIVE_OPERATOR", "OBSERVER"}

Session == [vehicle : Vehicles, operator : Operators, role : Role]

ASSUME SessionAssumption == NoSession \notin SessionIds /\ NoSession \notin Session

VARIABLES
  sessions,           \* sessionID -> Session, or NoSession
  vehicleController,  \* vehicleID -> controlling sessionID, or NoSession
  issued,             \* session ids generated so far
  spent,              \* history: ids that were given a vehicle's control
  checkpoint          \* the session the last RecoveryCheckpoint names

sessVars == <<sessions, vehicleController, issued, spent, checkpoint>>

Live(s) == sessions[s] # NoSession

ActiveOperator(s) == Live(s) /\ sessions[s].role = "ACTIVE_OPERATOR"

SessInit ==
  /\ sessions = [s \in SessionIds |-> NoSession]
  /\ vehicleController = [v \in Vehicles |-> NoSession]
  /\ issued = {}
  /\ spent = {}
  /\ checkpoint = NoSession

-----------------------------------------------------------------------------
(* Queries *)

\* IsVehicleLocked, GetSessionByVehicle: the lock names a session that exists.
IsVehicleLocked(v) ==
  vehicleController[v] # NoSession /\ Live(vehicleController[v])

ActiveVehicleIDs == {sessions[s].vehicle : s \in {t \in SessionIds : Live(t)}}

-----------------------------------------------------------------------------
(* Methods that change the manager *)

\* Fault: the lock is looked up but the role is never downgraded.
StartSessionUnlocked(v, o, s) ==
  /\ s \notin issued
  /\ sessions' = [sessions EXCEPT ![s] =
                    [vehicle |-> v, operator |-> o, role |-> "ACTIVE_OPERATOR"]]
  /\ vehicleController' = [vehicleController EXCEPT ![v] = s]
  /\ issued' = issued \cup {s}
  /\ spent' = spent \cup {s}
  /\ UNCHANGED checkpoint

\* Observer when a live session holds the vehicle, controller otherwise.
StartSession(v, o, s) ==
  /\ s \notin issued
  /\ LET role == IF IsVehicleLocked(v) THEN "OBSERVER" ELSE "ACTIVE_OPERATOR"
     IN  /\ sessions' = [sessions EXCEPT ![s] =
                           [vehicle |-> v, operator |-> o, role |-> role]]
         /\ vehicleController' = IF role = "ACTIVE_OPERATOR"
                                 THEN [vehicleController EXCEPT ![v] = s]
                                 ELSE vehicleController
         /\ spent' = IF role = "ACTIVE_OPERATOR" THEN spent \cup {s} ELSE spent
  /\ issued' = issued \cup {s}
  /\ UNCHANGED checkpoint

\* Fault: the session is deleted and its lock is left behind.
ReleaseSessionKeepsLock(s) ==
  /\ sessions' = [sessions EXCEPT ![s] = NoSession]
  /\ UNCHANGED <<vehicleController, issued, spent, checkpoint>>

\* Fault: any session that ends, an observer's too, frees its vehicle.
ReleaseSessionFreesVehicle(s) ==
  /\ sessions' = [sessions EXCEPT ![s] = NoSession]
  /\ vehicleController' =
       IF Live(s)
       THEN [vehicleController EXCEPT ![sessions[s].vehicle] = NoSession]
       ELSE vehicleController
  /\ UNCHANGED <<issued, spent, checkpoint>>

\* Releasing an id the manager does not know changes nothing.
ReleaseSession(s) ==
  /\ sessions' = [sessions EXCEPT ![s] = NoSession]
  /\ vehicleController' =
       IF ActiveOperator(s) /\ vehicleController[sessions[s].vehicle] = s
       THEN [vehicleController EXCEPT ![sessions[s].vehicle] = NoSession]
       ELSE vehicleController
  /\ UNCHANGED <<issued, spent, checkpoint>>

\* Fault: any session of the vehicle is promoted, an observer's too.
UpdateOperatorAny(v, o) ==
  /\ \E s \in SessionIds :
       /\ Live(s) /\ sessions[s].vehicle = v
       /\ sessions' = [sessions EXCEPT ![s] =
            [vehicle |-> v, operator |-> o, role |-> "ACTIVE_OPERATOR"]]
  /\ UNCHANGED <<vehicleController, issued, spent, checkpoint>>

\* Fault: the vehicle and operator arguments are swapped.
UpdateOperatorSwapped(v, o) ==
  /\ \E s \in SessionIds :
       /\ ActiveOperator(s) /\ sessions[s].vehicle = v
       /\ sessions' = [sessions EXCEPT ![s].operator = v]
  /\ UNCHANGED <<vehicleController, issued, spent, checkpoint>>

\* ConfirmHandover is the only caller: the vehicle's controlling session, if
\* there is one, keeps its id and role and changes its operator.
UpdateOperator(v, o) ==
  LET matches == {s \in SessionIds : ActiveOperator(s) /\ sessions[s].vehicle = v}
  IN  /\ IF matches = {}
         THEN UNCHANGED sessions
         ELSE \E s \in matches : sessions' = [sessions EXCEPT ![s].operator = o]
      /\ UNCHANGED <<vehicleController, issued, spent, checkpoint>>

\* The full reset behind POST /session/end without a session_id.
EndSession ==
  /\ sessions' = [s \in SessionIds |-> NoSession]
  /\ vehicleController' = [v \in Vehicles |-> NoSession]
  /\ UNCHANGED <<issued, spent, checkpoint>>

\* Records some ACTIVE_OPERATOR session of the fleet; without one, nothing.
SaveCheckpoint ==
  LET active == {s \in SessionIds : ActiveOperator(s)}
  IN  /\ IF active = {} THEN UNCHANGED checkpoint ELSE checkpoint' \in active
      /\ UNCHANGED <<sessions, vehicleController, issued, spent>>

SessNext ==
  \/ \E v \in Vehicles, o \in Operators, s \in SessionIds : StartSession(v, o, s)
  \/ \E s \in SessionIds : ReleaseSession(s)
  \/ \E v \in Vehicles, o \in Operators : UpdateOperator(v, o)
  \/ EndSession
  \/ SaveCheckpoint

SessSpec == SessInit /\ [][SessNext]_sessVars

-----------------------------------------------------------------------------
\* The manager's maps stay in their types.
SessTypeOK ==
  /\ sessions \in [SessionIds -> Session \cup {NoSession}]
  /\ vehicleController \in [Vehicles -> SessionIds \cup {NoSession}]
  /\ issued \in SUBSET SessionIds
  /\ spent \in SUBSET SessionIds
  /\ checkpoint \in SessionIds \cup {NoSession}

\* The lock and the roles agree: a vehicle's lock names a live ACTIVE_OPERATOR
\* session of that vehicle (the stale-lock branch of StartSession is dead
\* code), and every ACTIVE_OPERATOR session holds its vehicle's lock.
LockMatchesRoles ==
  /\ \A v \in Vehicles : vehicleController[v] # NoSession =>
       /\ ActiveOperator(vehicleController[v])
       /\ sessions[vehicleController[v]].vehicle = v
  /\ \A s \in SessionIds : ActiveOperator(s) =>
       vehicleController[sessions[s].vehicle] = s

\* ADR-025: at most one ACTIVE_OPERATOR per vehicle, after any sequence of
\* starts, ends, handovers and resets.
OneControllerPerVehicle ==
  \A s, t \in SessionIds :
    ActiveOperator(s) /\ ActiveOperator(t) /\ sessions[s].vehicle = sessions[t].vehicle
      => s = t

\* An id that was never issued names nothing, and control is only given to
\* issued ids.
IdsAreFresh ==
  /\ \A s \in SessionIds : s \notin issued => sessions[s] = NoSession
  /\ \A s \in SessionIds : ActiveOperator(s) => s \in spent
  /\ spent \subseteq issued

\* The parts above are together preserved by every method.
SessInv == SessTypeOK /\ LockMatchesRoles /\ IdsAreFresh

\* An observer is never promoted and a controller never demoted: a session
\* keeps its role and its vehicle as long as it lives.
RoleIsFixed ==
  [][\A s \in SessionIds : Live(s) /\ Live(s)' =>
       /\ sessions'[s].role = sessions[s].role
       /\ sessions'[s].vehicle = sessions[s].vehicle]_sessVars

\* The lock of each vehicle behaves like the abstract lock.
Lock == INSTANCE VehicleLock WITH holder <- vehicleController

\* The manager implements the lock it promises.
LockSpecification == Lock!LockSpec
=============================================================================
