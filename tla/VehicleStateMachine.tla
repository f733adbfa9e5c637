------------------------ MODULE VehicleStateMachine ------------------------
(***************************************************************************)
(* One vehicle's Machine in an open environment: any goroutine of the      *)
(* control server may make any call at any time, with the arguments the    *)
(* call sites pass.  Each call is one step because it holds m.mu.          *)
(*                                                                         *)
(* badReports is a history variable: the causes of DEGRADED whose last     *)
(* report was bad and arrived while the vehicle was under control, since   *)
(* the last full stop.                                                     *)
(***************************************************************************)
EXTENDS Machine

VARIABLES sm, badReports

vars == <<sm, badReports>>

\* Arguments of the calls in cmd/control-server, transport, safety, command,
\* vehicleconnection and session: CONNECTED and DEGRADED are only reached
\* through TransitionToConnected and the DEGRADED reasons.
SystemTargets == SystemState \ {"CONNECTED", "DEGRADED"}

OperatorTargets == {"NO_OPERATOR", "ACTIVE_OPERATOR", "HANDOVER_PENDING"}

Init == sm = NewMachine /\ badReports = {}

\* A full stop forgets what was reported before it.
Forget(reports) == IF sm'.System = "SAFE_MODE" THEN {} ELSE reports

CallTransitionSystem ==
  \E next \in SystemTargets :
    /\ sm' = TransitionSystem(sm, next)
    /\ badReports' = Forget(badReports)

CallTransitionToConnected ==
  /\ sm' = TransitionToConnected(sm)
  /\ UNCHANGED badReports

CallTransitionMedia ==
  \E next \in MediaState :
    /\ sm' = TransitionMedia(sm, next)
    /\ badReports' =
         CASE next \in {"MEDIA_FAILED", "MEDIA_DEGRADED"} /\ Controlling(sm) ->
                badReports \cup {"media"}
           [] next = "MEDIA_CONNECTED" -> badReports \ {"media"}
           [] OTHER -> badReports

CallTransitionTelemetry ==
  \E healthy \in BOOLEAN :
    /\ sm' = TransitionTelemetry(sm, healthy)
    /\ badReports' =
         CASE ~healthy /\ Controlling(sm) -> badReports \cup {"telemetry"}
           [] healthy -> badReports \ {"telemetry"}
           [] OTHER -> badReports

CallTransitionOperator ==
  \E next \in OperatorTargets :
    /\ sm' = TransitionOperator(sm, next)
    /\ badReports' = Forget(badReports)

Next ==
  \/ CallTransitionSystem
  \/ CallTransitionToConnected
  \/ CallTransitionMedia
  \/ CallTransitionTelemetry
  \/ CallTransitionOperator

Spec == Init /\ [][Next]_vars

-----------------------------------------------------------------------------
\* The machine keeps the four layers and the reason set in their types.
TypeOK == sm \in MachineType /\ badReports \in SUBSET DegradedReason

\* ADR-011: the CONTROL layer is determined by the SYSTEM layer.  In
\* particular commands are blocked in SAFE_MODE and only there, and are
\* accepted exactly while the vehicle is CONNECTED or DEGRADED, although
\* TransitionToConnected, transitionSystemLocked and the DEGRADED helpers
\* each write the two layers on their own.
ControlFollowsSystem ==
  sm.Control = CASE Controlling(sm)            -> "CONTROL_ACTIVE"
                 [] sm.System = "SAFE_MODE"    -> "CONTROL_BLOCKED"
                 [] sm.System = "RECOVERING"   -> "CONTROL_RECOVERING"
                 [] OTHER                      -> "CONTROL_INIT"

\* DEGRADED always has a recorded cause (or nothing could ever lift it), and
\* SAFE_MODE starts recovery from a clean set of causes.
DegradedHasACause ==
  /\ sm.System = "DEGRADED" => sm.degradedReasons # {}
  /\ sm.System = "SAFE_MODE" => sm.degradedReasons = {}

\* Every cause whose last report was bad while the vehicle was under control
\* is in the set of active reasons, whichever cause failed first.
BadReportsAreTracked == badReports \subseteq sm.degradedReasons

\* The parts above together are preserved by every call.
IInv == TypeOK /\ ControlFollowsSystem /\ DegradedHasACause
               /\ BadReportsAreTracked

\* state.go 194: DEGRADED returns to CONNECTED only when no cause is still
\* reported bad; the recovery of one cause never hides the other.
RecoversOnlyWhenAllClear ==
  [][sm.System = "DEGRADED" /\ sm'.System = "CONNECTED" => badReports' = {}]_vars

\* ADR-009 Invariant 1: a media or telemetry report neither triggers nor
\* lifts SAFE_MODE, and never takes control away or grants it.
AwarenessNeverStops ==
  [][CallTransitionMedia \/ CallTransitionTelemetry
       => /\ (sm'.System = "SAFE_MODE") = (sm.System = "SAFE_MODE")
          /\ sm'.Control = sm.Control]_vars

\* ADR-011, NO_OPERATOR => SAFE_MODE: the step in which a vehicle loses its
\* operator leaves it out of control.
LosingTheOperatorStops ==
  [][sm.Operator # "NO_OPERATOR" /\ sm'.Operator = "NO_OPERATOR"
       => ~Controlling(sm')]_vars

\* No automatic resume: whatever the order of calls, CONTROL becomes active
\* only in a step that leaves AUTHENTICATED.
ControlGrantedFromAuthenticated ==
  [][sm.Control # "CONTROL_ACTIVE" /\ sm'.Control = "CONTROL_ACTIVE"
       => sm.System = "AUTHENTICATED"]_vars
=============================================================================
