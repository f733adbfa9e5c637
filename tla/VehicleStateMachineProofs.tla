---------------------- MODULE VehicleStateMachineProofs ----------------------
(***************************************************************************)
(* What the state machine guarantees whatever the order of the calls.      *)
(* IInv is inductive: ControlFollowsSystem alone is not, because lifting   *)
(* DEGRADED is only harmless to CONTROL when the record is well typed, and *)
(* RecoversOnlyWhenAllClear needs BadReportsAreTracked.                    *)
(***************************************************************************)
EXTENDS VehicleStateMachine, TLAPS

\* A system transition keeps the record's type.
LEMMA TransitionSystemType ==
  ASSUME NEW m \in MachineType, NEW next \in SystemState
  PROVE  transitionSystemLocked(m, next) \in MachineType
<1>1. ControlAfter(m.Control, next) \in ControlState
  BY DEF MachineType, ControlAfter, ControlState
<1>2. CASE ~isValidTransition(m.System, next)
  BY <1>2 DEF transitionSystemLocked
<1>3. CASE isValidTransition(m.System, next)
  BY <1>1, <1>3 DEF transitionSystemLocked, MachineType, OperatorState
<1> QED
  BY <1>2, <1>3

\* The invariant on a machine record and its bad reports.
Good(m, reports) ==
  /\ m \in MachineType
  /\ reports \in SUBSET DegradedReason
  /\ m.Control = CASE m.System \in {"CONNECTED", "DEGRADED"} -> "CONTROL_ACTIVE"
                   [] m.System = "SAFE_MODE"  -> "CONTROL_BLOCKED"
                   [] m.System = "RECOVERING" -> "CONTROL_RECOVERING"
                   [] OTHER -> "CONTROL_INIT"
  /\ m.System = "DEGRADED" => m.degradedReasons # {}
  /\ m.System = "SAFE_MODE" => m.degradedReasons = {}
  /\ reports \subseteq m.degradedReasons

\* IInv says that the variables are Good.
LEMMA IInvIsGood == IInv <=> Good(sm, badReports)
BY DEF IInv, Good, TypeOK, ControlFollowsSystem, DegradedHasACause,
       BadReportsAreTracked, Controlling

\* A validated transition to a target of a call site preserves Good; a full
\* stop clears the reports.
LEMMA TransitionSystemGood ==
  ASSUME NEW m, NEW reports, Good(m, reports), NEW next \in SystemTargets
  PROVE  LET n == transitionSystemLocked(m, next)
         IN  Good(n, IF n.System = "SAFE_MODE" THEN {} ELSE reports)
<1> DEFINE n == transitionSystemLocked(m, next)
<1>1. n \in MachineType
  BY TransitionSystemType DEF Good, SystemTargets
<1>2. CASE ~isValidTransition(m.System, next)
  BY <1>2, <1>1 DEF Good, transitionSystemLocked
<1>3. CASE isValidTransition(m.System, next)
  <2>1. /\ n.System = next
        /\ n.Control = ControlAfter(m.Control, next)
        /\ n.degradedReasons = IF next = "SAFE_MODE" THEN {} ELSE m.degradedReasons
    BY <1>3 DEF transitionSystemLocked, Good, MachineType
  <2>2. next # "AUTHENTICATED" => n.Control = CASE
            next = "SAFE_MODE" -> "CONTROL_BLOCKED"
         [] next = "RECOVERING" -> "CONTROL_RECOVERING"
         [] OTHER -> "CONTROL_INIT"
    BY <2>1, <1>3 DEF ControlAfter, Good, SystemTargets, SystemState,
       isValidTransition, validSystemTransitions
  <2>3. next = "AUTHENTICATED" => n.Control = "CONTROL_INIT"
    BY <2>1, <1>3 DEF ControlAfter, Good, isValidTransition, validSystemTransitions
  <2> QED
    BY <1>1, <2>1, <2>2, <2>3 DEF Good, SystemTargets, SystemState
<1> QED
  BY <1>2, <1>3

\* Recording a cause while in control leaves the machine DEGRADED with that
\* cause, and nothing else changed.
LEMMA EnterDegradedResult ==
  ASSUME NEW m \in MachineType, NEW reason \in DegradedReason, Controlling(m)
  PROVE  enterDegraded(m, reason) =
           [m EXCEPT !.System = "DEGRADED",
                     !.degradedReasons = @ \cup {reason}]
<1> DEFINE n == [m EXCEPT !.degradedReasons = @ \cup {reason}]
<1>1. n \in MachineType /\ n.System = m.System /\ n.Control = m.Control
  BY DEF MachineType
<1>2. CASE m.System = "CONNECTED"
  <2>1. isValidTransition("CONNECTED", "DEGRADED")
    BY DEF isValidTransition, validSystemTransitions
  <2>2. ControlAfter(n.Control, "DEGRADED") = n.Control
    BY DEF ControlAfter
  <2>3. transitionSystemLocked(n, "DEGRADED") = [n EXCEPT !.System = "DEGRADED"]
    BY <1>1, <1>2, <2>1, <2>2 DEF transitionSystemLocked, MachineType
  <2> QED
    BY <1>1, <1>2, <2>3 DEF enterDegraded, MachineType
<1>3. CASE m.System = "DEGRADED"
  BY <1>1, <1>3 DEF enterDegraded, MachineType
<1> QED
  BY <1>2, <1>3 DEF Controlling

\* Clearing a cause lifts DEGRADED exactly when it was the last one.
LEMMA ExitDegradedResult ==
  ASSUME NEW m \in MachineType, NEW reason \in DegradedReason,
         m.System = "DEGRADED", m.Control = "CONTROL_ACTIVE"
  PROVE  exitDegraded(m, reason) =
           [m EXCEPT !.System = IF m.degradedReasons \ {reason} = {}
                                THEN "CONNECTED" ELSE "DEGRADED",
                     !.degradedReasons = @ \ {reason}]
<1> DEFINE n == [m EXCEPT !.degradedReasons = @ \ {reason}]
<1>1. /\ n \in MachineType /\ n.System = "DEGRADED"
      /\ n.Control = "CONTROL_ACTIVE"
      /\ n.degradedReasons = m.degradedReasons \ {reason}
  BY DEF MachineType
<1>2. CASE n.degradedReasons = {}
  <2>1. isValidTransition("DEGRADED", "CONNECTED")
    BY DEF isValidTransition, validSystemTransitions
  <2>2. ControlAfter(n.Control, "CONNECTED") = n.Control
    BY <1>1 DEF ControlAfter
  <2>3. transitionSystemLocked(n, "CONNECTED") = [n EXCEPT !.System = "CONNECTED"]
    BY <1>1, <2>1, <2>2 DEF transitionSystemLocked, MachineType
  <2> QED
    BY <1>1, <1>2, <2>3 DEF exitDegraded, MachineType
<1>3. CASE n.degradedReasons # {}
  BY <1>1, <1>3 DEF exitDegraded, MachineType
<1> QED
  BY <1>2, <1>3

\* TransitionToConnected preserves Good.
LEMMA ToConnectedGood ==
  ASSUME NEW m, NEW reports, Good(m, reports)
  PROVE  Good(TransitionToConnected(m), reports)
BY DEF Good, TransitionToConnected, MachineType, SystemState, ControlState

\* A bad report preserves Good with the cause added to the reports.
LEMMA BadReportGood ==
  ASSUME NEW m, NEW reports, Good(m, reports), Controlling(m),
         NEW reason \in DegradedReason
  PROVE  Good(enterDegraded(m, reason), reports \cup {reason})
<1>1. m \in MachineType
  BY DEF Good
<1>2. m.Control = "CONTROL_ACTIVE"
  BY DEF Good, Controlling
<1>3. enterDegraded(m, reason) =
        [m EXCEPT !.System = "DEGRADED", !.degradedReasons = @ \cup {reason}]
  BY <1>1, EnterDegradedResult
<1> DEFINE n == enterDegraded(m, reason)
<1>4. /\ n \in MachineType /\ n.System = "DEGRADED"
      /\ n.Control = "CONTROL_ACTIVE"
      /\ n.degradedReasons = m.degradedReasons \cup {reason}
  <2>1. "DEGRADED" \in SystemState
    BY DEF SystemState
  <2>2. m.degradedReasons \cup {reason} \in SUBSET DegradedReason
    BY <1>1 DEF MachineType
  <2> QED
    BY <1>1, <1>2, <1>3, <2>1, <2>2 DEF MachineType
<1>5. reports \subseteq m.degradedReasons /\ reports \in SUBSET DegradedReason
  BY DEF Good
<1> HIDE DEF n
<1>6. Good(n, reports \cup {reason})
  BY <1>4, <1>5 DEF Good
<1> QED
  BY <1>6 DEF n

\* A good report while DEGRADED preserves Good with the cause removed.
LEMMA GoodReportGood ==
  ASSUME NEW m, NEW reports, Good(m, reports), m.System = "DEGRADED",
         NEW reason \in DegradedReason
  PROVE  Good(exitDegraded(m, reason), reports \ {reason})
<1>1. m \in MachineType /\ m.Control = "CONTROL_ACTIVE"
  BY DEF Good
<1>2. exitDegraded(m, reason) =
        [m EXCEPT !.System = IF m.degradedReasons \ {reason} = {}
                             THEN "CONNECTED" ELSE "DEGRADED",
                  !.degradedReasons = @ \ {reason}]
  BY <1>1, ExitDegradedResult
<1> QED
  BY <1>1, <1>2 DEF Good, MachineType, SystemState

\* Setting the MEDIA or the OPERATOR field touches no other part of Good.
LEMMA FieldGood ==
  ASSUME NEW m, NEW reports, Good(m, reports),
         NEW media \in MediaState, NEW operator \in OperatorState
  PROVE  /\ Good([m EXCEPT !.Media = media], reports)
         /\ [m EXCEPT !.Media = media].System = m.System
         /\ Good([m EXCEPT !.Operator = operator], reports)
         /\ [m EXCEPT !.Operator = operator].System = m.System
<1>1. m \in MachineType
  BY DEF Good
<1>2. /\ [m EXCEPT !.Media = media] \in MachineType
      /\ [m EXCEPT !.Operator = operator] \in MachineType
  BY <1>1 DEF MachineType
<1> QED
  BY <1>1, <1>2 DEF Good, MachineType

\* A media report preserves Good.
LEMMA MediaGood ==
  ASSUME NEW m, NEW reports, Good(m, reports), NEW next \in MediaState
  PROVE  Good(TransitionMedia(m, next),
              CASE next \in {"MEDIA_FAILED", "MEDIA_DEGRADED"} /\ Controlling(m) ->
                     reports \cup {"media"}
                [] next = "MEDIA_CONNECTED" -> reports \ {"media"}
                [] OTHER -> reports)
<1> DEFINE n == [m EXCEPT !.Media = next]
<1>0. "media" \in DegradedReason
  BY DEF DegradedReason
<1>1. Good(n, reports) /\ n.System = m.System
  BY FieldGood, "NO_OPERATOR" \in OperatorState DEF OperatorState
<1>2. Controlling(n) <=> Controlling(m)
  BY <1>1 DEF Controlling
<1>3. Good(n, reports \ {"media"})
  BY <1>1 DEF Good
<1> HIDE DEF n
<1>4. CASE next \in {"MEDIA_FAILED", "MEDIA_DEGRADED"} /\ Controlling(m)
  <2>1. TransitionMedia(m, next) = enterDegraded(n, "media")
    BY <1>2, <1>4 DEF TransitionMedia, n
  <2> QED
    BY <1>0, <1>1, <1>2, <1>4, <2>1, BadReportGood
<1>5. CASE next = "MEDIA_CONNECTED" /\ m.System = "DEGRADED"
  <2>1. TransitionMedia(m, next) = exitDegraded(n, "media")
    BY <1>1, <1>5 DEF TransitionMedia, n
  <2> QED
    BY <1>0, <1>1, <1>5, <2>1, GoodReportGood
<1>6. CASE /\ ~(next \in {"MEDIA_FAILED", "MEDIA_DEGRADED"} /\ Controlling(m))
           /\ ~(next = "MEDIA_CONNECTED" /\ m.System = "DEGRADED")
  <2>1. TransitionMedia(m, next) = n
    BY <1>1, <1>2, <1>6 DEF TransitionMedia, n
  <2> QED
    BY <1>1, <1>3, <1>6, <2>1
<1> QED
  BY <1>4, <1>5, <1>6

\* A telemetry report preserves Good.
LEMMA TelemetryGood ==
  ASSUME NEW m, NEW reports, Good(m, reports)
  PROVE  /\ Good(TransitionTelemetry(m, TRUE), reports \ {"telemetry"})
         /\ Good(TransitionTelemetry(m, FALSE),
                 IF Controlling(m) THEN reports \cup {"telemetry"} ELSE reports)
<1>0. "telemetry" \in DegradedReason
  BY DEF DegradedReason
<1>1. Good(m, reports \ {"telemetry"})
  BY DEF Good
<1>2. Good(TransitionTelemetry(m, TRUE), reports \ {"telemetry"})
  <2>1. CASE m.System = "DEGRADED"
    BY <1>0, <2>1, GoodReportGood DEF TransitionTelemetry
  <2>2. CASE m.System # "DEGRADED"
    BY <1>1, <2>2 DEF TransitionTelemetry
  <2> QED
    BY <2>1, <2>2
<1>3. Good(TransitionTelemetry(m, FALSE),
           IF Controlling(m) THEN reports \cup {"telemetry"} ELSE reports)
  <2>1. CASE Controlling(m)
    BY <1>0, <2>1, BadReportGood DEF TransitionTelemetry
  <2>2. CASE ~Controlling(m)
    BY <2>2 DEF TransitionTelemetry
  <2> QED
    BY <2>1, <2>2
<1> QED
  BY <1>2, <1>3

\* An operator change preserves Good; a full stop clears the reports.
LEMMA OperatorGood ==
  ASSUME NEW m, NEW reports, Good(m, reports), NEW next \in OperatorTargets
  PROVE  LET n == TransitionOperator(m, next)
         IN  Good(n, IF n.System = "SAFE_MODE" THEN {} ELSE reports)
<1> DEFINE n == [m EXCEPT !.Operator = next]
<1>0. next \in OperatorState /\ "MEDIA_INIT" \in MediaState
  BY DEF OperatorTargets, OperatorState, MediaState
<1>1. Good(n, reports) /\ n.System = m.System
  BY <1>0, FieldGood
<1>2. Good(n, {})
  BY <1>1 DEF Good
<1> HIDE DEF n
<1>3. CASE next = "NO_OPERATOR" /\ Controlling(n)
  <2>1. TransitionOperator(m, next) = transitionSystemLocked(n, "SAFE_MODE")
    BY <1>3 DEF TransitionOperator, n
  <2>2. "SAFE_MODE" \in SystemTargets
    BY DEF SystemTargets, SystemState
  <2> QED
    BY <1>1, <2>1, <2>2, TransitionSystemGood
<1>4. CASE ~(next = "NO_OPERATOR" /\ Controlling(n))
  <2>1. TransitionOperator(m, next) = n
    BY <1>4 DEF TransitionOperator, n
  <2> QED
    BY <1>1, <1>2, <2>1
<1> QED
  BY <1>3, <1>4

-----------------------------------------------------------------------------
\* IInv is Good before and after a step.
LEMMA IInvIsGoodNext == IInv' <=> Good(sm', badReports')
BY DEF IInv, Good, TypeOK, ControlFollowsSystem, DegradedHasACause,
       BadReportsAreTracked, Controlling

\* Every call preserves the invariant: one step per method of the Machine.
LEMMA StepPreservesIInv == IInv /\ [Next]_vars => IInv'
<1> SUFFICES ASSUME Good(sm, badReports), [Next]_vars
             PROVE  Good(sm', badReports')
  BY IInvIsGood, IInvIsGoodNext
<1>1. CASE CallTransitionSystem
  <2>1. PICK next \in SystemTargets :
          /\ sm' = transitionSystemLocked(sm, next)
          /\ badReports' = IF sm'.System = "SAFE_MODE" THEN {} ELSE badReports
    BY <1>1 DEF CallTransitionSystem, TransitionSystem, Forget
  <2> QED
    BY <2>1, TransitionSystemGood
<1>2. CASE CallTransitionToConnected
  BY <1>2, ToConnectedGood DEF CallTransitionToConnected
<1>3. CASE CallTransitionMedia
  <2>1. PICK next \in MediaState :
          /\ sm' = TransitionMedia(sm, next)
          /\ badReports' =
               CASE next \in {"MEDIA_FAILED", "MEDIA_DEGRADED"} /\ Controlling(sm) ->
                      badReports \cup {"media"}
                 [] next = "MEDIA_CONNECTED" -> badReports \ {"media"}
                 [] OTHER -> badReports
    BY <1>3 DEF CallTransitionMedia
  <2> QED
    BY <2>1, MediaGood
<1>4. CASE CallTransitionTelemetry
  <2>1. PICK healthy \in BOOLEAN :
          /\ sm' = TransitionTelemetry(sm, healthy)
          /\ badReports' =
               CASE ~healthy /\ Controlling(sm) -> badReports \cup {"telemetry"}
                 [] healthy -> badReports \ {"telemetry"}
                 [] OTHER -> badReports
    BY <1>4 DEF CallTransitionTelemetry
  <2>2. CASE healthy = TRUE
    BY <2>1, <2>2, TelemetryGood
  <2>3. CASE healthy = FALSE
    BY <2>1, <2>3, TelemetryGood
  <2> QED
    BY <2>2, <2>3
<1>5. CASE CallTransitionOperator
  <2>1. PICK next \in OperatorTargets :
          /\ sm' = TransitionOperator(sm, next)
          /\ badReports' = IF sm'.System = "SAFE_MODE" THEN {} ELSE badReports
    BY <1>5 DEF CallTransitionOperator, Forget
  <2> QED
    BY <2>1, OperatorGood
<1>6. CASE UNCHANGED vars
  BY <1>6 DEF vars
<1> QED
  BY <1>1, <1>2, <1>3, <1>4, <1>5, <1>6 DEF Next

\* New() satisfies the invariant.
LEMMA InitIInv == Init => IInv
BY DEF Init, IInv, NewMachine, TypeOK, ControlFollowsSystem, DegradedHasACause,
       BadReportsAreTracked, Controlling, MachineType, SystemState, ControlState,
       MediaState, OperatorState, DegradedReason

\* The inductive invariant holds in every reachable state.
THEOREM Invariance == Spec => []IInv
BY InitIInv, StepPreservesIInv, PTL DEF Spec

\* The machine's fields stay in their types.
THEOREM TypeCorrect == Spec => []TypeOK
BY Invariance, PTL DEF IInv

\* ADR-011: CONTROL is determined by SYSTEM in every reachable state.
THEOREM ControlSafety == Spec => []ControlFollowsSystem
BY Invariance, PTL DEF IInv

\* DEGRADED always has a cause, SAFE_MODE none.
THEOREM CauseSafety == Spec => []DegradedHasACause
BY Invariance, PTL DEF IInv

\* The last report of every active cause is recorded.
THEOREM TrackingSafety == Spec => []BadReportsAreTracked
BY Invariance, PTL DEF IInv

-----------------------------------------------------------------------------
(* Action properties *)

\* The SYSTEM layer of a media report: unchanged, or moved between CONNECTED
\* and DEGRADED, to CONNECTED with no cause left; CONTROL is never touched.
LEMMA MediaSystem ==
  ASSUME NEW m, NEW reports, Good(m, reports), NEW next \in MediaState
  PROVE  LET n == TransitionMedia(m, next)
         IN  /\ n.Control = m.Control
             /\ n.System = m.System \/ (Controlling(m) /\ Controlling(n))
             /\ m.System = "DEGRADED" /\ n.System = "CONNECTED"
                  => n.degradedReasons = {}
<1> DEFINE n == [m EXCEPT !.Media = next]
<1>0. "media" \in DegradedReason
  BY DEF DegradedReason
<1>1. Good(n, reports) /\ n.System = m.System
  BY FieldGood, "NO_OPERATOR" \in OperatorState DEF OperatorState
<1>2. n \in MachineType /\ n.Control = m.Control
  BY <1>1 DEF Good, MachineType
<1>3. Controlling(n) <=> Controlling(m)
  BY <1>1 DEF Controlling
<1> HIDE DEF n
<1>4. CASE next \in {"MEDIA_FAILED", "MEDIA_DEGRADED"} /\ Controlling(m)
  <2>1. TransitionMedia(m, next) = enterDegraded(n, "media")
    BY <1>3, <1>4 DEF TransitionMedia, n
  <2>2. enterDegraded(n, "media") =
          [n EXCEPT !.System = "DEGRADED", !.degradedReasons = @ \cup {"media"}]
    BY <1>0, <1>2, <1>3, <1>4, EnterDegradedResult
  <2> QED
    BY <1>2, <1>4, <2>1, <2>2 DEF Controlling, MachineType
<1>5. CASE next = "MEDIA_CONNECTED" /\ m.System = "DEGRADED"
  <2>1. TransitionMedia(m, next) = exitDegraded(n, "media")
    BY <1>1, <1>5 DEF TransitionMedia, n
  <2>2. exitDegraded(n, "media") =
          [n EXCEPT !.System = IF n.degradedReasons \ {"media"} = {}
                               THEN "CONNECTED" ELSE "DEGRADED",
                    !.degradedReasons = @ \ {"media"}]
    BY <1>0, <1>1, <1>2, <1>5, ExitDegradedResult DEF Good
  <2> QED
    BY <1>2, <1>5, <2>1, <2>2 DEF Controlling, MachineType
<1>6. CASE /\ ~(next \in {"MEDIA_FAILED", "MEDIA_DEGRADED"} /\ Controlling(m))
           /\ ~(next = "MEDIA_CONNECTED" /\ m.System = "DEGRADED")
  <2>1. TransitionMedia(m, next) = n
    BY <1>1, <1>3, <1>6 DEF TransitionMedia, n
  <2> QED
    BY <1>1, <1>2, <2>1
<1> QED
  BY <1>4, <1>5, <1>6

\* The same of a telemetry report.
LEMMA TelemetrySystem ==
  ASSUME NEW m, NEW reports, Good(m, reports), NEW healthy \in BOOLEAN
  PROVE  LET n == TransitionTelemetry(m, healthy)
         IN  /\ n.Control = m.Control
             /\ n.System = m.System \/ (Controlling(m) /\ Controlling(n))
             /\ m.System = "DEGRADED" /\ n.System = "CONNECTED"
                  => n.degradedReasons = {}
<1>0. "telemetry" \in DegradedReason /\ m \in MachineType
  BY DEF DegradedReason, Good
<1>1. CASE ~healthy /\ Controlling(m)
  <2>1. TransitionTelemetry(m, healthy) = enterDegraded(m, "telemetry")
    BY <1>1 DEF TransitionTelemetry
  <2>2. enterDegraded(m, "telemetry") =
          [m EXCEPT !.System = "DEGRADED", !.degradedReasons = @ \cup {"telemetry"}]
    BY <1>0, <1>1, EnterDegradedResult
  <2> QED
    BY <1>0, <1>1, <2>1, <2>2 DEF Controlling, MachineType
<1>2. CASE healthy /\ m.System = "DEGRADED"
  <2>1. TransitionTelemetry(m, healthy) = exitDegraded(m, "telemetry")
    BY <1>2 DEF TransitionTelemetry
  <2>2. exitDegraded(m, "telemetry") =
          [m EXCEPT !.System = IF m.degradedReasons \ {"telemetry"} = {}
                               THEN "CONNECTED" ELSE "DEGRADED",
                    !.degradedReasons = @ \ {"telemetry"}]
    BY <1>0, <1>2, ExitDegradedResult DEF Good
  <2> QED
    BY <1>0, <1>2, <2>1, <2>2 DEF Controlling, MachineType
<1>3. CASE ~(~healthy /\ Controlling(m)) /\ ~(healthy /\ m.System = "DEGRADED")
  <2>1. TransitionTelemetry(m, healthy) = m
    BY <1>3 DEF TransitionTelemetry
  <2> QED
    BY <2>1
<1> QED
  BY <1>1, <1>2, <1>3

\* ADR-009 Invariant 1: media and telemetry reports never touch SAFE_MODE and
\* never give or take control.
THEOREM AwarenessSafety == Spec => AwarenessNeverStops
<1>1. IInv /\ [Next]_vars =>
        [CallTransitionMedia \/ CallTransitionTelemetry
           => /\ (sm'.System = "SAFE_MODE") = (sm.System = "SAFE_MODE")
              /\ sm'.Control = sm.Control]_vars
  <2> SUFFICES ASSUME Good(sm, badReports),
                      CallTransitionMedia \/ CallTransitionTelemetry
               PROVE  /\ (sm'.System = "SAFE_MODE") = (sm.System = "SAFE_MODE")
                      /\ sm'.Control = sm.Control
    BY IInvIsGood
  <2>1. /\ sm'.Control = sm.Control
        /\ sm'.System = sm.System \/ (Controlling(sm) /\ Controlling(sm'))
    BY MediaSystem, TelemetrySystem DEF CallTransitionMedia, CallTransitionTelemetry
  <2> QED
    BY <2>1 DEF Controlling
<1> QED
  BY <1>1, Invariance, PTL DEF Spec, AwarenessNeverStops

\* What the other three calls do to the SYSTEM layer: a call site's target, a
\* stop, or CONNECTED from AUTHENTICATED, and nothing else.
LEMMA OtherCallsSystem ==
  ASSUME Good(sm, badReports),
         CallTransitionSystem \/ CallTransitionToConnected \/ CallTransitionOperator
  PROVE  \/ sm'.System = sm.System
         \/ sm'.System \in SystemTargets
         \/ sm.System = "AUTHENTICATED" /\ sm'.System = "CONNECTED"
<1>0. sm \in MachineType
  BY DEF Good
<1>1. CASE CallTransitionSystem
  BY <1>0, <1>1 DEF CallTransitionSystem, TransitionSystem, transitionSystemLocked,
     MachineType
<1>2. CASE CallTransitionToConnected
  BY <1>0, <1>2 DEF CallTransitionToConnected, TransitionToConnected, MachineType
<1>3. CASE CallTransitionOperator
  <2>1. PICK next \in OperatorTargets : sm' = TransitionOperator(sm, next)
    BY <1>3 DEF CallTransitionOperator
  <2>2. "SAFE_MODE" \in SystemTargets
    BY DEF SystemTargets, SystemState
  <2> QED
    BY <1>0, <2>1, <2>2 DEF TransitionOperator, transitionSystemLocked, MachineType
<1> QED
  BY <1>1, <1>2, <1>3

\* The recovery of one cause of DEGRADED never hides another one.
THEOREM AllClearSafety == Spec => RecoversOnlyWhenAllClear
<1>1. IInv /\ [Next]_vars =>
        [sm.System = "DEGRADED" /\ sm'.System = "CONNECTED" => badReports' = {}]_vars
  <2> SUFFICES ASSUME Good(sm, badReports), Next, Good(sm', badReports'),
                      sm.System = "DEGRADED", sm'.System = "CONNECTED"
               PROVE  badReports' = {}
    BY IInvIsGood, IInvIsGoodNext, StepPreservesIInv
  <2>1. ~(CallTransitionSystem \/ CallTransitionToConnected \/ CallTransitionOperator)
    BY OtherCallsSystem DEF SystemTargets
  <2>2. sm'.degradedReasons = {}
    BY <2>1, MediaSystem, TelemetrySystem
       DEF Next, CallTransitionMedia, CallTransitionTelemetry
  <2> QED
    BY <2>2 DEF Good
<1> QED
  BY <1>1, Invariance, PTL DEF Spec, RecoversOnlyWhenAllClear

\* No automatic resume: control is only ever granted to an authenticated
\* session.
THEOREM ResumeSafety == Spec => ControlGrantedFromAuthenticated
<1>1. IInv /\ [Next]_vars =>
        [sm.Control # "CONTROL_ACTIVE" /\ sm'.Control = "CONTROL_ACTIVE"
           => sm.System = "AUTHENTICATED"]_vars
  <2> SUFFICES ASSUME Good(sm, badReports), Next, Good(sm', badReports'),
                      sm.Control # "CONTROL_ACTIVE", sm'.Control = "CONTROL_ACTIVE"
               PROVE  sm.System = "AUTHENTICATED"
    BY IInvIsGood, IInvIsGoodNext, StepPreservesIInv
  <2>1. ~(CallTransitionMedia \/ CallTransitionTelemetry)
    BY MediaSystem, TelemetrySystem DEF CallTransitionMedia, CallTransitionTelemetry
  <2>2. sm.System \notin {"CONNECTED", "DEGRADED"} /\ sm'.System \in {"CONNECTED", "DEGRADED"}
    BY DEF Good, MachineType, SystemState
  <2> QED
    BY <2>1, <2>2, OtherCallsSystem DEF Next, SystemTargets
<1> QED
  BY <1>1, Invariance, PTL DEF Spec, ControlGrantedFromAuthenticated

\* Entering and leaving DEGRADED leaves the OPERATOR layer alone.
LEMMA DegradedKeepsOperator ==
  ASSUME NEW m \in MachineType, NEW reason \in DegradedReason
  PROVE  /\ enterDegraded(m, reason).Operator = m.Operator
         /\ exitDegraded(m, reason).Operator = m.Operator
<1> DEFINE more == [m EXCEPT !.degradedReasons = @ \cup {reason}]
           less == [m EXCEPT !.degradedReasons = @ \ {reason}]
<1>1. /\ more \in MachineType /\ more.Operator = m.Operator
      /\ less \in MachineType /\ less.Operator = m.Operator
  BY DEF MachineType, DegradedReason
<1>2. ASSUME NEW n \in MachineType, NEW next \in {"CONNECTED", "DEGRADED"}
      PROVE  transitionSystemLocked(n, next).Operator = n.Operator
  BY <1>2 DEF transitionSystemLocked, MachineType
<1> HIDE DEF more, less
<1>3. enterDegraded(m, reason) \in {more, transitionSystemLocked(more, "DEGRADED")}
  BY DEF enterDegraded, more
<1>4. exitDegraded(m, reason) \in {less, transitionSystemLocked(less, "CONNECTED")}
  BY DEF exitDegraded, less
<1> QED
  BY <1>1, <1>2, <1>3, <1>4

\* A media or telemetry report leaves the OPERATOR layer alone.
LEMMA ReportKeepsOperator ==
  ASSUME sm \in MachineType, CallTransitionMedia \/ CallTransitionTelemetry
  PROVE  sm'.Operator = sm.Operator
<1>1. CASE CallTransitionMedia
  <2>1. PICK next \in MediaState : sm' = TransitionMedia(sm, next)
    BY <1>1 DEF CallTransitionMedia
  <2> DEFINE n == [sm EXCEPT !.Media = next]
  <2>2. n \in MachineType /\ n.Operator = sm.Operator
    BY DEF MachineType
  <2> HIDE DEF n
  <2>3. sm' \in {n, enterDegraded(n, "media"), exitDegraded(n, "media")}
    BY <2>1 DEF TransitionMedia, n
  <2> QED
    BY <2>2, <2>3, DegradedKeepsOperator DEF DegradedReason
<1>2. CASE CallTransitionTelemetry
  <2>1. sm' \in {sm, enterDegraded(sm, "telemetry"), exitDegraded(sm, "telemetry")}
    BY <1>2 DEF CallTransitionTelemetry, TransitionTelemetry
  <2> QED
    BY <2>1, DegradedKeepsOperator DEF DegradedReason
<1> QED
  BY <1>1, <1>2

\* ADR-011: the step that takes the operator away leaves the vehicle out of
\* control; TransitionOperator stops it and IDLE is not under control.
THEOREM OperatorSafety == Spec => LosingTheOperatorStops
<1>1. IInv /\ [Next]_vars =>
        [sm.Operator # "NO_OPERATOR" /\ sm'.Operator = "NO_OPERATOR"
           => ~Controlling(sm')]_vars
  <2> SUFFICES ASSUME sm \in MachineType, Next,
                      sm.Operator # "NO_OPERATOR", sm'.Operator = "NO_OPERATOR"
               PROVE  ~Controlling(sm')
    BY DEF IInv, TypeOK
  <2>1. CASE CallTransitionSystem
    BY <2>1 DEF CallTransitionSystem, TransitionSystem, transitionSystemLocked,
       MachineType, Controlling
  <2>2. CASE CallTransitionToConnected
    BY <2>2 DEF CallTransitionToConnected, TransitionToConnected, MachineType
  <2>3. CASE CallTransitionMedia \/ CallTransitionTelemetry
    BY <2>3, ReportKeepsOperator
  <2>4. CASE CallTransitionOperator
    <3>1. PICK next \in OperatorTargets : sm' = TransitionOperator(sm, next)
      BY <2>4 DEF CallTransitionOperator
    <3> DEFINE n == [sm EXCEPT !.Operator = next]
    <3>2. n \in MachineType /\ n.Operator = next /\ n.System = sm.System
      BY DEF MachineType, OperatorTargets, OperatorState
    <3> HIDE DEF n
    <3>3. CASE next = "NO_OPERATOR" /\ Controlling(n)
      <4>1. sm' = transitionSystemLocked(n, "SAFE_MODE")
        BY <3>1, <3>3 DEF TransitionOperator, n
      <4>2. isValidTransition(n.System, "SAFE_MODE")
        BY <3>3 DEF Controlling, isValidTransition, validSystemTransitions
      <4>3. sm'.System = "SAFE_MODE"
        BY <3>2, <4>1, <4>2 DEF transitionSystemLocked, MachineType
      <4> QED
        BY <4>3 DEF Controlling
    <3>4. CASE ~(next = "NO_OPERATOR" /\ Controlling(n))
      <4>1. sm' = n
        BY <3>1, <3>4 DEF TransitionOperator, n
      <4> QED
        BY <3>2, <3>4, <4>1
    <3> QED
      BY <3>3, <3>4
  <2> QED
    BY <2>1, <2>2, <2>3, <2>4 DEF Next
<1> QED
  BY <1>1, Invariance, PTL DEF Spec, LosingTheOperatorStops
=============================================================================
