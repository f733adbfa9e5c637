------------------------------- MODULE Machine -------------------------------
(***************************************************************************)
(* The four-layer state machine of one vehicle                             *)
(* (internal/controlserver/statemachine/state.go), as operators on the     *)
(* Machine record.  Every exported method of the Go type runs under one    *)
(* mutex, so each operator below maps the record before the call to the    *)
(* record after it.                                                        *)
(***************************************************************************)
SystemState == {"IDLE", "CONNECTING", "AUTHENTICATED", "CONNECTED",
                "DEGRADED", "SAFE_MODE", "RECOVERING"}

ControlState == {"CONTROL_INIT", "CONTROL_ACTIVE", "CONTROL_BLOCKED",
                 "CONTROL_LOST", "CONTROL_RECOVERING"}

MediaState == {"MEDIA_INIT", "MEDIA_NEGOTIATING", "MEDIA_CONNECTED",
               "MEDIA_DEGRADED", "MEDIA_FAILED"}

OperatorState == {"NO_OPERATOR", "OPERATOR_ASSIGNED", "ACTIVE_OPERATOR",
                  "HANDOVER_PENDING", "RECOVERING_OPERATOR"}

DegradedReason == {"media", "telemetry"}

MachineType ==
  [System : SystemState, Control : ControlState, Media : MediaState,
   Operator : OperatorState, degradedReasons : SUBSET DegradedReason]

\* statemachine.New
NewMachine ==
  [System |-> "IDLE", Control |-> "CONTROL_INIT", Media |-> "MEDIA_INIT",
   Operator |-> "NO_OPERATOR", degradedReasons |-> {}]

-----------------------------------------------------------------------------
(* SYSTEM layer *)

validSystemTransitions ==
  {<<"IDLE", "CONNECTING">>,
   <<"CONNECTING", "AUTHENTICATED">>, <<"CONNECTING", "SAFE_MODE">>,
   <<"AUTHENTICATED", "CONNECTED">>,  <<"AUTHENTICATED", "SAFE_MODE">>,
   <<"CONNECTED", "DEGRADED">>, <<"CONNECTED", "SAFE_MODE">>,
   <<"CONNECTED", "IDLE">>,
   <<"DEGRADED", "CONNECTED">>, <<"DEGRADED", "SAFE_MODE">>,
   <<"DEGRADED", "IDLE">>,
   <<"SAFE_MODE", "RECOVERING">>, <<"SAFE_MODE", "IDLE">>,
   <<"RECOVERING", "AUTHENTICATED">>, <<"RECOVERING", "SAFE_MODE">>}

isValidTransition(current, next) == <<current, next>> \in validSystemTransitions

\* Fault: AUTHENTICATED leaves the CONTROL layer alone.
ControlAfterKept(control, next) ==
  CASE next = "IDLE"       -> "CONTROL_INIT"
    [] next = "SAFE_MODE"  -> "CONTROL_BLOCKED"
    [] next = "CONNECTED"  -> "CONTROL_ACTIVE"
    [] next = "RECOVERING" -> "CONTROL_RECOVERING"
    [] OTHER -> control

\* Fault: CONTROL looked up in a table whose missing entries are Go's zero value.
ControlAfterTable(control, next) ==
  CASE next = "IDLE"       -> "CONTROL_INIT"
    [] next = "SAFE_MODE"  -> "CONTROL_BLOCKED"
    [] next = "CONNECTED"  -> "CONTROL_ACTIVE"
    [] next = "RECOVERING" -> "CONTROL_RECOVERING"
    [] OTHER -> ""

\* The CONTROL state the switch in transitionSystemLocked sets.
ControlAfter(control, next) ==
  CASE next = "IDLE"       -> "CONTROL_INIT"
    [] next = "SAFE_MODE"  -> "CONTROL_BLOCKED"
    [] next = "CONNECTED"  -> "CONTROL_ACTIVE"
    [] next = "RECOVERING" -> "CONTROL_RECOVERING"
    [] next = "AUTHENTICATED"
       /\ control \in {"CONTROL_BLOCKED", "CONTROL_RECOVERING"} -> "CONTROL_INIT"
    [] OTHER -> control

\* Fault: the DEGRADED reasons survive SAFE_MODE.
transitionSystemLockedKeepsReasons(m, next) ==
  IF isValidTransition(m.System, next)
  THEN [m EXCEPT !.System   = next,
                 !.Control  = ControlAfter(@, next),
                 !.Operator = IF next = "IDLE" THEN "NO_OPERATOR" ELSE @]
  ELSE m

\* An invalid transition is logged and leaves the machine as it is.
transitionSystemLocked(m, next) ==
  IF isValidTransition(m.System, next)
  THEN [m EXCEPT !.System   = next,
                 !.Control  = ControlAfter(@, next),
                 !.Operator = IF next = "IDLE" THEN "NO_OPERATOR" ELSE @,
                 !.degradedReasons = IF next = "SAFE_MODE" THEN {} ELSE @]
  ELSE m

TransitionSystem(m, next) == transitionSystemLocked(m, next)

\* Fault: the precondition on AUTHENTICATED is missing.
TransitionToConnectedAnywhere(m) ==
  [m EXCEPT !.System = "CONNECTED", !.Control = "CONTROL_ACTIVE"]

\* AUTHENTICATED -> CONNECTED, nothing from any other state.
TransitionToConnected(m) ==
  IF m.System = "AUTHENTICATED"
  THEN [m EXCEPT !.System = "CONNECTED", !.Control = "CONTROL_ACTIVE"]
  ELSE m

-----------------------------------------------------------------------------
(* DEGRADED reasons, MEDIA and OPERATOR layers *)

Controlling(m) == m.System \in {"CONNECTED", "DEGRADED"}

enterDegraded(m, reason) ==
  LET n == [m EXCEPT !.degradedReasons = @ \cup {reason}]
  IN  IF n.System = "CONNECTED" THEN transitionSystemLocked(n, "DEGRADED") ELSE n

\* Fault: any recovery lifts DEGRADED, whatever reasons remain.
exitDegradedEager(m, reason) ==
  LET n == [m EXCEPT !.degradedReasons = @ \ {reason}]
  IN  IF n.System = "DEGRADED" THEN transitionSystemLocked(n, "CONNECTED") ELSE n

exitDegraded(m, reason) ==
  LET n == [m EXCEPT !.degradedReasons = @ \ {reason}]
  IN  IF n.degradedReasons = {} /\ n.System = "DEGRADED"
      THEN transitionSystemLocked(n, "CONNECTED")
      ELSE n

\* Fault: a lost video stream is treated as a critical failure.
TransitionMediaCritical(m, next) ==
  LET n == [m EXCEPT !.Media = next]
  IN  CASE next = "MEDIA_FAILED" /\ Controlling(n) ->
             transitionSystemLocked(n, "SAFE_MODE")
        [] next = "MEDIA_DEGRADED" /\ Controlling(n) -> enterDegraded(n, "media")
        [] next = "MEDIA_CONNECTED" /\ n.System = "DEGRADED" ->
             exitDegraded(n, "media")
        [] OTHER -> n

TransitionMedia(m, next) ==
  LET n == [m EXCEPT !.Media = next]
  IN  CASE next \in {"MEDIA_FAILED", "MEDIA_DEGRADED"} /\ Controlling(n) ->
             enterDegraded(n, "media")
        [] next = "MEDIA_CONNECTED" /\ n.System = "DEGRADED" ->
             exitDegraded(n, "media")
        [] OTHER -> n

\* Fault: the entry guard of before Sprint 50, CONNECTED only.
TransitionTelemetryNarrow(m, healthy) ==
  CASE ~healthy /\ m.System = "CONNECTED" -> enterDegraded(m, "telemetry")
    [] healthy /\ m.System = "DEGRADED" -> exitDegraded(m, "telemetry")
    [] OTHER -> m

TransitionTelemetry(m, healthy) ==
  CASE ~healthy /\ Controlling(m) -> enterDegraded(m, "telemetry")
    [] healthy /\ m.System = "DEGRADED" -> exitDegraded(m, "telemetry")
    [] OTHER -> m

\* Fault: NO_OPERATOR updates the OPERATOR layer only.
TransitionOperatorSilent(m, next) == [m EXCEPT !.Operator = next]

TransitionOperator(m, next) ==
  LET n == [m EXCEPT !.Operator = next]
  IN  IF next = "NO_OPERATOR" /\ Controlling(n)
      THEN transitionSystemLocked(n, "SAFE_MODE")
      ELSE n
=============================================================================
