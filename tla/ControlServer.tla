--------------------------- MODULE ControlServer ---------------------------
(***************************************************************************)
(* The control server as a set of goroutines over shared objects: the HTTP *)
(* handlers of cmd/control-server/main.go, the operator WebSocket of       *)
(* internal/controlserver/transport, the vehicle WebSocket of              *)
(* internal/vehicleconnection, the watchdogs' callbacks and pollers, and   *)
(* the safety-bus watchdog.                                                *)
(*                                                                         *)
(* The shared objects (Machine, the watchdogs, the session manager, the    *)
(* connection registry) each have a mutex of their own and no handler      *)
(* holds one across two calls.  A handler is therefore a sequence of calls *)
(* (its prog), each call is one step, and the steps of all goroutines      *)
(* interleave.  A call is a tuple <<object, method, argument>>; calls on   *)
(* "handler" are the handler's own reads and branches.                     *)
(***************************************************************************)
EXTENDS Machine, Watchdogs, SessionManager, Sequences

CONSTANTS
  Conns,             \* slots for operator WebSockets
  VConns,            \* slots for vehicle WebSockets
  Requests,          \* slots for HTTP requests that are served concurrently
  Bus,               \* the goroutine of the SafetyBusWatchdog
  NoConn,            \* no registered vehicle connection
  ObserverAccounts,  \* operators whose JWT has the role OBSERVER
  Commands,          \* command types the operators send
  Endpoints,         \* HTTP endpoints that are called
  MediaReports,      \* media states the operators' browsers report
  Elapsing,          \* timer watchdogs whose timers may elapse
  Pollers            \* polling watchdogs that are configured (not nil)

TimerWatchdogs == {"Deadman", "ACKTimeoutWatcher", "VehicleACKWatchdog"}
PollWatchdogs == {"AuthWatchdog", "TelemetryWatchdog"}
CommandType == {"DEADMAN_HOLD", "DEADMAN_RELEASE", "EMERGENCY_STOP", "MOVE"}
Endpoint == {"start", "end", "endAll", "stop", "stopAll", "revoke", "bus"}

ASSUME ServerAssumption ==
  /\ IsFiniteSet(Vehicles)
  /\ NoConn \notin VConns
  /\ Commands \subseteq CommandType
  /\ Endpoints \subseteq Endpoint
  /\ MediaReports \subseteq MediaState
  /\ Elapsing \subseteq TimerWatchdogs
  /\ Pollers \subseteq PollWatchdogs
  /\ ObserverAccounts \subseteq Operators

VARIABLES
  ctx,             \* vehicleID -> VehicleContext
  conns,           \* vehicleconnection.Registry: vehicleID -> VConns or NoConn
  go,              \* the goroutines
  firing,          \* vehicleID -> watchdogs that fired and have yet to stop it
  busFailures,     \* SafetyBusWatchdog: consecutive failed health checks
  revoked,         \* operators whose account was disabled or deleted
  lostTo,          \* history: vehicleID -> watchdogs last started or stopped for
                   \* a session that did not control the vehicle
  attached,        \* history: live sessions with a WebSocket that was open when
                   \* control was granted or was opened since
  grantor,         \* history: vehicleID -> the session whose handler last gave
                   \* the vehicle's control to an operator
  pursued          \* history: goroutine -> vehicles that were in a state it is to
                   \* end when it began, and have been ever since

sessionHistory == <<lostTo, attached, grantor>>
history == <<sessionHistory, pursued>>
serverVars == <<ctx, conns, go, firing, busFailures, revoked, history>>
vars == <<sessVars, serverVars>>

Threads == Conns \cup VConns \cup Requests \cup {Bus}

\* The goroutines that may act on the whole fleet.
Sweepers == Requests \cup {Bus}

\* vehiclecontext.Registry.Get creates this on first access.
NewVehicleContext ==
  [SM |-> NewMachine,
   Deadman |-> NewDeadmanWatchdog,
   ACKTimeoutWatcher |-> NewACKTimeoutWatcher,
   VehicleACKWatchdog |-> NewVehicleACKWatchdog,
   AuthWatchdog |-> NewPoller,
   TelemetryWatchdog |-> NewPoller]

\* as: what the goroutine is; an "operator" or "vehicle" reads its socket
\* whenever prog is empty, the others end with their program.
Free == [as |-> "free", vehicle |-> NoConn, session |-> NoSession,
         operator |-> NoConn, observer |-> FALSE, prog |-> <<>>]

Init ==
  /\ SessInit
  /\ ctx = [v \in Vehicles |-> NewVehicleContext]
  /\ conns = [v \in Vehicles |-> NoConn]
  /\ go = [t \in Threads |-> Free]
  /\ firing = [v \in Vehicles |-> {}]
  /\ busFailures = 0
  /\ revoked = {}
  /\ lostTo = [v \in Vehicles |-> {}]
  /\ attached = {}
  /\ grantor = [v \in Vehicles |-> NoSession]
  /\ pursued = [t \in Sweepers |-> {}]

-----------------------------------------------------------------------------
(* Programs: the calls of each handler, in the order of the code *)

\* The watchdogs a run leaves out: the code skips a nil AuthWatchdog or
\* TelemetryWatchdog, and an ACK watchdog whose timers never elapse affects
\* nothing but itself.
Absent ==
  (PollWatchdogs \ Pollers)
    \cup ({"ACKTimeoutWatcher", "VehicleACKWatchdog"} \ Elapsing)

System(next)    == <<"SM", "TransitionSystem", next>>
Operator(next)  == <<"SM", "TransitionOperator", next>>
ToConnected     == <<"SM", "TransitionToConnected", "">>
Manager(method) == <<"sessions", method, "">>
Handler(branch, arg) == <<"handler", branch, arg>>

\* The call on a watchdog, which is skipped when the watchdog is left out.
On(watchdog, method) ==
  IF watchdog \in Absent THEN <<>> ELSE <<<<watchdog, method, "">>>>

\* Fault: the dead-man switch is not re-enabled for a new session.
advanceVehicleUnwatched ==
  <<System("CONNECTING"), System("AUTHENTICATED"), ToConnected,
    Operator("ACTIVE_OPERATOR")>>
  \o On("VehicleACKWatchdog", "Start")
  \o On("AuthWatchdog", "Start") \o On("TelemetryWatchdog", "Start")

advanceVehicleToActiveOperator ==
  <<System("CONNECTING"), System("AUTHENTICATED"), ToConnected,
    Operator("ACTIVE_OPERATOR")>>
  \o On("Deadman", "Start") \o On("VehicleACKWatchdog", "Start")
  \o On("AuthWatchdog", "Start") \o On("TelemetryWatchdog", "Start")

stopWatchdogs ==
  On("Deadman", "Stop") \o On("VehicleACKWatchdog", "Stop")
  \o On("AuthWatchdog", "Stop") \o On("TelemetryWatchdog", "Stop")

endActiveSession ==
  stopWatchdogs \o <<Manager("ReleaseSession"), System("IDLE")>>

\* Fault: the operator is set before control is granted.
recoverFromSafeModeEarlyOperator ==
  <<System("RECOVERING"), System("AUTHENTICATED"),
    Operator("ACTIVE_OPERATOR"), ToConnected>>
  \o On("Deadman", "Start") \o On("AuthWatchdog", "Start")

\* Fault: ToConnected is tried before the machine is AUTHENTICATED.
recoverFromSafeModeReordered ==
  <<System("RECOVERING"), ToConnected, System("AUTHENTICATED"),
    Operator("ACTIVE_OPERATOR")>>
  \o On("Deadman", "Start") \o On("AuthWatchdog", "Start")

recoverFromSafeMode ==
  <<System("RECOVERING"), System("AUTHENTICATED"), ToConnected,
    Operator("ACTIVE_OPERATOR")>>
  \o On("Deadman", "Start") \o On("AuthWatchdog", "Start")

\* Fault: a disconnect of a live session leaves the vehicle as it is.
stopOnDisconnectSilent ==
  <<Operator("ACTIVE_OPERATOR"), Manager("SaveCheckpoint")>>

\* The branch of handleWSDisconnect for a live session outside SAFE_MODE.
stopOnDisconnect ==
  <<System("SAFE_MODE"), Operator("NO_OPERATOR"), Manager("SaveCheckpoint")>>

\* tokenBucket.allow: one bucket for all sessions, so any command may find it
\* empty.
allow == BOOLEAN

\* Engine.Handle.  The rate limiter comes before the type of the command.
Handle(cmd, observer) ==
  {IF ~allowed THEN <<>>
   ELSE CASE cmd = "DEADMAN_HOLD"    -> On("Deadman", "Reset")
          [] cmd = "DEADMAN_RELEASE" -> <<>>
          [] cmd = "EMERGENCY_STOP"  -> <<System("SAFE_MODE")>>
          [] cmd = "MOVE" -> IF observer THEN <<>> ELSE <<Handler("Forward", "")>>
   : allowed \in allow}

\* The loops over ActiveVehicleIDs take the vehicles in any order.
Orders(S) ==
  {f \in [1..Cardinality(S) -> S] : \A v \in S : \E i \in DOMAIN f : f[i] = v}

ForEach(vs, branch) == [i \in DOMAIN vs |-> Handler(branch, vs[i])]

-----------------------------------------------------------------------------
(* Goroutines *)

Idle(t) == go[t].as = "free"

\* A goroutine of this kind runs prog for session s of vehicle v.
Spawn(kind, v, s, o, observer, prog) ==
  [as |-> kind, vehicle |-> v, session |-> s, operator |-> o,
   observer |-> observer, prog |-> prog]

\* g goes on with prog; one that has nothing left to do ends.
Goes(g, prog) ==
  IF prog = <<>> /\ g.as \notin {"operator", "vehicle"}
  THEN Free
  ELSE [g EXCEPT !.prog = prog]

\* A vehicle's socket is registered.
Connected(v) == conns[v] # NoConn

Reading(t, kind) == go[t].as = kind /\ go[t].prog = <<>>

\* The next call of t is this one.
Calls(t, object) == go[t].prog # <<>> /\ Head(go[t].prog)[1] = object

Branching(t, branch) == Calls(t, "handler") /\ Head(go[t].prog)[2] = branch

Rest(t) == Tail(go[t].prog)

Sys(v) == ctx[v].SM.System

\* An operator WebSocket of session s is open.
Open(s) == \E c \in Conns : go[c].as = "operator" /\ go[c].session = s

\* The state of a machine that a goroutine of this kind is to end: a reset is
\* for every vehicle that is not in transit, a stop for one under control.
Outstanding(kind, m) ==
  Controlling(m) \/ (kind = "endAll" /\ m.System = "SAFE_MODE")

\* t begins to pursue the vehicles vs.
Pursue(t, kind, vs) ==
  pursued' = [pursued EXCEPT ![t] = {v \in vs : Outstanding(kind, ctx[v].SM)}]

\* Machines have moved: nobody pursues a vehicle any longer that is through.
PursueOn ==
  pursued' = [t \in Sweepers |->
    {v \in pursued[t] : Outstanding(go[t].as, ctx'[v].SM)}]

\* t has called the session manager: a vehicle that it has released is t's to
\* reset, and no longer a concurrent reset's.
LeaveTo(t) ==
  pursued' = [u \in Sweepers |->
    {v \in pursued[u] : u = t \/ go[u].as # "endAll" \/ IsVehicleLocked(v)'}]

-----------------------------------------------------------------------------
(* Calls on the shared objects *)

\* The object after the call: the Machine and watchdog methods.
Called(x, call, account) ==
  LET object == call[1]
      method == call[2]
  IN  CASE method = "TransitionSystem"      -> TransitionSystem(x, call[3])
        [] method = "TransitionOperator"    -> TransitionOperator(x, call[3])
        [] method = "TransitionToConnected" -> TransitionToConnected(x)
        [] method = "Reset"                 -> DeadmanReset(x)
        [] method = "CommandReceived"       -> CommandReceived(x)
        [] method = "CommandACKed"          -> CommandACKed(x)
        [] method = "CommandForwarded"      -> CommandForwarded(x)
        [] object = "Deadman" /\ method = "Start" -> DeadmanStart(x)
        [] object = "Deadman" /\ method = "Stop"  -> DeadmanStop(x)
        [] object = "VehicleACKWatchdog" /\ method = "Start" -> VehicleACKStart(x)
        [] object = "VehicleACKWatchdog" /\ method = "Stop"  -> VehicleACKStop(x)
        [] object \in PollWatchdogs /\ method = "Start" -> PollerStart(x, account)
        [] object \in PollWatchdogs /\ method = "Stop"  -> PollerStop(x)

\* A call on the goroutine's VehicleContext.
VehicleCall(t) ==
  LET g == go[t]
      v == g.vehicle
      call == Head(g.prog)
  IN  /\ \E object \in DOMAIN NewVehicleContext : Calls(t, object)
      /\ ctx' = [ctx EXCEPT ![v][call[1]] = Called(@, call, g.operator)]
      /\ lostTo' =
           IF call[2] \notin {"Start", "Stop"} THEN lostTo
           ELSE [lostTo EXCEPT ![v] = IF g.session = vehicleController[v]
                                      THEN @ \ {call[1]} ELSE @ \cup {call[1]}]
      /\ IF call[2] = "TransitionToConnected" /\ Sys(v) = "AUTHENTICATED"
         THEN /\ grantor' = [grantor EXCEPT ![v] = g.session]
              /\ attached' = IF Open(g.session) THEN attached ELSE attached \ {g.session}
         ELSE UNCHANGED <<grantor, attached>>
      /\ PursueOn
      /\ go' = [go EXCEPT ![t] = Goes(g, Rest(t))]
      /\ UNCHANGED <<sessVars, conns, firing, busFailures, revoked>>

\* A call on the session manager.
SessionCall(t) ==
  /\ Calls(t, "sessions")
  /\ LET method == Head(go[t].prog)[2]
     IN  \/ method = "ReleaseSession" /\ ReleaseSession(go[t].session)
         \/ method = "SaveCheckpoint" /\ SaveCheckpoint
         \/ method = "EndSession"     /\ EndSession
  /\ attached' = {s \in attached : sessions'[s] # NoSession}
  /\ LeaveTo(t)
  /\ go' = [go EXCEPT ![t] = Goes(@, Rest(t))]
  /\ UNCHANGED <<ctx, conns, firing, busFailures, revoked, lostTo, grantor>>

\* A handler's own read of shared state, which decides how it goes on.
Decide(t, prog) ==
  /\ go' = [go EXCEPT ![t] = Goes(@, prog)]
  /\ UNCHANGED <<sessVars, ctx, conns, firing, busFailures, revoked, history>>

-----------------------------------------------------------------------------
(* POST /session/start *)

Starting == {r \in Requests : go[r].as = "start"}

\* Bound: a request is only made while there is a session id left for it.
IdLeft ==
  Cardinality(SessionIds \ issued)
    > Cardinality({r \in Starting : go[r].session = NoSession})

\* Bound: cancelled polling goroutines that have not returned yet.
FewLate(v) == \A w \in PollWatchdogs : Cardinality(ctx[v][w].late) < MaxLate

\* The first check of the handler: an OBSERVER token needs a locked vehicle,
\* any other caller goes on to the connection check.
PostSessionStart(r, v, o) ==
  /\ "start" \in Endpoints
  /\ Idle(r) /\ IdLeft /\ FewLate(v)
  /\ IF o \in ObserverAccounts THEN IsVehicleLocked(v) ELSE Connected(v)
  /\ go' = [go EXCEPT ![r] =
       Spawn("start", v, NoSession, o, FALSE,
             (IF o \in ObserverAccounts THEN <<Handler("Connected", "")>> ELSE <<>>)
               \o <<Handler("StartSession", "")>>)]
  /\ UNCHANGED <<sessVars, ctx, conns, firing, busFailures, revoked, history>>

\* 409 when the vehicle has no registered connection.
CheckConnected(r) ==
  /\ Branching(r, "Connected")
  /\ Decide(r, IF Connected(go[r].vehicle) THEN Rest(r) ELSE <<>>)

\* The machine is only advanced for an ACTIVE_OPERATOR session.
HandleStartSession(r) ==
  /\ Branching(r, "StartSession")
  /\ \E s \in SessionIds :
       /\ StartSession(go[r].vehicle, go[r].operator, s)
       /\ go' = [go EXCEPT ![r] =
            Goes([@ EXCEPT !.session = s],
                 IF sessions'[s].role = "ACTIVE_OPERATOR"
                 THEN advanceVehicleToActiveOperator ELSE <<>>)]
  /\ UNCHANGED <<ctx, conns, firing, busFailures, revoked, history>>

-----------------------------------------------------------------------------
(* POST /session/end *)

\* With a session_id: the arrival is the GetSession call.  GET /sessions shows
\* an id as soon as StartSession has run, so the start may still be at work.
PostSessionEnd(r, s) ==
  /\ "end" \in Endpoints
  /\ Idle(r) /\ Live(s)
  /\ go' = [go EXCEPT ![r] =
       Spawn("end", sessions[s].vehicle, s, sessions[s].operator, FALSE,
             IF sessions[s].role = "ACTIVE_OPERATOR"
             THEN endActiveSession ELSE <<Manager("ReleaseSession")>>)]
  /\ UNCHANGED <<sessVars, ctx, conns, firing, busFailures, revoked, history>>

\* Fault: the loop of before ADR-026, over the vehicle of one session.
PostSessionEndAllOfOne(r) ==
  /\ "endAll" \in Endpoints
  /\ Idle(r)
  /\ Pursue(r, "endAll", {v \in ActiveVehicleIDs : IsVehicleLocked(v)})
  /\ \E v \in ActiveVehicleIDs :
       go' = [go EXCEPT ![r] =
         Spawn("endAll", NoConn, NoSession, NoConn, FALSE,
               ForEach(<<v>>, "EndVehicle") \o <<Manager("EndSession")>>)]
  /\ UNCHANGED <<sessVars, ctx, conns, firing, busFailures, revoked, sessionHistory>>

\* Without one: every active vehicle is reset, then every session is dropped.
PostSessionEndAll(r) ==
  /\ "endAll" \in Endpoints
  /\ Idle(r)
  /\ Pursue(r, "endAll", {v \in ActiveVehicleIDs : IsVehicleLocked(v)})
  /\ \E vs \in Orders(ActiveVehicleIDs) :
       go' = [go EXCEPT ![r] =
         Spawn("endAll", NoConn, NoSession, NoConn, FALSE,
               ForEach(vs, "EndVehicle") \o <<Manager("EndSession")>>)]
  /\ UNCHANGED <<sessVars, ctx, conns, firing, busFailures, revoked, sessionHistory>>

EndVehicle(r) ==
  /\ Branching(r, "EndVehicle")
  /\ LET v == Head(go[r].prog)[3]
     IN  go' = [go EXCEPT ![r] =
           Goes([@ EXCEPT !.vehicle = v, !.session = vehicleController[v]],
                (IF IsVehicleLocked(v) THEN stopWatchdogs \o <<System("IDLE")>>
                                       ELSE <<>>) \o Rest(r))]
  /\ UNCHANGED <<sessVars, ctx, conns, firing, busFailures, revoked, history>>

-----------------------------------------------------------------------------
(* POST /emergency-stop *)

stopCalls(v) ==
  <<System("SAFE_MODE")>> \o
  (IF IsVehicleLocked(v) THEN <<Manager("SaveCheckpoint")>> ELSE <<>>)

PostEmergencyStop(r, v) ==
  /\ "stop" \in Endpoints
  /\ Idle(r)
  /\ Pursue(r, "stop", {v})
  /\ go' = [go EXCEPT ![r] =
       Spawn("stop", v, vehicleController[v], NoConn, FALSE, stopCalls(v))]
  /\ UNCHANGED <<sessVars, ctx, conns, firing, busFailures, revoked, sessionHistory>>

PostEmergencyStopAll(r) ==
  /\ "stopAll" \in Endpoints
  /\ Idle(r) /\ ActiveVehicleIDs # {}
  /\ Pursue(r, "stop", ActiveVehicleIDs)
  /\ \E vs \in Orders(ActiveVehicleIDs) :
       go' = [go EXCEPT ![r] =
         Spawn("stop", NoConn, NoSession, NoConn, FALSE, ForEach(vs, "StopVehicle"))]
  /\ UNCHANGED <<sessVars, ctx, conns, firing, busFailures, revoked, sessionHistory>>

StopVehicle(r) ==
  /\ Branching(r, "StopVehicle")
  /\ LET v == Head(go[r].prog)[3]
     IN  go' = [go EXCEPT ![r] =
           Goes([@ EXCEPT !.vehicle = v, !.session = vehicleController[v]],
                stopCalls(v) \o Rest(r))]
  /\ UNCHANGED <<sessVars, ctx, conns, firing, busFailures, revoked, history>>

\* POST /media/event: one call.
PostMediaEvent(v) ==
  /\ \E next \in MediaReports :
       ctx' = [ctx EXCEPT ![v].SM = TransitionMedia(@, next)]
  /\ UNCHANGED <<sessVars, conns, go, firing, busFailures, revoked, history>>

-----------------------------------------------------------------------------
(* Operator WebSocket *)

\* authenticateWS accepts any live session id, that of a start at work too; an
\* observer goes straight to its read loop.
ServeWS(c, s) ==
  /\ Idle(c) /\ Live(s) /\ FewLate(sessions[s].vehicle)
  /\ LET observer == sessions[s].role = "OBSERVER"
     IN  go' = [go EXCEPT ![c] =
           Spawn("operator", sessions[s].vehicle, s, sessions[s].operator, observer,
                 IF observer THEN <<>> ELSE <<Handler("Recover", "")>>)]
  /\ attached' = attached \cup {s}
  /\ UNCHANGED <<sessVars, ctx, conns, firing, busFailures, revoked, lostTo, grantor, pursued>>

Recover(c) ==
  /\ Branching(c, "Recover")
  /\ Decide(c, IF Sys(go[c].vehicle) = "SAFE_MODE" THEN recoverFromSafeMode ELSE <<>>)

\* processWSMessage: a message read in SAFE_MODE is dropped.
processWSMessage(c, cmd) ==
  /\ Reading(c, "operator")
  /\ Sys(go[c].vehicle) # "SAFE_MODE"
  /\ ctx[go[c].vehicle].SM.Control # "CONTROL_BLOCKED"
  /\ Decide(c, <<Handler("Refresh", cmd)>>)

\* The session is looked up again; CommandACKed is called in every case.
Refresh(c) ==
  /\ Branching(c, "Refresh")
  /\ LET observer == go[c].observer
     IN  IF ~Live(go[c].session)
         THEN Decide(c, On("ACKTimeoutWatcher", "CommandACKed"))
         ELSE \E calls \in Handle(Head(go[c].prog)[3], observer) :
                Decide(c,
                  (IF observer THEN <<>> ELSE On("ACKTimeoutWatcher", "CommandReceived"))
                  \o calls \o On("ACKTimeoutWatcher", "CommandACKed"))

\* Needs a registered connection, and its write may fail.
ForwardCommand(v) == {FALSE, Connected(v)}

\* A command that was written is to be acknowledged by the vehicle.
Forward(c) ==
  /\ Branching(c, "Forward")
  /\ \E sent \in ForwardCommand(go[c].vehicle) :
       Decide(c, (IF sent THEN On("VehicleACKWatchdog", "CommandForwarded") ELSE <<>>)
                 \o Rest(c))

\* The socket fails or is closed: handleWSDisconnect.
Disconnect(c) ==
  /\ Reading(c, "operator")
  /\ go' = [go EXCEPT ![c] =
       Spawn("closing", @.vehicle, @.session, @.operator, @.observer,
             IF go[c].observer
             THEN <<Manager("ReleaseSession")>>
             ELSE On("Deadman", "Stop") \o On("AuthWatchdog", "Stop")
                    \o <<Handler("StillActive", "")>>)]
  /\ UNCHANGED <<sessVars, ctx, conns, firing, busFailures, revoked, history>>

\* After session/end the close is intentional and nothing else happens.
StillActive(c) ==
  /\ Branching(c, "StillActive")
  /\ Decide(c, IF Live(go[c].session) THEN <<Handler("StopUnlessSafe", "")>> ELSE <<>>)

StopUnlessSafe(c) ==
  /\ Branching(c, "StopUnlessSafe")
  /\ Decide(c, IF Sys(go[c].vehicle) # "SAFE_MODE"
               THEN stopOnDisconnect ELSE <<Manager("SaveCheckpoint")>>)

-----------------------------------------------------------------------------
(* Vehicle WebSocket *)

\* Replaces whatever connection the vehicle had.
register(k, v) == conns' = [conns EXCEPT ![v] = k]

ServeVehicleWS(k, v) ==
  /\ Idle(k)
  /\ register(k, v)
  /\ go' = [go EXCEPT ![k] = Spawn("vehicle", v, NoSession, NoConn, FALSE, <<>>)]
  /\ UNCHANGED <<sessVars, ctx, firing, busFailures, revoked, history>>

VehicleAck(k) ==
  /\ Reading(k, "vehicle")
  /\ ctx' = [ctx EXCEPT ![go[k].vehicle].VehicleACKWatchdog = ACKReceived(@)]
  /\ UNCHANGED <<sessVars, conns, go, firing, busFailures, revoked, history>>

\* The read loop's deferred stop runs before the deferred unregister.
VehicleDisconnect(k) ==
  /\ Reading(k, "vehicle")
  /\ go' = [go EXCEPT ![k] =
       Spawn("lost", @.vehicle, @.session, @.operator, @.observer,
             (IF Sys(go[k].vehicle) # "SAFE_MODE" THEN <<System("SAFE_MODE")>> ELSE <<>>)
               \o <<Handler("Unregister", "")>>)]
  /\ UNCHANGED <<sessVars, ctx, conns, firing, busFailures, revoked, history>>

\* Deletes the vehicle's entry, whichever connection it names.
unregister(k) == conns' = [conns EXCEPT ![go[k].vehicle] = NoConn]

Unregister(k) ==
  /\ Branching(k, "Unregister")
  /\ unregister(k)
  /\ go' = [go EXCEPT ![k] = Goes(@, Rest(k))]
  /\ UNCHANGED <<sessVars, ctx, firing, busFailures, revoked, history>>

-----------------------------------------------------------------------------
(* Watchdogs *)

TimerElapses(v, w) ==
  /\ w \in Elapsing /\ CanElapse(ctx[v][w])
  /\ ctx' = [ctx EXCEPT ![v][w] = Elapse(@)]
  /\ UNCHANGED <<sessVars, conns, go, firing, busFailures, revoked, history>>

FireOf(w, x) ==
  CASE w = "Deadman"            -> DeadmanFire(x)
    [] w = "ACKTimeoutWatcher"  -> ACKFire(x)
    [] w = "VehicleACKWatchdog" -> VehicleACKFire(x)

\* The callback's critical section.  Bound: one callback of a watchdog at a
\* time is between its mutex and its transition.
fire(v, w) ==
  /\ ctx[v][w].expired > 0 /\ w \notin firing[v]
  /\ ctx' = [ctx EXCEPT ![v][w] = FireOf(w, @)]
  /\ firing' = IF ctx[v][w].stopped
               THEN firing ELSE [firing EXCEPT ![v] = @ \cup {w}]
  /\ UNCHANGED <<sessVars, conns, go, busFailures, revoked, history>>

\* The callback's transition, after the audit write.
fireTransition(v, w) ==
  /\ w \in firing[v]
  /\ firing' = [firing EXCEPT ![v] = @ \ {w}]
  /\ ctx' = [ctx EXCEPT ![v].SM = TransitionSystem(@, "SAFE_MODE")]
  /\ PursueOn
  /\ UNCHANGED <<sessVars, conns, go, busFailures, revoked, sessionHistory>>

\* authcheck: the account is there and active.
IsActiveOperator(account) == account \notin revoked

\* telemetrycheck: the telemetry service has a sample of the vehicle that is
\* young enough, a stale one, none (404), or does not answer.
HasFreshTelemetry == BOOLEAN

\* What the check may find; an error counts as a failure.
Answers(w, r) ==
  {FALSE} \cup IF w = "AuthWatchdog" THEN {IsActiveOperator(r.account)}
               ELSE HasFreshTelemetry

\* The goroutine r after its next step, outside the machine.
RunSteps(w, r, cancelled) ==
  CASE r.phase = "wait" ->
         {[r EXCEPT !.phase = "checking"]} \cup (IF cancelled THEN {Ended} ELSE {})
    [] r.phase = "checking" ->
         {IF passed THEN CheckPassed(r, IF w = "AuthWatchdog" THEN "wait" ELSE "good")
          ELSE CheckFailed(r) : passed \in Answers(w, r)}
    [] r.phase = "good" -> {[r EXCEPT !.phase = "wait"]}
    [] r.phase = "bad"  -> IF w = "AuthWatchdog" THEN {Ended}
                                                 ELSE {[r EXCEPT !.phase = "wait"]}
    [] r.phase = "ended" -> {}

\* The machine after that step: only a verdict that is reported changes it.
Reported(w, r, m) ==
  CASE r.phase = "good" -> TransitionTelemetry(m, TRUE)
    [] r.phase = "bad" /\ w = "TelemetryWatchdog" -> TransitionTelemetry(m, FALSE)
    [] r.phase = "bad" /\ w = "AuthWatchdog" -> TransitionOperator(m, "NO_OPERATOR")
    [] OTHER -> m

\* The current polling goroutine takes a step.
Poll(v, w) ==
  LET r == ctx[v][w].run
  IN  \E next \in RunSteps(w, r, FALSE) :
        /\ ctx' = [ctx EXCEPT ![v][w].run = next, ![v].SM = Reported(w, r, @)]
        /\ PursueOn
        /\ UNCHANGED <<sessVars, conns, go, firing, busFailures, revoked, sessionHistory>>

\* A cancelled one does.
PollLate(v, w) ==
  \E r \in ctx[v][w].late : \E next \in RunSteps(w, r, TRUE) :
    /\ ctx' = [ctx EXCEPT
         ![v][w].late = (@ \ {r}) \cup (IF next = Ended THEN {} ELSE {next}),
         ![v].SM = Reported(w, r, @)]
    /\ PursueOn
    /\ UNCHANGED <<sessVars, conns, go, firing, busFailures, revoked, sessionHistory>>

\* An administrator disables or deletes an operator's account.
RevokeAccount(o) ==
  /\ "revoke" \in Endpoints
  /\ revoked' = revoked \cup {o}
  /\ UNCHANGED <<sessVars, ctx, conns, go, firing, busFailures, history>>

BusFailThreshold == 2

\* SafetyBusWatchdog.run: a health check that succeeds resets the count, the
\* second failure in a row triggers triggerSafeModeFleetWide.
PingBus ==
  /\ "bus" \in Endpoints
  /\ Idle(Bus)
  /\ \/ busFailures' = 0 /\ UNCHANGED <<go, pursued>>
     \/ /\ busFailures + 1 < BusFailThreshold
        /\ busFailures' = busFailures + 1 /\ UNCHANGED <<go, pursued>>
     \/ /\ busFailures + 1 >= BusFailThreshold
        /\ busFailures' = 0
        /\ Pursue(Bus, "bus", ActiveVehicleIDs)
        /\ \E vs \in Orders(ActiveVehicleIDs) :
             go' = [go EXCEPT ![Bus] =
               Goes(Spawn("bus", NoConn, NoSession, NoConn, FALSE, <<>>),
                    ForEach(vs, "StopActive"))]
  /\ UNCHANGED <<sessVars, ctx, conns, firing, revoked, sessionHistory>>

\* A vehicle already in SAFE_MODE is skipped.
StopActive ==
  /\ Branching(Bus, "StopActive")
  /\ LET v == Head(go[Bus].prog)[3]
     IN  go' = [go EXCEPT ![Bus] =
           Goes([@ EXCEPT !.vehicle = v],
                (IF Sys(v) = "SAFE_MODE" THEN <<>> ELSE <<System("SAFE_MODE")>>)
                  \o Rest(Bus))]
  /\ UNCHANGED <<sessVars, ctx, conns, firing, busFailures, revoked, history>>

-----------------------------------------------------------------------------
Busy(t) == go[t].prog # <<>>

\* The next call of the handler that t runs.
Step(t) ==
  \/ VehicleCall(t)
  \/ SessionCall(t)
  \/ CheckConnected(t) \/ HandleStartSession(t)
  \/ EndVehicle(t) \/ StopVehicle(t)
  \/ Recover(t) \/ Refresh(t) \/ Forward(t)
  \/ StillActive(t) \/ StopUnlessSafe(t)
  \/ Unregister(t)
  \/ t = Bus /\ StopActive

\* What operators, vehicles and administrators may do at any time.
Environment ==
  \/ \E r \in Requests, v \in Vehicles, o \in Operators : PostSessionStart(r, v, o)
  \/ \E r \in Requests, s \in SessionIds : PostSessionEnd(r, s)
  \/ \E r \in Requests : PostSessionEndAll(r) \/ PostEmergencyStopAll(r)
  \/ \E r \in Requests, v \in Vehicles : PostEmergencyStop(r, v)
  \/ \E v \in Vehicles : PostMediaEvent(v)
  \/ \E c \in Conns, s \in SessionIds : ServeWS(c, s)
  \/ \E c \in Conns, cmd \in Commands : processWSMessage(c, cmd)
  \/ \E c \in Conns : Disconnect(c)
  \/ \E k \in VConns, v \in Vehicles : ServeVehicleWS(k, v)
  \/ \E k \in VConns : VehicleAck(k) \/ VehicleDisconnect(k)
  \/ \E o \in Operators : RevokeAccount(o)

\* The server's own goroutines.
Server ==
  \/ \E t \in Threads : Step(t)
  \/ \E v \in Vehicles, w \in TimerWatchdogs :
       TimerElapses(v, w) \/ fire(v, w) \/ fireTransition(v, w)
  \/ \E v \in Vehicles, w \in PollWatchdogs : Poll(v, w) \/ PollLate(v, w)
  \/ PingBus

Next == Environment \/ Server

Spec == Init /\ [][Next]_vars

\* Every goroutine is scheduled, every ticker ticks and every call of a handler
\* returns, although the account check and the audit INSERT before a stop have
\* no deadline.  Nothing is assumed of operators, vehicles and timers that may
\* be reset.
Fairness ==
  /\ \A t \in Threads : WF_vars(Busy(t) /\ Step(t))
  /\ \A v \in Vehicles, w \in Elapsing :
       WF_vars(fire(v, w)) /\ WF_vars(fireTransition(v, w))
  /\ \A v \in Vehicles, w \in Pollers : WF_vars(Poll(v, w))

FairSpec == Spec /\ Fairness

-----------------------------------------------------------------------------
(* Properties *)

\* No handler is between two calls and no fired watchdog has yet to report.
Quiet ==
  /\ \A t \in Threads : go[t].prog = <<>>
  /\ \A v \in Vehicles : firing[v] = {}

InControl(v) == Controlling(ctx[v].SM)

\* Every variable keeps its type.
ServerTypeOK ==
  /\ SessTypeOK
  /\ \A v \in Vehicles :
       /\ ctx[v].SM \in MachineType
       /\ \A w \in TimerWatchdogs : ctx[v][w] \in Watchdog
       /\ \A w \in PollWatchdogs : \A r \in ctx[v][w].late \cup {ctx[v][w].run} :
            r.phase \in Phase /\ r.failures \in 0..FailThreshold-1
       /\ conns[v] \in VConns \cup {NoConn}
       /\ firing[v] \subseteq TimerWatchdogs
  /\ \A t \in Threads : go[t].session \in SessionIds \cup {NoSession}
  /\ busFailures \in 0..BusFailThreshold-1
  /\ revoked \subseteq Operators

\* The watchdog would react; the auth poller, to the account of the operator
\* whose session holds the vehicle.
Enabled(v, w) ==
  IF w = "Deadman" THEN ~ctx[v].Deadman.stopped
  ELSE /\ ctx[v][w].run.phase # "ended"
       /\ w = "AuthWatchdog" =>
            ctx[v][w].run.account = sessions[vehicleController[v]].operator

\* A vehicle that a session controls, with no handler at work, has its dead-man
\* switch and its pollers enabled, and the account that is polled is that of
\* its operator, unless the last handler that started or stopped one of them
\* acted for a session that did not control the vehicle (a start, a WebSocket
\* or a session/end that outlived its session): no other interleaving of
\* starts, ends, reconnects, stops and timeouts loses supervision.
SupervisionLostOnlyToOthers ==
  \A v \in Vehicles : Quiet /\ InControl(v) /\ IsVehicleLocked(v) =>
    \A w \in {"Deadman"} \cup Pollers : Enabled(v, w) \/ w \in lostTo[v]

\* A vehicle whose session had a WebSocket open when control was granted, or
\* has had one since, is under control only while one is open.
Attended(v, s) ==
  Quiet /\ InControl(v) /\ vehicleController[v] = s /\ s \in attached => Open(s)

\* ADR-009: no vehicle stays under the control of a session whose operator has
\* gone, however connects, disconnects, recoveries and stops overlap, as long
\* as it is a handler of that session that gave it the control.
UnattendedOnlyThroughOthers ==
  \A v \in Vehicles, s \in SessionIds : grantor[v] = s => Attended(v, s)

\* main.go 452: "every active vehicle must be reset", and 588 for the stop: when
\* a fleet-wide session/end, an emergency stop or the safety-bus watchdog is
\* through, each active vehicle that was under control when it began (for the
\* reset: that a session held, in SAFE_MODE too) has left that state at least
\* once since, also when sockets, timers, starts and other stops act on the
\* fleet during the loop.  A vehicle whose session another request has released
\* is that request's to reset.
NoVehicleLeftBehind ==
  \A t \in Sweepers : Idle(t) => pursued[t] = {}

\* ADR-011, NO_OPERATOR => SAFE_MODE: a vehicle under control always has an
\* operator once the handlers have finished, although SYSTEM and OPERATOR are
\* written by separate calls of handlers that overlap.
ControlHasAnOperator ==
  \A v \in Vehicles : Quiet /\ InControl(v) => ctx[v].SM.Operator # "NO_OPERATOR"

\* No interleaving leaves a vehicle in CONNECTING, AUTHENTICATED or RECOVERING
\* with nobody left to take it further: those states are only left by the
\* handler that entered them, or for SAFE_MODE.
NeverStuckInTransit ==
  \A v \in Vehicles :
    Quiet => Sys(v) \in {"IDLE", "CONNECTED", "DEGRADED", "SAFE_MODE"}

\* The start that made s has answered.
Answered(s) == \A r \in Starting : go[r].session # s

\* main.go 588: "every vehicle with an active session goes to SAFE_MODE".
\* The emergency stop of a vehicle whose session has been started takes effect.
EmergencyStopStops ==
  [][\A r \in Requests, v \in Vehicles :
       /\ go[r].as = "stop" /\ go[r].vehicle = v
       /\ VehicleCall(r)
       /\ IsVehicleLocked(v) /\ Answered(vehicleController[v])
       => ctx'[v].SM.System = "SAFE_MODE"]_vars

\* ADR-009: an operator's WebSocket that closes stops the vehicle it controls,
\* unless its session is ended or the operator is back.  One that closes before
\* the start has been granted control is no operator to lose.
LostOperatorStops ==
  \A c \in Conns, s \in SessionIds :
    go[c].as = "closing" /\ go[c].session = s /\ ~go[c].observer /\ s \in attached
      ~> \/ ~Live(s)
         \/ \E v \in Vehicles : vehicleController[v] = s /\ ~InControl(v)
         \/ \E d \in Conns : go[d].as = "operator" /\ go[d].session = s

\* ADR-009 "Auth Invalidation": a vehicle under control of an operator whose
\* account was revoked does not stay under control, unless the poller was last
\* started or stopped for a session that did not control the vehicle.
RevokedOperatorLosesControl ==
  \A s \in SessionIds, v \in Vehicles :
    ActiveOperator(s) /\ sessions[s].vehicle = v /\ sessions[s].operator \in revoked
      ~> ~Live(s) \/ ~InControl(v) \/ "AuthWatchdog" \in lostTo[v]
=============================================================================
