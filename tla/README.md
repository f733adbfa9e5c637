# A TLA+ verification project for AVOC

AVOC lets operators drive vehicles remotely. The **control server**
(`cmd/control-server`, `internal/controlserver`, `internal/vehicleconnection`)
decides whether a vehicle may move. Around it, the **auth service** signs tokens
and keeps the accounts, the **WebRTC SFU** and MediaMTX carry video, and the
**fleet service** keeps tasks, alerts and vehicle status. This project models
these parts as they are written in Go, checks them with TLC on small instances
and proves what it can with TLAPS for instances of any size.

## 1. Inventory

### Components, state and operations

| Component | State | Operations | What makes it correct |
|---|---|---|---|
| State machine, `statemachine/state.go` | four layers SYSTEM, CONTROL, MEDIA, OPERATOR and the set of DEGRADED reasons, one mutex | `TransitionSystem`, `TransitionToConnected`, `TransitionMedia`, `TransitionTelemetry`, `TransitionOperator` | layers agree; every cause of DEGRADED is remembered; losing the operator stops; control is only granted out of AUTHENTICATED |
| Session manager (GSA), `session/manager.go` | sessions, `vehicleController` (the lock), checkpoint | `StartSession`, `ReleaseSession`, `EndSession`, `UpdateOperator`, `SaveCheckpoint`, `PushSFUEvent` | one controller per vehicle; lock and roles agree |
| Handover, `session/handover.go` | pending handovers, one mutex for all vehicles | `RequestHandover`, `ConfirmHandover`, `CancelHandover` | a pending vehicle can be resolved; supervision follows the operator |
| Timer watchdogs, `safety/detector.go` | a timer, a stopped flag | dead-man `Start/Reset/Stop/fire`, ACK timeout `CommandReceived/CommandACKed/fire`, vehicle ACK `Start/Stop/CommandForwarded/ACKReceived/fire` | enabled whenever a session controls; late callbacks harmless |
| Pollers, `safety/auth_watchdog.go`, `telemetrycheck/watchdog.go` | a goroutine, its cancel function, a failure count | `Start`, `Stop`, `run` | a revoked account costs its operator control |
| Safety-bus watchdog, `safety/bus_watchdog.go` | failure count | `run` | two failures in a row stop the fleet |
| Vehicle contexts, `vehiclecontext/registry.go` | one machine and its watchdogs per vehicle | `Get` | vehicles are isolated from each other (ADR-026) |
| Operator WebSocket, `transport/websocket.go`; `command/engine.go` | one goroutine per socket | connect and recover, message, disconnect | no control without an attending operator (ADR-009) |
| Vehicle WebSocket, `vehicleconnection` | registry vehicle → connection | register, ACK, disconnect, unregister | a vehicle that is lost stops |
| HTTP handlers, `cmd/control-server/main.go` | none of their own | session start/end, emergency stop, media event, handover, vehicle CRUD, MediaMTX read hook | a stop stops; a start that is answered is supervised |
| SFU event publisher and WebRTC SFU, `session/sfu_publisher.go`, `internal/webrtcsfu` | last event and routing per session, peer connections | session events over HTTP, offer, subscribe, ICE failure | no connection is lost open or closed while registered |
| MediaMTX client, `internal/mediamtx` | none | `KickVehicle` | a stopped vehicle's viewers are cut off |
| Auth service, `internal/authservice` | table `users`; signed tokens live outside it | login, refresh, handover and vehicle tokens, user administration, seeding | no token has a role nobody granted; no administrator removes the last one |
| Fleet tasks, `internal/fleetservice` | tables `tasks`, `task_status_history`, `vehicle_status` | create, status change, dispatch, backfill at start | legal transitions under concurrency; the history is what happened |
| Fleet alerts, positions and hub, `internal/fleetservice` | table `alerts`, position samples, tiers per vehicle, WebSocket clients with queues | evaluate, acknowledge, prune, broadcast | a low battery is alerted once; a slow dashboard blocks nobody |
| Fleet gateway, `internal/fleetgateway`, `cmd/fleet-service` | MQTT subscriptions | status and alert messages, dispatch | messages are processed in order, one at a time |
| Vehicle registry, `internal/vehicleregistry` | table `vehicles` | create, delete | foreign keys of the fleet tables hold |
| Safety service, telemetry service, audit, recording | caches, logs and tables | | inputs of the control server, or outputs nothing depends on |
| Frontend, vehicle mock | | | what they send is an input |

### Interaction

`session/start` takes the vehicle lock and walks the machine from IDLE to
CONNECTED, then starts the watchdogs. The operator opens a WebSocket; if the
machine is in SAFE_MODE, the connect recovers it. Messages go through the
command engine to the vehicle's socket. Watchdog callbacks and pollers run on
goroutines of their own and call the same machine. A closed WebSocket stops the
watchdogs and the vehicle, and keeps the session for a reconnect. `session/end`
stops the watchdogs, releases the session and resets the machine. Without a
session or vehicle id, the end and the emergency stop visit all active
vehicles one after the other; so does the safety-bus watchdog. Handover calls
change the operator of a running session; they ask the auth service for a token
on the way. Session events are posted to the SFU by goroutines nobody waits for.

The fleet service has its own database tables, which share `vehicles` with the
control server's registry. Its handlers issue several statements without a
transaction and then broadcast to the dashboards.

**What is hard.** Every shared object locks itself and only itself. A handler is
a *sequence* of atomic calls or statements, and between two of them every other
handler, late timer callback, cancelled poller, failing statement or crash may
come. Reads made before a call (is the session active? is the machine in
SAFE_MODE? is the vehicle locked? which status has the task?) are stale after
it. The `hazards` of `PROJECT.json` list these places by line.

## 2. Modules

```
Machine ──> VehicleStateMachine ──> VehicleStateMachineProofs
SessionManager ──> SessionManagerProofs
   └── INSTANCE VehicleLock

Machine, Watchdogs, SessionManager ──> ControlServer ──> MCControlServer
                                            └──> ControlServerProofs
Machine, SessionManager ──> Handover ──> HandoverWatch
                                └──> HandoverProofs
SessionManager ──> Media ──> MCMedia, MediaProofs
  (the three Proofs modules also extend SessionManagerProofs)

FleetTasks ──> MCFleetTasks, FleetTasksProofs
   └── INSTANCE TaskLifecycle
FleetLive ──> FleetLiveProofs
Accounts ──> MCAccounts, AccountsProofs
```

* **Machine** has the state machine as operators from the record before a call
  to the record after it. A refused transition returns the record unchanged, as
  the code returns an error without touching the state.
* **VehicleStateMachine** puts one `Machine` into an open environment: any call
  may come at any time, with the arguments that call sites in the repository
  use. `badReports` is a history variable: the causes last reported bad while the
  vehicle was under control.
* **VehicleLock** is the abstract promise of the session manager: a vehicle is
  free or held by one session, and an id that was used never holds again.
* **SessionManager** is `manager.go`. `issued` and `spent` record ids that
  were handed out or that held a lock; Go's ULIDs are never reused.
  `UpdateOperator` and `SaveCheckpoint` iterate over a Go map, whose order is
  random: the model picks any match.
* **Watchdogs** has the three timer watchdogs and the pollers as operators.
  `time.Timer.Stop` does not recall a callback that has begun. A watchdog
  therefore has a timer and a number `expired` of callbacks that wait for its
  mutex. A poller has a current goroutine and a set `late` of cancelled ones
  that have not returned.
* **ControlServer** composes machine, sessions, watchdogs, sockets and HTTP
  handlers. A goroutine is a record: what it is, the vehicle, session and
  operator its closure captured, and the calls it has yet to make. `Step` runs
  its next call. `VehicleCall` and `SessionCall` are calls on shared objects. The
  remaining steps are the handler's own reads and the branches they decide. Names
  such as `advanceVehicleToActiveOperator` and `processWSMessage` are those of the
  Go functions; each program lists the calls in the order of the code. A call is
  one step because each method holds its mutex from beginning to end, except
  `fire`, which unlocks before it reports: there the model has two steps (`fire`,
  `fireTransition`). A program is the concatenation of its calls; `On` leaves out
  the call on a watchdog the run does not have, as the code skips a nil one. A
  WebSocket may open as soon as its session is in the manager's table, since `GET
  /sessions` lists the id before the start has been answered. There are four
  history variables: `lostTo` holds the watchdogs that were last started or stopped
  for a session that did not control the vehicle, `attached` the live sessions with
  a WebSocket that was open when control was granted or was opened since, `grantor`
  the session whose handler last took a vehicle from AUTHENTICATED to CONNECTED, and
  `pursued`, for each request and the bus watchdog, the vehicles that were in a state
  it is to end when it began and have been in it ever since.
* **Handover** is `handover.go` over the session manager and the machines. The
  HandoverManager's mutex is the variable `call`: the handover call that is
  inside, and how far it is. `ConfirmHandover` keeps the mutex until the auth
  service answers, which may be never: the client has no timeout, and no property of
  this module assumes an answer. The handlers that start, end, stop and recover sessions do not
  take it and run between any two steps; they are whole steps here, because
  ControlServer already takes them apart.
* **HandoverWatch** adds each vehicle's account poller to Handover: which account
  it checks (`watched`), who starts and stops it, and accounts that are deleted
  at any time. A confirmed handover is one of the steps that leave it
  alone, as in the code.
* **Media** is the media side of a session: events under way to the SFU (`posts`),
  its table of events and routes, the peer connections with their negotiations,
  and the MediaMTX readers that an emergency stop kicks one HTTP call at a time.
* **TaskLifecycle** is the abstract promise of a `FleetStore`: the status of a
  task moves along pending, in progress, completed or cancelled. It has the
  operations of the in-memory `FakeFleetStore`, which the handler tests run
  against.
* **FleetTasks** is the Postgres store with its handlers. Every statement is one
  step; the conditional UPDATE has two, its snapshot and the row it locks, as READ
  COMMITTED has. Statements fail, the process crashes between any two steps,
  and a restart runs the backfill row by row. `past` is a history variable
  with every status a task had; `excused` holds finished tasks whose clear failed
  or that their vehicle reported late.
* **FleetLive** has the gateway callback (one goroutine, one message at a time),
  the alert engine's tiers, acknowledgements, position samples with their
  retention, the hub with its bounded queues, and the control server's changes
  to the table `vehicles`. A status may come without a battery reading. A restart of
  the process keeps the tables and loses the tiers, the queues and what was being
  processed. `DeleteVehicle` may come at any time: the control
  server's check that no session has the vehicle says nothing about fleet tables.
* **Accounts** is the auth service. A change by an administrator is two steps, the
  row that is read and the statement that follows from it; a login likewise. The
  handler parses the token a second time (`callerID`) and takes the caller for "" when
  the token has expired since the middleware let it through.
* The **MC** modules only add symmetry sets. The **Proofs** modules hold theorems.

Definitions introduced by a comment that begins with "Fault" are wrong versions
of the definition that follows them. They are used in no specification; each one
breaks a property when it takes the place of the right version, which shows
that the property notices that mistake.

What stands for what is in the `map` of `PROJECT.json`, with line numbers.

## 3. Runs

### Passing

| Run | Instance | Shows |
|---|---|---|
| `vehicle_machine` | one machine, all calls | layers stay consistent, causes are tracked, DEGRADED is lifted only when all clear, awareness reports never stop or resume, control is granted from AUTHENTICATED |
| `handover` | 2 vehicles, 2 operators, 3 sessions | lock and roles agree, one controller per vehicle, roles are fixed, the sessions implement `VehicleLock`, no vehicle is caught in HANDOVER_PENDING |
| `control_sessions` | 1 vehicle, 2 operators, 2 sessions, 1 request, 1 socket, the account poller, failing media | supervision is lost only to a handler that acts for a session without control; no vehicle stranded in CONNECTING, AUTHENTICATED or RECOVERING, none unattended that its own session put under control, none controlled without an operator |
| `control_liveness` | 1 session, 1 socket, commands, a late vehicle ACK, the account poller, account revocation, fairness | a lost operator and a revoked one lose control eventually |
| `control_fleet` | 2 vehicles, 2 sessions, an observer, 1 request, fleet-wide end, stop and bus failure | a fleet-wide end, an emergency stop or a bus failure leaves no vehicle behind that it was to end |
| `media` | 1 vehicle, 2 sessions, 2 peer connections, 1 event under way, 2 readers, 1 failing call | a connection is open exactly while it is registered; whoever watches a vehicle that `POST /emergency-stop` stopped is cut off although single calls fail |
| `accounts` | 2 names, 3 ids, 2 concurrent requests, 2 tokens, roles ADMIN and OBSERVER granted | tokens carry only roles that were granted; the last administrator is removed only by a request whose token expired while it was served or whose caller has lost the role |
| `fleet_tasks` | 1 vehicle, 2 tasks, 2 concurrent requests, 1 failure or crash | tasks implement `TaskLifecycle`, the history is sound, complete without failures and repaired by a restart, finished tasks are cleared, dashboards show only what was stored |
| `fleet_live` | 1 vehicle, 2 alerts, 1 request, 1 dashboard with a queue of 1, levels 9, 14, 20 and 25, 1 failure or restart, fairness | low batteries are alerted, once per crossing within a run of the process; events are stored before they are told; a dashboard that does not read blocks nobody |

### Disagreements found

Each run below checks a sentence of the repository and ends with a
counterexample. `findings` in `PROJECT.json` quotes the sentence.

1. `stop_after_reset`: `session/end` releases the session before it resets the
   machine. A session started in between is reset to IDLE, from which the
   emergency stop's transition is refused.
2. `revoked_after_handover`: a confirmed handover changes the session's operator
   and leaves the account poller on the previous account. The account of the operator
   who drives may be deleted, before the handover or after it, and nothing stops.
   With a handover that moves the poller too, the same property holds on the same
   instance.
3. `stale_from_status`: the CTE that reads `from_status` sees the statement's
   snapshot, the UPDATE the row as it is once the concurrent one has committed. Of two
   PATCHes the second records a change from `pending` that was one from
   `in_progress`; `HistoryIsSound` is what remains true of such a row.

Seen while modelling, without a run of their own:

* `handleWSDisconnect` stops the vehicle's dead-man switch before it asks whether
  its session is still active. When the socket of an ended session closes after a
  successor started, the successor controls the vehicle with the switch off. The
  account poller goes the same way, and a start that outlives its session may restart
  it for the account of the session that ended: the successor's account may then be
  deleted and nothing stops, against `009-failure-model.md:23`.
  `SupervisionLostOnlyToOthers` excuses these cases and states that no *other*
  interleaving loses supervision; without the excuse TLC reports them.
* A WebSocket may be opened with the id that `GET /sessions` lists, and closed again,
  while the start is still on its way to CONNECTED. The disconnect finds the machine
  in IDLE and stops nothing; the start goes on and leaves the vehicle CONNECTED with
  nobody at the controls. `attached` keeps this case apart.
* `EndSession` at the end of the fleet-wide `session/end` deletes every session, also
  one that started after the list of vehicles was read; its vehicle is not reset and
  keeps its state with no session.
* A reconnect reads SAFE_MODE and then resumes the vehicle in four calls, without
  asking again whose SAFE_MODE it is. Its session may have been ended meanwhile,
  and a successor may have started, connected and lost its operator: the vehicle is
  then resumed for the successor with nobody at the controls.
  `UnattendedOnlyThroughOthers` excuses this case (`grantor` is not the controlling
  session), and section 4 proves that it is the only one; without the excuse TLC
  reports it as soon as there are two sessions, two sockets, starts and ends.
* An observer's account is let through because the vehicle is locked; by the time
  `StartSession` runs the vehicle may be free, and the observer controls
  (`main.go:355` says otherwise).
* DEGRADED reasons are cleared on SAFE_MODE but not on IDLE, so a session that
  ends while DEGRADED hands its reasons to the next one.
* The vehicle ACK watchdog is not restarted by a recovery from SAFE_MODE;
  `SupervisionLostOnlyToOthers` leaves it out.
* `unregister` deletes a vehicle's entry whichever connection it names, so the old
  socket of a vehicle that reconnected removes the new connection.
* `handover.go` holds the mutex of all vehicles over an HTTP call that has no
  timeout, so that an auth service that hangs blocks every handover, against
  `handover.go:18-20`.
* `callerID` yields "" for a token that expired after the middleware accepted it, and
  `canModifyUser("", target)` admits every target: the last administrator can remove
  or demote themselves. Two administrators can also remove each other at once.
  `AdministratorsKeepOne` names these two ways and states that there is no third.
* A restart of fleet-service forgets the tiers: the first status of a battery that is
  still low stores its alert a second time.
* Only `POST /emergency-stop` kicks MediaMTX readers (`main.go:618`); other ways into
  SAFE_MODE do not, although `client.go:34` speaks of SAFE_MODE.
* A pending handover survives the end of its session.
* The telemetry watchdog's budget of 4 s may take 8 s: the age of a sample and the
  two polls add up.
* `store.go` says no endpoint deletes vehicles in production; `DELETE
  /vehicles/{id}` does.
* `buildHandlers` never gives the WebSocket handler its publisher, so
  `EventNoOperator` is not published.

### Bounds and why they are enough

* The slots (`Conns` of ControlServer, `VConns`, `Requests`, `Posts`) bound how
  many goroutines of a kind are active at once, not how many ever run: a slot is
  reused. `control_sessions` has two sessions and `control_fleet` two vehicles; two
  concurrent requests are in `stop_after_reset`, `accounts`, `fleet_tasks` and
  `stale_from_status`.
* What no ControlServer run has, for the size of the state space: two sockets, the
  timers of the dead-man switch and the ACK timeout elapsing, `DEADMAN_HOLD` and
  `DEADMAN_RELEASE`, the telemetry poller, and two concurrent requests beside sockets.
  The theorems of section 4 cover these for every invariant.
* `control_liveness` has one session. The instance with two was explored to 930 000
  states without a violation and does not finish in the time of a run. What a second
  session can do to the poller is the question of `SupervisionLostOnlyToOthers`, which
  is checked with two sessions and proved for any number;
  `RevokedOperatorLosesControl` excuses the vehicles whose poller was last started or
  stopped for a session without control, the one case that property leaves.
* `SessionIds`, `TaskIds`, `AlertIds`, `Ids` and Media's `Conns` bound what a
  behaviour creates, since these are not reused. `IdLeft` stops session requests
  when no id is left; an alert without an id is a failed insert. Two sessions are
  enough for a handler to outlive its session into the next; three user ids allow
  an account to be deleted and made again beside the seeded one.
* `media` has one event under way at a time. The instance with two has 6.7 million
  states and satisfies the same properties; it takes too long to be run every time.
* `MaxLate` bounds callbacks and cancelled pollers that have not finished.
  `FewLate` (fewer than `MaxLate` cancelled pollers) guards the environment's
  requests, never a server step; with `MaxLate` 1 a start or a connect waits until
  the cancelled poller has returned. The proofs have no such bound in them.
* `MaxFaults` bounds failures, crashes and restarts together; each property speaks of
  one.
* `MaxTokens` bounds the tokens valid at a time; a chain of refreshes and
  handovers takes one token after the other.
* `Levels`: 9 is critical in every tier; 14 enters a warning and keeps a critical
  battery critical; 20, itself a threshold, keeps a warning, takes critical back to
  warning and leaves a normal battery normal; 25, itself a threshold, clears. The band
  15 to 19 has no value: it does to a tier what a 14 followed by a 20 does. The proofs
  cover every level.
* A queue of one event is full after one broadcast, so that dropping happens.
* `fire` admits one callback of a watchdog between its mutex and its
  transition. A second could only repeat the transition to SAFE_MODE.
* `Commands`, `Endpoints`, `MediaReports`, `Elapsing` and `Pollers` select the
  inputs of a ControlServer run. A run leaves out inputs its question does not
  need; between them the runs use every endpoint. `Pollers` also reflects that a
  nil poller is a supported configuration. An ACK watchdog that is not in
  `Elapsing` is left out of the programs (`Absent`): it could only change its own
  state.
* `Quiet` states are those in which no handler is between two calls. Invariants
  about finished handlers are stated for them, because the handlers are not
  atomic and pass through intermediate states by design. Quiet states with
  control are reached in every ControlServer run.
* Symmetry covers vehicles, ids and slots, none of which is named by a
  specification. The runs with liveness use none.

### Fairness

* ControlServer: weak fairness of every goroutine's next call, of timer callbacks that
  are due and of the polling goroutines. The Go scheduler is fair, the mutexes are held
  for one call, and tickers tick. Two calls on the way to a stop have no deadline in the
  code, and the assumption is that they return: the account check
  (`authcheck/checker.go:34-38`) and the audit INSERT before the SAFE_MODE of a
  disconnect (`websocket.go:247`, `postgres_writer.go:45-46`). If one hangs, the stop
  behind it does not happen. Nothing is assumed of operators, vehicles,
  administrators, or of timers elapsing, which a reset may prevent forever.
* Handover: none, and no liveness property. The client that asks the auth service has
  no timeout, so nothing justifies assuming that the mutex is given back.
* HandoverWatch: the call inside the mutex goes on and a poller whose account is
  deleted finds it out. The run is a counterexample: even if both are granted, the
  vehicle is not stopped.
* FleetLive: weak fairness of the gateway's callback and of a handler's broadcast.
  Statements return; no dashboard has to read.

## 4. Proofs

TLAPS proves, for every value of the constants:

* `VehicleStateMachineProofs`: `TypeOK`, `ControlFollowsSystem`,
  `DegradedHasACause`, `BadReportsAreTracked` as invariants, and the action
  properties `RecoversOnlyWhenAllClear`, `AwarenessNeverStops`,
  `LosingTheOperatorStops` (which no run repeats) and
  `ControlGrantedFromAuthenticated`. The inductive invariant is `IInv`, the
  conjunction of the four, proved in one go because the action properties need it
  as a whole: a step that leaves DEGRADED empties the reasons, and only the
  tracking of bad reports turns that into "all clear"; that a report keeps CONTROL,
  and that control is granted only from AUTHENTICATED, rest on CONTROL following
  SYSTEM in the state before the step. Lemmas state the effect of each `Machine`
  operator on an arbitrary good record, and one step per action applies them.
* `SessionManagerProofs`: `LockMatchesRoles`, `OneControllerPerVehicle`,
  `RoleIsFixed` and the refinement `SessSpec => LockSpecification`, from
  `SessionAssumption` alone (the absent session is neither an id nor a session).
  The inductive invariant `SessInv` adds `IdsAreFresh`: a live session's id has been
  issued and a lock holder's id has been spent. Without it a reused id could
  hold two locks, and the abstract `Acquire` step could not be shown.
* `HandoverProofs`: `UsesSessionManager` shows that Handover implements `SessSpec`,
  which carries the session manager's theorems over (`HandoverKeepsOneController`,
  `HandoverKeepsRoles`); `PendingSafety` and `HandoverTypeCorrect` are invariants.
  `PendingIsResolvable` is not inductive: between the two writes of a cancel it
  fails. `HoInv` says instead that a pending vehicle has its entry *or* the call in
  the mutex is about to restore it (`EntryOrRestore`), and that every other call in
  the mutex has an entry (`CallHasEntry`), without which the token step could hand
  a vehicle to nobody.
* `ControlServerProofs`: every invariant and action property that the
  ControlServer runs check, for any number of vehicles, sessions, sockets and
  requests: `ServerTypeCorrect`, `TransitSafety`, `ControlSafety`,
  `AttendanceSafety`, `SupervisionSafety` and `FleetSafety`; and the
  refinement `ImplementsSessions`, through which the lock theorems of the session
  manager hold in the running server (`ServerKeepsTheLock`). The properties speak
  of quiet states; `ServerInv` says what the handlers that are still at work will
  do about a state that is not yet in order. It has two halves.
  *The goroutines* (`GoInv`): the calls left in a program are calls of that kind of
  handler (`Program`), and their order keeps promises (`Promises`): whoever has
  `RECOVERING` still to come has `AUTHENTICATED` after it, then
  `TransitionToConnected`, the operator and the watchdogs' `Start`; whoever
  has a `Stop` still to come has the release, or the check that stops the vehicle,
  after it. `Belongs` ties a goroutine to its session: while the session lives, it
  is a session of the goroutine's vehicle. *The vehicles* (`OwedInv`): a vehicle in
  transit is owed the call that takes it on (`TransitInv`), a vehicle resumed by
  its own session has a socket open or one that is closing and has yet to stop it
  (`AttendedInv`), and a watchdog that is off is owed its `Start`, or its session is
  being ended, or the vehicle is stopped, about to be stopped, or lost the watchdog
  to a stranger (`SupervisedInv`). None is inductive without the promises: it is the
  order of the calls that hands an obligation from one call to the next.
  `FleetSafety` rests on a second invariant, `PursuitInv`, about the loops over the
  fleet: a goroutine that still pursues a vehicle either has the vehicle's turn ahead of
  it in its program, or has turned to it and the transition that ends the vehicle's
  state is still to come. The turn of a reset is skipped when no session holds the
  vehicle any more; that the vehicle is then no longer pursued is why whoever releases
  a session takes over the reset (`LeaveTo`).
* `MediaProofs`: `MediaTypeCorrect`, `ConnectionSafety`, `StoppedVideoSafety`.
  `MediaInv` adds that events under way name sessions that had a vehicle
  (`EventInv`), that a registered peer's connection is its own
  (`PeersHaveConnections`), without which closing a replaced connection could close
  a stranger's, and that whoever has yet to be cut off reads the stopped vehicle
  until the readers are listed and is on the list afterwards (`KickInv`).
* `FleetTasksProofs`: `TasksImplementLifecycle`, the refinement of `TaskLifecycle`
  by the Postgres store, for any number of concurrent requests and failures. The
  invariant `TasksInv` says that a handler at work names a task that exists and a
  legal target. That the transition is legal comes from the guard that the
  UPDATE evaluates on the newest row, not from the status the handler has read.
  On top of it `AuditInv` gives `TasksTypeCorrect`, `HistorySoundness`,
  `HistoryCompleteness`, `RestartRepair`, `FinishedTaskSafety` and `ShownSafety`.
  Its core, `TrailInv`, relates three things: what a task went through (`past`),
  the rows of its history, and what the handlers between UPDATE and INSERT hold in
  hand. Two handlers never hold the same change, since a task enters a status
  at most once; hence no change is recorded twice, and without failures each
  change is recorded or in hand.
* `FleetLiveProofs`: `LiveTypeCorrect`, `EventSafety`, `LowBatterySafety` and
  `NoRepetition`, for any set of levels. `LiveInv` says that what the callback or a
  handler is about to announce is already stored and stays stored (`CallbackInv`,
  `HandlerInv`, `QueueInv`), and `TierInv` that the engine's tier brackets the last
  level while the alerts stored never run ahead of the tier and lag behind it
  only while one is being stored or after storing failed. A restart sets tier, level
  and alerts told back together, which is why both properties survive it. The lemma `TierBrackets`
  is the hysteresis: thresholds and clear levels never contradict each other.
* `AccountsProofs`: `AccountsTypeCorrect`, `RolesSafety` and
  `LastAdministratorSafety`, for any number of names and requests: there are two ways
  to remove the last administrator, and no third. `AccountsInv`
  adds to the types that a login under way carries a role its row had
  (`LoginsAreEarned`), that every row is in the history (`RowsAreHeld`) and that a
  change under way, unless its caller was taken for "", never comes to name its own
  caller's account (`ChangesAreOfOthers`), which holds because ids are not handed out twice.

What the proofs assume of the constants is what the modules' `ASSUME`s say, which
TLC evaluates in every run: markers such as `NoSession`, `NoConn` or `NoAlert` are
not values of what they stand in for, inputs are subsets of their types, and bounds
are natural numbers. `ServerAssumption` also has a finite set of vehicles: the loops
over the fleet visit them one after the other.

`ServerInv`, `MediaInv`, `AuditInv` and `LiveInv` also hold when TLC checks them on
the instances of section 3. The refinement theorems are about safety: `SessSpec`,
`LockSpecification` and `TasksFollowLifecycle` state no fairness.

Only model-checked: liveness under fairness (`LostOperatorStops`,
`RevokedOperatorLosesControl`, `SlowClientBlocksNobody`), which needs ENABLED and is
beyond the prover, and the counterexamples of the violation runs. Every invariant and action property of a passing run is proved.

## 5. What is not modelled

* Left out of modelled components: audit records, published safety events and the
  recorder (write-only), JWT validation (accounts are observers or operators),
  ping frames, the command sequence numbers and payloads, the token bucket's rate
  (any command may be refused), the last-ACK store (shown to people only), passwords
  and the flag `is_active`, which nothing sets to false.
* A `VehicleContext` is created on first access in the code and exists from the
  start in the model: a fresh one equals the initial one.
* The remote checks (account, telemetry, bus health) are nondeterministic
  answers; an error is always possible, and a revoked account never passes.
* Zones, stations and the read-only queries of the fleet service: no operation
  depends on what they hold, and they have no concurrency of their own.
* MediaMTX answers `listSessions` with every reader or not at all; the code reads the
  first page of the answer only and does not look at the HTTP status
  (`mediamtx/client.go:50-70`).
* `SupervisionLostOnlyToOthers` and `RevokedOperatorLosesControl` are about a server
  without handovers; HandoverWatch has them.
* The RTP loop `forwardTrack` of the SFU only reads the state that Media keeps.
* Safety service, telemetry service: caches whose answers are inputs here.
* Audit, recording: append-only. Vehicle mock, frontend: they produce inputs.
* Time: timeouts may elapse at any moment, so budgets in seconds are not checked.

## 6. Plan

Done: all modules of section 2 with the runs of section 3 and the proofs of
section 4. Open, in this order:

1. Each vehicle's machine inside **ControlServer** and **Handover** implements
   `VehicleStateMachine`, so that the theorems about the machine carry over as those
   of the session manager do.
2. The safety side of **HandoverWatch**: which account a poller checks between two
   handovers.
3. A model with time for the telemetry budget; the RTP loop of the SFU against
   routes that change.
