------------------------------ MODULE FleetLive ------------------------------
(***************************************************************************)
(* The live side of fleet-service: status and alert messages from vehicles *)
(* (fleetgateway, cmd/fleet-service), the battery thresholds of the        *)
(* AlertEngine, the alerts table, acknowledgements by operators, and the   *)
(* Hub that pushes every change to the dashboards (internal/fleetservice). *)
(*                                                                         *)
(* The tables outlive the process, what the engine and the hub remember    *)
(* does not.  The MQTT client hands over one message at a time, so its     *)
(* callbacks are one goroutine; HTTP handlers, the dashboards' writePumps  *)
(* and the control server's vehicle registry, which owns the vehicles      *)
(* table, interleave with its statements.                                  *)
(***************************************************************************)
EXTENDS Integers, Sequences

CONSTANTS
  Vehicles, AlertIds, Operators,
  Requests,           \* slots for acknowledge requests served concurrently
  Clients,            \* dashboards
  Levels,             \* battery percentages that vehicles report
  clientSendBuffer,   \* events a dashboard may lag behind
  NoAlert, NoOne,     \* no such row; NULL
  MaxFaults           \* bound: failed statements and restarts together

Normal == 0
Warning == 1
Critical == 2

Alert == [vehicle : Vehicles, severity : {Warning, Critical},
          acknowledgedBy : Operators \cup {NoOne}]

ASSUME LiveAssumption ==
  /\ Levels \subseteq 0 .. 100
  /\ clientSendBuffer \in Nat \ {0}
  /\ MaxFaults \in Nat
  /\ NoOne \notin Operators /\ NoAlert \notin Alert

batteryWarningThreshold == 20
batteryWarningClear == 25
batteryCriticalThreshold == 10
batteryCriticalClear == 15

VARIABLES
  registered,  \* table vehicles
  reported,    \* table vehicle_status: vehicles that have a row
  trail,       \* table vehicle_position_history: vehicles that have samples
  alerts,      \* table alerts: AlertIds -> row, or NoAlert
  tier,        \* AlertEngine.tier
  callback,    \* the gateway callback that is running
  handlers,    \* Requests -> the acknowledge handler's progress
  clients,     \* Hub.clients
  queues,      \* Clients -> the events waiting in the client's send channel
  subscribed,  \* the broker still knows our subscriptions
  faults,      \* failed statements and restarts so far
  told,        \* history: vehicleID -> the worst tier the running process stored
               \* an alert for since the battery was last above its clear level
  level,       \* history: vehicleID -> the level the process evaluated last
  lost         \* history: vehicles whose threshold alert it could not store

tables == <<registered, reported, trail, alerts>>
ghosts == <<told, level, lost>>
hub == <<clients, queues>>
vars == <<tables, tier, callback, handlers, hub, subscribed, faults, ghosts>>

NoMessage == [pc |-> "idle", kind |-> "status", vehicle |-> NoOne, level |-> 100,
              raise |-> Normal, alert |-> NoAlert]

Idle == [pc |-> "idle", alert |-> NoAlert]

Init ==
  /\ registered = {} /\ reported = {} /\ trail = {}
  /\ alerts = [a \in AlertIds |-> NoAlert]
  /\ tier = [v \in Vehicles |-> Normal]
  /\ callback = NoMessage
  /\ handlers = [r \in Requests |-> Idle]
  /\ clients = {} /\ queues = [c \in Clients |-> <<>>]
  /\ subscribed = TRUE
  /\ faults = 0
  /\ told = [v \in Vehicles |-> Normal]
  /\ level = [v \in Vehicles |-> 100]
  /\ lost = {}

Stored(a) == alerts[a] # NoAlert

Free == {a \in AlertIds : ~ Stored(a)}

-----------------------------------------------------------------------------
(* The hub *)

Push(type, key, to) ==
  /\ queues' = [c \in Clients |-> IF c \in to THEN Append(queues[c], <<type, key>>)
                                  ELSE queues[c]]
  /\ UNCHANGED clients

Full == {c \in clients : Len(queues[c]) >= clientSendBuffer}

\* Fault: Broadcast waits until every dashboard has room.
Blocking(type, key) == Full = {} /\ Push(type, key, clients)

\* A dashboard whose buffer is full misses the event; nobody waits for it.
Broadcast(type, key) == Push(type, key, clients \ Full)

Register(c) ==
  /\ c \notin clients
  /\ clients' = clients \cup {c}
  /\ UNCHANGED <<queues, tables, tier, callback, handlers, subscribed, faults, ghosts>>

Unregister(c) ==
  /\ c \in clients
  /\ clients' = clients \ {c}
  /\ queues' = [queues EXCEPT ![c] = <<>>]
  /\ UNCHANGED <<tables, tier, callback, handlers, subscribed, faults, ghosts>>

\* writePump sends the oldest event; a failed write ends in Unregister.
WritePump(c) ==
  /\ queues[c] # <<>>
  /\ queues' = [queues EXCEPT ![c] = Tail(@)]
  /\ UNCHANGED <<clients, tables, tier, callback, handlers, subscribed, faults, ghosts>>

-----------------------------------------------------------------------------
(* The alert engine *)

\* Fault: no hysteresis, a level leaves a tier where it entered it.
batteryTierFlapping(pct, now) ==
  IF pct < batteryCriticalThreshold THEN Critical
  ELSE IF pct < batteryWarningThreshold THEN Warning ELSE Normal

\* Fault: a drop straight to critical is taken for a warning first.
batteryTierStepwise(pct, now) ==
  IF now = Normal THEN IF pct < batteryWarningThreshold THEN Warning ELSE Normal
  ELSE IF pct < (IF now = Critical THEN batteryCriticalClear ELSE batteryCriticalThreshold)
       THEN Critical
       ELSE IF pct < batteryWarningClear THEN Warning ELSE Normal

batteryTier(pct, now) ==
  LET criticalBelow == IF now = Critical THEN batteryCriticalClear
                       ELSE batteryCriticalThreshold
      warningBelow == IF now = Normal THEN batteryWarningThreshold
                      ELSE batteryWarningClear
  IN  IF pct < criticalBelow THEN Critical
      ELSE IF pct < warningBelow THEN Warning ELSE Normal

\* BatteryPct == nil
NoReading == -1

\* What an alert stored for tier t still stands for at this level: past its
\* clear level an alert is over.
StillToldOf(t, pct) ==
  IF pct >= batteryWarningClear THEN Normal
  ELSE IF pct >= batteryCriticalClear /\ t = Critical THEN Warning ELSE t

-----------------------------------------------------------------------------
(* Messages from the vehicles *)

At(pc) == callback.pc = pc

Goto(pc) == callback' = [callback EXCEPT !.pc = pc]

Done == callback' = NoMessage

\* The broker delivers only what we are subscribed to.
StatusMessage(v, pct) ==
  /\ subscribed /\ At("idle")
  /\ callback' = [NoMessage EXCEPT !.pc = "register", !.vehicle = v, !.level = pct]
  /\ UNCHANGED <<tables, tier, handlers, hub, subscribed, faults, ghosts>>

AlertMessage(v, severity) ==
  /\ subscribed /\ At("idle")
  /\ callback' = [NoMessage EXCEPT !.pc = "register", !.kind = "alert", !.vehicle = v,
                                   !.raise = severity]
  /\ UNCHANGED <<tables, tier, handlers, hub, subscribed, faults, ghosts>>

\* paho reconnects by itself with a clean session; NewMQTTGateway subscribed
\* once, and nothing subscribes again.
ConnectionLost ==
  /\ subscribed
  /\ subscribed' = FALSE
  /\ UNCHANGED <<tables, tier, callback, handlers, hub, faults, ghosts>>

EnsureVehicleExists ==
  /\ At("register")
  /\ registered' = registered \cup {callback.vehicle}
  /\ Goto(IF callback.kind = "alert" THEN "create" ELSE "upsert")
  /\ UNCHANGED <<reported, trail, alerts, tier, handlers, hub, subscribed, faults, ghosts>>

\* Violates the foreign key, and drops the message, when the vehicle was
\* deleted in between.
UpsertVehicleStatus ==
  /\ At("upsert")
  /\ IF callback.vehicle \in registered
     THEN reported' = reported \cup {callback.vehicle} /\ Goto("record")
     ELSE Done /\ UNCHANGED reported
  /\ UNCHANGED <<registered, trail, alerts, tier, handlers, hub, subscribed, faults,
                 ghosts>>

\* No sample when the position is unknown or the last sample is recent.
RecordPositionHistory ==
  /\ At("record")
  /\ trail' = trail \cup {callback.vehicle} \/ UNCHANGED trail
  /\ Goto("announce")
  /\ UNCHANGED <<registered, reported, alerts, tier, handlers, hub, subscribed, faults,
                 ghosts>>

\* The retention loop: the vehicle's samples are all too old.
PruneVehiclePositionHistory(v) ==
  /\ v \in trail
  /\ trail' = trail \ {v}
  /\ UNCHANGED <<registered, reported, alerts, tier, callback, handlers, hub, subscribed,
                 faults, ghosts>>

BroadcastStatus ==
  /\ At("announce")
  /\ Broadcast("vehicle_status", callback.vehicle)
  /\ Goto("evaluate")
  /\ UNCHANGED <<tables, tier, handlers, subscribed, faults, ghosts>>

\* AlertEngine.Evaluate of a status without a battery reading.
EvaluateNoReading ==
  /\ At("evaluate") /\ callback.level = NoReading
  /\ Done
  /\ UNCHANGED <<tables, tier, handlers, hub, subscribed, faults, ghosts>>

\* AlertEngine.Evaluate: a worse tier is an alert, and the tier is remembered
\* before the alert is stored.
Evaluate ==
  LET v == callback.vehicle
      pct == callback.level
      next == batteryTier(pct, tier[v])
  IN  /\ At("evaluate") /\ pct # NoReading
      /\ tier' = [tier EXCEPT ![v] = next]
      /\ level' = [level EXCEPT ![v] = pct]
      /\ told' = [told EXCEPT ![v] = StillToldOf(@, pct)]
      /\ lost' = IF pct >= batteryWarningClear THEN lost \ {v} ELSE lost
      /\ IF next > tier[v]
         THEN callback' = [callback EXCEPT !.pc = "create", !.raise = next]
         ELSE Done
      /\ UNCHANGED <<tables, handlers, hub, subscribed, faults>>

InsertAlert ==
  /\ \E a \in Free :
       /\ alerts' = [alerts EXCEPT ![a] = [vehicle |-> callback.vehicle,
                                           severity |-> callback.raise,
                                           acknowledgedBy |-> NoOne]]
       /\ callback' = [callback EXCEPT !.pc = "created", !.alert = a]
  /\ told' = IF callback.kind = "status"
             THEN [told EXCEPT ![callback.vehicle] = callback.raise] ELSE told
  /\ UNCHANGED <<registered, reported, trail, tier, handlers, hub, subscribed, faults,
                 level, lost>>

\* Fault: alerts.vehicle_id has lost its REFERENCES clause.
CreateAlertUnreferenced == At("create") /\ InsertAlert

\* Bound: a run ends its alerts with AlertIds; no id left is a failed insert.
CreateAlert == At("create") /\ callback.vehicle \in registered /\ InsertAlert

BroadcastAlert ==
  /\ At("created")
  /\ Broadcast("alert_created", callback.alert)
  /\ Done
  /\ UNCHANGED <<tables, tier, handlers, subscribed, faults, ghosts>>

\* A failed statement ends the callback with a log line.
GiveUp ==
  /\ lost' = IF At("create") /\ callback.kind = "status"
             THEN lost \cup {callback.vehicle} ELSE lost
  /\ Done
  /\ UNCHANGED <<tables, tier, handlers, hub, subscribed, told, level>>

\* A position sample that cannot be stored is the exception: it must not hold
\* back the status.
StatementFails ==
  /\ callback.pc \in {"register", "upsert", "record", "create"}
  /\ faults < MaxFaults
  /\ faults' = faults + 1
  /\ IF At("record")
     THEN Goto("announce") /\ UNCHANGED <<tables, tier, handlers, hub, subscribed, ghosts>>
     ELSE GiveUp

\* The insert violates the foreign key, or the bound on alerts is reached.
CreateAlertRefused ==
  /\ At("create")
  /\ callback.vehicle \notin registered \/ Free = {}
  /\ GiveUp
  /\ UNCHANGED faults

-----------------------------------------------------------------------------
(* Operators *)

\* Fault: every dashboard is told before the row is updated.
AcknowledgeAlertAnnounced(r, a, o) ==
  /\ handlers[r].pc = "idle" /\ Stored(a)
  /\ handlers' = [handlers EXCEPT ![r] = [pc |-> "broadcast", alert |-> a]]
  /\ UNCHANGED <<tables, tier, callback, hub, subscribed, faults, ghosts>>

SetAcknowledged(a, o) ==
  /\ Stored(a)
  /\ alerts' = [alerts EXCEPT ![a] = [@ EXCEPT !.acknowledgedBy = o]]

\* An alert may be acknowledged again; an unknown one is a 404.
AcknowledgeAlert(r, a, o) ==
  /\ handlers[r].pc = "idle"
  /\ SetAcknowledged(a, o)
  /\ handlers' = [handlers EXCEPT ![r] = [pc |-> "broadcast", alert |-> a]]
  /\ UNCHANGED <<registered, reported, trail, tier, callback, hub, subscribed, faults, ghosts>>

BroadcastAcknowledged(r) ==
  /\ handlers[r].pc = "broadcast"
  /\ Broadcast("alert_acknowledged", handlers[r].alert)
  /\ handlers' = [handlers EXCEPT ![r] = Idle]
  /\ UNCHANGED <<tables, tier, callback, subscribed, faults, ghosts>>

-----------------------------------------------------------------------------
(* The control server's vehicle endpoints, on the same table *)

\* POST /vehicles: 409 when the vehicle exists.
CreateVehicle(v) ==
  /\ v \notin registered
  /\ registered' = registered \cup {v}
  /\ UNCHANGED <<reported, trail, alerts, tier, callback, handlers, hub, subscribed, faults,
                 ghosts>>

\* The DELETE of PostgreSQL: a vehicle with a status or an alert is referenced
\* and stays; samples would go with it, but none comes before a status.
DeleteRow(v) ==
  /\ v \in registered \ reported
  /\ \A a \in AlertIds : Stored(a) => alerts[a].vehicle # v
  /\ registered' = registered \ {v}

DeleteVehicle(v) ==
  /\ DeleteRow(v)
  /\ UNCHANGED <<reported, trail, alerts, tier, callback, handlers, hub, subscribed, faults,
                 ghosts>>

-----------------------------------------------------------------------------
\* The process ends and starts again: main builds a new engine, hub and gateway
\* over the same tables, and the dashboards have to connect again.
Restart ==
  /\ faults < MaxFaults
  /\ faults' = faults + 1
  /\ tier' = [v \in Vehicles |-> Normal]
  /\ callback' = NoMessage
  /\ handlers' = [r \in Requests |-> Idle]
  /\ clients' = {} /\ queues' = [c \in Clients |-> <<>>]
  /\ subscribed' = TRUE
  /\ told' = [v \in Vehicles |-> Normal]
  /\ level' = [v \in Vehicles |-> 100]
  /\ lost' = {}
  /\ UNCHANGED tables

Gateway ==
  \/ EnsureVehicleExists
  \/ UpsertVehicleStatus
  \/ RecordPositionHistory
  \/ BroadcastStatus
  \/ Evaluate \/ EvaluateNoReading
  \/ CreateAlert
  \/ CreateAlertRefused
  \/ BroadcastAlert

Next ==
  \/ \E v \in Vehicles, pct \in Levels \cup {NoReading} : StatusMessage(v, pct)
  \/ \E v \in Vehicles, s \in {Warning, Critical} : AlertMessage(v, s)
  \/ Gateway
  \/ StatementFails
  \/ ConnectionLost
  \/ Restart
  \/ \E r \in Requests, a \in AlertIds, o \in Operators : AcknowledgeAlert(r, a, o)
  \/ \E r \in Requests : BroadcastAcknowledged(r)
  \/ \E c \in Clients : Register(c) \/ Unregister(c) \/ WritePump(c)
  \/ \E v \in Vehicles :
       CreateVehicle(v) \/ DeleteVehicle(v) \/ PruneVehiclePositionHistory(v)

Spec == Init /\ [][Next]_vars

\* Goroutines run and statements return; no dashboard has to read.
FairSpec ==
  /\ Spec
  /\ WF_vars(Gateway)
  /\ \A r \in Requests : WF_vars(BroadcastAcknowledged(r))

-----------------------------------------------------------------------------
\* Tables satisfy their foreign keys and no queue outgrows its channel.
LiveTypeOK ==
  /\ trail \subseteq reported /\ reported \subseteq registered /\ registered \subseteq Vehicles
  /\ alerts \in [AlertIds -> Alert \cup {NoAlert}]
  /\ \A a \in AlertIds : Stored(a) => alerts[a].vehicle \in registered
  /\ clients \subseteq Clients
  /\ tier \in [Vehicles -> {Normal, Warning, Critical}]
  /\ \A c \in Clients : Len(queues[c]) <= clientSendBuffer

\* Dashboards are only told of alerts and acknowledgements that are stored.
EventsAreStored ==
  \A c \in Clients :
    \A i \in DOMAIN queues[c] :
      LET type == queues[c][i][1]
          key == queues[c][i][2]
      IN  /\ type = "vehicle_status" => key \in reported
          /\ type = "alert_created" => Stored(key)
          /\ type = "alert_acknowledged" =>
               Stored(key) /\ alerts[key].acknowledgedBy # NoOne

\* A battery whose last level was low has been reported to the operators with an
\* alert that is bad enough, by the process that evaluated it, unless storing the
\* alert failed: the engine does not raise it again before the battery recovers.
LowBatteryIsAlerted ==
  \A v \in Vehicles \ lost :
    ~ (At("create") /\ callback.vehicle = v) =>
      /\ level[v] < batteryCriticalThreshold => told[v] = Critical
      /\ level[v] < batteryWarningThreshold => told[v] >= Warning

\* One alert per crossing and run of the process: a threshold alert is worse than
\* every one stored since the engine was made or the battery recovered past the
\* clear level, however the level jitters and readings are missing.  (The tiers
\* are not stored: a restart does repeat the alerts of the batteries still low.)
NoRepeatedAlert ==
  [][At("create") /\ callback.kind = "status" /\ callback'.pc = "created" =>
       callback.raise > told[callback.vehicle]]_vars

\* A dashboard that never reads its socket delays neither the gateway nor
\* another operator's request.
SlowClientBlocksNobody ==
  /\ ~ At("idle") ~> At("idle")
  /\ \A r \in Requests : handlers[r].pc = "broadcast" ~> handlers[r].pc = "idle"
=============================================================================
