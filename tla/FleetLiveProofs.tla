--------------------------- MODULE FleetLiveProofs ---------------------------
(***************************************************************************)
(* The live side of fleet-service for any number of vehicles, alerts,      *)
(* dashboards and concurrent requests, any battery level and any number of *)
(* failures and restarts.  One invariant per concern: the rows of the      *)
(* tables (TableInv), what the gateway callback and the acknowledge        *)
(* handlers have in hand between two statements (CallbackInv, HandlerInv), *)
(* what waits in the dashboards' queues (QueueInv), and how the alert      *)
(* engine's tier, the alerts stored and the last level hang together       *)
(* (TierInv).                                                              *)
(***************************************************************************)
EXTENDS FleetLive, TLAPS

\* Foreign keys and checks of the tables.
TableInv ==
  /\ trail \subseteq reported /\ reported \subseteq registered /\ registered \subseteq Vehicles
  /\ alerts \in [AlertIds -> Alert \cup {NoAlert}]
  /\ \A a \in AlertIds : Stored(a) => alerts[a].vehicle \in registered

Callback ==
  [pc : {"idle", "register", "upsert", "record", "announce", "evaluate", "create", "created"},
   kind : {"status", "alert"}, vehicle : Vehicles \cup {NoOne}, level : Int,
   raise : {Normal, Warning, Critical}, alert : AlertIds \cup {NoAlert}]

\* What a callback relies on is in the tables: its vehicle has a status row once
\* the status was stored, and the alert it announces is stored.
CallbackInv ==
  /\ callback \in Callback
  /\ callback.pc # "idle" => callback.vehicle \in Vehicles
  /\ callback.pc \in {"upsert", "record", "announce", "evaluate"} => callback.kind = "status"
  /\ callback.pc \in {"record", "announce", "evaluate"} => callback.vehicle \in reported
  /\ callback.pc = "create" \/ callback.kind = "alert" => callback.raise \in {Warning, Critical}
  /\ callback.pc = "created" => callback.alert \in AlertIds /\ Stored(callback.alert)

Acknowledged(a) == Stored(a) /\ alerts[a].acknowledgedBy # NoOne

\* An acknowledgement that is about to be announced is stored.
HandlerInv ==
  \A r \in Requests : handlers[r].pc = "broadcast" =>
    handlers[r].alert \in AlertIds /\ Acknowledged(handlers[r].alert)

HandlersTyped ==
  handlers \in [Requests -> [pc : {"idle", "broadcast"}, alert : AlertIds \cup {NoAlert}]]

\* The events a dashboard may be told of.
StoredEvents ==
  {e \in {"vehicle_status", "alert_created", "alert_acknowledged"} \X (Vehicles \cup AlertIds) :
     /\ e[1] = "vehicle_status" => e[2] \in reported
     /\ e[1] = "alert_created" => e[2] \in AlertIds /\ Stored(e[2])
     /\ e[1] = "alert_acknowledged" => e[2] \in AlertIds /\ Acknowledged(e[2])}

QueueInv ==
  /\ clients \subseteq Clients
  /\ queues \in [Clients -> Seq(StoredEvents)]
  /\ \A c \in Clients : Len(queues[c]) <= clientSendBuffer

Tier == {Normal, Warning, Critical}

\* The callback is about to store an alert of the engine for v.
Pending(v) == callback.pc = "create" /\ callback.kind = "status" /\ callback.vehicle = v

\* The engine's tier brackets the level it saw last.
TierFits(v) ==
  /\ level[v] < batteryCriticalThreshold => tier[v] = Critical
  /\ level[v] < batteryWarningThreshold => tier[v] # Normal
  /\ level[v] >= batteryCriticalClear => tier[v] # Critical
  /\ level[v] >= batteryWarningClear => tier[v] = Normal

\* The alerts stored never run ahead of the tier; they lag behind only while an
\* alert is being stored, or after storing one has failed.
TierInv ==
  /\ tier \in [Vehicles -> Tier] /\ told \in [Vehicles -> Tier] /\ level \in [Vehicles -> Int]
  /\ \A v \in Vehicles :
       /\ TierFits(v)
       /\ told[v] <= tier[v]
       /\ Pending(v) => callback.raise = tier[v] /\ told[v] < tier[v]
       /\ v \notin lost /\ ~ Pending(v) => told[v] = tier[v]

\* The inductive invariant.
LiveInv == TableInv /\ CallbackInv /\ HandlersTyped /\ HandlerInv /\ QueueInv /\ TierInv

-----------------------------------------------------------------------------
(* Facts about the operators *)

\* Whatever tier the battery was in, the next one brackets the level: the two
\* thresholds and the two clear levels never contradict each other.
LEMMA TierBrackets ==
  ASSUME NEW pct \in Int, NEW now \in Tier
  PROVE  /\ batteryTier(pct, now) \in Tier
         /\ pct < batteryCriticalThreshold => batteryTier(pct, now) = Critical
         /\ pct < batteryWarningThreshold => batteryTier(pct, now) # Normal
         /\ pct >= batteryCriticalClear => batteryTier(pct, now) # Critical
         /\ pct >= batteryWarningClear => batteryTier(pct, now) = Normal
BY DEF Tier, batteryTier, Normal, Warning, Critical, batteryCriticalThreshold,
   batteryCriticalClear, batteryWarningThreshold, batteryWarningClear

\* Hysteresis: a tier that falls has passed its clear level, so what was stored
\* for it may be stored again; one that stays or rises has not passed its own.
LEMMA TierFalls ==
  ASSUME NEW pct \in Int, NEW now \in Tier, NEW stored \in Tier, stored <= now
  PROVE  LET next == batteryTier(pct, now)
             kept == StillToldOf(stored, pct)
         IN  /\ kept \in Tier /\ kept <= next
             /\ next > now => kept <= now
             /\ stored = now /\ next <= now => kept = next
BY DEF Tier, batteryTier, StillToldOf, Normal, Warning, Critical, batteryCriticalThreshold,
   batteryCriticalClear, batteryWarningThreshold, batteryWarningClear

\* Rows are not deleted: what could be announced still can.
LEMMA EventsStayStored ==
  ASSUME reported \subseteq reported',
         \A a \in AlertIds : Stored(a) => Stored(a)',
         \A a \in AlertIds : Acknowledged(a) => Acknowledged(a)'
  PROVE  StoredEvents \subseteq StoredEvents'
BY DEF StoredEvents

\* Events of one kind of store are events of a larger one.
LEMMA QueuesWiden ==
  ASSUME NEW S, NEW T, S \subseteq T, NEW q \in Seq(S)
  PROVE  q \in Seq(T)
<1>1. q \in [1 .. Len(q) -> S] /\ Len(q) \in Nat
  OBVIOUS
<1>2. q \in [1 .. Len(q) -> T]
  BY <1>1
<1> QED
  BY <1>1, <1>2
-----------------------------------------------------------------------------
\* The service starts with empty tables and nothing in hand.
LEMMA InitLiveInv == Init => LiveInv
<1> SUFFICES ASSUME Init PROVE LiveInv
  OBVIOUS
<1>1. TableInv
  BY DEF Init, TableInv, Stored
<1>2. CallbackInv
  BY DEF Init, CallbackInv, Callback, NoMessage, Normal
<1>3. HandlersTyped /\ HandlerInv
  BY DEF Init, HandlersTyped, HandlerInv, Idle
<1>4. QueueInv
  <2>1. clientSendBuffer >= 0
    BY LiveAssumption
  <2> QED
    BY <2>1 DEF Init, QueueInv
<1>5. TierInv
  BY DEF Init, TierInv, TierFits, Pending, NoMessage, Tier, Normal, Warning, Critical,
     batteryCriticalThreshold, batteryCriticalClear, batteryWarningThreshold,
     batteryWarningClear
<1> QED
  BY <1>1, <1>2, <1>3, <1>4, <1>5 DEF LiveInv

-----------------------------------------------------------------------------
(* The tables *)

\* The row that an alert is stored as.
NewRow == [vehicle |-> callback.vehicle, severity |-> callback.raise, acknowledgedBy |-> NoOne]

\* A callback at "create" has a row to store.
LEMMA NewRowIsAlert ==
  ASSUME CallbackInv, callback.pc = "create"
  PROVE  NewRow \in Alert /\ NewRow # NoAlert /\ NewRow.vehicle = callback.vehicle
<1>1. callback.vehicle \in Vehicles /\ callback.raise \in {Warning, Critical}
  BY DEF CallbackInv
<1>2. NewRow \in Alert /\ NewRow.vehicle = callback.vehicle
  BY <1>1 DEF NewRow, Alert
<1> QED
  BY <1>2, LiveAssumption

\* Every step keeps the tables consistent and deletes neither a status, nor an
\* alert, nor its acknowledgement.
RowsStay ==
  /\ reported \subseteq reported'
  /\ \A a \in AlertIds : Stored(a) => Stored(a)'
  /\ \A a \in AlertIds : Acknowledged(a) => Acknowledged(a)'

\* Steps that leave the tables alone.
LEMMA TablesAlone == TableInv /\ UNCHANGED tables => TableInv' /\ RowsStay
BY DEF TableInv, RowsStay, tables, Stored, Acknowledged

\* The foreign keys hold after every statement, those of the control server's
\* DELETE included, and nothing that was announced disappears.
LEMMA TableStep ==
  ASSUME TableInv, CallbackInv, [Next]_vars
  PROVE  TableInv' /\ RowsStay
<1>0. alerts \in [AlertIds -> Alert \cup {NoAlert}]
  BY DEF TableInv
<1>1. ASSUME EnsureVehicleExists
      PROVE  TableInv' /\ RowsStay
  <2>1. callback.vehicle \in Vehicles
    BY <1>1 DEF EnsureVehicleExists, At, CallbackInv
  <2> QED
    BY <1>1, <2>1 DEF EnsureVehicleExists, TableInv, RowsStay, Stored, Acknowledged
<1>2. ASSUME UpsertVehicleStatus
      PROVE  TableInv' /\ RowsStay
  BY <1>2 DEF UpsertVehicleStatus, TableInv, RowsStay, Stored, Acknowledged
<1>3. ASSUME RecordPositionHistory
      PROVE  TableInv' /\ RowsStay
  <2>1. callback.vehicle \in reported
    BY <1>3 DEF RecordPositionHistory, At, CallbackInv
  <2> QED
    BY <1>3, <2>1 DEF RecordPositionHistory, TableInv, RowsStay, Stored, Acknowledged
<1>4. ASSUME CreateAlert
      PROVE  TableInv' /\ RowsStay
  <2>1. callback.pc = "create" /\ callback.vehicle \in registered
    BY <1>4 DEF CreateAlert, At
  <2>2. PICK a \in AlertIds : /\ ~ Stored(a) /\ alerts' = [alerts EXCEPT ![a] = NewRow]
    BY <1>4 DEF CreateAlert, InsertAlert, Free, NewRow
  <2>3. UNCHANGED <<registered, reported, trail>>
    BY <1>4 DEF CreateAlert, InsertAlert
  <2>4. NewRow \in Alert /\ NewRow.vehicle \in registered /\ NewRow # NoAlert
    BY <2>1, NewRowIsAlert
  <2>5. alerts'[a] = NewRow /\ \A b \in AlertIds : b # a => alerts'[b] = alerts[b]
    BY <1>0, <2>2
  <2>6. alerts' \in [AlertIds -> Alert \cup {NoAlert}]
    BY <1>0, <2>2, <2>4
  <2> QED
    BY <2>2, <2>3, <2>4, <2>5, <2>6 DEF TableInv, RowsStay, Stored, Acknowledged
<1>5. ASSUME NEW r \in Requests, NEW a \in AlertIds, NEW o \in Operators, AcknowledgeAlert(r, a, o)
      PROVE  TableInv' /\ RowsStay
  <2> DEFINE row == [alerts[a] EXCEPT !.acknowledgedBy = o]
  <2>1. /\ Stored(a) /\ alerts' = [alerts EXCEPT ![a] = row]
        /\ UNCHANGED <<registered, reported, trail>>
    BY <1>5 DEF AcknowledgeAlert, SetAcknowledged
  <2>2. alerts[a] \in Alert
    BY <1>0, <2>1 DEF Stored
  <2>3. row \in Alert /\ row.vehicle = alerts[a].vehicle /\ row.acknowledgedBy = o
    BY <2>2 DEF Alert
  <2>4. row # NoAlert /\ o # NoOne
    BY <2>3, LiveAssumption
  <2> HIDE DEF row
  <2>5. alerts'[a] = row /\ \A b \in AlertIds : b # a => alerts'[b] = alerts[b]
    BY <1>0, <2>1
  <2>6. alerts' \in [AlertIds -> Alert \cup {NoAlert}]
    BY <1>0, <2>1, <2>3
  <2> QED
    BY <2>1, <2>3, <2>4, <2>5, <2>6 DEF TableInv, RowsStay, Stored, Acknowledged
<1>6. ASSUME NEW v \in Vehicles, CreateVehicle(v) \/ DeleteVehicle(v) \/ PruneVehiclePositionHistory(v)
      PROVE  TableInv' /\ RowsStay
  BY <1>6 DEF CreateVehicle, DeleteVehicle, DeleteRow, PruneVehiclePositionHistory, TableInv,
     RowsStay, Stored, Acknowledged
<1>7. ASSUME \/ \E v \in Vehicles, pct \in Levels \cup {NoReading} : StatusMessage(v, pct)
             \/ \E v \in Vehicles, sev \in {Warning, Critical} : AlertMessage(v, sev)
             \/ BroadcastStatus \/ Evaluate \/ EvaluateNoReading
             \/ CreateAlertRefused \/ BroadcastAlert
             \/ StatementFails \/ ConnectionLost \/ Restart
             \/ \E r \in Requests : BroadcastAcknowledged(r)
             \/ \E c \in Clients : Register(c) \/ Unregister(c) \/ WritePump(c)
             \/ UNCHANGED vars
      PROVE  UNCHANGED tables
  BY <1>7 DEF StatusMessage, AlertMessage, BroadcastStatus, Evaluate, EvaluateNoReading,
     CreateAlertRefused, BroadcastAlert, StatementFails, GiveUp, ConnectionLost, Restart,
     BroadcastAcknowledged, Register, Unregister, WritePump, vars
<1> QED
  BY <1>1, <1>2, <1>3, <1>4, <1>5, <1>6, <1>7, TablesAlone DEF Next, Gateway

-----------------------------------------------------------------------------
(* The gateway callback *)

\* The callback goes on to a later statement with what it has in hand.
LEMMA GotoKeeps ==
  ASSUME CallbackInv, RowsStay,
         NEW pc \in {"upsert", "record", "announce", "evaluate", "create"}, Goto(pc),
         callback.pc # "idle",
         pc # "create" => callback.kind = "status",
         pc \in {"record", "announce", "evaluate"} => callback.vehicle \in reported',
         pc = "create" => callback.raise \in {Warning, Critical}
  PROVE  CallbackInv'
<1> DEFINE n == [callback EXCEPT !.pc = pc]
<1>1. callback \in Callback
  BY DEF CallbackInv
<1>2. /\ n \in Callback /\ n.pc = pc /\ n.kind = callback.kind /\ n.vehicle = callback.vehicle
      /\ n.raise = callback.raise /\ n.alert = callback.alert
  BY <1>1 DEF Callback
<1>3. callback' = n
  BY DEF Goto
<1> HIDE DEF n
<1> QED
  BY <1>2, <1>3 DEF CallbackInv

\* The callback ends, or is left alone by another goroutine's step.
LEMMA RestKeeps ==
  ASSUME CallbackInv, RowsStay, Done \/ UNCHANGED callback
  PROVE  CallbackInv'
<1>1. CASE Done
  <2>1. NoMessage \in Callback /\ NoMessage.pc = "idle" /\ NoMessage.kind = "status"
    BY DEF NoMessage, Callback, Normal
  <2> QED
    BY <1>1, <2>1 DEF Done, CallbackInv
<1>2. CASE UNCHANGED callback
  BY <1>2 DEF CallbackInv, RowsStay
<1> QED
  BY <1>1, <1>2

\* Every step of the callback leaves it with what its next statement needs.
LEMMA CallbackStep ==
  ASSUME LiveInv, RowsStay, [Next]_vars
  PROVE  CallbackInv'
<1>0. CallbackInv /\ callback \in Callback /\ tier \in [Vehicles -> Tier]
  BY DEF LiveInv, CallbackInv, TierInv
<1>1. ASSUME NEW v \in Vehicles, NEW pct \in Levels \cup {NoReading}, StatusMessage(v, pct)
      PROVE  CallbackInv'
  <2> DEFINE n == [NoMessage EXCEPT !.pc = "register", !.vehicle = v, !.level = pct]
  <2>1. pct \in Int
    BY LiveAssumption DEF NoReading
  <2>2. n \in Callback /\ n.pc = "register" /\ n.vehicle = v /\ n.kind = "status"
    BY <2>1 DEF NoMessage, Callback, Normal
  <2>3. callback' = n
    BY <1>1 DEF StatusMessage
  <2> HIDE DEF n
  <2> QED
    BY <2>2, <2>3 DEF CallbackInv
<1>2. ASSUME NEW v \in Vehicles, NEW sev \in {Warning, Critical}, AlertMessage(v, sev)
      PROVE  CallbackInv'
  <2> DEFINE n == [pc |-> "register", kind |-> "alert", vehicle |-> v, level |-> 100,
                   raise |-> sev, alert |-> NoAlert]
  <2>1. n \in Callback /\ n.pc = "register" /\ n.vehicle = v /\ n.raise = sev
    BY DEF Callback
  <2>2. callback' = n
    BY <1>2 DEF AlertMessage, NoMessage
  <2> HIDE DEF n
  <2> QED
    BY <2>1, <2>2 DEF CallbackInv
<1>3. ASSUME EnsureVehicleExists
      PROVE  CallbackInv'
  <2>1. callback.pc = "register"
    BY <1>3 DEF EnsureVehicleExists, At
  <2>2. CASE callback.kind = "status"
    <3>1. Goto("upsert")
      BY <1>3, <2>2 DEF EnsureVehicleExists
    <3> QED
      BY <1>0, <2>1, <2>2, <3>1, GotoKeeps
  <2>3. CASE callback.kind = "alert"
    <3>1. Goto("create") /\ callback.raise \in {Warning, Critical}
      BY <1>0, <1>3, <2>3 DEF EnsureVehicleExists, CallbackInv
    <3> QED
      BY <1>0, <2>1, <2>3, <3>1, GotoKeeps
  <2> QED
    BY <1>0, <2>2, <2>3 DEF Callback
<1>4. ASSUME UpsertVehicleStatus
      PROVE  CallbackInv'
  <2>1. CASE callback.vehicle \in registered
    <3>1. Goto("record") /\ callback.pc = "upsert" /\ callback.vehicle \in reported'
      BY <1>4, <2>1 DEF UpsertVehicleStatus, At
    <3> QED
      BY <1>0, <3>1, GotoKeeps DEF CallbackInv
  <2>2. CASE callback.vehicle \notin registered
    BY <1>0, <1>4, <2>2, RestKeeps DEF UpsertVehicleStatus
  <2> QED
    BY <2>1, <2>2
<1>5. ASSUME RecordPositionHistory \/ (StatementFails /\ callback.pc = "record")
      PROVE  CallbackInv'
  <2>1. Goto("announce") /\ callback.pc = "record" /\ reported \subseteq reported'
    BY <1>5 DEF RecordPositionHistory, StatementFails, At, RowsStay
  <2> QED
    BY <1>0, <2>1, GotoKeeps DEF CallbackInv
<1>6. ASSUME BroadcastStatus
      PROVE  CallbackInv'
  <2>1. Goto("evaluate") /\ callback.pc = "announce" /\ reported \subseteq reported'
    BY <1>6 DEF BroadcastStatus, At, RowsStay
  <2> QED
    BY <1>0, <2>1, GotoKeeps DEF CallbackInv
<1>7. ASSUME Evaluate
      PROVE  CallbackInv'
  <2> DEFINE next == batteryTier(callback.level, tier[callback.vehicle])
             n == [callback EXCEPT !.pc = "create", !.raise = next]
  <2>1. /\ callback.pc = "evaluate" /\ callback.vehicle \in Vehicles
        /\ callback.level \in Int /\ tier[callback.vehicle] \in Tier
        /\ callback.kind = "status"
    BY <1>0, <1>7 DEF Evaluate, At, CallbackInv, Callback
  <2>2. next \in Tier
    BY <2>1, TierBrackets
  <2>3. CASE next > tier[callback.vehicle]
    <3>1. callback' = n
      BY <1>7, <2>3 DEF Evaluate
    <3> HIDE DEF next
    <3>2. next \in {Warning, Critical}
      BY <2>1, <2>2, <2>3 DEF Tier, Normal, Warning, Critical
    <3>3. /\ n \in Callback /\ n.pc = "create" /\ n.vehicle = callback.vehicle
          /\ n.raise = next /\ n.kind = "status"
      BY <1>0, <2>1, <3>2 DEF Callback
    <3> HIDE DEF n
    <3> QED
      BY <2>1, <3>1, <3>2, <3>3 DEF CallbackInv
  <2>4. CASE ~ (next > tier[callback.vehicle])
    BY <1>0, <1>7, <2>4, RestKeeps DEF Evaluate
  <2> QED
    BY <2>3, <2>4
<1>8. ASSUME CreateAlert
      PROVE  CallbackInv'
  <2>1. PICK a \in AlertIds : /\ alerts' = [alerts EXCEPT ![a] = NewRow]
                              /\ callback' = [callback EXCEPT !.pc = "created", !.alert = a]
    BY <1>8 DEF CreateAlert, InsertAlert, Free, NewRow
  <2> DEFINE n == [callback EXCEPT !.pc = "created", !.alert = a]
  <2>2. /\ n \in Callback /\ n.pc = "created" /\ n.alert = a /\ n.vehicle = callback.vehicle
        /\ n.kind = callback.kind /\ n.raise = callback.raise
    BY <1>0 DEF Callback
  <2>3. callback.pc = "create" /\ NewRow # NoAlert
    BY <1>0, <1>8, NewRowIsAlert DEF CreateAlert, At
  <2>4. alerts'[a] # NoAlert
    BY <2>1, <2>3 DEF LiveInv, TableInv
  <2>5. callback' = n
    BY <2>1
  <2> HIDE DEF n
  <2> QED
    BY <1>0, <2>2, <2>3, <2>4, <2>5 DEF CallbackInv, Stored
<1>9. ASSUME \/ EvaluateNoReading \/ CreateAlertRefused \/ BroadcastAlert
             \/ StatementFails /\ callback.pc # "record"
             \/ ConnectionLost \/ Restart
             \/ \E r \in Requests : BroadcastAcknowledged(r)
             \/ \E r \in Requests, a \in AlertIds, o \in Operators : AcknowledgeAlert(r, a, o)
             \/ \E c \in Clients : Register(c) \/ Unregister(c) \/ WritePump(c)
             \/ \E v \in Vehicles :
                  CreateVehicle(v) \/ DeleteVehicle(v) \/ PruneVehiclePositionHistory(v)
             \/ UNCHANGED vars
      PROVE  Done \/ UNCHANGED callback
  BY <1>9 DEF EvaluateNoReading, CreateAlertRefused, BroadcastAlert, StatementFails, GiveUp, At,
     ConnectionLost, Restart, Done, BroadcastAcknowledged, AcknowledgeAlert, Register, Unregister, WritePump, CreateVehicle,
     DeleteVehicle, PruneVehiclePositionHistory, vars
<1> QED
  BY <1>0, <1>1, <1>2, <1>3, <1>4, <1>5, <1>6, <1>7, <1>8, <1>9, RestKeeps DEF Next, Gateway

-----------------------------------------------------------------------------
(* The acknowledge handlers *)

\* A handler that is about to announce an acknowledgement has stored it, and
\* nobody takes it back.
LEMMA HandlerStep ==
  ASSUME LiveInv, RowsStay, [Next]_vars
  PROVE  HandlersTyped' /\ HandlerInv'
<1>0. /\ handlers \in [Requests -> [pc : {"idle", "broadcast"}, alert : AlertIds \cup {NoAlert}]]
      /\ alerts \in [AlertIds -> Alert \cup {NoAlert}] /\ HandlerInv
  BY DEF LiveInv, HandlersTyped, TableInv
<1>1. ASSUME NEW r \in Requests, NEW a \in AlertIds, NEW o \in Operators, AcknowledgeAlert(r, a, o)
      PROVE  HandlersTyped' /\ HandlerInv'
  <2> DEFINE row == [alerts[a] EXCEPT !.acknowledgedBy = o]
             h == [pc |-> "broadcast", alert |-> a]
  <2>1. /\ Stored(a) /\ alerts' = [alerts EXCEPT ![a] = row]
        /\ handlers' = [handlers EXCEPT ![r] = h]
    BY <1>1 DEF AcknowledgeAlert, SetAcknowledged
  <2>2. alerts[a] \in Alert
    BY <1>0, <2>1 DEF Stored
  <2>3. row \in Alert /\ row.acknowledgedBy = o
    BY <2>2 DEF Alert
  <2>4. row # NoAlert /\ o # NoOne
    BY <2>3, LiveAssumption
  <2>5. h \in [pc : {"idle", "broadcast"}, alert : AlertIds \cup {NoAlert}] /\ h.alert = a
    OBVIOUS
  <2> HIDE DEF row, h
  <2>6. alerts'[a] = row
    BY <1>0, <2>1
  <2>7. Acknowledged(a)'
    BY <2>3, <2>4, <2>6 DEF Acknowledged, Stored
  <2>8. handlers'[r] = h /\ \A q \in Requests : q # r => handlers'[q] = handlers[q]
    BY <1>0, <2>1
  <2>9. HandlersTyped'
    BY <1>0, <2>1, <2>5 DEF HandlersTyped
  <2>10. HandlerInv'
    BY <1>0, <2>5, <2>7, <2>8 DEF HandlerInv, RowsStay, Acknowledged, Stored
  <2> QED
    BY <2>9, <2>10
<1>2. ASSUME NEW r \in Requests, BroadcastAcknowledged(r)
      PROVE  HandlersTyped' /\ HandlerInv'
  <2>1. handlers' = [handlers EXCEPT ![r] = Idle]
    BY <1>2 DEF BroadcastAcknowledged
  <2>2. Idle \in [pc : {"idle", "broadcast"}, alert : AlertIds \cup {NoAlert}] /\ Idle.pc = "idle"
    BY DEF Idle
  <2> QED
    BY <1>0, <2>1, <2>2 DEF HandlersTyped, HandlerInv, RowsStay, Acknowledged, Stored
<1>3. ASSUME \/ \E v \in Vehicles, pct \in Levels \cup {NoReading} : StatusMessage(v, pct)
             \/ \E v \in Vehicles, sev \in {Warning, Critical} : AlertMessage(v, sev)
             \/ Gateway \/ StatementFails \/ ConnectionLost
             \/ \E c \in Clients : Register(c) \/ Unregister(c) \/ WritePump(c)
             \/ \E v \in Vehicles :
                  CreateVehicle(v) \/ DeleteVehicle(v) \/ PruneVehiclePositionHistory(v)
             \/ UNCHANGED vars
      PROVE  UNCHANGED handlers
  BY <1>3 DEF StatusMessage, AlertMessage, Gateway, EnsureVehicleExists, UpsertVehicleStatus,
     RecordPositionHistory, BroadcastStatus, Evaluate, EvaluateNoReading, CreateAlert,
     InsertAlert, CreateAlertRefused, BroadcastAlert, StatementFails, GiveUp, ConnectionLost,
     Register, Unregister, WritePump, CreateVehicle, DeleteVehicle,
     PruneVehiclePositionHistory, vars
<1>4. UNCHANGED handlers => HandlersTyped' /\ HandlerInv'
  BY <1>0 DEF HandlersTyped, HandlerInv, RowsStay, Acknowledged, Stored
<1>5. ASSUME Restart
      PROVE  HandlersTyped' /\ HandlerInv'
  <2>1. Idle \in [pc : {"idle", "broadcast"}, alert : AlertIds \cup {NoAlert}] /\ Idle.pc = "idle"
    BY DEF Idle
  <2> QED
    BY <1>5, <2>1 DEF Restart, HandlersTyped, HandlerInv
<1> QED
  BY <1>1, <1>2, <1>3, <1>4, <1>5 DEF Next
-----------------------------------------------------------------------------
(* The dashboards' queues *)

\* Queues that only lose events, or are left alone, hold stored events within
\* their bound.
LEMMA QueuesShrink ==
  ASSUME QueueInv, RowsStay, clients' \subseteq Clients,
         \/ UNCHANGED queues
         \/ \E c \in Clients : queues' = [queues EXCEPT ![c] = <<>>]
         \/ \E c \in Clients : queues[c] # <<>> /\ queues' = [queues EXCEPT ![c] = Tail(queues[c])]
  PROVE  QueueInv'
<1>1. StoredEvents \subseteq StoredEvents'
  BY EventsStayStored DEF RowsStay
<1>2. \A c \in Clients : queues[c] \in Seq(StoredEvents')
  BY <1>1, QueuesWiden DEF QueueInv
<1>3. clientSendBuffer \in Nat
  BY LiveAssumption
<1>4. queues = [c \in Clients |-> queues[c]] /\ \A c \in Clients : Len(queues[c]) <= clientSendBuffer
  BY DEF QueueInv
<1>5. CASE UNCHANGED queues
  BY <1>2, <1>4, <1>5 DEF QueueInv
<1>6. ASSUME NEW c \in Clients, NEW q \in Seq(StoredEvents'), Len(q) <= clientSendBuffer,
             queues' = [queues EXCEPT ![c] = q]
      PROVE  QueueInv'
  <2>1. queues' \in [Clients -> Seq(StoredEvents')]
    BY <1>2, <1>4, <1>6
  <2>2. \A d \in Clients : Len(queues'[d]) <= clientSendBuffer
    BY <1>4, <1>6
  <2> QED
    BY <2>1, <2>2 DEF QueueInv
<1>7. << >> \in Seq(StoredEvents') /\ Len(<< >>) <= clientSendBuffer
  BY <1>3
<1>8. ASSUME NEW c \in Clients, queues[c] # <<>>
      PROVE  Tail(queues[c]) \in Seq(StoredEvents') /\ Len(Tail(queues[c])) <= clientSendBuffer
  BY <1>2, <1>3, <1>4, <1>8
<1> QED
  BY <1>5, <1>6, <1>7, <1>8

\* An event goes to the dashboards that have room for it.
LEMMA BroadcastKeeps ==
  ASSUME QueueInv, RowsStay, NEW type, NEW key, <<type, key>> \in StoredEvents',
         Broadcast(type, key)
  PROVE  QueueInv'
<1> DEFINE to == clients \ Full
<1>1. StoredEvents \subseteq StoredEvents'
  BY EventsStayStored DEF RowsStay
<1>2. \A c \in Clients : queues[c] \in Seq(StoredEvents')
  BY <1>1, QueuesWiden DEF QueueInv
<1>3. clientSendBuffer \in Nat
  BY LiveAssumption
<1>4. /\ queues' = [c \in Clients |-> IF c \in to THEN Append(queues[c], <<type, key>>)
                                      ELSE queues[c]]
      /\ clients' = clients
  BY DEF Broadcast, Push
<1>5. ASSUME NEW c \in Clients
      PROVE  /\ queues'[c] \in Seq(StoredEvents')
             /\ Len(queues'[c]) <= clientSendBuffer
  <2>1. CASE c \in to
    <3>1. queues'[c] = Append(queues[c], <<type, key>>)
      BY <1>4, <2>1
    <3>2. ~ (Len(queues[c]) >= clientSendBuffer)
      BY <2>1 DEF Full
    <3> QED
      BY <1>2, <1>3, <3>1, <3>2
  <2>2. CASE c \notin to
    BY <1>2, <1>4, <2>2 DEF QueueInv
  <2> QED
    BY <2>1, <2>2
<1> QED
  BY <1>4, <1>5 DEF QueueInv

\* Every step tells the dashboards only of what is stored, and never overfills
\* a queue.
LEMMA QueueStep ==
  ASSUME LiveInv, RowsStay, [Next]_vars
  PROVE  QueueInv'
<1>0. QueueInv /\ CallbackInv /\ TableInv /\ HandlerInv
  BY DEF LiveInv
<1>1. ASSUME BroadcastStatus
      PROVE  QueueInv'
  <2>1. callback.pc = "announce" /\ Broadcast("vehicle_status", callback.vehicle)
    BY <1>1 DEF BroadcastStatus, At
  <2>2. callback.vehicle \in reported' /\ callback.vehicle \in Vehicles
    BY <1>0, <2>1 DEF CallbackInv, RowsStay
  <2>3. <<"vehicle_status", callback.vehicle>> \in StoredEvents'
    BY <2>2 DEF StoredEvents
  <2> QED
    BY <1>0, <2>1, <2>3, BroadcastKeeps
<1>2. ASSUME BroadcastAlert
      PROVE  QueueInv'
  <2>1. callback.pc = "created" /\ Broadcast("alert_created", callback.alert)
    BY <1>2 DEF BroadcastAlert, At
  <2>2. callback.alert \in AlertIds /\ Stored(callback.alert)
    BY <1>0, <2>1 DEF CallbackInv
  <2>3. UNCHANGED alerts
    BY <1>2 DEF BroadcastAlert, tables
  <2>4. <<"alert_created", callback.alert>> \in StoredEvents'
    BY <2>2, <2>3 DEF StoredEvents, Stored
  <2> QED
    BY <1>0, <2>1, <2>4, BroadcastKeeps
<1>3. ASSUME NEW r \in Requests, BroadcastAcknowledged(r)
      PROVE  QueueInv'
  <2>1. handlers[r].pc = "broadcast" /\ Broadcast("alert_acknowledged", handlers[r].alert)
    BY <1>3 DEF BroadcastAcknowledged
  <2>2. handlers[r].alert \in AlertIds /\ Acknowledged(handlers[r].alert)
    BY <1>0, <2>1 DEF HandlerInv
  <2>3. UNCHANGED alerts
    BY <1>3 DEF BroadcastAcknowledged, tables
  <2>4. <<"alert_acknowledged", handlers[r].alert>> \in StoredEvents'
    BY <2>2, <2>3 DEF StoredEvents, Stored, Acknowledged
  <2> QED
    BY <1>0, <2>1, <2>4, BroadcastKeeps
<1>4. ASSUME NEW c \in Clients, Register(c) \/ Unregister(c) \/ WritePump(c)
      PROVE  QueueInv'
  <2>1. clients' \subseteq Clients
    BY <1>0, <1>4 DEF Register, Unregister, WritePump, QueueInv
  <2> QED
    BY <1>0, <1>4, <2>1, QueuesShrink DEF Register, Unregister, WritePump
<1>5. ASSUME \/ \E v \in Vehicles, pct \in Levels \cup {NoReading} : StatusMessage(v, pct)
             \/ \E v \in Vehicles, sev \in {Warning, Critical} : AlertMessage(v, sev)
             \/ EnsureVehicleExists \/ UpsertVehicleStatus \/ RecordPositionHistory
             \/ Evaluate \/ EvaluateNoReading \/ CreateAlert \/ CreateAlertRefused
             \/ StatementFails \/ ConnectionLost
             \/ \E r \in Requests, a \in AlertIds, o \in Operators : AcknowledgeAlert(r, a, o)
             \/ \E v \in Vehicles :
                  CreateVehicle(v) \/ DeleteVehicle(v) \/ PruneVehiclePositionHistory(v)
             \/ UNCHANGED vars
      PROVE  UNCHANGED hub
  BY <1>5 DEF StatusMessage, AlertMessage, EnsureVehicleExists, UpsertVehicleStatus,
     RecordPositionHistory, Evaluate, EvaluateNoReading, CreateAlert, InsertAlert,
     CreateAlertRefused, StatementFails, GiveUp, ConnectionLost, AcknowledgeAlert, CreateVehicle, DeleteVehicle,
     PruneVehiclePositionHistory, vars
<1>6. UNCHANGED hub => QueueInv'
  BY <1>0, QueuesShrink DEF hub, QueueInv
<1>7. ASSUME Restart
      PROVE  QueueInv'
  <2>1. clients' = {} /\ queues' = [c \in Clients |-> << >>]
    BY <1>7 DEF Restart
  <2>2. 0 <= clientSendBuffer
    BY LiveAssumption
  <2> QED
    BY <2>1, <2>2 DEF QueueInv
<1> QED
  BY <1>1, <1>2, <1>3, <1>4, <1>5, <1>6, <1>7 DEF Next, Gateway

-----------------------------------------------------------------------------
(* The alert engine *)

\* A step that leaves the engine alone and neither begins nor ends the storing
\* of one of its alerts.
LEMMA EngineAlone ==
  ASSUME TierInv, UNCHANGED <<tier, told, level, lost>>,
         \A v \in Vehicles : Pending(v)' <=> Pending(v),
         \A v \in Vehicles : Pending(v) => callback'.raise = callback.raise
  PROVE  TierInv'
BY DEF TierInv, TierFits

\* The engine's tier, the alerts stored and the level keep step.
LEMMA TierStep ==
  ASSUME LiveInv, CallbackInv', [Next]_vars
  PROVE  TierInv'
<1>0. /\ CallbackInv /\ callback \in Callback /\ TierInv
      /\ tier \in [Vehicles -> Tier] /\ told \in [Vehicles -> Tier] /\ level \in [Vehicles -> Int]
  BY DEF LiveInv, CallbackInv, TierInv
<1>1. ASSUME Evaluate
      PROVE  TierInv'
  <2>0. PICK v \in Vehicles, pct \in Int : v = callback.vehicle /\ pct = callback.level
    BY <1>0, <1>1 DEF Evaluate, At, CallbackInv, Callback
  <2>01. PICK next, kept : next = batteryTier(pct, tier[v]) /\ kept = StillToldOf(told[v], pct)
    OBVIOUS
  <2>1. /\ v \in Vehicles /\ pct \in Int /\ callback.pc = "evaluate" /\ callback.kind = "status"
        /\ tier[v] \in Tier /\ told[v] \in Tier /\ told[v] <= tier[v]
    BY <1>0, <1>1, <2>0 DEF Evaluate, At, CallbackInv, Callback, TierInv
  <2>2. /\ tier' = [tier EXCEPT ![v] = next] /\ level' = [level EXCEPT ![v] = pct]
        /\ told' = [told EXCEPT ![v] = kept]
        /\ lost' = IF pct >= batteryWarningClear THEN lost \ {v} ELSE lost
        /\ next > tier[v] => callback' = [callback EXCEPT !.pc = "create", !.raise = next]
        /\ ~ (next > tier[v]) => callback' = NoMessage
    BY <1>1, <2>0, <2>01 DEF Evaluate, Done
  <2>3. /\ next \in Tier
        /\ pct < batteryCriticalThreshold => next = Critical
        /\ pct < batteryWarningThreshold => next # Normal
        /\ pct >= batteryCriticalClear => next # Critical
        /\ pct >= batteryWarningClear => next = Normal
    BY <2>01, <2>1, TierBrackets
  <2>4. /\ kept \in Tier /\ kept <= next
        /\ next > tier[v] => kept <= tier[v]
        /\ told[v] = tier[v] /\ next <= tier[v] => kept = next
    BY <2>01, <2>1, TierFalls
  <2>5. ~ Pending(v) /\ \A w \in Vehicles : ~ Pending(w)
    BY <2>1 DEF Pending
  <2>51. pct >= batteryWarningClear => kept = Normal
    BY <2>01 DEF StillToldOf
  <2>52. pct \in Int /\ next \in Int /\ kept \in Int /\ tier[v] \in Int
    BY <2>1, <2>3, <2>4 DEF Tier, Normal, Warning, Critical
  <2>6. /\ next > tier[v] => Pending(v)' /\ callback'.raise = next
        /\ ~ (next > tier[v]) => ~ Pending(v)'
        /\ \A w \in Vehicles : w # v => ~ Pending(w)'
    <3>1. CASE next > tier[v]
      <4>1. callback' = [callback EXCEPT !.pc = "create", !.raise = next]
        BY <2>2, <3>1
      <4>2. /\ callback'.pc = "create" /\ callback'.raise = next
            /\ callback'.kind = callback.kind /\ callback'.vehicle = callback.vehicle
        BY <1>0, <4>1 DEF Callback
      <4> QED
        BY <2>0, <2>1, <3>1, <4>2 DEF Pending
    <3>2. CASE ~ (next > tier[v])
      BY <2>2, <3>2 DEF Pending, NoMessage
    <3> QED
      BY <3>1, <3>2
  <2>7. /\ tier'[v] = next /\ level'[v] = pct /\ told'[v] = kept
        /\ \A w \in Vehicles : w # v => /\ tier'[w] = tier[w] /\ level'[w] = level[w]
                                        /\ told'[w] = told[w] /\ (w \in lost' <=> w \in lost)
    BY <1>0, <2>1, <2>2
  <2>8. /\ TierFits(v)' /\ told'[v] <= tier'[v]
        /\ Pending(v)' => callback'.raise = tier'[v] /\ told'[v] < tier'[v]
        /\ v \notin lost' /\ ~ Pending(v)' => told'[v] = tier'[v]
    <3>1. TierFits(v)'
      BY <2>3, <2>7 DEF TierFits
    <3>2. Pending(v)' => callback'.raise = tier'[v] /\ told'[v] < tier'[v]
      BY <2>4, <2>52, <2>6, <2>7
    <3>3. ASSUME v \notin lost', ~ Pending(v)'
          PROVE  told'[v] = tier'[v]
      <4>1. next <= tier[v]
        BY <2>52, <2>6, <3>3
      <4>2. CASE v \notin lost
        <5>1. told[v] = tier[v]
          BY <1>0, <2>1, <2>5, <4>2 DEF TierInv
        <5> QED
          BY <2>4, <2>7, <4>1, <5>1
      <4>3. CASE v \in lost
        <5>1. pct >= batteryWarningClear
          BY <2>2, <3>3, <4>3
        <5> QED
          BY <2>3, <2>51, <2>7, <5>1
      <4> QED
        BY <4>2, <4>3
    <3> QED
      BY <2>4, <2>7, <3>1, <3>2, <3>3
  <2>9. \A w \in Vehicles : w # v =>
          /\ TierFits(w)' /\ told'[w] <= tier'[w]
          /\ w \notin lost' => told'[w] = tier'[w]
    BY <1>0, <2>5, <2>7 DEF TierInv, TierFits
  <2>10. /\ tier' \in [Vehicles -> Tier] /\ told' \in [Vehicles -> Tier]
         /\ level' \in [Vehicles -> Int]
    BY <1>0, <2>1, <2>2, <2>3, <2>4
  <2> QED
    BY <2>6, <2>8, <2>9, <2>10 DEF TierInv
<1>2. ASSUME CreateAlert
      PROVE  TierInv'
  <2>0. PICK v \in Vehicles : v = callback.vehicle
    BY <1>0, <1>2 DEF CreateAlert, At, CallbackInv
  <2>1. /\ callback.pc = "create" /\ v \in Vehicles
        /\ UNCHANGED <<tier, level, lost>>
        /\ told' = IF callback.kind = "status" THEN [told EXCEPT ![v] = callback.raise] ELSE told
        /\ \E a \in AlertIds : callback' = [callback EXCEPT !.pc = "created", !.alert = a]
    BY <1>0, <1>2, <2>0 DEF CreateAlert, InsertAlert, At, CallbackInv, Free
  <2>2. \A w \in Vehicles : ~ Pending(w)'
    BY <1>0, <2>1 DEF Pending, Callback
  <2>3. CASE callback.kind = "status"
    <3>1. Pending(v) /\ \A w \in Vehicles : w # v => ~ Pending(w)
      BY <2>0, <2>1, <2>3 DEF Pending
    <3>2. callback.raise = tier[v]
      BY <1>0, <2>1, <3>1 DEF TierInv
    <3>3. told' \in [Vehicles -> Tier] /\ told'[v] = tier[v]
          /\ \A w \in Vehicles : w # v => told'[w] = told[w]
      BY <1>0, <2>1, <2>3, <3>2
    <3>4. tier[v] \in Int
      BY <1>0, <2>1 DEF Tier, Normal, Warning, Critical
    <3>5. \A w \in Vehicles : /\ TierFits(w)' /\ told'[w] <= tier'[w]
                              /\ w \notin lost' => told'[w] = tier'[w]
      <4> SUFFICES ASSUME NEW w \in Vehicles
                   PROVE  /\ TierFits(w)' /\ told'[w] <= tier'[w]
                          /\ w \notin lost' => told'[w] = tier'[w]
        OBVIOUS
      <4>1. TierFits(w)'
        BY <1>0, <2>1 DEF TierInv, TierFits
      <4>2. CASE w = v
        BY <2>1, <3>3, <3>4, <4>1, <4>2
      <4>3. CASE w # v
        BY <1>0, <2>1, <3>1, <3>3, <4>1, <4>3 DEF TierInv
      <4> QED
        BY <4>2, <4>3
    <3> QED
      BY <1>0, <2>1, <2>2, <3>3, <3>5 DEF TierInv
  <2>4. CASE callback.kind # "status"
    <3>1. told' = told /\ \A w \in Vehicles : ~ Pending(w)
      BY <2>1, <2>4 DEF Pending
    <3> QED
      BY <1>0, <2>1, <2>2, <3>1, EngineAlone
  <2> QED
    BY <2>3, <2>4
<1>3. ASSUME GiveUp, callback.pc # "idle"
      PROVE  TierInv'
  <2>1. /\ UNCHANGED <<tier, told, level>>
        /\ lost' = IF callback.pc = "create" /\ callback.kind = "status"
                   THEN lost \cup {callback.vehicle} ELSE lost
        /\ callback' = NoMessage
    BY <1>3 DEF GiveUp, At, Done
  <2>2. \A w \in Vehicles : ~ Pending(w)'
    BY <2>1 DEF Pending, NoMessage
  <2>3. \A w \in Vehicles : w \notin lost' => w \notin lost /\ ~ Pending(w)
    BY <2>1 DEF Pending
  <2> QED
    BY <1>0, <2>1, <2>2, <2>3 DEF TierInv, TierFits
<1>4. ASSUME StatementFails \/ CreateAlertRefused
      PROVE  TierInv'
  <2>1. CASE GiveUp
    BY <1>3, <1>4, <2>1 DEF StatementFails, CreateAlertRefused, At
  <2>2. CASE Goto("announce") /\ At("record") /\ UNCHANGED <<tier, ghosts>>
    <3>1. callback'.pc = "announce" /\ callback.pc = "record"
      BY <1>0, <2>2 DEF Goto, At, Callback
    <3>2. \A w \in Vehicles : ~ Pending(w) /\ ~ Pending(w)'
      BY <3>1 DEF Pending
    <3>3. UNCHANGED <<tier, told, level, lost>>
      BY <2>2 DEF ghosts
    <3> QED
      BY <1>0, <3>2, <3>3, EngineAlone
  <2> QED
    BY <1>4, <2>1, <2>2 DEF StatementFails, CreateAlertRefused
<1>5. ASSUME NEW v \in Vehicles, NEW pct \in Levels \cup {NoReading}, StatusMessage(v, pct)
      PROVE  TierInv'
  <2>1. callback.pc = "idle" /\ callback'.pc = "register" /\ UNCHANGED <<tier, ghosts>>
    BY <1>5 DEF StatusMessage, At, NoMessage
  <2> QED
    BY <1>0, <2>1, EngineAlone DEF Pending, ghosts
<1>6. ASSUME NEW v \in Vehicles, NEW sev \in {Warning, Critical}, AlertMessage(v, sev)
      PROVE  TierInv'
  <2>1. callback.pc = "idle" /\ callback'.pc = "register" /\ UNCHANGED <<tier, ghosts>>
    BY <1>6 DEF AlertMessage, At, NoMessage
  <2> QED
    BY <1>0, <2>1, EngineAlone DEF Pending, ghosts
<1>7. ASSUME EnsureVehicleExists
      PROVE  TierInv'
  <2>1. /\ callback.pc = "register" /\ UNCHANGED <<tier, ghosts>>
        /\ callback' = [callback EXCEPT !.pc = IF callback.kind = "alert" THEN "create" ELSE "upsert"]
    BY <1>7 DEF EnsureVehicleExists, At, Goto
  <2>2. callback'.kind = callback.kind /\ (callback'.pc = "create" => callback.kind = "alert")
    BY <1>0, <2>1 DEF Callback
  <2> QED
    BY <1>0, <2>1, <2>2, EngineAlone DEF Pending, ghosts
<1>8. ASSUME \/ UpsertVehicleStatus \/ RecordPositionHistory \/ BroadcastStatus
             \/ EvaluateNoReading \/ BroadcastAlert
      PROVE  TierInv'
  <2>1. /\ callback.pc \in {"upsert", "record", "announce", "evaluate", "created"}
        /\ UNCHANGED <<tier, ghosts>>
        /\ \/ \E pc \in {"record", "announce", "evaluate"} : callback' = [callback EXCEPT !.pc = pc]
           \/ callback' = NoMessage
    BY <1>8 DEF UpsertVehicleStatus, RecordPositionHistory, BroadcastStatus, EvaluateNoReading,
       BroadcastAlert, At, Goto, Done
  <2>2. callback'.pc # "create"
    BY <1>0, <2>1 DEF Callback, NoMessage
  <2> QED
    BY <1>0, <2>1, <2>2, EngineAlone DEF Pending, ghosts
<1>9. ASSUME \/ ConnectionLost
             \/ \E r \in Requests : BroadcastAcknowledged(r)
             \/ \E r \in Requests, a \in AlertIds, o \in Operators : AcknowledgeAlert(r, a, o)
             \/ \E c \in Clients : Register(c) \/ Unregister(c) \/ WritePump(c)
             \/ \E v \in Vehicles :
                  CreateVehicle(v) \/ DeleteVehicle(v) \/ PruneVehiclePositionHistory(v)
             \/ UNCHANGED vars
      PROVE  UNCHANGED <<tier, ghosts, callback>>
  BY <1>9 DEF ConnectionLost, BroadcastAcknowledged, AcknowledgeAlert, Register, Unregister,
     WritePump, CreateVehicle, DeleteVehicle, PruneVehiclePositionHistory, vars
<1>10. UNCHANGED <<tier, ghosts, callback>> => TierInv'
  BY <1>0, EngineAlone DEF Pending, ghosts
<1>11. ASSUME Restart
       PROVE  TierInv'
  BY <1>11 DEF Restart, TierInv, TierFits, Pending, NoMessage, Tier, Normal, Warning, Critical,
     batteryCriticalThreshold, batteryCriticalClear, batteryWarningThreshold,
     batteryWarningClear
<1> QED
  BY <1>1, <1>2, <1>4, <1>5, <1>6, <1>7, <1>8, <1>9, <1>10, <1>11 DEF Next, Gateway

-----------------------------------------------------------------------------
\* The invariant holds throughout.
LEMMA LiveInvariance == Spec => []LiveInv
<1>1. LiveInv /\ [Next]_vars => LiveInv'
  <2> SUFFICES ASSUME LiveInv, [Next]_vars PROVE LiveInv'
    OBVIOUS
  <2>1. TableInv' /\ RowsStay
    BY TableStep DEF LiveInv
  <2>2. CallbackInv'
    BY <2>1, CallbackStep
  <2> QED
    BY <2>1, <2>2, HandlerStep, QueueStep, TierStep DEF LiveInv
<1> QED
  BY <1>1, InitLiveInv, PTL DEF Spec

\* The foreign keys of the fleet tables hold although the control server inserts
\* and deletes vehicles between the gateway's statements, and no queue outgrows
\* its channel.
THEOREM LiveTypeCorrect == Spec => []LiveTypeOK
<1>1. LiveInv => LiveTypeOK
  BY DEF LiveInv, TableInv, QueueInv, TierInv, LiveTypeOK, Tier
<1> QED
  BY <1>1, LiveInvariance, PTL

\* No dashboard is ever told of a status, an alert or an acknowledgement that
\* is not stored, whatever fails and in whichever order it is read.
THEOREM EventSafety == Spec => []EventsAreStored
<1>1. LiveInv => EventsAreStored
  <2> SUFFICES ASSUME LiveInv, NEW c \in Clients, NEW i \in DOMAIN queues[c]
               PROVE  /\ queues[c][i][1] = "vehicle_status" => queues[c][i][2] \in reported
                      /\ queues[c][i][1] = "alert_created" => Stored(queues[c][i][2])
                      /\ queues[c][i][1] = "alert_acknowledged" =>
                           Acknowledged(queues[c][i][2])
    BY DEF EventsAreStored, Acknowledged
  <2>1. queues[c] \in Seq(StoredEvents)
    BY DEF LiveInv, QueueInv
  <2>2. queues[c][i] \in StoredEvents
    BY <2>1
  <2> QED
    BY <2>2 DEF StoredEvents
<1> QED
  BY <1>1, LiveInvariance, PTL

\* A low battery has been reported with an alert that is bad enough, for every
\* sequence of levels, unless storing an alert failed since it was last charged;
\* a process that restarts reports it again with the next level it evaluates.
THEOREM LowBatterySafety == Spec => []LowBatteryIsAlerted
<1>1. LiveInv => LowBatteryIsAlerted
  <2> SUFFICES ASSUME LiveInv, NEW v \in Vehicles \ lost,
                      ~ (At("create") /\ callback.vehicle = v)
               PROVE  /\ level[v] < batteryCriticalThreshold => told[v] = Critical
                      /\ level[v] < batteryWarningThreshold => told[v] >= Warning
    BY DEF LowBatteryIsAlerted
  <2>1. ~ Pending(v)
    BY DEF At, Pending
  <2>2. told[v] = tier[v] /\ TierFits(v) /\ tier[v] \in Tier
    BY <2>1 DEF LiveInv, TierInv
  <2> QED
    BY <2>2 DEF TierFits, Tier, Normal, Warning, Critical
<1> QED
  BY <1>1, LiveInvariance, PTL

\* A threshold alert is only stored when it is worse than every alert that this
\* run of the process stored since the battery last passed the clear level: the
\* thresholds of the engine cannot flap, for every sequence of levels, missing
\* readings, failed statements and restarts.
THEOREM NoRepetition == Spec => NoRepeatedAlert
<1> DEFINE Fresh == At("create") /\ callback.kind = "status" /\ callback'.pc = "created" =>
                      callback.raise > told[callback.vehicle]
<1>1. LiveInv => [Fresh]_vars
  <2> SUFFICES ASSUME LiveInv, At("create"), callback.kind = "status"
               PROVE  callback.raise > told[callback.vehicle]
    OBVIOUS
  <2>1. callback.vehicle \in Vehicles /\ Pending(callback.vehicle)
    BY DEF LiveInv, CallbackInv, At, Pending
  <2>2. /\ callback.raise = tier[callback.vehicle]
        /\ told[callback.vehicle] < tier[callback.vehicle]
        /\ tier[callback.vehicle] \in Tier /\ told[callback.vehicle] \in Tier
    BY <2>1 DEF LiveInv, TierInv
  <2> QED
    BY <2>2 DEF Tier, Normal, Warning, Critical
<1> QED
  BY <1>1, LiveInvariance, PTL DEF NoRepeatedAlert
=============================================================================
