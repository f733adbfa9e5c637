----------------------------- MODULE FleetTasks -----------------------------
(***************************************************************************)
(* Transport tasks in fleet-service: the REST handlers that create and     *)
(* move tasks, the status messages vehicles send, and the Postgres tables  *)
(* they write (internal/fleetservice).  Every SQL statement is one step;   *)
(* a handler that issues several is interrupted between them by other      *)
(* handlers, by a failing statement or by a crash.  The service restarts   *)
(* through NewPostgresFleetStore, which backfills the history table.       *)
(*                                                                         *)
(* A dashboard stands for a connected browser that reads every broadcast.  *)
(* Zones, stations, positions and priorities never decide a task's fate    *)
(* and are left out.                                                       *)
(***************************************************************************)
EXTENDS Integers, Sequences

CONSTANTS
  Vehicles, TaskIds, Operators,
  Requests,    \* slots for HTTP requests that are served concurrently
  NoTask,      \* no row, or current_task_id IS NULL
  NoOne,       \* status_changed_by IS NULL
  MaxFaults    \* bound: failed statements and crashes together

TaskStatus == {"pending", "in_progress", "completed", "cancelled"}

taskTransitionSources ==
  [in_progress |-> {"pending"},
   completed   |-> {"in_progress"},
   cancelled   |-> {"pending", "in_progress"}]

Targets == DOMAIN taskTransitionSources

Terminal == {"completed", "cancelled"}

Task == [vehicle : Vehicles, status : TaskStatus, changedBy : Operators \cup {NoOne}]

ASSUME TaskAssumption ==
  /\ NoTask \notin TaskIds /\ NoTask \notin Task
  /\ NoOne \notin Operators
  /\ MaxFaults \in Nat

VARIABLES
  tasks,       \* table tasks: taskID -> row, or NoTask
  history,     \* table task_status_history: taskID -> rows by changed_at
  current,     \* vehicle_status.current_task_id: vehicleID -> taskID or NoTask
  service,     \* "up", "down" or "starting"
  handlers,    \* Requests -> the handler's progress
  assigned,    \* vehicleID -> tasks dispatched to it over MQTT
  shown,       \* what a dashboard shows: taskID -> status or NoTask
  faults,      \* failed statements and crashes so far
  past,        \* history variable: taskID -> every status it had, in order
  excused      \* history variable: finished tasks that may still be a
               \* vehicle's current one (reported late, or a clear that failed)

tables == <<tasks, history, current>>
ghosts == <<past, excused>>
vars == <<tables, service, handlers, assigned, shown, faults, ghosts>>

Idle == [pc |-> "idle", task |-> NoTask, target |-> "pending", by |-> NoOne,
         previous |-> "pending"]

Init ==
  /\ tasks = [t \in TaskIds |-> NoTask]
  /\ history = [t \in TaskIds |-> <<>>]
  /\ current = [v \in Vehicles |-> NoTask]
  /\ service = "up"
  /\ handlers = [r \in Requests |-> Idle]
  /\ assigned = [v \in Vehicles |-> {}]
  /\ shown = [t \in TaskIds |-> NoTask]
  /\ faults = 0
  /\ past = [t \in TaskIds |-> <<>>]
  /\ excused = {}

Exists(t) == tasks[t] # NoTask

Finished(t) == Exists(t) /\ tasks[t].status \in Terminal

At(r, pc) == service = "up" /\ handlers[r].pc = pc

Goto(r, pc) == handlers' = [handlers EXCEPT ![r].pc = pc]

Respond(r) == handlers' = [handlers EXCEPT ![r] = Idle]

-----------------------------------------------------------------------------
(* POST /fleet/tasks *)

\* Fault: the default status is left empty.
CreateTaskWithoutDefault(r, v, t, sent) ==
  /\ At(r, "idle") /\ ~ Exists(t)
  /\ tasks' = [tasks EXCEPT ![t] =
                 [vehicle |-> v, status |-> sent, changedBy |-> NoOne]]
  /\ past' = [past EXCEPT ![t] = <<sent>>]
  /\ handlers' = [handlers EXCEPT ![r] =
                    [Idle EXCEPT !.pc = "dispatch", !.task = t, !.previous = sent]]
  /\ UNCHANGED <<history, current, service, assigned, shown, faults, excused>>

\* Store.CreateTask: a fresh ULID; the status is "pending" unless the body
\* names another one.  previous keeps the status of the row returned.
CreateTask(r, v, t, sent) ==
  LET status == IF sent = "" THEN "pending" ELSE sent
  IN  /\ At(r, "idle") /\ ~ Exists(t)
      /\ tasks' = [tasks EXCEPT ![t] =
                     [vehicle |-> v, status |-> status, changedBy |-> NoOne]]
      /\ past' = [past EXCEPT ![t] = <<status>>]
      /\ handlers' = [handlers EXCEPT ![r] =
                        [Idle EXCEPT !.pc = "dispatch", !.task = t, !.previous = status]]
      /\ UNCHANGED <<history, current, service, assigned, shown, faults, excused>>

\* Fire and forget: a failed publish is ignored.
DispatchTask(r) ==
  /\ At(r, "dispatch")
  /\ LET v == tasks[handlers[r].task].vehicle
     IN  \/ assigned' = [assigned EXCEPT ![v] = @ \cup {handlers[r].task}]
         \/ UNCHANGED assigned
  /\ Goto(r, "created")
  /\ UNCHANGED <<tables, service, shown, faults, ghosts>>

\* task_created carries the row as it was inserted; upsertTask replaces.
BroadcastCreated(r) ==
  /\ At(r, "created")
  /\ shown' = [shown EXCEPT ![handlers[r].task] = handlers[r].previous]
  /\ Respond(r)
  /\ UNCHANGED <<tables, service, assigned, faults, ghosts>>

-----------------------------------------------------------------------------
(* PATCH /fleet/tasks/{id}/status *)

\* The conditional UPDATE begins: in the statement's snapshot the row matches
\* and the CTE reads its status.  A row that does not match is a 409 (or a 404)
\* and changes nothing.
PatchTask(r, t, target, o) ==
  /\ At(r, "idle")
  /\ Exists(t)
  /\ target \in Targets /\ tasks[t].status \in taskTransitionSources[target]
  /\ handlers' = [handlers EXCEPT ![r] =
       [pc |-> "update", task |-> t, target |-> target, by |-> o,
        previous |-> tasks[t].status]]
  /\ UNCHANGED <<tables, service, assigned, shown, faults, ghosts>>

Move(t, target, o) ==
  /\ tasks' = [tasks EXCEPT ![t] = [@ EXCEPT !.status = target, !.changedBy = o]]
  /\ past' = [past EXCEPT ![t] = Append(@, target)]

\* Fault: a read-then-write, the status checked is the one read before.
UpdateTaskStatusReadThenWrite(r) ==
  LET h == handlers[r]
  IN  /\ At(r, "update")
      /\ Move(h.task, h.target, h.by)
      /\ Goto(r, IF h.target \in Terminal THEN "clear" ELSE "record")
      /\ UNCHANGED <<history, current, service, assigned, shown, faults, excused>>

\* The row is locked and the WHERE clause is evaluated again against its newest
\* version (READ COMMITTED): nothing is updated when another handler moved the
\* task on, which the caller is told with a 409.  The CTE is not read again.
UpdateTaskStatus(r) ==
  LET h == handlers[r]
  IN  /\ At(r, "update")
      /\ IF tasks[h.task].status \in taskTransitionSources[h.target]
         THEN /\ Move(h.task, h.target, h.by)
              /\ Goto(r, IF h.target \in Terminal THEN "clear" ELSE "record")
         ELSE Respond(r) /\ UNCHANGED <<tasks, past>>
      /\ UNCHANGED <<history, current, service, assigned, shown, faults, excused>>

\* Fault: whatever the vehicle is doing now is cleared, another task too, and
\* only for a completed one.
ClearCompletedOnly(r) ==
  LET h == handlers[r]
      v == tasks[h.task].vehicle
  IN  /\ At(r, "clear")
      /\ current' = IF h.target = "completed"
                    THEN [current EXCEPT ![v] = NoTask] ELSE current
      /\ Goto(r, "record")
      /\ UNCHANGED <<tasks, history, service, assigned, shown, faults, ghosts>>

\* A finished task is no longer its vehicle's current one.
ClearCurrentTask(r) ==
  LET t == handlers[r].task
      v == tasks[t].vehicle
  IN  /\ At(r, "clear")
      /\ current' = [current EXCEPT ![v] = IF @ = t THEN NoTask ELSE @]
      /\ Goto(r, "record")
      /\ UNCHANGED <<tasks, history, service, assigned, shown, faults, ghosts>>

\* Fault: a cancellation is not worth a row.
RecordUnlessCancelled(r) ==
  LET h == handlers[r]
  IN  /\ At(r, "record")
      /\ history' =
           IF h.target = "cancelled" THEN history
           ELSE [history EXCEPT ![h.task] =
                   Append(@, [from |-> h.previous, to |-> h.target, by |-> h.by])]
      /\ Goto(r, "changed")
      /\ UNCHANGED <<tasks, current, service, assigned, shown, faults, ghosts>>

\* The audit row of the transition.
RecordTaskStatusTransition(r) ==
  LET h == handlers[r]
  IN  /\ At(r, "record")
      /\ history' = [history EXCEPT ![h.task] =
                       Append(@, [from |-> h.previous, to |-> h.target, by |-> h.by])]
      /\ Goto(r, "changed")
      /\ UNCHANGED <<tasks, current, service, assigned, shown, faults, ghosts>>

\* Fault: the dashboard is told before the store has decided.
BroadcastEarly(r) ==
  /\ At(r, "update") \/ At(r, "changed")
  /\ shown' = [shown EXCEPT ![handlers[r].task] =
                 IF @ = NoTask THEN NoTask ELSE handlers[r].target]
  /\ IF At(r, "changed") THEN Respond(r) ELSE UNCHANGED handlers
  /\ UNCHANGED <<tables, service, assigned, faults, ghosts>>

\* task_status_changed; applyTaskStatusChanged ignores a task it does not know.
BroadcastChanged(r) ==
  /\ At(r, "changed")
  /\ shown' = [shown EXCEPT ![handlers[r].task] =
                 IF @ = NoTask THEN NoTask ELSE handlers[r].target]
  /\ Respond(r)
  /\ UNCHANGED <<tables, service, assigned, faults, ghosts>>

\* A statement fails: the handler answers 500 and does nothing more, although
\* an earlier statement may have been committed.
StatementFails(r) ==
  /\ handlers[r].pc \in {"update", "clear", "record"} /\ service = "up"
  /\ faults < MaxFaults
  /\ faults' = faults + 1
  /\ excused' = IF handlers[r].pc = "clear" THEN excused \cup {handlers[r].task}
                ELSE excused
  /\ Respond(r)
  /\ UNCHANGED <<tables, service, assigned, shown, past>>

-----------------------------------------------------------------------------
(* The vehicles and the life of the service *)

\* UpsertVehicleStatus overwrites the current task with the one the vehicle
\* reports: none, or one that was dispatched to it.
UpsertVehicleStatus(v, t) ==
  /\ service = "up"
  /\ t \in assigned[v] \cup {NoTask}
  /\ current' = [current EXCEPT ![v] = t]
  /\ excused' = IF t # NoTask /\ Finished(t) THEN excused \cup {t} ELSE excused
  /\ UNCHANGED <<tasks, history, service, handlers, assigned, shown, faults, past>>

\* Every handler dies where it is; the dashboards reload from the tables when
\* they are served again.
Crash ==
  /\ service \in {"up", "starting"}
  /\ faults < MaxFaults
  /\ faults' = faults + 1
  /\ service' = "down"
  /\ excused' = excused \cup
       {t \in TaskIds : \E r \in Requests :
          handlers[r].pc = "clear" /\ handlers[r].task = t}
  /\ handlers' = [r \in Requests |-> Idle]
  /\ UNCHANGED <<tables, assigned, shown, past>>

Restart ==
  /\ service = "down"
  /\ service' = "starting"
  /\ UNCHANGED <<tables, handlers, assigned, shown, faults, ghosts>>

\* Fault: the query forgets NOT EXISTS.
queryAllTransitions ==
  {t \in TaskIds : /\ Exists(t)
                   /\ tasks[t].status # "pending"
                   /\ tasks[t].changedBy # NoOne}

\* Fault: only statuses whose source is known are looked for.
queryUnambiguousTransitions ==
  {t \in TaskIds : /\ Exists(t)
                   /\ tasks[t].status \in {"in_progress", "completed"}
                   /\ tasks[t].changedBy # NoOne
                   /\ history[t] = <<>>}

queryLegacyTransitions ==
  {t \in TaskIds : /\ Exists(t)
                   /\ tasks[t].status # "pending"
                   /\ tasks[t].changedBy # NoOne
                   /\ history[t] = <<>>}

\* from_status is only known where the lifecycle leaves no choice.
insertBackfilledHistoryRow(t) ==
  /\ service = "starting"
  /\ t \in queryLegacyTransitions
  /\ LET to == tasks[t].status
         from == CASE to = "in_progress" -> "pending"
                   [] to = "completed" -> "in_progress"
                   [] OTHER -> "NULL"
     IN  history' = [history EXCEPT ![t] =
           Append(@, [from |-> from, to |-> to, by |-> tasks[t].changedBy])]
  /\ UNCHANGED <<tasks, current, service, handlers, assigned, shown, faults, ghosts>>

\* The store is ready; every dashboard connects again and lists the tasks.
Serve ==
  /\ service = "starting"
  /\ queryLegacyTransitions = {}
  /\ service' = "up"
  /\ shown' = [t \in TaskIds |-> IF Exists(t) THEN tasks[t].status ELSE NoTask]
  /\ UNCHANGED <<tables, handlers, assigned, faults, ghosts>>

Next ==
  \/ \E r \in Requests, v \in Vehicles, t \in TaskIds, s \in TaskStatus \cup {""} :
       CreateTask(r, v, t, s)
  \/ \E r \in Requests, t \in TaskIds, s \in Targets, o \in Operators :
       PatchTask(r, t, s, o)
  \/ \E r \in Requests :
       \/ DispatchTask(r)
       \/ BroadcastCreated(r)
       \/ UpdateTaskStatus(r)
       \/ ClearCurrentTask(r)
       \/ RecordTaskStatusTransition(r)
       \/ BroadcastChanged(r)
       \/ StatementFails(r)
  \/ \E v \in Vehicles, t \in TaskIds \cup {NoTask} : UpsertVehicleStatus(v, t)
  \/ \E t \in TaskIds : insertBackfilledHistoryRow(t)
  \/ Crash
  \/ Restart
  \/ Serve

Spec == Init /\ [][Next]_vars

-----------------------------------------------------------------------------
Row == [from : TaskStatus \cup {"NULL"}, to : Targets, by : Operators]

Handler == [pc : {"idle", "dispatch", "created", "update", "clear", "record", "changed"},
            task : TaskIds \cup {NoTask}, target : TaskStatus,
            by : Operators \cup {NoOne}, previous : TaskStatus]

\* The tables satisfy their CHECK and foreign key constraints, and every
\* handler works on a task that exists.
TasksTypeOK ==
  /\ tasks \in [TaskIds -> Task \cup {NoTask}]
  /\ \A t \in TaskIds : \A i \in DOMAIN history[t] : history[t][i] \in Row
  /\ current \in [Vehicles -> TaskIds \cup {NoTask}]
  /\ service \in {"up", "down", "starting"}
  /\ handlers \in [Requests -> Handler]
  /\ \A r \in Requests : handlers[r].pc # "idle" => Exists(handlers[r].task)
  /\ \A t \in TaskIds \cup {NoTask} : \A v \in Vehicles :
       current[v] = t => t = NoTask \/ Exists(t)

\* The Postgres store implements the lifecycle that the handler tests assume:
\* of two concurrent PATCHes that exclude each other one is refused, and a
\* finished task is never revived.
Lifecycle ==
  INSTANCE TaskLifecycle WITH
    status <- [t \in TaskIds |-> IF Exists(t) THEN tasks[t].status ELSE NoTask]

TasksFollowLifecycle == Lifecycle!LifecycleSpec

Working(t) == {r \in Requests : handlers[r].pc # "idle" /\ handlers[r].task = t}

\* The audit trail, whatever was retried, failed or backfilled after a crash:
\* no row names a status the task did not enter, none is entered twice, and a
\* row's source is a status the task had before.  That it is the status right
\* before is what store.go 132 says and what FromStatusIsTrue refutes.
HistoryIsSound ==
  \A t \in TaskIds : \A i \in DOMAIN history[t] :
    LET row == history[t][i]
    IN  /\ \E k \in 2 .. Len(past[t]) :
             /\ past[t][k] = row.to
             /\ row.from # "NULL" => \E j \in 1 .. k - 1 : past[t][j] = row.from
        /\ \A j \in DOMAIN history[t] : history[t][j].to = row.to => i = j

\* store.go 132: from_status is "the true prior status", read "atomically before
\* overwriting it".  A row names the status that its transition replaced.
FromStatusIsTrue ==
  \A t \in TaskIds : \A i \in DOMAIN history[t] :
    LET row == history[t][i]
    IN  row.from # "NULL" =>
          \E k \in 2 .. Len(past[t]) : past[t][k] = row.to /\ past[t][k - 1] = row.from

\* Without a failure every transition has its row once its handler is done.
HistoryIsComplete ==
  \A t \in TaskIds :
    faults = 0 /\ Working(t) = {} => Len(history[t]) >= Len(past[t]) - 1

\* When a restarted service serves again, every task that ever changed has a
\* history.
RestartRepairsHistory ==
  [][service = "starting" /\ service' = "up" =>
       \A t \in TaskIds : Len(past[t]) > 1 => history[t] # <<>>]_vars

\* A finished task does not stay its vehicle's current one, unless the vehicle
\* itself reported it after it was finished or the clear never ran.
FinishedTaskIsCleared ==
  \A v \in Vehicles : current[v] # NoTask /\ Finished(current[v]) =>
    \/ current[v] \in excused
    \/ \E r \in Working(current[v]) : handlers[r].pc = "clear"

\* A dashboard never shows a status the task did not have.
ShownWasStored ==
  \A t \in TaskIds : shown[t] # NoTask => \E i \in DOMAIN past[t] : past[t][i] = shown[t]
=============================================================================
