--------------------------- MODULE FleetTasksProofs ---------------------------
(***************************************************************************)
(* fleet-service's tasks for any number of vehicles, tasks and concurrent  *)
(* requests, any number of failed statements and crashes.                  *)
(*                                                                         *)
(* First, the Postgres store implements the task lifecycle.  The handlers  *)
(* read a task's status in one step and move it in another; what carries   *)
(* the proof is that the conditional UPDATE looks at the row again, and    *)
(* that no handler between the two ever loses its row: tasks are not       *)
(* deleted, and a handler names a task that exists and a target that some  *)
(* status leads to (HandlersAreSound).                                     *)
(*                                                                         *)
(* Second, the audit trail.  A task never has the same status twice        *)
(* (PastFits), so a change is known by the status it leads to; each one    *)
(* that happened is in one handler's hands (HandInv), in the table         *)
(* (HistoryInv), or was lost by a failure (CompleteInv), and the backfill  *)
(* runs only while nobody holds one.                                       *)
(***************************************************************************)
EXTENDS FleetTasks, TLAPS

\* Rows of table tasks and the handlers' captured values.
RowsOK ==
  /\ tasks \in [TaskIds -> Task \cup {NoTask}]
  /\ handlers \in [Requests -> Handler]

\* A handler at work names a task that exists, and one that is about to update
\* it, or has just done so, a legal target and an operator.
HandlersAreSound ==
  \A r \in Requests :
    /\ handlers[r].pc # "idle" => handlers[r].task \in TaskIds /\ Exists(handlers[r].task)
    /\ handlers[r].pc \in {"update", "clear", "record"} =>
         handlers[r].target \in Targets /\ handlers[r].by \in Operators

\* The inductive invariant behind the refinement.
TasksInv == RowsOK /\ HandlersAreSound

\* The status of a task as the lifecycle sees it.
StatusOf(t) == IF Exists(t) THEN tasks[t].status ELSE NoTask

\* The variable of TaskLifecycle under the refinement mapping.
Status == [t \in TaskIds |-> StatusOf(t)]

-----------------------------------------------------------------------------
\* An idle handler is a handler.
LEMMA IdleIsHandler == Idle \in Handler /\ Idle.pc = "idle"
BY DEF Idle, Handler, TaskStatus

\* Legal targets are statuses a task can have.
LEMMA TargetsAreStatuses ==
  /\ Targets = {"in_progress", "completed", "cancelled"}
  /\ Targets \subseteq TaskStatus
BY DEF Targets, taskTransitionSources, TaskStatus

\* Empty tables satisfy the invariant.
LEMMA InitTasksInv == Init => TasksInv
BY IdleIsHandler DEF Init, TasksInv, RowsOK, HandlersAreSound

\* Answering a request, or going on to a later statement of it, with the tasks
\* left alone.
LEMMA ProgressKeeps ==
  ASSUME TasksInv, UNCHANGED tasks,
         \/ UNCHANGED handlers
         \/ \E r \in Requests : Respond(r)
         \/ \E r \in Requests, pc \in {"created", "record", "changed"} :
              /\ handlers[r].pc # "idle" /\ Goto(r, pc)
              /\ pc = "record" => handlers[r].pc = "clear"
         \/ handlers' = [r \in Requests |-> Idle]
  PROVE  TasksInv'
<1> USE DEF TasksInv, RowsOK, HandlersAreSound, Exists
<1>1. CASE UNCHANGED handlers
  BY <1>1
<1>2. ASSUME NEW r \in Requests, Respond(r)
      PROVE  TasksInv'
  BY <1>2, IdleIsHandler DEF Respond
<1>3. ASSUME NEW r \in Requests, NEW pc \in {"created", "record", "changed"},
             handlers[r].pc # "idle", Goto(r, pc), pc = "record" => handlers[r].pc = "clear"
      PROVE  TasksInv'
  <2>1. /\ [handlers[r] EXCEPT !.pc = pc] \in Handler
        /\ [handlers[r] EXCEPT !.pc = pc].task = handlers[r].task
        /\ [handlers[r] EXCEPT !.pc = pc].target = handlers[r].target
        /\ [handlers[r] EXCEPT !.pc = pc].by = handlers[r].by
        /\ [handlers[r] EXCEPT !.pc = pc].pc = pc
    BY DEF Handler
  <2>2. handlers' = [handlers EXCEPT ![r] = [handlers[r] EXCEPT !.pc = pc]]
    BY <1>3 DEF Goto
  <2> QED
    BY <1>3, <2>1, <2>2
<1>4. CASE handlers' = [r \in Requests |-> Idle]
  BY <1>4, IdleIsHandler
<1> QED
  BY <1>1, <1>2, <1>3, <1>4

\* Inserting a task adds a row with a status and nothing else.
LEMMA CreateKeeps ==
  ASSUME TasksInv, NEW r \in Requests, NEW v \in Vehicles, NEW t \in TaskIds,
         NEW sent \in TaskStatus \cup {""}, CreateTask(r, v, t, sent)
  PROVE  /\ TasksInv'
         /\ Lifecycle!CreateTask(t)
<1> DEFINE st == IF sent = "" THEN "pending" ELSE sent
           row == [vehicle |-> v, status |-> st, changedBy |-> NoOne]
           h == [Idle EXCEPT !.pc = "dispatch", !.task = t, !.previous = st]
<1>1. st \in TaskStatus
  BY DEF TaskStatus
<1>2. row \in Task /\ row # NoTask /\ row.status = st
  <2> HIDE DEF st
  <2>1. row \in Task /\ row.status = st
    BY <1>1 DEF Task
  <2> QED
    BY <2>1, TaskAssumption
<1>3. h \in Handler /\ h.task = t /\ h.pc = "dispatch"
  BY <1>1 DEF Idle, Handler, TaskStatus
<1>4. /\ tasks' = [tasks EXCEPT ![t] = row]
      /\ handlers' = [handlers EXCEPT ![r] = h]
      /\ tasks[t] = NoTask
  BY DEF CreateTask, Exists
<1> HIDE DEF st, row, h
<1>5. tasks'[t] = row /\ \A u \in TaskIds : u # t => tasks'[u] = tasks[u]
  BY <1>4 DEF TasksInv, RowsOK
<1>6. \A u \in TaskIds : Exists(u) => Exists(u)'
  BY <1>2, <1>5 DEF Exists
<1>7. TasksInv'
  <2>1. RowsOK'
    BY <1>2, <1>3, <1>4 DEF TasksInv, RowsOK
  <2>2. ASSUME NEW q \in Requests
        PROVE  /\ handlers'[q].pc # "idle" =>
                    handlers'[q].task \in TaskIds /\ Exists(handlers[q].task)'
               /\ handlers'[q].pc \in {"update", "clear", "record"} =>
                    handlers'[q].target \in Targets /\ handlers'[q].by \in Operators
    <3>1. CASE q = r
      BY <1>2, <1>3, <1>4, <1>5, <3>1 DEF TasksInv, RowsOK, Exists
    <3>2. CASE q # r
      <4>1. handlers'[q] = handlers[q]
        BY <1>4, <3>2 DEF TasksInv, RowsOK
      <4> QED
        BY <1>6, <4>1 DEF TasksInv, HandlersAreSound, Exists
    <3> QED
      BY <3>1, <3>2
  <2> QED
    BY <2>1, <2>2 DEF TasksInv, HandlersAreSound
<1>8. StatusOf(t) = NoTask /\ Status' = [Status EXCEPT ![t] = st]
  <2>1. StatusOf(t) = NoTask /\ StatusOf(t)' = st
    BY <1>2, <1>4, <1>5 DEF StatusOf, Exists
  <2>2. \A u \in TaskIds : u # t => StatusOf(u)' = StatusOf(u)
    BY <1>5 DEF StatusOf, Exists
  <2> QED
    BY <2>1, <2>2 DEF Status
<1>9. Status[t] = NoTask
  BY <1>8 DEF Status
<1> QED
  BY <1>1, <1>7, <1>8, <1>9
     DEF Lifecycle!CreateTask, Lifecycle!TaskStatus, TaskStatus, Status, StatusOf

\* The conditional UPDATE moves a task along the lifecycle, or not at all.
LEMMA UpdateKeeps ==
  ASSUME TasksInv, NEW r \in Requests, UpdateTaskStatus(r)
  PROVE  /\ TasksInv'
         /\ \/ \E t \in TaskIds, target \in Targets : Lifecycle!UpdateTaskStatus(t, target)
            \/ UNCHANGED tasks
<1>0. PICK t \in TaskIds, target \in Targets : t = handlers[r].task /\ target = handlers[r].target
  BY DEF UpdateTaskStatus, At, TasksInv, HandlersAreSound
<1> DEFINE row == [tasks[t] EXCEPT !.status = target, !.changedBy = handlers[r].by]
<1>1. /\ handlers[r] \in Handler /\ handlers[r].pc = "update"
      /\ tasks[t] # NoTask /\ tasks[t] \in Task
      /\ handlers[r].by \in Operators
  BY <1>0 DEF UpdateTaskStatus, At, TasksInv, RowsOK, HandlersAreSound, Exists
<1>2. CASE tasks[t].status \notin taskTransitionSources[target]
  <2>1. UNCHANGED tasks /\ Respond(r)
    BY <1>0, <1>2 DEF UpdateTaskStatus
  <2> QED
    BY <2>1, ProgressKeeps
<1>3. CASE tasks[t].status \in taskTransitionSources[target]
  <2>1. /\ tasks' = [tasks EXCEPT ![t] = row]
        /\ handlers' = [handlers EXCEPT ![r] =
             [handlers[r] EXCEPT !.pc = IF target \in Terminal THEN "clear" ELSE "record"]]
    BY <1>0, <1>3 DEF UpdateTaskStatus, Move, Goto
  <2>2. row \in Task /\ row.status = target
    BY <1>1, TargetsAreStatuses DEF Task
  <2>3. row # NoTask
    BY <2>2, TaskAssumption
  <2>4. /\ handlers'[r] \in Handler /\ handlers'[r].pc \in {"clear", "record"}
        /\ handlers'[r].task = t /\ handlers'[r].target = target
        /\ handlers'[r].by = handlers[r].by
    BY <1>0, <1>1, <2>1 DEF Handler, TasksInv, RowsOK
  <2> HIDE DEF row
  <2>5. tasks'[t] = row /\ \A u \in TaskIds : u # t => tasks'[u] = tasks[u]
    BY <1>1, <2>1 DEF TasksInv, RowsOK
  <2>6. \A q \in Requests : q # r => handlers'[q] = handlers[q]
    BY <2>1 DEF TasksInv, RowsOK
  <2>7. RowsOK'
    BY <2>1, <2>2, <2>4, <2>6 DEF TasksInv, RowsOK
  <2>8. HandlersAreSound'
    <3>1. \A u \in TaskIds : Exists(u) => Exists(u)'
      BY <2>3, <2>5 DEF Exists
    <3> QED
      BY <1>1, <2>4, <2>6, <3>1 DEF TasksInv, HandlersAreSound, Exists
  <2>9. Status' = [Status EXCEPT ![t] = target] /\ Status[t] = tasks[t].status
    <3>1. StatusOf(t)' = target /\ StatusOf(t) = tasks[t].status
      BY <1>1, <2>2, <2>3, <2>5 DEF StatusOf, Exists
    <3>2. \A u \in TaskIds : u # t => StatusOf(u)' = StatusOf(u)
      BY <2>5 DEF StatusOf, Exists
    <3> QED
      BY <1>1, <3>1, <3>2 DEF Status
  <2>10. Lifecycle!UpdateTaskStatus(t, target)
    <3>1. Lifecycle!taskTransitionSources = taskTransitionSources
      BY DEF Lifecycle!taskTransitionSources, taskTransitionSources
    <3> QED
      BY <1>3, <2>9, <3>1 DEF Lifecycle!UpdateTaskStatus, Status, StatusOf
  <2> QED
    BY <2>7, <2>8, <2>10 DEF TasksInv
<1> QED
  BY <1>2, <1>3

\* A PATCH begins with a snapshot in which its task exists.
LEMMA PatchKeeps ==
  ASSUME TasksInv, NEW r \in Requests, NEW t \in TaskIds, NEW target \in Targets,
         NEW o \in Operators, PatchTask(r, t, target, o)
  PROVE  TasksInv' /\ UNCHANGED tasks
<1> DEFINE h == [pc |-> "update", task |-> t, target |-> target, by |-> o,
                 previous |-> tasks[t].status]
<1>1. /\ handlers' = [handlers EXCEPT ![r] = h]
      /\ Exists(t) /\ UNCHANGED tasks
  BY DEF PatchTask, tables
<1>2. tasks[t].status \in TaskStatus
  BY <1>1 DEF Exists, TasksInv, RowsOK, Task
<1>3. h \in Handler /\ h.task = t /\ h.target = target /\ h.by = o /\ h.pc = "update"
  BY <1>2, TargetsAreStatuses DEF Handler
<1> HIDE DEF h
<1>4. handlers'[r] = h /\ \A q \in Requests : q # r => handlers'[q] = handlers[q]
  BY <1>1 DEF TasksInv, RowsOK
<1>5. RowsOK'
  BY <1>1, <1>3 DEF TasksInv, RowsOK
<1>6. HandlersAreSound'
  BY <1>1, <1>3, <1>4 DEF TasksInv, HandlersAreSound, Exists
<1> QED
  BY <1>1, <1>5, <1>6 DEF TasksInv

\* Every step preserves the invariant, and creates a task, moves one along the
\* lifecycle or leaves all of them alone.
LEMMA TasksStep ==
  ASSUME TasksInv, [Next]_vars
  PROVE  TasksInv' /\ (Lifecycle!LifecycleNext \/ UNCHANGED tasks)
<1>1. ASSUME NEW r \in Requests, NEW v \in Vehicles, NEW t \in TaskIds,
             NEW s \in TaskStatus \cup {""}, CreateTask(r, v, t, s)
      PROVE  TasksInv' /\ Lifecycle!LifecycleNext
  BY <1>1, CreateKeeps DEF Lifecycle!LifecycleNext
<1>2. ASSUME NEW r \in Requests, NEW t \in TaskIds, NEW s \in Targets, NEW o \in Operators,
             PatchTask(r, t, s, o)
      PROVE  TasksInv' /\ UNCHANGED tasks
  BY <1>2, PatchKeeps
<1>3. ASSUME NEW r \in Requests, UpdateTaskStatus(r)
      PROVE  TasksInv' /\ (Lifecycle!LifecycleNext \/ UNCHANGED tasks)
  <2>1. Targets = DOMAIN Lifecycle!taskTransitionSources
    BY DEF Targets, taskTransitionSources, Lifecycle!taskTransitionSources
  <2>2. TasksInv' /\ ( \/ \E t \in TaskIds, s \in Targets : Lifecycle!UpdateTaskStatus(t, s)
                      \/ UNCHANGED tasks)
    BY <1>3, UpdateKeeps
  <2> QED
    BY <2>1, <2>2 DEF Lifecycle!LifecycleNext
<1>4. ASSUME NEW r \in Requests,
             \/ DispatchTask(r) \/ ClearCurrentTask(r) \/ RecordTaskStatusTransition(r)
             \/ BroadcastCreated(r) \/ BroadcastChanged(r) \/ StatementFails(r)
      PROVE  TasksInv' /\ UNCHANGED tasks
  <2>1. UNCHANGED tasks
    BY <1>4 DEF DispatchTask, ClearCurrentTask, RecordTaskStatusTransition, BroadcastCreated,
       BroadcastChanged, StatementFails, tables
  <2>2. \/ Respond(r)
        \/ \E pc \in {"created", "record", "changed"} :
             /\ handlers[r].pc # "idle" /\ Goto(r, pc)
             /\ pc = "record" => handlers[r].pc = "clear"
    BY <1>4 DEF DispatchTask, ClearCurrentTask, RecordTaskStatusTransition, BroadcastCreated,
       BroadcastChanged, StatementFails, At
  <2> QED
    BY <2>1, <2>2, ProgressKeeps
<1>5. ASSUME \/ \E v \in Vehicles, t \in TaskIds \cup {NoTask} : UpsertVehicleStatus(v, t)
             \/ \E t \in TaskIds : insertBackfilledHistoryRow(t)
             \/ Crash \/ Restart \/ Serve \/ UNCHANGED vars
      PROVE  TasksInv' /\ UNCHANGED tasks
  <2>1. UNCHANGED tasks
    BY <1>5 DEF UpsertVehicleStatus, insertBackfilledHistoryRow, Crash, Restart, Serve, vars,
       tables
  <2>2. UNCHANGED handlers \/ handlers' = [r \in Requests |-> Idle]
    BY <1>5 DEF UpsertVehicleStatus, insertBackfilledHistoryRow, Crash, Restart, Serve, vars
  <2> QED
    BY <2>1, <2>2, ProgressKeeps
<1> QED
  BY <1>1, <1>2, <1>3, <1>4, <1>5 DEF Next

\* The invariant holds throughout.
LEMMA TasksInvariance == Spec => []TasksInv
BY InitTasksInv, TasksStep, PTL DEF Spec

\* The Postgres store implements the lifecycle that FakeFleetStore has under one
\* mutex: however many PATCHes of a task overlap, fail or are cut off by a crash,
\* its status moves along the lifecycle and a finished task is never revived.
THEOREM TasksImplementLifecycle == Spec => TasksFollowLifecycle
<1>1. Init => Lifecycle!LifecycleInit
  BY DEF Init, Lifecycle!LifecycleInit, Exists
<1>2. TasksInv /\ [Next]_vars => [Lifecycle!LifecycleNext]_Status
  <2> SUFFICES ASSUME TasksInv, [Next]_vars
               PROVE  Lifecycle!LifecycleNext \/ UNCHANGED Status
    OBVIOUS
  <2> QED
    BY TasksStep DEF Status, StatusOf, Exists
<1> QED
  BY <1>1, <1>2, TasksInvariance, PTL
     DEF Spec, TasksFollowLifecycle, Lifecycle!LifecycleSpec, Status, StatusOf

-----------------------------------------------------------------------------
(* The audit trail *)

\* The task had this status at some time.
Had(t, s) == \E i \in 1 .. Len(past[t]) : past[t][i] = s

\* The task entered a status after it had another one, if that is known.
Changed(t, from, to) ==
  \E k \in 2 .. Len(past[t]) :
    /\ past[t][k] = to
    /\ from # "NULL" => \E j \in 1 .. k - 1 : past[t][j] = from

Recorded(t, to) == \E i \in DOMAIN history[t] : history[t][i].to = to

\* The handler has moved its task and not yet written the row.
Owes(r) == handlers[r].pc \in {"clear", "record"}

\* A task passes through at most three statuses, none of them twice, and its row
\* names who changed it exactly when it was changed.
PastFits(t) ==
  /\ Len(past[t]) <= 3
  /\ ~ Exists(t) => Len(past[t]) = 0
  /\ Exists(t) =>
       /\ Len(past[t]) > 0 /\ past[t][Len(past[t])] = tasks[t].status
       /\ tasks[t].status = "pending" => Len(past[t]) = 1
       /\ tasks[t].status = "in_progress" => Len(past[t]) <= 2
       /\ tasks[t].status = "completed" /\ Len(past[t]) > 1 =>
            past[t][Len(past[t]) - 1] = "in_progress"
       /\ Len(past[t]) > 1 <=> tasks[t].changedBy # NoOne
  /\ \A i \in 1 .. Len(past[t]) : i < Len(past[t]) => past[t][i] \notin Terminal
  /\ \A i, j \in 1 .. Len(past[t]) : past[t][i] = past[t][j] => i = j

PastInv ==
  /\ past \in [TaskIds -> Seq(TaskStatus)]
  /\ \A t \in TaskIds : PastFits(t)

\* A row of the history is a change that happened, and there is one row per change.
HistoryInv ==
  /\ history \in [TaskIds -> Seq(Row)]
  /\ \A t \in TaskIds :
       /\ \A i \in 1 .. Len(history[t]) : Changed(t, history[t][i].from, history[t][i].to)
       /\ \A i, j \in 1 .. Len(history[t]) : history[t][i].to = history[t][j].to => i = j

\* What a handler holds between two statements: a status read is one the task
\* had, a change owed happened and has no row yet, and a status to be announced
\* was stored.  Nothing is in hand while the service is not up.
InHand(r) ==
  LET h == handlers[r]
  IN  /\ h.pc \in {"dispatch", "created", "update"} => Had(h.task, h.previous)
      /\ h.pc = "changed" => Had(h.task, h.target)
      /\ Owes(r) => Changed(h.task, h.previous, h.target) /\ ~ Recorded(h.task, h.target)
      /\ service # "up" => h.pc = "idle"

SameChange(q, r) ==
  /\ Owes(q) /\ Owes(r)
  /\ handlers[q].task = handlers[r].task /\ handlers[q].target = handlers[r].target

\* No two handlers owe the row of the same change.
HandInv ==
  /\ \A r \in Requests : InHand(r)
  /\ \A q, r \in Requests : SameChange(q, r) => q = r

\* Until something fails, a change is recorded or some handler still owes its row.
CompleteInv ==
  /\ faults \in Nat
  /\ faults = 0 =>
       \A t \in TaskIds : \A k \in 2 .. Len(past[t]) :
         \/ Recorded(t, past[t][k])
         \/ \E r \in Requests :
              Owes(r) /\ handlers[r].task = t /\ handlers[r].target = past[t][k]

\* A vehicle works on a task of its own.
AssignedInv ==
  /\ current \in [Vehicles -> TaskIds \cup {NoTask}]
  /\ assigned \in [Vehicles -> SUBSET TaskIds]
  /\ \A v \in Vehicles :
       /\ current[v] # NoTask => current[v] \in assigned[v]
       /\ \A t \in assigned[v] : Exists(t) /\ tasks[t].vehicle = v

ClearInv ==
  \A v \in Vehicles : current[v] # NoTask /\ Finished(current[v]) =>
    \/ current[v] \in excused
    \/ \E r \in Requests : handlers[r].pc = "clear" /\ handlers[r].task = current[v]

ShownInv ==
  /\ shown \in [TaskIds -> TaskStatus \cup {NoTask}]
  /\ \A t \in TaskIds : shown[t] # NoTask => Had(t, shown[t])

ServiceInv == service \in {"up", "down", "starting"}

-----------------------------------------------------------------------------
(* What the steps do to a handler, a task and its past *)

\* A handler that goes on keeps what it holds.
LEMMA GotoHandler ==
  ASSUME TasksInv, NEW r \in Requests, NEW pc, Goto(r, pc)
  PROVE  /\ handlers'[r].pc = pc /\ handlers'[r].task = handlers[r].task
         /\ handlers'[r].target = handlers[r].target /\ handlers'[r].by = handlers[r].by
         /\ handlers'[r].previous = handlers[r].previous
         /\ \A q \in Requests : q # r => handlers'[q] = handlers[q]
<1>1. handlers' = [handlers EXCEPT ![r] = [handlers[r] EXCEPT !.pc = pc]]
  BY DEF Goto
<1>2. handlers[r] \in Handler /\ handlers \in [Requests -> Handler]
  BY DEF TasksInv, RowsOK
<1>3. /\ [handlers[r] EXCEPT !.pc = pc].pc = pc
      /\ [handlers[r] EXCEPT !.pc = pc].task = handlers[r].task
      /\ [handlers[r] EXCEPT !.pc = pc].target = handlers[r].target
      /\ [handlers[r] EXCEPT !.pc = pc].by = handlers[r].by
      /\ [handlers[r] EXCEPT !.pc = pc].previous = handlers[r].previous
  BY <1>2 DEF Handler
<1> QED
  BY <1>1, <1>2, <1>3

LEMMA RespondHandler ==
  ASSUME TasksInv, NEW r \in Requests, Respond(r)
  PROVE  /\ handlers'[r].pc = "idle"
         /\ \A q \in Requests : q # r => handlers'[q] = handlers[q]
BY IdleIsHandler DEF Respond, TasksInv, RowsOK

\* A row is inserted with status s.
Adds(r, t, s) ==
  /\ handlers[r].pc = "idle" /\ ~ Exists(t)
  /\ tasks'[t].status = s /\ tasks'[t].changedBy = NoOne
  /\ \A u \in TaskIds : u # t => tasks'[u] = tasks[u]
  /\ past' = [past EXCEPT ![t] = <<s>>]
  /\ handlers'[r].pc = "dispatch" /\ handlers'[r].task = t /\ handlers'[r].previous = s
  /\ \A q \in Requests : q # r => handlers'[q] = handlers[q]

\* The conditional UPDATE succeeds.
Moves(r, t, to) ==
  /\ handlers[r].pc = "update" /\ handlers[r].task = t /\ handlers[r].target = to
  /\ Exists(t) /\ tasks[t].status \in taskTransitionSources[to]
  /\ tasks'[t].status = to /\ tasks'[t].changedBy \in Operators
  /\ tasks'[t].vehicle = tasks[t].vehicle
  /\ \A u \in TaskIds : u # t => tasks'[u] = tasks[u]
  /\ past' = [past EXCEPT ![t] = Append(past[t], to)]
  /\ Goto(r, IF to \in Terminal THEN "clear" ELSE "record")

LEMMA CreateAdds ==
  ASSUME TasksInv, NEW r \in Requests, NEW v \in Vehicles, NEW t \in TaskIds,
         NEW sent \in TaskStatus \cup {""}, CreateTask(r, v, t, sent)
  PROVE  \E s \in TaskStatus : Adds(r, t, s)
<1>1. PICK s \in TaskStatus : s = IF sent = "" THEN "pending" ELSE sent
  BY DEF TaskStatus
<1>2. /\ tasks' = [tasks EXCEPT ![t] = [vehicle |-> v, status |-> s, changedBy |-> NoOne]]
      /\ past' = [past EXCEPT ![t] = <<s>>]
      /\ handlers' = [handlers EXCEPT ![r] =
           [Idle EXCEPT !.pc = "dispatch", !.task = t, !.previous = s]]
      /\ handlers[r].pc = "idle" /\ ~ Exists(t)
  BY <1>1 DEF CreateTask, At
<1>3. tasks \in [TaskIds -> Task \cup {NoTask}] /\ handlers \in [Requests -> Handler]
  BY DEF TasksInv, RowsOK
<1>4. /\ handlers'[r].pc = "dispatch" /\ handlers'[r].task = t /\ handlers'[r].previous = s
      /\ \A q \in Requests : q # r => handlers'[q] = handlers[q]
  BY <1>2, <1>3 DEF Idle
<1> QED
  BY <1>2, <1>3, <1>4 DEF Adds

LEMMA UpdateMoves ==
  ASSUME TasksInv, NEW r \in Requests, UpdateTaskStatus(r)
  PROVE  \/ Respond(r) /\ handlers[r].pc = "update" /\ UNCHANGED <<tasks, past>>
         \/ \E t \in TaskIds, to \in Targets : Moves(r, t, to)
<1>0. PICK t \in TaskIds, to \in Targets, o \in Operators :
        t = handlers[r].task /\ to = handlers[r].target /\ o = handlers[r].by
  BY DEF UpdateTaskStatus, At, TasksInv, HandlersAreSound
<1>1. handlers[r].pc = "update" /\ Exists(t) /\ tasks[t] \in Task
  BY <1>0 DEF UpdateTaskStatus, At, TasksInv, RowsOK, HandlersAreSound, Exists
<1>2. CASE tasks[t].status \notin taskTransitionSources[to]
  BY <1>0, <1>1, <1>2 DEF UpdateTaskStatus
<1>3. CASE tasks[t].status \in taskTransitionSources[to]
  <2>1. /\ tasks' = [tasks EXCEPT ![t] = [tasks[t] EXCEPT !.status = to, !.changedBy = o]]
        /\ past' = [past EXCEPT ![t] = Append(past[t], to)]
        /\ Goto(r, IF to \in Terminal THEN "clear" ELSE "record")
    BY <1>0, <1>3 DEF UpdateTaskStatus, Move
  <2>2. /\ tasks'[t] = [tasks[t] EXCEPT !.status = to, !.changedBy = o]
        /\ \A u \in TaskIds : u # t => tasks'[u] = tasks[u]
    BY <2>1 DEF TasksInv, RowsOK
  <2>3. tasks'[t].status = to /\ tasks'[t].changedBy = o /\ tasks'[t].vehicle = tasks[t].vehicle
    BY <1>1, <2>2 DEF Task
  <2> QED
    BY <1>0, <1>1, <1>3, <2>1, <2>2, <2>3 DEF Moves
<1> QED
  BY <1>2, <1>3

\* Only these two change a task.
LEMMA TaskSteps ==
  ASSUME TasksInv, [Next]_vars
  PROVE  \/ UNCHANGED <<tasks, past>>
         \/ \E r \in Requests, t \in TaskIds, s \in TaskStatus : Adds(r, t, s)
         \/ \E r \in Requests, t \in TaskIds, to \in Targets : Moves(r, t, to)
<1>1. ASSUME NEW r \in Requests, NEW v \in Vehicles, NEW t \in TaskIds,
             NEW s \in TaskStatus \cup {""}, CreateTask(r, v, t, s)
      PROVE  \E u \in TaskStatus : Adds(r, t, u)
  BY <1>1, CreateAdds
<1>2. ASSUME NEW r \in Requests, UpdateTaskStatus(r)
      PROVE  \/ UNCHANGED <<tasks, past>>
             \/ \E t \in TaskIds, to \in Targets : Moves(r, t, to)
  BY <1>2, UpdateMoves
<1>3. ASSUME NEW r \in Requests,
             \/ DispatchTask(r) \/ ClearCurrentTask(r) \/ RecordTaskStatusTransition(r)
             \/ BroadcastCreated(r) \/ BroadcastChanged(r) \/ StatementFails(r)
      PROVE  UNCHANGED <<tasks, past>>
  BY <1>3 DEF DispatchTask, ClearCurrentTask, RecordTaskStatusTransition, BroadcastCreated,
     BroadcastChanged, StatementFails, tables, ghosts
<1>4. ASSUME \/ \E v \in Vehicles, t \in TaskIds \cup {NoTask} : UpsertVehicleStatus(v, t)
             \/ \E t \in TaskIds : insertBackfilledHistoryRow(t)
             \/ \E r \in Requests, t \in TaskIds, s \in Targets, o \in Operators :
                  PatchTask(r, t, s, o)
             \/ Crash \/ Restart \/ Serve \/ UNCHANGED vars
      PROVE  UNCHANGED <<tasks, past>>
  BY <1>4 DEF UpsertVehicleStatus, insertBackfilledHistoryRow, PatchTask, Crash, Restart, Serve,
     vars, tables, ghosts
<1> QED
  BY <1>1, <1>2, <1>3, <1>4 DEF Next

\* The task's past is kept.
Kept(t) ==
  /\ Len(past[t]) <= Len(past'[t])
  /\ \A i \in 1 .. Len(past[t]) : past'[t][i] = past[t][i]

LEMMA FitsAlone ==
  ASSUME NEW u \in TaskIds, PastFits(u), past'[u] = past[u], tasks'[u] = tasks[u]
  PROVE  PastFits(u)' /\ (Exists(u)' <=> Exists(u))
BY DEF PastFits, Exists

\* Inserting a row begins its past.
LEMMA AddsPast ==
  ASSUME TasksInv, PastInv, TasksInv', NEW r \in Requests, NEW t \in TaskIds,
         NEW s \in TaskStatus, Adds(r, t, s)
  PROVE  /\ PastInv'
         /\ \A u \in TaskIds : Kept(u)
         /\ \A u \in TaskIds : Exists(u) => Exists(u)' /\ tasks'[u].vehicle = tasks[u].vehicle
<1>1. /\ past \in [TaskIds -> Seq(TaskStatus)] /\ past[t] \in Seq(TaskStatus)
      /\ Len(past[t]) = 0 /\ past'[t] = <<s>>
      /\ \A u \in TaskIds : u # t => past'[u] = past[u] /\ tasks'[u] = tasks[u]
  BY DEF PastInv, PastFits, Adds
<1>2. Len(past'[t]) = 1 /\ past'[t][1] = s
  BY <1>1
<1>3. past' \in [TaskIds -> Seq(TaskStatus)]
  BY <1>1 DEF Adds
<1>4. Exists(t)'
  <2>1. handlers'[r].pc # "idle" /\ handlers'[r].task = t
    BY DEF Adds
  <2> QED
    BY <2>1 DEF TasksInv, HandlersAreSound, Exists
<1>5. PastFits(t)'
  <2>1. tasks'[t].status = s /\ tasks'[t].changedBy = NoOne
    BY DEF Adds
  <2> QED
    BY <1>2, <1>4, <2>1 DEF PastFits
<1>6. \A u \in TaskIds : u # t => PastFits(u)' /\ (Exists(u)' <=> Exists(u))
  BY <1>1, FitsAlone DEF PastInv
<1>7. \A u \in TaskIds : Kept(u)
  <2>1. Kept(t)
    BY <1>1, <1>2 DEF Kept
  <2>2. ASSUME NEW u \in TaskIds, u # t
        PROVE  Kept(u)
    BY <1>1, <2>2 DEF Kept
  <2> QED
    BY <2>1, <2>2
<1> QED
  BY <1>1, <1>3, <1>5, <1>6, <1>7 DEF PastInv, Adds

\* A change adds a status that the task never had.
LEMMA MovesPast ==
  ASSUME TasksInv, PastInv, TasksInv', NEW r \in Requests, NEW t \in TaskIds,
         NEW to \in Targets, Moves(r, t, to)
  PROVE  /\ PastInv'
         /\ \A u \in TaskIds : Kept(u)
         /\ \A u \in TaskIds : Exists(u) => Exists(u)' /\ tasks'[u].vehicle = tasks[u].vehicle
         /\ ~ Had(t, to) /\ Len(past[t]) > 0
         /\ past'[t][Len(past[t]) + 1] = to /\ Len(past'[t]) = Len(past[t]) + 1
<1> DEFINE n == Len(past[t])
<1>1. /\ past \in [TaskIds -> Seq(TaskStatus)] /\ past[t] \in Seq(TaskStatus)
      /\ to \in TaskStatus /\ n \in Nat
      /\ past'[t] = Append(past[t], to)
      /\ \A u \in TaskIds : u # t => past'[u] = past[u] /\ tasks'[u] = tasks[u]
  BY TargetsAreStatuses DEF PastInv, Moves
<1>2. /\ Len(past'[t]) = n + 1 /\ past'[t][n + 1] = to
      /\ \A i \in 1 .. n : past'[t][i] = past[t][i]
  BY <1>1
<1>3. past' \in [TaskIds -> Seq(TaskStatus)]
  BY <1>1 DEF Moves
<1>4. Exists(t) /\ Exists(t)'
  <2>1. handlers'[r].pc \in {"clear", "record"} /\ handlers'[r].task = t
    BY GotoHandler DEF Moves
  <2> QED
    BY <2>1 DEF TasksInv, HandlersAreSound, Exists, Moves
<1>5. /\ n > 0 /\ past[t][n] = tasks[t].status /\ n <= 3
      /\ tasks[t].status = "pending" => n = 1
      /\ tasks[t].status = "in_progress" => n <= 2
      /\ \A i \in 1 .. n : i < n => past[t][i] \notin Terminal
      /\ \A i, j \in 1 .. n : past[t][i] = past[t][j] => i = j
  BY <1>4 DEF PastInv, PastFits
<1>6. /\ tasks[t].status \in {"pending", "in_progress"}
      /\ to = "in_progress" => tasks[t].status = "pending"
      /\ to \in {"in_progress", "completed", "cancelled"}
  BY TargetsAreStatuses DEF Moves, taskTransitionSources
<1>7. \A i \in 1 .. n : past[t][i] # to /\ past[t][i] \notin Terminal
  BY <1>5, <1>6 DEF Terminal
<1>8. PastFits(t)'
  <2>1. tasks'[t].status = to /\ tasks'[t].changedBy # NoOne
    BY TaskAssumption DEF Moves
  <2>2. n + 1 <= 3 /\ (to = "in_progress" => n + 1 <= 2) /\ to # "pending"
    BY <1>1, <1>5, <1>6
  <2>21. to = "completed" => past'[t][(n + 1) - 1] = "in_progress"
    <3>1. to = "completed" => tasks[t].status = "in_progress"
      BY DEF Moves, taskTransitionSources
    <3> QED
      BY <1>1, <1>2, <1>5, <3>1
  <2>3. \A i \in 1 .. n + 1 : i < n + 1 => past'[t][i] \notin Terminal
    BY <1>1, <1>2, <1>7
  <2>4. \A i, j \in 1 .. n + 1 : past'[t][i] = past'[t][j] => i = j
    <3> SUFFICES ASSUME NEW i \in 1 .. n + 1, NEW j \in 1 .. n + 1, past'[t][i] = past'[t][j]
                 PROVE  i = j
      OBVIOUS
    <3>1. CASE i = n + 1 \/ j = n + 1
      BY <1>1, <1>2, <1>7, <3>1
    <3>2. CASE i \in 1 .. n /\ j \in 1 .. n
      BY <1>2, <1>5, <3>2
    <3> QED
      BY <1>1, <3>1, <3>2
  <2> HIDE DEF n
  <2> QED
    BY <1>1, <1>2, <1>4, <1>5, <2>1, <2>2, <2>21, <2>3, <2>4 DEF PastFits
<1>9. \A u \in TaskIds : u # t => PastFits(u)' /\ (Exists(u)' <=> Exists(u))
  BY <1>1, FitsAlone DEF PastInv
<1>10. \A u \in TaskIds : Kept(u)
  <2>1. Kept(t)
    BY <1>1, <1>2 DEF Kept
  <2>2. ASSUME NEW u \in TaskIds, u # t
        PROVE  Kept(u)
    BY <1>1, <2>2 DEF Kept
  <2> QED
    BY <2>1, <2>2
<1>11. ~ Had(t, to)
  BY <1>7 DEF Had
<1> QED
  BY <1>1, <1>2, <1>3, <1>4, <1>5, <1>8, <1>9, <1>10, <1>11 DEF PastInv, Moves

\* What a task was, it will always have been.
LEMMA KeptFacts ==
  ASSUME PastInv, PastInv', NEW t \in TaskIds, Kept(t)
  PROVE  /\ \A s : Had(t, s) => Had(t, s)'
         /\ \A from, to : Changed(t, from, to) => Changed(t, from, to)'
<1>1. Len(past[t]) \in Nat /\ Len(past'[t]) \in Nat
  BY DEF PastInv
<1>2. ASSUME NEW s, Had(t, s)
      PROVE  Had(t, s)'
  BY <1>1, <1>2 DEF Had, Kept
<1>3. ASSUME NEW from, NEW to, Changed(t, from, to)
      PROVE  Changed(t, from, to)'
  <2>1. PICK k \in 2 .. Len(past[t]) :
          past[t][k] = to /\ (from # "NULL" => \E j \in 1 .. k - 1 : past[t][j] = from)
    BY <1>3 DEF Changed
  <2>2. k \in 2 .. Len(past'[t]) /\ past'[t][k] = to
    BY <1>1, <2>1 DEF Kept
  <2>3. ASSUME from # "NULL"
        PROVE  \E j \in 1 .. k - 1 : past'[t][j] = from
    <3>1. PICK j \in 1 .. k - 1 : past[t][j] = from
      BY <2>1, <2>3
    <3>2. past'[t][j] = from
      BY <1>1, <2>1, <3>1 DEF Kept
    <3> QED
      BY <3>2
  <2> QED
    BY <2>2, <2>3 DEF Changed
<1> QED
  BY <1>2, <1>3

\* A task's past only grows, by a status it never had, and its vehicle stays.
LEMMA PastStep ==
  ASSUME TasksInv, PastInv, [Next]_vars
  PROVE  /\ PastInv'
         /\ \A t \in TaskIds : Exists(t) => Exists(t)' /\ tasks'[t].vehicle = tasks[t].vehicle
         /\ \A t \in TaskIds : \A s : Had(t, s) => Had(t, s)'
         /\ \A t \in TaskIds : \A from, to : Changed(t, from, to) => Changed(t, from, to)'
<1>0. TasksInv'
  BY TasksStep
<1>1. /\ PastInv' /\ \A t \in TaskIds : Kept(t)
      /\ \A t \in TaskIds : Exists(t) => Exists(t)' /\ tasks'[t].vehicle = tasks[t].vehicle
  <2>1. CASE UNCHANGED <<tasks, past>>
    <3>1. PastInv'
      BY <2>1 DEF PastInv, PastFits, Exists
    <3>2. \A t \in TaskIds : Len(past[t]) \in Nat
      BY DEF PastInv
    <3> QED
      BY <2>1, <3>1, <3>2 DEF Kept, Exists
  <2>2. ASSUME NEW r \in Requests, NEW t \in TaskIds, NEW s \in TaskStatus, Adds(r, t, s)
        PROVE  /\ PastInv' /\ \A u \in TaskIds : Kept(u)
               /\ \A u \in TaskIds : Exists(u) => Exists(u)' /\ tasks'[u].vehicle = tasks[u].vehicle
    BY <1>0, <2>2, AddsPast
  <2>3. ASSUME NEW r \in Requests, NEW t \in TaskIds, NEW to \in Targets, Moves(r, t, to)
        PROVE  /\ PastInv' /\ \A u \in TaskIds : Kept(u)
               /\ \A u \in TaskIds : Exists(u) => Exists(u)' /\ tasks'[u].vehicle = tasks[u].vehicle
    BY <1>0, <2>3, MovesPast
  <2> QED
    BY <2>1, <2>2, <2>3, TaskSteps
<1> QED
  BY <1>1, KeptFacts

-----------------------------------------------------------------------------
(* The history table and the handlers *)

\* One more row, for a change that has none yet.
LEMMA AppendRow ==
  ASSUME HistoryInv, NEW t \in TaskIds, NEW row \in Row, UNCHANGED past,
         history' = [history EXCEPT ![t] = Append(history[t], row)],
         Changed(t, row.from, row.to), ~ Recorded(t, row.to)
  PROVE  /\ HistoryInv'
         /\ \A u \in TaskIds : \A to : Recorded(u, to)' <=> (Recorded(u, to) \/ (u = t /\ to = row.to))
<1> DEFINE n == Len(history[t])
<1>1. /\ history[t] \in Seq(Row) /\ n \in Nat
      /\ history'[t] = Append(history[t], row)
      /\ \A u \in TaskIds : u # t => history'[u] = history[u]
  BY DEF HistoryInv
<1>2. /\ Len(history'[t]) = n + 1 /\ history'[t][n + 1] = row
      /\ \A i \in 1 .. n : history'[t][i] = history[t][i]
      /\ DOMAIN history'[t] = 1 .. n + 1 /\ DOMAIN history[t] = 1 .. n
  BY <1>1
<1>3. history' \in [TaskIds -> Seq(Row)]
  BY <1>1 DEF HistoryInv
<1>4. \A u \in TaskIds : \A from, to : Changed(u, from, to)' <=> Changed(u, from, to)
  BY DEF Changed
<1>5. /\ \A i \in 1 .. n : Changed(t, history[t][i].from, history[t][i].to)
      /\ \A i, j \in 1 .. n : history[t][i].to = history[t][j].to => i = j
      /\ \A i \in 1 .. n : history[t][i].to # row.to
  BY <1>2 DEF HistoryInv, Recorded
<1> HIDE DEF n
<1>6. \A i \in 1 .. n + 1 : Changed(t, history[t][i].from, history[t][i].to)'
  <2> SUFFICES ASSUME NEW i \in 1 .. n + 1
               PROVE  Changed(t, history'[t][i].from, history'[t][i].to)
    BY <1>4
  <2>1. CASE i = n + 1
    BY <1>2, <2>1
  <2>2. CASE i \in 1 .. n
    BY <1>2, <1>5, <2>2
  <2>3. i = n + 1 \/ i \in 1 .. n
    BY <1>1
  <2> QED
    BY <2>1, <2>2, <2>3
<1>7. \A i, j \in 1 .. n + 1 : history'[t][i].to = history'[t][j].to => i = j
  <2> SUFFICES ASSUME NEW i \in 1 .. n + 1, NEW j \in 1 .. n + 1,
                      history'[t][i].to = history'[t][j].to
               PROVE  i = j
    OBVIOUS
  <2>1. CASE i \in 1 .. n /\ j \in 1 .. n
    BY <1>2, <1>5, <2>1
  <2>2. CASE i = n + 1 /\ j \in 1 .. n
    BY <1>2, <1>5, <2>2
  <2>3. CASE i \in 1 .. n /\ j = n + 1
    BY <1>2, <1>5, <2>3
  <2> QED
    BY <1>1, <2>1, <2>2, <2>3
<1>8. HistoryInv'
  <2>1. \A u \in TaskIds : u # t =>
          /\ \A i \in 1 .. Len(history'[u]) : Changed(u, history[u][i].from, history[u][i].to)'
          /\ \A i, j \in 1 .. Len(history'[u]) : history'[u][i].to = history'[u][j].to => i = j
    BY <1>1, <1>4 DEF HistoryInv
  <2> QED
    BY <1>2, <1>3, <1>6, <1>7, <2>1 DEF HistoryInv
<1>9. \A to : Recorded(t, to)' <=> (Recorded(t, to) \/ to = row.to)
  <2> SUFFICES ASSUME NEW to
               PROVE  Recorded(t, to)' <=> (Recorded(t, to) \/ to = row.to)
    OBVIOUS
  <2>1. ASSUME Recorded(t, to)'
        PROVE  Recorded(t, to) \/ to = row.to
    <3>1. PICK i \in 1 .. n + 1 : history'[t][i].to = to
      BY <1>2, <2>1 DEF Recorded
    <3> QED
      BY <1>1, <1>2, <3>1 DEF Recorded
  <2>2. ASSUME Recorded(t, to)
        PROVE  Recorded(t, to)'
    <3>1. PICK i \in 1 .. n : history[t][i].to = to
      BY <1>2, <2>2 DEF Recorded
    <3>2. i \in DOMAIN history'[t] /\ history'[t][i].to = to
      BY <1>1, <1>2, <3>1
    <3> QED
      BY <3>2 DEF Recorded
  <2>3. ASSUME to = row.to
        PROVE  Recorded(t, to)'
    <3>1. n + 1 \in DOMAIN history'[t] /\ history'[t][n + 1].to = to
      BY <1>1, <1>2, <2>3
    <3> QED
      BY <3>1 DEF Recorded
  <2> QED
    BY <2>1, <2>2, <2>3
<1>10. ASSUME NEW u \in TaskIds, NEW to
       PROVE  Recorded(u, to)' <=> (Recorded(u, to) \/ (u = t /\ to = row.to))
  <2>1. CASE u = t
    BY <1>9, <2>1
  <2>2. CASE u # t
    <3>1. history'[u] = history[u]
      BY <1>1, <2>2
    <3> QED
      BY <2>2, <3>1 DEF Recorded
  <2> QED
    BY <2>1, <2>2
<1> QED
  BY <1>8, <1>10

\* Rows stay true while tasks move on.
LEMMA HistoryAlone ==
  ASSUME HistoryInv, UNCHANGED history,
         \A t \in TaskIds : \A from, to : Changed(t, from, to) => Changed(t, from, to)'
  PROVE  HistoryInv' /\ \A t : \A to : Recorded(t, to)' <=> Recorded(t, to)
BY DEF HistoryInv, Recorded

\* A change that happened left the status in the task's past, and no row or
\* change names a status that the task never had.
LEMMA ChangedHad ==
  ASSUME PastInv, NEW t \in TaskIds, NEW from, NEW to, Changed(t, from, to)
  PROVE  Had(t, to)
BY DEF PastInv, Changed, Had

LEMMA RecordedHad ==
  ASSUME PastInv, HistoryInv, NEW t \in TaskIds, NEW to, Recorded(t, to)
  PROVE  Had(t, to)
<1>1. PICK i \in 1 .. Len(history[t]) : history[t][i].to = to
  BY DEF Recorded, HistoryInv
<1> QED
  BY <1>1, ChangedHad DEF HistoryInv

\* The handler is done, or goes on with what it holds.
Follows(q) ==
  \/ handlers'[q].pc = "idle"
  \/ /\ handlers'[q].task = handlers[q].task
     /\ handlers'[q].target = handlers[q].target
     /\ handlers'[q].previous = handlers[q].previous
     /\ \/ handlers'[q].pc = handlers[q].pc
        \/ handlers[q].pc = "clear" /\ handlers'[q].pc = "record"
        \/ handlers[q].pc = "dispatch" /\ handlers'[q].pc = "created"

LEMMA FollowsInHand ==
  ASSUME TasksInv, NEW q \in Requests, InHand(q), Follows(q),
         \A t \in TaskIds : \A s : Had(t, s) => Had(t, s)',
         \A t \in TaskIds : \A from, to : Changed(t, from, to) => Changed(t, from, to)',
         \A t, to : Owes(q) /\ Owes(q)' /\ handlers[q].task = t /\ handlers[q].target = to =>
            (Recorded(t, to)' <=> Recorded(t, to)),
         service' # "up" => handlers'[q].pc = "idle"
  PROVE  InHand(q)'
<1>1. CASE handlers'[q].pc = "idle"
  BY <1>1 DEF InHand, Owes
<1>2. CASE handlers'[q].pc # "idle"
  <2>1. /\ handlers'[q].task = handlers[q].task /\ handlers'[q].target = handlers[q].target
        /\ handlers'[q].previous = handlers[q].previous
        /\ handlers[q].pc # "idle"
        /\ Owes(q)' <=> Owes(q)
        /\ \/ handlers'[q].pc = handlers[q].pc
           \/ Owes(q)
           \/ handlers[q].pc = "dispatch" /\ handlers'[q].pc = "created"
    BY <1>2 DEF Follows, Owes
  <2>2. PICK t \in TaskIds : t = handlers[q].task
    BY <2>1 DEF TasksInv, HandlersAreSound
  <2>3. PICK from, to : from = handlers[q].previous /\ to = handlers[q].target
    OBVIOUS
  <2>4. /\ handlers[q].pc \in {"dispatch", "created", "update"} => Had(t, from)'
        /\ handlers[q].pc = "changed" => Had(t, to)'
        /\ Owes(q) => Changed(t, from, to)' /\ ~ Recorded(t, to)'
    BY <2>1, <2>2, <2>3 DEF InHand
  <2>5. /\ handlers'[q].pc \in {"dispatch", "created", "update"} => Had(t, from)'
        /\ handlers'[q].pc = "changed" => Had(t, to)'
        /\ Owes(q)' => Changed(t, from, to)' /\ ~ Recorded(t, to)'
    BY <2>1, <2>4 DEF Owes
  <2> QED
    BY <1>2, <2>1, <2>2, <2>3, <2>5 DEF InHand
<1> QED
  BY <1>1, <1>2

\* No two handlers come to owe the same row.
LEMMA FollowsApart ==
  ASSUME HandInv, NEW q \in Requests, NEW r \in Requests, Follows(q), Follows(r),
         SameChange(q, r)'
  PROVE  q = r
BY DEF HandInv, SameChange, Follows, Owes

\* Steps in which no handler does more than go on with what it holds.
LEMMA HandFollows ==
  ASSUME TasksInv, HandInv, \A q \in Requests : Follows(q),
         \A t \in TaskIds : \A s : Had(t, s) => Had(t, s)',
         \A t \in TaskIds : \A from, to : Changed(t, from, to) => Changed(t, from, to)',
         \A t, to : Recorded(t, to)' <=> Recorded(t, to),
         service' # "up" => \A q \in Requests : handlers'[q].pc = "idle"
  PROVE  HandInv'
<1>1. ASSUME NEW q \in Requests
      PROVE  InHand(q)'
  BY <1>1, FollowsInHand DEF HandInv
<1>2. ASSUME NEW q \in Requests, NEW r \in Requests, SameChange(q, r)'
      PROVE  q = r
  BY <1>2, FollowsApart
<1> QED
  BY <1>1, <1>2 DEF HandInv

\* Steps in which one handler takes something new in hand.
LEMMA HandTakes ==
  ASSUME TasksInv, HandInv, NEW r \in Requests,
         \A q \in Requests : q # r => handlers'[q] = handlers[q],
         \A t \in TaskIds : \A s : Had(t, s) => Had(t, s)',
         \A t \in TaskIds : \A from, to : Changed(t, from, to) => Changed(t, from, to)',
         \A q \in Requests : \A t, to :
            q # r /\ Owes(q) /\ handlers[q].task = t /\ handlers[q].target = to =>
            (Recorded(t, to)' <=> Recorded(t, to)),
         UNCHANGED service, service = "up",
         InHand(r)',
         \A q \in Requests : q # r => ~ SameChange(q, r)'
  PROVE  HandInv'
<1>1. ASSUME NEW q \in Requests, q # r
      PROVE  Follows(q) /\ (Owes(q)' <=> Owes(q))
  BY <1>1 DEF Follows, Owes
<1>2. ASSUME NEW q \in Requests, q # r
      PROVE  InHand(q)'
  BY <1>1, <1>2, FollowsInHand DEF HandInv
<1>3. ASSUME NEW p \in Requests, NEW q \in Requests, SameChange(p, q)'
      PROVE  p = q
  <2>1. CASE p # r /\ q # r
    BY <1>1, <1>3, <2>1, FollowsApart
  <2>2. CASE p = r \/ q = r
    BY <1>3, <2>2 DEF SameChange
  <2> QED
    BY <2>1, <2>2
<1> QED
  BY <1>2, <1>3 DEF HandInv

\* Until something fails, changes are recorded or owed.
LEMMA CompleteKeeps ==
  ASSUME CompleteInv, TasksInv, PastInv, UNCHANGED <<faults, past>>,
         \A t \in TaskIds : \A to : Recorded(t, to) => Recorded(t, to)',
         \A q \in Requests : \A t, to :
            Owes(q) /\ handlers[q].task = t /\ handlers[q].target = to =>
            \/ Owes(q)' /\ handlers'[q].task = t /\ handlers'[q].target = to
            \/ Recorded(t, to)'
  PROVE  CompleteInv'
<1> SUFFICES ASSUME faults' = 0, NEW t \in TaskIds, NEW k \in 2 .. Len(past[t])
             PROVE  \/ Recorded(t, past[t][k])'
                    \/ \E r \in Requests :
                         /\ Owes(r)' /\ handlers'[r].task = t
                         /\ handlers'[r].target = past[t][k]
  BY DEF CompleteInv
<1>0. PICK to : to = past[t][k]
  OBVIOUS
<1>1. \/ Recorded(t, to)
      \/ \E r \in Requests : Owes(r) /\ handlers[r].task = t /\ handlers[r].target = to
  BY <1>0 DEF CompleteInv
<1>2. \/ Recorded(t, to)'
      \/ \E r \in Requests : Owes(r)' /\ handlers'[r].task = t /\ handlers'[r].target = to
  BY <1>1
<1> QED
  BY <1>0, <1>2 DEF Recorded

\* The audit trail, and what is still in hand.
TrailInv == PastInv /\ HistoryInv /\ HandInv /\ CompleteInv

LEMMA AddsTrail ==
  ASSUME TasksInv, TrailInv, [Next]_vars, NEW r \in Requests, NEW t \in TaskIds,
         NEW s \in TaskStatus, Adds(r, t, s), UNCHANGED <<history, service, faults>>,
         service = "up"
  PROVE  TrailInv'
<1>1. /\ PastInv /\ HistoryInv /\ HandInv /\ CompleteInv /\ PastInv' /\ TasksInv'
      /\ \A u \in TaskIds : \A x : Had(u, x) => Had(u, x)'
      /\ \A u \in TaskIds : \A from, to : Changed(u, from, to) => Changed(u, from, to)'
  BY PastStep, TasksStep DEF TrailInv
<1>2. HistoryInv' /\ \A u, to : Recorded(u, to)' <=> Recorded(u, to)
  BY <1>1, HistoryAlone
<1>3. /\ handlers[r].pc = "idle" /\ handlers'[r].pc = "dispatch"
      /\ handlers'[r].task = t /\ handlers'[r].previous = s
      /\ \A q \in Requests : q # r => handlers'[q] = handlers[q]
  BY DEF Adds
<1>4. past'[t] = <<s>> /\ \A u \in TaskIds : u # t => past'[u] = past[u]
  BY <1>1 DEF Adds, PastInv
<1>5. HandInv'
  <2>1. Had(t, s)'
    <3>1. Len(past'[t]) = 1 /\ past'[t][1] = s
      BY <1>4
    <3> QED
      BY <3>1 DEF Had
  <2>2. InHand(r)' /\ ~ Owes(r)'
    BY <1>3, <2>1 DEF InHand, Owes, Had
  <2>3. \A q \in Requests : q # r => ~ SameChange(q, r)'
    BY <2>2 DEF SameChange
  <2> QED
    BY <1>1, <1>2, <1>3, <2>2, <2>3, HandTakes
<1>6. CompleteInv'
  <2> SUFFICES ASSUME faults = 0, NEW u \in TaskIds, NEW k \in 2 .. Len(past'[u])
               PROVE  \/ Recorded(u, past[u][k])'
                      \/ \E q \in Requests : /\ Owes(q)' /\ handlers'[q].task = u
                                             /\ handlers'[q].target = past'[u][k]
    BY <1>1 DEF CompleteInv
  <2>1. u # t
    BY <1>4
  <2>2. PICK x : x = past[u][k] /\ x = past'[u][k]
    BY <1>4, <2>1
  <2>3. \/ Recorded(u, x)
        \/ \E q \in Requests : Owes(q) /\ handlers[q].task = u /\ handlers[q].target = x
    BY <1>1, <1>4, <2>1, <2>2 DEF CompleteInv
  <2>4. \A q \in Requests : Owes(q) => q # r
    BY <1>3 DEF Owes
  <2>5. \/ Recorded(u, x)'
        \/ \E q \in Requests : Owes(q)' /\ handlers'[q].task = u /\ handlers'[q].target = x
    BY <1>2, <1>3, <2>3, <2>4 DEF Owes
  <2> QED
    BY <2>2, <2>5 DEF Recorded
<1> QED
  BY <1>1, <1>2, <1>5, <1>6 DEF TrailInv

LEMMA MovesTrail ==
  ASSUME TasksInv, TrailInv, [Next]_vars, NEW r \in Requests, NEW t \in TaskIds,
         NEW to \in Targets, Moves(r, t, to), UNCHANGED <<history, service, faults>>,
         service = "up"
  PROVE  TrailInv'
<1> DEFINE n == Len(past[t])
<1>1. /\ PastInv /\ HistoryInv /\ HandInv /\ CompleteInv /\ PastInv' /\ TasksInv'
      /\ \A u \in TaskIds : \A x : Had(u, x) => Had(u, x)'
      /\ \A u \in TaskIds : \A from, x : Changed(u, from, x) => Changed(u, from, x)'
  BY PastStep, TasksStep DEF TrailInv
<1>2. HistoryInv' /\ \A u, x : Recorded(u, x)' <=> Recorded(u, x)
  BY <1>1, HistoryAlone
<1>3. PICK previous : previous = handlers[r].previous
  OBVIOUS
<1>4. /\ handlers[r].pc = "update" /\ handlers[r].task = t /\ handlers[r].target = to
      /\ handlers'[r].pc \in {"clear", "record"} /\ handlers'[r].task = t
      /\ handlers'[r].target = to /\ handlers'[r].previous = previous
      /\ \A q \in Requests : q # r => handlers'[q] = handlers[q]
  BY <1>3, GotoHandler DEF Moves
<1>5. /\ ~ Had(t, to) /\ n > 0 /\ n \in Nat
      /\ past'[t][n + 1] = to /\ Len(past'[t]) = n + 1
      /\ \A i \in 1 .. n : past'[t][i] = past[t][i]
      /\ \A u \in TaskIds : u # t => past'[u] = past[u]
  <2>1. /\ ~ Had(t, to) /\ n > 0 /\ Kept(t)
        /\ past'[t][n + 1] = to /\ Len(past'[t]) = n + 1
    BY <1>1, MovesPast
  <2>2. n \in Nat /\ past' = [past EXCEPT ![t] = Append(past[t], to)] /\ DOMAIN past = TaskIds
    BY <1>1 DEF PastInv, Moves
  <2> QED
    BY <2>1, <2>2 DEF Kept
<1>6. HandInv'
  <2>1. Changed(t, previous, to)'
    <3>1. PICK j \in 1 .. n : past[t][j] = previous
      BY <1>1, <1>3, <1>4 DEF HandInv, InHand, Had
    <3>2. n + 1 \in 2 .. n + 1 /\ j \in 1 .. (n + 1) - 1 /\ past'[t][j] = previous
      BY <1>5, <3>1
    <3> QED
      BY <1>5, <3>2 DEF Changed
  <2>2. ~ Recorded(t, to)'
    BY <1>1, <1>2, <1>5, RecordedHad
  <2>3. InHand(r)'
    BY <1>4, <2>1, <2>2 DEF InHand, Owes, Changed, Recorded
  <2>4. \A q \in Requests : q # r => ~ SameChange(q, r)'
    <3> SUFFICES ASSUME NEW q \in Requests, q # r, SameChange(q, r)'
                 PROVE  FALSE
      OBVIOUS
    <3>1. PICK from : from = handlers[q].previous
      OBVIOUS
    <3>2. Owes(q) /\ handlers[q].task = t /\ handlers[q].target = to
      BY <1>4 DEF SameChange, Owes
    <3>3. Changed(t, from, to)
      BY <1>1, <3>1, <3>2 DEF HandInv, InHand
    <3> QED
      BY <1>1, <1>5, <3>3, ChangedHad
  <2> QED
    BY <1>1, <1>2, <1>4, <2>3, <2>4, HandTakes
<1>7. CompleteInv'
  <2> SUFFICES ASSUME faults = 0, NEW u \in TaskIds, NEW k \in 2 .. Len(past'[u])
               PROVE  \/ Recorded(u, past[u][k])'
                      \/ \E q \in Requests : /\ Owes(q)' /\ handlers'[q].task = u
                                             /\ handlers'[q].target = past'[u][k]
    BY <1>1 DEF CompleteInv
  <2>1. CASE u = t /\ k = n + 1
    <3>1. Owes(r)' /\ handlers'[r].task = u /\ handlers'[r].target = past'[u][k]
      BY <1>4, <1>5, <2>1 DEF Owes
    <3> QED
      BY <3>1
  <2>2. CASE ~ (u = t /\ k = n + 1)
    <3>1. k \in 2 .. Len(past[u]) /\ past'[u][k] = past[u][k]
      BY <1>5, <2>2
    <3>2. PICK x : x = past[u][k] /\ x = past'[u][k]
      BY <3>1
    <3>3. \/ Recorded(u, x)
          \/ \E q \in Requests : Owes(q) /\ handlers[q].task = u /\ handlers[q].target = x
      BY <1>1, <3>1, <3>2 DEF CompleteInv
    <3>4. \A q \in Requests : Owes(q) => q # r
      BY <1>4 DEF Owes
    <3>5. \/ Recorded(u, x)'
          \/ \E q \in Requests : Owes(q)' /\ handlers'[q].task = u /\ handlers'[q].target = x
      BY <1>2, <1>4, <3>3, <3>4 DEF Owes
    <3> QED
      BY <3>2, <3>5 DEF Recorded
  <2> QED
    BY <2>1, <2>2
<1> QED
  BY <1>1, <1>2, <1>6, <1>7 DEF TrailInv

\* Steps that write no history and change no task.
LEMMA TrailFollows ==
  ASSUME TasksInv, TrailInv, [Next]_vars, UNCHANGED <<history, past>>,
         \A q \in Requests : Follows(q),
         service' # "up" => \A q \in Requests : handlers'[q].pc = "idle",
         \/ faults' \in Nat \ {0}
         \/ faults' = faults /\ \A q \in Requests : Owes(q) =>
              Owes(q)' /\ handlers'[q].task = handlers[q].task
                       /\ handlers'[q].target = handlers[q].target
  PROVE  TrailInv'
<1>1. /\ PastInv /\ HistoryInv /\ HandInv /\ CompleteInv /\ PastInv'
      /\ \A u \in TaskIds : \A x : Had(u, x) => Had(u, x)'
      /\ \A u \in TaskIds : \A from, to : Changed(u, from, to) => Changed(u, from, to)'
  BY PastStep DEF TrailInv
<1>2. HistoryInv' /\ \A u, to : Recorded(u, to)' <=> Recorded(u, to)
  BY <1>1, HistoryAlone
<1>3. HandInv'
  BY <1>1, <1>2, HandFollows
<1>4. CompleteInv'
  <2>1. CASE faults' \in Nat \ {0}
    BY <2>1 DEF CompleteInv
  <2>2. CASE /\ faults' = faults
             /\ \A q \in Requests : Owes(q) =>
                  Owes(q)' /\ handlers'[q].task = handlers[q].task
                           /\ handlers'[q].target = handlers[q].target
    BY <1>1, <1>2, <2>2, CompleteKeeps
  <2> QED
    BY <2>1, <2>2
<1> QED
  BY <1>1, <1>2, <1>3, <1>4 DEF TrailInv

\* Writing the row of a change settles it.
LEMMA RecordTrail ==
  ASSUME TasksInv, TrailInv, [Next]_vars, NEW r \in Requests, RecordTaskStatusTransition(r)
  PROVE  TrailInv'
<1>0. PICK t \in TaskIds, from \in TaskStatus, to \in Targets, o \in Operators :
        /\ t = handlers[r].task /\ from = handlers[r].previous
        /\ to = handlers[r].target /\ o = handlers[r].by
  BY DEF RecordTaskStatusTransition, At, TasksInv, RowsOK, HandlersAreSound, Handler
<1> DEFINE row == [from |-> from, to |-> to, by |-> o]
<1>1. /\ PastInv /\ HistoryInv /\ HandInv /\ CompleteInv /\ PastInv'
      /\ \A u \in TaskIds : \A x : Had(u, x) => Had(u, x)'
      /\ \A u \in TaskIds : \A f, x : Changed(u, f, x) => Changed(u, f, x)'
  BY PastStep DEF TrailInv
<1>2. /\ history' = [history EXCEPT ![t] = Append(history[t], row)]
      /\ UNCHANGED <<past, service, faults>> /\ service = "up"
      /\ handlers[r].pc = "record" /\ Goto(r, "changed")
  BY <1>0 DEF RecordTaskStatusTransition, At, ghosts
<1>3. row \in Row /\ row.from = from /\ row.to = to
  BY DEF Row
<1>4. Owes(r) /\ Changed(t, from, to) /\ ~ Recorded(t, to)
  BY <1>0, <1>1, <1>2 DEF HandInv, InHand, Owes
<1> HIDE DEF row
<1>5. /\ HistoryInv'
      /\ \A u \in TaskIds : \A x : Recorded(u, x)' <=> (Recorded(u, x) \/ (u = t /\ x = to))
  BY <1>1, <1>2, <1>3, <1>4, AppendRow
<1>6. /\ handlers'[r].pc = "changed" /\ handlers'[r].task = t /\ handlers'[r].target = to
      /\ \A q \in Requests : q # r => handlers'[q] = handlers[q]
  BY <1>0, <1>2, GotoHandler
<1>7. HandInv'
  <2>1. Had(t, to)'
    BY <1>1, <1>4, ChangedHad
  <2>2. InHand(r)' /\ ~ Owes(r)'
    BY <1>2, <1>6, <2>1 DEF InHand, Owes, Had
  <2>3. \A q \in Requests : q # r => ~ SameChange(q, r)'
    BY <2>2 DEF SameChange
  <2>4. ASSUME NEW q \in Requests, NEW u, NEW x, q # r, Owes(q), handlers[q].task = u,
               handlers[q].target = x
        PROVE  Recorded(u, x)' <=> Recorded(u, x)
    <3>1. u \in TaskIds
      BY <2>4 DEF Owes, TasksInv, HandlersAreSound
    <3>2. ~ (u = t /\ x = to)
      BY <1>0, <1>1, <1>4, <2>4 DEF HandInv, SameChange
    <3> QED
      BY <1>5, <3>1, <3>2
  <2> QED
    BY <1>1, <1>2, <1>6, <2>2, <2>3, <2>4, HandTakes
<1>8. CompleteInv'
  <2>1. ASSUME NEW q \in Requests, NEW u, NEW x,
               Owes(q), handlers[q].task = u, handlers[q].target = x
        PROVE  \/ Owes(q)' /\ handlers'[q].task = u /\ handlers'[q].target = x
               \/ Recorded(u, x)'
    <3>1. CASE q = r
      BY <1>0, <1>5, <2>1, <3>1
    <3>2. CASE q # r
      BY <1>6, <2>1, <3>2 DEF Owes
    <3> QED
      BY <3>1, <3>2
  <2> QED
    BY <1>1, <1>2, <1>5, <2>1, CompleteKeeps
<1> QED
  BY <1>1, <1>5, <1>7, <1>8 DEF TrailInv

\* The backfill writes rows only for tasks that have none, while no handler
\* runs: it cannot repeat a row that somebody still owes.
LEMMA BackfillTrail ==
  ASSUME TasksInv, TrailInv, [Next]_vars, NEW t \in TaskIds, insertBackfilledHistoryRow(t)
  PROVE  TrailInv'
<1>1. /\ PastInv /\ HistoryInv /\ HandInv /\ CompleteInv /\ PastInv'
      /\ \A u \in TaskIds : \A x : Had(u, x) => Had(u, x)'
      /\ \A u \in TaskIds : \A f, x : Changed(u, f, x) => Changed(u, f, x)'
  BY PastStep DEF TrailInv
<1>2. /\ service = "starting" /\ Exists(t) /\ tasks[t].status # "pending"
      /\ tasks[t].changedBy # NoOne /\ history[t] = <<>>
      /\ UNCHANGED <<past, service, faults, handlers>>
  BY DEF insertBackfilledHistoryRow, queryLegacyTransitions, ghosts
<1>3. tasks[t] \in Task
  BY <1>2 DEF Exists, TasksInv, RowsOK
<1>4. PICK to \in Targets, o \in Operators, from \in TaskStatus \cup {"NULL"} :
        /\ to = tasks[t].status /\ o = tasks[t].changedBy
        /\ from = CASE to = "in_progress" -> "pending"
                    [] to = "completed" -> "in_progress"
                    [] OTHER -> "NULL"
  BY <1>2, <1>3, TargetsAreStatuses DEF Task, TaskStatus
<1> DEFINE row == [from |-> from, to |-> to, by |-> o]
<1>5. history' = [history EXCEPT ![t] = Append(history[t], row)]
  BY <1>4 DEF insertBackfilledHistoryRow
<1>6. row \in Row /\ row.from = from /\ row.to = to
  BY DEF Row
<1>7. ~ Recorded(t, to)
  BY <1>2 DEF Recorded
<1>8. Changed(t, from, to)
  <2>0. PICK n \in Nat : n = Len(past[t])
    BY <1>1 DEF PastInv
  <2>1. /\ past[t] \in Seq(TaskStatus) /\ n \in Nat /\ n <= 3 /\ n > 1 /\ past[t][n] = to
        /\ to = "in_progress" => n <= 2
        /\ \A i \in 1 .. n : past[t][i] \in TaskStatus
        /\ to = "completed" => past[t][n - 1] = "in_progress"
        /\ \A i \in 1 .. n : i < n => past[t][i] \notin Terminal
        /\ \A i, j \in 1 .. n : past[t][i] = past[t][j] => i = j
    BY <1>1, <1>2, <1>4, <2>0 DEF PastInv, PastFits
  <2>2. n \in 2 .. n /\ n - 1 \in 1 .. n - 1
    BY <2>1
  <2>3. ASSUME to = "in_progress"
        PROVE  past[t][n - 1] = "pending"
    <3>1. n <= 2 /\ n > 1
      BY <2>1, <2>3
    <3>2. n = 2 /\ 1 \in 1 .. n /\ n \in 1 .. n
      BY <3>1
    <3>3. n - 1 = 1 /\ past[t][1] \in TaskStatus /\ past[t][1] # to
          /\ past[t][1] \notin Terminal
      BY <2>1, <3>2
    <3> QED
      BY <2>3, <3>3 DEF TaskStatus, Terminal
  <2>4. from # "NULL" => past[t][n - 1] = from
    BY <1>4, <2>1, <2>3
  <2> QED
    BY <2>0, <2>1, <2>2, <2>4 DEF Changed
<1> HIDE DEF row
<1>9. /\ HistoryInv'
      /\ \A u \in TaskIds : \A x : Recorded(u, x)' <=> (Recorded(u, x) \/ (u = t /\ x = to))
  BY <1>1, <1>2, <1>5, <1>6, <1>7, <1>8, AppendRow
<1>10. HandInv'
  <2>1. \A q \in Requests : handlers[q].pc = "idle" /\ ~ Owes(q)' /\ handlers'[q].pc = "idle"
    BY <1>1, <1>2 DEF HandInv, InHand, Owes
  <2> QED
    BY <2>1 DEF HandInv, InHand, SameChange
<1>11. CompleteInv'
  <2>1. \A q \in Requests : ~ Owes(q)
    BY <1>1, <1>2 DEF HandInv, InHand, Owes
  <2> QED
    BY <1>1, <1>2, <1>9, <2>1, CompleteKeeps
<1> QED
  BY <1>1, <1>9, <1>10, <1>11 DEF TrailInv

\* Every step keeps the audit trail.
LEMMA TrailStep ==
  ASSUME TasksInv, TrailInv, [Next]_vars
  PROVE  TrailInv'
<1>0. /\ PastInv /\ HandInv /\ faults \in Nat
      /\ service # "up" => \A q \in Requests : handlers[q].pc = "idle"
  BY DEF TrailInv, HandInv, InHand, CompleteInv
<1>1. ASSUME NEW r \in Requests, NEW v \in Vehicles, NEW t \in TaskIds,
             NEW sent \in TaskStatus \cup {""}, CreateTask(r, v, t, sent)
      PROVE  TrailInv'
  <2>1. UNCHANGED <<history, service, faults>> /\ service = "up"
    BY <1>1 DEF CreateTask, At
  <2> QED
    BY <1>1, <2>1, CreateAdds, AddsTrail
<1>2. ASSUME NEW r \in Requests, NEW t \in TaskIds, NEW target \in Targets, NEW o \in Operators,
             PatchTask(r, t, target, o)
      PROVE  TrailInv'
  <2>1. /\ UNCHANGED <<history, past, service, faults>> /\ service = "up" /\ Exists(t)
        /\ handlers[r].pc = "idle"
        /\ handlers'[r].pc = "update" /\ handlers'[r].task = t
        /\ handlers'[r].previous = tasks[t].status
        /\ \A q \in Requests : q # r => handlers'[q] = handlers[q]
    BY <1>2 DEF PatchTask, At, tables, ghosts, TasksInv, RowsOK
  <2>2. /\ PastInv' /\ HistoryInv /\ CompleteInv
        /\ \A u \in TaskIds : \A x : Had(u, x) => Had(u, x)'
        /\ \A u \in TaskIds : \A f, x : Changed(u, f, x) => Changed(u, f, x)'
    BY PastStep DEF TrailInv
  <2>3. HistoryInv' /\ \A u, x : Recorded(u, x)' <=> Recorded(u, x)
    BY <2>1, <2>2, HistoryAlone
  <2>4. PICK s : s = tasks[t].status
    OBVIOUS
  <2>5. Had(t, s)'
    <3>1. Len(past[t]) \in 1 .. Len(past[t]) /\ past[t][Len(past[t])] = s
      BY <1>0, <2>1, <2>4 DEF PastInv, PastFits
    <3> QED
      BY <2>2, <3>1 DEF Had
  <2>6. InHand(r)' /\ ~ Owes(r)'
    BY <2>1, <2>4, <2>5 DEF InHand, Owes, Had
  <2>7. \A q \in Requests : q # r => ~ SameChange(q, r)'
    BY <2>6 DEF SameChange
  <2>8. HandInv'
    BY <1>0, <2>1, <2>2, <2>3, <2>6, <2>7, HandTakes
  <2>9. CompleteInv'
    <3>1. \A q \in Requests : Owes(q) =>
            Owes(q)' /\ handlers'[q].task = handlers[q].task
                     /\ handlers'[q].target = handlers[q].target
      BY <2>1 DEF Owes
    <3> QED
      BY <1>0, <2>1, <2>2, <2>3, <3>1, CompleteKeeps
  <2> QED
    BY <2>2, <2>3, <2>8, <2>9 DEF TrailInv
<1>3. ASSUME NEW r \in Requests, UpdateTaskStatus(r)
      PROVE  TrailInv'
  <2>1. UNCHANGED <<history, service, faults>> /\ service = "up"
    BY <1>3 DEF UpdateTaskStatus, At
  <2>2. CASE Respond(r) /\ handlers[r].pc = "update" /\ UNCHANGED <<tasks, past>>
    <3>1. \A q \in Requests : Follows(q) /\ (Owes(q) =>
            Owes(q)' /\ handlers'[q].task = handlers[q].task
                     /\ handlers'[q].target = handlers[q].target)
      BY <2>2, RespondHandler DEF Follows, Owes
    <3> QED
      BY <2>1, <2>2, <3>1, TrailFollows
  <2>3. ASSUME NEW t \in TaskIds, NEW to \in Targets, Moves(r, t, to)
        PROVE  TrailInv'
    BY <2>1, <2>3, MovesTrail
  <2> QED
    BY <1>3, <2>2, <2>3, UpdateMoves
<1>4. ASSUME NEW r \in Requests, DispatchTask(r) \/ ClearCurrentTask(r)
      PROVE  TrailInv'
  <2>1. /\ UNCHANGED <<history, past, service, faults>> /\ service = "up"
        /\ \/ handlers[r].pc = "dispatch" /\ Goto(r, "created")
           \/ handlers[r].pc = "clear" /\ Goto(r, "record")
    BY <1>4 DEF DispatchTask, ClearCurrentTask, At, tables, ghosts
  <2>2. \A q \in Requests : Follows(q) /\ (Owes(q) =>
          Owes(q)' /\ handlers'[q].task = handlers[q].task
                   /\ handlers'[q].target = handlers[q].target)
    BY <2>1, GotoHandler DEF Follows, Owes
  <2> QED
    BY <2>1, <2>2, TrailFollows
<1>5. ASSUME NEW r \in Requests, RecordTaskStatusTransition(r)
      PROVE  TrailInv'
  BY <1>5, RecordTrail
<1>6. ASSUME NEW r \in Requests, BroadcastCreated(r) \/ BroadcastChanged(r)
      PROVE  TrailInv'
  <2>1. /\ UNCHANGED <<history, past, service, faults>> /\ service = "up"
        /\ handlers[r].pc \in {"created", "changed"} /\ Respond(r)
    BY <1>6 DEF BroadcastCreated, BroadcastChanged, At, tables, ghosts
  <2>2. \A q \in Requests : Follows(q) /\ (Owes(q) =>
          Owes(q)' /\ handlers'[q].task = handlers[q].task
                   /\ handlers'[q].target = handlers[q].target)
    BY <2>1, RespondHandler DEF Follows, Owes
  <2> QED
    BY <2>1, <2>2, TrailFollows
<1>7. ASSUME NEW r \in Requests, StatementFails(r)
      PROVE  TrailInv'
  <2>1. /\ UNCHANGED <<history, past, service>> /\ service = "up" /\ Respond(r)
        /\ faults' \in Nat \ {0}
    BY <1>0, <1>7 DEF StatementFails, tables
  <2>2. \A q \in Requests : Follows(q)
    BY <2>1, RespondHandler DEF Follows
  <2> QED
    BY <2>1, <2>2, TrailFollows
<1>8. ASSUME NEW t \in TaskIds, insertBackfilledHistoryRow(t)
      PROVE  TrailInv'
  BY <1>8, BackfillTrail
<1>9. CASE Crash
  <2>1. /\ UNCHANGED <<history, past>> /\ handlers' = [r \in Requests |-> Idle]
        /\ faults' \in Nat \ {0}
    BY <1>0, <1>9 DEF Crash, tables
  <2>2. \A q \in Requests : Follows(q) /\ handlers'[q].pc = "idle"
    BY <2>1, IdleIsHandler DEF Follows
  <2> QED
    BY <2>1, <2>2, TrailFollows
<1>10. ASSUME \/ \E v \in Vehicles, t \in TaskIds \cup {NoTask} : UpsertVehicleStatus(v, t)
              \/ Restart \/ Serve \/ UNCHANGED vars
       PROVE  TrailInv'
  <2>1. /\ UNCHANGED <<history, past, faults, handlers>>
        /\ service' = "up" \/ service' = service \/ service = "down"
    BY <1>10 DEF UpsertVehicleStatus, Restart, Serve, vars, tables, ghosts
  <2>2. \A q \in Requests : Follows(q) /\ (Owes(q) =>
          Owes(q)' /\ handlers'[q].task = handlers[q].task
                   /\ handlers'[q].target = handlers[q].target)
    BY <2>1 DEF Follows, Owes
  <2>3. service' # "up" => \A q \in Requests : handlers'[q].pc = "idle"
    BY <1>0, <2>1
  <2> QED
    BY <2>1, <2>2, <2>3, TrailFollows
<1> QED
  BY <1>1, <1>2, <1>3, <1>4, <1>5, <1>6, <1>7, <1>8, <1>9, <1>10 DEF Next

-----------------------------------------------------------------------------
(* Vehicles and dashboards *)

\* A vehicle is only told of tasks that are its own, and reports only those.
LEMMA AssignedStep ==
  ASSUME TasksInv, PastInv, AssignedInv, [Next]_vars
  PROVE  AssignedInv'
<1>1. \A t \in TaskIds : Exists(t) => Exists(t)' /\ tasks'[t].vehicle = tasks[t].vehicle
  BY PastStep
<1>2. ASSUME UNCHANGED assigned,
             \/ UNCHANGED current
             \/ \E v \in Vehicles : \E t \in assigned[v] \cup {NoTask} :
                  current' = [current EXCEPT ![v] = t]
      PROVE  AssignedInv'
  BY <1>1, <1>2, TaskAssumption DEF AssignedInv
<1>3. ASSUME NEW r \in Requests, DispatchTask(r)
      PROVE  AssignedInv'
  <2>1. PICK t \in TaskIds : t = handlers[r].task /\ Exists(t)
    BY <1>3 DEF DispatchTask, At, TasksInv, HandlersAreSound
  <2>2. PICK v \in Vehicles : v = tasks[t].vehicle
    BY <2>1 DEF Exists, TasksInv, RowsOK, Task
  <2>3. /\ UNCHANGED current
        /\ UNCHANGED assigned \/ assigned' = [assigned EXCEPT ![v] = assigned[v] \cup {t}]
    BY <1>3, <2>1, <2>2 DEF DispatchTask, tables
  <2>4. CASE assigned' = [assigned EXCEPT ![v] = assigned[v] \cup {t}]
    BY <1>1, <2>1, <2>2, <2>3, <2>4 DEF AssignedInv
  <2> QED
    BY <1>2, <2>3, <2>4
<1>4. ASSUME NEW r \in Requests, ClearCurrentTask(r)
      PROVE  AssignedInv'
  <2>1. PICK t \in TaskIds : t = handlers[r].task /\ Exists(t)
    BY <1>4 DEF ClearCurrentTask, At, TasksInv, HandlersAreSound
  <2>2. PICK v \in Vehicles : v = tasks[t].vehicle
    BY <2>1 DEF Exists, TasksInv, RowsOK, Task
  <2>3. /\ current' = [current EXCEPT ![v] = IF current[v] = t THEN NoTask ELSE current[v]]
        /\ UNCHANGED assigned
    BY <1>4, <2>1, <2>2 DEF ClearCurrentTask
  <2>4. (IF current[v] = t THEN NoTask ELSE current[v]) \in assigned[v] \cup {NoTask}
    BY DEF AssignedInv
  <2> QED
    BY <1>2, <2>3, <2>4
<1>5. ASSUME NEW v \in Vehicles, NEW t \in TaskIds \cup {NoTask}, UpsertVehicleStatus(v, t)
      PROVE  AssignedInv'
  BY <1>2, <1>5 DEF UpsertVehicleStatus
<1>6. ASSUME \/ \E r \in Requests :
                  \/ BroadcastCreated(r) \/ UpdateTaskStatus(r) \/ RecordTaskStatusTransition(r)
                  \/ BroadcastChanged(r) \/ StatementFails(r)
             \/ \E r \in Requests, v \in Vehicles, t \in TaskIds, s \in TaskStatus \cup {""} :
                  CreateTask(r, v, t, s)
             \/ \E r \in Requests, t \in TaskIds, s \in Targets, o \in Operators :
                  PatchTask(r, t, s, o)
             \/ \E t \in TaskIds : insertBackfilledHistoryRow(t)
             \/ Crash \/ Restart \/ Serve \/ UNCHANGED vars
      PROVE  AssignedInv'
  <2>1. UNCHANGED <<current, assigned>>
    BY <1>6 DEF BroadcastCreated, UpdateTaskStatus, RecordTaskStatusTransition, BroadcastChanged,
       StatementFails, CreateTask, PatchTask, insertBackfilledHistoryRow, Crash, Restart, Serve,
       vars, tables
  <2> QED
    BY <1>2, <2>1
<1> QED
  BY <1>3, <1>4, <1>5, <1>6 DEF Next

\* Some handler is about to take the task from its vehicle.
Clearing(t) == \E r \in Requests : handlers[r].pc = "clear" /\ handlers[r].task = t

\* Steps that finish no task and let nobody forget to clear one.
LEMMA ClearKeeps ==
  ASSUME AssignedInv, ClearInv, excused \subseteq excused', UNCHANGED current,
         \A t \in TaskIds : t \in excused' \/ (Finished(t)' => Finished(t)) \/ Clearing(t)',
         \A t \in TaskIds : Clearing(t) => Clearing(t)' \/ t \in excused'
  PROVE  ClearInv'
<1> SUFFICES ASSUME NEW v \in Vehicles, current[v] # NoTask, Finished(current[v])'
             PROVE  current[v] \in excused' \/ Clearing(current[v])'
  BY DEF ClearInv, Clearing
<1>1. PICK t \in TaskIds : t = current[v]
  BY DEF AssignedInv
<1>2. Finished(t) => t \in excused \/ Clearing(t)
  BY <1>1 DEF ClearInv, Clearing
<1>3. Finished(t)'
  BY <1>1 DEF Finished, Exists
<1>4. t \in excused' \/ Clearing(t)'
  BY <1>2, <1>3
<1> QED
  BY <1>1, <1>4 DEF Clearing

LEMMA ClearStep ==
  ASSUME TasksInv, PastInv, AssignedInv, ClearInv, [Next]_vars
  PROVE  ClearInv'
<1>0. AssignedInv'
  BY AssignedStep
<1>1. ASSUME NEW r \in Requests, NEW v \in Vehicles, NEW t \in TaskIds,
             NEW sent \in TaskStatus \cup {""}, CreateTask(r, v, t, sent)
      PROVE  ClearInv'
  <2>1. PICK s \in TaskStatus : Adds(r, t, s)
    BY <1>1, CreateAdds
  <2>2. UNCHANGED <<current, excused, assigned>>
    BY <1>1 DEF CreateTask
  <2>3. /\ ~ Exists(t) /\ \A u \in TaskIds : u # t => tasks'[u] = tasks[u]
        /\ \A q \in Requests : handlers[q].pc = "clear" => handlers'[q] = handlers[q]
    BY <2>1 DEF Adds
  <2>4. ASSUME NEW w \in Vehicles, current[w] # NoTask
        PROVE  current[w] # t /\ current[w] \in TaskIds
    BY <2>3, <2>4 DEF AssignedInv
  <2>5. \A u \in TaskIds : u # t => (Finished(u)' <=> Finished(u))
    BY <2>3 DEF Finished, Exists
  <2>6. \A u \in TaskIds : Clearing(u) => Clearing(u)'
    BY <2>3 DEF Clearing
  <2> SUFFICES ASSUME NEW w \in Vehicles, current[w] # NoTask, Finished(current[w])'
               PROVE  current[w] \in excused \/ Clearing(current[w])'
    BY <2>2 DEF ClearInv, Clearing
  <2>7. PICK u \in TaskIds : u = current[w] /\ u # t
    BY <2>4
  <2>8. Finished(u)'
    BY <2>2, <2>7 DEF Finished, Exists
  <2>9. u \in excused \/ Clearing(u)
    BY <2>5, <2>7, <2>8 DEF ClearInv, Clearing
  <2> QED
    BY <2>2, <2>6, <2>7, <2>9 DEF Clearing
<1>2. ASSUME NEW r \in Requests, UpdateTaskStatus(r)
      PROVE  ClearInv'
  <2>1. UNCHANGED <<current, excused>>
    BY <1>2 DEF UpdateTaskStatus
  <2>2. CASE Respond(r) /\ handlers[r].pc = "update" /\ UNCHANGED <<tasks, past>>
    <3>1. \A t \in TaskIds : Clearing(t) => Clearing(t)'
      BY <2>2, RespondHandler DEF Clearing
    <3>2. \A t \in TaskIds : Finished(t)' => Finished(t)
      BY <2>2 DEF Finished, Exists
    <3> QED
      BY <2>1, <3>1, <3>2, ClearKeeps
  <2>3. ASSUME NEW t \in TaskIds, NEW to \in Targets, Moves(r, t, to)
        PROVE  ClearInv'
    <3>1. /\ handlers[r].pc = "update" /\ handlers'[r].task = t
          /\ to \in Terminal => handlers'[r].pc = "clear"
          /\ \A q \in Requests : q # r => handlers'[q] = handlers[q]
      BY <2>3, GotoHandler DEF Moves
    <3>2. \A u \in TaskIds : Clearing(u) => Clearing(u)'
      BY <3>1 DEF Clearing
    <3>3. \A u \in TaskIds : (Finished(u)' => Finished(u)) \/ Clearing(u)'
      BY <2>3, <3>1 DEF Moves, Finished, Exists, Clearing
    <3> QED
      BY <2>1, <3>2, <3>3, ClearKeeps
  <2> QED
    BY <1>2, <2>2, <2>3, UpdateMoves
<1>3. ASSUME NEW r \in Requests, ClearCurrentTask(r)
      PROVE  ClearInv'
  <2>1. PICK t \in TaskIds : t = handlers[r].task /\ Exists(t)
    BY <1>3 DEF ClearCurrentTask, At, TasksInv, HandlersAreSound
  <2>2. PICK v \in Vehicles : v = tasks[t].vehicle
    BY <2>1 DEF Exists, TasksInv, RowsOK, Task
  <2>3. /\ current' = [current EXCEPT ![v] = IF current[v] = t THEN NoTask ELSE current[v]]
        /\ UNCHANGED <<tasks, excused>> /\ Goto(r, "record")
    BY <1>3, <2>1, <2>2 DEF ClearCurrentTask, ghosts
  <2>4. \A q \in Requests : q # r => handlers'[q] = handlers[q]
    BY <2>3, GotoHandler
  <2>5. ASSUME NEW w \in Vehicles, current'[w] # NoTask
        PROVE  current'[w] = current[w] /\ current[w] # t /\ current[w] \in TaskIds
    <3>1. CASE w = v
      BY <2>3, <2>5, <3>1 DEF AssignedInv
    <3>2. CASE w # v
      BY <2>2, <2>3, <2>5, <3>2 DEF AssignedInv
    <3> QED
      BY <3>1, <3>2
  <2> SUFFICES ASSUME NEW w \in Vehicles, current'[w] # NoTask, Finished(current[w])'
               PROVE  current'[w] \in excused' \/ Clearing(current[w])'
    BY DEF ClearInv, Clearing
  <2>6. PICK u \in TaskIds : u = current[w] /\ u = current'[w] /\ u # t
    BY <2>5
  <2>7. Finished(u)
    BY <2>3, <2>6 DEF Finished, Exists
  <2>8. u \in excused \/ Clearing(u)
    BY <2>6, <2>7, TaskAssumption DEF ClearInv, Clearing
  <2>9. Clearing(u) => Clearing(u)'
    BY <2>1, <2>4, <2>6 DEF Clearing
  <2> QED
    BY <2>3, <2>6, <2>8, <2>9 DEF Clearing
<1>4. ASSUME NEW r \in Requests,
             \/ DispatchTask(r) \/ BroadcastCreated(r) \/ RecordTaskStatusTransition(r)
             \/ BroadcastChanged(r)
      PROVE  ClearInv'
  <2>1. /\ UNCHANGED <<tasks, current, excused>> /\ handlers[r].pc # "clear"
        /\ Respond(r) \/ \E pc \in {"created", "changed"} : Goto(r, pc)
    BY <1>4 DEF DispatchTask, BroadcastCreated, RecordTaskStatusTransition, BroadcastChanged, At,
       tables, ghosts
  <2>2. \A q \in Requests : q # r => handlers'[q] = handlers[q]
    BY <2>1, GotoHandler, RespondHandler
  <2>3. \A t \in TaskIds : (Finished(t)' => Finished(t)) /\ (Clearing(t) => Clearing(t)')
    BY <2>1, <2>2 DEF Finished, Exists, Clearing
  <2> QED
    BY <2>1, <2>3, ClearKeeps
<1>5. ASSUME NEW r \in Requests, StatementFails(r)
      PROVE  ClearInv'
  <2>1. /\ UNCHANGED <<tasks, current>> /\ Respond(r)
        /\ excused' = IF handlers[r].pc = "clear" THEN excused \cup {handlers[r].task} ELSE excused
    BY <1>5 DEF StatementFails, tables
  <2>2. \A q \in Requests : q # r => handlers'[q] = handlers[q]
    BY <2>1, RespondHandler
  <2>3. \A t \in TaskIds : /\ Finished(t)' => Finished(t)
                           /\ Clearing(t) => Clearing(t)' \/ t \in excused'
    BY <2>1, <2>2 DEF Finished, Exists, Clearing
  <2> QED
    BY <2>1, <2>3, ClearKeeps
<1>6. CASE Crash
  <2>1. /\ UNCHANGED <<tasks, current>>
        /\ excused' = excused \cup
             {t \in TaskIds : \E r \in Requests : handlers[r].pc = "clear" /\ handlers[r].task = t}
    BY <1>6 DEF Crash, tables
  <2>2. \A t \in TaskIds : /\ Finished(t)' => Finished(t)
                           /\ Clearing(t) => t \in excused'
    BY <2>1 DEF Finished, Exists, Clearing
  <2> QED
    BY <2>1, <2>2, ClearKeeps
<1>7. ASSUME NEW v \in Vehicles, NEW t \in TaskIds \cup {NoTask}, UpsertVehicleStatus(v, t)
      PROVE  ClearInv'
  <2>1. /\ current' = [current EXCEPT ![v] = t] /\ UNCHANGED <<tasks, handlers>>
        /\ excused' = IF t # NoTask /\ Finished(t) THEN excused \cup {t} ELSE excused
    BY <1>7 DEF UpsertVehicleStatus
  <2>2. \A u : Finished(u)' <=> Finished(u)
    BY <2>1 DEF Finished, Exists
  <2> SUFFICES ASSUME NEW w \in Vehicles, current'[w] # NoTask, Finished(current[w])'
               PROVE  current'[w] \in excused' \/ Clearing(current[w])'
    BY DEF ClearInv, Clearing
  <2>3. PICK u : u = current'[w]
    OBVIOUS
  <2>4. Finished(u)
    BY <2>1, <2>3 DEF Finished, Exists
  <2>5. CASE w = v
    BY <2>1, <2>3, <2>4, <2>5 DEF AssignedInv
  <2>6. CASE w # v
    <3>1. u = current[w]
      BY <2>1, <2>3, <2>6 DEF AssignedInv
    <3>2. u \in excused \/ Clearing(u)
      BY <2>3, <2>4, <3>1 DEF ClearInv, Clearing
    <3> QED
      BY <2>1, <2>3, <3>2 DEF Clearing
  <2> QED
    BY <2>5, <2>6
<1>8. ASSUME \/ \E r \in Requests, t \in TaskIds, s \in Targets, o \in Operators :
                  PatchTask(r, t, s, o)
             \/ \E t \in TaskIds : insertBackfilledHistoryRow(t)
             \/ Restart \/ Serve \/ UNCHANGED vars
      PROVE  ClearInv'
  <2>1. /\ UNCHANGED <<tasks, current, excused>>
        /\ \A q \in Requests : handlers[q].pc = "clear" => handlers'[q] = handlers[q]
    BY <1>8 DEF PatchTask, At, insertBackfilledHistoryRow, Restart, Serve, vars, tables, ghosts,
       TasksInv, RowsOK
  <2>2. \A t \in TaskIds : (Finished(t)' => Finished(t)) /\ (Clearing(t) => Clearing(t)')
    BY <2>1 DEF Finished, Exists, Clearing
  <2> QED
    BY <2>1, <2>2, ClearKeeps
<1> QED
  BY <1>1, <1>2, <1>3, <1>4, <1>5, <1>6, <1>7, <1>8 DEF Next

\* A dashboard learns of a status from a handler that stored it, or from the
\* tables when it connects again.
LEMMA ShownStep ==
  ASSUME TasksInv, TrailInv, ShownInv, [Next]_vars
  PROVE  ShownInv'
<1>0. /\ PastInv /\ HandInv
      /\ \A t \in TaskIds : \A s : Had(t, s) => Had(t, s)'
  BY PastStep DEF TrailInv
<1>1. ASSUME NEW t \in TaskIds, NEW s \in TaskStatus \cup {NoTask},
             s # NoTask => Had(t, s), shown' = [shown EXCEPT ![t] = s]
      PROVE  ShownInv'
  <2>1. shown' \in [TaskIds -> TaskStatus \cup {NoTask}]
    BY <1>1 DEF ShownInv
  <2>2. ASSUME NEW u \in TaskIds, shown'[u] # NoTask
        PROVE  Had(u, shown[u])'
    <3>1. PICK x : x = shown'[u]
      OBVIOUS
    <3>2. Had(u, x)
      BY <1>1, <2>2, <3>1 DEF ShownInv
    <3> QED
      BY <1>0, <3>1, <3>2 DEF Had
  <2> QED
    BY <2>1, <2>2 DEF ShownInv
<1>2. ASSUME UNCHANGED shown
      PROVE  ShownInv'
  <2>1. ASSUME NEW u \in TaskIds, shown'[u] # NoTask
        PROVE  Had(u, shown[u])'
    <3>1. PICK x : x = shown[u] /\ x = shown'[u]
      BY <1>2
    <3>2. Had(u, x)
      BY <1>2, <2>1, <3>1 DEF ShownInv
    <3> QED
      BY <1>0, <3>1, <3>2 DEF Had
  <2> QED
    BY <1>2, <2>1 DEF ShownInv
<1>3. ASSUME NEW r \in Requests, BroadcastCreated(r)
      PROVE  ShownInv'
  <2>1. PICK t \in TaskIds, s \in TaskStatus : t = handlers[r].task /\ s = handlers[r].previous
    BY <1>3 DEF BroadcastCreated, At, TasksInv, RowsOK, HandlersAreSound, Handler
  <2>2. Had(t, s) /\ shown' = [shown EXCEPT ![t] = s]
    BY <1>0, <1>3, <2>1 DEF BroadcastCreated, At, HandInv, InHand
  <2> QED
    BY <1>1, <2>2
<1>4. ASSUME NEW r \in Requests, BroadcastChanged(r)
      PROVE  ShownInv'
  <2>1. PICK t \in TaskIds, s \in TaskStatus : t = handlers[r].task /\ s = handlers[r].target
    BY <1>4 DEF BroadcastChanged, At, TasksInv, RowsOK, HandlersAreSound, Handler
  <2>2. /\ Had(t, s)
        /\ shown' = [shown EXCEPT ![t] = IF shown[t] = NoTask THEN NoTask ELSE s]
    BY <1>0, <1>4, <2>1 DEF BroadcastChanged, At, HandInv, InHand
  <2> QED
    BY <1>1, <2>2
<1>5. CASE Serve
  <2>1. /\ shown' = [t \in TaskIds |-> IF Exists(t) THEN tasks[t].status ELSE NoTask]
        /\ UNCHANGED past
    BY <1>5 DEF Serve, ghosts
  <2>2. \A t \in TaskIds : Exists(t) => tasks[t].status \in TaskStatus
    BY DEF TasksInv, RowsOK, Exists, Task
  <2>3. shown' \in [TaskIds -> TaskStatus \cup {NoTask}]
    BY <2>1, <2>2
  <2>4. ASSUME NEW u \in TaskIds, shown'[u] # NoTask
        PROVE  Had(u, shown[u])'
    <3>1. Exists(u) /\ shown'[u] = tasks[u].status
      BY <2>1, <2>4
    <3>2. Len(past[u]) \in 1 .. Len(past[u]) /\ past[u][Len(past[u])] = tasks[u].status
      BY <1>0, <3>1 DEF PastInv, PastFits
    <3> QED
      BY <2>1, <3>1, <3>2 DEF Had
  <2> QED
    BY <2>3, <2>4 DEF ShownInv
<1>6. ASSUME \/ \E r \in Requests :
                  \/ DispatchTask(r) \/ UpdateTaskStatus(r) \/ RecordTaskStatusTransition(r)
                  \/ ClearCurrentTask(r) \/ StatementFails(r)
             \/ \E r \in Requests, v \in Vehicles, t \in TaskIds, s \in TaskStatus \cup {""} :
                  CreateTask(r, v, t, s)
             \/ \E r \in Requests, t \in TaskIds, s \in Targets, o \in Operators :
                  PatchTask(r, t, s, o)
             \/ \E v \in Vehicles, t \in TaskIds \cup {NoTask} : UpsertVehicleStatus(v, t)
             \/ \E t \in TaskIds : insertBackfilledHistoryRow(t)
             \/ Crash \/ Restart \/ UNCHANGED vars
      PROVE  UNCHANGED shown
  BY <1>6 DEF DispatchTask, UpdateTaskStatus, RecordTaskStatusTransition, ClearCurrentTask,
     StatementFails, CreateTask, PatchTask, UpsertVehicleStatus, insertBackfilledHistoryRow, Crash,
     Restart, vars
<1> QED
  BY <1>2, <1>3, <1>4, <1>5, <1>6 DEF Next

LEMMA ServiceStep ==
  ASSUME ServiceInv, [Next]_vars
  PROVE  ServiceInv'
<1>1. \/ UNCHANGED service \/ service' \in {"up", "down", "starting"}
  BY DEF Next, CreateTask, PatchTask, DispatchTask, BroadcastCreated, UpdateTaskStatus,
     ClearCurrentTask, RecordTaskStatusTransition, BroadcastChanged, StatementFails,
     UpsertVehicleStatus, insertBackfilledHistoryRow, Crash, Restart, Serve, vars
<1> QED
  BY <1>1 DEF ServiceInv

-----------------------------------------------------------------------------
(* The theorems *)

\* The inductive invariant behind everything but the lifecycle.
AuditInv == TasksInv /\ TrailInv /\ AssignedInv /\ ClearInv /\ ShownInv /\ ServiceInv

LEMMA InitAuditInv == Init => AuditInv
<1> SUFFICES ASSUME Init
             PROVE  AuditInv
  OBVIOUS
<1>1. TasksInv
  BY InitTasksInv
<1>2. /\ \A t \in TaskIds : past[t] = <<>> /\ history[t] = <<>> /\ ~ Exists(t)
      /\ past \in [TaskIds -> Seq(TaskStatus)] /\ history \in [TaskIds -> Seq(Row)]
      /\ \A r \in Requests : handlers[r].pc = "idle"
  BY IdleIsHandler DEF Init, Exists
<1>3. \A t \in TaskIds : Len(past[t]) = 0 /\ Len(history[t]) = 0
  BY <1>2
<1>4. PastInv
  BY <1>2, <1>3 DEF PastInv, PastFits
<1>5. HistoryInv
  BY <1>2, <1>3 DEF HistoryInv
<1>6. HandInv
  BY <1>2 DEF HandInv, InHand, SameChange, Owes
<1>7. CompleteInv
  BY <1>3 DEF Init, CompleteInv
<1>8. AssignedInv /\ ClearInv /\ ShownInv /\ ServiceInv
  BY DEF Init, AssignedInv, ClearInv, ShownInv, ServiceInv
<1> QED
  BY <1>1, <1>4, <1>5, <1>6, <1>7, <1>8 DEF AuditInv, TrailInv

LEMMA AuditStep ==
  ASSUME AuditInv, [Next]_vars
  PROVE  AuditInv'
BY TasksStep, TrailStep, AssignedStep, ClearStep, ShownStep, ServiceStep DEF AuditInv, TrailInv

LEMMA AuditInvariance == Spec => []AuditInv
BY InitAuditInv, AuditStep, PTL DEF Spec

\* The tables satisfy their constraints and every handler works on a row that
\* exists, for any number of requests, failed statements and crashes.
THEOREM TasksTypeCorrect == Spec => []TasksTypeOK
<1>1. AuditInv => TasksTypeOK
  <2> SUFFICES ASSUME AuditInv
               PROVE  TasksTypeOK
    OBVIOUS
  <2>1. /\ tasks \in [TaskIds -> Task \cup {NoTask}] /\ handlers \in [Requests -> Handler]
        /\ \A r \in Requests : handlers[r].pc # "idle" => Exists(handlers[r].task)
    BY DEF AuditInv, TasksInv, RowsOK, HandlersAreSound
  <2>2. \A t \in TaskIds : \A i \in DOMAIN history[t] : history[t][i] \in Row
    BY DEF AuditInv, TrailInv, HistoryInv
  <2>3. /\ current \in [Vehicles -> TaskIds \cup {NoTask}]
        /\ \A v \in Vehicles : current[v] = NoTask \/ Exists(current[v])
    BY DEF AuditInv, AssignedInv
  <2> QED
    BY <2>1, <2>2, <2>3 DEF TasksTypeOK, AuditInv, ServiceInv
<1> QED
  BY <1>1, AuditInvariance, PTL

\* The audit trail names only changes that happened, each at most once, whatever
\* overlapped, failed or was backfilled after a crash.
THEOREM HistorySoundness == Spec => []HistoryIsSound
<1>1. AuditInv => HistoryIsSound
  <2> SUFFICES ASSUME AuditInv, NEW t \in TaskIds, NEW i \in DOMAIN history[t]
               PROVE  /\ \E k \in 2 .. Len(past[t]) :
                           /\ past[t][k] = history[t][i].to
                           /\ history[t][i].from # "NULL" =>
                                \E j \in 1 .. k - 1 : past[t][j] = history[t][i].from
                      /\ \A j \in DOMAIN history[t] :
                           history[t][j].to = history[t][i].to => i = j
    BY DEF HistoryIsSound
  <2>1. DOMAIN history[t] = 1 .. Len(history[t])
    BY DEF AuditInv, TrailInv, HistoryInv
  <2>2. Changed(t, history[t][i].from, history[t][i].to)
    BY <2>1 DEF AuditInv, TrailInv, HistoryInv
  <2>3. \A j \in DOMAIN history[t] : history[t][j].to = history[t][i].to => i = j
    BY <2>1 DEF AuditInv, TrailInv, HistoryInv
  <2> QED
    BY <2>2, <2>3 DEF Changed
<1> QED
  BY <1>1, AuditInvariance, PTL

\* Without a failure every change has its row once its handlers are done.
THEOREM HistoryCompleteness == Spec => []HistoryIsComplete
<1>1. AuditInv => HistoryIsComplete
  <2> SUFFICES ASSUME AuditInv, NEW t \in TaskIds, faults = 0, Working(t) = {}
               PROVE  Len(history[t]) >= Len(past[t]) - 1
    BY DEF HistoryIsComplete
  <2>1. PICK n \in Nat, m \in Nat : n = Len(past[t]) /\ m = Len(history[t])
    BY DEF AuditInv, TrailInv, PastInv, HistoryInv
  <2>2. DOMAIN history[t] = 1 .. m
    BY <2>1 DEF AuditInv, TrailInv, HistoryInv
  <2>3. \A k \in 2 .. n : Recorded(t, past[t][k])
    <3>1. \A r \in Requests : ~ (Owes(r) /\ handlers[r].task = t)
      BY DEF Working, Owes
    <3> QED
      BY <2>1, <3>1 DEF AuditInv, TrailInv, CompleteInv
  <2>4. \A k \in 2 .. n : \E i \in 1 .. m : history[t][i].to = past[t][k]
    BY <2>2, <2>3 DEF Recorded
  <2>5. n <= 3 /\ \A i, j \in 1 .. n : past[t][i] = past[t][j] => i = j
    BY <2>1 DEF AuditInv, TrailInv, PastInv, PastFits
  <2>6. CASE n <= 1
    BY <2>1, <2>6
  <2>7. CASE n = 2
    <3>1. PICK i \in 1 .. m : history[t][i].to = past[t][2]
      BY <2>4, <2>7
    <3> QED
      BY <2>1, <2>7, <3>1
  <2>8. CASE n = 3
    <3>1. PICK i \in 1 .. m : history[t][i].to = past[t][2]
      BY <2>4, <2>8
    <3>2. PICK j \in 1 .. m : history[t][j].to = past[t][3]
      BY <2>4, <2>8
    <3>3. i # j
      BY <2>5, <2>8, <3>1, <3>2
    <3>4. m >= 2
      BY <3>3
    <3> QED
      BY <2>1, <2>8, <3>4
  <2> QED
    BY <2>5, <2>6, <2>7, <2>8
<1> QED
  BY <1>1, AuditInvariance, PTL

\* The service does not serve again before every changed task has a history.
THEOREM RestartRepair == Spec => RestartRepairsHistory
<1>1. AuditInv /\ [Next]_vars =>
        [service = "starting" /\ service' = "up" =>
           \A t \in TaskIds : Len(past[t]) > 1 => history[t] # <<>>]_vars
  <2> SUFFICES ASSUME AuditInv, [Next]_vars, service = "starting", service' = "up",
                      NEW t \in TaskIds, Len(past[t]) > 1
               PROVE  history[t] # <<>>
    OBVIOUS
  <2>1. Serve
    BY DEF Next, CreateTask, PatchTask, DispatchTask, BroadcastCreated, UpdateTaskStatus,
       ClearCurrentTask, RecordTaskStatusTransition, BroadcastChanged, StatementFails,
       UpsertVehicleStatus, insertBackfilledHistoryRow, Crash, Restart, vars, At
  <2>2. Exists(t) /\ tasks[t].changedBy # NoOne /\ tasks[t].status # "pending"
    BY DEF AuditInv, TrailInv, PastInv, PastFits
  <2>3. t \notin queryLegacyTransitions
    BY <2>1 DEF Serve
  <2> QED
    BY <2>2, <2>3 DEF queryLegacyTransitions
<1> QED
  BY <1>1, AuditInvariance, PTL DEF Spec, RestartRepairsHistory

\* A finished task leaves its vehicle, unless the vehicle itself named it again
\* or the statement that clears it never ran.
THEOREM FinishedTaskSafety == Spec => []FinishedTaskIsCleared
<1>1. AuditInv => FinishedTaskIsCleared
  <2> SUFFICES ASSUME AuditInv, NEW v \in Vehicles, current[v] # NoTask, Finished(current[v]),
                      current[v] \notin excused
               PROVE  \E r \in Working(current[v]) : handlers[r].pc = "clear"
    BY DEF FinishedTaskIsCleared
  <2>1. PICK r \in Requests : handlers[r].pc = "clear" /\ handlers[r].task = current[v]
    BY DEF AuditInv, ClearInv
  <2> QED
    BY <2>1 DEF Working
<1> QED
  BY <1>1, AuditInvariance, PTL

\* A dashboard never shows a status the task did not have.
THEOREM ShownSafety == Spec => []ShownWasStored
<1>1. AuditInv => ShownWasStored
  <2> SUFFICES ASSUME AuditInv, NEW t \in TaskIds, shown[t] # NoTask
               PROVE  \E i \in DOMAIN past[t] : past[t][i] = shown[t]
    BY DEF ShownWasStored
  <2>1. DOMAIN past[t] = 1 .. Len(past[t])
    BY DEF AuditInv, TrailInv, PastInv
  <2>2. Had(t, shown[t])
    BY DEF AuditInv, ShownInv
  <2> QED
    BY <2>1, <2>2 DEF Had
<1> QED
  BY <1>1, AuditInvariance, PTL
=============================================================================
