------------------------- MODULE ControlServerProofs -------------------------
(***************************************************************************)
(* The control server for any number of vehicles, sessions, sockets,       *)
(* concurrent requests, late callbacks and any choice of watchdogs.        *)
(*                                                                         *)
(* A goroutine's program is the part of its handler that is still to run,  *)
(* so what the server owes a vehicle is in the programs.  The proof keeps  *)
(* three kinds of facts: what a goroutine of each kind may have in its     *)
(* program and in which order (Fits); what its session is to it            *)
(* (Belongs); and, for each vehicle whose state is not final, the          *)
(* goroutine that still has to do something about it (OwedInv).  A second  *)
(* invariant (PursuitInv) does the same for the loops over the fleet: a    *)
(* vehicle that a loop is to end still has its turn ahead.                 *)
(***************************************************************************)
EXTENDS ControlServer, SessionManagerProofs, FiniteSetTheorems

Kinds == {"free", "start", "end", "endAll", "stop", "operator", "closing",
          "vehicle", "lost", "bus"}

Start(w) == <<w, "Start", "">>
Stop(w)  == <<w, "Stop", "">>

\* The watchdogs the properties are about, and the ones a reconnect restarts.
Watched == {"Deadman"} \cup Pollers
Resumed == {"Deadman"} \cup (Pollers \ {"TelemetryWatchdog"})

-----------------------------------------------------------------------------
(* What is in a program *)

\* The calls that give a vehicle to an operator.
GrantCalls ==
  {System("CONNECTING"), System("RECOVERING"), System("AUTHENTICATED"),
   ToConnected, Operator("ACTIVE_OPERATOR"),
   Start("Deadman"), Start("VehicleACKWatchdog"),
   Start("AuthWatchdog"), Start("TelemetryWatchdog")}

StopWatchdogCalls ==
  {Stop("Deadman"), Stop("VehicleACKWatchdog"),
   Stop("AuthWatchdog"), Stop("TelemetryWatchdog")}

LoopCalls(branch) == {Handler(branch, v) : v \in Vehicles}

\* The other calls of each kind of goroutine.
OtherCalls(kind) ==
  CASE kind = "start" -> {Handler("Connected", ""), Handler("StartSession", "")}
    [] kind = "end" ->
         StopWatchdogCalls \cup {Manager("ReleaseSession"), System("IDLE")}
    [] kind = "endAll" ->
         StopWatchdogCalls \cup {System("IDLE"), Manager("EndSession")}
           \cup LoopCalls("EndVehicle")
    [] kind = "stop" ->
         {System("SAFE_MODE"), Manager("SaveCheckpoint")} \cup LoopCalls("StopVehicle")
    [] kind = "operator" ->
         {Handler("Recover", ""), Handler("Forward", ""), System("SAFE_MODE"),
          <<"Deadman", "Reset", "">>, <<"VehicleACKWatchdog", "CommandForwarded", "">>,
          <<"ACKTimeoutWatcher", "CommandReceived", "">>,
          <<"ACKTimeoutWatcher", "CommandACKed", "">>}
           \cup {Handler("Refresh", cmd) : cmd \in CommandType}
    [] kind = "closing" ->
         {Stop("Deadman"), Stop("AuthWatchdog"), Handler("StillActive", ""),
          Handler("StopUnlessSafe", ""), System("SAFE_MODE"), Operator("NO_OPERATOR"),
          Manager("SaveCheckpoint"), Manager("ReleaseSession")}
    [] kind = "lost" -> {System("SAFE_MODE"), Handler("Unregister", "")}
    [] kind = "bus"  -> {System("SAFE_MODE")} \cup LoopCalls("StopActive")
    [] OTHER -> {}

Has(prog, call) == \E i \in 1..Len(prog) : prog[i] = call

\* Every a is followed by a b, if not at once.
Later(prog, a, b) ==
  \A i \in 1..Len(prog) : prog[i] = a => \E j \in 1..Len(prog) : i < j /\ prog[j] = b

\* What the order of the calls promises.
Promises(kind, prog) ==
  /\ Later(prog, System("CONNECTING"), System("AUTHENTICATED"))
  /\ Later(prog, System("RECOVERING"), System("AUTHENTICATED"))
  /\ Later(prog, System("AUTHENTICATED"), ToConnected)
  /\ Later(prog, ToConnected, Operator("ACTIVE_OPERATOR"))
  /\ \A w \in Resumed : Later(prog, ToConnected, Start(w))
  /\ kind = "end" =>
       \A w \in Watched : Later(prog, Stop(w), Manager("ReleaseSession"))
  /\ kind = "endAll" =>
       /\ \A w \in Watched : Later(prog, Stop(w), Manager("EndSession"))
       /\ \A v \in Vehicles :
            Later(prog, Handler("EndVehicle", v), Manager("EndSession"))
  /\ kind = "closing" =>
       \A w \in Watched : Later(prog, Stop(w), Handler("StillActive", ""))

\* A program either gives a vehicle to an operator or does something else.
Program(kind, prog) ==
  /\ \/ kind \in {"start", "operator"} /\ prog \in Seq(GrantCalls)
     \/ prog \in Seq(OtherCalls(kind))
  /\ Promises(kind, prog)

\* The goroutine runs for a vehicle, or is still to enter its first turn of a
\* loop over the vehicles.
OnVehicle(g) ==
  \/ g.vehicle \in Vehicles
  \/ g.as = "endAll" /\ g.prog \in Seq(LoopCalls("EndVehicle") \cup {Manager("EndSession")})
  \/ g.as = "stop" /\ g.prog \in Seq(LoopCalls("StopVehicle"))
  \/ g.as = "bus" /\ g.prog \in Seq(LoopCalls("StopActive"))

\* A goroutine of its kind.
Fits(g) ==
  /\ g = [as |-> g.as, vehicle |-> g.vehicle, session |-> g.session,
          operator |-> g.operator, observer |-> g.observer, prog |-> g.prog]
  /\ g.as \in Kinds
  /\ g.session \in SessionIds \cup {NoSession}
  /\ g.operator \in Operators \cup {NoConn}
  /\ g.observer \in BOOLEAN
  /\ g.as \in {"free", "vehicle"} => g.prog = <<>>
  /\ Program(g.as, g.prog)
  /\ g.as # "free" => OnVehicle(g)
  /\ g.as \in {"end", "operator", "closing"} => g.session \in SessionIds
  /\ g.as = "start" => g.operator \in Operators
  /\ g.as \in {"free", "vehicle", "lost", "bus"} => g.session = NoSession

\* Operator sockets are served in Conns and starts in Requests.
Placed(t, g) ==
  /\ g.as \in {"operator", "closing"} => t \in Conns
  /\ g.as = "start" => t \in Requests

\* Its session, as long as it lives, is of its vehicle, and has its role and
\* its operator.
Belongs(g) ==
  /\ g.session \in SessionIds =>
       /\ g.session \in issued
       /\ Live(g.session) => sessions[g.session].vehicle = g.vehicle
  /\ g.as \in {"operator", "closing"} /\ Live(g.session) =>
       (g.observer <=> sessions[g.session].role = "OBSERVER")
  /\ g.as \in {"start", "operator"} /\ g.session \in SessionIds /\ Live(g.session) =>
       sessions[g.session].operator = g.operator

GoInv ==
  /\ DOMAIN go = Threads
  /\ \A t \in Threads : Fits(go[t]) /\ Placed(t, go[t]) /\ Belongs(go[t])

-----------------------------------------------------------------------------
(* The vehicles *)

\* The timers and callbacks of one watchdog stay within the bound together.
WatchdogOK(w) == w \in Watchdog /\ w.orphans + w.expired <= MaxLate

PollRun ==
  [account : Operators \cup {NoConn, ""}, failures : 0..FailThreshold-1, phase : Phase]

Poller == [run : PollRun, late : SUBSET PollRun]

Objects == {"SM"} \cup TimerWatchdogs \cup PollWatchdogs

CtxInv ==
  /\ DOMAIN ctx = Vehicles
  /\ \A v \in Vehicles :
       /\ DOMAIN ctx[v] = Objects
       /\ ctx[v].SM \in MachineType
       /\ \A w \in TimerWatchdogs : WatchdogOK(ctx[v][w])
       /\ \A w \in PollWatchdogs : ctx[v][w] \in Poller

RestInv ==
  /\ conns \in [Vehicles -> VConns \cup {NoConn}]
  /\ firing \in [Vehicles -> SUBSET TimerWatchdogs]
  /\ busFailures \in 0..BusFailThreshold-1
  /\ revoked \subseteq Operators
  /\ lostTo \in [Vehicles -> SUBSET Objects]
  /\ attached \subseteq issued
  /\ grantor \in [Vehicles -> SessionIds \cup {NoSession}]

\* Somebody at work on v still has to make this call.
Owed(v, call) ==
  \E t \in Threads : go[t].vehicle = v /\ Has(go[t].prog, call)

\* A vehicle between two final states, and one under control without an
\* operator, is being taken further.
TransitInv(v) ==
  /\ Sys(v) \in {"CONNECTING", "RECOVERING"} => Owed(v, System("AUTHENTICATED"))
  /\ Sys(v) = "AUTHENTICATED" => Owed(v, ToConnected)
  /\ InControl(v) /\ ctx[v].SM.Operator = "NO_OPERATOR"
       => Owed(v, Operator("ACTIVE_OPERATOR"))

\* The program of a closing socket has yet to stop the vehicle.
Guarded(prog) ==
  \/ Has(prog, Handler("StillActive", "")) \/ Has(prog, Handler("StopUnlessSafe", ""))
  \/ Has(prog, System("SAFE_MODE"))

\* A socket of session s that is closing has yet to stop its vehicle.
StillStops(s) ==
  \E c \in Conns :
    go[c].as = "closing" /\ go[c].session = s /\ Guarded(go[c].prog)

\* The session that took the control of v has a socket open, or one that closes.
AttendedInv(v) ==
  InControl(v) /\ vehicleController[v] \in attached /\ grantor[v] = vehicleController[v]
    => Open(vehicleController[v]) \/ StillStops(vehicleController[v])

\* The session that holds v is being ended.
BeingEnded(v) ==
  \E t \in Threads :
    \/ /\ go[t].as = "end" /\ go[t].session = vehicleController[v]
       /\ Has(go[t].prog, Manager("ReleaseSession"))
    \/ go[t].as = "endAll" /\ Has(go[t].prog, Manager("EndSession"))

\* A watchdog that is off although the session holds v is about to be started,
\* or was stopped for another session, or the vehicle is being released or
\* stopped.
SupervisedInv(v, w) ==
  IsVehicleLocked(v) =>
    \/ Enabled(v, w) \/ w \in lostTo[v]
    \/ Owed(v, Start(w))
    \/ BeingEnded(v)
    \/ /\ w \in Resumed
       /\ ~InControl(v) \/ w \in firing[v] \/ StillStops(vehicleController[v])

OwedInv ==
  \A v \in Vehicles :
    /\ TransitInv(v)
    /\ AttendedInv(v)
    /\ \A w \in Watched : SupervisedInv(v, w)

\* The inductive invariant.
ServerInv == SessInv /\ GoInv /\ CtxInv /\ RestInv /\ OwedInv

-----------------------------------------------------------------------------
(* Sequences *)

\* A concatenation, element by element.
LEMMA Concat ==
  ASSUME NEW S, NEW p \in Seq(S), NEW q \in Seq(S)
  PROVE  /\ p \o q \in Seq(S)
         /\ Len(p \o q) = Len(p) + Len(q)
         /\ \A i \in 1..Len(p) : (p \o q)[i] = p[i]
         /\ \A i \in 1..Len(q) : (p \o q)[Len(p) + i] = q[i]
         /\ \A i \in 1..Len(p \o q) : ~(i \in 1..Len(p)) =>
              i - Len(p) \in 1..Len(q) /\ (p \o q)[i] = q[i - Len(p)]
  OBVIOUS

\* What is in a part is in the whole.
LEMMA HasConcat ==
  ASSUME NEW S, NEW p \in Seq(S), NEW q \in Seq(S), NEW a
  PROVE  Has(p \o q, a) <=> Has(p, a) \/ Has(q, a)
<1>1. ASSUME Has(p, a) PROVE Has(p \o q, a)
  BY <1>1, Concat DEF Has
<1>2. ASSUME Has(q, a) PROVE Has(p \o q, a)
  <2>1. PICK i \in 1..Len(q) : q[i] = a
    BY <1>2 DEF Has
  <2>2. Len(p) + i \in 1..Len(p \o q)
    BY Concat
  <2> QED
    BY <2>1, <2>2, Concat DEF Has
<1>3. ASSUME Has(p \o q, a) PROVE Has(p, a) \/ Has(q, a)
  BY <1>3, Concat DEF Has
<1> QED
  BY <1>1, <1>2, <1>3

LEMMA LaterConcat ==
  ASSUME NEW S, NEW p \in Seq(S), NEW q \in Seq(S), NEW a, NEW b,
         Later(p, a, b) \/ Has(q, b), Later(q, a, b)
  PROVE  Later(p \o q, a, b)
<1> SUFFICES ASSUME NEW i \in 1..Len(p \o q), (p \o q)[i] = a
             PROVE  \E j \in 1..Len(p \o q) : i < j /\ (p \o q)[j] = b
  BY DEF Later
<1>1. CASE i \in 1..Len(p) /\ Later(p, a, b)
  <2>1. PICK j \in 1..Len(p) : i < j /\ p[j] = b
    BY <1>1, Concat DEF Later
  <2> QED
    BY <2>1, Concat
<1>2. CASE i \in 1..Len(p) /\ Has(q, b)
  <2>1. PICK j \in 1..Len(q) : q[j] = b
    BY <1>2 DEF Has
  <2>2. Len(p) + j \in 1..Len(p \o q) /\ i < Len(p) + j
    BY <1>2, Concat
  <2> QED
    BY <2>1, <2>2, Concat
<1>3. CASE i \notin 1..Len(p)
  <2> DEFINE k == i - Len(p)
  <2>1. k \in 1..Len(q) /\ q[k] = a
    BY <1>3, Concat
  <2>2. PICK j \in 1..Len(q) : k < j /\ q[j] = b
    BY <2>1 DEF Later
  <2>3. Len(p) + j \in 1..Len(p \o q) /\ i < Len(p) + j
    BY <2>2, Concat
  <2> QED
    BY <2>2, <2>3, Concat
<1> QED
  BY <1>1, <1>2, <1>3

LEMMA LaterNone ==
  ASSUME NEW S, NEW p \in Seq(S), NEW a, NEW b, a \notin S
  PROVE  Later(p, a, b) /\ ~Has(p, a)
  BY DEF Later, Has

\* The rest of a program.
LEMMA Tails ==
  ASSUME NEW S, NEW p \in Seq(S), p # <<>>
  PROVE  /\ Head(p) \in S /\ Tail(p) \in Seq(S)
         /\ Has(p, Head(p))
         /\ \A a : Has(p, a) /\ a # Head(p) => Has(Tail(p), a)
         /\ \A a : Has(Tail(p), a) => Has(p, a)
         /\ \A a, b : Later(p, a, b) => Later(Tail(p), a, b)
         /\ \A a, b : Later(p, a, b) /\ a = Head(p) => Has(Tail(p), b)
<1>1. Len(p) \in Nat /\ Len(p) >= 1 /\ Head(p) = p[1] /\ Len(Tail(p)) = Len(p) - 1
      /\ \A i \in 1..Len(Tail(p)) : Tail(p)[i] = p[i+1]
      /\ Head(p) \in S /\ Tail(p) \in Seq(S)
  OBVIOUS
<1>2. Has(p, Head(p))
  BY <1>1 DEF Has
<1>3. ASSUME NEW i \in 1..Len(p), i > 1 PROVE i-1 \in 1..Len(Tail(p)) /\ Tail(p)[i-1] = p[i]
  <2>1. i-1 \in 1..Len(Tail(p)) /\ (i-1)+1 = i
    BY <1>1, <1>3
  <2> QED
    BY <2>1, <1>1
<1>4. ASSUME NEW a, Has(p, a), a # Head(p) PROVE Has(Tail(p), a)
  <2>1. PICK i \in 1..Len(p) : p[i] = a
    BY <1>4 DEF Has
  <2>2. i > 1
    BY <2>1, <1>1, <1>4
  <2> QED
    BY <2>1, <2>2, <1>3 DEF Has
<1>5. ASSUME NEW a, Has(Tail(p), a) PROVE Has(p, a)
  <2>1. PICK i \in 1..Len(Tail(p)) : Tail(p)[i] = a
    BY <1>5 DEF Has
  <2>2. i+1 \in 1..Len(p) /\ p[i+1] = a
    BY <2>1, <1>1
  <2> QED
    BY <2>2 DEF Has
<1>6. ASSUME NEW a, NEW b, Later(p, a, b) PROVE Later(Tail(p), a, b)
  <2> SUFFICES ASSUME NEW i \in 1..Len(Tail(p)), Tail(p)[i] = a
               PROVE  \E j \in 1..Len(Tail(p)) : i < j /\ Tail(p)[j] = b
    BY DEF Later
  <2>1. i+1 \in 1..Len(p) /\ p[i+1] = a
    BY <1>1
  <2>2. PICK j \in 1..Len(p) : i+1 < j /\ p[j] = b
    BY <2>1, <1>6 DEF Later
  <2>3. j-1 \in 1..Len(Tail(p)) /\ Tail(p)[j-1] = b /\ i < j-1
    BY <2>2, <1>3
  <2> QED
    BY <2>3
<1>7. ASSUME NEW a, NEW b, Later(p, a, b), a = Head(p) PROVE Has(Tail(p), b)
  <2>1. 1 \in 1..Len(p) /\ p[1] = a
    BY <1>1, <1>7
  <2>2. PICK j \in 1..Len(p) : 1 < j /\ p[j] = b
    BY <2>1, <1>7 DEF Later
  <2> QED
    BY <2>2, <1>3 DEF Has
<1> QED
  BY <1>1, <1>2, <1>4, <1>5, <1>6, <1>7

-----------------------------------------------------------------------------
(* Programs *)

LEMMA SeqWiden ==
  ASSUME NEW S, NEW T, S \subseteq T, NEW p \in Seq(S)
  PROVE  p \in Seq(T)
  OBVIOUS

LEMMA EmptyProgram ==
  /\ \A S : <<>> \in Seq(S)
  /\ \A a : ~Has(<<>>, a)
  /\ \A a, b : Later(<<>>, a, b)
  /\ \A kind : Promises(kind, <<>>) /\ Program(kind, <<>>)
<1>1. \A S : <<>> \in Seq(S)
  OBVIOUS
<1>2. \A a : ~Has(<<>>, a)
  BY DEF Has
<1>3. \A a, b : Later(<<>>, a, b)
  BY DEF Later
<1>4. \A kind : Promises(kind, <<>>)
  BY <1>3 DEF Promises
<1> QED
  BY <1>1, <1>2, <1>3, <1>4 DEF Program

\* A program of one call.
LEMMA OneCall ==
  ASSUME NEW c
  PROVE  /\ <<c>> \in Seq({c}) /\ <<c>> # <<>> /\ Head(<<c>>) = c /\ Tail(<<c>>) = <<>>
         /\ \A a : Has(<<c>>, a) <=> a = c
         /\ \A a, b : a # c => Later(<<c>>, a, b)
  BY DEF Has, Later

LEMMA OnProgram ==
  ASSUME NEW w, NEW m
  PROVE  /\ On(w, m) \in Seq({<<w, m, "">>})
         /\ w \notin Absent => Has(On(w, m), <<w, m, "">>)
         /\ \A a, b : a # <<w, m, "">> => Later(On(w, m), a, b) /\ ~Has(On(w, m), a)
<1>1. CASE w \in Absent
  BY <1>1, EmptyProgram DEF On
<1>2. CASE w \notin Absent
  BY <1>2, OneCall DEF On
<1> QED
  BY <1>1, <1>2

\* The watchdogs the properties are about are not left out.
LEMMA WatchedPresent == \A w \in Watched : w \notin Absent
  BY ServerAssumption DEF Watched, Absent, PollWatchdogs, TimerWatchdogs

\* The promises of a program that gives a vehicle to an operator.
Granting(prog) ==
  /\ prog \in Seq(GrantCalls)
  /\ Later(prog, System("CONNECTING"), System("AUTHENTICATED"))
  /\ Later(prog, System("RECOVERING"), System("AUTHENTICATED"))
  /\ Later(prog, System("AUTHENTICATED"), ToConnected)
  /\ Later(prog, ToConnected, Operator("ACTIVE_OPERATOR"))

LEMMA GrantFirst ==
  ASSUME NEW n \in {"CONNECTING", "RECOVERING"}
  PROVE  Granting(<<System(n), System("AUTHENTICATED"), ToConnected,
                    Operator("ACTIVE_OPERATOR")>>)
<1> DEFINE p == <<System(n), System("AUTHENTICATED"), ToConnected, Operator("ACTIVE_OPERATOR")>>
<1>1. p \in Seq(GrantCalls) /\ Len(p) = 4
  BY DEF GrantCalls
<1>2. p[1] = System(n) /\ p[2] = System("AUTHENTICATED") /\ p[3] = ToConnected
      /\ p[4] = Operator("ACTIVE_OPERATOR")
  OBVIOUS
<1> HIDE DEF p
<1>3. \A i \in 1..Len(p) : i = 1 \/ i = 2 \/ i = 3 \/ i = 4
  BY <1>1
<1>4. System("AUTHENTICATED") # System("CONNECTING") /\ System("AUTHENTICATED") # System("RECOVERING")
      /\ System(n) # System("AUTHENTICATED")
      /\ \A x, y : System(x) # ToConnected /\ Operator(y) # System(x) /\ Operator(y) # ToConnected
  BY DEF System, ToConnected, Operator
<1>5. Later(p, System("CONNECTING"), System("AUTHENTICATED"))
      /\ Later(p, System("RECOVERING"), System("AUTHENTICATED"))
  BY <1>1, <1>2, <1>3, <1>4 DEF Later
<1>6. Later(p, System("AUTHENTICATED"), ToConnected)
  BY <1>1, <1>2, <1>3, <1>4 DEF Later
<1>7. Later(p, ToConnected, Operator("ACTIVE_OPERATOR"))
  BY <1>1, <1>2, <1>3, <1>4 DEF Later
<1> QED
  BY <1>1, <1>5, <1>6, <1>7 DEF Granting, p

LEMMA GrantOn ==
  ASSUME NEW p, Granting(p),
         NEW w \in {"Deadman", "VehicleACKWatchdog", "AuthWatchdog", "TelemetryWatchdog"}
  PROVE  /\ Granting(p \o On(w, "Start"))
         /\ \A a : Has(p, a) => Has(p \o On(w, "Start"), a)
         /\ \A b : Later(p, ToConnected, b) => Later(p \o On(w, "Start"), ToConnected, b)
         /\ w \notin Absent => /\ Has(p \o On(w, "Start"), Start(w))
                               /\ Later(p \o On(w, "Start"), ToConnected, Start(w))
<1> DEFINE q == On(w, "Start")
<1>1. p \in Seq(GrantCalls) /\ q \in Seq(GrantCalls)
  <2>1. q \in Seq({Start(w)})
    BY OnProgram DEF Start
  <2>2. {Start(w)} \subseteq GrantCalls
    BY DEF GrantCalls
  <2> QED
    BY <2>1, <2>2, SeqWiden DEF Granting
<1>2. \A a, b : a # Start(w) => Later(q, a, b)
  BY OnProgram DEF Start
<1>3. w \notin Absent => Has(q, Start(w))
  BY OnProgram DEF Start
<1>4. \A n : System(n) # Start(w) /\ ToConnected # Start(w)
  BY DEF System, ToConnected, Start
<1> HIDE DEF q
<1>5. \A a, b : a # Start(w) /\ Later(p, a, b) => Later(p \o q, a, b)
  BY <1>1, <1>2, LaterConcat
<1>6. Granting(p \o q)
  BY <1>1, <1>4, <1>5, Concat DEF Granting
<1>7. \A a : Has(p, a) \/ Has(q, a) => Has(p \o q, a)
  BY <1>1, HasConcat
<1>8. w \notin Absent => Later(p \o q, ToConnected, Start(w))
  BY <1>1, <1>2, <1>3, <1>4, LaterConcat
<1> QED
  BY <1>3, <1>4, <1>5, <1>6, <1>7, <1>8 DEF q

LEMMA GrantingPromises ==
  ASSUME NEW p, Granting(p), \A w \in Resumed : Later(p, ToConnected, Start(w)),
         NEW kind \in {"start", "operator"}
  PROVE  Program(kind, p)
  BY DEF Granting, Program, Promises

LEMMA AdvanceProgram ==
  /\ Program("start", advanceVehicleToActiveOperator)
  /\ advanceVehicleToActiveOperator \in Seq(GrantCalls)
  /\ advanceVehicleToActiveOperator # <<>>
  /\ \A w \in Watched : Has(advanceVehicleToActiveOperator, Start(w))
<1> DEFINE p0 == <<System("CONNECTING"), System("AUTHENTICATED"), ToConnected, Operator("ACTIVE_OPERATOR")>>
           p1 == p0 \o On("Deadman", "Start")
           p2 == p1 \o On("VehicleACKWatchdog", "Start")
           p3 == p2 \o On("AuthWatchdog", "Start")
           p4 == p3 \o On("TelemetryWatchdog", "Start")
<1>0. p4 = advanceVehicleToActiveOperator
  BY DEF advanceVehicleToActiveOperator
<1>1. Granting(p0)
  BY GrantFirst
<1> HIDE DEF p0
<1>2. Granting(p1) /\ Has(p1, Start("Deadman")) /\ Later(p1, ToConnected, Start("Deadman"))
  BY <1>1, GrantOn, WatchedPresent DEF Watched
<1> HIDE DEF p1
<1>3. Granting(p2) /\ Has(p2, Start("Deadman")) /\ Later(p2, ToConnected, Start("Deadman"))
  BY <1>2, GrantOn
<1> HIDE DEF p2
<1>4. /\ Granting(p3) /\ Has(p3, Start("Deadman")) /\ Later(p3, ToConnected, Start("Deadman"))
      /\ "AuthWatchdog" \in Pollers => Has(p3, Start("AuthWatchdog")) /\ Later(p3, ToConnected, Start("AuthWatchdog"))
  BY <1>3, GrantOn, WatchedPresent DEF Watched
<1> HIDE DEF p3
<1>5. /\ Granting(p4) /\ Has(p4, Start("Deadman")) /\ Later(p4, ToConnected, Start("Deadman"))
      /\ "AuthWatchdog" \in Pollers => Has(p4, Start("AuthWatchdog")) /\ Later(p4, ToConnected, Start("AuthWatchdog"))
      /\ "TelemetryWatchdog" \in Pollers => Has(p4, Start("TelemetryWatchdog"))
  BY <1>4, GrantOn, WatchedPresent DEF Watched
<1> HIDE DEF p4
<1>6. \A w \in Resumed : Later(p4, ToConnected, Start(w))
  BY <1>5, ServerAssumption DEF Resumed, PollWatchdogs
<1>7. \A w \in Watched : Has(p4, Start(w))
  BY <1>5, ServerAssumption DEF Watched, PollWatchdogs
<1>8. p4 # <<>>
  BY <1>5, EmptyProgram
<1> QED
  BY <1>0, <1>5, <1>6, <1>7, <1>8, GrantingPromises DEF Granting

LEMMA RecoverProgram == Program("operator", recoverFromSafeMode)
<1> DEFINE p0 == <<System("RECOVERING"), System("AUTHENTICATED"), ToConnected, Operator("ACTIVE_OPERATOR")>>
           p1 == p0 \o On("Deadman", "Start")
           p2 == p1 \o On("AuthWatchdog", "Start")
<1>0. p2 = recoverFromSafeMode
  BY DEF recoverFromSafeMode
<1>1. Granting(p0)
  BY GrantFirst
<1> HIDE DEF p0
<1>2. Granting(p1) /\ Later(p1, ToConnected, Start("Deadman"))
  BY <1>1, GrantOn, WatchedPresent DEF Watched
<1> HIDE DEF p1
<1>3. /\ Granting(p2) /\ Later(p2, ToConnected, Start("Deadman"))
      /\ "AuthWatchdog" \in Pollers => Later(p2, ToConnected, Start("AuthWatchdog"))
  BY <1>2, GrantOn, WatchedPresent DEF Watched
<1> HIDE DEF p2
<1>4. \A w \in Resumed : Later(p2, ToConnected, Start(w))
  BY <1>3, ServerAssumption DEF Resumed, PollWatchdogs
<1> QED
  BY <1>0, <1>3, <1>4, GrantingPromises

\* What tells the two apart.
LEMMA GrantFields ==
  ASSUME NEW c \in GrantCalls
  PROVE  /\ c[1] \in {"SM", "Deadman", "VehicleACKWatchdog", "AuthWatchdog", "TelemetryWatchdog"}
         /\ c[1] = "SM" =>
              c[2] = "TransitionToConnected"
                \/ c[3] \in {"CONNECTING", "RECOVERING", "AUTHENTICATED", "ACTIVE_OPERATOR"}
         /\ c[1] # "SM" => c[2] = "Start"
<1>1. \A n : /\ System(n)[1] = "SM" /\ System(n)[2] = "TransitionSystem" /\ System(n)[3] = n
             /\ Operator(n)[1] = "SM" /\ Operator(n)[2] = "TransitionOperator" /\ Operator(n)[3] = n
             /\ Start(n)[1] = n /\ Start(n)[2] = "Start"
  BY DEF System, Operator, Start
<1>2. ToConnected[1] = "SM" /\ ToConnected[2] = "TransitionToConnected"
  BY DEF ToConnected
<1> QED
  BY <1>1, <1>2 DEF GrantCalls

\* The other kinds of calls.
OtherFields(c) ==
  \/ c[1] \in {"handler", "sessions"}
  \/ /\ c[1] = "SM" /\ c[2] \in {"TransitionSystem", "TransitionOperator"}
     /\ c[3] \in {"IDLE", "SAFE_MODE", "NO_OPERATOR"}
  \/ /\ c[1] # "SM"
     /\ c[2] \in {"Stop", "Reset", "CommandForwarded", "CommandReceived", "CommandACKed"}

LEMMA OtherCallFields ==
  ASSUME NEW kind \in Kinds, NEW c \in OtherCalls(kind)
  PROVE  OtherFields(c)
<1>1. \A n, m : /\ System(n)[1] = "SM" /\ System(n)[2] = "TransitionSystem" /\ System(n)[3] = n
                /\ Operator(n)[1] = "SM" /\ Operator(n)[2] = "TransitionOperator" /\ Operator(n)[3] = n
                /\ Stop(n)[1] = n /\ Stop(n)[2] = "Stop"
                /\ Manager(n)[1] = "sessions"
                /\ Handler(n, m)[1] = "handler"
  BY DEF System, Operator, Stop, Manager, Handler
<1>2. \A d \in StopWatchdogCalls : OtherFields(d)
  BY <1>1 DEF StopWatchdogCalls, OtherFields
<1>3. \A branch : \A d \in LoopCalls(branch) : OtherFields(d)
  BY <1>1 DEF LoopCalls, OtherFields
<1>4. \A n \in {"IDLE", "SAFE_MODE"} : OtherFields(System(n))
  BY <1>1 DEF OtherFields
<1>5. OtherFields(Operator("NO_OPERATOR"))
  BY <1>1 DEF OtherFields
<1>6. \A n, m : OtherFields(Manager(n)) /\ OtherFields(Handler(n, m))
              /\ (n # "SM" => OtherFields(Stop(n)))
  BY <1>1 DEF OtherFields
<1>7. \A w \in {"Deadman", "VehicleACKWatchdog", "ACKTimeoutWatcher"} : \A m \in {"Reset", "CommandForwarded", "CommandReceived", "CommandACKed"} :
        OtherFields(<<w, m, "">>)
  BY DEF OtherFields
<1> HIDE DEF OtherFields
<1>a. CASE kind \in {"start", "end", "endAll", "stop"}
  BY <1>a, <1>2, <1>3, <1>4, <1>5, <1>6, <1>7 DEF OtherCalls
<1>b. CASE kind = "operator"
  BY <1>b, <1>2, <1>3, <1>4, <1>5, <1>6, <1>7 DEF OtherCalls
<1>c. CASE kind \in {"closing", "lost", "bus", "free", "vehicle"}
  BY <1>c, <1>2, <1>3, <1>4, <1>5, <1>6, <1>7 DEF OtherCalls
<1> QED
  BY <1>a, <1>b, <1>c DEF Kinds

\* No other call gives a vehicle to an operator.
LEMMA GrantsApart ==
  ASSUME NEW kind \in Kinds, NEW c \in OtherCalls(kind)
  PROVE  c \notin GrantCalls
<1> SUFFICES ASSUME c \in GrantCalls PROVE FALSE
  OBVIOUS
<1>1. OtherFields(c)
  BY OtherCallFields
<1>2. CASE c[1] = "SM"
  BY <1>1, <1>2, GrantFields DEF OtherFields
<1>3. CASE c[1] # "SM"
  BY <1>1, <1>3, GrantFields DEF OtherFields
<1> QED
  BY <1>2, <1>3

LEMMA OtherPromises ==
  ASSUME NEW kind \in Kinds, NEW p \in Seq(OtherCalls(kind))
  PROVE  /\ \A a \in GrantCalls : ~Has(p, a) /\ \A b : Later(p, a, b)
         /\ kind \notin {"end", "endAll", "closing"} => Program(kind, p)
<1>1. \A a \in GrantCalls : a \notin OtherCalls(kind)
  BY GrantsApart
<1>2. \A a \in GrantCalls : ~Has(p, a) /\ \A b : Later(p, a, b)
  BY <1>1, LaterNone
<1>3. {System("CONNECTING"), System("RECOVERING"), System("AUTHENTICATED"), ToConnected} \subseteq GrantCalls
  BY DEF GrantCalls
<1> QED
  BY <1>2, <1>3 DEF Program, Promises

LEMMA StopWatchdogsProgram == stopWatchdogs \in Seq(StopWatchdogCalls)
<1>1. \A w \in {"Deadman", "VehicleACKWatchdog", "AuthWatchdog", "TelemetryWatchdog"} :
        On(w, "Stop") \in Seq(StopWatchdogCalls)
  <2> SUFFICES ASSUME NEW w \in {"Deadman", "VehicleACKWatchdog", "AuthWatchdog", "TelemetryWatchdog"}
               PROVE  On(w, "Stop") \in Seq(StopWatchdogCalls)
    OBVIOUS
  <2>1. On(w, "Stop") \in Seq({Stop(w)})
    BY OnProgram DEF Stop
  <2>2. {Stop(w)} \subseteq StopWatchdogCalls
    BY DEF StopWatchdogCalls
  <2> QED
    BY <2>1, <2>2, SeqWiden
<1> QED
  BY <1>1, Concat DEF stopWatchdogs

\* Whatever comes first, the call q begins with comes later.
LEMMA ThenCall ==
  ASSUME NEW S, NEW p \in Seq(S), NEW q \in Seq(S), NEW a, NEW b,
         Has(q, b), ~Has(q, a)
  PROVE  Later(p \o q, a, b)
<1>1. Later(q, a, b)
  BY DEF Has, Later
<1> QED
  BY <1>1, LaterConcat

LEMMA EndPrograms ==
  /\ Program("end", endActiveSession) /\ endActiveSession # <<>>
  /\ Program("end", <<Manager("ReleaseSession")>>)
<1> DEFINE q == <<Manager("ReleaseSession"), System("IDLE")>>
<1>1. stopWatchdogs \in Seq(OtherCalls("end"))
  BY StopWatchdogsProgram, SeqWiden DEF OtherCalls
<1>2. q \in Seq(OtherCalls("end")) /\ Len(q) = 2 /\ q[1] = Manager("ReleaseSession") /\ q[2] = System("IDLE")
  BY DEF OtherCalls
<1>3. endActiveSession = stopWatchdogs \o q
  BY DEF endActiveSession
<1> HIDE DEF q
<1>4. Has(q, Manager("ReleaseSession")) /\ \A w : ~Has(q, Stop(w))
  <2>1. \A w : Stop(w) # Manager("ReleaseSession") /\ Stop(w) # System("IDLE")
    BY DEF Stop, Manager, System
  <2>2. \A i \in 1..Len(q) : i = 1 \/ i = 2
    BY <1>2
  <2> QED
    BY <1>2, <2>1, <2>2 DEF Has
<1>5. endActiveSession \in Seq(OtherCalls("end"))
  BY <1>1, <1>2, <1>3, Concat
<1>6. \A w : Later(endActiveSession, Stop(w), Manager("ReleaseSession"))
  BY <1>1, <1>2, <1>3, <1>4, ThenCall
<1>7. Program("end", endActiveSession)
  <2>1. \A a \in GrantCalls : \A b : Later(endActiveSession, a, b)
    BY <1>5, OtherPromises DEF Kinds
  <2>2. {System("CONNECTING"), System("RECOVERING"), System("AUTHENTICATED"), ToConnected} \subseteq GrantCalls
    BY DEF GrantCalls
  <2> QED
    BY <2>1, <2>2, <1>5, <1>6 DEF Program, Promises
<1>8. Has(endActiveSession, Manager("ReleaseSession"))
  BY <1>1, <1>2, <1>3, <1>4, HasConcat
<1>9. Program("end", <<Manager("ReleaseSession")>>)
  <2>1. <<Manager("ReleaseSession")>> \in Seq(OtherCalls("end"))
    BY DEF OtherCalls
  <2>2. \A a \in GrantCalls : \A b : Later(<<Manager("ReleaseSession")>>, a, b)
    BY <2>1, OtherPromises DEF Kinds
  <2>3. \A w, b : Later(<<Manager("ReleaseSession")>>, Stop(w), b)
    BY OneCall DEF Stop, Manager
  <2>4. {System("CONNECTING"), System("RECOVERING"), System("AUTHENTICATED"), ToConnected} \subseteq GrantCalls
    BY DEF GrantCalls
  <2> QED
    BY <2>1, <2>2, <2>3, <2>4 DEF Program, Promises
<1> QED
  BY <1>7, <1>8, <1>9, EmptyProgram

\* The promises of the other kinds follow from their own order.
LEMMA GrantPromises ==
  ASSUME NEW kind \in Kinds, NEW p \in Seq(OtherCalls(kind)),
         kind = "end" => \A w \in Watched : Later(p, Stop(w), Manager("ReleaseSession")),
         kind = "endAll" =>
           /\ \A w \in Watched : Later(p, Stop(w), Manager("EndSession"))
           /\ \A v \in Vehicles : Later(p, Handler("EndVehicle", v), Manager("EndSession")),
         kind = "closing" => \A w \in Watched : Later(p, Stop(w), Handler("StillActive", ""))
  PROVE  Program(kind, p)
<1>1. \A a \in GrantCalls : \A b : Later(p, a, b)
  BY OtherPromises
<1>2. {System("CONNECTING"), System("RECOVERING"), System("AUTHENTICATED"), ToConnected} \subseteq GrantCalls
  BY DEF GrantCalls
<1> QED
  BY <1>1, <1>2 DEF Program, Promises

LEMMA ClosePrograms ==
  /\ LET p == On("Deadman", "Stop") \o On("AuthWatchdog", "Stop") \o <<Handler("StillActive", "")>>
     IN  Program("closing", p) /\ Has(p, Handler("StillActive", ""))
  /\ \A c \in {Manager("ReleaseSession"), Handler("StopUnlessSafe", ""), Manager("SaveCheckpoint")} :
       Program("closing", <<c>>)
  /\ Program("closing", stopOnDisconnect) /\ Has(stopOnDisconnect, System("SAFE_MODE"))
<1> USE DEF Kinds
<1>1. /\ On("Deadman", "Stop") \in Seq(OtherCalls("closing"))
      /\ On("AuthWatchdog", "Stop") \in Seq(OtherCalls("closing"))
  <2>1. On("Deadman", "Stop") \in Seq({Stop("Deadman")})
        /\ On("AuthWatchdog", "Stop") \in Seq({Stop("AuthWatchdog")})
    BY OnProgram DEF Stop
  <2>2. {Stop("Deadman")} \subseteq OtherCalls("closing") /\ {Stop("AuthWatchdog")} \subseteq OtherCalls("closing")
    BY DEF OtherCalls
  <2> QED
    BY <2>1, <2>2, SeqWiden
<1> DEFINE q == <<Handler("StillActive", "")>>
           r == On("Deadman", "Stop") \o On("AuthWatchdog", "Stop")
<1>2. q \in Seq(OtherCalls("closing")) /\ Has(q, Handler("StillActive", ""))
      /\ \A w : ~Has(q, Stop(w))
  <2>1. q \in Seq(OtherCalls("closing"))
    BY DEF OtherCalls
  <2>2. \A w : Stop(w) # Handler("StillActive", "")
    BY DEF Stop, Handler
  <2> QED
    BY <2>1, <2>2, OneCall
<1>3. r \in Seq(OtherCalls("closing"))
  BY <1>1, Concat
<1> HIDE DEF q, r
<1>4. Program("closing", r \o q) /\ Has(r \o q, Handler("StillActive", ""))
  <2>1. r \o q \in Seq(OtherCalls("closing"))
    BY <1>2, <1>3, Concat
  <2>2. \A w : Later(r \o q, Stop(w), Handler("StillActive", ""))
    BY <1>2, <1>3, ThenCall
  <2>3. Has(r \o q, Handler("StillActive", ""))
    BY <1>2, <1>3, HasConcat
  <2> QED
    BY <2>1, <2>2, <2>3, GrantPromises
<1>5. ASSUME NEW c \in {Manager("ReleaseSession"), Handler("StopUnlessSafe", ""), Manager("SaveCheckpoint")}
      PROVE  Program("closing", <<c>>)
  <2>0. {c} \subseteq OtherCalls("closing")
    BY <1>5 DEF OtherCalls
  <2>1. <<c>> \in Seq(OtherCalls("closing"))
    BY <2>0, OneCall, SeqWiden
  <2>2. \A w : Stop(w) # c
    <3>1. /\ \A w : Stop(w)[2] = "Stop"
          /\ Manager("ReleaseSession")[2] = "ReleaseSession"
          /\ Handler("StopUnlessSafe", "")[2] = "StopUnlessSafe"
          /\ Manager("SaveCheckpoint")[2] = "SaveCheckpoint"
      BY DEF Stop, Handler, Manager
    <3>2. \/ c = Manager("ReleaseSession") \/ c = Handler("StopUnlessSafe", "")
          \/ c = Manager("SaveCheckpoint")
      BY <1>5
    <3>3. c[2] # "Stop"
      BY <3>1, <3>2
    <3> QED
      BY <3>1, <3>3
  <2>3. \A w, b : Later(<<c>>, Stop(w), b)
    BY <2>2, OneCall
  <2> QED
    BY <2>1, <2>3, GrantPromises
<1>6. Program("closing", stopOnDisconnect) /\ Has(stopOnDisconnect, System("SAFE_MODE"))
  <2> DEFINE p == <<System("SAFE_MODE"), Operator("NO_OPERATOR"), Manager("SaveCheckpoint")>>
  <2>1. p \in Seq(OtherCalls("closing")) /\ Len(p) = 3 /\ p[1] = System("SAFE_MODE")
        /\ p[2] = Operator("NO_OPERATOR") /\ p[3] = Manager("SaveCheckpoint")
    BY DEF OtherCalls
  <2>2. \A w : Stop(w) # System("SAFE_MODE") /\ Stop(w) # Operator("NO_OPERATOR")
               /\ Stop(w) # Manager("SaveCheckpoint")
    BY DEF Stop, System, Operator, Manager
  <2> HIDE DEF p
  <2>3. \A i \in 1..Len(p) : i = 1 \/ i = 2 \/ i = 3
    BY <2>1
  <2>4. \A w, b : Later(p, Stop(w), b)
    BY <2>1, <2>2, <2>3 DEF Later
  <2>5. Has(p, System("SAFE_MODE"))
    BY <2>1 DEF Has
  <2> QED
    BY <2>1, <2>4, <2>5, GrantPromises DEF p, stopOnDisconnect
<1> QED
  BY <1>4, <1>5, <1>6 DEF q, r

\* The loops over the vehicles.
LEMMA LoopProgram ==
  ASSUME NEW S, S \subseteq Vehicles, NEW vs \in Orders(S), NEW branch
  PROVE  ForEach(vs, branch) \in Seq(LoopCalls(branch))
<1>1. IsFiniteSet(S)
  BY ServerAssumption, FS_Subset
<1>2. Cardinality(S) \in Nat
  BY <1>1, FS_CardinalityType
<1>3. vs \in [1..Cardinality(S) -> S]
  BY DEF Orders
<1>4. ForEach(vs, branch) = [i \in 1..Cardinality(S) |-> Handler(branch, vs[i])]
  BY <1>3 DEF ForEach
<1>5. \A i \in 1..Cardinality(S) : Handler(branch, vs[i]) \in LoopCalls(branch)
  BY <1>3 DEF LoopCalls
<1> HIDE DEF Handler
<1> QED
  BY <1>2, <1>4, <1>5

LEMMA EndAllProgram ==
  ASSUME NEW p \in Seq(LoopCalls("EndVehicle"))
  PROVE  /\ Program("endAll", p \o <<Manager("EndSession")>>)
         /\ p \o <<Manager("EndSession")>> \in Seq(LoopCalls("EndVehicle") \cup {Manager("EndSession")})
<1> USE DEF Kinds
<1> DEFINE S == LoopCalls("EndVehicle") \cup {Manager("EndSession")}
           q == <<Manager("EndSession")>>
<1>1. p \in Seq(S) /\ q \in Seq(S)
  BY SeqWiden
<1>2. S \subseteq OtherCalls("endAll")
  BY DEF OtherCalls
<1>3. Has(q, Manager("EndSession")) /\ \A w, v : ~Has(q, Stop(w)) /\ ~Has(q, Handler("EndVehicle", v))
  <2>1. \A w, v : Manager("EndSession") # Stop(w) /\ Manager("EndSession") # Handler("EndVehicle", v)
    BY DEF Manager, Stop, Handler
  <2> QED
    BY <2>1, OneCall
<1> HIDE DEF q, S
<1>4. p \o q \in Seq(S)
  BY <1>1, Concat
<1>5. /\ \A w : Later(p \o q, Stop(w), Manager("EndSession"))
      /\ \A v : Later(p \o q, Handler("EndVehicle", v), Manager("EndSession"))
  BY <1>1, <1>3, ThenCall
<1>6. Program("endAll", p \o q)
  <2>1. p \o q \in Seq(OtherCalls("endAll"))
    BY <1>2, <1>4, SeqWiden
  <2> QED
    BY <2>1, <1>5, GrantPromises
<1> QED
  BY <1>4, <1>6 DEF q, S

\* One turn of the loop of session/end.
LEMMA EndTurn ==
  ASSUME NEW p, Program("endAll", p), Has(p, Manager("EndSession"))
  PROVE  Program("endAll", stopWatchdogs \o <<System("IDLE")>> \o p)
<1> USE DEF Kinds
<1> DEFINE S == OtherCalls("endAll")
           q == stopWatchdogs \o <<System("IDLE")>>
<1>1. p \in Seq(S)
  BY DEF Program
<1>2. q \in Seq(StopWatchdogCalls \cup {System("IDLE")})
  <2>1. stopWatchdogs \in Seq(StopWatchdogCalls \cup {System("IDLE")})
    BY StopWatchdogsProgram, SeqWiden
  <2>2. <<System("IDLE")>> \in Seq(StopWatchdogCalls \cup {System("IDLE")})
    OBVIOUS
  <2> QED
    BY <2>1, <2>2, Concat
<1>3. StopWatchdogCalls \cup {System("IDLE")} \subseteq S
  BY DEF OtherCalls
<1> HIDE DEF q
<1>4. q \in Seq(S)
  BY <1>2, <1>3, SeqWiden
<1> HIDE DEF S
<1>5. \A w \in Watched : Later(q \o p, Stop(w), Manager("EndSession"))
  BY <1>1, <1>4, LaterConcat DEF Program, Promises
<1>6. \A v \in Vehicles : Later(q \o p, Handler("EndVehicle", v), Manager("EndSession"))
  BY <1>1, <1>4, LaterConcat DEF Program, Promises
<1>7. q \o p \in Seq(S)
  BY <1>1, <1>4, Concat
<1> QED
  BY <1>5, <1>6, <1>7, GrantPromises DEF q, S

LEMMA ProgramTail ==
  ASSUME NEW kind, NEW p, Program(kind, p), p # <<>>
  PROVE  Program(kind, Tail(p)) /\ Tail(p) \in Seq({p[i] : i \in 1..Len(p)})
<1>1. PICK S : /\ p \in Seq(S)
               /\ \/ kind \in {"start", "operator"} /\ S = GrantCalls
                  \/ S = OtherCalls(kind)
  BY DEF Program
<1>2. Tail(p) \in Seq(S) /\ \A a, b : Later(p, a, b) => Later(Tail(p), a, b)
  BY <1>1, Tails
<1>3. Promises(kind, Tail(p))
  BY <1>2 DEF Program, Promises
<1>4. Tail(p) \in Seq({p[i] : i \in 1..Len(p)})
  BY <1>1
<1> QED
  BY <1>1, <1>2, <1>3, <1>4 DEF Program

-----------------------------------------------------------------------------
(* Goroutines and sessions *)

\* A session that lives on keeps its vehicle and role, and no id comes back.
LEMMA SessionsStay ==
  ASSUME SessInv, [SessNext]_sessVars
  PROVE  /\ issued \subseteq issued'
         /\ \A s \in issued : Live(s)' =>
              /\ Live(s) /\ sessions'[s].vehicle = sessions[s].vehicle
              /\ sessions'[s].role = sessions[s].role
<1> USE DEF SessInv, SessTypeOK, Live
<1>1. ASSUME NEW v \in Vehicles, NEW o \in Operators, NEW s \in SessionIds, StartSession(v, o, s)
      PROVE  /\ issued \subseteq issued'
             /\ \A u \in issued : sessions'[u] = sessions[u]
  BY <1>1 DEF StartSession
<1>2. ASSUME NEW s \in SessionIds, ReleaseSession(s)
      PROVE  /\ issued \subseteq issued'
             /\ \A u \in issued : sessions'[u] = sessions[u] \/ sessions'[u] = NoSession
  BY <1>2 DEF ReleaseSession
<1>3. ASSUME NEW v \in Vehicles, NEW o \in Operators, UpdateOperator(v, o)
      PROVE  /\ issued \subseteq issued'
             /\ \A u \in issued : \/ sessions'[u] = sessions[u]
                                  \/ Live(u) /\ sessions'[u] = [sessions[u] EXCEPT !.operator = o]
  BY <1>3 DEF UpdateOperator, ActiveOperator
<1>4. ASSUME EndSession
      PROVE  /\ issued \subseteq issued'
             /\ \A u \in issued : sessions'[u] = NoSession
  BY <1>4 DEF EndSession
<1>5. ASSUME SaveCheckpoint \/ UNCHANGED sessVars
      PROVE  issued' = issued /\ sessions' = sessions
  BY <1>5 DEF SaveCheckpoint, sessVars
<1>6. \A u \in issued : \A o : Live(u) =>
         /\ [sessions[u] EXCEPT !.operator = o].vehicle = sessions[u].vehicle
         /\ [sessions[u] EXCEPT !.operator = o].role = sessions[u].role
  BY DEF Session
<1>7. issued \subseteq issued'
  BY <1>1, <1>2, <1>3, <1>4, <1>5 DEF SessNext
<1>8. \A u \in issued : \/ sessions'[u] = sessions[u] \/ sessions'[u] = NoSession
                        \/ \E o : Live(u) /\ sessions'[u] = [sessions[u] EXCEPT !.operator = o]
  BY <1>1, <1>2, <1>3, <1>4, <1>5 DEF SessNext
<1>9. ASSUME NEW u \in issued, Live(u)'
      PROVE  /\ Live(u) /\ sessions'[u].vehicle = sessions[u].vehicle
             /\ sessions'[u].role = sessions[u].role
  <2>1. CASE sessions'[u] = sessions[u]
    BY <2>1, <1>9
  <2>2. CASE sessions'[u] = NoSession
    BY <2>2, <1>9
  <2>3. ASSUME NEW o, Live(u), sessions'[u] = [sessions[u] EXCEPT !.operator = o]
        PROVE  /\ Live(u) /\ sessions'[u].vehicle = sessions[u].vehicle
               /\ sessions'[u].role = sessions[u].role
    BY <2>3, <1>6
  <2> QED
    BY <1>8, <2>1, <2>2, <2>3
<1> QED
  BY <1>7, <1>9

\* Goes ends a goroutine or gives it the program.
LEMMA GoesIs ==
  ASSUME NEW g, NEW p
  PROVE  \/ Goes(g, p) = Free /\ p = <<>> /\ g.as \notin {"operator", "vehicle"}
         \/ /\ Goes(g, p) = [g EXCEPT !.prog = p]
            /\ p # <<>> \/ g.as \in {"operator", "vehicle"}
  BY DEF Goes

LEMMA FreeFits ==
  /\ Fits(Free) /\ Free.as = "free" /\ Free.session = NoSession /\ Free.prog = <<>>
  /\ \A t : Placed(t, Free)
  /\ Belongs(Free) /\ Belongs(Free)'
<1>1. Free.as = "free" /\ Free.session = NoSession /\ Free.prog = <<>> /\ Free.observer = FALSE
      /\ Free.operator = NoConn
  BY DEF Free
<1>2. Fits(Free)
  BY <1>1, EmptyProgram DEF Fits, Free, Kinds
<1>3. (\A t : Placed(t, Free)) /\ Belongs(Free) /\ Belongs(Free)'
  BY <1>1, SessionAssumption DEF Placed, Belongs
<1> QED
  BY <1>1, <1>2, <1>3

\* g with another program.
LEMMA WithProg ==
  ASSUME NEW g, Fits(g), NEW p
  PROVE  LET h == [g EXCEPT !.prog = p]
         IN  /\ h.as = g.as /\ h.vehicle = g.vehicle /\ h.session = g.session
             /\ h.operator = g.operator /\ h.observer = g.observer /\ h.prog = p
             /\ h = [as |-> h.as, vehicle |-> h.vehicle, session |-> h.session,
                     operator |-> h.operator, observer |-> h.observer, prog |-> h.prog]
<1>1. g = [as |-> g.as, vehicle |-> g.vehicle, session |-> g.session,
          operator |-> g.operator, observer |-> g.observer, prog |-> g.prog]
  BY DEF Fits
<1> QED
  BY <1>1

LEMMA WithTwo ==
  ASSUME NEW g, Fits(g), NEW x, NEW y
  PROVE  [g EXCEPT !.vehicle = x, !.session = y]
             = [as |-> g.as, vehicle |-> x, session |-> y,
                operator |-> g.operator, observer |-> g.observer, prog |-> g.prog]
<1>1. PICK a, v, s, o, b, p :
        /\ g = [as |-> a, vehicle |-> v, session |-> s, operator |-> o, observer |-> b, prog |-> p]
        /\ a = g.as /\ v = g.vehicle /\ s = g.session /\ o = g.operator /\ b = g.observer /\ p = g.prog
  BY DEF Fits
<1>3. [g EXCEPT !.vehicle = x, !.session = y]
        = [as |-> a, vehicle |-> x, session |-> y, operator |-> o, observer |-> b, prog |-> p]
  <2> DEFINE h == [g EXCEPT !.vehicle = x]
  <2>1. [g EXCEPT !.vehicle = x, !.session = y] = [h EXCEPT !.session = y]
    BY <1>1
  <2>2. h = [as |-> a, vehicle |-> x, session |-> s, operator |-> o, observer |-> b, prog |-> p]
    BY <1>1
  <2> HIDE DEF h
  <2> QED
    BY <2>1, <2>2
<1> QED
  BY <1>1, <1>3

LEMMA GoesFits ==
  ASSUME NEW g, Fits(g), g.as # "free", NEW p, Program(g.as, p),
         g.as = "vehicle" => p = <<>>,
         g.vehicle \in Vehicles \/ OnVehicle([g EXCEPT !.prog = p])
  PROVE  Fits(Goes(g, p))
<1> DEFINE h == [g EXCEPT !.prog = p]
<1>1. /\ h.as = g.as /\ h.vehicle = g.vehicle /\ h.session = g.session
      /\ h.operator = g.operator /\ h.observer = g.observer /\ h.prog = p
      /\ h = [as |-> h.as, vehicle |-> h.vehicle, session |-> h.session,
              operator |-> h.operator, observer |-> h.observer, prog |-> h.prog]
  BY WithProg
<1> HIDE DEF h
<1>2. OnVehicle(h)
  BY <1>1 DEF OnVehicle, h
<1>3. Fits(h)
  BY <1>1, <1>2 DEF Fits
<1> QED
  BY <1>3, FreeFits, GoesIs DEF h

LEMMA GoesStays ==
  ASSUME NEW g, Fits(g), NEW p, NEW t, Placed(t, g)
  PROVE  /\ Placed(t, Goes(g, p))
         /\ Belongs(g) => Belongs(Goes(g, p))
         /\ Belongs(g)' => Belongs(Goes(g, p))'
<1> DEFINE h == [g EXCEPT !.prog = p]
<1>1. /\ h.as = g.as /\ h.vehicle = g.vehicle /\ h.session = g.session
      /\ h.operator = g.operator /\ h.observer = g.observer /\ h.prog = p
  BY WithProg
<1> HIDE DEF h
<1>2. Placed(t, h) /\ (Belongs(g) => Belongs(h)) /\ (Belongs(g)' => Belongs(h)')
  BY <1>1 DEF Placed, Belongs
<1> QED
  BY <1>2, FreeFits, GoesIs DEF h

\* Which goroutines make which calls on their own state and on the manager.
CallTable(kind, c) ==
  /\ c = <<c[1], c[2], c[3]>>
  /\ c[1] = "handler" =>
       \/ kind = "start" /\ c[2] \in {"Connected", "StartSession"}
       \/ kind = "endAll" /\ c[2] = "EndVehicle" /\ c[3] \in Vehicles
       \/ kind = "stop" /\ c[2] = "StopVehicle" /\ c[3] \in Vehicles
       \/ kind = "operator" /\ c[2] \in {"Recover", "Forward"}
       \/ kind = "operator" /\ c[2] = "Refresh" /\ c[3] \in CommandType
       \/ kind = "closing" /\ c[2] \in {"StillActive", "StopUnlessSafe"}
       \/ kind = "lost" /\ c[2] = "Unregister"
       \/ kind = "bus" /\ c[2] = "StopActive" /\ c[3] \in Vehicles
  /\ c[1] = "sessions" =>
       \/ kind \in {"end", "closing"} /\ c[2] = "ReleaseSession"
       \/ kind \in {"stop", "closing"} /\ c[2] = "SaveCheckpoint"
       \/ kind = "endAll" /\ c[2] = "EndSession"
  /\ c[1] \notin {"handler", "sessions"} => c[1] \in Objects

LEMMA OtherCallTable ==
  ASSUME NEW kind \in Kinds, NEW c \in OtherCalls(kind)
  PROVE  CallTable(kind, c)
<1>1. ASSUME NEW n
      PROVE  /\ CallTable(kind, System(n)) /\ CallTable(kind, Operator(n))
             /\ n \in TimerWatchdogs \cup PollWatchdogs => CallTable(kind, Stop(n))
  BY DEF CallTable, Objects, TimerWatchdogs, PollWatchdogs, System, Operator, Stop
<1>2. ASSUME NEW d \in StopWatchdogCalls PROVE CallTable(kind, d)
  <2>1. \E w \in TimerWatchdogs \cup PollWatchdogs : d = Stop(w)
    BY <1>2 DEF StopWatchdogCalls, TimerWatchdogs, PollWatchdogs
  <2> QED
    BY <2>1, <1>1
<1>3. CASE kind = "start"
  <2>1. c = Handler("Connected", "") \/ c = Handler("StartSession", "")
    BY <1>3 DEF OtherCalls
  <2>2. CallTable("start", Handler("Connected", "")) /\ CallTable("start", Handler("StartSession", ""))
    BY DEF Handler, CallTable
  <2> QED
    BY <1>3, <2>1, <2>2
<1>4. CASE kind = "end"
  <2>1. c \in StopWatchdogCalls \/ c = System("IDLE") \/ c = Manager("ReleaseSession")
    BY <1>4 DEF OtherCalls
  <2>2. CallTable("end", Manager("ReleaseSession"))
    BY DEF Manager, CallTable
  <2> QED
    BY <1>1, <1>2, <1>4, <2>1, <2>2
<1>5. CASE kind = "endAll"
  <2>1. \/ c \in StopWatchdogCalls \/ c = System("IDLE") \/ c = Manager("EndSession")
        \/ \E v \in Vehicles : c = Handler("EndVehicle", v)
    BY <1>5 DEF OtherCalls, LoopCalls
  <2>2. CallTable("endAll", Manager("EndSession"))
    BY DEF Manager, CallTable
  <2>3. \A v \in Vehicles : CallTable("endAll", Handler("EndVehicle", v))
    BY DEF Handler, CallTable
  <2> QED
    BY <1>1, <1>2, <1>5, <2>1, <2>2, <2>3
<1>6. CASE kind = "stop"
  <2>1. \/ c = System("SAFE_MODE") \/ c = Manager("SaveCheckpoint")
        \/ \E v \in Vehicles : c = Handler("StopVehicle", v)
    BY <1>6 DEF OtherCalls, LoopCalls
  <2>2. CallTable("stop", Manager("SaveCheckpoint"))
    BY DEF Manager, CallTable
  <2>3. \A v \in Vehicles : CallTable("stop", Handler("StopVehicle", v))
    BY DEF Handler, CallTable
  <2> QED
    BY <1>1, <1>6, <2>1, <2>2, <2>3
<1>7. CASE kind = "operator"
  <2>1. \/ c = Handler("Recover", "") \/ c = Handler("Forward", "") \/ c = System("SAFE_MODE")
        \/ \E cmd \in CommandType : c = Handler("Refresh", cmd)
        \/ \E w \in TimerWatchdogs, m \in {"Reset", "CommandForwarded", "CommandReceived", "CommandACKed"} :
             c = <<w, m, "">>
    BY <1>7 DEF OtherCalls, TimerWatchdogs
  <2>2. CallTable("operator", Handler("Recover", "")) /\ CallTable("operator", Handler("Forward", ""))
    BY DEF Handler, CallTable
  <2>3. \A cmd \in CommandType : CallTable("operator", Handler("Refresh", cmd))
    BY DEF Handler, CallTable
  <2>4. \A w \in TimerWatchdogs : \A m : CallTable("operator", <<w, m, "">>)
    BY DEF CallTable, Objects, TimerWatchdogs
  <2> QED
    BY <1>1, <1>7, <2>1, <2>2, <2>3, <2>4
<1>8. CASE kind = "closing"
  <2>1. \/ c = Stop("Deadman") \/ c = Stop("AuthWatchdog") \/ c = System("SAFE_MODE")
        \/ c = Operator("NO_OPERATOR")
        \/ \E b \in {"StillActive", "StopUnlessSafe"} : c = Handler(b, "")
        \/ \E m \in {"SaveCheckpoint", "ReleaseSession"} : c = Manager(m)
    BY <1>8 DEF OtherCalls
  <2>2. \A b \in {"StillActive", "StopUnlessSafe"} : CallTable("closing", Handler(b, ""))
    BY DEF Handler, CallTable
  <2>3. \A m \in {"SaveCheckpoint", "ReleaseSession"} : CallTable("closing", Manager(m))
    BY DEF Manager, CallTable
  <2>4. CallTable("closing", Stop("Deadman")) /\ CallTable("closing", Stop("AuthWatchdog"))
    BY <1>1, <1>8 DEF TimerWatchdogs, PollWatchdogs
  <2> QED
    BY <1>1, <1>8, <2>1, <2>2, <2>3, <2>4
<1>9. CASE kind = "lost"
  <2>1. c = System("SAFE_MODE") \/ c = Handler("Unregister", "")
    BY <1>9 DEF OtherCalls
  <2>2. CallTable("lost", Handler("Unregister", ""))
    BY DEF Handler, CallTable
  <2> QED
    BY <1>1, <1>9, <2>1, <2>2
<1>10. CASE kind = "bus"
  <2>1. c = System("SAFE_MODE") \/ \E v \in Vehicles : c = Handler("StopActive", v)
    BY <1>10 DEF OtherCalls, LoopCalls
  <2>2. \A v \in Vehicles : CallTable("bus", Handler("StopActive", v))
    BY DEF Handler, CallTable
  <2> QED
    BY <1>1, <1>10, <2>1, <2>2
<1>11. CASE kind \in {"free", "vehicle"}
  BY <1>11 DEF OtherCalls
<1> QED
  BY <1>3, <1>4, <1>5, <1>6, <1>7, <1>8, <1>9, <1>10, <1>11 DEF Kinds

\* The next call of a goroutine.
LEMMA NextCall ==
  ASSUME NEW g, Fits(g), g.prog # <<>>
  PROVE  /\ g.as \notin {"free", "vehicle"}
         /\ Tail(g.prog) \in Seq(GrantCalls) \/ Tail(g.prog) \in Seq(OtherCalls(g.as))
         /\ Program(g.as, Tail(g.prog))
         /\ \/ g.as \in {"start", "operator"} /\ Head(g.prog) \in GrantCalls
            \/ /\ Head(g.prog) \in OtherCalls(g.as) /\ CallTable(g.as, Head(g.prog))
               /\ g.prog \in Seq(OtherCalls(g.as))
               /\ \A a \in GrantCalls : ~Has(g.prog, a)
<1>1. g.as \in Kinds \ {"free", "vehicle"} /\ Program(g.as, g.prog)
  BY DEF Fits
<1>2. Program(g.as, Tail(g.prog))
  BY <1>1, ProgramTail
<1>3. CASE g.as \in {"start", "operator"} /\ g.prog \in Seq(GrantCalls)
  BY <1>1, <1>2, <1>3, Tails
<1>4. CASE g.prog \in Seq(OtherCalls(g.as))
  <2>1. Head(g.prog) \in OtherCalls(g.as) /\ Tail(g.prog) \in Seq(OtherCalls(g.as))
    BY <1>4, Tails
  <2>2. CallTable(g.as, Head(g.prog)) /\ \A a \in GrantCalls : ~Has(g.prog, a)
    BY <1>1, <1>4, <2>1, OtherCallTable, OtherPromises
  <2> QED
    BY <1>1, <1>2, <1>4, <2>1, <2>2
<1> QED
  BY <1>1, <1>3, <1>4 DEF Program

-----------------------------------------------------------------------------
(* Steps of a handler that touch neither a vehicle nor the manager *)

\* What the goroutine f had to do is not forgotten when it goes on as g.
Carries(f, g) ==
  /\ \A a \in GrantCalls : ~Has(f.prog, a)
  /\ f.as # "end"
  /\ f.as = "endAll" /\ Has(f.prog, Manager("EndSession"))
       => g.as = "endAll" /\ Has(g.prog, Manager("EndSession"))
  /\ f.as = "operator" =>
       /\ g.session = f.session
       /\ g.as = "operator" \/ (g.as = "closing" /\ (f.observer \/ Guarded(g.prog)))
  /\ f.as = "closing" /\ Guarded(f.prog) =>
       \/ g.as = "closing" /\ g.session = f.session /\ Guarded(g.prog)
       \/ ~Live(f.session) \/ Sys(f.vehicle) = "SAFE_MODE"

\* t goes on as g.
Moves(t, g) ==
  /\ go' = [go EXCEPT ![t] = g]
  /\ Fits(g) /\ Placed(t, g) /\ Belongs(g)
  /\ Carries(go[t], g)

\* A request or a socket arrives at an idle slot.
LEMMA Arrival ==
  ASSUME GoInv, NEW t \in Threads, Idle(t), NEW kind \in Kinds \ {"free"},
         NEW v, NEW s, NEW o, NEW observer, NEW prog,
         go' = [go EXCEPT ![t] = Spawn(kind, v, s, o, observer, prog)],
         Fits(Spawn(kind, v, s, o, observer, prog)),
         Placed(t, Spawn(kind, v, s, o, observer, prog)),
         s \in SessionIds => s \in issued /\ (Live(s) => sessions[s].vehicle = v),
         kind = "start" => s = NoSession, kind \notin {"operator", "closing"}
  PROVE  \E g : Moves(t, g) /\ g.as = kind
<1> DEFINE g == Spawn(kind, v, s, o, observer, prog)
<1>1. /\ g.as = kind /\ g.vehicle = v /\ g.session = s /\ g.operator = o
      /\ g.observer = observer /\ g.prog = prog
  BY DEF Spawn
<1>2. go[t].as = "free" /\ go[t].prog = <<>>
  BY DEF Idle, GoInv, Fits
<1> HIDE DEF g
<1>3. Carries(go[t], g)
  BY <1>2, EmptyProgram DEF Carries
<1>4. Belongs(g)
  BY <1>1, SessionAssumption DEF Belongs
<1> QED
  BY <1>1, <1>3, <1>4 DEF Moves, g

LEMMA SpawnFits ==
  ASSUME NEW kind \in Kinds \ {"free"}, NEW v, NEW s \in SessionIds \cup {NoSession},
         NEW o \in Operators \cup {NoConn}, NEW observer \in BOOLEAN, NEW prog,
         Program(kind, prog), kind = "vehicle" => prog = <<>>,
         v \in Vehicles
           \/ (kind = "endAll" /\ prog \in Seq(LoopCalls("EndVehicle") \cup {Manager("EndSession")}))
           \/ (kind = "stop" /\ prog \in Seq(LoopCalls("StopVehicle")))
           \/ (kind = "bus" /\ prog \in Seq(LoopCalls("StopActive"))),
         kind \in {"end", "operator", "closing"} => s \in SessionIds,
         kind = "start" => o \in Operators,
         kind \in {"vehicle", "lost", "bus"} => s = NoSession
  PROVE  Fits(Spawn(kind, v, s, o, observer, prog))
<1> DEFINE g == Spawn(kind, v, s, o, observer, prog)
<1>1. /\ g.as = kind /\ g.vehicle = v /\ g.session = s /\ g.operator = o
      /\ g.observer = observer /\ g.prog = prog
      /\ g = [as |-> g.as, vehicle |-> g.vehicle, session |-> g.session,
              operator |-> g.operator, observer |-> g.observer, prog |-> g.prog]
  BY DEF Spawn
<1> HIDE DEF g
<1>2. OnVehicle(g)
  BY <1>1 DEF OnVehicle
<1> QED
  BY <1>1, <1>2 DEF Fits, g

\* The controller of a vehicle, if any, is an issued session of that vehicle.
LEMMA ControllerBelongs ==
  ASSUME SessInv, NEW v \in Vehicles
  PROVE  /\ vehicleController[v] \in SessionIds \cup {NoSession}
         /\ vehicleController[v] \in SessionIds =>
              /\ vehicleController[v] \in issued /\ IsVehicleLocked(v)
              /\ sessions[vehicleController[v]].vehicle = v
              /\ sessions[vehicleController[v]].role = "ACTIVE_OPERATOR"
  BY SessionAssumption DEF SessInv, SessTypeOK, LockMatchesRoles, IdsAreFresh, ActiveOperator,
     IsVehicleLocked, Live

LEMMA ActiveVehicles ==
  ASSUME SessInv
  PROVE  ActiveVehicleIDs \subseteq Vehicles
  BY DEF ActiveVehicleIDs, SessInv, SessTypeOK, Session, Live

LEMMA PostSessionStartMoves ==
  ASSUME ServerInv, NEW r \in Requests, NEW v \in Vehicles, NEW o \in Operators,
         PostSessionStart(r, v, o)
  PROVE  \E g : Moves(r, g) /\ g.as = "start"
<1> USE DEF ServerInv, Threads
<1> DEFINE p == (IF o \in ObserverAccounts THEN <<Handler("Connected", "")>> ELSE <<>>)
                  \o <<Handler("StartSession", "")>>
<1>1. p \in Seq(OtherCalls("start"))
  <2>1. /\ <<Handler("Connected", "")>> \in Seq(OtherCalls("start"))
        /\ <<Handler("StartSession", "")>> \in Seq(OtherCalls("start"))
    BY DEF OtherCalls
  <2> QED
    BY <2>1, EmptyProgram, Concat
<1> HIDE DEF p
<1>2. Program("start", p)
  BY <1>1, OtherPromises DEF Kinds
<1>3. Fits(Spawn("start", v, NoSession, o, FALSE, p))
  BY <1>2, SpawnFits DEF Kinds
<1>4. Placed(r, Spawn("start", v, NoSession, o, FALSE, p))
  BY DEF Placed, Spawn
<1>5. go' = [go EXCEPT ![r] = Spawn("start", v, NoSession, o, FALSE, p)] /\ Idle(r)
  BY DEF PostSessionStart, p
<1> QED
  BY <1>3, <1>4, <1>5, Arrival, SessionAssumption DEF Kinds

LEMMA PostSessionEndMoves ==
  ASSUME ServerInv, NEW r \in Requests, NEW s \in SessionIds, PostSessionEnd(r, s)
  PROVE  \E g : Moves(r, g) /\ g.as = "end"
<1> USE DEF ServerInv, Threads
<1> DEFINE p == IF sessions[s].role = "ACTIVE_OPERATOR"
                THEN endActiveSession ELSE <<Manager("ReleaseSession")>>
<1>1. Program("end", p)
  BY EndPrograms
<1> HIDE DEF p
<1>2. Live(s) /\ sessions[s] \in Session /\ s \in issued
  BY DEF PostSessionEnd, Live, SessInv, SessTypeOK, IdsAreFresh
<1>3. sessions[s].vehicle \in Vehicles /\ sessions[s].operator \in Operators
  BY <1>2 DEF Session
<1>4. Fits(Spawn("end", sessions[s].vehicle, s, sessions[s].operator, FALSE, p))
  BY <1>1, <1>3, SpawnFits DEF Kinds
<1>5. Placed(r, Spawn("end", sessions[s].vehicle, s, sessions[s].operator, FALSE, p))
  BY DEF Placed, Spawn
<1>6. go' = [go EXCEPT ![r] = Spawn("end", sessions[s].vehicle, s, sessions[s].operator, FALSE, p)]
      /\ Idle(r)
  BY DEF PostSessionEnd, p
<1> QED
  BY <1>2, <1>4, <1>5, <1>6, Arrival DEF Kinds

LEMMA PostSessionEndAllMoves ==
  ASSUME ServerInv, NEW r \in Requests, PostSessionEndAll(r)
  PROVE  \E g : Moves(r, g) /\ g.as = "endAll"
<1> USE DEF ServerInv, Threads
<1>1. PICK vs \in Orders(ActiveVehicleIDs) :
        go' = [go EXCEPT ![r] =
          Spawn("endAll", NoConn, NoSession, NoConn, FALSE,
                ForEach(vs, "EndVehicle") \o <<Manager("EndSession")>>)]
  BY DEF PostSessionEndAll
<1> DEFINE p == ForEach(vs, "EndVehicle") \o <<Manager("EndSession")>>
<1>2. Program("endAll", p) /\ p \in Seq(LoopCalls("EndVehicle") \cup {Manager("EndSession")})
  BY ActiveVehicles, LoopProgram, EndAllProgram
<1> HIDE DEF p
<1>3. Fits(Spawn("endAll", NoConn, NoSession, NoConn, FALSE, p))
  BY <1>2, SpawnFits DEF Kinds
<1>4. Placed(r, Spawn("endAll", NoConn, NoSession, NoConn, FALSE, p))
  BY DEF Placed, Spawn
<1>5. go' = [go EXCEPT ![r] = Spawn("endAll", NoConn, NoSession, NoConn, FALSE, p)] /\ Idle(r)
  BY <1>1 DEF PostSessionEndAll, p
<1> QED
  BY <1>3, <1>4, <1>5, Arrival, SessionAssumption DEF Kinds

LEMMA StopCallsProgram ==
  ASSUME NEW v
  PROVE  stopCalls(v) \in Seq(OtherCalls("stop")) /\ Program("stop", stopCalls(v))
<1>1. /\ <<System("SAFE_MODE")>> \in Seq(OtherCalls("stop"))
      /\ <<Manager("SaveCheckpoint")>> \in Seq(OtherCalls("stop"))
  BY DEF OtherCalls
<1>2. stopCalls(v) \in Seq(OtherCalls("stop"))
  BY <1>1, EmptyProgram, Concat DEF stopCalls
<1> QED
  BY <1>2, OtherPromises DEF Kinds

LEMMA PostEmergencyStopMoves ==
  ASSUME ServerInv, NEW r \in Requests,
         (\E v \in Vehicles : PostEmergencyStop(r, v)) \/ PostEmergencyStopAll(r)
  PROVE  \E g : Moves(r, g) /\ g.as = "stop"
<1> USE DEF ServerInv, Threads
<1>1. ASSUME NEW v \in Vehicles, PostEmergencyStop(r, v)
      PROVE  \E g : Moves(r, g) /\ g.as = "stop"
  <2>1. Fits(Spawn("stop", v, vehicleController[v], NoConn, FALSE, stopCalls(v)))
    BY StopCallsProgram, SpawnFits, ControllerBelongs DEF Kinds
  <2>2. Placed(r, Spawn("stop", v, vehicleController[v], NoConn, FALSE, stopCalls(v)))
    BY DEF Placed, Spawn
  <2>3. go' = [go EXCEPT ![r] = Spawn("stop", v, vehicleController[v], NoConn, FALSE, stopCalls(v))]
        /\ Idle(r)
    BY <1>1 DEF PostEmergencyStop
  <2> QED
    BY <2>1, <2>2, <2>3, Arrival, ControllerBelongs DEF Kinds
<1>2. ASSUME PostEmergencyStopAll(r) PROVE \E g : Moves(r, g) /\ g.as = "stop"
  <2>1. PICK vs \in Orders(ActiveVehicleIDs) :
          go' = [go EXCEPT ![r] =
            Spawn("stop", NoConn, NoSession, NoConn, FALSE, ForEach(vs, "StopVehicle"))]
    BY <1>2 DEF PostEmergencyStopAll
  <2> DEFINE p == ForEach(vs, "StopVehicle")
  <2>2. p \in Seq(LoopCalls("StopVehicle"))
    BY ActiveVehicles, LoopProgram
  <2> HIDE DEF p
  <2>3. Program("stop", p)
    <3>1. p \in Seq(OtherCalls("stop"))
      BY <2>2, SeqWiden DEF OtherCalls
    <3> QED
      BY <3>1, OtherPromises DEF Kinds
  <2>4. Fits(Spawn("stop", NoConn, NoSession, NoConn, FALSE, p))
    BY <2>2, <2>3, SpawnFits DEF Kinds
  <2>5. Placed(r, Spawn("stop", NoConn, NoSession, NoConn, FALSE, p))
    BY DEF Placed, Spawn
  <2>6. go' = [go EXCEPT ![r] = Spawn("stop", NoConn, NoSession, NoConn, FALSE, p)] /\ Idle(r)
    BY <1>2, <2>1 DEF PostEmergencyStopAll, p
  <2> QED
    BY <2>4, <2>5, <2>6, Arrival, SessionAssumption DEF Kinds
<1> QED
  BY <1>1, <1>2

LEMMA ServeVehicleWSMoves ==
  ASSUME ServerInv, NEW k \in VConns, NEW v \in Vehicles, ServeVehicleWS(k, v)
  PROVE  \E g : Moves(k, g) /\ g.as = "vehicle"
<1> USE DEF ServerInv, Threads
<1>1. Fits(Spawn("vehicle", v, NoSession, NoConn, FALSE, <<>>))
  BY EmptyProgram, SpawnFits DEF Kinds
<1>2. Placed(k, Spawn("vehicle", v, NoSession, NoConn, FALSE, <<>>))
  BY DEF Placed, Spawn
<1>3. go' = [go EXCEPT ![k] = Spawn("vehicle", v, NoSession, NoConn, FALSE, <<>>)] /\ Idle(k)
  BY DEF ServeVehicleWS
<1> QED
  BY <1>1, <1>2, <1>3, Arrival, SessionAssumption DEF Kinds

\* A handler decides how to go on.
LEMMA Continues ==
  ASSUME GoInv, NEW t \in Threads, NEW p,
         go' = [go EXCEPT ![t] = Goes(go[t], p)],
         Program(go[t].as, p), go[t].as \notin {"free", "vehicle"}, go[t].vehicle \in Vehicles,
         Carries(go[t], Goes(go[t], p))
  PROVE  Moves(t, Goes(go[t], p))
<1>1. Fits(go[t]) /\ Placed(t, go[t]) /\ Belongs(go[t])
  BY DEF GoInv
<1> QED
  BY <1>1, GoesFits, GoesStays DEF Moves

\* The goroutine that branches.
LEMMA Branches ==
  ASSUME GoInv, NEW t \in Threads, NEW b, Branching(t, b)
  PROVE  /\ go[t].prog # <<>> /\ Head(go[t].prog)[1] = "handler" /\ Head(go[t].prog)[2] = b
         /\ go[t].as \notin {"free", "vehicle"} /\ CallTable(go[t].as, Head(go[t].prog))
         /\ Program(go[t].as, Rest(t))
         /\ \A a \in GrantCalls : ~Has(go[t].prog, a)
         /\ b \notin {"EndVehicle", "StopVehicle", "StopActive"} => go[t].vehicle \in Vehicles
<1>1. Fits(go[t])
  BY DEF GoInv
<1>2. go[t].prog # <<>> /\ Head(go[t].prog)[1] = "handler" /\ Head(go[t].prog)[2] = b
  BY DEF Branching, Calls
<1>3. Head(go[t].prog) \notin GrantCalls
  BY <1>2, GrantFields
<1>4. /\ go[t].as \notin {"free", "vehicle"} /\ CallTable(go[t].as, Head(go[t].prog))
      /\ Program(go[t].as, Rest(t))
      /\ \A a \in GrantCalls : ~Has(go[t].prog, a)
  BY <1>1, <1>2, <1>3, NextCall DEF Rest
<1>5. b \notin {"EndVehicle", "StopVehicle", "StopActive"} => go[t].vehicle \in Vehicles
  BY <1>1, <1>2, <1>4 DEF Fits, OnVehicle, CallTable
<1> QED
  BY <1>2, <1>4, <1>5

LEMMA CheckConnectedMoves ==
  ASSUME GoInv, NEW t \in Threads, CheckConnected(t)
  PROVE  \E g : Moves(t, g)
<1>1. Branching(t, "Connected")
  BY DEF CheckConnected
<1>2. PICK p : go' = [go EXCEPT ![t] = Goes(go[t], p)] /\ (p = Rest(t) \/ p = <<>>)
  BY DEF CheckConnected, Decide
<1>3. go[t].as = "start"
  BY <1>1, Branches DEF CallTable
<1>4. Program(go[t].as, p)
  BY <1>1, <1>2, Branches, EmptyProgram
<1>5. Carries(go[t], Goes(go[t], p))
  BY <1>1, <1>3, Branches DEF Carries
<1>6. go[t].vehicle \in Vehicles
  BY <1>1, Branches
<1> QED
  BY <1>2, <1>3, <1>4, <1>5, <1>6, Continues

\* An operator's socket goes on reading or handling a message.
LEMMA OperatorContinues ==
  ASSUME GoInv, NEW t \in Threads, NEW p, go[t].as = "operator", go[t].vehicle \in Vehicles,
         go' = [go EXCEPT ![t] = Goes(go[t], p)],
         Program("operator", p), \A a \in GrantCalls : ~Has(go[t].prog, a)
  PROVE  \E g : Moves(t, g)
<1>1. Goes(go[t], p) = [go[t] EXCEPT !.prog = p]
  BY GoesIs
<1>2. Goes(go[t], p).as = "operator" /\ Goes(go[t], p).session = go[t].session
  BY <1>1, WithProg DEF GoInv
<1>3. Carries(go[t], Goes(go[t], p))
  BY <1>2 DEF Carries
<1> QED
  BY <1>3, Continues

LEMMA RecoverMoves ==
  ASSUME GoInv, NEW t \in Threads, Recover(t)
  PROVE  \E g : Moves(t, g)
<1>1. Branching(t, "Recover")
  BY DEF Recover
<1>2. PICK p : go' = [go EXCEPT ![t] = Goes(go[t], p)] /\ (p = recoverFromSafeMode \/ p = <<>>)
  BY DEF Recover, Decide
<1>3. go[t].as = "operator"
  BY <1>1, Branches DEF CallTable
<1>4. Program("operator", p)
  BY <1>2, RecoverProgram, EmptyProgram
<1>5. go[t].vehicle \in Vehicles /\ \A a \in GrantCalls : ~Has(go[t].prog, a)
  BY <1>1, Branches
<1> QED
  BY <1>2, <1>3, <1>4, <1>5, OperatorContinues

\* A goroutine that reads its socket has nothing else to do.
LEMMA Reads ==
  ASSUME GoInv, NEW t \in Threads, NEW kind \in {"operator", "vehicle"}, Reading(t, kind)
  PROVE  /\ go[t].as = kind /\ go[t].vehicle \in Vehicles
         /\ \A a : ~Has(go[t].prog, a)
<1>1. Fits(go[t]) /\ go[t].as = kind /\ go[t].prog = <<>>
  BY DEF GoInv, Reading
<1> QED
  BY <1>1, EmptyProgram DEF Fits, OnVehicle

LEMMA processWSMessageMoves ==
  ASSUME GoInv, NEW t \in Threads, NEW cmd \in Commands, processWSMessage(t, cmd)
  PROVE  \E g : Moves(t, g)
<1>1. Reading(t, "operator") /\ go' = [go EXCEPT ![t] = Goes(go[t], <<Handler("Refresh", cmd)>>)]
  BY DEF processWSMessage, Decide
<1>2. <<Handler("Refresh", cmd)>> \in Seq(OtherCalls("operator"))
  <2>1. Handler("Refresh", cmd) \in OtherCalls("operator")
    BY ServerAssumption DEF OtherCalls
  <2> QED
    BY <2>1
<1>3. Program("operator", <<Handler("Refresh", cmd)>>)
  BY <1>2, OtherPromises DEF Kinds
<1> QED
  BY <1>1, <1>3, Reads, OperatorContinues

LEMMA HandlePrograms ==
  ASSUME NEW cmd \in CommandType, NEW observer, NEW p \in Handle(cmd, observer)
  PROVE  p \in Seq(OtherCalls("operator"))
<1>1. /\ <<System("SAFE_MODE")>> \in Seq(OtherCalls("operator"))
      /\ <<Handler("Forward", "")>> \in Seq(OtherCalls("operator"))
      /\ <<>> \in Seq(OtherCalls("operator"))
  BY DEF OtherCalls
<1>2. On("Deadman", "Reset") \in Seq(OtherCalls("operator"))
  <2>1. On("Deadman", "Reset") \in Seq({<<"Deadman", "Reset", "">>})
    BY OnProgram
  <2>2. {<<"Deadman", "Reset", "">>} \subseteq OtherCalls("operator")
    BY DEF OtherCalls
  <2> QED
    BY <2>1, <2>2, SeqWiden
<1>3. \/ p = <<>> \/ p = On("Deadman", "Reset") \/ p = <<System("SAFE_MODE")>>
      \/ p = <<Handler("Forward", "")>>
  BY DEF Handle, CommandType
<1> QED
  BY <1>1, <1>2, <1>3

LEMMA OperatorOn ==
  ASSUME NEW m, <<"ACKTimeoutWatcher", m, "">> \in OtherCalls("operator")
  PROVE  On("ACKTimeoutWatcher", m) \in Seq(OtherCalls("operator"))
<1>1. {<<"ACKTimeoutWatcher", m, "">>} \subseteq OtherCalls("operator")
  OBVIOUS
<1>2. On("ACKTimeoutWatcher", m) \in Seq({<<"ACKTimeoutWatcher", m, "">>})
  BY OnProgram
<1> QED
  BY <1>1, <1>2, SeqWiden

LEMMA RefreshMoves ==
  ASSUME GoInv, NEW t \in Threads, Refresh(t)
  PROVE  \E g : Moves(t, g)
<1>1. Branching(t, "Refresh")
  BY DEF Refresh
<1>2. go[t].as = "operator" /\ Head(go[t].prog)[3] \in CommandType
  BY <1>1, Branches DEF CallTable
<1>3. /\ On("ACKTimeoutWatcher", "CommandACKed") \in Seq(OtherCalls("operator"))
      /\ On("ACKTimeoutWatcher", "CommandReceived") \in Seq(OtherCalls("operator"))
  BY OperatorOn DEF OtherCalls
<1>4. \E p \in Seq(OtherCalls("operator")) : go' = [go EXCEPT ![t] = Goes(go[t], p)]
  <2>1. CASE ~Live(go[t].session)
    BY <1>3, <2>1 DEF Refresh, Decide
  <2>2. CASE Live(go[t].session)
    <3>1. PICK calls \in Handle(Head(go[t].prog)[3], go[t].observer) :
            go' = [go EXCEPT ![t] = Goes(go[t],
              (IF go[t].observer THEN <<>> ELSE On("ACKTimeoutWatcher", "CommandReceived"))
              \o calls \o On("ACKTimeoutWatcher", "CommandACKed"))]
      BY <2>2 DEF Refresh, Decide
    <3>2. calls \in Seq(OtherCalls("operator"))
      BY <1>2, HandlePrograms
    <3>3. (IF go[t].observer THEN <<>> ELSE On("ACKTimeoutWatcher", "CommandReceived"))
            \in Seq(OtherCalls("operator"))
      BY <1>3, EmptyProgram
    <3>4. (IF go[t].observer THEN <<>> ELSE On("ACKTimeoutWatcher", "CommandReceived"))
            \o calls \o On("ACKTimeoutWatcher", "CommandACKed") \in Seq(OtherCalls("operator"))
      BY <1>3, <3>2, <3>3, Concat
    <3> QED
      BY <3>1, <3>4
  <2> QED
    BY <2>1, <2>2
<1>5. PICK p \in Seq(OtherCalls("operator")) : go' = [go EXCEPT ![t] = Goes(go[t], p)]
  BY <1>4
<1>6. Program("operator", p)
  BY OtherPromises DEF Kinds
<1>7. go[t].vehicle \in Vehicles /\ \A a \in GrantCalls : ~Has(go[t].prog, a)
  BY <1>1, Branches
<1> QED
  BY <1>2, <1>5, <1>6, <1>7, OperatorContinues

LEMMA ForwardMoves ==
  ASSUME GoInv, NEW t \in Threads, Forward(t)
  PROVE  \E g : Moves(t, g)
<1>1. Branching(t, "Forward")
  BY DEF Forward
<1>2. go[t].as = "operator" /\ Rest(t) \in Seq(OtherCalls("operator"))
  <2>1. go[t].as = "operator"
    BY <1>1, Branches DEF CallTable
  <2>2. Fits(go[t]) /\ go[t].prog # <<>> /\ Head(go[t].prog) \notin GrantCalls
    BY <1>1, Branches, GrantFields DEF GoInv
  <2>3. go[t].prog \in Seq(OtherCalls("operator"))
    BY <2>1, <2>2, NextCall
  <2> QED
    BY <2>1, <2>2, <2>3, Tails DEF Rest
<1>3. On("VehicleACKWatchdog", "CommandForwarded") \in Seq(OtherCalls("operator"))
  <2>1. {<<"VehicleACKWatchdog", "CommandForwarded", "">>} \subseteq OtherCalls("operator")
    BY DEF OtherCalls
  <2>2. On("VehicleACKWatchdog", "CommandForwarded") \in Seq({<<"VehicleACKWatchdog", "CommandForwarded", "">>})
    BY OnProgram
  <2> QED
    BY <2>1, <2>2, SeqWiden
<1>4. PICK sent : go' = [go EXCEPT ![t] = Goes(go[t],
                    (IF sent THEN On("VehicleACKWatchdog", "CommandForwarded") ELSE <<>>) \o Rest(t))]
  BY DEF Forward, Decide
<1> DEFINE p == (IF sent THEN On("VehicleACKWatchdog", "CommandForwarded") ELSE <<>>) \o Rest(t)
<1>5. p \in Seq(OtherCalls("operator"))
  BY <1>2, <1>3, EmptyProgram, Concat
<1> HIDE DEF p
<1>6. Program("operator", p)
  BY <1>5, OtherPromises DEF Kinds
<1>7. go' = [go EXCEPT ![t] = Goes(go[t], p)]
  BY <1>4 DEF p
<1>8. go[t].vehicle \in Vehicles /\ \A a \in GrantCalls : ~Has(go[t].prog, a)
  BY <1>1, Branches
<1> QED
  BY <1>2, <1>6, <1>7, <1>8, OperatorContinues

LEMMA DisconnectMoves ==
  ASSUME GoInv, NEW c \in Conns, Disconnect(c)
  PROVE  \E g : Moves(c, g)
<1> DEFINE f == go[c]
           p == IF f.observer THEN <<Manager("ReleaseSession")>>
                ELSE On("Deadman", "Stop") \o On("AuthWatchdog", "Stop") \o <<Handler("StillActive", "")>>
           g == Spawn("closing", f.vehicle, f.session, f.operator, f.observer, p)
<1>1. c \in Threads /\ Fits(f) /\ Belongs(f)
  BY DEF Threads, GoInv
<1>2. f.as = "operator" /\ f.vehicle \in Vehicles /\ \A a : ~Has(f.prog, a)
  BY <1>1, Reads DEF Disconnect
<1>3. Program("closing", p) /\ (f.observer \/ Has(p, Handler("StillActive", "")))
  BY ClosePrograms
<1>4. go' = [go EXCEPT ![c] = g]
  BY DEF Disconnect
<1> HIDE DEF p
<1>5. /\ g.as = "closing" /\ g.vehicle = f.vehicle /\ g.session = f.session
      /\ g.operator = f.operator /\ g.observer = f.observer /\ g.prog = p
      /\ g = [as |-> g.as, vehicle |-> g.vehicle, session |-> g.session,
              operator |-> g.operator, observer |-> g.observer, prog |-> g.prog]
  BY DEF Spawn
<1> HIDE DEF f, g
<1>6. Fits(g)
  BY <1>1, <1>2, <1>3, <1>5 DEF Fits, OnVehicle, Kinds
<1>7. Placed(c, g) /\ Belongs(g)
  BY <1>1, <1>2, <1>5 DEF Placed, Belongs
<1>8. Carries(f, g)
  BY <1>2, <1>3, <1>5 DEF Carries, Guarded
<1> QED
  BY <1>4, <1>6, <1>7, <1>8 DEF Moves, f

LEMMA StillActiveMoves ==
  ASSUME GoInv, NEW t \in Threads, StillActive(t)
  PROVE  \E g : Moves(t, g)
<1>1. Branching(t, "StillActive")
  BY DEF StillActive
<1>2. go[t].as = "closing" /\ go[t].vehicle \in Vehicles /\ \A a \in GrantCalls : ~Has(go[t].prog, a)
  BY <1>1, Branches DEF CallTable
<1>3. CASE Live(go[t].session)
  <2> DEFINE p == <<Handler("StopUnlessSafe", "")>>
  <2>1. go' = [go EXCEPT ![t] = Goes(go[t], p)]
    BY <1>3 DEF StillActive, Decide
  <2>2. Program("closing", p) /\ Has(p, Handler("StopUnlessSafe", "")) /\ p # <<>>
    BY ClosePrograms, OneCall
  <2> HIDE DEF p
  <2>3. Goes(go[t], p) = [go[t] EXCEPT !.prog = p]
    BY <2>2, GoesIs
  <2>4. /\ Goes(go[t], p).as = "closing" /\ Goes(go[t], p).session = go[t].session
        /\ Goes(go[t], p).prog = p
    BY <1>2, <2>3, WithProg DEF GoInv
  <2>5. Carries(go[t], Goes(go[t], p))
    BY <1>2, <2>2, <2>4 DEF Carries, Guarded
  <2> QED
    BY <1>2, <2>1, <2>2, <2>5, Continues
<1>4. CASE ~Live(go[t].session)
  <2>1. go' = [go EXCEPT ![t] = Goes(go[t], <<>>)]
    BY <1>4 DEF StillActive, Decide
  <2>2. Carries(go[t], Goes(go[t], <<>>))
    BY <1>2, <1>4 DEF Carries
  <2>3. Program(go[t].as, <<>>)
    BY EmptyProgram
  <2> QED
    BY <1>2, <2>1, <2>2, <2>3, Continues
<1> QED
  BY <1>3, <1>4

LEMMA StopUnlessSafeMoves ==
  ASSUME GoInv, NEW t \in Threads, StopUnlessSafe(t)
  PROVE  \E g : Moves(t, g)
<1>1. Branching(t, "StopUnlessSafe")
  BY DEF StopUnlessSafe
<1>2. go[t].as = "closing" /\ go[t].vehicle \in Vehicles /\ \A a \in GrantCalls : ~Has(go[t].prog, a)
  BY <1>1, Branches DEF CallTable
<1>3. CASE Sys(go[t].vehicle) # "SAFE_MODE"
  <2> DEFINE p == stopOnDisconnect
  <2>1. go' = [go EXCEPT ![t] = Goes(go[t], p)]
    BY <1>3 DEF StopUnlessSafe, Decide
  <2>2. Program("closing", p) /\ Has(p, System("SAFE_MODE")) /\ p # <<>>
    BY ClosePrograms, EmptyProgram
  <2> HIDE DEF p
  <2>3. Goes(go[t], p) = [go[t] EXCEPT !.prog = p]
    BY <2>2, GoesIs
  <2>4. /\ Goes(go[t], p).as = "closing" /\ Goes(go[t], p).session = go[t].session
        /\ Goes(go[t], p).prog = p
    BY <1>2, <2>3, WithProg DEF GoInv
  <2>5. Carries(go[t], Goes(go[t], p))
    BY <1>2, <2>2, <2>4 DEF Carries, Guarded
  <2> QED
    BY <1>2, <2>1, <2>2, <2>5, Continues
<1>4. CASE Sys(go[t].vehicle) = "SAFE_MODE"
  <2> DEFINE p == <<Manager("SaveCheckpoint")>>
  <2>1. go' = [go EXCEPT ![t] = Goes(go[t], p)]
    BY <1>4 DEF StopUnlessSafe, Decide
  <2>2. Carries(go[t], Goes(go[t], p))
    BY <1>2, <1>4 DEF Carries
  <2>3. Program(go[t].as, p)
    BY <1>2, ClosePrograms
  <2> QED
    BY <1>2, <2>1, <2>2, <2>3, Continues
<1> QED
  BY <1>3, <1>4

LEMMA VehicleDisconnectMoves ==
  ASSUME GoInv, NEW k \in VConns, VehicleDisconnect(k)
  PROVE  \E g : Moves(k, g)
<1> DEFINE f == go[k]
           p == (IF Sys(f.vehicle) # "SAFE_MODE" THEN <<System("SAFE_MODE")>> ELSE <<>>)
                  \o <<Handler("Unregister", "")>>
           g == Spawn("lost", f.vehicle, f.session, f.operator, f.observer, p)
<1>1. k \in Threads /\ Fits(f) /\ Belongs(f)
  BY DEF Threads, GoInv
<1>2. f.as = "vehicle" /\ f.vehicle \in Vehicles /\ \A a : ~Has(f.prog, a)
  BY <1>1, Reads DEF VehicleDisconnect
<1>3. Program("lost", p)
  <2>1. /\ <<System("SAFE_MODE")>> \in Seq(OtherCalls("lost"))
        /\ <<Handler("Unregister", "")>> \in Seq(OtherCalls("lost"))
    BY DEF OtherCalls
  <2>2. p \in Seq(OtherCalls("lost"))
    BY <2>1, EmptyProgram, Concat
  <2> QED
    BY <2>2, OtherPromises DEF Kinds
<1>4. go' = [go EXCEPT ![k] = g]
  BY DEF VehicleDisconnect
<1> HIDE DEF p
<1>5. /\ g.as = "lost" /\ g.vehicle = f.vehicle /\ g.session = f.session
      /\ g.operator = f.operator /\ g.observer = f.observer /\ g.prog = p
      /\ g = [as |-> g.as, vehicle |-> g.vehicle, session |-> g.session,
              operator |-> g.operator, observer |-> g.observer, prog |-> g.prog]
  BY DEF Spawn
<1> HIDE DEF f, g
<1>6. Fits(g)
  BY <1>1, <1>2, <1>3, <1>5 DEF Fits, OnVehicle, Kinds
<1>7. Placed(k, g) /\ Belongs(g)
  BY <1>1, <1>2, <1>5 DEF Placed, Belongs
<1>8. Carries(f, g)
  BY <1>2 DEF Carries
<1> QED
  BY <1>4, <1>6, <1>7, <1>8 DEF Moves, f

LEMMA UnregisterMoves ==
  ASSUME GoInv, NEW t \in Threads, Unregister(t)
  PROVE  \E g : Moves(t, g)
<1>1. Branching(t, "Unregister") /\ go' = [go EXCEPT ![t] = Goes(go[t], Rest(t))]
  BY DEF Unregister
<1>2. /\ go[t].as = "lost" /\ go[t].vehicle \in Vehicles /\ Program(go[t].as, Rest(t))
      /\ \A a \in GrantCalls : ~Has(go[t].prog, a)
  BY <1>1, Branches DEF CallTable
<1>3. Carries(go[t], Goes(go[t], Rest(t)))
  BY <1>2 DEF Carries
<1> QED
  BY <1>1, <1>2, <1>3, Continues

\* One turn of a loop over the vehicles, for another vehicle and session.
LEMMA Turn ==
  ASSUME GoInv, NEW t \in Threads, go[t].as \in {"endAll", "stop", "bus"}, NEW h, NEW p,
         h = [as |-> go[t].as, vehicle |-> h.vehicle, session |-> h.session,
              operator |-> go[t].operator, observer |-> go[t].observer, prog |-> go[t].prog],
         h.vehicle \in Vehicles, h.session \in SessionIds \cup {NoSession},
         h.session \in SessionIds =>
           h.session \in issued /\ (Live(h.session) => sessions[h.session].vehicle = h.vehicle),
         go[t].as = "bus" => h.session = NoSession,
         Program(go[t].as, p), go[t].as = "endAll" => Has(p, Manager("EndSession")),
         \A a \in GrantCalls : ~Has(go[t].prog, a),
         go' = [go EXCEPT ![t] = Goes(h, p)]
  PROVE  \E g : Moves(t, g)
<1>1. Fits(go[t]) /\ Placed(t, go[t])
  BY DEF GoInv
<1>2. /\ h.as = go[t].as /\ h.operator = go[t].operator /\ h.observer = go[t].observer
      /\ h.prog = go[t].prog
      /\ h = [as |-> h.as, vehicle |-> h.vehicle, session |-> h.session,
              operator |-> h.operator, observer |-> h.observer, prog |-> h.prog]
  OBVIOUS
<1>3. Fits(h)
  BY <1>1, <1>2 DEF Fits, OnVehicle
<1>4. Placed(t, h) /\ Belongs(h)
  BY <1>1, <1>2 DEF Placed, Belongs
<1>5. Fits(Goes(h, p)) /\ Placed(t, Goes(h, p)) /\ Belongs(Goes(h, p))
  BY <1>2, <1>3, <1>4, GoesFits, GoesStays
<1>6. go[t].as = "endAll" => Goes(h, p).as = "endAll" /\ Has(Goes(h, p).prog, Manager("EndSession"))
  <2> SUFFICES ASSUME go[t].as = "endAll"
               PROVE  Goes(h, p).as = "endAll" /\ Has(Goes(h, p).prog, Manager("EndSession"))
    OBVIOUS
  <2>1. Goes(h, p) = [h EXCEPT !.prog = p]
    BY GoesIs, EmptyProgram
  <2> QED
    BY <1>2, <1>3, <2>1, WithProg
<1>7. Carries(go[t], Goes(h, p))
  BY <1>6 DEF Carries
<1> QED
  BY <1>5, <1>7 DEF Moves

LEMMA EndVehicleMoves ==
  ASSUME SessInv, GoInv, NEW t \in Threads, EndVehicle(t)
  PROVE  \E g : Moves(t, g)
<1>1. Branching(t, "EndVehicle")
  BY DEF EndVehicle
<1>2. PICK v : v = Head(go[t].prog)[3]
  OBVIOUS
<1>3. /\ go[t].as = "endAll" /\ v \in Vehicles /\ Program(go[t].as, Rest(t))
      /\ Head(go[t].prog) = Handler("EndVehicle", v) /\ go[t].prog # <<>>
      /\ \A a \in GrantCalls : ~Has(go[t].prog, a)
  BY <1>1, <1>2, Branches DEF CallTable, Handler
<1>4. Has(Rest(t), Manager("EndSession"))
  <2>1. Fits(go[t]) /\ Program("endAll", go[t].prog)
    BY <1>3 DEF GoInv, Fits
  <2>2. Later(go[t].prog, Head(go[t].prog), Manager("EndSession"))
    BY <1>3, <2>1 DEF Program, Promises
  <2>3. go[t].prog \in Seq(OtherCalls("endAll"))
    BY <2>1 DEF Program
  <2> QED
    BY <1>3, <2>2, <2>3, Tails DEF Rest
<1> DEFINE h == [go[t] EXCEPT !.vehicle = v, !.session = vehicleController[v]]
           p == (IF IsVehicleLocked(v) THEN stopWatchdogs \o <<System("IDLE")>> ELSE <<>>) \o Rest(t)
<1>5. go' = [go EXCEPT ![t] = Goes(h, p)]
  BY <1>2 DEF EndVehicle
<1>6. /\ h = [as |-> go[t].as, vehicle |-> h.vehicle, session |-> h.session,
              operator |-> go[t].operator, observer |-> go[t].observer, prog |-> go[t].prog]
      /\ h.vehicle = v /\ h.session = vehicleController[v]
  <2>1. h = [as |-> go[t].as, vehicle |-> v, session |-> vehicleController[v],
             operator |-> go[t].operator, observer |-> go[t].observer, prog |-> go[t].prog]
    BY WithTwo DEF GoInv
  <2> HIDE DEF h
  <2> QED
    BY <2>1
<1>7. Program("endAll", p) /\ Has(p, Manager("EndSession"))
  <2>1. Rest(t) \in Seq(OtherCalls("endAll"))
    BY <1>3 DEF Program
  <2>2. CASE IsVehicleLocked(v)
    <3>1. Program("endAll", stopWatchdogs \o <<System("IDLE")>> \o Rest(t))
      BY <1>3, <1>4, EndTurn
    <3>2. stopWatchdogs \o <<System("IDLE")>> \in Seq(OtherCalls("endAll"))
      <4>1. stopWatchdogs \in Seq(OtherCalls("endAll"))
        BY StopWatchdogsProgram, SeqWiden DEF OtherCalls
      <4>2. <<System("IDLE")>> \in Seq(OtherCalls("endAll"))
        BY DEF OtherCalls
      <4> QED
        BY <4>1, <4>2, Concat
    <3>3. Has(stopWatchdogs \o <<System("IDLE")>> \o Rest(t), Manager("EndSession"))
      BY <1>4, <2>1, <3>2, HasConcat
    <3> QED
      BY <2>2, <3>1, <3>3
  <2>3. CASE ~IsVehicleLocked(v)
    <3>1. p = Rest(t)
      BY <2>1, <2>3
    <3> QED
      BY <1>3, <1>4, <3>1
  <2> QED
    BY <2>2, <2>3
<1> HIDE DEF h, p
<1>8. /\ h.session \in SessionIds \cup {NoSession}
      /\ h.session \in SessionIds =>
           h.session \in issued /\ (Live(h.session) => sessions[h.session].vehicle = h.vehicle)
  BY <1>3, <1>6, ControllerBelongs
<1> QED
  BY <1>3, <1>5, <1>6, <1>7, <1>8, Turn

LEMMA StopVehicleMoves ==
  ASSUME SessInv, GoInv, NEW t \in Threads, StopVehicle(t)
  PROVE  \E g : Moves(t, g)
<1>1. Branching(t, "StopVehicle")
  BY DEF StopVehicle
<1>2. PICK v : v = Head(go[t].prog)[3]
  OBVIOUS
<1>3. /\ go[t].as = "stop" /\ v \in Vehicles /\ Program(go[t].as, Rest(t))
      /\ \A a \in GrantCalls : ~Has(go[t].prog, a)
  BY <1>1, <1>2, Branches DEF CallTable
<1> DEFINE h == [go[t] EXCEPT !.vehicle = v, !.session = vehicleController[v]]
           p == stopCalls(v) \o Rest(t)
<1>5. go' = [go EXCEPT ![t] = Goes(h, p)]
  BY <1>2 DEF StopVehicle
<1>6. /\ h = [as |-> go[t].as, vehicle |-> h.vehicle, session |-> h.session,
              operator |-> go[t].operator, observer |-> go[t].observer, prog |-> go[t].prog]
      /\ h.vehicle = v /\ h.session = vehicleController[v]
  <2>1. h = [as |-> go[t].as, vehicle |-> v, session |-> vehicleController[v],
             operator |-> go[t].operator, observer |-> go[t].observer, prog |-> go[t].prog]
    BY WithTwo DEF GoInv
  <2> HIDE DEF h
  <2> QED
    BY <2>1
<1>7. Program("stop", p)
  <2>1. Rest(t) \in Seq(OtherCalls("stop"))
    BY <1>3 DEF Program
  <2>2. p \in Seq(OtherCalls("stop"))
    BY <2>1, StopCallsProgram, Concat
  <2> QED
    BY <2>2, OtherPromises DEF Kinds
<1> HIDE DEF h, p
<1>8. /\ h.session \in SessionIds \cup {NoSession}
      /\ h.session \in SessionIds =>
           h.session \in issued /\ (Live(h.session) => sessions[h.session].vehicle = h.vehicle)
  BY <1>3, <1>6, ControllerBelongs
<1> QED
  BY <1>3, <1>5, <1>6, <1>7, <1>8, Turn

LEMMA StopActiveMoves ==
  ASSUME GoInv, StopActive
  PROVE  \E g : Moves(Bus, g)
<1>0. Bus \in Threads
  BY DEF Threads
<1>1. Branching(Bus, "StopActive")
  BY DEF StopActive
<1>2. PICK v : v = Head(go[Bus].prog)[3]
  OBVIOUS
<1>3. /\ go[Bus].as = "bus" /\ v \in Vehicles /\ Program(go[Bus].as, Rest(Bus))
      /\ \A a \in GrantCalls : ~Has(go[Bus].prog, a)
  BY <1>0, <1>1, <1>2, Branches DEF CallTable
<1> DEFINE h == [go[Bus] EXCEPT !.vehicle = v]
           p == (IF Sys(v) = "SAFE_MODE" THEN <<>> ELSE <<System("SAFE_MODE")>>) \o Rest(Bus)
<1>5. go' = [go EXCEPT ![Bus] = Goes(h, p)]
  BY <1>2 DEF StopActive
<1>6. /\ h = [as |-> go[Bus].as, vehicle |-> h.vehicle, session |-> h.session,
              operator |-> go[Bus].operator, observer |-> go[Bus].observer, prog |-> go[Bus].prog]
      /\ h.vehicle = v /\ h.session = NoSession
  BY <1>0, <1>3 DEF GoInv, Fits
<1>7. Program("bus", p)
  <2>1. Rest(Bus) \in Seq(OtherCalls("bus")) /\ <<System("SAFE_MODE")>> \in Seq(OtherCalls("bus"))
    BY <1>3 DEF Program, OtherCalls
  <2>2. p \in Seq(OtherCalls("bus"))
    BY <2>1, EmptyProgram, Concat
  <2> QED
    BY <2>2, OtherPromises DEF Kinds
<1> HIDE DEF h, p
<1> QED
  BY <1>0, <1>3, <1>5, <1>6, <1>7, Turn, SessionAssumption

LEMMA PingBusMoves ==
  ASSUME SessInv, GoInv, PingBus, go' # go
  PROVE  \E g : Moves(Bus, g)
<1>0. Bus \in Threads
  BY DEF Threads
<1>1. PICK vs \in Orders(ActiveVehicleIDs) :
        go' = [go EXCEPT ![Bus] =
                 Goes(Spawn("bus", NoConn, NoSession, NoConn, FALSE, <<>>), ForEach(vs, "StopActive"))]
  BY DEF PingBus
<1> DEFINE h == Spawn("bus", NoConn, NoSession, NoConn, FALSE, <<>>)
           p == ForEach(vs, "StopActive")
<1>2. p \in Seq(LoopCalls("StopActive"))
  BY ActiveVehicles, LoopProgram
<1> HIDE DEF p
<1>3. Program("bus", p)
  <2>1. p \in Seq(OtherCalls("bus"))
    BY <1>2, SeqWiden DEF OtherCalls
  <2> QED
    BY <2>1, OtherPromises DEF Kinds
<1>4. Fits(h)
  BY EmptyProgram, SpawnFits DEF Kinds
<1>5. h.as = "bus" /\ h.session = NoSession
  BY DEF Spawn
<1> HIDE DEF h
<1>6. Placed(Bus, h) /\ Belongs(h)
  BY <1>5, SessionAssumption DEF Placed, Belongs
<1>7. OnVehicle([h EXCEPT !.prog = p])
  BY <1>2, <1>4, <1>5, WithProg DEF OnVehicle
<1>8. Fits(Goes(h, p)) /\ Placed(Bus, Goes(h, p)) /\ Belongs(Goes(h, p))
  BY <1>3, <1>4, <1>5, <1>6, <1>7, GoesFits, GoesStays
<1>9. go[Bus].as = "free" /\ go[Bus].prog = <<>>
  BY <1>0 DEF PingBus, Idle, GoInv, Fits
<1>10. Carries(go[Bus], Goes(h, p))
  BY <1>9, EmptyProgram DEF Carries
<1> QED
  BY <1>1, <1>8, <1>10 DEF Moves, h, p

-----------------------------------------------------------------------------
(* The goroutines in every step *)

\* One goroutine goes on as g and the others keep their sessions.
LEMMA OneGoes ==
  ASSUME GoInv, NEW t \in Threads, NEW g, go' = [go EXCEPT ![t] = g],
         Fits(g), Placed(t, g), Belongs(g)',
         \A u \in Threads : \A f : u # t /\ f = go[u] => Belongs(f)'
  PROVE  GoInv'
<1>1. DOMAIN go' = Threads /\ go'[t] = g /\ \A u \in Threads : u # t => go'[u] = go[u]
  BY DEF GoInv
<1>2. ASSUME NEW u \in Threads PROVE (Fits(go[u]) /\ Placed(u, go[u]) /\ Belongs(go[u]))'
  <2>1. PICK f : f = go'[u]
    OBVIOUS
  <2>2. Fits(f) /\ Placed(u, f) /\ Belongs(f)'
    BY <1>1, <2>1 DEF GoInv
  <2> QED
    BY <2>1, <2>2 DEF Fits, Placed, Belongs, OnVehicle
<1> QED
  BY <1>1, <1>2 DEF GoInv

\* No call of the server gives a session to another operator.
OperatorsStay ==
  \A s \in issued : Live(s)' => sessions'[s].operator = sessions[s].operator

\* What a session is to its goroutines only depends on the manager.
LEMMA BelongsStays ==
  ASSUME SessInv, [SessNext]_sessVars, OperatorsStay, NEW f, Fits(f), Belongs(f)
  PROVE  Belongs(f)'
<1>1. issued \subseteq issued' /\ issued \subseteq SessionIds
  BY SessionsStay DEF SessInv, SessTypeOK
<1>2. CASE f.session \in SessionIds
  <2>1. f.session \in issued /\ f.session \in issued'
    BY <1>1, <1>2 DEF Belongs
  <2>2. Live(f.session)' => /\ Live(f.session)
                            /\ sessions'[f.session].vehicle = sessions[f.session].vehicle
                            /\ sessions'[f.session].role = sessions[f.session].role
                            /\ sessions'[f.session].operator = sessions[f.session].operator
    BY <2>1, SessionsStay DEF OperatorsStay
  <2> QED
    BY <2>1, <2>2, <1>2 DEF Belongs
<1>3. CASE f.session \notin SessionIds
  BY <1>3 DEF Belongs, Fits
<1> QED
  BY <1>2, <1>3

LEMMA MovesGoInv ==
  ASSUME GoInv, NEW t \in Threads, NEW g, Moves(t, g), UNCHANGED sessVars
  PROVE  GoInv'
<1>1. \A f : Belongs(f) => Belongs(f)'
  BY DEF Belongs, Live, sessVars
<1> QED
  BY <1>1, OneGoes DEF Moves, GoInv

\* A goroutine that has made its next call.
LEMMA Proceeds ==
  ASSUME NEW f, Fits(f), f.prog # <<>>
  PROVE  /\ Fits(Goes(f, Tail(f.prog)))
         /\ \A t : Placed(t, f) => Placed(t, Goes(f, Tail(f.prog)))
         /\ Belongs(f) => Belongs(Goes(f, Tail(f.prog)))
         /\ Belongs(f)' => Belongs(Goes(f, Tail(f.prog)))'
<1> DEFINE p == Tail(f.prog)
<1>1. f.as \notin {"free", "vehicle"} /\ Program(f.as, p)
  BY NextCall
<1>2. OnVehicle([f EXCEPT !.prog = p])
  <2> DEFINE h == [f EXCEPT !.prog = p]
  <2>1. h.as = f.as /\ h.vehicle = f.vehicle /\ h.prog = p
    BY WithProg
  <2>2. \A S : f.prog \in Seq(S) => p \in Seq(S)
    BY Tails
  <2>3. OnVehicle(f)
    BY <1>1 DEF Fits
  <2> HIDE DEF h, p
  <2> QED
    BY <2>1, <2>2, <2>3 DEF OnVehicle, h
<1> HIDE DEF p
<1>3. Fits(Goes(f, p))
  BY <1>1, <1>2, GoesFits
<1>4. \A t : Placed(t, f) => Placed(t, Goes(f, p))
  BY GoesStays
<1>5. /\ Belongs(f) => Belongs(Goes(f, p))
      /\ Belongs(f)' => Belongs(Goes(f, p))'
  <2> DEFINE h == [f EXCEPT !.prog = p]
  <2>1. h.as = f.as /\ h.vehicle = f.vehicle /\ h.session = f.session /\ h.observer = f.observer
        /\ h.operator = f.operator
    BY WithProg
  <2> HIDE DEF h
  <2>2. (Belongs(f) => Belongs(h)) /\ (Belongs(f)' => Belongs(h)')
    BY <2>1 DEF Belongs
  <2> QED
    BY <2>2, FreeFits, GoesIs DEF h
<1> QED
  BY <1>3, <1>4, <1>5 DEF p

\* A call on a shared object.
LEMMA CallGoInv ==
  ASSUME SessInv, GoInv, [SessNext]_sessVars, OperatorsStay, NEW t \in Threads,
         go[t].prog # <<>>, go' = [go EXCEPT ![t] = Goes(go[t], Rest(t))]
  PROVE  GoInv'
<1>1. \A u \in Threads : Fits(go[u]) /\ Placed(u, go[u]) /\ Belongs(go[u])
  BY DEF GoInv
<1>2. ASSUME NEW u \in Threads, NEW f, f = go[u] PROVE Belongs(f)'
  <2>1. Fits(f) /\ Belongs(f)
    BY <1>1, <1>2
  <2> QED
    BY <2>1, BelongsStays
<1>3. PICK f : f = go[t]
  OBVIOUS
<1>4. Belongs(f)' /\ Fits(f) /\ Placed(t, f) /\ f.prog # <<>>
  BY <1>1, <1>2, <1>3
<1>5. PICK g : g = Goes(f, Tail(f.prog))
  OBVIOUS
<1>6. Fits(g) /\ Placed(t, g) /\ Belongs(g)'
  BY <1>4, <1>5, Proceeds
<1>7. go' = [go EXCEPT ![t] = g]
  BY <1>3, <1>5 DEF Rest
<1> QED
  BY <1>2, <1>6, <1>7, OneGoes

\* The manager is called with what it knows: a session to release, a vehicle
\* and an operator to start one for.
LEMMA SessionCallUses ==
  ASSUME GoInv, NEW t \in Threads, SessionCall(t)
  PROVE  /\ SessNext /\ (SessInv => OperatorsStay)
         /\ go[t].prog # <<>> /\ Head(go[t].prog)[1] = "sessions"
         /\ \/ /\ go[t].as \in {"end", "closing"} /\ go[t].session \in SessionIds
               /\ ReleaseSession(go[t].session)
            \/ go[t].as \in {"stop", "closing"} /\ SaveCheckpoint
            \/ go[t].as = "endAll" /\ EndSession
<1>1. Fits(go[t]) /\ go[t].prog # <<>> /\ Head(go[t].prog)[1] = "sessions"
  BY DEF GoInv, SessionCall, Calls
<1>2. CallTable(go[t].as, Head(go[t].prog))
  BY <1>1, NextCall, GrantFields
<1>3. \/ /\ go[t].as \in {"end", "closing"} /\ go[t].session \in SessionIds
         /\ ReleaseSession(go[t].session)
      \/ go[t].as \in {"stop", "closing"} /\ SaveCheckpoint
      \/ go[t].as = "endAll" /\ EndSession
  BY <1>1, <1>2 DEF SessionCall, CallTable, Fits
<1>4. ASSUME SessInv PROVE OperatorsStay
  <2>1. \A s \in issued : sessions'[s] = sessions[s] \/ sessions'[s] = NoSession
    BY <1>3, <1>4 DEF ReleaseSession, SaveCheckpoint, EndSession, SessInv, SessTypeOK
  <2> QED
    BY <2>1 DEF OperatorsStay, Live
<1> QED
  BY <1>1, <1>3, <1>4 DEF SessNext

LEMMA StartSessionUses ==
  ASSUME GoInv, NEW t \in Threads, HandleStartSession(t)
  PROVE  /\ go[t].as = "start" /\ go[t].vehicle \in Vehicles /\ go[t].operator \in Operators
         /\ \A a \in GrantCalls : ~Has(go[t].prog, a)
         /\ SessNext /\ (SessInv => OperatorsStay)
<1>1. Branching(t, "StartSession") /\ Fits(go[t])
  BY DEF HandleStartSession, GoInv
<1>2. /\ go[t].as = "start" /\ go[t].vehicle \in Vehicles
      /\ \A a \in GrantCalls : ~Has(go[t].prog, a)
  BY <1>1, Branches DEF CallTable
<1>3. go[t].operator \in Operators
  BY <1>1, <1>2 DEF Fits
<1>4. ASSUME SessInv PROVE OperatorsStay
  BY <1>4 DEF HandleStartSession, StartSession, OperatorsStay, SessInv, SessTypeOK
<1> QED
  BY <1>2, <1>3, <1>4 DEF HandleStartSession, SessNext

\* A socket opens for a live session.
LEMMA ServeWSGo ==
  ASSUME ServerInv, NEW c \in Conns, NEW s \in SessionIds, ServeWS(c, s)
  PROVE  /\ GoInv'
         /\ go[c].as = "free" /\ go[c].prog = <<>>
         /\ go'[c].as = "operator" /\ go'[c].session = s
         /\ \A u \in Threads : u # c => go'[u] = go[u]
<1> USE DEF ServerInv
<1> DEFINE observer == sessions[s].role = "OBSERVER"
           p == IF observer THEN <<>> ELSE <<Handler("Recover", "")>>
           g == Spawn("operator", sessions[s].vehicle, s, sessions[s].operator, observer, p)
<1>1. c \in Threads /\ DOMAIN go = Threads
  BY DEF Threads, GoInv
<1>2. go' = [go EXCEPT ![c] = g] /\ attached' = attached \cup {s} /\ UNCHANGED sessVars
      /\ Live(s) /\ Idle(c)
  BY DEF ServeWS
<1>3. sessions[s] \in Session /\ s \in issued
  BY <1>2 DEF Live, SessInv, SessTypeOK, IdsAreFresh
<1>4. sessions[s].vehicle \in Vehicles /\ sessions[s].operator \in Operators
  BY <1>3 DEF Session
<1>5. Program("operator", p)
  <2>1. <<Handler("Recover", "")>> \in Seq(OtherCalls("operator"))
    BY DEF OtherCalls
  <2>2. p \in Seq(OtherCalls("operator"))
    BY <2>1, EmptyProgram
  <2> QED
    BY <2>2, OtherPromises DEF Kinds
<1>6. observer \in BOOLEAN
  OBVIOUS
<1> HIDE DEF p
<1>7. /\ g.as = "operator" /\ g.vehicle = sessions[s].vehicle /\ g.session = s
      /\ g.operator = sessions[s].operator /\ (g.observer <=> observer) /\ g.prog = p
  BY DEF Spawn
<1>8. Fits(g)
  BY <1>4, <1>5, <1>6, SpawnFits DEF Kinds
<1>9. PICK h : h = g
  OBVIOUS
<1> HIDE DEF g
<1>10. Placed(c, h) /\ Belongs(h)'
  BY <1>2, <1>3, <1>7, <1>9 DEF Placed, Belongs, Live, sessVars
<1>11. ASSUME NEW u \in Threads, NEW f, f = go[u] PROVE Belongs(f)'
  <2>1. Belongs(f)
    BY <1>11 DEF GoInv
  <2> QED
    BY <1>2, <2>1 DEF Belongs, Live, sessVars
<1>12. GoInv'
  BY <1>1, <1>2, <1>8, <1>9, <1>10, <1>11, OneGoes
<1>13. go[c].as = "free" /\ go[c].prog = <<>>
  BY <1>1, <1>2 DEF Idle, GoInv, Fits
<1> QED
  BY <1>1, <1>2, <1>7, <1>12, <1>13

\* The new session of a start belongs to it.
LEMMA StartSessionGo ==
  ASSUME ServerInv, NEW t \in Threads, NEW s \in SessionIds,
         HandleStartSession(t),
         StartSession(go[t].vehicle, go[t].operator, s),
         go' = [go EXCEPT ![t] =
           Goes([go[t] EXCEPT !.session = s],
                IF sessions'[s].role = "ACTIVE_OPERATOR"
                THEN advanceVehicleToActiveOperator ELSE <<>>)]
  PROVE  /\ GoInv'
         /\ \A u \in Threads : u # t => go'[u] = go[u]
         /\ vehicleController'[go[t].vehicle] = s =>
              /\ go'[t].vehicle = go[t].vehicle
              /\ go'[t].prog = advanceVehicleToActiveOperator
<1> USE DEF ServerInv
<1> DEFINE p == IF sessions'[s].role = "ACTIVE_OPERATOR"
                THEN advanceVehicleToActiveOperator ELSE <<>>
<1>1. /\ go[t].as = "start" /\ go[t].vehicle \in Vehicles /\ go[t].operator \in Operators
      /\ SessNext /\ OperatorsStay
  BY StartSessionUses
<1>2. DOMAIN go = Threads /\ Fits(go[t]) /\ Placed(t, go[t])
  BY DEF GoInv
<1>3. PICK h : h = [go[t] EXCEPT !.session = s]
  OBVIOUS
<1>4. /\ h = [as |-> h.as, vehicle |-> h.vehicle, session |-> h.session,
              operator |-> h.operator, observer |-> h.observer, prog |-> h.prog]
      /\ h.as = go[t].as /\ h.vehicle = go[t].vehicle /\ h.session = s
      /\ h.operator = go[t].operator /\ h.observer = go[t].observer /\ h.prog = go[t].prog
  BY <1>2, <1>3 DEF Fits
<1>5. Fits(h) /\ Placed(t, h)
  BY <1>1, <1>2, <1>4 DEF Fits, Placed, OnVehicle
<1>6. PICK g : g = Goes(h, p)
  OBVIOUS
<1>7. Program("start", p)
  BY AdvanceProgram, EmptyProgram
<1>8. Fits(g) /\ Placed(t, g)
  BY <1>1, <1>4, <1>5, <1>6, <1>7, GoesFits, GoesStays
<1>9. s \in issued' /\ s \notin issued /\ sessions'[s].vehicle = go[t].vehicle
      /\ sessions'[s].operator = go[t].operator
  BY <1>1 DEF StartSession, SessInv, SessTypeOK
<1>10. Belongs(h)'
  BY <1>1, <1>4, <1>9 DEF Belongs
<1>11. Belongs(g)'
  BY <1>5, <1>6, <1>10, GoesStays
<1>12. ASSUME NEW u \in Threads, NEW f, f = go[u] PROVE Belongs(f)'
  <2>1. Belongs(f) /\ Fits(f)
    BY <1>12 DEF GoInv
  <2> QED
    BY <1>1, <2>1, BelongsStays
<1>13. go' = [go EXCEPT ![t] = g]
  BY <1>3, <1>6
<1>14. GoInv'
  BY <1>8, <1>11, <1>12, <1>13, OneGoes
<1>15. ASSUME vehicleController'[go[t].vehicle] = s
       PROVE  go'[t].vehicle = go[t].vehicle /\ go'[t].prog = advanceVehicleToActiveOperator
  <2>1. vehicleController[go[t].vehicle] # s
    BY <1>1, <1>9, ControllerBelongs
  <2>2. sessions'[s].role = "ACTIVE_OPERATOR"
    BY <1>15, <2>1 DEF StartSession, SessInv, SessTypeOK
  <2>3. p = advanceVehicleToActiveOperator /\ p # <<>>
    BY <2>2, AdvanceProgram
  <2>4. g = [h EXCEPT !.prog = p]
    BY <1>6, <2>3, GoesIs
  <2>5. g.vehicle = go[t].vehicle /\ g.prog = p
    BY <1>4, <1>5, <2>4, WithProg
  <2> QED
    BY <1>2, <1>13, <2>3, <2>5
<1> QED
  BY <1>2, <1>13, <1>14, <1>15

-----------------------------------------------------------------------------
(* The objects *)

\* A validated transition to next, or nothing.
LEMMA SystemCall ==
  ASSUME NEW m \in MachineType, NEW next \in SystemState
  PROVE  LET n == TransitionSystem(m, next)
         IN  /\ n \in MachineType
             /\ isValidTransition(m.System, next) => n.System = next
             /\ ~isValidTransition(m.System, next) => n = m
             /\ next # "IDLE" => n.Operator = m.Operator
<1> DEFINE n == TransitionSystem(m, next)
           control == ControlAfter(m.Control, next)
           operator == IF next = "IDLE" THEN "NO_OPERATOR" ELSE m.Operator
           reasons == IF next = "SAFE_MODE" THEN {} ELSE m.degradedReasons
<1>1. control \in ControlState
  BY DEF MachineType, ControlAfter, ControlState
<1>2. operator \in OperatorState /\ reasons \in SUBSET DegradedReason
  BY DEF MachineType, OperatorState
<1>3. CASE ~isValidTransition(m.System, next)
  BY <1>3 DEF TransitionSystem, transitionSystemLocked
<1>4. CASE isValidTransition(m.System, next)
  <2>1. n = [m EXCEPT !.System = next, !.Control = control, !.Operator = operator,
                      !.degradedReasons = reasons]
    BY <1>4 DEF TransitionSystem, transitionSystemLocked
  <2> HIDE DEF n, control, operator, reasons
  <2>2. n \in MachineType /\ n.System = next /\ n.Operator = operator
    BY <1>1, <1>2, <2>1 DEF MachineType
  <2> QED
    BY <1>4, <2>2 DEF n, operator
<1> QED
  BY <1>3, <1>4

LEMMA ToConnectedCall ==
  ASSUME NEW m \in MachineType
  PROVE  LET n == TransitionToConnected(m)
         IN  /\ n \in MachineType /\ n.Operator = m.Operator
             /\ m.System = "AUTHENTICATED" => n.System = "CONNECTED"
             /\ m.System # "AUTHENTICATED" => n = m
  BY DEF TransitionToConnected, MachineType, SystemState, ControlState

LEMMA OperatorCall ==
  ASSUME NEW m \in MachineType, NEW next \in OperatorState
  PROVE  LET n == TransitionOperator(m, next)
         IN  /\ n \in MachineType /\ n.Operator = next
             /\ next = "NO_OPERATOR" => ~Controlling(n)
             /\ n.System = m.System \/ n.System = "SAFE_MODE"
<1> DEFINE k == [m EXCEPT !.Operator = next]
<1>1. k \in MachineType /\ k.System = m.System /\ k.Operator = next
  BY DEF MachineType
<1> HIDE DEF k
<1>2. CASE next = "NO_OPERATOR" /\ Controlling(k)
  <2>1. isValidTransition(k.System, "SAFE_MODE") /\ "SAFE_MODE" \in SystemState
    BY <1>2 DEF isValidTransition, validSystemTransitions, Controlling, SystemState
  <2>2. TransitionOperator(m, next) = TransitionSystem(k, "SAFE_MODE")
    BY <1>2 DEF TransitionOperator, TransitionSystem, k
  <2>3. LET n == TransitionSystem(k, "SAFE_MODE")
        IN  n \in MachineType /\ n.System = "SAFE_MODE" /\ n.Operator = k.Operator
    BY <1>1, <2>1, SystemCall
  <2> QED
    BY <1>1, <2>2, <2>3 DEF Controlling
<1>3. CASE ~(next = "NO_OPERATOR" /\ Controlling(k))
  <2>1. TransitionOperator(m, next) = k
    BY <1>3 DEF TransitionOperator, k
  <2> QED
    BY <1>1, <1>3, <2>1
<1> QED
  BY <1>2, <1>3

\* A report of the video or the telemetry keeps the vehicle under control or
\* leaves SYSTEM alone.
Reports(m, n) ==
  /\ n \in MachineType /\ n.Operator = m.Operator
  /\ n.System = m.System \/ (Controlling(m) /\ Controlling(n))

LEMMA DegradedCall ==
  ASSUME NEW m \in MachineType, NEW reason \in DegradedReason
  PROVE  /\ Reports(m, enterDegraded(m, reason))
         /\ Reports(m, exitDegraded(m, reason))
<1>1. ASSUME NEW reasons \in SUBSET DegradedReason, NEW next \in {"CONNECTED", "DEGRADED"},
             Controlling(m)
      PROVE  LET k == [m EXCEPT !.degradedReasons = reasons]
             IN  /\ Reports(m, k) /\ k.System = m.System
                 /\ Reports(m, transitionSystemLocked(k, next))
  <2> DEFINE k == [m EXCEPT !.degradedReasons = reasons]
  <2>1. k \in MachineType /\ k.System = m.System /\ k.Operator = m.Operator
    BY DEF MachineType
  <2> HIDE DEF k
  <2>2. next \in SystemState /\ next # "IDLE"
    BY DEF SystemState
  <2>3. PICK n : n = TransitionSystem(k, next)
    OBVIOUS
  <2>4. n \in MachineType /\ n.Operator = k.Operator /\ (n = k \/ n.System = next)
    BY <2>1, <2>2, <2>3, SystemCall
  <2>5. Reports(m, n)
    BY <1>1, <2>1, <2>4 DEF Reports, Controlling
  <2> QED
    BY <2>1, <2>3, <2>5 DEF Reports, TransitionSystem, k
<1>2. \A reasons \in SUBSET DegradedReason :
        LET k == [m EXCEPT !.degradedReasons = reasons]
        IN  Reports(m, k) /\ k.System = m.System
  BY DEF Reports, MachineType
<1>3. m.degradedReasons \cup {reason} \in SUBSET DegradedReason
      /\ m.degradedReasons \ {reason} \in SUBSET DegradedReason
  BY DEF MachineType
<1>4. Reports(m, enterDegraded(m, reason))
  <2> DEFINE k == [m EXCEPT !.degradedReasons = m.degradedReasons \cup {reason}]
  <2>1. Reports(m, k) /\ k.System = m.System
    BY <1>2, <1>3
  <2>2. Controlling(m) => Reports(m, transitionSystemLocked(k, "DEGRADED"))
    BY <1>1, <1>3
  <2>3. enterDegraded(m, reason) = IF k.System = "CONNECTED" THEN transitionSystemLocked(k, "DEGRADED") ELSE k
    BY DEF enterDegraded
  <2> HIDE DEF k
  <2> QED
    BY <2>1, <2>2, <2>3 DEF Controlling
<1>5. Reports(m, exitDegraded(m, reason))
  <2> DEFINE k == [m EXCEPT !.degradedReasons = m.degradedReasons \ {reason}]
  <2>1. Reports(m, k) /\ k.System = m.System
    BY <1>2, <1>3
  <2>2. Controlling(m) => Reports(m, transitionSystemLocked(k, "CONNECTED"))
    BY <1>1, <1>3
  <2>3. exitDegraded(m, reason) = IF k.degradedReasons = {} /\ k.System = "DEGRADED"
                                  THEN transitionSystemLocked(k, "CONNECTED") ELSE k
    BY DEF exitDegraded
  <2> HIDE DEF k
  <2> QED
    BY <2>1, <2>2, <2>3 DEF Controlling
<1> QED
  BY <1>4, <1>5

LEMMA ReportCalls ==
  ASSUME NEW m \in MachineType
  PROVE  /\ \A next \in MediaState : Reports(m, TransitionMedia(m, next))
         /\ Reports(m, TransitionTelemetry(m, TRUE))
         /\ Reports(m, TransitionTelemetry(m, FALSE))
<1>0. "media" \in DegradedReason /\ "telemetry" \in DegradedReason /\ Reports(m, m)
  BY DEF DegradedReason, Reports
<1>1. ASSUME NEW next \in MediaState PROVE Reports(m, TransitionMedia(m, next))
  <2> DEFINE k == [m EXCEPT !.Media = next]
  <2>1. k \in MachineType /\ k.System = m.System /\ k.Operator = m.Operator
    BY DEF MachineType
  <2>2. TransitionMedia(m, next) \in {k, enterDegraded(k, "media"), exitDegraded(k, "media")}
    BY DEF TransitionMedia
  <2> HIDE DEF k
  <2>3. Reports(k, k) /\ Reports(k, enterDegraded(k, "media")) /\ Reports(k, exitDegraded(k, "media"))
    BY <1>0, <2>1, DegradedCall DEF Reports
  <2>4. \A n : Reports(k, n) => Reports(m, n)
    BY <2>1 DEF Reports, Controlling
  <2> QED
    BY <2>2, <2>3, <2>4
<1>2. \A healthy \in BOOLEAN : TransitionTelemetry(m, healthy)
         \in {m, enterDegraded(m, "telemetry"), exitDegraded(m, "telemetry")}
  BY DEF TransitionTelemetry
<1> QED
  BY <1>0, <1>1, <1>2, DegradedCall

\* The timer watchdogs keep to the bound, and only Start, Stop and a callback
\* change whether one reacts.
LEMMA TimerCalls ==
  ASSUME NEW w, WatchdogOK(w)
  PROVE  /\ WatchdogOK(DeadmanStart(w)) /\ ~DeadmanStart(w).stopped
         /\ WatchdogOK(DeadmanReset(w)) /\ (DeadmanReset(w).stopped <=> w.stopped)
         /\ WatchdogOK(DeadmanStop(w))
         /\ WatchdogOK(VehicleACKStart(w)) /\ WatchdogOK(VehicleACKStop(w))
         /\ WatchdogOK(CommandForwarded(w)) /\ WatchdogOK(CommandReceived(w))
         /\ WatchdogOK(CommandACKed(w)) /\ WatchdogOK(ACKReceived(w))
         /\ CanElapse(w) => WatchdogOK(Elapse(w)) /\ (Elapse(w).stopped <=> w.stopped)
<1> USE LateAssumption DEF WatchdogOK, Watchdog
<1>1. WatchdogOK(DeadmanStart(w)) /\ ~DeadmanStart(w).stopped
  BY DEF DeadmanStart
<1>2. WatchdogOK(DeadmanReset(w)) /\ (DeadmanReset(w).stopped <=> w.stopped)
  BY DEF DeadmanReset
<1>3. WatchdogOK(DeadmanStop(w))
  BY DEF DeadmanStop
<1>4. WatchdogOK(VehicleACKStart(w)) /\ WatchdogOK(VehicleACKStop(w))
  BY DEF VehicleACKStart, VehicleACKStop
<1>5. WatchdogOK(CommandForwarded(w)) /\ WatchdogOK(CommandReceived(w))
  BY DEF CommandForwarded, CommandReceived
<1>6. WatchdogOK(CommandACKed(w)) /\ WatchdogOK(ACKReceived(w))
  BY DEF CommandACKed, ACKReceived
<1>7. ASSUME CanElapse(w) PROVE WatchdogOK(Elapse(w)) /\ (Elapse(w).stopped <=> w.stopped)
  <2>1. CASE w.orphans > 0
    <3>1. Elapse(w) = [w EXCEPT !.orphans = w.orphans - 1, !.expired = w.expired + 1]
      BY <2>1 DEF Elapse
    <3>2. w.orphans - 1 \in 0..MaxLate /\ w.expired + 1 \in 0..MaxLate
          /\ (w.orphans - 1) + (w.expired + 1) <= MaxLate
      BY <2>1
    <3> QED
      BY <3>1, <3>2
  <2>2. CASE ~(w.orphans > 0)
    <3>1. Elapse(w) = [w EXCEPT !.timer = "idle", !.expired = w.expired + 1]
      BY <2>2 DEF Elapse
    <3>2. w.expired + 1 \in 0..MaxLate /\ w.orphans + (w.expired + 1) <= MaxLate
      BY <1>7, <2>2 DEF CanElapse
    <3> QED
      BY <3>1, <3>2
  <2> QED
    BY <2>1, <2>2
<1> QED
  BY <1>1, <1>2, <1>3, <1>4, <1>5, <1>6, <1>7

LEMMA FireCalls ==
  ASSUME NEW w, WatchdogOK(w), w.expired > 0
  PROVE  WatchdogOK(DeadmanFire(w)) /\ WatchdogOK(ACKFire(w)) /\ WatchdogOK(VehicleACKFire(w))
<1> USE LateAssumption DEF WatchdogOK, Watchdog
<1>1. w.expired - 1 \in 0..MaxLate /\ w.orphans + (w.expired - 1) <= MaxLate
  OBVIOUS
<1>2. WatchdogOK(DeadmanFire(w))
  BY <1>1 DEF DeadmanFire
<1> DEFINE orphans == IF w.timer = "running" THEN w.orphans + 1 ELSE w.orphans
<1>3. orphans \in 0..MaxLate /\ orphans + (w.expired - 1) <= MaxLate
  OBVIOUS
<1>4. forgetTimer(w) = [w EXCEPT !.timer = "nil", !.orphans = orphans]
  BY DEF forgetTimer
<1> HIDE DEF orphans
<1>5. PICK k : k = forgetTimer(w)
  OBVIOUS
<1>6. k \in Watchdog /\ k.orphans = orphans /\ k.expired = w.expired
  BY <1>3, <1>4, <1>5
<1>7. WatchdogOK([k EXCEPT !.expired = w.expired - 1])
  BY <1>1, <1>3, <1>6
<1>8. WatchdogOK([k EXCEPT !.stopped = TRUE, !.expired = w.expired - 1])
  BY <1>1, <1>3, <1>6
<1>9. WatchdogOK(ACKFire(w))
  BY <1>5, <1>6, <1>7 DEF ACKFire
<1>10. WatchdogOK([w EXCEPT !.expired = w.expired - 1])
  BY <1>1
<1>11. WatchdogOK(VehicleACKFire(w))
  BY <1>5, <1>6, <1>8, <1>10 DEF VehicleACKFire
<1> QED
  BY <1>2, <1>9, <1>11

LEMMA PollRuns ==
  PollRun = [account : Operators \cup {NoConn, ""}, failures : {0, 1},
             phase : {"ended", "wait", "checking", "good", "bad"}]
<1>1. 0..FailThreshold-1 = {0, 1}
  BY DEF FailThreshold
<1> QED
  BY <1>1 DEF PollRun, Phase

LEMMA PollerCalls ==
  ASSUME NEW p \in Poller, NEW account \in Operators \cup {NoConn}
  PROVE  /\ PollerStart(p, account) \in Poller /\ PollerStart(p, account).run.phase = "wait"
         /\ PollerStart(p, account).run.account = account
         /\ PollerStop(p) \in Poller
<1>1. Cancelled(p) \subseteq PollRun
  BY DEF Poller, Cancelled
<1>2. NewRun(account) \in PollRun /\ Ended \in PollRun /\ NewRun(account).phase = "wait"
      /\ NewRun(account).account = account
  BY PollRuns DEF NewRun, Ended
<1> QED
  BY <1>1, <1>2 DEF PollerStart, PollerStop, Poller

\* A polling goroutine that is not cancelled only ends with a verdict against
\* the operator.
LEMMA RunStepsTyped ==
  ASSUME NEW w \in PollWatchdogs, NEW r \in PollRun, NEW cancelled \in BOOLEAN,
         NEW next \in RunSteps(w, r, cancelled)
  PROVE  /\ next \in PollRun
         /\ ~cancelled => r.phase # "ended"
                /\ (next.phase = "ended" => w = "AuthWatchdog" /\ r.phase = "bad")
         /\ next.phase # "ended" => next.account = r.account
<1>1. Ended \in PollRun /\ Ended.phase = "ended"
  BY PollRuns DEF Ended
<1>2. r.phase \in {"ended", "wait", "checking", "good", "bad"} /\ r.failures \in {0, 1}
  BY PollRuns
<1>3. CASE r.phase = "wait"
  <2>1. next = [r EXCEPT !.phase = "checking"] \/ (cancelled /\ next = Ended)
    BY <1>3 DEF RunSteps
  <2> QED
    BY <1>1, <1>3, <2>1, PollRuns
<1>4. CASE r.phase = "checking"
  <2>1. \/ next = CheckFailed(r)
        \/ next = CheckPassed(r, IF w = "AuthWatchdog" THEN "wait" ELSE "good")
    BY <1>4 DEF RunSteps
  <2>2. CheckFailed(r) \in PollRun /\ CheckFailed(r).phase # "ended"
        /\ CheckFailed(r).account = r.account
    <3>1. CASE r.failures + 1 >= FailThreshold
      <4>1. CheckFailed(r) = [r EXCEPT !.failures = 0, !.phase = "bad"]
        BY <3>1 DEF CheckFailed
      <4> QED
        BY <4>1, PollRuns
    <3>2. CASE ~(r.failures + 1 >= FailThreshold)
      <4>1. CheckFailed(r) = [r EXCEPT !.failures = r.failures + 1, !.phase = "wait"]
        BY <3>2 DEF CheckFailed
      <4>2. CASE r.failures = 0
        <5>1. CheckFailed(r) = [r EXCEPT !.failures = 1, !.phase = "wait"]
          BY <4>1, <4>2
        <5> QED
          BY <5>1, PollRuns
      <4>3. CASE r.failures = 1
        BY <3>2, <4>3 DEF FailThreshold
      <4> QED
        BY <1>2, <4>2, <4>3
    <3> QED
      BY <3>1, <3>2
  <2>3. \A n \in {"wait", "good"} : CheckPassed(r, n) \in PollRun /\ CheckPassed(r, n).phase = n
                                    /\ CheckPassed(r, n).account = r.account
    BY PollRuns DEF CheckPassed
  <2> QED
    BY <1>4, <2>1, <2>2, <2>3
<1>5. CASE r.phase = "good"
  <2>1. next = [r EXCEPT !.phase = "wait"]
    BY <1>5 DEF RunSteps
  <2> QED
    BY <1>5, <2>1, PollRuns
<1>6. CASE r.phase = "bad"
  <2>1. (w = "AuthWatchdog" /\ next = Ended) \/ next = [r EXCEPT !.phase = "wait"]
    BY <1>6 DEF RunSteps
  <2> QED
    BY <1>1, <1>6, <2>1, PollRuns
<1>7. CASE r.phase = "ended"
  BY <1>7 DEF RunSteps
<1> QED
  BY <1>2, <1>3, <1>4, <1>5, <1>6, <1>7

-----------------------------------------------------------------------------
(* The calls on a vehicle *)

Supervisors == {"Deadman", "VehicleACKWatchdog", "AuthWatchdog", "TelemetryWatchdog"}

CommandCalls ==
  {<<"Deadman", "Reset", "">>, <<"VehicleACKWatchdog", "CommandForwarded", "">>,
   <<"ACKTimeoutWatcher", "CommandReceived", "">>, <<"ACKTimeoutWatcher", "CommandACKed", "">>}

\* Which goroutines make which calls on a vehicle.
VehicleCallTable(kind, c) ==
  \/ kind \in {"start", "operator"} /\ \E n \in {"CONNECTING", "RECOVERING", "AUTHENTICATED"} : c = System(n)
  \/ kind \in {"start", "operator"} /\ c = ToConnected
  \/ kind \in {"start", "operator"} /\ c = Operator("ACTIVE_OPERATOR")
  \/ kind \in {"start", "operator"} /\ \E w \in Supervisors : c = Start(w)
  \/ c = System("SAFE_MODE")
  \/ c = System("IDLE")
  \/ c = Operator("NO_OPERATOR")
  \/ kind \in {"end", "endAll"} /\ \E w \in Supervisors : c = Stop(w)
  \/ kind = "closing" /\ \E w \in {"Deadman", "AuthWatchdog"} : c = Stop(w)
  \/ c \in CommandCalls

LEMMA VehicleCalls ==
  ASSUME NEW kind \in Kinds, NEW c, c[1] \in Objects,
         (kind \in {"start", "operator"} /\ c \in GrantCalls) \/ c \in OtherCalls(kind)
  PROVE  VehicleCallTable(kind, c)
<1>0. \A b, a, m : c # Handler(b, a) /\ c # Manager(m)
  <2>1. \A b, a, m : Handler(b, a)[1] = "handler" /\ Manager(m)[1] = "sessions"
    BY DEF Handler, Manager
  <2>2. "handler" \notin Objects /\ "sessions" \notin Objects
    BY DEF Objects, TimerWatchdogs, PollWatchdogs
  <2> QED
    BY <2>1, <2>2
<1>1. CASE kind \in {"start", "operator"} /\ c \in GrantCalls
  BY <1>1 DEF GrantCalls, VehicleCallTable, Supervisors
<1>2. CASE c \in OtherCalls(kind) /\ kind \in {"end", "endAll"}
  <2>1. c \in StopWatchdogCalls \/ c = System("IDLE")
    <3>1. c \in StopWatchdogCalls \/ c = System("IDLE") \/ c = Manager("EndSession")
          \/ c = Manager("ReleaseSession") \/ \E v \in Vehicles : c = Handler("EndVehicle", v)
      BY <1>2 DEF OtherCalls, LoopCalls
    <3> QED
      BY <3>1, <1>0
  <2> QED
    BY <1>2, <2>1 DEF StopWatchdogCalls, VehicleCallTable, Supervisors
<1>3. CASE c \in OtherCalls(kind) /\ kind \in {"stop", "lost", "bus"}
  <2>1. c = System("SAFE_MODE") \/ c = Manager("SaveCheckpoint") \/ \E b, a : c = Handler(b, a)
    BY <1>3 DEF OtherCalls, LoopCalls
  <2> QED
    BY <2>1, <1>0 DEF VehicleCallTable
<1>4. CASE c \in OtherCalls(kind) /\ kind = "operator"
  <2>1. c = System("SAFE_MODE") \/ c \in CommandCalls \/ \E b, a : c = Handler(b, a)
    BY <1>4 DEF OtherCalls, CommandCalls
  <2> QED
    BY <2>1, <1>0 DEF VehicleCallTable
<1>5. CASE c \in OtherCalls(kind) /\ kind = "closing"
  <2>1. \/ c = Stop("Deadman") \/ c = Stop("AuthWatchdog") \/ c = System("SAFE_MODE")
        \/ c = Operator("NO_OPERATOR")
        \/ (\E b, a : c = Handler(b, a)) \/ \E m : c = Manager(m)
    BY <1>5 DEF OtherCalls
  <2> QED
    BY <1>5, <2>1, <1>0 DEF VehicleCallTable
<1>6. CASE c \in OtherCalls(kind) /\ kind \in {"start", "free", "vehicle"}
  <2>1. \E b, a : c = Handler(b, a)
    BY <1>6 DEF OtherCalls
  <2> QED
    BY <2>1, <1>0
<1> QED
  BY <1>1, <1>2, <1>3, <1>4, <1>5, <1>6 DEF Kinds

\* Who makes a call, which one, and how it goes on.
LEMMA Caller ==
  ASSUME GoInv, NEW t \in Threads, VehicleCall(t)
  PROVE  LET f == go[t]
             c == Head(f.prog)
             g == Goes(f, Tail(f.prog))
         IN  /\ f.prog # <<>> /\ c[1] \in Objects /\ VehicleCallTable(f.as, c)
             /\ f.vehicle \in Vehicles
             /\ go' = [go EXCEPT ![t] = g]
             /\ ctx' = [ctx EXCEPT ![f.vehicle][c[1]] = Called(@, c, f.operator)]
<1>1. PICK object \in DOMAIN NewVehicleContext : Calls(t, object)
  BY DEF VehicleCall
<1>2. DOMAIN NewVehicleContext = Objects
  BY DEF NewVehicleContext, Objects, TimerWatchdogs, PollWatchdogs
<1>3. go[t].prog # <<>> /\ Head(go[t].prog)[1] \in Objects
  BY <1>1, <1>2 DEF Calls
<1>4. Fits(go[t]) /\ go[t].as \in Kinds /\ "handler" \notin Objects /\ "sessions" \notin Objects
  BY DEF GoInv, Fits, Objects, TimerWatchdogs, PollWatchdogs
<1>5. VehicleCallTable(go[t].as, Head(go[t].prog))
  BY <1>3, <1>4, NextCall, VehicleCalls
<1>6. go[t].vehicle \in Vehicles
  <2>1. \A S : go[t].prog \in Seq(S) => Head(go[t].prog) \in S
    BY <1>3
  <2>2. ASSUME NEW b, Head(go[t].prog) \in LoopCalls(b) PROVE FALSE
    <3>1. Head(go[t].prog)[1] = "handler"
      BY <2>2 DEF LoopCalls, Handler
    <3> QED
      BY <3>1, <1>3, <1>4
  <2>3. Head(go[t].prog) # Manager("EndSession")
    <3>1. Manager("EndSession")[1] = "sessions"
      BY DEF Manager
    <3> QED
      BY <3>1, <1>3, <1>4
  <2>4. OnVehicle(go[t])
    BY <1>3, <1>4 DEF Fits
  <2> QED
    BY <2>1, <2>2, <2>3, <2>4 DEF OnVehicle
<1> QED
  BY <1>3, <1>5, <1>6 DEF VehicleCall, Rest

\* The method behind each call.
LEMMA CalledMachine ==
  ASSUME NEW x, NEW account
  PROVE  /\ \A n : System(n)[1] = "SM" /\ System(n)[2] = "TransitionSystem"
                   /\ Called(x, System(n), account) = TransitionSystem(x, n)
         /\ \A n : Operator(n)[1] = "SM" /\ Operator(n)[2] = "TransitionOperator"
                   /\ Called(x, Operator(n), account) = TransitionOperator(x, n)
         /\ ToConnected[1] = "SM" /\ ToConnected[2] = "TransitionToConnected"
         /\ Called(x, ToConnected, account) = TransitionToConnected(x)
  BY DEF Called, System, Operator, ToConnected

LEMMA CalledWatchdog ==
  ASSUME NEW x, NEW account
  PROVE  /\ \A w : Start(w)[1] = w /\ Start(w)[2] = "Start"
                   /\ Stop(w)[1] = w /\ Stop(w)[2] = "Stop"
         /\ Called(x, Start("Deadman"), account) = DeadmanStart(x)
         /\ Called(x, Stop("Deadman"), account) = DeadmanStop(x)
         /\ Called(x, Start("VehicleACKWatchdog"), account) = VehicleACKStart(x)
         /\ Called(x, Stop("VehicleACKWatchdog"), account) = VehicleACKStop(x)
         /\ \A w \in PollWatchdogs :
              /\ Called(x, Start(w), account) = PollerStart(x, account)
              /\ Called(x, Stop(w), account) = PollerStop(x)
<1>2. \A w : Start(w)[1] = w /\ Start(w)[2] = "Start" /\ Stop(w)[1] = w /\ Stop(w)[2] = "Stop"
  BY DEF Start, Stop
<1>3. /\ Called(x, Start("Deadman"), account) = DeadmanStart(x)
      /\ Called(x, Stop("Deadman"), account) = DeadmanStop(x)
      /\ Called(x, Start("VehicleACKWatchdog"), account) = VehicleACKStart(x)
      /\ Called(x, Stop("VehicleACKWatchdog"), account) = VehicleACKStop(x)
  BY <1>2 DEF Called, PollWatchdogs
<1>4. \A w \in PollWatchdogs :
        /\ Called(x, Start(w), account) = PollerStart(x, account)
        /\ Called(x, Stop(w), account) = PollerStop(x)
  BY <1>2 DEF Called, PollWatchdogs
<1> QED
  BY <1>2, <1>3, <1>4

LEMMA CalledCommand ==
  ASSUME NEW x, NEW account
  PROVE  /\ Called(x, <<"Deadman", "Reset", "">>, account) = DeadmanReset(x)
         /\ Called(x, <<"VehicleACKWatchdog", "CommandForwarded", "">>, account) = CommandForwarded(x)
         /\ Called(x, <<"ACKTimeoutWatcher", "CommandReceived", "">>, account) = CommandReceived(x)
         /\ Called(x, <<"ACKTimeoutWatcher", "CommandACKed", "">>, account) = CommandACKed(x)
  BY DEF Called, PollWatchdogs

\* The type of the objects of one vehicle.
Typed(w, x) ==
  /\ w = "SM" => x \in MachineType
  /\ w \in TimerWatchdogs => WatchdogOK(x)
  /\ w \in PollWatchdogs => x \in Poller

LEMMA CtxTyped ==
  /\ CtxInv <=> /\ DOMAIN ctx = Vehicles
                /\ \A v \in Vehicles :
                     DOMAIN ctx[v] = Objects /\ \A w \in Objects : Typed(w, ctx[v][w])
  /\ CtxInv' <=> /\ DOMAIN ctx' = Vehicles
                 /\ \A v \in Vehicles :
                      DOMAIN ctx'[v] = Objects /\ \A w \in Objects : Typed(w, ctx'[v][w])
<1>1. /\ \A w \in TimerWatchdogs : w # "SM" /\ w \notin PollWatchdogs
      /\ \A w \in PollWatchdogs : w # "SM" /\ w \notin TimerWatchdogs
  BY DEF TimerWatchdogs, PollWatchdogs
<1> QED
  BY <1>1 DEF CtxInv, Typed, Objects

\* The objects of one vehicle change.
LEMMA OneVehicle ==
  ASSUME CtxInv, NEW v \in Vehicles, DOMAIN ctx' = Vehicles, DOMAIN ctx'[v] = Objects,
         \A w \in Objects : Typed(w, ctx'[v][w]),
         \A u \in Vehicles : u # v => ctx'[u] = ctx[u]
  PROVE  CtxInv'
<1>1. \A u \in Vehicles : DOMAIN ctx[u] = Objects /\ \A w \in Objects : Typed(w, ctx[u][w])
  BY CtxTyped
<1> QED
  BY <1>1, CtxTyped

\* A call leaves an object in its type.
LEMMA CallTyped ==
  ASSUME NEW kind, NEW c, VehicleCallTable(kind, c), NEW y, Typed(c[1], y),
         NEW account \in Operators \cup {NoConn}
  PROVE  Typed(c[1], Called(y, c, account))
<1>0. PICK x : x = Called(y, c, account)
  OBVIOUS
<1>1. ASSUME c[1] = "SM", x \in MachineType PROVE Typed(c[1], x)
  BY <1>1 DEF Typed, TimerWatchdogs, PollWatchdogs
<1>2. ASSUME c[1] \in TimerWatchdogs, WatchdogOK(x) PROVE Typed(c[1], x)
  BY <1>2 DEF Typed, TimerWatchdogs, PollWatchdogs
<1>3. ASSUME c[1] \in PollWatchdogs, x \in Poller PROVE Typed(c[1], x)
  BY <1>3 DEF Typed, TimerWatchdogs, PollWatchdogs
<1>4. ASSUME NEW n \in {"CONNECTING", "RECOVERING", "AUTHENTICATED", "SAFE_MODE", "IDLE"}, c = System(n)
      PROVE  Typed(c[1], x)
  <2>1. c[1] = "SM" /\ x = TransitionSystem(y, n)
    BY <1>0, <1>4, CalledMachine
  <2>2. y \in MachineType /\ n \in SystemState
    BY <2>1 DEF Typed, SystemState
  <2> QED
    BY <1>1, <2>1, <2>2, SystemCall
<1>5. ASSUME NEW n \in {"ACTIVE_OPERATOR", "NO_OPERATOR"}, c = Operator(n)
      PROVE  Typed(c[1], x)
  <2>1. c[1] = "SM" /\ x = TransitionOperator(y, n)
    BY <1>0, <1>5, CalledMachine
  <2>2. y \in MachineType /\ n \in OperatorState
    BY <2>1 DEF Typed, OperatorState
  <2> QED
    BY <1>1, <2>1, <2>2, OperatorCall
<1>6. CASE c = ToConnected
  <2>1. c[1] = "SM" /\ x = TransitionToConnected(y)
    BY <1>0, <1>6, CalledMachine
  <2>2. y \in MachineType
    BY <2>1 DEF Typed
  <2>3. x \in MachineType
    BY <2>1, <2>2, ToConnectedCall
  <2> QED
    BY <1>0, <1>1, <2>1, <2>3
<1>7. ASSUME NEW w \in Supervisors, c = Start(w) \/ c = Stop(w) PROVE Typed(c[1], x)
  <2>1. c[1] = w
    BY <1>7, CalledWatchdog
  <2>2. CASE w = "Deadman"
    <3>1. x = DeadmanStart(y) \/ x = DeadmanStop(y)
      BY <1>0, <1>7, <2>2, CalledWatchdog
    <3>2. c[1] \in TimerWatchdogs /\ WatchdogOK(y)
      BY <2>1, <2>2 DEF Typed, TimerWatchdogs
    <3> QED
      BY <1>2, <3>1, <3>2, TimerCalls
  <2>3. CASE w = "VehicleACKWatchdog"
    <3>1. x = VehicleACKStart(y) \/ x = VehicleACKStop(y)
      BY <1>0, <1>7, <2>3, CalledWatchdog
    <3>2. c[1] \in TimerWatchdogs /\ WatchdogOK(y)
      BY <2>1, <2>3 DEF Typed, TimerWatchdogs
    <3> QED
      BY <1>2, <3>1, <3>2, TimerCalls
  <2>4. CASE w \in PollWatchdogs
    <3>1. x = PollerStart(y, account) \/ x = PollerStop(y)
      BY <1>0, <1>7, <2>4, CalledWatchdog
    <3>2. c[1] \in PollWatchdogs /\ y \in Poller
      BY <2>1, <2>4 DEF Typed
    <3> QED
      BY <1>3, <3>1, <3>2, PollerCalls
  <2> QED
    BY <2>2, <2>3, <2>4 DEF Supervisors, PollWatchdogs
<1>8. CASE c \in CommandCalls
  <2>1. c[1] \in TimerWatchdogs
    <3>1. /\ <<"Deadman", "Reset", "">>[1] = "Deadman"
          /\ <<"VehicleACKWatchdog", "CommandForwarded", "">>[1] = "VehicleACKWatchdog"
          /\ <<"ACKTimeoutWatcher", "CommandReceived", "">>[1] = "ACKTimeoutWatcher"
          /\ <<"ACKTimeoutWatcher", "CommandACKed", "">>[1] = "ACKTimeoutWatcher"
      OBVIOUS
    <3>2. c[1] = "Deadman" \/ c[1] = "VehicleACKWatchdog" \/ c[1] = "ACKTimeoutWatcher"
      BY <1>8, <3>1 DEF CommandCalls
    <3> QED
      BY <3>2 DEF TimerWatchdogs
  <2>2. WatchdogOK(y)
    BY <2>1 DEF Typed
  <2>3. x = DeadmanReset(y) \/ x = CommandForwarded(y) \/ x = CommandReceived(y) \/ x = CommandACKed(y)
    BY <1>0, <1>8, CalledCommand DEF CommandCalls
  <2>4. WatchdogOK(x)
    BY <2>2, <2>3, TimerCalls
  <2> QED
    BY <1>0, <1>2, <2>1, <2>4
<1> QED
  <2>1. \/ \E n \in {"CONNECTING", "RECOVERING", "AUTHENTICATED", "SAFE_MODE", "IDLE"} : c = System(n)
        \/ \E n \in {"ACTIVE_OPERATOR", "NO_OPERATOR"} : c = Operator(n)
        \/ c = ToConnected \/ c \in CommandCalls
        \/ \E w \in Supervisors : c = Start(w) \/ c = Stop(w)
    BY DEF VehicleCallTable, Supervisors
  <2> QED
    BY <2>1, <1>0, <1>4, <1>5, <1>6, <1>7, <1>8

\* A call on a vehicle.
LEMMA CallEffect ==
  ASSUME GoInv, CtxInv, NEW t \in Threads, VehicleCall(t)
  PROVE  LET f == go[t]
             c == Head(f.prog)
             v == f.vehicle
             x == Called(ctx[v][c[1]], c, f.operator)
         IN  /\ CtxInv' /\ Typed(c[1], ctx[v][c[1]])
             /\ ctx'[v][c[1]] = x
             /\ \A y \in Objects : y # c[1] => ctx'[v][y] = ctx[v][y]
             /\ \A u \in Vehicles : u # v => ctx'[u] = ctx[u]
<1>0. PICK f : f = go[t]
  OBVIOUS
<1>1. PICK c : c = Head(f.prog)
  OBVIOUS
<1>2. PICK v : v = f.vehicle
  OBVIOUS
<1>3. PICK x : x = Called(ctx[v][c[1]], c, f.operator)
  OBVIOUS
<1>4. c[1] \in Objects /\ v \in Vehicles /\ VehicleCallTable(f.as, c)
  BY <1>0, <1>1, <1>2, Caller
<1>5. f.operator \in Operators \cup {NoConn}
  BY <1>0 DEF GoInv, Fits
<1>6. PICK o : o = c[1]
  OBVIOUS
<1>7. Typed(c[1], ctx[v][c[1]])
  BY <1>4, CtxTyped
<1>8. Typed(c[1], x)
  BY <1>3, <1>4, <1>5, <1>7, CallTyped
<1>9. /\ DOMAIN ctx' = Vehicles /\ DOMAIN ctx'[v] = Objects /\ ctx'[v][o] = x
      /\ \A z \in Objects : z # o => ctx'[v][z] = ctx[v][z]
      /\ \A u \in Vehicles : u # v => ctx'[u] = ctx[u]
  <2>1. ctx' = [ctx EXCEPT ![v][o] = Called(@, c, f.operator)]
    BY <1>0, <1>1, <1>2, <1>6, Caller
  <2>2. DOMAIN ctx = Vehicles /\ DOMAIN ctx[v] = Objects /\ o \in Objects
    BY <1>4, <1>6, CtxTyped
  <2>3. x = Called(ctx[v][o], c, f.operator)
    BY <1>3, <1>6
  <2> QED
    BY <2>1, <2>2, <2>3, <1>4
<1>10. \A z \in Objects : Typed(z, ctx'[v][z])
  BY <1>4, <1>6, <1>8, <1>9, CtxTyped
<1>11. CtxInv'
  BY <1>4, <1>9, <1>10, OneVehicle
<1> QED
  BY <1>0, <1>1, <1>2, <1>3, <1>6, <1>7, <1>9, <1>11

-----------------------------------------------------------------------------
(* What is owed, when a goroutine makes its next call *)

\* g does all that f had to do but call c.
Keeps(f, g, c) ==
  /\ \A a : Has(f.prog, a) /\ a # c =>
       /\ Has(g.prog, a) /\ g.as = f.as /\ g.vehicle = f.vehicle /\ g.session = f.session
  /\ f.as = "operator" => g.as = "operator" /\ g.session = f.session

LEMMA CallKeeps ==
  ASSUME NEW f, Fits(f), f.prog # <<>>
  PROVE  Keeps(f, Goes(f, Tail(f.prog)), Head(f.prog))
<1> DEFINE p == Tail(f.prog)
           c == Head(f.prog)
           h == [f EXCEPT !.prog = p]
<1>1. PICK S : f.prog \in Seq(S)
  BY DEF Fits, Program
<1>2. \A a : Has(f.prog, a) /\ a # c => Has(p, a)
  BY <1>1, Tails
<1>3. /\ h.as = f.as /\ h.vehicle = f.vehicle /\ h.session = f.session /\ h.prog = p
  BY WithProg
<1>4. \A a : Has(p, a) => p # <<>>
  BY EmptyProgram
<1>5. p # <<>> \/ f.as = "operator" => Goes(f, p) = h
  BY GoesIs
<1> HIDE DEF p, c, h
<1> QED
  BY <1>2, <1>3, <1>4, <1>5 DEF Keeps, p, c

LEMMA KeepsOwed ==
  ASSUME GoInv, NEW t \in Threads, NEW g, NEW c, go' = [go EXCEPT ![t] = g],
         Keeps(go[t], g, c), NEW v, NEW a, Owed(v, a), a # c \/ v # go[t].vehicle
  PROVE  Owed(v, a)'
<1>1. PICK u \in Threads : go[u].vehicle = v /\ Has(go[u].prog, a)
  BY DEF Owed
<1>2. CASE u = t /\ a # c
  <2>1. go'[u].vehicle = v /\ Has(go'[u].prog, a)
    BY <1>1, <1>2 DEF Keeps, GoInv
  <2> QED
    BY <2>1 DEF Owed
<1>3. CASE u # t
  <2>1. go'[u] = go[u]
    BY <1>3 DEF GoInv
  <2> QED
    BY <1>1, <2>1 DEF Owed
<1> QED
  BY <1>1, <1>2, <1>3

LEMMA KeepsOpen ==
  ASSUME GoInv, NEW t \in Threads, NEW g, NEW c, go' = [go EXCEPT ![t] = g],
         Keeps(go[t], g, c), NEW s, Open(s)
  PROVE  Open(s)'
<1>1. PICK u \in Conns : go[u].as = "operator" /\ go[u].session = s
  BY DEF Open
<1>2. go'[u].as = "operator" /\ go'[u].session = s
  BY <1>1 DEF Keeps, GoInv, Threads
<1> QED
  BY <1>2 DEF Open

GuardCalls == {Handler("StillActive", ""), Handler("StopUnlessSafe", ""), System("SAFE_MODE")}

LEMMA KeepsStops ==
  ASSUME GoInv, NEW t \in Threads, NEW g, NEW c, go' = [go EXCEPT ![t] = g],
         Keeps(go[t], g, c), NEW s, StillStops(s),
         c \notin GuardCalls \/ go[t].session # s \/ go[t].as # "closing"
  PROVE  StillStops(s)'
<1>1. PICK u \in Conns : go[u].as = "closing" /\ go[u].session = s /\ Guarded(go[u].prog)
  BY DEF StillStops
<1>2. u \in Threads /\ DOMAIN go = Threads
  BY DEF GoInv, Threads
<1>3. go'[u].as = "closing" /\ go'[u].session = s /\ Guarded(go'[u].prog)
  <2>1. CASE u # t
    BY <1>1, <1>2, <2>1
  <2>2. CASE u = t
    <3>1. c \notin GuardCalls
      BY <1>1, <2>2
    <3>2. PICK a \in GuardCalls : Has(go[t].prog, a)
      BY <1>1, <2>2 DEF Guarded, GuardCalls
    <3>3. Has(g.prog, a) /\ g.as = "closing" /\ g.session = s
      BY <1>1, <2>2, <3>1, <3>2 DEF Keeps
    <3>4. Guarded(g.prog)
      BY <3>2, <3>3 DEF Guarded, GuardCalls
    <3> QED
      BY <1>2, <2>2, <3>3, <3>4
  <2> QED
    BY <2>1, <2>2
<1> QED
  BY <1>3 DEF StillStops

LEMMA KeepsEnding ==
  ASSUME GoInv, NEW t \in Threads, NEW g, NEW c, go' = [go EXCEPT ![t] = g],
         Keeps(go[t], g, c), NEW v \in Vehicles, BeingEnded(v),
         vehicleController'[v] = vehicleController[v],
         c # Manager("ReleaseSession") \/ go[t].session # vehicleController[v],
         c # Manager("EndSession")
  PROVE  BeingEnded(v)'
<1>0. DOMAIN go = Threads
  BY DEF GoInv
<1>1. PICK u \in Threads :
        \/ /\ go[u].as = "end" /\ go[u].session = vehicleController[v]
           /\ Has(go[u].prog, Manager("ReleaseSession"))
        \/ go[u].as = "endAll" /\ Has(go[u].prog, Manager("EndSession"))
  BY DEF BeingEnded
<1>2. CASE u # t
  <2>1. go'[u] = go[u]
    BY <1>0, <1>2
  <2> QED
    BY <1>1, <2>1 DEF BeingEnded
<1>3. CASE u = t
  <2>1. go'[u] = g
    BY <1>0, <1>3
  <2>2. CASE /\ go[u].as = "end" /\ go[u].session = vehicleController[v]
             /\ Has(go[u].prog, Manager("ReleaseSession"))
    <3>1. g.as = "end" /\ g.session = vehicleController'[v] /\ Has(g.prog, Manager("ReleaseSession"))
      BY <1>3, <2>2 DEF Keeps
    <3> QED
      BY <2>1, <3>1 DEF BeingEnded
  <2>3. CASE go[u].as = "endAll" /\ Has(go[u].prog, Manager("EndSession"))
    <3>1. g.as = "endAll" /\ Has(g.prog, Manager("EndSession"))
      BY <1>3, <2>3 DEF Keeps
    <3> QED
      BY <2>1, <3>1 DEF BeingEnded
  <2> QED
    BY <1>1, <2>2, <2>3
<1> QED
  BY <1>2, <1>3

\* A goroutine that is closing the socket of a vehicle's controller is on that
\* vehicle.
LEMMA ControllersGoroutine ==
  ASSUME SessInv, GoInv, NEW t \in Threads, NEW v \in Vehicles,
         go[t].session = vehicleController[v], vehicleController[v] \in SessionIds
  PROVE  /\ go[t].vehicle = v
         /\ go[t].as \in {"operator", "closing"} => ~go[t].observer
<1>1. /\ Live(go[t].session) /\ sessions[go[t].session].vehicle = v
      /\ sessions[go[t].session].role = "ACTIVE_OPERATOR"
  BY ControllerBelongs DEF IsVehicleLocked
<1>2. Belongs(go[t])
  BY DEF GoInv
<1> QED
  BY <1>1, <1>2 DEF Belongs

\* What VehicleCall does to the history and leaves alone.
LEMMA CallHistory ==
  ASSUME ServerInv, NEW t \in Threads, VehicleCall(t)
  PROVE  LET f == go[t]
             c == Head(f.prog)
             v == f.vehicle
         IN  /\ UNCHANGED <<sessVars, conns, firing, busFailures, revoked>>
             /\ attached' \subseteq attached
             /\ \A u \in Vehicles : u # v => lostTo'[u] = lostTo[u] /\ grantor'[u] = grantor[u]
             /\ ~(c[2] = "TransitionToConnected" /\ Sys(v) = "AUTHENTICATED") => grantor' = grantor
             /\ c[2] = "TransitionToConnected" /\ Sys(v) = "AUTHENTICATED" =>
                  grantor'[v] = f.session /\ (f.session \in attached' => Open(f.session))
             /\ \A w \in lostTo[v] : c[1] # w \/ c[2] \notin {"Start", "Stop"} => w \in lostTo'[v]
             /\ c[2] \in {"Start", "Stop"} /\ f.session # vehicleController[v] => c[1] \in lostTo'[v]
<1> DEFINE f == go[t]
           c == Head(f.prog)
           v == f.vehicle
<1>1. v \in Vehicles /\ DOMAIN lostTo = Vehicles /\ DOMAIN grantor = Vehicles
  BY Caller DEF ServerInv, RestInv
<1>2. lostTo' =
           IF c[2] \notin {"Start", "Stop"} THEN lostTo
           ELSE [lostTo EXCEPT ![v] = IF f.session = vehicleController[v]
                                      THEN @ \ {c[1]} ELSE @ \cup {c[1]}]
  BY DEF VehicleCall
<1>3. grantor' = IF c[2] = "TransitionToConnected" /\ Sys(v) = "AUTHENTICATED"
                 THEN [grantor EXCEPT ![v] = f.session] ELSE grantor
  BY DEF VehicleCall
<1>4. UNCHANGED <<sessVars, conns, firing, busFailures, revoked>>
  BY DEF VehicleCall
<1>7. /\ attached' \subseteq attached
      /\ c[2] = "TransitionToConnected" /\ Sys(v) = "AUTHENTICATED" =>
           (f.session \in attached' => Open(f.session))
  BY DEF VehicleCall
<1> HIDE DEF f, c, v
<1>5. /\ \A u \in Vehicles : u # v => lostTo'[u] = lostTo[u]
      /\ \A w \in lostTo[v] : c[1] # w \/ c[2] \notin {"Start", "Stop"} => w \in lostTo'[v]
      /\ c[2] \in {"Start", "Stop"} /\ f.session # vehicleController[v] => c[1] \in lostTo'[v]
  BY <1>1, <1>2
<1>6. /\ \A u \in Vehicles : u # v => grantor'[u] = grantor[u]
      /\ ~(c[2] = "TransitionToConnected" /\ Sys(v) = "AUTHENTICATED") => grantor' = grantor
      /\ c[2] = "TransitionToConnected" /\ Sys(v) = "AUTHENTICATED" => grantor'[v] = f.session
  BY <1>1, <1>3
<1> QED
  BY <1>4, <1>5, <1>6, <1>7 DEF f, c, v

\* The caller's goroutine.
LEMMA CallerKeeps ==
  ASSUME GoInv, NEW t \in Threads, VehicleCall(t)
  PROVE  LET g == Goes(go[t], Tail(go[t].prog))
         IN  go' = [go EXCEPT ![t] = g] /\ Keeps(go[t], g, Head(go[t].prog))
<1>1. Fits(go[t]) /\ go[t].prog # <<>>
  BY Caller DEF GoInv
<1> QED
  BY <1>1, CallKeeps, Caller

\* The calls on a vehicle are none of these.
LEMMA OtherObjects ==
  ASSUME NEW c, c[1] \in Objects
  PROVE  \A m, b, a : c # Manager(m) /\ c # Handler(b, a)
<1>1. \A m, b, a : Manager(m)[1] = "sessions" /\ Handler(b, a)[1] = "handler"
  BY DEF Manager, Handler
<1>2. "handler" \notin Objects /\ "sessions" \notin Objects
  BY DEF Objects, TimerWatchdogs, PollWatchdogs
<1> QED
  BY <1>1, <1>2

\* The other vehicles.
LEMMA CallElsewhere ==
  ASSUME ServerInv, NEW t \in Threads, VehicleCall(t),
         NEW u \in Vehicles, u # go[t].vehicle
  PROVE  TransitInv(u)' /\ AttendedInv(u)' /\ \A w \in Watched : SupervisedInv(u, w)'
<1>0. SessInv /\ GoInv /\ CtxInv /\ TransitInv(u) /\ AttendedInv(u) /\ \A w \in Watched : SupervisedInv(u, w)
  BY DEF ServerInv, OwedInv
<1>1. /\ ctx'[u] = ctx[u] /\ lostTo'[u] = lostTo[u] /\ grantor'[u] = grantor[u]
      /\ UNCHANGED <<sessVars, firing>> /\ attached' \subseteq attached
  BY <1>0, CallEffect, CallHistory
<1>2. PICK g, c : /\ go' = [go EXCEPT ![t] = g] /\ Keeps(go[t], g, c)
                  /\ \A m : c # Manager(m)
  BY <1>0, CallerKeeps, Caller, OtherObjects
<1>3. ASSUME NEW a, Owed(u, a) PROVE Owed(u, a)'
  BY <1>0, <1>2, <1>3, KeepsOwed
<1>4. PICK s : s = vehicleController[u]
  OBVIOUS
<1>5. s = vehicleController'[u]
  BY <1>1, <1>4 DEF sessVars
<1>6. Open(s) => Open(s)'
  BY <1>0, <1>2, KeepsOpen
<1>7. s \in SessionIds /\ StillStops(s) => StillStops(s)'
  BY <1>0, <1>2, <1>4, KeepsStops, ControllersGoroutine
<1>8. BeingEnded(u) => BeingEnded(u)'
  BY <1>0, <1>2, <1>4, <1>5, KeepsEnding
<1>9. TransitInv(u)'
  BY <1>0, <1>1, <1>3 DEF TransitInv, Sys, InControl
<1>10. attached \subseteq SessionIds
  BY DEF ServerInv, RestInv, SessInv, SessTypeOK
<1>11. AttendedInv(u)'
  BY <1>0, <1>1, <1>4, <1>5, <1>6, <1>7, <1>10 DEF AttendedInv, InControl
<1>12. IsVehicleLocked(u)' => IsVehicleLocked(u) /\ s \in SessionIds
  <2>1. IsVehicleLocked(u)' => IsVehicleLocked(u)
    BY <1>1 DEF IsVehicleLocked, Live, sessVars
  <2>2. s # NoSession => s \in SessionIds
    BY <1>0, <1>4, ControllerBelongs
  <2> QED
    BY <2>1, <2>2, <1>4 DEF IsVehicleLocked
<1>13. ASSUME NEW w \in Watched PROVE SupervisedInv(u, w)'
  <2>1. SupervisedInv(u, w)
    BY <1>0
  <2>2. (Enabled(u, w)' <=> Enabled(u, w)) /\ (InControl(u)' <=> InControl(u))
    BY <1>1 DEF Enabled, InControl, sessVars
  <2> QED
    BY <1>1, <1>3, <1>4, <1>5, <1>7, <1>8, <1>12, <2>1, <2>2 DEF SupervisedInv
<1> QED
  BY <1>9, <1>11, <1>13

\* A call whose order promises another one leaves it to be made.
LEMMA Promised ==
  ASSUME NEW f, Fits(f), f.prog # <<>>, NEW g, Keeps(f, g, Head(f.prog)),
         NEW b, Later(f.prog, Head(f.prog), b), b # Head(f.prog)
  PROVE  Has(g.prog, b) /\ g.as = f.as /\ g.vehicle = f.vehicle /\ g.session = f.session
<1>1. PICK S : f.prog \in Seq(S)
  BY DEF Fits, Program
<1>2. Has(f.prog, b)
  BY <1>1, Tails
<1> QED
  BY <1>2 DEF Keeps

LEMMA CallsDiffer ==
  /\ \A m, n : System(m) = System(n) => m = n
  /\ \A m, n : System(m) # Operator(n)
  /\ \A m, n : Operator(m) = Operator(n) => m = n
  /\ \A m : ToConnected # System(m) /\ ToConnected # Operator(m)
  /\ \A w, m : Start(w) # System(m) /\ Start(w) # Operator(m)
  /\ \A w : Start(w) # ToConnected
  /\ \A w, x : Start(w) # Stop(x)
  /\ \A w, x : Start(w) = Start(x) => w = x
  /\ \A w, b, m : Stop(w)[2] = "Stop" /\ Manager(m)[1] = "sessions" /\ Handler(b, m)[1] = "handler"
<1>1. /\ \A n : System(n)[1] = "SM" /\ System(n)[2] = "TransitionSystem" /\ System(n)[3] = n
      /\ \A n : Operator(n)[1] = "SM" /\ Operator(n)[2] = "TransitionOperator" /\ Operator(n)[3] = n
      /\ ToConnected[2] = "TransitionToConnected"
      /\ \A w : Start(w)[1] = w /\ Start(w)[2] = "Start" /\ Stop(w)[2] = "Stop"
      /\ \A m, b : Manager(m)[1] = "sessions" /\ Handler(b, m)[1] = "handler"
  BY DEF System, Operator, ToConnected, Start, Stop, Manager, Handler
<1>2. \A m, n : System(m) = System(n) => m = n
  BY <1>1
<1>3. \A m, n : System(m) # Operator(n)
  BY <1>1
<1>4. \A m, n : Operator(m) = Operator(n) => m = n
  BY <1>1
<1>5. \A m : ToConnected # System(m) /\ ToConnected # Operator(m)
  BY <1>1
<1>6. \A w, m : Start(w) # System(m) /\ Start(w) # Operator(m)
  BY <1>1
<1>7. \A w : Start(w) # ToConnected
  BY <1>1
<1>8. \A w, x : Start(w) # Stop(x)
  BY <1>1
<1>9. \A w, x : Start(w) = Start(x) => w = x
  BY <1>1
<1> QED
  BY <1>1, <1>2, <1>3, <1>4, <1>5, <1>6, <1>7, <1>8, <1>9

\* A call on a vehicle is one of five kinds on its machine or on a watchdog.
LEMMA MachineOrNot ==
  ASSUME NEW kind, NEW c, VehicleCallTable(kind, c)
  PROVE  \/ \E k \in {"CONNECTING", "RECOVERING", "AUTHENTICATED", "SAFE_MODE", "IDLE"} : c = System(k)
         \/ \E k \in {"ACTIVE_OPERATOR", "NO_OPERATOR"} : c = Operator(k)
         \/ c = ToConnected
         \/ c[1] # "SM" /\ (\A k : c # System(k) /\ c # Operator(k)) /\ c # ToConnected
<1>1. \/ \E k \in {"CONNECTING", "RECOVERING", "AUTHENTICATED", "SAFE_MODE", "IDLE"} : c = System(k)
      \/ \E k \in {"ACTIVE_OPERATOR", "NO_OPERATOR"} : c = Operator(k)
      \/ c = ToConnected
      \/ \E w \in Supervisors : c = Start(w) \/ c = Stop(w)
      \/ c \in CommandCalls
  BY DEF VehicleCallTable, Supervisors
<1>2. \A w \in Supervisors : Start(w)[1] = w /\ Stop(w)[1] = w /\ w # "SM"
  BY DEF Supervisors, Start, Stop
<1>3. \A d \in CommandCalls : d[1] # "SM"
  <2>1. /\ <<"Deadman", "Reset", "">>[1] # "SM"
        /\ <<"VehicleACKWatchdog", "CommandForwarded", "">>[1] # "SM"
        /\ <<"ACKTimeoutWatcher", "CommandReceived", "">>[1] # "SM"
        /\ <<"ACKTimeoutWatcher", "CommandACKed", "">>[1] # "SM"
    OBVIOUS
  <2> QED
    BY <2>1 DEF CommandCalls
<1>4. \A k : System(k)[1] = "SM" /\ Operator(k)[1] = "SM" /\ ToConnected[1] = "SM"
  BY DEF System, Operator, ToConnected
<1> QED
  BY <1>1, <1>2, <1>3, <1>4

\* The machine of the vehicle that is called.
LEMMA CallMachine ==
  ASSUME GoInv, CtxInv, NEW t \in Threads, VehicleCall(t),
         NEW v, v = go[t].vehicle, NEW c, c = Head(go[t].prog)
  PROVE  LET m == ctx[v].SM
             n == ctx'[v].SM
         IN  /\ m \in MachineType /\ v \in Vehicles
             /\ \A k : c = System(k) => n = TransitionSystem(m, k)
             /\ \A k : c = Operator(k) => n = TransitionOperator(m, k)
             /\ c = ToConnected => n = TransitionToConnected(m)
             /\ (\A k : c # System(k) /\ c # Operator(k)) /\ c # ToConnected => n = m
<1>1. VehicleCallTable(go[t].as, c) /\ v \in Vehicles /\ c[1] \in Objects
  BY Caller
<1>2. ctx[v].SM \in MachineType /\ "SM" \in Objects
  BY <1>1 DEF CtxInv, Objects
<1>3. /\ ctx'[v][c[1]] = Called(ctx[v][c[1]], c, go[t].operator)
      /\ \A y \in Objects : y # c[1] => ctx'[v][y] = ctx[v][y]
  BY CallEffect
<1>4. ASSUME NEW k, c = System(k) PROVE ctx'[v].SM = TransitionSystem(ctx[v].SM, k)
  <2>1. c[1] = "SM" /\ \A x, a : Called(x, c, a) = TransitionSystem(x, k)
    BY <1>4, CalledMachine
  <2> QED
    BY <1>3, <2>1
<1>5. ASSUME NEW k, c = Operator(k) PROVE ctx'[v].SM = TransitionOperator(ctx[v].SM, k)
  <2>1. c[1] = "SM" /\ \A x, a : Called(x, c, a) = TransitionOperator(x, k)
    BY <1>5, CalledMachine
  <2> QED
    BY <1>3, <2>1
<1>6. ASSUME c = ToConnected PROVE ctx'[v].SM = TransitionToConnected(ctx[v].SM)
  <2>1. c[1] = "SM" /\ \A x, a : Called(x, c, a) = TransitionToConnected(x)
    BY <1>6, CalledMachine
  <2> QED
    BY <1>3, <2>1
<1>7. ASSUME \A k : c # System(k) /\ c # Operator(k), c # ToConnected
      PROVE  ctx'[v].SM = ctx[v].SM
  <2>1. c[1] # "SM"
    BY <1>1, <1>7, MachineOrNot
  <2> QED
    BY <1>2, <1>3, <2>1
<1> QED
  BY <1>1, <1>2, <1>4, <1>5, <1>6, <1>7

\* Only TransitionToConnected gives the control, and a stop takes it.
LEMMA CallControl ==
  ASSUME GoInv, CtxInv, NEW t \in Threads, VehicleCall(t),
         NEW v, v = go[t].vehicle, NEW c, c = Head(go[t].prog)
  PROVE  /\ InControl(v)' => InControl(v) \/ (c = ToConnected /\ Sys(v) = "AUTHENTICATED")
         /\ c = System("SAFE_MODE") => ~InControl(v)'
<1>1. VehicleCallTable(go[t].as, c)
  BY Caller
<1>2. PICK m, n : m = ctx[v].SM /\ n = ctx'[v].SM
  OBVIOUS
<1>3. /\ m \in MachineType
      /\ \A k : c = System(k) => n = TransitionSystem(m, k)
      /\ \A k : c = Operator(k) => n = TransitionOperator(m, k)
      /\ c = ToConnected => n = TransitionToConnected(m)
      /\ (\A k : c # System(k) /\ c # Operator(k)) /\ c # ToConnected => n = m
  BY <1>2, CallMachine
<1>4. ASSUME NEW k \in {"CONNECTING", "RECOVERING", "AUTHENTICATED", "SAFE_MODE", "IDLE"}, c = System(k)
      PROVE  (n = m \/ n.System = k) /\ (k = "SAFE_MODE" => ~Controlling(n))
  <2>1. k \in SystemState
    BY DEF SystemState
  <2>2. (n = m /\ ~isValidTransition(m.System, k)) \/ n.System = k
    BY <1>3, <1>4, <2>1, SystemCall
  <2>3. Controlling(m) => isValidTransition(m.System, "SAFE_MODE")
    BY DEF Controlling, isValidTransition, validSystemTransitions
  <2> QED
    BY <2>2, <2>3 DEF Controlling
<1>5. ASSUME NEW k \in {"ACTIVE_OPERATOR", "NO_OPERATOR"}, c = Operator(k)
      PROVE  n.System = m.System \/ n.System = "SAFE_MODE"
  <2>1. k \in OperatorState
    BY DEF OperatorState
  <2> QED
    BY <1>3, <1>5, <2>1, OperatorCall
<1>6. ASSUME c = ToConnected PROVE m.System = "AUTHENTICATED" \/ n = m
  BY <1>3, <1>6, ToConnectedCall
<1>7. Controlling(n) => Controlling(m) \/ (c = ToConnected /\ m.System = "AUTHENTICATED")
  <2>1. \/ \E k \in {"CONNECTING", "RECOVERING", "AUTHENTICATED", "SAFE_MODE", "IDLE"} : c = System(k)
        \/ \E k \in {"ACTIVE_OPERATOR", "NO_OPERATOR"} : c = Operator(k)
        \/ c = ToConnected
        \/ (\A k : c # System(k) /\ c # Operator(k)) /\ c # ToConnected
    BY <1>1, MachineOrNot
  <2>2. \A k \in {"CONNECTING", "RECOVERING", "AUTHENTICATED", "SAFE_MODE", "IDLE"} :
          c = System(k) /\ Controlling(n) => Controlling(m)
    BY <1>4 DEF Controlling
  <2>3. \A k \in {"ACTIVE_OPERATOR", "NO_OPERATOR"} :
          c = Operator(k) /\ Controlling(n) => Controlling(m)
    BY <1>5 DEF Controlling
  <2> QED
    BY <2>1, <2>2, <2>3, <1>3, <1>6
<1>8. c = System("SAFE_MODE") => ~Controlling(n)
  BY <1>4
<1> QED
  BY <1>2, <1>7, <1>8 DEF InControl, Sys

\* The vehicle that is called is still taken further.
LEMMA CallTransit ==
  ASSUME ServerInv, NEW t \in Threads, VehicleCall(t), NEW v, v = go[t].vehicle
  PROVE  TransitInv(v)'
<1>0. SessInv /\ GoInv /\ CtxInv /\ v \in Vehicles /\ TransitInv(v)
  BY Caller DEF ServerInv, OwedInv
<1>1. PICK f, c : f = go[t] /\ c = Head(f.prog)
  OBVIOUS
<1>2. PICK g : g = Goes(f, Tail(f.prog))
  OBVIOUS
<1>3. go' = [go EXCEPT ![t] = g] /\ Keeps(f, g, c) /\ DOMAIN go = Threads
  BY <1>0, <1>1, <1>2, CallerKeeps DEF GoInv
<1>4. Fits(f) /\ f.prog # <<>> /\ VehicleCallTable(f.as, c)
  BY <1>0, <1>1, Caller DEF GoInv
<1>5. ASSUME NEW a, Owed(v, a), a # c PROVE Owed(v, a)'
  BY <1>0, <1>1, <1>3, <1>5, KeepsOwed
<1>6. ASSUME NEW b, Later(f.prog, c, b), b # c PROVE Owed(v, b)'
  <2>1. Has(g.prog, b) /\ g.vehicle = v
    BY <1>1, <1>3, <1>4, <1>6, Promised
  <2>2. go'[t] = g
    BY <1>3
  <2> QED
    BY <2>1, <2>2 DEF Owed
<1>7. Promises(f.as, f.prog)
  BY <1>4 DEF Fits, Program
<1>8. PICK m, n : m = ctx[v].SM /\ n = ctx'[v].SM
  OBVIOUS
<1>9. /\ m \in MachineType
      /\ \A k : c = System(k) => n = TransitionSystem(m, k)
      /\ \A k : c = Operator(k) => n = TransitionOperator(m, k)
      /\ c = ToConnected => n = TransitionToConnected(m)
      /\ (\A k : c # System(k) /\ c # Operator(k)) /\ c # ToConnected => n = m
  BY <1>0, <1>1, <1>8, CallMachine
<1>10. /\ m.System \in {"CONNECTING", "RECOVERING"} => Owed(v, System("AUTHENTICATED"))
       /\ m.System = "AUTHENTICATED" => Owed(v, ToConnected)
       /\ Controlling(m) /\ m.Operator = "NO_OPERATOR" => Owed(v, Operator("ACTIVE_OPERATOR"))
  BY <1>0, <1>8 DEF TransitInv, Sys, InControl
<1> SUFFICES /\ n.System \in {"CONNECTING", "RECOVERING"} => Owed(v, System("AUTHENTICATED"))'
             /\ n.System = "AUTHENTICATED" => Owed(v, ToConnected)'
             /\ Controlling(n) /\ n.Operator = "NO_OPERATOR" => Owed(v, Operator("ACTIVE_OPERATOR"))'
  BY <1>8 DEF TransitInv, Sys, InControl
<1>11. ASSUME NEW k \in {"CONNECTING", "RECOVERING", "AUTHENTICATED", "SAFE_MODE", "IDLE"}, c = System(k)
       PROVE  /\ n.System \in {"CONNECTING", "RECOVERING"} => Owed(v, System("AUTHENTICATED"))'
              /\ n.System = "AUTHENTICATED" => Owed(v, ToConnected)'
              /\ Controlling(n) /\ n.Operator = "NO_OPERATOR" => Owed(v, Operator("ACTIVE_OPERATOR"))'
  <2>1. k \in SystemState
    BY DEF SystemState
  <2>2. (n = m /\ ~isValidTransition(m.System, k)) \/ n.System = k
    BY <1>9, <1>11, <2>1, SystemCall
  <2>3. /\ Owed(v, ToConnected) => Owed(v, ToConnected)'
        /\ Owed(v, Operator("ACTIVE_OPERATOR")) => Owed(v, Operator("ACTIVE_OPERATOR"))'
        /\ k # "AUTHENTICATED" /\ Owed(v, System("AUTHENTICATED")) => Owed(v, System("AUTHENTICATED"))'
    BY <1>5, <1>11, CallsDiffer
  <2>4. k \in {"CONNECTING", "RECOVERING"} => Owed(v, System("AUTHENTICATED"))'
    BY <1>6, <1>7, <1>11, CallsDiffer DEF Promises
  <2>5. k = "AUTHENTICATED" => Owed(v, ToConnected)'
    BY <1>6, <1>7, <1>11, CallsDiffer DEF Promises
  <2>6. m.System \in {"CONNECTING", "RECOVERING"} => isValidTransition(m.System, "AUTHENTICATED")
    BY DEF isValidTransition, validSystemTransitions
  <2> QED
    BY <1>10, <2>2, <2>3, <2>4, <2>5, <2>6 DEF Controlling
<1>12. ASSUME NEW k \in {"ACTIVE_OPERATOR", "NO_OPERATOR"}, c = Operator(k)
       PROVE  /\ n.System \in {"CONNECTING", "RECOVERING"} => Owed(v, System("AUTHENTICATED"))'
              /\ n.System = "AUTHENTICATED" => Owed(v, ToConnected)'
              /\ Controlling(n) /\ n.Operator = "NO_OPERATOR" => Owed(v, Operator("ACTIVE_OPERATOR"))'
  <2>1. k \in OperatorState
    BY DEF OperatorState
  <2>2. /\ n.Operator = k /\ (k = "NO_OPERATOR" => ~Controlling(n))
        /\ n.System = m.System \/ n.System = "SAFE_MODE"
    BY <1>9, <1>12, <2>1, OperatorCall
  <2>3. /\ Owed(v, ToConnected) => Owed(v, ToConnected)'
        /\ Owed(v, System("AUTHENTICATED")) => Owed(v, System("AUTHENTICATED"))'
    BY <1>5, <1>12, CallsDiffer
  <2> QED
    BY <1>10, <2>2, <2>3
<1>13. ASSUME c = ToConnected
       PROVE  /\ n.System \in {"CONNECTING", "RECOVERING"} => Owed(v, System("AUTHENTICATED"))'
              /\ n.System = "AUTHENTICATED" => Owed(v, ToConnected)'
              /\ Controlling(n) /\ n.Operator = "NO_OPERATOR" => Owed(v, Operator("ACTIVE_OPERATOR"))'
  <2>1. (m.System = "AUTHENTICATED" /\ n.System = "CONNECTED") \/ (m.System # "AUTHENTICATED" /\ n = m)
    BY <1>9, <1>13, ToConnectedCall
  <2>2. Owed(v, System("AUTHENTICATED")) => Owed(v, System("AUTHENTICATED"))'
    BY <1>5, <1>13, CallsDiffer
  <2>3. Owed(v, Operator("ACTIVE_OPERATOR"))'
    BY <1>6, <1>7, <1>13, CallsDiffer DEF Promises
  <2> QED
    BY <1>10, <2>1, <2>2, <2>3
<1>14. ASSUME (\A k : c # System(k) /\ c # Operator(k)) /\ c # ToConnected
       PROVE  /\ n.System \in {"CONNECTING", "RECOVERING"} => Owed(v, System("AUTHENTICATED"))'
              /\ n.System = "AUTHENTICATED" => Owed(v, ToConnected)'
              /\ Controlling(n) /\ n.Operator = "NO_OPERATOR" => Owed(v, Operator("ACTIVE_OPERATOR"))'
  BY <1>5, <1>9, <1>10, <1>14
<1> QED
  BY <1>4, <1>11, <1>12, <1>13, <1>14, MachineOrNot

\* The session that took the control is still attended.
LEMMA CallAttended ==
  ASSUME ServerInv, NEW t \in Threads, VehicleCall(t), NEW v, v = go[t].vehicle
  PROVE  AttendedInv(v)'
<1>0. SessInv /\ GoInv /\ CtxInv /\ v \in Vehicles /\ AttendedInv(v) /\ attached \subseteq SessionIds
  BY Caller DEF ServerInv, OwedInv, RestInv, SessInv, SessTypeOK
<1>1. PICK f, c, s : f = go[t] /\ c = Head(f.prog) /\ s = vehicleController[v]
  OBVIOUS
<1>2. PICK g : g = Goes(f, Tail(f.prog))
  OBVIOUS
<1>3. go' = [go EXCEPT ![t] = g] /\ Keeps(f, g, c) /\ DOMAIN go = Threads
  BY <1>0, <1>1, <1>2, CallerKeeps DEF GoInv
<1>4. /\ VehicleCallTable(f.as, c) /\ c[1] \in Objects
      /\ Placed(t, f) /\ Belongs(f)
  BY <1>0, <1>1, Caller DEF GoInv
<1>5. /\ s = vehicleController'[v] /\ attached' \subseteq attached
      /\ c[2] = "TransitionToConnected" /\ Sys(v) = "AUTHENTICATED" =>
           grantor'[v] = f.session /\ (f.session \in attached' => Open(f.session))
      /\ ~(c[2] = "TransitionToConnected" /\ Sys(v) = "AUTHENTICATED") => grantor' = grantor
  BY <1>1, CallHistory DEF sessVars
<1>6. /\ InControl(v)' => InControl(v) \/ (c = ToConnected /\ Sys(v) = "AUTHENTICATED")
      /\ c = System("SAFE_MODE") => ~InControl(v)'
  BY <1>0, <1>1, CallControl
<1> SUFFICES ASSUME InControl(v)', s \in attached', grantor'[v] = s
             PROVE  Open(s)' \/ StillStops(s)'
  BY <1>5 DEF AttendedInv
<1>7. CASE c = ToConnected /\ Sys(v) = "AUTHENTICATED"
  <2>1. Open(s)
    BY <1>5, <1>7, CalledMachine
  <2> QED
    BY <1>0, <1>1, <1>3, <2>1, KeepsOpen
<1>8. CASE ~(c = ToConnected /\ Sys(v) = "AUTHENTICATED")
  <2>1. InControl(v)
    BY <1>6, <1>8
  <2>2. grantor'[v] = grantor[v]
    <3>1. c[2] = "TransitionToConnected" => c = ToConnected
      <4>1. \A k, w : /\ System(k)[2] # "TransitionToConnected" /\ Operator(k)[2] # "TransitionToConnected"
                      /\ Start(w)[2] # "TransitionToConnected" /\ Stop(w)[2] # "TransitionToConnected"
        BY DEF System, Operator, Start, Stop
      <4>2. \A d \in CommandCalls : d[2] # "TransitionToConnected"
        <5>1. /\ <<"Deadman", "Reset", "">>[2] # "TransitionToConnected"
              /\ <<"VehicleACKWatchdog", "CommandForwarded", "">>[2] # "TransitionToConnected"
              /\ <<"ACKTimeoutWatcher", "CommandReceived", "">>[2] # "TransitionToConnected"
              /\ <<"ACKTimeoutWatcher", "CommandACKed", "">>[2] # "TransitionToConnected"
          OBVIOUS
        <5> QED
          BY <5>1 DEF CommandCalls
      <4> QED
        BY <1>4, <4>1, <4>2 DEF VehicleCallTable
    <3> QED
      BY <1>5, <1>8, <3>1
  <2>3. Open(s) \/ StillStops(s)
    BY <1>0, <1>1, <1>5, <2>1, <2>2 DEF AttendedInv
  <2>4. c \notin GuardCalls
    BY <1>4, <1>6, OtherObjects DEF GuardCalls
  <2> QED
    BY <1>0, <1>1, <1>3, <2>3, <2>4, KeepsOpen, KeepsStops
<1> QED
  BY <1>7, <1>8

\* Only the calls that give a vehicle to an operator start a watchdog.
LEMMA Starter ==
  ASSUME NEW kind, NEW w, w # "SM", VehicleCallTable(kind, Start(w))
  PROVE  kind \in {"start", "operator"}
<1>1. Start(w)[1] = w /\ Start(w)[2] = "Start"
  BY CalledWatchdog
<1>2. \A n, x : Start(w) # System(n) /\ Start(w) # Operator(n) /\ Start(w) # Stop(x)
  BY DEF Start, System, Operator, Stop
<1>3. /\ <<"Deadman", "Reset", "">>[2] # "Start"
      /\ <<"VehicleACKWatchdog", "CommandForwarded", "">>[2] # "Start"
      /\ <<"ACKTimeoutWatcher", "CommandReceived", "">>[2] # "Start"
      /\ <<"ACKTimeoutWatcher", "CommandACKed", "">>[2] # "Start"
  OBVIOUS
<1>4. Start(w) \notin CommandCalls
  BY <1>1, <1>3 DEF CommandCalls
<1> QED
  BY <1>2, <1>4 DEF VehicleCallTable

\* Only a Stop turns a watchdog off, and a Start for the session that holds the
\* vehicle turns it on, for that session's operator.
LEMMA CallEnabled ==
  ASSUME SessInv, GoInv, CtxInv, NEW t \in Threads, VehicleCall(t), NEW v, v = go[t].vehicle,
         NEW c, c = Head(go[t].prog), NEW w \in Watched, IsVehicleLocked(v)
  PROVE  /\ c = Start(w) /\ go[t].session = vehicleController[v] => Enabled(v, w)'
         /\ c # Stop(w) /\ c # Start(w) /\ Enabled(v, w) => Enabled(v, w)'
<1>0. UNCHANGED <<sessions, vehicleController>>
  BY DEF VehicleCall, sessVars
<1>1. VehicleCallTable(go[t].as, c) /\ v \in Vehicles /\ c[1] \in Objects
  BY Caller
<1>2. /\ ctx'[v][c[1]] = Called(ctx[v][c[1]], c, go[t].operator)
      /\ \A y \in Objects : y # c[1] => ctx'[v][y] = ctx[v][y]
  BY CallEffect
<1>3. w \in Objects /\ w # "SM" /\ (w = "Deadman" \/ w \in PollWatchdogs) /\ w # "VehicleACKWatchdog"
      /\ w # "ACKTimeoutWatcher" /\ "Deadman" \notin PollWatchdogs
  BY ServerAssumption DEF Watched, Objects, TimerWatchdogs, PollWatchdogs
<1>4. w = "Deadman" => WatchdogOK(ctx[v][w])
  BY <1>1 DEF CtxInv, TimerWatchdogs
<1>5. w \in PollWatchdogs => ctx[v][w] \in Poller
  BY <1>1 DEF CtxInv
<1>6. go[t].operator \in Operators \cup {NoConn}
  BY DEF GoInv, Fits
<1>7. CASE c[1] # w
  <2>1. c # Start(w)
    BY <1>7, CalledWatchdog
  <2>2. ctx'[v][w] = ctx[v][w]
    BY <1>2, <1>3, <1>7
  <2> QED
    BY <1>0, <2>1, <2>2 DEF Enabled
<1>8. ASSUME c = Start(w), go[t].session = vehicleController[v] PROVE Enabled(v, w)'
  <2>1. sessions[vehicleController[v]].operator = go[t].operator
    <3>1. go[t].as \in {"start", "operator"}
      BY <1>1, <1>3, <1>8, Starter
    <3>2. vehicleController[v] \in SessionIds /\ Live(vehicleController[v])
      BY <1>1, ControllerBelongs DEF IsVehicleLocked
    <3> QED
      BY <1>8, <3>1, <3>2 DEF GoInv, Belongs
  <2>2. c[1] = w
    BY <1>8, CalledWatchdog
  <2>3. CASE w = "Deadman"
    <3>1. ctx'[v][w] = DeadmanStart(ctx[v][w])
      BY <1>2, <1>8, <2>2, <2>3, CalledWatchdog
    <3>2. ~ctx'[v][w].stopped
      BY <1>4, <2>3, <3>1, TimerCalls
    <3> QED
      BY <2>3, <3>2 DEF Enabled
  <2>4. CASE w \in PollWatchdogs
    <3>1. ctx'[v][w] = PollerStart(ctx[v][w], go[t].operator)
      BY <1>2, <1>8, <2>2, <2>4, CalledWatchdog
    <3>2. PICK p \in Poller, o \in Operators \cup {NoConn} : p = ctx[v][w] /\ o = go[t].operator
      BY <1>5, <1>6, <2>4
    <3>3. PollerStart(p, o).run.phase = "wait" /\ PollerStart(p, o).run.account = o
      BY PollerCalls
    <3> QED
      BY <1>0, <1>3, <2>1, <2>4, <3>1, <3>2, <3>3 DEF Enabled
  <2> QED
    BY <1>3, <2>3, <2>4
<1>9. CASE c[1] = w /\ c # Start(w)
  <2>1. \A k : System(k)[1] = "SM" /\ Operator(k)[1] = "SM" /\ ToConnected[1] = "SM"
    BY DEF System, Operator, ToConnected
  <2>2. \A x : Start(x)[1] = x /\ Stop(x)[1] = x
    BY DEF Start, Stop
  <2>3. /\ <<"Deadman", "Reset", "">>[1] = "Deadman"
        /\ <<"VehicleACKWatchdog", "CommandForwarded", "">>[1] = "VehicleACKWatchdog"
        /\ <<"ACKTimeoutWatcher", "CommandReceived", "">>[1] = "ACKTimeoutWatcher"
        /\ <<"ACKTimeoutWatcher", "CommandACKed", "">>[1] = "ACKTimeoutWatcher"
    OBVIOUS
  <2>4. c \in CommandCalls => c = <<"Deadman", "Reset", "">> /\ w = "Deadman"
    BY <1>3, <1>9, <2>3 DEF CommandCalls
  <2>5. \A k : c # System(k) /\ c # Operator(k) /\ c # ToConnected
    BY <1>3, <1>9, <2>1
  <2>6. \A x : (c = Start(x) => x = w) /\ (c = Stop(x) => x = w)
    BY <1>9, <2>2
  <2>7. c = Stop(w) \/ (c = <<"Deadman", "Reset", "">> /\ w = "Deadman")
    BY <1>1, <1>9, <2>4, <2>5, <2>6 DEF VehicleCallTable
  <2>8. CASE c = <<"Deadman", "Reset", "">> /\ w = "Deadman"
    <3>1. ctx'[v][w] = DeadmanReset(ctx[v][w])
      BY <1>2, <1>9, <2>8, CalledCommand
    <3>2. WatchdogOK(ctx[v][w])
      BY <1>4, <2>8
    <3>3. DeadmanReset(ctx[v][w]).stopped <=> ctx[v][w].stopped
      BY <3>2, TimerCalls
    <3>4. ctx'[v][w].stopped <=> ctx[v][w].stopped
      BY <3>1, <3>3
    <3> QED
      BY <1>9, <2>8, <3>4 DEF Enabled
  <2> QED
    BY <1>9, <2>7, <2>8
<1> QED
  BY <1>7, <1>8, <1>9

\* A watchdog is only turned off for another session, or by a goroutine that
\* still has to end the session or to stop the vehicle.
LEMMA StopSupervised ==
  ASSUME ServerInv, NEW t \in Threads, VehicleCall(t), NEW v, v = go[t].vehicle,
         NEW w \in Watched, Head(go[t].prog) = Stop(w), NEW s, s = vehicleController[v]
  PROVE  w \in lostTo'[v] \/ BeingEnded(v)' \/ (w \in Resumed /\ StillStops(s)')
<1>0. SessInv /\ GoInv /\ CtxInv
  BY DEF ServerInv
<1>1. PICK f, c : f = go[t] /\ c = Head(f.prog)
  OBVIOUS
<1>2. PICK g : g = Goes(f, Tail(f.prog))
  OBVIOUS
<1>3. go' = [go EXCEPT ![t] = g] /\ Keeps(f, g, c) /\ DOMAIN go = Threads
  BY <1>0, <1>1, <1>2, CallerKeeps DEF GoInv
<1>4. /\ VehicleCallTable(f.as, c) /\ Placed(t, f) /\ Fits(f) /\ f.prog # <<>>
  BY <1>0, <1>1, Caller DEF GoInv
<1>5. s = vehicleController'[v] /\ (c[2] \in {"Start", "Stop"} /\ f.session # s => c[1] \in lostTo'[v])
  BY <1>1, CallHistory DEF sessVars
<1>6. c = Stop(w) /\ c[1] = w /\ c[2] = "Stop"
  BY <1>1, CalledWatchdog
<1>7. go'[t] = g
  BY <1>3
<1>8. Promises(f.as, f.prog)
  BY <1>4 DEF Fits, Program
<1>9. \A m, b : Manager(m) # c /\ Handler(b, "") # c
  <2>1. w # "sessions" /\ w # "handler"
    BY ServerAssumption DEF Watched, PollWatchdogs
  <2>2. \A m, b : Manager(m)[1] = "sessions" /\ Handler(b, "")[1] = "handler"
    BY DEF Manager, Handler
  <2> QED
    BY <1>6, <2>1, <2>2
<1>15. ASSUME NEW b, Later(f.prog, c, b), b # c
       PROVE  Has(g.prog, b) /\ g.as = f.as /\ g.session = f.session
  BY <1>1, <1>3, <1>4, <1>15, Promised
<1>10. CASE f.session # s
  BY <1>5, <1>6, <1>10
<1>11. CASE f.session = s /\ f.as = "end"
  <2>1. Later(f.prog, c, Manager("ReleaseSession"))
    BY <1>6, <1>8, <1>11 DEF Promises
  <2>2. Has(g.prog, Manager("ReleaseSession")) /\ g.as = "end" /\ g.session = s
    BY <1>9, <1>15, <1>11, <2>1
  <2> QED
    BY <1>5, <1>7, <2>2 DEF BeingEnded
<1>12. CASE f.as = "endAll"
  <2>1. Later(f.prog, c, Manager("EndSession"))
    BY <1>6, <1>8, <1>12 DEF Promises
  <2>2. Has(g.prog, Manager("EndSession")) /\ g.as = "endAll"
    BY <1>9, <1>15, <1>12, <2>1
  <2> QED
    BY <1>7, <2>2 DEF BeingEnded
<1>13. CASE f.session = s /\ f.as = "closing" /\ w \in {"Deadman", "AuthWatchdog"}
  <2>1. Later(f.prog, c, Handler("StillActive", ""))
    BY <1>6, <1>8, <1>13 DEF Promises
  <2>2. Has(g.prog, Handler("StillActive", "")) /\ g.as = "closing" /\ g.session = s
    BY <1>9, <1>15, <1>13, <2>1
  <2>3. t \in Conns /\ w \in Resumed
    BY <1>4, <1>13 DEF Placed, Resumed, Watched
  <2>4. Guarded(g.prog)
    BY <2>2 DEF Guarded
  <2>5. StillStops(s)'
    BY <1>7, <2>2, <2>3, <2>4 DEF StillStops
  <2> QED
    BY <1>5, <2>3, <2>5
<1>14. f.as \in {"end", "endAll"} \/ (f.as = "closing" /\ w \in {"Deadman", "AuthWatchdog"})
  <2>1. \A k, x : c # System(k) /\ c # Operator(k) /\ c # ToConnected /\ c # Start(x)
    BY <1>6 DEF System, Operator, ToConnected, Start, Stop
  <2>2. c \notin CommandCalls
    BY <1>6 DEF CommandCalls, Stop
  <2>3. \A x : c = Stop(x) => x = w
    BY <1>6 DEF Stop
  <2> QED
    BY <1>4, <2>1, <2>2, <2>3 DEF VehicleCallTable
<1> QED
  BY <1>10, <1>11, <1>12, <1>13, <1>14

\* The watchdogs of the vehicle that is called.
LEMMA CallSupervised ==
  ASSUME ServerInv, NEW t \in Threads, VehicleCall(t), NEW v, v = go[t].vehicle, NEW w \in Watched
  PROVE  SupervisedInv(v, w)'
<1>0. SessInv /\ GoInv /\ CtxInv /\ v \in Vehicles /\ SupervisedInv(v, w)
  BY Caller DEF ServerInv, OwedInv
<1>1. PICK f, c, s : f = go[t] /\ c = Head(f.prog) /\ s = vehicleController[v]
  OBVIOUS
<1>2. PICK g : g = Goes(f, Tail(f.prog))
  OBVIOUS
<1>3. go' = [go EXCEPT ![t] = g] /\ Keeps(f, g, c) /\ DOMAIN go = Threads
  BY <1>0, <1>1, <1>2, CallerKeeps DEF GoInv
<1>4. Fits(f) /\ f.prog # <<>> /\ c[1] \in Objects
  BY <1>0, <1>1, Caller DEF GoInv
<1>5. /\ s = vehicleController'[v] /\ firing' = firing /\ sessions' = sessions
      /\ \A x \in lostTo[v] : c[1] # x \/ c[2] \notin {"Start", "Stop"} => x \in lostTo'[v]
      /\ c[2] \in {"Start", "Stop"} /\ f.session # s => c[1] \in lostTo'[v]
  BY <1>1, CallHistory DEF sessVars
<1>6. \A m, b, a : c # Manager(m) /\ c # Handler(b, a)
  BY <1>4, OtherObjects
<1> SUFFICES ASSUME IsVehicleLocked(v)'
             PROVE  \/ Enabled(v, w)' \/ w \in lostTo'[v]
                    \/ Owed(v, Start(w))'
                    \/ BeingEnded(v)'
                    \/ /\ w \in Resumed
                       /\ ~InControl(v)' \/ w \in firing'[v] \/ StillStops(s)'
  BY <1>5 DEF SupervisedInv
<1>7. IsVehicleLocked(v) /\ s \in SessionIds
  <2>1. IsVehicleLocked(v)
    BY <1>1, <1>5 DEF IsVehicleLocked, Live
  <2> QED
    BY <1>0, <1>1, <2>1, ControllerBelongs DEF IsVehicleLocked
<1>8. CASE c = Stop(w)
  BY <1>1, <1>5, <1>8, StopSupervised
<1>9. CASE c = Start(w)
  <2>1. f.session = s => Enabled(v, w)'
    BY <1>0, <1>1, <1>7, <1>9, CallEnabled
  <2>2. f.session # s => w \in lostTo'[v]
    BY <1>5, <1>9, CalledWatchdog
  <2> QED
    BY <2>1, <2>2
<1>10. CASE c # Stop(w) /\ c # Start(w)
  <2>1. Enabled(v, w) => Enabled(v, w)'
    BY <1>0, <1>1, <1>7, <1>10, CallEnabled
  <2>2. c[1] # w \/ c[2] \notin {"Start", "Stop"}
    <3>1. VehicleCallTable(f.as, c)
      BY <1>0, <1>1, Caller
    <3>2. \A k : /\ System(k)[2] \notin {"Start", "Stop"} /\ Operator(k)[2] \notin {"Start", "Stop"}
                 /\ ToConnected[2] \notin {"Start", "Stop"}
      BY DEF System, Operator, ToConnected
    <3>3. \A d \in CommandCalls : d[2] \notin {"Start", "Stop"}
      <4>1. /\ <<"Deadman", "Reset", "">>[2] = "Reset"
            /\ <<"VehicleACKWatchdog", "CommandForwarded", "">>[2] = "CommandForwarded"
            /\ <<"ACKTimeoutWatcher", "CommandReceived", "">>[2] = "CommandReceived"
            /\ <<"ACKTimeoutWatcher", "CommandACKed", "">>[2] = "CommandACKed"
        OBVIOUS
      <4> QED
        BY <4>1 DEF CommandCalls
    <3>4. \A x : Start(x)[1] = x /\ Stop(x)[1] = x
      BY DEF Start, Stop
    <3>5. \A x : (c = Start(x) => x # w) /\ (c = Stop(x) => x # w)
      BY <1>10
    <3> QED
      BY <3>1, <3>2, <3>3, <3>4, <3>5 DEF VehicleCallTable
  <2>3. w \in lostTo[v] => w \in lostTo'[v]
    BY <1>5, <2>2
  <2>4. ASSUME Owed(v, Start(w)) PROVE Owed(v, Start(w))'
    <3>1. PICK a : a = Start(w)
      OBVIOUS
    <3>2. Owed(v, a) /\ a # c
      BY <1>10, <2>4, <3>1
    <3>3. Owed(v, a)'
      BY <1>0, <1>1, <1>3, <3>2, KeepsOwed
    <3> QED
      BY <3>1, <3>3
  <2>5. BeingEnded(v) => BeingEnded(v)'
    BY <1>0, <1>1, <1>3, <1>5, <1>6, KeepsEnding
  <2>6. ASSUME w \in Resumed, ~InControl(v) PROVE ~InControl(v)' \/ Owed(v, Start(w))'
    <3>1. ~InControl(v)' \/ c = ToConnected
      BY <1>0, <1>1, <2>6, CallControl
    <3>2. ASSUME c = ToConnected PROVE Owed(v, Start(w))'
      <4>1. Later(f.prog, c, Start(w)) /\ Start(w) # c
        BY <1>4, <1>10, <2>6, <3>2 DEF Fits, Program, Promises
      <4>2. Has(g.prog, Start(w)) /\ g.vehicle = v
        BY <1>1, <1>3, <1>4, <4>1, Promised
      <4>3. go'[t] = g
        BY <1>3
      <4> QED
        BY <4>2, <4>3 DEF Owed
    <3> QED
      BY <3>1, <3>2
  <2>7. StillStops(s) => StillStops(s)' \/ ~InControl(v)'
    <3>1. c = System("SAFE_MODE") => ~InControl(v)'
      BY <1>0, <1>1, CallControl
    <3>2. c # System("SAFE_MODE") => c \notin GuardCalls
      BY <1>6 DEF GuardCalls
    <3> QED
      BY <1>0, <1>1, <1>3, <3>1, <3>2, KeepsStops
  <2>8. \/ Enabled(v, w) \/ w \in lostTo[v] \/ Owed(v, Start(w)) \/ BeingEnded(v)
        \/ w \in Resumed /\ (~InControl(v) \/ w \in firing[v] \/ StillStops(s))
    BY <1>0, <1>1, <1>7 DEF SupervisedInv
  <2> QED
    BY <1>5, <2>1, <2>3, <2>4, <2>5, <2>6, <2>7, <2>8
<1> QED
  BY <1>8, <1>9, <1>10

LEMMA VehicleCallInv ==
  ASSUME ServerInv, NEW t \in Threads, VehicleCall(t)
  PROVE  GoInv' /\ CtxInv' /\ RestInv' /\ OwedInv'
<1>0. SessInv /\ GoInv /\ CtxInv /\ RestInv
  BY DEF ServerInv
<1>1. PICK f, c, v : f = go[t] /\ c = Head(f.prog) /\ v = f.vehicle
  OBVIOUS
<1>2. v \in Vehicles /\ c[1] \in Objects /\ f.prog # <<>> /\ Fits(f)
  BY <1>0, <1>1, Caller DEF GoInv
<1>3. CtxInv'
  BY <1>0, CallEffect
<1>4. GoInv'
  <2>1. go' = [go EXCEPT ![t] = Goes(go[t], Rest(t))] /\ UNCHANGED sessVars
    BY DEF VehicleCall
  <2>2. [SessNext]_sessVars /\ OperatorsStay /\ go[t].prog # <<>>
    BY <1>1, <1>2, <2>1 DEF OperatorsStay, sessVars
  <2> QED
    BY <1>0, <2>1, <2>2, CallGoInv
<1>5. RestInv'
  <2>1. UNCHANGED <<sessVars, conns, firing, busFailures, revoked>> /\ attached' \subseteq attached
    BY DEF VehicleCall
  <2>2. lostTo' \in [Vehicles -> SUBSET Objects]
    <3>1. lostTo' = lostTo \/ lostTo' = [lostTo EXCEPT ![v] = @ \cup {c[1]}]
          \/ lostTo' = [lostTo EXCEPT ![v] = @ \ {c[1]}]
      BY <1>1 DEF VehicleCall
    <3>2. lostTo \in [Vehicles -> SUBSET Objects]
      BY <1>0 DEF RestInv
    <3> QED
      BY <1>2, <3>1, <3>2
  <2>3. grantor' \in [Vehicles -> SessionIds \cup {NoSession}]
    <3>1. grantor' = grantor \/ grantor' = [grantor EXCEPT ![v] = f.session]
      BY <1>1 DEF VehicleCall
    <3>2. grantor \in [Vehicles -> SessionIds \cup {NoSession}] /\ f.session \in SessionIds \cup {NoSession}
      BY <1>0, <1>2 DEF RestInv, Fits
    <3> QED
      BY <1>2, <3>1, <3>2
  <2> QED
    BY <1>0, <2>1, <2>2, <2>3 DEF RestInv, sessVars
<1>6. ASSUME NEW u \in Vehicles
      PROVE  TransitInv(u)' /\ AttendedInv(u)' /\ \A w \in Watched : SupervisedInv(u, w)'
  <2>1. CASE u # v
    BY <1>1, <2>1, CallElsewhere
  <2>2. CASE u = v
    <3>1. u = go[t].vehicle
      BY <1>1, <2>2
    <3>2. TransitInv(u)'
      BY <3>1, CallTransit
    <3>3. AttendedInv(u)'
      BY <3>1, CallAttended
    <3>4. ASSUME NEW w \in Watched PROVE SupervisedInv(u, w)'
      BY <3>1, CallSupervised
    <3> QED
      BY <3>2, <3>3, <3>4
  <2> QED
    BY <2>1, <2>2
<1>7. OwedInv'
  BY <1>6 DEF OwedInv
<1> QED
  BY <1>3, <1>4, <1>5, <1>7

-----------------------------------------------------------------------------
(* What is owed, in the other steps *)

\* What a step has to leave alone, or to replace, for the vehicle v of session s.
Calm(v, s) ==
  /\ vehicleController'[v] = s /\ grantor'[v] = grantor[v] /\ lostTo'[v] = lostTo[v]
  /\ IsVehicleLocked(v)' => IsVehicleLocked(v)
  /\ s \in attached' => s \in attached \/ Open(s)'
  /\ Sys(v)' \in {"CONNECTING", "RECOVERING", "AUTHENTICATED"} => Sys(v)' = Sys(v)
  /\ InControl(v)' => InControl(v)
  /\ InControl(v)' /\ ctx'[v].SM.Operator = "NO_OPERATOR" => ctx[v].SM.Operator = "NO_OPERATOR"
  /\ IsVehicleLocked(v)' => \A w \in Watched :
       Enabled(v, w) => Enabled(v, w)' \/ (w \in Resumed /\ (~InControl(v)' \/ w \in firing'[v]))
  /\ \A w \in Watched : w \in firing[v] => w \in firing'[v] \/ ~InControl(v)'

Carried(v, s) ==
  /\ \A a \in GrantCalls : Owed(v, a) => Owed(v, a)'
  /\ s \in SessionIds /\ Open(s) => Open(s)' \/ StillStops(s)'
  /\ s \in SessionIds /\ StillStops(s) => StillStops(s)' \/ ~InControl(v)'
  /\ BeingEnded(v) => BeingEnded(v)'

OwedAt(v) == TransitInv(v) /\ AttendedInv(v) /\ \A w \in Watched : SupervisedInv(v, w)

LEMMA CalmOwed ==
  ASSUME ServerInv, NEW v \in Vehicles, NEW s, s = vehicleController[v], Calm(v, s), Carried(v, s)
  PROVE  OwedAt(v)'
<1>1. TransitInv(v) /\ AttendedInv(v) /\ (\A w \in Watched : SupervisedInv(v, w))
      /\ attached \subseteq SessionIds /\ SessInv
  BY DEF ServerInv, OwedInv, RestInv, SessInv, SessTypeOK
<1>2. TransitInv(v)'
  <2>1. {System("AUTHENTICATED"), ToConnected, Operator("ACTIVE_OPERATOR")} \subseteq GrantCalls
    BY DEF GrantCalls
  <2>2. /\ Owed(v, System("AUTHENTICATED")) => Owed(v, System("AUTHENTICATED"))'
        /\ Owed(v, ToConnected) => Owed(v, ToConnected)'
        /\ Owed(v, Operator("ACTIVE_OPERATOR")) => Owed(v, Operator("ACTIVE_OPERATOR"))'
    BY <2>1 DEF Carried
  <2>3. /\ Sys(v)' \in {"CONNECTING", "RECOVERING", "AUTHENTICATED"} => Sys(v)' = Sys(v)
        /\ InControl(v)' => InControl(v)
        /\ InControl(v)' /\ ctx'[v].SM.Operator = "NO_OPERATOR" => ctx[v].SM.Operator = "NO_OPERATOR"
    BY DEF Calm
  <2> QED
    BY <1>1, <2>2, <2>3 DEF TransitInv
<1>3. AttendedInv(v)'
  BY <1>1 DEF AttendedInv, Calm, Carried
<1>4. ASSUME NEW w \in Watched PROVE SupervisedInv(v, w)'
  <2> SUFFICES ASSUME IsVehicleLocked(v)'
               PROVE  \/ Enabled(v, w)' \/ w \in lostTo'[v]
                      \/ Owed(v, Start(w))'
                      \/ BeingEnded(v)'
                      \/ /\ w \in Resumed
                         /\ ~InControl(v)' \/ w \in firing'[v] \/ StillStops(s)'
    BY DEF SupervisedInv, Calm
  <2>1. IsVehicleLocked(v) /\ s \in SessionIds
    BY <1>1, ControllerBelongs DEF Calm, IsVehicleLocked
  <2>2. Start(w) \in GrantCalls
    BY ServerAssumption DEF GrantCalls, Watched, PollWatchdogs
  <2>3. \/ Enabled(v, w) \/ w \in lostTo[v] \/ Owed(v, Start(w)) \/ BeingEnded(v)
        \/ w \in Resumed /\ (~InControl(v) \/ w \in firing[v] \/ StillStops(s))
    BY <1>1, <2>1 DEF SupervisedInv
  <2>4. Owed(v, Start(w)) => Owed(v, Start(w))'
    BY <2>2 DEF Carried
  <2>5. /\ BeingEnded(v) => BeingEnded(v)'
        /\ StillStops(s) => StillStops(s)' \/ ~InControl(v)'
    BY <2>1 DEF Carried
  <2>6. /\ InControl(v)' => InControl(v)
        /\ Enabled(v, w) => Enabled(v, w)' \/ (w \in Resumed /\ (~InControl(v)' \/ w \in firing'[v]))
        /\ w \in firing[v] => w \in firing'[v] \/ ~InControl(v)'
        /\ lostTo'[v] = lostTo[v]
    BY DEF Calm
  <2> QED
    BY <2>3, <2>4, <2>5, <2>6
<1> QED
  BY <1>2, <1>3, <1>4 DEF OwedAt

\* A vehicle whose lock is freed.
LEMMA FreedOwed ==
  ASSUME ServerInv, NEW v \in Vehicles, vehicleController'[v] = NoSession,
         attached' \subseteq attached, UNCHANGED ctx,
         \A a \in GrantCalls : Owed(v, a) => Owed(v, a)'
  PROVE  OwedAt(v)'
<1>1. TransitInv(v) /\ attached \subseteq SessionIds
  BY DEF ServerInv, OwedInv, RestInv, SessInv, SessTypeOK
<1>2. TransitInv(v)'
  <2>1. {System("AUTHENTICATED"), ToConnected, Operator("ACTIVE_OPERATOR")} \subseteq GrantCalls
    BY DEF GrantCalls
  <2>2. /\ Owed(v, System("AUTHENTICATED")) => Owed(v, System("AUTHENTICATED"))'
        /\ Owed(v, ToConnected) => Owed(v, ToConnected)'
        /\ Owed(v, Operator("ACTIVE_OPERATOR")) => Owed(v, Operator("ACTIVE_OPERATOR"))'
    BY <2>1
  <2> QED
    BY <1>1, <2>2 DEF TransitInv, Sys, InControl
<1>3. vehicleController'[v] \notin attached' /\ ~IsVehicleLocked(v)'
  BY <1>1, SessionAssumption DEF IsVehicleLocked
<1> QED
  BY <1>2, <1>3 DEF OwedAt, AttendedInv, SupervisedInv

\* The vehicles themselves do not change.
LEMMA SameVehicles ==
  ASSUME UNCHANGED <<ctx, firing, lostTo, grantor>>, NEW v, NEW s,
         vehicleController[v] = s, vehicleController'[v] = s,
         IsVehicleLocked(v)' => /\ IsVehicleLocked(v)
                                /\ sessions'[s].operator = sessions[s].operator,
         s \in attached' => s \in attached \/ Open(s)'
  PROVE  Calm(v, s) /\ (InControl(v)' <=> InControl(v))
<1>1. InControl(v)' <=> InControl(v)
  BY DEF InControl
<1>2. Sys(v)' = Sys(v)
  BY DEF Sys
<1>3. IsVehicleLocked(v)' => \A w \in Watched : Enabled(v, w)' <=> Enabled(v, w)
  BY DEF Enabled
<1> QED
  BY <1>1, <1>2, <1>3 DEF Calm

LEMMA SessionCallInv ==
  ASSUME ServerInv, NEW t \in Threads, SessionCall(t)
  PROVE  GoInv' /\ CtxInv' /\ RestInv' /\ OwedInv'
<1>0. SessInv /\ GoInv /\ CtxInv /\ RestInv
  BY DEF ServerInv
<1>1. /\ SessNext /\ OperatorsStay
      /\ go[t].prog # <<>> /\ Head(go[t].prog)[1] = "sessions"
      /\ \/ /\ go[t].as \in {"end", "closing"} /\ go[t].session \in SessionIds
            /\ ReleaseSession(go[t].session)
         \/ go[t].as \in {"stop", "closing"} /\ SaveCheckpoint
         \/ go[t].as = "endAll" /\ EndSession
  BY <1>0, SessionCallUses
<1>2. /\ go' = [go EXCEPT ![t] = Goes(go[t], Rest(t))] /\ attached' \subseteq attached
      /\ UNCHANGED <<ctx, conns, firing, busFailures, revoked, lostTo, grantor>>
  BY DEF SessionCall
<1>3. GoInv'
  BY <1>0, <1>1, <1>2, CallGoInv
<1>4. CtxInv'
  BY <1>0, <1>2 DEF CtxInv
<1>5. RestInv'
  <2>1. issued \subseteq issued'
    BY <1>0, <1>1, SessionsStay
  <2> QED
    BY <1>0, <1>2, <2>1 DEF RestInv
<1>6. PICK f, c : f = go[t] /\ c = Head(f.prog)
  OBVIOUS
<1>7. PICK g : g = Goes(f, Tail(f.prog))
  OBVIOUS
<1>8. go' = [go EXCEPT ![t] = g] /\ Keeps(f, g, c)
  <2>1. Fits(f) /\ f.prog # <<>>
    BY <1>0, <1>1, <1>6 DEF GoInv
  <2> QED
    BY <1>2, <1>6, <1>7, <2>1, CallKeeps DEF Rest
<1>9. c \notin GrantCalls /\ c \notin GuardCalls
  <2>1. c[1] = "sessions"
    BY <1>1, <1>6
  <2>2. \A a \in GrantCalls : a[1] # "sessions"
    BY GrantFields
  <2>3. \A b, n : Handler(b, "")[1] = "handler" /\ System(n)[1] = "SM"
    BY DEF Handler, System
  <2> QED
    BY <2>1, <2>2, <2>3 DEF GuardCalls
<1>10. ASSUME NEW v \in Vehicles PROVE OwedAt(v)'
  <2>1. ASSUME NEW a \in GrantCalls, Owed(v, a) PROVE Owed(v, a)'
    <3>1. a # c
      BY <1>9
    <3> QED
      BY <1>0, <1>6, <1>8, <2>1, <3>1, KeepsOwed
  <2>2. CASE vehicleController'[v] = NoSession
    BY <1>2, <2>1, <2>2, FreedOwed
  <2>3. CASE vehicleController'[v] # NoSession
    <3>1. PICK s : s = vehicleController[v]
      OBVIOUS
    <3>2. /\ vehicleController'[v] = s
          /\ c # Manager("ReleaseSession") \/ f.session # s
          /\ c # Manager("EndSession")
      <4>1. \/ c[2] = "ReleaseSession" /\ ReleaseSession(f.session)
            \/ c[2] = "SaveCheckpoint" /\ SaveCheckpoint
            \/ c[2] = "EndSession" /\ EndSession
        BY <1>6 DEF SessionCall
      <4>2. \A m : Manager(m)[2] = m
        BY DEF Manager
      <4>3. CASE c[2] = "EndSession" /\ EndSession
        BY <2>3, <4>3 DEF EndSession
      <4>4. CASE c[2] = "SaveCheckpoint" /\ SaveCheckpoint
        BY <3>1, <4>2, <4>4 DEF SaveCheckpoint
      <4>5. CASE c[2] = "ReleaseSession" /\ ReleaseSession(f.session)
        <5>1. DOMAIN vehicleController = Vehicles
          BY <1>0 DEF SessInv, SessTypeOK
        <5>2. vehicleController'[v] = s
          BY <2>3, <3>1, <4>5, <5>1 DEF ReleaseSession
        <5>3. ASSUME f.session = s PROVE FALSE
          <6>1. s \in SessionIds
            BY <1>0, <2>3, <3>1, <5>2, ControllerBelongs
          <6>2. ActiveOperator(s) /\ sessions[s].vehicle = v
            BY <1>0, <3>1, <6>1, ControllerBelongs DEF IsVehicleLocked, ActiveOperator
          <6>3. vehicleController'[v] = NoSession
            BY <3>1, <4>5, <5>1, <5>3, <6>2 DEF ReleaseSession
          <6> QED
            BY <2>3, <6>3
        <5> QED
          BY <4>2, <4>5, <5>2, <5>3
      <4> QED
        BY <4>1, <4>3, <4>4, <4>5
    <3>3. IsVehicleLocked(v)' => IsVehicleLocked(v) /\ sessions'[s].operator = sessions[s].operator
      <4>1. s \in SessionIds
        BY <1>0, <2>3, <3>1, <3>2, ControllerBelongs
      <4>2. s \in issued /\ IsVehicleLocked(v)
        BY <1>0, <3>1, <4>1, ControllerBelongs
      <4> QED
        BY <1>1, <3>2, <4>2 DEF OperatorsStay, IsVehicleLocked
    <3>4. Calm(v, s)
      BY <1>2, <3>1, <3>2, <3>3, SameVehicles
    <3>5. Carried(v, s)
      <4>1. Open(s) => Open(s)'
        BY <1>0, <1>6, <1>8, KeepsOpen
      <4>2. StillStops(s) => StillStops(s)'
        BY <1>0, <1>6, <1>8, <1>9, KeepsStops
      <4>3. BeingEnded(v) => BeingEnded(v)'
        BY <1>0, <1>6, <1>8, <3>1, <3>2, KeepsEnding
      <4> QED
        BY <2>1, <4>1, <4>2, <4>3 DEF Carried
    <3> QED
      BY <3>1, <3>4, <3>5, CalmOwed
  <2> QED
    BY <2>2, <2>3
<1>11. OwedInv'
  BY <1>10 DEF OwedInv, OwedAt
<1> QED
  BY <1>3, <1>4, <1>5, <1>11

LEMMA StartSessionInv ==
  ASSUME ServerInv, NEW t \in Threads, HandleStartSession(t)
  PROVE  GoInv' /\ CtxInv' /\ RestInv' /\ OwedInv'
<1>0. SessInv /\ GoInv /\ CtxInv /\ RestInv /\ attached \subseteq SessionIds
  BY DEF ServerInv, SessInv, SessTypeOK, RestInv
<1>1. PICK s \in SessionIds :
        /\ StartSession(go[t].vehicle, go[t].operator, s)
        /\ go' = [go EXCEPT ![t] =
             Goes([go[t] EXCEPT !.session = s],
                  IF sessions'[s].role = "ACTIVE_OPERATOR"
                  THEN advanceVehicleToActiveOperator ELSE <<>>)]
  BY DEF HandleStartSession
<1>2. PICK v : v = go[t].vehicle
  OBVIOUS
<1>3. /\ GoInv'
      /\ \A u \in Threads : u # t => go'[u] = go[u]
      /\ vehicleController'[v] = s =>
           go'[t].vehicle = v /\ go'[t].prog = advanceVehicleToActiveOperator
  BY <1>1, <1>2, StartSessionGo
<1>4. UNCHANGED <<ctx, conns, firing, busFailures, revoked, lostTo, attached, grantor>>
  BY DEF HandleStartSession, history, sessionHistory
<1>5. /\ go[t].as = "start" /\ v \in Vehicles /\ OperatorsStay
      /\ \A a \in GrantCalls : ~Has(go[t].prog, a)
  BY <1>0, <1>2, StartSessionUses
<1>6. CtxInv'
  BY <1>0, <1>4 DEF CtxInv
<1>7. s \notin issued /\ issued' = issued \cup {s} /\ s \notin attached
  BY <1>0, <1>1 DEF StartSession, RestInv
<1>8. RestInv'
  BY <1>0, <1>4, <1>7 DEF RestInv
<1>9. ASSUME NEW u \in Vehicles PROVE OwedAt(u)'
  <2>1. PICK r : r = vehicleController[u]
    OBVIOUS
  <2>2. ASSUME NEW a \in GrantCalls, Owed(u, a) PROVE Owed(u, a)'
    BY <1>3, <1>5, <2>2 DEF Owed
  <2>3. Open(r) => Open(r)'
    BY <1>3, <1>5 DEF Open, Threads
  <2>4. StillStops(r) => StillStops(r)'
    BY <1>3, <1>5 DEF StillStops, Threads
  <2>5. CASE vehicleController'[u] = r
    <3>1. IsVehicleLocked(u)' => IsVehicleLocked(u) /\ sessions'[r].operator = sessions[r].operator
      <4>1. r # NoSession => IsVehicleLocked(u) /\ r \in issued
        BY <1>0, <2>1, ControllerBelongs
      <4> QED
        BY <1>5, <2>5, <4>1 DEF IsVehicleLocked, OperatorsStay
    <3>2. Calm(u, r)
      BY <1>4, <2>1, <2>5, <3>1, SameVehicles
    <3>3. BeingEnded(u) => BeingEnded(u)'
      BY <1>3, <1>5, <2>1, <2>5 DEF BeingEnded
    <3>4. Carried(u, r)
      BY <2>2, <2>3, <2>4, <3>3 DEF Carried
    <3> QED
      BY <2>1, <3>2, <3>4, CalmOwed
  <2>6. CASE vehicleController'[u] # r
    <3>1. u = v /\ vehicleController'[u] = s
      BY <1>0, <1>1, <1>2, <2>1, <2>6 DEF StartSession, SessInv, SessTypeOK
    <3>2. TransitInv(u)'
      <4>1. {System("AUTHENTICATED"), ToConnected, Operator("ACTIVE_OPERATOR")} \subseteq GrantCalls
        BY DEF GrantCalls
      <4>2. /\ Owed(u, System("AUTHENTICATED")) => Owed(u, System("AUTHENTICATED"))'
            /\ Owed(u, ToConnected) => Owed(u, ToConnected)'
            /\ Owed(u, Operator("ACTIVE_OPERATOR")) => Owed(u, Operator("ACTIVE_OPERATOR"))'
        BY <2>2, <4>1
      <4>3. TransitInv(u)
        BY DEF ServerInv, OwedInv
      <4> QED
        BY <1>4, <4>2, <4>3 DEF TransitInv, Sys, InControl
    <3>3. AttendedInv(u)'
      BY <1>4, <1>7, <3>1 DEF AttendedInv
    <3>4. ASSUME NEW w \in Watched PROVE SupervisedInv(u, w)'
      <4>1. Has(advanceVehicleToActiveOperator, Start(w))
        BY AdvanceProgram
      <4>2. Owed(u, Start(w))'
        BY <1>3, <3>1, <4>1 DEF Owed
      <4> QED
        BY <4>2 DEF SupervisedInv
    <3> QED
      BY <3>2, <3>3, <3>4 DEF OwedAt
  <2> QED
    BY <2>5, <2>6
<1>10. OwedInv'
  BY <1>9 DEF OwedInv, OwedAt
<1> QED
  BY <1>3, <1>6, <1>8, <1>10

LEMMA ServeWSInv ==
  ASSUME ServerInv, NEW c \in Conns, NEW s \in SessionIds, ServeWS(c, s)
  PROVE  GoInv' /\ CtxInv' /\ RestInv' /\ OwedInv'
<1>0. SessInv /\ GoInv /\ CtxInv /\ RestInv
  BY DEF ServerInv
<1>1. /\ GoInv'
      /\ go[c].as = "free" /\ go[c].prog = <<>>
      /\ go'[c].as = "operator" /\ go'[c].session = s
      /\ \A u \in Threads : u # c => go'[u] = go[u]
  BY ServeWSGo
<1>2. /\ attached' = attached \cup {s} /\ Live(s)
      /\ UNCHANGED <<sessVars, ctx, conns, firing, busFailures, revoked, lostTo, grantor>>
  BY DEF ServeWS
<1>3. CtxInv'
  BY <1>0, <1>2 DEF CtxInv
<1>4. RestInv'
  <2>1. s \in issued
    BY <1>0, <1>2 DEF SessInv, IdsAreFresh, Live
  <2> QED
    BY <1>0, <1>2, <2>1 DEF RestInv, sessVars
<1>5. Open(s)'
  BY <1>1 DEF Open
<1>6. ASSUME NEW v \in Vehicles PROVE OwedAt(v)'
  <2>1. PICK r : r = vehicleController[v]
    OBVIOUS
  <2>2. vehicleController'[v] = r /\ (IsVehicleLocked(v)' <=> IsVehicleLocked(v)) /\ sessions' = sessions
    BY <1>2, <2>1 DEF sessVars, IsVehicleLocked, Live
  <2>3. Calm(v, r)
    BY <1>2, <1>5, <2>1, <2>2, SameVehicles
  <2>4. \A a : ~Has(go[c].prog, a)
    BY <1>1, EmptyProgram
  <2>5. ASSUME NEW a \in GrantCalls, Owed(v, a) PROVE Owed(v, a)'
    BY <1>1, <2>4, <2>5 DEF Owed
  <2>6. Open(r) => Open(r)'
    BY <1>1 DEF Open, Threads
  <2>7. StillStops(r) => StillStops(r)'
    BY <1>1 DEF StillStops, Threads
  <2>8. BeingEnded(v) => BeingEnded(v)'
    BY <1>1, <2>1, <2>2 DEF BeingEnded
  <2>9. Carried(v, r)
    BY <2>5, <2>6, <2>7, <2>8 DEF Carried
  <2> QED
    BY <2>1, <2>3, <2>9, CalmOwed
<1>7. OwedInv'
  BY <1>6 DEF OwedInv, OwedAt
<1> QED
  BY <1>1, <1>3, <1>4, <1>7

\* A handler's own step.
LEMMA MovesInv ==
  ASSUME ServerInv, NEW t \in Threads, NEW g, Moves(t, g),
         UNCHANGED <<sessVars, ctx, firing, sessionHistory>>
  PROVE  GoInv' /\ CtxInv' /\ OwedInv'
<1>0. SessInv /\ GoInv /\ CtxInv /\ DOMAIN go = Threads
  BY DEF ServerInv, GoInv
<1>1. UNCHANGED <<lostTo, attached, grantor>>
  BY DEF sessionHistory
<1>2. GoInv'
  BY <1>0, <1>1, MovesGoInv
<1>3. CtxInv'
  BY <1>0 DEF CtxInv
<1>4. Carries(go[t], g) /\ go'[t] = g /\ \A u \in Threads : u # t => go'[u] = go[u]
  BY <1>0 DEF Moves
<1>5. ASSUME NEW v \in Vehicles PROVE OwedAt(v)'
  <2>1. PICK s : s = vehicleController[v]
    OBVIOUS
  <2>2. vehicleController'[v] = s /\ (IsVehicleLocked(v)' <=> IsVehicleLocked(v)) /\ sessions' = sessions
    BY <2>1 DEF sessVars, IsVehicleLocked, Live
  <2>3. Calm(v, s) /\ (InControl(v)' <=> InControl(v))
    BY <1>1, <2>1, <2>2, SameVehicles
  <2>4. ASSUME NEW a \in GrantCalls, Owed(v, a) PROVE Owed(v, a)'
    BY <1>4, <2>4 DEF Owed, Carries
  <2>5. ASSUME s \in SessionIds, Open(s) PROVE Open(s)' \/ StillStops(s)'
    <3>1. PICK c \in Conns : go[c].as = "operator" /\ go[c].session = s
      BY <2>5 DEF Open
    <3>2. c \in Threads
      BY DEF Threads
    <3>3. CASE c # t
      BY <1>4, <3>1, <3>2, <3>3 DEF Open
    <3>4. CASE c = t
      <4>1. ~go[t].observer
        BY <1>0, <2>1, <2>5, <3>1, <3>4, ControllersGoroutine
      <4>2. g.session = s /\ (g.as = "operator" \/ (g.as = "closing" /\ Guarded(g.prog)))
        BY <1>4, <3>1, <3>4, <4>1 DEF Carries
      <4> QED
        BY <1>4, <3>4, <4>2 DEF Open, StillStops
    <3> QED
      BY <3>3, <3>4
  <2>6. ASSUME s \in SessionIds, StillStops(s) PROVE StillStops(s)' \/ ~InControl(v)'
    <3>1. PICK c \in Conns : go[c].as = "closing" /\ go[c].session = s /\ Guarded(go[c].prog)
      BY <2>6 DEF StillStops
    <3>2. c \in Threads
      BY DEF Threads
    <3>3. CASE c # t
      BY <1>4, <3>1, <3>2, <3>3 DEF StillStops
    <3>4. CASE c = t
      <4>1. go[t].vehicle = v
        BY <1>0, <2>1, <2>6, <3>1, <3>4, ControllersGoroutine
      <4>2. Live(s)
        BY <1>0, <2>1, <2>6, ControllerBelongs DEF IsVehicleLocked
      <4>3. (g.as = "closing" /\ g.session = s /\ Guarded(g.prog)) \/ Sys(v) = "SAFE_MODE"
        BY <1>4, <3>1, <3>4, <4>1, <4>2 DEF Carries
      <4>4. Sys(v) = "SAFE_MODE" => ~InControl(v)
        BY DEF Sys, InControl, Controlling
      <4> QED
        BY <1>4, <2>3, <3>4, <4>3, <4>4 DEF StillStops
    <3> QED
      BY <3>3, <3>4
  <2>7. ASSUME BeingEnded(v) PROVE BeingEnded(v)'
    <3>1. PICK u \in Threads :
            \/ /\ go[u].as = "end" /\ go[u].session = s
               /\ Has(go[u].prog, Manager("ReleaseSession"))
            \/ go[u].as = "endAll" /\ Has(go[u].prog, Manager("EndSession"))
      BY <2>1, <2>7 DEF BeingEnded
    <3>2. CASE u # t
      BY <1>4, <2>2, <3>1, <3>2 DEF BeingEnded
    <3>3. CASE u = t
      <4>1. g.as = "endAll" /\ Has(g.prog, Manager("EndSession"))
        BY <1>4, <3>1, <3>3 DEF Carries
      <4> QED
        BY <1>4, <4>1 DEF BeingEnded
    <3> QED
      BY <3>2, <3>3
  <2>8. Carried(v, s)
    BY <2>4, <2>5, <2>6, <2>7 DEF Carried
  <2> QED
    BY <2>1, <2>3, <2>8, CalmOwed
<1>6. OwedInv'
  BY <1>5 DEF OwedInv, OwedAt
<1> QED
  BY <1>2, <1>3, <1>6

\* A step that does not touch the goroutines or the sessions.
LEMMA GoroutinesStay ==
  ASSUME ServerInv, UNCHANGED <<sessVars, go, sessionHistory>>
  PROVE  /\ GoInv'
         /\ \A v \in Vehicles : \A s : s = vehicleController[v] => Carried(v, s)
         /\ \A v \in Vehicles : vehicleController'[v] = vehicleController[v]
         /\ \A v \in Vehicles : IsVehicleLocked(v)' <=> IsVehicleLocked(v)
<1>1. GoInv /\ UNCHANGED <<lostTo, attached, grantor>>
  BY DEF ServerInv, sessionHistory
<1>2. ASSUME NEW f PROVE Belongs(f)' <=> Belongs(f)
  BY <1>1 DEF Belongs, Live, sessVars
<1>3. GoInv'
  BY <1>1, <1>2 DEF GoInv
<1>4. ASSUME NEW v \in Vehicles, NEW s, s = vehicleController[v] PROVE Carried(v, s)
  <2>1. \A a : Owed(v, a)' <=> Owed(v, a)
    BY DEF Owed
  <2>2. (Open(s)' <=> Open(s)) /\ (StillStops(s)' <=> StillStops(s))
    BY DEF Open, StillStops
  <2>3. BeingEnded(v)' <=> BeingEnded(v)
    BY DEF BeingEnded, sessVars
  <2> QED
    BY <2>1, <2>2, <2>3 DEF Carried
<1>5. \A v \in Vehicles : vehicleController'[v] = vehicleController[v]
                          /\ (IsVehicleLocked(v)' <=> IsVehicleLocked(v))
  BY DEF sessVars, IsVehicleLocked, Live
<1> QED
  BY <1>3, <1>4, <1>5

-----------------------------------------------------------------------------
(* Reports, timers, callbacks and polls *)

\* The machine is not taken into a state that somebody has to take it out of.
Settles(m, n) ==
  /\ n.System \in {"CONNECTING", "RECOVERING", "AUTHENTICATED"} => n.System = m.System
  /\ Controlling(n) => Controlling(m)
  /\ Controlling(n) /\ n.Operator = "NO_OPERATOR" => m.Operator = "NO_OPERATOR"

LEMMA SettlingCalls ==
  ASSUME NEW m \in MachineType
  PROVE  /\ Settles(m, m)
         /\ \A n : Reports(m, n) => Settles(m, n) /\ n \in MachineType
         /\ LET n == TransitionSystem(m, "SAFE_MODE")
            IN  Settles(m, n) /\ n \in MachineType /\ ~Controlling(n)
         /\ LET n == TransitionOperator(m, "NO_OPERATOR")
            IN  Settles(m, n) /\ n \in MachineType /\ ~Controlling(n)
<1>1. Settles(m, m)
  BY DEF Settles
<1>2. \A n : Reports(m, n) => Settles(m, n) /\ n \in MachineType
  BY DEF Reports, Settles, Controlling
<1>3. ASSUME NEW n, n = TransitionSystem(m, "SAFE_MODE")
      PROVE  Settles(m, n) /\ n \in MachineType /\ ~Controlling(n)
  <2>1. "SAFE_MODE" \in SystemState
    BY DEF SystemState
  <2>2. n \in MachineType /\ (n.System = "SAFE_MODE" \/ (n = m /\ ~isValidTransition(m.System, "SAFE_MODE")))
    BY <1>3, <2>1, SystemCall
  <2>3. Controlling(m) => isValidTransition(m.System, "SAFE_MODE")
    BY DEF Controlling, isValidTransition, validSystemTransitions
  <2> QED
    BY <2>2, <2>3 DEF Settles, Controlling
<1>4. ASSUME NEW n, n = TransitionOperator(m, "NO_OPERATOR")
      PROVE  Settles(m, n) /\ n \in MachineType /\ ~Controlling(n)
  <2>1. "NO_OPERATOR" \in OperatorState
    BY DEF OperatorState
  <2>2. n \in MachineType /\ ~Controlling(n) /\ (n.System = m.System \/ n.System = "SAFE_MODE")
    BY <1>4, <2>1, OperatorCall
  <2> QED
    BY <2>2 DEF Settles
<1> QED
  BY <1>1, <1>2, <1>3, <1>4

\* Something happens to one vehicle.
LEMMA EventInv ==
  ASSUME ServerInv, UNCHANGED <<sessVars, go, sessionHistory>>, NEW v \in Vehicles,
         DOMAIN ctx' = Vehicles, DOMAIN ctx'[v] = Objects,
         \A w \in Objects : Typed(w, ctx'[v][w]),
         \A u \in Vehicles : u # v => ctx'[u] = ctx[u] /\ firing'[u] = firing[u],
         Settles(ctx[v].SM, ctx'[v].SM),
         \A w \in Watched : Enabled(v, w) => Enabled(v, w)' \/ (w \in Resumed /\ (~InControl(v)' \/ w \in firing'[v])),
         \A w \in Watched : w \in firing[v] => w \in firing'[v] \/ ~InControl(v)'
  PROVE  GoInv' /\ CtxInv' /\ OwedInv'
<1>1. CtxInv /\ UNCHANGED <<lostTo, attached, grantor>>
  BY DEF ServerInv, sessionHistory
<1>2. CtxInv'
  BY <1>1, OneVehicle
<1>3. GoInv'
  BY GoroutinesStay
<1>4. ASSUME NEW u \in Vehicles PROVE OwedAt(u)'
  <2>1. PICK s : s = vehicleController[u]
    OBVIOUS
  <2>2. Carried(u, s) /\ vehicleController'[u] = s /\ (IsVehicleLocked(u)' <=> IsVehicleLocked(u))
    BY <2>1, GoroutinesStay
  <2>3. Calm(u, s)
    <3>1. CASE u # v
      <4>1. (InControl(u)' <=> InControl(u)) /\ Sys(u)' = Sys(u) /\ ctx'[u] = ctx[u]
            /\ firing'[u] = firing[u]
        BY <3>1 DEF InControl, Sys
      <4>2. \A w \in Watched : Enabled(u, w)' <=> Enabled(u, w)
        BY <4>1 DEF Enabled, sessVars
      <4> QED
        BY <1>1, <2>2, <4>1, <4>2 DEF Calm
    <3>2. CASE u = v
      <4>1. /\ Sys(v)' \in {"CONNECTING", "RECOVERING", "AUTHENTICATED"} => Sys(v)' = Sys(v)
            /\ InControl(v)' => InControl(v)
            /\ InControl(v)' /\ ctx'[v].SM.Operator = "NO_OPERATOR" => ctx[v].SM.Operator = "NO_OPERATOR"
        BY DEF Settles, Sys, InControl
      <4> QED
        BY <1>1, <2>2, <3>2, <4>1 DEF Calm
    <3> QED
      BY <3>1, <3>2
  <2> QED
    BY <2>1, <2>2, <2>3, CalmOwed
<1>5. OwedInv'
  BY <1>4 DEF OwedInv, OwedAt
<1> QED
  BY <1>2, <1>3, <1>5

\* One object of one vehicle changes.
LEMMA OneObject ==
  ASSUME CtxInv, NEW v \in Vehicles, NEW o \in Objects, NEW x, Typed(o, x),
         ctx' = [ctx EXCEPT ![v][o] = x]
  PROVE  /\ DOMAIN ctx' = Vehicles /\ DOMAIN ctx'[v] = Objects
         /\ \A w \in Objects : Typed(w, ctx'[v][w])
         /\ ctx'[v][o] = x /\ \A w \in Objects : w # o => ctx'[v][w] = ctx[v][w]
         /\ \A u \in Vehicles : u # v => ctx'[u] = ctx[u]
<1>1. DOMAIN ctx = Vehicles /\ DOMAIN ctx[v] = Objects /\ \A w \in Objects : Typed(w, ctx[v][w])
  BY CtxTyped
<1> QED
  BY <1>1

LEMMA ObjectsApart ==
  /\ "SM" \in Objects /\ TimerWatchdogs \subseteq Objects /\ PollWatchdogs \subseteq Objects
  /\ "SM" \notin TimerWatchdogs /\ "SM" \notin PollWatchdogs
  /\ Watched \subseteq Objects /\ "SM" \notin Watched
  /\ Watched \cap TimerWatchdogs = {"Deadman"} /\ Watched \subseteq {"Deadman"} \cup PollWatchdogs
  /\ "Deadman" \in Resumed /\ ("AuthWatchdog" \in Watched => "AuthWatchdog" \in Resumed)
  /\ "Deadman" \notin PollWatchdogs
  BY ServerAssumption DEF Objects, TimerWatchdogs, PollWatchdogs, Watched, Resumed

LEMMA PostMediaEventInv ==
  ASSUME ServerInv, NEW v \in Vehicles, PostMediaEvent(v)
  PROVE  GoInv' /\ CtxInv' /\ RestInv' /\ OwedInv'
<1>0. CtxInv /\ RestInv /\ ctx[v].SM \in MachineType
  BY DEF ServerInv, CtxInv
<1>1. PICK next \in MediaReports : ctx' = [ctx EXCEPT ![v]["SM"] = TransitionMedia(ctx[v]["SM"], next)]
  BY DEF PostMediaEvent
<1>2. UNCHANGED <<sessVars, conns, go, firing, busFailures, revoked, sessionHistory>>
  BY DEF PostMediaEvent, history
<1>3. PICK m, n : m = ctx[v].SM /\ n = TransitionMedia(m, next)
  OBVIOUS
<1>4. Settles(m, n) /\ n \in MachineType
  <2>1. next \in MediaState
    BY ServerAssumption
  <2>2. Reports(m, n)
    BY <1>0, <1>3, <2>1, ReportCalls
  <2> QED
    BY <1>0, <1>3, <2>2, SettlingCalls
<1>5. Typed("SM", n)
  BY <1>4, ObjectsApart DEF Typed
<1>6. ctx' = [ctx EXCEPT ![v]["SM"] = n]
  BY <1>1, <1>3
<1>7. /\ DOMAIN ctx' = Vehicles /\ DOMAIN ctx'[v] = Objects
      /\ \A w \in Objects : Typed(w, ctx'[v][w])
      /\ ctx'[v]["SM"] = n /\ \A w \in Objects : w # "SM" => ctx'[v][w] = ctx[v][w]
      /\ \A u \in Vehicles : u # v => ctx'[u] = ctx[u]
  BY <1>0, <1>5, <1>6, ObjectsApart, OneObject
<1>8. Settles(ctx[v].SM, ctx'[v].SM)
  BY <1>3, <1>4, <1>7
<1>9. \A w \in Watched : Enabled(v, w)' <=> Enabled(v, w)
  BY <1>2, <1>7, ObjectsApart DEF Enabled, sessVars
<1>10. GoInv' /\ CtxInv' /\ OwedInv'
  BY <1>2, <1>7, <1>8, <1>9, EventInv
<1>11. RestInv'
  BY <1>0, <1>2 DEF RestInv, sessionHistory, sessVars
<1> QED
  BY <1>10, <1>11

\* A timer watchdog's timer or callback.
LEMMA TimerInv ==
  ASSUME ServerInv, UNCHANGED <<sessVars, go, sessionHistory>>, NEW v \in Vehicles,
         NEW o \in TimerWatchdogs, NEW x, WatchdogOK(x), ctx' = [ctx EXCEPT ![v][o] = x],
         \A u \in Vehicles : u # v => firing'[u] = firing[u],
         firing[v] \subseteq firing'[v],
         o = "Deadman" => (x.stopped <=> ctx[v].Deadman.stopped) \/ o \in firing'[v]
  PROVE  GoInv' /\ CtxInv' /\ OwedInv'
<1>0. CtxInv /\ ctx[v].SM \in MachineType
  BY DEF ServerInv, CtxInv
<1>1. Typed(o, x) /\ o \in Objects /\ o # "SM"
  BY DEF Typed, TimerWatchdogs, PollWatchdogs, Objects
<1>2. /\ DOMAIN ctx' = Vehicles /\ DOMAIN ctx'[v] = Objects
      /\ \A w \in Objects : Typed(w, ctx'[v][w])
      /\ ctx'[v][o] = x /\ \A w \in Objects : w # o => ctx'[v][w] = ctx[v][w]
      /\ \A u \in Vehicles : u # v => ctx'[u] = ctx[u]
  BY <1>0, <1>1, OneObject
<1>3. ctx'[v].SM = ctx[v].SM
  BY <1>1, <1>2, ObjectsApart
<1>4. Settles(ctx[v].SM, ctx'[v].SM)
  BY <1>0, <1>3, SettlingCalls
<1>5. ASSUME NEW w \in Watched, Enabled(v, w)
      PROVE  Enabled(v, w)' \/ (w \in Resumed /\ (~InControl(v)' \/ w \in firing'[v]))
  <2>1. CASE w # o
    <3>1. ctx'[v][w] = ctx[v][w]
      BY <1>2, <2>1, ObjectsApart
    <3> QED
      BY <1>5, <3>1 DEF Enabled, sessVars
  <2>2. CASE w = o
    <3>1. w = "Deadman"
      BY <2>2, ObjectsApart
    <3>2. ~x.stopped => Enabled(v, w)'
      BY <1>2, <2>2, <3>1 DEF Enabled
    <3>3. ~ctx[v].Deadman.stopped
      BY <1>5, <3>1 DEF Enabled
    <3> QED
      BY <2>2, <3>1, <3>2, <3>3, ObjectsApart
  <2> QED
    BY <2>1, <2>2
<1> QED
  BY <1>2, <1>4, <1>5, EventInv

LEMMA VehicleAckInv ==
  ASSUME ServerInv, NEW k \in VConns, VehicleAck(k)
  PROVE  GoInv' /\ CtxInv' /\ RestInv' /\ OwedInv'
<1>0. RestInv /\ CtxInv /\ GoInv /\ k \in Threads
  BY DEF ServerInv, Threads
<1>1. PICK v : v = go[k].vehicle
  OBVIOUS
<1>2. v \in Vehicles
  <2>1. go[k].as = "vehicle" /\ Fits(go[k])
    BY <1>0 DEF VehicleAck, Reading, GoInv
  <2> QED
    BY <1>1, <2>1 DEF Fits, OnVehicle
<1>3. PICK x : x = ACKReceived(ctx[v]["VehicleACKWatchdog"])
  OBVIOUS
<1>4. /\ ctx' = [ctx EXCEPT ![v]["VehicleACKWatchdog"] = x]
      /\ UNCHANGED <<sessVars, conns, go, firing, busFailures, revoked, sessionHistory>>
  BY <1>1, <1>3 DEF VehicleAck, history
<1>5. WatchdogOK(x) /\ "VehicleACKWatchdog" \in TimerWatchdogs
  BY <1>0, <1>2, <1>3, TimerCalls DEF CtxInv, TimerWatchdogs
<1>6. GoInv' /\ CtxInv' /\ OwedInv'
  BY <1>2, <1>4, <1>5, TimerInv
<1>7. RestInv'
  BY <1>0, <1>4 DEF RestInv, sessionHistory, sessVars
<1> QED
  BY <1>6, <1>7

LEMMA TimerElapsesInv ==
  ASSUME ServerInv, NEW v \in Vehicles, NEW w \in TimerWatchdogs, TimerElapses(v, w)
  PROVE  GoInv' /\ CtxInv' /\ RestInv' /\ OwedInv'
<1>0. RestInv /\ CtxInv
  BY DEF ServerInv
<1>1. PICK y, x : y = ctx[v][w] /\ x = Elapse(y)
  OBVIOUS
<1>2. /\ ctx' = [ctx EXCEPT ![v][w] = x] /\ CanElapse(y)
      /\ UNCHANGED <<sessVars, conns, go, firing, busFailures, revoked, sessionHistory>>
  BY <1>1 DEF TimerElapses, history
<1>3. WatchdogOK(y)
  BY <1>0, <1>1 DEF CtxInv
<1>4. WatchdogOK(x) /\ (x.stopped <=> y.stopped)
  BY <1>1, <1>2, <1>3, TimerCalls
<1>5. w = "Deadman" => (x.stopped <=> ctx[v].Deadman.stopped)
  BY <1>1, <1>4
<1>6. GoInv' /\ CtxInv' /\ OwedInv'
  BY <1>2, <1>4, <1>5, TimerInv
<1>7. RestInv'
  BY <1>0, <1>2 DEF RestInv, sessionHistory, sessVars
<1> QED
  BY <1>6, <1>7

LEMMA FireInv ==
  ASSUME ServerInv, NEW v \in Vehicles, NEW w \in TimerWatchdogs, fire(v, w)
  PROVE  GoInv' /\ CtxInv' /\ RestInv' /\ OwedInv'
<1>0. RestInv /\ CtxInv /\ firing \in [Vehicles -> SUBSET TimerWatchdogs]
  BY DEF ServerInv, RestInv
<1>1. PICK y, x : y = ctx[v][w] /\ x = FireOf(w, y)
  OBVIOUS
<1>2. /\ ctx' = [ctx EXCEPT ![v][w] = x] /\ y.expired > 0
      /\ firing' = IF y.stopped THEN firing ELSE [firing EXCEPT ![v] = @ \cup {w}]
      /\ UNCHANGED <<sessVars, conns, go, busFailures, revoked, sessionHistory>>
  BY <1>1 DEF fire, history
<1>3. WatchdogOK(y)
  BY <1>0, <1>1 DEF CtxInv
<1>4. x = DeadmanFire(y) \/ x = ACKFire(y) \/ x = VehicleACKFire(y)
  BY <1>1 DEF FireOf, TimerWatchdogs
<1>5. WatchdogOK(x)
  BY <1>2, <1>3, <1>4, FireCalls
<1>6. ASSUME w = "Deadman" PROVE (x.stopped <=> y.stopped) \/ w \in firing'[v]
  <2>1. x.stopped
    BY <1>1, <1>3, <1>6 DEF FireOf, DeadmanFire, WatchdogOK, Watchdog
  <2>2. CASE y.stopped
    BY <2>1, <2>2
  <2>3. CASE ~y.stopped
    BY <1>0, <1>2, <2>3
  <2> QED
    BY <2>2, <2>3
<1>7. w = "Deadman" => (x.stopped <=> ctx[v].Deadman.stopped) \/ w \in firing'[v]
  BY <1>1, <1>6
<1>8. /\ \A u \in Vehicles : u # v => firing'[u] = firing[u]
      /\ firing[v] \subseteq firing'[v]
      /\ firing' \in [Vehicles -> SUBSET TimerWatchdogs]
  BY <1>0, <1>2
<1>9. GoInv' /\ CtxInv' /\ OwedInv'
  BY <1>2, <1>5, <1>7, <1>8, TimerInv
<1>10. RestInv'
  BY <1>0, <1>2, <1>8 DEF RestInv, sessionHistory, sessVars
<1> QED
  BY <1>9, <1>10

LEMMA FireTransitionInv ==
  ASSUME ServerInv, NEW v \in Vehicles, NEW o \in TimerWatchdogs, fireTransition(v, o)
  PROVE  GoInv' /\ CtxInv' /\ RestInv' /\ OwedInv'
<1>0. RestInv /\ CtxInv /\ ctx[v].SM \in MachineType /\ firing \in [Vehicles -> SUBSET TimerWatchdogs]
  BY DEF ServerInv, RestInv, CtxInv
<1>1. PICK m, n : m = ctx[v].SM /\ n = TransitionSystem(m, "SAFE_MODE")
  OBVIOUS
<1>2. /\ ctx' = [ctx EXCEPT ![v]["SM"] = n]
      /\ firing' = [firing EXCEPT ![v] = @ \ {o}]
      /\ UNCHANGED <<sessVars, conns, go, busFailures, revoked, sessionHistory>>
  BY <1>1 DEF fireTransition
<1>3. Settles(m, n) /\ n \in MachineType /\ ~Controlling(n)
  BY <1>0, <1>1, SettlingCalls
<1>4. Typed("SM", n)
  BY <1>3, ObjectsApart DEF Typed
<1>5. /\ DOMAIN ctx' = Vehicles /\ DOMAIN ctx'[v] = Objects
      /\ \A w \in Objects : Typed(w, ctx'[v][w])
      /\ ctx'[v]["SM"] = n /\ \A w \in Objects : w # "SM" => ctx'[v][w] = ctx[v][w]
      /\ \A u \in Vehicles : u # v => ctx'[u] = ctx[u]
  BY <1>0, <1>2, <1>4, ObjectsApart, OneObject
<1>6. Settles(ctx[v].SM, ctx'[v].SM)
  BY <1>1, <1>3, <1>5
<1>7. \A w \in Watched : Enabled(v, w)' <=> Enabled(v, w)
  BY <1>2, <1>5, ObjectsApart DEF Enabled, sessVars
<1>8. /\ \A u \in Vehicles : u # v => firing'[u] = firing[u]
      /\ firing' \in [Vehicles -> SUBSET TimerWatchdogs]
  BY <1>0, <1>2
<1>9. ~InControl(v)'
  BY <1>3, <1>5 DEF InControl
<1>10. \A u \in Vehicles : u # v => ctx'[u] = ctx[u] /\ firing'[u] = firing[u]
  BY <1>5, <1>8
<1>11. GoInv' /\ CtxInv' /\ OwedInv'
  BY <1>2, <1>5, <1>6, <1>7, <1>9, <1>10, EventInv
<1>12. RestInv'
  BY <1>0, <1>2, <1>8 DEF RestInv, sessionHistory, sessVars
<1> QED
  BY <1>11, <1>12

\* A verdict of a poller settles the machine, and the AuthWatchdog's takes the
\* control away.
LEMMA Verdicts ==
  ASSUME NEW m \in MachineType, NEW r \in PollRun, NEW w \in PollWatchdogs,
         NEW n, n = Reported(w, r, m)
  PROVE  /\ Settles(m, n) /\ n \in MachineType
         /\ w = "AuthWatchdog" /\ r.phase = "bad" => ~Controlling(n)
<1>1. CASE r.phase = "good"
  <2>1. n = TransitionTelemetry(m, TRUE)
    BY <1>1 DEF Reported
  <2> QED
    BY <1>1, <2>1, ReportCalls, SettlingCalls
<1>2. CASE r.phase = "bad" /\ w = "TelemetryWatchdog"
  <2>1. n = TransitionTelemetry(m, FALSE)
    BY <1>2 DEF Reported
  <2> QED
    BY <1>2, <2>1, ReportCalls, SettlingCalls
<1>3. CASE r.phase = "bad" /\ w = "AuthWatchdog"
  <2>1. n = TransitionOperator(m, "NO_OPERATOR")
    BY <1>3 DEF Reported
  <2> QED
    BY <2>1, SettlingCalls
<1>4. CASE r.phase \notin {"good", "bad"}
  <2>1. n = m
    BY <1>4 DEF Reported
  <2> QED
    BY <1>4, <2>1, SettlingCalls
<1> QED
  BY <1>1, <1>2, <1>3, <1>4 DEF PollWatchdogs

LEMMA PollerInv ==
  ASSUME ServerInv, UNCHANGED <<sessVars, go, firing, sessionHistory>>, NEW v \in Vehicles,
         NEW o \in PollWatchdogs, DOMAIN ctx' = Vehicles, DOMAIN ctx'[v] = Objects,
         NEW p \in Poller, ctx'[v][o] = p,
         NEW n \in MachineType, ctx'[v]["SM"] = n, Settles(ctx[v].SM, n),
         \A w \in Objects : w # o /\ w # "SM" => ctx'[v][w] = ctx[v][w],
         \A u \in Vehicles : u # v => ctx'[u] = ctx[u],
         \/ p.run.phase # "ended" \/ ctx[v][o].run.phase = "ended"
         \/ o = "AuthWatchdog" /\ ~Controlling(n),
         p.run.phase # "ended" => p.run.account = ctx[v][o].run.account
  PROVE  GoInv' /\ CtxInv' /\ OwedInv'
<1>0. CtxInv
  BY DEF ServerInv
<1>1. \A w \in Objects : Typed(w, ctx'[v][w])
  <2>1. \A w \in Objects : Typed(w, ctx[v][w])
    BY <1>0, CtxTyped
  <2>2. Typed(o, p) /\ Typed("SM", n)
    BY DEF Typed, TimerWatchdogs, PollWatchdogs
  <2> QED
    BY <2>1, <2>2
<1>2. Settles(ctx[v].SM, ctx'[v].SM) /\ (InControl(v)' <=> Controlling(n))
  BY DEF InControl
<1>3. ASSUME NEW w \in Watched, Enabled(v, w)
      PROVE  Enabled(v, w)' \/ (w \in Resumed /\ ~InControl(v)')
  <2>1. CASE w # o
    <3>1. ctx'[v][w] = ctx[v][w]
      BY <2>1, ObjectsApart
    <3> QED
      BY <1>3, <3>1 DEF Enabled, sessVars
  <2>2. CASE w = o
    <3>1. w # "Deadman"
      BY <2>2, ObjectsApart
    <3>2. ctx[v][o].run.phase # "ended"
      BY <1>3, <2>2, <3>1 DEF Enabled
    <3>3. p.run.phase # "ended" => Enabled(v, w)'
      BY <1>3, <2>2, <3>1 DEF Enabled, sessVars
    <3> QED
      BY <1>2, <2>2, <3>2, <3>3, ObjectsApart
  <2> QED
    BY <2>1, <2>2
<1> QED
  BY <1>1, <1>2, <1>3, EventInv

LEMMA PollInv ==
  ASSUME ServerInv, NEW v \in Vehicles, NEW w \in PollWatchdogs, Poll(v, w)
  PROVE  GoInv' /\ CtxInv' /\ RestInv' /\ OwedInv'
<1>0. RestInv /\ CtxInv /\ ctx[v].SM \in MachineType /\ ctx[v][w] \in Poller
  BY DEF ServerInv, CtxInv
<1>1. PICK r, m, n : r = ctx[v][w].run /\ m = ctx[v].SM /\ n = Reported(w, r, m)
  OBVIOUS
<1>2. PICK next \in RunSteps(w, r, FALSE) :
        ctx' = [ctx EXCEPT ![v][w].run = next, ![v].SM = Reported(w, r, @)]
  BY <1>1 DEF Poll
<1>3. UNCHANGED <<sessVars, conns, go, firing, busFailures, revoked, sessionHistory>>
  BY DEF Poll
<1>4. r \in PollRun
  BY <1>0, <1>1 DEF Poller
<1>5. /\ next \in PollRun /\ r.phase # "ended"
      /\ next.phase = "ended" => w = "AuthWatchdog" /\ r.phase = "bad"
  BY <1>4, RunStepsTyped
<1>6. /\ Settles(m, n) /\ n \in MachineType
      /\ w = "AuthWatchdog" /\ r.phase = "bad" => ~Controlling(n)
  BY <1>0, <1>1, <1>4, Verdicts
<1>7. PICK p : p = [ctx[v][w] EXCEPT !.run = next]
  OBVIOUS
<1>8. p \in Poller /\ p.run = next
  BY <1>0, <1>5, <1>7 DEF Poller
<1>9. /\ DOMAIN ctx' = Vehicles /\ DOMAIN ctx'[v] = Objects
      /\ ctx'[v][w] = p /\ ctx'[v]["SM"] = n
      /\ \A o \in Objects : o # w /\ o # "SM" => ctx'[v][o] = ctx[v][o]
      /\ \A u \in Vehicles : u # v => ctx'[u] = ctx[u]
  <2>1. DOMAIN ctx = Vehicles /\ DOMAIN ctx[v] = Objects
    BY <1>0 DEF CtxInv
  <2>2. "SM" \in Objects /\ w \in Objects /\ w # "SM"
    BY ObjectsApart
  <2> DEFINE d == [ctx EXCEPT ![v][w].run = next]
  <2>3. ctx' = [d EXCEPT ![v].SM = Reported(w, r, ctx[v].SM)]
    BY <1>2
  <2>4. /\ DOMAIN d = Vehicles /\ DOMAIN d[v] = Objects /\ d[v][w] = p
        /\ \A o \in Objects : o # w => d[v][o] = ctx[v][o]
        /\ \A u \in Vehicles : u # v => d[u] = ctx[u]
    BY <1>7, <2>1, <2>2
  <2> HIDE DEF d
  <2> QED
    BY <1>1, <2>2, <2>3, <2>4
<1>10. next.phase # "ended" => next.account = r.account
  BY <1>4, RunStepsTyped
<1>11. GoInv' /\ CtxInv' /\ OwedInv'
  BY <1>1, <1>3, <1>5, <1>6, <1>8, <1>9, <1>10, PollerInv
<1>12. RestInv'
  BY <1>0, <1>3 DEF RestInv, sessionHistory, sessVars
<1> QED
  BY <1>11, <1>12

LEMMA PollLateInv ==
  ASSUME ServerInv, NEW v \in Vehicles, NEW w \in PollWatchdogs, PollLate(v, w)
  PROVE  GoInv' /\ CtxInv' /\ RestInv' /\ OwedInv'
<1>0. RestInv /\ CtxInv /\ ctx[v].SM \in MachineType /\ ctx[v][w] \in Poller
  BY DEF ServerInv, CtxInv
<1>1. PICK m : m = ctx[v].SM
  OBVIOUS
<1>2. PICK r \in ctx[v][w].late : \E next \in RunSteps(w, r, TRUE) :
        ctx' = [ctx EXCEPT
          ![v][w].late = (@ \ {r}) \cup (IF next = Ended THEN {} ELSE {next}),
          ![v].SM = Reported(w, r, @)]
  BY DEF PollLate
<1>3. PICK next \in RunSteps(w, r, TRUE) :
        ctx' = [ctx EXCEPT
          ![v][w].late = (@ \ {r}) \cup (IF next = Ended THEN {} ELSE {next}),
          ![v].SM = Reported(w, r, @)]
  BY <1>2
<1>4. UNCHANGED <<sessVars, conns, go, firing, busFailures, revoked, sessionHistory>>
  BY DEF PollLate
<1>5. r \in PollRun
  BY <1>0, <1>2 DEF Poller
<1>6. next \in PollRun
  BY <1>5, RunStepsTyped
<1>7. PICK n : n = Reported(w, r, m)
  OBVIOUS
<1>8. Settles(m, n) /\ n \in MachineType
  BY <1>0, <1>1, <1>5, <1>7, Verdicts
<1>9. PICK late : late = (ctx[v][w].late \ {r}) \cup (IF next = Ended THEN {} ELSE {next})
  OBVIOUS
<1>10. PICK p : p = [ctx[v][w] EXCEPT !.late = late]
  OBVIOUS
<1>11. p \in Poller /\ p.run = ctx[v][w].run
  <2>1. late \subseteq PollRun
    BY <1>0, <1>6, <1>9 DEF Poller
  <2> QED
    BY <1>0, <1>10, <2>1 DEF Poller
<1>12. /\ DOMAIN ctx' = Vehicles /\ DOMAIN ctx'[v] = Objects
       /\ ctx'[v][w] = p /\ ctx'[v]["SM"] = n
       /\ \A o \in Objects : o # w /\ o # "SM" => ctx'[v][o] = ctx[v][o]
       /\ \A u \in Vehicles : u # v => ctx'[u] = ctx[u]
  <2>1. DOMAIN ctx = Vehicles /\ DOMAIN ctx[v] = Objects
    BY <1>0 DEF CtxInv
  <2>2. "SM" \in Objects /\ w \in Objects /\ w # "SM"
    BY ObjectsApart
  <2> DEFINE d == [ctx EXCEPT ![v][w].late = late]
  <2>3. ctx' = [d EXCEPT ![v].SM = Reported(w, r, ctx[v].SM)]
    BY <1>3, <1>9
  <2>4. /\ DOMAIN d = Vehicles /\ DOMAIN d[v] = Objects /\ d[v][w] = p
        /\ \A o \in Objects : o # w => d[v][o] = ctx[v][o]
        /\ \A u \in Vehicles : u # v => d[u] = ctx[u]
    BY <1>10, <2>1, <2>2
  <2> HIDE DEF d
  <2> QED
    BY <1>1, <1>7, <2>2, <2>3, <2>4
<1>13. GoInv' /\ CtxInv' /\ OwedInv'
  BY <1>1, <1>4, <1>8, <1>11, <1>12, PollerInv
<1>14. RestInv'
  BY <1>0, <1>4 DEF RestInv, sessionHistory, sessVars
<1> QED
  BY <1>13, <1>14

-----------------------------------------------------------------------------
(* The invariant *)

\* The steps of a handler on its own state.
LEMMA HandlerInv ==
  ASSUME ServerInv, NEW t \in Threads,
         \/ CheckConnected(t) \/ EndVehicle(t) \/ StopVehicle(t) \/ Recover(t) \/ Refresh(t)
         \/ Forward(t) \/ StillActive(t) \/ StopUnlessSafe(t) \/ (t = Bus /\ StopActive)
         \/ Unregister(t)
  PROVE  UNCHANGED sessVars /\ GoInv' /\ CtxInv' /\ RestInv' /\ OwedInv'
<1>0. SessInv /\ GoInv /\ RestInv
  BY DEF ServerInv
<1>1. PICK g : Moves(t, g)
  BY <1>0, CheckConnectedMoves, EndVehicleMoves, StopVehicleMoves, RecoverMoves, RefreshMoves,
     ForwardMoves, StillActiveMoves, StopUnlessSafeMoves, StopActiveMoves, UnregisterMoves
<1>2. UNCHANGED <<sessVars, ctx, firing, busFailures, revoked, sessionHistory>>
  <2>1. CASE CheckConnected(t) \/ Recover(t) \/ Refresh(t) \/ Forward(t) \/ StillActive(t) \/ StopUnlessSafe(t)
    BY <2>1 DEF CheckConnected, Recover, Refresh, Forward, StillActive, StopUnlessSafe, Decide, history
  <2>2. CASE EndVehicle(t) \/ StopVehicle(t) \/ StopActive \/ Unregister(t)
    BY <2>2 DEF EndVehicle, StopVehicle, StopActive, Unregister, history
  <2> QED
    BY <2>1, <2>2
<1>3. conns' \in [Vehicles -> VConns \cup {NoConn}]
  <2>1. conns' = conns \/ \E v : conns' = [conns EXCEPT ![v] = NoConn]
    <3>1. CASE CheckConnected(t) \/ Recover(t) \/ Refresh(t) \/ Forward(t) \/ StillActive(t) \/ StopUnlessSafe(t)
      BY <3>1 DEF CheckConnected, Recover, Refresh, Forward, StillActive, StopUnlessSafe, Decide
    <3>2. CASE EndVehicle(t) \/ StopVehicle(t) \/ StopActive
      BY <3>2 DEF EndVehicle, StopVehicle, StopActive
    <3>3. CASE Unregister(t)
      BY <3>3 DEF Unregister, unregister
    <3> QED
      BY <3>1, <3>2, <3>3
  <2> QED
    BY <1>0, <2>1 DEF RestInv
<1>4. RestInv'
  BY <1>0, <1>2, <1>3 DEF RestInv, sessionHistory, sessVars
<1> QED
  BY <1>1, <1>2, <1>4, MovesInv

\* Requests and messages.
LEMMA ArrivalInv ==
  ASSUME ServerInv, NEW t \in Threads,
         \/ t \in Requests /\ \E v \in Vehicles, o \in Operators : PostSessionStart(t, v, o)
         \/ t \in Requests /\ \E s \in SessionIds : PostSessionEnd(t, s)
         \/ t \in Requests /\ PostSessionEndAll(t)
         \/ t \in Requests /\ ((\E v \in Vehicles : PostEmergencyStop(t, v)) \/ PostEmergencyStopAll(t))
         \/ t \in Conns /\ \E cmd \in Commands : processWSMessage(t, cmd)
         \/ t \in Conns /\ Disconnect(t)
         \/ t \in VConns /\ \E v \in Vehicles : ServeVehicleWS(t, v)
         \/ t \in VConns /\ VehicleDisconnect(t)
  PROVE  UNCHANGED sessVars /\ GoInv' /\ CtxInv' /\ RestInv' /\ OwedInv'
<1>0. SessInv /\ GoInv /\ RestInv
  BY DEF ServerInv
<1>1. PICK g : Moves(t, g)
  <2>1. CASE t \in Requests /\ \E v \in Vehicles, o \in Operators : PostSessionStart(t, v, o)
    BY <2>1, PostSessionStartMoves
  <2>2. CASE t \in Requests /\ \E s \in SessionIds : PostSessionEnd(t, s)
    BY <2>2, PostSessionEndMoves
  <2>3. CASE t \in Requests /\ PostSessionEndAll(t)
    BY <2>3, PostSessionEndAllMoves
  <2>4. CASE t \in Requests /\ ((\E v \in Vehicles : PostEmergencyStop(t, v)) \/ PostEmergencyStopAll(t))
    BY <2>4, PostEmergencyStopMoves
  <2>5. CASE t \in Conns /\ \E cmd \in Commands : processWSMessage(t, cmd)
    BY <1>0, <2>5, processWSMessageMoves
  <2>6. CASE t \in Conns /\ Disconnect(t)
    BY <1>0, <2>6, DisconnectMoves
  <2>7. CASE t \in VConns /\ \E v \in Vehicles : ServeVehicleWS(t, v)
    BY <2>7, ServeVehicleWSMoves
  <2>8. CASE t \in VConns /\ VehicleDisconnect(t)
    BY <1>0, <2>8, VehicleDisconnectMoves
  <2> QED
    BY <2>1, <2>2, <2>3, <2>4, <2>5, <2>6, <2>7, <2>8
<1>2. UNCHANGED <<sessVars, ctx, firing, busFailures, revoked, sessionHistory>>
  BY DEF PostSessionStart, PostSessionEnd, PostSessionEndAll, PostEmergencyStop, PostEmergencyStopAll,
     processWSMessage, Decide, Disconnect, ServeVehicleWS, VehicleDisconnect, history
<1>3. conns' = conns \/ (t \in VConns /\ \E v \in Vehicles : conns' = [conns EXCEPT ![v] = t])
  BY DEF PostSessionStart, PostSessionEnd, PostSessionEndAll, PostEmergencyStop, PostEmergencyStopAll,
     processWSMessage, Decide, Disconnect, ServeVehicleWS, VehicleDisconnect, register
<1>4. conns' \in [Vehicles -> VConns \cup {NoConn}]
  BY <1>0, <1>3 DEF RestInv
<1>5. RestInv'
  BY <1>0, <1>2, <1>4 DEF RestInv, sessionHistory, sessVars
<1> QED
  BY <1>1, <1>2, <1>5, MovesInv

\* A step that changes neither a goroutine nor a vehicle.
LEMMA QuietInv ==
  ASSUME ServerInv, UNCHANGED <<sessVars, ctx, conns, go, firing, sessionHistory>>,
         busFailures' \in 0..BusFailThreshold-1, revoked' \subseteq Operators
  PROVE  GoInv' /\ CtxInv' /\ RestInv' /\ OwedInv'
<1>0. CtxInv /\ RestInv /\ UNCHANGED <<lostTo, attached, grantor>>
  BY DEF ServerInv, sessionHistory
<1>1. GoInv'
  BY GoroutinesStay
<1>2. CtxInv'
  BY <1>0 DEF CtxInv
<1>3. RestInv'
  BY <1>0 DEF RestInv, sessVars
<1>4. ASSUME NEW v \in Vehicles PROVE OwedAt(v)'
  <2>1. PICK s : s = vehicleController[v]
    OBVIOUS
  <2>2. Carried(v, s) /\ vehicleController'[v] = s /\ (IsVehicleLocked(v)' <=> IsVehicleLocked(v))
    BY <2>1, GoroutinesStay
  <2>3. Calm(v, s)
    BY <1>0, <2>1, <2>2, SameVehicles DEF sessVars
  <2> QED
    BY <2>1, <2>2, <2>3, CalmOwed
<1>5. OwedInv'
  BY <1>4 DEF OwedInv, OwedAt
<1> QED
  BY <1>1, <1>2, <1>3, <1>5

LEMMA PingBusInv ==
  ASSUME ServerInv, PingBus
  PROVE  UNCHANGED sessVars /\ GoInv' /\ CtxInv' /\ RestInv' /\ OwedInv'
<1>0. SessInv /\ GoInv /\ RestInv /\ Bus \in Threads
  BY DEF ServerInv, Threads
<1>1. UNCHANGED <<sessVars, ctx, conns, firing, revoked, sessionHistory>>
  BY DEF PingBus
<1>2. busFailures' \in 0..BusFailThreshold-1
  <2>1. 0..BusFailThreshold-1 = {0, 1}
    BY DEF BusFailThreshold
  <2>2. busFailures' = 0 \/ (busFailures + 1 < 2 /\ busFailures' = busFailures + 1)
    BY DEF PingBus, BusFailThreshold
  <2>3. busFailures \in {0, 1}
    BY <1>0, <2>1 DEF RestInv
  <2> QED
    BY <2>1, <2>2, <2>3
<1>3. CASE go' = go
  BY <1>0, <1>1, <1>2, <1>3, QuietInv DEF RestInv
<1>4. CASE go' # go
  <2>1. PICK g : Moves(Bus, g)
    BY <1>0, <1>4, PingBusMoves
  <2>2. RestInv'
    BY <1>0, <1>1, <1>2 DEF RestInv, sessionHistory, sessVars
  <2> QED
    BY <1>0, <1>1, <2>1, <2>2, MovesInv
<1> QED
  BY <1>3, <1>4

LEMMA StepInv ==
  ASSUME ServerInv, NEW t \in Threads, Step(t)
  PROVE  [SessNext]_sessVars /\ GoInv' /\ CtxInv' /\ RestInv' /\ OwedInv'
<1>0. GoInv
  BY DEF ServerInv
<1>1. CASE VehicleCall(t)
  <2>1. UNCHANGED sessVars
    BY <1>1 DEF VehicleCall
  <2> QED
    BY <1>1, <2>1, VehicleCallInv
<1>2. CASE SessionCall(t)
  BY <1>0, <1>2, SessionCallInv, SessionCallUses
<1>3. CASE HandleStartSession(t)
  BY <1>0, <1>3, StartSessionInv, StartSessionUses
<1>4. CASE ~VehicleCall(t) /\ ~SessionCall(t) /\ ~HandleStartSession(t)
  <2>1. \/ CheckConnected(t) \/ EndVehicle(t) \/ StopVehicle(t) \/ Recover(t) \/ Refresh(t)
        \/ Forward(t) \/ StillActive(t) \/ StopUnlessSafe(t) \/ (t = Bus /\ StopActive)
        \/ Unregister(t)
    BY <1>4 DEF Step
  <2> QED
    BY <2>1, HandlerInv
<1> QED
  BY <1>1, <1>2, <1>3, <1>4

LEMMA EnvironmentInv ==
  ASSUME ServerInv, Environment
  PROVE  UNCHANGED sessVars /\ GoInv' /\ CtxInv' /\ RestInv' /\ OwedInv'
<1>0. RestInv /\ Requests \subseteq Threads /\ Conns \subseteq Threads /\ VConns \subseteq Threads
  BY DEF ServerInv, Threads
<1>1. ASSUME NEW v \in Vehicles, PostMediaEvent(v)
      PROVE  UNCHANGED sessVars /\ GoInv' /\ CtxInv' /\ RestInv' /\ OwedInv'
  <2>1. UNCHANGED sessVars
    BY <1>1 DEF PostMediaEvent
  <2> QED
    BY <1>1, <2>1, PostMediaEventInv
<1>2. ASSUME NEW c \in Conns, NEW s \in SessionIds, ServeWS(c, s)
      PROVE  UNCHANGED sessVars /\ GoInv' /\ CtxInv' /\ RestInv' /\ OwedInv'
  <2>1. UNCHANGED sessVars
    BY <1>2 DEF ServeWS
  <2> QED
    BY <1>2, <2>1, ServeWSInv
<1>3. ASSUME NEW k \in VConns, VehicleAck(k)
      PROVE  UNCHANGED sessVars /\ GoInv' /\ CtxInv' /\ RestInv' /\ OwedInv'
  <2>1. UNCHANGED sessVars
    BY <1>3 DEF VehicleAck
  <2> QED
    BY <1>3, <2>1, VehicleAckInv
<1>4. ASSUME NEW o \in Operators, RevokeAccount(o)
      PROVE  UNCHANGED sessVars /\ GoInv' /\ CtxInv' /\ RestInv' /\ OwedInv'
  <2>1. UNCHANGED <<sessVars, ctx, conns, go, firing, busFailures, sessionHistory>> /\ revoked' = revoked \cup {o}
    BY <1>4 DEF RevokeAccount, history
  <2>2. busFailures' \in 0..BusFailThreshold-1 /\ revoked' \subseteq Operators
    BY <1>0, <2>1 DEF RestInv
  <2> QED
    BY <2>1, <2>2, QuietInv
<1>5. ASSUME NEW t \in Threads,
             \/ t \in Requests /\ \E v \in Vehicles, o \in Operators : PostSessionStart(t, v, o)
             \/ t \in Requests /\ \E s \in SessionIds : PostSessionEnd(t, s)
             \/ t \in Requests /\ PostSessionEndAll(t)
             \/ t \in Requests /\ ((\E v \in Vehicles : PostEmergencyStop(t, v)) \/ PostEmergencyStopAll(t))
             \/ t \in Conns /\ \E cmd \in Commands : processWSMessage(t, cmd)
             \/ t \in Conns /\ Disconnect(t)
             \/ t \in VConns /\ \E v \in Vehicles : ServeVehicleWS(t, v)
             \/ t \in VConns /\ VehicleDisconnect(t)
      PROVE  UNCHANGED sessVars /\ GoInv' /\ CtxInv' /\ RestInv' /\ OwedInv'
  BY <1>5, ArrivalInv
<1> QED
  BY <1>0, <1>1, <1>2, <1>3, <1>4, <1>5 DEF Environment

LEMMA WatchdogsInv ==
  ASSUME ServerInv,
         \/ \E v \in Vehicles, w \in TimerWatchdogs :
              TimerElapses(v, w) \/ fire(v, w) \/ fireTransition(v, w)
         \/ \E v \in Vehicles, w \in PollWatchdogs : Poll(v, w) \/ PollLate(v, w)
  PROVE  UNCHANGED sessVars /\ GoInv' /\ CtxInv' /\ RestInv' /\ OwedInv'
<1>1. UNCHANGED sessVars
  BY DEF TimerElapses, fire, fireTransition, Poll, PollLate
<1> QED
  BY <1>1, TimerElapsesInv, FireInv, FireTransitionInv, PollInv, PollLateInv

\* The server uses the manager through its methods only.
LEMMA ServerStep ==
  ASSUME ServerInv, [Next]_vars
  PROVE  [SessNext]_sessVars /\ ServerInv'
<1>1. [SessNext]_sessVars /\ GoInv' /\ CtxInv' /\ RestInv' /\ OwedInv'
  <2>1. CASE Environment
    BY <2>1, EnvironmentInv
  <2>2. ASSUME NEW t \in Threads, Step(t)
        PROVE  [SessNext]_sessVars /\ GoInv' /\ CtxInv' /\ RestInv' /\ OwedInv'
    BY <2>2, StepInv
  <2>3. CASE PingBus
    BY <2>3, PingBusInv
  <2>4. CASE \/ \E v \in Vehicles, w \in TimerWatchdogs :
                  TimerElapses(v, w) \/ fire(v, w) \/ fireTransition(v, w)
             \/ \E v \in Vehicles, w \in PollWatchdogs : Poll(v, w) \/ PollLate(v, w)
    BY <2>4, WatchdogsInv
  <2>5. CASE UNCHANGED vars
    <3>1. UNCHANGED <<sessVars, ctx, conns, go, firing, busFailures, revoked, sessionHistory>>
      BY <2>5 DEF vars, serverVars, history
    <3>2. busFailures' \in 0..BusFailThreshold-1 /\ revoked' \subseteq Operators
      BY <3>1 DEF ServerInv, RestInv
    <3> QED
      BY <3>1, <3>2, QuietInv
  <2> QED
    BY <2>1, <2>2, <2>3, <2>4, <2>5 DEF Next, Server
<1>2. SessInv'
  BY <1>1, SessStep DEF ServerInv
<1> QED
  BY <1>1, <1>2 DEF ServerInv

LEMMA InitServerInv ==
  ASSUME Init
  PROVE  ServerInv
<1> USE DEF Init
<1>1. SessInv
  BY InitSessInv
<1>2. GoInv
  BY FreeFits DEF GoInv
<1>3. \A v \in Vehicles : ctx[v] = NewVehicleContext
  OBVIOUS
<1>4. /\ NewVehicleContext.SM \in MachineType /\ NewVehicleContext.SM.System = "IDLE"
      /\ \A w \in TimerWatchdogs : WatchdogOK(NewVehicleContext[w])
      /\ \A w \in PollWatchdogs : NewVehicleContext[w] \in Poller
      /\ DOMAIN NewVehicleContext = Objects
  <2>1. NewMachine \in MachineType /\ NewMachine.System = "IDLE"
    BY DEF NewMachine, MachineType, SystemState, ControlState, OperatorState, MediaState, DegradedReason
  <2>2. \A b \in BOOLEAN : WatchdogOK(NewWatchdog(b))
    BY LateAssumption DEF WatchdogOK, NewWatchdog, Watchdog
  <2>3. NewPoller \in Poller
    BY PollRuns DEF Poller, NewPoller, Ended
  <2>4. DOMAIN NewVehicleContext = Objects
    BY DEF NewVehicleContext, Objects, TimerWatchdogs, PollWatchdogs
  <2>5. /\ NewVehicleContext["SM"] = NewMachine
        /\ NewVehicleContext["Deadman"] = NewWatchdog(FALSE)
        /\ NewVehicleContext["ACKTimeoutWatcher"] = NewWatchdog(FALSE)
        /\ NewVehicleContext["VehicleACKWatchdog"] = NewWatchdog(TRUE)
        /\ NewVehicleContext["AuthWatchdog"] = NewPoller
        /\ NewVehicleContext["TelemetryWatchdog"] = NewPoller
    BY DEF NewVehicleContext, NewDeadmanWatchdog, NewACKTimeoutWatcher, NewVehicleACKWatchdog
  <2> QED
    BY <2>1, <2>2, <2>3, <2>4, <2>5 DEF TimerWatchdogs, PollWatchdogs
<1>5. CtxInv
  BY <1>3, <1>4 DEF CtxInv
<1>6. RestInv
  <2>1. 0 \in 0..BusFailThreshold-1
    BY DEF BusFailThreshold
  <2> QED
    BY <2>1 DEF RestInv, SessInit
<1>7. ASSUME NEW v \in Vehicles
      PROVE  TransitInv(v) /\ AttendedInv(v) /\ \A w \in Watched : SupervisedInv(v, w)
  <2>1. Sys(v) = "IDLE" /\ ~InControl(v)
    BY <1>3, <1>4 DEF Sys, InControl, Controlling
  <2>2. ~IsVehicleLocked(v)
    BY DEF SessInit, IsVehicleLocked
  <2> QED
    BY <2>1, <2>2 DEF TransitInv, AttendedInv, SupervisedInv
<1>8. OwedInv
  BY <1>7 DEF OwedInv
<1> QED
  BY <1>1, <1>2, <1>5, <1>6, <1>8 DEF ServerInv

\* Every behaviour of the server keeps the invariant.
THEOREM ServerInvariance == Spec => []ServerInv
<1>1. Init => ServerInv
  BY InitServerInv
<1>2. ServerInv /\ [Next]_vars => ServerInv'
  BY ServerStep
<1> QED
  BY <1>1, <1>2, PTL DEF Spec

-----------------------------------------------------------------------------
(* What it shows *)

\* Every object of the server keeps its type, whichever handlers, callbacks and
\* pollers overlap: in particular a late callback never takes a watchdog's
\* counts below zero, and the consecutive failures of the pollers and of the
\* safety bus stay below the thresholds at which they are reported.
THEOREM ServerTypeCorrect == Spec => []ServerTypeOK
<1>1. ServerInv => ServerTypeOK
  <2> SUFFICES ASSUME ServerInv PROVE ServerTypeOK
    OBVIOUS
  <2>1. SessTypeOK /\ CtxInv /\ RestInv /\ GoInv
    BY DEF ServerInv, SessInv
  <2>2. ASSUME NEW v \in Vehicles
        PROVE  /\ ctx[v].SM \in MachineType
               /\ \A w \in TimerWatchdogs : ctx[v][w] \in Watchdog
               /\ \A w \in PollWatchdogs : \A r \in ctx[v][w].late \cup {ctx[v][w].run} :
                    r.phase \in Phase /\ r.failures \in 0..FailThreshold-1
               /\ conns[v] \in VConns \cup {NoConn}
               /\ firing[v] \subseteq TimerWatchdogs
    <3>1. ASSUME NEW w \in PollWatchdogs
          PROVE  \A r \in ctx[v][w].late \cup {ctx[v][w].run} : r \in PollRun
      BY <2>1 DEF CtxInv, Poller
    <3>2. \A r \in PollRun : r.phase \in Phase /\ r.failures \in 0..FailThreshold-1
      BY DEF PollRun
    <3> QED
      BY <2>1, <3>1, <3>2 DEF CtxInv, RestInv, WatchdogOK
  <2>3. \A t \in Threads : go[t].session \in SessionIds \cup {NoSession}
    BY <2>1 DEF GoInv, Fits
  <2> QED
    BY <2>1, <2>2, <2>3 DEF ServerTypeOK, RestInv
<1> QED
  BY <1>1, ServerInvariance, PTL

\* When no handler is at work, nothing is owed.
LEMMA QuietOwesNothing ==
  ASSUME ServerInv, Quiet
  PROVE  /\ \A v, a : ~Owed(v, a)
         /\ \A s : ~StillStops(s)
         /\ \A v : ~BeingEnded(v)
<1>1. \A t \in Threads : \A a : ~Has(go[t].prog, a)
  BY EmptyProgram DEF Quiet
<1>2. Conns \subseteq Threads
  BY DEF Threads
<1>3. \A t \in Threads : ~Guarded(go[t].prog)
  BY <1>1 DEF Guarded
<1> QED
  BY <1>1, <1>2, <1>3 DEF Owed, StillStops, BeingEnded

\* A vehicle is only in CONNECTING, AUTHENTICATED or RECOVERING as long as some
\* handler on it has yet to take it further: no number of starts, ends,
\* reconnects and stops that overlap strands one there.
THEOREM TransitSafety == Spec => []NeverStuckInTransit
<1>1. ServerInv => NeverStuckInTransit
  <2> SUFFICES ASSUME ServerInv, Quiet, NEW v \in Vehicles
               PROVE  Sys(v) \in {"IDLE", "CONNECTED", "DEGRADED", "SAFE_MODE"}
    BY DEF NeverStuckInTransit
  <2>1. TransitInv(v) /\ ctx[v].SM \in MachineType
    BY DEF ServerInv, OwedInv, CtxInv
  <2>2. Sys(v) \notin {"CONNECTING", "RECOVERING", "AUTHENTICATED"}
    BY <2>1, QuietOwesNothing DEF TransitInv
  <2>3. Sys(v) \in SystemState
    BY <2>1 DEF Sys, MachineType
  <2> QED
    BY <2>2, <2>3 DEF SystemState
<1> QED
  BY <1>1, ServerInvariance, PTL

\* ADR-011 for any number of overlapping handlers: once they have finished, a
\* vehicle under control has an operator, although TransitionToConnected and
\* TransitionOperator are separate calls.
THEOREM ControlSafety == Spec => []ControlHasAnOperator
<1>1. ServerInv => ControlHasAnOperator
  <2> SUFFICES ASSUME ServerInv, Quiet, NEW v \in Vehicles, InControl(v),
                      ctx[v].SM.Operator = "NO_OPERATOR"
               PROVE  FALSE
    BY DEF ControlHasAnOperator
  <2>1. TransitInv(v)
    BY DEF ServerInv, OwedInv
  <2> QED
    BY <2>1, QuietOwesNothing DEF TransitInv
<1> QED
  BY <1>1, ServerInvariance, PTL

\* ADR-009 for any number of sockets: a vehicle whose control was taken by a
\* handler of its own session is not left under control when the session's
\* last socket has gone.
THEOREM AttendanceSafety == Spec => []UnattendedOnlyThroughOthers
<1>1. ServerInv => UnattendedOnlyThroughOthers
  <2> SUFFICES ASSUME ServerInv, Quiet, NEW v \in Vehicles, NEW s \in SessionIds,
                      grantor[v] = s, InControl(v), vehicleController[v] = s, s \in attached
               PROVE  Open(s)
    BY DEF UnattendedOnlyThroughOthers, Attended, Open
  <2>1. AttendedInv(v)
    BY DEF ServerInv, OwedInv
  <2>2. Open(s) \/ StillStops(s)
    BY <2>1 DEF AttendedInv
  <2> QED
    BY <2>2, QuietOwesNothing
<1> QED
  BY <1>1, ServerInvariance, PTL

\* A controlled vehicle only loses its dead-man switch or a poller to a handler
\* of a session that does not control it; handlers, callbacks and pollers of
\* its own session never do, in any number and order.
THEOREM SupervisionSafety == Spec => []SupervisionLostOnlyToOthers
<1>1. ServerInv => SupervisionLostOnlyToOthers
  <2> SUFFICES ASSUME ServerInv, Quiet, NEW v \in Vehicles, InControl(v), IsVehicleLocked(v),
                      NEW w \in Watched
               PROVE  Enabled(v, w) \/ w \in lostTo[v]
    BY DEF SupervisionLostOnlyToOthers, Watched
  <2>1. SupervisedInv(v, w)
    BY DEF ServerInv, OwedInv
  <2>2. w \notin firing[v]
    BY DEF Quiet
  <2> QED
    BY <2>1, <2>2, QuietOwesNothing DEF SupervisedInv
<1> QED
  BY <1>1, ServerInvariance, PTL

\* The server drives the session manager through its methods only, with a
\* vehicle, an operator and a session the manager knows, so the whole server
\* implements the manager's specification and inherits what is proved of it.
THEOREM ImplementsSessions == Spec => SessSpec
<1>1. Init => SessInit
  BY DEF Init
<1>2. ServerInv /\ [Next]_vars => [SessNext]_sessVars
  BY ServerStep
<1> QED
  BY <1>1, <1>2, ServerInvariance, PTL DEF Spec, SessSpec

\* ADR-025 in the running server: the lock of each vehicle behaves like the
\* abstract lock and a vehicle has at most one controlling session, whatever
\* the handlers interleave.
THEOREM ServerKeepsTheLock == Spec => LockSpecification /\ []OneControllerPerVehicle
  BY ImplementsSessions, ImplementsLock, OneController, PTL

-----------------------------------------------------------------------------
(* The loops over the fleet: a second inductive invariant *)

Sweeping == {"endAll", "stop", "bus"}

LoopBranch(kind) ==
  CASE kind = "endAll" -> "EndVehicle"
    [] kind = "stop"   -> "StopVehicle"
    [] kind = "bus"    -> "StopActive"

\* The SYSTEM state a turn of the loop takes its vehicle to.
Ends(kind) == IF kind = "endAll" THEN "IDLE" ELSE "SAFE_MODE"

\* g has yet to turn to v, or it has turned to it and is yet to stop it.
Aims(g, v) ==
  /\ g.as \in Sweeping
  /\ \/ Has(g.prog, Handler(LoopBranch(g.as), v))
     \/ g.vehicle = v /\ Has(g.prog, System(Ends(g.as)))

\* A turn is finished before the next one begins, and EndSession comes last.
Ordered(prog) ==
  \A i, j \in 1..Len(prog) : i < j =>
    /\ prog[i][1] = "handler" => prog[j][1] # "SM"
    /\ prog[i] # Manager("EndSession")

\* What a pursued vehicle may rely on.
Pursued(t, v) ==
  /\ Outstanding(go[t].as, ctx[v].SM)
  /\ Aims(go[t], v)
  /\ go[t].as = "endAll" => IsVehicleLocked(v)

PursuitInv ==
  /\ pursued \in [Sweepers -> SUBSET Vehicles]
  /\ \A t \in Sweepers : \A v \in pursued[t] : Pursued(t, v)
  /\ \A t \in Threads : go[t].as \in Sweeping => Ordered(go[t].prog)

\* What is left of an ordered program, and what its first call tells of it.
LEMMA OrderedRest ==
  ASSUME NEW S, NEW p \in Seq(S), p # <<>>, Ordered(p)
  PROVE  /\ Ordered(Tail(p))
         /\ Head(p)[1] = "handler" => \A n : ~Has(p, System(n))
         /\ Head(p) = Manager("EndSession") => \A a : Has(p, a) => a = Head(p)
<1>1. Len(p) \in Nat /\ Len(p) >= 1 /\ Head(p) = p[1] /\ Len(Tail(p)) = Len(p) - 1
      /\ \A i \in 1..Len(Tail(p)) : Tail(p)[i] = p[i+1]
  OBVIOUS
<1>2. Ordered(Tail(p))
  <2> SUFFICES ASSUME NEW i \in 1..Len(Tail(p)), NEW j \in 1..Len(Tail(p)), i < j
               PROVE  /\ Tail(p)[i][1] = "handler" => Tail(p)[j][1] # "SM"
                      /\ Tail(p)[i] # Manager("EndSession")
    BY DEF Ordered
  <2>1. i+1 \in 1..Len(p) /\ j+1 \in 1..Len(p) /\ i+1 < j+1
    BY <1>1
  <2>2. Tail(p)[i] = p[i+1] /\ Tail(p)[j] = p[j+1]
    BY <1>1
  <2> QED
    BY <2>1, <2>2 DEF Ordered
<1>3. ASSUME Head(p)[1] = "handler", NEW n, Has(p, System(n)) PROVE FALSE
  <2>1. PICK j \in 1..Len(p) : p[j] = System(n)
    BY <1>3 DEF Has
  <2>2. p[j][1] = "SM"
    BY <2>1 DEF System
  <2>3. 1 < j
    BY <1>1, <1>3, <2>2
  <2>4. 1 \in 1..Len(p) /\ p[1][1] = "handler"
    BY <1>1, <1>3
  <2> QED
    BY <2>2, <2>3, <2>4 DEF Ordered
<1>4. ASSUME Head(p) = Manager("EndSession"), NEW a, Has(p, a) PROVE a = Head(p)
  <2>1. PICK j \in 1..Len(p) : p[j] = a
    BY <1>4 DEF Has
  <2>2. CASE 1 < j
    <3>1. 1 \in 1..Len(p) /\ p[1] = Manager("EndSession")
      BY <1>1, <1>4
    <3> QED
      BY <2>2, <3>1 DEF Ordered
  <2>3. CASE ~(1 < j)
    BY <1>1, <2>1, <2>3
  <2> QED
    BY <2>2, <2>3
<1> QED
  BY <1>2, <1>3, <1>4

\* The calls of a turn before an ordered program.
LEMMA OrderedConcat ==
  ASSUME NEW S, NEW p \in Seq(S), NEW q \in Seq(S), Ordered(q),
         \A i \in 1..Len(p) : p[i][1] # "handler" /\ p[i] # Manager("EndSession")
  PROVE  Ordered(p \o q)
<1> DEFINE r == p \o q
<1> SUFFICES ASSUME NEW i \in 1..Len(r), NEW j \in 1..Len(r), i < j
             PROVE  /\ r[i][1] = "handler" => r[j][1] # "SM"
                    /\ r[i] # Manager("EndSession")
  BY DEF Ordered
<1>1. CASE i \in 1..Len(p)
  <2>1. r[i] = p[i]
    BY <1>1, Concat
  <2> QED
    BY <1>1, <2>1
<1>2. CASE i \notin 1..Len(p)
  <2>0. Len(p) \in Nat /\ Len(q) \in Nat /\ Len(r) = Len(p) + Len(q)
    BY Concat
  <2>1. j \notin 1..Len(p)
    BY <1>2, <2>0
  <2>2. i - Len(p) \in 1..Len(q) /\ r[i] = q[i - Len(p)]
    BY <1>2, Concat
  <2>3. j - Len(p) \in 1..Len(q) /\ r[j] = q[j - Len(p)]
    BY <2>1, Concat
  <2>4. i - Len(p) < j - Len(p)
    BY <2>0
  <2> QED
    BY <2>2, <2>3, <2>4 DEF Ordered
<1> QED
  BY <1>1, <1>2

\* A loop, and a loop before EndSession.
LEMMA OrderedLoop ==
  ASSUME NEW branch, NEW p \in Seq(LoopCalls(branch))
  PROVE  Ordered(p) /\ Ordered(p \o <<Manager("EndSession")>>)
<1> DEFINE q == <<Manager("EndSession")>>
           S == LoopCalls(branch) \cup {Manager("EndSession")}
           r == p \o q
<1>1. \A c \in LoopCalls(branch) : c[1] = "handler" /\ c # Manager("EndSession")
  <2>1. \A v : Handler(branch, v)[1] = "handler" /\ Manager("EndSession")[1] = "sessions"
    BY DEF Handler, Manager
  <2> HIDE DEF q, S, r
  <2> QED
    BY <2>1 DEF LoopCalls
<1>2. \A i \in 1..Len(p) : p[i] \in LoopCalls(branch)
  OBVIOUS
<1>3. Ordered(p)
  BY <1>1, <1>2 DEF Ordered
<1>4. p \in Seq(S) /\ q \in Seq(S) /\ Len(q) = 1 /\ q[1] = Manager("EndSession")
  BY SeqWiden
<1>5. Manager("EndSession")[1] = "sessions"
  BY DEF Manager
<1> HIDE DEF q, S
<1>6. Len(p) \in Nat /\ Len(r) = Len(p) + 1
  <2>1. Len(p \o q) = Len(p) + Len(q)
    BY <1>4, Concat
  <2> QED
    BY <1>4, <2>1
<1>7. \A i \in 1..Len(p) : r[i] = p[i]
  BY <1>4, Concat
<1>8. r[Len(p) + 1] = Manager("EndSession")
  BY <1>4, Concat
<1>9. ASSUME NEW i \in 1..Len(r), NEW j \in 1..Len(r), i < j
      PROVE  r[i] \in LoopCalls(branch) /\ r[j][1] # "SM"
  <2>1. i \in 1..Len(p) /\ (j \in 1..Len(p) \/ j = Len(p) + 1)
    BY <1>6, <1>9
  <2> HIDE DEF r
  <2> QED
    BY <1>1, <1>2, <1>5, <1>7, <1>8, <2>1
<1>10. Ordered(r)
  BY <1>1, <1>9 DEF Ordered
<1> QED
  BY <1>3, <1>10 DEF q

\* A loop over S has a turn for each of its vehicles.
LEMMA LoopHas ==
  ASSUME NEW S, S \subseteq Vehicles, NEW vs \in Orders(S), NEW branch, NEW v \in S
  PROVE  Has(ForEach(vs, branch), Handler(branch, v))
<1>1. Cardinality(S) \in Nat
  BY ServerAssumption, FS_Subset, FS_CardinalityType
<1>2. vs \in [1..Cardinality(S) -> S]
  BY DEF Orders
<1>3. PICK i \in 1..Cardinality(S) : vs[i] = v
  BY <1>2 DEF Orders
<1>4. ForEach(vs, branch) = [k \in 1..Cardinality(S) |-> Handler(branch, vs[k])]
  BY <1>2 DEF ForEach
<1> HIDE DEF Handler
<1>5. Len(ForEach(vs, branch)) = Cardinality(S)
  BY <1>1, <1>4
<1>6. ForEach(vs, branch)[i] = Handler(branch, v)
  BY <1>3, <1>4
<1> QED
  BY <1>3, <1>5, <1>6 DEF Has

\* The goroutines stay as they are.
LEMMA FleetEvent ==
  ASSUME PursuitInv, UNCHANGED <<sessVars, go>>,
         pursued' \in [Sweepers -> SUBSET Vehicles],
         \A t \in Sweepers : \A v \in pursued'[t] :
           v \in pursued[t] /\ Outstanding(go[t].as, ctx'[v].SM)
  PROVE  PursuitInv'
<1>1. \A v : IsVehicleLocked(v)' <=> IsVehicleLocked(v)
  BY DEF sessVars, IsVehicleLocked, Live
<1>2. ASSUME NEW t \in Sweepers, NEW v \in pursued'[t] PROVE Pursued(t, v)'
  <2>1. Pursued(t, v) /\ Outstanding(go[t].as, ctx'[v].SM)
    BY <1>2 DEF PursuitInv
  <2> QED
    BY <1>1, <2>1 DEF Pursued
<1> QED
  BY <1>2 DEF PursuitInv

\* Only t goes on, as g.
LEMMA FleetMove ==
  ASSUME GoInv, PursuitInv, NEW t \in Threads, NEW g, go' = [go EXCEPT ![t] = g],
         pursued' \in [Sweepers -> SUBSET Vehicles],
         \A u \in Sweepers : \A v \in pursued'[u] : u # t =>
           /\ v \in pursued[u] /\ Outstanding(go[u].as, ctx'[v].SM)
           /\ go[u].as = "endAll" => IsVehicleLocked(v)',
         t \in Sweepers => \A v \in pursued'[t] :
           /\ Outstanding(g.as, ctx'[v].SM) /\ Aims(g, v)
           /\ g.as = "endAll" => IsVehicleLocked(v)',
         g.as \in Sweeping => Ordered(g.prog)
  PROVE  PursuitInv'
<1>1. go'[t] = g /\ \A u \in Threads : u # t => go'[u] = go[u]
  BY DEF GoInv
<1>2. Sweepers \subseteq Threads
  BY DEF Sweepers, Threads
<1>3. ASSUME NEW u \in Sweepers, NEW v \in pursued'[u] PROVE Pursued(u, v)'
  <2>1. CASE u = t
    BY <1>1, <1>3, <2>1 DEF Pursued
  <2>2. CASE u # t
    <3>1. Pursued(u, v) /\ go'[u] = go[u]
      BY <1>1, <1>2, <1>3, <2>2 DEF PursuitInv
    <3> QED
      BY <1>3, <2>2, <3>1 DEF Pursued
  <2> QED
    BY <2>1, <2>2
<1>4. \A u \in Threads : go'[u].as \in Sweeping => Ordered(go'[u].prog)
  BY <1>1 DEF PursuitInv
<1> QED
  BY <1>3, <1>4 DEF PursuitInv

\* A goroutine that is not at such a loop pursues nothing.
LEMMA NothingPursued ==
  ASSUME PursuitInv, NEW t \in Sweepers, go[t].as \notin Sweeping
  PROVE  pursued[t] = {}
  BY DEF PursuitInv, Pursued, Aims

\* Handlers of one session.
LEMMA Bystander ==
  ASSUME GoInv, PursuitInv, NEW t \in Threads, NEW g, go' = [go EXCEPT ![t] = g],
         go[t].as \notin Sweeping, g.as \notin Sweeping,
         UNCHANGED <<ctx, pursued>>,
         \A v \in Vehicles : IsVehicleLocked(v) => IsVehicleLocked(v)'
  PROVE  PursuitInv'
<1>1. pursued' \in [Sweepers -> SUBSET Vehicles] /\ pursued' = pursued /\ ctx' = ctx
  BY DEF PursuitInv
<1>2. ASSUME NEW u \in Sweepers, NEW v \in pursued'[u]
      PROVE  /\ v \in pursued[u] /\ Outstanding(go[u].as, ctx'[v].SM)
             /\ go[u].as = "endAll" => IsVehicleLocked(v)'
  <2>1. Pursued(u, v) /\ v \in Vehicles
    BY <1>1, <1>2 DEF PursuitInv
  <2> QED
    BY <1>1, <1>2, <2>1 DEF Pursued
<1>3. t \in Sweepers => pursued'[t] = {}
  BY <1>1, NothingPursued
<1> QED
  BY <1>1, <1>2, <1>3, FleetMove

\* Every session method but the ends keeps the locks.
LEMMA StillLocked ==
  ASSUME SessInv, UNCHANGED sessVars \/ \E v, o, s : StartSession(v, o, s)
  PROVE  \A v \in Vehicles : IsVehicleLocked(v) => IsVehicleLocked(v)'
<1>1. CASE UNCHANGED sessVars
  BY <1>1 DEF sessVars, IsVehicleLocked, Live
<1>2. CASE \E v, o, s : StartSession(v, o, s)
  <2>1. PICK w, o, s : StartSession(w, o, s)
    BY <1>2
  <2> SUFFICES ASSUME NEW v \in Vehicles, IsVehicleLocked(v) PROVE IsVehicleLocked(v)'
    OBVIOUS
  <2>2. vehicleController[v] \in SessionIds /\ vehicleController[v] \in issued
    BY DEF SessInv, SessTypeOK, IdsAreFresh, IsVehicleLocked, Live
  <2>3. s \notin issued
    BY <2>1 DEF StartSession
  <2> QED
    BY <2>1, <2>2, <2>3, SessionAssumption DEF StartSession, IsVehicleLocked, Live, SessInv, SessTypeOK
<1> QED
  BY <1>1, <1>2

\* What a turn does to its vehicle.
LEMMA TurnEnds ==
  ASSUME NEW m \in MachineType, NEW kind \in Sweeping, Outstanding(kind, m)
  PROVE  ~Outstanding(kind, TransitionSystem(m, Ends(kind)))
<1>1. PICK n : n = TransitionSystem(m, Ends(kind))
  OBVIOUS
<1>2. Ends(kind) \in SystemState /\ isValidTransition(m.System, Ends(kind))
  BY DEF Outstanding, Controlling, Ends, SystemState, isValidTransition, validSystemTransitions
<1>3. n.System = Ends(kind)
  BY <1>1, <1>2, SystemCall
<1> QED
  BY <1>1, <1>3 DEF Outstanding, Controlling, Ends

\* A goroutine that goes on with something to do.
LEMMA GoesOn ==
  ASSUME NEW g, NEW p, Ordered(p),
         g = [as |-> g.as, vehicle |-> g.vehicle, session |-> g.session,
              operator |-> g.operator, observer |-> g.observer, prog |-> g.prog]
  PROVE  LET h == Goes(g, p)
         IN  /\ h.as \in Sweeping => Ordered(h.prog)
             /\ \A a : Has(p, a) => h.as = g.as /\ h.vehicle = g.vehicle /\ h.prog = p
<1> DEFINE h == Goes(g, p)
<1>1. CASE h = Free /\ p = <<>>
  <2>1. h.as = "free" /\ \A a : ~Has(p, a)
    BY <1>1, FreeFits, EmptyProgram
  <2> HIDE DEF h
  <2> QED
    BY <2>1 DEF Sweeping, h
<1>2. CASE h = [g EXCEPT !.prog = p]
  <2>1. h.as = g.as /\ h.vehicle = g.vehicle /\ h.prog = p
    BY <1>2
  <2> HIDE DEF h
  <2> QED
    BY <2>1 DEF h
<1> QED
  BY <1>1, <1>2, GoesIs

\* The order stays when a call is done.
LEMMA RestOrdered ==
  ASSUME GoInv, PursuitInv, NEW t \in Threads, go[t].prog # <<>>
  PROVE  LET g == Goes(go[t], Tail(go[t].prog)) IN g.as \in Sweeping => Ordered(g.prog)
<1>1. PICK f, g : f = go[t] /\ g = Goes(f, Tail(f.prog))
  OBVIOUS
<1> SUFFICES ASSUME g.as \in Sweeping PROVE Ordered(g.prog)
  BY <1>1
<1>2. Fits(f)
  BY <1>1 DEF GoInv
<1>3. g = [f EXCEPT !.prog = Tail(f.prog)]
  BY <1>1, GoesIs, FreeFits DEF Sweeping
<1>4. g.as = f.as /\ g.prog = Tail(f.prog)
  BY <1>2, <1>3, WithProg
<1>5. PICK S : f.prog \in Seq(S)
  BY <1>2 DEF Fits, Program
<1>6. Ordered(f.prog)
  BY <1>1, <1>4 DEF PursuitInv
<1> QED
  BY <1>1, <1>4, <1>5, <1>6, OrderedRest

\* A call on a vehicle: the loop's own takes the vehicle out of its state,
\* and any other one keeps what the loop still has to do.
LEMMA FleetVehicleCall ==
  ASSUME ServerInv, PursuitInv, NEW t \in Threads, VehicleCall(t)
  PROVE  PursuitInv'
<1>0. GoInv /\ CtxInv
  BY DEF ServerInv
<1>1. PICK f, c, g : f = go[t] /\ c = Head(f.prog) /\ g = Goes(f, Tail(f.prog))
  OBVIOUS
<1>2. /\ f.prog # <<>> /\ c[1] \in Objects /\ f.vehicle \in Vehicles
      /\ go' = [go EXCEPT ![t] = g]
  BY <1>0, <1>1, Caller
<1>3. Fits(f)
  BY <1>0, <1>1 DEF GoInv
<1>4. Keeps(f, g, c)
  BY <1>1, <1>2, <1>3, CallKeeps
<1>5. PursueOn /\ UNCHANGED sessVars
  BY DEF VehicleCall
<1>6. /\ pursued' \in [Sweepers -> SUBSET Vehicles]
      /\ \A u \in Sweepers : \A v \in pursued'[u] :
           v \in pursued[u] /\ Outstanding(go[u].as, ctx'[v].SM)
  BY <1>5 DEF PursueOn, PursuitInv
<1>7. \A v : IsVehicleLocked(v)' <=> IsVehicleLocked(v)
  BY <1>5 DEF sessVars, IsVehicleLocked, Live
<1>8. \A u \in Sweepers : \A v \in pursued'[u] : go[u].as = "endAll" => IsVehicleLocked(v)'
  BY <1>6, <1>7 DEF PursuitInv, Pursued
<1>9. ASSUME t \in Sweepers, NEW v \in pursued'[t]
      PROVE  Outstanding(g.as, ctx'[v].SM) /\ Aims(g, v) /\ (g.as = "endAll" => IsVehicleLocked(v)')
  <2>1. /\ Outstanding(f.as, ctx[v].SM) /\ Aims(f, v) /\ v \in Vehicles
        /\ Outstanding(f.as, ctx'[v].SM) /\ (f.as = "endAll" => IsVehicleLocked(v)')
    BY <1>1, <1>6, <1>8, <1>9 DEF PursuitInv, Pursued
  <2>2. CASE Has(f.prog, Handler(LoopBranch(f.as), v))
    <3>1. c # Handler(LoopBranch(f.as), v)
      <4>1. Handler(LoopBranch(f.as), v)[1] = "handler" /\ "handler" \notin Objects
        BY DEF Handler, Objects, TimerWatchdogs, PollWatchdogs
      <4> QED
        BY <1>2, <4>1
    <3>2. Has(g.prog, Handler(LoopBranch(f.as), v)) /\ g.as = f.as
      BY <1>4, <2>2, <3>1 DEF Keeps
    <3> QED
      BY <2>1, <3>2 DEF Aims
  <2>3. CASE f.vehicle = v /\ Has(f.prog, System(Ends(f.as)))
    <3>1. ASSUME c = System(Ends(f.as)) PROVE FALSE
      <4>1. ctx[v].SM \in MachineType /\ ctx'[v].SM = TransitionSystem(ctx[v].SM, Ends(f.as))
        BY <1>0, <1>1, <2>3, <3>1, CallMachine
      <4>2. f.as \in Sweeping
        BY <2>1 DEF Aims
      <4> QED
        BY <2>1, <4>1, <4>2, TurnEnds
    <3>2. Has(g.prog, System(Ends(f.as))) /\ g.as = f.as /\ g.vehicle = f.vehicle
      BY <1>4, <2>3, <3>1 DEF Keeps
    <3> QED
      BY <2>1, <2>3, <3>2 DEF Aims
  <2> QED
    BY <2>1, <2>2, <2>3 DEF Aims
<1>10. g.as \in Sweeping => Ordered(g.prog)
  BY <1>0, <1>1, <1>2, RestOrdered
<1> QED
  BY <1>0, <1>2, <1>6, <1>8, <1>9, <1>10, FleetMove

\* A call on the manager: a released vehicle is nobody else's to reset.
LEMMA FleetSessionCall ==
  ASSUME ServerInv, PursuitInv, NEW t \in Threads, SessionCall(t)
  PROVE  PursuitInv'
<1>0. GoInv
  BY DEF ServerInv
<1>1. PICK f, c, g : f = go[t] /\ c = Head(f.prog) /\ g = Goes(f, Tail(f.prog))
  OBVIOUS
<1>2. f.prog # <<>> /\ c[1] = "sessions" /\ f.as \in {"end", "closing", "stop", "endAll"}
  BY <1>0, <1>1, SessionCallUses
<1>3. go' = [go EXCEPT ![t] = g] /\ LeaveTo(t) /\ ctx' = ctx
  BY <1>1 DEF SessionCall, Rest
<1>4. Fits(f)
  BY <1>0, <1>1 DEF GoInv
<1>5. Keeps(f, g, c)
  BY <1>1, <1>2, <1>4, CallKeeps
<1>6. PICK S : f.prog \in Seq(S)
  BY <1>4 DEF Fits, Program
<1>7. pursued' \in [Sweepers -> SUBSET Vehicles]
  BY <1>3 DEF LeaveTo, PursuitInv
<1>8. ASSUME NEW u \in Sweepers, NEW v \in pursued'[u]
      PROVE  /\ v \in pursued[u] /\ Outstanding(go[u].as, ctx'[v].SM)
             /\ u # t /\ go[u].as = "endAll" => IsVehicleLocked(v)'
  <2>1. v \in pursued[u] /\ (u = t \/ go[u].as # "endAll" \/ IsVehicleLocked(v)')
    BY <1>3, <1>8 DEF LeaveTo
  <2> QED
    BY <1>3, <2>1 DEF PursuitInv, Pursued
<1>9. ASSUME t \in Sweepers, NEW v \in pursued'[t]
      PROVE  Outstanding(g.as, ctx'[v].SM) /\ Aims(g, v) /\ (g.as = "endAll" => IsVehicleLocked(v)')
  <2>1. Outstanding(f.as, ctx'[v].SM) /\ Aims(f, v)
    BY <1>1, <1>8, <1>9 DEF PursuitInv, Pursued
  <2>2. PICK a : Has(f.prog, a) /\ a \in {Handler(LoopBranch(f.as), v), System(Ends(f.as))}
                 /\ (a = System(Ends(f.as)) => f.vehicle = v)
                 /\ a # c
    <3>1. /\ Handler(LoopBranch(f.as), v)[1] = "handler" /\ System(Ends(f.as))[1] = "SM"
          /\ Handler(LoopBranch(f.as), v) # System(Ends(f.as))
      BY DEF Handler, System
    <3>2. c # Handler(LoopBranch(f.as), v) /\ c # System(Ends(f.as))
      BY <1>2, <3>1
    <3> QED
      BY <2>1, <3>1, <3>2 DEF Aims
  <2>3. CASE f.as = "endAll"
    <3>1. Ordered(f.prog)
      BY <1>1, <2>3 DEF PursuitInv, Sweeping
    <3>2. c = Manager("EndSession")
      <4>1. CallTable(f.as, c)
        BY <1>1, <1>2, <1>4, NextCall, GrantFields
      <4>2. c = <<c[1], c[2], c[3]>> /\ c[2] = "EndSession" /\ c \in OtherCalls("endAll")
        BY <1>1, <1>2, <1>4, <2>3, <4>1, NextCall, GrantFields DEF CallTable
      <4>3. \A x \in StopWatchdogCalls : x[2] = "Stop"
        BY CallsDiffer DEF StopWatchdogCalls
      <4>4. System("IDLE")[2] = "TransitionSystem" /\ \A x \in LoopCalls("EndVehicle") : x[2] = "EndVehicle"
        BY DEF System, LoopCalls, Handler
      <4> QED
        BY <4>2, <4>3, <4>4 DEF OtherCalls
    <3> QED
      BY <1>1, <1>2, <1>6, <2>2, <3>1, <3>2, OrderedRest
  <2>4. CASE f.as # "endAll"
    <3>1. Has(g.prog, a) /\ g.as = f.as /\ g.vehicle = f.vehicle
      BY <1>5, <2>2 DEF Keeps
    <3> QED
      BY <2>1, <2>2, <2>4, <3>1 DEF Aims
  <2> QED
    BY <2>3, <2>4
<1>10. g.as \in Sweeping => Ordered(g.prog)
  BY <1>0, <1>1, <1>2, RestOrdered
<1> QED
  BY <1>0, <1>3, <1>7, <1>8, <1>9, <1>10, FleetMove

\* One turn of a loop: t goes on with the vehicle w.
LEMMA FleetTurn ==
  ASSUME GoInv, PursuitInv, NEW t \in Threads, NEW w, NEW h, NEW calls,
         go[t].as \in Sweeping, go[t].prog # <<>>,
         Head(go[t].prog) = Handler(LoopBranch(go[t].as), w),
         h = [as |-> go[t].as, vehicle |-> w, session |-> h.session,
              operator |-> h.operator, observer |-> h.observer, prog |-> h.prog],
         calls \in Seq(OtherCalls(go[t].as)),
         \A i \in 1..Len(calls) : calls[i][1] # "handler" /\ calls[i] # Manager("EndSession"),
         t \in Sweepers /\ w \in pursued[t] => Has(calls, System(Ends(go[t].as))),
         go' = [go EXCEPT ![t] = Goes(h, calls \o Rest(t))],
         UNCHANGED <<sessVars, ctx, pursued>>
  PROVE  PursuitInv'
<1>1. PICK f, p, g : f = go[t] /\ p = calls \o Rest(t) /\ g = Goes(h, p)
  OBVIOUS
<1>2. Fits(f) /\ f.as \in Sweeping
  BY <1>1 DEF GoInv
<1>3. f.prog \in Seq(OtherCalls(f.as)) /\ f.prog # <<>> /\ calls \in Seq(OtherCalls(f.as))
  BY <1>1, <1>2, NextCall DEF Sweeping
<1>4. Rest(t) = Tail(f.prog) /\ Rest(t) \in Seq(OtherCalls(f.as))
  BY <1>1, <1>3, Tails DEF Rest
<1>5. Head(f.prog)[1] = "handler"
  BY <1>1 DEF Handler
<1>6. Ordered(f.prog)
  BY <1>1, <1>2 DEF PursuitInv
<1>7. Ordered(Tail(f.prog)) /\ \A n : ~Has(f.prog, System(n))
  BY <1>3, <1>5, <1>6, OrderedRest
<1>8. Ordered(p)
  BY <1>1, <1>3, <1>4, <1>7, OrderedConcat
<1>9. /\ h = [as |-> h.as, vehicle |-> h.vehicle, session |-> h.session,
              operator |-> h.operator, observer |-> h.observer, prog |-> h.prog]
      /\ h.as = f.as /\ h.vehicle = w
  BY <1>1
<1>10. /\ g.as \in Sweeping => Ordered(g.prog)
       /\ \A a : Has(p, a) => g.as = f.as /\ g.vehicle = w /\ g.prog = p
  <2>1. /\ Goes(h, p).as \in Sweeping => Ordered(Goes(h, p).prog)
        /\ \A a : Has(p, a) => Goes(h, p).as = h.as /\ Goes(h, p).vehicle = h.vehicle /\ Goes(h, p).prog = p
    BY <1>8, <1>9, GoesOn, Zenon
  <2> QED
    BY <1>1, <1>9, <2>1, Zenon
<1>11. \A v : IsVehicleLocked(v)' <=> IsVehicleLocked(v)
  BY DEF sessVars, IsVehicleLocked, Live
<1>12. pursued' = pursued /\ ctx' = ctx /\ pursued' \in [Sweepers -> SUBSET Vehicles]
  BY DEF PursuitInv
<1>13. \A u \in Sweepers : \A v \in pursued'[u] :
         /\ v \in pursued[u] /\ Outstanding(go[u].as, ctx'[v].SM)
         /\ go[u].as = "endAll" => IsVehicleLocked(v)'
  BY <1>11, <1>12 DEF PursuitInv, Pursued
<1>14. ASSUME t \in Sweepers, NEW v \in pursued'[t]
       PROVE  Outstanding(g.as, ctx'[v].SM) /\ Aims(g, v) /\ (g.as = "endAll" => IsVehicleLocked(v)')
  <2>1. v \in pursued[t] /\ Outstanding(f.as, ctx'[v].SM) /\ (f.as = "endAll" => IsVehicleLocked(v)')
    BY <1>1, <1>13, <1>14
  <2>2. Has(f.prog, Handler(LoopBranch(f.as), v))
    BY <1>1, <1>7, <1>12, <1>14 DEF PursuitInv, Pursued, Aims
  <2>3. CASE v = w
    <3>1. Has(p, System(Ends(f.as)))
      BY <1>1, <1>3, <1>4, <1>14, <2>1, <2>3, HasConcat
    <3> QED
      BY <1>2, <1>10, <2>1, <2>3, <3>1 DEF Aims
  <2>4. CASE v # w
    <3>1. Handler(LoopBranch(f.as), v) # Head(f.prog)
      <4>1. Handler(LoopBranch(f.as), v)[3] = v /\ Handler(LoopBranch(f.as), w)[3] = w
        BY DEF Handler
      <4> QED
        BY <1>1, <2>4, <4>1
    <3>2. Has(Rest(t), Handler(LoopBranch(f.as), v))
      BY <1>3, <1>4, <2>2, <3>1, Tails
    <3>3. Has(p, Handler(LoopBranch(f.as), v))
      BY <1>1, <1>3, <1>4, <3>2, HasConcat
    <3> QED
      BY <1>2, <1>10, <2>1, <3>3 DEF Aims
  <2> QED
    BY <2>3, <2>4
<1> QED
  BY <1>1, <1>10, <1>12, <1>13, <1>14, FleetMove

\* The calls of a turn are no branches of the handler.
LEMMA TurnCalls ==
  /\ \A p \in Seq(StopWatchdogCalls \cup {System("IDLE"), System("SAFE_MODE"), Manager("SaveCheckpoint")}) :
       \A i \in 1..Len(p) : p[i][1] # "handler" /\ p[i] # Manager("EndSession")
  /\ \A n : Has(<<System(n)>>, System(n))
<1>1. \A w : Stop(w)[1] = w
  BY DEF Stop
<1>2. \A n : System(n)[1] = "SM" /\ System(n)[2] = "TransitionSystem"
  BY DEF System
<1>3. \A m : Manager(m)[1] = "sessions" /\ Manager(m)[2] = m
  BY DEF Manager
<1>4. \A c \in StopWatchdogCalls : c[1] # "handler" /\ c[1] # "sessions"
  BY <1>1 DEF StopWatchdogCalls
<1>5. ASSUME NEW c \in StopWatchdogCalls \cup {System("IDLE"), System("SAFE_MODE"), Manager("SaveCheckpoint")}
      PROVE  c[1] # "handler" /\ c # Manager("EndSession")
  BY <1>2, <1>3, <1>4
<1>6. \A n : Has(<<System(n)>>, System(n))
  BY OneCall
<1> QED
  BY <1>5, <1>6

\* A turn of the reset, of the stop and of the bus watchdog's loop.
LEMMA FleetEndVehicle ==
  ASSUME ServerInv, PursuitInv, NEW t \in Threads, EndVehicle(t)
  PROVE  PursuitInv'
<1>0. GoInv /\ Fits(go[t])
  BY DEF ServerInv, GoInv
<1>1. PICK w : w = Head(go[t].prog)[3]
  OBVIOUS
<1>2. Branching(t, "EndVehicle")
  BY DEF EndVehicle
<1>3. go[t].as = "endAll" /\ Head(go[t].prog) = Handler("EndVehicle", w) /\ go[t].prog # <<>>
  BY <1>0, <1>1, <1>2, Branches DEF CallTable, Handler
<1>4. go[t].as \in Sweeping /\ LoopBranch(go[t].as) = "EndVehicle" /\ Ends(go[t].as) = "IDLE"
  BY <1>3 DEF Sweeping, LoopBranch, Ends
<1> DEFINE calls == IF IsVehicleLocked(w) THEN stopWatchdogs \o <<System("IDLE")>> ELSE <<>>
           h == [go[t] EXCEPT !.vehicle = w, !.session = vehicleController[w]]
<1>5. go' = [go EXCEPT ![t] = Goes(h, calls \o Rest(t))] /\ UNCHANGED <<sessVars, ctx, pursued>>
  BY <1>1 DEF EndVehicle, history
<1>6. h = [as |-> go[t].as, vehicle |-> w, session |-> vehicleController[w],
           operator |-> go[t].operator, observer |-> go[t].observer, prog |-> go[t].prog]
  BY <1>0, WithTwo
<1>7. h = [as |-> go[t].as, vehicle |-> w, session |-> h.session,
           operator |-> h.operator, observer |-> h.observer, prog |-> h.prog]
  BY <1>6
<1> DEFINE S == StopWatchdogCalls \cup {System("IDLE"), System("SAFE_MODE"), Manager("SaveCheckpoint")}
           R == StopWatchdogCalls \cup {System("IDLE")}
<1>8. stopWatchdogs \in Seq(R) /\ <<System("IDLE")>> \in Seq(R)
  BY StopWatchdogsProgram, SeqWiden
<1>9. calls \in Seq(R)
  BY <1>8, EmptyProgram, Concat
<1>10. calls \in Seq(S) /\ calls \in Seq(OtherCalls("endAll"))
  <2>1. R \subseteq S /\ R \subseteq OtherCalls("endAll")
    BY DEF OtherCalls
  <2> HIDE DEF R, S, calls
  <2> QED
    BY <1>9, <2>1, SeqWiden
<1>11. IsVehicleLocked(w) => Has(calls, System("IDLE"))
  BY <1>8, HasConcat, TurnCalls
<1>12. t \in Sweepers /\ w \in pursued[t] => IsVehicleLocked(w)
  BY <1>3 DEF PursuitInv, Pursued
<1>13. \A i \in 1..Len(calls) : calls[i][1] # "handler" /\ calls[i] # Manager("EndSession")
  BY <1>10, TurnCalls
<1> HIDE DEF calls, h, R, S
<1> QED
  BY <1>0, <1>3, <1>4, <1>5, <1>7, <1>10, <1>11, <1>12, <1>13, FleetTurn

\* A stop begins with SAFE_MODE.
LEMMA StopCallsOrdered ==
  ASSUME NEW v
  PROVE  /\ \A i \in 1..Len(stopCalls(v)) :
              stopCalls(v)[i][1] # "handler" /\ stopCalls(v)[i] # Manager("EndSession")
         /\ Has(stopCalls(v), System("SAFE_MODE"))
<1> DEFINE S == StopWatchdogCalls \cup {System("IDLE"), System("SAFE_MODE"), Manager("SaveCheckpoint")}
           p == <<System("SAFE_MODE")>>
           q == IF IsVehicleLocked(v) THEN <<Manager("SaveCheckpoint")>> ELSE <<>>
<1>1. p \in Seq(S) /\ q \in Seq(S)
  <2>1. System("SAFE_MODE") \in S /\ Manager("SaveCheckpoint") \in S
    OBVIOUS
  <2> HIDE DEF S
  <2> QED
    BY <2>1
<1>2. Has(p, System("SAFE_MODE"))
  BY TurnCalls
<1>3. stopCalls(v) = p \o q
  BY DEF stopCalls
<1> HIDE DEF p, q
<1>4. stopCalls(v) \in Seq(S) /\ Has(stopCalls(v), System("SAFE_MODE"))
  BY <1>1, <1>2, <1>3, Concat, HasConcat
<1> QED
  BY <1>4, TurnCalls

\* The vehicle's stop is made before the next turn.
LEMMA FleetStopVehicle ==
  ASSUME ServerInv, PursuitInv, NEW t \in Threads, StopVehicle(t)
  PROVE  PursuitInv'
<1>0. GoInv /\ Fits(go[t])
  BY DEF ServerInv, GoInv
<1>1. PICK w : w = Head(go[t].prog)[3]
  OBVIOUS
<1>2. Branching(t, "StopVehicle")
  BY DEF StopVehicle
<1>3. go[t].as = "stop" /\ Head(go[t].prog) = Handler("StopVehicle", w) /\ go[t].prog # <<>>
  BY <1>0, <1>1, <1>2, Branches DEF CallTable, Handler
<1>4. go[t].as \in Sweeping /\ LoopBranch(go[t].as) = "StopVehicle" /\ Ends(go[t].as) = "SAFE_MODE"
  BY <1>3 DEF Sweeping, LoopBranch, Ends
<1> DEFINE h == [go[t] EXCEPT !.vehicle = w, !.session = vehicleController[w]]
<1>5. go' = [go EXCEPT ![t] = Goes(h, stopCalls(w) \o Rest(t))] /\ UNCHANGED <<sessVars, ctx, pursued>>
  BY <1>1 DEF StopVehicle, history
<1>6. h = [as |-> go[t].as, vehicle |-> w, session |-> vehicleController[w],
           operator |-> go[t].operator, observer |-> go[t].observer, prog |-> go[t].prog]
  BY <1>0, WithTwo
<1>7. h = [as |-> go[t].as, vehicle |-> w, session |-> h.session,
           operator |-> h.operator, observer |-> h.observer, prog |-> h.prog]
  BY <1>6
<1>8. PICK calls : calls = stopCalls(w)
  OBVIOUS
<1>9. /\ calls \in Seq(OtherCalls("stop")) /\ Has(calls, System("SAFE_MODE"))
      /\ \A i \in 1..Len(calls) : calls[i][1] # "handler" /\ calls[i] # Manager("EndSession")
  BY <1>8, StopCallsProgram, StopCallsOrdered
<1> HIDE DEF h
<1>10. go' = [go EXCEPT ![t] = Goes(h, calls \o Rest(t))] /\ UNCHANGED <<sessVars, ctx, pursued>>
  BY <1>5, <1>8
<1> QED
  BY <1>0, <1>3, <1>4, <1>7, <1>9, <1>10, FleetTurn

\* The bus watchdog only skips a vehicle that is in SAFE_MODE already.
LEMMA FleetStopActive ==
  ASSUME ServerInv, PursuitInv, StopActive
  PROVE  PursuitInv'
<1>0. GoInv /\ Fits(go[Bus]) /\ Bus \in Threads
  BY DEF ServerInv, GoInv, Threads
<1>1. PICK w : w = Head(go[Bus].prog)[3]
  OBVIOUS
<1>2. Branching(Bus, "StopActive")
  BY DEF StopActive
<1>3. go[Bus].as = "bus" /\ Head(go[Bus].prog) = Handler("StopActive", w) /\ go[Bus].prog # <<>>
  BY <1>0, <1>1, <1>2, Branches DEF CallTable, Handler
<1>4. go[Bus].as \in Sweeping /\ LoopBranch(go[Bus].as) = "StopActive" /\ Ends(go[Bus].as) = "SAFE_MODE"
  BY <1>3 DEF Sweeping, LoopBranch, Ends
<1> DEFINE calls == IF Sys(w) = "SAFE_MODE" THEN <<>> ELSE <<System("SAFE_MODE")>>
           h == [go[Bus] EXCEPT !.vehicle = w]
<1>5. go' = [go EXCEPT ![Bus] = Goes(h, calls \o Rest(Bus))] /\ UNCHANGED <<sessVars, ctx, pursued>>
  BY <1>1 DEF StopActive, history
<1>7. h = [as |-> go[Bus].as, vehicle |-> w, session |-> h.session,
           operator |-> h.operator, observer |-> h.observer, prog |-> h.prog]
  BY <1>0 DEF Fits
<1> DEFINE S == StopWatchdogCalls \cup {System("IDLE"), System("SAFE_MODE"), Manager("SaveCheckpoint")}
<1>8. calls \in Seq(S) /\ calls \in Seq(OtherCalls("bus"))
  <2>1. System("SAFE_MODE") \in S /\ System("SAFE_MODE") \in OtherCalls("bus")
    BY DEF OtherCalls
  <2> HIDE DEF S
  <2> QED
    BY <2>1
<1>9. \A i \in 1..Len(calls) : calls[i][1] # "handler" /\ calls[i] # Manager("EndSession")
  BY <1>8, TurnCalls
<1>10. Bus \in Sweepers /\ w \in pursued[Bus] => Sys(w) # "SAFE_MODE"
  BY <1>3 DEF PursuitInv, Pursued, Outstanding, Controlling, Sys
<1>11. Sys(w) # "SAFE_MODE" => Has(calls, System("SAFE_MODE"))
  BY TurnCalls
<1> HIDE DEF calls, h, S
<1> QED
  BY <1>0, <1>3, <1>4, <1>5, <1>7, <1>8, <1>9, <1>10, <1>11, FleetTurn

\* An idle goroutine begins as g to pursue the vehicles of vs.
LEMMA FleetPost ==
  ASSUME GoInv, PursuitInv, NEW t \in Sweepers, NEW g, go' = [go EXCEPT ![t] = g],
         NEW kind, NEW vs, vs \subseteq Vehicles, Pursue(t, kind, vs),
         UNCHANGED <<sessVars, ctx>>,
         \A v \in vs : g.as = kind /\ Aims(g, v) /\ (kind = "endAll" => IsVehicleLocked(v)),
         g.as \in Sweeping => Ordered(g.prog)
  PROVE  PursuitInv'
<1>0. t \in Threads
  BY DEF Sweepers, Threads
<1>1. \A v : IsVehicleLocked(v)' <=> IsVehicleLocked(v)
  BY DEF sessVars, IsVehicleLocked, Live
<1>2. /\ pursued' \in [Sweepers -> SUBSET Vehicles]
      /\ \A v \in pursued'[t] : v \in vs /\ Outstanding(kind, ctx[v].SM)
      /\ \A u \in Sweepers : u # t => pursued'[u] = pursued[u]
  BY DEF Pursue, PursuitInv
<1>3. \A u \in Sweepers : \A v \in pursued'[u] : u # t =>
        /\ v \in pursued[u] /\ Outstanding(go[u].as, ctx'[v].SM)
        /\ go[u].as = "endAll" => IsVehicleLocked(v)'
  BY <1>1, <1>2 DEF PursuitInv, Pursued
<1>4. \A v \in pursued'[t] :
        /\ Outstanding(g.as, ctx'[v].SM) /\ Aims(g, v)
        /\ g.as = "endAll" => IsVehicleLocked(v)'
  BY <1>1, <1>2
<1> QED
  BY <1>0, <1>2, <1>3, <1>4, FleetMove

\* The loops begin with a turn for every vehicle they are to end.
LEMMA FleetEndAll ==
  ASSUME ServerInv, PursuitInv, NEW r \in Requests, PostSessionEndAll(r)
  PROVE  PursuitInv'
<1>0. SessInv /\ GoInv /\ r \in Sweepers /\ ActiveVehicleIDs \subseteq Vehicles
  BY ActiveVehicles DEF ServerInv, Sweepers
<1>1. PICK vs \in Orders(ActiveVehicleIDs) :
        go' = [go EXCEPT ![r] =
          Spawn("endAll", NoConn, NoSession, NoConn, FALSE,
                ForEach(vs, "EndVehicle") \o <<Manager("EndSession")>>)]
  BY DEF PostSessionEndAll
<1>2. PICK p, q, g : /\ p = ForEach(vs, "EndVehicle") /\ q = <<Manager("EndSession")>>
                     /\ g = Spawn("endAll", NoConn, NoSession, NoConn, FALSE, p \o q)
  OBVIOUS
<1>3. g.as = "endAll" /\ g.prog = p \o q
  BY <1>2 DEF Spawn
<1>4. p \in Seq(LoopCalls("EndVehicle"))
  BY <1>0, <1>2, LoopProgram
<1>5. Ordered(p \o q)
  BY <1>2, <1>4, OrderedLoop
<1> DEFINE S == LoopCalls("EndVehicle") \cup {Manager("EndSession")}
<1>6. p \in Seq(S) /\ q \in Seq(S)
  <2>1. Manager("EndSession") \in S /\ LoopCalls("EndVehicle") \subseteq S
    OBVIOUS
  <2> HIDE DEF S
  <2> QED
    BY <1>2, <1>4, <2>1, SeqWiden
<1> DEFINE W == {v \in ActiveVehicleIDs : IsVehicleLocked(v)}
<1>7. ASSUME NEW v \in W PROVE Aims(g, v)
  <2>1. Has(p, Handler("EndVehicle", v))
    BY <1>0, <1>2, <1>7, LoopHas
  <2>2. Has(p \o q, Handler("EndVehicle", v))
    BY <1>6, <2>1, HasConcat
  <2> QED
    BY <1>3, <2>2 DEF Aims, Sweeping, LoopBranch
<1>8. Pursue(r, "endAll", W) /\ UNCHANGED <<sessVars, ctx>>
  BY DEF PostSessionEndAll
<1>9. go' = [go EXCEPT ![r] = g]
  BY <1>1, <1>2
<1>10. W \subseteq Vehicles /\ \A v \in W : IsVehicleLocked(v)
  BY <1>0
<1> HIDE DEF W, S
<1> QED
  BY <1>0, <1>3, <1>5, <1>7, <1>8, <1>9, <1>10, FleetPost

\* The stop of one vehicle.
LEMMA FleetStop ==
  ASSUME ServerInv, PursuitInv, NEW r \in Requests, NEW v \in Vehicles, PostEmergencyStop(r, v)
  PROVE  PursuitInv'
<1>0. GoInv /\ r \in Sweepers
  BY DEF ServerInv, Sweepers
<1>1. PICK p, g : p = stopCalls(v) /\ g = Spawn("stop", v, vehicleController[v], NoConn, FALSE, p)
  OBVIOUS
<1>2. g.as = "stop" /\ g.prog = p /\ g.vehicle = v
  BY <1>1 DEF Spawn
<1>3. /\ \A i \in 1..Len(p) : p[i][1] # "handler" /\ p[i] # Manager("EndSession")
      /\ Has(p, System("SAFE_MODE"))
  BY <1>1, StopCallsOrdered
<1>4. Ordered(p)
  BY <1>3 DEF Ordered
<1>5. Aims(g, v)
  BY <1>2, <1>3 DEF Aims, Sweeping, Ends
<1>6. Pursue(r, "stop", {v}) /\ UNCHANGED <<sessVars, ctx>> /\ go' = [go EXCEPT ![r] = g]
  BY <1>1 DEF PostEmergencyStop
<1>7. PICK W : W = {v}
  OBVIOUS
<1>8. /\ W \subseteq Vehicles /\ Pursue(r, "stop", W)
      /\ \A u \in W : g.as = "stop" /\ Aims(g, u) /\ ("stop" = "endAll" => IsVehicleLocked(u))
  BY <1>2, <1>5, <1>6, <1>7
<1> QED
  BY <1>0, <1>4, <1>2, <1>6, <1>8, FleetPost

\* The stop of the fleet.
LEMMA FleetStopAll ==
  ASSUME ServerInv, PursuitInv, NEW r \in Requests, PostEmergencyStopAll(r)
  PROVE  PursuitInv'
<1>0. GoInv /\ r \in Sweepers /\ ActiveVehicleIDs \subseteq Vehicles
  BY ActiveVehicles DEF ServerInv, Sweepers
<1>1. PICK vs \in Orders(ActiveVehicleIDs) :
        go' = [go EXCEPT ![r] =
          Spawn("stop", NoConn, NoSession, NoConn, FALSE, ForEach(vs, "StopVehicle"))]
  BY DEF PostEmergencyStopAll
<1>2. PICK p, g : p = ForEach(vs, "StopVehicle") /\ g = Spawn("stop", NoConn, NoSession, NoConn, FALSE, p)
  OBVIOUS
<1>3. g.as = "stop" /\ g.prog = p
  BY <1>2 DEF Spawn
<1>4. Ordered(p)
  BY <1>0, <1>2, LoopProgram, OrderedLoop
<1>5. \A v \in ActiveVehicleIDs : Has(p, Handler("StopVehicle", v))
  BY <1>0, <1>2, LoopHas
<1>6. \A v \in ActiveVehicleIDs : Aims(g, v)
  BY <1>3, <1>5 DEF Aims, Sweeping, LoopBranch
<1>7. Pursue(r, "stop", ActiveVehicleIDs) /\ UNCHANGED <<sessVars, ctx>> /\ go' = [go EXCEPT ![r] = g]
  BY <1>1, <1>2 DEF PostEmergencyStopAll
<1> QED
  BY <1>0, <1>3, <1>4, <1>6, <1>7, FleetPost

\* The bus watchdog counts failures, or begins its loop.
LEMMA FleetBus ==
  ASSUME ServerInv, PursuitInv, PingBus
  PROVE  PursuitInv'
<1>0. GoInv /\ Bus \in Sweepers /\ ActiveVehicleIDs \subseteq Vehicles
  BY ActiveVehicles DEF ServerInv, Sweepers
<1>1. UNCHANGED <<sessVars, ctx>>
  BY DEF PingBus
<1>2. CASE UNCHANGED <<go, pursued>>
  <2>1. /\ pursued' \in [Sweepers -> SUBSET Vehicles]
        /\ \A t \in Sweepers : \A v \in pursued'[t] :
             v \in pursued[t] /\ Outstanding(go[t].as, ctx'[v].SM)
    BY <1>1, <1>2 DEF PursuitInv, Pursued
  <2> QED
    BY <1>1, <1>2, <2>1, FleetEvent
<1>3. CASE ~UNCHANGED <<go, pursued>>
  <2>1. PICK vs \in Orders(ActiveVehicleIDs) :
          /\ Pursue(Bus, "bus", ActiveVehicleIDs)
          /\ go' = [go EXCEPT ![Bus] =
               Goes(Spawn("bus", NoConn, NoSession, NoConn, FALSE, <<>>), ForEach(vs, "StopActive"))]
    BY <1>3 DEF PingBus
  <2>2. PICK p, h, g : /\ p = ForEach(vs, "StopActive") /\ g = Goes(h, p)
                       /\ h = Spawn("bus", NoConn, NoSession, NoConn, FALSE, <<>>)
    OBVIOUS
  <2>3. /\ h.as = "bus"
        /\ h = [as |-> h.as, vehicle |-> h.vehicle, session |-> h.session,
                operator |-> h.operator, observer |-> h.observer, prog |-> h.prog]
    BY <2>2 DEF Spawn
  <2>4. Ordered(p)
    BY <1>0, <2>2, LoopProgram, OrderedLoop
  <2>5. \A v \in ActiveVehicleIDs : Has(p, Handler("StopActive", v))
    BY <1>0, <2>2, LoopHas
  <2>6. /\ Goes(h, p).as \in Sweeping => Ordered(Goes(h, p).prog)
        /\ \A a : Has(p, a) => Goes(h, p).as = h.as /\ Goes(h, p).prog = p
    BY <2>3, <2>4, GoesOn, Zenon
  <2>7. \A v \in ActiveVehicleIDs : g.as = "bus" /\ g.prog = p
    BY <2>2, <2>3, <2>5, <2>6
  <2>8. \A v \in ActiveVehicleIDs : g.as = "bus" /\ Aims(g, v)
    BY <2>5, <2>7 DEF Aims, Sweeping, LoopBranch
  <2>9. g.as \in Sweeping => Ordered(g.prog)
    BY <2>2, <2>6
  <2>10. go' = [go EXCEPT ![Bus] = g]
    BY <2>1, <2>2
  <2> QED
    BY <1>0, <1>1, <2>1, <2>8, <2>9, <2>10, FleetPost
<1> QED
  BY <1>2, <1>3

\* A goroutine that goes on is of the kind it was, or has ended.
LEMMA GoesKind ==
  ASSUME NEW g, Fits(g), g.as \notin Sweeping, NEW p
  PROVE  Goes(g, p).as \notin Sweeping
<1>1. [g EXCEPT !.prog = p].as = g.as
  BY WithProg
<1>2. Free.as \notin Sweeping
  BY FreeFits DEF Sweeping
<1> QED
  BY <1>1, <1>2, GoesIs

\* The goroutines of one session or socket.
LEMMA Spawned ==
  ASSUME NEW kind \in {"start", "end", "operator", "closing", "vehicle", "lost"},
         NEW v, NEW s, NEW o, NEW b, NEW p
  PROVE  Spawn(kind, v, s, o, b, p).as \notin Sweeping
  BY DEF Spawn, Sweeping

\* A branch of a handler of one session.
LEMMA FleetBranch ==
  ASSUME ServerInv, PursuitInv, NEW t \in Threads, NEW b, Branching(t, b),
         b \notin {"EndVehicle", "StopVehicle", "StopActive"},
         NEW p, go' = [go EXCEPT ![t] = Goes(go[t], p)],
         UNCHANGED <<sessVars, ctx, pursued>>
  PROVE  PursuitInv'
<1>0. SessInv /\ GoInv /\ Fits(go[t])
  BY DEF ServerInv, GoInv
<1>1. /\ Head(go[t].prog)[1] = "handler" /\ Head(go[t].prog)[2] = b
      /\ CallTable(go[t].as, Head(go[t].prog))
  BY <1>0, Branches
<1>2. go[t].as \in {"start", "operator", "closing", "lost"}
  BY <1>1 DEF CallTable
<1>3. go[t].as \notin Sweeping
  BY <1>2 DEF Sweeping
<1>4. PICK g : g = Goes(go[t], p)
  OBVIOUS
<1>5. g.as \notin Sweeping
  BY <1>0, <1>3, <1>4, GoesKind
<1>6. \A v \in Vehicles : IsVehicleLocked(v) => IsVehicleLocked(v)'
  BY <1>0, StillLocked
<1>7. go' = [go EXCEPT ![t] = g] /\ UNCHANGED <<ctx, pursued>>
  BY <1>4
<1> QED
  BY <1>0, <1>3, <1>5, <1>6, <1>7, Bystander

\* The branches of those handlers.
LEMMA FleetHandlers ==
  ASSUME ServerInv, PursuitInv, NEW t \in Threads,
         \/ CheckConnected(t) \/ Recover(t) \/ Refresh(t) \/ Forward(t)
         \/ StillActive(t) \/ StopUnlessSafe(t) \/ Unregister(t)
  PROVE  PursuitInv'
<1>1. /\ UNCHANGED <<sessVars, ctx, pursued>>
      /\ \E p : go' = [go EXCEPT ![t] = Goes(go[t], p)]
  <2>1. CASE CheckConnected(t) \/ Recover(t) \/ Forward(t) \/ StillActive(t) \/ StopUnlessSafe(t)
    BY <2>1 DEF CheckConnected, Recover, Forward, StillActive, StopUnlessSafe, Decide, history
  <2>2. CASE Refresh(t)
    BY <2>2 DEF Refresh, Decide, history
  <2>3. CASE Unregister(t)
    BY <2>3 DEF Unregister, history
  <2> QED
    BY <2>1, <2>2, <2>3
<1>2. \/ Branching(t, "Connected") \/ Branching(t, "Recover") \/ Branching(t, "Refresh")
      \/ Branching(t, "Forward") \/ Branching(t, "StillActive")
      \/ Branching(t, "StopUnlessSafe") \/ Branching(t, "Unregister")
  BY DEF CheckConnected, Recover, Refresh, Forward, StillActive, StopUnlessSafe, Unregister
<1>3. PICK b : Branching(t, b) /\ b \notin {"EndVehicle", "StopVehicle", "StopActive"}
  BY <1>2
<1> QED
  BY <1>1, <1>3, FleetBranch

\* A start adds a session and takes no lock away.
LEMMA FleetStart ==
  ASSUME ServerInv, PursuitInv, NEW t \in Threads, HandleStartSession(t)
  PROVE  PursuitInv'
<1>0. SessInv /\ GoInv /\ Fits(go[t]) /\ go[t].as = "start"
  BY StartSessionUses DEF ServerInv, GoInv
<1>1. PICK s, p, f, g :
        /\ StartSession(go[t].vehicle, go[t].operator, s)
        /\ f = [go[t] EXCEPT !.session = s] /\ g = Goes(f, p)
        /\ go' = [go EXCEPT ![t] = g]
  BY DEF HandleStartSession
<1>2. UNCHANGED <<ctx, pursued>>
  BY DEF HandleStartSession, history
<1>3. f.as = "start" /\ [f EXCEPT !.prog = p].as = "start"
  BY <1>0, <1>1 DEF Fits
<1>4. g.as = "start" \/ g.as = "free"
  BY <1>1, <1>3, GoesIs, FreeFits
<1>5. \A v \in Vehicles : IsVehicleLocked(v) => IsVehicleLocked(v)'
  BY <1>0, <1>1, StillLocked
<1>6. go[t].as \notin Sweeping /\ g.as \notin Sweeping /\ go' = [go EXCEPT ![t] = g]
  BY <1>0, <1>1, <1>4 DEF Sweeping
<1> QED
  BY <1>0, <1>2, <1>5, <1>6, Bystander

\* Requests, sockets and messages of one session or vehicle.
LEMMA FleetArrival ==
  ASSUME ServerInv, PursuitInv, NEW t \in Threads,
         \/ \E v \in Vehicles, o \in Operators : PostSessionStart(t, v, o)
         \/ \E s \in SessionIds : PostSessionEnd(t, s) \/ ServeWS(t, s)
         \/ \E cmd \in Commands : processWSMessage(t, cmd)
         \/ Disconnect(t)
         \/ \E v \in Vehicles : ServeVehicleWS(t, v)
         \/ VehicleDisconnect(t)
  PROVE  PursuitInv'
<1>0. SessInv /\ GoInv /\ Fits(go[t])
  BY DEF ServerInv, GoInv
<1>1. UNCHANGED <<sessVars, ctx, pursued>>
  BY DEF PostSessionStart, PostSessionEnd, ServeWS, processWSMessage, Decide, Disconnect,
     ServeVehicleWS, VehicleDisconnect, history
<1>2. go[t].as \in {"free", "operator", "vehicle"}
  BY DEF PostSessionStart, PostSessionEnd, ServeWS, processWSMessage, Disconnect,
     ServeVehicleWS, VehicleDisconnect, Idle, Reading
<1>3. go[t].as \notin Sweeping
  BY <1>2 DEF Sweeping
<1>4. PICK g : go' = [go EXCEPT ![t] = g] /\ g.as \notin Sweeping
  <2>1. CASE \E cmd \in Commands : processWSMessage(t, cmd)
    <3>1. PICK p : go' = [go EXCEPT ![t] = Goes(go[t], p)]
      BY <2>1 DEF processWSMessage, Decide
    <3> QED
      BY <1>0, <1>3, <3>1, GoesKind
  <2>2. CASE ~\E cmd \in Commands : processWSMessage(t, cmd)
    <3>1. CASE \E v \in Vehicles, o \in Operators : PostSessionStart(t, v, o)
      <4>1. PICK v \in Vehicles, o \in Operators : PostSessionStart(t, v, o)
        BY <3>1
      <4>2. PICK p : go' = [go EXCEPT ![t] = Spawn("start", v, NoSession, o, FALSE, p)]
        BY <4>1 DEF PostSessionStart
      <4> QED
        BY <4>2, Spawned
    <3>2. CASE \E s \in SessionIds : PostSessionEnd(t, s)
      <4>1. PICK s \in SessionIds : PostSessionEnd(t, s)
        BY <3>2
      <4>2. PICK p : go' = [go EXCEPT ![t] =
              Spawn("end", sessions[s].vehicle, s, sessions[s].operator, FALSE, p)]
        BY <4>1 DEF PostSessionEnd
      <4> QED
        BY <4>2, Spawned
    <3>3. CASE \E s \in SessionIds : ServeWS(t, s)
      <4>1. PICK s \in SessionIds : ServeWS(t, s)
        BY <3>3
      <4>2. PICK b, p : go' = [go EXCEPT ![t] =
              Spawn("operator", sessions[s].vehicle, s, sessions[s].operator, b, p)]
        BY <4>1 DEF ServeWS
      <4> QED
        BY <4>2, Spawned
    <3>4. CASE Disconnect(t)
      <4>1. PICK f, p : f = go[t] /\ go' = [go EXCEPT ![t] =
              Spawn("closing", f.vehicle, f.session, f.operator, f.observer, p)]
        BY <3>4 DEF Disconnect
      <4> QED
        BY <4>1, Spawned
    <3>5. CASE \E v \in Vehicles : ServeVehicleWS(t, v)
      <4>1. PICK v \in Vehicles : ServeVehicleWS(t, v)
        BY <3>5
      <4>2. go' = [go EXCEPT ![t] = Spawn("vehicle", v, NoSession, NoConn, FALSE, <<>>)]
        BY <4>1 DEF ServeVehicleWS
      <4> QED
        BY <4>2, Spawned
    <3>6. CASE VehicleDisconnect(t)
      <4>1. PICK f, p : f = go[t] /\ go' = [go EXCEPT ![t] =
              Spawn("lost", f.vehicle, f.session, f.operator, f.observer, p)]
        BY <3>6 DEF VehicleDisconnect
      <4> QED
        BY <4>1, Spawned
    <3> QED
      BY <2>2, <3>1, <3>2, <3>3, <3>4, <3>5, <3>6
  <2> QED
    BY <2>1, <2>2
<1>5. \A v \in Vehicles : IsVehicleLocked(v) => IsVehicleLocked(v)'
  BY <1>0, <1>1, StillLocked
<1> QED
  BY <1>0, <1>1, <1>3, <1>4, <1>5, Bystander

\* An event after which the machines still move on as they were pursued.
LEMMA FleetPursueOn ==
  ASSUME PursuitInv, UNCHANGED <<sessVars, go>>, PursueOn
  PROVE  PursuitInv'
<1>1. /\ pursued' \in [Sweepers -> SUBSET Vehicles]
      /\ \A t \in Sweepers : \A v \in pursued'[t] :
           v \in pursued[t] /\ Outstanding(go[t].as, ctx'[v].SM)
  BY DEF PursueOn, PursuitInv
<1> QED
  BY <1>1, FleetEvent

\* One that leaves every machine as far as the loops tell.
LEMMA FleetCalm ==
  ASSUME PursuitInv, UNCHANGED <<sessVars, go, pursued>>,
         \A v \in Vehicles : \A kind : Outstanding(kind, ctx[v].SM) => Outstanding(kind, ctx'[v].SM)
  PROVE  PursuitInv'
<1>1. /\ pursued' \in [Sweepers -> SUBSET Vehicles]
      /\ \A t \in Sweepers : \A v \in pursued'[t] :
           v \in pursued[t] /\ Outstanding(go[t].as, ctx'[v].SM)
  BY DEF PursuitInv, Pursued
<1> QED
  BY <1>1, FleetEvent

\* A media report does not move a machine across the loops' conditions.
LEMMA FleetMedia ==
  ASSUME ServerInv, PursuitInv, NEW v \in Vehicles, PostMediaEvent(v)
  PROVE  PursuitInv'
<1>0. CtxInv /\ ctx[v].SM \in MachineType
  BY DEF ServerInv, CtxInv
<1>1. PICK next \in MediaReports : ctx' = [ctx EXCEPT ![v]["SM"] = TransitionMedia(ctx[v]["SM"], next)]
  BY DEF PostMediaEvent
<1>2. PICK m, n : m = ctx[v].SM /\ n = TransitionMedia(m, next)
  OBVIOUS
<1>3. Reports(m, n)
  BY <1>0, <1>2, ReportCalls, ServerAssumption
<1>4. Typed("SM", n) /\ ctx' = [ctx EXCEPT ![v]["SM"] = n]
  BY <1>1, <1>2, <1>3, ObjectsApart DEF Typed, Reports
<1>5. ctx'[v]["SM"] = n /\ \A u \in Vehicles : u # v => ctx'[u] = ctx[u]
  BY <1>0, <1>4, ObjectsApart, OneObject
<1>6. \A kind : Outstanding(kind, m) => Outstanding(kind, n)
  BY <1>3 DEF Reports, Outstanding, Controlling
<1>7. \A u \in Vehicles : \A kind : Outstanding(kind, ctx[u].SM) => Outstanding(kind, ctx'[u].SM)
  BY <1>2, <1>5, <1>6
<1>8. UNCHANGED <<sessVars, go, pursued>>
  BY DEF PostMediaEvent, history
<1> QED
  BY <1>7, <1>8, FleetCalm

\* A watchdog's own state.
LEMMA FleetWatchdog ==
  ASSUME ServerInv, PursuitInv, NEW v \in Vehicles, NEW w \in TimerWatchdogs, NEW x,
         ctx' = [ctx EXCEPT ![v][w] = x], UNCHANGED <<sessVars, go, pursued>>
  PROVE  PursuitInv'
<1>0. DOMAIN ctx = Vehicles /\ DOMAIN ctx[v] = Objects /\ w # "SM" /\ "SM" \in Objects
  BY CtxTyped, ObjectsApart DEF ServerInv
<1>1. \A u \in Vehicles : ctx'[u].SM = ctx[u].SM
  BY <1>0
<1> QED
  BY <1>1, FleetCalm

\* An ACK, a timer and a callback before its transition.
LEMMA FleetTimers ==
  ASSUME ServerInv, PursuitInv,
         \/ \E k \in VConns : VehicleAck(k)
         \/ \E v \in Vehicles, w \in TimerWatchdogs : TimerElapses(v, w) \/ fire(v, w)
  PROVE  PursuitInv'
<1>1. ASSUME NEW k \in VConns, VehicleAck(k) PROVE PursuitInv'
  <2>1. go[k].vehicle \in Vehicles /\ "VehicleACKWatchdog" \in TimerWatchdogs
    BY <1>1, Reads DEF VehicleAck, ServerInv, Threads, TimerWatchdogs
  <2>2. PICK v, x : v = go[k].vehicle /\ ctx' = [ctx EXCEPT ![v]["VehicleACKWatchdog"] = x]
    BY <1>1 DEF VehicleAck
  <2>3. UNCHANGED <<sessVars, go, pursued>>
    BY <1>1 DEF VehicleAck, history
  <2> QED
    BY <2>1, <2>2, <2>3, FleetWatchdog
<1>2. ASSUME NEW v \in Vehicles, NEW w \in TimerWatchdogs, TimerElapses(v, w) \/ fire(v, w)
      PROVE  PursuitInv'
  <2>1. PICK x : ctx' = [ctx EXCEPT ![v][w] = x]
    BY <1>2 DEF TimerElapses, fire
  <2>2. UNCHANGED <<sessVars, go, pursued>>
    BY <1>2 DEF TimerElapses, fire, history
  <2> QED
    BY <2>1, <2>2, FleetWatchdog
<1> QED
  BY <1>1, <1>2

\* One call of a handler.
LEMMA FleetStep ==
  ASSUME ServerInv, PursuitInv, NEW t \in Threads, Step(t)
  PROVE  PursuitInv'
<1>1. CASE VehicleCall(t) \/ SessionCall(t)
  BY <1>1, FleetVehicleCall, FleetSessionCall
<1>2. CASE EndVehicle(t) \/ StopVehicle(t) \/ (t = Bus /\ StopActive)
  BY <1>2, FleetEndVehicle, FleetStopVehicle, FleetStopActive
<1>3. CASE HandleStartSession(t)
  BY <1>3, FleetStart
<1>4. CASE \/ CheckConnected(t) \/ Recover(t) \/ Refresh(t) \/ Forward(t)
           \/ StillActive(t) \/ StopUnlessSafe(t) \/ Unregister(t)
  BY <1>4, FleetHandlers
<1> QED
  BY <1>1, <1>2, <1>3, <1>4 DEF Step

\* What operators, vehicles and administrators do.
LEMMA FleetEnvironment ==
  ASSUME ServerInv, PursuitInv, Environment
  PROVE  PursuitInv'
<1>0. Requests \subseteq Threads /\ Conns \subseteq Threads /\ VConns \subseteq Threads
  BY DEF Threads
<1>1. ASSUME NEW r \in Requests, PostSessionEndAll(r) \/ PostEmergencyStopAll(r)
                                   \/ \E v \in Vehicles : PostEmergencyStop(r, v)
      PROVE  PursuitInv'
  BY <1>1, FleetEndAll, FleetStop, FleetStopAll
<1>2. ASSUME NEW v \in Vehicles, PostMediaEvent(v) PROVE PursuitInv'
  BY <1>2, FleetMedia
<1>3. ASSUME NEW k \in VConns, VehicleAck(k) PROVE PursuitInv'
  BY <1>3, FleetTimers
<1>4. ASSUME NEW o \in Operators, RevokeAccount(o) PROVE PursuitInv'
  <2>1. UNCHANGED <<sessVars, go, pursued>> /\ ctx' = ctx
    BY <1>4 DEF RevokeAccount, history
  <2> QED
    BY <2>1, FleetCalm
<1>5. ASSUME NEW t \in Threads,
             \/ \E v \in Vehicles, o \in Operators : PostSessionStart(t, v, o)
             \/ \E s \in SessionIds : PostSessionEnd(t, s) \/ ServeWS(t, s)
             \/ \E cmd \in Commands : processWSMessage(t, cmd)
             \/ Disconnect(t)
             \/ \E v \in Vehicles : ServeVehicleWS(t, v)
             \/ VehicleDisconnect(t)
      PROVE  PursuitInv'
  BY <1>5, FleetArrival
<1> QED
  BY <1>0, <1>1, <1>2, <1>3, <1>4, <1>5 DEF Environment

\* Every step of the server keeps PursuitInv.
LEMMA PursuitStep ==
  ASSUME ServerInv, PursuitInv, [Next]_vars
  PROVE  PursuitInv'
<1>1. CASE Environment
  BY <1>1, FleetEnvironment
<1>2. ASSUME NEW t \in Threads, Step(t) PROVE PursuitInv'
  BY <1>2, FleetStep
<1>3. CASE PingBus
  BY <1>3, FleetBus
<1>4. ASSUME NEW v \in Vehicles, NEW w \in TimerWatchdogs, TimerElapses(v, w) \/ fire(v, w)
      PROVE  PursuitInv'
  BY <1>4, FleetTimers
<1>5. ASSUME NEW v \in Vehicles, NEW w, fireTransition(v, w) \/ Poll(v, w) \/ PollLate(v, w)
      PROVE  PursuitInv'
  <2>1. UNCHANGED <<sessVars, go>> /\ PursueOn
    BY <1>5 DEF fireTransition, Poll, PollLate
  <2> QED
    BY <2>1, FleetPursueOn
<1>6. CASE UNCHANGED vars
  <2>1. UNCHANGED <<sessVars, go, pursued>> /\ ctx' = ctx
    BY <1>6 DEF vars, serverVars, history
  <2> QED
    BY <2>1, FleetCalm
<1> QED
  BY <1>1, <1>2, <1>3, <1>4, <1>5, <1>6 DEF Next, Server

\* main.go 452 and 588 for any fleet, any number of requests and every overlap:
\* a reset, an emergency stop or the bus watchdog's loop that is through has
\* taken every vehicle it was to end out of that state.
THEOREM FleetSafety == Spec => []NoVehicleLeftBehind
<1>1. Init => PursuitInv
  <2> SUFFICES ASSUME Init PROVE PursuitInv
    OBVIOUS
  <2>1. pursued = [t \in Sweepers |-> {}] /\ \A t \in Threads : go[t] = Free
    BY DEF Init
  <2>2. \A t \in Threads : go[t].as \notin Sweeping
    BY <2>1, FreeFits DEF Sweeping
  <2> QED
    BY <2>1, <2>2 DEF PursuitInv
<1>2. ServerInv /\ PursuitInv /\ [Next]_vars => PursuitInv'
  BY PursuitStep
<1>3. PursuitInv => NoVehicleLeftBehind
  <2> SUFFICES ASSUME PursuitInv, NEW t \in Sweepers, Idle(t) PROVE pursued[t] = {}
    BY DEF NoVehicleLeftBehind
  <2>1. go[t].as \notin Sweeping
    BY DEF Idle, Sweeping
  <2> QED
    BY <2>1, NothingPursued
<1> QED
  BY <1>1, <1>2, <1>3, ServerInvariance, PTL DEF Spec
=============================================================================
