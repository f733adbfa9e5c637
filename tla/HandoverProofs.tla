---------------------------- MODULE HandoverProofs ----------------------------
(***************************************************************************)
(* Handover for any number of vehicles, operators and sessions.  Every     *)
(* step is a call of the session manager or leaves the manager alone, so   *)
(* what SessionManagerProofs shows of the manager holds here.  That no     *)
(* vehicle is caught in HANDOVER_PENDING is not inductive: between the two *)
(* writes of a cancelled handover it does not hold, and whether the token  *)
(* step has a target rests on the mutex, which keeps every other call from *)
(* removing the entry.                                                     *)
(***************************************************************************)
EXTENDS Handover, SessionManagerProofs

\* Types of what Handover adds to the session manager.
HoTypeOK ==
  /\ machines \in [Vehicles -> MachineType]
  /\ pending \in [Vehicles -> Operators \cup {NoOperator}]
  /\ call \in Call \cup {NoCall}

\* Only CancelHandover is inside the mutex without an entry of its vehicle.
CallHasEntry ==
  call # NoCall /\ call.pc # "restore" => pending[call.vehicle] # NoOperator

\* A pending vehicle has its entry, or the call that removed it is about to
\* restore the vehicle.
EntryOrRestore ==
  \A v \in Vehicles : machines[v].Operator = "HANDOVER_PENDING" =>
    \/ pending[v] # NoOperator
    \/ call # NoCall /\ call.pc = "restore" /\ call.vehicle = v

\* The inductive invariant of the handover calls.
HoInv == HoTypeOK /\ CallHasEntry /\ EntryOrRestore

-----------------------------------------------------------------------------
(* What the state machine's operators do to the OPERATOR layer *)

\* A SYSTEM transition keeps the operator or clears it.
LEMMA SystemOperator ==
  ASSUME NEW m \in MachineType, NEW x \in SystemState
  PROVE  /\ TransitionSystem(m, x) \in MachineType
         /\ TransitionSystem(m, x).Operator \in {m.Operator, "NO_OPERATOR"}
<1>1. ControlAfter(m.Control, x) \in ControlState
  BY DEF ControlAfter, ControlState, MachineType
<1>2. (IF x = "IDLE" THEN "NO_OPERATOR" ELSE m.Operator) \in OperatorState
  BY DEF OperatorState, MachineType
<1>3. (IF x = "SAFE_MODE" THEN {} ELSE m.degradedReasons) \in SUBSET DegradedReason
  BY DEF MachineType
<1> QED
  BY <1>1, <1>2, <1>3 DEF TransitionSystem, transitionSystemLocked, MachineType

\* TransitionToConnected leaves the operator alone.
LEMMA ConnectedOperator ==
  ASSUME NEW m \in MachineType
  PROVE  /\ TransitionToConnected(m) \in MachineType
         /\ TransitionToConnected(m).Operator = m.Operator
BY DEF TransitionToConnected, MachineType, SystemState, ControlState

\* An OPERATOR transition ends in the operator state it names, also when it
\* stops the vehicle.
LEMMA OperatorOperator ==
  ASSUME NEW m \in MachineType, NEW x \in OperatorState
  PROVE  /\ TransitionOperator(m, x) \in MachineType
         /\ TransitionOperator(m, x).Operator = x
<1> DEFINE n == [m EXCEPT !.Operator = x]
<1>1. n \in MachineType /\ n.Operator = x
  BY DEF MachineType
<1>2. TransitionOperator(m, x) =
        IF x = "NO_OPERATOR" /\ Controlling(n) THEN TransitionSystem(n, "SAFE_MODE") ELSE n
  BY DEF TransitionOperator, TransitionSystem
<1>3. "SAFE_MODE" \in SystemState
  BY DEF SystemState
<1> HIDE DEF n
<1>4. /\ TransitionSystem(n, "SAFE_MODE") \in MachineType
      /\ TransitionSystem(n, "SAFE_MODE").Operator \in {n.Operator, "NO_OPERATOR"}
  BY <1>1, <1>3, SystemOperator
<1> QED
  BY <1>1, <1>2, <1>4

\* advanceVehicleToActiveOperator ends in ACTIVE_OPERATOR.
LEMMA ActivatedOperator ==
  ASSUME NEW m \in MachineType
  PROVE  Activated(m) \in MachineType /\ Activated(m).Operator = "ACTIVE_OPERATOR"
<1>1. /\ "CONNECTING" \in SystemState
      /\ "AUTHENTICATED" \in SystemState
      /\ "ACTIVE_OPERATOR" \in OperatorState
  BY DEF SystemState, OperatorState
<1>2. TransitionSystem(m, "CONNECTING") \in MachineType
  BY <1>1, SystemOperator
<1>3. TransitionSystem(TransitionSystem(m, "CONNECTING"), "AUTHENTICATED") \in MachineType
  BY <1>1, <1>2, SystemOperator
<1> QED
  BY <1>1, <1>3, ConnectedOperator, OperatorOperator DEF Activated

-----------------------------------------------------------------------------
(* Every step preserves the invariant *)

\* The initial state satisfies the invariant.
LEMMA InitHoInv == Init => HoInv
<1>1. NewMachine \in MachineType /\ NewMachine.Operator = "NO_OPERATOR"
  BY DEF NewMachine, MachineType, SystemState, ControlState, MediaState, OperatorState
<1> QED
  BY <1>1 DEF Init, HoInv, HoTypeOK, CallHasEntry, EntryOrRestore

\* A step outside the handover calls that changes machines, whatever the
\* sessions do, as long as no vehicle becomes HANDOVER_PENDING by it.
LEMMA MachinesStep ==
  ASSUME HoInv, UNCHANGED <<pending, call>>,
         machines' \in [Vehicles -> MachineType],
         \A v \in Vehicles :
           machines'[v].Operator \in {machines[v].Operator, "NO_OPERATOR", "ACTIVE_OPERATOR"}
  PROVE  HoInv'
BY DEF HoInv, HoTypeOK, CallHasEntry, EntryOrRestore

\* The handover calls preserve the invariant.
LEMMA CallsKeep ==
  ASSUME HoInv,
         \/ \E v \in Vehicles, o \in Operators :
              RequestHandover(v, o) \/ ConfirmHandover(v, o)
         \/ \E v \in Vehicles : CancelHandover(v)
         \/ CallStep
  PROVE  HoInv'
<1> USE DEF HoInv, HoTypeOK, CallHasEntry, EntryOrRestore
<1>0. /\ "HANDOVER_PENDING" \in OperatorState
      /\ "ACTIVE_OPERATOR" \in OperatorState
  BY DEF OperatorState
<1>1. ASSUME NEW v \in Vehicles, NEW o \in Operators, RequestHandover(v, o)
      PROVE  HoInv'
  <2>1. call' = [pc |-> "pend", vehicle |-> v] /\ call' \in Call /\ call = NoCall
    BY <1>1 DEF RequestHandover, Enter, Call
  <2>2. pending' = [pending EXCEPT ![v] = o] /\ machines' = machines
    BY <1>1 DEF RequestHandover
  <2>3. pending'[v] = o /\ o # NoOperator
    BY <2>2, HandoverAssumption
  <2> QED
    BY <2>1, <2>2, <2>3, HandoverAssumption
<1>2. ASSUME NEW v \in Vehicles, NEW o \in Operators, ConfirmHandover(v, o)
      PROVE  HoInv'
  <2>1. call' = [pc |-> "token", vehicle |-> v] /\ call' \in Call /\ call = NoCall
    BY <1>2 DEF ConfirmHandover, Enter, Call
  <2>2. pending[v] # NoOperator /\ pending' = pending /\ machines' = machines
    BY <1>2, HandoverAssumption DEF ConfirmHandover
  <2> QED
    BY <2>1, <2>2
<1>3. ASSUME NEW v \in Vehicles, CancelHandover(v)
      PROVE  HoInv'
  <2>1. call' = [pc |-> "restore", vehicle |-> v] /\ call' \in Call /\ call = NoCall
    BY <1>3 DEF CancelHandover, Enter, Call
  <2>2. pending' = [pending EXCEPT ![v] = NoOperator] /\ machines' = machines
    BY <1>3 DEF CancelHandover
  <2>3. call'.pc = "restore" /\ call'.vehicle = v /\ call' # NoCall
    BY <2>1, CallAssumption
  <2> QED
    BY <2>1, <2>2, <2>3
<1>4. ASSUME CallStep
      PROVE  HoInv'
  <2>0. call \in Call /\ call # NoCall /\ call.vehicle \in Vehicles
    BY <1>4 DEF CallStep, RequestPends, TokenRefused, TokenIssued, ConfirmActivates,
       CancelRestores, Inside, Call
  <2>1. CASE RequestPends
    <3>1. /\ machines' = [machines EXCEPT ![call.vehicle] =
                            TransitionOperator(@, "HANDOVER_PENDING")]
          /\ pending' = pending /\ call' = NoCall /\ call.pc = "pend"
      BY <2>1 DEF RequestPends, SetOperator, Leave, Inside
    <3>2. machines' \in [Vehicles -> MachineType]
      BY <1>0, <2>0, <3>1, OperatorOperator
    <3> QED
      BY <2>0, <3>1, <3>2
  <2>2. CASE TokenRefused
    BY <2>2 DEF TokenRefused, Leave, Inside
  <2>3. CASE TokenIssued
    <3>1. /\ call.pc = "token" /\ call' = [call EXCEPT !.pc = "activate"]
          /\ UNCHANGED <<machines, pending>>
      BY <2>3 DEF TokenIssued, Inside
    <3>2. call' \in Call /\ call'.vehicle = call.vehicle /\ call'.pc = "activate"
      BY <2>0, <3>1 DEF Call
    <3> QED
      BY <2>0, <3>1, <3>2
  <2>4. CASE ConfirmActivates
    <3>1. /\ machines' = [machines EXCEPT ![call.vehicle] =
                            TransitionOperator(@, "ACTIVE_OPERATOR")]
          /\ pending' = [pending EXCEPT ![call.vehicle] = NoOperator]
          /\ call' = NoCall /\ call.pc = "activate"
      BY <2>4 DEF ConfirmActivates, SetOperator, Leave, Inside
    <3>2. /\ machines' \in [Vehicles -> MachineType]
          /\ machines'[call.vehicle].Operator = "ACTIVE_OPERATOR"
          /\ \A v \in Vehicles : v # call.vehicle => machines'[v] = machines[v]
      BY <1>0, <2>0, <3>1, OperatorOperator
    <3> QED
      BY <2>0, <3>1, <3>2
  <2>5. CASE CancelRestores
    <3>1. /\ machines' = [machines EXCEPT ![call.vehicle] =
                            TransitionOperator(@, "ACTIVE_OPERATOR")]
          /\ pending' = pending /\ call' = NoCall
      BY <2>5 DEF CancelRestores, SetOperator, Leave
    <3>2. /\ machines' \in [Vehicles -> MachineType]
          /\ machines'[call.vehicle].Operator = "ACTIVE_OPERATOR"
          /\ \A v \in Vehicles : v # call.vehicle => machines'[v] = machines[v]
      BY <1>0, <2>0, <3>1, OperatorOperator
    <3> QED
      BY <2>0, <3>1, <3>2
  <2> QED
    BY <1>4, <2>1, <2>2, <2>3, <2>4, <2>5 DEF CallStep
<1> QED
  BY <1>1, <1>2, <1>3, <1>4

\* The handlers that start, end, stop and recover sessions preserve it.
LEMMA HandlersKeep ==
  ASSUME HoInv,
         \/ \E v \in Vehicles : EmergencyStop(v)
         \/ \E v \in Vehicles, o \in Operators, s \in SessionIds : SessionStart(v, o, s)
         \/ \E s \in SessionIds : SessionEnd(s) \/ OperatorLost(s) \/ Recover(s)
         \/ SessionEndAll
  PROVE  HoInv'
<1> DEFINE Keeps(m, n) ==
      n \in MachineType /\ n.Operator \in {m.Operator, "NO_OPERATOR", "ACTIVE_OPERATOR"}
<1>0. /\ {"IDLE", "SAFE_MODE", "RECOVERING", "AUTHENTICATED"} \subseteq SystemState
      /\ {"NO_OPERATOR", "ACTIVE_OPERATOR"} \subseteq OperatorState
  BY DEF SystemState, OperatorState
<1>1. machines \in [Vehicles -> MachineType]
  BY DEF HoInv, HoTypeOK
<1>2. ASSUME NEW v \in Vehicles, EmergencyStop(v)
      PROVE  HoInv'
  <2>1. /\ machines' = [machines EXCEPT ![v] = TransitionSystem(@, "SAFE_MODE")]
        /\ UNCHANGED <<pending, call>>
    BY <1>2 DEF EmergencyStop
  <2>2. Keeps(machines[v], TransitionSystem(machines[v], "SAFE_MODE"))
    BY <1>0, <1>1, SystemOperator
  <2> QED
    BY <1>1, <2>1, <2>2, MachinesStep
<1>3. ASSUME NEW v \in Vehicles, NEW o \in Operators, NEW s \in SessionIds,
             SessionStart(v, o, s)
      PROVE  HoInv'
  <2>1. /\ machines' \in {machines, [machines EXCEPT ![v] = Activated(@)]}
        /\ UNCHANGED <<pending, call>>
    BY <1>3 DEF SessionStart
  <2>2. Keeps(machines[v], Activated(machines[v]))
    BY <1>1, ActivatedOperator
  <2> QED
    BY <1>1, <2>1, <2>2, MachinesStep
<1>4. ASSUME NEW s \in SessionIds, SessionEnd(s)
      PROVE  HoInv'
  <2>1. /\ machines' \in {machines, [machines EXCEPT ![sessions[s].vehicle] =
                                       TransitionSystem(@, "IDLE")]}
        /\ UNCHANGED <<pending, call>>
    BY <1>4 DEF SessionEnd
  <2>2. \A v \in Vehicles : Keeps(machines[v], TransitionSystem(machines[v], "IDLE"))
    BY <1>0, <1>1, SystemOperator
  <2> QED
    BY <1>1, <2>1, <2>2, MachinesStep
<1>5. ASSUME NEW s \in SessionIds, OperatorLost(s)
      PROVE  HoInv'
  <2> DEFINE lost(m) == IF m.System = "SAFE_MODE" THEN m
               ELSE TransitionOperator(TransitionSystem(m, "SAFE_MODE"), "NO_OPERATOR")
  <2>1. /\ machines' = [machines EXCEPT ![sessions[s].vehicle] = lost(@)]
        /\ UNCHANGED <<pending, call>>
    BY <1>5 DEF OperatorLost
  <2>2. ASSUME NEW v \in Vehicles
        PROVE  Keeps(machines[v], lost(machines[v]))
    <3>1. TransitionSystem(machines[v], "SAFE_MODE") \in MachineType
      BY <1>0, <1>1, SystemOperator
    <3> QED
      BY <1>0, <1>1, <3>1, OperatorOperator
  <2> HIDE DEF lost
  <2> QED
    BY <1>1, <2>1, <2>2, MachinesStep
<1>6. ASSUME NEW s \in SessionIds, Recover(s)
      PROVE  HoInv'
  <2> DEFINE recovered(m) ==
        TransitionOperator(
          TransitionToConnected(
            TransitionSystem(TransitionSystem(m, "RECOVERING"), "AUTHENTICATED")),
          "ACTIVE_OPERATOR")
  <2>1. /\ machines' = [machines EXCEPT ![sessions[s].vehicle] = recovered(@)]
        /\ UNCHANGED <<pending, call>>
    BY <1>6 DEF Recover
  <2>2. ASSUME NEW v \in Vehicles
        PROVE  Keeps(machines[v], recovered(machines[v]))
    <3>1. TransitionSystem(machines[v], "RECOVERING") \in MachineType
      BY <1>0, <1>1, SystemOperator
    <3>2. TransitionSystem(TransitionSystem(machines[v], "RECOVERING"), "AUTHENTICATED")
            \in MachineType
      BY <1>0, <3>1, SystemOperator
    <3> QED
      BY <1>0, <3>2, ConnectedOperator, OperatorOperator
  <2> HIDE DEF recovered
  <2> QED
    BY <1>1, <2>1, <2>2, MachinesStep
<1>7. ASSUME SessionEndAll
      PROVE  HoInv'
  <2>1. /\ machines' = [v \in Vehicles |->
                          IF IsVehicleLocked(v) THEN TransitionSystem(machines[v], "IDLE")
                          ELSE machines[v]]
        /\ UNCHANGED <<pending, call>>
    BY <1>7 DEF SessionEndAll
  <2>2. \A v \in Vehicles : Keeps(machines[v], TransitionSystem(machines[v], "IDLE"))
    BY <1>0, <1>1, SystemOperator
  <2> QED
    BY <1>1, <2>1, <2>2, MachinesStep
<1> QED
  BY <1>2, <1>3, <1>4, <1>5, <1>6, <1>7

\* The inductive invariant of the handover calls holds throughout.
LEMMA HoInvariance == Spec => []HoInv
<1>1. HoInv /\ [Next]_vars => HoInv'
  <2>1. HoInv /\ Next => HoInv'
    BY CallsKeep, HandlersKeep DEF Next
  <2>2. HoInv /\ UNCHANGED vars => HoInv'
    BY DEF vars, hoVars, HoInv, HoTypeOK, CallHasEntry, EntryOrRestore
  <2> QED
    BY <2>1, <2>2
<1> QED
  BY InitHoInv, <1>1, PTL DEF Spec

-----------------------------------------------------------------------------
(* Theorems *)

\* A vehicle in HANDOVER_PENDING always has a handover that can be confirmed or
\* cancelled, for any number of vehicles and sessions.
THEOREM PendingSafety == Spec => []PendingIsResolvable
<1>1. HoInv => PendingIsResolvable
  BY DEF HoInv, EntryOrRestore, PendingIsResolvable
<1> QED
  BY <1>1, HoInvariance, PTL

\* Every step of a handover or of a handler uses the session manager through
\* its methods: what is proved of the manager holds with handovers.
THEOREM UsesSessionManager == Spec => SessSpec
<1>1. Init => SessInit
  BY DEF Init
<1>2. HoInv /\ [Next]_vars => [SessNext]_sessVars
  <2> SUFFICES ASSUME HoInv, Next
               PROVE  SessNext \/ UNCHANGED sessVars
    BY DEF vars
  <2>1. ASSUME TokenIssued
        PROVE  SessNext
    <3>1. call.vehicle \in Vehicles /\ pending[call.vehicle] \in Operators
      BY <2>1 DEF TokenIssued, Inside, HoInv, HoTypeOK, CallHasEntry, Call
    <3> QED
      BY <2>1, <3>1 DEF TokenIssued, SessNext
  <2>2. CASE CallStep
    BY <2>1, <2>2 DEF CallStep, RequestPends, TokenRefused, ConfirmActivates, CancelRestores
  <2>3. ASSUME NEW v \in Vehicles, NEW o \in Operators,
               RequestHandover(v, o) \/ ConfirmHandover(v, o) \/ CancelHandover(v)
        PROVE  UNCHANGED sessVars
    BY <2>3 DEF RequestHandover, ConfirmHandover, CancelHandover
  <2>4. ASSUME NEW v \in Vehicles, CancelHandover(v)
        PROVE  UNCHANGED sessVars
    BY <2>4 DEF CancelHandover
  <2>5. ASSUME NEW v \in Vehicles, EmergencyStop(v)
        PROVE  SessNext \/ UNCHANGED sessVars
    BY <2>5 DEF EmergencyStop, SessNext
  <2>6. ASSUME NEW v \in Vehicles, NEW o \in Operators, NEW s \in SessionIds,
               SessionStart(v, o, s)
        PROVE  SessNext
    BY <2>6 DEF SessionStart, SessNext
  <2>7. ASSUME NEW s \in SessionIds, SessionEnd(s) \/ OperatorLost(s) \/ Recover(s)
        PROVE  SessNext \/ UNCHANGED sessVars
    BY <2>7 DEF SessionEnd, OperatorLost, Recover, SessNext
  <2>8. CASE SessionEndAll
    BY <2>8 DEF SessionEndAll, SessNext
  <2> QED
    BY <2>2, <2>3, <2>4, <2>5, <2>6, <2>7, <2>8 DEF Next
<1> QED
  BY <1>1, <1>2, HoInvariance, PTL DEF Spec, SessSpec

\* Types hold throughout, those of the session manager included.
THEOREM HandoverTypeCorrect == Spec => []HandoverTypeOK
<1>1. SessInv /\ HoInv => HandoverTypeOK
  BY DEF SessInv, HoInv, HoTypeOK, HandoverTypeOK
<1> QED
  BY <1>1, HoInvariance, UsesSessionManager, SessInvariance, PTL

\* With handovers on any number of vehicles, a vehicle still has at most one
\* controlling session.
THEOREM HandoverKeepsOneController == Spec => []OneControllerPerVehicle
BY UsesSessionManager, OneController, PTL

\* With handovers, a session keeps its role and its vehicle: the new operator
\* takes over the session, no observer's session is promoted.
THEOREM HandoverKeepsRoles == Spec => RoleIsFixed
BY UsesSessionManager, RolesAreFixed, PTL
=============================================================================
