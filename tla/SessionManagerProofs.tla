------------------------- MODULE SessionManagerProofs -------------------------
(***************************************************************************)
(* The session manager gives each vehicle at most one controller and       *)
(* implements VehicleLock, for any number of vehicles, operators and       *)
(* sessions.  OneControllerPerVehicle is not inductive: that a second      *)
(* start cannot become controller rests on LockMatchesRoles (the lock of a *)
(* vehicle with a controller names a live session) and on the freshness of *)
(* session ids.                                                            *)
(***************************************************************************)
EXTENDS SessionManager, TLAPS

\* An empty manager satisfies the invariant.
LEMMA InitSessInv == SessInit => SessInv
BY SessionAssumption
   DEF SessInit, SessInv, SessTypeOK, LockMatchesRoles, IdsAreFresh,
       ActiveOperator, Live

\* StartSession preserves the invariant.
LEMMA StartSessionStep ==
  ASSUME SessInv, NEW v \in Vehicles, NEW o \in Operators, NEW s \in SessionIds,
         StartSession(v, o, s)
  PROVE  SessInv'
<1> DEFINE role == IF IsVehicleLocked(v) THEN "OBSERVER" ELSE "ACTIVE_OPERATOR"
           rec == [vehicle |-> v, operator |-> o, role |-> role]
<1>1. rec \in Session /\ rec # NoSession /\ rec.role = role /\ rec.vehicle = v
  BY SessionAssumption DEF Session, Role
<1>2. /\ sessions' = [sessions EXCEPT ![s] = rec]
      /\ vehicleController' = IF role = "ACTIVE_OPERATOR"
                              THEN [vehicleController EXCEPT ![v] = s]
                              ELSE vehicleController
      /\ spent' = IF role = "ACTIVE_OPERATOR" THEN spent \cup {s} ELSE spent
      /\ issued' = issued \cup {s}
      /\ checkpoint' = checkpoint
      /\ s \notin issued
  BY DEF StartSession
<1>3. role = "ACTIVE_OPERATOR" => vehicleController[v] = NoSession
  BY DEF SessInv, SessTypeOK, LockMatchesRoles, IsVehicleLocked, ActiveOperator
<1>4. role \in Role
  BY DEF Role
<1> HIDE DEF rec, role
<1>5. sessions[s] = NoSession /\ sessions \in [SessionIds -> Session \cup {NoSession}]
  BY <1>2 DEF SessInv, IdsAreFresh, SessTypeOK
<1>6. SessTypeOK'
  BY <1>1, <1>2 DEF SessInv, SessTypeOK
<1>7. LockMatchesRoles'
  <2>1. \A t \in SessionIds : t # s => sessions'[t] = sessions[t]
    BY <1>2, <1>5
  <2>2. sessions'[s] = rec
    BY <1>2, <1>5
  <2>3. ASSUME NEW w \in Vehicles, vehicleController'[w] # NoSession
        PROVE  /\ ActiveOperator(vehicleController[w])'
               /\ sessions'[vehicleController'[w]].vehicle = w
    <3>1. CASE vehicleController'[w] = vehicleController[w]
      <4>1. vehicleController[w] \in SessionIds /\ vehicleController[w] # s
        BY <2>3, <3>1, <1>5
           DEF SessInv, SessTypeOK, LockMatchesRoles, ActiveOperator, Live
      <4> QED
        BY <2>1, <2>3, <3>1, <4>1 DEF SessInv, LockMatchesRoles, ActiveOperator, Live
    <3>2. CASE vehicleController'[w] # vehicleController[w]
      <4>1. w = v /\ role = "ACTIVE_OPERATOR" /\ vehicleController'[w] = s
        BY <1>2, <3>2 DEF SessInv, SessTypeOK
      <4> QED
        BY <1>1, <2>2, <4>1 DEF ActiveOperator, Live
    <3> QED
      BY <3>1, <3>2
  <2>4. ASSUME NEW t \in SessionIds, ActiveOperator(t)'
        PROVE  vehicleController'[sessions'[t].vehicle] = t
    <3>1. CASE t = s
      BY <1>1, <1>2, <2>2, <2>4, <3>1 DEF ActiveOperator, SessInv, SessTypeOK
    <3>2. CASE t # s
      <4>1. ActiveOperator(t) /\ sessions'[t] = sessions[t]
        BY <2>1, <2>4, <3>2 DEF ActiveOperator, Live
      <4>2. vehicleController[sessions[t].vehicle] = t
        BY <4>1 DEF SessInv, LockMatchesRoles
      <4>3. t # NoSession /\ sessions[t].vehicle \in Vehicles
        BY <1>5, <4>1, SessionAssumption DEF ActiveOperator, Live, Session
      <4> QED
        BY <1>2, <1>3, <4>1, <4>2, <4>3 DEF SessInv, SessTypeOK
    <3> QED
      BY <3>1, <3>2
  <2> QED
    BY <2>3, <2>4 DEF LockMatchesRoles
<1>8. IdsAreFresh'
  BY <1>1, <1>2, <1>5 DEF SessInv, IdsAreFresh, ActiveOperator, Live
<1> QED
  BY <1>6, <1>7, <1>8 DEF SessInv

\* ReleaseSession preserves the invariant: only the controller's own release
\* frees the vehicle.
LEMMA ReleaseSessionStep ==
  ASSUME SessInv, NEW s \in SessionIds, ReleaseSession(s)
  PROVE  SessInv'
<1>1. /\ sessions' = [sessions EXCEPT ![s] = NoSession]
      /\ vehicleController' =
           IF ActiveOperator(s) /\ vehicleController[sessions[s].vehicle] = s
           THEN [vehicleController EXCEPT ![sessions[s].vehicle] = NoSession]
           ELSE vehicleController
      /\ issued' = issued /\ spent' = spent /\ checkpoint' = checkpoint
  BY DEF ReleaseSession
<1>2. /\ sessions \in [SessionIds -> Session \cup {NoSession}]
      /\ vehicleController \in [Vehicles -> SessionIds \cup {NoSession}]
  BY DEF SessInv, SessTypeOK
<1>3. sessions'[s] = NoSession /\ \A t \in SessionIds : t # s => sessions'[t] = sessions[t]
  BY <1>1, <1>2
<1>4. SessTypeOK'
  BY <1>1, <1>2 DEF SessInv, SessTypeOK
<1>5. ASSUME NEW w \in Vehicles, vehicleController'[w] # NoSession
      PROVE  /\ ActiveOperator(vehicleController[w])'
             /\ sessions'[vehicleController'[w]].vehicle = w
  <2>1. vehicleController'[w] = vehicleController[w] /\ vehicleController[w] \in SessionIds
    BY <1>1, <1>2, <1>5
  <2>2. ActiveOperator(vehicleController[w]) /\ sessions[vehicleController[w]].vehicle = w
    BY <1>5, <2>1 DEF SessInv, LockMatchesRoles
  <2>3. vehicleController[w] # s
    BY <1>1, <1>2, <1>5, <2>1, <2>2
  <2> QED
    BY <1>3, <2>1, <2>2, <2>3 DEF ActiveOperator, Live
<1>6. ASSUME NEW t \in SessionIds, ActiveOperator(t)'
      PROVE  vehicleController'[sessions'[t].vehicle] = t
  <2>1. t # s /\ ActiveOperator(t) /\ sessions'[t] = sessions[t]
    BY <1>3, <1>6 DEF ActiveOperator, Live
  <2>2. vehicleController[sessions[t].vehicle] = t
    BY <2>1 DEF SessInv, LockMatchesRoles
  <2> QED
    BY <1>1, <1>2, <2>1, <2>2
<1>7. IdsAreFresh'
  BY <1>1, <1>2, <1>3 DEF SessInv, IdsAreFresh, ActiveOperator, Live
<1> QED
  BY <1>4, <1>5, <1>6, <1>7 DEF SessInv, LockMatchesRoles

\* A handover changes the operator of a session and nothing the invariant
\* looks at.
LEMMA UpdateOperatorStep ==
  ASSUME SessInv, NEW v \in Vehicles, NEW o \in Operators, UpdateOperator(v, o)
  PROVE  SessInv'
<1>1. CASE UNCHANGED sessions
  BY <1>1 DEF UpdateOperator, SessInv, SessTypeOK, LockMatchesRoles, IdsAreFresh,
     ActiveOperator, Live
<1>2. CASE \E s \in SessionIds :
              /\ ActiveOperator(s)
              /\ sessions' = [sessions EXCEPT ![s].operator = o]
  <2>1. PICK s \in SessionIds :
          /\ ActiveOperator(s)
          /\ sessions' = [sessions EXCEPT ![s].operator = o]
    BY <1>2
  <2>2. sessions \in [SessionIds -> Session \cup {NoSession}] /\ sessions[s] \in Session
    BY <2>1 DEF SessInv, SessTypeOK, ActiveOperator, Live
  <2>3. /\ [sessions[s] EXCEPT !.operator = o] \in Session
        /\ [sessions[s] EXCEPT !.operator = o].role = sessions[s].role
        /\ [sessions[s] EXCEPT !.operator = o].vehicle = sessions[s].vehicle
    BY <2>2 DEF Session
  <2>4. /\ sessions' \in [SessionIds -> Session \cup {NoSession}]
        /\ \A t \in SessionIds :
             /\ sessions'[t] = NoSession <=> sessions[t] = NoSession
             /\ sessions[t] # NoSession =>
                  /\ sessions'[t].role = sessions[t].role
                  /\ sessions'[t].vehicle = sessions[t].vehicle
    BY <2>1, <2>2, <2>3, SessionAssumption
  <2>5. UNCHANGED <<vehicleController, issued, spent, checkpoint>>
    BY DEF UpdateOperator
  <2>6. \A t \in SessionIds : ActiveOperator(t)' <=> ActiveOperator(t)
    BY <2>4 DEF ActiveOperator, Live
  <2>7. SessTypeOK'
    BY <2>4, <2>5 DEF SessInv, SessTypeOK
  <2>8. LockMatchesRoles'
    BY <2>4, <2>5, <2>6 DEF SessInv, SessTypeOK, LockMatchesRoles, ActiveOperator, Live
  <2>9. IdsAreFresh'
    BY <2>4, <2>5, <2>6 DEF SessInv, IdsAreFresh
  <2> QED
    BY <2>7, <2>8, <2>9 DEF SessInv
<1> QED
  BY <1>1, <1>2 DEF UpdateOperator

\* The full reset preserves the invariant.
LEMMA EndSessionStep == SessInv /\ EndSession => SessInv'
BY SessionAssumption
   DEF EndSession, SessInv, SessTypeOK, LockMatchesRoles, IdsAreFresh,
       ActiveOperator, Live

\* A checkpoint preserves the invariant.
LEMMA SaveCheckpointStep == SessInv /\ SaveCheckpoint => SessInv'
BY DEF SaveCheckpoint, SessInv, SessTypeOK, LockMatchesRoles, IdsAreFresh,
       ActiveOperator, Live

\* Every method of the manager preserves the invariant.
LEMMA SessStep == SessInv /\ [SessNext]_sessVars => SessInv'
<1> SUFFICES ASSUME SessInv, [SessNext]_sessVars
             PROVE  SessInv'
  OBVIOUS
<1>1. CASE UNCHANGED sessVars
  BY <1>1 DEF sessVars, SessInv, SessTypeOK, LockMatchesRoles, IdsAreFresh,
     ActiveOperator, Live
<1> QED
  BY <1>1, StartSessionStep, ReleaseSessionStep, UpdateOperatorStep,
     EndSessionStep, SaveCheckpointStep DEF SessNext

\* The inductive invariant of the manager.
THEOREM SessInvariance == SessSpec => []SessInv
BY InitSessInv, SessStep, PTL DEF SessSpec

\* The lock of a vehicle and the roles of its sessions always agree; the
\* stale-lock branch of StartSession is never taken.
THEOREM LockSafety == SessSpec => []LockMatchesRoles
BY SessInvariance, PTL DEF SessInv

\* ADR-025: two ACTIVE_OPERATOR sessions of one vehicle are the same session.
THEOREM OneController == SessSpec => []OneControllerPerVehicle
<1>1. SessInv => OneControllerPerVehicle
  BY DEF SessInv, LockMatchesRoles, OneControllerPerVehicle
<1> QED
  BY <1>1, SessInvariance, PTL

-----------------------------------------------------------------------------
(* The manager implements VehicleLock *)

\* Every step of the manager is a step of the lock, or leaves it alone.
LEMMA LockStep == SessInv /\ [SessNext]_sessVars => [Lock!LockNext]_(Lock!lockVars)
<1> SUFFICES ASSUME SessInv, [SessNext]_sessVars
             PROVE  Lock!LockNext \/ UNCHANGED <<vehicleController, spent>>
  BY DEF Lock!lockVars
<1>1. ASSUME NEW v \in Vehicles, NEW o \in Operators, NEW s \in SessionIds,
             StartSession(v, o, s)
      PROVE  Lock!LockNext \/ UNCHANGED <<vehicleController, spent>>
  <2>1. CASE IsVehicleLocked(v)
    BY <1>1, <2>1 DEF StartSession
  <2>2. CASE ~IsVehicleLocked(v)
    <3>1. vehicleController[v] = NoSession
      BY <2>2 DEF SessInv, SessTypeOK, LockMatchesRoles, IsVehicleLocked, ActiveOperator
    <3>2. s \notin spent
      BY <1>1 DEF StartSession, SessInv, IdsAreFresh
    <3>3. Lock!Acquire(v, s)
      BY <1>1, <2>2, <3>1, <3>2 DEF StartSession, Lock!Acquire
    <3> QED
      BY <3>3 DEF Lock!LockNext
  <2> QED
    BY <2>1, <2>2
<1>2. ASSUME NEW s \in SessionIds, ReleaseSession(s)
      PROVE  Lock!LockNext \/ UNCHANGED <<vehicleController, spent>>
  <2>1. CASE ActiveOperator(s) /\ vehicleController[sessions[s].vehicle] = s
    <3>1. sessions[s].vehicle \in Vehicles
      BY <2>1 DEF SessInv, SessTypeOK, ActiveOperator, Live, Session
    <3>2. Lock!Release(sessions[s].vehicle)
      BY <1>2, <2>1, <3>1, SessionAssumption DEF ReleaseSession, Lock!Release
    <3> QED
      BY <3>1, <3>2 DEF Lock!LockNext
  <2>2. CASE ~(ActiveOperator(s) /\ vehicleController[sessions[s].vehicle] = s)
    BY <1>2, <2>2 DEF ReleaseSession
  <2> QED
    BY <2>1, <2>2
<1>3. ASSUME NEW v \in Vehicles, NEW o \in Operators, UpdateOperator(v, o)
      PROVE  Lock!LockNext \/ UNCHANGED <<vehicleController, spent>>
  BY <1>3 DEF UpdateOperator
<1>4. CASE EndSession
  BY <1>4 DEF EndSession, Lock!LockNext, Lock!ReleaseAll
<1>5. CASE SaveCheckpoint
  BY <1>5 DEF SaveCheckpoint
<1>6. CASE UNCHANGED sessVars
  BY <1>6 DEF sessVars
<1> QED
  BY <1>1, <1>2, <1>3, <1>4, <1>5, <1>6 DEF SessNext

\* The manager implements the per-vehicle lock: control never passes from one
\* session to another without the vehicle being free in between, and a session
\* that lost control never gets it back.
THEOREM ImplementsLock == SessSpec => LockSpecification
<1>1. SessInit => Lock!LockInit
  BY DEF SessInit, Lock!LockInit
<1> QED
  BY <1>1, LockStep, SessInvariance, PTL
     DEF SessSpec, LockSpecification, Lock!LockSpec

\* A live session keeps its role and its vehicle.
THEOREM RolesAreFixed == SessSpec => RoleIsFixed
<1> DEFINE Kept == \A s \in SessionIds : Live(s) /\ Live(s)' =>
                     /\ sessions'[s].role = sessions[s].role
                     /\ sessions'[s].vehicle = sessions[s].vehicle
<1>1. SessInv /\ [SessNext]_sessVars => [Kept]_sessVars
  <2> SUFFICES ASSUME SessInv, SessNext PROVE Kept
    OBVIOUS
  <2>0. sessions \in [SessionIds -> Session \cup {NoSession}]
    BY DEF SessInv, SessTypeOK
  <2>1. ASSUME NEW v \in Vehicles, NEW o \in Operators, NEW s \in SessionIds,
               StartSession(v, o, s)
        PROVE  Kept
    <3>1. sessions[s] = NoSession
      BY <2>1 DEF StartSession, SessInv, IdsAreFresh
    <3> QED
      BY <2>0, <2>1, <3>1 DEF StartSession, Live
  <2>2. ASSUME NEW s \in SessionIds, ReleaseSession(s)
        PROVE  Kept
    BY <2>0, <2>2 DEF ReleaseSession, Live
  <2>3. ASSUME NEW v \in Vehicles, NEW o \in Operators, UpdateOperator(v, o)
        PROVE  Kept
    <3>1. CASE UNCHANGED sessions
      BY <3>1
    <3>2. ASSUME NEW s \in SessionIds, ActiveOperator(s),
                 sessions' = [sessions EXCEPT ![s].operator = o]
          PROVE  Kept
      <4>1. sessions[s] \in Session
        BY <2>0, <3>2 DEF ActiveOperator, Live
      <4>2. /\ [sessions[s] EXCEPT !.operator = o].role = sessions[s].role
            /\ [sessions[s] EXCEPT !.operator = o].vehicle = sessions[s].vehicle
        BY <4>1 DEF Session
      <4> QED
        BY <2>0, <3>2, <4>2
    <3> QED
      BY <2>3, <3>1, <3>2 DEF UpdateOperator
  <2>4. CASE EndSession
    BY <2>4 DEF EndSession, Live
  <2>5. CASE SaveCheckpoint
    BY <2>5 DEF SaveCheckpoint
  <2> QED
    BY <2>1, <2>2, <2>3, <2>4, <2>5 DEF SessNext
<1> QED
  BY <1>1, SessInvariance, PTL DEF SessSpec, RoleIsFixed
=============================================================================
