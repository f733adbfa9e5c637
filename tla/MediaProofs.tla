----------------------------- MODULE MediaProofs -----------------------------
(***************************************************************************)
(* The media side of a session for any number of vehicles, sessions, peer  *)
(* connections, events under way and failing MediaMTX calls.  The three    *)
(* concerns share no variable and have an invariant each: what events and  *)
(* routes may name (EventInv, which rests on the session manager's         *)
(* invariant), which connections are registered (SfuInv) and whom the      *)
(* kick of an emergency stop still reaches (KickInv).                      *)
(***************************************************************************)
EXTENDS Media, SessionManagerProofs

\* Events under way and events recorded name sessions that controlled a vehicle.
EventInv ==
  /\ posts \in [Posts -> Event \cup {NoEvent}]
  /\ state \in [SessionIds -> Sent \cup {NoEvent}]
  /\ routing \in [SessionIds -> SUBSET Operators]
  /\ \A p \in Posts : posts[p] # NoEvent => posts[p].session \in spent
  /\ \A s \in SessionIds : state[s] # NoEvent => s \in spent

\* A registered peer has a connection of its own.
PeersHaveConnections ==
  \A id \in Peers : peers[id] # NoConn =>
    conns[peers[id]] # Unused /\ conns[peers[id]].peer = id

SfuInv ==
  /\ peers \in [Peers -> Conns \cup {NoConn}]
  /\ conns \in [Conns -> Connection \cup {Unused}]
  /\ PeersHaveConnections
  /\ ConnectionsAreAccounted

\* Whoever still has to be cut off reads the stopped vehicle until the readers
\* are listed, and is on the list from then on.
KickInv ==
  /\ readers \in [Readers -> Vehicles \cup {NoPath}]
  /\ kick \in [stage : {"none", "list", "kick"}, vehicle : Vehicles \cup {NoPath},
               targets : SUBSET Readers]
  /\ uncut \subseteq Readers
  /\ kick.stage = "none" => kick = NoKick /\ uncut = {}
  /\ kick.stage = "list" =>
       /\ kick.vehicle \in Vehicles /\ kick.targets = {}
       /\ \A r \in uncut : readers[r] = kick.vehicle
  /\ kick.stage = "kick" => uncut \subseteq kick.targets

\* The inductive invariant.
MediaInv == SessInv /\ EventInv /\ SfuInv /\ KickInv

-----------------------------------------------------------------------------
\* Nothing is registered, under way or kicked at first.
LEMMA InitMediaInv == Init => MediaInv
<1> SUFFICES ASSUME Init PROVE MediaInv
  OBVIOUS
<1>1. SessInv
  BY InitSessInv DEF Init
<1>2. EventInv
  BY DEF Init, EventInv
<1>3. SfuInv
  BY MediaAssumption DEF Init, SfuInv, PeersHaveConnections, ConnectionsAreAccounted
<1>4. KickInv
  BY DEF Init, KickInv, NoKick
<1> QED
  BY <1>1, <1>2, <1>3, <1>4 DEF MediaInv

\* What Next does to the session manager is what the manager offers.
LEMMA MediaUsesManager == [Next]_vars => [SessNext]_sessVars
<1> SUFFICES ASSUME [Next]_vars PROVE [SessNext]_sessVars
  OBVIOUS
<1> USE DEF SessNext
<1>1. ASSUME NEW v \in Vehicles, NEW o \in Operators, NEW s \in SessionIds, SessionStart(v, o, s)
      PROVE  SessNext
  BY <1>1 DEF SessionStart
<1>2. ASSUME NEW s \in SessionIds, SessionEnd(s) \/ WSDisconnect(s)
      PROVE  SessNext
  BY <1>2 DEF SessionEnd, WSDisconnect
<1>3. ASSUME SessionEndAll PROVE SessNext
  BY <1>3 DEF SessionEndAll
<1>4. ASSUME NEW v \in Vehicles, NEW o \in Operators, HandoverConfirmed(v, o)
      PROVE  SessNext
  BY <1>4 DEF HandoverConfirmed
<1>5. ASSUME NEW v \in Vehicles, EmergencyStop(v) PROVE SessNext
  BY <1>5 DEF EmergencyStop
<1>6. ASSUME NEW p \in Posts, PublishFails(p) \/ HandleSessionEvent(p)
      PROVE  UNCHANGED sessVars
  BY <1>6 DEF PublishFails, HandleSessionEvent
<1>7. ASSUME NEW k \in Conns, NEW s \in SessionIds,
             \/ \E cam \in Cameras : CreateVehicleOffer(k, cam, s)
             \/ \E o \in Operators : SubscribeOperator(k, o, s)
      PROVE  UNCHANGED sessVars
  BY <1>7 DEF CreateVehicleOffer, SubscribeOperator, newPeerConnection
<1>8. ASSUME NEW k \in Conns, \/ NegotiationFails(k) \/ RegisterVehicle(k)
                              \/ registerOperatorSubscription(k) \/ ICEFails(k)
      PROVE  UNCHANGED sessVars
  BY <1>8 DEF NegotiationFails, RegisterVehicle, registerOperatorSubscription, ICEFails, Register
<1>9. ASSUME \/ \E r \in Readers, v \in Vehicles : MediaAuthRead(r, v)
             \/ \E r \in Readers : ReaderLeaves(r)
             \/ KickVehicle
      PROVE  UNCHANGED sessVars
  BY <1>9 DEF MediaAuthRead, ReaderLeaves, KickVehicle, listSessions, listSessionsFails,
     KickDone, deleteSession, deleteSessionFails
<1>10. CASE UNCHANGED vars
  BY <1>10 DEF vars
<1> HIDE DEF SessNext
<1> QED
  BY <1>1, <1>2, <1>3, <1>4, <1>5, <1>6, <1>7, <1>8, <1>9, <1>10 DEF Next

-----------------------------------------------------------------------------
(* Events *)

\* A pushed event names a session that controls a vehicle when it is pushed.
LEMMA PushKeeps ==
  ASSUME EventInv, spent \subseteq spent', UNCHANGED <<state, routing>>,
         NEW type \in Sent, NEW ss \in [SessionIds -> Session \cup {NoSession}],
         \A s \in SessionIds : ss[s] # NoSession /\ ss[s].role = "ACTIVE_OPERATOR" => s \in spent',
         PushSFUEvent(type, ss) \/ UNCHANGED posts
  PROVE  EventInv'
<1>1. CASE UNCHANGED posts
  BY <1>1 DEF EventInv
<1>2. CASE posts' # posts
  <2> DEFINE e(s) == [type |-> type, session |-> s, operator |-> ss[s].operator]
  <2>1. PICK s \in SessionIds, p \in Posts :
          /\ ss[s] # NoSession /\ ss[s].role = "ACTIVE_OPERATOR"
          /\ posts' = [posts EXCEPT ![p] = e(s)]
    BY <1>2 DEF PushSFUEvent, Publish
  <2>2. e(s) \in Event /\ e(s).session = s /\ s \in spent'
    BY <2>1 DEF Event, Session
  <2> HIDE DEF e
  <2> QED
    BY <2>1, <2>2 DEF EventInv
<1> QED
  BY <1>1, <1>2

\* An event that arrives, or is lost.
LEMMA ArrivalKeeps ==
  ASSUME EventInv, NEW p \in Posts, PublishFails(p) \/ HandleSessionEvent(p)
  PROVE  EventInv'
<1>0. spent' = spent
  BY DEF PublishFails, HandleSessionEvent, sessVars
<1>1. CASE PublishFails(p)
  BY <1>0, <1>1 DEF PublishFails, EventInv, sfuVars
<1>2. CASE HandleSessionEvent(p)
  <2> DEFINE e == posts[p]
  <2>1. e \in Event /\ e.session \in SessionIds /\ e.session \in spent /\ e.type \in Sent
        /\ e.operator \in Operators
    BY <1>2 DEF HandleSessionEvent, EventInv, Event
  <2>2. /\ posts' = [posts EXCEPT ![p] = NoEvent]
        /\ state' = [state EXCEPT ![e.session] =
                       IF e.type = "SESSION_ENDED" THEN NoEvent ELSE e.type]
        /\ \/ routing' = [routing EXCEPT ![e.session] = {}]
           \/ routing' = [routing EXCEPT ![e.session] = {e.operator}]
           \/ routing' = routing
    BY <1>2 DEF HandleSessionEvent
  <2> HIDE DEF e
  <2> QED
    BY <1>0, <2>1, <2>2 DEF EventInv
<1> QED
  BY <1>1, <1>2

\* Every step keeps the events sound.
LEMMA EventStep ==
  ASSUME MediaInv, SessInv', [Next]_vars
  PROVE  EventInv'
<1> DEFINE Kept == UNCHANGED <<posts, state, spent>>
<1>0. /\ sessions \in [SessionIds -> Session \cup {NoSession}]
      /\ sessions' \in [SessionIds -> Session \cup {NoSession}]
      /\ \A s \in SessionIds : sessions[s] # NoSession /\ sessions[s].role = "ACTIVE_OPERATOR"
                                 => s \in spent
      /\ \A s \in SessionIds : sessions'[s] # NoSession /\ sessions'[s].role = "ACTIVE_OPERATOR"
                                 => s \in spent'
      /\ EventInv
  BY DEF MediaInv, SessInv, SessTypeOK, IdsAreFresh, ActiveOperator, Live
<1>1. ASSUME NEW v \in Vehicles, NEW o \in Operators, NEW s \in SessionIds, SessionStart(v, o, s)
      PROVE  EventInv'
  <2>1. spent \subseteq spent'
    BY <1>1 DEF SessionStart, StartSession
  <2>2. PushSFUEvent("SESSION_CREATED", sessions') \/ UNCHANGED posts
    BY <1>1 DEF SessionStart
  <2>3. UNCHANGED <<state, routing>>
    BY <1>1 DEF SessionStart, sfuVars
  <2> QED
    BY <1>0, <2>1, <2>2, <2>3, PushKeeps DEF Sent
<1>2. ASSUME NEW s \in SessionIds, SessionEnd(s) \/ WSDisconnect(s)
      PROVE  EventInv'
  <2>1. /\ PushSFUEvent("SESSION_ENDED", sessions) \/ PushSFUEvent("SESSION_SAFE_MODE", sessions)
           \/ UNCHANGED posts
        /\ UNCHANGED <<state, routing, spent>>
    BY <1>2 DEF SessionEnd, WSDisconnect, ReleaseSession, SaveCheckpoint, sfuVars
  <2> QED
    BY <1>0, <2>1, PushKeeps DEF Sent
<1>3. ASSUME SessionEndAll
      PROVE  EventInv'
  <2>1. PushSFUEvent("SESSION_ENDED", sessions) /\ UNCHANGED <<state, routing, spent>>
    BY <1>3 DEF SessionEndAll, EndSession, sfuVars
  <2> QED
    BY <1>0, <2>1, PushKeeps DEF Sent
<1>4. ASSUME NEW v \in Vehicles, NEW o \in Operators, HandoverConfirmed(v, o)
      PROVE  EventInv'
  <2>1. PushSFUEvent("OPERATOR_HANDOVER", sessions') /\ UNCHANGED <<state, routing, spent>>
    BY <1>4 DEF HandoverConfirmed, UpdateOperator, sfuVars
  <2> QED
    BY <1>0, <2>1, PushKeeps DEF Sent
<1>5. ASSUME NEW v \in Vehicles, EmergencyStop(v)
      PROVE  EventInv'
  <2>1. PushSFUEvent("SESSION_SAFE_MODE", sessions) /\ UNCHANGED <<state, routing, spent>>
    BY <1>5 DEF EmergencyStop, SaveCheckpoint, sfuVars
  <2> QED
    BY <1>0, <2>1, PushKeeps DEF Sent
<1>6. ASSUME NEW p \in Posts, PublishFails(p) \/ HandleSessionEvent(p)
      PROVE  EventInv'
  BY <1>0, <1>6, ArrivalKeeps
<1>7. ASSUME NEW k \in Conns, NEW s \in SessionIds,
             \/ \E cam \in Cameras : CreateVehicleOffer(k, cam, s)
             \/ \E o \in Operators : SubscribeOperator(k, o, s)
      PROVE  Kept /\ UNCHANGED routing
  BY <1>7 DEF CreateVehicleOffer, SubscribeOperator, newPeerConnection, sessVars
<1>8. ASSUME NEW k \in Conns, \/ NegotiationFails(k) \/ RegisterVehicle(k) \/ ICEFails(k)
      PROVE  Kept /\ UNCHANGED routing
  BY <1>8 DEF NegotiationFails, RegisterVehicle, ICEFails, Register, sessVars
<1>9. ASSUME NEW k \in Conns, registerOperatorSubscription(k)
      PROVE  EventInv'
  <2>1. Kept /\ conns[k].peer \in Operators
        /\ routing' = [routing EXCEPT ![conns[k].session] =
                         routing[conns[k].session] \cup {conns[k].peer}]
    BY <1>9 DEF registerOperatorSubscription, Register, sessVars
  <2>2. routing' \in [SessionIds -> SUBSET Operators]
    BY <1>0, <2>1 DEF EventInv
  <2> QED
    BY <1>0, <2>1, <2>2 DEF EventInv
<1>10. ASSUME \/ \E r \in Readers, v \in Vehicles : MediaAuthRead(r, v)
              \/ \E r \in Readers : ReaderLeaves(r)
              \/ KickVehicle
       PROVE  Kept /\ UNCHANGED routing
  BY <1>10 DEF MediaAuthRead, ReaderLeaves, KickVehicle, listSessions, listSessionsFails,
     KickDone, deleteSession, deleteSessionFails, sessVars, sfuVars
<1>11. CASE UNCHANGED vars
  BY <1>0, <1>11 DEF vars, sessVars, sfuVars, EventInv
<1>12. Kept /\ UNCHANGED routing => EventInv'
  BY <1>0 DEF EventInv
<1> HIDE DEF Kept
<1> QED
  BY <1>1, <1>2, <1>3, <1>4, <1>5, <1>6, <1>7, <1>8, <1>9, <1>10, <1>11, <1>12 DEF Next
-----------------------------------------------------------------------------
(* Connections *)

\* Closing registered connections and forgetting their peers in one critical
\* section: a session that ends, a stop, an ICE failure.
LEMMA DropKeeps ==
  ASSUME SfuInv, NEW ks \in SUBSET Conns, \A k \in ks : conns[k] # Unused,
         Close(ks), Forget(ks)
  PROVE  SfuInv'
<1>1. /\ peers \in [Peers -> Conns \cup {NoConn}]
      /\ conns \in [Conns -> Connection \cup {Unused}]
  BY DEF SfuInv
<1>2. \A id \in Peers : peers'[id] = IF peers[id] \in ks THEN NoConn ELSE peers[id]
  BY DEF Forget
<1>3. \A k \in Conns \ ks : conns'[k] = conns[k]
  BY DEF Close
<1>4. \A k \in ks : /\ conns'[k] \in Connection /\ conns'[k].stage = "closed"
                    /\ conns'[k].peer = conns[k].peer
  <2>1. ASSUME NEW k \in ks
        PROVE  /\ [conns[k] EXCEPT !.stage = "closed"] \in Connection
               /\ [conns[k] EXCEPT !.stage = "closed"].stage = "closed"
               /\ [conns[k] EXCEPT !.stage = "closed"].peer = conns[k].peer
    BY <1>1 DEF Connection
  <2> QED
    BY <2>1 DEF Close
<1>5. /\ peers' \in [Peers -> Conns \cup {NoConn}]
      /\ conns' \in [Conns -> Connection \cup {Unused}]
  <2>1. conns' = [k \in Conns |-> conns'[k]] /\ peers' = [id \in Peers |-> peers'[id]]
    BY DEF Close, Forget
  <2> QED
    BY <1>1, <1>2, <1>3, <1>4, <2>1
<1>6. PeersHaveConnections'
  BY <1>1, <1>2, <1>3 DEF SfuInv, PeersHaveConnections
<1>7. ASSUME NEW k \in Conns, conns'[k] # Unused
      PROVE  conns'[k].stage = "open" <=> Registered(k)'
  <2>0. conns[k] # Unused /\ conns[k] \in Connection /\ conns[k].peer \in Peers
        /\ conns'[k].peer = conns[k].peer
    BY <1>1, <1>3, <1>4, <1>7 DEF Connection
  <2>1. CASE k \in ks
    <3>1. Registered(k)' = (peers'[conns[k].peer] = k)
      BY <2>0 DEF Registered
    <3>2. k # NoConn
      BY MediaAssumption
    <3> QED
      BY <1>2, <1>4, <2>0, <2>1, <3>1, <3>2
  <2>2. CASE k \notin ks
    <3>1. conns'[k] = conns[k]
      BY <1>3, <2>2
    <3>2. conns[k].stage = "open" <=> peers[conns[k].peer] = k
      BY <2>0 DEF SfuInv, ConnectionsAreAccounted, Registered
    <3>3. k # NoConn
      BY MediaAssumption
    <3> QED
      BY <1>2, <2>0, <2>2, <3>1, <3>2, <3>3 DEF Registered
  <2> QED
    BY <2>1, <2>2
<1> QED
  BY <1>5, <1>6, <1>7 DEF SfuInv, ConnectionsAreAccounted

\* A connection that is created, or whose negotiation fails, was never
\* registered.
LEMMA NegotiationKeeps ==
  ASSUME SfuInv, NEW k \in Conns, UNCHANGED peers,
         NEW c \in Connection, c.stage \in {"negotiating", "closed"},
         conns' = [conns EXCEPT ![k] = c],
         conns[k] = Unused \/ (conns[k].stage = "negotiating" /\ c.peer = conns[k].peer)
  PROVE  SfuInv'
<1>1. /\ peers \in [Peers -> Conns \cup {NoConn}]
      /\ conns \in [Conns -> Connection \cup {Unused}]
  BY DEF SfuInv
<1>2. /\ conns'[k] = c /\ \A j \in Conns : j # k => conns'[j] = conns[j]
      /\ conns' \in [Conns -> Connection \cup {Unused}]
  BY <1>1
<1>3. \A id \in Peers : peers[id] # k
  <2> SUFFICES ASSUME NEW id \in Peers, peers[id] = k
               PROVE  FALSE
    OBVIOUS
  <2>1. k # NoConn
    BY MediaAssumption
  <2>2. conns[k] # Unused /\ conns[k].peer = id
    BY <2>1 DEF SfuInv, PeersHaveConnections
  <2>3. conns[k].stage = "open"
    BY <2>2 DEF SfuInv, ConnectionsAreAccounted, Registered
  <2> QED
    BY <2>2, <2>3
<1>4. PeersHaveConnections'
  BY <1>1, <1>2, <1>3 DEF SfuInv, PeersHaveConnections
<1>5. c.peer \in Peers
  BY DEF Connection
<1>6. ConnectionsAreAccounted'
  BY <1>1, <1>2, <1>3, <1>5 DEF SfuInv, ConnectionsAreAccounted, Registered
<1> QED
  BY <1>1, <1>2, <1>4, <1>6 DEF SfuInv

\* A negotiated connection takes its peer's entry; the one it finds there stays
\* behind as a replaced one.
LEMMA RegisterKeeps ==
  ASSUME SfuInv, NEW k \in Conns, Register(k)
  PROVE  SfuInv'
<1> DEFINE id == conns[k].peer
           old == peers[id]
<1>1. /\ peers \in [Peers -> Conns \cup {NoConn}]
      /\ conns \in [Conns -> Connection \cup {Unused}]
  BY DEF SfuInv
<1>2. conns[k].stage = "negotiating" /\ conns[k] \in Connection /\ id \in Peers
      /\ conns[k] # Unused
  BY <1>1 DEF Register, Unused, Connection
<1>3. old # k
  BY <1>2 DEF SfuInv, ConnectionsAreAccounted, Registered
<1>4. peers'[id] = k /\ (\A i \in Peers : i # id => peers'[i] = peers[i])
      /\ peers' \in [Peers -> Conns \cup {NoConn}]
  BY <1>1, <1>2 DEF Register
<1>5. conns'[k] \in Connection /\ conns'[k].stage = "open" /\ conns'[k].peer = id
  <2>1. conns'[k] = [conns[k] EXCEPT !.stage = "open"]
    BY <1>3 DEF Register
  <2>2. /\ [conns[k] EXCEPT !.stage = "open"] \in Connection
        /\ [conns[k] EXCEPT !.stage = "open"].stage = "open"
        /\ [conns[k] EXCEPT !.stage = "open"].peer = conns[k].peer
    BY <1>2 DEF Connection
  <2> QED
    BY <2>1, <2>2
<1>6. old # NoConn => /\ old \in Conns /\ conns'[old] \in Connection
                      /\ conns'[old].stage = "replaced" /\ conns'[old].peer = id
  <2> SUFFICES ASSUME old # NoConn
               PROVE  /\ old \in Conns /\ conns'[old] \in Connection
                      /\ conns'[old].stage = "replaced" /\ conns'[old].peer = id
    OBVIOUS
  <2>1. old \in Conns /\ conns[old] \in Connection /\ conns[old].peer = id
    BY <1>1, <1>2 DEF SfuInv, PeersHaveConnections
  <2>2. conns'[old] = [conns[old] EXCEPT !.stage = "replaced"]
    BY <1>3, <2>1 DEF Register
  <2>3. /\ [conns[old] EXCEPT !.stage = "replaced"] \in Connection
        /\ [conns[old] EXCEPT !.stage = "replaced"].stage = "replaced"
        /\ [conns[old] EXCEPT !.stage = "replaced"].peer = conns[old].peer
    BY <2>1 DEF Connection
  <2> QED
    BY <2>1, <2>2, <2>3
<1>7. \A j \in Conns : j # k /\ j # old => conns'[j] = conns[j]
  BY DEF Register
<1>8. conns' \in [Conns -> Connection \cup {Unused}]
  <2>1. conns' = [j \in Conns |-> conns'[j]]
    BY DEF Register
  <2>2. NoConn \notin Conns
    BY MediaAssumption
  <2> QED
    BY <1>1, <1>5, <1>6, <1>7, <2>1, <2>2
<1>9. PeersHaveConnections'
  <2> SUFFICES ASSUME NEW i \in Peers, peers'[i] # NoConn
               PROVE  conns'[peers'[i]] # Unused /\ conns'[peers'[i]].peer = i
    BY DEF PeersHaveConnections
  <2>1. CASE i = id
    BY <1>4, <1>5, <2>1 DEF Unused, Connection
  <2>2. CASE i # id
    <3>1. peers'[i] = peers[i] /\ peers[i] \in Conns
      BY <1>1, <1>4, <2>2
    <3>2. conns[peers[i]] # Unused /\ conns[peers[i]].peer = i
      BY <3>1, MediaAssumption DEF SfuInv, PeersHaveConnections
    <3>3. peers[i] # k /\ peers[i] # old
      BY <1>2, <1>6, <2>2, <3>1, <3>2, MediaAssumption DEF SfuInv, PeersHaveConnections
    <3> QED
      BY <1>7, <3>1, <3>2, <3>3
  <2> QED
    BY <2>1, <2>2
<1>10. ASSUME NEW j \in Conns, conns'[j] # Unused
       PROVE  conns'[j].stage = "open" <=> peers'[conns'[j].peer] = j
  <2>1. CASE j = k
    BY <1>4, <1>5, <2>1
  <2>2. CASE j # k /\ j = old
    <3>1. old # NoConn
      BY <2>2, MediaAssumption
    <3> QED
      BY <1>4, <1>6, <2>2, <3>1
  <2>3. CASE j # k /\ j # old
    <3>1. conns'[j] = conns[j] /\ conns[j] \in Connection /\ conns[j].peer \in Peers
      BY <1>1, <1>7, <1>10, <2>3 DEF Connection
    <3>2. conns[j].stage = "open" <=> peers[conns[j].peer] = j
      BY <1>10, <3>1 DEF SfuInv, ConnectionsAreAccounted, Registered
    <3> QED
      BY <1>4, <2>3, <3>1, <3>2
  <2> QED
    BY <2>1, <2>2, <2>3
<1> QED
  BY <1>4, <1>8, <1>9, <1>10 DEF SfuInv, ConnectionsAreAccounted, Registered

\* Every step keeps the connections accounted for.
LEMMA SfuStep ==
  ASSUME SfuInv, [Next]_vars
  PROVE  SfuInv'
<1>0. /\ peers \in [Peers -> Conns \cup {NoConn}]
      /\ conns \in [Conns -> Connection \cup {Unused}]
  BY DEF SfuInv
<1>1. ASSUME UNCHANGED <<peers, conns>>
      PROVE  SfuInv'
  BY <1>1 DEF SfuInv, PeersHaveConnections, ConnectionsAreAccounted, Registered
<1>2. ASSUME NEW p \in Posts, HandleSessionEvent(p)
      PROVE  SfuInv'
  <2>1. UNCHANGED <<peers, conns>> \/ dropStreams(posts[p].session)
    BY <1>2 DEF HandleSessionEvent
  <2>2. ASSUME NEW s, dropStreams(s)
        PROVE  SfuInv'
    <3>1. ConnsOf(s) \in SUBSET Conns /\ \A k \in ConnsOf(s) : conns[k] # Unused
      BY DEF ConnsOf
    <3> QED
      BY <2>2, <3>1, DropKeeps DEF dropStreams
  <2> QED
    BY <1>1, <2>1, <2>2
<1>3. ASSUME NEW k \in Conns, NEW s \in SessionIds, NEW id \in Peers, newPeerConnection(k, id, s)
      PROVE  SfuInv'
  <2> DEFINE c == [stage |-> "negotiating", peer |-> id, session |-> s]
  <2>1. c \in Connection /\ c.stage = "negotiating"
    BY DEF Connection
  <2>2. conns[k] = Unused /\ conns' = [conns EXCEPT ![k] = c] /\ UNCHANGED peers
    BY <1>3 DEF newPeerConnection
  <2> HIDE DEF c
  <2> QED
    BY <2>1, <2>2, NegotiationKeeps
<1>4. ASSUME NEW k \in Conns, NegotiationFails(k)
      PROVE  SfuInv'
  <2> DEFINE c == [conns[k] EXCEPT !.stage = "closed"]
  <2>1. conns[k].stage = "negotiating" /\ conns[k] \in Connection
    BY <1>0, <1>4 DEF NegotiationFails, Unused
  <2>2. c \in Connection /\ c.stage = "closed" /\ c.peer = conns[k].peer
    BY <2>1 DEF Connection
  <2>3. conns' = [conns EXCEPT ![k] = c] /\ UNCHANGED peers
    BY <1>0, <1>4 DEF NegotiationFails, Close
  <2> HIDE DEF c
  <2> QED
    BY <2>1, <2>2, <2>3, NegotiationKeeps
<1>5. ASSUME NEW k \in Conns, RegisterVehicle(k) \/ registerOperatorSubscription(k)
      PROVE  SfuInv'
  BY <1>5, RegisterKeeps DEF RegisterVehicle, registerOperatorSubscription
<1>6. ASSUME NEW k \in Conns, ICEFails(k)
      PROVE  SfuInv'
  <2> DEFINE ks == {peers[conns[k].peer]} \ {NoConn}
  <2>1. conns[k] \in Connection /\ conns[k].peer \in Peers
    BY <1>0, <1>6 DEF ICEFails, Unused, Connection
  <2>2. ks \in SUBSET Conns /\ \A j \in ks : conns[j] # Unused
    BY <1>0, <2>1 DEF SfuInv, PeersHaveConnections
  <2>3. Close(ks) /\ Forget(ks)
    BY <1>6 DEF ICEFails, removePeer
  <2> HIDE DEF ks
  <2> QED
    BY <2>2, <2>3, DropKeeps
<1>7. ASSUME \/ \E v \in Vehicles, o \in Operators, s \in SessionIds : SessionStart(v, o, s)
             \/ \E s \in SessionIds : SessionEnd(s) \/ WSDisconnect(s)
             \/ SessionEndAll
             \/ \E v \in Vehicles, o \in Operators : HandoverConfirmed(v, o)
             \/ \E v \in Vehicles : EmergencyStop(v)
             \/ \E p \in Posts : PublishFails(p)
      PROVE  UNCHANGED <<peers, conns>>
  BY <1>7 DEF SessionStart, SessionEnd, WSDisconnect, SessionEndAll, HandoverConfirmed,
     EmergencyStop, PublishFails, sfuVars
<1>8. ASSUME \/ \E r \in Readers, v \in Vehicles : MediaAuthRead(r, v)
             \/ \E r \in Readers : ReaderLeaves(r)
             \/ KickVehicle
      PROVE  UNCHANGED <<peers, conns>>
  BY <1>8 DEF MediaAuthRead, ReaderLeaves, KickVehicle, listSessions, listSessionsFails,
     KickDone, deleteSession, deleteSessionFails, sfuVars
<1>9. CASE UNCHANGED vars
  BY <1>1, <1>9 DEF vars, sfuVars
<1> QED
  BY <1>1, <1>2, <1>3, <1>4, <1>5, <1>6, <1>7, <1>8, <1>9
     DEF Next, CreateVehicleOffer, SubscribeOperator, Peers

-----------------------------------------------------------------------------
(* MediaMTX *)

\* Every step keeps the kick on the track of those who still watch.
LEMMA KickStep ==
  ASSUME KickInv, [Next]_vars
  PROVE  KickInv'
<1> DEFINE Kick == [stage : {"none", "list", "kick"}, vehicle : Vehicles \cup {NoPath},
                    targets : SUBSET Readers]
<1>0. /\ readers \in [Readers -> Vehicles \cup {NoPath}]
      /\ kick \in Kick /\ kick.targets \in SUBSET Readers /\ uncut \subseteq Readers
      /\ NoPath \notin Vehicles
  BY MediaAssumption DEF KickInv
<1>01. NoKick \in Kick /\ NoKick.stage = "none"
  BY DEF NoKick
<1>1. ASSUME UNCHANGED <<readers, kick, uncut>>
      PROVE  KickInv'
  BY <1>1 DEF KickInv
<1>2. ASSUME NEW v \in Vehicles, EmergencyStop(v)
      PROVE  KickInv'
  <2> DEFINE n == [NoKick EXCEPT !.stage = "list", !.vehicle = v]
  <2>1. n \in Kick /\ n.stage = "list" /\ n.vehicle = v /\ n.targets = {}
    BY DEF NoKick
  <2>2. kick' = n /\ uncut' = {r \in Readers : readers[r] = v} /\ UNCHANGED readers
    BY <1>2 DEF EmergencyStop
  <2> HIDE DEF n
  <2> QED
    BY <1>0, <2>1, <2>2 DEF KickInv
<1>3. ASSUME NEW r \in Readers, NEW v \in Vehicles, MediaAuthRead(r, v)
      PROVE  KickInv'
  <2>1. readers[r] = NoPath /\ readers' = [readers EXCEPT ![r] = v] /\ UNCHANGED <<kick, uncut>>
    BY <1>3 DEF MediaAuthRead
  <2> QED
    BY <1>0, <2>1 DEF KickInv
<1>4. ASSUME NEW r \in Readers, ReaderLeaves(r)
      PROVE  KickInv'
  <2>1. readers' = [readers EXCEPT ![r] = NoPath] /\ UNCHANGED kick /\ uncut' = uncut \ {r}
    BY <1>4 DEF ReaderLeaves
  <2> QED
    BY <1>0, <2>1 DEF KickInv
<1>5. ASSUME listSessions
      PROVE  KickInv'
  <2> DEFINE n == [kick EXCEPT !.stage = "kick",
                               !.targets = {r \in Readers : readers[r] = kick.vehicle}]
  <2>1. /\ n \in Kick /\ n.stage = "kick"
        /\ n.targets = {r \in Readers : readers[r] = kick.vehicle}
    BY <1>0
  <2>2. kick.stage = "list" /\ kick' = n /\ UNCHANGED <<readers, uncut>>
    BY <1>5 DEF listSessions
  <2> HIDE DEF n
  <2> QED
    BY <1>0, <2>1, <2>2 DEF KickInv
<1>6. ASSUME listSessionsFails
      PROVE  KickInv'
  BY <1>0, <1>01, <1>6 DEF listSessionsFails, KickInv
<1>7. ASSUME KickDone
      PROVE  KickInv'
  BY <1>0, <1>01, <1>7 DEF KickDone, KickInv
<1>8. ASSUME NEW r \in Readers, deleteSession(r) \/ deleteSessionFails(r)
      PROVE  KickInv'
  <2> DEFINE n == [kick EXCEPT !.targets = kick.targets \ {r}]
  <2>1. n \in Kick /\ n.stage = kick.stage /\ n.targets = kick.targets \ {r}
    BY <1>0
  <2>2. /\ r \in kick.targets /\ kick' = n /\ uncut' = uncut \ {r}
        /\ readers' = readers \/ readers' = [readers EXCEPT ![r] = NoPath]
    BY <1>8 DEF deleteSession, deleteSessionFails
  <2>3. kick.stage = "kick"
    BY <1>0, <2>2 DEF KickInv, NoKick
  <2> HIDE DEF n
  <2> QED
    BY <1>0, <2>1, <2>2, <2>3 DEF KickInv
<1>9. ASSUME \/ \E v \in Vehicles, o \in Operators, s \in SessionIds : SessionStart(v, o, s)
             \/ \E s \in SessionIds : SessionEnd(s) \/ WSDisconnect(s)
             \/ SessionEndAll
             \/ \E v \in Vehicles, o \in Operators : HandoverConfirmed(v, o)
             \/ \E p \in Posts : PublishFails(p) \/ HandleSessionEvent(p)
      PROVE  UNCHANGED <<readers, kick, uncut>>
  BY <1>9 DEF SessionStart, SessionEnd, WSDisconnect, SessionEndAll, HandoverConfirmed,
     PublishFails, HandleSessionEvent, mtxVars
<1>10. ASSUME NEW k \in Conns, NEW s \in SessionIds,
              \/ \E cam \in Cameras : CreateVehicleOffer(k, cam, s)
              \/ \E o \in Operators : SubscribeOperator(k, o, s)
       PROVE  UNCHANGED <<readers, kick, uncut>>
  BY <1>10 DEF CreateVehicleOffer, SubscribeOperator, newPeerConnection, mtxVars
<1>11. ASSUME NEW k \in Conns, \/ NegotiationFails(k) \/ RegisterVehicle(k)
                               \/ registerOperatorSubscription(k) \/ ICEFails(k)
       PROVE  UNCHANGED <<readers, kick, uncut>>
  BY <1>11 DEF NegotiationFails, RegisterVehicle, registerOperatorSubscription, ICEFails,
     Register, mtxVars
<1>12. CASE UNCHANGED vars
  BY <1>1, <1>12 DEF vars, mtxVars
<1> QED
  BY <1>1, <1>2, <1>3, <1>4, <1>5, <1>6, <1>7, <1>8, <1>9, <1>10, <1>11, <1>12
     DEF Next, KickVehicle

-----------------------------------------------------------------------------
\* The invariant holds throughout.
LEMMA MediaInvariance == Spec => []MediaInv
<1>1. MediaInv /\ [Next]_vars => MediaInv'
  <2> SUFFICES ASSUME MediaInv, [Next]_vars PROVE MediaInv'
    OBVIOUS
  <2>1. SessInv'
    BY MediaUsesManager, SessStep DEF MediaInv
  <2> QED
    BY <2>1, EventStep, SfuStep, KickStep DEF MediaInv
<1> QED
  BY <1>1, InitMediaInv, PTL DEF Spec

\* The variables keep their types, and however events are delayed, reordered or
\* lost the SFU records events only of sessions that were given a vehicle.
THEOREM MediaTypeCorrect == Spec => []MediaTypeOK
<1>1. MediaInv => MediaTypeOK
  BY DEF MediaInv, EventInv, SfuInv, KickInv, MediaTypeOK
<1> QED
  BY <1>1, MediaInvariance, PTL

\* A connection is open exactly while it is registered, whichever order events,
\* renewals of a peer's connection and ICE callbacks of old connections come in.
THEOREM ConnectionSafety == Spec => []ConnectionsAreAccounted
<1>1. MediaInv => ConnectionsAreAccounted
  BY DEF MediaInv, SfuInv
<1> QED
  BY <1>1, MediaInvariance, PTL

\* When KickVehicle is done, everybody who watched the stopped vehicle has been
\* cut off or is one whose kick MediaMTX refused, however readers come and go.
THEOREM StoppedVideoSafety == Spec => []StoppedVideoIsCut
<1>1. MediaInv => StoppedVideoIsCut
  BY DEF MediaInv, KickInv, StoppedVideoIsCut, NoKick
<1> QED
  BY <1>1, MediaInvariance, PTL
=============================================================================
