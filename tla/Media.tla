-------------------------------- MODULE Media --------------------------------
(***************************************************************************)
(* The media side of a session: the session events that the control server *)
(* pushes to the SFU (session/manager.go, session/sfu_publisher.go), the   *)
(* SFU's sessions and peer connections (internal/webrtcsfu, cmd/webrtc-sfu)*)
(* and the MediaMTX readers that an emergency stop kicks                   *)
(* (internal/mediamtx, cmd/control-server).                                *)
(*                                                                         *)
(* Every push is a goroutine of its own: events are lost when the SFU is   *)
(* down and overtake each other.  An SDP negotiation takes seconds and     *)
(* holds no lock, so events arrive while it runs.  The handlers of the     *)
(* control server are whole steps here; what they do to the vehicles'      *)
(* state machines is in ControlServer and Handover.                        *)
(***************************************************************************)
EXTENDS SessionManager, Naturals

CONSTANTS
  Cameras,      \* peer ids of the vehicles' cameras
  Conns,        \* bound: WebRTC peer connections a run creates
  Posts,        \* bound: events under way to the SFU at a time
  Readers,      \* WebRTC sessions that read from MediaMTX
  NoEvent, NoConn, NoPath,
  MaxFaults     \* bound: MediaMTX calls that fail

Peers == Operators \cup Cameras

Sent == {"SESSION_CREATED", "OPERATOR_HANDOVER", "SESSION_SAFE_MODE", "SESSION_ENDED"}

Event == [type : Sent, session : SessionIds, operator : Operators]

ASSUME MediaAssumption ==
  /\ Operators \cap Cameras = {}
  /\ NoEvent \notin Event /\ NoConn \notin Conns /\ NoPath \notin Vehicles
  /\ MaxFaults \in Nat

VARIABLES
  posts,    \* Posts -> the event a PublishSessionEvent goroutine carries
  state,    \* SFU.state: sessionID -> the last event, or NoEvent
  routing,  \* SFU.routing: sessionID -> operators
  peers,    \* SFU.peers: peerID -> its connection, or NoConn
  conns,    \* Conns -> the connection: whose, for which session, how far
  readers,  \* Readers -> the MediaMTX path it reads, or NoPath
  kick,     \* the KickVehicle goroutine: its vehicle and whom it still kicks
  faults,   \* MediaMTX calls that failed
  uncut     \* history: readers of the stopped vehicle that have not left it since
            \* and whose kick has not failed

sfuVars == <<state, routing, peers, conns>>
mtxVars == <<readers, kick, faults, uncut>>
vars == <<sessVars, posts, sfuVars, mtxVars>>

Unused == [stage |-> "unused"]

NoKick == [stage |-> "none", vehicle |-> NoPath, targets |-> {}]

Init ==
  /\ SessInit
  /\ posts = [p \in Posts |-> NoEvent]
  /\ state = [s \in SessionIds |-> NoEvent]
  /\ routing = [s \in SessionIds |-> {}]
  /\ peers = [id \in Peers |-> NoConn]
  /\ conns = [k \in Conns |-> Unused]
  /\ readers = [r \in Readers |-> NoPath]
  /\ kick = NoKick
  /\ faults = 0
  /\ uncut = {}

-----------------------------------------------------------------------------
(* The control server *)

Publish(type, among, ss) ==
  IF among = {} THEN UNCHANGED posts
  ELSE \E s \in among, p \in Posts :
         /\ posts[p] = NoEvent
         /\ posts' = [posts EXCEPT ![p] =
              [type |-> type, session |-> s, operator |-> ss[s].operator]]

\* Fault: the search does not look at the role.
PushSFUEventOfAny(type, ss) == Publish(type, {s \in SessionIds : ss[s] # NoSession}, ss)

\* The event names some ACTIVE_OPERATOR session of the fleet, of whatever
\* vehicle; without one there is no event.  ss is Manager.sessions at the call.
PushSFUEvent(type, ss) ==
  Publish(type, {s \in SessionIds : ss[s] # NoSession /\ ss[s].role = "ACTIVE_OPERATOR"}, ss)

\* A controlling session is announced after it is started.
SessionStart(v, o, s) ==
  /\ StartSession(v, o, s)
  /\ IF IsVehicleLocked(v) THEN UNCHANGED posts
     ELSE PushSFUEvent("SESSION_CREATED", sessions')
  /\ UNCHANGED <<sfuVars, mtxVars>>

\* The event is pushed before the session is released.
SessionEnd(s) ==
  /\ Live(s)
  /\ IF ActiveOperator(s) THEN PushSFUEvent("SESSION_ENDED", sessions) ELSE UNCHANGED posts
  /\ ReleaseSession(s)
  /\ UNCHANGED <<sfuVars, mtxVars>>

SessionEndAll ==
  /\ PushSFUEvent("SESSION_ENDED", sessions)
  /\ EndSession
  /\ UNCHANGED <<sfuVars, mtxVars>>

\* The end of ConfirmHandover.
HandoverConfirmed(v, o) ==
  /\ UpdateOperator(v, o)
  /\ PushSFUEvent("OPERATOR_HANDOVER", sessions')
  /\ UNCHANGED <<sfuVars, mtxVars>>

\* An emergency stop of a vehicle with a session; without one there is neither
\* an event nor a kick.  Bound: one KickVehicle goroutine at a time.
EmergencyStop(v) ==
  /\ IsVehicleLocked(v)
  /\ SaveCheckpoint
  /\ PushSFUEvent("SESSION_SAFE_MODE", sessions)
  /\ kick = NoKick
  /\ kick' = [NoKick EXCEPT !.stage = "list", !.vehicle = v]
  /\ uncut' = {r \in Readers : readers[r] = v}
  /\ UNCHANGED <<sfuVars, readers, faults>>

\* The controller's socket closes: the same event, and nobody is kicked.
WSDisconnect(s) ==
  /\ ActiveOperator(s)
  /\ SaveCheckpoint
  /\ PushSFUEvent("SESSION_SAFE_MODE", sessions)
  /\ UNCHANGED <<sfuVars, mtxVars>>

\* The SFU is down or refuses the event: it is lost.
PublishFails(p) ==
  /\ posts[p] # NoEvent
  /\ posts' = [posts EXCEPT ![p] = NoEvent]
  /\ UNCHANGED <<sessVars, sfuVars, mtxVars>>

-----------------------------------------------------------------------------
(* The SFU *)

Registered(k) == peers[conns[k].peer] = k

Close(ks) == conns' = [k \in Conns |-> IF k \in ks THEN [conns[k] EXCEPT !.stage = "closed"]
                                       ELSE conns[k]]

Forget(ks) == peers' = [id \in Peers |-> IF peers[id] \in ks THEN NoConn ELSE peers[id]]

ConnsOf(s) ==
  {k \in Conns : conns[k] # Unused /\ conns[k].session = s /\ Registered(k)}

\* Fault: the peers are forgotten and their connections stay open.
dropStreamsOpen(s) == Forget(ConnsOf(s)) /\ UNCHANGED conns

dropStreams(s) == Close(ConnsOf(s)) /\ Forget(ConnsOf(s))

removePeer(id) == Close({peers[id]} \ {NoConn}) /\ Forget({peers[id]} \ {NoConn})

\* The event types the SFU knows; OPERATOR_HANDOVER is none of them and is
\* only recorded as the session's last event.
HandleSessionEvent(p) ==
  LET e == posts[p]
      s == e.session
  IN  /\ e # NoEvent
      /\ posts' = [posts EXCEPT ![p] = NoEvent]
      /\ state' = [state EXCEPT ![s] = IF e.type = "SESSION_ENDED" THEN NoEvent ELSE e.type]
      /\ routing' = CASE e.type \in {"SESSION_CREATED", "SESSION_ENDED"} ->
                           [routing EXCEPT ![s] = {}]
                      [] e.type \in {"SESSION_OPERATOR_ASSIGNED",
                                     "SESSION_OPERATOR_HANDOVER"} ->
                           [routing EXCEPT ![s] = {e.operator}]
                      [] OTHER -> routing
      /\ IF e.type \in {"SESSION_SAFE_MODE", "SESSION_ENDED"}
         THEN dropStreams(s)
         ELSE UNCHANGED <<peers, conns>>
      /\ UNCHANGED <<sessVars, mtxVars>>

newPeerConnection(k, id, s) ==
  /\ conns[k] = Unused
  /\ conns' = [conns EXCEPT ![k] = [stage |-> "negotiating", peer |-> id, session |-> s]]
  /\ UNCHANGED <<sessVars, posts, state, routing, peers, mtxVars>>

\* Any session id, any peer id.
CreateVehicleOffer(k, cam, s) == newPeerConnection(k, cam, s)

SubscribeOperator(k, o, s) == newPeerConnection(k, o, s)

\* negotiateAnswer fails and closes the connection.
NegotiationFails(k) ==
  /\ conns[k].stage = "negotiating"
  /\ Close({k})
  /\ UNCHANGED <<sessVars, posts, state, routing, peers, mtxVars>>

\* The answer is there: the peer's entry is replaced whatever it was, and the
\* old connection is left as it is.
Register(k) ==
  LET id == conns[k].peer
  IN  /\ conns[k].stage = "negotiating"
      /\ conns' = [j \in Conns |->
           CASE j = k -> [conns[j] EXCEPT !.stage = "open"]
             [] j = peers[id] -> [conns[j] EXCEPT !.stage = "replaced"]
             [] OTHER -> conns[j]]
      /\ peers' = [peers EXCEPT ![id] = k]
      /\ UNCHANGED <<sessVars, posts, state, mtxVars>>

RegisterVehicle(k) ==
  /\ Register(k)
  /\ conns[k].peer \in Cameras
  /\ UNCHANGED routing

\* The operator is added to the session's routing, which an ended session
\* regains.
registerOperatorSubscription(k) ==
  /\ Register(k)
  /\ conns[k].peer \in Operators
  /\ routing' = [routing EXCEPT ![conns[k].session] = @ \cup {conns[k].peer}]

\* A connection's ICE state fails and its callback removes whichever
\* connection is registered under its peer id.
ICEFails(k) ==
  /\ conns[k].stage \in {"negotiating", "open", "replaced"}
  /\ removePeer(conns[k].peer)
  /\ UNCHANGED <<sessVars, posts, state, routing, mtxVars>>

-----------------------------------------------------------------------------
(* MediaMTX *)

\* handleMediaAuth: reading a vehicle's path takes a session that controls it.
MediaAuthRead(r, v) ==
  /\ readers[r] = NoPath
  /\ IsVehicleLocked(v)
  /\ readers' = [readers EXCEPT ![r] = v]
  /\ UNCHANGED <<sessVars, posts, sfuVars, kick, faults, uncut>>

ReaderLeaves(r) ==
  /\ readers[r] # NoPath
  /\ readers' = [readers EXCEPT ![r] = NoPath]
  /\ uncut' = uncut \ {r}
  /\ UNCHANGED <<sessVars, posts, sfuVars, kick, faults>>

listSessions ==
  /\ kick.stage = "list"
  /\ kick' = [kick EXCEPT !.stage = "kick",
                          !.targets = {r \in Readers : readers[r] = kick.vehicle}]
  /\ UNCHANGED <<sessVars, posts, sfuVars, readers, faults, uncut>>

listSessionsFails ==
  /\ kick.stage = "list" /\ faults < MaxFaults
  /\ faults' = faults + 1
  /\ uncut' = {}
  /\ kick' = NoKick
  /\ UNCHANGED <<sessVars, posts, sfuVars, readers>>

deleteSession(r) ==
  /\ r \in kick.targets
  /\ readers' = [readers EXCEPT ![r] = NoPath]
  /\ uncut' = uncut \ {r}
  /\ kick' = [kick EXCEPT !.targets = @ \ {r}]
  /\ UNCHANGED <<sessVars, posts, sfuVars, faults>>

\* Fault: KickVehicle returns at the first reader it cannot kick.
deleteSessionGivesUp(r) ==
  /\ r \in kick.targets /\ faults < MaxFaults
  /\ faults' = faults + 1
  /\ uncut' = uncut \ {r}
  /\ kick' = NoKick
  /\ UNCHANGED <<sessVars, posts, sfuVars, readers>>

\* A failed kick is logged and the loop goes on.
deleteSessionFails(r) ==
  /\ r \in kick.targets /\ faults < MaxFaults
  /\ faults' = faults + 1
  /\ uncut' = uncut \ {r}
  /\ kick' = [kick EXCEPT !.targets = @ \ {r}]
  /\ UNCHANGED <<sessVars, posts, sfuVars, readers>>

KickDone ==
  /\ kick.stage = "kick" /\ kick.targets = {}
  /\ kick' = NoKick
  /\ UNCHANGED <<sessVars, posts, sfuVars, readers, faults, uncut>>

KickVehicle ==
  \/ listSessions \/ listSessionsFails \/ KickDone
  \/ \E r \in Readers : deleteSession(r) \/ deleteSessionFails(r)

Next ==
  \/ \E v \in Vehicles, o \in Operators, s \in SessionIds : SessionStart(v, o, s)
  \/ \E s \in SessionIds : SessionEnd(s) \/ WSDisconnect(s)
  \/ SessionEndAll
  \/ \E v \in Vehicles, o \in Operators : HandoverConfirmed(v, o)
  \/ \E v \in Vehicles : EmergencyStop(v)
  \/ \E p \in Posts : PublishFails(p) \/ HandleSessionEvent(p)
  \/ \E k \in Conns, s \in SessionIds :
       \/ \E cam \in Cameras : CreateVehicleOffer(k, cam, s)
       \/ \E o \in Operators : SubscribeOperator(k, o, s)
  \/ \E k \in Conns :
       NegotiationFails(k) \/ RegisterVehicle(k) \/ registerOperatorSubscription(k) \/ ICEFails(k)
  \/ \E r \in Readers, v \in Vehicles : MediaAuthRead(r, v)
  \/ \E r \in Readers : ReaderLeaves(r)
  \/ KickVehicle

Spec == Init /\ [][Next]_vars

-----------------------------------------------------------------------------
Connection ==
  [stage : {"negotiating", "open", "replaced", "closed"}, peer : Peers,
   session : SessionIds]

\* The variables stay in their types, and the SFU records events only of
\* sessions that have controlled a vehicle.
MediaTypeOK ==
  /\ posts \in [Posts -> Event \cup {NoEvent}]
  /\ state \in [SessionIds -> Sent \cup {NoEvent}]
  /\ \A s \in SessionIds : state[s] # NoEvent => s \in spent
  /\ routing \in [SessionIds -> SUBSET Operators]
  /\ peers \in [Peers -> Conns \cup {NoConn}]
  /\ conns \in [Conns -> Connection \cup {Unused}]
  /\ readers \in [Readers -> Vehicles \cup {NoPath}]

\* A connection is open exactly while it is registered: none is closed under a
\* registered peer, and none is lost open, whatever events, renewals and ICE
\* failures meet.  Only a connection that its peer's next one replaced stays
\* behind.
ConnectionsAreAccounted ==
  \A k \in Conns :
    conns[k] # Unused => (conns[k].stage = "open" <=> Registered(k))

\* Whoever watches a vehicle when its emergency stop is handled has been cut off
\* when KickVehicle is done, unless MediaMTX refused that very call.
StoppedVideoIsCut == kick = NoKick => uncut = {}
=============================================================================
