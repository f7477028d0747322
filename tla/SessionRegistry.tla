--------------------------- MODULE SessionRegistry ---------------------------
(***************************************************************************)
(* The session registry of the chat server: the Lobby, which owns pending  *)
(* transports, rooms and resumable sessions, together with the part of     *)
(* Peer that binds a logical participant to its current WebSocket.         *)
(*                                                                         *)
(* A step is one critical section of the code, so every interleaving that  *)
(* the mutexes of Lobby, Room and Peer allow is a behaviour of the model.  *)
(* Each transport is a sequential process (the coroutine of its socket):   *)
(* it connects, sends at most one hello, is served and is destroyed.  The  *)
(* reaper is the thread that runs Lobby::expireSessions every second.      *)
(*                                                                         *)
(* Abstractions: a resume token is the id of the peer it was issued for;   *)
(* the steady clock is an integer; statistics counters, names and file     *)
(* capabilities are left out; a room's durable log is reduced to which of  *)
(* its peers have been announced as joined and as left.                    *)
(*                                                                         *)
(* Where a definition is preceded by one that differs from it in a detail  *)
(* (HasCapacityOffByOne, KeptLease, ...), that one is a plausible mistake  *)
(* in the same lines, used to see that a property would notice it.         *)
(***************************************************************************)
EXTENDS Integers, FiniteSets

CONSTANTS
    Sockets,        \* the transports that ever connect (AsyncWebSocket objects)
    NoSocket,       \* the null socket
    RoomNames,      \* room names that appear in connection URLs
    MaxPeers,       \* bound on the peer ids handed out
    MaxRoomObjects, \* bound on the Room objects created
    RoomLimit,      \* Limits::rooms
    PeersPerRoom,   \* Limits::peersPerRoom
    GracePeriod,    \* session::gracePeriod, in clock units
    HelloPeriod,    \* session::pendingHelloPeriod, in clock units
    MaxTime,        \* bound on the clock
    MaxCommands     \* bound on the commands a peer publishes

ASSUME RegistryAssumption ==
    /\ NoSocket \notin Sockets
    /\ RoomNames # {}
    /\ MaxPeers \in Nat /\ MaxRoomObjects \in Nat
    /\ RoomLimit \in Nat /\ PeersPerRoom \in Nat \ {0}
    /\ GracePeriod \in Nat \ {0} /\ HelloPeriod \in Nat \ {0}
    /\ MaxTime \in Nat /\ MaxCommands \in Nat

Peers == 1 .. MaxPeers
RoomIds == 1 .. MaxRoomObjects
NoPeer == 0
NoRoom == 0
\* An empty std::optional deadline; a real deadline is at least one.
NoDeadline == 0

VARIABLES
    clock,       \* steady_clock
    pc,          \* where each transport's coroutine stands
    urlRoom,     \* per transport: the room name of its URL
    token, now,  \* per transport: resumeToken of its hello and the clock it read
    peer, room,  \* per transport: the locals `peer` and `room` of acceptSessionHello
    listener,    \* per transport: its Peer listener, NoPeer while PendingHello listens
    invalid,     \* transports whose connection was invalidated
    pending,     \* Lobby::m_pending: deadline of each transport that owes a hello
    rooms,       \* Lobby::m_rooms
    nextRoom, nameOf,  \* Room objects created so far and their names
    nextPeer,    \* Lobby::m_peerIdCounter
    sessions,    \* keys of Lobby::m_sessions
    lease,       \* SessionLease::m_deadline of each session
    home,        \* Peer::m_room, also SessionRecord::room
    socket, generation,  \* Peer::m_socket and Peer::m_socketGeneration
    members,     \* Room::m_peerById of each Room object
    announced,   \* per peer: "no", then "joined" and "left" as its room's log says
    shown,       \* peers whose last PEER_CONNECTION_STATE (or joining) says connected
    commands,    \* per peer: commands published to the room
    issued,      \* peers whose token reached a browser in SESSION_READY
    reaper, reaperNow, batch, victim  \* expireSessions: step, `now`, sessions left, current

helloVars == <<urlRoom, token, now>>
transportVars == <<pc, helloVars, peer, room, listener, invalid>>
lobbyVars == <<pending, rooms, nextRoom, nameOf, nextPeer, sessions, lease>>
peerVars == <<home, socket, generation>>
roomVars == <<members, announced, shown, commands>>
reaperVars == <<reaper, reaperNow, batch, victim>>
vars == <<clock, transportVars, lobbyVars, peerVars, roomVars, issued, reaperVars>>

Steps == {"none", "pending", "claim", "resume", "replace", "room", "capacity", "add",
          "emplace", "welcome", "listen", "ready", "announce", "open", "reject",
          "detach", "lease", "publish", "gone"}
ReaperSteps == {"idle", "collect", "remove", "goodbye", "delete"}

TypeOK ==
    /\ clock \in Nat
    /\ pc \in [Sockets -> Steps]
    /\ urlRoom \in [Sockets -> RoomNames]
    /\ token \in [Sockets -> Peers \cup {NoPeer}]
    /\ now \in [Sockets -> Nat]
    /\ peer \in [Sockets -> Peers \cup {NoPeer}]
    /\ room \in [Sockets -> RoomIds \cup {NoRoom}]
    /\ listener \in [Sockets -> Peers \cup {NoPeer}]
    /\ invalid \subseteq Sockets
    /\ pending \in [Sockets -> Nat]
    /\ rooms \in [RoomNames -> RoomIds \cup {NoRoom}]
    /\ nextRoom \in 1 .. MaxRoomObjects + 1
    /\ nameOf \in [RoomIds -> RoomNames]
    /\ nextPeer \in 1 .. MaxPeers + 1
    /\ sessions \subseteq Peers
    /\ lease \in [Peers -> Nat]
    /\ home \in [Peers -> RoomIds \cup {NoRoom}]
    /\ socket \in [Peers -> Sockets \cup {NoSocket}]
    /\ generation \in [Peers -> Nat]
    /\ members \in [RoomIds -> SUBSET Peers]
    /\ announced \in [Peers -> {"no", "joined", "left"}]
    /\ shown \subseteq Peers
    /\ commands \in [Peers -> Nat]
    /\ issued \subseteq Peers
    /\ reaper \in ReaperSteps
    /\ reaperNow \in Nat
    /\ batch \subseteq Peers
    /\ victim \in Peers \cup {NoPeer}

\* The value of a name that is not set yet.
AnyName == CHOOSE n \in RoomNames : TRUE

Init ==
    /\ clock = 0
    /\ pc = [s \in Sockets |-> "none"]
    /\ urlRoom = [s \in Sockets |-> AnyName]
    /\ token = [s \in Sockets |-> NoPeer]
    /\ now = [s \in Sockets |-> 0]
    /\ peer = [s \in Sockets |-> NoPeer]
    /\ room = [s \in Sockets |-> NoRoom]
    /\ listener = [s \in Sockets |-> NoPeer]
    /\ invalid = {}
    /\ pending = [s \in Sockets |-> NoDeadline]
    /\ rooms = [n \in RoomNames |-> NoRoom]
    /\ nextRoom = 1
    /\ nameOf = [r \in RoomIds |-> AnyName]
    /\ nextPeer = 1
    /\ sessions = {}
    /\ lease = [p \in Peers |-> NoDeadline]
    /\ home = [p \in Peers |-> NoRoom]
    /\ socket = [p \in Peers |-> NoSocket]
    /\ generation = [p \in Peers |-> 0]
    /\ members = [r \in RoomIds |-> {}]
    /\ announced = [p \in Peers |-> "no"]
    /\ shown = {}
    /\ commands = [p \in Peers |-> 0]
    /\ issued = {}
    /\ reaper = "idle"
    /\ reaperNow = 0
    /\ batch = {}
    /\ victim = NoPeer

-----------------------------------------------------------------------------
(* Operators of the helper classes *)

\* boundaries::hasCapacity.
HasCapacityOffByOne(size, limit) == size <= limit
HasCapacity(size, limit) == size < limit

\* SessionLease: canResume, expires, and the deadlines that resume and detach leave.
CanResume(p, t) == lease[p] # NoDeadline /\ t < lease[p]
ExpiresUnset(p, t) == t >= lease[p]
Expires(p, t) == lease[p] # NoDeadline /\ t >= lease[p]
KeptLease(p) == lease[p]
ResumedLease(p) == NoDeadline
PastDeadline(t) == t - GracePeriod
LostDeadline(t) == NoDeadline
DetachedLease(t) == t + GracePeriod

\* TransportGeneration::isCurrent together with the comparison of m_socket.
IsFirstGeneration(p, s) == p # NoPeer /\ socket[p] = s /\ generation[p] = 1
IsCurrent(p, s) == p # NoPeer /\ socket[p] = s

\* Room::isEmpty.
OnlyVictimLeft(r) == members[r] = {victim}
IsEmpty(r) == members[r] = {}

Goto(s, step) == pc' = [pc EXCEPT ![s] = step]

-----------------------------------------------------------------------------
(* A transport up to its hello *)

\* Lobby::onAfterCreate_NonBlocking: the transport has HelloPeriod to say hello.
Connect(s, name) ==
    /\ pc[s] = "none"
    /\ pending' = [pending EXCEPT ![s] = clock + HelloPeriod]
    /\ urlRoom' = [urlRoom EXCEPT ![s] = name]
    /\ Goto(s, "pending")
    /\ UNCHANGED <<clock, token, now, peer, room, listener, invalid, rooms, nextRoom, nameOf,
                   nextPeer, sessions, lease, peerVars, roomVars, issued, reaperVars>>

\* PendingHello::readMessage with a whole frame that passes validation: the
\* clock is read here, before any lock, and used for both deadlines below.
ReceiveHello(s, t) ==
    /\ pc[s] = "pending"
    /\ t \in issued \cup {NoPeer}
    /\ token' = [token EXCEPT ![s] = t]
    /\ now' = [now EXCEPT ![s] = clock]
    /\ Goto(s, "claim")
    /\ UNCHANGED <<clock, urlRoom, peer, room, listener, invalid, lobbyVars, peerVars, roomVars,
                   issued, reaperVars>>

\* A frame that does not parse or does not validate.
ReceiveMalformed(s) ==
    /\ pc[s] = "pending"
    /\ Goto(s, "reject")
    /\ UNCHANGED <<clock, helloVars, peer, room, listener, invalid, lobbyVars, peerVars,
                   roomVars, issued, reaperVars>>

\* A frame longer than maxMessageSizeBytes: the connection is invalidated, so
\* that nothing more is read from it.
ReceiveOversized(s) ==
    /\ pc[s] = "pending"
    /\ invalid' = invalid \cup {s}
    /\ Goto(s, "reject")
    /\ UNCHANGED <<clock, helloVars, peer, room, listener, lobbyVars, peerVars, roomVars,
                   issued, reaperVars>>

\* The first critical section of acceptSessionHello: a transport redeems its
\* pending record once, and only before the deadline.
PendingLive(s) == pending[s] # NoDeadline /\ now[s] < pending[s]

ClaimPending(s) ==
    /\ pc[s] = "claim"
    /\ pending' = [pending EXCEPT ![s] = IF PendingLive(s) THEN NoDeadline ELSE @]
    /\ Goto(s, CASE ~PendingLive(s) -> "reject"
                 [] PendingLive(s) /\ token[s] # NoPeer -> "resume"
                 [] OTHER -> "room")
    /\ UNCHANGED <<clock, helloVars, peer, room, listener, invalid, rooms, nextRoom, nameOf,
                   nextPeer, sessions, lease, peerVars, roomVars, issued, reaperVars>>

-----------------------------------------------------------------------------
(* Resuming a session *)

\* The registry lookup of a resume: the token must name a registered session
\* of this room whose transport has been detached and whose grace lasts.
ResumableUnlisted(s) ==
    LET p == token[s]
    IN  nameOf[home[p]] = urlRoom[s] /\ CanResume(p, now[s])

Resumable(s) ==
    LET p == token[s]
    IN  /\ p \in sessions
        /\ nameOf[home[p]] = urlRoom[s]
        /\ CanResume(p, now[s])

ResumeLease(s) ==
    /\ pc[s] = "resume"
    /\ Resumable(s)
    /\ lease' = [lease EXCEPT ![token[s]] = ResumedLease(token[s])]
    /\ peer' = [peer EXCEPT ![s] = token[s]]
    /\ Goto(s, "replace")
    /\ UNCHANGED <<clock, helloVars, room, listener, invalid, pending, rooms, nextRoom, nameOf,
                   nextPeer, sessions, peerVars, roomVars, issued, reaperVars>>

RefuseResume(s) ==
    /\ pc[s] = "resume"
    /\ ~Resumable(s)
    /\ Goto(s, "reject")
    /\ UNCHANGED <<clock, helloVars, peer, room, listener, invalid, lobbyVars, peerVars,
                   roomVars, issued, reaperVars>>

\* Peer::replaceSocket, and the invalidation of the transport it displaced.
ReplaceSocket(s) ==
    LET p == peer[s]
    IN  /\ pc[s] = "replace"
        /\ socket' = [socket EXCEPT ![p] = s]
        /\ generation' = [generation EXCEPT ![p] = @ + 1]
        /\ invalid' = invalid \cup ({socket[p]} \ {s, NoSocket})
        /\ Goto(s, "listen")
        /\ UNCHANGED <<clock, helloVars, peer, room, listener, lobbyVars, home, roomVars,
                       issued, reaperVars>>

-----------------------------------------------------------------------------
(* A fresh session *)

RegisteredRooms == {n \in RoomNames : rooms[n] # NoRoom}

\* Lobby::getOrCreateRoom: the registered room, a new one, or none at the limit.
FindRoom(s) ==
    /\ rooms[urlRoom[s]] # NoRoom
    /\ room' = [room EXCEPT ![s] = rooms[urlRoom[s]]]
    /\ Goto(s, "capacity")
    /\ UNCHANGED <<rooms, nextRoom, nameOf>>

CreateRoom(s) ==
    /\ rooms[urlRoom[s]] = NoRoom
    /\ HasCapacity(Cardinality(RegisteredRooms), RoomLimit)
    /\ nextRoom \in RoomIds
    /\ rooms' = [rooms EXCEPT ![urlRoom[s]] = nextRoom]
    /\ nameOf' = [nameOf EXCEPT ![nextRoom] = urlRoom[s]]
    /\ nextRoom' = nextRoom + 1
    /\ room' = [room EXCEPT ![s] = nextRoom]
    /\ Goto(s, "capacity")

RefuseRoom(s) ==
    /\ rooms[urlRoom[s]] = NoRoom
    /\ ~HasCapacity(Cardinality(RegisteredRooms), RoomLimit)
    /\ Goto(s, "reject")
    /\ UNCHANGED <<room, rooms, nextRoom, nameOf>>

GetOrCreateRoom(s) ==
    /\ pc[s] = "room"
    /\ FindRoom(s) \/ CreateRoom(s) \/ RefuseRoom(s)
    /\ UNCHANGED <<clock, helloVars, peer, listener, invalid, pending, nextPeer, sessions,
                   lease, peerVars, roomVars, issued, reaperVars>>

\* Room::hasPeerCapacity, the check before a peer object is made.
CheckCapacity(s) ==
    /\ pc[s] = "capacity"
    /\ Goto(s, IF HasCapacity(Cardinality(members[room[s]]), PeersPerRoom)
               THEN "add" ELSE "reject")
    /\ UNCHANGED <<clock, helloVars, peer, room, listener, invalid, lobbyVars, peerVars,
                   roomVars, issued, reaperVars>>

\* Peer's constructor binds the socket as generation one; Room::addPeer checks
\* the capacity again under the lock.  The id is spent even when it refuses.
EnterRoom(s) ==
    /\ HasCapacity(Cardinality(members[room[s]]), PeersPerRoom)
    /\ peer' = [peer EXCEPT ![s] = nextPeer]
    /\ home' = [home EXCEPT ![nextPeer] = room[s]]
    /\ socket' = [socket EXCEPT ![nextPeer] = s]
    /\ generation' = [generation EXCEPT ![nextPeer] = 1]
    /\ members' = [members EXCEPT ![room[s]] = @ \cup {nextPeer}]
    /\ Goto(s, "emplace")

RefusePeer(s) ==
    /\ ~HasCapacity(Cardinality(members[room[s]]), PeersPerRoom)
    /\ Goto(s, "reject")
    /\ UNCHANGED <<peer, peerVars, members>>

AddPeer(s) ==
    /\ pc[s] = "add"
    /\ nextPeer \in Peers
    /\ nextPeer' = nextPeer + 1
    /\ EnterRoom(s) \/ RefusePeer(s)
    /\ UNCHANGED <<clock, helloVars, room, listener, invalid, pending, rooms, nextRoom,
                   nameOf, sessions, lease, announced, shown, commands, issued, reaperVars>>

\* m_sessions.emplace with an empty lease.
EmplaceSession(s) ==
    /\ pc[s] = "emplace"
    /\ sessions' = sessions \cup {peer[s]}
    /\ lease' = [lease EXCEPT ![peer[s]] = NoDeadline]
    /\ Goto(s, "welcome")
    /\ UNCHANGED <<clock, helloVars, peer, room, listener, invalid, pending, rooms, nextRoom,
                   nameOf, nextPeer, peerVars, roomVars, issued, reaperVars>>

\* Room::welcomePeer publishes PEER_JOINED.
WelcomePeer(s) ==
    /\ pc[s] = "welcome"
    /\ announced' = [announced EXCEPT ![peer[s]] = "joined"]
    /\ shown' = shown \cup {peer[s]}  \* a joiner is online
    /\ Goto(s, "listen")
    /\ UNCHANGED <<clock, helloVars, peer, room, listener, invalid, lobbyVars, peerVars,
                   members, commands, issued, reaperVars>>

-----------------------------------------------------------------------------
(* Serving the transport *)

SetListener(s) ==
    /\ pc[s] = "listen"
    /\ listener' = [listener EXCEPT ![s] = peer[s]]
    /\ Goto(s, "ready")
    /\ UNCHANGED <<clock, helloVars, peer, room, invalid, lobbyVars, peerVars, roomVars,
                   issued, reaperVars>>

\* SESSION_READY carries the token.  Peer::sendMessageAsync queues it for the
\* socket the peer is bound to, and drops it when there is none.
SendReady(s) ==
    /\ pc[s] = "ready"
    /\ issued' = IF socket[peer[s]] # NoSocket THEN issued \cup {peer[s]} ELSE issued
    /\ Goto(s, IF token[s] = NoPeer THEN "open" ELSE "announce")
    /\ UNCHANGED <<clock, helloVars, peer, room, listener, invalid, lobbyVars, peerVars,
                   roomVars, reaperVars>>

\* Room::publishConnectionState(peer, true), after a resume only.
PublishResumed(s) ==
    /\ pc[s] = "announce"
    /\ shown' = shown \cup {peer[s]}
    /\ Goto(s, "open")
    /\ UNCHANGED <<clock, helloVars, peer, room, listener, invalid, lobbyVars, peerVars,
                   members, announced, commands, issued, reaperVars>>

\* Peer::readMessage with a command: it holds the transport lock from the
\* check of the binding to the end of the dispatch.
Command(s) ==
    LET p == listener[s]
    IN  /\ pc[s] = "open"
        /\ socket[p] = s
        /\ commands[p] < MaxCommands
        /\ commands' = [commands EXCEPT ![p] = @ + 1]
        /\ UNCHANGED <<clock, transportVars, lobbyVars, peerVars, members, announced,
                       shown, issued, reaperVars>>

-----------------------------------------------------------------------------
(* The end of a transport *)

\* The coroutine of the socket ends: the peer closed, the network failed, the
\* connection was invalidated or the hello was refused.  Then the first part
\* of Lobby::onBeforeDestroy_NonBlocking drops its pending record.
Destroy(s) ==
    /\ pc[s] \in {"pending", "reject", "open"}
    /\ pending' = [pending EXCEPT ![s] = NoDeadline]
    /\ Goto(s, "detach")
    /\ UNCHANGED <<clock, helloVars, peer, room, listener, invalid, rooms, nextRoom, nameOf,
                   nextPeer, sessions, lease, peerVars, roomVars, issued, reaperVars>>

\* The locals of a transport that has ended.
Forget(s) ==
    /\ urlRoom' = [urlRoom EXCEPT ![s] = AnyName]
    /\ token' = [token EXCEPT ![s] = NoPeer]
    /\ now' = [now EXCEPT ![s] = 0]
    /\ peer' = [peer EXCEPT ![s] = NoPeer]
    /\ room' = [room EXCEPT ![s] = NoRoom]
    /\ listener' = [listener EXCEPT ![s] = NoPeer]
    /\ invalid' = invalid \ {s}
    /\ Goto(s, "gone")

\* Peer::detachIfCurrent, the first half of Lobby::detachSessionTransport.
DetachIfCurrent(s) ==
    LET p == listener[s]
    IN  /\ pc[s] = "detach"
        /\ \/ /\ IsCurrent(p, s)
              /\ socket' = [socket EXCEPT ![p] = NoSocket]
              /\ Goto(s, "lease")
              /\ UNCHANGED <<helloVars, peer, room, listener, invalid>>
           \/ /\ ~IsCurrent(p, s)
              /\ Forget(s)
              /\ UNCHANGED socket
        /\ UNCHANGED <<clock, lobbyVars, home, generation, roomVars, issued, reaperVars>>

\* SessionLease::detach under the registry lock starts the grace period.
DetachLease(s) ==
    LET p == listener[s]
    IN  /\ pc[s] = "lease"
        /\ \/ /\ p \in sessions
              /\ lease' = [lease EXCEPT ![p] = DetachedLease(clock)]
              /\ Goto(s, "publish")
              /\ UNCHANGED <<helloVars, peer, room, listener, invalid>>
           \/ /\ p \notin sessions
              /\ Forget(s)
              /\ UNCHANGED lease
        /\ UNCHANGED <<clock, pending, rooms, nextRoom, nameOf, nextPeer, sessions,
                       peerVars, roomVars, issued, reaperVars>>

\* Room::publishConnectionState(peer, false), after the registry lock.
PublishWrongState(s) ==
    /\ pc[s] = "publish"
    /\ shown' = shown \cup {listener[s]}
    /\ Forget(s)
    /\ UNCHANGED <<clock, lobbyVars, peerVars, members, announced, commands, issued,
                   reaperVars>>

PublishDetached(s) ==
    /\ pc[s] = "publish"
    /\ shown' = shown \ {listener[s]}
    /\ Forget(s)
    /\ UNCHANGED <<clock, lobbyVars, peerVars, members, announced, commands, issued,
                   reaperVars>>

-----------------------------------------------------------------------------
(* Lobby::expireSessions *)

\* The runner calls expireSessions, whose argument is the clock's reading.
StartExpiry ==
    /\ reaper = "idle"
    /\ reaper' = "collect"
    /\ reaperNow' = clock
    /\ UNCHANGED <<clock, transportVars, lobbyVars, peerVars, roomVars, issued, batch, victim>>

\* m_sessions.erase and the invalidation of lapsed pending transports.
KeptSessions(gone) == sessions
RemainingSessions(gone) == sessions \ gone
NotInvalidated(lapsed) == invalid
Invalidated(lapsed) == invalid \cup lapsed

\* Under the registry lock: lapsed pending records and sessions are erased.
\* The pending transports are invalidated once the lock is released.
CollectExpired ==
    LET lapsed == {s \in Sockets : pending[s] # NoDeadline /\ reaperNow >= pending[s]}
        gone == {p \in sessions : Expires(p, reaperNow)}
    IN  /\ reaper = "collect"
        /\ pending' = [s \in Sockets |-> IF s \in lapsed THEN NoDeadline ELSE pending[s]]
        /\ invalid' = Invalidated(lapsed)
        /\ sessions' = RemainingSessions(gone)
        /\ batch' = gone
        /\ reaper' = IF gone = {} THEN "idle" ELSE "remove"
        /\ reaperNow' = 0
        /\ UNCHANGED <<clock, pc, helloVars, peer, room, listener, rooms, nextRoom, nameOf,
                       nextPeer, lease, peerVars, roomVars, issued, victim>>

\* Room::removePeerById of the next expired session.
RemoveSilently(p) ==
    /\ reaper = "remove"
    /\ p \in batch
    /\ members' = [members EXCEPT ![home[p]] = @ \ {p}]
    /\ victim' = p
    /\ batch' = batch \ {p}
    /\ reaper' = "delete"
    /\ UNCHANGED <<clock, transportVars, lobbyVars, peerVars, announced, shown, commands,
                   issued, reaperNow>>

RemovePeer(p) ==
    /\ reaper = "remove"
    /\ p \in batch
    /\ members' = [members EXCEPT ![home[p]] = @ \ {p}]
    /\ victim' = p
    /\ batch' = batch \ {p}
    /\ reaper' = "goodbye"
    /\ UNCHANGED <<clock, transportVars, lobbyVars, peerVars, announced, shown, commands,
                   issued, reaperNow>>

\* Room::goodbyePeer publishes PEER_LEFT.
GoodbyePeer ==
    /\ reaper = "goodbye"
    /\ announced' = [announced EXCEPT ![victim] = "left"]
    /\ reaper' = "delete"
    /\ UNCHANGED <<clock, transportVars, lobbyVars, peerVars, members, shown, commands,
                   issued, reaperNow, batch, victim>>

\* Lobby::deleteRoomIfEmpty: only the registered object, and only when empty.
DeleteRoomIfEmpty ==
    LET r == home[victim]
        n == nameOf[r]
    IN  /\ reaper = "delete"
        /\ rooms' = [rooms EXCEPT ![n] = IF @ = r /\ IsEmpty(r) THEN NoRoom ELSE @]
        /\ victim' = NoPeer
        /\ reaper' = IF batch = {} THEN "idle" ELSE "remove"
        /\ UNCHANGED <<clock, transportVars, pending, nextRoom, nameOf, nextPeer, sessions,
                       lease, peerVars, roomVars, issued, reaperNow, batch>>

Tick ==
    /\ clock < MaxTime
    /\ clock' = clock + 1
    /\ UNCHANGED <<transportVars, lobbyVars, peerVars, roomVars, issued, reaperVars>>

-----------------------------------------------------------------------------
\* What the executor runs to completion once it has begun.
Handler(s) ==
    \/ ClaimPending(s) \/ ResumeLease(s) \/ RefuseResume(s) \/ ReplaceSocket(s)
    \/ GetOrCreateRoom(s) \/ CheckCapacity(s) \/ AddPeer(s) \/ EmplaceSession(s)
    \/ WelcomePeer(s) \/ SetListener(s) \/ SendReady(s) \/ PublishResumed(s)
    \/ DetachIfCurrent(s) \/ DetachLease(s) \/ PublishDetached(s)

Reaper ==
    \/ StartExpiry \/ CollectExpired \/ (\E p \in Peers : RemovePeer(p))
    \/ GoodbyePeer \/ DeleteRoomIfEmpty

Next ==
    \/ \E s \in Sockets :
          \/ \E n \in RoomNames : Connect(s, n)
          \/ \E t \in Peers \cup {NoPeer} : ReceiveHello(s, t)
          \/ ReceiveMalformed(s)
          \/ ReceiveOversized(s)
          \/ Command(s)
          \/ Destroy(s)
          \/ Handler(s)
    \/ Reaper
    \/ Tick

\* A handler that has begun goes on, a transport that was invalidated or
\* refused is destroyed, and the clock and the runner's thread never stop.
\* Nothing makes a browser connect, speak or leave.
Fairness ==
    /\ \A s \in Sockets : WF_vars(Handler(s))
    /\ \A s \in Sockets : WF_vars((s \in invalid \/ pc[s] = "reject") /\ Destroy(s))
    /\ WF_vars(Reaper)
    /\ WF_vars(Tick)

Spec == Init /\ [][Next]_vars
FairSpec == Spec /\ Fairness

-----------------------------------------------------------------------------
(* Correctness *)

\* Where a transport answers for its peer: from the moment the peer or its
\* lease is taken until the lease is set.  Bound is the part in between in
\* which the peer's socket is this transport.
BoundSteps == {"emplace", "welcome", "listen", "ready", "announce", "open", "detach"}
OwnerSteps == BoundSteps \cup {"replace", "lease"}

Owns(s, p) == peer[s] = p /\ pc[s] \in OwnerSteps
IsBound(s, p) == peer[s] = p /\ pc[s] \in BoundSteps

\* Two transports never answer for one peer, however many present its token:
\* acceptSessionHello hands a lease to one of them and detachSessionTransport
\* sets the lease only after it has unbound the peer.
SingleOwner ==
    \A s, t \in Sockets : \A p \in Peers : Owns(s, p) /\ Owns(t, p) => s = t

\* A registered session has a deadline exactly when no transport answers for
\* it.  A session with neither would never expire: its peer, its files and
\* its room would stay for the life of the process.
LeaseOrOwner ==
    \A p \in sessions : lease[p] # NoDeadline <=> ~\E s \in Sockets : Owns(s, p)

\* A peer's socket is the transport that owns it and is being served, and
\* nothing once that transport is gone.  Hence the socket that replaceSocket
\* displaces is always null.
BindingIsOwner ==
    \A p \in Peers : \A s \in Sockets : socket[p] = s <=> IsBound(s, p)

\* Until it expires a session's peer can be found in its room, the room has
\* its name, and the room has not been told that it left.
SessionIsMember ==
    \A p \in sessions :
        /\ home[p] \in RoomIds /\ p \in members[home[p]]
        /\ announced[p] # "left"

\* Room::addPeer keeps the room within its limit although the check of
\* hasPeerCapacity is stale by then, and getOrCreateRoom keeps the lobby
\* within its own.
WithinLimits ==
    /\ Cardinality(RegisteredRooms) <= RoomLimit
    /\ \A r \in RoomIds : Cardinality(members[r]) <= PeersPerRoom

\* An empty registered room is not forgotten: a joiner is about to enter it or
\* the reaper is about to delete it.
EmptyRoomIsAttended ==
    \A n \in RoomNames : rooms[n] # NoRoom /\ members[rooms[n]] = {} =>
        \/ \E s \in Sockets : room[s] = rooms[n] /\ pc[s] \in {"capacity", "add"}
        \/ \E p \in batch \cup {victim} : p # NoPeer /\ home[p] = rooms[n]

\* When the transports are at rest, a detached peer is not shown as connected:
\* the PEER_CONNECTION_STATE broadcasts, which hold no lock, cannot leave it so.
DetachedIsShown ==
    \A p \in sessions :
        lease[p] # NoDeadline /\ (\A s \in Sockets : listener[s] # p) => p \notin shown

\* Commands reach the room between the peer's PEER_JOINED and PEER_LEFT.
CommandsWhileJoined ==
    [][\A p \in Peers : commands'[p] # commands[p] =>
          announced[p] = "joined" /\ p \in members[home[p]]]_vars

\* Expiry is final and happens once: a peer that has been erased from the
\* registry is never bound, resumed or registered again.
Erased(p) == p \in issued /\ p \notin sessions
ExpiryIsFinal ==
    [][\A p \in Peers : Erased(p) => p \notin sessions' /\ socket'[p] = NoSocket]_vars

\* Each deadline within the modelled time comes to an end: the session is
\* resumed, or its peer leaves the room, which is told so.
GraceEnds ==
    \A p \in Peers : \A d \in 1 .. MaxTime :
        (p \in sessions /\ lease[p] = d) ~>
            \/ p \in sessions /\ lease[p] # d
            \/ announced[p] = "left" /\ p \notin members[home[p]]

\* A transport that never says hello does not linger.
SilenceEnds ==
    \A s \in Sockets : (pending[s] \in 1 .. MaxTime) ~> (pc[s] # "pending")

-----------------------------------------------------------------------------
(* What the repository says and the code does not do *)

\* Lobby.hpp: runPingIteration pings "every current room".  It walks m_rooms,
\* so it reaches a connected participant only if the room of that participant
\* is the registered one.
CurrentRoomsAreRegistered ==
    \A p \in sessions : rooms[nameOf[home[p]]] = home[p]

\* README and MAINTENANCE: within the grace period a valid resume keeps the
\* peer's identity.  The token of a registered session whose deadline has not
\* come, presented for its room, is then not refused.
ValidToken(s) ==
    LET p == token[s]
    IN  /\ p \in sessions
        /\ nameOf[home[p]] = urlRoom[s]
        /\ ~Expires(p, now[s])
ValidResumeIsServed ==
    [][\A s \in Sockets : pc[s] = "resume" /\ pc'[s] = "reject" => ~ValidToken(s)]_vars
=============================================================================
