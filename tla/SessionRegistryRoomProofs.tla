---------------------- MODULE SessionRegistryRoomProofs ----------------------
(***************************************************************************)
(* Proofs about the rooms of SessionRegistry and about what they are told  *)
(* of their peers: no limit is passed, no empty room is forgotten, and no  *)
(* detached peer is left shown as connected.                               *)
(*                                                                         *)
(* They rest on the invariant of SessionRegistryProofs, which says who     *)
(* answers for a peer.  What is added is how the reaper and the joiners    *)
(* hand over the duty for an empty room, and that whoever sets a lease has *)
(* the broadcast still to make.                                            *)
(***************************************************************************)
EXTENDS SessionRegistryProofs, FiniteSetTheorems

\* The reaper has its batch, and its current session, only while it walks them.
ReaperPhase ==
    /\ reaper \in {"idle", "collect"} => batch = {}
    /\ reaper \notin {"goodbye", "delete"} => victim = NoPeer

\* A registered room has the name it is registered under.
RoomsAreNamed ==
    \A n \in RoomNames :
        rooms[n] # NoRoom => rooms[n] < nextRoom /\ nameOf[rooms[n]] = n

\* RegisteredRooms and the members of a room have a size at all.
SizesAreFinite == IsFiniteSet(RegisteredRooms)

\* A detached peer that is shown as connected has its broadcast still to come.
ShownIsPublished ==
    \A p \in sessions : lease[p] # NoDeadline /\ p \in shown =>
        \E s \in Sockets : listener[s] = p /\ pc[s] = "publish"

RInv ==
    /\ ReaperPhase
    /\ RoomsAreNamed
    /\ SizesAreFinite
    /\ WithinLimits
    /\ EmptyRoomIsAttended
    /\ ShownIsPublished

-----------------------------------------------------------------------------
(* The transports *)

\* A step of a transport that leaves the rooms and their members alone.  It may
\* give up the duty for a room only when somebody is in there, and may set a
\* lease only when it has the broadcast before it.
LEMMA MoveStep ==
    ASSUME IInv, RInv, NEW s \in Sockets, NEW q \in Steps, Goto(s, q),
           UNCHANGED <<rooms, nextRoom, nameOf, members, home, reaper, batch, victim>>,
           \A t \in Sockets \ {s} : room'[t] = room[t] /\ listener'[t] = listener[t],
           pc[s] \in {"capacity", "add"} =>
               (q \in {"capacity", "add"} /\ room'[s] = room[s]) \/ members[room[s]] # {},
           \A p \in sessions' : lease'[p] # NoDeadline /\ p \in shown' =>
               \/ /\ p \in sessions /\ lease[p] # NoDeadline /\ p \in shown
                  /\ pc[s] = "publish" => listener[s] # p
               \/ q = "publish" /\ listener'[s] = p
    PROVE  RInv'
  <1>1. pc'[s] = q /\ \A t \in Sockets \ {s} : pc'[t] = pc[t]
    BY DEF Goto, IInv, TypeOK
  <1>2. ReaperPhase' /\ RoomsAreNamed' /\ SizesAreFinite' /\ WithinLimits'
    BY Zenon DEF RInv, ReaperPhase, RoomsAreNamed, SizesAreFinite, WithinLimits, RegisteredRooms
  <1>3. EmptyRoomIsAttended'
    <2> SUFFICES ASSUME NEW n \in RoomNames, rooms[n] # NoRoom, members[rooms[n]] = {}
                 PROVE  \/ \E t \in Sockets : room'[t] = rooms[n] /\ pc'[t] \in {"capacity", "add"}
                        \/ \E p \in batch \cup {victim} : p # NoPeer /\ home[p] = rooms[n]
      BY Zenon DEF EmptyRoomIsAttended
    <2>1. CASE \E p \in batch \cup {victim} : p # NoPeer /\ home[p] = rooms[n]
      BY Zenon, <2>1
    <2>2. ASSUME NEW t \in Sockets, room[t] = rooms[n], pc[t] \in {"capacity", "add"}
          PROVE  room'[t] = rooms[n] /\ pc'[t] \in {"capacity", "add"}
      <3>1. CASE t = s
        BY Zenon, <1>1, <2>2, <3>1
      <3>2. CASE t # s
        BY Zenon, <1>1, <2>2, <3>2
      <3> QED BY <3>1, <3>2
    <2> QED BY Zenon, <2>1, <2>2 DEF RInv, EmptyRoomIsAttended
  <1>4. ShownIsPublished'
    <2> SUFFICES ASSUME NEW p \in sessions', lease'[p] # NoDeadline, p \in shown'
                 PROVE  \E t \in Sockets : listener'[t] = p /\ pc'[t] = "publish"
      BY Zenon DEF ShownIsPublished
    <2>1. CASE q = "publish" /\ listener'[s] = p
      BY Zenon, <1>1, <2>1
    <2>2. CASE /\ p \in sessions /\ lease[p] # NoDeadline /\ p \in shown
               /\ pc[s] = "publish" => listener[s] # p
      <3>1. PICK t \in Sockets : listener[t] = p /\ pc[t] = "publish"
        BY Zenon, <2>2 DEF RInv, ShownIsPublished
      <3>2. t # s
        BY <2>2, <3>1
      <3> QED BY Zenon, <1>1, <3>1, <3>2
    <2> QED BY <2>1, <2>2
  <1> QED BY <1>2, <1>3, <1>4 DEF RInv

\* The steps of a transport before its hello, of a resume, and of a command.
LEMMA HelloRooms ==
    ASSUME IInv, RInv, NEW s \in Sockets,
           \/ \E n \in RoomNames : Connect(s, n)
           \/ \E t \in Peers \cup {NoPeer} : ReceiveHello(s, t)
           \/ ReceiveMalformed(s) \/ ReceiveOversized(s) \/ ClaimPending(s)
           \/ RefuseResume(s) \/ Destroy(s)
    PROVE  RInv'
  <1>1. /\ UNCHANGED <<rooms, nextRoom, nameOf, members, home, reaper, batch, victim, room,
                       listener, sessions, lease, shown>>
        /\ pc[s] \in {"none", "pending", "claim", "resume", "reject", "open"}
    BY DEF Connect, ReceiveHello, ReceiveMalformed, ReceiveOversized, ClaimPending, RefuseResume,
           Destroy, lobbyVars, peerVars, roomVars, reaperVars
  <1>2. PICK q \in Steps : Goto(s, q)
    <2>1. /\ "pending" \in Steps /\ "claim" \in Steps /\ "reject" \in Steps
          /\ "resume" \in Steps /\ "room" \in Steps /\ "detach" \in Steps
      BY DEF Steps
    <2> DEFINE q == CASE ~PendingLive(s) -> "reject"
                      [] PendingLive(s) /\ token[s] # NoPeer -> "resume"
                      [] OTHER -> "room"
    <2>2. q \in Steps
      BY <2>1
    <2>3. ClaimPending(s) => Goto(s, q)
      BY DEF ClaimPending
    <2> HIDE DEF q
    <2> QED BY <2>1, <2>2, <2>3
            DEF Connect, ReceiveHello, ReceiveMalformed, ReceiveOversized, RefuseResume, Destroy
  <1> QED BY <1>1, <1>2, MoveStep

\* A resume takes its peer's deadline away, so that the broadcasts of the
\* earlier transport do not matter until the next one sets it.
LEMMA ServeRooms ==
    ASSUME IInv, RInv, NEW s \in Sockets,
           \/ ResumeLease(s) \/ ReplaceSocket(s) \/ EmplaceSession(s) \/ WelcomePeer(s)
           \/ SetListener(s) \/ SendReady(s) \/ PublishResumed(s)
    PROVE  RInv'
  <1>0. TypeOK /\ LocalsAgree
    BY DEF IInv
  <1>1. /\ UNCHANGED <<rooms, nextRoom, nameOf, members, home, reaper, batch, victim, room>>
        /\ pc[s] \in {"resume", "replace", "emplace", "welcome", "listen", "ready", "announce"}
    BY DEF ResumeLease, ReplaceSocket, EmplaceSession, WelcomePeer, SetListener, SendReady,
           PublishResumed, lobbyVars, peerVars, roomVars, reaperVars
  <1>2. PICK q \in Steps : Goto(s, q)
    BY DEF ResumeLease, ReplaceSocket, EmplaceSession, WelcomePeer, SetListener, SendReady,
           PublishResumed, Steps
  <1>3. \A t \in Sockets \ {s} : listener'[t] = listener[t]
    BY <1>0 DEF ResumeLease, ReplaceSocket, EmplaceSession, WelcomePeer, SetListener, SendReady,
                PublishResumed, TypeOK
  <1>4. ASSUME NEW p \in sessions', lease'[p] # NoDeadline, p \in shown'
        PROVE  p \in sessions /\ lease[p] # NoDeadline /\ p \in shown
    <2>1. CASE ResumeLease(s)
      <3>1. /\ UNCHANGED <<sessions, shown>> /\ p \in Peers
            /\ lease' = [lease EXCEPT ![token[s]] = NoDeadline]
        BY <1>0, <1>4, <2>1 DEF ResumeLease, roomVars, TypeOK, ResumedLease
      <3> QED BY <1>0, <1>4, <3>1 DEF TypeOK
    <2>2. CASE EmplaceSession(s)
      <3>1. /\ sessions' = sessions \cup {peer[s]} /\ UNCHANGED shown
            /\ lease' = [lease EXCEPT ![peer[s]] = NoDeadline] /\ peer[s] \in Peers
        BY <1>0, <2>2 DEF EmplaceSession, roomVars, LocalsAgree, PeerlessSteps
      <3> QED BY <1>0, <1>4, <3>1 DEF TypeOK
    <2>3. CASE WelcomePeer(s) \/ PublishResumed(s)
      <3>1. /\ UNCHANGED <<sessions, lease>> /\ shown' = shown \cup {peer[s]}
            /\ pc[s] \in {"welcome", "announce"}
        BY <2>3 DEF WelcomePeer, PublishResumed, lobbyVars
      <3>2. peer[s] \in Peers /\ Owns(s, peer[s])
        BY <1>0, <3>1 DEF LocalsAgree, PeerlessSteps, Owns, OwnerSteps, BoundSteps
      <3>3. peer[s] \in sessions => lease[peer[s]] = NoDeadline
        BY <3>2 DEF IInv, LeaseOrOwner
      <3> QED BY <1>4, <3>1, <3>3
    <2>4. CASE ReplaceSocket(s) \/ SetListener(s) \/ SendReady(s)
      BY <1>4, <2>4 DEF ReplaceSocket, SetListener, SendReady, lobbyVars, roomVars
    <2> QED BY <2>1, <2>2, <2>3, <2>4
  <1> QED BY <1>1, <1>2, <1>3, <1>4, MoveStep

\* The end of a transport: it sets the lease with its broadcast before it, and
\* the broadcast says that the peer is gone.
LEMMA DetachRooms ==
    ASSUME IInv, RInv, NEW s \in Sockets,
           DetachIfCurrent(s) \/ DetachLease(s) \/ PublishDetached(s)
    PROVE  RInv'
  <1>0. TypeOK /\ LocalsAgree
    BY DEF IInv
  <1>1. /\ UNCHANGED <<rooms, nextRoom, nameOf, members, home, reaper, batch, victim, sessions>>
        /\ pc[s] \in {"detach", "lease", "publish"}
    BY DEF DetachIfCurrent, DetachLease, PublishDetached, lobbyVars, peerVars, roomVars,
           reaperVars
  <1>2. \A t \in Sockets \ {s} : room'[t] = room[t] /\ listener'[t] = listener[t]
    BY <1>0 DEF DetachIfCurrent, DetachLease, PublishDetached, Forget, TypeOK
  <1>3. PICK q \in Steps :
            /\ Goto(s, q)
            /\ DetachLease(s) /\ listener[s] \in sessions =>
                   q = "publish" /\ listener'[s] = listener[s]
    BY DEF DetachIfCurrent, DetachLease, PublishDetached, Forget, Steps
  <1>4. ASSUME NEW p \in sessions', lease'[p] # NoDeadline, p \in shown'
        PROVE  \/ /\ p \in sessions /\ lease[p] # NoDeadline /\ p \in shown
                  /\ pc[s] = "publish" => listener[s] # p
               \/ q = "publish" /\ listener'[s] = p
    <2>1. CASE DetachIfCurrent(s)
      BY <1>4, <2>1 DEF DetachIfCurrent, lobbyVars, roomVars
    <2>2. CASE DetachLease(s)
      <3>1. UNCHANGED shown /\ pc[s] = "lease"
        BY <2>2 DEF DetachLease, roomVars
      <3>2. CASE p = listener[s]
        BY <1>1, <1>3, <1>4, <2>2, <3>2
      <3>3. CASE p # listener[s]
        <4>1. lease'[p] = lease[p]
          BY <1>0, <1>1, <1>4, <2>2, <3>3 DEF DetachLease, TypeOK
        <4> QED BY <1>1, <1>4, <3>1, <4>1
      <3> QED BY <3>2, <3>3
    <2>3. CASE PublishDetached(s)
      BY <1>4, <2>3 DEF PublishDetached, lobbyVars
    <2> QED BY <2>1, <2>2, <2>3
  <1> QED BY <1>1, <1>2, <1>3, <1>4, MoveStep

-----------------------------------------------------------------------------
(* A fresh session *)

\* The members of a room are finitely many, and none where there is room for all.
LEMMA RoomSize ==
    ASSUME TypeOK, NEW r \in RoomIds
    PROVE  /\ IsFiniteSet(members[r]) /\ Cardinality(members[r]) \in Nat
           /\ members[r] = {} => HasCapacity(Cardinality(members[r]), PeersPerRoom)
  <1>1. IsFiniteSet(Peers)
    BY RegistryAssumption, FS_Interval DEF Peers
  <1>2. members[r] \subseteq Peers
    BY DEF TypeOK
  <1>3. IsFiniteSet(members[r]) /\ Cardinality(members[r]) \in Nat
    BY <1>1, <1>2, FS_Subset, FS_CardinalityType
  <1>4. members[r] = {} => Cardinality(members[r]) = 0
    BY FS_EmptySet
  <1> QED BY <1>3, <1>4, RegistryAssumption DEF HasCapacity

\* A room that is new, or about to be, does not change who is in the others.
LEMMA CreateRooms ==
    ASSUME IInv, RInv, NEW s \in Sockets, GetOrCreateRoom(s), CreateRoom(s)
    PROVE  RInv'
  <1>0. /\ UNCHANGED <<members, home, reaper, batch, victim, listener, sessions, lease, shown>>
        /\ pc[s] = "room"
    BY DEF GetOrCreateRoom, peerVars, roomVars, reaperVars
  <1>1. PICK n \in RoomNames : n = urlRoom[s]
    BY DEF IInv, TypeOK
  <1>2. /\ rooms[n] = NoRoom /\ nextRoom \in RoomIds
        /\ rooms' = [rooms EXCEPT ![n] = nextRoom]
        /\ nameOf' = [nameOf EXCEPT ![nextRoom] = n]
        /\ nextRoom' = nextRoom + 1
        /\ room' = [room EXCEPT ![s] = nextRoom]
        /\ pc' = [pc EXCEPT ![s] = "capacity"]
        /\ HasCapacity(Cardinality(RegisteredRooms), RoomLimit)
    BY <1>1 DEF CreateRoom, Goto
  <1>3. TypeOK
    BY DEF IInv
  <1>4. /\ rooms'[n] = nextRoom /\ \A m \in RoomNames \ {n} : rooms'[m] = rooms[m]
        /\ nameOf'[nextRoom] = n /\ \A r \in RoomIds \ {nextRoom} : nameOf'[r] = nameOf[r]
        /\ room'[s] = nextRoom /\ \A t \in Sockets \ {s} : room'[t] = room[t]
        /\ pc'[s] = "capacity" /\ \A t \in Sockets \ {s} : pc'[t] = pc[t]
    BY <1>2, <1>3 DEF TypeOK
  <1>5. ReaperPhase'
    BY Zenon, <1>0 DEF RInv, ReaperPhase
  <1>6. RoomsAreNamed'
    <2> SUFFICES ASSUME NEW m \in RoomNames, rooms'[m] # NoRoom
                 PROVE  rooms'[m] < nextRoom' /\ nameOf'[rooms'[m]] = m
      BY Zenon DEF RoomsAreNamed
    <2>1. CASE m = n
      BY <1>2, <1>4, <2>1 DEF RoomIds
    <2>2. CASE m # n
      <3>1. rooms'[m] = rooms[m] /\ rooms[m] \in RoomIds /\ nextRoom \in RoomIds
        BY <1>2, <1>3, <1>4, <2>2 DEF TypeOK
      <3>2. rooms[m] < nextRoom /\ nameOf[rooms[m]] = m
        BY <3>1 DEF RInv, RoomsAreNamed
      <3> QED BY <1>2, <1>4, <3>1, <3>2 DEF RoomIds
    <2> QED BY <2>1, <2>2
  <1>7. RegisteredRooms' = RegisteredRooms \cup {n} /\ n \notin RegisteredRooms
    BY <1>2, <1>4 DEF RegisteredRooms, RoomIds, NoRoom
  <1>8. /\ IsFiniteSet(RegisteredRooms')
        /\ Cardinality(RegisteredRooms') = Cardinality(RegisteredRooms) + 1
        /\ Cardinality(RegisteredRooms) \in Nat
    BY <1>7, FS_AddElement, FS_CardinalityType DEF RInv, SizesAreFinite
  <1>9. SizesAreFinite' /\ WithinLimits'
    <2>1. Cardinality(RegisteredRooms') <= RoomLimit
      BY <1>2, <1>8, RegistryAssumption DEF HasCapacity
    <2>2. \A r \in RoomIds : Cardinality(members'[r]) <= PeersPerRoom
      BY Zenon, <1>0 DEF RInv, WithinLimits
    <2> QED BY Zenon, <1>8, <2>1, <2>2 DEF SizesAreFinite, WithinLimits
  <1>10. EmptyRoomIsAttended'
    <2> SUFFICES ASSUME NEW m \in RoomNames, rooms'[m] # NoRoom, members'[rooms'[m]] = {}
                 PROVE  \/ \E t \in Sockets :
                               room'[t] = rooms'[m] /\ pc'[t] \in {"capacity", "add"}
                        \/ \E p \in batch' \cup {victim'} : p # NoPeer /\ home'[p] = rooms'[m]
      BY Zenon DEF EmptyRoomIsAttended
    <2>1. CASE m = n
      BY Zenon, <1>4, <2>1
    <2>2. CASE m # n
      <3>1. rooms'[m] = rooms[m]
        BY <1>4, <2>2
      <3>2. CASE \E p \in batch \cup {victim} : p # NoPeer /\ home[p] = rooms[m]
        BY Zenon, <1>0, <3>1, <3>2
      <3>3. ASSUME NEW t \in Sockets, room[t] = rooms[m], pc[t] \in {"capacity", "add"}
            PROVE  room'[t] = rooms'[m] /\ pc'[t] \in {"capacity", "add"}
        <4>1. t # s
          BY <1>0, <3>3
        <4> QED BY Zenon, <1>4, <3>1, <3>3, <4>1
      <3> QED BY Zenon, <1>0, <3>1, <3>2, <3>3 DEF RInv, EmptyRoomIsAttended
    <2> QED BY <2>1, <2>2
  <1>11. ShownIsPublished'
    <2> SUFFICES ASSUME NEW p \in sessions, lease[p] # NoDeadline, p \in shown
                 PROVE  \E t \in Sockets : listener[t] = p /\ pc'[t] = "publish"
      BY Zenon, <1>0 DEF ShownIsPublished
    <2>1. PICK t \in Sockets : listener[t] = p /\ pc[t] = "publish"
      BY Zenon DEF RInv, ShownIsPublished
    <2>2. t # s
      BY <1>0, <2>1
    <2> QED BY Zenon, <1>4, <2>1, <2>2
  <1> QED BY <1>5, <1>6, <1>9, <1>10, <1>11 DEF RInv

\* Room::addPeer: somebody is in the room now, and it had a place for him.
LEMMA EnterRooms ==
    ASSUME IInv, RInv, NEW s \in Sockets, AddPeer(s), EnterRoom(s)
    PROVE  RInv'
  <1>0. /\ UNCHANGED <<rooms, nextRoom, nameOf, reaper, batch, victim, listener, sessions, lease,
                       shown, room>>
        /\ pc[s] = "add" /\ nextPeer \in Peers
    BY DEF AddPeer, reaperVars
  <1>1. TypeOK
    BY DEF IInv
  <1>2. PICK r \in RoomIds : r = room[s]
    BY <1>0 DEF IInv, LocalsAgree
  <1>3. /\ home' = [home EXCEPT ![nextPeer] = r]
        /\ members' = [members EXCEPT ![r] = @ \cup {nextPeer}]
        /\ pc' = [pc EXCEPT ![s] = "emplace"]
        /\ HasCapacity(Cardinality(members[r]), PeersPerRoom)
    BY <1>2 DEF EnterRoom, Goto
  <1>4. /\ \A p \in Peers \ {nextPeer} : home'[p] = home[p]
        /\ members'[r] = members[r] \cup {nextPeer}
        /\ \A q \in RoomIds \ {r} : members'[q] = members[q]
        /\ pc'[s] = "emplace" /\ \A t \in Sockets \ {s} : pc'[t] = pc[t]
    BY <1>0, <1>1, <1>3 DEF TypeOK
  <1>5. ReaperPhase' /\ RoomsAreNamed' /\ SizesAreFinite'
    BY Zenon, <1>0 DEF RInv, ReaperPhase, RoomsAreNamed, SizesAreFinite, RegisteredRooms
  <1>6. WithinLimits'
    <2>1. Cardinality(members'[r]) <= PeersPerRoom
      <3>1. IsFiniteSet(members[r]) /\ Cardinality(members[r]) \in Nat
        BY <1>1, RoomSize
      <3>2. Cardinality(members'[r]) \in {Cardinality(members[r]), Cardinality(members[r]) + 1}
        BY <1>4, <3>1, FS_AddElement
      <3> QED BY <1>3, <3>1, <3>2, RegistryAssumption DEF HasCapacity
    <2>2. \A q \in RoomIds \ {r} : Cardinality(members'[q]) <= PeersPerRoom
      BY Zenon, <1>4 DEF RInv, WithinLimits
    <2>3. Cardinality(RegisteredRooms') <= RoomLimit
      BY Zenon, <1>0 DEF RInv, WithinLimits, RegisteredRooms
    <2> QED BY Zenon, <2>1, <2>2, <2>3 DEF WithinLimits
  <1>7. EmptyRoomIsAttended'
    <2> SUFFICES ASSUME NEW m \in RoomNames, rooms[m] # NoRoom, members'[rooms[m]] = {}
                 PROVE  \/ \E t \in Sockets :
                               room[t] = rooms[m] /\ pc'[t] \in {"capacity", "add"}
                        \/ \E p \in batch \cup {victim} : p # NoPeer /\ home'[p] = rooms[m]
      BY Zenon, <1>0 DEF EmptyRoomIsAttended
    <2>1. rooms[m] \in RoomIds /\ rooms[m] # r
      BY <1>1, <1>4 DEF TypeOK
    <2>2. members[rooms[m]] = {}
      BY <1>4, <2>1
    <2>3. ASSUME NEW p \in batch \cup {victim}, p # NoPeer, home[p] = rooms[m]
          PROVE  home'[p] = rooms[m]
      <3>1. p \in Peers /\ p # nextPeer
        BY <1>0, <1>1, <2>3 DEF IInv, FreshPeers, TypeOK, Peers
      <3> QED BY <1>4, <2>3, <3>1
    <2>4. ASSUME NEW t \in Sockets, room[t] = rooms[m], pc[t] \in {"capacity", "add"}
          PROVE  pc'[t] \in {"capacity", "add"}
      <3>1. t # s
        BY <1>2, <2>1, <2>4
      <3> QED BY Zenon, <1>4, <2>4, <3>1
    <2> QED BY Zenon, <2>2, <2>3, <2>4 DEF RInv, EmptyRoomIsAttended
  <1>8. ShownIsPublished'
    <2> SUFFICES ASSUME NEW p \in sessions, lease[p] # NoDeadline, p \in shown
                 PROVE  \E t \in Sockets : listener[t] = p /\ pc'[t] = "publish"
      BY Zenon, <1>0 DEF ShownIsPublished
    <2>1. PICK t \in Sockets : listener[t] = p /\ pc[t] = "publish"
      BY Zenon DEF RInv, ShownIsPublished
    <2>2. t # s
      BY <1>0, <2>1
    <2> QED BY Zenon, <1>4, <2>1, <2>2
  <1> QED BY <1>5, <1>6, <1>7, <1>8 DEF RInv

\* A fresh session up to its entry: who is refused leaves a room behind that is
\* full, not one that is empty.
LEMMA FreshRooms ==
    ASSUME IInv, RInv, NEW s \in Sockets,
           GetOrCreateRoom(s) \/ CheckCapacity(s) \/ AddPeer(s)
    PROVE  RInv'
  <1>0. TypeOK
    BY DEF IInv
  <1>1. ASSUME UNCHANGED <<rooms, nextRoom, nameOf, members, home, reaper, batch, victim,
                           sessions, lease, shown, listener>>,
               pc[s] # "publish", NEW q \in Steps, Goto(s, q),
               \A t \in Sockets \ {s} : room'[t] = room[t],
               pc[s] \in {"capacity", "add"} =>
                   (q \in {"capacity", "add"} /\ room'[s] = room[s]) \/ members[room[s]] # {}
        PROVE  RInv'
    BY <1>1, MoveStep
  <1>2. CASE GetOrCreateRoom(s) /\ ~CreateRoom(s)
    <2>1. /\ UNCHANGED <<members, home, reaper, batch, victim, sessions, lease, shown, listener>>
          /\ UNCHANGED <<rooms, nextRoom, nameOf>> /\ pc[s] = "room"
          /\ \A t \in Sockets \ {s} : room'[t] = room[t]
      BY <1>0, <1>2
      DEF GetOrCreateRoom, FindRoom, RefuseRoom, peerVars, roomVars, reaperVars, TypeOK
    <2>2. PICK q \in Steps : Goto(s, q)
      BY <1>2 DEF GetOrCreateRoom, FindRoom, RefuseRoom, Steps
    <2> QED BY <1>1, <2>1, <2>2
  <1>3. CASE CheckCapacity(s)
    <2>1. /\ UNCHANGED <<rooms, nextRoom, nameOf, members, home, reaper, batch, victim,
                         sessions, lease, shown, listener, room>>
          /\ pc[s] = "capacity"
      BY <1>3 DEF CheckCapacity, lobbyVars, peerVars, roomVars, reaperVars
    <2>2. room[s] \in RoomIds
      BY <2>1 DEF IInv, LocalsAgree
    <2>3. PICK q \in {"add", "reject"} :
              Goto(s, q) /\ (q = "add" <=> HasCapacity(Cardinality(members[room[s]]), PeersPerRoom))
      BY <1>3 DEF CheckCapacity
    <2>4. q = "add" \/ members[room[s]] # {}
      BY <1>0, <2>2, <2>3, RoomSize
    <2>5. q \in Steps
      BY DEF Steps
    <2> QED BY <1>1, <2>1, <2>3, <2>4, <2>5
  <1>4. CASE AddPeer(s) /\ RefusePeer(s)
    <2>1. /\ UNCHANGED <<rooms, nextRoom, nameOf, members, home, reaper, batch, victim,
                         sessions, lease, shown, listener, room>>
          /\ pc[s] = "add" /\ Goto(s, "reject")
          /\ ~HasCapacity(Cardinality(members[room[s]]), PeersPerRoom)
      BY <1>4 DEF AddPeer, RefusePeer, peerVars, reaperVars
    <2>2. members[room[s]] # {}
      BY <1>0, <2>1, RoomSize DEF IInv, LocalsAgree
    <2>3. "reject" \in Steps
      BY DEF Steps
    <2> QED BY <1>1, <2>1, <2>2, <2>3
  <1> QED BY <1>2, <1>3, <1>4, CreateRooms, EnterRooms DEF AddPeer

-----------------------------------------------------------------------------
(* The reaper *)

\* What no transport does keeps the part about the broadcasts.
LEMMA ShownKept ==
    ASSUME RInv, UNCHANGED <<pc, listener, lease, shown>>, sessions' \subseteq sessions
    PROVE  ShownIsPublished'
  BY Zenon DEF RInv, ShownIsPublished

\* expireSessions: a room that it empties is its own business until
\* deleteRoomIfEmpty has looked at it.
LEMMA ReaperRooms ==
    ASSUME IInv, RInv, Reaper
    PROVE  RInv'
  <1>0. /\ UNCHANGED <<pc, listener, lease, shown, room, nextRoom, nameOf, home>>
        /\ sessions' \subseteq sessions
    BY DEF Reaper, StartExpiry, CollectExpired, RemovePeer, GoodbyePeer, DeleteRoomIfEmpty,
           RemainingSessions, transportVars, lobbyVars, peerVars, roomVars
  <1>1. ShownIsPublished'
    BY <1>0, ShownKept
  <1>2. TypeOK
    BY DEF IInv
  <1>3. CASE StartExpiry \/ CollectExpired \/ GoodbyePeer
    <2>1. UNCHANGED <<rooms, members>>
      BY <1>3 DEF StartExpiry, CollectExpired, GoodbyePeer, lobbyVars, roomVars
    <2>2. RoomsAreNamed' /\ SizesAreFinite' /\ WithinLimits'
      BY Zenon, <1>0, <2>1 DEF RInv, RoomsAreNamed, SizesAreFinite, WithinLimits, RegisteredRooms
    <2>3. ReaperPhase' /\ batch \cup {victim} \subseteq batch' \cup {victim'} \cup {NoPeer}
      BY <1>3 DEF StartExpiry, CollectExpired, GoodbyePeer, RInv, ReaperPhase
    <2>4. EmptyRoomIsAttended'
      BY Zenon, <1>0, <2>1, <2>3 DEF RInv, EmptyRoomIsAttended
    <2> QED BY <1>1, <2>2, <2>3, <2>4 DEF RInv
  <1>4. ASSUME NEW p \in Peers, RemovePeer(p)
        PROVE  RInv'
    <2>1. /\ UNCHANGED rooms /\ victim' = p /\ batch' = batch \ {p} /\ reaper' = "goodbye"
          /\ victim = NoPeer /\ p # NoPeer
          /\ members' = [members EXCEPT ![home[p]] = @ \ {p}]
      BY <1>4, ConstantTypes DEF RemovePeer, lobbyVars, RInv, ReaperPhase
    <2>2. ReaperPhase'
      BY <2>1 DEF ReaperPhase
    <2>3. \A r \in RoomIds : /\ members'[r] \subseteq members[r]
                             /\ r # home[p] => members'[r] = members[r]
      BY <1>2, <2>1 DEF TypeOK
    <2>4. RoomsAreNamed' /\ SizesAreFinite' /\ WithinLimits'
      <3>1. RoomsAreNamed' /\ SizesAreFinite' /\ RegisteredRooms' = RegisteredRooms
        BY Zenon, <1>0, <2>1 DEF RInv, RoomsAreNamed, SizesAreFinite, RegisteredRooms
      <3>2. ASSUME NEW r \in RoomIds PROVE Cardinality(members'[r]) <= PeersPerRoom
        <4>1. IsFiniteSet(members[r]) /\ Cardinality(members[r]) \in Nat
          BY <1>2, RoomSize
        <4>2. /\ Cardinality(members'[r]) <= Cardinality(members[r])
              /\ Cardinality(members'[r]) \in Nat
          BY <2>3, <4>1, FS_Subset, FS_CardinalityType
        <4> QED BY <4>1, <4>2, RegistryAssumption DEF RInv, WithinLimits
      <3> QED BY Zenon, <3>1, <3>2 DEF RInv, WithinLimits
    <2>5. EmptyRoomIsAttended'
      <3> SUFFICES ASSUME NEW m \in RoomNames, rooms[m] # NoRoom, members'[rooms[m]] = {}
                   PROVE  \/ \E t \in Sockets : room[t] = rooms[m] /\ pc[t] \in {"capacity", "add"}
                          \/ \E q \in batch' \cup {victim'} : q # NoPeer /\ home[q] = rooms[m]
        BY Zenon, <1>0, <2>1 DEF EmptyRoomIsAttended
      <3>1. CASE home[p] = rooms[m]
        BY Zenon, <2>1, <3>1
      <3>2. CASE home[p] # rooms[m]
        <4>1. members[rooms[m]] = {}
          BY <1>2, <2>3, <3>2 DEF TypeOK
        <4>2. batch \cup {victim} \subseteq batch' \cup {victim'} \cup {NoPeer}
          BY <2>1
        <4> QED BY Zenon, <4>1, <4>2 DEF RInv, EmptyRoomIsAttended
      <3> QED BY <3>1, <3>2
    <2> QED BY <1>1, <2>2, <2>4, <2>5 DEF RInv
  <1>5. CASE DeleteRoomIfEmpty
    <2>1. PICK r : r = home[victim]
      OBVIOUS
    <2>2. PICK n : n = nameOf[r]
      OBVIOUS
    <2>3. /\ UNCHANGED <<members, batch>> /\ victim' = NoPeer
          /\ reaper' = (IF batch = {} THEN "idle" ELSE "remove")
          /\ rooms' = [rooms EXCEPT ![n] = IF @ = r /\ members[r] = {} THEN NoRoom ELSE @]
      BY <1>5, <2>1, <2>2 DEF DeleteRoomIfEmpty, roomVars, IsEmpty
    <2>4. ReaperPhase'
      BY <2>3 DEF ReaperPhase
    <2>5. \A m \in RoomNames :
              /\ rooms'[m] \in {rooms[m], NoRoom}
              /\ rooms[m] = r /\ n = m /\ members[r] = {} => rooms'[m] = NoRoom
      BY <1>2, <2>3 DEF TypeOK
    <2>6. RoomsAreNamed'
      BY Zenon, <1>0, <2>5 DEF RInv, RoomsAreNamed
    <2>7. RegisteredRooms' \subseteq RegisteredRooms
      BY <2>5 DEF RegisteredRooms
    <2>8. SizesAreFinite' /\ WithinLimits'
      <3>1. /\ IsFiniteSet(RegisteredRooms')
            /\ Cardinality(RegisteredRooms') <= Cardinality(RegisteredRooms)
            /\ Cardinality(RegisteredRooms') \in Nat /\ Cardinality(RegisteredRooms) \in Nat
        BY <2>7, FS_Subset, FS_CardinalityType DEF RInv, SizesAreFinite
      <3>2. Cardinality(RegisteredRooms') <= RoomLimit
        BY <3>1, RegistryAssumption DEF RInv, WithinLimits
      <3> QED BY Zenon, <2>3, <3>1, <3>2 DEF RInv, SizesAreFinite, WithinLimits
    <2>9. EmptyRoomIsAttended'
      <3> SUFFICES ASSUME NEW m \in RoomNames, rooms'[m] # NoRoom, members[rooms'[m]] = {}
                   PROVE  \/ \E t \in Sockets :
                                 room[t] = rooms'[m] /\ pc[t] \in {"capacity", "add"}
                          \/ \E q \in batch : q # NoPeer /\ home[q] = rooms'[m]
        BY Zenon, <1>0, <2>3 DEF EmptyRoomIsAttended
      <3>1. rooms'[m] = rooms[m] /\ rooms[m] # NoRoom
        BY <2>5
      <3>2. rooms[m] # r
        <4>1. nameOf[rooms[m]] = m
          BY <3>1 DEF RInv, RoomsAreNamed
        <4> QED BY <2>2, <2>5, <3>1, <4>1
      <3> QED BY Zenon, <2>1, <3>1, <3>2 DEF RInv, EmptyRoomIsAttended
    <2> QED BY <1>1, <2>4, <2>6, <2>8, <2>9 DEF RInv
  <1> QED BY <1>3, <1>4, <1>5 DEF Reaper

\* A command, the clock and a step that changes nothing here.
LEMMA QuietRooms ==
    ASSUME RInv, UNCHANGED <<pc, listener, lease, shown, sessions, room, nextRoom, nameOf, home,
                             rooms, members, reaper, batch, victim>>
    PROVE  RInv'
  <1>1. ReaperPhase' /\ RoomsAreNamed'
    BY Zenon DEF RInv, ReaperPhase, RoomsAreNamed
  <1>2. SizesAreFinite' /\ WithinLimits'
    BY Zenon DEF RInv, SizesAreFinite, WithinLimits, RegisteredRooms
  <1>3. EmptyRoomIsAttended'
    BY Zenon DEF RInv, EmptyRoomIsAttended
  <1>4. ShownIsPublished'
    BY Zenon DEF RInv, ShownIsPublished
  <1> QED BY <1>1, <1>2, <1>3, <1>4 DEF RInv

-----------------------------------------------------------------------------
(* The theorems *)

\* Nothing is registered in the beginning.
LEMMA InitRooms == Init => RInv
  <1> SUFFICES ASSUME Init PROVE RInv
    OBVIOUS
  <1>1. RegisteredRooms = {} /\ \A r \in RoomIds : members[r] = {}
    BY DEF Init, RegisteredRooms
  <1>2. SizesAreFinite /\ WithinLimits
    BY <1>1, FS_EmptySet, RegistryAssumption DEF SizesAreFinite, WithinLimits
  <1>3. ReaperPhase /\ RoomsAreNamed /\ EmptyRoomIsAttended /\ ShownIsPublished
    BY DEF Init, ReaperPhase, RoomsAreNamed, EmptyRoomIsAttended, ShownIsPublished
  <1> QED BY <1>2, <1>3 DEF RInv

\* Every step keeps what is said of the rooms.
LEMMA NextRooms ==
    ASSUME IInv, RInv, [Next]_vars
    PROVE  RInv'
  <1>1. ASSUME NEW s \in Sockets, Handler(s)
        PROVE  RInv'
    BY <1>1, HelloRooms, FreshRooms, ServeRooms, DetachRooms DEF Handler
  <1>2. ASSUME NEW s \in Sockets,
               \/ \E n \in RoomNames : Connect(s, n)
               \/ \E t \in Peers \cup {NoPeer} : ReceiveHello(s, t)
               \/ ReceiveMalformed(s) \/ ReceiveOversized(s) \/ Destroy(s)
        PROVE  RInv'
    BY <1>2, HelloRooms
  <1>3. ASSUME NEW s \in Sockets, Command(s)
        PROVE  RInv'
    BY <1>3, QuietRooms DEF Command, transportVars, lobbyVars, peerVars, reaperVars
  <1>4. CASE Reaper
    BY <1>4, ReaperRooms
  <1>5. CASE Tick \/ UNCHANGED vars
    BY <1>5, QuietRooms DEF Tick, vars, transportVars, lobbyVars, peerVars, roomVars, reaperVars
  <1> QED BY <1>1, <1>2, <1>3, <1>4, <1>5 DEF Next

\* What is said of the rooms holds in every state.
THEOREM RoomInvariant == Spec => []RInv
  <1>1. Init => RInv
    BY InitRooms
  <1>2. IInv /\ RInv /\ [Next]_vars => RInv'
    BY NextRooms
  <1> QED BY <1>1, <1>2, InductiveInvariant, PTL DEF Spec

\* Neither a room nor the lobby ever passes its limit, although hasPeerCapacity
\* is stale when addPeer asks again, and whatever joins and expires in between
\* (Lobby::getOrCreateRoom, Room::addPeer).
THEOREM LimitsAreKept == Spec => []WithinLimits
  <1>1. RInv => WithinLimits
    BY DEF RInv
  <1> QED BY <1>1, RoomInvariant, PTL

\* No empty room is forgotten: a joiner is on its way into it, or
\* Lobby::deleteRoomIfEmpty has still to look at it.
THEOREM NoRoomIsForgotten == Spec => []EmptyRoomIsAttended
  <1>1. RInv => EmptyRoomIsAttended
    BY DEF RInv
  <1> QED BY <1>1, RoomInvariant, PTL

\* The PEER_CONNECTION_STATE broadcasts of Lobby::detachSessionTransport and
\* acceptSessionHello, which hold no lock, leave no detached peer shown as
\* connected.
THEOREM DetachedIsNotShown == Spec => []DetachedIsShown
  <1>1. RInv => DetachedIsShown
    BY Zenon DEF RInv, ShownIsPublished, DetachedIsShown
  <1> QED BY <1>1, RoomInvariant, PTL

=============================================================================
