------------------------ MODULE SessionRegistryProofs ------------------------
(***************************************************************************)
(* Proofs about SessionRegistry for every number of transports, peers and  *)
(* rooms.  The inductive invariant follows a peer from the transport that  *)
(* made it to the reaper that erases it: at any time it is unborn, owned   *)
(* by exactly one transport, waiting under a deadline, or erased.          *)
(***************************************************************************)
EXTENDS SessionRegistry, TLAPS

\* Steps at which a transport has no peer yet, or no longer.
PeerlessSteps == {"none", "pending", "claim", "resume", "room", "capacity", "add",
                  "reject", "gone"}
ListenedSteps == {"ready", "announce", "open", "detach", "lease", "publish"}

\* The locals of acceptSessionHello and the listener agree with the step.
LocalsAgree ==
    \A s \in Sockets :
        /\ pc[s] \in PeerlessSteps => peer[s] = NoPeer /\ listener[s] = NoPeer
        /\ pc[s] \in ListenedSteps => listener[s] = peer[s]
        /\ pc[s] \notin PeerlessSteps \cup {"detach"} => peer[s] \in Peers
        /\ pc[s] \in {"capacity", "add"} => room[s] \in RoomIds

\* Ids that have not been handed out occur nowhere.
FreshPeers ==
    \A p \in Peers : p >= nextPeer =>
        /\ p \notin sessions /\ p \notin issued /\ p \notin batch /\ p # victim
        /\ socket[p] = NoSocket
        /\ announced[p] = "no"
        /\ \A s \in Sockets : peer[s] # p

\* A peer is registered as long as a transport owns it, but for the moment
\* between addPeer and the emplacement of its session.
OwnedIsRegistered ==
    \A s \in Sockets : \A p \in Peers : Owns(s, p) =>
        /\ pc[s] = "emplace" <=> p \notin sessions
        /\ pc[s] = "emplace" => p \notin issued /\ announced[p] # "left"
        /\ pc[s] \notin {"emplace", "welcome"} => announced[p] = "joined"
        /\ home[p] \in RoomIds /\ p \in members[home[p]]

\* The reaper handles peers that are out of the registry and owned by nobody.
DoomedIsErased ==
    \A p \in Peers : p \in batch \cup {victim} =>
        p \notin sessions /\ \A s \in Sockets : ~Owns(s, p)

\* A waiting session has been announced, and an erased one has no owner.
WaitingIsAnnounced ==
    \A p \in Peers :
        /\ p \in sessions /\ lease[p] # NoDeadline => announced[p] = "joined"
        /\ Erased(p) => \A s \in Sockets : ~Owns(s, p)

IInv ==
    /\ TypeOK
    /\ LocalsAgree
    /\ FreshPeers
    /\ SingleOwner
    /\ OwnedIsRegistered
    /\ LeaseOrOwner
    /\ BindingIsOwner
    /\ DoomedIsErased
    /\ WaitingIsAnnounced
    /\ SessionIsMember

-----------------------------------------------------------------------------
(* Types *)

\* Facts about the constants that the types rest on.
LEMMA ConstantTypes ==
    /\ AnyName \in RoomNames
    /\ \A p \in Peers : p # NoPeer
  BY RegistryAssumption DEF AnyName, Peers, NoPeer

\* The initial state has the types.
LEMMA InitTypes == Init => TypeOK
  BY RegistryAssumption, ConstantTypes
  DEF Init, TypeOK, Steps, ReaperSteps, NoPeer, NoRoom, NoDeadline

\* The steps of a hello and of a resume keep the types.
LEMMA HelloTypes ==
    ASSUME TypeOK, LocalsAgree, NEW s \in Sockets,
           \/ \E n \in RoomNames : Connect(s, n)
           \/ \E t \in Peers \cup {NoPeer} : ReceiveHello(s, t)
           \/ ReceiveMalformed(s) \/ ReceiveOversized(s) \/ ClaimPending(s)
           \/ ResumeLease(s) \/ RefuseResume(s) \/ ReplaceSocket(s)
    PROVE  TypeOK'
  <1> USE RegistryAssumption
      DEF TypeOK, Goto, Steps, lobbyVars, peerVars, roomVars, reaperVars, transportVars, helloVars,
          NoDeadline
  <1>1. CASE \E n \in RoomNames : Connect(s, n)
    BY <1>1 DEF Connect
  <1>2. CASE \E t \in Peers \cup {NoPeer} : ReceiveHello(s, t)
    BY <1>2 DEF ReceiveHello
  <1>3. CASE ReceiveMalformed(s) \/ ReceiveOversized(s)
    BY <1>3 DEF ReceiveMalformed, ReceiveOversized
  <1>4. CASE ClaimPending(s)
    BY <1>4 DEF ClaimPending
  <1>5. CASE ResumeLease(s)
    BY <1>5 DEF ResumeLease, ResumedLease
  <1>6. CASE RefuseResume(s)
    BY <1>6 DEF RefuseResume
  <1>7. CASE ReplaceSocket(s)
    BY <1>7 DEF ReplaceSocket, LocalsAgree, PeerlessSteps
  <1> QED BY <1>1, <1>2, <1>3, <1>4, <1>5, <1>6, <1>7

\* The steps of a fresh session keep the types.
LEMMA FreshTypes ==
    ASSUME TypeOK, LocalsAgree, NEW s \in Sockets,
           \/ GetOrCreateRoom(s) \/ CheckCapacity(s) \/ AddPeer(s) \/ EmplaceSession(s)
           \/ WelcomePeer(s)
    PROVE  TypeOK'
  <1> USE RegistryAssumption
      DEF TypeOK, Goto, Steps, lobbyVars, peerVars, roomVars, reaperVars, transportVars,
          helloVars, NoDeadline
  <1>1. CASE GetOrCreateRoom(s)
    <2>1. CASE FindRoom(s)
      BY <1>1, <2>1 DEF GetOrCreateRoom, FindRoom
    <2>2. CASE CreateRoom(s)
      <3>1. nextRoom' \in 1 .. MaxRoomObjects + 1
        BY <2>2 DEF CreateRoom, RoomIds
      <3> QED BY <1>1, <2>2, <3>1 DEF GetOrCreateRoom, CreateRoom
    <2>3. CASE RefuseRoom(s)
      BY <1>1, <2>3 DEF GetOrCreateRoom, RefuseRoom
    <2> QED BY <1>1, <2>1, <2>2, <2>3 DEF GetOrCreateRoom
  <1>2. CASE CheckCapacity(s)
    BY <1>2 DEF CheckCapacity
  <1>3. CASE AddPeer(s)
    <2>1. nextPeer' \in 1 .. MaxPeers + 1
      BY <1>3 DEF AddPeer, Peers
    <2>2. CASE EnterRoom(s)
      BY <1>3, <2>1, <2>2 DEF AddPeer, EnterRoom, LocalsAgree
    <2>3. CASE RefusePeer(s)
      BY <1>3, <2>1, <2>3 DEF AddPeer, RefusePeer
    <2> QED BY <1>3, <2>2, <2>3 DEF AddPeer
  <1>4. CASE EmplaceSession(s)
    BY <1>4 DEF EmplaceSession, LocalsAgree, PeerlessSteps
  <1>5. CASE WelcomePeer(s)
    BY <1>5 DEF WelcomePeer, LocalsAgree, PeerlessSteps
  <1> QED BY <1>1, <1>2, <1>3, <1>4, <1>5

\* The steps of a served transport and of its end keep the types.
LEMMA ServeTypes ==
    ASSUME TypeOK, LocalsAgree, NEW s \in Sockets,
           \/ SetListener(s) \/ SendReady(s) \/ PublishResumed(s) \/ Command(s) \/ Destroy(s)
           \/ DetachIfCurrent(s) \/ DetachLease(s) \/ PublishDetached(s)
    PROVE  TypeOK'
  <1> USE RegistryAssumption, ConstantTypes
      DEF TypeOK, Goto, Steps, lobbyVars, peerVars, roomVars, reaperVars, transportVars, helloVars,
          NoDeadline, Forget
  <1>1. CASE SetListener(s)
    BY <1>1 DEF SetListener
  <1>2. CASE SendReady(s)
    BY <1>2 DEF SendReady, LocalsAgree, PeerlessSteps
  <1>3. CASE PublishResumed(s)
    BY <1>3 DEF PublishResumed, LocalsAgree, PeerlessSteps
  <1>4. CASE Command(s)
    BY <1>4 DEF Command, LocalsAgree, PeerlessSteps, ListenedSteps
  <1>5. CASE Destroy(s)
    BY <1>5 DEF Destroy
  <1>6. CASE DetachIfCurrent(s)
    <2> DEFINE p == listener[s]
    <2>1. CASE IsCurrent(p, s)
      <3>1. /\ socket' = [socket EXCEPT ![p] = NoSocket]
            /\ Goto(s, "lease")
            /\ UNCHANGED <<helloVars, peer, room, listener, invalid>>
        BY <1>6, <2>1 DEF DetachIfCurrent
      <3>2. UNCHANGED <<clock, lobbyVars, home, generation, roomVars, issued, reaperVars>>
        BY <1>6 DEF DetachIfCurrent
      <3>3. socket' \in [Peers -> Sockets \cup {NoSocket}]
        BY <3>1
      <3>4. pc' \in [Sockets -> Steps]
        BY <3>1
      <3> QED BY <3>1, <3>2, <3>3, <3>4
    <2>2. CASE ~IsCurrent(p, s)
      <3>1. Forget(s) /\ UNCHANGED socket
        BY <1>6, <2>2 DEF DetachIfCurrent
      <3>2. UNCHANGED <<clock, lobbyVars, home, generation, roomVars, issued, reaperVars>>
        BY <1>6 DEF DetachIfCurrent
      <3> QED BY <3>1, <3>2
    <2> QED BY <2>1, <2>2
  <1>7. CASE DetachLease(s)
    <2>1. lease' \in [Peers -> Nat]
      BY <1>7 DEF DetachLease, DetachedLease
    <2>2. UNCHANGED <<clock, pending, rooms, nextRoom, nameOf, nextPeer, sessions,
                      peerVars, roomVars, issued, reaperVars>>
      BY <1>7 DEF DetachLease
    <2>3. CASE listener[s] \in sessions
      <3>1. Goto(s, "publish") /\ UNCHANGED <<helloVars, peer, room, listener, invalid>>
        BY <1>7, <2>3 DEF DetachLease
      <3> QED BY <2>1, <2>2, <3>1
    <2>4. CASE listener[s] \notin sessions
      <3>1. Forget(s)
        BY <1>7, <2>4 DEF DetachLease
      <3> QED BY <2>1, <2>2, <3>1
    <2> QED BY <2>3, <2>4
  <1>8. CASE PublishDetached(s)
    BY <1>8 DEF PublishDetached
  <1> QED BY <1>1, <1>2, <1>3, <1>4, <1>5, <1>6, <1>7, <1>8

\* The steps of expireSessions and of the clock keep the types.
LEMMA ReaperTypes == TypeOK /\ (Reaper \/ Tick \/ UNCHANGED vars) => TypeOK'
  <1> SUFFICES ASSUME TypeOK, Reaper \/ Tick \/ UNCHANGED vars PROVE TypeOK'
    OBVIOUS
  <1> USE RegistryAssumption
      DEF TypeOK, Goto, Steps, ReaperSteps, lobbyVars, peerVars, roomVars, reaperVars,
          transportVars, helloVars, NoDeadline
  <1>1. CASE StartExpiry
    BY <1>1 DEF StartExpiry
  <1>2. CASE CollectExpired
    <2>1. pending' \in [Sockets -> Nat] /\ invalid' \subseteq Sockets
      BY <1>2 DEF CollectExpired, Invalidated
    <2>2. sessions' \subseteq Peers /\ batch' \subseteq Peers /\ reaper' \in ReaperSteps
      BY <1>2 DEF CollectExpired, RemainingSessions
    <2> QED BY <1>2, <2>1, <2>2 DEF CollectExpired
  <1>3. CASE \E p \in Peers : RemovePeer(p)
    <2> PICK p \in Peers : RemovePeer(p)
      BY <1>3
    <2>1. members' \in [RoomIds -> SUBSET Peers]
      BY DEF RemovePeer
    <2> QED BY <2>1 DEF RemovePeer
  <1>4. CASE GoodbyePeer
    BY <1>4 DEF GoodbyePeer
  <1>5. CASE DeleteRoomIfEmpty
    BY <1>5 DEF DeleteRoomIfEmpty
  <1>6. CASE Tick
    BY <1>6 DEF Tick
  <1>7. CASE UNCHANGED vars
    BY <1>7 DEF vars
  <1> QED BY <1>1, <1>2, <1>3, <1>4, <1>5, <1>6, <1>7 DEF Reaper

-----------------------------------------------------------------------------
(* Steps that no part of the invariant but LocalsAgree looks at *)

bindingVars == <<peer, sessions, lease, home, socket, members, announced, issued, batch,
                 victim>>

\* A transport without a peer that moves on touches no peer, whatever else it
\* writes.
LEMMA PeerlessStep ==
    ASSUME IInv, TypeOK', UNCHANGED bindingVars, UNCHANGED listener, NEW s \in Sockets,
           NEW q \in PeerlessSteps \cup {"detach"}, peer[s] = NoPeer, listener[s] = NoPeer,
           Goto(s, q),
           \A t \in Sockets : t # s => room'[t] = room[t],
           q \in {"capacity", "add"} => room'[s] \in RoomIds,
           nextPeer' = nextPeer \/ nextPeer' = nextPeer + 1
    PROVE  IInv'
  <1> USE DEF IInv, bindingVars, Goto
  <1>1. \A t \in Sockets : t # s => pc'[t] = pc[t]
    BY DEF TypeOK
  <1>2. pc'[s] = q
    BY DEF TypeOK
  <1>3. \A t \in Sockets : \A p \in Peers : Owns(t, p)' <=> Owns(t, p)
    BY <1>1, <1>2, ConstantTypes DEF Owns
  <1>4. \A t \in Sockets : \A p \in Peers : IsBound(t, p)' <=> IsBound(t, p)
    BY <1>1, <1>2, ConstantTypes DEF IsBound
  <1>5. LocalsAgree'
    BY <1>1, <1>2 DEF LocalsAgree, PeerlessSteps, ListenedSteps
  <1>6. FreshPeers'
    BY DEF FreshPeers, TypeOK, Peers
  <1>7. SingleOwner' /\ LeaseOrOwner'
    BY <1>3 DEF SingleOwner, LeaseOrOwner, TypeOK
  <1>8. OwnedIsRegistered'
    BY <1>1, <1>2, <1>3, ConstantTypes DEF OwnedIsRegistered, Owns
  <1>9. BindingIsOwner'
    BY <1>4 DEF BindingIsOwner
  <1>10. DoomedIsErased'
    BY <1>3 DEF DoomedIsErased
  <1>11. WaitingIsAnnounced' /\ SessionIsMember'
    BY <1>3 DEF WaitingIsAnnounced, SessionIsMember, Erased
  <1> QED BY <1>5, <1>6, <1>7, <1>8, <1>9, <1>10, <1>11

\* The actions of a transport that has no peer are such steps.
LEMMA PeerlessActions ==
    ASSUME IInv, NEW s \in Sockets,
           \/ \E n \in RoomNames : Connect(s, n)
           \/ \E t \in Peers \cup {NoPeer} : ReceiveHello(s, t)
           \/ ReceiveMalformed(s) \/ ReceiveOversized(s) \/ ClaimPending(s)
           \/ RefuseResume(s)
           \/ GetOrCreateRoom(s) \/ CheckCapacity(s) \/ (AddPeer(s) /\ RefusePeer(s))
           \/ (Destroy(s) /\ pc[s] # "open") \/ (DetachIfCurrent(s) /\ listener[s] = NoPeer)
    PROVE  IInv'
  <1> USE DEF bindingVars, lobbyVars, peerVars, roomVars, reaperVars, PeerlessSteps
  <1>0. TypeOK /\ LocalsAgree
    BY DEF IInv
  <1>1. TypeOK'
    BY <1>0, HelloTypes, FreshTypes, ServeTypes
  <1> USE <1>0 DEF LocalsAgree
  <1>2. CASE \E n \in RoomNames : Connect(s, n)
    BY <1>1, <1>2, PeerlessStep DEF Connect
  <1>3. CASE \E t \in Peers \cup {NoPeer} : ReceiveHello(s, t)
    BY <1>1, <1>3, PeerlessStep DEF ReceiveHello
  <1>4. CASE ReceiveMalformed(s) \/ ReceiveOversized(s)
    BY <1>1, <1>4, PeerlessStep DEF ReceiveMalformed, ReceiveOversized
  <1>5. CASE ClaimPending(s)
    <2> DEFINE q == CASE ~PendingLive(s) -> "reject"
                      [] PendingLive(s) /\ token[s] # NoPeer -> "resume"
                      [] OTHER -> "room"
    <2>1. q \in {"reject", "resume", "room"}
      OBVIOUS
    <2>2. Goto(s, q) /\ pc[s] = "claim" /\ UNCHANGED <<room, listener, nextPeer, bindingVars>>
      BY <1>5 DEF ClaimPending
    <2> HIDE DEF q
    <2> QED BY <1>1, <2>1, <2>2, PeerlessStep
  <1>6. CASE RefuseResume(s)
    BY <1>1, <1>6, PeerlessStep DEF RefuseResume
  <1>7. CASE GetOrCreateRoom(s)
    <2> USE <1>0, <1>1 DEF GetOrCreateRoom, TypeOK
    <2>1. UNCHANGED <<listener, nextPeer, bindingVars>> /\ pc[s] = "room"
      BY <1>7
    <2>2. CASE FindRoom(s)
      <3>1. room'[s] \in RoomIds /\ \A t \in Sockets : t # s => room'[t] = room[t]
        BY <2>2 DEF FindRoom
      <3> QED BY <2>1, <2>2, <3>1, PeerlessStep DEF FindRoom
    <2>3. CASE CreateRoom(s)
      <3>1. room'[s] \in RoomIds /\ \A t \in Sockets : t # s => room'[t] = room[t]
        BY <2>3 DEF CreateRoom
      <3> QED BY <2>1, <2>3, <3>1, PeerlessStep DEF CreateRoom
    <2>4. CASE RefuseRoom(s)
      BY <2>1, <2>4, PeerlessStep DEF RefuseRoom
    <2> QED BY <1>7, <2>2, <2>3, <2>4
  <1>8. CASE CheckCapacity(s)
    <2>1. PICK q \in {"add", "reject"} : Goto(s, q)
      BY <1>8 DEF CheckCapacity
    <2>2. room[s] \in RoomIds
      BY <1>0, <1>8 DEF LocalsAgree, CheckCapacity
    <2> QED BY <1>1, <1>8, <2>1, <2>2, PeerlessStep DEF CheckCapacity
  <1>9. CASE Destroy(s) /\ pc[s] # "open"
    BY <1>1, <1>9, PeerlessStep DEF Destroy
  <1>10. CASE DetachIfCurrent(s) /\ listener[s] = NoPeer
    <2>1. peer[s] = NoPeer
      BY <1>10 DEF DetachIfCurrent, ListenedSteps
    <2>2. Forget(s) /\ UNCHANGED socket
      BY <1>10 DEF DetachIfCurrent, IsCurrent
    <2>3. peer' = peer /\ listener' = listener
      BY <1>0, <1>10, <2>1, <2>2 DEF Forget, TypeOK
    <2>4. \A t \in Sockets : t # s => room'[t] = room[t]
      BY <1>0, <2>2 DEF Forget, TypeOK
    <2> QED BY <1>1, <1>10, <2>1, <2>2, <2>3, <2>4, PeerlessStep DEF DetachIfCurrent, Forget
  <1>11. CASE AddPeer(s) /\ RefusePeer(s)
    BY <1>1, <1>11, PeerlessStep DEF AddPeer, RefusePeer
  <1> QED BY <1>2, <1>3, <1>4, <1>5, <1>6, <1>7, <1>8, <1>9, <1>10, <1>11

-----------------------------------------------------------------------------
(* Steps of a transport that keeps the peer it is bound to *)

\* A transport bound to a peer that moves on, stays bound and at most announces
\* the peer or issues its token.
LEMMA BoundStep ==
    ASSUME IInv, TypeOK', NEW s \in Sockets, NEW q \in BoundSteps \ {"emplace", "welcome"},
           pc[s] \in BoundSteps \ {"emplace", "detach"}, Goto(s, q), UNCHANGED <<peer, room>>,
           UNCHANGED <<sessions, lease, home, socket, members, batch, victim, nextPeer>>,
           \A t \in Sockets : t # s => listener'[t] = listener[t],
           q # "listen" => listener'[s] = peer[s],
           announced' = [announced EXCEPT ![peer[s]] = "joined"],
           issued \subseteq issued', issued' \subseteq issued \cup {peer[s]}
    PROVE  IInv'
  <1> USE DEF IInv, Goto
  <1>1. \A t \in Sockets : t # s => pc'[t] = pc[t]
    BY DEF TypeOK
  <1>2. pc'[s] = q
    BY DEF TypeOK
  <1>3. \A t \in Sockets : \A p \in Peers : Owns(t, p)' <=> Owns(t, p)
    BY <1>1, <1>2 DEF Owns, OwnerSteps
  <1>4. \A t \in Sockets : \A p \in Peers : IsBound(t, p)' <=> IsBound(t, p)
    BY <1>1, <1>2 DEF IsBound
  <1>5. LocalsAgree'
    BY <1>1, <1>2 DEF LocalsAgree, PeerlessSteps, ListenedSteps, BoundSteps
  <1>6. FreshPeers'
    BY DEF FreshPeers, TypeOK
  <1>7. SingleOwner' /\ LeaseOrOwner'
    BY <1>3 DEF SingleOwner, LeaseOrOwner, TypeOK
  <1>8. \A p \in Peers : peer[s] = p => p \in sessions
    BY DEF OwnedIsRegistered, Owns, OwnerSteps, BoundSteps
  <1>9. OwnedIsRegistered'
    <2> SUFFICES ASSUME NEW t \in Sockets, NEW p \in Peers, Owns(t, p)
                 PROVE  /\ pc'[t] = "emplace" <=> p \notin sessions
                        /\ pc'[t] = "emplace" => p \notin issued' /\ announced'[p] # "left"
                        /\ pc'[t] \notin {"emplace", "welcome"} => announced'[p] = "joined"
                        /\ home[p] \in RoomIds /\ p \in members[home[p]]
      BY <1>3 DEF OwnedIsRegistered
    <2>1. t # s => peer[s] # p
      BY DEF SingleOwner, Owns, OwnerSteps
    <2>2. CASE t = s
      BY <1>2, <1>8, <2>2 DEF OwnedIsRegistered, Owns, TypeOK
    <2>3. CASE t # s
      BY <1>1, <2>1, <2>3 DEF OwnedIsRegistered, TypeOK
    <2> QED BY <2>2, <2>3
  <1>10. BindingIsOwner'
    BY <1>4 DEF BindingIsOwner
  <1>11. DoomedIsErased'
    BY <1>3 DEF DoomedIsErased
  <1>12. WaitingIsAnnounced'
    <2> SUFFICES ASSUME NEW p \in Peers
                 PROVE  /\ p \in sessions' /\ lease'[p] # NoDeadline => announced'[p] = "joined"
                        /\ Erased(p)' => \A t \in Sockets : ~Owns(t, p)'
      BY DEF WaitingIsAnnounced
    <2>1. p \in sessions' /\ lease'[p] # NoDeadline => announced'[p] = "joined"
      BY <1>8 DEF WaitingIsAnnounced, TypeOK
    <2>2. Erased(p)' => Erased(p)
      BY <1>8 DEF Erased
    <2> QED BY <1>3, <2>1, <2>2 DEF WaitingIsAnnounced
  <1>13. SessionIsMember'
    BY DEF SessionIsMember, TypeOK
  <1> QED BY <1>5, <1>6, <1>7, <1>9, <1>10, <1>11, <1>12, <1>13

\* The actions of a transport that serves its peer are such steps.
LEMMA BoundActions ==
    ASSUME IInv, NEW s \in Sockets,
           \/ WelcomePeer(s) \/ SetListener(s) \/ SendReady(s) \/ PublishResumed(s)
           \/ Command(s) \/ (Destroy(s) /\ pc[s] = "open")
    PROVE  IInv'
  <1> USE DEF lobbyVars, peerVars, roomVars, reaperVars, helloVars, BoundSteps
  <1>0. TypeOK /\ LocalsAgree
    BY DEF IInv
  <1>1. TypeOK'
    BY <1>0, FreshTypes, ServeTypes
  <1>2. pc[s] \in OwnerSteps => peer[s] \in Peers \/ pc[s] = "detach"
    BY <1>0 DEF LocalsAgree, OwnerSteps, PeerlessSteps
  <1>3. \A p \in Peers : Owns(s, p) /\ pc[s] \notin {"emplace", "welcome"} =>
            announced = [announced EXCEPT ![p] = "joined"]
    BY DEF IInv, OwnedIsRegistered, TypeOK
  <1>4. CASE WelcomePeer(s)
    BY <1>1, <1>4, BoundStep DEF WelcomePeer
  <1>5. CASE SetListener(s)
    <2>1. peer[s] \in Peers /\ announced = [announced EXCEPT ![peer[s]] = "joined"]
      BY <1>2, <1>3, <1>5 DEF SetListener, Owns, OwnerSteps
    <2>2. listener'[s] = peer[s] /\ \A t \in Sockets : t # s => listener'[t] = listener[t]
      BY <1>0, <1>5 DEF SetListener, TypeOK
    <2> QED BY <1>1, <1>5, <2>1, <2>2, BoundStep DEF SetListener
  <1>6. CASE SendReady(s)
    <2>1. peer[s] \in Peers /\ announced = [announced EXCEPT ![peer[s]] = "joined"]
      BY <1>2, <1>3, <1>6 DEF SendReady, Owns, OwnerSteps
    <2>2. listener[s] = peer[s]
      BY <1>0, <1>6 DEF LocalsAgree, ListenedSteps, SendReady
    <2>3. PICK q \in {"open", "announce"} : Goto(s, q)
      BY <1>6 DEF SendReady
    <2>4. issued \subseteq issued' /\ issued' \subseteq issued \cup {peer[s]}
      BY <1>6 DEF SendReady
    <2> QED BY <1>1, <1>6, <2>1, <2>2, <2>3, <2>4, BoundStep DEF SendReady
  <1>7. CASE PublishResumed(s)
    <2>1. peer[s] \in Peers /\ announced = [announced EXCEPT ![peer[s]] = "joined"]
      BY <1>2, <1>3, <1>7 DEF PublishResumed, Owns, OwnerSteps
    <2>2. listener[s] = peer[s]
      BY <1>0, <1>7 DEF LocalsAgree, ListenedSteps, PublishResumed
    <2> QED BY <1>1, <1>7, <2>1, <2>2, BoundStep DEF PublishResumed
  <1>8. CASE Command(s)
    <2>1. UNCHANGED <<pc, room, listener, nextPeer, bindingVars>>
      BY <1>8 DEF Command, transportVars, bindingVars
    <2> QED BY <1>0, <1>1, <2>1 DEF bindingVars, IInv, LocalsAgree, FreshPeers, SingleOwner,
              OwnedIsRegistered, LeaseOrOwner, BindingIsOwner, DoomedIsErased,
              WaitingIsAnnounced, SessionIsMember, Owns, IsBound, Erased
  <1>9. CASE Destroy(s) /\ pc[s] = "open"
    <2>1. peer[s] \in Peers /\ announced = [announced EXCEPT ![peer[s]] = "joined"]
      BY <1>2, <1>3, <1>9 DEF Owns, OwnerSteps
    <2>2. listener[s] = peer[s]
      BY <1>0, <1>9 DEF LocalsAgree, ListenedSteps
    <2> QED BY <1>1, <1>9, <2>1, <2>2, BoundStep DEF Destroy
  <1> QED BY <1>4, <1>5, <1>6, <1>7, <1>8, <1>9

-----------------------------------------------------------------------------
(* Steps that change who owns a peer *)

\* Room::addPeer makes a peer whose id occurs nowhere, owned by its transport.
LEMMA EnterRoomStep ==
    ASSUME IInv, NEW s \in Sockets, AddPeer(s), EnterRoom(s)
    PROVE  IInv'
  <1> USE RegistryAssumption DEF AddPeer, EnterRoom, Goto, helloVars, reaperVars
  <1>0. TypeOK /\ LocalsAgree /\ FreshPeers
    BY DEF IInv
  <1>1. TypeOK'
    BY <1>0, FreshTypes
  <1>2. \A t \in Sockets : t # s => pc'[t] = pc[t] /\ peer'[t] = peer[t]
    BY <1>0 DEF TypeOK
  <1>3. pc'[s] = "emplace" /\ peer'[s] = nextPeer /\ room[s] \in RoomIds
    BY <1>0 DEF TypeOK, LocalsAgree
  <1>4. \A t \in Sockets : \A p \in Peers :
            Owns(t, p)' <=> (Owns(t, p) \/ (t = s /\ p = nextPeer))
    BY <1>0, <1>2, <1>3, ConstantTypes
    DEF Owns, OwnerSteps, BoundSteps, LocalsAgree, PeerlessSteps
  <1>5. \A t \in Sockets : \A p \in Peers :
            IsBound(t, p)' <=> (IsBound(t, p) \/ (t = s /\ p = nextPeer))
    BY <1>0, <1>2, <1>3, ConstantTypes DEF IsBound, BoundSteps, LocalsAgree, PeerlessSteps
  <1>6. \A t \in Sockets : ~Owns(t, nextPeer) /\ ~IsBound(t, nextPeer)
    BY <1>0, <1>3 DEF FreshPeers, Owns, IsBound, TypeOK, Peers
  <1>7. /\ nextPeer \notin sessions /\ nextPeer \notin issued /\ nextPeer \notin batch
        /\ nextPeer # victim /\ announced[nextPeer] = "no" /\ socket[nextPeer] = NoSocket
    BY <1>0 DEF FreshPeers, TypeOK, Peers
  <1>8. LocalsAgree'
    <2>1. UNCHANGED <<room, listener>> /\ nextPeer \in Peers
      OBVIOUS
    <2>2. pc'[s] \notin PeerlessSteps \cup ListenedSteps \cup {"capacity", "add"}
      BY <1>3 DEF PeerlessSteps, ListenedSteps
    <2> HIDE DEF AddPeer, EnterRoom
    <2> QED BY <1>0, <1>2, <1>3, <2>1, <2>2 DEF LocalsAgree
  <1>9. FreshPeers'
    <2> SUFFICES ASSUME NEW p \in Peers, p >= nextPeer'
                 PROVE  /\ p \notin sessions' /\ p \notin issued' /\ p \notin batch'
                        /\ p # victim' /\ socket'[p] = NoSocket /\ announced'[p] = "no"
                        /\ \A t \in Sockets : peer'[t] # p
      BY DEF FreshPeers
    <2>1. p > nextPeer
      BY DEF Peers
    <2>2. socket'[p] = NoSocket
      BY <1>0, <2>1 DEF FreshPeers, TypeOK, Peers
    <2>3. \A t \in Sockets : peer'[t] # p
      BY <1>0, <1>2, <1>3, <2>1 DEF FreshPeers, Peers
    <2> QED BY <1>0, <2>1, <2>2, <2>3 DEF FreshPeers, Peers
  <1>10. SingleOwner' /\ LeaseOrOwner'
    BY <1>4, <1>6, <1>7 DEF IInv, SingleOwner, LeaseOrOwner, TypeOK
  <1>11. \A p \in Peers : p # nextPeer => home'[p] = home[p] /\ socket'[p] = socket[p]
    BY <1>0 DEF TypeOK
  <1>12. \A p \in Peers : p \in members[home[p]] /\ home[p] \in RoomIds /\ p # nextPeer =>
            p \in members'[home[p]]
    BY <1>0, <1>3 DEF TypeOK
  <1>13. home'[nextPeer] = room[s] /\ socket'[nextPeer] = s
         /\ nextPeer \in members'[home'[nextPeer]]
    BY <1>0, <1>3 DEF TypeOK
  <1>14. OwnedIsRegistered'
    <2> SUFFICES ASSUME NEW t \in Sockets, NEW p \in Peers, Owns(t, p)'
                 PROVE  /\ pc'[t] = "emplace" <=> p \notin sessions
                        /\ pc'[t] = "emplace" => p \notin issued /\ announced[p] # "left"
                        /\ pc'[t] \notin {"emplace", "welcome"} => announced[p] = "joined"
                        /\ home'[p] \in RoomIds /\ p \in members'[home'[p]]
      BY DEF OwnedIsRegistered
    <2>1. CASE Owns(t, p)
      BY <1>2, <1>3, <1>4, <1>6, <1>11, <1>12, <2>1, <1>0, ConstantTypes
      DEF IInv, OwnedIsRegistered, Owns, LocalsAgree, PeerlessSteps
    <2>2. CASE t = s /\ p = nextPeer
      BY <1>3, <1>7, <1>13, <2>2
    <2> QED BY <1>4, <2>1, <2>2
  <1>15. BindingIsOwner'
    BY <1>5, <1>6, <1>7, <1>11, <1>13 DEF IInv, BindingIsOwner
  <1>16. DoomedIsErased'
    BY <1>4, <1>7 DEF IInv, DoomedIsErased
  <1>17. WaitingIsAnnounced'
    BY <1>4, <1>7 DEF IInv, WaitingIsAnnounced, Erased
  <1>18. SessionIsMember'
    BY <1>7, <1>11, <1>12, <1>0 DEF IInv, SessionIsMember, TypeOK
  <1> QED BY <1>1, <1>8, <1>9, <1>10, <1>14, <1>15, <1>16, <1>17, <1>18 DEF IInv

\* The session that is emplaced belongs to the one transport that made the peer.
LEMMA EmplaceStep ==
    ASSUME IInv, NEW s \in Sockets, EmplaceSession(s)
    PROVE  IInv'
  <1> USE DEF EmplaceSession, Goto, helloVars, peerVars, roomVars, reaperVars
  <1>0. TypeOK /\ LocalsAgree /\ FreshPeers /\ SingleOwner /\ OwnedIsRegistered
    BY DEF IInv
  <1>1. TypeOK'
    BY <1>0, FreshTypes
  <1>2. \A t \in Sockets : t # s => pc'[t] = pc[t]
    BY <1>0 DEF TypeOK
  <1>3. pc'[s] = "welcome" /\ peer[s] \in Peers
    BY <1>0 DEF TypeOK, LocalsAgree, PeerlessSteps
  <1>4. \A t \in Sockets : \A p \in Peers : Owns(t, p)' <=> Owns(t, p)
    BY <1>2, <1>3 DEF Owns, OwnerSteps, BoundSteps
  <1>5. \A t \in Sockets : \A p \in Peers : IsBound(t, p)' <=> IsBound(t, p)
    BY <1>2, <1>3 DEF IsBound, BoundSteps
  <1>6. Owns(s, peer[s]) /\ \A t \in Sockets : t # s => ~Owns(t, peer[s])
    BY <1>0, <1>3 DEF Owns, OwnerSteps, BoundSteps, SingleOwner
  <1>7. /\ peer[s] \notin issued /\ announced[peer[s]] # "left" /\ peer[s] \notin sessions
        /\ home[peer[s]] \in RoomIds /\ peer[s] \in members[home[peer[s]]]
    BY <1>0, <1>3, <1>6 DEF OwnedIsRegistered
  <1>8. lease'[peer[s]] = NoDeadline /\ \A p \in Peers : p # peer[s] => lease'[p] = lease[p]
    BY <1>0, <1>3 DEF TypeOK
  <1>9. LocalsAgree' /\ FreshPeers'
    BY <1>0, <1>2, <1>3 DEF LocalsAgree, FreshPeers, PeerlessSteps, ListenedSteps
  <1>10. SingleOwner'
    BY <1>0, <1>4 DEF SingleOwner
  <1>11. LeaseOrOwner'
    BY <1>4, <1>6, <1>8, <1>0, <1>3 DEF IInv, LeaseOrOwner, TypeOK
  <1>12. OwnedIsRegistered'
    BY <1>0, <1>2, <1>3, <1>4, <1>6 DEF OwnedIsRegistered, Owns
  <1>13. BindingIsOwner'
    BY <1>5 DEF IInv, BindingIsOwner
  <1>14. DoomedIsErased'
    BY <1>3, <1>4, <1>6 DEF IInv, DoomedIsErased
  <1>15. WaitingIsAnnounced'
    BY <1>3, <1>4, <1>7, <1>8 DEF IInv, WaitingIsAnnounced, Erased
  <1>16. SessionIsMember'
    BY <1>7 DEF IInv, SessionIsMember
  <1> QED BY <1>1, <1>9, <1>10, <1>11, <1>12, <1>13, <1>14, <1>15, <1>16 DEF IInv

\* The lease is taken under the registry lock from a session nobody owns.
LEMMA ResumeStep ==
    ASSUME IInv, NEW s \in Sockets, ResumeLease(s)
    PROVE  IInv'
  <1> DEFINE r == token[s]
  <1> USE DEF ResumeLease, Goto, helloVars, peerVars, roomVars, reaperVars
  <1>0. TypeOK /\ LocalsAgree /\ FreshPeers /\ SingleOwner /\ OwnedIsRegistered
    BY DEF IInv
  <1>1. TypeOK'
    BY <1>0, HelloTypes
  <1>2. r \in sessions /\ lease[r] # NoDeadline /\ r \in Peers
    BY <1>0 DEF Resumable, CanResume, TypeOK
  <1>3. \A t \in Sockets : ~Owns(t, r)
    BY <1>2 DEF IInv, LeaseOrOwner
  <1>4. announced[r] = "joined" /\ home[r] \in RoomIds /\ r \in members[home[r]]
    BY <1>2 DEF IInv, WaitingIsAnnounced, SessionIsMember
  <1>5. \A t \in Sockets : t # s => pc'[t] = pc[t] /\ peer'[t] = peer[t]
    BY <1>0 DEF TypeOK
  <1>6. pc'[s] = "replace" /\ peer'[s] = r
    BY <1>0 DEF TypeOK
  <1>7. peer[s] = NoPeer
    BY <1>0 DEF LocalsAgree, PeerlessSteps
  <1>8. lease'[r] = NoDeadline /\ \A p \in Peers : p # r => lease'[p] = lease[p]
    BY <1>0, <1>2 DEF TypeOK, ResumedLease
  <1> HIDE DEF r
  <1>9. \A t \in Sockets : \A p \in Peers : Owns(t, p)' <=> (Owns(t, p) \/ (t = s /\ p = r))
    BY <1>5, <1>6, <1>7, ConstantTypes DEF Owns, OwnerSteps
  <1>10. \A t \in Sockets : \A p \in Peers : IsBound(t, p)' <=> IsBound(t, p)
    BY <1>5, <1>6, <1>7, ConstantTypes DEF IsBound, BoundSteps
  <1>11. LocalsAgree'
    BY <1>0, <1>2, <1>5, <1>6 DEF LocalsAgree, PeerlessSteps, ListenedSteps
  <1>12. FreshPeers'
    BY <1>0, <1>2, <1>5, <1>6 DEF FreshPeers
  <1>13. SingleOwner'
    BY <1>0, <1>3, <1>9 DEF SingleOwner
  <1>14. LeaseOrOwner'
    BY <1>0, <1>2, <1>8, <1>9 DEF IInv, LeaseOrOwner, TypeOK
  <1>15. OwnedIsRegistered'
    BY <1>0, <1>2, <1>4, <1>5, <1>6, <1>7, <1>9, ConstantTypes DEF OwnedIsRegistered, Owns
  <1>16. BindingIsOwner'
    BY <1>10 DEF IInv, BindingIsOwner
  <1>17. DoomedIsErased'
    BY <1>2, <1>9 DEF IInv, DoomedIsErased
  <1>18. WaitingIsAnnounced'
    BY <1>2, <1>8, <1>9 DEF IInv, WaitingIsAnnounced, Erased
  <1>19. SessionIsMember'
    BY DEF IInv, SessionIsMember
  <1> QED BY <1>1, <1>11, <1>12, <1>13, <1>14, <1>15, <1>16, <1>17, <1>18, <1>19 DEF IInv

\* Peer::replaceSocket binds a peer whose lease this transport alone has taken.
LEMMA ReplaceStep ==
    ASSUME IInv, NEW s \in Sockets, ReplaceSocket(s)
    PROVE  IInv'
  <1> USE DEF ReplaceSocket, Goto, helloVars, lobbyVars, roomVars, reaperVars
  <1>0. TypeOK /\ LocalsAgree /\ FreshPeers /\ SingleOwner /\ OwnedIsRegistered
    BY DEF IInv
  <1>1. TypeOK'
    BY <1>0, HelloTypes
  <1>2. \A t \in Sockets : t # s => pc'[t] = pc[t]
    BY <1>0 DEF TypeOK
  <1>3. pc'[s] = "listen" /\ peer[s] \in Peers
    BY <1>0 DEF TypeOK, LocalsAgree, PeerlessSteps
  <1>4. Owns(s, peer[s]) /\ \A t \in Sockets : t # s => ~Owns(t, peer[s])
    BY <1>0, <1>3 DEF Owns, OwnerSteps, SingleOwner
  <1>5. \A t \in Sockets : \A p \in Peers : Owns(t, p)' <=> Owns(t, p)
    BY <1>2, <1>3 DEF Owns, OwnerSteps, BoundSteps
  <1>6. \A t \in Sockets : \A p \in Peers :
            IsBound(t, p)' <=> (IsBound(t, p) \/ (t = s /\ p = peer[s]))
    BY <1>2, <1>3 DEF IsBound, BoundSteps
  <1>7. \A t \in Sockets : ~IsBound(t, peer[s])
    BY <1>4 DEF Owns, IsBound, OwnerSteps, BoundSteps
  <1>8. socket'[peer[s]] = s /\ \A p \in Peers : p # peer[s] => socket'[p] = socket[p]
    BY <1>0, <1>3 DEF TypeOK
  <1>9. LocalsAgree'
    BY <1>0, <1>2, <1>3 DEF LocalsAgree, PeerlessSteps, ListenedSteps
  <1>10. FreshPeers'
    BY <1>0, <1>3, <1>8 DEF FreshPeers
  <1>11. SingleOwner' /\ LeaseOrOwner'
    BY <1>0, <1>5 DEF IInv, SingleOwner, LeaseOrOwner, TypeOK
  <1>12. OwnedIsRegistered'
    BY <1>0, <1>2, <1>3, <1>5 DEF OwnedIsRegistered, Owns
  <1>13. BindingIsOwner'
    BY <1>6, <1>7, <1>8 DEF IInv, BindingIsOwner
  <1>14. DoomedIsErased'
    BY <1>5 DEF IInv, DoomedIsErased
  <1>15. WaitingIsAnnounced' /\ SessionIsMember'
    BY <1>5 DEF IInv, WaitingIsAnnounced, SessionIsMember, Erased
  <1> QED BY <1>1, <1>9, <1>10, <1>11, <1>12, <1>13, <1>14, <1>15 DEF IInv

\* Peer::detachIfCurrent always succeeds for the transport that serves the peer,
\* which goes on owning it.
LEMMA DetachStep ==
    ASSUME IInv, NEW s \in Sockets, DetachIfCurrent(s), listener[s] # NoPeer
    PROVE  IInv'
  <1> USE DEF DetachIfCurrent, Goto, helloVars, lobbyVars, roomVars, reaperVars
  <1>0. TypeOK /\ LocalsAgree /\ FreshPeers /\ SingleOwner /\ OwnedIsRegistered
    BY DEF IInv
  <1>1. TypeOK'
    BY <1>0, ServeTypes
  <1>2. listener[s] = peer[s] /\ peer[s] \in Peers
    BY <1>0 DEF LocalsAgree, ListenedSteps, TypeOK
  <1>3. Owns(s, peer[s]) /\ IsBound(s, peer[s])
    BY <1>2 DEF Owns, IsBound, OwnerSteps, BoundSteps
  <1>4. IsCurrent(peer[s], s)
    BY <1>2, <1>3, ConstantTypes DEF IInv, BindingIsOwner, IsCurrent
  <1>5. /\ socket' = [socket EXCEPT ![peer[s]] = NoSocket] /\ Goto(s, "lease")
        /\ UNCHANGED <<peer, room, listener>>
    BY <1>2, <1>4
  <1>6. \A t \in Sockets : t # s => pc'[t] = pc[t]
    BY <1>0, <1>5 DEF TypeOK
  <1>7. pc'[s] = "lease"
    BY <1>0, <1>5 DEF TypeOK
  <1>8. \A t \in Sockets : \A p \in Peers : Owns(t, p)' <=> Owns(t, p)
    BY <1>5, <1>6, <1>7 DEF Owns, OwnerSteps, BoundSteps
  <1>9. \A t \in Sockets : \A p \in Peers :
            IsBound(t, p)' <=> (IsBound(t, p) /\ t # s)
    BY <1>5, <1>6, <1>7 DEF IsBound, BoundSteps
  <1>10. \A t \in Sockets : t # s => ~IsBound(t, peer[s])
    BY <1>0, <1>2, <1>3 DEF SingleOwner, Owns, IsBound, OwnerSteps
  <1>11. socket'[peer[s]] = NoSocket /\ \A p \in Peers : p # peer[s] => socket'[p] = socket[p]
    BY <1>0, <1>2, <1>5 DEF TypeOK
  <1>12. LocalsAgree'
    BY <1>0, <1>2, <1>5, <1>6, <1>7 DEF LocalsAgree, PeerlessSteps, ListenedSteps
  <1>13. FreshPeers'
    BY <1>0, <1>2, <1>5, <1>11 DEF FreshPeers
  <1>14. SingleOwner' /\ LeaseOrOwner'
    BY <1>0, <1>8 DEF IInv, SingleOwner, LeaseOrOwner, TypeOK
  <1>15. OwnedIsRegistered'
    BY <1>0, <1>6, <1>7, <1>8 DEF OwnedIsRegistered, Owns
  <1>16. BindingIsOwner'
    BY <1>2, <1>9, <1>10, <1>11, RegistryAssumption DEF IInv, BindingIsOwner, IsBound
  <1>17. DoomedIsErased'
    BY <1>8 DEF IInv, DoomedIsErased
  <1>18. WaitingIsAnnounced' /\ SessionIsMember'
    BY <1>8 DEF IInv, WaitingIsAnnounced, SessionIsMember, Erased
  <1> QED BY <1>1, <1>12, <1>13, <1>14, <1>15, <1>16, <1>17, <1>18 DEF IInv

\* The deadline is set by the only owner, which thereby gives the peer up.
LEMMA DetachLeaseStep ==
    ASSUME IInv, NEW s \in Sockets, DetachLease(s)
    PROVE  IInv'
  <1> USE DEF DetachLease, Goto, helloVars, peerVars, roomVars, reaperVars
  <1>0. TypeOK /\ LocalsAgree /\ FreshPeers /\ SingleOwner /\ OwnedIsRegistered
    BY DEF IInv
  <1>1. TypeOK'
    BY <1>0, ServeTypes
  <1>2. listener[s] = peer[s] /\ peer[s] \in Peers
    BY <1>0 DEF LocalsAgree, ListenedSteps, PeerlessSteps
  <1>3. Owns(s, peer[s]) /\ \A t \in Sockets : t # s => ~Owns(t, peer[s])
    BY <1>0, <1>2 DEF Owns, OwnerSteps, SingleOwner
  <1>4. peer[s] \in sessions /\ announced[peer[s]] = "joined"
    BY <1>0, <1>2, <1>3 DEF OwnedIsRegistered
  <1>5. /\ lease' = [lease EXCEPT ![peer[s]] = DetachedLease(clock)]
        /\ Goto(s, "publish") /\ UNCHANGED <<peer, room, listener>>
    BY <1>2, <1>4
  <1>6. \A t \in Sockets : t # s => pc'[t] = pc[t]
    BY <1>0, <1>5 DEF TypeOK
  <1>7. pc'[s] = "publish"
    BY <1>0, <1>5 DEF TypeOK
  <1>8. \A t \in Sockets : \A p \in Peers : Owns(t, p)' <=> (Owns(t, p) /\ t # s)
    BY <1>5, <1>6, <1>7 DEF Owns, OwnerSteps, BoundSteps
  <1>9. \A t \in Sockets : \A p \in Peers : IsBound(t, p)' <=> IsBound(t, p)
    BY <1>5, <1>6, <1>7 DEF IsBound, BoundSteps
  <1>10. DetachedLease(clock) # NoDeadline
    BY <1>0, RegistryAssumption DEF DetachedLease, NoDeadline, TypeOK
  <1>11. /\ lease'[peer[s]] # NoDeadline
         /\ \A p \in Peers : p # peer[s] => lease'[p] = lease[p]
    BY <1>0, <1>2, <1>5, <1>10 DEF TypeOK
  <1>12. LocalsAgree'
    BY <1>0, <1>2, <1>5, <1>6, <1>7 DEF LocalsAgree, PeerlessSteps, ListenedSteps
  <1>13. FreshPeers'
    BY <1>0, <1>5 DEF FreshPeers
  <1>14. SingleOwner'
    BY <1>0, <1>8 DEF SingleOwner
  <1>15. LeaseOrOwner'
    <2> SUFFICES ASSUME NEW p \in sessions
                 PROVE  lease'[p] # NoDeadline <=> ~\E t \in Sockets : Owns(t, p)'
      BY DEF LeaseOrOwner
    <2>1. CASE p = peer[s]
      BY <1>2, <1>3, <1>8, <1>11, <2>1
    <2>2. CASE p # peer[s]
      <3>1. p \in Peers /\ ~Owns(s, p)
        BY <1>0, <2>2 DEF TypeOK, Owns
      <3> QED BY <1>8, <1>11, <2>2, <3>1 DEF IInv, LeaseOrOwner
    <2> QED BY <2>1, <2>2
  <1>16. OwnedIsRegistered'
    BY <1>0, <1>6, <1>8 DEF OwnedIsRegistered
  <1>17. BindingIsOwner'
    BY <1>9 DEF IInv, BindingIsOwner
  <1>18. DoomedIsErased'
    BY <1>8 DEF IInv, DoomedIsErased
  <1>19. WaitingIsAnnounced'
    BY <1>4, <1>8, <1>11 DEF IInv, WaitingIsAnnounced, Erased
  <1>20. SessionIsMember'
    BY DEF IInv, SessionIsMember
  <1> QED BY <1>1, <1>12, <1>13, <1>14, <1>15, <1>16, <1>17, <1>18, <1>19, <1>20 DEF IInv

\* A transport that has set the deadline owns nothing any more.
LEMMA PublishStep ==
    ASSUME IInv, NEW s \in Sockets, PublishDetached(s)
    PROVE  IInv'
  <1> USE DEF PublishDetached, Forget, Goto, helloVars, lobbyVars, peerVars, reaperVars
  <1>0. TypeOK /\ LocalsAgree /\ FreshPeers /\ SingleOwner /\ OwnedIsRegistered
    BY DEF IInv
  <1>1. TypeOK'
    BY <1>0, ServeTypes
  <1>2. \A t \in Sockets : t # s =>
            /\ pc'[t] = pc[t] /\ peer'[t] = peer[t]
            /\ listener'[t] = listener[t] /\ room'[t] = room[t]
    BY <1>0 DEF TypeOK
  <1>3. pc'[s] = "gone" /\ peer'[s] = NoPeer /\ listener'[s] = NoPeer
    BY <1>0 DEF TypeOK
  <1>4. \A t \in Sockets : \A p \in Peers : Owns(t, p)' <=> Owns(t, p)
    BY <1>2, <1>3 DEF Owns, OwnerSteps, BoundSteps
  <1>5. \A t \in Sockets : \A p \in Peers : IsBound(t, p)' <=> IsBound(t, p)
    BY <1>2, <1>3 DEF IsBound, BoundSteps
  <1>6. LocalsAgree'
    BY <1>0, <1>2, <1>3 DEF LocalsAgree, PeerlessSteps, ListenedSteps
  <1>7. FreshPeers'
    BY <1>0, <1>2, <1>3, ConstantTypes DEF FreshPeers
  <1>8. SingleOwner' /\ LeaseOrOwner'
    BY <1>0, <1>4 DEF IInv, SingleOwner, LeaseOrOwner, TypeOK
  <1>9. OwnedIsRegistered'
    BY <1>0, <1>2, <1>3, <1>4 DEF OwnedIsRegistered, Owns, OwnerSteps, BoundSteps
  <1>10. BindingIsOwner'
    BY <1>5 DEF IInv, BindingIsOwner
  <1>11. DoomedIsErased'
    BY <1>4 DEF IInv, DoomedIsErased
  <1>12. WaitingIsAnnounced' /\ SessionIsMember'
    BY <1>4 DEF IInv, WaitingIsAnnounced, SessionIsMember, Erased
  <1> QED BY <1>1, <1>6, <1>7, <1>8, <1>9, <1>10, <1>11, <1>12 DEF IInv

-----------------------------------------------------------------------------
(* Steps of the reaper *)

\* Only sessions under a lapsed deadline are erased, and those have no owner.
LEMMA CollectStep ==
    ASSUME IInv, CollectExpired
    PROVE  IInv'
  <1> DEFINE lost == {p \in sessions : Expires(p, reaperNow)}
  <1> USE DEF CollectExpired, RemainingSessions
  <1>0. TypeOK
    BY DEF IInv
  <1>1. TypeOK'
    BY <1>0, ReaperTypes DEF Reaper
  <1>2. /\ sessions' = sessions \ lost /\ batch' = lost
        /\ UNCHANGED <<pc, peer, room, listener, nextPeer, lease, home, socket, members>>
        /\ UNCHANGED <<announced, issued, victim>>
    BY DEF peerVars, roomVars
  <1>3. \A p \in lost : p \in sessions /\ \A s \in Sockets : ~Owns(s, p)
    BY DEF IInv, LeaseOrOwner, Expires
  <1>4. \A p \in Peers : p \notin lost => (p \in sessions' <=> p \in sessions)
    BY <1>2
  <1> HIDE DEF lost
  <1>5. \A t \in Sockets : \A p \in Peers :
            (Owns(t, p)' <=> Owns(t, p)) /\ (IsBound(t, p)' <=> IsBound(t, p))
    BY <1>2 DEF Owns, IsBound
  <1>6. LocalsAgree' /\ FreshPeers'
    BY <1>2, <1>3 DEF IInv, LocalsAgree, FreshPeers
  <1>7. SingleOwner' /\ LeaseOrOwner'
    BY <1>0, <1>2, <1>5 DEF IInv, SingleOwner, LeaseOrOwner, TypeOK
  <1>8. OwnedIsRegistered'
    BY <1>2, <1>3, <1>4, <1>5 DEF IInv, OwnedIsRegistered
  <1>9. BindingIsOwner'
    BY <1>2, <1>5 DEF IInv, BindingIsOwner
  <1>10. DoomedIsErased'
    BY <1>2, <1>3, <1>5 DEF IInv, DoomedIsErased
  <1>11. WaitingIsAnnounced'
    BY <1>2, <1>3, <1>4, <1>5 DEF IInv, WaitingIsAnnounced, Erased
  <1>12. SessionIsMember'
    BY <1>2 DEF IInv, SessionIsMember
  <1> QED BY <1>1, <1>6, <1>7, <1>8, <1>9, <1>10, <1>11, <1>12 DEF IInv

\* The reaper removes and announces peers that are out of the registry already.
LEMMA ReaperStep ==
    ASSUME IInv, \/ StartExpiry \/ (\E p \in Peers : RemovePeer(p)) \/ GoodbyePeer
                 \/ DeleteRoomIfEmpty \/ Tick \/ UNCHANGED vars
    PROVE  IInv'
  <1> USE DEF transportVars, helloVars, lobbyVars, peerVars, roomVars, reaperVars
  <1>0. TypeOK
    BY DEF IInv
  <1>1. TypeOK'
    BY <1>0, ReaperTypes DEF Reaper
  <1>2. CASE \E q \in Peers : RemovePeer(q)
    <2> PICK q \in Peers : RemovePeer(q)
      BY <1>2
    <2>1. q \notin sessions /\ \A s \in Sockets : ~Owns(s, q)
      BY DEF RemovePeer, IInv, DoomedIsErased
    <2>2. \A p \in Peers : p # q /\ home[p] \in RoomIds /\ p \in members[home[p]] =>
              p \in members'[home[p]]
      BY <1>0 DEF RemovePeer, TypeOK
    <2>3. /\ UNCHANGED <<pc, peer, room, listener, nextPeer, sessions, lease, home, socket>>
          /\ UNCHANGED <<announced, issued>>
          /\ victim' = q /\ batch' \subseteq batch /\ q \in batch
      BY DEF RemovePeer
    <2>4. \A t \in Sockets : \A p \in Peers :
              (Owns(t, p)' <=> Owns(t, p)) /\ (IsBound(t, p)' <=> IsBound(t, p))
      BY <2>3 DEF Owns, IsBound
    <2>5. LocalsAgree' /\ FreshPeers'
      BY <2>3 DEF IInv, LocalsAgree, FreshPeers
    <2>6. SingleOwner' /\ LeaseOrOwner'
      BY <1>0, <2>3, <2>4 DEF IInv, SingleOwner, LeaseOrOwner, TypeOK
    <2>7. OwnedIsRegistered'
      BY <2>1, <2>2, <2>3, <2>4 DEF IInv, OwnedIsRegistered
    <2>8. BindingIsOwner'
      BY <2>3, <2>4 DEF IInv, BindingIsOwner
    <2>9. DoomedIsErased'
      BY <2>1, <2>3, <2>4 DEF IInv, DoomedIsErased
    <2>10. WaitingIsAnnounced'
      BY <2>3, <2>4 DEF IInv, WaitingIsAnnounced, Erased
    <2>11. SessionIsMember'
      BY <1>0, <2>1, <2>2, <2>3 DEF IInv, SessionIsMember, TypeOK
    <2> QED BY <1>1, <2>5, <2>6, <2>7, <2>8, <2>9, <2>10, <2>11 DEF IInv
  <1>3. CASE GoodbyePeer
    <2>1. /\ UNCHANGED <<pc, peer, room, listener, nextPeer, sessions, lease, home, socket>>
          /\ UNCHANGED <<members, issued, batch, victim>>
          /\ announced' = [announced EXCEPT ![victim] = "left"]
      BY <1>3 DEF GoodbyePeer
    <2>2. \A t \in Sockets : \A p \in Peers :
              (Owns(t, p)' <=> Owns(t, p)) /\ (IsBound(t, p)' <=> IsBound(t, p))
      BY <2>1 DEF Owns, IsBound
    <2>3. \A p \in Peers : p # victim => announced'[p] = announced[p]
      BY <1>0, <2>1 DEF TypeOK
    <2>4. victim \notin sessions /\ \A s \in Sockets : \A p \in Peers : Owns(s, p) => p # victim
      BY <1>0 DEF IInv, DoomedIsErased, TypeOK, Peers, NoPeer
    <2>5. LocalsAgree' /\ FreshPeers'
      BY <2>1, <2>3 DEF IInv, LocalsAgree, FreshPeers
    <2>6. SingleOwner' /\ LeaseOrOwner' /\ DoomedIsErased'
      BY <1>0, <2>1, <2>2 DEF IInv, SingleOwner, LeaseOrOwner, DoomedIsErased, TypeOK
    <2>7. OwnedIsRegistered'
      BY <2>1, <2>2, <2>3, <2>4 DEF IInv, OwnedIsRegistered
    <2>8. BindingIsOwner'
      BY <2>1, <2>2 DEF IInv, BindingIsOwner
    <2>9. WaitingIsAnnounced'
      BY <2>1, <2>2, <2>3, <2>4 DEF IInv, WaitingIsAnnounced, Erased
    <2>10. SessionIsMember'
      BY <1>0, <2>1, <2>3, <2>4 DEF IInv, SessionIsMember, TypeOK
    <2> QED BY <1>1, <2>5, <2>6, <2>7, <2>8, <2>9, <2>10 DEF IInv
  <1>4. ASSUME /\ UNCHANGED <<pc, peer, room, listener, nextPeer, sessions, lease, home>>
               /\ UNCHANGED <<socket, members, announced, issued, batch>>
               /\ victim' \in {victim, NoPeer}
        PROVE  IInv'
    BY <1>0, <1>1, <1>4, ConstantTypes
    DEF IInv, LocalsAgree, FreshPeers, SingleOwner, OwnedIsRegistered, LeaseOrOwner,
        BindingIsOwner, DoomedIsErased, WaitingIsAnnounced, SessionIsMember, Owns, IsBound,
        Erased
  <1>5. CASE StartExpiry
    BY <1>4, <1>5 DEF StartExpiry
  <1>6. CASE DeleteRoomIfEmpty
    BY <1>4, <1>6 DEF DeleteRoomIfEmpty
  <1>7. CASE Tick
    BY <1>4, <1>7 DEF Tick
  <1>8. CASE UNCHANGED vars
    BY <1>4, <1>8 DEF vars
  <1> QED BY <1>2, <1>3, <1>5, <1>6, <1>7, <1>8

-----------------------------------------------------------------------------
(* The inductive invariant *)

\* Nothing is registered, bound or handed out when the server starts.
LEMMA InitInvariant == Init => IInv
  <1> SUFFICES ASSUME Init PROVE IInv
    OBVIOUS
  <1> USE ConstantTypes, RegistryAssumption DEF Init
  <1>1. TypeOK
    BY InitTypes
  <1>2. \A s \in Sockets : pc[s] = "none" /\ peer[s] = NoPeer /\ listener[s] = NoPeer
    OBVIOUS
  <1>3. \A s \in Sockets : \A p \in Peers : ~Owns(s, p) /\ ~IsBound(s, p)
    BY <1>2 DEF Owns, IsBound
  <1>4. LocalsAgree
    BY <1>2 DEF LocalsAgree, PeerlessSteps, ListenedSteps
  <1>5. FreshPeers
    BY <1>2 DEF FreshPeers
  <1>6. SingleOwner /\ OwnedIsRegistered /\ LeaseOrOwner
    BY <1>3 DEF SingleOwner, OwnedIsRegistered, LeaseOrOwner
  <1>7. BindingIsOwner
    BY <1>3 DEF BindingIsOwner
  <1>8. DoomedIsErased /\ WaitingIsAnnounced /\ SessionIsMember
    BY <1>3 DEF DoomedIsErased, WaitingIsAnnounced, SessionIsMember, Erased
  <1> QED BY <1>1, <1>4, <1>5, <1>6, <1>7, <1>8 DEF IInv

\* Every critical section of a transport and of the reaper keeps the invariant.
LEMMA StepInvariant == IInv /\ [Next]_vars => IInv'
  <1> SUFFICES ASSUME IInv, [Next]_vars PROVE IInv'
    OBVIOUS
  <1>1. ASSUME NEW s \in Sockets, \E n \in RoomNames : Connect(s, n) PROVE IInv'
    BY <1>1, PeerlessActions
  <1>2. ASSUME NEW s \in Sockets, \E t \in Peers \cup {NoPeer} : ReceiveHello(s, t)
        PROVE  IInv'
    BY <1>2, PeerlessActions
  <1>3. ASSUME NEW s \in Sockets,
               ReceiveMalformed(s) \/ ReceiveOversized(s) \/ Command(s) \/ Destroy(s)
        PROVE  IInv'
    BY <1>3, PeerlessActions, BoundActions
  <1>4. ASSUME NEW s \in Sockets, Handler(s) PROVE IInv'
    <2>1. CASE ClaimPending(s) \/ RefuseResume(s) \/ GetOrCreateRoom(s) \/ CheckCapacity(s)
      BY <2>1, PeerlessActions
    <2>2. CASE AddPeer(s)
      <3>1. CASE EnterRoom(s)
        BY <2>2, <3>1, EnterRoomStep
      <3>2. CASE RefusePeer(s)
        BY <2>2, <3>2, PeerlessActions
      <3> QED BY <2>2, <3>1, <3>2 DEF AddPeer
    <2>3. CASE EmplaceSession(s) \/ ResumeLease(s) \/ ReplaceSocket(s)
      BY <2>3, EmplaceStep, ResumeStep, ReplaceStep
    <2>4. CASE WelcomePeer(s) \/ SetListener(s) \/ SendReady(s) \/ PublishResumed(s)
      BY <2>4, BoundActions
    <2>5. CASE DetachIfCurrent(s)
      BY <2>5, PeerlessActions, DetachStep
    <2>6. CASE DetachLease(s) \/ PublishDetached(s)
      BY <2>6, DetachLeaseStep, PublishStep
    <2> QED BY <1>4, <2>1, <2>2, <2>3, <2>4, <2>5, <2>6 DEF Handler
  <1>5. CASE Reaper \/ Tick \/ UNCHANGED vars
    BY <1>5, CollectStep, ReaperStep DEF Reaper
  <1> QED BY <1>1, <1>2, <1>3, <1>4, <1>5 DEF Next

\* The inductive invariant holds in every reachable state of the registry.
THEOREM InductiveInvariant == Spec => []IInv
  BY InitInvariant, StepInvariant, PTL DEF Spec

-----------------------------------------------------------------------------
(* The properties *)

\* Every variable of the registry keeps its type, through every interleaving
\* of hellos, resumes, disconnections and expiry.
THEOREM TypeCorrect == Spec => []TypeOK
  <1>1. IInv => TypeOK
    BY DEF IInv
  <1> QED BY <1>1, InductiveInvariant, PTL

\* Whatever tokens the transports present to Lobby::acceptSessionHello, a
\* logical peer is never answered for by two of them.
THEOREM PeerHasSingleOwner == Spec => []SingleOwner
  <1>1. IInv => SingleOwner
    BY DEF IInv
  <1> QED BY <1>1, InductiveInvariant, PTL

\* A registered session is owned by a transport or carries the deadline that
\* Lobby::expireSessions looks for: no session is leaked.
THEOREM NoSessionLeaks == Spec => []LeaseOrOwner
  <1>1. IInv => LeaseOrOwner
    BY DEF IInv
  <1> QED BY <1>1, InductiveInvariant, PTL

\* Peer::m_socket is exactly the transport that is serving the peer.
THEOREM BindingFollowsOwner == Spec => []BindingIsOwner
  <1>1. IInv => BindingIsOwner
    BY DEF IInv
  <1> QED BY <1>1, InductiveInvariant, PTL

\* A session that has not expired is a member of its room, which has not been
\* told that it left.
THEOREM SessionStaysMember == Spec => []SessionIsMember
  <1>1. IInv => SessionIsMember
    BY DEF IInv
  <1> QED BY <1>1, InductiveInvariant, PTL

\* Peer::readMessage dispatches commands only of peers that have been announced
\* and have not left.
THEOREM CommandsComeFromMembers == Spec => CommandsWhileJoined
  <1> DEFINE A == \A p \in Peers : commands'[p] # commands[p] =>
                      announced[p] = "joined" /\ p \in members[home[p]]
  <1>1. ASSUME IInv, [Next]_vars PROVE [A]_vars
    <2>1. ASSUME NEW s \in Sockets, Command(s) PROVE A
      <3>1. listener[s] = peer[s] /\ peer[s] \in Peers /\ Owns(s, peer[s])
        BY <1>1, <2>1 DEF IInv, LocalsAgree, ListenedSteps, PeerlessSteps, Command, Owns,
           OwnerSteps, BoundSteps
      <3>2. announced[peer[s]] = "joined" /\ peer[s] \in members[home[peer[s]]]
        BY <1>1, <2>1, <3>1 DEF IInv, OwnedIsRegistered, Command
      <3>3. \A p \in Peers : p # peer[s] => commands'[p] = commands[p]
        BY <1>1, <2>1, <3>1 DEF IInv, TypeOK, Command
      <3> QED BY <3>2, <3>3
    <2>2. ASSUME UNCHANGED commands PROVE A
      BY <2>2
    <2>3. CASE Reaper \/ Tick
      BY <2>2, <2>3 DEF Reaper, StartExpiry, CollectExpired, RemovePeer, GoodbyePeer,
         DeleteRoomIfEmpty, Tick, roomVars
    <2>4. ASSUME NEW s \in Sockets, Handler(s) PROVE A
      BY <2>2, <2>4 DEF Handler, ClaimPending, ResumeLease, RefuseResume, ReplaceSocket,
         GetOrCreateRoom, CheckCapacity, AddPeer, EmplaceSession, WelcomePeer, SetListener,
         SendReady, PublishResumed, DetachIfCurrent, DetachLease, PublishDetached, roomVars
    <2>5. ASSUME NEW s \in Sockets,
                 \/ \E n \in RoomNames : Connect(s, n)
                 \/ \E t \in Peers \cup {NoPeer} : ReceiveHello(s, t)
                 \/ ReceiveMalformed(s) \/ ReceiveOversized(s) \/ Destroy(s)
          PROVE  A
      BY <2>2, <2>5 DEF Connect, ReceiveHello, ReceiveMalformed, ReceiveOversized, Destroy, roomVars
    <2> QED BY <1>1, <2>1, <2>3, <2>4, <2>5 DEF Next
  <1> HIDE DEF A
  <1>2. Spec => [][A]_vars
    BY <1>1, InductiveInvariant, PTL DEF Spec
  <1> QED BY <1>2 DEF A, CommandsWhileJoined

\* Lobby::expireSessions is final: a peer that a browser may still name with its
\* token is never registered or bound again once it has been erased.
THEOREM ErasedStaysErased == Spec => ExpiryIsFinal
  <1> DEFINE A == \A p \in Peers : Erased(p) => p \notin sessions' /\ socket'[p] = NoSocket
  <1>1. ASSUME IInv, [Next]_vars PROVE [A]_vars
    <2>1. \A p \in Peers : Erased(p) => p \notin sessions /\ socket[p] = NoSocket
      <3> SUFFICES ASSUME NEW p \in Peers, Erased(p) PROVE socket[p] = NoSocket
        BY DEF Erased
      <3>1. \A s \in Sockets : ~IsBound(s, p)
        BY <1>1 DEF IInv, WaitingIsAnnounced, IsBound, Owns, OwnerSteps
      <3> QED BY <1>1, <3>1 DEF IInv, BindingIsOwner, TypeOK
    <2>2. ASSUME UNCHANGED <<sessions, socket>> PROVE A
      BY <2>1, <2>2
    <2>3. ASSUME NEW s \in Sockets, AddPeer(s) PROVE A
      <3>1. CASE EnterRoom(s)
        <4>1. ~Erased(nextPeer)
          BY <1>1, <2>3 DEF IInv, FreshPeers, Erased, AddPeer, Peers
        <4>2. UNCHANGED sessions /\ \A p \in Peers : p # nextPeer => socket'[p] = socket[p]
          BY <1>1, <2>3, <3>1 DEF IInv, TypeOK, AddPeer, EnterRoom
        <4> QED BY <2>1, <4>1, <4>2
      <3>2. CASE RefusePeer(s)
        <4>1. UNCHANGED <<sessions, socket>>
          BY <2>3, <3>2 DEF AddPeer, RefusePeer, peerVars
        <4> QED BY <2>2, <4>1
      <3> QED BY <2>3, <3>1, <3>2 DEF AddPeer
    <2>4. ASSUME NEW s \in Sockets, EmplaceSession(s) PROVE A
      <3>1. ~Erased(peer[s]) /\ UNCHANGED socket /\ sessions' = sessions \cup {peer[s]}
        BY <1>1, <2>4 DEF IInv, EmplaceSession, OwnedIsRegistered, Owns, OwnerSteps,
           BoundSteps, Erased, LocalsAgree, PeerlessSteps, peerVars
      <3> QED BY <2>1, <3>1
    <2>5. ASSUME NEW s \in Sockets, ReplaceSocket(s) PROVE A
      <3>1. peer[s] \in Peers /\ Owns(s, peer[s])
        BY <1>1, <2>5 DEF IInv, ReplaceSocket, LocalsAgree, PeerlessSteps, Owns, OwnerSteps
      <3>2. ~Erased(peer[s])
        BY <1>1, <3>1 DEF IInv, WaitingIsAnnounced
      <3>3. UNCHANGED sessions /\ \A p \in Peers : p # peer[s] => socket'[p] = socket[p]
        BY <1>1, <2>5 DEF IInv, TypeOK, ReplaceSocket, lobbyVars
      <3> QED BY <2>1, <3>2, <3>3
    <2>6. ASSUME NEW s \in Sockets, DetachIfCurrent(s) PROVE A
      <3>1. UNCHANGED sessions /\ \A p \in Peers : socket'[p] \in {socket[p], NoSocket}
        BY <1>1, <2>6 DEF IInv, TypeOK, DetachIfCurrent, lobbyVars
      <3> QED BY <2>1, <3>1
    <2>7. CASE CollectExpired
      BY <2>1, <2>7 DEF CollectExpired, RemainingSessions, peerVars
    <2>8. CASE Reaper \/ Tick
      BY <2>2, <2>7, <2>8 DEF Reaper, StartExpiry, RemovePeer, GoodbyePeer,
         DeleteRoomIfEmpty, Tick, lobbyVars, peerVars
    <2>9. ASSUME NEW s \in Sockets,
                 \/ \E n \in RoomNames : Connect(s, n)
                 \/ \E t \in Peers \cup {NoPeer} : ReceiveHello(s, t)
                 \/ ReceiveMalformed(s) \/ ReceiveOversized(s) \/ Command(s) \/ Destroy(s)
          PROVE  A
      <3>1. UNCHANGED <<sessions, socket>>
        BY <2>9 DEF Connect, ReceiveHello, ReceiveMalformed, ReceiveOversized, Command, Destroy,
           lobbyVars, peerVars
      <3> QED BY <2>2, <3>1
    <2>10. ASSUME NEW s \in Sockets, Handler(s) PROVE A
      <3>1. CASE \/ ClaimPending(s) \/ RefuseResume(s) \/ CheckCapacity(s) \/ WelcomePeer(s)
                 \/ SetListener(s) \/ SendReady(s) \/ PublishResumed(s) \/ PublishDetached(s)
                 \/ ResumeLease(s) \/ GetOrCreateRoom(s) \/ DetachLease(s)
        <4>1. UNCHANGED <<sessions, socket>>
          BY <3>1 DEF ClaimPending, RefuseResume, CheckCapacity, WelcomePeer, SetListener,
             SendReady, PublishResumed, PublishDetached, ResumeLease, GetOrCreateRoom,
             DetachLease, lobbyVars, peerVars
        <4> QED BY <2>2, <4>1
      <3> QED BY <2>3, <2>4, <2>5, <2>6, <2>10, <3>1 DEF Handler
    <2> QED BY <1>1, <2>8, <2>9, <2>10 DEF Next
  <1> HIDE DEF A
  <1>2. Spec => [][A]_vars
    BY <1>1, InductiveInvariant, PTL DEF Spec
  <1> QED BY <1>2 DEF A, ExpiryIsFinal
=============================================================================
