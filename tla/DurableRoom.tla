----------------------------- MODULE DurableRoom -----------------------------
(***************************************************************************)
(* The durable log of one room and the way its events reach the browsers:  *)
(* Room::publishDurable, the outbound queue of each Peer, the snapshot that *)
(* Lobby::acceptSessionHello sends as SESSION_READY, and the reconciliation *)
(* of the browser (reliability.js and onMessage of chat.js).               *)
(*                                                                         *)
(* A step of the server is one critical section.  publishDurable holds the *)
(* publication lock from the append to the last push, so the event being   *)
(* broadcast is always the last of the log and tells who is publishing.    *)
(* A client stands for a browser tab together with its logical peer.       *)
(*                                                                         *)
(* Abstractions: an event is its kind, its subject and whether its frame   *)
(* is too long for parseProtocolMessage: the server writes a command that  *)
(* it has accepted anew, with escapes and further fields.  A snapshot is   *)
(* too long with such an event, or with too many others.  Which transports *)
(* may resume is the matter of SessionRegistry, here a detached peer that  *)
(* has not expired may.  A frame stays in the outbound queue until the      *)
(* browser handles it, and everything not handled by then is lost with the *)
(* transport.  Acknowledgements and transient frames are left out.          *)
(*                                                                         *)
(* Where a definition is preceded by one that differs from it in a detail, *)
(* that one is a plausible mistake in the same lines.                      *)
(***************************************************************************)
EXTENDS Integers, Sequences, FiniteSets

CONSTANTS
    Clients,
    NoClient,       \* no target chosen
    Retained,       \* maxRoomHistoryMessages
    MaxFrames,      \* maxOutboundFrames
    MaxSeen,        \* MAX_SEEN of reliability.js
    FrameLimit,     \* what parseProtocolMessage admits, in short events of a snapshot
    MaxLog,         \* bound on the events published
    MaxGeneration   \* bound on the transports of a peer

ASSUME RoomAssumption ==
    /\ NoClient \notin Clients
    /\ Retained \in Nat /\ FrameLimit \in Nat /\ MaxLog \in Nat
    /\ MaxFrames \in Nat \ {0} /\ MaxSeen \in Nat \ {0} /\ MaxGeneration \in Nat \ {0}

VARIABLES
    log,         \* the sequenced events; Room::m_history is its tail
    members,     \* Room::m_peerById
    pubStep, pubTodo, pubTarget, pubGeneration,  \* the publication in progress
    step,        \* per client: where its hello, its command or its expiry stands
    bound,       \* clients whose Peer::m_socket is set
    generation,  \* Peer::m_socketGeneration
    invalid,     \* clients whose current connection was invalidated
    queue,       \* Peer::m_outboundFrames
    snapPeers, snapLatest, snapResync,  \* fields of the last SESSION_READY
    snapFrom, snapTo,                   \* its history; the browser consumes it from the front
    snapAt,      \* how long the log was when snapPeers was read
    mode,        \* transport.state and hydratingHistory of the browser
    holders,     \* browsers that hold a resume token
    inbox,       \* handshakeInbox
    cursor, seen,  \* highestServerSeq and `seen`
    base, shown, \* where the rendered history starts, and what it renders
    roster,      \* peersMap
    whole        \* browsers whose snapshot covers every event since snapPeers

pubVars == <<pubStep, pubTodo, pubTarget, pubGeneration>>
peerVars == <<bound, generation, invalid>>
snapVars == <<snapPeers, snapLatest, snapResync, snapFrom, snapTo, snapAt>>
pageVars == <<cursor, seen, base, shown, roster>>
browserVars == <<mode, holders, inbox, pageVars, whole>>
vars == <<log, members, pubVars, step, peerVars, queue, snapVars, browserVars>>

Kinds == {"joined", "left", "message", "withdrawn"}
Sizes == {"short", "long"}
Steps == {"absent", "welcome", "welcoming", "capability", "withdraw", "peers", "latest",
          "history", "send", "open", "command", "detached", "leaving", "bye", "gone"}
Modes == {"offline", "handshaking", "hydrating", "draining", "online"}
Latest == Len(log)
\* The sequence number that stands for a SESSION_READY frame.
Ready == 0

TypeOK ==
    /\ log \in Seq([kind : Kinds, who : Clients, size : Sizes])
    /\ members \subseteq Clients
    /\ pubStep \in {"idle", "members", "send"}
    /\ pubTodo \subseteq Clients
    /\ pubTarget \in Clients \cup {NoClient}
    /\ pubGeneration \in Nat
    /\ step \in [Clients -> Steps]
    /\ bound \subseteq Clients
    /\ generation \in [Clients -> Nat]
    /\ invalid \subseteq Clients
    /\ queue \in [Clients -> Seq([gen : Nat, seq : Nat])]
    /\ \A c \in Clients : Len(queue[c]) <= MaxFrames
    /\ snapPeers \in [Clients -> SUBSET Clients]
    /\ snapLatest \in [Clients -> Nat]
    /\ snapResync \subseteq Clients
    /\ snapFrom \in [Clients -> Nat]
    /\ snapTo \in [Clients -> Nat]
    /\ snapAt \in [Clients -> Nat]
    /\ mode \in [Clients -> Modes]
    /\ holders \subseteq Clients
    /\ inbox \in [Clients -> Seq(Nat)]
    /\ cursor \in [Clients -> Nat]
    /\ seen \in [Clients -> SUBSET Nat]
    /\ base \in [Clients -> Nat]
    /\ shown \in [Clients -> Seq(Nat)]
    /\ roster \in [Clients -> SUBSET Clients]
    /\ whole \subseteq Clients

Init ==
    /\ log = <<>>
    /\ members = {}
    /\ pubStep = "idle"
    /\ pubTodo = {}
    /\ pubTarget = NoClient
    /\ pubGeneration = 0
    /\ step = [c \in Clients |-> "absent"]
    /\ bound = {}
    /\ generation = [c \in Clients |-> 0]
    /\ invalid = {}
    /\ queue = [c \in Clients |-> <<>>]
    /\ snapPeers = [c \in Clients |-> {}]
    /\ snapLatest = [c \in Clients |-> 0]
    /\ snapResync = {}
    /\ snapFrom = [c \in Clients |-> 1]
    /\ snapTo = [c \in Clients |-> 0]
    /\ snapAt = [c \in Clients |-> 0]
    /\ mode = [c \in Clients |-> "offline"]
    /\ holders = {}
    /\ inbox = [c \in Clients |-> <<>>]
    /\ cursor = [c \in Clients |-> 0]
    /\ seen = [c \in Clients |-> {}]
    /\ base = [c \in Clients |-> 0]
    /\ shown = [c \in Clients |-> <<>>]
    /\ roster = [c \in Clients |-> {}]
    /\ whole = {}

Goto(c, s) == step' = [step EXCEPT ![c] = s]

\* The publications that are under way but not in the log yet; an action that
\* leads to one more keeps the log within MaxLog.
Promised == {c \in Clients : step[c] \in {"welcome", "capability", "leaving"}}
MayPublish == Latest + Cardinality(Promised) < MaxLog

-----------------------------------------------------------------------------
(* Room::publishDurable *)

\* Room::addHistoryMessage, once the publication lock is taken.
AddHistoryMessage(kind, c, size) ==
    /\ pubStep = "idle"
    /\ log' = Append(log, [kind |-> kind, who |-> c, size |-> size])
    /\ pubStep' = "members"
    /\ UNCHANGED <<members, pubTodo, pubTarget, pubGeneration, peerVars, queue, snapVars,
                   browserVars>>

\* The copy of m_peerById in Room::sendMessageAsync.  A joiner is left out of
\* its own announcement.
SnapshotOthers ==
    /\ pubStep = "members"
    /\ pubStep' = "send"
    /\ pubTodo' = members \ {log[Latest].who}
    /\ UNCHANGED <<log, members, pubTarget, pubGeneration, step, peerVars, queue, snapVars,
                   browserVars>>

SnapshotMembers ==
    LET e == log[Latest]
    IN  /\ pubStep = "members"
        /\ pubStep' = "send"
        /\ pubTodo' = members \ (IF e.kind = "joined" THEN {e.who} ELSE {})
        /\ UNCHANGED <<log, members, pubTarget, pubGeneration, step, peerVars, queue,
                       snapVars, browserVars>>

\* Peer::sendMessageAsync of the next member: the binding under its first lock.
ReadBinding(c) ==
    /\ pubStep = "send"
    /\ pubTarget = NoClient
    /\ c \in pubTodo
    /\ \/ /\ c \in bound
          /\ pubTarget' = c
          /\ pubGeneration' = generation[c]
          /\ UNCHANGED pubTodo
       \/ /\ c \notin bound
          /\ pubTodo' = pubTodo \ {c}
          /\ UNCHANGED <<pubTarget, pubGeneration>>
    /\ UNCHANGED <<log, members, pubStep, step, peerVars, queue, snapVars, browserVars>>

\* The rest of Peer::sendMessageAsync: the frame is queued for the binding that
\* was read, or the queue is full and that transport is given up.
HasFrameRoomOffByOne(c) == Len(queue[c]) <= MaxFrames
HasFrameRoom(c) == Len(queue[c]) < MaxFrames

InvalidateNothing(c, g) == UNCHANGED invalid
InvalidateSocketIfCurrent(c, g) ==
    invalid' = IF g = generation[c] /\ c \in bound THEN invalid \cup {c} ELSE invalid

Enqueue(c, g, n) ==
    \/ /\ HasFrameRoom(c)
       /\ queue' = [queue EXCEPT ![c] = Append(@, [gen |-> g, seq |-> n])]
       /\ UNCHANGED invalid
    \/ /\ ~HasFrameRoom(c)
       /\ InvalidateSocketIfCurrent(c, g)
       /\ UNCHANGED queue

Push(c) ==
    /\ pubTarget = c
    /\ Enqueue(c, pubGeneration, Latest)
    /\ pubTodo' = pubTodo \ {c}
    /\ pubTarget' = NoClient
    /\ pubGeneration' = 0
    /\ UNCHANGED <<log, members, pubStep, step, bound, generation, snapVars, browserVars>>

\* The lock is released and the handler that published goes on.
FinishPublish ==
    LET c == log[Latest].who
    IN  /\ pubStep = "send"
        /\ pubTodo = {}
        /\ pubStep' = "idle"
        /\ Goto(c, CASE step[c] \in {"welcoming", "withdraw"} -> "peers"
                     [] step[c] = "command" -> "open"
                     [] OTHER -> "gone")
        /\ UNCHANGED <<log, members, pubTodo, pubTarget, pubGeneration, peerVars, queue,
                       snapVars, browserVars>>

-----------------------------------------------------------------------------
(* The life of a peer *)

\* A fresh hello: Peer's constructor and Room::addPeer.
Join(c) ==
    /\ step[c] = "absent"
    /\ MayPublish
    /\ members' = members \cup {c}
    /\ bound' = bound \cup {c}
    /\ generation' = [generation EXCEPT ![c] = 1]
    /\ mode' = [mode EXCEPT ![c] = "handshaking"]
    /\ Goto(c, "welcome")
    /\ UNCHANGED <<log, pubVars, invalid, queue, snapVars, holders, inbox, pageVars, whole>>

\* Room::welcomePeer.
WelcomePeer(c) ==
    /\ step[c] = "welcome"
    /\ AddHistoryMessage("joined", c, "short")
    /\ Goto(c, "welcoming")

\* restoreCursor of a page that has just been loaded.
CursorLost(c) == cursor' = [cursor EXCEPT ![c] = 0]
RestoreCursor(c) == UNCHANGED cursor

\* Peer::replaceSocket for a hello with the token.  A page that was reloaded
\* has nothing but the stored token and cursor (chat.js sendHello), and a new
\* file capability.
Resume(c) ==
    /\ step[c] = "detached"
    /\ c \in holders
    /\ generation[c] < MaxGeneration
    /\ bound' = bound \cup {c}
    /\ generation' = [generation EXCEPT ![c] = @ + 1]
    /\ mode' = [mode EXCEPT ![c] = "handshaking"]
    /\ \/ /\ Goto(c, "peers")
          /\ UNCHANGED pageVars
       \/ /\ MayPublish
          /\ Goto(c, "capability")
          /\ seen' = [seen EXCEPT ![c] = {}]
          /\ base' = [base EXCEPT ![c] = cursor[c]]
          /\ shown' = [shown EXCEPT ![c] = <<>>]
          /\ roster' = [roster EXCEPT ![c] = {}]
          /\ RestoreCursor(c)
    /\ UNCHANGED <<log, members, pubVars, invalid, queue, snapVars, holders, inbox, whole>>

\* Room::withdrawPeerFiles when the capability changed: nothing to withdraw, or
\* a durable notice to everybody, which names all the files.
NothingToWithdraw(c) ==
    /\ step[c] = "capability"
    /\ Goto(c, "peers")
    /\ UNCHANGED <<log, members, pubVars, peerVars, queue, snapVars, browserVars>>

WithdrawPeerFiles(c) ==
    /\ step[c] = "capability"
    /\ \E size \in Sizes : AddHistoryMessage("withdrawn", c, size)
    /\ Goto(c, "withdraw")

\* A chat or file-share command of the bound transport (Peer::readMessage), which
\* keeps the transport lock until the publication is over.
Command(c) ==
    /\ step[c] = "open"
    /\ MayPublish
    /\ \E size \in Sizes : AddHistoryMessage("message", c, size)
    /\ Goto(c, "command")

\* A SESSION_READY that has been handled, or was lost with its transport.
ForgetSnapshot(c) ==
    /\ snapPeers' = [snapPeers EXCEPT ![c] = {}]
    /\ snapLatest' = [snapLatest EXCEPT ![c] = 0]
    /\ snapResync' = snapResync \ {c}
    /\ snapFrom' = [snapFrom EXCEPT ![c] = 1]
    /\ snapTo' = [snapTo EXCEPT ![c] = 0]
    /\ snapAt' = [snapAt EXCEPT ![c] = 0]

\* The transport ends on both sides: Peer::detachIfCurrent, and onclose in the
\* browser, which has finished the message it was handling.
Detach(c) ==
    /\ step[c] = "open"
    /\ mode[c] \in {"handshaking", "online"}
    /\ bound' = bound \ {c}
    /\ invalid' = invalid \ {c}
    /\ mode' = [mode EXCEPT ![c] = "offline"]
    /\ inbox' = [inbox EXCEPT ![c] = <<>>]
    /\ ForgetSnapshot(c)
    /\ Goto(c, "detached")
    /\ UNCHANGED <<log, members, pubVars, generation, queue, holders, pageVars, whole>>

\* Lobby::expireSessions, one peer at a time: Room::removePeerById and
\* Room::goodbyePeer.
RemovePeerById(c) ==
    /\ step[c] = "detached"
    /\ \A d \in Clients : step[d] \notin {"leaving", "bye"}
    /\ MayPublish
    /\ members' = members \ {c}
    /\ Goto(c, "leaving")
    /\ UNCHANGED <<log, pubVars, peerVars, queue, snapVars, browserVars>>

GoodbyePeer(c) ==
    /\ step[c] = "leaving"
    /\ AddHistoryMessage("left", c, "short")
    /\ Goto(c, "bye")

-----------------------------------------------------------------------------
(* SESSION_READY, put together from three reads under different locks *)

GetPeers(c) ==
    /\ step[c] = "peers"
    /\ snapPeers' = [snapPeers EXCEPT ![c] = members]
    /\ snapAt' = [snapAt EXCEPT ![c] = Latest]
    /\ Goto(c, "latest")
    /\ UNCHANGED <<log, members, pubVars, peerVars, queue, snapLatest, snapResync, snapFrom,
                   snapTo, browserVars>>

LatestServerSeq(c) ==
    /\ step[c] = "latest"
    /\ snapLatest' = [snapLatest EXCEPT ![c] = Latest]
    /\ Goto(c, "history")
    /\ UNCHANGED <<log, members, pubVars, peerVars, queue, snapPeers, snapResync, snapFrom,
                   snapTo, snapAt, browserVars>>

\* The first event that retainLast has kept.
Earliest == IF Latest > Retained THEN Latest - Retained + 1 ELSE 1

\* requiresReplayResync: the cursor is not of this log, or the events after it
\* are not all retained.
RequiresReplayResync(at) ==
    at > Latest \/ IF Earliest > Latest THEN at < Latest ELSE at < Earliest - 1

\* Room::getHistoryAfter.  The cursor of the hello is the browser's, which does
\* not move while it is handshaking.
GetHistoryAfter(c) ==
    /\ step[c] = "history"
    /\ snapResync' = IF RequiresReplayResync(cursor[c])
                     THEN snapResync \cup {c} ELSE snapResync \ {c}
    /\ snapFrom' = [snapFrom EXCEPT ![c] =
                        IF ~RequiresReplayResync(cursor[c]) /\ cursor[c] >= Earliest
                        THEN cursor[c] + 1 ELSE Earliest]
    /\ snapTo' = [snapTo EXCEPT ![c] = Latest]
    /\ Goto(c, "send")
    /\ UNCHANGED <<log, members, pubVars, peerVars, queue, snapPeers, snapLatest, snapAt,
                   browserVars>>

SendReadyStale(c) ==
    /\ step[c] = "send"
    /\ Enqueue(c, 1, Ready)
    /\ Goto(c, "open")
    /\ UNCHANGED <<log, members, pubVars, bound, generation, snapVars, browserVars>>

SendReady(c) ==
    /\ step[c] = "send"
    /\ Enqueue(c, generation[c], Ready)
    /\ Goto(c, "open")
    /\ UNCHANGED <<log, members, pubVars, bound, generation, snapVars, browserVars>>

-----------------------------------------------------------------------------
(* The drain of the outbound queue, and the browser *)

\* Peer::isCurrentBinding of the frame at the front.
IsCurrentBinding(c) == c \in bound /\ Head(queue[c]).gen = generation[c]

Arrives(c) == queue[c] # <<>> /\ IsCurrentBinding(c) /\ c \notin invalid
TakeOutboundFrame(c) == queue' = [queue EXCEPT ![c] = Tail(@)]

\* A frame of an earlier transport is skipped; one of an invalidated
\* transport cannot be written.
DropFrame(c) ==
    /\ queue[c] # <<>>
    /\ ~IsCurrentBinding(c) \/ c \in invalid
    /\ TakeOutboundFrame(c)
    /\ UNCHANGED <<log, members, pubVars, step, peerVars, snapVars, browserVars>>

\* acceptSequence and the renderers of chat.js: an event is shown once, and
\* joins and leaves move the roster.
AdmitsUnseen(c, n) == n \notin seen[c]
Admits(c, n) ==
    /\ n > cursor[c]
    /\ n \notin seen[c]
    /\ Cardinality(seen[c]) < MaxSeen \/ n = cursor[c] + 1

RosterGrown(r, e) == IF e.kind = "joined" THEN r \cup {e.who} ELSE r
RosterAfter(r, e) ==
    CASE e.kind = "joined" -> r \cup {e.who}
      [] e.kind = "left" -> r \ {e.who}
      [] OTHER -> r

Renders(c, n) ==
    LET s == seen[c] \cup {n}
        top == CHOOSE m \in cursor[c] .. Latest :
                   (cursor[c] + 1 .. m) \subseteq s /\ m + 1 \notin s
    IN  /\ cursor' = [cursor EXCEPT ![c] = top]
        /\ seen' = [seen EXCEPT ![c] = {m \in s : m > top}]
        /\ shown' = [shown EXCEPT ![c] = Append(@, n)]
        /\ roster' = [roster EXCEPT ![c] = RosterAfter(@, log[n])]
        /\ UNCHANGED base

AcceptDurable(c, n) ==
    \/ Admits(c, n) /\ Renders(c, n)
    \/ ~Admits(c, n) /\ UNCHANGED pageVars

\* parseProtocolMessage admits the frame of an event, or a SESSION_READY.
Fits(n) == log[n].size = "short"
SnapshotFits(c) ==
    /\ snapTo[c] - snapFrom[c] + 1 <= FrameLimit
    /\ \A n \in snapFrom[c] .. snapTo[c] : Fits(n)
FrameFits(c) == IF Head(queue[c]).seq = Ready THEN SnapshotFits(c) ELSE Fits(Head(queue[c]).seq)

\* What is too long is discarded, and the browser does not learn of it.
DiscardFrame(c) ==
    /\ Arrives(c)
    /\ mode[c] \in {"handshaking", "online"}
    /\ ~FrameFits(c)
    /\ TakeOutboundFrame(c)
    /\ UNCHANGED <<log, members, pubVars, step, peerVars, snapVars, browserVars>>

\* onMessage with a durable event: kept in the inbox while handshaking.
DeliverEvent(c) ==
    LET n == Head(queue[c]).seq
    IN  /\ Arrives(c)
        /\ n # Ready
        /\ FrameFits(c)
        /\ TakeOutboundFrame(c)
        /\ \/ /\ mode[c] = "handshaking"
              /\ inbox' = [inbox EXCEPT ![c] = Append(@, n)]
              /\ UNCHANGED pageVars
           \/ /\ mode[c] = "online"
              /\ AcceptDurable(c, n)
              /\ UNCHANGED inbox
        /\ UNCHANGED <<log, members, pubVars, step, peerVars, snapVars, mode, holders, whole>>

\* replaceHistory: where the window starts after a replacement.
Baseline(c) == IF snapFrom[c] <= snapTo[c] THEN snapFrom[c] - 1 ELSE snapLatest[c]

Replaces(c) == c \in snapResync \/ generation[c] = 1

\* onMessage with SESSION_READY, up to the rendering of its history.
DeliverReady(c) ==
    /\ Arrives(c)
    /\ Head(queue[c]).seq = Ready
    /\ mode[c] = "handshaking"
    /\ FrameFits(c)
    /\ TakeOutboundFrame(c)
    /\ roster' = [roster EXCEPT ![c] = snapPeers[c]]
    /\ \/ /\ Replaces(c)
          /\ seen' = [seen EXCEPT ![c] = {}]
          /\ cursor' = [cursor EXCEPT ![c] = Baseline(c)]
          /\ base' = [base EXCEPT ![c] = Baseline(c)]
          /\ shown' = [shown EXCEPT ![c] = <<>>]
          /\ whole' = IF Baseline(c) <= snapAt[c] THEN whole \cup {c} ELSE whole \ {c}
       \/ /\ ~Replaces(c)
          /\ whole' = whole \cup {c}
          /\ UNCHANGED <<seen, cursor, base, shown>>
    /\ mode' = [mode EXCEPT ![c] = "hydrating"]
    /\ UNCHANGED <<log, members, pubVars, step, peerVars, snapVars, holders, inbox>>

Hydrate(c) ==
    /\ mode[c] = "hydrating"
    /\ snapFrom[c] <= snapTo[c]
    /\ AcceptDurable(c, snapFrom[c])
    /\ snapFrom' = [snapFrom EXCEPT ![c] = @ + 1]
    /\ UNCHANGED <<log, members, pubVars, step, peerVars, queue, snapPeers, snapLatest,
                   snapResync, snapTo, snapAt, mode, holders, inbox, whole>>

\* saveSession and transport.ready.
BecomeReady(c) ==
    /\ mode[c] = "hydrating"
    /\ snapFrom[c] > snapTo[c]
    /\ holders' = holders \cup {c}
    /\ mode' = [mode EXCEPT ![c] = "draining"]
    /\ ForgetSnapshot(c)
    /\ UNCHANGED <<log, members, pubVars, step, peerVars, queue, inbox, pageVars, whole>>

\* handshakeInbox.drain.
DrainInbox(c) ==
    /\ mode[c] = "draining"
    /\ \/ /\ inbox[c] # <<>>
          /\ AcceptDurable(c, Head(inbox[c]))
          /\ inbox' = [inbox EXCEPT ![c] = Tail(@)]
          /\ UNCHANGED mode
       \/ /\ inbox[c] = <<>>
          /\ mode' = [mode EXCEPT ![c] = "online"]
          /\ UNCHANGED <<inbox, pageVars>>
    /\ UNCHANGED <<log, members, pubVars, step, peerVars, queue, snapVars, holders, whole>>

-----------------------------------------------------------------------------
Publisher ==
    \/ SnapshotMembers \/ FinishPublish
    \/ \E c \in Clients : ReadBinding(c) \/ Push(c)

\* What a handler or the reaper goes on to do once it has begun.
Handler(c) ==
    \/ WelcomePeer(c) \/ NothingToWithdraw(c) \/ WithdrawPeerFiles(c) \/ GoodbyePeer(c)
    \/ GetPeers(c) \/ LatestServerSeq(c) \/ GetHistoryAfter(c) \/ SendReady(c)

\* The drain coroutine of a peer.
Drain(c) == DropFrame(c) \/ DiscardFrame(c) \/ DeliverEvent(c) \/ DeliverReady(c)

\* The rest of the browser's handling of one SESSION_READY.
Browser(c) == Hydrate(c) \/ BecomeReady(c) \/ DrainInbox(c)

Next ==
    \/ Publisher
    \/ \E c \in Clients :
          \/ Join(c) \/ Resume(c) \/ Command(c) \/ Detach(c) \/ RemovePeerById(c)
          \/ Handler(c) \/ Drain(c) \/ Browser(c)

\* The executor and the browser go on with what they have begun.  Handlers
\* compete for the publication lock, which a mutex grants to each in the end.
\* Nobody has to join, speak, leave or come back.
Fairness ==
    /\ WF_vars(Publisher)
    /\ \A c \in Clients : SF_vars(Handler(c)) /\ WF_vars(Drain(c)) /\ WF_vars(Browser(c))

Spec == Init /\ [][Next]_vars
FairSpec == Spec /\ Fairness

-----------------------------------------------------------------------------
(* Correctness *)

Rendered(c) == {shown[c][i] : i \in DOMAIN shown[c]}

\* The browser has no room for another event behind a hole.
IsFull(c) == Cardinality(seen[c]) >= MaxSeen

\* A browser shows the events after its base in order and each once, and leaves
\* out none but those that are too long for it, although broadcasts, snapshots,
\* reconnections and full queues interleave, and events come both live and in
\* snapshots.  Its cursor and what it has seen beyond are what it shows.
ShownIsWindow ==
    \A c \in Clients :
        /\ \A i, j \in DOMAIN shown[c] : i < j => shown[c][i] < shown[c][j]
        /\ Rendered(c) = (base[c] + 1 .. cursor[c]) \cup seen[c]
        /\ \A m \in Rendered(c) : \A n \in base[c] + 1 .. m : n \in Rendered(c) \/ ~Fits(n)

\* A browser that is online and has handled everything sent to it lacks nothing
\* of the log but what was too long for it, and what acceptSequence refuses
\* once MAX_SEEN events are held behind that: no event fell between the snapshot
\* of publishDurable's members, the binding it read, and the history of
\* SESSION_READY, and the cursor stops for nothing but a frame that was discarded.
NothingLost ==
    \A c \in Clients :
        mode[c] = "online" /\ c \notin invalid /\ queue[c] = <<>> /\ pubStep = "idle"
        => /\ cursor[c] = Latest \/ ~Fits(cursor[c] + 1)
           /\ \A n \in cursor[c] + 1 .. Latest : n \in seen[c] \/ ~Fits(n) \/ IsFull(c)

\* Its roster is then the room's, once everybody who came or went has been
\* announced, provided that no event between the reading of the peers and
\* the reading of the history was trimmed from the history, and that the
\* browser has not had to refuse events behind one that was too long.
RosterAgrees ==
    \A c \in whole :
        /\ mode[c] = "online" /\ c \notin invalid /\ queue[c] = <<>> /\ pubStep = "idle"
        /\ ~IsFull(c)
        /\ \A d \in Clients : step[d] \notin {"welcome", "leaving"}
        => roster[c] = members

\* The room does what RoomLog promises: the mapping takes the browser's cursor
\* for the end of its window.
Abstract == INSTANCE RoomLog WITH last <- cursor
LogRefined == Abstract!LogSpec

\* An event that was published reaches a browser that stays connected, unless
\* its frame is too long or the browser refuses it behind one that was.
EventsArrive ==
    \A c \in Clients : \A n \in 1 .. MaxLog :
        (mode[c] = "online" /\ n <= Latest /\ Fits(n)) ~>
            (cursor[c] >= n \/ n \in seen[c] \/ IsFull(c) \/ mode[c] # "online" \/ c \in invalid)

\* A browser that said hello gets its snapshot and goes on, or loses the
\* transport, or was sent a snapshot that parseProtocolMessage does not admit.
HandshakeEnds ==
    \A c \in Clients :
        (mode[c] = "handshaking") ~>
            (mode[c] # "handshaking" \/ c \in invalid \/ ~SnapshotFits(c))

-----------------------------------------------------------------------------
(* What the repository says and the code does not do *)

\* chat-ui.spec.mjs: "a newcomer receives history", and README: a resume
\* "replays sequenced room history".  The browser is then online in the end,
\* unless it loses the transport.
HistoryIsReceived ==
    \A c \in Clients : (mode[c] = "handshaking") ~> (mode[c] # "handshaking" \/ c \in invalid)
=============================================================================
