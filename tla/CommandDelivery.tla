--------------------------- MODULE CommandDelivery ---------------------------
(***************************************************************************)
(* How the commands of one browser tab (chat messages and file shares) get  *)
(* to the room and how the tab learns what became of them: the outbox of   *)
(* reliability.js, its replay after SESSION_READY, the dedupe window of    *)
(* Peer, MESSAGE_ACK and the terminal errors of onApiError.                *)
(*                                                                         *)
(* The tab speaks over one transport at a time; the server may still be    *)
(* working through what came over an earlier one.  A transport is lost on  *)
(* the two sides independently, and everything in flight with it.          *)
(*                                                                         *)
(* Abstractions: a command is its place in the order of submission; the    *)
(* log holds this tab's commands only; of the hello the model keeps who    *)
(* may resume (a registered session with no transport, see SessionRegistry) *)
(* and that a fresh hello may find the room full.  How long SESSION_READY  *)
(* gets is the matter of DurableRoom; here it may always be too long for   *)
(* parseProtocolMessage.  A submission that finds the outbox full changes  *)
(* nothing and is left out.                                                *)
(*                                                                         *)
(* Where a definition is preceded by one that differs from it in a detail, *)
(* that one is a plausible mistake in the same lines.                      *)
(***************************************************************************)
EXTENDS Integers, Sequences, FiniteSets, SequencesExt

CONSTANTS
    MaxCommands,   \* bound on the commands submitted
    MaxSessions,   \* bound on the sessions of the tab; afterwards the room is full
    MaxLosses,     \* bound on the transports lost and the reloads
    MaxOutbox,     \* MAX_OUTBOX
    MaxDedupe,     \* maxDedupeEntries
    MaxFiles,      \* Limits::filesPerPeer
    FileShares,    \* commands that share a file
    Invalid,       \* commands whose content the server refuses
    Oversized      \* commands longer than maxMessageSizeBytes

Commands == 1 .. MaxCommands
Sessions == 1 .. MaxSessions

ASSUME DeliveryAssumption ==
    /\ MaxCommands \in Nat /\ MaxSessions \in Nat /\ MaxLosses \in Nat
    /\ MaxOutbox \in Nat /\ MaxDedupe \in Nat /\ MaxFiles \in Nat
    /\ FileShares \subseteq Commands
    /\ Invalid \subseteq Commands
    /\ Oversized \subseteq Commands

NoSession == 0
NoId == 0

VARIABLES
    next,      \* the first command that is not submitted yet
    outbox,    \* reliability.outbox, a Map, in insertion order
    acked, rejected,  \* what the tab has said of its commands
    mode,      \* transport.state
    token,     \* the session of the stored resume token
    newPage,   \* the page has a file capability that its peer does not know
    wire,      \* the session that the tab's transport is bound to
    down,      \* frames on their way to the tab
    nextSession, live,  \* sessions made so far, and those in Lobby::m_sessions
    bound,     \* sessions whose peer has a transport
    closing,   \* sessions whose transport the server is closing after an error
    up,        \* per session: commands on their way over its transport
    dedupe,    \* per session: Peer::m_dedupe
    files,     \* per session: how many files Peer::m_files holds
    log,       \* the commands published to the room
    losses

memory == <<outbox, acked, rejected>>
tabVars == <<next, memory, mode, token, newPage, wire, down>>
sessionVars == <<nextSession, live, bound, closing>>
commandVars == <<up, dedupe, files, log>>
vars == <<tabVars, sessionVars, commandVars, losses>>

Ready == [kind |-> "ready", id |-> NoId]
LongReady == [kind |-> "long", id |-> NoId]
Refused == [kind |-> "refused", id |-> NoId]
Ack(i) == [kind |-> "ack", id |-> i]
ApiError(i) == [kind |-> "error", id |-> i]
Frames == [kind : {"ready", "long", "refused", "ack", "error"}, id : Commands \cup {NoId}]

Published == {log[i].id : i \in DOMAIN log}

TypeOK ==
    /\ next \in 1 .. MaxCommands + 1
    /\ outbox \in Seq(Commands) /\ Len(outbox) <= MaxOutbox
    /\ acked \subseteq Commands
    /\ rejected \subseteq Commands
    /\ mode \in {"offline", "handshaking", "online"}
    /\ token \in Sessions \cup {NoSession}
    /\ newPage \in BOOLEAN
    /\ wire \in Sessions \cup {NoSession}
    /\ down \in Seq(Frames)
    /\ nextSession \in 1 .. MaxSessions + 1
    /\ live \subseteq Sessions
    /\ bound \subseteq live
    /\ closing \subseteq bound
    /\ up \in [Sessions -> Seq(Commands)]
    /\ dedupe \in [Sessions -> SUBSET Commands]
    /\ \A s \in Sessions : Cardinality(dedupe[s]) <= MaxDedupe
    /\ files \in [Sessions -> 0 .. MaxFiles]
    /\ log \in Seq([session : Sessions, id : Commands])
    /\ losses \in 0 .. MaxLosses

Init ==
    /\ next = 1
    /\ outbox = <<>>
    /\ acked = {}
    /\ rejected = {}
    /\ mode = "offline"
    /\ token = NoSession
    /\ newPage = TRUE
    /\ wire = NoSession
    /\ down = <<>>
    /\ nextSession = 1
    /\ live = {}
    /\ bound = {}
    /\ closing = {}
    /\ up = [s \in Sessions |-> <<>>]
    /\ dedupe = [s \in Sessions |-> {}]
    /\ files = [s \in Sessions |-> 0]
    /\ log = <<>>
    /\ losses = 0

-----------------------------------------------------------------------------
(* The tab *)

\* ReconnectingTransport::send goes through only when the tab is online.
MaySendEarly == mode \in {"handshaking", "online"}
MaySend == mode = "online"

\* What is written to a transport that the server has given up is lost.
Write(s, ids) ==
    up' = IF s \in bound THEN [up EXCEPT ![s] = @ \o ids] ELSE up

\* submitMessage and handleFiles.  A command of any kind may come next.
Submit(i) ==
    /\ i >= next
    /\ Len(outbox) < MaxOutbox
    /\ next' = i + 1
    /\ outbox' = Append(outbox, i)
    /\ IF MaySend THEN Write(wire, <<i>>) ELSE UNCHANGED up
    /\ UNCHANGED <<acked, rejected, mode, token, newPage, wire, down, sessionVars,
                   dedupe, files, log, losses>>

\* connect, onopen and sendHello.
Connect ==
    /\ mode = "offline"
    /\ mode' = "handshaking"
    /\ UNCHANGED <<next, memory, token, newPage, wire, down, sessionVars, commandVars, losses>>

\* The next frame that reaches the tab.
Arrives(kind) ==
    /\ down # <<>>
    /\ Head(down).kind = kind
    /\ down' = Tail(down)

\* SESSION_READY: saveSession, transport.ready and retryPendingCommands.
RetriedNone == <<>>
Retried == outbox

ReceiveReady ==
    /\ Arrives("ready")
    /\ mode = "handshaking"
    /\ token' = wire
    /\ mode' = "online"
    /\ Write(wire, Retried)
    /\ UNCHANGED <<next, memory, newPage, wire, sessionVars, dedupe, files, log, losses>>

\* parseProtocolMessage discards a SESSION_READY that is too long: the tab goes
\* on waiting for one over its transport.
DiscardReady ==
    /\ Arrives("long")
    /\ UNCHANGED <<next, memory, mode, token, newPage, wire, sessionVars, commandVars, losses>>

\* API_ERROR during the handshake: invalidSession forgets the token, and
\* abandon gives up the outbox, whose commands are shown as not sent.
KeptOutbox == outbox
AbandonedOutbox == <<>>

InvalidSession ==
    /\ Arrives("refused")
    /\ mode = "handshaking"
    /\ token' = NoSession
    /\ outbox' = AbandonedOutbox
    /\ mode' = "offline"
    /\ UNCHANGED <<next, acked, rejected, newPage, wire, sessionVars, commandVars, losses>>

\* outbox.delete: an id is a key of the Map at most once.
Without(q, i) ==
    IF i \in ToSet(q) THEN RemoveAt(q, CHOOSE k \in DOMAIN q : q[k] = i) ELSE q

\* MESSAGE_ACK: acknowledge.
ReceiveAck ==
    LET i == Head(down).id
    IN  /\ Arrives("ack")
        /\ acked' = IF i \in ToSet(outbox) THEN acked \cup {i} ELSE acked
        /\ outbox' = Without(outbox, i)
        /\ UNCHANGED <<next, rejected, mode, token, newPage, wire, sessionVars,
                       commandVars, losses>>

\* API_ERROR of a command: reject, when it names a command of the outbox.
ReceiveError ==
    LET i == Head(down).id
    IN  /\ Arrives("error")
        /\ rejected' = IF i \in ToSet(outbox) THEN rejected \cup {i} ELSE rejected
        /\ outbox' = Without(outbox, i)
        /\ UNCHANGED <<next, acked, mode, token, newPage, wire, sessionVars,
                       commandVars, losses>>

\* onclose: the network failed, or the server closed and all it sent was read.
ClosedByServer == wire # NoSession /\ down = <<>> /\ (wire \notin bound \/ wire \in closing)

Drop == mode' = "offline" /\ wire' = NoSession /\ down' = <<>>

LoseTransport ==
    /\ mode # "offline"
    /\ \/ ClosedByServer /\ UNCHANGED losses
       \/ ~ClosedByServer /\ losses < MaxLosses /\ losses' = losses + 1
    /\ Drop
    /\ UNCHANGED <<next, memory, token, newPage, sessionVars, commandVars>>

\* The page is loaded anew: of what it knew only the token is left, which is in
\* sessionStorage.
Reload ==
    /\ losses < MaxLosses
    /\ losses' = losses + 1
    /\ outbox' = <<>>
    /\ newPage' = TRUE
    /\ Drop
    /\ UNCHANGED <<next, acked, rejected, token, sessionVars, commandVars>>

-----------------------------------------------------------------------------
(* Sessions of the server: acceptSessionHello, detachSessionTransport and   *)
(* expireSessions as far as they matter here                               *)

HelloWaits == mode = "handshaking" /\ wire = NoSession /\ down = <<>>
Resumable(s) == s \in live \ bound

\* SESSION_READY of whatever length is sent.
AnswerHello == \E frame \in {Ready, LongReady} : down' = <<frame>>

ServeFresh ==
    /\ HelloWaits
    /\ token = NoSession
    /\ nextSession \in Sessions
    /\ nextSession' = nextSession + 1
    /\ live' = live \cup {nextSession}
    /\ bound' = bound \cup {nextSession}
    /\ wire' = nextSession
    /\ AnswerHello
    /\ newPage' = FALSE
    /\ UNCHANGED <<next, memory, mode, token, closing, commandVars, losses>>

\* A page with another file capability makes the peer withdraw its files.
ServeResume ==
    /\ HelloWaits
    /\ token # NoSession
    /\ Resumable(token)
    /\ bound' = bound \cup {token}
    /\ wire' = token
    /\ AnswerHello
    /\ files' = IF newPage THEN [files EXCEPT ![token] = 0] ELSE files
    /\ newPage' = FALSE
    /\ UNCHANGED <<next, memory, mode, token, nextSession, live, closing, up, dedupe, log,
                   losses>>

\* The token is of no use, or there is no room for a new participant.
RefuseHello ==
    /\ HelloWaits
    /\ token # NoSession => ~Resumable(token)
    /\ down' = <<Refused>>
    /\ UNCHANGED <<next, memory, mode, token, newPage, wire, sessionVars, commandVars, losses>>

\* The server finds the transport gone, or has closed it itself.
Ends(s) == s \in closing \/ wire # s

Detach(s) ==
    /\ s \in bound
    /\ \/ Ends(s) /\ UNCHANGED losses
       \/ ~Ends(s) /\ losses < MaxLosses /\ losses' = losses + 1
    /\ bound' = bound \ {s}
    /\ closing' = closing \ {s}
    /\ up' = [up EXCEPT ![s] = <<>>]
    /\ UNCHANGED <<tabVars, nextSession, live, dedupe, files, log>>

Expire(s) ==
    /\ s \in live \ bound
    /\ live' = live \ {s}
    /\ UNCHANGED <<tabVars, nextSession, bound, closing, commandVars, losses>>

-----------------------------------------------------------------------------
(* A command at the server: readMessage, handleMessage, handleFilesMessage  *)

\* DedupeWindow: find, full and remember.
IsPriorUnlessFull(s, i) == i \in dedupe[s] /\ Cardinality(dedupe[s]) < MaxDedupe
IsPrior(s, i) == i \in dedupe[s]
IsFull(s) == Cardinality(dedupe[s]) >= MaxDedupe
RememberedFiles(s, i) == dedupe[s] \cup ({i} \cap FileShares)
Remembered(s, i) == dedupe[s] \cup {i}

\* hasCapacityFor, of one more file.
HasCapacityForOneOff(s) == files[s] <= MaxFiles
HasCapacityFor(s) == files[s] < MaxFiles

\* The command at the front is read unless the transport is being closed.
TakeCommand(s) ==
    /\ s \in bound \ closing
    /\ up[s] # <<>>
    /\ up' = [up EXCEPT ![s] = Tail(@)]

Reply(s, frame) == down' = IF wire = s THEN Append(down, frame) ELSE down

\* onApiError: the error frame, then the end of the transport.
OnApiError(s, i) ==
    /\ Reply(s, ApiError(i))
    /\ closing' = closing \cup {s}
    /\ UNCHANGED <<next, memory, mode, token, newPage, wire, nextSession, live, bound, dedupe,
                   files, log, losses>>

\* readMessage: the error of a message that is too long names no command.
RefuseOversized(s) ==
    /\ TakeCommand(s)
    /\ Head(up[s]) \in Oversized
    /\ OnApiError(s, NoId)

RefuseInvalid(s) ==
    /\ TakeCommand(s)
    /\ Head(up[s]) \in Invalid \ Oversized
    /\ OnApiError(s, Head(up[s]))

Sound(i) == i \notin Invalid \cup Oversized

\* A command that was accepted before is acknowledged again.
AckPrior(s) ==
    /\ TakeCommand(s)
    /\ Sound(Head(up[s]))
    /\ IsPrior(s, Head(up[s]))
    /\ Reply(s, Ack(Head(up[s])))
    /\ UNCHANGED <<next, memory, mode, token, newPage, wire, sessionVars, dedupe, files, log,
                   losses>>

AckFull(s) ==
    /\ TakeCommand(s)
    /\ Sound(Head(up[s]))
    /\ ~IsPrior(s, Head(up[s]))
    /\ IsFull(s)
    /\ Reply(s, Ack(Head(up[s])))
    /\ UNCHANGED <<next, memory, mode, token, newPage, wire, sessionVars, dedupe, files, log,
                   losses>>

RefuseFull(s) ==
    /\ TakeCommand(s)
    /\ Sound(Head(up[s]))
    /\ ~IsPrior(s, Head(up[s]))
    /\ IsFull(s)
    /\ OnApiError(s, Head(up[s]))

\* shareFiles returns nothing.
RefuseFiles(s) ==
    /\ TakeCommand(s)
    /\ Sound(Head(up[s]))
    /\ ~IsPrior(s, Head(up[s]))
    /\ ~IsFull(s)
    /\ Head(up[s]) \in FileShares
    /\ ~HasCapacityFor(s)
    /\ OnApiError(s, Head(up[s]))

\* shareFiles and publishDurable, which remembers the command, then the
\* acknowledgement.
Publish(s) ==
    LET i == Head(up[s])
    IN  /\ TakeCommand(s)
        /\ Sound(i)
        /\ ~IsPrior(s, i)
        /\ ~IsFull(s)
        /\ i \in FileShares => HasCapacityFor(s)
        /\ files' = IF i \in FileShares THEN [files EXCEPT ![s] = @ + 1] ELSE files
        /\ log' = Append(log, [session |-> s, id |-> i])
        /\ dedupe' = [dedupe EXCEPT ![s] = Remembered(s, i)]
        /\ Reply(s, Ack(i))
        /\ UNCHANGED <<next, memory, mode, token, newPage, wire, sessionVars, losses>>

-----------------------------------------------------------------------------
Receive == ReceiveReady \/ DiscardReady \/ InvalidSession \/ ReceiveAck \/ ReceiveError
ServeHello == ServeFresh \/ ServeResume \/ RefuseHello
ServeCommand(s) ==
    \/ RefuseOversized(s) \/ RefuseInvalid(s) \/ AckPrior(s) \/ RefuseFull(s)
    \/ RefuseFiles(s) \/ Publish(s)

Next ==
    \/ \E i \in Commands : Submit(i)
    \/ Connect \/ Receive \/ LoseTransport \/ Reload \/ ServeHello
    \/ \E s \in Sessions : ServeCommand(s) \/ Detach(s) \/ Expire(s)

\* The tab reconnects until it is served (retry of transport.js), both sides
\* handle what arrives, and each finds out in the end that the other is gone.
\* Nothing makes the user speak or the network fail.
Fairness ==
    /\ WF_vars(Connect) /\ WF_vars(Receive) /\ WF_vars(ServeHello)
    /\ WF_vars(ClosedByServer /\ LoseTransport)
    /\ \A s \in Sessions : WF_vars(ServeCommand(s)) /\ WF_vars(Ends(s) /\ Detach(s))

Spec == Init /\ [][Next]_vars
FairSpec == Spec /\ Fairness

-----------------------------------------------------------------------------
(* Correctness *)

\* A command is published at most once, however often it is sent again because
\* its acknowledgement was lost with the transport.
PublishedOnce ==
    \A i, j \in DOMAIN log : log[i].id = log[j].id => i = j

\* README: "A MESSAGE_ACK is the delivery confirmation."  What the tab shows as
\* sent is in the room.
SentIsPublished == acked \subseteq Published

\* A command that the tab gives up because the server named it in a terminal
\* error is not in the room and will never be, so that the user can send it
\* again without repeating it.
RejectedIsUnpublished == rejected \cap Published = {}

\* The commands of a session are published in the order of their submission,
\* those that were queued while there was no transport included.
InOrder ==
    \A i, j \in DOMAIN log : i < j /\ log[i].session = log[j].session => log[i].id < log[j].id

\* README: a pending command is not replayed "under a different identity".
\* No command is both with one session and with another.
SameIdentity ==
    \A s, t \in Sessions :
        (ToSet(up[s]) \cup dedupe[s]) \cap (ToSet(up[t]) \cup dedupe[t]) # {} => s = t

\* The tab has been served, and its SESSION_READY was discarded.
Stranded == mode = "handshaking" /\ wire # NoSession /\ down = <<>>

\* Each command leaves the outbox: it is acknowledged, refused or abandoned,
\* or the page is reloaded.  An oversized command in the outbox prevents that,
\* and so does a SESSION_READY that is too long, for nothing ends the handshake
\* then but the loss of the transport.
Settles ==
    \A i \in Commands :
        i \in ToSet(outbox) ~>
            (i \notin ToSet(outbox) \/ ToSet(outbox) \cap Oversized # {} \/ Stranded)

-----------------------------------------------------------------------------
(* What the repository says and the code does not do *)

=============================================================================
