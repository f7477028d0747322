---------------------------- MODULE FileTransfer ----------------------------
(***************************************************************************)
(* The download of one shared file: the HTTP coroutines of FileController  *)
(* that read it through a File::Subscriber each, the chunk requests that   *)
(* go to the browser of the host over its transport, the answers, and what *)
(* ends a download: its last chunk, the reader's disconnection, the        *)
(* withdrawal of the file when the host reloads its page, and the expiry   *)
(* of the host's session.                                                  *)
(*                                                                         *)
(* A chunk is its place in the file; its content is that place.  The host  *)
(* has shared the file from its first page, whose other pages do not have  *)
(* it.  Taking the lease and binding the transport are one step, as are    *)
(* unbinding it and starting the lease: SessionRegistry takes them apart.  *)
(* Reading the binding and queueing a frame are one step as well: a frame  *)
(* carries the generation that was read, and is dropped when that is no    *)
(* longer the current one, whenever it was queued.  For the same reason    *)
(* the network's delay is left to the queue and to the page that reads the *)
(* chunk.  The bounds of the queue and the length of SESSION_READY are the *)
(* subject of DurableRoom; here it may always be too long for the page.    *)
(*                                                                         *)
(* Where a definition is preceded by one that differs from it in a detail, *)
(* that one is a plausible mistake in the same lines.                      *)
(***************************************************************************)
EXTENDS TransportWatch, Sequences, FiniteSets, Bags

CONSTANTS
    Downloads,       \* the GET requests for the file
    FileSize,        \* the size of the file, in chunks
    MaxSubscribers,  \* Limits::subscribersPerFile
    Grace,           \* how long a detached session waits for a resume
    MaxPages         \* bound on the pages the host loads

ASSUME TransferAssumption ==
    /\ FileSize \in Nat
    /\ MaxSubscribers \in Nat
    /\ Grace \in Nat \ {0}
    /\ MaxPages \in Nat \ {0}

NoLease == -1
NoChunk == -1
HostPage == 1
Pages == 1 .. MaxPages

VARIABLES
    session,      \* the host is in Lobby::m_sessions
    lease,        \* the age of its detachment, or NoLease
    expiring,     \* removePeerById has still to clear the subscribers
    hello,        \* per transport: the page that said hello over it
    step,         \* per transport: where acceptSessionHello is
    reissuing,    \* per transport: subscribers whose request is still to be sent again
    capability,   \* Peer::m_fileCapabilityId
    offered,      \* the file is in Room::m_fileById and Peer::m_files
    available, subscribers,  \* File::m_available, File::m_subscribers
    waking,       \* subscribers that clearSubscribers has still to invalidate
    frames,       \* Peer::m_outboundFrames
    page,         \* the page of the host
    online, inbox,\* it has seen SESSION_READY over its transport; requests held back
    reading,      \* the chunks it is reading from the file
    pc,           \* per download: where its coroutine is
    valid, chunk, progress, request, \* per download: the fields of its Subscriber
    received      \* per download: the chunks given to its client

hostVars == <<session, lease, expiring, hello, step, reissuing, capability>>
fileVars == <<offered, available, subscribers, waking>>
browserVars == <<page, online, inbox, reading>>
downloadVars == <<pc, valid, chunk, progress, request, received>>
vars == <<watchVars, hostVars, fileVars, frames, browserVars, downloadVars>>

Chunks == 0 .. FileSize - 1
RequestIds == 0 .. FileSize
Requests == [sub : Downloads, id : RequestIds, position : Chunks]
ChunkRequests == [id : RequestIds, position : 0 .. FileSize, outstanding : BOOLEAN,
                  completedId : RequestIds, completedPosition : 0 .. FileSize]
NewRequest == [id |-> 0, position |-> 0, outstanding |-> FALSE,
               completedId |-> 0, completedPosition |-> 0]
Ready(g) == [to |-> g, ask |-> {}]
Ask(g, r) == [to |-> g, ask |-> {r}]
Frames == [to : Transports, ask : {{}} \cup {{r} : r \in Requests}]

Active == {"reading", "checking", "parking", "listed", "waiting"}
Ended == {"done", "failed", "aborted", "refused"}
HelloSteps == {"none", "capability", "clear", "announce", "ready", "snapshot"}

TypeOK ==
    /\ WatchTypeOK
    /\ session \in BOOLEAN
    /\ lease \in 0 .. Grace \cup {NoLease}
    /\ expiring \in BOOLEAN
    /\ hello \in [Transports -> Pages]
    /\ step \in [Transports -> HelloSteps]
    /\ reissuing \in [Transports -> SUBSET Downloads]
    /\ capability \in Pages
    /\ offered \in BOOLEAN
    /\ available \in BOOLEAN
    /\ subscribers \subseteq Downloads /\ Cardinality(subscribers) <= MaxSubscribers
    /\ waking \subseteq Downloads
    /\ frames \in Seq(Frames)
    /\ page \in Pages
    /\ online \in BOOLEAN
    /\ IsABag(inbox) /\ DOMAIN inbox \subseteq Requests
    /\ IsABag(reading) /\ DOMAIN reading \subseteq Requests
    /\ pc \in [Downloads -> {"start", "found"} \cup Active \cup Ended]
    /\ valid \in [Downloads -> BOOLEAN]
    /\ chunk \in [Downloads -> Chunks \cup {NoChunk}]
    /\ progress \in [Downloads -> 0 .. FileSize]
    /\ request \in [Downloads -> ChunkRequests]
    /\ received \in [Downloads -> Seq(Chunks)]

\* The host has shared the file over its first transport.
Init ==
    /\ WatchInit
    /\ session = TRUE
    /\ lease = NoLease
    /\ expiring = FALSE
    /\ hello = [g \in Transports |-> HostPage]
    /\ step = [g \in Transports |-> "none"]
    /\ reissuing = [g \in Transports |-> {}]
    /\ capability = HostPage
    /\ offered = TRUE
    /\ available = TRUE
    /\ subscribers = {}
    /\ waking = {}
    /\ frames = <<>>
    /\ page = HostPage
    /\ online = TRUE
    /\ inbox = EmptyBag
    /\ reading = EmptyBag
    /\ pc = [d \in Downloads |-> "start"]
    /\ valid = [d \in Downloads |-> TRUE]
    /\ chunk = [d \in Downloads |-> NoChunk]
    /\ progress = [d \in Downloads |-> 0]
    /\ request = [d \in Downloads |-> NewRequest]
    /\ received = [d \in Downloads |-> <<>>]

-----------------------------------------------------------------------------
(* ChunkRequest *)

\* Every call is a request of its own.
BegunAnew(q, position) ==
    [q EXCEPT !.id = @ + 1, !.position = position, !.outstanding = TRUE]

\* begin: a request that is outstanding keeps its id and place.
Begun(q, position) ==
    IF q.outstanding THEN q
    ELSE [q EXCEPT !.id = @ + 1, !.position = position, !.outstanding = TRUE]

Completed(q, r) == r.id = q.completedId /\ r.position = q.completedPosition

\* Whatever arrives while a request is outstanding answers it.
AcceptAny(q, r) == IF q.outstanding THEN "ACCEPTED" ELSE "DUPLICATE"

\* accept: the completed answer again is told from one that fits nothing.
Accept(q, r) ==
    IF Completed(q, r) THEN "DUPLICATE"
    ELSE IF q.outstanding /\ r.id = q.id /\ r.position = q.position THEN "ACCEPTED"
    ELSE "INVALID"

Accepted(q, r) ==
    [q EXCEPT !.outstanding = FALSE, !.completedId = r.id, !.completedPosition = r.position]

Cancelled(q) == [q EXCEPT !.outstanding = FALSE]

-----------------------------------------------------------------------------
(* Peer::sendMessageAsync and the drain of the outbound queue *)

\* A frame for a peer without a transport is not queued.
Queued(frame) == IF socket = NoSocket THEN frames ELSE Append(frames, frame)

\* The frame that a subscriber's request becomes.
RequestFrame(d, q) ==
    Ask(generation, [sub |-> d, id |-> q.id, position |-> q.position])

-----------------------------------------------------------------------------
(* The coroutine of a download *)

\* CoroutineWaitList::notifyAll: those in the list run again.
Notified(d) == IF pc[d] \in {"listed", "waiting"} THEN "checking" ELSE pc[d]

\* GetFile::act looks the file up, or answers 404.
GetFile(d) ==
    /\ pc[d] = "start"
    /\ pc' = [pc EXCEPT ![d] = IF offered THEN "found" ELSE "refused"]
    /\ UNCHANGED <<watchVars, hostVars, fileVars, frames, browserVars, valid, chunk,
                   progress, request, received>>

\* subscribe without the look at m_available.
SubscribeWithdrawn(d) ==
    /\ pc[d] = "found"
    /\ IF Cardinality(subscribers) < MaxSubscribers
       THEN /\ subscribers' = subscribers \cup {d}
            /\ pc' = [pc EXCEPT ![d] = "reading"]
       ELSE /\ pc' = [pc EXCEPT ![d] = "refused"]
            /\ UNCHANGED subscribers
    /\ UNCHANGED <<watchVars, hostVars, offered, available, waking, frames, browserVars,
                   valid, chunk, progress, request, received>>

\* subscribe with a limit that admits one more.
SubscribeOverLimit(d) ==
    /\ pc[d] = "found"
    /\ IF available /\ Cardinality(subscribers) <= MaxSubscribers
       THEN /\ subscribers' = subscribers \cup {d}
            /\ pc' = [pc EXCEPT ![d] = "reading"]
       ELSE /\ pc' = [pc EXCEPT ![d] = "refused"]
            /\ UNCHANGED subscribers
    /\ UNCHANGED <<watchVars, hostVars, offered, available, waking, frames, browserVars,
                   valid, chunk, progress, request, received>>

\* File::subscribe, or 429.
Subscribe(d) ==
    /\ pc[d] = "found"
    /\ IF available /\ Cardinality(subscribers) < MaxSubscribers
       THEN /\ subscribers' = subscribers \cup {d}
            /\ pc' = [pc EXCEPT ![d] = "reading"]
       ELSE /\ pc' = [pc EXCEPT ![d] = "refused"]
            /\ UNCHANGED subscribers
    /\ UNCHANGED <<watchVars, hostVars, offered, available, waking, frames, browserVars,
                   valid, chunk, progress, request, received>>

\* The response is gone, and with it the subscriber: File::unsubscribe.  What
\* its client got is no longer of interest.
End(d, how) ==
    /\ pc' = [pc EXCEPT ![d] = how]
    /\ subscribers' = subscribers \ {d}
    /\ valid' = [valid EXCEPT ![d] = TRUE]
    /\ chunk' = [chunk EXCEPT ![d] = NoChunk]
    /\ progress' = [progress EXCEPT ![d] = 0]
    /\ request' = [request EXCEPT ![d] = NewRequest]
    /\ received' = [received EXCEPT ![d] = <<>>]
    /\ UNCHANGED <<watchVars, hostVars, offered, available, waking, frames, browserVars>>

\* readChunk of a subscriber that has been invalidated throws.
ReadInvalid(d) == pc[d] = "reading" /\ ~valid[d] /\ End(d, "failed")

\* readChunk at the end of the file.
ReadEnd(d) == pc[d] = "reading" /\ valid[d] /\ progress[d] = FileSize /\ End(d, "done")

\* readChunk with a chunk in the buffer.
ReadBuffered(d) ==
    /\ pc[d] = "reading" /\ valid[d] /\ progress[d] < FileSize
    /\ chunk[d] # NoChunk
    /\ received' = [received EXCEPT ![d] = Append(@, chunk[d])]
    /\ progress' = [progress EXCEPT ![d] = @ + 1]
    /\ chunk' = [chunk EXCEPT ![d] = NoChunk]
    /\ UNCHANGED <<watchVars, hostVars, fileVars, frames, browserVars, pc, valid, request>>

\* readChunk without: requestChunk, then waitForChunkAsync.
RequestChunk(d) ==
    /\ pc[d] = "reading" /\ valid[d] /\ progress[d] < FileSize
    /\ chunk[d] = NoChunk
    /\ request' = [request EXCEPT ![d] = Begun(@, progress[d])]
    /\ frames' = Queued(RequestFrame(d, request'[d]))
    /\ pc' = [pc EXCEPT ![d] = "checking"]
    /\ UNCHANGED <<watchVars, hostVars, fileVars, browserVars, valid, chunk, progress,
                   received>>

\* WaitCoroutine::act.
CheckChunk(d) ==
    /\ pc[d] = "checking"
    /\ pc' = [pc EXCEPT ![d] = IF chunk[d] # NoChunk \/ ~valid[d] THEN "reading" ELSE "parking"]
    /\ UNCHANGED <<watchVars, hostVars, fileVars, frames, browserVars, valid, chunk,
                   progress, request, received>>

\* The executor takes the action and puts the coroutine into the list.
Park(d) ==
    /\ pc[d] = "parking"
    /\ pc' = [pc EXCEPT ![d] = "listed"]
    /\ UNCHANGED <<watchVars, hostVars, fileVars, frames, browserVars, valid, chunk,
                   progress, request, received>>

\* The listener of the list does not look again.
OnNewItemBlind(d) ==
    /\ pc[d] = "listed"
    /\ pc' = [pc EXCEPT ![d] = "waiting"]
    /\ UNCHANGED <<watchVars, hostVars, fileVars, frames, browserVars, valid, chunk,
                   progress, request, received>>

\* WaitListListener::onNewItem looks again at what WaitCoroutine::act saw.
OnNewItem(d) ==
    /\ pc[d] = "listed"
    /\ pc' = [pc EXCEPT ![d] = IF chunk[d] # NoChunk \/ ~valid[d] THEN "checking" ELSE "waiting"]
    /\ UNCHANGED <<watchVars, hostVars, fileVars, frames, browserVars, valid, chunk,
                   progress, request, received>>

\* The client of the download is gone; the coroutine finds out when it writes.
Abort(d) == pc[d] = "reading" /\ chunk[d] = NoChunk /\ End(d, "aborted")

-----------------------------------------------------------------------------
(* Withdrawal and expiry *)

\* File::clearSubscribers, up to its first invalidate.
ClearSubscribers ==
    /\ available' = FALSE
    /\ waking' = subscribers
    /\ subscribers' = {}
    /\ UNCHANGED offered

\* Subscriber::invalidate for one of those that clearSubscribers has taken.
Wake(d) ==
    /\ d \in waking
    /\ waking' = waking \ {d}
    /\ valid' = [valid EXCEPT ![d] = FALSE]
    /\ request' = [request EXCEPT ![d] = Cancelled(@)]
    /\ pc' = [pc EXCEPT ![d] = Notified(d)]
    /\ UNCHANGED <<watchVars, hostVars, offered, available, subscribers, frames,
                   browserVars, chunk, progress, received>>

\* expireSessions takes a session whose lease has run out, and
\* Room::removePeerById its files out of the room.
Expire ==
    /\ session /\ lease >= Grace
    /\ session' = FALSE
    /\ offered' = FALSE
    /\ expiring' = offered
    /\ UNCHANGED <<watchVars, lease, hello, step, reissuing, capability, available,
                   subscribers, waking, frames, browserVars, downloadVars>>

ClearExpired ==
    /\ expiring
    /\ expiring' = FALSE
    /\ ClearSubscribers
    /\ UNCHANGED <<watchVars, session, lease, hello, step, reissuing, capability, frames,
                   browserVars, downloadVars>>

-----------------------------------------------------------------------------
(* The host's transports on the server *)

\* A resume: the lease of a detached session is taken and the transport is
\* bound.  A hello that finds no such lease is refused, and its page gives the
\* session up: the host is lost as in LoseTransport.
Resume ==
    /\ session /\ lease # NoLease /\ lease < Grace
    /\ Bind
    /\ lease' = NoLease
    /\ hello' = [hello EXCEPT ![socket'] = page]
    /\ step' = [step EXCEPT ![socket'] = "capability"]
    /\ online' = FALSE
    /\ inbox' = EmptyBag
    /\ UNCHANGED <<session, expiring, reissuing, capability, fileVars, frames, page, reading,
                   downloadVars>>

Goto(g, s) == step' = [step EXCEPT ![g] = s]

\* Peer::setFileCapability, and for a new capability the first half of
\* Room::withdrawPeerFiles, which takes the peer's files out of the room.
SetFileCapability(g) ==
    /\ step[g] = "capability"
    /\ capability' = hello[g]
    /\ offered' = (offered /\ capability = hello[g])
    /\ Goto(g, IF capability = hello[g] THEN "ready" ELSE IF offered THEN "clear" ELSE "announce")
    /\ UNCHANGED <<watchVars, session, lease, expiring, hello, reissuing, available, subscribers,
                   waking, frames, browserVars, downloadVars>>

ClearWithdrawn(g) ==
    /\ step[g] = "clear"
    /\ Goto(g, "announce")
    /\ ClearSubscribers
    /\ UNCHANGED <<watchVars, session, lease, expiring, hello, reissuing, capability, frames,
                   browserVars, downloadVars>>

\* SESSION_READY, over whatever transport is bound by now.
SendReady(g) ==
    /\ step[g] \in {"announce", "ready"} /\ waking = {}
    /\ frames' = Queued(Ready(generation))
    /\ Goto(g, IF step[g] = "ready" THEN "snapshot" ELSE "none")
    /\ UNCHANGED <<watchVars, session, lease, expiring, hello, reissuing, capability, fileVars,
                   browserVars, downloadVars>>

\* A resume that sends no request again.
ForgetRequests(g) ==
    /\ step[g] = "snapshot"
    /\ Goto(g, "none")
    /\ UNCHANGED <<watchVars, session, lease, expiring, hello, reissuing, capability,
                   fileVars, frames, browserVars, downloadVars>>

\* reissueOutstandingFileRequests and reissueOutstandingRequests list the
\* subscribers of the files that the peer still has.
SnapshotSubscribers(g) ==
    /\ step[g] = "snapshot"
    /\ reissuing' = [reissuing EXCEPT ![g] = IF offered THEN subscribers ELSE {}]
    /\ Goto(g, "none")
    /\ UNCHANGED <<watchVars, session, lease, expiring, hello, capability, fileVars, frames,
                   browserVars, downloadVars>>

\* Subscriber::reissueOutstandingRequest.
Reissue(g, d) ==
    /\ d \in reissuing[g]
    /\ reissuing' = [reissuing EXCEPT ![g] = @ \ {d}]
    /\ IF valid[d] /\ request[d].outstanding
       THEN /\ request' = [request EXCEPT ![d] = Begun(@, progress[d])]
            /\ frames' = Queued(RequestFrame(d, request'[d]))
       ELSE UNCHANGED <<request, frames>>
    /\ UNCHANGED <<watchVars, session, lease, expiring, hello, step, capability, fileVars,
                   browserVars, pc, valid, chunk, progress, received>>

\* A closed transport is destroyed: detachSessionTransport starts the lease.
Detach ==
    /\ Unbind
    /\ lease' = IF session THEN 0 ELSE lease
    /\ UNCHANGED <<session, expiring, hello, step, reissuing, capability, fileVars, frames,
                   browserVars, downloadVars>>

-----------------------------------------------------------------------------
(* The host's browser *)

\* sendFileChunks, for a request that the page has got; another page than the
\* one that shared the file does not know it.
StartReading(requests) == IF page = HostPage THEN reading (+) requests ELSE reading

\* What the page makes of a frame: requests wait for SESSION_READY, which
\* parseProtocolMessage discards when it is too long.
TakeFrame(frame) ==
    IF frame.ask = {} THEN
      \/ /\ online' = TRUE
         /\ reading' = StartReading(inbox)
         /\ inbox' = EmptyBag
      \/ UNCHANGED <<online, inbox, reading>>
    ELSE IF online THEN
      /\ reading' = StartReading(SetToBag(frame.ask))
      /\ UNCHANGED <<online, inbox>>
    ELSE
      /\ inbox' = inbox (+) SetToBag(frame.ask)
      /\ UNCHANGED <<online, reading>>

\* A turn of the drain.  A frame of another binding is dropped, one over a
\* transport that does not work is lost.
SendFrame ==
    /\ frames # <<>>
    /\ frames' = Tail(frames)
    /\ IF Head(frames).to = socket /\ Live(socket)
       THEN TakeFrame(Head(frames)) ELSE UNCHANGED <<online, inbox, reading>>
    /\ UNCHANGED <<watchVars, hostVars, fileVars, page, downloadVars>>

\* What the server says of an answer.
Verdict(r) == IF r.sub \in subscribers THEN Accept(request[r.sub], r) ELSE "INVALID"

\* handleFileChunkMessage, under the transport lock of readMessage: an answer
\* for a file that has been withdrawn is ignored, one that fits nothing ends
\* in onApiError, which closes the transport.
HandleFileChunk(r) ==
    LET d == r.sub
    IN  IF offered /\ Verdict(r) = "ACCEPTED" THEN
          /\ chunk' = [chunk EXCEPT ![d] = r.position]
          /\ request' = [request EXCEPT ![d] = Accepted(@, r)]
          /\ pc' = [pc EXCEPT ![d] = Notified(d)]
          /\ UNCHANGED closed
        ELSE
          /\ closed' = IF offered /\ Verdict(r) = "INVALID" THEN closed \cup {socket} ELSE closed
          /\ UNCHANGED <<chunk, request, pc>>

\* reader.onloadend: the reads end in any order.  The page sends a chunk only
\* when it is online, over its present transport.
FinishReading(r) ==
    /\ BagIn(r, reading)
    /\ reading' = reading (-) SetToBag({r})
    /\ IF online /\ Live(socket) THEN HandleFileChunk(r)
       ELSE UNCHANGED <<closed, chunk, request, pc>>
    /\ UNCHANGED <<socket, generation, silent, dropped, hostVars, fileVars, frames, page, online,
                   inbox, valid, progress, received>>

\* The browser or the network closes the transport.
LoseTransport ==
    /\ ~Dead(socket)
    /\ Close
    /\ UNCHANGED <<hostVars, fileVars, frames, browserVars, downloadVars>>

\* The transport stops carrying anything.
BeSilent ==
    /\ FallSilent
    /\ UNCHANGED <<hostVars, fileVars, frames, browserVars, downloadVars>>

\* In the end the heartbeat closes a silent transport.
LoseSilent ==
    /\ DropSilent
    /\ UNCHANGED <<hostVars, fileVars, frames, browserVars, downloadVars>>

\* The host reloads its page.
Reload ==
    /\ page + 1 \in Pages
    /\ page' = page + 1
    /\ IF socket # NoSocket THEN Close ELSE UNCHANGED watchVars
    /\ online' = FALSE
    /\ inbox' = EmptyBag
    /\ reading' = EmptyBag
    /\ UNCHANGED <<hostVars, fileVars, frames, downloadVars>>

-----------------------------------------------------------------------------
(* The specification *)

\* The time of a detached session goes by.
Tick ==
    /\ lease # NoLease /\ lease < Grace
    /\ lease' = lease + 1
    /\ UNCHANGED <<watchVars, session, expiring, hello, step, reissuing, capability, fileVars,
                   frames, browserVars, downloadVars>>

\* The steps of a download once it has subscribed.
Download(d) ==
    \/ ReadInvalid(d) \/ ReadEnd(d) \/ ReadBuffered(d) \/ RequestChunk(d)
    \/ CheckChunk(d) \/ Park(d) \/ OnNewItem(d) \/ Wake(d)

\* The steps of acceptSessionHello after the transport is bound.
Handshake(g) ==
    \/ SetFileCapability(g) \/ ClearWithdrawn(g) \/ SendReady(g) \/ SnapshotSubscribers(g)
    \/ \E d \in Downloads : Reissue(g, d)

Reaper == Expire \/ ClearExpired

\* What the threads of the server do for the host.
Server ==
    \/ \E g \in Transports : Handshake(g)
    \/ Reaper \/ SendFrame \/ Detach \/ LoseSilent \/ Tick

Next ==
    \/ \E d \in Downloads : GetFile(d) \/ Subscribe(d) \/ Abort(d)
    \/ \E d \in Downloads : Download(d)
    \/ Server
    \/ \E r \in BagToSet(reading) : FinishReading(r)
    \/ Resume \/ LoseTransport \/ BeSilent \/ Reload

Spec == Init /\ [][Next]_vars

\* The threads of the server run on, time passes and a page answers what it
\* reads.  Nothing is promised of transports, resumes and reloads.
Fairness ==
    /\ \A d \in Downloads : WF_vars(Download(d))
    /\ WF_vars(Server)
    /\ WF_vars(\E r \in BagToSet(reading) : FinishReading(r))

FairSpec == Spec /\ Fairness

-----------------------------------------------------------------------------
(* Properties *)

\* What a client has been given is the file from its beginning, each chunk
\* once and in order, and a chunk in the buffer is the next one: late,
\* repeated and reordered answers of the page never get into a download
\* (ChunkRequest::accept, File::Subscriber::readChunk).
ReceivedInOrder ==
    \A d \in Downloads :
        /\ received[d] = [i \in 1 .. progress[d] |-> i - 1]
        /\ chunk[d] # NoChunk => chunk[d] = progress[d] /\ ~request[d].outstanding

\* A coroutine that sleeps in the wait list has nothing to wake up for: a
\* chunk or an invalidation between its check and its entry into the list is
\* seen by the listener (WaitCoroutine::act, WaitListListener::onNewItem).
NoLostWakeup ==
    \A d \in Downloads : pc[d] = "waiting" => valid[d] /\ chunk[d] = NoChunk

\* A download that runs on can be answered or ended: its subscriber is in the
\* file's map, as long as the file is available, or it is about to be
\* invalidated (File::subscribe against File::clearSubscribers).
SubscriberIsReachable ==
    /\ \A d \in Downloads : pc[d] \in Active /\ valid[d] => d \in subscribers \cup waking
    /\ subscribers # {} => available

\* The host's page has a transport that works, and no SESSION_READY is to come
\* over it any more: the one it was sent has been discarded.
Stranded ==
    /\ Live(socket) /\ ~online
    /\ \A g \in Transports : step[g] \in {"none", "snapshot"}
    /\ \A i \in DOMAIN frames : frames[i] # Ready(socket)

\* A download that has subscribed ends, with the whole file, or with an error
\* once the host has withdrawn the file or has been away for too long: the time
\* comes again and again when none of them, each begun once, is under way,
\* unless the host's page waits for a SESSION_READY that was too long for it.
DownloadEnds == []<>(Stranded \/ \A d \in Downloads : pc[d] \notin Active)

\* The host keeps its transport when it answers what it was asked: an answer
\* that ends in 'Unexpected file chunk.' belongs to a download that is over,
\* or to a request before the last one that was completed.  A request that is
\* sent again after a resume keeps its id, so that neither of its answers is
\* taken for a foreign one (ChunkRequest::begin and accept,
\* Peer::handleFileChunkMessage).
RejectedIsLate ==
    [][\A r \in BagToSet(reading) :
           FinishReading(r) /\ closed' # closed =>
               r.sub \notin subscribers \/ r.id < request[r.sub].completedId]_vars
=============================================================================
