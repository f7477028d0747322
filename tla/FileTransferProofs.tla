------------------------- MODULE FileTransferProofs -------------------------
(***************************************************************************)
(* Proofs about FileTransfer, for every number of downloads, transports    *)
(* and pages, every size of the file and every limit on its subscribers.   *)
(*                                                                         *)
(* Two arguments meet.  The one about the subscribers follows the file     *)
(* through its withdrawal: it is cleared once, by the thread that took it  *)
(* out of the room, and nobody subscribes afterwards, so that a subscriber *)
(* that is no longer in the map is one that clearSubscribers has still to  *)
(* wake.  The one about the chunks follows the numbers of the requests: a  *)
(* request has the number of the chunk it asks for, counted from one, so   *)
(* that of all that is under way for a download, on whatever transport and *)
(* however often it was sent, only the answer to its last request can be   *)
(* accepted, and that one is the next chunk of the file.                   *)
(***************************************************************************)
EXTENDS FileTransfer, FiniteSetTheorems, TLAPS

\* TypeOK by the part of the state it is about.
HostTypes ==
    /\ WatchTypeOK
    /\ session \in BOOLEAN
    /\ lease \in 0 .. Grace \cup {NoLease}
    /\ expiring \in BOOLEAN
    /\ hello \in [Transports -> Pages]
    /\ step \in [Transports -> HelloSteps]
    /\ reissuing \in [Transports -> SUBSET Downloads]
    /\ capability \in Pages

FileTypes ==
    /\ offered \in BOOLEAN
    /\ available \in BOOLEAN
    /\ subscribers \subseteq Downloads
    /\ IsFiniteSet(subscribers)
    /\ Cardinality(subscribers) <= MaxSubscribers
    /\ waking \subseteq Downloads

BrowserTypes ==
    /\ frames \in Seq(Frames)
    /\ page \in Pages
    /\ online \in BOOLEAN
    /\ IsABag(inbox) /\ DOMAIN inbox \subseteq Requests
    /\ IsABag(reading) /\ DOMAIN reading \subseteq Requests

DownloadTypes ==
    /\ pc \in [Downloads -> {"start", "found"} \cup Active \cup Ended]
    /\ valid \in [Downloads -> BOOLEAN]
    /\ chunk \in [Downloads -> Chunks \cup {NoChunk}]
    /\ progress \in [Downloads -> 0 .. FileSize]
    /\ request \in [Downloads -> ChunkRequests]
    /\ received \in [Downloads -> Seq(Chunks)]

\* The file is taken out of the room once, and whoever took it out has still
\* to clear its subscribers or has done so.
Withdrawal ==
    /\ offered => available /\ ~expiring
    /\ expiring => available
    /\ \A g \in Transports :
           step[g] = "clear" => available /\ ~offered /\ ~expiring
    /\ \A g, h \in Transports : step[g] = "clear" /\ step[h] = "clear" => g = h
    /\ available => waking = {}
    /\ subscribers # {} => available

\* A subscriber is known to the file, or about to be woken, from its download's
\* subscription to its end.
Membership ==
    \A d \in Downloads :
        /\ d \in subscribers => valid[d] /\ pc[d] \in Active
        /\ pc[d] \in {"start", "found"} => d \notin waking
        /\ pc[d] \in Active /\ valid[d] => d \in subscribers \cup waking

\* A download that sleeps has nothing to do, one that has not begun has nothing.
CoroutineOK(p, v, c, n, q) ==
    /\ p \in {"start", "found"} => v /\ c = NoChunk /\ n = 0 /\ q = NewRequest
    /\ p = "waiting" => v /\ c = NoChunk

\* What has been received is the beginning of the file, and a chunk in the
\* buffer is what follows.
ReceivedOK(c, n, q, s) ==
    /\ s = [i \in 1 .. n |-> i - 1]
    /\ c # NoChunk => c = n /\ ~q.outstanding

\* The numbers of a subscriber's requests: the one that is outstanding asks for
\* the next chunk, and has the number after the completed one.
RequestOK(p, c, n, q) ==
    /\ q.outstanding =>
           /\ p \in Active /\ c = NoChunk /\ n < FileSize
           /\ q.id = n + 1 /\ q.position = n /\ q.completedId = n
    /\ c # NoChunk => q.id = n + 1 /\ q.completedId = n + 1
    /\ ~q.outstanding /\ c = NoChunk => q.id = n /\ q.completedId = n
    /\ q.completedId > 0 => q.completedPosition = q.completedId - 1

DownloadOK(p, v, c, n, q, s) ==
    /\ CoroutineOK(p, v, c, n, q)
    /\ ReceivedOK(c, n, q, s)
    /\ v => RequestOK(p, c, n, q)

DownloadsOK ==
    \A d \in Downloads :
        DownloadOK(pc[d], valid[d], chunk[d], progress[d], request[d], received[d])

\* The requests under way: in the queue, held back by the page, or being read.
Asked(q) == {r \in Requests : \E i \in 1 .. Len(q) : r \in q[i].ask}
Flying == Asked(frames) \cup DOMAIN inbox \cup DOMAIN reading

\* A request under way has the number of its chunk and was made by the download
\* it names, not after its last one.
MadeBy(r, p, v, q) ==
    /\ r.id >= 1 /\ r.position = r.id - 1
    /\ p \notin {"start", "found"}
    /\ p \in Active /\ v => r.id <= q.id

FlyingOK == \A r \in Flying : MadeBy(r, pc[r.sub], valid[r.sub], request[r.sub])

IInv ==
    /\ HostTypes
    /\ FileTypes
    /\ BrowserTypes
    /\ DownloadTypes
    /\ Withdrawal
    /\ Membership
    /\ DownloadsOK
    /\ FlyingOK

-----------------------------------------------------------------------------
(* The operators *)

\* Bags of requests: the union of two and the removal of one request.
LEMMA BagFacts ==
    ASSUME NEW A, NEW B, IsABag(A), IsABag(B)
    PROVE  /\ IsABag(A (+) B) /\ DOMAIN (A (+) B) = DOMAIN A \cup DOMAIN B
           /\ IsABag(A (-) B) /\ DOMAIN (A (-) B) \subseteq DOMAIN A
  <1>1. IsABag(A (+) B) /\ DOMAIN (A (+) B) = DOMAIN A \cup DOMAIN B
    BY DEF IsABag, (+)
  <1>2. IsABag(A (-) B) /\ DOMAIN (A (-) B) \subseteq DOMAIN A
    BY DEF IsABag, (-)
  <1> QED BY <1>1, <1>2

\* A set is a bag of its elements.
LEMMA SetBagFacts ==
    ASSUME NEW S
    PROVE  /\ IsABag(SetToBag(S)) /\ DOMAIN SetToBag(S) = S
           /\ IsABag(EmptyBag) /\ DOMAIN EmptyBag = {}
  BY DEF IsABag, SetToBag, EmptyBag

\* What is asked for in a queue that has grown by a frame or lost its first one.
LEMMA AskedFacts ==
    ASSUME NEW q \in Seq(Frames)
    PROVE  /\ \A f \in Frames : Asked(Append(q, f)) \subseteq Asked(q) \cup f.ask
           /\ q # <<>> => /\ Head(q) \in Frames /\ Tail(q) \in Seq(Frames)
                          /\ Asked(Tail(q)) \subseteq Asked(q)
                          /\ Head(q).ask \subseteq Asked(q)
           /\ Asked(<<>>) = {}
  <1>1. ASSUME NEW f \in Frames
        PROVE  Asked(Append(q, f)) \subseteq Asked(q) \cup f.ask
    BY DEF Asked
  <1>2. ASSUME q # <<>>
        PROVE  /\ Head(q) \in Frames /\ Tail(q) \in Seq(Frames)
               /\ Asked(Tail(q)) \subseteq Asked(q)
               /\ Head(q).ask \subseteq Asked(q)
    <2>1. /\ Head(q) \in Frames /\ Tail(q) \in Seq(Frames)
          /\ Len(q) \in Nat /\ Len(q) >= 1 /\ Head(q) = q[1]
          /\ Len(Tail(q)) = Len(q) - 1
          /\ \A i \in 1 .. Len(Tail(q)) : Tail(q)[i] = q[i + 1]
      BY <1>2
    <2>2. Asked(Tail(q)) \subseteq Asked(q)
      <3> SUFFICES ASSUME NEW r \in Asked(Tail(q)) PROVE r \in Asked(q)
        OBVIOUS
      <3>1. PICK i \in 1 .. Len(Tail(q)) : r \in Tail(q)[i].ask
        BY DEF Asked
      <3>2. r \in q[i + 1].ask /\ i + 1 \in 1 .. Len(q)
        BY <2>1, <3>1
      <3> QED BY <3>2 DEF Asked
    <2>3. Head(q).ask \subseteq Requests
      BY <2>1 DEF Frames
    <2> QED BY <2>1, <2>2, <2>3 DEF Asked
  <1>3. Asked(<<>>) = {}
    BY DEF Asked
  <1> QED BY <1>1, <1>2, <1>3

\* The beginning of the file, one chunk longer.
LEMMA ReceivedGrows ==
    ASSUME NEW n \in 0 .. FileSize - 1, NEW s \in Seq(Chunks), s = [i \in 1 .. n |-> i - 1]
    PROVE  /\ Append(s, n) = [i \in 1 .. n + 1 |-> i - 1]
           /\ Append(s, n) \in Seq(Chunks)
  BY TransferAssumption DEF Chunks

\* Begun, for a subscriber without a chunk: the request that is outstanding
\* afterwards asks for the next chunk, and its frame is well formed.
LEMMA BegunFacts ==
    ASSUME NEW p, NEW q \in ChunkRequests, NEW n \in 0 .. FileSize - 1, RequestOK(p, NoChunk, n, q)
    PROVE  /\ Begun(q, n) \in ChunkRequests
           /\ Begun(q, n).outstanding = TRUE
           /\ Begun(q, n).id = n + 1 /\ Begun(q, n).position = n
           /\ Begun(q, n).completedId = n
           /\ Begun(q, n).completedPosition = q.completedPosition
           /\ Begun(q, n).id >= q.id
           /\ q.outstanding => Begun(q, n) = q
  <1> USE TransferAssumption DEF RequestOK, NoChunk
  <1>1. CASE q.outstanding
    BY <1>1 DEF Begun, ChunkRequests
  <1>2. CASE ~q.outstanding
    <2>1. q.id = n /\ q.completedId = n
      BY <1>2
    <2>2. Begun(q, n) = [q EXCEPT !.id = n + 1, !.position = n, !.outstanding = TRUE]
      BY <1>2, <2>1 DEF Begun
    <2>3. /\ n + 1 \in RequestIds /\ n \in 0 .. FileSize
          /\ q \in [id : RequestIds, position : 0 .. FileSize, outstanding : BOOLEAN,
                    completedId : RequestIds, completedPosition : 0 .. FileSize]
      BY DEF ChunkRequests, RequestIds
    <2>4. Begun(q, n) \in ChunkRequests
      BY Zenon, <2>2, <2>3 DEF ChunkRequests
    <2> QED BY <1>2, <2>1, <2>2, <2>3, <2>4
  <1> QED BY <1>1, <1>2

\* The other operations of ChunkRequest.
LEMMA ChunkRequestFacts ==
    ASSUME NEW q \in ChunkRequests, NEW r \in Requests
    PROVE  /\ NewRequest \in ChunkRequests
           /\ Cancelled(q) \in ChunkRequests /\ ~Cancelled(q).outstanding
           /\ Accepted(q, r) \in ChunkRequests /\ ~Accepted(q, r).outstanding
           /\ Accepted(q, r).id = q.id
           /\ Accepted(q, r).completedId = r.id /\ Accepted(q, r).completedPosition = r.position
  <1>1. /\ 0 \in RequestIds /\ 0 \in 0 .. FileSize
        /\ r.id \in RequestIds /\ r.position \in 0 .. FileSize
    BY TransferAssumption DEF Requests, RequestIds, Chunks
  <1>2. NewRequest \in ChunkRequests
    BY Zenon, <1>1 DEF NewRequest, ChunkRequests
  <1>3. Cancelled(q) \in ChunkRequests
    BY Zenon DEF Cancelled, ChunkRequests
  <1>4. Accepted(q, r) \in ChunkRequests
    BY Zenon, <1>1 DEF Accepted, ChunkRequests
  <1>5. ~Cancelled(q).outstanding
    BY DEF Cancelled, ChunkRequests
  <1>6. /\ ~Accepted(q, r).outstanding /\ Accepted(q, r).id = q.id
        /\ Accepted(q, r).completedId = r.id /\ Accepted(q, r).completedPosition = r.position
    BY DEF Accepted, ChunkRequests
  <1> QED BY <1>2, <1>3, <1>4, <1>5, <1>6

-----------------------------------------------------------------------------
(* The initial state *)

\* The initial state satisfies the invariant.
LEMMA InitInvariant == Init => IInv
  <1> SUFFICES ASSUME Init PROVE IInv
    OBVIOUS
  <1> USE TransferAssumption, WatchAssumption
  <1>1. HostTypes
    <2>1. session \in BOOLEAN /\ expiring \in BOOLEAN
      BY Zenon DEF Init
    <2> QED BY <2>1 DEF Init, HostTypes, WatchInit, WatchTypeOK, Transports, Pages, HostPage,
                        HelloSteps
  <1>2. FileTypes
    <2>1. offered \in BOOLEAN /\ available \in BOOLEAN
      BY Zenon DEF Init
    <2>2. IsFiniteSet(subscribers) /\ Cardinality(subscribers) = 0
      BY FS_EmptySet DEF Init
    <2> QED BY <2>1, <2>2 DEF Init, FileTypes
  <1>3. BrowserTypes /\ Flying = {}
    <2>1. online \in BOOLEAN
      BY Zenon DEF Init
    <2>2. <<>> \in Seq(Frames) /\ Asked(<<>>) = {}
      <3>1. <<>> \in Seq(Frames)
        OBVIOUS
      <3> QED BY <3>1, AskedFacts
    <2> QED BY <2>1, <2>2, SetBagFacts DEF Init, BrowserTypes, Flying, Pages, HostPage
  <1>4. DownloadTypes
    <2>1. valid \in [Downloads -> BOOLEAN]
      BY Zenon DEF Init
    <2>2. <<>> \in Seq(Chunks)
      OBVIOUS
    <2>3. NewRequest \in ChunkRequests
      BY DEF NewRequest, ChunkRequests, RequestIds
    <2> QED BY <2>1, <2>2, <2>3 DEF Init, DownloadTypes
  <1>5. Withdrawal /\ Membership
    BY DEF Init, Withdrawal, Membership, Active
  <1>6. DownloadsOK
    <2> SUFFICES ASSUME NEW d \in Downloads
                 PROVE  DownloadOK(pc[d], valid[d], chunk[d], progress[d], request[d], received[d])
      BY DEF DownloadsOK
    <2>1. /\ pc[d] = "start" /\ valid[d] /\ chunk[d] = NoChunk /\ progress[d] = 0
          /\ request[d] = NewRequest /\ received[d] = <<>>
      BY DEF Init
    <2>2. <<>> = [i \in 1 .. 0 |-> i - 1]
      OBVIOUS
    <2> QED BY <2>1, <2>2 DEF DownloadOK, CoroutineOK, ReceivedOK, RequestOK, NewRequest
  <1> QED BY <1>1, <1>2, <1>3, <1>4, <1>5, <1>6 DEF IInv, FlyingOK

-----------------------------------------------------------------------------
(* What a step leaves alone *)

\* A part of the invariant is kept by a step that changes nothing it is about.
LEMMA Kept ==
    ASSUME IInv
    PROVE  /\ UNCHANGED <<watchVars, hostVars>> => HostTypes'
           /\ UNCHANGED fileVars => FileTypes'
           /\ UNCHANGED <<frames, browserVars>> => BrowserTypes' /\ Flying' = Flying
           /\ UNCHANGED downloadVars => DownloadTypes' /\ DownloadsOK'
           /\ UNCHANGED <<fileVars, expiring, step>> => Withdrawal'
           /\ UNCHANGED <<subscribers, waking, pc, valid>> => Membership'
           /\ UNCHANGED <<pc, valid, request>> /\ Flying' \subseteq Flying => FlyingOK'
  <1> USE DEF IInv
  <1>1. UNCHANGED <<watchVars, hostVars>> => HostTypes'
    BY Zenon DEF HostTypes, WatchTypeOK, watchVars, hostVars
  <1>2. UNCHANGED fileVars => FileTypes'
    BY Zenon DEF FileTypes, fileVars
  <1>3. UNCHANGED <<frames, browserVars>> => BrowserTypes' /\ Flying' = Flying
    BY Zenon DEF BrowserTypes, browserVars, Flying
  <1>4. UNCHANGED downloadVars => DownloadTypes' /\ DownloadsOK'
    BY Zenon DEF DownloadTypes, DownloadsOK, downloadVars
  <1>5. UNCHANGED <<fileVars, expiring, step>> => Withdrawal'
    BY DEF Withdrawal, fileVars
  <1>6. UNCHANGED <<subscribers, waking, pc, valid>> => Membership'
    BY Zenon DEF Membership
  <1>7. UNCHANGED <<pc, valid, request>> /\ Flying' \subseteq Flying => FlyingOK'
    BY Zenon DEF FlyingOK
  <1> QED BY <1>1, <1>2, <1>3, <1>4, <1>5, <1>6, <1>7

\* The variables of a download other than d.
OthersUnchanged(d) ==
    \A e \in Downloads \ {d} :
        /\ pc'[e] = pc[e] /\ valid'[e] = valid[e] /\ chunk'[e] = chunk[e]
        /\ progress'[e] = progress[e] /\ request'[e] = request[e]
        /\ received'[e] = received[e]

\* A step of a single download has to keep what the invariant says of that one.
LEMMA OthersKept ==
    ASSUME IInv, NEW d \in Downloads, OthersUnchanged(d),
           DownloadOK(pc'[d], valid'[d], chunk'[d], progress'[d], request'[d], received'[d])
    PROVE  DownloadsOK'
  BY Zenon DEF IInv, DownloadsOK, OthersUnchanged

\* The same for the requests under way, to which it may add its own.
LEMMA OthersFly ==
    ASSUME IInv, NEW d \in Downloads, OthersUnchanged(d),
           \A r \in Flying' : r.sub # d => r \in Flying,
           \A r \in Flying' : r.sub = d => MadeBy(r, pc'[d], valid'[d], request'[d])
    PROVE  FlyingOK'
  <1> SUFFICES ASSUME NEW r \in Flying'
               PROVE  MadeBy(r, pc'[r.sub], valid'[r.sub], request'[r.sub])
    BY Zenon DEF FlyingOK
  <1>1. CASE r.sub = d
    BY <1>1
  <1>2. CASE r.sub # d
    <2>1. r \in Flying
      BY <1>2
    <2>2. r.sub \in Downloads
      BY <2>1 DEF IInv, Flying, Asked, BrowserTypes, Requests
    <2>3. MadeBy(r, pc[r.sub], valid[r.sub], request[r.sub])
      BY <2>1 DEF IInv, FlyingOK
    <2> QED BY <1>2, <2>2, <2>3 DEF OthersUnchanged
  <1> QED BY <1>1, <1>2

-----------------------------------------------------------------------------
(* The host's transports and its browser *)

\* What happens to the transports and to the lease keeps the invariant: a new
\* transport has its hello before it, and at most loses what was held back.
LEMMA TransportInvariant ==
    ASSUME IInv,
           \/ Resume \/ Detach \/ LoseTransport \/ BeSilent \/ LoseSilent \/ Reload \/ Tick
    PROVE  IInv'
  <1> USE TransferAssumption, WatchAssumption
  <1>0. UNCHANGED <<fileVars, frames, downloadVars, session, expiring, reissuing, capability>>
    BY Zenon DEF Resume, Detach, LoseTransport, BeSilent, LoseSilent, Reload, Tick, hostVars
  <1>1. FileTypes' /\ DownloadTypes' /\ DownloadsOK' /\ Membership'
    BY <1>0, Kept DEF fileVars, downloadVars
  <1>2. /\ online' \in BOOLEAN
        /\ page' \in Pages
        /\ inbox' \in {inbox, EmptyBag} /\ reading' \in {reading, EmptyBag}
    BY Zenon DEF IInv, BrowserTypes, Resume, Detach, LoseTransport, BeSilent, LoseSilent,
                 Reload, Tick, browserVars
  <1>3. BrowserTypes' /\ Flying' \subseteq Flying
    BY <1>0, <1>2, SetBagFacts DEF IInv, BrowserTypes, Flying
  <1>4. FlyingOK'
    BY <1>0, <1>3, Kept DEF downloadVars
  <1>5. WatchTypeOK'
    BY DEF IInv, HostTypes, WatchTypeOK, watchVars, Transports, NoSocket, Resume, Detach,
           LoseTransport, BeSilent, LoseSilent, Reload, Tick, Bind, Unbind, Close, FallSilent,
           DropSilent, Live
  <1>6. /\ lease' \in 0 .. Grace \cup {NoLease}
        /\ hello' \in [Transports -> Pages]
        /\ step' \in [Transports -> HelloSteps]
        /\ \A g \in Transports : step'[g] = "clear" => step[g] = "clear"
    <2> USE DEF IInv, HostTypes, BrowserTypes, HelloSteps, NoLease
    <2>1. CASE Resume
      <3>1. UNCHANGED page /\ lease' = NoLease
        BY <2>1 DEF Resume
      <3>2. socket' \in Transports
        BY <2>1 DEF Resume, Bind
      <3>3. /\ hello' = [hello EXCEPT ![socket'] = page]
            /\ step' = [step EXCEPT ![socket'] = "capability"]
        BY <2>1 DEF Resume
      <3> QED BY <3>1, <3>2, <3>3
    <2>2. CASE Tick
      BY <2>2 DEF Tick
    <2>3. CASE Detach
      BY <2>3 DEF Detach
    <2>4. CASE LoseTransport \/ BeSilent \/ LoseSilent \/ Reload
      BY <2>4 DEF LoseTransport, BeSilent, LoseSilent, Reload, hostVars
    <2> QED BY <2>1, <2>2, <2>3, <2>4
  <1>7. HostTypes'
    <2>1. session' \in BOOLEAN /\ expiring' \in BOOLEAN
      BY Zenon, <1>0 DEF IInv, HostTypes
    <2> QED BY <1>0, <1>5, <1>6, <2>1 DEF IInv, HostTypes
  <1>8. Withdrawal'
    <2>1. Withdrawal
      BY DEF IInv
    <2> QED BY Zenon, <1>0, <1>6, <2>1 DEF Withdrawal, fileVars
  <1> QED BY <1>1, <1>3, <1>4, <1>7, <1>8 DEF IInv

\* A turn of the drain keeps the invariant: what it takes from the queue is
\* held back, read or lost.
LEMMA SendFrameInvariant ==
    ASSUME IInv, SendFrame
    PROVE  IInv'
  <1>0. /\ UNCHANGED <<watchVars, hostVars, fileVars, page, downloadVars>>
        /\ frames # <<>> /\ frames' = Tail(frames)
    BY Zenon DEF SendFrame
  <1>1. HostTypes' /\ FileTypes' /\ DownloadTypes' /\ DownloadsOK' /\ Membership' /\ Withdrawal'
    BY <1>0, Kept DEF fileVars, downloadVars, hostVars
  <1>2. /\ Head(frames) \in Frames /\ frames' \in Seq(Frames)
        /\ Asked(frames') \subseteq Asked(frames)
        /\ Head(frames).ask \subseteq Asked(frames)
    BY <1>0, AskedFacts DEF IInv, BrowserTypes
  <1>3. Asked(frames) \subseteq Requests
    BY DEF Asked
  <1> DEFINE new == SetToBag(Head(frames).ask)
  <1>4. IsABag(new) /\ DOMAIN new = Head(frames).ask /\ IsABag(EmptyBag) /\ DOMAIN EmptyBag = {}
    BY SetBagFacts
  <1> HIDE DEF new
  <1>5. /\ online' \in BOOLEAN
        /\ reading' \in {reading, reading (+) inbox, reading (+) new}
        /\ inbox' \in {inbox, EmptyBag, inbox (+) new}
    BY Zenon DEF SendFrame, TakeFrame, StartReading, IInv, BrowserTypes, new
  <1>6. /\ IsABag(inbox) /\ DOMAIN inbox \subseteq Requests
        /\ IsABag(reading) /\ DOMAIN reading \subseteq Requests
    BY DEF IInv, BrowserTypes
  <1>7. DOMAIN new \subseteq Asked(frames) /\ DOMAIN new \subseteq Requests
    BY <1>2, <1>3, <1>4
  <1>8. /\ IsABag(reading (+) inbox)
        /\ DOMAIN (reading (+) inbox) = DOMAIN reading \cup DOMAIN inbox
        /\ IsABag(reading (+) new) /\ DOMAIN (reading (+) new) = DOMAIN reading \cup DOMAIN new
        /\ IsABag(inbox (+) new) /\ DOMAIN (inbox (+) new) = DOMAIN inbox \cup DOMAIN new
    BY Zenon, <1>4, <1>6, BagFacts
  <1>9. /\ IsABag(inbox') /\ DOMAIN inbox' \subseteq DOMAIN inbox \cup DOMAIN new
        /\ IsABag(reading')
        /\ DOMAIN reading' \subseteq DOMAIN reading \cup DOMAIN inbox \cup DOMAIN new
    BY Zenon, <1>4, <1>5, <1>6, <1>8
  <1>10. Flying' \subseteq Flying
    BY <1>2, <1>7, <1>9 DEF Flying
  <1>11. BrowserTypes'
    BY <1>0, <1>2, <1>5, <1>6, <1>7, <1>9 DEF IInv, BrowserTypes
  <1>12. FlyingOK'
    BY <1>0, <1>10, Kept DEF downloadVars
  <1> QED BY <1>1, <1>11, <1>12 DEF IInv

-----------------------------------------------------------------------------
(* Withdrawal and expiry *)

\* File::clearSubscribers, for a file that has not been cleared: every
\* subscriber is handed over to be woken.
LEMMA ClearFacts ==
    ASSUME IInv, available, ~offered, ClearSubscribers, UNCHANGED <<pc, valid>>
    PROVE  FileTypes' /\ Membership'
  <1>1. /\ available' = FALSE /\ waking' = subscribers /\ subscribers' = {}
        /\ offered' = offered /\ waking = {}
    BY Zenon DEF ClearSubscribers, IInv, Withdrawal
  <1>2. FileTypes'
    <2>1. offered' \in BOOLEAN /\ available' \in BOOLEAN
      BY Zenon, <1>1 DEF IInv, FileTypes
    <2>2. IsFiniteSet(subscribers') /\ Cardinality(subscribers') = 0
      BY <1>1, FS_EmptySet
    <2> QED BY <1>1, <2>1, <2>2, TransferAssumption DEF IInv, FileTypes
  <1>3. Membership'
    <2>1. Membership
      BY DEF IInv
    <2> QED BY <1>1, <2>1 DEF Membership, Active
  <1> QED BY <1>2, <1>3

\* The removal of an expired session keeps the invariant.
LEMMA ReaperInvariant ==
    ASSUME IInv, Reaper
    PROVE  IInv'
  <1>0. UNCHANGED <<watchVars, lease, hello, step, reissuing, capability, frames, browserVars,
                    downloadVars>>
    BY Zenon DEF Reaper, Expire, ClearExpired
  <1>1. BrowserTypes' /\ DownloadTypes' /\ DownloadsOK' /\ Flying' = Flying
    BY <1>0, Kept DEF downloadVars
  <1>2. FlyingOK'
    BY <1>0, <1>1, Kept DEF downloadVars
  <1>3. HostTypes'
    <2>1. session' \in BOOLEAN /\ expiring' \in BOOLEAN
      BY Zenon DEF Reaper, Expire, ClearExpired, IInv, HostTypes, FileTypes
    <2> QED BY Zenon, <1>0, <2>1 DEF IInv, HostTypes, WatchTypeOK, watchVars
  <1>4. CASE Expire
    <2>1. /\ offered' = FALSE /\ expiring' = offered
          /\ UNCHANGED <<available, subscribers, waking, step>>
      BY <1>0, <1>4 DEF Expire
    <2>2. FileTypes' /\ Membership'
      <3>1. Membership'
        BY <1>0, <2>1, Kept DEF downloadVars
      <3>2. FileTypes'
        BY Zenon, <2>1 DEF IInv, FileTypes
      <3> QED BY <3>1, <3>2
    <2>3. Withdrawal'
      <3>1. Withdrawal
        BY DEF IInv
      <3> QED BY Zenon, <2>1, <3>1 DEF Withdrawal
    <2> QED BY <1>1, <1>2, <1>3, <2>2, <2>3 DEF IInv
  <1>5. CASE ClearExpired
    <2>1. Withdrawal
      BY DEF IInv
    <2>2. available /\ ~offered /\ \A g \in Transports : step[g] # "clear"
      BY Zenon, <1>5, <2>1 DEF ClearExpired, Withdrawal
    <2>3. ClearSubscribers
      BY <1>5 DEF ClearExpired
    <2>4. FileTypes' /\ Membership'
      BY <1>0, <2>2, <2>3, ClearFacts DEF downloadVars
    <2>5. /\ available' = FALSE /\ offered' = offered /\ subscribers' = {} /\ expiring' = FALSE
          /\ step' = step
      BY Zenon, <1>0, <1>5, <2>3 DEF ClearSubscribers, ClearExpired
    <2>6. Withdrawal'
      BY Zenon, <2>2, <2>5 DEF Withdrawal
    <2> QED BY <1>1, <1>2, <1>3, <2>4, <2>6 DEF IInv
  <1> QED BY <1>4, <1>5 DEF Reaper

-----------------------------------------------------------------------------
(* The handshake of the host *)

\* The hello of the host up to SESSION_READY keeps the invariant: the thread
\* that takes the file out of the room is the one that clears it.
LEMMA CapabilityInvariant ==
    ASSUME IInv, NEW g \in Transports, SetFileCapability(g) \/ ClearWithdrawn(g)
    PROVE  IInv'
  <1>0. UNCHANGED <<watchVars, session, lease, expiring, hello, reissuing, frames, browserVars,
                    downloadVars>>
    BY Zenon DEF SetFileCapability, ClearWithdrawn
  <1>1. BrowserTypes' /\ DownloadTypes' /\ DownloadsOK' /\ Flying' = Flying
    BY <1>0, Kept DEF downloadVars
  <1>2. FlyingOK'
    BY <1>0, <1>1, Kept DEF downloadVars
  <1>3. step \in [Transports -> HelloSteps] /\ hello \in [Transports -> Pages]
    BY DEF IInv, HostTypes
  <1>4. PICK s \in HelloSteps : step' = [step EXCEPT ![g] = s]
    BY Zenon DEF SetFileCapability, ClearWithdrawn, Goto, HelloSteps
  <1>5. step' \in [Transports -> HelloSteps] /\ \A h \in Transports \ {g} : step'[h] = step[h]
    BY <1>3, <1>4
  <1>6. HostTypes'
    <2>1. capability' \in Pages
      BY Zenon, <1>3 DEF SetFileCapability, ClearWithdrawn, IInv, HostTypes
    <2> QED BY Zenon, <1>0, <1>5, <2>1 DEF IInv, HostTypes, WatchTypeOK, watchVars
  <1>7. Withdrawal
    BY DEF IInv
  <1>8. CASE SetFileCapability(g)
    <2>1. /\ step[g] = "capability" /\ UNCHANGED <<available, subscribers, waking, expiring>>
          /\ offered' = (offered /\ capability = hello[g])
      BY <1>0, <1>8 DEF SetFileCapability
    <2>2. step'[g] = "clear" => offered /\ ~offered'
      BY <1>3, <1>8, <2>1 DEF SetFileCapability, Goto
    <2>3. offered' => offered
      BY <2>1
    <2>4. FileTypes' /\ Membership'
      <3>1. Membership'
        BY <1>0, <2>1, Kept DEF downloadVars
      <3>2. offered' \in BOOLEAN
        BY Zenon, <2>1
      <3>3. FileTypes'
        BY Zenon, <2>1, <3>2 DEF IInv, FileTypes
      <3> QED BY <3>1, <3>3
    <2>5. Withdrawal'
      <3>1. \A h \in Transports : step'[h] = "clear" =>
                /\ available /\ ~offered' /\ ~expiring
                /\ \A k \in Transports : step'[k] = "clear" => k = h
        BY Zenon, <1>5, <1>7, <2>2, <2>3 DEF Withdrawal
      <3>2. offered' => available /\ ~expiring
        BY <1>7, <2>3 DEF Withdrawal
      <3>3. /\ expiring => available
            /\ available => waking = {}
            /\ subscribers # {} => available
        BY <1>7 DEF Withdrawal
      <3> QED BY <2>1, <3>1, <3>2, <3>3 DEF Withdrawal
    <2> QED BY <1>1, <1>2, <1>6, <2>4, <2>5 DEF IInv
  <1>9. CASE ClearWithdrawn(g)
    <2>1. ClearSubscribers /\ step[g] = "clear" /\ step'[g] = "announce"
      BY <1>3, <1>9 DEF ClearWithdrawn, Goto
    <2>2. available /\ ~offered /\ ~expiring
      BY <1>7, <2>1 DEF Withdrawal
    <2>3. \A h \in Transports : step'[h] # "clear"
      BY <1>5, <1>7, <2>1 DEF Withdrawal
    <2>4. FileTypes' /\ Membership'
      BY <1>0, <2>1, <2>2, ClearFacts DEF downloadVars
    <2>5. /\ available' = FALSE /\ offered' = offered /\ subscribers' = {}
          /\ expiring' = expiring
      BY <1>0, <2>1 DEF ClearSubscribers
    <2>6. Withdrawal'
      BY Zenon, <2>2, <2>3, <2>5 DEF Withdrawal
    <2> QED BY <1>1, <1>2, <1>6, <2>4, <2>6 DEF IInv
  <1> QED BY <1>8, <1>9

\* A frame for the current transport, if there is one, is added to the queue.
LEMMA QueuedFacts ==
    ASSUME IInv, NEW f \in Frames
    PROVE  Queued(f) \in Seq(Frames) /\ Asked(Queued(f)) \subseteq Asked(frames) \cup f.ask
  <1>1. frames \in Seq(Frames)
    BY DEF IInv, BrowserTypes
  <1>2. Append(frames, f) \in Seq(Frames)
    BY <1>1
  <1> QED BY <1>1, <1>2, AskedFacts DEF Queued

\* SESSION_READY and the list of the requests to send again keep the invariant.
LEMMA ReadyInvariant ==
    ASSUME IInv, NEW g \in Transports, SendReady(g) \/ SnapshotSubscribers(g)
    PROVE  IInv'
  <1>0. UNCHANGED <<watchVars, session, lease, expiring, hello, capability, fileVars, browserVars,
                    downloadVars>>
    BY Zenon DEF SendReady, SnapshotSubscribers
  <1>1. FileTypes' /\ DownloadTypes' /\ DownloadsOK' /\ Membership'
    BY <1>0, Kept DEF downloadVars, fileVars
  <1>2. PICK s \in HelloSteps \ {"clear"} : step' = [step EXCEPT ![g] = s]
    BY DEF SendReady, SnapshotSubscribers, Goto, HelloSteps
  <1>3. /\ step' \in [Transports -> HelloSteps]
        /\ \A h \in Transports : step'[h] = "clear" => step[h] = "clear"
    BY <1>2 DEF IInv, HostTypes
  <1>4. reissuing' \in [Transports -> SUBSET Downloads]
    BY DEF SendReady, SnapshotSubscribers, IInv, HostTypes, FileTypes
  <1>5. HostTypes'
    BY Zenon, <1>0, <1>3, <1>4 DEF IInv, HostTypes, WatchTypeOK, watchVars
  <1>6. Withdrawal'
    <2>1. Withdrawal
      BY DEF IInv
    <2> QED BY Zenon, <1>0, <1>3, <2>1 DEF Withdrawal, fileVars
  <1>7. frames' \in Seq(Frames) /\ Asked(frames') \subseteq Asked(frames)
    <2>1. CASE SendReady(g)
      <3>1. Ready(generation) \in Frames /\ Ready(generation).ask = {}
        BY DEF Ready, Frames, IInv, HostTypes, WatchTypeOK
      <3>2. frames' = Queued(Ready(generation))
        BY <2>1 DEF SendReady
      <3> QED BY <3>1, <3>2, QueuedFacts
    <2>2. CASE SnapshotSubscribers(g)
      BY <2>2 DEF SnapshotSubscribers, IInv, BrowserTypes
    <2> QED BY <2>1, <2>2
  <1>8. BrowserTypes' /\ Flying' \subseteq Flying
    BY Zenon, <1>0, <1>7 DEF IInv, BrowserTypes, browserVars, Flying
  <1>9. FlyingOK'
    BY <1>0, <1>8, Kept DEF downloadVars
  <1> QED BY <1>1, <1>5, <1>6, <1>8, <1>9 DEF IInv

\* The request that a frame carries, as Peer::requestFileChunk writes it.
RequestOf(d, q) == [sub |-> d, id |-> q.id, position |-> q.position]

\* The frame of a request.
LEMMA RequestFrameFacts ==
    ASSUME IInv, NEW d \in Downloads, NEW q \in ChunkRequests, q.position \in Chunks
    PROVE  /\ RequestOf(d, q) \in Requests
           /\ RequestFrame(d, q) \in Frames /\ RequestFrame(d, q).ask = {RequestOf(d, q)}
  <1>1. RequestOf(d, q) \in Requests
    BY DEF RequestOf, Requests, ChunkRequests
  <1>2. generation \in Transports
    BY DEF IInv, HostTypes, WatchTypeOK
  <1>3. RequestFrame(d, q) = [to |-> generation, ask |-> {RequestOf(d, q)}]
    BY DEF RequestFrame, RequestOf, Ask
  <1> QED BY <1>1, <1>2, <1>3 DEF Frames

\* What the invariant says of a single download.
LEMMA DownloadFacts ==
    ASSUME IInv, NEW d \in Downloads
    PROVE  /\ pc[d] \in {"start", "found"} \cup Active \cup Ended
           /\ valid[d] \in BOOLEAN
           /\ chunk[d] \in Chunks \cup {NoChunk}
           /\ progress[d] \in 0 .. FileSize
           /\ request[d] \in ChunkRequests
           /\ received[d] \in Seq(Chunks)
           /\ DownloadOK(pc[d], valid[d], chunk[d], progress[d], request[d], received[d])
           /\ d \in subscribers => valid[d] /\ pc[d] \in Active
           /\ pc[d] \in {"start", "found"} => d \notin waking
           /\ pc[d] \in Active /\ valid[d] => d \in subscribers \cup waking
           /\ \A r \in Flying : r.sub = d => MadeBy(r, pc[d], valid[d], request[d])
  <1>1. /\ pc[d] \in {"start", "found"} \cup Active \cup Ended
        /\ chunk[d] \in Chunks \cup {NoChunk}
        /\ progress[d] \in 0 .. FileSize
        /\ request[d] \in ChunkRequests
        /\ received[d] \in Seq(Chunks)
    BY DEF IInv, DownloadTypes
  <1>2. valid[d] \in BOOLEAN
    BY Zenon DEF IInv, DownloadTypes
  <1>3. DownloadOK(pc[d], valid[d], chunk[d], progress[d], request[d], received[d])
    BY Zenon DEF IInv, DownloadsOK
  <1>4. /\ d \in subscribers => valid[d] /\ pc[d] \in Active
        /\ pc[d] \in {"start", "found"} => d \notin waking
        /\ pc[d] \in Active /\ valid[d] => d \in subscribers \cup waking
    BY Zenon DEF IInv, Membership
  <1>5. \A r \in Flying : r.sub = d => MadeBy(r, pc[d], valid[d], request[d])
    BY Zenon DEF IInv, FlyingOK
  <1> QED BY <1>1, <1>2, <1>3, <1>4, <1>5

\* A request that is sent again keeps the invariant: it is the one that is
\* outstanding.
LEMMA ReissueInvariant ==
    ASSUME IInv, NEW g \in Transports, NEW d \in Downloads, Reissue(g, d)
    PROVE  IInv'
  <1> USE TransferAssumption
  <1>0. /\ UNCHANGED <<watchVars, session, lease, expiring, hello, step, capability, fileVars,
                       browserVars, pc, valid, chunk, progress, received>>
        /\ reissuing' = [reissuing EXCEPT ![g] = @ \ {d}]
    BY Zenon DEF Reissue
  <1>1. FileTypes' /\ Membership' /\ Withdrawal'
    BY <1>0, Kept DEF fileVars
  <1>2. HostTypes'
    <2>1. reissuing' \in [Transports -> SUBSET Downloads]
      BY <1>0 DEF IInv, HostTypes
    <2> QED BY Zenon, <1>0, <2>1 DEF IInv, HostTypes, WatchTypeOK, watchVars
  <1>3. PICK q \in ChunkRequests : q = request[d]
    BY DownloadFacts
  <1>4. CASE ~(valid[d] /\ q.outstanding)
    <2>1. UNCHANGED <<request, frames>>
      BY <1>3, <1>4 DEF Reissue
    <2> QED BY <1>0, <1>1, <1>2, <2>1, Kept DEF IInv, downloadVars, browserVars
  <1>5. CASE valid[d] /\ q.outstanding
    <2>1. /\ RequestOK(pc[d], chunk[d], progress[d], q)
          /\ progress[d] \in 0 .. FileSize
      BY <1>3, <1>5, DownloadFacts DEF DownloadOK
    <2>2. /\ chunk[d] = NoChunk /\ progress[d] \in 0 .. FileSize - 1
          /\ pc[d] \in Active
          /\ q.id = progress[d] + 1 /\ q.position = progress[d] /\ q.position \in Chunks
      BY <1>5, <2>1 DEF RequestOK, Chunks
    <2>3. Begun(q, progress[d]) = q
      BY <1>5, <2>1, <2>2, BegunFacts
    <2>4. request' = request
      <3>1. request' = [request EXCEPT ![d] = q]
        BY Zenon, <1>3, <1>5, <2>3 DEF Reissue
      <3> QED BY <1>3, <3>1 DEF IInv, DownloadTypes
    <2>5. frames' = Queued(RequestFrame(d, q))
      <3>1. frames' = Queued(RequestFrame(d, request'[d]))
        BY Zenon, <1>3, <1>5 DEF Reissue
      <3>2. request'[d] = q
        BY <1>3, <2>4
      <3> QED BY Zenon, <3>1, <3>2
    <2>6. /\ RequestOf(d, q) \in Requests
          /\ frames' \in Seq(Frames)
          /\ Asked(frames') \subseteq Asked(frames) \cup {RequestOf(d, q)}
      BY <2>2, <2>5, RequestFrameFacts, QueuedFacts
    <2>7. BrowserTypes' /\ Flying' \subseteq Flying \cup {RequestOf(d, q)}
      BY Zenon, <1>0, <2>6 DEF IInv, BrowserTypes, browserVars, Flying
    <2>8. FlyingOK'
      <3>1. MadeBy(RequestOf(d, q), pc[d], valid[d], request[d])
        BY <1>3, <2>1, <2>2 DEF MadeBy, RequestOf, Active
      <3>2. RequestOf(d, q).sub = d
        BY DEF RequestOf
      <3>3. \A r \in Flying' : r.sub # d => r \in Flying
        BY Zenon, <2>7, <3>2
      <3>4. \A r \in Flying' : r.sub = d => MadeBy(r, pc'[d], valid'[d], request'[d])
        BY Zenon, <1>0, <2>4, <2>7, <3>1, DownloadFacts
      <3>5. OthersUnchanged(d)
        BY Zenon, <1>0, <2>4 DEF OthersUnchanged
      <3> QED BY Zenon, <3>3, <3>4, <3>5, OthersFly
    <2>9. DownloadTypes' /\ DownloadsOK'
      BY <1>0, <2>4, Kept DEF downloadVars
    <2> QED BY <1>1, <1>2, <2>7, <2>8, <2>9 DEF IInv
  <1> QED BY <1>4, <1>5

-----------------------------------------------------------------------------
(* The downloads *)

\* A step that gives download d these fields and leaves the others alone.
Updated(d, p, v, c, n, q, s) ==
    /\ pc' = [pc EXCEPT ![d] = p] /\ valid' = [valid EXCEPT ![d] = v]
    /\ chunk' = [chunk EXCEPT ![d] = c] /\ progress' = [progress EXCEPT ![d] = n]
    /\ request' = [request EXCEPT ![d] = q] /\ received' = [received EXCEPT ![d] = s]

\* The types of the fields of a download.
FieldTypes(p, v, c, n, q, s) ==
    /\ p \in {"start", "found"} \cup Active \cup Ended /\ v \in BOOLEAN
    /\ c \in Chunks \cup {NoChunk} /\ n \in 0 .. FileSize
    /\ q \in ChunkRequests /\ s \in Seq(Chunks)

\* The types after such a step.
LEMMA UpdatedFacts ==
    ASSUME IInv, NEW d \in Downloads, NEW p, NEW v, NEW c, NEW n, NEW q, NEW s,
           Updated(d, p, v, c, n, q, s), FieldTypes(p, v, c, n, q, s)
    PROVE  /\ DownloadTypes'
           /\ OthersUnchanged(d)
  <1> USE DEF IInv, Updated, FieldTypes
  <1>1. /\ pc' \in [Downloads -> {"start", "found"} \cup Active \cup Ended]
        /\ pc'[d] = p /\ \A e \in Downloads \ {d} : pc'[e] = pc[e]
    BY DEF DownloadTypes
  <1>2. valid' \in [Downloads -> BOOLEAN]
    BY Zenon DEF DownloadTypes
  <1>3. valid'[d] = v /\ \A e \in Downloads \ {d} : valid'[e] = valid[e]
    BY DEF DownloadTypes
  <1>4. /\ chunk' \in [Downloads -> Chunks \cup {NoChunk}]
        /\ chunk'[d] = c /\ \A e \in Downloads \ {d} : chunk'[e] = chunk[e]
    BY DEF DownloadTypes
  <1>5. /\ progress' \in [Downloads -> 0 .. FileSize]
        /\ progress'[d] = n /\ \A e \in Downloads \ {d} : progress'[e] = progress[e]
    BY DEF DownloadTypes
  <1>6. /\ request' \in [Downloads -> ChunkRequests]
        /\ request'[d] = q /\ \A e \in Downloads \ {d} : request'[e] = request[e]
    BY DEF DownloadTypes
  <1>7. /\ received' \in [Downloads -> Seq(Chunks)]
        /\ received'[d] = s /\ \A e \in Downloads \ {d} : received'[e] = received[e]
    BY DEF DownloadTypes
  <1> QED BY <1>1, <1>2, <1>3, <1>4, <1>5, <1>6, <1>7 DEF DownloadTypes, OthersUnchanged

\* The fields that a step leaves alone, in the form of Updated.
LEMMA SameFields ==
    ASSUME IInv, NEW d \in Downloads
    PROVE  /\ pc = [pc EXCEPT ![d] = pc[d]]
           /\ valid = [valid EXCEPT ![d] = valid[d]]
           /\ chunk = [chunk EXCEPT ![d] = chunk[d]]
           /\ progress = [progress EXCEPT ![d] = progress[d]]
           /\ request = [request EXCEPT ![d] = request[d]]
           /\ received = [received EXCEPT ![d] = received[d]]
  BY DEF IInv, DownloadTypes

\* The part of the invariant that is about the downloads and their requests.
DownloadPart == DownloadTypes /\ DownloadsOK /\ FlyingOK

\* A step of a single download has to keep what that part says of this one.
LEMMA UpdatedInvariant ==
    ASSUME IInv, NEW d \in Downloads, NEW p, NEW v, NEW c, NEW n, NEW q, NEW s,
           Updated(d, p, v, c, n, q, s), FieldTypes(p, v, c, n, q, s),
           DownloadOK(p, v, c, n, q, s),
           \A r \in Flying' : r.sub # d => r \in Flying,
           \A r \in Flying' : r.sub = d => MadeBy(r, p, v, q)
    PROVE  DownloadPart'
  <1>1. /\ DownloadTypes' /\ OthersUnchanged(d)
        /\ pc'[d] = p /\ valid'[d] = v /\ chunk'[d] = c /\ progress'[d] = n
        /\ request'[d] = q /\ received'[d] = s
    <2>1. DownloadTypes'
      BY Zenon, UpdatedFacts
    <2>2. OthersUnchanged(d)
      BY Zenon, UpdatedFacts
    <2> QED BY <2>1, <2>2 DEF Updated, IInv, DownloadTypes
  <1>2. DownloadsOK'
    BY <1>1, OthersKept
  <1>3. FlyingOK'
    <2>1. \A r \in Flying' : r.sub = d => MadeBy(r, pc'[d], valid'[d], request'[d])
      BY Zenon, <1>1
    <2> QED BY Zenon, <1>1, <2>1, OthersFly
  <1> QED BY <1>1, <1>2, <1>3 DEF DownloadPart

\* The same for the file's map of subscribers.
LEMMA UpdatedMembership ==
    ASSUME IInv, NEW d \in Downloads, NEW p, NEW v \in BOOLEAN,
           pc' = [pc EXCEPT ![d] = p], valid' = [valid EXCEPT ![d] = v],
           \A e \in Downloads \ {d} : /\ e \in subscribers' <=> e \in subscribers
                                      /\ e \in waking' <=> e \in waking,
           d \in subscribers' => v /\ p \in Active,
           p \in {"start", "found"} => d \notin waking',
           p \in Active /\ v => d \in subscribers' \cup waking'
    PROVE  Membership'
  <1> SUFFICES ASSUME NEW e \in Downloads
               PROVE  /\ e \in subscribers' => valid'[e] /\ pc'[e] \in Active
                      /\ pc'[e] \in {"start", "found"} => e \notin waking'
                      /\ pc'[e] \in Active /\ valid'[e] => e \in subscribers' \cup waking'
    BY Zenon DEF Membership
  <1>1. CASE e = d
    <2>1. pc'[e] = p /\ valid'[e] = v
      BY <1>1 DEF IInv, DownloadTypes
    <2> QED BY Zenon, <1>1, <2>1
  <1>2. CASE e # d
    <2>1. pc'[e] = pc[e] /\ valid'[e] = valid[e]
      BY <1>2 DEF IInv, DownloadTypes
    <2> QED BY Zenon, <1>2, <2>1, DownloadFacts
  <1> QED BY <1>1, <1>2

\* A step of a download from one place in its coroutine to another keeps the
\* invariant, when it sleeps only where it has nothing to do.
LEMMA MoveInvariant ==
    ASSUME IInv, NEW d \in Downloads, NEW p \in {"start", "found"} \cup Active \cup Ended,
           pc' = [pc EXCEPT ![d] = p],
           p \in Active <=> pc[d] \in Active,
           p \in {"start", "found"} => pc[d] \in {"start", "found"},
           p = "waiting" => valid[d] /\ chunk[d] = NoChunk,
           UNCHANGED <<watchVars, hostVars, fileVars, frames, browserVars, valid, chunk,
                       progress, request, received>>
    PROVE  IInv'
  <1>1. HostTypes' /\ FileTypes' /\ BrowserTypes' /\ Withdrawal' /\ Flying' = Flying
    BY Kept DEF hostVars, fileVars
  <1>2. PICK v \in BOOLEAN, c \in Chunks \cup {NoChunk}, n \in 0 .. FileSize,
             q \in ChunkRequests, s \in Seq(Chunks) :
            /\ v = valid[d] /\ c = chunk[d] /\ n = progress[d] /\ q = request[d]
            /\ s = received[d]
    BY Zenon, DownloadFacts
  <1>3. Updated(d, p, v, c, n, q, s)
    BY Zenon, <1>2, SameFields DEF Updated
  <1>4. DownloadOK(p, v, c, n, q, s) /\ \A r \in Flying : r.sub = d => MadeBy(r, p, v, q)
    BY <1>2, DownloadFacts DEF DownloadOK, CoroutineOK, ReceivedOK, RequestOK, MadeBy
  <1>5. DownloadPart'
    <2>1. /\ \A r \in Flying' : r.sub # d => r \in Flying
          /\ \A r \in Flying' : r.sub = d => MadeBy(r, p, v, q)
      BY Zenon, <1>1, <1>4
    <2>2. FieldTypes(p, v, c, n, q, s)
      BY Zenon DEF FieldTypes
    <2> QED BY Zenon, <1>3, <1>4, <2>1, <2>2, UpdatedInvariant
  <1>6. Membership'
    <2>1. /\ \A e \in Downloads \ {d} : /\ e \in subscribers' <=> e \in subscribers
                                        /\ e \in waking' <=> e \in waking
          /\ d \in subscribers' => v /\ p \in Active
          /\ p \in {"start", "found"} => d \notin waking'
          /\ p \in Active /\ v => d \in subscribers' \cup waking'
      BY Zenon, <1>2, DownloadFacts DEF fileVars
    <2> QED BY Zenon, <1>3, <2>1, UpdatedMembership DEF Updated
  <1> QED BY <1>1, <1>5, <1>6 DEF IInv, DownloadPart

\* The steps of a download that only move it keep the invariant.
LEMMA MovesInvariant ==
    ASSUME IInv, NEW d \in Downloads,
           GetFile(d) \/ CheckChunk(d) \/ Park(d) \/ OnNewItem(d)
    PROVE  IInv'
  <1>0. UNCHANGED <<watchVars, hostVars, fileVars, frames, browserVars, valid, chunk,
                    progress, request, received>>
    BY Zenon DEF GetFile, CheckChunk, Park, OnNewItem
  <1>1. CASE GetFile(d)
    <2>1. PICK p \in {"found", "refused"} : pc' = [pc EXCEPT ![d] = p]
      BY Zenon, <1>1 DEF GetFile
    <2>2. pc[d] = "start"
      BY <1>1 DEF GetFile
    <2> QED BY <1>0, <2>1, <2>2, MoveInvariant DEF Active, Ended
  <1>2. CASE CheckChunk(d)
    <2>1. PICK p \in {"reading", "parking"} : pc' = [pc EXCEPT ![d] = p]
      BY Zenon, <1>2 DEF CheckChunk
    <2>2. pc[d] = "checking"
      BY <1>2 DEF CheckChunk
    <2> QED BY <1>0, <2>1, <2>2, MoveInvariant DEF Active, Ended
  <1>3. CASE Park(d)
    <2>1. pc[d] = "parking" /\ pc' = [pc EXCEPT ![d] = "listed"]
      BY <1>3 DEF Park
    <2> QED BY <1>0, <2>1, MoveInvariant DEF Active, Ended
  <1>4. CASE OnNewItem(d)
    <2>1. PICK p \in {"checking", "waiting"} :
              /\ pc' = [pc EXCEPT ![d] = p]
              /\ p = "waiting" => valid[d] /\ chunk[d] = NoChunk
      BY <1>4 DEF OnNewItem
    <2>2. pc[d] = "listed"
      BY <1>4 DEF OnNewItem
    <2> QED BY <1>0, <2>1, <2>2, MoveInvariant DEF Active, Ended
  <1> QED BY <1>1, <1>2, <1>3, <1>4

\* File::subscribe keeps the invariant: it adds a subscriber only to a file that
\* is available, and only below the limit.
LEMMA SubscribeInvariant ==
    ASSUME IInv, NEW d \in Downloads, Subscribe(d)
    PROVE  IInv'
  <1> USE TransferAssumption
  <1>0. /\ pc[d] = "found"
        /\ UNCHANGED <<watchVars, hostVars, offered, available, waking, frames, browserVars,
                       valid, chunk, progress, request, received>>
    BY Zenon DEF Subscribe
  <1>1. CASE ~(available /\ Cardinality(subscribers) < MaxSubscribers)
    <2>1. pc' = [pc EXCEPT ![d] = "refused"] /\ UNCHANGED fileVars
      BY <1>0, <1>1 DEF Subscribe, fileVars
    <2> QED BY <1>0, <2>1, MoveInvariant DEF Active, Ended
  <1>2. CASE available /\ Cardinality(subscribers) < MaxSubscribers
    <2>1. pc' = [pc EXCEPT ![d] = "reading"] /\ subscribers' = subscribers \cup {d}
      BY <1>2 DEF Subscribe
    <2>2. HostTypes' /\ BrowserTypes' /\ Flying' = Flying
      BY <1>0, Kept DEF hostVars
    <2>3. PICK v \in BOOLEAN, c \in Chunks \cup {NoChunk}, n \in 0 .. FileSize,
               q \in ChunkRequests, s \in Seq(Chunks) :
              /\ v = valid[d] /\ c = chunk[d] /\ n = progress[d] /\ q = request[d]
              /\ s = received[d]
      BY Zenon, DownloadFacts
    <2>4. v /\ DownloadOK("found", v, c, n, q, s) /\ \A r \in Flying : r.sub # d
      BY <1>0, <2>3, DownloadFacts DEF DownloadOK, CoroutineOK, MadeBy
    <2>5. Updated(d, "reading", v, c, n, q, s)
      BY Zenon, <1>0, <2>1, <2>3, SameFields DEF Updated
    <2>6. DownloadPart'
      <3>1. DownloadOK("reading", v, c, n, q, s)
        BY <2>4 DEF DownloadOK, CoroutineOK, ReceivedOK, RequestOK, Active
      <3>2. FieldTypes("reading", v, c, n, q, s)
        BY Zenon DEF FieldTypes, Active
      <3>3. \A r \in Flying' : r \in Flying /\ r.sub # d
        BY <2>2, <2>4
      <3> QED BY Zenon, <2>5, <3>1, <3>2, <3>3, UpdatedInvariant
    <2>7. FileTypes'
      <3>1. /\ IsFiniteSet(subscribers')
            /\ Cardinality(subscribers')
               \in {Cardinality(subscribers), Cardinality(subscribers) + 1}
        BY <2>1, FS_AddElement DEF IInv, FileTypes
      <3>2. Cardinality(subscribers) \in Nat
        BY FS_CardinalityType DEF IInv, FileTypes
      <3>3. Cardinality(subscribers') <= MaxSubscribers
        BY <1>2, <3>1, <3>2
      <3> QED BY Zenon, <1>0, <2>1, <3>1, <3>3 DEF IInv, FileTypes
    <2>8. Withdrawal'
      <3>1. Withdrawal
        BY DEF IInv
      <3> QED BY Zenon, <1>0, <1>2, <3>1 DEF Withdrawal, hostVars
    <2>9. Membership'
      <3>1. /\ \A e \in Downloads \ {d} : /\ e \in subscribers' <=> e \in subscribers
                                          /\ e \in waking' <=> e \in waking
            /\ d \in subscribers' /\ "reading" \in Active
            /\ "reading" \notin {"start", "found"}
        BY <1>0, <2>1 DEF Active
      <3> QED BY Zenon, <2>4, <2>5, <3>1, UpdatedMembership DEF Updated
    <2> QED BY <2>2, <2>6, <2>7, <2>8, <2>9 DEF IInv, DownloadPart
  <1> QED BY <1>1, <1>2

\* The end of a download keeps the invariant: its subscriber leaves the map, and
\* its requests that are still under way fit nothing.
LEMMA EndInvariant ==
    ASSUME IInv, NEW d \in Downloads, NEW how \in Ended, End(d, how)
    PROVE  IInv'
  <1> USE TransferAssumption
  <1>0. /\ UNCHANGED <<watchVars, hostVars, offered, available, waking, frames, browserVars>>
        /\ subscribers' = subscribers \ {d}
    BY Zenon DEF End
  <1>1. HostTypes' /\ BrowserTypes' /\ Flying' = Flying
    BY <1>0, Kept DEF hostVars
  <1>2. Updated(d, how, TRUE, NoChunk, 0, NewRequest, <<>>)
    BY Zenon DEF End, Updated
  <1>3. how \notin Active /\ how \notin {"start", "found"}
    BY DEF Active, Ended
  <1>4. DownloadPart'
    <2>1. DownloadOK(how, TRUE, NoChunk, 0, NewRequest, <<>>)
      <3>1. <<>> = [i \in 1 .. 0 |-> i - 1]
        OBVIOUS
      <3> QED BY <1>3, <3>1
              DEF DownloadOK, CoroutineOK, ReceivedOK, RequestOK, NewRequest, Active
    <2>2. /\ \A r \in Flying' : r.sub # d => r \in Flying
          /\ \A r \in Flying' : r.sub = d => MadeBy(r, how, TRUE, NewRequest)
      BY <1>1, <1>3, DownloadFacts DEF MadeBy
    <2>3. NewRequest \in ChunkRequests
      BY DEF NewRequest, ChunkRequests, RequestIds
    <2>4. <<>> \in Seq(Chunks)
      OBVIOUS
    <2>5. 0 \in 0 .. FileSize
      OBVIOUS
    <2>6. FieldTypes(how, TRUE, NoChunk, 0, NewRequest, <<>>)
      BY Zenon, <2>3, <2>4, <2>5 DEF FieldTypes
    <2> QED BY Zenon, <1>2, <2>1, <2>2, <2>6, UpdatedInvariant
  <1>5. Membership'
    <2>1. /\ \A e \in Downloads \ {d} : /\ e \in subscribers' <=> e \in subscribers
                                        /\ e \in waking' <=> e \in waking
          /\ d \notin subscribers'
      BY <1>0
    <2>2. pc' = [pc EXCEPT ![d] = how] /\ valid' = [valid EXCEPT ![d] = TRUE]
      BY DEF End
    <2> QED BY Zenon, <1>3, <2>1, <2>2, UpdatedMembership
  <1>6. FileTypes'
    <2>1. /\ IsFiniteSet(subscribers')
          /\ Cardinality(subscribers') <= Cardinality(subscribers)
          /\ Cardinality(subscribers) \in Nat /\ Cardinality(subscribers') \in Nat
      BY <1>0, FS_Subset, FS_CardinalityType DEF IInv, FileTypes
    <2>2. Cardinality(subscribers') <= MaxSubscribers
      BY <2>1 DEF IInv, FileTypes
    <2> QED BY Zenon, <1>0, <2>1, <2>2 DEF IInv, FileTypes
  <1>7. Withdrawal'
    <2>1. Withdrawal
      BY DEF IInv
    <2>2. subscribers' # {} => subscribers # {}
      BY <1>0
    <2> QED BY Zenon, <1>0, <2>1, <2>2 DEF Withdrawal, hostVars
  <1> QED BY <1>1, <1>4, <1>5, <1>6, <1>7 DEF IInv, DownloadPart

\* readChunk with a chunk in the buffer keeps the invariant: the chunk is the
\* one that follows what the client has.
LEMMA ReadBufferedInvariant ==
    ASSUME IInv, NEW d \in Downloads, ReadBuffered(d)
    PROVE  IInv'
  <1> USE TransferAssumption
  <1>0. UNCHANGED <<watchVars, hostVars, fileVars, frames, browserVars, pc, valid, request>>
    BY Zenon DEF ReadBuffered
  <1>1. /\ HostTypes' /\ FileTypes' /\ BrowserTypes' /\ Flying' = Flying
        /\ Membership' /\ Withdrawal'
    BY <1>0, Kept DEF hostVars, fileVars
  <1>2. PICK p \in {"start", "found"} \cup Active \cup Ended, v \in BOOLEAN,
             c \in Chunks \cup {NoChunk}, n \in 0 .. FileSize, q \in ChunkRequests,
             s \in Seq(Chunks) :
            /\ p = pc[d] /\ v = valid[d] /\ c = chunk[d] /\ n = progress[d] /\ q = request[d]
            /\ s = received[d]
    BY Zenon, DownloadFacts
  <1>3. /\ p = "reading" /\ v /\ n < FileSize /\ c # NoChunk
        /\ received' = [received EXCEPT ![d] = Append(s, c)]
        /\ progress' = [progress EXCEPT ![d] = n + 1]
        /\ chunk' = [chunk EXCEPT ![d] = NoChunk]
    BY <1>2 DEF ReadBuffered
  <1>4. DownloadOK(p, v, c, n, q, s) /\ \A r \in Flying : r.sub = d => MadeBy(r, p, v, q)
    BY Zenon, <1>2, DownloadFacts
  <1>5. /\ c = n /\ ~q.outstanding /\ q.id = n + 1 /\ q.completedId = n + 1
        /\ s = [i \in 1 .. n |-> i - 1] /\ n \in 0 .. FileSize - 1
    BY <1>3, <1>4 DEF DownloadOK, ReceivedOK, RequestOK
  <1>6. /\ Append(s, c) = [i \in 1 .. n + 1 |-> i - 1]
        /\ Append(s, c) \in Seq(Chunks)
    BY <1>5, ReceivedGrows
  <1>7. Updated(d, p, v, NoChunk, n + 1, q, Append(s, c))
    BY Zenon, <1>0, <1>2, <1>3, SameFields DEF Updated
  <1>8. DownloadOK(p, v, NoChunk, n + 1, q, Append(s, c))
    BY <1>3, <1>4, <1>5, <1>6 DEF DownloadOK, CoroutineOK, ReceivedOK, RequestOK
  <1>9. DownloadPart'
    <2>1. n + 1 \in 0 .. FileSize
      BY <1>5
    <2>2. FieldTypes(p, v, NoChunk, n + 1, q, Append(s, c))
      BY Zenon, <1>6, <2>1 DEF FieldTypes
    <2>3. /\ \A r \in Flying' : r.sub # d => r \in Flying
          /\ \A r \in Flying' : r.sub = d => MadeBy(r, p, v, q)
      BY Zenon, <1>1, <1>4
    <2> QED BY Zenon, <1>7, <1>8, <2>2, <2>3, UpdatedInvariant
  <1> QED BY <1>1, <1>9 DEF IInv, DownloadPart

\* requestChunk keeps the invariant: what it asks for is the next chunk.
LEMMA RequestChunkInvariant ==
    ASSUME IInv, NEW d \in Downloads, RequestChunk(d)
    PROVE  IInv'
  <1> USE TransferAssumption
  <1>0. UNCHANGED <<watchVars, hostVars, fileVars, browserVars, valid, chunk, progress, received>>
    BY Zenon DEF RequestChunk
  <1>1. HostTypes' /\ FileTypes' /\ Withdrawal'
    BY <1>0, Kept DEF hostVars, fileVars
  <1>2. PICK p \in {"start", "found"} \cup Active \cup Ended, v \in BOOLEAN,
             c \in Chunks \cup {NoChunk}, n \in 0 .. FileSize, q \in ChunkRequests,
             s \in Seq(Chunks) :
            /\ p = pc[d] /\ v = valid[d] /\ c = chunk[d] /\ n = progress[d] /\ q = request[d]
            /\ s = received[d]
    BY Zenon, DownloadFacts
  <1>3. p = "reading" /\ v /\ n \in 0 .. FileSize - 1 /\ c = NoChunk
    BY <1>2 DEF RequestChunk
  <1>4. DownloadOK(p, v, c, n, q, s) /\ \A r \in Flying : r.sub = d => MadeBy(r, p, v, q)
    BY Zenon, <1>2, DownloadFacts
  <1>5. RequestOK(p, NoChunk, n, q)
    BY <1>3, <1>4 DEF DownloadOK
  <1>6. PICK b \in ChunkRequests :
            /\ b = Begun(q, n) /\ b.outstanding = TRUE
            /\ b.id = n + 1 /\ b.position = n /\ b.completedId = n
            /\ b.completedPosition = q.completedPosition /\ b.id >= q.id
    BY <1>3, <1>5, BegunFacts
  <1>7. /\ request' = [request EXCEPT ![d] = b]
        /\ pc' = [pc EXCEPT ![d] = "checking"]
    BY Zenon, <1>2, <1>6 DEF RequestChunk
  <1>8. Updated(d, "checking", v, c, n, b, s)
    BY Zenon, <1>0, <1>2, <1>7, SameFields DEF Updated
  <1>9. frames' = Queued(RequestFrame(d, b))
    <2>1. request'[d] = b
      BY <1>7 DEF IInv, DownloadTypes
    <2>2. frames' = Queued(RequestFrame(d, request'[d]))
      BY Zenon DEF RequestChunk
    <2> QED BY Zenon, <2>1, <2>2
  <1>10. b.position \in Chunks
    BY <1>3, <1>6 DEF Chunks
  <1>11. /\ RequestOf(d, b) \in Requests
         /\ frames' \in Seq(Frames)
         /\ Asked(frames') \subseteq Asked(frames) \cup {RequestOf(d, b)}
    BY <1>9, <1>10, RequestFrameFacts, QueuedFacts
  <1>12. BrowserTypes' /\ Flying' \subseteq Flying \cup {RequestOf(d, b)}
    BY Zenon, <1>0, <1>11 DEF IInv, BrowserTypes, browserVars, Flying
  <1>13. DownloadPart'
    <2>1. DownloadOK("checking", v, c, n, b, s)
      BY <1>3, <1>4, <1>5, <1>6
      DEF DownloadOK, CoroutineOK, ReceivedOK, RequestOK, Active
    <2>2. MadeBy(RequestOf(d, b), "checking", v, b) /\ RequestOf(d, b).sub = d
      BY <1>3, <1>6 DEF MadeBy, RequestOf
    <2>3. \A r \in Flying : r.sub = d => MadeBy(r, "checking", v, b)
      <3> SUFFICES ASSUME NEW r \in Flying, r.sub = d PROVE MadeBy(r, "checking", v, b)
        OBVIOUS
      <3>1. MadeBy(r, p, v, q) /\ r \in Requests
        BY <1>4 DEF IInv, BrowserTypes, Flying, Asked
      <3>2. r.id \in Int /\ q.id \in Int /\ b.id \in Int
        BY <3>1 DEF Requests, ChunkRequests, RequestIds
      <3> QED BY <1>3, <1>6, <3>1, <3>2 DEF MadeBy, Active
    <2>4. /\ \A r \in Flying' : r.sub # d => r \in Flying
          /\ \A r \in Flying' : r.sub = d => MadeBy(r, "checking", v, b)
      BY Zenon, <1>12, <2>2, <2>3
    <2>5. FieldTypes("checking", v, c, n, b, s)
      BY Zenon DEF FieldTypes, Active
    <2> QED BY Zenon, <1>8, <2>1, <2>4, <2>5, UpdatedInvariant
  <1>14. Membership'
    <2>1. /\ \A e \in Downloads \ {d} : /\ e \in subscribers' <=> e \in subscribers
                                        /\ e \in waking' <=> e \in waking
          /\ d \in subscribers' => v
          /\ d \in subscribers' \cup waking'
          /\ "checking" \in Active /\ "checking" \notin {"start", "found"}
      BY <1>0, <1>2, <1>3, DownloadFacts DEF fileVars, Active
    <2> QED BY Zenon, <1>8, <2>1, UpdatedMembership DEF Updated
  <1> QED BY <1>1, <1>12, <1>13, <1>14 DEF IInv, DownloadPart

\* Where a download is after a wakeup: it no longer sleeps, and is otherwise
\* where it was.
LEMMA NotifiedFacts ==
    ASSUME IInv, NEW d \in Downloads
    PROVE  /\ Notified(d) \in {"start", "found"} \cup Active \cup Ended
           /\ Notified(d) # "waiting"
           /\ Notified(d) \in Active <=> pc[d] \in Active
           /\ Notified(d) \in {"start", "found"} <=> pc[d] \in {"start", "found"}
  BY DownloadFacts DEF Notified, Active, Ended

\* Subscriber::invalidate keeps the invariant.
LEMMA WakeInvariant ==
    ASSUME IInv, NEW d \in Downloads, Wake(d)
    PROVE  IInv'
  <1>0. /\ UNCHANGED <<watchVars, hostVars, offered, available, subscribers, frames, browserVars,
                       chunk, progress, received>>
        /\ d \in waking /\ waking' = waking \ {d}
    BY Zenon DEF Wake
  <1>1. HostTypes' /\ BrowserTypes' /\ Flying' = Flying
    BY <1>0, Kept DEF hostVars
  <1>2. subscribers = {} /\ ~available
    BY <1>0 DEF IInv, Withdrawal
  <1>3. FileTypes' /\ Withdrawal'
    <2>1. waking' \subseteq waking
      BY <1>0
    <2>2. FileTypes'
      BY Zenon, <1>0, <2>1 DEF IInv, FileTypes
    <2>3. Withdrawal
      BY DEF IInv
    <2> QED BY Zenon, <1>0, <1>2, <2>2, <2>3 DEF Withdrawal, hostVars
    <1>4. PICK p \in {"start", "found"} \cup Active \cup Ended, v \in BOOLEAN,
             c \in Chunks \cup {NoChunk}, n \in 0 .. FileSize, q \in ChunkRequests,
             s \in Seq(Chunks) :
            /\ p = pc[d] /\ v = valid[d] /\ c = chunk[d] /\ n = progress[d] /\ q = request[d]
            /\ s = received[d]
    BY Zenon, DownloadFacts
  <1>5. PICK w \in {"start", "found"} \cup Active \cup Ended :
            /\ w = Notified(d) /\ w # "waiting" /\ w \notin {"start", "found"}
    BY <1>0, <1>4, NotifiedFacts, DownloadFacts
  <1>6. PICK b \in ChunkRequests : b = Cancelled(q) /\ ~b.outstanding
    <2>1. Cancelled(q) \in ChunkRequests
      BY Zenon DEF Cancelled, ChunkRequests
    <2>2. ~Cancelled(q).outstanding
      BY DEF Cancelled, ChunkRequests
    <2> QED BY <2>1, <2>2
  <1>7. Updated(d, w, FALSE, c, n, b, s)
    BY Zenon, <1>0, <1>4, <1>5, <1>6, SameFields DEF Updated, Wake
  <1>8. DownloadOK(p, v, c, n, q, s) /\ \A r \in Flying : r.sub = d => MadeBy(r, p, v, q)
    BY Zenon, <1>4, DownloadFacts
  <1>9. DownloadPart'
    <2>1. DownloadOK(w, FALSE, c, n, b, s)
      BY <1>5, <1>6, <1>8 DEF DownloadOK, CoroutineOK, ReceivedOK
    <2>2. \A r \in Flying : r.sub = d => MadeBy(r, w, FALSE, b)
      BY <1>5, <1>8 DEF MadeBy
    <2>3. /\ \A r \in Flying' : r.sub # d => r \in Flying
          /\ \A r \in Flying' : r.sub = d => MadeBy(r, w, FALSE, b)
      BY Zenon, <1>1, <2>2
    <2>4. FieldTypes(w, FALSE, c, n, b, s)
      BY Zenon DEF FieldTypes
    <2> QED BY Zenon, <1>7, <2>1, <2>3, <2>4, UpdatedInvariant
  <1>10. Membership'
    <2>1. /\ \A e \in Downloads \ {d} : /\ e \in subscribers' <=> e \in subscribers
                                        /\ e \in waking' <=> e \in waking
          /\ d \notin subscribers' /\ d \notin waking'
      BY <1>0, <1>2
    <2> QED BY Zenon, <1>5, <1>7, <2>1, UpdatedMembership DEF Updated
  <1> QED BY <1>1, <1>3, <1>9, <1>10 DEF IInv, DownloadPart

\* The answer of the page keeps the invariant: the one that is accepted is the
\* chunk that its subscriber waits for, whatever else is under way.
LEMMA FinishReadingInvariant ==
    ASSUME IInv, NEW r \in BagToSet(reading), FinishReading(r)
    PROVE  IInv'
  <1> USE TransferAssumption
  <1>0. /\ UNCHANGED <<socket, generation, silent, dropped, hostVars, fileVars, frames, page,
                       online, inbox, valid, progress, received>>
        /\ reading' = reading (-) SetToBag({r})
    BY Zenon DEF FinishReading
  <1>1. FileTypes' /\ Withdrawal'
    BY <1>0, Kept DEF hostVars, fileVars
  <1>2. HostTypes'
    <2>1. closed' \subseteq Transports
      BY DEF FinishReading, HandleFileChunk, Live, IInv, HostTypes, WatchTypeOK
    <2> QED BY Zenon, <1>0, <2>1 DEF IInv, HostTypes, WatchTypeOK, hostVars
  <1>3. BrowserTypes' /\ Flying' \subseteq Flying
    <2>1. IsABag(reading) /\ DOMAIN reading \subseteq Requests
      BY DEF IInv, BrowserTypes
    <2>2. IsABag(SetToBag({r}))
      BY SetBagFacts
    <2>3. IsABag(reading') /\ DOMAIN reading' \subseteq DOMAIN reading
      BY Zenon, <1>0, <2>1, <2>2, BagFacts
    <2>4. BrowserTypes'
      BY Zenon, <1>0, <2>1, <2>3 DEF IInv, BrowserTypes
    <2>5. Flying' \subseteq Flying
      BY Zenon, <1>0, <2>3 DEF Flying
    <2> QED BY <2>4, <2>5
  <1>4. CASE UNCHANGED <<chunk, request, pc>>
    <2>1. DownloadTypes' /\ DownloadsOK' /\ Membership' /\ FlyingOK'
      BY <1>0, <1>3, <1>4, Kept DEF downloadVars, fileVars
    <2> QED BY <1>1, <1>2, <1>3, <2>1 DEF IInv
  <1>5. CASE ~UNCHANGED <<chunk, request, pc>>
    <2>1. r \in Flying /\ r \in Requests
      BY DEF IInv, BrowserTypes, Flying, BagToSet
    <2>2. PICK d \in Downloads : d = r.sub
      BY <2>1 DEF Requests
    <2>3. /\ Verdict(r) = "ACCEPTED"
          /\ chunk' = [chunk EXCEPT ![d] = r.position]
          /\ request' = [request EXCEPT ![d] = Accepted(@, r)]
          /\ pc' = [pc EXCEPT ![d] = Notified(d)]
      BY Zenon, <1>5, <2>2 DEF FinishReading, HandleFileChunk
      <2>4. PICK p \in {"start", "found"} \cup Active \cup Ended, v \in BOOLEAN,
               c \in Chunks \cup {NoChunk}, n \in 0 .. FileSize, q \in ChunkRequests,
               s \in Seq(Chunks) :
              /\ p = pc[d] /\ v = valid[d] /\ c = chunk[d] /\ n = progress[d] /\ q = request[d]
              /\ s = received[d]
      BY Zenon, DownloadFacts
    <2>5. d \in subscribers /\ v /\ p \in Active
      BY <2>2, <2>3, <2>4, DownloadFacts DEF Verdict
    <2>6. q.outstanding /\ r.id = q.id /\ r.position = q.position
      BY <2>2, <2>3, <2>4, <2>5 DEF Verdict, Accept
    <2>7. DownloadOK(p, v, c, n, q, s) /\ \A x \in Flying : x.sub = d => MadeBy(x, p, v, q)
      BY Zenon, <2>4, DownloadFacts
    <2>8. /\ n < FileSize /\ q.id = n + 1 /\ q.position = n /\ r.position \in Chunks \cup {NoChunk}
      BY <2>1, <2>5, <2>6, <2>7 DEF DownloadOK, RequestOK, Requests
    <2>9. PICK b \in ChunkRequests :
              /\ b = Accepted(q, r) /\ ~b.outstanding /\ b.id = q.id
              /\ b.completedId = r.id /\ b.completedPosition = r.position
      BY <2>1, ChunkRequestFacts
    <2>10. PICK w \in {"start", "found"} \cup Active \cup Ended :
               w = Notified(d) /\ w # "waiting" /\ w \in Active
      BY <2>4, <2>5, NotifiedFacts
    <2>11. PICK k \in Chunks \cup {NoChunk} : k = r.position
      BY <2>8
    <2>12. Updated(d, w, v, k, n, b, s)
      BY Zenon, <1>0, <2>3, <2>4, <2>9, <2>10, <2>11, SameFields DEF Updated
    <2>13. DownloadPart'
      <3>1. DownloadOK(w, v, k, n, b, s)
        BY <2>6, <2>7, <2>8, <2>9, <2>10, <2>11
        DEF DownloadOK, CoroutineOK, ReceivedOK, RequestOK, NoChunk, Active
      <3>2. \A x \in Flying : x.sub = d => MadeBy(x, w, v, b)
        BY <2>5, <2>7, <2>9, <2>10 DEF MadeBy, Active
      <3>3. /\ \A x \in Flying' : x.sub # d => x \in Flying
            /\ \A x \in Flying' : x.sub = d => MadeBy(x, w, v, b)
        BY Zenon, <1>3, <3>2
      <3>4. FieldTypes(w, v, k, n, b, s)
        BY Zenon DEF FieldTypes
      <3> QED BY Zenon, <2>12, <3>1, <3>3, <3>4, UpdatedInvariant
    <2>14. Membership'
      <3>1. /\ \A e \in Downloads \ {d} : /\ e \in subscribers' <=> e \in subscribers
                                          /\ e \in waking' <=> e \in waking
            /\ d \in subscribers' /\ w \notin {"start", "found"}
        BY <1>0, <2>5, <2>10 DEF fileVars, Active
      <3> QED BY Zenon, <2>5, <2>10, <2>12, <3>1, UpdatedMembership DEF Updated
    <2> QED BY <1>1, <1>2, <1>3, <2>13, <2>14 DEF IInv, DownloadPart
  <1> QED BY <1>4, <1>5

-----------------------------------------------------------------------------
(* The theorems *)

\* Every step keeps the invariant.
LEMMA NextInvariant ==
    ASSUME IInv, [Next]_vars
    PROVE  IInv'
  <1>1. ASSUME NEW d \in Downloads, GetFile(d) \/ Subscribe(d) \/ Abort(d)
        PROVE  IInv'
    <2>1. CASE GetFile(d)
      BY <2>1, MovesInvariant
    <2>2. CASE Subscribe(d)
      BY <2>2, SubscribeInvariant
    <2>3. CASE Abort(d)
      BY <2>3, EndInvariant DEF Abort, Ended
    <2> QED BY <1>1, <2>1, <2>2, <2>3
  <1>2. ASSUME NEW d \in Downloads, Download(d)
        PROVE  IInv'
    <2>1. CASE ReadInvalid(d) \/ ReadEnd(d)
      BY <2>1, EndInvariant DEF ReadInvalid, ReadEnd, Ended
    <2>2. CASE ReadBuffered(d)
      BY <2>2, ReadBufferedInvariant
    <2>3. CASE RequestChunk(d)
      BY <2>3, RequestChunkInvariant
    <2>4. CASE CheckChunk(d) \/ Park(d) \/ OnNewItem(d)
      BY <2>4, MovesInvariant
    <2>5. CASE Wake(d)
      BY <2>5, WakeInvariant
    <2> QED BY <1>2, <2>1, <2>2, <2>3, <2>4, <2>5 DEF Download
  <1>3. ASSUME Server
        PROVE  IInv'
    <2>1. ASSUME NEW g \in Transports, Handshake(g)
          PROVE  IInv'
      <3>1. CASE SetFileCapability(g) \/ ClearWithdrawn(g)
        BY <3>1, CapabilityInvariant
      <3>2. CASE SendReady(g) \/ SnapshotSubscribers(g)
        BY <3>2, ReadyInvariant
      <3>3. ASSUME NEW d \in Downloads, Reissue(g, d)
            PROVE  IInv'
        BY <3>3, ReissueInvariant
      <3> QED BY <2>1, <3>1, <3>2, <3>3 DEF Handshake
    <2>2. CASE Reaper
      BY <2>2, ReaperInvariant
    <2>3. CASE SendFrame
      BY <2>3, SendFrameInvariant
    <2>4. CASE Detach \/ LoseSilent \/ Tick
      BY <2>4, TransportInvariant
    <2> QED BY <1>3, <2>1, <2>2, <2>3, <2>4 DEF Server
  <1>4. ASSUME NEW r \in BagToSet(reading), FinishReading(r)
        PROVE  IInv'
    BY <1>4, FinishReadingInvariant
  <1>5. CASE Resume \/ LoseTransport \/ BeSilent \/ Reload
    BY <1>5, TransportInvariant
  <1>6. CASE UNCHANGED vars
    BY <1>6, Kept DEF IInv, vars, hostVars, fileVars, downloadVars
  <1> QED BY <1>1, <1>2, <1>3, <1>4, <1>5, <1>6 DEF Next

\* The invariant holds in every state.
LEMMA Invariant == Spec => []IInv
  <1>1. Init => IInv
    BY InitInvariant
  <1>2. IInv /\ [Next]_vars => IInv'
    BY NextInvariant
  <1> QED BY <1>1, <1>2, PTL DEF Spec

\* The state has its type, and the file never has more subscribers than
\* Limits::subscribersPerFile allows (File::subscribe).
THEOREM TypeCorrect == Spec => []TypeOK
  <1>1. IInv => TypeOK
    BY DEF IInv, HostTypes, FileTypes, BrowserTypes, DownloadTypes, TypeOK
  <1> QED BY <1>1, Invariant, PTL

\* What a client is given is the file from its beginning, each chunk once and in
\* order, whatever transports the host loses and whatever is sent again
\* (ChunkRequest::begin and accept, Subscriber::readChunk).
THEOREM ClientsReceiveInOrder == Spec => []ReceivedInOrder
  <1>1. IInv => ReceivedInOrder
    BY Zenon DEF IInv, DownloadsOK, DownloadOK, ReceivedOK, ReceivedInOrder
  <1> QED BY <1>1, Invariant, PTL

\* No download sleeps through its chunk or its invalidation
\* (WaitListListener::onNewItem against provideFileChunk and invalidate).
THEOREM NoDownloadOversleeps == Spec => []NoLostWakeup
  <1>1. IInv => NoLostWakeup
    BY Zenon DEF IInv, DownloadsOK, DownloadOK, CoroutineOK, NoLostWakeup
  <1> QED BY <1>1, Invariant, PTL

\* Nobody subscribes to a file behind clearSubscribers: a download that runs is
\* in the map of an available file or is about to be woken.
THEOREM SubscribersAreReachable == Spec => []SubscriberIsReachable
  <1>1. IInv => SubscriberIsReachable
    BY Zenon DEF IInv, Membership, Withdrawal, SubscriberIsReachable
  <1> QED BY <1>1, Invariant, PTL

\* A host that answers what it was asked loses its transport only for an answer
\* to a download that is over or to a request that was completed long ago
\* (Peer::handleFileChunkMessage, ChunkRequest::accept).
THEOREM OnlyLateIsRejected == Spec => RejectedIsLate
  <1>1. ASSUME IInv, NEW r \in BagToSet(reading), FinishReading(r), closed' # closed,
               r.sub \in subscribers
        PROVE  r.id < request[r.sub].completedId
    <2>1. Accept(request[r.sub], r) = "INVALID"
      BY <1>1 DEF FinishReading, HandleFileChunk, Verdict
    <2>2. r \in Flying /\ r \in Requests
      BY <1>1 DEF IInv, BrowserTypes, Flying, BagToSet
    <2>3. PICK d \in Downloads : d = r.sub
      BY <2>2 DEF Requests
    <2>4. PICK q \in ChunkRequests, n \in 0 .. FileSize, c \in Chunks \cup {NoChunk} :
              q = request[d] /\ n = progress[d] /\ c = chunk[d]
      BY Zenon, <1>1, DownloadFacts
    <2>5. /\ MadeBy(r, pc[d], valid[d], q) /\ RequestOK(pc[d], c, n, q)
          /\ pc[d] \in Active /\ valid[d]
      BY <1>1, <2>2, <2>3, <2>4, DownloadFacts DEF DownloadOK
    <2>6. ~Completed(q, r) /\ ~(q.outstanding /\ r.id = q.id /\ r.position = q.position)
      BY <2>1, <2>3, <2>4 DEF Accept
    <2>7. /\ r.id \in Int /\ r.position \in Int /\ r.id >= 1 /\ r.position = r.id - 1
          /\ r.id <= q.id /\ q.id \in Int /\ q.completedId \in Int
      BY <2>2, <2>5, TransferAssumption
      DEF MadeBy, Requests, RequestIds, Chunks, ChunkRequests
    <2>8. r.id < q.completedId
      BY <2>5, <2>6, <2>7 DEF RequestOK, Completed
    <2> QED BY <2>3, <2>4, <2>8
  <1>2. IInv /\ [Next]_vars =>
            [\A r \in BagToSet(reading) :
                 FinishReading(r) /\ closed' # closed =>
                     r.sub \notin subscribers \/ r.id < request[r.sub].completedId]_vars
    BY <1>1
  <1> QED BY <1>2, Invariant, PTL DEF Spec, RejectedIsLate

\* The transports of a transfer are those that TransportWatch describes, up to
\* its fairness: what Heartbeat promises of them holds of a transfer.
THEOREM TransfersKeepWatch == Spec => WatchInit /\ [][WatchNext]_watchVars
  <1>1. Init => WatchInit
    BY DEF Init
  <1>2. ASSUME [Next]_vars
        PROVE  [WatchNext]_watchVars
    <2>1. ASSUME NEW r \in BagToSet(reading), FinishReading(r)
          PROVE  Close \/ UNCHANGED watchVars
      BY <2>1, WatchAssumption
      DEF FinishReading, HandleFileChunk, Live, Transports, NoSocket, Close, watchVars
    <2>2. CASE Resume \/ LoseTransport \/ BeSilent \/ Reload \/ Detach \/ LoseSilent
      BY Zenon, <2>2 DEF Resume, LoseTransport, BeSilent, Reload, Detach, LoseSilent, WatchNext
    <2>3. ASSUME NEW d \in Downloads,
                 GetFile(d) \/ Subscribe(d) \/ Abort(d) \/ Download(d)
          PROVE  UNCHANGED watchVars
      BY Zenon, <2>3
      DEF GetFile, Subscribe, Abort, Download, ReadInvalid, ReadEnd, ReadBuffered, RequestChunk,
          CheckChunk, Park, OnNewItem, Wake, End
    <2>4. ASSUME NEW g \in Transports, Handshake(g)
          PROVE  UNCHANGED watchVars
      BY Zenon, <2>4
      DEF Handshake, SetFileCapability, ClearWithdrawn, SendReady, SnapshotSubscribers, Reissue
    <2>5. CASE Reaper \/ SendFrame \/ Tick
      BY Zenon, <2>5 DEF Reaper, Expire, ClearExpired, SendFrame, Tick
    <2>6. CASE UNCHANGED vars
      BY <2>6 DEF vars
    <2> QED BY <1>2, <2>1, <2>2, <2>3, <2>4, <2>5, <2>6 DEF Next, Server, WatchNext
  <1> QED BY <1>1, <1>2, PTL DEF Spec

=============================================================================
