-------------------------- MODULE DurableRoomProofs --------------------------
(***************************************************************************)
(* Proofs about DurableRoom, for every number of clients, every limit and  *)
(* every number of events and transports: what a browser shows is a window *)
(* of the log with no holes but the events that were too long for it, a    *)
(* browser that has handled all it was sent lacks nothing else and has the *)
(* right roster, unless it refuses events behind such a hole, and the room *)
(* does what RoomLog promises.                                             *)
(*                                                                         *)
(* The invariant follows the stream of a client: the events that wait in   *)
(* its inbox and, for its present transport, in its outbound queue.  They  *)
(* are in order, and from the point up to which SESSION_READY or the       *)
(* browser covers the log none is missing but the one being published and  *)
(* those that are too long.                                                *)
(***************************************************************************)
EXTENDS DurableRoom, QueueTheorems, FiniteSetTheorems

Events(q, g) == {q[i].seq : i \in {j \in DOMAIN q : q[j].gen = g /\ q[j].seq # Ready}}

Sorted(q, g) ==
    \A i, j \in DOMAIN q :
        i < j /\ q[i].gen = g /\ q[j].gen = g /\ q[i].seq # Ready /\ q[j].seq # Ready
        => q[i].seq < q[j].seq

\* A SESSION_READY is on its way to the transport g.
Answered(q, g) == \E i \in DOMAIN q : q[i].gen = g /\ q[i].seq = Ready

Stream(c) == ToSet(inbox[c]) \cup Events(queue[c], generation[c])

\* The event being published will be queued for the present transport of c.
Coming(c) ==
    \/ /\ pubStep = "members" /\ c \in members
       /\ ~(log[Latest].kind = "joined" /\ log[Latest].who = c)
    \/ /\ pubStep = "send" /\ c \in pubTodo
       /\ pubTarget = c => pubGeneration = generation[c]

\* The last event that has gone to the present transport of c, if it was there.
Due(c) == IF Coming(c) THEN Latest - 1 ELSE Latest

Connected == {"welcome", "welcoming", "capability", "withdraw", "peers", "latest",
              "history", "send", "open", "command"}
Outside == {"absent", "leaving", "bye", "gone"}
Publishing == {"welcoming", "withdraw", "command", "bye"}

\* The steps of a client on the server and in the browser fit together.
Staged(c) ==
    /\ c \in bound <=> step[c] \in Connected
    /\ c \in members <=> step[c] \notin Outside
    /\ mode[c] = "offline" <=> c \notin bound
    /\ mode[c] \in {"hydrating", "draining", "online"} => step[c] \in {"open", "command"}
    /\ mode[c] \in {"offline", "online"} => inbox[c] = <<>>
    /\ step[c] = "absent" => generation[c] = 0
    /\ c \in invalid => c \in bound
    /\ \A i \in DOMAIN queue[c] : queue[c][i].gen <= generation[c]
    /\ c \in bound /\ Answered(queue[c], generation[c]) => step[c] \in {"open", "command"}

\* The browser of c does not wait for the event n: it shows the event, cannot get
\* it, or refuses it.
Past(c, n) == n <= cursor[c] \/ n \in seen[c] \/ ~Fits(n) \/ IsFull(c)

\* The stream is in order, after what the browser has seen, and ends before an
\* event that is coming.
Streamed(c) ==
    c \in bound \ invalid =>
        /\ Sorted(queue[c], generation[c])
        /\ \A m \in ToSet(inbox[c]) : \A n \in Events(queue[c], generation[c]) : m < n
        /\ Stream(c) \subseteq 1 .. Due(c)
        /\ mode[c] \in {"draining", "online"} =>
              /\ seen[c] \subseteq 1 .. Due(c)
              /\ \A m \in seen[c] : \A n \in Stream(c) : m < n

\* The inbox is in order, and continues the snapshot, or what the browser has
\* shown, even when the rest of the stream is lost with an invalidated transport.
Inboxed(c) ==
    /\ Increasing(inbox[c]) /\ ToSet(inbox[c]) \subseteq 1 .. Latest
    /\ \A m \in ToSet(inbox[c]) : Fits(m)
    /\ mode[c] = "draining" =>
          \A m \in ToSet(inbox[c]) :
              /\ \A n \in seen[c] : n < m
              /\ \A n \in 1 .. m : n \in ToSet(inbox[c]) \/ Past(c, n)
    /\ /\ mode[c] \in {"handshaking", "hydrating"}
       /\ step[c] \in {"history", "send", "open", "command"}
       => \A m \in ToSet(inbox[c]) : \A n \in snapLatest[c] + 1 .. m :
             n \in ToSet(inbox[c]) \/ ~Fits(n)

\* Nothing that fits is missing after the snapshot, or after what the browser has
\* shown.
Complete(c) ==
    c \in bound \ invalid =>
        /\ mode[c] \in {"draining", "online"} =>
              \A n \in 1 .. Due(c) : n \in Stream(c) \/ Past(c, n)
        /\ /\ mode[c] \in {"handshaking", "hydrating"}
           /\ step[c] \in {"history", "send", "open", "command"}
           => \A n \in snapLatest[c] + 1 .. Due(c) : n \in Stream(c) \/ ~Fits(n)

\* ShownIsWindow of one client, and the window is within the log.  What has been
\* seen beyond the cursor is behind an event that was too long.
Window(c) ==
    /\ Increasing(shown[c])
    /\ ToSet(shown[c]) = (base[c] + 1 .. cursor[c]) \cup seen[c]
    /\ base[c] <= cursor[c] /\ cursor[c] <= Latest
    /\ seen[c] \subseteq cursor[c] + 2 .. Latest
    /\ \A m \in seen[c] : \A n \in cursor[c] + 1 .. m : n \in seen[c] \/ ~Fits(n)

\* SESSION_READY fits the cursor that it answers, and hydration leads from it
\* to the end of the snapshot.  A browser that has seen events behind a hole is
\* sent the hole again, in a snapshot that it discards, or starts anew.
Snapshot(c) ==
    /\ mode[c] = "handshaking" /\ step[c] \in {"history", "send", "open", "command"} =>
          cursor[c] <= snapLatest[c] /\ snapLatest[c] <= Latest
    /\ mode[c] = "handshaking" /\ step[c] \in {"send", "open", "command"} =>
          /\ snapLatest[c] <= snapTo[c] /\ snapTo[c] <= Latest /\ snapFrom[c] > 0
          /\ seen[c] # {} => cursor[c] < snapTo[c]
          /\ snapFrom[c] <= snapTo[c] =>
                cursor[c] < snapFrom[c] /\ (c \notin snapResync => snapFrom[c] = cursor[c] + 1)
          /\ snapFrom[c] > snapTo[c] /\ c \notin snapResync => cursor[c] >= snapTo[c]
    /\ mode[c] = "hydrating" =>
          /\ snapLatest[c] <= snapTo[c] /\ snapTo[c] <= Latest /\ snapFrom[c] > 0
          /\ seen[c] = {} /\ \A n \in snapFrom[c] .. snapTo[c] : Fits(n)
          /\ snapFrom[c] <= snapTo[c] => snapFrom[c] <= cursor[c] + 1
          /\ snapFrom[c] > snapTo[c] => cursor[c] >= snapLatest[c]

Joined(l, d, E) == \E k \in E : k <= Len(l) /\ l[k].kind = "joined" /\ l[k].who = d
Left(l, d, E) == \E k \in E : k <= Len(l) /\ l[k].kind = "left" /\ l[k].who = d

Departed == {"leaving", "bye", "gone"}

\* A set of peers tells who was there after the events E of the log l, up to those
\* whom an event to come announces.
PeersAfter(l, st, peers, E) ==
    \A d \in Clients :
        /\ d \in peers => st[d] # "absent" /\ ~Left(l, d, E)
        /\ d \notin peers => ~Joined(l, d, E) \/ st[d] \in Departed

\* What the roster of the browser follows: the events before its window, which
\* were in SESSION_READY, and those that it shows.
Known(c) == (1 .. cursor[c]) \cup seen[c]

\* The peers of SESSION_READY, and the roster that starts from them.
Rostered(c) ==
    /\ mode[c] = "handshaking" /\ step[c] \in {"latest", "history", "send", "open", "command"} =>
          /\ cursor[c] <= snapAt[c] /\ snapAt[c] <= Latest
          /\ PeersAfter(log, step, snapPeers[c], 1 .. snapAt[c])
    /\ c \in whole /\ mode[c] \in {"hydrating", "draining", "online"} =>
          PeersAfter(log, step, roster[c], Known(c))

\* The publication in progress.
Publication ==
    /\ pubStep # "send" => pubTodo = {}
    /\ pubTarget # NoClient =>
          pubTarget \in pubTodo /\ pubGeneration <= generation[pubTarget]
    /\ pubStep # "idle" => Latest > 0 /\ step[log[Latest].who] \in Publishing

\* The log tells who has come and gone, in events that are never too long.
LogTells ==
    /\ \A d \in Clients : Joined(log, d, 1 .. Latest) <=> step[d] \notin {"absent", "welcome"}
    /\ \A d \in Clients : Left(log, d, 1 .. Latest) <=> step[d] \in {"bye", "gone"}
    /\ \A k \in DOMAIN log : log[k].kind \in {"joined", "left"} => Fits(k)
    /\ \A j, k \in DOMAIN log :
          log[j].kind = "joined" /\ log[k].kind = "left" /\ log[j].who = log[k].who => j < k

ClientInv(c) ==
    /\ Staged(c) /\ Streamed(c) /\ Inboxed(c) /\ Complete(c)
    /\ Window(c) /\ Snapshot(c) /\ Rostered(c)

IInv ==
    /\ TypeOK
    /\ Publication
    /\ LogTells
    /\ \A c \in Clients : ClientInv(c)

\* A step that leaves a client as it is.
Kept(d) ==
    /\ step'[d] = step[d] /\ mode'[d] = mode[d] /\ generation'[d] = generation[d]
    /\ queue'[d] = queue[d] /\ inbox'[d] = inbox[d]
    /\ d \in bound' <=> d \in bound
    /\ d \in invalid' <=> d \in invalid
    /\ d \in members' <=> d \in members
    /\ d \in whole' <=> d \in whole
    /\ d \in snapResync' <=> d \in snapResync
    /\ snapPeers'[d] = snapPeers[d] /\ snapLatest'[d] = snapLatest[d] /\ snapFrom'[d] = snapFrom[d]
    /\ snapTo'[d] = snapTo[d] /\ snapAt'[d] = snapAt[d]
    /\ cursor'[d] = cursor[d] /\ seen'[d] = seen[d] /\ base'[d] = base[d]
    /\ shown'[d] = shown[d] /\ roster'[d] = roster[d]

\* Clients come and go once.
Forward ==
    \A d \in Clients :
        /\ step[d] # "absent" => step'[d] # "absent"
        /\ step[d] \in Departed => step'[d] \in Departed

-----------------------------------------------------------------------------
(* Streams *)

Frames == [gen : Nat, seq : Nat]
Entries == [kind : Kinds, who : Clients, size : Sizes]

\* A frame that joins the queue.
LEMMA EventsGrow ==
    ASSUME NEW q \in Seq(Frames), NEW f \in Frames, NEW g \in Nat
    PROVE  /\ Append(q, f) \in Seq(Frames)
           /\ Events(Append(q, f), g) =
                 Events(q, g) \cup (IF f.gen = g /\ f.seq # Ready THEN {f.seq} ELSE {})
           /\ Sorted(q, g) /\ (f.gen = g /\ f.seq # Ready => \A n \in Events(q, g) : n < f.seq)
                 => Sorted(Append(q, f), g)
           /\ Answered(Append(q, f), g) => Answered(q, g) \/ (f.gen = g /\ f.seq = Ready)
  <1>1. /\ Append(q, f) \in Seq(Frames) /\ Len(q) \in Nat /\ DOMAIN q = 1 .. Len(q)
        /\ DOMAIN Append(q, f) = 1 .. Len(q) + 1
        /\ Append(q, f)[Len(q) + 1] = f
        /\ \A i \in 1 .. Len(q) : Append(q, f)[i] = q[i]
    OBVIOUS
  <1> DEFINE r == Append(q, f)
             k == Len(q)
  <1>2. /\ k \in Nat /\ DOMAIN q = 1 .. k /\ DOMAIN r = 1 .. k + 1 /\ r[k + 1] = f
        /\ \A i \in 1 .. k : r[i] = q[i]
    BY <1>1
  <1> HIDE DEF r, k
  <1>3. Events(r, g) \subseteq
           Events(q, g) \cup (IF f.gen = g /\ f.seq # Ready THEN {f.seq} ELSE {})
    BY <1>2 DEF Events
  <1>4. Events(q, g) \cup (IF f.gen = g /\ f.seq # Ready THEN {f.seq} ELSE {})
           \subseteq Events(r, g)
    <2>1. Events(q, g) \subseteq Events(r, g)
      BY <1>2 DEF Events
    <2>2. ASSUME f.gen = g, f.seq # Ready
          PROVE  f.seq \in Events(r, g)
      <3>1. k + 1 \in DOMAIN r
        BY <1>2
      <3> QED BY <1>2, <2>2, <3>1 DEF Events
    <2> QED BY <2>1, <2>2
  <1>5. ASSUME Sorted(q, g), f.gen = g /\ f.seq # Ready => \A n \in Events(q, g) : n < f.seq
        PROVE  Sorted(r, g)
    <2> SUFFICES ASSUME NEW i \in 1 .. k + 1, NEW j \in 1 .. k + 1, i < j,
                        r[i].gen = g, r[j].gen = g, r[i].seq # Ready, r[j].seq # Ready
                 PROVE  r[i].seq < r[j].seq
      BY <1>2 DEF Sorted
    <2>1. i \in 1 .. k /\ r[i] = q[i]
      BY <1>2
    <2>2. CASE j \in 1 .. k
      BY <1>2, <1>5, <2>1, <2>2 DEF Sorted
    <2>3. CASE j = k + 1
      <3>1. q[i].seq \in Events(q, g)
        BY <1>2, <2>1 DEF Events
      <3> QED BY <1>2, <1>5, <2>1, <2>3, <3>1
    <2> QED BY <1>2, <2>2, <2>3
  <1>6. Append(q, f) \in Seq(Frames)
    BY <1>1
  <1>7. Events(r, g) = Events(q, g) \cup (IF f.gen = g /\ f.seq # Ready THEN {f.seq} ELSE {})
    BY <1>3, <1>4
  <1>8. Answered(r, g) => Answered(q, g) \/ (f.gen = g /\ f.seq = Ready)
    <2>1. \A i \in 1 .. k + 1 : i \in 1 .. k \/ i = k + 1
      BY <1>2
    <2> QED BY <1>2, <2>1 DEF Answered
  <1> QED BY <1>5, <1>6, <1>7, <1>8 DEF r

\* The first frame leaves the queue.
LEMMA EventsShrink ==
    ASSUME NEW q \in Seq(Frames), q # <<>>, NEW g \in Nat
    PROVE  /\ Head(q) \in Frames /\ Tail(q) \in Seq(Frames) /\ Len(Tail(q)) = Len(q) - 1
           /\ Events(q, g) = (IF Head(q).gen = g /\ Head(q).seq # Ready
                              THEN {Head(q).seq} ELSE {}) \cup Events(Tail(q), g)
           /\ Sorted(q, g) => Sorted(Tail(q), g)
           /\ Sorted(q, g) /\ Head(q).gen = g /\ Head(q).seq # Ready
                 => \A n \in Events(Tail(q), g) : Head(q).seq < n
           /\ \A x : (\A i \in DOMAIN q : q[i].gen <= x)
                     => \A i \in DOMAIN Tail(q) : Tail(q)[i].gen <= x
           /\ Answered(Tail(q), g) => Answered(q, g)
           /\ Head(q).gen = g /\ Head(q).seq = Ready => Answered(q, g)
  <1> DEFINE r == Tail(q)
             k == Len(q)
             h == Head(q)
  <1>1. /\ h \in Frames /\ r \in Seq(Frames) /\ Len(r) = k - 1
        /\ k \in Nat /\ k > 0 /\ DOMAIN q = 1 .. k /\ DOMAIN r = 1 .. k - 1 /\ h = q[1]
        /\ \A i \in 1 .. k - 1 : r[i] = q[i + 1]
    <2>1. /\ h \in Frames /\ r \in Seq(Frames) /\ Len(r) = k - 1
          /\ k \in Nat /\ k > 0 /\ DOMAIN q = 1 .. k /\ h = q[1]
          /\ \A i \in 1 .. k - 1 : r[i] = q[i + 1]
      OBVIOUS
    <2>2. DOMAIN r = 1 .. k - 1
      BY <2>1, LenProperties
    <2> QED BY <2>1, <2>2
  <1> HIDE DEF r, k, h
  <1>2. /\ \A i \in 1 .. k - 1 : i + 1 \in DOMAIN q
        /\ \A i \in DOMAIN q : i # 1 => i - 1 \in 1 .. k - 1 /\ r[i - 1] = q[i]
    <2>1. \A i \in DOMAIN q : i # 1 => i - 1 \in 1 .. k - 1 /\ (i - 1) + 1 = i
      BY <1>1
    <2> QED BY <1>1, <2>1
  <1>3. Events(r, g) \subseteq Events(q, g)
    <2> SUFFICES ASSUME NEW i \in 1 .. k - 1, r[i].gen = g, r[i].seq # Ready
                 PROVE  r[i].seq \in Events(q, g)
      BY <1>1 DEF Events
    <2>1. i + 1 \in DOMAIN q /\ q[i + 1] = r[i]
      BY <1>1, <1>2
    <2> QED BY <2>1 DEF Events
  <1>4. h.gen = g /\ h.seq # Ready => h.seq \in Events(q, g)
    <2>1. 1 \in DOMAIN q
      BY <1>1
    <2> QED BY <1>1, <2>1 DEF Events
  <1>5. Events(q, g) \subseteq
           (IF h.gen = g /\ h.seq # Ready THEN {h.seq} ELSE {}) \cup Events(r, g)
    <2> SUFFICES ASSUME NEW i \in DOMAIN q, q[i].gen = g, q[i].seq # Ready, i # 1
                 PROVE  q[i].seq \in Events(r, g)
      BY <1>1 DEF Events
    <2> QED BY <1>1, <1>2 DEF Events
  <1>6. ASSUME Sorted(q, g)
        PROVE  Sorted(r, g)
    <2> SUFFICES ASSUME NEW i \in 1 .. k - 1, NEW j \in 1 .. k - 1, i < j,
                        r[i].gen = g, r[j].gen = g, r[i].seq # Ready, r[j].seq # Ready
                 PROVE  r[i].seq < r[j].seq
      BY <1>1 DEF Sorted
    <2>1. i + 1 \in DOMAIN q /\ j + 1 \in DOMAIN q /\ i + 1 < j + 1
      BY <1>1, <1>2
    <2> QED BY <1>1, <1>6, <2>1 DEF Sorted
  <1>7. ASSUME Sorted(q, g), h.gen = g, h.seq # Ready
        PROVE  \A n \in Events(r, g) : h.seq < n
    <2> SUFFICES ASSUME NEW i \in 1 .. k - 1, r[i].gen = g, r[i].seq # Ready
                 PROVE  h.seq < r[i].seq
      BY <1>1 DEF Events
    <2>1. 1 \in DOMAIN q /\ i + 1 \in DOMAIN q /\ 1 < i + 1
      BY <1>1, <1>2
    <2> QED BY <1>1, <1>7, <2>1 DEF Sorted
  <1>8. \A x : (\A i \in DOMAIN q : q[i].gen <= x) => \A i \in DOMAIN r : r[i].gen <= x
    BY <1>1, <1>2
  <1>9. Events(q, g) = (IF h.gen = g /\ h.seq # Ready THEN {h.seq} ELSE {}) \cup Events(r, g)
    BY <1>3, <1>4, <1>5
  <1>10. Answered(r, g) => Answered(q, g)
    <2> SUFFICES ASSUME NEW i \in 1 .. k - 1, r[i].gen = g, r[i].seq = Ready
                 PROVE  Answered(q, g)
      BY <1>1 DEF Answered
    <2>1. i + 1 \in DOMAIN q /\ q[i + 1] = r[i]
      BY <1>1, <1>2
    <2> QED BY <2>1 DEF Answered
  <1>11. h.gen = g /\ h.seq = Ready => Answered(q, g)
    <2>1. 1 \in DOMAIN q
      BY <1>1
    <2> QED BY <1>1, <2>1 DEF Answered
  <1> QED BY <1>1, <1>6, <1>7, <1>8, <1>9, <1>10, <1>11 DEF r, k, h

\* No frame in the queue is for a transport that is still to come.
LEMMA EventsFresh ==
    ASSUME NEW q \in Seq(Frames), NEW g \in Nat, \A i \in DOMAIN q : q[i].gen < g
    PROVE  Events(q, g) = {} /\ Sorted(q, g) /\ ~Answered(q, g)
  <1>1. \A i \in DOMAIN q : q[i] \in Frames
    OBVIOUS
  <1>2. \A i \in DOMAIN q : q[i].gen # g
    BY <1>1 DEF Frames
  <1> QED BY <1>2 DEF Events, Sorted, Answered

-----------------------------------------------------------------------------
(* What a step leaves alone *)

\* The length of the log.
LEMMA LatestType ==
    ASSUME TypeOK
    PROVE  /\ Latest \in Nat /\ DOMAIN log = 1 .. Latest
           /\ \A k \in 1 .. Latest : log[k].kind \in Kinds /\ log[k].who \in Clients
  <1>1. log \in Seq(Entries)
    BY DEF TypeOK, Entries
  <1>2. Latest \in Nat /\ DOMAIN log = 1 .. Latest
    BY <1>1 DEF Latest
  <1>3. \A k \in 1 .. Len(log) : log[k] \in Entries
    BY <1>1, ElementOfSeq, Zenon
  <1> QED BY <1>2, <1>3 DEF Latest, Entries

\* Who was there stays true while clients come and go.
LEMMA PeersForward ==
    ASSUME NEW l, NEW peers, NEW E, PeersAfter(l, step, peers, E), Forward
    PROVE  PeersAfter(l, step', peers, E)
  BY DEF PeersAfter, Forward

\* The last event due to a client is the same when the publication, and what
\* it depends on, is.
LEMMA DueKept ==
    ASSUME NEW d \in Clients, UNCHANGED <<log, pubStep, pubTodo, pubTarget, pubGeneration>>,
           generation'[d] = generation[d], d \in members' <=> d \in members
    PROVE  Due(d)' = Due(d)
  BY DEF Due, Coming, Latest

\* The inbox of a client that nothing is put into.
LEMMA InboxKept ==
    ASSUME IInv, NEW d \in Clients, inbox'[d] = inbox[d], mode'[d] = mode[d],
           cursor'[d] = cursor[d], seen'[d] = seen[d], snapLatest'[d] = snapLatest[d],
           Latest' \in Nat, Latest <= Latest', \A k \in 1 .. Latest : log'[k] = log[k],
           step'[d] \in {"history", "send", "open", "command"}
              => step[d] \in {"history", "send", "open", "command"}
    PROVE  Inboxed(d)'
  <1>1. Inboxed(d) /\ Latest \in Nat /\ snapLatest[d] \in Nat
    BY LatestType DEF IInv, ClientInv, TypeOK
  <1>2. ToSet(inbox[d]) \subseteq 1 .. Latest /\ ToSet(inbox[d]) \subseteq 1 .. Latest'
    BY <1>1 DEF Inboxed
  <1>3. \A k \in 1 .. Latest : (Fits(k)' <=> Fits(k)) /\ (Past(d, k)' <=> Past(d, k))
    BY DEF Fits, Past, IsFull
  <1>4. \A m \in ToSet(inbox[d]) :
          1 .. m \subseteq 1 .. Latest /\ snapLatest[d] + 1 .. m \subseteq 1 .. Latest
    BY <1>1, <1>2
  <1> QED BY <1>1, <1>2, <1>3, <1>4 DEF Inboxed

\* An empty inbox.
LEMMA InboxEmpty ==
    ASSUME NEW d, inbox'[d] = <<>>
    PROVE  Inboxed(d)'
  BY ElementsOfShort DEF Inboxed, Increasing

\* A client that a step leaves as it is, and for which the publication has not
\* moved, keeps its part of the invariant.
LEMMA KeptClient ==
    ASSUME IInv, NEW d \in Clients, Kept(d), Forward, log' = log,
           d \in bound => Due(d)' = Due(d)
    PROVE  ClientInv(d)'
  <1>1. ClientInv(d)
    BY DEF IInv
  <1>2. Latest' = Latest
    BY DEF Latest
  <1>3. Stream(d)' = Stream(d)
    BY DEF Kept, Stream
  <1>4. Staged(d)'
    BY <1>1 DEF ClientInv, Kept, Staged
  <1>5. Streamed(d)'
    BY <1>1, <1>3 DEF ClientInv, Kept, Streamed
  <1>11. \A n : (Fits(n)' <=> Fits(n)) /\ (Past(d, n)' <=> Past(d, n))
    BY DEF Kept, Fits, Past, IsFull
  <1>6. Complete(d)'
    BY <1>1, <1>3, <1>11 DEF ClientInv, Kept, Complete
  <1>7. Window(d)'
    BY <1>1, <1>2, <1>11 DEF ClientInv, Kept, Window
  <1>8. Snapshot(d)'
    BY <1>1, <1>2, <1>11 DEF ClientInv, Kept, Snapshot
  <1>9. Rostered(d)'
    <2>1. \A peers, E : PeersAfter(log, step, peers, E) => PeersAfter(log, step', peers, E)
      BY PeersForward
    <2>2. Known(d)' = Known(d)
      BY DEF Kept, Known
    <2> QED BY <1>1, <1>2, <2>1, <2>2 DEF ClientInv, Kept, Rostered
  <1>10. Inboxed(d)'
    <2>1. Latest \in Nat
      BY LatestType DEF IInv
    <2> QED BY <1>2, <2>1, InboxKept DEF Kept
  <1> QED BY <1>4, <1>5, <1>6, <1>7, <1>8, <1>9, <1>10 DEF ClientInv

\* The steps between which nobody comes, goes or publishes.
Quiet == {"capability", "peers", "latest", "history", "send", "open", "detached"}

\* Steps of such kinds disturb neither the publication nor what the log tells.
LEMMA QuietSteps ==
    ASSUME IInv, UNCHANGED <<log, pubStep, pubTodo, pubTarget, pubGeneration>>,
           \A d \in Clients : generation[d] <= generation'[d] /\ generation'[d] \in Nat,
           \A d \in Clients :
               step'[d] = step[d] \/ (step[d] \in Quiet /\ step'[d] \in Quiet)
    PROVE  Forward /\ Publication' /\ LogTells'
  <1>1. Forward
    BY DEF Forward, Quiet, Departed
  <1>2. Latest' = Latest
    BY DEF Latest
  <1>3. Publication'
    <2>1. pubStep # "idle" => log[Latest].who \in Clients
      BY LatestType DEF IInv, Publication
    <2>2. pubStep # "idle" => step'[log[Latest].who] \in Publishing
      BY <2>1 DEF IInv, Publication, Publishing, Quiet
    <2>3. pubTarget # NoClient => pubGeneration <= generation'[pubTarget]
      <3>1. pubTarget # NoClient =>
              pubTarget \in Clients /\ pubGeneration <= generation[pubTarget]
        BY DEF IInv, Publication, TypeOK
      <3>2. pubGeneration \in Nat /\ \A d \in Clients : generation[d] \in Nat
        BY DEF IInv, TypeOK
      <3> QED BY <3>1, <3>2
    <2> QED BY <1>2, <2>2, <2>3 DEF IInv, Publication
  <1>4. LogTells'
    <2>1. \A d \in Clients :
            /\ step'[d] \in {"absent", "welcome"} <=> step[d] \in {"absent", "welcome"}
            /\ step'[d] \in {"bye", "gone"} <=> step[d] \in {"bye", "gone"}
      BY DEF Quiet
    <2> QED BY <1>2, <2>1 DEF IInv, LogTells, Fits
  <1> QED BY <1>1, <1>3, <1>4

-----------------------------------------------------------------------------
(* Hello, resume and detachment *)

\* A browser that starts anew.
LEMMA EmptyWindow ==
    ASSUME NEW c \in Clients, NEW n \in Nat, n <= Latest', cursor'[c] = n, base'[c] = n,
           seen'[c] = {}, shown'[c] = <<>>
    PROVE  Window(c)'
  <1>1. ToSet(shown'[c]) = {} /\ Increasing(shown'[c])
    BY ElementsOfShort DEF Increasing
  <1>2. (n + 1 .. n) \cup {} = {}
    OBVIOUS
  <1>3. n <= n
    OBVIOUS
  <1> QED BY <1>1, <1>2, <1>3 DEF Window

\* Nothing is queued for a new transport.
LEMMA NewTransport ==
    ASSUME IInv, NEW c \in Clients, c \notin bound, UNCHANGED <<queue, inbox>>,
           generation'[c] = generation[c] + 1, mode'[c] = "handshaking"
    PROVE  /\ Stream(c)' = {} /\ Streamed(c)' /\ Inboxed(c)'
           /\ \A i \in DOMAIN queue[c] : queue[c][i].gen <= generation'[c]
           /\ ~Answered(queue[c], generation'[c])
  <1>1. queue[c] \in Seq(Frames) /\ generation[c] \in Nat
    BY DEF IInv, TypeOK, Frames
  <1>2. \A i \in DOMAIN queue[c] : queue[c][i] \in Frames
    BY <1>1
  <1>3. \A i \in DOMAIN queue[c] : queue[c][i].gen \in Nat /\ queue[c][i].gen <= generation[c]
    BY <1>2 DEF IInv, ClientInv, Staged, Frames
  <1>4. inbox[c] = <<>>
    BY DEF IInv, ClientInv, Staged
  <1>5. ToSet(inbox[c]) = {}
    BY <1>4, ElementsOfShort
  <1>6. /\ Events(queue[c], generation'[c]) = {} /\ Sorted(queue[c], generation'[c])
        /\ ~Answered(queue[c], generation'[c])
    <2>1. generation'[c] \in Nat /\ \A i \in DOMAIN queue[c] : queue[c][i].gen < generation'[c]
      BY <1>1, <1>3
    <2> QED BY <1>1, <2>1, EventsFresh
  <1>7. Stream(c)' = {}
    BY <1>5, <1>6 DEF Stream
  <1>8. Streamed(c)'
    BY <1>5, <1>6, <1>7 DEF Streamed
  <1>9. Inboxed(c)'
    BY <1>4, InboxEmpty
  <1> QED BY <1>1, <1>3, <1>6, <1>7, <1>8, <1>9

\* A new transport: nothing is queued for it yet.
LEMMA JoinInvariant ==
    ASSUME IInv, NEW c \in Clients, Join(c)
    PROVE  IInv'
  <1>0. /\ UNCHANGED <<log, pubStep, pubTodo, pubTarget, pubGeneration, invalid, queue, snapPeers,
                       snapLatest, snapResync, snapFrom, snapTo, snapAt, holders, inbox, cursor,
                       seen, base, shown, roster, whole>>
        /\ step[c] = "absent" /\ step' = [step EXCEPT ![c] = "welcome"]
        /\ members' = members \cup {c} /\ bound' = bound \cup {c}
        /\ generation' = [generation EXCEPT ![c] = 1]
        /\ mode' = [mode EXCEPT ![c] = "handshaking"]
    BY DEF Join, Goto, pubVars, snapVars, pageVars
  <1>1. TypeOK'
    BY <1>0 DEF IInv, TypeOK, Steps, Modes
  <1>2. ClientInv(c) /\ generation[c] = 0 /\ c \notin bound /\ c \notin members
    BY <1>0 DEF IInv, ClientInv, Staged, Connected, Outside
  <1>3. /\ step'[c] = "welcome" /\ mode'[c] = "handshaking" /\ generation'[c] = 1
        /\ \A d \in Clients : d # c => /\ step'[d] = step[d] /\ mode'[d] = mode[d]
                                       /\ generation'[d] = generation[d]
    BY <1>0 DEF IInv, TypeOK
  <1>4. Forward
    BY <1>0, <1>3 DEF Forward, Departed
  <1>5. Latest' = Latest
    BY <1>0 DEF Latest
  <1>6. Publication'
    <2>1. pubStep # "idle" => log[Latest].who # c
      BY <1>0 DEF IInv, Publication, Publishing
    <2>2. pubStep # "idle" => log[Latest].who \in Clients
      BY LatestType DEF IInv, Publication
    <2>3. pubTarget # NoClient => pubTarget \in Clients /\ pubGeneration <= generation'[pubTarget]
      <3>1. pubTarget # NoClient =>
              pubTarget \in Clients /\ pubGeneration <= generation[pubTarget]
        BY DEF IInv, Publication, TypeOK
      <3>2. pubGeneration \in Nat /\ \A d \in Clients : generation[d] \in Nat
        BY DEF IInv, TypeOK
      <3> QED BY <1>2, <1>3, <3>1, <3>2
    <2> QED BY <1>0, <1>3, <1>5, <2>1, <2>2, <2>3 DEF IInv, Publication
  <1>7. LogTells'
    <2>1. \A d \in Clients :
            /\ step'[d] \in {"absent", "welcome"} <=> step[d] \in {"absent", "welcome"}
            /\ step'[d] \in {"bye", "gone"} <=> step[d] \in {"bye", "gone"}
      BY <1>0, <1>3
    <2> QED BY <1>0, <1>5, <2>1 DEF IInv, LogTells, Fits
  <1>8. ASSUME NEW d \in Clients, d # c
        PROVE  ClientInv(d)'
    <2>1. Kept(d)
      BY <1>0, <1>3, <1>8 DEF Kept
    <2>2. Due(d)' = Due(d)
      BY <1>0, <1>3, <1>8, DueKept
    <2> QED BY <1>0, <1>4, <2>1, <2>2, KeptClient
  <1>9. ClientInv(c)'
    <2>1. Staged(c)'
      <3>1. /\ \A i \in DOMAIN queue[c] : queue[c][i].gen <= generation'[c]
            /\ ~Answered(queue[c], generation'[c])
        BY <1>0, <1>2, <1>3, NewTransport
      <3>2. c \in invalid => c \in bound
        BY <1>2 DEF ClientInv, Staged
      <3> QED BY <1>0, <1>2, <1>3, <3>1, <3>2 DEF Staged, Connected, Outside
    <2>2. Streamed(c)' /\ Inboxed(c)'
      BY <1>0, <1>2, <1>3, NewTransport
    <2>3. Complete(c)' /\ Snapshot(c)' /\ Rostered(c)'
      BY <1>3 DEF Complete, Snapshot, Rostered, Fits, Past, IsFull, Known
    <2>4. Window(c)'
      BY <1>0, <1>2, <1>5 DEF ClientInv, Window, Fits
    <2> QED BY <2>1, <2>2, <2>3, <2>4 DEF ClientInv
  <1> QED BY <1>1, <1>6, <1>7, <1>8, <1>9 DEF IInv

\* A new transport of a peer that was detached, perhaps of a new page, whose
\* window starts at the stored cursor.
LEMMA ResumeInvariant ==
    ASSUME IInv, NEW c \in Clients, Resume(c)
    PROVE  IInv'
  <1>0. /\ UNCHANGED <<log, members, pubStep, pubTodo, pubTarget, pubGeneration, invalid, queue,
                       snapPeers, snapLatest, snapResync, snapFrom, snapTo, snapAt, holders,
                       inbox, cursor, whole>>
        /\ step[c] = "detached" /\ bound' = bound \cup {c}
        /\ generation' = [generation EXCEPT ![c] = @ + 1]
        /\ mode' = [mode EXCEPT ![c] = "handshaking"]
        /\ \/ step' = [step EXCEPT ![c] = "peers"] /\ UNCHANGED <<seen, base, shown, roster>>
           \/ /\ step' = [step EXCEPT ![c] = "capability"]
              /\ seen' = [seen EXCEPT ![c] = {}] /\ base' = [base EXCEPT ![c] = cursor[c]]
              /\ shown' = [shown EXCEPT ![c] = <<>>] /\ roster' = [roster EXCEPT ![c] = {}]
    BY DEF Resume, RestoreCursor, Goto, pubVars, snapVars, pageVars
  <1>1. TypeOK'
    <2>1. step' \in [Clients -> Steps]
      BY <1>0 DEF IInv, TypeOK, Steps
    <2>2. /\ seen' \in [Clients -> SUBSET Nat] /\ base' \in [Clients -> Nat]
          /\ shown' \in [Clients -> Seq(Nat)] /\ roster' \in [Clients -> SUBSET Clients]
      <3>1. /\ cursor \in [Clients -> Nat] /\ seen \in [Clients -> SUBSET Nat]
            /\ base \in [Clients -> Nat] /\ shown \in [Clients -> Seq(Nat)]
            /\ roster \in [Clients -> SUBSET Clients]
        BY DEF IInv, TypeOK
      <3>2. <<>> \in Seq(Nat)
        OBVIOUS
      <3>3. CASE UNCHANGED <<seen, base, shown, roster>>
        BY <3>1, <3>3
      <3>4. CASE /\ seen' = [seen EXCEPT ![c] = {}] /\ base' = [base EXCEPT ![c] = cursor[c]]
                 /\ shown' = [shown EXCEPT ![c] = <<>>] /\ roster' = [roster EXCEPT ![c] = {}]
        BY <3>1, <3>2, <3>4
      <3> QED BY <1>0, <3>3, <3>4
    <2>3. /\ generation' \in [Clients -> Nat] /\ mode' \in [Clients -> Modes]
          /\ bound' \subseteq Clients
      <3>1. generation \in [Clients -> Nat]
        BY DEF IInv, TypeOK
      <3>2. mode \in [Clients -> Modes] /\ "handshaking" \in Modes /\ bound \subseteq Clients
        BY DEF IInv, TypeOK, Modes
      <3> QED BY <1>0, <3>1, <3>2
    <2> QED BY <1>0, <2>1, <2>2, <2>3 DEF IInv, TypeOK
  <1>2. ClientInv(c) /\ c \notin bound /\ c \in members /\ generation[c] \in Nat
    BY <1>0 DEF IInv, ClientInv, Staged, Connected, Outside, TypeOK
  <1>3. /\ step'[c] \in {"peers", "capability"} /\ mode'[c] = "handshaking"
        /\ generation'[c] = generation[c] + 1
        /\ \A d \in Clients : d # c => /\ step'[d] = step[d] /\ mode'[d] = mode[d]
                                       /\ generation'[d] = generation[d]
                                       /\ seen'[d] = seen[d] /\ base'[d] = base[d]
                                       /\ shown'[d] = shown[d] /\ roster'[d] = roster[d]
    <2>1. /\ step \in [Clients -> Steps] /\ generation \in [Clients -> Nat]
          /\ mode \in [Clients -> Modes] /\ seen \in [Clients -> SUBSET Nat]
          /\ base \in [Clients -> Nat] /\ shown \in [Clients -> Seq(Nat)]
          /\ roster \in [Clients -> SUBSET Clients]
      BY DEF IInv, TypeOK
    <2>2. /\ step'[c] \in {"peers", "capability"}
          /\ \A d \in Clients : d # c => step'[d] = step[d]
      BY <1>0, <2>1
    <2>3. \A d \in Clients : d # c => /\ seen'[d] = seen[d] /\ base'[d] = base[d]
                                     /\ shown'[d] = shown[d] /\ roster'[d] = roster[d]
      BY <1>0, <2>1
    <2>4. /\ mode'[c] = "handshaking" /\ generation'[c] = generation[c] + 1
          /\ \A d \in Clients : d # c => mode'[d] = mode[d] /\ generation'[d] = generation[d]
      BY <1>0, <2>1
    <2> QED BY <2>2, <2>3, <2>4
  <1>4. Latest' = Latest
    BY <1>0 DEF Latest
  <1>5. Forward /\ Publication' /\ LogTells'
    <2>1. \A d \in Clients : generation[d] <= generation'[d] /\ generation'[d] \in Nat
      <3>1. \A d \in Clients : generation[d] \in Nat
        BY DEF IInv, TypeOK
      <3> QED BY <1>3, <3>1
    <2>2. \A d \in Clients : step'[d] = step[d] \/ (step[d] \in Quiet /\ step'[d] \in Quiet)
      BY <1>0, <1>3 DEF Quiet
    <2> QED BY <1>0, <2>1, <2>2, QuietSteps
  <1>6. ASSUME NEW d \in Clients, d # c
        PROVE  ClientInv(d)'
    <2>1. Kept(d)
      BY <1>0, <1>3, <1>6 DEF Kept
    <2>2. Due(d)' = Due(d)
      BY <1>0, <1>3, <1>6, DueKept
    <2> QED BY <1>0, <1>5, <2>1, <2>2, KeptClient
  <1>7. ClientInv(c)'
    <2>1. Staged(c)'
      <3>1. /\ \A i \in DOMAIN queue[c] : queue[c][i].gen <= generation'[c]
            /\ ~Answered(queue[c], generation'[c])
        BY <1>0, <1>2, <1>3, NewTransport
      <3> QED BY <1>0, <1>2, <1>3, <3>1 DEF ClientInv, Staged, Connected, Outside
    <2>2. Streamed(c)' /\ Inboxed(c)'
      BY <1>0, <1>2, <1>3, NewTransport
    <2>3. Complete(c)' /\ Snapshot(c)' /\ Rostered(c)'
      BY <1>3 DEF Complete, Snapshot, Rostered, Fits, Past, IsFull, Known
    <2>4. Window(c)'
      <3>1. CASE UNCHANGED <<seen, base, shown, roster>>
        BY <1>0, <1>2, <1>4, <3>1 DEF ClientInv, Window, Fits
      <3>2. CASE seen'[c] = {} /\ base'[c] = cursor[c] /\ shown'[c] = <<>>
        <4>1. cursor[c] \in Nat /\ cursor[c] <= Latest
          BY <1>2 DEF IInv, TypeOK, ClientInv, Window, Fits
        <4> QED BY <1>0, <1>4, <3>2, <4>1, EmptyWindow
      <3> QED BY <1>0, <3>1, <3>2 DEF IInv, TypeOK
    <2> QED BY <2>1, <2>2, <2>3, <2>4 DEF ClientInv
  <1> QED BY <1>1, <1>5, <1>6, <1>7 DEF IInv

\* The transport ends: no promise about the stream is left.
LEMMA DetachInvariant ==
    ASSUME IInv, NEW c \in Clients, Detach(c)
    PROVE  IInv'
  <1>0. /\ UNCHANGED <<log, members, pubStep, pubTodo, pubTarget, pubGeneration, generation,
                       queue, holders, cursor, seen, base, shown, roster, whole>>
        /\ step[c] = "open" /\ step' = [step EXCEPT ![c] = "detached"]
        /\ bound' = bound \ {c} /\ invalid' = invalid \ {c}
        /\ mode' = [mode EXCEPT ![c] = "offline"] /\ inbox' = [inbox EXCEPT ![c] = <<>>]
        /\ snapPeers' = [snapPeers EXCEPT ![c] = {}]
        /\ snapLatest' = [snapLatest EXCEPT ![c] = 0] /\ snapResync' = snapResync \ {c}
        /\ snapFrom' = [snapFrom EXCEPT ![c] = 1] /\ snapTo' = [snapTo EXCEPT ![c] = 0]
        /\ snapAt' = [snapAt EXCEPT ![c] = 0]
    BY DEF Detach, ForgetSnapshot, Goto, pubVars, pageVars
  <1>1. TypeOK'
    <2>1. /\ step' \in [Clients -> Steps] /\ mode' \in [Clients -> Modes]
          /\ inbox' \in [Clients -> Seq(Nat)]
      <3>1. step' \in [Clients -> Steps] /\ mode' \in [Clients -> Modes]
        BY <1>0 DEF IInv, TypeOK, Steps, Modes
      <3>2. inbox \in [Clients -> Seq(Nat)] /\ <<>> \in Seq(Nat)
        BY DEF IInv, TypeOK
      <3> QED BY <1>0, <3>1, <3>2
    <2>2. /\ snapPeers' \in [Clients -> SUBSET Clients] /\ snapLatest' \in [Clients -> Nat]
          /\ snapFrom' \in [Clients -> Nat] /\ snapTo' \in [Clients -> Nat]
          /\ snapAt' \in [Clients -> Nat]
      BY <1>0 DEF IInv, TypeOK
    <2> QED BY <1>0, <2>1, <2>2 DEF IInv, TypeOK
  <1>2. /\ step'[c] = "detached" /\ mode'[c] = "offline" /\ inbox'[c] = <<>>
        /\ \A d \in Clients : d # c =>
              /\ step'[d] = step[d] /\ mode'[d] = mode[d] /\ inbox'[d] = inbox[d]
              /\ snapPeers'[d] = snapPeers[d] /\ snapLatest'[d] = snapLatest[d]
              /\ snapFrom'[d] = snapFrom[d] /\ snapTo'[d] = snapTo[d] /\ snapAt'[d] = snapAt[d]
    BY <1>0 DEF IInv, TypeOK
  <1>3. Latest' = Latest
    BY <1>0 DEF Latest
  <1>4. Forward /\ Publication' /\ LogTells'
    <2>1. \A d \in Clients : generation[d] <= generation'[d] /\ generation'[d] \in Nat
      BY <1>0 DEF IInv, TypeOK
    <2>2. \A d \in Clients : step'[d] = step[d] \/ (step[d] \in Quiet /\ step'[d] \in Quiet)
      BY <1>0, <1>2 DEF Quiet
    <2> QED BY <1>0, <2>1, <2>2, QuietSteps
  <1>5. ASSUME NEW d \in Clients, d # c
        PROVE  ClientInv(d)'
    <2>1. Kept(d)
      BY <1>0, <1>2, <1>5 DEF Kept
    <2>2. Due(d)' = Due(d)
      BY <1>0, DueKept
    <2> QED BY <1>0, <1>4, <2>1, <2>2, KeptClient
  <1>6. ClientInv(c)'
    <2>1. ClientInv(c)
      BY DEF IInv
    <2>2. Staged(c)'
      BY <1>0, <1>2, <2>1 DEF ClientInv, Staged, Connected, Outside
    <2>3. Streamed(c)' /\ Complete(c)'
      BY <1>0 DEF Streamed, Complete, Fits, Past, IsFull
    <2>4. Snapshot(c)' /\ Rostered(c)'
      BY <1>2 DEF Snapshot, Rostered, Fits, Known
    <2>5. Window(c)'
      BY <1>0, <1>3, <2>1 DEF ClientInv, Window, Fits
    <2>6. Inboxed(c)'
      BY <1>2, InboxEmpty
    <2> QED BY <2>2, <2>3, <2>4, <2>5, <2>6 DEF ClientInv
  <1> QED BY <1>1, <1>4, <1>5, <1>6 DEF IInv

\* A peer whose lease has run out is no longer a member.
LEMMA RemoveInvariant ==
    ASSUME IInv, NEW c \in Clients, RemovePeerById(c)
    PROVE  IInv'
  <1>0. /\ UNCHANGED <<log, pubStep, pubTodo, pubTarget, pubGeneration, bound, generation, invalid,
                       queue, snapPeers, snapLatest, snapResync, snapFrom, snapTo, snapAt, mode,
                       holders, inbox, cursor, seen, base, shown, roster, whole>>
        /\ step[c] = "detached" /\ step' = [step EXCEPT ![c] = "leaving"]
        /\ members' = members \ {c}
    BY DEF RemovePeerById, Goto, pubVars, peerVars, snapVars, browserVars, pageVars
  <1>1. TypeOK'
    BY <1>0 DEF IInv, TypeOK, Steps
  <1>2. step'[c] = "leaving" /\ \A d \in Clients : d # c => step'[d] = step[d]
    BY <1>0 DEF IInv, TypeOK
  <1>3. Latest' = Latest
    BY <1>0 DEF Latest
  <1>4. Forward
    BY <1>0, <1>2 DEF Forward, Departed
  <1>5. Publication'
    <2>1. pubStep # "idle" => log[Latest].who \in Clients /\ log[Latest].who # c
      BY <1>0, LatestType DEF IInv, Publication, Publishing
    <2> QED BY <1>0, <1>2, <1>3, <2>1 DEF IInv, Publication
  <1>6. LogTells'
    <2>1. \A d \in Clients :
            /\ step'[d] \in {"absent", "welcome"} <=> step[d] \in {"absent", "welcome"}
            /\ step'[d] \in {"bye", "gone"} <=> step[d] \in {"bye", "gone"}
      BY <1>0, <1>2
    <2> QED BY <1>0, <1>3, <2>1 DEF IInv, LogTells, Fits
  <1>7. ASSUME NEW d \in Clients, d # c
        PROVE  ClientInv(d)'
    <2>1. Kept(d)
      BY <1>0, <1>2, <1>7 DEF Kept
    <2>2. Due(d)' = Due(d)
      BY <1>0, <1>7, DueKept
    <2> QED BY <1>0, <1>4, <2>1, <2>2, KeptClient
  <1>8. ClientInv(c)'
    <2>1. ClientInv(c) /\ c \notin bound /\ mode[c] = "offline"
      BY <1>0 DEF IInv, ClientInv, Staged, Connected
    <2>2. Staged(c)'
      BY <1>0, <1>2, <2>1 DEF ClientInv, Staged, Connected, Outside
    <2>3. Streamed(c)' /\ Complete(c)' /\ Snapshot(c)' /\ Rostered(c)'
      BY <1>0, <2>1 DEF Streamed, Complete, Snapshot, Rostered, Fits, Past, IsFull, Known
    <2>4. Window(c)'
      BY <1>0, <1>3, <2>1 DEF ClientInv, Window, Fits
    <2>5. Inboxed(c)'
      BY <1>0, <2>1, InboxEmpty DEF ClientInv, Staged
    <2> QED BY <2>2, <2>3, <2>4, <2>5 DEF ClientInv
  <1> QED BY <1>1, <1>5, <1>6, <1>7, <1>8 DEF IInv

-----------------------------------------------------------------------------
(* SESSION_READY *)

\* A step of the hello that changes nothing but its own record, and the part
\* of the snapshot that it reads.
LEMMA HelloStep ==
    ASSUME IInv, NEW c \in Clients, NEW s \in Quiet, step[c] \in Quiet, Goto(c, s),
           UNCHANGED <<log, members, pubStep, pubTodo, pubTarget, pubGeneration, bound,
                       generation, mode, holders, inbox, cursor, seen, base, shown, roster, whole>>,
           \A d \in Clients : d # c =>
              /\ queue'[d] = queue[d] /\ (d \in invalid' <=> d \in invalid)
              /\ snapPeers'[d] = snapPeers[d] /\ snapLatest'[d] = snapLatest[d]
              /\ (d \in snapResync' <=> d \in snapResync) /\ snapFrom'[d] = snapFrom[d]
              /\ snapTo'[d] = snapTo[d] /\ snapAt'[d] = snapAt[d]
    PROVE  /\ Publication' /\ LogTells' /\ Forward
           /\ \A d \in Clients : d # c => ClientInv(d)'
           /\ step' \in [Clients -> Steps] /\ step'[c] = s
           /\ Latest' = Latest /\ Due(c)' = Due(c) /\ Window(c)'
           /\ /\ s \in {"history", "send", "open", "command"}
                 => step[c] \in {"history", "send", "open", "command"}
              /\ snapLatest'[c] = snapLatest[c]
              => Inboxed(c)'
  <1>1. /\ step' \in [Clients -> Steps] /\ step'[c] = s
        /\ \A d \in Clients : d # c => step'[d] = step[d]
    BY DEF IInv, TypeOK, Goto, Quiet, Steps
  <1>2. Publication' /\ LogTells' /\ Forward
    <2>1. \A d \in Clients : generation[d] <= generation'[d] /\ generation'[d] \in Nat
      BY DEF IInv, TypeOK
    <2>2. \A d \in Clients : step'[d] = step[d] \/ (step[d] \in Quiet /\ step'[d] \in Quiet)
      BY <1>1
    <2> QED BY <2>1, <2>2, QuietSteps
  <1>3. \A d \in Clients : Due(d)' = Due(d)
    BY DueKept
  <1>4. ASSUME NEW d \in Clients, d # c
        PROVE  ClientInv(d)'
    <2>1. Kept(d)
      BY <1>1, <1>4 DEF Kept
    <2> QED BY <1>2, <1>3, <2>1, KeptClient
  <1>5. Latest' = Latest
    BY DEF Latest
  <1>6. Window(c)'
    BY <1>5 DEF IInv, ClientInv, Window, Fits
  <1>7. ASSUME s \in {"history", "send", "open", "command"}
                  => step[c] \in {"history", "send", "open", "command"},
               snapLatest'[c] = snapLatest[c]
        PROVE  Inboxed(c)'
    <2>1. Latest \in Nat
      BY LatestType DEF IInv
    <2> QED BY <1>1, <1>5, <1>7, <2>1, InboxKept
  <1> QED BY <1>1, <1>2, <1>3, <1>4, <1>5, <1>6, <1>7

\* No files to withdraw.
LEMMA NothingToWithdrawInvariant ==
    ASSUME IInv, NEW c \in Clients, NothingToWithdraw(c)
    PROVE  IInv'
  <1>0. /\ UNCHANGED <<log, members, pubStep, pubTodo, pubTarget, pubGeneration, bound, generation,
                       invalid, queue, snapPeers, snapLatest, snapResync, snapFrom, snapTo, snapAt,
                       mode, holders, inbox, cursor, seen, base, shown, roster, whole>>
        /\ step[c] = "capability" /\ Goto(c, "peers")
    BY DEF NothingToWithdraw, pubVars, peerVars, snapVars, browserVars, pageVars
  <1>1. /\ Publication' /\ LogTells' /\ \A d \in Clients : d # c => ClientInv(d)'
        /\ step' \in [Clients -> Steps] /\ step'[c] = "peers"
        /\ Latest' = Latest /\ Due(c)' = Due(c) /\ Window(c)' /\ Inboxed(c)'
    BY <1>0, HelloStep DEF Quiet
  <1>2. TypeOK'
    BY <1>0, <1>1 DEF IInv, TypeOK
  <1>3. ClientInv(c) /\ mode[c] = "handshaking"
    BY <1>0 DEF IInv, ClientInv, Staged, Connected, TypeOK, Modes
  <1>4. Staged(c)'
    BY <1>0, <1>1, <1>3 DEF ClientInv, Staged, Connected, Outside
  <1>5. Streamed(c)'
    BY <1>0, <1>1, <1>3 DEF ClientInv, Streamed, Stream
  <1>6. Complete(c)' /\ Snapshot(c)' /\ Rostered(c)'
    BY <1>0, <1>1, <1>3 DEF Complete, Snapshot, Rostered, Fits, Past, IsFull, Known
  <1> QED BY <1>1, <1>2, <1>4, <1>5, <1>6 DEF IInv, ClientInv

\* The first read: the members, who are those that the log tells of, but for
\* those who are about to be announced.
LEMMA GetPeersInvariant ==
    ASSUME IInv, NEW c \in Clients, GetPeers(c)
    PROVE  IInv'
  <1>0. /\ UNCHANGED <<log, members, pubStep, pubTodo, pubTarget, pubGeneration, bound, generation,
                       invalid, queue, snapLatest, snapResync, snapFrom, snapTo, mode, holders,
                       inbox, cursor, seen, base, shown, roster, whole>>
        /\ step[c] = "peers" /\ Goto(c, "latest")
        /\ snapPeers' = [snapPeers EXCEPT ![c] = members]
        /\ snapAt' = [snapAt EXCEPT ![c] = Latest]
    BY DEF GetPeers, pubVars, peerVars, browserVars, pageVars
  <1>1. /\ snapPeers' \in [Clients -> SUBSET Clients] /\ snapPeers'[c] = members
        /\ snapAt' \in [Clients -> Nat] /\ snapAt'[c] = Latest
        /\ \A d \in Clients : d # c => snapPeers'[d] = snapPeers[d] /\ snapAt'[d] = snapAt[d]
    <2>1. Latest \in Nat
      BY LatestType DEF IInv
    <2> QED BY <1>0, <2>1 DEF IInv, TypeOK
  <1>2. /\ Publication' /\ LogTells' /\ Forward /\ \A d \in Clients : d # c => ClientInv(d)'
        /\ step' \in [Clients -> Steps] /\ step'[c] = "latest"
        /\ Latest' = Latest /\ Due(c)' = Due(c) /\ Window(c)' /\ Inboxed(c)'
    BY <1>0, <1>1, HelloStep DEF Quiet
  <1>3. TypeOK'
    BY <1>0, <1>1, <1>2 DEF IInv, TypeOK
  <1>4. ClientInv(c) /\ mode[c] = "handshaking"
    BY <1>0 DEF IInv, ClientInv, Staged, Connected, TypeOK, Modes
  <1>5. Staged(c)'
    BY <1>0, <1>2, <1>4 DEF ClientInv, Staged, Connected, Outside
  <1>6. Streamed(c)'
    BY <1>0, <1>2, <1>4 DEF ClientInv, Streamed, Stream
  <1>7. Complete(c)' /\ Snapshot(c)'
    BY <1>0, <1>2, <1>4 DEF Complete, Snapshot, Fits, Past, IsFull
  <1>8. Rostered(c)'
    <2>1. PeersAfter(log, step, members, 1 .. Latest)
      <3> SUFFICES ASSUME NEW d \in Clients
                   PROVE  /\ d \in members => step[d] # "absent" /\ ~Left(log, d, 1 .. Latest)
                          /\ d \notin members =>
                                ~Joined(log, d, 1 .. Latest) \/ step[d] \in Departed
        BY DEF PeersAfter
      <3>1. d \in members <=> step[d] \notin Outside
        BY DEF IInv, ClientInv, Staged
      <3>2. /\ Joined(log, d, 1 .. Latest) <=> step[d] \notin {"absent", "welcome"}
            /\ Left(log, d, 1 .. Latest) <=> step[d] \in {"bye", "gone"}
        BY DEF IInv, LogTells, Fits
      <3> QED BY <3>1, <3>2 DEF Outside, Departed
    <2>2. PeersAfter(log, step', members, 1 .. Latest)
      BY <1>2, <2>1, PeersForward
    <2>3. cursor[c] <= Latest /\ Latest \in Nat
      BY <1>4, LatestType DEF IInv, ClientInv, Window, Fits
    <2> QED BY <1>0, <1>1, <1>2, <1>4, <2>2, <2>3 DEF Rostered, Known
  <1> QED BY <1>2, <1>3, <1>5, <1>6, <1>7, <1>8 DEF IInv, ClientInv

\* The second read.  Whatever is published from here on is in the stream.
LEMMA LatestServerSeqInvariant ==
    ASSUME IInv, NEW c \in Clients, LatestServerSeq(c)
    PROVE  IInv'
  <1>0. /\ UNCHANGED <<log, members, pubStep, pubTodo, pubTarget, pubGeneration, bound, generation,
                       invalid, queue, snapPeers, snapResync, snapFrom, snapTo, snapAt, mode,
                       holders, inbox, cursor, seen, base, shown, roster, whole>>
        /\ step[c] = "latest" /\ Goto(c, "history")
        /\ snapLatest' = [snapLatest EXCEPT ![c] = Latest]
    BY DEF LatestServerSeq, pubVars, peerVars, browserVars, pageVars
  <1>1. /\ snapLatest' \in [Clients -> Nat] /\ snapLatest'[c] = Latest /\ Latest \in Nat
        /\ \A d \in Clients : d # c => snapLatest'[d] = snapLatest[d]
    <2>1. Latest \in Nat
      BY LatestType DEF IInv
    <2> QED BY <1>0, <2>1 DEF IInv, TypeOK
  <1>2. /\ Publication' /\ LogTells' /\ Forward /\ \A d \in Clients : d # c => ClientInv(d)'
        /\ step' \in [Clients -> Steps] /\ step'[c] = "history"
        /\ Latest' = Latest /\ Due(c)' = Due(c) /\ Window(c)'
    BY <1>0, <1>1, HelloStep DEF Quiet
  <1>3. TypeOK'
    BY <1>0, <1>1, <1>2 DEF IInv, TypeOK
  <1>4. ClientInv(c) /\ mode[c] = "handshaking"
    BY <1>0 DEF IInv, ClientInv, Staged, Connected, TypeOK, Modes
  <1>5. Staged(c)'
    BY <1>0, <1>2, <1>4 DEF ClientInv, Staged, Connected, Outside
  <1>6. Streamed(c)'
    BY <1>0, <1>2, <1>4 DEF ClientInv, Streamed, Stream
  <1>7. Complete(c)'
    <2>1. Latest + 1 .. Due(c) = {}
      BY <1>1 DEF Due
    <2> QED BY <1>0, <1>1, <1>2, <1>4, <2>1 DEF Complete, Fits, Past, IsFull
  <1>8. Snapshot(c)'
    BY <1>0, <1>1, <1>2, <1>4 DEF Snapshot, ClientInv, Window, Fits
  <1>9. Rostered(c)'
    <2>1. PeersAfter(log, step', snapPeers[c], 1 .. snapAt[c])
      BY <1>0, <1>2, <1>4, PeersForward DEF ClientInv, Rostered, Known
    <2> QED BY <1>0, <1>2, <1>4, <2>1 DEF Rostered, ClientInv, Known
  <1>10. Inboxed(c)'
    <2>1. /\ Increasing(inbox[c]) /\ ToSet(inbox[c]) \subseteq 1 .. Latest
          /\ \A m \in ToSet(inbox[c]) : Fits(m)
      BY <1>4 DEF ClientInv, Inboxed
    <2>2. \A m \in 1 .. Latest : Latest + 1 .. m = {}
      BY <1>1
    <2> QED BY <1>0, <1>1, <1>2, <1>4, <2>1, <2>2 DEF Inboxed, Fits, Past, IsFull
  <1> QED BY <1>2, <1>3, <1>5, <1>6, <1>7, <1>8, <1>9, <1>10 DEF IInv, ClientInv

\* The third read: the history after the cursor of the hello, or all that is
\* retained if that does not follow the cursor.
LEMMA GetHistoryAfterInvariant ==
    ASSUME IInv, NEW c \in Clients, GetHistoryAfter(c)
    PROVE  IInv'
  <1> DEFINE at == cursor[c]
             resync == RequiresReplayResync(at)
             from == IF ~resync /\ at >= Earliest THEN at + 1 ELSE Earliest
  <1>0. /\ UNCHANGED <<log, members, pubStep, pubTodo, pubTarget, pubGeneration, bound, generation,
                       invalid, queue, snapPeers, snapLatest, snapAt, mode, holders, inbox,
                       cursor, seen, base, shown, roster, whole>>
        /\ step[c] = "history" /\ Goto(c, "send")
        /\ snapResync' = IF resync THEN snapResync \cup {c} ELSE snapResync \ {c}
        /\ snapFrom' = [snapFrom EXCEPT ![c] = from]
        /\ snapTo' = [snapTo EXCEPT ![c] = Latest]
    BY DEF GetHistoryAfter, pubVars, peerVars, browserVars, pageVars
  <1>1. Latest \in Nat /\ at \in Nat /\ Earliest \in Nat /\ Earliest > 0 /\ Retained \in Nat
    <2>1. Latest \in Nat /\ at \in Nat
      BY LatestType DEF IInv, TypeOK
    <2> QED BY <2>1, RoomAssumption DEF Earliest
  <1>2. from \in Nat /\ from > 0
    BY <1>1
  <1>3. /\ ClientInv(c) /\ mode[c] = "handshaking" /\ at <= Latest
        /\ at <= snapLatest[c] /\ snapLatest[c] <= Latest
    BY <1>0 DEF IInv, ClientInv, Staged, Connected, TypeOK, Modes, Snapshot, Window
  <1>4. /\ from <= Latest => at < from /\ (~resync => from = at + 1)
        /\ from > Latest /\ ~resync => at >= Latest
    <2>1. CASE resync
      <3>1. from = Earliest
        BY <2>1
      <3>2. Earliest <= Latest => at < Earliest - 1
        BY <1>1, <1>3, <2>1 DEF RequiresReplayResync
      <3> QED BY <1>1, <2>1, <3>1, <3>2
    <2>2. CASE ~resync
      <3>1. /\ Earliest > Latest => at >= Latest
            /\ Earliest <= Latest => at >= Earliest - 1
        BY <1>1, <2>2 DEF RequiresReplayResync
      <3> QED BY <1>1, <2>2, <3>1
    <2> QED BY <2>1, <2>2
  <1> HIDE DEF at, resync, from
  <1>5. /\ snapFrom' \in [Clients -> Nat] /\ snapFrom'[c] = from
        /\ snapTo' \in [Clients -> Nat] /\ snapTo'[c] = Latest
        /\ snapResync' \subseteq Clients /\ (c \in snapResync' <=> resync)
        /\ \A d \in Clients : d # c => /\ snapFrom'[d] = snapFrom[d] /\ snapTo'[d] = snapTo[d]
                                       /\ d \in snapResync' <=> d \in snapResync
    BY <1>0, <1>1, <1>2 DEF IInv, TypeOK
  <1>6. /\ Publication' /\ LogTells' /\ Forward /\ \A d \in Clients : d # c => ClientInv(d)'
        /\ step' \in [Clients -> Steps] /\ step'[c] = "send"
        /\ Latest' = Latest /\ Due(c)' = Due(c) /\ Window(c)' /\ Inboxed(c)'
    BY <1>0, <1>5, HelloStep DEF Quiet
  <1>7. TypeOK'
    BY <1>0, <1>5, <1>6 DEF IInv, TypeOK
  <1>8. Staged(c)'
    BY <1>0, <1>3, <1>6 DEF ClientInv, Staged, Connected, Outside
  <1>9. Streamed(c)'
    BY <1>0, <1>3, <1>6 DEF ClientInv, Streamed, Stream
  <1>10. Complete(c)'
    BY <1>0, <1>3, <1>6 DEF ClientInv, Complete, Stream, Fits, Past, IsFull
  <1>11. Snapshot(c)'
    <2>1. snapLatest[c] \in Nat
      BY DEF IInv, TypeOK
    <2>2. seen[c] # {} => at < Latest
      BY <1>1, <1>3 DEF ClientInv, Window, at
    <2> QED BY <1>0, <1>1, <1>2, <1>3, <1>4, <1>5, <1>6, <2>1, <2>2 DEF Snapshot, at
  <1>12. Rostered(c)'
    <2>1. PeersAfter(log, step', snapPeers[c], 1 .. snapAt[c])
      BY <1>0, <1>3, <1>6, PeersForward DEF ClientInv, Rostered, Known
    <2> QED BY <1>0, <1>3, <1>6, <2>1 DEF Rostered, ClientInv, Known
  <1> QED BY <1>6, <1>7, <1>8, <1>9, <1>10, <1>11, <1>12 DEF IInv, ClientInv

\* A frame is queued, or the transport that it was meant for is given up.
LEMMA Enqueued ==
    ASSUME IInv, NEW c \in Clients, NEW g \in Nat, NEW n \in Nat, Enqueue(c, g, n),
           g <= generation[c]
    PROVE  /\ queue' \in [Clients -> Seq([gen : Nat, seq : Nat])]
           /\ \A d \in Clients : Len(queue'[d]) <= MaxFrames
           /\ invalid' \subseteq Clients /\ (c \in invalid => c \in invalid')
           /\ c \in invalid' => c \in invalid \/ c \in bound
           /\ \A d \in Clients : d # c => queue'[d] = queue[d] /\ (d \in invalid' <=> d \in invalid)
           /\ \A i \in DOMAIN queue'[c] : queue'[c][i].gen <= generation[c]
           /\ Answered(queue'[c], generation[c]) => Answered(queue[c], generation[c]) \/ n = Ready
           /\ \/ c \in bound /\ c \in invalid'
              \/ /\ g # generation[c] \/ n = Ready \/ c \notin bound
                 /\ c \in bound =>
                       /\ Events(queue'[c], generation[c]) = Events(queue[c], generation[c])
                       /\ Sorted(queue[c], generation[c]) => Sorted(queue'[c], generation[c])
              \/ /\ g = generation[c] /\ n # Ready
                 /\ Events(queue'[c], generation[c]) = Events(queue[c], generation[c]) \cup {n}
                 /\ /\ Sorted(queue[c], generation[c])
                    /\ \A m \in Events(queue[c], generation[c]) : m < n
                    => Sorted(queue'[c], generation[c])
  <1>1. /\ queue \in [Clients -> Seq(Frames)] /\ generation[c] \in Nat /\ invalid \subseteq Clients
        /\ \A d \in Clients : Len(queue[d]) <= MaxFrames
        /\ \A i \in DOMAIN queue[c] : queue[c][i].gen <= generation[c]
        /\ Seq(Frames) = Seq([gen : Nat, seq : Nat])
    BY DEF IInv, TypeOK, Frames, ClientInv, Staged
  <1>2. CASE HasFrameRoom(c)
    <2> DEFINE f == [gen |-> g, seq |-> n]
    <2>1. /\ queue' = [queue EXCEPT ![c] = Append(queue[c], f)] /\ invalid' = invalid
          /\ Len(queue[c]) < MaxFrames
      BY <1>2 DEF Enqueue, HasFrameRoom
    <2>2. f \in Frames /\ f.gen = g /\ f.seq = n
      BY DEF Frames
    <2> HIDE DEF f
    <2>3. /\ Append(queue[c], f) \in Seq(Frames)
          /\ Events(Append(queue[c], f), generation[c]) = Events(queue[c], generation[c]) \cup
                (IF g = generation[c] /\ n # Ready THEN {n} ELSE {})
          /\ /\ Sorted(queue[c], generation[c])
             /\ g = generation[c] /\ n # Ready =>
                   \A m \in Events(queue[c], generation[c]) : m < n
             => Sorted(Append(queue[c], f), generation[c])
          /\ Answered(Append(queue[c], f), generation[c])
                => Answered(queue[c], generation[c]) \/ n = Ready
      BY <1>1, <2>2, EventsGrow
    <2>4. /\ queue'[c] = Append(queue[c], f) /\ queue' \in [Clients -> Seq(Frames)]
          /\ \A d \in Clients : d # c => queue'[d] = queue[d]
      BY <1>1, <2>1, <2>3
    <2>5. Len(queue'[c]) <= MaxFrames
      <3>1. queue[c] \in Seq(Frames) /\ MaxFrames \in Nat
        BY <1>1, RoomAssumption
      <3>2. Len(queue'[c]) = Len(queue[c]) + 1 /\ Len(queue[c]) \in Nat
        BY <2>4, <3>1
      <3> QED BY <2>1, <3>1, <3>2
    <2>6. \A i \in DOMAIN queue'[c] : queue'[c][i].gen <= generation[c]
      <3>1. queue[c] \in Seq(Frames)
        BY <1>1
      <3>2. \A i \in DOMAIN Append(queue[c], f) :
              \/ Append(queue[c], f)[i] = f
              \/ i \in DOMAIN queue[c] /\ Append(queue[c], f)[i] = queue[c][i]
        BY <2>2, <3>1
      <3> QED BY <1>1, <2>2, <2>4, <3>2
    <2>7. CASE g = generation[c] /\ n # Ready
      BY <1>1, <2>1, <2>3, <2>4, <2>5, <2>6, <2>7
    <2>8. CASE g # generation[c] \/ n = Ready
      BY <1>1, <2>1, <2>3, <2>4, <2>5, <2>6, <2>8
    <2> QED BY <2>7, <2>8
  <1>3. CASE ~HasFrameRoom(c)
    <2>1. /\ queue' = queue
          /\ invalid' = IF g = generation[c] /\ c \in bound THEN invalid \cup {c} ELSE invalid
      BY <1>3 DEF Enqueue, InvalidateSocketIfCurrent
    <2> QED BY <1>1, <2>1
  <1> QED BY <1>2, <1>3


\* SESSION_READY is queued for the present transport.
LEMMA SendReadyInvariant ==
    ASSUME IInv, NEW c \in Clients, SendReady(c)
    PROVE  IInv'
  <1>0. /\ UNCHANGED <<log, members, pubStep, pubTodo, pubTarget, pubGeneration, bound, generation,
                       snapPeers, snapLatest, snapResync, snapFrom, snapTo, snapAt, mode, holders,
                       inbox, cursor, seen, base, shown, roster, whole>>
        /\ step[c] = "send" /\ Goto(c, "open") /\ Enqueue(c, generation[c], Ready)
    BY DEF SendReady, pubVars, snapVars, browserVars, pageVars
  <1>1. generation[c] \in Nat /\ Ready \in Nat
    BY DEF IInv, TypeOK, Ready
  <1>2. /\ queue' \in [Clients -> Seq([gen : Nat, seq : Nat])]
        /\ \A d \in Clients : Len(queue'[d]) <= MaxFrames
        /\ invalid' \subseteq Clients /\ (c \in invalid => c \in invalid')
        /\ c \in invalid' => c \in invalid \/ c \in bound
        /\ \A d \in Clients : d # c => queue'[d] = queue[d] /\ (d \in invalid' <=> d \in invalid)
        /\ \A i \in DOMAIN queue'[c] : queue'[c][i].gen <= generation[c]
        /\ \/ c \in bound /\ c \in invalid'
           \/ c \in bound => /\ Events(queue'[c], generation[c]) = Events(queue[c], generation[c])
                             /\ Sorted(queue[c], generation[c]) => Sorted(queue'[c], generation[c])
    <2>1. generation[c] <= generation[c]
      BY <1>1
    <2> QED BY <1>0, <1>1, <2>1, Enqueued
  <1>3. /\ Publication' /\ LogTells' /\ Forward /\ \A d \in Clients : d # c => ClientInv(d)'
        /\ step' \in [Clients -> Steps] /\ step'[c] = "open"
        /\ Latest' = Latest /\ Due(c)' = Due(c) /\ Window(c)' /\ Inboxed(c)'
    BY <1>0, <1>2, HelloStep DEF Quiet
  <1>4. TypeOK'
    BY <1>0, <1>2, <1>3 DEF IInv, TypeOK
  <1>5. ClientInv(c) /\ mode[c] = "handshaking" /\ c \in bound
    BY <1>0 DEF IInv, ClientInv, Staged, Connected, TypeOK, Modes
  <1>6. Staged(c)'
    BY <1>0, <1>2, <1>3, <1>5 DEF ClientInv, Staged, Connected, Outside
  <1>7. c \notin invalid' => Stream(c)' = Stream(c)
    BY <1>0, <1>2, <1>5 DEF Stream
  <1>8. Streamed(c)'
    BY <1>0, <1>2, <1>3, <1>5, <1>7 DEF ClientInv, Streamed
  <1>9. Complete(c)'
    BY <1>0, <1>2, <1>3, <1>5, <1>7 DEF ClientInv, Complete, Fits, Past, IsFull
  <1>10. Snapshot(c)'
    BY <1>0, <1>3, <1>5 DEF ClientInv, Snapshot, Fits
  <1>11. Rostered(c)'
    <2>1. PeersAfter(log, step', snapPeers[c], 1 .. snapAt[c])
      BY <1>0, <1>3, <1>5, PeersForward DEF ClientInv, Rostered, Known
    <2> QED BY <1>0, <1>3, <1>5, <2>1 DEF Rostered, ClientInv, Known
  <1> QED BY <1>3, <1>4, <1>6, <1>8, <1>9, <1>10, <1>11 DEF IInv, ClientInv

-----------------------------------------------------------------------------
(* Publication *)

\* What the beginning of a log tells is not changed by another event.
LEMMA LogGrows ==
    ASSUME TypeOK, NEW kind \in Kinds, NEW c \in Clients, NEW size \in Sizes,
           log' = Append(log, [kind |-> kind, who |-> c, size |-> size])
    PROVE  /\ log' \in Seq(Entries) /\ Latest' = Latest + 1
           /\ log'[Latest + 1].kind = kind /\ log'[Latest + 1].who = c
           /\ log'[Latest + 1].size = size
           /\ \A k \in 1 .. Latest : log'[k] = log[k]
           /\ \A d \in Clients : \A E \in SUBSET (1 .. Latest) :
                 /\ Joined(log', d, E) <=> Joined(log, d, E)
                 /\ Left(log', d, E) <=> Left(log, d, E)
           /\ \A d \in Clients :
                  /\ Joined(log', d, 1 .. Latest') <=>
                           Joined(log, d, 1 .. Latest) \/ (kind = "joined" /\ d = c)
                  /\ Left(log', d, 1 .. Latest') <=>
                           Left(log, d, 1 .. Latest) \/ (kind = "left" /\ d = c)
  <1> DEFINE e == [kind |-> kind, who |-> c, size |-> size]
             l == log'
             n0 == Latest
  <1>1. log \in Seq(Entries) /\ e \in Entries
    BY DEF TypeOK, Entries
  <1>2. e.kind = kind /\ e.who = c /\ e.size = size
    OBVIOUS
  <1>3. /\ l \in Seq(Entries) /\ Len(l) = Len(log) + 1 /\ Len(log) \in Nat
        /\ l[Len(log) + 1] = e /\ \A k \in 1 .. Len(log) : l[k] = log[k]
    BY <1>1
  <1>4. /\ n0 \in Nat /\ Len(l) = n0 + 1 /\ Len(log) = n0 /\ Latest' = n0 + 1
        /\ l[n0 + 1].kind = kind /\ l[n0 + 1].who = c /\ l[n0 + 1].size = size
        /\ \A k \in 1 .. n0 : l[k] = log[k]
    BY <1>2, <1>3 DEF Latest
  <1>5. l \in Seq(Entries)
    BY <1>3
  <1> HIDE DEF l, n0, e
  <1>6. \A d \in Clients : \A E \in SUBSET (1 .. n0) :
          Joined(l, d, E) <=> Joined(log, d, E)
    BY <1>4 DEF Joined
  <1>7. \A d \in Clients : \A E \in SUBSET (1 .. n0) :
          Left(l, d, E) <=> Left(log, d, E)
    BY <1>4 DEF Left
  <1>8. ASSUME NEW d \in Clients
        PROVE  /\ Joined(l, d, 1 .. n0 + 1) <=>
                     Joined(log, d, 1 .. n0) \/ (kind = "joined" /\ d = c)
               /\ Left(l, d, 1 .. n0 + 1) <=>
                     Left(log, d, 1 .. n0) \/ (kind = "left" /\ d = c)
    <2>1. /\ \A k \in 1 .. n0 + 1 : k \in 1 .. n0 \/ k = n0 + 1
          /\ \A k \in 1 .. n0 : k \in 1 .. n0 + 1 /\ k <= n0 /\ k <= n0 + 1
          /\ n0 + 1 \in 1 .. n0 + 1 /\ n0 + 1 <= n0 + 1
      BY <1>4
    <2>2. Joined(l, d, 1 .. n0 + 1) <=> Joined(log, d, 1 .. n0) \/ (kind = "joined" /\ d = c)
      BY <1>4, <2>1 DEF Joined
    <2>3. Left(l, d, 1 .. n0 + 1) <=> Left(log, d, 1 .. n0) \/ (kind = "left" /\ d = c)
      BY <1>4, <2>1 DEF Left
    <2> QED BY <2>2, <2>3
  <1> QED BY <1>4, <1>5, <1>6, <1>7, <1>8 DEF l, n0

\* An event is added to the log.  It is coming to every client that has a
\* transport, except to one that it announces.
LEMMA AddHistoryMessageInvariant ==
    ASSUME IInv, NEW c \in Clients,
           WelcomePeer(c) \/ WithdrawPeerFiles(c) \/ Command(c) \/ GoodbyePeer(c)
    PROVE  IInv'
  <1>1. PICK kind \in Kinds, s \in Publishing, size \in Sizes :
          /\ AddHistoryMessage(kind, c, size) /\ Goto(c, s)
          /\ kind \in {"joined", "left"} => size = "short"
          /\ \/ kind = "joined" /\ step[c] = "welcome" /\ s = "welcoming"
             \/ kind = "withdrawn" /\ step[c] = "capability" /\ s = "withdraw"
             \/ kind = "message" /\ step[c] = "open" /\ s = "command"
             \/ kind = "left" /\ step[c] = "leaving" /\ s = "bye"
    <2>1. "short" \in Sizes /\ {"joined", "left", "message", "withdrawn"} \subseteq Kinds
          /\ {"welcoming", "withdraw", "command", "bye"} \subseteq Publishing
      BY DEF Sizes, Kinds, Publishing
    <2>2. CASE WelcomePeer(c) \/ GoodbyePeer(c)
      BY <2>1, <2>2 DEF WelcomePeer, GoodbyePeer
    <2>3. CASE WithdrawPeerFiles(c) \/ Command(c)
      BY <2>1, <2>3 DEF WithdrawPeerFiles, Command
    <2> QED BY <2>2, <2>3
  <1>2. /\ UNCHANGED <<members, pubTodo, pubTarget, pubGeneration, bound, generation, invalid,
                       queue, snapPeers, snapLatest, snapResync, snapFrom, snapTo, snapAt, mode,
                       holders, inbox, cursor, seen, base, shown, roster, whole>>
        /\ pubStep = "idle" /\ pubStep' = "members"
        /\ log' = Append(log, [kind |-> kind, who |-> c, size |-> size])
    BY <1>1 DEF AddHistoryMessage, peerVars, snapVars, browserVars, pageVars
  <1>3. /\ log' \in Seq(Entries) /\ Latest' = Latest + 1
        /\ log'[Latest + 1].kind = kind /\ log'[Latest + 1].who = c
        /\ log'[Latest + 1].size = size
        /\ \A k \in 1 .. Latest : log'[k] = log[k]
        /\ \A d \in Clients : \A E \in SUBSET (1 .. Latest) :
              /\ Joined(log', d, E) <=> Joined(log, d, E)
              /\ Left(log', d, E) <=> Left(log, d, E)
        /\ \A d \in Clients :
                  /\ Joined(log', d, 1 .. Latest') <=>
                        Joined(log, d, 1 .. Latest) \/ (kind = "joined" /\ d = c)
                  /\ Left(log', d, 1 .. Latest') <=>
                        Left(log, d, 1 .. Latest) \/ (kind = "left" /\ d = c)
    BY <1>2, LogGrows DEF IInv
  <1>4. /\ step' \in [Clients -> Steps] /\ step'[c] = s
        /\ \A d \in Clients : d # c => step'[d] = step[d]
    BY <1>1 DEF Goto, IInv, TypeOK, Publishing, Steps
  <1>5. Latest \in Nat /\ Latest' \in Nat /\ Latest <= Latest' /\ DOMAIN log' = 1 .. Latest'
    <2>1. Latest \in Nat
      BY LatestType DEF IInv
    <2>2. DOMAIN log' = 1 .. Latest'
      BY <1>3 DEF Latest
    <2> QED BY <1>3, <2>1, <2>2
  <1>6. TypeOK'
    BY <1>2, <1>3, <1>4 DEF IInv, TypeOK, Entries
  <1>7. Forward
    BY <1>1, <1>4 DEF Forward, Departed
  <1>8. Publication'
    <2>1. pubTodo = {} /\ pubTarget = NoClient
      BY <1>2 DEF IInv, Publication
    <2>2. Latest' > 0 /\ log'[Latest'].who = c
      BY <1>3, <1>5
    <2> QED BY <1>2, <1>4, <2>1, <2>2 DEF Publication
  <1>9. LogTells'
    <2>1. ASSUME NEW d \in Clients
          PROVE  /\ Joined(log', d, 1 .. Latest') <=> step'[d] \notin {"absent", "welcome"}
                 /\ Left(log', d, 1 .. Latest') <=> step'[d] \in {"bye", "gone"}
      <3>1. /\ Joined(log, d, 1 .. Latest) <=> step[d] \notin {"absent", "welcome"}
            /\ Left(log, d, 1 .. Latest) <=> step[d] \in {"bye", "gone"}
        BY DEF IInv, LogTells, Fits
      <3> QED BY <1>1, <1>3, <1>4, <3>1
    <2>2. ASSUME NEW j \in DOMAIN log', NEW k \in DOMAIN log',
                 log'[j].kind = "joined", log'[k].kind = "left", log'[j].who = log'[k].who
          PROVE  j < k
      <3>1. CASE j \in 1 .. Latest /\ k \in 1 .. Latest
        BY <1>3, <2>2, <3>1, LatestType DEF IInv, LogTells, Fits
      <3>2. CASE j \in 1 .. Latest /\ k = Latest + 1
        BY <1>5, <3>2
      <3>3. CASE j = Latest + 1
        <4>1. kind = "joined" /\ step[c] = "welcome" /\ log'[k].who = c
          BY <1>1, <1>3, <2>2, <3>3
        <4>2. k \in 1 .. Latest
          BY <1>3, <1>5, <2>2, <4>1
        <4>3. Left(log, c, 1 .. Latest)
          BY <1>3, <1>5, <2>2, <4>1, <4>2 DEF Left, Latest
        <4> QED BY <4>1, <4>3 DEF IInv, LogTells, Fits
      <3> QED BY <1>3, <1>5, <3>1, <3>2, <3>3
    <2>3. ASSUME NEW d \in Clients
          PROVE  Joined(log', d, 1 .. Latest') <=> step'[d] \notin {"absent", "welcome"}
      BY <2>1, Zenon
    <2>4. ASSUME NEW d \in Clients
          PROVE  Left(log', d, 1 .. Latest') <=> step'[d] \in {"bye", "gone"}
      BY <2>1, Zenon
    <2>5. ASSUME NEW k \in DOMAIN log', log'[k].kind \in {"joined", "left"}
          PROVE  Fits(k)'
      <3>1. CASE k \in 1 .. Latest
        BY <1>3, <2>5, <3>1, LatestType DEF IInv, LogTells, Fits
      <3>2. CASE k = Latest + 1
        BY <1>1, <1>3, <2>5, <3>2 DEF Fits
      <3> QED BY <1>3, <1>5, <3>1, <3>2
    <2> QED BY <2>2, <2>3, <2>4, <2>5, Zenon DEF LogTells
  <1>11. \A k \in 1 .. Latest : Fits(k)' <=> Fits(k)
    BY <1>3 DEF Fits
  <1>10. ASSUME NEW d \in Clients
         PROVE  ClientInv(d)'
    <2>1. ClientInv(d)
      BY DEF IInv
    <2>2. Due(d) = Latest
      BY <1>2 DEF Due, Coming
    <2>3. d \in bound => d \in members
      BY <2>1 DEF ClientInv, Staged, Connected, Outside
    <2>4. d \in bound /\ ~(d = c /\ kind = "joined") => Due(d)' = Latest
      <3>1. log'[Latest'].who = c /\ log'[Latest'].kind = kind
        BY <1>3
      <3> QED BY <1>2, <1>3, <1>5, <2>3, <3>1 DEF Due, Coming
    <2>5. Due(d)' \in {Latest, Latest + 1}
      BY <1>3, <1>5 DEF Due
    <2>6. Stream(d)' = Stream(d)
      BY <1>2 DEF Stream
    <2>7. Staged(d)'
      BY <1>1, <1>2, <1>4, <2>1 DEF ClientInv, Staged, Connected, Outside
    <2>8. Streamed(d)'
      <3>1. d \in bound \ invalid =>
               /\ Stream(d) \subseteq 1 .. Due(d)'
               /\ mode[d] \in {"draining", "online"} => seen[d] \subseteq 1 .. Due(d)'
        BY <1>5, <2>1, <2>2, <2>5 DEF ClientInv, Streamed
      <3> QED BY <1>2, <2>1, <2>6, <3>1 DEF ClientInv, Streamed
    <2>15. \A k \in 1 .. Latest : Past(d, k)' <=> Past(d, k)
      BY <1>2, <1>11 DEF Past, IsFull
    <2>10. /\ cursor[d] \in Nat /\ snapTo[d] \in Nat /\ snapFrom[d] \in Nat
           /\ snapLatest[d] \in Nat /\ snapAt[d] \in Nat
      BY DEF IInv, TypeOK
    <2>9. Complete(d)'
      <3>1. CASE d = c /\ kind = "joined"
        <4>1. step'[d] = "welcoming" /\ mode[d] \notin {"draining", "online"}
          BY <1>1, <1>4, <2>1, <3>1 DEF ClientInv, Staged
        <4> QED BY <1>2, <4>1 DEF Complete
      <3>2. CASE ~(d = c /\ kind = "joined")
        <4>1. /\ mode[d] \in {"handshaking", "hydrating"}
              /\ step'[d] \in {"history", "send", "open", "command"}
              => step[d] \in {"history", "send", "open", "command"}
          BY <1>1, <1>4
        <4>2. snapLatest[d] + 1 .. Latest \subseteq 1 .. Latest
          BY <1>5, <2>10
        <4> QED BY <1>2, <1>11, <2>1, <2>2, <2>4, <2>6, <2>15, <3>2, <4>1, <4>2
                DEF ClientInv, Complete
      <3> QED BY <3>1, <3>2
    <2>11. Window(d)'
      <3>1. /\ seen[d] \subseteq cursor[d] + 2 .. Latest /\ cursor[d] <= Latest
            /\ \A m \in seen[d] : \A n \in cursor[d] + 1 .. m : n \in seen[d] \/ ~Fits(n)
        BY <2>1 DEF ClientInv, Window
      <3>2. seen[d] \subseteq cursor[d] + 2 .. Latest' /\ cursor[d] <= Latest'
        BY <1>5, <2>10, <3>1
      <3>3. \A m \in seen[d] : cursor[d] + 1 .. m \subseteq 1 .. Latest
        BY <1>5, <2>10, <3>1
      <3> QED BY <1>2, <1>11, <2>1, <3>1, <3>2, <3>3 DEF ClientInv, Window
    <2>12. Snapshot(d)'
      <3>1. /\ step'[d] \in {"history", "send", "open", "command"}
               => step[d] \in {"history", "send", "open", "command"}
            /\ step'[d] \in {"send", "open", "command"} => step[d] \in {"send", "open", "command"}
        BY <1>1, <1>4
      <3>2. \A n \in Nat : n <= Latest => n <= Latest'
        BY <1>5
      <3>3. mode[d] = "hydrating" => snapFrom[d] .. snapTo[d] \subseteq 1 .. Latest
        BY <1>5, <2>1, <2>10 DEF ClientInv, Snapshot
      <3> QED BY <1>2, <1>11, <2>1, <2>10, <3>1, <3>2, <3>3 DEF ClientInv, Snapshot
    <2>13. Rostered(d)'
      <3>1. \A peers : \A E \in SUBSET (1 .. Latest) :
               PeersAfter(log, step, peers, E) => PeersAfter(log', step', peers, E)
        BY <1>3, <1>7 DEF PeersAfter, Forward
      <3>2. step'[d] \in {"latest", "history", "send", "open", "command"}
               => step[d] \in {"latest", "history", "send", "open", "command"}
        BY <1>1, <1>4
      <3>3. Known(d)' = Known(d) /\ Known(d) \subseteq 1 .. Latest
        <4>1. cursor[d] <= Latest /\ seen[d] \subseteq cursor[d] + 2 .. Latest
          BY <2>1 DEF ClientInv, Window
        <4> QED BY <1>2, <1>5, <2>10, <4>1 DEF Known
      <3>4. snapAt[d] <= Latest => 1 .. snapAt[d] \subseteq 1 .. Latest /\ snapAt[d] <= Latest'
        BY <1>5, <2>10
      <3> QED BY <1>2, <1>5, <2>1, <2>10, <3>1, <3>2, <3>3, <3>4 DEF ClientInv, Rostered
    <2>14. Inboxed(d)'
      <3>1. step'[d] \in {"history", "send", "open", "command"}
               => step[d] \in {"history", "send", "open", "command"}
        BY <1>1, <1>4
      <3> QED BY <1>2, <1>3, <1>5, <3>1, InboxKept
    <2> QED BY <2>7, <2>8, <2>9, <2>11, <2>12, <2>13, <2>14 DEF ClientInv
  <1> QED BY <1>6, <1>8, <1>9, <1>10 DEF IInv

\* The members are copied: the event is still coming to the same transports.
LEMMA SnapshotMembersInvariant ==
    ASSUME IInv, SnapshotMembers
    PROVE  IInv'
  <1>0. /\ UNCHANGED <<log, members, pubTarget, pubGeneration, step, bound, generation, invalid,
                       queue, snapPeers, snapLatest, snapResync, snapFrom, snapTo, snapAt, mode,
                       holders, inbox, cursor, seen, base, shown, roster, whole>>
        /\ pubStep = "members" /\ pubStep' = "send"
        /\ pubTodo' = members \ (IF log[Latest].kind = "joined" THEN {log[Latest].who} ELSE {})
    BY DEF SnapshotMembers, peerVars, snapVars, browserVars, pageVars
  <1>1. TypeOK'
    BY <1>0 DEF IInv, TypeOK
  <1>2. pubTarget = NoClient /\ Latest' = Latest
    BY <1>0 DEF IInv, Publication, Latest
  <1>3. Publication' /\ LogTells' /\ Forward
    BY <1>0, <1>2 DEF IInv, Publication, LogTells, Forward, Fits
  <1>4. ASSUME NEW d \in Clients
        PROVE  ClientInv(d)'
    <2>1. Kept(d)
      BY <1>0 DEF Kept
    <2>2. d # NoClient
      BY RoomAssumption
    <2>3. Coming(d)' <=> Coming(d)
      BY <1>0, <1>2, <2>2 DEF Coming
    <2>4. Due(d)' = Due(d)
      BY <1>2, <2>3 DEF Due
    <2> QED BY <1>0, <1>3, <2>1, <2>4, KeptClient
  <1> QED BY <1>1, <1>3, <1>4 DEF IInv

\* The binding is read, or the client has none.
LEMMA ReadBindingInvariant ==
    ASSUME IInv, NEW c \in Clients, ReadBinding(c)
    PROVE  IInv'
  <1>0. /\ UNCHANGED <<log, members, pubStep, step, bound, generation, invalid, queue, snapPeers,
                       snapLatest, snapResync, snapFrom, snapTo, snapAt, mode, holders, inbox,
                       cursor, seen, base, shown, roster, whole>>
        /\ pubStep = "send" /\ pubTarget = NoClient /\ c \in pubTodo
        /\ \/ /\ c \in bound /\ pubTarget' = c /\ pubGeneration' = generation[c]
              /\ pubTodo' = pubTodo
           \/ /\ c \notin bound /\ pubTodo' = pubTodo \ {c}
              /\ UNCHANGED <<pubTarget, pubGeneration>>
    BY DEF ReadBinding, peerVars, snapVars, browserVars, pageVars
  <1>1. generation[c] \in Nat /\ c # NoClient
    BY RoomAssumption DEF IInv, TypeOK
  <1>2. TypeOK'
    BY <1>0, <1>1 DEF IInv, TypeOK
  <1>3. Latest' = Latest
    BY <1>0 DEF Latest
  <1>4. LogTells' /\ Forward
    BY <1>0, <1>3 DEF IInv, LogTells, Forward, Fits
  <1>5. Publication'
    BY <1>0, <1>1, <1>3 DEF IInv, Publication
  <1>6. ASSUME NEW d \in Clients
        PROVE  ClientInv(d)'
    <2>1. Kept(d)
      BY <1>0 DEF Kept
    <2>2. d # NoClient
      BY RoomAssumption
    <2>3. d \in bound => (Coming(d)' <=> Coming(d))
      BY <1>0, <1>3, <2>2 DEF Coming
    <2>4. d \in bound => Due(d)' = Due(d)
      BY <1>3, <2>3 DEF Due
    <2> QED BY <1>0, <1>4, <2>1, <2>4, KeptClient
  <1> QED BY <1>2, <1>4, <1>5, <1>6 DEF IInv

\* The event is queued for the transport that was read.  If that is still the
\* present one, the stream goes on with it, and if it is not, a snapshot to
\* come has the event.
LEMMA PushInvariant ==
    ASSUME IInv, NEW c \in Clients, Push(c)
    PROVE  IInv'
  <1>0. /\ UNCHANGED <<log, members, pubStep, step, bound, generation, snapPeers, snapLatest,
                       snapResync, snapFrom, snapTo, snapAt, mode, holders, inbox, cursor, seen,
                       base, shown, roster, whole>>
        /\ pubTarget = c /\ Enqueue(c, pubGeneration, Latest)
        /\ pubTodo' = pubTodo \ {c} /\ pubTarget' = NoClient /\ pubGeneration' = 0
    BY DEF Push, snapVars, browserVars, pageVars
  <1>1. /\ c # NoClient /\ pubGeneration \in Nat /\ generation[c] \in Nat
        /\ Latest \in Nat /\ Latest > 0
        /\ pubStep = "send" /\ c \in pubTodo /\ pubGeneration <= generation[c]
    <2>1. c # NoClient
      BY RoomAssumption
    <2>2. c \in pubTodo /\ pubGeneration <= generation[c] /\ pubStep = "send" /\ Latest > 0
      BY <1>0, <2>1 DEF IInv, Publication
    <2> QED BY <2>1, <2>2, LatestType DEF IInv, TypeOK
  <1>2. /\ queue' \in [Clients -> Seq([gen : Nat, seq : Nat])]
        /\ \A d \in Clients : Len(queue'[d]) <= MaxFrames
        /\ invalid' \subseteq Clients /\ (c \in invalid => c \in invalid')
        /\ c \in invalid' => c \in invalid \/ c \in bound
        /\ \A d \in Clients : d # c => queue'[d] = queue[d] /\ (d \in invalid' <=> d \in invalid)
        /\ \A i \in DOMAIN queue'[c] : queue'[c][i].gen <= generation[c]
        /\ Answered(queue'[c], generation[c]) => Answered(queue[c], generation[c])
        /\ \/ c \in bound /\ c \in invalid'
           \/ /\ pubGeneration # generation[c] \/ c \notin bound
              /\ c \in bound =>
                    /\ Events(queue'[c], generation[c]) = Events(queue[c], generation[c])
                    /\ Sorted(queue[c], generation[c]) => Sorted(queue'[c], generation[c])
           \/ /\ pubGeneration = generation[c]
              /\ Events(queue'[c], generation[c]) = Events(queue[c], generation[c]) \cup {Latest}
              /\ /\ Sorted(queue[c], generation[c])
                 /\ \A m \in Events(queue[c], generation[c]) : m < Latest
                 => Sorted(queue'[c], generation[c])
    <2>1. Latest # Ready
      BY <1>1 DEF Ready
    <2> QED BY <1>0, <1>1, <2>1, Enqueued
  <1>3. TypeOK'
    BY <1>0, <1>2 DEF IInv, TypeOK
  <1>4. Latest' = Latest
    BY <1>0 DEF Latest
  <1>5. LogTells' /\ Forward
    BY <1>0, <1>4 DEF IInv, LogTells, Forward, Fits
  <1>6. Publication'
    BY <1>0, <1>1, <1>4 DEF IInv, Publication
  <1>7. ASSUME NEW d \in Clients, d # c
        PROVE  ClientInv(d)'
    <2>1. Kept(d)
      BY <1>0, <1>2, <1>7 DEF Kept
    <2>2. d # NoClient
      BY RoomAssumption
    <2>3. Coming(d)' <=> Coming(d)
      BY <1>0, <1>1, <1>4, <1>7, <2>2 DEF Coming
    <2>4. Due(d)' = Due(d)
      BY <1>4, <2>3 DEF Due
    <2> QED BY <1>0, <1>5, <2>1, <2>4, KeptClient
  <1>8. ClientInv(c)'
    <2>1. ClientInv(c)
      BY DEF IInv
    <2>2. Due(c)' = Latest
      BY <1>0, <1>1, <1>4 DEF Due, Coming
    <2>3. Due(c) = IF pubGeneration = generation[c] THEN Latest - 1 ELSE Latest
      BY <1>0, <1>1 DEF Due, Coming
    <2>4. Staged(c)'
      BY <1>0, <1>2, <2>1 DEF ClientInv, Staged
    <2>5. Window(c)' /\ Snapshot(c)'
      BY <1>0, <1>4, <2>1 DEF ClientInv, Window, Snapshot, Fits
    <2>6. Rostered(c)'
      BY <1>0, <1>4, <2>1 DEF ClientInv, Rostered, Known
    <2>10. Inboxed(c)'
      BY <1>0, <1>1, <1>4, InboxKept
    <2>7. CASE c \notin bound \/ c \in invalid'
      BY <1>0, <2>4, <2>5, <2>6, <2>7, <2>10 DEF ClientInv, Streamed, Complete, Fits, Past, IsFull
    <2>8. CASE c \in bound /\ c \notin invalid' /\ pubGeneration # generation[c]
      <3>1. /\ Events(queue'[c], generation[c]) = Events(queue[c], generation[c])
            /\ Sorted(queue[c], generation[c]) => Sorted(queue'[c], generation[c])
            /\ c \notin invalid /\ Due(c)' = Due(c)
        BY <1>2, <2>2, <2>3, <2>8
      <3>2. Stream(c)' = Stream(c)
        BY <1>0, <3>1 DEF Stream
      <3>3. Streamed(c)'
        BY <1>0, <2>1, <2>8, <3>1, <3>2 DEF ClientInv, Streamed
      <3>4. Complete(c)'
        BY <1>0, <2>1, <2>8, <3>1, <3>2 DEF ClientInv, Complete, Fits, Past, IsFull
      <3> QED BY <2>4, <2>5, <2>6, <2>10, <3>3, <3>4 DEF ClientInv
    <2>9. CASE c \in bound /\ c \notin invalid' /\ pubGeneration = generation[c]
      <3>1. /\ Events(queue'[c], generation[c]) = Events(queue[c], generation[c]) \cup {Latest}
            /\ /\ Sorted(queue[c], generation[c])
               /\ \A m \in Events(queue[c], generation[c]) : m < Latest
               => Sorted(queue'[c], generation[c])
            /\ c \notin invalid /\ Due(c) = Latest - 1
        BY <1>2, <2>3, <2>9
      <3>2. Stream(c)' = Stream(c) \cup {Latest}
        BY <1>0, <3>1 DEF Stream
      <3>3. Stream(c) \subseteq 1 .. Latest - 1
        BY <2>1, <2>9, <3>1 DEF ClientInv, Streamed
      <3>4. /\ \A m \in Stream(c) : m < Latest
            /\ Stream(c)' \subseteq 1 .. Latest
        BY <1>1, <3>2, <3>3
      <3>5. Streamed(c)'
        <4>1. /\ \A m \in Events(queue[c], generation[c]) : m < Latest
              /\ \A m \in ToSet(inbox[c]) : m < Latest
          BY <3>4 DEF Stream
        <4>2. /\ Sorted(queue'[c], generation[c])
              /\ \A m \in ToSet(inbox[c]) : \A n \in Events(queue'[c], generation[c]) : m < n
          BY <2>1, <2>9, <3>1, <4>1 DEF ClientInv, Streamed
        <4>3. mode[c] \in {"draining", "online"} =>
                 /\ seen[c] \subseteq 1 .. Latest - 1
                 /\ \A m \in seen[c] : \A n \in Stream(c) : m < n
          BY <2>1, <2>9, <3>1 DEF ClientInv, Streamed
        <4>4. mode[c] \in {"draining", "online"} =>
                 /\ seen[c] \subseteq 1 .. Latest
                 /\ \A m \in seen[c] : \A n \in Stream(c)' : m < n
          BY <1>1, <3>2, <4>3
        <4> QED BY <1>0, <2>2, <3>4, <4>2, <4>4 DEF Streamed
      <3>6. Complete(c)'
        <4>1. /\ 1 .. Latest \subseteq (1 .. Latest - 1) \cup {Latest}
              /\ snapLatest[c] + 1 .. Latest
                    \subseteq (snapLatest[c] + 1 .. Latest - 1) \cup {Latest}
          <5>1. snapLatest[c] \in Nat
            BY DEF IInv, TypeOK
          <5> QED BY <1>1, <5>1
        <4>2. \A n : (Fits(n)' <=> Fits(n)) /\ (Past(c, n)' <=> Past(c, n))
          BY <1>0 DEF Fits, Past, IsFull
        <4>3. /\ mode[c] \in {"draining", "online"} =>
                    \A n \in 1 .. Latest - 1 : n \in Stream(c) \/ Past(c, n)
              /\ /\ mode[c] \in {"handshaking", "hydrating"}
                 /\ step[c] \in {"history", "send", "open", "command"}
                 => \A n \in snapLatest[c] + 1 .. Latest - 1 : n \in Stream(c) \/ ~Fits(n)
          BY <2>1, <2>9, <3>1 DEF ClientInv, Complete
        <4> QED BY <1>0, <2>2, <3>2, <4>1, <4>2, <4>3 DEF Complete
      <3> QED BY <2>4, <2>5, <2>6, <2>10, <3>5, <3>6 DEF ClientInv
    <2> QED BY <2>7, <2>8, <2>9
  <1> QED BY <1>3, <1>5, <1>6, <1>7, <1>8 DEF IInv

\* The publication is over, and the handler goes on.
LEMMA FinishPublishInvariant ==
    ASSUME IInv, FinishPublish
    PROVE  IInv'
  <1>0. /\ UNCHANGED <<log, members, pubTodo, pubTarget, pubGeneration, bound, generation,
                       invalid, queue, snapPeers, snapLatest, snapResync, snapFrom, snapTo,
                       snapAt, mode, holders, inbox, cursor, seen, base, shown, roster, whole>>
        /\ pubStep = "send" /\ pubTodo = {} /\ pubStep' = "idle"
    BY DEF FinishPublish, peerVars, snapVars, browserVars, pageVars
  <1>1. log[Latest].who \in Clients /\ step[log[Latest].who] \in Publishing
    BY <1>0, LatestType DEF IInv, Publication
  <1>2. PICK c \in Clients, s \in Steps :
          /\ step' = [step EXCEPT ![c] = s]
          /\ \/ step[c] \in {"welcoming", "withdraw"} /\ s = "peers"
             \/ step[c] = "command" /\ s = "open"
             \/ step[c] = "bye" /\ s = "gone"
    <2>1. \A c \in Clients : log[Latest].who = c =>
             step' = [step EXCEPT ![c] = CASE step[c] \in {"welcoming", "withdraw"} -> "peers"
                                           [] step[c] = "command" -> "open"
                                           [] OTHER -> "gone"]
      BY DEF FinishPublish, Goto
    <2> QED BY <1>1, <2>1 DEF Publishing, Steps
  <1>3. /\ step' \in [Clients -> Steps] /\ step'[c] = s
        /\ \A d \in Clients : d # c => step'[d] = step[d]
    BY <1>0, <1>2 DEF IInv, TypeOK
  <1>4. TypeOK'
    BY <1>0, <1>3 DEF IInv, TypeOK
  <1>5. Latest' = Latest
    BY <1>0 DEF Latest
  <1>6. Forward
    BY <1>2, <1>3 DEF Forward, Departed
  <1>7. Publication'
    BY <1>0 DEF IInv, Publication
  <1>8. LogTells'
    <2>1. \A d \in Clients :
            /\ step'[d] \in {"absent", "welcome"} <=> step[d] \in {"absent", "welcome"}
            /\ step'[d] \in {"bye", "gone"} <=> step[d] \in {"bye", "gone"}
      BY <1>2, <1>3
    <2> QED BY <1>0, <1>5, <2>1 DEF IInv, LogTells, Fits
  <1>9. \A d \in Clients : Due(d)' = Due(d)
    BY <1>0, <1>5 DEF Due, Coming
  <1>10. ASSUME NEW d \in Clients, d # c
         PROVE  ClientInv(d)'
    <2>1. Kept(d)
      BY <1>0, <1>3, <1>10 DEF Kept
    <2> QED BY <1>0, <1>6, <1>9, <2>1, KeptClient
  <1>11. ClientInv(c)'
    <2>1. ClientInv(c) /\ Due(c)' = Due(c)
      BY <1>1, <1>9 DEF IInv
    <2>2. Stream(c)' = Stream(c)
      BY <1>0 DEF Stream
    <2>3. Staged(c)'
      BY <1>0, <1>2, <1>3, <2>1 DEF ClientInv, Staged, Connected, Outside
    <2>4. Streamed(c)'
      BY <1>0, <2>1, <2>2 DEF ClientInv, Streamed
    <2>5. Complete(c)'
      BY <1>0, <1>2, <1>3, <2>1, <2>2 DEF ClientInv, Complete, Fits, Past, IsFull
    <2>6. Window(c)' /\ Snapshot(c)'
      BY <1>0, <1>2, <1>3, <1>5, <2>1 DEF ClientInv, Window, Snapshot, Fits
    <2>7. Rostered(c)'
      <3>1. \A peers, n : PeersAfter(log, step, peers, n) => PeersAfter(log, step', peers, n)
        BY <1>6, PeersForward
      <3> QED BY <1>0, <1>2, <1>3, <1>5, <2>1, <3>1 DEF ClientInv, Rostered, Known
    <2>8. Inboxed(c)'
      <3>1. Latest \in Nat
        BY LatestType DEF IInv
      <3>2. step'[c] \in {"history", "send", "open", "command"}
               => step[c] \in {"history", "send", "open", "command"}
        BY <1>2, <1>3
      <3> QED BY <1>0, <1>5, <3>1, <3>2, InboxKept
    <2> QED BY <2>3, <2>4, <2>5, <2>6, <2>7, <2>8 DEF ClientInv
  <1> QED BY <1>1, <1>4, <1>7, <1>8, <1>10, <1>11 DEF IInv

-----------------------------------------------------------------------------
(* The browser *)

\* What one more event of the log tells.
LEMMA OneMoreEvent ==
    ASSUME NEW n \in 1 .. Latest, NEW E, NEW d
    PROVE  /\ Joined(log, d, E \cup {n}) <=>
                  Joined(log, d, E) \/ (log[n].kind = "joined" /\ log[n].who = d)
           /\ Left(log, d, E \cup {n}) <=>
                  Left(log, d, E) \/ (log[n].kind = "left" /\ log[n].who = d)
  <1>1. n <= Len(log)
    BY DEF Latest
  <1>2. Joined(log, d, E \cup {n}) <=>
           Joined(log, d, E) \/ (log[n].kind = "joined" /\ log[n].who = d)
    BY <1>1 DEF Joined
  <1>3. Left(log, d, E \cup {n}) <=>
           Left(log, d, E) \/ (log[n].kind = "left" /\ log[n].who = d)
    BY <1>1 DEF Left
  <1> QED BY <1>2, <1>3

\* Peers that tell who was there after some events tell it after fewer.
LEMMA PeersEarlier ==
    ASSUME NEW l, NEW st, NEW peers, NEW E, NEW F \in SUBSET E, PeersAfter(l, st, peers, E)
    PROVE  PeersAfter(l, st, peers, F)
  <1>1. \A d : (Joined(l, d, F) => Joined(l, d, E)) /\ (Left(l, d, F) => Left(l, d, E))
    BY DEF Joined, Left
  <1> QED BY <1>1 DEF PeersAfter

\* The roster follows the log with an event after those that it has followed
\* (the renderers of chat.js): a join or a leave that it shows did happen, and
\* happens once.
LEMMA RosterFollows ==
    ASSUME TypeOK, LogTells, NEW n \in 1 .. Latest, NEW E \in SUBSET (1 .. n - 1), NEW peers,
           PeersAfter(log, step, peers, E)
    PROVE  PeersAfter(log, step, RosterAfter(peers, log[n]), E \cup {n})
  <1> DEFINE e == log[n]
             w == e.who
  <1>1. /\ Latest \in Nat /\ DOMAIN log = 1 .. Latest /\ n \in DOMAIN log
        /\ n \in 1 .. Latest /\ Latest = Len(log)
        /\ w \in Clients
    BY LatestType DEF Latest
  <1>2. e.kind = "joined" => step[w] # "absent" /\ ~Left(log, w, E \cup {n})
    <2>1. e.kind = "joined" => Joined(log, w, 1 .. Latest)
      BY <1>1 DEF Joined
    <2>2. e.kind = "joined" => ~Left(log, w, E \cup {n})
      <3> SUFFICES ASSUME e.kind = "joined", NEW k \in E \cup {n}, k <= Len(log),
                          log[k].kind = "left", log[k].who = w
                   PROVE  FALSE
        BY DEF Left
      <3>1. k \in DOMAIN log /\ k <= n
        BY <1>1
      <3> QED BY <1>1, <3>1 DEF LogTells
    <2> QED BY <1>1, <2>1, <2>2 DEF LogTells
  <1>3. e.kind = "left" => step[w] \in Departed
    <2>1. e.kind = "left" => Left(log, w, 1 .. Latest)
      BY <1>1 DEF Left
    <2> QED BY <1>1, <2>1 DEF LogTells, Departed
  <1> HIDE DEF e, w
  <1>4. ASSUME NEW d \in Clients
        PROVE  /\ Joined(log, d, E \cup {n}) <=> Joined(log, d, E) \/ (e.kind = "joined" /\ w = d)
               /\ Left(log, d, E \cup {n}) <=> Left(log, d, E) \/ (e.kind = "left" /\ w = d)
    BY OneMoreEvent DEF e, w
  <1>5. /\ e.kind = "joined" => RosterAfter(peers, e) = peers \cup {w}
        /\ e.kind = "left" => RosterAfter(peers, e) = peers \ {w}
        /\ e.kind \notin {"joined", "left"} => RosterAfter(peers, e) = peers
    BY DEF RosterAfter, w
  <1> HIDE DEF RosterAfter
  <1>6. ASSUME NEW d \in Clients
        PROVE  /\ d \in RosterAfter(peers, e) => step[d] # "absent" /\ ~Left(log, d, E \cup {n})
               /\ d \notin RosterAfter(peers, e) =>
                     ~Joined(log, d, E \cup {n}) \/ step[d] \in Departed
    <2>1. /\ d \in peers => step[d] # "absent" /\ ~Left(log, d, E)
          /\ d \notin peers => ~Joined(log, d, E) \/ step[d] \in Departed
      BY DEF PeersAfter
    <2>2. CASE e.kind = "joined"
      BY <1>2, <1>4, <1>5, <2>1, <2>2
    <2>3. CASE e.kind = "left"
      BY <1>3, <1>4, <1>5, <2>1, <2>3
    <2>4. CASE e.kind \notin {"joined", "left"}
      BY <1>4, <1>5, <2>1, <2>4
    <2> QED BY <2>2, <2>3, <2>4
  <1> QED BY <1>6 DEF PeersAfter, e

\* Nothing is seen beyond a cursor whose next event fits, and a browser that has
\* seen nothing has room.
LEMMA NoHoleThatFits ==
    ASSUME IInv, NEW c \in Clients
    PROVE  /\ Fits(cursor[c] + 1) => seen[c] = {}
           /\ seen[c] = {} => ~IsFull(c)
           /\ IsFull(c) => ~Fits(cursor[c] + 1)
  <1>1. cursor[c] \in Nat /\ Latest \in Nat /\ Window(c)
    BY LatestType DEF IInv, TypeOK, ClientInv
  <1>2. ASSUME NEW m \in seen[c]
        PROVE  ~Fits(cursor[c] + 1)
    <2>1. cursor[c] + 1 \in cursor[c] + 1 .. m /\ cursor[c] + 1 \notin seen[c]
      BY <1>1, <1>2 DEF Window
    <2> QED BY <1>1, <1>2, <2>1 DEF Window
  <1>3. seen[c] = {} => ~IsFull(c)
    BY FS_EmptySet, RoomAssumption DEF IsFull
  <1> QED BY <1>2, <1>3

\* acceptSequence with an event that fits: the cursor moves to it if it is the
\* next, for then nothing is seen beyond, and otherwise stays.
LEMMA Rendering ==
    ASSUME IInv, NEW c \in Clients, NEW n \in 1 .. Latest, n > cursor[c], Fits(n),
           Renders(c, n)
    PROVE  /\ cursor' = [cursor EXCEPT ![c] = IF n = cursor[c] + 1 THEN n ELSE cursor[c]]
           /\ seen' = [seen EXCEPT ![c] = IF n = cursor[c] + 1 THEN {} ELSE seen[c] \cup {n}]
           /\ n = cursor[c] + 1 => seen[c] = {}
           /\ shown' = [shown EXCEPT ![c] = Append(shown[c], n)]
           /\ roster' = [roster EXCEPT ![c] = RosterAfter(roster[c], log[n])]
           /\ base' = base
  <1>1. /\ Latest \in Nat /\ cursor[c] \in Nat /\ n \in Nat /\ cursor[c] <= Latest
        /\ seen[c] \subseteq cursor[c] + 2 .. Latest
    BY LatestType DEF IInv, TypeOK, ClientInv, Window
  <1>2. n = cursor[c] + 1 => seen[c] = {}
    BY NoHoleThatFits
  <1> DEFINE s == seen[c] \cup {n}
             Top(m) == (cursor[c] + 1 .. m) \subseteq s /\ m + 1 \notin s
             top == CHOOSE m \in cursor[c] .. Latest : Top(m)
             next == IF n = cursor[c] + 1 THEN n ELSE cursor[c]
  <1>3. /\ cursor' = [cursor EXCEPT ![c] = top]
        /\ seen' = [seen EXCEPT ![c] = {m \in s : m > top}]
        /\ shown' = [shown EXCEPT ![c] = Append(shown[c], n)]
        /\ roster' = [roster EXCEPT ![c] = RosterAfter(roster[c], log[n])]
        /\ base' = base
    BY DEF Renders
  <1>4. cursor[c] + 1 \in s <=> n = cursor[c] + 1
    BY <1>1
  <1>5. top = next
    <2>1. next \in cursor[c] .. Latest /\ Top(next)
      <3>1. CASE n = cursor[c] + 1
        BY <1>1, <1>2, <3>1
      <3>2. CASE n # cursor[c] + 1
        BY <1>1, <1>4, <3>2
      <3> QED BY <3>1, <3>2
    <2>2. \A m \in cursor[c] .. Latest : Top(m) => m = next
      <3> SUFFICES ASSUME NEW m \in cursor[c] .. Latest, Top(m)
                   PROVE  m = next
        OBVIOUS
      <3>1. CASE n = cursor[c] + 1
        <4>1. m # cursor[c]
          BY <1>4, <3>1
        <4>2. m \in cursor[c] + 1 .. m
          BY <1>1, <4>1
        <4>3. m \in {n}
          BY <1>2, <3>1, <4>2
        <4> QED BY <3>1, <4>3
      <3>2. CASE n # cursor[c] + 1
        <4>1. m > cursor[c] => cursor[c] + 1 \in cursor[c] + 1 .. m
          BY <1>1
        <4> QED BY <1>1, <1>4, <3>2, <4>1
      <3> QED BY <3>1, <3>2
    <2> HIDE DEF Top, next
    <2> QED BY <2>1, <2>2
  <1> HIDE DEF top
  <1>6. {m \in s : m > top} = IF n = cursor[c] + 1 THEN {} ELSE seen[c] \cup {n}
    <2>1. CASE n = cursor[c] + 1
      BY <1>1, <1>2, <1>5, <2>1
    <2>2. CASE n # cursor[c] + 1
      BY <1>1, <1>5, <2>2
    <2> QED BY <2>1, <2>2
  <1> QED BY <1>2, <1>3, <1>5, <1>6

\* acceptDurable with an event that comes in order: it is the next; or it is
\* behind an event that was too long, and there is room for it; or the browser
\* does not wait for it.
LEMMA Accepted ==
    ASSUME IInv, NEW c \in Clients, NEW n \in 1 .. Latest, Fits(n),
           \A m \in seen[c] : m < n, \A m \in 1 .. n - 1 : Past(c, m),
           AcceptDurable(c, n), log' = log
    PROVE  /\ cursor' \in [Clients -> Nat] /\ seen' \in [Clients -> SUBSET Nat]
           /\ base' \in [Clients -> Nat] /\ shown' \in [Clients -> Seq(Nat)]
           /\ roster' \in [Clients -> SUBSET Clients]
           /\ \A d \in Clients : d # c =>
                 /\ cursor'[d] = cursor[d] /\ seen'[d] = seen[d] /\ shown'[d] = shown[d]
                 /\ roster'[d] = roster[d]
           /\ base' = base
           /\ cursor'[c] = IF n = cursor[c] + 1 THEN n ELSE cursor[c]
           /\ seen'[c] \subseteq seen[c] \cup {n}
           /\ n <= cursor[c] + 1 /\ seen[c] = {} => seen'[c] = {}
           /\ \A m \in 1 .. Latest : Past(c, m) \/ m = n => Past(c, m)'
           /\ Window(c)'
           /\ PeersAfter(log, step, roster[c], Known(c))
                 => PeersAfter(log, step, roster'[c], Known(c)')
  <1>1. /\ cursor \in [Clients -> Nat] /\ seen \in [Clients -> SUBSET Nat]
        /\ base \in [Clients -> Nat] /\ shown \in [Clients -> Seq(Nat)]
        /\ roster \in [Clients -> SUBSET Clients]
    BY DEF IInv, TypeOK
  <1>2. /\ Window(c) /\ Latest \in Nat /\ Latest' = Latest /\ n \in Nat /\ n <= Latest
        /\ cursor[c] \in Nat /\ base[c] \in Nat /\ shown[c] \in Seq(Nat)
        /\ seen[c] \subseteq cursor[c] + 2 .. Latest /\ base[c] <= cursor[c]
    BY <1>1, LatestType DEF IInv, ClientInv, Latest, Window
  <1>3. Admits(c, n) <=> n > cursor[c] /\ (n = cursor[c] + 1 \/ ~IsFull(c))
    <2>1. n \notin seen[c]
      BY <1>2
    <2>2. Cardinality(seen[c]) < MaxSeen <=> ~IsFull(c)
      <3>1. IsFiniteSet(cursor[c] + 2 .. Latest)
        BY <1>2, FS_Interval
      <3>2. Cardinality(seen[c]) \in Nat /\ MaxSeen \in Nat
        BY <1>2, <3>1, FS_Subset, FS_CardinalityType, RoomAssumption
      <3> QED BY <3>2 DEF IsFull
    <2> QED BY <2>1, <2>2 DEF Admits
  <1>4. CASE ~Admits(c, n)
    <2>1. UNCHANGED <<cursor, seen, base, shown, roster>>
      BY <1>4 DEF AcceptDurable, pageVars
    <2>2. Window(c)'
      BY <1>2, <2>1 DEF Window, Fits
    <2>3. \A m : Past(c, m)' <=> Past(c, m)
      BY <2>1 DEF Past, Fits, IsFull
    <2>4. Past(c, n) /\ n # cursor[c] + 1
      BY <1>2, <1>3, <1>4 DEF Past
    <2>5. Known(c)' = Known(c)
      BY <2>1 DEF Known
    <2> QED BY <1>1, <2>1, <2>2, <2>3, <2>4, <2>5
  <1>5. CASE Admits(c, n)
    <2>0. n > cursor[c] /\ (n = cursor[c] + 1 \/ ~IsFull(c))
      BY <1>3, <1>5
    <2>1. /\ cursor' = [cursor EXCEPT ![c] = IF n = cursor[c] + 1 THEN n ELSE cursor[c]]
          /\ seen' = [seen EXCEPT ![c] = IF n = cursor[c] + 1 THEN {} ELSE seen[c] \cup {n}]
          /\ n = cursor[c] + 1 => seen[c] = {}
          /\ shown' = [shown EXCEPT ![c] = Append(shown[c], n)]
          /\ roster' = [roster EXCEPT ![c] = RosterAfter(roster[c], log[n])]
          /\ base' = base
      BY <1>5, <2>0, Rendering DEF AcceptDurable
    <2>2. RosterAfter(roster[c], log[n]) \in SUBSET Clients
      <3>1. log[n].who \in Clients
        BY LatestType DEF IInv
      <3> QED BY <1>1, <3>1 DEF RosterAfter
    <2>3. /\ cursor'[c] = (IF n = cursor[c] + 1 THEN n ELSE cursor[c])
          /\ cursor' \in [Clients -> Nat]
      BY <1>1, <1>2, <2>1
    <2>4. /\ seen'[c] = (IF n = cursor[c] + 1 THEN {} ELSE seen[c] \cup {n})
          /\ seen' \in [Clients -> SUBSET Nat]
      <3>1. (IF n = cursor[c] + 1 THEN {} ELSE seen[c] \cup {n}) \in SUBSET Nat
        BY <1>1, <1>2
      <3> QED BY <1>1, <2>1, <3>1
    <2>5. roster'[c] = RosterAfter(roster[c], log[n]) /\ roster' \in [Clients -> SUBSET Clients]
      BY <1>1, <2>1, <2>2
    <2>6. /\ shown'[c] = Append(shown[c], n) /\ shown' \in [Clients -> Seq(Nat)]
          /\ ToSet(shown'[c]) = ToSet(shown[c]) \cup {n}
      <3>1. /\ Append(shown[c], n) \in Seq(Nat)
            /\ ToSet(Append(shown[c], n)) = ToSet(shown[c]) \cup {n}
        BY <1>2, ElementsGrow
      <3> QED BY <1>1, <2>1, <3>1
    <2>7. \A d \in Clients : d # c =>
              /\ cursor'[d] = cursor[d] /\ seen'[d] = seen[d] /\ shown'[d] = shown[d]
              /\ roster'[d] = roster[d]
      BY <1>1, <2>1
    <2>8. Window(c)'
      <3>1. \A m \in ToSet(shown[c]) : m < n
        BY <1>2, <2>0 DEF Window
      <3>2. Increasing(shown'[c])
        BY <1>2, <2>6, <3>1, IncreasingGrows DEF Window
      <3>3. ToSet(shown'[c]) = (base[c] + 1 .. cursor'[c]) \cup seen'[c]
        <4>1. ToSet(shown'[c]) = (base[c] + 1 .. cursor[c]) \cup seen[c] \cup {n}
          BY <1>2, <2>6 DEF Window
        <4>2. base[c] + 1 .. cursor[c] + 1 = (base[c] + 1 .. cursor[c]) \cup {cursor[c] + 1}
          BY <1>2
        <4> QED BY <2>1, <2>3, <2>4, <4>1, <4>2
      <3>4. /\ base[c] <= cursor'[c] /\ cursor'[c] <= Latest
            /\ seen'[c] \subseteq cursor'[c] + 2 .. Latest
        BY <1>2, <2>0, <2>3, <2>4
      <3>5. ASSUME NEW m \in seen'[c], NEW k \in cursor'[c] + 1 .. m
            PROVE  k \in seen'[c] \/ ~Fits(k)
        <4>1. /\ n # cursor[c] + 1 /\ seen'[c] = seen[c] \cup {n} /\ cursor'[c] = cursor[c]
              /\ ~IsFull(c)
          BY <2>0, <2>3, <2>4
        <4>2. CASE m \in seen[c]
          BY <1>2, <4>1, <4>2 DEF Window
        <4>3. CASE m = n
          <5>1. k \in 1 .. n - 1 \/ k = n
            BY <1>2, <4>1, <4>3
          <5>2. k > cursor[c]
            BY <1>2, <4>1, <4>3
          <5> QED BY <1>2, <4>1, <5>1, <5>2 DEF Past
        <4> QED BY <4>1, <4>2, <4>3
      <3> QED BY <1>2, <2>1, <3>2, <3>3, <3>4, <3>5 DEF Window, Fits
    <2>9. ASSUME NEW m \in 1 .. Latest, Past(c, m) \/ m = n
          PROVE  Past(c, m)'
      <3>1. IsFull(c) => n = cursor[c] + 1 /\ seen[c] # {}
        BY <2>0, NoHoleThatFits
      <3>2. ~IsFull(c)
        BY <2>1, <3>1
      <3>3. Fits(m)' <=> Fits(m)
        BY DEF Fits
      <3>4. CASE n = cursor[c] + 1
        BY <1>2, <2>1, <2>3, <2>9, <3>2, <3>3, <3>4 DEF Past
      <3>5. CASE n # cursor[c] + 1
        BY <1>2, <2>3, <2>4, <2>9, <3>2, <3>3, <3>5 DEF Past
      <3> QED BY <3>4, <3>5
    <2>10. Known(c)' = Known(c) \cup {n} /\ Known(c) \in SUBSET (1 .. n - 1)
      <3>1. 1 .. cursor[c] + 1 = (1 .. cursor[c]) \cup {cursor[c] + 1}
        BY <1>2
      <3>2. Known(c)' = Known(c) \cup {n}
        BY <2>1, <2>3, <2>4, <3>1 DEF Known
      <3> QED BY <1>2, <2>0, <3>2 DEF Known
    <2>11. PeersAfter(log, step, roster[c], Known(c))
             => PeersAfter(log, step, roster'[c], Known(c)')
      BY <2>5, <2>10, RosterFollows DEF IInv
    <2>12. /\ seen'[c] \subseteq seen[c] \cup {n}
           /\ n <= cursor[c] + 1 /\ seen[c] = {} => seen'[c] = {}
      BY <1>2, <2>0, <2>4
    <2> QED BY <1>1, <2>1, <2>3, <2>4, <2>5, <2>6, <2>7, <2>8, <2>9, <2>11, <2>12
  <1> QED BY <1>4, <1>5

-----------------------------------------------------------------------------
(* The drain *)

\* A step of the drain of one client, or of its browser.
LEMMA OneClientSteps ==
    ASSUME IInv, NEW c \in Clients,
           UNCHANGED <<log, members, pubStep, pubTodo, pubTarget, pubGeneration, step, bound,
                       generation, invalid>>,
           TypeOK', \A d \in Clients : d # c => Kept(d), ClientInv(c)'
    PROVE  IInv'
  <1>1. \A d \in Clients : generation[d] <= generation'[d] /\ generation'[d] \in Nat
    BY DEF IInv, TypeOK
  <1>2. Forward /\ Publication' /\ LogTells'
    BY <1>1, QuietSteps
  <1>3. ASSUME NEW d \in Clients, d # c
        PROVE  ClientInv(d)'
    <2>1. Due(d)' = Due(d)
      BY DueKept
    <2> QED BY <1>2, <1>3, <2>1, KeptClient
  <1> QED BY <1>2, <1>3 DEF IInv

\* The frame at the front of the queue leaves it.
LEMMA FrameTaken ==
    ASSUME IInv, NEW c \in Clients, queue[c] # <<>>, TakeOutboundFrame(c)
    PROVE  /\ queue' \in [Clients -> Seq([gen : Nat, seq : Nat])]
           /\ \A d \in Clients : Len(queue'[d]) <= MaxFrames
           /\ \A d \in Clients : d # c => queue'[d] = queue[d]
           /\ \A i \in DOMAIN queue'[c] : queue'[c][i].gen <= generation[c]
           /\ Answered(queue'[c], generation[c]) => Answered(queue[c], generation[c])
           /\ Head(queue[c]).gen \in Nat /\ Head(queue[c]).seq \in Nat
           /\ LET h == Head(queue[c])
                  g == generation[c]
              IN  /\ h.gen = g /\ h.seq = Ready => Answered(queue[c], g)
                  /\ h.gen # g \/ h.seq = Ready => Events(queue'[c], g) = Events(queue[c], g)
                  /\ h.gen = g /\ h.seq # Ready =>
                        /\ Events(queue[c], g) = {h.seq} \cup Events(queue'[c], g)
                        /\ Sorted(queue[c], g) => \A n \in Events(queue'[c], g) : h.seq < n
                  /\ Sorted(queue[c], g) => Sorted(queue'[c], g)
  <1> DEFINE q == queue[c]
             g == generation[c]
  <1>1. /\ queue \in [Clients -> Seq(Frames)] /\ q \in Seq(Frames) /\ g \in Nat
        /\ \A d \in Clients : Len(queue[d]) <= MaxFrames
        /\ \A i \in DOMAIN q : q[i].gen <= g
        /\ MaxFrames \in Nat /\ Len(q) \in Nat
    <2>1. \A i \in DOMAIN q : q[i].gen <= g
      BY DEF IInv, ClientInv, Staged
    <2>2. queue \in [Clients -> Seq(Frames)] /\ g \in Nat
          /\ \A d \in Clients : Len(queue[d]) <= MaxFrames
      BY DEF IInv, TypeOK, Frames
    <2>3. q \in Seq(Frames)
      BY <2>2
    <2>4. Len(q) \in Nat
      BY <2>3
    <2> QED BY <2>1, <2>2, <2>3, <2>4, RoomAssumption
  <1>2. queue' = [queue EXCEPT ![c] = Tail(q)]
    BY DEF TakeOutboundFrame
  <1>3. /\ Head(q) \in Frames /\ Tail(q) \in Seq(Frames) /\ Len(Tail(q)) = Len(q) - 1
        /\ Events(q, g) = (IF Head(q).gen = g /\ Head(q).seq # Ready
                           THEN {Head(q).seq} ELSE {}) \cup Events(Tail(q), g)
        /\ Sorted(q, g) => Sorted(Tail(q), g)
        /\ Sorted(q, g) /\ Head(q).gen = g /\ Head(q).seq # Ready
              => \A n \in Events(Tail(q), g) : Head(q).seq < n
        /\ \A i \in DOMAIN Tail(q) : Tail(q)[i].gen <= g
        /\ Answered(Tail(q), g) => Answered(q, g)
        /\ Head(q).gen = g /\ Head(q).seq = Ready => Answered(q, g)
    BY <1>1, EventsShrink
  <1> DEFINE r == Tail(q)
             h == Head(q)
  <1>4. queue' = [queue EXCEPT ![c] = r]
    BY <1>2
  <1> HIDE DEF q, r, g, h
  <1>5. queue' \in [Clients -> Seq(Frames)] /\ queue'[c] = r
        /\ \A d \in Clients : d # c => queue'[d] = queue[d]
    BY <1>1, <1>3, <1>4 DEF r
  <1>6. Len(r) <= MaxFrames
    <2>1. Len(q) <= MaxFrames
      BY <1>1 DEF q
    <2> QED BY <1>1, <1>3, <2>1 DEF r
  <1>7. \A d \in Clients : Len(queue'[d]) <= MaxFrames
    BY <1>1, <1>5, <1>6
  <1>8. h.gen \in Nat /\ h.seq \in Nat
    BY <1>3 DEF Frames, h
  <1>9. /\ h.gen # g \/ h.seq = Ready => Events(r, g) = Events(q, g)
        /\ h.gen = g /\ h.seq # Ready => Events(q, g) = {h.seq} \cup Events(r, g)
    BY <1>3 DEF r, h
  <1>10. /\ Sorted(q, g) => Sorted(r, g)
         /\ Sorted(q, g) /\ h.gen = g /\ h.seq # Ready => \A n \in Events(r, g) : h.seq < n
         /\ \A i \in DOMAIN r : r[i].gen <= g
         /\ Answered(r, g) => Answered(q, g)
         /\ h.gen = g /\ h.seq = Ready => Answered(q, g)
    BY <1>3 DEF r, h
  <1>11. queue' \in [Clients -> Seq([gen : Nat, seq : Nat])]
    BY <1>5 DEF Frames
  <1> QED BY <1>5, <1>7, <1>8, <1>9, <1>10, <1>11 DEF q, g, h

\* A frame of an earlier transport, or of one that was given up.
LEMMA DropFrameInvariant ==
    ASSUME IInv, NEW c \in Clients, DropFrame(c)
    PROVE  IInv'
  <1>0. /\ UNCHANGED <<log, members, pubStep, pubTodo, pubTarget, pubGeneration, step, bound,
                       generation, invalid, snapPeers, snapLatest, snapResync, snapFrom, snapTo,
                       snapAt, mode, holders, inbox, cursor, seen, base, shown, roster, whole>>
        /\ queue[c] # <<>> /\ TakeOutboundFrame(c)
        /\ c \notin bound \/ c \in invalid \/ Head(queue[c]).gen # generation[c]
    BY DEF DropFrame, IsCurrentBinding, pubVars, peerVars, snapVars, browserVars, pageVars
  <1>1. /\ queue' \in [Clients -> Seq([gen : Nat, seq : Nat])]
        /\ \A d \in Clients : Len(queue'[d]) <= MaxFrames
        /\ \A d \in Clients : d # c => queue'[d] = queue[d]
        /\ \A i \in DOMAIN queue'[c] : queue'[c][i].gen <= generation[c]
        /\ Answered(queue'[c], generation[c]) => Answered(queue[c], generation[c])
        /\ Head(queue[c]).gen # generation[c] =>
              /\ Events(queue'[c], generation[c]) = Events(queue[c], generation[c])
              /\ Sorted(queue[c], generation[c]) => Sorted(queue'[c], generation[c])
    BY <1>0, FrameTaken
  <1>2. TypeOK'
    BY <1>0, <1>1 DEF IInv, TypeOK
  <1>3. \A d \in Clients : d # c => Kept(d)
    BY <1>0, <1>1 DEF Kept
  <1>4. ClientInv(c)'
    <2>1. ClientInv(c) /\ Due(c)' = Due(c) /\ Latest' = Latest
      BY <1>0, DueKept DEF IInv, Latest
    <2>2. Staged(c)'
      BY <1>0, <1>1, <2>1 DEF ClientInv, Staged
    <2>3. Window(c)' /\ Snapshot(c)' /\ Rostered(c)'
      BY <1>0, <2>1 DEF ClientInv, Window, Snapshot, Rostered, Fits, Known
    <2>4. c \in bound \ invalid => /\ Stream(c)' = Stream(c)
                                   /\ Events(queue'[c], generation[c]) =
                                         Events(queue[c], generation[c])
      BY <1>0, <1>1 DEF Stream
    <2>5. Streamed(c)'
      BY <1>0, <1>1, <2>1, <2>4 DEF ClientInv, Streamed
    <2>6. Complete(c)'
      BY <1>0, <2>1, <2>4 DEF ClientInv, Complete, Fits, Past, IsFull
    <2>7. Inboxed(c)'
      BY <1>0, <2>1, LatestType, InboxKept DEF IInv
    <2> QED BY <2>2, <2>3, <2>5, <2>6, <2>7 DEF ClientInv
  <1> QED BY <1>0, <1>2, <1>3, <1>4, OneClientSteps

\* A frame that is too long is lost: a SESSION_READY, or an event that nothing in
\* the invariant promises.
LEMMA DiscardFrameInvariant ==
    ASSUME IInv, NEW c \in Clients, DiscardFrame(c)
    PROVE  IInv'
  <1>0. /\ UNCHANGED <<log, members, pubStep, pubTodo, pubTarget, pubGeneration, step, bound,
                       generation, invalid, snapPeers, snapLatest, snapResync, snapFrom, snapTo,
                       snapAt, mode, holders, inbox, cursor, seen, base, shown, roster, whole>>
        /\ queue[c] # <<>> /\ TakeOutboundFrame(c) /\ Head(queue[c]).gen = generation[c]
        /\ Head(queue[c]).seq # Ready => ~Fits(Head(queue[c]).seq)
    BY DEF DiscardFrame, FrameFits, Arrives, IsCurrentBinding, pubVars, peerVars, snapVars,
           browserVars, pageVars
  <1>1. /\ queue' \in [Clients -> Seq([gen : Nat, seq : Nat])]
        /\ \A d \in Clients : Len(queue'[d]) <= MaxFrames
        /\ \A d \in Clients : d # c => queue'[d] = queue[d]
        /\ \A i \in DOMAIN queue'[c] : queue'[c][i].gen <= generation[c]
        /\ Answered(queue'[c], generation[c]) => Answered(queue[c], generation[c])
        /\ Sorted(queue[c], generation[c]) => Sorted(queue'[c], generation[c])
        /\ Events(queue'[c], generation[c]) \subseteq Events(queue[c], generation[c])
        /\ \A n \in Events(queue[c], generation[c]) :
              n \in Events(queue'[c], generation[c]) \/ ~Fits(n)
    BY <1>0, FrameTaken
  <1>2. TypeOK'
    BY <1>0, <1>1 DEF IInv, TypeOK
  <1>3. \A d \in Clients : d # c => Kept(d)
    BY <1>0, <1>1 DEF Kept
  <1>4. ClientInv(c)'
    <2>1. ClientInv(c) /\ Due(c)' = Due(c) /\ Latest' = Latest
      BY <1>0, DueKept DEF IInv, Latest
    <2>2. Staged(c)'
      BY <1>0, <1>1, <2>1 DEF ClientInv, Staged
    <2>3. Window(c)' /\ Snapshot(c)' /\ Rostered(c)'
      BY <1>0, <2>1 DEF ClientInv, Window, Snapshot, Rostered, Fits, Known
    <2>4. /\ Stream(c)' \subseteq Stream(c)
          /\ \A n \in Stream(c) : n \in Stream(c)' \/ ~Fits(n)
      BY <1>0, <1>1 DEF Stream
    <2>5. Streamed(c)'
      BY <1>0, <1>1, <2>1, <2>4 DEF ClientInv, Streamed
    <2>6. Complete(c)'
      <3>1. \A n : (Fits(n)' <=> Fits(n)) /\ (Past(c, n)' <=> Past(c, n))
        BY <1>0 DEF Fits, Past, IsFull
      <3>2. \A n : ~Fits(n) => Past(c, n)
        BY DEF Past
      <3> QED BY <1>0, <2>1, <2>4, <3>1, <3>2 DEF ClientInv, Complete
    <2>7. Inboxed(c)'
      BY <1>0, <2>1, LatestType, InboxKept DEF IInv
    <2> QED BY <2>2, <2>3, <2>5, <2>6, <2>7 DEF ClientInv
  <1> QED BY <1>0, <1>2, <1>3, <1>4, OneClientSteps

\* An event arrives.  While the browser is handshaking it moves from the queue
\* to the end of the inbox, and once it is online it comes after all it has seen.
LEMMA DeliverEventInvariant ==
    ASSUME IInv, NEW c \in Clients, DeliverEvent(c)
    PROVE  IInv'
  <1>0. /\ UNCHANGED <<log, members, pubStep, pubTodo, pubTarget, pubGeneration, step, bound,
                       generation, invalid, snapPeers, snapLatest, snapResync, snapFrom, snapTo,
                       snapAt, mode, holders, whole>>
        /\ queue[c] # <<>> /\ TakeOutboundFrame(c) /\ Head(queue[c]).seq # Ready
        /\ Head(queue[c]).gen = generation[c] /\ c \in bound /\ c \notin invalid
        /\ Fits(Head(queue[c]).seq)
    BY DEF DeliverEvent, FrameFits, Arrives, IsCurrentBinding, pubVars, peerVars, snapVars
  <1>1. PICK n \in Nat :
        /\ Fits(n)
        /\ queue' \in [Clients -> Seq([gen : Nat, seq : Nat])]
        /\ \A d \in Clients : Len(queue'[d]) <= MaxFrames
        /\ \A d \in Clients : d # c => queue'[d] = queue[d]
        /\ \A i \in DOMAIN queue'[c] : queue'[c][i].gen <= generation[c]
        /\ Answered(queue'[c], generation[c]) => Answered(queue[c], generation[c])
        /\ Events(queue[c], generation[c]) = {n} \cup Events(queue'[c], generation[c])
        /\ Sorted(queue[c], generation[c]) =>
              \A m \in Events(queue'[c], generation[c]) : n < m
        /\ Sorted(queue[c], generation[c]) => Sorted(queue'[c], generation[c])
        /\ \/ /\ mode[c] = "handshaking" /\ inbox' = [inbox EXCEPT ![c] = Append(@, n)]
              /\ UNCHANGED <<cursor, seen, base, shown, roster>>
           \/ mode[c] = "online" /\ AcceptDurable(c, n) /\ inbox' = inbox
    <2> DEFINE n == Head(queue[c]).seq
    <2>1. /\ n \in Nat
          /\ queue' \in [Clients -> Seq([gen : Nat, seq : Nat])]
          /\ \A d \in Clients : Len(queue'[d]) <= MaxFrames
          /\ \A d \in Clients : d # c => queue'[d] = queue[d]
          /\ \A i \in DOMAIN queue'[c] : queue'[c][i].gen <= generation[c]
          /\ Answered(queue'[c], generation[c]) => Answered(queue[c], generation[c])
          /\ Events(queue[c], generation[c]) = {n} \cup Events(queue'[c], generation[c])
          /\ Sorted(queue[c], generation[c]) =>
                \A m \in Events(queue'[c], generation[c]) : n < m
          /\ Sorted(queue[c], generation[c]) => Sorted(queue'[c], generation[c])
      BY <1>0, FrameTaken
    <2>2. \/ /\ mode[c] = "handshaking" /\ inbox' = [inbox EXCEPT ![c] = Append(@, n)]
             /\ UNCHANGED <<cursor, seen, base, shown, roster>>
          \/ mode[c] = "online" /\ AcceptDurable(c, n) /\ inbox' = inbox
      BY DEF DeliverEvent, pageVars
    <2>3. Fits(n)
      BY <1>0
    <2> HIDE DEF n
    <2> QED BY <2>1, <2>2, <2>3
  <1>2. /\ ClientInv(c) /\ Due(c)' = Due(c) /\ Latest' = Latest /\ Latest \in Nat
        /\ Due(c) \in Int /\ Due(c) <= Latest
    BY <1>0, DueKept, LatestType DEF IInv, Latest, Due
  <1>3. /\ inbox \in [Clients -> Seq(Nat)] /\ inbox[c] \in Seq(Nat) /\ cursor[c] \in Nat
        /\ snapLatest[c] \in Nat
    BY DEF IInv, TypeOK
  <1> DEFINE E == Events(queue'[c], generation[c])
             B == ToSet(inbox[c])
             D == Due(c)
  <1>4. /\ Stream(c) = B \cup {n} \cup E /\ Stream(c) \subseteq 1 .. D
        /\ \A m \in B : m < n /\ \A k \in E : m < k
        /\ \A k \in E : n < k
        /\ n \in 1 .. D /\ n \in 1 .. Latest /\ B \subseteq 1 .. Latest
        /\ Sorted(queue'[c], generation[c])
    <2>1. /\ Stream(c) \subseteq 1 .. D /\ Sorted(queue[c], generation[c])
          /\ \A m \in B : \A k \in Events(queue[c], generation[c]) : m < k
      BY <1>0, <1>2 DEF ClientInv, Streamed
    <2>2. Stream(c) = B \cup {n} \cup E
      BY <1>1 DEF Stream
    <2>3. n \in 1 .. D
      BY <2>1, <2>2
    <2>4. n \in 1 .. Latest
      BY <1>2, <2>3
    <2>5. B \subseteq 1 .. Latest
      BY <1>2 DEF ClientInv, Inboxed, Fits, Past, IsFull
    <2> QED BY <1>1, <2>1, <2>2, <2>3, <2>4, <2>5
  <1>5. CASE mode[c] = "handshaking"
    <2>0. /\ inbox' = [inbox EXCEPT ![c] = Append(inbox[c], n)]
          /\ UNCHANGED <<cursor, seen, base, shown, roster>>
      BY <1>1, <1>5
    <2>1. Append(inbox[c], n) \in Seq(Nat) /\ ToSet(Append(inbox[c], n)) = B \cup {n}
      BY <1>3, ElementsGrow
    <2>2. Increasing(Append(inbox[c], n))
      <3>1. Increasing(inbox[c]) /\ \A m \in ToSet(inbox[c]) : m < n
        BY <1>2, <1>4 DEF ClientInv, Inboxed, Fits, Past, IsFull
      <3> QED BY <1>3, <3>1, IncreasingGrows
    <2>3. /\ inbox' \in [Clients -> Seq(Nat)] /\ inbox'[c] = Append(inbox[c], n)
          /\ \A d \in Clients : d # c => inbox'[d] = inbox[d]
      BY <1>3, <2>0, <2>1
    <2>4. TypeOK'
      BY <1>0, <1>1, <2>0, <2>3 DEF IInv, TypeOK
    <2>5. \A d \in Clients : d # c => Kept(d)
      BY <1>0, <1>1, <2>0, <2>3 DEF Kept
    <2>6. ToSet(inbox'[c]) = B \cup {n} /\ Increasing(inbox'[c])
      BY <2>1, <2>2, <2>3
    <2>7. Stream(c)' = Stream(c)
      BY <1>0, <1>4, <2>6 DEF Stream
    <2>8. Staged(c)'
      BY <1>0, <1>1, <1>2, <1>5 DEF ClientInv, Staged
    <2>9. Streamed(c)'
      BY <1>0, <1>2, <1>4, <1>5, <2>6, <2>7 DEF Streamed
    <2>10. Complete(c)'
      BY <1>0, <1>2, <1>5, <2>0, <2>7 DEF ClientInv, Complete, Fits
    <2>11. Inboxed(c)'
      <3>1. B \cup {n} \subseteq 1 .. Latest /\ \A m \in B \cup {n} : Fits(m)
        BY <1>1, <1>2, <1>4 DEF ClientInv, Inboxed
      <3>2. ASSUME step[c] \in {"history", "send", "open", "command"},
                   NEW m \in B \cup {n}, NEW k \in snapLatest[c] + 1 .. m
            PROVE  k \in B \cup {n} \/ ~Fits(k)
        <4>1. CASE m \in B
          BY <1>2, <1>5, <3>2, <4>1 DEF ClientInv, Inboxed
        <4>2. CASE m = n
          <5>1. k \in Stream(c) \/ ~Fits(k)
            <6>1. \A x \in snapLatest[c] + 1 .. D : x \in Stream(c) \/ ~Fits(x)
              BY <1>0, <1>2, <1>5, <3>2 DEF ClientInv, Complete
            <6>2. k \in snapLatest[c] + 1 .. D
              BY <1>2, <1>3, <1>4, <4>2
            <6> QED BY <6>1, <6>2
          <5>2. k \notin E
            BY <1>3, <1>4, <4>2
          <5> QED BY <1>4, <5>1, <5>2
        <4> QED BY <4>1, <4>2
      <3>3. \A k : Fits(k)' <=> Fits(k)
        BY <1>0 DEF Fits
      <3> QED BY <1>0, <1>2, <1>5, <2>6, <3>1, <3>2, <3>3 DEF Inboxed
    <2>12. Window(c)' /\ Snapshot(c)' /\ Rostered(c)'
      BY <1>0, <1>2, <2>0 DEF ClientInv, Window, Snapshot, Rostered, Fits, Known
    <2>13. ClientInv(c)'
      BY <2>8, <2>9, <2>10, <2>11, <2>12 DEF ClientInv
    <2> QED BY <1>0, <2>4, <2>5, <2>13, OneClientSteps
  <1>6. CASE mode[c] = "online"
    <2>0. AcceptDurable(c, n) /\ inbox' = inbox /\ inbox[c] = <<>>
      BY <1>1, <1>2, <1>6 DEF ClientInv, Staged
    <2>1. B = {}
      BY <2>0, ElementsOfShort
    <2>2. /\ \A m \in 1 .. D : m \in Stream(c) \/ Past(c, m)
          /\ seen[c] \subseteq 1 .. D /\ \A m \in seen[c] : \A k \in Stream(c) : m < k
      BY <1>0, <1>2, <1>6 DEF ClientInv, Complete, Streamed
    <2>3. /\ \A m \in seen[c] : m < n
          /\ \A m \in 1 .. n - 1 : Past(c, m)
      <3>1. \A m \in seen[c] : m < n
        BY <1>4, <2>2
      <3>2. ASSUME NEW m \in 1 .. n - 1
            PROVE  Past(c, m)
        <4>1. m \in 1 .. D /\ m # n /\ m \notin E
          BY <1>2, <1>4
        <4> QED BY <1>4, <2>1, <2>2, <4>1
      <3> QED BY <3>1, <3>2
    <2>4. /\ cursor' \in [Clients -> Nat] /\ seen' \in [Clients -> SUBSET Nat]
          /\ base' \in [Clients -> Nat] /\ shown' \in [Clients -> Seq(Nat)]
          /\ roster' \in [Clients -> SUBSET Clients]
          /\ \A d \in Clients : d # c =>
                /\ cursor'[d] = cursor[d] /\ seen'[d] = seen[d] /\ shown'[d] = shown[d]
                /\ roster'[d] = roster[d]
          /\ base' = base
          /\ seen'[c] \subseteq seen[c] \cup {n}
          /\ \A m \in 1 .. Latest : Past(c, m) \/ m = n => Past(c, m)'
          /\ Window(c)'
          /\ PeersAfter(log, step, roster[c], Known(c))
                => PeersAfter(log, step, roster'[c], Known(c)')
      BY <1>0, <1>1, <1>4, <2>0, <2>3, Accepted
    <2>5. TypeOK'
      BY <1>0, <1>1, <2>0, <2>4 DEF IInv, TypeOK
    <2>6. \A d \in Clients : d # c => Kept(d)
      BY <1>0, <1>1, <2>0, <2>4 DEF Kept
    <2>7. Stream(c)' = E
      BY <1>0, <2>0, <2>1 DEF Stream
    <2>8. Staged(c)'
      BY <1>0, <1>1, <1>2, <2>0 DEF ClientInv, Staged
    <2>9. Streamed(c)'
      <3>1. E \subseteq 1 .. D /\ ToSet(inbox[c]) = {}
        BY <1>4, <2>1
      <3>2. seen'[c] \subseteq 1 .. D /\ \A m \in seen'[c] : \A k \in E : m < k
        BY <1>4, <2>2, <2>4
      <3> QED BY <1>0, <1>2, <1>4, <2>0, <2>7, <3>1, <3>2 DEF Streamed
    <2>10. Complete(c)'
      <3> SUFFICES ASSUME NEW k \in 1 .. D
                   PROVE  k \in E \/ Past(c, k)'
        BY <1>0, <1>2, <1>6, <2>7 DEF Complete
      <3>1. k \in 1 .. Latest
        BY <1>2
      <3>2. k \in E \/ k = n \/ Past(c, k)
        BY <1>4, <2>1, <2>2
      <3> QED BY <2>4, <3>1, <3>2
    <2>11. Inboxed(c)'
      BY <2>0, InboxEmpty
    <2>12. Snapshot(c)'
      BY <1>0, <1>6 DEF Snapshot, Fits
    <2>13. Rostered(c)'
      BY <1>0, <1>2, <1>6, <2>4 DEF ClientInv, Rostered
    <2>14. ClientInv(c)'
      BY <2>4, <2>8, <2>9, <2>10, <2>11, <2>12, <2>13 DEF ClientInv
    <2> QED BY <1>0, <2>5, <2>6, <2>14, OneClientSteps
  <1> QED BY <1>1, <1>5, <1>6
\* SESSION_READY arrives: its peers are the roster, and its history continues
\* the window or starts a new one.
LEMMA DeliverReadyInvariant ==
    ASSUME IInv, NEW c \in Clients, DeliverReady(c)
    PROVE  IInv'
  <1>0. /\ UNCHANGED <<log, members, pubStep, pubTodo, pubTarget, pubGeneration, step, bound,
                       generation, invalid, snapPeers, snapLatest, snapResync, snapFrom, snapTo,
                       snapAt, holders, inbox>>
        /\ queue[c] # <<>> /\ TakeOutboundFrame(c) /\ Head(queue[c]).seq = Ready
        /\ Head(queue[c]).gen = generation[c] /\ c \in bound /\ c \notin invalid
        /\ mode[c] = "handshaking" /\ mode' = [mode EXCEPT ![c] = "hydrating"]
        /\ roster' = [roster EXCEPT ![c] = snapPeers[c]]
        /\ \/ /\ Replaces(c)
              /\ seen' = [seen EXCEPT ![c] = {}]
              /\ cursor' = [cursor EXCEPT ![c] = Baseline(c)]
              /\ base' = [base EXCEPT ![c] = Baseline(c)]
              /\ shown' = [shown EXCEPT ![c] = <<>>]
              /\ whole' = IF Baseline(c) <= snapAt[c] THEN whole \cup {c} ELSE whole \ {c}
           \/ /\ ~Replaces(c) /\ whole' = whole \cup {c}
              /\ UNCHANGED <<seen, cursor, base, shown>>
        /\ \A n \in snapFrom[c] .. snapTo[c] : Fits(n)
    BY DEF DeliverReady, FrameFits, SnapshotFits, Arrives, IsCurrentBinding, pubVars, peerVars,
           snapVars
  <1>1. /\ queue' \in [Clients -> Seq([gen : Nat, seq : Nat])]
        /\ \A d \in Clients : Len(queue'[d]) <= MaxFrames
        /\ \A d \in Clients : d # c => queue'[d] = queue[d]
        /\ \A i \in DOMAIN queue'[c] : queue'[c][i].gen <= generation[c]
        /\ Answered(queue'[c], generation[c]) => Answered(queue[c], generation[c])
        /\ Answered(queue[c], generation[c])
        /\ Events(queue'[c], generation[c]) = Events(queue[c], generation[c])
        /\ Sorted(queue[c], generation[c]) => Sorted(queue'[c], generation[c])
    BY <1>0, FrameTaken
  <1>2. /\ ClientInv(c) /\ Due(c)' = Due(c) /\ Latest' = Latest /\ Latest \in Nat
        /\ step[c] \in {"open", "command"}
    <2>1. ClientInv(c) /\ Due(c)' = Due(c) /\ Latest' = Latest /\ Latest \in Nat
      BY <1>0, DueKept, LatestType DEF IInv, Latest
    <2> QED BY <1>0, <1>1, <2>1 DEF ClientInv, Staged
  <1>3. /\ cursor \in [Clients -> Nat] /\ seen \in [Clients -> SUBSET Nat]
        /\ base \in [Clients -> Nat] /\ shown \in [Clients -> Seq(Nat)]
        /\ roster \in [Clients -> SUBSET Clients] /\ snapPeers[c] \in SUBSET Clients
        /\ mode \in [Clients -> Modes] /\ whole \subseteq Clients
        /\ snapFrom[c] \in Nat /\ snapTo[c] \in Nat /\ snapLatest[c] \in Nat /\ snapAt[c] \in Nat
        /\ cursor[c] \in Nat
    BY DEF IInv, TypeOK
  <1>4. /\ cursor[c] <= snapLatest[c] /\ snapLatest[c] <= Latest
        /\ snapLatest[c] <= snapTo[c] /\ snapTo[c] <= Latest /\ snapFrom[c] > 0
        /\ snapFrom[c] <= snapTo[c] =>
              cursor[c] < snapFrom[c] /\ (c \notin snapResync => snapFrom[c] = cursor[c] + 1)
        /\ snapFrom[c] > snapTo[c] /\ c \notin snapResync => cursor[c] >= snapTo[c]
        /\ seen[c] # {} => cursor[c] < snapTo[c]
    BY <1>0, <1>2 DEF ClientInv, Snapshot
  <1>5. Baseline(c) \in Nat /\ cursor[c] <= Baseline(c) /\ Baseline(c) <= Latest
    BY <1>2, <1>3, <1>4 DEF Baseline
  <1>6. /\ mode' \in [Clients -> Modes] /\ mode'[c] = "hydrating"
        /\ roster' \in [Clients -> SUBSET Clients] /\ roster'[c] = snapPeers[c]
        /\ \A d \in Clients : d # c => mode'[d] = mode[d] /\ roster'[d] = roster[d]
    BY <1>0, <1>3 DEF Modes
  <1>7. /\ cursor' \in [Clients -> Nat] /\ seen' \in [Clients -> SUBSET Nat]
        /\ base' \in [Clients -> Nat] /\ shown' \in [Clients -> Seq(Nat)]
        /\ whole' \subseteq Clients
        /\ \A d \in Clients : d # c =>
              /\ cursor'[d] = cursor[d] /\ seen'[d] = seen[d] /\ shown'[d] = shown[d]
              /\ base'[d] = base[d] /\ (d \in whole' <=> d \in whole)
    <2>1. CASE Replaces(c)
      <3>1. <<>> \in Seq(Nat)
        OBVIOUS
      <3>2. shown' = [shown EXCEPT ![c] = <<>>] /\ seen' = [seen EXCEPT ![c] = {}]
        BY <1>0, <2>1
      <3>3. /\ shown' \in [Clients -> Seq(Nat)] /\ seen' \in [Clients -> SUBSET Nat]
            /\ \A d \in Clients : d # c => seen'[d] = seen[d] /\ shown'[d] = shown[d]
        BY <1>3, <3>1, <3>2
      <3>4. /\ cursor' = [cursor EXCEPT ![c] = Baseline(c)]
            /\ base' = [base EXCEPT ![c] = Baseline(c)]
        BY <1>0, <2>1
      <3>5. /\ cursor' \in [Clients -> Nat] /\ base' \in [Clients -> Nat]
            /\ \A d \in Clients : d # c => cursor'[d] = cursor[d] /\ base'[d] = base[d]
        BY <1>3, <1>5, <3>4
      <3>6. /\ whole' \subseteq Clients
            /\ \A d \in Clients : d # c => (d \in whole' <=> d \in whole)
        BY <1>0, <1>3, <2>1
      <3> QED BY <3>3, <3>5, <3>6
    <2>2. CASE ~Replaces(c)
      BY <1>0, <1>3, <2>2
    <2> QED BY <2>1, <2>2
  <1>8. /\ cursor'[c] = IF Replaces(c) THEN Baseline(c) ELSE cursor[c]
        /\ c \in whole' => cursor'[c] <= snapAt[c]
    <2>1. cursor[c] <= snapAt[c]
      BY <1>0, <1>2 DEF ClientInv, Rostered, Known
    <2> QED BY <1>0, <1>3, <2>1
  <1>20. seen'[c] = {}
    <2>1. CASE Replaces(c)
      BY <1>0, <1>3, <2>1
    <2>2. CASE ~Replaces(c)
      <3>1. seen[c] # {} => snapFrom[c] = cursor[c] + 1 /\ snapFrom[c] <= snapTo[c]
        BY <1>3, <1>4, <2>2 DEF Replaces
      <3>2. seen[c] # {} => Fits(cursor[c] + 1)
        BY <1>0, <1>3, <3>1
      <3> QED BY <1>0, <2>2, <3>2, NoHoleThatFits
    <2> QED BY <2>1, <2>2
  <1>9. TypeOK'
    BY <1>0, <1>1, <1>6, <1>7 DEF IInv, TypeOK
  <1>10. \A d \in Clients : d # c => Kept(d)
    BY <1>0, <1>1, <1>6, <1>7 DEF Kept
  <1>11. Stream(c)' = Stream(c)
    BY <1>0, <1>1 DEF Stream
  <1>12. Staged(c)'
    BY <1>0, <1>1, <1>2, <1>6 DEF ClientInv, Staged
  <1>13. Streamed(c)'
    BY <1>0, <1>1, <1>2, <1>11 DEF ClientInv, Streamed
  <1>14. Complete(c)'
    BY <1>0, <1>2, <1>6, <1>11 DEF ClientInv, Complete, Fits, Past, IsFull
  <1>15. Inboxed(c)'
    BY <1>0, <1>2, <1>6 DEF ClientInv, Inboxed, Fits, Past, IsFull
  <1>16. Window(c)'
    <2>1. CASE Replaces(c)
      <3>1. seen'[c] = {} /\ cursor'[c] = Baseline(c) /\ base'[c] = Baseline(c) /\ shown'[c] = <<>>
        BY <1>0, <1>3, <2>1
      <3> QED BY <1>2, <1>5, <3>1, EmptyWindow
    <2>2. CASE ~Replaces(c)
      BY <1>0, <1>2, <2>2 DEF ClientInv, Window, Fits
    <2> QED BY <2>1, <2>2
  <1>17. Snapshot(c)'
    <2>1. /\ snapFrom[c] <= snapTo[c] => snapFrom[c] <= cursor'[c] + 1
          /\ snapFrom[c] > snapTo[c] => cursor'[c] >= snapLatest[c]
      <3>1. CASE Replaces(c)
        BY <1>3, <1>8, <3>1 DEF Baseline
      <3>2. CASE ~Replaces(c)
        BY <1>3, <1>4, <1>8, <3>2 DEF Replaces
      <3> QED BY <3>1, <3>2
    <2> QED BY <1>0, <1>2, <1>4, <1>6, <1>20, <2>1 DEF Snapshot, Fits
  <1>18. Rostered(c)'
    <2>1. PeersAfter(log, step, snapPeers[c], 1 .. snapAt[c])
      BY <1>0, <1>2 DEF ClientInv, Rostered, Known
    <2>2. cursor'[c] \in Nat
      BY <1>7
    <2>3. c \in whole' => Known(c)' \in SUBSET (1 .. snapAt[c])
      BY <1>3, <1>8, <1>20, <2>2 DEF Known
    <2>4. c \in whole' => PeersAfter(log, step, snapPeers[c], Known(c)')
      BY <2>1, <2>3, PeersEarlier
    <2> QED BY <1>0, <1>6, <2>4 DEF Rostered
  <1>19. ClientInv(c)'
    BY <1>12, <1>13, <1>14, <1>15, <1>16, <1>17, <1>18 DEF ClientInv
  <1> QED BY <1>0, <1>9, <1>10, <1>19, OneClientSteps

\* An event of the history of SESSION_READY.
LEMMA HydrateInvariant ==
    ASSUME IInv, NEW c \in Clients, Hydrate(c)
    PROVE  IInv'
  <1>0. /\ UNCHANGED <<log, members, pubStep, pubTodo, pubTarget, pubGeneration, step, bound,
                       generation, invalid, queue, snapPeers, snapLatest, snapResync, snapTo,
                       snapAt, mode, holders, inbox, whole>>
        /\ mode[c] = "hydrating" /\ snapFrom[c] <= snapTo[c] /\ AcceptDurable(c, snapFrom[c])
        /\ snapFrom' = [snapFrom EXCEPT ![c] = snapFrom[c] + 1]
    BY DEF Hydrate, pubVars, peerVars
  <1>1. /\ ClientInv(c) /\ Due(c)' = Due(c) /\ Latest' = Latest /\ Latest \in Nat
        /\ snapFrom \in [Clients -> Nat] /\ snapFrom[c] \in Nat /\ snapTo[c] \in Nat
        /\ snapLatest[c] \in Nat /\ cursor[c] \in Nat
    BY <1>0, DueKept, LatestType DEF IInv, TypeOK, Latest
  <1>2. /\ snapFrom[c] \in 1 .. Latest /\ snapFrom[c] <= cursor[c] + 1
        /\ snapLatest[c] <= snapTo[c] /\ snapTo[c] <= Latest
        /\ seen[c] = {} /\ \A n \in snapFrom[c] .. snapTo[c] : Fits(n)
    BY <1>0, <1>1 DEF ClientInv, Snapshot
  <1>13. /\ Fits(snapFrom[c]) /\ \A m \in seen[c] : m < snapFrom[c]
         /\ \A m \in 1 .. snapFrom[c] - 1 : Past(c, m)
    BY <1>0, <1>1, <1>2 DEF Past
  <1>3. /\ cursor' \in [Clients -> Nat] /\ seen' \in [Clients -> SUBSET Nat]
        /\ base' \in [Clients -> Nat] /\ shown' \in [Clients -> Seq(Nat)]
        /\ roster' \in [Clients -> SUBSET Clients]
        /\ \A d \in Clients : d # c =>
              /\ cursor'[d] = cursor[d] /\ seen'[d] = seen[d] /\ shown'[d] = shown[d]
              /\ roster'[d] = roster[d]
        /\ base' = base
        /\ cursor'[c] = IF snapFrom[c] = cursor[c] + 1 THEN snapFrom[c] ELSE cursor[c]
        /\ seen'[c] = {}
        /\ Window(c)'
        /\ PeersAfter(log, step, roster[c], Known(c))
              => PeersAfter(log, step, roster'[c], Known(c)')
    BY <1>0, <1>2, <1>13, Accepted
  <1>4. /\ snapFrom' \in [Clients -> Nat] /\ snapFrom'[c] = snapFrom[c] + 1
        /\ \A d \in Clients : d # c => snapFrom'[d] = snapFrom[d]
    BY <1>0, <1>1
  <1>5. TypeOK'
    BY <1>0, <1>3, <1>4 DEF IInv, TypeOK
  <1>6. \A d \in Clients : d # c => Kept(d)
    BY <1>0, <1>3, <1>4 DEF Kept
  <1>7. Staged(c)'
    BY <1>0, <1>1 DEF ClientInv, Staged
  <1>14. \A n : Fits(n)' <=> Fits(n)
    BY <1>0 DEF Fits
  <1>15. Stream(c)' = Stream(c)
    BY <1>0 DEF Stream
  <1>8. Streamed(c)' /\ Complete(c)'
    BY <1>0, <1>1, <1>14, <1>15 DEF ClientInv, Streamed, Complete
  <1>9. Inboxed(c)'
    BY <1>0, <1>1, <1>14 DEF ClientInv, Inboxed
  <1>10. Snapshot(c)'
    <2>1. snapFrom'[c] .. snapTo[c] \subseteq snapFrom[c] .. snapTo[c]
      BY <1>1, <1>4
    <2>2. /\ snapFrom'[c] <= snapTo[c] => snapFrom'[c] <= cursor'[c] + 1
          /\ snapFrom'[c] > snapTo[c] => cursor'[c] >= snapLatest[c]
      <3>1. cursor'[c] \in Nat /\ snapFrom[c] <= cursor'[c]
        BY <1>1, <1>2, <1>3
      <3> QED BY <1>0, <1>1, <1>2, <1>4, <3>1
    <2>3. snapFrom'[c] > 0
      BY <1>1, <1>4
    <2>4. mode'[c] = "hydrating" /\ snapTo' = snapTo /\ snapLatest' = snapLatest
      BY <1>0
    <2> QED BY <1>0, <1>1, <1>2, <1>3, <1>14, <2>1, <2>2, <2>3, <2>4 DEF Snapshot
  <1>11. Rostered(c)'
    BY <1>0, <1>1, <1>3 DEF ClientInv, Rostered
  <1>12. ClientInv(c)'
    BY <1>3, <1>7, <1>8, <1>9, <1>10, <1>11 DEF ClientInv
  <1> QED BY <1>0, <1>5, <1>6, <1>12, OneClientSteps

\* The history is shown: the cursor has reached the end of the snapshot, and
\* the stream goes on from there.
LEMMA BecomeReadyInvariant ==
    ASSUME IInv, NEW c \in Clients, BecomeReady(c)
    PROVE  IInv'
  <1>0. /\ UNCHANGED <<log, members, pubStep, pubTodo, pubTarget, pubGeneration, step, bound,
                       generation, invalid, queue, inbox, cursor, seen, base, shown, roster, whole>>
        /\ mode[c] = "hydrating" /\ snapFrom[c] > snapTo[c]
        /\ mode' = [mode EXCEPT ![c] = "draining"] /\ holders' = holders \cup {c}
        /\ snapPeers' = [snapPeers EXCEPT ![c] = {}]
        /\ snapLatest' = [snapLatest EXCEPT ![c] = 0] /\ snapResync' = snapResync \ {c}
        /\ snapFrom' = [snapFrom EXCEPT ![c] = 1] /\ snapTo' = [snapTo EXCEPT ![c] = 0]
        /\ snapAt' = [snapAt EXCEPT ![c] = 0]
    BY DEF BecomeReady, ForgetSnapshot, pubVars, peerVars, pageVars
  <1>1. /\ ClientInv(c) /\ Due(c)' = Due(c) /\ Latest' = Latest /\ Latest \in Nat
        /\ snapLatest[c] \in Nat /\ cursor[c] \in Nat
    BY <1>0, DueKept, LatestType DEF IInv, TypeOK, Latest
  <1>2. step[c] \in {"open", "command"} /\ snapLatest[c] <= cursor[c] /\ seen[c] = {}
    BY <1>0, <1>1 DEF ClientInv, Staged, Snapshot
  <1>3. /\ snapPeers' \in [Clients -> SUBSET Clients] /\ snapLatest' \in [Clients -> Nat]
        /\ snapFrom' \in [Clients -> Nat] /\ snapTo' \in [Clients -> Nat]
        /\ snapAt' \in [Clients -> Nat] /\ mode' \in [Clients -> Modes]
    BY <1>0 DEF IInv, TypeOK, Modes
  <1>4. TypeOK'
    BY <1>0, <1>3 DEF IInv, TypeOK
  <1>5. /\ mode'[c] = "draining"
        /\ \A d \in Clients : d # c =>
              /\ mode'[d] = mode[d]
              /\ snapPeers'[d] = snapPeers[d] /\ snapLatest'[d] = snapLatest[d]
              /\ snapFrom'[d] = snapFrom[d] /\ snapTo'[d] = snapTo[d] /\ snapAt'[d] = snapAt[d]
    BY <1>0 DEF IInv, TypeOK
  <1>6. \A d \in Clients : d # c => Kept(d)
    BY <1>0, <1>5 DEF Kept
  <1>7. Staged(c)'
    BY <1>0, <1>1, <1>2, <1>5 DEF ClientInv, Staged
  <1>8. Streamed(c)'
    BY <1>0, <1>1, <1>2 DEF ClientInv, Streamed, Stream
  <1>9. /\ \A n : (Fits(n)' <=> Fits(n)) /\ (Past(c, n)' <=> Past(c, n))
        /\ \A n \in Nat : n \notin snapLatest[c] + 1 .. n => Past(c, n)
        /\ \A n : ~Fits(n) => Past(c, n)
    BY <1>0, <1>1, <1>2 DEF Fits, Past, IsFull
  <1>10. Complete(c)'
    <2>1. c \in bound \ invalid =>
             \A n \in snapLatest[c] + 1 .. Due(c) : n \in Stream(c) \/ ~Fits(n)
      BY <1>0, <1>1, <1>2 DEF ClientInv, Complete
    <2>2. Due(c) \in Int
      BY <1>1 DEF Due
    <2>3. \A n \in 1 .. Due(c) :
             n \in Nat /\ (n \in snapLatest[c] + 1 .. n => n \in snapLatest[c] + 1 .. Due(c))
      BY <1>1, <2>2
    <2>4. Stream(c)' = Stream(c)
      BY <1>0 DEF Stream
    <2> QED BY <1>0, <1>1, <1>5, <1>9, <2>1, <2>3, <2>4 DEF Complete
  <1>11. Inboxed(c)'
    <2>1. /\ Increasing(inbox[c]) /\ ToSet(inbox[c]) \subseteq 1 .. Latest
          /\ \A m \in ToSet(inbox[c]) : Fits(m)
          /\ \A m \in ToSet(inbox[c]) : \A n \in snapLatest[c] + 1 .. m :
                n \in ToSet(inbox[c]) \/ ~Fits(n)
      BY <1>0, <1>1, <1>2 DEF ClientInv, Inboxed
    <2>2. ASSUME NEW m \in ToSet(inbox[c]), NEW n \in 1 .. m
          PROVE  n \in ToSet(inbox[c]) \/ Past(c, n)
      <3>1. n \in Nat /\ (n \in snapLatest[c] + 1 .. n => n \in snapLatest[c] + 1 .. m)
        BY <1>1, <2>1
      <3> QED BY <1>9, <2>1, <3>1
    <2> QED BY <1>0, <1>1, <1>2, <1>5, <1>9, <2>1, <2>2 DEF Inboxed
  <1>12. Window(c)'
    BY <1>0, <1>1 DEF ClientInv, Window, Fits
  <1>13. Snapshot(c)'
    BY <1>5 DEF Snapshot, Fits
  <1>14. Rostered(c)'
    BY <1>0, <1>1, <1>5 DEF ClientInv, Rostered, Known
  <1>15. ClientInv(c)'
    BY <1>7, <1>8, <1>10, <1>11, <1>12, <1>13, <1>14 DEF ClientInv
  <1> QED BY <1>0, <1>4, <1>6, <1>15, OneClientSteps

\* What came while handshaking, in order.
LEMMA DrainInboxInvariant ==
    ASSUME IInv, NEW c \in Clients, DrainInbox(c)
    PROVE  IInv'
  <1>0. /\ UNCHANGED <<log, members, pubStep, pubTodo, pubTarget, pubGeneration, step, bound,
                       generation, invalid, queue, snapPeers, snapLatest, snapResync, snapFrom,
                       snapTo, snapAt, holders, whole>>
        /\ mode[c] = "draining"
        /\ \/ /\ inbox[c] # <<>> /\ AcceptDurable(c, Head(inbox[c])) /\ mode' = mode
              /\ inbox' = [inbox EXCEPT ![c] = Tail(inbox[c])]
           \/ /\ inbox[c] = <<>> /\ mode' = [mode EXCEPT ![c] = "online"]
              /\ UNCHANGED <<inbox, cursor, seen, base, shown, roster>>
    BY DEF DrainInbox, pubVars, peerVars, snapVars, pageVars
  <1>1. /\ ClientInv(c) /\ Due(c)' = Due(c) /\ Latest' = Latest /\ Latest \in Nat
        /\ inbox \in [Clients -> Seq(Nat)] /\ inbox[c] \in Seq(Nat) /\ cursor[c] \in Nat
    BY <1>0, DueKept, LatestType DEF IInv, TypeOK, Latest
  <1>2. CASE inbox[c] = <<>>
    <2>0. /\ mode' = [mode EXCEPT ![c] = "online"]
          /\ UNCHANGED <<inbox, cursor, seen, base, shown, roster>>
      BY <1>0, <1>2
    <2>1. /\ mode' \in [Clients -> Modes] /\ mode'[c] = "online"
          /\ \A d \in Clients : d # c => mode'[d] = mode[d]
      BY <2>0 DEF IInv, TypeOK, Modes
    <2>2. TypeOK'
      BY <1>0, <2>0, <2>1 DEF IInv, TypeOK
    <2>3. \A d \in Clients : d # c => Kept(d)
      BY <1>0, <2>0, <2>1 DEF Kept
    <2>4. Staged(c)'
      BY <1>0, <1>1, <1>2, <2>0, <2>1 DEF ClientInv, Staged
    <2>9. /\ Stream(c)' = Stream(c)
          /\ \A n : (Fits(n)' <=> Fits(n)) /\ (Past(c, n)' <=> Past(c, n))
      BY <1>0, <2>0 DEF Stream, Fits, Past, IsFull
    <2>5. Streamed(c)' /\ Complete(c)'
      BY <1>0, <1>1, <2>0, <2>1, <2>9 DEF ClientInv, Streamed, Complete
    <2>6. Inboxed(c)'
      BY <1>2, <2>0, InboxEmpty
    <2>7. Window(c)' /\ Snapshot(c)' /\ Rostered(c)'
      BY <1>0, <1>1, <2>0, <2>1 DEF ClientInv, Window, Snapshot, Rostered, Fits, Known
    <2>8. ClientInv(c)'
      BY <2>4, <2>5, <2>6, <2>7 DEF ClientInv
    <2> QED BY <1>0, <2>2, <2>3, <2>8, OneClientSteps
  <1>3. CASE inbox[c] # <<>>
    <2> DEFINE B == ToSet(inbox[c])
               T == ToSet(Tail(inbox[c]))
    <2>1. PICK n \in Nat : n = Head(inbox[c])
      BY <1>1, <1>3
    <2>2. /\ AcceptDurable(c, n) /\ mode' = mode
          /\ inbox' = [inbox EXCEPT ![c] = Tail(inbox[c])]
          /\ Tail(inbox[c]) \in Seq(Nat) /\ B = {n} \cup T
      BY <1>0, <1>1, <1>3, <2>1, ElementsShrink
    <2>3. /\ Increasing(inbox[c]) /\ B \subseteq 1 .. Latest
          /\ \A m \in B : Fits(m)
          /\ \A m \in B : \A k \in seen[c] : k < m
          /\ \A m \in B : \A k \in 1 .. m : k \in B \/ Past(c, k)
      BY <1>0, <1>1 DEF ClientInv, Inboxed
    <2>4. Increasing(Tail(inbox[c])) /\ \A m \in T : n < m
      BY <1>1, <1>3, <2>1, <2>3, IncreasingShrinks
    <2>5. /\ n \in 1 .. Latest /\ Fits(n) /\ \A m \in seen[c] : m < n
          /\ \A m \in 1 .. n - 1 : Past(c, m)
      <3>1. n \in B /\ n \in 1 .. Latest
        BY <2>2, <2>3
      <3>2. ASSUME NEW m \in 1 .. n - 1
            PROVE  Past(c, m)
        <4>1. m \in 1 .. n /\ m # n /\ m \notin T
          BY <2>4
        <4> QED BY <2>2, <2>3, <3>1, <4>1
      <3> QED BY <2>3, <3>1, <3>2
    <2>6. /\ cursor' \in [Clients -> Nat] /\ seen' \in [Clients -> SUBSET Nat]
          /\ base' \in [Clients -> Nat] /\ shown' \in [Clients -> Seq(Nat)]
          /\ roster' \in [Clients -> SUBSET Clients]
          /\ \A d \in Clients : d # c =>
                /\ cursor'[d] = cursor[d] /\ seen'[d] = seen[d] /\ shown'[d] = shown[d]
                /\ roster'[d] = roster[d]
          /\ base' = base
          /\ seen'[c] \subseteq seen[c] \cup {n}
          /\ \A m \in 1 .. Latest : Past(c, m) \/ m = n => Past(c, m)'
          /\ Window(c)'
          /\ PeersAfter(log, step, roster[c], Known(c))
                => PeersAfter(log, step, roster'[c], Known(c)')
      BY <1>0, <2>2, <2>5, Accepted
    <2>7. /\ inbox' \in [Clients -> Seq(Nat)] /\ inbox'[c] = Tail(inbox[c])
          /\ \A d \in Clients : d # c => inbox'[d] = inbox[d]
      BY <1>1, <2>2
    <2>8. TypeOK'
      BY <1>0, <2>2, <2>6, <2>7 DEF IInv, TypeOK
    <2>9. \A d \in Clients : d # c => Kept(d)
      BY <1>0, <2>2, <2>6, <2>7 DEF Kept
    <2>10. ToSet(inbox'[c]) = T /\ Increasing(inbox'[c])
      BY <2>4, <2>7
    <2>11. Staged(c)'
      BY <1>0, <1>1, <2>2 DEF ClientInv, Staged
    <2>12. Stream(c) = {n} \cup Stream(c)' /\ Stream(c)' = T \cup Events(queue[c], generation[c])
      BY <1>0, <2>2, <2>10 DEF Stream
    <2>13. Streamed(c)'
      <3>1. c \in bound \ invalid =>
               /\ seen[c] \subseteq 1 .. Due(c) /\ Stream(c) \subseteq 1 .. Due(c)
               /\ \A m \in seen[c] : \A k \in Stream(c) : m < k
               /\ \A m \in B : \A k \in Events(queue[c], generation[c]) : m < k
        BY <1>0, <1>1 DEF ClientInv, Streamed
      <3>2. c \in bound \ invalid =>
               /\ seen'[c] \subseteq 1 .. Due(c)
               /\ \A m \in seen'[c] : \A k \in Stream(c)' : m < k
        BY <2>2, <2>4, <2>6, <2>12, <3>1
      <3> QED BY <1>0, <1>1, <2>2, <2>10, <2>12, <3>1, <3>2 DEF ClientInv, Streamed
    <2>14. Complete(c)'
      <3>1. Due(c) \in Int /\ Due(c) <= Latest
        BY <1>1 DEF Due
      <3>2. ASSUME c \in bound \ invalid, NEW k \in 1 .. Due(c)
            PROVE  k \in Stream(c)' \/ Past(c, k)'
        <4>1. k \in 1 .. Latest
          BY <1>1, <3>1
        <4>2. k \in Stream(c) \/ Past(c, k)
          BY <1>0, <1>1, <3>2 DEF ClientInv, Complete
        <4> QED BY <2>6, <2>12, <4>1, <4>2
      <3> QED BY <1>0, <1>1, <2>2, <3>2 DEF Complete
    <2>15. Inboxed(c)'
      <3>1. /\ T \subseteq 1 .. Latest /\ \A m \in T : Fits(m)
            /\ \A m \in T : \A k \in seen'[c] : k < m
        BY <2>2, <2>3, <2>4, <2>6
      <3>2. ASSUME NEW m \in T, NEW k \in 1 .. m
            PROVE  k \in T \/ Past(c, k)'
        <4>1. m \in B /\ m \in 1 .. Latest /\ k \in 1 .. Latest
          BY <1>1, <2>2, <3>1
        <4> QED BY <2>2, <2>3, <2>6, <4>1
      <3>3. \A k : Fits(k)' <=> Fits(k)
        BY <1>0 DEF Fits
      <3> QED BY <1>0, <1>1, <2>2, <2>10, <3>1, <3>2, <3>3 DEF Inboxed
    <2>16. Snapshot(c)'
      BY <1>0, <2>2 DEF Snapshot, Fits
    <2>17. Rostered(c)'
      BY <1>0, <1>1, <2>2, <2>6 DEF ClientInv, Rostered
    <2>18. ClientInv(c)'
      BY <2>6, <2>11, <2>13, <2>14, <2>15, <2>16, <2>17 DEF ClientInv
    <2> QED BY <1>0, <2>8, <2>9, <2>18, OneClientSteps
  <1> QED BY <1>2, <1>3
-----------------------------------------------------------------------------
(* The invariant and what follows from it *)

\* An empty room.
LEMMA InitInvariant == Init => IInv
  <1> SUFFICES ASSUME Init
               PROVE  IInv
    OBVIOUS
  <1>1. <<>> \in Seq(Entries) /\ <<>> \in Seq([gen : Nat, seq : Nat])
        /\ <<>> \in Seq(Nat)
    OBVIOUS
  <1>2. /\ \A c \in Clients : queue[c] = <<>> /\ inbox[c] = <<>> /\ shown[c] = <<>>
        /\ Latest = 0 /\ Len(<<>>) = 0
    BY DEF Init, Latest
  <1>3. TypeOK
    <2>1. /\ queue \in [Clients -> Seq([gen : Nat, seq : Nat])]
          /\ inbox \in [Clients -> Seq(Nat)] /\ shown \in [Clients -> Seq(Nat)]
          /\ log \in Seq(Entries)
      BY <1>1 DEF Init
    <2>2. \A c \in Clients : Len(queue[c]) <= MaxFrames
      BY <1>2, RoomAssumption
    <2>3. step \in [Clients -> Steps] /\ mode \in [Clients -> Modes]
      BY DEF Init, Steps, Modes
    <2> QED BY <2>1, <2>2, <2>3 DEF Init, TypeOK
  <1>4. Publication
    BY DEF Init, Publication
  <1>5. LogTells
    BY <1>2 DEF Init, LogTells, Joined, Left
  <1>6. ASSUME NEW c \in Clients
        PROVE  ClientInv(c)
    <2>1. /\ step[c] = "absent" /\ mode[c] = "offline" /\ c \notin bound /\ c \notin members
          /\ generation[c] = 0 /\ c \notin invalid /\ queue[c] = <<>> /\ inbox[c] = <<>>
          /\ seen[c] = {} /\ cursor[c] = 0 /\ base[c] = 0 /\ shown[c] = <<>>
      BY DEF Init
    <2>2. Staged(c)
      <3>1. DOMAIN queue[c] = {}
        BY <2>1
      <3> QED BY <2>1, <3>1 DEF Staged, Connected, Outside
    <2>3. Streamed(c) /\ Complete(c) /\ Snapshot(c) /\ Rostered(c)
      BY <2>1 DEF Streamed, Complete, Snapshot, Rostered, Fits, Past, IsFull, Known
    <2>4. Window(c)
      <3>1. ToSet(shown[c]) = {} /\ Increasing(shown[c])
        BY <2>1, ElementsOfShort DEF Increasing
      <3>2. 0 + 1 .. 0 = {}
        OBVIOUS
      <3> QED BY <1>2, <2>1, <3>1, <3>2 DEF Window
    <2>5. Inboxed(c)
      BY <2>1, ElementsOfShort DEF Inboxed, Increasing, Fits, Past, IsFull
    <2> QED BY <2>2, <2>3, <2>4, <2>5 DEF ClientInv
  <1> QED BY <1>3, <1>4, <1>5, <1>6 DEF IInv

\* A step that changes nothing.
LEMMA StutterInvariant ==
    ASSUME IInv, UNCHANGED vars
    PROVE  IInv'
  <1>0. UNCHANGED <<log, members, pubStep, pubTodo, pubTarget, pubGeneration, step, bound,
                    generation, invalid, queue, snapPeers, snapLatest, snapResync, snapFrom,
                    snapTo, snapAt, mode, holders, inbox, cursor, seen, base, shown, roster, whole>>
    BY DEF vars, pubVars, peerVars, snapVars, browserVars, pageVars
  <1>1. TypeOK'
    BY <1>0 DEF IInv, TypeOK
  <1>2. Forward /\ Publication' /\ LogTells'
    <2>1. \A d \in Clients : generation[d] <= generation'[d] /\ generation'[d] \in Nat
      BY <1>0 DEF IInv, TypeOK
    <2> QED BY <1>0, <2>1, QuietSteps
  <1>3. ASSUME NEW d \in Clients
        PROVE  ClientInv(d)'
    <2>1. Kept(d)
      BY <1>0 DEF Kept
    <2>2. Due(d)' = Due(d)
      BY <1>0, DueKept
    <2> QED BY <1>0, <1>2, <2>1, <2>2, KeptClient
  <1> QED BY <1>1, <1>2, <1>3 DEF IInv

\* Every action of the room, of the peers and of the browsers.
LEMMA NextInvariant == IInv /\ [Next]_vars => IInv'
  <1> SUFFICES ASSUME IInv, [Next]_vars
               PROVE  IInv'
    OBVIOUS
  <1>1. CASE Publisher
    <2>1. CASE SnapshotMembers
      BY <2>1, SnapshotMembersInvariant
    <2>2. CASE FinishPublish
      BY <2>2, FinishPublishInvariant
    <2>3. ASSUME NEW c \in Clients, ReadBinding(c) \/ Push(c)
          PROVE  IInv'
      BY <2>3, ReadBindingInvariant, PushInvariant
    <2> QED BY <1>1, <2>1, <2>2, <2>3 DEF Publisher
  <1>2. ASSUME NEW c \in Clients,
               Join(c) \/ Resume(c) \/ Command(c) \/ Detach(c) \/ RemovePeerById(c)
        PROVE  IInv'
    BY <1>2, JoinInvariant, ResumeInvariant, AddHistoryMessageInvariant, DetachInvariant,
       RemoveInvariant
  <1>3. ASSUME NEW c \in Clients, Handler(c)
        PROVE  IInv'
    BY <1>3, AddHistoryMessageInvariant, NothingToWithdrawInvariant, GetPeersInvariant,
       LatestServerSeqInvariant, GetHistoryAfterInvariant, SendReadyInvariant DEF Handler
  <1>4. ASSUME NEW c \in Clients, Drain(c)
        PROVE  IInv'
    BY <1>4, DropFrameInvariant, DeliverEventInvariant, DeliverReadyInvariant,
       DiscardFrameInvariant DEF Drain
  <1>5. ASSUME NEW c \in Clients, Browser(c)
        PROVE  IInv'
    BY <1>5, HydrateInvariant, BecomeReadyInvariant, DrainInboxInvariant DEF Browser
  <1>6. CASE UNCHANGED vars
    BY <1>6, StutterInvariant
  <1> QED BY <1>1, <1>2, <1>3, <1>4, <1>5, <1>6 DEF Next

\* The inductive invariant holds throughout.
LEMMA Invariant == Spec => []IInv
  BY InitInvariant, NextInvariant, PTL DEF Spec

\* The variables of Room, Peer and the browser have their types, and no
\* outbound queue is longer than maxOutboundFrames.
THEOREM TypeCorrect == Spec => []TypeOK
  <1>1. IInv => TypeOK
    BY DEF IInv
  <1> QED BY <1>1, Invariant, PTL

\* What a browser shows is in order and has every event once, and the only holes
\* in it are events that parseProtocolMessage discarded (acceptSequence and
\* replaceHistory in reliability.js and chat.js).
THEOREM ShowsAWindow == Spec => []ShownIsWindow
  <1>1. ASSUME IInv
        PROVE  ShownIsWindow
    <2> SUFFICES ASSUME NEW c \in Clients
                 PROVE  /\ \A i, j \in DOMAIN shown[c] : i < j => shown[c][i] < shown[c][j]
                        /\ Rendered(c) = (base[c] + 1 .. cursor[c]) \cup seen[c]
                        /\ \A m \in Rendered(c) : \A n \in base[c] + 1 .. m :
                              n \in Rendered(c) \/ ~Fits(n)
      BY DEF ShownIsWindow
    <2>1. Window(c) /\ cursor[c] \in Nat /\ base[c] \in Nat /\ Latest \in Nat
      BY <1>1, LatestType DEF IInv, ClientInv, TypeOK
    <2>2. Rendered(c) = (base[c] + 1 .. cursor[c]) \cup seen[c]
      BY <2>1 DEF Window, Rendered, ToSet
    <2>3. ASSUME NEW m \in Rendered(c), NEW n \in base[c] + 1 .. m
          PROVE  n \in Rendered(c) \/ ~Fits(n)
      <3>1. CASE n <= cursor[c]
        BY <2>1, <2>2, <3>1
      <3>2. CASE n > cursor[c]
        <4>1. m \in seen[c] /\ n \in cursor[c] + 1 .. m
          BY <2>1, <2>2, <2>3, <3>2 DEF Window
        <4> QED BY <2>1, <2>2, <4>1 DEF Window
      <3>3. n <= cursor[c] \/ n > cursor[c]
        BY <2>1
      <3> QED BY <3>1, <3>2, <3>3
    <2> QED BY <2>1, <2>2, <2>3 DEF Window, Increasing
  <1> QED BY <1>1, Invariant, PTL

\* An online browser with nothing on its way waits for no event.
LEMMA CaughtUp ==
    ASSUME IInv, NEW c \in Clients, mode[c] = "online", c \notin invalid, queue[c] = <<>>,
           pubStep = "idle"
    PROVE  \A n \in 1 .. Latest : Past(c, n)
  <1>1. ClientInv(c)
    BY DEF IInv
  <1>2. c \in bound \ invalid /\ inbox[c] = <<>>
    BY <1>1 DEF ClientInv, Staged
  <1>3. Due(c) = Latest
    BY DEF Due, Coming
  <1>4. Stream(c) = {}
    <2>1. ToSet(inbox[c]) = {}
      BY <1>2, ElementsOfShort
    <2>2. Events(queue[c], generation[c]) = {}
      BY DEF Events
    <2> QED BY <2>1, <2>2 DEF Stream
  <1> QED BY <1>1, <1>2, <1>3, <1>4 DEF ClientInv, Complete

\* No event falls between the members that Room::sendMessageAsync copies, the
\* binding that Peer::sendMessageAsync reads, and the three reads of
\* Lobby::acceptSessionHello: a browser that has handled all lacks only what
\* parseProtocolMessage discarded and what acceptSequence refused behind that.
THEOREM NoEventIsLost == Spec => []NothingLost
  <1>1. ASSUME IInv
        PROVE  NothingLost
    <2> SUFFICES ASSUME NEW c \in Clients, mode[c] = "online", c \notin invalid,
                        queue[c] = <<>>, pubStep = "idle"
                 PROVE  /\ cursor[c] = Latest \/ ~Fits(cursor[c] + 1)
                        /\ \A n \in cursor[c] + 1 .. Latest :
                              n \in seen[c] \/ ~Fits(n) \/ IsFull(c)
      BY DEF NothingLost
    <2>1. /\ cursor[c] \in Nat /\ Latest \in Nat /\ cursor[c] <= Latest
          /\ seen[c] \subseteq cursor[c] + 2 .. Latest
      BY <1>1, LatestType DEF IInv, ClientInv, TypeOK, Window
    <2>2. \A n \in cursor[c] + 1 .. Latest : n \in seen[c] \/ ~Fits(n) \/ IsFull(c)
      <3>1. \A n \in cursor[c] + 1 .. Latest : n \in 1 .. Latest /\ ~(n <= cursor[c])
        BY <2>1
      <3>2. \A n \in 1 .. Latest : Past(c, n)
        BY <1>1, CaughtUp
      <3> QED BY <3>1, <3>2 DEF Past
    <2>3. cursor[c] = Latest \/ ~Fits(cursor[c] + 1)
      <3>1. IsFull(c) => ~Fits(cursor[c] + 1)
        BY <1>1, NoHoleThatFits
      <3>2. cursor[c] + 1 \notin seen[c]
        BY <2>1
      <3>3. cursor[c] # Latest => cursor[c] + 1 \in cursor[c] + 1 .. Latest
        BY <2>1
      <3> QED BY <2>2, <3>1, <3>2, <3>3
    <2> QED BY <2>2, <2>3
  <1> QED BY <1>1, Invariant, PTL

\* Its roster is the room's, although the peers, the latest sequence number and
\* the history of SESSION_READY are read under different locks, and although it
\* may lack events that were too long, which are never joins or leaves.
THEOREM RosterIsRight == Spec => []RosterAgrees
  <1>1. ASSUME IInv
        PROVE  RosterAgrees
    <2> SUFFICES ASSUME NEW c \in whole, mode[c] = "online", c \notin invalid,
                        queue[c] = <<>>, pubStep = "idle", ~IsFull(c),
                        \A d \in Clients : step[d] \notin {"welcome", "leaving"}
                 PROVE  roster[c] = members
      BY DEF RosterAgrees
    <2>1. c \in Clients /\ roster[c] \subseteq Clients /\ members \subseteq Clients
      BY <1>1 DEF IInv, TypeOK
    <2>2. \A n \in 1 .. Latest : n \in Known(c) \/ ~Fits(n)
      <3>1. cursor[c] \in Nat /\ \A n \in 1 .. Latest : Past(c, n)
        BY <1>1, <2>1, CaughtUp DEF IInv, TypeOK
      <3> QED BY <3>1 DEF Past, Known
    <2>3. PeersAfter(log, step, roster[c], Known(c))
      BY <1>1, <2>1 DEF IInv, ClientInv, Rostered
    <2>4. ASSUME NEW d \in Clients
          PROVE  d \in roster[c] <=> d \in members
      <3>1. /\ d \in roster[c] => step[d] # "absent" /\ ~Left(log, d, Known(c))
            /\ d \notin roster[c] => ~Joined(log, d, Known(c)) \/ step[d] \in Departed
        BY <2>3 DEF PeersAfter
      <3>2. /\ Joined(log, d, 1 .. Latest) => Joined(log, d, Known(c))
            /\ Left(log, d, 1 .. Latest) => Left(log, d, Known(c))
        <4>1. \A k \in 1 .. Latest : log[k].kind \in {"joined", "left"} => k \in Known(c)
          BY <1>1, <2>2, LatestType DEF IInv, LogTells
        <4> QED BY <4>1 DEF Joined, Left
      <3>3. /\ Joined(log, d, 1 .. Latest) <=> step[d] \notin {"absent", "welcome"}
            /\ Left(log, d, 1 .. Latest) <=> step[d] \in {"bye", "gone"}
        BY <1>1 DEF IInv, LogTells
      <3>4. d \in members <=> step[d] \notin Outside
        BY <1>1 DEF IInv, ClientInv, Staged
      <3>5. step[d] \notin {"welcome", "leaving"}
        OBVIOUS
      <3> QED BY <3>1, <3>2, <3>3, <3>4, <3>5 DEF Outside, Departed
    <2> QED BY <2>1, <2>4
  <1> QED BY <1>1, Invariant, PTL

-----------------------------------------------------------------------------
(* The room implements RoomLog *)

\* acceptDurable moves the window forward, within the log.
LEMMA AcceptExtends ==
    ASSUME IInv, NEW c \in Clients, NEW n \in 1 .. Latest, Fits(n), AcceptDurable(c, n),
           log' = log
    PROVE  Abstract!Extend(c) \/ UNCHANGED <<log, base, cursor>>
  <1>1. CASE UNCHANGED pageVars
    BY <1>1 DEF pageVars
  <1>2. CASE Admits(c, n) /\ Renders(c, n)
    <2>1. /\ cursor \in [Clients -> Nat] /\ cursor[c] \in Nat /\ Latest \in Nat
          /\ n > cursor[c] /\ cursor[c] <= Latest
      BY <1>2, LatestType DEF IInv, ClientInv, Window, TypeOK, Admits
    <2>2. /\ cursor' = [cursor EXCEPT ![c] = IF n = cursor[c] + 1 THEN n ELSE cursor[c]]
          /\ base' = base
      BY <1>2, <2>1, Rendering
    <2>3. cursor'[c] \in cursor[c] .. Len(log) /\ cursor' = [cursor EXCEPT ![c] = cursor'[c]]
      BY <2>1, <2>2 DEF Latest
    <2> QED BY <2>2, <2>3 DEF Abstract!Extend
  <1> QED BY <1>1, <1>2 DEF AcceptDurable

\* Room::addHistoryMessage publishes.
LEMMA AppendPublishes ==
    ASSUME IInv, NEW kind \in Kinds, NEW c \in Clients, NEW size \in Sizes,
           AddHistoryMessage(kind, c, size)
    PROVE  Abstract!Publish
  <1> DEFINE e == [kind |-> kind, who |-> c, size |-> size]
  <1>1. log' = Append(log, e) /\ UNCHANGED <<base, cursor>>
    BY DEF AddHistoryMessage, browserVars, pageVars
  <1>2. log \in Seq(Entries) /\ e \in Entries
    BY DEF IInv, TypeOK, Entries
  <1> HIDE DEF e
  <1>3. /\ log' \in Seq(Entries) /\ Len(log') = Len(log) + 1
        /\ \A k \in 1 .. Len(log) : log'[k] = log[k] /\ Len(log) \in Nat
    BY <1>1, <1>2
  <1> DEFINE l == log'
  <1> HIDE DEF l
  <1>4. l \in Seq(Entries) /\ Len(l) = Len(log) + 1 /\ Len(log) \in Nat
        /\ \A k \in 1 .. Len(log) : l[k] = log[k]
    BY <1>2, <1>3 DEF l
  <1>5. SubSeq(l, 1, Len(log)) = log
    BY <1>2, <1>4
  <1> QED BY <1>1, <1>4, <1>5 DEF Abstract!Publish, l

\* A resume keeps the window, or starts it anew at the stored cursor.
LEMMA ResumeRestarts ==
    ASSUME IInv, NEW c \in Clients, Resume(c)
    PROVE  Abstract!Restart(c) \/ UNCHANGED <<log, base, cursor>>
  <1>1. /\ log' = log /\ cursor' = cursor
        /\ base' = base \/ base' = [base EXCEPT ![c] = cursor[c]]
    BY DEF Resume, RestoreCursor, pageVars
  <1>2. /\ base \in [Clients -> Nat] /\ cursor \in [Clients -> Nat]
        /\ cursor[c] <= Latest /\ Latest \in Nat
    BY LatestType DEF IInv, TypeOK, ClientInv, Window, Fits
  <1>3. ASSUME base' = [base EXCEPT ![c] = cursor[c]]
        PROVE  Abstract!Restart(c)
    <2>1. base'[c] = cursor[c] /\ base'[c] \in cursor[c] .. Len(log)
      BY <1>2, <1>3 DEF Latest
    <2>2. /\ base' = [base EXCEPT ![c] = base'[c]]
          /\ cursor' = [cursor EXCEPT ![c] = base'[c]]
      BY <1>1, <1>2, <1>3, <2>1
    <2> QED BY <1>1, <2>1, <2>2 DEF Abstract!Restart
  <1> QED BY <1>1, <1>3

\* SESSION_READY keeps the window, or starts it anew after what it has covered.
LEMMA ReadyRestarts ==
    ASSUME IInv, NEW c \in Clients, DeliverReady(c)
    PROVE  Abstract!Restart(c) \/ UNCHANGED <<log, base, cursor>>
  <1>1. /\ log' = log
        /\ \/ UNCHANGED <<base, cursor>>
           \/ /\ cursor' = [cursor EXCEPT ![c] = Baseline(c)]
              /\ base' = [base EXCEPT ![c] = Baseline(c)]
    BY DEF DeliverReady
  <1>2. /\ base \in [Clients -> Nat] /\ cursor \in [Clients -> Nat] /\ cursor[c] \in Nat
        /\ snapFrom[c] \in Nat /\ snapTo[c] \in Nat /\ snapLatest[c] \in Nat
        /\ Latest \in Nat /\ ClientInv(c)
    BY LatestType DEF IInv, TypeOK
  <1>3. Baseline(c) \in cursor[c] .. Len(log)
    <2>1. mode[c] = "handshaking" /\ step[c] \in {"open", "command"}
      <3>1. /\ queue[c] # <<>> /\ TakeOutboundFrame(c) /\ Head(queue[c]).seq = Ready
            /\ Head(queue[c]).gen = generation[c] /\ c \in bound /\ mode[c] = "handshaking"
        BY DEF DeliverReady, Arrives, IsCurrentBinding
      <3>2. Answered(queue[c], generation[c])
        BY <3>1, FrameTaken
      <3> QED BY <1>2, <3>1, <3>2 DEF ClientInv, Staged
    <2>2. /\ cursor[c] <= snapLatest[c] /\ snapLatest[c] <= Latest /\ snapTo[c] <= Latest
          /\ snapFrom[c] > 0 /\ (snapFrom[c] <= snapTo[c] => cursor[c] < snapFrom[c])
      BY <1>2, <2>1 DEF ClientInv, Snapshot, Fits
    <2> QED BY <1>2, <2>2 DEF Baseline, Latest
  <1>4. ASSUME cursor' = [cursor EXCEPT ![c] = Baseline(c)],
               base' = [base EXCEPT ![c] = Baseline(c)]
        PROVE  Abstract!Restart(c)
    <2>1. base'[c] = Baseline(c)
      BY <1>2, <1>4
    <2> QED BY <1>1, <1>3, <1>4, <2>1 DEF Abstract!Restart
  <1> QED BY <1>1, <1>4

\* What a browser accepts is an event of the log, and was not too long.
LEMMA AcceptedIsPublished ==
    ASSUME IInv, NEW c \in Clients, DeliverEvent(c) \/ Hydrate(c) \/ DrainInbox(c)
    PROVE  \/ \E n \in 1 .. Latest : Fits(n) /\ AcceptDurable(c, n) /\ log' = log
           \/ UNCHANGED <<log, base, cursor>>
  <1>1. ClientInv(c) /\ TypeOK /\ Latest \in Nat
    BY LatestType DEF IInv
  <1>2. CASE DeliverEvent(c)
    <2>1. /\ queue[c] # <<>> /\ TakeOutboundFrame(c) /\ Head(queue[c]).seq # Ready /\ log' = log
          /\ Head(queue[c]).gen = generation[c] /\ c \in bound /\ c \notin invalid
          /\ AcceptDurable(c, Head(queue[c]).seq) \/ UNCHANGED <<base, cursor>>
          /\ Fits(Head(queue[c]).seq)
      BY <1>2 DEF DeliverEvent, FrameFits, Arrives, IsCurrentBinding, pageVars
    <2>2. Head(queue[c]).seq \in Events(queue[c], generation[c])
      BY <2>1, FrameTaken
    <2>3. Head(queue[c]).seq \in 1 .. Due(c)
      BY <1>1, <2>1, <2>2 DEF ClientInv, Streamed, Stream
    <2>4. Head(queue[c]).seq \in 1 .. Latest
      BY <1>1, <2>3 DEF Due
    <2> QED BY <2>1, <2>4
  <1>3. CASE Hydrate(c)
    <2>1. /\ mode[c] = "hydrating" /\ snapFrom[c] <= snapTo[c] /\ log' = log
          /\ AcceptDurable(c, snapFrom[c])
      BY <1>3 DEF Hydrate
    <2>2. snapFrom[c] \in 1 .. Latest /\ Fits(snapFrom[c])
      <3>1. snapFrom[c] \in Nat /\ snapTo[c] \in Nat
        BY <1>1 DEF TypeOK
      <3>2. /\ snapTo[c] <= Latest /\ snapFrom[c] > 0
            /\ \A n \in snapFrom[c] .. snapTo[c] : Fits(n)
        BY <1>1, <2>1 DEF ClientInv, Snapshot
      <3> QED BY <1>1, <2>1, <3>1, <3>2
    <2> QED BY <2>1, <2>2
  <1>4. CASE DrainInbox(c)
    <2>1. /\ log' = log
          /\ (inbox[c] # <<>> /\ AcceptDurable(c, Head(inbox[c]))) \/ UNCHANGED <<base, cursor>>
      BY <1>4 DEF DrainInbox, pageVars
    <2>2. inbox[c] # <<>> => Head(inbox[c]) \in ToSet(inbox[c])
      <3>1. inbox[c] \in Seq(Nat)
        BY <1>1 DEF TypeOK
      <3> QED BY <3>1, ElementsShrink
    <2>3. inbox[c] # <<>> => Head(inbox[c]) \in 1 .. Latest /\ Fits(Head(inbox[c]))
      BY <1>1, <2>2 DEF ClientInv, Inboxed, Fits, Past, IsFull
    <2> QED BY <2>1, <2>3
  <1> QED BY <1>2, <1>3, <1>4

\* Every step of the room, the peers and the browsers is a step of RoomLog, or
\* one that it does not see.
LEMMA StepRefines ==
    ASSUME IInv, [Next]_vars
    PROVE  Abstract!LogNext \/ UNCHANGED <<log, base, cursor>>
  <1>1. CASE Publisher
    BY <1>1 DEF Publisher, SnapshotMembers, FinishPublish, ReadBinding, Push, browserVars, pageVars
  <1>2. ASSUME NEW c \in Clients,
               Command(c) \/ WelcomePeer(c) \/ WithdrawPeerFiles(c) \/ GoodbyePeer(c)
        PROVE  Abstract!LogNext
    <2>1. PICK kind \in Kinds, size \in Sizes : AddHistoryMessage(kind, c, size)
      BY <1>2 DEF Command, WelcomePeer, WithdrawPeerFiles, GoodbyePeer, Kinds, Sizes
    <2> QED BY <2>1, AppendPublishes DEF Abstract!LogNext
  <1>3. ASSUME NEW c \in Clients, Resume(c) \/ DeliverReady(c)
        PROVE  Abstract!LogNext \/ UNCHANGED <<log, base, cursor>>
    BY <1>3, ResumeRestarts, ReadyRestarts DEF Abstract!LogNext
  <1>4. ASSUME NEW c \in Clients, DeliverEvent(c) \/ Hydrate(c) \/ DrainInbox(c)
        PROVE  Abstract!LogNext \/ UNCHANGED <<log, base, cursor>>
    BY <1>4, AcceptedIsPublished, AcceptExtends DEF Abstract!LogNext
  <1>5. ASSUME NEW c \in Clients,
               \/ Join(c) \/ Detach(c) \/ RemovePeerById(c) \/ NothingToWithdraw(c)
               \/ GetPeers(c) \/ LatestServerSeq(c) \/ GetHistoryAfter(c) \/ SendReady(c)
               \/ DropFrame(c) \/ DiscardFrame(c) \/ BecomeReady(c)
        PROVE  UNCHANGED <<log, base, cursor>>
    BY <1>5 DEF Join, Detach, RemovePeerById, NothingToWithdraw, GetPeers, LatestServerSeq,
                GetHistoryAfter, SendReady, DropFrame, DiscardFrame, BecomeReady, browserVars,
                pageVars
  <1>6. CASE UNCHANGED vars
    BY <1>6 DEF vars, browserVars, pageVars
  <1> QED BY <1>1, <1>2, <1>3, <1>4, <1>5, <1>6 DEF Next, Handler, Drain, Browser

\* The room does what RoomLog promises: one log, which only grows, and windows
\* that have no holes, move forward and are never ahead of it.
THEOREM ImplementsRoomLog == Spec => LogRefined
  <1>1. Init => Abstract!LogInit
    BY DEF Init, Abstract!LogInit
  <1>2. IInv /\ [Next]_vars => [Abstract!LogNext]_(Abstract!logVars)
    BY StepRefines DEF Abstract!logVars
  <1> QED BY <1>1, <1>2, Invariant, PTL DEF Spec, LogRefined, Abstract!LogSpec
=============================================================================
