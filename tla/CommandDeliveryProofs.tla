------------------------ MODULE CommandDeliveryProofs ------------------------
(***************************************************************************)
(* Proofs about CommandDelivery, for every number of commands, sessions    *)
(* and losses and every limit of the server: a command is published at     *)
(* most once and in order, and what the tab says of it is true.            *)
(*                                                                         *)
(* A command is held by a session when it is on its way to it or in its    *)
(* dedupe window.  The invariant follows a command of the outbox: it is    *)
(* held by no session but the one whose token the tab has, so sending it   *)
(* again finds the dedupe window that knows it, and a session that has     *)
(* gone takes the outbox with it.                                          *)
(***************************************************************************)
EXTENDS CommandDelivery, QueueTheorems, FiniteSetTheorems

Holds(s) == ToSet(up[s]) \cup dedupe[s]

\* A command that has been submitted has its number, and queues are in order.
Numbered ==
    /\ \A i \in ToSet(outbox) \cup acked \cup rejected : i < next
    /\ \A s \in Sessions : \A i \in Holds(s) : i < next
    /\ \A f \in ToSet(down) : f.id < next
    /\ Increasing(outbox)
    /\ \A s \in Sessions : Increasing(up[s])

\* A session that is still to come knows nothing, and what was on its way over
\* a transport that is gone is lost.
SessionsFresh ==
    /\ token < nextSession /\ wire < nextSession
    /\ \A s \in Sessions : s >= nextSession => s \notin live /\ dedupe[s] = {}
    /\ \A s \in Sessions \ bound : up[s] = <<>>

\* The tab gets SESSION_READY or a refusal first, is silent until then, also when
\* it has discarded SESSION_READY, and speaks to the session of its token only.
HandshakeOrder ==
    /\ mode = "offline" => wire = NoSession /\ down = <<>>
    /\ mode = "handshaking" /\ wire = NoSession => down \in {<<>>, <<Refused>>}
    /\ mode = "handshaking" /\ wire # NoSession =>
          down \in {<<>>, <<Ready>>, <<LongReady>>} /\ up[wire] = <<>>
    /\ mode = "online" =>
          wire # NoSession /\ token = wire /\ \A f \in ToSet(down) : f.kind \in {"ack", "error"}
    /\ wire # NoSession => token = wire \/ (token = NoSession /\ dedupe[wire] = {})

\* A command of the outbox is with the session of the token or with none.
OutboxIsTokens ==
    \A i \in ToSet(outbox) : \A s \in Sessions : i \in Holds(s) => s = token

\* A command that is refused for good is with no session and never again will
\* be, whether the tab knows of it or not yet.
RefusedIsGone ==
    /\ \A f \in ToSet(down) :
          f.kind = "error" => \A s \in Sessions : f.id \notin Holds(s)
    /\ \A i \in rejected :
          i \notin ToSet(outbox) /\ \A s \in Sessions : i \notin Holds(s)

\* The dedupe window of a session is what the session has published.
DedupeIsLog ==
    /\ \A k \in DOMAIN log : log[k].id \in dedupe[log[k].session]
    /\ \A s \in Sessions : \A i \in dedupe[s] :
          Sound(i) /\ \E k \in DOMAIN log : log[k].session = s /\ log[k].id = i

\* An acknowledgement names a command that is in the room.
AckIsPublished == \A f \in ToSet(down) : f.kind = "ack" => f.id \in Published

\* What a session has still to publish comes after all it has published, the
\* commands included that the tab will send again.
PendingIsLater ==
    /\ \A s \in Sessions : \A i \in ToSet(up[s]) \ dedupe[s] : \A k \in dedupe[s] : k < i
    /\ token # NoSession =>
          \A i \in ToSet(outbox) \ dedupe[token] : \A k \in dedupe[token] : k < i

\* No command of the outbox is overtaken by one that is on its way.
OutboxIsSent ==
    token \in bound \ closing =>
        /\ \A i \in ToSet(outbox) \ Holds(token) : \A k \in ToSet(up[token]) : k < i
        /\ mode = "online" => ToSet(outbox) \subseteq Holds(token)

IInv ==
    /\ TypeOK
    /\ Numbered
    /\ SessionsFresh
    /\ HandshakeOrder
    /\ SameIdentity
    /\ OutboxIsTokens
    /\ RefusedIsGone
    /\ DedupeIsLog
    /\ AckIsPublished
    /\ PendingIsLater
    /\ OutboxIsSent
    /\ PublishedOnce
    /\ SentIsPublished
    /\ InOrder

-----------------------------------------------------------------------------
(* The tab *)

\* The outbox without a command: the rest of it, in order.
LEMMA WithoutOne ==
    ASSUME NEW q \in Seq(Commands), Increasing(q), NEW x
    PROVE  /\ Without(q, x) \in Seq(Commands)
           /\ Len(Without(q, x)) <= Len(q)
           /\ ToSet(Without(q, x)) = ToSet(q) \ {x}
           /\ Increasing(Without(q, x))
  <1>1. CASE x \notin ToSet(q)
    BY <1>1 DEF Without
  <1>2. CASE x \in ToSet(q)
    <2> DEFINE k == CHOOSE k \in DOMAIN q : q[k] = x
               w == RemoveAt(q, k)
               n == Len(q)
               front == SubSeq(q, 1, k - 1)
               back == SubSeq(q, k + 1, n)
    <2>1. k \in 1 .. n /\ q[k] = x /\ n \in Nat
      BY <1>2 DEF ToSet
    <2> HIDE DEF k
    <2>2. /\ front \in Seq(Commands) /\ Len(front) = k - 1
          /\ \A i \in 1 .. k - 1 : front[i] = q[i]
      BY <2>1
    <2>3. /\ back \in Seq(Commands) /\ Len(back) = n - k
          /\ \A i \in 1 .. n - k : back[i] = q[k + i]
      BY <2>1
    <2>4. w = front \o back
      BY DEF RemoveAt
    <2> HIDE DEF w, front, back
    <2>5. /\ w \in Seq(Commands) /\ Len(w) = n - 1
          /\ \A i \in 1 .. n - 1 : w[i] = IF i < k THEN q[i] ELSE q[i + 1]
      <3>1. /\ w \in Seq(Commands) /\ Len(w) = Len(front) + Len(back)
            /\ \A i \in 1 .. Len(front) + Len(back) :
                  w[i] = IF i <= Len(front) THEN front[i] ELSE back[i - Len(front)]
        <4>1. /\ front \o back \in Seq(Commands)
              /\ Len(front \o back) = Len(front) + Len(back)
              /\ \A i \in 1 .. Len(front) + Len(back) : (front \o back)[i] =
                    IF i <= Len(front) THEN front[i] ELSE back[i - Len(front)]
          BY <2>2, <2>3, ConcatProperties, Zenon
        <4> QED BY <2>4, <4>1, Zenon
      <3>2. \A i \in 1 .. n - 1 : ~(i < k) => back[i - (k - 1)] = q[i + 1]
        <4> SUFFICES ASSUME NEW i \in 1 .. n - 1, ~(i < k)
                     PROVE  back[i - (k - 1)] = q[i + 1]
          OBVIOUS
        <4>1. i - (k - 1) \in 1 .. n - k /\ k + (i - (k - 1)) = i + 1
          BY <2>1
        <4> QED BY <2>3, <4>1
      <3>3. ASSUME NEW i \in 1 .. n - 1
            PROVE  w[i] = IF i < k THEN q[i] ELSE q[i + 1]
        <4>1. i \in 1 .. Len(front) + Len(back) /\ (i <= Len(front) <=> i < k)
          BY <2>1, <2>2, <2>3
        <4>2. w[i] = IF i <= Len(front) THEN front[i] ELSE back[i - Len(front)]
          BY <3>1, <4>1
        <4>3. CASE i < k
          <5>1. w[i] = front[i] /\ i \in 1 .. k - 1
            BY <2>1, <4>1, <4>2, <4>3
          <5> QED BY <2>2, <4>3, <5>1
        <4>4. CASE ~(i < k)
          <5>1. w[i] = back[i - (k - 1)]
            BY <2>2, <4>1, <4>2, <4>4
          <5> QED BY <3>2, <4>4, <5>1
        <4> QED BY <4>3, <4>4
      <3> QED BY <2>1, <2>2, <2>3, <3>1, <3>3
    <2>6. \A i \in 1 .. n : i # k => q[i] # x
      <3> SUFFICES ASSUME NEW i \in 1 .. n, i # k PROVE q[i] # x
        OBVIOUS
      <3>1. q[i] \in Commands /\ q[k] \in Commands
        BY <2>1
      <3>2. i < k \/ k < i
        BY <2>1
      <3> QED BY <2>1, <3>1, <3>2 DEF Increasing, Commands
    <2>7. ToSet(w) \subseteq ToSet(q) \ {x}
      <3> SUFFICES ASSUME NEW i \in 1 .. n - 1
                   PROVE  w[i] \in ToSet(q) \ {x}
        BY <2>1, <2>5 DEF ToSet
      <3>1. PICK j \in 1 .. n : j # k /\ w[i] = q[j]
        <4>1. CASE i < k
          BY <2>1, <2>5, <4>1
        <4>2. CASE ~(i < k)
          <5>1. i + 1 \in 1 .. n /\ i + 1 # k
            BY <2>1, <4>2
          <5> QED BY <2>5, <4>2, <5>1
        <4> QED BY <4>1, <4>2
      <3> QED BY <2>6, <3>1 DEF ToSet
    <2>8. ToSet(q) \ {x} \subseteq ToSet(w)
      <3> SUFFICES ASSUME NEW i \in 1 .. n, q[i] # x
                   PROVE  q[i] \in ToSet(w)
        BY <2>1 DEF ToSet
      <3>1. PICK j \in 1 .. n - 1 : w[j] = q[i]
        <4>1. CASE i < k
          BY <2>1, <2>5, <4>1
        <4>2. CASE i > k
          <5>1. i - 1 \in 1 .. n - 1 /\ ~(i - 1 < k) /\ (i - 1) + 1 = i
            BY <2>1, <4>2
          <5> QED BY <2>5, <5>1
        <4> QED BY <2>1, <4>1, <4>2
      <3> QED BY <2>1, <2>5, <3>1 DEF ToSet
    <2>9. Increasing(w)
      <3> SUFFICES ASSUME NEW i \in 1 .. n - 1, NEW j \in 1 .. n - 1, i < j
                   PROVE  w[i] < w[j]
        BY <2>1, <2>5 DEF Increasing
      <3>1. CASE j < k
        <4>1. w[i] = q[i] /\ w[j] = q[j] /\ i \in 1 .. n /\ j \in 1 .. n
          BY <2>1, <2>5, <3>1
        <4> QED BY <4>1 DEF Increasing
      <3>2. CASE ~(j < k) /\ i < k
        <4>1. w[i] = q[i] /\ w[j] = q[j + 1] /\ i < j + 1 /\ i \in 1 .. n /\ j + 1 \in 1 .. n
          BY <2>1, <2>5, <3>2
        <4> QED BY <4>1 DEF Increasing
      <3>3. CASE ~(i < k)
        <4>1. w[i] = q[i + 1] /\ w[j] = q[j + 1] /\ i + 1 < j + 1
              /\ i + 1 \in 1 .. n /\ j + 1 \in 1 .. n
          BY <2>1, <2>5, <3>3
        <4> QED BY <4>1 DEF Increasing
      <3> QED BY <3>1, <3>2, <3>3
    <2>10. Without(q, x) = w
      BY <1>2 DEF Without, w, k
    <2> QED BY <2>1, <2>5, <2>7, <2>8, <2>9, <2>10
  <1> QED BY <1>1, <1>2

\* The numbers of commands and sessions.
LEMMA NumberTypes ==
    /\ \A i \in Commands : i \in Nat /\ i # NoId
    /\ \A s \in Sessions : s \in Nat /\ s # NoSession
    /\ NoId = 0 /\ NoSession = 0
  BY DeliveryAssumption DEF Commands, Sessions, NoId, NoSession

\* The frames on their way to the tab have their type.
LEMMA FrameTypes ==
    ASSUME TypeOK
    PROVE  \A f \in ToSet(down) : f \in Frames /\ f.id \in Nat /\ f.id \in Commands \cup {NoId}
  <1>1. ToSet(down) \subseteq Frames
    BY ElementsType, Zenon DEF TypeOK
  <1>2. \A f \in Frames : f.id \in Commands \cup {NoId}
    BY DEF Frames
  <1> QED BY <1>1, <1>2, NumberTypes

\* What does not depend on the tab's queues and the wire stays as it is when
\* the server does nothing.
LEMMA LogUnchanged ==
    ASSUME IInv, UNCHANGED <<dedupe, log>>
    PROVE  PublishedOnce' /\ InOrder' /\ DedupeIsLog' /\ Published' = Published
  BY DEF IInv, PublishedOnce, InOrder, DedupeIsLog, Published

\* A command that is submitted is new to everybody.
LEMMA SubmitInvariant ==
    ASSUME IInv, NEW i \in Commands, Submit(i)
    PROVE  IInv'
  <1>a. \A q \in Seq(Commands) :
           Append(q, i) \in Seq(Commands) /\ ToSet(Append(q, i)) = ToSet(q) \cup {i}
    BY ElementsGrow
  <1> USE NumberTypes, DeliveryAssumption DEF IInv
  <1> DEFINE sent == mode = "online" /\ wire \in bound
  <1>0. UNCHANGED <<acked, rejected, mode, token, newPage, wire, down, nextSession, live, bound,
                    closing, dedupe, files, log, losses>>
    BY DEF Submit, sessionVars
  <1>1. /\ i >= next /\ next' = i + 1 /\ next \in Nat
        /\ outbox' = Append(outbox, i) /\ Len(outbox) < MaxOutbox
    BY DEF Submit, TypeOK
  <1>2. /\ \A j \in ToSet(outbox) : j < i
        /\ \A s \in Sessions : i \notin Holds(s) /\ \A j \in Holds(s) : j < i
    <2>1. ToSet(outbox) \subseteq Commands
      BY ElementsType DEF TypeOK
    <2>2. \A s \in Sessions : Holds(s) \subseteq Commands
      BY ElementsType DEF TypeOK, Holds
    <2>3. \A j \in ToSet(outbox) : j < i
      BY <1>1, <2>1 DEF Numbered
    <2>4. \A s \in Sessions : \A j \in Holds(s) : j < i
      BY <1>1, <2>2 DEF Numbered
    <2> QED BY <2>3, <2>4
  <1>3. /\ outbox' \in Seq(Commands) /\ Len(outbox') <= MaxOutbox
        /\ ToSet(outbox') = ToSet(outbox) \cup {i}
        /\ Increasing(outbox')
    <2>1. outbox \in Seq(Commands) /\ Increasing(outbox)
      BY DEF TypeOK, Numbered
    <2>2. Len(outbox') = Len(outbox) + 1 /\ Len(outbox) \in Nat
      BY <1>1, <2>1
    <2>3. outbox' \in Seq(Commands) /\ ToSet(outbox') = ToSet(outbox) \cup {i}
      <3>1. /\ Append(outbox, i) \in Seq(Commands)
            /\ ToSet(Append(outbox, i)) = ToSet(outbox) \cup {i}
        BY <1>a, <2>1
      <3> QED BY <1>1, <3>1
    <2>4. Increasing(outbox')
      BY <1>1, <1>2, <2>1, IncreasingGrows
    <2> QED BY <1>1, <2>2, <2>3, <2>4
  <1>4. ASSUME NEW s \in Sessions
        PROVE  /\ up'[s] \in Seq(Commands)
               /\ ToSet(up'[s]) = IF sent /\ s = wire THEN ToSet(up[s]) \cup {i}
                                     ELSE ToSet(up[s])
               /\ Increasing(up'[s])
               /\ ~(sent /\ s = wire) => up'[s] = up[s]
    <2>1. up[s] \in Seq(Commands) /\ Increasing(up[s]) /\ \A j \in ToSet(up[s]) : j < i
      BY <1>2 DEF TypeOK, Numbered, Holds
    <2>2. CASE sent /\ s = wire
      <3>1. up'[s] = up[s] \o <<i>>
        BY <2>2 DEF Submit, MaySend, Write, TypeOK
      <3>2. up'[s] = Append(up[s], i) /\ Increasing(up'[s])
        BY <2>1, <3>1, IncreasingGrows
      <3>3. up'[s] \in Seq(Commands) /\ ToSet(up'[s]) = ToSet(up[s]) \cup {i}
        <4>1. /\ Append(up[s], i) \in Seq(Commands)
              /\ ToSet(Append(up[s], i)) = ToSet(up[s]) \cup {i}
          BY <1>a, <2>1
        <4> QED BY <3>2, <4>1
      <3> QED BY <2>2, <3>2, <3>3
    <2>3. CASE ~(sent /\ s = wire)
      <3>1. up'[s] = up[s]
        BY <2>3 DEF Submit, MaySend, Write, TypeOK
      <3> QED BY <2>1, <2>3, <3>1
    <2> QED BY <2>2, <2>3
  <1>5. up' \in [Sessions -> Seq(Commands)]
    <2>1. up' \in [Sessions -> Seq(Commands)] \/ up' = up
      BY <1>4 DEF Submit, Write, TypeOK
    <2> QED BY <2>1 DEF TypeOK
  <1> HIDE DEF sent
  <1>6. TypeOK'
    <2>1. next' \in 1 .. MaxCommands + 1
      BY <1>1 DEF Commands
    <2> QED BY <1>0, <1>3, <1>5, <2>1 DEF TypeOK
  <1>7. \A s \in Sessions : Holds(s)' = IF sent /\ s = wire THEN Holds(s) \cup {i} ELSE Holds(s)
    BY <1>0, <1>4 DEF Holds
  <1>8. Numbered'
    <2>1. \A j \in acked \cup rejected : j < i + 1
      BY <1>1 DEF Numbered, TypeOK
    <2>2. \A f \in ToSet(down) : f.id < i + 1
      <3>1. \A f \in ToSet(down) : f.id \in Nat
        BY FrameTypes
      <3> QED BY <1>1, <3>1 DEF Numbered
    <2>3. \A j \in ToSet(outbox') : j < i + 1
      BY <1>2, <1>3, ElementsType DEF TypeOK
    <2>4. \A s \in Sessions : \A j \in Holds(s)' : j < i + 1
      <3> SUFFICES ASSUME NEW s \in Sessions, NEW j \in Holds(s) \cup {i} PROVE j < i + 1
        BY <1>7
      <3>1. j \in Commands
        BY ElementsType DEF Holds, TypeOK
      <3> QED BY <1>2, <3>1
    <2> QED BY <1>0, <1>1, <1>3, <1>4, <2>1, <2>2, <2>3, <2>4 DEF Numbered
  <1>9. SessionsFresh' /\ HandshakeOrder'
    BY <1>0, <1>4 DEF SessionsFresh, HandshakeOrder, TypeOK, sent
  <1>10. SameIdentity'
    BY <1>2, <1>7 DEF SameIdentity, Holds
  <1>11. OutboxIsTokens'
    BY <1>0, <1>2, <1>3, <1>7 DEF OutboxIsTokens, HandshakeOrder, sent
  <1>12. RefusedIsGone'
    <2>1. i \notin rejected /\ \A f \in ToSet(down) : f.id # i
      <3>1. \A f \in ToSet(down) : f.id \in Nat
        BY FrameTypes
      <3>2. \A f \in ToSet(down) : f.id < next
        BY DEF Numbered
      <3>3. \A j \in rejected : j < next
        BY DEF Numbered
      <3> QED BY <1>1, <3>1, <3>2, <3>3
    <2> QED BY <1>0, <1>3, <1>7, <2>1 DEF RefusedIsGone
  <1>13. PublishedOnce' /\ InOrder' /\ DedupeIsLog' /\ AckIsPublished' /\ SentIsPublished'
    BY <1>0, LogUnchanged DEF AckIsPublished, SentIsPublished
  <1>14. PendingIsLater'
    <2>1. \A s \in Sessions : \A j \in ToSet(up'[s]) \ dedupe[s] : \A k \in dedupe[s] : k < j
      BY <1>2, <1>4 DEF PendingIsLater, Holds
    <2>2. token # NoSession =>
            \A j \in ToSet(outbox') \ dedupe[token] : \A k \in dedupe[token] : k < j
      BY <1>2, <1>3 DEF PendingIsLater, Holds, TypeOK
    <2> QED BY <1>0, <2>1, <2>2 DEF PendingIsLater
  <1>15. OutboxIsSent'
    <2> SUFFICES ASSUME token \in bound \ closing
                 PROVE  /\ \A j \in ToSet(outbox') \ Holds(token)' :
                              \A k \in ToSet(up'[token]) : k < j
                        /\ mode = "online" => ToSet(outbox') \subseteq Holds(token)'
      BY <1>0 DEF OutboxIsSent
    <2>1. token \in Sessions
      BY DEF TypeOK
    <2>2. CASE mode = "online"
      <3>1. sent /\ token = wire
        BY <2>2 DEF HandshakeOrder, sent
      <3>2. Holds(token)' = Holds(token) \cup {i}
        BY <1>0, <1>7, <2>1, <3>1
      <3>3. ToSet(outbox) \subseteq Holds(token)
        BY <2>2 DEF OutboxIsSent
      <3> QED BY <1>3, <3>2, <3>3
    <2>3. CASE mode # "online"
      <3>1. Holds(token)' = Holds(token) /\ ToSet(up'[token]) = ToSet(up[token])
        BY <1>0, <1>4, <1>7, <2>1, <2>3 DEF sent
      <3>2. \A k \in ToSet(up[token]) : k < i
        BY <1>2, <2>1 DEF Holds
      <3> QED BY <1>3, <2>3, <3>1, <3>2 DEF OutboxIsSent
    <2> QED BY <2>2, <2>3
  <1> QED BY <1>6, <1>8, <1>9, <1>10, <1>11, <1>12, <1>13, <1>14, <1>15

\* What arrives at the tab, and when: SESSION_READY and a refusal while it is
\* handshaking, and nothing else then.
LEMMA ArrivesWhen ==
    ASSUME IInv, NEW kind, Arrives(kind)
    PROVE  /\ down' \in Seq(Frames)
           /\ ToSet(down) = {Head(down)} \cup ToSet(down')
           /\ kind = "ready" /\ mode = "handshaking" => wire \in Sessions /\ down' = <<>>
           /\ kind = "long" => mode = "handshaking" /\ wire \in Sessions /\ down' = <<>>
           /\ kind = "refused" /\ mode = "handshaking" => wire = NoSession /\ down' = <<>>
           /\ kind \in {"ack", "error"} => mode = "online"
  <1> USE DEF IInv
  <1>1. down \in Seq(Frames) /\ down # <<>> /\ down' = Tail(down) /\ Head(down).kind = kind
    BY DEF Arrives, TypeOK
  <1>2. down' \in Seq(Frames) /\ ToSet(down) = {Head(down)} \cup ToSet(down')
    BY <1>1, ElementsShrink
  <1>3. /\ down = <<Ready>> => Head(down) = Ready /\ down' = <<>>
        /\ down = <<LongReady>> => Head(down) = LongReady /\ down' = <<>>
    BY <1>1
  <1>4. down = <<Refused>> => Head(down) = Refused /\ down' = <<>>
    BY <1>1
  <1>5. CASE mode = "offline"
    BY <1>1, <1>5 DEF HandshakeOrder
  <1>6. CASE mode = "handshaking"
    <2>1. CASE wire = NoSession
      BY <1>1, <1>2, <1>4, <1>6, <2>1 DEF HandshakeOrder, Refused
    <2>2. CASE wire # NoSession
      BY <1>1, <1>2, <1>3, <1>6, <2>2 DEF HandshakeOrder, Ready, LongReady, TypeOK
    <2> QED BY <2>1, <2>2
  <1>7. CASE mode = "online"
    BY <1>1, <1>2, <1>7 DEF HandshakeOrder
  <1> QED BY <1>5, <1>6, <1>7 DEF TypeOK

\* SESSION_READY sends the outbox over the transport of the token's session,
\* or of one that knows nothing yet.
LEMMA ReadyInvariant ==
    ASSUME IInv, ReceiveReady
    PROVE  IInv'
  <1> USE NumberTypes, DeliveryAssumption DEF IInv
  <1>0. UNCHANGED <<next, outbox, acked, rejected, newPage, wire, nextSession, live, bound,
                    closing, dedupe, files, log, losses>>
    BY DEF ReceiveReady, sessionVars, memory
  <1>1. /\ mode = "handshaking" /\ mode' = "online" /\ token' = wire /\ wire \in Sessions
        /\ down' = <<>>
    BY ArrivesWhen DEF ReceiveReady
  <1>2. up[wire] = <<>> /\ (token = wire \/ (token = NoSession /\ dedupe[wire] = {}))
    BY <1>1 DEF HandshakeOrder
  <1>3. /\ up' \in [Sessions -> Seq(Commands)]
        /\ \A s \in Sessions \ {wire} : up'[s] = up[s]
        /\ up'[wire] = IF wire \in bound THEN outbox ELSE <<>>
    <2>1. outbox \in Seq(Commands) /\ up \in [Sessions -> Seq(Commands)]
      BY DEF TypeOK
    <2>2. up[wire] \o outbox = outbox
      BY <1>2, <2>1, ConcatEmptySeq
    <2>3. CASE wire \in bound
      <3>1. up' = [up EXCEPT ![wire] = outbox]
        BY <2>2, <2>3 DEF ReceiveReady, Write, Retried
      <3> QED BY <1>1, <2>1, <2>3, <3>1
    <2>4. CASE wire \notin bound
      BY <1>1, <1>2, <2>1, <2>4 DEF ReceiveReady, Write
    <2> QED BY <2>3, <2>4
  <1>4. ToSet(<<>>) = {}
    BY ElementsOfShort
  <1>5. /\ \A s \in Sessions \ {wire} : Holds(s)' = Holds(s)
        /\ ToSet(up'[wire]) = IF wire \in bound THEN ToSet(outbox) ELSE {}
        /\ Holds(wire) = dedupe[wire]
    BY <1>0, <1>1, <1>2, <1>3, <1>4 DEF Holds
  <1>6. \A i \in ToSet(outbox) : \A s \in Sessions \ {wire} : i \notin Holds(s)
    BY <1>2 DEF OutboxIsTokens
  <1>7. ASSUME NEW s \in Sessions
        PROVE  Holds(s)' = ToSet(up'[s]) \cup dedupe[s]
    BY <1>0 DEF Holds
  <1>8. TypeOK'
    <2>1. down' \in Seq(Frames)
      BY <1>1
    <2> QED BY <1>0, <1>1, <1>3, <2>1 DEF TypeOK
  <1>9. Numbered'
    <2>1. \A s \in Sessions : Increasing(up'[s])
      <3>1. Increasing(<<>>)
        BY DEF Increasing
      <3> QED BY <1>3, <3>1 DEF Numbered
    <2>2. \A s \in Sessions : \A i \in Holds(s)' : i < next
      BY <1>3, <1>4, <1>7 DEF Numbered, Holds
    <2> QED BY <1>0, <1>1, <1>4, <2>1, <2>2 DEF Numbered
  <1>10. SessionsFresh'
    BY <1>0, <1>1, <1>3 DEF SessionsFresh
  <1>11. HandshakeOrder'
    BY <1>0, <1>1, <1>4 DEF HandshakeOrder
  <1>12. SameIdentity'
    <2> SUFFICES ASSUME NEW s \in Sessions, NEW t \in Sessions, s # t, NEW i,
                        i \in Holds(s)', i \in Holds(t)'
                 PROVE  FALSE
      BY <1>7 DEF SameIdentity, Holds
    <2>1. \A r \in Sessions : i \in Holds(r)' => i \in Holds(r) \/ (r = wire /\ i \in ToSet(outbox))
      BY <1>3, <1>4, <1>7 DEF Holds
    <2> QED BY <1>6, <2>1 DEF SameIdentity, Holds
  <1>13. OutboxIsTokens'
    BY <1>0, <1>1, <1>5, <1>6 DEF OutboxIsTokens
  <1>14. RefusedIsGone'
    <2>1. \A i \in rejected : \A s \in Sessions : i \notin Holds(s)'
      BY <1>3, <1>4, <1>7 DEF RefusedIsGone, Holds
    <2> QED BY <1>0, <1>1, <1>4, <2>1 DEF RefusedIsGone
  <1>15. PublishedOnce' /\ InOrder' /\ DedupeIsLog' /\ AckIsPublished' /\ SentIsPublished'
    BY <1>0, <1>1, <1>4, LogUnchanged DEF AckIsPublished, SentIsPublished
  <1>16. PendingIsLater'
    <2>1. \A i \in ToSet(outbox) \ dedupe[wire] : \A k \in dedupe[wire] : k < i
      BY <1>1, <1>2 DEF PendingIsLater
    <2>2. \A s \in Sessions : \A i \in ToSet(up'[s]) \ dedupe[s] : \A k \in dedupe[s] : k < i
      BY <1>3, <1>5, <2>1 DEF PendingIsLater
    <2> QED BY <1>0, <1>1, <2>1, <2>2 DEF PendingIsLater
  <1>17. OutboxIsSent'
    <2>1. wire \in bound => ToSet(outbox) \subseteq ToSet(up'[wire]) \cup dedupe[wire]
      BY <1>5
    <2> QED BY <1>0, <1>1, <1>7, <2>1 DEF OutboxIsSent
  <1> QED BY <1>8, <1>9, <1>10, <1>11, <1>12, <1>13, <1>14, <1>15, <1>16, <1>17

\* A tab whose outbox has lost commands, and to which nothing but what was
\* under way is sent, keeps its promises about the rest.
LEMMA OutboxShrinks ==
    ASSUME IInv, UNCHANGED <<next, acked, nextSession, live, bound, closing, up, dedupe, log>>,
           outbox' \in Seq(Commands), Increasing(outbox'),
           ToSet(outbox') \subseteq ToSet(outbox),
           ToSet(down') \subseteq ToSet(down),
           \/ token' = token /\ mode' \in {mode, "offline", "handshaking"}
           \/ token' = NoSession /\ outbox' = <<>>
    PROVE  /\ SameIdentity' /\ OutboxIsTokens' /\ PendingIsLater' /\ OutboxIsSent'
           /\ DedupeIsLog' /\ AckIsPublished' /\ PublishedOnce' /\ InOrder' /\ SentIsPublished'
           /\ rejected' = rejected => RefusedIsGone' /\ Numbered'
  <1> USE DEF IInv
  <1>1. \A s \in Sessions : Holds(s)' = Holds(s)
    BY DEF Holds
  <1>2. ToSet(<<>>) = {}
    BY ElementsOfShort
  <1>3. SameIdentity'
    BY DEF SameIdentity
  <1>4. PublishedOnce' /\ InOrder' /\ DedupeIsLog' /\ AckIsPublished' /\ SentIsPublished'
    BY LogUnchanged DEF AckIsPublished, SentIsPublished
  <1>5. rejected' = rejected => RefusedIsGone' /\ Numbered'
    BY <1>1 DEF RefusedIsGone, Numbered
  <1>6. OutboxIsTokens'
    BY <1>1, <1>2 DEF OutboxIsTokens
  <1>7. PendingIsLater'
    BY <1>2, NumberTypes DEF PendingIsLater
  <1>8. OutboxIsSent'
    <2>1. CASE token' = token /\ mode' \in {mode, "offline", "handshaking"}
      <3>1. token \in bound \ closing => token \in Sessions
        BY DEF TypeOK
      <3> QED BY <1>1, <2>1, <3>1 DEF OutboxIsSent
    <2>2. CASE token' = NoSession /\ outbox' = <<>>
      BY <1>2, <2>2 DEF OutboxIsSent
    <2> QED BY <2>1, <2>2
  <1> QED BY <1>3, <1>4, <1>5, <1>6, <1>7, <1>8

\* The empty queues.
LEMMA EmptyQueues ==
    /\ <<>> \in Seq(Commands) /\ <<>> \in Seq(Frames) /\ Len(<<>>) = 0
    /\ Increasing(<<>>) /\ ToSet(<<>>) = {}
  BY ElementsOfShort DEF Increasing

\* The tab's other steps leave the server alone and lose, at most, what the
\* tab was about to send and what was sent to it.
LEMMA TabInvariant ==
    ASSUME IInv, Connect \/ DiscardReady \/ InvalidSession \/ LoseTransport \/ Reload
    PROVE  IInv'
  <1> USE NumberTypes, DeliveryAssumption, EmptyQueues DEF IInv
  <1>1. CASE Connect
    <2>1. /\ UNCHANGED <<next, outbox, acked, rejected, token, newPage, wire, down, nextSession,
                         live, bound, closing, up, dedupe, files, log, losses>>
          /\ mode = "offline" /\ mode' = "handshaking"
      BY <1>1 DEF Connect, memory, sessionVars, commandVars
    <2>2. TypeOK'
      BY <2>1 DEF TypeOK
    <2>3. SessionsFresh' /\ HandshakeOrder'
      BY <2>1 DEF SessionsFresh, HandshakeOrder
    <2>4. outbox' \in Seq(Commands) /\ Increasing(outbox')
      BY <2>1 DEF TypeOK, Numbered
    <2> QED BY <2>1, <2>2, <2>3, <2>4, OutboxShrinks
  <1>2. CASE InvalidSession
    <2>1. /\ UNCHANGED <<next, acked, rejected, newPage, wire, nextSession, live, bound, closing,
                         up, dedupe, files, log, losses>>
          /\ mode = "handshaking" /\ Arrives("refused")
          /\ token' = NoSession /\ outbox' = <<>> /\ mode' = "offline"
      BY <1>2 DEF InvalidSession, AbandonedOutbox, sessionVars, commandVars
    <2>2. wire = NoSession /\ down' = <<>>
      BY <2>1, ArrivesWhen
    <2>3. TypeOK'
      BY <2>1, <2>2 DEF TypeOK
    <2>4. SessionsFresh' /\ HandshakeOrder'
      BY <2>1, <2>2 DEF SessionsFresh, HandshakeOrder, TypeOK
    <2> QED BY <2>1, <2>2, <2>3, <2>4, OutboxShrinks
  <1>3. CASE LoseTransport \/ Reload
    <2>1. /\ UNCHANGED <<next, acked, rejected, token, nextSession, live, bound, closing, up,
                         dedupe, files, log>>
          /\ mode' = "offline" /\ wire' = NoSession /\ down' = <<>>
          /\ outbox' = outbox \/ outbox' = <<>>
          /\ newPage' = newPage \/ newPage' = TRUE
          /\ losses' = losses \/ (losses < MaxLosses /\ losses' = losses + 1)
      <3>1. CASE LoseTransport
        BY <3>1 DEF LoseTransport, Drop, memory, sessionVars, commandVars
      <3>2. CASE Reload
        BY <3>2 DEF Reload, Drop, memory, sessionVars, commandVars
      <3> QED BY <1>3, <3>1, <3>2
    <2>l. losses' \in 0 .. MaxLosses
      <3>1. losses \in 0 .. MaxLosses
        BY DEF TypeOK
      <3> QED BY <2>1, <3>1
    <2>2. newPage' \in BOOLEAN
      BY <2>1, Zenon DEF TypeOK
    <2>3. outbox' \in Seq(Commands) /\ Len(outbox') <= MaxOutbox /\ Increasing(outbox')
      <3>1. CASE outbox' = outbox
        BY <3>1 DEF TypeOK, Numbered
      <3>2. CASE outbox' = <<>>
        BY <3>2
      <3> QED BY <2>1, <3>1, <3>2
    <2>4. TypeOK'
      BY <2>1, <2>2, <2>3, <2>l DEF TypeOK
    <2>5. SessionsFresh' /\ HandshakeOrder'
      BY <2>1 DEF SessionsFresh, HandshakeOrder, TypeOK
    <2>6. ToSet(outbox') \subseteq ToSet(outbox)
      BY <2>1
    <2> QED BY <2>1, <2>3, <2>4, <2>5, <2>6, OutboxShrinks
  <1>4. CASE DiscardReady
    <2>1. /\ UNCHANGED <<next, outbox, acked, rejected, mode, token, newPage, wire, nextSession,
                         live, bound, closing, up, dedupe, files, log, losses>>
          /\ Arrives("long")
      BY <1>4 DEF DiscardReady, memory, sessionVars, commandVars
    <2>2. mode = "handshaking" /\ wire \in Sessions /\ down' = <<>>
      BY <2>1, ArrivesWhen
    <2>3. TypeOK'
      BY <2>1, <2>2 DEF TypeOK
    <2>4. SessionsFresh' /\ HandshakeOrder'
      BY <2>1, <2>2 DEF SessionsFresh, HandshakeOrder
    <2>5. outbox' \in Seq(Commands) /\ Increasing(outbox')
      BY <2>1 DEF TypeOK, Numbered
    <2> QED BY <2>1, <2>2, <2>3, <2>4, <2>5, OutboxShrinks
  <1> QED BY <1>1, <1>2, <1>3, <1>4

\* An answer settles a command: an acknowledged one is in the room, and one
\* that was refused is with no session any more.
LEMMA AnswerInvariant ==
    ASSUME IInv, ReceiveAck \/ ReceiveError
    PROVE  IInv'
  <1> USE NumberTypes, DeliveryAssumption DEF IInv
  <1> DEFINE i == Head(down).id
  <1>0. UNCHANGED <<next, mode, token, newPage, wire, nextSession, live, bound, closing, up,
                    dedupe, files, log, losses>>
    BY DEF ReceiveAck, ReceiveError, sessionVars, commandVars
  <1>1. /\ outbox' = Without(outbox, i)
        /\ Arrives("ack") \/ Arrives("error")
    BY DEF ReceiveAck, ReceiveError
  <1>2. /\ down' \in Seq(Frames) /\ ToSet(down) = {Head(down)} \cup ToSet(down')
        /\ mode = "online"
    BY <1>1, ArrivesWhen
  <1>3. /\ outbox' \in Seq(Commands) /\ Len(outbox') <= MaxOutbox
        /\ ToSet(outbox') = ToSet(outbox) \ {i} /\ Increasing(outbox')
    <2>1. outbox \in Seq(Commands) /\ Increasing(outbox) /\ Len(outbox) <= MaxOutbox
      BY DEF TypeOK, Numbered
    <2>2. /\ Without(outbox, i) \in Seq(Commands) /\ Len(Without(outbox, i)) <= Len(outbox)
          /\ ToSet(Without(outbox, i)) = ToSet(outbox) \ {i}
          /\ Increasing(Without(outbox, i))
      BY <2>1, WithoutOne
    <2>3. Len(outbox) \in Nat /\ Len(Without(outbox, i)) \in Nat
      BY <2>1, <2>2
    <2> QED BY <1>1, <2>1, <2>2, <2>3
  <1>4. i \in ToSet(outbox) => i \in Commands /\ i < next
    BY ElementsType DEF TypeOK, Numbered
  <1> HIDE DEF i
  <1>5. SessionsFresh' /\ HandshakeOrder'
    BY <1>0, <1>2 DEF SessionsFresh, HandshakeOrder
  <1>6. CASE ReceiveAck
    <2>1. /\ rejected' = rejected
          /\ acked' = IF i \in ToSet(outbox) THEN acked \cup {i} ELSE acked
          /\ Head(down).kind = "ack"
      BY <1>6 DEF ReceiveAck, Arrives, i
    <2>2. i \in Published
      BY <1>2, <2>1 DEF AckIsPublished, i
    <2>3. TypeOK'
      BY <1>0, <1>2, <1>3, <1>4, <2>1 DEF TypeOK
    <2>4. SentIsPublished' /\ AckIsPublished'
      BY <1>0, <1>2, <2>1, <2>2, LogUnchanged DEF SentIsPublished, AckIsPublished
    <2>5. Numbered'
      <3>1. \A j \in acked' : j < next
        BY <1>4, <2>1 DEF Numbered
      <3> QED BY <1>0, <1>2, <1>3, <2>1, <3>1 DEF Numbered, Holds
    <2>6. RefusedIsGone'
      BY <1>0, <1>2, <1>3, <2>1 DEF RefusedIsGone, Holds
    <2>7. SameIdentity' /\ OutboxIsTokens' /\ PendingIsLater' /\ OutboxIsSent' /\ DedupeIsLog'
          /\ PublishedOnce' /\ InOrder'
      <3>1. SameIdentity' /\ OutboxIsTokens' /\ PendingIsLater'
        BY <1>0, <1>3 DEF SameIdentity, OutboxIsTokens, PendingIsLater, Holds
      <3>2. OutboxIsSent'
        BY <1>0, <1>3 DEF OutboxIsSent, Holds
      <3> QED BY <1>0, <3>1, <3>2, LogUnchanged
    <2> QED BY <1>5, <2>3, <2>4, <2>5, <2>6, <2>7
  <1>7. CASE ReceiveError
    <2>1. /\ acked' = acked
          /\ rejected' = IF i \in ToSet(outbox) THEN rejected \cup {i} ELSE rejected
          /\ Head(down).kind = "error"
      BY <1>7 DEF ReceiveError, Arrives, i
    <2>2. \A s \in Sessions : i \notin Holds(s)
      BY <1>2, <2>1 DEF RefusedIsGone, i
    <2>3. TypeOK'
      BY <1>0, <1>2, <1>3, <1>4, <2>1 DEF TypeOK
    <2>4. Numbered'
      <3>1. \A j \in rejected' : j < next
        BY <1>4, <2>1 DEF Numbered
      <3> QED BY <1>0, <1>2, <1>3, <2>1, <3>1 DEF Numbered, Holds
    <2>5. RefusedIsGone'
      BY <1>0, <1>2, <1>3, <2>1, <2>2 DEF RefusedIsGone, Holds
    <2>6. /\ SameIdentity' /\ OutboxIsTokens' /\ PendingIsLater' /\ OutboxIsSent' /\ DedupeIsLog'
          /\ AckIsPublished' /\ PublishedOnce' /\ InOrder' /\ SentIsPublished'
      BY <1>0, <1>2, <1>3, <2>1, OutboxShrinks
    <2> QED BY <1>5, <2>3, <2>4, <2>5, <2>6
  <1> QED BY <1>6, <1>7

-----------------------------------------------------------------------------
(* The server *)

\* Binding, refusing, detaching and expiring leave the tab's commands alone; a
\* session that is served has nothing under way.
LEMMA SessionInvariant ==
    ASSUME IInv,
           \/ ServeHello
           \/ \E s \in Sessions : Detach(s) \/ Expire(s)
    PROVE  IInv'
  <1> USE NumberTypes, DeliveryAssumption, EmptyQueues DEF IInv
  <1>1. ASSUME UNCHANGED <<next, outbox, acked, rejected, mode, token, dedupe, log>>,
               up' \in [Sessions -> Seq(Commands)],
               \A s \in Sessions : up'[s] \in {up[s], <<>>},
               \/ down' = down \/ \E f \in {Ready, LongReady, Refused} : down' = <<f>>
        PROVE  /\ Numbered' /\ SameIdentity' /\ OutboxIsTokens' /\ RefusedIsGone' /\ DedupeIsLog'
               /\ AckIsPublished' /\ PendingIsLater' /\ PublishedOnce' /\ SentIsPublished'
               /\ InOrder'
    <2>1. \A s \in Sessions : Holds(s)' \subseteq Holds(s) /\ ToSet(up'[s]) \subseteq ToSet(up[s])
      BY <1>1 DEF Holds
    <2>2. \A f \in ToSet(down') : f \in ToSet(down) \cup {Ready, LongReady, Refused}
      BY <1>1, ElementsOfShort
    <2>3. Numbered'
      <3>1. next \in Nat /\ next > 0 /\ Ready.id = 0 /\ LongReady.id = 0 /\ Refused.id = 0
        BY DEF TypeOK, Ready, LongReady, Refused
      <3>2. \A f \in ToSet(down') : f.id < next
        BY <2>2, <3>1 DEF Numbered
      <3>3. \A s \in Sessions : Increasing(up'[s])
        BY <1>1 DEF Numbered
      <3> QED BY <1>1, <2>1, <3>2, <3>3 DEF Numbered
    <2>4. SameIdentity'
      BY <1>1, <2>1 DEF SameIdentity, Holds
    <2>5. OutboxIsTokens' /\ PendingIsLater'
      BY <1>1, <2>1 DEF OutboxIsTokens, PendingIsLater
    <2>6. RefusedIsGone' /\ AckIsPublished'
      <3>1. \A f \in ToSet(down') : f.kind \in {"ack", "error"} => f \in ToSet(down)
        BY <2>2 DEF Ready, LongReady, Refused
      <3>2. RefusedIsGone'
        BY <1>1, <2>1, <3>1 DEF RefusedIsGone
      <3>3. AckIsPublished'
        BY <1>1, <3>1, LogUnchanged DEF AckIsPublished
      <3> QED BY <3>2, <3>3
    <2>7. DedupeIsLog' /\ PublishedOnce' /\ InOrder' /\ SentIsPublished'
      BY <1>1, LogUnchanged DEF SentIsPublished
    <2> QED BY <2>3, <2>4, <2>5, <2>6, <2>7
  <1>2. <<Ready>> \in Seq(Frames) /\ <<LongReady>> \in Seq(Frames) /\ <<Refused>> \in Seq(Frames)
    BY DEF Frames, Ready, LongReady, Refused
  <1>3. CASE ServeFresh
    <2>1. /\ UNCHANGED <<next, outbox, acked, rejected, mode, token, closing, up, dedupe, files,
                         log, losses>>
          /\ mode = "handshaking" /\ wire = NoSession /\ token = NoSession
          /\ nextSession \in Sessions /\ nextSession' = nextSession + 1
          /\ live' = live \cup {nextSession} /\ bound' = bound \cup {nextSession}
          /\ wire' = nextSession /\ down' \in {<<Ready>>, <<LongReady>>} /\ newPage' = FALSE
      BY <1>3 DEF ServeFresh, AnswerHello, HelloWaits, memory, commandVars
    <2>2. nextSession \notin live /\ dedupe[nextSession] = {} /\ up[nextSession] = <<>>
      BY <2>1 DEF SessionsFresh, TypeOK
    <2>3. TypeOK'
      <3>1. nextSession' \in 1 .. MaxSessions + 1
        BY <2>1 DEF Sessions
      <3>2. newPage' \in BOOLEAN
        BY <2>1, Zenon
      <3>3. live' \subseteq Sessions /\ bound' \subseteq live' /\ closing' \subseteq bound'
            /\ wire' \in Sessions \cup {NoSession} /\ down' \in Seq(Frames)
        BY <1>2, <2>1 DEF TypeOK
      <3> QED BY <2>1, <3>1, <3>2, <3>3 DEF TypeOK
    <2>4. SessionsFresh' /\ HandshakeOrder' /\ OutboxIsSent'
      BY <2>1, <2>2 DEF SessionsFresh, HandshakeOrder, OutboxIsSent, TypeOK
    <2> QED BY <1>1, <2>1, <2>3, <2>4 DEF TypeOK
  <1>4. CASE ServeResume
    <2>1. /\ UNCHANGED <<next, outbox, acked, rejected, mode, token, nextSession, live, closing,
                         up, dedupe, log, losses>>
          /\ mode = "handshaking" /\ wire = NoSession /\ token \in Sessions
          /\ token \in live \ bound /\ bound' = bound \cup {token}
          /\ wire' = token /\ down' \in {<<Ready>>, <<LongReady>>} /\ newPage' = FALSE
          /\ files' = files \/ files' = [files EXCEPT ![token] = 0]
      BY <1>4 DEF ServeResume, AnswerHello, Resumable, HelloWaits, memory, TypeOK
    <2>2. up[token] = <<>>
      BY <2>1 DEF SessionsFresh
    <2>3. TypeOK'
      <3>1. newPage' \in BOOLEAN
        BY <2>1, Zenon
      <3>2. files' \in [Sessions -> 0 .. MaxFiles]
        <4>1. files \in [Sessions -> 0 .. MaxFiles] /\ 0 \in 0 .. MaxFiles
          BY DEF TypeOK
        <4>2. CASE files' = files
          BY <4>1, <4>2
        <4>3. CASE files' = [files EXCEPT ![token] = 0]
          BY <4>1, <4>3
        <4> QED BY <2>1, <4>2, <4>3
      <3>3. bound' \subseteq live /\ closing \subseteq bound'
        BY <2>1 DEF TypeOK
      <3> QED BY <1>2, <2>1, <3>1, <3>2, <3>3 DEF TypeOK
    <2>4. SessionsFresh' /\ HandshakeOrder' /\ OutboxIsSent'
      BY <2>1, <2>2 DEF SessionsFresh, HandshakeOrder, OutboxIsSent
    <2> QED BY <1>1, <2>1, <2>3, <2>4 DEF TypeOK
  <1>5. CASE RefuseHello
    <2>1. /\ UNCHANGED <<next, outbox, acked, rejected, mode, token, newPage, wire, nextSession,
                         live, bound, closing, up, dedupe, files, log, losses>>
          /\ mode = "handshaking" /\ wire = NoSession /\ down' = <<Refused>>
      BY <1>5 DEF RefuseHello, HelloWaits, memory, sessionVars, commandVars
    <2>2. TypeOK'
      BY <1>2, <2>1 DEF TypeOK
    <2>3. SessionsFresh' /\ HandshakeOrder'
      BY <2>1 DEF SessionsFresh, HandshakeOrder
    <2>4. OutboxIsSent'
      BY <2>1 DEF OutboxIsSent, Holds
    <2> QED BY <1>1, <2>1, <2>2, <2>3, <2>4 DEF TypeOK
  <1>6. ASSUME NEW s \in Sessions, Detach(s)
        PROVE  IInv'
    <2>1. /\ UNCHANGED <<next, outbox, acked, rejected, mode, token, newPage, wire, down,
                         nextSession, live, dedupe, files, log>>
          /\ bound' = bound \ {s} /\ closing' = closing \ {s}
          /\ up' = [up EXCEPT ![s] = <<>>]
          /\ losses' = losses \/ (losses < MaxLosses /\ losses' = losses + 1)
      BY <1>6 DEF Detach, tabVars, memory
    <2>l. losses' \in 0 .. MaxLosses
      <3>1. losses \in 0 .. MaxLosses
        BY DEF TypeOK
      <3> QED BY <2>1, <3>1
    <2>2. /\ up' \in [Sessions -> Seq(Commands)]
          /\ \A t \in Sessions : up'[t] = IF t = s THEN <<>> ELSE up[t]
      BY <2>1 DEF TypeOK
    <2>3. TypeOK'
      BY <2>1, <2>2, <2>l DEF TypeOK
    <2>4. SessionsFresh' /\ HandshakeOrder'
      BY <2>1, <2>2 DEF SessionsFresh, HandshakeOrder, TypeOK
    <2>5. OutboxIsSent'
      BY <2>1, <2>2 DEF OutboxIsSent, Holds, TypeOK
    <2> QED BY <1>1, <2>1, <2>2, <2>3, <2>4, <2>5
  <1>7. ASSUME NEW s \in Sessions, Expire(s)
        PROVE  IInv'
    <2>1. /\ UNCHANGED <<next, outbox, acked, rejected, mode, token, newPage, wire, down,
                         nextSession, bound, closing, up, dedupe, files, log, losses>>
          /\ s \notin bound /\ live' = live \ {s}
      BY <1>7 DEF Expire, tabVars, memory, commandVars
    <2>2. TypeOK'
      BY <2>1 DEF TypeOK
    <2>3. SessionsFresh' /\ HandshakeOrder'
      BY <2>1 DEF SessionsFresh, HandshakeOrder
    <2>4. OutboxIsSent'
      BY <2>1 DEF OutboxIsSent, Holds
    <2> QED BY <1>1, <2>1, <2>2, <2>3, <2>4 DEF TypeOK
  <1> QED BY <1>3, <1>4, <1>5, <1>6, <1>7 DEF ServeHello

\* A command that the server reads leaves the queue of its transport.  The tab
\* speaks to that session only when it is online.
LEMMA TakenCommand ==
    ASSUME IInv, NEW s \in Sessions, TakeCommand(s)
    PROVE  /\ s \in bound \ closing
           /\ Head(up[s]) \in Commands /\ Head(up[s]) < next
           /\ up' \in [Sessions -> Seq(Commands)]
           /\ \A t \in Sessions : t # s => up'[t] = up[t]
           /\ ToSet(up[s]) = {Head(up[s])} \cup ToSet(up'[s])
           /\ \A k \in ToSet(up'[s]) : Head(up[s]) < k
           /\ Increasing(up'[s])
           /\ wire = s => mode = "online"
  <1> USE DEF IInv
  <1>1. /\ s \in bound \ closing /\ up[s] # <<>> /\ up[s] \in Seq(Commands)
        /\ up' = [up EXCEPT ![s] = Tail(@)] /\ Increasing(up[s])
    BY DEF TakeCommand, TypeOK, Numbered
  <1>2. /\ Head(up[s]) \in Commands /\ Tail(up[s]) \in Seq(Commands)
        /\ ToSet(up[s]) = {Head(up[s])} \cup ToSet(Tail(up[s]))
    BY <1>1, ElementsShrink
  <1>3. Increasing(Tail(up[s])) /\ \A k \in ToSet(Tail(up[s])) : Head(up[s]) < k
    BY <1>1, IncreasingShrinks
  <1>4. /\ up' \in [Sessions -> Seq(Commands)] /\ up'[s] = Tail(up[s])
        /\ \A t \in Sessions : t # s => up'[t] = up[t]
    BY <1>1, <1>2 DEF TypeOK
  <1>5. Head(up[s]) < next
    BY <1>2 DEF Numbered, Holds
  <1>6. wire = s => mode = "online"
    BY <1>1, NumberTypes DEF HandshakeOrder, TypeOK
  <1> QED BY <1>1, <1>2, <1>3, <1>4, <1>5, <1>6

\* An answer goes to the tab when the tab still has the transport.
LEMMA Replied ==
    ASSUME IInv, NEW s \in Sessions, NEW f \in Frames, Reply(s, f)
    PROVE  /\ down' \in Seq(Frames)
           /\ wire = s => ToSet(down') = ToSet(down) \cup {f}
           /\ wire # s => down' = down
  <1>1. down \in Seq(Frames)
    BY DEF IInv, TypeOK
  <1>2. CASE wire = s
    <2>1. down' = Append(down, f)
      BY <1>2 DEF Reply
    <2>2. Append(down, f) \in Seq(Frames) /\ ToSet(Append(down, f)) = ToSet(down) \cup {f}
      BY <1>1, ElementsGrow
    <2> QED BY <1>2, <2>1, <2>2
  <1>3. CASE wire # s
    BY <1>1, <1>3 DEF Reply
  <1> QED BY <1>2, <1>3

\* What every answer to a command leaves true: the session holds no command
\* that it did not hold before, and the tab, if it still listens, gets one more
\* frame.
LEMMA CommandAnswered ==
    ASSUME IInv, NEW s \in Sessions, NEW f \in Frames, TakeCommand(s), Reply(s, f),
           f.kind \in {"ack", "error"}, f.id < next,
           UNCHANGED <<next, outbox, acked, rejected, mode, token, newPage, wire, nextSession,
                       live, bound, losses>>,
           \A t \in Sessions : t # s => dedupe'[t] = dedupe[t],
           dedupe'[s] \subseteq dedupe[s] \cup {Head(up[s])}
    PROVE  Numbered' /\ SessionsFresh' /\ HandshakeOrder' /\ SameIdentity' /\ OutboxIsTokens'
  <1> USE NumberTypes, DeliveryAssumption DEF IInv
  <1>1. /\ s \in bound \ closing
        /\ up' \in [Sessions -> Seq(Commands)]
        /\ \A t \in Sessions : t # s => up'[t] = up[t]
        /\ ToSet(up[s]) = {Head(up[s])} \cup ToSet(up'[s])
        /\ Increasing(up'[s])
        /\ wire = s => mode = "online"
    BY TakenCommand
  <1>2. /\ down' \in Seq(Frames)
        /\ wire = s => ToSet(down') = ToSet(down) \cup {f}
        /\ wire # s => down' = down
    BY Replied
  <1>3. \A t \in Sessions : ToSet(up'[t]) \cup dedupe'[t] \subseteq ToSet(up[t]) \cup dedupe[t]
    BY <1>1
  <1>4. \A t \in Sessions : Holds(t)' \subseteq Holds(t)
    BY <1>3 DEF Holds
  <1>5. Numbered'
    <2>1. \A g \in ToSet(down') : g.id < next
      BY <1>2 DEF Numbered
    <2>2. \A t \in Sessions : Increasing(up'[t])
      BY <1>1 DEF Numbered
    <2> QED BY <1>4, <2>1, <2>2 DEF Numbered
  <1>6. SessionsFresh'
    <2>1. s < nextSession
      BY <1>1 DEF SessionsFresh, TypeOK
    <2> QED BY <1>1, <2>1 DEF SessionsFresh, TypeOK
  <1>7. HandshakeOrder'
    <2>1. CASE wire = s
      <3>1. mode = "online" /\ token = wire /\ \A g \in ToSet(down') : g.kind \in {"ack", "error"}
        BY <1>1, <1>2, <2>1 DEF HandshakeOrder
      <3> QED BY <2>1, <3>1 DEF HandshakeOrder
    <2>2. CASE wire # s
      <3>1. /\ down' = down
            /\ wire # NoSession => up'[wire] = up[wire] /\ dedupe'[wire] = dedupe[wire]
        BY <1>1, <1>2, <2>2 DEF TypeOK
      <3> QED BY <2>2, <3>1 DEF HandshakeOrder
    <2> QED BY <2>1, <2>2
  <1>8. SameIdentity'
    BY <1>3 DEF SameIdentity
  <1>9. OutboxIsTokens'
    BY <1>4 DEF OutboxIsTokens
  <1> QED BY <1>5, <1>6, <1>7, <1>8, <1>9

\* A terminal error: the command that it names is with the session no more, and
\* was never with another.  The tab sends nothing over the transport that the
\* server now closes.
LEMMA ErrorInvariant ==
    ASSUME IInv, NEW s \in Sessions,
           RefuseOversized(s) \/ RefuseInvalid(s) \/ RefuseFull(s) \/ RefuseFiles(s)
    PROVE  IInv'
  <1> USE NumberTypes, DeliveryAssumption DEF IInv
  <1> DEFINE i == Head(up[s])
  <1>1. PICK n \in {NoId, i} :
          /\ TakeCommand(s) /\ Reply(s, ApiError(n))
          /\ closing' = closing \cup {s}
          /\ n = i => i \notin dedupe[s]
          /\ UNCHANGED <<next, outbox, acked, rejected, mode, token, newPage, wire, nextSession,
                         live, bound, dedupe, files, log, losses>>
    <2>1. CASE RefuseOversized(s)
      <3>1. i \in Oversized => i \notin dedupe[s]
        BY DEF DedupeIsLog, Sound
      <3> QED BY <2>1, <3>1 DEF RefuseOversized, OnApiError, memory
    <2>2. CASE RefuseInvalid(s)
      <3>1. i \in Invalid => i \notin dedupe[s]
        BY DEF DedupeIsLog, Sound
      <3> QED BY <2>2, <3>1 DEF RefuseInvalid, OnApiError, memory
    <2>3. CASE RefuseFull(s)
      BY <2>3 DEF RefuseFull, OnApiError, IsPrior, memory
    <2>4. CASE RefuseFiles(s)
      BY <2>4 DEF RefuseFiles, OnApiError, IsPrior, memory
    <2> QED BY <2>1, <2>2, <2>3, <2>4
  <1>2. /\ s \in bound \ closing /\ i \in Commands /\ i < next
        /\ up' \in [Sessions -> Seq(Commands)]
        /\ \A t \in Sessions : t # s => up'[t] = up[t]
        /\ ToSet(up[s]) = {i} \cup ToSet(up'[s])
        /\ \A k \in ToSet(up'[s]) : i < k
    BY <1>1, TakenCommand
  <1>3. /\ ApiError(n) \in Frames /\ ApiError(n).kind = "error" /\ ApiError(n).id = n
        /\ n \in Nat /\ n < next
    <2>1. n \in Commands \cup {NoId} /\ next \in Nat /\ next > 0
      BY <1>1, <1>2 DEF TypeOK
    <2> QED BY <1>1, <1>2, <2>1 DEF ApiError, Frames
  <1>4. /\ down' \in Seq(Frames)
        /\ wire = s => ToSet(down') = ToSet(down) \cup {ApiError(n)}
        /\ wire # s => down' = down
    BY <1>1, <1>3, Replied
  <1>5. Numbered' /\ SessionsFresh' /\ HandshakeOrder' /\ SameIdentity' /\ OutboxIsTokens'
    BY <1>1, <1>3, CommandAnswered
  <1> HIDE DEF i
  <1>6. /\ \A t \in Sessions : ToSet(up'[t]) \subseteq ToSet(up[t])
        /\ \A t \in Sessions : Holds(t)' \subseteq Holds(t)
    BY <1>1, <1>2 DEF Holds
  <1>7. \A t \in Sessions : n \notin Holds(t)'
    <2>1. CASE n = NoId
      <3>1. \A t \in Sessions : Holds(t) \subseteq Commands
        BY ElementsType DEF TypeOK, Holds
      <3> QED BY <1>6, <2>1, <3>1
    <2>2. CASE n = i
      <3>1. i \notin ToSet(up'[s]) /\ i \notin dedupe[s]
        BY <1>1, <1>2, <2>2
      <3>2. \A t \in Sessions : t # s => i \notin ToSet(up[t]) \cup dedupe[t]
        BY <1>2 DEF SameIdentity
      <3> QED BY <1>1, <1>2, <2>2, <3>1, <3>2 DEF Holds
    <2> QED BY <1>1, <2>1, <2>2
  <1>8. TypeOK'
    BY <1>1, <1>2, <1>4 DEF TypeOK
  <1>9. RefusedIsGone'
    <2>1. \A g \in ToSet(down') : g \in ToSet(down) \/ g.id = n
      BY <1>3, <1>4
    <2> QED BY <1>1, <1>6, <1>7, <2>1 DEF RefusedIsGone
  <1>10. /\ DedupeIsLog' /\ PublishedOnce' /\ InOrder' /\ SentIsPublished' /\ AckIsPublished'
    <2>1. \A g \in ToSet(down') : g.kind = "ack" => g \in ToSet(down)
      BY <1>3, <1>4
    <2> QED BY <1>1, <2>1, LogUnchanged DEF SentIsPublished, AckIsPublished
  <1>11. PendingIsLater'
    BY <1>1, <1>6 DEF PendingIsLater
  <1>12. OutboxIsSent'
    <2>1. token \in bound \ closing' => token # s /\ token \in Sessions
      BY <1>1 DEF TypeOK
    <2>2. token \in bound \ closing' => up'[token] = up[token]
      BY <1>2, <2>1
    <2> QED BY <1>1, <2>1, <2>2 DEF OutboxIsSent, Holds
  <1> QED BY <1>5, <1>8, <1>9, <1>10, <1>11, <1>12

\* A command that is known is acknowledged again and changes nothing else.
LEMMA AckPriorInvariant ==
    ASSUME IInv, NEW s \in Sessions, AckPrior(s)
    PROVE  IInv'
  <1> USE NumberTypes, DeliveryAssumption DEF IInv
  <1> DEFINE i == Head(up[s])
  <1>1. /\ TakeCommand(s) /\ Reply(s, Ack(i)) /\ i \in dedupe[s]
        /\ UNCHANGED <<next, outbox, acked, rejected, mode, token, newPage, wire, nextSession,
                       live, bound, closing, dedupe, files, log, losses>>
    BY DEF AckPrior, IsPrior, memory, sessionVars
  <1>2. /\ i \in Commands /\ i < next
        /\ up' \in [Sessions -> Seq(Commands)]
        /\ \A t \in Sessions : t # s => up'[t] = up[t]
        /\ ToSet(up[s]) = {i} \cup ToSet(up'[s])
    BY <1>1, TakenCommand
  <1>3. Ack(i) \in Frames /\ Ack(i).kind = "ack" /\ Ack(i).id = i
    BY <1>2 DEF Ack, Frames
  <1>4. /\ down' \in Seq(Frames)
        /\ wire = s => ToSet(down') = ToSet(down) \cup {Ack(i)}
        /\ wire # s => down' = down
    BY <1>1, <1>3, Replied
  <1>5. Numbered' /\ SessionsFresh' /\ HandshakeOrder' /\ SameIdentity' /\ OutboxIsTokens'
    BY <1>1, <1>2, <1>3, CommandAnswered
  <1> HIDE DEF i
  <1>6. /\ \A t \in Sessions : ToSet(up'[t]) \subseteq ToSet(up[t])
        /\ \A t \in Sessions : Holds(t)' = Holds(t)
    BY <1>1, <1>2 DEF Holds
  <1>7. TypeOK'
    BY <1>1, <1>2, <1>4 DEF TypeOK
  <1>8. RefusedIsGone'
    <2>1. \A g \in ToSet(down') : g.kind = "error" => g \in ToSet(down)
      BY <1>3, <1>4
    <2> QED BY <1>1, <1>6, <2>1 DEF RefusedIsGone
  <1>9. DedupeIsLog' /\ PublishedOnce' /\ InOrder' /\ SentIsPublished' /\ AckIsPublished'
    <2>1. i \in Published
      BY <1>1 DEF DedupeIsLog, Published
    <2>2. \A g \in ToSet(down') : g \in ToSet(down) \/ g.id = i
      BY <1>3, <1>4
    <2> QED BY <1>1, <2>1, <2>2, LogUnchanged DEF SentIsPublished, AckIsPublished
  <1>10. PendingIsLater'
    BY <1>1, <1>6 DEF PendingIsLater
  <1>11. OutboxIsSent'
    <2>1. token \in bound \ closing => token \in Sessions
      BY DEF TypeOK
    <2> QED BY <1>1, <1>6, <2>1 DEF OutboxIsSent
  <1> QED BY <1>5, <1>7, <1>8, <1>9, <1>10, <1>11

\* A dedupe window that is not full has a place for one more.
LEMMA WindowGrows ==
    ASSUME TypeOK, NEW s \in Sessions, NEW i \in Commands, ~IsFull(s)
    PROVE  Cardinality(Remembered(s, i)) <= MaxDedupe
  <1>1. IsFiniteSet(Commands)
    BY DeliveryAssumption, FS_Interval DEF Commands
  <1>2. IsFiniteSet(dedupe[s])
    BY <1>1, FS_Subset DEF TypeOK
  <1>3. /\ Cardinality(dedupe[s]) \in Nat
        /\ Cardinality(dedupe[s] \cup {i}) =
              IF i \in dedupe[s] THEN Cardinality(dedupe[s]) ELSE Cardinality(dedupe[s]) + 1
    BY <1>2, FS_CardinalityType, FS_AddElement
  <1> QED BY <1>3, DeliveryAssumption DEF IsFull, Remembered

\* The entries of the log have their types.
LEMMA EntryTypes ==
    ASSUME TypeOK, NEW k \in DOMAIN log
    PROVE  log[k].session \in Sessions /\ log[k].id \in Commands
  <1>1. log \in Seq([session : Sessions, id : Commands])
    BY DEF TypeOK
  <1>2. k \in 1 .. Len(log)
    BY <1>1
  <1>3. log[k] \in [session : Sessions, id : Commands]
    BY <1>1, <1>2, ElementOfSeq, Zenon
  <1> QED BY <1>3

\* What a session publishes is new to the room and comes after all else that
\* the session has published: the dedupe window is its part of the log, no
\* other session has the command, and the queue of the transport is in order.
LEMMA PublishInvariant ==
    ASSUME IInv, NEW s \in Sessions, Publish(s)
    PROVE  IInv'
  <1> USE NumberTypes, DeliveryAssumption DEF IInv
  <1> DEFINE i == Head(up[s])
             entry == [session |-> s, id |-> i]
  <1>1. /\ TakeCommand(s) /\ Reply(s, Ack(i)) /\ i \notin dedupe[s] /\ ~IsFull(s) /\ Sound(i)
        /\ dedupe' = [dedupe EXCEPT ![s] = Remembered(s, i)]
        /\ log' = Append(log, entry)
        /\ files' = files \/ (files[s] < MaxFiles /\ files' = [files EXCEPT ![s] = @ + 1])
        /\ UNCHANGED <<next, outbox, acked, rejected, mode, token, newPage, wire, nextSession,
                       live, bound, closing, losses>>
    BY DEF Publish, IsPrior, HasCapacityFor, memory, sessionVars
  <1>2. /\ i \in Commands /\ i < next /\ s \in bound \ closing
        /\ up' \in [Sessions -> Seq(Commands)]
        /\ \A t \in Sessions : t # s => up'[t] = up[t]
        /\ ToSet(up[s]) = {i} \cup ToSet(up'[s])
        /\ \A k \in ToSet(up'[s]) : i < k
    BY <1>1, TakenCommand
  <1>3. Ack(i) \in Frames /\ Ack(i).kind = "ack" /\ Ack(i).id = i
    BY <1>2 DEF Ack, Frames
  <1>4. /\ down' \in Seq(Frames)
        /\ wire = s => ToSet(down') = ToSet(down) \cup {Ack(i)}
        /\ wire # s => down' = down
    BY <1>1, <1>3, Replied
  <1>5. /\ dedupe' \in [Sessions -> SUBSET Commands]
        /\ dedupe'[s] = dedupe[s] \cup {i}
        /\ \A t \in Sessions : t # s => dedupe'[t] = dedupe[t]
    BY <1>1, <1>2 DEF TypeOK, Remembered
  <1>6. Numbered' /\ SessionsFresh' /\ HandshakeOrder' /\ SameIdentity' /\ OutboxIsTokens'
    BY <1>1, <1>2, <1>3, <1>5, CommandAnswered
  <1>7. /\ entry \in [session : Sessions, id : Commands]
        /\ entry.session = s /\ entry.id = i
    BY <1>2
  <1>8. /\ log \in Seq([session : Sessions, id : Commands])
        /\ log' \in Seq([session : Sessions, id : Commands])
    BY <1>1, <1>7 DEF TypeOK
  <1>9. \A k \in DOMAIN log : log[k].session \in Sessions /\ log[k].id \in Commands
    BY EntryTypes
  <1> HIDE DEF i, entry
  <1>10. PICK n \in Nat : /\ DOMAIN log = 1 .. n /\ DOMAIN log' = 1 .. n + 1
                         /\ log'[n + 1] = entry
                         /\ \A k \in 1 .. n : log'[k] = log[k]
    <2>1. Len(log) \in Nat /\ DOMAIN log = 1 .. Len(log)
      BY <1>8
    <2>2. /\ DOMAIN log' = 1 .. Len(log) + 1 /\ log'[Len(log) + 1] = entry
          /\ \A k \in 1 .. Len(log) : log'[k] = log[k]
      BY <1>1, <1>7, <1>8
    <2> QED BY <2>1, <2>2
  <1>11. Published' = Published \cup {i}
    <2>1. Published' = {log'[k].id : k \in 1 .. n + 1}
      BY <1>10 DEF Published
    <2>2. Published = {log[k].id : k \in 1 .. n}
      BY <1>10 DEF Published
    <2>3. Published' \subseteq Published \cup {i}
      BY <1>7, <1>10, <2>1, <2>2
    <2>4. Published \cup {i} \subseteq Published'
      BY <1>7, <1>10, <2>1, <2>2
    <2> QED BY <2>3, <2>4
  <1>12. /\ \A t \in Sessions : ToSet(up'[t]) \subseteq ToSet(up[t])
         /\ \A t \in Sessions : Holds(t)' = Holds(t)
    BY <1>2, <1>5 DEF Holds
  <1>13. TypeOK'
    <2>1. files' \in [Sessions -> 0 .. MaxFiles]
      <3>1. files \in [Sessions -> 0 .. MaxFiles]
        BY DEF TypeOK
      <3>2. files[s] < MaxFiles => files[s] + 1 \in 0 .. MaxFiles
        BY <3>1
      <3> QED BY <1>1, <3>1, <3>2
    <2>2. Cardinality(dedupe'[s]) <= MaxDedupe
      BY <1>1, <1>2, <1>5, WindowGrows DEF Remembered
    <2>3. \A t \in Sessions : Cardinality(dedupe'[t]) <= MaxDedupe
      BY <1>5, <2>2 DEF TypeOK
    <2> QED BY <1>1, <1>2, <1>4, <1>5, <1>8, <2>1, <2>3 DEF TypeOK
  <1>14. RefusedIsGone'
    <2>1. \A g \in ToSet(down') : g.kind = "error" => g \in ToSet(down)
      BY <1>3, <1>4
    <2> QED BY <1>1, <1>12, <2>1 DEF RefusedIsGone
  <1>15. SentIsPublished' /\ AckIsPublished'
    <2>1. \A g \in ToSet(down') : g \in ToSet(down) \/ g.id = i
      BY <1>3, <1>4
    <2> QED BY <1>1, <1>11, <2>1 DEF SentIsPublished, AckIsPublished
  <1>16. DedupeIsLog'
    <2>1. ASSUME NEW k \in DOMAIN log'
          PROVE  log'[k].id \in dedupe'[log'[k].session]
      <3>1. CASE k \in 1 .. n
        <4>1. /\ log'[k] = log[k] /\ log[k].session \in Sessions
              /\ log[k].id \in dedupe[log[k].session]
          BY <1>10, <1>9, <3>1 DEF DedupeIsLog
        <4> QED BY <1>5, <4>1
      <3>2. CASE k = n + 1
        BY <1>5, <1>7, <1>10, <3>2
      <3> QED BY <1>10, <3>1, <3>2
    <2>2. ASSUME NEW t \in Sessions, NEW j \in dedupe'[t]
          PROVE  Sound(j) /\ \E k \in DOMAIN log' : log'[k].session = t /\ log'[k].id = j
      <3>1. CASE t = s /\ j = i
        <4>1. n + 1 \in DOMAIN log'
          BY <1>10
        <4> QED BY <1>1, <1>7, <1>10, <3>1, <4>1
      <3>2. CASE j \in dedupe[t]
        <4>1. Sound(j) /\ \E k \in DOMAIN log : log[k].session = t /\ log[k].id = j
          BY <3>2 DEF DedupeIsLog
        <4> QED BY <1>10, <4>1
      <3> QED BY <1>5, <3>1, <3>2
    <2> QED BY <2>1, <2>2 DEF DedupeIsLog, Sound
  <1>17. \A k \in DOMAIN log : /\ log[k].id # i
                               /\ log[k].session = s => log[k].id < i
    <2> SUFFICES ASSUME NEW k \in DOMAIN log
                 PROVE  log[k].id # i /\ (log[k].session = s => log[k].id < i)
      OBVIOUS
    <2>1. log[k].session \in Sessions /\ log[k].id \in dedupe[log[k].session]
      BY <1>10, <1>9 DEF DedupeIsLog
    <2>2. log[k].id = i => log[k].session = s
      BY <1>2, <2>1 DEF SameIdentity
    <2>3. i \in ToSet(up[s]) \ dedupe[s]
      BY <1>1, <1>2
    <2> QED BY <1>1, <2>1, <2>2, <2>3 DEF PendingIsLater
  <1>18. PublishedOnce'
    <2> SUFFICES ASSUME NEW j \in 1 .. n + 1, NEW k \in 1 .. n + 1,
                        log'[j].id = log'[k].id
                 PROVE  j = k
      BY <1>10 DEF PublishedOnce
    <2>1. CASE j \in 1 .. n /\ k \in 1 .. n
      BY <1>10, <2>1 DEF PublishedOnce
    <2>2. CASE j = n + 1 \/ k = n + 1
      BY <1>7, <1>10, <1>17, <2>2
    <2> QED BY <1>10, <2>1, <2>2
  <1>19. InOrder'
    <2> SUFFICES ASSUME NEW j \in 1 .. n + 1, NEW k \in 1 .. n + 1,
                        j < k, log'[j].session = log'[k].session
                 PROVE  log'[j].id < log'[k].id
      BY <1>10 DEF InOrder
    <2>1. CASE k \in 1 .. n
      <3>1. j \in 1 .. n
        BY <1>10, <2>1
      <3> QED BY <1>10, <2>1, <3>1 DEF InOrder
    <2>2. CASE k = n + 1
      <3>1. j \in 1 .. n /\ log'[k] = entry /\ log'[j] = log[j]
        BY <1>10, <2>2
      <3> QED BY <1>7, <1>10, <1>17, <3>1
    <2> QED BY <1>10, <2>1, <2>2
  <1>20. PendingIsLater'
    <2>1. \A t \in Sessions : \A j \in ToSet(up'[t]) \ dedupe'[t] : \A k \in dedupe'[t] : k < j
      BY <1>2, <1>5, <1>12 DEF PendingIsLater
    <2>2. ASSUME token # NoSession, NEW j \in ToSet(outbox) \ dedupe'[token],
                 NEW k \in dedupe'[token]
          PROVE  k < j
      <3>1. CASE k \in dedupe[token]
        BY <1>5, <2>2, <3>1 DEF PendingIsLater, TypeOK
      <3>2. CASE k \notin dedupe[token]
        <4>1. token = s /\ k = i /\ j # i /\ j \notin dedupe[s]
          BY <1>5, <2>2, <3>2 DEF TypeOK
        <4>2. CASE j \in ToSet(up[s])
          BY <1>2, <4>1, <4>2
        <4>3. CASE j \notin ToSet(up[s])
          BY <1>2, <2>2, <4>1, <4>3 DEF OutboxIsSent, Holds
        <4> QED BY <4>2, <4>3
      <3> QED BY <3>1, <3>2
    <2> QED BY <1>1, <2>1, <2>2 DEF PendingIsLater
  <1>21. OutboxIsSent'
    <2>1. token \in bound \ closing => token \in Sessions
      BY DEF TypeOK
    <2> QED BY <1>1, <1>12, <2>1 DEF OutboxIsSent
  <1> QED BY <1>6, <1>13, <1>14, <1>15, <1>16, <1>18, <1>19, <1>20, <1>21

-----------------------------------------------------------------------------
(* The theorems *)

\* At first nothing is submitted and nobody knows of a command.
LEMMA InitInvariant == Init => IInv
  <1> SUFFICES ASSUME Init PROVE IInv
    OBVIOUS
  <1> USE NumberTypes, DeliveryAssumption, EmptyQueues DEF Init
  <1>1. \A s \in Sessions : up[s] = <<>> /\ dedupe[s] = {} /\ Holds(s) = {}
    BY DEF Holds
  <1>2. TypeOK
    <2>1. newPage \in BOOLEAN
      BY Zenon
    <2>2. Cardinality({}) = 0
      BY FS_EmptySet
    <2>3. \A s \in Sessions : Cardinality(dedupe[s]) <= MaxDedupe
      BY <1>1, <2>2
    <2>4. <<>> \in Seq([session : Sessions, id : Commands])
      OBVIOUS
    <2>5. /\ up \in [Sessions -> Seq(Commands)] /\ dedupe \in [Sessions -> SUBSET Commands]
          /\ files \in [Sessions -> 0 .. MaxFiles]
      OBVIOUS
    <2> QED BY <2>1, <2>3, <2>4, <2>5 DEF TypeOK
  <1>3. Numbered /\ SessionsFresh /\ HandshakeOrder
    BY <1>1 DEF Numbered, SessionsFresh, HandshakeOrder
  <1>4. SameIdentity /\ OutboxIsTokens /\ RefusedIsGone /\ AckIsPublished
    BY <1>1 DEF SameIdentity, OutboxIsTokens, RefusedIsGone, AckIsPublished
  <1>5. DedupeIsLog /\ PublishedOnce /\ InOrder /\ SentIsPublished
    BY <1>1 DEF DedupeIsLog, PublishedOnce, InOrder, SentIsPublished
  <1>6. PendingIsLater /\ OutboxIsSent
    BY <1>1 DEF PendingIsLater, OutboxIsSent
  <1> QED BY <1>2, <1>3, <1>4, <1>5, <1>6 DEF IInv

\* Every step keeps the invariant.
LEMMA NextInvariant == IInv /\ [Next]_vars => IInv'
  <1> SUFFICES ASSUME IInv, [Next]_vars PROVE IInv'
    OBVIOUS
  <1>1. CASE \E i \in Commands : Submit(i)
    BY <1>1, SubmitInvariant
  <1>2. CASE Connect \/ DiscardReady \/ InvalidSession \/ LoseTransport \/ Reload
    BY <1>2, TabInvariant
  <1>3. CASE ReceiveReady
    BY <1>3, ReadyInvariant
  <1>4. CASE ReceiveAck \/ ReceiveError
    BY <1>4, AnswerInvariant
  <1>5. CASE ServeHello \/ \E s \in Sessions : Detach(s) \/ Expire(s)
    BY <1>5, SessionInvariant
  <1>6. CASE \E s \in Sessions : ServeCommand(s)
    BY <1>6, ErrorInvariant, AckPriorInvariant, PublishInvariant DEF ServeCommand
  <1>7. CASE UNCHANGED vars
    <2>1. UNCHANGED <<next, outbox, acked, rejected, mode, token, newPage, wire, down,
                      nextSession, live, bound, closing, up, dedupe, files, log, losses>>
      BY <1>7 DEF vars, tabVars, memory, sessionVars, commandVars
    <2>2. TypeOK' /\ Numbered' /\ SessionsFresh'
      BY <2>1 DEF IInv, TypeOK, Numbered, SessionsFresh, Holds
    <2>3. HandshakeOrder' /\ SameIdentity' /\ OutboxIsTokens' /\ RefusedIsGone'
      BY <2>1 DEF IInv, HandshakeOrder, SameIdentity, OutboxIsTokens, RefusedIsGone, Holds
    <2>4. PendingIsLater' /\ OutboxIsSent'
      BY <2>1 DEF IInv, PendingIsLater, OutboxIsSent, Holds
    <2>5. DedupeIsLog' /\ PublishedOnce' /\ InOrder' /\ SentIsPublished' /\ AckIsPublished'
      BY <2>1, LogUnchanged DEF IInv, SentIsPublished, AckIsPublished
    <2> QED BY <2>2, <2>3, <2>4, <2>5 DEF IInv
  <1> QED BY <1>1, <1>2, <1>3, <1>4, <1>5, <1>6, <1>7 DEF Next, Receive

\* The invariant holds in every state that the tab and the server reach.
LEMMA Invariant == Spec => []IInv
  BY InitInvariant, NextInvariant, PTL DEF Spec

\* Queues, windows and counters keep their types and their limits: the outbox
\* MAX_OUTBOX, the dedupe window maxDedupeEntries, the files filesPerPeer.
THEOREM TypeCorrect == Spec => []TypeOK
  <1>1. IInv => TypeOK
    BY DEF IInv
  <1> QED BY <1>1, Invariant, PTL

\* However often a command is sent again after SESSION_READY, publishDurable
\* puts it into the room once.
THEOREM CommandsPublishedOnce == Spec => []PublishedOnce
  <1>1. IInv => PublishedOnce
    BY DEF IInv
  <1> QED BY <1>1, Invariant, PTL

\* A command that a MESSAGE_ACK has removed from the outbox is in the room.
THEOREM AckedIsPublished == Spec => []SentIsPublished
  <1>1. IInv => SentIsPublished
    BY DEF IInv
  <1> QED BY <1>1, Invariant, PTL

\* A command that a terminal error of onApiError has removed from the outbox
\* is not in the room, and is with no session that could still publish it.
THEOREM RefusedIsUnpublished ==
    Spec => [](/\ RejectedIsUnpublished
               /\ \A i \in rejected : \A s \in Sessions : i \notin ToSet(up[s]))
  <1>1. IInv => RejectedIsUnpublished
    <2> SUFFICES ASSUME IInv, NEW k \in DOMAIN log
                 PROVE  log[k].id \notin rejected
      BY DEF RejectedIsUnpublished, Published
    <2>1. log[k].id \in dedupe[log[k].session] /\ log[k].session \in Sessions
      BY EntryTypes DEF IInv, DedupeIsLog
    <2> QED BY <2>1 DEF IInv, RefusedIsGone, Holds
  <1>2. IInv => \A i \in rejected : \A s \in Sessions : i \notin ToSet(up[s])
    BY DEF IInv, RefusedIsGone, Holds
  <1> QED BY <1>1, <1>2, Invariant, PTL

\* A session publishes in the order of submission, across reconnects and
\* replays of the outbox.
THEOREM SessionsPublishInOrder == Spec => []InOrder
  <1>1. IInv => InOrder
    BY DEF IInv
  <1> QED BY <1>1, Invariant, PTL

\* No command is sent under one identity and published or sent under another.
THEOREM NeverTwoIdentities == Spec => []SameIdentity
  <1>1. IInv => SameIdentity
    BY DEF IInv
  <1> QED BY <1>1, Invariant, PTL

=============================================================================
