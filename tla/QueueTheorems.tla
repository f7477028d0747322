---------------------------- MODULE QueueTheorems ----------------------------
(***************************************************************************)
(* Facts about the queues of the project, which grow at the end, shrink at *)
(* the front and, where they hold numbers, keep them in order.             *)
(***************************************************************************)
EXTENDS Integers, Sequences, SequencesExt, SequenceTheorems, TLAPS

Increasing(q) == \A i, j \in DOMAIN q : i < j => q[i] < q[j]

-----------------------------------------------------------------------------
\* The elements of a queue have its type.
LEMMA ElementsType ==
    ASSUME NEW S, NEW q \in Seq(S)
    PROVE  ToSet(q) \subseteq S
  BY DEF ToSet

\* The elements of an empty queue, and of a queue of one.
LEMMA ElementsOfShort == ToSet(<<>>) = {} /\ \A x : ToSet(<<x>>) = {x}
  BY DEF ToSet

\* The elements of a queue with one more.
LEMMA ElementsGrow ==
    ASSUME NEW S, NEW q \in Seq(S), NEW x \in S
    PROVE  Append(q, x) \in Seq(S) /\ ToSet(Append(q, x)) = ToSet(q) \cup {x}
  <1>1. /\ Append(q, x) \in Seq(S) /\ Len(q) \in Nat /\ Len(Append(q, x)) = Len(q) + 1
        /\ Append(q, x)[Len(q) + 1] = x
        /\ \A i \in 1 .. Len(q) : Append(q, x)[i] = q[i]
    OBVIOUS
  <1>2. ToSet(Append(q, x)) = {Append(q, x)[i] : i \in 1 .. Len(q) + 1}
    BY <1>1 DEF ToSet
  <1>3. ToSet(q) = {q[i] : i \in 1 .. Len(q)}
    BY DEF ToSet
  <1> QED BY <1>1, <1>2, <1>3

\* The elements of a queue without its first.
LEMMA ElementsShrink ==
    ASSUME NEW S, NEW q \in Seq(S), q # <<>>
    PROVE  /\ Head(q) \in S /\ Tail(q) \in Seq(S)
           /\ ToSet(q) = {Head(q)} \cup ToSet(Tail(q))
  <1>1. /\ Head(q) \in S /\ Tail(q) \in Seq(S)
        /\ Head(q) = q[1] /\ Len(q) \in Nat /\ Len(q) >= 1 /\ Len(Tail(q)) = Len(q) - 1
        /\ \A i \in 1 .. Len(q) - 1 : Tail(q)[i] = q[i + 1]
    OBVIOUS
  <1>4. ToSet(Tail(q)) = {Tail(q)[i] : i \in 1 .. Len(q) - 1}
    <2>1. DOMAIN Tail(q) = 1 .. Len(q) - 1
      BY <1>1, LenProperties
    <2> QED BY <2>1 DEF ToSet
  <1>2. ToSet(q) \subseteq {Head(q)} \cup ToSet(Tail(q))
    <2> SUFFICES ASSUME NEW i \in 1 .. Len(q), i # 1
                 PROVE  q[i] \in ToSet(Tail(q))
      BY <1>1 DEF ToSet
    <2>1. i - 1 \in 1 .. Len(q) - 1 /\ Tail(q)[i - 1] = q[i]
      BY <1>1
    <2> QED BY <1>4, <2>1
  <1>3. {Head(q)} \cup ToSet(Tail(q)) \subseteq ToSet(q)
    <2> SUFFICES ASSUME NEW i \in 1 .. Len(q) - 1
                 PROVE  Tail(q)[i] \in ToSet(q)
      BY <1>1 DEF ToSet
    <2>1. i + 1 \in 1 .. Len(q) /\ Tail(q)[i] = q[i + 1]
      BY <1>1
    <2> QED BY <1>1, <2>1 DEF ToSet
  <1> QED BY <1>1, <1>2, <1>3

\* A queue in order stays so with a larger element at its end.
LEMMA IncreasingGrows ==
    ASSUME NEW S, NEW q \in Seq(S), NEW x \in S, Increasing(q),
           \A i \in ToSet(q) : i < x
    PROVE  /\ Increasing(Append(q, x))
           /\ q \o <<x>> = Append(q, x)
  <1>1. q \o <<x>> = Append(q, x)
    OBVIOUS
  <1>2. Len(Append(q, x)) = Len(q) + 1 /\ Append(q, x)[Len(q) + 1] = x
        /\ \A i \in 1 .. Len(q) : Append(q, x)[i] = q[i]
    OBVIOUS
  <1>3. \A i \in 1 .. Len(q) : q[i] < x
    BY DEF ToSet
  <1> QED BY <1>1, <1>2, <1>3 DEF Increasing

\* The first of a queue in order is before the rest of it.
LEMMA IncreasingShrinks ==
    ASSUME NEW S, NEW q \in Seq(S), q # <<>>, Increasing(q)
    PROVE  /\ Increasing(Tail(q))
           /\ \A i \in ToSet(Tail(q)) : Head(q) < i
  <1>1. /\ Head(q) = q[1] /\ Len(q) \in Nat /\ Len(q) >= 1 /\ Len(Tail(q)) = Len(q) - 1
        /\ Tail(q) \in Seq(S)
        /\ \A i \in 1 .. Len(q) - 1 : Tail(q)[i] = q[i + 1]
    OBVIOUS
  <1>2. \A i \in 1 .. Len(q) - 1 : q[1] < q[i + 1]
    BY <1>1 DEF Increasing
  <1>3. \A i \in ToSet(Tail(q)) : Head(q) < i
    BY <1>1, <1>2 DEF ToSet
  <1>4. Increasing(Tail(q))
    <2> SUFFICES ASSUME NEW i \in 1 .. Len(q) - 1, NEW j \in 1 .. Len(q) - 1, i < j
                 PROVE  q[i + 1] < q[j + 1]
      BY <1>1 DEF Increasing
    <2>1. i + 1 \in 1 .. Len(q) /\ j + 1 \in 1 .. Len(q) /\ i + 1 < j + 1
      BY <1>1
    <2> QED BY <2>1 DEF Increasing
  <1> QED BY <1>3, <1>4
=============================================================================
