------------------------ MODULE ServerProcessProofs ------------------------
(***************************************************************************)
(* Proofs about a server from its launch to its end.  A series of points   *)
(* is as takeSample makes it: the points are PushInterval apart, and the   *)
(* first is at most MaxPeriod before the last, so there are never more of  *)
(* them than loadState takes.  The counters of a checkpoint are behind the *)
(* last point, which is behind the counters; one thread at a time saves,   *)
(* since run joins the persistence runner before it saves for the last     *)
(* time.  What is not on the list of the shutdown any more is over, and    *)
(* the onion service comes before the servers on it.                       *)
(***************************************************************************)
EXTENDS ServerProcess, QueueTheorems, FiniteSetTheorems

Spaced(ps) ==
    \A i, j \in 1 .. Len(ps) :
        i < j => ps[j].timestamp - ps[i].timestamp >= (j - i) * PushInterval

Series(ps) ==
    /\ ps \in Seq(Points)
    /\ Spaced(ps)
    /\ ps # <<>> => ps[Len(ps)].timestamp - ps[1].timestamp <= MaxPeriod

\* What a file may hold: the counters of every checkpoint are in it.
Fileable(ps) == Series(ps) /\ ps # <<>> /\ acknowledged <= Last(ps).count

StatePart ==
    /\ counter \in Counts /\ acknowledged \in Counts
    /\ Series(points)
    /\ \A f \in onDisk \cup {stateFile} : IF IsState(f) THEN Fileable(f) ELSE acknowledged = 0
    /\ Invalid \in onDisk \cup {stateFile} => onDisk = {Invalid} /\ stateFile = Invalid

\* Where statistics are kept, the state that was there has been loaded and the
\* counters are ahead of the points, these of the checkpoints.
PersistsPart ==
    persists =>
        /\ main \in {"sample", "start", "running", "stopping"}
        /\ stateFile # Invalid
        /\ acknowledged <= counter
        /\ main # "sample" =>
              points # <<>> /\ acknowledged <= Last(points).count /\ Last(points).count <= counter

\* A save in progress.
SavesPart ==
    /\ save \in [Savers -> SaveSteps]
    /\ \A s \in Savers : json[s] \in Seq(Points)
    /\ DOMAIN json = Savers
    /\ \A s \in Savers : save[s] # "idle" =>
          /\ persists /\ main # "sample"
          /\ Fileable(json[s]) /\ Last(json[s]).count <= Last(points).count
    /\ \A s \in Savers : save[s] = "renamed" => stateFile = json[s]
    /\ save["persistence"] # "idle" => thread["persistence"] = "iterating"
    /\ save["main"] # "idle" => main = "stopping" /\ "persistence" \notin ToSet(todo)

Gone(r) == thread[r] \in {"none", "ended"}

ThreadsPart ==
    /\ RunnerTypeOK
    /\ main \notin {"running", "stopping"} => \A r \in Runners : Gone(r)
    /\ main = "stopping" => \A r \in Runners \ ToSet(todo) : Gone(r)
    /\ ~Gone("persistence") => persists

Jobs == Runners \cup {"onion", "servers", "sample", "save"}

Before(q, x, y) == \A i, j \in 1 .. Len(q) : q[i] = x /\ q[j] = y => i < j

PlanPart ==
    /\ todo \in Seq(Jobs)
    /\ \E plan \in {Shutdown, Abandon} : \E i \in 1 .. Len(plan) + 1 :
          todo = SubSeq(plan, i, Len(plan))
    /\ main # "stopping" => todo = <<>>
    /\ Before(todo, "onion", "servers")
    /\ Before(todo, "persistence", "sample")

Backend == IF "tls" \in config THEN "tor" ELSE "http"

OnionPart ==
    /\ OnionTypeOK
    /\ onionStep = "idle" => registered = {}
    /\ hostname # {} => onionStep = "started" /\ hostname = {keyFile}
    /\ onionStep = "save" => keyFile = NoKey

ListenersPart ==
    /\ listeners \subseteq {"http", "tor"}
    /\ main = "tor" => "http" \in listeners
    /\ onionStep # "idle" => Backend \in listeners
    /\ main \in Down => onionStep = "idle" /\ listeners = {}
    /\ main = "stopping" =>
          /\ "onion" \notin ToSet(todo) => onionStep = "idle"
          /\ "servers" \notin ToSet(todo) => listeners = {}

RestPart ==
    /\ main \in Down \cup {"tor", "load", "sample", "start", "running", "stopping"}
    /\ config \in Configs
    /\ pidFile \in {"none", "own", "stale"}
    /\ launches \in 0 .. MaxLaunches
    /\ deaf \subseteq {"http", "tor"}
    /\ main \in Down => pidFile # "own"

FlagsPart == persists \in BOOLEAN /\ signal \in BOOLEAN

IInv ==
    /\ StatePart /\ PersistsPart /\ SavesPart /\ ThreadsPart /\ PlanPart
    /\ OnionPart /\ ListenersPart /\ RestPart /\ FlagsPart

-----------------------------------------------------------------------------
(* Sets of indices and plans *)

\* A set of natural numbers has a least element.
LEMMA LeastExists ==
    ASSUME NEW T, T \subseteq Nat, T # {}
    PROVE  Min(T) \in T /\ \A y \in T : Min(T) <= y
  <1>1. \E x \in T : \A y \in T : ~(<<y, x>> \in OpToRel(<, Nat))
    BY NatLessThanWellFounded, WFMin, Zenon
  <1>2. \A x, y \in Nat : y < x => <<y, x>> \in OpToRel(<, Nat)
    BY DEF OpToRel
  <1>3. \E x \in T : \A y \in T : ~(y < x)
    BY <1>1, <1>2, Zenon
  <1>4. \E x \in T : \A y \in T : x <= y
    BY <1>3
  <1> QED BY <1>4 DEF Min

\* A set of indices has a greatest element.
LEMMA GreatestExists ==
    ASSUME NEW n \in Nat, NEW T, T \subseteq 1 .. n, T # {}
    PROVE  Max(T) \in T /\ \A y \in T : Max(T) >= y
  <1> DEFINE M == {k \in Nat : n - k \in T}
  <1>1. M \subseteq Nat /\ M # {}
    <2>1. PICK x \in T : x \in 1 .. n
      OBVIOUS
    <2>2. n - x \in Nat /\ n - (n - x) = x
      BY <2>1
    <2> QED BY <2>1, <2>2
  <1>2. PICK m \in M : \A y \in M : m <= y
    BY <1>1, LeastExists
  <1>3. n - m \in T
    OBVIOUS
  <1>4. ASSUME NEW y \in T PROVE n - m >= y
    <2>1. y \in 1 .. n /\ n - y \in Nat /\ n - (n - y) = y
      OBVIOUS
    <2>2. n - y \in M
      BY <2>1
    <2>3. m <= n - y /\ m \in Nat
      BY <1>2, <2>2
    <2> QED BY <2>1, <2>3
  <1>5. \E x \in T : \A y \in T : x >= y
    BY <1>3, <1>4
  <1> QED BY <1>5 DEF Max

\* The ping and the session runner, in some order.
LEMMA LobbyPlan ==
    /\ SetToSeq(LobbyRunners) \in Seq(LobbyRunners)
    /\ ToSet(SetToSeq(LobbyRunners)) = LobbyRunners
  <1> DEFINE n == Cardinality(LobbyRunners)
  <1>1. IsFiniteSet(LobbyRunners)
    BY ProcessAssumption, FS_Subset DEF LobbyRunners
  <1>2. n \in Nat /\ ExistsBijection(1 .. n, LobbyRunners)
    BY <1>1, FS_CardinalityType
  <1>3. \E f \in [1 .. n -> LobbyRunners] : IsInjective(f)
    BY <1>2 DEF ExistsBijection, Bijection, Injection, IsInjective
  <1>4. /\ SetToSeq(LobbyRunners) \in [1 .. n -> LobbyRunners]
        /\ IsInjective(SetToSeq(LobbyRunners))
    BY <1>3 DEF SetToSeq
  <1>5. SetToSeq(LobbyRunners) \in Injection(1 .. n, LobbyRunners)
    BY <1>4 DEF IsInjective, Injection
  <1>6. Cardinality(1 .. n) = n
    BY <1>2, FS_Interval
  <1>7. SetToSeq(LobbyRunners) \in Surjection(1 .. n, LobbyRunners)
    BY <1>1, <1>5, <1>6, FS_Injection
  <1> QED BY <1>2, <1>4, <1>7 DEF Surjection, ToSet

-----------------------------------------------------------------------------
(* Series of points *)

\* Multiples of the interval between two points.
LEMMA Multiples ==
    /\ \A a \in Int : (a + 1) * PushInterval = a * PushInterval + PushInterval
    /\ \A a, b \in Int : a <= b => a * PushInterval <= b * PushInterval
    /\ \A a \in Int : a * PushInterval \in Int
    /\ 1 * PushInterval = PushInterval
  <1>1. PushInterval \in Nat /\ PushInterval > 0
    BY StatisticsAssumption
  <1> QED BY <1>1

\* The parts of a series, and what its points are.
LEMMA SeriesTypes ==
    ASSUME NEW ps, Series(ps)
    PROVE  /\ ps \in Seq(Points) /\ Len(ps) \in Nat
           /\ \A i \in 1 .. Len(ps) : /\ ps[i] \in Points
                                      /\ ps[i].timestamp \in Int /\ ps[i].count \in Counts
           /\ ps # <<>> => Len(ps) \in 1 .. Len(ps)
  <1>1. ps \in Seq(Points) /\ Len(ps) \in Nat /\ (ps # <<>> => Len(ps) \in 1 .. Len(ps))
    BY DEF Series
  <1>2. \A p \in Points : p.timestamp \in Int /\ p.count \in Counts
    BY DEF Points, Times
  <1>3. \A i \in 1 .. Len(ps) : ps[i] \in Points
    BY <1>1, ElementOfSeq
  <1> QED BY <1>1, <1>2, <1>3

\* A series has room in a state: takeSample drops what is older than MaxPeriod,
\* so the points never are more than MAX_STATE_POINTS.
LEMMA SeriesAreShort ==
    ASSUME NEW ps, Series(ps)
    PROVE  Len(ps) <= MaxPoints
  <1> SUFFICES ASSUME Len(ps) > MaxPoints PROVE FALSE
    BY SeriesTypes, StatisticsAssumption
  <1> DEFINE n == Len(ps)
  <1>0. ps # <<>>
    BY SeriesTypes, StatisticsAssumption
  <1>1. n \in Nat /\ MaxPoints \in Nat /\ n > MaxPoints /\ n > 0
    BY SeriesTypes, StatisticsAssumption
  <1> HIDE DEF n
  <1>2. ps[n].timestamp - ps[1].timestamp <= MaxPeriod
    BY <1>0 DEF Series, n
  <1>3. /\ ps[n].timestamp \in Int /\ ps[1].timestamp \in Int
        /\ MaxPeriod \in Nat /\ MaxPeriod < MaxPoints * PushInterval
    BY <1>1, SeriesTypes, StatisticsAssumption DEF n
  <1>4. n > 1
    <2>1. CASE n = 1
      <3>1. MaxPoints = 0
        BY <1>1, <2>1
      <3>2. 0 * PushInterval = 0
        BY StatisticsAssumption
      <3> QED BY <1>3, <3>1, <3>2
    <2> QED BY <1>1, <2>1
  <1>5. ps[n].timestamp - ps[1].timestamp >= (n - 1) * PushInterval
    BY <1>1, <1>4 DEF Series, Spaced, n
  <1>6. MaxPoints * PushInterval <= (n - 1) * PushInterval
    BY <1>1, Multiples
  <1>7. MaxPoints * PushInterval \in Int /\ (n - 1) * PushInterval \in Int
    BY <1>1, Multiples
  <1> QED BY <1>2, <1>3, <1>5, <1>6, <1>7

\* loadState takes every series that is not empty.
LEMMA SeriesAreLoadable ==
    ASSUME NEW ps, Series(ps), ps # <<>>
    PROVE  Loadable(ps) /\ Latest(ps) = Last(ps).count /\ Last(ps).count \in Counts
  <1>1. IsState(ps)
    BY FilesAssumption, SeriesTypes DEF IsState
  <1>2. Len(ps) \in 1 .. MaxPoints
    BY SeriesTypes, SeriesAreShort, StatisticsAssumption
  <1>3. ASSUME NEW i \in 1 .. Len(ps) - 1
        PROVE  ps[i].timestamp <= ps[i + 1].timestamp
    <2>1. Len(ps) \in Nat /\ i \in 1 .. Len(ps) /\ i + 1 \in 1 .. Len(ps) /\ i < i + 1
      BY SeriesTypes
    <2>2. ps[i + 1].timestamp - ps[i].timestamp >= ((i + 1) - i) * PushInterval
      BY <2>1 DEF Series, Spaced
    <2>3. ((i + 1) - i) * PushInterval = PushInterval /\ PushInterval \in Nat
      BY Multiples, StatisticsAssumption
    <2> QED BY <2>1, <2>2, <2>3, SeriesTypes
  <1> QED BY <1>1, <1>2, <1>3, SeriesTypes DEF Loadable, Latest, Last

\* A part of a series is one.
LEMMA PartOfSeries ==
    ASSUME NEW ps \in Seq(Points), Spaced(ps), NEW i \in 1 .. Len(ps), NEW j \in i .. Len(ps),
           ps[j].timestamp - ps[i].timestamp <= MaxPeriod
    PROVE  /\ Series(SubSeq(ps, i, j)) /\ SubSeq(ps, i, j) # <<>>
           /\ Last(SubSeq(ps, i, j)) = ps[j]
  <1> DEFINE q == SubSeq(ps, i, j)
  <1>1. /\ q \in Seq(Points) /\ Len(q) = j - i + 1
        /\ \A k \in 1 .. Len(q) : q[k] = ps[i + k - 1]
    BY SubSeqProperties
  <1>2. Len(ps) \in Nat /\ i \in Nat /\ j \in Nat /\ i <= j /\ j <= Len(ps)
    OBVIOUS
  <1>3. q # <<>> /\ q[1] = ps[i] /\ q[Len(q)] = ps[j]
    BY <1>1, <1>2
  <1>4. Spaced(q)
    <2>1. SUFFICES ASSUME NEW k \in 1 .. Len(q), NEW l \in 1 .. Len(q), k < l
                   PROVE  q[l].timestamp - q[k].timestamp >= (l - k) * PushInterval
      BY DEF Spaced
    <2>2. /\ i + k - 1 \in 1 .. Len(ps) /\ i + l - 1 \in 1 .. Len(ps) /\ i + k - 1 < i + l - 1
          /\ (i + l - 1) - (i + k - 1) = l - k
      BY <1>1, <1>2, <2>1
    <2>3. ps[i + l - 1].timestamp - ps[i + k - 1].timestamp
              >= ((i + l - 1) - (i + k - 1)) * PushInterval
      BY <2>2 DEF Spaced
    <2> QED BY <1>1, <2>2, <2>3
  <1> QED BY <1>1, <1>3, <1>4 DEF Series, Last

\* A point that comes at least the interval after the last leaves the points
\* spaced.
LEMMA SpacedGrows ==
    ASSUME NEW ps, Series(ps), NEW p \in Points,
           ps # <<>> => p.timestamp - Last(ps).timestamp >= PushInterval
    PROVE  Spaced(Append(ps, p))
  <1> DEFINE n == Len(ps)
             q == Append(ps, p)
             P == PushInterval
  <1>t. p.timestamp \in Int
    BY DEF Points, Times
  <1>0. /\ n \in Nat /\ ps \in Seq(Points) /\ p.timestamp \in Int
        /\ \A i \in 1 .. n : ps[i].timestamp \in Int
    BY SeriesTypes, <1>t
  <1>1. Len(q) = n + 1 /\ q[n + 1] = p /\ \A i \in 1 .. n : q[i] = ps[i]
    BY <1>0
  <1>2. \A i, j \in 1 .. n : i < j => ps[j].timestamp - ps[i].timestamp >= (j - i) * P
    BY DEF Series, Spaced
  <1>3. n > 0 => p.timestamp - ps[n].timestamp >= P
    BY <1>0 DEF Last
  <1> HIDE DEF n, q
  <1>4. ASSUME NEW i \in 1 .. n + 1, NEW j \in 1 .. n + 1, i < j
        PROVE  q[j].timestamp - q[i].timestamp >= (j - i) * P
    <2>1. CASE j # n + 1
      <3>1. i \in 1 .. n /\ j \in 1 .. n
        BY <1>0, <1>4, <2>1
      <3> QED BY <1>1, <1>2, <1>4, <3>1
    <2>2. CASE j = n + 1
      <3>1. i \in 1 .. n /\ n \in 1 .. n /\ n > 0
        BY <1>0, <1>4, <2>2
      <3>2. ps[n].timestamp - ps[i].timestamp >= (n - i) * P
        <4>1. CASE i = n
          <5>1. (n - i) * P = 0 * P /\ 0 * P = 0
            BY <1>0, <4>1, StatisticsAssumption
          <5> QED BY <1>0, <3>1, <4>1, <5>1
        <4>2. CASE i < n
          BY <1>2, <3>1, <4>2
        <4> QED BY <1>0, <3>1, <4>1, <4>2
      <3>3. (j - i) * P = (n - i) * P + P
        <4>1. n - i \in Int /\ j - i = (n - i) + 1
          BY <1>0, <2>2, <3>1
        <4> QED BY <4>1, Multiples
      <3> DEFINE m == (n - i) * P
      <3>4. /\ m \in Int /\ P \in Int
            /\ ps[n].timestamp \in Int /\ ps[i].timestamp \in Int
        BY <1>0, <3>1, Multiples, StatisticsAssumption
      <3> HIDE DEF m, P
      <3>5. p.timestamp - ps[i].timestamp >= m + P
        BY <1>0, <1>3, <3>1, <3>2, <3>4 DEF m
      <3>6. q[j].timestamp = p.timestamp /\ q[i].timestamp = ps[i].timestamp
        BY <1>1, <2>2, <3>1
      <3> QED BY <3>3, <3>5, <3>6 DEF m
    <2> QED BY <2>1, <2>2
  <1> QED BY <1>1, <1>4 DEF Spaced, q

\* The points from the first on that is not too old.
LEMMA DropOldIsSeries ==
    ASSUME NEW q \in Seq(Points), q # <<>>, Spaced(q), NEW now \in Times,
           q[Len(q)].timestamp = now
    PROVE  /\ Series(DropOld(q, now)) /\ DropOld(q, now) # <<>>
           /\ Last(DropOld(q, now)) = q[Len(q)]
  <1> DEFINE young == {i \in 1 .. Len(q) : now - q[i].timestamp <= MaxPeriod}
             k == Min(young)
  <1>1. Len(q) \in Nat /\ Len(q) \in 1 .. Len(q)
    OBVIOUS
  <1>2. Len(q) \in young
    BY <1>1, StatisticsAssumption DEF Times
  <1>3. young \subseteq Nat
    BY <1>1
  <1>4. k \in young
    BY <1>2, <1>3, LeastExists
  <1>5. k \in 1 .. Len(q) /\ Len(q) \in k .. Len(q) /\ now - q[k].timestamp <= MaxPeriod
    BY <1>1, <1>4
  <1>6. DropOld(q, now) = SubSeq(q, k, Len(q))
    BY DEF DropOld
  <1> HIDE DEF k
  <1> QED BY <1>5, <1>6, PartOfSeries

\* What takeSample leaves is a series that ends with the counters.
LEMMA SampleIsSeries ==
    ASSUME NEW ps, Series(ps), NEW now \in Times, counter \in Counts
    PROVE  /\ Series(Sample(ps, now)) /\ Sample(ps, now) # <<>>
           /\ Last(Sample(ps, now)).count = counter
  <1> DEFINE n == Len(ps)
             p == [timestamp |-> now, count |-> counter]
             q == Append(ps, p)
  <1>0. /\ n \in Nat /\ ps \in Seq(Points) /\ now \in Int
        /\ \A i \in 1 .. n : ps[i] \in Points /\ ps[i].timestamp \in Int
    BY SeriesTypes DEF Times
  <1>1. CASE ps # <<>> /\ now - Last(ps).timestamp < PushInterval
    <2> DEFINE e == [ps[n] EXCEPT !.count = counter]
               u == [ps EXCEPT ![n] = e]
    <2>1. n \in 1 .. n /\ e \in Points /\ e.timestamp = ps[n].timestamp /\ e.count = counter
      BY <1>0, <1>1 DEF Points
    <2>2. /\ u \in Seq(Points) /\ Len(u) = n /\ u[n] = e
          /\ \A i \in 1 .. n : u[i].timestamp = ps[i].timestamp
      BY <1>0, <2>1, ExceptSeq
    <2>3. Sample(ps, now) = u
      BY <1>1 DEF Sample
    <2>4. u # <<>>
      BY <2>1, <2>2
    <2>5. Series(u)
      BY <1>0, <1>1, <2>1, <2>2 DEF Series, Spaced
    <2> QED BY <2>1, <2>2, <2>3, <2>4, <2>5 DEF Last
  <1>2. CASE ~(ps # <<>> /\ now - Last(ps).timestamp < PushInterval)
    <2>1. p \in Points /\ p.timestamp = now /\ p.count = counter
      BY DEF Points
    <2> HIDE DEF p
    <2>2. ps # <<>> => p.timestamp - Last(ps).timestamp >= PushInterval
      <3>1. SUFFICES ASSUME ps # <<>> PROVE now - ps[n].timestamp >= PushInterval
        BY <2>1 DEF Last
      <3>2. ps[n].timestamp \in Int
        BY <1>0, <3>1
      <3> HIDE DEF n
      <3>3. ~(now - ps[n].timestamp < PushInterval)
        BY <1>2, <3>1 DEF Last, n
      <3> QED BY <1>0, <3>2, <3>3, StatisticsAssumption
    <2>3. q \in Seq(Points) /\ q # <<>> /\ q[Len(q)] = p
      BY <1>0, <2>1
    <2>4. Spaced(q)
      BY <2>1, <2>2, SpacedGrows
    <2>5. Sample(ps, now) = DropOld(q, now)
      BY <1>2 DEF Sample, p
    <2> HIDE DEF q
    <2> QED BY <2>1, <2>3, <2>4, <2>5, DropOldIsSeries
  <1> QED BY <1>1, <1>2

\* What loadState takes over of a series is one.
LEMMA RetainedIsSeries ==
    ASSUME NEW f, Series(f), NEW now \in Times
    PROVE  Series(Retained(f, now))
  <1> DEFINE kept == {i \in 1 .. Len(f) : /\ now - f[i].timestamp <= MaxPeriod
                                          /\ f[i].timestamp <= now}
  <1>0. Len(f) \in Nat /\ f \in Seq(Points) /\ \A i \in 1 .. Len(f) : f[i].timestamp \in Int
    BY SeriesTypes
  <1>1. CASE kept = {}
    <2>1. Retained(f, now) = <<>>
      BY <1>1 DEF Retained
    <2> QED BY <2>1 DEF Series, Spaced
  <1>2. CASE kept # {}
    <2>0. kept \subseteq Nat
      BY <1>0
    <2>1. Min(kept) \in kept /\ \A y \in kept : Min(kept) <= y
      BY <1>2, <2>0, LeastExists
    <2>2. Max(kept) \in kept
      BY <1>0, <1>2, GreatestExists
    <2>3. Min(kept) \in 1 .. Len(f) /\ Max(kept) \in Min(kept) .. Len(f)
      BY <1>0, <2>1, <2>2
    <2>4. f[Max(kept)].timestamp - f[Min(kept)].timestamp <= MaxPeriod
      BY <1>0, <2>1, <2>2, StatisticsAssumption DEF Times
    <2>5. Retained(f, now) = SubSeq(f, Min(kept), Max(kept))
      BY <1>2 DEF Retained
    <2>6. Spaced(f)
      BY DEF Series
    <2> QED BY <1>0, <2>3, <2>4, <2>5, <2>6, PartOfSeries
  <1> QED BY <1>1, <1>2

-----------------------------------------------------------------------------
(* The plans of the end *)

\* The items of two plans, one after the other.
LEMMA JoinedPlans ==
    ASSUME NEW L \in Seq(Jobs), NEW F \in Seq(Jobs)
    PROVE  /\ L \o F \in Seq(Jobs) /\ Len(L \o F) = Len(L) + Len(F)
           /\ \A i \in 1 .. Len(L) : (L \o F)[i] = L[i]
           /\ \A k \in 1 .. Len(F) : (L \o F)[Len(L) + k] = F[k]
  <1>1. Len(L) \in Nat /\ Len(F) \in Nat
    OBVIOUS
  <1>2. /\ L \o F \in Seq(Jobs) /\ Len(L \o F) = Len(L) + Len(F)
        /\ \A i \in 1 .. Len(L) + Len(F) :
              (L \o F)[i] = IF i <= Len(L) THEN L[i] ELSE F[i - Len(L)]
    BY ConcatProperties
  <1>3. ASSUME NEW i \in 1 .. Len(L) PROVE (L \o F)[i] = L[i]
    <2>1. i \in 1 .. Len(L) + Len(F) /\ i <= Len(L)
      BY <1>1
    <2> QED BY <1>2, <2>1
  <1>4. ASSUME NEW k \in 1 .. Len(F) PROVE (L \o F)[Len(L) + k] = F[k]
    <2>1. /\ Len(L) + k \in 1 .. Len(L) + Len(F) /\ ~(Len(L) + k <= Len(L))
          /\ (Len(L) + k) - Len(L) = k
      BY <1>1
    <2> QED BY <1>2, <2>1
  <1> QED BY <1>2, <1>3, <1>4

\* Shutdown stops every runner, the onion service before the servers, and
\* samples after the persistence runner.
LEMMA ShutdownPlan ==
    /\ Shutdown \in Seq(Jobs)
    /\ Runners \cup {"onion", "servers"} \subseteq ToSet(Shutdown)
    /\ Before(Shutdown, "onion", "servers")
    /\ Before(Shutdown, "persistence", "sample")
  <1> DEFINE L == SetToSeq(LobbyRunners)
             F == <<"persistence", "onion", "servers", "statistics", "sample", "save">>
             m == Len(L)
  <1>1. L \in Seq(Jobs) /\ m \in Nat /\ \A i \in 1 .. m : L[i] \in LobbyRunners
    <2>1. L \in Seq(LobbyRunners)
      BY LobbyPlan
    <2>2. LobbyRunners \subseteq Jobs
      BY DEF Jobs, LobbyRunners
    <2> QED BY <2>1, <2>2, SeqMonotonic, ElementOfSeq, LenProperties
  <1>2. /\ F \in Seq(Jobs) /\ Len(F) = 6
        /\ F[1] = "persistence" /\ F[2] = "onion" /\ F[3] = "servers"
        /\ F[4] = "statistics" /\ F[5] = "sample" /\ F[6] = "save"
    BY ProcessAssumption DEF Jobs
  <1>3. LobbyRunners \cap {"statistics", "persistence", "onion", "servers", "sample", "save"} = {}
    BY ProcessAssumption DEF LobbyRunners
  <1>4. LobbyRunners = {L[i] : i \in 1 .. m}
    BY LobbyPlan DEF ToSet
  <1>5. Shutdown = L \o F
    BY DEF Shutdown, L, F
  <1> HIDE DEF L, m, F
  <1>6. /\ L \o F \in Seq(Jobs) /\ Len(L \o F) = m + 6
        /\ \A i \in 1 .. m : (L \o F)[i] = L[i]
        /\ \A k \in 1 .. 6 : (L \o F)[m + k] = F[k]
    <2>1. /\ L \o F \in Seq(Jobs) /\ Len(L \o F) = Len(L) + Len(F)
          /\ \A i \in 1 .. Len(L) : (L \o F)[i] = L[i]
          /\ \A k \in 1 .. Len(F) : (L \o F)[Len(L) + k] = F[k]
      BY <1>1, <1>2, JoinedPlans, Zenon
    <2>2. Len(F) = 6 /\ Len(L) = m
      BY <1>2 DEF m
    <2> QED BY <2>1, <2>2, Zenon
  <1> DEFINE q == L \o F
  <1>7. /\ q[m + 1] = "persistence" /\ q[m + 2] = "onion" /\ q[m + 3] = "servers"
        /\ q[m + 4] = "statistics" /\ q[m + 5] = "sample" /\ q[m + 6] = "save"
    <2>1. {1, 2, 3, 4, 5, 6} \subseteq 1 .. 6
      OBVIOUS
    <2> QED BY <1>2, <1>6, <2>1, Zenon DEF q
  <1> HIDE DEF q
  <1>8. \A i \in 1 .. Len(q) :
           i \in 1 .. m \cup {m + 1, m + 2, m + 3, m + 4, m + 5, m + 6}
    BY <1>1, <1>6 DEF q
  <1>9. \A i \in 1 .. m : q[i] \in LobbyRunners /\ q[i] = L[i]
    BY <1>1, <1>6 DEF q
  <1>10. Before(q, "onion", "servers") /\ Before(q, "persistence", "sample")
    <2>1. ASSUME NEW i \in 1 .. Len(q)
          PROVE  /\ q[i] = "onion" => i = m + 2
                 /\ q[i] = "servers" => i = m + 3
                 /\ q[i] = "persistence" => i = m + 1
                 /\ q[i] = "sample" => i = m + 5
      <3>1. CASE i \in 1 .. m
        BY <1>3, <1>9, <3>1
      <3>2. CASE ~(i \in 1 .. m)
        BY <1>7, <1>8, <3>2
      <3> QED BY <3>1, <3>2
    <2> QED BY <1>1, <2>1 DEF Before
  <1>11. ToSet(q) = {q[i] : i \in 1 .. Len(q)} /\ Len(q) = m + 6
    <2>1. DOMAIN q = 1 .. Len(q)
      BY <1>6, LenProperties DEF q
    <2> QED BY <1>6, <2>1 DEF ToSet, q
  <1>12. LobbyRunners \subseteq ToSet(q)
    BY <1>1, <1>4, <1>9, <1>11
  <1>13. {"statistics", "persistence", "onion", "servers"} \subseteq ToSet(q)
    BY <1>1, <1>7, <1>11
  <1>14. Runners \subseteq LobbyRunners \cup {"statistics", "persistence"}
    BY DEF LobbyRunners
  <1> QED BY <1>5, <1>6, <1>10, <1>12, <1>13, <1>14 DEF q

\* Abandon stops every runner, the onion service before the servers, and
\* samples after the persistence runner.
LEMMA AbandonPlan ==
    /\ Abandon \in Seq(Jobs)
    /\ Runners \cup {"onion", "servers"} \subseteq ToSet(Abandon)
    /\ Before(Abandon, "onion", "servers")
    /\ Before(Abandon, "persistence", "sample")
  <1> DEFINE L == SetToSeq(LobbyRunners)
             F == <<"statistics", "persistence", "onion", "servers">>
             m == Len(L)
  <1>1. L \in Seq(Jobs) /\ m \in Nat /\ \A i \in 1 .. m : L[i] \in LobbyRunners
    <2>1. L \in Seq(LobbyRunners)
      BY LobbyPlan
    <2>2. LobbyRunners \subseteq Jobs
      BY DEF Jobs, LobbyRunners
    <2> QED BY <2>1, <2>2, SeqMonotonic, ElementOfSeq, LenProperties
  <1>2. /\ F \in Seq(Jobs) /\ Len(F) = 4
        /\ F[1] = "statistics" /\ F[2] = "persistence" /\ F[3] = "onion"
        /\ F[4] = "servers"
    BY ProcessAssumption DEF Jobs
  <1>3. LobbyRunners \cap {"statistics", "persistence", "onion", "servers", "sample", "save"} = {}
    BY ProcessAssumption DEF LobbyRunners
  <1>4. LobbyRunners = {L[i] : i \in 1 .. m}
    BY LobbyPlan DEF ToSet
  <1>5. Abandon = L \o F
    BY DEF Abandon, L, F
  <1> HIDE DEF L, m, F
  <1>6. /\ L \o F \in Seq(Jobs) /\ Len(L \o F) = m + 4
        /\ \A i \in 1 .. m : (L \o F)[i] = L[i]
        /\ \A k \in 1 .. 4 : (L \o F)[m + k] = F[k]
    <2>1. /\ L \o F \in Seq(Jobs) /\ Len(L \o F) = Len(L) + Len(F)
          /\ \A i \in 1 .. Len(L) : (L \o F)[i] = L[i]
          /\ \A k \in 1 .. Len(F) : (L \o F)[Len(L) + k] = F[k]
      BY <1>1, <1>2, JoinedPlans, Zenon
    <2>2. Len(F) = 4 /\ Len(L) = m
      BY <1>2 DEF m
    <2> QED BY <2>1, <2>2, Zenon
  <1> DEFINE q == L \o F
  <1>7. /\ q[m + 1] = "statistics" /\ q[m + 2] = "persistence" /\ q[m + 3] = "onion"
        /\ q[m + 4] = "servers"
    <2>1. {1, 2, 3, 4} \subseteq 1 .. 4
      OBVIOUS
    <2> QED BY <1>2, <1>6, <2>1, Zenon DEF q
  <1> HIDE DEF q
  <1>8. \A i \in 1 .. Len(q) : i \in 1 .. m \cup {m + 1, m + 2, m + 3, m + 4}
    BY <1>1, <1>6 DEF q
  <1>9. \A i \in 1 .. m : q[i] \in LobbyRunners /\ q[i] = L[i]
    BY <1>1, <1>6 DEF q
  <1>10. Before(q, "onion", "servers") /\ Before(q, "persistence", "sample")
    <2>1. ASSUME NEW i \in 1 .. Len(q)
          PROVE  /\ q[i] = "onion" => i = m + 3
                 /\ q[i] = "servers" => i = m + 4
                 /\ q[i] = "persistence" => i = m + 2
                 /\ q[i] # "sample"
      <3>1. CASE i \in 1 .. m
        BY <1>3, <1>9, <3>1
      <3>2. CASE ~(i \in 1 .. m)
        BY <1>7, <1>8, <3>2
      <3> QED BY <3>1, <3>2
    <2> QED BY <1>1, <2>1 DEF Before
  <1>11. ToSet(q) = {q[i] : i \in 1 .. Len(q)} /\ Len(q) = m + 4
    <2>1. DOMAIN q = 1 .. Len(q)
      BY <1>6, LenProperties DEF q
    <2> QED BY <1>6, <2>1 DEF ToSet, q
  <1>12. LobbyRunners \subseteq ToSet(q)
    BY <1>1, <1>4, <1>9, <1>11
  <1>13. {"statistics", "persistence", "onion", "servers"} \subseteq ToSet(q)
    BY <1>1, <1>7, <1>11
  <1>14. Runners \subseteq LobbyRunners \cup {"statistics", "persistence"}
    BY DEF LobbyRunners
  <1> QED BY <1>5, <1>6, <1>10, <1>12, <1>13, <1>14 DEF q

\* One thing of a plan is done: the rest is in the same order, and what should
\* have come before it is over.
LEMMA PlanShrinks ==
    ASSUME NEW q \in Seq(Jobs), q # <<>>,
           NEW x, NEW y, Before(q, x, y)
    PROVE  Before(Tail(q), x, y) /\ (Head(q) = y => x \notin ToSet(q))
  <1>1. /\ Len(q) \in Nat /\ Len(q) > 0 /\ Len(Tail(q)) = Len(q) - 1 /\ Head(q) = q[1]
        /\ \A i \in 1 .. Len(Tail(q)) : Tail(q)[i] = q[i + 1]
    BY HeadTailProperties
  <1>2. Before(Tail(q), x, y)
    <2>1. SUFFICES ASSUME NEW i \in 1 .. Len(Tail(q)), NEW j \in 1 .. Len(Tail(q)),
                          Tail(q)[i] = x, Tail(q)[j] = y
                   PROVE  i < j
      BY DEF Before
    <2>2. i + 1 \in 1 .. Len(q) /\ j + 1 \in 1 .. Len(q) /\ q[i + 1] = x /\ q[j + 1] = y
      BY <1>1, <2>1
    <2>3. i + 1 < j + 1
      BY <2>2 DEF Before
    <2> QED BY <2>3
  <1>3. ASSUME Head(q) = y, x \in ToSet(q) PROVE FALSE
    <2>1. PICK i \in 1 .. Len(q) : q[i] = x
      BY <1>3 DEF ToSet
    <2>2. i < 1
      BY <1>1, <1>3, <2>1 DEF Before
    <2> QED BY <2>2
  <1> QED BY <1>2, <1>3

\* The rest of a plan is the end of it.
LEMMA EndOfPlan ==
    ASSUME NEW plan \in Seq(Jobs), NEW i \in 1 .. Len(plan) + 1,
           SubSeq(plan, i, Len(plan)) # <<>>
    PROVE  /\ i + 1 \in 1 .. Len(plan) + 1
           /\ Tail(SubSeq(plan, i, Len(plan))) = SubSeq(plan, i + 1, Len(plan))
  <1>1. Len(plan) \in Nat /\ i <= Len(plan)
    BY SubSeqEmpty
  <1>2. i \in 1 .. Len(plan) /\ Len(plan) \in i .. Len(plan)
    BY <1>1
  <1> QED BY <1>1, <1>2, HeadTailOfSubSeq

-----------------------------------------------------------------------------
(* The invariant *)

\* A part of the invariant stays as long as its variables do.
LEMMA PartsKept ==
    /\ StatePart /\ UNCHANGED <<counter, points, stateFile, onDisk, acknowledged>> => StatePart'
    /\ PersistsPart /\ UNCHANGED <<persists, main, stateFile, acknowledged, counter, points>>
          => PersistsPart'
    /\ SavesPart /\ UNCHANGED <<save, json, persists, main, acknowledged, points, stateFile,
                                thread, todo>> => SavesPart'
    /\ ThreadsPart /\ UNCHANGED <<thread, stopping, failed, main, todo, persists>>
          => ThreadsPart'
    /\ PlanPart /\ UNCHANGED <<todo, main>> => PlanPart'
    /\ OnionPart /\ UNCHANGED <<control, registered, hostname, keyFile, keyOnDisk, onionStep>>
          => OnionPart'
    /\ ListenersPart /\ UNCHANGED <<listeners, main, onionStep, config, todo>> => ListenersPart'
    /\ RestPart /\ UNCHANGED <<main, config, pidFile, launches, deaf>> => RestPart'
    /\ FlagsPart /\ UNCHANGED <<persists, signal>> => FlagsPart'
  <1>1. StatePart /\ UNCHANGED <<counter, points, stateFile, onDisk, acknowledged>>
           => StatePart'
    BY DEF StatePart, Fileable
  <1>2. PersistsPart /\ UNCHANGED <<persists, main, stateFile, acknowledged, counter, points>>
           => PersistsPart'
    BY Zenon DEF PersistsPart
  <1>3. SavesPart /\ UNCHANGED <<save, json, persists, main, acknowledged, points, stateFile,
                                 thread, todo>> => SavesPart'
    BY DEF SavesPart, Fileable
  <1>4. ThreadsPart /\ UNCHANGED <<thread, stopping, failed, main, todo, persists>>
           => ThreadsPart'
    BY DEF ThreadsPart, RunnerTypeOK, Gone
  <1>5. PlanPart /\ UNCHANGED <<todo, main>> => PlanPart'
    BY Zenon DEF PlanPart
  <1>6. OnionPart /\ UNCHANGED <<control, registered, hostname, keyFile, keyOnDisk, onionStep>>
           => OnionPart'
    BY DEF OnionPart, OnionTypeOK
  <1>7. ListenersPart /\ UNCHANGED <<listeners, main, onionStep, config, todo>>
           => ListenersPart'
    BY Zenon DEF ListenersPart, Backend
  <1>8. RestPart /\ UNCHANGED <<main, config, pidFile, launches, deaf>> => RestPart'
    BY DEF RestPart
  <1>9. FlagsPart /\ UNCHANGED <<persists, signal>> => FlagsPart'
    BY Zenon DEF FlagsPart
  <1> QED BY <1>1, <1>2, <1>3, <1>4, <1>5, <1>6, <1>7, <1>8, <1>9, Zenon

\* The first launch finds the invariant.
LEMMA InitKeeps == Init => IInv
  <1> SUFFICES ASSUME Init PROVE IInv
    OBVIOUS
  <1>0. RunnerInit /\ StatisticsInit /\ OnionInit
    BY DEF Init
  <1>1. StatePart
    <2>1. Series(<<>>)
      BY DEF Series, Spaced
    <2>2. 0 \in Counts
      BY StatisticsAssumption DEF Counts
    <2> QED BY <1>0, <2>1, <2>2 DEF StatePart, StatisticsInit, IsState
  <1>2. PersistsPart
    BY DEF Init, PersistsPart
  <1>3. SavesPart
    BY <1>0, ProcessAssumption DEF SavesPart, StatisticsInit, SaveSteps
  <1>4. ThreadsPart
    BY <1>0, ProcessAssumption
    DEF Init, ThreadsPart, RunnerTypeOK, RunnerInit, NoThreads, NoFlags, Gone
  <1>5. PlanPart
    <2>1. todo = <<>>
      BY DEF Init
    <2>2. Before(<<>>, "onion", "servers") /\ Before(<<>>, "persistence", "sample")
      BY DEF Before
    <2>3. Len(Shutdown) \in Nat
      BY ShutdownPlan
    <2>4. SubSeq(Shutdown, Len(Shutdown) + 1, Len(Shutdown)) = <<>>
      BY <2>3, SubSeqEmpty
    <2>5. Len(Shutdown) + 1 \in 1 .. Len(Shutdown) + 1
      BY <2>3
    <2> QED BY <2>1, <2>2, <2>4, <2>5 DEF PlanPart
  <1>6. OnionPart
    BY <1>0 DEF OnionPart, OnionInit, OnionTypeOK
  <1>7. ListenersPart
    BY <1>0 DEF Init, OnionInit, ListenersPart
  <1>8. RestPart
    BY ProcessAssumption DEF Init, RestPart, Down
  <1>9. FlagsPart
    BY Zenon DEF Init, FlagsPart
  <1> QED BY <1>1, <1>2, <1>3, <1>4, <1>5, <1>6, <1>7, <1>8, <1>9 DEF IInv

\* A launch starts from nothing but files.
LEMMA LaunchKeeps ==
    ASSUME IInv, Launch
    PROVE  IInv'
  <1>0. /\ UNCHANGED <<counter, points, stateFile, onDisk, save, json, acknowledged, control,
                       registered, hostname, keyFile, keyOnDisk, onionStep, todo, config,
                       persists, deaf>>
        /\ main \in Down /\ main' \in {"tor", "exited"} /\ main # "stopping"
        /\ \A r \in Runners : thread'[r] = "none"
    BY DEF Launch, statisticsVars, stateVars, onionVars, Down, ForgetRunners, NoThreads
  <1>1. ~persists /\ \A s \in Savers : save[s] = "idle"
    BY <1>0 DEF IInv, PersistsPart, SavesPart, Down
  <1>2. PersistsPart'
    BY <1>0, <1>1, Zenon DEF PersistsPart
  <1>3. SavesPart'
    BY <1>0, <1>1, ProcessAssumption DEF IInv, SavesPart
  <1>4. ThreadsPart'
    BY <1>0, ProcessAssumption
    DEF Launch, ForgetRunners, NoThreads, NoFlags, ThreadsPart, RunnerTypeOK, Gone
  <1>5. PlanPart'
    BY <1>0, Zenon DEF IInv, PlanPart
  <1>6. ListenersPart'
    BY <1>0 DEF Launch, IInv, ListenersPart, Down
  <1>7. RestPart'
    BY <1>0, ProcessAssumption DEF Launch, IInv, RestPart, Down
  <1>8. FlagsPart'
    BY <1>0, Zenon DEF Launch, IInv, FlagsPart
  <1> QED BY <1>0, <1>2, <1>3, <1>4, <1>5, <1>6, <1>7, <1>8, PartsKept DEF IInv

\* The parts that a step of the start of the onion service leaves alone.
LEMMA OnionStepKeeps ==
    ASSUME IInv, main = "tor", main' \in {"tor", "load"},
           UNCHANGED <<runnerVars, statisticsVars, stateVars, todo, config, persists, pidFile,
                       signal, launches, deaf>>
    PROVE  /\ StatePart' /\ PersistsPart' /\ SavesPart' /\ ThreadsPart' /\ PlanPart'
           /\ RestPart' /\ FlagsPart'
  <1>0. /\ UNCHANGED <<thread, stopping, failed, counter, points, stateFile, onDisk, save, json,
                       acknowledged, todo, config, persists, pidFile, signal, launches, deaf>>
        /\ main' \notin Down \cup {"running", "stopping"}
    BY DEF runnerVars, statisticsVars, stateVars, Down
  <1>1. ~persists /\ \A s \in Savers : save[s] = "idle"
    BY DEF IInv, PersistsPart, SavesPart
  <1>2. PersistsPart'
    <2>1. ~persists'
      BY <1>0, <1>1
    <2> QED BY <2>1 DEF PersistsPart
  <1>3. SavesPart'
    BY <1>0, <1>1, ProcessAssumption DEF IInv, SavesPart
  <1>4. ThreadsPart'
    BY <1>0 DEF IInv, ThreadsPart, RunnerTypeOK, Gone
  <1>5. PlanPart'
    BY <1>0, Zenon DEF IInv, PlanPart
  <1>6. RestPart'
    BY <1>0 DEF IInv, RestPart
  <1> QED BY <1>0, <1>2, <1>3, <1>4, <1>5, <1>6, PartsKept DEF IInv

\* The listener is open before the service is announced.
LEMMA OpenBackendKeeps ==
    ASSUME IInv, OpenBackend
    PROVE  IInv'
  <1>1. /\ main' = main /\ main = "tor"
        /\ UNCHANGED <<runnerVars, statisticsVars, stateVars, todo, config, persists, pidFile,
                       signal, launches, deaf>>
    BY DEF OpenBackend
  <1>2. OnionPart'
    BY DEF OpenBackend, BeginStart, IInv, OnionPart, OnionTypeOK
  <1>3. ListenersPart'
    BY <1>1 DEF OpenBackend, BeginStart, IInv, ListenersPart, Backend, Down
  <1> QED BY <1>1, <1>2, <1>3, OnionStepKeeps DEF IInv

\* The service is registered, with the key of the file or one that is then saved.
LEMMA StartTorKeeps ==
    ASSUME IInv, StartTor
    PROVE  IInv'
  <1>1. /\ main' = main /\ main = "tor" /\ UNCHANGED listeners
        /\ UNCHANGED <<runnerVars, statisticsVars, stateVars, todo, config, persists, pidFile,
                       signal, launches, deaf>>
    BY DEF StartTor, processVars
  <1>2. OnionPart' /\ onionStep # "idle"
    <2>1. CASE ConnectControl
      BY <2>1 DEF ConnectControl, Reachable, FailStart, CloseConnection, IInv, OnionPart,
                  OnionTypeOK
    <2>2. CASE Authenticate
      BY <2>2 DEF Authenticate, FailStart, CloseConnection, IInv, OnionPart, OnionTypeOK
    <2>3. CASE Add
      BY <2>3 DEF Add, LoadPrivateKey, Registered, FailStart, CloseConnection, IInv, OnionPart,
                  OnionTypeOK
    <2>4. CASE SavePrivateKey
      BY <2>4 DEF SavePrivateKey, Registered, FailStart, CloseConnection, IInv, OnionPart,
                  OnionTypeOK
    <2> QED BY <2>1, <2>2, <2>3, <2>4 DEF StartTor, StartOnion
  <1>3. ListenersPart'
    BY <1>1, <1>2 DEF IInv, ListenersPart, Backend, Down
  <1> QED BY <1>1, <1>2, <1>3, OnionStepKeeps DEF IInv

\* run goes on with Tor or without it.
LEMMA TorEndsKeeps ==
    ASSUME IInv, TorStarted \/ WithoutTor
    PROVE  IInv'
  <1>1. /\ main' = "load" /\ main = "tor"
        /\ UNCHANGED <<runnerVars, statisticsVars, stateVars, todo, config, persists, pidFile,
                       signal, launches, deaf>>
    BY DEF TorStarted, WithoutTor
  <1>2. CASE TorStarted
    <2>1. UNCHANGED <<control, registered, hostname, keyFile, keyOnDisk, onionStep, listeners>>
      BY <1>2 DEF TorStarted, onionVars
    <2>2. ListenersPart'
      BY <1>1, <2>1 DEF IInv, ListenersPart, Backend, Down
    <2> QED BY <1>1, <2>1, <2>2, OnionStepKeeps, PartsKept DEF IInv
  <1>3. CASE WithoutTor
    <2>1. OnionPart'
      BY <1>3 DEF WithoutTor, StopOnion, CloseConnection, IInv, OnionPart, OnionTypeOK
    <2>2. ListenersPart'
      BY <1>1, <1>3 DEF WithoutTor, StopOnion, IInv, ListenersPart, Down
    <2> QED BY <1>1, <2>1, <2>2, OnionStepKeeps DEF IInv
  <1> QED BY <1>2, <1>3

\* The counters of a state that is loaded are not behind a checkpoint.
LEMMA LoadKeeps ==
    ASSUME IInv, Load
    PROVE  IInv'
  <1>0. /\ UNCHANGED <<thread, stopping, failed, stateFile, onDisk, save, json, acknowledged,
                       control, registered, hostname, keyFile, keyOnDisk, onionStep, todo,
                       config, listeners, pidFile, signal, launches, deaf>>
        /\ main = "load" /\ main' = "sample"
        /\ persists' = ("state" \in config /\ (stateFile = Missing \/ Loadable(stateFile)))
    BY DEF Load, runnerVars, stateVars, onionVars
  <1>1. ~persists /\ \A s \in Savers : save[s] = "idle"
    BY <1>0 DEF IInv, PersistsPart, SavesPart
  <1>2. /\ counter' \in Counts /\ Series(points')
        /\ "state" \in config /\ Loadable(stateFile) => acknowledged <= counter'
    <2>1. CASE "state" \in config /\ Loadable(stateFile)
      <3>1. PICK now \in Times : LoadState(now)
        BY <2>1 DEF Load
      <3>2. Fileable(stateFile)
        BY <2>1 DEF IInv, StatePart, Loadable
      <3>3. counter' = Last(stateFile).count /\ points' = Retained(stateFile, now)
        BY <2>1, <3>1, <3>2, SeriesAreLoadable DEF LoadState, Fileable
      <3>4. Last(stateFile).count \in Counts /\ Series(Retained(stateFile, now))
        BY <3>2, SeriesAreLoadable, RetainedIsSeries DEF Fileable
      <3> QED BY <3>2, <3>3, <3>4 DEF Fileable
    <2>2. CASE ~("state" \in config /\ Loadable(stateFile))
      <3>1. UNCHANGED <<counter, points>>
        BY <2>2 DEF Load, LoadState
      <3> QED BY <2>2, <3>1 DEF IInv, StatePart
    <2> QED BY <2>1, <2>2
  <1>3. StatePart'
    BY <1>0, <1>2 DEF IInv, StatePart, Fileable
  <1>4. ASSUME persists' PROVE acknowledged <= counter' /\ stateFile # Invalid
    <2>1. CASE Loadable(stateFile)
      BY <1>0, <1>2, <1>4, <2>1 DEF Loadable, IsState
    <2>2. CASE stateFile = Missing
      <3>1. acknowledged = 0
        BY <2>2 DEF IInv, StatePart, IsState
      <3> QED BY <1>2, <2>2, <3>1, StatisticsAssumption DEF Counts
    <2> QED BY <1>0, <1>4, <2>1, <2>2
  <1>5. PersistsPart'
    <2>1. SUFFICES ASSUME persists' PROVE PersistsPart'
      BY DEF PersistsPart
    <2> QED BY <1>0, <1>4, <2>1 DEF PersistsPart
  <1>6. SavesPart'
    BY <1>0, <1>1, ProcessAssumption DEF IInv, SavesPart
  <1>7. ThreadsPart'
    BY <1>0, ProcessAssumption DEF IInv, ThreadsPart, RunnerTypeOK, Gone
  <1>8. PlanPart'
    BY <1>0, Zenon DEF IInv, PlanPart
  <1>9. ListenersPart' /\ RestPart'
    BY <1>0 DEF IInv, ListenersPart, RestPart, Backend, Down
  <1>10. FlagsPart'
    BY <1>0, Zenon DEF IInv, FlagsPart
  <1> QED BY <1>0, <1>3, <1>5, <1>6, <1>7, <1>8, <1>9, <1>10, PartsKept DEF IInv

\* A sample brings the last point up to the counters.
LEMMA SampleKeeps ==
    ASSUME IInv, NEW now \in Times, points' = Sample(points, now),
           UNCHANGED <<counter, stateFile, onDisk, acknowledged>>
    PROVE  /\ StatePart' /\ points' # <<>>
           /\ Last(points').count = counter /\ Series(points')
           /\ persists => acknowledged <= Last(points').count
           /\ persists /\ main # "sample" => Last(points).count <= Last(points').count
  <1>1. Series(points) /\ counter \in Counts
    BY DEF IInv, StatePart
  <1>2. Series(points') /\ points' # <<>> /\ Last(points').count = counter
    BY <1>1, SampleIsSeries
  <1>3. StatePart'
    BY <1>1, <1>2 DEF IInv, StatePart, Fileable
  <1>4. /\ persists => acknowledged <= counter
        /\ persists /\ main # "sample" => Last(points).count <= counter
    BY DEF IInv, PersistsPart
  <1> QED BY <1>2, <1>3, <1>4

\* The first sample.
LEMMA FirstSampleKeeps ==
    ASSUME IInv, FirstSample
    PROVE  IInv'
  <1>0. /\ UNCHANGED <<thread, stopping, failed, counter, stateFile, onDisk, save, json,
                       acknowledged, control, registered, hostname, keyFile, keyOnDisk,
                       onionStep, todo, config, persists, listeners, pidFile, signal, launches,
                       deaf>>
        /\ main = "sample" /\ main' = "start"
    BY DEF FirstSample, runnerVars, stateVars, onionVars
  <1>1. PICK now \in Times : points' = Sample(points, now)
    BY DEF FirstSample
  <1>2. /\ StatePart' /\ points' # <<>> /\ Last(points').count = counter
        /\ persists => acknowledged <= Last(points').count
    BY <1>0, <1>1, SampleKeeps
  <1>3. counter \in Int
    BY DEF IInv, StatePart, Counts
  <1>4. PersistsPart'
    BY <1>0, <1>2, <1>3 DEF IInv, PersistsPart
  <1>5. SavesPart'
    BY <1>0, ProcessAssumption DEF IInv, SavesPart
  <1>6. ThreadsPart'
    BY <1>0, ProcessAssumption DEF IInv, ThreadsPart, RunnerTypeOK, Gone
  <1>7. PlanPart'
    BY <1>0, Zenon DEF IInv, PlanPart
  <1>8. ListenersPart' /\ RestPart'
    BY <1>0 DEF IInv, ListenersPart, RestPart, Backend, Down
  <1> QED BY <1>0, <1>2, <1>4, <1>5, <1>6, <1>7, <1>8, PartsKept DEF IInv

\* A list of things to do that is a plan as a whole.
LEMMA PlanBegins ==
    ASSUME NEW plan \in {Shutdown, Abandon}
    PROVE  /\ todo' = plan /\ main' = "stopping" => PlanPart'
           /\ Runners \cup {"onion", "servers"} \subseteq ToSet(plan)
  <1>1. /\ plan \in Seq(Jobs) /\ Len(plan) \in Nat
        /\ Runners \cup {"onion", "servers"} \subseteq ToSet(plan)
        /\ Before(plan, "onion", "servers") /\ Before(plan, "persistence", "sample")
    BY ShutdownPlan, AbandonPlan
  <1>2. plan = SubSeq(plan, 1, Len(plan)) /\ 1 \in 1 .. Len(plan) + 1
    BY <1>1, SubSeqFull
  <1>3. ASSUME todo' = plan, main' = "stopping" PROVE PlanPart'
    <2>1. \E p \in {Shutdown, Abandon} : \E k \in 1 .. Len(p) + 1 :
             todo' = SubSeq(p, k, Len(p))
      BY <1>2, <1>3, Zenon
    <2>2. PlanPart' <=>
             /\ todo' \in Seq(Jobs)
             /\ \E p \in {Shutdown, Abandon} : \E k \in 1 .. Len(p) + 1 :
                   todo' = SubSeq(p, k, Len(p))
             /\ main' # "stopping" => todo' = <<>>
             /\ Before(todo', "onion", "servers")
             /\ Before(todo', "persistence", "sample")
      BY Zenon DEF PlanPart
    <2> QED BY <1>1, <1>3, <2>1, <2>2, Zenon
  <1> QED BY <1>1, <1>3

\* The runners get their threads, all or not.
LEMMA StartRunnersKeeps ==
    ASSUME IInv, StartRunners
    PROVE  IInv'
  <1> DEFINE tried == IF persists THEN Runners ELSE Runners \ {"persistence"}
  <1>0. /\ UNCHANGED <<counter, points, stateFile, onDisk, save, json, acknowledged, control,
                       registered, hostname, keyFile, keyOnDisk, onionStep, config, persists,
                       listeners, pidFile, signal, launches, deaf>>
        /\ main = "start"
    BY DEF StartRunners, statisticsVars, stateVars, onionVars
  <1>1. PICK started \in SUBSET tried :
           /\ Start(tried, started)
           /\ main' = IF started = tried THEN "running" ELSE "stopping"
           /\ todo' = IF started = tried THEN <<>> ELSE Abandon
    BY DEF StartRunners
  <1>2. \A s \in Savers : save[s] = "idle"
    <2>1. save["persistence"] = "idle"
      BY <1>0, ProcessAssumption DEF IInv, SavesPart, ThreadsPart, Gone
    <2>2. save["main"] = "idle"
      BY <1>0 DEF IInv, SavesPart
    <2> QED BY <2>1, <2>2, ProcessAssumption
  <1>3. main' \in {"running", "stopping"} /\ (main' = "stopping" => todo' = Abandon)
    BY <1>1
  <1>4. PersistsPart'
    BY <1>0, <1>3 DEF IInv, PersistsPart
  <1>5. SavesPart'
    BY <1>0, <1>2, ProcessAssumption DEF IInv, SavesPart
  <1>6. Runners \cup {"onion", "servers"} \subseteq ToSet(Abandon)
    BY PlanBegins
  <1>7. ThreadsPart'
    <2>1. RunnerTypeOK'
      BY <1>1 DEF Start, RunnerTypeOK, NoFlags
    <2>2. ~Gone("persistence")' => persists'
      BY <1>0, <1>1, ProcessAssumption DEF Start, Gone
    <2>3. main' = "stopping" => Runners \ ToSet(todo') = {}
      BY <1>3, <1>6
    <2> QED BY <1>3, <2>1, <2>2, <2>3 DEF ThreadsPart
  <1>8. PlanPart'
    <2>1. CASE main' = "stopping"
      BY <1>3, <2>1, PlanBegins
    <2>2. CASE main' = "running"
      <3>1. todo' = <<>> /\ todo = <<>>
        BY <1>0, <1>1, <2>2 DEF IInv, PlanPart
      <3> QED BY <2>2, <3>1, Zenon DEF IInv, PlanPart
    <2> QED BY <1>3, <2>1, <2>2
  <1>9. ListenersPart' /\ RestPart'
    BY <1>0, <1>3, <1>6 DEF IInv, ListenersPart, RestPart, Backend, Down
  <1> QED BY <1>0, <1>4, <1>5, <1>7, <1>8, <1>9, PartsKept DEF IInv

\* A thread that goes on ends sooner or later, and its end is for good.
LEMMA ThreadsMove ==
    ASSUME IInv, NEW r \in Runners, ~Gone(r), UNCHANGED <<main, todo, persists>>,
           NEW to \in {"waiting", "iterating", "ended"},
           thread' = [thread EXCEPT ![r] = to],
           stopping' \in [Runners -> BOOLEAN], failed' \in [Runners -> BOOLEAN]
    PROVE  ThreadsPart'
  <1>1. RunnerTypeOK'
    BY DEF IInv, ThreadsPart, RunnerTypeOK
  <1>2. \A x \in Runners : Gone(x) => Gone(x)'
    BY DEF IInv, ThreadsPart, RunnerTypeOK, Gone
  <1>3. "persistence" \in Runners
    BY ProcessAssumption
  <1>4. ~Gone("persistence")' => persists'
    BY <1>2, <1>3 DEF IInv, ThreadsPart
  <1>5. main' \notin {"running", "stopping"} => \A x \in Runners : Gone(x)'
    BY <1>2 DEF IInv, ThreadsPart
  <1>6. main' = "stopping" => \A x \in Runners \ ToSet(todo') : Gone(x)'
    BY <1>2 DEF IInv, ThreadsPart
  <1> QED BY <1>1, <1>4, <1>5, <1>6 DEF ThreadsPart

\* Flags that go up are flags.
LEMMA FlagRaised ==
    ASSUME NEW f \in [Runners -> BOOLEAN], NEW r \in Runners
    PROVE  [f EXCEPT ![r] = TRUE] \in [Runners -> BOOLEAN]
  OBVIOUS

\* A runner wakes up; the persistence runner begins to save, and it is alone.
LEMMA RunnerWakesKeeps ==
    ASSUME IInv, NEW r \in Runners, RunnerWakes(r)
    PROVE  IInv'
  <1>0. /\ UNCHANGED <<stopping, failed, counter, points, control, registered, hostname, keyFile,
                       keyOnDisk, onionStep, main, todo, config, persists, listeners, pidFile,
                       signal, launches, deaf, stateFile, onDisk, acknowledged>>
        /\ thread[r] = "waiting"
    BY DEF RunnerWakes, WakeUp, BeginSave, statisticsVars, stateVars, onionVars, processVars
  <1>1. PICK to \in {"iterating", "ended"} : thread' = [thread EXCEPT ![r] = to]
    BY DEF RunnerWakes, WakeUp
  <1>2. ThreadsPart'
    <2>1. ~Gone(r) /\ stopping' \in [Runners -> BOOLEAN] /\ failed' \in [Runners -> BOOLEAN]
      BY <1>0 DEF Gone, IInv, ThreadsPart, RunnerTypeOK
    <2> QED BY <1>0, <1>1, <2>1, ThreadsMove
  <1>3. thread'[r] = to /\ \A x \in Runners \ {r} : thread'[x] = thread[x]
    BY <1>1 DEF IInv, ThreadsPart, RunnerTypeOK
  <1>4. SavesPart'
    <2>1. CASE r = "persistence" /\ to = "iterating"
      <3>1. BeginSave("persistence", points)
        BY <1>3, <2>1 DEF RunnerWakes
      <3>2. persists /\ main \in {"running", "stopping"}
        BY <1>0, <2>1 DEF IInv, ThreadsPart, Gone
      <3>3. Fileable(points) /\ Last(points).count \in Int
        BY <3>2, SeriesAreLoadable DEF IInv, PersistsPart, StatePart, Fileable, Counts
      <3>4. /\ "persistence" \in Savers /\ save["persistence"] = "idle"
            /\ save' = [save EXCEPT !["persistence"] = "flushed"]
            /\ json' = [json EXCEPT !["persistence"] = points]
        BY <3>1, ProcessAssumption DEF BeginSave, Saving
      <3>5. save["main"] = "idle" /\ save'["main"] = "idle"
        BY <1>0, <2>1, <3>4, ProcessAssumption DEF IInv, SavesPart, ThreadsPart, Gone
      <3>6. /\ save' \in [Savers -> SaveSteps] /\ DOMAIN json' = Savers
            /\ \A s \in Savers : json'[s] \in Seq(Points)
        BY <3>3, <3>4 DEF IInv, SavesPart, SaveSteps, Fileable, Series
      <3>7. save'["persistence"] = "flushed" /\ json'["persistence"] = points
        BY <3>4 DEF IInv, SavesPart
      <3>8. Fileable(points)'
        BY <1>0, <3>3 DEF Fileable
      <3>9. \A s \in Savers : save'[s] # "idle" => s = "persistence"
        BY <3>5, ProcessAssumption
      <3> QED BY <1>0, <1>3, <2>1, <3>2, <3>3, <3>5, <3>6, <3>7, <3>8, <3>9
          DEF SavesPart, Fileable
    <2>2. CASE ~(r = "persistence" /\ to = "iterating")
      <3>1. UNCHANGED <<save, json>>
        BY <1>3, <2>2 DEF RunnerWakes, stateVars
      <3>2. save["persistence"] # "idle" => thread'["persistence"] = "iterating"
        <4>1. save["persistence"] # "idle" => thread["persistence"] = "iterating"
          BY DEF IInv, SavesPart
        <4> QED BY <1>0, <1>3, <4>1, ProcessAssumption
      <3> QED BY <1>0, <3>1, <3>2 DEF IInv, SavesPart, Fileable
    <2> QED BY <2>1, <2>2
  <1> QED BY <1>0, <1>2, <1>4, PartsKept DEF IInv

\* An iteration ends; that of the statistics runner is a sample.
LEMMA RunnerRepeatsKeeps ==
    ASSUME IInv, NEW r \in Runners, RunnerRepeats(r)
    PROVE  IInv'
  <1>0. /\ UNCHANGED <<stopping, failed, counter, control, registered, hostname, keyFile,
                       keyOnDisk, onionStep, main, todo, config, persists, listeners, pidFile,
                       signal, launches, deaf, stateFile, onDisk, acknowledged, save, json>>
        /\ thread[r] = "iterating" /\ thread' = [thread EXCEPT ![r] = "waiting"]
        /\ r = "persistence" => save[r] = "idle"
    BY DEF RunnerRepeats, Repeat, Saving, stateVars, onionVars, processVars
  <1>1. ThreadsPart'
    <2>1. ~Gone(r) /\ stopping' \in [Runners -> BOOLEAN] /\ failed' \in [Runners -> BOOLEAN]
      BY <1>0 DEF Gone, IInv, ThreadsPart, RunnerTypeOK
    <2> QED BY <1>0, <2>1, ThreadsMove
  <1>2. save["persistence"] # "idle" => thread'["persistence"] = "iterating"
    BY <1>0, ProcessAssumption DEF IInv, SavesPart, ThreadsPart, RunnerTypeOK
  <1>3. main \in {"running", "stopping"}
    BY <1>0 DEF IInv, ThreadsPart, Gone
  <1>4. CASE r = "statistics"
    <2>1. PICK now \in Times : points' = Sample(points, now)
      BY <1>4 DEF RunnerRepeats
    <2>2. /\ StatePart' /\ points' # <<>> /\ Last(points').count = counter
          /\ persists => acknowledged <= Last(points').count
          /\ persists => Last(points).count <= Last(points').count
      BY <1>0, <1>3, <2>1, SampleKeeps
    <2>3. counter \in Int
      BY DEF IInv, StatePart, Counts
    <2>4. PersistsPart'
      BY <1>0, <2>2, <2>3 DEF IInv, PersistsPart
    <2>5. SavesPart'
      <3>1. ASSUME NEW s \in Savers, save[s] # "idle"
            PROVE  /\ persists /\ main # "sample" /\ Fileable(json[s])
                   /\ Last(json[s]).count <= Last(points').count
        <4>1. /\ persists /\ main # "sample" /\ Fileable(json[s])
              /\ Last(json[s]).count <= Last(points).count
          BY <3>1 DEF IInv, SavesPart
        <4>2. /\ Last(json[s]).count \in Int /\ Last(points).count \in Int
              /\ Last(points').count \in Int
          BY <2>2, <2>3, <4>1, SeriesAreLoadable
          DEF IInv, PersistsPart, StatePart, Fileable, Counts
        <4> QED BY <2>2, <4>1, <4>2
      <3> QED BY <1>0, <1>2, <3>1 DEF IInv, SavesPart, Fileable
    <2> QED BY <1>0, <1>1, <2>2, <2>4, <2>5, PartsKept DEF IInv
  <1>5. CASE r # "statistics"
    <2>1. UNCHANGED points
      BY <1>5 DEF RunnerRepeats
    <2>2. SavesPart'
      BY <1>0, <1>2, <2>1 DEF IInv, SavesPart, Fileable
    <2> QED BY <1>0, <1>1, <2>1, <2>2, PartsKept DEF IInv
  <1> QED BY <1>4, <1>5

\* An iteration throws.
LEMMA RunnerThrowsKeeps ==
    ASSUME IInv, NEW r \in Runners, RunnerThrows(r)
    PROVE  IInv'
  <1>0. /\ UNCHANGED <<counter, points, control, registered, hostname, keyFile,
                       keyOnDisk, onionStep, main, todo, config, persists, listeners, pidFile,
                       signal, launches, deaf, stateFile, onDisk, acknowledged, save, json>>
        /\ thread[r] = "iterating" /\ thread' = [thread EXCEPT ![r] = "ended"]
        /\ stopping' = [stopping EXCEPT ![r] = TRUE] /\ failed' = [failed EXCEPT ![r] = TRUE]
        /\ r = "persistence" => save[r] = "idle"
    BY DEF RunnerThrows, Throw, Saving, statisticsVars, stateVars, onionVars, processVars
  <1>1. ThreadsPart'
    <2>1. ~Gone(r) /\ stopping' \in [Runners -> BOOLEAN] /\ failed' \in [Runners -> BOOLEAN]
      BY <1>0, FlagRaised DEF Gone, IInv, ThreadsPart, RunnerTypeOK
    <2> QED BY <1>0, <2>1, ThreadsMove
  <1>2. save["persistence"] # "idle" => thread'["persistence"] = "iterating"
    BY <1>0, ProcessAssumption DEF IInv, SavesPart, ThreadsPart, RunnerTypeOK
  <1>3. SavesPart'
    BY <1>0, <1>2 DEF IInv, SavesPart, Fileable
  <1> QED BY <1>0, <1>1, <1>3, PartsKept DEF IInv

\* Two threads never save at the same time.
LEMMA OneSaves ==
    ASSUME IInv, NEW s \in Savers, save[s] # "idle"
    PROVE  \A t \in Savers \ {s} : save[t] = "idle"
  <1>1. ~(save["persistence"] # "idle" /\ save["main"] # "idle")
    BY ProcessAssumption DEF IInv, SavesPart, ThreadsPart, Gone
  <1> QED BY <1>1, ProcessAssumption

\* A save goes on: a file that is renamed holds the counters of every
\* checkpoint, and is the only one left once it is a checkpoint itself.
LEMMA SaveKeeps ==
    ASSUME IInv, NEW s \in Savers, Save(s)
    PROVE  IInv'
  <1>0. /\ UNCHANGED <<thread, stopping, failed, counter, points, control, registered, hostname,
                       keyFile, keyOnDisk, onionStep, main, todo, config, persists, listeners,
                       pidFile, signal, launches, deaf>>
        /\ save[s] # "idle"
        /\ save' \in {[save EXCEPT ![s] = "renamed"], [save EXCEPT ![s] = "idle"]}
        /\ json' \in {json, [json EXCEPT ![s] = <<>>]}
        /\ DOMAIN json = Savers /\ save \in [Savers -> SaveSteps]
    BY DEF Save, WriteAtomically, RenameTemporary, FlushDirectory, FailSave, Saving, runnerVars,
           statisticsVars, onionVars, processVars, IInv, SavesPart
  <1>1. /\ persists /\ main # "sample" /\ stateFile # Invalid
        /\ Fileable(json[s]) /\ Last(json[s]).count <= Last(points).count
        /\ Last(points).count <= counter
    BY <1>0 DEF IInv, SavesPart, PersistsPart
  <1>2. \A t \in Savers \ {s} : save[t] = "idle" /\ save'[t] = "idle"
    BY <1>0, OneSaves
  <1>3. /\ save' \in [Savers -> SaveSteps] /\ DOMAIN json' = Savers
        /\ \A t \in Savers : json'[t] \in Seq(Points)
    <2>1. save' \in [Savers -> SaveSteps] /\ DOMAIN json' = Savers
      BY <1>0 DEF SaveSteps
    <2>2. <<>> \in Seq(Points) /\ \A t \in Savers : json[t] \in Seq(Points)
      BY DEF IInv, SavesPart
    <2>3. \A t \in Savers : json'[t] \in {json[t], <<>>}
      BY <1>0
    <2> QED BY <2>1, <2>2, <2>3
  <1>4. /\ Loadable(json[s]) /\ IsState(json[s]) /\ Latest(json[s]) = Last(json[s]).count
        /\ Last(json[s]).count \in Counts
    BY <1>1, SeriesAreLoadable DEF Fileable, Loadable
  <1>5. /\ counter \in Int /\ Last(points).count \in Int /\ Last(json[s]).count \in Int
        /\ acknowledged \in Int
    BY <1>1, <1>4, SeriesAreLoadable DEF IInv, StatePart, PersistsPart, Counts
  <1>6. CASE RenameTemporary(s)
    <2>1. /\ stateFile' = json[s] /\ onDisk' = onDisk \cup {json[s]} /\ save'[s] = "renamed"
          /\ UNCHANGED <<json, acknowledged>>
      BY <1>0, <1>6 DEF RenameTemporary
    <2>2. StatePart'
      <3>1. Invalid \notin onDisk' \cup {stateFile'}
        BY <1>1, <1>4, <2>1 DEF IInv, StatePart, IsState
      <3>2. ASSUME NEW f \in onDisk' \cup {stateFile'}
            PROVE  IF IsState(f) THEN Fileable(f)' ELSE acknowledged' = 0
        <4>1. f \in onDisk \/ f = json[s]
          BY <2>1, <3>2
        <4>2. IF IsState(f) THEN Fileable(f) ELSE acknowledged = 0
          <5>1. CASE f \in onDisk
            BY <5>1 DEF IInv, StatePart
          <5>2. CASE f = json[s]
            BY <1>1, <1>4, <5>2
          <5> QED BY <4>1, <5>1, <5>2
        <4> QED BY <2>1, <4>2 DEF Fileable
      <3> QED BY <1>0, <2>1, <3>1, <3>2 DEF IInv, StatePart, IsState, Fileable
    <2>3. PersistsPart'
      BY <1>0, <1>4, <2>1 DEF IInv, PersistsPart, IsState
    <2>4. SavesPart'
      BY <1>0, <1>1, <1>2, <1>3, <2>1, ProcessAssumption DEF IInv, SavesPart, Fileable
    <2> QED BY <1>0, <2>2, <2>3, <2>4, PartsKept DEF IInv
  <1>7. CASE FlushDirectory(s)
    <2>1. /\ stateFile' = stateFile /\ onDisk' = {stateFile} /\ save'[s] = "idle"
          /\ save[s] = "renamed" /\ acknowledged' = Later(acknowledged, Latest(json[s]))
      BY <1>0, <1>7 DEF FlushDirectory, Saving
    <2>2. stateFile = json[s]
      BY <2>1 DEF IInv, SavesPart
    <2>3. acknowledged' = Last(json[s]).count
      BY <1>1, <1>4, <1>5, <2>1 DEF Later, Fileable
    <2>4. StatePart'
      <3>1. PICK f : f = stateFile
        OBVIOUS
      <3>2. Series(f) /\ f # <<>> /\ acknowledged' <= Last(f).count /\ IsState(f)
        BY <1>1, <1>4, <1>5, <2>2, <2>3, <3>1 DEF Fileable
      <3>3. stateFile' = f /\ onDisk' = {f} /\ f # Invalid
        BY <2>1, <3>1, <3>2 DEF IsState
      <3>4. acknowledged' \in Counts
        BY <1>4, <2>3
      <3> QED BY <1>0, <3>2, <3>3, <3>4 DEF IInv, StatePart, Fileable
    <2>5. PersistsPart'
      BY <1>0, <1>1, <1>5, <2>1, <2>3 DEF IInv, PersistsPart
    <2>6. SavesPart'
      <3>1. \A t \in Savers : save'[t] = "idle"
        BY <1>2, <2>1
      <3> QED BY <1>3, <3>1, ProcessAssumption DEF SavesPart
    <2> QED BY <1>0, <2>4, <2>5, <2>6, PartsKept DEF IInv
  <1>8. CASE FailSave(s)
    <2>1. UNCHANGED <<stateFile, onDisk, acknowledged>> /\ save'[s] = "idle"
      BY <1>0, <1>8 DEF FailSave
    <2>2. SavesPart'
      <3>1. \A t \in Savers : save'[t] = "idle"
        BY <1>2, <2>1
      <3> QED BY <1>3, <3>1, ProcessAssumption DEF SavesPart
    <2> QED BY <1>0, <2>1, <2>2, PartsKept DEF IInv
  <1> QED BY <1>6, <1>7, <1>8 DEF Save, WriteAtomically

\* The end begins with the whole plan.
LEMMA BeginShutdownKeeps ==
    ASSUME IInv, BeginShutdown
    PROVE  IInv'
  <1>0. /\ UNCHANGED <<thread, stopping, failed, counter, points, stateFile, onDisk, save, json,
                       acknowledged, control, registered, hostname, keyFile, keyOnDisk,
                       onionStep, config, persists, listeners, pidFile, signal, launches, deaf>>
        /\ main = "running" /\ main' = "stopping" /\ todo' = Shutdown
    BY DEF BeginShutdown, runnerVars, statisticsVars, stateVars, onionVars
  <1>1. PlanPart' /\ Runners \cup {"onion", "servers"} \subseteq ToSet(todo')
    BY <1>0, PlanBegins
  <1>2. PersistsPart'
    BY <1>0 DEF IInv, PersistsPart
  <1>3. SavesPart'
    BY <1>0 DEF IInv, SavesPart, Fileable
  <1>4. ThreadsPart'
    BY <1>0, <1>1 DEF IInv, ThreadsPart, RunnerTypeOK, Gone
  <1>5. ListenersPart' /\ RestPart'
    BY <1>0, <1>1 DEF IInv, ListenersPart, RestPart, Backend, Down
  <1> QED BY <1>0, <1>1, <1>2, <1>3, <1>4, <1>5, PartsKept DEF IInv

\* Something of the plan is done.
LEMMA DoneKeeps ==
    ASSUME IInv, main = "stopping", todo # <<>>, Done
    PROVE  /\ UNCHANGED <<main, config, persists, pidFile, signal, launches, deaf>>
           /\ PlanPart' /\ RestPart' /\ FlagsPart'
           /\ ToSet(todo) = {Head(todo)} \cup ToSet(todo')
           /\ Head(todo) = "servers" => "onion" \notin ToSet(todo)
           /\ Head(todo) = "sample" => "persistence" \notin ToSet(todo)
  <1>1. /\ todo' = Tail(todo)
        /\ UNCHANGED <<main, config, persists, pidFile, signal, launches, deaf>>
    BY DEF Done
  <1>2. todo \in Seq(Jobs) /\ Before(todo, "onion", "servers")
        /\ Before(todo, "persistence", "sample")
    BY DEF IInv, PlanPart
  <1>3. /\ todo' \in Seq(Jobs) /\ ToSet(todo) = {Head(todo)} \cup ToSet(todo')
        /\ Before(todo', "onion", "servers") /\ Before(todo', "persistence", "sample")
        /\ Head(todo) = "servers" => "onion" \notin ToSet(todo)
        /\ Head(todo) = "sample" => "persistence" \notin ToSet(todo)
    BY <1>1, <1>2, ElementsShrink, PlanShrinks
  <1>4. PICK plan \in {Shutdown, Abandon} : \E i \in 1 .. Len(plan) + 1 :
           todo = SubSeq(plan, i, Len(plan))
    BY DEF IInv, PlanPart
  <1>5. PICK i \in 1 .. Len(plan) + 1 : todo = SubSeq(plan, i, Len(plan))
    BY <1>4
  <1>6. plan \in Seq(Jobs)
    BY ShutdownPlan, AbandonPlan
  <1>7. i + 1 \in 1 .. Len(plan) + 1 /\ todo' = SubSeq(plan, i + 1, Len(plan))
    BY <1>1, <1>5, <1>6, EndOfPlan
  <1>8. \E p \in {Shutdown, Abandon} : \E k \in 1 .. Len(p) + 1 :
           todo' = SubSeq(p, k, Len(p))
    BY <1>7, Zenon
  <1>9. PlanPart'
    <2>1. PlanPart' <=>
             /\ todo' \in Seq(Jobs)
             /\ \E p \in {Shutdown, Abandon} : \E k \in 1 .. Len(p) + 1 :
                   todo' = SubSeq(p, k, Len(p))
             /\ main' # "stopping" => todo' = <<>>
             /\ Before(todo', "onion", "servers")
             /\ Before(todo', "persistence", "sample")
      BY Zenon DEF PlanPart
    <2> QED BY <1>1, <1>3, <1>8, <2>1, Zenon
  <1> QED BY <1>1, <1>3, <1>9, PartsKept DEF IInv

\* A runner is told to stop, and joined.
LEMMA StopRunnerKeeps ==
    ASSUME IInv, StopRunner
    PROVE  IInv'
  <1>0. /\ UNCHANGED <<counter, points, stateFile, onDisk, save, json, acknowledged, control,
                       registered, hostname, keyFile, keyOnDisk, onionStep, thread, failed,
                       listeners>>
        /\ main = "stopping" /\ todo # <<>> /\ Head(todo) \in Runners
    BY DEF StopRunner, Doing, RequestStop, runnerVars, statisticsVars, stateVars, onionVars,
           processVars
  <1>1. CASE RequestStop(Head(todo)) /\ UNCHANGED processVars
    <2>1. UNCHANGED <<main, todo, config, persists, pidFile, signal, launches, deaf>>
      BY <1>1 DEF processVars
    <2>2. stopping' \in [Runners -> BOOLEAN]
      BY <1>0, <1>1, FlagRaised DEF RequestStop, IInv, ThreadsPart, RunnerTypeOK
    <2>3. ThreadsPart'
      BY <1>0, <2>1, <2>2 DEF IInv, ThreadsPart, RunnerTypeOK, Gone
    <2> QED BY <1>0, <2>1, <2>3, PartsKept DEF IInv
  <1>2. CASE Joined(Head(todo)) /\ Done /\ UNCHANGED runnerVars
    <2>1. /\ UNCHANGED <<main, config, persists, pidFile, signal, launches, deaf, stopping>>
          /\ PlanPart' /\ RestPart' /\ FlagsPart'
          /\ ToSet(todo) = {Head(todo)} \cup ToSet(todo')
      BY <1>0, <1>2, DoneKeeps DEF runnerVars
    <2>2. Gone(Head(todo))
      BY <1>2 DEF Joined, Gone
    <2>3. ThreadsPart'
      BY <1>0, <2>1, <2>2 DEF IInv, ThreadsPart, RunnerTypeOK, Gone
    <2>4. SavesPart'
      BY <1>0, <2>1 DEF IInv, SavesPart, Fileable
    <2>5. Head(todo) \notin {"onion", "servers"}
      BY <1>0, ProcessAssumption
    <2>6. ListenersPart'
      BY <1>0, <2>1, <2>5 DEF IInv, ListenersPart, Backend, Down
    <2> QED BY <1>0, <2>1, <2>3, <2>4, <2>6, PartsKept DEF IInv
  <1> QED BY <1>1, <1>2 DEF StopRunner

\* What the end of something that is no runner leaves alone.
LEMMA EndKeeps ==
    ASSUME IInv, main = "stopping", todo # <<>>, Head(todo) \notin Runners, Done,
           UNCHANGED runnerVars
    PROVE  /\ ThreadsPart' /\ PlanPart' /\ RestPart' /\ FlagsPart'
           /\ ToSet(todo) = {Head(todo)} \cup ToSet(todo')
           /\ UNCHANGED <<main, config, persists, thread>>
           /\ "persistence" \notin ToSet(todo') <=> "persistence" \notin ToSet(todo)
  <1>1. /\ UNCHANGED <<main, config, persists, pidFile, signal, launches, deaf>>
        /\ PlanPart' /\ RestPart' /\ FlagsPart'
        /\ ToSet(todo) = {Head(todo)} \cup ToSet(todo')
    BY DoneKeeps
  <1>2. "persistence" \in Runners
    BY ProcessAssumption
  <1>3. UNCHANGED <<thread, stopping, failed>>
    BY DEF runnerVars
  <1>4. ThreadsPart'
    BY <1>1, <1>3 DEF IInv, ThreadsPart, RunnerTypeOK, Gone
  <1> QED BY <1>1, <1>2, <1>3, <1>4

\* The onion service is given up.
LEMMA EndOnionKeeps ==
    ASSUME IInv, EndOnion
    PROVE  IInv'
  <1>0. /\ UNCHANGED <<counter, points, stateFile, onDisk, save, json, acknowledged, listeners>>
        /\ main = "stopping" /\ todo # <<>> /\ Head(todo) = "onion" /\ Done
        /\ UNCHANGED runnerVars /\ StopOnion
    BY DEF EndOnion, Doing, statisticsVars, stateVars
  <1>1. Head(todo) \notin Runners
    BY <1>0, ProcessAssumption
  <1>2. /\ ThreadsPart' /\ PlanPart' /\ RestPart' /\ FlagsPart'
        /\ ToSet(todo) = {Head(todo)} \cup ToSet(todo')
        /\ UNCHANGED <<main, config, persists, thread>>
        /\ "persistence" \notin ToSet(todo') <=> "persistence" \notin ToSet(todo)
    BY <1>0, <1>1, EndKeeps
  <1>3. SavesPart'
    BY <1>0, <1>2 DEF IInv, SavesPart, Fileable
  <1>4. OnionPart'
    BY <1>0 DEF StopOnion, CloseConnection, IInv, OnionPart, OnionTypeOK
  <1>5. ListenersPart'
    BY <1>0, <1>2 DEF StopOnion, IInv, ListenersPart, Down
  <1> QED BY <1>0, <1>2, <1>3, <1>4, <1>5, PartsKept DEF IInv

\* The servers are stopped after the service, or one of them serves on.
LEMMA StopServersKeeps ==
    ASSUME IInv, StopServers
    PROVE  IInv'
  <1>0. /\ UNCHANGED <<counter, points, stateFile, onDisk, save, json, acknowledged, control,
                       registered, hostname, keyFile, keyOnDisk, onionStep, thread, stopping,
                       failed>>
        /\ main = "stopping" /\ todo # <<>> /\ Head(todo) = "servers"
        /\ UNCHANGED runnerVars
    BY DEF StopServers, Doing, runnerVars, statisticsVars, stateVars, onionVars
  <1>1. onionStep = "idle"
    <2>1. "onion" \notin ToSet(todo)
      BY <1>0, PlanShrinks DEF IInv, PlanPart
    <2> QED BY <1>0, <2>1 DEF IInv, ListenersPart
  <1>2. CASE listeners' = {} /\ Done
    <2>1. Head(todo) \notin Runners
      BY <1>0, ProcessAssumption
    <2>2. /\ ThreadsPart' /\ PlanPart' /\ RestPart' /\ FlagsPart'
          /\ ToSet(todo) = {Head(todo)} \cup ToSet(todo')
          /\ UNCHANGED <<main, config, persists, thread>>
          /\ "persistence" \notin ToSet(todo') <=> "persistence" \notin ToSet(todo)
      BY <1>0, <1>2, <2>1, EndKeeps
    <2>3. SavesPart'
      BY <1>0, <2>2 DEF IInv, SavesPart, Fileable
    <2>4. ListenersPart'
      BY <1>0, <1>1, <1>2, <2>2 DEF ListenersPart, Down
    <2> QED BY <1>0, <2>2, <2>3, <2>4, PartsKept DEF IInv
  <1>3. ASSUME NEW l \in listeners, deaf' = {l},
               listeners' = IF l = "tor" THEN listeners ELSE {"http"},
               UNCHANGED <<main, todo, config, persists, pidFile, signal, launches>>
        PROVE  IInv'
    <2>1. RestPart'
      BY <1>3 DEF IInv, RestPart, ListenersPart
    <2>2. "servers" \in ToSet(todo)
      BY <1>0, ElementsShrink DEF IInv, PlanPart
    <2>3. ListenersPart'
      BY <1>0, <1>1, <1>3, <2>2 DEF IInv, ListenersPart, Down
    <2> QED BY <1>0, <1>3, <2>1, <2>3, PartsKept DEF IInv
  <1> QED BY <1>2, <1>3 DEF StopServers

\* The last sample is saved when the persistence runner saves no more.
LEMMA LastSampleKeeps ==
    ASSUME IInv, LastSample
    PROVE  IInv'
  <1>0. /\ UNCHANGED <<counter, stateFile, onDisk, acknowledged, control, registered, hostname,
                       keyFile, keyOnDisk, onionStep, listeners>>
        /\ main = "stopping" /\ todo # <<>> /\ Head(todo) = "sample" /\ Done
        /\ UNCHANGED runnerVars
    BY DEF LastSample, Doing, BeginSave, stateVars, onionVars
  <1>1. Head(todo) \notin Runners
    BY <1>0, ProcessAssumption
  <1>2. /\ ThreadsPart' /\ PlanPart' /\ RestPart' /\ FlagsPart'
        /\ ToSet(todo) = {Head(todo)} \cup ToSet(todo')
        /\ UNCHANGED <<main, config, persists, thread>>
        /\ "persistence" \notin ToSet(todo') <=> "persistence" \notin ToSet(todo)
    BY <1>0, <1>1, EndKeeps
  <1>3. ListenersPart'
    BY <1>0, <1>2 DEF IInv, ListenersPart, Backend, Down
  <1>4. CASE persists
    <2>1. PICK now \in Times : points' = Sample(points, now)
      BY <1>4 DEF LastSample
    <2>2. /\ StatePart' /\ points' # <<>> /\ Last(points').count = counter /\ Series(points')
          /\ acknowledged <= Last(points').count
      BY <1>0, <1>4, <2>1, SampleKeeps
    <2>3. counter \in Int
      BY DEF IInv, StatePart, Counts
    <2>4. PersistsPart'
      BY <1>0, <1>2, <2>2, <2>3 DEF IInv, PersistsPart
    <2>5. BeginSave("main", points')
      BY <1>4 DEF LastSample
    <2>6. "persistence" \notin ToSet(todo) /\ "persistence" \notin ToSet(todo')
      BY <1>0, <1>2, PlanShrinks DEF IInv, PlanPart
    <2>7. save["persistence"] = "idle"
      BY <1>0, <2>6, ProcessAssumption DEF IInv, SavesPart, ThreadsPart, Gone
    <2>8. /\ "main" \in Savers /\ "persistence" \in Savers
          /\ save' = [save EXCEPT !["main"] = "flushed"]
          /\ json' = [json EXCEPT !["main"] = points']
      BY <2>5, ProcessAssumption DEF BeginSave
    <2>9. /\ save' \in [Savers -> SaveSteps] /\ DOMAIN json' = Savers
          /\ save'["main"] = "flushed" /\ save'["persistence"] = "idle"
          /\ json'["main"] = points'
      BY <2>7, <2>8 DEF IInv, SavesPart, SaveSteps
    <2>10. \A s \in Savers : json'[s] \in Seq(Points)
      BY <2>2, <2>8 DEF IInv, SavesPart, Series
    <2>11. \A s \in Savers : save'[s] # "idle" => s = "main"
      BY <2>9, ProcessAssumption
    <2>12. Fileable(points)'
      BY <1>0, <2>2 DEF Fileable
    <2>13. SavesPart'
      BY <1>0, <1>2, <1>4, <2>2, <2>3, <2>6, <2>9, <2>10, <2>11, <2>12
      DEF SavesPart, Fileable
    <2> QED BY <1>0, <1>2, <1>3, <2>2, <2>4, <2>13, PartsKept DEF IInv
  <1>5. CASE ~persists
    <2>1. UNCHANGED <<points, save, json>>
      BY <1>5 DEF LastSample, stateVars
    <2>2. SavesPart'
      BY <1>0, <1>2, <2>1 DEF IInv, SavesPart, Fileable
    <2> QED BY <1>0, <1>2, <1>3, <2>1, <2>2, PartsKept DEF IInv
  <1> QED BY <1>4, <1>5

\* The last save has returned.
LEMMA FinishSaveKeeps ==
    ASSUME IInv, FinishSave
    PROVE  IInv'
  <1>0. /\ UNCHANGED <<counter, points, stateFile, onDisk, save, json, acknowledged, control,
                       registered, hostname, keyFile, keyOnDisk, onionStep, listeners>>
        /\ main = "stopping" /\ todo # <<>> /\ Head(todo) = "save" /\ Done
        /\ UNCHANGED runnerVars
    BY DEF FinishSave, Doing, statisticsVars, stateVars, onionVars
  <1>1. Head(todo) \notin Runners
    BY <1>0, ProcessAssumption
  <1>2. /\ ThreadsPart' /\ PlanPart' /\ RestPart' /\ FlagsPart'
        /\ ToSet(todo) = {Head(todo)} \cup ToSet(todo')
        /\ UNCHANGED <<main, config, persists, thread>>
        /\ "persistence" \notin ToSet(todo') <=> "persistence" \notin ToSet(todo)
    BY <1>0, <1>1, EndKeeps
  <1>3. ListenersPart'
    BY <1>0, <1>2 DEF IInv, ListenersPart, Backend, Down
  <1>4. SavesPart'
    BY <1>0, <1>2 DEF IInv, SavesPart, Fileable
  <1> QED BY <1>0, <1>2, <1>3, <1>4, PartsKept DEF IInv

\* A process that ends, by itself or not, leaves the points behind.
LEMMA ForgetKeeps ==
    ASSUME IInv, ForgetStatistics, persists' = FALSE, signal' = FALSE, acknowledged' = acknowledged,
           \/ UNCHANGED <<stateFile, onDisk>>
           \/ stateFile' \in onDisk /\ onDisk' = {stateFile'}
    PROVE  StatePart' /\ PersistsPart' /\ SavesPart' /\ FlagsPart'
  <1>1. /\ counter' = 0 /\ points' = <<>> /\ \A s \in Savers : save'[s] = "idle"
        /\ save' \in [Savers -> SaveSteps] /\ DOMAIN json' = Savers
        /\ \A s \in Savers : json'[s] = <<>>
    BY DEF ForgetStatistics, SaveSteps
  <1>2. Series(<<>>) /\ 0 \in Counts
    BY StatisticsAssumption DEF Series, Spaced, Counts
  <1>3. /\ onDisk' \cup {stateFile'} \subseteq onDisk \cup {stateFile}
        /\ Invalid \in onDisk' \cup {stateFile'} => onDisk' = {Invalid} /\ stateFile' = Invalid
    BY DEF IInv, StatePart
  <1>4. StatePart'
    BY <1>1, <1>2, <1>3 DEF IInv, StatePart, Fileable, IsState
  <1>5. PersistsPart'
    BY DEF PersistsPart
  <1>6. SavesPart'
    <2>0. <<>> \in Seq(Points)
      OBVIOUS
    <2>1. \A s \in Savers : json'[s] \in Seq(Points)
      BY <1>1, <2>0, Zenon
    <2> QED BY <1>1, <2>1, ProcessAssumption DEF SavesPart
  <1>7. FlagsPart'
    BY Zenon DEF FlagsPart
  <1> QED BY <1>4, <1>5, <1>6, <1>7

\* run returns with nothing left to do.
LEMMA ExitKeeps ==
    ASSUME IInv, Exit
    PROVE  IInv'
  <1>0. /\ UNCHANGED <<thread, stopping, failed, stateFile, onDisk, acknowledged, control,
                       registered, hostname, keyFile, keyOnDisk, onionStep, todo, config,
                       listeners, launches, deaf>>
        /\ main = "stopping" /\ todo = <<>> /\ main' = "exited" /\ pidFile' = "none"
        /\ ForgetStatistics /\ persists' = FALSE /\ signal' = FALSE
    BY DEF Exit, runnerVars, onionVars
  <1>1. ToSet(todo) = {}
    BY <1>0, ElementsOfShort
  <1>2. StatePart' /\ PersistsPart' /\ SavesPart' /\ FlagsPart'
    BY <1>0, ForgetKeeps
  <1>3. ThreadsPart'
    BY <1>0, <1>1, ProcessAssumption DEF IInv, ThreadsPart, RunnerTypeOK, Gone
  <1>4. PlanPart'
    BY <1>0, Zenon DEF IInv, PlanPart
  <1>5. ListenersPart' /\ RestPart'
    BY <1>0, <1>1 DEF IInv, ListenersPart, RestPart, Backend, Down
  <1> QED BY <1>0, <1>2, <1>3, <1>4, <1>5, PartsKept DEF IInv

\* A signal, an event and the surroundings.
LEMMA SurroundingsKeep ==
    ASSUME IInv, Signal \/ Count \/ Environment
    PROVE  IInv'
  <1>1. CASE Signal
    <2>1. UNCHANGED <<thread, stopping, failed, counter, points, stateFile, onDisk, save, json,
                      acknowledged, control, registered, hostname, keyFile, keyOnDisk, onionStep,
                      main, todo, config, persists, listeners, pidFile, launches, deaf>>
      BY <1>1 DEF Signal, runnerVars, statisticsVars, stateVars, onionVars
    <2>2. FlagsPart'
      BY <1>1, <2>1, Zenon DEF Signal, IInv, FlagsPart
    <2> QED BY <2>1, <2>2, PartsKept DEF IInv
  <1>2. CASE Count
    <2>1. /\ UNCHANGED <<thread, stopping, failed, points, stateFile, onDisk, save, json,
                         acknowledged, control, registered, hostname, keyFile, keyOnDisk,
                         onionStep, main, todo, config, persists, listeners, pidFile, signal,
                         launches, deaf>>
          /\ counter < MaxEvents /\ counter' = counter + 1
      BY <1>2 DEF Count, Event, runnerVars, stateVars, onionVars, processVars
    <2>2. counter \in Nat /\ counter' \in Counts /\ acknowledged \in Nat
      BY <2>1, StatisticsAssumption DEF IInv, StatePart, Counts
    <2>3. StatePart'
      BY <2>1, <2>2 DEF IInv, StatePart, Fileable
    <2>4. PersistsPart'
      <3>1. points # <<>> => Last(points).count \in Int
        BY SeriesAreLoadable DEF IInv, StatePart, Counts
      <3> QED BY <2>1, <2>2, <3>1 DEF IInv, PersistsPart
    <2> QED BY <2>1, <2>3, <2>4, PartsKept DEF IInv
  <1>3. CASE Environment
    <2>1. UNCHANGED <<thread, stopping, failed, counter, points, stateFile, onDisk, save, json,
                      acknowledged, main, todo, config, persists, listeners, pidFile, signal,
                      launches, deaf>>
      BY <1>3 DEF Environment, runnerVars, statisticsVars, stateVars, processVars
    <2>2. OnionPart' /\ UNCHANGED onionStep
      BY <1>3 DEF Environment, TorEnds, KeyReachesDisk, IInv, OnionPart, OnionTypeOK
    <2> QED BY <2>1, <2>2, PartsKept DEF IInv
  <1> QED BY <1>1, <1>2, <1>3

\* The process is killed, alone or with the machine.
LEMMA CrashKeeps ==
    ASSUME IInv, NEW power \in BOOLEAN, Crash(power)
    PROVE  IInv'
  <1>0. /\ main' = "off" /\ todo' = <<>> /\ ForgetRunners /\ ForgetStatistics /\ CloseConnection
        /\ hostname' = {} /\ onionStep' = "idle" /\ persists' = FALSE /\ listeners' = {}
        /\ pidFile' = "stale" /\ signal' = FALSE /\ deaf' = {}
        /\ UNCHANGED <<acknowledged, config, launches>>
    BY DEF Crash
  <1>1. /\ \/ UNCHANGED <<stateFile, onDisk>>
           \/ stateFile' \in onDisk /\ onDisk' = {stateFile'}
        /\ \/ UNCHANGED <<keyFile, keyOnDisk>>
           \/ keyFile' \in keyOnDisk /\ keyOnDisk' = {keyFile'}
    BY DEF Crash
  <1>2. StatePart' /\ PersistsPart' /\ SavesPart' /\ FlagsPart'
    BY <1>0, <1>1, ForgetKeeps
  <1>3. ThreadsPart'
    BY <1>0, ProcessAssumption
    DEF ThreadsPart, ForgetRunners, RunnerTypeOK, NoThreads, NoFlags, Gone
  <1>4. PlanPart'
    <2>1. Before(<<>>, "onion", "servers") /\ Before(<<>>, "persistence", "sample")
      BY DEF Before
    <2>2. Len(Shutdown) \in Nat
      BY ShutdownPlan
    <2>3. SubSeq(Shutdown, Len(Shutdown) + 1, Len(Shutdown)) = <<>>
      BY <2>2, SubSeqEmpty
    <2>4. Len(Shutdown) + 1 \in 1 .. Len(Shutdown) + 1
      BY <2>2
    <2> QED BY <1>0, <2>1, <2>3, <2>4 DEF PlanPart
  <1>5. OnionPart'
    BY <1>0, <1>1 DEF CloseConnection, IInv, OnionPart, OnionTypeOK
  <1>6. ListenersPart' /\ RestPart'
    BY <1>0 DEF IInv, ListenersPart, RestPart, Down
  <1> QED BY <1>2, <1>3, <1>4, <1>5, <1>6 DEF IInv

\* Every step keeps the invariant.
LEMMA StepKeeps == IInv /\ [Next]_vars => IInv'
  <1> SUFFICES ASSUME IInv, [Next]_vars PROVE IInv'
    OBVIOUS
  <1>1. CASE Launch
    BY <1>1, LaunchKeeps
  <1>2. CASE Main
    BY <1>2, OpenBackendKeeps, StartTorKeeps, TorEndsKeeps, LoadKeeps, FirstSampleKeeps,
       StartRunnersKeeps, BeginShutdownKeeps, StopRunnerKeeps, EndOnionKeeps, StopServersKeeps,
       LastSampleKeeps, FinishSaveKeeps, ExitKeeps DEF Main
  <1>3. ASSUME NEW r \in Runners, Turn(r) \/ RunnerThrows(r) PROVE IInv'
    BY <1>3, RunnerWakesKeeps, RunnerRepeatsKeeps, RunnerThrowsKeeps DEF Turn
  <1>4. ASSUME NEW s \in Savers, Save(s) PROVE IInv'
    BY <1>4, SaveKeeps
  <1>5. CASE Signal \/ Count \/ Environment
    BY <1>5, SurroundingsKeep
  <1>6. ASSUME NEW power \in BOOLEAN, Crash(power) PROVE IInv'
    BY <1>6, CrashKeeps
  <1>7. CASE UNCHANGED vars
    BY <1>7, PartsKept
    DEF IInv, vars, runnerVars, statisticsVars, stateVars, onionVars, processVars
  <1> QED BY <1>1, <1>2, <1>3, <1>4, <1>5, <1>6, <1>7 DEF Next

-----------------------------------------------------------------------------
(* Theorems *)

\* The inductive invariant.
THEOREM Invariant == Spec => []IInv
  BY InitKeeps, StepKeeps, PTL DEF Spec

\* The variables have their types.  For the points this says that takeSample
\* never keeps more of them than loadState accepts (MAX_STATE_POINTS), however
\* the clock is set; for the shutdown that it is always the end of one of the
\* two plans of run.
THEOREM TypeCorrect == Spec => []TypeOK
  <1>1. IInv => TypeOK
    <2> SUFFICES ASSUME IInv PROVE TypeOK
      OBVIOUS
    <2>1. RunnerTypeOK /\ OnionTypeOK
      BY DEF IInv, ThreadsPart, OnionPart
    <2>2. points \in Seq(Points) /\ Len(points) <= MaxPoints
      BY SeriesAreShort DEF IInv, StatePart, Series
    <2>3. \A f \in onDisk \cup {stateFile} : IsState(f) => f \in Seq(Points)
      BY DEF IInv, StatePart, Fileable, Series
    <2>4. StatisticsTypeOK
      BY <2>2, <2>3 DEF IInv, StatePart, SavesPart, StatisticsTypeOK
    <2>5. \E plan \in {Shutdown, Abandon} : \E i \in 1 .. Len(plan) + 1 :
             todo = SubSeq(plan, i, Len(plan))
      BY DEF IInv, PlanPart
    <2>6. persists \in BOOLEAN /\ signal \in BOOLEAN
      BY Zenon DEF IInv, FlagsPart
    <2>7. /\ main \in Down \cup {"tor", "load", "sample", "start", "running", "stopping"}
          /\ config \in Configs /\ listeners \subseteq {"http", "tor"}
          /\ pidFile \in {"none", "own", "stale"} /\ launches \in 0 .. MaxLaunches
          /\ deaf \subseteq {"http", "tor"}
      BY DEF IInv, RestPart, ListenersPart
    <2> QED BY <2>1, <2>4, <2>5, <2>6, <2>7, Zenon DEF TypeOK
  <1> QED BY <1>1, Invariant, PTL

\* A state that saveState has reported as saved outlives every crash: whatever
\* a power failure leaves in the file can be loaded and is not behind it
\* (Statistics::takeSample, loadState, writeAtomically, the order of run).
THEOREM CheckpointsSurvive == Spec => []SavedSurvives
  <1>1. IInv => SavedSurvives
    <2> SUFFICES ASSUME IInv, NEW f \in onDisk \cup {stateFile}
                 PROVE  Latest(f) >= acknowledged /\ (IsState(f) => Loadable(f))
      BY DEF SavedSurvives
    <2>1. acknowledged \in Int
      BY DEF IInv, StatePart, Counts
    <2>2. CASE IsState(f)
      <3>1. Fileable(f)
        BY <2>2 DEF IInv, StatePart
      <3>2. Loadable(f) /\ Latest(f) = Last(f).count /\ Last(f).count \in Int
        BY <3>1, SeriesAreLoadable DEF Fileable, Counts
      <3> QED BY <2>1, <3>1, <3>2 DEF Fileable
    <2>3. CASE ~IsState(f)
      <3>1. acknowledged = 0
        BY <2>3 DEF IInv, StatePart
      <3> QED BY <2>3, <3>1 DEF Latest
    <2> QED BY <2>2, <2>3
  <1> QED BY <1>1, Invariant, PTL

\* Tor never leads to a port that is closed, and the address that the server
\* gives out is the one of the key on file (the order of run,
\* OnionService::add and savePrivateKey).
THEOREM OnionLeadsToTheServer == Spec => []OnionIsBacked
  <1>1. IInv => OnionIsBacked
    BY DEF IInv, OnionPart, ListenersPart, Backend, OnionIsBacked
  <1> QED BY <1>1, Invariant, PTL

\* A server that returns from run leaves no thread, no port, no onion service
\* and no PID file of its own (run, PidFile).
THEOREM NothingIsLeft == Spec => []CleanExit
  <1>1. IInv => CleanExit
    BY DEF IInv, OnionPart, ListenersPart, RestPart, ThreadsPart, Gone, Down, CleanExit
  <1> QED BY <1>1, Invariant, PTL

\* A state that cannot be read is never written over, and a key is never
\* replaced; only a power failure takes back a key that had not reached the
\* disk (loadState and run, OnionService::add).
THEOREM FilesStay == Spec => FilesArePreserved
  <1> DEFINE Kept ==
        /\ stateFile = Invalid => stateFile' = Invalid
        /\ keyFile \notin {NoKey, keyFile'} => main' = "off" /\ keyFile' \in keyOnDisk
  <1>1. IInv /\ [Next]_vars => [Kept]_vars
    <2> SUFFICES ASSUME IInv, Next PROVE Kept
      BY Zenon
    <2>1. stateFile = Invalid => stateFile' = Invalid
      <3>1. CASE \E s \in Savers : Save(s)
        <4>1. PICK s \in Savers : Save(s)
          BY <3>1
        <4>2. save[s] # "idle"
          BY <4>1 DEF Save, WriteAtomically, RenameTemporary, FlushDirectory, FailSave, Saving
        <4>3. stateFile # Invalid
          BY <4>2 DEF IInv, SavesPart, PersistsPart
        <4> QED BY <4>3
      <3>2. CASE \E power \in BOOLEAN : Crash(power)
        BY <3>2 DEF Crash, IInv, StatePart
      <3>3. CASE Launch \/ Signal \/ Count \/ Environment
        BY <3>3 DEF Launch, Signal, Count, Event, Environment, stateVars
      <3>4. CASE \E r \in Runners : Turn(r) \/ RunnerThrows(r)
        BY <3>4 DEF Turn, RunnerWakes, BeginSave, RunnerRepeats, RunnerThrows, stateVars
      <3>5. CASE Main
        BY <3>5 DEF Main, OpenBackend, StartTor, TorStarted, WithoutTor, Load, FirstSample,
                    StartRunners, BeginShutdown, StopRunner, EndOnion, StopServers, LastSample,
                    BeginSave, FinishSave, Exit, stateVars
      <3> QED BY <3>1, <3>2, <3>3, <3>4, <3>5 DEF Next
    <2>2. keyFile \notin {NoKey, keyFile'} => main' = "off" /\ keyFile' \in keyOnDisk
      <3>1. CASE StartTor
        BY <3>1 DEF StartTor, StartOnion, ConnectControl, Authenticate, Add, Registered,
                    SavePrivateKey, FailStart, IInv, OnionPart
      <3>2. CASE \E power \in BOOLEAN : Crash(power)
        BY <3>2 DEF Crash
      <3>3. CASE Launch \/ Signal \/ Count \/ Environment
        BY <3>3 DEF Launch, Signal, Count, Environment, TorEnds, KeyReachesDisk, onionVars
      <3>4. CASE (\E r \in Runners : Turn(r) \/ RunnerThrows(r)) \/ (\E s \in Savers : Save(s))
        BY <3>4 DEF Turn, RunnerWakes, RunnerRepeats, RunnerThrows, Save, onionVars
      <3>5. CASE Main /\ ~StartTor
        BY <3>5 DEF Main, OpenBackend, BeginStart, TorStarted, WithoutTor, StopOnion, Load,
                    FirstSample, StartRunners, BeginShutdown, StopRunner, EndOnion, StopServers,
                    LastSample, FinishSave, Exit, onionVars
      <3> QED BY <3>1, <3>2, <3>3, <3>4, <3>5 DEF Next
    <2> QED BY <2>1, <2>2
  <1>2. [][Kept]_vars <=> FilesArePreserved
    BY DEF FilesArePreserved
  <1> QED BY <1>1, <1>2, Invariant, PTL DEF Spec
=============================================================================
