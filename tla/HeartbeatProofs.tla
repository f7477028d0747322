--------------------------- MODULE HeartbeatProofs ---------------------------
(***************************************************************************)
(* Proofs about Heartbeat, for every number of transports, probe interval  *)
(* and deadline: it never closes a transport that works.                   *)
(*                                                                         *)
(* The argument is about a transport that is bound and works.  Its ping or *)
(* its pong is under way for no longer than an iteration of the runner, so *)
(* its silence is never older than the last probe, and the runner does not *)
(* let the last probe get older than the probe interval.  The rest of the  *)
(* invariant keeps the pings and the iterations of earlier transports off  *)
(* the present one.                                                        *)
(***************************************************************************)
EXTENDS Heartbeat, TLAPS

\* The peer is bound to its last transport or to none, and nothing concerns a
\* transport that is still to come.
BindingIsLast ==
    /\ socket \in {NoSocket, generation}
    /\ present \/ socket = NoSocket
    /\ seen <= generation
    /\ \A g \in pings \cup pongs : g <= generation

\* The flags of the heartbeat stand for a ping or a pong that is under way.
FlagsAreBacked ==
    Live(socket) =>
        /\ pingQueued => socket \in pings
        /\ pingOutstanding => socket \in pongs

\* A transport that works is never silent for longer than the probe interval.
SilenceIsProbed ==
    Live(socket) =>
        /\ socket \in pings \cup pongs => sinceProbe = 0
        /\ socket \notin pings \cup pongs => idle <= sinceProbe
        /\ idle <= ProbeInterval
        /\ runner \in {"expired", "done"} => sinceProbe < ProbeInterval

\* What the runner has found expired does not work, or is no longer bound.
ExpiredIsSilent == runner = "expired" /\ seen = generation => ~Live(socket)

\* The types of the Boolean variables, a part of TypeOK.
FlagTypes ==
    /\ present \in BOOLEAN
    /\ pingQueued \in BOOLEAN
    /\ pingOutstanding \in BOOLEAN

IInv ==
    /\ TypeOK
    /\ BindingIsLast
    /\ FlagsAreBacked
    /\ SilenceIsProbed
    /\ ExpiredIsSilent

-----------------------------------------------------------------------------
(* The invariant *)

\* The initial state satisfies the invariant.
LEMMA InitInvariant == Init => IInv
  <1> SUFFICES ASSUME Init PROVE IInv
    OBVIOUS
  <1>1. FlagTypes
    BY Zenon DEF Init, FlagTypes
  <1>2. TypeOK
    BY <1>1, WatchAssumption, HeartbeatAssumption
    DEF Init, WatchInit, TypeOK, FlagTypes, WatchTypeOK, Transports
  <1>3. BindingIsLast /\ FlagsAreBacked /\ SilenceIsProbed /\ ExpiredIsSilent
    BY HeartbeatAssumption
    DEF Init, WatchInit, BindingIsLast, FlagsAreBacked, SilenceIsProbed, ExpiredIsSilent
  <1> QED BY <1>2, <1>3 DEF IInv

\* Older counts up to its cap.
LEMMA OlderType ==
    ASSUME NEW cap \in Nat, NEW age \in 0 .. cap
    PROVE  /\ Older(age, cap) \in 0 .. cap
           /\ age < cap => Older(age, cap) = age + 1
  BY DEF Older

\* What happens to the transports keeps the invariant: a new one starts with a
\* heartbeat of its own, the others only lose their transport.
LEMMA TransportInvariant ==
    ASSUME IInv, ReplaceSocket \/ Transport \/ RemovePeer
    PROVE  IInv'
  <1> USE WatchAssumption, HeartbeatAssumption
      DEF IInv, TypeOK, WatchTypeOK, Transports, NoSocket, timerVars, pingVars
  <1>1. CASE ReplaceSocket
    <2> USE <1>1 DEF ReplaceSocket, Bind, Activate
    <2>1. TypeOK'
      <3>1. FlagTypes'
        BY Zenon DEF FlagTypes
      <3> QED BY <3>1 DEF FlagTypes
    <2>2. BindingIsLast'
      BY DEF BindingIsLast
    <2>3. socket' \notin pings' \cup pongs' /\ seen' # generation'
      BY DEF BindingIsLast
    <2>4. FlagsAreBacked' /\ SilenceIsProbed' /\ ExpiredIsSilent'
      BY <2>3 DEF FlagsAreBacked, SilenceIsProbed, ExpiredIsSilent
    <2> QED BY <2>1, <2>2, <2>4
  <1>2. CASE Transport
    <2> USE <1>2 DEF Transport, Unbind, Close, FallSilent
    <2>1. TypeOK'
      BY DEF Live
    <2>2. BindingIsLast'
      BY DEF BindingIsLast
    <2>3. Live(socket)' => Live(socket) /\ socket' = socket
      BY DEF Live, Dead
    <2>4. FlagsAreBacked' /\ SilenceIsProbed' /\ ExpiredIsSilent'
      BY <2>3 DEF FlagsAreBacked, SilenceIsProbed, ExpiredIsSilent
    <2> QED BY <2>1, <2>2, <2>4
  <1>3. CASE RemovePeer
    BY <1>3 DEF RemovePeer, watchVars, BindingIsLast, FlagsAreBacked, SilenceIsProbed,
                ExpiredIsSilent, Live, Dead
  <1> QED BY <1>1, <1>2, <1>3

\* The iteration of the ping runner keeps the invariant: it sends a ping before
\* the last probe is too old, and finds only silent transports expired.
LEMMA RunnerInvariant ==
    ASSUME IInv, Runner
    PROVE  IInv'
  <1> USE WatchAssumption, HeartbeatAssumption
      DEF IInv, TypeOK, WatchTypeOK, Transports, NoSocket, watchVars, timerVars, pingVars
  <1>1. CASE ReadGeneration
    BY <1>1 DEF ReadGeneration, BindingIsLast, FlagsAreBacked, SilenceIsProbed,
                ExpiredIsSilent, Live, Dead
  <1>2. CASE SendPing
    <2> USE <1>2 DEF SendPing
    <2>1. TypeOK' /\ BindingIsLast'
      <3>1. FlagTypes'
        BY Zenon DEF FlagTypes
      <3>2. /\ pings' \subseteq pings \cup {generation}
            /\ idle' = idle
            /\ sinceProbe' \in {0, sinceProbe}
            /\ runner' \in {"expired", "done"}
        BY Zenon
      <3>3. TypeOK'
        BY <3>1, <3>2 DEF FlagTypes
      <3>4. BindingIsLast'
        BY <3>2 DEF BindingIsLast
      <3> QED BY <3>3, <3>4
    <2>2. Live(socket)' = Live(socket)
      BY DEF Live, Dead
    <2>3. CASE ~Live(socket)
      BY <2>1, <2>2, <2>3 DEF FlagsAreBacked, SilenceIsProbed, ExpiredIsSilent
    <2>4. CASE Live(socket)
      <3>1. idle < Deadline
        BY <2>4 DEF SilenceIsProbed
      <3>2. CASE HeartbeatTick = "NONE"
        BY <2>1, <2>2, <2>4, <3>2
        DEF HeartbeatTick, FlagsAreBacked, SilenceIsProbed, ExpiredIsSilent
      <3>3. CASE HeartbeatTick = "QUEUE_PING"
        <4>1. socket' \in pings'
          BY <2>4, <3>3 DEF HeartbeatTick, BindingIsLast, Live
        <4> QED BY <2>1, <2>2, <2>4, <3>3, <4>1
                DEF HeartbeatTick, FlagsAreBacked, SilenceIsProbed, ExpiredIsSilent
      <3> QED BY <3>1, <3>2, <3>3 DEF HeartbeatTick
    <2> QED BY <2>3, <2>4
  <1>3. CASE DropExpired
    <2> USE <1>3 DEF DropExpired, InvalidateSocketIfCurrent
    <2>1. TypeOK' /\ BindingIsLast'
      BY DEF BindingIsLast
    <2>2. Live(socket)' => Live(socket)
      BY DEF Live, Dead
    <2> QED BY <2>1, <2>2 DEF FlagsAreBacked, SilenceIsProbed, ExpiredIsSilent
  <1> QED BY <1>1, <1>2, <1>3 DEF Runner

\* Pings and pongs keep the invariant, those of earlier transports included.
LEMMA PingInvariant ==
    ASSUME IInv, NEW g \in Transports, PingWritten(g) \/ PingFailed(g) \/ OnPong(g)
    PROVE  IInv'
  <1> USE WatchAssumption, HeartbeatAssumption
      DEF IInv, TypeOK, WatchTypeOK, Transports, NoSocket, watchVars, timerVars, pingVars,
          CompletesPing
  <1>1. CASE PingWritten(g)
    <2> USE <1>1 DEF PingWritten
    <2>1. TypeOK' /\ BindingIsLast'
      BY DEF BindingIsLast
    <2>2. Live(socket)' = Live(socket)
      BY DEF Live, Dead
    <2>3. FlagsAreBacked'
      <3> SUFFICES ASSUME Live(socket)
                   PROVE  /\ pingQueued' => socket' \in pings'
                          /\ pingOutstanding' => socket' \in pongs'
        BY <2>2 DEF FlagsAreBacked
      <3>1. socket = generation
        BY DEF BindingIsLast, Live
      <3>2. CASE g = socket
        BY <3>1, <3>2 DEF FlagsAreBacked
      <3>3. CASE g # socket
        BY <3>1, <3>3 DEF FlagsAreBacked
      <3> QED BY <3>2, <3>3
    <2>4. ExpiredIsSilent'
      BY <2>2 DEF ExpiredIsSilent
    <2>5. SilenceIsProbed'
      BY <2>2 DEF SilenceIsProbed, Live
    <2> QED BY <2>1, <2>3, <2>4, <2>5
  <1>2. CASE PingFailed(g)
    <2> USE <1>2 DEF PingFailed, InvalidateSocketIfCurrent
    <2>1. TypeOK' /\ BindingIsLast'
      BY DEF BindingIsLast
    <2>2. Live(socket)' => Live(socket) /\ g # socket
      BY DEF Live, Dead
    <2> QED BY <2>1, <2>2 DEF FlagsAreBacked, SilenceIsProbed, ExpiredIsSilent
  <1>3. CASE OnPong(g)
    <2> USE <1>3 DEF OnPong, Inbound
    <2>1. TypeOK' /\ BindingIsLast'
      <3>1. FlagTypes'
        BY Zenon DEF FlagTypes
      <3>2. TypeOK'
        BY <3>1 DEF FlagTypes
      <3>3. BindingIsLast'
        BY DEF BindingIsLast
      <3> QED BY <3>2, <3>3
    <2>2. Live(socket)' = Live(socket)
      BY DEF Live, Dead
    <2> QED BY <2>1, <2>2 DEF FlagsAreBacked, SilenceIsProbed, ExpiredIsSilent
  <1> QED BY <1>1, <1>2, <1>3

\* Time keeps the invariant: by the end of the interval a transport that works
\* has answered its ping, and its last probe is younger than the interval.
LEMMA TickInvariant ==
    ASSUME IInv, Tick
    PROVE  IInv'
  <1> USE WatchAssumption, HeartbeatAssumption
      DEF IInv, Tick, watchVars, pingVars
  <1>1. /\ idle' \in 0 .. Deadline
        /\ sinceProbe' \in 0 .. ProbeInterval
        /\ idle < Deadline => idle' = idle + 1
        /\ sinceProbe < ProbeInterval => sinceProbe' = sinceProbe + 1
    BY OlderType DEF TypeOK
  <1>2. TypeOK'
    BY <1>1 DEF TypeOK, WatchTypeOK, Transports
  <1>3. BindingIsLast'
    BY DEF BindingIsLast, TypeOK
  <1>4. Live(socket)' = Live(socket)
    BY DEF Live, Dead
  <1>5. FlagsAreBacked' /\ ExpiredIsSilent'
    BY <1>4 DEF FlagsAreBacked, ExpiredIsSilent
  <1>6. ASSUME Live(socket)
        PROVE  idle' <= sinceProbe' /\ socket \notin pings \cup pongs
    BY <1>1, <1>6 DEF SilenceIsProbed, TypeOK
  <1>7. SilenceIsProbed'
    BY <1>1, <1>4, <1>6 DEF SilenceIsProbed, TypeOK
  <1> QED BY <1>2, <1>3, <1>5, <1>7

\* Every step keeps the invariant.
LEMMA NextInvariant == IInv /\ [Next]_vars => IInv'
  <1> SUFFICES ASSUME IInv, [Next]_vars PROVE IInv'
    OBVIOUS
  <1>1. CASE ReplaceSocket \/ Transport \/ RemovePeer
    BY <1>1, TransportInvariant
  <1>2. CASE Runner
    BY <1>2, RunnerInvariant
  <1>3. CASE Pings
    BY <1>3, PingInvariant DEF Pings
  <1>4. CASE Tick
    BY <1>4, TickInvariant
  <1>5. CASE UNCHANGED vars
    BY <1>5 DEF vars, watchVars, timerVars, pingVars, IInv, TypeOK, WatchTypeOK,
                BindingIsLast, FlagsAreBacked, SilenceIsProbed, ExpiredIsSilent, Live, Dead
  <1> QED BY <1>1, <1>2, <1>3, <1>4, <1>5 DEF Next

\* The state of the heartbeat, of its coroutines and of the runner keeps its
\* types (Heartbeat, Room::pingAllPeers).
THEOREM TypeCorrect == Spec => []TypeOK
  <1>1. IInv => TypeOK
    BY DEF IInv
  <1> QED BY <1>1, InitInvariant, NextInvariant, PTL DEF Spec

-----------------------------------------------------------------------------
(* The promise *)

\* No transport that works is seen silent for as long as the deadline
\* (Heartbeat::tick).
THEOREM WorkingIsNotExpired ==
    Spec => [](Live(socket) => idle < Deadline)
  <1>1. IInv => (Live(socket) => idle < Deadline)
    BY HeartbeatAssumption DEF IInv, SilenceIsProbed, TypeOK
  <1> QED BY <1>1, InitInvariant, NextInvariant, PTL DEF Spec

\* Every step of the heartbeat is a step that TransportWatch allows.
LEMMA StepsWatch == IInv /\ [Next]_vars => [WatchNext]_watchVars
  <1> SUFFICES ASSUME IInv, [Next]_vars PROVE [WatchNext]_watchVars
    OBVIOUS
  <1> USE DEF IInv
  <1>1. CASE ReplaceSocket
    BY <1>1 DEF ReplaceSocket, WatchNext
  <1>2. CASE Transport
    BY <1>2 DEF Transport, WatchNext
  <1>3. CASE DropExpired
    <2>1. CASE dropped' = dropped
      BY <1>3, <2>1 DEF DropExpired, watchVars
    <2>2. CASE dropped' # dropped
      <3>1. socket = generation /\ seen = generation /\ ~Dead(socket)
        BY <1>3, <2>2 DEF DropExpired, InvalidateSocketIfCurrent, BindingIsLast
      <3>2. socket \in silent
        BY <1>3, <3>1 DEF DropExpired, ExpiredIsSilent, Live, TypeOK, WatchTypeOK
      <3>3. DropSilent
        BY <1>3, <2>2, <3>1, <3>2 DEF DropExpired, InvalidateSocketIfCurrent, DropSilent
      <3> QED BY <3>3 DEF WatchNext
    <2> QED BY <2>1, <2>2
  <1>4. ASSUME NEW g \in Transports, PingFailed(g)
        PROVE  [WatchNext]_watchVars
    <2>1. CASE dropped' = dropped
      BY <1>4, <2>1 DEF PingFailed, watchVars
    <2>2. CASE dropped' # dropped
      <3>1. socket = g /\ ~Dead(socket)
        BY <1>4, <2>2 DEF PingFailed, CompletesPing, InvalidateSocketIfCurrent, BindingIsLast
      <3>2. socket \in silent
        BY <1>4, <3>1 DEF PingFailed, Live
      <3>3. DropSilent
        BY <1>4, <2>2, <3>1, <3>2 DEF PingFailed, InvalidateSocketIfCurrent, DropSilent
      <3> QED BY <3>3 DEF WatchNext
    <2> QED BY <2>1, <2>2
  <1>5. CASE RemovePeer \/ ReadGeneration \/ SendPing \/ Tick \/ UNCHANGED vars
    BY <1>5 DEF RemovePeer, ReadGeneration, SendPing, Tick, vars
  <1>6. ASSUME NEW g \in Transports, PingWritten(g) \/ OnPong(g)
        PROVE  [WatchNext]_watchVars
    BY <1>6 DEF PingWritten, OnPong
  <1> QED BY <1>1, <1>2, <1>3, <1>4, <1>5, <1>6 DEF Next, Runner, Pings

\* The heartbeat implements the safety part of TransportWatch: whatever pings,
\* pongs and iterations of the runner are under way from earlier transports,
\* the only transport it drops is the bound one, and only once it has fallen
\* silent (Room::pingAllPeers, Peer::invalidateSocketIfCurrent).
THEOREM ImplementsWatch == Spec => WatchInit /\ [][WatchNext]_watchVars
  <1>1. Init => WatchInit
    BY DEF Init
  <1> QED BY <1>1, InitInvariant, NextInvariant, StepsWatch, PTL DEF Spec
=============================================================================
