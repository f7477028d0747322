------------------------------ MODULE Heartbeat ------------------------------
(***************************************************************************)
(* The heartbeat that watches the transport of a peer: the state of        *)
(* Heartbeat, the iterations of the ping runner over the peer              *)
(* (Room::pingAllPeers), the coroutines that write the pings and the pongs *)
(* that come back.                                                         *)
(*                                                                         *)
(* Ages stand for the time points of the code, counted in iterations of    *)
(* the ping runner (30 seconds) and capped where the code stops telling    *)
(* them apart.                                                             *)
(*                                                                         *)
(* Where a definition is preceded by one that differs from it in a detail, *)
(* that one is a plausible mistake in the same lines.                      *)
(***************************************************************************)
EXTENDS TransportWatch

CONSTANTS
    ProbeInterval,  \* Heartbeat::probeInterval
    Deadline        \* Heartbeat::deadline

ASSUME HeartbeatAssumption ==
    /\ ProbeInterval \in Nat \ {0}
    /\ Deadline \in Nat /\ Deadline > ProbeInterval

VARIABLES
    present,     \* the peer is in Room::m_peerById
    idle,        \* the age of Heartbeat::m_lastInbound
    sinceProbe,  \* the age of Heartbeat::m_lastProbe
    pingQueued, pingOutstanding,
    pings,       \* transports with a SendPingCoroutine under way
    pongs,       \* transports with a pong under way
    runner,      \* where the iteration of the ping runner is
    seen         \* the generation that the iteration has read

timerVars == <<idle, sinceProbe, pingQueued, pingOutstanding>>
pingVars == <<pings, pongs>>
vars == <<watchVars, present, timerVars, pingVars, runner, seen>>

TypeOK ==
    /\ WatchTypeOK
    /\ present \in BOOLEAN
    /\ idle \in 0 .. Deadline
    /\ sinceProbe \in 0 .. ProbeInterval
    /\ pingQueued \in BOOLEAN
    /\ pingOutstanding \in BOOLEAN
    /\ pings \subseteq Transports
    /\ pongs \subseteq Transports
    /\ runner \in {"due", "seen", "expired", "done"}
    /\ seen \in Transports

Init ==
    /\ WatchInit
    /\ present = TRUE
    /\ idle = 0
    /\ sinceProbe = 0
    /\ pingQueued = FALSE
    /\ pingOutstanding = FALSE
    /\ pings = {}
    /\ pongs = {}
    /\ runner = "due"
    /\ seen = 1

Older(age, cap) == IF age < cap THEN age + 1 ELSE cap

-----------------------------------------------------------------------------
(* Heartbeat *)

\* Heartbeat::activate.
Activate ==
    /\ idle' = 0
    /\ sinceProbe' = 0
    /\ pingQueued' = FALSE
    /\ pingOutstanding' = FALSE

\* Heartbeat::inbound for the current transport.
Inbound ==
    /\ idle' = 0
    /\ pingQueued' = FALSE
    /\ pingOutstanding' = FALSE
    /\ UNCHANGED sinceProbe

\* Heartbeat::tick: silence is looked at before the pings.
HeartbeatTick ==
    IF idle >= Deadline THEN "EXPIRED"
    ELSE IF pingQueued \/ pingOutstanding \/ sinceProbe < ProbeInterval THEN "NONE"
    ELSE "QUEUE_PING"

\* Heartbeat::writeCompleted concerns a ping of the bound transport only.
CompletesPing(g) == g = generation /\ pingQueued

-----------------------------------------------------------------------------
(* Peer and Room *)

\* Closes whatever transport there is.
InvalidateSocket(g) ==
    dropped' = IF socket # NoSocket /\ ~Dead(socket) THEN dropped \cup {socket} ELSE dropped

\* Takes a transport of the given generation for granted.
InvalidateUnbound(g) ==
    dropped' = IF g = generation /\ ~Dead(socket) THEN dropped \cup {socket} ELSE dropped

\* Peer::invalidateSocketIfCurrent closes the bound transport if it is of the
\* given generation.
InvalidateSocketIfCurrent(g) ==
    dropped' = IF g = generation /\ socket # NoSocket /\ ~Dead(socket)
               THEN dropped \cup {socket} ELSE dropped

\* Peer::replaceSocket binds the transport and starts its heartbeat.
ReplaceSocket ==
    /\ present
    /\ Bind
    /\ Activate
    /\ UNCHANGED <<present, pingVars, runner, seen>>

\* What else happens to the transport leaves the heartbeat alone.
Transport ==
    /\ Unbind \/ Close \/ FallSilent
    /\ UNCHANGED <<present, timerVars, pingVars, runner, seen>>

\* A session that was not resumed has its peer removed from the room.
RemovePeer ==
    /\ present /\ socket = NoSocket
    /\ present' = FALSE
    /\ UNCHANGED <<watchVars, timerVars, pingVars, runner, seen>>

\* Room::pingAllPeers reads the generation before it looks at the silence; a
\* peer that has left its room is not visited.
ReadGeneration ==
    /\ runner = "due"
    /\ runner' = IF present THEN "seen" ELSE "done"
    /\ seen' = IF present THEN generation ELSE seen
    /\ UNCHANGED <<watchVars, present, timerVars, pingVars>>

\* Peer::sendPingAsync.  A detached peer keeps the mark of a queued ping that
\* nobody writes, until its next transport.
SendPing ==
    /\ runner = "seen"
    /\ \/ /\ HeartbeatTick = "EXPIRED"
          /\ runner' = "expired"
          /\ UNCHANGED <<timerVars, pings>>
       \/ /\ HeartbeatTick = "NONE"
          /\ runner' = "done"
          /\ UNCHANGED <<timerVars, pings>>
       \/ /\ HeartbeatTick = "QUEUE_PING"
          /\ runner' = "done"
          /\ pingQueued' = TRUE
          /\ sinceProbe' = 0
          /\ pings' = IF socket # NoSocket THEN pings \cup {generation} ELSE pings
          /\ UNCHANGED <<idle, pingOutstanding>>
    /\ UNCHANGED <<watchVars, present, pongs, seen>>

\* The second half of the loop body of pingAllPeers: a transport seen silent
\* for too long is closed, unless it has been replaced since.
DropExpired ==
    /\ runner = "expired"
    /\ runner' = "done"
    /\ InvalidateSocketIfCurrent(seen)
    /\ UNCHANGED <<socket, generation, silent, closed, present, timerVars, pingVars, seen>>

\* SendPingCoroutine::written; a browser that gets the ping answers it.
PingWritten(g) ==
    /\ g \in pings /\ ~Dead(g)
    /\ pings' = pings \ {g}
    /\ pongs' = IF Live(g) THEN pongs \cup {g} ELSE pongs
    /\ pingQueued' = (pingQueued /\ ~CompletesPing(g))
    /\ pingOutstanding' = (pingOutstanding \/ CompletesPing(g))
    /\ UNCHANGED <<watchVars, present, idle, sinceProbe, runner, seen>>

\* SendPingCoroutine::handleError.
PingFailed(g) ==
    /\ g \in pings /\ ~Live(g)
    /\ pings' = pings \ {g}
    /\ IF CompletesPing(g)
       THEN /\ pingQueued' = FALSE
            /\ pingOutstanding' = FALSE
            /\ InvalidateSocketIfCurrent(g)
       ELSE UNCHANGED <<pingQueued, pingOutstanding, dropped>>
    /\ UNCHANGED <<socket, generation, silent, closed, present, idle, sinceProbe, pongs,
                   runner, seen>>

\* Peer::onPong, and readMessage in the same way: what comes over a transport
\* that is no longer bound is ignored.
OnPong(g) ==
    /\ g \in pongs
    /\ pongs' = pongs \ {g}
    /\ IF g = socket /\ Live(g) THEN Inbound ELSE UNCHANGED timerVars
    /\ UNCHANGED <<watchVars, present, pings, runner, seen>>

\* An interval of the runner goes by.  A ping over a transport that works is
\* answered by then.
Tick ==
    /\ runner = "done" /\ \A g \in pings \cup pongs : ~Live(g)
    /\ runner' = "due"
    /\ idle' = Older(idle, Deadline)
    /\ sinceProbe' = Older(sinceProbe, ProbeInterval)
    /\ UNCHANGED <<watchVars, present, pingQueued, pingOutstanding, pingVars, seen>>

-----------------------------------------------------------------------------
(* The specification *)

Runner == ReadGeneration \/ SendPing \/ DropExpired

Pings == \E g \in Transports : PingWritten(g) \/ PingFailed(g) \/ OnPong(g)

Next == ReplaceSocket \/ Transport \/ RemovePeer \/ Runner \/ Pings \/ Tick

Spec == Init /\ [][Next]_vars

\* The runner and the executor go on, and so does time.
FairSpec == Spec /\ WF_vars(Runner) /\ WF_vars(Pings) /\ WF_vars(Tick)

-----------------------------------------------------------------------------
(* Properties *)

\* The heartbeat keeps the promise of TransportWatch.  It closes no transport
\* that works: neither one that has been bound since the iteration of
\* pingAllPeers looked at its predecessor, nor one whose pings are answered in
\* time, whatever pings were under way before it.  A transport that stays
\* silent and bound is closed.
KeepsWatch == WatchSpec
=============================================================================
