--------------------------- MODULE TransportWatch ---------------------------
(***************************************************************************)
(* What the server promises of the transport of a peer, whatever it does   *)
(* to keep the promise: a transport that has fallen silent is dropped in   *)
(* the end, and one that works is never dropped.  Heartbeat implements it; *)
(* FileTransfer relies on it.                                              *)
(*                                                                         *)
(* A transport is the generation it got when it was bound to the peer.     *)
(***************************************************************************)
EXTENDS Integers

CONSTANT MaxTransports  \* bound on the transports of the peer

ASSUME WatchAssumption == MaxTransports \in Nat \ {0}

Transports == 1 .. MaxTransports
NoSocket == 0

VARIABLES
    socket,      \* Peer::m_socket
    generation,  \* Peer::m_socketGeneration
    silent,      \* transports that lose what they are given, unnoticed
    closed,      \* transports closed by the browser, the network or an error
    dropped      \* transports closed because they were silent

watchVars == <<socket, generation, silent, closed, dropped>>

WatchTypeOK ==
    /\ socket \in Transports \cup {NoSocket}
    /\ generation \in Transports
    /\ silent \subseteq Transports
    /\ closed \subseteq Transports
    /\ dropped \subseteq Transports

WatchInit ==
    /\ socket = 1
    /\ generation = 1
    /\ silent = {}
    /\ closed = {}
    /\ dropped = {}

Dead(g) == g \in closed \cup dropped
Live(g) == g \in Transports /\ g \notin silent /\ ~Dead(g)

\* Peer::replaceSocket, on behalf of a session that was waiting for it.
Bind ==
    /\ socket = NoSocket
    /\ generation + 1 \in Transports
    /\ socket' = generation + 1
    /\ generation' = generation + 1
    /\ UNCHANGED <<silent, closed, dropped>>

\* Peer::detachIfCurrent for a transport whose connection is gone.
Unbind ==
    /\ Dead(socket)
    /\ socket' = NoSocket
    /\ UNCHANGED <<generation, silent, closed, dropped>>

\* The connection ends for another reason than its silence.
Close ==
    /\ socket # NoSocket
    /\ closed' = closed \cup {socket}
    /\ UNCHANGED <<socket, generation, silent, dropped>>

\* The transport stops carrying anything and nobody notices.
FallSilent ==
    /\ Live(socket)
    /\ silent' = silent \cup {socket}
    /\ UNCHANGED <<socket, generation, closed, dropped>>

\* The server gives up a silent transport.
DropSilent ==
    /\ socket \in silent /\ ~Dead(socket)
    /\ dropped' = dropped \cup {socket}
    /\ UNCHANGED <<socket, generation, silent, closed>>

WatchNext == Bind \/ Unbind \/ Close \/ FallSilent \/ DropSilent

WatchSpec == WatchInit /\ [][WatchNext]_watchVars /\ WF_watchVars(DropSilent)
=============================================================================
