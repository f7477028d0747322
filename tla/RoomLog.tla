------------------------------- MODULE RoomLog -------------------------------
(***************************************************************************)
(* What a room promises to a browser: one log for everybody, of which each *)
(* browser shows a window.  The window has no holes, it moves forward only, *)
(* and it is never ahead of the log.  It starts anew when the page does, or *)
(* when the server no longer has what comes next.  It ends before the first *)
(* event that the browser has not got.                                     *)
(***************************************************************************)
EXTENDS Integers, Sequences

CONSTANT Clients

VARIABLES
    log,   \* the events published to the room
    base,  \* per browser: the last event before its window
    last   \* per browser: the last event of its window

logVars == <<log, base, last>>

LogInit ==
    /\ log = <<>>
    /\ base = [c \in Clients |-> 0]
    /\ last = [c \in Clients |-> 0]

\* An event is added at the end, and no event changes.
Publish ==
    /\ Len(log') = Len(log) + 1
    /\ SubSeq(log', 1, Len(log)) = log
    /\ UNCHANGED <<base, last>>

\* The window of one browser takes in the events that come next.
Extend(c) ==
    /\ last'[c] \in last[c] .. Len(log)
    /\ last' = [last EXCEPT ![c] = last'[c]]
    /\ UNCHANGED <<log, base>>

\* The window starts anew, after the events it has covered.
Restart(c) ==
    /\ base'[c] \in last[c] .. Len(log)
    /\ base' = [base EXCEPT ![c] = base'[c]]
    /\ last' = [last EXCEPT ![c] = base'[c]]
    /\ UNCHANGED log

LogNext == Publish \/ \E c \in Clients : Extend(c) \/ Restart(c)

LogSpec == LogInit /\ [][LogNext]_logVars
=============================================================================
