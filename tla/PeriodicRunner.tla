--------------------------- MODULE PeriodicRunner ---------------------------
(***************************************************************************)
(* PeriodicRunner: a thread that repeats an iteration until it is told to  *)
(* stop, or until the iteration throws.  stop does not take the mutex of   *)
(* the wait, so its notification may fall between the test of m_stopping   *)
(* and the wait and be lost; the wait then ends with the interval.  How    *)
(* long a wait takes is left open, so the two are one step here.           *)
(*                                                                         *)
(* Where a definition is preceded by one that differs from it in a detail, *)
(* that one is a plausible mistake in the same lines.                      *)
(***************************************************************************)
CONSTANT Runners

VARIABLES
    thread,    \* per runner: none, waiting, iterating, or ended
    stopping,  \* PeriodicRunner::m_stopping
    failed     \* PeriodicRunner::m_failed

runnerVars == <<thread, stopping, failed>>

RunnerTypeOK ==
    /\ thread \in [Runners -> {"none", "waiting", "iterating", "ended"}]
    /\ stopping \in [Runners -> BOOLEAN]
    /\ failed \in [Runners -> BOOLEAN]

NoThreads == [r \in Runners |-> "none"]
NoFlags == [r \in Runners |-> FALSE]

RunnerInit ==
    /\ thread = NoThreads
    /\ stopping = NoFlags
    /\ failed = NoFlags

ForgetRunners ==
    /\ thread' = NoThreads
    /\ stopping' = NoFlags
    /\ failed' = NoFlags

\* start of each of the tried runners, of which some get a thread.
Start(tried, started) ==
    /\ thread' = [r \in Runners |-> IF r \in started THEN "waiting" ELSE "none"]
    /\ stopping' = [r \in Runners |-> r \in tried \ started]
    /\ failed' = NoFlags

\* A thread that looks at m_stopping only between two waits of its own.
WakeUpBlind(r) ==
    /\ thread[r] = "waiting"
    /\ thread' = [thread EXCEPT ![r] = "iterating"]
    /\ UNCHANGED <<stopping, failed>>

\* wait_for is over, by the interval or by the notification of stop.
WakeUp(r) ==
    /\ thread[r] = "waiting"
    /\ thread' = [thread EXCEPT ![r] = IF stopping[r] THEN "ended" ELSE "iterating"]
    /\ UNCHANGED <<stopping, failed>>

\* The iteration returns; the loop tests m_stopping before it waits again.
Repeat(r) ==
    /\ thread[r] = "iterating"
    /\ thread' = [thread EXCEPT ![r] = "waiting"]
    /\ UNCHANGED <<stopping, failed>>

\* The iteration throws.
Throw(r) ==
    /\ thread[r] = "iterating"
    /\ thread' = [thread EXCEPT ![r] = "ended"]
    /\ stopping' = [stopping EXCEPT ![r] = TRUE]
    /\ failed' = [failed EXCEPT ![r] = TRUE]

\* stop, before and after the join.
RequestStop(r) ==
    /\ ~stopping[r]
    /\ stopping' = [stopping EXCEPT ![r] = TRUE]
    /\ UNCHANGED <<thread, failed>>

Joined(r) == stopping[r] /\ thread[r] \in {"none", "ended"}
=============================================================================
