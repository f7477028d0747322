----------------------------- MODULE Statistics -----------------------------
(***************************************************************************)
(* The statistics: counters that only grow, the points sampled from them,  *)
(* and the file that keeps the points from one run of the server to the    *)
(* next.                                                                   *)
(*                                                                         *)
(* One counter stands for all of them.  The wall clock may be set, so it   *)
(* shows any time whenever it is read.  A file is what its name leads to;  *)
(* after a power failure that is something the disk has got for sure, or   *)
(* anything that came later.                                               *)
(*                                                                         *)
(* Where a definition is preceded by one that differs from it in a detail, *)
(* that one is a plausible mistake in the same lines.                      *)
(***************************************************************************)
EXTENDS Integers, Sequences, SequencesExt

CONSTANTS
    Savers,        \* the threads that call saveState
    MaxTime,       \* bound on what the clock shows
    MaxEvents,     \* bound on the counter
    PushInterval,  \* Statistics::m_pushInterval
    MaxPeriod,     \* Statistics::m_maxPeriod
    MaxPoints,     \* MAX_STATE_POINTS
    Missing,       \* no file
    Invalid        \* a file that is no state, or cannot be read

ASSUME StatisticsAssumption ==
    /\ MaxTime \in Nat \ {0}
    /\ MaxEvents \in Nat
    /\ PushInterval \in Nat \ {0}
    /\ MaxPeriod \in Nat
    /\ MaxPoints \in Nat /\ MaxPeriod < MaxPoints * PushInterval
    /\ Missing # Invalid

VARIABLES
    counter,     \* the counters
    points,      \* Statistics::m_dataPoints
    stateFile,   \* what the path of the state leads to
    onDisk,      \* the contents one of which a power failure leaves there
    save,        \* per saver: where its saveState is
    json,        \* per saver: what it saves
    acknowledged \* the largest counter that saveState has returned true for

statisticsVars == <<counter, points>>
stateVars == <<stateFile, onDisk, save, json, acknowledged>>

Times == 1 .. MaxTime
Counts == 0 .. MaxEvents
Points == [timestamp : Times, count : Counts]
SaveSteps == {"idle", "flushed", "renamed"}

\* Neither of the two is a list of points.
ASSUME FilesAssumption == Missing \notin Seq(Points) /\ Invalid \notin Seq(Points)

IsState(f) == f \notin {Missing, Invalid}

StatisticsTypeOK ==
    /\ counter \in Counts
    /\ points \in Seq(Points) /\ Len(points) <= MaxPoints
    /\ \A f \in onDisk \cup {stateFile} : IsState(f) => f \in Seq(Points)
    /\ save \in [Savers -> SaveSteps]
    /\ \A s \in Savers : json[s] \in Seq(Points)
    /\ acknowledged \in Counts

\* A file of an earlier program may be there, or something else.
StatisticsInit ==
    /\ counter = 0
    /\ points = <<>>
    /\ stateFile \in {Missing, Invalid}
    /\ onDisk = {stateFile}
    /\ save = [s \in Savers |-> "idle"]
    /\ json = [s \in Savers |-> <<>>]
    /\ acknowledged = 0

ForgetStatistics ==
    /\ counter' = 0
    /\ points' = <<>>
    /\ save' = [s \in Savers |-> "idle"]
    /\ json' = [s \in Savers |-> <<>>]

-----------------------------------------------------------------------------
(* Samples *)

Latest(f) == IF IsState(f) /\ f # <<>> THEN Last(f).count ELSE 0

Later(m, n) == IF m < n THEN n ELSE m

\* Every sample is a point of its own.
SampleApart(ps, now) == Append(ps, [timestamp |-> now, count |-> counter])

\* The points from the first on that is not too old.
DropOld(ps, now) ==
    SubSeq(ps, Min({i \in 1 .. Len(ps) : now - ps[i].timestamp <= MaxPeriod}), Len(ps))

\* takeSample: the last point is updated while it is young, also when the
\* clock has been set back; another point pushes the ones out that are too old.
Sample(ps, now) ==
    IF ps # <<>> /\ now - Last(ps).timestamp < PushInterval
    THEN [ps EXCEPT ![Len(ps)].count = counter]
    ELSE DropOld(Append(ps, [timestamp |-> now, count |-> counter]), now)

\* One of the EVENT counters goes up.
Event ==
    /\ counter < MaxEvents
    /\ counter' = counter + 1
    /\ UNCHANGED <<points, stateVars>>

-----------------------------------------------------------------------------
(* loadState *)

\* The points of a state are not too many and in the order of their times.
Loadable(f) ==
    /\ IsState(f)
    /\ Len(f) \in 1 .. MaxPoints
    /\ \A i \in 1 .. Len(f) - 1 : f[i].timestamp <= f[i + 1].timestamp

\* The points that are neither too old nor of a time to come; they follow one
\* another, since the points are in the order of their times.
Retained(f, now) ==
    LET kept == {i \in 1 .. Len(f) : /\ now - f[i].timestamp <= MaxPeriod
                                     /\ f[i].timestamp <= now}
    IN  IF kept = {} THEN <<>> ELSE SubSeq(f, Min(kept), Max(kept))

\* The counters go on from the last point, whatever its time.
LoadState(now) ==
    IF Loadable(stateFile) THEN
      /\ counter' = Latest(stateFile)
      /\ points' = Retained(stateFile, now)
    ELSE UNCHANGED <<counter, points>>

-----------------------------------------------------------------------------
(* saveState *)

Saving(s, from) == save[s] = from

\* getJsonData and the temporary file, written and flushed; nobody sees it.
BeginSave(s, ps) ==
    /\ Saving(s, "idle")
    /\ save' = [save EXCEPT ![s] = "flushed"]
    /\ json' = [json EXCEPT ![s] = ps]
    /\ UNCHANGED <<stateFile, onDisk, acknowledged>>

\* rename; until the directory is on the disk as well, the old file may come
\* back.
RenameTemporary(s) ==
    /\ Saving(s, "flushed")
    /\ save' = [save EXCEPT ![s] = "renamed"]
    /\ stateFile' = json[s]
    /\ onDisk' = onDisk \cup {json[s]}
    /\ UNCHANGED <<json, acknowledged>>

\* The end of a save without a look at the directory.
SkipDirectory(s) ==
    /\ Saving(s, "renamed")
    /\ save' = [save EXCEPT ![s] = "idle"]
    /\ json' = [json EXCEPT ![s] = <<>>]
    /\ acknowledged' = Later(acknowledged, Latest(json[s]))
    /\ UNCHANGED <<stateFile, onDisk>>

\* fsync of the directory: saveState returns true.
FlushDirectory(s) ==
    /\ Saving(s, "renamed")
    /\ save' = [save EXCEPT ![s] = "idle"]
    /\ json' = [json EXCEPT ![s] = <<>>]
    /\ onDisk' = {stateFile}
    /\ acknowledged' = Later(acknowledged, Latest(json[s]))
    /\ UNCHANGED stateFile

\* Any of the calls fails: the temporary file is removed and saveState returns
\* false.
FailSave(s) ==
    /\ ~Saving(s, "idle")
    /\ save' = [save EXCEPT ![s] = "idle"]
    /\ json' = [json EXCEPT ![s] = <<>>]
    /\ UNCHANGED <<stateFile, onDisk, acknowledged>>

WriteAtomically(s) == RenameTemporary(s) \/ FlushDirectory(s) \/ FailSave(s)
=============================================================================
