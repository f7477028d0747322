--------------------------- MODULE ServerProcess ---------------------------
(***************************************************************************)
(* A server from its launch to its end, and the next one after it: run of  *)
(* App.cpp, with the threads of its periodic runners, its statistics, its  *)
(* onion service, its listeners and its PID file.  The process may be      *)
(* killed and the machine may lose its power at any time.                  *)
(*                                                                         *)
(* The rooms are left out: the iterations of the ping and the session      *)
(* runner change nothing here.  A listener is open while its port accepts  *)
(* connections that its server takes sooner or later.                      *)
(*                                                                         *)
(* Where a definition is preceded by one that differs from it in a detail, *)
(* that one is a plausible mistake in the same lines.                      *)
(***************************************************************************)
EXTENDS PeriodicRunner, Statistics, OnionService

CONSTANTS
    Configs,     \* the configurations looked at: tor, tls and state are on or off
    MaxLaunches  \* bound on the launches

ASSUME ProcessAssumption ==
    /\ {"statistics", "persistence"} \subseteq Runners
    /\ IsFiniteSet(Runners)
    /\ Runners \cap {"onion", "servers", "sample", "save"} = {}
    /\ Configs \subseteq SUBSET {"tor", "tls", "state"}
    /\ Savers = {"persistence", "main"}
    /\ MaxLaunches \in Nat

VARIABLES
    main,       \* where run is
    todo,       \* what is left of its shutdown
    config,     \* the options of ConfigDto, the same for every launch
    persists,   \* statisticsPersistenceEnabled
    listeners,  \* the open ports
    pidFile,    \* none, own, or left by a process that was killed
    signal,     \* g_shutdownSignal
    launches,
    deaf        \* servers told to stop before their thread was in Server::run

processVars == <<main, todo, config, persists, listeners, pidFile, signal, launches, deaf>>
vars == <<runnerVars, statisticsVars, stateVars, onionVars, processVars>>

Down == {"off", "exited"}

\* The ping and the session runner.
LobbyRunners == Runners \ {"statistics", "persistence"}

\* The servers are stopped while Tor still knows them.
ShutdownServersFirst ==
    SetToSeq(LobbyRunners) \o
    <<"persistence", "servers", "onion", "statistics", "sample", "save">>

\* The end of run, with the connections closed before the statistics are saved.
Shutdown ==
    SetToSeq(LobbyRunners) \o
    <<"persistence", "onion", "servers", "statistics", "sample", "save">>

\* The end of run when a runner could not be started.
Abandon ==
    SetToSeq(LobbyRunners) \o
    <<"statistics", "persistence", "onion", "servers">>

TypeOK ==
    /\ RunnerTypeOK /\ StatisticsTypeOK /\ OnionTypeOK
    /\ main \in Down \cup {"tor", "load", "sample", "start", "running", "stopping"}
    /\ \E plan \in {Shutdown, Abandon} : \E i \in 1 .. Len(plan) + 1 :
          todo = SubSeq(plan, i, Len(plan))
    /\ config \in Configs
    /\ persists \in BOOLEAN
    /\ listeners \subseteq {"http", "tor"}
    /\ pidFile \in {"none", "own", "stale"}
    /\ signal \in BOOLEAN
    /\ launches \in 0 .. MaxLaunches
    /\ deaf \subseteq {"http", "tor"}

\* A file that no option names is not there.
Init ==
    /\ RunnerInit /\ StatisticsInit /\ OnionInit
    /\ main = "off"
    /\ todo = <<>>
    /\ config \in Configs
    /\ "state" \in config \/ stateFile = Missing
    /\ "tor" \in config \/ keyFile = NoKey
    /\ persists = FALSE
    /\ listeners = {}
    /\ pidFile = "none"
    /\ signal = FALSE
    /\ launches = 0
    /\ deaf = {}

-----------------------------------------------------------------------------
(* Start *)

\* The components, the signal handlers and the PID file; without the file run
\* returns.
Launch ==
    /\ main \in Down /\ launches < MaxLaunches
    /\ launches' = launches + 1
    /\ signal' = FALSE
    /\ ForgetRunners
    /\ \/ /\ main' = "tor"
          /\ pidFile' = "own"
          /\ listeners' = {"http"}
       \/ /\ main' = "exited"
          /\ pidFile' \in {pidFile, "none"}
          /\ UNCHANGED listeners
    /\ UNCHANGED <<statisticsVars, stateVars, onionVars, todo, config, persists, deaf>>

\* The listener of the onion service, before the service is announced.
OpenBackend ==
    /\ main = "tor" /\ "tor" \in config
    /\ BeginStart
    /\ listeners' = IF "tls" \in config THEN listeners \cup {"tor"} ELSE listeners
    /\ UNCHANGED <<runnerVars, statisticsVars, stateVars, main, todo, config, persists, pidFile,
                   signal, launches, deaf>>

StartTor ==
    /\ main = "tor"
    /\ StartOnion
    /\ UNCHANGED <<runnerVars, statisticsVars, stateVars, processVars>>

TorStarted ==
    /\ main = "tor" /\ onionStep = "started"
    /\ main' = "load"
    /\ UNCHANGED <<runnerVars, statisticsVars, stateVars, onionVars, todo, config, persists,
                   listeners, pidFile, signal, launches, deaf>>

\* Without Tor, by the configuration, a failure or an exception.
WithoutTor ==
    /\ main = "tor"
    /\ StopOnion
    /\ listeners' = {"http"}
    /\ main' = "load"
    /\ UNCHANGED <<runnerVars, statisticsVars, stateVars, todo, config, persists, pidFile,
                   signal, launches, deaf>>

\* A state that loadState refuses is left alone.
Load ==
    /\ main = "load"
    /\ IF "state" \in config THEN \E now \in Times : LoadState(now)
       ELSE UNCHANGED <<counter, points>>
    /\ persists' = ("state" \in config /\ (stateFile = Missing \/ Loadable(stateFile)))
    /\ main' = "sample"
    /\ UNCHANGED <<runnerVars, stateVars, onionVars, todo, config, listeners, pidFile,
                   signal, launches, deaf>>

FirstSample ==
    /\ main = "sample"
    /\ \E now \in Times : points' = Sample(points, now)
    /\ main' = "start"
    /\ UNCHANGED <<runnerVars, counter, stateVars, onionVars, todo, config, persists,
                   listeners, pidFile, signal, launches, deaf>>

StartRunners ==
    LET tried == IF persists THEN Runners ELSE Runners \ {"persistence"}
    IN  /\ main = "start"
        /\ \E started \in SUBSET tried :
              /\ Start(tried, started)
              /\ main' = IF started = tried THEN "running" ELSE "stopping"
              /\ todo' = IF started = tried THEN <<>> ELSE Abandon
        /\ UNCHANGED <<statisticsVars, stateVars, onionVars, config, persists, listeners,
                       pidFile, signal, launches, deaf>>

-----------------------------------------------------------------------------
(* The runners *)

\* An iteration of the persistence runner saves the points of its beginning.
RunnerWakes(r) ==
    /\ WakeUp(r)
    /\ IF r = "persistence" /\ thread'[r] = "iterating"
       THEN BeginSave(r, points) ELSE UNCHANGED stateVars
    /\ UNCHANGED <<statisticsVars, onionVars, processVars>>

RunnerRepeats(r) ==
    /\ r = "persistence" => Saving(r, "idle")
    /\ Repeat(r)
    /\ IF r = "statistics" THEN \E now \in Times : points' = Sample(points, now)
       ELSE UNCHANGED points
    /\ UNCHANGED <<counter, stateVars, onionVars, processVars>>

RunnerThrows(r) ==
    /\ r = "persistence" => Saving(r, "idle")
    /\ Throw(r)
    /\ UNCHANGED <<statisticsVars, stateVars, onionVars, processVars>>

Save(s) ==
    /\ WriteAtomically(s)
    /\ UNCHANGED <<runnerVars, statisticsVars, onionVars, processVars>>

-----------------------------------------------------------------------------
(* End *)

\* The loop of run sees a signal or a runner that failed.
BeginShutdown ==
    /\ main = "running"
    /\ signal \/ \E r \in Runners : failed[r]
    /\ main' = "stopping"
    /\ todo' = Shutdown
    /\ UNCHANGED <<runnerVars, statisticsVars, stateVars, onionVars, config, persists, listeners,
                   pidFile, signal, launches, deaf>>

Doing(what) == main = "stopping" /\ todo # <<>> /\ Head(todo) \in what

Done ==
    /\ todo' = Tail(todo)
    /\ UNCHANGED <<main, config, persists, pidFile, signal, launches, deaf>>

\* PeriodicRunner::stop.
StopRunner ==
    /\ Doing(Runners)
    /\ \/ /\ RequestStop(Head(todo))
          /\ UNCHANGED processVars
       \/ /\ Joined(Head(todo))
          /\ Done
          /\ UNCHANGED <<runnerVars, listeners>>
    /\ UNCHANGED <<statisticsVars, stateVars, onionVars>>

EndOnion ==
    /\ Doing({"onion"})
    /\ StopOnion
    /\ Done
    /\ UNCHANGED <<runnerVars, statisticsVars, stateVars, listeners>>

\* Server::stop and the join of its thread, for either listener, then
\* ConnectionHandler::stop and at most five seconds for the tasks.  A stop that
\* comes before the thread is in Server::run does nothing: the server serves on
\* and the join waits for it.
StopServers ==
    /\ Doing({"servers"}) /\ deaf = {}
    /\ \/ /\ listeners' = {}
          /\ Done
       \/ \E l \in listeners :
             /\ deaf' = {l}
             /\ listeners' = IF l = "tor" THEN listeners ELSE {"http"}
             /\ UNCHANGED <<main, todo, config, persists, pidFile, signal, launches>>
    /\ UNCHANGED <<runnerVars, statisticsVars, stateVars, onionVars>>

\* The last sample and its save, which FinishSave waits for.
LastSample ==
    /\ Doing({"sample"})
    /\ IF persists
       THEN /\ \E now \in Times : points' = Sample(points, now)
            /\ BeginSave("main", points')
       ELSE UNCHANGED <<points, stateVars>>
    /\ Done
    /\ UNCHANGED <<runnerVars, counter, onionVars, listeners>>

FinishSave ==
    /\ Doing({"save"})
    /\ Saving("main", "idle")
    /\ Done
    /\ UNCHANGED <<runnerVars, statisticsVars, stateVars, onionVars, listeners>>

\* run returns without a look at its PID file.
ExitWithPidFile ==
    /\ main = "stopping" /\ todo = <<>>
    /\ main' = "exited"
    /\ ForgetStatistics
    /\ persists' = FALSE
    /\ signal' = FALSE
    /\ UNCHANGED <<runnerVars, stateFile, onDisk, acknowledged, onionVars, todo, config,
                   listeners, pidFile, launches, deaf>>

\* The executor is stopped and run returns; the destructor of PidFile removes
\* the file if reset has not.
Exit ==
    /\ main = "stopping" /\ todo = <<>>
    /\ main' = "exited"
    /\ pidFile' = "none"
    /\ ForgetStatistics
    /\ persists' = FALSE
    /\ signal' = FALSE
    /\ UNCHANGED <<runnerVars, stateFile, onDisk, acknowledged, onionVars, todo, config,
                   listeners, launches, deaf>>

-----------------------------------------------------------------------------
(* What happens to a server *)

\* After the loop of run a signal has no effect.
Signal ==
    /\ main \notin Down \cup {"stopping"} /\ ~signal
    /\ signal' = TRUE
    /\ UNCHANGED <<runnerVars, statisticsVars, stateVars, onionVars, main, todo, config,
                   persists, listeners, pidFile, launches, deaf>>

\* The coroutines of the executor count what they do.
Count ==
    /\ main \in {"running", "stopping"}
    /\ Event
    /\ UNCHANGED <<runnerVars, onionVars, processVars>>

Environment ==
    /\ TorEnds \/ KeyReachesDisk
    /\ UNCHANGED <<runnerVars, statisticsVars, stateVars, processVars>>

\* The process is killed, alone or with the machine.
Crash(power) ==
    /\ main \notin Down
    /\ main' = "off"
    /\ todo' = <<>>
    /\ ForgetRunners /\ ForgetStatistics
    /\ CloseConnection
    /\ hostname' = {}
    /\ onionStep' = "idle"
    /\ persists' = FALSE
    /\ listeners' = {}
    /\ pidFile' = "stale"
    /\ signal' = FALSE
    /\ IF power
       THEN /\ stateFile' \in onDisk /\ onDisk' = {stateFile'}
            /\ keyFile' \in keyOnDisk /\ keyOnDisk' = {keyFile'}
       ELSE UNCHANGED <<stateFile, onDisk, keyFile, keyOnDisk>>
    /\ deaf' = {}
    /\ UNCHANGED <<acknowledged, config, launches>>

-----------------------------------------------------------------------------
(* The specification *)

Main ==
    \/ OpenBackend \/ StartTor \/ TorStarted \/ WithoutTor \/ Load \/ FirstSample
    \/ StartRunners \/ BeginShutdown \/ StopRunner \/ EndOnion \/ StopServers \/ LastSample
    \/ FinishSave \/ Exit

Turn(r) == RunnerWakes(r) \/ RunnerRepeats(r)

Next ==
    \/ Launch \/ Main
    \/ \E r \in Runners : Turn(r) \/ RunnerThrows(r)
    \/ \E s \in Savers : Save(s)
    \/ Signal \/ Count \/ Environment
    \/ \E power \in BOOLEAN : Crash(power)

Spec == Init /\ [][Next]_vars

\* The threads of a server run on, and the calls that save a file return.
FairSpec ==
    /\ Spec
    /\ WF_vars(Main)
    /\ \A r \in Runners : WF_vars(Turn(r))
    /\ \A s \in Savers : WF_vars(Save(s))

-----------------------------------------------------------------------------
(* Properties *)

\* A state that saveState has reported as saved outlives every crash: whatever
\* a power failure may leave in the file can be loaded, and its counters are at
\* least the saved ones.  So counters never fall behind a checkpoint, although
\* two threads save, the clock may be set back and points are dropped
\* (Statistics::takeSample, loadState and writeAtomically, the order of run).
SavedSurvives ==
    \A f \in onDisk \cup {stateFile} :
        /\ Latest(f) >= acknowledged
        /\ IsState(f) => Loadable(f)

\* Files that the server cannot read are left as they are, for the operator to
\* look at, and a key that is there is never replaced; only a power failure
\* takes back a key that had not reached the disk (loadState and run,
\* OnionService::add).
FilesArePreserved ==
    [][/\ stateFile = Invalid => stateFile' = Invalid
       /\ keyFile \notin {NoKey, keyFile'} => main' = "off" /\ keyFile' \in keyOnDisk]_vars

\* Tor never leads to a port that is closed, and the address that the server
\* gives out is the one of the key on file, which the next server will have
\* as well (the order of run, OnionService::add).
OnionIsBacked ==
    /\ registered # {} => (IF "tls" \in config THEN "tor" ELSE "http") \in listeners
    /\ hostname # {} => hostname = {keyFile}

\* A server that returns from run, early or not, leaves no thread, no port, no
\* onion service and no PID file of its own (run, PidFile).
CleanExit ==
    main = "exited" =>
        /\ \A r \in Runners : thread[r] \in {"none", "ended"}
        /\ listeners = {} /\ registered = {}
        /\ pidFile # "own"

\* A signal, and a runner that fails, bring the server to its end, whatever the
\* threads are doing: the only join that can wait for good is that of a server
\* which was told to stop too early (run, PeriodicRunner::stop, Server::stop).
ShutdownEnds ==
    (signal \/ \E r \in Runners : failed[r]) ~> (main \in Down \/ deaf # {})
=============================================================================
