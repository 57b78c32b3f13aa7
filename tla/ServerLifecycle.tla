--------------------------- MODULE ServerLifecycle ---------------------------
(***************************************************************************)
(* The master process from its start to its exit, and the workers it       *)
(* forks: main.cpp, MasterServer.cpp, ProcessPool.cpp, and of a worker     *)
(* what WorkerClient and ClientListener do about signals.                  *)
(*                                                                         *)
(* The main thread of the master forks the workers one after the other,    *)
(* starts the game, and serves io_context until a byte arrives in the      *)
(* signal pipe.  It then ends each worker with SIGTERM, two seconds of     *)
(* WNOHANG waits, and SIGKILL.  A worker inherits the master's signal      *)
(* handler, and the pipe with it, until it installs its own: a signal that *)
(* reaches it earlier is written to the master's pipe and does nothing to  *)
(* the worker.  The threads of a worker may hang for good (BinarySession   *)
(* shows how), so nothing is assumed about how long one takes to start or  *)
(* to stop.  The loops of the game are not in this module.                 *)
(***************************************************************************)
EXTENDS Naturals, Sequences

CONSTANTS Count,        \* the workers of all groups together
          MaxSignals    \* bound on the signals that come from outside

ASSUME CountAssumption == Count \in Nat
ASSUME MaxSignalsAssumption == MaxSignals \in Nat

\* The global ids of the workers, given in the order of the groups.
Ids == 0 .. Count - 1

VARIABLES
    main,      \* where the main thread of the master is
    nextId,    \* globalId of doSpawnWorkers
    workers,   \* workers_: the ids of the workers that were started
    at,        \* the index in workers_ that ProcessPool::Shutdown has come to
    proc,      \* what the process of each worker does, as the kernel knows it
    pipe,      \* bytes wait in g_signal_pipe
    signals    \* signals sent from outside so far

vars == <<main, nextId, workers, at, proc, pipe, signals>>

Alive == {"starting", "serving", "stopping"}
ProcStates == Alive \cup {"none", "zombie", "reaped"}
MainStates == {"spawning", "initializing", "running", "terminating", "waiting",
               "collecting", "releasing", "stopped", "exited"}

Init ==
    /\ main = "spawning"
    /\ nextId = 0
    /\ workers = <<>>
    /\ at = 1
    /\ proc = [id \in Ids |-> "none"]
    /\ pipe = FALSE
    /\ signals = 0

-----------------------------------------------------------------------------
(* What a signal does.                                                     *)

\* A worker that has its own signal_set shuts its listener down.  One that is
\* still starting runs the inherited SignalHandler and goes on.
AfterSignal(s) == IF s = "serving" THEN "stopping" ELSE s

\* SIGTERM or SIGINT to the workers of a set.
SignalWorkers(set) ==
    proc' = [id \in Ids |-> IF id \in set THEN AfterSignal(proc[id]) ELSE proc[id]]

\* The handler of the master, inherited by workers that are starting.
WritesPipe(set) == \E id \in set : proc[id] = "starting"

-----------------------------------------------------------------------------
(* The main thread of the master.                                          *)

\* ProcessWorker::Start and push_back.
Fork ==
    /\ main = "spawning" /\ nextId < Count
    /\ proc' = [proc EXCEPT ![nextId] = "starting"]
    /\ workers' = Append(workers, nextId)
    /\ nextId' = nextId + 1
    /\ UNCHANGED <<main, at, pipe, signals>>

\* fork or connect_pair fails: the error is logged and the worker left out.
ForkFails ==
    /\ main = "spawning" /\ nextId < Count
    /\ nextId' = nextId + 1
    /\ UNCHANGED <<main, workers, at, proc, pipe, signals>>

\* The rest of doSpawnWorkers: the channels are started, running_ is set.
StartChannels ==
    /\ main = "spawning" /\ nextId = Count
    /\ main' = "initializing"
    /\ UNCHANGED <<nextId, workers, at, proc, pipe, signals>>

\* GameLogic::Initialize and the first start_signal_read.
InitializeGame ==
    /\ main = "initializing"
    /\ main' = "running"
    /\ UNCHANGED <<nextId, workers, at, proc, pipe, signals>>

\* The read of the pipe completes: MasterServer::Shutdown, and in it the first
\* of the workers.
HandleSignal ==
    /\ main = "running" /\ pipe
    /\ pipe' = FALSE
    /\ main' = "terminating"
    /\ UNCHANGED <<nextId, workers, at, proc, signals>>

\* ProcessWorker::Shutdown sends SIGTERM.
Terminate ==
    /\ main = "terminating" /\ at <= Len(workers)
    /\ SignalWorkers({workers[at]})
    /\ pipe' = (pipe \/ WritesPipe({workers[at]}))
    /\ main' = "waiting"
    /\ UNCHANGED <<nextId, workers, at, signals>>

\* One of the forty calls of waitpid finds the worker gone.
Reap ==
    /\ main = "waiting" /\ proc[workers[at]] = "zombie"
    /\ proc' = [proc EXCEPT ![workers[at]] = "reaped"]
    /\ main' = "releasing"
    /\ UNCHANGED <<nextId, workers, at, pipe, signals>>

\* A variant of Kill that leaves a worker behind that did not end in time.
GiveUp ==
    /\ main = "waiting"
    /\ main' = "releasing"
    /\ UNCHANGED <<nextId, workers, at, proc, pipe, signals>>

\* A variant of Kill that waits without a limit instead.
WaitOn ==
    /\ main = "waiting"
    /\ main' = "collecting"
    /\ UNCHANGED <<nextId, workers, at, proc, pipe, signals>>

\* None of them did: SIGKILL, which no process survives.
Kill ==
    /\ main = "waiting"
    /\ proc' = [proc EXCEPT ![workers[at]] = "zombie"]
    /\ main' = "collecting"
    /\ UNCHANGED <<nextId, workers, at, pipe, signals>>

\* The waitpid after SIGKILL, which blocks until the worker is gone.
Collect ==
    /\ main = "collecting" /\ proc[workers[at]] = "zombie"
    /\ proc' = [proc EXCEPT ![workers[at]] = "reaped"]
    /\ main' = "releasing"
    /\ UNCHANGED <<nextId, workers, at, pipe, signals>>

\* The channel is stopped, the descriptor closed, pid_ forgotten.
Release ==
    /\ main = "releasing"
    /\ at' = at + 1
    /\ main' = "terminating"
    /\ UNCHANGED <<nextId, workers, proc, pipe, signals>>

\* A variant of StopGame that does not wait for the workers to end.
StopGameFirst ==
    /\ main = "terminating"
    /\ main' = "stopped"
    /\ UNCHANGED <<nextId, workers, at, proc, pipe, signals>>

\* The loop of ProcessPool::Shutdown ends; GameLogic::Shutdown and io_.stop().
StopGame ==
    /\ main = "terminating" /\ at > Len(workers)
    /\ main' = "stopped"
    /\ UNCHANGED <<nextId, workers, at, proc, pipe, signals>>

\* io_.run() returns; MasterServer::Shutdown is not run a second time, the
\* database and the log (LogService) are closed, and _Exit ends the process.
Exit ==
    /\ main = "stopped"
    /\ main' = "exited"
    /\ UNCHANGED <<nextId, workers, at, proc, pipe, signals>>

MainStep ==
    \/ Fork \/ ForkFails \/ StartChannels \/ InitializeGame \/ HandleSignal
    \/ Terminate \/ Reap \/ Kill \/ Collect \/ Release \/ StopGame \/ Exit

-----------------------------------------------------------------------------
(* The workers.                                                            *)

\* WorkerClient has started the listener and waits for signals of its own.
InstallHandlers(id) ==
    /\ proc[id] = "starting"
    /\ proc' = [proc EXCEPT ![id] = "serving"]
    /\ UNCHANGED <<main, nextId, workers, at, pipe, signals>>

\* ClientListener::Shutdown has joined every thread; _exit.
Stop(id) ==
    /\ proc[id] = "stopping"
    /\ proc' = [proc EXCEPT ![id] = "zombie"]
    /\ UNCHANGED <<main, nextId, workers, at, pipe, signals>>

\* A worker that cannot load its configuration or reach the log, or crashes.
Die(id) ==
    /\ proc[id] \in {"starting", "serving"}
    /\ proc' = [proc EXCEPT ![id] = "zombie"]
    /\ UNCHANGED <<main, nextId, workers, at, pipe, signals>>

WorkerStep(id) == InstallHandlers(id) \/ Stop(id) \/ Die(id)

-----------------------------------------------------------------------------
(* Signals from outside, SIGINT or SIGTERM.                                *)

MaySignal == main # "exited" /\ signals < MaxSignals /\ signals' = signals + 1

\* To the master alone.
SignalMaster ==
    /\ MaySignal
    /\ pipe' = TRUE
    /\ UNCHANGED <<main, nextId, workers, at, proc>>

\* To one worker.
SignalWorker(id) ==
    /\ MaySignal
    /\ proc[id] \in Alive
    /\ SignalWorkers({id})
    /\ pipe' = (pipe \/ WritesPipe({id}))
    /\ UNCHANGED <<main, nextId, workers, at>>

\* To the foreground group of the terminal: the master and every worker.
Interrupt ==
    /\ MaySignal
    /\ SignalWorkers(Ids)
    /\ pipe' = TRUE
    /\ UNCHANGED <<main, nextId, workers, at>>

-----------------------------------------------------------------------------
Next ==
    \/ MainStep
    \/ \E id \in Ids : WorkerStep(id) \/ SignalWorker(id)
    \/ SignalMaster \/ Interrupt

Spec == Init /\ [][Next]_vars

\* The main thread of the master runs.
FairSpec == Spec /\ WF_vars(MainStep)

-----------------------------------------------------------------------------
TypeOK ==
    /\ main \in MainStates
    /\ nextId \in 0 .. Count
    /\ workers \in Seq(Ids)
    /\ at \in 1 .. Len(workers) + 1
    /\ proc \in [Ids -> ProcStates]
    /\ pipe \in BOOLEAN
    /\ signals \in 0 .. MaxSignals

\* When GameLogic::Shutdown runs and when the master is gone, every worker it
\* ever forked has ended and was waited for, whether it had installed its
\* signal handlers, hung, or had crashed before.
NoSurvivor ==
    main \in {"stopped", "exited"} =>
        \A id \in Ids : proc[id] \in {"none", "reaped"}

\* kill() is never given the pid of a process that was waited for already, which
\* by then may belong to a process of someone else.
KillsOnlyOwn ==
    main = "waiting" \/ (main = "terminating" /\ at <= Len(workers)) =>
        proc[workers[at]] \in Alive \cup {"zombie"}

\* The master leaves no worker behind and signals no process but its workers.
LifecycleInv == NoSurvivor /\ KillsOnlyOwn

\* A signal to the master ends it: one that comes while the workers are being
\* forked waits in the pipe, and a worker that hangs does not keep it.  That
\* LogService::Stop returns is taken for granted.
SignalStops == pipe ~> main = "exited"

\* The master keeps what Supervisor promises.
phase ==
    CASE main = "spawning" -> "starting"
      [] main \in {"initializing", "running"} -> "up"
      [] main \in {"terminating", "waiting", "collecting", "releasing"} -> "stopping"
      [] OTHER -> "down"

live == {id \in Ids : proc[id] \in Alive}

Sup == INSTANCE Supervisor

ImplementsSupervisor == Sup!Spec
=============================================================================
