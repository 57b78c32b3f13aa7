------------------------ MODULE ServerLifecycleProofs ------------------------
(***************************************************************************)
(* For any number of workers and signals: no worker survives the master,   *)
(* the master signals only processes of its own, and it keeps what         *)
(* Supervisor promises.  For any number of senders and lines: the log has  *)
(* them in order and without a gap (LogInv).  For any servers, tables,     *)
(* calls and .sql file: the database is what the server takes it for       *)
(* (DatabaseInv).                                                          *)
(***************************************************************************)
EXTENDS MCServerLifecycle, FiniteSetTheorems, SequenceTheorems, NaturalsInduction,
        WellFoundedInduction, TLAPS

Indices == 1 .. Len(workers)

\* workers_ names exactly the workers that were forked, each once.
Forked ==
    /\ \A i \in Indices : workers[i] < nextId /\ proc[workers[i]] # "none"
    /\ \A i, j \in Indices : i # j => workers[i] # workers[j]
    /\ \A id \in Ids : proc[id] # "none" => \E i \in Indices : workers[i] = id

\* ProcessPool::Shutdown has waited for the workers it is past, and for no other.
Collected ==
    \A i \in Indices :
        proc[workers[i]] = "reaped" <=> i < at \/ (i = at /\ main = "releasing")

\* How far the main thread is when it is somewhere.
Position ==
    /\ main \in {"spawning", "initializing", "running"} => at = 1
    /\ main \in {"waiting", "collecting", "releasing"} => at <= Len(workers)
    /\ main \in {"stopped", "exited"} => at = Len(workers) + 1

IInv == TypeOK /\ Forked /\ Collected /\ Position

-----------------------------------------------------------------------------
\* Nothing is forked at first.
LEMMA InitInv == Init => IInv
<1>. SUFFICES ASSUME Init PROVE IInv
  OBVIOUS
<1>1. /\ Len(workers) = 0 /\ Indices = {} /\ workers \in Seq(Ids)
  BY DEF Init, Indices
<1>2. TypeOK
  <2>1. nextId \in 0 .. Count /\ at \in 1 .. Len(workers) + 1
    BY <1>1, CountAssumption DEF Init
  <2>2. proc \in [Ids -> ProcStates]
    <3>1. proc = [id \in Ids |-> "none"] /\ "none" \in ProcStates
      BY DEF Init, ProcStates
    <3>. QED
      BY <3>1
  <2>3. signals \in 0 .. MaxSignals
    BY MaxSignalsAssumption DEF Init
  <2>4. pipe \in BOOLEAN /\ main \in MainStates
    BY DEF Init, MainStates
  <2>. QED
    BY <1>1, <2>1, <2>2, <2>3, <2>4 DEF TypeOK
<1>3. Forked /\ Collected /\ Position
  BY <1>1 DEF Init, Forked, Collected, Position
<1>. QED
  BY <1>2, <1>3 DEF IInv

\* A step that forks nobody and waits for nobody keeps Forked and Collected.
LEMMA SameProcesses ==
    ASSUME IInv, UNCHANGED <<workers, at>>, nextId' \in {nextId, nextId + 1},
           main' = "releasing" <=> main = "releasing",
           \A id \in Ids : /\ proc'[id] = "none" <=> proc[id] = "none"
                           /\ proc'[id] = "reaped" <=> proc[id] = "reaped"
    PROVE  Forked' /\ Collected'
<1>1. Indices' = Indices /\ \A i \in Indices : workers[i] \in Ids
  BY DEF IInv, TypeOK, Indices
<1>2. \A i \in Indices : workers[i] \in Nat
  BY <1>1, CountAssumption DEF Ids
<1>3. nextId \in Nat
  BY CountAssumption DEF IInv, TypeOK
<1>4. Forked'
  <2>1. Forked
    BY DEF IInv
  <2>2. \A i \in Indices : workers[i] < nextId'
    <3>1. \A i \in Indices : workers[i] < nextId
      BY <2>1 DEF Forked
    <3>. QED
      BY <1>2, <1>3, <3>1
  <2>3. \A i \in Indices : proc'[workers[i]] # "none"
    BY <1>1, <2>1 DEF Forked
  <2>4. \A id \in Ids : proc'[id] # "none" => \E i \in Indices : workers[i] = id
    BY <2>1 DEF Forked
  <2>. QED
    BY <1>1, <2>1, <2>2, <2>3, <2>4 DEF Forked
<1>5. Collected'
  BY <1>1 DEF IInv, Collected
<1>. QED
  BY <1>4, <1>5

\* What a signal leaves as it is.
LEMMA SignalKeeps ==
    ASSUME TypeOK, NEW set, SignalWorkers(set)
    PROVE  /\ proc' \in [Ids -> ProcStates]
           /\ \A id \in Ids : /\ proc'[id] = "none" <=> proc[id] = "none"
                              /\ proc'[id] = "reaped" <=> proc[id] = "reaped"
BY DEF TypeOK, SignalWorkers, AfterSignal, ProcStates, Alive

\* A new worker is the last of workers_.
LEMMA ForkKeeps == ASSUME IInv, Fork PROVE IInv'
<1>1. /\ nextId \in Ids /\ nextId \in Nat /\ workers \in Seq(Ids)
      /\ Len(workers) \in Nat /\ at = 1
  BY CountAssumption DEF IInv, TypeOK, Fork, Ids, Position
<1>2. /\ workers' \in Seq(Ids) /\ Len(workers') = Len(workers) + 1
      /\ workers'[Len(workers) + 1] = nextId
      /\ \A i \in Indices : workers'[i] = workers[i]
  BY <1>1 DEF Fork, Indices
<1>3. /\ Indices' = Indices \cup {Len(workers) + 1}
      /\ \A i \in Indices : workers[i] \in Ids /\ workers[i] \in Nat
  BY <1>1, <1>2, CountAssumption DEF Indices, Ids
<1>4. /\ proc'[nextId] = "starting"
      /\ \A id \in Ids : id # nextId => proc'[id] = proc[id]
  BY <1>1 DEF IInv, TypeOK, Fork
<1>5. TypeOK'
  BY <1>1, <1>2, CountAssumption DEF IInv, TypeOK, Fork, ProcStates, Alive
<1>6. \A i \in Indices : workers[i] < nextId /\ workers[i] # nextId
  BY <1>1, <1>3 DEF IInv, Forked
<1>7. Forked'
  <2>1. \A i \in Indices' : workers'[i] < nextId' /\ proc'[workers'[i]] # "none"
    <3>1. \A i \in Indices : workers'[i] < nextId + 1 /\ proc'[workers'[i]] # "none"
      BY <1>1, <1>2, <1>3, <1>4, <1>6 DEF IInv, Forked
    <3>2. workers'[Len(workers) + 1] < nextId + 1
      BY <1>1, <1>2
    <3>3. proc'[workers'[Len(workers) + 1]] # "none"
      BY <1>2, <1>4
    <3>. QED
      BY <1>3, <3>1, <3>2, <3>3 DEF Fork
  <2>2. \A i, j \in Indices' : i # j => workers'[i] # workers'[j]
    BY <1>2, <1>3, <1>6 DEF IInv, Forked
  <2>3. ASSUME NEW id \in Ids, proc'[id] # "none"
        PROVE  \E i \in Indices' : workers'[i] = id
    <3>1. CASE id = nextId
      BY <3>1, <1>2, <1>3
    <3>2. CASE id # nextId
      BY <3>2, <2>3, <1>2, <1>3, <1>4 DEF IInv, Forked
    <3>. QED
      BY <3>1, <3>2
  <2>. QED
    BY <2>1, <2>2, <2>3 DEF Forked
<1>8. Collected'
  BY <1>1, <1>2, <1>3, <1>4, <1>6 DEF IInv, Collected, Fork, Indices
<1>9. Position'
  BY DEF IInv, Position, Fork
<1>. QED
  BY <1>5, <1>7, <1>8, <1>9 DEF IInv

\* The two calls of waitpid that return the worker being ended.
LEMMA WaitKeeps == ASSUME IInv, Reap \/ Collect PROVE IInv'
<1>1. /\ main' = "releasing" /\ UNCHANGED <<nextId, workers, at, pipe, signals>>
      /\ proc' = [proc EXCEPT ![workers[at]] = "reaped"]
      /\ proc[workers[at]] = "zombie" /\ main \in {"waiting", "collecting"}
  BY DEF Reap, Collect
<1>2. /\ at \in Indices /\ Indices' = Indices
      /\ \A i \in Indices : workers[i] \in Ids
  BY <1>1 DEF IInv, TypeOK, Position, Indices
<1>3. /\ proc'[workers[at]] = "reaped"
      /\ \A id \in Ids : id # workers[at] => proc'[id] = proc[id]
  BY <1>1, <1>2 DEF IInv, TypeOK
<1>4. TypeOK'
  BY <1>1, <1>2 DEF IInv, TypeOK, ProcStates, MainStates
<1>5. Forked'
  BY <1>1, <1>2, <1>3 DEF IInv, Forked
<1>6. Collected'
  BY <1>1, <1>2, <1>3 DEF IInv, Forked, Collected
<1>7. Position'
  BY <1>1 DEF IInv, Position
<1>. QED
  BY <1>4, <1>5, <1>6, <1>7 DEF IInv

\* SIGKILL makes a process that was not waited for one that can be.
LEMMA KillKeeps == ASSUME IInv, Kill PROVE IInv'
<1>1. /\ at \in Indices /\ workers[at] \in Ids
  BY DEF IInv, TypeOK, Position, Indices, Kill
<1>2. proc[workers[at]] \notin {"none", "reaped"}
  BY <1>1 DEF IInv, Forked, Collected, Kill, Indices, TypeOK
<1>3. \A id \in Ids : /\ proc'[id] = "none" <=> proc[id] = "none"
                      /\ proc'[id] = "reaped" <=> proc[id] = "reaped"
  BY <1>1, <1>2 DEF IInv, TypeOK, Kill
<1>4. /\ UNCHANGED <<workers, at>> /\ nextId' \in {nextId, nextId + 1}
      /\ main' = "releasing" <=> main = "releasing"
  BY DEF Kill
<1>5. Forked' /\ Collected'
  BY <1>3, <1>4, SameProcesses
<1>6. TypeOK' /\ Position'
  BY <1>1 DEF IInv, TypeOK, Position, Kill, MainStates, ProcStates
<1>. QED
  BY <1>5, <1>6 DEF IInv

\* The master goes on to the next worker.
LEMMA ReleaseKeeps == ASSUME IInv, Release PROVE IInv'
<1>1. /\ at \in Indices /\ at \in Nat /\ Indices' = Indices
      /\ Len(workers) \in Nat
  BY DEF IInv, TypeOK, Position, Indices, Release
<1>2. TypeOK'
  BY <1>1 DEF IInv, TypeOK, Release, MainStates, Indices
<1>3. Forked'
  BY <1>1 DEF IInv, Forked, Release
<1>4. Collected'
  BY <1>1 DEF IInv, Collected, Release, Indices
<1>5. Position'
  BY DEF Position, Release
<1>. QED
  BY <1>2, <1>3, <1>4, <1>5 DEF IInv

\* A worker's own steps.
LEMMA WorkerKeeps ==
    ASSUME IInv, NEW id \in Ids, WorkerStep(id)
    PROVE  IInv'
<1>1. \A w \in Ids : /\ proc'[w] = "none" <=> proc[w] = "none"
                     /\ proc'[w] = "reaped" <=> proc[w] = "reaped"
  BY DEF IInv, TypeOK, WorkerStep, InstallHandlers, Stop, Die
<1>2. /\ UNCHANGED <<workers, at>> /\ nextId' \in {nextId, nextId + 1}
      /\ main' = "releasing" <=> main = "releasing"
  BY DEF WorkerStep, InstallHandlers, Stop, Die
<1>3. Forked' /\ Collected'
  BY <1>1, <1>2, SameProcesses
<1>4. TypeOK' /\ Position'
  BY DEF IInv, TypeOK, Position, WorkerStep, InstallHandlers, Stop, Die,
         ProcStates, Alive
<1>. QED
  BY <1>3, <1>4 DEF IInv

\* A signal from outside.
LEMMA SignalKeepsInv ==
    ASSUME IInv, NEW set \in SUBSET Ids, MaySignal, pipe' \in BOOLEAN,
           SignalWorkers(set) \/ proc' = proc,
           UNCHANGED <<main, nextId, workers, at>>
    PROVE  IInv'
<1>1. /\ proc' \in [Ids -> ProcStates]
      /\ \A id \in Ids : /\ proc'[id] = "none" <=> proc[id] = "none"
                         /\ proc'[id] = "reaped" <=> proc[id] = "reaped"
  BY SignalKeeps DEF IInv, TypeOK
<1>2. Forked' /\ Collected'
  BY <1>1, SameProcesses
<1>3. TypeOK'
  BY <1>1, MaxSignalsAssumption DEF IInv, TypeOK, MaySignal
<1>4. Position'
  BY DEF IInv, Position
<1>. QED
  BY <1>2, <1>3, <1>4 DEF IInv

-----------------------------------------------------------------------------
\* No step of the system disturbs the invariant.
LEMMA StepKeepsInv == IInv /\ [Next]_vars => IInv'
<1>. SUFFICES ASSUME IInv, [Next]_vars PROVE IInv'
  OBVIOUS
<1>1. CASE UNCHANGED vars
  <2>1. TypeOK' /\ Position'
    BY <1>1 DEF vars, IInv, TypeOK, Position
  <2>2. Forked' /\ Collected'
    BY <1>1 DEF vars, IInv, Forked, Collected, Indices
  <2>. QED
    BY <2>1, <2>2 DEF IInv
<1>2. CASE Fork
  BY <1>2, ForkKeeps
<1>3. CASE Reap \/ Collect
  BY <1>3, WaitKeeps
<1>4. CASE Kill
  BY <1>4, KillKeeps
<1>5. CASE Release
  BY <1>5, ReleaseKeeps
<1>6. CASE ForkFails \/ StartChannels \/ InitializeGame \/ HandleSignal
           \/ StopGame \/ Exit
  <2>1. /\ UNCHANGED <<workers, at>> /\ nextId' \in {nextId, nextId + 1}
        /\ main' = "releasing" <=> main = "releasing"
        /\ proc' = proc
    BY <1>6 DEF ForkFails, StartChannels, InitializeGame, HandleSignal, StopGame, Exit
  <2>2. Forked' /\ Collected'
    BY <2>1, SameProcesses
  <2>3. TypeOK'
    <3>1. nextId' \in 0 .. Count
      BY <1>6, CountAssumption
         DEF IInv, TypeOK, ForkFails, StartChannels, InitializeGame, HandleSignal,
             StopGame, Exit
    <3>2. main' \in MainStates /\ pipe' \in BOOLEAN /\ signals' = signals
      BY <1>6
         DEF IInv, TypeOK, MainStates, ForkFails, StartChannels, InitializeGame,
             HandleSignal, StopGame, Exit
    <3>. QED
      BY <2>1, <3>1, <3>2 DEF IInv, TypeOK
  <2>4. Position'
    BY <1>6 DEF IInv, TypeOK, Position, ForkFails, StartChannels, InitializeGame,
                HandleSignal, StopGame, Exit
  <2>. QED
    BY <2>2, <2>3, <2>4 DEF IInv
<1>7. CASE Terminate
  <2>1. /\ UNCHANGED <<workers, at>> /\ nextId' \in {nextId, nextId + 1}
        /\ main' = "releasing" <=> main = "releasing"
        /\ SignalWorkers({workers[at]})
    BY <1>7 DEF Terminate
  <2>2. /\ proc' \in [Ids -> ProcStates]
        /\ \A id \in Ids : /\ proc'[id] = "none" <=> proc[id] = "none"
                           /\ proc'[id] = "reaped" <=> proc[id] = "reaped"
    BY <2>1, SignalKeeps DEF IInv
  <2>3. Forked' /\ Collected'
    BY <2>1, <2>2, SameProcesses
  <2>4. pipe' \in BOOLEAN
    BY <1>7 DEF IInv, TypeOK, Terminate, WritesPipe
  <2>5. TypeOK' /\ Position'
    BY <1>7, <2>2, <2>4 DEF IInv, TypeOK, Position, Terminate, MainStates
  <2>. QED
    BY <2>3, <2>5 DEF IInv
<1>8. CASE \E id \in Ids : WorkerStep(id)
  BY <1>8, WorkerKeeps
<1>9. ASSUME NEW id \in Ids, SignalWorker(id)
      PROVE  IInv'
  <2>1. pipe' \in BOOLEAN
    BY <1>9 DEF IInv, TypeOK, SignalWorker, WritesPipe
  <2>2. {id} \in SUBSET Ids
    OBVIOUS
  <2>. QED
    BY <1>9, <2>1, <2>2, SignalKeepsInv DEF SignalWorker
<1>10. CASE SignalMaster
  BY <1>10, SignalKeepsInv DEF SignalMaster
<1>11. CASE Interrupt
  BY <1>11, SignalKeepsInv DEF Interrupt
<1>. QED
  BY <1>1, <1>2, <1>3, <1>4, <1>5, <1>6, <1>7, <1>8, <1>9, <1>10, <1>11
     DEF Next, MainStep

\* The invariant holds in every state of every behaviour.
LEMMA Invariance == Spec => []IInv
BY InitInv, StepKeepsInv, PTL DEF Spec

-----------------------------------------------------------------------------
\* Every variable keeps its type, whatever the number of workers.
THEOREM LifecycleTyped == Spec => []TypeOK
BY Invariance, PTL DEF IInv

\* A master that has stopped its game or ended has waited for every worker.
LEMMA StoppedMeansCollected == IInv => NoSurvivor
<1>. SUFFICES ASSUME IInv, main \in {"stopped", "exited"}, NEW id \in Ids,
                     proc[id] # "none"
              PROVE  proc[id] = "reaped"
  BY DEF NoSurvivor
<1>1. PICK i \in Indices : workers[i] = id
  BY DEF IInv, Forked
<1>2. i < at
  BY DEF IInv, TypeOK, Position, Indices
<1>. QED
  BY <1>1, <1>2 DEF IInv, Collected

\* No worker outlives the master's shutdown (ProcessPool::Shutdown).
THEOREM NoWorkerSurvives == Spec => []NoSurvivor
BY Invariance, StoppedMeansCollected, PTL

\* The worker that ProcessWorker::Shutdown deals with was not waited for yet.
LEMMA TargetIsOwn == IInv => KillsOnlyOwn
<1>. SUFFICES ASSUME IInv,
                     main = "waiting" \/ (main = "terminating" /\ at <= Len(workers))
              PROVE  proc[workers[at]] \in Alive \cup {"zombie"}
  BY DEF KillsOnlyOwn
<1>1. at \in Indices /\ at \in Nat /\ workers[at] \in Ids
  BY DEF IInv, TypeOK, Position, Indices
<1>2. proc[workers[at]] \notin {"none", "reaped"}
  BY <1>1 DEF IInv, Forked, Collected
<1>3. proc[workers[at]] \in ProcStates
  BY <1>1 DEF IInv, TypeOK
<1>. QED
  BY <1>2, <1>3 DEF ProcStates

\* kill() is only ever given the pid of a child that was not waited for.
THEOREM SignalsOnlyChildren == Spec => []KillsOnlyOwn
BY Invariance, TargetIsOwn, PTL

\* Both, for any number of workers.
THEOREM ShutdownSound == Spec => []LifecycleInv
BY NoWorkerSurvives, SignalsOnlyChildren, PTL DEF LifecycleInv

-----------------------------------------------------------------------------
(* Refinement of Supervisor.                                               *)

\* The master starts where Supervisor starts.
LEMMA SupervisorInit == Init => Sup!Init
BY DEF Init, Sup!Init, phase, live, Alive

\* A signal starts and ends no process.
LEMMA SignalsKeepLive ==
    ASSUME IInv, NEW set, SignalWorkers(set)
    PROVE  live' = live
BY DEF IInv, TypeOK, SignalWorkers, AfterSignal, live, Alive

\* Each step of the server is one of Supervisor or leaves its state alone.
LEMMA SupervisorStep == IInv /\ [Next]_vars => [Sup!Next]_(Sup!vars)
<1>. SUFFICES ASSUME IInv, [Next]_vars PROVE [Sup!Next]_(Sup!vars)
  OBVIOUS
<1>. USE DEF Sup!Next, Sup!vars
<1>1. CASE UNCHANGED vars
  BY <1>1 DEF vars, phase, live
<1>2. CASE Fork
  <2>1. nextId \in Ids /\ phase = "starting" /\ phase' = phase
    BY <1>2, CountAssumption DEF IInv, TypeOK, Fork, Ids, phase
  <2>2. live' = live \cup {nextId}
    BY <1>2, <2>1 DEF IInv, TypeOK, Fork, live, Alive
  <2>. QED
    BY <2>1, <2>2 DEF Sup!StartChild
<1>3. CASE ForkFails \/ InitializeGame \/ Release \/ Exit
  BY <1>3 DEF ForkFails, InitializeGame, Release, Exit, phase, live
<1>4. CASE StartChannels
  BY <1>4 DEF StartChannels, phase, live, Sup!ComeUp
<1>5. CASE HandleSignal
  BY <1>5 DEF HandleSignal, phase, live, Sup!BeginStop
<1>6. CASE Terminate
  <2>1. live' = live
    BY <1>6, SignalsKeepLive DEF Terminate
  <2>. QED
    BY <1>6, <2>1 DEF Terminate, phase
<1>7. CASE Reap \/ Collect
  <2>1. workers[at] \in Ids
    BY <1>7 DEF IInv, TypeOK, Position, Reap, Collect
  <2>2. live' = live
    BY <1>7, <2>1 DEF IInv, TypeOK, Reap, Collect, live, Alive
  <2>. QED
    BY <1>7, <2>2 DEF Reap, Collect, phase
<1>8. CASE Kill
  <2>1. workers[at] \in Ids
    BY <1>8 DEF IInv, TypeOK, Position, Kill
  <2>2. live' = live \ {workers[at]}
    BY <1>8, <2>1 DEF IInv, TypeOK, Kill, live, Alive
  <2>3. phase' = phase
    BY <1>8 DEF Kill, phase
  <2>. QED
    BY <2>1, <2>2, <2>3 DEF Sup!LoseChild
<1>9. CASE StopGame
  <2>1. phase = "stopping" /\ phase' = "down" /\ live' = live
    BY <1>9 DEF StopGame, phase, live
  <2>2. IInv'
    BY StepKeepsInv
  <2>3. NoSurvivor'
    BY <2>2, StoppedMeansCollected, PTL
  <2>4. live = {}
    BY <1>9, <2>3 DEF StopGame, NoSurvivor, live, Alive
  <2>. QED
    BY <2>1, <2>4 DEF Sup!GoDown
<1>10. ASSUME NEW id \in Ids, WorkerStep(id)
       PROVE  [Sup!Next]_(Sup!vars)
  <2>1. phase' = phase
    BY <1>10 DEF WorkerStep, InstallHandlers, Stop, Die, phase
  <2>2. live' = live \/ live' = live \ {id}
    BY <1>10 DEF IInv, TypeOK, WorkerStep, InstallHandlers, Stop, Die, live, Alive
  <2>. QED
    BY <2>1, <2>2 DEF Sup!LoseChild
<1>11. CASE SignalMaster \/ Interrupt \/ \E id \in Ids : SignalWorker(id)
  <2>1. live' = live
    BY <1>11, SignalsKeepLive DEF SignalMaster, Interrupt, SignalWorker, live
  <2>2. phase' = phase
    BY <1>11 DEF SignalMaster, Interrupt, SignalWorker, phase
  <2>. QED
    BY <2>1, <2>2
<1>. QED
  BY <1>1, <1>2, <1>3, <1>4, <1>5, <1>6, <1>7, <1>8, <1>9, <1>10, <1>11
     DEF Next, MainStep

\* The server implements Supervisor: children are started once, lost at any
\* time, and gone when it is down.
THEOREM SupervisorImplemented == Spec => ImplementsSupervisor
BY SupervisorInit, SupervisorStep, Invariance, PTL
   DEF Spec, ImplementsSupervisor, Sup!Spec

-----------------------------------------------------------------------------
(* The log.  Lists: what stands at some places of a log stays there as the *)
(* log grows, and a new line comes behind those of smaller places.         *)
LEMMA ListsNothing == ASSUME NEW log PROVE Log!Lists(<<>>, {}, log)
<1>. DEFINE place == [i \in DOMAIN <<>> |-> 0]
<1>1. place \in [DOMAIN <<>> -> {}] /\ DOMAIN <<>> = {}
  OBVIOUS
<1>. QED
  BY <1>1 DEF Log!Lists

LEMMA ListsStay ==
    ASSUME NEW s, NEW P, NEW log, NEW later, Log!Lists(s, P, log),
           \A p \in P : later[p] = log[p]
    PROVE  Log!Lists(s, P, later)
<1>1. PICK place \in [DOMAIN s -> P] :
         /\ \A i, j \in DOMAIN s : i < j => place[i] < place[j]
         /\ \A p \in P : \E i \in DOMAIN s : place[i] = p
         /\ \A i \in DOMAIN s : s[i] = log[place[i]]
  BY DEF Log!Lists
<1>2. \A i \in DOMAIN s : s[i] = later[place[i]]
  BY <1>1
<1>. QED
  BY <1>1, <1>2 DEF Log!Lists

LEMMA ListsGrow ==
    ASSUME NEW S, NEW s \in Seq(S), NEW P \in SUBSET Int, NEW log, NEW last \in Int,
           log[last] \in S, Log!Lists(s, P, log), \A p \in P : p < last
    PROVE  Log!Lists(Append(s, log[last]), P \cup {last}, log)
<1>. DEFINE longer == Append(s, log[last])
            top == Len(s) + 1
<1>1. PICK place \in [DOMAIN s -> P] :
         /\ \A i, j \in DOMAIN s : i < j => place[i] < place[j]
         /\ \A p \in P : \E i \in DOMAIN s : place[i] = p
         /\ \A i \in DOMAIN s : s[i] = log[place[i]]
  BY DEF Log!Lists
<1>2. /\ DOMAIN s = 1..Len(s) /\ Len(s) \in Nat /\ DOMAIN longer = 1..top
      /\ longer[top] = log[last] /\ \A i \in DOMAIN s : longer[i] = s[i]
  OBVIOUS
<1>3. \A i \in DOMAIN longer : i \in DOMAIN s \/ i = top
  BY <1>2
<1>4. \A i \in DOMAIN s : i \in DOMAIN longer /\ i < top
  BY <1>2
<1>. HIDE DEF longer
<1>. DEFINE wider == [i \in DOMAIN longer |-> IF i = top THEN last ELSE place[i]]
<1>5. wider[top] = last /\ \A i \in DOMAIN s : wider[i] = place[i]
  BY <1>2, <1>4
<1>6. wider \in [DOMAIN longer -> P \cup {last}]
  BY <1>1, <1>3
<1>. HIDE DEF wider
<1>7. ASSUME NEW i \in DOMAIN longer, NEW j \in DOMAIN longer, i < j
      PROVE  wider[i] < wider[j]
  <2>1. i \in DOMAIN s
    BY <1>2, <1>3, <1>4, <1>7
  <2>2. CASE j = top
    BY <1>1, <1>5, <2>1, <2>2
  <2>3. CASE j \in DOMAIN s
    BY <1>1, <1>5, <1>7, <2>1, <2>3
  <2>. QED
    BY <1>3, <2>2, <2>3
<1>8. \A p \in P \cup {last} : \E i \in DOMAIN longer : wider[i] = p
  <2>1. top \in DOMAIN longer
    BY <1>2
  <2>. QED
    BY <1>1, <1>4, <1>5, <2>1
<1>9. \A i \in DOMAIN longer : longer[i] = log[wider[i]]
  BY <1>1, <1>2, <1>3, <1>5
<1>. QED
  BY <1>6, <1>7, <1>8, <1>9 DEF Log!Lists, longer

(* The lines of a log that files hold up to a place of it.                 *)
Between(log, from, to) == {p \in from + 1 .. to : log[p].text > 0}

Borders(border, fs, top, log) ==
    /\ border \in [1 .. Len(fs) + 1 -> 0 .. top] /\ border[1] = top
    /\ \A k \in DOMAIN fs :
          /\ border[k + 1] <= border[k]
          /\ Log!Lists(fs[k], Between(log, border[k + 1], border[k]), log)

Hold(fs, top, log) == \E border : Borders(border, fs, top, log)

LEMMA NoGapMeans == Log!NoGap <=> Log!QueueIsLatest /\ Hold(files, Log!Finished, pushed)
BY DEF Log!NoGap, Hold, Borders, Between, Log!ToWrite

LEMMA NoGapLater ==
    Log!NoGap' <=> Log!QueueIsLatest' /\ Hold(files', Log!Finished', pushed')
BY DEF Log!NoGap, Hold, Borders, Between, Log!ToWrite

(* A line pushed is behind all that the files hold.                        *)
LEMMA PushedBehind ==
    ASSUME NEW S, NEW fs \in Seq(S), NEW top \in Int, NEW log, NEW later,
           \A p \in 1..top : later[p] = log[p], Hold(fs, top, log)
    PROVE  Hold(fs, top, later)
<1>1. PICK border : Borders(border, fs, top, log)
  BY DEF Hold
<1>2. ASSUME NEW k \in DOMAIN fs
      PROVE  Log!Lists(fs[k], Between(later, border[k + 1], border[k]), later)
  <2>1. border[k + 1] \in 0..top /\ border[k] \in 0..top
    BY <1>1 DEF Borders
  <2>2. \A p \in border[k + 1] + 1 .. border[k] : later[p] = log[p]
    BY <2>1
  <2>3. Between(later, border[k + 1], border[k]) = Between(log, border[k + 1], border[k])
    BY <2>2 DEF Between
  <2>4. \A p \in Between(log, border[k + 1], border[k]) : later[p] = log[p]
    BY <2>2 DEF Between
  <2>. QED
    BY <1>1, <2>3, <2>4, ListsStay DEF Borders
<1>. QED
  BY <1>1, <1>2 DEF Hold, Borders

(* An empty line is written nowhere.                                       *)
LEMMA EmptyLineSkipped ==
    ASSUME NEW S, NEW fs \in Seq(S), Len(fs) > 0, NEW top \in Nat, NEW log,
           log[top + 1].text = 0, Hold(fs, top, log)
    PROVE  Hold(fs, top + 1, log)
<1>1. PICK border : Borders(border, fs, top, log)
  BY DEF Hold
<1>. DEFINE moved == [k \in 1 .. Len(fs) + 1 |-> IF k = 1 THEN top + 1 ELSE border[k]]
<1>2. /\ Len(fs) \in Nat /\ DOMAIN fs = 1..Len(fs) /\ 1 \in DOMAIN fs
      /\ border \in [1 .. Len(fs) + 1 -> 0 .. top] /\ border[1] = top
  BY <1>1 DEF Borders
<1>3. /\ moved \in [1 .. Len(fs) + 1 -> 0 .. top + 1] /\ moved[1] = top + 1
      /\ \A k \in 2 .. Len(fs) + 1 : moved[k] = border[k]
  BY <1>2
<1>. HIDE DEF moved
<1>4. ASSUME NEW k \in DOMAIN fs
      PROVE  /\ moved[k + 1] <= moved[k]
             /\ Log!Lists(fs[k], Between(log, moved[k + 1], moved[k]), log)
  <2>1. /\ moved[k + 1] = border[k + 1] /\ border[k + 1] \in 0..top
        /\ border[k + 1] <= border[k]
        /\ Log!Lists(fs[k], Between(log, border[k + 1], border[k]), log)
    BY <1>1, <1>2, <1>3 DEF Borders
  <2>2. CASE k = 1
    <3>1. Between(log, border[2], top + 1) = Between(log, border[2], top)
      <4>1. border[2] + 1 .. top + 1 = (border[2] + 1 .. top) \cup {top + 1}
        BY <2>1, <2>2
      <4>. QED
        BY <4>1 DEF Between
    <3>. QED
      BY <1>2, <1>3, <2>1, <2>2, <3>1
  <2>3. CASE k # 1
    <3>1. moved[k] = border[k]
      BY <1>2, <1>3, <2>3
    <3>. QED
      BY <2>1, <3>1
  <2>. QED
    BY <2>2, <2>3
<1>. QED
  BY <1>3, <1>4 DEF Hold, Borders

(* A line that is not goes to the end of the file at 1.                    *)
LEMMA LineWritten ==
    ASSUME NEW S, NEW fs \in Seq(Seq(S)), Len(fs) > 0, NEW top \in Nat, NEW log,
           log[top + 1] \in S, log[top + 1].text > 0, Hold(fs, top, log)
    PROVE  Hold(Log!Written(fs, log[top + 1]), top + 1, log)
<1>1. PICK border : Borders(border, fs, top, log)
  BY DEF Hold
<1>. DEFINE moved == [k \in 1 .. Len(fs) + 1 |-> IF k = 1 THEN top + 1 ELSE border[k]]
            grown == Log!Written(fs, log[top + 1])
<1>2. /\ Len(fs) \in Nat /\ DOMAIN fs = 1..Len(fs) /\ 1 \in DOMAIN fs
      /\ border \in [1 .. Len(fs) + 1 -> 0 .. top] /\ border[1] = top
  BY <1>1 DEF Borders
<1>3. /\ moved \in [1 .. Len(fs) + 1 -> 0 .. top + 1] /\ moved[1] = top + 1
      /\ \A k \in 2 .. Len(fs) + 1 : moved[k] = border[k]
  BY <1>2
<1>g. /\ Len(grown) = Len(fs) /\ DOMAIN grown = DOMAIN fs
      /\ grown[1] = Append(fs[1], log[top + 1]) /\ fs[1] \in Seq(S)
      /\ \A k \in DOMAIN fs : k # 1 => grown[k] = fs[k]
  BY <1>2 DEF Log!Written
<1>. HIDE DEF moved, grown
<1>4. ASSUME NEW k \in DOMAIN fs
      PROVE  /\ moved[k + 1] <= moved[k]
             /\ Log!Lists(grown[k], Between(log, moved[k + 1], moved[k]), log)
  <2>1. /\ moved[k + 1] = border[k + 1] /\ border[k + 1] \in 0..top
        /\ border[k + 1] <= border[k]
        /\ Log!Lists(fs[k], Between(log, border[k + 1], border[k]), log)
    BY <1>1, <1>2, <1>3 DEF Borders
  <2>2. CASE k = 1
    <3>. DEFINE P == Between(log, border[2], top)
    <3>1. Between(log, border[2], top + 1) = P \cup {top + 1}
      <4>1. border[2] + 1 .. top + 1 = (border[2] + 1 .. top) \cup {top + 1}
        BY <2>1, <2>2
      <4>. QED
        BY <4>1 DEF Between
    <3>2. P \in SUBSET Int /\ \A p \in P : p < top + 1
      BY <2>1, <2>2 DEF Between
    <3>3. Log!Lists(fs[1], P, log)
      BY <1>2, <2>1, <2>2
    <3>. HIDE DEF P
    <3>4. Log!Lists(Append(fs[1], log[top + 1]), P \cup {top + 1}, log)
      <4>1. fs[1] \in Seq(S) /\ top + 1 \in Int /\ log[top + 1] \in S
        BY <1>g
      <4>. QED
        BY <3>2, <3>3, <4>1, ListsGrow, Zenon
    <3>5. moved[2] = border[2] /\ moved[1] = top + 1 /\ border[2] <= top + 1
      BY <1>2, <1>3, <2>1, <2>2
    <3>6. Log!Lists(grown[1], Between(log, moved[2], moved[1]), log)
      BY <1>g, <3>1, <3>4, <3>5, Zenon
    <3>. QED
      BY <2>2, <3>5, <3>6
  <2>3. CASE k # 1
    <3>1. moved[k] = border[k]
      BY <1>2, <1>3, <2>3
    <3>. QED
      BY <1>g, <2>1, <2>3, <3>1
  <2>. QED
    BY <2>2, <2>3
<1>. QED
  BY <1>3, <1>4, <1>g DEF Hold, Borders, grown

(* A rotation begins an empty file ...                                     *)
LEMMA FileBegun ==
    ASSUME NEW S, NEW fs \in Seq(S), NEW top \in Nat, NEW log, Hold(fs, top, log)
    PROVE  Hold(<<<<>>>> \o fs, top, log)
<1>1. PICK border : Borders(border, fs, top, log)
  BY DEF Hold
<1>. DEFINE moved == [k \in 1 .. Len(fs) + 2 |-> IF k = 1 THEN top ELSE border[k - 1]]
            more == <<<<>>>> \o fs
<1>2. /\ Len(fs) \in Nat /\ DOMAIN fs = 1..Len(fs)
      /\ border \in [1 .. Len(fs) + 1 -> 0 .. top] /\ border[1] = top
  BY <1>1 DEF Borders
<1>3. /\ moved \in [1 .. Len(fs) + 2 -> 0 .. top] /\ moved[1] = top
      /\ \A k \in 1 .. Len(fs) + 1 : moved[k + 1] = border[k]
  BY <1>2
<1>g. /\ Len(more) = Len(fs) + 1 /\ DOMAIN more = 1 .. Len(fs) + 1
      /\ more[1] = <<>> /\ \A k \in DOMAIN fs : more[k + 1] = fs[k]
  BY <1>2
<1>. HIDE DEF moved, more
<1>4. ASSUME NEW k \in DOMAIN more
      PROVE  /\ moved[k + 1] <= moved[k]
             /\ Log!Lists(more[k], Between(log, moved[k + 1], moved[k]), log)
  <2>1. CASE k = 1
    <3>1. moved[2] = top
      BY <1>2, <1>3
    <3>2. Between(log, top, top) = {}
      BY DEF Between
    <3>3. Log!Lists(more[1], Between(log, moved[2], moved[1]), log)
      BY <1>3, <1>g, <3>1, <3>2, ListsNothing, Zenon
    <3>. QED
      BY <1>3, <2>1, <3>1, <3>3
  <2>2. CASE k # 1
    <3>1. k - 1 \in DOMAIN fs /\ (k - 1) + 1 = k
      BY <1>2, <1>g, <2>2
    <3>2. more[k] = fs[k - 1] /\ moved[k] = border[k - 1] /\ moved[k + 1] = border[k]
      BY <1>2, <1>3, <1>g, <3>1
    <3>3. /\ border[k] <= border[k - 1]
          /\ Log!Lists(fs[k - 1], Between(log, border[k], border[k - 1]), log)
      BY <1>1, <3>1 DEF Borders
    <3>. QED
      BY <3>2, <3>3
  <2>. QED
    BY <2>1, <2>2
<1>5. Len(more) + 1 = Len(fs) + 2
  BY <1>2, <1>g
<1>. QED
  BY <1>3, <1>4, <1>5 DEF Hold, Borders, more

(* ... and may give up the oldest one, or all.                             *)
LEMMA OldestGone ==
    ASSUME NEW S, NEW fs \in Seq(S), Len(fs) > 0, NEW top \in Nat, NEW log, Hold(fs, top, log)
    PROVE  Hold(Log!Shorter(fs), top, log)
<1>1. PICK border : Borders(border, fs, top, log)
  BY DEF Hold
<1>. DEFINE moved == [k \in 1 .. Len(fs) |-> border[k]]
            less == Log!Shorter(fs)
<1>2. /\ Len(fs) \in Nat /\ DOMAIN fs = 1..Len(fs)
      /\ border \in [1 .. Len(fs) + 1 -> 0 .. top] /\ border[1] = top
  BY <1>1 DEF Borders
<1>3. moved \in [1 .. Len(fs) -> 0 .. top] /\ moved[1] = top
  BY <1>2
<1>g. /\ Len(less) = Len(fs) - 1 /\ DOMAIN less = 1 .. Len(fs) - 1
      /\ \A k \in DOMAIN less : less[k] = fs[k]
  BY <1>2 DEF Log!Shorter
<1>4. \A k \in DOMAIN less : k \in DOMAIN fs /\ moved[k] = border[k] /\ moved[k + 1] = border[k + 1]
  BY <1>2, <1>g
<1>. HIDE DEF moved, less
<1>5. ASSUME NEW k \in DOMAIN less
      PROVE  /\ moved[k + 1] <= moved[k]
             /\ Log!Lists(less[k], Between(log, moved[k + 1], moved[k]), log)
  BY <1>1, <1>4, <1>g DEF Borders
<1>6. Len(less) + 1 = Len(fs)
  BY <1>2, <1>g
<1>. QED
  BY <1>3, <1>5, <1>6 DEF Hold, Borders, less

LEMMA FileEmptied ==
    ASSUME NEW top \in Nat, NEW log
    PROVE  Hold(<<<<>>>>, top, log)
<1>. DEFINE border == [k \in 1..2 |-> top]
            one == <<<<>>>>
<1>1. Len(one) = 1 /\ DOMAIN one = {1} /\ one[1] = <<>> /\ Len(one) + 1 = 2
  OBVIOUS
<1>2. border \in [1..2 -> 0..top] /\ border[1] = top /\ border[2] = top
  OBVIOUS
<1>3. Between(log, top, top) = {}
  BY DEF Between
<1>. HIDE DEF border, one
<1>4. \A k \in DOMAIN one : /\ border[k + 1] <= border[k]
                            /\ Log!Lists(one[k], Between(log, border[k + 1], border[k]), log)
  <2>1. Log!Lists(one[1], Between(log, border[2], border[1]), log)
    BY <1>1, <1>2, <1>3, ListsNothing, Zenon
  <2>. QED
    BY <1>1, <1>2, <2>1
<1>. QED
  BY <1>1, <1>2, <1>4 DEF Hold, Borders, one

-----------------------------------------------------------------------------
(* What a sender made, what of it is on its way, and what the log has.     *)
Said(w, log) == {p \in DOMAIN log : log[p].from = w}

InOrder(w, own, coming, log) ==
    /\ Len(own) - Len(coming) >= 0
    /\ Log!Lists(SubSeq(own, 1, Len(own) - Len(coming)), Said(w, log), log)
    /\ \A i \in DOMAIN coming : coming[i] = own[Len(own) - Len(coming) + i]

LEMMA OrderMeans ==
    Log!SendersInOrder <=> \A w \in DOMAIN sent : InOrder(w, sent[w], Log!Coming(w), pushed)
BY DEF Log!SendersInOrder, InOrder, Said, Log!Through

LEMMA OrderLater ==
    Log!SendersInOrder' <=>
        \A w \in DOMAIN sent' : InOrder(w, sent'[w], Log!Coming(w)', pushed')
BY DEF Log!SendersInOrder, InOrder, Said, Log!Through

LEMMA GrownLog ==
    ASSUME NEW S, NEW log \in Seq(S), NEW l \in S
    PROVE  /\ Append(log, l) \in Seq(S) /\ DOMAIN log = 1..Len(log) /\ Len(log) \in Nat
           /\ DOMAIN Append(log, l) = DOMAIN log \cup {Len(log) + 1}
           /\ Append(log, l)[Len(log) + 1] = l
           /\ \A p \in DOMAIN log : Append(log, l)[p] = log[p] /\ p \in Int /\ p < Len(log) + 1
OBVIOUS

(* A line leaves its sender.                                               *)
LEMMA LineSent ==
    ASSUME NEW S, NEW w, NEW own \in Seq(S), NEW coming \in Seq(S), NEW log, NEW l \in S,
           InOrder(w, own, coming, log)
    PROVE  InOrder(w, Append(own, l), Append(coming, l), log)
<1>. DEFINE n == Len(own) - Len(coming)
            more == Append(own, l)
            way == Append(coming, l)
<1>1. /\ Len(own) \in Nat /\ Len(coming) \in Nat /\ n \in Nat
      /\ Len(more) = Len(own) + 1 /\ Len(way) = Len(coming) + 1
  BY DEF InOrder
<1>2. Len(more) - Len(way) = n
  BY <1>1
<1>3. SubSeq(more, 1, n) = SubSeq(own, 1, n)
  <2>1. \A i \in 1..n : more[i] = own[i]
    BY <1>1
  <2>2. n <= Len(own) /\ n <= Len(more) /\ more \in Seq(S)
    BY <1>1
  <2>3. /\ SubSeq(more, 1, n) = [i \in 1..n |-> more[i]]
        /\ SubSeq(own, 1, n) = [i \in 1..n |-> own[i]]
    BY <1>1, <2>2
  <2>. QED
    BY <2>1, <2>3
<1>4. ASSUME NEW i \in DOMAIN way
      PROVE  way[i] = more[n + i]
  <2>1. CASE i \in DOMAIN coming
    <3>1. coming[i] = own[n + i] /\ way[i] = coming[i]
      BY <2>1 DEF InOrder
    <3>2. n + i \in 1..Len(own)
      BY <1>1, <2>1
    <3>3. more[n + i] = own[n + i]
      BY <3>2
    <3>. QED
      BY <3>1, <3>3
  <2>2. CASE i = Len(coming) + 1
    BY <1>1, <2>2
  <2>. QED
    BY <1>1, <2>1, <2>2
<1>. HIDE DEF n, more, way
<1>5. Log!Lists(SubSeq(own, 1, n), Said(w, log), log)
  BY DEF InOrder, n
<1>6. /\ Len(more) - Len(way) >= 0
      /\ Log!Lists(SubSeq(more, 1, Len(more) - Len(way)), Said(w, log), log)
      /\ \A i \in DOMAIN way : way[i] = more[Len(more) - Len(way) + i]
  <2>1. n >= 0
    BY <1>1
  <2>. QED
    BY <1>2, <1>3, <1>4, <1>5, <2>1
<1>. QED
  BY <1>6 DEF InOrder, more, way

(* The log gets a line of somebody else ...                                *)
LEMMA OtherLine ==
    ASSUME NEW S, NEW w, NEW own, NEW coming, NEW log \in Seq(S), NEW l \in S,
           l.from # w, InOrder(w, own, coming, log)
    PROVE  InOrder(w, own, coming, Append(log, l))
<1>. DEFINE more == Append(log, l)
            s == SubSeq(own, 1, Len(own) - Len(coming))
<1>1. /\ DOMAIN more = DOMAIN log \cup {Len(log) + 1} /\ more[Len(log) + 1] = l
      /\ \A p \in DOMAIN log : more[p] = log[p]
  BY GrownLog
<1>. HIDE DEF more, s
<1>2. Said(w, more) = Said(w, log) /\ \A p \in Said(w, log) : more[p] = log[p]
  BY <1>1 DEF Said
<1>3. Log!Lists(s, Said(w, log), log)
  BY DEF InOrder, s
<1>4. Log!Lists(s, Said(w, more), more)
  BY <1>2, <1>3, ListsStay
<1>. QED
  BY <1>4 DEF InOrder, more, s

(* ... or the next of its own that is on its way.                          *)
LEMMA LineArrives ==
    ASSUME NEW S, NEW w, NEW own \in Seq(S), NEW coming \in Seq(S), NEW log \in Seq(S),
           coming # <<>>, Head(coming).from = w, InOrder(w, own, coming, log)
    PROVE  InOrder(w, own, Tail(coming), Append(log, Head(coming)))
<1>. DEFINE n == Len(own) - Len(coming)
            l == Head(coming)
            more == Append(log, l)
            last == Len(log) + 1
            P == Said(w, log)
            s == SubSeq(own, 1, n)
            way == Tail(coming)
<1>0. /\ Len(own) \in Nat /\ Len(coming) \in Nat \ {0} /\ n \in Nat /\ 1 \in DOMAIN coming
      /\ l = coming[1] /\ Len(way) = Len(coming) - 1 /\ l \in S /\ last \in Int
      /\ way \in Seq(S) /\ \A i \in DOMAIN way : i + 1 \in DOMAIN coming /\ way[i] = coming[i + 1]
  BY DEF InOrder
<1>1. /\ DOMAIN more = DOMAIN log \cup {last} /\ more[last] = l
      /\ \A p \in DOMAIN log : more[p] = log[p] /\ p \in Int /\ p < last
  BY <1>0, GrownLog
<1>2. /\ \A i \in DOMAIN coming : coming[i] = own[n + i]
      /\ Log!Lists(s, P, log)
  BY DEF InOrder
<1>3. n + 1 \in 1..Len(own) /\ own[n + 1] = l
  BY <1>0, <1>2
<1>4. SubSeq(own, 1, n + 1) = Append(s, l) /\ s \in Seq(S)
  BY <1>0, <1>3
<1>5. Len(own) - Len(way) = n + 1
  BY <1>0
<1>6. \A i \in DOMAIN way : way[i] = own[(n + 1) + i]
  <2>1. \A i \in DOMAIN way : i \in Int /\ n + (i + 1) = (n + 1) + i
    BY <1>0
  <2>. QED
    BY <1>0, <1>2, <2>1
<1>. HIDE DEF n, l, more, last, P, s, way
<1>7. Said(w, more) = P \cup {last} /\ P \subseteq DOMAIN log
  BY <1>1 DEF Said, P, l
<1>8. Log!Lists(s, P, more)
  BY <1>1, <1>2, <1>7, ListsStay
<1>9. Log!Lists(Append(s, more[last]), P \cup {last}, more)
  <2>1. P \in SUBSET Int /\ (\A p \in P : p < last) /\ more[last] \in S
    BY <1>0, <1>1, <1>7
  <2>. QED
    BY <1>0, <1>4, <1>8, <2>1, ListsGrow
<1>10. Log!Lists(SubSeq(own, 1, Len(own) - Len(way)), Said(w, more), more)
  BY <1>1, <1>4, <1>5, <1>7, <1>9
<1>. QED
  BY <1>0, <1>5, <1>6, <1>10 DEF InOrder, more, way, l

-----------------------------------------------------------------------------
(* The inductive invariant of the log.                                     *)
Senders == Children \cup {Log!Master}
Lines == [from : Senders, text : Nat]

LogTyped ==
    /\ logQueue_ \in Seq(Lines) /\ pushed \in Seq(Lines)
    /\ line \in Lines \cup {Log!NoLine}
    /\ files \in Seq(Seq(Lines)) /\ Len(files) > 0
    /\ maxFiles_ \in Nat /\ notifications \in Nat /\ atStop \in Nat /\ running_ \in BOOLEAN
    /\ sent \in [Senders -> Seq(Lines)]
    /\ wire \in [Children -> Seq(Lines)]
    /\ \A w \in Children : \A i \in DOMAIN wire[w] : wire[w][i].from = w

\* Nothing is pushed between the test and the sleep, which hold the mutex.
WriterInv ==
    /\ writer = "writes" <=> line # Log!NoLine
    /\ writer = "sleepy" => logQueue_ = <<>>
    /\ writer = "asleep" /\ logQueue_ # <<>> => notifications > 0

\* The writer ends with an empty queue; what comes later comes after Stop.
StopInv ==
    /\ atStop <= Len(pushed) /\ (running_ <=> stopper = "idle")
    /\ writer = "ended" => ~running_ /\ Len(logQueue_) <= Len(pushed) - atStop
    /\ stopper = "done" => writer = "ended"

\* The file that is written has room for a line.
FilesInv ==
    /\ Len(files) <= maxFiles_ + 1 /\ Len(files[1]) < maxFileSize_
    /\ \A i \in DOMAIN files : Len(files[i]) <= maxFileSize_

LogIInv == LogTyped /\ WriterInv /\ StopInv /\ FilesInv /\ Log!NoGap /\ Log!SendersInOrder

LEMMA LogSizes ==
    /\ Log!Master \notin Children /\ maxFileSize_ \in Nat \ {0} /\ FileCounts \subseteq Nat
BY LogAssumption DEF Log!LogConstants

LEMMA SameCardinality == ASSUME NEW S PROVE Log!Cardinality(S) = Cardinality(S)
BY DEF Log!Cardinality, Cardinality

LEMMA NoLineIsNone == ASSUME NEW l \in Lines PROVE l # Log!NoLine /\ l.text \in Nat
<1>1. l.text \in Nat /\ Log!NoLine.text = -1
  BY DEF Lines, Log!NoLine
<1>. QED
  BY <1>1

LEMMA TextsTyped ==
    ASSUME LogTyped, NEW w \in Senders
    PROVE  \A text \in Log!NextTexts(w) : [from |-> w, text |-> text] \in Lines
<1>. DEFINE T == {i \in DOMAIN sent[w] : sent[w][i].text > 0}
<1>1. sent[w] \in Seq(Lines) /\ DOMAIN sent[w] = 1..Len(sent[w]) /\ Len(sent[w]) \in Nat
  BY DEF LogTyped
<1>2. IsFiniteSet(1..Len(sent[w]))
  BY <1>1, FS_Interval
<1>3. IsFiniteSet(T)
  BY <1>1, <1>2, FS_Subset
<1>4. Log!Cardinality(T) \in Nat
  BY <1>3, FS_CardinalityType, SameCardinality
<1>. HIDE DEF T
<1>5. Log!NextTexts(w) = {0, Log!Cardinality(T) + 1}
  BY DEF Log!NextTexts, T
<1>. QED
  BY <1>4, <1>5 DEF Lines

LEMMA LogStart == Log!LogInit => LogIInv
<1>. SUFFICES ASSUME Log!LogInit PROVE LogIInv
  OBVIOUS
<1>0. /\ logQueue_ = <<>> /\ running_ = TRUE /\ writer = "loop" /\ line = Log!NoLine
      /\ files = <<<<>>>> /\ maxFiles_ \in Nat
      /\ notifications = 0 /\ stopper = "idle" /\ atStop = 0
      /\ wire = [w \in Children |-> <<>>]
      /\ pushed = <<>> /\ sent = [w \in Senders |-> <<>>]
  BY LogSizes DEF Log!LogInit, Senders
<1>1. LogTyped
  <2>1. <<>> \in Seq(Lines) /\ <<<<>>>> \in Seq(Seq(Lines)) /\ Len(<<<<>>>>) = 1
    OBVIOUS
  <2>2. \A w \in Children : DOMAIN wire[w] = {}
    BY <1>0
  <2>. QED
    BY <1>0, <2>1, <2>2 DEF LogTyped
<1>2. WriterInv /\ StopInv
  BY <1>0 DEF WriterInv, StopInv
<1>3. FilesInv
  <2>1. Len(files) = 1 /\ DOMAIN files = {1} /\ Len(files[1]) = 0
    BY <1>0
  <2>. QED
    BY <1>0, <2>1, LogSizes DEF FilesInv
<1>4. Log!NoGap
  <2>1. Log!Taken = 0 /\ Log!Finished = 0
    BY <1>0 DEF Log!Taken, Log!Finished
  <2>2. Log!QueueIsLatest
    BY <1>0, <2>1 DEF Log!QueueIsLatest
  <2>3. Hold(<<<<>>>>, 0, pushed)
    BY FileEmptied
  <2>. QED
    BY <1>0, <2>1, <2>2, <2>3, NoGapMeans
<1>5. Log!SendersInOrder
  <2>1. ASSUME NEW w \in Senders
        PROVE  InOrder(w, sent[w], Log!Coming(w), pushed)
    <3>1. sent[w] = <<>> /\ Log!Coming(w) = <<>> /\ pushed = <<>>
      BY <1>0 DEF Log!Coming, Senders
    <3>2. Said(w, pushed) = {}
      BY <3>1 DEF Said
    <3>3. Len(sent[w]) - Len(Log!Coming(w)) = 0 /\ DOMAIN Log!Coming(w) = {}
      BY <3>1
    <3>4. SubSeq(sent[w], 1, Len(sent[w]) - Len(Log!Coming(w))) = <<>>
      BY <3>1, <3>3
    <3>5. Log!Lists(<<>>, {}, pushed)
      BY ListsNothing
    <3>6. Len(sent[w]) - Len(Log!Coming(w)) >= 0
      BY <3>3
    <3>7. Log!Lists(SubSeq(sent[w], 1, Len(sent[w]) - Len(Log!Coming(w))), Said(w, pushed), pushed)
      BY <3>2, <3>4, <3>5, Zenon
    <3>. QED
      BY <3>3, <3>6, <3>7, Zenon DEF InOrder
  <2>. QED
    BY <1>0, <2>1, OrderMeans
<1>. QED
  BY <1>1, <1>2, <1>3, <1>4, <1>5 DEF LogIInv

-----------------------------------------------------------------------------
(* What each operation of the log changes.                                 *)
Pushes(l) ==
    /\ writer # "sleepy" /\ writer' = writer
    /\ logQueue_' = Append(logQueue_, l) /\ pushed' = Append(pushed, l)
    /\ notifications' = notifications + 1
    /\ UNCHANGED <<running_, maxFiles_, line, files, stopper, atStop>>

Takes ==
    /\ writer = "tests" /\ writer' = "writes" /\ logQueue_ # <<>>
    /\ logQueue_' = Tail(logQueue_) /\ line' = Head(logQueue_)
    /\ UNCHANGED <<notifications, running_, maxFiles_, files, stopper, atStop, pushed>>

Writes ==
    /\ Log!Write
    /\ UNCHANGED <<notifications, running_, maxFiles_, logQueue_, stopper, atStop, pushed>>

Moves ==
    /\ UNCHANGED <<logQueue_, pushed, line, files, maxFiles_>>
    /\ \/ writer' = "asleep" /\ writer = "sleepy"
          /\ UNCHANGED <<notifications, running_, stopper, atStop>>
       \/ writer' = "tests" /\ writer = "loop"
          /\ UNCHANGED <<notifications, running_, stopper, atStop>>
       \/ writer' = "sleepy" /\ writer = "tests" /\ logQueue_ = <<>>
          /\ UNCHANGED <<notifications, running_, stopper, atStop>>
       \/ writer' = "ended" /\ writer \in {"loop", "tests"} /\ logQueue_ = <<>> /\ ~running_
          /\ UNCHANGED <<notifications, running_, stopper, atStop>>
       \/ writer' = Log!Awake /\ notifications > 0 /\ notifications' = notifications - 1
          /\ UNCHANGED <<running_, stopper, atStop>>
       \/ writer' = Log!Awake /\ stopper = "flagged" /\ stopper' = "joining"
          /\ UNCHANGED <<notifications, running_, atStop>>
       \/ writer' = writer /\ stopper = "idle" /\ stopper' = "flagged" /\ running_' = FALSE
          /\ atStop' = Len(pushed) /\ UNCHANGED notifications
       \/ writer' = writer /\ writer = "ended" /\ stopper = "joining" /\ stopper' = "done"
          /\ UNCHANGED <<notifications, running_, atStop>>
       \/ UNCHANGED <<writer, notifications, running_, stopper, atStop>>

(* The senders' side.                                                      *)
Talk ==
    \/ \E text \in Log!NextTexts(Log!Master) :
          LET l == [from |-> Log!Master, text |-> text]
          IN /\ Pushes(l) /\ UNCHANGED wire
             /\ sent' = [sent EXCEPT ![Log!Master] = Append(@, l)]
    \/ \E w \in Children :
          /\ wire[w] # <<>> /\ Pushes(Head(wire[w]))
          /\ wire' = [wire EXCEPT ![w] = Tail(@)] /\ UNCHANGED sent
    \/ \E w \in Children : \E text \in Log!NextTexts(w) :
          LET l == [from |-> w, text |-> text]
          IN /\ Moves /\ UNCHANGED pushed
             /\ wire' = [wire EXCEPT ![w] = Append(@, l)]
             /\ sent' = [sent EXCEPT ![w] = Append(@, l)]
    \/ (Takes \/ Writes \/ Moves) /\ UNCHANGED <<sent, wire, pushed>>

LEMMA WhatHappens == [Log!LogNext]_logVars => Talk
<1>. SUFFICES ASSUME [Log!LogNext]_logVars PROVE Talk
  OBVIOUS
<1>1. CASE UNCHANGED logVars
  BY <1>1 DEF logVars, Talk, Moves
<1>2. CASE \E text \in Log!NextTexts(Log!Master) : Log!MasterLogs(text)
  BY <1>2 DEF Log!MasterLogs, Log!EnqueueLog, Log!MutexFree, Talk, Pushes
<1>3. ASSUME NEW w \in Children, Log!Connect(w) \/ Log!AcceptLoop(w)
      PROVE  Talk
  BY <1>3 DEF Log!Connect, Log!AcceptLoop, Talk, Moves
<1>4. ASSUME NEW w \in Children, Log!ReadLine(w)
      PROVE  Talk
  BY <1>4 DEF Log!ReadLine, Log!EnqueueLog, Log!MutexFree, Talk, Pushes
<1>5. ASSUME NEW w \in Children, NEW text \in Log!NextTexts(w), Log!WorkerLogs(w, text)
      PROVE  Talk
  BY <1>5 DEF Log!WorkerLogs, Talk, Moves
<1>6. CASE Log!Notify
  BY <1>6 DEF Log!Notify, Talk, Moves
<1>7. CASE Log!WriterLoop
  BY <1>7 DEF Log!WriterLoop, Log!WriterStep, Talk, Moves
<1>8. CASE Log!Test
  BY <1>8 DEF Log!Test, Log!WriterStep, Talk, Moves, Takes
<1>9. CASE Log!Sleep
  BY <1>9 DEF Log!Sleep, Log!WriterStep, Talk, Moves
<1>10. CASE Log!Write
  BY <1>10 DEF Log!Write, Log!WriterStep, Talk, Writes
<1>11. CASE Log!StopFlag \/ Log!StopNotify \/ Log!StopJoin
  BY <1>11 DEF Log!StopFlag, Log!StopNotify, Log!StopJoin, Log!Stopping, Talk, Moves
<1>. QED
  BY <1>1, <1>2, <1>3, <1>4, <1>5, <1>6, <1>7, <1>8, <1>9, <1>10, <1>11 DEF Log!LogNext

-----------------------------------------------------------------------------
(* Each part of the invariant, kept by each kind of step.                  *)
LEMMA NextLines ==
    ASSUME LogTyped, NEW w \in Children, wire[w] # <<>>
    PROVE  /\ Head(wire[w]) \in Lines /\ Head(wire[w]).from = w /\ wire[w] \in Seq(Lines)
           /\ Tail(wire[w]) \in Seq(Lines)
           /\ \A i \in DOMAIN Tail(wire[w]) : Tail(wire[w])[i].from = w
<1>. DEFINE s == wire[w]
<1>1. s \in Seq(Lines) /\ \A i \in DOMAIN s : s[i].from = w
  BY DEF LogTyped
<1>. HIDE DEF s
<1>2. /\ s # <<>> => /\ Head(s) \in Lines /\ Head(s) = s[1] /\ 1 \in DOMAIN s
                     /\ Tail(s) \in Seq(Lines)
                     /\ \A i \in DOMAIN Tail(s) : i + 1 \in DOMAIN s /\ Tail(s)[i] = s[i + 1]
  BY <1>1
<1>. QED
  BY <1>1, <1>2 DEF s

LEMMA PushTyped ==
    ASSUME LogTyped, NEW l \in Lines, Pushes(l)
    PROVE  /\ logQueue_' \in Seq(Lines) /\ pushed' \in Seq(Lines)
           /\ line' \in Lines \cup {Log!NoLine}
           /\ files' \in Seq(Seq(Lines)) /\ Len(files') > 0
           /\ maxFiles_' \in Nat /\ notifications' \in Nat /\ atStop' \in Nat
           /\ running_' \in BOOLEAN
BY DEF LogTyped, Pushes

LEMMA MoveTyped ==
    ASSUME LogTyped, Moves
    PROVE  /\ logQueue_' \in Seq(Lines) /\ pushed' \in Seq(Lines)
           /\ line' \in Lines \cup {Log!NoLine}
           /\ files' \in Seq(Seq(Lines)) /\ Len(files') > 0
           /\ maxFiles_' \in Nat /\ notifications' \in Nat /\ atStop' \in Nat
           /\ running_' \in BOOLEAN
<1>1. Len(pushed) \in Nat
  BY DEF LogTyped
<1>2. notifications' \in Nat
  <2>1. \/ notifications' = notifications
        \/ notifications' = notifications - 1 /\ notifications > 0
    BY DEF Moves
  <2>. QED
    BY <2>1 DEF LogTyped
<1>3. atStop' \in Nat /\ running_' \in BOOLEAN
  <2>1. atStop' \in {atStop, Len(pushed)} /\ running_' \in {running_, FALSE}
    BY DEF Moves
  <2>. QED
    BY <1>1, <2>1 DEF LogTyped
<1>. QED
  BY <1>2, <1>3 DEF LogTyped, Moves

LEMMA WrittenTyped ==
    ASSUME NEW S, NEW fs \in Seq(Seq(S)), Len(fs) > 0, NEW l \in S
    PROVE  /\ Log!Written(fs, l) \in Seq(Seq(S)) /\ Len(Log!Written(fs, l)) = Len(fs)
           /\ Log!Written(fs, l)[1] = Append(fs[1], l) /\ fs[1] \in Seq(S)
           /\ \A i \in DOMAIN fs : i # 1 => Log!Written(fs, l)[i] = fs[i]
<1>1. fs[1] \in Seq(S) /\ DOMAIN fs = 1..Len(fs) /\ Len(fs) \in Nat
  OBVIOUS
<1>2. Append(fs[1], l) \in Seq(S)
  BY <1>1
<1>. DEFINE more == Append(fs[1], l)
<1>3. Log!Written(fs, l) = [fs EXCEPT ![1] = more]
  BY DEF Log!Written, more
<1>. HIDE DEF more
<1>4. /\ [fs EXCEPT ![1] = more] \in Seq(Seq(S)) /\ Len([fs EXCEPT ![1] = more]) = Len(fs)
      /\ [fs EXCEPT ![1] = more][1] = more
      /\ \A i \in DOMAIN fs : i # 1 => [fs EXCEPT ![1] = more][i] = fs[i]
  BY <1>1, <1>2 DEF more
<1>. QED
  BY <1>1, <1>3, <1>4 DEF more

LEMMA RotatedTyped ==
    ASSUME NEW S, NEW fs \in Seq(Seq(S)), Len(fs) > 0, maxFiles_ \in Nat
    PROVE  /\ Log!Rotated(fs) \in Seq(Seq(S)) /\ Len(Log!Rotated(fs)) > 0
           /\ Log!Rotated(fs)[1] = <<>>
           /\ Len(fs) <= maxFiles_ + 1 => Len(Log!Rotated(fs)) <= maxFiles_ + 1
           /\ \A i \in 2..Len(Log!Rotated(fs)) : i - 1 \in DOMAIN fs /\ Log!Rotated(fs)[i] = fs[i - 1]
<1>1. /\ fs[1] \in Seq(S) /\ DOMAIN fs = 1..Len(fs) /\ Len(fs) \in Nat
  OBVIOUS
<1>3. ASSUME NEW gs \in Seq(Seq(S)), NEW n \in Nat, Len(gs) <= n, Len(gs) <= Len(fs),
             \A i \in DOMAIN gs : gs[i] = fs[i]
      PROVE  /\ <<<<>>>> \o gs \in Seq(Seq(S)) /\ Len(<<<<>>>> \o gs) > 0
             /\ (<<<<>>>> \o gs)[1] = <<>> /\ Len(<<<<>>>> \o gs) <= n + 1
             /\ \A i \in 2..Len(<<<<>>>> \o gs) :
                   i - 1 \in DOMAIN fs /\ (<<<<>>>> \o gs)[i] = fs[i - 1]
  <2>1. <<<<>>>> \in Seq(Seq(S)) /\ Len(<<<<>>>>) = 1
    OBVIOUS
  <2>2. /\ <<<<>>>> \o gs \in Seq(Seq(S)) /\ Len(<<<<>>>> \o gs) = Len(gs) + 1
        /\ (<<<<>>>> \o gs)[1] = <<>> /\ Len(gs) \in Nat
    BY <2>1
  <2>3. ASSUME NEW i \in 2..(Len(gs) + 1)
        PROVE  i - 1 \in DOMAIN gs /\ (<<<<>>>> \o gs)[i] = gs[i - 1]
    BY <2>1, <2>2
  <2>4. \A i \in DOMAIN gs : i \in DOMAIN fs
    BY <1>1, <1>3, <2>2
  <2>. QED
    BY <1>3, <2>2, <2>3, <2>4
<1>4. CASE maxFiles_ > 1 /\ Len(fs) > maxFiles_
  <2>. DEFINE gs == Log!Shorter(fs)
              n == Len(fs) - 1
  <2>1. gs \in Seq(Seq(S)) /\ Len(gs) = n /\ \A i \in DOMAIN gs : gs[i] = fs[i]
    BY <1>1 DEF Log!Shorter
  <2>2. Log!Rotated(fs) = <<<<>>>> \o gs
    BY <1>4 DEF Log!Rotated
  <2>3. n \in Nat /\ Len(gs) <= n /\ Len(gs) <= Len(fs) /\ n + 1 = Len(fs)
    BY <1>1, <2>1
  <2>. HIDE DEF n, gs
  <2>4. /\ Log!Rotated(fs) \in Seq(Seq(S)) /\ Len(Log!Rotated(fs)) > 0
        /\ Log!Rotated(fs)[1] = <<>> /\ Len(Log!Rotated(fs)) <= n + 1
        /\ \A i \in 2..Len(Log!Rotated(fs)) :
              i - 1 \in DOMAIN fs /\ Log!Rotated(fs)[i] = fs[i - 1]
    <3>1. /\ <<<<>>>> \o gs \in Seq(Seq(S)) /\ Len(<<<<>>>> \o gs) > 0
          /\ (<<<<>>>> \o gs)[1] = <<>> /\ Len(<<<<>>>> \o gs) <= n + 1
          /\ \A i \in 2..Len(<<<<>>>> \o gs) :
                i - 1 \in DOMAIN fs /\ (<<<<>>>> \o gs)[i] = fs[i - 1]
      BY <1>3, <2>1, <2>3
    <3>. QED
      BY <2>2, <3>1, Zenon
  <2>5. Len(fs) <= maxFiles_ + 1 => Len(Log!Rotated(fs)) <= maxFiles_ + 1
    BY <1>1, <2>3, <2>4
  <2>. QED
    BY <2>4, <2>5
<1>5. CASE maxFiles_ > 1 /\ ~(Len(fs) > maxFiles_)
  <2>1. Log!Rotated(fs) = <<<<>>>> \o fs
    BY <1>5 DEF Log!Rotated
  <2>2. Len(fs) <= maxFiles_
    BY <1>1, <1>5
  <2>. QED
    BY <1>1, <1>3, <2>1, <2>2
<1>6. CASE ~(maxFiles_ > 1)
  <2>1. Log!Rotated(fs) = <<<<>>>> /\ Len(<<<<>>>>) = 1 /\ <<<<>>>>[1] = <<>>
        /\ <<<<>>>> \in Seq(Seq(S))
    BY <1>6 DEF Log!Rotated
  <2>. QED
    BY <2>1
<1>. QED
  BY <1>4, <1>5, <1>6

LEMMA WritesWhat ==
    ASSUME LogTyped, WriterInv, Writes
    PROVE  /\ line \in Lines /\ line # Log!NoLine /\ line' = Log!NoLine
           /\ writer = "writes" /\ writer' = "loop"
           /\ \/ line.text = 0 /\ files' = files
              \/ /\ line.text > 0 /\ files' = Log!Rotated(Log!Written(files, line))
              \/ /\ line.text > 0 /\ files' = Log!Written(files, line)
                 /\ Len(Log!Written(files, line)[1]) < maxFileSize_
<1>1. writer = "writes" /\ line # Log!NoLine /\ line \in Lines
  BY DEF Writes, Log!Write, WriterInv, LogTyped
<1>2. line.text \in Nat
  BY <1>1 DEF Lines
<1>3. Len(Log!Written(files, line)[1]) \in Nat
  <2>1. Log!Written(files, line)[1] = Append(files[1], line) /\ files[1] \in Seq(Lines)
    <3>1. files \in Seq(Seq(Lines)) /\ Len(files) > 0
      BY DEF LogTyped
    <3>. QED
      BY <1>1, <3>1, WrittenTyped
  <2>. QED
    BY <1>1, <2>1
<1>. QED
  BY <1>1, <1>2, <1>3, LogSizes DEF Writes, Log!Write

LEMMA TalkTyped ==
    ASSUME LogTyped, WriterInv, Talk
    PROVE  LogTyped'
<1>1. /\ sent \in [Senders -> Seq(Lines)] /\ wire \in [Children -> Seq(Lines)]
      /\ \A w \in Children : \A i \in DOMAIN wire[w] : wire[w][i].from = w
  BY DEF LogTyped
<1>2. ASSUME NEW text \in Log!NextTexts(Log!Master),
             Pushes([from |-> Log!Master, text |-> text]), UNCHANGED wire,
             sent' = [sent EXCEPT ![Log!Master] = Append(@, [from |-> Log!Master, text |-> text])]
      PROVE  LogTyped'
  <2>1. [from |-> Log!Master, text |-> text] \in Lines /\ Log!Master \in Senders
    BY TextsTyped DEF Senders
  <2>2. sent' \in [Senders -> Seq(Lines)]
    <3>1. Append(sent[Log!Master], [from |-> Log!Master, text |-> text]) \in Seq(Lines)
      BY <1>1, <2>1
    <3>. QED
      BY <1>1, <1>2, <3>1
  <2>. QED
    BY <1>1, <1>2, <2>1, <2>2, PushTyped DEF LogTyped
<1>3. ASSUME NEW w \in Children, wire[w] # <<>>, Pushes(Head(wire[w])),
             wire' = [wire EXCEPT ![w] = Tail(@)], UNCHANGED sent
      PROVE  LogTyped'
  <2>1. wire' \in [Children -> Seq(Lines)]
    BY <1>1, <1>3, NextLines
  <2>2. ASSUME NEW u \in Children
        PROVE  \A i \in DOMAIN wire'[u] : wire'[u][i].from = u
    <3>1. CASE u = w
      BY <1>1, <1>3, <3>1, NextLines
    <3>2. CASE u # w
      BY <1>1, <1>3, <3>2
    <3>. QED
      BY <3>1, <3>2
  <2>. QED
    BY <1>1, <1>3, <2>1, <2>2, NextLines, PushTyped DEF LogTyped
<1>4. ASSUME NEW w \in Children, NEW text \in Log!NextTexts(w), Moves, UNCHANGED pushed,
             wire' = [wire EXCEPT ![w] = Append(@, [from |-> w, text |-> text])],
             sent' = [sent EXCEPT ![w] = Append(@, [from |-> w, text |-> text])]
      PROVE  LogTyped'
  <2>. DEFINE l == [from |-> w, text |-> text]
  <2>1. l \in Lines /\ l.from = w /\ w \in Senders
    BY TextsTyped DEF Senders
  <2>. HIDE DEF l
  <2>2. Append(sent[w], l) \in Seq(Lines) /\ Append(wire[w], l) \in Seq(Lines)
    BY <1>1, <2>1
  <2>3. sent' \in [Senders -> Seq(Lines)] /\ wire' \in [Children -> Seq(Lines)]
    BY <1>1, <1>4, <2>1, <2>2 DEF l
  <2>4. ASSUME NEW u \in Children
        PROVE  \A i \in DOMAIN wire'[u] : wire'[u][i].from = u
    <3>1. CASE u = w
      <4>1. \A i \in DOMAIN Append(wire[w], l) :
               (Append(wire[w], l)[i] = wire[w][i] /\ i \in DOMAIN wire[w]) \/ Append(wire[w], l)[i] = l
        BY <1>1
      <4>2. wire'[u] = Append(wire[w], l)
        BY <1>1, <1>4, <3>1 DEF l
      <4>. QED
        BY <1>1, <2>1, <3>1, <4>1, <4>2
    <3>2. CASE u # w
      BY <1>1, <1>4, <3>2
    <3>. QED
      BY <3>1, <3>2
  <2>. QED
    BY <1>4, <2>3, <2>4, MoveTyped DEF LogTyped
<1>5. CASE (Takes \/ Writes \/ Moves) /\ UNCHANGED <<sent, wire, pushed>>
  <2>1. CASE Takes
    <3>1. Head(logQueue_) \in Lines /\ Tail(logQueue_) \in Seq(Lines)
      BY <2>1 DEF LogTyped, Takes
    <3>. QED
      BY <1>5, <2>1, <3>1 DEF LogTyped, Takes
  <2>2. CASE Writes
    <3>1. line \in Lines /\ files \in Seq(Seq(Lines)) /\ Len(files) > 0 /\ maxFiles_ \in Nat
      BY <2>2, WritesWhat DEF LogTyped
    <3>. DEFINE grown == Log!Written(files, line)
    <3>2. grown \in Seq(Seq(Lines)) /\ Len(grown) > 0
      BY <3>1, WrittenTyped
    <3>3. Log!Rotated(grown) \in Seq(Seq(Lines)) /\ Len(Log!Rotated(grown)) > 0
      BY <3>1, <3>2, RotatedTyped
    <3>. HIDE DEF grown
    <3>4. files' \in {files, grown, Log!Rotated(grown)}
      BY <2>2, WritesWhat DEF grown
    <3>5. files' \in Seq(Seq(Lines)) /\ Len(files') > 0
      BY <3>1, <3>2, <3>3, <3>4
    <3>6. line' = Log!NoLine
      BY <2>2, WritesWhat
    <3>. QED
      BY <1>5, <2>2, <3>5, <3>6 DEF LogTyped, Writes
  <2>3. CASE Moves
    BY <1>1, <1>5, <2>3, MoveTyped DEF LogTyped
  <2>. QED
    BY <1>5, <2>1, <2>2, <2>3
<1>. QED
  BY <1>2, <1>3, <1>4, <1>5 DEF Talk

(* Whoever talks, the writer and Stop see one of four things.              *)
LEMMA TalkKinds ==
    ASSUME LogTyped, Talk
    PROVE  (\E l \in Lines : Pushes(l)) \/ ((Takes \/ Writes \/ Moves) /\ UNCHANGED pushed)
<1>1. Log!Master \in Senders
  BY DEF Senders
<1>. QED
  BY <1>1, TextsTyped, NextLines DEF Talk

LEMMA WriterKept ==
    ASSUME LogTyped, WriterInv, Talk
    PROVE  WriterInv'
<1>1. ASSUME NEW l \in Lines, Pushes(l)
      PROVE  WriterInv'
  <2>1. notifications' > 0
    BY <1>1 DEF Pushes, LogTyped
  <2>. QED
    BY <1>1, <2>1 DEF Pushes, WriterInv
<1>2. CASE Takes
  <2>1. line' # Log!NoLine
    <3>1. Head(logQueue_) \in Lines
      BY <1>2 DEF Takes, LogTyped
    <3>. QED
      BY <1>2, <3>1, NoLineIsNone DEF Takes
  <2>. QED
    BY <1>2, <2>1 DEF Takes, WriterInv
<1>3. CASE Writes
  BY <1>3, WritesWhat DEF WriterInv
<1>4. CASE Moves
  BY <1>4 DEF Moves, WriterInv, Log!Awake
<1>. QED
  BY <1>1, <1>2, <1>3, <1>4, TalkKinds

LEMMA StopKept ==
    ASSUME LogTyped, WriterInv, StopInv, Talk
    PROVE  StopInv'
<1>0. Len(pushed) \in Nat /\ Len(logQueue_) \in Nat /\ atStop \in Nat
      /\ (logQueue_ = <<>> => Len(logQueue_) = 0)
  BY DEF LogTyped
<1>1. ASSUME NEW l \in Lines, Pushes(l)
      PROVE  StopInv'
  <2>1. Len(pushed') = Len(pushed) + 1 /\ Len(logQueue_') = Len(logQueue_) + 1
    BY <1>1 DEF Pushes, LogTyped
  <2>. QED
    BY <1>0, <1>1, <2>1 DEF Pushes, StopInv
<1>2. CASE Takes /\ UNCHANGED pushed
  BY <1>2 DEF Takes, StopInv
<1>3. CASE Writes /\ UNCHANGED pushed
  BY <1>3, WritesWhat DEF Writes, StopInv
<1>4. CASE Moves /\ UNCHANGED pushed
  BY <1>0, <1>4 DEF Moves, StopInv, Log!Awake
<1>. QED
  BY <1>1, <1>2, <1>3, <1>4, TalkKinds

LEMMA FilesKept ==
    ASSUME LogTyped, WriterInv, FilesInv, Talk
    PROVE  FilesInv'
<1>0. maxFileSize_ \in Nat \ {0} /\ maxFiles_ \in Nat
  BY LogSizes DEF LogTyped
<1>1. CASE UNCHANGED <<files, maxFiles_>>
  BY <1>1 DEF FilesInv
<1>2. CASE Writes
  <2>. DEFINE grown == Log!Written(files, line)
  <2>1. line \in Lines /\ files \in Seq(Seq(Lines)) /\ Len(files) > 0 /\ maxFiles_' = maxFiles_
    BY <1>2, WritesWhat DEF LogTyped, Writes
  <2>2. /\ grown \in Seq(Seq(Lines)) /\ Len(grown) = Len(files)
        /\ grown[1] = Append(files[1], line)
        /\ \A i \in DOMAIN files : i # 1 => grown[i] = files[i]
    BY <2>1, WrittenTyped
  <2>3. /\ Log!Rotated(grown)[1] = <<>> /\ Len(Log!Rotated(grown)) > 0
        /\ Log!Rotated(grown) \in Seq(Seq(Lines))
        /\ Len(grown) <= maxFiles_ + 1 => Len(Log!Rotated(grown)) <= maxFiles_ + 1
        /\ \A i \in 2..Len(Log!Rotated(grown)) :
              i - 1 \in DOMAIN grown /\ Log!Rotated(grown)[i] = grown[i - 1]
    BY <1>0, <2>1, <2>2, RotatedTyped
  <2>. HIDE DEF grown
  <2>4. \A i \in DOMAIN grown : Len(grown[i]) <= maxFileSize_
    <3>1. /\ DOMAIN grown = DOMAIN files /\ files[1] \in Seq(Lines) /\ Len(files[1]) \in Nat
          /\ Len(grown[1]) = Len(files[1]) + 1
      BY <2>1, <2>2
    <3>2. Len(grown[1]) <= maxFileSize_
      BY <1>0, <3>1 DEF FilesInv
    <3>. QED
      BY <2>2, <3>1, <3>2 DEF FilesInv
  <2>5. CASE files' = Log!Rotated(grown)
    <3>1. Len(files'[1]) < maxFileSize_ /\ Len(files'[1]) <= maxFileSize_
      BY <1>0, <2>3, <2>5
    <3>2. \A i \in DOMAIN files' : i = 1 \/ i \in 2..Len(files')
      BY <2>3, <2>5
    <3>3. \A i \in DOMAIN files' : Len(files'[i]) <= maxFileSize_
      BY <2>3, <2>4, <2>5, <3>1, <3>2
    <3>. QED
      BY <2>1, <2>2, <2>3, <2>5, <3>1, <3>3 DEF FilesInv
  <2>6. CASE files' = grown /\ Len(grown[1]) < maxFileSize_
    BY <2>1, <2>2, <2>4, <2>6 DEF FilesInv
  <2>7. CASE files' = files
    BY <2>1, <2>7 DEF FilesInv
  <2>. QED
    BY <1>2, <2>5, <2>6, <2>7, WritesWhat DEF grown
<1>. QED
  BY <1>1, <1>2, TalkKinds DEF Pushes, Takes, Moves

LEMMA RotatedHolds ==
    ASSUME NEW S, NEW fs \in Seq(Seq(S)), Len(fs) > 0, NEW top \in Nat, NEW log,
           Hold(fs, top, log), maxFiles_ \in Nat
    PROVE  Hold(Log!Rotated(fs), top, log)
<1>1. CASE maxFiles_ > 1 /\ Len(fs) > maxFiles_
  <2>1. Log!Rotated(fs) = <<<<>>>> \o Log!Shorter(fs)
    BY <1>1 DEF Log!Rotated
  <2>2. Hold(Log!Shorter(fs), top, log)
    BY OldestGone
  <2>3. Log!Shorter(fs) \in Seq(Seq(S))
    BY DEF Log!Shorter
  <2>4. Hold(<<<<>>>> \o Log!Shorter(fs), top, log)
    BY <2>2, <2>3, FileBegun
  <2>. QED
    BY <2>1, <2>4, Zenon
<1>2. CASE maxFiles_ > 1 /\ ~(Len(fs) > maxFiles_)
  <2>1. Log!Rotated(fs) = <<<<>>>> \o fs
    BY <1>2 DEF Log!Rotated
  <2>2. Hold(<<<<>>>> \o fs, top, log)
    BY FileBegun
  <2>. QED
    BY <2>1, <2>2, Zenon
<1>3. CASE ~(maxFiles_ > 1)
  <2>1. Log!Rotated(fs) = <<<<>>>>
    BY <1>3 DEF Log!Rotated
  <2>2. Hold(<<<<>>>>, top, log)
    BY FileEmptied
  <2>. QED
    BY <2>1, <2>2, Zenon
<1>. QED
  BY <1>1, <1>2, <1>3

LEMMA GapKept ==
    ASSUME LogTyped, WriterInv, Log!NoGap, Talk
    PROVE  Log!NoGap'
<1>. DEFINE T == Log!Taken
            F == Log!Finished
<1>0. /\ T >= 0 /\ \A i \in DOMAIN logQueue_ : logQueue_[i] = pushed[T + i]
      /\ line # Log!NoLine => T > 0 /\ line = pushed[T]
      /\ Hold(files, F, pushed)
  BY NoGapMeans DEF Log!QueueIsLatest
<1>1. /\ Len(pushed) \in Nat /\ Len(logQueue_) \in Nat /\ T = Len(pushed) - Len(logQueue_)
      /\ DOMAIN logQueue_ = 1..Len(logQueue_) /\ DOMAIN pushed = 1..Len(pushed)
  BY DEF LogTyped, Log!Taken
<1>2. F = IF line = Log!NoLine THEN T ELSE T - 1
  BY DEF Log!Finished
<1>3. T \in Nat /\ F \in Nat /\ F <= T /\ T <= Len(pushed)
  BY <1>0, <1>1, <1>2
<1>4. files \in Seq(Seq(Lines)) /\ Len(files) > 0 /\ maxFiles_ \in Nat
  BY DEF LogTyped
<1>. HIDE DEF T, F
<1>5. ASSUME NEW l \in Lines, Pushes(l)
      PROVE  Log!NoGap'
  <2>1. /\ \A p \in DOMAIN pushed : pushed'[p] = pushed[p]
        /\ pushed'[Len(pushed) + 1] = l /\ Len(pushed') = Len(pushed) + 1
        /\ Len(logQueue_') = Len(logQueue_) + 1 /\ DOMAIN logQueue_' = 1..(Len(logQueue_) + 1)
        /\ logQueue_'[Len(logQueue_) + 1] = l
        /\ \A i \in DOMAIN logQueue_ : logQueue_'[i] = logQueue_[i]
    BY <1>5 DEF Pushes, LogTyped
  <2>2. Log!Taken' = T
    BY <1>1, <2>1 DEF Log!Taken
  <2>3. Log!Finished' = F
    BY <1>2, <1>5, <2>2 DEF Log!Finished, Pushes
  <2>4. ASSUME NEW i \in DOMAIN logQueue_'
        PROVE  logQueue_'[i] = pushed'[T + i]
    <3>1. CASE i \in DOMAIN logQueue_
      <4>1. T + i \in DOMAIN pushed
        BY <1>1, <1>3, <3>1
      <4>. QED
        BY <1>0, <2>1, <3>1, <4>1
    <3>2. CASE i = Len(logQueue_) + 1
      <4>1. T + i = Len(pushed) + 1
        BY <1>1, <3>2
      <4>. QED
        BY <2>1, <3>2, <4>1
    <3>. QED
      BY <1>1, <2>1, <3>1, <3>2
  <2>5. line' # Log!NoLine => T > 0 /\ line' = pushed'[T]
    <3>1. T > 0 => T \in DOMAIN pushed
      BY <1>1, <1>3
    <3>. QED
      BY <1>0, <1>5, <2>1, <3>1 DEF Pushes
  <2>6. Log!QueueIsLatest'
    BY <1>0, <2>2, <2>4, <2>5 DEF Log!QueueIsLatest
  <2>7. Hold(files, F, pushed')
    <3>1. \A p \in 1..F : pushed'[p] = pushed[p]
      BY <1>1, <1>3, <2>1
    <3>. QED
      BY <1>0, <1>3, <1>4, <3>1, PushedBehind
  <2>8. files' = files
    BY <1>5 DEF Pushes
  <2>. QED
    BY <2>3, <2>6, <2>7, <2>8, NoGapLater
<1>6. CASE Takes /\ UNCHANGED pushed
  <2>1. /\ line = Log!NoLine /\ F = T /\ logQueue_ # <<>>
        /\ logQueue_' = Tail(logQueue_) /\ line' = Head(logQueue_) /\ files' = files
    BY <1>2, <1>6 DEF Takes, WriterInv
  <2>2. /\ Len(logQueue_') = Len(logQueue_) - 1 /\ line' = logQueue_[1] /\ 1 \in DOMAIN logQueue_
        /\ line' \in Lines /\ DOMAIN logQueue_' \subseteq Int
        /\ \A i \in DOMAIN logQueue_' : i + 1 \in DOMAIN logQueue_ /\ logQueue_'[i] = logQueue_[i + 1]
    BY <2>1 DEF LogTyped
  <2>3. Log!Taken' = T + 1
    BY <1>1, <1>6, <2>2 DEF Log!Taken
  <2>4. line' # Log!NoLine /\ Log!Finished' = T
    BY <1>3, <2>2, <2>3, NoLineIsNone DEF Log!Finished
  <2>5. \A i \in DOMAIN logQueue_' : logQueue_'[i] = pushed[(T + 1) + i]
    <3>1. \A i \in DOMAIN logQueue_' : T + (i + 1) = (T + 1) + i
      BY <1>1, <1>3, <2>2
    <3>. QED
      BY <1>0, <2>2, <3>1
  <2>6. T + 1 > 0 /\ T + 1 >= 0 /\ line' = pushed[T + 1]
    BY <1>0, <1>3, <2>2
  <2>7. Log!QueueIsLatest'
    BY <1>6, <2>3, <2>5, <2>6 DEF Log!QueueIsLatest
  <2>. QED
    BY <1>0, <1>6, <2>1, <2>4, <2>7, NoGapLater
<1>7. CASE Writes /\ UNCHANGED pushed
  <2>1. line \in Lines /\ line # Log!NoLine /\ line' = Log!NoLine /\ UNCHANGED <<logQueue_, pushed>>
    BY <1>7, WritesWhat DEF Writes
  <2>2. Log!Taken' = T
    BY <2>1 DEF Log!Taken, T
  <2>3. F + 1 = T /\ Log!Finished' = F + 1
    BY <1>2, <1>3, <2>1, <2>2 DEF Log!Finished
  <2>4. Log!QueueIsLatest'
    BY <1>0, <2>1, <2>2 DEF Log!QueueIsLatest
  <2>5. pushed[F + 1] = line
    BY <1>0, <2>1, <2>3
  <2>. DEFINE grown == Log!Written(files, line)
  <2>6. CASE line.text = 0 /\ files' = files
    <3>1. Hold(files, F + 1, pushed)
      BY <1>0, <1>3, <1>4, <2>5, <2>6, EmptyLineSkipped
    <3>. QED
      BY <1>7, <2>3, <2>4, <2>6, <3>1, NoGapLater
  <2>7. CASE line.text > 0 /\ files' \in {grown, Log!Rotated(grown)}
    <3>1. Hold(grown, F + 1, pushed)
      <4>1. pushed[F + 1] \in Lines /\ pushed[F + 1].text > 0
        BY <2>1, <2>5, <2>7
      <4>2. Hold(Log!Written(files, pushed[F + 1]), F + 1, pushed)
        BY <1>0, <1>3, <1>4, <4>1, LineWritten
      <4>. QED
        BY <2>5, <4>2
    <3>2. grown \in Seq(Seq(Lines)) /\ Len(grown) > 0 /\ F + 1 \in Nat
      BY <1>3, <1>4, <2>1, WrittenTyped
    <3>. HIDE DEF grown
    <3>3. Hold(Log!Rotated(grown), F + 1, pushed)
      BY <1>4, <3>1, <3>2, RotatedHolds
    <3>4. Hold(files', F + 1, pushed)
      BY <2>7, <3>1, <3>3
    <3>. QED
      BY <1>7, <2>3, <2>4, <3>4, NoGapLater
  <2>. QED
    BY <1>7, <2>6, <2>7, WritesWhat
<1>8. CASE Moves /\ UNCHANGED pushed
  <2>1. UNCHANGED <<logQueue_, pushed, line, files>>
    BY <1>8 DEF Moves
  <2>. QED
    BY <2>1, NoGapMeans, NoGapLater DEF Log!QueueIsLatest, Log!Taken, Log!Finished
<1>. QED
  BY <1>5, <1>6, <1>7, <1>8, TalkKinds

LEMMA SendersKept ==
    ASSUME LogTyped, Log!SendersInOrder, Talk
    PROVE  Log!SendersInOrder'
<1>0. /\ sent \in [Senders -> Seq(Lines)] /\ wire \in [Children -> Seq(Lines)]
      /\ pushed \in Seq(Lines) /\ Log!Master \notin Children
      /\ \A w \in Senders : InOrder(w, sent[w], Log!Coming(w), pushed)
  BY LogSizes, OrderMeans DEF LogTyped
<1>1. ASSUME NEW w \in Senders
      PROVE  Log!Coming(w) \in Seq(Lines)
  BY <1>0 DEF Log!Coming, Senders
<1>2. ASSUME NEW text \in Log!NextTexts(Log!Master),
             Pushes([from |-> Log!Master, text |-> text]), UNCHANGED wire,
             sent' = [sent EXCEPT ![Log!Master] = Append(@, [from |-> Log!Master, text |-> text])]
      PROVE  Log!SendersInOrder'
  <2>. DEFINE l == [from |-> Log!Master, text |-> text]
  <2>1. l \in Lines /\ l.from = Log!Master /\ Log!Master \in Senders
    BY TextsTyped DEF Senders
  <2>2. /\ pushed' = Append(pushed, l)
        /\ sent' = [sent EXCEPT ![Log!Master] = Append(@, l)]
    BY <1>2 DEF Pushes
  <2>. HIDE DEF l
  <2>3. ASSUME NEW w \in Senders
        PROVE  InOrder(w, sent'[w], Log!Coming(w)', pushed')
    <3>1. Log!Coming(w)' = Log!Coming(w)
      BY <1>2 DEF Log!Coming
    <3>2. CASE w = Log!Master
      <4>1. Log!Coming(w) = <<>> /\ sent'[w] = Append(sent[w], l) /\ sent[w] \in Seq(Lines)
        BY <1>0, <2>2, <3>2 DEF Log!Coming
      <4>. DEFINE way == Append(<<>>, l)
                  own == Append(sent[w], l)
      <4>2. /\ way \in Seq(Lines) /\ way # <<>> /\ Head(way) = l /\ Tail(way) = <<>>
            /\ own \in Seq(Lines) /\ <<>> \in Seq(Lines)
        BY <2>1, <4>1
      <4>3. InOrder(w, own, way, pushed)
        BY <1>0, <2>1, <4>1, <4>2, LineSent
      <4>. HIDE DEF way, own
      <4>4. InOrder(w, own, Tail(way), Append(pushed, Head(way)))
        <5>1. Head(way).from = w
          BY <2>1, <3>2, <4>2
        <5>. QED
          BY <1>0, <4>2, <4>3, <5>1, LineArrives
      <4>5. sent'[w] = own
        BY <4>1 DEF own
      <4>. QED
        BY <2>2, <3>1, <4>1, <4>2, <4>4, <4>5
    <3>3. CASE w # Log!Master
      <4>1. sent'[w] = sent[w]
        BY <1>0, <2>2, <3>3
      <4>2. InOrder(w, sent[w], Log!Coming(w), Append(pushed, l))
        BY <1>0, <2>1, <3>3, OtherLine
      <4>. QED
        BY <2>2, <3>1, <4>1, <4>2
    <3>. QED
      BY <3>2, <3>3
  <2>4. DOMAIN sent' = Senders
    BY <1>0, <2>2
  <2>. QED
    BY <2>3, <2>4, OrderLater
<1>3. ASSUME NEW c \in Children, wire[c] # <<>>, Pushes(Head(wire[c])),
             wire' = [wire EXCEPT ![c] = Tail(@)], UNCHANGED sent
      PROVE  Log!SendersInOrder'
  <2>. DEFINE l == Head(wire[c])
  <2>1. l \in Lines /\ l.from = c /\ c # Log!Master /\ wire[c] \in Seq(Lines)
    BY <1>0, <1>3, NextLines
  <2>2. pushed' = Append(pushed, l)
    BY <1>3 DEF Pushes
  <2>3. ASSUME NEW w \in Senders
        PROVE  InOrder(w, sent[w], Log!Coming(w)', pushed')
    <3>1. CASE w = c
      <4>1. Log!Coming(w) = wire[c] /\ Log!Coming(w)' = Tail(wire[c]) /\ sent[w] \in Seq(Lines)
        BY <1>0, <1>3, <2>1, <3>1 DEF Log!Coming
      <4>2. InOrder(w, sent[w], wire[c], pushed)
        BY <1>0, <4>1
      <4>3. InOrder(w, sent[w], Tail(wire[c]), Append(pushed, l))
        BY <1>0, <1>3, <2>1, <3>1, <4>1, <4>2, LineArrives
      <4>. QED
        BY <2>2, <4>1, <4>3
    <3>2. CASE w # c
      <4>1. Log!Coming(w)' = Log!Coming(w)
        BY <1>0, <1>3, <3>2 DEF Log!Coming, Senders
      <4>. HIDE DEF l
      <4>2. InOrder(w, sent[w], Log!Coming(w), Append(pushed, l))
        BY <1>0, <2>1, <3>2, OtherLine
      <4>. QED
        BY <2>2, <4>1, <4>2
    <3>. QED
      BY <3>1, <3>2
  <2>. QED
    BY <1>0, <1>3, <2>3, OrderLater
<1>4. ASSUME NEW c \in Children, NEW text \in Log!NextTexts(c), Moves, UNCHANGED pushed,
             wire' = [wire EXCEPT ![c] = Append(@, [from |-> c, text |-> text])],
             sent' = [sent EXCEPT ![c] = Append(@, [from |-> c, text |-> text])]
      PROVE  Log!SendersInOrder'
  <2>. DEFINE l == [from |-> c, text |-> text]
  <2>1. l \in Lines /\ c \in Senders /\ c # Log!Master
    BY <1>0, TextsTyped DEF Senders
  <2>2. /\ wire' = [wire EXCEPT ![c] = Append(@, l)]
        /\ sent' = [sent EXCEPT ![c] = Append(@, l)]
    BY <1>4
  <2>. HIDE DEF l
  <2>3. ASSUME NEW w \in Senders
        PROVE  InOrder(w, sent'[w], Log!Coming(w)', pushed)
    <3>1. CASE w = c
      <4>1. /\ Log!Coming(w) = wire[c] /\ Log!Coming(w)' = Append(wire[c], l)
            /\ sent'[w] = Append(sent[w], l) /\ sent[w] \in Seq(Lines) /\ wire[c] \in Seq(Lines)
        BY <1>0, <2>1, <2>2, <3>1 DEF Log!Coming
      <4>2. InOrder(w, sent[w], wire[c], pushed)
        BY <1>0, <4>1
      <4>3. InOrder(w, Append(sent[w], l), Append(wire[c], l), pushed)
        BY <2>1, <4>1, <4>2, LineSent
      <4>. QED
        BY <4>1, <4>3
    <3>2. CASE w # c
      <4>1. Log!Coming(w)' = Log!Coming(w) /\ sent'[w] = sent[w]
        BY <1>0, <2>1, <2>2, <3>2 DEF Log!Coming, Senders
      <4>. QED
        BY <1>0, <4>1
    <3>. QED
      BY <3>1, <3>2
  <2>4. DOMAIN sent' = Senders
    BY <1>0, <2>2
  <2>. QED
    BY <1>4, <2>3, <2>4, OrderLater
<1>5. CASE UNCHANGED <<sent, wire, pushed>>
  <2>1. \A w \in Senders : Log!Coming(w)' = Log!Coming(w)
    BY <1>5 DEF Log!Coming
  <2>. QED
    BY <1>0, <1>5, <2>1, OrderLater
<1>. QED
  BY <1>2, <1>3, <1>4, <1>5 DEF Talk

LEMMA LogStep == ASSUME LogIInv, [Log!LogNext]_logVars PROVE LogIInv'
BY WhatHappens, TalkTyped, WriterKept, StopKept, FilesKept, GapKept, SendersKept DEF LogIInv

(* What the senders give the log is written in order and without a gap,    *)
(* into files within their bounds, all of it that was queued when Stop was *)
(* called, however senders, writer and Stop interleave (LogService).       *)
THEOREM LogsAreComplete == MasterSpec => []LogInv
<1>1. MasterInit => LogIInv
  BY LogStart DEF MasterInit
<1>2. LogIInv /\ [MasterNext]_allVars => LogIInv'
  <2>1. [MasterNext]_allVars => [Log!LogNext]_logVars
    BY DEF MasterNext, allVars
  <2>. QED
    BY <2>1, LogStep
<1>3. LogIInv => LogInv
  <2>1. StopInv /\ LogTyped => Log!DrainedAtStop
    BY DEF StopInv, LogTyped, Log!DrainedAtStop
  <2>2. FilesInv => Log!FilesBounded
    BY DEF FilesInv, Log!FilesBounded
  <2>3. WriterInv => Log!NoLineForgotten
    BY DEF WriterInv, Log!NoLineForgotten
  <2>. QED
    BY <2>1, <2>2, <2>3 DEF LogIInv, LogInv, Log!LogInv
<1>. QED
  BY <1>1, <1>2, <1>3, PTL DEF MasterSpec

-----------------------------------------------------------------------------
(***************************************************************************)
(* The database.                                                           *)
(***************************************************************************)

Steps == {"start", "ready", "check", "create", "recheck", "switch", "tables", "up", "changed",
          "stopping", "failed"}
Manager ==
    [connected : BOOLEAN, running : BOOLEAN, step : Steps, renewed : BOOLEAN,
     config : Configured \cup {Db!LoadConfiguration(c) : c \in Configured},
     backend : [kind : {Db!None, "SQLITE", "POSTGRESQL", "CITUS", "INVALID"}, open : BOOLEAN,
                db : {Db!Admin, Db!Target}]]

ManagerTyped ==
    /\ managers \in [Servers -> Manager]
    /\ DOMAIN catalog = {"databases", "tables", "versions"}

Pooled(m) == Db!PoolEnabled(m.config) \/ m.backend.kind = "SQLITE"

\* What is known of a server at each step of its start, and afterwards.
Fits(m, tables) ==
    /\ m.step = "start" => m.backend = Db!NoBackend /\ ~m.connected /\ m.config \in Configured
    /\ m.step \in {"ready", "check", "create", "recheck", "switch", "tables"} => m.connected
    /\ m.step \in {"start", "ready", "check", "create", "recheck", "switch", "tables"} => ~m.renewed
    /\ m.step = "ready" => m.backend.db = Db!Target /\ ~m.backend.open
    /\ m.step \in {"check", "create", "recheck", "switch"} => m.backend.kind = "POSTGRESQL"
    /\ m.step = "tables" => m.backend.db = Db!Target /\ (Pooled(m) => m.backend.open)
    /\ m.step = "up" => m.backend.db = Db!Target /\ Tables \subseteq tables
    /\ m.step \in {"up", "changed"} /\ m.connected /\ m.backend # Db!NoBackend /\ Pooled(m)
       => (m.backend.open <=> ~m.renewed)
    /\ m.step = "failed" /\ m.backend.kind = "SQLITE" => ~m.backend.open
    /\ m.backend.open => m.connected

StartInv == \A s \in Servers : Fits(managers[s], catalog.tables)

ManagerInv == ManagerTyped /\ StartInv /\ Db!OwnFileUndoes

LEMMA DatabaseFacts ==
    /\ IsFiniteSet(Migrations) /\ \A v \in DOMAIN NamedAlike : v \in NamedAlike[v]
    /\ IsFiniteSet(Workers) /\ MaxCalls \in Nat
    /\ Keys \cup {Db!None} \subseteq SqlLines /\ Db!None \notin Keys /\ MaxSqlLines \in Nat
BY DatabaseAssumption DEF Db!DatabaseConstants, Db!IsFiniteSet, IsFiniteSet

LEMMA BackendKinds ==
    ASSUME NEW backend
    PROVE  Db!ParseBackendType(backend) \in {"SQLITE", "POSTGRESQL", "CITUS", "INVALID"}
BY DEF Db!ParseBackendType

LEMMA ManagerStart == Db!ManagerInit => ManagerInv
<1>. SUFFICES ASSUME Db!ManagerInit PROVE ManagerInv
  OBVIOUS
<1>1. PICK config \in Configured :
        managers = [s \in Servers |-> [connected |-> FALSE, running |-> TRUE, backend |-> Db!NoBackend,
                                       step |-> "start", config |-> config, renewed |-> FALSE]]
  BY DEF Db!ManagerInit
<1>3. Db!NoBackend = [kind |-> "none", open |-> FALSE, db |-> Db!Target]
  BY DEF Db!NoBackend, Db!Backend, Db!None
<1>4. ManagerTyped
  BY <1>1, <1>3 DEF ManagerTyped, Db!ManagerInit, Manager, Steps, Db!None, Db!Target
<1>5. StartInv
  BY <1>1, <1>3 DEF StartInv, Fits
<1>. QED
  BY <1>4, <1>5 DEF ManagerInv, Db!ManagerInit, Db!OwnFileUndoes

\* A step of one server that changes no table and records no rollback.
LEMMA OneServer ==
    ASSUME ManagerInv, NEW s \in Servers, NEW m \in Manager,
           managers' = [managers EXCEPT ![s] = m], UNCHANGED undone,
           DOMAIN catalog' = DOMAIN catalog, catalog.tables \subseteq catalog'.tables,
           Fits(m, catalog'.tables)
    PROVE  ManagerInv'
<1>1. ManagerTyped'
  BY DEF ManagerInv, ManagerTyped
<1>2. \A r \in Servers : managers'[r] = IF r = s THEN m ELSE managers[r]
  BY DEF ManagerInv, ManagerTyped
<1>3. \A r \in Servers : Fits(managers'[r], catalog'.tables)
  <2>. SUFFICES ASSUME NEW r \in Servers PROVE Fits(managers'[r], catalog'.tables)
    OBVIOUS
  <2>1. CASE r = s
    BY <1>2, <2>1
  <2>2. CASE r # s
    <3>1. managers'[r] = managers[r] /\ Fits(managers[r], catalog.tables)
      BY <1>2, <2>2 DEF ManagerInv, StartInv, Fits
    <3>2. Fits(managers[r], catalog'.tables)
      BY <3>1 DEF Fits
    <3>. QED
      BY <3>1, <3>2
  <2>. QED
    BY <2>1, <2>2
<1>4. Db!OwnFileUndoes'
  BY DEF ManagerInv, Db!OwnFileUndoes
<1>. QED
  BY <1>1, <1>3, <1>4 DEF ManagerInv, StartInv, Fits, Pooled

LEMMA PoolOrNot == \A c : Db!PoolEnabled(c) \in BOOLEAN
BY DEF Db!PoolEnabled

LEMMA InitializeKeeps ==
    ASSUME ManagerInv, NEW s \in Servers, Db!Initialize(s) PROVE ManagerInv'
<1>. DEFINE m == managers[s]
            config == Db!LoadConfiguration(m.config)
            kind == Db!ParseBackendType(config.given.backend)
            backend == IF kind \in Built THEN Db!Backend(kind) ELSE Db!NoBackend
            n == [m EXCEPT !.config = config, !.connected = TRUE, !.backend = backend, !.step = "ready"]
            f == [m EXCEPT !.step = "failed"]
<1>1. m \in Manager /\ m.step = "start" /\ m.backend = Db!NoBackend /\ ~m.connected /\ ~m.renewed
  BY DEF ManagerInv, ManagerTyped, StartInv, Fits, Db!Initialize
<1>2. UNCHANGED <<catalog, undone>>
  BY DEF Db!Initialize
<1>3. managers' = [managers EXCEPT ![s] = f] \/ managers' = [managers EXCEPT ![s] = n]
  <2>1. \/ managers' = Db!Goto(s, "failed")
        \/ managers' = [managers EXCEPT ![s].config = config, ![s].connected = TRUE,
                                         ![s].backend = backend, ![s].step = "ready"]
    BY <1>1 DEF Db!Initialize
  <2>. HIDE DEF config, backend
  <2>. QED
    BY <1>1, <2>1 DEF Db!Goto, ManagerInv, ManagerTyped, Manager
<1>4. config \in Configured \cup {Db!LoadConfiguration(c) : c \in Configured}
  <2>1. m.config \in Configured
    BY <1>1 DEF ManagerInv, StartInv, Fits
  <2>. QED
    BY <2>1
<1>5. kind \in {"SQLITE", "POSTGRESQL", "CITUS", "INVALID"}
  BY BackendKinds
<1>6. /\ backend.db = Db!Target /\ ~backend.open
      /\ backend \in [kind : {Db!None, "SQLITE", "POSTGRESQL", "CITUS", "INVALID"}, open : BOOLEAN,
                      db : {Db!Admin, Db!Target}]
  <2>. HIDE DEF kind
  <2>. QED
    BY <1>5 DEF Db!Backend, Db!NoBackend
<1>. HIDE DEF config, backend
<1>7. /\ n \in Manager /\ n.step = "ready" /\ n.backend.db = Db!Target /\ ~n.backend.open
      /\ n.connected /\ ~n.renewed
  BY <1>1, <1>4, <1>6 DEF Manager, Steps
<1>8. f \in Manager /\ f.step = "failed" /\ f.backend.kind # "SQLITE" /\ ~f.backend.open
  BY <1>1 DEF Manager, Steps, Db!NoBackend, Db!Backend, Db!None
<1>. HIDE DEF n, f
<1>. QED
  BY <1>2, <1>3, <1>7, <1>8, OneServer DEF Fits

LEMMA OpenKeeps ==
    ASSUME ManagerInv, NEW s \in Servers, Db!OpenSQLite(s) \/ Db!OpenAdmin(s) PROVE ManagerInv'
<1>. DEFINE m == managers[s]
<1>1. /\ m \in Manager /\ m.step = "ready" /\ m.backend.db = Db!Target /\ ~m.backend.open
      /\ m.connected /\ ~m.renewed
  BY DEF ManagerInv, ManagerTyped, StartInv, Fits, Db!OpenSQLite, Db!OpenAdmin
<1>2. UNCHANGED <<catalog, undone>>
  BY DEF Db!OpenSQLite, Db!OpenAdmin
<1>3. CASE Db!OpenSQLite(s)
  <2>1. m.backend.kind = "SQLITE"
    BY <1>3 DEF Db!OpenSQLite
  <2>2. CASE managers' = Db!Goto(s, "failed")
    <3>1. /\ managers' = [managers EXCEPT ![s] = [m EXCEPT !.step = "failed"]]
          /\ [m EXCEPT !.step = "failed"] \in Manager
      BY <1>1, <2>2 DEF Db!Goto, Manager, Steps
    <3>. QED
      BY <1>1, <1>2, <3>1, OneServer DEF Fits, Manager
  <2>3. CASE managers' = [Db!BackendConnect(s, TRUE) EXCEPT ![s].step = "tables"]
    <3>. DEFINE n == [m EXCEPT !.backend.open = TRUE, !.step = "tables"]
    <3>1. managers' = [managers EXCEPT ![s] = n] /\ n \in Manager
      BY <1>1, <2>1, <2>3 DEF Db!BackendConnect, Manager, Steps, ManagerInv, ManagerTyped
    <3>2. /\ n.step = "tables" /\ n.backend.db = Db!Target /\ n.backend.open
          /\ n.connected /\ ~n.renewed
      BY <1>1 DEF Manager
    <3>. HIDE DEF n
    <3>. QED
      BY <1>2, <3>1, <3>2, OneServer DEF Fits
  <2>. QED
    BY <1>3, <2>2, <2>3 DEF Db!OpenSQLite
<1>4. CASE Db!OpenAdmin(s)
  <2>1. PICK ok \in BOOLEAN :
          managers' = [Db!ConnectToDatabase(s, Db!Admin) EXCEPT
              ![s].backend.open = ok /\ Db!PoolEnabled(m.config), ![s].step = IF ok THEN "check" ELSE "failed"]
    BY <1>4 DEF Db!OpenAdmin
  <2>. DEFINE n == [m EXCEPT !.backend.db = Db!Admin, !.backend.open = ok /\ Db!PoolEnabled(m.config),
                             !.step = IF ok THEN "check" ELSE "failed"]
  <2>2. managers' = [managers EXCEPT ![s] = n]
    BY <1>1, <2>1 DEF Db!ConnectToDatabase, ManagerInv, ManagerTyped, Manager
  <2>3. n \in Manager
    BY <1>1 DEF Manager, Steps
  <2>4. n.step \in {"check", "failed"} /\ n.backend.kind = "POSTGRESQL" /\ n.connected /\ ~n.renewed
    BY <1>1, <1>4 DEF Manager, Db!OpenAdmin
  <2>. HIDE DEF n
  <2>. QED
    BY <1>2, <2>2, <2>3, <2>4, OneServer DEF Fits
<1>. QED
  BY <1>3, <1>4

LEMMA CreateKeeps ==
    ASSUME ManagerInv, NEW s \in Servers,
           Db!CheckExists(s) \/ Db!CreateDatabase(s) \/ Db!CheckAgain(s)
    PROVE  ManagerInv'
<1>. DEFINE m == managers[s]
<1>1. m \in Manager /\ m.backend.kind = "POSTGRESQL" /\ m.connected /\ ~m.renewed
  BY DEF ManagerInv, ManagerTyped, StartInv, Fits, Db!CheckExists, Db!CreateDatabase, Db!CheckAgain
<1>2. UNCHANGED undone /\ DOMAIN catalog' = DOMAIN catalog /\ catalog.tables = catalog'.tables
  BY DEF Db!CheckExists, Db!CreateDatabase, Db!CheckAgain, ManagerInv, ManagerTyped
<1>3. ASSUME NEW step \in {"switch", "create", "recheck"}, managers' = Db!Goto(s, step)
      PROVE  ManagerInv'
  <2>. DEFINE n == [m EXCEPT !.step = step]
  <2>1. /\ managers' = [managers EXCEPT ![s] = n] /\ n \in Manager
        /\ n.step = step /\ n.backend.kind = "POSTGRESQL" /\ n.connected /\ ~n.renewed
    BY <1>1, <1>3 DEF Db!Goto, Manager, Steps
  <2>. HIDE DEF n
  <2>. QED
    BY <1>2, <1>3, <2>1, OneServer DEF Fits
<1>4. CASE managers' = [Db!Goto(s, "failed") EXCEPT ![s].backend.open = FALSE]
  <2>. DEFINE n == [m EXCEPT !.step = "failed", !.backend.open = FALSE]
  <2>1. managers' = [managers EXCEPT ![s] = n]
    BY <1>1, <1>4 DEF Db!Goto, ManagerInv, ManagerTyped, Manager
  <2>2. n \in Manager /\ n.step = "failed" /\ ~n.backend.open
    BY <1>1 DEF Manager, Steps
  <2>. HIDE DEF n
  <2>. QED
    BY <1>2, <2>1, <2>2, OneServer DEF Fits
<1>5. \/ \E step \in {"switch", "create", "recheck"} : managers' = Db!Goto(s, step)
      \/ managers' = [Db!Goto(s, "failed") EXCEPT ![s].backend.open = FALSE]
  BY DEF Db!CheckExists, Db!CreateDatabase, Db!CheckAgain
<1>. QED
  BY <1>3, <1>4, <1>5

LEMMA SwitchKeeps ==
    ASSUME ManagerInv, NEW s \in Servers, Db!SwitchToTarget(s) PROVE ManagerInv'
<1>. DEFINE m == managers[s]
<1>1. /\ m \in Manager /\ m.backend.kind = "POSTGRESQL" /\ UNCHANGED <<catalog, undone>>
      /\ m.connected /\ ~m.renewed
  BY DEF ManagerInv, ManagerTyped, StartInv, Fits, Db!SwitchToTarget
<1>2. PICK ok \in BOOLEAN :
        managers' = [Db!ConnectToDatabase(s, Db!Target) EXCEPT
            ![s].backend.open = ok /\ Db!PoolEnabled(m.config), ![s].step = IF ok THEN "tables" ELSE "failed"]
  BY DEF Db!SwitchToTarget
<1>. DEFINE n == [m EXCEPT !.backend.db = Db!Target, !.backend.open = ok /\ Db!PoolEnabled(m.config),
                           !.step = IF ok THEN "tables" ELSE "failed"]
<1>3. managers' = [managers EXCEPT ![s] = n]
  <2>. DEFINE step == IF ok THEN "tables" ELSE "failed"
              open == ok /\ Db!PoolEnabled(m.config)
              c == Db!ConnectToDatabase(s, Db!Target)
  <2>1. managers' = [c EXCEPT ![s].backend.open = open, ![s].step = step]
    BY <1>2
  <2>2. n = [m EXCEPT !.backend.db = Db!Target, !.backend.open = open, !.step = step]
    OBVIOUS
  <2>. HIDE DEF step, open, n
  <2>3. c = [managers EXCEPT ![s] = [m EXCEPT !.backend.db = Db!Target, !.backend.open = FALSE]]
    BY <1>1, ZenonT(30) DEF Db!ConnectToDatabase, ManagerInv, ManagerTyped, Manager, Db!Target, Db!Admin
  <2>. HIDE DEF c
  <2>4. managers \in [Servers -> Manager]
    BY DEF ManagerInv, ManagerTyped
  <2>. DEFINE k == [m EXCEPT !.backend.db = Db!Target, !.backend.open = FALSE]
  <2>5. k \in Manager /\ n = [k EXCEPT !.backend.open = open, !.step = step]
    <3>1. n = [k EXCEPT !.backend.open = open, !.step = step]
      BY <1>1, <2>2 DEF Manager
    <3>2. /\ m.backend \in [kind : {Db!None, "SQLITE", "POSTGRESQL", "CITUS", "INVALID"},
                            open : BOOLEAN, db : {Db!Admin, Db!Target}]
          /\ k = [m EXCEPT !.backend = [m.backend EXCEPT !.db = Db!Target, !.open = FALSE]]
      BY <1>1 DEF Manager
    <3>3. PICK b : b = [m.backend EXCEPT !.db = Db!Target, !.open = FALSE]
      OBVIOUS
    <3>4. b \in [kind : {Db!None, "SQLITE", "POSTGRESQL", "CITUS", "INVALID"},
                open : BOOLEAN, db : {Db!Admin, Db!Target}]
      BY <3>2, <3>3
    <3>5. k = [m EXCEPT !.backend = b]
      BY <3>2, <3>3
    <3>. HIDE DEF k
    <3>6. k \in Manager
      BY <1>1, <3>4, <3>5 DEF Manager
    <3>. QED
      BY <3>1, <3>6
  <2>. HIDE DEF k
  <2>6. managers' = [managers EXCEPT ![s] = [k EXCEPT !.backend.open = open, !.step = step]]
    BY <2>1, <2>3, <2>4, <2>5 DEF k, Manager
  <2>. QED
    BY <2>5, <2>6
<1>4. n \in Manager
  BY <1>1 DEF Manager, Steps
<1>5. /\ n.step \in {"tables", "failed"} /\ n.backend.kind = "POSTGRESQL" /\ n.connected /\ ~n.renewed
      /\ n.step = "tables" => n.backend.db = Db!Target /\ (Pooled(n) => n.backend.open)
  BY <1>1 DEF Manager, Pooled
<1>. HIDE DEF n
<1>. QED
  BY <1>1, <1>3, <1>4, <1>5, OneServer DEF Fits

LEMMA TablesKeep ==
    ASSUME ManagerInv, NEW s \in Servers, Db!CreateDefaultTablesIfNotExist(s) PROVE ManagerInv'
<1>. DEFINE m == managers[s]
<1>1. /\ m \in Manager /\ m.step = "tables" /\ m.backend.db = Db!Target
      /\ m.connected /\ ~m.renewed /\ (Pooled(m) => m.backend.open)
  BY DEF ManagerInv, ManagerTyped, StartInv, Fits, Db!CreateDefaultTablesIfNotExist
<1>2. PICK made \in SUBSET Tables :
        /\ catalog' = [catalog EXCEPT !.tables = @ \cup made]
        /\ managers' = IF made = Tables THEN Db!Goto(s, "up")
               ELSE IF m.backend.kind = "SQLITE"
               THEN [Db!Goto(s, "failed") EXCEPT ![s].backend.open = FALSE]
               ELSE Db!Goto(s, "failed")
  BY DEF Db!CreateDefaultTablesIfNotExist
<1>3. /\ UNCHANGED undone /\ DOMAIN catalog' = DOMAIN catalog
      /\ catalog'.tables = catalog.tables \cup made
  BY <1>2 DEF Db!CreateDefaultTablesIfNotExist, ManagerInv, ManagerTyped
<1>4. CASE made = Tables
  <2>. DEFINE n == [m EXCEPT !.step = "up"]
  <2>1. managers' = [managers EXCEPT ![s] = n] /\ n \in Manager
    BY <1>1, <1>2, <1>4 DEF Db!Goto, Manager, Steps
  <2>2. /\ n.step = "up" /\ n.backend.db = Db!Target /\ Tables \subseteq catalog'.tables
        /\ n.connected /\ ~n.renewed /\ (Pooled(n) => n.backend.open)
    BY <1>1, <1>3, <1>4 DEF Manager, Pooled
  <2>. HIDE DEF n
  <2>. QED
    BY <1>3, <2>1, <2>2, OneServer DEF Fits
<1>5. CASE made # Tables /\ m.backend.kind = "SQLITE"
  <2>. DEFINE n == [m EXCEPT !.step = "failed", !.backend.open = FALSE]
  <2>1. managers' = [managers EXCEPT ![s] = n]
    BY <1>1, <1>2, <1>5 DEF Db!Goto, ManagerInv, ManagerTyped, Manager
  <2>2. n \in Manager /\ n.step = "failed" /\ ~n.backend.open
    BY <1>1 DEF Manager, Steps
  <2>. HIDE DEF n
  <2>. QED
    BY <1>3, <2>1, <2>2, OneServer DEF Fits
<1>6. CASE made # Tables /\ m.backend.kind # "SQLITE"
  <2>. DEFINE n == [m EXCEPT !.step = "failed"]
  <2>1. managers' = [managers EXCEPT ![s] = n] /\ n \in Manager
    BY <1>1, <1>2, <1>6 DEF Db!Goto, Manager, Steps
  <2>2. n.step = "failed" /\ n.backend.kind # "SQLITE" /\ n.connected
    BY <1>1, <1>6 DEF Manager
  <2>. HIDE DEF n
  <2>. QED
    BY <1>3, <2>1, <2>2, OneServer DEF Fits
<1>. QED
  BY <1>4, <1>5, <1>6

LEMMA ConnectKeeps ==
    ASSUME ManagerInv, NEW s \in Servers, Db!Connect(s) \/ Db!Reconnect(s) PROVE ManagerInv'
<1>. DEFINE m == managers[s]
<1>1. /\ m \in Manager /\ m.step \in {"up", "changed", "stopping"} /\ m.backend # Db!NoBackend
      /\ UNCHANGED <<catalog, undone>> /\ (m.backend.open => m.connected)
      /\ m.step = "up" => m.backend.db = Db!Target /\ Tables \subseteq catalog.tables
  <2>1. m \in Manager /\ Fits(m, catalog.tables)
    BY DEF ManagerInv, ManagerTyped, StartInv
  <2>2. /\ m.step \in {"up", "changed", "stopping"} /\ m.backend # Db!NoBackend
        /\ UNCHANGED <<catalog, undone>>
    BY Zenon DEF Db!Connect, Db!Reconnect
  <2>. HIDE DEF m
  <2>. QED
    BY <2>1, <2>2 DEF Fits
<1>2. CASE UNCHANGED managers
  BY <1>1, <1>2 DEF ManagerInv, ManagerTyped, StartInv, Fits, Pooled, Db!OwnFileUndoes
<1>3. CASE managers' = [Db!BackendConnect(s, TRUE) EXCEPT ![s].connected = TRUE, ![s].renewed = FALSE]
  <2>. DEFINE n == [m EXCEPT !.connected = TRUE, !.renewed = FALSE, !.backend.open = @ \/ Pooled(m)]
  <2>1. managers' = [managers EXCEPT ![s] = n]
    BY <1>1, <1>3 DEF Db!BackendConnect, Pooled, ManagerInv, ManagerTyped, Manager
  <2>2. n \in Manager
    BY <1>1 DEF Manager, Pooled
  <2>3. /\ n.step = m.step /\ n.backend.db = m.backend.db /\ n.connected /\ ~n.renewed
        /\ Pooled(n) => n.backend.open
    BY <1>1 DEF Manager, Pooled
  <2>. HIDE DEF n
  <2>. QED
    BY <1>1, <2>1, <2>2, <2>3, OneServer DEF Fits
<1>4. CASE Db!Reconnect(s)
  <2> DEFINE sqlite == m.backend.kind = "SQLITE"
             open(ok) == IF sqlite THEN ok ELSE m.backend.open /\ ~m.connected
  <2>a. PICK ok \in BOOLEAN :
          managers' = [managers EXCEPT ![s].connected = ok, ![s].renewed = ok /\ ~sqlite,
                                       ![s].backend.open = open(ok)]
    BY <1>4, Zenon DEF Db!Reconnect
  <2>b. m.backend.open \in BOOLEAN /\ m.connected \in BOOLEAN
    BY <1>1 DEF Manager
  <2>1. sqlite \in BOOLEAN /\ open(ok) \in BOOLEAN /\ (open(ok) <=> ok /\ sqlite)
    BY <1>1, <2>b
  <2>. HIDE DEF sqlite, open
  <2>. DEFINE n == [m EXCEPT !.connected = ok, !.renewed = ok /\ ~sqlite, !.backend.open = open(ok)]
  <2>2. managers' = [managers EXCEPT ![s] = n]
    BY <1>1, <2>a DEF ManagerInv, ManagerTyped, Manager
  <2>3. /\ n \in Manager /\ n.step = m.step /\ n.backend.db = m.backend.db
        /\ n.connected = ok /\ n.renewed = (ok /\ ~sqlite) /\ n.backend.open = open(ok)
        /\ n.backend.kind = m.backend.kind
    BY <1>1, <2>1 DEF Manager
  <2>4. Pooled(n) /\ n.connected => (n.backend.open <=> ~n.renewed)
    BY <2>1, <2>3
  <2>. HIDE DEF n
  <2>. QED
    BY <1>1, <2>1, <2>2, <2>3, <2>4, OneServer DEF Fits
<1>5. \/ UNCHANGED managers \/ Db!Reconnect(s)
      \/ managers' = [Db!BackendConnect(s, TRUE) EXCEPT ![s].connected = TRUE, ![s].renewed = FALSE]
  BY DEF Db!Connect
<1>. QED
  BY <1>2, <1>3, <1>4, <1>5

LEMMA StopKeeps ==
    ASSUME ManagerInv, NEW s \in Servers, Db!Disconnect(s) \/ Db!Shutdown(s) PROVE ManagerInv'
<1>. DEFINE m == managers[s]
<1>1. m \in Manager /\ UNCHANGED <<catalog, undone>> /\ (m.backend.open => m.connected)
  BY DEF ManagerInv, ManagerTyped, StartInv, Fits, Db!Disconnect, Db!Shutdown
<1>2. CASE UNCHANGED managers
  BY <1>1, <1>2 DEF ManagerInv, ManagerTyped, StartInv, Fits, Db!OwnFileUndoes
<1>3. ASSUME NEW n \in Manager, managers' = [managers EXCEPT ![s] = n], n.step = "stopping",
             n.backend.open => n.connected
      PROVE  ManagerInv'
  BY <1>1, <1>3, OneServer DEF Fits
<1>4. CASE Db!Disconnect(s)
  <2>. DEFINE a == [m EXCEPT !.step = "stopping", !.connected = FALSE, !.backend.open = FALSE]
              b == [m EXCEPT !.step = "stopping"]
  <2>1. /\ a \in Manager /\ a.step = "stopping" /\ b \in Manager /\ b.step = "stopping"
        /\ ~a.backend.open /\ (b.backend.open => b.connected)
    BY <1>1 DEF Manager, Steps
  <2>2. managers' = [managers EXCEPT ![s] = a] \/ managers' = [managers EXCEPT ![s] = b]
    BY <1>1, <1>4 DEF Db!Disconnect, Db!Goto, ManagerInv, ManagerTyped, Manager
  <2>. HIDE DEF a, b
  <2>. QED
    BY <1>3, <2>1, <2>2
<1>5. CASE Db!Shutdown(s)
  <2>. DEFINE a == [m EXCEPT !.running = FALSE, !.connected = FALSE, !.backend.open = FALSE]
  <2>1. a \in Manager /\ a.step = "stopping" /\ ~a.backend.open
    BY <1>1, <1>5 DEF Manager, Steps, Db!Shutdown
  <2>2. managers' = [managers EXCEPT ![s] = a] \/ UNCHANGED managers
    BY <1>1, <1>5 DEF Db!Shutdown, ManagerInv, ManagerTyped, Manager
  <2>. HIDE DEF a
  <2>. QED
    BY <1>2, <1>3, <2>1, <2>2
<1>. QED
  BY <1>4, <1>5

LEMMA SetBackendKeeps ==
    ASSUME ManagerInv, NEW s \in Servers, NEW kind \in {"SQLITE", "POSTGRESQL", "CITUS"},
           NEW config \in Configured, Db!SetBackend(s, kind, config)
    PROVE  ManagerInv'
<1>. DEFINE m == managers[s]
            a == [m EXCEPT !.step = "changed", !.config = config, !.connected = FALSE,
                           !.renewed = FALSE, !.backend = Db!Backend(kind)]
            b(c) == [m EXCEPT !.step = "changed", !.config = config, !.connected = c,
                              !.renewed = FALSE, !.backend = Db!NoBackend]
<1>1. m \in Manager /\ UNCHANGED <<catalog, undone>>
  BY DEF ManagerInv, ManagerTyped, Db!SetBackend
<1>2. /\ a \in Manager /\ a.step = "changed" /\ ~a.connected /\ ~a.backend.open
      /\ ~Db!NoBackend.open
      /\ \A c \in BOOLEAN : b(c) \in Manager /\ b(c).step = "changed" /\ b(c).backend = Db!NoBackend
  <2>1. PICK full, none : full = Db!Backend(kind) /\ none = Db!NoBackend
    OBVIOUS
  <2>2. /\ ~full.open /\ ~none.open
        /\ {full, none} \subseteq [kind : {Db!None, "SQLITE", "POSTGRESQL", "CITUS", "INVALID"},
                                   open : BOOLEAN, db : {Db!Admin, Db!Target}]
    BY <2>1 DEF Db!NoBackend, Db!Backend
  <2>3. a \in Manager /\ a.step = "changed" /\ ~a.connected /\ a.backend = full
    BY <1>1, <2>1, <2>2 DEF Manager, Steps
  <2>4. ASSUME NEW c \in BOOLEAN
        PROVE  b(c) \in Manager /\ b(c).step = "changed" /\ b(c).backend = none
    BY <1>1, <2>1, <2>2 DEF Manager, Steps
  <2>. HIDE DEF a, b
  <2>. QED
    BY <2>1, <2>2, <2>3, <2>4
<1>3. managers' = [managers EXCEPT ![s] = a]
      \/ \E c \in BOOLEAN : managers' = [managers EXCEPT ![s] = b(c)]
  <2>. DEFINE made == [m EXCEPT !.step = "changed", !.config = config, !.backend = Db!NoBackend,
                                !.renewed = FALSE]
  <2>1. PICK sqlLoaded \in BOOLEAN :
          managers' = IF sqlLoaded /\ kind \in Built
             THEN [[managers EXCEPT ![s] = made] EXCEPT ![s].backend = Db!Backend(kind), ![s].connected = FALSE]
             ELSE [[managers EXCEPT ![s] = made] EXCEPT
                      ![s].connected = @ /\ ~(sqlLoaded /\ kind = "POSTGRESQL")]
    <3>1. [Db!Goto(s, "changed") EXCEPT ![s].config = config, ![s].backend = Db!NoBackend,
                                        ![s].renewed = FALSE]
          = [managers EXCEPT ![s] = made]
      BY <1>1 DEF Db!Goto, ManagerInv, ManagerTyped, Manager
    <3>. QED
      BY <3>1 DEF Db!SetBackend
  <2>2. made \in Manager
    BY <1>1 DEF Manager, Steps, Db!NoBackend, Db!Backend, Db!None
  <2>3. /\ a = [made EXCEPT !.backend = Db!Backend(kind), !.connected = FALSE]
        /\ \A c : b(c) = [made EXCEPT !.connected = c]
    <3>1. PICK full, none : full = Db!Backend(kind) /\ none = Db!NoBackend
      OBVIOUS
    <3>2. DOMAIN m = {"connected", "running", "step", "renewed", "config", "backend"}
      BY <1>1 DEF Manager
    <3>3. a = [made EXCEPT !.backend = full, !.connected = FALSE]
      BY <3>1, <3>2
    <3>4. ASSUME NEW c PROVE b(c) = [made EXCEPT !.connected = c]
      BY <3>1, <3>2
    <3>. HIDE DEF made, a, b
    <3>. QED
      BY <3>1, <3>3, <3>4
  <2>4. s \in DOMAIN managers
    BY DEF ManagerInv, ManagerTyped
  <2>. HIDE DEF made, a, b
  <2>5. CASE sqlLoaded /\ kind \in Built
    BY <2>1, <2>2, <2>3, <2>4, <2>5
  <2>6. CASE ~(sqlLoaded /\ kind \in Built)
    <3>. DEFINE c == made.connected /\ ~(sqlLoaded /\ kind = "POSTGRESQL")
    <3>1. managers' = [managers EXCEPT ![s] = b(c)] /\ c \in BOOLEAN
      BY <2>1, <2>3, <2>4, <2>6
    <3>. QED
      BY <3>1
  <2>. QED
    BY <2>5, <2>6
<1>. HIDE DEF a, b
<1>. QED
  BY <1>1, <1>2, <1>3, OneServer DEF Fits

LEMMA RollbackKeeps ==
    ASSUME ManagerInv, NEW s \in Servers, NEW v \in DOMAIN NamedAlike, Db!RollbackMigration(s, v)
    PROVE  ManagerInv'
<1>. DEFINE named == Migrations \cap NamedAlike[v]
<1>1. Cardinality(named) = 1 /\ IsFiniteSet(named)
  BY DatabaseFacts, FS_Subset DEF Db!RollbackMigration, Db!Cardinality, Cardinality
<1>2. PICK file_ : named = {file_}
  BY <1>1, FS_Singleton
<1>3. v \in Migrations => file_ = v
  BY <1>2, DatabaseFacts
<1>4. undone' \subseteq undone \cup {<<v, file_>>}
  BY <1>2 DEF Db!RollbackMigration
<1>5. Db!OwnFileUndoes'
  BY <1>3, <1>4 DEF ManagerInv, Db!OwnFileUndoes
<1>6. UNCHANGED managers /\ DOMAIN catalog' = DOMAIN catalog /\ catalog'.tables = catalog.tables
  BY DEF Db!RollbackMigration, ManagerInv, ManagerTyped
<1>7. ManagerTyped' /\ StartInv'
  BY <1>6 DEF ManagerInv, ManagerTyped, StartInv, Fits
<1>. QED
  BY <1>5, <1>7 DEF ManagerInv

LEMMA ManagerStep == ASSUME ManagerInv, [Db!ManagerNext]_managerVars PROVE ManagerInv'
<1>1. CASE UNCHANGED managerVars
  BY <1>1 DEF managerVars, ManagerInv, ManagerTyped, StartInv, Fits, Pooled, Db!OwnFileUndoes
<1>2. CASE Db!ManagerNext
  BY <1>2, InitializeKeeps, OpenKeeps, CreateKeeps, SwitchKeeps, TablesKeep, ConnectKeeps,
     StopKeeps, SetBackendKeeps, RollbackKeeps DEF Db!ManagerNext
<1>. QED
  BY <1>1, <1>2

-----------------------------------------------------------------------------
\* The calls of the service.  With one worker, what it answered, what it is
\* at and what waits are the calls in their order.

Ahead(w) == Len(main_io) + (IF busy[w] = 0 THEN 0 ELSE 1)
InTurn(w) ==
    /\ \A i \in DOMAIN main_io : main_io[i] = i
    /\ busy[w] # 0 => busy[w] = Len(main_io) + 1
    /\ \A i \in DOMAIN queue : queue[i] = Ahead(w) + i
    /\ joined # "joined" => calls = Ahead(w) + Len(queue)

ServiceInv ==
    /\ pool \subseteq Workers /\ calls \in Nat /\ queue \in Seq(Nat \ {0}) /\ main_io \in Seq(Nat \ {0})
    /\ busy \in [Workers -> Nat] /\ joined \in {"running", "joining", "joined"}
    /\ joined = "joined" => queue = <<>> /\ \A w \in pool : busy[w] = 0
    /\ joined # "joined" =>
         \A n \in Nat : n \in 1..calls <=>
            \/ \E i \in DOMAIN main_io : main_io[i] = n
            \/ \E i \in DOMAIN queue : queue[i] = n
            \/ n # 0 /\ \E w \in pool : busy[w] = n
    /\ \A w \in pool : pool = {w} => InTurn(w)

LEMMA ServiceStart == Db!ServiceInit => ServiceInv
<1>. SUFFICES ASSUME Db!ServiceInit PROVE ServiceInv
  OBVIOUS
<1>1. /\ pool \subseteq Workers /\ calls = 0 /\ queue = <<>> /\ main_io = <<>>
      /\ busy = [w \in Workers |-> 0] /\ joined = "running"
  BY DEF Db!ServiceInit
<1>2. queue \in Seq(Nat \ {0}) /\ main_io \in Seq(Nat \ {0}) /\ Len(queue) = 0 /\ Len(main_io) = 0
      /\ DOMAIN queue = {} /\ DOMAIN main_io = {}
  BY <1>1
<1>3. \A w \in pool : busy[w] = 0
  BY <1>1
<1>4. \A w \in pool : InTurn(w)
  BY <1>1, <1>2, <1>3 DEF InTurn, Ahead
<1>5. \A n \in Nat : ~(n \in 1..calls)
  BY <1>1
<1>. QED
  BY <1>1, <1>2, <1>3, <1>4, <1>5 DEF ServiceInv

LEMMA CallKept == ASSUME ServiceInv, Db!AsyncCall PROVE ServiceInv'
<1>0. /\ pool \subseteq Workers /\ calls \in Nat /\ queue \in Seq(Nat \ {0}) /\ main_io \in Seq(Nat \ {0})
      /\ busy \in [Workers -> Nat] /\ joined \in {"running", "joining", "joined"}
      /\ UNCHANGED <<pool, busy, main_io, joined>> /\ calls' = calls + 1
      /\ queue' = IF joined = "joined" THEN queue ELSE Append(queue, calls + 1)
  BY DEF ServiceInv, Db!AsyncCall
<1>1. CASE joined = "joined"
  <2>1. UNCHANGED queue
    BY <1>0, <1>1
  <2>2. \A w \in pool : InTurn(w)' <=> InTurn(w)
    BY <1>0, <1>1, <2>1 DEF InTurn, Ahead
  <2>. QED
    BY <1>0, <1>1, <2>1, <2>2 DEF ServiceInv
<1>2. CASE joined # "joined"
  <2>1. queue' = Append(queue, calls + 1)
    BY <1>0, <1>2
  <2>2. /\ queue' \in Seq(Nat \ {0}) /\ Len(queue') = Len(queue) + 1 /\ Len(queue) \in Nat
        /\ DOMAIN queue = 1..Len(queue) /\ DOMAIN queue' = 1..Len(queue)+1
        /\ \A i \in 1..Len(queue) : queue'[i] = queue[i]
        /\ queue'[Len(queue) + 1] = calls + 1
    <3>. DEFINE T == Nat \ {0}
                c == calls + 1
    <3>1. c \in T /\ queue \in Seq(T) /\ queue' = Append(queue, c)
      BY <1>0, <2>1
    <3>. HIDE DEF T, c
    <3>3. /\ queue' \in Seq(T) /\ Len(queue') = Len(queue) + 1 /\ queue'[Len(queue) + 1] = c
          /\ \A i \in 1..Len(queue) : queue'[i] = queue[i]
      BY <3>1, AppendProperties
    <3>2. /\ queue' \in Seq(Nat \ {0}) /\ Len(queue') = Len(queue) + 1
          /\ queue'[Len(queue) + 1] = calls + 1
          /\ \A i \in 1..Len(queue) : queue'[i] = queue[i]
      BY <3>3 DEF T, c
    <3>. QED
      BY <1>0, <3>2
  <2>3. \A n \in Nat : (\E i \in DOMAIN queue' : queue'[i] = n)
                       <=> (n = calls + 1 \/ \E i \in DOMAIN queue : queue[i] = n)
    BY <1>0, <2>2
  <2>4. \A n \in Nat : n \in 1..calls' <=> n \in 1..calls \/ n = calls + 1
    BY <1>0
  <2>5. ASSUME NEW w \in pool, pool = {w} PROVE InTurn(w)'
    <3>1. InTurn(w) /\ Ahead(w)' = Ahead(w) /\ calls = Ahead(w) + Len(queue) /\ Ahead(w) \in Nat
      BY <1>0, <1>2, <2>5 DEF ServiceInv, InTurn, Ahead
    <3>2. ASSUME NEW i \in DOMAIN queue' PROVE queue'[i] = Ahead(w) + i
      <4>1. CASE i \in 1..Len(queue)
        BY <1>0, <2>2, <3>1, <4>1 DEF InTurn
      <4>2. CASE i = Len(queue) + 1
        BY <2>2, <3>1, <4>2
      <4>. QED
        BY <1>0, <2>2, <4>1, <4>2
    <3>3. calls' = Ahead(w)' + Len(queue')
      BY <1>0, <2>2, <3>1
    <3>4. /\ \A i \in DOMAIN main_io' : main_io'[i] = i
          /\ busy'[w] # 0 => busy'[w] = Len(main_io') + 1
      BY <1>0, <3>1 DEF InTurn
    <3>. QED
      BY <3>1, <3>2, <3>3, <3>4 DEF InTurn
  <2>6. joined' # "joined" =>
         \A n \in Nat : n \in 1..calls' <=>
            \/ \E i \in DOMAIN main_io' : main_io'[i] = n
            \/ \E i \in DOMAIN queue' : queue'[i] = n
            \/ n # 0 /\ \E w \in pool' : busy'[w] = n
    <3>1. \A n \in Nat : n \in 1..calls <=>
            \/ \E i \in DOMAIN main_io : main_io[i] = n
            \/ \E i \in DOMAIN queue : queue[i] = n
            \/ n # 0 /\ \E w \in pool : busy[w] = n
      BY <1>2 DEF ServiceInv
    <3>. QED
      BY <1>0, <2>3, <2>4, <3>1
  <2>7. calls' \in Nat
    BY <1>0
  <2>. QED
    BY <1>0, <1>2, <2>2, <2>5, <2>6, <2>7 DEF ServiceInv
<1>. QED
  BY <1>1, <1>2

LEMMA TaskKept == ASSUME ServiceInv, NEW w \in pool, Db!TakeTask(w) PROVE ServiceInv'
<1>0. /\ pool \subseteq Workers /\ calls \in Nat /\ queue \in Seq(Nat \ {0}) /\ main_io \in Seq(Nat \ {0})
      /\ busy \in [Workers -> Nat] /\ joined \in {"running", "joining", "joined"}
      /\ UNCHANGED <<pool, calls, main_io, joined>>
      /\ busy[w] = 0 /\ queue # <<>> /\ w \in Workers
      /\ busy' = [busy EXCEPT ![w] = Head(queue)] /\ queue' = Tail(queue)
  BY DEF ServiceInv, Db!TakeTask
<1>1. /\ queue' \in Seq(Nat \ {0}) /\ Len(queue) \in Nat \ {0} /\ Len(queue') = Len(queue) - 1
      /\ DOMAIN queue = 1..Len(queue) /\ DOMAIN queue' = 1..(Len(queue) - 1)
      /\ \A i \in 1..(Len(queue) - 1) : queue'[i] = queue[i + 1]
      /\ Head(queue) = queue[1] /\ queue[1] \in Nat \ {0}
  BY <1>0
<1>2. busy' \in [Workers -> Nat] /\ busy'[w] = queue[1] /\ \A v \in pool \ {w} : busy'[v] = busy[v]
  BY <1>0, <1>1
<1>3. joined # "joined"
  BY <1>0 DEF ServiceInv
<1>4. \A n \in Nat : (\E i \in DOMAIN queue : queue[i] = n)
                     <=> (n = queue[1] \/ \E i \in DOMAIN queue' : queue'[i] = n)
  <2>1. ASSUME NEW n \in Nat, NEW i \in DOMAIN queue, queue[i] = n, i # 1
        PROVE  \E j \in DOMAIN queue' : queue'[j] = n
    <3>1. i - 1 \in DOMAIN queue' /\ queue'[i - 1] = n
      BY <1>1, <2>1
    <3>. QED
      BY <3>1
  <2>2. ASSUME NEW n \in Nat, NEW i \in DOMAIN queue', queue'[i] = n
        PROVE  \E j \in DOMAIN queue : queue[j] = n
    <3>1. i + 1 \in DOMAIN queue /\ queue[i + 1] = n
      BY <1>1, <2>2
    <3>. QED
      BY <3>1
  <2>3. 1 \in DOMAIN queue
    BY <1>1
  <2>. QED
    BY <2>1, <2>2, <2>3
<1>5. \A n \in Nat \ {0} : (\E v \in pool : busy'[v] = n)
                           <=> (n = queue[1] \/ \E v \in pool : busy[v] = n)
  BY <1>0, <1>2
<1>6. ASSUME NEW v \in pool, pool = {v} PROVE InTurn(v)'
  <2>1. v = w /\ InTurn(w) /\ Len(main_io) \in Nat
    BY <1>0, <1>6 DEF ServiceInv
  <2>2. Ahead(w) = Len(main_io) /\ Ahead(w)' = Len(main_io) + 1
    BY <1>0, <1>1, <1>2 DEF Ahead
  <2>3. /\ \A i \in DOMAIN queue : queue[i] = Len(main_io) + i
        /\ calls = Len(main_io) + Len(queue)
    BY <1>3, <2>1, <2>2 DEF InTurn
  <2>4. busy'[w] = Len(main_io) + 1
    BY <1>1, <1>2, <2>3, SMTT(30)
  <2>5. ASSUME NEW i \in DOMAIN queue' PROVE queue'[i] = Len(main_io) + 1 + i
    <3>1. i \in Nat /\ i + 1 \in DOMAIN queue /\ queue'[i] = queue[i + 1]
      BY <1>1
    <3>2. queue[i + 1] = Len(main_io) + (i + 1)
      BY <2>3, <3>1
    <3>. QED
      BY <2>1, <3>1, <3>2
  <2>6. calls' = Len(main_io) + 1 + Len(queue')
    BY <1>0, <1>1, <2>1, <2>3
  <2>7. \A i \in DOMAIN main_io' : main_io'[i] = i
    BY <1>0, <2>1 DEF InTurn
  <2>. QED
    BY <1>0, <2>1, <2>2, <2>4, <2>5, <2>6, <2>7 DEF InTurn
<1>7. \A n \in Nat : n \in 1..calls <=>
            \/ \E i \in DOMAIN main_io : main_io[i] = n
            \/ \E i \in DOMAIN queue' : queue'[i] = n
            \/ n # 0 /\ \E v \in pool : busy'[v] = n
  <2>. SUFFICES ASSUME NEW n \in Nat
                PROVE  n \in 1..calls <=>
                        \/ \E i \in DOMAIN main_io : main_io[i] = n
                        \/ \E i \in DOMAIN queue' : queue'[i] = n
                        \/ n # 0 /\ \E v \in pool : busy'[v] = n
    OBVIOUS
  <2>1. n \in 1..calls <=>
            \/ \E i \in DOMAIN main_io : main_io[i] = n
            \/ \E i \in DOMAIN queue : queue[i] = n
            \/ n # 0 /\ \E v \in pool : busy[v] = n
    BY <1>3 DEF ServiceInv
  <2>. QED
    BY <1>1, <1>4, <1>5, <2>1
<1>8. /\ joined' # "joined" /\ calls' \in Nat
      /\ \A n \in Nat : n \in 1..calls' <=>
            \/ \E i \in DOMAIN main_io' : main_io'[i] = n
            \/ \E i \in DOMAIN queue' : queue'[i] = n
            \/ n # 0 /\ \E v \in pool' : busy'[v] = n
  BY <1>0, <1>3, <1>7
<1>. QED
  BY <1>0, <1>1, <1>2, <1>6, <1>8 DEF ServiceInv

LEMMA AnswerKept == ASSUME ServiceInv, NEW w \in pool, Db!PostAnswer(w) PROVE ServiceInv'
<1>0. /\ pool \subseteq Workers /\ calls \in Nat /\ queue \in Seq(Nat \ {0}) /\ main_io \in Seq(Nat \ {0})
      /\ busy \in [Workers -> Nat] /\ joined \in {"running", "joining", "joined"}
      /\ UNCHANGED <<pool, calls, queue, joined>> /\ busy[w] # 0 /\ w \in Workers
      /\ main_io' = Append(main_io, busy[w]) /\ busy' = [busy EXCEPT ![w] = 0]
  BY DEF ServiceInv, Db!PostAnswer
<1>1. /\ main_io' \in Seq(Nat \ {0}) /\ Len(main_io) \in Nat /\ Len(main_io') = Len(main_io) + 1
      /\ DOMAIN main_io = 1..Len(main_io) /\ DOMAIN main_io' = 1..(Len(main_io) + 1)
      /\ \A i \in 1..Len(main_io) : main_io'[i] = main_io[i]
      /\ main_io'[Len(main_io) + 1] = busy[w] /\ busy[w] \in Nat \ {0}
  BY <1>0
<1>2. busy' \in [Workers -> Nat] /\ busy'[w] = 0 /\ \A v \in pool \ {w} : busy'[v] = busy[v]
  BY <1>0
<1>3. joined # "joined"
  BY <1>0 DEF ServiceInv
<1>4. \A n \in Nat : (\E i \in DOMAIN main_io' : main_io'[i] = n)
                     <=> (n = busy[w] \/ \E i \in DOMAIN main_io : main_io[i] = n)
  BY <1>1
<1>5. \A n \in Nat \ {0} : (\E v \in pool : busy[v] = n) <=>
                           (n = busy[w] \/ \E v \in pool : busy'[v] = n)
  BY <1>0, <1>2
<1>6. ASSUME NEW v \in pool, pool = {v} PROVE InTurn(v)'
  <2>1. v = w /\ InTurn(w)
    BY <1>0, <1>6 DEF ServiceInv
  <2>2. Ahead(w) = Len(main_io) + 1 /\ Ahead(w)' = Len(main_io) + 1 /\ busy[w] = Len(main_io) + 1
    BY <1>0, <1>1, <1>2, <2>1 DEF Ahead, InTurn
  <2>. QED
    BY <1>0, <1>1, <1>2, <1>3, <2>1, <2>2 DEF InTurn
<1>7. \A n \in Nat : n \in 1..calls <=>
            \/ \E i \in DOMAIN main_io' : main_io'[i] = n
            \/ \E i \in DOMAIN queue : queue[i] = n
            \/ n # 0 /\ \E v \in pool : busy'[v] = n
  <2>. SUFFICES ASSUME NEW n \in Nat
                PROVE  n \in 1..calls <=>
                        \/ \E i \in DOMAIN main_io' : main_io'[i] = n
                        \/ \E i \in DOMAIN queue : queue[i] = n
                        \/ n # 0 /\ \E v \in pool : busy'[v] = n
    OBVIOUS
  <2>1. n \in 1..calls <=>
            \/ \E i \in DOMAIN main_io : main_io[i] = n
            \/ \E i \in DOMAIN queue : queue[i] = n
            \/ n # 0 /\ \E v \in pool : busy[v] = n
    BY <1>3 DEF ServiceInv
  <2>. QED
    BY <1>1, <1>4, <1>5, <2>1
<1>. QED
  BY <1>0, <1>1, <1>2, <1>3, <1>6, <1>7 DEF ServiceInv

LEMMA JoinKept == ASSUME ServiceInv, Db!ResetWorkGuard \/ Db!Join PROVE ServiceInv'
<1>1. /\ UNCHANGED <<pool, calls, queue, busy, main_io>> /\ joined # "joined"
      /\ joined' \in {"joining", "joined"}
      /\ joined' = "joined" => queue = <<>> /\ \A w \in pool : busy[w] = 0
  BY DEF Db!ResetWorkGuard, Db!Join
<1>2. \A w \in pool : InTurn(w) => InTurn(w)'
  BY <1>1 DEF InTurn, Ahead
<1>. QED
  BY <1>1, <1>2 DEF ServiceInv

LEMMA ServiceStep == ASSUME ServiceInv, [Db!ServiceNext]_serviceVars PROVE ServiceInv'
<1>1. CASE UNCHANGED serviceVars
  BY <1>1 DEF serviceVars, ServiceInv, InTurn, Ahead
<1>2. CASE Db!ServiceNext
  BY <1>2, CallKept, TaskKept, AnswerKept, JoinKept DEF Db!ServiceNext
<1>. QED
  BY <1>1, <1>2

LEMMA ServiceAnswers == ServiceInv => Db!CallsAnswered
<1>. SUFFICES ASSUME ServiceInv PROVE Db!CallsAnswered
  OBVIOUS
<1>1. joined = "joined" => queue = <<>>
  BY DEF ServiceInv
<1>2. ASSUME Db!Cardinality(pool) = 1 PROVE \A i \in DOMAIN main_io : main_io[i] = i
  <2>1. IsFiniteSet(pool) /\ Cardinality(pool) = 1
    BY <1>2, DatabaseFacts, FS_Subset DEF ServiceInv, Db!Cardinality, Cardinality
  <2>2. PICK w : pool = {w}
    BY <2>1, FS_Singleton
  <2>. QED
    BY <2>2 DEF ServiceInv, InTurn
<1>3. ASSUME joined # "joined"
      PROVE  Db!ToSet(main_io) \cup Db!ToSet(queue) \cup ({busy[w] : w \in pool} \ {0}) = 1..calls
  <2>. DEFINE all == Db!ToSet(main_io) \cup Db!ToSet(queue) \cup ({busy[w] : w \in pool} \ {0})
  <2>1. /\ \A i \in DOMAIN main_io : main_io[i] \in Nat
        /\ \A i \in DOMAIN queue : queue[i] \in Nat
        /\ \A w \in pool : busy[w] \in Nat
    BY DEF ServiceInv
  <2>2. all \subseteq Nat
    BY <2>1 DEF Db!ToSet
  <2>3. ASSUME NEW n \in Nat PROVE n \in all <=> n \in 1..calls
    <3>1. n \in 1..calls <=>
            \/ \E i \in DOMAIN main_io : main_io[i] = n
            \/ \E i \in DOMAIN queue : queue[i] = n
            \/ n # 0 /\ \E w \in pool : busy[w] = n
      BY <1>3 DEF ServiceInv
    <3>2. n \in all <=>
            \/ \E i \in DOMAIN main_io : main_io[i] = n
            \/ \E i \in DOMAIN queue : queue[i] = n
            \/ n # 0 /\ \E w \in pool : busy[w] = n
      BY DEF Db!ToSet
    <3>. QED
      BY <3>1, <3>2
  <2>4. 1..calls \subseteq Nat
    BY DEF ServiceInv
  <2>. HIDE DEF all
  <2>5. all = 1..calls
    BY <2>2, <2>3, <2>4
  <2>. QED
    BY <2>5 DEF all
<1>. QED
  BY <1>1, <1>2, <1>3 DEF Db!CallsAnswered

-----------------------------------------------------------------------------
\* Induction and recursion over the numbers up to a bound.

Smaller == OpToRel(<, Nat)

LEMMA LeastNatural ==
    ASSUME NEW T, T \subseteq Nat, T # {}
    PROVE  \E x \in T : \A y \in T : x <= y
<1>1. IsWellFoundedOn(Smaller, Nat)
  BY NatLessThanWellFounded, Zenon DEF Smaller
<1>2. PICK x \in T : \A y \in T : ~(<<y, x>> \in Smaller)
  BY <1>1, WFMin
<1>3. \A u \in Nat, v \in Nat : v < u => <<v, u>> \in Smaller
  BY DEF Smaller, OpToRel
<1>4. ASSUME NEW y \in T PROVE x <= y
  <2>1. x \in Nat /\ y \in Nat
    OBVIOUS
  <2>2. ~(y < x)
    BY <1>2, <1>3, <2>1
  <2>. QED
    BY <2>1, <2>2
<1>. QED
  BY <1>4

LEMMA UpTo ==
    ASSUME NEW n \in Nat, NEW T, 0 \in T, \A i \in 0..(n - 1) : i \in T => i + 1 \in T
    PROVE  0..n \subseteq T
<1>. SUFFICES ASSUME NEW m \in 0..n, m \notin T PROVE FALSE
  OBVIOUS
<1>. DEFINE Out == {i \in 0..n : i \notin T}
<1>1. PICK x \in Out : \A y \in Out : x <= y
  <2>1. Out \subseteq Nat /\ Out # {}
    OBVIOUS
  <2>. HIDE DEF Out
  <2>. QED
    BY <2>1, LeastNatural
<1>2. x # 0 /\ x - 1 \in 0..(n - 1) /\ x - 1 \notin Out
  BY <1>1
<1>. QED
  BY <1>1, <1>2

\* What is defined from a start by a step for each number is a function.
StepsOver(n, S) == [(1..n) \X S -> S]
Chains(n, S, start, step) ==
    {f \in [0..n -> S] : f[0] = start /\ \A i \in 1..n : f[i] = step[<<i, f[i - 1]>>]}

LEMMA Recursion ==
    ASSUME NEW n \in Nat, NEW S, NEW start \in S, NEW step \in StepsOver(n, S)
    PROVE  Chains(n, S, start, step) # {}
<1>. USE DEF StepsOver
<1>. DEFINE To(f, m) == f[0] = start /\ \A i \in 1..m : f[i] = step[<<i, f[i - 1]>>]
            T == {m \in 0..n : \E f \in [0..m -> S] : To(f, m)}
<1>1. 0 \in T
  <2>. DEFINE g == [i \in 0..0 |-> start]
  <2>1. g \in [0..0 -> S] /\ To(g, 0)
    OBVIOUS
  <2>. HIDE DEF g
  <2>2. \E f \in [0..0 -> S] : To(f, 0)
    BY <2>1
  <2>. QED
    BY <2>2
<1>2. ASSUME NEW m \in 0..(n - 1), m \in T PROVE m + 1 \in T
  <2>1. PICK f \in [0..m -> S] : To(f, m)
    BY <1>2
  <2>. DEFINE g == [i \in 0..(m + 1) |-> IF i = m + 1 THEN step[<<i, f[m]>>] ELSE f[i]]
  <2>2. f[m] \in S /\ <<m + 1, f[m]>> \in (1..n) \X S /\ m + 1 \in 0..n
    OBVIOUS
  <2>3. step[<<m + 1, f[m]>>] \in S
    BY <2>2
  <2>4. g \in [0..(m + 1) -> S]
    BY <2>3
  <2>5. ASSUME NEW i \in 1..(m + 1) PROVE g[i] = step[<<i, g[i - 1]>>]
    <3>1. CASE i = m + 1
      BY <3>1
    <3>2. CASE i # m + 1
      <4>1. i \in 1..m /\ g[i] = f[i] /\ g[i - 1] = f[i - 1]
        BY <3>2
      <4>. QED
        BY <2>1, <4>1
    <3>. QED
      BY <3>1, <3>2
  <2>7. g[0] = start
    BY <2>1
  <2>. HIDE DEF g
  <2>6. To(g, m + 1)
    BY <2>4, <2>5, <2>7
  <2>. QED
    BY <2>2, <2>4, <2>6
<1>3. 0..n \subseteq T
  <2>. HIDE DEF T
  <2>. QED
    BY <1>1, <1>2, UpTo
<1>4. \E f \in [0..n -> S] : To(f, n)
  BY <1>3
<1>. QED
  BY <1>4 DEF Chains

-----------------------------------------------------------------------------
\* The reading of a .sql file.

Entries == [key : Keys \cup {Db!None}, query : Seq(SqlLines), queries : [Keys -> Seq(SqlLines)]]

\* No header after line i up to line j; a body that a header ended by line n,
\* and one that ended by there or reaches it.
Clear(i, j) == \A k \in (i + 1)..j : ~Db!Header(file[k])
Lies(key, i, j, n) == i < j /\ j <= n /\ file[i] = key /\ Clear(i, j)
Ended(key, i, j, n) == Lies(key, i, j, n) /\ j < n /\ Db!Header(file[j + 1])
Closed(key, i, j, n) == Lies(key, i, j, n) /\ (j = n \/ Db!Header(file[j + 1]))

SoFar(a, n) ==
    /\ a \in Entries
    /\ a.key # Db!None =>
         \E i \in 1..n : file[i] = a.key /\ Clear(i, n) /\ a.query = SubSeq(file, i + 1, n)
    /\ a.key = Db!None => \A i \in 1..n : file[i] \in Keys => ~Clear(i, n)
    /\ \A key \in Keys :
         \/ a.queries[key] = <<>> /\ \A i, j \in DOMAIN file : ~Ended(key, i, j, n)
         \/ \E i, j \in DOMAIN file :
              /\ Ended(key, i, j, n) /\ a.queries[key] = SubSeq(file, i + 1, j)
              /\ \A k, l \in DOMAIN file : Ended(key, k, l, n) => k <= i

LEMMA SavedTyped == ASSUME NEW a \in Entries PROVE Db!Saved(a) \in [Keys -> Seq(SqlLines)]
BY DEF Entries, Db!Saved

LEMMA LineTyped ==
    ASSUME NEW a \in Entries, NEW l \in SqlLines PROVE Db!ReadLine(a, l) \in Entries
<1>1. CASE Db!Header(l)
  <2>1. Db!ReadLine(a, l) = [key |-> l, queries |-> Db!Saved(a),
                             query |-> IF l = Db!None THEN a.query ELSE <<>>]
    BY <1>1 DEF Db!ReadLine
  <2>. QED
    BY <1>1, <2>1, SavedTyped DEF Entries, Db!Header
<1>2. CASE ~Db!Header(l)
  <2>1. Append(a.query, l) \in Seq(SqlLines)
    BY DEF Entries
  <2>. QED
    BY <1>2, <2>1 DEF Db!ReadLine, Entries
<1>. QED
  BY <1>1, <1>2

LEMMA ReadingIs ==
    ASSUME file \in Seq(SqlLines)
    PROVE  /\ Db!Reading[0] = [key |-> Db!None, query |-> <<>>, queries |-> Db!NoQueries]
           /\ \A n \in 1..Len(file) : Db!Reading[n] = Db!ReadLine(Db!Reading[n - 1], file[n])
<1>. DEFINE start == [key |-> Db!None, query |-> <<>>, queries |-> Db!NoQueries]
            step == [p \in (1..Len(file)) \X Entries |-> Db!ReadLine(p[2], file[p[1]])]
            Is(f) == f = [n \in 0..Len(file) |-> IF n = 0 THEN start
                                                 ELSE Db!ReadLine(f[n - 1], file[n])]
<1>1. start \in Entries
  BY DEF Entries, Db!NoQueries
<1>2. step \in [(1..Len(file)) \X Entries -> Entries]
  BY LineTyped
<1>3. Len(file) \in Nat
  OBVIOUS
<1>. HIDE DEF start
<1>4. PICK f \in [0..Len(file) -> Entries] :
         f[0] = start /\ \A n \in 1..Len(file) : f[n] = step[<<n, f[n - 1]>>]
  <2>1. step \in StepsOver(Len(file), Entries)
    BY <1>2 DEF StepsOver
  <2>. HIDE DEF step
  <2>2. Chains(Len(file), Entries, start, step) # {}
    BY <1>1, <1>3, <2>1, Recursion
  <2>. QED
    BY <2>2 DEF Chains
<1>5. \A n \in 1..Len(file) : <<n, f[n - 1]>> \in (1..Len(file)) \X Entries
  BY <1>3
<1>6. \A n \in 1..Len(file) : step[<<n, f[n - 1]>>] = Db!ReadLine(f[n - 1], file[n])
  BY <1>5
<1>. HIDE DEF step
<1>7. Is(f)
  BY <1>3, <1>4, <1>6
<1>8. Db!Reading = CHOOSE g : Is(g)
  BY DEF Db!Reading, start
<1>. HIDE DEF Is
<1>9. Is(Db!Reading)
  BY <1>7, <1>8
<1>. QED
  BY <1>3, <1>9 DEF Is, start

\* The entry that is open at a line is closed there by saving it.
LEMMA SavedFinds ==
    ASSUME file \in Seq(SqlLines), NEW n \in 0..Len(file), NEW a, SoFar(a, n), NEW key \in Keys
    PROVE  \/ /\ Db!Saved(a)[key] = <<>>
              /\ \A i, j \in DOMAIN file : ~Closed(key, i, j, n)
           \/ \E i, j \in DOMAIN file :
                /\ Closed(key, i, j, n) /\ Db!Saved(a)[key] = SubSeq(file, i + 1, j)
                /\ \A k, l \in DOMAIN file : Closed(key, k, l, n) => k <= i
<1>0. /\ Len(file) \in Nat /\ DOMAIN file = 1..Len(file) /\ a \in Entries
      /\ \A i \in DOMAIN file : file[i] \in SqlLines
  BY DEF SoFar
<1>1. \A i \in DOMAIN file : file[i] \in Keys => Db!Header(file[i])
  BY DEF Db!Header
<1>2. ASSUME \A i \in DOMAIN file : ~Lies(key, i, n, n), Db!Saved(a)[key] = a.queries[key]
      PROVE  \A i, j \in DOMAIN file : Closed(key, i, j, n) <=> Ended(key, i, j, n)
  BY <1>0, <1>2 DEF Closed, Ended, Lies
<1>3. ASSUME \A i \in DOMAIN file : ~Lies(key, i, n, n), Db!Saved(a)[key] = a.queries[key]
      PROVE  \/ /\ Db!Saved(a)[key] = <<>>
                /\ \A i, j \in DOMAIN file : ~Closed(key, i, j, n)
             \/ \E i, j \in DOMAIN file :
                  /\ Closed(key, i, j, n) /\ Db!Saved(a)[key] = SubSeq(file, i + 1, j)
                  /\ \A k, l \in DOMAIN file : Closed(key, k, l, n) => k <= i
  BY <1>2, <1>3 DEF SoFar
<1>4. CASE a.key = Db!None
  <2>1. Db!Saved(a)[key] = a.queries[key]
    BY <1>4 DEF Db!Saved
  <2>2. \A i \in DOMAIN file : ~Lies(key, i, n, n)
    BY <1>0, <1>4 DEF Lies, SoFar
  <2>. QED
    BY <1>3, <2>1, <2>2
<1>5. CASE a.key # Db!None
  <2>1. PICK h \in 1..n : file[h] = a.key /\ Clear(h, n) /\ a.query = SubSeq(file, h + 1, n)
    BY <1>5 DEF SoFar
  <2>2. a.key \in Keys /\ h \in DOMAIN file /\ Db!Header(file[h])
    <3>1. a.key \in Keys
      BY <1>0, <1>5 DEF Entries
    <3>2. h \in DOMAIN file
      BY <1>0, <2>1
    <3>. QED
      BY <1>1, <2>1, <3>1, <3>2
  <2>3. ASSUME NEW i \in DOMAIN file, Lies(key, i, n, n) PROVE i = h /\ key = a.key /\ h < n
    <3>1. Db!Header(file[i]) /\ i \in 1..n /\ Clear(i, n) /\ file[i] = key /\ i < n
      BY <1>0, <1>1, <2>3 DEF Lies
    <3>2. ~(i < h)
      BY <1>0, <2>1, <2>2, <3>1 DEF Clear
    <3>3. ~(h < i)
      BY <1>0, <2>1, <3>1 DEF Clear
    <3>. QED
      BY <1>0, <2>1, <3>1, <3>2, <3>3
  <2>4. \A k \in (h + 1)..n : file[k] \in SqlLines
    BY <1>0, <2>1
  <2>5. Len(a.query) = IF h + 1 <= n THEN n - h ELSE 0
    BY <1>0, <2>1, <2>4, SubSeqProperties
  <2>6. a.query = <<>> <=> h = n
    <3>1. a.query \in Seq(SqlLines)
      BY <1>0 DEF Entries
    <3>2. a.query = <<>> <=> Len(a.query) = 0
      BY <3>1
    <3>. QED
      BY <1>0, <2>1, <2>5, <3>2
  <2>7. CASE h = n \/ key # a.key
    <3>1. Db!Saved(a)[key] = a.queries[key]
      BY <1>0, <2>2, <2>6, <2>7 DEF Db!Saved, Entries
    <3>2. \A i \in DOMAIN file : ~Lies(key, i, n, n)
      BY <1>0, <2>1, <2>3, <2>7
    <3>. QED
      BY <1>3, <3>1, <3>2
  <2>8. CASE h # n /\ key = a.key
    <3>1. Db!Saved(a)[key] = SubSeq(file, h + 1, n)
      BY <1>0, <1>5, <2>1, <2>2, <2>6, <2>8 DEF Db!Saved, Entries
    <3>2. n \in DOMAIN file /\ Closed(key, h, n, n)
      BY <1>0, <2>1, <2>8 DEF Closed, Lies
    <3>3. ASSUME NEW k \in DOMAIN file, NEW l \in DOMAIN file, Closed(key, k, l, n) PROVE k <= h
      <4>1. file[k] = key /\ k <= n /\ Db!Header(file[k])
        BY <1>0, <1>1, <3>3 DEF Closed, Lies
      <4>. QED
        BY <1>0, <2>1, <4>1 DEF Clear
    <3>. QED
      BY <2>2, <3>1, <3>2, <3>3
  <2>. QED
    BY <2>7, <2>8
<1>. QED
  BY <1>4, <1>5

LEMMA LineKept ==
    ASSUME file \in Seq(SqlLines), NEW n \in 0..(Len(file) - 1), NEW a, SoFar(a, n)
    PROVE  SoFar(Db!ReadLine(a, file[n + 1]), n + 1)
<1>. DEFINE l == file[n + 1]
            b == Db!ReadLine(a, l)
<1>0. /\ Len(file) \in Nat /\ DOMAIN file = 1..Len(file) /\ a \in Entries /\ l \in SqlLines
      /\ n + 1 \in DOMAIN file
  BY DEF SoFar
<1>1. b \in Entries
  BY <1>0, LineTyped
<1>2. CASE Db!Header(l)
  <2>1. /\ b.key = l /\ b.queries = Db!Saved(a)
        /\ l # Db!None => b.query = <<>>
    BY <1>2 DEF Db!ReadLine
  <2>2. \A key, i : \A j \in DOMAIN file : Closed(key, i, j, n) => Ended(key, i, j, n + 1)
    BY <1>0, <1>2 DEF Closed, Ended, Lies
  <2>3. \A key, i : \A j \in DOMAIN file : Ended(key, i, j, n + 1) => Closed(key, i, j, n)
    BY <1>0, <1>2 DEF Closed, Ended, Lies
  <2>4. \A key \in Keys :
         \/ b.queries[key] = <<>> /\ \A i, j \in DOMAIN file : ~Ended(key, i, j, n + 1)
         \/ \E i, j \in DOMAIN file :
              /\ Ended(key, i, j, n + 1) /\ b.queries[key] = SubSeq(file, i + 1, j)
              /\ \A k, m \in DOMAIN file : Ended(key, k, m, n + 1) => k <= i
    <3>1. TAKE key \in Keys
    <3>2. \/ /\ b.queries[key] = <<>>
             /\ \A i, j \in DOMAIN file : ~Closed(key, i, j, n)
          \/ \E i, j \in DOMAIN file :
               /\ Closed(key, i, j, n) /\ b.queries[key] = SubSeq(file, i + 1, j)
               /\ \A k, m \in DOMAIN file : Closed(key, k, m, n) => k <= i
      BY <1>0, <2>1, SavedFinds, SMTT(30)
    <3>. HIDE DEF b
    <3>. QED
      BY <2>2, <2>3, <3>2
  <2>5. b.key # Db!None =>
         \E i \in 1..(n + 1) : file[i] = b.key /\ Clear(i, n + 1) /\ b.query = SubSeq(file, i + 1, n + 1)
    <3>1. SubSeq(file, n + 2, n + 1) = <<>>
      BY <1>0, SubSeqEmpty
    <3>2. Clear(n + 1, n + 1)
      BY <1>0 DEF Clear
    <3>3. n + 1 + 1 = n + 2 /\ n + 1 \in 1..(n + 1)
      BY <1>0
    <3>. HIDE DEF b
    <3>. QED
      BY <2>1, <3>1, <3>2, <3>3
  <2>6. b.key = Db!None => \A i \in 1..(n + 1) : file[i] \in Keys => ~Clear(i, n + 1)
    <3>1. ASSUME b.key = Db!None, NEW i \in 1..(n + 1), file[i] \in Keys PROVE ~Clear(i, n + 1)
      <4>1. i # n + 1
        BY <2>1, <3>1, DatabaseFacts
      <4>. QED
        BY <1>0, <1>2, <3>1, <4>1 DEF Clear
    <3>. QED
      BY <3>1
  <2>. HIDE DEF b
  <2>7. SoFar(b, n + 1)
    BY <1>1, <2>4, <2>5, <2>6 DEF SoFar
  <2>. QED
    BY <2>7 DEF b
<1>3. CASE ~Db!Header(l)
  <2>1. /\ b.key = a.key /\ b.queries = a.queries
        /\ a.key # Db!None => b.query = Append(a.query, l)
    BY <1>0, <1>3 DEF Db!ReadLine, Entries
  <2>2. \A key, i : \A j \in DOMAIN file : Ended(key, i, j, n + 1) <=> Ended(key, i, j, n)
    BY <1>0, <1>3 DEF Ended, Lies
  <2>3. \A i \in 1..n : Clear(i, n + 1) <=> Clear(i, n)
    BY <1>0, <1>3 DEF Clear
  <2>4. b.key # Db!None =>
         \E i \in 1..(n + 1) : file[i] = b.key /\ Clear(i, n + 1) /\ b.query = SubSeq(file, i + 1, n + 1)
    <3>1. SUFFICES ASSUME a.key # Db!None
                   PROVE  \E i \in 1..(n + 1) : file[i] = b.key /\ Clear(i, n + 1)
                                                /\ b.query = SubSeq(file, i + 1, n + 1)
      BY <2>1
    <3>2. PICK h \in 1..n : file[h] = a.key /\ Clear(h, n) /\ a.query = SubSeq(file, h + 1, n)
      BY <3>1 DEF SoFar
    <3>3. SubSeq(file, h + 1, n + 1) = SubSeq(file, h + 1, (n + 1) - 1) \o <<file[n + 1]>>
      <4>1. h + 1 \in 1..Len(file) /\ n + 1 \in (h + 1)..Len(file)
        BY <1>0, <3>2
      <4>. QED
        BY <4>1, SubSeqRecursiveSecond
    <3>4. (n + 1) - 1 = n /\ a.query \in Seq(SqlLines)
      BY <1>0 DEF Entries
    <3>5. a.query \o <<l>> = Append(a.query, l)
      BY <1>0, <3>4, AppendIsConcat
    <3>6. b.query = SubSeq(file, h + 1, n + 1)
      BY <2>1, <3>1, <3>2, <3>3, <3>4, <3>5
    <3>7. h \in 1..(n + 1) /\ Clear(h, n + 1) /\ file[h] = b.key
      BY <1>0, <2>1, <2>3, <3>2
    <3>. HIDE DEF b
    <3>. QED
      BY <3>6, <3>7
  <2>5. b.key = Db!None => \A i \in 1..(n + 1) : file[i] \in Keys => ~Clear(i, n + 1)
    <3>1. file[n + 1] \notin Keys
      BY <1>3 DEF Db!Header
    <3>2. \A i \in 1..(n + 1) : i = n + 1 \/ i \in 1..n
      BY <1>0
    <3>. QED
      BY <2>1, <2>3, <3>1, <3>2 DEF SoFar
  <2>6. \A key \in Keys :
         \/ b.queries[key] = <<>> /\ \A i, j \in DOMAIN file : ~Ended(key, i, j, n + 1)
         \/ \E i, j \in DOMAIN file :
              /\ Ended(key, i, j, n + 1) /\ b.queries[key] = SubSeq(file, i + 1, j)
              /\ \A k, m \in DOMAIN file : Ended(key, k, m, n + 1) => k <= i
    <3>. HIDE DEF b
    <3>. QED
      BY <2>1, <2>2 DEF SoFar
  <2>. HIDE DEF b
  <2>7. SoFar(b, n + 1)
    BY <1>1, <2>4, <2>5, <2>6 DEF SoFar
  <2>. QED
    BY <2>7 DEF b
<1>. QED
  BY <1>2, <1>3

LEMMA ReadSoFar ==
    ASSUME file \in Seq(SqlLines) PROVE SoFar(Db!Reading[Len(file)], Len(file))
<1>. DEFINE T == {n \in 0..Len(file) : SoFar(Db!Reading[n], n)}
<1>0. Len(file) \in Nat /\ DOMAIN file = 1..Len(file)
  OBVIOUS
<1>1. 0 \in T
  <2>1. Db!Reading[0] = [key |-> Db!None, query |-> <<>>, queries |-> Db!NoQueries]
    BY ReadingIs
  <2>2. Db!Reading[0] \in Entries
    BY <2>1 DEF Entries, Db!NoQueries
  <2>3. Db!Reading[0].key = Db!None /\ \A key \in Keys : Db!Reading[0].queries[key] = <<>>
    BY <2>1 DEF Db!NoQueries
  <2>4. \A key, i, j : j \in DOMAIN file => ~Ended(key, i, j, 0)
    BY <1>0 DEF Ended, Lies
  <2>. QED
    BY <1>0, <2>2, <2>3, <2>4 DEF SoFar
<1>2. ASSUME NEW n \in 0..(Len(file) - 1), n \in T PROVE n + 1 \in T
  <2>1. n + 1 \in 1..Len(file) /\ (n + 1) - 1 = n
    BY <1>0
  <2>2. Db!Reading[n + 1] = Db!ReadLine(Db!Reading[n], file[n + 1])
    BY <2>1, ReadingIs
  <2>3. SoFar(Db!Reading[n + 1], n + 1)
    BY <1>2, <2>2, LineKept
  <2>. QED
    BY <2>1, <2>3
<1>. HIDE DEF T
<1>3. 0..Len(file) \subseteq T
  BY <1>0, <1>1, <1>2, UpTo
<1>4. Len(file) \in T
  BY <1>0, <1>3
<1>. QED
  BY <1>4 DEF T

ProviderInv == file \in Seq(SqlLines) /\ Db!QueriesFound

LEMMA ProviderStart == Db!ProviderInit => ProviderInv
<1>1. ASSUME NEW n \in 0..MaxSqlLines, file \in [1..n -> SqlLines] PROVE file \in Seq(SqlLines)
  BY <1>1, DatabaseFacts
<1>. QED
  BY <1>1 DEF Db!ProviderInit, ProviderInv, Db!QueriesFound

LEMMA ProviderStep == ASSUME ProviderInv, [Db!LoadFromFile]_providerVars PROVE ProviderInv'
<1>1. CASE UNCHANGED providerVars
  <2>1. file' = file /\ queries' = queries
    BY <1>1 DEF providerVars
  <2>2. Db!QueriesFound' <=> Db!QueriesFound
    BY <2>1 DEF Db!QueriesFound, Db!GetQuery, Db!Follows, Db!Body, Db!Header
  <2>. QED
    BY <2>1, <2>2 DEF ProviderInv
<1>2. CASE Db!LoadFromFile
  <2>. DEFINE a == Db!Reading[Len(file)]
  <2>1. /\ file' = file /\ queries' = Db!Saved(a) /\ file \in Seq(SqlLines)
        /\ SoFar(a, Len(file)) /\ Len(file) \in Nat /\ DOMAIN file = 1..Len(file)
    BY <1>2, ReadSoFar DEF Db!LoadFromFile, ProviderInv
  <2>. HIDE DEF a
  <2>2. \A key, i : \A j \in DOMAIN file : Closed(key, i, j, Len(file)) <=> Db!Follows(key, i, j)
    BY <2>1 DEF Closed, Lies, Clear, Db!Follows, Db!Body
  <2>3. ASSUME NEW key \in Keys
        PROVE  \/ queries'[key] = <<>> /\ \A i, j \in DOMAIN file : ~Db!Follows(key, i, j)
               \/ \E i, j \in DOMAIN file :
                    /\ Db!Follows(key, i, j) /\ queries'[key] = SubSeq(file, i + 1, j)
                    /\ \A k, l \in DOMAIN file : Db!Follows(key, k, l) => k <= i
    <3>1. \/ /\ queries'[key] = <<>>
             /\ \A i, j \in DOMAIN file : ~Closed(key, i, j, Len(file))
          \/ \E i, j \in DOMAIN file :
               /\ Closed(key, i, j, Len(file)) /\ queries'[key] = SubSeq(file, i + 1, j)
               /\ \A k, m \in DOMAIN file : Closed(key, k, m, Len(file)) => k <= i
      <4>1. Len(file) \in 0..Len(file)
        BY <2>1
      <4>. QED
        BY <2>1, <4>1, SavedFinds
    <3>. QED
      BY <2>2, <3>1
  <2>4. \A key, i, j : Db!Follows(key, i, j)' <=> Db!Follows(key, i, j)
    BY <2>1 DEF Db!Follows, Db!Body, Db!Header
  <2>5. \A key \in Keys : Db!GetQuery(key)' = queries'[key]
    BY DEF Db!GetQuery
  <2>. QED
    BY <2>1, <2>3, <2>4, <2>5 DEF ProviderInv, Db!QueriesFound
<1>. QED
  BY <1>1, <1>2

(* The database of a server (DatabaseManager): a start that succeeded is   *)
(* on the game's database with every table, a start that failed leaves no  *)
(* SQLite database open, a migration is undone by its own file, no call of *)
(* the service is lost or, with one worker, answered out of turn, and the  *)
(* queries of a .sql file are those it holds.  For any number of servers,  *)
(* configurations, tables, migrations, workers, calls and lines.           *)
THEOREM DatabaseIsReady == MasterSpec => []DatabaseInv
<1>. DEFINE I == ManagerInv /\ ServiceInv /\ ProviderInv
<1>1. MasterInit => I
  BY ManagerStart, ServiceStart, ProviderStart DEF MasterInit
<1>2. I /\ [MasterNext]_allVars => I'
  <2>1. [MasterNext]_allVars => /\ [Db!ManagerNext]_managerVars
                                /\ [Db!ServiceNext]_serviceVars
                                /\ [Db!LoadFromFile]_providerVars
    BY DEF MasterNext, allVars, DatabaseNext, databaseVars
  <2>. QED
    BY <2>1, ManagerStep, ServiceStep, ProviderStep
<1>3. I => DatabaseInv
  <2>1. ManagerInv => Db!StartedMeansReady /\ Db!FailedIsClosed /\ Db!OwnFileUndoes
    BY DEF ManagerInv, StartInv, Fits, Pooled, Db!StartedMeansReady, Db!FailedIsClosed, Db!Opened,
       Db!TableExists
  <2>. QED
    BY <2>1, ServiceAnswers DEF DatabaseInv, Db!DatabaseInv, ProviderInv
<1>. QED
  BY <1>1, <1>2, <1>3, PTL DEF MasterSpec
=============================================================================
