------------------------------ MODULE LogService ------------------------------
(***************************************************************************)
(* LogService of the master: one queue, which the master's threads and the *)
(* sessions of its workers fill, a writer thread, rotated files, and Stop, *)
(* the last thing main waits for.                                          *)
(*                                                                         *)
(* The writer sleeps on a condition variable.  Its predicate is evaluated  *)
(* with queueMutex_ held, but Stop changes running_ and notifies without   *)
(* the mutex, so that both can fall between the evaluation and the sleep.  *)
(* A line is [from, text]; text 0 is an empty line, which is not written.  *)
(***************************************************************************)
EXTENDS Integers, Sequences, FiniteSets

CONSTANTS Children,          \* workers, which log through a socket
          MaxLogLines,       \* bound on the lines of a sender
          maxFileSize_,      \* lines a file takes before it is rotated
          FileCounts         \* max_files of the configuration

VARIABLES
    logQueue_,     \* the queue of the service
    running_, maxFiles_,
    writer,        \* loop, tests, sleepy (about to sleep, mutex held), asleep, writes, ended
    line,          \* the line the writer has taken
    files,         \* the file at 1, then those rotated away, the youngest first
    notifications, \* lines pushed whose notify_one is still to come
    stopper,       \* where Stop is: idle, flagged, joining, done
    sink,          \* the socket of a worker: unborn, open, closed
    wire, accepted,\* what is on its way to its session, and whether there is one
    \* History:
    pushed,        \* all lines, in the order of the queue
    sent,          \* the lines each sender made
    atStop         \* how many were pushed when running_ fell

logVars == <<logQueue_, running_, maxFiles_, writer, line, files, notifications, stopper,
             sink, wire, accepted, pushed, sent, atStop>>

Master == "master"
NoLine == [from |-> Master, text |-> -1]
NextTexts(w) == {0, Cardinality({i \in DOMAIN sent[w] : sent[w][i].text > 0}) + 1}

(* Rotation is on (a size of 0 turns it off); no worker is called what the *)
(* master is.                                                              *)
LogConstants ==
    /\ Master \notin Children
    /\ maxFileSize_ \in Nat \ {0} /\ FileCounts \subseteq Nat

(* What earlier runs have left in the files is not modelled.               *)
LogInit ==
    /\ logQueue_ = <<>> /\ running_ = TRUE /\ writer = "loop" /\ line = NoLine
    /\ files = <<<<>>>> /\ maxFiles_ \in FileCounts
    /\ notifications = 0 /\ stopper = "idle"
    /\ sink = [w \in Children |-> "unborn"]
    /\ wire = [w \in Children |-> <<>>] /\ accepted = [w \in Children |-> FALSE]
    /\ pushed = <<>> /\ sent = [w \in Children \cup {Master} |-> <<>>] /\ atStop = 0

MutexFree == writer # "sleepy"

-----------------------------------------------------------------------------
(* The senders.                                                            *)

EnqueueLog(l) ==
    /\ MutexFree
    /\ logQueue_' = Append(logQueue_, l) /\ pushed' = Append(pushed, l)
    /\ notifications' = notifications + 1
    /\ UNCHANGED <<running_, maxFiles_, writer, line, files, stopper, atStop>>

MasterLogs(text) ==
    /\ stopper = "idle" /\ Len(sent[Master]) < MaxLogLines
    /\ EnqueueLog([from |-> Master, text |-> text])
    /\ sent' = [sent EXCEPT ![Master] = Append(@, [from |-> Master, text |-> text])]
    /\ UNCHANGED <<sink, wire, accepted>>

(* notify_one, after the mutex is released.                                *)
Awake == IF writer = "asleep" THEN "tests" ELSE writer

Notify ==
    /\ notifications > 0 /\ notifications' = notifications - 1 /\ writer' = Awake
    /\ UNCHANGED <<logQueue_, running_, maxFiles_, line, files, stopper, sink, wire, accepted,
                   pushed, sent, atStop>>

(* A worker is forked, connects, and gets the socket as a second sink next *)
(* to the service it has inherited.                                        *)
Connect(w) ==
    /\ sink[w] = "unborn" /\ stopper \in {"idle", "flagged"}
    /\ sink' = [sink EXCEPT ![w] = "open"]
    /\ UNCHANGED <<logQueue_, running_, maxFiles_, writer, line, files, notifications, stopper,
                   wire, accepted, pushed, sent, atStop>>

(* A line goes to the socket; the first error closes it for good.  It also *)
(* goes into the worker's copy of logQueue_, which has no writer there and *)
(* grows as long as the worker lives.                                      *)
WorkerLogs(w, text) ==
    /\ sink[w] = "open" /\ Len(sent[w]) < MaxLogLines
    /\ LET l == [from |-> w, text |-> text]
       IN \/ /\ wire' = [wire EXCEPT ![w] = Append(@, l)]
             /\ sent' = [sent EXCEPT ![w] = Append(@, l)]
             /\ UNCHANGED sink
          \/ sink' = [sink EXCEPT ![w] = "closed"] /\ UNCHANGED <<wire, sent>>
    /\ UNCHANGED <<logQueue_, running_, maxFiles_, writer, line, files, notifications, stopper,
                   accepted, pushed, atStop>>

(* acceptLoop ends with the acceptor, which Stop closes.                   *)
AcceptLoop(w) ==
    /\ sink[w] # "unborn" /\ ~accepted[w] /\ stopper \in {"idle", "flagged"}
    /\ accepted' = [accepted EXCEPT ![w] = TRUE]
    /\ UNCHANGED <<logQueue_, running_, maxFiles_, writer, line, files, notifications, stopper,
                   sink, wire, pushed, sent, atStop>>

(* doRead of a LogSession, until the io_context is stopped.                *)
ReadLine(w) ==
    /\ accepted[w] /\ wire[w] # <<>> /\ stopper # "done"
    /\ EnqueueLog(Head(wire[w])) /\ wire' = [wire EXCEPT ![w] = Tail(@)]
    /\ UNCHANGED <<sink, accepted, sent>>

-----------------------------------------------------------------------------
(* The writer.                                                             *)

WriterStep == UNCHANGED <<running_, maxFiles_, notifications, stopper, sink, wire, accepted,
                          pushed, sent, atStop>>

WriterLoop ==
    /\ writer = "loop" /\ WriterStep
    /\ writer' = IF running_ \/ logQueue_ # <<>> THEN "tests" ELSE "ended"
    /\ UNCHANGED <<logQueue_, line, files>>

(* The predicate of the wait, and what follows when it holds.              *)
Test ==
    /\ writer = "tests" /\ WriterStep
    /\ IF logQueue_ # <<>>
       THEN logQueue_' = Tail(logQueue_) /\ line' = Head(logQueue_) /\ writer' = "writes"
       ELSE UNCHANGED <<logQueue_, line>> /\ writer' = IF running_ THEN "sleepy" ELSE "ended"
    /\ UNCHANGED files

Sleep ==
    /\ writer = "sleepy" /\ writer' = "asleep" /\ WriterStep
    /\ UNCHANGED <<logQueue_, line, files>>

(* A variant that does not rename over a file that exists.                 *)
RotatedGently(fs) ==
    IF maxFiles_ > 1 THEN <<<<>>>> \o (IF Len(fs) > maxFiles_ THEN Tail(fs) ELSE fs) ELSE <<<<>>>>

Shorter(fs) == SubSeq(fs, 1, Len(fs) - 1)

(* Every file gets the next number, and the one beyond maxFiles_ is        *)
(* overwritten; with a single file, it is emptied.                         *)
Rotated(fs) ==
    IF maxFiles_ > 1 THEN <<<<>>>> \o (IF Len(fs) > maxFiles_ THEN Shorter(fs) ELSE fs) ELSE <<<<>>>>

Written(fs, l) == [fs EXCEPT ![1] = Append(@, l)]

Write ==
    /\ writer = "writes" /\ writer' = "loop" /\ line' = NoLine /\ WriterStep
    /\ LET grown == Written(files, line)
       IN files' = IF line.text = 0 THEN files
                   ELSE IF Len(grown[1]) >= maxFileSize_ THEN Rotated(grown) ELSE grown
    /\ UNCHANGED logQueue_

-----------------------------------------------------------------------------
(* Stop, by main.                                                          *)

Stopping == UNCHANGED <<logQueue_, maxFiles_, line, files, notifications, sink, wire, accepted,
                        pushed, sent>>

StopFlag ==
    /\ stopper = "idle" /\ stopper' = "flagged" /\ running_' = FALSE /\ atStop' = Len(pushed)
    /\ Stopping /\ UNCHANGED writer

(* The acceptor is closed, the writer notified.                            *)
StopNotify ==
    /\ stopper = "flagged" /\ stopper' = "joining" /\ writer' = Awake
    /\ Stopping /\ UNCHANGED <<running_, atStop>>

StopJoin ==
    /\ stopper = "joining" /\ writer = "ended" /\ stopper' = "done"
    /\ Stopping /\ UNCHANGED <<running_, writer, atStop>>

LogNext ==
    \/ \E text \in NextTexts(Master) : MasterLogs(text)
    \/ \E w \in Children : \/ Connect(w) \/ AcceptLoop(w) \/ ReadLine(w)
                           \/ \E text \in NextTexts(w) : WorkerLogs(w, text)
    \/ Notify \/ WriterLoop \/ Test \/ Sleep \/ Write
    \/ StopFlag \/ StopNotify \/ StopJoin

-----------------------------------------------------------------------------
(* s is what stands in log at these places, in this order.                 *)
Lists(s, places, log) ==
    \E at \in [DOMAIN s -> places] :
        /\ \A i, j \in DOMAIN s : i < j => at[i] < at[j]
        /\ \A p \in places : \E i \in DOMAIN s : at[i] = p
        /\ \A i \in DOMAIN s : s[i] = log[at[i]]

Taken == Len(pushed) - Len(logQueue_)
Finished == IF line = NoLine THEN Taken ELSE Taken - 1
ToWrite(from, to) == {p \in from + 1 .. to : pushed[p].text > 0}

(* The files, the writer's line and the queue are the latest lines in one  *)
(* piece and in order: each file holds what was pushed between two borders,*)
(* and where it begins the next older one ends.  Rotation drops the oldest *)
(* file and nothing else.                                                  *)
QueueIsLatest ==
    /\ Taken >= 0 /\ \A i \in DOMAIN logQueue_ : logQueue_[i] = pushed[Taken + i]
    /\ line # NoLine => Taken > 0 /\ line = pushed[Taken]

NoGap ==
    /\ QueueIsLatest
    /\ \E border \in [1 .. Len(files) + 1 -> 0 .. Finished] :
         /\ border[1] = Finished
         /\ \A k \in DOMAIN files :
              /\ border[k + 1] <= border[k]
              /\ Lists(files[k], ToWrite(border[k + 1], border[k]), pushed)

(* No file outgrows its size, and no more of them are kept than            *)
(* max_files beside the one that is written.                               *)
FilesBounded == Len(files) <= maxFiles_ + 1 /\ \A i \in DOMAIN files : Len(files[i]) <= maxFileSize_

(* When Stop returns, every line that was in the queue when it was called  *)
(* has been written; what is left in the queue came later.                 *)
DrainedAtStop == stopper = "done" => Len(logQueue_) <= Len(pushed) - atStop

(* The lines of one sender are in the order it made them, none of them     *)
(* missing, up to those on their way.                                      *)
Coming(w) == IF w = Master THEN <<>> ELSE wire[w]
Through(w) == Len(sent[w]) - Len(Coming(w))

SendersInOrder ==
    \A w \in DOMAIN sent :
        /\ Through(w) >= 0
        /\ Lists(SubSeq(sent[w], 1, Through(w)), {p \in DOMAIN pushed : pushed[p].from = w}, pushed)
        /\ \A i \in DOMAIN Coming(w) : Coming(w)[i] = sent[w][Through(w) + i]

(* A writer that has nothing to do sleeps until a notification is on its   *)
(* way: it never sleeps through a line in the queue.                       *)
NoLineForgotten == writer = "asleep" /\ logQueue_ # <<>> => notifications > 0

LogInv == NoGap /\ FilesBounded /\ DrainedAtStop /\ SendersInOrder /\ NoLineForgotten
=============================================================================
