---------------------------- MODULE BinarySession ----------------------------
(***************************************************************************)
(* One client connection of a worker (src/src/network/BinarySession.cpp).  *)
(*                                                                         *)
(* The io threads of the worker's ConnectionManager run the session's      *)
(* handlers (read, write completion, timers) without a strand, and the     *)
(* thread of the IPC channel calls Send for what the master pushes.  A     *)
(* thread's todo is the list of steps its current handler still has to     *)
(* run; write_mutex_ is a plain std::mutex, so a thread that asks for it   *)
(* while holding it waits for itself.                                      *)
(***************************************************************************)
EXTENDS Naturals, Sequences, FiniteSets

CONSTANTS IoThreads,    \* threads that run ioContext_
          Ipc,          \* the thread that delivers the master's pushes
          NoThread,     \* nobody holds write_mutex_
          ClientKinds,  \* the kinds of messages the client sends
          Timers,       \* the timers that expire in the time a run looks at
          MaxIn,        \* bound on the messages the client sends
          MaxPush,      \* bound on the master's pushes
          MaxAdapt      \* bound on the firings of the adaptation timer

Kinds == {"plain", "reliable", "ping", "bad", "huge"}
Threads == IoThreads \cup {Ipc}

ASSUME SessionAssumption ==
    /\ IsFiniteSet(IoThreads) /\ Ipc \notin IoThreads
    /\ NoThread \notin IoThreads \cup {Ipc}
    /\ ClientKinds \subseteq Kinds
    /\ Timers \subseteq {"heartbeat", "deadline"}
    /\ MaxIn \in Nat /\ MaxPush \in Nat /\ MaxAdapt \in Nat

VARIABLES
    todo,       \* per thread, the steps left in the handler it runs
    num,        \* per thread, the sequence number of the frame it sends, or 0
    mutex,      \* the holder of write_mutex_
    queue,      \* write_queue_
    nextSeq,    \* next_sequence_
    op,         \* the async_write in progress
    reading,    \* the read loop
    deadline,   \* the payload deadline timer
    heartbeat,  \* the heartbeat timer
    adapting,   \* the adaptation timer is armed
    silence,    \* timer periods since last_heartbeat_
    closing,    \* closing_ (and, just after it, connected_ and the socket)
    closeCalls, \* calls of close_handler_
    registered, \* the session is in the manager's sessions_
    gone,       \* the client has stopped talking
    received, pushes, adapts,  \* counters behind the bounds
    pushed,     \* history: frames that entered write_queue_, in order
    sent        \* history: frames the socket accepted, in order

writing == <<mutex, queue, nextSeq, op, pushed, sent>>
timers == <<deadline, heartbeat, adapting, silence>>
life == <<closing, closeCalls, registered>>
inputs == <<gone, received, pushes, adapts>>
vars == <<todo, num, writing, reading, timers, life, inputs>>

\* next_sequence_ numbers the frames of Send and SendAcknowledgment; SendRaw
\* writes bare text.
Frames == [kind : {"data", "ack"}, seq : Nat] \cup [kind : {"raw"}, seq : {0}]

Steps == {"send", "push", "write", "start", "raw", "rawpush", "ack",
          "ackpush", "unlock", "pop", "read", "rearm", "adapt", "stop",
          "closed"}

TypeOK ==
    /\ todo \in [Threads -> Seq(Steps)]
    /\ num \in [Threads -> Nat]
    /\ mutex \in Threads \cup {NoThread}
    /\ queue \in Seq(Frames)
    /\ nextSeq \in Nat
    /\ op \in {"none", "inflight", "done", "failed"}
    /\ reading \in {"off", "header", "body", "busy"}
    /\ deadline \in {"off", "on", "fired"}
    /\ heartbeat \in {"off", "on", "fired"}
    /\ adapting \in BOOLEAN
    /\ silence \in 0..3
    /\ closing \in BOOLEAN
    /\ closeCalls \in Nat
    /\ registered \in BOOLEAN
    /\ gone \in BOOLEAN
    /\ received \in 0..MaxIn /\ pushes \in 0..MaxPush /\ adapts \in 0..MaxAdapt
    /\ pushed \in Seq(Frames)
    /\ sent \in Seq(Frames)

\* The accept handler has registered the session and runs Start on one of the
\* io threads: capabilities, read loop, heartbeat, adaptation.
Init ==
    /\ \E t \in IoThreads :
         todo = [u \in Threads |->
                   IF u = t THEN <<"send", "read", "rearm", "adapt">>
                   ELSE <<>>]
    /\ num = [t \in Threads |-> 0]
    /\ mutex = NoThread
    /\ queue = <<>> /\ pushed = <<>> /\ sent = <<>>
    /\ nextSeq = 1
    /\ op = "none"
    /\ reading = "off"
    /\ deadline = "off" /\ heartbeat = "off" /\ adapting = FALSE
    /\ silence = 0
    /\ closing = FALSE /\ closeCalls = 0 /\ registered = TRUE
    /\ gone = FALSE /\ received = 0 /\ pushes = 0 /\ adapts = 0
-----------------------------------------------------------------------------
(* Threads.                                                                *)

At(t, step) == todo[t] # <<>> /\ Head(todo[t]) = step
Idle(t) == todo[t] = <<>>

\* The current step is replaced by the steps in s, or a handler starts.
Continue(t, s) == todo' = [todo EXCEPT ![t] = s \o Tail(@)]
Begin(t, s) == Idle(t) /\ todo' = [todo EXCEPT ![t] = s]
-----------------------------------------------------------------------------
(* Sending.                                                                *)

TakeNumber(t) == /\ num' = [num EXCEPT ![t] = nextSeq]
                 /\ nextSeq' = nextSeq + 1

\* Send: give up when the session is closing, else number the frame.
Send(t) ==
    /\ At(t, "send")
    /\ \/ /\ closing
          /\ Continue(t, <<>>)
          /\ UNCHANGED <<num, nextSeq>>
       \/ /\ ~closing
          /\ TakeNumber(t)
          /\ Continue(t, <<"push">>)
    /\ UNCHANGED <<mutex, queue, op, pushed, sent, reading, timers, life,
                   inputs>>

Enqueue(f) == queue' = Append(queue, f) /\ pushed' = Append(pushed, f)

\* Variant: a sender that finds one frame in the queue thinks it is its own.
FirstInQueueOrSecond == Len(queue) <= 1

FirstInQueue == queue = <<>>

\* The locked part of Send, after which the first frame in the queue starts
\* the write chain.
Push(t) ==
    /\ At(t, "push")
    /\ mutex = NoThread
    /\ Enqueue([kind |-> "data", seq |-> num[t]])
    /\ Continue(t, IF FirstInQueue THEN <<"write">> ELSE <<>>)
    /\ num' = [num EXCEPT ![t] = 0]
    /\ UNCHANGED <<mutex, nextSeq, op, sent, reading, timers, life, inputs>>

\* SendRaw looks at closing_ before it takes the mutex.
SendRaw(t) ==
    /\ At(t, "raw")
    /\ Continue(t, IF closing THEN <<>> ELSE <<"rawpush">>)
    /\ UNCHANGED <<num, writing, reading, timers, life, inputs>>

\* SendAcknowledgment numbers its frame without looking at closing_.
SendAcknowledgment(t) ==
    /\ At(t, "ack")
    /\ TakeNumber(t)
    /\ Continue(t, <<"ackpush">>)
    /\ UNCHANGED <<mutex, queue, op, pushed, sent, reading, timers, life,
                   inputs>>

\* The locked part of SendRaw and SendAcknowledgment: when the frame is the
\* first in the queue, DoBinaryWrite is called with the mutex held.
LockedPush(t) ==
    /\ mutex = NoThread
    /\ \/ At(t, "rawpush") /\ Enqueue([kind |-> "raw", seq |-> 0])
       \/ At(t, "ackpush") /\ Enqueue([kind |-> "ack", seq |-> num[t]])
    /\ mutex' = IF FirstInQueue THEN t ELSE NoThread
    /\ Continue(t, IF FirstInQueue THEN <<"write", "unlock">> ELSE <<>>)
    /\ num' = [num EXCEPT ![t] = 0]
    /\ UNCHANGED <<nextSeq, op, sent, reading, timers, life, inputs>>

Unlock(t) ==
    /\ At(t, "unlock")
    /\ mutex' = NoThread
    /\ Continue(t, <<>>)
    /\ UNCHANGED <<num, queue, nextSeq, op, pushed, sent, reading, timers,
                   life, inputs>>

\* DoBinaryWrite before its lock: nothing to do, or go on.
DoBinaryWrite(t) ==
    /\ At(t, "write")
    /\ Continue(t, IF closing \/ queue = <<>> THEN <<>> ELSE <<"start">>)
    /\ UNCHANGED <<num, writing, reading, timers, life, inputs>>

\* DoBinaryWrite once it has the mutex: start writing the front frame.
StartWrite(t) ==
    /\ At(t, "start")
    /\ mutex = NoThread
    /\ op' = IF queue = <<>> THEN op ELSE "inflight"
    /\ Continue(t, <<>>)
    /\ UNCHANGED <<num, mutex, queue, nextSeq, pushed, sent, reading, timers,
                   life, inputs>>

\* Variant: the newest frame is written.
BackOfQueue == queue[Len(queue)]

FrontOfQueue == Head(queue)

\* The socket takes the frame, or the write fails.
FinishWrite ==
    /\ op = "inflight"
    /\ \/ /\ ~closing
          /\ op' = "done"
          /\ sent' = Append(sent, FrontOfQueue)
       \/ op' = "failed" /\ UNCHANGED sent
    /\ UNCHANGED <<todo, num, mutex, queue, nextSeq, pushed, reading, timers,
                   life, inputs>>

\* The completion handler.
WriteHandler(t) ==
    /\ op \in {"done", "failed"}
    /\ Begin(t, IF op = "done" THEN <<"pop">> ELSE <<"stop">>)
    /\ op' = "none"
    /\ UNCHANGED <<num, mutex, queue, nextSeq, pushed, sent, reading, timers,
                   life, inputs>>

WriteNext == IF Len(queue) > 1 THEN <<"write">> ELSE <<>>

Pop(t) ==
    /\ At(t, "pop")
    /\ mutex = NoThread
    /\ queue' = Tail(queue)
    /\ Continue(t, WriteNext)
    /\ UNCHANGED <<num, mutex, nextSeq, op, pushed, sent, reading, timers,
                   life, inputs>>
-----------------------------------------------------------------------------
(* Reading.                                                                *)

\* What the client's message makes the read handler do: the default handler
\* gives it to onClientMessage, which has no effect on the session (nor have
\* ERROR, SUCCESS and PLAYER_STATE), FLAG_RELIABLE adds an acknowledgment, a
\* heartbeat is echoed, a version, checksum or decompression error is
\* answered, a length above MAX_MESSAGE_SIZE ends the session.
Program(kind) ==
    CASE kind = "plain" -> <<"read">>
      [] kind = "reliable" -> <<"ack", "read">>
      [] kind \in {"ping", "bad"} -> <<"send", "read">>
      [] kind = "huge" -> <<"stop">>

\* The header of a message with a payload arrives.
HeaderRead ==
    /\ reading = "header"
    /\ ~closing /\ ~gone
    /\ received < MaxIn
    /\ reading' = "body"
    /\ deadline' = IF deadline = "off" THEN "on" ELSE deadline
    /\ UNCHANGED <<todo, num, writing, heartbeat, adapting, silence, life, inputs>>

\* A whole message has arrived; the deadline may have expired just before.
MessageRead(t, kind) ==
    /\ IF kind \in {"ping", "huge"} THEN reading = "header"
                                    ELSE reading = "body"
    /\ ~closing /\ ~gone
    /\ received < MaxIn
    /\ Begin(t, Program(kind))
    /\ received' = received + 1
    /\ reading' = "busy"
    /\ deadline' = IF deadline = "on" THEN "off" ELSE deadline
    /\ silence' = IF kind \in {"bad", "huge"} THEN silence ELSE 0
    /\ UNCHANGED <<num, writing, heartbeat, adapting, life, gone, pushes, adapts>>

\* The connection ends or the socket is closed: the read fails.
ReadError(t) ==
    /\ reading \in {"header", "body"}
    /\ closing \/ gone
    /\ Begin(t, <<"stop">>)
    /\ reading' = "busy"
    /\ deadline' = IF deadline = "on" THEN "off" ELSE deadline
    /\ UNCHANGED <<num, writing, heartbeat, adapting, silence, life, inputs>>

\* DoBinaryRead.
DoBinaryRead(t) ==
    /\ At(t, "read")
    /\ Continue(t, <<>>)
    /\ reading' = IF closing THEN "off" ELSE "header"
    /\ UNCHANGED <<num, writing, timers, life, inputs>>
-----------------------------------------------------------------------------
(* Timers.                                                                 *)

\* CheckHeartbeat arms the 30 s timer.
CheckHeartbeat(t) ==
    /\ At(t, "rearm")
    /\ Continue(t, <<>>)
    /\ heartbeat' = IF closing THEN heartbeat ELSE "on"
    /\ UNCHANGED <<num, writing, reading, deadline, adapting, silence, life,
                   inputs>>

\* Thirty seconds go by: the timer expires.
HeartbeatExpires ==
    /\ "heartbeat" \in Timers
    /\ heartbeat = "on"
    /\ heartbeat' = "fired"
    /\ silence' = IF silence = 3 THEN 3 ELSE silence + 1
    /\ UNCHANGED <<todo, num, writing, reading, deadline, adapting, life, inputs>>

\* Variant: the timer is not armed again after the ping.
PingOnly == <<"send">>

PingAndRearm == <<"send", "rearm">>

\* Its handler: more than 60 s of silence ends the session, more than 30 s
\* makes it send a ping.
HeartbeatHandler(t) ==
    /\ heartbeat = "fired"
    /\ heartbeat' = "off"
    /\ Begin(t, IF closing THEN <<>>
                ELSE IF silence = 3 THEN <<"stop">>
                ELSE IF silence = 2 THEN PingAndRearm
                ELSE <<"rearm">>)
    /\ UNCHANGED <<num, writing, reading, deadline, adapting, silence, life,
                   inputs>>

\* The payload deadline expires, or has expired and its handler runs.
DeadlineExpires ==
    /\ "deadline" \in Timers
    /\ deadline = "on"
    /\ deadline' = "fired"
    /\ UNCHANGED <<todo, num, writing, reading, heartbeat, adapting, silence,
                   life, inputs>>

DeadlineHandler(t) ==
    /\ deadline = "fired"
    /\ deadline' = "off"
    /\ Begin(t, IF closing THEN <<>> ELSE <<"stop">>)
    /\ UNCHANGED <<num, writing, reading, heartbeat, adapting, silence, life,
                   inputs>>

\* StartNetworkAdaptation arms the 10 s adaptation timer, in a session that is
\* being stopped too.
StartNetworkAdaptation(t) ==
    /\ At(t, "adapt")
    /\ Continue(t, <<>>)
    /\ adapting' = TRUE
    /\ UNCHANGED <<num, writing, reading, deadline, heartbeat, silence, life,
                   inputs>>

\* It expires.  ProcessAcknowledgment has no caller, so every packet sent counts
\* as lost: when the session sent any in the last 60 s, the capabilities of
\* Start at the first firing, the connection is UNSTABLE and the network_warning
\* goes out with SendJson, that is SendRaw.
CheckNetworkConditions(t) ==
    /\ adapting
    /\ adapts < MaxAdapt
    /\ nextSeq > 1
    /\ \/ Begin(t, <<"raw", "adapt">>)
       \/ adapts > 0 /\ Begin(t, <<"adapt">>)
    /\ adapting' = FALSE
    /\ adapts' = adapts + 1
    /\ UNCHANGED <<num, writing, reading, deadline, heartbeat, silence, life,
                   gone, received, pushes>>
-----------------------------------------------------------------------------
(* Stopping, and the rest of the worker.                                   *)

StopOnce == IF closing THEN <<>> ELSE <<"closed">>

Stop(t) ==
    /\ At(t, "stop")
    /\ closing' = TRUE
    /\ Continue(t, StopOnce)
    /\ UNCHANGED <<num, writing, reading, timers, closeCalls, registered,
                   inputs>>

\* The rest of Stop: cancel the timers, close the socket, call close_handler_,
\* which is onClientClose: its own Stop returns at once, and the session leaves
\* sessions_.  A timer whose handler is already queued is not cancelled.
FinishStop(t) ==
    /\ At(t, "closed")
    /\ Continue(t, <<>>)
    /\ closeCalls' = closeCalls + 1
    /\ registered' = FALSE
    /\ heartbeat' = IF heartbeat = "on" THEN "off" ELSE heartbeat
    /\ adapting' = FALSE
    /\ UNCHANGED <<num, writing, reading, deadline, silence, closing, inputs>>

\* OnMasterPush has found the session in sessions_ and calls Send.
MasterPush ==
    /\ pushes < MaxPush
    /\ registered
    /\ Begin(Ipc, <<"send">>)
    /\ pushes' = pushes + 1
    /\ UNCHANGED <<num, writing, reading, timers, life, gone, received, adapts>>

\* The client disappears: it sends no more, and its connection may stay open
\* without a word.
GoSilent ==
    /\ ~gone
    /\ gone' = TRUE
    /\ UNCHANGED <<todo, num, writing, reading, timers, life, received, pushes,
                   adapts>>
-----------------------------------------------------------------------------
Step(t) ==
    \/ Send(t) \/ Push(t) \/ SendRaw(t) \/ SendAcknowledgment(t)
    \/ LockedPush(t) \/ Unlock(t) \/ DoBinaryWrite(t) \/ StartWrite(t)
    \/ Pop(t) \/ DoBinaryRead(t) \/ CheckHeartbeat(t)
    \/ StartNetworkAdaptation(t) \/ Stop(t) \/ FinishStop(t)

Handler(t) ==
    \/ WriteHandler(t) \/ ReadError(t) \/ HeartbeatHandler(t)
    \/ DeadlineHandler(t) \/ CheckNetworkConditions(t)

Receive == HeaderRead \/ \E t \in IoThreads, k \in ClientKinds : MessageRead(t, k)

Next ==
    \/ \E t \in Threads : Step(t)
    \/ \E t \in IoThreads : Handler(t)
    \/ Receive \/ FinishWrite \/ HeartbeatExpires \/ DeadlineExpires
    \/ MasterPush \/ GoSilent

Spec == Init /\ [][Next]_vars

\* Every thread runs the handler it is in, the pool picks up the handlers that
\* are ready, the socket answers and the clock advances.
Fairness ==
    /\ \A t \in Threads : WF_vars(Step(t))
    /\ WF_vars(\E t \in IoThreads : WriteHandler(t))
    /\ WF_vars(\E t \in IoThreads : HeartbeatHandler(t))
    /\ WF_vars(FinishWrite)
    /\ WF_vars(HeartbeatExpires)

FairSpec == Spec /\ Fairness
-----------------------------------------------------------------------------
(* Properties.                                                             *)

Has(t, steps) == \E i \in DOMAIN todo[t] : todo[t][i] \in steps

\* The carriers of the write chain: a thread that starts or pops a write, or
\* the write itself.
Carriers == Cardinality({t \in Threads : Has(t, {"write", "start", "pop"})})
            + (IF op = "none" THEN 0 ELSE 1)

\* At most one carrier at any time, so no two async_write calls overlap on the
\* socket; and exactly one while frames wait in a session nobody is stopping,
\* so no frame waits for a write that nobody will start.
OneCarrier ==
    /\ Carriers <= 1
    /\ (queue # <<>> /\ ~closing /\ \A t \in Threads : ~Has(t, {"stop"}))
           => Carriers = 1

\* The socket gets the frames in the order in which they entered the queue,
\* each once, whatever thread queued them.
SentInOrder == sent = SubSeq(pushed, 1, Len(sent))

\* close_handler_ runs once, however many threads stop the session, and the
\* session stays in sessions_ until it does.
ClosedOnce == closeCalls = IF registered THEN 0 ELSE 1

\* What must hold of a session at any time.
SessionInv == TypeOK /\ OneCarrier /\ SentInOrder /\ ClosedOnce

\* A thread waits for a mutex that it holds itself.
SelfDeadlocked == \E t \in Threads : mutex = t /\ At(t, "start")

Acknowledged == Cardinality({i \in DOMAIN sent : sent[i].kind = "ack"})

\* To a client that sends only reliable messages, as many acknowledgments are
\* sent as messages were received, unless the session is stopped.
ReliableAcknowledged ==
    ClientKinds = {"reliable"} =>
        \A n \in 1..MaxIn :
            (received >= n) ~> (Acknowledged >= n \/ closing)

\* A client that stops talking is disconnected by the heartbeat or by the
\* failing read, unless a thread is deadlocked on write_mutex_.
SilentClientDropped == gone ~> (~registered \/ SelfDeadlocked)
=============================================================================
