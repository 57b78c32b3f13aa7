--------------------------- MODULE ConnectionsProofs ---------------------------
(***************************************************************************)
(* For any number of io threads and messages, the two kinds of client      *)
(* connection keep their invariants: SessionInv of BinarySession and       *)
(* ConnectionInv of WebSocketConnection; and what is measured and limited  *)
(* on them keeps TrafficInv, whatever the rates and the history.           *)
(***************************************************************************)
EXTENDS MCConnections, FiniteSetTheorems, SequenceTheorems, NaturalsInduction,
        WellFoundedInduction, TLAPS

(***************************************************************************)
(* What both have in common: threads that run programs, sequences of steps *)
(* of which only the first matters to the invariants, because the steps    *)
(* that matter only ever stand at the front of a program.                  *)
(***************************************************************************)
Front(s, M) == IF s # <<>> /\ Head(s) \in M THEN Head(s) ELSE "other"
OnlyInFront(s, M) == \A i \in DOMAIN s : i > 1 => s[i] \notin M
Replaced(T, T2, t, n) == T[t] # <<>> /\ T2 = [T EXCEPT ![t] = n \o Tail(@)]
Started(T, T2, t, n) == T2 = [T EXCEPT ![t] = n]
Fronts(T, T2, Th, M, t, n) ==
    \A u \in Th : Front(T2[u], M) = IF u = t THEN Front(n, M) ELSE Front(T[u], M)
Programs(T, Th, St, M) == T \in [Th -> Seq(St)] /\ \A t \in Th : OnlyInFront(T[t], M)

\* What is left of a program whose first step is done has nothing that matters.
LEMMA TailOnlyOther ==
    ASSUME NEW St, NEW M, NEW s \in Seq(St), s # <<>>, OnlyInFront(s, M)
    PROVE  /\ Tail(s) \in Seq(St) /\ OnlyInFront(Tail(s), M) /\ Front(Tail(s), M) = "other"
           /\ \A i \in DOMAIN Tail(s) : Tail(s)[i] \notin M
<1>1. /\ Tail(s) \in Seq(St) /\ Len(Tail(s)) = Len(s) - 1
      /\ \A i \in 1..Len(Tail(s)) : Tail(s)[i] = s[i + 1]
  BY HeadTailProperties
<1>2. /\ DOMAIN s = 1..Len(s) /\ DOMAIN Tail(s) = 1..Len(Tail(s))
      /\ Len(s) \in Nat /\ Len(Tail(s)) \in Nat
  BY <1>1, LenProperties
<1>3. \A i \in DOMAIN Tail(s) : Tail(s)[i] \notin M
  BY <1>1, <1>2 DEF OnlyInFront
<1>4. Tail(s) # <<>> => Head(Tail(s)) = Tail(s)[1] /\ 1 \in DOMAIN Tail(s)
  BY <1>1, <1>2, EmptySeq
<1>. QED
  BY <1>1, <1>3, <1>4 DEF OnlyInFront, Front

\* A step is replaced by other ones.
LEMMA ProgramContinues ==
    ASSUME NEW St, NEW M, NEW s \in Seq(St), s # <<>>, OnlyInFront(s, M),
           NEW n \in Seq(St), OnlyInFront(n, M)
    PROVE  /\ n \o Tail(s) \in Seq(St) /\ OnlyInFront(n \o Tail(s), M)
           /\ Front(n \o Tail(s), M) = Front(n, M)
<1>. DEFINE r == Tail(s)
            all == n \o r
<1>1. /\ r \in Seq(St) /\ OnlyInFront(r, M) /\ Front(r, M) = "other"
      /\ \A i \in DOMAIN r : r[i] \notin M
  BY TailOnlyOther
<1>. HIDE DEF r
<1>2. CASE n = <<>>
  <2>1. all = r
    BY <1>1, <1>2, ConcatEmptySeq
  <2>2. Front(n, M) = "other"
    BY <1>2 DEF Front
  <2>. HIDE DEF all
  <2>. QED
    BY <1>1, <2>1, <2>2 DEF all, r
<1>3. CASE n # <<>>
  <2>1. /\ all \in Seq(St) /\ Len(all) = Len(n) + Len(r)
        /\ \A i \in 1..Len(n) + Len(r) : all[i] = IF i <= Len(n) THEN n[i] ELSE r[i - Len(n)]
    BY <1>1, ConcatProperties
  <2>2. /\ Len(n) \in Nat /\ Len(n) >= 1 /\ Len(r) \in Nat /\ Len(all) \in Nat
        /\ DOMAIN n = 1..Len(n) /\ DOMAIN all = 1..Len(all) /\ DOMAIN r = 1..Len(r)
    BY <1>1, <1>3, <2>1, LenProperties, EmptySeq
  <2>. HIDE DEF all
  <2>3. \A i \in DOMAIN all : i > 1 => all[i] \notin M
    <3>. SUFFICES ASSUME NEW i \in 1..Len(all), i > 1 PROVE all[i] \notin M
      BY <2>2
    <3>1. CASE i <= Len(n)
      BY <2>1, <2>2, <3>1 DEF OnlyInFront
    <3>2. CASE i > Len(n)
      <4>1. i - Len(n) \in 1..Len(r) /\ all[i] = r[i - Len(n)]
        BY <2>1, <2>2, <3>2
      <4>. QED
        BY <1>1, <2>2, <4>1
    <3>. QED
      BY <2>2, <3>1, <3>2
  <2>4. Head(all) = Head(n) /\ all # <<>>
    <3>1. all[1] = n[1] /\ Head(all) = all[1] /\ Head(n) = n[1]
      BY <1>3, <2>1, <2>2
    <3>2. Len(all) # 0
      BY <2>1, <2>2
    <3>. QED
      BY <3>1, <3>2, EmptySeq
  <2>. QED
    BY <1>3, <2>1, <2>3, <2>4 DEF OnlyInFront, Front, all, r
<1>. QED
  BY <1>2, <1>3 DEF r

\* Programs after a step of thread t, and which step is at whose front.
LEMMA ThreadContinues ==
    ASSUME NEW St, NEW M, NEW Th, NEW T, Programs(T, Th, St, M), NEW t \in Th,
           NEW n \in Seq(St), OnlyInFront(n, M), NEW T2, Replaced(T, T2, t, n)
    PROVE  Programs(T2, Th, St, M) /\ Fronts(T, T2, Th, M, t, n)
<1>. DEFINE new == n \o Tail(T[t])
<1>1. T \in [Th -> Seq(St)] /\ T[t] \in Seq(St) /\ OnlyInFront(T[t], M) /\ T[t] # <<>>
  BY DEF Programs, Replaced
<1>2. new \in Seq(St) /\ OnlyInFront(new, M) /\ Front(new, M) = Front(n, M)
  BY <1>1, ProgramContinues
<1>3. T2 = [T EXCEPT ![t] = new]
  BY DEF Replaced
<1>. HIDE DEF new
<1>. QED
  BY <1>1, <1>2, <1>3, Zenon DEF Programs, Fronts

\* The same when thread t starts a handler.
LEMMA ThreadBegins ==
    ASSUME NEW St, NEW M, NEW Th, NEW T, Programs(T, Th, St, M), NEW t \in Th,
           NEW n \in Seq(St), OnlyInFront(n, M), NEW T2, Started(T, T2, t, n)
    PROVE  Programs(T2, Th, St, M) /\ Fronts(T, T2, Th, M, t, n)
BY Zenon DEF Programs, Started, Fronts

\* The programs of the handlers: nothing, one step, or one and another that
\* does not matter.
LEMMA ShortPrograms ==
    ASSUME NEW St, NEW M
    PROVE  /\ <<>> \in Seq(St) /\ OnlyInFront(<<>>, M) /\ Front(<<>>, M) = "other"
           /\ \A a \in St : /\ <<a>> \in Seq(St) /\ OnlyInFront(<<a>>, M)
                            /\ Front(<<a>>, M) = IF a \in M THEN a ELSE "other"
           /\ \A a \in St, b \in St \ M :
                 /\ <<a, b>> \in Seq(St) /\ OnlyInFront(<<a, b>>, M)
                 /\ Front(<<a, b>>, M) = IF a \in M THEN a ELSE "other"
BY DEF OnlyInFront, Front
-----------------------------------------------------------------------------
(***************************************************************************)
(* BinarySession.  The write chain is carried by one thread or by the      *)
(* write in progress, and only while frames wait.  The first frame of the  *)
(* queue stays there between its write and its pop.                        *)
(***************************************************************************)
Matter == {"write", "start", "pop", "stop", "closed"}
BinPrograms == Programs(todo, Threads, Steps, Matter)
doing == [t \in Threads |-> Front(todo[t], Matter)]

Carries(t) == doing[t] \in {"write", "start", "pop"}
Carried == op # "none" \/ \E t \in Threads : Carries(t)
Stopping == closing \/ \E t \in Threads : doing[t] = "stop"

OneChain ==
    /\ \A t, u \in Threads : Carries(t) /\ Carries(u) => t = u
    /\ \A t \in Threads : Carries(t) => op = "none"
    /\ Carried => queue # <<>>
    /\ queue # <<>> => Carried \/ Stopping

\* How many frames have left the queue: those sent, but for the one whose pop
\* is still to come.
Popping == op = "done" \/ \E t \in Threads : doing[t] = "pop"
LeftQueue == IF Popping THEN Len(sent) - 1 ELSE Len(sent)

InOrder ==
    /\ LeftQueue \in Nat
    /\ Len(pushed) = LeftQueue + Len(queue)
    /\ \A i \in 1..Len(queue) : pushed[LeftQueue + i] = queue[i]
    /\ \A i \in 1..Len(sent) : sent[i] = pushed[i]

\* One thread at most gets as far as close_handler_.
OneCloser ==
    /\ \A t, u \in Threads : doing[t] = "closed" /\ doing[u] = "closed" => t = u
    /\ \A t \in Threads : doing[t] = "closed" => closing /\ registered
    /\ ~registered => closing
    /\ closeCalls = IF registered THEN 0 ELSE 1

BinInv == TypeOK /\ BinPrograms /\ OneChain /\ InOrder /\ OneCloser

\* A handler at step x goes on with the steps of n.
LEMMA BinaryContinues ==
    ASSUME BinPrograms, NEW t \in Threads, NEW x, At(t, x),
           NEW n \in Seq(Steps), OnlyInFront(n, Matter), Continue(t, n)
    PROVE  /\ BinPrograms' /\ doing' = [doing EXCEPT ![t] = Front(n, Matter)]
           /\ doing[t] = IF x \in Matter THEN x ELSE "other"
<1>1. todo[t] # <<>> /\ Head(todo[t]) = x
  BY DEF At
<1>2. Replaced(todo, todo', t, n)
  BY <1>1 DEF Continue, Replaced
<1>3. Programs(todo, Threads, Steps, Matter)
  BY DEF BinPrograms
<1>4. /\ Programs(todo', Threads, Steps, Matter)
      /\ Fronts(todo, todo', Threads, Matter, t, n)
  BY <1>2, <1>3, ThreadContinues
<1>5. doing[t] = IF x \in Matter THEN x ELSE "other"
  BY <1>1 DEF doing, Front
<1>. QED
  BY <1>4, <1>5, Zenon DEF BinPrograms, doing, Fronts

\* A thread that does nothing starts a handler.
LEMMA BinaryBegins ==
    ASSUME BinPrograms, NEW t \in Threads,
           NEW n \in Seq(Steps), OnlyInFront(n, Matter), Begin(t, n)
    PROVE  /\ BinPrograms' /\ doing' = [doing EXCEPT ![t] = Front(n, Matter)]
           /\ doing[t] = "other"
<1>1. todo[t] = <<>> /\ Started(todo, todo', t, n)
  BY DEF Begin, Idle, Started
<1>2. Programs(todo, Threads, Steps, Matter)
  BY DEF BinPrograms
<1>3. /\ Programs(todo', Threads, Steps, Matter)
      /\ Fronts(todo, todo', Threads, Matter, t, n)
  BY <1>1, <1>2, ThreadBegins
<1>4. doing[t] = "other"
  BY <1>1 DEF doing, Front
<1>. QED
  BY <1>3, <1>4, Zenon DEF BinPrograms, doing, Fronts

\* The programs of BinarySession.
LEMMA BinaryPrograms ==
    /\ /\ <<>> \in Seq(Steps) /\ OnlyInFront(<<>>, Matter)
       /\ Front(<<>>, Matter) = "other"
    /\ \A x \in Steps :
          /\ <<x>> \in Seq(Steps) /\ OnlyInFront(<<x>>, Matter)
          /\ Front(<<x>>, Matter) = IF x \in Matter THEN x ELSE "other"
    /\ \A x \in Steps, y \in Steps \ Matter :
          /\ <<x, y>> \in Seq(Steps) /\ OnlyInFront(<<x, y>>, Matter)
          /\ Front(<<x, y>>, Matter) = IF x \in Matter THEN x ELSE "other"
BY ShortPrograms, Zenon

\* A step beside the write chain and the close: at most, a thread is now about
\* to stop the session.
Aside == /\ \E t \in Threads :
              \/ doing' = doing
              \/ doing[t] = "other" /\ doing' = [doing EXCEPT ![t] = "stop"]
         /\ UNCHANGED <<op, queue, pushed, sent, closing, closeCalls, registered>>

LEMMA AsideKeeps ==
    ASSUME OneChain, InOrder, OneCloser, Aside
    PROVE  OneChain' /\ InOrder' /\ OneCloser'
<1>1. PICK t \in Threads :
         \/ doing' = doing
         \/ doing[t] = "other" /\ doing' = [doing EXCEPT ![t] = "stop"]
  BY DEF Aside
<1>2. \A u \in Threads : /\ Carries(u)' <=> Carries(u)
                         /\ doing'[u] = "pop" <=> doing[u] = "pop"
                         /\ doing'[u] = "closed" <=> doing[u] = "closed"
                         /\ doing[u] = "stop" => doing'[u] = "stop"
  BY <1>1 DEF doing, Carries
<1>3. UNCHANGED <<op, queue, pushed, sent, closing, closeCalls, registered>>
  BY DEF Aside
<1>4. (Carried' <=> Carried) /\ (Popping' <=> Popping) /\ (Stopping => Stopping')
  BY <1>2, <1>3 DEF Carried, Popping, Stopping
<1>5. OneChain'
  BY <1>2, <1>3, <1>4 DEF OneChain
<1>6. LeftQueue' = LeftQueue
  BY <1>3, <1>4 DEF LeftQueue
<1>7. InOrder'
  BY <1>3, <1>6 DEF InOrder
<1>8. OneCloser'
  BY <1>2, <1>3 DEF OneCloser
<1>. QED
  BY <1>5, <1>7, <1>8

\* A step that does not matter is replaced by others that do not.
Others == Steps \ Matter

LEMMA OtherStep ==
    ASSUME BinPrograms, NEW t \in Threads, NEW x \in Others, At(t, x),
           NEW n, n = <<>> \/ \E y \in Others : n = <<y>>, Continue(t, n)
    PROVE  BinPrograms' /\ doing' = doing
<1>1. n \in Seq(Steps) /\ OnlyInFront(n, Matter) /\ Front(n, Matter) = "other"
  BY BinaryPrograms DEF Others
<1>2. /\ BinPrograms' /\ doing' = [doing EXCEPT ![t] = "other"]
      /\ doing[t] = "other"
  BY <1>1, BinaryContinues DEF Others
<1>. QED
  BY <1>2, Zenon DEF doing

LEMMA OtherHandler ==
    ASSUME BinPrograms, NEW t \in Threads,
           NEW n, \/ n = <<>> \/ \E y \in Others : n = <<y>>
                  \/ \E y, z \in Others : n = <<y, z>>,
           Begin(t, n)
    PROVE  BinPrograms' /\ doing' = doing
<1>1. n \in Seq(Steps) /\ OnlyInFront(n, Matter) /\ Front(n, Matter) = "other"
  BY BinaryPrograms DEF Others
<1>2. /\ BinPrograms' /\ doing' = [doing EXCEPT ![t] = "other"]
      /\ doing[t] = "other"
  BY <1>1, BinaryBegins
<1>. QED
  BY <1>2, Zenon DEF doing

\* A handler of one step that matters.
LEMMA MattersBegins ==
    ASSUME BinPrograms, NEW t \in Threads, NEW x \in Matter, Begin(t, <<x>>)
    PROVE  BinPrograms' /\ doing[t] = "other" /\ doing' = [doing EXCEPT ![t] = x]
<1>1. x \in Steps
  BY DEF Matter, Steps
<1>2. <<x>> \in Seq(Steps) /\ OnlyInFront(<<x>>, Matter) /\ Front(<<x>>, Matter) = x
  BY <1>1, BinaryPrograms
<1>. QED
  BY <1>2, BinaryBegins

\* The bounds are numbers.
LEMMA BinaryBounds == MaxIn \in Nat /\ MaxPush \in Nat /\ MaxAdapt \in Nat
BY SessionAssumption DEF SessionAssumption

\* Every step keeps the types, if it does those of the programs.
LEMMA BinaryTypes ==
    ASSUME TypeOK, Next, todo' \in [Threads -> Seq(Steps)],
           queue # <<>> \/ (~FinishWrite /\ \A t \in Threads : ~Pop(t))
    PROVE  TypeOK'
<1>. USE BinaryBounds DEF TypeOK, writing, timers, life, inputs
<1>1. ASSUME NEW t \in Threads, Send(t) \/ SendAcknowledgment(t)
      PROVE  TypeOK'
  <2>1. CASE Send(t)
    <3>1. num' \in [Threads -> Nat] /\ nextSeq' \in Nat
      BY <2>1 DEF Send, TakeNumber
    <3>2. UNCHANGED <<mutex, queue, op, pushed, sent, reading, timers, life,
                      inputs>>
      BY <2>1 DEF Send
    <3>. QED
      BY <3>1, <3>2
  <2>2. CASE SendAcknowledgment(t)
    BY <2>2 DEF SendAcknowledgment, TakeNumber
  <2>. QED
    BY <1>1, <2>1, <2>2
<1>2. ASSUME NEW t \in Threads, Push(t)
      PROVE  TypeOK'
  <2>1. [kind |-> "data", seq |-> num[t]] \in Frames
    BY DEF Frames
  <2>. QED
    BY <1>2, <2>1 DEF Push, Enqueue
<1>3. ASSUME NEW t \in Threads, LockedPush(t)
      PROVE  TypeOK'
  <2>1. /\ [kind |-> "ack", seq |-> num[t]] \in Frames
        /\ [kind |-> "raw", seq |-> 0] \in Frames
    BY DEF Frames
  <2>2. \E f \in Frames : queue' = Append(queue, f) /\ pushed' = Append(pushed, f)
    BY <1>3, <2>1 DEF LockedPush, Enqueue
  <2>3. queue' \in Seq(Frames) /\ pushed' \in Seq(Frames)
    BY <2>2
  <2>4. mutex' \in Threads \cup {NoThread}
    BY <1>3 DEF LockedPush
  <2>5. num' \in [Threads -> Nat]
    BY <1>3 DEF LockedPush
  <2>6. UNCHANGED <<nextSeq, op, sent, reading, timers, life, inputs>>
    BY <1>3 DEF LockedPush
  <2>. QED
    BY <2>3, <2>4, <2>5, <2>6, SMTT(20) DEF TypeOK
<1>4. ASSUME NEW t \in Threads,
             SendRaw(t) \/ Unlock(t) \/ DoBinaryWrite(t)
      PROVE  TypeOK'
  <2>1. CASE SendRaw(t)
    BY <2>1 DEF SendRaw
  <2>2. CASE Unlock(t)
    BY <2>2 DEF Unlock
  <2>3. CASE DoBinaryWrite(t)
    BY <2>3 DEF DoBinaryWrite
  <2>. QED
    BY <1>4, <2>1, <2>2, <2>3
<1>5. ASSUME NEW t \in Threads, StartWrite(t)
      PROVE  TypeOK'
  BY <1>5 DEF StartWrite
<1>6. ASSUME NEW t \in Threads, Pop(t), queue # <<>>
      PROVE  TypeOK'
  BY <1>6, HeadTailProperties DEF Pop
<1>7. ASSUME NEW t \in Threads,
             DoBinaryRead(t) \/ CheckHeartbeat(t) \/ StartNetworkAdaptation(t)
      PROVE  TypeOK'
  <2>1. CASE DoBinaryRead(t)
    BY <2>1 DEF DoBinaryRead
  <2>2. CASE CheckHeartbeat(t)
    BY <2>2 DEF CheckHeartbeat
  <2>3. CASE StartNetworkAdaptation(t)
    BY <2>3 DEF StartNetworkAdaptation
  <2>. QED
    BY <1>7, <2>1, <2>2, <2>3
<1>8. ASSUME NEW t \in Threads, Stop(t) \/ FinishStop(t)
      PROVE  TypeOK'
  <2>1. CASE Stop(t)
    BY <2>1 DEF Stop
  <2>2. CASE FinishStop(t)
    <3>1. closeCalls' \in Nat
      BY <2>2 DEF FinishStop
    <3>2. adapting' \in BOOLEAN /\ registered' \in BOOLEAN
      BY <2>2, Zenon DEF FinishStop
    <3>3. heartbeat' \in {"off", "on", "fired"}
      BY <2>2 DEF FinishStop
    <3>4. UNCHANGED <<num, writing, reading, deadline, silence, closing, inputs>>
      BY <2>2 DEF FinishStop
    <3>. QED
      BY <3>1, <3>2, <3>3, <3>4
  <2>. QED
    BY <1>8, <2>1, <2>2
<1>9. ASSUME NEW t \in IoThreads, Handler(t)
      PROVE  TypeOK'
  <2>1. CASE WriteHandler(t)
    BY <2>1 DEF WriteHandler
  <2>2. CASE ReadError(t)
    BY <2>2 DEF ReadError
  <2>3. CASE HeartbeatHandler(t)
    BY <2>3 DEF HeartbeatHandler
  <2>4. CASE DeadlineHandler(t)
    BY <2>4 DEF DeadlineHandler
  <2>5. CASE CheckNetworkConditions(t)
    <3>1. /\ adapts < MaxAdapt /\ adapts' = adapts + 1 /\ adapting' = FALSE
          /\ UNCHANGED <<num, writing, reading, deadline, heartbeat, silence, life,
                         gone, received, pushes>>
      BY <2>5 DEF CheckNetworkConditions
    <3>2. adapts' \in 0..MaxAdapt
      BY <3>1
    <3>3. adapting' \in BOOLEAN
      BY <3>1, Zenon
    <3>. QED
      BY <3>1, <3>2, <3>3
  <2>. QED
    BY <1>9, <2>1, <2>2, <2>3, <2>4, <2>5 DEF Handler
<1>10. ASSUME NEW t \in IoThreads, NEW k \in ClientKinds, MessageRead(t, k)
       PROVE  TypeOK'
  BY <1>10 DEF MessageRead
<1>11. ASSUME HeaderRead \/ HeartbeatExpires \/ DeadlineExpires
       PROVE  TypeOK'
  BY <1>11, SMTT(20) DEF HeaderRead, HeartbeatExpires, DeadlineExpires
<1>12. ASSUME FinishWrite, queue # <<>>
       PROVE  TypeOK'
  <2>1. Head(queue) \in Frames
    BY <1>12, HeadTailProperties
  <2>2. \E f \in Frames : sent' = sent \/ sent' = Append(sent, f)
    BY <1>12, <2>1 DEF FinishWrite, FrontOfQueue
  <2>3. ASSUME NEW f \in Frames
        PROVE  sent \in Seq(Frames) /\ Append(sent, f) \in Seq(Frames)
    OBVIOUS
  <2>4. sent' \in Seq(Frames)
    BY <2>2, <2>3, Zenon
  <2>5. op' \in {"done", "failed"}
    BY <1>12 DEF FinishWrite
  <2>. QED
    BY <1>12, <2>4, <2>5 DEF FinishWrite
<1>13. ASSUME MasterPush
       PROVE  TypeOK'
  BY <1>13 DEF MasterPush
<1>14. ASSUME GoSilent
       PROVE  TypeOK'
  BY <1>14 DEF GoSilent
<1>. QED
  BY <1>1, <1>2, <1>3, <1>4, <1>5, <1>6, <1>7, <1>8, <1>9, <1>10, <1>11, <1>12, <1>13, <1>14
     DEF Next, Step, Receive

\* Steps of a running handler that the chain and the close do not see.
LEMMA AsideSteps ==
    ASSUME BinInv, NEW t \in Threads,
           \/ Send(t) \/ SendRaw(t) \/ SendAcknowledgment(t)
           \/ Unlock(t) \/ DoBinaryRead(t) \/ CheckHeartbeat(t)
           \/ StartNetworkAdaptation(t)
    PROVE  BinPrograms' /\ (OneChain /\ InOrder /\ OneCloser)'
<1>1. PICK x \in Others : \E n : /\ At(t, x) /\ Continue(t, n)
                                 /\ n = <<>> \/ \E y \in Others : n = <<y>>
  <2>1. {"send", "raw", "ack", "unlock", "read", "rearm", "adapt", "push", "rawpush", "ackpush"}
           \subseteq Others
    BY DEF Others, Steps, Matter
  <2>. QED
    BY <2>1 DEF Send, SendRaw, SendAcknowledgment, Unlock,
                DoBinaryRead, CheckHeartbeat, StartNetworkAdaptation
<1>2. BinPrograms' /\ doing' = doing
  BY <1>1, OtherStep DEF BinInv
<1>3. UNCHANGED <<op, queue, pushed, sent, closing, closeCalls, registered>>
  BY DEF Send, SendRaw, SendAcknowledgment, Unlock,
         DoBinaryRead, CheckHeartbeat, StartNetworkAdaptation,
         TakeNumber, writing, life
<1>4. (OneChain /\ InOrder /\ OneCloser)'
  BY <1>2, <1>3, AsideKeeps DEF BinInv, Aside
<1>. QED
  BY <1>2, <1>4

\* Reading, timers, pushes and the client, which start handlers and leave the
\* chain and the close alone.
LEMMA AsideHandlers ==
    ASSUME BinInv,
           \/ \E t \in IoThreads : \/ ReadError(t) \/ HeartbeatHandler(t)
                                   \/ DeadlineHandler(t)
                                   \/ CheckNetworkConditions(t)
           \/ Receive \/ HeartbeatExpires \/ DeadlineExpires
           \/ MasterPush \/ GoSilent
    PROVE  BinPrograms' /\ (OneChain /\ InOrder /\ OneCloser)'
<1>. USE DEF BinInv
<1>1. {"send", "raw", "ack", "read", "rearm", "adapt"} \subseteq Others /\ "stop" \in Matter
  BY DEF Others, Steps, Matter
<1>2. IoThreads \subseteq Threads /\ Ipc \in Threads
  BY DEF Threads
<1>3. /\ BinPrograms'
      /\ \/ doing' = doing
         \/ \E t \in Threads : doing[t] = "other" /\ doing' = [doing EXCEPT ![t] = "stop"]
  <2>1. ASSUME UNCHANGED todo
        PROVE  BinPrograms' /\ doing' = doing
    BY <2>1 DEF BinPrograms, doing
  <2>2. ASSUME NEW t \in Threads, Begin(t, <<"stop">>)
        PROVE  BinPrograms' /\ doing[t] = "other" /\ doing' = [doing EXCEPT ![t] = "stop"]
    BY <1>1, <2>2, MattersBegins
  <2>3. ASSUME NEW t \in Threads, NEW n, Begin(t, n),
               n \in {<<>>, <<"rearm">>, <<"adapt">>, <<"read">>, <<"send">>, <<"send", "rearm">>,
                      <<"raw", "adapt">>, <<"ack", "read">>, <<"send", "read">>}
        PROVE  BinPrograms' /\ doing' = doing
    BY <1>1, <2>3, OtherHandler
  <2>4. CASE \/ HeartbeatExpires \/ DeadlineExpires \/ GoSilent
             \/ HeaderRead
    BY <2>1, <2>4 DEF HeartbeatExpires, DeadlineExpires, GoSilent,
                      HeaderRead
  <2>5. CASE MasterPush
    BY <1>2, <2>3, <2>5 DEF MasterPush
  <2>6. ASSUME NEW t \in IoThreads, NEW k \in ClientKinds, MessageRead(t, k)
        PROVE  \/ Begin(t, <<"stop">>)
               \/ \E n \in {<<"read">>, <<"ack", "read">>, <<"send", "read">>} : Begin(t, n)
    <3>1. k \in {"plain", "reliable", "ping", "bad", "huge"}
      BY SessionAssumption DEF SessionAssumption, Kinds
    <3>2. Begin(t, Program(k))
      BY <2>6 DEF MessageRead
    <3>3. Program(k) \in {<<"stop">>, <<"read">>, <<"ack", "read">>, <<"send", "read">>}
      BY <3>1 DEF Program
    <3>. QED
      BY <3>2, <3>3
  <2>7. CASE \E t \in IoThreads, k \in ClientKinds : MessageRead(t, k)
    BY <1>2, <2>2, <2>3, <2>6, <2>7
  <2>8. CASE \E t \in IoThreads : ReadError(t)
    BY <1>2, <2>2, <2>8 DEF ReadError
  <2>9. ASSUME NEW t \in IoThreads,
               \/ HeartbeatHandler(t) \/ DeadlineHandler(t)
               \/ CheckNetworkConditions(t)
        PROVE  \/ Begin(t, <<"stop">>)
               \/ \E n \in {<<>>, <<"rearm">>, <<"adapt">>, <<"send", "rearm">>, <<"raw", "adapt">>} :
                     Begin(t, n)
    BY <2>9 DEF HeartbeatHandler, DeadlineHandler, CheckNetworkConditions,
                PingAndRearm
  <2>10. CASE \E t \in IoThreads :
                 \/ HeartbeatHandler(t) \/ DeadlineHandler(t)
                 \/ CheckNetworkConditions(t)
    BY <1>2, <2>2, <2>3, <2>9, <2>10
  <2>. QED
    BY <2>4, <2>5, <2>7, <2>8, <2>10 DEF Receive
<1>4. UNCHANGED <<op, queue, pushed, sent, closing, closeCalls, registered>>
  BY DEF ReadError, HeartbeatHandler, DeadlineHandler,
         CheckNetworkConditions, Receive, HeaderRead, MessageRead,
         HeartbeatExpires, DeadlineExpires, MasterPush, GoSilent,
         writing, life
<1>5. (OneChain /\ InOrder /\ OneCloser)'
  BY <1>2, <1>3, <1>4, AsideKeeps DEF Aside
<1>. QED
  BY <1>3, <1>5

\* Thread t is now at the step x, the others are where they were.
Turns(t, x) == doing'[t] = x /\ \A u \in Threads \ {t} : doing'[u] = doing[u]

LEMMA TurnsWhen ==
    ASSUME NEW t \in Threads, NEW x, doing' = [doing EXCEPT ![t] = x]
    PROVE  Turns(t, x)
BY DEF doing, Turns

\* A step of a running handler from x, one that matters or not, to y.
LEMMA StepTurns ==
    ASSUME BinPrograms, NEW t \in Threads, NEW x, At(t, x),
           NEW n, Continue(t, n),
           n = <<>> \/ \E y \in Steps : n = <<y>> \/ n = <<y, "unlock">>
    PROVE  /\ BinPrograms' /\ doing[t] = (IF x \in Matter THEN x ELSE "other")
           /\ n = <<>> => Turns(t, "other")
           /\ \A y \in Steps :
                 n = <<y>> \/ n = <<y, "unlock">> => Turns(t, IF y \in Matter THEN y ELSE "other")
<1>1. "unlock" \in Steps \ Matter
  BY DEF Steps, Matter
<1>2. /\ n \in Seq(Steps) /\ OnlyInFront(n, Matter)
      /\ n = <<>> => Front(n, Matter) = "other"
      /\ \A y \in Steps : n = <<y>> \/ n = <<y, "unlock">> =>
            Front(n, Matter) = IF y \in Matter THEN y ELSE "other"
  <2>1. ASSUME NEW y \in Steps, n = <<y>> \/ n = <<y, "unlock">>
        PROVE  /\ n \in Seq(Steps) /\ OnlyInFront(n, Matter) /\ n # <<>>
               /\ Front(n, Matter) = IF y \in Matter THEN y ELSE "other"
    <3>1. /\ n \in Seq(Steps) /\ OnlyInFront(n, Matter)
          /\ Front(n, Matter) = IF y \in Matter THEN y ELSE "other"
      <4>1. CASE n = <<y>>
        BY <4>1, BinaryPrograms, Zenon
      <4>2. CASE n = <<y, "unlock">>
        BY <1>1, <4>2, BinaryPrograms, Zenon
      <4>. QED
        BY <2>1, <4>1, <4>2
    <3>2. n # <<>>
      BY <2>1
    <3>. QED
      BY <3>1, <3>2, Zenon
  <2>2. CASE n = <<>>
    BY <2>1, <2>2, BinaryPrograms, Zenon
  <2>3. CASE \E y \in Steps : n = <<y>> \/ n = <<y, "unlock">>
    BY <2>1, <2>3, Zenon
  <2>. QED
    BY <2>2, <2>3
<1>3. BinPrograms' /\ doing' = [doing EXCEPT ![t] = Front(n, Matter)]
      /\ doing[t] = IF x \in Matter THEN x ELSE "other"
  BY <1>2, BinaryContinues
<1>4. Turns(t, Front(n, Matter))
  BY <1>3, TurnsWhen
<1>. QED
  BY <1>2, <1>3, <1>4

\* A frame enters the queue; when it is the first, its sender starts the chain.
LEMMA PushKeeps ==
    ASSUME TypeOK, OneChain, InOrder, OneCloser, NEW t \in Threads,
           doing[t] = "other", NEW f \in Frames,
           queue' = Append(queue, f), pushed' = Append(pushed, f),
           Turns(t, IF queue = <<>> THEN "write" ELSE "other"),
           UNCHANGED <<op, sent, closing, closeCalls, registered>>
    PROVE  OneChain' /\ InOrder' /\ OneCloser'
<1>1. queue' # <<>>
  BY DEF TypeOK
<1>2. /\ \A u \in Threads \ {t} : Carries(u)' <=> Carries(u)
      /\ Carries(t)' <=> queue = <<>>
      /\ ~Carries(t)
  BY DEF Turns, Carries
<1>3. Carried' /\ Stopping' <=> Carried' /\ Stopping
  BY DEF Turns, Stopping
<1>4. queue = <<>> => ~Carried
  BY DEF OneChain
<1>5. OneChain'
  <2>1. CASE queue = <<>>
    BY <1>1, <1>2, <1>4, <2>1 DEF OneChain, Carried
  <2>2. CASE queue # <<>>
    <3>1. \A u \in Threads : Carries(u)' <=> Carries(u)
      BY <1>2, <2>2
    <3>2. (Carried' <=> Carried) /\ (Stopping => Stopping')
      BY <3>1 DEF Carried, Turns, Stopping
    <3>. QED
      BY <1>1, <2>2, <3>1, <3>2 DEF OneChain
  <2>. QED
    BY <2>1, <2>2
<1>6. Popping' <=> Popping
  BY DEF Turns, Popping
<1>7. LeftQueue' = LeftQueue
  BY <1>6 DEF LeftQueue
<1>8. InOrder'
  <2>1. /\ Len(queue) \in Nat /\ Len(pushed) \in Nat /\ Len(sent) \in Nat
        /\ Len(queue') = Len(queue) + 1 /\ Len(pushed') = Len(pushed) + 1
        /\ \A i \in 1..Len(queue) : queue'[i] = queue[i]
        /\ \A i \in 1..Len(pushed) : pushed'[i] = pushed[i]
        /\ queue'[Len(queue) + 1] = f /\ pushed'[Len(pushed) + 1] = f
    BY DEF TypeOK
  <2>2. /\ LeftQueue \in Nat /\ Len(pushed) = LeftQueue + Len(queue)
        /\ \A i \in 1..Len(queue) : pushed[LeftQueue + i] = queue[i]
        /\ \A i \in 1..Len(sent) : sent[i] = pushed[i]
        /\ Len(sent) <= LeftQueue + 1
    BY <2>1 DEF InOrder, LeftQueue
  <2>3. Len(sent) <= Len(pushed)
    <3>1. Popping => queue # <<>>
      BY DEF Popping, OneChain, Carried, Carries
    <3>2. queue # <<>> => Len(queue) >= 1
      BY DEF TypeOK
    <3>. QED
      BY <2>1, <2>2, <3>1, <3>2 DEF LeftQueue
  <2>4. \A i \in 1..Len(queue') : pushed'[LeftQueue + i] = queue'[i]
    <3>. SUFFICES ASSUME NEW i \in 1..Len(queue) + 1
                  PROVE  pushed'[LeftQueue + i] = queue'[i]
      BY <2>1
    <3>1. CASE i = Len(queue) + 1
      <4>1. LeftQueue + i = Len(pushed) + 1
        BY <2>1, <2>2, <3>1
      <4>. QED
        BY <2>1, <3>1, <4>1
    <3>2. CASE i # Len(queue) + 1
      <4>1. i \in 1..Len(queue) /\ LeftQueue + i \in 1..Len(pushed)
        BY <2>1, <2>2, <3>2
      <4>. QED
        BY <2>1, <2>2, <4>1
    <3>. QED
      BY <3>1, <3>2
  <2>5. \A i \in 1..Len(sent) : sent[i] = pushed'[i]
    BY <2>1, <2>2, <2>3
  <2>6. Len(pushed') = LeftQueue + Len(queue')
    BY <2>1, <2>2
  <2>. QED
    BY <1>7, <2>2, <2>4, <2>5, <2>6 DEF InOrder
<1>9. OneCloser'
  BY DEF OneCloser, Turns
<1>. QED
  BY <1>5, <1>8, <1>9

\* Send, SendRaw and SendAcknowledgment, under the mutex.
LEMMA PushSteps ==
    ASSUME BinInv, NEW t \in Threads, Push(t) \/ LockedPush(t)
    PROVE  BinPrograms' /\ (OneChain /\ InOrder /\ OneCloser)'
<1>. USE DEF BinInv
<1>1. PICK x \in Others : At(t, x)
  BY DEF Others, Steps, Matter, Push, LockedPush
<1>2. BinPrograms' /\ doing[t] = "other" /\ Turns(t, IF queue = <<>> THEN "write" ELSE "other")
  <2>1. "write" \in Steps /\ "write" \in Matter
    BY DEF Steps, Matter
  <2>2. CASE queue = <<>>
    <3>1. Continue(t, <<"write">>) \/ Continue(t, <<"write", "unlock">>)
      BY <2>2 DEF Push, LockedPush, FirstInQueue
    <3>2. PICK n : Continue(t, n) /\ (n = <<"write">> \/ n = <<"write", "unlock">>)
      BY <3>1
    <3>. QED
      BY <1>1, <2>1, <2>2, <3>2, StepTurns DEF Others
  <2>3. CASE queue # <<>>
    <3>1. Continue(t, <<>>)
      BY <2>3 DEF Push, LockedPush, FirstInQueue
    <3>. QED
      BY <1>1, <2>3, <3>1, StepTurns DEF Others
  <2>. QED
    BY <2>2, <2>3
<1>3. \E f \in Frames : queue' = Append(queue, f) /\ pushed' = Append(pushed, f)
  BY DEF Push, LockedPush, Enqueue, Frames, TypeOK
<1>4. UNCHANGED <<op, sent, closing, closeCalls, registered>>
  BY DEF Push, LockedPush, life
<1>. QED
  BY <1>2, <1>3, <1>4, PushKeeps

\* The chain goes on: its carrier is now somewhere else, and neither the
\* queue nor what has left it changes.
LEMMA ChainMoves ==
    ASSUME OneChain, InOrder, OneCloser, Carried,
           \A t, u \in Threads : Carries(t)' /\ Carries(u)' => t = u,
           \A t \in Threads : Carries(t)' => op' = "none",
           Carried' \/ Stopping', Popping' <=> Popping,
           UNCHANGED <<queue, pushed, sent, closing, closeCalls, registered>>,
           \A t \in Threads : doing'[t] = "closed" <=> doing[t] = "closed"
    PROVE  OneChain' /\ InOrder' /\ OneCloser'
<1>1. OneChain'
  BY DEF OneChain
<1>2. LeftQueue' = LeftQueue
  BY DEF LeftQueue
<1>3. InOrder'
  BY <1>2 DEF InOrder
<1>4. OneCloser'
  BY DEF OneCloser
<1>. QED
  BY <1>1, <1>3, <1>4

\* DoBinaryWrite: the thread goes on to start the write, or the session closes.
LEMMA DoBinaryWriteStep ==
    ASSUME BinInv, NEW t \in Threads, DoBinaryWrite(t)
    PROVE  BinPrograms' /\ (OneChain /\ InOrder /\ OneCloser)'
<1>. USE DEF BinInv
<1>1. At(t, "write") /\ UNCHANGED <<op, queue, pushed, sent, closing, closeCalls, registered>>
  BY DEF DoBinaryWrite, writing, life
<1>2. "write" \in Matter /\ "start" \in Matter /\ "start" \in Steps
  BY DEF Matter, Steps
<1>3. doing[t] = "write" /\ Carries(t) /\ Carried /\ queue # <<>>
  <2>1. PICK n : Continue(t, n) /\ (n = <<>> \/ n = <<"start">>)
    BY DEF DoBinaryWrite
  <2>2. doing[t] = "write"
    BY <1>1, <1>2, <2>1, StepTurns
  <2>. QED
    BY <2>2 DEF Carries, Carried, OneChain
<1>4. BinPrograms' /\ Turns(t, IF closing THEN "other" ELSE "start")
  <2>1. CASE closing
    <3>1. Continue(t, <<>>)
      BY <2>1 DEF DoBinaryWrite
    <3>. QED
      BY <1>1, <2>1, <3>1, StepTurns
  <2>2. CASE ~closing
    <3>1. Continue(t, <<"start">>)
      BY <1>3, <2>2 DEF DoBinaryWrite
    <3>. QED
      BY <1>1, <1>2, <2>2, <3>1, StepTurns
  <2>. QED
    BY <2>1, <2>2
<1>5. /\ \A u \in Threads : Carries(u)' => u = t
      /\ Carried' \/ Stopping'
      /\ Popping' <=> Popping
      /\ \A u \in Threads : doing'[u] = "closed" <=> doing[u] = "closed"
  <2>1. \A u \in Threads \ {t} : ~Carries(u)
    BY <1>3 DEF OneChain
  <2>. QED
    BY <1>1, <1>3, <1>4, <2>1 DEF Turns, Carries, Carried, Stopping, Popping
<1>6. op' = "none"
  BY <1>1, <1>3 DEF OneChain
<1>. QED
  BY <1>1, <1>3, <1>4, <1>5, <1>6, ChainMoves

\* The write starts: the thread hands the chain to it.
LEMMA StartWriteStep ==
    ASSUME BinInv, NEW t \in Threads, StartWrite(t)
    PROVE  BinPrograms' /\ (OneChain /\ InOrder /\ OneCloser)'
<1>. USE DEF BinInv
<1>1. /\ At(t, "start") /\ Continue(t, <<>>)
      /\ op' = (IF queue = <<>> THEN op ELSE "inflight")
      /\ UNCHANGED <<queue, pushed, sent, closing, closeCalls, registered>>
  BY DEF StartWrite, life
<1>2. BinPrograms' /\ doing[t] = "start" /\ Turns(t, "other")
  <2>1. "start" \in Matter
    BY DEF Matter
  <2>. QED
    BY <1>1, <2>1, StepTurns
<1>3. Carries(t) /\ Carried /\ queue # <<>> /\ op' = "inflight" /\ op = "none"
  BY <1>1, <1>2 DEF Carries, Carried, OneChain
<1>4. /\ \A u \in Threads : ~Carries(u)'
      /\ Carried'
      /\ Popping' <=> Popping
      /\ \A u \in Threads : doing'[u] = "closed" <=> doing[u] = "closed"
  <2>1. \A u \in Threads \ {t} : ~Carries(u)
    BY <1>3 DEF OneChain
  <2>. QED
    BY <1>2, <1>3, <2>1 DEF Turns, Carries, Carried, Popping
<1>. QED
  BY <1>1, <1>2, <1>3, <1>4, ChainMoves

\* The socket takes the first frame, which stays in the queue, or fails.
LEMMA FinishWriteStep ==
    ASSUME BinInv, FinishWrite
    PROVE  BinPrograms' /\ (OneChain /\ InOrder /\ OneCloser)'
<1>. USE DEF BinInv
<1>1. /\ op = "inflight" /\ UNCHANGED <<todo, queue, pushed, closing, closeCalls, registered>>
      /\ \/ op' = "done" /\ sent' = Append(sent, Head(queue))
         \/ op' = "failed" /\ sent' = sent
  BY DEF FinishWrite, FrontOfQueue, life
<1>2. BinPrograms' /\ doing' = doing
  BY <1>1 DEF BinPrograms, doing
<1>3. Carried /\ Carried' /\ queue # <<>> /\ \A t \in Threads : ~Carries(t)
  BY <1>1 DEF Carried, OneChain
<1>4. OneChain'
  BY <1>1, <1>2, <1>3 DEF OneChain, Carries
<1>5. ~Popping /\ (Popping' <=> op' = "done")
  BY <1>1, <1>2, <1>3 DEF Popping, Carries
<1>6. /\ Len(queue) \in Nat /\ Len(queue) >= 1 /\ Len(sent) \in Nat /\ Len(pushed) \in Nat
      /\ Head(queue) = queue[1]
  BY <1>3 DEF TypeOK
<1>7. /\ LeftQueue = Len(sent) /\ Len(pushed) = Len(sent) + Len(queue)
      /\ \A i \in 1..Len(queue) : pushed[Len(sent) + i] = queue[i]
      /\ \A i \in 1..Len(sent) : sent[i] = pushed[i]
  BY <1>5 DEF LeftQueue, InOrder
<1>8. CASE op' = "done" /\ sent' = Append(sent, Head(queue))
  <2>1. /\ Len(sent') = Len(sent) + 1 /\ sent'[Len(sent) + 1] = queue[1]
        /\ \A i \in 1..Len(sent) : sent'[i] = sent[i]
    BY <1>3, <1>6, <1>8, HeadTailProperties DEF TypeOK
  <2>2. LeftQueue' = Len(sent)
    BY <1>5, <1>6, <1>8, <2>1 DEF LeftQueue
  <2>3. \A i \in 1..Len(sent') : sent'[i] = pushed[i]
    <3>. SUFFICES ASSUME NEW i \in 1..Len(sent) + 1 PROVE sent'[i] = pushed[i]
      BY <2>1
    <3>1. CASE i = Len(sent) + 1
      BY <1>6, <1>7, <2>1, <3>1
    <3>2. CASE i # Len(sent) + 1
      BY <1>6, <1>7, <2>1, <3>2, SMTT(20)
    <3>. QED
      BY <3>1, <3>2
  <2>. QED
    BY <1>1, <1>2, <1>4, <1>6, <1>7, <2>2, <2>3 DEF InOrder, OneCloser
<1>9. CASE op' = "failed" /\ sent' = sent
  <2>1. LeftQueue' = LeftQueue
    BY <1>5, <1>7, <1>9 DEF LeftQueue
  <2>. QED
    BY <1>1, <1>2, <1>4, <1>9, <2>1 DEF InOrder, OneCloser
<1>. QED
  BY <1>1, <1>8, <1>9

\* The handler of the write takes the chain, or stops the session.
LEMMA WriteHandlerStep ==
    ASSUME BinInv, NEW t \in Threads, WriteHandler(t)
    PROVE  BinPrograms' /\ (OneChain /\ InOrder /\ OneCloser)'
<1>. USE DEF BinInv
<1>1. /\ op \in {"done", "failed"} /\ op' = "none"
      /\ UNCHANGED <<queue, pushed, sent, closing, closeCalls, registered>>
  BY DEF WriteHandler, life
<1>2. /\ BinPrograms' /\ doing[t] = "other" /\ Turns(t, IF op = "done" THEN "pop" ELSE "stop")
  <2>1. "pop" \in Matter /\ "stop" \in Matter
    BY DEF Matter
  <2>2. CASE op = "done"
    <3>1. Begin(t, <<"pop">>)
      BY <2>2 DEF WriteHandler
    <3>. QED
      BY <2>1, <2>2, <3>1, MattersBegins, TurnsWhen
  <2>3. CASE op # "done"
    <3>1. Begin(t, <<"stop">>)
      BY <2>3 DEF WriteHandler
    <3>. QED
      BY <2>1, <2>3, <3>1, MattersBegins, TurnsWhen
  <2>. QED
    BY <2>2, <2>3
<1>3. Carried /\ \A u \in Threads : ~Carries(u)
  BY <1>1 DEF Carried, OneChain
<1>4. /\ \A u \in Threads : Carries(u)' => u = t
      /\ Carried' \/ Stopping'
      /\ Popping' <=> Popping
      /\ \A u \in Threads : doing'[u] = "closed" <=> doing[u] = "closed"
  BY <1>1, <1>2, <1>3 DEF Turns, Carries, Carried, Popping, Stopping
<1>. QED
  BY <1>1, <1>2, <1>3, <1>4, ChainMoves

\* The frame that was sent leaves the queue.
LEMMA PopStep ==
    ASSUME BinInv, NEW t \in Threads, Pop(t)
    PROVE  BinPrograms' /\ (OneChain /\ InOrder /\ OneCloser)' /\ queue # <<>>
<1>. USE DEF BinInv
<1>1. /\ At(t, "pop") /\ queue' = Tail(queue)
      /\ UNCHANGED <<op, pushed, sent, closing, closeCalls, registered>>
  BY DEF Pop, life
<1>2. BinPrograms' /\ doing[t] = "pop" /\ Turns(t, IF Len(queue) > 1 THEN "write" ELSE "other")
  <2>1. "pop" \in Matter /\ "write" \in Matter /\ "write" \in Steps
    BY DEF Matter, Steps
  <2>2. CASE Len(queue) > 1
    <3>1. Continue(t, <<"write">>)
      BY <2>2 DEF Pop, WriteNext
    <3>. QED
      BY <1>1, <2>1, <2>2, <3>1, StepTurns
  <2>3. CASE ~(Len(queue) > 1)
    <3>1. Continue(t, <<>>)
      BY <2>3 DEF Pop, WriteNext
    <3>. QED
      BY <1>1, <2>1, <2>3, <3>1, StepTurns
  <2>. QED
    BY <2>2, <2>3
<1>3. Carries(t) /\ Carried /\ queue # <<>> /\ op = "none"
  BY <1>2 DEF Carries, Carried, OneChain
<1>4. /\ queue' \in Seq(Frames) /\ Len(queue) \in Nat /\ Len(queue) >= 1
      /\ Len(queue') = Len(queue) - 1 /\ Len(sent) \in Nat /\ Len(pushed) \in Nat
      /\ \A i \in 1..Len(queue') : queue'[i] = queue[i + 1]
  BY <1>1, <1>3, HeadTailProperties, LenProperties, EmptySeq DEF TypeOK
<1>5. queue' # <<>> <=> Len(queue) > 1
  BY <1>4, EmptySeq
<1>6. \A u \in Threads \ {t} : ~Carries(u) /\ ~Carries(u)'
  BY <1>2, <1>3 DEF OneChain, Turns, Carries
<1>7. (Carries(t)' <=> Len(queue) > 1) /\ (Carried' <=> Len(queue) > 1)
  BY <1>1, <1>2, <1>3, <1>6 DEF Turns, Carries, Carried
<1>8. OneChain'
  BY <1>1, <1>3, <1>5, <1>6, <1>7 DEF OneChain
<1>9. Popping /\ ~Popping'
  BY <1>1, <1>2, <1>3, <1>6 DEF Popping, Turns, Carries
<1>10. InOrder'
  <2>1. LeftQueue = Len(sent) - 1 /\ LeftQueue' = Len(sent)
    BY <1>1, <1>9 DEF LeftQueue
  <2>2. /\ Len(pushed) = Len(sent) - 1 + Len(queue)
        /\ \A i \in 1..Len(queue) : pushed[Len(sent) - 1 + i] = queue[i]
        /\ \A i \in 1..Len(sent) : sent[i] = pushed[i]
    BY <2>1 DEF InOrder
  <2>3. \A i \in 1..Len(queue') : pushed[Len(sent) + i] = queue'[i]
    <3>. SUFFICES ASSUME NEW i \in 1..Len(queue') PROVE pushed[Len(sent) + i] = queue'[i]
      OBVIOUS
    <3>1. i + 1 \in 1..Len(queue) /\ Len(sent) - 1 + (i + 1) = Len(sent) + i
      BY <1>4
    <3>. QED
      BY <1>4, <2>2, <3>1
  <2>. QED
    BY <1>1, <1>4, <2>1, <2>2, <2>3 DEF InOrder
<1>11. OneCloser'
  BY <1>1, <1>2 DEF OneCloser, Turns
<1>. QED
  BY <1>2, <1>3, <1>8, <1>10, <1>11

\* The first to stop the session goes on to close it.
LEMMA StopStep ==
    ASSUME BinInv, NEW t \in Threads, Stop(t)
    PROVE  BinPrograms' /\ (OneChain /\ InOrder /\ OneCloser)'
<1>. USE DEF BinInv
<1>1. /\ At(t, "stop") /\ closing' = TRUE
      /\ UNCHANGED <<op, queue, pushed, sent, closeCalls, registered>>
  BY DEF Stop, writing
<1>2. BinPrograms' /\ doing[t] = "stop" /\ Turns(t, IF closing THEN "other" ELSE "closed")
  <2>1. "stop" \in Matter /\ "closed" \in Matter /\ "closed" \in Steps
    BY DEF Matter, Steps
  <2>2. CASE closing
    <3>1. Continue(t, <<>>)
      BY <2>2 DEF Stop, StopOnce
    <3>. QED
      BY <1>1, <2>1, <2>2, <3>1, StepTurns
  <2>3. CASE ~closing
    <3>1. Continue(t, <<"closed">>)
      BY <2>3 DEF Stop, StopOnce
    <3>. QED
      BY <1>1, <2>1, <2>3, <3>1, StepTurns
  <2>. QED
    BY <2>2, <2>3
<1>3. /\ \A u \in Threads : Carries(u)' <=> Carries(u)
      /\ \A u \in Threads : doing'[u] = "pop" <=> doing[u] = "pop"
  BY <1>2 DEF Turns, Carries
<1>4. (Carried' <=> Carried) /\ (Popping' <=> Popping) /\ Stopping'
  BY <1>1, <1>3 DEF Carried, Popping, Stopping
<1>5. OneChain'
  BY <1>1, <1>3, <1>4 DEF OneChain
<1>6. InOrder'
  <2>1. LeftQueue' = LeftQueue
    BY <1>1, <1>4 DEF LeftQueue
  <2>. QED
    BY <1>1, <2>1 DEF InOrder
<1>7. OneCloser'
  BY <1>1, <1>2 DEF OneCloser, Turns
<1>. QED
  BY <1>2, <1>5, <1>6, <1>7

\* It calls close_handler_.
LEMMA FinishStopStep ==
    ASSUME BinInv, NEW t \in Threads, FinishStop(t)
    PROVE  BinPrograms' /\ (OneChain /\ InOrder /\ OneCloser)'
<1>. USE DEF BinInv
<1>1. /\ At(t, "closed") /\ Continue(t, <<>>)
      /\ closeCalls' = closeCalls + 1 /\ registered' = FALSE
      /\ UNCHANGED <<op, queue, pushed, sent, closing>>
  BY DEF FinishStop, writing
<1>2. BinPrograms' /\ doing[t] = "closed" /\ Turns(t, "other")
  <2>1. "closed" \in Matter
    BY DEF Matter
  <2>. QED
    BY <1>1, <2>1, StepTurns
<1>3. /\ \A u \in Threads : Carries(u)' <=> Carries(u)
      /\ \A u \in Threads : doing'[u] = "pop" <=> doing[u] = "pop"
      /\ \A u \in Threads : doing'[u] = "stop" <=> doing[u] = "stop"
  BY <1>2 DEF Turns, Carries
<1>4. (Carried' <=> Carried) /\ (Popping' <=> Popping) /\ (Stopping' <=> Stopping)
  BY <1>1, <1>3 DEF Carried, Popping, Stopping
<1>5. OneChain'
  BY <1>1, <1>3, <1>4 DEF OneChain
<1>6. InOrder'
  <2>1. LeftQueue' = LeftQueue
    BY <1>1, <1>4 DEF LeftQueue
  <2>. QED
    BY <1>1, <2>1 DEF InOrder
<1>7. OneCloser'
  BY <1>1, <1>2 DEF OneCloser, Turns
<1>. QED
  BY <1>2, <1>5, <1>6, <1>7

\* Start runs on one thread and has done nothing yet.
LEMMA InitBinary == Init => BinInv
<1>. SUFFICES ASSUME Init PROVE BinInv
  OBVIOUS
<1>. DEFINE first == <<"send", "read", "rearm", "adapt">>
<1>1. PICK t \in IoThreads :
         todo = [u \in Threads |-> IF u = t THEN first ELSE <<>>]
  BY DEF Init
<1>2. /\ first \in Seq(Steps) /\ OnlyInFront(first, Matter)
      /\ Front(first, Matter) = "other"
  BY DEF Steps, OnlyInFront, Front, Matter
<1>3. <<>> \in Seq(Steps) /\ OnlyInFront(<<>>, Matter) /\ Front(<<>>, Matter) = "other"
  BY BinaryPrograms
<1>. HIDE DEF first
<1>4. BinPrograms /\ \A u \in Threads : doing[u] = "other"
  BY <1>1, <1>2, <1>3 DEF BinPrograms, Programs, doing
<1>5. TypeOK
  <2>1. todo \in [Threads -> Seq(Steps)]
    BY <1>4 DEF BinPrograms, Programs
  <2>2. /\ received \in 0..MaxIn /\ pushes \in 0..MaxPush /\ adapts \in 0..MaxAdapt
        /\ silence \in 0..3 /\ nextSeq \in Nat /\ closeCalls \in Nat
    BY BinaryBounds DEF Init
  <2>3. /\ adapting \in BOOLEAN /\ closing \in BOOLEAN /\ registered \in BOOLEAN /\ gone \in BOOLEAN
    BY Zenon DEF Init
  <2>. QED
    BY <2>1, <2>2, <2>3 DEF Init, TypeOK
<1>6. OneChain
  BY <1>4 DEF OneChain, Carries, Carried, Init
<1>7. InOrder
  BY <1>4 DEF InOrder, LeftQueue, Popping, Init
<1>8. OneCloser
  BY <1>4 DEF OneCloser, Init
<1>. QED
  BY <1>4, <1>5, <1>6, <1>7, <1>8 DEF BinInv

LEMMA BinaryInvariant == Spec => []BinInv
<1>1. BinInv /\ [Next]_vars => BinInv'
  <2>. SUFFICES ASSUME BinInv, [Next]_vars PROVE BinInv'
    OBVIOUS
  <2>1. CASE UNCHANGED vars
    BY <2>1 DEF vars, writing, timers, life, inputs, BinInv,
                TypeOK, BinPrograms, OneChain, InOrder, OneCloser, Carries, Carried,
                Stopping, Popping, LeftQueue, doing
  <2>2. CASE Next
    <3>1. BinPrograms' /\ (OneChain /\ InOrder /\ OneCloser)'
      <4>1. IoThreads \subseteq Threads
        BY DEF Threads
      <4>. QED
        BY <2>2, <4>1, AsideSteps, AsideHandlers, PushSteps, DoBinaryWriteStep, StartWriteStep,
           FinishWriteStep, WriteHandlerStep, PopStep, StopStep, FinishStopStep
           DEF Next, Step, Handler
    <3>2. todo' \in [Threads -> Seq(Steps)]
      BY <3>1 DEF BinPrograms, Programs
    <3>3. queue # <<>> \/ (~FinishWrite /\ \A t \in Threads : ~Pop(t))
      <4>1. FinishWrite => queue # <<>>
        BY DEF FinishWrite, BinInv, OneChain, Carried
      <4>. QED
        BY <4>1, PopStep
    <3>4. TypeOK'
      BY <2>2, <3>2, <3>3, BinaryTypes DEF BinInv
    <3>. QED
      BY <3>1, <3>4 DEF BinInv
  <2>. QED
    BY <2>1, <2>2
<1>. QED
  BY <1>1, InitBinary, PTL DEF Spec

\* The carriers, as SessionInv counts them.
LEMMA CarriersAre ==
    ASSUME BinPrograms
    PROVE  /\ {t \in Threads : Has(t, {"write", "start", "pop"})} =
              {t \in Threads : Carries(t)}
           /\ \A t \in Threads : Has(t, {"stop"}) <=> doing[t] = "stop"
<1>. SUFFICES ASSUME NEW t \in Threads
              PROVE  /\ Has(t, {"write", "start", "pop"}) <=> Carries(t)
                     /\ Has(t, {"stop"}) <=> doing[t] = "stop"
  OBVIOUS
<1>1. todo[t] \in Seq(Steps) /\ OnlyInFront(todo[t], Matter)
  BY DEF BinPrograms, Programs
<1>2. DOMAIN todo[t] = 1..Len(todo[t]) /\ Len(todo[t]) \in Nat
  BY <1>1, LenProperties
<1>3. todo[t] # <<>> <=> 1 \in DOMAIN todo[t]
  BY <1>1, <1>2, EmptySeq
<1>4. todo[t] # <<>> => Head(todo[t]) = todo[t][1]
  BY <1>1
<1>5. ASSUME NEW S, S \subseteq Matter
      PROVE  Has(t, S) <=> todo[t] # <<>> /\ Head(todo[t]) \in S
  <2>1. ASSUME NEW i \in DOMAIN todo[t], todo[t][i] \in S
        PROVE  i = 1
    BY <1>1, <1>2, <1>5, <2>1 DEF OnlyInFront
  <2>. QED
    BY <1>3, <1>4, <2>1 DEF Has
<1>6. {"write", "start", "pop"} \subseteq Matter /\ {"stop"} \subseteq Matter /\ "other" \notin Matter
  BY DEF Matter
<1>7. doing[t] = IF todo[t] # <<>> /\ Head(todo[t]) \in Matter THEN Head(todo[t]) ELSE "other"
  BY DEF doing, Front
<1>. QED
  BY <1>5, <1>6, <1>7 DEF Carries

\* Whatever the io threads, the IPC thread, the timers and the client do: one
\* write at a time, none forgotten, the frames in their order, and one close.
THEOREM SessionSound == Spec => []SessionInv
<1>1. BinInv => SessionInv
  <2>. SUFFICES ASSUME BinInv PROVE SessionInv
    OBVIOUS
  <2>. USE DEF BinInv
  <2>. DEFINE C == {t \in Threads : Carries(t)}
  <2>1. C = {} \/ \E t : C = {t}
    BY DEF OneChain
  <2>2. Cardinality(C) = IF C = {} THEN 0 ELSE 1
    BY <2>1, FS_EmptySet, FS_Singleton
  <2>3. Carriers = Cardinality(C) + (IF op = "none" THEN 0 ELSE 1)
    <3>. DEFINE D == {t \in Threads : Has(t, {"write", "start", "pop"})}
    <3>1. Carriers = Cardinality(D) + (IF op = "none" THEN 0 ELSE 1)
      BY DEF Carriers
    <3>2. C = D
      BY CarriersAre
    <3>. HIDE DEF C, D
    <3>. QED
      BY <3>1, <3>2
  <2>4. OneCarrier
    <3>1. C # {} => op = "none"
      BY DEF OneChain
    <3>2. Carriers = IF Carried THEN 1 ELSE 0
      BY <2>2, <2>3, <3>1 DEF Carried
    <3>3. Stopping <=> closing \/ ~\A t \in Threads : ~Has(t, {"stop"})
      BY CarriersAre DEF Stopping
    <3>. QED
      BY <3>2, <3>3 DEF OneCarrier, OneChain
  <2>5. SentInOrder
    <3>1. Len(sent) \in Nat /\ Len(pushed) \in Nat /\ Len(queue) \in Nat
      BY DEF TypeOK
    <3>2. queue # <<>> => Len(queue) >= 1
      BY DEF TypeOK
    <3>3. Popping => queue # <<>>
      BY DEF Popping, OneChain, Carried, Carries
    <3>4. Len(sent) <= Len(pushed)
      BY <3>1, <3>2, <3>3 DEF InOrder, LeftQueue
    <3>5. \A i \in 1..Len(sent) : pushed[i] \in Frames
      BY <3>1, <3>4, ElementOfSeq DEF TypeOK
    <3>6. /\ SubSeq(pushed, 1, Len(sent)) \in Seq(Frames)
          /\ Len(SubSeq(pushed, 1, Len(sent))) = Len(sent)
          /\ \A i \in 1..Len(sent) : SubSeq(pushed, 1, Len(sent))[i] = pushed[i]
      BY <3>1, <3>5, SubSeqProperties
    <3>. QED
      BY <3>6, SeqEqual DEF SentInOrder, TypeOK, InOrder
  <2>6. ClosedOnce
    BY DEF ClosedOnce, OneCloser
  <2>. QED
    BY <2>4, <2>5, <2>6 DEF SessionInv
<1>. QED
  BY <1>1, BinaryInvariant, PTL
-----------------------------------------------------------------------------
(***************************************************************************)
(* WebSocketConnection.  A step may only be followed by the steps Follows  *)
(* names, so a thread's program is one of a few, and one thread at most    *)
(* has steps of the read loop left.                                        *)
(***************************************************************************)
Follows == {<<"deliver", "deliver">>, <<"deliver", "read">>, <<"close", "read">>,
            <<"shut", "closeSocket">>, <<"closeSocket", "notify">>, <<"notify", "read">>}
Linked(q) == \A i \in DOMAIN q : i + 1 \in DOMAIN q => <<q[i], q[i + 1]>> \in Follows

ReadLoop == {"handshake", "opened", "read", "header", "frame", "deliver"}
Reads(q) == \E i \in DOMAIN q : q[i] \in ReadLoop
First(q) == IF q = <<>> THEN "none" ELSE Head(q)

WebPrograms == tasks \in [WebThreads -> Seq(WebSteps)] /\ \A t \in WebThreads : Linked(tasks[t])

\* A program without its first step.
LEMMA LinkedTail ==
    ASSUME NEW q \in Seq(WebSteps), q # <<>>, Linked(q)
    PROVE  /\ Tail(q) \in Seq(WebSteps) /\ Linked(Tail(q))
           /\ Reads(q) <=> Head(q) \in ReadLoop \/ Reads(Tail(q))
           /\ First(Tail(q)) = "none" \/ <<Head(q), First(Tail(q))>> \in Follows
           /\ First(Tail(q)) = "none" <=> Tail(q) = <<>>
<1>. DEFINE r == Tail(q)
<1>1. /\ r \in Seq(WebSteps) /\ Len(r) = Len(q) - 1
      /\ \A i \in 1..Len(r) : r[i] = q[i + 1]
  BY HeadTailProperties
<1>2. /\ DOMAIN q = 1..Len(q) /\ DOMAIN r = 1..Len(r)
      /\ Len(q) \in Nat /\ Len(r) \in Nat /\ Len(q) >= 1
  BY <1>1, LenProperties, EmptySeq
<1>3. Head(q) = q[1]
  OBVIOUS
<1>. HIDE DEF r
<1>4. r # <<>> => First(r) = r[1] /\ Len(r) >= 1
  BY <1>1, <1>2, EmptySeq DEF First
<1>5. Linked(r)
  <2>. SUFFICES ASSUME NEW i \in 1..Len(r), i + 1 \in 1..Len(r)
                PROVE  <<r[i], r[i + 1]>> \in Follows
    BY <1>2 DEF Linked
  <2>1. r[i] = q[i + 1] /\ r[i + 1] = q[i + 2] /\ i + 1 \in DOMAIN q /\ i + 2 \in DOMAIN q
    BY <1>1, <1>2
  <2>2. (i + 1) + 1 = i + 2
    BY <1>2
  <2>. QED
    BY <2>1, <2>2 DEF Linked
<1>6. Reads(q) <=> Head(q) \in ReadLoop \/ Reads(r)
  <2>1. ASSUME Reads(q), Head(q) \notin ReadLoop
        PROVE  Reads(r)
    <3>1. PICK i \in DOMAIN q : q[i] \in ReadLoop
      BY <2>1 DEF Reads
    <3>2. i # 1
      BY <1>3, <2>1, <3>1
    <3>3. i - 1 \in DOMAIN r /\ r[i - 1] = q[i]
      BY <1>1, <1>2, <3>2
    <3>. QED
      BY <3>1, <3>3 DEF Reads
  <2>2. ASSUME Reads(r)
        PROVE  Reads(q)
    <3>1. PICK i \in DOMAIN r : r[i] \in ReadLoop
      BY <2>2 DEF Reads
    <3>2. i + 1 \in DOMAIN q /\ r[i] = q[i + 1]
      BY <1>1, <1>2
    <3>. QED
      BY <3>1, <3>2 DEF Reads
  <2>3. Head(q) \in ReadLoop => Reads(q)
    BY <1>2, <1>3 DEF Reads
  <2>. QED
    BY <2>1, <2>2, <2>3
<1>7. r = <<>> \/ <<Head(q), First(r)>> \in Follows
  <2>. SUFFICES ASSUME r # <<>> PROVE <<Head(q), First(r)>> \in Follows
    OBVIOUS
  <2>1. 1 \in DOMAIN q /\ 1 + 1 \in DOMAIN q /\ First(r) = q[1 + 1]
    BY <1>1, <1>2, <1>4
  <2>. QED
    BY <1>3, <2>1 DEF Linked
<1>8. First(r) = "none" <=> r = <<>>
  <2>1. r # <<>> => First(r) \in WebSteps
    BY <1>1, HeadTailProperties DEF First
  <2>. QED
    BY <2>1 DEF First, WebSteps
<1>. QED
  BY <1>1, <1>5, <1>6, <1>7, <1>8 DEF r

\* Close puts its steps before what is left.
LEMMA LinkedClose ==
    ASSUME NEW r \in Seq(WebSteps), Linked(r), r = <<>> \/ First(r) = "read"
    PROVE  /\ CloseSteps \o r \in Seq(WebSteps) /\ Linked(CloseSteps \o r)
           /\ Reads(CloseSteps \o r) <=> Reads(r)
           /\ First(CloseSteps \o r) = "shut"
<1>1. /\ CloseSteps \in Seq(WebSteps) /\ Len(CloseSteps) = 3
      /\ CloseSteps[1] = "shut" /\ CloseSteps[2] = "closeSocket" /\ CloseSteps[3] = "notify"
  BY DEF CloseSteps, WebSteps
<1>. DEFINE all == CloseSteps \o r
<1>2. /\ all \in Seq(WebSteps) /\ Len(all) = 3 + Len(r)
      /\ \A i \in 1..3 + Len(r) : all[i] = IF i <= 3 THEN CloseSteps[i] ELSE r[i - 3]
  <2>1. PICK c \in Seq(WebSteps) : c = CloseSteps /\ Len(c) = 3
    BY <1>1
  <2>2. /\ c \o r \in Seq(WebSteps) /\ Len(c \o r) = Len(c) + Len(r)
        /\ \A i \in 1..Len(c) + Len(r) : (c \o r)[i] = IF i <= Len(c) THEN c[i] ELSE r[i - Len(c)]
    BY <2>1, ConcatProperties
  <2>. QED
    BY <2>1, <2>2
<1>3. /\ Len(r) \in Nat /\ DOMAIN r = 1..Len(r) /\ DOMAIN all = 1..3 + Len(r)
      /\ r # <<>> => r[1] = "read" /\ Len(r) >= 1
  BY <1>2, LenProperties, EmptySeq DEF First
<1>. HIDE DEF all
<1>4. ASSUME NEW i \in 1..3 + Len(r), i + 1 \in 1..3 + Len(r)
      PROVE  <<all[i], all[i + 1]>> \in Follows
  <2>1. CASE i = 1 \/ i = 2
    BY <1>1, <1>2, <1>3, <2>1 DEF Follows
  <2>2. CASE i = 3
    <3>1. all[3] = "notify" /\ all[4] = r[1] /\ r # <<>>
      BY <1>1, <1>2, <1>3, <1>4, <2>2
    <3>. QED
      BY <1>3, <2>2, <3>1 DEF Follows
  <2>3. CASE i > 3
    <3>1. all[i] = r[i - 3] /\ all[i + 1] = r[(i - 3) + 1] /\ i - 3 \in DOMAIN r /\ (i - 3) + 1 \in DOMAIN r
      BY <1>2, <1>3, <1>4, <2>3
    <3>. QED
      BY <3>1 DEF Linked
  <2>. QED
    BY <1>3, <2>1, <2>2, <2>3
<1>5. Linked(all)
  BY <1>3, <1>4 DEF Linked
<1>6. Reads(all) <=> Reads(r)
  <2>1. ASSUME NEW i \in DOMAIN r
        PROVE  i + 3 \in DOMAIN all /\ all[i + 3] = r[i]
    BY <1>2, <1>3
  <2>2. ASSUME NEW i \in DOMAIN all, all[i] \in ReadLoop
        PROVE  i - 3 \in DOMAIN r /\ all[i] = r[i - 3]
    <3>1. CASE i <= 3
      BY <1>1, <1>2, <1>3, <2>2, <3>1 DEF ReadLoop
    <3>2. CASE i > 3
      BY <1>2, <1>3, <3>2
    <3>. QED
      BY <1>3, <3>1, <3>2
  <2>. QED
    BY <2>1, <2>2 DEF Reads
<1>7. First(all) = "shut"
  <2>1. all # <<>> /\ Head(all) = all[1]
    BY <1>2, <1>3, EmptySeq
  <2>. QED
    BY <1>1, <1>2, <1>3, <2>1 DEF First
<1>. QED
  BY <1>2, <1>5, <1>6, <1>7 DEF all

\* The step a thread is at, and the threads that go on reading.
at == [t \in WebThreads |-> First(tasks[t])]
Readers == {t \in WebThreads : Reads(tasks[t])}

\* Thread t goes from step x to step y, the others stay where they are.
Moves(t, x, y) ==
    /\ WebPrograms' /\ at[t] = x /\ at' = [at EXCEPT ![t] = y]
    /\ Readers' \ {t} = Readers \ {t}
    /\ (x \in ReadLoop => t \in Readers) /\ (y \in ReadLoop => t \in Readers')

LEMMA FirstReads ==
    ASSUME NEW q \in Seq(WebSteps)
    PROVE  First(q) \in ReadLoop => Reads(q)
<1>. SUFFICES ASSUME q # <<>>, Head(q) \in ReadLoop PROVE Reads(q)
  BY DEF First, ReadLoop
<1>1. 1 \in DOMAIN q /\ q[1] = Head(q)
  BY LenProperties, EmptySeq
<1>. QED
  BY <1>1 DEF Reads

\* A program of one thread is replaced.
LEMMA Replacement ==
    ASSUME WebPrograms, NEW t \in WebThreads, NEW q \in Seq(WebSteps), Linked(q),
           tasks' = [tasks EXCEPT ![t] = q]
    PROVE  /\ Moves(t, First(tasks[t]), First(q))
           /\ t \in Readers' <=> Reads(q)
           /\ t \in Readers <=> Reads(tasks[t])
<1>1. /\ tasks \in [WebThreads -> Seq(WebSteps)] /\ tasks' \in [WebThreads -> Seq(WebSteps)]
      /\ \A u \in WebThreads : tasks'[u] = IF u = t THEN q ELSE tasks[u]
  BY DEF WebPrograms
<1>2. WebPrograms'
  BY <1>1 DEF WebPrograms
<1>3. /\ at[t] = First(tasks[t]) /\ at' = [at EXCEPT ![t] = First(q)]
  BY <1>1 DEF at
<1>4. /\ Readers' \ {t} = Readers \ {t}
      /\ t \in Readers' <=> Reads(q)
      /\ t \in Readers <=> Reads(tasks[t])
  BY <1>1 DEF Readers
<1>5. /\ First(q) \in ReadLoop => Reads(q)
      /\ First(tasks[t]) \in ReadLoop => Reads(tasks[t])
  BY <1>1, FirstReads
<1>. QED
  BY <1>2, <1>3, <1>4, <1>5 DEF Moves

\* A step that nothing follows: the thread goes on with s.
LEMMA LastStep ==
    ASSUME WebPrograms, NEW t \in WebThreads, NEW x, Doing(t, x), \A y : <<x, y>> \notin Follows,
           NEW s \in Seq(WebSteps), Linked(s), Proceed(t, s)
    PROVE  Moves(t, x, First(s)) /\ (t \in Readers' <=> Reads(s))
<1>1. /\ tasks[t] \in Seq(WebSteps) /\ Linked(tasks[t]) /\ tasks[t] # <<>>
      /\ Head(tasks[t]) = x /\ First(tasks[t]) = x
  BY DEF Doing, WebPrograms, First
<1>2. Tail(tasks[t]) = <<>>
  BY <1>1, LinkedTail
<1>3. tasks' = [tasks EXCEPT ![t] = s]
  <2>1. s \o <<>> = s
    BY ConcatEmptySeq
  <2>. QED
    BY <1>2, <2>1 DEF Proceed
<1>. QED
  BY <1>1, <1>3, Replacement

\* A step that is done: the thread goes on with what follows.
LEMMA StepDone ==
    ASSUME WebPrograms, NEW t \in WebThreads, NEW x, Doing(t, x), Proceed(t, <<>>)
    PROVE  /\ \E y : (y = "none" \/ <<x, y>> \in Follows) /\ Moves(t, x, y)
           /\ Readers' \subseteq Readers
<1>. DEFINE r == Tail(tasks[t])
<1>1. /\ tasks[t] \in Seq(WebSteps) /\ Linked(tasks[t]) /\ tasks[t] # <<>>
      /\ Head(tasks[t]) = x /\ First(tasks[t]) = x
  BY DEF Doing, WebPrograms, First
<1>2. /\ r \in Seq(WebSteps) /\ Linked(r) /\ (Reads(r) => Reads(tasks[t]))
      /\ First(r) = "none" \/ <<x, First(r)>> \in Follows
  BY <1>1, LinkedTail
<1>3. tasks' = [tasks EXCEPT ![t] = r]
  <2>1. <<>> \o r = r
    BY <1>2, ConcatEmptySeq
  <2>. QED
    BY <2>1 DEF Proceed
<1>. HIDE DEF r
<1>4. Moves(t, x, First(r)) /\ (t \in Readers' <=> Reads(r)) /\ (t \in Readers <=> Reads(tasks[t]))
  BY <1>1, <1>2, <1>3, Replacement
<1>5. Readers' \subseteq Readers
  BY <1>2, <1>4 DEF Moves
<1>. QED
  BY <1>2, <1>4, <1>5

\* Close goes through its steps.
LEMMA CloseGoesOn ==
    ASSUME WebPrograms, NEW t \in WebThreads, Doing(t, "close"), Proceed(t, CloseSteps)
    PROVE  Moves(t, "close", "shut") /\ Readers' \subseteq Readers
<1>. DEFINE r == Tail(tasks[t])
            q == CloseSteps \o r
<1>1. /\ tasks[t] \in Seq(WebSteps) /\ Linked(tasks[t]) /\ tasks[t] # <<>>
      /\ Head(tasks[t]) = "close" /\ First(tasks[t]) = "close"
  BY DEF Doing, WebPrograms, First
<1>2. /\ r \in Seq(WebSteps) /\ Linked(r) /\ (Reads(r) => Reads(tasks[t]))
      /\ r = <<>> \/ <<"close", First(r)>> \in Follows
  BY <1>1, LinkedTail
<1>3. r = <<>> \/ First(r) = "read"
  BY <1>2 DEF Follows
<1>4. q \in Seq(WebSteps) /\ Linked(q) /\ (Reads(q) <=> Reads(r)) /\ First(q) = "shut"
  BY <1>2, <1>3, LinkedClose
<1>5. tasks' = [tasks EXCEPT ![t] = q]
  BY DEF Proceed
<1>. HIDE DEF q, r
<1>6. Moves(t, "close", "shut") /\ (t \in Readers' <=> Reads(q)) /\ (t \in Readers <=> Reads(tasks[t]))
  BY <1>1, <1>4, <1>5, Replacement
<1>. QED
  BY <1>2, <1>4, <1>6 DEF Moves

\* A handler starts.
LEMMA HandlerBegins ==
    ASSUME WebPrograms, NEW t \in WebThreads, NEW s \in Seq(WebSteps), Linked(s), Enter(t, s)
    PROVE  Moves(t, "none", First(s)) /\ (t \in Readers' <=> Reads(s)) /\ t \notin Readers
<1>1. First(tasks[t]) = "none" /\ ~Reads(tasks[t]) /\ tasks' = [tasks EXCEPT ![t] = s]
  BY DEF Enter, First, Reads
<1>. QED
  BY <1>1, Replacement

\* The programs that handlers start with.
LEMMA Handlers ==
    /\ <<>> \in Seq(WebSteps) /\ Linked(<<>>) /\ First(<<>>) = "none" /\ ~Reads(<<>>)
    /\ \A x \in WebSteps : /\ <<x>> \in Seq(WebSteps) /\ Linked(<<x>>) /\ First(<<x>>) = x
                            /\ Reads(<<x>>) <=> x \in ReadLoop
    /\ <<"close", "read">> \in Seq(WebSteps) /\ Linked(<<"close", "read">>)
    /\ First(<<"close", "read">>) = "close"
    /\ <<"deliver", "deliver", "read">> \in Seq(WebSteps)
    /\ Linked(<<"deliver", "deliver", "read">>)
    /\ First(<<"deliver", "deliver", "read">>) = "deliver"
BY DEF WebSteps, Linked, First, Reads, Follows, ReadLoop

LEMMA Joined ==
    /\ <<"close">> \o <<"read">> = <<"close", "read">>
    /\ <<"deliver", "deliver">> \o <<"read">> = <<"deliver", "deliver", "read">>
    /\ <<>> \o <<"read">> = <<"read">>
<1>1. ASSUME NEW s \in Seq(WebSteps)
      PROVE  s \o <<"read">> = Append(s, "read")
  BY AppendIsConcat DEF WebSteps
<1>2. /\ <<"close">> \in Seq(WebSteps) /\ <<"deliver", "deliver">> \in Seq(WebSteps)
      /\ <<>> \in Seq(WebSteps)
  BY DEF WebSteps
<1>3. ASSUME NEW s \in Seq(WebSteps), NEW q \in Seq(WebSteps), Len(q) = Len(s) + 1,
             \A i \in 1..Len(s) : q[i] = s[i], q[Len(s) + 1] = "read"
      PROVE  s \o <<"read">> = q
  <2>1. /\ Append(s, "read") \in Seq(WebSteps) /\ Len(Append(s, "read")) = Len(s) + 1
        /\ \A i \in 1..Len(s) : Append(s, "read")[i] = s[i]
        /\ Append(s, "read")[Len(s) + 1] = "read"
    BY AppendProperties DEF WebSteps
  <2>2. \A i \in 1..Len(q) : i \in 1..Len(s) \/ i = Len(s) + 1
    BY <1>3, LenProperties
  <2>. QED
    BY <1>1, <1>3, <2>1, <2>2, SeqEqual
<1>4. /\ <<"close", "read">> \in Seq(WebSteps) /\ <<"deliver", "deliver", "read">> \in Seq(WebSteps)
      /\ <<"read">> \in Seq(WebSteps)
  BY DEF WebSteps
<1>5. <<"close">> \o <<"read">> = <<"close", "read">>
  <2>. DEFINE s == <<"close">>
              q == <<"close", "read">>
  <2>1. /\ s \in Seq(WebSteps) /\ q \in Seq(WebSteps) /\ Len(q) = Len(s) + 1
        /\ (\A i \in 1..Len(s) : q[i] = s[i]) /\ q[Len(s) + 1] = "read"
    BY <1>2, <1>4
  <2>. HIDE DEF s, q
  <2>2. s \o <<"read">> = q
    BY <1>3, <2>1
  <2>. QED
    BY <2>2 DEF s, q
<1>6. <<"deliver", "deliver">> \o <<"read">> = <<"deliver", "deliver", "read">>
  <2>. DEFINE s == <<"deliver", "deliver">>
              q == <<"deliver", "deliver", "read">>
  <2>1. /\ s \in Seq(WebSteps) /\ q \in Seq(WebSteps) /\ Len(q) = Len(s) + 1
        /\ (\A i \in 1..Len(s) : q[i] = s[i]) /\ q[Len(s) + 1] = "read"
    BY <1>2, <1>4
  <2>. HIDE DEF s, q
  <2>2. s \o <<"read">> = q
    BY <1>3, <2>1
  <2>. QED
    BY <2>2 DEF s, q
<1>7. <<>> \o <<"read">> = <<"read">>
  BY <1>2, <1>3, <1>4
<1>. QED
  BY <1>5, <1>6, <1>7

\* A thread goes on with one step, or a handler starts with one.
LEMMA OneStep ==
    ASSUME WebPrograms, NEW t \in WebThreads, NEW y \in WebSteps
    PROVE  /\ \A x : /\ Doing(t, x) /\ (\A z : <<x, z>> \notin Follows) /\ Proceed(t, <<y>>)
                     => Moves(t, x, y) /\ (t \in Readers' <=> y \in ReadLoop)
           /\ Enter(t, <<y>>) => Moves(t, "none", y) /\ (t \in Readers' <=> y \in ReadLoop)
<1>. DEFINE s == <<y>>
<1>1. s \in Seq(WebSteps) /\ Linked(s) /\ First(s) = y /\ (Reads(s) <=> y \in ReadLoop)
  BY DEF Linked, First, Reads
<1>. HIDE DEF s
<1>2. ASSUME NEW x, Doing(t, x), \A z : <<x, z>> \notin Follows, Proceed(t, s)
      PROVE  Moves(t, x, y) /\ (t \in Readers' <=> y \in ReadLoop)
  BY <1>1, <1>2, LastStep
<1>3. ASSUME Enter(t, s)
      PROVE  Moves(t, "none", y) /\ (t \in Readers' <=> y \in ReadLoop)
  BY <1>1, <1>3, HandlerBegins
<1>. QED
  BY <1>2, <1>3, Zenon DEF s

\* Where the steps of a handler lead its thread.
LEMMA HandlerMoves ==
    ASSUME WebPrograms, NEW t \in WebThreads
    PROVE  /\ Handshake(t) => t \notin Readers' /\ Moves(t, "handshake", "none")
           /\ Opened(t) => Moves(t, "opened", "read")
           /\ ReadFrame(t) => t \notin Readers' /\ Moves(t, "read", "none")
           /\ Header(t) => t \notin Readers' /\ Moves(t, "header", "none")
           /\ HandleControl(t) => \E y \in {"read", "close"} :
                                     Moves(t, "frame", y) /\ Readers' \subseteq Readers
           /\ HandleData(t) => /\ Moves(t, "frame", IF frame.fin THEN "deliver" ELSE "read")
                               /\ Readers' \subseteq Readers
           /\ CompleteCurrentMessage(t) =>
                 \E y \in {"none", "deliver", "read"} :
                    Moves(t, "deliver", y) /\ Readers' \subseteq Readers
           /\ HandleError(t) => \E y \in {"none", "close"} :
                                   Moves(t, "error", y) /\ Readers' \subseteq Readers
           /\ Close(t) => \E x \in {"close", "shut"}, y \in {"none", "read", "shut", "closeSocket"} :
                             Moves(t, x, y) /\ Readers' \subseteq Readers
           /\ CloseSocket(t) => \E y \in {"none", "notify"} :
                                   Moves(t, "closeSocket", y) /\ Readers' \subseteq Readers
           /\ Notify(t) => \E y \in {"none", "read"} :
                              Moves(t, "notify", y) /\ Readers' \subseteq Readers
           /\ SendPush(t) => Moves(t, "send", "none") /\ Readers' \subseteq Readers
<1>. USE Handlers
<1>1. ASSUME Handshake(t)
      PROVE  t \notin Readers' /\ Moves(t, "handshake", "none")
  <2>1. Doing(t, "handshake") /\ Proceed(t, <<>>) /\ \A y : <<"handshake", y>> \notin Follows
    BY <1>1 DEF Handshake, Follows
  <2>. QED
    BY <2>1, LastStep
<1>2. ASSUME Opened(t)
      PROVE  Moves(t, "opened", "read")
  <2>1. Doing(t, "opened") /\ Proceed(t, <<"read">>) /\ \A y : <<"opened", y>> \notin Follows
    BY <1>2 DEF Opened, Follows
  <2>. QED
    BY <2>1, OneStep DEF WebSteps
<1>3. ASSUME ReadFrame(t)
      PROVE  t \notin Readers' /\ Moves(t, "read", "none")
  <2>1. Doing(t, "read") /\ Proceed(t, <<>>) /\ \A y : <<"read", y>> \notin Follows
    BY <1>3 DEF ReadFrame, Follows
  <2>. QED
    BY <2>1, LastStep
<1>4. ASSUME Header(t)
      PROVE  t \notin Readers' /\ Moves(t, "header", "none")
  <2>1. Doing(t, "header") /\ Proceed(t, <<>>) /\ \A y : <<"header", y>> \notin Follows
    BY <1>4 DEF Header, Follows
  <2>. QED
    BY <2>1, LastStep
<1>5. \A y : <<"frame", y>> \notin Follows
  BY DEF Follows
<1>6. ASSUME HandleControl(t)
      PROVE  \E y \in {"read", "close"} : Moves(t, "frame", y) /\ Readers' \subseteq Readers
  <2>1. /\ Doing(t, "frame")
        /\ Proceed(t, <<"read">>) \/ Proceed(t, <<"close", "read">>)
    <3>1. <<"close">> \o <<"read">> = <<"close", "read">>
      BY Joined
    <3>2. \/ Doing(t, "frame") /\ Proceed(t, <<"read">>)
          \/ Doing(t, "frame") /\ Proceed(t, <<"close">> \o <<"read">>)
      BY <1>6 DEF HandleControl, ReadAgain
    <3>. QED
      BY <3>1, <3>2
  <2>2. ASSUME NEW y, Moves(t, "frame", y)
        PROVE  Readers' \subseteq Readers
    BY <2>2 DEF Moves, ReadLoop
  <2>3. CASE Proceed(t, <<"read">>)
    BY <1>5, <2>1, <2>2, <2>3, OneStep DEF WebSteps
  <2>4. CASE Proceed(t, <<"close", "read">>)
    BY <1>5, <2>1, <2>2, <2>4, LastStep
  <2>. QED
    BY <2>1, <2>3, <2>4
<1>7. ASSUME HandleData(t)
      PROVE  /\ Moves(t, "frame", IF frame.fin THEN "deliver" ELSE "read")
             /\ Readers' \subseteq Readers
  <2>1. /\ Doing(t, "frame")
        /\ Proceed(t, IF frame.fin THEN <<"deliver", "deliver", "read">> ELSE <<"read">>)
    <3>1. <<"deliver", "deliver">> \o <<"read">> = <<"deliver", "deliver", "read">>
      BY Joined
    <3>2. <<>> \o <<"read">> = <<"read">>
      BY Joined
    <3>3. Doing(t, "frame") /\ Proceed(t, (IF frame.fin THEN <<"deliver", "deliver">> ELSE <<>>) \o <<"read">>)
      BY <1>7 DEF HandleData, ReadAgain
    <3>. QED
      BY <3>1, <3>2, <3>3
  <2>2. ASSUME NEW y, Moves(t, "frame", y)
        PROVE  Readers' \subseteq Readers
    BY <2>2 DEF Moves, ReadLoop
  <2>3. CASE frame.fin
    BY <1>5, <2>1, <2>2, <2>3, LastStep
  <2>4. CASE ~frame.fin
    BY <1>5, <2>1, <2>2, <2>4, OneStep DEF WebSteps
  <2>. QED
    BY <2>3, <2>4
<1>8. ASSUME CompleteCurrentMessage(t)
      PROVE  \E y \in {"none", "deliver", "read"} : Moves(t, "deliver", y) /\ Readers' \subseteq Readers
  <2>1. Doing(t, "deliver") /\ Proceed(t, <<>>)
    BY <1>8 DEF CompleteCurrentMessage
  <2>2. \A y : <<"deliver", y>> \in Follows => y \in {"deliver", "read"}
    BY DEF Follows
  <2>. QED
    BY <2>1, <2>2, StepDone
<1>9. ASSUME HandleError(t)
      PROVE  \E y \in {"none", "close"} : Moves(t, "error", y) /\ Readers' \subseteq Readers
  <2>1. /\ Doing(t, "error") /\ \A y : <<"error", y>> \notin Follows
        /\ Proceed(t, <<>>) \/ Proceed(t, <<"close">>)
    BY <1>9 DEF HandleError, Follows
  <2>2. "close" \in WebSteps /\ "close" \notin ReadLoop
    BY DEF WebSteps, ReadLoop
  <2>3. ASSUME NEW y, Moves(t, "error", y), t \notin Readers'
        PROVE  Readers' \subseteq Readers
    BY <2>3 DEF Moves
  <2>4. CASE Proceed(t, <<>>)
    BY <2>1, <2>3, <2>4, LastStep
  <2>5. CASE Proceed(t, <<"close">>)
    BY <2>1, <2>2, <2>3, <2>5, OneStep
  <2>. QED
    BY <2>1, <2>4, <2>5
<1>10. ASSUME Close(t)
       PROVE  \E x \in {"close", "shut"}, y \in {"none", "read", "shut", "closeSocket"} :
                 Moves(t, x, y) /\ Readers' \subseteq Readers
  <2>1. \/ Doing(t, "close") /\ Proceed(t, <<>>)
        \/ Doing(t, "close") /\ Proceed(t, CloseSteps)
        \/ Doing(t, "shut") /\ Proceed(t, <<>>)
    BY <1>10 DEF Close
  <2>2. /\ \A y : <<"close", y>> \in Follows => y = "read"
        /\ \A y : <<"shut", y>> \in Follows => y = "closeSocket"
    BY DEF Follows
  <2>3. CASE Doing(t, "close") /\ Proceed(t, <<>>)
    BY <2>2, <2>3, StepDone
  <2>4. CASE Doing(t, "close") /\ Proceed(t, CloseSteps)
    BY <2>4, CloseGoesOn
  <2>5. CASE Doing(t, "shut") /\ Proceed(t, <<>>)
    BY <2>2, <2>5, StepDone
  <2>. QED
    BY <2>1, <2>3, <2>4, <2>5
<1>11. ASSUME CloseSocket(t)
       PROVE  \E y \in {"none", "notify"} : Moves(t, "closeSocket", y) /\ Readers' \subseteq Readers
  <2>1. Doing(t, "closeSocket") /\ Proceed(t, <<>>)
    BY <1>11 DEF CloseSocket
  <2>2. \A y : <<"closeSocket", y>> \in Follows => y = "notify"
    BY DEF Follows
  <2>. QED
    BY <2>1, <2>2, StepDone
<1>12. ASSUME Notify(t)
       PROVE  \E y \in {"none", "read"} : Moves(t, "notify", y) /\ Readers' \subseteq Readers
  <2>1. Doing(t, "notify") /\ Proceed(t, <<>>)
    BY <1>12 DEF Notify
  <2>2. \A y : <<"notify", y>> \in Follows => y = "read"
    BY DEF Follows
  <2>. QED
    BY <2>1, <2>2, StepDone
<1>13. ASSUME SendPush(t)
       PROVE  Moves(t, "send", "none") /\ Readers' \subseteq Readers
  <2>1. Doing(t, "send") /\ Proceed(t, <<>>)
    BY <1>13 DEF SendPush
  <2>2. \A y : <<"send", y>> \notin Follows
    BY DEF Follows
  <2>. QED
    BY <2>1, <2>2, StepDone
<1>. QED
  BY <1>1, <1>2, <1>3, <1>4, <1>6, <1>7, <1>8, <1>9, <1>10, <1>11, <1>12, <1>13

\* Where a thread starts.
LEMMA HandlerStarts ==
    ASSUME WebPrograms, awaited \in {"none", "handshake", "header", "payload"}
    PROVE  /\ PushMessage => Moves(PushThread, "none", "send") /\ Readers' \subseteq Readers
           /\ \A t \in WebThreads :
                 /\ ReadDone(t) => \E y \in {"handshake", "header", "frame"} :
                       /\ Moves(t, "none", y) /\ Readers' \subseteq Readers \cup {t}
                       /\ y = IF awaited = "payload" THEN "frame" ELSE awaited
                 /\ ReadFails(t) => Moves(t, "none", "error") /\ Readers' \subseteq Readers
                 /\ WriteFails(t) => Moves(t, "none", "error") /\ Readers' \subseteq Readers
                 /\ WriteDone(t) /\ Written.op = "response" =>
                       Moves(t, "none", "opened") /\ Readers' \subseteq Readers \cup {t}

<1>. USE Handlers
<1>1. ASSUME PushMessage
      PROVE  Moves(PushThread, "none", "send") /\ Readers' \subseteq Readers
  <2>1. Enter(PushThread, <<"send">>) /\ PushThread \in WebThreads
    BY <1>1 DEF PushMessage, WebThreads
  <2>2. "send" \in WebSteps /\ "send" \notin ReadLoop
    BY DEF WebSteps, ReadLoop
  <2>3. Moves(PushThread, "none", "send") /\ PushThread \notin Readers'
    BY <2>1, <2>2, OneStep
  <2>. QED
    BY <2>3 DEF Moves
<1>2. ASSUME NEW t \in WebThreads, NEW x \in WebSteps, Enter(t, <<x>>)
      PROVE  /\ Moves(t, "none", x) /\ Readers' \subseteq Readers \cup {t}
             /\ x \notin ReadLoop => Readers' \subseteq Readers
  <2>1. Moves(t, "none", x) /\ (t \in Readers' <=> x \in ReadLoop)
    BY <1>2, OneStep
  <2>. QED
    BY <2>1 DEF Moves
<1>3. ASSUME NEW t \in WebThreads, ReadDone(t)
      PROVE  \E y \in {"handshake", "header", "frame"} :
                /\ Moves(t, "none", y) /\ Readers' \subseteq Readers \cup {t}
                /\ y = IF awaited = "payload" THEN "frame" ELSE awaited
  <2>. DEFINE y == IF awaited = "payload" THEN "frame" ELSE awaited
  <2>1. Enter(t, <<y>>) /\ y \in {"handshake", "header", "frame"}
    BY <1>3 DEF ReadDone
  <2>. HIDE DEF y
  <2>2. y \in WebSteps
    BY <2>1 DEF WebSteps
  <2>3. Moves(t, "none", y) /\ Readers' \subseteq Readers \cup {t}
    BY <1>2, <2>1, <2>2
  <2>. QED
    BY <2>1, <2>3 DEF y
<1>4. "error" \in WebSteps \ ReadLoop /\ "opened" \in WebSteps
  BY DEF WebSteps, ReadLoop
<1>5. ASSUME NEW t \in WebThreads, ReadFails(t) \/ WriteFails(t)
      PROVE  Moves(t, "none", "error") /\ Readers' \subseteq Readers
  <2>1. Enter(t, <<"error">>)
    BY <1>5 DEF ReadFails, WriteFails
  <2>. QED
    BY <1>2, <1>4, <2>1
<1>6. ASSUME NEW t \in WebThreads, WriteDone(t), Written.op = "response"
      PROVE  Moves(t, "none", "opened") /\ Readers' \subseteq Readers \cup {t}
  <2>1. Enter(t, <<"opened">>)
    BY <1>6 DEF WriteDone
  <2>. QED
    BY <1>2, <1>4, <2>1
<1>. QED
  BY <1>1, <1>3, <1>5, <1>6

-----------------------------------------------------------------------------
(***************************************************************************)
(* One thread at most goes on reading, and the next read, the thread that  *)
(* will start it and the write of the handshake's response exclude each    *)
(* other.                                                                  *)
(***************************************************************************)
NoResponse(w) == \A i \in DOMAIN w : w[i][1].op # "response"
OneResponse(w) ==
    \A i \in DOMAIN w, j \in DOMAIN w :
        w[i][1].op = "response" /\ w[j][1].op = "response" => i = j

OneReader ==
    /\ \A t \in Readers, u \in Readers : t = u
    /\ Readers # {} => awaited = "none" /\ NoResponse(writes)
    /\ awaited # "none" => NoResponse(writes)
    /\ OneResponse(writes)

\* The request is the first thing the server reads, and the client sends no
\* frame before it has the response.
OnlyHandshake(q) == \A i \in DOMAIN q : q[i].op = "request"
Handshaking == awaited = "handshake" => OnlyHandshake(inbox) /\ ~Upgraded

\* Only a closed connection is removed, and no read starts on one.
Ending ==
    /\ ~inSessions => ~isOpen
    /\ \A t \in WebThreads :
          /\ at[t] = "notify" => ~isOpen
          /\ at[t] = "header" /\ ~isOpen => state \in {"CLOSING", "CLOSED"}

\* Operations join the writes in progress and leave them.
Ops == Out \X (1..MaxPieces)

LEMMA WriteAdded ==
    ASSUME NEW w \in Seq(Ops), NEW o \in Ops
    PROVE  /\ Append(w, o) \in Seq(Ops)
           /\ o[1].op # "response" /\ NoResponse(w) => NoResponse(Append(w, o))
           /\ o[1].op # "response" /\ OneResponse(w) => OneResponse(Append(w, o))
           /\ NoResponse(w) => OneResponse(Append(w, o))
<1>. DEFINE a == Append(w, o)
<1>1. /\ a \in Seq(Ops) /\ DOMAIN w = 1..Len(w) /\ DOMAIN a = 1..(Len(w) + 1)
      /\ \A i \in 1..Len(w) : a[i] = w[i]
      /\ a[Len(w) + 1] = o /\ Len(w) \in Nat
  BY AppendProperties, LenProperties
<1>. HIDE DEF a
<1>2. \A i \in DOMAIN a : \/ a[i] = o /\ i = Len(w) + 1
                          \/ i \in DOMAIN w /\ a[i] = w[i]
  BY <1>1
<1>. QED
  BY <1>1, <1>2 DEF NoResponse, OneResponse, a

LEMMA WriteTaken ==
    ASSUME NEW w \in Seq(Ops), w # <<>>
    PROVE  /\ Tail(w) \in Seq(Ops) /\ Head(w) \in Ops
           /\ NoResponse(w) => NoResponse(Tail(w)) /\ Head(w)[1].op # "response"
           /\ OneResponse(w) => OneResponse(Tail(w))
           /\ OneResponse(w) /\ Head(w)[1].op = "response" => NoResponse(Tail(w))
<1>. DEFINE r == Tail(w)
<1>1. /\ r \in Seq(Ops) /\ Head(w) \in Ops /\ Len(r) = Len(w) - 1 /\ Head(w) = w[1]
      /\ \A i \in 1..Len(r) : r[i] = w[i + 1]
  BY HeadTailProperties
<1>2. /\ DOMAIN w = 1..Len(w) /\ DOMAIN r = 1..Len(r) /\ Len(w) \in Nat /\ Len(w) >= 1
      /\ Len(r) \in Nat
  BY <1>1, LenProperties, EmptySeq
<1>. HIDE DEF r
<1>3. \A i \in DOMAIN r : i + 1 \in DOMAIN w /\ i + 1 # 1 /\ r[i] = w[i + 1] /\ i \in Nat
  BY <1>1, <1>2
<1>4. 1 \in DOMAIN w
  BY <1>2
<1>5. NoResponse(w) => NoResponse(r) /\ Head(w)[1].op # "response"
  BY <1>1, <1>3, <1>4 DEF NoResponse
<1>6. OneResponse(w) /\ Head(w)[1].op = "response" => NoResponse(r)
  BY <1>1, <1>3, <1>4 DEF NoResponse, OneResponse
<1>7. OneResponse(w) => OneResponse(r)
  <2>. SUFFICES ASSUME OneResponse(w), NEW i \in DOMAIN r, NEW j \in DOMAIN r,
                       r[i][1].op = "response", r[j][1].op = "response"
                PROVE  i = j
    BY DEF OneResponse
  <2>1. i + 1 = j + 1
    BY <1>3 DEF OneResponse
  <2>. QED
    BY <1>3, <2>1
<1>. QED
  BY <1>1, <1>5, <1>6, <1>7 DEF r

\* A write that goes to the end of the queue.
LEMMA WriteRotates ==
    ASSUME NEW w \in Seq(Ops), w # <<>>, NEW o \in Ops, o[1] = Head(w)[1]
    PROVE  /\ Append(Tail(w), o) \in Seq(Ops)
           /\ NoResponse(w) => NoResponse(Append(Tail(w), o))
           /\ OneResponse(w) => OneResponse(Append(Tail(w), o))
<1>. DEFINE r == Tail(w)
<1>1. /\ r \in Seq(Ops) /\ Head(w) \in Ops
      /\ NoResponse(w) => NoResponse(r) /\ Head(w)[1].op # "response"
      /\ OneResponse(w) => OneResponse(r)
      /\ OneResponse(w) /\ Head(w)[1].op = "response" => NoResponse(r)
  BY WriteTaken
<1>. HIDE DEF r
<1>2. /\ Append(r, o) \in Seq(Ops)
      /\ o[1].op # "response" /\ NoResponse(r) => NoResponse(Append(r, o))
      /\ o[1].op # "response" /\ OneResponse(r) => OneResponse(Append(r, o))
      /\ NoResponse(r) => OneResponse(Append(r, o))
  BY <1>1, WriteAdded
<1>. QED
  BY <1>1, <1>2 DEF r

\* A write starts: it joins the ones in progress while the socket is open.
LEMMA SendStarts ==
    ASSUME writes \in Seq(Ops), NEW f \in Out, NEW size \in 1..MaxPieces, SendFrame(f, size)
    PROVE  /\ writes' \in Seq(Ops) /\ (~isOpen => writes' = writes)
           /\ f.op # "response" /\ NoResponse(writes) => NoResponse(writes')
           /\ f.op # "response" /\ OneResponse(writes) => OneResponse(writes')
           /\ OneResponse(writes) /\ NoResponse(writes) => OneResponse(writes')
<1>. DEFINE o == <<f, size>>
<1>1. o \in Ops /\ o[1] = f /\ writes' = IF isOpen THEN Append(writes, o) ELSE writes
  BY DEF SendFrame, Ops
<1>. HIDE DEF o
<1>. QED
  BY <1>1, WriteAdded

\* Readers stop, reads end and no response is sent.
Fewer ==
    /\ Readers' \subseteq Readers /\ awaited' \in {awaited, "none"}
    /\ NoResponse(writes) => NoResponse(writes')
    /\ OneResponse(writes) => OneResponse(writes')

\* One thread takes over.
LEMMA FewerReaders ==
    OneReader /\ Fewer => OneReader'
<1>. SUFFICES ASSUME OneReader, Fewer PROVE OneReader'
  OBVIOUS
<1>1. Readers' # {} => Readers # {}
  BY DEF Fewer
<1>2. awaited' # "none" => awaited # "none"
  BY DEF Fewer
<1>. QED
  BY <1>1, <1>2 DEF OneReader, Fewer

LEMMA FrameTypes ==
    WebTypeOK => /\ writes \in Seq(Ops) /\ frame.n \in Nat /\ pushCount \in Nat
                 /\ 1 \in 1..MaxPieces
                 /\ \A k \in {"response", "pong", "close", "push"}, n \in Nat : [op |-> k, n |-> n] \in Out
BY ConnectionAssumption DEF WebTypeOK, Ops, In, Out

\* Every handler but those that send the response or read on.
LEMMA HandlersRead ==
    ASSUME WebTypeOK, WebPrograms, OneReader, NEW t \in WebThreads, WebHandler(t)
    PROVE  OneReader'
<1>. USE FewerReaders
<1>0. /\ \A u \in Readers, v \in Readers : u = v
      /\ Readers # {} => awaited = "none" /\ NoResponse(writes)
      /\ OneResponse(writes)
  BY DEF OneReader
<1>1. CASE Handshake(t)
  <2>1. /\ t \notin Readers' /\ Readers' \ {t} = Readers \ {t} /\ t \in Readers
    BY <1>1, HandlerMoves DEF Moves, ReadLoop
  <2>2. Readers' = {} /\ NoResponse(writes) /\ awaited' = "none"
    BY <1>0, <1>1, <2>1 DEF Handshake
  <2>3. OneResponse(writes')
    <3>1. SendFrame([op |-> "response", n |-> frame.n], 1)
      BY <1>1 DEF Handshake, Reply
    <3>. QED
      BY <1>0, <2>2, <3>1, FrameTypes, SendStarts
  <2>. QED
    BY <2>2, <2>3 DEF OneReader
<1>2. CASE Opened(t)
  <2>1. /\ Readers' \ {t} = Readers \ {t} /\ t \in Readers
    BY <1>2, HandlerMoves DEF Moves, ReadLoop
  <2>2. Fewer
    BY <1>2, <2>1 DEF Opened, Fewer, NoResponse, OneResponse
  <2>. QED
    BY <2>2
<1>3. CASE ReadFrame(t) \/ Header(t)
  <2>1. /\ t \notin Readers' /\ Readers' \ {t} = Readers \ {t} /\ t \in Readers
    BY <1>3, HandlerMoves DEF Moves, ReadLoop
  <2>2. Readers' = {} /\ NoResponse(writes) /\ UNCHANGED writes
    BY <1>0, <1>3, <2>1 DEF ReadFrame, Header
  <2>. QED
    BY <1>0, <2>2 DEF OneReader, NoResponse, OneResponse
<1>4. CASE HandleControl(t)
  <2>1. Readers' \subseteq Readers
    BY <1>4, HandlerMoves
  <2>2. UNCHANGED awaited /\ \/ UNCHANGED writes
                             \/ SendFrame([op |-> "pong", n |-> frame.n], 1)
                             \/ SendFrame([op |-> "close", n |-> frame.n], 1)
    BY <1>4 DEF HandleControl, Reply
  <2>3. CASE UNCHANGED writes
    BY <2>1, <2>2, <2>3 DEF Fewer, NoResponse, OneResponse
  <2>4. CASE SendFrame([op |-> "pong", n |-> frame.n], 1)
    BY <2>1, <2>2, <2>4, FrameTypes, SendStarts DEF Fewer
  <2>5. CASE SendFrame([op |-> "close", n |-> frame.n], 1)
    BY <2>1, <2>2, <2>5, FrameTypes, SendStarts DEF Fewer
  <2>. QED
    BY <2>2, <2>3, <2>4, <2>5
<1>5. CASE HandleData(t) \/ CompleteCurrentMessage(t) \/ HandleError(t) \/ Close(t) \/ Notify(t)
  <2>1. Readers' \subseteq Readers
    BY <1>5, HandlerMoves
  <2>2. UNCHANGED <<awaited, writes>>
    BY <1>5 DEF HandleData, CompleteCurrentMessage, HandleError, Close, Notify
  <2>3. Fewer
    BY <2>1, <2>2 DEF Fewer, NoResponse, OneResponse
  <2>. QED
    BY <2>3
<1>6. CASE CloseSocket(t)
  <2>1. Readers' \subseteq Readers
    BY <1>6, HandlerMoves
  <2>2. awaited' = "none" /\ writes' = <<>>
    BY <1>6 DEF CloseSocket, Cancelled
  <2>3. Fewer
    BY <2>1, <2>2 DEF Fewer, NoResponse, OneResponse
  <2>. QED
    BY <2>3
<1>7. CASE SendPush(t)
  <2>1. Readers' \subseteq Readers
    BY <1>7, HandlerMoves
  <2>2. PICK size \in 1..MaxPieces : SendFrame([op |-> "push", n |-> pushCount], size)
    BY <1>7 DEF SendPush
  <2>3. UNCHANGED awaited
    BY <1>7 DEF SendPush
  <2>4. Fewer
    BY <2>1, <2>2, <2>3, FrameTypes, SendStarts DEF Fewer
  <2>. QED
    BY <2>4
<1>. QED
  BY <1>1, <1>2, <1>3, <1>4, <1>5, <1>6, <1>7 DEF WebHandler

\* The completions, the socket and the client.
LEMMA OthersRead ==
    ASSUME WebTypeOK, WebPrograms, OneReader,
           Completion \/ WriteSome \/ PushMessage \/ ClientData \/ ClientControl \/ ClientLeaves
    PROVE  OneReader'
<1>. USE FewerReaders
<1>0. /\ \A u \in Readers, v \in Readers : u = v
      /\ Readers # {} => awaited = "none" /\ NoResponse(writes)
      /\ awaited # "none" => NoResponse(writes)
      /\ OneResponse(writes)
      /\ awaited \in {"none", "handshake", "header", "payload"} /\ writes \in Seq(Ops)
  BY FrameTypes DEF OneReader, WebTypeOK
<1>1. ASSUME NEW t \in WebThreads, ReadDone(t)
      PROVE  OneReader'
  <2>1. Readers' \subseteq Readers \cup {t}
    BY <1>0, <1>1, HandlerStarts
  <2>2. awaited # "none" /\ awaited' = "none" /\ UNCHANGED writes
    BY <1>1 DEF ReadDone
  <2>3. Readers' \subseteq {t} /\ NoResponse(writes)
    BY <1>0, <2>1, <2>2
  <2>. QED
    BY <1>0, <2>2, <2>3 DEF OneReader, NoResponse, OneResponse
<1>2. ASSUME NEW t \in WebThreads, ReadFails(t)
      PROVE  OneReader'
  <2>1. Readers' \subseteq Readers
    BY <1>0, <1>2, HandlerStarts
  <2>2. awaited' = "none" /\ UNCHANGED writes
    BY <1>2 DEF ReadFails
  <2>3. Fewer
    BY <2>1, <2>2 DEF Fewer, NoResponse, OneResponse
  <2>. QED
    BY <2>3
<1>3. ASSUME NEW t \in WebThreads, WriteFails(t)
      PROVE  OneReader'
  <2>1. Readers' \subseteq Readers
    BY <1>0, <1>3, HandlerStarts
  <2>2. UNCHANGED awaited /\ writes # <<>> /\ writes' = Tail(writes)
    BY <1>3 DEF WriteFails
  <2>3. Fewer
    BY <1>0, <2>1, <2>2, WriteTaken DEF Fewer
  <2>. QED
    BY <2>3
<1>4. ASSUME NEW t \in WebThreads, WriteDone(t)
      PROVE  OneReader'
  <2>1. UNCHANGED awaited /\ writes # <<>> /\ writes' = Tail(writes)
    BY <1>4 DEF WriteDone
  <2>2. CASE Written.op = "response"
    <3>1. Readers' \subseteq Readers \cup {t}
      BY <1>0, <1>4, <2>2, HandlerStarts
    <3>2. /\ ~NoResponse(writes) /\ NoResponse(writes') /\ OneResponse(writes')
      BY <1>0, <2>1, <2>2, WriteTaken DEF Written
    <3>3. Readers' \subseteq {t} /\ awaited' = "none"
      BY <1>0, <2>1, <3>1, <3>2
    <3>. QED
      BY <3>2, <3>3 DEF OneReader
  <2>3. CASE Written.op # "response"
    <3>1. UNCHANGED tasks
      BY <1>4, <2>3 DEF WriteDone
    <3>2. Readers' = Readers
      BY <3>1 DEF Readers
    <3>3. Fewer
      BY <1>0, <2>1, <3>2, WriteTaken DEF Fewer
    <3>. QED
      BY <3>3
  <2>. QED
    BY <2>2, <2>3
<1>5. CASE WriteSome
  <2>. DEFINE o == <<Written, Head(writes)[2] - 1>>
  <2>1. /\ writes # <<>> /\ writes' = Append(Tail(writes), o) /\ UNCHANGED <<awaited, tasks>>
        /\ Head(writes)[2] > 1 /\ o[1] = Head(writes)[1]
    BY <1>5 DEF WriteSome, Written
  <2>2. Head(writes) \in Ops
    BY <1>0, <2>1, WriteTaken
  <2>3. o \in Ops
    BY <2>1, <2>2, ConnectionAssumption DEF Ops, Written
  <2>. HIDE DEF o
  <2>4. Readers' = Readers
    BY <2>1 DEF Readers
  <2>5. Fewer
    BY <1>0, <2>1, <2>3, <2>4, WriteRotates DEF Fewer
  <2>. QED
    BY <2>5
<1>6. CASE PushMessage
  <2>1. Readers' \subseteq Readers
    BY <1>0, <1>6, HandlerStarts
  <2>2. UNCHANGED <<awaited, writes>>
    BY <1>6 DEF PushMessage
  <2>3. Fewer
    BY <2>1, <2>2 DEF Fewer, NoResponse, OneResponse
  <2>. QED
    BY <2>3
<1>7. CASE ClientData \/ ClientControl \/ ClientLeaves
  <2>1. UNCHANGED <<tasks, awaited, writes>>
    BY <1>7 DEF ClientData, ClientControl, ClientLeaves
  <2>2. Readers' = Readers
    BY <2>1 DEF Readers
  <2>3. Fewer
    BY <2>1, <2>2 DEF Fewer, NoResponse, OneResponse
  <2>. QED
    BY <2>3
<1>. QED
  BY <1>1, <1>2, <1>3, <1>4, <1>5, <1>6, <1>7 DEF Completion, WebThreads

\* The values of the queues of frames.
LEMMA FrameAdded ==
    ASSUME NEW S, NEW q \in Seq(S), NEW e \in S
    PROVE  /\ Append(q, e) \in Seq(S)
           /\ \A i \in DOMAIN Append(q, e) : \/ Append(q, e)[i] = e /\ i = Len(q) + 1
                                             \/ i \in DOMAIN q /\ Append(q, e)[i] = q[i]
<1>. DEFINE a == Append(q, e)
<1>1. /\ a \in Seq(S) /\ DOMAIN q = 1..Len(q) /\ DOMAIN a = 1..(Len(q) + 1)
      /\ \A i \in 1..Len(q) : a[i] = q[i]
      /\ a[Len(q) + 1] = e /\ Len(q) \in Nat
  BY AppendProperties, LenProperties
<1>. HIDE DEF a
<1>2. \A i \in DOMAIN a : \/ a[i] = e /\ i = Len(q) + 1
                          \/ i \in DOMAIN q /\ a[i] = q[i]
  BY <1>1
<1>. QED
  BY <1>1, <1>2 DEF a

LEMMA FrameTaken ==
    ASSUME NEW S, NEW q \in Seq(S), q # <<>>
    PROVE  /\ Tail(q) \in Seq(S) /\ Head(q) \in S /\ Len(Tail(q)) = Len(q) - 1
           /\ 1 \in DOMAIN q /\ Head(q) = q[1]
           /\ \A i \in DOMAIN Tail(q) : i + 1 \in DOMAIN q /\ Tail(q)[i] = q[i + 1]
<1>. DEFINE r == Tail(q)
<1>1. /\ r \in Seq(S) /\ Head(q) \in S /\ Len(r) = Len(q) - 1 /\ Head(q) = q[1]
      /\ \A i \in 1..Len(r) : r[i] = q[i + 1]
  BY HeadTailProperties
<1>2. /\ DOMAIN q = 1..Len(q) /\ DOMAIN r = 1..Len(r) /\ Len(q) \in Nat /\ Len(q) >= 1
      /\ Len(r) \in Nat
  BY <1>1, LenProperties, EmptySeq
<1>. HIDE DEF r
<1>. QED
  BY <1>1, <1>2 DEF r

\* Types, the todo lists apart.
LEMMA HandlerTypes ==
    ASSUME WebTypeOK, tasks' \in [WebThreads -> Seq(WebSteps)], Ending, NEW t \in WebThreads, WebHandler(t)
    PROVE  WebTypeOK'
<1>0. \A u \in WebThreads : at[u] = "header" /\ ~isOpen => state \in {"CLOSING", "CLOSED"}
  BY DEF Ending
<1>1. CASE Handshake(t)
  <2>1. /\ writes' \in Seq(Ops) /\ (~isOpen => writes' = writes)
    <3>1. SendFrame([op |-> "response", n |-> frame.n], 1)
      BY <1>1 DEF Handshake, Reply
    <3>. QED
      BY <3>1, FrameTypes, SendStarts
  <2>2. UNCHANGED <<state, isOpen, awaited, frame, current, handled, wire, inSessions, inbox,
                    client, pushCount>>
    BY <1>1 DEF Handshake
  <2>. QED
    BY <2>1, <2>2 DEF WebTypeOK, Ops, client
<1>2. CASE Opened(t)
  BY <1>2 DEF WebTypeOK, Opened, client
<1>3. CASE ReadFrame(t)
  BY <1>3 DEF WebTypeOK, ReadFrame, client
<1>4. CASE Header(t)
  <2>1. at[t] = "header"
    BY <1>4 DEF Header, Doing, at, First
  <2>. QED
    BY <1>0, <1>4, <2>1 DEF WebTypeOK, Header, client
<1>5. CASE HandleControl(t)
  <2>1. /\ writes' \in Seq(Ops) /\ (~isOpen => writes' = writes)
    <3>1. \/ UNCHANGED writes
          \/ SendFrame([op |-> "pong", n |-> frame.n], 1)
          \/ SendFrame([op |-> "close", n |-> frame.n], 1)
      BY <1>5 DEF HandleControl, Reply
    <3>. QED
      BY <3>1, FrameTypes, SendStarts
  <2>2. UNCHANGED <<state, isOpen, awaited, frame, current, handled, wire, inSessions, inbox,
                    client, pushCount>>
    BY <1>5 DEF HandleControl
  <2>. QED
    BY <2>1, <2>2 DEF WebTypeOK, Ops, client
<1>6. CASE HandleData(t)
  <2>1. current' = Append(IF frame.op = "first" THEN <<>> ELSE current, frame.n)
    BY <1>6 DEF HandleData, Extend
  <2>2. current' \in Seq(Nat)
    BY <2>1, FrameTypes, AppendProperties DEF WebTypeOK
  <2>3. UNCHANGED <<state, isOpen, awaited, frame, handled, writes, wire, inSessions, inbox,
                    client, pushCount>>
    BY <1>6 DEF HandleData
  <2>. QED
    BY <2>2, <2>3 DEF WebTypeOK, client
<1>7. CASE CompleteCurrentMessage(t)
  <2>1. handled' \in Seq(Seq(Nat)) /\ current' = <<>>
    BY <1>7, AppendProperties DEF CompleteCurrentMessage, NoMessage, WebTypeOK
  <2>2. UNCHANGED <<state, isOpen, awaited, frame, writes, wire, inSessions, inbox,
                    client, pushCount>>
    BY <1>7 DEF CompleteCurrentMessage
  <2>. QED
    BY <2>1, <2>2 DEF WebTypeOK, client
<1>8. CASE HandleError(t)
  BY <1>8 DEF WebTypeOK, HandleError, client
<1>9. CASE Close(t)
  BY <1>9 DEF WebTypeOK, Close, client
<1>10. CASE CloseSocket(t)
  <2>1. /\ isOpen' = FALSE /\ state' = "CLOSED" /\ awaited' = "none" /\ writes' = <<>>
        /\ UNCHANGED <<frame, current, handled, wire, inSessions, inbox, client, pushCount>>
    BY <1>10 DEF CloseSocket, Cancelled
  <2>2. isOpen' \in BOOLEAN
    BY <2>1, Zenon
  <2>. QED
    BY <2>1, <2>2 DEF WebTypeOK, client
<1>11. CASE Notify(t)
  <2>1. /\ inSessions' = FALSE
        /\ UNCHANGED <<state, isOpen, awaited, frame, current, handled, writes, wire,
                       inbox, client, pushCount>>
    BY <1>11 DEF Notify
  <2>2. inSessions' \in BOOLEAN
    BY <2>1, Zenon
  <2>. QED
    BY <2>1, <2>2 DEF WebTypeOK, client
<1>12. CASE SendPush(t)
  <2>1. /\ writes' \in Seq(Ops) /\ (~isOpen => writes' = writes)
    <3>1. PICK size \in 1..MaxPieces : SendFrame([op |-> "push", n |-> pushCount], size)
      BY <1>12 DEF SendPush
    <3>. QED
      BY <3>1, FrameTypes, SendStarts
  <2>2. UNCHANGED <<state, isOpen, awaited, frame, current, handled, wire, inSessions, inbox,
                    client, pushCount>>
    BY <1>12 DEF SendPush
  <2>. QED
    BY <2>1, <2>2 DEF WebTypeOK, Ops, client
<1>. QED
  BY <1>1, <1>2, <1>3, <1>4, <1>5, <1>6, <1>7, <1>8, <1>9, <1>10, <1>11, <1>12 DEF WebHandler

LEMMA OtherTypes ==
    ASSUME WebTypeOK, tasks' \in [WebThreads -> Seq(WebSteps)], fragments < MaxFragments,
           Completion \/ WriteSome \/ PushMessage \/ ClientData \/ ClientControl \/ ClientLeaves
    PROVE  WebTypeOK'
<1>. USE DEF client
<1>0. writes \in Seq(Ops)
  BY FrameTypes
<1>1. ASSUME NEW t \in WebThreads, ReadDone(t)
      PROVE  WebTypeOK'
  <2>1. /\ awaited # "none" /\ awaited' = "none"
        /\ UNCHANGED <<state, isOpen, current, handled, writes, wire, inSessions, client, pushCount>>
    BY <1>1 DEF ReadDone
  <2>2. frame' \in In /\ inbox' \in Seq(In)
    <3>1. inbox # <<>> /\ inbox \in Seq(In) /\ frame \in In
      BY <1>1 DEF ReadDone, WebTypeOK
    <3>2. \/ UNCHANGED <<frame, inbox>>
          \/ frame' = Head(inbox) /\ inbox' = Tail(inbox)
      BY <1>1 DEF ReadDone
    <3>. QED
      BY <3>1, <3>2, FrameTaken
  <2>. QED
    BY <2>1, <2>2 DEF WebTypeOK
<1>2. ASSUME NEW t \in WebThreads, ReadFails(t)
      PROVE  WebTypeOK'
  BY <1>2 DEF WebTypeOK, ReadFails
<1>3. ASSUME writes # <<>>, writes' \in Seq(Ops), wire' \in Seq(Out),
             UNCHANGED <<state, isOpen, awaited, frame, current, handled, inSessions, inbox,
                         client, pushCount>>
      PROVE  WebTypeOK'
  BY <1>3 DEF WebTypeOK, Ops
<1>4. writes # <<>> => /\ Written \in Out /\ Append(wire, Written) \in Seq(Out)
                       /\ Tail(writes) \in Seq(Ops) /\ Head(writes) \in Ops
  <2>. SUFFICES ASSUME writes # <<>>
                PROVE  /\ Written \in Out /\ Append(wire, Written) \in Seq(Out)
                       /\ Tail(writes) \in Seq(Ops) /\ Head(writes) \in Ops
    OBVIOUS
  <2>1. Tail(writes) \in Seq(Ops) /\ Head(writes) \in Ops
    BY <1>0, WriteTaken
  <2>2. Written \in Out
    BY <2>1 DEF Written, Ops
  <2>3. wire \in Seq(Out)
    BY DEF WebTypeOK
  <2>. QED
    BY <2>1, <2>2, <2>3, AppendProperties
<1>5. ASSUME NEW t \in WebThreads, WriteDone(t)
      PROVE  WebTypeOK'
  <2>1. /\ writes # <<>> /\ wire' = Append(wire, Written) /\ writes' = Tail(writes)
        /\ UNCHANGED <<state, isOpen, awaited, frame, current, handled, inSessions, inbox,
                       client, pushCount>>
    BY <1>5 DEF WriteDone
  <2>. QED
    BY <1>3, <1>4, <2>1
<1>6. ASSUME NEW t \in WebThreads, WriteFails(t)
      PROVE  WebTypeOK'
  <2>1. /\ writes # <<>> /\ writes' = Tail(writes) /\ wire \in Seq(Out)
        /\ UNCHANGED <<state, isOpen, awaited, frame, current, handled, wire, inSessions, inbox,
                       client, pushCount>>
    BY <1>6 DEF WriteFails, WebTypeOK
  <2>. QED
    BY <1>3, <1>4, <2>1
<1>7. CASE WriteSome
  <2>. DEFINE o == <<Written, Head(writes)[2] - 1>>
  <2>1. /\ writes # <<>> /\ wire' = Append(wire, Written) /\ writes' = Append(Tail(writes), o)
        /\ Head(writes)[2] > 1
        /\ UNCHANGED <<state, isOpen, awaited, frame, current, handled, inSessions, inbox,
                       client, pushCount>>
    BY <1>7 DEF WriteSome
  <2>2. o \in Ops
    BY <1>4, <2>1, ConnectionAssumption DEF Ops
  <2>. HIDE DEF o
  <2>3. writes' \in Seq(Ops)
    BY <1>4, <2>1, <2>2, AppendProperties
  <2>. QED
    BY <1>3, <1>4, <2>1, <2>3
<1>8. CASE PushMessage
  BY <1>8, ConnectionAssumption DEF WebTypeOK, PushMessage
<1>9. ASSUME NEW e \in In, inbox' = Append(inbox, e), left' \in BOOLEAN,
             meant' \in Seq(1..MaxFragments), fragments' \in 0..MaxFragments,
             pings' \in 0..MaxPings,
             UNCHANGED <<state, isOpen, awaited, frame, current, handled, writes, wire,
                         inSessions, pushCount>>
      PROVE  WebTypeOK'
  <2>1. inbox' \in Seq(In)
    BY <1>9, FrameAdded DEF WebTypeOK
  <2>. QED
    BY <1>9, <2>1 DEF WebTypeOK
<1>10. CASE ClientData
  <2>1. PICK fin \in BOOLEAN :
          /\ fin \/ fragments + 1 < MaxFragments
          /\ Sends(IF fragments = 0 THEN "first" ELSE "rest", fin, Len(meant) + 1)
          /\ meant' = IF fin THEN Append(meant, fragments + 1) ELSE meant
          /\ fragments' = IF fin THEN 0 ELSE fragments + 1
    BY <1>10 DEF ClientData
  <2>2. meant \in Seq(1..MaxFragments) /\ fragments \in 0..MaxFragments /\ Len(meant) \in Nat
    BY LenProperties DEF WebTypeOK
  <2>3. /\ meant' \in Seq(1..MaxFragments) /\ fragments' \in 0..MaxFragments
    <3>1. fragments + 1 \in 1..MaxFragments /\ 0 \in 0..MaxFragments
      BY <2>2, ConnectionAssumption
    <3>2. Append(meant, fragments + 1) \in Seq(1..MaxFragments)
      BY <2>2, <3>1, AppendProperties
    <3>3. CASE fin
      BY <2>1, <3>1, <3>2, <3>3
    <3>4. CASE ~fin
      <4>1. meant' = meant /\ fragments' = fragments + 1
        BY <2>1, <3>4
      <4>. QED
        BY <2>2, <3>1, <4>1
    <3>. QED
      BY <3>3, <3>4
  <2>. DEFINE e == [op |-> IF fragments = 0 THEN "first" ELSE "rest", fin |-> fin,
                    n |-> Len(meant) + 1]
  <2>4. e \in In /\ inbox' = Append(inbox, e)
    BY <2>1, <2>2 DEF Sends, In
  <2>. HIDE DEF e
  <2>5. /\ left' \in BOOLEAN /\ pings' \in 0..MaxPings
        /\ UNCHANGED <<state, isOpen, awaited, frame, current, handled, writes, wire,
                       inSessions, pushCount>>
    BY <1>10 DEF ClientData, WebTypeOK
  <2>. QED
    BY <1>9, <2>3, <2>4, <2>5
<1>11. CASE ClientControl
  <2>1. /\ UNCHANGED <<state, isOpen, awaited, frame, current, handled, writes, wire,
                       inSessions, pushCount>>
        /\ left' \in BOOLEAN /\ meant' \in Seq(1..MaxFragments)
        /\ fragments' \in 0..MaxFragments
    BY <1>11 DEF ClientControl, WebTypeOK
  <2>2. pings' \in 0..MaxPings
    <3>1. \/ pings < MaxPings /\ pings' = pings + 1
          \/ pings' = pings
      BY <1>11 DEF ClientControl
    <3>2. pings \in 0..MaxPings
      BY DEF WebTypeOK
    <3>. QED
      BY <3>1, <3>2, ConnectionAssumption
  <2>3. \/ inbox' = Append(inbox, [op |-> "ping", fin |-> TRUE, n |-> pings'])
        \/ inbox' = Append(inbox, [op |-> "close", fin |-> TRUE, n |-> 0])
    BY <1>11 DEF ClientControl, Sends
  <2>4. /\ [op |-> "ping", fin |-> TRUE, n |-> pings'] \in In
        /\ [op |-> "close", fin |-> TRUE, n |-> 0] \in In
    BY <2>2, ConnectionAssumption DEF In
  <2>. QED
    BY <1>9, <2>1, <2>2, <2>3, <2>4
<1>12. CASE ClientLeaves
  <2>1. /\ left' = TRUE
        /\ UNCHANGED <<state, isOpen, tasks, awaited, frame, current, handled, writes, wire,
                       inSessions, inbox, meant, fragments, pings, pushCount>>
    BY <1>12 DEF ClientLeaves
  <2>2. left' \in BOOLEAN
    BY <2>1, Zenon
  <2>. QED
    BY <2>1, <2>2 DEF WebTypeOK
<1>. QED
  BY <1>1, <1>2, <1>5, <1>6, <1>7, <1>8, <1>10, <1>11, <1>12 DEF Completion, WebThreads

-----------------------------------------------------------------------------
(***************************************************************************)
(* The stream of fragments.  A place in it is a message and the number of  *)
(* its fragments so far.  What the server has and what the client sent are *)
(* places, and the frames on their way lead from one to the other.         *)
(***************************************************************************)
Places == [m : Nat, f : Nat]

Data == {"first", "rest"}
Leads(mt, a, e, b) ==
    /\ e.op \notin Data => b = a
    /\ e.op \in Data =>
          /\ e.n = a.m /\ (e.op = "first" <=> a.f = 0)
          /\ e.fin => /\ a.m \in DOMAIN mt /\ mt[a.m] = a.f + 1
                      /\ b = [m |-> a.m + 1, f |-> 0]
          /\ ~e.fin => b = [m |-> a.m, f |-> a.f + 1]
Path(mt, a, q, b) ==
    \E P \in [0..Len(q) -> Places] :
        /\ P[0] = a /\ P[Len(q)] = b
        /\ \A i \in 1..Len(q) : Leads(mt, P[i - 1], q[i], P[i])

Delivers == \E t \in WebThreads : at[t] = "deliver"
Handles == \E t \in WebThreads : at[t] = "frame"

\* A message is complete in current_message_ before it is delivered.
Complete == Delivers /\ current # <<>>
Got == IF Complete THEN [m |-> Len(handled) + 2, f |-> 0]
                   ELSE [m |-> Len(handled) + 1, f |-> Len(current)]
Sent == [m |-> Len(meant) + 1, f |-> fragments]
Ahead ==
    IF Handles
    THEN \E mid \in Places : Leads(meant, Got, frame, mid) /\ Path(meant, mid, inbox, Sent)
    ELSE Path(meant, Got, inbox, Sent)

Stream ==
    /\ fragments < MaxFragments
    /\ \A j \in DOMAIN current : current[j] = Len(handled) + 1
    /\ Complete => /\ Len(handled) + 1 \in DOMAIN meant
                   /\ Len(current) = meant[Len(handled) + 1]
    /\ Ahead

\* A frame is sent.
LEMMA PathAppend ==
    ASSUME NEW mt, NEW a, NEW b, NEW q \in Seq(In), NEW e \in In, NEW c \in Places,
           Path(mt, a, q, b), Leads(mt, b, e, c)
    PROVE  Path(mt, a, Append(q, e), c)
<1>. DEFINE r == Append(q, e)
            n == Len(q)
<1>1. PICK P \in [0..n -> Places] :
          /\ P[0] = a /\ P[n] = b
          /\ \A i \in 1..n : Leads(mt, P[i - 1], q[i], P[i])
  BY DEF Path
<1>2. /\ n \in Nat /\ Len(r) = n + 1 /\ r[n + 1] = e
      /\ \A i \in 1..n : r[i] = q[i]
  BY AppendProperties, LenProperties
<1>. HIDE DEF n, r
<1>. DEFINE R == [i \in 0..(n + 1) |-> IF i = n + 1 THEN c ELSE P[i]]
<1>3. R \in [0..(n + 1) -> Places]
  BY <1>1, <1>2
<1>4. \A i \in 0..n : R[i] = P[i]
  BY <1>2
<1>5. R[0] = a /\ R[n + 1] = c /\ R[n] = b
  BY <1>1, <1>2
<1>. HIDE DEF R
<1>6. ASSUME NEW i \in 1..(n + 1)
      PROVE  Leads(mt, R[i - 1], r[i], R[i])
  <2>1. CASE i = n + 1
    <3>1. i - 1 = n /\ r[i] = e /\ R[i] = c
      BY <1>2, <1>5, <2>1
    <3>. QED
      BY <1>5, <3>1
  <2>2. CASE i # n + 1
    <3>1. i \in 1..n /\ i \in 0..n /\ i - 1 \in 0..n
      BY <1>2, <2>2
    <3>2. R[i - 1] = P[i - 1] /\ R[i] = P[i] /\ r[i] = q[i]
      BY <1>2, <1>4, <3>1
    <3>. QED
      BY <1>1, <3>1, <3>2
  <2>. QED
    BY <2>1, <2>2
<1>7. \E S \in [0..Len(r) -> Places] :
          /\ S[0] = a /\ S[Len(r)] = c
          /\ \A i \in 1..Len(r) : Leads(mt, S[i - 1], r[i], S[i])
  BY <1>2, <1>3, <1>5, <1>6
<1>. QED
  BY <1>7 DEF Path, r

\* A frame is taken.
LEMMA PathHead ==
    ASSUME NEW mt, NEW a, NEW b, NEW q \in Seq(In), q # <<>>, Path(mt, a, q, b)
    PROVE  \E mid \in Places : Leads(mt, a, Head(q), mid) /\ Path(mt, mid, Tail(q), b)
<1>. DEFINE r == Tail(q)
            n == Len(q)
<1>1. PICK P \in [0..n -> Places] :
          /\ P[0] = a /\ P[n] = b
          /\ \A i \in 1..n : Leads(mt, P[i - 1], q[i], P[i])
  BY DEF Path
<1>2. /\ n \in Nat /\ n >= 1 /\ Len(r) = n - 1 /\ Head(q) = q[1]
      /\ \A i \in 1..(n - 1) : r[i] = q[i + 1]
  BY HeadTailProperties, LenProperties, EmptySeq
<1>. HIDE DEF n, r
<1>. DEFINE R == [i \in 0..(n - 1) |-> P[i + 1]]
<1>3. R \in [0..(n - 1) -> Places] /\ P[1] \in Places
  BY <1>1, <1>2
<1>4. \A i \in 0..(n - 1) : R[i] = P[i + 1]
  BY <1>2
<1>5. R[0] = P[1] /\ R[n - 1] = b
  BY <1>1, <1>2
<1>. HIDE DEF R
<1>6. ASSUME NEW i \in 1..(n - 1)
      PROVE  Leads(mt, R[i - 1], r[i], R[i])
  <2>1. /\ R[i - 1] = P[i] /\ R[i] = P[i + 1] /\ r[i] = q[i + 1]
        /\ i + 1 \in 1..n /\ (i + 1) - 1 = i
    BY <1>2, <1>4
  <2>2. Leads(mt, P[(i + 1) - 1], q[i + 1], P[i + 1])
    BY <1>1, <2>1
  <2>. QED
    BY <2>1, <2>2
<1>7. \E S \in [0..Len(r) -> Places] :
          /\ S[0] = P[1] /\ S[Len(r)] = b
          /\ \A i \in 1..Len(r) : Leads(mt, S[i - 1], r[i], S[i])
  BY <1>2, <1>3, <1>5, <1>6
<1>8. Path(mt, P[1], r, b)
  BY <1>7 DEF Path
<1>9. Leads(mt, a, Head(q), P[1])
  <2>1. Leads(mt, P[1 - 1], q[1], P[1]) /\ 1 - 1 = 0
    BY <1>1, <1>2
  <2>. QED
    BY <1>1, <1>2, <2>1
<1>. QED
  BY <1>3, <1>8, <1>9 DEF r

\* A message is completed at the client.
LEMMA PathGrows ==
    ASSUME NEW mt, NEW S, mt \in Seq(S), NEW k \in S, NEW a, NEW b, NEW q
    PROVE  /\ \A e : Leads(mt, a, e, b) => Leads(Append(mt, k), a, e, b)
           /\ Path(mt, a, q, b) => Path(Append(mt, k), a, q, b)
<1>1. \A i \in DOMAIN mt : i \in DOMAIN Append(mt, k) /\ Append(mt, k)[i] = mt[i]
  BY AppendProperties, LenProperties
<1>. DEFINE m2 == Append(mt, k)
<1>. HIDE DEF m2
<1>2. \A x, e, y : Leads(mt, x, e, y) => Leads(m2, x, e, y)
  BY <1>1 DEF Leads, m2
<1>3. Path(mt, a, q, b) => Path(m2, a, q, b)
  BY <1>2 DEF Path
<1>. QED
  BY <1>2, <1>3 DEF m2

\* A thread at a step of the read loop reads, and no other one does.
LEMMA AtReads ==
    ASSUME WebPrograms, NEW t \in WebThreads, at[t] \in ReadLoop
    PROVE  t \in Readers
BY FirstReads DEF WebPrograms, at, Readers

LEMMA Alone ==
    ASSUME WebPrograms, OneReader, NEW t \in WebThreads, NEW x \in ReadLoop, NEW y, Moves(t, x, y)
    PROVE  /\ \A u \in WebThreads : u # t => at[u] \notin ReadLoop /\ at'[u] = at[u]
           /\ at[t] = x /\ at'[t] = y /\ awaited = "none" /\ NoResponse(writes)
<1>1. t \in Readers /\ at[t] = x /\ at' = [at EXCEPT ![t] = y]
  BY DEF Moves
<1>2. \A u \in WebThreads : at'[u] = IF u = t THEN y ELSE at[u]
  BY <1>1 DEF at
<1>. QED
  BY <1>1, <1>2, AtReads DEF OneReader

\* While a read is in progress no thread is in the read loop.
LEMMA NobodyReads ==
    ASSUME WebPrograms, OneReader, awaited # "none"
    PROVE  \A u \in WebThreads : at[u] \notin ReadLoop
BY AtReads DEF OneReader

\* Steps that do not touch the stream.
LEMMA StreamStays ==
    ASSUME Stream, UNCHANGED <<current, handled, frame, inbox, meant, fragments>>,
           Delivers' <=> Delivers, Handles' <=> Handles
    PROVE  Stream'
<1>1. Got' = Got /\ Sent' = Sent /\ (Complete' <=> Complete)
  BY DEF Got, Sent, Complete
<1>2. Ahead'
  BY <1>1 DEF Stream, Ahead
<1>. QED
  BY <1>1, <1>2 DEF Stream

LEMMA MovesElsewhere ==
    ASSUME NEW t \in WebThreads, NEW x, NEW y, Moves(t, x, y),
           x \notin {"frame", "deliver"}, y \notin {"frame", "deliver"}
    PROVE  (Delivers' <=> Delivers) /\ (Handles' <=> Handles)
<1>1. \A u \in WebThreads : at'[u] = (IF u = t THEN y ELSE at[u]) /\ at[t] = x
  BY DEF Moves, at
<1>. QED
  BY <1>1 DEF Delivers, Handles

LEMMA StandsStill ==
    tasks' = tasks => at' = at /\ Readers' = Readers /\ (Delivers' <=> Delivers)
                      /\ (Handles' <=> Handles)
BY DEF at, Readers, Delivers, Handles

\* Where the server is.
LEMMA PlacesAre ==
    WebTypeOK => /\ Got \in Places /\ Sent \in Places /\ Len(handled) \in Nat /\ Len(meant) \in Nat
                 /\ Len(current) \in Nat /\ (current # <<>> <=> Len(current) > 0)
BY LenProperties, EmptySeq DEF WebTypeOK, Got, Sent, Places

\* A control frame is handled.
LEMMA ControlHandled ==
    ASSUME WebTypeOK, WebPrograms, OneReader, Stream, NEW t \in WebThreads, HandleControl(t)
    PROVE  Stream'
<1>1. PICK y \in {"read", "close"} : Moves(t, "frame", y)
  BY HandlerMoves
<1>2. UNCHANGED <<current, handled, frame, inbox, meant, fragments>> /\ frame.op \notin Data
  BY DEF HandleControl, client, Data
<1>3. /\ Handles /\ ~Handles' /\ ~Delivers /\ ~Delivers'
  <2>1. "frame" \in ReadLoop /\ "deliver" \in ReadLoop
    BY DEF ReadLoop
  <2>2. /\ \A u \in WebThreads : u # t => at[u] \notin ReadLoop /\ at'[u] = at[u]
        /\ at[t] = "frame" /\ at'[t] = y
    BY <1>1, <2>1, Alone
  <2>. QED
    BY <2>1, <2>2 DEF Handles, Delivers
<1>4. Got' = Got /\ Sent' = Sent /\ (Complete' <=> Complete)
  BY <1>2, <1>3 DEF Got, Sent, Complete
<1>5. Path(meant, Got, inbox, Sent)
  BY <1>2, <1>3 DEF Stream, Ahead, Leads
<1>6. Ahead'
  BY <1>2, <1>3, <1>4, <1>5 DEF Ahead
<1>. QED
  BY <1>2, <1>4, <1>6 DEF Stream

\* A fragment is handled.
LEMMA DataHandled ==
    ASSUME WebTypeOK, WebPrograms, OneReader, Stream, NEW t \in WebThreads, HandleData(t)
    PROVE  Stream'
<1>. DEFINE h == Len(handled)
            c == IF frame.op = "first" THEN <<>> ELSE current
            y == IF frame.fin THEN "deliver" ELSE "read"
<1>1. Moves(t, "frame", y)
  BY HandlerMoves
<1>2. /\ UNCHANGED <<handled, frame, inbox, meant, fragments>> /\ frame.op \in Data
      /\ current' = Append(c, frame.n)
  BY DEF HandleData, client, Data, Extend
<1>3. /\ Handles /\ ~Handles' /\ ~Delivers /\ (Delivers' <=> frame.fin = TRUE)
  <2>1. "frame" \in ReadLoop /\ "deliver" \in ReadLoop
    BY DEF ReadLoop
  <2>2. /\ \A u \in WebThreads : u # t => at[u] \notin ReadLoop /\ at'[u] = at[u]
        /\ at[t] = "frame" /\ at'[t] = y
    BY <1>1, <2>1, Alone
  <2>3. frame.fin \in BOOLEAN
    BY DEF WebTypeOK, In
  <2>. QED
    BY <2>1, <2>2, <2>3 DEF Handles, Delivers
<1>4. Got = [m |-> h + 1, f |-> Len(current)] /\ ~Complete
  BY <1>3 DEF Got, Complete
<1>5. PICK mid \in Places : Leads(meant, Got, frame, mid) /\ Path(meant, mid, inbox, Sent)
  BY <1>3 DEF Stream, Ahead
<1>6. /\ frame.n = h + 1 /\ (frame.op = "first" <=> Len(current) = 0)
      /\ frame.fin => /\ h + 1 \in DOMAIN meant /\ meant[h + 1] = Len(current) + 1
                      /\ mid = [m |-> h + 2, f |-> 0]
      /\ ~frame.fin => mid = [m |-> h + 1, f |-> Len(current) + 1]
  <2>1. h \in Nat /\ h + 1 + 1 = h + 2 /\ Len(current) \in Nat
    BY PlacesAre
  <2>. QED
    BY <1>2, <1>4, <1>5, <2>1 DEF Leads
<1>7. c = current /\ current \in Seq(Nat) /\ frame.n \in Nat
  BY <1>6, EmptySeq, PlacesAre, FrameTypes DEF WebTypeOK
<1>8. /\ Len(current') = Len(current) + 1 /\ current' # <<>>
      /\ \A j \in DOMAIN current' : current'[j] = h + 1
  <2>1. \A j \in DOMAIN current : current[j] = h + 1
    BY DEF Stream
  <2>. QED
    BY <1>2, <1>6, <1>7, <2>1, FrameAdded, AppendProperties
<1>. HIDE DEF h, c, y
<1>9. Got' = mid /\ Sent' = Sent
  <2>1. Complete' <=> frame.fin = TRUE
    BY <1>3, <1>8 DEF Complete
  <2>2. frame.fin \in BOOLEAN /\ Len(handled') = h
    BY <1>2 DEF WebTypeOK, In, h
  <2>3. Sent' = Sent
    BY <1>2 DEF Sent
  <2>. QED
    BY <1>6, <1>8, <2>1, <2>2, <2>3 DEF Got
<1>10. Ahead'
  BY <1>2, <1>3, <1>5, <1>9 DEF Ahead
<1>11. Complete' => /\ Len(handled') + 1 \in DOMAIN meant'
                    /\ Len(current') = meant'[Len(handled') + 1]
  BY <1>2, <1>3, <1>6, <1>8 DEF Complete, h
<1>. QED
  BY <1>2, <1>8, <1>10, <1>11 DEF Stream, h

\* The message is delivered, or there is none any more.
LEMMA MessageDelivered ==
    ASSUME WebTypeOK, WebPrograms, OneReader, Stream, MessagesInOrder,
           NEW t \in WebThreads, CompleteCurrentMessage(t)
    PROVE  Stream' /\ MessagesInOrder'
<1>. DEFINE h == Len(handled)
<1>1. PICK y \in {"none", "deliver", "read"} : Moves(t, "deliver", y)
  BY HandlerMoves
<1>2. /\ UNCHANGED <<frame, inbox, meant, fragments>> /\ current' = <<>>
      /\ handled' = IF current = <<>> THEN handled ELSE Append(handled, current)
  BY DEF CompleteCurrentMessage, client, NoMessage
<1>3. /\ ~Handles /\ ~Handles' /\ Delivers
  <2>1. "frame" \in ReadLoop /\ "deliver" \in ReadLoop
    BY DEF ReadLoop
  <2>2. /\ \A u \in WebThreads : u # t => at[u] \notin ReadLoop /\ at'[u] = at[u]
        /\ at[t] = "deliver" /\ at'[t] = y
    BY <1>1, <2>1, Alone
  <2>. QED
    BY <2>1, <2>2 DEF Handles, Delivers
<1>4. /\ h \in Nat /\ handled \in Seq(Seq(Nat)) /\ current \in Seq(Nat) /\ Len(<<>>) = 0
      /\ Len(current) \in Nat /\ DOMAIN current = 1..Len(current) /\ Len(meant) \in Nat
      /\ DOMAIN meant = 1..Len(meant)
  BY LenProperties, EmptySeq DEF WebTypeOK
<1>5. /\ Len(handled') = IF current = <<>> THEN h ELSE h + 1
      /\ \A i \in DOMAIN handled' : \/ i \in DOMAIN handled /\ handled'[i] = handled[i]
                                    \/ i = h + 1 /\ handled'[i] = current /\ current # <<>>
  BY <1>2, <1>4, FrameAdded, AppendProperties
<1>6. Got' = Got /\ Sent' = Sent /\ ~Complete'
  BY <1>2, <1>3, <1>4, <1>5 DEF Got, Complete, Sent
<1>7. Ahead'
  BY <1>2, <1>3, <1>6 DEF Stream, Ahead
<1>8. Stream'
  BY <1>2, <1>6, <1>7 DEF Stream
<1>9. current # <<>> => /\ h + 1 \in DOMAIN meant /\ Len(current) = meant[h + 1]
                        /\ current = [j \in 1..meant[h + 1] |-> h + 1]
  <2>. SUFFICES ASSUME current # <<>>
                PROVE  /\ h + 1 \in DOMAIN meant /\ Len(current) = meant[h + 1]
                       /\ current = [j \in 1..meant[h + 1] |-> h + 1]
    OBVIOUS
  <2>1. h + 1 \in DOMAIN meant /\ Len(current) = meant[h + 1]
    BY <1>3 DEF Stream, Complete
  <2>2. \A j \in 1..Len(current) : current[j] = h + 1
    BY <1>4 DEF Stream
  <2>3. current = [j \in 1..Len(current) |-> current[j]]
    BY <1>4
  <2>. QED
    BY <2>1, <2>2, <2>3
<1>10. MessagesInOrder'
  <2>1. Len(handled') <= Len(meant')
    BY <1>2, <1>4, <1>5, <1>9 DEF MessagesInOrder
  <2>2. ASSUME NEW i \in DOMAIN handled'
        PROVE  handled'[i] = [j \in 1..meant[i] |-> i]
    BY <1>5, <1>9 DEF MessagesInOrder
  <2>. QED
    BY <1>2, <2>1, <2>2 DEF MessagesInOrder
<1>. QED
  BY <1>8, <1>10

\* A read brings a frame, or the first bytes of one.
LEMMA FrameRead ==
    ASSUME WebTypeOK, WebPrograms, OneReader, Handshaking, Stream, NEW t \in WebThreads, ReadDone(t)
    PROVE  Stream'
<1>1. /\ awaited \in {"handshake", "header", "payload"} /\ inbox # <<>> /\ inbox \in Seq(In)
      /\ UNCHANGED <<current, handled, meant, fragments>>
  BY DEF ReadDone, WebTypeOK, client
<1>2. PICK y \in {"handshake", "header", "frame"} :
          Moves(t, "none", y) /\ y = IF awaited = "payload" THEN "frame" ELSE awaited
  BY <1>1, HandlerStarts
<1>3. CASE awaited = "header"
  <2>1. UNCHANGED <<frame, inbox>> /\ y = "header"
    BY <1>2, <1>3 DEF ReadDone
  <2>. QED
    BY <1>1, <1>2, <2>1, MovesElsewhere, StreamStays
<1>4. ASSUME awaited # "header"
      PROVE  frame' = Head(inbox) /\ inbox' = Tail(inbox)
  BY <1>4 DEF ReadDone
<1>5. ~Handles /\ ~Delivers /\ \A u \in WebThreads : at'[u] = IF u = t THEN y ELSE at[u]
  <2>1. \A u \in WebThreads : at[u] \notin ReadLoop
    BY <1>1, NobodyReads
  <2>. QED
    BY <1>2, <2>1 DEF Handles, Delivers, ReadLoop, Moves, at
<1>6. ~Delivers' /\ (Handles' <=> y = "frame")
  BY <1>2, <1>5 DEF Delivers, Handles
<1>7. Got' = Got /\ Sent' = Sent /\ ~Complete /\ ~Complete'
  BY <1>1, <1>5, <1>6 DEF Got, Sent, Complete
<1>8. PICK mid \in Places : /\ Leads(meant, Got, Head(inbox), mid)
                            /\ Path(meant, mid, Tail(inbox), Sent)
  BY <1>1, <1>5, PathHead DEF Stream, Ahead
<1>9. CASE awaited = "handshake"
  <2>1. Head(inbox).op \notin Data
    <3>1. OnlyHandshake(inbox) /\ Head(inbox) = inbox[1] /\ 1 \in DOMAIN inbox
      BY <1>1, <1>9, FrameTaken DEF Handshaking
    <3>. QED
      BY <3>1 DEF OnlyHandshake, Data
  <2>2. Path(meant, Got, Tail(inbox), Sent)
    BY <1>8, <2>1 DEF Leads
  <2>3. Ahead'
    BY <1>1, <1>2, <1>4, <1>6, <1>7, <1>9, <2>2 DEF Ahead
  <2>. QED
    BY <1>1, <1>7, <2>3 DEF Stream
<1>10. CASE awaited = "payload"
  <2>1. Ahead'
    BY <1>1, <1>2, <1>4, <1>6, <1>7, <1>8, <1>10 DEF Ahead
  <2>. QED
    BY <1>1, <1>7, <2>1 DEF Stream
<1>. QED
  BY <1>1, <1>3, <1>9, <1>10

\* A frame of the client leads from what it sent to what it has sent now.
LEMMA FrameSent ==
    ASSUME WebTypeOK, Stream, NEW e \in In, inbox' = Append(inbox, e),
           Sent' \in Places, Leads(meant', Sent, e, Sent'),
           meant' = meant \/ \E k \in 1..MaxFragments : meant' = Append(meant, k),
           fragments' < MaxFragments,
           UNCHANGED <<current, handled, frame, tasks>>
    PROVE  Stream'
<1>1. \A a, b, q : Path(meant, a, q, b) => Path(meant', a, q, b)
  BY PathGrows DEF WebTypeOK
<1>2. \A a, b, d : Leads(meant, a, d, b) => Leads(meant', a, d, b)
  BY PathGrows DEF WebTypeOK
<1>3. inbox \in Seq(In)
  BY DEF WebTypeOK
<1>4. ASSUME NEW a, Path(meant, a, inbox, Sent)
      PROVE  Path(meant', a, inbox', Sent')
  BY <1>1, <1>3, <1>4, PathAppend
<1>5. (Delivers' <=> Delivers) /\ (Handles' <=> Handles)
  BY StandsStill
<1>6. Got' = Got /\ (Complete' <=> Complete)
  BY <1>5 DEF Got, Complete
<1>7. Ahead'
  BY <1>2, <1>4, <1>5, <1>6 DEF Stream, Ahead
<1>8. \A i \in DOMAIN meant : i \in DOMAIN meant' /\ meant'[i] = meant[i]
  <2>1. /\ meant \in Seq(1..MaxFragments) /\ DOMAIN meant = 1..Len(meant) /\ Len(meant) \in Nat
    BY LenProperties DEF WebTypeOK
  <2>2. ASSUME NEW k \in 1..MaxFragments, meant' = Append(meant, k)
        PROVE  \A i \in DOMAIN meant : i \in DOMAIN meant' /\ meant'[i] = meant[i]
    <3>. DEFINE S == 1..MaxFragments
                a == Append(meant, k)
    <3>. HIDE DEF S
    <3>1. /\ a \in Seq(S) /\ Len(a) = Len(meant) + 1 /\ \A i \in 1..Len(meant) : a[i] = meant[i]
      BY <2>1, AppendProperties DEF S
    <3>. HIDE DEF a
    <3>2. DOMAIN a = 1..(Len(meant) + 1)
      BY <3>1, LenProperties
    <3>3. \A i \in DOMAIN meant : i \in DOMAIN a /\ a[i] = meant[i]
      BY <2>1, <3>1, <3>2
    <3>. QED
      BY <2>2, <3>3 DEF a
  <2>. QED
    BY <2>2
<1>9. Complete' => /\ Len(handled') + 1 \in DOMAIN meant'
                   /\ Len(current') = meant'[Len(handled') + 1]
  BY <1>6, <1>8 DEF Stream
<1>. QED
  BY <1>7, <1>9 DEF Stream

\* The next fragment.
LEMMA DataSent ==
    ASSUME WebTypeOK, Stream, ClientData
    PROVE  Stream' /\ \E k \in 1..MaxFragments : meant' \in {meant, Append(meant, k)}
<1>. DEFINE w == IF fragments = 0 THEN "first" ELSE "rest"
<1>1. PICK fin \in BOOLEAN :
          /\ fin \/ fragments + 1 < MaxFragments
          /\ inbox' = Append(inbox, [op |-> w, fin |-> fin, n |-> Len(meant) + 1])
          /\ meant' = IF fin THEN Append(meant, fragments + 1) ELSE meant
          /\ fragments' = IF fin THEN 0 ELSE fragments + 1
  BY DEF ClientData, Sends
<1>. DEFINE e == [op |-> w, fin |-> fin, n |-> Len(meant) + 1]
<1>2. /\ meant \in Seq(1..MaxFragments) /\ fragments \in 0..MaxFragments
      /\ fragments < MaxFragments /\ Len(meant) \in Nat /\ fragments + 1 \in 1..MaxFragments
  BY PlacesAre, ConnectionAssumption DEF WebTypeOK, Stream
<1>3. e \in In /\ e.op \in Data /\ (e.op = "first" <=> fragments = 0) /\ e.n = Len(meant) + 1
      /\ (e.fin <=> fin) /\ inbox' = Append(inbox, e)
  BY <1>1, <1>2 DEF In, Data
<1>. HIDE DEF w, e
<1>4. UNCHANGED <<current, handled, frame, tasks>>
  BY DEF ClientData
<1>5. CASE fin
  <2>1. meant' = Append(meant, fragments + 1) /\ fragments' = 0
    BY <1>1, <1>5
  <2>2. /\ Len(meant') = Len(meant) + 1 /\ Len(meant) + 1 \in DOMAIN meant'
        /\ meant'[Len(meant) + 1] = fragments + 1
    BY <1>2, <2>1, AppendProperties, LenProperties
  <2>3. Sent = [m |-> Len(meant) + 1, f |-> fragments] /\ Sent' = [m |-> Len(meant) + 2, f |-> 0]
    BY <1>2, <2>1, <2>2 DEF Sent
  <2>4. Leads(meant', Sent, e, Sent') /\ Sent' \in Places
    BY <1>2, <1>3, <1>5, <2>2, <2>3 DEF Leads, Places
  <2>5. fragments' < MaxFragments
    BY <2>1, ConnectionAssumption
  <2>. QED
    BY <1>2, <1>3, <1>4, <2>1, <2>4, <2>5, FrameSent
<1>6. CASE ~fin
  <2>1. meant' = meant /\ fragments' = fragments + 1 /\ fragments' < MaxFragments
    BY <1>1, <1>6
  <2>2. /\ Sent = [m |-> Len(meant) + 1, f |-> fragments]
        /\ Sent' = [m |-> Len(meant) + 1, f |-> fragments + 1]
    BY <2>1 DEF Sent
  <2>3. Leads(meant', Sent, e, Sent') /\ Sent' \in Places
    BY <1>2, <1>3, <1>6, <2>2 DEF Leads, Places
  <2>. QED
    BY <1>2, <1>3, <1>4, <2>1, <2>3, FrameSent
<1>. QED
  BY <1>5, <1>6

\* A ping or a close.
LEMMA ControlSent ==
    ASSUME WebTypeOK, Stream, ClientControl
    PROVE  Stream'
<1>1. /\ UNCHANGED <<current, handled, frame, tasks, meant, fragments>>
      /\ \/ pings' = pings + 1 /\ inbox' = Append(inbox, [op |-> "ping", fin |-> TRUE, n |-> pings'])
         \/ inbox' = Append(inbox, [op |-> "close", fin |-> TRUE, n |-> 0])
  BY DEF ClientControl, Sends
<1>2. PICK e \in In : inbox' = Append(inbox, e) /\ e.op \notin Data
  <2>1. pings \in Nat
    BY ConnectionAssumption DEF WebTypeOK
  <2>2. ASSUME NEW k \in Nat, NEW w \in {"ping", "close"},
               inbox' = Append(inbox, [op |-> w, fin |-> TRUE, n |-> k])
        PROVE  \E e \in In : inbox' = Append(inbox, e) /\ e.op \notin Data
    <3>. DEFINE e == [op |-> w, fin |-> TRUE, n |-> k]
    <3>1. e \in In /\ e.op \notin Data
      BY DEF In, Data
    <3>. QED
      BY <2>2, <3>1
  <2>3. CASE pings' = pings + 1 /\ inbox' = Append(inbox, [op |-> "ping", fin |-> TRUE, n |-> pings'])
    <3>. DEFINE k == pings'
    <3>1. k \in Nat /\ inbox' = Append(inbox, [op |-> "ping", fin |-> TRUE, n |-> k])
      BY <2>1, <2>3
    <3>. HIDE DEF k
    <3>. QED
      BY <2>2, <3>1
  <2>4. CASE inbox' = Append(inbox, [op |-> "close", fin |-> TRUE, n |-> 0])
    BY <2>2, <2>4
  <2>. QED
    BY <1>1, <2>3, <2>4
<1>3. Sent' = Sent /\ Sent \in Places
  BY <1>1, PlacesAre DEF Sent
<1>4. Leads(meant', Sent, e, Sent') /\ fragments' < MaxFragments
  BY <1>1, <1>2, <1>3 DEF Leads, Stream
<1>. QED
  BY <1>1, <1>2, <1>3, <1>4, FrameSent

-----------------------------------------------------------------------------
\* The inductive invariant of a WebSocket connection.
WebInv ==
    /\ WebTypeOK /\ WebPrograms /\ OneReader /\ Handshaking /\ Ending /\ Stream
    /\ MessagesInOrder

LEMMA HandshakingStays ==
    ASSUME Handshaking, awaited' # "handshake" \/ UNCHANGED <<awaited, inbox, wire>>
    PROVE  Handshaking'
BY DEF Handshaking, Upgraded

LEMMA EndingStays ==
    ASSUME Ending, UNCHANGED <<isOpen, inSessions>>, state' = state \/ state' = "CLOSING",
           \A u \in WebThreads : at'[u] = at[u] \/ at'[u] \notin {"notify", "header"}
    PROVE  Ending'
BY DEF Ending

LEMMA MovesOn ==
    ASSUME NEW t \in WebThreads, NEW x, NEW y, Moves(t, x, y)
    PROVE  \A u \in WebThreads : at'[u] = IF u = t THEN y ELSE at[u]
BY DEF Moves, at

\* A handler of a thread keeps it.
LEMMA HandlerKeeps ==
    ASSUME WebInv, NEW t \in WebThreads, WebHandler(t)
    PROVE  WebInv'
<1>. USE DEF client
<1>0. WebTypeOK /\ WebPrograms /\ OneReader /\ Handshaking /\ Ending /\ Stream /\ MessagesInOrder
  BY DEF WebInv
<1>1. OneReader'
  BY <1>0, HandlersRead
<1>2. ASSUME WebPrograms'
      PROVE  WebTypeOK'
  BY <1>0, <1>2, HandlerTypes DEF WebPrograms
<1>3. ASSUME NEW x, NEW y, Moves(t, x, y), Handshaking', Ending', Stream', MessagesInOrder'
      PROVE  WebInv'
  BY <1>1, <1>2, <1>3 DEF Moves, WebInv
<1>4. ASSUME UNCHANGED <<current, handled, frame, inbox, meant, fragments>>,
             NEW x, NEW y, Moves(t, x, y),
             x \notin {"frame", "deliver"}, y \notin {"frame", "deliver"}
      PROVE  Stream' /\ MessagesInOrder'
  BY <1>0, <1>4, StreamStays, MovesElsewhere DEF MessagesInOrder
<1>5. ASSUME UNCHANGED <<isOpen, inSessions>>, state' = state \/ state' = "CLOSING",
             NEW x, NEW y, Moves(t, x, y), y \notin {"notify", "header"}
      PROVE  Ending'
  BY <1>0, <1>5, EndingStays, MovesOn
<1>6. CASE Handshake(t)
  <2>1. Moves(t, "handshake", "none")
    BY <1>0, <1>6, HandlerMoves
  <2>2. UNCHANGED <<state, isOpen, awaited, frame, current, handled, wire, inSessions, inbox,
                    client, pushCount>>
    BY <1>6 DEF Handshake
  <2>3. Handshaking'
    BY <1>0, <2>2, HandshakingStays
  <2>. QED
    BY <1>3, <1>4, <1>5, <2>1, <2>2, <2>3
<1>7. CASE Opened(t)
  <2>1. Moves(t, "opened", "read")
    BY <1>0, <1>7, HandlerMoves
  <2>2. UNCHANGED <<isOpen, awaited, frame, current, handled, wire, inSessions, inbox, client>>
    BY <1>7 DEF Opened
  <2>3. Handshaking'
    BY <1>0, <2>2, HandshakingStays
  <2>4. Ending'
    <3>1. /\ \A u \in WebThreads : u # t => at[u] # "header" /\ at'[u] = at[u]
          /\ at'[t] = "read"
      BY <1>0, <2>1, Alone DEF ReadLoop
    <3>. QED
      BY <1>0, <2>2, <3>1 DEF Ending
  <2>. QED
    BY <1>3, <1>4, <2>1, <2>2, <2>3, <2>4
<1>8. CASE ReadFrame(t)
  <2>1. Moves(t, "read", "none")
    BY <1>0, <1>8, HandlerMoves
  <2>2. /\ UNCHANGED <<state, isOpen, frame, current, handled, wire, inSessions, inbox, client>>
        /\ awaited' = "header" \/ awaited' = awaited
    BY <1>8 DEF ReadFrame
  <2>3. Handshaking'
    BY <1>0, <2>2, HandshakingStays
  <2>. QED
    BY <1>3, <1>4, <1>5, <2>1, <2>2, <2>3
<1>9. CASE Header(t)
  <2>1. Moves(t, "header", "none")
    BY <1>0, <1>9, HandlerMoves
  <2>2. /\ UNCHANGED <<state, isOpen, frame, current, handled, wire, inSessions, inbox, client>>
        /\ awaited' = "payload" \/ awaited' = awaited
    BY <1>9 DEF Header
  <2>3. Handshaking'
    BY <1>0, <2>2, HandshakingStays
  <2>. QED
    BY <1>3, <1>4, <1>5, <2>1, <2>2, <2>3
<1>10. CASE HandleControl(t)
  <2>1. PICK y \in {"read", "close"} : Moves(t, "frame", y)
    BY <1>0, <1>10, HandlerMoves
  <2>2. UNCHANGED <<state, isOpen, awaited, frame, current, handled, wire, inSessions, inbox,
                    client>>
    BY <1>10 DEF HandleControl
  <2>3. Handshaking' /\ Stream' /\ MessagesInOrder'
    BY <1>0, <1>10, <2>2, HandshakingStays, ControlHandled DEF MessagesInOrder
  <2>. QED
    BY <1>3, <1>5, <2>1, <2>2, <2>3
<1>11. CASE HandleData(t)
  <2>1. PICK y \in {"read", "deliver"} : Moves(t, "frame", y)
    BY <1>0, <1>11, HandlerMoves
  <2>2. UNCHANGED <<state, isOpen, awaited, frame, handled, wire, inSessions, inbox, client>>
    BY <1>11 DEF HandleData
  <2>3. Handshaking' /\ Stream' /\ MessagesInOrder'
    BY <1>0, <1>11, <2>2, HandshakingStays, DataHandled DEF MessagesInOrder
  <2>. QED
    BY <1>3, <1>5, <2>1, <2>2, <2>3
<1>12. CASE CompleteCurrentMessage(t)
  <2>1. PICK y \in {"none", "deliver", "read"} : Moves(t, "deliver", y)
    BY <1>0, <1>12, HandlerMoves
  <2>2. UNCHANGED <<state, isOpen, awaited, wire, inSessions, inbox>>
    BY <1>12 DEF CompleteCurrentMessage
  <2>3. Handshaking' /\ Stream' /\ MessagesInOrder'
    BY <1>0, <1>12, <2>2, HandshakingStays, MessageDelivered
  <2>. QED
    BY <1>3, <1>5, <2>1, <2>2, <2>3
<1>13. CASE HandleError(t)
  <2>1. PICK y \in {"none", "close"} : Moves(t, "error", y)
    BY <1>0, <1>13, HandlerMoves
  <2>2. UNCHANGED <<state, isOpen, awaited, frame, current, handled, wire, inSessions, inbox,
                    client>>
    BY <1>13 DEF HandleError
  <2>3. Handshaking'
    BY <1>0, <2>2, HandshakingStays
  <2>. QED
    BY <1>3, <1>4, <1>5, <2>1, <2>2, <2>3
<1>14. CASE Close(t)
  <2>1. PICK x \in {"close", "shut"}, y \in {"none", "read", "shut", "closeSocket"} : Moves(t, x, y)
    BY <1>0, <1>14, HandlerMoves
  <2>2. /\ UNCHANGED <<isOpen, awaited, frame, current, handled, wire, inSessions, inbox, client>>
        /\ state' = state \/ state' = "CLOSING"
    BY <1>14 DEF Close
  <2>3. Handshaking'
    BY <1>0, <2>2, HandshakingStays
  <2>. QED
    BY <1>3, <1>4, <1>5, <2>1, <2>2, <2>3
<1>15. CASE CloseSocket(t)
  <2>1. PICK y \in {"none", "notify"} : Moves(t, "closeSocket", y)
    BY <1>0, <1>15, HandlerMoves
  <2>2. /\ isOpen' = FALSE /\ state' = "CLOSED" /\ awaited' = "none"
        /\ UNCHANGED <<frame, current, handled, inbox, client>>
    BY <1>15 DEF CloseSocket, Cancelled
  <2>3. Handshaking' /\ Ending'
    BY <1>0, <2>2, HandshakingStays DEF Ending
  <2>. QED
    BY <1>3, <1>4, <2>1, <2>2, <2>3
<1>16. CASE Notify(t)
  <2>1. PICK y \in {"none", "read"} : Moves(t, "notify", y)
    BY <1>0, <1>16, HandlerMoves
  <2>2. /\ inSessions' = FALSE
        /\ UNCHANGED <<state, isOpen, awaited, frame, current, handled, wire, inbox, client>>
    BY <1>16 DEF Notify
  <2>3. Handshaking'
    BY <1>0, <2>2, HandshakingStays
  <2>4. Ending'
    <3>1. at[t] = "notify"
      BY <2>1, Zenon DEF Moves
    <3>2. \A u \in WebThreads : at'[u] = IF u = t THEN y ELSE at[u]
      BY <2>1, MovesOn, Zenon
    <3>. QED
      BY <1>0, <2>2, <3>1, <3>2 DEF Ending
  <2>. QED
    BY <1>3, <1>4, <2>1, <2>2, <2>3, <2>4
<1>17. CASE SendPush(t)
  <2>1. Moves(t, "send", "none")
    BY <1>0, <1>17, HandlerMoves
  <2>2. UNCHANGED <<state, isOpen, awaited, frame, current, handled, wire, inSessions, inbox,
                    client>>
    BY <1>17 DEF SendPush
  <2>3. Handshaking'
    BY <1>0, <2>2, HandshakingStays
  <2>. QED
    BY <1>3, <1>4, <1>5, <2>1, <2>2, <2>3
<1>. QED
  BY <1>6, <1>7, <1>8, <1>9, <1>10, <1>11, <1>12, <1>13, <1>14, <1>15, <1>16, <1>17 DEF WebHandler

\* So do the completions, the socket and the client.
LEMMA OthersKeep ==
    ASSUME WebInv,
           Completion \/ WriteSome \/ PushMessage \/ ClientData \/ ClientControl \/ ClientLeaves
    PROVE  WebInv'
<1>. USE DEF client
<1>0. /\ WebTypeOK /\ WebPrograms /\ OneReader /\ Handshaking /\ Ending /\ Stream /\ MessagesInOrder
      /\ awaited \in {"none", "handshake", "header", "payload"} /\ writes \in Seq(Ops)
      /\ fragments < MaxFragments
  BY FrameTypes DEF WebInv, WebTypeOK, Stream
<1>1. OneReader'
  BY <1>0, OthersRead
<1>2. ASSUME WebPrograms'
      PROVE  WebTypeOK'
  BY <1>0, <1>2, OtherTypes DEF WebPrograms
<1>3. ASSUME WebPrograms', Handshaking', Ending', Stream', MessagesInOrder'
      PROVE  WebInv'
  BY <1>1, <1>2, <1>3 DEF WebInv
<1>4. ASSUME UNCHANGED <<current, handled, frame, inbox, meant, fragments>>,
             NEW t \in WebThreads, NEW x, NEW y, Moves(t, x, y),
             x \notin {"frame", "deliver"}, y \notin {"frame", "deliver"}
      PROVE  WebPrograms' /\ Stream' /\ MessagesInOrder'
  BY <1>0, <1>4, StreamStays, MovesElsewhere DEF MessagesInOrder, Moves
<1>5. ASSUME UNCHANGED <<isOpen, inSessions, state>>,
             NEW t \in WebThreads, NEW x, NEW y, Moves(t, x, y), y \notin {"notify", "header"}
      PROVE  Ending'
  BY <1>0, <1>5, EndingStays, MovesOn
<1>6. ASSUME UNCHANGED <<isOpen, inSessions, state, tasks>>
      PROVE  Ending' /\ WebPrograms'
  BY <1>0, <1>6, EndingStays, StandsStill DEF WebPrograms
<1>7. ASSUME UNCHANGED <<current, handled, frame, inbox, meant, fragments, tasks>>
      PROVE  Stream' /\ MessagesInOrder'
  BY <1>0, <1>7, StreamStays, StandsStill DEF MessagesInOrder
<1>8. ASSUME NEW t \in WebThreads, ReadDone(t)
      PROVE  WebInv'
  <2>1. PICK y \in {"handshake", "header", "frame"} : Moves(t, "none", y)
    BY <1>0, <1>8, HandlerStarts
  <2>2. /\ awaited # "none" /\ awaited' = "none"
        /\ UNCHANGED <<state, isOpen, current, handled, wire, inSessions, client>>
    BY <1>8 DEF ReadDone
  <2>3. Handshaking' /\ Stream' /\ MessagesInOrder'
    BY <1>0, <1>8, <2>2, HandshakingStays, FrameRead DEF MessagesInOrder
  <2>4. Ending'
    <3>1. isOpen /\ \A u \in WebThreads : at'[u] = IF u = t THEN y ELSE at[u]
      BY <1>0, <2>1, <2>2, MovesOn DEF WebTypeOK
    <3>. QED
      BY <1>0, <2>2, <3>1 DEF Ending
  <2>. QED
    BY <1>3, <2>1, <2>3, <2>4 DEF Moves
<1>9. ASSUME NEW t \in WebThreads, ReadFails(t) \/ WriteFails(t)
      PROVE  WebInv'
  <2>1. Moves(t, "none", "error")
    BY <1>0, <1>9, HandlerStarts
  <2>2. /\ UNCHANGED <<state, isOpen, frame, current, handled, wire, inSessions, inbox, client>>
        /\ awaited' = "none" \/ awaited' = awaited
    BY <1>9 DEF ReadFails, WriteFails
  <2>3. Handshaking'
    BY <1>0, <2>2, HandshakingStays
  <2>. QED
    BY <1>3, <1>4, <1>5, <2>1, <2>2, <2>3
<1>10. ASSUME writes # <<>>, UNCHANGED <<awaited, inbox>>, wire' = Append(wire, Written)
       PROVE  Handshaking'
  <2>1. SUFFICES ASSUME awaited = "handshake"
                 PROVE  OnlyHandshake(inbox) /\ ~Upgraded'
    BY <1>10 DEF Handshaking
  <2>2. NoResponse(writes)
    BY <1>0, <2>1 DEF OneReader
  <2>3. Written \in Out /\ Written.op # "response" /\ wire \in Seq(Out)
    BY <1>0, <1>10, <2>2, WriteTaken DEF Written, Ops, WebTypeOK
  <2>4. \A i \in DOMAIN wire' : wire'[i] = Written \/ (i \in DOMAIN wire /\ wire'[i] = wire[i])
    BY <1>10, <2>3, FrameAdded
  <2>. QED
    BY <1>0, <2>1, <2>3, <2>4 DEF Handshaking, Upgraded
<1>11. ASSUME NEW t \in WebThreads, WriteDone(t)
       PROVE  WebInv'
  <2>1. /\ writes # <<>> /\ wire' = Append(wire, Written)
        /\ UNCHANGED <<state, isOpen, awaited, frame, current, handled, inSessions, inbox, client>>
    BY <1>11 DEF WriteDone
  <2>2. Handshaking'
    BY <1>10, <2>1
  <2>3. CASE Written.op = "response"
    <3>1. Moves(t, "none", "opened")
      BY <1>0, <1>11, <2>3, HandlerStarts
    <3>. QED
      BY <1>3, <1>4, <1>5, <2>1, <2>2, <3>1
  <2>4. CASE Written.op # "response"
    <3>1. UNCHANGED tasks
      BY <1>11, <2>4 DEF WriteDone
    <3>. QED
      BY <1>3, <1>6, <1>7, <2>1, <2>2, <3>1
  <2>. QED
    BY <2>3, <2>4
<1>12. CASE WriteSome
  <2>1. /\ writes # <<>> /\ wire' = Append(wire, Written)
        /\ UNCHANGED <<state, isOpen, awaited, frame, current, handled, inSessions, inbox,
                       client, tasks>>
    BY <1>12 DEF WriteSome
  <2>2. Handshaking'
    BY <1>10, <2>1
  <2>. QED
    BY <1>3, <1>6, <1>7, <2>1, <2>2
<1>13. CASE PushMessage
  <2>1. Moves(PushThread, "none", "send") /\ PushThread \in WebThreads
    BY <1>0, <1>13, HandlerStarts DEF WebThreads
  <2>2. UNCHANGED <<state, isOpen, awaited, frame, current, handled, wire, inSessions, inbox,
                    client>>
    BY <1>13 DEF PushMessage
  <2>3. Handshaking'
    BY <1>0, <2>2, HandshakingStays
  <2>. QED
    BY <1>3, <1>4, <1>5, <2>1, <2>2, <2>3
<1>14. ASSUME Upgraded, UNCHANGED <<awaited, wire>>
       PROVE  Handshaking'
  BY <1>0, <1>14 DEF Handshaking, Upgraded
<1>15. CASE ClientData
  <2>1. /\ Upgraded
        /\ UNCHANGED <<state, isOpen, tasks, awaited, handled, wire, inSessions>>
    BY <1>15 DEF ClientData, Sends
  <2>2. Stream' /\ \E k \in 1..MaxFragments : meant' \in {meant, Append(meant, k)}
    BY <1>0, <1>15, DataSent
  <2>3. MessagesInOrder'
    <3>1. meant \in Seq(1..MaxFragments) /\ handled \in Seq(Seq(Nat))
      BY <1>0 DEF WebTypeOK
    <3>2. Len(meant') >= Len(meant) /\ \A i \in 1..Len(meant) : meant'[i] = meant[i]
      <4>1. Len(meant) \in Nat
        BY <3>1, LenProperties
      <4>2. PICK k \in 1..MaxFragments : meant' \in {meant, Append(meant, k)}
        BY <2>2
      <4>3. CASE meant' = meant
        BY <4>1, <4>3
      <4>4. CASE meant' = Append(meant, k)
        BY <3>1, <4>1, <4>4, AppendProperties
      <4>. QED
        BY <4>2, <4>3, <4>4
    <3>3. \A i \in DOMAIN handled : i \in 1..Len(meant)
      BY <1>0, <3>1, LenProperties DEF MessagesInOrder
    <3>4. Len(handled) <= Len(meant) /\ Len(handled) \in Nat /\ Len(meant) \in Nat
      BY <1>0, <3>1, LenProperties DEF MessagesInOrder
    <3>5. Len(handled) <= Len(meant')
      <4>1. Len(meant') \in Nat
        BY <2>2, <3>1, AppendProperties, LenProperties
      <4>. QED
        BY <3>2, <3>4, <4>1
    <3>6. \A i \in DOMAIN handled : handled[i] = [j \in 1..meant'[i] |-> i]
      BY <1>0, <3>2, <3>3 DEF MessagesInOrder
    <3>. QED
      BY <2>1, <3>5, <3>6 DEF MessagesInOrder
  <2>. QED
    BY <1>3, <1>6, <1>14, <2>1, <2>2, <2>3
<1>16. CASE ClientControl
  <2>1. /\ Upgraded
        /\ UNCHANGED <<state, isOpen, tasks, awaited, handled, wire, inSessions, meant>>
    BY <1>16 DEF ClientControl, Sends
  <2>2. Stream' /\ MessagesInOrder'
    BY <1>0, <1>16, <2>1, ControlSent DEF MessagesInOrder
  <2>. QED
    BY <1>3, <1>6, <1>14, <2>1, <2>2
<1>17. CASE ClientLeaves
  <2>1. UNCHANGED <<state, isOpen, tasks, awaited, frame, current, handled, wire, inSessions,
                    inbox, meant, fragments>>
    BY <1>17 DEF ClientLeaves
  <2>2. Handshaking'
    BY <1>0, <2>1, HandshakingStays
  <2>. QED
    BY <1>3, <1>6, <1>7, <2>1, <2>2
<1>. QED
  BY <1>8, <1>9, <1>11, <1>12, <1>13, <1>15, <1>16, <1>17 DEF Completion, WebThreads

LEMMA InitWeb ==
    WebInit => WebInv
<1>. SUFFICES ASSUME WebInit PROVE WebInv
  OBVIOUS
<1>. USE DEF WebInit
<1>1. WebPrograms
  BY DEF WebPrograms, Linked
<1>2. at = [t \in WebThreads |-> "none"] /\ Readers = {}
  BY DEF at, Readers, First, Reads
<1>3. OneReader /\ Ending
  <2>1. /\ DOMAIN writes = {} /\ isOpen = TRUE /\ inSessions = TRUE
        /\ \A t \in WebThreads : at[t] # "notify" /\ at[t] # "header"
    BY <1>2
  <2>2. OneReader
    BY <1>2, <2>1 DEF OneReader, NoResponse, OneResponse
  <2>3. Ending
    BY <2>1 DEF Ending
  <2>. QED
    BY <2>2, <2>3
<1>4. inbox = <<[op |-> "request", fin |-> TRUE, n |-> 0]>>
  OBVIOUS
<1>5. WebTypeOK
  <2>1. isOpen \in BOOLEAN /\ inSessions \in BOOLEAN /\ left \in BOOLEAN /\ TRUE \in BOOLEAN
    BY Zenon
  <2>2. tasks \in [WebThreads -> Seq(WebSteps)] /\ ~(~isOpen)
    OBVIOUS
  <2>3. frame \in In /\ inbox \in Seq(In)
    BY <1>4, <2>1 DEF In
  <2>4. /\ current \in Seq(Nat) /\ handled \in Seq(Seq(Nat))
        /\ writes \in Seq(Out \X (1..MaxPieces)) /\ wire \in Seq(Out)
        /\ meant \in Seq(1..MaxFragments) /\ fragments \in 0..MaxFragments
        /\ pings \in 0..MaxPings /\ pushCount \in 0..MaxPushes
    BY ConnectionAssumption
  <2>5. /\ state \in {"HANDSHAKE", "OPEN", "CLOSING", "CLOSED"}
        /\ awaited \in {"none", "handshake", "header", "payload"}
    OBVIOUS
  <2>. QED
    BY <2>1, <2>2, <2>3, <2>4, <2>5, Zenon DEF WebTypeOK
<1>6. Handshaking /\ MessagesInOrder
  BY <1>4 DEF Handshaking, OnlyHandshake, Upgraded, MessagesInOrder
<1>7. Stream
  <2>1. /\ ~Delivers /\ ~Handles /\ ~Complete
        /\ Got = [m |-> 1, f |-> 0] /\ Sent = [m |-> 1, f |-> 0]
    BY <1>2 DEF Delivers, Handles, Complete, Got, Sent
  <2>2. Path(meant, Got, inbox, Sent)
    <3>. DEFINE a == [m |-> 1, f |-> 0]
                P == [i \in 0..1 |-> a]
    <3>1. a \in Places /\ Len(inbox) = 1 /\ inbox[1].op \notin Data
      BY <1>4 DEF Places, Data
    <3>. HIDE DEF a
    <3>2. P \in [0..1 -> Places] /\ P[0] = a /\ P[1] = a
      BY <3>1
    <3>3. \A i \in 1..1 : i = 1 /\ P[i - 1] = a /\ P[i] = a
      OBVIOUS
    <3>. HIDE DEF P
    <3>4. \A i \in 1..1 : Leads(meant, P[i - 1], inbox[i], P[i])
      BY <3>1, <3>3 DEF Leads
    <3>5. Path(meant, a, inbox, a)
      BY <3>1, <3>2, <3>4 DEF Path
    <3>. QED
      BY <2>1, <3>5 DEF a
  <2>. QED
    BY <2>1, <2>2, ConnectionAssumption DEF Stream, Ahead
<1>. QED
  BY <1>1, <1>3, <1>5, <1>6, <1>7 DEF WebInv

LEMMA WebStutters ==
    WebInv /\ UNCHANGED webVars => WebInv'
<1>. SUFFICES ASSUME WebInv, UNCHANGED webVars PROVE WebInv'
  OBVIOUS
<1>. USE DEF webVars, client
<1>1. /\ at' = at /\ Readers' = Readers /\ (Delivers' <=> Delivers) /\ (Handles' <=> Handles)
  BY StandsStill
<1>2. WebTypeOK' /\ WebPrograms' /\ MessagesInOrder'
  BY DEF WebInv, WebTypeOK, WebPrograms, MessagesInOrder
<1>3. OneReader' /\ Ending' /\ Handshaking'
  BY <1>1 DEF WebInv, OneReader, NoResponse, OneResponse, Ending, Handshaking, Upgraded
<1>4. Stream'
  BY <1>1, StreamStays DEF WebInv
<1>. QED
  BY <1>2, <1>3, <1>4 DEF WebInv

LEMMA WebInvariant == WebSpec => []WebInv
<1>1. WebInv /\ [WebNext]_webVars => WebInv'
  BY HandlerKeeps, OthersKeep, WebStutters DEF WebNext
<1>. QED
  BY <1>1, InitWeb, PTL DEF WebSpec

\* ConnectionInv: OnMessage gets the client's messages whole, once and in
\* order, whichever threads handle their fragments, and a connection leaves
\* sessions_ only after its socket is closed, whichever threads close it.
THEOREM ConnectionSound == WebSpec => []ConnectionInv
<1>1. WebInv => ConnectionInv
  BY DEF WebInv, Ending, ConnectionInv, RemovedOnlyClosed
<1>. QED
  BY <1>1, WebInvariant, PTL

-----------------------------------------------------------------------------
(***************************************************************************)
(* What the servers measure and limit: Traffic.                            *)
(***************************************************************************)

LEMMA TrafficFacts ==
    /\ PerSecond \in Nat \ {0} /\ Rates \subseteq Nat /\ Bursts \subseteq Nat
    /\ max_samples \in Nat /\ History \in Nat /\ Latencies \subseteq Nat
BY TrafficAssumption DEF Net!TrafficConstants

\* Division by what is positive.
LEMMA Quotient ==
    ASSUME NEW a \in Nat, NEW p \in Nat \ {0}
    PROVE  a \div p \in Nat /\ (a \div p) * p <= a /\ a < (a \div p) * p + p
OBVIOUS

LEMMA Times ==
    ASSUME NEW a \in Int, NEW b \in Int, NEW p \in Nat, a <= b PROVE a * p <= b * p
OBVIOUS

LEMMA QuotientsAdd ==
    ASSUME NEW a \in Nat, NEW b \in Nat, NEW p \in Nat \ {0}
    PROVE  a \div p + b \div p <= (a + b) \div p
<1>. DEFINE x == a \div p
            y == b \div p
            z == (a + b) \div p
<1>1. /\ x \in Nat /\ y \in Nat /\ z \in Nat
      /\ x * p <= a /\ y * p <= b /\ a + b < z * p + p
  BY Quotient
<1>. HIDE DEF x, y, z
<1>2. SUFFICES ASSUME z + 1 <= x + y PROVE FALSE
  BY <1>1 DEF x, y, z
<1>3. (z + 1) * p <= (x + y) * p
  BY <1>1, <1>2, Times
<1>4. (z + 1) * p = z * p + p /\ (x + y) * p = x * p + y * p
  BY <1>1
<1>5. x * p \in Nat /\ y * p \in Nat /\ z * p \in Nat
  BY <1>1
<1>. QED
  BY <1>1, <1>3, <1>4, <1>5

LEMMA QuotientNear ==
    ASSUME NEW a \in Nat, NEW b \in Nat, NEW p \in Nat \ {0}, a < b + p
    PROVE  a \div p <= b \div p + 1
<1>. DEFINE x == a \div p
            y == b \div p
<1>1. x \in Nat /\ y \in Nat /\ x * p <= a /\ b < y * p + p
  BY Quotient
<1>. HIDE DEF x, y
<1>2. SUFFICES ASSUME y + 2 <= x PROVE FALSE
  BY <1>1 DEF x, y
<1>3. (y + 2) * p <= x * p
  BY <1>1, <1>2, Times
<1>4. (y + 2) * p = y * p + p + p
  BY <1>1
<1>5. x * p \in Nat /\ y * p \in Nat
  BY <1>1
<1>. QED
  BY <1>1, <1>3, <1>4, <1>5

LEMMA NothingWhole ==
    ASSUME NEW a \in Nat, NEW p \in Nat \ {0}, ~(a \div p > 0) PROVE a < p
<1>1. a \div p = 0
  BY Quotient
<1>. QED
  BY <1>1, Quotient

-----------------------------------------------------------------------------
\* The rate limiter.  What it let through since any of its decisions, and what
\* it may let through now, is paid for by the burst and by the time since the
\* refill, at L, that the decision rested on.
Product(b, from, to) == (to - from) * b.rate
Worth(b, from, to) == Product(b, from, to) \div PerSecond
PaidFrom(b, p, i, L) ==
    /\ L \in 0..b.last /\ L <= p[i] /\ Product(b, L, p[i]) < PerSecond
    /\ Len(p) - i + 1 + b.tokens <= b.burst + Worth(b, L, b.last)
Paid(b, p) == \A i \in DOMAIN p : \E L \in Nat : PaidFrom(b, p, i, L)

Buckets == [rate : Nat, burst : Nat, tokens : Nat, last : Nat]
LimiterInv ==
    /\ now \in Nat /\ bucket \in Buckets /\ bucket.last <= now /\ bucket.tokens <= bucket.burst
    /\ passed \in Seq(Nat) /\ \A i \in DOMAIN passed : passed[i] <= now
    /\ Paid(bucket, passed) /\ Net!RateKept

LEMMA Products ==
    ASSUME NEW b \in Buckets, NEW x \in Nat, NEW y \in Nat, NEW z \in Nat, x <= y, y <= z
    PROVE  /\ Product(b, x, y) \in Nat /\ Product(b, y, z) \in Nat /\ Product(b, x, z) \in Nat
           /\ Product(b, x, z) = Product(b, x, y) + Product(b, y, z)
           /\ Product(b, x, x) = 0
<1>1. PICK k \in Nat, l \in Nat : y = x + k /\ z = y + l
  <2>1. y - x \in Nat /\ z - y \in Nat /\ y = x + (y - x) /\ z = y + (z - y)
    OBVIOUS
  <2>. QED
    BY <2>1
<1>2. y - x = k /\ z - y = l /\ z - x = k + l /\ x - x = 0 /\ b.rate \in Nat
  BY <1>1 DEF Buckets
<1>3. k * b.rate \in Nat /\ l * b.rate \in Nat /\ (k + l) * b.rate = k * b.rate + l * b.rate
      /\ 0 * b.rate = 0
  BY <1>2
<1>. QED
  BY <1>2, <1>3 DEF Product

LEMMA Worths ==
    ASSUME NEW b \in Buckets, NEW x \in Nat, NEW y \in Nat, NEW z \in Nat, x <= y, y <= z
    PROVE  /\ Worth(b, x, y) \in Nat /\ Worth(b, y, z) \in Nat /\ Worth(b, x, z) \in Nat
           /\ Worth(b, x, y) + Worth(b, y, z) <= Worth(b, x, z)
           /\ Product(b, x, y) < PerSecond => Worth(b, x, z) <= Worth(b, y, z) + 1
           /\ Worth(b, x, x) = 0
<1>. DEFINE k == Product(b, x, y)
            l == Product(b, y, z)
            m == Product(b, x, z)
<1>1. k \in Nat /\ l \in Nat /\ m \in Nat /\ m = k + l /\ PerSecond \in Nat \ {0}
  BY Products, TrafficFacts
<1>2. Product(b, x, x) = 0
  BY Products
<1>. HIDE DEF k, l, m
<1>3. 0 \div PerSecond = 0
  BY <1>1, Quotient
<1>4. k \div PerSecond \in Nat /\ l \div PerSecond \in Nat /\ m \div PerSecond \in Nat
  BY <1>1, Quotient
<1>5. k \div PerSecond + l \div PerSecond <= (k + l) \div PerSecond
  BY <1>1, QuotientsAdd
<1>6. k < PerSecond => m \div PerSecond <= l \div PerSecond + 1
  <2>1. k < PerSecond => m < l + PerSecond
    BY <1>1
  <2>. QED
    BY <1>1, <2>1, QuotientNear
<1>. QED
  BY <1>1, <1>2, <1>3, <1>4, <1>5, <1>6 DEF Worth, k, l, m

\* The smaller of two numbers.
LEMMA NetMin ==
    ASSUME NEW a \in Nat, NEW b \in Nat
    PROVE  Net!Min({a, b}) = IF a <= b THEN a ELSE b
<1>. DEFINE m == IF a <= b THEN a ELSE b
<1>1. m \in {a, b} /\ \A y \in {a, b} : m <= y
  OBVIOUS
<1>2. \A x \in {a, b} : (\A y \in {a, b} : x <= y) => x = m
  OBVIOUS
<1>. QED
  BY <1>1, <1>2 DEF Net!Min

\* A refill adds what the time since the last one is worth, up to the burst.
Filled(b, c) ==
    \/ c = b /\ Product(b, b.last, now) < PerSecond
    \/ /\ c \in Buckets /\ c.rate = b.rate /\ c.burst = b.burst /\ c.last = now
       /\ c.tokens <= c.burst
       /\ c.tokens <= b.tokens + Worth(b, b.last, now)

LEMMA RefillFills ==
    ASSUME LimiterInv PROVE Filled(bucket, Net!Refill(bucket))
<1>. DEFINE refill == Worth(bucket, bucket.last, now)
<1>1. /\ now \in Nat /\ bucket \in Buckets /\ bucket.last <= now /\ bucket.last \in Nat
      /\ bucket.burst \in Nat /\ bucket.tokens \in Nat /\ PerSecond \in Nat \ {0}
  BY TrafficFacts DEF LimiterInv, Buckets
<1>2. refill \in Nat /\ Product(bucket, bucket.last, now) \in Nat
  <2>1. now <= now
    BY <1>1
  <2>. QED
    BY <1>1, <2>1, Worths, Products
<1>3. ~(refill > 0) => Product(bucket, bucket.last, now) < PerSecond
  BY <1>1, <1>2, NothingWhole DEF Worth
<1>4. Net!Refill(bucket) = IF refill > 0
                           THEN [bucket EXCEPT !.tokens = Net!Min({bucket.burst, bucket.tokens + refill}),
                                               !.last = now]
                           ELSE bucket
  BY DEF Net!Refill, Worth, Product
<1>. HIDE DEF refill
<1>5. CASE refill > 0
  <2>1. bucket.tokens + refill \in Nat
    BY <1>1, <1>2
  <2>. DEFINE m == Net!Min({bucket.burst, bucket.tokens + refill})
  <2>2. m \in Nat /\ m <= bucket.burst /\ m <= bucket.tokens + refill
    BY <1>1, <1>2, <2>1, NetMin
  <2>3. Net!Refill(bucket) = [bucket EXCEPT !.tokens = m, !.last = now]
    BY <1>4, <1>5
  <2>. HIDE DEF m
  <2>. QED
    BY <1>1, <2>2, <2>3 DEF Filled, Buckets, refill
<1>6. CASE ~(refill > 0)
  BY <1>3, <1>4, <1>6 DEF Filled
<1>. QED
  BY <1>5, <1>6

\* What was paid stays paid when the bucket is filled.
LEMMA FilledPays ==
    ASSUME LimiterInv, NEW c, Filled(bucket, c)
    PROVE  /\ c \in Buckets /\ c.rate = bucket.rate /\ c.burst = bucket.burst
           /\ c.tokens <= c.burst /\ c.last <= now /\ Product(c, c.last, now) < PerSecond
           /\ Paid(c, passed)
<1>0. /\ now \in Nat /\ bucket \in Buckets /\ bucket.last <= now /\ bucket.last \in Nat
      /\ bucket.burst \in Nat /\ bucket.tokens \in Nat /\ PerSecond \in Nat \ {0}
      /\ bucket.tokens <= bucket.burst /\ now <= now
      /\ passed \in Seq(Nat) /\ Paid(bucket, passed)
  BY TrafficFacts DEF LimiterInv, Buckets
<1>1. CASE c = bucket /\ Product(bucket, bucket.last, now) < PerSecond
  BY <1>0, <1>1
<1>2. CASE /\ c \in Buckets /\ c.rate = bucket.rate /\ c.burst = bucket.burst /\ c.last = now
           /\ c.tokens <= c.burst
           /\ c.tokens <= bucket.tokens + Worth(bucket, bucket.last, now)
  <2>1. \A x, y : Product(c, x, y) = Product(bucket, x, y) /\ Worth(c, x, y) = Worth(bucket, x, y)
    BY <1>2 DEF Product, Worth
  <2>2. Product(c, c.last, now) = 0
    BY <1>0, <1>2, Products
  <2>3. ASSUME NEW i \in DOMAIN passed PROVE \E L \in Nat : PaidFrom(c, passed, i, L)
    <3>1. PICK L \in Nat : PaidFrom(bucket, passed, i, L)
      BY <1>0 DEF Paid
    <3>2. /\ L <= bucket.last /\ L <= now
          /\ Len(passed) - i + 1 + bucket.tokens <= bucket.burst + Worth(bucket, L, bucket.last)
      BY <1>0, <3>1 DEF PaidFrom
    <3>3. /\ Worth(bucket, L, bucket.last) \in Nat /\ Worth(bucket, bucket.last, now) \in Nat
          /\ Worth(bucket, L, now) \in Nat
          /\ Worth(bucket, L, bucket.last) + Worth(bucket, bucket.last, now) <= Worth(bucket, L, now)
      BY <1>0, <3>2, Worths
    <3>4. c.tokens \in Nat /\ i \in Nat /\ Len(passed) \in Nat
      BY <1>0, <1>2 DEF Buckets
    <3>5. Len(passed) - i + 1 + c.tokens <= c.burst + Worth(bucket, L, now)
      <4>1. PICK x \in Nat, y \in Nat, z \in Nat, t \in Nat, u \in Nat :
               /\ x = Worth(bucket, L, bucket.last) /\ y = Worth(bucket, bucket.last, now)
               /\ z = Worth(bucket, L, now) /\ t = c.tokens /\ u = bucket.tokens
        BY <1>0, <3>3, <3>4
      <4>2. PICK k \in Int, w \in Nat : k = Len(passed) - i + 1 /\ w = bucket.burst
        BY <1>0, <3>4
      <4>3. k + u <= w + x /\ x + y <= z /\ t <= u + y
        BY <1>2, <3>2, <3>3, <4>1, <4>2
      <4>4. k + t <= w + z
        BY <4>3
      <4>. QED
        BY <1>2, <4>1, <4>2, <4>4
    <3>6. L \in 0..c.last /\ L <= passed[i] /\ Product(c, L, passed[i]) < PerSecond
      BY <1>0, <1>2, <2>1, <3>1, <3>2 DEF PaidFrom
    <3>. QED
      BY <1>2, <2>1, <3>5, <3>6 DEF PaidFrom
  <2>. QED
    BY <1>0, <1>2, <2>2, <2>3 DEF Paid
<1>. QED
  BY <1>1, <1>2 DEF Filled

\* RateKept, for given values.
Kept(b, p) == \A i, j \in DOMAIN p : i <= j => j - i + 1 <= b.burst + Worth(b, p[i], p[j]) + 1
LEMMA KeptIs == Net!RateKept <=> Kept(bucket, passed)
BY DEF Net!RateKept, Kept, Product, Worth

\* One more is let through: whatever window it ends, there was enough for it.
LEMMA LetThrough ==
    ASSUME LimiterInv, NEW c \in Buckets, Filled(bucket, c), c.tokens > 0,
           NEW b \in Buckets, b.rate = c.rate, b.burst = c.burst, b.last = c.last,
           b.tokens = c.tokens - 1, NEW p, p = Append(passed, now)
    PROVE  /\ b.last <= now /\ b.tokens <= b.burst
           /\ p \in Seq(Nat) /\ \A i \in DOMAIN p : p[i] <= now
           /\ Paid(b, p) /\ Kept(b, p)
<1>. DEFINE n == Len(passed) + 1
<1>0. /\ now \in Nat /\ bucket \in Buckets /\ passed \in Seq(Nat) /\ PerSecond \in Nat \ {0}
      /\ \A i \in DOMAIN passed : passed[i] <= now /\ passed[i] \in Nat
      /\ Kept(bucket, passed) /\ Len(passed) \in Nat /\ DOMAIN passed = 1..Len(passed)
  BY TrafficFacts, KeptIs DEF LimiterInv
<1>1. /\ c \in Buckets /\ c.rate = bucket.rate /\ c.burst = bucket.burst
      /\ c.tokens <= c.burst /\ c.last <= now /\ Product(c, c.last, now) < PerSecond
      /\ Paid(c, passed)
  BY FilledPays
<1>2. /\ p \in Seq(Nat) /\ DOMAIN p = 1..n /\ Len(p) = n /\ p[n] = now
      /\ \A i \in 1..Len(passed) : p[i] = passed[i]
  BY <1>0, AppendProperties
<1>3. /\ c.tokens \in Nat /\ c.burst \in Nat /\ c.last \in Nat /\ b.tokens \in Nat /\ n \in Nat
  BY <1>0 DEF Buckets
<1>4. \A x, y : /\ Product(b, x, y) = Product(c, x, y)
                /\ Worth(b, x, y) = Worth(c, x, y) /\ Worth(bucket, x, y) = Worth(c, x, y)
  BY <1>1, <1>3 DEF Product, Worth
<1>5. ASSUME NEW i \in 1..Len(passed) PROVE \E L \in Nat : PaidFrom(b, p, i, L)
  <2>1. PICK L \in Nat : PaidFrom(c, passed, i, L)
    BY <1>0, <1>1 DEF Paid
  <2>2. /\ Len(passed) - i + 1 + c.tokens <= c.burst + Worth(c, L, c.last)
        /\ L \in 0..c.last /\ L <= passed[i] /\ Product(c, L, passed[i]) < PerSecond
    BY <2>1 DEF PaidFrom
  <2>3. i \in Nat /\ Len(passed) \in Nat /\ c.tokens \in Nat
    BY <1>0, <1>3
  <2>4. n - i + 1 + (c.tokens - 1) = Len(passed) - i + 1 + c.tokens
    <3>1. PICK l \in Nat, t \in Nat : l = Len(passed) /\ t = c.tokens
      BY <2>3
    <3>2. (l + 1) - i + 1 + (t - 1) = l - i + 1 + t
      BY <2>3
    <3>. QED
      BY <3>1, <3>2
  <2>. QED
    BY <1>2, <1>3, <1>4, <2>2, <2>4, SMTT(30) DEF PaidFrom
<1>6. PaidFrom(b, p, n, c.last)
  <2>1. Worth(c, c.last, c.last) = 0
    <3>1. c.last <= c.last
      BY <1>3
    <3>. QED
      BY <1>3, <3>1, Worths
  <2>2. n - n + 1 + (c.tokens - 1) <= c.burst + 0
    BY <1>1, <1>3
  <2>. QED
    BY <1>1, <1>2, <1>3, <1>4, <2>1, <2>2 DEF PaidFrom
<1>7. \A i \in 1..n : i = n \/ i \in 1..Len(passed)
  BY <1>0
<1>8. Paid(b, p)
  BY <1>2, <1>3, <1>5, <1>6, <1>7 DEF Paid
<1>9. ASSUME NEW i \in 1..Len(passed) PROVE n - i + 1 <= c.burst + Worth(c, passed[i], now) + 1
  <2>1. PICK L \in Nat : PaidFrom(c, passed, i, L)
    BY <1>0, <1>1 DEF Paid
  <2>2. /\ L <= passed[i] /\ L <= c.last /\ passed[i] \in Nat /\ passed[i] <= now
        /\ Product(c, L, passed[i]) < PerSecond
        /\ Len(passed) - i + 1 + c.tokens <= c.burst + Worth(c, L, c.last)
    BY <1>0, <2>1, SMTT(30) DEF PaidFrom
  <2>3. Worth(c, L, now) <= Worth(c, passed[i], now) + 1 /\ Worth(c, passed[i], now) \in Nat
    BY <1>0, <1>1, <2>2, Worths
  <2>4. /\ Worth(c, L, c.last) + Worth(c, c.last, now) <= Worth(c, L, now)
        /\ Worth(c, L, c.last) \in Nat /\ Worth(c, c.last, now) \in Nat /\ Worth(c, L, now) \in Nat
    BY <1>0, <1>1, <1>3, <2>2, Worths
  <2>5. i \in Nat /\ Len(passed) \in Nat /\ c.tokens \in Nat /\ c.burst \in Nat
    BY <1>0, <1>3
  <2>. QED
    BY <2>2, <2>3, <2>4, <2>5, SMTT(30)
<1>10. ASSUME NEW i \in 1..n, NEW j \in 1..n, i <= j
       PROVE  j - i + 1 <= b.burst + Worth(b, p[i], p[j]) + 1
  <2>1. CASE j \in 1..Len(passed)
    <3>1. i \in 1..Len(passed)
      BY <1>0, <1>10, <2>1
    <3>2. j - i + 1 <= bucket.burst + Worth(bucket, passed[i], passed[j]) + 1
      BY <1>0, <1>10, <2>1, <3>1 DEF Kept
    <3>3. b.burst = bucket.burst /\ p[i] = passed[i] /\ p[j] = passed[j]
      BY <1>1, <1>2, <1>3, <2>1, <3>1
    <3>. QED
      BY <1>4, <3>2, <3>3
  <2>2. CASE j = n /\ i \in 1..Len(passed)
    BY <1>2, <1>3, <1>4, <1>9, <2>2
  <2>3. CASE j = n /\ i = n
    <3>1. Worth(b, now, now) = 0
      BY <1>0, <1>3, Worths
    <3>2. j - i + 1 = 1
      BY <1>3, <2>3
    <3>. QED
      BY <1>2, <1>3, <2>3, <3>1, <3>2
  <2>. QED
    BY <1>7, <1>10, <2>1, <2>2, <2>3
<1>11. Kept(b, p)
  BY <1>2, <1>10 DEF Kept
<1>12. \A i \in 1..n : p[i] <= now
  BY <1>0, <1>2, <1>7
<1>. QED
  BY <1>1, <1>2, <1>3, <1>8, <1>11, <1>12

LEMMA LimiterStart ==
    ASSUME Net!TrafficInit PROVE LimiterInv
<1>1. PICK r \in Rates, k \in Bursts : bucket = [rate |-> r, burst |-> k, tokens |-> k, last |-> 0]
  BY DEF Net!TrafficInit
<1>2. r \in Nat /\ k \in Nat /\ now = 0 /\ passed = <<>>
  BY TrafficFacts DEF Net!TrafficInit
<1>. QED
  BY <1>1, <1>2 DEF LimiterInv, Buckets, Paid, Net!RateKept

LEMMA LimiterSame ==
    ASSUME LimiterInv, bucket' = bucket, passed' = passed, now' \in Nat, now <= now'
    PROVE  LimiterInv'
<1>1. now \in Nat /\ bucket.last \in Nat /\ \A i \in DOMAIN passed : passed[i] \in Nat
  BY DEF LimiterInv, Buckets
<1>2. \A i \in DOMAIN passed : passed[i] <= now'
  BY <1>1 DEF LimiterInv
<1>3. bucket.last <= now'
  BY <1>1 DEF LimiterInv
<1>4. Net!RateKept'
  BY DEF LimiterInv, Net!RateKept
<1>. QED
  BY <1>2, <1>3, <1>4 DEF LimiterInv

LEMMA LimiterStep == ASSUME LimiterInv, [Net!LimiterNext]_<<now, bucket, passed>> PROVE LimiterInv'
<1>0. now \in Nat /\ bucket \in Buckets /\ passed \in Seq(Nat)
  BY DEF LimiterInv
<1>1. CASE UNCHANGED <<now, bucket, passed>>
  BY <1>0, <1>1, LimiterSame
<1>2. CASE Net!Tick
  BY <1>0, <1>2, LimiterSame DEF Net!Tick, Net!limiterVars
<1>3. ASSUME NEW c, c = Net!Refill(bucket), bucket' = c, passed' = passed, now' = now PROVE LimiterInv'
  <2>1. /\ c \in Buckets /\ c.rate = bucket.rate /\ c.burst = bucket.burst
        /\ c.tokens <= c.burst /\ c.last <= now /\ Paid(c, passed)
    BY <1>3, RefillFills, FilledPays
  <2>2. Net!RateKept'
    BY <1>3, <2>1 DEF Net!RateKept, LimiterInv
  <2>. QED
    BY <1>0, <1>3, <2>1, <2>2 DEF LimiterInv
<1>4. CASE Net!CheckLimit
  <2>. DEFINE c == Net!Refill(bucket)
  <2>1. c \in Buckets /\ Filled(bucket, c)
    BY RefillFills, FilledPays
  <2>2. now' = now
    BY <1>4 DEF Net!CheckLimit
  <2>3. CASE c.tokens > 0
    <3>1. bucket' = [c EXCEPT !.tokens = @ - 1] /\ passed' = Append(passed, now)
      BY <1>4, <2>3 DEF Net!CheckLimit
    <3>. HIDE DEF c
    <3>2. /\ bucket' \in Buckets /\ bucket'.rate = c.rate /\ bucket'.burst = c.burst
          /\ bucket'.last = c.last /\ bucket'.tokens = c.tokens - 1
      BY <2>1, <2>3, <3>1 DEF Buckets
    <3>3. /\ bucket'.last <= now /\ bucket'.tokens <= bucket'.burst
          /\ passed' \in Seq(Nat) /\ \A i \in DOMAIN passed' : passed'[i] <= now
          /\ Paid(bucket', passed') /\ Kept(bucket', passed')
      BY <2>1, <2>3, <3>1, <3>2, LetThrough
    <3>4. Net!RateKept'
      BY <3>3 DEF Net!RateKept, Kept, Product, Worth
    <3>. QED
      BY <1>0, <2>2, <3>2, <3>3, <3>4 DEF LimiterInv
  <2>4. CASE ~(c.tokens > 0)
    BY <1>3, <1>4, <2>2, <2>4 DEF Net!CheckLimit
  <2>. QED
    BY <2>3, <2>4
<1>5. CASE Net!Refilled
  BY <1>3, <1>5 DEF Net!Refilled
<1>6. ASSUME NEW r \in Rates, NEW k \in Bursts, Net!SetLimit(r, k) PROVE LimiterInv'
  <2>1. /\ r \in Nat /\ k \in Nat /\ now' = now /\ passed' = <<>>
        /\ bucket' = [rate |-> r, burst |-> k, tokens |-> k, last |-> now]
    BY <1>6, TrafficFacts DEF Net!SetLimit
  <2>2. now \in Nat /\ bucket' \in Buckets /\ bucket'.last <= now /\ bucket'.tokens <= bucket'.burst
    BY <1>0, <2>1 DEF Buckets
  <2>3. Paid(bucket', passed') /\ Net!RateKept' /\ passed' \in Seq(Nat)
    BY <2>1 DEF Paid, Net!RateKept
  <2>. QED
    BY <2>1, <2>2, <2>3 DEF LimiterInv
<1>. QED
  BY <1>1, <1>2, <1>4, <1>5, <1>6 DEF Net!LimiterNext

Smaller == OpToRel(<, Nat)

LEMMA LeastNatural ==
    ASSUME NEW T, T \subseteq Nat, T # {}
    PROVE  \E x \in T : \A y \in T : x <= y
<1>1. IsWellFoundedOn(Smaller, Nat)
  BY NatLessThanWellFounded, Zenon DEF Smaller
<1>2. PICK x \in T : \A y \in T : ~(<<y, x>> \in Smaller)
  BY <1>1, WFMin
<1>3. \A u \in Nat, v \in Nat : v < u => <<v, u>> \in Smaller
  BY DEF Smaller, OpToRel
<1>4. ASSUME NEW y \in T PROVE x <= y
  <2>1. x \in Nat /\ y \in Nat
    OBVIOUS
  <2>2. ~(y < x)
    BY <1>2, <1>3, <2>1
  <2>. QED
    BY <2>1, <2>2
<1>. QED
  BY <1>4

LEMMA UpTo ==
    ASSUME NEW n \in Nat, NEW T, 0 \in T, \A i \in 0..(n - 1) : i \in T => i + 1 \in T
    PROVE  0..n \subseteq T
<1>. SUFFICES ASSUME NEW m \in 0..n, m \notin T PROVE FALSE
  OBVIOUS
<1>. DEFINE Missing == {i \in 0..n : i \notin T}
<1>1. PICK x \in Missing : \A y \in Missing : x <= y
  <2>1. Missing \subseteq Nat /\ Missing # {}
    OBVIOUS
  <2>. HIDE DEF Missing
  <2>. QED
    BY <2>1, LeastNatural
<1>2. x # 0 /\ x - 1 \in 0..(n - 1) /\ x - 1 \notin Missing
  BY <1>1
<1>. QED
  BY <1>1, <1>2

\* What is defined from a start by a step for each number is a function.
StepsOver(n, S) == [(1..n) \X S -> S]
Chains(n, S, start, step) ==
    {f \in [0..n -> S] : f[0] = start /\ \A i \in 1..n : f[i] = step[<<i, f[i - 1]>>]}

LEMMA Recursion ==
    ASSUME NEW n \in Nat, NEW S, NEW start \in S, NEW step \in StepsOver(n, S)
    PROVE  Chains(n, S, start, step) # {}
<1>. USE DEF StepsOver
<1>. DEFINE To(f, m) == f[0] = start /\ \A i \in 1..m : f[i] = step[<<i, f[i - 1]>>]
            T == {m \in 0..n : \E f \in [0..m -> S] : To(f, m)}
<1>1. 0 \in T
  <2>. DEFINE g == [i \in 0..0 |-> start]
  <2>1. g \in [0..0 -> S] /\ To(g, 0)
    OBVIOUS
  <2>. HIDE DEF g
  <2>2. \E f \in [0..0 -> S] : To(f, 0)
    BY <2>1
  <2>. QED
    BY <2>2
<1>2. ASSUME NEW m \in 0..(n - 1), m \in T PROVE m + 1 \in T
  <2>1. PICK f \in [0..m -> S] : To(f, m)
    BY <1>2
  <2>. DEFINE g == [i \in 0..(m + 1) |-> IF i = m + 1 THEN step[<<i, f[m]>>] ELSE f[i]]
  <2>2. f[m] \in S /\ <<m + 1, f[m]>> \in (1..n) \X S /\ m + 1 \in 0..n
    OBVIOUS
  <2>3. step[<<m + 1, f[m]>>] \in S
    BY <2>2
  <2>4. g \in [0..(m + 1) -> S]
    BY <2>3
  <2>5. ASSUME NEW i \in 1..(m + 1) PROVE g[i] = step[<<i, g[i - 1]>>]
    <3>1. CASE i = m + 1
      BY <3>1
    <3>2. CASE i # m + 1
      <4>1. i \in 1..m /\ g[i] = f[i] /\ g[i - 1] = f[i - 1]
        BY <3>2
      <4>. QED
        BY <2>1, <4>1
    <3>. QED
      BY <3>1, <3>2
  <2>7. g[0] = start
    BY <2>1
  <2>. HIDE DEF g
  <2>6. To(g, m + 1)
    BY <2>4, <2>5, <2>7
  <2>. QED
    BY <2>2, <2>4, <2>6
<1>3. 0..n \subseteq T
  <2>. HIDE DEF T
  <2>. QED
    BY <1>1, <1>2, UpTo
<1>4. \E f \in [0..n -> S] : To(f, n)
  BY <1>3
<1>. QED
  BY <1>4 DEF Chains

-----------------------------------------------------------------------------
\* The monitor: what is left of a history when the oldest records go.
Suffix(s, t, S) ==
    t \in Seq(S) /\ \E k \in Nat : \A i \in DOMAIN t : i + k \in DOMAIN s /\ t[i] = s[i + k]

LEMMA LatestSuffix == ASSUME NEW S, NEW s \in Seq(S) PROVE Suffix(s, Net!Latest(s), S)
<1>1. CASE Len(s) > max_samples
  <2>1. Len(s) \in Nat /\ max_samples \in Nat
    BY TrafficFacts
  <2>2. s # <<>>
    BY <1>1, <2>1, EmptySeq
  <2>3. /\ Tail(s) \in Seq(S) /\ Len(Tail(s)) = Len(s) - 1
        /\ \A i \in 1..Len(Tail(s)) : Tail(s)[i] = s[i + 1]
    BY <2>2, HeadTailProperties
  <2>4. \A i \in DOMAIN Tail(s) : i + 1 \in DOMAIN s /\ Tail(s)[i] = s[i + 1]
    BY <2>1, <2>3, LenProperties
  <2>5. Net!Latest(s) = Tail(s)
    BY <1>1 DEF Net!Latest
  <2>. QED
    BY <2>3, <2>4, <2>5 DEF Suffix
<1>2. CASE ~(Len(s) > max_samples)
  <2>1. Net!Latest(s) = s
    BY <1>2 DEF Net!Latest
  <2>2. \A i \in DOMAIN s : i + 0 \in DOMAIN s /\ s[i] = s[i + 0]
    BY LenProperties
  <2>. QED
    BY <2>1, <2>2 DEF Suffix
<1>. QED
  BY <1>1, <1>2

LEMMA LeastOf ==
    ASSUME NEW T, T \subseteq Nat, T # {} PROVE Net!Min(T) \in T /\ \A y \in T : Net!Min(T) <= y
BY LeastNatural DEF Net!Min

Packets == [id : Nat, sent : Nat, acked : BOOLEAN, n : Nat]
Samples == [rtt : Nat, n : Nat]

LEMMA CleanupSuffix ==
    ASSUME packet_history \in Seq(Packets)
    PROVE  Suffix(packet_history, Net!CleanupOldRecords, Packets)
<1>. DEFINE s == packet_history
            recent == {i \in DOMAIN s : s[i].sent >= now - History}
            m == Net!Min(recent)
<1>0. Len(s) \in Nat /\ DOMAIN s = 1..Len(s) /\ \A i \in DOMAIN s : s[i] \in Packets
  BY LenProperties
<1>1. Net!CleanupOldRecords = IF recent = {} THEN <<>> ELSE SubSeq(s, m, Len(s))
  BY DEF Net!CleanupOldRecords
<1>2. CASE recent = {}
  <2>1. <<>> \in Seq(Packets) /\ DOMAIN <<>> = {}
    OBVIOUS
  <2>2. \A i \in DOMAIN <<>> : i + 0 \in DOMAIN s /\ <<>>[i] = s[i + 0]
    BY <2>1
  <2>3. Net!CleanupOldRecords = <<>>
    BY <1>1, <1>2
  <2>. QED
    BY <2>1, <2>2, <2>3 DEF Suffix
<1>3. CASE recent # {}
  <2>1. recent \subseteq Nat
    BY <1>0
  <2>. HIDE DEF recent
  <2>2. m \in recent
    BY <1>3, <2>1, LeastOf
  <2>3. m \in 1..Len(s)
    BY <1>0, <2>2 DEF recent
  <2>. HIDE DEF m
  <2>4. \A i \in m..Len(s) : s[i] \in Packets
    BY <1>0, <2>3
  <2>5. /\ SubSeq(s, m, Len(s)) \in Seq(Packets) /\ Len(SubSeq(s, m, Len(s))) = Len(s) - m + 1
        /\ \A i \in 1..(Len(s) - m + 1) : SubSeq(s, m, Len(s))[i] = s[m + i - 1]
    BY <1>0, <2>3, <2>4, SubSeqProperties
  <2>6. DOMAIN SubSeq(s, m, Len(s)) = 1..(Len(s) - m + 1)
    BY <2>5, LenProperties
  <2>7. \A i \in 1..(Len(s) - m + 1) :
           i + (m - 1) \in DOMAIN s /\ SubSeq(s, m, Len(s))[i] = s[i + (m - 1)]
    <3>1. TAKE i \in 1..(Len(s) - m + 1)
    <3>2. i + (m - 1) \in DOMAIN s /\ m + i - 1 = i + (m - 1)
      BY <1>0, <2>3
    <3>. QED
      BY <2>5, <3>2
  <2>8. m - 1 \in Nat
    BY <2>3
  <2>9. Net!CleanupOldRecords = SubSeq(s, m, Len(s))
    BY <1>1, <1>3
  <2>. QED
    BY <2>5, <2>6, <2>7, <2>8, <2>9 DEF Suffix
<1>. QED
  BY <1>2, <1>3

\* The samples that are of packets, of different ones, and the packets told
\* apart by n; nothing is sampled before it is acknowledged.
Honest(ph, ls, k) ==
    /\ k \in Nat /\ ph \in Seq(Packets) /\ ls \in Seq(Samples)
    /\ \A i \in DOMAIN ph : ph[i].n \in 1..k
    /\ \A i \in DOMAIN ls : ls[i].n <= k
    /\ \A i, j \in DOMAIN ph : i # j => ph[i].n # ph[j].n
    /\ \A i \in DOMAIN ls, j \in DOMAIN ph : ls[i].n = ph[j].n => ph[j].acked
    /\ \A i, j \in DOMAIN ls : i # j /\ ls[i].n # 0 => ls[i].n # ls[j].n

LEMMA HonestSuffix ==
    ASSUME NEW ph, NEW ls, NEW k, Honest(ph, ls, k), NEW p, Suffix(ph, p, Packets),
           NEW l, Suffix(ls, l, Samples)
    PROVE  Honest(p, l, k)
<1>1. PICK x \in Nat : \A i \in DOMAIN p : i + x \in DOMAIN ph /\ p[i] = ph[i + x]
  BY DEF Suffix
<1>2. PICK y \in Nat : \A i \in DOMAIN l : i + y \in DOMAIN ls /\ l[i] = ls[i + y]
  BY DEF Suffix
<1>3. p \in Seq(Packets) /\ l \in Seq(Samples)
  BY DEF Suffix
<1>4. DOMAIN p \subseteq Nat /\ DOMAIN l \subseteq Nat
  BY <1>3, LenProperties
<1>5. ASSUME NEW i \in DOMAIN p, NEW j \in DOMAIN p, i # j PROVE p[i].n # p[j].n
  <2>1. i + x # j + x
    BY <1>4, <1>5
  <2>. QED
    BY <1>1, <2>1 DEF Honest
<1>6. ASSUME NEW i \in DOMAIN l, NEW j \in DOMAIN l, i # j, l[i].n # 0 PROVE l[i].n # l[j].n
  <2>1. i + y # j + y
    BY <1>4, <1>6
  <2>. QED
    BY <1>2, <1>6, <2>1 DEF Honest
<1>7. /\ \A i \in DOMAIN p : p[i].n \in 1..k
      /\ \A i \in DOMAIN l : l[i].n <= k
      /\ \A i \in DOMAIN l, j \in DOMAIN p : l[i].n = p[j].n => p[j].acked
  BY <1>1, <1>2 DEF Honest
<1>. QED
  BY <1>3, <1>5, <1>6, <1>7 DEF Honest

\* Append, by its elements.
LEMMA Appended ==
    ASSUME NEW S, NEW s \in Seq(S), NEW e \in S
    PROVE  /\ Append(s, e) \in Seq(S) /\ Len(s) \in Nat
           /\ DOMAIN s = 1..Len(s) /\ DOMAIN Append(s, e) = 1..(Len(s) + 1)
           /\ Append(s, e)[Len(s) + 1] = e /\ \A i \in DOMAIN s : Append(s, e)[i] = s[i]
           /\ \A i \in DOMAIN Append(s, e) : i = Len(s) + 1 \/ i \in DOMAIN s
           /\ Len(s) + 1 \notin DOMAIN s
BY AppendProperties, LenProperties

LEMMA HonestSent ==
    ASSUME NEW ph, NEW ls, NEW k, Honest(ph, ls, k), NEW r \in Packets, r.n = k + 1
    PROVE  Honest(Append(ph, r), ls, k + 1)
<1>. DEFINE p == Append(ph, r)
            x == Len(ph) + 1
<1>0. /\ k \in Nat /\ ph \in Seq(Packets) /\ ls \in Seq(Samples)
      /\ \A i \in DOMAIN ph : ph[i].n \in 1..k
      /\ \A i \in DOMAIN ls : ls[i].n <= k /\ ls[i].n \in Nat
  <2>1. ls \in Seq(Samples)
    BY DEF Honest
  <2>2. \A i \in DOMAIN ls : ls[i] \in Samples
    BY <2>1, LenProperties
  <2>. QED
    BY <2>1, <2>2 DEF Honest, Samples
<1>1. /\ p \in Seq(Packets) /\ p[x] = r
      /\ \A i \in DOMAIN p : i = x \/ i \in DOMAIN ph
      /\ \A i \in DOMAIN ph : p[i] = ph[i] /\ i # x
  BY <1>0, Appended
<1>. HIDE DEF p, x
<1>2. /\ \A i \in DOMAIN p : p[i].n \in 1..(k + 1)
      /\ \A i \in DOMAIN ls : ls[i].n <= k + 1
  BY <1>0, <1>1
<1>3. ASSUME NEW i \in DOMAIN p, NEW j \in DOMAIN p, i # j PROVE p[i].n # p[j].n
  <2>1. \A a \in DOMAIN ph : ph[a].n # r.n
    BY <1>0
  <2>. QED
    BY <1>1, <1>3, <2>1 DEF Honest
<1>4. ASSUME NEW i \in DOMAIN ls, NEW j \in DOMAIN p, ls[i].n = p[j].n PROVE p[j].acked
  <2>1. ls[i].n # r.n
    BY <1>0
  <2>. QED
    BY <1>1, <1>4, <2>1 DEF Honest
<1>. QED
  BY <1>0, <1>1, <1>2, <1>3, <1>4 DEF Honest, p

LEMMA HonestAcked ==
    ASSUME NEW ph, NEW ls, NEW k, Honest(ph, ls, k), NEW m \in DOMAIN ph, ~ph[m].acked,
           NEW rtt \in Nat
    PROVE  Honest([ph EXCEPT ![m].acked = TRUE], Append(ls, [rtt |-> rtt, n |-> ph[m].n]), k)
<1>. DEFINE p == [ph EXCEPT ![m].acked = TRUE]
            e == [rtt |-> rtt, n |-> ph[m].n]
            l == Append(ls, e)
            x == Len(ls) + 1
<1>0. /\ k \in Nat /\ ph \in Seq(Packets) /\ ls \in Seq(Samples)
      /\ \A i \in DOMAIN ph : ph[i] \in Packets /\ ph[i].n \in 1..k
      /\ \A i \in DOMAIN ls : ls[i].n <= k
  BY LenProperties DEF Honest
<1>1. e \in Samples /\ e.n = ph[m].n /\ ph[m].n \in 1..k
  BY <1>0 DEF Packets, Samples
<1>2. /\ DOMAIN p = DOMAIN ph /\ \A i \in DOMAIN p : i # m => p[i] = ph[i]
      /\ p[m] = [ph[m] EXCEPT !.acked = TRUE]
  OBVIOUS
<1>3. p[m] \in Packets /\ p[m].n = ph[m].n /\ p[m].acked
  BY <1>0, <1>2 DEF Packets
<1>4. /\ p \in Seq(Packets) /\ \A i \in DOMAIN p : p[i].n = ph[i].n
      /\ \A i \in DOMAIN p : i # m => p[i].acked = ph[i].acked
  <2>1. \A i \in DOMAIN p : p[i] \in Packets
    BY <1>0, <1>2, <1>3
  <2>2. DOMAIN p = 1..Len(ph) /\ Len(ph) \in Nat
    BY <1>0, <1>2, LenProperties
  <2>3. p \in [1..Len(ph) -> Packets]
    <3>1. p = [i \in DOMAIN ph |-> p[i]]
      OBVIOUS
    <3>. HIDE DEF p
    <3>. QED
      BY <1>2, <2>1, <2>2, <3>1
  <2>. HIDE DEF p
  <2>4. p \in Seq(Packets)
    BY <2>2, <2>3, SeqDef
  <2>. QED
    BY <1>2, <1>3, <2>4
<1>5. /\ l \in Seq(Samples) /\ l[x] = e
      /\ \A i \in DOMAIN l : i = x \/ i \in DOMAIN ls
      /\ \A i \in DOMAIN ls : l[i] = ls[i] /\ i # x
  <2>. HIDE DEF e
  <2>. QED
    BY <1>0, <1>1, Appended
<1>. HIDE DEF p, l, e, x
<1>6. \A i \in DOMAIN ls : ls[i].n # e.n
  BY <1>1 DEF Honest
<1>7. \A i, j \in DOMAIN l : i # j /\ l[i].n # 0 => l[i].n # l[j].n
  BY <1>5, <1>6 DEF Honest
<1>8. \A i \in DOMAIN l, j \in DOMAIN p : l[i].n = p[j].n => p[j].acked
  <2>1. TAKE i \in DOMAIN l, j \in DOMAIN p
  <2>2. CASE j = m
    BY <1>3, <2>2
  <2>3. CASE j # m
    <3>1. p[j].n = ph[j].n /\ j \in DOMAIN ph /\ p[j].acked = ph[j].acked /\ ph[j].n # e.n
      BY <1>1, <1>2, <1>4, <2>3 DEF Honest
    <3>. QED
      BY <1>5, <3>1 DEF Honest
  <2>. QED
    BY <2>2, <2>3
<1>9. /\ \A i \in DOMAIN p : p[i].n \in 1..k
      /\ \A i \in DOMAIN l : l[i].n <= k
      /\ \A i, j \in DOMAIN p : i # j => p[i].n # p[j].n
  <2>1. e.n <= k
    BY <1>0, <1>1
  <2>2. \A i \in DOMAIN l : l[i].n <= k
    BY <1>0, <1>5, <2>1
  <2>3. \A i \in DOMAIN p : p[i].n = ph[i].n /\ i \in DOMAIN ph
    BY <1>2, <1>4
  <2>4. \A i, j \in DOMAIN ph : i # j => ph[i].n # ph[j].n
    BY DEF Honest
  <2>. QED
    BY <1>0, <2>2, <2>3, <2>4
<1>. QED
  BY <1>0, <1>4, <1>5, <1>7, <1>8, <1>9 DEF Honest, p, l, e

LEMMA HonestSampled ==
    ASSUME NEW ph, NEW ls, NEW k, Honest(ph, ls, k), NEW rtt \in Nat
    PROVE  Honest(ph, Append(ls, [rtt |-> rtt, n |-> 0]), k + 1)
<1>. DEFINE e == [rtt |-> rtt, n |-> 0]
            l == Append(ls, e)
            x == Len(ls) + 1
<1>0. /\ k \in Nat /\ ph \in Seq(Packets) /\ ls \in Seq(Samples)
      /\ \A i \in DOMAIN ph : ph[i].n \in 1..k
      /\ \A i \in DOMAIN ls : ls[i].n <= k /\ ls[i].n \in Nat
  <2>1. ls \in Seq(Samples)
    BY DEF Honest
  <2>2. \A i \in DOMAIN ls : ls[i] \in Samples
    BY <2>1, LenProperties
  <2>. QED
    BY <2>1, <2>2 DEF Honest, Samples
<1>1. e \in Samples /\ e.n = 0
  BY DEF Samples
<1>2. /\ l \in Seq(Samples) /\ l[x] = e
      /\ \A i \in DOMAIN l : i = x \/ i \in DOMAIN ls
      /\ \A i \in DOMAIN ls : l[i] = ls[i] /\ i # x
  <2>. HIDE DEF e
  <2>. QED
    BY <1>0, <1>1, Appended
<1>. HIDE DEF l, e, x
<1>3. \A i, j \in DOMAIN l : i # j /\ l[i].n # 0 => l[i].n # l[j].n
  BY <1>1, <1>2 DEF Honest
<1>4. \A i \in DOMAIN l, j \in DOMAIN ph : l[i].n = ph[j].n => ph[j].acked
  <2>1. \A j \in DOMAIN ph : ph[j].n # 0
    BY <1>0
  <2>. QED
    BY <1>1, <1>2, <2>1 DEF Honest
<1>5. /\ \A i \in DOMAIN ph : ph[i].n \in 1..(k + 1)
      /\ \A i \in DOMAIN l : l[i].n <= k + 1
  BY <1>0, <1>1, <1>2
<1>. QED
  BY <1>0, <1>2, <1>3, <1>4, <1>5 DEF Honest, l, e

\* What the monitor answers, from how many are lost and how late they are.
LEMMA LossTyped ==
    ASSUME packet_history \in Seq(Packets)
    PROVE  /\ Net!Lost \in Nat /\ Len(packet_history) \in Nat
           /\ packet_history = <<>> <=> Len(packet_history) = 0
           /\ Net!Lost <= Len(packet_history)
<1>. DEFINE S == {i \in DOMAIN packet_history : ~packet_history[i].acked}
<1>1. Len(packet_history) \in Nat /\ DOMAIN packet_history = 1..Len(packet_history)
  BY LenProperties
<1>2. packet_history = <<>> <=> Len(packet_history) = 0
  BY EmptySeq
<1>3. IsFiniteSet(1..Len(packet_history)) /\ Cardinality(1..Len(packet_history)) = Len(packet_history)
  BY <1>1, FS_Interval
<1>4. S \subseteq 1..Len(packet_history)
  BY <1>1
<1>. HIDE DEF S
<1>5. Cardinality(S) \in Nat /\ Cardinality(S) <= Len(packet_history)
  BY <1>3, <1>4, FS_Subset, FS_CardinalityType
<1>6. Net!Lost = Cardinality(S)
  BY DEF Net!Lost, Net!Cardinality, Cardinality, S
<1>. QED
  BY <1>1, <1>2, <1>5, <1>6

LEMMA LatencyTyped ==
    ASSUME latency_samples \in Seq(Samples) PROVE Net!AverageLatency \in Nat
<1>. DEFINE n == Len(latency_samples)
            step == [p \in (1..n) \X Nat |-> p[2] + latency_samples[p[1]].rtt]
            Is(f) == f = [i \in 0..n |-> IF i = 0 THEN 0 ELSE f[i - 1] + latency_samples[i].rtt]
<1>1. n \in Nat /\ \A i \in 1..n : latency_samples[i].rtt \in Nat
  <2>1. n \in Nat /\ \A i \in 1..n : latency_samples[i] \in Samples
    BY LenProperties
  <2>. QED
    BY <2>1 DEF Samples
<1>2. step \in StepsOver(n, Nat)
  BY <1>1 DEF StepsOver
<1>3. \A i \in 1..n, k \in Nat : step[<<i, k>>] = k + latency_samples[i].rtt
  OBVIOUS
<1>. HIDE DEF step
<1>4. PICK f \in [0..n -> Nat] : f[0] = 0 /\ \A i \in 1..n : f[i] = step[<<i, f[i - 1]>>]
  <2>. HIDE DEF n
  <2>1. Chains(n, Nat, 0, step) # {}
    BY <1>1, <1>2, Recursion
  <2>. QED
    BY <2>1 DEF Chains
<1>5. ASSUME NEW i \in 1..n PROVE f[i] = f[i - 1] + latency_samples[i].rtt
  <2>1. i - 1 \in 0..n
    BY <1>1
  <2>2. f[i - 1] \in Nat
    BY <1>4, <2>1
  <2>3. step[<<i, f[i - 1]>>] = f[i - 1] + latency_samples[i].rtt
    BY <1>3, <2>2
  <2>. QED
    BY <1>4, <2>3
<1>6. Is(f)
  BY <1>1, <1>4, <1>5
<1>7. Net!LatencySum = CHOOSE g : Is(g)
  BY DEF Net!LatencySum
<1>. HIDE DEF Is
<1>8. Is(Net!LatencySum)
  BY <1>6, <1>7
<1>. DEFINE sum == Net!LatencySum
            T == {i \in 0..n : sum[i] \in Nat}
<1>9. sum[0] = 0 /\ \A i \in 1..n : sum[i] = sum[i - 1] + latency_samples[i].rtt
  <2>. HIDE DEF sum, n
  <2>1. Is(sum)
    BY <1>8 DEF sum
  <2>2. \A i \in 0..n : sum[i] = IF i = 0 THEN 0 ELSE sum[i - 1] + latency_samples[i].rtt
    BY <2>1, Zenon DEF Is
  <2>3. 0 \in 0..n /\ \A i \in 1..n : i \in 0..n /\ i # 0
    BY <1>1
  <2>. QED
    BY <2>2, <2>3
<1>. HIDE DEF sum
<1>10. 0 \in T /\ \A i \in 0..(n - 1) : i \in T => i + 1 \in T
  <2>1. 0 \in T
    BY <1>1, <1>9
  <2>2. ASSUME NEW i \in 0..(n - 1), i \in T PROVE i + 1 \in T
    <3>1. i + 1 \in 1..n /\ (i + 1) - 1 = i /\ sum[i] \in Nat
      BY <1>1, <2>2
    <3>2. sum[i + 1] = sum[i] + latency_samples[i + 1].rtt
      BY <1>9, <3>1
    <3>. QED
      BY <1>1, <3>1, <3>2
  <2>. QED
    BY <2>1, <2>2
<1>11. 0..n \subseteq T
  <2>. HIDE DEF T, n
  <2>. QED
    BY <1>1, <1>10, UpTo
<1>12. sum[n] \in Nat
  BY <1>1, <1>11
<1>13. CASE latency_samples = <<>>
  BY <1>13 DEF Net!AverageLatency
<1>14. CASE latency_samples # <<>>
  <2>1. n # 0
    BY <1>14, EmptySeq
  <2>2. n \in Nat \ {0}
    BY <1>1, <2>1
  <2>. HIDE DEF n
  <2>3. sum[n] \div n \in Nat
    BY <1>12, <2>2, Quotient
  <2>. QED
    BY <1>14, <2>3 DEF Net!AverageLatency, sum, n
<1>. QED
  BY <1>13, <1>14

LEMMA AnswersAgree ==
    ASSUME packet_history \in Seq(Packets), latency_samples \in Seq(Samples)
    PROVE  /\ Net!GetConnectionQuality = "EXCELLENT" =>
                /\ Net!CalculateOptimalUpdateRate = 30 /\ Net!CalculateOptimalMTU = 1500
                /\ ~Net!ShouldEnableRedundancy
           /\ Net!CalculateOptimalUpdateRate = 10 => Net!GetConnectionQuality = "UNSTABLE"
<1>. DEFINE a == Net!AverageLatency
            l == Net!Lost
            n == Len(packet_history)
<1>1. a \in Nat /\ l \in Nat /\ n \in Nat /\ l <= n /\ (packet_history = <<>> <=> n = 0)
  BY LossTyped, LatencyTyped
<1>10. /\ Net!LossAbove(2) <=> 100 * l > 2 * n
       /\ Net!LossAbove(5) <=> 100 * l > 5 * n
       /\ Net!LossAbove(10) <=> 100 * l > 10 * n
  BY DEF Net!LossAbove
<1>11. /\ Net!LossBelow(1) <=> n = 0 \/ 100 * l < 1 * n
       /\ Net!LossBelow(3) <=> n = 0 \/ 100 * l < 3 * n
       /\ Net!LossBelow(5) <=> n = 0 \/ 100 * l < 5 * n
       /\ Net!LossBelow(10) <=> n = 0 \/ 100 * l < 10 * n
  BY <1>1 DEF Net!LossBelow
<1>. HIDE DEF a, l, n
<1>3. Net!LossBelow(1) => ~Net!LossAbove(2) /\ ~Net!LossAbove(5) /\ ~Net!LossAbove(10)
  BY <1>1, <1>10, <1>11
<1>4. Net!LossAbove(10) => /\ ~Net!LossBelow(1) /\ ~Net!LossBelow(3)
                           /\ ~Net!LossBelow(5) /\ ~Net!LossBelow(10)
  BY <1>1, <1>10, <1>11
<1>5. Net!GetConnectionQuality = "EXCELLENT" => a < 50 /\ Net!LossBelow(1)
  BY DEF Net!GetConnectionQuality, Net!Within, a
<1>6. a < 50 => ~(a > 200) /\ ~(a > 100) /\ ~(a > 150)
  BY <1>1
<1>7. Net!GetConnectionQuality = "EXCELLENT" => Net!CalculateOptimalUpdateRate = 30
  BY <1>3, <1>5, <1>6 DEF Net!CalculateOptimalUpdateRate, a
<1>8. Net!GetConnectionQuality = "EXCELLENT" => Net!CalculateOptimalMTU = 1500
  BY <1>3, <1>5, <1>6 DEF Net!CalculateOptimalMTU, a
<1>9. Net!CalculateOptimalUpdateRate = 10 => Net!LossAbove(10)
  BY DEF Net!CalculateOptimalUpdateRate
<1>. QED
  BY <1>3, <1>4, <1>5, <1>7, <1>8, <1>9
     DEF Net!ShouldEnableRedundancy, Net!GetConnectionQuality, Net!Within

MonitorInv == now \in Nat /\ Honest(packet_history, latency_samples, sends)

LEMMA MonitorHonest == MonitorInv => Net!SamplesHonest
<1>. SUFFICES ASSUME MonitorInv PROVE Net!SamplesHonest
  OBVIOUS
<1>1. packet_history \in Seq(Packets) /\ latency_samples \in Seq(Samples)
  BY DEF MonitorInv, Honest
<1>2. \A i, j \in DOMAIN latency_samples :
         i # j /\ latency_samples[i].n # 0 => latency_samples[i].n # latency_samples[j].n
  BY DEF MonitorInv, Honest
<1>. QED
  BY <1>1, <1>2, AnswersAgree DEF Net!SamplesHonest

LEMMA MonitorStart == Net!TrafficInit => MonitorInv
<1>. SUFFICES ASSUME Net!TrafficInit PROVE MonitorInv
  OBVIOUS
<1>1. now = 0 /\ packet_history = <<>> /\ latency_samples = <<>> /\ sends = 0
  BY DEF Net!TrafficInit
<1>2. <<>> \in Seq(Packets) /\ <<>> \in Seq(Samples) /\ DOMAIN <<>> = {}
  OBVIOUS
<1>. QED
  BY <1>1, <1>2 DEF MonitorInv, Honest

LEMMA SuffixOfItself == ASSUME NEW S, NEW s \in Seq(S) PROVE Suffix(s, s, S)
<1>1. \A i \in DOMAIN s : i + 0 \in DOMAIN s /\ s[i] = s[i + 0]
  BY LenProperties
<1>. QED
  BY <1>1 DEF Suffix

LEMMA MonitorStep ==
    ASSUME MonitorInv, [Net!MonitorNext]_<<now, packet_history, latency_samples, sends>>
    PROVE  MonitorInv'
<1>. DEFINE ph == packet_history
            ls == latency_samples
<1>0. now \in Nat /\ sends \in Nat /\ ph \in Seq(Packets) /\ ls \in Seq(Samples) /\ Honest(ph, ls, sends)
  BY DEF MonitorInv, Honest
<1>1. ASSUME now' \in Nat, ph' = ph, ls' = ls, sends' = sends PROVE MonitorInv'
  BY <1>0, <1>1 DEF MonitorInv, Honest
<1>2. CASE UNCHANGED <<now, packet_history, latency_samples, sends>>
  BY <1>0, <1>1, <1>2
<1>3. CASE Net!Tick
  BY <1>0, <1>1, <1>3 DEF Net!Tick, Net!monitorVars
<1>4. CASE Net!AskQuality \/ Net!AskCompression
  BY <1>0, <1>1, <1>4 DEF Net!AskQuality, Net!AskCompression
<1>5. CASE Net!Update
  <2>1. ph' = Net!CleanupOldRecords /\ ls' = ls /\ sends' = sends /\ now' = now
    BY <1>5 DEF Net!Update
  <2>2. Honest(ph', ls', sends')
    BY <1>0, <2>1, CleanupSuffix, SuffixOfItself, HonestSuffix
  <2>. QED
    BY <1>0, <2>1, <2>2 DEF MonitorInv
<1>6. CASE Net!Reset
  <2>1. ph' = <<>> /\ ls' = <<>> /\ sends' = sends /\ now' = now
    BY <1>6 DEF Net!Reset
  <2>2. <<>> \in Seq(Packets) /\ <<>> \in Seq(Samples) /\ DOMAIN <<>> = {}
    OBVIOUS
  <2>. QED
    BY <1>0, <2>1, <2>2 DEF MonitorInv, Honest
<1>7. ASSUME NEW id \in 0..MaxPackets, Net!RecordPacketSent(id) PROVE MonitorInv'
  <2>. DEFINE r == [id |-> id, sent |-> now, acked |-> FALSE, n |-> sends + 1]
  <2>1. ph' = Net!Latest(Append(ph, r)) /\ ls' = ls /\ sends' = sends + 1 /\ now' = now
    BY <1>7 DEF Net!RecordPacketSent
  <2>2. r \in Packets /\ r.n = sends + 1
    BY <1>0 DEF Packets
  <2>. HIDE DEF r
  <2>3. Honest(Append(ph, r), ls, sends + 1)
    BY <1>0, <2>2, HonestSent
  <2>4. Suffix(Append(ph, r), Net!Latest(Append(ph, r)), Packets) /\ Suffix(ls, ls, Samples)
    BY <1>0, <2>2, Appended, LatestSuffix, SuffixOfItself
  <2>5. Honest(ph', ls', sends')
    BY <2>1, <2>3, <2>4, HonestSuffix
  <2>. QED
    BY <1>0, <2>1, <2>5 DEF MonitorInv
<1>8. ASSUME NEW rtt \in Latencies, Net!RecordLatencySample(rtt) PROVE MonitorInv'
  <2>. DEFINE e == [rtt |-> rtt, n |-> 0]
  <2>1. ls' = Net!Latest(Append(ls, e)) /\ ph' = ph /\ sends' = sends + 1 /\ now' = now
    BY <1>8 DEF Net!RecordLatencySample
  <2>2. rtt \in Nat /\ e \in Samples
    BY TrafficFacts DEF Samples
  <2>3. Honest(ph, Append(ls, e), sends + 1)
    BY <1>0, <2>2, HonestSampled
  <2>. HIDE DEF e
  <2>4. Suffix(Append(ls, e), Net!Latest(Append(ls, e)), Samples) /\ Suffix(ph, ph, Packets)
    BY <1>0, <2>2, Appended, LatestSuffix, SuffixOfItself
  <2>5. Honest(ph', ls', sends')
    BY <2>1, <2>3, <2>4, HonestSuffix
  <2>. QED
    BY <1>0, <2>1, <2>5 DEF MonitorInv
<1>9. ASSUME NEW rtt \in Latencies, NEW id \in 0..MaxPackets, Net!RecordAcknowledgment(id, rtt)
      PROVE  MonitorInv'
  <2>. DEFINE known == Net!Unacked(id)
              m == Net!Min(known)
              p == [ph EXCEPT ![m].acked = TRUE]
              e == [rtt |-> rtt, n |-> ph[m].n]
  <2>1. sends' = sends /\ now' = now
    BY <1>9 DEF Net!RecordAcknowledgment
  <2>2. CASE known = {}
    <3>1. ph' = ph /\ ls' = ls
      BY <1>9, <2>2 DEF Net!RecordAcknowledgment
    <3>. QED
      BY <1>0, <1>1, <2>1, <3>1
  <2>3. CASE known # {}
    <3>1. ph' = p /\ ls' = Net!Latest(Append(ls, e))
      BY <1>9, <2>3 DEF Net!RecordAcknowledgment
    <3>2. known \subseteq Nat /\ known \subseteq DOMAIN ph /\ \A i \in known : ~ph[i].acked
      BY <1>0, LenProperties DEF Net!Unacked
    <3>. HIDE DEF known
    <3>3. m \in known
      BY <2>3, <3>2, LeastOf
    <3>4. m \in DOMAIN ph /\ ~ph[m].acked /\ rtt \in Nat
      BY <3>2, <3>3, TrafficFacts
    <3>. HIDE DEF m
    <3>5. Honest(p, Append(ls, e), sends)
      BY <1>0, <3>4, HonestAcked
    <3>. HIDE DEF p, e
    <3>6. Append(ls, e) \in Seq(Samples) /\ p \in Seq(Packets)
      BY <3>5 DEF Honest
    <3>7. Suffix(Append(ls, e), Net!Latest(Append(ls, e)), Samples) /\ Suffix(p, p, Packets)
      BY <3>6, LatestSuffix, SuffixOfItself
    <3>8. Honest(ph', ls', sends')
      BY <2>1, <3>1, <3>5, <3>7, HonestSuffix
    <3>. QED
      BY <1>0, <2>1, <3>8 DEF MonitorInv
  <2>. QED
    BY <2>2, <2>3
<1>. QED
  BY <1>2, <1>3, <1>4, <1>5, <1>6, <1>7, <1>8, <1>9 DEF Net!MonitorNext

-----------------------------------------------------------------------------
(* The server's list holds a connection once, every open one, and a closed  *)
(* one only as long as its close handler waits for the lock.                *)

Servers == [running : BOOLEAN, acceptor : BOOLEAN, accepting : BOOLEAN, connections : Seq(Peers),
            accepted : SUBSET Peers, closed : SUBSET Peers, closing : SUBSET Peers,
            lock : {"free", "stop"}]
Once(s) == \A i, j \in DOMAIN s : s[i] = s[j] => i = j
On(c, q) == \E i \in DOMAIN q : q[i] = c

\* The list q of connections, with the accepted, the closed and the closing.
Lists(q, a, d, g) ==
    /\ q \in Seq(Peers) /\ Once(q)
    /\ a \subseteq Peers /\ d \subseteq a /\ g \subseteq d
    /\ \A i \in DOMAIN q : q[i] \in a
    /\ \A c \in a : c \notin d => On(c, q)
    /\ \A i \in DOMAIN q : q[i] \in d => q[i] \in g
OpenOn(s) == s \in Servers /\ Lists(s.connections, s.accepted, s.closed, s.closing)

\* What RemoveAt leaves of a list.
LEMMA Removed ==
    ASSUME NEW S, NEW s \in Seq(S), NEW m \in DOMAIN s, Once(s)
    PROVE  LET t == Net!RemoveAt(s, m)
           IN  /\ t \in Seq(S) /\ Once(t)
               /\ \A j \in DOMAIN t : \E k \in DOMAIN s : k # m /\ t[j] = s[k]
               /\ \A k \in DOMAIN s : k # m => \E j \in DOMAIN t : t[j] = s[k]
<1>. DEFINE t == Net!RemoveAt(s, m)
            n == Len(s)
            u == SubSeq(s, 1, m - 1)
            v == SubSeq(s, m + 1, n)
            was(j) == IF j < m THEN j ELSE j + 1
<1>1. n \in Nat /\ m \in 1..n /\ DOMAIN s = 1..n
  BY LenProperties
<1>2. PICK x \in Nat : x = m
  BY <1>1
<1>3. u \in Seq(S) /\ Len(u) = m - 1 /\ \A j \in 1..(m - 1) : u[j] = s[j]
  BY <1>1
<1>4. v \in Seq(S) /\ Len(v) = n - m /\ \A j \in 1..(n - m) : v[j] = s[m + j]
  BY <1>1
<1>5. t = u \o v
  BY DEF Net!RemoveAt
<1>. HIDE DEF u, v, t
<1>6. t \in Seq(S) /\ Len(t) = n - 1 /\ DOMAIN t = 1..(n - 1)
  <2>1. t \in Seq(S) /\ Len(t) = Len(u) + Len(v)
    BY <1>3, <1>4, <1>5, ConcatProperties
  <2>2. Len(t) = n - 1
    BY <1>1, <1>3, <1>4, <2>1
  <2>. QED
    BY <2>1, <2>2, LenProperties
<1>7. \A j \in 1..(n - 1) : /\ was(j) \in 1..n /\ was(j) # m /\ t[j] = s[was(j)]
  <2>1. ASSUME NEW j \in 1..(m - 1) PROVE t[j] = s[j] /\ was(j) = j
    BY <1>1, <1>3, <1>4, <1>5, <2>1
  <2>2. ASSUME NEW j \in m..(n - 1) PROVE t[j] = s[j + 1] /\ was(j) = j + 1
    <3>1. j - (m - 1) \in 1..(n - m) /\ m + (j - (m - 1)) = j + 1
      BY <1>1, <2>2
    <3>2. t[j] = v[j - (m - 1)]
      BY <1>1, <1>3, <1>4, <1>5, <2>2
    <3>. QED
      BY <1>1, <1>4, <2>2, <3>1, <3>2
  <2>. QED
    BY <1>1, <2>1, <2>2
<1>8. /\ \A i, j \in 1..(n - 1) : was(i) = was(j) => i = j
      /\ \A k \in 1..n : k # m => \E j \in 1..(n - 1) : was(j) = k
  <2>1. ASSUME NEW k \in 1..n, k < m PROVE k \in 1..(n - 1) /\ was(k) = k
    BY <1>1, <2>1
  <2>2. ASSUME NEW k \in 1..n, k > m PROVE k - 1 \in 1..(n - 1) /\ was(k - 1) = k
    BY <1>1, <2>2
  <2>3. \A k \in 1..n : k # m => k < m \/ k > m
    BY <1>1
  <2>. QED
    BY <1>1, <2>1, <2>2, <2>3
<1>. HIDE DEF was, n
<1>9. Once(t)
  BY <1>1, <1>6, <1>7, <1>8 DEF Once
<1>10. \A j \in DOMAIN t : \E k \in DOMAIN s : k # m /\ t[j] = s[k]
  BY <1>1, <1>6, <1>7
<1>11. \A k \in DOMAIN s : k # m => \E j \in DOMAIN t : t[j] = s[k]
  BY <1>1, <1>6, <1>7, <1>8
<1>. QED
  BY <1>6, <1>9, <1>10, <1>11 DEF t

LEMMA ServerStart == Net!TrafficInit => OpenOn(server)
<1>. SUFFICES ASSUME Net!TrafficInit PROVE OpenOn(server)
  OBVIOUS
<1>1. server = [running |-> FALSE, acceptor |-> TRUE, accepting |-> FALSE, connections |-> <<>>,
                accepted |-> {}, closed |-> {}, closing |-> {}, lock |-> "free"]
  BY DEF Net!TrafficInit, Net!NoServer
<1>2. <<>> \in Seq(Peers) /\ DOMAIN <<>> = {}
  OBVIOUS
<1>. QED
  BY <1>1, <1>2 DEF OpenOn, Lists, Servers, Once

\* A connection that was not on the list joins it.
LEMMA ListAccepts ==
    ASSUME NEW q, NEW a, NEW d, NEW g, Lists(q, a, d, g), NEW c \in Peers, c \notin a
    PROVE  Lists(Append(q, c), a \cup {c}, d, g)
<1>. DEFINE r == Append(q, c)
<1>1. q \in Seq(Peers) /\ Len(q) \in Nat /\ DOMAIN q = 1..Len(q)
  BY LenProperties DEF Lists
<1>2. r \in Seq(Peers) /\ DOMAIN r = 1..(Len(q) + 1)
  BY <1>1, AppendProperties
<1>3. r[Len(q) + 1] = c /\ \A i \in 1..Len(q) : r[i] = q[i]
  BY <1>1, AppendProperties
<1>. HIDE DEF r
<1>4. \A i \in DOMAIN q : i \in DOMAIN r /\ r[i] = q[i] /\ q[i] # c
  BY <1>1, <1>2, <1>3 DEF Lists
<1>5. \A i \in DOMAIN r : i \in DOMAIN q \/ (i = Len(q) + 1 /\ r[i] = c)
  BY <1>1, <1>2, <1>3
<1>6. Len(q) + 1 \in DOMAIN r
  BY <1>1, <1>2
<1>7. Once(r)
  BY <1>4, <1>5 DEF Once, Lists
<1>8. \A x \in a \cup {c} : x \notin d => On(x, r)
  BY <1>3, <1>4, <1>6 DEF On, Lists
<1>9. \A i \in DOMAIN r : r[i] \in a \cup {c} /\ (r[i] \in d => r[i] \in g)
  BY <1>4, <1>5 DEF Lists
<1>. QED
  BY <1>2, <1>7, <1>8, <1>9 DEF Lists, r

\* A connection of the list closes.
LEMMA ListCloses ==
    ASSUME NEW q, NEW a, NEW d, NEW g, Lists(q, a, d, g), NEW i \in DOMAIN q
    PROVE  Lists(q, a, d \cup {q[i]}, g \cup {q[i]})
BY DEF Lists

\* A close handler takes its connection off the list.
LEMMA ListRemoves ==
    ASSUME NEW q, NEW a, NEW d, NEW g, Lists(q, a, d, g), NEW m \in DOMAIN q, q[m] \in d
    PROVE  Lists(Net!RemoveAt(q, m), a, d, g \ {q[m]})
<1>1. q \in Seq(Peers) /\ Once(q)
  BY DEF Lists
<1> DEFINE r == Net!RemoveAt(q, m)
<1>2. /\ r \in Seq(Peers) /\ Once(r)
      /\ \A j \in DOMAIN r : \E k \in DOMAIN q : k # m /\ r[j] = q[k]
      /\ \A k \in DOMAIN q : k # m => \E j \in DOMAIN r : r[j] = q[k]
  BY <1>1, Removed, ZenonT(30)
<1> HIDE DEF r
<1>3. \A j \in DOMAIN r : r[j] \in a /\ r[j] # q[m] /\ (r[j] \in d => r[j] \in g)
  BY <1>1, <1>2 DEF Lists, Once
<1>4. \A c \in a : c \notin d => On(c, r)
  BY <1>2 DEF Lists, On
<1> QED
  BY <1>2, <1>3, <1>4 DEF Lists, r

LEMMA ServerStep == ASSUME OpenOn(server), [Net!ServerNext]_server PROVE OpenOn(server')
<1>. DEFINE s == server
            t == server'
            l == server.connections
<1>0. /\ s \in Servers /\ l \in Seq(Peers)
      /\ Lists(l, s.accepted, s.closed, s.closing)
      /\ DOMAIN l \subseteq Nat
  BY LenProperties DEF OpenOn, Servers
<1>1. ASSUME t = s PROVE OpenOn(t)
  BY <1>1
<1>2. ASSUME t \in Servers, t.connections = l, t.accepted = s.accepted, t.closed = s.closed,
             t.closing = s.closing
      PROVE  OpenOn(t)
  BY <1>0, <1>2 DEF OpenOn
<1>3. CASE Net!Initialize \/ Net!Cleanup
  BY <1>1, <1>3 DEF Net!Initialize, Net!Cleanup
<1>4. CASE Net!StartServer
  <2>1. t = [s EXCEPT !.running = TRUE, !.accepting = @ \/ s.acceptor]
    BY <1>4 DEF Net!StartServer
  <2>2. (s.accepting \/ s.acceptor) \in BOOLEAN
    BY Zenon
  <2>. QED
    BY <1>0, <1>2, <2>1, <2>2 DEF Servers
<1>5. CASE Net!AcceptAborted
  <2>1. t = [s EXCEPT !.accepting = FALSE]
    BY <1>5 DEF Net!AcceptAborted
  <2>. QED
    BY <1>0, <1>2, <2>1 DEF Servers
<1>6. CASE Net!Stop
  <2>. DEFINE open == {i \in DOMAIN l : l[i] \notin s.closed}
              m == Net!Min(open)
  <2>1. CASE open = {}
    <3>1. t = [s EXCEPT !.running = FALSE, !.acceptor = FALSE, !.connections = <<>>]
      BY <1>6, <2>1 DEF Net!Stop
    <3>3. <<>> \in Seq(Peers) /\ DOMAIN <<>> = {} /\ Once(<<>>)
      BY DEF Once
    <3>2. t \in Servers /\ t.connections = <<>> /\ t.accepted = s.accepted /\ t.closed = s.closed
          /\ t.closing = s.closing
      <4>1. ASSUME NEW e \in Seq(Peers), t = [s EXCEPT !.running = FALSE, !.acceptor = FALSE, !.connections = e]
            PROVE  t \in Servers /\ t.connections = e /\ t.accepted = s.accepted
                   /\ t.closed = s.closed /\ t.closing = s.closing
        BY <1>0, <4>1 DEF Servers
      <4>. QED
        BY <3>1, <3>3, <4>1
    <3>4. \A c \in s.accepted : c \in s.closed
      BY <1>0, <2>1 DEF Lists, On
    <3>5. Lists(<<>>, s.accepted, s.closed, s.closing)
      BY <1>0, <3>3, <3>4 DEF Lists
    <3>. QED
      BY <3>2, <3>5 DEF OpenOn
  <2>2. CASE open # {}
    <3>1. t = [s EXCEPT !.running = FALSE, !.acceptor = FALSE, !.lock = "stop",
                        !.closed = @ \cup {l[m]}, !.closing = @ \cup {l[m]}]
      BY <1>6, <2>2 DEF Net!Stop
    <3>2. m \in DOMAIN l
      <4>1. open \subseteq Nat /\ open \subseteq DOMAIN l
        BY <1>0
      <4>. HIDE DEF open
      <4>. QED
        BY <2>2, <4>1, LeastOf
    <3>. HIDE DEF m
    <3>3. l[m] \in Peers
      BY <1>0, <3>2 DEF Lists
    <3>4. t \in Servers /\ t.connections = l /\ t.accepted = s.accepted
          /\ t.closed = s.closed \cup {l[m]} /\ t.closing = s.closing \cup {l[m]}
      BY <1>0, <3>1, <3>3 DEF Servers
    <3>. QED
      BY <1>0, <3>2, <3>4, ListCloses DEF OpenOn
  <2>. QED
    BY <2>1, <2>2
<1>7. ASSUME NEW c \in Peers, Net!DoAccept(c) PROVE OpenOn(t)
  <2>1. /\ c \notin s.accepted
        /\ t = [s EXCEPT !.connections = Append(@, c), !.accepted = @ \cup {c},
                         !.accepting = s.running]
    BY <1>7 DEF Net!DoAccept
  <2>. DEFINE a == Append(l, c)
  <2>2. a \in Seq(Peers)
    BY <1>0
  <2>. HIDE DEF a
  <2>3. t = [s EXCEPT !.connections = a, !.accepted = @ \cup {c}, !.accepting = s.running]
    BY <2>1 DEF a
  <2>4. t \in Servers /\ t.connections = a /\ t.accepted = s.accepted \cup {c}
        /\ t.closed = s.closed /\ t.closing = s.closing
    BY <1>0, <2>2, <2>3 DEF Servers
  <2>. QED
    BY <1>0, <2>1, <2>4, ListAccepts DEF OpenOn, a
<1>8. ASSUME NEW c \in Peers, Net!CloseConnection(c) PROVE OpenOn(t)
  <2>1. PICK i \in DOMAIN l : c = l[i]
    BY <1>8 DEF Net!CloseConnection, Net!ToSet
  <2>2. t = [s EXCEPT !.closed = @ \cup {c}, !.closing = @ \cup {c}]
    BY <1>8 DEF Net!CloseConnection
  <2>3. t \in Servers /\ t.connections = l /\ t.accepted = s.accepted
        /\ t.closed = s.closed \cup {c} /\ t.closing = s.closing \cup {c}
    BY <1>0, <2>2 DEF Servers
  <2>. QED
    BY <1>0, <2>1, <2>3, ListCloses DEF OpenOn
<1>9. ASSUME NEW c \in Peers, Net!RemoveConnection(c) PROVE OpenOn(t)
  <2>. DEFINE found == {i \in DOMAIN l : l[i] = c}
              m == Net!Min(found)
              r == IF found = {} THEN l ELSE Net!RemoveAt(l, m)
  <2>1. /\ c \in s.closing
        /\ t = [s EXCEPT !.closing = @ \ {c}, !.connections = r]
    BY <1>9 DEF Net!RemoveConnection
  <2>2. Lists(r, s.accepted, s.closed, s.closing \ {c})
    <3>1. CASE found = {}
      BY <1>0, <3>1 DEF Lists
    <3>2. CASE found # {}
      <4>1. m \in found
        <5>1. found \subseteq Nat
          BY <1>0
        <5>. HIDE DEF found
        <5>. QED
          BY <3>2, <5>1, LeastOf
      <4>2. m \in DOMAIN l /\ l[m] = c
        BY <4>1
      <4>3. r = Net!RemoveAt(l, m) /\ c \in s.closed
        BY <1>0, <2>1, <3>2 DEF Lists
      <4>. HIDE DEF found, m, r
      <4>. QED
        BY <1>0, <4>2, <4>3, ListRemoves
    <3>. QED
      BY <3>1, <3>2
  <2>. HIDE DEF r
  <2>3. r \in Seq(Peers)
    BY <2>2 DEF Lists
  <2>4. t \in Servers /\ t.connections = r /\ t.accepted = s.accepted
        /\ t.closed = s.closed /\ t.closing = s.closing \ {c}
    BY <1>0, <2>1, <2>3 DEF Servers
  <2>. QED
    BY <2>2, <2>4 DEF OpenOn
<1>. QED
  BY <1>1, <1>3, <1>4, <1>5, <1>6, <1>7, <1>8, <1>9 DEF Net!ServerNext

-----------------------------------------------------------------------------
(* The three together: each step is of one part, and the others stand.     *)

NetInv == LimiterInv /\ MonitorInv /\ OpenOn(server)

LEMMA NetStep == ASSUME NetInv, [ConnectionsNext]_allVars PROVE NetInv'
<1>0. now \in Nat
  BY DEF NetInv, MonitorInv
<1>1. ASSUME UNCHANGED <<packet_history, latency_samples, sends>>, now' \in Nat PROVE MonitorInv'
  BY <1>1 DEF NetInv, MonitorInv, Honest
<1>2. ASSUME UNCHANGED netVars PROVE NetInv'
  BY <1>0, <1>1, <1>2, LimiterSame DEF netVars, NetInv
<1>3. CASE Net!LimiterNext
  <2>1. LimiterInv'
    BY <1>3, LimiterStep DEF NetInv
  <2>2. now' \in Nat
    BY <2>1 DEF LimiterInv
  <2>3. UNCHANGED <<packet_history, latency_samples, sends, server>>
    BY <1>3 DEF Net!LimiterNext, Net!Tick, Net!CheckLimit, Net!Refilled, Net!SetLimit, Net!monitorVars
  <2>. QED
    BY <1>1, <2>1, <2>2, <2>3 DEF NetInv
<1>4. CASE Net!MonitorNext
  <2>1. MonitorInv'
    BY <1>4, MonitorStep DEF NetInv
  <2>2. UNCHANGED <<bucket, passed, server>> /\ now' \in {now, now + 1}
    BY <1>4 DEF Net!MonitorNext, Net!Tick, Net!Update, Net!AskQuality, Net!AskCompression, Net!Reset,
         Net!RecordPacketSent, Net!RecordLatencySample, Net!RecordAcknowledgment, Net!limiterVars
  <2>3. LimiterInv'
    BY <1>0, <2>2, LimiterSame DEF NetInv
  <2>. QED
    BY <2>1, <2>2, <2>3 DEF NetInv
<1>5. CASE Net!ServerNext
  <2>1. OpenOn(server')
    BY <1>5, ServerStep DEF NetInv
  <2>2. UNCHANGED <<now, bucket, passed, packet_history, latency_samples, sends>>
    BY <1>5 DEF Net!ServerNext, Net!Initialize, Net!Cleanup, Net!StartServer, Net!Stop, Net!AcceptAborted,
         Net!DoAccept, Net!CloseConnection, Net!RemoveConnection, Net!limiterVars, Net!monitorVars
  <2>3. LimiterInv' /\ MonitorInv'
    BY <1>0, <1>1, <2>2, LimiterSame DEF NetInv
  <2>. QED
    BY <2>1, <2>3 DEF NetInv
<1>. QED
  BY <1>2, <1>3, <1>4, <1>5 DEF ConnectionsNext, allVars, TrafficStep

LEMMA NetKeeps == NetInv => Net!TrafficInv
<1>. SUFFICES ASSUME NetInv PROVE Net!TrafficInv
  OBVIOUS
<1>1. Net!RateKept /\ Net!SamplesHonest
  BY MonitorHonest DEF NetInv, LimiterInv
<1>2. Net!ListHonest
  <2>1. Lists(server.connections, server.accepted, server.closed, server.closing)
    BY DEF NetInv, OpenOn
  <2>. QED
    BY <2>1 DEF Lists, On, Once, Net!ListHonest, Net!ToSet, Net!IsInjective
<1>. QED
  BY <1>1, <1>2 DEF Net!TrafficInv

\* WebSocketRateLimiter lets through no more than a burst and the rate give
\* in any window of time, NetworkQualityMonitor counts a packet's latency once
\* and gives answers that agree, and WebSocketServer lists each open connection
\* once and a closed one only until its close handler has run: for every rate, burst, history, number of samples and every peer.
THEOREM TrafficKept == ConnectionsSpec => []TrafficInv
<1>1. ConnectionsInit => NetInv
  BY LimiterStart, MonitorStart, ServerStart DEF ConnectionsInit, NetInv
<1>2. NetInv /\ [ConnectionsNext]_allVars => NetInv'
  BY NetStep
<1>3. NetInv => TrafficInv
  BY NetKeeps DEF TrafficInv
<1>. QED
  BY <1>1, <1>2, <1>3, PTL DEF ConnectionsSpec
=============================================================================
