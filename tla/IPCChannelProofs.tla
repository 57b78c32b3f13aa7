-------------------------- MODULE IPCChannelProofs --------------------------
(***************************************************************************)
(* Proofs about IPCChannel for any number of calling threads, envelopes    *)
(* and socket buffer size.  The inductive invariant adds to the properties *)
(* themselves that posting is finite (so that its cardinality can be       *)
(* counted) and that asio holds no frame unless a write is pending.        *)
(***************************************************************************)
EXTENDS IPCChannel, SequenceTheorems, FiniteSetTheorems, TLAPS

CurOnlyWhilePending == op \in {"none", "done"} => cur = <<>>

IInv == /\ TypeOK
        /\ IsFiniteSet(posting)
        /\ OneWriter
        /\ CurOnlyWhilePending
        /\ Conservation
        /\ NoStrandedFrame
        /\ LosslessPrefix
        /\ BrokenOnlyByClose
-----------------------------------------------------------------------------
(* Sequences.                                                              *)

\* Appending to a concatenation appends to its second part: why SendAsync,
\* which pushes at the back of writeQueue_, appends to the accepted sequence.
LEMMA ConcatAppend ==
    ASSUME NEW S, NEW s \in Seq(S), NEW t \in Seq(S), NEW e \in S,
           NEW u, u = Append(t, e)
    PROVE  Append(s \o t, e) = s \o u
<1>1. <<e>> \in Seq(S)
  OBVIOUS
<1>2. s \o t \in Seq(S)
  BY ConcatProperties
<1>3. Append(s \o t, e) = (s \o t) \o <<e>>
  BY <1>2, AppendIsConcat
<1>4. (s \o t) \o <<e>> = s \o (t \o <<e>>)
  BY <1>1, ConcatAssociative
<1>5. t \o <<e>> = u
  BY AppendIsConcat
<1> QED
  BY <1>3, <1>4, <1>5

\* Moving the first element of one queue to the end of the one before it
\* leaves their concatenation as it was: why taking a frame from writeQueue_,
\* or from the socket buffer, loses nothing.
LEMMA MoveHead ==
    ASSUME NEW S, NEW s \in Seq(S), NEW t \in Seq(S), t # <<>>
    PROVE  /\ Append(s, Head(t)) \o Tail(t) = s \o t
           /\ (s \o <<Head(t)>>) \o Tail(t) = s \o t
<1>1. Head(t) \in S /\ Tail(t) \in Seq(S) /\ <<Head(t)>> \in Seq(S)
  BY HeadTailProperties
<1>2. t = <<Head(t)>> \o Tail(t)
  <2>1. /\ <<Head(t)>> \o Tail(t) \in Seq(S)
        /\ Len(<<Head(t)>> \o Tail(t)) = Len(<<Head(t)>>) + Len(Tail(t))
        /\ \A i \in 1..Len(<<Head(t)>>) + Len(Tail(t)) :
             (<<Head(t)>> \o Tail(t))[i] =
                 IF i <= Len(<<Head(t)>>) THEN <<Head(t)>>[i]
                 ELSE Tail(t)[i - Len(<<Head(t)>>)]
    BY <1>1, ConcatProperties
  <2>2. Len(<<Head(t)>>) = 1 /\ Len(Tail(t)) = Len(t) - 1 /\ Len(t) \in Nat \ {0}
    BY HeadTailProperties, EmptySeq
  <2>3. \A i \in 1..Len(t) : (<<Head(t)>> \o Tail(t))[i] = t[i]
    BY <2>1, <2>2, HeadTailProperties
  <2> QED
    BY <2>1, <2>2, <2>3, SeqEqual
<1>3. (s \o <<Head(t)>>) \o Tail(t) = s \o t
  BY <1>1, <1>2, ConcatAssociative
<1> QED
  BY <1>1, <1>3, AppendIsConcat
-----------------------------------------------------------------------------
(* The inductive invariant.                                                *)

\* The initial state satisfies the inductive invariant.
LEMMA InitInv == Init => IInv
<1> SUFFICES ASSUME Init PROVE IInv
  OBVIOUS
<1>1. TypeOK
  <2>1. <<>> \in Seq(Msgs) /\ <<>> \in Seq(Msgs \cup {Garbage})
    BY EmptySeq
  <2> QED
    BY <2>1, Zenon DEF Init, TypeOK, OpStates, ReaderStates
<1>2. IsFiniteSet(posting) /\ OneWriter
  BY FS_EmptySet DEF Init, OneWriter, ChainCount
<1>3. Conservation
  BY ConcatEmptySeq, EmptySeq DEF Init, Conservation
<1> QED
  BY <1>1, <1>2, <1>3
     DEF Init, IInv, CurOnlyWhilePending, NoStrandedFrame, LosslessPrefix,
         BrokenOnlyByClose

\* SendAsync keeps the invariant: the frame goes behind everything accepted
\* before it, and the caller joins posting only if there is no chain.
LEMMA SendAsyncInv ==
    ASSUME IInv, NEW c \in Callers, NEW m \in Msgs, SendAsync(c, m)
    PROVE  IInv'
<1> USE DEF SendAsync, receiver
<1>1. TypeOK'
  <2>1. writeQueue' \in Seq(Msgs) /\ sent' \in Seq(Msgs)
    BY AppendProperties DEF IInv, TypeOK, Queued
  <2>2. posting' \in SUBSET Callers
    BY DEF IInv, TypeOK, Posters
  <2> QED
    BY <2>1, <2>2 DEF IInv, TypeOK
<1>2. IsFiniteSet(posting') /\ OneWriter'
  <2>1. CASE writing
    BY <2>1 DEF IInv, Posters, OneWriter, ChainCount
  <2>2. CASE ~writing
    <3>1. ChainCount = 0 /\ Cardinality(posting) \in Nat
      BY <2>2, FS_CardinalityType DEF IInv, OneWriter
    <3>2. posted = 0 /\ op = "none"
      BY <3>1 DEF IInv, TypeOK, ChainCount
    <3>3. /\ IsFiniteSet(posting \cup {c})
          /\ Cardinality(posting \cup {c}) = Cardinality(posting) + 1
      BY FS_AddElement DEF IInv
    <3> QED
      BY <2>2, <3>1, <3>2, <3>3 DEF IInv, Posters, OneWriter, ChainCount
  <2> QED
    BY <2>1, <2>2
<1>3. Conservation'
  <2> DEFINE ahead == consumed \o wire \o cur
  <2>1. ahead \in Seq(Msgs)
    BY ConcatProperties DEF IInv, TypeOK
  <2>2. writeQueue \in Seq(Msgs) /\ writeQueue' = Append(writeQueue, m)
    BY DEF IInv, TypeOK, Queued
  <2>3. Append(ahead \o writeQueue, m) = ahead \o writeQueue'
    <3> HIDE DEF ahead
    <3> QED
      BY ONLY <2>1, <2>2, m \in Msgs, ConcatAppend, ZenonT(40)
  <2> QED
    BY <2>3 DEF IInv, Conservation
<1> QED
  BY <1>1, <1>2, <1>3
     DEF IInv, CurOnlyWhilePending, NoStrandedFrame, LosslessPrefix,
         BrokenOnlyByClose, PeerGone

\* Posting hands the chain from the caller to the io thread.
LEMMA PostInv ==
    ASSUME IInv, NEW c \in Callers, PostDoWrite(c)
    PROVE  IInv'
<1>1. /\ IsFiniteSet(posting \ {c})
      /\ Cardinality(posting \ {c}) = Cardinality(posting) - 1
      /\ Cardinality(posting) \in Nat
  BY FS_RemoveElement, FS_CardinalityType DEF IInv, PostDoWrite
<1> QED
  BY <1>1
     DEF IInv, PostDoWrite, receiver, TypeOK, OneWriter, ChainCount,
         CurOnlyWhilePending, Conservation, NoStrandedFrame, LosslessPrefix,
         BrokenOnlyByClose, PeerGone

\* One run of doWrite moves the front frame to the socket buffer or to the
\* pending write, or finds the queue empty; it starts from a state in which no
\* other write is pending.
LEMMA doWriteInv ==
    ASSUME IInv, doWrite, op \in {"none", "done"}, writing,
           UNCHANGED <<stopped, torn, sent, receiver>>
    PROVE  /\ writeQueue' \in Seq(Msgs) /\ cur' \in Seq(Msgs)
           /\ wire' \in Seq(Msgs)
           /\ \/ op' = "none" /\ ~writing'
              \/ op' \in OpStates \ {"none"} /\ writing'
           /\ CurOnlyWhilePending'
           /\ Conservation'
           /\ NoStrandedFrame'
           /\ BrokenOnlyByClose'
<1>0. cur = <<>> /\ writeQueue \in Seq(Msgs) /\ wire \in Seq(Msgs)
      /\ consumed \in Seq(Msgs)
  BY DEF IInv, TypeOK, CurOnlyWhilePending
<1>1. CASE EndChain
  BY <1>0, <1>1
     DEF EndChain, IInv, receiver, CurOnlyWhilePending, Conservation,
         NoStrandedFrame, BrokenOnlyByClose
<1>2. CASE /\ writeQueue # <<>>
           /\ writeQueue' = Tail(writeQueue)
           /\ StartWrite(NextFrame)
           /\ UNCHANGED writing
  <2>1. NextFrame \in Msgs /\ writeQueue' \in Seq(Msgs)
    BY <1>0, <1>2, HeadTailProperties DEF NextFrame
  <2>2. consumed \o wire \in Seq(Msgs)
    BY <1>0, ConcatProperties
  <2>3. (consumed \o wire) \o <<>> = consumed \o wire
    BY <2>2, ConcatEmptySeq
  <2>4. sent = (consumed \o wire) \o writeQueue
    BY <1>0, <2>3 DEF IInv, Conservation
  <2>5. CASE /\ wire' = Append(wire, NextFrame)
             /\ op' = "done" /\ cur' = <<>>
    <3>1. Append(consumed \o wire, NextFrame) = consumed \o wire'
      BY <1>0, <2>1, <2>5, ConcatAppend, ZenonT(40)
    <3>2. sent = (consumed \o wire') \o writeQueue'
      BY <1>0, <1>2, <2>2, <2>4, <3>1, MoveHead DEF NextFrame
    <3>3. wire' \in Seq(Msgs) /\ consumed \o wire' \in Seq(Msgs)
      BY <1>0, <2>1, <2>5, ConcatProperties, AppendProperties
    <3>4. (consumed \o wire') \o <<>> = consumed \o wire'
      BY <3>3, ConcatEmptySeq
    <3> QED
      BY <1>2, <2>1, <2>5, <3>2, <3>3, <3>4, EmptySeq
         DEF OpStates, receiver, CurOnlyWhilePending, Conservation,
             NoStrandedFrame, BrokenOnlyByClose
  <2>6. CASE /\ op' = "deferred" \/ (op' = "failed" /\ PeerGone)
             /\ cur' = <<NextFrame>> /\ UNCHANGED wire
    <3>1. sent = (consumed \o wire \o <<NextFrame>>) \o writeQueue'
      BY <1>0, <1>2, <2>2, <2>4, MoveHead DEF NextFrame
    <3> QED
      BY <1>0, <1>2, <2>1, <2>6, <3>1
         DEF OpStates, receiver, CurOnlyWhilePending, Conservation,
             NoStrandedFrame, BrokenOnlyByClose, PeerGone
  <2> QED
    BY <1>2, <2>5, <2>6 DEF StartWrite, WriteError
<1> QED
  BY <1>1, <1>2 DEF doWrite

\* The two places doWrite runs from.
LEMMA RunDoWriteInv ==
    ASSUME IInv, RunPosted \/ WriteDone
    PROVE  IInv'
<1>1. /\ writing /\ op \in {"none", "done"}
      /\ Cardinality(posting) + posted' = 0
      /\ Cardinality(posting) \in Nat /\ posted' \in Nat
      /\ posted - posted' = IF op = "none" THEN 1 ELSE 0
      /\ doWrite
      /\ UNCHANGED <<posting, stopped, torn, sent, receiver>>
  <2>1. Cardinality(posting) \in Nat /\ posted \in Nat /\ op \in OpStates
        /\ writing \in BOOLEAN
    BY FS_CardinalityType DEF IInv, TypeOK
  <2>2. CASE RunPosted
    BY <2>1, <2>2 DEF RunPosted, IInv, OneWriter, ChainCount
  <2>3. CASE WriteDone
    BY <2>1, <2>3 DEF WriteDone, IInv, OneWriter, ChainCount
  <2> QED
    BY <2>2, <2>3
<1>2. /\ writeQueue' \in Seq(Msgs) /\ cur' \in Seq(Msgs)
      /\ wire' \in Seq(Msgs)
      /\ \/ op' = "none" /\ ~writing'
         \/ op' \in OpStates \ {"none"} /\ writing'
      /\ CurOnlyWhilePending'
      /\ Conservation'
      /\ NoStrandedFrame'
      /\ BrokenOnlyByClose'
  BY <1>1, doWriteInv
<1>3. writing' \in BOOLEAN
  BY <1>1 DEF doWrite, EndChain, IInv, TypeOK
<1>4. TypeOK'
  BY <1>1, <1>2, <1>3 DEF IInv, TypeOK, receiver, OpStates
<1>5. IsFiniteSet(posting') /\ OneWriter'
  BY <1>1, <1>2 DEF IInv, OneWriter, ChainCount
<1>6. LosslessPrefix'
  BY <1>1 DEF IInv, LosslessPrefix, receiver
<1> QED
  BY <1>2, <1>4, <1>5, <1>6 DEF IInv

\* The reactor finishes a deferred write: the frame asio holds moves to the
\* socket buffer, torn or not.
LEMMA FinishInv ==
    ASSUME IInv, FinishDeferred
    PROVE  IInv'
<1>1. /\ wire \in Seq(Msgs) /\ cur \in Seq(Msgs) /\ consumed \in Seq(Msgs)
      /\ wire \o cur \in Seq(Msgs) /\ consumed \o wire \in Seq(Msgs)
      /\ (consumed \o wire) \o cur = consumed \o (wire \o cur)
  <2>1. wire \in Seq(Msgs) /\ cur \in Seq(Msgs) /\ consumed \in Seq(Msgs)
    BY DEF IInv, TypeOK
  <2>2. wire \o cur \in Seq(Msgs) /\ consumed \o wire \in Seq(Msgs)
    BY ONLY <2>1, ConcatProperties
  <2>3. (consumed \o wire) \o cur = consumed \o (wire \o cur)
    BY ONLY <2>1, ConcatAssociative, SMTT(40)
  <2> QED
    BY <2>1, <2>2, <2>3
<1>2. wire' \in Seq(Msgs) /\ cur' = <<>> /\ cur' \in Seq(Msgs)
      /\ op' = "done"
  BY <1>1, EmptySeq DEF FinishDeferred
<1>3. Len(consumed) + Len(wire) + 1 \in Nat
  BY <1>1, LenProperties
<1>4. torn' \in SUBSET Nat
  BY <1>3 DEF FinishDeferred, IInv, TypeOK
<1>5. TypeOK'
  BY <1>2, <1>4 DEF FinishDeferred, receiver, IInv, TypeOK, OpStates
<1>6. Conservation'
  <2>1. consumed \o wire' \in Seq(Msgs)
    BY <1>1, <1>2, ConcatProperties
  <2>2. (consumed \o wire') \o <<>> = consumed \o wire'
    BY <2>1, ConcatEmptySeq
  <2>3. consumed \o wire' = (consumed \o wire) \o cur
    BY <1>1 DEF FinishDeferred
  <2> QED
    BY <1>2, <2>2, <2>3 DEF FinishDeferred, receiver, IInv, Conservation
<1>7. writing
  BY FS_CardinalityType DEF FinishDeferred, IInv, TypeOK, OneWriter, ChainCount
<1> QED
  BY <1>2, <1>5, <1>6, <1>7
     DEF FinishDeferred, receiver, IInv, OneWriter, ChainCount,
         CurOnlyWhilePending, NoStrandedFrame, LosslessPrefix,
         BrokenOnlyByClose, PeerGone

\* A write that fails leaves its frame where it is.
LEMMA FailInv ==
    ASSUME IInv, AbortDeferred \/ WriteFailed \/ Stop \/ CloseReader
    PROVE  IInv'
<1>1. /\ UNCHANGED <<writeQueue, writing, posting, posted, cur, wire, torn,
                     sent, consumed, delivered, tainted>>
      /\ op' = op \/ (op # "none" /\ op' \in {"failed", "broken"} /\ PeerGone)
      /\ op' \in OpStates /\ reader' \in ReaderStates /\ stopped' \in BOOLEAN
      /\ PeerGone => PeerGone'
      /\ op = "none" <=> op' = "none"
  <2>1. CASE AbortDeferred
    BY <2>1 DEF AbortDeferred, receiver, OpStates, PeerGone, IInv, TypeOK
  <2>2. CASE WriteFailed
    BY <2>2
       DEF WriteFailed, receiver, OpStates, PeerGone, IInv, TypeOK,
           BrokenOnlyByClose
  <2>3. CASE Stop
    BY <2>3 DEF Stop, receiver, PeerGone, IInv, TypeOK
  <2>4. CASE CloseReader
    BY <2>4 DEF CloseReader, sender, PeerGone, ReaderStates, IInv, TypeOK
  <2> QED
    BY <2>1, <2>2, <2>3, <2>4
<1>2. TypeOK'
  BY <1>1 DEF IInv, TypeOK
<1> QED
  BY <1>1, <1>2
     DEF IInv, OneWriter, ChainCount, CurOnlyWhilePending, Conservation,
         NoStrandedFrame, LosslessPrefix, BrokenOnlyByClose

\* What the reader makes of a bad frame is a run of meaningless envelopes
\* behind those it has handed over before.
LEMMA MisreadAdds ==
    ASSUME IInv, MisreadFrame
    PROVE  /\ delivered' \in Seq(Msgs \cup {Garbage})
           /\ Len(delivered') >= Len(delivered)
           /\ \A i \in 1..Len(delivered') : delivered'[i] =
                  IF i <= Len(delivered) THEN delivered[i] ELSE Garbage
<1>1. PICK n \in 0..Pieces :
         delivered' = delivered \o [i \in 1..n |-> Garbage]
  BY DEF MisreadFrame
<1> DEFINE run == [i \in 1..n |-> Garbage]
<1>2. n \in Nat
  BY <1>1, ChannelAssumption
<1>3. /\ run \in Seq(Msgs \cup {Garbage}) /\ Len(run) = n
      /\ \A i \in 1..n : run[i] = Garbage
  BY <1>2
<1>4. delivered \in Seq(Msgs \cup {Garbage}) /\ Len(delivered) \in Nat
  BY LenProperties DEF IInv, TypeOK
<1> HIDE DEF run
<1>5. /\ delivered \o run \in Seq(Msgs \cup {Garbage})
      /\ Len(delivered \o run) = Len(delivered) + Len(run)
      /\ \A i \in 1..(Len(delivered) + Len(run)) : (delivered \o run)[i] =
             IF i <= Len(delivered) THEN delivered[i]
             ELSE run[i - Len(delivered)]
  BY <1>3, <1>4, ConcatProperties
<1>6. delivered' = delivered \o run
  BY <1>1 DEF run
<1> QED
  BY <1>2, <1>3, <1>4, <1>5, <1>6

\* Reading takes one frame out of the socket buffer, in order.
LEMMA ReadInv ==
    ASSUME IInv, ReadStep
    PROVE  IInv'
<1>1. TakeFrame
  BY DEF ReadStep, ReadFrame, MisreadFrame
<1>2. /\ wire \in Seq(Msgs) /\ wire # <<>> /\ consumed \in Seq(Msgs)
      /\ Head(wire) \in Msgs /\ Tail(wire) \in Seq(Msgs)
      /\ wire' = Tail(wire) /\ consumed' = Append(consumed, Head(wire))
      /\ UNCHANGED <<sender, torn, sent>>
  BY <1>1, HeadTailProperties DEF IInv, TypeOK, TakeFrame
<1>3. consumed' \in Seq(Msgs)
  BY <1>2, AppendProperties
<1>4. /\ delivered \in Seq(Msgs \cup {Garbage})
      /\ Append(delivered, Head(wire)) \in Seq(Msgs \cup {Garbage})
      /\ delivered' \in Seq(Msgs \cup {Garbage})
  <2>1. /\ delivered \in Seq(Msgs \cup {Garbage})
        /\ Append(delivered, Head(wire)) \in Seq(Msgs \cup {Garbage})
    BY <1>2, AppendProperties DEF IInv, TypeOK
  <2>2. CASE ReadFrame
    BY <2>1, <2>2 DEF ReadFrame, OnMessage
  <2>3. CASE MisreadFrame
    BY <2>1, <2>3, MisreadAdds
  <2> QED
    BY <2>1, <2>2, <2>3 DEF ReadStep
<1>5. TypeOK'
  BY <1>2, <1>3, <1>4
     DEF IInv, TypeOK, sender, ReadStep, ReadFrame, OnMessage, MisreadFrame,
         ReaderStates
<1>6. Conservation'
  <2>1. consumed' \o wire' = consumed \o wire
    BY <1>2, MoveHead
  <2> QED
    BY <1>2, <2>1 DEF IInv, Conservation, sender
<1>7. LosslessPrefix'
  <2>1. CASE ReadFrame
    BY <1>2, <2>1 DEF IInv, LosslessPrefix, ReadFrame, OnMessage
  <2>2. CASE MisreadFrame
    BY <2>2 DEF LosslessPrefix, MisreadFrame
  <2> QED
    BY <2>1, <2>2 DEF ReadStep
<1>8. reader' # "closed" /\ reader # "closed"
  BY DEF ReadStep, ReadFrame, MisreadFrame, TakeFrame
<1> QED
  BY <1>2, <1>5, <1>6, <1>7, <1>8
     DEF IInv, sender, OneWriter, ChainCount, CurOnlyWhilePending,
         NoStrandedFrame, BrokenOnlyByClose, PeerGone

\* Every step keeps the inductive invariant.
LEMMA StepInv == IInv /\ [Next]_vars => IInv'
<1> SUFFICES ASSUME IInv, [Next]_vars PROVE IInv'
  OBVIOUS
<1>1. CASE Enqueue
  BY <1>1, SendAsyncInv DEF Enqueue
<1>2. CASE Post
  BY <1>2, PostInv DEF Post
<1>3. CASE IoStep
  BY <1>3, RunDoWriteInv, FinishInv, FailInv DEF IoStep
<1>4. CASE Stop \/ CloseReader
  BY <1>4, FailInv
<1>5. CASE ReadStep
  BY <1>5, ReadInv
<1>6. CASE UNCHANGED vars
  BY <1>6
     DEF vars, sender, receiver, IInv, TypeOK, OneWriter, ChainCount,
         CurOnlyWhilePending, Conservation, NoStrandedFrame, LosslessPrefix,
         BrokenOnlyByClose, PeerGone
<1> QED
  BY <1>1, <1>2, <1>3, <1>4, <1>5, <1>6 DEF Next

LEMMA Invariance == Spec => []IInv
BY InitInv, StepInv, PTL DEF Spec
-----------------------------------------------------------------------------
(* Results.                                                                *)

\* Every variable of the channel keeps its type.
THEOREM TypeCorrect == Spec => []TypeOK
BY Invariance, PTL DEF IInv

\* However many threads call SendAsync, at most one doWrite chain exists, and
\* one exists whenever writing_ is set: two async_write calls never overlap.
THEOREM AtMostOneWriter == Spec => []OneWriter
BY Invariance, PTL DEF IInv

\* No envelope is lost, repeated or overtaken between SendAsync and the
\* receiver's read, whatever fails or closes on the way.
THEOREM NothingLost == Spec => []Conservation
BY Invariance, PTL DEF IInv

\* A frame in the queue always has a doWrite chain that is responsible for it.
THEOREM NothingStranded == Spec => []NoStrandedFrame
BY Invariance, PTL DEF IInv

\* Until the receiver meets a damaged frame, its callback has seen exactly the
\* frames that were read.
THEOREM LosslessDelivery == Spec => []LosslessPrefix
BY Invariance, PTL DEF IInv

\* A channel stops writing for good only when one of its ends is closed.
THEOREM BreaksOnlyWhenClosed == Spec => []BrokenOnlyByClose
BY Invariance, PTL DEF IInv

\* All of these hold together, for any number of callers and envelopes.
THEOREM ChannelSound == Spec => []ChannelInv
BY Invariance, PTL DEF IInv, ChannelInv
-----------------------------------------------------------------------------
(* Refinement of OrderedChannel.                                           *)

\* The initial state of the channel is an initial state of OrderedChannel.
LEMMA RefinesInit == Init => Abstract!Init
BY EmptySeq DEF Init, Abstract!Init

\* The frame at the head of the socket buffer is the first accepted envelope
\* the receiver has not read.
LEMMA HeadOfWire ==
    ASSUME IInv, wire # <<>>
    PROVE  /\ Len(consumed) < Len(sent)
           /\ sent[Len(consumed) + 1] = Head(wire)
<1> DEFINE rest == cur \o writeQueue
           tail == wire \o rest
<1>1. /\ consumed \in Seq(Msgs) /\ wire \in Seq(Msgs) /\ cur \in Seq(Msgs)
      /\ writeQueue \in Seq(Msgs) /\ consumed \o wire \in Seq(Msgs)
  BY ConcatProperties DEF IInv, TypeOK
<1>2. rest \in Seq(Msgs) /\ tail \in Seq(Msgs)
  BY <1>1, ConcatProperties
<1>3. sent = consumed \o tail
  <2>1. sent = (consumed \o wire) \o rest
    <3> DEFINE front == consumed \o wire
    <3>1. sent = (front \o cur) \o writeQueue /\ front \in Seq(Msgs)
      BY <1>1 DEF IInv, Conservation
    <3> HIDE DEF front
    <3>2. (front \o cur) \o writeQueue = front \o (cur \o writeQueue)
      BY ONLY <1>1, <3>1, ConcatAssociative, SMTT(20)
    <3> QED
      BY <3>1, <3>2 DEF front
  <2> HIDE DEF rest
  <2> QED
    BY <1>1, <1>2, <2>1, ConcatAssociative
<1> HIDE DEF rest
<1>4. /\ Len(wire) > 0 /\ Len(wire) \in Nat /\ Len(consumed) \in Nat
      /\ Len(rest) \in Nat
  BY <1>1, <1>2, EmptySeq, LenProperties
<1>5. Len(tail) = Len(wire) + Len(rest) /\ tail[1] = wire[1]
  BY <1>1, <1>2, <1>4, ConcatProperties
<1> HIDE DEF tail
<1>6. /\ Len(consumed \o tail) = Len(consumed) + Len(tail)
      /\ (consumed \o tail)[Len(consumed) + 1] = tail[1]
  <2>1. Len(tail) \in Nat /\ Len(tail) > 0
    BY <1>4, <1>5
  <2>2. /\ Len(consumed) + 1 \in 1..(Len(consumed) + Len(tail))
        /\ (Len(consumed) + 1) - Len(consumed) = 1
        /\ ~(Len(consumed) + 1 <= Len(consumed))
    BY <1>4, <2>1
  <2>3. /\ Len(consumed \o tail) = Len(consumed) + Len(tail)
        /\ \A i \in 1..(Len(consumed) + Len(tail)) : (consumed \o tail)[i] =
              IF i <= Len(consumed) THEN consumed[i]
              ELSE tail[i - Len(consumed)]
    BY <1>1, <1>2, ConcatProperties
  <2> QED
    BY <2>2, <2>3
<1>7. Head(wire) = wire[1]
  BY <1>1
<1> QED
  BY <1>3, <1>4, <1>5, <1>6, <1>7

\* Every step of the channel is a step of OrderedChannel or leaves its
\* variables alone.
LEMMA RefinesStep == IInv /\ [Next]_vars => [Abstract!Next]_(Abstract!vars)
<1> SUFFICES ASSUME IInv, [Next]_vars
             PROVE  Abstract!Next \/ UNCHANGED Abstract!vars
  BY DEF Abstract!vars
<1>1. CASE Enqueue
  <2>1. PICK c \in Callers, m \in Msgs : SendAsync(c, m)
    BY <1>1 DEF Enqueue
  <2>2. Abstract!Send(m)
    BY <2>1 DEF SendAsync, receiver, Abstract!Send
  <2> QED
    BY <2>2 DEF Abstract!Next
<1>2. CASE Post \/ IoStep \/ Stop \/ CloseReader
  <2>1. UNCHANGED <<sent, consumed, delivered, tainted>>
    BY <1>2
       DEF Post, PostDoWrite, IoStep, RunPosted, WriteDone, FinishDeferred,
           AbortDeferred, WriteFailed, Stop, CloseReader, receiver
  <2> QED
    BY <2>1 DEF Abstract!vars
<1>3. CASE ReadStep
  <2>1. TakeFrame
    BY <1>3 DEF ReadStep, ReadFrame, MisreadFrame
  <2>2. /\ Len(consumed) < Len(sent)
        /\ sent[Len(consumed) + 1] = Head(wire)
    BY <2>1, HeadOfWire DEF TakeFrame
  <2>3. /\ consumed \in Seq(Msgs) /\ Head(wire) \in Msgs
        /\ consumed' = Append(consumed, Head(wire))
        /\ sent' = sent
    BY <2>1, HeadTailProperties DEF TakeFrame, IInv, TypeOK
  <2>4. Len(consumed') = Len(consumed) + 1
    BY <2>3, AppendProperties
  <2>5. CASE ReadFrame
    <3>1. Abstract!Deliver
      BY <2>2, <2>3, <2>4, <2>5 DEF ReadFrame, OnMessage, Abstract!Deliver
    <3> QED
      BY <3>1 DEF Abstract!Next
  <2>6. CASE MisreadFrame
    <3>1. Abstract!Damage
      BY <2>2, <2>3, <2>4, <2>6, MisreadAdds
         DEF MisreadFrame, Abstract!Damage, Abstract!MeaninglessAdded
    <3> QED
      BY <3>1 DEF Abstract!Next
  <2> QED
    BY <1>3, <2>5, <2>6 DEF ReadStep
<1>4. CASE UNCHANGED vars
  BY <1>4 DEF vars, receiver, Abstract!vars
<1> QED
  BY <1>1, <1>2, <1>3, <1>4 DEF Next

\* The write queue, the doWrite chain and the doRead loop implement an
\* ordered channel that never repeats or reorders an envelope.
THEOREM Refinement == Spec => ImplementsOrderedChannel
BY RefinesInit, RefinesStep, Invariance, PTL
   DEF Spec, ImplementsOrderedChannel, Abstract!Spec
=============================================================================
