----------------------------- MODULE IPCChannel -----------------------------
(***************************************************************************)
(* One direction of the socketpair between the master and a worker         *)
(* (src/src/process/IPCChannel.cpp): the sending end's write queue, its    *)
(* writing_ flag and the chain of doWrite handlers, the kernel's socket    *)
(* buffer, and the receiving end's doRead loop.                            *)
(*                                                                         *)
(* SendAsync may be called from any thread; it takes writeMutex_, and only *)
(* the caller that finds writing_ false posts a doWrite to the io thread.  *)
(* doWrite hands asio a buffer that points into its own local vector while *)
(* the completion lambda owns a copy: when the socket buffer takes the     *)
(* whole frame at once the bytes are good, but when asio has to finish the *)
(* write later it reads freed memory, so the rest of the frame is either   *)
(* right by luck or torn.                                                  *)
(***************************************************************************)
EXTENDS Naturals, Sequences, FiniteSets

CONSTANTS Callers,    \* threads that call SendAsync on this end
          Msgs,       \* envelopes
          Oversized,  \* envelopes whose frame exceeds MAX_MESSAGE_SIZE
          Garbage,    \* an envelope decoded from bytes that are not a frame
          Pieces,     \* bound on the envelopes decoded out of one bad frame
          Room,       \* frames the socket buffer holds before a write defers
          MaxSent     \* bound on the number of SendAsync calls

ASSUME ChannelAssumption == /\ Oversized \subseteq Msgs
                            /\ Garbage \notin Msgs
                            /\ Room \in Nat \ {0}
                            /\ Pieces \in Nat
                            /\ MaxSent \in Nat

VARIABLES
    writeQueue,  \* frames accepted and not yet taken by doWrite
    writing,     \* writing_
    posting,     \* callers that set writing_ and have not posted doWrite yet
    posted,      \* number of doWrite handlers waiting in the io_context
    op,          \* the async_write in progress
    cur,         \* <<frame>> while asio still holds bytes of it, else <<>>
    stopped,     \* stopped_ of the sending end (its stream is closed)
    wire,        \* frames in the socket buffer
    torn,        \* positions in sent of the frames that were torn
    reader,      \* state of the receiving end's read loop
    sent,        \* history: envelopes accepted, in the order of the queue
    consumed,    \* history: envelopes whose frame left the socket buffer
    delivered,   \* envelopes handed to the receiver's onMessage_
    tainted      \* history: the reader has met a frame it could not read

sender == <<writeQueue, writing, posting, posted, op, cur, stopped>>
receiver == <<reader, consumed, delivered, tainted>>
vars == <<sender, wire, torn, sent, receiver>>

OpStates == {"none", "deferred", "done", "failed", "broken"}
ReaderStates == {"sync", "lost", "closed"}

TypeOK ==
    /\ writeQueue \in Seq(Msgs)
    /\ writing \in BOOLEAN
    /\ posting \in SUBSET Callers
    /\ posted \in Nat
    /\ op \in OpStates
    /\ cur \in Seq(Msgs)
    /\ stopped \in BOOLEAN
    /\ wire \in Seq(Msgs)
    /\ torn \in SUBSET Nat
    /\ reader \in ReaderStates
    /\ sent \in Seq(Msgs)
    /\ consumed \in Seq(Msgs)
    /\ delivered \in Seq(Msgs \cup {Garbage})
    /\ tainted \in BOOLEAN

Init ==
    /\ writeQueue = <<>>
    /\ writing = FALSE
    /\ posting = {}
    /\ posted = 0
    /\ op = "none"
    /\ cur = <<>>
    /\ stopped = FALSE
    /\ wire = <<>>
    /\ torn = {}
    /\ reader = "sync"
    /\ sent = <<>>
    /\ consumed = <<>>
    /\ delivered = <<>>
    /\ tainted = FALSE
-----------------------------------------------------------------------------
(* The sending end.                                                        *)

\* Variant: the frame goes to the wrong end of the deque.
QueuedAtFront(m) == <<m>> \o writeQueue

Queued(m) == Append(writeQueue, m)
Posters(c) == IF writing THEN posting ELSE posting \cup {c}

\* The locked part of SendAsync: queue the frame, and become the poster when
\* no doWrite chain is running.
SendAsync(c, m) ==
    /\ c \notin posting
    /\ Len(sent) < MaxSent
    /\ writeQueue' = Queued(m)
    /\ sent' = Append(sent, m)
    /\ writing' = TRUE
    /\ posting' = Posters(c)
    /\ UNCHANGED <<posted, op, cur, stopped, wire, torn, receiver>>

\* The asio::post that follows once the mutex is released.
PostDoWrite(c) ==
    /\ c \in posting
    /\ posting' = posting \ {c}
    /\ posted' = posted + 1
    /\ UNCHANGED <<writeQueue, writing, op, cur, stopped, wire, torn, sent,
                   receiver>>

PeerGone == stopped \/ reader = "closed"
Fits == Len(wire) < Room

WriteError == PeerGone

\* async_write starts with an attempt to write at once: the frame fits in the
\* socket buffer, or it does not and the rest is left to the reactor, or the
\* descriptor is closed on one side.
StartWrite(m) ==
    \/ /\ ~PeerGone /\ Fits
       /\ wire' = Append(wire, m)
       /\ op' = "done" /\ cur' = <<>>
    \/ /\ ~PeerGone /\ ~Fits
       /\ op' = "deferred" /\ cur' = <<m>>
       /\ UNCHANGED wire
    \/ /\ WriteError
       /\ op' = "failed" /\ cur' = <<m>>
       /\ UNCHANGED wire

\* Variant: the chain ends although frames wait.
EndChainAnyway == /\ writing' = FALSE
                  /\ op' = "none"
                  /\ UNCHANGED <<writeQueue, cur, wire>>

NextFrame == Head(writeQueue)
EndChain == /\ writeQueue = <<>>
            /\ writing' = FALSE
            /\ op' = "none"
            /\ UNCHANGED <<writeQueue, cur, wire>>

\* One run of doWrite on the io thread.
doWrite ==
    \/ EndChain
    \/ /\ writeQueue # <<>>
       /\ writeQueue' = Tail(writeQueue)
       /\ StartWrite(NextFrame)
       /\ UNCHANGED writing

RunPosted ==
    /\ posted > 0
    /\ posted' = posted - 1
    /\ doWrite
    /\ UNCHANGED <<posting, stopped, torn, sent, receiver>>

\* A variant whose completion handler ends the chain without looking at the
\* queue again.
WriteDoneAndForget ==
    /\ op = "done"
    /\ op' = "none"
    /\ UNCHANGED <<writeQueue, writing, posting, posted, cur, stopped, wire,
                   torn, sent, receiver>>

\* The completion handler of a write that succeeded calls doWrite again.
WriteDone ==
    /\ op = "done"
    /\ doWrite
    /\ UNCHANGED <<posting, posted, stopped, torn, sent, receiver>>

\* The reactor finishes a deferred write from memory that has been freed.
FinishDeferred ==
    /\ op = "deferred"
    /\ ~PeerGone
    /\ Fits
    /\ wire' = wire \o cur
    /\ op' = "done" /\ cur' = <<>>
    /\ torn' \in {torn, torn \cup {Len(consumed) + Len(wire) + 1}}
    /\ UNCHANGED <<writeQueue, writing, posting, posted, stopped, sent,
                   receiver>>

\* A close on either side fails the write that is in progress.
AbortDeferred ==
    /\ op = "deferred"
    /\ PeerGone
    /\ op' = "failed"
    /\ UNCHANGED <<writeQueue, writing, posting, posted, cur, stopped, wire,
                   torn, sent, receiver>>

\* The completion handler of a write that failed logs and returns: writing_
\* stays true and nothing will ever run doWrite again.  (Where SIGPIPE has its
\* default action a write to a closed peer kills the process instead, which is
\* the same for this channel.)
WriteFailed ==
    /\ op = "failed"
    /\ op' = "broken"
    /\ UNCHANGED <<writeQueue, writing, posting, posted, cur, stopped, wire,
                   torn, sent, receiver>>

Stop ==
    /\ ~stopped
    /\ stopped' = TRUE
    /\ UNCHANGED <<writeQueue, writing, posting, posted, op, cur, wire, torn,
                   sent, receiver>>
-----------------------------------------------------------------------------
(* The receiving end: doRead and its two completion handlers.              *)

NextPos == Len(consumed) + 1

\* The frame at the head of the socket buffer can be read as it was written.
Readable == /\ NextPos \notin torn
            /\ Head(wire) \notin Oversized

TakeFrame == /\ reader # "closed"
             /\ wire # <<>>
             /\ wire' = Tail(wire)
             /\ consumed' = Append(consumed, Head(wire))
             /\ UNCHANGED <<sender, torn, sent>>

OnMessage(m) == delivered' = Append(delivered, m)

\* A good frame, with the reader on a frame boundary: onMessage_ gets it.  A
\* reader that has lost the boundary may find it again by chance.
ReadFrame ==
    /\ TakeFrame
    /\ Readable
    /\ OnMessage(Head(wire))
    /\ reader' = "sync"
    /\ UNCHANGED tainted

\* A torn frame, a length above MAX_MESSAGE_SIZE, or any frame once the
\* boundary is lost.  After a bad length doRead starts over at the bytes of the
\* body: each four of them are a length again, dropped when it is bad, and when
\* it is not as many bytes as it says are one envelope.  So the bytes of one
\* frame give no envelope, one, or several.
MisreadFrame ==
    /\ TakeFrame
    /\ ~Readable \/ reader = "lost"
    /\ \E n \in 0..Pieces :
           delivered' = delivered \o [i \in 1..n |-> Garbage]
    /\ reader' \in {"sync", "lost"}
    /\ tainted' = TRUE

\* The receiving process stops its end or dies.
CloseReader ==
    /\ reader # "closed"
    /\ reader' = "closed"
    /\ UNCHANGED <<sender, wire, torn, sent, consumed, delivered, tainted>>
-----------------------------------------------------------------------------
Enqueue == \E c \in Callers, m \in Msgs : SendAsync(c, m)
Post == \E c \in Callers : PostDoWrite(c)
IoStep == RunPosted \/ WriteDone \/ FinishDeferred \/ AbortDeferred
          \/ WriteFailed
ReadStep == ReadFrame \/ MisreadFrame

Next == Enqueue \/ Post \/ IoStep \/ Stop \/ ReadStep \/ CloseReader

Spec == Init /\ [][Next]_vars

\* The callers return from SendAsync, and both io_contexts keep running the
\* handlers that are ready.
Fairness == WF_vars(Post) /\ WF_vars(IoStep) /\ WF_vars(ReadStep)

FairSpec == Spec /\ Fairness
-----------------------------------------------------------------------------
(* Properties.                                                             *)

\* The pieces of a doWrite chain that can exist: a caller about to post, a
\* posted handler, a write in progress.
ChainCount == Cardinality(posting) + posted + (IF op = "none" THEN 0 ELSE 1)

\* There is one chain of doWrite handlers exactly while writing_ is set, so
\* two async_write calls never overlap on the stream and mix their bytes,
\* whatever threads call SendAsync (src/src/process/IPCChannel.cpp 92-128).
OneWriter == ChainCount = IF writing THEN 1 ELSE 0

\* No envelope is dropped, repeated or overtaken between SendAsync and the
\* socket: what was accepted is what was read, then what the kernel holds,
\* then the frame being written, then the queue.
Conservation == sent = consumed \o wire \o cur \o writeQueue

\* A queued frame is never forgotten by a live channel: while frames wait,
\* some handler is on its way to take them, or a write has failed for good.
NoStrandedFrame == (writeQueue # <<>> \/ cur # <<>>) => writing

\* Until the reader meets a torn or oversized frame, onMessage_ has seen
\* exactly the first envelopes of the accepted sequence.
LosslessPrefix == ~tainted => delivered = consumed

\* The sending end breaks only when one of the two ends is closed.
BrokenOnlyByClose == op \in {"failed", "broken"} => PeerGone

\* What callers of SendAsync, handlers and failures do to the queue, together:
\* one chain that nothing is lost in and nothing left out of.
ChannelInv == /\ OneWriter /\ Conservation /\ NoStrandedFrame
              /\ LosslessPrefix /\ BrokenOnlyByClose

\* Every envelope accepted by SendAsync leaves the queue and is read by the
\* peer, unless one of the two ends is closed.
EventuallyRead ==
    \A n \in 1..MaxSent :
        (Len(sent) >= n) ~> (Len(consumed) >= n \/ PeerGone)

Abstract == INSTANCE OrderedChannel WITH pos <- Len(consumed),
                                         lossless <- ~tainted

\* The queue, the write chain and the read loop implement an ordered channel.
ImplementsOrderedChannel == Abstract!Spec
=============================================================================
