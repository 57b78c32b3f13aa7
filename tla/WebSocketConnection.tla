--------------------------- MODULE WebSocketConnection ---------------------------
(***************************************************************************)
(* One WebSocket client of a worker (src/src/network/WebSocketProtocol.cpp *)
(* and WebSocketSession.cpp): the handshake, the read loop with its        *)
(* fragmented messages and control frames, the writes and the close.       *)
(*                                                                         *)
(* The io threads run the handlers of the connection without a strand, and *)
(* the thread of the IPC channel sends what the master pushes.  SendFrame  *)
(* starts an async_write whatever is under way: the operations of a socket *)
(* queue up, each takes what the socket's buffer has room for, and one     *)
(* that is not done goes to the end of the queue.                          *)
(*                                                                         *)
(* Not modelled: the shutdown of the worker, the negotiation of the        *)
(* payload format, empty messages.                                         *)
(***************************************************************************)
EXTENDS Naturals, Sequences, FiniteSets

CONSTANTS SocketThreads, \* threads that run the worker's ioContext_
          PushThread,    \* the thread that delivers the master's pushes
          MaxMessages,   \* bounds on the messages, fragments and pings of the
          MaxFragments,  \* client, on the master's pushes and on the pieces in
          MaxPings,      \* which the socket takes one of them
          MaxPushes,
          MaxPieces

ASSUME ConnectionAssumption ==
    /\ IsFiniteSet(SocketThreads) /\ PushThread \notin SocketThreads
    /\ MaxMessages \in Nat /\ MaxFragments \in Nat \ {0} /\ MaxPings \in Nat
    /\ MaxPushes \in Nat /\ MaxPieces \in Nat \ {0}

VARIABLES
    state,       \* state_
    isOpen,      \* socket_.is_open()
    tasks,       \* per thread, the steps left in the handler it runs
    awaited,     \* the async_read in progress
    frame,       \* what the last read brought
    current,     \* current_message_: the fragments so far
    handled,     \* history: the messages given to OnMessage
    writes,      \* the async_writes in progress
    wire,        \* history: the pieces of frames the client received
    inSessions,  \* the session is in the manager's sessions_
    inbox,       \* what the client sent and the server has not read
    left,        \* the client's end is closed
    meant,       \* history: fragments of each message the client completed
    fragments,   \* fragments of the message the client is sending
    pings, pushCount

client == <<left, meant, fragments, pings>>
webVars == <<state, isOpen, tasks, awaited, frame, current, handled, writes, wire,
             inSessions, inbox, client, pushCount>>

WebThreads == SocketThreads \cup {PushThread}
WebSteps == {"handshake", "opened", "read", "header", "frame", "deliver", "error",
             "close", "shut", "closeSocket", "notify", "send"}
In == [op : {"request", "first", "rest", "ping", "close"},
       fin : BOOLEAN, n : Nat]
Out == [op : {"response", "pong", "close", "push"}, n : Nat]

WebTypeOK ==
    /\ state \in {"HANDSHAKE", "OPEN", "CLOSING", "CLOSED"}
    /\ isOpen \in BOOLEAN /\ inSessions \in BOOLEAN /\ left \in BOOLEAN
    /\ tasks \in [WebThreads -> Seq(WebSteps)]
    /\ awaited \in {"none", "handshake", "header", "payload"}
    /\ frame \in In /\ inbox \in Seq(In)
    /\ current \in Seq(Nat) /\ handled \in Seq(Seq(Nat))
    /\ writes \in Seq(Out \X (1..MaxPieces)) /\ wire \in Seq(Out)
    /\ meant \in Seq(1..MaxFragments) /\ fragments \in 0..MaxFragments
    /\ pings \in 0..MaxPings /\ pushCount \in 0..MaxPushes
    /\ ~isOpen => awaited = "none" /\ writes = <<>>

\* The accept handler has registered the session and called Start.
WebInit ==
    /\ state = "HANDSHAKE" /\ isOpen = TRUE /\ inSessions = TRUE
    /\ tasks = [t \in WebThreads |-> <<>>]
    /\ awaited = "handshake"
    /\ frame = [op |-> "request", fin |-> TRUE, n |-> 0]
    /\ current = <<>> /\ handled = <<>>
    /\ writes = <<>> /\ wire = <<>>
    /\ inbox = <<[op |-> "request", fin |-> TRUE, n |-> 0]>>
    /\ left = FALSE /\ meant = <<>> /\ fragments = 0
    /\ pings = 0 /\ pushCount = 0
-----------------------------------------------------------------------------
Doing(t, step) == tasks[t] # <<>> /\ Head(tasks[t]) = step

\* The current step is replaced by the steps in s, or a handler starts.
Proceed(t, s) == tasks' = [tasks EXCEPT ![t] = s \o Tail(@)]
Enter(t, s) == tasks[t] = <<>> /\ tasks' = [tasks EXCEPT ![t] = s]

\* SendFrame.  On a closed socket the write fails and changes nothing.
SendFrame(f, size) ==
    writes' = IF isOpen THEN Append(writes, <<f, size>>) ELSE writes

Reply(op) == SendFrame([op |-> op, n |-> frame.n], 1)
-----------------------------------------------------------------------------
(* The handshake.                                                          *)

\* The handler of ReadHandshake.  Parse takes any text up to the empty line and
\* nothing checks what it found, so every request is answered with the upgrade.
Handshake(t) ==
    /\ Doing(t, "handshake")
    /\ Reply("response") /\ Proceed(t, <<>>)
    /\ UNCHANGED <<state, isOpen, awaited, frame, current, handled, wire,
                   inSessions, inbox, client, pushCount>>

\* The handler of WriteHandshakeResponse.
Opened(t) ==
    /\ Doing(t, "opened")
    /\ state' = "OPEN"
    /\ Proceed(t, <<"read">>)
    /\ UNCHANGED <<isOpen, awaited, frame, current, handled, writes, wire,
                   inSessions, inbox, client, pushCount>>
-----------------------------------------------------------------------------
(* The read loop.                                                          *)

\* ReadFrame, also as ReadFramePayload calls it after a frame.
ReadFrame(t) ==
    /\ Doing(t, "read")
    /\ awaited' = IF state \in {"OPEN", "CLOSING"} /\ isOpen
                  THEN "header" ELSE awaited
    /\ Proceed(t, <<>>)
    /\ UNCHANGED <<state, isOpen, frame, current, handled, writes, wire,
                   inSessions, inbox, client, pushCount>>

\* A read completes and its handler starts.
ReadDone(t) ==
    /\ awaited # "none" /\ inbox # <<>>
    /\ Enter(t, IF awaited = "payload" THEN <<"frame">> ELSE <<awaited>>)
    /\ IF awaited = "header" THEN UNCHANGED <<frame, inbox>>
       ELSE frame' = Head(inbox) /\ inbox' = Tail(inbox)
    /\ awaited' = "none"
    /\ UNCHANGED <<state, isOpen, current, handled, writes, wire, inSessions,
                   client, pushCount>>

\* The client's end is closed and all it sent has been read.
ReadFails(t) ==
    /\ awaited # "none" /\ inbox = <<>> /\ left
    /\ Enter(t, <<"error">>)
    /\ awaited' = "none"
    /\ UNCHANGED <<state, isOpen, frame, current, handled, writes, wire,
                   inSessions, inbox, client, pushCount>>

\* The handler of the first read of a frame.
Header(t) ==
    /\ Doing(t, "header")
    /\ awaited' = IF state \in {"CLOSING", "CLOSED"} THEN awaited ELSE "payload"
    /\ Proceed(t, <<>>)
    /\ UNCHANGED <<state, isOpen, frame, current, handled, writes, wire,
                   inSessions, inbox, client, pushCount>>

\* Variant: the loop ends with a control frame.
ReadAfterData == IF frame.op \in {"first", "rest"} THEN <<"read">> ELSE <<>>

ReadAgain == <<"read">>

\* HandleFrame for a control frame.
HandleControl(t) ==
    /\ Doing(t, "frame")
    /\ \/ /\ frame.op = "ping"
          /\ Reply("pong")
          /\ Proceed(t, ReadAgain)
       \/ /\ frame.op = "close"
          /\ IF state = "OPEN" THEN Reply("close") ELSE UNCHANGED writes
          /\ Proceed(t, <<"close">> \o ReadAgain)
    /\ UNCHANGED <<state, isOpen, awaited, frame, current, handled, wire,
                   inSessions, inbox, client, pushCount>>

\* Variant: a continuation does not add to the fragments before it.
Replace(message) == <<frame.n>>

Extend(message) == Append(message, frame.n)

\* HandleFrame and ProcessMessageData: both complete the message of a final
\* frame.
HandleData(t) ==
    /\ Doing(t, "frame")
    /\ frame.op \in {"first", "rest"}
    /\ current' = Extend(IF frame.op = "first" THEN <<>> ELSE current)
    /\ Proceed(t, (IF frame.fin THEN <<"deliver", "deliver">> ELSE <<>>) \o ReadAgain)
    /\ UNCHANGED <<state, isOpen, awaited, frame, handled, writes, wire,
                   inSessions, inbox, client, pushCount>>

NoMessage(message) == <<>>

\* CompleteCurrentMessage: OnMessage ignores the empty message of the second
\* call.
CompleteCurrentMessage(t) ==
    /\ Doing(t, "deliver")
    /\ handled' = IF current = <<>> THEN handled ELSE Append(handled, current)
    /\ current' = NoMessage(current)
    /\ Proceed(t, <<>>)
    /\ UNCHANGED <<state, isOpen, awaited, frame, writes, wire, inSessions,
                   inbox, client, pushCount>>
-----------------------------------------------------------------------------
(* Errors and the close.                                                   *)

\* Variant: an error of an open connection is only logged.
ClosesOnError == state = "HANDSHAKE"

Closes == state = "OPEN"

HandleError(t) ==
    /\ Doing(t, "error")
    /\ Proceed(t, IF Closes THEN <<"close">> ELSE <<>>)
    /\ UNCHANGED <<state, isOpen, awaited, frame, current, handled, writes, wire,
                   inSessions, inbox, client, pushCount>>

\* Variant: the handler is told before the socket is closed.
NotifyFirst == <<"shut", "notify", "closeSocket">>

CloseSteps == <<"shut", "closeSocket", "notify">>

\* Close: the test of state_ and its assignment are not one step.
Close(t) ==
    /\ \/ /\ Doing(t, "close")
          /\ Proceed(t, IF state \in {"CLOSING", "CLOSED"} THEN <<>> ELSE CloseSteps)
          /\ UNCHANGED state
       \/ Doing(t, "shut") /\ state' = "CLOSING" /\ Proceed(t, <<>>)
    /\ UNCHANGED <<isOpen, awaited, frame, current, handled, writes, wire,
                   inSessions, inbox, client, pushCount>>

Cancelled(op) == "none"

\* socket_.close() ends the operations in progress; their handlers find the
\* connection closed and return.
CloseSocket(t) ==
    /\ Doing(t, "closeSocket")
    /\ isOpen' = FALSE /\ state' = "CLOSED"
    /\ awaited' = Cancelled(awaited) /\ writes' = <<>>
    /\ Proceed(t, <<>>)
    /\ UNCHANGED <<frame, current, handled, wire, inSessions, inbox, client,
                   pushCount>>

\* close_handler_: WebSocketSession::OnClose and onClientClose.
Notify(t) ==
    /\ Doing(t, "notify")
    /\ inSessions' = FALSE
    /\ Proceed(t, <<>>)
    /\ UNCHANGED <<state, isOpen, awaited, frame, current, handled, writes, wire,
                   inbox, client, pushCount>>
-----------------------------------------------------------------------------
(* Writes.                                                                 *)

\* The master pushes something: OnMasterPush finds the session.
PushMessage ==
    /\ pushCount < MaxPushes /\ inSessions
    /\ pushCount' = pushCount + 1
    /\ Enter(PushThread, <<"send">>)
    /\ UNCHANGED <<state, isOpen, awaited, frame, current, handled, writes, wire,
                   inSessions, inbox, client>>

\* SendJson or SendBinary.
SendPush(t) ==
    /\ Doing(t, "send")
    /\ \E size \in 1..MaxPieces : SendFrame([op |-> "push", n |-> pushCount], size)
    /\ Proceed(t, <<>>)
    /\ UNCHANGED <<state, isOpen, awaited, frame, current, handled, wire,
                   inSessions, inbox, client, pushCount>>

Written == Head(writes)[1]

\* The socket takes a piece of the first operation.
WriteSome ==
    /\ writes # <<>> /\ ~left
    /\ Head(writes)[2] > 1
    /\ wire' = Append(wire, Written)
    /\ writes' = Append(Tail(writes), <<Written, Head(writes)[2] - 1>>)
    /\ UNCHANGED <<state, isOpen, tasks, awaited, frame, current, handled,
                   inSessions, inbox, client, pushCount>>

\* The last piece: the handler of the response opens the connection, that of
\* another frame only counts.
WriteDone(t) ==
    /\ writes # <<>> /\ ~left
    /\ Head(writes)[2] = 1
    /\ wire' = Append(wire, Written)
    /\ writes' = Tail(writes)
    /\ IF Written.op = "response" THEN Enter(t, <<"opened">>) ELSE UNCHANGED tasks
    /\ UNCHANGED <<state, isOpen, awaited, frame, current, handled, inSessions,
                   inbox, client, pushCount>>

WriteFails(t) ==
    /\ writes # <<>> /\ left
    /\ writes' = Tail(writes)
    /\ Enter(t, <<"error">>)
    /\ UNCHANGED <<state, isOpen, awaited, frame, current, handled, wire,
                   inSessions, inbox, client, pushCount>>
-----------------------------------------------------------------------------
(* The client, which keeps to the protocol once it has the response.       *)

Upgraded == \E i \in DOMAIN wire : wire[i].op = "response"
Sends(op, fin, n) ==
    /\ Upgraded /\ isOpen /\ ~left
    /\ \A i \in DOMAIN inbox : inbox[i].op # "close"
    /\ inbox' = Append(inbox, [op |-> op, fin |-> fin, n |-> n])

ClientData ==
    /\ Len(meant) < MaxMessages
    /\ \E fin \in BOOLEAN :
          /\ fin \/ fragments + 1 < MaxFragments
          /\ Sends(IF fragments = 0 THEN "first" ELSE "rest", fin, Len(meant) + 1)
          /\ meant' = IF fin THEN Append(meant, fragments + 1) ELSE meant
          /\ fragments' = IF fin THEN 0 ELSE fragments + 1
    /\ UNCHANGED <<state, isOpen, tasks, awaited, frame, current, handled, writes,
                   wire, inSessions, left, pings, pushCount>>

ClientControl ==
    /\ \/ pings < MaxPings /\ pings' = pings + 1 /\ Sends("ping", TRUE, pings')
       \/ Sends("close", TRUE, 0) /\ UNCHANGED pings
    /\ UNCHANGED <<state, isOpen, tasks, awaited, frame, current, handled, writes,
                   wire, inSessions, left, meant, fragments, pushCount>>

ClientLeaves ==
    /\ ~left /\ left' = TRUE
    /\ UNCHANGED <<state, isOpen, tasks, awaited, frame, current, handled, writes,
                   wire, inSessions, inbox, meant, fragments, pings, pushCount>>
-----------------------------------------------------------------------------
WebHandler(t) ==
    \/ Handshake(t) \/ Opened(t) \/ ReadFrame(t) \/ Header(t)
    \/ HandleControl(t) \/ HandleData(t) \/ CompleteCurrentMessage(t)
    \/ HandleError(t) \/ Close(t) \/ CloseSocket(t) \/ Notify(t) \/ SendPush(t)

Completion ==
    \E t \in SocketThreads : ReadDone(t) \/ ReadFails(t) \/ WriteDone(t) \/ WriteFails(t)

WebNext ==
    \/ \E t \in WebThreads : WebHandler(t)
    \/ Completion \/ WriteSome \/ PushMessage
    \/ ClientData \/ ClientControl \/ ClientLeaves

WebSpec == WebInit /\ [][WebNext]_webVars

\* A handler runs on to its end, and asio starts the handlers of what is done.
FairWeb ==
    /\ WebSpec
    /\ \A t \in WebThreads : WF_webVars(WebHandler(t))
    /\ WF_webVars(\E t \in SocketThreads : ReadDone(t) \/ ReadFails(t))
    /\ WF_webVars(\E t \in SocketThreads : WriteDone(t) \/ WriteFails(t))
    /\ WF_webVars(WriteSome)
-----------------------------------------------------------------------------
(* Properties.                                                             *)

\* OnMessage gets the client's messages, each whole, once and in order,
\* although control frames come between fragments, every message is completed
\* twice and consecutive frames are handled by different threads.
MessagesInOrder ==
    /\ Len(handled) <= Len(meant)
    /\ \A i \in DOMAIN handled : handled[i] = [j \in 1..meant[i] |-> i]

\* A session leaves sessions_ only when its socket is closed: whatever two
\* threads that close do, no client is cut off from the master's pushes while
\* it is connected.
RemovedOnlyClosed == ~inSessions => ~isOpen

\* Both, and a closed socket has no operation left.
ConnectionInv == WebTypeOK /\ MessagesInOrder /\ RemovedOnlyClosed

\* A client that leaves an open connection is noticed and removed.
DisconnectNoticed == (left /\ state = "OPEN") ~> ~inSessions

\* Every message of the client is handled, unless the connection ends.
MessagesHandled ==
    \A k \in 1..MaxMessages :
        (Len(meant) >= k) ~> (Len(handled) >= k \/ left \/ ~isOpen)
=============================================================================
