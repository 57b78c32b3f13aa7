---------------------------- MODULE MCConnections ----------------------------
(***************************************************************************)
(* The two kinds of client connection, for TLC, with their liveness, and   *)
(* Traffic, what their servers and sessions measure and limit: a behaviour *)
(* runs a WebSocketConnection, a BinarySession or a part of Traffic, the   *)
(* focus, and leaves the others as they start.                             *)
(***************************************************************************)
EXTENDS WebSocketConnection, BinarySession

CONSTANTS PerSecond, Rates, Bursts, MaxTime, max_samples, History, MaxPackets, Latencies, Peers

VARIABLES
    focus,
    now, bucket, passed, packet_history, latency_samples, sends, advice, streams, server

Net == INSTANCE Traffic

ASSUME TrafficAssumption == Net!TrafficConstants

netVars == <<now, bucket, passed, packet_history, latency_samples, sends, advice, streams, server>>
allVars == <<focus, webVars, vars, netVars>>

(* Where the limiter is not the focus it starts in one state.              *)
ConnectionsInit ==
    /\ focus \in {"websocket", "binary", "limiter", "monitor", "server"}
    /\ WebInit /\ Init /\ Net!TrafficInit
    /\ focus # "limiter" => bucket = [rate |-> 1, burst |-> 1, tokens |-> 1, last |-> 0]

TrafficStep ==
    \/ focus = "limiter" /\ Net!LimiterNext
    \/ focus = "monitor" /\ Net!MonitorNext
    \/ focus = "server" /\ Net!ServerNext

ConnectionsNext ==
    /\ UNCHANGED focus
    /\ \/ focus = "websocket" /\ WebNext /\ UNCHANGED <<vars, netVars>>
       \/ focus = "binary" /\ Next /\ UNCHANGED <<webVars, netVars>>
       \/ TrafficStep /\ UNCHANGED <<vars, webVars>>

(* The fairness of each module, for the behaviours that run it.            *)
Web(A) == focus = "websocket" /\ A /\ UNCHANGED <<focus, vars, netVars>>
Bin(A) == focus = "binary" /\ A /\ UNCHANGED <<focus, webVars, netVars>>

ConnectionsSpec ==
    /\ ConnectionsInit /\ [][ConnectionsNext]_allVars
    /\ \A t \in WebThreads : WF_allVars(Web(WebHandler(t)))
    /\ WF_allVars(Web(\E t \in SocketThreads : ReadDone(t) \/ ReadFails(t)))
    /\ WF_allVars(Web(\E t \in SocketThreads : WriteDone(t) \/ WriteFails(t)))
    /\ WF_allVars(Web(WriteSome))
    /\ \A t \in Threads : WF_allVars(Bin(Step(t)))
    /\ WF_allVars(Bin(\E t \in IoThreads : WriteHandler(t)))
    /\ WF_allVars(Bin(\E t \in IoThreads : HeartbeatHandler(t)))
    /\ WF_allVars(Bin(FinishWrite))
    /\ WF_allVars(Bin(HeartbeatExpires))

(* Stated in its module: the rate limit holds over every span of time, a   *)
(* packet counts once in the latency however it is acknowledged, and the   *)
(* list of connections holds each open one once and no closed one for good.*)
TrafficInv == focus \in {"limiter", "monitor", "server"} => Net!TrafficInv
=============================================================================
