-------------------------------- MODULE Traffic --------------------------------
(***************************************************************************)
(* WebSocketRateLimiter, NetworkQualityMonitor and the look a session      *)
(* takes at it, CompressionContext and the connections of WebSocketServer. *)
(*                                                                         *)
(* Time is counted in ticks of PerSecond to the second.  Byte counts, the  *)
(* bandwidth, the jitter and the rounding of the percentages are left out. *)
(* Each handler holds its mutex from start to end, but for Stop, whose     *)
(* connections call back, and the look of a session, which takes the mutex *)
(* of the monitor anew for each answer.                                    *)
(***************************************************************************)
EXTENDS Integers, SequencesExt, FiniteSetsExt

CONSTANTS
    PerSecond,           \* ticks in a second: 1000 in the program
    Rates, Bursts,       \* values given to SetLimit
    MaxTime,             \* bound on the clock
    max_samples, History, \* History is 60 seconds, in ticks
    MaxPackets,          \* bound on the packets and samples
    Latencies,
    Peers                \* connections the server may accept

TrafficConstants ==
    /\ PerSecond \in Nat \ {0} /\ Rates \subseteq Nat /\ Bursts \subseteq Nat
    /\ max_samples \in Nat /\ History \in Nat /\ Latencies \subseteq Nat

VARIABLES
    now,
    bucket,      \* messages_per_second_, burst_size_, tokens_, last_refill_
    passed,      \* history: the times of what was allowed since SetLimit
    packet_history, latency_samples,
    sends,       \* the packets recorded; a record's n tells them apart
    advice,      \* where the session's look at the line is, and what it was told
    streams,     \* deflate_context_, inflate_context_, initialized_
    server       \* running_, the acceptor, connections_ and its lock; history: the
                 \* accepted, the closed, and those whose close handler waits

trafficVars == <<now, bucket, passed, packet_history, latency_samples, sends, advice, streams, server>>

limiterVars == <<bucket, passed>>
monitorVars == <<packet_history, latency_samples, sends, advice>>

Tick ==
    /\ now < MaxTime /\ now' = now + 1
    /\ UNCHANGED <<limiterVars, monitorVars, streams, server>>

-----------------------------------------------------------------------------
(* The rate limiter.                                                       *)

(* The tokens since last_refill_; a fraction of one is lost.               *)
Refill(b) ==
    LET refill == ((now - b.last) * b.rate) \div PerSecond
    IN IF refill > 0
       THEN [b EXCEPT !.tokens = Min({b.burst, b.tokens + refill}), !.last = now]
       ELSE b

CheckLimit ==
    LET b == Refill(bucket)
    IN /\ IF b.tokens > 0
          THEN bucket' = [b EXCEPT !.tokens = @ - 1] /\ passed' = Append(passed, now)
          ELSE bucket' = b /\ UNCHANGED passed
       /\ UNCHANGED <<now, monitorVars, streams, server>>

(* WebSocketRateLimiter::Update.                                           *)
Refilled ==
    /\ bucket' = Refill(bucket)
    /\ UNCHANGED <<now, passed, monitorVars, streams, server>>

SetLimit(rate, burst) ==
    /\ bucket' = [rate |-> rate, burst |-> burst, tokens |-> burst, last |-> now]
    /\ passed' = <<>>
    /\ UNCHANGED <<now, monitorVars, streams, server>>

-----------------------------------------------------------------------------
(* The monitor.                                                            *)

Latest(s) == IF Len(s) > max_samples THEN Tail(s) ELSE s

(* Two threads in SendWithAck may take the same number.                    *)
RecordPacketSent(id) ==
    /\ sends < MaxPackets /\ id \in {sends, sends + 1}
    /\ packet_history' = Latest(Append(packet_history,
                               [id |-> id, sent |-> now, acked |-> FALSE, n |-> sends + 1]))
    /\ sends' = sends + 1
    /\ UNCHANGED <<now, limiterVars, latency_samples, advice, streams, server>>

(* The first record of the packet that no acknowledgment came for yet.     *)
Unacked(id) == {i \in DOMAIN packet_history : packet_history[i].id = id /\ ~packet_history[i].acked}

(* A variant that takes a repeated acknowledgment for a new one.           *)
RecordRepeated(id, rtt) ==
    LET known == {i \in DOMAIN packet_history : packet_history[i].id = id}
    IN /\ IF known = {} THEN UNCHANGED <<packet_history, latency_samples>>
          ELSE /\ packet_history' = [packet_history EXCEPT ![Min(known)].acked = TRUE]
               /\ latency_samples' = Latest(Append(latency_samples,
                                           [rtt |-> rtt, n |-> packet_history[Min(known)].n]))
       /\ UNCHANGED <<now, limiterVars, sends, advice, streams, server>>
RecordAcknowledgment(id, rtt) ==
    LET known == Unacked(id)
    IN /\ IF known = {} THEN UNCHANGED <<packet_history, latency_samples>>
          ELSE /\ packet_history' = [packet_history EXCEPT ![Min(known)].acked = TRUE]
               /\ latency_samples' = Latest(Append(latency_samples,
                                           [rtt |-> rtt, n |-> packet_history[Min(known)].n]))
       /\ UNCHANGED <<now, limiterVars, sends, advice, streams, server>>

(* What is on its way, or never acknowledged, counts as lost; more, or     *)
(* less, than so many percent of what was sent.                            *)
Lost == Cardinality({i \in DOMAIN packet_history : ~packet_history[i].acked})
LossAbove(percent) == 100 * Lost > percent * Len(packet_history)
LossBelow(percent) == packet_history = <<>> \/ 100 * Lost < percent * Len(packet_history)

LatencySum[i \in 0..Len(latency_samples)] ==
    IF i = 0 THEN 0 ELSE LatencySum[i - 1] + latency_samples[i].rtt
AverageLatency ==
    IF latency_samples = <<>> THEN 0
    ELSE LatencySum[Len(latency_samples)] \div Len(latency_samples)

CalculateOptimalUpdateRate ==
    IF LossAbove(10) THEN 10
    ELSE IF AverageLatency > 200 THEN 15 ELSE IF AverageLatency > 100 THEN 20 ELSE 30
CalculateOptimalMTU ==
    IF LossAbove(5) THEN 512 ELSE IF AverageLatency > 150 THEN 1024 ELSE 1500
ShouldEnableRedundancy == LossAbove(2)
Within(latency, percent) == AverageLatency < latency /\ LossBelow(percent)
GetConnectionQuality ==
    IF Within(50, 1) THEN "EXCELLENT" ELSE IF Within(100, 3) THEN "GOOD"
    ELSE IF Within(200, 5) THEN "FAIR" ELSE IF Within(500, 10) THEN "POOR" ELSE "UNSTABLE"

(* The records in front that are older than a minute go.                   *)
CleanupOldRecords ==
    LET recent == {i \in DOMAIN packet_history : packet_history[i].sent >= now - History}
    IN IF recent = {} THEN <<>> ELSE SubSeq(packet_history, Min(recent), Len(packet_history))

(* The session looks every ten seconds: it brings the monitor up to date,  *)
(* asks for the quality, then whether to compress (with little sent it     *)
(* does whatever the loss).  Packets and acknowledgments come in between.  *)
Update ==
    /\ advice.at = "idle" /\ packet_history' = CleanupOldRecords
    /\ advice' = [advice EXCEPT !.at = "updated"]
    /\ UNCHANGED <<now, limiterVars, latency_samples, sends, streams, server>>
AskQuality ==
    /\ advice.at = "updated"
    /\ advice' = [advice EXCEPT !.at = "asked", !.quality = GetConnectionQuality]
    /\ UNCHANGED <<now, limiterVars, packet_history, latency_samples, sends, streams, server>>
AskCompression ==
    /\ advice.at = "asked"
    /\ \E low \in BOOLEAN :
         advice' = [advice EXCEPT !.at = "idle", !.compression = low \/ LossAbove(5)]
    /\ UNCHANGED <<now, limiterVars, packet_history, latency_samples, sends, streams, server>>

RecordLatencySample(rtt) ==
    /\ sends < MaxPackets
    /\ latency_samples' = Latest(Append(latency_samples, [rtt |-> rtt, n |-> 0]))
    /\ sends' = sends + 1
    /\ UNCHANGED <<now, limiterVars, packet_history, advice, streams, server>>

Reset ==
    /\ packet_history' = <<>> /\ latency_samples' = <<>>
    /\ UNCHANGED <<now, limiterVars, sends, advice, streams, server>>

-----------------------------------------------------------------------------
(* The compression streams.                                                *)

NoStreams == [deflate |-> FALSE, inflate |-> FALSE, initialized |-> FALSE]

(* A failure on the way gives back what was taken before.                  *)
Initialize ==
    /\ streams' \in {NoStreams, [deflate |-> TRUE, inflate |-> TRUE, initialized |-> TRUE]}
    /\ UNCHANGED <<now, limiterVars, monitorVars, server>>
Cleanup ==
    /\ streams' = NoStreams
    /\ UNCHANGED <<now, limiterVars, monitorVars, server>>

-----------------------------------------------------------------------------
(* The server's list of connections.                                       *)

NoServer == [running |-> FALSE, acceptor |-> TRUE, accepting |-> FALSE, connections |-> <<>>,
             accepted |-> {}, closed |-> {}, closing |-> {}, lock |-> "free"]

(* After a Stop the acceptor stays closed and every accept fails.          *)
StartServer ==
    /\ ~server.running
    /\ server' = [server EXCEPT !.running = TRUE, !.accepting = @ \/ server.acceptor]
    /\ UNCHANGED <<now, limiterVars, monitorVars, streams>>

(* The accept may have completed before Stop closed the acceptor.          *)
DoAccept(c) ==
    /\ server.accepting /\ server.lock = "free" /\ c \notin server.accepted
    /\ server' = [server EXCEPT !.connections = Append(@, c), !.accepted = @ \cup {c},
                                !.accepting = server.running]
    /\ UNCHANGED <<now, limiterVars, monitorVars, streams>>
AcceptAborted ==
    /\ server.accepting /\ ~server.running
    /\ server' = [server EXCEPT !.accepting = FALSE]
    /\ UNCHANGED <<now, limiterVars, monitorVars, streams>>

(* Close takes a connection out of the state OPEN without the lock of the  *)
(* list.  The list keeps it until the close handler, which comes last, has *)
(* the lock: GetConnectionCount counts it and the broadcasts step over it. *)
CloseConnection(c) ==
    /\ c \in ToSet(server.connections) \ server.closed
    /\ server' = [server EXCEPT !.closed = @ \cup {c}, !.closing = @ \cup {c}]
    /\ UNCHANGED <<now, limiterVars, monitorVars, streams>>

(* The list may have been cleared while the handler waited.                *)
RemoveConnection(c) ==
    LET found == {i \in DOMAIN server.connections : server.connections[i] = c}
    IN /\ server.lock = "free" /\ c \in server.closing
       /\ server' = [server EXCEPT
            !.closing = @ \ {c},
            !.connections = IF found = {} THEN @ ELSE RemoveAt(@, Min(found))]
       /\ UNCHANGED <<now, limiterVars, monitorVars, streams>>

(* Stop closes the first connection that is still open with                *)
(* connections_mutex_ held, and the close handler waits for it; where none *)
(* is open it clears the list.                                             *)
Stop ==
    LET open == {i \in DOMAIN server.connections : server.connections[i] \notin server.closed}
    IN /\ server.running /\ server.lock = "free"
       /\ server' = IF open = {}
                    THEN [server EXCEPT !.running = FALSE, !.acceptor = FALSE, !.connections = <<>>]
                    ELSE [server EXCEPT
                            !.running = FALSE, !.acceptor = FALSE, !.lock = "stop",
                            !.closed = @ \cup {server.connections[Min(open)]},
                            !.closing = @ \cup {server.connections[Min(open)]}]
       /\ UNCHANGED <<now, limiterVars, monitorVars, streams>>

-----------------------------------------------------------------------------
NoAdvice == [at |-> "idle", quality |-> "EXCELLENT", compression |-> FALSE]

TrafficInit ==
    /\ now = 0 /\ passed = <<>>
    /\ \E r \in Rates, b \in Bursts : bucket = [rate |-> r, burst |-> b, tokens |-> b, last |-> 0]
    /\ packet_history = <<>> /\ latency_samples = <<>> /\ sends = 0 /\ advice = NoAdvice
    /\ streams = NoStreams /\ server = NoServer

LimiterNext ==
    \/ Tick \/ CheckLimit \/ Refilled
    \/ \E r \in Rates, b \in Bursts : SetLimit(r, b)
MonitorNext ==
    \/ Tick \/ Update \/ AskQuality \/ AskCompression \/ Reset
    \/ \E id \in 0..MaxPackets : RecordPacketSent(id)
    \/ \E rtt \in Latencies : \/ RecordLatencySample(rtt)
                             \/ \E id \in 0..MaxPackets : RecordAcknowledgment(id, rtt)
ServerNext ==
    \/ Initialize \/ Cleanup \/ StartServer \/ Stop \/ AcceptAborted
    \/ \E c \in Peers : DoAccept(c) \/ CloseConnection(c) \/ RemoveConnection(c)

-----------------------------------------------------------------------------
(* Whatever window one looks at, the limiter let through a burst and what  *)
(* the rate gives for the time, and no more.                               *)
RateKept ==
    \A i, j \in DOMAIN passed :
        i <= j => j - i + 1 <= bucket.burst + ((passed[j] - passed[i]) * bucket.rate) \div PerSecond + 1

(* A packet gives one latency, however often it is acknowledged and        *)
(* whatever numbers it shares, and the answers of the monitor agree on a   *)
(* line that is excellent, or that is nothing to warn of.                  *)
SamplesHonest ==
    /\ \A i, j \in DOMAIN latency_samples :
         i # j /\ latency_samples[i].n # 0 => latency_samples[i].n # latency_samples[j].n
    /\ GetConnectionQuality = "EXCELLENT" =>
         CalculateOptimalUpdateRate = 30 /\ CalculateOptimalMTU = 1500 /\ ~ShouldEnableRedundancy
    /\ CalculateOptimalUpdateRate = 10 => GetConnectionQuality = "UNSTABLE"

(* Whatever closes and stops meanwhile, the list holds no connection twice *)
(* and every open one, so a broadcast reaches each of them once; and a     *)
(* closed one that is still counted is on its way off.                     *)
ListHonest ==
    LET listed == ToSet(server.connections)
    IN /\ IsInjective(server.connections)
       /\ server.accepted \ server.closed \subseteq listed
       /\ listed \cap server.closed \subseteq server.closing

TrafficInv == RateKept /\ SamplesHonest /\ ListHonest
=============================================================================
