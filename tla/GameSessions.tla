---------------------------- MODULE GameSessions ----------------------------
(***************************************************************************)
(* The sessions of all workers and what the master knows of them: the      *)
(* ConnectionManager of each worker, the channel in each direction, and    *)
(* the master's MasterRouter, GameLogic/LogicCore and PlayerManager.       *)
(*                                                                         *)
(* A channel is the queue OrderedChannel promises.  The io thread of the   *)
(* master handles one envelope at a time, and so does the IPC thread of a  *)
(* worker.  All players are within the interest radius of one another.     *)
(***************************************************************************)
EXTENDS Naturals, Sequences, SequencesExt

CONSTANTS Workers,      \* the worker processes
          Players,      \* the usernames, each standing for its player id
          NoPlayer,     \* player id 0
          Everyone,     \* session id 0: all sessions of a worker
          MaxSessions,  \* bound on the connections to one worker
          Kinds,        \* the kinds of messages the clients send
          MaxSends      \* bound on the messages of all clients

\* workerId << 48 | nextLocalSid_
Sessions == [worker : Workers, local : 1..MaxSessions]
NoSession == [worker |-> NoPlayer, local |-> 0]

ASSUME GameAssumption ==
    /\ NoPlayer \notin Players /\ IsFiniteSet(Players)
    /\ Everyone \notin Sessions
    /\ Kinds \subseteq {"auth", "chat", "move", "leave"}
    /\ MaxSessions \in Nat /\ MaxSends \in Nat

VARIABLES
    nextLocalSid,  \* per worker, nextLocalSid_
    sessions,      \* the sessions in the sessions_ of their worker
    pending,       \* per worker, the size of pendingReplies_
    toMaster, toWorker,   \* per worker, its channel with the master
    players,       \* players_ and usernameToId_ of the PlayerManager
    online,        \* players with IsOnline
    pmPlayer, pmSession,  \* sessionToPlayer_, playerToSession_ of PlayerManager
    playerOf, sessionOf,  \* sessionToPlayerMap_, playerToSessionMap_ of LogicCore
    sends,         \* messages sent so far
    said,          \* history: the chat messages in the order of the master
    asked,         \* history: per session, the logins it asked for
    answers,       \* history: per session, the answers it got
    known,         \* history: per session, the players spawned and not despawned
    chat,          \* history: per session, the chat messages it got
    left           \* history: the sessions whose client said it leaves

worker == <<nextLocalSid, sessions, pending>>
master == <<players, online, pmPlayer, pmSession, playerOf, sessionOf, said>>
client == <<sends, asked, answers, known, chat, left>>
vars == <<worker, master, toMaster, toWorker, client>>

Requests ==
    [from : Sessions, kind : {"auth"}, player : Players, ok : BOOLEAN]
    \cup [from : Sessions, kind : {"chat"}, id : 1..MaxSends]
    \cup [from : Sessions, kind : {"move"}, player : Players]
    \cup [from : Sessions, kind : {"leave"}]

Pushes ==
    [to : Sessions, kind : {"auth"}, player : Players \cup {NoPlayer}]
    \cup [to : Sessions, kind : {"spawn", "despawn", "position"}, player : Players]
    \cup [to : {Everyone}, kind : {"chat"}, id : 1..MaxSends]

TypeOK ==
    /\ nextLocalSid \in [Workers -> 1..(MaxSessions + 1)]
    /\ sessions \subseteq Sessions
    /\ pending \in [Workers -> 0..MaxSends]
    /\ toMaster \in [Workers -> Seq(Requests)]
    /\ toWorker \in [Workers -> Seq(Pushes)]
    /\ players \subseteq Players /\ online \subseteq players
    /\ pmPlayer \in [Sessions -> Players \cup {NoPlayer}]
    /\ playerOf \in [Sessions -> Players \cup {NoPlayer}]
    /\ pmSession \in [Players -> Sessions \cup {NoSession}]
    /\ sessionOf \in [Players -> Sessions \cup {NoSession}]
    /\ sends \in 0..MaxSends
    /\ said \in Seq(1..MaxSends)
    /\ asked \in [Sessions -> Seq(Players)]
    /\ answers \in [Sessions -> Seq(Players \cup {NoPlayer})]
    /\ known \in [Sessions -> SUBSET Players]
    /\ chat \in [Sessions -> Seq(1..MaxSends)]
    /\ left \subseteq Sessions

Init ==
    /\ nextLocalSid = [w \in Workers |-> 1]
    /\ sessions = {}
    /\ pending = [w \in Workers |-> 0]
    /\ toMaster = [w \in Workers |-> <<>>]
    /\ toWorker = [w \in Workers |-> <<>>]
    /\ players = {} /\ online = {}
    /\ pmPlayer = [s \in Sessions |-> NoPlayer]
    /\ playerOf = [s \in Sessions |-> NoPlayer]
    /\ pmSession = [p \in Players |-> NoSession]
    /\ sessionOf = [p \in Players |-> NoSession]
    /\ sends = 0 /\ said = <<>> /\ left = {}
    /\ asked = [s \in Sessions |-> <<>>]
    /\ answers = [s \in Sessions |-> <<>>]
    /\ known = [s \in Sessions |-> {}]
    /\ chat = [s \in Sessions |-> <<>>]
-----------------------------------------------------------------------------
(* The worker's side of a session.                                         *)

\* doAccept and the session factory.
Accept(w) ==
    /\ nextLocalSid[w] <= MaxSessions
    /\ sessions' = sessions \cup {[worker |-> w, local |-> nextLocalSid[w]]}
    /\ nextLocalSid' = [nextLocalSid EXCEPT ![w] = @ + 1]
    /\ UNCHANGED <<pending, toMaster, toWorker, master, client>>

\* onClientClose: the session leaves sessions_, and the master is not told.
onClientClose(s) ==
    /\ s \in sessions
    /\ sessions' = sessions \ {s}
    /\ UNCHANGED <<nextLocalSid, pending, toMaster, toWorker, master, client>>

\* The player a client plays: the one of the last answer it got.
PlayerAt(s) == IF answers[s] = <<>> THEN NoPlayer ELSE Last(answers[s])

\* onClientMessage: the reply is noted and the message goes to the master.
onClientMessage(s, m) ==
    /\ s \in sessions \ left
    /\ sends < MaxSends /\ sends' = sends + 1
    /\ pending' = [pending EXCEPT ![s.worker] = @ + 1]
    /\ toMaster' = [toMaster EXCEPT ![s.worker] = Append(@, m)]
    /\ UNCHANGED <<nextLocalSid, sessions, toWorker, master, answers, known,
                   chat>>

AskAuthentication(s) ==
    /\ "auth" \in Kinds
    /\ \E p \in Players, ok \in BOOLEAN :
         /\ onClientMessage(s, [from |-> s, kind |-> "auth", player |-> p, ok |-> ok])
         /\ asked' = [asked EXCEPT ![s] = Append(@, p)]
    /\ UNCHANGED left

SendChat(s) ==
    /\ "chat" \in Kinds
    /\ onClientMessage(s, [from |-> s, kind |-> "chat", id |-> sends + 1])
    /\ UNCHANGED <<asked, left>>

SendPosition(s) ==
    /\ "move" \in Kinds
    /\ PlayerAt(s) # NoPlayer
    /\ onClientMessage(s, [from |-> s, kind |-> "move", player |-> PlayerAt(s)])
    /\ UNCHANGED <<asked, left>>

SendDisconnect(s) ==
    /\ "leave" \in Kinds
    /\ PlayerAt(s) # NoPlayer
    /\ onClientMessage(s, [from |-> s, kind |-> "leave"])
    /\ left' = left \cup {s}
    /\ UNCHANGED asked
-----------------------------------------------------------------------------
(* The master.                                                             *)

\* PushToWorker and BroadcastToAllWorkers: each push enters the channel of the
\* worker of its session, one for everyone the channel of every worker.
PushAll(out) == toWorker' = [w \in Workers |-> toWorker[w] \o out[w]]

Routed(w, s, pushes) == IF s.worker = w THEN pushes ELSE <<>>

\* One push to the session of each of the players in ps, unless it is s: those
\* that go to worker w.
ToSessions(w, ps, session, s, kind, p) ==
    LET told == SetToSeq({q \in ps : session[q] # s /\ session[q].worker = w})
    IN  [i \in DOMAIN told |->
           [to |-> session[told[i]], kind |-> kind, player |-> p]]

\* Variant: the newcomer is not told of those who are there.
NobodyTold(p, s, ps) == <<>>

\* The players a newcomer is told of: GetAllPlayers.
OthersTold(p, s, ps) ==
    LET others == SetToSeq(ps \ {p})
    IN  [i \in DOMAIN others |-> [to |-> s, kind |-> "spawn", player |-> others[i]]]

\* Variant: a login that fails is not answered.
NoRefusal(s) == <<>>

Answer(s, p) == <<[to |-> s, kind |-> "auth", player |-> p]>>
Refusal(s) == Answer(s, NoPlayer)

\* Variant: the maps of LogicCore are updated, those of PlayerManager are not.
SeatInCore(s, p) ==
    /\ UNCHANGED <<pmPlayer, pmSession>>
    /\ playerOf' = [playerOf EXCEPT ![s] = p]
    /\ sessionOf' = [sessionOf EXCEPT ![p] = s]

\* PlayerConnected and OnPlayerConnected record the session.
Seat(s, p) ==
    /\ pmPlayer' = [pmPlayer EXCEPT ![s] = p]
    /\ pmSession' = [pmSession EXCEPT ![p] = s]
    /\ playerOf' = [playerOf EXCEPT ![s] = p]
    /\ sessionOf' = [sessionOf EXCEPT ![p] = s]

Enter(p) == online' = online \cup {p} /\ players' = players \cup {p}

\* OnAuthentication.  A known player is verified, another one is created unless
\* the database refuses it; the player is connected and announced; the answer
\* comes last.
OnAuthentication(m) ==
    \E saved \in BOOLEAN :
       LET p == m.player  s == m.from
           accepted == IF p \in players THEN m.ok ELSE saved
       IN  IF accepted
           THEN /\ Enter(p)
                /\ Seat(s, p)
                /\ PushAll([w \in Workers |->
                      ToSessions(w, online', pmSession', s, "spawn", p)
                      \o Routed(w, s, OthersTold(p, s, players') \o Answer(s, p))])
                /\ UNCHANGED said
           ELSE /\ PushAll([w \in Workers |-> Routed(w, s, Refusal(s))])
                /\ UNCHANGED master

\* The chat message goes to all workers.
OnChat(m) ==
    /\ said' = Append(said, m.id)
    /\ PushAll([w \in Workers |-> <<[to |-> Everyone, kind |-> "chat", id |-> m.id]>>])
    /\ UNCHANGED <<players, online, pmPlayer, pmSession, playerOf, sessionOf>>

\* OnPlayerPosition tells the sessions in the radius, but the sender.
OnPlayerPosition(m) ==
    /\ PushAll([w \in Workers |->
          IF m.player \notin players THEN <<>>
          ELSE ToSessions(w, online, pmSession, m.from, "position", m.player)])
    /\ UNCHANGED master

\* LogicCore::OnPlayerDisconnected: the player's entry goes, whatever session
\* it names.
Forget(s) ==
    /\ playerOf' = [playerOf EXCEPT ![s] = NoPlayer]
    /\ sessionOf' = [p \in Players |->
                       IF p = playerOf[s] THEN NoSession ELSE sessionOf[p]]

\* OnPlayerDisconnected: PlayerManager is not told.
OnPlayerDisconnected(m) ==
    LET s == m.from  p == playerOf[s]
    IN  /\ PushAll([w \in Workers |->
              IF p \notin players THEN <<>>
              ELSE ToSessions(w, online, pmSession, s, "despawn", p)])
        /\ Forget(s)
        /\ UNCHANGED <<players, online, pmPlayer, pmSession, said>>

\* RouteToGameLogic on the next envelope of a worker.
RouteToGameLogic(w) ==
    /\ toMaster[w] # <<>>
    /\ LET m == Head(toMaster[w])
       IN  \/ m.kind = "auth" /\ OnAuthentication(m)
           \/ m.kind = "chat" /\ OnChat(m)
           \/ m.kind = "move" /\ OnPlayerPosition(m)
           \/ m.kind = "leave" /\ OnPlayerDisconnected(m)
    /\ toMaster' = [toMaster EXCEPT ![w] = Tail(@)]
    /\ UNCHANGED <<worker, client>>
-----------------------------------------------------------------------------
(* What the master pushed, at the worker and at the client.                *)

\* Variant: a push for everyone reaches the sessions of all workers.
ReceiversAnywhere(w, push) ==
    IF push.to = Everyone THEN sessions ELSE {push.to} \cap sessions

\* The sessions a push reaches: all of the worker, or its own if it is there.
Receivers(w, push) ==
    IF push.to = Everyone THEN {s \in sessions : s.worker = w}
                          ELSE {push.to} \cap sessions

\* Variant: the newest push first.
Newest(w) == Len(toWorker[w])

\* The place in the channel of the push to deliver next.
Oldest(w) == 1

\* OnMasterPush: correlation id 0 on every envelope, so OnMasterReply is never
\* called and the entry of pendingReplies_ stays.
OnMasterPush(w) ==
    /\ toWorker[w] # <<>>
    /\ LET push == toWorker[w][Oldest(w)]
           got(s) == s \in Receivers(w, push)
       IN  /\ answers' = [s \in Sessions |->
                IF got(s) /\ push.kind = "auth"
                THEN Append(answers[s], push.player) ELSE answers[s]]
           /\ known' = [s \in Sessions |->
                IF got(s) /\ push.kind = "spawn" THEN known[s] \cup {push.player}
                ELSE IF got(s) /\ push.kind = "despawn" THEN known[s] \ {push.player}
                ELSE known[s]]
           /\ chat' = [s \in Sessions |->
                IF got(s) /\ push.kind = "chat" THEN Append(chat[s], push.id)
                ELSE chat[s]]
    /\ toWorker' = [toWorker EXCEPT ![w] = RemoveAt(@, Oldest(w))]
    /\ UNCHANGED <<worker, master, toMaster, sends, asked, left>>
-----------------------------------------------------------------------------
ClientStep(s) ==
    \/ AskAuthentication(s) \/ SendChat(s) \/ SendPosition(s)
    \/ SendDisconnect(s) \/ onClientClose(s)

Next ==
    \/ \E w \in Workers : Accept(w) \/ RouteToGameLogic(w) \/ OnMasterPush(w)
    \/ \E s \in Sessions : ClientStep(s)

Spec == Init /\ [][Next]_vars

\* Every process runs the io_context of its channel.
Fairness ==
    \A w \in Workers : WF_vars(RouteToGameLogic(w)) /\ WF_vars(OnMasterPush(w))

FairSpec == Spec /\ Fairness
-----------------------------------------------------------------------------
(* Properties.                                                             *)

\* A player whom LogicCore seats at a session is online, and PlayerManager
\* sends its broadcasts to that session; a session that plays for LogicCore
\* plays the same player for PlayerManager.
CoreAgreesWithManager ==
    /\ \A p \in Players : sessionOf[p] # NoSession =>
          p \in online /\ pmSession[p] = sessionOf[p]
    /\ \A s \in Sessions : playerOf[s] # NoPlayer => pmPlayer[s] = playerOf[s]

Quiet == \A w \in Workers : toMaster[w] = <<>> /\ toWorker[w] = <<>>

\* When nothing is under way, two players in the game at different sessions
\* that are open see each other, whatever the order in which they logged in.
MutualVisibility ==
    Quiet => \A p, q \in Players :
        LET s == sessionOf[p]  t == sessionOf[q]
        IN  ({s, t} \subseteq sessions /\ s # t) => q \in known[s] /\ p \in known[t]

\* A session gets answers to its own logins only, and in their order.
AnswersMatch ==
    \A s \in Sessions :
        /\ Len(answers[s]) <= Len(asked[s])
        /\ \A i \in DOMAIN answers[s] : answers[s][i] \in {asked[s][i], NoPlayer}

\* All sessions get the chat in the order of the master, each without a gap
\* from the first message after it was accepted.
ChatInOrder ==
    \A s \in Sessions : chat[s] # <<>> =>
        \E i \in DOMAIN said :
            /\ i + Len(chat[s]) - 1 <= Len(said)
            /\ chat[s] = SubSeq(said, i, i + Len(chat[s]) - 1)

\* What a session receives is what the master has said to it.
Delivered == AnswersMatch /\ ChatInOrder

\* Every login is answered, unless its session is closed.
LoginAnswered ==
    \A s \in Sessions, n \in 1..MaxSends :
        (Len(asked[s]) >= n) ~> (Len(answers[s]) >= n \/ s \notin sessions)
=============================================================================
