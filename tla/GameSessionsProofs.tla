-------------------------- MODULE GameSessionsProofs --------------------------
(***************************************************************************)
(* For any number of workers, sessions, players and messages:              *)
(*   - the session maps of LogicCore and of PlayerManager agree;           *)
(*   - when nothing is under way, players see each other;                  *)
(*   - a session gets the answers to its logins and the chat in order.     *)
(*                                                                         *)
(* The steps are first brought to a common form: Sent, Handled, Received.  *)
(***************************************************************************)
EXTENDS GameSessions, FiniteSetTheorems, SequenceTheorems, TLAPS
-----------------------------------------------------------------------------
(* Enumerations.                                                           *)

\* SetToSeq lists the elements of a finite set.
LEMMA SetToSeqLists ==
    ASSUME NEW S, IsFiniteSet(S)
    PROVE  /\ Cardinality(S) \in Nat
           /\ SetToSeq(S) \in [1..Cardinality(S) -> S]
           /\ \A x \in S : \E i \in 1..Cardinality(S) : SetToSeq(S)[i] = x
<1>. DEFINE n == Cardinality(S)
<1>1. n \in Nat /\ ExistsBijection(1..n, S)
  BY FS_CardinalityType
<1>2. PICK f : f \in Bijection(1..n, S)
  BY <1>1 DEF ExistsBijection
<1>3. f \in [1..n -> S] /\ IsInjective(f)
  BY <1>2 DEF Bijection, Injection
<1>4. SetToSeq(S) \in [1..n -> S] /\ IsInjective(SetToSeq(S))
  BY <1>3 DEF SetToSeq
<1>5. SetToSeq(S) \in Injection(1..n, S)
  BY <1>4 DEF Injection
<1>6. IsFiniteSet(1..n) /\ Cardinality(1..n) = n
  BY <1>1, FS_Interval
<1>7. SetToSeq(S) \in Surjection(1..n, S)
  BY <1>5, <1>6, FS_Injection
<1>. QED
  BY <1>1, <1>4, <1>7 DEF Surjection

\* e enumerates, in increasing order, the n elements of S.
Enumerates(e, n, S) ==
    /\ e \in [1..n -> Nat]
    /\ \A i \in 1..n : e[i] \in S
    /\ \A i, j \in 1..n : i < j => e[i] < e[j]
    /\ \A x \in S : \E i \in 1..n : e[i] = x

\* A place after all others is the last one.
LEMMA EnumerateMore ==
    ASSUME NEW S \in SUBSET Nat, NEW n \in Nat, NEW e, Enumerates(e, n, S),
           NEW x \in Nat, \A y \in S : y < x
    PROVE  Enumerates([i \in 1..n + 1 |-> IF i = n + 1 THEN x ELSE e[i]], n + 1, S \cup {x})
<1>. DEFINE f == [i \in 1..n + 1 |-> IF i = n + 1 THEN x ELSE e[i]]
<1>1. f \in [1..n + 1 -> Nat] /\ f[n + 1] = x /\ \A i \in 1..n : f[i] = e[i]
  BY DEF Enumerates
<1>2. ASSUME NEW i \in 1..n + 1, NEW j \in 1..n + 1, i < j
      PROVE  f[i] < f[j]
  BY <1>1, <1>2 DEF Enumerates
<1>3. \A i \in 1..n + 1 : f[i] \in S \cup {x}
  BY <1>1 DEF Enumerates
<1>4. ASSUME NEW y \in S \cup {x}
      PROVE  \E i \in 1..n + 1 : f[i] = y
  BY <1>1 DEF Enumerates
<1>. QED
  BY <1>1, <1>2, <1>3, <1>4 DEF Enumerates

\* When an element that is not counted goes, all places move by one.
LEMMA EnumerateShifted ==
    ASSUME NEW S \in SUBSET Nat, 0 \notin S, 1 \notin S,
           NEW n \in Nat, NEW e, Enumerates(e, n, S)
    PROVE  Enumerates([i \in 1..n |-> e[i] - 1], n, {x \in Nat \ {0} : x + 1 \in S})
<1>. DEFINE f == [i \in 1..n |-> e[i] - 1]
<1>1. ASSUME NEW i \in 1..n
      PROVE  e[i] \in Nat /\ e[i] > 1 /\ e[i] \in S /\ f[i] = e[i] - 1
  BY DEF Enumerates
<1>2. f \in [1..n -> Nat] /\ \A i \in 1..n : f[i] \in Nat \ {0} /\ f[i] + 1 \in S
  BY <1>1
<1>3. ASSUME NEW i \in 1..n, NEW j \in 1..n, i < j
      PROVE  f[i] < f[j]
  BY <1>1, <1>3 DEF Enumerates
<1>4. ASSUME NEW x \in Nat \ {0}, x + 1 \in S
      PROVE  \E i \in 1..n : f[i] = x
  <2>1. PICK i \in 1..n : e[i] = x + 1
    BY <1>4 DEF Enumerates
  <2>. QED
    BY <1>1, <2>1
<1>. QED
  BY <1>2, <1>3, <1>4 DEF Enumerates

\* When the first of the counted elements goes, the others move by one.
LEMMA EnumerateRest ==
    ASSUME NEW S \in SUBSET Nat, 0 \notin S, 1 \in S,
           NEW n \in Nat, NEW e, Enumerates(e, n, S)
    PROVE  /\ n > 0 /\ e[1] = 1
           /\ Enumerates([i \in 1..n - 1 |-> e[i + 1] - 1], n - 1, {x \in Nat \ {0} : x + 1 \in S})
<1>1. n > 0 /\ e[1] = 1
  <2>1. PICK k \in 1..n : e[k] = 1
    BY DEF Enumerates
  <2>2. e[1] \in S /\ e[1] \in Nat /\ (1 < k => e[1] < e[k])
    BY <2>1 DEF Enumerates
  <2>. QED
    BY <2>1, <2>2
<1>. DEFINE f == [i \in 1..n - 1 |-> e[i + 1] - 1]
<1>2. ASSUME NEW i \in 1..n - 1
      PROVE  e[i + 1] \in Nat /\ e[i + 1] > 1 /\ e[i + 1] \in S /\ f[i] = e[i + 1] - 1
  <2>1. i + 1 \in 1..n /\ 1 < i + 1
    BY <1>1
  <2>. QED
    BY <1>1, <2>1 DEF Enumerates
<1>3. f \in [1..n - 1 -> Nat] /\ \A i \in 1..n - 1 : f[i] \in Nat \ {0} /\ f[i] + 1 \in S
  BY <1>2
<1>4. ASSUME NEW i \in 1..n - 1, NEW j \in 1..n - 1, i < j
      PROVE  f[i] < f[j]
  <2>1. i + 1 \in 1..n /\ j + 1 \in 1..n /\ i + 1 < j + 1
    BY <1>1, <1>4
  <2>2. e[i + 1] < e[j + 1]
    BY <2>1 DEF Enumerates
  <2>. QED
    BY <1>2, <2>2
<1>5. ASSUME NEW x \in Nat \ {0}, x + 1 \in S
      PROVE  \E i \in 1..n - 1 : f[i] = x
  <2>1. PICK k \in 1..n : e[k] = x + 1
    BY <1>5 DEF Enumerates
  <2>2. k - 1 \in 1..n - 1 /\ k = (k - 1) + 1
    BY <1>1, <2>1
  <2>3. f[k - 1] = x
    BY <1>2, <2>1, <2>2
  <2>. QED
    BY <2>2, <2>3
<1>. QED
  BY <1>1, <1>3, <1>4, <1>5 DEF Enumerates
-----------------------------------------------------------------------------
(* Sequences.                                                              *)

\* A function on 1..n is a sequence.
LEMMA Listed ==
    ASSUME NEW S, NEW n \in Nat, NEW f \in [1..n -> S]
    PROVE  f \in Seq(S) /\ Len(f) = n
OBVIOUS

\* The elements of a concatenation, by their places in its parts.
LEMMA Joined ==
    ASSUME NEW S, NEW s \in Seq(S), NEW t \in Seq(S)
    PROVE  /\ s \o t \in Seq(S) /\ Len(s \o t) = Len(s) + Len(t)
           /\ \A i \in 1..Len(s) : (s \o t)[i] = s[i]
           /\ \A i \in 1..Len(t) : (s \o t)[Len(s) + i] = t[i]
OBVIOUS

-----------------------------------------------------------------------------
(* Messages.                                                               *)

\* Sessions that were opened, whether they still are or not.
Opened == {s \in Sessions : s.local < nextLocalSid[s.worker]}

\* Channels, connections and players know only sessions that were opened.
Registered ==
    /\ sessions \subseteq Opened
    /\ \A w \in Workers : pending[w] <= sends
    /\ \A w \in Workers : \A i \in 1..Len(toMaster[w]) :
          toMaster[w][i].from \in Opened /\ toMaster[w][i].from.worker = w
    /\ \A w \in Workers : \A i \in 1..Len(toWorker[w]) :
          toWorker[w][i].kind # "chat" =>
             toWorker[w][i].to \in Opened /\ toWorker[w][i].to.worker = w
    /\ \A p \in online : pmSession[p] \in Opened
    /\ \A s \in Sessions \ Opened : asked[s] = <<>> /\ answers[s] = <<>> /\ chat[s] = <<>>

\* What a client may send, and what the master may push.
LEMMA RequestFields ==
    ASSUME NEW m \in Requests
    PROVE  /\ m.from \in Sessions
           /\ m.kind \in {"auth", "chat", "move", "leave"}
           /\ m.kind \in {"auth", "move"} => m.player \in Players
           /\ m.kind = "chat" => m.id \in 1..MaxSends
BY DEF Requests

\* What the master may push.
LEMMA PushFields ==
    ASSUME NEW m \in Pushes
    PROVE  /\ m.kind \in {"auth", "spawn", "despawn", "position", "chat"}
           /\ m.kind # "chat" => m.to \in Sessions
           /\ m.kind = "chat" => m.to = Everyone /\ m.id \in 1..MaxSends
           /\ m.kind = "auth" => m.player \in Players \cup {NoPlayer}
           /\ m.kind \in {"spawn", "despawn"} => m.player \in Players
BY DEF Pushes

\* The sessions of ps were opened.
Seated(ps, session) == \A q \in ps : session[q] \in Opened

\* list tells the sessions of ps at worker w, but s, one thing about p.
TellsSessions(list, w, ps, session, s, kind, p) ==
    /\ list \in Seq(Pushes)
    /\ \A i \in 1..Len(list) : /\ list[i].kind = kind /\ list[i].player = p
                               /\ list[i].to \in Opened /\ list[i].to.worker = w
    /\ \A q \in ps : session[q] # s /\ session[q].worker = w =>
          \E i \in 1..Len(list) : list[i].to = session[q]

\* list tells s of the players of ps, but p.
TellsNewcomer(list, p, s, ps) ==
    /\ list \in Seq(Pushes)
    /\ \A i \in 1..Len(list) : list[i].kind = "spawn" /\ list[i].to = s
    /\ \A q \in ps \ {p} : \E i \in 1..Len(list) : list[i].player = q

\* ToSessions tells the sessions it should.
LEMMA ToSessionsLists ==
    ASSUME NEW w \in Workers, NEW ps \in SUBSET Players, NEW s,
           NEW session, Seated(ps, session),
           NEW kind \in {"spawn", "despawn", "position"}, NEW p \in Players
    PROVE  TellsSessions(ToSessions(w, ps, session, s, kind, p), w, ps, session, s, kind, p)
<1>. DEFINE S == {q \in ps : session[q] # s /\ session[q].worker = w}
            told == SetToSeq(S)
            n == Cardinality(S)
            out == [i \in 1..n |-> [to |-> session[told[i]], kind |-> kind, player |-> p]]
<1>1. IsFiniteSet(S)
  BY GameAssumption, FS_Subset
<1>2. /\ n \in Nat /\ told \in [1..n -> S]
      /\ \A x \in S : \E i \in 1..n : told[i] = x
  BY <1>1, SetToSeqLists
<1>3. ASSUME NEW i \in 1..n
      PROVE  /\ out[i] = [to |-> session[told[i]], kind |-> kind, player |-> p]
             /\ told[i] \in S /\ session[told[i]] \in Opened /\ out[i] \in Pushes
  BY <1>2 DEF Pushes, Opened, Seated
<1>. HIDE DEF S
<1>4. out \in Seq(Pushes) /\ Len(out) = n
  <2>1. out \in [1..n -> Pushes]
    BY <1>3
  <2>. QED
    BY <1>2, <2>1, Listed
<1>5. ToSessions(w, ps, session, s, kind, p) = out
  BY <1>2 DEF ToSessions, S
<1>6. ASSUME NEW q \in ps, session[q] # s, session[q].worker = w
      PROVE  \E i \in 1..n : out[i].to = session[q]
  <2>1. PICK i \in 1..n : told[i] = q
    BY <1>2, <1>6 DEF S
  <2>. QED
    BY <2>1, <1>3
<1>7. ASSUME NEW i \in 1..n
      PROVE  out[i].kind = kind /\ out[i].player = p /\ out[i].to \in Opened /\ out[i].to.worker = w
  BY <1>3 DEF S
<1>. HIDE DEF out, n
<1>. QED
  BY <1>4, <1>5, <1>6, <1>7 DEF TellsSessions

\* OthersTold tells of the players it should.
LEMMA OthersToldLists ==
    ASSUME NEW p, NEW s \in Sessions, NEW ps \in SUBSET Players
    PROVE  TellsNewcomer(OthersTold(p, s, ps), p, s, ps)
<1>. DEFINE S == ps \ {p}
            others == SetToSeq(S)
            n == Cardinality(S)
            out == [i \in 1..n |-> [to |-> s, kind |-> "spawn", player |-> others[i]]]
<1>1. IsFiniteSet(S)
  BY GameAssumption, FS_Subset
<1>2. /\ n \in Nat /\ others \in [1..n -> S]
      /\ \A x \in S : \E i \in 1..n : others[i] = x
  BY <1>1, SetToSeqLists
<1>3. ASSUME NEW i \in 1..n
      PROVE  out[i] = [to |-> s, kind |-> "spawn", player |-> others[i]] /\ out[i] \in Pushes
  BY <1>2 DEF Pushes
<1>. HIDE DEF S
<1>4. out \in Seq(Pushes) /\ Len(out) = n
  <2>1. out \in [1..n -> Pushes]
    BY <1>3
  <2>. QED
    BY <1>2, <2>1, Listed
<1>5. OthersTold(p, s, ps) = out
  BY <1>2 DEF OthersTold, S
<1>6. ASSUME NEW q \in S
      PROVE  \E i \in 1..n : out[i].player = q
  <2>1. PICK i \in 1..n : others[i] = q
    BY <1>2, <1>6
  <2>. QED
    BY <2>1, <1>3
<1>7. ASSUME NEW i \in 1..n
      PROVE  out[i].kind = "spawn" /\ out[i].to = s
  BY <1>3
<1>. HIDE DEF out, n
<1>. QED
  BY <1>4, <1>5, <1>6, <1>7 DEF TellsNewcomer, S
-----------------------------------------------------------------------------
(* What the handler of an envelope sends.                                  *)

\* What handling m sends to worker w.  The only answer is to a login, and is
\* the last thing sent; chat comes from chat; only the player who leaves is
\* despawned.
Replies(w, m, out) ==
    /\ out \in Seq(Pushes)
    /\ \A i \in 1..Len(out) :
          /\ out[i].kind # "chat" => out[i].to \in Opened /\ out[i].to.worker = w
          /\ out[i].kind = "auth" =>
                /\ m.kind = "auth" /\ m.from.worker = w /\ i = Len(out)
                /\ out[i].to = m.from /\ out[i].player \in {m.player, NoPlayer}
          /\ out[i].kind = "chat" => m.kind = "chat"
          /\ out[i].kind = "despawn" => m.kind = "leave" /\ out[i].player = playerOf[m.from]
    /\ m.kind = "auth" /\ m.from.worker = w => Len(out) > 0 /\ out[Len(out)].kind = "auth"
    /\ m.kind = "chat" => Len(out) = 1 /\ out[1].kind = "chat" /\ out[1].id = m.id

\* out tells session s of player p.
Spawns(out, s, p) ==
    \E i \in 1..Len(out) : out[i].kind = "spawn" /\ out[i].to = s /\ out[i].player = p

\* What is sent to worker w when p logs in at s: the others learn of p, and s of
\* the others.
Announces(w, s, p, out) ==
    /\ \A q \in online' : pmSession'[q] # s /\ pmSession'[q].worker = w =>
          Spawns(out, pmSession'[q], p)
    /\ s.worker = w => \A q \in players' \ {p} : Spawns(out, s, q)

\* What the handler of m does to the channels to the workers.
Replied(m) ==
    \E out : /\ toWorker' = [w \in Workers |-> toWorker[w] \o out[w]]
             /\ \A w \in Workers : Replies(w, m, out[w])
             /\ \/ m.kind # "leave" /\ UNCHANGED sessionOf
                \/ m.kind = "leave" /\ Forget(m.from)
                \/ /\ m.kind = "auth" /\ sessionOf' = [sessionOf EXCEPT ![m.player] = m.from]
                   /\ \A w \in Workers : Announces(w, m.from, m.player, out[w])

\* The types of the maps of the master.
MapsTyped ==
    /\ players \subseteq Players /\ online \subseteq players
    /\ pmPlayer \in [Sessions -> Players \cup {NoPlayer}]
    /\ playerOf \in [Sessions -> Players \cup {NoPlayer}]
    /\ pmSession \in [Players -> Sessions \cup {NoSession}]
    /\ sessionOf \in [Players -> Sessions \cup {NoSession}]
    /\ said \in Seq(1..MaxSends)
    /\ Seated(online, pmSession)

\* What a login that is accepted sends: those who are told, then the newcomer,
\* and the answer last.
LEMMA LoginSends ==
    ASSUME NEW w \in Workers, NEW m, m.kind = "auth", m.from \in Opened, m.player \in Players,
           online' \in SUBSET Players, players' \in SUBSET Players, Seated(online', pmSession'),
           Opened' = Opened,
           NEW told, TellsSessions(told, w, online', pmSession', m.from, "spawn", m.player),
           NEW others, TellsNewcomer(others, m.player, m.from, players'),
           NEW out, out = told \o Routed(w, m.from, others \o Answer(m.from, m.player))
    PROVE  Replies(w, m, out) /\ Announces(w, m.from, m.player, out)
<1>. DEFINE p == m.player  s == m.from
<1>1. /\ told \in Seq(Pushes)
      /\ \A i \in 1..Len(told) : /\ told[i].kind = "spawn" /\ told[i].player = p
                                 /\ told[i].to \in Opened /\ told[i].to.worker = w
      /\ \A q \in online' : pmSession'[q] # s /\ pmSession'[q].worker = w =>
            Spawns(told, pmSession'[q], p)
  BY DEF TellsSessions, Spawns
<1>2. /\ others \in Seq(Pushes)
      /\ \A i \in 1..Len(others) : others[i].kind = "spawn" /\ others[i].to = s
      /\ \A q \in players' \ {p} : \E i \in 1..Len(others) : others[i].player = q
  BY DEF TellsNewcomer
<1>3. CASE s.worker # w
  <2>1. out = told
    BY <1>1, <1>3 DEF Routed
  <2>. QED
    BY <1>1, <1>3, <2>1 DEF Replies, Announces
<1>4. CASE s.worker = w
  <2>. DEFINE answer == Answer(s, p)  rest == others \o answer
  <2>1. /\ answer \in Seq(Pushes) /\ Len(answer) = 1
        /\ answer[1] = [to |-> s, kind |-> "auth", player |-> p]
    BY DEF Answer, Pushes, Opened
  <2>. HIDE DEF answer
  <2>2. /\ rest \in Seq(Pushes) /\ Len(rest) = Len(others) + 1
        /\ \A i \in 1..Len(others) : rest[i] = others[i]
        /\ rest[Len(others) + 1] = [to |-> s, kind |-> "auth", player |-> p]
    <3>1. /\ rest \in Seq(Pushes) /\ Len(rest) = Len(others) + Len(answer)
          /\ \A i \in 1..Len(others) : rest[i] = others[i]
          /\ \A i \in 1..Len(answer) : rest[Len(others) + i] = answer[i]
      BY <1>2, <2>1, Joined
    <3>. QED
      BY <2>1, <3>1
  <2>3. out = told \o rest
    BY <1>4 DEF Routed, answer
  <2>. HIDE DEF rest
  <2>4. /\ out \in Seq(Pushes) /\ Len(out) = Len(told) + Len(rest)
        /\ \A i \in 1..Len(told) : out[i] = told[i]
        /\ \A i \in 1..Len(rest) : out[Len(told) + i] = rest[i]
    <3>1. told \in Seq(Pushes) /\ rest \in Seq(Pushes)
      BY <1>1, <2>2
    <3>. QED
      BY <2>3, <3>1, Joined
  <2>. DEFINE last == Len(told) + Len(others) + 1
  <2>5. /\ Len(out) = last /\ last > 0
        /\ Len(told) \in Nat /\ Len(others) \in Nat
        /\ \A i \in 1..Len(others) : out[Len(told) + i] = others[i]
        /\ out[last] = [to |-> s, kind |-> "auth", player |-> p]
    BY <1>1, <1>2, <2>2, <2>4
  <2>6. ASSUME NEW i \in 1..Len(out), i # last
        PROVE  out[i].kind = "spawn" /\ out[i].to \in Opened /\ out[i].to.worker = w
    <3>1. CASE i \in 1..Len(told)
      BY <1>1, <2>4, <3>1
    <3>2. CASE i \notin 1..Len(told)
      <4>1. PICK j \in 1..Len(others) : i = Len(told) + j
        <5>1. i - Len(told) \in 1..Len(others) /\ i = Len(told) + (i - Len(told))
          BY <2>5, <2>6, <3>2
        <5>. QED
          BY <5>1
      <4>2. out[i] = others[j]
        BY <2>5, <4>1
      <4>. QED
        BY <1>2, <1>4, <4>2
    <3>. QED
      BY <3>1, <3>2
  <2>7. Replies(w, m, out)
    <3>1. \A i \in 1..Len(out) :
             \/ out[i].kind = "spawn" /\ out[i].to \in Opened /\ out[i].to.worker = w
             \/ i = Len(out) /\ out[i] = [to |-> s, kind |-> "auth", player |-> p]
      BY <2>5, <2>6
    <3>2. Len(out) > 0 /\ out[Len(out)] = [to |-> s, kind |-> "auth", player |-> p]
      BY <2>5
    <3>. QED
      BY <1>4, <2>4, <3>1, <3>2 DEF Replies
  <2>8. \A q \in online' : pmSession'[q] # s /\ pmSession'[q].worker = w =>
           Spawns(out, pmSession'[q], p)
    BY <1>1, <2>4, <2>5, <2>2 DEF Spawns
  <2>9. ASSUME NEW q \in players' \ {p}
        PROVE  Spawns(out, s, q)
    <3>1. PICK i \in 1..Len(others) : others[i].player = q
      BY <1>2
    <3>2. Len(told) + i \in 1..Len(out) /\ out[Len(told) + i] = others[i]
      BY <2>5
    <3>. QED
      BY <1>2, <3>1, <3>2 DEF Spawns
  <2>. QED
    BY <2>7, <2>8, <2>9 DEF Announces
<1>. QED
  BY <1>3, <1>4

\* A login is answered, and whoever is accepted is announced.
LEMMA LoginReplies ==
    ASSUME MapsTyped, NEW m \in Requests, m.kind = "auth", m.from \in Opened,
           OnAuthentication(m), UNCHANGED nextLocalSid
    PROVE  Replied(m) /\ MapsTyped'
<1>. DEFINE p == m.player  s == m.from
<1>1. p \in Players /\ s \in Sessions /\ s \in Opened /\ Opened' = Opened
  BY RequestFields DEF Opened
<1>3. CASE /\ PushAll([w \in Workers |-> Routed(w, s, Refusal(s))])
           /\ UNCHANGED master
  <2>. DEFINE out == [w \in Workers |-> Routed(w, s, Refusal(s))]
  <2>1. MapsTyped'
    BY <1>1, <1>3 DEF MapsTyped, master, Seated
  <2>2. ASSUME NEW w \in Workers
        PROVE  Replies(w, m, out[w])
    <3>1. CASE s.worker # w
      BY <3>1 DEF Replies, Routed
    <3>2. CASE s.worker = w
      <4>1. /\ out[w] \in Seq(Pushes) /\ Len(out[w]) = 1
            /\ out[w][1] = [to |-> s, kind |-> "auth", player |-> NoPlayer]
        BY <1>1, <3>2 DEF Routed, Refusal, Answer, Pushes
      <4>. HIDE DEF out
      <4>. QED
        BY <1>1, <3>2, <4>1 DEF Replies
    <3>. QED
      BY <3>1, <3>2
  <2>3. toWorker' = [w \in Workers |-> toWorker[w] \o out[w]]
    BY <1>3 DEF PushAll
  <2>4. UNCHANGED sessionOf
    BY <1>3 DEF master
  <2>. HIDE DEF out
  <2>. QED
    BY <2>1, <2>2, <2>3, <2>4 DEF Replied
<1>4. CASE /\ Enter(p) /\ Seat(s, p) /\ UNCHANGED said
           /\ PushAll([w \in Workers |->
                 ToSessions(w, online', pmSession', s, "spawn", p)
                 \o Routed(w, s, OthersTold(p, s, players') \o Answer(s, p))])
  <2>. DEFINE told(w) == ToSessions(w, online', pmSession', s, "spawn", p)
              others == OthersTold(p, s, players')
              out == [w \in Workers |-> told(w) \o Routed(w, s, others \o Answer(s, p))]
  <2>1. MapsTyped'
    BY <1>1, <1>4 DEF MapsTyped, Enter, Seat, Seated
  <2>2. online' \in SUBSET Players /\ players' \in SUBSET Players /\ Seated(online', pmSession')
    BY <1>1, <2>1 DEF MapsTyped, Seated
  <2>3. ASSUME NEW w \in Workers
        PROVE  Replies(w, m, out[w]) /\ Announces(w, s, p, out[w])
    <3>1. TellsSessions(told(w), w, online', pmSession', s, "spawn", p)
      BY <1>1, <2>2, ToSessionsLists
    <3>2. TellsNewcomer(others, p, s, players')
      BY <1>1, <2>2, OthersToldLists
    <3>3. out[w] = told(w) \o Routed(w, s, others \o Answer(s, p))
      OBVIOUS
    <3>. HIDE DEF told, others, out
    <3>. QED
      BY <1>1, <2>2, <3>1, <3>2, <3>3, LoginSends
  <2>4. /\ toWorker' = [w \in Workers |-> toWorker[w] \o out[w]]
        /\ sessionOf' = [sessionOf EXCEPT ![p] = s]
    BY <1>4 DEF PushAll, Seat
  <2>. HIDE DEF out
  <2>. QED
    BY <2>1, <2>3, <2>4 DEF Replied
<1>. QED
  BY <1>3, <1>4 DEF OnAuthentication

\* Chat, positions and logouts are passed on.
LEMMA OthersReply ==
    ASSUME MapsTyped, NEW m \in Requests, m.from \in Opened, UNCHANGED nextLocalSid,
           \/ m.kind = "chat" /\ OnChat(m)
           \/ m.kind = "move" /\ OnPlayerPosition(m)
           \/ m.kind = "leave" /\ OnPlayerDisconnected(m)
    PROVE  Replied(m) /\ MapsTyped'
<1>1. Opened' = Opened /\ m.from \in Sessions
  BY RequestFields DEF Opened
<1>2. online \in SUBSET Players /\ Seated(online, pmSession)
  BY DEF MapsTyped
<1>3. CASE m.kind = "chat" /\ OnChat(m)
  <2>. DEFINE push == [to |-> Everyone, kind |-> "chat", id |-> m.id]
              out == [w \in Workers |-> <<push>>]
  <2>1. m.id \in 1..MaxSends /\ push \in Pushes
    BY <1>3, RequestFields DEF Pushes
  <2>2. MapsTyped'
    BY <1>1, <1>3, <2>1 DEF MapsTyped, OnChat, Seated
  <2>3. \A w \in Workers : Replies(w, m, out[w])
    BY <1>3, <2>1 DEF Replies
  <2>4. toWorker' = [w \in Workers |-> toWorker[w] \o out[w]] /\ UNCHANGED sessionOf
    BY <1>3 DEF OnChat, PushAll
  <2>. HIDE DEF out
  <2>. QED
    BY <1>3, <2>2, <2>3, <2>4 DEF Replied
<1>4. CASE m.kind = "move" /\ OnPlayerPosition(m)
  <2>. DEFINE told(w) == ToSessions(w, online, pmSession, m.from, "position", m.player)
              out == [w \in Workers |-> IF m.player \notin players THEN <<>> ELSE told(w)]
  <2>1. MapsTyped'
    BY <1>1, <1>4 DEF MapsTyped, OnPlayerPosition, master, Seated
  <2>2. ASSUME NEW w \in Workers
        PROVE  Replies(w, m, out[w])
    <3>1. m.player \in Players
      BY <1>4, RequestFields
    <3>2. TellsSessions(told(w), w, online, pmSession, m.from, "position", m.player)
      BY <1>2, <3>1, ToSessionsLists
    <3>3. CASE m.player \notin players
      BY <1>4, <3>3 DEF Replies
    <3>4. CASE m.player \in players
      <4>1. out[w] = told(w)
        BY <3>4
      <4>. HIDE DEF told, out
      <4>. QED
        BY <1>4, <3>2, <4>1 DEF Replies, TellsSessions
    <3>. QED
      BY <3>3, <3>4
  <2>3. toWorker' = [w \in Workers |-> toWorker[w] \o out[w]] /\ UNCHANGED sessionOf
    BY <1>4 DEF OnPlayerPosition, PushAll, master
  <2>. HIDE DEF out
  <2>. QED
    BY <1>4, <2>1, <2>2, <2>3 DEF Replied
<1>5. CASE m.kind = "leave" /\ OnPlayerDisconnected(m)
  <2>. DEFINE p == playerOf[m.from]
              told(w) == ToSessions(w, online, pmSession, m.from, "despawn", p)
              out == [w \in Workers |-> IF p \notin players THEN <<>> ELSE told(w)]
  <2>1. MapsTyped'
    BY <1>1, <1>5 DEF MapsTyped, OnPlayerDisconnected, Forget, Seated
  <2>2. ASSUME NEW w \in Workers
        PROVE  Replies(w, m, out[w])
    <3>1. CASE p \notin players
      BY <1>5, <3>1 DEF Replies
    <3>2. CASE p \in players
      <4>1. TellsSessions(told(w), w, online, pmSession, m.from, "despawn", p)
        BY <1>2, <3>2, ToSessionsLists DEF MapsTyped
      <4>2. out[w] = told(w)
        BY <3>2
      <4>. HIDE DEF told, out
      <4>. QED
        BY <1>5, <4>1, <4>2 DEF Replies, TellsSessions
    <3>. QED
      BY <3>1, <3>2
  <2>3. toWorker' = [w \in Workers |-> toWorker[w] \o out[w]] /\ Forget(m.from)
    BY <1>5 DEF OnPlayerDisconnected, PushAll
  <2>. HIDE DEF out
  <2>. QED
    BY <1>5, <2>1, <2>2, <2>3 DEF Replied
<1>. QED
  BY <1>3, <1>4, <1>5
-----------------------------------------------------------------------------
(* Queues.                                                                 *)

\* What is left of a queue when its head is taken.
LEMMA Taken ==
    ASSUME NEW S, NEW s \in Seq(S), s # <<>>
    PROVE  /\ Len(s) > 0 /\ Head(s) = s[1] /\ s[1] \in S
           /\ Tail(s) \in Seq(S) /\ Len(Tail(s)) = Len(s) - 1
           /\ \A i \in 1..Len(Tail(s)) : i + 1 \in 1..Len(s) /\ Tail(s)[i] = s[i + 1]
OBVIOUS

\* A queue with one more element.
LEMMA Put ==
    ASSUME NEW S, NEW s \in Seq(S), NEW x \in S
    PROVE  /\ Append(s, x) \in Seq(S) /\ Len(Append(s, x)) = Len(s) + 1
           /\ Append(s, x)[Len(s) + 1] = x
           /\ \A i \in 1..Len(s) : Append(s, x)[i] = s[i]
OBVIOUS

\* The elements of a concatenation are those of its parts.
LEMMA JoinedAll ==
    ASSUME NEW S, NEW s \in Seq(S), NEW t \in Seq(S)
    PROVE  /\ s \o t \in Seq(S)
           /\ \A i \in 1..Len(s \o t) :
                 \/ i \in 1..Len(s) /\ (s \o t)[i] = s[i]
                 \/ i - Len(s) \in 1..Len(t) /\ (s \o t)[i] = t[i - Len(s)]
OBVIOUS

\* RemoveAt of the first element leaves the tail.
LEMMA FirstRemoved ==
    ASSUME NEW S, NEW s \in Seq(S), s # <<>>
    PROVE  RemoveAt(s, 1) = Tail(s)
<1>1. Len(s) \in Nat /\ Len(s) > 0
  OBVIOUS
<1>2. SubSeq(s, 1, 0) = <<>> /\ SubSeq(s, 2, Len(s)) = Tail(s)
  BY <1>1
<1>. QED
  BY <1>1, <1>2 DEF RemoveAt
-----------------------------------------------------------------------------
(* Types, and that channels, connections and players know opened sessions. *)

Base == TypeOK /\ Registered

\* What a client that sends m changes.
Sent(s, m) ==
    /\ s \in sessions /\ m \in Requests /\ m.from = s
    /\ sends' = sends + 1 /\ sends' \in 0..MaxSends
    /\ pending' = [pending EXCEPT ![s.worker] = @ + 1]
    /\ toMaster' = [toMaster EXCEPT ![s.worker] = Append(@, m)]
    /\ asked' = IF m.kind = "auth" THEN [asked EXCEPT ![s] = Append(@, m.player)] ELSE asked
    /\ left' \subseteq left \cup {s}
    /\ UNCHANGED <<nextLocalSid, sessions, toWorker, master, answers, known, chat>>

\* Every step of a client but the close sends one message.
LEMMA ClientSends ==
    ASSUME Base, NEW s \in Sessions, ClientStep(s), ~ onClientClose(s)
    PROVE  \E m : Sent(s, m)
<1>1. sends \in Nat /\ MaxSends \in Nat
  BY GameAssumption DEF Base, TypeOK
<1>2. ASSUME AskAuthentication(s)
      PROVE  \E m : Sent(s, m)
  <2>1. PICK p \in Players, ok \in BOOLEAN :
           /\ onClientMessage(s, [from |-> s, kind |-> "auth", player |-> p, ok |-> ok])
           /\ asked' = [asked EXCEPT ![s] = Append(@, p)]
    BY <1>2 DEF AskAuthentication
  <2>. DEFINE m == [from |-> s, kind |-> "auth", player |-> p, ok |-> ok]
  <2>2. m \in Requests /\ m.from = s /\ m.kind = "auth" /\ m.player = p
    BY DEF Requests
  <2>3. onClientMessage(s, m) /\ UNCHANGED left
    BY <1>2, <2>1 DEF AskAuthentication
  <2>. HIDE DEF m
  <2>4. asked' = [asked EXCEPT ![s] = Append(@, m.player)]
    BY <2>1, <2>2
  <2>5. Sent(s, m)
    BY <1>1, <2>4, <2>2, <2>3 DEF onClientMessage, Sent
  <2>. QED
    BY <2>5
<1>3. ASSUME SendChat(s)
      PROVE  \E m : Sent(s, m)
  <2>. DEFINE m == [from |-> s, kind |-> "chat", id |-> sends + 1]
  <2>1. m \in Requests /\ m.from = s /\ m.kind = "chat"
    BY <1>1, <1>3 DEF Requests, SendChat, onClientMessage
  <2>2. onClientMessage(s, m) /\ UNCHANGED <<asked, left>>
    BY <1>3 DEF SendChat
  <2>. HIDE DEF m
  <2>3. Sent(s, m)
    BY <1>1, <2>1, <2>2 DEF onClientMessage, Sent
  <2>. QED
    BY <2>3
<1>4. ASSUME SendPosition(s)
      PROVE  \E m : Sent(s, m)
  <2>. DEFINE m == [from |-> s, kind |-> "move", player |-> PlayerAt(s)]
  <2>1. PlayerAt(s) \in Players
    BY <1>4 DEF SendPosition, PlayerAt, Last, Base, TypeOK
  <2>2. m \in Requests /\ m.from = s /\ m.kind = "move"
    BY <2>1 DEF Requests
  <2>3. onClientMessage(s, m) /\ UNCHANGED <<asked, left>>
    BY <1>4 DEF SendPosition
  <2>. HIDE DEF m
  <2>4. Sent(s, m)
    BY <1>1, <2>2, <2>3 DEF onClientMessage, Sent
  <2>. QED
    BY <2>4
<1>5. ASSUME SendDisconnect(s)
      PROVE  \E m : Sent(s, m)
  <2>. DEFINE m == [from |-> s, kind |-> "leave"]
  <2>1. m \in Requests /\ m.from = s /\ m.kind = "leave"
    BY DEF Requests
  <2>2. onClientMessage(s, m) /\ left' = left \cup {s} /\ UNCHANGED asked
    BY <1>5 DEF SendDisconnect
  <2>. HIDE DEF m
  <2>3. Sent(s, m)
    BY <1>1, <2>1, <2>2 DEF onClientMessage, Sent
  <2>. QED
    BY <2>3
<1>. QED
  BY <1>2, <1>3, <1>4, <1>5 DEF ClientStep

\* What the master changes when it handles the envelope m of worker w.
Handled(w, m) ==
    /\ toMaster[w] # <<>> /\ m = toMaster[w][1]
    /\ m \in Requests /\ m.from \in Opened /\ m.from.worker = w
    /\ Replied(m) /\ MapsTyped'
    /\ toMaster' = [toMaster EXCEPT ![w] = Tail(@)]
    /\ said' = IF m.kind = "chat" THEN Append(said, m.id) ELSE said
    /\ UNCHANGED <<worker, client>>

\* Every step of the master handles one envelope.
LEMMA MasterRoutes ==
    ASSUME Base, NEW w \in Workers, RouteToGameLogic(w)
    PROVE  \E m : Handled(w, m)
<1>. DEFINE m == Head(toMaster[w])
<1>1. toMaster[w] # <<>> /\ toMaster[w] \in Seq(Requests)
  BY DEF RouteToGameLogic, Base, TypeOK
<1>2. 1 \in 1..Len(toMaster[w]) /\ m = toMaster[w][1] /\ m \in Requests
  BY <1>1, Taken
<1>3. m.from \in Opened /\ m.from.worker = w
  BY <1>2 DEF Base, Registered
<1>4. MapsTyped /\ UNCHANGED nextLocalSid
  BY DEF MapsTyped, Base, TypeOK, Registered, Seated, RouteToGameLogic, worker
<1>5. Replied(m) /\ MapsTyped'
  BY <1>2, <1>3, <1>4, LoginReplies, OthersReply DEF RouteToGameLogic
<1>6. said' = IF m.kind = "chat" THEN Append(said, m.id) ELSE said
  BY DEF RouteToGameLogic, OnAuthentication, OnChat, OnPlayerPosition, OnPlayerDisconnected, master
<1>. QED
  BY <1>1, <1>2, <1>3, <1>5, <1>6 DEF RouteToGameLogic, Handled

\* What the delivery of push by worker w changes.
Received(w, push) ==
    /\ toWorker[w] # <<>> /\ push = toWorker[w][1] /\ push \in Pushes
    /\ push.kind # "chat" => push.to \in Opened /\ push.to.worker = w
    /\ toWorker' = [toWorker EXCEPT ![w] = Tail(@)]
    /\ answers' = [s \in Sessions |->
          IF push.kind = "auth" /\ s = push.to /\ s \in sessions
          THEN Append(answers[s], push.player) ELSE answers[s]]
    /\ known' = [s \in Sessions |->
          IF push.kind = "spawn" /\ s = push.to /\ s \in sessions
          THEN known[s] \cup {push.player}
          ELSE IF push.kind = "despawn" /\ s = push.to /\ s \in sessions
          THEN known[s] \ {push.player} ELSE known[s]]
    /\ chat' = [s \in Sessions |->
          IF push.kind = "chat" /\ s.worker = w /\ s \in sessions
          THEN Append(chat[s], push.id) ELSE chat[s]]
    /\ UNCHANGED <<worker, master, toMaster, sends, asked, left>>

\* Every step of the IPC thread delivers one push.
LEMMA WorkerReceives ==
    ASSUME Base, NEW w \in Workers, OnMasterPush(w)
    PROVE  \E push : Received(w, push)
<1>. DEFINE push == toWorker[w][1]
<1>1. toWorker[w] # <<>> /\ toWorker[w] \in Seq(Pushes)
  BY DEF OnMasterPush, Base, TypeOK
<1>2. 1 \in 1..Len(toWorker[w]) /\ push \in Pushes
  BY <1>1, Taken
<1>3. push.kind # "chat" => push.to \in Opened /\ push.to.worker = w
  BY <1>2 DEF Base, Registered
<1>4. toWorker' = [toWorker EXCEPT ![w] = Tail(@)]
  BY <1>1, FirstRemoved DEF OnMasterPush, Oldest
<1>5. /\ push.kind # "chat" => push.to \in Sessions /\ push.to # Everyone
      /\ push.kind = "chat" => push.to = Everyone
  BY <1>2, PushFields, GameAssumption
<1>6. /\ push.kind # "chat" => \A s \in Sessions : s \in Receivers(w, push) <=> s = push.to /\ s \in sessions
      /\ push.kind = "chat" => \A s \in Sessions : s \in Receivers(w, push) <=> s.worker = w /\ s \in sessions
  BY <1>5 DEF Receivers
<1>7. /\ answers' = [s \in Sessions |->
            IF s \in Receivers(w, push) /\ push.kind = "auth"
            THEN Append(answers[s], push.player) ELSE answers[s]]
      /\ known' = [s \in Sessions |->
            IF s \in Receivers(w, push) /\ push.kind = "spawn" THEN known[s] \cup {push.player}
            ELSE IF s \in Receivers(w, push) /\ push.kind = "despawn" THEN known[s] \ {push.player}
            ELSE known[s]]
      /\ chat' = [s \in Sessions |->
            IF s \in Receivers(w, push) /\ push.kind = "chat" THEN Append(chat[s], push.id)
            ELSE chat[s]]
      /\ UNCHANGED <<worker, master, toMaster, sends, asked, left>>
  BY DEF OnMasterPush, Oldest
<1>. HIDE DEF push
<1>8. /\ answers' = [s \in Sessions |->
            IF push.kind = "auth" /\ s = push.to /\ s \in sessions
            THEN Append(answers[s], push.player) ELSE answers[s]]
      /\ known' = [s \in Sessions |->
            IF push.kind = "spawn" /\ s = push.to /\ s \in sessions
            THEN known[s] \cup {push.player}
            ELSE IF push.kind = "despawn" /\ s = push.to /\ s \in sessions
            THEN known[s] \ {push.player} ELSE known[s]]
      /\ chat' = [s \in Sessions |->
            IF push.kind = "chat" /\ s.worker = w /\ s \in sessions
            THEN Append(chat[s], push.id) ELSE chat[s]]
  BY <1>6, <1>7
<1>9. Received(w, push)
  BY <1>1, <1>2, <1>3, <1>4, <1>7, <1>8 DEF Received, push
<1>. QED
  BY <1>9

\* Nothing is under way at first.
LEMMA InitBase == Init => Base
<1>. SUFFICES ASSUME Init
              PROVE  Base
  OBVIOUS
<1>. USE GameAssumption DEF Init
<1>1. TypeOK
  BY DEF TypeOK
<1>2. Registered
  BY DEF Registered
<1>. QED
  BY <1>1, <1>2 DEF Base

\* A session that is accepted was not open before.
LEMMA AcceptKeepsBase ==
    ASSUME Base, NEW w \in Workers, Accept(w)
    PROVE  Base' /\ Opened \subseteq Opened'
<1>. DEFINE new == [worker |-> w, local |-> nextLocalSid[w]]
<1>1. MaxSessions \in Nat
  BY GameAssumption
<1>2. new \in Sessions
  BY <1>1 DEF Base, TypeOK, Accept, Sessions
<1>3. /\ sessions' = sessions \cup {new}
      /\ nextLocalSid' = [nextLocalSid EXCEPT ![w] = @ + 1]
      /\ nextLocalSid' \in [Workers -> 1..(MaxSessions + 1)]
      /\ UNCHANGED <<pending, toMaster, toWorker, master, client>>
  BY <1>1 DEF Accept, Base, TypeOK
<1>4. Opened' = Opened \cup {new}
  <2>1. ASSUME NEW s \in Sessions
        PROVE  s.local < nextLocalSid'[s.worker] <=> s.local < nextLocalSid[s.worker] \/ s = new
    BY <1>1, <1>3, SMTT(20) DEF Base, TypeOK, Sessions
  <2>. QED
    BY <1>2, <2>1 DEF Opened
<1>. HIDE DEF new
<1>5. TypeOK'
  BY <1>2, <1>3 DEF Base, TypeOK, master, client
<1>6. Registered'
  BY <1>3, <1>4 DEF Base, Registered, master, client
<1>. QED
  BY <1>4, <1>5, <1>6 DEF Base

\* A session that closes stays opened for those who know it.
LEMMA CloseKeepsBase ==
    ASSUME Base, NEW s \in Sessions, onClientClose(s)
    PROVE  Base' /\ Opened' = Opened
<1>1. Opened' = Opened
  BY DEF onClientClose, Opened
<1>. QED
  BY <1>1 DEF onClientClose, Base, TypeOK, Registered, master, client

\* Only sessions that are open send.
LEMMA SentKeepsBase ==
    ASSUME Base, NEW s, NEW m, Sent(s, m)
    PROVE  Base' /\ Opened' = Opened
<1>1. s \in Sessions /\ s \in Opened /\ s.worker \in Workers /\ m \in Requests /\ m.from = s
  BY DEF Sent, Base, TypeOK, Registered, Opened, Sessions
<1>2. Opened' = Opened
  BY DEF Sent, Opened
<1>3. /\ sends \in Nat /\ sends' = sends + 1 /\ sends' \in 0..MaxSends
      /\ pending' = [pending EXCEPT ![s.worker] = @ + 1]
      /\ MaxSends \in Nat
      /\ \A w \in Workers : pending[w] \in Nat /\ pending[w] <= sends
  BY GameAssumption DEF Sent, Base, TypeOK, Registered
<1>4. pending' \in [Workers -> 0..MaxSends] /\ \A w \in Workers : pending'[w] <= sends'
  <2>1. \A w \in Workers : pending'[w] \in Nat /\ pending'[w] <= sends'
    BY <1>3 DEF Base, TypeOK
  <2>2. DOMAIN pending' = Workers /\ pending' = [w \in Workers |-> pending'[w]]
    BY <1>3 DEF Base, TypeOK
  <2>3. \A w \in Workers : pending'[w] \in 0..MaxSends
    BY <1>3, <2>1
  <2>. QED
    BY <2>1, <2>2, <2>3
<1>5. ASSUME NEW w \in Workers
      PROVE  /\ toMaster'[w] \in Seq(Requests)
             /\ \A i \in 1..Len(toMaster'[w]) :
                   toMaster'[w][i].from \in Opened /\ toMaster'[w][i].from.worker = w
  <2>1. toMaster[w] \in Seq(Requests)
    BY DEF Base, TypeOK
  <2>2. CASE w = s.worker
    <3>1. toMaster'[w] = Append(toMaster[w], m)
      BY <1>1, <2>2 DEF Sent, Base, TypeOK
    <3>2. /\ toMaster'[w] \in Seq(Requests) /\ Len(toMaster'[w]) = Len(toMaster[w]) + 1
          /\ toMaster'[w][Len(toMaster[w]) + 1] = m
          /\ \A i \in 1..Len(toMaster[w]) : toMaster'[w][i] = toMaster[w][i]
      BY <1>1, <2>1, <3>1, Put
    <3>3. \A i \in 1..Len(toMaster[w]) :
             toMaster[w][i].from \in Opened /\ toMaster[w][i].from.worker = w
      BY DEF Base, Registered
    <3>4. ASSUME NEW i \in 1..Len(toMaster'[w])
          PROVE  toMaster'[w][i] = m \/ \E j \in 1..Len(toMaster[w]) : toMaster'[w][i] = toMaster[w][j]
      <4>1. i = Len(toMaster[w]) + 1 \/ i \in 1..Len(toMaster[w])
        BY <2>1, <3>2
      <4>. QED
        BY <3>2, <4>1
    <3>. QED
      BY <1>1, <2>2, <3>2, <3>3, <3>4
  <2>3. CASE w # s.worker
    <3>1. toMaster'[w] = toMaster[w]
      BY <2>3 DEF Sent, Base, TypeOK
    <3>. QED
      BY <2>1, <3>1 DEF Base, Registered
  <2>. QED
    BY <2>2, <2>3
<1>6. toMaster' \in [Workers -> Seq(Requests)]
  BY <1>5 DEF Sent, Base, TypeOK
<1>7. asked' \in [Sessions -> Seq(Players)] /\ \A t \in Sessions \ {s} : asked'[t] = asked[t]
  BY <1>1, RequestFields DEF Sent, Base, TypeOK
<1>8. TypeOK'
  BY <1>1, <1>3, <1>4, <1>6, <1>7 DEF Sent, Base, TypeOK, master
<1>9. Registered'
  BY <1>1, <1>2, <1>4, <1>5, <1>7 DEF Sent, Base, Registered, master
<1>. QED
  BY <1>2, <1>8, <1>9 DEF Base

\* The master answers and seats sessions that were opened.
LEMMA HandledKeepsBase ==
    ASSUME Base, NEW w \in Workers, NEW m, Handled(w, m)
    PROVE  Base' /\ Opened' = Opened
<1>1. Opened' = Opened /\ UNCHANGED <<worker, client>>
  BY DEF Handled, worker, Opened
<1>2. toMaster[w] \in Seq(Requests) /\ toMaster[w] # <<>>
  BY DEF Handled, Base, TypeOK
<1>3. ASSUME NEW v \in Workers
      PROVE  /\ toMaster'[v] \in Seq(Requests)
             /\ \A i \in 1..Len(toMaster'[v]) :
                   toMaster'[v][i].from \in Opened /\ toMaster'[v][i].from.worker = v
  <2>1. toMaster[v] \in Seq(Requests)
        /\ \A i \in 1..Len(toMaster[v]) :
              toMaster[v][i].from \in Opened /\ toMaster[v][i].from.worker = v
    BY DEF Base, TypeOK, Registered
  <2>2. CASE v = w
    <3>1. toMaster'[v] = Tail(toMaster[v])
      BY <2>2 DEF Handled, Base, TypeOK
    <3>2. /\ toMaster'[v] \in Seq(Requests)
          /\ \A i \in 1..Len(toMaster'[v]) :
                i + 1 \in 1..Len(toMaster[v]) /\ toMaster'[v][i] = toMaster[v][i + 1]
      BY <1>2, <2>2, <3>1, Taken
    <3>. QED
      BY <2>1, <3>2
  <2>3. CASE v # w
    BY <2>1, <2>3 DEF Handled, Base, TypeOK
  <2>. QED
    BY <2>2, <2>3
<1>4. toMaster' \in [Workers -> Seq(Requests)]
  BY <1>3 DEF Handled, Base, TypeOK
<1>5. PICK out : /\ toWorker' = [v \in Workers |-> toWorker[v] \o out[v]]
                 /\ \A v \in Workers : Replies(v, m, out[v])
  BY DEF Handled, Replied
<1>6. ASSUME NEW v \in Workers
      PROVE  /\ toWorker'[v] \in Seq(Pushes)
             /\ \A i \in 1..Len(toWorker'[v]) : toWorker'[v][i].kind # "chat" =>
                   toWorker'[v][i].to \in Opened /\ toWorker'[v][i].to.worker = v
  <2>1. toWorker[v] \in Seq(Pushes)
        /\ \A i \in 1..Len(toWorker[v]) : toWorker[v][i].kind # "chat" =>
              toWorker[v][i].to \in Opened /\ toWorker[v][i].to.worker = v
    BY DEF Base, TypeOK, Registered
  <2>2. out[v] \in Seq(Pushes)
        /\ \A i \in 1..Len(out[v]) : out[v][i].kind # "chat" =>
              out[v][i].to \in Opened /\ out[v][i].to.worker = v
    BY <1>5 DEF Replies
  <2>3. toWorker'[v] = toWorker[v] \o out[v]
    BY <1>5
  <2>4. /\ toWorker'[v] \in Seq(Pushes)
        /\ \A i \in 1..Len(toWorker'[v]) :
              \/ i \in 1..Len(toWorker[v]) /\ toWorker'[v][i] = toWorker[v][i]
              \/ i - Len(toWorker[v]) \in 1..Len(out[v])
                 /\ toWorker'[v][i] = out[v][i - Len(toWorker[v])]
    <3>1. toWorker[v] \in Seq(Pushes) /\ out[v] \in Seq(Pushes)
      BY <2>1, <2>2
    <3>. DEFINE all == toWorker[v] \o out[v]
    <3>2. /\ all \in Seq(Pushes)
          /\ \A i \in 1..Len(all) :
                \/ i \in 1..Len(toWorker[v]) /\ all[i] = toWorker[v][i]
                \/ i - Len(toWorker[v]) \in 1..Len(out[v]) /\ all[i] = out[v][i - Len(toWorker[v])]
      BY <3>1, JoinedAll
    <3>. HIDE DEF all
    <3>3. toWorker'[v] = all
      BY <2>3 DEF all
    <3>. QED
      BY <3>2, <3>3
  <2>. QED
    BY <2>1, <2>2, <2>4
<1>7. toWorker' \in [Workers -> Seq(Pushes)]
  BY <1>5, <1>6
<1>8. TypeOK'
  BY <1>1, <1>4, <1>7 DEF Handled, MapsTyped, Base, TypeOK, worker, client
<1>9. Registered'
  BY <1>1, <1>3, <1>6 DEF Handled, MapsTyped, Base, Registered, Seated, worker, client
<1>. QED
  BY <1>1, <1>8, <1>9 DEF Base

\* A delivery adds no push.
LEMMA ReceivedKeepsBase ==
    ASSUME Base, NEW w \in Workers, NEW push, Received(w, push)
    PROVE  Base' /\ Opened' = Opened
<1>1. Opened' = Opened /\ UNCHANGED <<worker, master, toMaster, sends, asked, left>>
  BY DEF Received, worker, Opened
<1>2. ASSUME NEW v \in Workers
      PROVE  /\ toWorker'[v] \in Seq(Pushes)
             /\ \A i \in 1..Len(toWorker'[v]) : toWorker'[v][i].kind # "chat" =>
                   toWorker'[v][i].to \in Opened /\ toWorker'[v][i].to.worker = v
  <2>1. toWorker[v] \in Seq(Pushes)
        /\ \A i \in 1..Len(toWorker[v]) : toWorker[v][i].kind # "chat" =>
              toWorker[v][i].to \in Opened /\ toWorker[v][i].to.worker = v
    BY DEF Base, TypeOK, Registered
  <2>2. CASE v = w
    <3>1. toWorker'[v] = Tail(toWorker[v]) /\ toWorker[v] # <<>>
      BY <2>2 DEF Received, Base, TypeOK
    <3>2. /\ toWorker'[v] \in Seq(Pushes)
          /\ \A i \in 1..Len(toWorker'[v]) :
                i + 1 \in 1..Len(toWorker[v]) /\ toWorker'[v][i] = toWorker[v][i + 1]
      BY <2>1, <3>1, Taken
    <3>. QED
      BY <2>1, <3>2
  <2>3. CASE v # w
    BY <2>1, <2>3 DEF Received, Base, TypeOK
  <2>. QED
    BY <2>2, <2>3
<1>3. toWorker' \in [Workers -> Seq(Pushes)]
  BY <1>2 DEF Received, Base, TypeOK
<1>4. push \in Pushes /\ (push.kind # "chat" => push.to \in Opened)
  BY DEF Received
<1>5. answers' \in [Sessions -> Seq(Players \cup {NoPlayer})]
  BY <1>4, PushFields DEF Received, Base, TypeOK
<1>6. known' \in [Sessions -> SUBSET Players]
  BY <1>4, PushFields DEF Received, Base, TypeOK
<1>7. chat' \in [Sessions -> Seq(1..MaxSends)]
  <2>1. push.kind = "chat" => push.id \in 1..MaxSends
    BY <1>4, PushFields
  <2>2. \A s \in Sessions : chat[s] \in Seq(1..MaxSends)
    BY DEF Base, TypeOK
  <2>3. \A s \in Sessions : push.kind = "chat" => Append(chat[s], push.id) \in Seq(1..MaxSends)
    BY <2>1, <2>2, Put
  <2>. QED
    BY <2>2, <2>3 DEF Received
<1>8. TypeOK'
  BY <1>1, <1>3, <1>5, <1>6, <1>7 DEF Base, TypeOK, worker, master
<1>9. \A s \in Sessions \ Opened : answers'[s] = answers[s] /\ chat'[s] = chat[s]
  BY <1>4 DEF Received, Base, Registered
<1>10. Registered'
  BY <1>1, <1>2, <1>9 DEF Base, Registered, worker, master
<1>. QED
  BY <1>1, <1>8, <1>10 DEF Base

\* Every step keeps the types and the registration.
LEMMA StepKeepsBase == Base /\ [Next]_vars => Base'
<1>. SUFFICES ASSUME Base, [Next]_vars
              PROVE  Base'
  OBVIOUS
<1>1. ASSUME NEW w \in Workers, Accept(w) \/ RouteToGameLogic(w) \/ OnMasterPush(w)
      PROVE  Base'
  BY <1>1, AcceptKeepsBase, MasterRoutes, HandledKeepsBase, WorkerReceives, ReceivedKeepsBase
<1>2. ASSUME NEW s \in Sessions, ClientStep(s)
      PROVE  Base'
  BY <1>2, ClientSends, SentKeepsBase, CloseKeepsBase
<1>3. CASE UNCHANGED vars
  <2>1. Opened' = Opened
    BY <1>3 DEF vars, worker, Opened
  <2>. QED
    BY <1>3, <2>1 DEF vars, worker, master, client, Base, TypeOK, Registered
<1>. QED
  BY <1>1, <1>2, <1>3 DEF Next
-----------------------------------------------------------------------------
(* The session maps.                                                       *)

\* The maps are total: a session or player without an entry has the null one.
MapsTotal ==
    /\ DOMAIN pmPlayer = Sessions /\ DOMAIN playerOf = Sessions
    /\ DOMAIN pmSession = Players /\ DOMAIN sessionOf = Players

MapsInv == MapsTotal /\ CoreAgreesWithManager

maps == <<online, pmPlayer, pmSession, playerOf, sessionOf>>

\* The initial maps are empty.
LEMMA InitMaps == Init => MapsInv
BY DEF Init, MapsInv, MapsTotal, CoreAgreesWithManager

\* A login enters both pairs of maps at once.
LEMMA LoginKeepsMaps ==
    ASSUME MapsInv, NEW m, OnAuthentication(m)
    PROVE  MapsInv'
<1>. USE DEF MapsInv, MapsTotal, CoreAgreesWithManager
<1>1. CASE UNCHANGED master
  BY <1>1 DEF master
<1>2. CASE Enter(m.player) /\ Seat(m.from, m.player)
  <2>1. MapsTotal'
    BY <1>2 DEF Seat
  <2>2. ASSUME NEW p \in Players, sessionOf'[p] # NoSession
        PROVE  p \in online' /\ pmSession'[p] = sessionOf'[p]
    BY <1>2, <2>2 DEF Enter, Seat
  <2>3. ASSUME NEW s \in Sessions, playerOf'[s] # NoPlayer
        PROVE  pmPlayer'[s] = playerOf'[s]
    BY <1>2, <2>3 DEF Seat
  <2>. QED
    BY <2>1, <2>2, <2>3
<1>. QED
  BY <1>1, <1>2 DEF OnAuthentication

\* A logout only removes entries of LogicCore.
LEMMA LogoutKeepsMaps ==
    ASSUME MapsInv, NEW m, OnPlayerDisconnected(m)
    PROVE  MapsInv'
BY DEF MapsInv, MapsTotal, CoreAgreesWithManager, OnPlayerDisconnected, Forget

\* No other step of the system changes the maps.
LEMMA StepKeepsMaps == MapsInv /\ [Next]_vars => MapsInv'
<1>. SUFFICES ASSUME MapsInv, [Next]_vars
              PROVE  MapsInv'
  OBVIOUS
<1>1. ASSUME NEW w \in Workers, RouteToGameLogic(w)
      PROVE  MapsInv'
  <2>. DEFINE m == Head(toMaster[w])
  <2>1. CASE OnAuthentication(m)
    BY <2>1, LoginKeepsMaps
  <2>2. CASE OnPlayerDisconnected(m)
    BY <2>2, LogoutKeepsMaps
  <2>3. CASE OnChat(m) \/ OnPlayerPosition(m)
    <3>1. UNCHANGED maps
      BY <2>3 DEF OnChat, OnPlayerPosition, master, maps
    <3>. QED
      BY <3>1 DEF maps, MapsInv, MapsTotal, CoreAgreesWithManager
  <2>. QED
    BY <1>1, <2>1, <2>2, <2>3 DEF RouteToGameLogic
<1>2. CASE UNCHANGED master
  BY <1>2 DEF master, MapsInv, MapsTotal, CoreAgreesWithManager
<1>3. ASSUME NEW w \in Workers, Accept(w) \/ OnMasterPush(w)
      PROVE  UNCHANGED master
  BY <1>3 DEF Accept, OnMasterPush
<1>4. ASSUME NEW s \in Sessions, ClientStep(s)
      PROVE  UNCHANGED master
  BY <1>4 DEF ClientStep, AskAuthentication, SendChat, SendPosition,
              SendDisconnect, onClientClose, onClientMessage
<1>5. CASE UNCHANGED vars
  BY <1>2, <1>5 DEF vars
<1>. QED
  BY <1>1, <1>2, <1>3, <1>4, <1>5 DEF Next

\* A player whom LogicCore seats at a session is online and PlayerManager
\* sends to the same session, in every reachable state.
THEOREM MapsAgree == Spec => []CoreAgreesWithManager
<1>1. MapsInv => CoreAgreesWithManager
  BY DEF MapsInv
<1>. QED
  BY <1>1, InitMaps, StepKeepsMaps, PTL DEF Spec
-----------------------------------------------------------------------------
(* Who sees whom.                                                          *)

Tells(push, kind, s, q) == push.kind = kind /\ push.to = s /\ push.player = q

\* Session s will know player q when it has got what is under way to it: the
\* last thing it hears of q is not that q left.
WillKnow(s, q) ==
    \E i \in 0..Len(toWorker[s.worker]) :
       /\ IF i = 0 THEN q \in known[s] ELSE Tells(toWorker[s.worker][i], "spawn", s, q)
       /\ \A j \in (i + 1)..Len(toWorker[s.worker]) : ~ Tells(toWorker[s.worker][j], "despawn", s, q)

Seen ==
    \A p, q \in Players, s \in sessions :
       s = sessionOf[p] /\ sessionOf[q] \in sessions \ {s} => WillKnow(s, q)

\* A session that will know q still will when pushes without a despawn of q to it
\* enter its channel.
LEMMA StillKnows ==
    ASSUME Base, NEW s \in Sessions, NEW q, NEW out \in Seq(Pushes),
           toWorker'[s.worker] = toWorker[s.worker] \o out, known' = known,
           \A i \in 1..Len(out) : ~ Tells(out[i], "despawn", s, q),
           WillKnow(s, q)
    PROVE  WillKnow(s, q)'
<1>. DEFINE queue == toWorker[s.worker]
            all == queue \o out
<1>1. queue \in Seq(Pushes)
  BY DEF Base, TypeOK, Sessions
<1>2. PICK i \in 0..Len(queue) :
         /\ IF i = 0 THEN q \in known[s] ELSE Tells(queue[i], "spawn", s, q)
         /\ \A j \in (i + 1)..Len(queue) : ~ Tells(queue[j], "despawn", s, q)
  BY DEF WillKnow
<1>. HIDE DEF queue
<1>3. /\ all \in Seq(Pushes) /\ Len(all) = Len(queue) + Len(out)
      /\ \A j \in 1..Len(queue) : all[j] = queue[j]
  BY <1>1, Joined
<1>4. \A j \in 1..Len(all) :
         \/ j \in 1..Len(queue) /\ all[j] = queue[j]
         \/ j - Len(queue) \in 1..Len(out) /\ all[j] = out[j - Len(queue)]
  BY <1>1, JoinedAll
<1>. HIDE DEF all
<1>5. Len(queue) \in Nat /\ Len(out) \in Nat /\ Len(all) = Len(queue) + Len(out)
  BY <1>1, <1>3
<1>6. i \in 0..Len(all) /\ (IF i = 0 THEN q \in known[s] ELSE Tells(all[i], "spawn", s, q))
  BY <1>2, <1>3, <1>5
<1>7. ASSUME NEW j \in (i + 1)..Len(all)
      PROVE  ~ Tells(all[j], "despawn", s, q)
  <2>1. j \in 1..Len(all) /\ (j \in 1..Len(queue) => j \in (i + 1)..Len(queue))
    BY <1>5
  <2>. QED
    BY <1>2, <1>4, <2>1
<1>8. toWorker'[s.worker] = all
  BY DEF all, queue
<1>. QED
  BY <1>6, <1>7, <1>8 DEF WillKnow

\* A session will know q when a spawn of q enters its channel.
LEMMA LearnsOf ==
    ASSUME Base, NEW s \in Sessions, NEW q, NEW out \in Seq(Pushes),
           toWorker'[s.worker] = toWorker[s.worker] \o out,
           \A i \in 1..Len(out) : ~ Tells(out[i], "despawn", s, q),
           Spawns(out, s, q)
    PROVE  WillKnow(s, q)'
<1>. DEFINE queue == toWorker[s.worker]
            all == queue \o out
<1>1. queue \in Seq(Pushes)
  BY DEF Base, TypeOK, Sessions
<1>2. PICK i \in 1..Len(out) : Tells(out[i], "spawn", s, q)
  BY DEF Spawns, Tells
<1>. HIDE DEF queue
<1>3. /\ all \in Seq(Pushes) /\ Len(all) = Len(queue) + Len(out)
      /\ \A j \in 1..Len(out) : all[Len(queue) + j] = out[j]
  BY <1>1, Joined
<1>. HIDE DEF all
<1>4. Len(queue) \in Nat /\ Len(out) \in Nat /\ Len(all) = Len(queue) + Len(out)
  BY <1>1, <1>3
<1>. DEFINE k == Len(queue) + i
<1>5. k \in 1..Len(all) /\ k # 0 /\ Tells(all[k], "spawn", s, q)
  BY <1>2, <1>3, <1>4
<1>6. ASSUME NEW j \in (k + 1)..Len(all)
      PROVE  ~ Tells(all[j], "despawn", s, q)
  <2>1. j - Len(queue) \in 1..Len(out) /\ j = Len(queue) + (j - Len(queue))
    BY <1>4
  <2>2. all[j] = out[j - Len(queue)]
    BY <1>3, <2>1
  <2>. QED
    BY <2>1, <2>2
<1>7. toWorker'[s.worker] = all
  BY DEF all, queue
<1>8. k \in 0..Len(all)
  BY <1>4, <1>5
<1>. HIDE DEF k
<1>. QED
  BY <1>5, <1>6, <1>7, <1>8 DEF WillKnow

\* A delivery takes effect on the session before it leaves the channel.
LEMMA KnowsOnReceipt ==
    ASSUME Base, NEW s \in sessions, NEW q, NEW w \in Workers, NEW push, Received(w, push),
           WillKnow(s, q)
    PROVE  WillKnow(s, q)'
<1>. DEFINE queue == toWorker[s.worker]
            rest == toWorker'[s.worker]
<1>1. s \in Sessions /\ s.worker \in Workers /\ queue \in Seq(Pushes)
  BY DEF Base, TypeOK, Sessions
<1>2. PICK i \in 0..Len(queue) :
         /\ IF i = 0 THEN q \in known[s] ELSE Tells(queue[i], "spawn", s, q)
         /\ \A j \in (i + 1)..Len(queue) : ~ Tells(queue[j], "despawn", s, q)
  BY DEF WillKnow
<1>3. known'[s] = IF push.kind = "spawn" /\ s = push.to THEN known[s] \cup {push.player}
                  ELSE IF push.kind = "despawn" /\ s = push.to
                  THEN known[s] \ {push.player} ELSE known[s]
  BY <1>1 DEF Received
<1>4. CASE w # s.worker
  <2>1. rest = queue
    BY <1>1, <1>4 DEF Received, Base, TypeOK
  <2>2. push.kind # "chat" => push.to # s
    BY <1>4 DEF Received
  <2>3. known'[s] = known[s]
    BY <1>3, <2>2
  <2>. QED
    BY <1>2, <2>1, <2>3 DEF WillKnow
<1>5. CASE w = s.worker
  <2>1. rest = Tail(queue) /\ queue # <<>> /\ push = queue[1]
    BY <1>1, <1>5 DEF Received, Base, TypeOK
  <2>. HIDE DEF queue, rest
  <2>2. /\ Len(queue) \in Nat /\ Len(queue) > 0 /\ Len(rest) = Len(queue) - 1
        /\ \A j \in 1..Len(rest) : rest[j] = queue[j + 1]
    BY <1>1, <2>1, Taken
  <2>3. CASE i > 1
    <3>. DEFINE k == i - 1
    <3>1. k \in 0..Len(rest) /\ k # 0 /\ Tells(rest[k], "spawn", s, q)
      BY <1>2, <2>2, <2>3
    <3>2. \A j \in (k + 1)..Len(rest) : ~ Tells(rest[j], "despawn", s, q)
      BY <1>2, <2>2, <2>3
    <3>. HIDE DEF k
    <3>. QED
      BY <3>1, <3>2 DEF WillKnow, rest
  <2>4. CASE i <= 1
    <3>1. \A j \in 1..Len(rest) : ~ Tells(rest[j], "despawn", s, q)
      BY <1>2, <2>2, <2>4
    <3>2. q \in known'[s]
      <4>1. CASE i = 0
        <5>1. ~ Tells(push, "despawn", s, q)
          BY <1>2, <2>1, <2>2, <4>1
        <5>. QED
          BY <1>2, <1>3, <4>1, <5>1 DEF Tells
      <4>2. CASE i = 1
        BY <1>2, <1>3, <2>1, <4>2 DEF Tells
      <4>. QED
        BY <2>4, <4>1, <4>2
    <3>3. 0 \in 0..Len(rest)
      BY <2>2
    <3>. QED
      BY <3>1, <3>2, <3>3 DEF WillKnow, rest
  <2>. QED
    BY <1>1, <2>3, <2>4
<1>. QED
  BY <1>4, <1>5

VisibilityInv == Base /\ MapsInv /\ Seen

\* Nobody is seated at first.
LEMMA InitSeen == Init => VisibilityInv
BY InitBase, InitMaps DEF Init, VisibilityInv, Seen

\* A player who is seated plays at an opened session.
LEMMA SeatedOpened ==
    ASSUME Base, MapsInv, NEW p \in Players, sessionOf[p] # NoSession
    PROVE  /\ p \in online /\ p \in players /\ pmSession[p] = sessionOf[p]
           /\ sessionOf[p] \in Opened
BY DEF Base, TypeOK, Registered, MapsInv, CoreAgreesWithManager

\* The null session is never open.
LEMMA NoSessionClosed == Base => NoSession \notin sessions
BY DEF Base, TypeOK, Sessions, NoSession

\* A login announces the newcomer to all who are seated elsewhere and them to it;
\* a logout despawns only the player who loses its seat.
LEMMA HandledKeepsSeen ==
    ASSUME VisibilityInv, NEW w \in Workers, NEW m, Handled(w, m), MapsInv'
    PROVE  Seen'
<1>1. Base /\ MapsInv /\ Base' /\ NoSession \notin sessions /\ sessions' = sessions /\ known' = known
  BY HandledKeepsBase, NoSessionClosed DEF VisibilityInv, Handled, worker, client
<1>2. PICK out : 
         /\ toWorker' = [v \in Workers |-> toWorker[v] \o out[v]]
         /\ \A v \in Workers : Replies(v, m, out[v])
         /\ \/ m.kind # "leave" /\ UNCHANGED sessionOf
            \/ m.kind = "leave" /\ Forget(m.from)
            \/ /\ m.kind = "auth" /\ sessionOf' = [sessionOf EXCEPT ![m.player] = m.from]
               /\ \A v \in Workers : Announces(v, m.from, m.player, out[v])
  BY DEF Handled, Replied
<1>. SUFFICES ASSUME NEW p \in Players, NEW q \in Players, NEW s \in sessions,
                     s = sessionOf'[p], sessionOf'[q] \in sessions \ {s}
              PROVE  WillKnow(s, q)'
  BY <1>1 DEF Seen
<1>3. s \in Sessions /\ s.worker \in Workers
  BY <1>1 DEF Base, TypeOK, Sessions
<1>4. out[s.worker] \in Seq(Pushes) /\ toWorker'[s.worker] = toWorker[s.worker] \o out[s.worker]
  BY <1>2, <1>3 DEF Replies
<1>5. ASSUME m.kind = "leave" => playerOf[m.from] # q
      PROVE  \A i \in 1..Len(out[s.worker]) : ~ Tells(out[s.worker][i], "despawn", s, q)
  BY <1>2, <1>3, <1>5 DEF Replies, Tells
<1>6. ASSUME sessionOf'[p] = sessionOf[p], sessionOf'[q] = sessionOf[q],
             m.kind = "leave" => playerOf[m.from] # q
      PROVE  WillKnow(s, q)'
  <2>1. WillKnow(s, q)
    BY <1>6 DEF VisibilityInv, Seen
  <2>. QED
    BY <1>1, <1>3, <1>4, <1>5, <1>6, <2>1, StillKnows
<1>7. CASE m.kind # "leave" /\ UNCHANGED sessionOf
  BY <1>6, <1>7
<1>8. CASE m.kind = "leave" /\ Forget(m.from)
  <2>1. \A x \in Players : sessionOf'[x] = IF x = playerOf[m.from] THEN NoSession ELSE sessionOf[x]
    BY <1>8 DEF Forget
  <2>. QED
    BY <1>1, <1>6, <2>1
<1>9. CASE /\ m.kind = "auth" /\ sessionOf' = [sessionOf EXCEPT ![m.player] = m.from]
           /\ \A v \in Workers : Announces(v, m.from, m.player, out[v])
  <2>1. /\ q \in online' /\ q \in players' /\ p \in online' /\ pmSession'[p] = s
        /\ \A x \in Players \ {m.player} : sessionOf'[x] = sessionOf[x]
        /\ m.player \in Players => sessionOf'[m.player] = m.from
    <3>1. sessionOf'[p] # NoSession /\ sessionOf'[q] # NoSession
      BY <1>1
    <3>2. sessionOf \in [Players -> Sessions \cup {NoSession}]
      BY <1>1 DEF Base, TypeOK
    <3>3. \A x \in Players : sessionOf'[x] # NoSession =>
             x \in online' /\ x \in players' /\ pmSession'[x] = sessionOf'[x]
      BY <1>1 DEF Base, TypeOK, MapsInv, CoreAgreesWithManager
    <3>. QED
      BY <1>9, <3>1, <3>2, <3>3
  <2>2. Announces(s.worker, m.from, m.player, out[s.worker])
    BY <1>3, <1>9
  <2>3. \A i \in 1..Len(out[s.worker]) : ~ Tells(out[s.worker][i], "despawn", s, q)
    BY <1>5, <1>9
  <2>4. CASE q = m.player
    <3>1. s # m.from /\ pmSession'[p] # m.from /\ pmSession'[p].worker = s.worker
      BY <2>1, <2>4
    <3>2. Spawns(out[s.worker], s, q)
      BY <2>1, <2>2, <2>4, <3>1 DEF Announces
    <3>. QED
      BY <1>1, <1>3, <1>4, <2>3, <3>2, LearnsOf
  <2>5. CASE p = m.player /\ q # m.player
    <3>1. s = m.from
      BY <2>1, <2>5
    <3>2. Spawns(out[s.worker], s, q)
      BY <2>1, <2>2, <2>5, <3>1 DEF Announces
    <3>. QED
      BY <1>1, <1>3, <1>4, <2>3, <3>2, LearnsOf
  <2>6. CASE p # m.player /\ q # m.player
    BY <1>6, <1>9, <2>1, <2>6
  <2>. QED
    BY <2>4, <2>5, <2>6
<1>. QED
  BY <1>2, <1>7, <1>8, <1>9

\* Every step keeps the visibility under way.
LEMMA StepKeepsSeen == VisibilityInv /\ [Next]_vars => VisibilityInv'
<1>. SUFFICES ASSUME VisibilityInv, [Next]_vars
              PROVE  VisibilityInv'
  OBVIOUS
<1>1. Base /\ MapsInv /\ Seen /\ Base' /\ MapsInv'
  BY StepKeepsBase, StepKeepsMaps DEF VisibilityInv
<1>2. ASSUME NEW w \in Workers, Accept(w)
      PROVE  Seen'
  <2>. DEFINE new == [worker |-> w, local |-> nextLocalSid[w]]
  <2>1. /\ sessions' = sessions \cup {new} /\ new \notin Opened
        /\ UNCHANGED <<toWorker, known, sessionOf>>
    BY <1>1, <1>2 DEF Accept, Base, TypeOK, Opened, master, client
  <2>. HIDE DEF new
  <2>2. \A p \in Players : sessionOf[p] \in sessions' => sessionOf[p] \in sessions
    <3>1. NoSession # new
      <4>1. NoSession \notin sessions'
        BY <1>1, NoSessionClosed DEF Base, TypeOK, Sessions, NoSession
      <4>. QED
        BY <2>1, <4>1
    <3>. QED
      BY <1>1, <2>1, <3>1, SeatedOpened
  <2>3. \A s \in sessions' : \A q : WillKnow(s, q) => WillKnow(s, q)'
    BY <2>1 DEF WillKnow
  <2>. QED
    BY <1>1, <2>1, <2>2, <2>3 DEF Seen
<1>3. ASSUME NEW w \in Workers, RouteToGameLogic(w)
      PROVE  Seen'
  BY <1>1, <1>3, MasterRoutes, HandledKeepsSeen
<1>4. ASSUME NEW w \in Workers, OnMasterPush(w)
      PROVE  Seen'
  <2>1. PICK push : Received(w, push)
    BY <1>1, <1>4, WorkerReceives
  <2>2. UNCHANGED <<sessions, sessionOf>>
    BY <2>1 DEF Received, worker, master
  <2>3. \A s \in sessions, q \in Players : WillKnow(s, q) => WillKnow(s, q)'
    BY <1>1, <2>1, KnowsOnReceipt
  <2>. QED
    BY <1>1, <2>2, <2>3 DEF Seen
<1>5. ASSUME UNCHANGED <<toWorker, known, sessionOf>>, sessions' \subseteq sessions
      PROVE  Seen'
  <2>1. \A s \in sessions' : \A q : WillKnow(s, q) => WillKnow(s, q)'
    BY <1>5 DEF WillKnow
  <2>. QED
    BY <1>1, <1>5, <2>1 DEF Seen
<1>6. ASSUME NEW s \in Sessions, ClientStep(s)
      PROVE  Seen'
  BY <1>5, <1>6 DEF ClientStep, AskAuthentication, SendChat, SendPosition, SendDisconnect,
                    onClientMessage, onClientClose, master, client
<1>7. ASSUME UNCHANGED vars
      PROVE  Seen'
  BY <1>5, <1>7 DEF vars, worker, master, client
<1>8. Seen'
  BY <1>2, <1>3, <1>4, <1>6, <1>7 DEF Next
<1>. QED
  BY <1>1, <1>8 DEF VisibilityInv

\* For every number of workers, sessions and players: when nothing is under way,
\* two players at different sessions that are open see each other.
THEOREM PlayersSeeEachOther == Spec => []MutualVisibility
<1>1. VisibilityInv => MutualVisibility
  <2>. SUFFICES ASSUME VisibilityInv, Quiet, NEW p \in Players, NEW q \in Players,
                       {sessionOf[p], sessionOf[q]} \subseteq sessions,
                       sessionOf[p] # sessionOf[q]
                PROVE  q \in known[sessionOf[p]] /\ p \in known[sessionOf[q]]
    BY DEF MutualVisibility
  <2>1. \A s \in sessions : \A x : WillKnow(s, x) => x \in known[s]
    BY DEF VisibilityInv, Base, TypeOK, Sessions, Quiet, WillKnow
  <2>2. WillKnow(sessionOf[p], q) /\ WillKnow(sessionOf[q], p)
    BY DEF VisibilityInv, Seen
  <2>. QED
    BY <2>1, <2>2
<1>. QED
  BY <1>1, InitSeen, StepKeepsSeen, PTL DEF Spec

\* For all values of the constants, the variables have their types.
THEOREM SessionTypes == Spec => []TypeOK
<1>1. Base => TypeOK
  BY DEF Base
<1>. QED
  BY <1>1, InitBase, StepKeepsBase, PTL DEF Spec
-----------------------------------------------------------------------------
(* What a queue carries of one kind.                                       *)

\* x lists, in order, the elements of q at the places in S.
Lists(x, q, S) ==
    \E e : /\ Enumerates(e, Len(x), S)
           /\ \A i \in 1..Len(x) : x[i] = q[e[i]]

\* S is a set of places in q.
Places(S, q) == S \in SUBSET Nat /\ S \subseteq 1..Len(q)

\* No places, nothing listed.
LEMMA ListsNothing ==
    ASSUME NEW q
    PROVE  Lists(<<>>, q, {})
<1>1. Enumerates([i \in 1..0 |-> 0], 0, {})
  BY DEF Enumerates
<1>. QED
  BY <1>1 DEF Lists

\* What enters at the end leaves the places as they are.
LEMMA ListsSame ==
    ASSUME NEW M, NEW q \in Seq(M), NEW r \in Seq(M), NEW x \in Seq(M), NEW S,
           Places(S, q), Lists(x, q, S)
    PROVE  Lists(x, q \o r, S) /\ Places(S, q \o r)
<1>1. PICK e : Enumerates(e, Len(x), S) /\ \A i \in 1..Len(x) : x[i] = q[e[i]]
  BY DEF Lists
<1>. DEFINE all == q \o r
<1>2. Len(q) \in Nat /\ Len(all) \in Nat /\ Len(q) <= Len(all) /\ \A i \in 1..Len(q) : all[i] = q[i]
  BY Joined
<1>. HIDE DEF all
<1>3. ASSUME NEW i \in 1..Len(x)
      PROVE  x[i] = all[e[i]]
  <2>1. e[i] \in 1..Len(q)
    BY <1>1 DEF Enumerates, Places
  <2>. QED
    BY <1>1, <1>2, <2>1
<1>4. Places(S, all)
  BY <1>2 DEF Places
<1>. QED
  BY <1>1, <1>3, <1>4 DEF Lists, all

\* One more place at the end.
LEMMA ListsMore ==
    ASSUME NEW M, NEW q \in Seq(M), NEW r \in Seq(M), NEW x \in Seq(M), NEW S,
           Places(S, q), Lists(x, q, S), NEW j \in 1..Len(r)
    PROVE  /\ Lists(Append(x, r[j]), q \o r, S \cup {Len(q) + j})
           /\ Places(S \cup {Len(q) + j}, q \o r)
<1>1. PICK e : Enumerates(e, Len(x), S) /\ \A i \in 1..Len(x) : x[i] = q[e[i]]
  BY DEF Lists
<1>. DEFINE all == q \o r
            new == Len(q) + j
            n == Len(x)
            y == Append(x, r[j])
            f == [i \in 1..n + 1 |-> IF i = n + 1 THEN new ELSE e[i]]
<1>2. /\ Len(all) = Len(q) + Len(r) /\ Len(q) \in Nat /\ Len(r) \in Nat
      /\ \A i \in 1..Len(q) : all[i] = q[i]
      /\ all[new] = r[j]
  BY Joined
<1>3. n \in Nat /\ new \in Nat /\ S \in SUBSET Nat /\ \A i \in S : i < new
  BY <1>2 DEF Places
<1>4. Enumerates(f, n + 1, S \cup {new})
  BY <1>1, <1>3, EnumerateMore
<1>5. Len(y) = n + 1 /\ y[n + 1] = r[j] /\ \A i \in 1..n : y[i] = x[i]
  <2>1. r[j] \in M
    OBVIOUS
  <2>. QED
    BY <2>1, Put
<1>6. f[n + 1] = new /\ \A i \in 1..n : f[i] = e[i]
  BY <1>3
<1>. HIDE DEF all, f, y, new, n
<1>7. ASSUME NEW i \in 1..n + 1
      PROVE  y[i] = all[f[i]]
  <2>1. CASE i = n + 1
    BY <1>2, <1>5, <1>6, <2>1
  <2>2. CASE i \in 1..n
    <3>1. e[i] \in 1..Len(q) /\ f[i] = e[i]
      BY <1>1, <1>6, <2>2 DEF Enumerates, Places, n
    <3>. QED
      BY <1>1, <1>2, <1>5, <2>2, <3>1 DEF n
  <2>. QED
    BY <1>3, <2>1, <2>2
<1>8. Places(S \cup {new}, all)
  <2>1. new \in 1..Len(all)
    BY <1>2 DEF new
  <2>. QED
    BY <1>2, <1>3, <2>1 DEF Places
<1>9. Lists(y, all, S \cup {new})
  BY <1>4, <1>5, <1>7, SMTT(20) DEF Lists
<1>. QED
  BY <1>8, <1>9 DEF y, all, new

\* The places in S once the first element is gone.
Behind(S) == {i \in Nat \ {0} : i + 1 \in S}

\* The head goes: either the first of the list, or none of it.
LEMMA ListsBehind ==
    ASSUME NEW M, NEW q \in Seq(M), q # <<>>, NEW x \in Seq(M), NEW S,
           Places(S, q), Lists(x, q, S)
    PROVE  /\ Places(Behind(S), Tail(q))
           /\ 1 \notin S => Lists(x, Tail(q), Behind(S))
           /\ 1 \in S => x # <<>> /\ x[1] = q[1] /\ Lists(Tail(x), Tail(q), Behind(S))
<1>1. PICK e : Enumerates(e, Len(x), S) /\ \A i \in 1..Len(x) : x[i] = q[e[i]]
  BY DEF Lists
<1>. DEFINE rest == Tail(q)
            n == Len(x)
<1>2. /\ Len(q) \in Nat /\ Len(q) > 0 /\ Len(rest) = Len(q) - 1
      /\ \A i \in 1..Len(rest) : rest[i] = q[i + 1]
  BY Taken
<1>3. n \in Nat /\ S \in SUBSET Nat /\ 0 \notin S /\ S \subseteq 1..Len(q)
  BY DEF Places
<1>. HIDE DEF rest, n
<1>4. Places(Behind(S), rest)
  BY <1>2, <1>3 DEF Places, Behind
<1>5. ASSUME 1 \notin S
      PROVE  Lists(x, rest, Behind(S))
  <2>. DEFINE f == [i \in 1..n |-> e[i] - 1]
  <2>1. Enumerates(f, n, Behind(S))
    BY <1>1, <1>3, <1>5, EnumerateShifted DEF Behind, n
  <2>2. ASSUME NEW i \in 1..n
        PROVE  x[i] = rest[f[i]]
    <3>1. e[i] \in S /\ e[i] \in Nat /\ e[i] # 1 /\ e[i] \in 1..Len(q) /\ f[i] = e[i] - 1
      BY <1>1, <1>3, <1>5 DEF Enumerates, n
    <3>. HIDE DEF f
    <3>2. f[i] \in 1..Len(rest) /\ f[i] + 1 = e[i]
      BY <1>2, <3>1
    <3>. QED
      BY <1>1, <1>2, <3>2 DEF n
  <2>. HIDE DEF f
  <2>. QED
    BY <2>1, <2>2 DEF Lists, n
<1>6. ASSUME 1 \in S
      PROVE  x # <<>> /\ x[1] = q[1] /\ Lists(Tail(x), rest, Behind(S))
  <2>. DEFINE f == [i \in 1..n - 1 |-> e[i + 1] - 1]
  <2>1. n > 0 /\ e[1] = 1 /\ Enumerates(f, n - 1, Behind(S))
    BY <1>1, <1>3, <1>6, EnumerateRest DEF Behind, n
  <2>2. x # <<>> /\ x[1] = q[1]
    BY <1>1, <1>3, <2>1 DEF n
  <2>3. /\ Len(Tail(x)) = n - 1
        /\ \A i \in 1..Len(Tail(x)) : i + 1 \in 1..n /\ Tail(x)[i] = x[i + 1]
    BY <2>2, Taken DEF n
  <2>4. ASSUME NEW i \in 1..n - 1
        PROVE  Tail(x)[i] = rest[f[i]]
    <3>1. i + 1 \in 1..n /\ 1 < i + 1
      BY <1>3, <2>1
    <3>. DEFINE k == e[i + 1]
    <3>2. k \in 1..Len(q) /\ 1 < k /\ f[i] = k - 1
      BY <1>1, <1>3, <2>1, <3>1 DEF Enumerates, n
    <3>. HIDE DEF f, k
    <3>3. f[i] \in 1..Len(rest) /\ f[i] + 1 = k
      BY <1>2, <3>2
    <3>. QED
      BY <1>1, <1>2, <2>3, <3>1, <3>3 DEF n, k
  <2>. HIDE DEF f
  <2>5. Lists(Tail(x), rest, Behind(S))
    BY <2>1, <2>3, <2>4, ZenonT(30) DEF Lists
  <2>. QED
    BY <2>2, <2>5
<1>. QED
  BY <1>4, <1>5, <1>6 DEF rest

\* The places in q of the messages of K.
At(K, q) == {i \in 1..Len(q) : q[i] \in K}

\* x lists the messages of K that q carries.
Carries(x, q, K) == x \in Seq(K) /\ Lists(x, q, At(K, q))

\* At gives places of the queue.
LEMMA AtPlaces ==
    ASSUME NEW M, NEW q \in Seq(M), NEW K
    PROVE  Places(At(K, q), q)
BY DEF At, Places

\* An empty queue carries nothing.
LEMMA CarriesNothing ==
    ASSUME NEW K
    PROVE  Carries(<<>>, <<>>, K)
<1>1. At(K, <<>>) = {}
  BY DEF At
<1>. QED
  BY <1>1, ListsNothing DEF Carries

\* Messages outside K change nothing of what is carried of K.
LEMMA CarriesSame ==
    ASSUME NEW M, NEW q \in Seq(M), NEW r \in Seq(M), NEW K \in SUBSET M, NEW x, Carries(x, q, K),
           \A i \in 1..Len(r) : r[i] \notin K
    PROVE  Carries(x, q \o r, K)
<1>1. x \in Seq(K) /\ x \in Seq(M) /\ Lists(x, q, At(K, q))
  BY DEF Carries
<1>2. Lists(x, q \o r, At(K, q))
  BY <1>1, AtPlaces, ListsSame
<1>. DEFINE all == q \o r
<1>3. /\ Len(q) \in Nat /\ Len(r) \in Nat /\ Len(all) = Len(q) + Len(r)
      /\ \A i \in 1..Len(q) : all[i] = q[i]
  BY Joined
<1>4. \A i \in 1..Len(all) :
         \/ i \in 1..Len(q) /\ all[i] = q[i]
         \/ i - Len(q) \in 1..Len(r) /\ all[i] = r[i - Len(q)]
  BY JoinedAll
<1>. HIDE DEF all
<1>5. At(K, all) = At(K, q)
  <2>1. \A i \in At(K, all) : i \in At(K, q)
    BY <1>4 DEF At
  <2>2. \A i \in At(K, q) : i \in At(K, all)
    BY <1>3 DEF At
  <2>. QED
    BY <2>1, <2>2
<1>. QED
  BY <1>1, <1>2, <1>5 DEF Carries, all

\* One message of K among those that enter is the last one carried.
LEMMA CarriesMore ==
    ASSUME NEW M, NEW q \in Seq(M), NEW r \in Seq(M), NEW K \in SUBSET M, NEW x, Carries(x, q, K),
           NEW j \in 1..Len(r), r[j] \in K, \A i \in 1..Len(r) : i # j => r[i] \notin K
    PROVE  Carries(Append(x, r[j]), q \o r, K)
<1>1. x \in Seq(K) /\ x \in Seq(M) /\ Lists(x, q, At(K, q))
  BY DEF Carries
<1>2. Lists(Append(x, r[j]), q \o r, At(K, q) \cup {Len(q) + j})
  BY <1>1, AtPlaces, ListsMore
<1>. DEFINE all == q \o r
            new == Len(q) + j
<1>3. /\ Len(q) \in Nat /\ Len(r) \in Nat /\ Len(all) = Len(q) + Len(r)
      /\ \A i \in 1..Len(q) : all[i] = q[i]
      /\ all[new] = r[j]
  BY Joined
<1>4. \A i \in 1..Len(all) :
         \/ i \in 1..Len(q) /\ all[i] = q[i]
         \/ i - Len(q) \in 1..Len(r) /\ all[i] = r[i - Len(q)]
  BY JoinedAll
<1>. HIDE DEF all
<1>5. At(K, all) = At(K, q) \cup {new}
  <2>1. ASSUME NEW i \in At(K, all)
        PROVE  i \in At(K, q) \cup {new}
    <3>1. i \in 1..Len(all) /\ all[i] \in K
      BY DEF At
    <3>2. CASE i \in 1..Len(q) /\ all[i] = q[i]
      BY <3>1, <3>2 DEF At
    <3>3. CASE i - Len(q) \in 1..Len(r) /\ all[i] = r[i - Len(q)]
      <4>1. i - Len(q) = j
        BY <3>1, <3>3
      <4>. QED
        BY <1>3, <3>1, <4>1
    <3>. QED
      BY <1>4, <3>1, <3>2, <3>3
  <2>2. \A i \in At(K, q) : i \in At(K, all)
    BY <1>3 DEF At
  <2>3. new \in At(K, all)
    BY <1>3 DEF At
  <2>. QED
    BY <2>1, <2>2, <2>3
<1>6. Append(x, r[j]) \in Seq(K)
  BY <1>1, Put
<1>. QED
  BY <1>2, <1>5, <1>6 DEF Carries, all

\* The head of the queue is the first of what is carried, or outside K.
LEMMA CarriesRest ==
    ASSUME NEW M, NEW q \in Seq(M), q # <<>>, NEW K \in SUBSET M, NEW x, Carries(x, q, K)
    PROVE  /\ q[1] \notin K => Carries(x, Tail(q), K)
           /\ q[1] \in K => x # <<>> /\ x[1] = q[1] /\ Carries(Tail(x), Tail(q), K)
<1>1. x \in Seq(K) /\ x \in Seq(M) /\ Lists(x, q, At(K, q)) /\ Places(At(K, q), q)
  BY AtPlaces DEF Carries
<1>2. /\ Len(q) \in Nat /\ Len(q) > 0 /\ Len(Tail(q)) = Len(q) - 1
      /\ \A i \in 1..Len(Tail(q)) : Tail(q)[i] = q[i + 1]
  BY Taken
<1>3. Behind(At(K, q)) = At(K, Tail(q))
  <2>1. \A i \in Behind(At(K, q)) : i \in At(K, Tail(q))
    BY <1>2 DEF At, Behind
  <2>2. \A i \in At(K, Tail(q)) : i \in Behind(At(K, q))
    BY <1>2 DEF At, Behind
  <2>. QED
    BY <2>1, <2>2
<1>4. 1 \in At(K, q) <=> q[1] \in K
  BY <1>2 DEF At
<1>5. /\ 1 \notin At(K, q) => Lists(x, Tail(q), Behind(At(K, q)))
      /\ 1 \in At(K, q) => x # <<>> /\ x[1] = q[1] /\ Lists(Tail(x), Tail(q), Behind(At(K, q)))
  BY <1>1, ListsBehind
<1>6. x # <<>> => Tail(x) \in Seq(K)
  BY <1>1, Taken
<1>. QED
  BY <1>1, <1>3, <1>4, <1>5, <1>6 DEF Carries

\* Append as a concatenation.
LEMMA Single ==
    ASSUME NEW S, NEW q \in Seq(S), NEW m \in S
    PROVE  /\ <<m>> \in Seq(S) /\ Len(<<m>>) = 1 /\ <<m>>[1] = m
           /\ Append(q, m) = q \o <<m>>
OBVIOUS

\* A queue without messages of K carries none.
LEMMA CarriesNone ==
    ASSUME NEW q, NEW K, \A i \in 1..Len(q) : q[i] \notin K
    PROVE  Carries(<<>>, q, K)
<1>1. At(K, q) = {}
  BY DEF At
<1>. QED
  BY <1>1, ListsNothing DEF Carries
-----------------------------------------------------------------------------
(* The answers under way.                                                  *)

AnswersTo(s) == {m \in Pushes : m.kind = "auth" /\ m.to = s}
LoginsOf(s) == {m \in Requests : m.kind = "auth" /\ m.from = s}

\* x are the answers under way to session s and y its logins under way to the
\* master: with the answers it got, they make up the logins it asked for.
AnswersAndLogins(s, x, y) ==
    /\ Len(answers[s]) + Len(x) + Len(y) = Len(asked[s])
    /\ \A i \in 1..Len(x) : x[i].player \in {asked[s][Len(answers[s]) + i], NoPlayer}
    /\ \A i \in 1..Len(y) : y[i].player = asked[s][Len(answers[s]) + Len(x) + i]

AnswerFlow(s) ==
    \E x, y : /\ Carries(x, toWorker[s.worker], AnswersTo(s))
              /\ Carries(y, toMaster[s.worker], LoginsOf(s))
              /\ AnswersAndLogins(s, x, y)

\* Answers are pushes, and logins are requests.
LEMMA FlowSets ==
    ASSUME NEW s
    PROVE  AnswersTo(s) \in SUBSET Pushes /\ LoginsOf(s) \in SUBSET Requests
BY DEF AnswersTo, LoginsOf

\* A new session has no answers and no logins under way.
LEMMA AcceptKeepsFlow ==
    ASSUME Base, NEW w \in Workers, Accept(w), NEW s \in sessions',
           s \in sessions => AnswerFlow(s)
    PROVE  AnswerFlow(s)'
<1>1. UNCHANGED <<toWorker, toMaster, answers, asked>>
  BY DEF Accept, client
<1>2. CASE s \in sessions
  BY <1>1, <1>2 DEF AnswerFlow, AnswersAndLogins
<1>3. CASE s \notin sessions
  <2>1. s = [worker |-> w, local |-> nextLocalSid[w]]
    BY <1>3 DEF Accept
  <2>2. s \in Sessions /\ s.worker \in Workers /\ s \notin Opened
    <3>1. Base'
      BY AcceptKeepsBase
    <3>. QED
      BY <2>1, <3>1 DEF Base, TypeOK, Opened, Sessions
  <2>3. answers[s] = <<>> /\ asked[s] = <<>>
    BY <2>2 DEF Base, Registered
  <2>4. \A i \in 1..Len(toWorker[s.worker]) : toWorker[s.worker][i] \notin AnswersTo(s)
    BY <2>2 DEF Base, Registered, AnswersTo
  <2>5. \A i \in 1..Len(toMaster[s.worker]) : toMaster[s.worker][i] \notin LoginsOf(s)
    BY <2>2 DEF Base, Registered, LoginsOf
  <2>6. /\ Carries(<<>>, toWorker[s.worker], AnswersTo(s))
        /\ Carries(<<>>, toMaster[s.worker], LoginsOf(s))
    BY <2>4, <2>5, CarriesNone
  <2>7. AnswersAndLogins(s, <<>>, <<>>)'
    BY <1>1, <2>3 DEF AnswersAndLogins
  <2>. QED
    BY <1>1, <2>6, <2>7 DEF AnswerFlow
<1>. QED
  BY <1>2, <1>3

\* A login that is sent is the last under way.
LEMMA SentKeepsFlow ==
    ASSUME Base, NEW t, NEW m, Sent(t, m), NEW s \in sessions, AnswerFlow(s)
    PROVE  AnswerFlow(s)'
<1>1. /\ s \in Sessions /\ s.worker \in Workers /\ t \in Sessions /\ t.worker \in Workers
      /\ toMaster[s.worker] \in Seq(Requests) /\ m \in Requests /\ m.from = t
      /\ toMaster \in [Workers -> Seq(Requests)]
      /\ asked \in [Sessions -> Seq(Players)]
      /\ Len(answers[s]) \in Nat
  <2>1. s \in Sessions /\ t \in Sessions /\ m \in Requests /\ m.from = t
    BY DEF Base, TypeOK, Sent
  <2>2. s.worker \in Workers /\ t.worker \in Workers
    BY <2>1 DEF Sessions
  <2>. QED
    BY <2>1, <2>2, SMTT(20) DEF Base, TypeOK
<1>2. UNCHANGED <<toWorker, answers>>
  BY DEF Sent
<1>3. PICK x, y : /\ Carries(x, toWorker[s.worker], AnswersTo(s))
                  /\ Carries(y, toMaster[s.worker], LoginsOf(s))
                  /\ AnswersAndLogins(s, x, y)
  BY DEF AnswerFlow
<1>4. Len(x) \in Nat /\ Len(y) \in Nat /\ y \in Seq(LoginsOf(s))
  BY <1>3 DEF Carries
<1>5. PICK a \in Nat, b \in Nat, c \in Nat :
         Len(answers[s]) = a /\ Len(x) = b /\ Len(y) = c /\ Len(asked[s]) = a + b + c
  BY <1>1, <1>3, <1>4 DEF AnswersAndLogins
<1>6. CASE m \notin LoginsOf(s)
  <2>1. asked'[s] = asked[s]
    BY <1>1, <1>6 DEF Sent, LoginsOf
  <2>2. Carries(y, toMaster'[s.worker], LoginsOf(s))
    <3>1. CASE s.worker # t.worker
      BY <1>1, <1>3, <3>1 DEF Sent
    <3>2. CASE s.worker = t.worker
      <4>1. toMaster'[s.worker] = Append(toMaster[s.worker], m)
        BY <1>1, <3>2 DEF Sent
      <4>2. /\ <<m>> \in Seq(Requests) /\ Append(toMaster[s.worker], m) = toMaster[s.worker] \o <<m>>
            /\ \A i \in 1..Len(<<m>>) : <<m>>[i] \notin LoginsOf(s)
        BY <1>1, <1>6, Single
      <4>3. Carries(y, toMaster[s.worker] \o <<m>>, LoginsOf(s))
        BY <1>1, <1>3, <4>2, CarriesSame, FlowSets
      <4>. QED
        BY <4>1, <4>2, <4>3
    <3>. QED
      BY <3>1, <3>2
  <2>3. AnswersAndLogins(s, x, y)'
    BY <1>2, <1>3, <2>1 DEF AnswersAndLogins
  <2>. QED
    BY <1>2, <1>3, <2>2, <2>3 DEF AnswerFlow
<1>7. CASE m \in LoginsOf(s)
  <2>1. /\ t = s /\ m.player \in Players
        /\ asked'[s] = Append(asked[s], m.player)
    BY <1>1, <1>7, RequestFields DEF Sent, LoginsOf
  <2>. DEFINE z == Append(y, m)
  <2>2. Carries(z, toMaster'[s.worker], LoginsOf(s))
    <3>1. /\ <<m>> \in Seq(Requests) /\ toMaster'[s.worker] = toMaster[s.worker] \o <<m>>
          /\ Len(<<m>>) = 1 /\ <<m>>[1] = m
      <4>1. toMaster'[s.worker] = Append(toMaster[s.worker], m)
        BY <1>1, <2>1 DEF Sent
      <4>2. /\ <<m>> \in Seq(Requests) /\ Append(toMaster[s.worker], m) = toMaster[s.worker] \o <<m>>
            /\ Len(<<m>>) = 1 /\ <<m>>[1] = m
        BY <1>1, Single
      <4>. QED
        BY <4>1, <4>2
    <3>2. \A i \in 1..Len(<<m>>) : i # 1 => <<m>>[i] \notin LoginsOf(s)
      BY <3>1
    <3>3. 1 \in 1..Len(<<m>>)
      BY <3>1
    <3>4. Carries(Append(y, <<m>>[1]), toMaster[s.worker] \o <<m>>, LoginsOf(s))
      BY <1>1, <1>3, <1>7, <3>1, <3>2, <3>3, CarriesMore, FlowSets
    <3>. QED
      BY <3>1, <3>4
  <2>3. /\ Len(asked'[s]) = Len(asked[s]) + 1 /\ asked'[s][Len(asked[s]) + 1] = m.player
        /\ \A i \in 1..Len(asked[s]) : asked'[s][i] = asked[s][i]
        /\ Len(asked[s]) \in Nat
    BY <1>1, <2>1, Put
  <2>4. /\ Len(z) = Len(y) + 1 /\ z[Len(y) + 1] = m
        /\ \A i \in 1..Len(y) : z[i] = y[i]
    BY <1>4, <1>7, Put
  <2>. HIDE DEF z
  <2>5. AnswersAndLogins(s, x, z)'
    <3>1. Len(answers[s]) + Len(x) + Len(z) = Len(asked'[s])
      BY <1>5, <2>3, <2>4
    <3>2. ASSUME NEW i \in 1..Len(x)
          PROVE  x[i].player \in {asked'[s][Len(answers[s]) + i], NoPlayer}
      <4>1. Len(answers[s]) + i \in 1..Len(asked[s])
        BY <1>5
      <4>. QED
        BY <1>3, <2>3, <4>1 DEF AnswersAndLogins
    <3>3. ASSUME NEW i \in 1..Len(z)
          PROVE  z[i].player = asked'[s][Len(answers[s]) + Len(x) + i]
      <4>1. CASE i = Len(y) + 1
        <5>1. Len(answers[s]) + Len(x) + i = Len(asked[s]) + 1
          BY <1>5, <4>1
        <5>2. z[i].player = m.player /\ asked'[s][Len(asked[s]) + 1] = m.player
          BY <2>3, <2>4, <4>1
        <5>. QED
          BY <5>1, <5>2
      <4>2. CASE i # Len(y) + 1
        <5>1. i \in 1..Len(y) /\ Len(answers[s]) + Len(x) + i \in 1..Len(asked[s])
          BY <1>5, <2>4, <4>2
        <5>. QED
          BY <1>3, <2>3, <2>4, <5>1 DEF AnswersAndLogins
      <4>. QED
        BY <4>1, <4>2
    <3>. QED
      BY <1>2, <3>1, <3>2, <3>3 DEF AnswersAndLogins
  <2>. QED
    BY <1>2, <1>3, <2>2, <2>5 DEF AnswerFlow
<1>. QED
  BY <1>6, <1>7

\* The login that is handled becomes the last answer under way.
LEMMA HandledKeepsFlow ==
    ASSUME Base, NEW w \in Workers, NEW m, Handled(w, m), NEW s \in sessions, AnswerFlow(s)
    PROVE  AnswerFlow(s)'
<1>. DEFINE v == s.worker
<1>1. s \in Sessions /\ v \in Workers /\ UNCHANGED <<answers, asked>>
  BY DEF Base, TypeOK, Sessions, Handled, client
<1>2. /\ toMaster \in [Workers -> Seq(Requests)] /\ toMaster[v] \in Seq(Requests)
      /\ toWorker[v] \in Seq(Pushes)
      /\ m \in Requests /\ m.from.worker = w /\ toMaster[w] # <<>> /\ m = toMaster[w][1]
  BY <1>1 DEF Base, TypeOK, Handled
<1>3. PICK x, y : /\ Carries(x, toWorker[v], AnswersTo(s))
                  /\ Carries(y, toMaster[v], LoginsOf(s))
                  /\ AnswersAndLogins(s, x, y)
  BY DEF AnswerFlow
<1>4. PICK out : /\ toWorker' = [u \in Workers |-> toWorker[u] \o out[u]]
                 /\ \A u \in Workers : Replies(u, m, out[u])
  BY DEF Handled, Replied
<1>5. out[v] \in Seq(Pushes) /\ toWorker'[v] = toWorker[v] \o out[v]
  BY <1>1, <1>4 DEF Replies
<1>6. ASSUME NEW i \in 1..Len(out[v]), out[v][i] \in AnswersTo(s)
      PROVE  /\ m \in LoginsOf(s) /\ v = w /\ i = Len(out[v])
             /\ out[v][i].player \in {m.player, NoPlayer}
  BY <1>1, <1>2, <1>4, <1>6 DEF Replies, AnswersTo, LoginsOf
<1>7. CASE m \notin LoginsOf(s)
  <2>1. Carries(x, toWorker[v] \o out[v], AnswersTo(s))
    BY <1>2, <1>3, <1>5, <1>6, <1>7, CarriesSame, FlowSets
  <2>2. Carries(y, toMaster'[v], LoginsOf(s))
    <3>1. CASE v # w
      BY <1>1, <1>2, <1>3, <3>1 DEF Handled
    <3>2. CASE v = w
      <4>1. toMaster'[v] = Tail(toMaster[v]) /\ toMaster[v][1] \notin LoginsOf(s) /\ toMaster[v] # <<>>
        BY <1>1, <1>2, <1>7, <3>2 DEF Handled
      <4>2. Carries(y, Tail(toMaster[v]), LoginsOf(s))
        BY <1>2, <1>3, <4>1, CarriesRest, FlowSets
      <4>. QED
        BY <4>1, <4>2
    <3>. QED
      BY <3>1, <3>2
  <2>3. AnswersAndLogins(s, x, y)'
    BY <1>1, <1>3 DEF AnswersAndLogins
  <2>. QED
    BY <1>5, <2>1, <2>2, <2>3 DEF AnswerFlow
<1>8. CASE m \in LoginsOf(s)
  <2>1. m.kind = "auth" /\ m.from = s /\ v = w /\ m = toMaster[v][1] /\ toMaster[v] # <<>>
    BY <1>2, <1>8 DEF LoginsOf
  <2>. DEFINE last == Len(out[v])
              answer == out[v][last]
  <2>2. last \in 1..Len(out[v]) /\ answer \in AnswersTo(s) /\ answer.player \in {m.player, NoPlayer}
    <3>1. Replies(v, m, out[v])
      BY <1>1, <1>4
    <3>2. last \in 1..Len(out[v]) /\ answer.kind = "auth" /\ answer.to = s
          /\ answer.player \in {m.player, NoPlayer}
      BY <1>5, <2>1, <3>1 DEF Replies
    <3>3. answer \in Pushes
      BY <1>5, <3>2
    <3>. QED
      BY <3>2, <3>3 DEF AnswersTo
  <2>3. Carries(Append(x, answer), toWorker[v] \o out[v], AnswersTo(s))
    BY <1>2, <1>3, <1>5, <1>6, <2>2, CarriesMore, FlowSets
  <2>4. toMaster'[v] = Tail(toMaster[v])
    BY <1>1, <1>2, <2>1 DEF Handled
  <2>5. y # <<>> /\ y[1] = m /\ Carries(Tail(y), Tail(toMaster[v]), LoginsOf(s))
    BY <1>2, <1>3, <1>8, <2>1, CarriesRest, FlowSets
  <2>. DEFINE x2 == Append(x, answer)
              y2 == Tail(y)
  <2>6. PICK a \in Nat, b \in Nat, c \in Nat :
           Len(answers[s]) = a /\ Len(x) = b /\ Len(y) = c /\ Len(asked[s]) = a + b + c
    BY <1>1, <1>3 DEF Carries, AnswersAndLogins, Base, TypeOK
  <2>7. /\ Len(x2) = b + 1 /\ x2[b + 1] = answer
        /\ \A i \in 1..b : x2[i] = x[i]
    BY <1>3, <2>2, <2>6, Put DEF Carries
  <2>8. /\ c > 0 /\ Len(y2) = c - 1
        /\ \A i \in 1..c - 1 : y2[i] = y[i + 1]
    BY <1>3, <2>5, <2>6, Taken DEF Carries
  <2>9. /\ \A i \in 1..b : x[i].player \in {asked[s][a + i], NoPlayer}
        /\ \A i \in 1..c : y[i].player = asked[s][a + b + i]
    BY <1>3, <2>6 DEF AnswersAndLogins
  <2>. HIDE DEF x2, y2, answer
  <2>10. /\ Len(answers[s]) + Len(x2) + Len(y2) = Len(asked[s])
         /\ \A i \in 1..b + 1 : x2[i].player \in {asked[s][a + i], NoPlayer}
         /\ \A i \in 1..c - 1 : y2[i].player = asked[s][a + (b + 1) + i]
    <3>1. Len(answers[s]) + Len(x2) + Len(y2) = Len(asked[s])
      BY <2>6, <2>7, <2>8
    <3>2. answer.player \in {asked[s][a + b + 1], NoPlayer}
      <4>1. 1 \in 1..c
        BY <2>8
      <4>. QED
        BY <2>2, <2>5, <2>9, <4>1
    <3>3. ASSUME NEW i \in 1..b + 1
          PROVE  x2[i].player \in {asked[s][a + i], NoPlayer}
      <4>1. CASE i = b + 1
        <5>1. a + i = a + b + 1
          BY <4>1
        <5>. QED
          BY <2>7, <3>2, <4>1, <5>1
      <4>2. CASE i \in 1..b
        BY <2>7, <2>9, <4>2
      <4>. QED
        BY <4>1, <4>2
    <3>4. ASSUME NEW i \in 1..c - 1
          PROVE  y2[i].player = asked[s][a + (b + 1) + i]
      <4>1. i + 1 \in 1..c /\ a + b + (i + 1) = a + (b + 1) + i
        OBVIOUS
      <4>. QED
        BY <2>8, <2>9, <4>1
    <3>. QED
      BY <3>1, <3>3, <3>4
  <2>11. AnswersAndLogins(s, x2, y2)'
    BY <1>1, <2>6, <2>7, <2>8, <2>10 DEF AnswersAndLogins
  <2>12. Carries(x2, toWorker'[v], AnswersTo(s)) /\ Carries(y2, toMaster'[v], LoginsOf(s))
    BY <1>5, <2>3, <2>4, <2>5 DEF x2, y2
  <2>. QED
    BY <2>11, <2>12 DEF AnswerFlow
<1>. QED
  BY <1>7, <1>8

\* The answer that arrives is the next one the session waits for.
LEMMA ReceivedKeepsFlow ==
    ASSUME Base, NEW w \in Workers, NEW push, Received(w, push), NEW s \in sessions, AnswerFlow(s)
    PROVE  /\ AnswerFlow(s)'
           /\ answers'[s] # answers[s] =>
                 /\ Len(answers[s]) < Len(asked[s])
                 /\ answers'[s] = Append(answers[s], push.player)
                 /\ push.player \in {asked[s][Len(answers[s]) + 1], NoPlayer}
<1>. DEFINE v == s.worker
<1>1. /\ s \in Sessions /\ v \in Workers /\ UNCHANGED <<asked, toMaster>> /\ push \in Pushes
      /\ push.kind # "chat" => push.to \in Opened /\ push.to.worker = w
  BY DEF Base, TypeOK, Sessions, Received
<1>2. /\ toWorker \in [Workers -> Seq(Pushes)] /\ toWorker[v] \in Seq(Pushes)
      /\ toWorker[w] # <<>> /\ push = toWorker[w][1] /\ toWorker' = [toWorker EXCEPT ![w] = Tail(@)]
      /\ answers \in [Sessions -> Seq(Players \cup {NoPlayer})]
      /\ answers'[s] = IF push.kind = "auth" /\ s = push.to THEN Append(answers[s], push.player)
                       ELSE answers[s]
  BY <1>1 DEF Base, TypeOK, Received
<1>3. PICK x, y : /\ Carries(x, toWorker[v], AnswersTo(s))
                  /\ Carries(y, toMaster[v], LoginsOf(s))
                  /\ AnswersAndLogins(s, x, y)
  BY DEF AnswerFlow
<1>4. CASE push \notin AnswersTo(s)
  <2>1. answers'[s] = answers[s]
    BY <1>1, <1>2, <1>4 DEF AnswersTo
  <2>2. Carries(x, toWorker'[v], AnswersTo(s))
    <3>1. CASE v # w
      BY <1>1, <1>2, <1>3, <3>1
    <3>2. CASE v = w
      <4>1. toWorker'[v] = Tail(toWorker[v]) /\ toWorker[v][1] \notin AnswersTo(s) /\ toWorker[v] # <<>>
        BY <1>1, <1>2, <1>4, <3>2
      <4>2. Carries(x, Tail(toWorker[v]), AnswersTo(s))
        BY <1>2, <1>3, <4>1, CarriesRest, FlowSets
      <4>. QED
        BY <4>1, <4>2
    <3>. QED
      BY <3>1, <3>2
  <2>3. AnswersAndLogins(s, x, y)'
    BY <1>1, <1>3, <2>1 DEF AnswersAndLogins
  <2>. QED
    BY <1>1, <1>3, <2>1, <2>2, <2>3 DEF AnswerFlow
<1>5. CASE push \in AnswersTo(s)
  <2>1. push.kind = "auth" /\ push.to = s /\ v = w /\ push.player \in Players \cup {NoPlayer}
    BY <1>1, <1>5, PushFields DEF AnswersTo
  <2>2. toWorker'[v] = Tail(toWorker[v]) /\ toWorker[v][1] = push /\ toWorker[v] # <<>>
    BY <1>1, <1>2, <2>1
  <2>3. x # <<>> /\ x[1] = push /\ Carries(Tail(x), Tail(toWorker[v]), AnswersTo(s))
    <3>1. toWorker[v] \in Seq(Pushes) /\ toWorker[v] # <<>> /\ toWorker[v][1] \in AnswersTo(s)
      BY <1>2, <1>5, <2>2
    <3>2. x # <<>> /\ x[1] = toWorker[v][1] /\ Carries(Tail(x), Tail(toWorker[v]), AnswersTo(s))
      BY <1>3, <3>1, CarriesRest, FlowSets
    <3>. QED
      BY <2>2, <3>2
  <2>4. PICK a \in Nat, b \in Nat, c \in Nat :
           Len(answers[s]) = a /\ Len(x) = b /\ Len(y) = c /\ Len(asked[s]) = a + b + c
    BY <1>1, <1>3 DEF Carries, AnswersAndLogins, Base, TypeOK
  <2>. DEFINE x2 == Tail(x)
  <2>5. /\ b > 0 /\ Len(x2) = b - 1
        /\ \A i \in 1..b - 1 : x2[i] = x[i + 1]
    BY <1>3, <2>3, <2>4, Taken DEF Carries
  <2>6. /\ \A i \in 1..b : x[i].player \in {asked[s][a + i], NoPlayer}
        /\ \A i \in 1..c : y[i].player = asked[s][a + b + i]
    BY <1>3, <2>4 DEF AnswersAndLogins
  <2>7. answers'[s] = Append(answers[s], push.player) /\ Len(answers'[s]) = a + 1
    BY <1>1, <1>2, <2>1, <2>4, Put
  <2>. HIDE DEF x2
  <2>8. \A i \in 1..b - 1 : x2[i].player \in {asked[s][a + 1 + i], NoPlayer}
    <3>1. ASSUME NEW i \in 1..b - 1
          PROVE  i + 1 \in 1..b /\ a + (i + 1) = a + 1 + i
      OBVIOUS
    <3>. QED
      BY <2>5, <2>6, <3>1
  <2>9. a + 1 + (b - 1) + c = a + b + c /\ a + 1 + (b - 1) = a + b
    OBVIOUS
  <2>10. Len(answers'[s]) + Len(x2) + Len(y) = Len(asked[s])
    BY <2>4, <2>5, <2>7, <2>9
  <2>11. AnswersAndLogins(s, x2, y)'
    BY <1>1, <2>4, <2>5, <2>6, <2>7, <2>8, <2>9, <2>10 DEF AnswersAndLogins
  <2>12. Carries(x2, toWorker'[v], AnswersTo(s))
    BY <2>2, <2>3 DEF x2
  <2>13. AnswerFlow(s)'
    BY <1>1, <1>3, <2>11, <2>12 DEF AnswerFlow
  <2>14. Len(answers[s]) < Len(asked[s])
    BY <2>4, <2>5
  <2>15. push.player \in {asked[s][Len(answers[s]) + 1], NoPlayer}
    <3>1. 1 \in 1..b
      BY <2>5
    <3>. QED
      BY <2>3, <2>4, <2>6, <3>1
  <2>. QED
    BY <2>7, <2>13, <2>14, <2>15
<1>. QED
  BY <1>4, <1>5
-----------------------------------------------------------------------------
(* The chat under way.                                                     *)

Talk == {m \in Pushes : m.kind = "chat"}

\* x is the chat under way to worker w: the last that was said.  What a session
\* of w got is said just before.
ChatOf(w, x) ==
    /\ Len(x) <= Len(said)
    /\ \A i \in 1..Len(x) : x[i].id = said[Len(said) - Len(x) + i]
    /\ \A s \in sessions : s.worker = w =>
          /\ Len(chat[s]) + Len(x) <= Len(said)
          /\ \A i \in 1..Len(chat[s]) : chat[s][i] = said[Len(said) - Len(x) - Len(chat[s]) + i]

ChatFlow(w) == \E x : Carries(x, toWorker[w], Talk) /\ ChatOf(w, x)

\* The chat of a session, open or not, is a stretch of what was said.
Stretch(s) ==
    \E c \in Nat :
       /\ c + Len(chat[s]) <= Len(said)
       /\ \A i \in 1..Len(chat[s]) : chat[s][i] = said[c + i]

\* A step without chat; a session that is new has got none.
LEMMA QuietKeepsChat ==
    ASSUME Base, NEW w \in Workers, ChatFlow(w), UNCHANGED <<said, chat>>,
           toWorker'[w] = toWorker[w], \A s \in sessions' : s.worker = w => s \in sessions \/ chat[s] = <<>>
    PROVE  ChatFlow(w)'
<1>1. PICK x : Carries(x, toWorker[w], Talk) /\ ChatOf(w, x)
  BY DEF ChatFlow
<1>2. Len(x) \in Nat /\ Len(said) \in Nat
  BY <1>1 DEF Carries, Base, TypeOK
<1>3. ASSUME NEW s \in sessions', s.worker = w
      PROVE  /\ Len(chat[s]) + Len(x) <= Len(said)
             /\ \A i \in 1..Len(chat[s]) : chat[s][i] = said[Len(said) - Len(x) - Len(chat[s]) + i]
  <2>1. CASE s \in sessions
    BY <1>1, <1>3, <2>1 DEF ChatOf
  <2>2. CASE chat[s] = <<>>
    BY <1>1, <1>2, <2>2 DEF ChatOf
  <2>. QED
    BY <1>3, <2>1, <2>2
<1>4. ChatOf(w, x)'
  BY <1>1, <1>3 DEF ChatOf
<1>. QED
  BY <1>1, <1>4 DEF ChatFlow

\* What is said is the last under way, to every worker.
LEMMA HandledKeepsChat ==
    ASSUME Base, NEW v \in Workers, NEW m, Handled(v, m), NEW w \in Workers, ChatFlow(w)
    PROVE  ChatFlow(w)'
<1>1. PICK x : Carries(x, toWorker[w], Talk) /\ ChatOf(w, x)
  BY DEF ChatFlow
<1>2. /\ toWorker[w] \in Seq(Pushes) /\ Talk \in SUBSET Pushes /\ said \in Seq(1..MaxSends)
      /\ UNCHANGED <<sessions, chat>> /\ m \in Requests
      /\ said' = IF m.kind = "chat" THEN Append(said, m.id) ELSE said
  BY DEF Base, TypeOK, Handled, worker, client, Talk
<1>3. PICK out : /\ toWorker' = [u \in Workers |-> toWorker[u] \o out[u]]
                 /\ \A u \in Workers : Replies(u, m, out[u])
  BY DEF Handled, Replied
<1>4. out[w] \in Seq(Pushes) /\ toWorker'[w] = toWorker[w] \o out[w] /\ Replies(w, m, out[w])
  BY <1>3 DEF Replies
<1>5. CASE m.kind # "chat"
  <2>1. \A i \in 1..Len(out[w]) : out[w][i] \notin Talk
    BY <1>4, <1>5 DEF Replies, Talk
  <2>2. Carries(x, toWorker[w] \o out[w], Talk)
    BY <1>1, <1>2, <1>4, <2>1, CarriesSame
  <2>3. ChatOf(w, x)'
    BY <1>1, <1>2, <1>5 DEF ChatOf
  <2>. QED
    BY <1>4, <2>2, <2>3 DEF ChatFlow
<1>6. CASE m.kind = "chat"
  <2>. DEFINE push == out[w][1]
              y == Append(x, push)
              all == Append(said, m.id)
  <2>1. /\ Len(out[w]) = 1 /\ push.kind = "chat" /\ push.id = m.id /\ push \in Pushes
        /\ push \in Talk /\ m.id \in 1..MaxSends
    <3>1. Len(out[w]) = 1 /\ push.kind = "chat" /\ push.id = m.id
      BY <1>4, <1>6 DEF Replies
    <3>2. push \in Pushes
      BY <1>4, <3>1
    <3>. QED
      BY <1>2, <1>6, <3>1, <3>2, RequestFields DEF Talk
  <2>2. 1 \in 1..Len(out[w]) /\ \A i \in 1..Len(out[w]) : i # 1 => out[w][i] \notin Talk
    BY <2>1
  <2>3. Carries(y, toWorker[w] \o out[w], Talk)
    BY <1>1, <1>2, <1>4, <2>1, <2>2, CarriesMore
  <2>4. PICK a \in Nat, b \in Nat : Len(said) = a /\ Len(x) = b
    BY <1>1, <1>2 DEF Carries
  <2>5. /\ Len(y) = b + 1 /\ y[b + 1] = push /\ \A i \in 1..b : y[i] = x[i]
    BY <1>1, <2>1, <2>4, Put DEF Carries
  <2>6. /\ Len(all) = a + 1 /\ all[a + 1] = m.id /\ \A i \in 1..a : all[i] = said[i]
    BY <1>2, <2>1, <2>4, Put
  <2>. HIDE DEF y, all, push
  <2>7. b <= a /\ \A i \in 1..b : x[i].id = said[a - b + i]
    BY <1>1, <2>4 DEF ChatOf
  <2>8. b + 1 <= a + 1 /\ (a + 1) - (b + 1) = a - b
    BY <2>7
  <2>9. ASSUME NEW i \in 1..b + 1
        PROVE  y[i].id = all[a - b + i]
    <3>1. CASE i = b + 1
      <4>1. a - b + i = a + 1
        BY <3>1
      <4>. QED
        BY <2>1, <2>5, <2>6, <3>1, <4>1
    <3>2. CASE i \in 1..b
      <4>1. a - b + i \in 1..a
        BY <2>7, <3>2
      <4>. QED
        BY <2>5, <2>6, <2>7, <3>2, <4>1
    <3>. QED
      BY <3>1, <3>2
  <2>10. ASSUME NEW s \in sessions, s.worker = w
         PROVE  /\ Len(chat[s]) + (b + 1) <= a + 1
                /\ \A i \in 1..Len(chat[s]) : chat[s][i] = all[a - b - Len(chat[s]) + i]
    <3>1. PICK c \in Nat : Len(chat[s]) = c
      BY DEF Base, TypeOK
    <3>2. c + b <= a /\ \A i \in 1..c : chat[s][i] = said[a - b - c + i]
      BY <1>1, <2>4, <2>10, <3>1 DEF ChatOf
    <3>3. \A i \in 1..c : a - b - c + i \in 1..a
      BY <3>2
    <3>. QED
      BY <2>6, <3>1, <3>2, <3>3
  <2>11. said' = all
    BY <1>2, <1>6 DEF all
  <2>12. ChatOf(w, y)'
    <3>1. Len(y) <= Len(said') /\ Len(said') - Len(y) = a - b /\ Len(y) = b + 1 /\ Len(said') = a + 1
      BY <2>5, <2>6, <2>8, <2>11
    <3>2. \A i \in 1..Len(y) : y[i].id = said'[Len(said') - Len(y) + i]
      BY <2>9, <2>11, <3>1
    <3>3. \A s \in sessions : s.worker = w =>
             /\ Len(chat[s]) + Len(y) <= Len(said')
             /\ \A i \in 1..Len(chat[s]) : chat[s][i] = said'[Len(said') - Len(y) - Len(chat[s]) + i]
      BY <2>10, <2>11, <3>1
    <3>. QED
      BY <1>2, <3>1, <3>2, <3>3 DEF ChatOf
  <2>. QED
    BY <1>4, <2>3, <2>12 DEF ChatFlow, y
<1>. QED
  BY <1>5, <1>6

\* The chat that arrives at a worker is the next one for all its sessions.
LEMMA ReceivedKeepsChat ==
    ASSUME Base, NEW v \in Workers, NEW push, Received(v, push), NEW w \in Workers, ChatFlow(w)
    PROVE  ChatFlow(w)'
<1>1. PICK x : Carries(x, toWorker[w], Talk) /\ ChatOf(w, x)
  BY DEF ChatFlow
<1>2. /\ toWorker \in [Workers -> Seq(Pushes)] /\ toWorker[v] \in Seq(Pushes)
      /\ Talk \in SUBSET Pushes /\ said \in Seq(1..MaxSends) /\ sessions \subseteq Sessions
      /\ chat \in [Sessions -> Seq(1..MaxSends)]
  BY DEF Base, TypeOK, Talk
<1>3. /\ UNCHANGED <<sessions, said>> /\ push \in Pushes
      /\ toWorker[v] # <<>> /\ push = toWorker[v][1]
      /\ toWorker' = [toWorker EXCEPT ![v] = Tail(@)]
      /\ \A s \in sessions : chat'[s] = IF push.kind = "chat" /\ s.worker = v
                                        THEN Append(chat[s], push.id) ELSE chat[s]
  BY <1>2 DEF Received, worker, master
<1>4. CASE w # v \/ push \notin Talk
  <2>1. \A s \in sessions : s.worker = w => chat'[s] = chat[s]
    BY <1>3, <1>4 DEF Talk
  <2>2. ChatOf(w, x)'
    <3>1. UNCHANGED <<sessions, said>>
      BY <1>3
    <3>. QED
      BY <1>1, <2>1, <3>1 DEF ChatOf
  <2>3. Carries(x, toWorker'[w], Talk)
    <3>1. CASE w # v
      BY <1>1, <1>2, <1>3, <3>1
    <3>2. CASE w = v
      <4>1. toWorker'[w] = Tail(toWorker[w]) /\ toWorker[w][1] \notin Talk /\ toWorker[w] # <<>>
            /\ toWorker[w] \in Seq(Pushes)
        BY <1>2, <1>3, <1>4, <3>2
      <4>2. Carries(x, Tail(toWorker[w]), Talk)
        BY <1>1, <1>2, <4>1, CarriesRest
      <4>. QED
        BY <4>1, <4>2
    <3>. QED
      BY <3>1, <3>2
  <2>. QED
    BY <2>2, <2>3 DEF ChatFlow
<1>5. CASE w = v /\ push \in Talk
  <2>1. /\ toWorker'[w] = Tail(toWorker[w]) /\ toWorker[w] \in Seq(Pushes) /\ toWorker[w] # <<>>
        /\ toWorker[w][1] = push /\ toWorker[w][1] \in Talk
    BY <1>2, <1>3, <1>5
  <2>2. x # <<>> /\ x[1] = push /\ Carries(Tail(x), Tail(toWorker[w]), Talk)
    BY <1>1, <1>2, <2>1, CarriesRest
  <2>3. PICK a \in Nat, b \in Nat : Len(said) = a /\ Len(x) = b
    BY <1>1, <1>2 DEF Carries
  <2>. DEFINE y == Tail(x)
  <2>4. b > 0 /\ Len(y) = b - 1 /\ \A i \in 1..b - 1 : y[i] = x[i + 1]
    BY <1>1, <2>2, <2>3, Taken DEF Carries
  <2>. HIDE DEF y
  <2>5. b <= a /\ \A i \in 1..b : x[i].id = said[a - b + i]
    BY <1>1, <2>3 DEF ChatOf
  <2>6. push.id = said[a - b + 1] /\ push.id \in 1..MaxSends
    <3>1. 1 \in 1..b
      BY <2>4
    <3>. QED
      BY <1>3, <1>5, <2>2, <2>5, <3>1, PushFields DEF Talk
  <2>7. \A i \in 1..b - 1 : y[i].id = said[a - (b - 1) + i]
    <3>1. ASSUME NEW i \in 1..b - 1
          PROVE  i + 1 \in 1..b /\ a - b + (i + 1) = a - (b - 1) + i
      OBVIOUS
    <3>. QED
      BY <2>4, <2>5, <3>1
  <2>8. ASSUME NEW s \in sessions, s.worker = w
        PROVE  /\ Len(chat'[s]) + (b - 1) <= a
               /\ \A i \in 1..Len(chat'[s]) : chat'[s][i] = said[a - (b - 1) - Len(chat'[s]) + i]
    <3>1. PICK c \in Nat : Len(chat[s]) = c
      BY <1>2
    <3>2. c + b <= a /\ \A i \in 1..c : chat[s][i] = said[a - b - c + i]
      BY <1>1, <2>3, <2>8, <3>1 DEF ChatOf
    <3>3. chat'[s] = Append(chat[s], push.id)
      BY <1>3, <1>5, <2>8 DEF Talk
    <3>4. /\ Len(chat'[s]) = c + 1 /\ chat'[s][c + 1] = push.id
          /\ \A i \in 1..c : chat'[s][i] = chat[s][i]
      BY <1>2, <2>6, <3>1, <3>3, Put
    <3>5. c + 1 + (b - 1) <= a /\ a - (b - 1) - (c + 1) = a - b - c
      BY <3>2
    <3>6. ASSUME NEW i \in 1..c + 1
          PROVE  chat'[s][i] = said[a - b - c + i]
      <4>1. CASE i = c + 1
        <5>1. a - b - c + i = a - b + 1
          BY <4>1
        <5>. QED
          BY <2>6, <3>4, <4>1, <5>1
      <4>2. CASE i \in 1..c
        BY <3>2, <3>4, <4>2
      <4>. QED
        BY <4>1, <4>2
    <3>. QED
      BY <3>4, <3>5, <3>6
  <2>9. ChatOf(w, y)'
    <3>1. Len(y) = b - 1 /\ Len(said) = a /\ b - 1 <= a
      BY <2>3, <2>4, <2>5
    <3>2. \A i \in 1..Len(y) : y[i].id = said[Len(said) - Len(y) + i]
      BY <2>7, <3>1
    <3>3. \A s \in sessions : s.worker = w =>
             /\ Len(chat'[s]) + Len(y) <= Len(said)
             /\ \A i \in 1..Len(chat'[s]) : chat'[s][i] = said[Len(said) - Len(y) - Len(chat'[s]) + i]
      BY <2>8, <3>1
    <3>. QED
      BY <1>3, <3>1, <3>2, <3>3 DEF ChatOf
  <2>. QED
    BY <2>1, <2>2, <2>9 DEF ChatFlow, y
<1>. QED
  BY <1>4, <1>5

ChatFlows == \A w \in Workers : ChatFlow(w)

Stretches == \A s \in sessions : Stretch(s)

\* The chat of an open session is a stretch of what was said.
LEMMA FlowStretches == Base /\ ChatFlows => Stretches
<1>. SUFFICES ASSUME Base, ChatFlows, NEW s \in sessions
              PROVE  Stretch(s)
  BY DEF Stretches
<1>1. ChatFlow(s.worker)
  BY DEF Base, TypeOK, Sessions, ChatFlows
<1>2. PICK x : Carries(x, toWorker[s.worker], Talk) /\ ChatOf(s.worker, x)
  BY <1>1 DEF ChatFlow
<1>3. PICK a \in Nat, b \in Nat, c \in Nat : Len(said) = a /\ Len(x) = b /\ Len(chat[s]) = c
  BY <1>2 DEF Carries, Base, TypeOK
<1>4. c + b <= a /\ \A i \in 1..c : chat[s][i] = said[a - b - c + i]
  BY <1>2, <1>3 DEF ChatOf
<1>. DEFINE d == a - b - c
<1>5. d \in Nat /\ d + c <= a
  BY <1>4
<1>. HIDE DEF d
<1>6. \A i \in 1..c : chat[s][i] = said[d + i]
  BY <1>4 DEF d
<1>. QED
  BY <1>3, <1>5, <1>6 DEF Stretch

\* A stretch stays one when more is said.
LEMMA SaidKeepsStretch ==
    ASSUME Base, NEW s \in Sessions, Stretch(s), chat'[s] = chat[s],
           NEW id \in 1..MaxSends, said' \in {said, Append(said, id)}
    PROVE  Stretch(s)'
<1>1. PICK c \in Nat :
         /\ c + Len(chat[s]) <= Len(said)
         /\ \A i \in 1..Len(chat[s]) : chat[s][i] = said[c + i]
  BY DEF Stretch
<1>2. PICK a \in Nat, b \in Nat : Len(said) = a /\ Len(chat[s]) = b
  BY DEF Base, TypeOK
<1>3. /\ Len(said') \in {a, a + 1}
      /\ \A i \in 1..a : said'[i] = said[i]
  <2>1. said \in Seq(1..MaxSends)
    BY DEF Base, TypeOK
  <2>2. /\ Len(Append(said, id)) = a + 1
        /\ \A i \in 1..a : Append(said, id)[i] = said[i]
    BY <1>2, <2>1, Put
  <2>. QED
    BY <1>2, <2>2
<1>4. c + b <= Len(said') /\ \A i \in 1..b : c + i \in 1..a
  BY <1>1, <1>2, <1>3
<1>5. /\ c + Len(chat'[s]) <= Len(said')
      /\ \A i \in 1..Len(chat'[s]) : chat'[s][i] = said'[c + i]
  BY <1>1, <1>2, <1>3, <1>4
<1>. QED
  BY <1>5 DEF Stretch
-----------------------------------------------------------------------------
(* What is delivered.                                                      *)

DeliveryInv ==
    /\ Base
    /\ \A s \in sessions : AnswerFlow(s)
    /\ AnswersMatch
    /\ \A w \in Workers : ChatFlow(w)
    /\ \A s \in Sessions : Stretch(s)

\* Nothing was said or asked at first.
LEMMA InitDelivery == Init => DeliveryInv
<1>. SUFFICES ASSUME Init
              PROVE  DeliveryInv
  OBVIOUS
<1>1. \A w \in Workers : ChatFlow(w)
  <2>1. ASSUME NEW w \in Workers
        PROVE  Carries(<<>>, toWorker[w], Talk) /\ ChatOf(w, <<>>)
    BY CarriesNothing DEF Init, ChatOf
  <2>. QED
    BY <2>1 DEF ChatFlow
<1>2. \A s \in Sessions : Stretch(s)
  BY DEF Init, Stretch
<1>3. AnswersMatch
  BY DEF Init, AnswersMatch
<1>. QED
  BY InitBase, <1>1, <1>2, <1>3 DEF DeliveryInv, Init

\* Answers still match when one more login is asked for.
LEMMA AskedKeepsAnswers ==
    ASSUME Base, AnswersMatch, NEW s \in Sessions, answers'[s] = answers[s],
           NEW p \in Players, asked'[s] \in {asked[s], Append(asked[s], p)}
    PROVE  /\ Len(answers'[s]) <= Len(asked'[s])
           /\ \A i \in DOMAIN answers'[s] : answers'[s][i] \in {asked'[s][i], NoPlayer}
<1>1. PICK a \in Nat, b \in Nat : Len(answers[s]) = a /\ Len(asked[s]) = b
  BY DEF Base, TypeOK
<1>2. DOMAIN answers[s] = 1..a /\ a <= b /\ \A i \in 1..a : answers[s][i] \in {asked[s][i], NoPlayer}
  <2>1. answers[s] \in Seq(Players \cup {NoPlayer})
    BY DEF Base, TypeOK
  <2>2. /\ Len(answers[s]) <= Len(asked[s])
        /\ \A i \in DOMAIN answers[s] : answers[s][i] \in {asked[s][i], NoPlayer}
    BY DEF AnswersMatch
  <2>. QED
    BY <1>1, <2>1, <2>2
<1>3. Len(asked'[s]) \in {b, b + 1} /\ \A i \in 1..b : asked'[s][i] = asked[s][i]
  <2>1. asked[s] \in Seq(Players)
    BY DEF Base, TypeOK
  <2>2. /\ Len(Append(asked[s], p)) = b + 1
        /\ \A i \in 1..b : Append(asked[s], p)[i] = asked[s][i]
    BY <1>1, <2>1, Put
  <2>. QED
    BY <1>1, <2>2
<1>. QED
  BY <1>1, <1>2, <1>3

\* Answers still match when the next one arrives.
LEMMA ReceivedKeepsAnswers ==
    ASSUME Base, AnswersMatch, NEW s \in Sessions, NEW p \in Players \cup {NoPlayer},
           Len(answers[s]) < Len(asked[s]), p \in {asked[s][Len(answers[s]) + 1], NoPlayer},
           answers'[s] = Append(answers[s], p), asked'[s] = asked[s]
    PROVE  /\ Len(answers'[s]) <= Len(asked'[s])
           /\ \A i \in DOMAIN answers'[s] : answers'[s][i] \in {asked'[s][i], NoPlayer}
<1>1. PICK a \in Nat, b \in Nat : Len(answers[s]) = a /\ Len(asked[s]) = b
  BY DEF Base, TypeOK
<1>2. answers[s] \in Seq(Players \cup {NoPlayer}) /\ answers'[s] \in Seq(Players \cup {NoPlayer})
  BY Put DEF Base, TypeOK
<1>3. /\ Len(answers'[s]) = a + 1 /\ answers'[s][a + 1] = p
      /\ \A i \in 1..a : answers'[s][i] = answers[s][i]
  BY <1>1, <1>2, Put
<1>4. DOMAIN answers[s] = 1..a /\ DOMAIN answers'[s] = 1..a + 1
  BY <1>1, <1>2, <1>3
<1>5. \A i \in 1..a : answers[s][i] \in {asked[s][i], NoPlayer}
  BY <1>4 DEF AnswersMatch
<1>6. \A i \in 1..a + 1 : answers'[s][i] \in {asked'[s][i], NoPlayer}
  <2>1. ASSUME NEW i \in 1..a + 1
        PROVE  answers'[s][i] \in {asked'[s][i], NoPlayer}
    <3>1. CASE i = a + 1
      BY <1>1, <1>3, <3>1
    <3>2. CASE i \in 1..a
      BY <1>3, <1>5, <3>2
    <3>3. i = a + 1 \/ i \in 1..a
      OBVIOUS
    <3>. QED
      BY <3>1, <3>2, <3>3
  <2>. QED
    BY <2>1
<1>. QED
  BY <1>1, <1>3, <1>4, <1>6

\* A step that changes no queue, no chat and no answer, or that only opens or
\* closes a session.
LEMMA SessionsKeepDelivery ==
    ASSUME DeliveryInv, Base', UNCHANGED <<toWorker, toMaster, answers, asked, said, chat>>,
           \A s \in sessions' : s \notin sessions => s \in Sessions /\ s \notin Opened,
           \A s \in sessions' : s \notin sessions => AnswerFlow(s)'
    PROVE  DeliveryInv'
<1>1. ASSUME NEW s \in sessions'
      PROVE  AnswerFlow(s)'
  <2>1. CASE s \in sessions
    <3>1. PICK x, y : /\ Carries(x, toWorker[s.worker], AnswersTo(s))
                      /\ Carries(y, toMaster[s.worker], LoginsOf(s))
                      /\ AnswersAndLogins(s, x, y)
      BY <2>1 DEF DeliveryInv, AnswerFlow
    <3>2. AnswersAndLogins(s, x, y)'
      BY <3>1 DEF AnswersAndLogins
    <3>. QED
      BY <3>1, <3>2 DEF AnswerFlow
  <2>2. CASE s \notin sessions
    BY <2>2
  <2>. QED
    BY <2>1, <2>2
<1>2. \A s \in Sessions : Stretch(s)'
  BY DEF DeliveryInv, Stretch
<1>3. AnswersMatch'
  BY DEF DeliveryInv, AnswersMatch
<1>4. ASSUME NEW w \in Workers
      PROVE  ChatFlow(w)'
  <2>1. \A s \in sessions' : s \in sessions \/ chat[s] = <<>>
    BY DEF DeliveryInv, Base, Registered
  <2>. QED
    BY <2>1, QuietKeepsChat DEF DeliveryInv
<1>. QED
  BY <1>1, <1>2, <1>3, <1>4 DEF DeliveryInv

\* A connection is accepted.
LEMMA AcceptKeepsDelivery ==
    ASSUME DeliveryInv, NEW w \in Workers, Accept(w)
    PROVE  DeliveryInv'
<1>1. Base /\ Base'
  BY AcceptKeepsBase DEF DeliveryInv
<1>2. UNCHANGED <<toWorker, toMaster, answers, asked, said, chat>>
  BY DEF Accept, master, client
<1>3. \A s \in sessions' : s \notin sessions => s \in Sessions /\ s \notin Opened
  BY <1>1 DEF Accept, Base, TypeOK, Opened
<1>4. \A s \in sessions' : AnswerFlow(s)'
  BY <1>1, AcceptKeepsFlow DEF DeliveryInv
<1>. QED
  BY <1>1, <1>2, <1>3, <1>4, SessionsKeepDelivery

\* A client sends a message.
LEMMA SentKeepsDelivery ==
    ASSUME DeliveryInv, NEW t, NEW m, Sent(t, m)
    PROVE  DeliveryInv'
<1>1. Base /\ Base' /\ UNCHANGED <<sessions, toWorker, answers, said, chat>>
  BY SentKeepsBase DEF DeliveryInv, Sent, master
<1>2. \A s \in sessions' : AnswerFlow(s)'
  BY <1>1, SentKeepsFlow DEF DeliveryInv
<1>3. \A w \in Workers : ChatFlow(w)'
  BY <1>1, QuietKeepsChat DEF DeliveryInv
<1>4. \A s \in Sessions : Stretch(s)'
  BY <1>1 DEF DeliveryInv, Stretch
<1>5. ASSUME NEW s \in Sessions
      PROVE  /\ Len(answers'[s]) <= Len(asked'[s])
             /\ \A i \in DOMAIN answers'[s] : answers'[s][i] \in {asked'[s][i], NoPlayer}
  <2>1. CASE m.kind # "auth"
    BY <1>1, <2>1 DEF Sent, DeliveryInv, AnswersMatch
  <2>2. CASE m.kind = "auth"
    <3>1. m.player \in Players
      BY <2>2, RequestFields DEF Sent
    <3>2. asked'[s] \in {asked[s], Append(asked[s], m.player)}
      BY <1>1, <2>2 DEF Sent, Base, TypeOK
    <3>. QED
      BY <1>1, <3>1, <3>2, AskedKeepsAnswers DEF DeliveryInv
  <2>. QED
    BY <2>1, <2>2
<1>6. AnswersMatch'
  BY <1>5 DEF AnswersMatch
<1>. QED
  BY <1>1, <1>2, <1>3, <1>4, <1>6 DEF DeliveryInv

\* The master handles an envelope.
LEMMA HandledKeepsDelivery ==
    ASSUME DeliveryInv, NEW w \in Workers, NEW m, Handled(w, m)
    PROVE  DeliveryInv'
<1>1. Base /\ Base' /\ UNCHANGED <<sessions, answers, asked, chat>>
  BY HandledKeepsBase DEF DeliveryInv, Handled, worker, client
<1>2. \A s \in sessions' : AnswerFlow(s)'
  BY <1>1, HandledKeepsFlow DEF DeliveryInv
<1>3. \A v \in Workers : ChatFlow(v)'
  BY <1>1, HandledKeepsChat DEF DeliveryInv
<1>4. ASSUME NEW s \in Sessions
      PROVE  Stretch(s)'
  <2>1. CASE m.kind = "chat"
    <3>1. m.id \in 1..MaxSends /\ said' = Append(said, m.id)
      BY <2>1, RequestFields DEF Handled
    <3>. QED
      BY <1>1, <3>1, SaidKeepsStretch DEF DeliveryInv
  <2>2. CASE m.kind # "chat"
    BY <1>1, <2>2 DEF Handled, DeliveryInv, Stretch
  <2>. QED
    BY <2>1, <2>2
<1>5. AnswersMatch'
  BY <1>1 DEF DeliveryInv, AnswersMatch
<1>. QED
  BY <1>1, <1>2, <1>3, <1>4, <1>5 DEF DeliveryInv

\* A worker delivers a push.
LEMMA ReceivedKeepsDelivery ==
    ASSUME DeliveryInv, NEW w \in Workers, NEW push, Received(w, push)
    PROVE  DeliveryInv'
<1>1. Base /\ Base' /\ UNCHANGED <<sessions, asked, said>> /\ push \in Pushes
  BY ReceivedKeepsBase DEF DeliveryInv, Received, worker, master
<1>2. \A s \in sessions' : AnswerFlow(s)'
  BY <1>1, ReceivedKeepsFlow DEF DeliveryInv
<1>3. \A v \in Workers : ChatFlow(v)'
  BY <1>1, ReceivedKeepsChat DEF DeliveryInv
<1>4. Base' /\ ChatFlows' => Stretches'
  BY FlowStretches, PTL
<1>5. ASSUME NEW s \in Sessions
      PROVE  Stretch(s)'
  <2>1. CASE s \in sessions'
    BY <1>1, <1>3, <1>4, <2>1 DEF ChatFlows, Stretches
  <2>2. CASE s \notin sessions'
    <3>1. chat'[s] = chat[s]
      BY <1>1, <2>2 DEF Received
    <3>. QED
      BY <1>1, <3>1 DEF DeliveryInv, Stretch
  <2>. QED
    BY <2>1, <2>2
<1>6. ASSUME NEW s \in Sessions
      PROVE  /\ Len(answers'[s]) <= Len(asked'[s])
             /\ \A i \in DOMAIN answers'[s] : answers'[s][i] \in {asked'[s][i], NoPlayer}
  <2>1. CASE answers'[s] = answers[s]
    BY <1>1, <2>1 DEF DeliveryInv, AnswersMatch
  <2>2. CASE answers'[s] # answers[s]
    <3>1. s \in sessions /\ push.kind = "auth"
      BY <2>2 DEF Received
    <3>2. /\ Len(answers[s]) < Len(asked[s])
          /\ answers'[s] = Append(answers[s], push.player)
          /\ push.player \in {asked[s][Len(answers[s]) + 1], NoPlayer}
      BY <1>1, <2>2, <3>1, ReceivedKeepsFlow DEF DeliveryInv
    <3>3. push.player \in Players \cup {NoPlayer}
      BY <1>1, <3>1, PushFields
    <3>. QED
      BY <1>1, <3>2, <3>3, ReceivedKeepsAnswers DEF DeliveryInv
  <2>. QED
    BY <2>1, <2>2
<1>7. AnswersMatch'
  BY <1>6 DEF AnswersMatch
<1>. QED
  BY <1>1, <1>2, <1>3, <1>5, <1>7 DEF DeliveryInv

\* Every step keeps what is under way in order.
LEMMA StepKeepsDelivery == DeliveryInv /\ [Next]_vars => DeliveryInv'
<1>. SUFFICES ASSUME DeliveryInv, [Next]_vars
              PROVE  DeliveryInv'
  OBVIOUS
<1>1. Base /\ Base'
  BY StepKeepsBase DEF DeliveryInv
<1>2. ASSUME NEW w \in Workers, Accept(w) \/ RouteToGameLogic(w) \/ OnMasterPush(w)
      PROVE  DeliveryInv'
  BY <1>1, <1>2, AcceptKeepsDelivery, MasterRoutes, HandledKeepsDelivery, WorkerReceives,
     ReceivedKeepsDelivery
<1>3. ASSUME UNCHANGED <<toWorker, toMaster, answers, asked, said, chat>>, sessions' \subseteq sessions
      PROVE  DeliveryInv'
  BY <1>1, <1>3, SessionsKeepDelivery
<1>4. ASSUME NEW s \in Sessions, ClientStep(s)
      PROVE  DeliveryInv'
  <2>1. CASE onClientClose(s)
    BY <1>3, <2>1 DEF onClientClose, master, client
  <2>2. CASE ~ onClientClose(s)
    BY <1>1, <1>4, <2>2, ClientSends, SentKeepsDelivery
  <2>. QED
    BY <2>1, <2>2
<1>5. ASSUME UNCHANGED vars
      PROVE  DeliveryInv'
  BY <1>3, <1>5 DEF vars, worker, master, client
<1>. QED
  BY <1>2, <1>4, <1>5 DEF Next

\* For every number of workers, sessions and messages: a session gets answers to
\* its own logins only, in their order, and the chat in the order of the master,
\* without a gap.
THEOREM SessionsGetWhatIsSaid == Spec => []Delivered
<1>1. ASSUME DeliveryInv, NEW s \in Sessions, chat[s] # <<>>
      PROVE  \E i \in DOMAIN said :
                /\ i + Len(chat[s]) - 1 <= Len(said)
                /\ chat[s] = SubSeq(said, i, i + Len(chat[s]) - 1)
  <2>1. chat[s] \in Seq(1..MaxSends) /\ said \in Seq(1..MaxSends)
    BY <1>1 DEF DeliveryInv, Base, TypeOK
  <2>2. PICK c \in Nat :
           /\ c + Len(chat[s]) <= Len(said)
           /\ \A i \in 1..Len(chat[s]) : chat[s][i] = said[c + i]
    BY <1>1 DEF DeliveryInv, Stretch
  <2>3. PICK a \in Nat, b \in Nat : Len(said) = a /\ Len(chat[s]) = b
    BY <2>1
  <2>4. b > 0 /\ c + 1 \in DOMAIN said /\ c + 1 + b - 1 = c + b
    BY <1>1, <2>1, <2>2, <2>3
  <2>. DEFINE part == SubSeq(said, c + 1, c + b)
  <2>5. /\ part \in Seq(1..MaxSends) /\ Len(part) = b
        /\ \A i \in 1..b : part[i] = said[c + i]
    <3>. DEFINE m == c + 1  n == c + b
    <3>1. m \in Int /\ n \in Int /\ m <= n /\ n - m + 1 = b /\ \A i \in 1..b : m + i - 1 = c + i
      BY <2>4
    <3>2. \A i \in m..n : said[i] \in 1..MaxSends
      <4>1. m..n \subseteq 1..a
        BY <2>2, <2>3
      <4>2. \A i \in 1..a : said[i] \in 1..MaxSends
        BY <2>1, <2>3, ElementOfSeq
      <4>. HIDE DEF m, n
      <4>. QED
        BY <4>1, <4>2
    <3>. HIDE DEF m, n
    <3>3. /\ SubSeq(said, m, n) \in Seq(1..MaxSends)
          /\ Len(SubSeq(said, m, n)) = IF m <= n THEN n - m + 1 ELSE 0
          /\ \A i \in 1..(n - m + 1) : SubSeq(said, m, n)[i] = said[m + i - 1]
      BY <3>1, <3>2, SubSeqProperties
    <3>4. part = SubSeq(said, m, n)
      BY DEF m, n
    <3>. HIDE DEF part
    <3>. QED
      BY <3>1, <3>3, <3>4
  <2>. HIDE DEF part
  <2>6. chat[s] = part
    BY <2>1, <2>2, <2>3, <2>5
  <2>. QED
    BY <2>2, <2>3, <2>4, <2>6 DEF part
<1>2. DeliveryInv => Delivered
  BY <1>1 DEF DeliveryInv, Delivered, ChatInOrder
<1>. QED
  BY <1>2, InitDelivery, StepKeepsDelivery, PTL DEF Spec
=============================================================================
