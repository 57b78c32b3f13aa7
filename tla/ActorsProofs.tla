----------------------------- MODULE ActorsProofs -----------------------------
(***************************************************************************)
(* Proofs about the actors of the world, for any of them and for any       *)
(* interleaving of the threads that work on them: NPCs that players fight  *)
(* and the game loop moves (CreaturesInv), loot tables that are there for  *)
(* one draw only (NoTableLeft of LootTables), the attributes and levels of *)
(* players (CharacterInv, ExperienceCounts), how they move as the server   *)
(* plays their inputs again (MovementInv), what a draw from a table gives  *)
(* (LootInv of LootTables) and what players carry (ItemsInv).              *)
(*                                                                         *)
(* What a recursive function computes is proved by EveryNatural: the set   *)
(* of naturals up to which the function exists holds them all, and so does *)
(* the set of those at which its value is what the lemma says.             *)
(***************************************************************************)
EXTENDS MCActors, FiniteSetTheorems, SequenceTheorems, WellFoundedInduction, TLAPS

-----------------------------------------------------------------------------
(* What a fight may take for granted.                                      *)

CreatureFields == {"type", "hp", "ai", "target", "active", "visible", "collidable",
                   "moving", "near", "damage_taken"}
JobFields == {"pc", "npc", "seen"}

(* An NPC has all its fields and the type it was spawned with, and its AI  *)
(* is never in the state DEAD: ChangeToDead goes on to DESPAWNING.         *)
Creature(e, type) ==
    /\ DOMAIN e = CreatureFields /\ e.type = type
    /\ e.hp \in Nat /\ e.ai # "DEAD"

Creatures == DOMAIN npc = NPCs /\ \A n \in NPCs : Creature(npc[n], Kind[n])

(* An attack under way is on an NPC, and writes the health it read less    *)
(* one only when it read some.                                             *)
Working(s) ==
    /\ DOMAIN job[s] = JobFields
    /\ job[s].pc # "idle" => job[s].npc \in NPCs
    /\ job[s].pc = "write" => job[s].seen \in Nat \ {0}

Fighters == DOMAIN job = Sessions /\ \A s \in Sessions : Working(s)

Counts ==
    /\ DOMAIN told = NPCs
    /\ dealt \in [NPCs -> Nat]

At(n, where) == \E s \in Sessions : job[s].npc = n /\ job[s].pc \in where

Down(e) == ~e.active /\ ~e.visible /\ ~e.collidable

(* One without health that is still up is so because the attack that took  *)
(* the last of it, or one that found it dead, has yet to react; and one    *)
(* whose death nobody was told has an attack that will answer.             *)
Falls(n) == IsDead(npc[n]) => Down(npc[n]) \/ At(n, {"react"})
Tells(n) == IsDead(npc[n]) => told[n] # {} \/ At(n, {"react", "answer"})

(* The health an NPC has, and any an attack will write from, is no less    *)
(* than what the attacks so far leave.                                     *)
Owed(n) ==
    /\ npc[n].hp + dealt[n] >= MaxHits(Kind[n])
    /\ \A s \in Sessions : job[s].pc = "write" /\ job[s].npc = n =>
           job[s].seen + dealt[n] >= MaxHits(Kind[n])

TurnFields == {"todo", "at"}
Turning == DOMAIN turn = TurnFields

CreaturesIInv ==
    /\ Creatures /\ Fighters /\ Counts
    /\ \A n \in NPCs : Falls(n)
    /\ \A n \in NPCs : Tells(n)
    /\ \A n \in NPCs : Owed(n)
    /\ Turning /\ CollisionFollows

(* The invariant gives what the runs check.                                *)
LEMMA HitsAreNumbers == \A type : MaxHits(type) \in Nat
BY DEF MaxHits

LEMMA FightFollows == CreaturesIInv => CreaturesInv
<1>. SUFFICES ASSUME CreaturesIInv PROVE CreaturesInv
  OBVIOUS
<1>1. DeadIsDown
  BY DEF CreaturesIInv, Falls, At, Down, DeadIsDown, Fighting
<1>2. DeathAnnounced
  BY DEF CreaturesIInv, Tells, At, DeathAnnounced, Fighting
<1>3. NeverOverDamaged
  BY DEF CreaturesIInv, Creatures, Creature, Owed, NeverOverDamaged
<1>. QED
  BY <1>1, <1>2, <1>3 DEF CreaturesInv, FightInv, CreaturesIInv

-----------------------------------------------------------------------------
(* What the AI makes of an NPC                                             *)

(* f is e but for what it heads for, how it moves and who hurt it.         *)
Like(e, f) ==
    /\ Creature(f, e.type) /\ f.hp = e.hp
    /\ f.active = e.active /\ f.visible = e.visible /\ f.collidable = e.collidable

(* Likewise, and it is where it was.                                       *)
LikeHere(e, f) == Like(e, f) /\ f.near = e.near

LEMMA LikeItself == ASSUME NEW e, Creature(e, e.type) PROVE LikeHere(e, e)
BY DEF LikeHere, Like

LEMMA LikeOnwards == ASSUME NEW e, NEW f, NEW g, Like(e, f), Like(f, g) PROVE Like(e, g)
BY DEF Like, Creature

LEMMA LikeHereOnwards ==
    ASSUME NEW e, NEW f, NEW g, LikeHere(e, f), LikeHere(f, g) PROVE LikeHere(e, g)
BY DEF LikeHere, Like, Creature

LEMMA Moves ==
    ASSUME NEW e, Creature(e, e.type)
    PROVE  LikeHere(e, Stop(e)) /\ LikeHere(e, MoveTo(e))
BY DEF LikeHere, Like, Creature, Stop, MoveTo, CreatureFields

LEMMA Heads ==
    ASSUME NEW e, Creature(e, e.type), NEW t
    PROVE  LikeHere(e, [e EXCEPT !.target = t])
BY DEF LikeHere, Like, Creature, CreatureFields

LEMMA Thinks ==
    ASSUME NEW e, Creature(e, e.type), NEW state, state # "DEAD"
    PROVE  LikeHere(e, [e EXCEPT !.ai = state])
BY DEF LikeHere, Like, Creature, CreatureFields

LEMMA Strays ==
    ASSUME NEW e, Creature(e, e.type), NEW b
    PROVE  Like(e, [e EXCEPT !.near = b])
BY DEF Like, Creature, CreatureFields

LEMMA StateIsSet ==
    ASSUME NEW e, Creature(e, e.type), NEW state, state # "DEAD"
    PROVE  LikeHere(e, SetAIState(e, state))
<1>. DEFINE f == [e EXCEPT !.ai = state]
<1>1. LikeHere(e, f) /\ LikeHere(e, e)
  BY Thinks, LikeItself
<1>2. Creature(f, f.type)
  BY <1>1 DEF LikeHere, Like, Creature
<1>3. LikeHere(f, Stop(f)) /\ LikeHere(f, MoveTo(f))
  BY <1>2, Moves
<1>4. LikeHere(e, Stop(f)) /\ LikeHere(e, MoveTo(f))
  BY <1>1, <1>3, LikeHereOnwards
<1>5. SetAIState(e, state) \in {e, f, Stop(f), MoveTo(f)}
  BY DEF SetAIState
<1>. HIDE DEF f
<1>. QED
  BY <1>1, <1>4, <1>5

LEMMA TargetIsSet ==
    ASSUME NEW e, Creature(e, e.type), NEW t
    PROVE  LikeHere(e, SetTarget(e, t))
<1>. DEFINE f == [e EXCEPT !.target = t]
<1>1. LikeHere(e, f)
  BY Heads
<1>2. Creature(f, f.type)
  BY <1>1 DEF LikeHere, Like, Creature
<1>3. LikeHere(f, SetAIState(f, "CHASE"))
  BY <1>2, StateIsSet
<1>4. SetTarget(e, t) \in {f, SetAIState(f, "CHASE")}
  BY DEF SetTarget
<1>. HIDE DEF f
<1>. QED
  BY <1>1, <1>3, <1>4, LikeHereOnwards

LEMMA HateIsKept ==
    ASSUME NEW e, Creature(e, e.type), NEW s, NEW g \in UpdateHateList(e, s)
    PROVE  LikeHere(e, g)
<1>. DEFINE f == [e EXCEPT !.damage_taken[s] = @ + 1]
<1>1. LikeHere(e, f)
  BY DEF LikeHere, Like, Creature, CreatureFields
<1>2. Creature(f, f.type)
  BY <1>1 DEF LikeHere, Like, Creature
<1>3. PICK p \in Sessions : g = SetTarget(f, p)
  BY DEF UpdateHateList
<1>4. LikeHere(f, g)
  BY <1>2, <1>3, TargetIsSet
<1>. QED
  BY <1>1, <1>4, LikeHereOnwards

LEMMA Obedience ==
    ASSUME NEW e, Creature(e, e.type), NEW command \in {"follow", "attack", "stay"}, NEW t
    PROVE  LikeHere(e, Obeys(e, command, t))
<1>1. ASSUME NEW state, state # "DEAD", NEW u
      PROVE  LikeHere(e, SetTarget([e EXCEPT !.ai = state], u))
  <2>. DEFINE f == [e EXCEPT !.ai = state]
  <2>1. LikeHere(e, f)
    BY <1>1, Thinks
  <2>2. Creature(f, f.type)
    BY <2>1 DEF LikeHere, Like, Creature
  <2>3. LikeHere(f, SetTarget(f, u))
    BY <2>2, TargetIsSet
  <2>. QED
    BY <2>1, <2>3, LikeHereOnwards
<1>2. \/ Obeys(e, command, t) = SetTarget([e EXCEPT !.ai = "FOLLOW"], e.target)
      \/ Obeys(e, command, t) = SetTarget([e EXCEPT !.ai = "CHASE"], t)
      \/ Obeys(e, command, t) = SetTarget([e EXCEPT !.ai = "IDLE"], Nobody)
  BY DEF Obeys
<1>. QED
  BY <1>1, <1>2

(* The AI of the game loop.                                                *)
LEMMA Behaves ==
    ASSUME NEW e, Creature(e, e.type), NEW f \in UpdateAI(e)
    PROVE  Like(e, f)
<1>1. /\ Like(e, e) /\ Like(e, MoveTo(e)) /\ Like(e, Stop(e))
      /\ \A state : state # "DEAD" => Like(e, SetAIState(e, state))
      /\ \A b : Like(e, [e EXCEPT !.near = b])
  BY LikeItself, Moves, StateIsSet, Strays DEF LikeHere
<1>2. Like(e, SetAIState([e EXCEPT !.target = Nobody], "IDLE"))
  <2>. DEFINE g == [e EXCEPT !.target = Nobody]
  <2>1. LikeHere(e, g)
    BY Heads
  <2>2. Creature(g, g.type)
    BY <2>1 DEF LikeHere, Like, Creature
  <2>3. LikeHere(g, SetAIState(g, "IDLE"))
    BY <2>2, StateIsSet
  <2>. QED
    BY <2>1, <2>3, LikeOnwards DEF LikeHere
<1>3. \/ f = e
      \/ \E state \in {"IDLE", "PATROL", "CHASE", "ATTACK", "FLEE"} : f = SetAIState(e, state)
      \/ f \in {MoveTo(e), Stop(e), SetAIState([e EXCEPT !.target = Nobody], "IDLE")}
      \/ \E b \in BOOLEAN : f = [e EXCEPT !.near = b]
  <2>1. f = e \/ f \in UpdateIdle(e) \/ f \in UpdatePatrol(e) \/ f \in UpdateChase(e)
           \/ f \in UpdateAttack(e) \/ f \in UpdateFlee(e)
    BY DEF UpdateAI
  <2>2. CASE f \in UpdateIdle(e)
    BY <2>2 DEF UpdateIdle
  <2>3. CASE f \in UpdatePatrol(e)
    BY <2>3 DEF UpdatePatrol
  <2>4. CASE f \in UpdateChase(e)
    BY <2>4 DEF UpdateChase
  <2>5. CASE f \in UpdateAttack(e)
    BY <2>5 DEF UpdateAttack
  <2>6. CASE f \in UpdateFlee(e)
    BY <2>6 DEF UpdateFlee
  <2>. QED
    BY <2>1, <2>2, <2>3, <2>4, <2>5, <2>6
<1>. QED
  BY <1>1, <1>2, <1>3

LEMMA Wanders ==
    ASSUME NEW e, Creature(e, e.type), NEW f \in Moved(e)
    PROVE  Like(e, f)
BY Strays, LikeItself DEF Moved, LikeHere

LEMMA Advances ==
    ASSUME NEW e, Creature(e, e.type), NEW f \in Advanced(e)
    PROVE  Like(e, f)
<1>1. CASE f \in Moved(e)
  BY <1>1, Wanders
<1>2. CASE f \notin Moved(e)
  <2>1. PICK g \in Moved(e) : f = Stop(g)
    BY <1>2 DEF Advanced
  <2>2. Like(e, g)
    BY Wanders
  <2>3. Creature(g, g.type)
    BY <2>2 DEF Like, Creature
  <2>4. Like(g, f)
    BY <2>1, <2>3, Moves DEF LikeHere
  <2>. QED
    BY <2>2, <2>4, LikeOnwards
<1>. QED
  BY <1>1, <1>2

-----------------------------------------------------------------------------
(* The steps                                                               *)

LEMMA CreaturesStart == Init => CreaturesIInv
<1>. SUFFICES ASSUME CreaturesInit PROVE CreaturesIInv
  BY DEF Init
<1>1. \A n \in NPCs : npc[n] = NewNPC(n)
  BY DEF CreaturesInit
<1>2. ASSUME NEW n \in NPCs
      PROVE  /\ Creature(NewNPC(n), Kind[n]) /\ NewNPC(n).near = TRUE
             /\ NewNPC(n).hp = MaxHits(Kind[n]) /\ ~IsDead(NewNPC(n))
  <2>1. MaxHits(Kind[n]) \in Nat \ {0}
    BY DEF MaxHits
  <2>. QED
    BY <2>1 DEF NewNPC, Creature, CreatureFields, IsDead
<1>3. Creatures
  BY <1>1, <1>2 DEF CreaturesInit, Creatures
<1>4. \A s \in Sessions : job[s] = NoJob
  BY DEF CreaturesInit
<1>5. Fighters
  BY <1>4 DEF CreaturesInit, Fighters, Working, NoJob, JobFields
<1>6. Counts
  BY DEF CreaturesInit, Counts
<1>7. ASSUME NEW n \in NPCs PROVE Falls(n) /\ Tells(n)
  BY <1>1, <1>2 DEF Falls, Tells
<1>8. ASSUME NEW n \in NPCs PROVE Owed(n)
  <2>1. dealt[n] = 0 /\ MaxHits(Kind[n]) \in Nat
    BY HitsAreNumbers DEF CreaturesInit
  <2>2. npc[n].hp = MaxHits(Kind[n])
    BY <1>1, <1>2
  <2>3. \A s \in Sessions : job[s].pc # "write"
    BY <1>4 DEF NoJob
  <2>. QED
    BY <2>1, <2>2, <2>3 DEF Owed
<1>9. Turning
  BY DEF CreaturesInit, Turning, TurnFields
<1>10. CollisionFollows
  BY <1>1, <1>2 DEF CreaturesInit, CollisionFollows
<1>. QED
  BY <1>3, <1>5, <1>6, <1>7, <1>8, <1>9, <1>10 DEF CreaturesIInv

(* Nothing that counts is lost when an NPC heads elsewhere or strays.      *)
LEMMA OneMoves ==
    ASSUME CreaturesIInv, NEW n \in NPCs, NEW f, Like(npc[n], f),
           npc' = [npc EXCEPT ![n] = f], fight' = fight
    PROVE  /\ Creatures' /\ Fighters' /\ Counts'
           /\ \A m \in NPCs : Falls(m)' /\ Tells(m)' /\ Owed(m)'
<1>1. job' = job /\ told' = told /\ dealt' = dealt
  BY DEF fight
<1>2. DOMAIN npc = NPCs /\ Creature(npc[n], Kind[n])
  BY DEF CreaturesIInv, Creatures
<1>3. /\ DOMAIN npc' = NPCs /\ npc'[n] = f
      /\ \A m \in NPCs \ {n} : npc'[m] = npc[m]
  BY <1>2
<1>4. Creature(f, Kind[n])
  BY <1>2 DEF Like, Creature
<1>5. Creatures'
  BY <1>3, <1>4 DEF CreaturesIInv, Creatures
<1>6. Fighters' /\ Counts'
  BY <1>1 DEF CreaturesIInv, Fighters, Working, Counts
<1>7. \A m \in NPCs : /\ npc'[m].hp = npc[m].hp /\ IsDead(npc'[m]) = IsDead(npc[m])
                      /\ Down(npc'[m]) = Down(npc[m])
  BY <1>3 DEF Like, IsDead, Down
<1>8. \A m, where : At(m, where)' = At(m, where)
  BY <1>1 DEF At
<1>9. ASSUME NEW m \in NPCs PROVE Falls(m)' /\ Tells(m)'
  BY <1>1, <1>7, <1>8 DEF CreaturesIInv, Falls, Tells
<1>10. ASSUME NEW m \in NPCs PROVE Owed(m)'
  BY <1>1, <1>7 DEF CreaturesIInv, Owed
<1>. QED
  BY <1>5, <1>6, <1>9, <1>10

(* What the game loop has yet to do is left alone by who does not move an  *)
(* NPC.                                                                    *)
LEMMA TurnStays ==
    ASSUME CreaturesIInv, turn' = turn, registered' = registered,
           \A n \in NPCs : npc'[n].near = npc[n].near
    PROVE  Turning' /\ CollisionFollows'
BY DEF CreaturesIInv, Turning, CollisionFollows, NextTurn, Hung

LEMMA CommandKeeps ==
    ASSUME CreaturesIInv, NEW s \in Sessions, NEW n \in NPCs, FamiliarCommand(s, n)
    PROVE  CreaturesIInv'
<1>1. PICK command \in {"follow", "attack", "stay"}, t \in (Sessions \ Guests) \cup {Nobody} :
          npc' = [npc EXCEPT ![n] = Obeys(@, command, t)]
  BY DEF FamiliarCommand
<1>2. fight' = fight /\ turn' = turn /\ registered' = registered
  BY DEF FamiliarCommand
<1>. DEFINE f == Obeys(npc[n], command, t)
<1>3. DOMAIN npc = NPCs /\ Creature(npc[n], npc[n].type)
  BY DEF CreaturesIInv, Creatures, Creature
<1>4. npc' = [npc EXCEPT ![n] = f] /\ LikeHere(npc[n], f)
  BY <1>1, <1>3, Obedience
<1>. HIDE DEF f
<1>5. Like(npc[n], f) /\ \A m \in NPCs : npc'[m].near = npc[m].near
  BY <1>3, <1>4 DEF LikeHere
<1>. QED
  BY <1>2, <1>4, <1>5, OneMoves, TurnStays DEF CreaturesIInv

(* A step of the game loop with one NPC is not the end of an update.       *)
LEMMA AdvanceKeeps ==
    ASSUME CreaturesIInv, NEW n \in NPCs, Advance(n) PROVE CreaturesIInv'
<1>1. PICK e \in Advanced(npc[n]) :
          IF e.active /\ e.ai \notin {"DEAD", "DESPAWNING"}
          THEN npc' = [npc EXCEPT ![n] = e] /\ turn' = [turn EXCEPT !.at = n]
          ELSE /\ \E f \in Moved(e) : npc' = [npc EXCEPT ![n] = f]
               /\ turn' = [turn EXCEPT !.todo = @ \ {n}]
  BY DEF Advance
<1>2. fight' = fight /\ n \in turn.todo /\ turn.at = Nobody
  BY DEF Advance
<1>3. Creature(npc[n], npc[n].type) /\ DOMAIN turn = TurnFields
  BY DEF CreaturesIInv, Creatures, Creature, Turning
<1>4. Like(npc[n], e)
  BY <1>3, Advances
<1>5. \E f : npc' = [npc EXCEPT ![n] = f] /\ Like(npc[n], f)
  <2>1. ASSUME NEW f \in Moved(e) PROVE Like(npc[n], f)
    <3>1. Creature(e, e.type)
      BY <1>4 DEF Like, Creature
    <3>2. Like(e, f)
      BY <3>1, Wanders
    <3>. QED
      BY <1>4, <3>2, LikeOnwards
  <2>. QED
    BY <1>1, <1>4, <2>1
<1>6. /\ Creatures' /\ Fighters' /\ Counts'
      /\ \A m \in NPCs : Falls(m)' /\ Tells(m)' /\ Owed(m)'
  BY <1>2, <1>5, OneMoves
<1>7. DOMAIN turn' = TurnFields /\ turn' # NextTurn /\ turn' # Hung
  <2>1. CASE turn' = [turn EXCEPT !.at = n]
    <3>1. DOMAIN turn' = TurnFields /\ turn'.at = n
      BY <1>3, <2>1 DEF TurnFields
    <3>2. NextTurn.at = Nobody /\ Hung.at = "collisions"
      BY DEF NextTurn, Hung
    <3>3. n # Nobody /\ n # "collisions"
      BY CreaturesAssumption
    <3>. QED
      BY <3>1, <3>2, <3>3
  <2>2. CASE turn' = [turn EXCEPT !.todo = @ \ {n}]
    <3>1. /\ DOMAIN turn' = TurnFields /\ turn'.at = Nobody /\ turn'.todo = turn.todo \ {n}
      BY <1>2, <1>3, <2>2 DEF TurnFields
    <3>2. NextTurn.todo = NPCs /\ Hung.at = "collisions"
      BY DEF NextTurn, Hung
    <3>3. Nobody # "collisions"
      BY CreaturesAssumption
    <3>. QED
      BY <3>1, <3>2, <3>3
  <2>. QED
    BY <1>1, <2>1, <2>2
<1>8. Turning' /\ CollisionFollows'
  BY <1>7 DEF Turning, CollisionFollows, NextTurn, Hung
<1>. QED
  BY <1>6, <1>8 DEF CreaturesIInv

LEMMA BehaveKeeps ==
    ASSUME CreaturesIInv, NEW n \in NPCs, Behave(n) PROVE CreaturesIInv'
<1>0. PICK e \in UpdateAI(npc[n]) : \E f \in Moved(e) : npc' = [npc EXCEPT ![n] = f]
  BY DEF Behave
<1>1. PICK f \in Moved(e) : npc' = [npc EXCEPT ![n] = f]
  BY <1>0
<1>2. fight' = fight /\ turn' = [turn EXCEPT !.todo = @ \ {n}, !.at = Nobody]
  BY DEF Behave
<1>3. Creature(npc[n], npc[n].type) /\ DOMAIN turn = TurnFields
  BY DEF CreaturesIInv, Creatures, Creature, Turning
<1>4. Like(npc[n], e)
  BY <1>3, Behaves
<1>5. Like(npc[n], f)
  <2>1. Creature(e, e.type)
    BY <1>4 DEF Like, Creature
  <2>2. Like(e, f)
    BY <2>1, Wanders
  <2>. QED
    BY <1>4, <2>2, LikeOnwards
<1>6. /\ Creatures' /\ Fighters' /\ Counts'
      /\ \A m \in NPCs : Falls(m)' /\ Tells(m)' /\ Owed(m)'
  BY <1>1, <1>2, <1>5, OneMoves
<1>7. DOMAIN turn' = TurnFields /\ turn'.at = Nobody /\ turn'.todo = turn.todo \ {n}
  BY <1>2, <1>3 DEF TurnFields
<1>8. turn' # NextTurn /\ turn' # Hung
  <2>1. NextTurn.todo = NPCs /\ Hung.at = "collisions"
    BY DEF NextTurn, Hung
  <2>. QED
    BY <1>7, <2>1, CreaturesAssumption
<1>9. Turning' /\ CollisionFollows'
  BY <1>7, <1>8 DEF Turning, CollisionFollows, NextTurn, Hung
<1>. QED
  BY <1>6, <1>9 DEF CreaturesIInv

LEMMA UpdateKeeps == ASSUME CreaturesIInv, EndUpdate PROVE CreaturesIInv'
<1>1. /\ npc' = npc /\ job' = job /\ told' = told /\ dealt' = dealt
      /\ registered' = [n \in NPCs |-> npc[n].near] /\ turn' \in {NextTurn, Hung}
  BY DEF EndUpdate, UpdateRegistered, fight
<1>2. /\ Creatures' /\ Fighters' /\ Counts'
  BY <1>1 DEF CreaturesIInv, Creatures, Fighters, Working, Counts
<1>3. \A n \in NPCs : Falls(n)' /\ Tells(n)' /\ Owed(n)'
  BY <1>1 DEF CreaturesIInv, Falls, Tells, Owed, At
<1>4. Turning'
  BY <1>1 DEF Turning, TurnFields, NextTurn, Hung
<1>5. CollisionFollows'
  BY <1>1 DEF CollisionFollows
<1>. QED
  BY <1>2, <1>3, <1>4, <1>5 DEF CreaturesIInv

(* The steps of an attack change the job of one thread.                    *)
JobMoves(s, new) ==
    /\ job' = [job EXCEPT ![s] = new] /\ DOMAIN new = JobFields

LEMMA OtherJobs ==
    ASSUME CreaturesIInv, NEW s \in Sessions, NEW new, JobMoves(s, new)
    PROVE  /\ job'[s] = new /\ DOMAIN job' = Sessions
           /\ \A t \in Sessions \ {s} : job'[t] = job[t]
BY DEF CreaturesIInv, Fighters, JobMoves

LEMMA FightersStay ==
    ASSUME CreaturesIInv, NEW s \in Sessions, NEW new, JobMoves(s, new),
           new.pc # "idle" => new.npc \in NPCs,
           new.pc = "write" => new.seen \in Nat \ {0}
    PROVE  Fighters'
BY OtherJobs DEF CreaturesIInv, Fighters, Working, JobMoves

(* The job of a step stays on its NPC and goes from one pc to another.     *)
LEMMA WhoIsAt ==
    ASSUME CreaturesIInv, NEW s \in Sessions, NEW new, JobMoves(s, new), NEW n, NEW where,
           job[s].pc \in where => new.npc = job[s].npc /\ new.pc \in where
    PROVE  At(n, where) => At(n, where)'
<1>. SUFFICES ASSUME At(n, where) PROVE At(n, where)'
  OBVIOUS
<1>1. PICK t \in Sessions : job[t].npc = n /\ job[t].pc \in where
  BY DEF At
<1>2. job'[t].npc = n /\ job'[t].pc \in where
  BY <1>1, OtherJobs
<1>. QED
  BY <1>2 DEF At

(* Whatever an attack has done so far, it owes no more than before.        *)
LEMMA OwedStays ==
    ASSUME CreaturesIInv, NEW s \in Sessions, NEW new, JobMoves(s, new),
           NEW n \in NPCs, npc'[n].hp = npc[n].hp, dealt' = dealt,
           new.pc = "write" => new.seen = npc[new.npc].hp
    PROVE  Owed(n)'
<1>1. npc[n].hp + dealt[n] >= MaxHits(Kind[n])
  BY DEF CreaturesIInv, Owed
<1>2. ASSUME NEW t \in Sessions, job'[t].pc = "write", job'[t].npc = n
      PROVE  job'[t].seen + dealt[n] >= MaxHits(Kind[n])
  <2>1. CASE t = s
    BY <1>1, <1>2, <2>1, OtherJobs
  <2>2. CASE t # s
    BY <1>2, <2>2, OtherJobs DEF CreaturesIInv, Owed
  <2>. QED
    BY <2>1, <2>2
<1>. QED
  BY <1>1, <1>2 DEF Owed

(* No NPC changes, and the step does not leave where others look for it.   *)
LEMMA JobAlone ==
    ASSUME CreaturesIInv, NEW s \in Sessions, NEW new, JobMoves(s, new),
           npc' = npc, dealt' = dealt, told' = told, turn' = turn, registered' = registered,
           new.pc # "idle" => new.npc \in NPCs,
           new.pc = "write" => new.seen \in Nat \ {0} /\ new.seen = npc[new.npc].hp,
           job[s].pc \notin {"react", "answer"}
    PROVE  CreaturesIInv'
<1>1. Creatures' /\ Counts'
  BY DEF CreaturesIInv, Creatures, Counts
<1>2. Fighters'
  BY FightersStay
<1>3. ASSUME NEW n \in NPCs PROVE Falls(n)' /\ Tells(n)'
  <2>1. /\ At(n, {"react"}) => At(n, {"react"})'
        /\ At(n, {"react", "answer"}) => At(n, {"react", "answer"})'
    BY WhoIsAt
  <2>. QED
    BY <2>1 DEF CreaturesIInv, Falls, Tells
<1>4. \A n \in NPCs : Owed(n)'
  BY OwedStays
<1>5. Turning' /\ CollisionFollows'
  BY TurnStays
<1>. QED
  BY <1>1, <1>2, <1>3, <1>4, <1>5 DEF CreaturesIInv

LEMMA AttackKeeps ==
    ASSUME CreaturesIInv, NEW s \in Sessions, NEW n \in NPCs, Attack(s, n)
    PROVE  CreaturesIInv'
<1>. DEFINE new == [pc |-> IF IsDead(npc[n]) THEN "answer" ELSE "hate", npc |-> n, seen |-> 0]
<1>1. JobMoves(s, new)
  BY DEF Attack, JobMoves, JobFields
<1>2. new.npc \in NPCs /\ new.pc # "write"
  OBVIOUS
<1>. HIDE DEF new
<1>3. /\ npc' = npc /\ dealt' = dealt /\ told' = told /\ turn' = turn
      /\ registered' = registered /\ job[s].pc = "idle"
  BY DEF Attack
<1>. QED
  BY <1>1, <1>2, <1>3, JobAlone

LEMMA ReadKeeps ==
    ASSUME CreaturesIInv, NEW s \in Sessions, ReadHealth(s)
    PROVE  CreaturesIInv'
<1>. DEFINE n == job[s].npc
            to == IF IsDead(npc[n]) THEN "react" ELSE "write"
            new == [job[s] EXCEPT !.pc = to, !.seen = npc[n].hp]
<1>0. DOMAIN job = Sessions /\ DOMAIN job[s] = JobFields
  BY DEF CreaturesIInv, Fighters, Working
<1>1. JobMoves(s, new)
  BY <1>0 DEF ReadHealth, JobMoves
<1>2. new.npc = n /\ new.pc = to /\ new.seen = npc[n].hp
  BY <1>0 DEF JobFields
<1>. HIDE DEF new
<1>3. /\ npc' = npc /\ dealt' = dealt /\ told' = told /\ turn' = turn
      /\ registered' = registered /\ job[s].pc = "read"
  BY DEF ReadHealth
<1>4. n \in NPCs
  BY <1>3 DEF CreaturesIInv, Fighters, Working
<1>5. npc[n].hp \in Nat
  BY <1>4 DEF CreaturesIInv, Creatures, Creature
<1>6. new.pc = "write" => new.seen \in Nat \ {0}
  BY <1>2, <1>5 DEF IsDead
<1>. QED
  BY <1>1, <1>2, <1>3, <1>4, <1>6, JobAlone

LEMMA HateKeeps ==
    ASSUME CreaturesIInv, NEW s \in Sessions, Hate(s)
    PROVE  CreaturesIInv'
<1>. DEFINE n == job[s].npc
            new == [job[s] EXCEPT !.pc = "read"]
<1>0. DOMAIN job = Sessions /\ DOMAIN job[s] = JobFields
  BY DEF CreaturesIInv, Fighters, Working
<1>1. JobMoves(s, new)
  BY <1>0 DEF Hate, JobMoves
<1>2. new.npc = n /\ new.pc = "read"
  BY <1>0 DEF JobFields
<1>. HIDE DEF new
<1>3. PICK e \in UpdateHateList(npc[n], s) : npc' = [npc EXCEPT ![n] = e]
  BY DEF Hate
<1>4. /\ dealt' = dealt /\ told' = told /\ turn' = turn
      /\ registered' = registered /\ job[s].pc = "hate"
  BY DEF Hate
<1>5. n \in NPCs
  BY <1>4 DEF CreaturesIInv, Fighters, Working
<1>6. Creature(npc[n], Kind[n]) /\ DOMAIN npc = NPCs
  BY <1>5 DEF CreaturesIInv, Creatures
<1>7. LikeHere(npc[n], e)
  BY <1>6, HateIsKept DEF Creature
<1>8. /\ npc'[n] = e /\ DOMAIN npc' = NPCs
      /\ \A m \in NPCs \ {n} : npc'[m] = npc[m]
  BY <1>3, <1>5, <1>6
<1>9. Creatures' /\ Counts'
  BY <1>4, <1>6, <1>7, <1>8 DEF CreaturesIInv, Creatures, Creature, Counts, LikeHere, Like
<1>10. Fighters'
  BY <1>1, <1>2, <1>5, FightersStay
<1>11. \A m \in NPCs : /\ npc'[m].hp = npc[m].hp /\ IsDead(npc'[m]) = IsDead(npc[m])
                       /\ Down(npc'[m]) = Down(npc[m]) /\ npc'[m].near = npc[m].near
  BY <1>7, <1>8 DEF LikeHere, Like, IsDead, Down
<1>12. ASSUME NEW m \in NPCs PROVE Falls(m)' /\ Tells(m)'
  <2>1. /\ At(m, {"react"}) => At(m, {"react"})'
        /\ At(m, {"react", "answer"}) => At(m, {"react", "answer"})'
    BY <1>1, <1>4, WhoIsAt
  <2>. QED
    BY <1>4, <1>11, <2>1 DEF CreaturesIInv, Falls, Tells
<1>13. \A m \in NPCs : Owed(m)'
  BY <1>1, <1>2, <1>4, <1>11, OwedStays
<1>14. Turning' /\ CollisionFollows'
  BY <1>4, <1>11, TurnStays
<1>. QED
  BY <1>9, <1>10, <1>12, <1>13, <1>14 DEF CreaturesIInv

(* The write that may undo another: what it writes is still no less than   *)
(* what the attacks up to it leave.                                        *)
LEMMA WriteKeeps ==
    ASSUME CreaturesIInv, NEW s \in Sessions, WriteHealth(s)
    PROVE  CreaturesIInv'
<1>. DEFINE n == job[s].npc
            hp == job[s].seen - 1
            new == [job[s] EXCEPT !.pc = "react"]
            e == [npc[n] EXCEPT !.hp = hp, !.active = @ /\ hp # 0]
<1>0. DOMAIN job = Sessions /\ DOMAIN job[s] = JobFields
  BY DEF CreaturesIInv, Fighters, Working
<1>1. JobMoves(s, new)
  BY <1>0 DEF WriteHealth, JobMoves
<1>2. new.npc = n /\ new.pc = "react"
  BY <1>0 DEF JobFields
<1>. HIDE DEF new
<1>3. /\ dealt' = [dealt EXCEPT ![n] = @ + 1] /\ told' = told /\ turn' = turn
      /\ registered' = registered /\ job[s].pc = "write"
  BY DEF WriteHealth
<1>4. n \in NPCs /\ hp \in Nat
  BY <1>3 DEF CreaturesIInv, Fighters, Working
<1>5. Creature(npc[n], Kind[n]) /\ DOMAIN npc = NPCs /\ dealt \in [NPCs -> Nat]
  BY <1>4 DEF CreaturesIInv, Creatures, Counts
<1>6. npc' = [npc EXCEPT ![n] = e]
  BY <1>4, <1>5 DEF WriteHealth
<1>7. /\ Creature(e, Kind[n]) /\ e.hp = hp /\ e.near = npc[n].near
      /\ e.visible = npc[n].visible /\ e.collidable = npc[n].collidable
      /\ e.active => npc[n].active
  BY <1>4, <1>5 DEF Creature, CreatureFields
<1>. HIDE DEF e
<1>8. /\ npc'[n] = e /\ DOMAIN npc' = NPCs
      /\ \A m \in NPCs \ {n} : npc'[m] = npc[m]
  BY <1>4, <1>5, <1>6
<1>9. Creatures'
  BY <1>7, <1>8 DEF CreaturesIInv, Creatures
<1>10. /\ dealt'[n] = dealt[n] + 1 /\ dealt' \in [NPCs -> Nat]
       /\ \A m \in NPCs \ {n} : dealt'[m] = dealt[m]
  BY <1>3, <1>4, <1>5
<1>11. Counts'
  BY <1>3, <1>10 DEF CreaturesIInv, Counts
<1>12. Fighters'
  BY <1>1, <1>2, <1>4, FightersStay
<1>13. ASSUME NEW m \in NPCs PROVE Falls(m)' /\ Tells(m)'
  <2>1. CASE m = n
    <3>1. job'[s].npc = m /\ job'[s].pc = "react"
      BY <1>1, <1>2, <2>1, OtherJobs
    <3>2. At(m, {"react"})' /\ At(m, {"react", "answer"})'
      BY <3>1 DEF At
    <3>. QED
      BY <3>2 DEF Falls, Tells
  <2>2. CASE m # n
    <3>1. npc'[m] = npc[m]
      BY <1>8, <2>2
    <3>2. /\ At(m, {"react"}) => At(m, {"react"})'
          /\ At(m, {"react", "answer"}) => At(m, {"react", "answer"})'
      BY <1>1, <1>3, WhoIsAt
    <3>. QED
      BY <1>3, <3>1, <3>2 DEF CreaturesIInv, Falls, Tells
  <2>. QED
    BY <2>1, <2>2
<1>14. ASSUME NEW m \in NPCs PROVE Owed(m)'
  <2>1. MaxHits(Kind[m]) \in Nat /\ dealt[m] \in Nat /\ dealt'[m] \in Nat /\ dealt'[m] >= dealt[m]
    BY <1>5, <1>10, HitsAreNumbers
  <2>2. npc'[m].hp + dealt'[m] >= MaxHits(Kind[m])
    <3>1. CASE m = n
      <4>1. job[s].seen + dealt[n] >= MaxHits(Kind[n]) /\ job[s].seen \in Nat
        BY <1>3, <1>4 DEF CreaturesIInv, Owed, Fighters, Working
      <4>2. npc'[m].hp = job[s].seen - 1
        BY <1>7, <1>8, <3>1
      <4>. QED
        BY <1>10, <2>1, <3>1, <4>1, <4>2
    <3>2. CASE m # n
      BY <1>8, <1>10, <3>2 DEF CreaturesIInv, Owed
    <3>. QED
      BY <3>1, <3>2
  <2>3. ASSUME NEW t \in Sessions, job'[t].pc = "write", job'[t].npc = m
        PROVE  job'[t].seen + dealt'[m] >= MaxHits(Kind[m])
    <3>1. t # s /\ job'[t] = job[t]
      BY <1>1, <1>2, <2>3, OtherJobs
    <3>2. job[t].seen + dealt[m] >= MaxHits(Kind[m]) /\ job[t].seen \in Nat
      BY <2>3, <3>1 DEF CreaturesIInv, Owed, Fighters, Working
    <3>. QED
      BY <2>1, <3>1, <3>2
  <2>. QED
    BY <2>2, <2>3 DEF Owed
<1>15. \A m \in NPCs : npc'[m].near = npc[m].near
  BY <1>7, <1>8
<1>16. Turning' /\ CollisionFollows'
  BY <1>3, <1>15, TurnStays
<1>. QED
  BY <1>9, <1>11, <1>12, <1>13, <1>14, <1>16 DEF CreaturesIInv

(* Who is dead after the damage goes down; who is not goes on.             *)
LEMMA Reacts ==
    ASSUME NEW e, Creature(e, e.type)
    PROVE  /\ Creature(Reaction(e), e.type)
           /\ Reaction(e).hp = e.hp /\ Reaction(e).near = e.near
           /\ IsDead(e) => Down(Reaction(e))
<1>1. CASE IsDead(e)
  <2>. DEFINE f == [e EXCEPT !.ai = "DEAD"]
              g == [f EXCEPT !.moving = FALSE]
              h == [g EXCEPT !.active = FALSE, !.visible = FALSE, !.collidable = FALSE,
                             !.ai = "DESPAWNING"]
  <2>1. Reaction(e) = h
    BY <1>1 DEF Reaction, SetAIState, ChangeToDead, Stop, Creature
  <2>2. /\ DOMAIN g = CreatureFields /\ g.type = e.type /\ g.hp = e.hp /\ g.near = e.near
    BY DEF Creature, CreatureFields
  <2>. HIDE DEF g
  <2>3. /\ DOMAIN h = CreatureFields /\ h.type = e.type /\ h.hp = e.hp /\ h.near = e.near
        /\ h.active = FALSE /\ h.visible = FALSE /\ h.collidable = FALSE
        /\ h.ai = "DESPAWNING"
    BY <2>2 DEF CreatureFields
  <2>. HIDE DEF h
  <2>. QED
    BY <2>1, <2>3 DEF Creature, Down
<1>2. CASE ~IsDead(e)
  <2>1. PICK f : f \in {e, SetAIState(e, "CHASE")} /\ Reaction(e) \in {f, Stop(f)}
    BY <1>2 DEF Reaction
  <2>2. LikeHere(e, f)
    BY <2>1, LikeItself, StateIsSet
  <2>3. Creature(f, f.type)
    BY <2>2 DEF LikeHere, Like, Creature
  <2>4. LikeHere(e, Reaction(e))
    BY <2>1, <2>2, <2>3, Moves, LikeHereOnwards
  <2>. QED
    BY <1>2, <2>4 DEF LikeHere, Like
<1>. QED
  BY <1>1, <1>2

LEMMA ReactKeeps ==
    ASSUME CreaturesIInv, NEW s \in Sessions, React(s)
    PROVE  CreaturesIInv'
<1>. DEFINE n == job[s].npc
            new == [job[s] EXCEPT !.pc = "answer"]
            e == Reaction(npc[n])
<1>0. DOMAIN job = Sessions /\ DOMAIN job[s] = JobFields
  BY DEF CreaturesIInv, Fighters, Working
<1>1. JobMoves(s, new)
  BY <1>0 DEF React, JobMoves
<1>2. new.npc = n /\ new.pc = "answer"
  BY <1>0 DEF JobFields
<1>. HIDE DEF new
<1>3. /\ dealt' = dealt /\ told' = told /\ turn' = turn
      /\ registered' = registered /\ job[s].pc = "react"
  BY DEF React
<1>4. n \in NPCs
  BY <1>3 DEF CreaturesIInv, Fighters, Working
<1>5. Creature(npc[n], Kind[n]) /\ DOMAIN npc = NPCs
  BY <1>4 DEF CreaturesIInv, Creatures
<1>6. npc' = [npc EXCEPT ![n] = e]
  BY DEF React
<1>7. /\ Creature(e, Kind[n]) /\ e.hp = npc[n].hp /\ e.near = npc[n].near
      /\ IsDead(npc[n]) => Down(e)
  BY <1>5, Reacts DEF Creature
<1>. HIDE DEF e
<1>8. /\ npc'[n] = e /\ DOMAIN npc' = NPCs
      /\ \A m \in NPCs \ {n} : npc'[m] = npc[m]
  BY <1>4, <1>5, <1>6
<1>9. Creatures' /\ Counts'
  BY <1>3, <1>7, <1>8 DEF CreaturesIInv, Creatures, Counts
<1>10. Fighters'
  BY <1>1, <1>2, <1>4, FightersStay
<1>11. \A m \in NPCs : /\ npc'[m].hp = npc[m].hp /\ IsDead(npc'[m]) = IsDead(npc[m])
                       /\ npc'[m].near = npc[m].near
  BY <1>7, <1>8 DEF IsDead
<1>12. ASSUME NEW m \in NPCs PROVE Falls(m)'
  <2>1. CASE m = n
    BY <1>7, <1>8, <1>11, <2>1 DEF Falls
  <2>2. CASE m # n
    <3>1. ASSUME NEW t \in Sessions, job[t].npc = m, job[t].pc \in {"react"}
          PROVE  At(m, {"react"})'
      <4>1. job'[t] = job[t]
        BY <1>1, <2>2, <3>1, OtherJobs
      <4>. QED
        BY <3>1, <4>1 DEF At
    <3>2. npc'[m] = npc[m]
      BY <1>8, <2>2
    <3>. QED
      BY <3>1, <3>2 DEF CreaturesIInv, Falls, At
  <2>. QED
    BY <2>1, <2>2
<1>13. ASSUME NEW m \in NPCs PROVE Tells(m)'
  <2>1. At(m, {"react", "answer"}) => At(m, {"react", "answer"})'
    BY <1>1, <1>2, WhoIsAt
  <2>. QED
    BY <1>3, <1>11, <2>1 DEF CreaturesIInv, Tells
<1>14. \A m \in NPCs : Owed(m)'
  BY <1>1, <1>2, <1>3, <1>11, OwedStays
<1>15. Turning' /\ CollisionFollows'
  BY <1>3, <1>11, TurnStays
<1>. QED
  BY <1>9, <1>10, <1>12, <1>13, <1>14, <1>15 DEF CreaturesIInv

(* An answer about a dead NPC tells of its death; one about an NPC that    *)
(* another attack's write has brought back does not, and need not.         *)
LEMMA AnswerKeeps ==
    ASSUME CreaturesIInv, NEW s \in Sessions, Answer(s)
    PROVE  CreaturesIInv'
<1>. DEFINE n == job[s].npc
<1>1. JobMoves(s, NoJob) /\ NoJob.pc = "idle"
  BY DEF Answer, JobMoves, NoJob, JobFields
<1>3. /\ npc' = npc /\ dealt' = dealt /\ turn' = turn
      /\ registered' = registered /\ job[s].pc = "answer"
      /\ told' = [told EXCEPT ![n] = IF IsDead(npc[n]) THEN @ \cup {s} ELSE @]
  BY DEF Answer
<1>4. n \in NPCs /\ DOMAIN told = NPCs
  BY <1>3 DEF CreaturesIInv, Fighters, Working, Counts
<1>5. /\ DOMAIN told' = NPCs
      /\ IsDead(npc[n]) => told'[n] # {}
      /\ \A m \in NPCs \ {n} : told'[m] = told[m]
  BY <1>3, <1>4
<1>6. Creatures' /\ Counts'
  BY <1>3, <1>5 DEF CreaturesIInv, Creatures, Counts
<1>7. Fighters'
  BY <1>1, FightersStay
<1>8. ASSUME NEW m \in NPCs PROVE Falls(m)'
  <2>1. At(m, {"react"}) => At(m, {"react"})'
    BY <1>1, <1>3, WhoIsAt
  <2>. QED
    BY <1>3, <2>1 DEF CreaturesIInv, Falls
<1>9. ASSUME NEW m \in NPCs PROVE Tells(m)'
  <2>1. CASE m = n
    BY <1>3, <1>5, <2>1 DEF Tells
  <2>2. CASE m # n
    <3>1. ASSUME NEW t \in Sessions, job[t].npc = m, job[t].pc \in {"react", "answer"}
          PROVE  At(m, {"react", "answer"})'
      <4>1. job'[t] = job[t]
        BY <1>1, <2>2, <3>1, OtherJobs
      <4>. QED
        BY <3>1, <4>1 DEF At
    <3>. QED
      BY <1>3, <1>5, <2>2, <3>1 DEF CreaturesIInv, Tells, At
  <2>. QED
    BY <2>1, <2>2
<1>10. \A m \in NPCs : Owed(m)'
  BY <1>1, <1>3, OwedStays
<1>11. Turning' /\ CollisionFollows'
  BY <1>3, TurnStays
<1>. QED
  BY <1>6, <1>7, <1>8, <1>9, <1>10, <1>11 DEF CreaturesIInv

LEMMA CreaturesRest == ASSUME CreaturesIInv, UNCHANGED creaturesVars PROVE CreaturesIInv'
<1>1. /\ npc' = npc /\ registered' = registered /\ job' = job /\ told' = told
      /\ dealt' = dealt /\ turn' = turn
  BY DEF creaturesVars, fight
<1>2. Creatures' /\ Fighters' /\ Counts'
  BY <1>1 DEF CreaturesIInv, Creatures, Fighters, Working, Counts
<1>3. \A n \in NPCs : Falls(n)' /\ Tells(n)' /\ Owed(n)'
  BY <1>1 DEF CreaturesIInv, Falls, Tells, Owed, At
<1>4. Turning' /\ CollisionFollows'
  BY <1>1, TurnStays
<1>. QED
  BY <1>2, <1>3, <1>4 DEF CreaturesIInv

LEMMA CreaturesStep == CreaturesIInv /\ CreaturesNext => CreaturesIInv'
<1>. SUFFICES ASSUME CreaturesIInv, CreaturesNext PROVE CreaturesIInv'
  OBVIOUS
<1>1. CASE EndUpdate
  BY <1>1, UpdateKeeps
<1>2. ASSUME NEW n \in NPCs, Advance(n) \/ Behave(n) PROVE CreaturesIInv'
  BY <1>2, AdvanceKeeps, BehaveKeeps
<1>3. ASSUME NEW s \in Sessions, Handle(s) PROVE CreaturesIInv'
  BY <1>3, HateKeeps, ReadKeeps, WriteKeeps, ReactKeeps, AnswerKeeps DEF Handle
<1>4. ASSUME NEW s \in Sessions, NEW n \in NPCs, Attack(s, n) \/ FamiliarCommand(s, n)
      PROVE  CreaturesIInv'
  BY <1>4, AttackKeeps, CommandKeeps
<1>. QED
  BY <1>1, <1>2, <1>3, <1>4 DEF CreaturesNext, UpdateNPCs

(* GameLogic::OnNPCInteraction and NPCEntity::TakeDamage, without a lock,  *)
(* against those of other players and the AI of the game loop: who has no  *)
(* health is down and his death was told, no attack does more than it      *)
(* carries, and the collision system has every NPC where it is.            *)
THEOREM FightsAreSound == Spec => []CreaturesInv
<1>1. CreaturesIInv /\ [Next]_vars => CreaturesIInv'
  BY CreaturesStep, CreaturesRest DEF Next, vars
<1>. QED
  BY CreaturesStart, <1>1, FightFollows, PTL DEF Spec

-----------------------------------------------------------------------------
(* Loot tables.  The invariant needs one fact beside NoTableLeft: a        *)
(* pointer that does not dangle points to a table of the map.  It makes    *)
(* Draw read a table with the id it looked up, so that UnregisterPicked    *)
(* removes the right one.                                                  *)
DrawFields == {"at", "table", "temporary", "gone", "level", "rep", "loot"}

(* A draw is a record with two flags.                                      *)
DrawShape ==
    /\ DOMAIN draw = Drawers
    /\ \A d \in Drawers : /\ DOMAIN draw[d] = DrawFields
                          /\ draw[d].temporary \in BOOLEAN /\ draw[d].gone \in BOOLEAN

Held(d) ==
    draw[d].at = "found" /\ draw[d].gone = FALSE =>
        draw[d].table.tableId \in Lt!LootIds(lootTables)

(* A table is there because somebody asked for it, or for a draw.          *)
Accounted(id) ==
    \/ id \in asked
    \/ \E d \in Drawers : /\ draw[d].at # "idle" /\ draw[d].temporary = TRUE
                          /\ draw[d].table.tableId = id

LootIInv ==
    /\ DrawShape
    /\ \A d \in Drawers : Held(d)
    /\ \A id \in Lt!LootIds(lootTables) : Accounted(id)

(* The ids after a table was registered.                                   *)
LEMMA RegisteredIds ==
    ASSUME NEW T, NEW t
    PROVE  Lt!LootIds(Lt!Registered(T, t)) = Lt!LootIds(T) \cup {t.tableId}
BY DEF Lt!LootIds, Lt!Registered

(* An id has a table if it is one of the ids, and that table has it.       *)
LEMMA LookUp ==
    ASSUME NEW id
    PROVE  /\ (Lt!WithId(id) = {}) <=> (id \notin Lt!LootIds(lootTables))
           /\ Lt!WithId(id) # {} => (CHOOSE t \in Lt!WithId(id) : TRUE).tableId = id
<1>1. Lt!WithId(id) # {} => (CHOOSE t \in Lt!WithId(id) : TRUE) \in Lt!WithId(id)
  OBVIOUS
<1>. QED
  BY <1>1 DEF Lt!WithId, Lt!LootIds

(* Dropping the tables of an id drops the id and no other.                 *)
LEMMA DroppedIds ==
    ASSUME NEW id
    PROVE  Lt!LootIds(lootTables \ Lt!WithId(id)) = Lt!LootIds(lootTables) \ {id}
BY DEF Lt!LootIds, Lt!WithId

(* What a change of the tables alone needs: no id is lost, and those that  *)
(* are new were asked for.                                                 *)
LEMMA TablesGrow ==
    ASSUME LootIInv, draw' = draw, asked \subseteq asked',
           Lt!LootIds(lootTables) \subseteq Lt!LootIds(lootTables'),
           Lt!LootIds(lootTables') \subseteq Lt!LootIds(lootTables) \cup asked'
    PROVE  LootIInv'
<1>1. DrawShape'
  BY DEF LootIInv, DrawShape
<1>2. ASSUME NEW d \in Drawers PROVE Held(d)'
  BY DEF LootIInv, Held, Lt!LootIds
<1>3. ASSUME NEW id \in Lt!LootIds(lootTables)' PROVE Accounted(id)'
  <2>1. id \in Lt!LootIds(lootTables) \/ id \in asked'
    BY <1>3 DEF Lt!LootIds
  <2>. QED
    BY <2>1 DEF LootIInv, Accounted
<1>. QED
  BY <1>1, <1>2, <1>3 DEF LootIInv

(* What a step of one draw needs: it holds a table if it says so, and does *)
(* not lose the table it has to remove.                                    *)
LEMMA DrawMoves ==
    ASSUME LootIInv, NEW d \in Drawers, NEW new, draw' = [draw EXCEPT ![d] = new],
           DOMAIN new = DrawFields, new.temporary \in BOOLEAN, new.gone \in BOOLEAN,
           lootTables' = lootTables, asked' = asked,
           new.at = "found" /\ new.gone = FALSE => new.table.tableId \in Lt!LootIds(lootTables),
           draw[d].at # "idle" /\ draw[d].temporary = TRUE =>
               /\ new.at # "idle" /\ new.temporary = TRUE
               /\ new.table.tableId = draw[d].table.tableId
    PROVE  LootIInv'
<1>0. /\ draw'[d] = new
      /\ \A e \in Drawers \ {d} : draw'[e] = draw[e]
      /\ DOMAIN draw' = Drawers
  BY DEF LootIInv, DrawShape
<1>1. DrawShape'
  BY <1>0 DEF LootIInv, DrawShape
<1>2. ASSUME NEW e \in Drawers PROVE Held(e)'
  <2>1. CASE e = d
    BY <1>0, <2>1 DEF Held, Lt!LootIds
  <2>2. CASE e # d
    BY <1>0, <2>2 DEF LootIInv, Held, Lt!LootIds
  <2>. QED
    BY <2>1, <2>2
<1>3. ASSUME NEW id \in Lt!LootIds(lootTables)' PROVE Accounted(id)'
  <2>1. id \in Lt!LootIds(lootTables)
    BY <1>3 DEF Lt!LootIds
  <2>2. CASE id \in asked
    BY <2>2 DEF Accounted
  <2>3. CASE \E e \in Drawers : /\ draw[e].at # "idle" /\ draw[e].temporary = TRUE
                                /\ draw[e].table.tableId = id
    <3>1. PICK e \in Drawers : /\ draw[e].at # "idle" /\ draw[e].temporary = TRUE
                               /\ draw[e].table.tableId = id
      BY <2>3
    <3>2. /\ draw'[e].at # "idle" /\ draw'[e].temporary = TRUE
          /\ draw'[e].table.tableId = id
      BY <1>0, <3>1
    <3>. QED
      BY <3>2 DEF Accounted
  <2>. QED
    BY <2>1, <2>2, <2>3 DEF LootIInv, Accounted
<1>. QED
  BY <1>1, <1>2, <1>3 DEF LootIInv

(* Found changes where a draw is and its table, which keeps its id.        *)
LEMMA FoundMoves ==
    ASSUME LootIInv, NEW d \in Drawers, NEW id
    PROVE  /\ DOMAIN Lt!Found(d, id) = DrawFields
           /\ Lt!Found(d, id).temporary = draw[d].temporary
           /\ Lt!Found(d, id).gone \in BOOLEAN
           /\ Lt!Found(d, id).at = "found" =>
                  /\ Lt!Found(d, id).table.tableId = id
                  /\ id \in Lt!LootIds(lootTables)
           /\ Lt!Found(d, id).at # "found" => Lt!Found(d, id).table = draw[d].table
           /\ Lt!Found(d, id).at \in {"found", "drawn", "idle"}
           /\ draw[d].at = "registered" => Lt!Found(d, id).at # "idle"
<1>1. DOMAIN draw[d] = DrawFields /\ draw[d].gone \in BOOLEAN
  BY DEF LootIInv, DrawShape
<1>2. CASE Lt!WithId(id) = {}
  BY <1>1, <1>2 DEF Lt!Found, DrawFields
<1>3. CASE Lt!WithId(id) # {}
  BY <1>1, <1>3, LookUp DEF Lt!Found, DrawFields
<1>. QED
  BY <1>2, <1>3

(* The initial state has no table.                                         *)
LEMMA LootInit == Lt!LootTablesInit => LootIInv
<1>. SUFFICES ASSUME Lt!LootTablesInit PROVE LootIInv
  OBVIOUS
<1>1. /\ DOMAIN Lt!Idle = DrawFields
      /\ Lt!Idle.at = "idle" /\ Lt!Idle.temporary = FALSE /\ Lt!Idle.gone = FALSE
  BY DEF Lt!Idle, DrawFields
<1>2. DOMAIN draw = Drawers /\ \A d \in Drawers : draw[d] = Lt!Idle
  BY DEF Lt!LootTablesInit
<1>3. Lt!LootIds(lootTables) = {}
  BY DEF Lt!LootTablesInit, Lt!LootIds
<1>4. DrawShape
  BY <1>1, <1>2 DEF DrawShape
<1>5. ASSUME NEW d \in Drawers PROVE Held(d)
  BY <1>1, <1>2 DEF Held
<1>. QED
  BY <1>3, <1>4, <1>5 DEF LootIInv

(* Operations on the tables.                                               *)
LEMMA RegisterKeeps == ASSUME LootIInv, NEW t, Lt!RegisterTable(t) PROVE LootIInv'
<1>1. Lt!LootIds(lootTables') = Lt!LootIds(lootTables) \cup {t.tableId}
  BY RegisteredIds DEF Lt!RegisterTable
<1>. QED
  BY <1>1, TablesGrow DEF Lt!RegisterTable

LEMMA LoadKeeps == ASSUME LootIInv, Lt!LoadLootTables PROVE LootIInv'
<1>1. Lt!LootIds(lootTables') = Lt!LootIds(lootTables) \cup Lt!LootIds(lootFile)
  BY DEF Lt!LoadLootTables, Lt!LootIds
<1>. QED
  BY <1>1, TablesGrow DEF Lt!LoadLootTables

LEMMA SaveKeeps == ASSUME LootIInv, Lt!SaveLootTables PROVE LootIInv'
BY TablesGrow DEF Lt!SaveLootTables

(* Freed marks the pointers whose table goes, and changes nothing else.    *)
LEMMA FreedMarks ==
    ASSUME LootIInv, NEW rest, NEW d \in Drawers
    PROVE  /\ DOMAIN Lt!Freed(draw, rest)[d] = DrawFields
           /\ Lt!Freed(draw, rest)[d].gone \in BOOLEAN
           /\ Lt!Freed(draw, rest)[d].at = draw[d].at
           /\ Lt!Freed(draw, rest)[d].temporary = draw[d].temporary
           /\ Lt!Freed(draw, rest)[d].table = draw[d].table
           /\ draw[d].at = "found" /\ Lt!Freed(draw, rest)[d].gone = FALSE =>
                  draw[d].table.tableId \in Lt!LootIds(rest)
<1>1. DOMAIN draw[d] = DrawFields /\ draw[d].gone \in BOOLEAN
  BY DEF LootIInv, DrawShape
<1>2. Lt!Freed(draw, rest)[d] =
          [draw[d] EXCEPT !.gone = draw[d].gone \/ (draw[d].at = "found"
                                       /\ draw[d].table.tableId \notin Lt!LootIds(rest))]
  BY DEF Lt!Freed
<1>3. Lt!Freed(draw, rest)[d].gone = (draw[d].gone \/ (draw[d].at = "found"
                                       /\ draw[d].table.tableId \notin Lt!LootIds(rest)))
  BY <1>1, <1>2 DEF DrawFields
<1>4. /\ DOMAIN Lt!Freed(draw, rest)[d] = DrawFields
      /\ Lt!Freed(draw, rest)[d].at = draw[d].at
      /\ Lt!Freed(draw, rest)[d].temporary = draw[d].temporary
      /\ Lt!Freed(draw, rest)[d].table = draw[d].table
  BY <1>1, <1>2 DEF DrawFields
<1>. QED
  BY <1>1, <1>3, <1>4

LEMMA ClearKeeps == ASSUME LootIInv, Lt!ClearAllTables PROVE LootIInv'
<1>1. draw' = Lt!Freed(draw, {}) /\ lootTables' = {} /\ asked' = asked
  BY DEF Lt!ClearAllTables
<1>2. DrawShape'
  <2>1. DOMAIN draw' = Drawers
    BY <1>1 DEF Lt!Freed
  <2>2. \A d \in Drawers : draw[d].temporary \in BOOLEAN
    BY DEF LootIInv, DrawShape
  <2>3. ASSUME NEW d \in Drawers
        PROVE  /\ DOMAIN draw'[d] = DrawFields
               /\ draw'[d].gone \in BOOLEAN /\ draw'[d].temporary = draw[d].temporary
    BY <1>1, FreedMarks, Zenon
  <2>. QED
    BY <2>1, <2>2, <2>3 DEF DrawShape
<1>3. ASSUME NEW d \in Drawers PROVE Held(d)'
  BY <1>1, FreedMarks DEF Held, Lt!LootIds
<1>4. Lt!LootIds(lootTables)' = {}
  BY <1>1 DEF Lt!LootIds
<1>. QED
  BY <1>2, <1>3, <1>4 DEF LootIInv

(* The steps of a draw.                                                    *)
LEMMA GenerateKeeps ==
    ASSUME LootIInv, NEW d \in Drawers, NEW id, NEW level, NEW rep, Lt!GenerateLoot(d, id, level, rep)
    PROVE  LootIInv'
<1>. DEFINE new == [Lt!Found(d, id) EXCEPT !.temporary = FALSE, !.level = level, !.rep = rep]
<1>1. draw' = [draw EXCEPT ![d] = new] /\ lootTables' = lootTables /\ asked' = asked
      /\ draw[d].at = "idle"
  BY DEF Lt!GenerateLoot
<1>2. /\ DOMAIN new = DrawFields /\ new.temporary = FALSE
      /\ new.gone \in BOOLEAN
      /\ new.at = "found" => new.table.tableId \in Lt!LootIds(lootTables)
  BY FoundMoves DEF DrawFields
<1>. HIDE DEF new
<1>. QED
  BY <1>1, <1>2, DrawMoves

LEMMA DrawKeeps == ASSUME LootIInv, NEW d \in Drawers, Lt!Draw(d) PROVE LootIInv'
<1>. DEFINE table == IF draw[d].gone THEN draw[d].table
                     ELSE CHOOSE t \in Lt!WithId(draw[d].table.tableId) : TRUE
<1>1. PICK items :
          draw' = [draw EXCEPT ![d].at = IF draw[d].temporary THEN "drawn" ELSE "idle",
                               ![d].table = table, ![d].loot = items]
  BY DEF Lt!Draw
<1>2. lootTables' = lootTables /\ asked' = asked /\ draw[d].at = "found"
  BY DEF Lt!Draw
<1>3. /\ DOMAIN draw[d] = DrawFields /\ DOMAIN draw = Drawers
      /\ draw[d].temporary \in BOOLEAN /\ draw[d].gone \in BOOLEAN
  BY DEF LootIInv, DrawShape
<1>4. table.tableId = draw[d].table.tableId
  <2>1. CASE draw[d].gone
    BY <2>1
  <2>2. CASE ~draw[d].gone
    <3>1. draw[d].gone = FALSE
      BY <2>2, <1>3
    <3>2. draw[d].table.tableId \in Lt!LootIds(lootTables)
      BY <3>1, <1>2 DEF LootIInv, Held
    <3>. QED
      BY <2>2, <3>2, LookUp
  <2>. QED
    BY <2>1, <2>2
<1>. HIDE DEF table
<1>. DEFINE new == [draw[d] EXCEPT !.at = IF draw[d].temporary THEN "drawn" ELSE "idle",
                                   !.table = table, !.loot = items]
<1>5. draw' = [draw EXCEPT ![d] = new]
  BY <1>1, <1>3
<1>6. /\ DOMAIN new = DrawFields /\ new.gone = draw[d].gone
      /\ new.temporary = draw[d].temporary /\ new.table = table
      /\ new.at = IF draw[d].temporary THEN "drawn" ELSE "idle"
  BY <1>3 DEF DrawFields
<1>. HIDE DEF new
<1>. QED
  BY <1>2, <1>3, <1>4, <1>5, <1>6, DrawMoves

LEMMA WeightedKeeps ==
    ASSUME LootIInv, NEW d \in Drawers, NEW table, NEW level,
           Lt!GenerateWeightedLoot(d, table, level)
    PROVE  LootIInv'
<1>. DEFINE new == [at |-> "picked", table |-> table, temporary |-> Lt!WithId(table.tableId) = {},
                    gone |-> FALSE, level |-> level, rep |-> <<>>, loot |-> <<>>]
<1>1. draw' = [draw EXCEPT ![d] = new] /\ lootTables' = lootTables /\ asked' = asked
      /\ draw[d].at = "idle"
  BY DEF Lt!GenerateWeightedLoot
<1>2. /\ DOMAIN new = DrawFields /\ new.temporary \in BOOLEAN /\ new.gone = FALSE
      /\ new.at = "picked"
  BY DEF DrawFields
<1>. HIDE DEF new
<1>. QED
  BY <1>1, <1>2, DrawMoves

LEMMA FindKeeps == ASSUME LootIInv, NEW d \in Drawers, Lt!FindPicked(d) PROVE LootIInv'
<1>. DEFINE new == Lt!Found(d, draw[d].table.tableId)
<1>1. /\ draw' = [draw EXCEPT ![d] = new] /\ lootTables' = lootTables /\ asked' = asked
      /\ (draw[d].at = "picked" /\ ~draw[d].temporary) \/ draw[d].at = "registered"
  BY DEF Lt!FindPicked
<1>2. /\ DOMAIN new = DrawFields /\ new.temporary = draw[d].temporary
      /\ new.gone \in BOOLEAN
      /\ new.at = "found" => /\ new.table.tableId = draw[d].table.tableId
                             /\ draw[d].table.tableId \in Lt!LootIds(lootTables)
      /\ new.at # "found" => new.table = draw[d].table
      /\ draw[d].at = "registered" => new.at # "idle"
  BY FoundMoves
<1>3. draw[d].temporary \in BOOLEAN
  BY DEF LootIInv, DrawShape
<1>. HIDE DEF new
<1>4. draw[d].temporary = TRUE => draw[d].at = "registered"
  BY <1>1, <1>3
<1>. QED
  BY <1>1, <1>2, <1>3, <1>4, DrawMoves

LEMMA RegisterPickedKeeps ==
    ASSUME LootIInv, NEW d \in Drawers, Lt!RegisterPicked(d)
    PROVE  LootIInv'
<1>. DEFINE id == draw[d].table.tableId
<1>1. /\ draw[d].at = "picked" /\ draw[d].temporary /\ asked' = asked
      /\ lootTables' = Lt!Registered(lootTables, draw[d].table)
      /\ draw' = [draw EXCEPT ![d].at = "registered"]
  BY DEF Lt!RegisterPicked
<1>2. Lt!LootIds(lootTables') = Lt!LootIds(lootTables) \cup {id}
  BY <1>1, RegisteredIds
<1>3. /\ DOMAIN draw = Drawers /\ DOMAIN draw[d] = DrawFields
      /\ draw[d].temporary \in BOOLEAN
  BY DEF LootIInv, DrawShape
<1>4. draw[d].temporary = TRUE
  BY <1>1, <1>3
<1>5. /\ DOMAIN draw' = Drawers
      /\ \A e \in Drawers \ {d} : draw'[e] = draw[e]
      /\ DOMAIN draw'[d] = DrawFields /\ draw'[d].at = "registered"
      /\ draw'[d].table = draw[d].table /\ draw'[d].temporary = draw[d].temporary
      /\ draw'[d].gone = draw[d].gone
  BY <1>1, <1>3 DEF DrawFields
<1>6. DrawShape'
  BY <1>5 DEF LootIInv, DrawShape
<1>7. ASSUME NEW e \in Drawers PROVE Held(e)'
  <2>1. Lt!LootIds(lootTables)' = Lt!LootIds(lootTables')
    BY DEF Lt!LootIds
  <2>. QED
    BY <1>2, <1>5, <2>1 DEF LootIInv, Held
<1>8. ASSUME NEW i \in Lt!LootIds(lootTables)' PROVE Accounted(i)'
  <2>1. i \in Lt!LootIds(lootTables) \/ i = id
    BY <1>2, <1>8 DEF Lt!LootIds
  <2>2. CASE i = id
    BY <1>4, <1>5, <2>2 DEF Accounted
  <2>3. CASE i \in asked
    BY <1>1, <2>3 DEF Accounted
  <2>4. CASE \E e \in Drawers : /\ draw[e].at # "idle" /\ draw[e].temporary = TRUE
                                /\ draw[e].table.tableId = i
    <3>1. PICK e \in Drawers : /\ draw[e].at # "idle" /\ draw[e].temporary = TRUE
                               /\ draw[e].table.tableId = i
      BY <2>4
    <3>2. /\ draw'[e].at # "idle" /\ draw'[e].temporary = TRUE
          /\ draw'[e].table.tableId = i
      BY <1>5, <3>1
    <3>. QED
      BY <3>2 DEF Accounted
  <2>. QED
    BY <2>1, <2>2, <2>3, <2>4 DEF LootIInv, Accounted
<1>. QED
  BY <1>6, <1>7, <1>8 DEF LootIInv

(* The table goes that this draw registered; the others stay accounted     *)
(* for, and who pointed to the table is marked.                            *)
LEMMA UnregisterKeeps ==
    ASSUME LootIInv, NEW d \in Drawers, Lt!UnregisterPicked(d)
    PROVE  LootIInv'
<1>. DEFINE id == draw[d].table.tableId
<1>0. PICK rest : rest = lootTables \ Lt!WithId(id)
  OBVIOUS
<1>1. /\ draw[d].at = "drawn" /\ asked' = asked /\ lootTables' = rest
      /\ draw' = [Lt!Freed(draw, rest) EXCEPT ![d].at = "idle"]
  BY <1>0 DEF Lt!UnregisterPicked
<1>2. Lt!LootIds(rest) = Lt!LootIds(lootTables) \ {id}
  BY <1>0, DroppedIds
<1>3. Lt!LootIds(lootTables)' = Lt!LootIds(rest)
  BY <1>1 DEF Lt!LootIds
<1>4. \A e \in Drawers :
          /\ DOMAIN Lt!Freed(draw, rest)[e] = DrawFields
          /\ Lt!Freed(draw, rest)[e].gone \in BOOLEAN
          /\ Lt!Freed(draw, rest)[e].at = draw[e].at
          /\ Lt!Freed(draw, rest)[e].temporary = draw[e].temporary
          /\ Lt!Freed(draw, rest)[e].table = draw[e].table
          /\ draw[e].at = "found" /\ Lt!Freed(draw, rest)[e].gone = FALSE =>
                 draw[e].table.tableId \in Lt!LootIds(rest)
  BY FreedMarks
<1>5. /\ DOMAIN draw' = Drawers
      /\ \A e \in Drawers \ {d} : draw'[e] = Lt!Freed(draw, rest)[e]
      /\ draw'[d] = [Lt!Freed(draw, rest)[d] EXCEPT !.at = "idle"]
  BY <1>1 DEF Lt!Freed
<1>6. /\ DOMAIN draw'[d] = DrawFields /\ draw'[d].at = "idle"
      /\ draw'[d].gone \in BOOLEAN /\ draw'[d].temporary = draw[d].temporary
  BY <1>4, <1>5 DEF DrawFields
<1>7. DrawShape'
  <2>1. ASSUME NEW e \in Drawers, e # d
        PROVE  /\ DOMAIN draw'[e] = DrawFields /\ draw'[e].temporary \in BOOLEAN
               /\ draw'[e].gone \in BOOLEAN
    BY <1>5, <2>1, <1>4 DEF LootIInv, DrawShape
  <2>2. draw'[d].temporary \in BOOLEAN
    BY <1>6 DEF LootIInv, DrawShape
  <2>. QED
    BY <1>5, <1>6, <2>1, <2>2 DEF DrawShape
<1>8. ASSUME NEW e \in Drawers PROVE Held(e)'
  <2>1. CASE e = d
    BY <1>6, <2>1 DEF Held
  <2>2. CASE e # d
    BY <1>3, <1>5, <2>2, <1>4 DEF Held
  <2>. QED
    BY <2>1, <2>2
<1>9. ASSUME NEW i \in Lt!LootIds(lootTables)' PROVE Accounted(i)'
  <2>1. i \in Lt!LootIds(lootTables) /\ i # id
    BY <1>2, <1>3, <1>9
  <2>2. CASE i \in asked
    BY <1>1, <2>2 DEF Accounted
  <2>3. CASE \E e \in Drawers : /\ draw[e].at # "idle" /\ draw[e].temporary = TRUE
                                /\ draw[e].table.tableId = i
    <3>1. PICK e \in Drawers : /\ draw[e].at # "idle" /\ draw[e].temporary = TRUE
                               /\ draw[e].table.tableId = i
      BY <2>3
    <3>2. e # d
      BY <2>1, <3>1
    <3>3. /\ draw'[e].at # "idle" /\ draw'[e].temporary = TRUE
          /\ draw'[e].table.tableId = i
      BY <1>5, <3>1, <3>2, <1>4
    <3>. QED
      BY <3>3 DEF Accounted
  <2>. QED
    BY <2>1, <2>2, <2>3 DEF LootIInv, Accounted
<1>. QED
  BY <1>7, <1>8, <1>9 DEF LootIInv

(* Every step keeps the tables accounted for.                              *)
LEMMA LootStep == LootIInv /\ [Lt!LootTablesNext]_(Lt!lootVars) => LootIInv'
<1>. SUFFICES ASSUME LootIInv, [Lt!LootTablesNext]_(Lt!lootVars) PROVE LootIInv'
  OBVIOUS
<1>1. CASE UNCHANGED Lt!lootVars
  BY <1>1, TablesGrow DEF Lt!lootVars
<1>2. ASSUME NEW t \in Tables, Lt!RegisterTable(t) PROVE LootIInv'
  BY <1>2, RegisterKeeps
<1>3. CASE Lt!LoadLootTables \/ Lt!SaveLootTables \/ Lt!ClearAllTables
  BY <1>3, LoadKeeps, SaveKeeps, ClearKeeps
<1>4. ASSUME NEW d \in Drawers, NEW id, NEW level, NEW rep, Lt!GenerateLoot(d, id, level, rep)
      PROVE  LootIInv'
  BY <1>4, GenerateKeeps
<1>5. ASSUME NEW d \in Drawers, NEW t, NEW level, Lt!GenerateWeightedLoot(d, t, level)
      PROVE  LootIInv'
  BY <1>5, WeightedKeeps
<1>6. ASSUME NEW d \in Drawers, Lt!Draw(d) \/ Lt!RegisterPicked(d) \/ Lt!FindPicked(d)
                                \/ Lt!UnregisterPicked(d)
      PROVE  LootIInv'
  BY <1>6, DrawKeeps, RegisterPickedKeeps, FindKeeps, UnregisterKeeps
<1>. QED
  BY <1>1, <1>2, <1>3, <1>4, <1>5, <1>6 DEF Lt!LootTablesNext

LEMMA NoneLeft == LootIInv => Lt!NoTableLeft
BY DEF LootIInv, Accounted, Lt!NoTableLeft, DrawShape

(* LootTableManager::GenerateWeightedLoot leaves no table behind, however  *)
(* its steps interleave with those of other threads.                       *)
THEOREM NoTableStays == Spec => []Lt!NoTableLeft
<1>1. Init => LootIInv
  BY LootInit DEF Init
<1>2. LootIInv /\ [Next]_vars => LootIInv'
  <2>1. [Next]_vars => [Lt!LootTablesNext]_(Lt!lootVars)
    BY DEF Next, vars, lootTablesVars, Lt!lootVars
  <2>. QED
    BY <2>1, LootStep
<1>. QED
  BY <1>1, <1>2, NoneLeft, PTL DEF Spec

-----------------------------------------------------------------------------
(* Characters                                                              *)

(* Induction over the natural numbers, for a set of them.                  *)
LEMMA EveryNatural ==
  ASSUME NEW S, 0 \in S, \A n \in Nat : n \in S => n + 1 \in S
  PROVE  Nat \subseteq S
<1> DEFINE T == Nat \ S
<1>1. SUFFICES ASSUME T # {} PROVE FALSE
  OBVIOUS
<1>2. IsWellFoundedOn(OpToRel(<, Nat), Nat)
  BY NatLessThanWellFounded
<1>3. PICK x \in T : \A y \in T : ~(<<y, x>> \in OpToRel(<, Nat))
  BY <1>1, <1>2, WFMin, Zenon
<1>4. x # 0 /\ x - 1 \in Nat /\ x - 1 < x
  BY SMT
<1>5. <<x - 1, x>> \in OpToRel(<, Nat)
  BY <1>4 DEF OpToRel
<1>6. x - 1 \notin T
  BY <1>3, <1>5, Zenon
<1>7. x - 1 \in S
  BY <1>4, <1>6
<1>8. x - 1 + 1 = x
  BY <1>4
<1>9. x - 1 + 1 \in S
  BY <1>4, <1>7
<1>10. QED
  BY <1>8, <1>9

CharacterFields ==
    {"health", "max_health", "level", "experience", "gold", "skill_points", "quests_completed",
     "strength", "dexterity", "vitality", "attack_power", "defense", "worn", "items", "skills",
     "cooldowns", "active_quests", "completed_quests", "active_buffs", "friends",
     "achievements", "status"}

(* What every operation of Player leaves in order, and what a row of the   *)
(* table has of it.                                                        *)
Levelled(p) == p.level \in 1..MAX_LEVEL /\ p.experience \in Int
Alive(p) == p.max_health \in Nat /\ p.health \in 0..p.max_health
Based(p) == p.vitality \in Int /\ p.dexterity \in Int
Derived(p) ==
    /\ p.attack_power = 2 * p.strength + p.dexterity
    /\ p.defense = p.vitality + p.dexterity \div 2

Sound(p) ==
    DOMAIN p = CharacterFields /\ Levelled(p) /\ Alive(p) /\ Based(p) /\ Derived(p)
RowSound(r) ==
    DOMAIN r = CharacterFields \ {"achievements"} /\ Levelled(r) /\ Alive(r) /\ Based(r)

CharacterIInv == Sound(player) /\ (saved = NotSaved \/ RowSound(saved))

(* Fields that Sound looks at, and an operation that leaves them alone.    *)
Watched == {"health", "max_health", "level", "experience", "strength", "dexterity", "vitality",
            "attack_power", "defense"}

LEMMA OthersAreFree ==
  ASSUME NEW p, NEW q, Sound(p), DOMAIN q = DOMAIN p, \A f \in Watched : q[f] = p[f]
  PROVE  Sound(q)
BY DEF Sound, Levelled, Alive, Based, Derived, Watched

LEMMA SetOther ==
  ASSUME NEW p, NEW f \in CharacterFields \ Watched, NEW v, Sound(p)
  PROVE  Sound([p EXCEPT ![f] = v])
BY OthersAreFree DEF Sound, Watched, CharacterFields

(* Derived attributes made anew.                                           *)
LEMMA Derives ==
  ASSUME NEW p, DOMAIN p = CharacterFields, Levelled(p), Alive(p), Based(p)
  PROVE  Sound(UpdateDerivedStats(p))
BY DEF Sound, Levelled, Alive, Based, Derived, UpdateDerivedStats, CharacterFields

LEMMA ClampedBetween ==
  ASSUME NEW n \in Int, NEW low \in Int, NEW high \in Int, low <= high
  PROVE  Clamped(n, low, high) \in low..high
BY DEF Clamped

LEMMA HealthIsSet ==
  ASSUME NEW p, NEW h \in 0..p.max_health, Sound(p)
  PROVE  Sound([p EXCEPT !.health = h])
BY DEF Sound, Levelled, Alive, Based, Derived, CharacterFields

LEMMA SetHealthSound ==
  ASSUME NEW p, NEW h \in Int, Sound(p) PROVE Sound(SetHealth(p, h))
<1> DEFINE q == [p EXCEPT !.health = Clamped(h, 0, p.max_health)]
<1>1. Sound(q)
  BY HealthIsSet, ClampedBetween DEF Sound, Alive
<1> HIDE DEF q
<1>2. \A s : Sound([q EXCEPT !.status = s])
  BY <1>1, SetOther DEF CharacterFields, Watched
<1>3. QED
  BY <1>1, <1>2 DEF SetHealth, q

LEMMA DamageIsANumber ==
  ASSUME NEW p, NEW d \in Nat, Sound(p) PROVE ActualDamage(p, d) \in Int
<1>1. p.defense \in Int
  BY DEF Sound, Derived, Based
<1>2. QED
  BY <1>1 DEF ActualDamage, Clamped

LEMMA SufferSound ==
  ASSUME NEW p, NEW d \in Nat, Sound(p)
  PROVE  /\ Sound(ApplyDamage(p, d)) /\ Sound(ApplyHealing(p, d)) /\ Sound(Heal(p, d))
         /\ \A q \in TakeDamage(p, d) : Sound(q)
         /\ Sound(SetMaxHealth(p, d))
<1>1. p.health \in Int /\ p.max_health \in Nat /\ ActualDamage(p, d) \in Int
  BY DamageIsANumber DEF Sound, Alive
<1>2. Sound(ApplyDamage(p, d)) /\ Sound(ApplyHealing(p, d))
  <2>1. p.health - ActualDamage(p, d) \in Int /\ p.health + d \in Int
    BY <1>1
  <2>2. /\ Clamped(p.health - ActualDamage(p, d), 0, p.max_health) \in 0..p.max_health
        /\ Clamped(p.health + d, 0, p.max_health) \in 0..p.max_health
    BY <1>1, <2>1 DEF Clamped
  <2>3. QED
    BY <2>2, HealthIsSet DEF ApplyDamage, ApplyHealing
<1>3. Sound(SetHealth(p, p.health + d)) /\ Sound(SetHealth(p, p.health))
      /\ Sound(SetHealth(p, p.health - ActualDamage(p, d)))
  BY <1>1, SetHealthSound
<1>4. Sound(Heal(p, d))
  BY <1>3 DEF Heal
<1>5. Sound([SetHealth(p, p.health - ActualDamage(p, d)) EXCEPT !.status = "COMBAT"])
  BY <1>3, SetOther DEF CharacterFields, Watched
<1>6. \A q \in TakeDamage(p, d) : Sound(q)
  BY <1>3, <1>5 DEF TakeDamage
<1>7. Sound(SetMaxHealth(p, d))
  <2>1. Clamped(p.health, 0, d) \in 0..d
    BY <1>1 DEF Clamped
  <2>2. QED
    BY <2>1 DEF SetMaxHealth, Sound, Levelled, Alive, Based, Derived, CharacterFields
<1>8. QED
  BY <1>2, <1>4, <1>6, <1>7

LEMMA LevelUpSound ==
  ASSUME NEW p,
         DOMAIN p = CharacterFields, Alive(p), Based(p), p.level \in 1..MAX_LEVEL, p.experience \in Int
  PROVE  Sound(OnLevelUp(p)) /\ OnLevelUp(p).level = p.level
         /\ OnLevelUp(p).experience = p.experience
<1> DEFINE q == [p EXCEPT !.max_health = @ + 20, !.health = p.max_health + 20,
                          !.strength = @ + 3, !.vitality = @ + 2, !.dexterity = @ + 1,
                          !.skill_points = @ + 3]
<1>1. /\ DOMAIN q = CharacterFields /\ Alive(q) /\ Based(q) /\ Levelled(q)
      /\ q.level = p.level /\ q.experience = p.experience
  BY DEF Alive, Based, Levelled, CharacterFields
<1> HIDE DEF q
<1>2. Sound(UpdateDerivedStats(q))
  BY <1>1, Derives
<1>3. UpdateDerivedStats(q).level = q.level /\ UpdateDerivedStats(q).experience = q.experience
  BY <1>1 DEF UpdateDerivedStats, CharacterFields
<1>4. OnLevelUp(p) = UpdateDerivedStats(q)
  BY DEF OnLevelUp, q
<1>5. QED
  BY <1>1, <1>2, <1>3, <1>4

LEMMA SetLevelSound ==
  ASSUME NEW p, NEW l \in Int, Sound(p) PROVE Sound(SetLevel(p, l))
<1> DEFINE q == [p EXCEPT !.level = Clamped(l, 1, MAX_LEVEL)]
<1>1. Clamped(l, 1, MAX_LEVEL) \in 1..MAX_LEVEL
  BY CharactersAssumption DEF Clamped
<1>2. /\ DOMAIN q = CharacterFields /\ Alive(q) /\ Based(q) /\ Levelled(q)
      /\ q.level \in 1..MAX_LEVEL /\ q.experience \in Int
  BY <1>1 DEF Sound, Alive, Based, Levelled, CharacterFields
<1> HIDE DEF q
<1>3. Sound(OnLevelUp(q))
  BY <1>2, LevelUpSound
<1>4. Sound(UpdateDerivedStats(OnLevelUp(q))) /\ Sound(UpdateDerivedStats(q))
  BY <1>2, <1>3, Derives DEF Sound
<1>5. QED
  BY <1>4 DEF SetLevel, q

(* The prices of the levels, for which the definition of Price stands.     *)
LEMMA Prices ==
  /\ Price \in [0..MAX_LEVEL -> Nat]
  /\ \A l \in 2..MAX_LEVEL : Price[l] = Price[l - 1] + CalculateExperienceRequired[l]
<1> DEFINE Up(n, f) == f = [l \in 0..n |-> IF l < 2 THEN 0
                                          ELSE f[l - 1] + CalculateExperienceRequired[l]]
           S == {n \in Nat : n <= MAX_LEVEL => \E f \in [0..n -> Nat] : Up(n, f)}
<1>1. 0 \in S
  <2>1. [l \in 0..0 |-> 0] \in [0..0 -> Nat] /\ Up(0, [l \in 0..0 |-> 0])
    OBVIOUS
  <2>2. QED
    BY <2>1
<1>2. ASSUME NEW n \in Nat, n \in S PROVE n + 1 \in S
  <2>1. SUFFICES ASSUME n + 1 <= MAX_LEVEL
                 PROVE \E f \in [0..n + 1 -> Nat] : Up(n + 1, f)
    OBVIOUS
  <2>2. PICK f \in [0..n -> Nat] : Up(n, f)
    <3>1. n <= MAX_LEVEL
      BY <2>1, CharactersAssumption
    <3>2. QED
      BY <1>2, <3>1, Zenon
  <2> DEFINE g == [l \in 0..n + 1 |-> IF l <= n THEN f[l]
                                    ELSE IF l < 2 THEN 0
                                    ELSE f[l - 1] + CalculateExperienceRequired[l]]
  <2>3. \A l \in 2..MAX_LEVEL : CalculateExperienceRequired[l] \in Nat
    BY CharactersAssumption
  <2>4. g \in [0..n + 1 -> Nat]
    <3>1. ASSUME NEW l \in 0..n + 1 PROVE g[l] \in Nat
      <4>1. CASE l <= n
        BY <2>2, <4>1
      <4>2. CASE l > n /\ l < 2
        BY <4>2
      <4>3. CASE l > n /\ l >= 2
        <5>1. l - 1 \in 0..n /\ l \in 2..MAX_LEVEL
          BY <2>1, <4>3, CharactersAssumption
        <5>2. f[l - 1] \in Nat /\ CalculateExperienceRequired[l] \in Nat
          BY <2>2, <2>3, <5>1
        <5>3. QED
          BY <4>3, <5>2
      <4>4. QED
        BY <4>1, <4>2, <4>3
    <3>2. QED
      BY <3>1
  <2>5. \A l \in 0..n + 1 : g[l] = IF l < 2 THEN 0
                                  ELSE g[l - 1] + CalculateExperienceRequired[l]
    <3>1. TAKE l \in 0..n + 1
    <3>2. CASE l <= n
      BY <2>2, <3>2
    <3>3. CASE l > n
      BY <3>3
    <3>4. QED
      BY <3>2, <3>3
  <2> HIDE DEF g
  <2>6. Up(n + 1, g)
    BY <2>4, <2>5
  <2>7. QED
    BY <2>4, <2>6
<1>3. MAX_LEVEL \in S
  <2> HIDE DEF S
  <2>1. Nat \subseteq S
    BY <1>1, <1>2, EveryNatural
  <2>2. QED
    BY <2>1, CharactersAssumption
<1>4. PICK f \in [0..MAX_LEVEL -> Nat] : Up(MAX_LEVEL, f)
  BY <1>3, CharactersAssumption
<1>5. Up(MAX_LEVEL, Price)
  BY <1>4 DEF Price
<1>6. \A l \in 0..MAX_LEVEL : Price[l] = IF l < 2 THEN 0
                                       ELSE Price[l - 1] + CalculateExperienceRequired[l]
  BY <1>5, CharactersAssumption
<1> HIDE DEF S, Up
<1>7. \A l \in 0..MAX_LEVEL : Price[l] \in Nat
  <2> DEFINE T == {n \in Nat : n <= MAX_LEVEL => Price[n] \in Nat}
  <2>1. 0 \in T
    BY <1>6, CharactersAssumption
  <2>2. ASSUME NEW n \in Nat, n \in T PROVE n + 1 \in T
    <3>1. CASE n + 1 <= MAX_LEVEL /\ n + 1 >= 2
      <4>1. n + 1 \in 0..MAX_LEVEL /\ n + 1 \in 2..MAX_LEVEL /\ n + 1 - 1 = n /\ n <= MAX_LEVEL
        BY <3>1, CharactersAssumption
      <4>2. Price[n + 1] = Price[n] + CalculateExperienceRequired[n + 1]
        BY <1>6, <3>1, <4>1
      <4>3. CalculateExperienceRequired[n + 1] \in Nat /\ Price[n] \in Nat
        BY <2>2, <4>1, CharactersAssumption
      <4>4. QED
        BY <4>2, <4>3
    <3>2. CASE n + 1 <= MAX_LEVEL /\ n + 1 < 2
      BY <1>6, <3>2, CharactersAssumption
    <3>3. QED
      BY <3>1, <3>2, CharactersAssumption
  <2> HIDE DEF T
  <2>3. Nat \subseteq T
    BY <2>1, <2>2, EveryNatural
  <2>4. QED
    BY <2>3, CharactersAssumption DEF T
<1>8. Price \in [0..MAX_LEVEL -> Nat]
  BY <1>5, <1>7 DEF Up
<1>9. QED
  BY <1>6, <1>8, CharactersAssumption

(* A level is paid for with what it costs.                                 *)
LEMMA NextLevelSound ==
  ASSUME NEW p, Sound(p)
  PROVE  Sound(NextLevel(p)) /\ Worth(NextLevel(p)) = Worth(p)
<1>1. CASE ~(p.level < MAX_LEVEL /\ p.experience >= ExperienceToNextLevel(p))
  BY <1>1 DEF NextLevel
<1>2. CASE p.level < MAX_LEVEL /\ p.experience >= ExperienceToNextLevel(p)
  <2> DEFINE price == CalculateExperienceRequired[p.level + 1]
             q == [p EXCEPT !.experience = @ - price, !.level = @ + 1]
  <2>1. p.level \in 1..MAX_LEVEL - 1 /\ p.experience \in Int
    BY <1>2, CharactersAssumption DEF Sound, Levelled
  <2>2. price \in Nat /\ Price[p.level + 1] = Price[p.level] + price /\ Price[p.level] \in Nat
    <3>1. p.level + 1 \in 2..MAX_LEVEL /\ p.level + 1 - 1 = p.level /\ p.level \in 0..MAX_LEVEL
      BY <2>1, CharactersAssumption
    <3>2. PICK l \in 1..MAX_LEVEL - 1 : l = p.level
      BY <2>1
    <3>3. l \in 0..MAX_LEVEL /\ l + 1 \in 2..MAX_LEVEL /\ l + 1 - 1 = l
      BY CharactersAssumption
    <3>4. CalculateExperienceRequired[l + 1] \in Nat
      BY <3>3, CharactersAssumption
    <3>5. Price[l] \in Nat
      BY <3>3, Prices
    <3>6. Price[l + 1] = Price[l + 1 - 1] + CalculateExperienceRequired[l + 1]
      BY <3>3, Prices
    <3>7. QED
      BY <3>2, <3>3, <3>4, <3>5, <3>6
  <2>3. ExperienceToNextLevel(p) = price
    BY <2>1, CharactersAssumption DEF ExperienceToNextLevel
  <2> HIDE DEF price
  <2>4. /\ DOMAIN q = CharacterFields /\ q.level = p.level + 1 /\ q.experience = p.experience - price
        /\ q.health = p.health /\ q.max_health = p.max_health
        /\ q.vitality = p.vitality /\ q.dexterity = p.dexterity
    BY DEF Sound, CharacterFields
  <2> HIDE DEF q
  <2>5. Alive(q) /\ Based(q) /\ q.level \in 1..MAX_LEVEL /\ q.experience \in Int
    BY <2>1, <2>2, <2>4, CharactersAssumption, SMTT(30) DEF Sound, Alive, Based
  <2>6. /\ Sound(OnLevelUp(q)) /\ OnLevelUp(q).level = q.level
        /\ OnLevelUp(q).experience = q.experience
    BY <2>4, <2>5, LevelUpSound
  <2>7. NextLevel(p) = OnLevelUp(q)
    BY <1>2, <2>3 DEF NextLevel, q
  <2>8. p.experience - price + (Price[p.level] + price) = p.experience + Price[p.level]
    BY <2>1, <2>2
  <2>9. QED
    BY <2>2, <2>4, <2>6, <2>7, <2>8 DEF Worth
<1>3. QED
  BY <1>1, <1>2

LEMMA LevelUpsSound ==
  ASSUME NEW p, Sound(p)
  PROVE  Sound(LevelUps(p)) /\ Worth(LevelUps(p)) = Worth(p)
<1> DEFINE Up(n, f) == f = [k \in 0..n |-> IF k = 0 THEN p ELSE NextLevel(f[k - 1])]
           S == {n \in Nat : \E f : Up(n, f)}
           after == CHOOSE f : Up(MAX_LEVEL, f)
           Good(q) == Sound(q) /\ Worth(q) = Worth(p)
           T == {n \in Nat : n <= MAX_LEVEL => Good(after[n])}
<1>1. 0 \in S
  <2>1. Up(0, [k \in 0..0 |-> p])
    OBVIOUS
  <2>2. QED
    BY <2>1
<1>2. ASSUME NEW n \in Nat, n \in S PROVE n + 1 \in S
  <2>1. PICK f : Up(n, f)
    BY <1>2
  <2> DEFINE g == [k \in 0..n + 1 |-> IF k <= n THEN f[k] ELSE NextLevel(f[k - 1])]
  <2>2. \A k \in 0..n + 1 : g[k] = IF k = 0 THEN p ELSE NextLevel(g[k - 1])
    <3>1. TAKE k \in 0..n + 1
    <3>2. CASE k <= n
      BY <2>1, <3>2
    <3>3. CASE k > n
      <4>1. k = n + 1 /\ k # 0 /\ k - 1 \in 0..n + 1 /\ k - 1 <= n
        BY <3>3
      <4>2. g[k - 1] = f[k - 1] /\ g[k] = NextLevel(f[k - 1])
        BY <4>1, <3>3
      <4>3. QED
        BY <4>1, <4>2
    <3>4. QED
      BY <3>2, <3>3
  <2>3. g = [k \in 0..n + 1 |-> g[k]]
    OBVIOUS
  <2> HIDE DEF g
  <2>4. Up(n + 1, g)
    BY <2>2, <2>3
  <2>5. QED
    BY <2>4
<1>3. MAX_LEVEL \in S
  <2> HIDE DEF S
  <2>1. Nat \subseteq S
    BY <1>1, <1>2, EveryNatural
  <2>2. QED
    BY <2>1, CharactersAssumption
<1>4. Up(MAX_LEVEL, after)
  BY <1>3
<1>5. LevelUps(p) = after[MAX_LEVEL]
  BY DEF LevelUps
<1>6. \A k \in 0..MAX_LEVEL : after[k] = IF k = 0 THEN p ELSE NextLevel(after[k - 1])
  BY <1>4
<1> HIDE DEF after, S, Up
<1>7. 0 \in T
  <2>1. after[0] = p
    BY <1>6, CharactersAssumption
  <2>2. QED
    BY <2>1
<1>8. ASSUME NEW n \in Nat, n \in T PROVE n + 1 \in T
  <2>1. SUFFICES ASSUME n + 1 <= MAX_LEVEL PROVE Good(after[n + 1])
    OBVIOUS
  <2>2. n + 1 \in 0..MAX_LEVEL /\ n + 1 # 0 /\ n + 1 - 1 = n /\ n <= MAX_LEVEL
    BY <2>1, CharactersAssumption
  <2>3. after[n + 1] = NextLevel(after[n])
    BY <1>6, <2>2
  <2>4. Good(after[n])
    BY <1>8, <2>2
  <2> HIDE DEF T
  <2>5. QED
    BY <2>3, <2>4, NextLevelSound
<1>9. Good(after[MAX_LEVEL])
  <2>1. MAX_LEVEL \in T
    <3> HIDE DEF T
    <3>1. Nat \subseteq T
      BY <1>7, <1>8, EveryNatural
    <3>2. QED
      BY <3>1, CharactersAssumption
  <2>2. QED
    BY <2>1, CharactersAssumption
<1>10. QED
  BY <1>5, <1>9

LEMMA AddExperienceSound ==
  ASSUME NEW p, NEW n \in Nat, Sound(p)
  PROVE  /\ Sound(AddExperience(p, n))
         /\ AddExperience(p, n).level < MAX_LEVEL => Worth(AddExperience(p, n)) = Worth(p) + n
<1> DEFINE start == [p EXCEPT !.experience = @ + n]
           q == LevelUps(start)
<1>1. p.experience \in Int /\ p.level \in 1..MAX_LEVEL
  BY DEF Sound, Levelled
<1>2. Sound(start) /\ start.experience = p.experience + n /\ start.level = p.level
  BY <1>1 DEF Sound, Levelled, Alive, Based, Derived, CharacterFields
<1>3. Worth(start) = Worth(p) + n
  <2>1. Price[p.level] \in Nat
    BY <1>1, Prices, CharactersAssumption
  <2> HIDE DEF start
  <2>2. QED
    BY <1>1, <1>2, <2>1 DEF Worth
<1> HIDE DEF start
<1>4. Sound(q) /\ Worth(q) = Worth(start)
  BY <1>2, LevelUpsSound
<1> HIDE DEF q
<1>5. Sound([q EXCEPT !.experience = 0]) /\ [q EXCEPT !.experience = 0].level = q.level
  BY <1>4 DEF Sound, Levelled, Alive, Based, Derived, CharacterFields
<1>6. q.level \in Int /\ p.level \in Int /\ MAX_LEVEL \in Int
  BY <1>1, <1>4, CharactersAssumption DEF Sound, Levelled
<1>7. CASE p.level >= MAX_LEVEL
  <2>1. AddExperience(p, n) = p
    BY <1>7 DEF AddExperience
  <2>2. QED
    BY <1>6, <1>7, <2>1
<1>8. CASE p.level < MAX_LEVEL /\ q.level >= MAX_LEVEL
  <2>1. AddExperience(p, n) = [q EXCEPT !.experience = 0]
    BY <1>6, <1>8 DEF AddExperience, q, start
  <2>2. QED
    BY <1>5, <1>6, <1>8, <2>1
<1>9. CASE p.level < MAX_LEVEL /\ q.level < MAX_LEVEL
  <2>1. AddExperience(p, n) = q
    BY <1>6, <1>9 DEF AddExperience, q, start
  <2>2. QED
    BY <1>3, <1>4, <2>1
<1>10. QED
  BY <1>6, <1>7, <1>8, <1>9

LEMMA LoseExperienceSound ==
  ASSUME NEW p, NEW n \in Nat, Sound(p) PROVE Sound(LoseExperience(p, n))
<1>1. Clamped(p.experience - n, 0, p.experience) \in Int
  BY DEF Sound, Levelled, Clamped
<1>2. QED
  BY <1>1 DEF LoseExperience, Sound, Levelled, Alive, Based, Derived, CharacterFields

LEMMA SetAttributeSound ==
  ASSUME NEW p, NEW v, NEW buffs, Sound(p)
  PROVE  Sound(SetAttribute(p, v)) /\ Sound(SetAttribute([p EXCEPT !.active_buffs = buffs], v))
<1> DEFINE q == [p EXCEPT !.active_buffs = buffs]
<1>1. ASSUME NEW r, Sound(r) PROVE Sound(SetAttribute(r, v))
  <2> DEFINE t == [r EXCEPT !.strength = v]
  <2>1. DOMAIN t = CharacterFields /\ Levelled(t) /\ Alive(t) /\ Based(t)
    BY <1>1 DEF Sound, Levelled, Alive, Based, CharacterFields
  <2> HIDE DEF t
  <2>2. QED
    BY <2>1, Derives DEF SetAttribute, t
<1>2. Sound(q)
  BY SetOther DEF CharacterFields, Watched
<1>3. QED
  BY <1>1, <1>2

LEMMA BuffsSound ==
  ASSUME NEW p, NEW b, NEW expired, Sound(p)
  PROVE  Sound(ApplyBuff(p, b)) /\ Sound(RemoveBuff(p, b)) /\ Sound(UpdateBuffs(p, expired))
BY SetAttributeSound DEF ApplyBuff, RemoveBuff, UpdateBuffs

LEMMA ActsSound ==
  ASSUME NEW p, NEW a, NEW q, NEW b, Sound(p)
  PROVE  /\ Sound(LearnSkill(p, a)) /\ Sound(ForgetSkill(p, a)) /\ Sound(UseSkill(p, a))
         /\ Sound(MoveCharacter(p)) /\ Sound(UpdateMovement(p, b)) /\ Sound(UpdateCooldowns(p, b))
         /\ Sound(StartQuest(p, q)) /\ Sound(FailQuest(p, q)) /\ Sound(CompleteQuest(p, q))
<1>1. /\ Sound(LearnSkill(p, a)) /\ Sound(ForgetSkill(p, a)) /\ Sound(MoveCharacter(p))
      /\ Sound(FailQuest(p, q)) /\ Sound(UpdateCooldowns(p, b))
  BY SetOther DEF CharacterFields, Watched, LearnSkill, ForgetSkill, MoveCharacter, FailQuest,
     UpdateCooldowns
<1>2. Sound(UpdateMovement(p, b)) /\ Sound(StartQuest(p, q))
  BY SetOther DEF CharacterFields, Watched, UpdateMovement, StartQuest
<1>3. Sound(UseSkill(p, a))
  <2> DEFINE r == [p EXCEPT !.status = "CASTING", !.cooldowns = @ \cup {a}]
  <2>1. DOMAIN r = DOMAIN p /\ \A f \in Watched : r[f] = p[f]
    BY DEF Watched
  <2>2. Sound(r)
    BY <2>1, OthersAreFree
  <2>3. QED
    BY <2>2 DEF UseSkill
<1>4. Sound(CompleteQuest(p, q))
  <2> DEFINE r == [p EXCEPT !.active_quests = @ \ {q}, !.completed_quests = @ \cup {q},
                            !.quests_completed = @ + 1]
  <2>1. DOMAIN r = DOMAIN p /\ \A f \in Watched : r[f] = p[f]
    BY DEF Watched
  <2>2. Sound(r)
    BY <2>1, OthersAreFree
  <2>3. QED
    BY <2>2 DEF CompleteQuest
<1>5. QED
  BY <1>1, <1>2, <1>3, <1>4

LEMMA OwnsSound ==
  ASSUME NEW p, NEW i, NEW s, NEW n, NEW o, Sound(p)
  PROVE  /\ Sound(AddItem(p, i)) /\ Sound(RemoveOne(p, i))
         /\ Sound(PutOn(p, i, s)) /\ Sound(TakeOff(p, s))
         /\ Sound(EarnGold(p, n)) /\ Sound(SpendGold(p, n))
         /\ Sound(AddFriend(p, o)) /\ Sound(RemoveFriend(p, o)) /\ Sound(AddAchievement(p, o))
<1>1. ASSUME NEW r, NEW j, Sound(r) PROVE Sound(AddItem(r, j)) /\ Sound(RemoveOne(r, j))
  <2>1. /\ DOMAIN AddItem(r, j) = DOMAIN r /\ DOMAIN RemoveOne(r, j) = DOMAIN r
        /\ \A f \in Watched : AddItem(r, j)[f] = r[f] /\ RemoveOne(r, j)[f] = r[f]
    BY DEF Watched, AddItem, RemoveOne
  <2>2. QED
    BY <1>1, <2>1, OthersAreFree
<1>2. Sound(PutOn(p, i, s))
  <2> DEFINE r == [p EXCEPT !.worn[s] = i]
  <2>1. DOMAIN r = DOMAIN p /\ \A f \in Watched : r[f] = p[f]
    BY DEF Watched
  <2>2. Sound(r)
    BY <2>1, OthersAreFree
  <2> HIDE DEF r
  <2>3. Sound(RemoveOne(r, i))
    BY <1>1, <2>2
  <2>4. QED
    BY <2>3 DEF PutOn, r
<1>3. Sound(TakeOff(p, s))
  <2> DEFINE r == AddItem(p, p.worn[s])
             t == [r EXCEPT !.worn[s] = "none"]
  <2>1. Sound(r)
    BY <1>1
  <2> HIDE DEF r
  <2>2. DOMAIN t = DOMAIN r /\ \A f \in Watched : t[f] = r[f]
    BY DEF Watched
  <2>3. Sound(t)
    BY <2>1, <2>2, OthersAreFree
  <2>4. QED
    BY <2>3 DEF TakeOff, r
<1>4. /\ Sound(EarnGold(p, n)) /\ Sound(SpendGold(p, n)) /\ Sound(AddFriend(p, o))
      /\ Sound(RemoveFriend(p, o)) /\ Sound(AddAchievement(p, o))
  BY SetOther DEF CharacterFields, Watched, EarnGold, SpendGold, AddFriend, RemoveFriend,
     AddAchievement
<1>5. QED
  BY <1>1, <1>2, <1>3, <1>4

LEMMA Beside ==
  \A f, g : /\ DOMAIN (f ++ g) = DOMAIN f \cup DOMAIN g
            /\ \A x \in DOMAIN f : (f ++ g)[x] = f[x]
            /\ \A x \in DOMAIN g \ DOMAIN f : (f ++ g)[x] = g[x]
BY DEF ++

(* A row has of a player what a player is made of again.                   *)
LEMMA SerializeSound ==
  ASSUME NEW p, Sound(p) PROVE RowSound(Serialize(p))
<1>1. /\ DOMAIN SerializeAttributes(p) = {"strength", "dexterity", "vitality", "attack_power", "defense"}
      /\ DOMAIN SerializeStats(p) = {"health", "max_health", "level", "experience", "gold",
                                     "skill_points", "quests_completed"}
      /\ DOMAIN SerializeEquipment(p) = {"worn"}
  BY DEF SerializeAttributes, SerializeStats, SerializeEquipment, Part, Attributes, Stats, Equipment
<1>2. /\ DOMAIN InventoryJson(p) = {"items"} /\ DOMAIN SkillsJson(p) = {"skills"}
      /\ DOMAIN QuestsJson(p) = {"active_quests", "completed_quests"}
      /\ DOMAIN BuffsJson(p) = {"active_buffs"} /\ DOMAIN CooldownsJson(p) = {"cooldowns"}
      /\ DOMAIN Part(p, {"status", "friends"}) = {"status", "friends"}
  BY DEF InventoryJson, SkillsJson, QuestsJson, BuffsJson, CooldownsJson, Part
<1>3. DOMAIN Serialize(p) = CharacterFields \ {"achievements"}
  <2>1. DOMAIN Serialize(p) =
           DOMAIN SerializeAttributes(p) \cup DOMAIN SerializeStats(p)
             \cup DOMAIN SerializeEquipment(p) \cup DOMAIN InventoryJson(p) \cup DOMAIN SkillsJson(p)
             \cup DOMAIN QuestsJson(p) \cup DOMAIN BuffsJson(p) \cup DOMAIN CooldownsJson(p)
             \cup DOMAIN Part(p, {"status", "friends"})
    <3>1. \A f, g : DOMAIN (f ++ g) = DOMAIN f \cup DOMAIN g
      BY Beside
    <3>2. QED
      BY DEF Serialize, ++
  <2>2. QED
    BY <1>1, <1>2, <2>1 DEF CharacterFields
<1>4. \A f \in {"strength", "dexterity", "vitality", "attack_power", "defense"} :
         SerializeAttributes(p)[f] = p[f]
  BY <1>1 DEF SerializeAttributes, Part
<1>5. \A f \in {"health", "max_health", "level", "experience"} : SerializeStats(p)[f] = p[f]
  BY <1>1 DEF SerializeStats, Part
<1>6. \A f \in Watched : Serialize(p)[f] = p[f]
  <2> DEFINE a == SerializeAttributes(p) ++ SerializeStats(p)
  <2>1. \A f \in Watched : f \in DOMAIN a /\ a[f] = p[f]
    <3>1. ASSUME NEW f \in {"strength", "dexterity", "vitality", "attack_power", "defense"}
          PROVE  f \in DOMAIN a /\ a[f] = p[f]
      BY <1>1, <1>4 DEF ++
    <3>2. ASSUME NEW f \in {"health", "max_health", "level", "experience"}
          PROVE  f \in DOMAIN a /\ a[f] = p[f]
      <4>1. f \in DOMAIN SerializeStats(p) \ DOMAIN SerializeAttributes(p)
        BY <1>1, <3>2
      <4>2. SerializeStats(p)[f] = p[f]
        BY <1>5, <3>2
      <4>3. QED
        BY <4>1, <4>2 DEF ++
    <3> HIDE DEF a
    <3>3. QED
      BY <3>1, <3>2 DEF Watched
  <2> DEFINE Has(r) == \A f \in Watched : f \in DOMAIN r /\ r[f] = p[f]
  <2> HIDE DEF a
  <2>2. ASSUME NEW r, NEW t, Has(r) PROVE Has(r ++ t)
    BY <2>2, Beside
  <2>3. Has(a)
    BY <2>1
  <2> HIDE DEF Has
  <2>4. Has(Serialize(p))
    <3>1. Has(a ++ SerializeEquipment(p) ++ InventoryJson(p) ++ SkillsJson(p))
      BY <2>2, <2>3
    <3>2. Has(Serialize(p))
      BY <2>2, <3>1 DEF Serialize, a
    <3>3. QED
      BY <3>2
  <2>5. QED
    BY <2>4 DEF Has
<1>7. QED
  BY <1>3, <1>6 DEF RowSound, Sound, Levelled, Alive, Based, Watched

LEMMA BonusesKeep ==
  ASSUME NEW p, DOMAIN p = CharacterFields, Levelled(p), Alive(p), Based(p)
  PROVE  /\ DOMAIN ApplyClassBonuses(p) = CharacterFields /\ Levelled(ApplyClassBonuses(p))
         /\ Alive(ApplyClassBonuses(p)) /\ Based(ApplyClassBonuses(p))
         /\ DOMAIN ApplyRaceBonuses(p) = CharacterFields /\ Levelled(ApplyRaceBonuses(p))
         /\ Alive(ApplyRaceBonuses(p)) /\ Based(ApplyRaceBonuses(p))
BY DEF ApplyClassBonuses, ApplyRaceBonuses, CharacterFields, Levelled, Alive, Based

LEMMA DeserializeSound ==
  ASSUME NEW r, RowSound(r) PROVE Sound(Deserialize(r))
<1> DEFINE p == r ++ [achievements |-> {}]
           q == LoadBuffs(p, r.active_buffs)
           t == ApplyClassBonuses(q)
<1>1. DOMAIN p = CharacterFields
  BY DEF ++, RowSound, CharacterFields
<1>2. \A f \in Watched : p[f] = r[f]
  BY DEF ++, RowSound, CharacterFields, Watched
<1> HIDE DEF p
<1>3. Levelled(p) /\ Alive(p) /\ Based(p)
  BY <1>2 DEF RowSound, Levelled, Alive, Based, Watched
<1>4. Sound(q)
  <2> DEFINE u == [p EXCEPT !.strength = p.strength + Bonus(r.active_buffs)]
  <2>1. DOMAIN u = CharacterFields /\ Levelled(u) /\ Alive(u) /\ Based(u)
    BY <1>1, <1>3 DEF Levelled, Alive, Based, CharacterFields
  <2> HIDE DEF u
  <2>2. QED
    BY <2>1, Derives DEF LoadBuffs, SetAttribute, u
<1> HIDE DEF q
<1>5. DOMAIN t = CharacterFields /\ Levelled(t) /\ Alive(t) /\ Based(t)
  BY <1>4, BonusesKeep DEF Sound
<1> HIDE DEF t
<1>6. Sound(UpdateDerivedStats(ApplyRaceBonuses(t)))
  BY <1>5, BonusesKeep, Derives
<1>7. QED
  BY <1>6 DEF Deserialize, t, q, p

LEMMA NewPlayerSound == Sound(Player)
<1> DEFINE r == Stats ++ Attributes ++ Equipment ++ Belongings ++ [status |-> "IDLE"]
           t == ApplyRaceBonuses(r)
<1>1. DOMAIN r = CharacterFields
  BY DEF ++, Stats, Attributes, Equipment, Belongings, CharacterFields
<1>2. /\ r.level = 1 /\ r.experience = 0 /\ r.health = 100 /\ r.max_health = 100
      /\ r.vitality = 10 /\ r.dexterity = 10
  BY ZenonT(30) DEF ++, Stats, Attributes, Equipment, Belongings
<1> HIDE DEF r
<1>3. Levelled(r) /\ Alive(r) /\ Based(r)
  BY <1>2, CharactersAssumption DEF Levelled, Alive, Based
<1>4. DOMAIN t = CharacterFields /\ Levelled(t) /\ Alive(t) /\ Based(t)
  BY <1>1, <1>3, BonusesKeep
<1> HIDE DEF t
<1>5. Sound(UpdateDerivedStats(ApplyClassBonuses(t)))
  BY <1>4, BonusesKeep, Derives
<1>6. QED
  BY <1>5 DEF Player, t, r

LEMMA CharactersStep ==
  ASSUME CharacterIInv, CharactersNext PROVE CharacterIInv'
<1>1. SUFFICES Sound(player') /\ (saved' = NotSaved \/ RowSound(saved'))
  BY DEF CharacterIInv, Sound, RowSound, Levelled, Alive, Based, Derived
<1>2. Sound(player) /\ (saved = NotSaved \/ RowSound(saved))
  BY DEF CharacterIInv
<1>3. ASSUME NEW p, Sound(p), Becomes(p) PROVE Sound(player') /\ UNCHANGED saved
  BY <1>3 DEF Becomes
<1>4. CASE Suffer
  <2>1. PICK d \in Damages :
           \/ Becomes(ApplyDamage(player, d))
           \/ \E p \in TakeDamage(player, d) : Becomes(p)
           \/ Becomes(ApplyHealing(player, d))
           \/ Becomes(Heal(player, d))
           \/ Becomes(SetMaxHealth(player, d))
    BY <1>4 DEF Suffer
  <2>2. d \in Nat
    BY CharactersAssumption
  <2>3. QED
    BY <1>2, <1>3, <2>1, <2>2, SufferSound
<1>5. CASE Progress
  <2>1. PICK n \in Experiences :
           \/ Becomes(AddExperience(player, n)) \/ Becomes(LoseExperience(player, n))
           \/ \E l \in 0..MAX_LEVEL + 1 : Becomes(SetLevel(player, l))
    BY <1>5 DEF Progress
  <2>2. n \in Nat /\ 0..MAX_LEVEL + 1 \subseteq Int
    BY CharactersAssumption
  <2>3. QED
    BY <1>2, <1>3, <2>1, <2>2, AddExperienceSound, LoseExperienceSound, SetLevelSound
<1>6. CASE Boost
  BY <1>2, <1>3, <1>6, BuffsSound DEF Boost
<1>7. CASE Act
  BY <1>2, <1>3, <1>7, ActsSound DEF Act
<1>8. CASE Own
  BY <1>2, <1>3, <1>8, OwnsSound DEF Own
<1>9. CASE Update
  <2>1. PICK buffs \in SUBSET Buffs, abilities \in SUBSET Abilities,
             arrived_ \in BOOLEAN, gains \in BOOLEAN :
          /\ player' = IF Regenerate(player, gains) THEN UpdateMovement(player, arrived_)
                       ELSE UpdateCooldowns(UpdateBuffs(UpdateMovement(player, arrived_), buffs),
                                            abilities)
          /\ UNCHANGED saved
    BY <1>9 DEF Update
  <2>2. Sound(UpdateMovement(player, arrived_))
    BY <1>2, ActsSound
  <2>3. Sound(UpdateBuffs(UpdateMovement(player, arrived_), buffs))
    BY <2>2, BuffsSound
  <2>4. Sound(UpdateCooldowns(UpdateBuffs(UpdateMovement(player, arrived_), buffs), abilities))
    BY <2>3, ActsSound
  <2>5. QED
    BY <1>2, <2>1, <2>2, <2>4
<1>10. CASE SaveToDatabase
  BY <1>2, <1>10, SerializeSound DEF SaveToDatabase
<1>11. CASE Reload
  BY <1>2, <1>11, DeserializeSound DEF Reload
<1>12. QED
  BY <1>2, <1>4, <1>5, <1>6, <1>7, <1>8, <1>9, <1>10, <1>11 DEF CharactersNext

LEMMA CharactersAlways == Spec => []CharacterIInv
<1>1. Init => CharacterIInv
  BY NewPlayerSound DEF Init, CharactersInit, CharacterIInv
<1>2. CharacterIInv /\ [Next]_vars => CharacterIInv'
  <2>1. ASSUME CharacterIInv, UNCHANGED charactersVars PROVE CharacterIInv'
    BY <2>1 DEF CharacterIInv, charactersVars, Sound, RowSound, Levelled, Alive, Based, Derived
  <2>2. [Next]_vars => CharactersNext \/ UNCHANGED charactersVars
    BY DEF Next, vars
  <2>3. QED
    BY <2>1, <2>2, CharactersStep
<1>3. QED
  BY <1>1, <1>2, PTL DEF Spec

(* ApplyDamage, OnLevelUp, SetAttribute, LoadBuffs and the other           *)
(* operations of Player, in any order, over any number of levels and with  *)
(* reloads between: health stays within its limit, and the derived         *)
(* attributes follow the base ones.                                        *)
THEOREM CharactersAreSound == Spec => []CharacterInv
<1>1. CharacterIInv => CharacterInv
  BY DEF CharacterIInv, Sound, Alive, Derived, CharacterInv, HealthWithin, DerivedFollow
<1>2. QED
  BY <1>1, CharactersAlways, PTL

(* What AddExperience awards is there afterwards, spent on levels or not:  *)
(* for any prices of the levels and any number of them gained at once.     *)
THEOREM ExperienceIsKept == Spec => ExperienceCounts
<1> DEFINE Awarded ==
      \A n \in Experiences : player' = AddExperience(player, n) /\ player'.level < MAX_LEVEL
                               => Worth(player') = Worth(player) + n
<1>1. CharacterIInv /\ [Next]_vars => [Awarded]_charactersVars
  <2>1. SUFFICES ASSUME CharacterIInv, NEW n \in Experiences,
                        player' = AddExperience(player, n), player'.level < MAX_LEVEL
                 PROVE  Worth(player') = Worth(player) + n
    OBVIOUS
  <2>2. n \in Nat /\ Sound(player)
    BY <2>1, CharactersAssumption DEF CharacterIInv
  <2>3. QED
    BY <2>1, <2>2, AddExperienceSound
<1>2. QED
  BY <1>1, CharactersAlways, PTL DEF Spec, ExperienceCounts

-----------------------------------------------------------------------------
(* Movement                                                                *)

Arrivals == [input_id : 1..MaxInputId, jumping : BOOLEAN]
Walkers ==
    [height : {-1, 0, 1}, rise : {-1, 0, 1}, onGround : BOOLEAN, rotation : 0..MaxInputId]
AtRest(w) == w.onGround => w.rise = 0

MovementIInv ==
    /\ arrived \in Seq(Arrivals) /\ lifted \in 0..Len(arrived)
    /\ history = Mov!Newest(arrived, MAX_INPUT_HISTORY)
    /\ walker \in Walkers /\ AtRest(walker)
    /\ Mov!NewestInputLast /\ Mov!JumpsAreForgotten
    /\ buffered \subseteq 0..MaxInputId /\ inputs_ = Mov!SortAndTrim(buffered)

LEMMA MovementNumbers ==
  MaxInputId \in Nat /\ MAX_INPUT_HISTORY \in Nat \ {0} /\ BufferSize \in Nat
BY MovementAssumption DEF Mov!MovementConstants

(* The newest elements of a sequence.                                      *)
AtMost(n, s) == IF n < Len(s) THEN n ELSE Len(s)

LEMMA NewestIs ==
  ASSUME NEW X, NEW s \in Seq(X), NEW n \in Nat
  PROVE  /\ AtMost(n, s) \in 0..Len(s) /\ Mov!Newest(s, n) \in Seq(X)
         /\ Len(Mov!Newest(s, n)) = AtMost(n, s)
         /\ \A k \in 1..AtMost(n, s) : Mov!Newest(s, n)[k] = s[Len(s) - AtMost(n, s) + k]
<1>1. AtMost(n, s) \in 0..Len(s) /\ Len(s) \in Nat
  BY DEF AtMost
<1>2. Mov!Newest(s, n) = SubSeq(s, Len(s) - AtMost(n, s) + 1, Len(s))
  BY DEF Mov!Newest, AtMost
<1>3. PICK m \in Nat, t \in Nat : m = Len(s) /\ t = AtMost(n, s) /\ t <= m
  BY <1>1
<1> DEFINE e == SubSeq(s, m - t + 1, m)
<1>4. e \in Seq(X) /\ Len(e) = t
  BY <1>3
<1>5. \A k \in 1..t : e[k] = s[m - t + k]
  <2>1. TAKE k \in 1..t
  <2>2. /\ m - t + 1 \in 1..m + 1 /\ k \in 1..m - (m - t + 1) + 1
        /\ (m - t + 1) + k - 1 = m - t + k
    BY <1>3
  <2>3. e[k] = s[(m - t + 1) + k - 1]
    <3>1. m - t + 1 \in Int /\ m \in Int /\ \A i \in m - t + 1 .. m : s[i] \in X
      BY <1>3
    <3>2. \A i \in 1 .. m - (m - t + 1) + 1 : e[i] = s[(m - t + 1) + i - 1]
      BY <3>1, SubSeqProperties
    <3>3. QED
      BY <2>2, <3>2
  <2>4. QED
    BY <2>2, <2>3
<1> HIDE DEF AtMost
<1>6. QED
  BY <1>1, <1>2, <1>3, <1>4, <1>5

LEMMA NewestOfNone == Mov!Newest(<<>>, MAX_INPUT_HISTORY) = <<>>
<1>1. Mov!Newest(<<>>, MAX_INPUT_HISTORY) = SubSeq(<<>>, 1, 0)
  BY MovementNumbers DEF Mov!Newest
<1>2. QED
  BY <1>1, SubSeqEmpty

LEMMA NewestOfMore ==
  ASSUME NEW X, NEW s \in Seq(X), NEW x \in X, NEW n \in Nat \ {0}
  PROVE  Mov!Newest(Append(Mov!Newest(s, n), x), n) = Mov!Newest(Append(s, x), n)
<1> DEFINE a == Mov!Newest(s, n)
           b == Append(a, x)
           c == Append(s, x)
           l == Mov!Newest(b, n)
           r == Mov!Newest(c, n)
<1>1. /\ a \in Seq(X) /\ Len(a) = AtMost(n, s) /\ AtMost(n, s) \in 0..Len(s)
      /\ \A k \in 1..AtMost(n, s) : a[k] = s[Len(s) - AtMost(n, s) + k]
  BY NewestIs
<1> HIDE DEF a
<1>2. /\ b \in Seq(X) /\ c \in Seq(X) /\ Len(b) = Len(a) + 1 /\ Len(c) = Len(s) + 1
      /\ \A k \in 1..Len(a) : b[k] = a[k]
      /\ \A k \in 1..Len(s) : c[k] = s[k]
      /\ b[Len(a) + 1] = x /\ c[Len(s) + 1] = x
  BY <1>1
<1> HIDE DEF b, c
<1>3. /\ l \in Seq(X) /\ Len(l) = AtMost(n, b) /\ AtMost(n, b) \in 0..Len(b)
      /\ \A k \in 1..AtMost(n, b) : l[k] = b[Len(b) - AtMost(n, b) + k]
  BY <1>2, NewestIs
<1>4. /\ r \in Seq(X) /\ Len(r) = AtMost(n, c) /\ AtMost(n, c) \in 0..Len(c)
      /\ \A k \in 1..AtMost(n, c) : r[k] = c[Len(c) - AtMost(n, c) + k]
  BY <1>2, NewestIs
<1> HIDE DEF l, r
<1>5. AtMost(n, b) = AtMost(n, c)
  BY <1>1, <1>2 DEF AtMost
<1>6. \A k \in 1..AtMost(n, c) : l[k] = r[k]
  <2>1. TAKE k \in 1..AtMost(n, c)
  <2>2. PICK m \in Nat : m = Len(s)
    OBVIOUS
  <2>3. PICK j \in Nat : j = Len(a)
    BY <1>1
  <2>4. PICK t \in Nat : t = AtMost(n, c)
    BY <1>4
  <2>5. j = (IF n < m THEN n ELSE m) /\ t = (IF n < m + 1 THEN n ELSE m + 1)
    BY <1>1, <1>2, <2>2, <2>3, <2>4 DEF AtMost
  <2>6. l[k] = b[j + 1 - t + k] /\ r[k] = c[m + 1 - t + k]
    <3>1. Len(b) = j + 1 /\ Len(c) = m + 1 /\ k \in 1..t
      BY <1>2, <2>2, <2>3, <2>4
    <3>2. l[k] = b[Len(b) - t + k] /\ r[k] = c[Len(c) - t + k]
      BY <1>3, <1>4, <1>5, <2>4
    <3>3. QED
      BY <3>1, <3>2, SMTT(30)
  <2>7. CASE k = t
    <3>1. l[k] = b[j + 1] /\ r[k] = c[m + 1]
      BY <2>6, <2>7
    <3>2. QED
      BY <1>2, <2>2, <2>3, <3>1
  <2>8. CASE k < t
    <3>1. j + 1 - t + k \in 1..j /\ m + 1 - t + k \in 1..m /\ m - j + (j + 1 - t + k) = m + 1 - t + k
      BY <2>4, <2>5, <2>8
    <3>2. b[j + 1 - t + k] = a[j + 1 - t + k] /\ c[m + 1 - t + k] = s[m + 1 - t + k]
      BY <1>2, <2>2, <2>3, <3>1
    <3>3. a[j + 1 - t + k] = s[m - j + (j + 1 - t + k)]
      BY <1>1, <2>2, <2>3, <3>1
    <3>4. QED
      BY <2>6, <3>1, <3>2, <3>3
  <2>9. QED
    BY <2>4, <2>7, <2>8
<1>7. l = r
  BY <1>3, <1>4, <1>5, <1>6
<1>8. QED
  BY <1>7 DEF l, r, b, c, a

(* One input.                                                              *)
LEMMA OneInput ==
  ASSUME NEW w \in Walkers, NEW i \in Arrivals, NEW v \in Mov!ApplyInput(w, i)
  PROVE  /\ v \in Walkers /\ v.rotation = i.input_id
         /\ AtRest(w) => AtRest(v)
         /\ w.onGround /\ ~i.jumping => v.onGround
<1> DEFINE jumps == w.onGround /\ i.jumping
           rises == IF jumps THEN {1} ELSE IF w.onGround THEN {w.rise} ELSE Mov!Slowed(w.rise)
           now(p) == [height |-> p[2], rise |-> p[1], onGround |-> w.onGround /\ ~jumps,
                      rotation |-> i.input_id]
<1>1. rises \subseteq {-1, 0, 1} /\ (w.onGround /\ ~i.jumping => rises = {w.rise})
  BY DEF Walkers, Mov!Slowed, Mov!Signs
<1>2. ASSUME NEW r \in {-1, 0, 1} PROVE Mov!Moved(w.height, r) \subseteq {-1, 0, 1}
  BY DEF Walkers, Mov!Moved, Mov!Signs
<1>3. PICK p \in UNION {{r} \X Mov!Moved(w.height, r) : r \in rises} : v = Mov!Grounded(now(p))
  BY DEF Mov!ApplyInput
<1>4. PICK r \in rises : p \in {r} \X Mov!Moved(w.height, r)
  BY <1>3
<1>5. r \in {-1, 0, 1} /\ p[1] = r /\ p[2] \in {-1, 0, 1}
  BY <1>1, <1>2, <1>4
<1>6. i.input_id \in 0..MaxInputId
  BY MovementNumbers DEF Arrivals
<1>7. PICK ground \in BOOLEAN : ground = (w.onGround /\ ~jumps)
  OBVIOUS
<1>8. now(p) = [height |-> p[2], rise |-> r, onGround |-> ground, rotation |-> i.input_id]
  BY <1>5, <1>7
<1>9. \/ v = [height |-> p[2], rise |-> r, onGround |-> ground, rotation |-> i.input_id]
      \/ v = [height |-> 0, rise |-> 0, onGround |-> TRUE, rotation |-> i.input_id]
  <2> DEFINE u == [height |-> p[2], rise |-> r, onGround |-> ground, rotation |-> i.input_id]
  <2>1. v = Mov!Grounded(u)
    BY <1>3, <1>8, Zenon
  <2>2. QED
    BY <2>1 DEF Mov!Grounded
<1> HIDE DEF now
<1>10. w.onGround \in BOOLEAN /\ i.jumping \in BOOLEAN /\ w.rise \in {-1, 0, 1}
  BY DEF Walkers, Arrivals
<1>11. v \in Walkers /\ v.rotation = i.input_id
  <2>1. CASE v = [height |-> p[2], rise |-> r, onGround |-> ground, rotation |-> i.input_id]
    BY <1>5, <1>6, <1>7, <2>1 DEF Walkers
  <2>2. CASE v = [height |-> 0, rise |-> 0, onGround |-> TRUE, rotation |-> i.input_id]
    BY <1>6, <2>2 DEF Walkers
  <2>3. QED
    BY <1>9, <2>1, <2>2
<1>12. ground = TRUE => w.onGround /\ ~i.jumping
  BY <1>7, <1>10
<1>13. AtRest(w) => AtRest(v)
  BY <1>1, <1>4, <1>9, <1>12 DEF AtRest
<1>14. w.onGround /\ ~i.jumping => v.onGround
  <2>1. CASE v = [height |-> p[2], rise |-> r, onGround |-> ground, rotation |-> i.input_id]
    <3>1. v.onGround = ground
      BY <2>1
    <3>2. QED
      BY <1>7, <3>1
  <2>2. CASE v = [height |-> 0, rise |-> 0, onGround |-> TRUE, rotation |-> i.input_id]
    BY <2>2
  <2>3. QED
    BY <1>9, <2>1, <2>2
<1>15. QED
  BY <1>11, <1>13, <1>14

(* All inputs of a history.                                                *)
LEMMA AllInputs ==
  ASSUME NEW w \in Walkers, NEW h \in Seq(Arrivals),
         NEW v \in Mov!SimulateMovement(w, h, DOMAIN h)
  PROVE  /\ v \in Walkers /\ (AtRest(w) => AtRest(v))
         /\ v.rotation = IF h = <<>> THEN w.rotation ELSE h[Len(h)].input_id
         /\ w.onGround /\ (\A k \in 1..Len(h) : ~h[k].jumping) => v.onGround
<1> DEFINE Up(n, f) ==
             f = [k \in 0..n |-> IF k = 0 THEN {w}
                                ELSE IF k \in DOMAIN h
                                     THEN UNION {Mov!ApplyInput(u, h[k]) : u \in f[k - 1]}
                                ELSE f[k - 1]]
           S == {n \in Nat : \E f : Up(n, f)}
           after == CHOOSE f : Up(Len(h), f)
           Good(k, u) ==
             /\ u \in Walkers /\ (AtRest(w) => AtRest(u))
             /\ u.rotation = IF k = 0 THEN w.rotation ELSE h[k].input_id
             /\ w.onGround /\ (\A j \in 1..k : ~h[j].jumping) => u.onGround
           T == {n \in Nat : n <= Len(h) => \A u \in after[n] : Good(n, u)}
<1>1. 0 \in S
  <2>1. Up(0, [k \in 0..0 |-> {w}])
    OBVIOUS
  <2>2. QED
    BY <2>1
<1>2. ASSUME NEW n \in Nat, n \in S PROVE n + 1 \in S
  <2>1. PICK f : Up(n, f)
    BY <1>2
  <2> DEFINE step(F, k) == IF k = 0 THEN {w}
                           ELSE IF k \in DOMAIN h
                                THEN UNION {Mov!ApplyInput(u, h[k]) : u \in F}
                           ELSE F
             g == [k \in 0..n + 1 |-> IF k <= n THEN f[k] ELSE step(f[k - 1], k)]
  <2>2. \A k \in 0..n + 1 : g[k] = step(g[k - 1], k)
    <3>1. TAKE k \in 0..n + 1
    <3>2. \A j \in 0..n : f[j] = step(f[j - 1], j)
      BY <2>1
    <3> HIDE DEF step
    <3>3. CASE k <= n /\ k # 0
      <4>1. k \in 0..n /\ k - 1 \in 0..n
        BY <3>3
      <4>2. g[k] = f[k] /\ g[k - 1] = f[k - 1]
        BY <3>3, <4>1
      <4>3. QED
        BY <3>2, <4>1, <4>2
    <3>4. CASE k = 0
      <4>1. g[0] = f[0] /\ f[0] = step(f[0 - 1], 0)
        BY <3>2
      <4>2. step(f[0 - 1], 0) = {w} /\ step(g[0 - 1], 0) = {w}
        BY DEF step
      <4>3. QED
        BY <3>4, <4>1, <4>2
    <3>5. CASE k > n
      <4>1. k = n + 1 /\ k - 1 \in 0..n + 1 /\ k - 1 <= n
        BY <3>5
      <4>2. g[k - 1] = f[k - 1] /\ g[k] = step(f[k - 1], k)
        BY <3>5, <4>1
      <4>3. QED
        BY <4>2
    <3>6. QED
      BY <3>3, <3>4, <3>5
  <2>3. g = [k \in 0..n + 1 |-> g[k]]
    OBVIOUS
  <2> HIDE DEF g
  <2>4. g = [k \in 0..n + 1 |-> step(g[k - 1], k)]
    BY <2>2, <2>3
  <2>5. Up(n + 1, g)
    BY <2>4
  <2>6. QED
    BY <2>5, SMTT(30)
<1>3. Len(h) \in S
  <2> HIDE DEF S
  <2>1. Nat \subseteq S
    BY <1>1, <1>2, EveryNatural
  <2>2. QED
    BY <2>1
<1>4. Up(Len(h), after)
  BY <1>3
<1>5. Mov!SimulateMovement(w, h, DOMAIN h) = after[Len(h)]
  BY DEF Mov!SimulateMovement
<1>6. /\ after[0] = {w}
      /\ \A k \in 1..Len(h) : after[k] = UNION {Mov!ApplyInput(u, h[k]) : u \in after[k - 1]}
  <2> HIDE DEF after, S
  <2>1. \A k \in 0..Len(h) :
          after[k] = IF k = 0 THEN {w}
                     ELSE IF k \in DOMAIN h
                          THEN UNION {Mov!ApplyInput(u, h[k]) : u \in after[k - 1]}
                     ELSE after[k - 1]
    BY <1>4
  <2>2. 0 \in 0..Len(h) /\ DOMAIN h = 1..Len(h)
    OBVIOUS
  <2>3. after[0] = {w}
    BY <2>1, <2>2
  <2>4. ASSUME NEW k \in 1..Len(h)
        PROVE  after[k] = UNION {Mov!ApplyInput(u, h[k]) : u \in after[k - 1]}
    <3>1. k \in 0..Len(h) /\ k # 0 /\ k \in DOMAIN h
      OBVIOUS
    <3>2. QED
      BY <2>1, <3>1
  <2>5. QED
    BY <2>3, <2>4
<1> HIDE DEF after, S, Up
<1>7. 0 \in T
  BY <1>6
<1>8. ASSUME NEW n \in Nat, n \in T PROVE n + 1 \in T
  <2>1. SUFFICES ASSUME n + 1 <= Len(h), NEW u \in after[n + 1] PROVE Good(n + 1, u)
    OBVIOUS
  <2>2. n + 1 \in 1..Len(h) /\ n + 1 - 1 = n /\ n <= Len(h)
    BY <2>1
  <2>3. PICK b \in after[n] : u \in Mov!ApplyInput(b, h[n + 1])
    BY <1>6, <2>2
  <2>4. Good(n, b)
    BY <1>8, <2>2
  <2>5. h[n + 1] \in Arrivals
    BY <2>2
  <2>6. /\ u \in Walkers /\ u.rotation = h[n + 1].input_id
        /\ AtRest(b) => AtRest(u)
        /\ b.onGround /\ ~h[n + 1].jumping => u.onGround
    BY <2>3, <2>4, <2>5, OneInput
  <2>7. ASSUME w.onGround, \A j \in 1..n + 1 : ~h[j].jumping PROVE u.onGround
    <3>1. \A j \in 1..n : ~h[j].jumping
      BY <2>7
    <3>2. ~h[n + 1].jumping
      BY <2>7
    <3>3. QED
      BY <2>4, <2>6, <2>7, <3>1, <3>2
  <2>8. QED
    BY <2>4, <2>6, <2>7
<1>9. Good(Len(h), v)
  <2>1. Len(h) \in T
    <3> HIDE DEF T
    <3>1. Nat \subseteq T
      BY <1>7, <1>8, EveryNatural
    <3>2. QED
      BY <3>1
  <2>2. QED
    BY <1>5, <2>1
<1>10. QED
  BY <1>9

(* Sets of ids.                                                            *)
LEMMA Counted ==
  ASSUME NEW S, S \subseteq 0..MaxInputId, NEW T, T \subseteq S
  PROVE  /\ Mov!Cardinality(S) \in Nat /\ Mov!Cardinality(T) \in Nat
         /\ Mov!Cardinality(T) <= Mov!Cardinality(S)
<1>1. IsFiniteSet(0..MaxInputId)
  BY MovementNumbers, FS_Interval
<1>2. IsFiniteSet(S)
  BY <1>1, FS_Subset
<1>3. IsFiniteSet(T) /\ Cardinality(T) <= Cardinality(S)
  BY <1>2, FS_Subset
<1>4. Cardinality(S) \in Nat /\ Cardinality(T) \in Nat
  BY <1>2, <1>3, FS_CardinalityType
<1>5. QED
  BY <1>3, <1>4 DEF Mov!Cardinality, Cardinality

LEMMA Highest ==
  ASSUME NEW n \in Nat, NEW S, S \subseteq 0..n, S # {}
  PROVE  \E o \in S : \A other \in S : other <= o
<1> DEFINE Q == {k \in Nat : \A U \in SUBSET (0..k) :
                     U # {} => \E o \in U : \A other \in U : other <= o}
<1>1. 0 \in Q
  <2>1. SUFFICES ASSUME NEW U \in SUBSET (0..0), U # {}
                 PROVE  \E o \in U : \A other \in U : other <= o
    OBVIOUS
  <2>2. PICK o \in U : o \in 0..0
    BY <2>1
  <2>3. \A other \in U : other = 0
    BY <2>1
  <2>4. QED
    BY <2>2, <2>3
<1>2. ASSUME NEW k \in Nat, k \in Q PROVE k + 1 \in Q
  <2>1. SUFFICES ASSUME NEW U \in SUBSET (0..k + 1), U # {}
                 PROVE  \E o \in U : \A other \in U : other <= o
    OBVIOUS
  <2>2. CASE k + 1 \in U
    BY <2>2
  <2>3. CASE k + 1 \notin U
    <3>1. U \in SUBSET (0..k)
      BY <2>3
    <3>2. QED
      BY <1>2, <2>1, <3>1
  <2>4. QED
    BY <2>2, <2>3
<1> HIDE DEF Q
<1>3. Nat \subseteq Q
  BY <1>1, <1>2, EveryNatural
<1>4. QED
  BY <1>3 DEF Q

LEMMA Lowest ==
  ASSUME NEW S, S \subseteq Nat, S # {}
  PROVE  \E o \in S : \A other \in S : o <= other
<1>1. PICK o \in S : \A other \in S : ~(<<other, o>> \in OpToRel(<, Nat))
  BY WFMin, NatLessThanWellFounded
<1>2. ASSUME NEW other \in S PROVE o <= other
  <2>1. other \in Nat /\ o \in Nat
    OBVIOUS
  <2>2. other < o => <<other, o>> \in OpToRel(<, Nat)
    BY <2>1 DEF OpToRel
  <2>3. ~(other < o)
    BY <1>1, <2>2, Zenon
  <2>4. QED
    BY <2>1, <2>3
<1>3. QED
  BY <1>2

(* What was given up stays given up: trimming after each id keeps what     *)
(* trimming once, in the end, would keep.                                  *)
LEMMA TrimmedAsOne ==
  ASSUME NEW B, B \subseteq 0..MaxInputId, NEW x \in 0..MaxInputId
  PROVE  Mov!SortAndTrim(Mov!SortAndTrim(B) \cup {x}) = Mov!SortAndTrim(B \cup {x})
<1> DEFINE L == Mov!SortAndTrim(B)
           C == L \cup {x}
           D == B \cup {x}
<1>1. L \subseteq B /\ C \subseteq D /\ D \subseteq 0..MaxInputId /\ C \subseteq 0..MaxInputId
  BY DEF Mov!SortAndTrim
<1>2. \A e \in B : e \in L <=> Mov!Cardinality(Mov!Above(B, e)) < BufferSize
  BY DEF Mov!SortAndTrim
<1>3. \A e : e \in Mov!SortAndTrim(C)
                <=> e \in C /\ Mov!Cardinality(Mov!Above(C, e)) < BufferSize
  BY DEF Mov!SortAndTrim
<1>4. \A e : e \in Mov!SortAndTrim(D)
                <=> e \in D /\ Mov!Cardinality(Mov!Above(D, e)) < BufferSize
  BY DEF Mov!SortAndTrim
<1>5. ASSUME NEW S \in SUBSET (0..MaxInputId), NEW e
      PROVE  \A o : o \in Mov!Above(S, e) <=> o \in S /\ o > e
  BY DEF Mov!Above
<1> HIDE DEF L
<1>6. ASSUME NEW e \in D, Mov!Cardinality(Mov!Above(C, e)) < BufferSize,
             ~(Mov!Cardinality(Mov!Above(D, e)) < BufferSize)
      PROVE  FALSE
  <2> DEFINE lost == Mov!Above(D, e) \ Mov!Above(C, e)
  <2>1. lost # {}
    <3>1. Mov!Above(C, e) \subseteq Mov!Above(D, e)
      BY <1>1, <1>5
    <3>2. lost = {} => Mov!Above(C, e) = Mov!Above(D, e)
      BY <3>1
    <3>3. QED
      BY <1>6, <3>2
  <2>2. lost \subseteq 0..MaxInputId
    BY <1>1, <1>5
  <2> HIDE DEF lost
  <2>3. PICK o \in lost : \A other \in lost : other <= o
    BY <2>1, <2>2, MovementNumbers, Highest
  <2>4. o \in B \ L /\ o > e
    BY <1>1, <1>5, <2>3 DEF lost
  <2>5. Mov!Above(B, o) \subseteq Mov!Above(C, e)
    <3>1. SUFFICES ASSUME NEW other \in Mov!Above(B, o) PROVE other \in Mov!Above(C, e)
      OBVIOUS
    <3>2. other \in B /\ other > o
      BY <1>5, <3>1
    <3>3. other \in Nat /\ o \in Nat /\ e \in Nat
      BY <1>1, <2>4, <3>2
    <3>4. other > e /\ other \in D
      BY <2>4, <3>2, <3>3
    <3>5. other \in Mov!Above(D, e)
      BY <1>1, <1>5, <3>4
    <3>6. other \notin lost
      BY <2>3, <3>2, <3>3
    <3>7. QED
      BY <3>5, <3>6 DEF lost
  <2>6. Mov!Above(C, e) \subseteq 0..MaxInputId
    BY <1>1, <1>5
  <2>7. Mov!Cardinality(Mov!Above(B, o)) < BufferSize
    BY <1>6, <2>5, <2>6, Counted, MovementNumbers
  <2>8. QED
    BY <1>2, <2>4, <2>7
<1>7. ASSUME NEW e \in D, Mov!Cardinality(Mov!Above(D, e)) < BufferSize
      PROVE  e \in C /\ Mov!Cardinality(Mov!Above(C, e)) < BufferSize
  <2>1. /\ Mov!Above(C, e) \subseteq Mov!Above(D, e) /\ Mov!Above(B, e) \subseteq Mov!Above(D, e)
        /\ Mov!Above(D, e) \subseteq 0..MaxInputId
    BY <1>1, <1>5
  <2>2. /\ Mov!Cardinality(Mov!Above(C, e)) < BufferSize
        /\ Mov!Cardinality(Mov!Above(B, e)) < BufferSize
    BY <1>7, <2>1, Counted, MovementNumbers, SMTT(30)
  <2>3. QED
    BY <1>2, <2>2
<1>8. \A e : e \in Mov!SortAndTrim(C) <=> e \in Mov!SortAndTrim(D)
  BY <1>1, <1>3, <1>4, <1>6, <1>7
<1>9. QED
  BY <1>8 DEF L

LEMMA Trimmed ==
  ASSUME MovementIInv
  PROVE  Mov!BufferKeepsNewest
<1>1. /\ inputs_ \subseteq buffered /\ buffered \subseteq 0..MaxInputId
      /\ \A e \in buffered :
           e \in inputs_ <=> Mov!Cardinality(Mov!Above(buffered, e)) < BufferSize
      /\ inputs_ = Mov!SortAndTrim(buffered)
  BY DEF MovementIInv, Mov!SortAndTrim
<1>2. CASE inputs_ = {}
  <2>1. Mov!Cardinality({}) = 0
    BY FS_EmptySet DEF Mov!Cardinality, Cardinality
  <2>2. QED
    BY <1>1, <1>2, <2>1, MovementNumbers DEF Mov!BufferKeepsNewest
<1>3. CASE inputs_ # {}
  <2>0. inputs_ \subseteq Nat /\ buffered \subseteq Nat
    <3>1. 0..MaxInputId \subseteq Nat
      BY MovementNumbers
    <3>2. QED
      BY <1>1, <3>1
  <2>1. \E o \in inputs_ : \A other \in inputs_ : o <= other
    BY <1>3, <2>0, Lowest
  <2> DEFINE g == Mov!GetNextInput
  <2>2. g \in inputs_ /\ \A other \in inputs_ : g <= other
    BY <1>3, <2>1 DEF Mov!GetNextInput
  <2> HIDE DEF g
  <2>3. Mov!Cardinality(Mov!Above(buffered, g)) < BufferSize
    BY <1>1, <2>2
  <2>4. Mov!Above(buffered, g) \subseteq 0..MaxInputId
    BY <1>1 DEF Mov!Above
  <2>5. Mov!Cardinality(inputs_) <= BufferSize
    <3>1. inputs_ \ {g} \subseteq Mov!Above(buffered, g)
      <4>1. SUFFICES ASSUME NEW id \in inputs_, id # g PROVE id \in Mov!Above(buffered, g)
        OBVIOUS
      <4>2. id \in Nat /\ g \in Nat /\ g <= id /\ id \in buffered
        BY <1>1, <2>0, <2>2
      <4>3. id > g
        BY <4>1, <4>2
      <4>4. QED
        BY <4>2, <4>3 DEF Mov!Above
    <3>2. /\ Mov!Cardinality(inputs_ \ {g}) < BufferSize
          /\ Mov!Cardinality(inputs_ \ {g}) \in Nat
      BY <2>3, <2>4, <3>1, Counted, MovementNumbers
    <3>3. IsFiniteSet(inputs_)
      <4>1. IsFiniteSet(0..MaxInputId)
        BY MovementNumbers, FS_Interval
      <4>2. inputs_ \in SUBSET (0..MaxInputId)
        BY <1>1
      <4>3. QED
        BY <4>1, <4>2, FS_Subset
    <3>4. Cardinality(inputs_) \in Nat /\ Cardinality(inputs_ \ {g}) = Cardinality(inputs_) - 1
      BY <2>2, <3>3, FS_RemoveElement, FS_CardinalityType
    <3>5. Mov!Cardinality(inputs_) = Cardinality(inputs_)
           /\ Mov!Cardinality(inputs_ \ {g}) = Cardinality(inputs_ \ {g})
      BY DEF Mov!Cardinality, Cardinality
    <3>6. QED
      BY <3>2, <3>4, <3>5, MovementNumbers
  <2>6. ASSUME NEW id \in buffered PROVE id < g <=> id \notin inputs_
    <3>1. id \in Nat /\ g \in Nat
      BY <2>0, <2>2
    <3>2. CASE id > g
      <4>1. Mov!Above(buffered, id) \subseteq Mov!Above(buffered, g)
        <5>1. SUFFICES ASSUME NEW other \in buffered, other > id PROVE other > g
          BY DEF Mov!Above
        <5>2. other \in Nat
          BY <2>0
        <5>3. QED
          BY <3>1, <3>2, <5>1, <5>2
      <4>2. Mov!Cardinality(Mov!Above(buffered, id)) < BufferSize
        BY <2>3, <2>4, <4>1, Counted, MovementNumbers
      <4>3. QED
        BY <1>1, <3>1, <3>2, <4>2
    <3>3. CASE id < g
      BY <2>2, <3>1, <3>3
    <3>4. CASE id = g
      BY <2>2, <3>1, <3>4
    <3>5. QED
      BY <3>1, <3>2, <3>3, <3>4
  <2>7. QED
    BY <1>1, <2>5, <2>6 DEF Mov!BufferKeepsNewest, g
<1>4. QED
  BY <1>2, <1>3

(* A message of the player.                                                *)
LEMMA StateStep ==
  ASSUME MovementIInv, Mov!OnPlayerState PROVE MovementIInv'
<1>1. PICK input \in Mov!Inputs :
        /\ history' = Mov!StoreClientInput(history, input)
        /\ walker' \in Mov!SimulateMovement(walker, history', Mov!GetUnprocessedInputs(history', 0))
        /\ arrived' = IF Mov!IsValid(input) THEN Append(arrived, input) ELSE arrived
        /\ lifted' = IF walker.onGround /\ ~walker'.onGround THEN Len(arrived') ELSE lifted
        /\ UNCHANGED <<inputs_, buffered>>
  BY DEF Mov!OnPlayerState
<1>2. input.input_id \in 0..MaxInputId /\ input.jumping \in BOOLEAN
  BY DEF Mov!Inputs
<1>3. arrived' \in Seq(Arrivals) /\ Len(arrived) <= Len(arrived') /\ Len(arrived') \in Nat
  <2>1. CASE Mov!IsValid(input)
    <3>1. input \in Arrivals
      BY <1>2, <2>1, MovementNumbers DEF Mov!Inputs, Mov!IsValid, Arrivals
    <3>2. QED
      BY <1>1, <2>1, <3>1 DEF MovementIInv
  <2>2. CASE ~Mov!IsValid(input)
    BY <1>1, <2>2 DEF MovementIInv
  <2>3. QED
    BY <2>1, <2>2
<1>4. history' = Mov!Newest(arrived', MAX_INPUT_HISTORY)
  <2>1. CASE Mov!IsValid(input)
    <3>1. input \in Arrivals
      BY <1>2, <2>1, MovementNumbers DEF Mov!Inputs, Mov!IsValid, Arrivals
    <3>2. history' = Mov!Newest(Append(Mov!Newest(arrived, MAX_INPUT_HISTORY), input),
                                MAX_INPUT_HISTORY)
      BY <1>1, <2>1 DEF MovementIInv, Mov!StoreClientInput
    <3>3. QED
      BY <1>1, <2>1, <3>1, <3>2, NewestOfMore, MovementNumbers DEF MovementIInv
  <2>2. CASE ~Mov!IsValid(input)
    BY <1>1, <2>2 DEF MovementIInv, Mov!StoreClientInput
  <2>3. QED
    BY <2>1, <2>2
<1> DEFINE n == AtMost(MAX_INPUT_HISTORY, arrived')
<1>5. /\ n \in 0..Len(arrived') /\ history' \in Seq(Arrivals) /\ Len(history') = n
      /\ \A k \in 1..n : history'[k] = arrived'[Len(arrived') - n + k]
  BY <1>3, <1>4, NewestIs, MovementNumbers
<1>6. n <= MAX_INPUT_HISTORY /\ (Len(arrived') > 0 => n > 0)
  BY <1>3, MovementNumbers DEF AtMost
<1> HIDE DEF n
<1>7. walker' \in Mov!SimulateMovement(walker, history', DOMAIN history')
  <2>1. \A k \in DOMAIN history' : history'[k].input_id > 0
    <3>1. \A k \in DOMAIN history' : history'[k] \in Arrivals
      BY <1>5
    <3>2. QED
      BY <3>1, MovementNumbers DEF Arrivals
  <2>2. Mov!GetUnprocessedInputs(history', 0) = DOMAIN history'
    BY <2>1 DEF Mov!GetUnprocessedInputs
  <2>3. QED
    BY <1>1, <2>2
<1>8. /\ walker' \in Walkers /\ (AtRest(walker) => AtRest(walker'))
      /\ walker'.rotation = IF history' = <<>> THEN walker.rotation
                            ELSE history'[Len(history')].input_id
      /\ walker.onGround /\ (\A k \in 1..Len(history') : ~history'[k].jumping) => walker'.onGround
  BY <1>5, <1>7, AllInputs DEF MovementIInv
<1>9. Mov!NewestInputLast'
  <2>1. SUFFICES ASSUME arrived' # <<>> PROVE walker'.rotation = arrived'[Len(arrived')].input_id
    BY DEF Mov!NewestInputLast
  <2>2. Len(arrived') > 0
    BY <1>3, <2>1
  <2>3. n > 0 /\ n \in Nat
    BY <1>3, <1>5, <1>6, <2>2
  <2>4. history' # <<>> /\ history'[n] = arrived'[Len(arrived') - n + n]
    BY <1>5, <2>3
  <2>5. Len(arrived') - n + n = Len(arrived')
    BY <1>3, <2>3
  <2>6. QED
    BY <1>5, <1>8, <2>4, <2>5
<1>10. lifted' \in 0..Len(arrived') /\ Mov!JumpsAreForgotten'
  <2>1. CASE walker.onGround /\ ~walker'.onGround
    <3>1. lifted' = Len(arrived')
      BY <1>1, <2>1
    <3>2. PICK k \in 1..n : history'[k].jumping
      BY <1>5, <1>8, <2>1
    <3>3. PICK m \in Nat : m = Len(arrived')
      BY <1>3
    <3>4. /\ n \in Nat /\ k \in 1..n /\ n <= m
          /\ m - n + k \in 1..m /\ m - (m - n + k) < n
      BY <1>5, <3>3
    <3>5. m - (m - n + k) < MAX_INPUT_HISTORY
      BY <1>6, <3>4, MovementNumbers
    <3>6. arrived'[m - n + k].jumping
      BY <1>5, <3>2, <3>3
    <3>7. QED
      BY <3>1, <3>3, <3>4, <3>5, <3>6 DEF Mov!JumpsAreForgotten
  <2>2. CASE ~(walker.onGround /\ ~walker'.onGround)
    <3>1. lifted' = lifted /\ lifted \in 0..Len(arrived')
      BY <1>1, <1>3, <2>2 DEF MovementIInv
    <3>2. \A i \in 1..Len(arrived) : arrived'[i] = arrived[i]
      BY <1>1 DEF MovementIInv
    <3>3. ASSUME lifted > 0
          PROVE  \E i \in 1..lifted : lifted - i < MAX_INPUT_HISTORY /\ arrived'[i].jumping
      <4>1. PICK i \in 1..lifted : lifted - i < MAX_INPUT_HISTORY /\ arrived[i].jumping
        BY <3>3 DEF MovementIInv, Mov!JumpsAreForgotten
      <4>2. i \in 1..Len(arrived)
        BY DEF MovementIInv
      <4>3. QED
        BY <3>2, <4>1, <4>2
    <3>4. QED
      BY <3>1, <3>3 DEF Mov!JumpsAreForgotten
  <2>3. QED
    BY <2>1, <2>2
<1>11. buffered' \subseteq 0..MaxInputId /\ inputs_' = Mov!SortAndTrim(buffered')
  BY <1>1 DEF MovementIInv
<1>12. QED
  BY <1>3, <1>4, <1>8, <1>9, <1>10, <1>11 DEF MovementIInv

LEMMA OtherMovementSteps ==
  ASSUME MovementIInv,
         Mov!OnPlayerPosition \/ Mov!OnPlayerDisconnected \/ Mov!AddInput \/ Mov!Clear
  PROVE  MovementIInv'
<1>1. CASE Mov!OnPlayerPosition
  <2>1. PICK h \in {-1, 0, 1} : walker' = [walker EXCEPT !.height = h]
    BY <1>1 DEF Mov!OnPlayerPosition, Mov!Signs
  <2>2. UNCHANGED <<history, inputs_, arrived, lifted, buffered>>
    BY <1>1 DEF Mov!OnPlayerPosition
  <2>3. /\ walker' \in Walkers /\ walker'.rise = walker.rise
        /\ walker'.onGround = walker.onGround /\ walker'.rotation = walker.rotation
    BY <2>1 DEF MovementIInv, Walkers
  <2>4. QED
    BY <2>2, <2>3 DEF MovementIInv, AtRest, Mov!NewestInputLast, Mov!JumpsAreForgotten
<1>2. CASE Mov!OnPlayerDisconnected
  <2>1. history' = <<>> /\ arrived' = <<>> /\ lifted' = 0 /\ UNCHANGED <<walker, inputs_, buffered>>
    BY <1>2 DEF Mov!OnPlayerDisconnected
  <2>2. arrived' \in Seq(Arrivals) /\ Len(arrived') = 0
    BY <2>1
  <2>3. Mov!Newest(arrived', MAX_INPUT_HISTORY) = <<>>
    BY <2>1, NewestOfNone
  <2>4. QED
    BY <2>1, <2>2, <2>3 DEF MovementIInv, Mov!NewestInputLast, Mov!JumpsAreForgotten
<1>3. CASE Mov!AddInput
  <2>1. PICK id \in 0..MaxInputId :
          inputs_' = Mov!SortAndTrim(inputs_ \cup {id}) /\ buffered' = buffered \cup {id}
    BY <1>3 DEF Mov!AddInput
  <2>2. inputs_' = Mov!SortAndTrim(buffered') /\ buffered' \subseteq 0..MaxInputId
    BY <2>1, TrimmedAsOne DEF MovementIInv
  <2>3. UNCHANGED <<walker, history, arrived, lifted>>
    BY <1>3 DEF Mov!AddInput
  <2>4. QED
    BY <2>2, <2>3 DEF MovementIInv, Mov!NewestInputLast, Mov!JumpsAreForgotten
<1>4. CASE Mov!Clear
  <2>1. inputs_' = Mov!SortAndTrim(buffered') /\ buffered' \subseteq 0..MaxInputId
    BY <1>4 DEF Mov!Clear, Mov!SortAndTrim
  <2>2. UNCHANGED <<walker, history, arrived, lifted>>
    BY <1>4 DEF Mov!Clear
  <2>3. QED
    BY <2>1, <2>2 DEF MovementIInv, Mov!NewestInputLast, Mov!JumpsAreForgotten
<1>5. QED
  BY <1>1, <1>2, <1>3, <1>4

LEMMA MovementStart == Init => MovementIInv
<1>1. SUFFICES ASSUME Init PROVE MovementIInv
  OBVIOUS
<1>2. /\ walker = [height |-> 0, rise |-> 0, onGround |-> TRUE, rotation |-> 0]
      /\ history = <<>> /\ inputs_ = {} /\ arrived = <<>> /\ lifted = 0 /\ buffered = {}
  BY <1>1 DEF Init, Mov!MovementInit
<1>3. arrived \in Seq(Arrivals) /\ Len(arrived) = 0
  BY <1>2
<1>4. Mov!Newest(arrived, MAX_INPUT_HISTORY) = <<>>
  BY <1>2, NewestOfNone
<1>5. walker \in Walkers /\ AtRest(walker)
  BY <1>2, MovementNumbers DEF Walkers, AtRest
<1>6. inputs_ = Mov!SortAndTrim(buffered)
  BY <1>2 DEF Mov!SortAndTrim
<1>7. QED
  BY <1>2, <1>3, <1>4, <1>5, <1>6 DEF MovementIInv, Mov!NewestInputLast, Mov!JumpsAreForgotten

LEMMA MovementUnchanged ==
  ASSUME MovementIInv, UNCHANGED movementVars PROVE MovementIInv'
BY DEF MovementIInv, movementVars, Mov!NewestInputLast, Mov!JumpsAreForgotten

(* Where a player is and how fast follows from the inputs the server still *)
(* remembers, whatever their ids and however many it remembers: the newest *)
(* one turns the player, only a remembered jump lifts one who stands, one  *)
(* who stands has come to rest; and an InputBuffer of any size keeps the   *)
(* newest inputs in spite of duplicates and late ones.                     *)
THEOREM MovementFollows == Spec => []MovementInv
<1>1. MovementIInv /\ [Next]_vars => MovementIInv'
  <2>1. SUFFICES ASSUME MovementIInv, [Next]_vars PROVE MovementIInv'
    OBVIOUS
  <2>2. CASE Mov!MovementNext
    BY <2>1, <2>2, StateStep, OtherMovementSteps DEF Mov!MovementNext
  <2>3. CASE UNCHANGED movementVars
    BY <2>1, <2>3, MovementUnchanged
  <2>4. QED
    BY <2>1, <2>2, <2>3 DEF Next, vars, movementVars
<1>2. MovementIInv => MovementInv
  <2>1. SUFFICES ASSUME MovementIInv PROVE Mov!MovementInv
    BY DEF MovementInv
  <2>2. Mov!StandingIsAtRest
    BY <2>1 DEF MovementIInv, AtRest, Mov!StandingIsAtRest
  <2>3. QED
    BY <2>1, <2>2, Trimmed DEF MovementIInv, Mov!MovementInv
<1>3. QED
  BY <1>1, <1>2, MovementStart, PTL DEF Spec

-----------------------------------------------------------------------------
(* A recursive function on 0..n whose steps stay in V exists, and its      *)
(* values are in V.                                                        *)
StaysIn(n, V, step) == \A k \in 1..n, v \in V : step[<<k, v>>] \in V
Follows(f, n, start, step) == f[0] = start /\ \A k \in 1..n : f[k] = step[<<k, f[k - 1]>>]

LEMMA Stepwise ==
  ASSUME NEW n \in Nat, NEW V, NEW start \in V, NEW step, StaysIn(n, V, step)
  PROVE  \E f \in [0..n -> V] : Follows(f, n, start, step)
<1> DEFINE Upto(m) == \E f \in [0..m -> V] :
                          f[0] = start /\ \A k \in 1..m : f[k] = step[<<k, f[k - 1]>>]
           S == {m \in Nat : m <= n => Upto(m)}
<1>1. 0 \in S
  <2> DEFINE f == [k \in 0..0 |-> start]
  <2>1. f \in [0..0 -> V] /\ f[0] = start /\ 1..0 = {}
    OBVIOUS
  <2> HIDE DEF f
  <2>2. Upto(0)
    BY <2>1
  <2>3. QED
    BY <2>2
<1>2. ASSUME NEW m \in Nat, m \in S PROVE m + 1 \in S
  <2>1. SUFFICES ASSUME m + 1 <= n PROVE Upto(m + 1)
    OBVIOUS
  <2>2. PICK f \in [0..m -> V] :
            f[0] = start /\ \A k \in 1..m : f[k] = step[<<k, f[k - 1]>>]
    BY <1>2, <2>1
  <2> DEFINE next == step[<<m + 1, f[m]>>]
             g == [k \in 0..m + 1 |-> IF k <= m THEN f[k] ELSE next]
  <2>3. next \in V
    BY <2>1, <2>2 DEF StaysIn
  <2> HIDE DEF next
  <2>4. g \in [0..m + 1 -> V]
    BY <2>2, <2>3
  <2>5. g[0] = start
    BY <2>2
  <2>6. ASSUME NEW k \in 1..m + 1 PROVE g[k] = step[<<k, g[k - 1]>>]
    <3>1. CASE k = m + 1
      <4>1. g[k] = next /\ g[k - 1] = f[m] /\ k = m + 1
        BY <3>1
      <4> HIDE DEF g
      <4>2. QED
        BY <4>1 DEF next
    <3>2. CASE k # m + 1
      <4>1. k \in 1..m /\ k - 1 \in 0..m
        BY <3>2
      <4>2. g[k] = f[k] /\ g[k - 1] = f[k - 1]
        BY <4>1
      <4> HIDE DEF g
      <4>3. QED
        BY <2>2, <4>1, <4>2
    <3>3. QED
      BY <3>1, <3>2
  <2> HIDE DEF g
  <2>7. QED
    BY <2>4, <2>5, <2>6
<1>3. Nat \subseteq S
  <2> HIDE DEF S
  <2>1. QED
    BY <1>1, <1>2, EveryNatural
<1>4. Upto(n)
  <2>1. n \in S
    BY <1>3
  <2> HIDE DEF Upto
  <2>2. QED
    BY <2>1
<1>5. QED
  BY <1>4, Zenon DEF Follows

(* The greater of two numbers is one of them.                              *)
LEMMA GreaterOfTwo ==
  ASSUME NEW a \in Int, NEW b \in Int
  PROVE  /\ Lt!Max({a, b}) \in {a, b} /\ Lt!Max({a, b}) >= a /\ Lt!Max({a, b}) >= b
<1>1. \E m \in {a, b} : \A other \in {a, b} : other <= m
  <2>1. CASE a <= b
    BY <2>1
  <2>2. CASE ~(a <= b)
    BY <2>2
  <2>3. QED
    BY <2>1, <2>2
<1>2. \E m \in {a, b} : \A other \in {a, b} : m >= other
  BY <1>1
<1>3. Lt!Max({a, b}) \in {a, b} /\ \A other \in {a, b} : Lt!Max({a, b}) >= other
  BY <1>2 DEF Lt!Max
<1>4. QED
  BY <1>3

LEMMA LesserOfTwo ==
  ASSUME NEW a \in Int, NEW b \in Int
  PROVE  /\ Lt!Min({a, b}) \in {a, b} /\ Lt!Min({a, b}) <= a /\ Lt!Min({a, b}) <= b
<1>1. \E m \in {a, b} : \A other \in {a, b} : m <= other
  <2>1. CASE a <= b
    BY <2>1
  <2>2. CASE ~(a <= b)
    BY <2>2
  <2>3. QED
    BY <2>1, <2>2
<1>3. Lt!Min({a, b}) \in {a, b} /\ \A other \in {a, b} : Lt!Min({a, b}) <= other
  BY <1>1 DEF Lt!Min
<1>4. QED
  BY <1>3

-----------------------------------------------------------------------------
Meets(t, i, level, rep) == Lt!PlayerMeetsRequirements(t.entries[i], level, rep)
Surely(t, i, level, rep) == t.entries[i].dropChance >= 100 /\ Meets(t, i, level, rep)
WithNext(t, level, rep, s, i) ==
    IF Len(s) < t.guaranteedDrops /\ Surely(t, i, level, rep) THEN Append(s, i) ELSE s
Apart(s) == \A j, k \in DOMAIN s : s[j] = s[k] => j = k

SureUpto(t, level, rep, n) ==
    \E f \in [0..n -> Seq(1..n)] :
        f[0] = <<>> /\ \A i \in 1..n : f[i] = WithNext(t, level, rep, f[i - 1], i)

LEMMA SureOnesExist ==
  ASSUME NEW t, NEW level, NEW rep, NEW n \in Nat
  PROVE  SureUpto(t, level, rep, n)
<1> DEFINE V == Seq(1..n)
           step == [x \in (1..n) \X V |-> WithNext(t, level, rep, x[2], x[1])]
<1>1. \A i \in 1..n, s \in V : WithNext(t, level, rep, s, i) \in V
  <2>1. TAKE i \in 1..n, s \in V
  <2>2. Append(s, i) \in V
    OBVIOUS
  <2>3. QED
    BY <2>2 DEF WithNext
<1>2. \A i \in 1..n, s \in V : step[<<i, s>>] = WithNext(t, level, rep, s, i)
  OBVIOUS
<1>3. <<>> \in V
  OBVIOUS
<1> HIDE DEF step, V
<1>4. StaysIn(n, V, step)
  BY <1>1, <1>2, Zenon DEF StaysIn
<1>5. PICK f \in [0..n -> V] : Follows(f, n, <<>>, step)
  BY <1>3, <1>4, Stepwise, Zenon
<1>6. f[0] = <<>> /\ \A i \in 1..n : f[i] = step[<<i, f[i - 1]>>]
  BY <1>5 DEF Follows
<1>7. ASSUME NEW i \in 1..n PROVE f[i] = WithNext(t, level, rep, f[i - 1], i)
  <2>1. i - 1 \in 0..n
    OBVIOUS
  <2>2. f[i - 1] \in V
    BY <2>1, Zenon
  <2>3. QED
    BY <1>2, <1>6, <2>2, Zenon
<1>8. QED
  BY <1>6, <1>7, Zenon DEF V, SureUpto

(* The entries that drop for sure: none twice, no more than                *)
(* guaranteedDrops, and all of them the player may have.                   *)
LEMMA SureOnes ==
  ASSUME NEW t \in Tables, NEW level, NEW rep
  PROVE  /\ Lt!GuaranteedIndices(t, level, rep) \in Seq(DOMAIN t.entries)
         /\ \A k \in DOMAIN Lt!GuaranteedIndices(t, level, rep) :
                Meets(t, Lt!GuaranteedIndices(t, level, rep)[k], level, rep)
         /\ Apart(Lt!GuaranteedIndices(t, level, rep))
         /\ \/ Len(Lt!GuaranteedIndices(t, level, rep)) = 0
            \/ Len(Lt!GuaranteedIndices(t, level, rep)) <= t.guaranteedDrops
<1> DEFINE n == Len(t.entries)
           V == Seq(1..n)
           step == [x \in (1..n) \X V |-> WithNext(t, level, rep, x[2], x[1])]
           Is(f) == f = [i \in 0..n |-> IF i = 0 THEN <<>> ELSE WithNext(t, level, rep, f[i - 1], i)]
           sure == CHOOSE f : Is(f)
<1>1. n \in Nat /\ DOMAIN t.entries = 1..n /\ t.guaranteedDrops \in Int
  BY LootAssumption DEF Lt!LootConstants, Lt!LootTable
<1>2. Lt!GuaranteedIndices(t, level, rep) = sure[n]
  BY DEF Lt!GuaranteedIndices, Meets, WithNext, Surely
<1>3. \E f \in [0..n -> V] :
          f[0] = <<>> /\ \A i \in 1..n : f[i] = WithNext(t, level, rep, f[i - 1], i)
  <2>1. SureUpto(t, level, rep, n)
    BY <1>1, SureOnesExist
  <2>2. QED
    BY <2>1, Zenon DEF SureUpto
<1> HIDE DEF n
<1>4. Is(sure)
  <2>1. PICK f \in [0..n -> V] : f[0] = <<>> /\ \A i \in 1..n : f[i] = WithNext(t, level, rep, f[i - 1], i)
    BY <1>3
  <2> HIDE DEF V
  <2>2. f = [i \in 0..n |-> f[i]]
    OBVIOUS
  <2>3. \A i \in 0..n : i = 0 \/ i \in 1..n
    BY <1>1
  <2>4. Is(f)
    BY <2>1, <2>2, <2>3
  <2>5. QED
    BY <2>4
<1>5. \A i \in 0..n : sure[i] = IF i = 0 THEN <<>> ELSE WithNext(t, level, rep, sure[i - 1], i)
  BY <1>4
<1> HIDE DEF sure
<1> DEFINE Good(i) == /\ sure[i] \in Seq(1..i)
                      /\ \A k \in 1..Len(sure[i]) : Meets(t, sure[i][k], level, rep)
                      /\ \A j, k \in 1..Len(sure[i]) : sure[i][j] = sure[i][k] => j = k
                      /\ Len(sure[i]) = 0 \/ Len(sure[i]) <= t.guaranteedDrops
           T == {i \in Nat : i <= n => Good(i)}
<1>6. 0 \in T
  <2>1. sure[0] = <<>>
    BY <1>1, <1>5
  <2>2. Good(0)
    BY <2>1
  <2>3. QED
    BY <2>2
<1>7. ASSUME NEW i \in Nat, i \in T PROVE i + 1 \in T
  <2> HIDE DEF Good
  <2>1. SUFFICES ASSUME i + 1 <= n PROVE Good(i + 1)
    OBVIOUS
  <2> USE DEF Good
  <2>2. i + 1 \in 0..n /\ i + 1 # 0 /\ i + 1 - 1 = i /\ i <= n
    BY <1>1, <2>1
  <2>3. Good(i)
    BY <1>7, <2>2
  <2>4. sure[i + 1] = WithNext(t, level, rep, sure[i], i + 1)
    BY <1>5, <2>2
  <2>5. PICK s : s = sure[i]
    OBVIOUS
  <2>6. s \in Seq(1..i) /\ Len(s) \in Nat /\ \A k \in 1..Len(s) : s[k] \in 1..i
    BY <2>3, <2>5
  <2>7. s \in Seq(1..i + 1)
    BY <2>6
  <2>8. CASE Len(s) < t.guaranteedDrops /\ Surely(t, i + 1, level, rep)
    <3>1. sure[i + 1] = Append(s, i + 1)
      BY <2>4, <2>5, <2>8 DEF WithNext
    <3>2. /\ Append(s, i + 1) \in Seq(1..i + 1) /\ Len(Append(s, i + 1)) = Len(s) + 1
          /\ \A k \in 1..Len(s) : Append(s, i + 1)[k] = s[k]
          /\ Append(s, i + 1)[Len(s) + 1] = i + 1
      BY <2>6, <2>7
    <3>3. Meets(t, i + 1, level, rep)
      BY <2>8 DEF Surely
    <3>4. \A k \in 1..Len(s) + 1 : k \in 1..Len(s) \/ k = Len(s) + 1
      BY <2>6
    <3>5. \A j, k \in 1..Len(s) : s[j] = s[k] => j = k
      BY <2>3, <2>5
    <3>6. \A k \in 1..Len(s) : Meets(t, s[k], level, rep)
      BY <2>3, <2>5
    <3> DEFINE a == Append(s, i + 1)
    <3> HIDE DEF a
    <3>7. \A k \in 1..Len(a) : Meets(t, a[k], level, rep)
      BY <3>2, <3>3, <3>4, <3>6 DEF a
    <3>8. \A j, k \in 1..Len(a) : a[j] = a[k] => j = k
      <4>1. \A k \in 1..Len(s) : a[k] \in 1..i /\ a[k] # i + 1
        BY <2>6, <3>2 DEF a
      <4>2. QED
        BY <2>6, <3>2, <3>4, <3>5, <4>1 DEF a
    <3>9. Len(a) <= t.guaranteedDrops
      BY <1>1, <2>6, <2>8, <3>2 DEF a
    <3>10. QED
      BY <3>1, <3>2, <3>7, <3>8, <3>9 DEF a
  <2>9. CASE ~(Len(s) < t.guaranteedDrops /\ Surely(t, i + 1, level, rep))
    <3>1. sure[i + 1] = s
      BY <2>4, <2>5, <2>9 DEF WithNext
    <3>2. QED
      BY <2>3, <2>5, <2>7, <3>1
  <2>10. QED
    BY <2>8, <2>9
<1>8. Good(n)
  <2>1. n \in T
    <3> HIDE DEF T
    <3>1. Nat \subseteq T
      BY <1>6, <1>7, EveryNatural
    <3>2. QED
      BY <1>1, <3>1
  <2>2. QED
    BY <1>1, <2>1
<1> HIDE DEF T
<1>9. PICK s : s = sure[n] /\ s = Lt!GuaranteedIndices(t, level, rep)
  BY <1>2
<1>10. s \in Seq(1..n) /\ DOMAIN s = 1..Len(s)
  BY <1>8, <1>9
<1>11. QED
  BY <1>1, <1>8, <1>9, <1>10 DEF Apart

(* A function on 1..n is a sequence of that length.                        *)
LEMMA AsSequence ==
  ASSUME NEW n \in Nat, NEW S, NEW f \in [1..n -> S]
  PROVE  f \in Seq(S) /\ Len(f) = n
<1>1. f \in Seq(S)
  BY SeqDef
<1>2. Len(f) \in Nat /\ 1..Len(f) = 1..n
  BY <1>1, LenProperties
<1>3. QED
  BY <1>1, <1>2

(* What is drawn at random from some entries: some of them, not more than  *)
(* asked for, and of a table with uniqueDrops none twice.                  *)
LEMMA RandomOnes ==
  ASSUME NEW t \in Tables, NEW eligible, eligible \subseteq DOMAIN t.entries,
         NEW n \in Int, NEW pick \in Lt!Drawn(t, eligible, n)
  PROVE  /\ pick \in Seq(eligible)
         /\ Len(pick) = 0 \/ Len(pick) <= n
         /\ t.uniqueDrops => Apart(pick)
<1>1. IsFiniteSet(eligible) /\ Lt!Cardinality(eligible) \in Nat
  <2>1. Len(t.entries) \in Nat /\ DOMAIN t.entries = 1..Len(t.entries)
    BY LootAssumption DEF Lt!LootConstants, Lt!LootTable
  <2>2. IsFiniteSet(1..Len(t.entries))
    BY <2>1, FS_Interval
  <2>3. IsFiniteSet(eligible)
    BY <2>1, <2>2, FS_Subset
  <2>4. Cardinality(eligible) \in Nat
    BY <2>3, FS_CardinalityType
  <2>5. QED
    BY <2>3, <2>4 DEF Lt!Cardinality, Cardinality
<1> DEFINE m == Lt!Min({n, Lt!Cardinality(eligible)})
<1>2. CASE eligible = {} \/ n <= 0
  <2>1. pick = <<>>
    BY <1>2 DEF Lt!Drawn
  <2>2. QED
    BY <2>1 DEF Apart
<1>3. CASE ~(eligible = {} \/ n <= 0) /\ t.uniqueDrops
  <2>1. pick \in [1..m -> eligible] /\ Lt!IsInjective(pick)
    BY <1>3 DEF Lt!Drawn
  <2>2. m \in Nat /\ m <= n
    <3>1. PICK c \in Nat : c = Lt!Cardinality(eligible)
      BY <1>1
    <3>2. n \in Nat
      BY <1>3
    <3>3. Lt!Min({n, c}) \in {n, c} /\ Lt!Min({n, c}) <= n
      BY LesserOfTwo
    <3>4. m = Lt!Min({n, c})
      BY <3>1
    <3>5. QED
      BY <3>2, <3>3, <3>4
  <2> HIDE DEF m
  <2>3. pick \in Seq(eligible) /\ Len(pick) = m
    BY <2>1, <2>2, AsSequence
  <2>4. QED
    BY <2>1, <2>2, <2>3 DEF Lt!IsInjective, Apart
<1>4. CASE ~(eligible = {} \/ n <= 0) /\ ~t.uniqueDrops
  <2>1. pick \in [1..n -> eligible]
    BY <1>4 DEF Lt!Drawn
  <2>2. pick \in Seq(eligible) /\ Len(pick) = n
    BY <1>4, <2>1, AsSequence
  <2>3. QED
    BY <1>4, <2>2
<1>5. QED
  BY <1>2, <1>3, <1>4

(* What a draw may give who has a level and a reputation.                  *)
Deserves(t, level, rep, loot_) ==
    /\ Len(loot_) \in Nat /\ DOMAIN loot_ = 1..Len(loot_)
    /\ \A k \in DOMAIN loot_ : Meets(t, loot_[k].entry, level, rep)
    /\ Len(loot_) # 0 => Len(loot_) <= t.maxDrops \/ Len(loot_) <= t.guaranteedDrops
    /\ t.uniqueDrops => \A j, k \in DOMAIN loot_ : loot_[j].entry = loot_[k].entry => j = k

(* The entries of a draw, the sure ones first, and their items.            *)
LEMMA EntriesDrawn ==
  ASSUME NEW t \in Tables, NEW level, NEW rep,
         NEW eligible \in Lt!EligibleSets(t, level, rep), NEW sure, NEW pick, NEW s,
         sure = Lt!GuaranteedIndices(t, level, rep),
         pick \in Lt!Drawn(t, eligible, t.maxDrops - Len(sure)), s = sure \o pick
  PROVE  /\ s \in Seq(DOMAIN t.entries)
         /\ \A k \in DOMAIN s : Meets(t, s[k], level, rep)
         /\ Len(s) # 0 => Len(s) <= t.maxDrops \/ Len(s) <= t.guaranteedDrops
         /\ t.uniqueDrops => Apart(s)
<1>1. /\ sure \in Seq(DOMAIN t.entries) /\ Apart(sure)
      /\ \A k \in DOMAIN sure : Meets(t, sure[k], level, rep)
      /\ Len(sure) = 0 \/ Len(sure) <= t.guaranteedDrops
  BY SureOnes
<1>2. /\ \A i \in eligible : i \in DOMAIN t.entries /\ Meets(t, i, level, rep)
      /\ t.uniqueDrops => \A i \in eligible : \A k \in DOMAIN sure : sure[k] # i
  BY DEF Lt!EligibleSets, Lt!ToSet, Meets
<1>3. t.maxDrops \in Int /\ t.guaranteedDrops \in Int
  BY LootAssumption DEF Lt!LootConstants, Lt!LootTable
<1>4. PICK g \in Nat : g = Len(sure) /\ DOMAIN sure = 1..g
  BY <1>1
<1>5. /\ pick \in Seq(eligible)
      /\ t.uniqueDrops => Apart(pick)
      /\ Len(pick) = 0 \/ Len(pick) <= t.maxDrops - g
  <2>1. eligible \subseteq DOMAIN t.entries
    BY <1>2
  <2>2. PICK n \in Int : n = t.maxDrops - g
    BY <1>3
  <2>3. pick \in Lt!Drawn(t, eligible, n)
    BY <1>4, <2>2
  <2>4. QED
    BY <2>1, <2>2, <2>3, RandomOnes
<1>6. PICK m \in Nat : m = Len(pick) /\ DOMAIN pick = 1..m
  BY <1>5
<1>7. \A k \in 1..m : pick[k] \in eligible
  BY <1>5, <1>6
<1>8. pick \in Seq(DOMAIN t.entries)
  BY <1>2, <1>5, <1>6, <1>7, SeqMonotonic
<1>9. /\ s \in Seq(DOMAIN t.entries) /\ Len(s) = g + m /\ DOMAIN s = 1..g + m
      /\ \A k \in 1..g : s[k] = sure[k]
      /\ \A k \in g + 1..g + m : k - g \in 1..m /\ s[k] = pick[k - g]
  BY <1>1, <1>4, <1>6, <1>8, ConcatProperties
<1>10. \A k \in 1..g + m : k \in 1..g \/ k \in g + 1..g + m
  OBVIOUS
<1>11. ASSUME NEW k \in DOMAIN s PROVE Meets(t, s[k], level, rep)
  <2>1. CASE k \in 1..g
    BY <1>1, <1>4, <1>9, <2>1
  <2>2. CASE k \in g + 1..g + m
    BY <1>2, <1>7, <1>9, <2>2
  <2>3. QED
    BY <1>9, <1>10, <2>1, <2>2
<1>12. Len(s) # 0 => Len(s) <= t.maxDrops \/ Len(s) <= t.guaranteedDrops
  BY <1>1, <1>3, <1>4, <1>5, <1>6, <1>9
<1>13. ASSUME t.uniqueDrops, NEW j \in DOMAIN s, NEW k \in DOMAIN s, s[j] = s[k] PROVE j = k
  <2>1. CASE j \in 1..g /\ k \in 1..g
    BY <1>1, <1>4, <1>9, <1>13, <2>1 DEF Apart
  <2>2. CASE j \in g + 1..g + m /\ k \in g + 1..g + m
    <3>1. j - g \in 1..m /\ k - g \in 1..m /\ pick[j - g] = pick[k - g]
      BY <1>9, <1>13, <2>2
    <3>2. j - g = k - g
      BY <1>5, <1>6, <1>13, <3>1 DEF Apart
    <3>3. QED
      BY <2>2, <3>2
  <2>3. CASE j \in 1..g /\ k \in g + 1..g + m
    BY <1>2, <1>4, <1>7, <1>9, <1>13, <2>3
  <2>4. CASE k \in 1..g /\ j \in g + 1..g + m
    BY <1>2, <1>4, <1>7, <1>9, <1>13, <2>4
  <2>5. QED
    BY <1>9, <1>10, <2>1, <2>2, <2>3, <2>4
<1>14. t.uniqueDrops => Apart(s)
  BY <1>13 DEF Apart
<1>15. QED
  BY <1>9, <1>11, <1>12, <1>14

LEMMA GivesWhatIsDue ==
  ASSUME NEW t \in Tables, NEW level, NEW rep, NEW given \in Lt!LootOf(t, level, rep)
  PROVE  Deserves(t, level, rep, given)
<1> DEFINE sure == Lt!GuaranteedIndices(t, level, rep)
           Item(i) == Lt!CreateItemFromEntry(i, t.entries[i])
<1>1. PICK eligible \in Lt!EligibleSets(t, level, rep) :
        \E pick \in Lt!Drawn(t, eligible, t.maxDrops - Len(sure)) :
          given \in {g \in [DOMAIN (sure \o pick) -> UNION {Item(i) : i \in Lt!ToSet(sure \o pick)}] :
                        \A k \in DOMAIN (sure \o pick) : g[k] \in Item((sure \o pick)[k])}
  BY DEF Lt!LootOf
<1>2. PICK pick \in Lt!Drawn(t, eligible, t.maxDrops - Len(sure)) :
          given \in {g \in [DOMAIN (sure \o pick) -> UNION {Item(i) : i \in Lt!ToSet(sure \o pick)}] :
                        \A k \in DOMAIN (sure \o pick) : g[k] \in Item((sure \o pick)[k])}
  BY <1>1
<1>3. PICK s : s = sure \o pick
  OBVIOUS
<1> HIDE DEF sure
<1>4. /\ s \in Seq(DOMAIN t.entries)
      /\ \A k \in DOMAIN s : Meets(t, s[k], level, rep)
      /\ Len(s) # 0 => Len(s) <= t.maxDrops \/ Len(s) <= t.guaranteedDrops
      /\ t.uniqueDrops => Apart(s)
  BY <1>3, EntriesDrawn DEF sure
<1>5. PICK n \in Nat : n = Len(s) /\ DOMAIN s = 1..n
  BY <1>4
<1>6. PICK S : S = UNION {Item(i) : i \in Lt!ToSet(s)}
  OBVIOUS
<1>7. given \in [1..n -> S] /\ \A k \in 1..n : given[k] \in Item(s[k])
  BY <1>2, <1>3, <1>5, <1>6
<1>8. \A k \in 1..n : given[k].entry = s[k]
  BY <1>7 DEF Lt!CreateItemFromEntry
<1>9. Len(given) = n /\ DOMAIN given = 1..n
  BY <1>7, AsSequence
<1>10. QED
  BY <1>4, <1>5, <1>8, <1>9 DEF Deserves, Apart

-----------------------------------------------------------------------------
(* The tables of the map and of the file are those there may be, with one  *)
(* for each id; a draw under way has such a table, and what it drew is     *)
(* what the player deserves.                                               *)
OneEach(tables) ==
    /\ tables \subseteq Tables
    /\ \A t, u \in tables : t.tableId = u.tableId => t = u

Drawing(w) ==
    /\ w.at \in {"idle", "picked", "registered", "found", "drawn"}
    /\ w.at # "idle" => w.table \in Tables
    /\ \/ w.loot = <<>>
       \/ w.table \in Tables /\ Deserves(w.table, w.level, w.rep, w.loot)

DrawsIInv ==
    /\ OneEach(lootTables) /\ OneEach(lootFile)
    /\ asked \subseteq Lt!LootIds(Tables)
    /\ \A d \in Drawers : Drawing(draw[d])

LEMMA OneEachFollows ==
  ASSUME OneEach(lootTables), NEW id
  PROVE  Lt!Cardinality(Lt!WithId(id)) <= 1
<1>1. CASE Lt!WithId(id) = {}
  BY <1>1, FS_EmptySet DEF Lt!Cardinality, Cardinality
<1>2. CASE Lt!WithId(id) # {}
  <2>1. PICK t : t \in Lt!WithId(id)
    BY <1>2
  <2>2. Lt!WithId(id) = {t}
    BY <2>1 DEF OneEach, Lt!WithId
  <2>3. Cardinality({t}) = 1
    BY FS_Singleton
  <2>4. QED
    BY <2>2, <2>3 DEF Lt!Cardinality, Cardinality
<1>3. QED
  BY <1>1, <1>2

LEMMA EntriesCounted ==
  ASSUME NEW n \in Nat, NEW items, DOMAIN items = 1..n,
         \A j, k \in DOMAIN items : items[j].entry = items[k].entry => j = k
  PROVE  Lt!Cardinality({i.entry : i \in Lt!ToSet(items)}) = n
<1> DEFINE T == {i.entry : i \in Lt!ToSet(items)}
           f == [k \in 1..n |-> items[k].entry]
<1>1. T = {items[k].entry : k \in 1..n}
  BY DEF Lt!ToSet
<1>2. f \in [1..n -> T] /\ \A e \in T : \E k \in 1..n : f[k] = e
  BY <1>1
<1>3. \A j, k \in 1..n : f[j] = f[k] => j = k
  OBVIOUS
<1> HIDE DEF f, T
<1>4. f \in Injection(1..n, T) /\ f \in Surjection(1..n, T)
  BY <1>2, <1>3 DEF Injection, IsInjective, Surjection
<1>5. IsFiniteSet(1..n) /\ Cardinality(1..n) = n
  BY FS_Interval
<1>6. f \in Bijection(1..n, T)
  BY <1>4 DEF Bijection
<1>7. Cardinality(T) = n
  BY <1>5, <1>6, FS_Bijection DEF ExistsBijection
<1>8. QED
  BY <1>7 DEF T, Lt!Cardinality, Cardinality

LEMMA DrawsFollow == LootIInv /\ DrawsIInv => Lt!LootInv
<1>. SUFFICES ASSUME LootIInv, DrawsIInv PROVE Lt!LootInv
  OBVIOUS
<1>1. Lt!LootTypeOK
  BY OneEachFollows DEF Lt!LootTypeOK, DrawsIInv, OneEach, Drawing
<1>2. Lt!OnlyDeserved
  <2>1. ASSUME NEW d \in Drawers, NEW k \in DOMAIN draw[d].loot
        PROVE  Meets(draw[d].table, draw[d].loot[k].entry, draw[d].level, draw[d].rep)
    <3>1. Drawing(draw[d])
      BY DEF DrawsIInv
    <3>2. draw[d].loot # <<>>
      BY <2>1
    <3>3. Deserves(draw[d].table, draw[d].level, draw[d].rep, draw[d].loot)
      BY <3>1, <3>2 DEF Drawing
    <3>4. QED
      BY <2>1, <3>3 DEF Deserves
  <2>2. QED
    BY <2>1 DEF Lt!OnlyDeserved, Meets, Lt!PlayerMeetsRequirements
<1>3. Lt!DrawsBounded
  <2>1. SUFFICES ASSUME NEW d \in Drawers, draw[d].loot # <<>>
                 PROVE  /\ Len(draw[d].loot) <= Lt!Max({draw[d].table.maxDrops, draw[d].table.guaranteedDrops})
                        /\ draw[d].table.uniqueDrops =>
                              Lt!Cardinality({i.entry : i \in Lt!ToSet(draw[d].loot)}) = Len(draw[d].loot)
    BY DEF Lt!DrawsBounded
  <2>2. Drawing(draw[d])
    BY DEF DrawsIInv
  <2>3. PICK items : items = draw[d].loot
    OBVIOUS
  <2>4. CASE items = <<>>
    BY <2>1, <2>3, <2>4
  <2>5. CASE draw[d].table \in Tables /\ Deserves(draw[d].table, draw[d].level, draw[d].rep, items)
    <3>1. PICK t \in Tables : t = draw[d].table
      BY <2>5
    <3>2. t.maxDrops \in Int /\ t.guaranteedDrops \in Int
      BY LootAssumption DEF Lt!LootConstants, Lt!LootTable
    <3>3. Lt!Max({t.maxDrops, t.guaranteedDrops}) >= t.maxDrops
          /\ Lt!Max({t.maxDrops, t.guaranteedDrops}) >= t.guaranteedDrops
          /\ Lt!Max({t.maxDrops, t.guaranteedDrops}) \in Int
      BY <3>2, GreaterOfTwo
    <3>4. PICK n \in Nat : n = Len(items) /\ DOMAIN items = 1..n
      BY <2>5 DEF Deserves
    <3>5. n # 0
      BY <2>1, <2>3, <3>4
    <3>6. n <= t.maxDrops \/ n <= t.guaranteedDrops
      BY <2>5, <3>1, <3>4, <3>5 DEF Deserves
    <3>7. n <= Lt!Max({t.maxDrops, t.guaranteedDrops})
      BY <3>2, <3>3, <3>6
    <3>8. t.uniqueDrops => Lt!Cardinality({i.entry : i \in Lt!ToSet(items)}) = n
      BY <2>5, <3>1, <3>4, EntriesCounted DEF Deserves
    <3>9. QED
      BY <2>3, <3>1, <3>4, <3>7, <3>8
  <2>6. QED
    BY <2>2, <2>3, <2>4, <2>5 DEF Drawing
<1>. QED
  BY <1>1, <1>2, <1>3, NoneLeft DEF Lt!LootInv

LEMMA DrawsMove ==
  ASSUME LootIInv, DrawsIInv, NEW d \in Drawers, NEW new, Drawing(new),
         draw' = [draw EXCEPT ![d] = new],
         OneEach(lootTables'), lootFile' = lootFile, asked' = asked
  PROVE  DrawsIInv'
<1>1. DOMAIN draw = Drawers
  BY DEF LootIInv, DrawShape
<1>2. ASSUME NEW e \in Drawers PROVE Drawing(draw'[e])
  <2>1. CASE e = d
    BY <1>1, <2>1
  <2>2. CASE e # d
    BY <1>1, <2>2 DEF DrawsIInv
  <2>3. QED
    BY <2>1, <2>2
<1>3. \A e \in Drawers : Drawing(draw[e])'
  BY <1>2 DEF Drawing, Deserves, Meets, Lt!PlayerMeetsRequirements
<1>4. OneEach(lootTables)' /\ OneEach(lootFile)' /\ asked' \subseteq Lt!LootIds(Tables)'
  BY DEF DrawsIInv, OneEach, Lt!LootIds
<1>5. QED
  BY <1>3, <1>4 DEF DrawsIInv

(* A change of the tables alone.                                           *)
LEMMA TablesMove ==
  ASSUME DrawsIInv, draw' = draw, OneEach(lootTables'), OneEach(lootFile'),
         asked' \subseteq Lt!LootIds(Tables)
  PROVE  DrawsIInv'
<1>1. \A e \in Drawers : Drawing(draw[e])'
  BY ZenonT(30) DEF DrawsIInv, Drawing, Deserves, Meets, Lt!PlayerMeetsRequirements
<1>2. OneEach(lootTables)' /\ OneEach(lootFile)' /\ asked' \subseteq Lt!LootIds(Tables)'
  BY DEF DrawsIInv, OneEach, Lt!LootIds
<1>3. QED
  BY <1>1, <1>2 DEF DrawsIInv

LEMMA RegisteredOnce ==
  ASSUME NEW T, OneEach(T), NEW t \in Tables
  PROVE  OneEach(Lt!Registered(T, t))
BY DEF OneEach, Lt!Registered

LEMMA FreedDraws ==
  ASSUME LootIInv, DrawsIInv, NEW rest, NEW d \in Drawers
  PROVE  Drawing(Lt!Freed(draw, rest)[d]) /\ Drawing([Lt!Freed(draw, rest)[d] EXCEPT !.at = "idle"])
<1>1. DOMAIN draw[d] = DrawFields /\ Drawing(draw[d])
  BY DEF LootIInv, DrawShape, DrawsIInv
<1>2. PICK lost : Lt!Freed(draw, rest)[d] = [draw[d] EXCEPT !.gone = lost]
  BY DEF Lt!Freed
<1>3. PICK w : w = Lt!Freed(draw, rest)[d]
  OBVIOUS
<1>4. /\ w.at = draw[d].at /\ w.table = draw[d].table /\ w.level = draw[d].level
      /\ w.rep = draw[d].rep /\ w.loot = draw[d].loot /\ DOMAIN w = DrawFields
  BY <1>1, <1>2, <1>3 DEF DrawFields
<1>5. PICK v : v = [w EXCEPT !.at = "idle"]
  OBVIOUS
<1>6. /\ v.at = "idle" /\ v.table = w.table /\ v.level = w.level
      /\ v.rep = w.rep /\ v.loot = w.loot
  BY <1>4, <1>5 DEF DrawFields
<1>7. Drawing(w) /\ Drawing(v)
  BY <1>1, <1>4, <1>6 DEF Drawing
<1>8. QED
  BY <1>3, <1>5, <1>7

LEMMA FoundDraws ==
  ASSUME LootIInv, DrawsIInv, NEW d \in Drawers, NEW id,
         draw[d].at \in {"idle", "picked", "registered"}
  PROVE  /\ Drawing(Lt!Found(d, id)) /\ Lt!Found(d, id).loot = <<>>
         /\ DOMAIN Lt!Found(d, id) = DrawFields
<1>1. DOMAIN draw[d] = DrawFields /\ Drawing(draw[d])
  BY DEF LootIInv, DrawShape, DrawsIInv
<1>2. CASE Lt!WithId(id) = {}
  <2>1. PICK w : w = Lt!Found(d, id)
    OBVIOUS
  <2>2. /\ w.at = IF draw[d].at = "registered" THEN "drawn" ELSE "idle"
        /\ w.table = draw[d].table /\ w.loot = <<>> /\ DOMAIN w = DrawFields
    BY <1>1, <1>2, <2>1 DEF Lt!Found, DrawFields
  <2>3. QED
    BY <1>1, <2>1, <2>2 DEF Drawing
<1>3. CASE Lt!WithId(id) # {}
  <2>1. PICK t : t = (CHOOSE u \in Lt!WithId(id) : TRUE)
    OBVIOUS
  <2>2. t \in Tables
    BY <1>3, <2>1 DEF Lt!WithId, DrawsIInv, OneEach
  <2>3. PICK w : w = Lt!Found(d, id)
    OBVIOUS
  <2>4. w.at = "found" /\ w.table = t /\ w.loot = <<>> /\ DOMAIN w = DrawFields
    BY <1>1, <1>3, <2>1, <2>3 DEF Lt!Found, DrawFields
  <2>5. QED
    BY <2>2, <2>3, <2>4 DEF Drawing
<1>4. QED
  BY <1>2, <1>3

LEMMA DrawsStart == Lt!LootTablesInit => DrawsIInv
<1>. SUFFICES ASSUME Lt!LootTablesInit PROVE DrawsIInv
  OBVIOUS
<1>1. OneEach(lootTables) /\ OneEach(lootFile) /\ asked = {}
  BY DEF Lt!LootTablesInit, OneEach
<1>2. Lt!Idle.at = "idle" /\ Lt!Idle.loot = <<>>
  BY DEF Lt!Idle
<1>3. \A d \in Drawers : draw[d] = Lt!Idle
  BY DEF Lt!LootTablesInit
<1>4. QED
  BY <1>1, <1>2, <1>3 DEF DrawsIInv, Drawing

LEMMA DrawsStep ==
  ASSUME LootIInv, DrawsIInv, [Lt!LootTablesNext]_(Lt!lootVars)
  PROVE  DrawsIInv'
<1>1. CASE UNCHANGED Lt!lootVars
  BY <1>1, TablesMove DEF Lt!lootVars, DrawsIInv
<1>2. ASSUME NEW t \in Tables, Lt!RegisterTable(t) PROVE DrawsIInv'
  <2>1. t.tableId \in Lt!LootIds(Tables)
    BY DEF Lt!LootIds
  <2>2. QED
    BY <1>2, <2>1, TablesMove, RegisteredOnce DEF Lt!RegisterTable, DrawsIInv
<1>3. CASE Lt!LoadLootTables
  <2>1. OneEach(lootTables')
    BY <1>3 DEF Lt!LoadLootTables, DrawsIInv, OneEach, Lt!LootIds
  <2>2. asked' \subseteq Lt!LootIds(Tables)
    BY <1>3 DEF Lt!LoadLootTables, DrawsIInv, OneEach, Lt!LootIds
  <2>3. QED
    BY <1>3, <2>1, <2>2, TablesMove DEF Lt!LoadLootTables, DrawsIInv
<1>4. CASE Lt!SaveLootTables
  BY <1>4, TablesMove DEF Lt!SaveLootTables, DrawsIInv
<1>5. CASE Lt!ClearAllTables
  <2>1. /\ draw' = Lt!Freed(draw, {}) /\ lootTables' = {} /\ lootFile' = lootFile
        /\ asked' = asked
    BY <1>5 DEF Lt!ClearAllTables
  <2>2. \A d \in Drawers : Drawing(draw'[d])
    BY <2>1, FreedDraws
  <2>3. \A e \in Drawers : Drawing(draw[e])'
    BY <2>2 DEF Drawing, Deserves, Meets, Lt!PlayerMeetsRequirements
  <2>4. QED
    BY <2>1, <2>3 DEF DrawsIInv, OneEach, Lt!LootIds
<1>6. ASSUME NEW d \in Drawers, NEW id, NEW level, NEW rep, Lt!GenerateLoot(d, id, level, rep)
      PROVE  DrawsIInv'
  <2>1. PICK f : f = Lt!Found(d, id)
    OBVIOUS
  <2>2. Drawing(f) /\ f.loot = <<>> /\ DOMAIN f = DrawFields
    BY <1>6, <2>1, FoundDraws DEF Lt!GenerateLoot
  <2>3. PICK new : new = [f EXCEPT !.temporary = FALSE, !.level = level, !.rep = rep]
    OBVIOUS
  <2>4. new.at = f.at /\ new.table = f.table /\ new.loot = <<>>
    BY <2>2, <2>3 DEF DrawFields
  <2>5. Drawing(new)
    BY <2>2, <2>4 DEF Drawing
  <2>6. draw' = [draw EXCEPT ![d] = new]
    BY <1>6, <2>1, <2>3 DEF Lt!GenerateLoot
  <2>7. QED
    BY <1>6, <2>5, <2>6, DrawsMove DEF Lt!GenerateLoot, DrawsIInv
<1>7. ASSUME NEW d \in Drawers, NEW t \in Tables, NEW level, Lt!GenerateWeightedLoot(d, t, level)
      PROVE  DrawsIInv'
  <2>1. PICK new : new = [at |-> "picked", table |-> t, temporary |-> Lt!WithId(t.tableId) = {},
                          gone |-> FALSE, level |-> level, rep |-> <<>>, loot |-> <<>>]
    OBVIOUS
  <2>2. Drawing(new)
    BY <2>1 DEF Drawing
  <2>3. draw' = [draw EXCEPT ![d] = new]
    BY <1>7, <2>1 DEF Lt!GenerateWeightedLoot
  <2>4. QED
    BY <1>7, <2>2, <2>3, DrawsMove DEF Lt!GenerateWeightedLoot, DrawsIInv
<1>8. ASSUME NEW d \in Drawers, Lt!Draw(d) PROVE DrawsIInv'
  <2>1. /\ DOMAIN draw[d] = DrawFields /\ DOMAIN draw = Drawers /\ Drawing(draw[d])
        /\ draw[d].gone \in BOOLEAN
    BY DEF LootIInv, DrawShape, DrawsIInv
  <2>. DEFINE table == IF draw[d].gone THEN draw[d].table
                       ELSE CHOOSE u \in Lt!WithId(draw[d].table.tableId) : TRUE
  <2>0. PICK items \in Lt!LootOf(table, draw[d].level, draw[d].rep)
                           \cup IF draw[d].gone THEN {<<>>} ELSE {} :
            draw' = [draw EXCEPT ![d].at = IF draw[d].temporary THEN "drawn" ELSE "idle",
                                 ![d].table = table, ![d].loot = items]
    BY <1>8 DEF Lt!Draw
  <2>3. draw[d].at = "found"
    BY <1>8 DEF Lt!Draw
  <2>4. table \in Tables
    <3>1. CASE draw[d].gone = TRUE
      BY <2>1, <2>3, <3>1 DEF Drawing
    <3>2. CASE draw[d].gone = FALSE
      <4>1. draw[d].table.tableId \in Lt!LootIds(lootTables)
        BY <2>3, <3>2 DEF LootIInv, Held
      <4>2. Lt!WithId(draw[d].table.tableId) # {}
        BY <4>1, LookUp
      <4>3. table \in Lt!WithId(draw[d].table.tableId)
        BY <3>2, <4>2
      <4>4. QED
        BY <4>3 DEF Lt!WithId, DrawsIInv, OneEach
    <3>3. QED
      BY <2>1, <3>1, <3>2
  <2>5. items = <<>> \/ items \in Lt!LootOf(table, draw[d].level, draw[d].rep)
    BY <2>0
  <2>. HIDE DEF table
  <2>6. items = <<>> \/ Deserves(table, draw[d].level, draw[d].rep, items)
    BY <2>4, <2>5, GivesWhatIsDue
  <2>7. PICK new : new = [draw[d] EXCEPT !.at = IF draw[d].temporary THEN "drawn" ELSE "idle",
                                         !.table = table, !.loot = items]
    OBVIOUS
  <2>8. draw' = [draw EXCEPT ![d] = new]
    BY <2>0, <2>1, <2>7
  <2>9. /\ new.at \in {"drawn", "idle"} /\ new.table = table /\ new.loot = items
        /\ new.level = draw[d].level /\ new.rep = draw[d].rep
    BY <2>1, <2>7 DEF DrawFields
  <2>10. Drawing(new)
    BY <2>4, <2>6, <2>9 DEF Drawing
  <2>11. QED
    BY <1>8, <2>8, <2>10, DrawsMove DEF Lt!Draw, DrawsIInv
<1>9. ASSUME NEW d \in Drawers, Lt!RegisterPicked(d) PROVE DrawsIInv'
  <2>1. DOMAIN draw[d] = DrawFields /\ DOMAIN draw = Drawers /\ Drawing(draw[d])
    BY DEF LootIInv, DrawShape, DrawsIInv
  <2>2. draw[d].table \in Tables
    BY <1>9, <2>1 DEF Lt!RegisterPicked, Drawing
  <2>3. OneEach(lootTables')
    BY <1>9, <2>2, RegisteredOnce DEF Lt!RegisterPicked, DrawsIInv
  <2>4. PICK new : new = [draw[d] EXCEPT !.at = "registered"]
    OBVIOUS
  <2>5. /\ new.at = "registered" /\ new.table = draw[d].table /\ new.loot = draw[d].loot
        /\ new.level = draw[d].level /\ new.rep = draw[d].rep
    BY <2>1, <2>4 DEF DrawFields
  <2>6. Drawing(new)
    BY <2>1, <2>2, <2>5 DEF Drawing
  <2>7. draw' = [draw EXCEPT ![d] = new]
    BY <1>9, <2>1, <2>4 DEF Lt!RegisterPicked
  <2>8. QED
    BY <1>9, <2>3, <2>6, <2>7, DrawsMove DEF Lt!RegisterPicked
<1>10. ASSUME NEW d \in Drawers, Lt!FindPicked(d) PROVE DrawsIInv'
  <2>1. PICK new : new = Lt!Found(d, draw[d].table.tableId)
    OBVIOUS
  <2>2. Drawing(new)
    BY <1>10, <2>1, FoundDraws DEF Lt!FindPicked
  <2>3. draw' = [draw EXCEPT ![d] = new]
    BY <1>10, <2>1 DEF Lt!FindPicked
  <2>4. QED
    BY <1>10, <2>2, <2>3, DrawsMove DEF Lt!FindPicked, DrawsIInv
<1>11. ASSUME NEW d \in Drawers, Lt!UnregisterPicked(d) PROVE DrawsIInv'
  <2>1. PICK rest : rest = lootTables \ Lt!WithId(draw[d].table.tableId)
    OBVIOUS
  <2>2. /\ lootTables' = rest /\ lootFile' = lootFile /\ asked' = asked
        /\ draw' = [Lt!Freed(draw, rest) EXCEPT ![d].at = "idle"]
    BY <1>11, <2>1 DEF Lt!UnregisterPicked
  <2>3. DOMAIN Lt!Freed(draw, rest) = Drawers
    BY DEF Lt!Freed
  <2>4. PICK g : g = Lt!Freed(draw, rest)
    OBVIOUS
  <2>5. \A e \in Drawers : draw'[e] = IF e = d THEN [g[d] EXCEPT !.at = "idle"] ELSE g[e]
    BY <2>2, <2>3, <2>4
  <2>6. \A e \in Drawers : Drawing(draw'[e])
    BY <2>4, <2>5, FreedDraws, ZenonT(30)
  <2>7. \A e \in Drawers : Drawing(draw[e])'
    BY <2>6 DEF Drawing, Deserves, Meets, Lt!PlayerMeetsRequirements
  <2>8. QED
    BY <2>1, <2>2, <2>7 DEF DrawsIInv, OneEach, Lt!LootIds
<1>12. QED
  BY <1>1, <1>2, <1>3, <1>4, <1>5, <1>6, <1>7, <1>8, <1>9, <1>10, <1>11 DEF Lt!LootTablesNext

(* Whoever draws gets what the table grants him and no more than that, and *)
(* no table stays that was made for a draw, for any tables, whatever is    *)
(* registered, loaded or cleared while threads draw (LootTableManager).    *)
THEOREM LootIsDue == Spec => [](focus = "loot" => Lt!LootInv)
<1>1. Init => LootIInv /\ DrawsIInv
  BY LootInit, DrawsStart DEF Init
<1>2. LootIInv /\ DrawsIInv /\ [Next]_vars => (LootIInv /\ DrawsIInv)'
  <2>1. [Next]_vars => [Lt!LootTablesNext]_(Lt!lootVars)
    BY DEF Next, vars, lootTablesVars, Lt!lootVars
  <2>2. QED
    BY <2>1, LootStep, DrawsStep
<1>3. QED
  BY <1>1, <1>2, DrawsFollow, PTL DEF Spec

-----------------------------------------------------------------------------
(* Sums, and what is left as a quantity goes into places one by one.       *)
SumsUp(sum, n, q) == sum[0] = 0 /\ \A k \in 1..n : sum[k] = sum[k - 1] + q[k]

(* A sum is what its steps add up to.                                      *)
LEMMA SumSteps ==
  ASSUME NEW n \in Nat, NEW q \in [1..n -> Int]
  PROVE  \E sum \in [0..n -> Int] : SumsUp(sum, n, q) /\ SumOf(q) = sum[n]
<1> DEFINE step == [x \in (1..n) \X Int |-> x[2] + q[x[1]]]
           Is(f) == f = [k \in 0..n |-> IF k = 0 THEN 0 ELSE f[k - 1] + q[k]]
           sum == CHOOSE f : Is(f)
<1>1. Len(q) = n
  BY AsSequence
<1>2. SumOf(q) = sum[n]
  BY <1>1 DEF SumOf
<1>3. \A k \in 1..n, v \in Int : step[<<k, v>>] = v + q[k] /\ v + q[k] \in Int
  OBVIOUS
<1> HIDE DEF step
<1>4. StaysIn(n, Int, step)
  BY <1>3, Zenon DEF StaysIn
<1>5. PICK f \in [0..n -> Int] : Follows(f, n, 0, step)
  <2>1. 0 \in Int
    OBVIOUS
  <2>2. QED
    BY <1>4, <2>1, Stepwise, Zenon
<1>6. \A k \in 1..n : k - 1 \in 0..n /\ f[k - 1] \in Int
  BY <1>5
<1>7. f[0] = 0 /\ \A k \in 1..n : f[k] = f[k - 1] + q[k]
  <2>1. f[0] = 0 /\ \A k \in 1..n : f[k] = step[<<k, f[k - 1]>>]
    BY <1>5 DEF Follows
  <2>2. QED
    BY <1>3, <1>6, <2>1, Zenon
<1>8. Is(f)
  <2>1. f = [k \in 0..n |-> f[k]]
    BY <1>5
  <2>2. \A k \in 0..n : k = 0 \/ k \in 1..n
    OBVIOUS
  <2>3. QED
    BY <1>7, <2>1, <2>2
<1>9. Is(sum)
  BY <1>8
<1>10. \A k \in 0..n : sum[k] = IF k = 0 THEN 0 ELSE sum[k - 1] + q[k]
  BY <1>9
<1>11. DOMAIN sum = 0..n
  BY <1>9
<1>12. sum = [k \in 0..n |-> sum[k]]
  BY <1>9
<1> HIDE DEF sum
<1>13. \A k \in 1..n : k \in 0..n /\ k # 0
  OBVIOUS
<1>14. SumsUp(sum, n, q)
  BY <1>10, <1>13 DEF SumsUp
<1> DEFINE T == {k \in Nat : k <= n => sum[k] \in Int}
<1>15. 0 \in T
  BY <1>10
<1>16. ASSUME NEW k \in Nat, k \in T PROVE k + 1 \in T
  <2>1. SUFFICES ASSUME k + 1 <= n PROVE sum[k + 1] \in Int
    OBVIOUS
  <2>2. k + 1 \in 1..n /\ k + 1 - 1 = k /\ sum[k] \in Int
    BY <1>16, <2>1
  <2>3. sum[k + 1] = sum[k] + q[k + 1] /\ q[k + 1] \in Int
    BY <1>14, <2>2 DEF SumsUp
  <2>4. QED
    BY <2>2, <2>3
<1> HIDE DEF T
<1>17. Nat \subseteq T
  BY <1>15, <1>16, EveryNatural
<1>18. sum \in [0..n -> Int]
  BY <1>12, <1>17 DEF T
<1>19. QED
  BY <1>2, <1>14, <1>18
-----------------------------------------------------------------------------
(* A quantity that goes into places one by one, into each what it has room *)
(* for, is what is left at the end: what all the room does not hold.       *)
Pours(left, n, q, room) ==
    left[0] = q /\ \A k \in 1..n : left[k] = left[k - 1] - Least(left[k - 1], room[k])

LEMMA Poured ==
  ASSUME NEW n \in Nat, NEW q \in Nat, NEW room \in [1..n -> Int]
  PROVE  \E left \in [0..n -> Nat] : Pours(left, n, q, room)
<1> DEFINE step == [x \in (1..n) \X Nat |-> x[2] - Least(x[2], room[x[1]])]
<1>1. \A k \in 1..n, v \in Nat : step[<<k, v>>] = v - Least(v, room[k])
  OBVIOUS
<1>2. \A k \in 1..n, v \in Nat : v - Least(v, room[k]) \in Nat
  <2>1. TAKE k \in 1..n, v \in Nat
  <2>2. room[k] \in Int
    OBVIOUS
  <2>3. QED
    BY <2>2 DEF Least
<1> HIDE DEF step
<1>3. StaysIn(n, Nat, step)
  BY <1>1, <1>2, Zenon DEF StaysIn
<1>4. PICK f \in [0..n -> Nat] : Follows(f, n, q, step)
  BY <1>3, Stepwise, Zenon
<1>5. \A k \in 1..n : k - 1 \in 0..n /\ f[k - 1] \in Nat
  BY <1>4
<1>6. f[0] = q /\ \A k \in 1..n : f[k] = step[<<k, f[k - 1]>>]
  BY <1>4 DEF Follows
<1>7. \A k \in 1..n : f[k] = f[k - 1] - Least(f[k - 1], room[k])
  BY <1>1, <1>5, <1>6, Zenon
<1>8. Pours(f, n, q, room)
  BY <1>6, <1>7, Zenon DEF Pours
<1>9. QED
  BY <1>8

(* Two functions that pour alike are the same.                             *)
LEMMA PouredOnce ==
  ASSUME NEW n \in Nat, NEW q, NEW room, NEW f, NEW g,
         f = [k \in 0..n |-> f[k]], g = [k \in 0..n |-> g[k]],
         Pours(f, n, q, room), Pours(g, n, q, room)
  PROVE  f = g
<1> DEFINE T == {k \in Nat : k <= n => f[k] = g[k]}
<1>1. 0 \in T
  BY DEF Pours
<1>2. ASSUME NEW k \in Nat, k \in T PROVE k + 1 \in T
  <2>1. SUFFICES ASSUME k + 1 <= n PROVE f[k + 1] = g[k + 1]
    OBVIOUS
  <2>2. f[k] = g[k]
    BY <1>2, <2>1
  <2>3. PICK j \in 1..n : j = k + 1 /\ j - 1 = k
    BY <2>1
  <2>4. /\ f[j] = f[j - 1] - Least(f[j - 1], room[j])
        /\ g[j] = g[j - 1] - Least(g[j - 1], room[j])
    BY Zenon DEF Pours
  <2>5. f[j] = g[j]
    BY <2>2, <2>3, <2>4
  <2>6. QED
    BY <2>3, <2>5
<1> HIDE DEF T
<1>3. Nat \subseteq T
  BY <1>1, <1>2, EveryNatural
<1>4. \A k \in 0..n : f[k] = g[k]
  BY <1>3 DEF T
<1>5. QED
  BY <1>4

LEMMA PouredLeft ==
  ASSUME NEW n \in Nat, NEW q \in Nat, NEW room \in [1..n -> Nat],
         NEW left \in [0..n -> Nat], Pours(left, n, q, room)
  PROVE  left[n] = IF q <= SumOf(room) THEN 0 ELSE q - SumOf(room)
<1>1. room \in [1..n -> Int]
  OBVIOUS
<1>2. PICK sum \in [0..n -> Int] : SumsUp(sum, n, room) /\ SumOf(room) = sum[n]
  BY <1>1, SumSteps
<1> DEFINE T == {k \in Nat : k <= n => /\ left[k] = IF q <= sum[k] THEN 0 ELSE q - sum[k]
                                      /\ sum[k] >= 0}
<1>3. 0 \in T
  BY <1>2 DEF SumsUp, Pours
<1>4. ASSUME NEW k \in Nat, k \in T PROVE k + 1 \in T
  <2>1. SUFFICES ASSUME k + 1 <= n
                 PROVE  /\ left[k + 1] = IF q <= sum[k + 1] THEN 0 ELSE q - sum[k + 1]
                        /\ sum[k + 1] >= 0
    OBVIOUS
  <2>2. k + 1 \in 1..n /\ k + 1 - 1 = k /\ k \in 0..n
    BY <2>1
  <2>3. /\ left[k + 1] = left[k] - Least(left[k], room[k + 1])
        /\ sum[k + 1] = sum[k] + room[k + 1]
    BY <1>2, <2>2 DEF SumsUp, Pours
  <2>4. left[k] = (IF q <= sum[k] THEN 0 ELSE q - sum[k]) /\ sum[k] >= 0
    BY <1>4, <2>1
  <2>5. PICK r \in Nat, s \in Int, l \in Nat : r = room[k + 1] /\ s = sum[k] /\ l = left[k]
    BY <1>2, <2>2
  <2>6. left[k + 1] = l - Least(l, r) /\ sum[k + 1] = s + r
    BY <2>3, <2>5
  <2>7. l = (IF q <= s THEN 0 ELSE q - s) /\ s >= 0
    BY <2>4, <2>5
  <2>8. l - Least(l, r) = (IF q <= s + r THEN 0 ELSE q - (s + r)) /\ s + r >= 0
    BY <2>7 DEF Least
  <2>9. QED
    BY <2>6, <2>8
<1> HIDE DEF T
<1>5. Nat \subseteq T
  BY <1>3, <1>4, EveryNatural
<1>6. QED
  BY <1>2, <1>5 DEF T
-----------------------------------------------------------------------------
(* An inventory as it should be: slots in order, with no more in any of    *)
(* them or on the body than a full stack, and gold within its limits.      *)
InventorySlot == [item : Items \cup {"none"}, quantity : Int, position : Nat]
NoOverflow(s) == s.item \in Items => s.quantity <= Stack[s.item]
InOrder(slots) ==
    /\ slots \in Seq(InventorySlot) /\ Len(slots) <= maxInventorySize
    /\ \A k \in 1..Len(slots) : slots[k].position = k - 1 /\ NoOverflow(slots[k])
Intact(i) ==
    /\ i \in [slots : Seq(InventorySlot), gear : [Gear -> InventorySlot], gold : 0..MaxGold]
    /\ InOrder(i.slots)
    /\ \A g \in Gear : NoOverflow(i.gear[g])

(* Slots in order stay in order, whatever is put into them.                *)
LEMMA RoomIs ==
  ASSUME NEW s \in InventorySlot, NEW i \in Items
  PROVE  /\ Room(s, i) \in Nat
         /\ Room(s, i) # 0 => s.item = i /\ s.quantity + Room(s, i) = Stack[i]
<1>1. Stack[i] \in Nat /\ s.quantity \in Int
  BY InventoryAssumption DEF InventorySlot
<1>2. QED
  BY <1>1 DEF Room, Stacked

Spare(slots, i) == SumOf([k \in DOMAIN slots |-> Room(slots[k], i)])

LEMMA SlotChanged ==
  ASSUME NEW s \in InventorySlot, NEW n \in Int
  PROVE  /\ [s EXCEPT !.quantity = n] \in InventorySlot
         /\ [s EXCEPT !.quantity = n].quantity = n
         /\ [s EXCEPT !.quantity = n].position = s.position
         /\ [s EXCEPT !.quantity = n].item = s.item
BY DEF InventorySlot

(* A sequence of slots with as many in the same order.                     *)
LEMMA InOrderAgain ==
  ASSUME NEW n \in Nat, n <= maxInventorySize,
         NEW new \in [1..n -> InventorySlot],
         \A k \in 1..n : new[k].position = k - 1 /\ NoOverflow(new[k])
  PROVE  InOrder(new) /\ Len(new) = n
<1>1. new \in Seq(InventorySlot) /\ Len(new) = n
  BY AsSequence
<1>2. QED
  BY <1>1 DEF InOrder

LEMMA Slotted ==
  ASSUME NEW slots, InOrder(slots)
  PROVE  /\ Len(slots) \in Nat /\ Len(slots) <= maxInventorySize
         /\ DOMAIN slots = 1..Len(slots)
         /\ slots \in [1..Len(slots) -> InventorySlot]
         /\ \A k \in 1..Len(slots) : /\ slots[k] \in InventorySlot
                                     /\ slots[k].position = k - 1 /\ NoOverflow(slots[k])
BY DEF InOrder

Filled(left, n, slots, i, q) ==
    /\ Pours(left, n, q, [k \in 1..n |-> Room(slots[k], i)])
    /\ Fill(slots, i, q).left = left[n]
    /\ Fill(slots, i, q).slots =
          [k \in 1..n |-> [slots[k] EXCEPT !.quantity =
              slots[k].quantity + Least(left[k - 1], Room(slots[k], i))]]

LEMMA FillIs ==
  ASSUME NEW slots, InOrder(slots), NEW i \in Items, NEW q \in Nat
  PROVE  \E left \in [0..Len(slots) -> Nat] : Filled(left, Len(slots), slots, i, q)
<1> DEFINE n == Len(slots)
           room == [k \in 1..n |-> Room(slots[k], i)]
           Is(f) == f = [k \in 0..n |-> IF k = 0 THEN q ELSE
                            f[k - 1] - Least(f[k - 1], Room(slots[k], i))]
           left == CHOOSE f : Is(f)
<1>1. n \in Nat /\ DOMAIN slots = 1..n /\ \A k \in 1..n : slots[k] \in InventorySlot
  BY Slotted
<1>2. /\ Fill(slots, i, q).left = left[n]
      /\ Fill(slots, i, q).slots =
            [k \in DOMAIN slots |-> [slots[k] EXCEPT !.quantity =
                slots[k].quantity + Least(left[k - 1], Room(slots[k], i))]]
  BY DEF Fill
<1> HIDE DEF n
<1>3. room \in [1..n -> Int] /\ \A k \in 1..n : room[k] = Room(slots[k], i)
  BY <1>1, RoomIs
<1> HIDE DEF room
<1>4. PICK f \in [0..n -> Nat] : Pours(f, n, q, room)
  BY <1>1, <1>3, Poured
<1>5. Is(f)
  <2>1. f = [k \in 0..n |-> f[k]]
    OBVIOUS
  <2>2. \A k \in 0..n : k = 0 \/ k \in 1..n
    BY <1>1
  <2>3. QED
    BY <1>3, <1>4, <2>1, <2>2 DEF Pours
<1>6. Is(left)
  BY <1>5
<1>7. left = [k \in 0..n |-> left[k]] /\ Pours(left, n, q, room)
  <2>1. \A k \in 0..n : left[k] = IF k = 0 THEN q ELSE
                           left[k - 1] - Least(left[k - 1], Room(slots[k], i))
    BY <1>6
  <2>2. 0 \in 0..n /\ \A k \in 1..n : k \in 0..n /\ k # 0
    BY <1>1
  <2>3. left = [k \in 0..n |-> left[k]]
    BY <1>6
  <2> HIDE DEF left
  <2>4. QED
    BY <1>3, <2>1, <2>2, <2>3 DEF Pours
<1> HIDE DEF left, Is
<1>8. left = f
  <2>1. f = [k \in 0..n |-> f[k]]
    BY <1>4
  <2>2. QED
    BY <1>1, <1>4, <1>7, <2>1, PouredOnce
<1>9. QED
  BY <1>1, <1>2, <1>4, <1>8 DEF n, room, Filled

LEMMA FillKeeps ==
  ASSUME NEW slots, InOrder(slots), NEW i \in Items, NEW q \in Nat
  PROVE  /\ InOrder(Fill(slots, i, q).slots)
         /\ Len(Fill(slots, i, q).slots) = Len(slots)
         /\ \A k \in 1..Len(slots) : Fill(slots, i, q).slots[k].item = slots[k].item
         /\ Fill(slots, i, q).left \in Nat
         /\ Fill(slots, i, q).left =
               IF q <= Spare(slots, i) THEN 0 ELSE q - Spare(slots, i)
<1>1. Len(slots) \in Nat
  BY Slotted
<1>2. PICK left \in [0..Len(slots) -> Nat] : Filled(left, Len(slots), slots, i, q)
  BY FillIs, Zenon
<1> DEFINE n == Len(slots)
           room == [k \in 1..n |-> Room(slots[k], i)]
<1>3. /\ n \in Nat /\ n = Len(slots) /\ n <= maxInventorySize /\ DOMAIN slots = 1..n
      /\ \A k \in 1..n : slots[k] \in InventorySlot /\ slots[k].position = k - 1
                         /\ NoOverflow(slots[k])
  BY <1>1, Slotted
<1>4. /\ left \in [0..n -> Nat] /\ Pours(left, n, q, room)
      /\ Fill(slots, i, q).left = left[n]
      /\ Fill(slots, i, q).slots =
            [k \in 1..n |-> [slots[k] EXCEPT !.quantity =
                slots[k].quantity + Least(left[k - 1], Room(slots[k], i))]]
  BY <1>2 DEF Filled
<1> HIDE DEF n
<1>5. room \in [1..n -> Nat] /\ Spare(slots, i) = SumOf(room)
  BY <1>3, RoomIs DEF Spare
<1> HIDE DEF room
<1>6. left[n] = IF q <= SumOf(room) THEN 0 ELSE q - SumOf(room)
  BY <1>3, <1>4, <1>5, PouredLeft
<1>7. left[n] \in Nat
  BY <1>3, <1>4
<1> DEFINE new(k) == [slots[k] EXCEPT !.quantity =
                         slots[k].quantity + Least(left[k - 1], Room(slots[k], i))]
<1>8. ASSUME NEW k \in 1..n
      PROVE  /\ new(k) \in InventorySlot /\ new(k).position = k - 1 /\ NoOverflow(new(k))
             /\ new(k).item = slots[k].item
  <2>1. PICK s \in InventorySlot : s = slots[k] /\ s.position = k - 1 /\ NoOverflow(s)
    BY <1>3
  <2>2. PICK r \in Nat : r = Room(s, i) /\ (r # 0 => s.item = i /\ s.quantity + r = Stack[i])
    BY RoomIs
  <2>3. PICK l \in Nat : l = left[k - 1]
    BY <1>3, <1>4
  <2>4. PICK m \in Int : m = s.quantity + Least(l, r)
    BY <2>2, <2>3 DEF InventorySlot, Least
  <2>5. new(k) = [s EXCEPT !.quantity = m]
    BY <2>1, <2>2, <2>3, <2>4
  <2> HIDE DEF new
  <2>6. /\ new(k) \in InventorySlot /\ new(k).quantity = m
        /\ new(k).position = s.position /\ new(k).item = s.item
    BY <2>5, SlotChanged
  <2>7. s.quantity \in Int
    BY DEF InventorySlot
  <2>8. m = s.quantity \/ (s.item = i /\ m <= Stack[i])
    <3>1. CASE r = 0
      BY <2>3, <2>4, <2>7, <3>1 DEF Least
    <3>2. CASE r # 0
      <4>1. s.item = i /\ s.quantity + r = Stack[i] /\ Least(l, r) <= r
        BY <2>2, <3>2 DEF Least
      <4>2. Least(l, r) \in Nat
        BY DEF Least
      <4>3. QED
        BY <2>4, <2>7, <4>1, <4>2
    <3>3. QED
      BY <3>1, <3>2
  <2>9. NoOverflow(new(k))
    BY <2>1, <2>6, <2>8 DEF NoOverflow
  <2>10. QED
    BY <2>1, <2>6, <2>9
<1>9. Fill(slots, i, q).slots = [k \in 1..n |-> new(k)]
  BY <1>4
<1> HIDE DEF new
<1>10. PICK f : f = [k \in 1..n |-> new(k)]
  OBVIOUS
<1>11. f \in [1..n -> InventorySlot]
       /\ \A k \in 1..n : f[k].position = k - 1 /\ NoOverflow(f[k]) /\ f[k].item = slots[k].item
  BY <1>8, <1>10
<1>12. InOrder(f) /\ Len(f) = n
  BY <1>3, <1>11, InOrderAgain
<1>13. QED
  BY <1>3, <1>4, <1>5, <1>6, <1>7, <1>9, <1>10, <1>11, <1>12

(* Whole stacks and what remains of a quantity.                            *)
LEMMA WholeStacks ==
  ASSUME NEW q \in Nat, NEW c \in Nat \ {0}
  PROVE  /\ q \div c \in Nat /\ q % c \in 0..c - 1 /\ q = c * (q \div c) + (q % c)
<1>1. q \div c \in Nat /\ q % c \in 0..c - 1
  OBVIOUS
<1>2. q = c * (q \div c) + (q % c)
  OBVIOUS
<1>3. QED
  BY <1>1, <1>2

(* As many slots as a quantity needs, counted in two ways.                 *)
Needed(q, c) == (q \div c) + IF q % c = 0 THEN 0 ELSE 1

LEMMA GreaterProduct ==
  ASSUME NEW p \in Int, NEW q \in Int, NEW c \in Nat \ {0}, p + 1 <= q
  PROVE  c * p + c <= c * q
<1>1. c * (q - p) >= c
  BY SMT
<1>2. c * (q - p) = c * q - c * p
  BY SMT
<1>3. QED
  BY <1>1, <1>2, SMT

LEMMA NeededIs ==
  ASSUME NEW q \in Nat, NEW c \in Nat \ {0}
  PROVE  /\ Needed(q, c) \in Nat
         /\ q <= c * Needed(q, c)
         /\ \A m \in Int : m < Needed(q, c) => c * m < q
         /\ q > 0 => Needed(q, c) = (q + c - 1) \div c
<1>1. PICK d \in Nat, r \in 0..c - 1 : d = q \div c /\ r = q % c /\ q = c * d + r
  BY WholeStacks
<1>2. PICK e \in Nat : e = Needed(q, c) /\ e = d + IF r = 0 THEN 0 ELSE 1
  BY <1>1 DEF Needed
<1>3. PICK p \in Int : p = c * d
  OBVIOUS
<1>4. c * (d + 1) = p + c
  BY <1>3
<1>5. q <= c * e
  BY <1>1, <1>2, <1>3, <1>4
<1>6. ASSUME NEW m \in Int, m < e PROVE c * m < q
  <2>1. CASE r = 0
    <3>1. c * m + c <= c * d
      BY <1>2, <1>6, <2>1, GreaterProduct
    <3>2. c * m \in Int
      OBVIOUS
    <3>3. QED
      BY <1>1, <1>3, <2>1, <3>1, <3>2
  <2>2. CASE r # 0 /\ m = d
    BY <1>1, <1>3, <2>2
  <2>3. CASE r # 0 /\ m # d
    <3>1. m + 1 <= d
      BY <1>2, <1>6, <2>3
    <3>2. c * m + c <= c * d
      BY <3>1, GreaterProduct
    <3>3. c * m \in Int
      OBVIOUS
    <3>4. QED
      BY <1>1, <1>3, <2>3, <3>2, <3>3
  <2>4. QED
    BY <2>1, <2>2, <2>3
<1>7. ASSUME q > 0 PROVE e = (q + c - 1) \div c
  <2>1. q + c - 1 \in Nat
    BY <1>7
  <2>2. PICK g \in Nat, h \in 0..c - 1 : g = (q + c - 1) \div c /\ q + c - 1 = c * g + h
    BY <2>1, WholeStacks
  <2>3. PICK y \in Int : y = c * g
    OBVIOUS
  <2>4. PICK z \in Int : z = c * e
    OBVIOUS
  <2>5. z < q + c /\ q <= z
    BY <1>1, <1>2, <1>3, <1>4, <1>5, <2>4
  <2>6. ASSUME e + 1 <= g PROVE FALSE
    <3>1. z + c <= y
      BY <2>3, <2>4, <2>6, GreaterProduct
    <3>2. QED
      BY <2>2, <2>3, <2>5, <3>1
  <2>7. ASSUME g + 1 <= e PROVE FALSE
    <3>1. y + c <= z
      BY <2>3, <2>4, <2>7, GreaterProduct
    <3>2. QED
      BY <2>2, <2>3, <2>5, <3>1
  <2>8. QED
    BY <2>2, <2>6, <2>7
<1>8. QED
  BY <1>2, <1>5, <1>6, <1>7

LEMMA SlotMade ==
  ASSUME NEW i \in Items, NEW n \in Int, NEW k \in Nat
  PROVE  LET s == [item |-> i, quantity |-> n, position |-> k] IN
         s \in InventorySlot /\ s.item = i /\ s.quantity = n /\ s.position = k
BY DEF InventorySlot

Joins(all, S, s, t) ==
    /\ all \in Seq(S) /\ Len(all) = Len(s) + Len(t)
    /\ \A k \in 1..Len(s) : all[k] = s[k]
    /\ \A k \in 1..Len(t) : all[Len(s) + k] = t[k]

LEMMA Joined ==
  ASSUME NEW S, NEW s \in Seq(S), NEW t \in Seq(S)
  PROVE  Joins(s \o t, S, s, t)
<1>1. /\ s \o t \in Seq(S) /\ Len(s \o t) = Len(s) + Len(t)
      /\ \A k \in 1..Len(s) + Len(t) :
            (s \o t)[k] = IF k <= Len(s) THEN s[k] ELSE t[k - Len(s)]
  BY ConcatProperties
<1>2. Len(s) \in Nat /\ Len(t) \in Nat
  OBVIOUS
<1>3. \A k \in 1..Len(s) : k \in 1..Len(s) + Len(t) /\ k <= Len(s)
  BY <1>2
<1>4. \A k \in 1..Len(t) : /\ Len(s) + k \in 1..Len(s) + Len(t) /\ ~(Len(s) + k <= Len(s))
                           /\ Len(s) + k - Len(s) = k
  BY <1>2
<1>5. \A k \in 1..Len(s) : (s \o t)[k] = s[k]
  BY <1>1, <1>3
<1>6. \A k \in 1..Len(t) : (s \o t)[Len(s) + k] = t[k]
  BY <1>1, <1>4
<1>7. QED
  BY <1>1, <1>5, <1>6 DEF Joins

LEMMA NewSlotsKeep ==
  ASSUME NEW slots, InOrder(slots), NEW i \in Items, NEW q \in Nat
  PROVE  /\ InOrder(NewSlots(slots, i, q).slots)
         /\ Len(NewSlots(slots, i, q).slots) >= Len(slots)
         /\ \A k \in 1..Len(slots) : NewSlots(slots, i, q).slots[k] = slots[k]
         /\ NewSlots(slots, i, q).left = 0
               <=> Needed(q, Stack[i]) <= maxInventorySize - Len(slots)
<1> DEFINE c == Stack[i]
           full == q \div c
           free == maxInventorySize - Len(slots)
           needed == Needed(q, c)
           n == Least(free, needed)
           size(k) == IF k <= full THEN c ELSE q % c
           new == [k \in 1..n |-> [item |-> i, quantity |-> size(k),
                                   position |-> Len(slots) + k - 1]]
<1>1. /\ NewSlots(slots, i, q).slots = slots \o new
      /\ NewSlots(slots, i, q).left = IF n = needed THEN 0 ELSE q - n * c
  BY DEF NewSlots, Needed
<1>2. /\ Len(slots) \in Nat /\ slots \in Seq(InventorySlot) /\ Len(slots) <= maxInventorySize
      /\ \A k \in 1..Len(slots) : slots[k].position = k - 1 /\ NoOverflow(slots[k])
  BY DEF InOrder
<1>3. c \in Nat \ {0} /\ free \in Nat
  BY <1>2, InventoryAssumption
<1>4. full \in Nat /\ q % c \in 0..c - 1
  BY <1>3, WholeStacks
<1>5. /\ needed \in Nat /\ q <= c * needed
      /\ \A m \in Int : m < needed => c * m < q
  BY <1>3, NeededIs
<1> HIDE DEF c, full, needed
<1>6. n \in Nat /\ n <= free
  BY <1>3, <1>5 DEF Least
<1>7. NewSlots(slots, i, q).left = 0 <=> needed <= free
  <2>1. CASE needed <= free
    BY <1>1, <1>3, <1>5, <2>1 DEF Least
  <2>2. CASE ~(needed <= free)
    <3>1. n = free /\ n # needed /\ free < needed
      BY <1>3, <1>5, <2>2 DEF Least
    <3>2. c * free < q
      <4>1. free \in Int
        BY <1>3
      <4>2. QED
        BY <1>5, <3>1, <4>1, Zenon
    <3>3. free * c = c * free /\ c * free \in Int
      BY <1>3
    <3>4. NewSlots(slots, i, q).left = q - c * free
      BY <1>1, <3>1, <3>3
    <3>5. QED
      BY <2>2, <3>2, <3>3, <3>4
  <2>3. QED
    BY <2>1, <2>2
<1> HIDE DEF n
<1>8. ASSUME NEW k \in 1..n
      PROVE  /\ new[k] \in InventorySlot /\ new[k].position = Len(slots) + k - 1
             /\ NoOverflow(new[k])
  <2>1. PICK p \in Nat : p = Len(slots) + k - 1
    <3>1. Len(slots) \in Nat /\ k \in Nat /\ k >= 1
      BY <1>2, <1>6
    <3>2. Len(slots) + k - 1 \in Nat
      BY <3>1
    <3>3. QED
      BY <3>2
  <2>2. PICK m \in Int : m = size(k) /\ m <= c
    BY <1>3, <1>4
  <2>3. new[k] = [item |-> i, quantity |-> m, position |-> p]
    BY <2>1, <2>2
  <2> HIDE DEF new
  <2>4. new[k] \in InventorySlot /\ new[k].item = i /\ new[k].quantity = m /\ new[k].position = p
    BY <2>3, SlotMade
  <2>5. QED
    BY <2>1, <2>2, <2>4 DEF NoOverflow, c
<1>9. DOMAIN new = 1..n
  OBVIOUS
<1>10. new = [k \in 1..n |-> new[k]]
  OBVIOUS
<1> HIDE DEF new
<1>11. new \in [1..n -> InventorySlot]
  BY <1>8, <1>10
<1>12. new \in Seq(InventorySlot) /\ Len(new) = n
  BY <1>6, <1>11, AsSequence
<1> DEFINE all == slots \o new
<1>13. /\ all \in Seq(InventorySlot) /\ Len(all) = Len(slots) + n
       /\ \A k \in 1..Len(slots) : all[k] = slots[k]
       /\ \A k \in 1..n : all[Len(slots) + k] = new[k]
  <2>1. Joins(all, InventorySlot, slots, new)
    BY <1>2, <1>12, Joined
  <2> HIDE DEF all
  <2>2. QED
    BY <1>12, <2>1 DEF Joins
<1> HIDE DEF all
<1>14. ASSUME NEW k \in 1..Len(all) PROVE all[k].position = k - 1 /\ NoOverflow(all[k])
  <2>1. CASE k \in 1..Len(slots)
    BY <1>2, <1>13, <2>1
  <2>2. CASE ~(k \in 1..Len(slots))
    <3>1. PICK j \in 1..n : k = Len(slots) + j
      <4>1. k - Len(slots) \in 1..n /\ k = Len(slots) + (k - Len(slots))
        BY <1>2, <1>6, <1>13, <2>2
      <4>2. QED
        BY <4>1
    <3>2. all[k] = new[j]
      BY <1>13, <3>1
    <3>3. QED
      BY <1>8, <3>1, <3>2
  <2>3. QED
    BY <2>1, <2>2
<1>15. Len(all) <= maxInventorySize /\ Len(all) >= Len(slots)
  BY <1>2, <1>6, <1>13, InventoryAssumption
<1>16. InOrder(all)
  BY <1>13, <1>14, <1>15 DEF InOrder
<1>17. QED
  BY <1>1, <1>7, <1>13, <1>15, <1>16 DEF all, needed, c

LEMMA PutKeeps ==
  ASSUME NEW slots, InOrder(slots), NEW i \in Items, NEW q \in Nat
  PROVE  /\ InOrder(Put(slots, i, q).slots)
         /\ Len(Put(slots, i, q).slots) >= Len(slots)
         /\ \A k \in 1..Len(slots) : Put(slots, i, q).slots[k].item = slots[k].item
<1> DEFINE f == Fill(slots, i, q)
<1>1. Put(slots, i, q) = NewSlots(f.slots, i, f.left)
  BY DEF Put
<1>2. /\ InOrder(f.slots) /\ Len(f.slots) = Len(slots) /\ f.left \in Nat
      /\ \A k \in 1..Len(slots) : f.slots[k].item = slots[k].item
  BY FillKeeps
<1> HIDE DEF f
<1>3. /\ InOrder(NewSlots(f.slots, i, f.left).slots)
      /\ Len(NewSlots(f.slots, i, f.left).slots) >= Len(slots)
      /\ \A k \in 1..Len(slots) : NewSlots(f.slots, i, f.left).slots[k] = f.slots[k]
  BY <1>2, NewSlotsKeep
<1>4. QED
  BY <1>1, <1>2, <1>3

LEMMA SpareIs == ASSUME NEW slots, InOrder(slots), NEW i \in Items PROVE Spare(slots, i) \in Int
<1> DEFINE n == Len(slots)
           room == [k \in 1..n |-> Room(slots[k], i)]
<1>1. n \in Nat /\ DOMAIN slots = 1..n /\ \A k \in 1..n : slots[k] \in InventorySlot
  BY Slotted
<1>2. room \in [1..n -> Int] /\ Spare(slots, i) = SumOf(room)
  BY <1>1, RoomIs DEF Spare
<1> HIDE DEF n, room
<1>3. PICK sum \in [0..n -> Int] : SumOf(room) = sum[n]
  BY <1>1, <1>2, SumSteps
<1>4. QED
  BY <1>1, <1>2, <1>3

(* HasSpaceFor says what AddItem does.                                     *)
LEMMA SpaceIsTold ==
  ASSUME NEW slots, InOrder(slots), NEW i \in Items, NEW q \in Nat
  PROVE  HasSpaceFor(slots, i, q) <=> Put(slots, i, q).left = 0
<1> DEFINE f == Fill(slots, i, q)
<1>1. PICK n \in Nat, c \in Nat \ {0}, x \in Int, max \in Nat :
        n = Len(slots) /\ c = Stack[i] /\ x = q - Spare(slots, i) /\ max = maxInventorySize
        /\ n <= max
  BY SpareIs, Slotted, InventoryAssumption
<1>2. HasSpaceFor(slots, i, q) <=> x <= 0 \/ n + (x + c - 1) \div c <= max
  BY <1>1 DEF HasSpaceFor, Spare
<1>3. /\ InOrder(f.slots) /\ Len(f.slots) = n /\ f.left \in Nat
      /\ f.left = IF x <= 0 THEN 0 ELSE x
  BY <1>1, FillKeeps, SpareIs
<1>4. Put(slots, i, q) = NewSlots(f.slots, i, f.left)
  BY DEF Put
<1> HIDE DEF f
<1>5. NewSlots(f.slots, i, f.left).left = 0 <=> Needed(f.left, c) <= max - n
  BY <1>1, <1>3, NewSlotsKeep
<1>6. PICK l \in Nat : l = f.left
  BY <1>3
<1>7. CASE x <= 0
  <2>1. l = 0
    BY <1>3, <1>6, <1>7
  <2>2. Needed(l, c) = 0
    <3>1. 0 \div c = 0 /\ 0 % c = 0
      BY <1>1
    <3>2. QED
      BY <2>1, <3>1 DEF Needed
  <2>3. QED
    BY <1>1, <1>2, <1>4, <1>5, <1>6, <1>7, <2>2
<1>8. CASE ~(x <= 0)
  <2>1. l = x /\ l > 0
    BY <1>3, <1>6, <1>8
  <2>2. Needed(l, c) = (x + c - 1) \div c /\ Needed(l, c) \in Nat
    BY <2>1, NeededIs
  <2>3. PICK m \in Nat : m = Needed(l, c)
    BY <2>2
  <2>4. m <= max - n <=> n + m <= max
    BY <1>1
  <2>5. QED
    BY <1>2, <1>4, <1>5, <1>6, <1>8, <2>2, <2>3, <2>4
<1>9. QED
  BY <1>7, <1>8

(* The first of some places is one of them.                                *)
LEMMA FirstIs ==
  ASSUME NEW n \in Nat, NEW K, K \subseteq 1..n
  PROVE  First(K) = 0 \/ First(K) \in K
<1>1. CASE K = {}
  BY <1>1 DEF First
<1>2. CASE K # {}
  <2>1. PICK k \in K : \A j \in K : k <= j
    <3>1. IsWellFoundedOn(OpToRel(<, Nat), Nat)
      BY NatLessThanWellFounded
    <3>2. K \subseteq Nat
      OBVIOUS
    <3>3. PICK k \in K : \A j \in K : ~(<<j, k>> \in OpToRel(<, Nat))
      BY <1>2, <3>1, <3>2, WFMin
    <3>4. \A j \in K : ~(j < k)
      BY <3>2, <3>3 DEF OpToRel
    <3>5. QED
      BY <3>2, <3>4
  <2>2. QED
    BY <1>2, <2>1 DEF First
<1>3. QED
  BY <1>1, <1>2

LEMMA SlotPlaced ==
  ASSUME NEW s \in InventorySlot, NEW p \in Nat
  PROVE  /\ [s EXCEPT !.position = p] \in InventorySlot
         /\ [s EXCEPT !.position = p].position = p
         /\ [s EXCEPT !.position = p].item = s.item
         /\ [s EXCEPT !.position = p].quantity = s.quantity
BY DEF InventorySlot

(* Slots within their limits are in order once they are renumbered.        *)
LEMMA RenumberedKeeps ==
  ASSUME NEW n \in Nat, n <= maxInventorySize, NEW slots \in [1..n -> InventorySlot],
         \A k \in 1..n : NoOverflow(slots[k])
  PROVE  InOrder(Renumbered(slots)) /\ Len(Renumbered(slots)) = n
<1> DEFINE new == [k \in 1..n |-> [slots[k] EXCEPT !.position = k - 1]]
<1>1. Renumbered(slots) = new
  BY DEF Renumbered
<1>2. ASSUME NEW k \in 1..n
      PROVE  new[k] \in InventorySlot /\ new[k].position = k - 1 /\ NoOverflow(new[k])
  <2>1. k - 1 \in Nat /\ slots[k] \in InventorySlot
    OBVIOUS
  <2>2. PICK p \in Nat : p = k - 1
    BY <2>1
  <2>3. new[k] = [slots[k] EXCEPT !.position = p]
    BY <2>2
  <2> HIDE DEF new
  <2>4. /\ new[k] \in InventorySlot /\ new[k].position = p
        /\ new[k].item = slots[k].item /\ new[k].quantity = slots[k].quantity
    BY <2>1, <2>3, SlotPlaced
  <2>5. QED
    BY <2>2, <2>4 DEF NoOverflow
<1>3. new = [k \in 1..n |-> new[k]]
  OBVIOUS
<1> HIDE DEF new
<1>4. new \in [1..n -> InventorySlot]
  BY <1>2, <1>3
<1>5. QED
  BY <1>1, <1>2, <1>4, InOrderAgain

LEMMA RemoveAtIs ==
  ASSUME NEW n \in Nat, NEW slots \in [1..n -> InventorySlot], NEW k \in 1..n,
         \A j \in 1..n : NoOverflow(slots[j])
  PROVE  /\ RemoveAt(slots, k) \in [1..n - 1 -> InventorySlot]
         /\ \A j \in 1..n - 1 : NoOverflow(RemoveAt(slots, k)[j])
<1>1. slots \in Seq(InventorySlot) /\ Len(slots) = n
  BY AsSequence
<1> DEFINE a == SubSeq(slots, 1, k - 1)
           b == SubSeq(slots, k + 1, n)
<1>2. RemoveAt(slots, k) = a \o b
  BY <1>1 DEF RemoveAt
<1>3. a \in Seq(InventorySlot) /\ Len(a) = k - 1 /\ \A j \in 1..k - 1 : a[j] = slots[j]
  BY <1>1
<1>4. b \in Seq(InventorySlot) /\ Len(b) = n - k /\ \A j \in 1..n - k : b[j] = slots[k + j]
  BY <1>1
<1> HIDE DEF a, b
<1> DEFINE all == a \o b
<1>5. /\ all \in Seq(InventorySlot) /\ Len(all) = Len(a) + Len(b)
      /\ \A j \in 1..Len(a) : all[j] = a[j]
      /\ \A j \in 1..Len(b) : all[Len(a) + j] = b[j]
  <2>1. Joins(all, InventorySlot, a, b)
    BY <1>3, <1>4, Joined
  <2> HIDE DEF all
  <2>2. QED
    BY <2>1 DEF Joins
<1> HIDE DEF all
<1>6. all \in [1..n - 1 -> InventorySlot]
  <2>1. Len(all) = n - 1 /\ all \in Seq(InventorySlot)
    BY <1>3, <1>4, <1>5
  <2>2. QED
    BY <2>1
<1>7. ASSUME NEW j \in 1..n - 1 PROVE NoOverflow(all[j])
  <2>1. CASE j \in 1..k - 1
    BY <1>3, <1>5, <2>1
  <2>2. CASE ~(j \in 1..k - 1)
    <3>1. PICK m \in 1..n - k : j = k - 1 + m
      <4>1. j - (k - 1) \in 1..n - k /\ j = k - 1 + (j - (k - 1))
        BY <2>2
      <4>2. QED
        BY <4>1
    <3>2. all[j] = slots[k + m]
      BY <1>3, <1>4, <1>5, <3>1
    <3>3. QED
      BY <3>1, <3>2
  <2>3. QED
    BY <2>1, <2>2
<1>8. QED
  BY <1>2, <1>6, <1>7 DEF all

LEMMA RemovedKeeps ==
  ASSUME NEW n \in Nat, n <= maxInventorySize, NEW slots \in [1..n -> InventorySlot],
         NEW k \in 1..n, \A j \in 1..n : NoOverflow(slots[j])
  PROVE  InOrder(Renumbered(RemoveAt(slots, k)))
<1>1. /\ RemoveAt(slots, k) \in [1..n - 1 -> InventorySlot]
      /\ \A j \in 1..n - 1 : NoOverflow(RemoveAt(slots, k)[j])
  BY RemoveAtIs
<1>2. n - 1 \in Nat /\ n - 1 <= maxInventorySize
  BY InventoryAssumption
<1>3. QED
  BY <1>1, <1>2, RenumberedKeeps
-----------------------------------------------------------------------------
(* Slots from which something is taken stay in order.                      *)
Takes(left, n, q, slots, i) ==
    /\ left[0] = q
    /\ \A k \in 1..n : left[k] = IF Stacked(slots[k], i) /\ left[k - 1] # 0
                                 THEN left[k - 1] - Least(left[k - 1], slots[k].quantity)
                                 ELSE left[k - 1]

TakesStep(v, s, i) ==
    IF Stacked(s, i) /\ v # 0 THEN v - Least(v, s.quantity) ELSE v

LEMMA TakesStepIs ==
  ASSUME NEW v \in Nat, NEW s \in InventorySlot, NEW i
  PROVE  TakesStep(v, s, i) \in Nat
<1>1. s.quantity \in Int
  BY DEF InventorySlot
<1>2. v - Least(v, s.quantity) \in Nat
  BY <1>1 DEF Least
<1>3. QED
  BY <1>2 DEF TakesStep

LEMMA TakenExists ==
  ASSUME NEW n \in Nat, NEW q \in Nat, NEW slots \in [1..n -> InventorySlot], NEW i
  PROVE  \E left \in [0..n -> Nat] : Takes(left, n, q, slots, i)
<1> DEFINE step == [x \in (1..n) \X Nat |-> TakesStep(x[2], slots[x[1]], i)]
<1>1. \A k \in 1..n, v \in Nat : step[<<k, v>>] = TakesStep(v, slots[k], i)
  OBVIOUS
<1>2. \A k \in 1..n, v \in Nat : TakesStep(v, slots[k], i) \in Nat
  BY TakesStepIs
<1> HIDE DEF step
<1>3. StaysIn(n, Nat, step)
  BY <1>1, <1>2, Zenon DEF StaysIn
<1>4. PICK f \in [0..n -> Nat] : Follows(f, n, q, step)
  BY <1>3, Stepwise, Zenon
<1>5. \A k \in 1..n : k - 1 \in 0..n /\ f[k - 1] \in Nat
  BY <1>4
<1>6. f[0] = q /\ \A k \in 1..n : f[k] = step[<<k, f[k - 1]>>]
  BY <1>4 DEF Follows
<1>7. \A k \in 1..n : f[k] = TakesStep(f[k - 1], slots[k], i)
  BY <1>1, <1>5, <1>6, Zenon
<1>8. QED
  BY <1>6, <1>7, Zenon DEF Takes, TakesStep

LEMMA TakenNatural ==
  ASSUME NEW n \in Nat, NEW q \in Nat, NEW slots \in [1..n -> InventorySlot], NEW i,
         NEW left, Takes(left, n, q, slots, i)
  PROVE  \A k \in 0..n : left[k] \in Nat
<1> DEFINE T == {k \in Nat : k <= n => left[k] \in Nat}
<1>1. 0 \in T
  BY DEF Takes
<1>2. ASSUME NEW k \in Nat, k \in T PROVE k + 1 \in T
  <2>1. SUFFICES ASSUME k + 1 <= n PROVE left[k + 1] \in Nat
    OBVIOUS
  <2>2. PICK j \in 1..n : j = k + 1 /\ j - 1 = k
    BY <2>1
  <2>3. left[j - 1] \in Nat
    BY <1>2, <2>1, <2>2
  <2>4. left[j] = TakesStep(left[j - 1], slots[j], i)
    BY Zenon DEF Takes, TakesStep
  <2>5. left[j] \in Nat
    BY <2>3, <2>4, TakesStepIs
  <2>6. QED
    BY <2>2, <2>5
<1> HIDE DEF T
<1>3. Nat \subseteq T
  BY <1>1, <1>2, EveryNatural
<1>4. QED
  BY <1>3 DEF T

(* The slots a of which those in D are dropped, with new positions.        *)
Gathers(f, n, a, D) ==
    /\ f[0] = <<>>
    /\ \A k \in 1..n : f[k] = IF k \in D THEN f[k - 1]
                              ELSE Append(f[k - 1], [a[k] EXCEPT !.position = Len(f[k - 1])])

GathersStep(s, e, dropped) ==
    IF dropped THEN s ELSE Append(s, [e EXCEPT !.position = Len(s)])

LEMMA GatheredExists ==
  ASSUME NEW n \in Nat, NEW a \in [1..n -> InventorySlot], NEW D
  PROVE  \E f \in [0..n -> Seq(InventorySlot)] : Gathers(f, n, a, D)
<1> DEFINE V == Seq(InventorySlot)
           step == [x \in (1..n) \X V |-> GathersStep(x[2], a[x[1]], x[1] \in D)]
<1>1. \A k \in 1..n, v \in V : step[<<k, v>>] = GathersStep(v, a[k], k \in D)
  OBVIOUS
<1>2. ASSUME NEW k \in 1..n, NEW v \in V PROVE GathersStep(v, a[k], k \in D) \in V
  <2>1. Len(v) \in Nat /\ a[k] \in InventorySlot
    OBVIOUS
  <2>2. [a[k] EXCEPT !.position = Len(v)] \in InventorySlot
    BY <2>1, SlotPlaced
  <2>3. Append(v, [a[k] EXCEPT !.position = Len(v)]) \in V
    BY <2>2
  <2>4. QED
    BY <2>3 DEF GathersStep
<1>3. <<>> \in V
  OBVIOUS
<1> HIDE DEF step, V
<1>4. StaysIn(n, V, step)
  BY <1>1, <1>2, Zenon DEF StaysIn
<1>5. PICK f \in [0..n -> V] : Follows(f, n, <<>>, step)
  BY <1>3, <1>4, Stepwise, Zenon
<1>6. \A k \in 1..n : k - 1 \in 0..n /\ f[k - 1] \in V
  BY <1>5
<1>7. f[0] = <<>> /\ \A k \in 1..n : f[k] = step[<<k, f[k - 1]>>]
  BY <1>5 DEF Follows
<1>8. \A k \in 1..n : f[k] = GathersStep(f[k - 1], a[k], k \in D)
  BY <1>1, <1>6, <1>7, Zenon
<1>9. Gathers(f, n, a, D)
  BY <1>7, <1>8, Zenon DEF Gathers, GathersStep
<1>10. QED
  BY <1>9 DEF V

LEMMA GatheredKeeps ==
  ASSUME NEW n \in Nat, n <= maxInventorySize, NEW a \in [1..n -> InventorySlot], NEW D,
         \A k \in 1..n : NoOverflow(a[k]), NEW f, Gathers(f, n, a, D)
  PROVE  InOrder(f[n])
<1> DEFINE Good(k) == /\ f[k] \in Seq(InventorySlot) /\ Len(f[k]) <= k
                      /\ \A j \in 1..Len(f[k]) : f[k][j].position = j - 1 /\ NoOverflow(f[k][j])
           T == {k \in Nat : k <= n => Good(k)}
<1>1. 0 \in T
  <2>1. f[0] = <<>>
    BY DEF Gathers
  <2>2. Good(0)
    BY <2>1
  <2>3. QED
    BY <2>2
<1>2. ASSUME NEW k \in Nat, k \in T PROVE k + 1 \in T
  <2>1. SUFFICES ASSUME k + 1 <= n PROVE Good(k + 1)
    OBVIOUS
  <2>2. PICK j \in 1..n : j = k + 1 /\ j - 1 = k
    BY <2>1
  <2>3. PICK s : s = f[k]
    OBVIOUS
  <2>4. /\ s \in Seq(InventorySlot) /\ Len(s) <= k /\ Len(s) \in Nat
        /\ \A m \in 1..Len(s) : s[m].position = m - 1 /\ NoOverflow(s[m])
    BY <1>2, <2>1, <2>3
  <2>5. f[j] = GathersStep(f[j - 1], a[j], j \in D)
    BY Zenon DEF Gathers, GathersStep
  <2>6. f[k + 1] = GathersStep(s, a[j], j \in D)
    BY <2>2, <2>3, <2>5
  <2>7. CASE j \in D
    <3>1. f[k + 1] = s
      BY <2>6, <2>7 DEF GathersStep
    <3>2. QED
      BY <2>4, <3>1
  <2>8. CASE ~(j \in D)
    <3>1. PICK e : e = [a[j] EXCEPT !.position = Len(s)]
      OBVIOUS
    <3>2. /\ e \in InventorySlot /\ e.position = Len(s)
          /\ e.item = a[j].item /\ e.quantity = a[j].quantity
      BY <2>4, <3>1, SlotPlaced
    <3>3. NoOverflow(e)
      BY <3>2 DEF NoOverflow
    <3>4. PICK t : t = Append(s, e)
      OBVIOUS
    <3>5. f[k + 1] = t
      BY <2>6, <2>8, <3>1, <3>4 DEF GathersStep
    <3>6. /\ t \in Seq(InventorySlot) /\ Len(t) = Len(s) + 1 /\ t[Len(s) + 1] = e
          /\ \A m \in 1..Len(s) : t[m] = s[m]
      BY <2>4, <3>2, <3>4
    <3>7. ASSUME NEW m \in 1..Len(t) PROVE t[m].position = m - 1 /\ NoOverflow(t[m])
      <4>1. CASE m = Len(s) + 1
        BY <2>4, <3>2, <3>3, <3>6, <4>1
      <4>2. CASE m # Len(s) + 1
        <5>1. m \in 1..Len(s)
          BY <2>4, <3>6, <4>2
        <5>2. QED
          BY <2>4, <3>6, <5>1
      <4>3. QED
        BY <4>1, <4>2
    <3>8. QED
      BY <2>4, <3>5, <3>6, <3>7
  <2>9. QED
    BY <2>7, <2>8
<1> HIDE DEF T
<1>3. Nat \subseteq T
  BY <1>1, <1>2, EveryNatural
<1>4. Good(n)
  BY <1>3 DEF T
<1>5. Len(f[n]) <= maxInventorySize
  BY <1>4, InventoryAssumption
<1>6. QED
  BY <1>4, <1>5 DEF InOrder
(* Of a slot something is taken: no more is in it than before, or nothing. *)
After(s, was, now, i) ==
    [s EXCEPT !.quantity = s.quantity - (was - now),
        !.item = IF Stacked(s, i) /\ was # 0 /\ s.quantity - (was - now) = 0
                 THEN "none" ELSE @]

LEMMA AfterIs ==
  ASSUME NEW s \in InventorySlot, NoOverflow(s), NEW i \in Items, NEW was \in Nat
  PROVE  /\ After(s, was, TakesStep(was, s, i), i) \in InventorySlot
         /\ After(s, was, TakesStep(was, s, i), i).position = s.position
         /\ NoOverflow(After(s, was, TakesStep(was, s, i), i))
<1>1. PICK now \in Nat : now = TakesStep(was, s, i)
  BY TakesStepIs
<1>2. PICK n \in Int : n = s.quantity
  BY DEF InventorySlot
<1>3. PICK r \in Int : r = n - (was - now)
  OBVIOUS
<1>4. now = IF s.item = i /\ was # 0 THEN was - Least(was, n) ELSE was
  BY <1>1, <1>2 DEF TakesStep, Stacked
<1>5. r = n \/ (s.item = i /\ (r <= n \/ r = 0))
  BY <1>2, <1>3, <1>4 DEF Least
<1>6. PICK item \in Items \cup {"none"} :
        item = IF s.item = i /\ was # 0 /\ r = 0 THEN "none" ELSE s.item
  BY DEF InventorySlot
<1>7. PICK e : e = After(s, was, now, i)
  OBVIOUS
<1>8. e = [s EXCEPT !.quantity = r, !.item = item]
  BY <1>2, <1>3, <1>6, <1>7 DEF After, Stacked, InventorySlot
<1>9. e \in InventorySlot /\ e.position = s.position /\ e.quantity = r /\ e.item = item
  BY <1>8 DEF InventorySlot
<1>10. NoOverflow(e)
  <2>1. SUFFICES ASSUME item \in Items PROVE r <= Stack[item]
    BY <1>9 DEF NoOverflow
  <2>2. item = s.item /\ s.item \in Items /\ n <= Stack[s.item] /\ Stack[s.item] \in Nat
    BY <1>2, <1>6, <2>1, InventoryAssumption DEF NoOverflow
  <2>3. QED
    BY <1>5, <2>2
<1>11. QED
  BY <1>1, <1>7, <1>9, <1>10

LEMMA TakenKeeps ==
  ASSUME NEW slots, InOrder(slots), NEW i \in Items, NEW q \in Nat
  PROVE  InOrder(Taken(slots, i, q))
<1> DEFINE n == Len(slots)
           IsLeft(f) == f = [k \in 0..n |->
                IF k = 0 THEN q
                ELSE IF Stacked(slots[k], i) /\ f[k - 1] # 0
                     THEN f[k - 1] - Least(f[k - 1], slots[k].quantity) ELSE f[k - 1]]
           left == CHOOSE f : IsLeft(f)
           rest(k) == slots[k].quantity - (left[k - 1] - left[k])
           after(k) ==
              [slots[k] EXCEPT !.quantity = rest(k),
                  !.item = IF Stacked(slots[k], i) /\ left[k - 1] # 0 /\ rest(k) = 0
                           THEN "none" ELSE @]
           IsKept(f) == f = [k \in 0..n |->
                IF k = 0 THEN <<>>
                ELSE IF rest(k) = 0 THEN f[k - 1]
                ELSE Append(f[k - 1], [after(k) EXCEPT !.position = Len(f[k - 1])])]
           kept == CHOOSE f : IsKept(f)
<1>1. Taken(slots, i, q) = IF left[n] = 0 THEN kept[n] ELSE [k \in DOMAIN slots |-> after(k)]
  BY DEF Taken
<1>2. /\ n \in Nat /\ n <= maxInventorySize /\ DOMAIN slots = 1..n
      /\ slots \in [1..n -> InventorySlot]
      /\ \A k \in 1..n : slots[k] \in InventorySlot /\ slots[k].position = k - 1
                         /\ NoOverflow(slots[k])
  BY Slotted
<1> HIDE DEF n
<1>3. \A k \in 0..n : k = 0 \/ k \in 1..n
  BY <1>2
<1>4. IsLeft(left)
  <2>1. PICK f \in [0..n -> Nat] : Takes(f, n, q, slots, i)
    BY <1>2, TakenExists
  <2>2. f = [k \in 0..n |-> f[k]]
    OBVIOUS
  <2>3. IsLeft(f)
    BY <1>3, <2>1, <2>2 DEF Takes
  <2>4. QED
    BY <2>3
<1>5. Takes(left, n, q, slots, i)
  <2>1. \A k \in 0..n : left[k] = IF k = 0 THEN q
                ELSE IF Stacked(slots[k], i) /\ left[k - 1] # 0
                     THEN left[k - 1] - Least(left[k - 1], slots[k].quantity) ELSE left[k - 1]
    BY <1>4
  <2>2. 0 \in 0..n /\ \A k \in 1..n : k \in 0..n /\ k # 0
    BY <1>2
  <2> HIDE DEF left
  <2>3. QED
    BY <2>1, <2>2 DEF Takes
<1> HIDE DEF left, IsLeft
<1>6. \A k \in 0..n : left[k] \in Nat
  BY <1>2, <1>5, TakenNatural
<1>7. ASSUME NEW k \in 1..n
      PROVE  after(k) \in InventorySlot /\ after(k).position = k - 1 /\ NoOverflow(after(k))
  <2>1. left[k - 1] \in Nat /\ slots[k] \in InventorySlot /\ NoOverflow(slots[k])
        /\ slots[k].position = k - 1
    BY <1>2, <1>6
  <2>2. left[k] = TakesStep(left[k - 1], slots[k], i)
    BY <1>5, Zenon DEF Takes, TakesStep
  <2>3. after(k) = After(slots[k], left[k - 1], left[k], i)
    BY DEF After
  <2> HIDE DEF after
  <2>4. QED
    BY <2>1, <2>2, <2>3, AfterIs
<1> DEFINE a == [k \in 1..n |-> after(k)]
           D == {k \in 1..n : rest(k) = 0}
<1> HIDE DEF after
<1>8. a \in [1..n -> InventorySlot] /\ \A k \in 1..n : a[k] = after(k)
  BY <1>7
<1>9. \A k \in 1..n : a[k].position = k - 1 /\ NoOverflow(a[k])
  BY <1>7, <1>8
<1>10. InOrder(a)
  BY <1>2, <1>8, <1>9, InOrderAgain
<1>11. \A k \in 1..n : k \in D <=> rest(k) = 0
  OBVIOUS
<1> HIDE DEF a, D, rest
<1>12. IsKept(kept)
  <2>1. PICK f \in [0..n -> Seq(InventorySlot)] : Gathers(f, n, a, D)
    BY <1>2, <1>8, GatheredExists
  <2>2. f = [k \in 0..n |-> f[k]]
    OBVIOUS
  <2>3. IsKept(f)
    BY <1>3, <1>8, <1>11, <2>1, <2>2 DEF Gathers
  <2>4. QED
    BY <2>3
<1>13. Gathers(kept, n, a, D)
  <2>1. \A k \in 0..n : kept[k] = IF k = 0 THEN <<>>
                ELSE IF rest(k) = 0 THEN kept[k - 1]
                ELSE Append(kept[k - 1], [after(k) EXCEPT !.position = Len(kept[k - 1])])
    BY <1>12
  <2>2. 0 \in 0..n /\ \A k \in 1..n : k \in 0..n /\ k # 0
    BY <1>2
  <2> HIDE DEF kept
  <2>3. QED
    BY <1>8, <1>11, <2>1, <2>2 DEF Gathers
<1> HIDE DEF kept, IsKept
<1>14. InOrder(kept[n])
  BY <1>2, <1>8, <1>9, <1>13, GatheredKeeps
<1>15. [k \in DOMAIN slots |-> after(k)] = a
  BY <1>2 DEF a
<1>16. QED
  BY <1>1, <1>10, <1>14, <1>15
-----------------------------------------------------------------------------
LEMMA IntactFields ==
  ASSUME NEW i, Intact(i)
  PROVE  /\ i = [slots |-> i.slots, gear |-> i.gear, gold |-> i.gold]
         /\ InOrder(i.slots) /\ i.gold \in 0..MaxGold
         /\ i.gear \in [Gear -> InventorySlot] /\ \A g \in Gear : NoOverflow(i.gear[g])
BY DEF Intact

LEMMA IntactMade ==
  ASSUME NEW slots, InOrder(slots), NEW gear \in [Gear -> InventorySlot],
         NEW gold \in 0..MaxGold, \A g \in Gear : NoOverflow(gear[g])
  PROVE  Intact([slots |-> slots, gear |-> gear, gold |-> gold])
BY DEF Intact, InOrder

LEMMA NewIsIntact == Intact(PlayerInventory)
<1>1. InOrder(<<>>)
  BY InventoryAssumption DEF InOrder
<1>2. Empty \in InventorySlot /\ NoOverflow(Empty)
  BY InventoryAssumption DEF Empty, InventorySlot, NoOverflow
<1> DEFINE gear == [g \in Gear |-> Empty]
<1>3. gear \in [Gear -> InventorySlot] /\ \A g \in Gear : NoOverflow(gear[g])
  BY <1>2
<1>4. PlayerInventory = [slots |-> <<>>, gear |-> gear, gold |-> 0]
  BY DEF PlayerInventory
<1> HIDE DEF gear
<1>5. 0 \in 0..MaxGold
  BY InventoryAssumption
<1>6. QED
  BY <1>1, <1>3, <1>4, <1>5, IntactMade

-----------------------------------------------------------------------------
(* Every inventory is sound.                                               *)
Carried(i) == i = NoInventory \/ Intact(i)

StoreIInv == DOMAIN inv = InvPlayers /\ \A p \in InvPlayers : Carried(inv[p])

(* What OnInventory has read is an item; and loot is what there was.       *)
PicksIInv ==
    /\ DOMAIN picked = InvPlayers
    /\ \A p \in InvPlayers : picked[p] = NoPick \/ picked[p].item \in Items
    /\ loot \subseteq DOMAIN Loot

(* f is what inv may become.                                               *)
Replaces(f) == DOMAIN f = InvPlayers /\ \A p \in InvPlayers : Carried(f[p])

LEMMA StoreKeeps ==
  ASSUME NEW f, Replaces(f), inv' = f
  PROVE  StoreIInv'
BY DEF Replaces, StoreIInv, Carried, Intact, InOrder

LEMMA StoreStays == ASSUME StoreIInv, UNCHANGED inv PROVE StoreIInv'
BY DEF StoreIInv, Carried, Intact, InOrder

LEMMA OneReplaced ==
  ASSUME StoreIInv, NEW p \in InvPlayers, NEW i, Intact(i),
         NEW f, f = [inv EXCEPT ![p] = i]
  PROVE  Replaces(f)
<1>1. DOMAIN inv = InvPlayers /\ \A o \in InvPlayers : Carried(inv[o])
  BY DEF StoreIInv
<1>2. DOMAIN f = InvPlayers /\ \A o \in InvPlayers : f[o] = IF o = p THEN i ELSE inv[o]
  BY <1>1
<1>3. Carried(i)
  BY DEF Carried
<1>4. QED
  BY <1>1, <1>2, <1>3 DEF Replaces

(* A player's inventory becomes i, which is sound.                         *)
LEMMA InventoryStored ==
  ASSUME StoreIInv, NEW p \in InvPlayers, NEW i, Intact(i),
         Save([inv EXCEPT ![p] = i])
  PROVE  StoreIInv'
<1>1. PICK f : f = [inv EXCEPT ![p] = i]
  OBVIOUS
<1>2. Replaces(f)
  BY <1>1, OneReplaced
<1>3. Save(f)
  BY <1>1
<1>4. QED
  BY <1>2, <1>3, StoreKeeps DEF Save

LEMMA OfPlayer ==
  ASSUME StoreIInv, NEW p \in InvPlayers, inv[p] # NoInventory
  PROVE  /\ Intact(inv[p]) /\ inv[p].gold \in 0..MaxGold
         /\ InOrder(inv[p].slots) /\ DOMAIN inv = InvPlayers
         /\ inv[p] = [slots |-> inv[p].slots, gear |-> inv[p].gear, gold |-> inv[p].gold]
         /\ inv[p].gear \in [Gear -> InventorySlot] /\ \A g \in Gear : NoOverflow(inv[p].gear[g])
<1>1. Intact(inv[p]) /\ DOMAIN inv = InvPlayers
  BY DEF StoreIInv, Carried
<1>2. QED
  BY <1>1, IntactFields

LEMMA SlotsStored ==
  ASSUME StoreIInv, NEW p \in InvPlayers, inv[p] # NoInventory,
         NEW slots, InOrder(slots), Save([inv EXCEPT ![p].slots = slots])
  PROVE  StoreIInv'
<1>1. PICK i : i = [slots |-> slots, gear |-> inv[p].gear, gold |-> inv[p].gold]
  OBVIOUS
<1>2. Intact(i)
  BY <1>1, OfPlayer, IntactMade
<1>3. [inv EXCEPT ![p].slots = slots] = [inv EXCEPT ![p] = i]
  <2>1. PICK r : r = inv[p]
    OBVIOUS
  <2>2. r = [slots |-> r.slots, gear |-> r.gear, gold |-> r.gold]
    BY <2>1, OfPlayer
  <2>3. [r EXCEPT !.slots = slots] = i
    BY <1>1, <2>1, <2>2
  <2>4. [inv[p] EXCEPT !.slots = slots] = i
    BY <2>1, <2>3
  <2>5. QED
    BY <2>4
<1>4. Save([inv EXCEPT ![p] = i])
  BY <1>3
<1>5. QED
  BY <1>2, <1>4, InventoryStored

LEMMA SlotReplaced ==
  ASSUME NEW slots, InOrder(slots), NEW k \in 1..Len(slots), NEW s \in InventorySlot,
         s.position = k - 1, NoOverflow(s)
  PROVE  InOrder([slots EXCEPT ![k] = s])
<1>1. PICK n \in Nat : n = Len(slots)
  BY Slotted
<1>2. /\ n <= maxInventorySize /\ k \in 1..n /\ DOMAIN slots = 1..n
      /\ slots \in [1..n -> InventorySlot]
      /\ \A j \in 1..n : slots[j].position = j - 1 /\ NoOverflow(slots[j])
  BY <1>1, Slotted
<1>3. PICK f : f = [slots EXCEPT ![k] = s]
  OBVIOUS
<1>4. /\ f \in [1..n -> InventorySlot]
      /\ \A j \in 1..n : f[j] = IF j = k THEN s ELSE slots[j]
  BY <1>2, <1>3
<1>5. \A j \in 1..n : f[j].position = j - 1 /\ NoOverflow(f[j])
  BY <1>2, <1>4
<1>6. InOrder(f)
  BY <1>2, <1>4, <1>5, InOrderAgain
<1>7. QED
  BY <1>3, <1>6

LEMMA SlotAdded ==
  ASSUME NEW slots, InOrder(slots), Len(slots) < maxInventorySize, NEW s \in InventorySlot,
         s.position = Len(slots), NoOverflow(s)
  PROVE  InOrder(Append(slots, s))
<1>1. PICK n \in Nat : n = Len(slots)
  BY Slotted
<1>2. slots \in Seq(InventorySlot) /\ \A j \in 1..n : slots[j].position = j - 1 /\ NoOverflow(slots[j])
  BY <1>1 DEF InOrder
<1>3. PICK t : t = Append(slots, s)
  OBVIOUS
<1>4. /\ t \in Seq(InventorySlot) /\ Len(t) = n + 1 /\ t[n + 1] = s
      /\ \A j \in 1..n : t[j] = slots[j]
  BY <1>1, <1>2, <1>3
<1>5. \A j \in 1..n + 1 : t[j].position = j - 1 /\ NoOverflow(t[j])
  <2>1. TAKE j \in 1..n + 1
  <2>2. CASE j = n + 1
    BY <1>1, <1>4, <2>2
  <2>3. CASE j # n + 1
    BY <1>2, <1>4, <2>3
  <2>4. QED
    BY <2>2, <2>3
<1>6. n + 1 <= maxInventorySize
  BY <1>1, InventoryAssumption
<1>7. InOrder(t)
  BY <1>4, <1>5, <1>6 DEF InOrder
<1>8. QED
  BY <1>3, <1>7

-----------------------------------------------------------------------------
(* Each operation keeps the store.                                         *)
LEMMA LoadStores == ASSUME StoreIInv, NEW p \in InvPlayers, LoadFromDatabase(p) PROVE StoreIInv'
<1>1. CASE UNCHANGED inv
  BY <1>1, StoreStays
<1>2. CASE inv' = [inv EXCEPT ![p] = PlayerInventory]
  <2>1. Replaces([inv EXCEPT ![p] = PlayerInventory])
    BY NewIsIntact, OneReplaced
  <2>2. QED
    BY <1>2, <2>1, StoreKeeps
<1>3. QED
  BY <1>1, <1>2 DEF LoadFromDatabase

LEMMA OldIs ==
  ASSUME StoreIInv, NEW p \in InvPlayers,
         NEW old, old = IF inv[p] = NoInventory THEN PlayerInventory ELSE inv[p]
  PROVE  Intact(old)
BY OfPlayer, NewIsIntact

LEMMA PickupStores ==
  ASSUME StoreIInv, PicksIInv, NEW p \in InvPlayers, NEW e, NEW q \in Amounts, LootPickup(p, e, q)
  PROVE  StoreIInv'
<1>1. PICK old : old = IF inv[p] = NoInventory THEN PlayerInventory ELSE inv[p]
  OBVIOUS
<1>2. PICK new : new = Put(old.slots, Loot[e], q)
  OBVIOUS
<1>3. Intact(old)
  BY <1>1, OldIs
<1>4. Loot[e] \in Items /\ q \in Nat
  BY InventoryAssumption DEF LootPickup, PicksIInv
<1>5. InOrder(new.slots)
  BY <1>2, <1>3, <1>4, IntactFields, PutKeeps
<1>6. PICK i : i = [slots |-> new.slots, gear |-> old.gear, gold |-> old.gold]
  OBVIOUS
<1>7. Intact(i)
  BY <1>3, <1>5, <1>6, IntactFields, IntactMade
<1>8. [old EXCEPT !.slots = new.slots] = i
  BY <1>3, <1>6, IntactFields
<1>9. Save([inv EXCEPT ![p] = [old EXCEPT !.slots = new.slots]])
  BY <1>1, <1>2 DEF LootPickup
<1>10. Save([inv EXCEPT ![p] = i])
  BY <1>8, <1>9
<1>11. QED
  BY <1>7, <1>10, InventoryStored

LEMMA RemoveStores ==
  ASSUME StoreIInv, PicksIInv, NEW p \in InvPlayers, NEW q \in Amounts, RemoveItem(p, q)
  PROVE  StoreIInv'
<1>1. CASE q > 0
  <2>1. PICK new : new = Taken(Slots(p), picked[p].item, q)
    OBVIOUS
  <2>2. inv[p] # NoInventory /\ picked[p].item \in Items /\ q \in Nat
    BY InventoryAssumption DEF RemoveItem, Known, PicksIInv
  <2>3. InOrder(new)
    BY <2>1, <2>2, OfPlayer, TakenKeeps DEF Slots
  <2>4. Save([inv EXCEPT ![p].slots = new])
    BY <1>1, <2>1 DEF RemoveItem, WithSlots
  <2>5. QED
    BY <2>2, <2>3, <2>4, SlotsStored
<1>2. CASE ~(q > 0)
  BY <1>2, StoreStays DEF RemoveItem
<1>3. QED
  BY <1>1, <1>2

LEMMA UseStores ==
  ASSUME StoreIInv, PicksIInv, NEW p \in InvPlayers, NEW q \in Amounts, UseItem(p, q)
  PROVE  StoreIInv'
<1>1. PICK slots : slots = Slots(p)
  OBVIOUS
<1>2. PICK k : k = First({j \in Positions(p) : /\ Stacked(Slots(p)[j], picked[p].item)
                                               /\ Slots(p)[j].quantity >= q})
  OBVIOUS
<1>3. inv[p] # NoInventory /\ q \in Nat
  BY InventoryAssumption DEF UseItem, Known
<1>4. InOrder(slots)
  BY <1>1, <1>3, OfPlayer DEF Slots
<1>5. CASE k = 0
  BY <1>2, <1>5, StoreStays DEF UseItem
<1>6. CASE k # 0
  <2>1. k \in 1..Len(slots) /\ slots[k].quantity >= q
    <3>1. Positions(p) = 1..Len(slots) /\ Len(slots) \in Nat
      BY <1>1, <1>4, Slotted DEF Positions
    <3>2. PICK K : K = {j \in Positions(p) : /\ Stacked(Slots(p)[j], picked[p].item)
                                             /\ Slots(p)[j].quantity >= q}
      OBVIOUS
    <3>3. First(K) = 0 \/ First(K) \in K
      BY <3>1, <3>2, FirstIs
    <3>4. k \in K
      BY <1>2, <1>6, <3>2, <3>3
    <3>5. QED
      BY <1>1, <3>1, <3>2, <3>4
  <2>2. PICK left : left = slots[k].quantity - q
    OBVIOUS
  <2>3. PICK item : item = IF left = 0 THEN "none" ELSE slots[k].item
    OBVIOUS
  <2>4. /\ slots[k] \in InventorySlot /\ slots[k].position = k - 1 /\ NoOverflow(slots[k])
        /\ DOMAIN slots = 1..Len(slots)
    BY <1>4, <2>1, Slotted
  <2>5. left \in Int /\ item \in Items \cup {"none"} /\ left <= slots[k].quantity
    BY <1>3, <2>2, <2>3, <2>4 DEF InventorySlot
  <2>6. PICK s : s = [slots[k] EXCEPT !.item = item, !.quantity = left]
    OBVIOUS
  <2>7. s \in InventorySlot /\ s.position = k - 1 /\ s.item = item /\ s.quantity = left
    BY <2>4, <2>5, <2>6 DEF InventorySlot
  <2>8. NoOverflow(s)
    <3>1. SUFFICES ASSUME item \in Items PROVE left <= Stack[item]
      BY <2>7 DEF NoOverflow
    <3>2. item = slots[k].item
      BY <2>3, <3>1, InventoryAssumption
    <3>3. slots[k].quantity <= Stack[item] /\ Stack[item] \in Nat /\ slots[k].quantity \in Int
      BY <2>4, <3>1, <3>2, InventoryAssumption DEF NoOverflow, InventorySlot
    <3>4. QED
      BY <2>5, <3>3
  <2>9. PICK new : new = [slots EXCEPT ![k] = s]
    OBVIOUS
  <2>10. InOrder(new)
    BY <1>4, <2>1, <2>7, <2>8, <2>9, SlotReplaced
  <2>11. new = [slots EXCEPT ![k].item = IF left = 0 THEN "none" ELSE @, ![k].quantity = left]
    BY <2>1, <2>3, <2>4, <2>6, <2>9
  <2>12. Save([inv EXCEPT ![p].slots =
                       [slots EXCEPT ![k].item = IF left = 0 THEN "none" ELSE @,
                                     ![k].quantity = left]])
    BY <1>1, <1>2, <1>6, <2>2 DEF UseItem, WithSlots
  <2>13. Save([inv EXCEPT ![p].slots = new])
    BY <2>11, <2>12
  <2>14. QED
    BY <1>3, <2>10, <2>13, SlotsStored
<1>7. QED
  BY <1>5, <1>6

WithGear(r, g, s, put) == [r EXCEPT !.gear[g] = s, !.slots = put]

LEMMA WornAndSlots ==
  ASSUME NEW r, NEW slots, NEW gear, NEW gold, r = [slots |-> slots, gear |-> gear, gold |-> gold],
         NEW g, NEW s, NEW put
  PROVE  WithGear(r, g, s, put) =
             [slots |-> put, gear |-> [gear EXCEPT ![g] = s], gold |-> gold]
<1>1. PICK new : new = [gear EXCEPT ![g] = s]
  OBVIOUS
<1>2. PICK x : x = [r EXCEPT !.gear[g] = s]
  OBVIOUS
<1>3. x = [r EXCEPT !.gear = new]
  BY <1>1, <1>2
<1>4. x = [slots |-> slots, gear |-> new, gold |-> gold]
  BY <1>3
<1>5. [x EXCEPT !.slots = put] = [slots |-> put, gear |-> new, gold |-> gold]
  BY <1>4
<1>6. QED
  BY <1>1, <1>2, <1>5 DEF WithGear

LEMMA EquipStores ==
  ASSUME StoreIInv, PicksIInv, NEW p \in InvPlayers, NEW q \in Amounts, EquipItem(p, q)
  PROVE  StoreIInv'
<1>1. PICK slots, gear, k, s, g, worn :
        /\ slots = Slots(p) /\ gear = inv[p].gear /\ k = picked[p].slot
        /\ s = slots[k] /\ g = Slot[s.item] /\ worn = gear[g]
  OBVIOUS
<1>2. inv[p] # NoInventory
  BY DEF EquipItem, Known
<1>3. /\ InOrder(slots) /\ gear \in [Gear -> InventorySlot] /\ inv[p].gold \in 0..MaxGold
      /\ \A h \in Gear : NoOverflow(gear[h])
  BY <1>1, <1>2, OfPlayer DEF Slots
<1>4. PICK put : put = IF worn.quantity > 0
                       THEN [slots EXCEPT ![k] = [worn EXCEPT !.position = k - 1]]
                       ELSE Renumbered(RemoveAt(slots, k))
  OBVIOUS
<1> DEFINE fits == k \in Positions(p) /\ s.item \in Items /\ s.quantity >= q /\ g # "none"
<1>5. CASE ~fits
  BY <1>1, <1>5, StoreStays DEF EquipItem
<1>6. CASE fits
  <2>1. k \in 1..Len(slots) /\ g \in Gear
    BY <1>1, <1>3, <1>6, Slotted DEF Positions, Gear
  <2>2. PICK n \in Nat : n = Len(slots)
    BY <1>3, Slotted
  <2>3. /\ s \in InventorySlot /\ NoOverflow(s) /\ worn \in InventorySlot /\ NoOverflow(worn)
        /\ n <= maxInventorySize /\ slots \in [1..n -> InventorySlot]
        /\ \A j \in 1..n : NoOverflow(slots[j])
    BY <1>1, <1>3, <2>1, <2>2, Slotted
  <2>4. InOrder(put)
    <3>1. CASE worn.quantity > 0
      <4>1. PICK w : w = [worn EXCEPT !.position = k - 1]
        OBVIOUS
      <4>2. k - 1 \in Nat
        BY <2>1, <2>2
      <4>3. /\ w \in InventorySlot /\ w.position = k - 1
            /\ w.item = worn.item /\ w.quantity = worn.quantity
        BY <2>3, <4>1, <4>2, SlotPlaced
      <4>4. NoOverflow(w)
        BY <2>3, <4>3 DEF NoOverflow
      <4>5. put = [slots EXCEPT ![k] = w]
        BY <1>4, <3>1, <4>1
      <4>6. QED
        BY <1>3, <2>1, <4>3, <4>4, <4>5, SlotReplaced
    <3>2. CASE ~(worn.quantity > 0)
      BY <1>4, <2>1, <2>2, <2>3, <3>2, RemovedKeeps
    <3>3. QED
      BY <3>1, <3>2
  <2>5. PICK new : new = [gear EXCEPT ![g] = s]
    OBVIOUS
  <2>6. new \in [Gear -> InventorySlot] /\ \A h \in Gear : NoOverflow(new[h])
    BY <1>3, <2>1, <2>3, <2>5
  <2>7. PICK i : i = [slots |-> put, gear |-> new, gold |-> inv[p].gold]
    OBVIOUS
  <2>8. Intact(i)
    BY <1>3, <2>4, <2>6, <2>7, IntactMade
  <2>9. Save([inv EXCEPT ![p].gear[g] = s,
                              ![p].slots = IF worn.quantity > 0
                                THEN [@ EXCEPT ![k] = [worn EXCEPT !.position = k - 1]]
                                ELSE Renumbered(RemoveAt(@, k))])
    BY <1>1, <1>6 DEF EquipItem
  <2>10. [inv EXCEPT ![p].gear[g] = s,
                     ![p].slots = IF worn.quantity > 0
                       THEN [@ EXCEPT ![k] = [worn EXCEPT !.position = k - 1]]
                       ELSE Renumbered(RemoveAt(@, k))] = [inv EXCEPT ![p] = i]
    <3>1. PICK r : r = inv[p]
      OBVIOUS
    <3>2. /\ r = [slots |-> r.slots, gear |-> r.gear, gold |-> r.gold]
          /\ r.slots = slots /\ r.gear = gear /\ i.gold = r.gold
      BY <1>1, <1>2, <2>7, <3>1, OfPlayer DEF Slots
    <3>3. [r EXCEPT !.gear[g] = s,
                    !.slots = IF worn.quantity > 0
                      THEN [@ EXCEPT ![k] = [worn EXCEPT !.position = k - 1]]
                      ELSE Renumbered(RemoveAt(@, k))] = i
      <4>1. (IF worn.quantity > 0
             THEN [r.slots EXCEPT ![k] = [worn EXCEPT !.position = k - 1]]
             ELSE Renumbered(RemoveAt(r.slots, k))) = put
        BY <1>4, <3>2, Zenon
      <4>2. PICK gold : gold = r.gold
        OBVIOUS
      <4>3. i = [slots |-> put, gear |-> [gear EXCEPT ![g] = s], gold |-> gold]
        BY <2>5, <2>7, <3>2, <4>2, Zenon
      <4>4. r = [slots |-> slots, gear |-> gear, gold |-> gold]
        BY <3>2, <4>2, Zenon
      <4>5. [r EXCEPT !.gear[g] = s, !.slots = put] = i
        <5>1. WithGear(r, g, s, put) = i
          BY <4>3, <4>4, WornAndSlots
        <5>2. QED
          BY <5>1 DEF WithGear
      <4>6. QED
        BY <4>1, <4>5
    <3>4. DOMAIN inv = InvPlayers
      BY DEF StoreIInv
    <3>5. QED
      BY <3>1, <3>3, <3>4
  <2>11. Save([inv EXCEPT ![p] = i])
    BY <2>9, <2>10
  <2>12. QED
    BY <2>8, <2>11, InventoryStored
<1>7. QED
  BY <1>5, <1>6

LEMMA SlotsPut ==
  ASSUME NEW f, DOMAIN f = InvPlayers, NEW p \in InvPlayers, Intact(f[p]),
         NEW slots, InOrder(slots), NEW h, h = [f EXCEPT ![p].slots = slots]
  PROVE  /\ DOMAIN h = InvPlayers /\ Intact(h[p]) /\ h[p].slots = slots
         /\ \A o \in InvPlayers : o # p => h[o] = f[o]
<1>1. PICK r : r = f[p]
  OBVIOUS
<1>2. PICK i : i = [slots |-> slots, gear |-> r.gear, gold |-> r.gold]
  OBVIOUS
<1>3. r = [slots |-> r.slots, gear |-> r.gear, gold |-> r.gold]
  BY <1>1, IntactFields
<1>4. [r EXCEPT !.slots = slots] = i
  BY <1>2, <1>3
<1>5. Intact(i) /\ i.slots = slots
  BY <1>1, <1>2, IntactFields, IntactMade
<1>6. /\ DOMAIN h = InvPlayers
      /\ \A o \in InvPlayers : h[o] = IF o = p THEN i ELSE f[o]
  BY <1>1, <1>4
<1>7. QED
  BY <1>5, <1>6

(* A slot from which q is taken, and that is removed when it is empty.     *)
LEMMA LessInSlot ==
  ASSUME NEW slots, InOrder(slots), NEW k \in 1..Len(slots), NEW left \in Int,
         left <= slots[k].quantity
  PROVE  /\ InOrder([slots EXCEPT ![k].quantity = left])
         /\ InOrder(Renumbered(RemoveAt(slots, k)))
<1>1. PICK n \in Nat : n = Len(slots)
  BY Slotted
<1>2. /\ n <= maxInventorySize /\ slots \in [1..n -> InventorySlot] /\ k \in 1..n
      /\ \A j \in 1..n : slots[j].position = j - 1 /\ NoOverflow(slots[j])
  BY <1>1, Slotted
<1>3. PICK s : s = [slots[k] EXCEPT !.quantity = left]
  OBVIOUS
<1>4. slots[k] \in InventorySlot /\ slots[k].position = k - 1 /\ NoOverflow(slots[k])
  BY <1>2
<1>5. /\ s \in InventorySlot /\ s.quantity = left
      /\ s.item = slots[k].item /\ s.position = slots[k].position
  BY <1>3, <1>4, SlotChanged
<1>6. NoOverflow(s)
  <2>1. SUFFICES ASSUME s.item \in Items PROVE left <= Stack[s.item]
    BY <1>5 DEF NoOverflow
  <2>2. /\ slots[k].quantity <= Stack[s.item] /\ Stack[s.item] \in Nat
        /\ slots[k].quantity \in Int
    BY <1>4, <1>5, <2>1, InventoryAssumption DEF NoOverflow, InventorySlot
  <2>3. QED
    BY <2>2
<1>7. InOrder([slots EXCEPT ![k] = s])
  BY <1>4, <1>5, <1>6, SlotReplaced
<1>8. [slots EXCEPT ![k].quantity = left] = [slots EXCEPT ![k] = s]
  BY <1>3
<1>9. InOrder(Renumbered(RemoveAt(slots, k)))
  BY <1>2, RemovedKeeps
<1>10. QED
  BY <1>7, <1>8, <1>9

LEMMA ItemSlotIs ==
  ASSUME NEW slots, InOrder(slots), NEW i
  PROVE  FindItemSlot(slots, i) = 0 \/ FindItemSlot(slots, i) \in 1..Len(slots)
<1>1. PICK K : K = {k \in DOMAIN slots : Stacked(slots[k], i)}
  OBVIOUS
<1>2. K \subseteq 1..Len(slots) /\ Len(slots) \in Nat
  BY <1>1, Slotted
<1>3. First(K) = 0 \/ First(K) \in K
  BY <1>2, FirstIs
<1>4. QED
  BY <1>1, <1>2, <1>3 DEF FindItemSlot

LEMMA TransferStores ==
  ASSUME StoreIInv, PicksIInv, NEW p \in InvPlayers, NEW to \in InvPlayers, NEW q \in Amounts,
         TransferItem(p, to, q)
  PROVE  StoreIInv'
<1>1. PICK i : i = picked[p].item
  OBVIOUS
<1>2. i \in Items /\ q \in Nat /\ inv[p] # NoInventory /\ DOMAIN inv = InvPlayers
  BY <1>1, InventoryAssumption DEF TransferItem, Known, PicksIInv, StoreIInv
<1> DEFINE goes == /\ inv[to] # NoInventory /\ FindItemSlot(Slots(p), i) # 0
                   /\ Count(Slots(p), i) >= q
<1>3. CASE ~goes
  BY <1>1, <1>3, StoreStays DEF TransferItem
<1>4. CASE goes
  <2>1. PICK put : put = Put(inv[to].slots, i, q)
    OBVIOUS
  <2>2. PICK g : g = [inv EXCEPT ![to].slots = put.slots]
    OBVIOUS
  <2>3. PICK k : k = FindItemSlot(inv[p].slots, i)
    OBVIOUS
  <2>4. PICK left : left = g[p].slots[k].quantity - q
    OBVIOUS
  <2>5. PICK t : t = Given(inv, p, to, i, q)
    OBVIOUS
  <2>6. t = IF put.left > 0 THEN [ok |-> FALSE, inv |-> g]
            ELSE [ok |-> TRUE,
                  inv |-> [g EXCEPT ![p].slots =
                             IF left = 0 THEN Renumbered(RemoveAt(@, k))
                             ELSE [@ EXCEPT ![k].quantity = left]]]
    BY <2>1, <2>2, <2>3, <2>4, <2>5 DEF Given
  <2>7. /\ InOrder(put.slots) /\ Len(put.slots) >= Len(inv[to].slots)
        /\ Intact(inv[to])
    BY <1>2, <1>4, <2>1, OfPlayer, PutKeeps
  <2>8. /\ DOMAIN g = InvPlayers /\ Intact(g[to])
        /\ g[to].slots = put.slots
        /\ \A o \in InvPlayers : o # to => g[o] = inv[o]
    BY <1>2, <2>2, <2>7, SlotsPut
  <2>9. CASE put.left > 0
    <3>1. inv' = g
      BY <1>1, <1>4, <2>5, <2>6, <2>9 DEF TransferItem
    <3>2. Replaces(g)
      BY <2>8 DEF StoreIInv, Carried, Replaces
    <3>3. QED
      BY <3>1, <3>2, StoreKeeps
  <2>10. CASE ~(put.left > 0)
    <3>1. PICK slots : slots = g[p].slots
      OBVIOUS
    <3>2. Intact(g[p])
      BY <1>2, <2>8, OfPlayer
    <3>3. InOrder(slots)
      BY <3>1, <3>2, IntactFields
    <3>4. k \in 1..Len(slots)
      <4>1. k \in 1..Len(inv[p].slots) /\ Len(inv[p].slots) \in Nat
        BY <1>2, <1>4, <2>3, OfPlayer, ItemSlotIs, Slotted DEF Slots
      <4>2. Len(slots) >= Len(inv[p].slots) /\ Len(slots) \in Nat
        <5>1. CASE p = to
          BY <2>7, <2>8, <3>1, <3>3, <5>1, Slotted
        <5>2. CASE p # to
          BY <2>8, <3>1, <4>1, <5>2
        <5>3. QED
          BY <5>1, <5>2
      <4>3. QED
        BY <4>1, <4>2
    <3>5. left \in Int /\ left <= slots[k].quantity
      <4>1. slots[k].quantity \in Int
        BY <3>3, <3>4, Slotted DEF InventorySlot
      <4>2. QED
        BY <1>2, <2>4, <3>1, <4>1
    <3>6. PICK new : new = IF left = 0 THEN Renumbered(RemoveAt(slots, k))
                           ELSE [slots EXCEPT ![k].quantity = left]
      OBVIOUS
    <3>7. InOrder(new)
      BY <3>3, <3>4, <3>5, <3>6, LessInSlot
    <3>8. PICK h : h = [g EXCEPT ![p].slots = new]
      OBVIOUS
    <3>9. /\ DOMAIN h = InvPlayers /\ Intact(h[p])
          /\ \A o \in InvPlayers : o # p => h[o] = g[o]
      BY <2>8, <3>2, <3>7, <3>8, SlotsPut
    <3>10. Replaces(h)
      BY <2>8, <3>9 DEF Replaces, StoreIInv, Carried
    <3>11. t.ok /\ t.inv = h
      <4>1. [g EXCEPT ![p].slots = IF left = 0 THEN Renumbered(RemoveAt(@, k))
                                   ELSE [@ EXCEPT ![k].quantity = left]] = h
        BY <3>1, <3>6, <3>8
      <4>2. QED
        BY <2>6, <2>10, <4>1
    <3>12. Save(h)
      BY <1>1, <1>4, <2>5, <3>11 DEF TransferItem
    <3>13. QED
      BY <3>10, <3>12, StoreKeeps DEF Save
  <2>11. QED
    BY <2>9, <2>10
<1>5. QED
  BY <1>3, <1>4

LEMMA MoveStores ==
  ASSUME StoreIInv, NEW p \in InvPlayers, NEW j, NEW k, MoveItem(p, j, k)
  PROVE  StoreIInv'
<1>1. PICK slots : slots = Slots(p)
  OBVIOUS
<1>2. inv[p] # NoInventory
  BY DEF MoveItem, Known
<1>3. InOrder(slots)
  BY <1>1, <1>2, OfPlayer DEF Slots
<1>4. PICK n \in Nat : n = Len(slots)
  BY <1>3, Slotted
<1>5. /\ n <= maxInventorySize /\ slots \in [1..n -> InventorySlot]
      /\ \A m \in 1..n : NoOverflow(slots[m])
  BY <1>3, <1>4, Slotted
<1>6. j \in 1..n /\ k \in 1..n
  BY <1>1, <1>3, <1>4, Slotted DEF MoveItem, Positions
<1>7. PICK swapped : swapped = [slots EXCEPT ![j] = slots[k], ![k] = slots[j]]
  OBVIOUS
<1>8. /\ swapped \in [1..n -> InventorySlot]
      /\ \A m \in 1..n : swapped[m] = IF m = k THEN slots[j] ELSE IF m = j THEN slots[k] ELSE slots[m]
  BY <1>5, <1>6, <1>7
<1>9. \A m \in 1..n : NoOverflow(swapped[m])
  BY <1>5, <1>6, <1>8
<1>10. InOrder(Renumbered(swapped))
  BY <1>5, <1>8, <1>9, RenumberedKeeps
<1>11. Save([inv EXCEPT ![p].slots = Renumbered(swapped)])
  BY <1>1, <1>7 DEF MoveItem, WithSlots
<1>12. PICK new : new = Renumbered(swapped)
  OBVIOUS
<1>13. QED
  BY <1>2, <1>10, <1>11, <1>12, SlotsStored

LEMMA SplitStores ==
  ASSUME StoreIInv, NEW p \in InvPlayers, NEW k, NEW q \in Amounts, SplitStack(p, k, q)
  PROVE  StoreIInv'
<1>1. PICK slots : slots = Slots(p)
  OBVIOUS
<1>2. inv[p] # NoInventory /\ q \in Nat
  BY InventoryAssumption DEF SplitStack, Known
<1>3. InOrder(slots)
  BY <1>1, <1>2, OfPlayer DEF Slots
<1>4. k \in 1..Len(slots)
  BY <1>1, <1>3, Slotted DEF SplitStack, Positions
<1>5. /\ slots[k] \in InventorySlot /\ NoOverflow(slots[k]) /\ slots[k].quantity \in Int
      /\ DOMAIN slots = 1..Len(slots)
  BY <1>3, <1>4, Slotted DEF InventorySlot
<1>6. /\ slots[k].item \in Items /\ q > 0 /\ slots[k].quantity > q
      /\ Len(slots) < maxInventorySize
  BY <1>1 DEF SplitStack
<1>7. PICK left \in Int : left = slots[k].quantity - q /\ left <= slots[k].quantity
  <2>1. PICK x \in Int : x = slots[k].quantity
    BY <1>5
  <2>2. x - q \in Int /\ x - q <= x
    BY <1>2
  <2>3. QED
    BY <2>1, <2>2
<1>8. PICK rest : rest = [slots EXCEPT ![k].quantity = left]
  OBVIOUS
<1>9. InOrder(rest)
  BY <1>3, <1>4, <1>7, <1>8, LessInSlot
<1>10. Len(rest) = Len(slots)
  BY <1>3, <1>8 DEF InOrder
<1>11. PICK s : s = [item |-> slots[k].item, quantity |-> q, position |-> Len(slots)]
  OBVIOUS
<1>12. Len(slots) \in Nat
  BY <1>3, Slotted
<1>13. s \in InventorySlot /\ s.item = slots[k].item /\ s.quantity = q /\ s.position = Len(slots)
  BY <1>2, <1>6, <1>11, <1>12 DEF InventorySlot
<1>14. NoOverflow(s)
  <2>1. slots[k].quantity <= Stack[s.item] /\ Stack[s.item] \in Nat
    BY <1>5, <1>6, <1>13, InventoryAssumption DEF NoOverflow
  <2>2. QED
    BY <1>2, <1>5, <1>6, <1>13, <2>1 DEF NoOverflow
<1>15. PICK new : new = Append(rest, s)
  OBVIOUS
<1>16. InOrder(new)
  BY <1>6, <1>9, <1>10, <1>13, <1>14, <1>15, SlotAdded
<1>17. Save([inv EXCEPT ![p].slots =
                    Append([slots EXCEPT ![k].quantity = slots[k].quantity - q],
                           [item |-> slots[k].item, quantity |-> q, position |-> Len(slots)])])
  BY <1>1 DEF SplitStack, WithSlots
<1>18. Save([inv EXCEPT ![p].slots = new])
  BY <1>7, <1>8, <1>11, <1>15, <1>17
<1>19. QED
  BY <1>2, <1>16, <1>18, SlotsStored

LEMMA MergeStores ==
  ASSUME StoreIInv, NEW p \in InvPlayers, NEW j, NEW k, MergeStacks(p, j, k)
  PROVE  StoreIInv'
<1>1. PICK slots : slots = Slots(p)
  OBVIOUS
<1>2. inv[p] # NoInventory
  BY DEF MergeStacks, Known
<1>3. InOrder(slots)
  BY <1>1, <1>2, OfPlayer DEF Slots
<1>4. PICK n \in Nat : n = Len(slots)
  BY <1>3, Slotted
<1>5. j \in 1..n /\ k \in 1..n /\ j # k
  BY <1>1, <1>3, <1>4, Slotted DEF MergeStacks, Positions
<1>6. /\ slots[j] \in InventorySlot /\ slots[k] \in InventorySlot /\ NoOverflow(slots[j])
      /\ slots[j].quantity \in Int /\ slots[k].quantity \in Int
      /\ slots[k].position = k - 1 /\ DOMAIN slots = 1..n
  BY <1>3, <1>4, <1>5, Slotted DEF InventorySlot
<1>7. /\ slots[j].item \in Items /\ slots[k].item = slots[j].item
      /\ slots[k].quantity < Stack[slots[j].item]
  BY <1>1 DEF MergeStacks
<1>8. PICK c \in Nat : c = Stack[slots[j].item]
  BY <1>7, InventoryAssumption
<1>9. PICK m : m = Least(slots[j].quantity, c - slots[k].quantity)
  OBVIOUS
<1>10. /\ m \in Int /\ slots[k].quantity + m <= c
       /\ slots[j].quantity - m <= c /\ slots[j].quantity - m \in Int
  BY <1>6, <1>7, <1>8, <1>9, SMTT(30) DEF Least, NoOverflow
<1>11. PICK more \in Int : more = slots[k].quantity + m
  BY <1>6, <1>10
<1>12. PICK less \in Int : less = slots[j].quantity - m
  BY <1>10
<1>13. PICK s : s = [slots[k] EXCEPT !.quantity = more]
  OBVIOUS
<1>14. /\ s \in InventorySlot /\ s.quantity = more
       /\ s.item = slots[k].item /\ s.position = slots[k].position
  BY <1>6, <1>13, SlotChanged
<1>15. NoOverflow(s)
  BY <1>7, <1>8, <1>10, <1>11, <1>14 DEF NoOverflow
<1>16. PICK filled : filled = [slots EXCEPT ![k] = s]
  OBVIOUS
<1>17. InOrder(filled)
  BY <1>3, <1>4, <1>5, <1>6, <1>14, <1>15, <1>16, SlotReplaced
<1>18. PICK u : u = [slots[j] EXCEPT !.quantity = less]
  OBVIOUS
<1>19. /\ u \in InventorySlot /\ u.quantity = less
       /\ u.item = slots[j].item /\ u.position = slots[j].position
  BY <1>6, <1>18, SlotChanged
<1>20. NoOverflow(u) /\ u.position = j - 1
  BY <1>3, <1>4, <1>5, <1>7, <1>8, <1>10, <1>12, <1>19, Slotted DEF NoOverflow
<1>21. PICK merged : merged = [filled EXCEPT ![j] = u]
  OBVIOUS
<1>22. Len(filled) = n
  BY <1>3, <1>4, <1>16 DEF InOrder
<1>23. InOrder(merged) /\ Len(merged) = n
  <2>1. InOrder(merged)
    BY <1>5, <1>17, <1>19, <1>20, <1>21, <1>22, SlotReplaced
  <2>2. Len(merged) = n
    BY <1>17, <1>21, <1>22 DEF InOrder
  <2>3. QED
    BY <2>1, <2>2
<1>24. InOrder(Renumbered(RemoveAt(merged, j)))
  <2>1. /\ n <= maxInventorySize /\ merged \in [1..n -> InventorySlot]
        /\ \A o \in 1..n : NoOverflow(merged[o])
    BY <1>23, Slotted
  <2>2. QED
    BY <1>5, <2>1, RemovedKeeps
<1>25. merged = [slots EXCEPT ![k].quantity = @ + m, ![j].quantity = @ - m]
  <2>1. /\ [slots EXCEPT ![k].quantity = @ + m] = filled
        /\ filled[j] = slots[j]
    BY <1>5, <1>6, <1>11, <1>13, <1>16
  <2>2. [filled EXCEPT ![j].quantity = @ - m] = merged
    BY <1>12, <1>18, <1>21, <2>1
  <2>3. QED
    BY <2>1, <2>2
<1>26. PICK new : new = IF m = slots[j].quantity THEN Renumbered(RemoveAt(merged, j)) ELSE merged
  OBVIOUS
<1>27. InOrder(new)
  BY <1>23, <1>24, <1>26
<1>28. Save([inv EXCEPT ![p].slots = new])
  BY <1>1, <1>8, <1>9, <1>25, <1>26 DEF MergeStacks, WithSlots
<1>29. QED
  BY <1>2, <1>27, <1>28, SlotsStored

LEMMA UnequipStores ==
  ASSUME StoreIInv, NEW p \in InvPlayers, NEW g \in Gear, NEW q \in Amounts,
         Known(p), UnequipItem(p, g, q)
  PROVE  StoreIInv'
<1>1. PICK slots, gear, gold : slots = Slots(p) /\ gear = inv[p].gear /\ gold = inv[p].gold
  OBVIOUS
<1>2. PICK worn : worn = gear[g]
  OBVIOUS
<1>3. inv[p] # NoInventory /\ q \in Nat
  BY InventoryAssumption DEF Known
<1>4. /\ InOrder(slots) /\ gear \in [Gear -> InventorySlot] /\ gold \in 0..MaxGold
      /\ \A h \in Gear : NoOverflow(gear[h])
      /\ inv[p] = [slots |-> slots, gear |-> gear, gold |-> gold]
  BY <1>1, <1>3, OfPlayer DEF Slots
<1>5. worn \in InventorySlot /\ NoOverflow(worn)
  BY <1>2, <1>4
<1>6. /\ worn.item \in Items /\ q > 0 /\ worn.quantity >= q
      /\ Len(slots) < maxInventorySize
  BY <1>1, <1>2 DEF UnequipItem
<1>7. worn.quantity \in Int /\ worn.quantity <= Stack[worn.item] /\ Stack[worn.item] \in Nat
  BY <1>5, <1>6, InventoryAssumption DEF InventorySlot, NoOverflow
<1>8. PICK s : s = IF worn.quantity = q THEN Empty ELSE [worn EXCEPT !.quantity = worn.quantity - q]
  OBVIOUS
<1>9. s \in InventorySlot /\ NoOverflow(s)
  <2>1. CASE worn.quantity = q
    BY <1>8, <2>1, InventoryAssumption DEF Empty, InventorySlot, NoOverflow
  <2>2. CASE worn.quantity # q
    <3>1. PICK left \in Int : left = worn.quantity - q
      BY <1>3, <1>7
    <3>2. s = [worn EXCEPT !.quantity = left]
      BY <1>8, <2>2, <3>1
    <3>3. s \in InventorySlot /\ s.quantity = left /\ s.item = worn.item
      BY <1>5, <3>2, SlotChanged
    <3>4. QED
      BY <1>3, <1>7, <3>1, <3>3 DEF NoOverflow
  <2>3. QED
    BY <2>1, <2>2
<1>10. PICK u : u = [item |-> worn.item, quantity |-> q, position |-> Len(slots)]
  OBVIOUS
<1>11. Len(slots) \in Nat
  BY <1>4, Slotted
<1>12. u \in InventorySlot /\ u.item = worn.item /\ u.quantity = q /\ u.position = Len(slots)
  BY <1>3, <1>6, <1>10, <1>11 DEF InventorySlot
<1>13. NoOverflow(u)
  BY <1>3, <1>6, <1>7, <1>12 DEF NoOverflow
<1>14. PICK put : put = Append(slots, u)
  OBVIOUS
<1>15. InOrder(put)
  BY <1>4, <1>6, <1>12, <1>13, <1>14, SlotAdded
<1>16. PICK new : new = [gear EXCEPT ![g] = s]
  OBVIOUS
<1>17. new \in [Gear -> InventorySlot] /\ \A h \in Gear : NoOverflow(new[h])
  BY <1>4, <1>9, <1>16
<1>18. PICK i : i = [slots |-> put, gear |-> new, gold |-> gold]
  OBVIOUS
<1>19. Intact(i)
  BY <1>4, <1>15, <1>17, <1>18, IntactMade
<1>20. WithGear(inv[p], g, s, put) = i
  <2>1. PICK r : r = inv[p]
    OBVIOUS
  <2>2. WithGear(r, g, s, put) = i
    BY <1>4, <1>16, <1>18, <2>1, WornAndSlots
  <2>3. QED
    BY <2>1, <2>2
<1>21. Save([inv EXCEPT
             ![p].gear[g] = IF worn.quantity = q THEN Empty
                            ELSE [worn EXCEPT !.quantity = worn.quantity - q],
             ![p].slots = Append(@, [item |-> worn.item, quantity |-> q, position |-> Len(@)])])
  BY <1>1, <1>2 DEF UnequipItem
<1>22. [inv EXCEPT
             ![p].gear[g] = IF worn.quantity = q THEN Empty
                            ELSE [worn EXCEPT !.quantity = worn.quantity - q],
             ![p].slots = Append(@, [item |-> worn.item, quantity |-> q, position |-> Len(@)])]
       = [inv EXCEPT ![p] = i]
  <2>1. inv[p].slots = slots
    BY <1>1 DEF Slots
  <2>2. Append(inv[p].slots, [item |-> worn.item, quantity |-> q, position |-> Len(inv[p].slots)])
        = put
    BY <1>10, <1>14, <2>1
  <2>3. DOMAIN inv = InvPlayers
    BY DEF StoreIInv
  <2>4. [inv[p] EXCEPT !.gear[g] = s, !.slots = put] = i
    BY <1>20 DEF WithGear
  <2>5. QED
    BY <1>8, <2>2, <2>3, <2>4
<1>23. Save([inv EXCEPT ![p] = i])
  BY <1>21, <1>22
<1>24. QED
  BY <1>19, <1>23, InventoryStored

LEMMA GoldPut ==
  ASSUME NEW i, Intact(i), NEW gold \in 0..MaxGold
  PROVE  Intact([i EXCEPT !.gold = gold]) /\ [i EXCEPT !.gold = gold].gold = gold
<1>1. PICK new : new = [slots |-> i.slots, gear |-> i.gear, gold |-> gold]
  OBVIOUS
<1>2. Intact(new) /\ new.gold = gold
  BY <1>1, IntactFields, IntactMade
<1>3. [i EXCEPT !.gold = gold] = new
  BY <1>1, IntactFields
<1>4. QED
  BY <1>2, <1>3

LEMMA AddGoldStores ==
  ASSUME StoreIInv, NEW p \in InvPlayers, NEW n \in GoldAmounts, AddGold(p, n)
  PROVE  StoreIInv'
<1>1. PICK old : old = IF inv[p] = NoInventory THEN PlayerInventory ELSE inv[p]
  OBVIOUS
<1>2. Intact(old) /\ old.gold \in 0..MaxGold
  BY <1>1, OldIs, IntactFields
<1>3. n \in Int /\ n >= 0 /\ MaxGold \in Nat
  BY InventoryAssumption DEF AddGold
<1>4. PICK gold \in 0..MaxGold : gold = Least(old.gold + n, MaxGold)
  BY <1>2, <1>3 DEF Least
<1>5. PICK i : i = [old EXCEPT !.gold = gold]
  OBVIOUS
<1>6. Intact(i)
  BY <1>2, <1>4, <1>5, GoldPut
<1>7. Save([inv EXCEPT ![p] = [old EXCEPT !.gold = Least(@ + n, MaxGold)]])
  BY <1>1 DEF AddGold
<1>8. Save([inv EXCEPT ![p] = i])
  BY <1>4, <1>5, <1>7
<1>9. QED
  BY <1>6, <1>8, InventoryStored

LEMMA GoldLeft ==
  ASSUME StoreIInv, NEW p \in InvPlayers, inv[p] # NoInventory, NEW n \in Int,
         n >= 0, inv[p].gold >= n
  PROVE  Intact([inv[p] EXCEPT !.gold = inv[p].gold - n])
<1>1. PICK i : i = inv[p] /\ Intact(i) /\ i.gold \in 0..MaxGold
  BY OfPlayer
<1>2. PICK gold \in 0..MaxGold : gold = i.gold - n
  BY <1>1, InventoryAssumption
<1>3. Intact([i EXCEPT !.gold = gold]) /\ [i EXCEPT !.gold = gold].gold = gold
  BY <1>1, <1>2, GoldPut
<1>4. QED
  BY <1>1, <1>2, <1>3

LEMMA RemoveGoldStores ==
  ASSUME StoreIInv, NEW p \in InvPlayers, NEW n \in GoldAmounts, RemoveGold(p, n)
  PROVE  StoreIInv'
<1>1. inv[p] # NoInventory /\ n \in Int /\ n >= 0 /\ inv[p].gold >= n
  BY InventoryAssumption DEF RemoveGold, Known
<1>2. PICK i : i = [inv[p] EXCEPT !.gold = inv[p].gold - n]
  OBVIOUS
<1>3. Intact(i)
  BY <1>1, <1>2, GoldLeft
<1>4. Save([inv EXCEPT ![p].gold = @ - n])
  BY DEF RemoveGold
<1>5. [inv EXCEPT ![p].gold = @ - n] = [inv EXCEPT ![p] = i]
  BY <1>2
<1>6. Save([inv EXCEPT ![p] = i])
  BY <1>4, <1>5
<1>7. QED
  BY <1>3, <1>6, InventoryStored

LEMMA TransferGoldStores ==
  ASSUME StoreIInv, NEW p \in InvPlayers, NEW to \in InvPlayers, NEW n \in GoldAmounts,
         TransferGold(p, to, n)
  PROVE  StoreIInv'
<1>1. /\ inv[p] # NoInventory /\ inv[to] # NoInventory /\ p # to
      /\ n \in Int /\ n >= 0 /\ inv[p].gold >= n
  BY InventoryAssumption DEF TransferGold, Known
<1>2. PICK i : i = [inv[p] EXCEPT !.gold = inv[p].gold - n]
  OBVIOUS
<1>3. Intact(i)
  BY <1>1, <1>2, GoldLeft
<1>4. PICK r : r = inv[to]
  OBVIOUS
<1>5. Intact(r) /\ r.gold \in 0..MaxGold /\ DOMAIN inv = InvPlayers
  BY <1>1, <1>4, OfPlayer
<1>6. PICK gold \in 0..MaxGold : gold = Least(r.gold + n, MaxGold)
  BY <1>1, <1>5, InventoryAssumption DEF Least
<1>7. PICK j : j = [r EXCEPT !.gold = gold]
  OBVIOUS
<1>8. Intact(j)
  BY <1>5, <1>6, <1>7, GoldPut
<1>9. PICK f : f = [inv EXCEPT ![p] = i, ![to] = j]
  OBVIOUS
<1>10. /\ DOMAIN f = InvPlayers
       /\ \A o \in InvPlayers : f[o] = IF o = to THEN j ELSE IF o = p THEN i ELSE inv[o]
  BY <1>5, <1>9
<1>11. Replaces(f)
  BY <1>3, <1>8, <1>10 DEF Replaces, Carried, StoreIInv
<1>12. Save([inv EXCEPT ![p].gold = @ - n, ![to].gold = Least(@ + n, MaxGold)])
  BY DEF TransferGold
<1>13. [inv EXCEPT ![p].gold = @ - n, ![to].gold = Least(@ + n, MaxGold)] = f
  BY <1>1, <1>2, <1>4, <1>5, <1>6, <1>7, <1>9
<1>14. Save(f)
  BY <1>12, <1>13
<1>15. QED
  BY <1>11, <1>14, StoreKeeps DEF Save

LEMMA RestartStores == ASSUME InventoryRestart PROVE StoreIInv'
BY DEF InventoryRestart, StoreIInv, Carried

-----------------------------------------------------------------------------
(* What was read and what lies in the world.                               *)
LEMMA PicksStay ==
  ASSUME PicksIInv, picked' = picked, loot' \subseteq loot PROVE PicksIInv'
BY DEF PicksIInv

LEMMA PicksClear ==
  ASSUME PicksIInv, NEW p \in InvPlayers, picked' = [picked EXCEPT ![p] = NoPick], loot' = loot
  PROVE  PicksIInv'
BY DEF PicksIInv

LEMMA InventoryStep ==
  ASSUME StoreIInv, PicksIInv, [InventoryNext]_inventoryVars
  PROVE  StoreIInv' /\ PicksIInv'
<1>1. CASE UNCHANGED inventoryVars
  <2>1. UNCHANGED inv /\ picked' = picked /\ loot' = loot
    BY <1>1 DEF inventoryVars
  <2>2. QED
    BY <2>1, StoreStays, PicksStay
<1>2. ASSUME NEW p \in InvPlayers, LoadFromDatabase(p) PROVE StoreIInv' /\ PicksIInv'
  BY <1>2, LoadStores, PicksStay DEF LoadFromDatabase
<1>3. ASSUME NEW p \in InvPlayers, NEW e \in loot, NEW q \in Amounts, LootPickup(p, e, q)
      PROVE  StoreIInv' /\ PicksIInv'
  <2>1. picked' = picked /\ loot' \subseteq loot
    BY <1>3 DEF LootPickup
  <2>2. QED
    BY <1>3, <2>1, PickupStores, PicksStay
<1>4. ASSUME NEW p \in InvPlayers, NEW k \in Positions(p), GetItem(p, k)
      PROVE  StoreIInv' /\ PicksIInv'
  <2>1. /\ UNCHANGED <<inv, loot, stuck>> /\ Slots(p)[k].item \in Items
        /\ picked' = [picked EXCEPT ![p] = [item |-> Slots(p)[k].item, slot |-> k]]
    BY <1>4 DEF GetItem
  <2>2. PICK pick : pick = [item |-> Slots(p)[k].item, slot |-> k]
    OBVIOUS
  <2>3. picked' = [picked EXCEPT ![p] = pick] /\ pick.item \in Items
    <3>1. pick.item = Slots(p)[k].item
      BY <2>2
    <3>2. QED
      BY <2>1, <2>2, <3>1
  <2>4. PicksIInv'
    BY <2>1, <2>3 DEF PicksIInv
  <2>5. QED
    BY <2>1, <2>4, StoreStays
<1>5. ASSUME NEW p \in InvPlayers, NEW q \in Amounts, RemoveItem(p, q) \/ UseItem(p, q) \/ EquipItem(p, q)
      PROVE  StoreIInv' /\ PicksIInv'
  <2>1. picked' = [picked EXCEPT ![p] = NoPick] /\ loot' = loot
    BY <1>5 DEF RemoveItem, UseItem, EquipItem
  <2>2. QED
    BY <1>5, <2>1, RemoveStores, UseStores, EquipStores, PicksClear
<1>6. ASSUME NEW p \in InvPlayers, NEW q \in Amounts, NEW to \in InvPlayers, TransferItem(p, to, q)
      PROVE  StoreIInv' /\ PicksIInv'
  <2>1. picked' = [picked EXCEPT ![p] = NoPick] /\ loot' = loot
    BY <1>6 DEF TransferItem
  <2>2. QED
    BY <1>6, <2>1, TransferStores, PicksClear
<1>7. ASSUME NEW p \in InvPlayers, NEW j \in Positions(p), NEW k \in Positions(p),
             MoveItem(p, j, k) \/ MergeStacks(p, j, k)
      PROVE  StoreIInv' /\ PicksIInv'
  <2>1. picked' = picked /\ loot' = loot
    BY <1>7 DEF MoveItem, MergeStacks
  <2>2. QED
    BY <1>7, <2>1, MoveStores, MergeStores, PicksStay
<1>8. ASSUME NEW p \in InvPlayers, NEW k \in Positions(p), NEW q \in Amounts, SplitStack(p, k, q)
      PROVE  StoreIInv' /\ PicksIInv'
  <2>1. picked' = picked /\ loot' = loot
    BY <1>8 DEF SplitStack
  <2>2. QED
    BY <1>8, <2>1, SplitStores, PicksStay
<1>9. ASSUME NEW p \in InvPlayers, NEW g \in Gear, NEW q \in Amounts, Known(p), UnequipItem(p, g, q)
      PROVE  StoreIInv' /\ PicksIInv'
  <2>1. picked' = picked /\ loot' = loot
    BY <1>9 DEF UnequipItem
  <2>2. QED
    BY <1>9, <2>1, UnequipStores, PicksStay
<1>10. ASSUME NEW p \in InvPlayers, NEW n \in GoldAmounts, AddGold(p, n) \/ RemoveGold(p, n)
       PROVE  StoreIInv' /\ PicksIInv'
  <2>1. picked' = picked /\ loot' = loot
    BY <1>10 DEF AddGold, RemoveGold
  <2>2. QED
    BY <1>10, <2>1, AddGoldStores, RemoveGoldStores, PicksStay
<1>11. ASSUME NEW p \in InvPlayers, NEW n \in GoldAmounts, NEW to \in InvPlayers, TransferGold(p, to, n)
       PROVE  StoreIInv' /\ PicksIInv'
  <2>1. picked' = picked /\ loot' = loot
    BY <1>11 DEF TransferGold
  <2>2. QED
    BY <1>11, <2>1, TransferGoldStores, PicksStay
<1>12. CASE InventoryRestart
  <2>1. PicksIInv'
    BY <1>12 DEF InventoryRestart, PicksIInv
  <2>2. QED
    BY <1>12, <2>1, RestartStores
<1>13. QED
  BY <1>1, <1>2, <1>3, <1>4, <1>5, <1>6, <1>7, <1>8, <1>9, <1>10, <1>11, <1>12
     DEF InventoryNext, InventoryOperation

LEMMA InventoryStart == InventoryInit => StoreIInv /\ PicksIInv
<1> SUFFICES ASSUME InventoryInit PROVE StoreIInv /\ PicksIInv
  OBVIOUS
<1>1. /\ inv = [p \in InvPlayers |-> NoInventory] /\ picked = [p \in InvPlayers |-> NoPick]
      /\ loot = DOMAIN Loot
  BY DEF InventoryInit
<1>2. QED
  BY <1>1 DEF StoreIInv, PicksIInv, Carried

LEMMA InventoriesFollow == StoreIInv => InventoryInv
<1> SUFFICES ASSUME StoreIInv PROVE InventoryInv
  OBVIOUS
<1>1. ASSUME NEW p \in InvPlayers PROVE InOrder(Slots(p))
  <2>1. CASE inv[p] = NoInventory
    BY <2>1, InventoryAssumption DEF Slots, NoInventory, InOrder
  <2>2. CASE inv[p] # NoInventory
    BY <2>2, OfPlayer DEF Slots
  <2>3. QED
    BY <2>1, <2>2
<1>2. SlotsNumbered
  BY <1>1, Slotted DEF SlotsNumbered, Positions
<1>3. WithinLimits
  BY <1>1, OfPlayer, Slotted DEF WithinLimits, Positions, NoOverflow
<1>4. SpaceAgrees
  BY <1>1, SpaceIsTold, InventoryAssumption DEF SpaceAgrees
<1>5. QED
  BY <1>2, <1>3, <1>4 DEF InventoryInv

(* What players carry and what they are given is as it should be: slots    *)
(* keep their order and their limits whatever is moved, merged, worn or    *)
(* given away, gold its own, the checks tell what fits (InventorySystem),  *)
(* and a draw gives what the table grants (LootTableManager).              *)
THEOREM ItemsAreSound == Spec => []ItemsInv
<1>1. Init => StoreIInv /\ PicksIInv
  BY InventoryStart DEF Init
<1>2. StoreIInv /\ PicksIInv /\ [Next]_vars => (StoreIInv /\ PicksIInv)'
  <2>1. [Next]_vars => [InventoryNext]_inventoryVars
    BY DEF Next, vars, inventoryVars
  <2>2. QED
    BY <2>1, InventoryStep
<1>3. Spec => [](focus = "loot" => Lt!LootInv)
  BY LootIsDue
<1>4. InventoryInv /\ (focus = "loot" => Lt!LootInv) => ItemsInv
  BY DEF ItemsInv
<1>5. QED
  BY <1>1, <1>2, <1>3, <1>4, InventoriesFollow, PTL DEF Spec
=============================================================================
