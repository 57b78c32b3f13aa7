------------------------------- MODULE Creatures -------------------------------
(***************************************************************************)
(* NPCs and mobs: NPCEntity and its AI, NPCManager, LogicEntity, MobSystem *)
(* and the two handlers of GameLogic that players reach them with.         *)
(*                                                                         *)
(* The game loop updates the NPCs under npcMutex_.  An io thread that      *)
(* handles an attack or a familiar command takes npcMutex_ only to look    *)
(* the NPC up and then works on it without a lock, so its steps interleave *)
(* with the loop's and with those of other io threads.                     *)
(*                                                                         *)
(* Health is counted in hits of 10, the damage of every attack.  Timers    *)
(* and random choices (wait, flee, stun, attack, get bored) are choices;   *)
(* an attack of an NPC changes nothing but its timers.  A position is near *)
(* a player (at most 15 away) or not.  NPCs are those that                 *)
(* InitializeNPCSystem spawns at the start; no caller despawns or respawns *)
(* one.  Of the mobs only the number in every spawn zone matters.          *)
(***************************************************************************)
EXTENDS Integers, FiniteSets

CONSTANTS Sessions,      \* sessions of the worker; a session is its player
          Guests,        \* those that have not logged in: their player is 0
          NPCs, Kind,    \* the NPCs and the NPCType of each
          Nobody,        \* the id 0
          Zones, maxMobs,
          MaxAttacks     \* bound on the attacks of a behaviour

ASSUME CreaturesAssumption ==
    /\ Guests \subseteq Sessions /\ Nobody \notin Sessions \cup NPCs
    /\ "collisions" \notin NPCs \cup {Nobody}   \* names no NPC: see Hung
    /\ maxMobs \in [Zones -> Nat] /\ MaxAttacks \in Nat

VARIABLES
    npc,        \* the NPCEntity objects
    registered, \* where the collision system has each NPC
    job,        \* the attack each session's io thread is handling
    told,       \* per NPC, the sessions that were told it is dead
    dealt,      \* per NPC, the attacks that reached GameEntity::TakeDamage
    attacks,    \* attacks so far
    turn,       \* UpdateNPCs of the game loop: the NPCs to do, the one at hand
    zoneMobs,   \* mobs of each spawn zone
    crashed     \* two threads in one std::map at a time ended the process

fight == <<job, told, dealt, attacks>>
creaturesVars == <<npc, registered, fight, turn, zoneMobs, crashed>>

PlayerOf(s) == IF s \in Guests THEN Nobody ELSE s

(* The stats and the AI profile of a type at level 0, the level SpawnNPC   *)
(* passes on (its ownerId).                                                *)
MaxHits(type) == CASE type = "VILLAGER" -> 3 [] type = "GOBLIN" -> 5
                   [] type = "ORC" -> 8 [] type = "DRAGON" -> 45 [] OTHER -> 9

Aggressive(type) == type \in {"GOBLIN", "ORC", "TROLL", "DRAGON", "DRAGON_LORD"}
CanFlee(type) == type \in {"GOBLIN", "ORC", "TROLL"}

NewNPC(n) ==
    [type |-> Kind[n], hp |-> MaxHits(Kind[n]), ai |-> "IDLE", target |-> Nobody,
     active |-> TRUE, visible |-> TRUE, collidable |-> TRUE,
     moving |-> FALSE, near |-> TRUE,
     damage_taken |-> [s \in Sessions |-> 0]]

NoJob == [pc |-> "idle", npc |-> Nobody, seen |-> 0]

CreaturesInit ==
    /\ npc = [n \in NPCs |-> NewNPC(n)]
    /\ registered = [n \in NPCs |-> TRUE]
    /\ job = [s \in Sessions |-> NoJob]
    /\ told = [n \in NPCs |-> {}]
    /\ dealt = [n \in NPCs |-> 0]
    /\ attacks = 0
    /\ turn = [todo |-> NPCs, at |-> Nobody]
    /\ zoneMobs = [z \in Zones |-> 0]
    /\ crashed = FALSE

-----------------------------------------------------------------------------
(* What the member functions of NPCEntity make of an NPC e.                *)

IsDead(e) == e.hp = 0
HasTarget(e) == e.target # Nobody

Stop(e) == [e EXCEPT !.moving = FALSE]
MoveTo(e) == [e EXCEPT !.moving = TRUE]

ChangeToDead(e) ==
    [Stop(e) EXCEPT !.active = FALSE, !.visible = FALSE, !.collidable = FALSE,
                    !.ai = "DESPAWNING"]

SetAIState(e, state) ==
    LET f == [e EXCEPT !.ai = state]
    IN IF e.ai = state THEN e
       ELSE CASE state = "IDLE" -> Stop(f)
              [] state = "PATROL" -> MoveTo(f)
              [] state = "FLEE" -> IF HasTarget(f) THEN MoveTo(f) ELSE f
              [] state = "DEAD" -> ChangeToDead(f)
              [] OTHER -> f

SetTarget(e, t) ==
    LET f == [e EXCEPT !.target = t]
    IN IF t # Nobody /\ Aggressive(e.type) THEN SetAIState(f, "CHASE") ELSE f

(* The player that dealt the most damage heads the hate list.  Of players  *)
(* with the same damage any may come first.                                *)
UpdateHateList(e, s) ==
    LET f == [e EXCEPT !.damage_taken[s] = @ + 1]
        top == {p \in Sessions : \A q \in Sessions : f.damage_taken[q] <= f.damage_taken[p]}
    IN {SetTarget(f, p) : p \in top}

(* The update methods of the AI states: the NPCs e may become.             *)
UpdateIdle(e) ==
    IF Aggressive(e.type) /\ HasTarget(e) THEN {SetAIState(e, "CHASE")}
    ELSE {e, SetAIState(e, "PATROL")}

UpdatePatrol(e) ==
    IF Aggressive(e.type) /\ HasTarget(e) THEN {SetAIState(e, "CHASE")}
    ELSE {e, MoveTo(e), Stop(e)}

UpdateChase(e) ==
    IF ~HasTarget(e) THEN {SetAIState(e, "IDLE")}
    ELSE {SetAIState(e, "ATTACK"), SetAIState([e EXCEPT !.target = Nobody], "IDLE")}
           \cup {[e EXCEPT !.near = b] : b \in BOOLEAN}

UpdateAttack(e) ==
    IF ~HasTarget(e) THEN {SetAIState(e, "IDLE")}
    ELSE IF CanFlee(e.type) /\ 5 * e.hp <= MaxHits(e.type) THEN {SetAIState(e, "FLEE")}
    ELSE {e}

UpdateFlee(e) ==
    IF 10 * e.hp > 3 * MaxHits(e.type) THEN {SetAIState(e, "IDLE")}
    ELSE {e, SetAIState(e, "IDLE")}

(* UpdateAI: an NPC that is stunned does nothing.                          *)
UpdateAI(e) ==
    {e} \cup CASE e.ai = "IDLE" -> UpdateIdle(e)
               [] e.ai = "PATROL" -> UpdatePatrol(e)
               [] e.ai = "CHASE" -> UpdateChase(e)
               [] e.ai = "ATTACK" -> UpdateAttack(e)
               [] e.ai = "FLEE" -> UpdateFlee(e)
               [] OTHER -> {e}

(* Move and HandleMovement: whatever moves ends up anywhere.               *)
Moved(e) == IF e.moving THEN {[e EXCEPT !.near = b] : b \in BOOLEAN} ELSE {e}

(* GameEntity::Update, and the stop of one that has reached its goal.      *)
Advanced(e) == Moved(e) \cup {Stop(f) : f \in Moved(e)}

-----------------------------------------------------------------------------
(* GameLogic::OnNPCInteraction, an attack, step by step.                   *)

Attack(s, n) ==
    /\ ~crashed /\ job[s].pc = "idle" /\ attacks < MaxAttacks
    /\ PlayerOf(s) # Nobody /\ npc[n].near
    /\ attacks' = attacks + 1
    /\ job' = [job EXCEPT ![s] = [pc |-> IF IsDead(npc[n]) THEN "answer" ELSE "hate",
                                  npc |-> n, seen |-> 0]]
    /\ UNCHANGED <<npc, registered, told, dealt, turn, zoneMobs, crashed>>

(* UpdateHateList sorts a vector and writes a map of the NPC: a second     *)
(* thread that does the same may make an end of the process.               *)
Hate(s) ==
    LET n == job[s].npc
    IN /\ ~crashed /\ job[s].pc = "hate"
       /\ \E e \in UpdateHateList(npc[n], s) : npc' = [npc EXCEPT ![n] = e]
       /\ job' = [job EXCEPT ![s].pc = "read"]
       /\ crashed' \in IF \E t \in Sessions \ {s} : job[t].pc = "hate" /\ job[t].npc = n
                       THEN BOOLEAN ELSE {FALSE}
       /\ UNCHANGED <<registered, told, dealt, attacks, turn, zoneMobs>>

ReadHealth(s) ==
    LET n == job[s].npc
    IN /\ ~crashed /\ job[s].pc = "read"
       /\ job' = [job EXCEPT ![s].pc = IF IsDead(npc[n]) THEN "react" ELSE "write",
                             ![s].seen = npc[n].hp]
       /\ UNCHANGED <<npc, registered, told, dealt, attacks, turn, zoneMobs, crashed>>

(* SetHealth(health_ - damage), from the health that was read.             *)
WriteHealth(s) ==
    LET n == job[s].npc  hp == job[s].seen - 1
    IN /\ ~crashed /\ job[s].pc = "write"
       /\ npc' = [npc EXCEPT ![n].hp = hp, ![n].active = @ /\ hp # 0]
       /\ dealt' = [dealt EXCEPT ![n] = @ + 1]
       /\ job' = [job EXCEPT ![s].pc = "react"]
       /\ UNCHANGED <<registered, told, attacks, turn, zoneMobs, crashed>>

(* The rest of NPCEntity::TakeDamage.                                      *)
Reaction(e) ==
    IF IsDead(e) THEN SetAIState(e, "DEAD")
    ELSE LET f == IF HasTarget(e) /\ e.ai \notin {"CHASE", "ATTACK"}
                  THEN SetAIState(e, "CHASE") ELSE e
         IN IF 3 * MaxHits(e.type) < 10 THEN Stop(f) ELSE f

React(s) ==
    LET n == job[s].npc
    IN /\ ~crashed /\ job[s].pc = "react"
       /\ npc' = [npc EXCEPT ![n] = Reaction(@)]
       /\ job' = [job EXCEPT ![s].pc = "answer"]
       /\ UNCHANGED <<registered, told, dealt, attacks, turn, zoneMobs, crashed>>

(* A variant that answers by the health the attack found.                  *)
AnswerAsSeen(s) ==
    LET n == job[s].npc
    IN /\ ~crashed /\ job[s].pc = "answer"
       /\ told' = [told EXCEPT ![n] = IF job[s].seen = 0 THEN @ \cup {s} ELSE @]
       /\ job' = [job EXCEPT ![s] = NoJob]
       /\ UNCHANGED <<npc, registered, dealt, attacks, turn, zoneMobs, crashed>>

(* The reply says whether the NPC is dead; OnMobDeath finds no mob (GetMob *)
(* knows none) and returns.                                                *)
Answer(s) ==
    LET n == job[s].npc
    IN /\ ~crashed /\ job[s].pc = "answer"
       /\ told' = [told EXCEPT ![n] = IF IsDead(npc[n]) THEN @ \cup {s} ELSE @]
       /\ job' = [job EXCEPT ![s] = NoJob]
       /\ UNCHANGED <<npc, registered, dealt, attacks, turn, zoneMobs, crashed>>

(* GameLogic::OnFamiliarCommand: the owner of an NPC is its target, and a  *)
(* session that has not logged in owns those without one.                  *)
Obeys(e, command, t) ==
    CASE command = "follow" -> SetTarget([e EXCEPT !.ai = "FOLLOW"], e.target)
      [] command = "attack" -> SetTarget([e EXCEPT !.ai = "CHASE"], t)
      [] command = "stay" -> SetTarget([e EXCEPT !.ai = "IDLE"], Nobody)

FamiliarCommand(s, n) ==
    /\ ~crashed /\ job[s].pc = "idle" /\ npc[n].target = PlayerOf(s)
    /\ \E command \in {"follow", "attack", "stay"}, t \in (Sessions \ Guests) \cup {Nobody} :
          npc' = [npc EXCEPT ![n] = Obeys(@, command, t)]
    /\ UNCHANGED <<registered, fight, turn, zoneMobs, crashed>>

-----------------------------------------------------------------------------
(* LogicEntity::UpdateNPCs, on the game loop, with npcMutex_ held.         *)

(* NPCManager::ProcessNPCAI for one NPC: it moves; when it is active and   *)
(* not dead UpdateAI follows, and meanwhile an io thread may act on it.    *)
Advance(n) ==
    /\ ~crashed /\ n \in turn.todo /\ turn.at = Nobody
    /\ \E e \in Advanced(npc[n]) :
          IF e.active /\ e.ai \notin {"DEAD", "DESPAWNING"}
          THEN npc' = [npc EXCEPT ![n] = e] /\ turn' = [turn EXCEPT !.at = n]
          ELSE /\ \E f \in Moved(e) : npc' = [npc EXCEPT ![n] = f]
               /\ turn' = [turn EXCEPT !.todo = @ \ {n}]
    /\ UNCHANGED <<registered, fight, zoneMobs, crashed>>

Behave(n) ==
    /\ ~crashed /\ turn.at = n
    /\ \E e \in UpdateAI(npc[n]) : \E f \in Moved(e) : npc' = [npc EXCEPT ![n] = f]
    /\ turn' = [turn EXCEPT !.todo = @ \ {n}, !.at = Nobody]
    /\ UNCHANGED <<registered, fight, zoneMobs, crashed>>

(* MobSystem::UpdateSpawnZones, one mob for a zone that is due (of several *)
(* the others wait for the next update): it is not full and its            *)
(* respawnTime has passed, which is a choice.  No respawn is ever queued.  *)
SpawnMobInZone(z) == [zoneMobs EXCEPT ![z] = @ + 1]

UpdateSpawnZones(z) == zoneMobs[z] < maxMobs[z] /\ zoneMobs' = SpawnMobInZone(z)

NextTurn == [todo |-> NPCs, at |-> Nobody]

(* UpdateCollisions, which comes next, locks a mutex twice: the thread     *)
(* hangs there, or throws and starts over.                                 *)
Hung == [todo |-> {}, at |-> "collisions"]

(* When every NPC is done the collision system learns where they are.      *)
UpdateRegistered ==
    /\ ~crashed /\ turn.todo = {} /\ turn # Hung
    /\ registered' = [n \in NPCs |-> npc[n].near]
    /\ turn' \in {NextTurn, Hung}
    /\ UNCHANGED <<npc, fight, crashed>>

EndUpdate == UpdateRegistered /\ (UNCHANGED zoneMobs \/ \E z \in Zones : UpdateSpawnZones(z))

UpdateNPCs == EndUpdate \/ \E n \in NPCs : Advance(n) \/ Behave(n)

Handle(s) == Hate(s) \/ ReadHealth(s) \/ WriteHealth(s) \/ React(s) \/ Answer(s)

CreaturesNext ==
    \/ UpdateNPCs
    \/ \E s \in Sessions : \/ Handle(s)
                           \/ \E n \in NPCs : Attack(s, n) \/ FamiliarCommand(s, n)

-----------------------------------------------------------------------------
Fighting(n) == \E s \in Sessions : job[s].npc = n /\ job[s].pc # "idle"

(* An NPC without health is out of the world once the attacks on it are    *)
(* through: inactive, invisible and no obstacle.  NPCEntity::TakeDamage    *)
(* against attacks of other players and the AI of the game loop.           *)
DeadIsDown ==
    \A n \in NPCs : IsDead(npc[n]) /\ ~Fighting(n) =>
        ~npc[n].active /\ ~npc[n].visible /\ ~npc[n].collidable

(* A player was told of every death (response.is_dead).                    *)
DeathAnnounced == \A n \in NPCs : IsDead(npc[n]) /\ ~Fighting(n) => told[n] # {}

(* Attacks that race may lose damage, and never do more than they carry.   *)
NeverOverDamaged == \A n \in NPCs : npc[n].hp + dealt[n] >= MaxHits(npc[n].type)

(* What attacks of several players on one NPC come to.                     *)
FightInv == DeadIsDown /\ DeathAnnounced /\ NeverOverDamaged

(* Between two updates the collision system has every NPC, dead or alive,  *)
(* where it is.                                                            *)
CollisionFollows ==
    turn \in {NextTurn, Hung} => \A n \in NPCs : registered[n] = npc[n].near

(* The NPCs, fought by players and moved by the update thread.             *)
CreaturesInv == FightInv /\ CollisionFollows
=============================================================================
