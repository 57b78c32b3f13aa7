------------------------------ MODULE Characters ------------------------------
(***************************************************************************)
(* One player character: the class Player with its statistics, attributes, *)
(* buffs, possessions and quests, and the row it is saved in.              *)
(*                                                                         *)
(* The attributes kept are strength, dexterity and vitality, and of the    *)
(* derived ones attack_power and defense; the others are set and derived   *)
(* the same way.  Mana and gems are handled as health and gold are.  The   *)
(* time that is left of a buff or a cooldown is a choice: at every Update  *)
(* any of them may run out.  Slots, items, skills, quests, friends are     *)
(* small sets of names.  A character is a WARRIOR and HUMAN, as every      *)
(* Player that PlayerManager makes.                                        *)
(***************************************************************************)
EXTENDS Integers, FiniteSets, SequencesExt

CONSTANTS
    MAX_LEVEL, MAX_ACTIVE_QUESTS, MAX_BUFFS, MAX_FRIENDS,
    CalculateExperienceRequired,  \* of every level above the first
    Wearables, BodySlots, Buffs, Strength,  \* Strength: what a buff adds
    Abilities, Quests, Others,    \* Others: players to befriend
    Damages, Experiences,         \* amounts that are dealt and awarded
    MaxDeeds                      \* bound on the operations of a behaviour

ASSUME CharactersAssumption ==
    /\ MAX_LEVEL \in Nat \ {0}
    /\ CalculateExperienceRequired \in [2..MAX_LEVEL -> Nat]
    /\ Damages \subseteq Nat /\ Experiences \subseteq Nat

VARIABLES
    player,   \* the Player object
    saved,    \* the data of its row, or NotSaved
    hung,     \* a thread waits for mutex_ which it holds
    deeds     \* operations so far

charactersVars == <<player, saved, hung, deeds>>

NotSaved == [level |-> 0]

(* Records put together, the @@ of TLC, which the prover does not know.    *)
f ++ g == [x \in DOMAIN f \cup DOMAIN g |-> IF x \in DOMAIN f THEN f[x] ELSE g[x]]

-----------------------------------------------------------------------------
UpdateDerivedStats(p) ==
    [p EXCEPT !.attack_power = 2 * p.strength + p.dexterity,
              !.defense = p.vitality + p.dexterity \div 2]

ApplyClassBonuses(p) == [p EXCEPT !.strength = @ + 5, !.vitality = @ + 3]

ApplyRaceBonuses(p) ==
    [p EXCEPT !.strength = @ + 1, !.dexterity = @ + 1, !.vitality = @ + 1]

ExperienceToNextLevel(p) ==
    IF p.level >= MAX_LEVEL THEN 0 ELSE CalculateExperienceRequired[p.level + 1]

Stats == [health |-> 100, max_health |-> 100, level |-> 1, experience |-> 0,
          gold |-> 100, skill_points |-> 0, quests_completed |-> 0]

Attributes == [strength |-> 10, dexterity |-> 10, vitality |-> 10,
               attack_power |-> 10, defense |-> 5]

Equipment == [worn |-> [s \in BodySlots |-> "none"]]

Belongings == [items |-> [i \in Wearables |-> 0], skills |-> {}, cooldowns |-> {},
               active_quests |-> {}, completed_quests |-> {}, active_buffs |-> {},
               friends |-> {}, achievements |-> {}]

Player == UpdateDerivedStats(ApplyClassBonuses(ApplyRaceBonuses(
              Stats ++ Attributes ++ Equipment ++ Belongings ++ [status |-> "IDLE"])))

CharactersInit ==
    /\ player = Player
    /\ saved = NotSaved
    /\ hung = FALSE
    /\ deeds = 0

-----------------------------------------------------------------------------
(* Health                                                                  *)

Clamped(n, low, high) == IF n < low THEN low ELSE IF n > high THEN high ELSE n

SetHealth(p, h) ==
    LET q == [p EXCEPT !.health = Clamped(h, 0, p.max_health)]
    IN CASE q.health = 0 -> [q EXCEPT !.status = "DEAD"]
         [] q.health > 0 /\ p.status = "DEAD" -> [q EXCEPT !.status = "IDLE"]
         [] OTHER -> q

SetMaxHealth(p, m) == [p EXCEPT !.max_health = m, !.health = Clamped(@, 0, m)]

ActualDamage(p, d) == Clamped(d - p.defense \div 2, 1, d)

(* ApplyDamage and ApplyHealing change the health and not the status.      *)
ApplyDamage(p, d) ==
    [p EXCEPT !.health = Clamped(@ - ActualDamage(p, d), 0, p.max_health)]

ApplyHealing(p, n) == [p EXCEPT !.health = Clamped(@ + n, 0, p.max_health)]

(* An attack is dodged, blocked or parried (and then does nothing), or it  *)
(* hits; a character that was hit is in combat, even when it died of it.   *)
TakeDamage(p, d) ==
    IF p.health = 0 THEN {p}
    ELSE {p, SetHealth(p, p.health),
          [SetHealth(p, p.health - ActualDamage(p, d)) EXCEPT !.status = "COMBAT"]}

Heal(p, n) == IF p.health = 0 THEN p ELSE SetHealth(p, p.health + n)

-----------------------------------------------------------------------------
(* Experience                                                              *)

OnLevelUp(p) ==
    UpdateDerivedStats(
      [p EXCEPT !.max_health = @ + 20, !.health = p.max_health + 20,
                !.strength = @ + 3, !.vitality = @ + 2, !.dexterity = @ + 1,
                !.skill_points = @ + 3])

SetLevel(p, l) ==
    LET q == [p EXCEPT !.level = Clamped(l, 1, MAX_LEVEL)]
    IN UpdateDerivedStats(IF q.level > p.level THEN OnLevelUp(q) ELSE q)

(* A variant that forgets what exceeds the price of a level.               *)
NextLevelFromZero(p) ==
    IF p.level < MAX_LEVEL /\ p.experience >= ExperienceToNextLevel(p)
    THEN OnLevelUp([p EXCEPT !.experience = 0, !.level = @ + 1]) ELSE p

(* The loop of AddExperience: as many levels as the experience pays for.   *)
NextLevel(p) ==
    IF p.level < MAX_LEVEL /\ p.experience >= ExperienceToNextLevel(p)
    THEN OnLevelUp([p EXCEPT !.experience = @ - ExperienceToNextLevel(p), !.level = @ + 1])
    ELSE p

LevelUps(p) ==
    LET after[k \in 0..MAX_LEVEL] == IF k = 0 THEN p ELSE NextLevel(after[k - 1])
    IN after[MAX_LEVEL]

AddExperience(p, n) ==
    LET q == LevelUps([p EXCEPT !.experience = @ + n])
    IN IF p.level >= MAX_LEVEL THEN p
       ELSE IF q.level >= MAX_LEVEL THEN [q EXCEPT !.experience = 0]
       ELSE q

LoseExperience(p, n) == [p EXCEPT !.experience = Clamped(@ - n, 0, @)]

-----------------------------------------------------------------------------
(* Buffs.  A second buff of the same kind replaces the entry of the first  *)
(* and adds its effect once more.                                          *)

(* A variant that derives nothing anew.                                    *)
SetAttributeOnly(p, value) == [p EXCEPT !.strength = value]

SetAttribute(p, value) == UpdateDerivedStats([p EXCEPT !.strength = value])

ApplyBuff(p, b) ==
    IF Cardinality(p.active_buffs) >= MAX_BUFFS THEN p
    ELSE SetAttribute([p EXCEPT !.active_buffs = @ \cup {b}], p.strength + Strength[b])

RemoveBuff(p, b) ==
    IF b \notin p.active_buffs THEN p
    ELSE SetAttribute([p EXCEPT !.active_buffs = @ \ {b}], p.strength - Strength[b])

(* What several buffs add.                                                 *)
Bonus(buffs) == FoldFunctionOnSet(+, 0, Strength, buffs)

(* RemoveBuff for each buff that has expired.                              *)
UpdateBuffs(p, expired) ==
    LET gone == expired \cap p.active_buffs
    IN IF gone = {} THEN p
       ELSE SetAttribute([p EXCEPT !.active_buffs = @ \ gone], p.strength - Bonus(gone))

(* Update: what is due runs out.  Regenerate locks mutex_ and calls        *)
(* SetHealth, which locks it again, once the time since the last update    *)
(* is worth a point of health.                                             *)
UpdateCooldowns(p, expired) == [p EXCEPT !.cooldowns = @ \ expired]

Regenerate(p, gains) == p.health > 0 /\ gains

UpdateMovement(p, arrived) ==
    IF p.status = "MOVING" /\ arrived THEN [p EXCEPT !.status = "IDLE"] ELSE p

-----------------------------------------------------------------------------
(* Skills, quests and movement                                             *)

UseSkill(p, a) ==
    IF p.health = 0 \/ p.status = "CASTING" \/ a \notin p.skills \/ a \in p.cooldowns THEN p
    ELSE [p EXCEPT !.status = "CASTING", !.cooldowns = @ \cup {a}]

MoveCharacter(p) == [p EXCEPT !.status = "MOVING"]
LearnSkill(p, a) == [p EXCEPT !.skills = @ \cup {a}]
ForgetSkill(p, a) == [p EXCEPT !.skills = @ \ {a}]

StartQuest(p, q) ==
    IF Cardinality(p.active_quests) >= MAX_ACTIVE_QUESTS THEN p
    ELSE [p EXCEPT !.active_quests = @ \cup {q}]

CompleteQuest(p, q) ==
    IF q \notin p.active_quests THEN p
    ELSE [p EXCEPT !.active_quests = @ \ {q}, !.completed_quests = @ \cup {q},
                   !.quests_completed = @ + 1]

FailQuest(p, q) == [p EXCEPT !.active_quests = @ \ {q}]

(* Possessions.  What is put on over something else replaces it.           *)
AddItem(p, i) == [p EXCEPT !.items[i] = @ + 1]
RemoveOne(p, i) == [p EXCEPT !.items[i] = Clamped(@ - 1, 0, @)]

PutOn(p, i, s) ==
    IF p.items[i] = 0 THEN p ELSE RemoveOne([p EXCEPT !.worn[s] = i], i)

TakeOff(p, s) ==
    IF p.worn[s] = "none" THEN p ELSE [AddItem(p, p.worn[s]) EXCEPT !.worn[s] = "none"]

EarnGold(p, n) == [p EXCEPT !.gold = @ + n]
SpendGold(p, n) == [p EXCEPT !.gold = Clamped(@ - n, 0, @)]

AddFriend(p, o) ==
    IF Cardinality(p.friends) >= MAX_FRIENDS THEN p ELSE [p EXCEPT !.friends = @ \cup {o}]

RemoveFriend(p, o) == [p EXCEPT !.friends = @ \ {o}]
AddAchievement(p, a) == [p EXCEPT !.achievements = @ \cup {a}]

-----------------------------------------------------------------------------
(* The JSON of a Player: each part by its own functions, and nothing of    *)
(* the achievements.  Deserialize fills a Player that was just made: every *)
(* part from the data, then the effects of the buffs and the bonuses of    *)
(* class and race on top of attributes that were saved with them.          *)
Part(p, fields) == [f \in fields |-> p[f]]

SerializeAttributes(p) == Part(p, DOMAIN Attributes)
SerializeStats(p) == Part(p, DOMAIN Stats)
SerializeEquipment(p) == Part(p, DOMAIN Equipment)
InventoryJson(p) == Part(p, {"items"})
SkillsJson(p) == Part(p, {"skills"})
QuestsJson(p) == Part(p, {"active_quests", "completed_quests"})
BuffsJson(p) == Part(p, {"active_buffs"})
CooldownsJson(p) == Part(p, {"cooldowns"})

Serialize(p) ==
    SerializeAttributes(p) ++ SerializeStats(p) ++ SerializeEquipment(p)
      ++ InventoryJson(p) ++ SkillsJson(p) ++ QuestsJson(p) ++ BuffsJson(p)
      ++ CooldownsJson(p) ++ Part(p, {"status", "friends"})

LoadBuffs(p, buffs) == SetAttribute(p, p.strength + Bonus(buffs))

Deserialize(data) ==
    UpdateDerivedStats(ApplyRaceBonuses(ApplyClassBonuses(
        LoadBuffs(data ++ [achievements |-> {}], data.active_buffs))))

-----------------------------------------------------------------------------
Becomes(p) == player' = p /\ UNCHANGED <<saved, hung>>

Suffer == \E d \in Damages :
    \/ Becomes(ApplyDamage(player, d))
    \/ \E p \in TakeDamage(player, d) : Becomes(p)
    \/ Becomes(ApplyHealing(player, d))
    \/ Becomes(Heal(player, d))
    \/ Becomes(SetMaxHealth(player, d))

Progress == \E n \in Experiences :
    \/ Becomes(AddExperience(player, n))
    \/ Becomes(LoseExperience(player, n))
    \/ \E l \in 0..MAX_LEVEL + 1 : Becomes(SetLevel(player, l))

Boost == \E b \in Buffs : Becomes(ApplyBuff(player, b)) \/ Becomes(RemoveBuff(player, b))

Act == \/ \E a \in Abilities :
            \/ Becomes(LearnSkill(player, a)) \/ Becomes(ForgetSkill(player, a))
            \/ Becomes(UseSkill(player, a))
       \/ Becomes(MoveCharacter(player))
       \/ \E q \in Quests :
            \/ Becomes(StartQuest(player, q)) \/ Becomes(FailQuest(player, q))
            \/ Becomes(CompleteQuest(player, q))

Own == \/ \E i \in Wearables :
            \/ Becomes(AddItem(player, i)) \/ Becomes(RemoveOne(player, i))
            \/ \E s \in BodySlots : Becomes(PutOn(player, i, s)) \/ Becomes(TakeOff(player, s))
       \/ \E n \in Damages : Becomes(EarnGold(player, n)) \/ Becomes(SpendGold(player, n))
       \/ \E o \in Others : \/ Becomes(AddFriend(player, o)) \/ Becomes(RemoveFriend(player, o))
                            \/ Becomes(AddAchievement(player, o))

Update == \E buffs \in SUBSET Buffs, abilities \in SUBSET Abilities,
             arrived, gains \in BOOLEAN :
    LET moved == UpdateMovement(player, arrived)
    IN /\ player' = IF Regenerate(player, gains) THEN moved
                    ELSE UpdateCooldowns(UpdateBuffs(moved, buffs), abilities)
       /\ hung' = Regenerate(player, gains)
       /\ UNCHANGED saved

SaveToDatabase ==
    /\ saved' = Serialize(player)
    /\ UNCHANGED <<player, hung>>

(* A new process makes the Player again and loads it.                      *)
Reload ==
    /\ saved # NotSaved
    /\ player' = Deserialize(saved)
    /\ hung' = FALSE
    /\ UNCHANGED saved

CharactersNext ==
    /\ deeds < MaxDeeds /\ deeds' = deeds + 1
    /\ \/ ~hung /\ (Suffer \/ Progress \/ Boost \/ Act \/ Own \/ Update \/ SaveToDatabase)
       \/ Reload

-----------------------------------------------------------------------------
(* Health stays within its limits.                                         *)
HealthWithin == player.health \in 0..player.max_health

(* The derived attributes follow the base ones.                            *)
DerivedFollow ==
    /\ player.attack_power = 2 * player.strength + player.dexterity
    /\ player.defense = player.vitality + player.dexterity \div 2

(* Both, through level-ups, buffs that end and reloads, each of which      *)
(* changes base attributes and limits in an order of its own.              *)
CharacterInv == HealthWithin /\ DerivedFollow

(* What a level was worth is not lost by reaching it: AddExperience over   *)
(* several levels at once.                                                 *)
Price[l \in 0..MAX_LEVEL] ==
    IF l < 2 THEN 0 ELSE Price[l - 1] + CalculateExperienceRequired[l]
Worth(p) == p.experience + Price[p.level]

ExperienceCounts ==
    [][\A n \in Experiences :
         player' = AddExperience(player, n) /\ player'.level < MAX_LEVEL
           => Worth(player') = Worth(player) + n]_charactersVars

=============================================================================
