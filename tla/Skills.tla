------------------------------- MODULE Skills -------------------------------
(***************************************************************************)
(* SkillSystem: what every player has learned, where it is equipped and    *)
(* what is running.                                                        *)
(*                                                                         *)
(* Every operation holds mutex_.  UseSkill calls CanUseSkill, LearnSkill   *)
(* of a known skill calls UpgradeSkill, and so on, which lock it again:    *)
(* for a std::mutex that is undefined, and an outcome is a choice here: to *)
(* wait for ever (what the builds do), or to go on.  Times are left out:   *)
(* what an update ends is a choice among what is running.  What a skill    *)
(* does to its target is a log line and a callback nobody sets.  Saving    *)
(* and loading change nothing: no schema has the table player_skills, the  *)
(* failed INSERT is reported as success and the failed SELECT as no rows.  *)
(***************************************************************************)
EXTENDS Integers, FiniteSets

CONSTANTS Learners, Spells,    \* players; the keys of skill_database_
          max_level, Toggleable, Channeled, Active, Cooled,
          RequiredSkill,       \* of a spell: [skill, level], or NoRequirement
          MAX_EQUIPPED_SKILLS, Trees,
          MaxCasts             \* bound on the operations of a behaviour

VARIABLES
    book,     \* player_skills_, NoBook where a player has no entry
    jammed,   \* a thread waits for the mutex it holds
    casts     \* operations so far

skillsVars == <<book, jammed, casts>>

NoBook == [learned |-> FALSE]
NoRequirement == [skill |-> "none", level |-> 0]
SkillSlots == 0 .. MAX_EQUIPPED_SKILLS - 1

(* PlayerSkill and PlayerSkillData as they are constructed.                *)
NewSkill(l) == [level |-> l, slot |-> -1, cooldown |-> FALSE,
                is_active |-> FALSE, is_channeling |-> FALSE]

PlayerSkillData == [learned |-> TRUE, skills |-> <<>>, slots |-> <<>>,
                    active |-> {}, channeling |-> {}, global_cooldown |-> FALSE,
                    trees |-> {}]

SkillsInit ==
    /\ book = [p \in Learners |-> NoBook]
    /\ jammed = FALSE
    /\ casts = 0

-----------------------------------------------------------------------------
Has(p, s) == book[p] # NoBook /\ s \in DOMAIN book[p].skills
Skill(p, s) == book[p].skills[s]
Equipped(p, s) == Skill(p, s).slot # -1
GetSkillLevel(p, s) == IF Has(p, s) THEN Skill(p, s).level ELSE 0
Without(f, k) == [x \in DOMAIN f \ {k} |-> f[x]]
With(f, k, v) == [x \in DOMAIN f \cup {k} |-> IF x = k THEN v ELSE f[x]]

(* An entry of player_skills_[p], made if there is none.                   *)
Entry(p) == IF book[p] = NoBook THEN PlayerSkillData ELSE book[p]

Becomes(p, data) ==
    book' = [book EXCEPT ![p] = data] /\ UNCHANGED jammed

(* The second lock: the thread hangs with what it has written so far, or   *)
(* it goes on.                                                             *)
Relock(p, before, after) ==
    \/ book' = [book EXCEPT ![p] = before] /\ jammed' = TRUE
    \/ Becomes(p, after)

UpgradeSkill(data, s) ==
    IF s \in DOMAIN data.skills /\ data.skills[s].level < max_level[s]
    THEN [data EXCEPT !.skills[s].level = @ + 1] ELSE data

(* Removes the slot the skill believes it is in.                           *)
UnequipSkill(data, s) ==
    IF s \in DOMAIN data.skills /\ data.skills[s].slot # -1
    THEN [data EXCEPT !.slots = Without(@, data.skills[s].slot), !.skills[s].slot = -1]
    ELSE data

(* MeetsSkillRequirements looks only at the skill required; levels, class, *)
(* items and skill points are "assumed".                                   *)
MeetsSkillRequirements(p, s) ==
    GetSkillLevel(p, RequiredSkill[s].skill) >= RequiredSkill[s].level

(* A known skill is upgraded; that locks again, and so does looking up the *)
(* level of a required skill.                                              *)
LearnSkill(p, s, l) ==
    LET data == Entry(p)
        level == IF l < max_level[s] THEN l ELSE max_level[s]
        learned == [data EXCEPT !.skills = With(@, s, NewSkill(level))]
    IN CASE Has(p, s) -> Relock(p, data, UpgradeSkill(data, s))
         [] ~Has(p, s) /\ RequiredSkill[s] = NoRequirement -> Becomes(p, learned)
         [] OTHER -> Relock(p, data, IF MeetsSkillRequirements(p, s) THEN learned ELSE data)

(* An equipped skill is unequipped, which locks again; then nothing of the *)
(* skill stays except slots it was in before the last one.                 *)
ForgetSkill(p, s) ==
    LET forgotten(data) == [data EXCEPT !.active = @ \ {s}, !.channeling = @ \ {s},
                                        !.skills = Without(@, s)]
    IN /\ Has(p, s)
       /\ IF Equipped(p, s)
          THEN Relock(p, book[p], forgotten(UnequipSkill(book[p], s)))
          ELSE Becomes(p, forgotten(book[p]))

SetSkillLevel(p, s, l) ==
    /\ Has(p, s)
    /\ Becomes(p, [book[p] EXCEPT !.skills[s].level =
                     IF l < 1 THEN 1 ELSE IF l > max_level[s] THEN max_level[s] ELSE l])

(* The skill that was in the slot loses it; a slot this skill was in       *)
(* before keeps naming it.                                                 *)
EquipSkill(p, s, slot) ==
    LET displaced == IF slot \in DOMAIN book[p].slots
                     THEN {book[p].slots[slot]} \cap DOMAIN book[p].skills ELSE {}
    IN /\ Has(p, s) /\ slot \in SkillSlots
       /\ Becomes(p, [book[p] EXCEPT
            !.slots = With(@, slot, s),
            !.skills = [x \in DOMAIN @ |->
                          IF x = s THEN [@[x] EXCEPT !.slot = slot]
                          ELSE IF x \in displaced THEN [@[x] EXCEPT !.slot = -1] ELSE @[x]]])

-----------------------------------------------------------------------------
(* A variant that lets a second channel start.                             *)
CanUseAnySkill(data, s) ==
    s \in DOMAIN data.skills /\ ~data.skills[s].cooldown /\ ~(data.global_cooldown /\ s \in Active)

(* channeling_skills is a std::set: its first element is the least; here   *)
(* it never has more than one.                                             *)
CanUseSkill(data, s) ==
    /\ s \in DOMAIN data.skills
    /\ ~data.skills[s].cooldown
    /\ ~(data.global_cooldown /\ s \in Active)
    /\ \/ s \in Toggleable /\ data.skills[s].is_active
       \/ data.channeling = {}
       \/ s = CHOOSE c \in data.channeling : TRUE

StartGlobalCooldown(data, s) ==
    IF s \in Active THEN [data EXCEPT !.global_cooldown = TRUE] ELSE data

Used(data, s) ==
    LET on == ~data.skills[s].is_active
        channel == [data EXCEPT !.skills[s].is_channeling = TRUE, !.channeling = @ \cup {s}]
        started == IF s \in Channeled THEN channel ELSE data
    IN IF s \in Toggleable
       THEN [data EXCEPT !.skills[s].is_active = on,
                         !.active = IF on THEN @ \cup {s} ELSE @ \ {s}]
       ELSE StartGlobalCooldown([started EXCEPT !.skills[s].cooldown = s \in Cooled], s)

(* UseSkill and ToggleSkill: CanUseSkill is called with the mutex held.    *)
UseSkill(p, s) ==
    /\ book[p] # NoBook
    /\ Relock(p, book[p], IF CanUseSkill(book[p], s) THEN Used(book[p], s) ELSE book[p])

InterruptSkill(p, s) ==
    /\ Has(p, s) /\ s \in book[p].channeling
    /\ Becomes(p, [book[p] EXCEPT !.skills[s].is_channeling = FALSE,
                                  !.skills[s].cooldown = TRUE,
                                  !.channeling = @ \ {s}])

(* Any of the running cooldowns may end, and the global one.               *)
Cooling(skills, done) ==
    [x \in DOMAIN skills |-> [skills[x] EXCEPT !.cooldown = @ /\ x \notin done]]

UpdatePlayerCooldowns(p, done, UpdateGlobalCooldown) ==
    /\ book[p] # NoBook
    /\ Becomes(p, [book[p] EXCEPT !.skills = Cooling(@, done),
                                  !.global_cooldown = @ /\ ~UpdateGlobalCooldown])

UpdateChanneledSkills(p, done) ==
    /\ book[p] # NoBook /\ done \subseteq book[p].channeling
    /\ Becomes(p, [book[p] EXCEPT
         !.skills = [x \in DOMAIN @ |->
                       IF x \in done THEN [@[x] EXCEPT !.is_channeling = FALSE] ELSE @[x]],
         !.channeling = @ \ done])

UnlockSkillTree(p, t) ==
    Becomes(p, [Entry(p) EXCEPT !.trees = @ \cup {t}])

(* The worker process ends and another one starts.                         *)
SkillsRestart ==
    /\ book' = [p \in Learners |-> NoBook]
    /\ jammed' = FALSE

SkillsOperation ==
    \/ \E p \in Learners, s \in Spells :
         \/ UseSkill(p, s) \/ InterruptSkill(p, s) \/ ForgetSkill(p, s)
         \/ Becomes(p, UpgradeSkill(Entry(p), s)) /\ Has(p, s)
         \/ Becomes(p, UnequipSkill(Entry(p), s)) /\ Has(p, s)
         \/ \E l \in 0 .. max_level[s] + 1 : LearnSkill(p, s, l) \/ SetSkillLevel(p, s, l)
         \/ \E slot \in SkillSlots : EquipSkill(p, s, slot)
    \/ \E p \in Learners :
         \/ \E done \in SUBSET Spells, all \in BOOLEAN : UpdatePlayerCooldowns(p, done, all)
         \/ \E done \in SUBSET Spells : UpdateChanneledSkills(p, done)
         \/ \E t \in Trees : UnlockSkillTree(p, t)

SkillsNext ==
    /\ casts < MaxCasts /\ casts' = casts + 1
    /\ (~jammed /\ SkillsOperation) \/ SkillsRestart

-----------------------------------------------------------------------------
(* A skill that counts as equipped is the one its slot names, however      *)
(* skills are moved between slots, displaced, forgotten and learned again  *)
(* (UnequipSkill erases the slot the skill believes it is in).             *)
EquippedInSlot ==
    \A p \in Learners, s \in Spells : Has(p, s) /\ Equipped(p, s) =>
        /\ Skill(p, s).slot \in DOMAIN book[p].slots
        /\ book[p].slots[Skill(p, s).slot] = s

(* "Can only channel one skill at a time", and what is listed as running   *)
(* is known and says so itself: no operation leaves one of the two behind. *)
OneChannel ==
    \A p \in Learners : book[p] # NoBook =>
        /\ Cardinality(book[p].channeling) <= 1
        /\ book[p].active = {s \in DOMAIN book[p].skills : Skill(p, s).is_active}
        /\ book[p].channeling = {s \in DOMAIN book[p].skills : Skill(p, s).is_channeling}

(* Slots, marks and lists of the skills of a player tell the same.         *)
SkillsInv == EquippedInSlot /\ OneChannel
=============================================================================
