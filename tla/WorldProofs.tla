------------------------------ MODULE WorldProofs ------------------------------
(***************************************************************************)
(* Proofs about the parts of the world that MCWorld runs side by side, for *)
(* any of their constants: the chunks of Terrain are counted (TerrainInv), *)
(* a player's skills agree with his lists (SkillsInv), quests that count   *)
(* as completed are (QuestsInv), entities and receivers of broadcasts are  *)
(* found (EntitiesInv), so are bodies near each other (CollisionInv), and  *)
(* whoever waits for a chunk is waited for (StreamInv).                    *)
(* Each part has an inductive invariant and a lemma for each operation.    *)
(***************************************************************************)
EXTENDS MCWorld, FiniteSetTheorems, WellFoundedInduction, TLAPS

-----------------------------------------------------------------------------
(* The chunks of the world.  The counter is their number, and no more than *)
(* there may be; whatever the threads do, only these three count.          *)
Counted(set, n) == IsFiniteSet(set) /\ n = Cardinality(set) /\ n \in 0..max_active_chunks

LandIInv == Counted(loaded, activeChunkCount) /\ savedCount \in 0..max_active_chunks

LEMMA LandCounted == LandIInv => TerrainInv
BY DEF LandIInv, Counted, TerrainInv

(* Initialize fills the world up to its limit.                             *)
LEMMA LandStart == TerrainInit => LandIInv
<1>. SUFFICES ASSUME TerrainInit PROVE LandIInv
  OBVIOUS
<1>1. preloadRadius \in Nat /\ max_active_chunks \in Nat
  BY TerrainAssumption
<1>2. loaded \subseteq -preloadRadius..preloadRadius
  BY <1>1 DEF TerrainInit, Around
<1>3. IsFiniteSet(loaded)
  <2>1. -preloadRadius \in Int /\ preloadRadius \in Int
    BY <1>1
  <2>2. IsFiniteSet(-preloadRadius..preloadRadius)
    BY <2>1, FS_Interval
  <2>. QED
    BY <1>2, <2>2, FS_Subset
<1>4. Cardinality(loaded) \in 0..max_active_chunks
  BY <1>1, <1>3, FS_CardinalityType DEF TerrainInit
<1>5. activeChunkCount = Cardinality(loaded) /\ savedCount \in 0..max_active_chunks
  BY <1>1 DEF TerrainInit
<1>. QED
  BY <1>3, <1>4, <1>5 DEF LandIInv, Counted

(* GetOrCreateChunk: a full world gives up a chunk for the new one.        *)
LEMMA CreateCounts ==
    ASSUME Counted(loaded, activeChunkCount), NEW x, GetOrCreateChunk(x)
    PROVE  Counted(loaded, activeChunkCount)'
<1>0. max_active_chunks \in Nat \ {0}
  BY TerrainAssumption
<1>1. CASE x \in loaded
  BY <1>1 DEF GetOrCreateChunk, Counted
<1>2. CASE x \notin loaded /\ activeChunkCount >= max_active_chunks /\ loaded # {}
  <2>1. PICK first \in loaded : loaded' = (loaded \ {first}) \cup {x}
    BY <1>2 DEF GetOrCreateChunk
  <2>2. activeChunkCount' = activeChunkCount
    BY <1>2 DEF GetOrCreateChunk
  <2>3. /\ IsFiniteSet(loaded \ {first})
        /\ Cardinality(loaded \ {first}) = activeChunkCount - 1
    BY FS_RemoveElement DEF Counted
  <2>4. /\ IsFiniteSet(loaded')
        /\ Cardinality(loaded') = (activeChunkCount - 1) + 1
    BY <1>2, <2>1, <2>3, FS_AddElement
  <2>5. activeChunkCount \in Int
    BY <1>0 DEF Counted
  <2>. QED
    BY <2>2, <2>4, <2>5 DEF Counted
<1>3. CASE x \notin loaded /\ ~(activeChunkCount >= max_active_chunks /\ loaded # {})
  <2>1. loaded' = loaded \cup {x} /\ activeChunkCount' = activeChunkCount + 1
    BY <1>3 DEF GetOrCreateChunk
  <2>2. IsFiniteSet(loaded') /\ Cardinality(loaded') = activeChunkCount + 1
    BY <1>3, <2>1, FS_AddElement DEF Counted
  <2>3. activeChunkCount < max_active_chunks
    <3>1. loaded = {} => activeChunkCount = 0
      BY FS_EmptySet DEF Counted
    <3>. QED
      BY <1>0, <1>3, <3>1 DEF Counted
  <2>. QED
    BY <1>0, <2>1, <2>2, <2>3 DEF Counted
<1>. QED
  BY <1>1, <1>2, <1>3

LEMMA UnloadCounts ==
    ASSUME Counted(loaded, activeChunkCount), NEW center, UnloadDistantChunks(center)
    PROVE  Counted(loaded, activeChunkCount)'
<1>. DEFINE far == {x \in loaded : Distance(x, center) > unload_distance}
<1>1. loaded' = loaded \ far /\ activeChunkCount' = activeChunkCount - Cardinality(far)
  BY DEF UnloadDistantChunks
<1>2. far \in SUBSET loaded /\ loaded \cap far = far
  OBVIOUS
<1>. HIDE DEF far
<1>3. /\ IsFiniteSet(far) /\ Cardinality(far) \in Nat
      /\ Cardinality(far) <= activeChunkCount
  BY <1>2, FS_Subset, FS_CardinalityType DEF Counted
<1>4. /\ IsFiniteSet(loaded')
      /\ Cardinality(loaded') = activeChunkCount - Cardinality(far)
  BY <1>1, <1>2, FS_Difference DEF Counted
<1>. QED
  BY <1>1, <1>3, <1>4, TerrainAssumption DEF Counted

(* What a step does to the chunks and to what is saved.                    *)
LEMMA LandStep == LandIInv /\ [TerrainNext]_terrainVars => LandIInv'
<1>. SUFFICES ASSUME LandIInv, [TerrainNext]_terrainVars PROVE LandIInv'
  OBVIOUS
<1>0. /\ Counted(loaded, activeChunkCount)
      /\ savedCount' = savedCount /\ Counted(loaded, activeChunkCount)' => LandIInv'
      /\ savedCount' = savedCount /\ UNCHANGED chunks => LandIInv'
  BY DEF LandIInv, Counted, chunks
<1>1. CASE UNCHANGED terrainVars
  BY <1>0, <1>1 DEF terrainVars
<1>2. CASE UpdateWorld \/ DrainPending \/ UpdateCollisions \/ LockPending \/ Emplace \/ Shutdown
  BY <1>0, <1>2 DEF UpdateWorld, DrainPending, UpdateCollisions, LockPending, Emplace, Shutdown
<1>3. CASE Unload
  <2>1. savedCount' = savedCount
    BY <1>3 DEF Unload
  <2>2. UNCHANGED chunks \/ \E center \in loop.todo : UnloadDistantChunks(center)
    BY <1>3 DEF Unload
  <2>. QED
    BY <1>0, <2>1, <2>2, UnloadCounts
<1>4. CASE GenerateWorldAroundPlayer
  <2>1. savedCount' = savedCount /\ \E x : GetOrCreateChunk(x)
    BY <1>4 DEF GenerateWorldAroundPlayer
  <2>. QED
    BY <1>0, <2>1, CreateCounts
<1>5. CASE WorldShutdown
  BY <1>0, <1>5, FS_EmptySet, TerrainAssumption DEF WorldShutdown, Counted
<1>6. CASE SaveGameState
  BY <1>6 DEF SaveGameState, LandIInv, Counted, chunks
<1>7. ASSUME NEW p, NEW x, OnPlayerPosition(p, x) PROVE LandIInv'
  BY <1>0, <1>7 DEF OnPlayerPosition
<1>8. ASSUME NEW p, OnPlayerConnected(p) \/ OnPlayerDisconnected(p) PROVE LandIInv'
  BY <1>0, <1>8 DEF OnPlayerConnected, OnPlayerDisconnected, Sessions
<1>9. ASSUME NEW x, OnChunkData(x) PROVE LandIInv'
  BY <1>0, <1>9, CreateCounts DEF OnChunkData
<1>. QED
  BY <1>1, <1>2, <1>3, <1>4, <1>5, <1>6, <1>7, <1>8, <1>9
     DEF TerrainNext, GameLoop, Queueing

(* LogicWorld::GetOrCreateChunk and UnloadDistantChunks, in any order of   *)
(* requests, generation and shutdown: the counter is the number of chunks  *)
(* and within the limit, in memory and in what is saved.                   *)
THEOREM ChunksAreCounted == Spec => []TerrainInv
<1>1. Init => LandIInv
  BY LandStart DEF Init
<1>2. LandIInv /\ [Next]_vars => LandIInv'
  <2>1. [Next]_vars => [TerrainNext]_terrainVars
    BY DEF Next, RulesStep, vars, rules
  <2>. QED
    BY <2>1, LandStep
<1>. QED
  BY <1>1, <1>2, LandCounted, PTL DEF Spec

-----------------------------------------------------------------------------
(* Skills: the skills of a player, the slots, and the lists of what runs.  *)

SkillFields == {"level", "slot", "cooldown", "is_active", "is_channeling"}
DataFields == {"learned", "skills", "slots", "active", "channeling", "global_cooldown", "trees"}

Marks(skill) ==
    /\ DOMAIN skill = SkillFields
    /\ skill.is_active \in BOOLEAN /\ skill.is_channeling \in BOOLEAN

InSlots(skills, slots) ==
    \A s \in DOMAIN skills : skills[s].slot # -1 =>
        skills[s].slot \in DOMAIN slots /\ slots[skills[s].slot] = s

Listed(skills, active, channeling) ==
    /\ active = {s \in DOMAIN skills : skills[s].is_active}
    /\ channeling = {s \in DOMAIN skills : skills[s].is_channeling}
    /\ \A a, b \in channeling : a = b

Fit(skills, slots, active, channeling) ==
    /\ \A s \in DOMAIN skills : Marks(skills[s])
    /\ InSlots(skills, slots)
    /\ Listed(skills, active, channeling)

Shape(d) == DOMAIN d = DataFields /\ d.learned = TRUE
Sound(d) == Shape(d) /\ Fit(d.skills, d.slots, d.active, d.channeling)

(* What is kept of every player.                                           *)
Books(kept) == DOMAIN kept = Learners /\ \A p \in Learners : kept[p] = NoBook \/ Sound(kept[p])

SkillsIInv == Books(book)

LEMMA SoundIsABook == ASSUME NEW d, Sound(d) PROVE d # NoBook
BY DEF Sound, Shape, NoBook

LEMMA SkillsFollow == SkillsIInv => SkillsInv
<1>. SUFFICES ASSUME SkillsIInv PROVE SkillsInv
  OBVIOUS
<1>1. \A p \in Learners : book[p] # NoBook => Sound(book[p])
  BY DEF SkillsIInv, Books
<1>2. EquippedInSlot
  BY <1>1 DEF Sound, Fit, InSlots, EquippedInSlot, Has, Equipped, Skill
<1>3. ASSUME NEW p \in Learners, book[p] # NoBook
      PROVE  Cardinality(book[p].channeling) <= 1
  <2>. DEFINE c == book[p].channeling
  <2>1. \A a, b \in c : a = b
    BY <1>1, <1>3 DEF Sound, Fit, Listed
  <2>. HIDE DEF c
  <2>2. CASE c = {}
    BY <2>2, FS_EmptySet DEF c
  <2>3. CASE c # {}
    <3>1. PICK a \in c : TRUE
      BY <2>3
    <3>2. c = {a}
      BY <2>1, <3>1
    <3>3. Cardinality({a}) = 1
      BY FS_Singleton
    <3>4. Cardinality(c) <= 1
      BY <3>2, <3>3
    <3>. QED
      BY <3>4 DEF c
  <2>. QED
    BY <2>2, <2>3
<1>4. OneChannel
  BY <1>1, <1>3 DEF Sound, Fit, Listed, OneChannel, Skill
<1>. QED
  BY <1>2, <1>4 DEF SkillsInv

(* The tables of slots and skills.                                         *)
LEMMA WithGives ==
    ASSUME NEW f, NEW k, NEW v
    PROVE  /\ DOMAIN With(f, k, v) = DOMAIN f \cup {k} /\ With(f, k, v)[k] = v
           /\ \A x \in DOMAIN f \ {k} : With(f, k, v)[x] = f[x]
BY DEF With

LEMMA WithoutGives ==
    ASSUME NEW f, NEW k
    PROVE  /\ DOMAIN Without(f, k) = DOMAIN f \ {k}
           /\ \A x \in DOMAIN f \ {k} : Without(f, k)[x] = f[x]
BY DEF Without

(* Levels and cooldowns may be anything.                                   *)
LEMMA FitElsewhere ==
    ASSUME NEW skills, NEW slots, NEW active, NEW channeling,
           Fit(skills, slots, active, channeling),
           NEW changed, DOMAIN changed = DOMAIN skills,
           \A s \in DOMAIN skills :
               /\ DOMAIN changed[s] = SkillFields /\ changed[s].slot = skills[s].slot
               /\ changed[s].is_active = skills[s].is_active
               /\ changed[s].is_channeling = skills[s].is_channeling
    PROVE  Fit(changed, slots, active, channeling)
<1>1. \A s \in DOMAIN changed : Marks(changed[s])
  BY DEF Fit, Marks
<1>2. InSlots(changed, slots)
  BY DEF Fit, InSlots
<1>3. Listed(changed, active, channeling)
  BY DEF Fit, Listed
<1>. QED
  BY <1>1, <1>2, <1>3 DEF Fit

(* A skill that is new is in no slot and does not run.                     *)
LEMMA FitWithNew ==
    ASSUME NEW skills, NEW slots, NEW active, NEW channeling,
           Fit(skills, slots, active, channeling), NEW s, s \notin DOMAIN skills, NEW l
    PROVE  Fit(With(skills, s, NewSkill(l)), slots, active, channeling)
<1>. DEFINE new == With(skills, s, NewSkill(l))
<1>1. /\ DOMAIN new = DOMAIN skills \cup {s} /\ new[s] = NewSkill(l)
      /\ \A x \in DOMAIN skills : new[x] = skills[x]
  BY DEF With
<1>2. /\ Marks(NewSkill(l)) /\ NewSkill(l).slot = -1
      /\ NewSkill(l).is_active = FALSE /\ NewSkill(l).is_channeling = FALSE
  BY DEF NewSkill, Marks, SkillFields
<1>. HIDE DEF new
<1>3. \A x \in DOMAIN new : Marks(new[x])
  BY <1>1, <1>2 DEF Fit
<1>4. InSlots(new, slots)
  BY <1>1, <1>2 DEF Fit, InSlots
<1>5. Listed(new, active, channeling)
  BY <1>1, <1>2 DEF Fit, Listed
<1>. QED
  BY <1>3, <1>4, <1>5 DEF Fit, new

(* A skill that is in no slot can be taken away.                           *)
LEMMA FitWithoutOne ==
    ASSUME NEW skills, NEW slots, NEW active, NEW channeling,
           Fit(skills, slots, active, channeling), NEW s
    PROVE  Fit(Without(skills, s), slots, active \ {s}, channeling \ {s})
<1>. DEFINE new == Without(skills, s)
<1>1. DOMAIN new = DOMAIN skills \ {s} /\ \A x \in DOMAIN new : new[x] = skills[x]
  BY WithoutGives
<1>. HIDE DEF new
<1>2. \A x \in DOMAIN new : Marks(new[x])
  BY <1>1 DEF Fit
<1>3. InSlots(new, slots)
  BY <1>1 DEF Fit, InSlots
<1>4. Listed(new, active \ {s}, channeling \ {s})
  BY <1>1 DEF Fit, Listed
<1>. QED
  BY <1>2, <1>3, <1>4 DEF Fit, new

(* No other skill believes to be in the slot that s leaves.                *)
LEMMA FitUnequipped ==
    ASSUME NEW skills, NEW slots, NEW active, NEW channeling,
           Fit(skills, slots, active, channeling), NEW s \in DOMAIN skills,
           skills[s].slot # -1
    PROVE  Fit([skills EXCEPT ![s].slot = -1], Without(slots, skills[s].slot),
               active, channeling)
<1>. DEFINE new == [skills EXCEPT ![s].slot = -1]
            left == Without(slots, skills[s].slot)
<1>0. \A x \in DOMAIN skills : Marks(skills[x])
  BY DEF Fit
<1>1. /\ DOMAIN new = DOMAIN skills /\ \A x \in DOMAIN skills \ {s} : new[x] = skills[x]
      /\ DOMAIN new[s] = SkillFields /\ new[s].slot = -1
      /\ new[s].is_active = skills[s].is_active
      /\ new[s].is_channeling = skills[s].is_channeling
  BY <1>0 DEF Marks, SkillFields
<1>2. /\ DOMAIN left = DOMAIN slots \ {skills[s].slot}
      /\ \A k \in DOMAIN left : left[k] = slots[k]
  BY WithoutGives
<1>. HIDE DEF new, left
<1>3. \A x \in DOMAIN new : Marks(new[x])
  BY <1>0, <1>1 DEF Marks
<1>4. InSlots(new, left)
  BY <1>1, <1>2 DEF Fit, InSlots
<1>5. Listed(new, active, channeling)
  BY <1>1 DEF Fit, Listed
<1>. QED
  BY <1>3, <1>4, <1>5 DEF Fit, new, left

(* The operations on the data of a player.                                 *)
LEMMA NewDataIsSound == Sound(PlayerSkillData)
<1>1. Shape(PlayerSkillData) /\ PlayerSkillData.skills = <<>>
      /\ PlayerSkillData.slots = <<>> /\ PlayerSkillData.active = {}
      /\ PlayerSkillData.channeling = {}
  BY DEF PlayerSkillData, Shape, DataFields
<1>2. DOMAIN <<>> = {}
  OBVIOUS
<1>3. Fit(<<>>, <<>>, {}, {})
  BY <1>2 DEF Fit, InSlots, Listed
<1>. QED
  BY <1>1, <1>3 DEF Sound

LEMMA EntryIsSound == ASSUME SkillsIInv, NEW p \in Learners PROVE Sound(Entry(p))
BY NewDataIsSound DEF SkillsIInv, Books, Entry

LEMMA BookIsSound ==
    ASSUME SkillsIInv, NEW p \in Learners, book[p] # NoBook PROVE Sound(book[p])
BY DEF SkillsIInv, Books

LEMMA LeveledIsSound ==
    ASSUME NEW d, Sound(d), NEW s \in DOMAIN d.skills, NEW l
    PROVE  Sound([d EXCEPT !.skills[s].level = l])
<1>. DEFINE changed == [d.skills EXCEPT ![s].level = l]
            e == [d EXCEPT !.skills = changed]
<1>1. \A x \in DOMAIN d.skills : DOMAIN d.skills[x] = SkillFields
  BY DEF Sound, Fit, Marks
<1>2. DOMAIN changed = DOMAIN d.skills
  OBVIOUS
<1>3. \A x \in DOMAIN d.skills :
             /\ DOMAIN changed[x] = SkillFields /\ changed[x].slot = d.skills[x].slot
             /\ changed[x].is_active = d.skills[x].is_active
             /\ changed[x].is_channeling = d.skills[x].is_channeling
  BY <1>1 DEF SkillFields
<1>4. [d EXCEPT !.skills[s].level = l] = e
  OBVIOUS
<1>. HIDE DEF changed
<1>5. Fit(changed, d.slots, d.active, d.channeling)
  BY <1>2, <1>3, FitElsewhere DEF Sound
<1>. QED
  BY <1>4, <1>5 DEF Sound, Shape, DataFields

LEMMA UpgradedIsSound == ASSUME NEW d, Sound(d), NEW s PROVE Sound(UpgradeSkill(d, s))
BY LeveledIsSound DEF UpgradeSkill

LEMMA UnequippedIsSound ==
    ASSUME NEW d, Sound(d), NEW s PROVE Sound(UnequipSkill(d, s))
<1>1. CASE ~(s \in DOMAIN d.skills /\ d.skills[s].slot # -1)
  BY <1>1 DEF UnequipSkill
<1>2. CASE s \in DOMAIN d.skills /\ d.skills[s].slot # -1
  <2>. DEFINE new == [d.skills EXCEPT ![s].slot = -1]
              left == Without(d.slots, d.skills[s].slot)
  <2>1. UnequipSkill(d, s) = [d EXCEPT !.slots = left, !.skills = new]
    BY <1>2 DEF UnequipSkill, Sound, Shape, DataFields
  <2>2. Fit(new, left, d.active, d.channeling)
    BY <1>2, FitUnequipped DEF Sound
  <2>. HIDE DEF new, left
  <2>. QED
    BY <2>1, <2>2 DEF Sound, Shape, DataFields
<1>. QED
  BY <1>1, <1>2

LEMMA LearnedIsSound ==
    ASSUME NEW d, Sound(d), NEW s, s \notin DOMAIN d.skills, NEW l
    PROVE  Sound([d EXCEPT !.skills = With(@, s, NewSkill(l))])
<1>. DEFINE new == With(d.skills, s, NewSkill(l))
<1>1. Fit(new, d.slots, d.active, d.channeling)
  BY FitWithNew DEF Sound
<1>2. [d EXCEPT !.skills = With(@, s, NewSkill(l))] = [d EXCEPT !.skills = new]
  OBVIOUS
<1>. HIDE DEF new
<1>. QED
  BY <1>1, <1>2 DEF Sound, Shape, DataFields

LEMMA ForgottenIsSound ==
    ASSUME NEW d, Sound(d), NEW s
    PROVE  Sound([d EXCEPT !.active = @ \ {s}, !.channeling = @ \ {s},
                           !.skills = Without(@, s)])
<1>. DEFINE new == Without(d.skills, s)
            e == [d EXCEPT !.active = @ \ {s}, !.channeling = @ \ {s}, !.skills = new]
<1>1. Fit(new, d.slots, d.active \ {s}, d.channeling \ {s})
  BY FitWithoutOne DEF Sound
<1>2. [d EXCEPT !.active = @ \ {s}, !.channeling = @ \ {s}, !.skills = Without(@, s)] = e
  BY DEF Sound, Shape, DataFields
<1>. HIDE DEF new
<1>3. /\ Shape(e) /\ e.slots = d.slots /\ e.skills = new
      /\ e.active = d.active \ {s} /\ e.channeling = d.channeling \ {s}
  BY DEF Sound, Shape, DataFields
<1>. QED
  BY <1>1, <1>2, <1>3 DEF Sound

(* Whoever was in the slot is in none now.                                 *)
LEMMA EquippedIsSound ==
    ASSUME NEW d, Sound(d), NEW s \in DOMAIN d.skills, NEW slot, slot # -1, NEW new,
           DOMAIN new = DOMAIN d.skills, new[s].slot = slot,
           \A x \in DOMAIN d.skills : /\ Marks(new[x])
                                      /\ new[x].is_active = d.skills[x].is_active
                                      /\ new[x].is_channeling = d.skills[x].is_channeling,
           \A x \in DOMAIN d.skills \ {s} :
               \/ new[x].slot = -1
               \/ /\ new[x].slot = d.skills[x].slot
                  /\ slot \in DOMAIN d.slots => x # d.slots[slot]
    PROVE  Sound([d EXCEPT !.slots = With(d.slots, slot, s), !.skills = new])
<1>. DEFINE slots == With(d.slots, slot, s)
            e == [d EXCEPT !.slots = slots, !.skills = new]
<1>3. /\ DOMAIN slots = DOMAIN d.slots \cup {slot} /\ slots[slot] = s
      /\ \A k \in DOMAIN d.slots \ {slot} : slots[k] = d.slots[k]
  BY DEF With
<1>. HIDE DEF slots
<1>5. InSlots(new, slots)
  <2>1. ASSUME NEW x \in DOMAIN new, new[x].slot # -1
        PROVE  new[x].slot \in DOMAIN slots /\ slots[new[x].slot] = x
    <3>1. CASE x = s
      BY <1>3, <3>1
    <3>2. CASE x # s
      <4>1. /\ new[x].slot = d.skills[x].slot
            /\ slot \in DOMAIN d.slots => x # d.slots[slot]
        BY <2>1, <3>2
      <4>2. d.skills[x].slot \in DOMAIN d.slots /\ d.slots[d.skills[x].slot] = x
        BY <2>1, <4>1 DEF Sound, Fit, InSlots
      <4>3. d.skills[x].slot # slot
        BY <4>1, <4>2
      <4>. QED
        BY <1>3, <4>1, <4>2, <4>3
    <3>. QED
      BY <3>1, <3>2
  <2>. QED
    BY <2>1 DEF InSlots
<1>6. Listed(new, d.active, d.channeling)
  BY DEF Sound, Fit, Listed
<1>7. Fit(new, slots, d.active, d.channeling)
  BY <1>5, <1>6 DEF Fit
<1>8. /\ Shape(e) /\ e.slots = slots /\ e.skills = new
      /\ e.active = d.active /\ e.channeling = d.channeling
  BY DEF Sound, Shape, DataFields
<1>9. Sound(e)
  BY <1>7, <1>8 DEF Sound
<1>. QED
  BY <1>9 DEF slots

(* A skill that is switched on or off is put on the list or taken off it.  *)
LEMMA ToggledIsSound ==
    ASSUME NEW d, Sound(d), NEW s \in DOMAIN d.skills, NEW on \in BOOLEAN, NEW active,
           active = IF on THEN d.active \cup {s} ELSE d.active \ {s}
    PROVE  Sound([d EXCEPT !.skills[s].is_active = on, !.active = active])
<1>. DEFINE new == [d.skills EXCEPT ![s].is_active = on]
            e == [d EXCEPT !.skills = new, !.active = active]
<1>1. \A x \in DOMAIN d.skills : Marks(d.skills[x])
  BY DEF Sound, Fit
<1>2. /\ DOMAIN new = DOMAIN d.skills /\ new[s].is_active = on
      /\ DOMAIN new[s] = SkillFields
      /\ \A x \in DOMAIN d.skills : /\ new[x].slot = d.skills[x].slot
                                    /\ new[x].is_channeling = d.skills[x].is_channeling
      /\ \A x \in DOMAIN d.skills \ {s} : new[x] = d.skills[x]
  BY <1>1 DEF Marks, SkillFields
<1>3. [d EXCEPT !.skills[s].is_active = on, !.active = active] = e
  OBVIOUS
<1>. HIDE DEF new
<1>4. \A x \in DOMAIN new : Marks(new[x])
  BY <1>1, <1>2 DEF Marks
<1>5. InSlots(new, d.slots)
  BY <1>2 DEF Sound, Fit, InSlots
<1>6. Listed(new, active, d.channeling)
  <2>1. active = {x \in DOMAIN new : new[x].is_active}
    BY <1>2 DEF Sound, Fit, Listed
  <2>2. d.channeling = {x \in DOMAIN new : new[x].is_channeling}
    BY <1>2 DEF Sound, Fit, Listed
  <2>. QED
    BY <2>1, <2>2 DEF Sound, Fit, Listed
<1>7. Fit(new, d.slots, active, d.channeling)
  BY <1>4, <1>5, <1>6 DEF Fit
<1>8. /\ Shape(e) /\ e.slots = d.slots /\ e.skills = new
      /\ e.active = active /\ e.channeling = d.channeling
  BY DEF Sound, Shape, DataFields
<1>. QED
  BY <1>3, <1>7, <1>8 DEF Sound

(* A channel starts when none runs, or its own does; or channels end.      *)
LEMMA ChanneledIsSound ==
    ASSUME NEW d, Sound(d), NEW new, NEW channeling, DOMAIN new = DOMAIN d.skills,
           \A x \in DOMAIN new : /\ Marks(new[x]) /\ new[x].slot = d.skills[x].slot
                                 /\ new[x].is_active = d.skills[x].is_active,
           channeling = {x \in DOMAIN new : new[x].is_channeling},
           \A a, b \in channeling : a = b
    PROVE  Sound([d EXCEPT !.skills = new, !.channeling = channeling])
<1>. DEFINE e == [d EXCEPT !.skills = new, !.channeling = channeling]
<1>1. InSlots(new, d.slots)
  BY DEF Sound, Fit, InSlots
<1>2. Listed(new, d.active, channeling)
  BY DEF Sound, Fit, Listed
<1>3. Fit(new, d.slots, d.active, channeling)
  BY <1>1, <1>2 DEF Fit
<1>4. /\ Shape(e) /\ e.slots = d.slots /\ e.skills = new
      /\ e.active = d.active /\ e.channeling = channeling
  BY DEF Sound, Shape, DataFields
<1>. QED
  BY <1>3, <1>4 DEF Sound

LEMMA StartedIsSound ==
    ASSUME NEW d, Sound(d), NEW s \in DOMAIN d.skills,
           d.channeling = {} \/ s \in d.channeling
    PROVE  Sound([d EXCEPT !.skills[s].is_channeling = TRUE, !.channeling = @ \cup {s}])
<1>. DEFINE new == [d.skills EXCEPT ![s].is_channeling = TRUE]
            channeling == d.channeling \cup {s}
<1>1. \A x \in DOMAIN d.skills : Marks(d.skills[x])
  BY DEF Sound, Fit
<1>2. /\ DOMAIN new = DOMAIN d.skills /\ new[s].is_channeling = TRUE
      /\ DOMAIN new[s] = SkillFields
      /\ \A x \in DOMAIN d.skills : /\ new[x].slot = d.skills[x].slot
                                    /\ new[x].is_active = d.skills[x].is_active
      /\ \A x \in DOMAIN d.skills \ {s} : new[x] = d.skills[x]
  BY <1>1 DEF Marks, SkillFields
<1>3. [d EXCEPT !.skills[s].is_channeling = TRUE, !.channeling = @ \cup {s}]
        = [d EXCEPT !.skills = new, !.channeling = channeling]
  BY DEF Sound, Shape, DataFields
<1>. HIDE DEF new
<1>4. \A x \in DOMAIN new : Marks(new[x])
  BY <1>1, <1>2 DEF Marks
<1>5. channeling = {x \in DOMAIN new : new[x].is_channeling}
  BY <1>2 DEF Sound, Fit, Listed
<1>6. \A a, b \in channeling : a = b
  BY DEF Sound, Fit, Listed
<1>. HIDE DEF channeling
<1>7. \A x \in DOMAIN new : /\ Marks(new[x]) /\ new[x].slot = d.skills[x].slot
                            /\ new[x].is_active = d.skills[x].is_active
  BY <1>2, <1>4
<1>8. Sound([d EXCEPT !.skills = new, !.channeling = channeling])
  BY <1>2, <1>5, <1>6, <1>7, ChanneledIsSound
<1>. QED
  BY <1>3, <1>8, Zenon

(* Cooldowns: of one skill, of several, and the global one.                *)
LEMMA CooledIsSound ==
    ASSUME NEW d, Sound(d), NEW new, DOMAIN new = DOMAIN d.skills,
           \A x \in DOMAIN d.skills :
               /\ DOMAIN new[x] = SkillFields /\ new[x].slot = d.skills[x].slot
               /\ new[x].is_active = d.skills[x].is_active
               /\ new[x].is_channeling = d.skills[x].is_channeling
    PROVE  Sound([d EXCEPT !.skills = new])
<1>3. Fit(new, d.slots, d.active, d.channeling)
  BY FitElsewhere DEF Sound
<1>. QED
  BY <1>3 DEF Sound, Shape, DataFields

LEMMA GloballyCooledIsSound ==
    ASSUME NEW d, Sound(d), NEW c PROVE Sound([d EXCEPT !.global_cooldown = c])
BY DEF Sound, Shape, DataFields

LEMMA UnlockedIsSound == ASSUME NEW d, Sound(d), NEW t PROVE Sound([d EXCEPT !.trees = t])
BY DEF Sound, Shape, DataFields

(* The first channel of UseSkill, which CanUseSkill lets start alone.      *)
LEMMA UsedIsSound ==
    ASSUME NEW d, Sound(d), NEW s, CanUseSkill(d, s) PROVE Sound(Used(d, s))
<1>1. s \in DOMAIN d.skills
  BY DEF CanUseSkill
<1>2. \A x \in DOMAIN d.skills : Marks(d.skills[x])
  BY DEF Sound, Fit
<1>3. CASE s \in Toggleable
  <2>. DEFINE on == ~d.skills[s].is_active
              active == IF on THEN d.active \cup {s} ELSE d.active \ {s}
  <2>1. Used(d, s) = [d EXCEPT !.skills[s].is_active = on, !.active = active]
    BY <1>3 DEF Used, Sound, Shape, DataFields
  <2>2. on \in BOOLEAN /\ active = IF on THEN d.active \cup {s} ELSE d.active \ {s}
    OBVIOUS
  <2>. HIDE DEF on, active
  <2>3. Sound([d EXCEPT !.skills[s].is_active = on, !.active = active])
    BY <1>1, <2>2, ToggledIsSound
  <2>. QED
    BY <2>1, <2>3, Zenon
<1>4. CASE s \notin Toggleable
  <2>. DEFINE channel == [d EXCEPT !.skills[s].is_channeling = TRUE, !.channeling = @ \cup {s}]
              started == IF s \in Channeled THEN channel ELSE d
              cooled == [started EXCEPT !.skills[s].cooldown = s \in Cooled]
              new == [started.skills EXCEPT ![s].cooldown = s \in Cooled]
  <2>1. d.channeling = {} \/ s \in d.channeling
    <3>1. CASE d.channeling = {}
      BY <3>1
    <3>2. CASE d.channeling # {}
      <4>1. s = CHOOSE c \in d.channeling : TRUE
        BY <1>4, <3>2 DEF CanUseSkill
      <4>. QED
        BY <3>2, <4>1
    <3>. QED
      BY <3>1, <3>2
  <2>2. Sound(started) /\ DOMAIN started.skills = DOMAIN d.skills
    <3>1. Sound(channel)
      BY <1>1, <2>1, StartedIsSound
    <3>2. DOMAIN channel.skills = DOMAIN d.skills
      BY DEF Sound, Shape, DataFields
    <3>. QED
      BY <3>1, <3>2
  <2>. HIDE DEF started
  <2>3. cooled = [started EXCEPT !.skills = new]
    OBVIOUS
  <2>4. DOMAIN new = DOMAIN started.skills
    OBVIOUS
  <2>5. \A x \in DOMAIN started.skills :
             /\ DOMAIN new[x] = SkillFields /\ new[x].slot = started.skills[x].slot
             /\ new[x].is_active = started.skills[x].is_active
             /\ new[x].is_channeling = started.skills[x].is_channeling
    <3>1. \A x \in DOMAIN started.skills : DOMAIN started.skills[x] = SkillFields
      BY <2>2 DEF Sound, Fit, Marks
    <3>. QED
      BY <3>1 DEF SkillFields
  <2>. HIDE DEF new
  <2>6. Sound(cooled)
    BY <2>2, <2>3, <2>4, <2>5, CooledIsSound
  <2>7. Used(d, s) = StartGlobalCooldown(cooled, s)
    BY <1>4 DEF Used, started
  <2>. HIDE DEF cooled
  <2>. QED
    BY <2>6, <2>7, GloballyCooledIsSound DEF StartGlobalCooldown
<1>. QED
  BY <1>3, <1>4

LEMMA InterruptedIsSound ==
    ASSUME NEW d, Sound(d), NEW s \in d.channeling
    PROVE  Sound([d EXCEPT !.skills[s].is_channeling = FALSE, !.skills[s].cooldown = TRUE,
                           !.channeling = @ \ {s}])
<1>. DEFINE new == [d.skills EXCEPT ![s] = [d.skills[s] EXCEPT !.is_channeling = FALSE,
                                                               !.cooldown = TRUE]]
            channeling == d.channeling \ {s}
            e == [d EXCEPT !.skills = new, !.channeling = channeling]
            f == [d EXCEPT !.skills[s].is_channeling = FALSE, !.skills[s].cooldown = TRUE,
                           !.channeling = @ \ {s}]
<1>1. s \in DOMAIN d.skills /\ \A x \in DOMAIN d.skills : Marks(d.skills[x])
  BY DEF Sound, Fit, Listed
<1>2. DOMAIN d = DataFields
  BY DEF Sound, Shape
<1>3. f = e
  <2>1. DOMAIN f = DOMAIN e
    BY <1>2
  <2>2. f.skills = e.skills
    BY <1>1, <1>2 DEF DataFields, Marks, SkillFields
  <2>3. f.channeling = e.channeling
    BY <1>2 DEF DataFields
  <2>4. \A k \in DataFields \ {"skills", "channeling"} : f[k] = e[k]
    BY <1>2 DEF DataFields
  <2>5. \A k \in DataFields : f[k] = e[k]
    BY <2>2, <2>3, <2>4, Zenon
  <2>6. f = [k \in DataFields |-> f[k]] /\ e = [k \in DataFields |-> e[k]]
    BY <1>2
  <2>. HIDE DEF e, f
  <2>. QED
    BY <2>5, <2>6
<1>. HIDE DEF f
<1>4. /\ DOMAIN new = DOMAIN d.skills /\ new[s].is_channeling = FALSE
      /\ DOMAIN new[s] = SkillFields
      /\ \A x \in DOMAIN d.skills : /\ new[x].slot = d.skills[x].slot
                                    /\ new[x].is_active = d.skills[x].is_active
      /\ \A x \in DOMAIN d.skills \ {s} : new[x] = d.skills[x]
  BY <1>1 DEF Marks, SkillFields
<1>. HIDE DEF new
<1>5. \A x \in DOMAIN new : /\ Marks(new[x]) /\ new[x].slot = d.skills[x].slot
                            /\ new[x].is_active = d.skills[x].is_active
  BY <1>1, <1>4 DEF Marks
<1>6. channeling = {x \in DOMAIN new : new[x].is_channeling}
  BY <1>4 DEF Sound, Fit, Listed
<1>7. \A a, b \in channeling : a = b
  BY DEF Sound, Fit, Listed
<1>. HIDE DEF channeling
<1>8. Sound(e)
  BY <1>4, <1>5, <1>6, <1>7, ChanneledIsSound
<1>. QED
  BY <1>3, <1>8 DEF f

LEMMA ChannelsEndSoundly ==
    ASSUME NEW d, Sound(d), NEW done, done \subseteq d.channeling
    PROVE  Sound([d EXCEPT
                    !.skills = [x \in DOMAIN @ |->
                       IF x \in done THEN [@[x] EXCEPT !.is_channeling = FALSE] ELSE @[x]],
                    !.channeling = @ \ done])
<1>. DEFINE new == [x \in DOMAIN d.skills |->
                      IF x \in done THEN [d.skills[x] EXCEPT !.is_channeling = FALSE]
                      ELSE d.skills[x]]
            channeling == d.channeling \ done
<1>1. \A x \in DOMAIN d.skills : Marks(d.skills[x])
  BY DEF Sound, Fit
<1>2. /\ DOMAIN new = DOMAIN d.skills
      /\ \A x \in DOMAIN d.skills : /\ Marks(new[x]) /\ new[x].slot = d.skills[x].slot
                                    /\ new[x].is_active = d.skills[x].is_active
                                    /\ x \in done => new[x].is_channeling = FALSE
                                    /\ x \notin done => new[x] = d.skills[x]
  BY <1>1 DEF Marks, SkillFields
<1>3. [d EXCEPT !.skills = [x \in DOMAIN @ |->
                       IF x \in done THEN [@[x] EXCEPT !.is_channeling = FALSE] ELSE @[x]],
                !.channeling = @ \ done]
        = [d EXCEPT !.skills = new, !.channeling = channeling]
  BY DEF Sound, Shape, DataFields
<1>. HIDE DEF new
<1>4. channeling = {x \in DOMAIN new : new[x].is_channeling}
  BY <1>2 DEF Sound, Fit, Listed
<1>5. \A a, b \in channeling : a = b
  BY DEF Sound, Fit, Listed
<1>. HIDE DEF channeling
<1>6. Sound([d EXCEPT !.skills = new, !.channeling = channeling])
  BY <1>2, <1>4, <1>5, ChanneledIsSound
<1>. QED
  BY <1>3, <1>6, Zenon

LEMMA CooldownsEndSoundly ==
    ASSUME NEW d, Sound(d), NEW done, NEW global
    PROVE  Sound([d EXCEPT !.skills = Cooling(@, done), !.global_cooldown = @ /\ ~global])
<1>. DEFINE new == Cooling(d.skills, done)
            e == [d EXCEPT !.skills = new]
            cool == d.global_cooldown /\ ~global
<1>1. \A x \in DOMAIN d.skills : DOMAIN d.skills[x] = SkillFields
  BY DEF Sound, Fit, Marks
<1>2. /\ DOMAIN new = DOMAIN d.skills
      /\ \A x \in DOMAIN d.skills :
             /\ DOMAIN new[x] = SkillFields /\ new[x].slot = d.skills[x].slot
             /\ new[x].is_active = d.skills[x].is_active
             /\ new[x].is_channeling = d.skills[x].is_channeling
  BY <1>1 DEF SkillFields, Cooling
<1>3. [d EXCEPT !.skills = Cooling(@, done), !.global_cooldown = @ /\ ~global]
        = [e EXCEPT !.global_cooldown = cool]
  BY DEF Sound, Shape, DataFields
<1>. HIDE DEF new, cool
<1>4. Sound(e)
  BY <1>2, CooledIsSound
<1>. HIDE DEF e
<1>5. Sound([e EXCEPT !.global_cooldown = cool])
  BY <1>4, GloballyCooledIsSound
<1>. QED
  BY <1>3, <1>5, Zenon

-----------------------------------------------------------------------------
(* The operations.                                                         *)

LEMMA BecomesSound ==
    ASSUME SkillsIInv, NEW p \in Learners, NEW d, Sound(d), Becomes(p, d) PROVE SkillsIInv'
BY DEF SkillsIInv, Books, Becomes

LEMMA RelockedSound ==
    ASSUME SkillsIInv, NEW p \in Learners, NEW before, NEW after, Sound(before), Sound(after),
           Relock(p, before, after)
    PROVE  SkillsIInv'
<1>1. \E d \in {before, after} : book' = [book EXCEPT ![p] = d]
  BY DEF Relock, Becomes
<1>. QED
  BY <1>1 DEF SkillsIInv, Books

LEMMA LearnKeeps ==
    ASSUME SkillsIInv, NEW p \in Learners, NEW s, NEW l, LearnSkill(p, s, l) PROVE SkillsIInv'
<1>. DEFINE data == Entry(p)
            level == IF l < max_level[s] THEN l ELSE max_level[s]
            learned == [data EXCEPT !.skills = With(@, s, NewSkill(level))]
<1>1. Sound(data) /\ Sound(UpgradeSkill(data, s))
  BY EntryIsSound, UpgradedIsSound
<1>2. ~Has(p, s) => s \notin DOMAIN data.skills
  <2>1. book[p] = NoBook => DOMAIN data.skills = {}
    <3>1. PlayerSkillData.skills = <<>> /\ DOMAIN <<>> = {}
      BY DEF PlayerSkillData
    <3>. QED
      BY <3>1 DEF Entry
  <2>. QED
    BY <2>1 DEF Has, Entry
<1>. HIDE DEF data, level
<1>3. ~Has(p, s) => Sound(learned)
  BY <1>1, <1>2, LearnedIsSound
<1>4. CASE Has(p, s)
  <2>1. Relock(p, data, UpgradeSkill(data, s))
    BY <1>4 DEF LearnSkill, data
  <2>. QED
    BY <1>1, <2>1, RelockedSound
<1>5. CASE ~Has(p, s) /\ RequiredSkill[s] = NoRequirement
  <2>1. Becomes(p, learned)
    BY <1>5 DEF LearnSkill, data, level
  <2>. QED
    BY <1>3, <1>5, <2>1, BecomesSound
<1>6. CASE ~Has(p, s) /\ RequiredSkill[s] # NoRequirement
  <2>1. Relock(p, data, IF MeetsSkillRequirements(p, s) THEN learned ELSE data)
    BY <1>6 DEF LearnSkill, data, level
  <2>. HIDE DEF learned
  <2>2. Relock(p, data, learned) \/ Relock(p, data, data)
    BY <2>1
  <2>. QED
    BY <1>1, <1>3, <1>6, <2>2, RelockedSound
<1>. QED
  BY <1>4, <1>5, <1>6

LEMMA HasBook == ASSUME SkillsIInv, NEW p \in Learners, NEW s, Has(p, s)
                 PROVE  Sound(book[p]) /\ s \in DOMAIN book[p].skills
BY BookIsSound DEF Has

LEMMA ForgetKeeps ==
    ASSUME SkillsIInv, NEW p \in Learners, NEW s, ForgetSkill(p, s) PROVE SkillsIInv'
<1>. DEFINE Rid(data) == [data EXCEPT !.active = @ \ {s}, !.channeling = @ \ {s},
                                            !.skills = Without(@, s)]
<1>1. Sound(book[p])
  BY HasBook DEF ForgetSkill
<1>2. Sound(UnequipSkill(book[p], s))
  BY <1>1, UnequippedIsSound
<1>3. \A data : Sound(data) => Sound(Rid(data))
  BY ForgottenIsSound
<1>4. \/ Relock(p, book[p], Rid(UnequipSkill(book[p], s)))
      \/ Becomes(p, Rid(book[p]))
  BY DEF ForgetSkill
<1>. HIDE DEF Rid
<1>. QED
  BY <1>1, <1>2, <1>3, <1>4, RelockedSound, BecomesSound

LEMMA SetLevelKeeps ==
    ASSUME SkillsIInv, NEW p \in Learners, NEW s, NEW l, SetSkillLevel(p, s, l)
    PROVE  SkillsIInv'
<1>. DEFINE level == IF l < 1 THEN 1 ELSE IF l > max_level[s] THEN max_level[s] ELSE l
            new == [book[p] EXCEPT !.skills[s].level = level]
<1>1. Sound(book[p]) /\ s \in DOMAIN book[p].skills
  BY HasBook DEF SetSkillLevel
<1>2. Becomes(p, new)
  BY DEF SetSkillLevel
<1>. HIDE DEF level
<1>3. Sound(new)
  BY <1>1, LeveledIsSound
<1>. HIDE DEF new
<1>. QED
  BY <1>2, <1>3, BecomesSound

LEMMA EquipKeeps ==
    ASSUME SkillsIInv, NEW p \in Learners, NEW s, NEW slot, EquipSkill(p, s, slot)
    PROVE  SkillsIInv'
<1>. DEFINE d == book[p]
            displaced == IF slot \in DOMAIN d.slots
                         THEN {d.slots[slot]} \cap DOMAIN d.skills ELSE {}
            new == [x \in DOMAIN d.skills |->
                      IF x = s THEN [d.skills[x] EXCEPT !.slot = slot]
                      ELSE IF x \in displaced THEN [d.skills[x] EXCEPT !.slot = -1]
                      ELSE d.skills[x]]
            e == [d EXCEPT !.slots = With(d.slots, slot, s), !.skills = new]
<1>1. Sound(d) /\ s \in DOMAIN d.skills
  BY HasBook DEF EquipSkill
<1>2. DOMAIN d = DataFields /\ \A x \in DOMAIN d.skills : Marks(d.skills[x])
  BY <1>1 DEF Sound, Shape, Fit
<1>3. slot # -1
  BY DEF EquipSkill, SkillSlots
<1>4. Becomes(p, e)
  BY <1>2 DEF EquipSkill, DataFields
<1>5. \A x \in DOMAIN d.skills \ displaced : slot \in DOMAIN d.slots => x # d.slots[slot]
  OBVIOUS
<1>. HIDE DEF displaced
<1>6. /\ DOMAIN new = DOMAIN d.skills /\ new[s].slot = slot
      /\ \A x \in DOMAIN d.skills : /\ Marks(new[x])
                                    /\ new[x].is_active = d.skills[x].is_active
                                    /\ new[x].is_channeling = d.skills[x].is_channeling
      /\ \A x \in DOMAIN d.skills \ {s} :
             /\ x \in displaced => new[x].slot = -1
             /\ x \notin displaced => new[x].slot = d.skills[x].slot
  BY <1>1, <1>2 DEF Marks, SkillFields
<1>. HIDE DEF new, d
<1>7. \A x \in DOMAIN d.skills \ {s} :
             \/ new[x].slot = -1
             \/ /\ new[x].slot = d.skills[x].slot
                /\ slot \in DOMAIN d.slots => x # d.slots[slot]
  BY <1>5, <1>6
<1>8. Sound(e)
  BY <1>1, <1>3, <1>6, <1>7, EquippedIsSound
<1>. HIDE DEF e
<1>. QED
  BY <1>4, <1>8, BecomesSound

LEMMA UseKeeps ==
    ASSUME SkillsIInv, NEW p \in Learners, NEW s, UseSkill(p, s) PROVE SkillsIInv'
<1>1. Sound(book[p])
  BY BookIsSound DEF UseSkill
<1>2. Relock(p, book[p], book[p]) \/ (CanUseSkill(book[p], s) /\ Relock(p, book[p], Used(book[p], s)))
  BY DEF UseSkill
<1>. QED
  BY <1>1, <1>2, UsedIsSound, RelockedSound

LEMMA InterruptKeeps ==
    ASSUME SkillsIInv, NEW p \in Learners, NEW s, InterruptSkill(p, s) PROVE SkillsIInv'
<1>. DEFINE new == [book[p] EXCEPT !.skills[s].is_channeling = FALSE,
                                   !.skills[s].cooldown = TRUE,
                                   !.channeling = @ \ {s}]
<1>1. Sound(book[p]) /\ s \in book[p].channeling /\ Becomes(p, new)
  BY HasBook DEF InterruptSkill
<1>2. Sound(new)
  BY <1>1, InterruptedIsSound
<1>. HIDE DEF new
<1>. QED
  BY <1>1, <1>2, BecomesSound

LEMMA UpdatesKeep ==
    ASSUME SkillsIInv, NEW p \in Learners, NEW done, NEW global,
           UpdatePlayerCooldowns(p, done, global) \/ UpdateChanneledSkills(p, done)
    PROVE  SkillsIInv'
<1>1. CASE UpdatePlayerCooldowns(p, done, global)
  <2>. DEFINE new == [book[p] EXCEPT
                 !.skills = Cooling(@, done), !.global_cooldown = @ /\ ~global]
  <2>1. Sound(book[p]) /\ Becomes(p, new)
    BY <1>1, BookIsSound DEF UpdatePlayerCooldowns
  <2>2. Sound(new)
    BY <2>1, CooldownsEndSoundly
  <2>. HIDE DEF new
  <2>. QED
    BY <2>1, <2>2, BecomesSound
<1>2. CASE UpdateChanneledSkills(p, done)
  <2>. DEFINE new == [book[p] EXCEPT
                 !.skills = [x \in DOMAIN @ |->
                       IF x \in done THEN [@[x] EXCEPT !.is_channeling = FALSE] ELSE @[x]],
                 !.channeling = @ \ done]
  <2>1. Sound(book[p]) /\ done \subseteq book[p].channeling /\ Becomes(p, new)
    BY <1>2, BookIsSound DEF UpdateChanneledSkills
  <2>2. Sound(new)
    BY <2>1, ChannelsEndSoundly
  <2>. HIDE DEF new
  <2>. QED
    BY <2>1, <2>2, BecomesSound
<1>. QED
  BY <1>1, <1>2

LEMMA SkillsStep == SkillsIInv /\ [SkillsNext]_skillsVars => SkillsIInv'
<1>. SUFFICES ASSUME SkillsIInv, [SkillsNext]_skillsVars PROVE SkillsIInv'
  OBVIOUS
<1>1. CASE UNCHANGED skillsVars
  BY <1>1 DEF skillsVars, SkillsIInv, Books
<1>2. CASE SkillsRestart
  BY <1>2 DEF SkillsRestart, SkillsIInv, Books
<1>3. ASSUME NEW p \in Learners, NEW s \in Spells,
             UseSkill(p, s) \/ InterruptSkill(p, s) \/ ForgetSkill(p, s)
      PROVE  SkillsIInv'
  BY <1>3, UseKeeps, InterruptKeeps, ForgetKeeps
<1>4. ASSUME NEW p \in Learners, NEW s \in Spells,
             Becomes(p, UpgradeSkill(Entry(p), s)) \/ Becomes(p, UnequipSkill(Entry(p), s))
      PROVE  SkillsIInv'
  <2>1. Sound(UpgradeSkill(Entry(p), s)) /\ Sound(UnequipSkill(Entry(p), s))
    BY EntryIsSound, UpgradedIsSound, UnequippedIsSound
  <2>. QED
    BY <1>4, <2>1, BecomesSound
<1>5. ASSUME NEW p \in Learners, NEW s \in Spells, NEW l,
             LearnSkill(p, s, l) \/ SetSkillLevel(p, s, l)
      PROVE  SkillsIInv'
  BY <1>5, LearnKeeps, SetLevelKeeps
<1>6. ASSUME NEW p \in Learners, NEW s \in Spells, NEW slot, EquipSkill(p, s, slot)
      PROVE  SkillsIInv'
  BY <1>6, EquipKeeps
<1>7. ASSUME NEW p \in Learners, NEW done, NEW all,
             UpdatePlayerCooldowns(p, done, all) \/ UpdateChanneledSkills(p, done)
      PROVE  SkillsIInv'
  BY <1>7, UpdatesKeep
<1>8. ASSUME NEW p \in Learners, NEW t, UnlockSkillTree(p, t) PROVE SkillsIInv'
  <2>1. Sound([Entry(p) EXCEPT !.trees = @ \cup {t}])
    BY EntryIsSound, UnlockedIsSound
  <2>. QED
    BY <1>8, <2>1, BecomesSound DEF UnlockSkillTree
<1>9. CASE SkillsOperation
  BY <1>3, <1>4, <1>5, <1>6, <1>7, <1>8, <1>9 DEF SkillsOperation
<1>. QED
  BY <1>1, <1>2, <1>9 DEF SkillsNext

(* SkillSystem, however its operations follow each other and lock twice: a *)
(* skill is in the slot it believes it is in, at most one is channeled,    *)
(* and the lists say what the skills say.                                  *)
THEOREM SkillsAreSound == Spec => []SkillsInv
<1>1. Init => SkillsIInv
  BY DEF Init, SkillsInit, SkillsIInv, Books
<1>2. SkillsIInv /\ [Next]_vars => SkillsIInv'
  <2>1. [Next]_vars => [SkillsNext]_skillsVars
    BY DEF Next, RulesStep, vars, rules
  <2>. QED
    BY <2>1, SkillsStep
<1>. QED
  BY <1>1, <1>2, SkillsFollow, PTL DEF Spec

-----------------------------------------------------------------------------
(* The quests of an entity.  Progress is honest when it counts every       *)
(* objective of its quest up to what is required, marks only those done    *)
(* that got there, and is complete when it says so.                        *)
ProgressFields == {"state", "rewards_claimed", "count", "done", "running"}
QuestFields == {"known", "active", "completed", "chains", "discovered", "tracked", "cooling",
                "total_completed"}

Honest(q, progress) ==
    /\ DOMAIN progress = ProgressFields /\ DOMAIN progress.count = DOMAIN Objectives(q)
    /\ \A o \in DOMAIN Objectives(q) : progress.count[o] \in 0..Objectives(q)[o].required
    /\ progress.done \subseteq DOMAIN Objectives(q)
    /\ \A o \in progress.done : progress.count[o] = Objectives(q)[o].required
    /\ progress.state \in {"COMPLETED", "REWARDS_CLAIMED"} => AllComplete(q, progress)

AllHonest(kept) == DOMAIN kept \subseteq QuestIds /\ \A q \in DOMAIN kept : Honest(q, kept[q])

Kept(d) == AllHonest(d.active) /\ AllHonest(d.completed)
Limited(d) == Cardinality(DOMAIN d.active) <= MAX_QUESTS
Proper(d) == DOMAIN d = QuestFields /\ Kept(d) /\ Limited(d)
NoneOrProper(d) == d = NoJournal \/ Proper(d)

(* What a thread has still to do names quests and objectives there are.    *)
GoodSection(s) ==
    /\ s.op = "insert" => s.quest \in QuestIds
    /\ s.op = "happens" => s.n \in Nat
    /\ s.op = "update" =>
         s.quest \in QuestIds /\ s.objective \in DOMAIN Objectives(s.quest) /\ s.n \in Nat
Orders(list) == \E sections : list \in Seq(sections) /\ \A s \in sections : GoodSection(s)

QuestsIInv ==
    /\ NoneOrProper(journal) /\ NoneOrProper(paper)
    /\ DOMAIN calls = Callers /\ \A t \in Callers : Orders(calls[t])

LEMMA QuestsFollow == QuestsIInv => QuestsInv
<1>. SUFFICES ASSUME QuestsIInv, journal # NoJournal PROVE QuestsInv
  BY DEF QuestsInv, ActiveLimit, DoneHonestly
<1>1. Kept(journal) /\ Limited(journal)
  BY DEF QuestsIInv, NoneOrProper, Proper
<1>2. ActiveLimit
  BY <1>1 DEF ActiveLimit, Limited
<1>3. ASSUME NEW data, AllHonest(data), NEW q \in DOMAIN data
      PROVE  /\ data[q].state \in {"COMPLETED", "REWARDS_CLAIMED"} => AllComplete(q, data[q])
             /\ \A o \in data[q].done : data[q].count[o] = Objectives(q)[o].required
  BY <1>3 DEF AllHonest, Honest
<1>4. DoneHonestly
  BY <1>1, <1>3, Zenon DEF DoneHonestly, Kept
<1>. QED
  BY <1>2, <1>4 DEF QuestsInv

(* Lists of sections.                                                      *)
LEMMA OrdersAre ==
    ASSUME NEW list, NEW sections, list \in Seq(sections), \A s \in sections : GoodSection(s)
    PROVE  Orders(list)
BY DEF Orders

LEMMA NoOrders == Orders(<<>>)
<1>. DEFINE none == {}
<1>1. <<>> \in Seq(none) /\ \A s \in none : GoodSection(s)
  OBVIOUS
<1>. HIDE DEF none
<1>. QED
  BY <1>1, OrdersAre

LEMMA OrdersJoin ==
    ASSUME NEW list, NEW more, Orders(list), Orders(more), list # <<>>
    PROVE  Orders(more \o Tail(list)) /\ Orders(Tail(list)) /\ GoodSection(Head(list))
<1>1. PICK first : list \in Seq(first) /\ \A s \in first : GoodSection(s)
  BY DEF Orders
<1>2. PICK second : more \in Seq(second) /\ \A s \in second : GoodSection(s)
  BY DEF Orders
<1>3. Tail(list) \in Seq(first) /\ Head(list) \in first
  BY <1>1
<1>4. Tail(list) \in Seq(first \cup second) /\ more \in Seq(first \cup second)
  <2>1. ASSUME NEW s, NEW small, NEW large, small \subseteq large, s \in Seq(small)
        PROVE  s \in Seq(large)
    BY <2>1
  <2>. QED
    BY <1>2, <1>3, <2>1
<1>5. more \o Tail(list) \in Seq(first \cup second)
  BY <1>4
<1>6. \A s \in first \cup second : GoodSection(s)
  BY <1>1, <1>2
<1>. QED
  BY <1>1, <1>3, <1>5, <1>6 DEF Orders

LEMMA OneOrder == ASSUME NEW s, GoodSection(s) PROVE Orders(<<s>>)
<1>. DEFINE one == {s}
<1>1. <<s>> \in Seq(one) /\ \A x \in one : GoodSection(x)
  OBVIOUS
<1>. HIDE DEF one
<1>. QED
  BY <1>1, OrdersAre

LEMMA ManyOrders ==
    ASSUME NEW n \in Nat, NEW list, DOMAIN list = 1..n, list = [k \in 1..n |-> list[k]],
           \A k \in 1..n : GoodSection(list[k])
    PROVE  Orders(list)
<1>. DEFINE all == {list[k] : k \in 1..n}
<1>1. list \in Seq(all) /\ \A s \in all : GoodSection(s)
  OBVIOUS
<1>. QED
  BY <1>1 DEF Orders

LEMMA OneMoreOrder ==
    ASSUME NEW list, Orders(list), NEW s, GoodSection(s)
    PROVE  Orders(Append(list, s))
<1>1. PICK first : list \in Seq(first) /\ \A x \in first : GoodSection(x)
  BY DEF Orders
<1>2. \A k \in 1..Len(list) : list[k] \in first \cup {s}
  BY <1>1
<1>3. list \in Seq(first \cup {s})
  BY <1>1, <1>2
<1>4. Append(list, s) \in Seq(first \cup {s}) /\ \A x \in first \cup {s} : GoodSection(x)
  BY <1>1, <1>3
<1>. QED
  BY <1>4 DEF Orders

LEMMA PlainSteps ==
    ASSUME NEW word, word \notin {"insert", "happens", "update"}, NEW q
    PROVE  GoodSection(Step(word, q))
BY DEF GoodSection, Step, Section

LEMMA CheckIsPlain == ASSUME NEW q PROVE GoodSection(Check(q))
BY DEF GoodSection, Check, Section

(* What a section leaves is fit to be the journal, and its orders to be    *)
(* run.                                                                    *)
LEMMA DoesKeeps ==
    ASSUME QuestsIInv, NEW t \in Callers, calls[t] # <<>>, NEW d, NEW more,
           NoneOrProper(d), Orders(more), Does(t, d, more)
    PROVE  QuestsIInv'
<1>1. journal' = d /\ paper' = paper /\ calls' = [calls EXCEPT ![t] = more \o Tail(@)]
  BY DEF Does
<1>2. Orders(more \o Tail(calls[t]))
  BY OrdersJoin DEF QuestsIInv
<1>3. DOMAIN calls' = Callers /\ \A u \in Callers : Orders(calls'[u])
  BY <1>1, <1>2 DEF QuestsIInv
<1>4. NoneOrProper(journal)' /\ NoneOrProper(paper)'
  BY <1>1 DEF QuestsIInv, NoneOrProper, Proper, Kept, Limited
<1>. QED
  BY <1>3, <1>4 DEF QuestsIInv

LEMMA LockedAgainKeeps ==
    ASSUME QuestsIInv, NEW t \in Callers, calls[t] # <<>>, NEW d, NoneOrProper(d),
           LockedAgain(t, d)
    PROVE  QuestsIInv'
<1>1. journal' = d /\ paper' = paper /\ calls' = [calls EXCEPT ![t] = Tail(@)]
  BY DEF LockedAgain
<1>2. Orders(Tail(calls[t]))
  BY OrdersJoin DEF QuestsIInv
<1>3. DOMAIN calls' = Callers /\ \A u \in Callers : Orders(calls'[u])
  BY <1>1, <1>2 DEF QuestsIInv
<1>4. NoneOrProper(journal)' /\ NoneOrProper(paper)'
  BY <1>1 DEF QuestsIInv, NoneOrProper, Proper, Kept, Limited
<1>. QED
  BY <1>3, <1>4 DEF QuestsIInv

LEMMA StaysKeeps ==
    ASSUME QuestsIInv, NEW t \in Callers, calls[t] # <<>>, Stays(t)
    PROVE  QuestsIInv'
BY DoesKeeps, NoOrders DEF Stays, QuestsIInv

(* The data a section works on, its own or new.                            *)
LEMMA DataIsProper == ASSUME QuestsIInv PROVE Proper(Data)
<1>1. CASE journal = NoJournal
  <2>1. Data = EntityQuestData
    BY <1>1 DEF Data
  <2>2. DOMAIN EntityQuestData.active = {} /\ DOMAIN EntityQuestData.completed = {}
    BY DEF EntityQuestData
  <2>3. DOMAIN EntityQuestData = QuestFields
    BY DEF EntityQuestData, QuestFields
  <2>4. Kept(EntityQuestData)
    BY <2>2 DEF Kept, AllHonest
  <2>5. Limited(EntityQuestData)
    BY <2>2, FS_EmptySet, QuestsAssumption DEF Limited
  <2>. QED
    BY <2>1, <2>3, <2>4, <2>5 DEF Proper
<1>2. CASE journal # NoJournal
  BY <1>2 DEF Data, QuestsIInv, NoneOrProper
<1>. QED
  BY <1>1, <1>2

LEMMA ActiveMeansKnown == ASSUME NEW q \in DOMAIN Data.active PROVE journal = Data
<1>1. DOMAIN EntityQuestData.active = {}
  BY DEF EntityQuestData
<1>. QED
  BY <1>1 DEF Data

(* Books of progress with an entry more, another or less.                  *)
LEMMA PutIsHonest ==
    ASSUME NEW kept, AllHonest(kept), NEW q \in QuestIds, NEW p, Honest(q, p)
    PROVE  AllHonest(Put(kept, q, p)) /\ DOMAIN Put(kept, q, p) = DOMAIN kept \cup {q}
BY DEF AllHonest, Put

LEMMA DropIsHonest ==
    ASSUME NEW kept, AllHonest(kept), NEW q
    PROVE  AllHonest(Drop(kept, q)) /\ DOMAIN Drop(kept, q) = DOMAIN kept \ {q}
BY DEF AllHonest, Drop

LEMMA ChangeIsHonest ==
    ASSUME NEW kept, AllHonest(kept), NEW q \in DOMAIN kept, NEW p, Honest(q, p)
    PROVE  AllHonest([kept EXCEPT ![q] = p]) /\ DOMAIN [kept EXCEPT ![q] = p] = DOMAIN kept
BY DEF AllHonest

LEMMA NewIsHonest == ASSUME NEW q \in QuestIds PROVE Honest(q, QuestProgress(q))
<1>1. DOMAIN QuestProgress(q) = ProgressFields
  BY DEF QuestProgress, ProgressFields
<1>2. \A o \in DOMAIN Objectives(q) : 0 \in 0..Objectives(q)[o].required
  BY QuestsAssumption
<1>. QED
  BY <1>1, <1>2 DEF Honest, QuestProgress

(* Journals with other books.                                              *)
LEMMA WithActive ==
    ASSUME NEW d, Proper(d), NEW kept, AllHonest(kept), DOMAIN kept \subseteq DOMAIN d.active
    PROVE  Proper([d EXCEPT !.active = kept])
<1>1. IsFiniteSet(DOMAIN d.active)
  BY QuestsAssumption, FS_Subset DEF Proper, Kept, AllHonest
<1>2. Cardinality(DOMAIN kept) <= Cardinality(DOMAIN d.active)
      /\ Cardinality(DOMAIN kept) \in Nat /\ Cardinality(DOMAIN d.active) \in Nat
  BY <1>1, FS_Subset, FS_CardinalityType
<1>3. Cardinality(DOMAIN kept) <= MAX_QUESTS
  BY <1>2, QuestsAssumption DEF Proper, Limited
<1>4. [d EXCEPT !.active = kept].active = kept
      /\ [d EXCEPT !.active = kept].completed = d.completed
      /\ DOMAIN [d EXCEPT !.active = kept] = QuestFields
  BY DEF Proper, QuestFields
<1>. QED
  BY <1>3, <1>4 DEF Proper, Kept, Limited

LEMMA WithCompleted ==
    ASSUME NEW d, Proper(d), NEW kept, AllHonest(kept)
    PROVE  Proper([d EXCEPT !.completed = kept])
<1>1. [d EXCEPT !.completed = kept].active = d.active
      /\ [d EXCEPT !.completed = kept].completed = kept
      /\ DOMAIN [d EXCEPT !.completed = kept] = QuestFields
  BY DEF Proper, QuestFields
<1>. QED
  BY <1>1 DEF Proper, Kept, Limited

LEMMA WithOther ==
    ASSUME NEW d, Proper(d), NEW field \in QuestFields \ {"active", "completed"}, NEW v
    PROVE  Proper([d EXCEPT ![field] = v])
<1>1. [d EXCEPT ![field] = v].active = d.active
      /\ [d EXCEPT ![field] = v].completed = d.completed
      /\ DOMAIN [d EXCEPT ![field] = v] = QuestFields
  BY DEF Proper, QuestFields
<1>. QED
  BY <1>1 DEF Proper, Kept, Limited

LEMMA UntrackedIsProper == ASSUME NEW d, Proper(d), NEW q PROVE Proper(Untracked(d, q))
<1>1. Untracked(d, q).active = d.active /\ Untracked(d, q).completed = d.completed
      /\ DOMAIN Untracked(d, q) = QuestFields
  BY DEF Untracked, Proper, QuestFields
<1>. QED
  BY <1>1 DEF Proper, Kept, Limited

LEMMA ProperByParts ==
    ASSUME NEW d, Proper(d), NEW e, DOMAIN e = QuestFields,
           AllHonest(e.active), DOMAIN e.active \subseteq DOMAIN d.active, AllHonest(e.completed)
    PROVE  Proper(e)
<1>1. IsFiniteSet(DOMAIN d.active)
  BY QuestsAssumption, FS_Subset DEF Proper, Kept, AllHonest
<1>2. Cardinality(DOMAIN e.active) <= Cardinality(DOMAIN d.active)
      /\ Cardinality(DOMAIN e.active) \in Nat /\ Cardinality(DOMAIN d.active) \in Nat
  BY <1>1, FS_Subset, FS_CardinalityType
<1>3. Cardinality(DOMAIN e.active) <= MAX_QUESTS
  BY <1>2, QuestsAssumption DEF Proper, Limited
<1>. QED
  BY <1>3 DEF Proper, Kept, Limited

LEMMA StateIsHonest ==
    ASSUME NEW q, NEW p, Honest(q, p), NEW state,
           state \in {"COMPLETED", "REWARDS_CLAIMED"} => AllComplete(q, p)
    PROVE  Honest(q, [p EXCEPT !.state = state])
<1>. DEFINE new == [p EXCEPT !.state = state]
<1>1. DOMAIN new = ProgressFields /\ new.count = p.count /\ new.done = p.done
      /\ new.state = state
  BY DEF Honest, ProgressFields
<1>. HIDE DEF new
<1>2. Honest(q, new)
  BY <1>1 DEF Honest, AllComplete
<1>. QED
  BY <1>2 DEF new

(* StartQuest looks at the limit in the section that adds the quest.       *)
LEMMA StartKeeps ==
    ASSUME QuestsIInv, NEW t \in Callers, calls[t] # <<>>, NEW q \in QuestIds, StartQuest(t, q)
    PROVE  QuestsIInv'
<1>1. CASE Cardinality(DOMAIN Data.active) >= MAX_QUESTS
  BY <1>1, DataIsProper, DoesKeeps, NoOrders DEF StartQuest, NoneOrProper
<1>2. CASE ~(Cardinality(DOMAIN Data.active) >= MAX_QUESTS)
  <2>. DEFINE new == [Data EXCEPT !.active = Put(@, q, QuestProgress(q)),
                                  !.discovered = @ \cup {q}]
              more == Put(Data.active, q, QuestProgress(q))
  <2>1. Does(t, new, <<>>)
    BY <1>2 DEF StartQuest
  <2>2. DOMAIN new = QuestFields /\ new.active = more /\ new.completed = Data.completed
    BY DataIsProper DEF Proper, QuestFields
  <2>3. AllHonest(more) /\ DOMAIN more = DOMAIN Data.active \cup {q}
    BY DataIsProper, NewIsHonest, PutIsHonest DEF Proper, Kept
  <2>4. IsFiniteSet(DOMAIN Data.active)
    BY DataIsProper, QuestsAssumption, FS_Subset DEF Proper, Kept, AllHonest
  <2>5. Cardinality(DOMAIN Data.active) \in Nat /\ Cardinality(DOMAIN Data.active) < MAX_QUESTS
    BY <1>2, <2>4, FS_CardinalityType, QuestsAssumption
  <2>. HIDE DEF new, more
  <2>6. Cardinality(DOMAIN more) <= MAX_QUESTS
    <3>1. MAX_QUESTS \in Nat
      BY QuestsAssumption
    <3>. DEFINE keys == DOMAIN Data.active
    <3>. HIDE DEF keys
    <3>2. IsFiniteSet(keys) /\ Cardinality(keys) \in Nat
      BY <2>4, <2>5 DEF keys
    <3>3. /\ Cardinality(keys \cup {q}) <= Cardinality(keys) + 1
          /\ Cardinality(keys \cup {q}) \in Nat
      <4>1. CASE q \in keys
        <5>1. keys \cup {q} = keys
          BY <4>1
        <5>2. Cardinality(keys \cup {q}) = Cardinality(keys)
          BY <5>1, Zenon
        <5>. QED
          BY <3>2, <5>2
      <4>2. CASE q \notin keys
        <5>1. Cardinality(keys \cup {q}) = Cardinality(keys) + 1
          BY <3>2, <4>2, FS_AddElement
        <5>. QED
          BY <3>2, <5>1
      <4>. QED
        BY <4>1, <4>2
    <3>. USE DEF keys
    <3>. QED
      BY <2>3, <2>5, <3>1, <3>3
  <2>7. Proper(new)
    BY <2>2, <2>3, <2>6, DataIsProper DEF Proper, Kept, Limited
  <2>. QED
    BY <2>1, <2>7, DoesKeeps, NoOrders DEF NoneOrProper
<1>. QED
  BY <1>1, <1>2

LEMMA CheckKeeps ==
    ASSUME QuestsIInv, NEW t \in Callers, calls[t] # <<>>, NEW q, CheckStart(t, q)
    PROVE  QuestsIInv'
<1>1. CASE CanStartQuest(q)
  <2>1. GoodSection(Step("insert", q))
    BY <1>1 DEF CanStartQuest, GoodSection, Step, Section
  <2>. QED
    BY <1>1, <2>1, OneOrder, DoesKeeps DEF CheckStart, QuestsIInv
<1>2. CASE ~CanStartQuest(q)
  BY <1>2, StaysKeeps DEF CheckStart
<1>. QED
  BY <1>1, <1>2

LEMMA AbandonKeeps ==
    ASSUME QuestsIInv, NEW t \in Callers, calls[t] # <<>>, NEW q, AbandonQuest(t, q)
    PROVE  QuestsIInv'
<1>1. CASE q \notin DOMAIN Data.active
  BY <1>1, StaysKeeps DEF AbandonQuest
<1>2. CASE q \in DOMAIN Data.active
  <2>. DEFINE new == [Data EXCEPT !.active = Drop(@, q)]
  <2>1. Does(t, Untracked(new, q), <<>>)
    BY <1>2, ActiveMeansKnown DEF AbandonQuest
  <2>2. DOMAIN new = QuestFields /\ new.active = Drop(Data.active, q)
        /\ new.completed = Data.completed
    BY DataIsProper DEF Proper, QuestFields
  <2>. HIDE DEF new
  <2>3. AllHonest(new.active) /\ DOMAIN new.active \subseteq DOMAIN Data.active
        /\ AllHonest(new.completed)
    <3>1. AllHonest(Data.active) /\ AllHonest(Data.completed)
      BY DataIsProper DEF Proper, Kept
    <3>2. AllHonest(Drop(Data.active, q)) /\ DOMAIN Drop(Data.active, q) = DOMAIN Data.active \ {q}
      BY <3>1, DropIsHonest
    <3>. QED
      BY <2>2, <3>1, <3>2
  <2>4. Proper(new)
    BY <2>2, <2>3, DataIsProper, ProperByParts
  <2>. QED
    BY <2>1, <2>4, UntrackedIsProper, DoesKeeps, NoOrders DEF NoneOrProper
<1>. QED
  BY <1>1, <1>2

LEMMA CompleteKeeps ==
    ASSUME QuestsIInv, NEW t \in Callers, calls[t] # <<>>, NEW q, CompleteQuest(t, q)
    PROVE  QuestsIInv'
<1>. DEFINE may == /\ q \in DOMAIN Data.active /\ Data.active[q].state = "IN_PROGRESS"
                   /\ AllComplete(q, Data.active[q])
<1>1. CASE ~may
  BY <1>1, StaysKeeps DEF CompleteQuest
<1>2. CASE may
  <2>. DEFINE p == [Data.active[q] EXCEPT !.state = "COMPLETED"]
              new == [Data EXCEPT !.active[q].state = "COMPLETED"]
  <2>1. Does(t, new, <<>>)
    BY <1>2, ActiveMeansKnown DEF CompleteQuest
  <2>2. DOMAIN new = QuestFields /\ new.active = [Data.active EXCEPT ![q] = p]
        /\ new.completed = Data.completed
    BY DataIsProper DEF Proper, QuestFields
  <2>3. Honest(q, p)
    BY <1>2, DataIsProper, StateIsHonest DEF Proper, Kept, AllHonest
  <2>. HIDE DEF new, p
  <2>4. AllHonest(new.active) /\ DOMAIN new.active \subseteq DOMAIN Data.active
        /\ AllHonest(new.completed)
    BY <1>2, <2>2, <2>3, ChangeIsHonest, DataIsProper DEF Proper, Kept
  <2>5. Proper(new)
    BY <2>2, <2>4, DataIsProper, ProperByParts
  <2>. QED
    BY <2>1, <2>5, DoesKeeps, NoOrders DEF NoneOrProper
<1>. QED
  BY <1>1, <1>2

LEMMA FailKeeps ==
    ASSUME QuestsIInv, NEW t \in Callers, calls[t] # <<>>, NEW q, FailQuest(t, q)
    PROVE  QuestsIInv'
<1>1. CASE q \notin DOMAIN Data.active
  BY <1>1, StaysKeeps DEF FailQuest
<1>2. CASE q \in DOMAIN Data.active
  <2>. DEFINE p == [Data.active[q] EXCEPT !.state = "FAILED"]
              new == [Data EXCEPT !.active = Drop(@, q), !.completed = Put(@, q, p)]
  <2>1. Does(t, Untracked(new, q), <<>>)
    BY <1>2, ActiveMeansKnown DEF FailQuest
  <2>2. DOMAIN new = QuestFields /\ new.active = Drop(Data.active, q)
        /\ new.completed = Put(Data.completed, q, p)
    BY DataIsProper DEF Proper, QuestFields
  <2>3. q \in QuestIds /\ Honest(q, p)
    BY <1>2, DataIsProper, StateIsHonest DEF Proper, Kept, AllHonest
  <2>. HIDE DEF new, p
  <2>4. AllHonest(new.active) /\ DOMAIN new.active \subseteq DOMAIN Data.active
        /\ AllHonest(new.completed)
    <3>1. AllHonest(Data.active) /\ AllHonest(Data.completed)
      BY DataIsProper DEF Proper, Kept
    <3>2. AllHonest(Drop(Data.active, q)) /\ DOMAIN Drop(Data.active, q) = DOMAIN Data.active \ {q}
      BY <3>1, DropIsHonest
    <3>3. AllHonest(Put(Data.completed, q, p))
      BY <2>3, <3>1, PutIsHonest
    <3>. QED
      BY <2>2, <3>1, <3>2, <3>3
  <2>5. Proper(new)
    BY <2>2, <2>4, DataIsProper, ProperByParts
  <2>. QED
    BY <2>1, <2>5, UntrackedIsProper, DoesKeeps, NoOrders DEF NoneOrProper
<1>. QED
  BY <1>1, <1>2

(* A quest that was completed gives its reward: it can be done again, or   *)
(* is put with the completed ones.                                         *)
LEMMA ClaimKeeps ==
    ASSUME QuestsIInv, NEW t \in Callers, calls[t] # <<>>, NEW q, ClaimQuestReward(t, q)
    PROVE  QuestsIInv'
<1>1. CASE q \notin DOMAIN Data.active \/ Data.active[q].state # "COMPLETED"
  BY <1>1, StaysKeeps DEF ClaimQuestReward
<1>2. CASE q \in DOMAIN Data.active /\ Data.active[q].state = "COMPLETED"
  <2>. DEFINE p == Data.active[q]
              claimed == [p EXCEPT !.state = "REWARDS_CLAIMED", !.rewards_claimed = TRUE]
              again == [p EXCEPT !.state = "NOT_STARTED", !.done = {},
                                 !.count = [o \in DOMAIN @ |-> 0]]
              keep == [Data EXCEPT !.active[q] = again,
                         !.cooling = IF Definition[q].type = "SIDE" THEN @ ELSE @ \cup {q}]
              move == [Data EXCEPT !.active = Drop(@, q), !.completed = Put(@, q, claimed)]
              moved == IF Definition[q].repeatable THEN keep ELSE move
              counted == [moved EXCEPT !.total_completed = @ + 1]
              more == [k \in DOMAIN Definition[q].next |-> Check(Definition[q].next[k])]
  <2>1. Does(t, Untracked(counted, q), more)
    BY <1>2, ActiveMeansKnown DEF ClaimQuestReward
  <2>2. q \in QuestIds /\ Honest(q, p) /\ AllHonest(Data.active) /\ AllHonest(Data.completed)
    BY <1>2, DataIsProper DEF Proper, Kept, AllHonest
  <2>3. Honest(q, claimed)
    <3>1. DOMAIN claimed = ProgressFields /\ claimed.count = p.count /\ claimed.done = p.done
      BY <2>2 DEF Honest, ProgressFields
    <3>2. AllComplete(q, p)
      BY <1>2, <2>2 DEF Honest
    <3>. HIDE DEF claimed
    <3>. QED
      BY <2>2, <3>1, <3>2 DEF Honest, AllComplete
  <2>4. Honest(q, again)
    <3>1. /\ DOMAIN again = ProgressFields /\ again.done = {} /\ again.state = "NOT_STARTED"
          /\ again.count = [o \in DOMAIN Objectives(q) |-> 0]
      BY <2>2 DEF Honest, ProgressFields
    <3>2. \A o \in DOMAIN Objectives(q) : 0 \in 0..Objectives(q)[o].required
      BY <2>2, QuestsAssumption
    <3>. HIDE DEF again
    <3>. QED
      BY <3>1, <3>2 DEF Honest
  <2>5. DOMAIN keep = QuestFields /\ keep.active = [Data.active EXCEPT ![q] = again]
        /\ keep.completed = Data.completed
    BY DataIsProper DEF Proper, QuestFields
  <2>6. DOMAIN move = QuestFields /\ move.active = Drop(Data.active, q)
        /\ move.completed = Put(Data.completed, q, claimed)
    BY DataIsProper DEF Proper, QuestFields
  <2>7. Orders(more)
    <3>0. Definition[q].next \in Seq(Range(Definition[q].next))
      BY <2>2, QuestsAssumption
    <3>1. PICK n \in Nat : DOMAIN Definition[q].next = 1..n
      BY <3>0
    <3>2. more = [k \in 1..n |-> Check(Definition[q].next[k])]
      BY <3>1
    <3>3. DOMAIN more = 1..n /\ more = [k \in 1..n |-> more[k]]
          /\ \A k \in 1..n : GoodSection(more[k])
      BY <3>2, CheckIsPlain
    <3>. HIDE DEF more
    <3>. QED
      BY <3>3, ManyOrders
  <2>. HIDE DEF claimed, again, keep, move, more
  <2>8. Proper(keep)
    <3>1. AllHonest(keep.active) /\ DOMAIN keep.active = DOMAIN Data.active
      BY <1>2, <2>2, <2>4, <2>5, ChangeIsHonest
    <3>. QED
      BY <2>2, <2>5, <3>1, DataIsProper, ProperByParts
  <2>9. Proper(move)
    <3>1. AllHonest(Drop(Data.active, q)) /\ DOMAIN Drop(Data.active, q) = DOMAIN Data.active \ {q}
      BY <2>2, DropIsHonest
    <3>2. AllHonest(Put(Data.completed, q, claimed))
      BY <2>2, <2>3, PutIsHonest
    <3>. QED
      BY <2>6, <3>1, <3>2, DataIsProper, ProperByParts
  <2>10. Proper(moved)
    BY <2>8, <2>9
  <2>. HIDE DEF moved
  <2>11. Proper(counted)
    <3>1. DOMAIN counted = QuestFields /\ counted.active = moved.active
          /\ counted.completed = moved.completed
      BY <2>10 DEF Proper, QuestFields
    <3>. QED
      BY <2>10, <3>1 DEF Proper, Kept, Limited
  <2>. HIDE DEF counted
  <2>. QED
    BY <2>1, <2>7, <2>11, UntrackedIsProper, DoesKeeps DEF NoneOrProper
<1>. QED
  BY <1>1, <1>2

(* Progress of a quest that is in progress, up to what is required.        *)
LEMMA UpdateKeeps ==
    ASSUME QuestsIInv, NEW t \in Callers, calls[t] # <<>>,
           NEW q \in QuestIds, NEW o \in DOMAIN Objectives(q), NEW delta \in Nat,
           UpdateObjective(t, q, o, delta)
    PROVE  QuestsIInv'
<1>. DEFINE count == Data.active[q].count[o] + delta
            required == Objectives(q)[o].required
            reached == IF count < required THEN count ELSE required
            may == /\ q \in DOMAIN Data.active /\ Data.active[q].state = "IN_PROGRESS"
                   /\ reached # Data.active[q].count[o]
<1>1. CASE ~may
  BY <1>1, StaysKeeps DEF UpdateObjective
<1>2. CASE may
  <2>. DEFINE p == Data.active[q]
              better == [p EXCEPT !.count[o] = reached,
                                  !.done = IF reached >= required THEN @ \cup {o} ELSE @]
              new == [Data EXCEPT !.active[q].count[o] = reached,
                        !.active[q].done = IF reached >= required THEN @ \cup {o} ELSE @]
  <2>1. Does(t, new, <<Step("complete", q)>>)
    BY <1>2, ActiveMeansKnown DEF UpdateObjective
  <2>2. Honest(q, p) /\ AllHonest(Data.active) /\ AllHonest(Data.completed)
    BY <1>2, DataIsProper DEF Proper, Kept, AllHonest
  <2>3. DOMAIN new = QuestFields /\ new.active = [Data.active EXCEPT ![q] = better]
        /\ new.completed = Data.completed
    BY DataIsProper DEF Proper, QuestFields
  <2>4. Honest(q, better)
    <3>1. /\ DOMAIN better = ProgressFields /\ better.state = p.state
          /\ better.count = [p.count EXCEPT ![o] = reached]
          /\ better.done = IF reached >= required THEN p.done \cup {o} ELSE p.done
      BY <2>2 DEF Honest, ProgressFields
    <3>2. required \in Nat /\ p.count[o] \in 0..required /\ p.state = "IN_PROGRESS"
      BY <1>2, <2>2, QuestsAssumption DEF Honest
    <3>3. reached \in 0..required /\ (reached >= required => reached = required)
          /\ (o \in p.done => reached = required)
      BY <2>2, <3>2 DEF Honest
    <3>. HIDE DEF better, reached
    <3>. QED
      BY <2>2, <3>1, <3>2, <3>3 DEF Honest
  <2>5. Orders(<<Step("complete", q)>>)
    BY PlainSteps, OneOrder
  <2>. HIDE DEF new, better
  <2>6. AllHonest(new.active) /\ DOMAIN new.active = DOMAIN Data.active
    BY <1>2, <2>2, <2>3, <2>4, ChangeIsHonest
  <2>7. Proper(new)
    BY <2>2, <2>3, <2>6, DataIsProper, ProperByParts
  <2>. QED
    BY <2>1, <2>5, <2>7, DoesKeeps DEF NoneOrProper
<1>. QED
  BY <1>1, <1>2

LEMMA ForceKeeps ==
    ASSUME QuestsIInv, NEW t \in Callers, calls[t] # <<>>, NEW q, ForceComplete(t, q)
    PROVE  QuestsIInv'
<1>1. CASE q \notin DOMAIN Data.active
  BY <1>1, DataIsProper, DoesKeeps, NoOrders DEF ForceComplete, NoneOrProper
<1>2. CASE q \in DOMAIN Data.active
  <2>. DEFINE p == Data.active[q]
              full == [o \in DOMAIN p.count |-> Objectives(q)[o].required]
              forced == [p EXCEPT !.count = full, !.done = DOMAIN Objectives(q),
                                  !.state = "COMPLETED"]
              new == [Data EXCEPT
                        !.active[q].count = [o \in DOMAIN @ |-> Objectives(q)[o].required],
                        !.active[q].done = DOMAIN Objectives(q),
                        !.active[q].state = "COMPLETED"]
  <2>1. Does(t, new, <<Step("claim", q)>>)
    BY <1>2, ActiveMeansKnown DEF ForceComplete
  <2>2. q \in QuestIds /\ Honest(q, p) /\ AllHonest(Data.active) /\ AllHonest(Data.completed)
    BY <1>2, DataIsProper DEF Proper, Kept, AllHonest
  <2>3. DOMAIN new = QuestFields /\ new.active = [Data.active EXCEPT ![q] = forced]
        /\ new.completed = Data.completed
    <3>. DEFINE p1 == [p EXCEPT !.count = full]
                p2 == [p1 EXCEPT !.done = DOMAIN Objectives(q)]
                d1 == [Data EXCEPT !.active[q].count = [o \in DOMAIN @ |-> Objectives(q)[o].required]]
                d2 == [d1 EXCEPT !.active[q].done = DOMAIN Objectives(q)]
                d3 == [d2 EXCEPT !.active[q].state = "COMPLETED"]
    <3>1. DOMAIN d1 = QuestFields /\ d1.active = [Data.active EXCEPT ![q] = p1]
          /\ d1.completed = Data.completed
      BY DataIsProper DEF Proper, QuestFields
    <3>. HIDE DEF d1, p1
    <3>2. DOMAIN d2 = QuestFields /\ d2.active = [Data.active EXCEPT ![q] = p2]
          /\ d2.completed = Data.completed
      BY <1>2, <3>1 DEF QuestFields
    <3>. HIDE DEF d2, p2
    <3>3. DOMAIN d3 = QuestFields
          /\ d3.active = [Data.active EXCEPT ![q] = [p2 EXCEPT !.state = "COMPLETED"]]
          /\ d3.completed = Data.completed
      BY <1>2, <3>2 DEF QuestFields
    <3>4. d3 = new
      BY Zenon DEF d1, d2
    <3>5. forced = [p2 EXCEPT !.state = "COMPLETED"]
      BY Zenon DEF p1, p2
    <3>. QED
      BY <3>3, <3>4, <3>5
  <2>4. Honest(q, forced)
    <3>1. /\ DOMAIN forced = ProgressFields /\ forced.count = full
          /\ forced.done = DOMAIN Objectives(q) /\ forced.state = "COMPLETED"
      BY <2>2 DEF Honest, ProgressFields
    <3>2. DOMAIN full = DOMAIN Objectives(q)
          /\ \A o \in DOMAIN Objectives(q) : full[o] = Objectives(q)[o].required
      BY <2>2 DEF Honest
    <3>3. \A o \in DOMAIN Objectives(q) :
            Objectives(q)[o].required \in 0..Objectives(q)[o].required
            /\ Objectives(q)[o].required >= Objectives(q)[o].required
      BY <2>2, QuestsAssumption
    <3>. HIDE DEF forced, full
    <3>. QED
      BY <3>1, <3>2, <3>3 DEF Honest, AllComplete
  <2>5. Orders(<<Step("claim", q)>>)
    BY PlainSteps, OneOrder
  <2>. HIDE DEF new, forced
  <2>6. AllHonest(new.active) /\ DOMAIN new.active = DOMAIN Data.active
    BY <1>2, <2>2, <2>3, <2>4, ChangeIsHonest
  <2>7. Proper(new)
    BY <2>2, <2>3, <2>6, DataIsProper, ProperByParts
  <2>. QED
    BY <2>1, <2>5, <2>7, DoesKeeps DEF NoneOrProper
<1>. QED
  BY <1>1, <1>2

(* Timers that run out change nothing of what was counted.                 *)
LEMMA ElapsedIsHonest ==
    ASSUME NEW kept, AllHonest(kept), NEW over
    PROVE  AllHonest(Elapsed(kept, over)) /\ DOMAIN Elapsed(kept, over) = DOMAIN kept
<1>. DEFINE rest(q) == [kept[q] EXCEPT !.running = @ \ over]
<1>1. ASSUME NEW q \in DOMAIN kept PROVE Honest(q, rest(q))
  <2>1. Honest(q, kept[q])
    BY DEF AllHonest
  <2>2. DOMAIN rest(q) = ProgressFields /\ rest(q).count = kept[q].count
        /\ rest(q).done = kept[q].done /\ rest(q).state = kept[q].state
    BY <2>1 DEF Honest, ProgressFields
  <2>. HIDE DEF rest
  <2>. QED
    BY <2>1, <2>2 DEF Honest, AllComplete
<1>. HIDE DEF rest
<1>2. \A q \in DOMAIN kept : Elapsed(kept, over)[q] \in {kept[q], rest(q)}
  BY DEF Elapsed, rest
<1>3. DOMAIN Elapsed(kept, over) = DOMAIN kept
  BY DEF Elapsed
<1>. QED
  BY <1>1, <1>2, <1>3 DEF AllHonest

LEMMA SequencesOfSets ==
    ASSUME NEW S, IsFiniteSet(S), NEW list \in SetToSeqs(S)
    PROVE  \E n \in Nat : DOMAIN list = 1..n /\ \A k \in 1..n : list[k] \in S
<1>1. Cardinality(S) \in Nat
  BY FS_CardinalityType
<1>2. list \in [1..Cardinality(S) -> S]
  BY DEF SetToSeqs
<1>. QED
  BY <1>1, <1>2

LEMMA TimerKeeps ==
    ASSUME QuestsIInv, NEW t \in Callers, calls[t] # <<>>, NEW over, OnTimerElapsed(t, over)
    PROVE  QuestsIInv'
<1>1. CASE journal = NoJournal
  BY <1>1, StaysKeeps DEF OnTimerElapsed
<1>2. CASE journal # NoJournal
  <2>. DEFINE late == {q \in DOMAIN Data.active :
                         /\ Data.active[q].state = "IN_PROGRESS"
                         /\ (over \cap Data.active[q].running) \ Data.active[q].done # {}}
              new == [journal EXCEPT !.active = Elapsed(@, over)]
  <2>1. PICK fail \in SetToSeqs(late) :
          Does(t, new, [k \in DOMAIN fail |-> Step("fail", fail[k])])
    BY <1>2 DEF OnTimerElapsed
  <2>2. Proper(journal)
    BY <1>2 DEF QuestsIInv, NoneOrProper
  <2>3. IsFiniteSet(late)
    <3>1. late \subseteq QuestIds
      BY DataIsProper DEF Proper, Kept, AllHonest
    <3>. QED
      BY <3>1, QuestsAssumption, FS_Subset
  <2>. DEFINE more == [k \in DOMAIN fail |-> Step("fail", fail[k])]
  <2>. HIDE DEF late
  <2>4. PICK n \in Nat : DOMAIN fail = 1..n /\ \A k \in 1..n : fail[k] \in late
    BY <2>1, <2>3, SequencesOfSets
  <2>5. DOMAIN more = 1..n /\ more = [k \in 1..n |-> more[k]]
        /\ \A k \in 1..n : GoodSection(more[k])
    BY <2>4, PlainSteps
  <2>. HIDE DEF more
  <2>6. Orders(more)
    BY <2>5, ManyOrders
  <2>7. DOMAIN new = QuestFields /\ new.active = Elapsed(journal.active, over)
        /\ new.completed = journal.completed
    BY <2>2 DEF Proper, QuestFields
  <2>. HIDE DEF new
  <2>8. AllHonest(journal.active) /\ AllHonest(journal.completed)
    BY <2>2 DEF Proper, Kept
  <2>9. AllHonest(new.active) /\ DOMAIN new.active = DOMAIN journal.active
    BY <2>7, <2>8, ElapsedIsHonest
  <2>10. Proper(new)
    BY <2>2, <2>7, <2>8, <2>9, ProperByParts
  <2>11. Does(t, new, more)
    BY <2>1 DEF more
  <2>. QED
    BY <2>6, <2>10, <2>11, DoesKeeps DEF NoneOrProper
<1>. QED
  BY <1>1, <1>2

(* An event is written down for every objective it matches, and for what   *)
(* the NPC of it offers.                                                   *)
LEMMA HappensKeeps ==
    ASSUME QuestsIInv, NEW t \in Callers, calls[t] # <<>>, NEW event, NEW n \in Nat,
           Happens(t, event, n)
    PROVE  QuestsIInv'
<1>. DEFINE all == UNION {DOMAIN Objectives(r) : r \in QuestIds}
            update(list) == [k \in DOMAIN list |-> Section("update", list[k][1], list[k][2], n)]
<1>1. PICK list \in SetToSeqs(Matching(event)) :
        IF journal = NoJournal THEN Stays(t)
        ELSE Does(t, journal, Append(update(list), Step("discover", event)))
  BY DEF Happens
<1>2. CASE journal = NoJournal
  BY <1>1, <1>2, StaysKeeps
<1>3. CASE journal # NoJournal
  <2>. DEFINE matched == Matching(event)
              more == update(list)
  <2>1. IsFiniteSet(matched)
    <3>1. IsFiniteSet(all)
      BY QuestsAssumption
    <3>2. IsFiniteSet(QuestIds \X all)
      BY <3>1, QuestsAssumption, FS_Product
    <3>3. matched \subseteq QuestIds \X all
      BY DEF Matching
    <3>. QED
      BY <3>2, <3>3, FS_Subset
  <2>2. \A u \in matched : u[1] \in QuestIds /\ u[2] \in DOMAIN Objectives(u[1])
    BY DEF Matching
  <2>3. list \in SetToSeqs(matched)
    BY <1>1
  <2>. HIDE DEF matched
  <2>4. PICK m \in Nat : DOMAIN list = 1..m /\ \A k \in 1..m : list[k] \in matched
    BY <2>1, <2>3, SequencesOfSets
  <2>5. \A k \in 1..m : GoodSection(Section("update", list[k][1], list[k][2], n))
    BY <2>2, <2>4 DEF GoodSection, Section
  <2>6. DOMAIN more = 1..m /\ more = [k \in 1..m |-> more[k]]
        /\ \A k \in 1..m : GoodSection(more[k])
    BY <2>4, <2>5
  <2>7. Does(t, journal, Append(more, Step("discover", event)))
    BY <1>1, <1>3
  <2>. HIDE DEF more
  <2>8. Orders(more)
    BY <2>6, ManyOrders
  <2>9. Orders(Append(more, Step("discover", event)))
    BY <2>8, PlainSteps, OneMoreOrder
  <2>. QED
    BY <2>7, <2>9, DoesKeeps DEF QuestsIInv
<1>. QED
  BY <1>2, <1>3

LEMMA DiscoverKeeps ==
    ASSUME QuestsIInv, NEW t \in Callers, calls[t] # <<>>, NEW n, DiscoverFromNPC(t, n)
    PROVE  QuestsIInv'
<1>. DEFINE offered == {q \in GetQuestsFromNPC(n) : Definition[q].discoverable}
<1>1. PICK list \in SetToSeqs(offered) :
        Does(t, journal, [k \in DOMAIN list |-> Check(list[k])])
  BY DEF DiscoverFromNPC
<1>. DEFINE more == [k \in DOMAIN list |-> Check(list[k])]
<1>2. IsFiniteSet(offered)
  BY QuestsAssumption, FS_Subset DEF GetQuestsFromNPC
<1>. HIDE DEF offered
<1>3. PICK m \in Nat : DOMAIN list = 1..m /\ \A k \in 1..m : list[k] \in offered
  BY <1>1, <1>2, SequencesOfSets
<1>4. DOMAIN more = 1..m /\ more = [k \in 1..m |-> more[k]]
      /\ \A k \in 1..m : GoodSection(more[k])
  BY <1>3, CheckIsPlain
<1>5. Does(t, journal, more)
  BY <1>1
<1>. HIDE DEF more
<1>. QED
  BY <1>4, <1>5, ManyOrders, DoesKeeps DEF QuestsIInv

(* Fields of the data that no objective is kept in.                        *)
LEMMA OtherFields ==
    ASSUME NEW d, Proper(d), NEW e, DOMAIN e = QuestFields,
           e.active = d.active, e.completed = d.completed
    PROVE  NoneOrProper(e)
BY DEF NoneOrProper, Proper, Kept, Limited

LEMMA ChainsKeep ==
    ASSUME QuestsIInv, NEW t \in Callers, calls[t] # <<>>, NEW c,
           StartQuestChain(t, c) \/ AdvanceQuestChain(t, c)
    PROVE  QuestsIInv'
<1>1. ASSUME NEW v PROVE NoneOrProper([Data EXCEPT !.chains = v])
  <2>. DEFINE e == [Data EXCEPT !.chains = v]
  <2>1. DOMAIN e = QuestFields /\ e.active = Data.active /\ e.completed = Data.completed
    BY DataIsProper DEF Proper, QuestFields
  <2>. HIDE DEF e
  <2>2. NoneOrProper(e)
    BY <2>1, DataIsProper, OtherFields
  <2>. QED
    BY <2>2 DEF e
<1>2. CASE StartQuestChain(t, c)
  <2>1. CASE c \in DOMAIN Data.chains
    BY <1>2, <2>1, DataIsProper, DoesKeeps, NoOrders DEF StartQuestChain, NoneOrProper
  <2>2. CASE c \notin DOMAIN Data.chains
    <3>. DEFINE e == [Data EXCEPT !.chains =
                        Put(Data.chains, c, [index |-> 1, is_completed |-> FALSE])]
    <3>1. LockedAgain(t, e)
      BY <1>2, <2>2 DEF StartQuestChain
    <3>2. NoneOrProper(e)
      BY <1>1
    <3>. HIDE DEF e
    <3>. QED
      BY <3>1, <3>2, LockedAgainKeeps
  <2>. QED
    BY <2>1, <2>2
<1>3. CASE AdvanceQuestChain(t, c)
  <2>1. CASE c \notin DOMAIN Data.chains \/ Data.chains[c].is_completed
    BY <1>3, <2>1, StaysKeeps DEF AdvanceQuestChain
  <2>2. CASE c \in DOMAIN Data.chains /\ ~Data.chains[c].is_completed
    <3>. DEFINE k == journal.chains[c].index + 1
                over == [journal EXCEPT !.chains[c] = [index |-> k, is_completed |-> TRUE]]
                next == [journal EXCEPT !.chains[c].index = k]
    <3>1. journal = Data
      <4>1. DOMAIN EntityQuestData.chains = {}
        BY DEF EntityQuestData
      <4>. QED
        BY <2>2, <4>1 DEF Data
    <3>2. Proper(journal)
      BY <3>1, DataIsProper
    <3>3. DOMAIN over = QuestFields /\ over.active = journal.active
          /\ over.completed = journal.completed
      BY <3>2 DEF Proper, QuestFields
    <3>4. DOMAIN next = QuestFields /\ next.active = journal.active
          /\ next.completed = journal.completed
      BY <3>2 DEF Proper, QuestFields
    <3>5. Does(t, over, <<>>) \/ Does(t, next, <<Check(Chains[c][k])>>)
      BY <1>3, <2>2 DEF AdvanceQuestChain
    <3>. HIDE DEF over, next, k
    <3>6. NoneOrProper(over) /\ NoneOrProper(next)
      BY <3>2, <3>3, <3>4, OtherFields
    <3>7. Orders(<<Check(Chains[c][k])>>)
      BY CheckIsPlain, OneOrder
    <3>. QED
      BY <3>5, <3>6, <3>7, NoOrders, DoesKeeps
  <2>. QED
    BY <2>1, <2>2
<1>. QED
  BY <1>2, <1>3

LEMMA DebugKeeps ==
    ASSUME QuestsIInv, NEW t \in Callers, calls[t] # <<>>, NEW q, DebugComplete(t, q)
    PROVE  QuestsIInv'
<1>. DEFINE force == <<Step("force", q)>>
            first == <<Check(q)>> \o force
<1>1. Does(t, journal, force) \/ Does(t, journal, first)
  BY DEF DebugComplete
<1>2. Orders(force)
  BY PlainSteps, OneOrder
<1>3. Orders(first)
  <2>1. first = Append(<<Check(q)>>, Step("force", q))
    OBVIOUS
  <2>2. Orders(<<Check(q)>>) /\ GoodSection(Step("force", q))
    BY CheckIsPlain, PlainSteps, OneOrder
  <2>. HIDE DEF first, force
  <2>. QED
    BY <2>1, <2>2, OneMoreOrder
<1>. HIDE DEF force, first
<1>. QED
  BY <1>1, <1>2, <1>3, DoesKeeps DEF QuestsIInv

LEMMA LoadsKeep ==
    ASSUME QuestsIInv, NEW t \in Callers, calls[t] # <<>>,
           \/ \E type : ResetQuests(t, type)
           \/ LoadEntityQuests(t) \/ SerializeEntityQuests(t) \/ DeserializeEntityQuests(t)
           \/ DebugResetEntityQuests(t) \/ TrackQuest(t)
    PROVE  QuestsIInv'
<1>1. ASSUME NEW type, ResetQuests(t, type) PROVE QuestsIInv'
  <2>. DEFINE e == [Data EXCEPT !.cooling = {q \in @ : Definition[q].type # type}]
  <2>1. Does(t, e, <<>>)
    BY <1>1 DEF ResetQuests
  <2>2. DOMAIN e = QuestFields /\ e.active = Data.active /\ e.completed = Data.completed
    BY DataIsProper DEF Proper, QuestFields
  <2>. HIDE DEF e
  <2>. QED
    BY <2>1, <2>2, DataIsProper, OtherFields, DoesKeeps, NoOrders
<1>2. CASE LoadEntityQuests(t)
  BY <1>2, DataIsProper, DoesKeeps, NoOrders DEF LoadEntityQuests, NoneOrProper
<1>3. CASE SerializeEntityQuests(t)
  <2>1. journal' = journal /\ paper' = journal /\ calls' = [calls EXCEPT ![t] = Tail(@)]
    BY <1>3 DEF SerializeEntityQuests
  <2>2. Orders(Tail(calls[t]))
    BY OrdersJoin DEF QuestsIInv
  <2>3. DOMAIN calls' = Callers /\ \A u \in Callers : Orders(calls'[u])
    BY <2>1, <2>2 DEF QuestsIInv
  <2>4. NoneOrProper(journal)' /\ NoneOrProper(paper)'
    BY <2>1 DEF QuestsIInv, NoneOrProper, Proper, Kept, Limited
  <2>. QED
    BY <2>3, <2>4 DEF QuestsIInv
<1>4. CASE DeserializeEntityQuests(t)
  BY <1>4, StaysKeeps, DoesKeeps, NoOrders DEF DeserializeEntityQuests, QuestsIInv
<1>5. CASE DebugResetEntityQuests(t)
  BY <1>5, DoesKeeps, NoOrders DEF DebugResetEntityQuests, NoneOrProper
<1>6. CASE TrackQuest(t)
  BY <1>6, LockedAgainKeeps DEF TrackQuest, QuestsIInv
<1>. QED
  BY <1>1, <1>2, <1>3, <1>4, <1>5, <1>6

LEMMA RunKeeps ==
    ASSUME QuestsIInv, NEW t \in Callers, calls[t] # <<>>, NEW s, GoodSection(s), Run(t, s)
    PROVE  QuestsIInv'
<1>1. \/ CheckStart(t, s.quest) \/ AbandonQuest(t, s.quest) \/ CompleteQuest(t, s.quest)
      \/ FailQuest(t, s.quest) \/ ClaimQuestReward(t, s.quest) \/ ForceComplete(t, s.quest)
      \/ DebugComplete(t, s.quest) \/ DiscoverFromNPC(t, s.quest)
      \/ StartQuestChain(t, s.quest) \/ AdvanceQuestChain(t, s.quest)
      \/ s.op = "insert" /\ StartQuest(t, s.quest)
      \/ s.op = "update" /\ UpdateObjective(t, s.quest, s.objective, s.n)
      \/ s.op = "happens" /\ Happens(t, s.quest, s.n)
      \/ \E over : OnTimerElapsed(t, over)
      \/ \E type : ResetQuests(t, type)
      \/ LoadEntityQuests(t) \/ SerializeEntityQuests(t) \/ DeserializeEntityQuests(t)
      \/ DebugResetEntityQuests(t) \/ TrackQuest(t)
  BY DEF Run
<1>2. CASE s.op = "insert" /\ StartQuest(t, s.quest)
  BY <1>2, StartKeeps DEF GoodSection
<1>3. CASE s.op = "update" /\ UpdateObjective(t, s.quest, s.objective, s.n)
  BY <1>3, UpdateKeeps DEF GoodSection
<1>4. CASE s.op = "happens" /\ Happens(t, s.quest, s.n)
  BY <1>4, HappensKeeps DEF GoodSection
<1>. QED
  BY <1>1, <1>2, <1>3, <1>4, CheckKeeps, AbandonKeeps, CompleteKeeps, FailKeeps, ClaimKeeps,
     ForceKeeps, DebugKeeps, DiscoverKeeps, ChainsKeep, TimerKeeps, LoadsKeep

LEMMA OperationsAreGood == \A s \in Operations : GoodSection(s)
BY DEF Operations, GoodSection, Step, Section

LEMMA QuestsStep == QuestsIInv /\ [QuestsNext]_questsVars => QuestsIInv'
<1>. SUFFICES ASSUME QuestsIInv, [QuestsNext]_questsVars PROVE QuestsIInv'
  OBVIOUS
<1>1. CASE UNCHANGED questsVars
  BY <1>1 DEF questsVars, QuestsIInv, NoneOrProper, Proper, Kept, Limited
<1>2. CASE RunSection
  <2>1. PICK t \in Callers : calls[t] # <<>> /\ Run(t, Head(calls[t]))
    BY <1>2 DEF RunSection
  <2>2. GoodSection(Head(calls[t]))
    BY <2>1, OrdersJoin, NoOrders DEF QuestsIInv
  <2>. QED
    BY <2>1, <2>2, RunKeeps
<1>3. CASE Call
  <2>1. PICK t \in Callers, s \in Operations : calls' = [calls EXCEPT ![t] = <<s>>]
    BY <1>3 DEF Call
  <2>2. Orders(<<s>>)
    BY OperationsAreGood, OneOrder
  <2>3. DOMAIN calls' = Callers /\ \A u \in Callers : Orders(calls'[u])
    BY <2>1, <2>2 DEF QuestsIInv
  <2>4. NoneOrProper(journal)' /\ NoneOrProper(paper)'
    BY <1>3 DEF Call, QuestsIInv, NoneOrProper, Proper, Kept, Limited
  <2>. QED
    BY <2>3, <2>4 DEF QuestsIInv
<1>4. CASE DayPasses
  <2>1. PICK q \in journal.cooling : journal' = [journal EXCEPT !.cooling = @ \ {q}]
    BY <1>4 DEF DayPasses
  <2>2. Proper(journal)
    BY <1>4 DEF DayPasses, QuestsIInv, NoneOrProper
  <2>3. DOMAIN journal' = QuestFields /\ journal'.active = journal.active
        /\ journal'.completed = journal.completed
    BY <2>1, <2>2 DEF Proper, QuestFields
  <2>4. NoneOrProper(journal')
    BY <2>2, <2>3, OtherFields
  <2>5. paper' = paper /\ calls' = calls
    BY <1>4 DEF DayPasses
  <2>. QED
    BY <2>4, <2>5 DEF QuestsIInv, NoneOrProper, Proper, Kept, Limited
<1>. QED
  BY <1>1, <1>2, <1>3, <1>4 DEF QuestsNext

(* QuestManager, however the sections of its operations interleave: an     *)
(* entity has at most MAX_ACTIVE_QUESTS quests, and one that counts as     *)
(* completed has every objective that is not optional where it must be.    *)
THEOREM QuestsAreHonest == Spec => []QuestsInv
<1>1. Init => QuestsIInv
  BY NoOrders DEF Init, QuestsInit, QuestsIInv, NoneOrProper
<1>2. QuestsIInv /\ [Next]_vars => QuestsIInv'
  <2>1. [Next]_vars => [QuestsNext]_questsVars
    BY DEF Next, RulesStep, vars, rules
  <2>. QED
    BY <2>1, QuestsStep
<1>. QED
  BY <1>1, <1>2, QuestsFollow, PTL DEF Spec

-----------------------------------------------------------------------------
(* Division of places into cells and chunks.                               *)
LEMMA DivisionBounds ==
    ASSUME NEW a \in Int, NEW c \in Nat \ {0}
    PROVE  a \div c \in Int /\ c * (a \div c) <= a /\ a < c * (a \div c) + c
<1>1. a \div c \in Int
  OBVIOUS
<1>2. c * (a \div c) <= a /\ a < c * (a \div c) + c
  OBVIOUS
<1>. QED
  BY <1>1, <1>2

LEMMA ProductGrows ==
    ASSUME NEW p \in Int, NEW q \in Int, NEW c \in Nat \ {0}, p + 1 <= q
    PROVE  c * p + c <= c * q
<1>1. c * (q - p) >= c
  BY SMT
<1>2. c * (q - p) = c * q - c * p
  BY SMT
<1>. QED
  BY <1>1, <1>2, SMT

LEMMA DivisionGrows ==
    ASSUME NEW a \in Int, NEW b \in Int, NEW c \in Nat \ {0}, a <= b
    PROVE  a \div c <= b \div c
<1>. DEFINE p == a \div c
            q == b \div c
<1>1. p \in Int /\ q \in Int /\ c * p <= a /\ b < c * q + c /\ c * p \in Int /\ c * q \in Int
  BY DivisionBounds
<1>. HIDE DEF p, q
<1>2. SUFFICES ASSUME q + 1 <= p PROVE FALSE
  BY <1>1 DEF p, q
<1>3. c * q + c <= c * p
  BY <1>1, <1>2, ProductGrows
<1>. QED
  BY <1>1, <1>3

(* Places no further apart than r have cells no further apart than r       *)
(* rounded up to whole cells.                                              *)
LEMMA CellsAreNear ==
    ASSUME NEW a \in Int, NEW b \in Int, NEW r \in Nat, NEW c \in Nat \ {0}, a <= b + r
    PROVE  a \div c <= (b \div c) + ((r + c - 1) \div c)
<1>. DEFINE p == a \div c
            q == b \div c
            n == (r + c - 1) \div c
<1>1. r + c - 1 \in Int
  OBVIOUS
<1>2. p \in Int /\ q \in Int /\ n \in Int
  BY <1>1, DivisionBounds
<1>3. c * p <= a /\ b < c * q + c /\ r + c - 1 < c * n + c
  BY <1>1, DivisionBounds
<1>. HIDE DEF p, q, n
<1>4. c * p \in Int /\ c * q \in Int /\ c * n \in Int /\ c * (q + n) = c * q + c * n
  BY <1>2
<1>5. ASSUME q + n + 1 <= p PROVE FALSE
  <2>1. c * (q + n) + c <= c * p
    BY <1>2, <1>5, ProductGrows
  <2>. QED
    BY <1>3, <1>4, <2>1
<1>6. p <= q + n
  BY <1>2, <1>5
<1>. QED
  BY <1>6 DEF p, q, n

-----------------------------------------------------------------------------
(* Entities and the receivers of broadcasts.  Entities have places; nobody *)
(* has two owners; and a session is where its place is.                    *)
Placed == \A e \in DOMAIN entities :
              DOMAIN entities[e] = {"type", "x", "moves"} /\ entities[e].x \in Spots

InItsCell ==
    \A s \in DOMAIN position :
        /\ position[s] \in Spots /\ s \in DOMAIN cellOf
        /\ cellOf[s] = Ent!PositionToCell(position[s])
        /\ cellOf[s] \in DOMAIN cells /\ s \in cells[cellOf[s]]

EntitiesIInv == Placed /\ Ent!OneOwner /\ InItsCell

LEMMA ChunksFind == Placed => Ent!ChunkFinds
<1>. SUFFICES ASSUME Placed, NEW e \in DOMAIN entities
              PROVE  e \in Ent!GetEntitiesInChunk((entities[e].x + (chunk_size \div 2)) \div chunk_size)
  BY DEF Ent!ChunkFinds
<1>. DEFINE x == entities[e].x
            half == chunk_size \div 2
            k == (x + half) \div chunk_size
<1>1. x \in Int /\ chunk_size \in Nat \ {0}
  BY EntitiesAssumption DEF Placed, Ent!EntitiesConstants
<1>2. half \in Int
  BY <1>1
<1>. HIDE DEF half, x
<1>3. k \in Int /\ chunk_size * k <= x + half /\ x + half < chunk_size * k + chunk_size
  <2>1. x + half \in Int
    BY <1>1, <1>2
  <2>. QED
    BY <1>1, <2>1, DivisionBounds
<1>. HIDE DEF k
<1>4. k * chunk_size = chunk_size * k /\ (k + 1) * chunk_size = chunk_size * k + chunk_size
      /\ chunk_size * k \in Int
  BY <1>1, <1>3
<1>5. k * chunk_size - half <= x /\ x <= (k + 1) * chunk_size - half
  BY <1>1, <1>2, <1>3, <1>4
<1>. QED
  BY <1>5 DEF x, half, k, Ent!GetEntitiesInChunk, Ent!FindEntitiesInBox

LEMMA BroadcastsArrive == InItsCell => Ent!ReceiversFound
<1>. SUFFICES ASSUME InItsCell, NEW x \in Spots, NEW r \in Ranges, NEW s \in DOMAIN position,
                     Ent!Gap(x, position[s]) <= r
              PROVE  s \in Ent!GetSessionsInRadius(x, r)
  BY DEF Ent!ReceiversFound
<1>. DEFINE p == position[s]
            near == (Ent!PositionToCell(x) - Ent!CellRadius(r))
                      ..(Ent!PositionToCell(x) + Ent!CellRadius(r))
<1>1. x \in Int /\ r \in Nat /\ p \in Int /\ cell_size_ \in Nat \ {0}
  BY EntitiesAssumption DEF InItsCell, Ent!EntitiesConstants
<1>. HIDE DEF p
<1>2. p <= x + r /\ x <= p + r
  BY <1>1 DEF Ent!Gap, p
<1>3. p \div cell_size_ <= (x \div cell_size_) + ((r + cell_size_ - 1) \div cell_size_)
      /\ x \div cell_size_ <= (p \div cell_size_) + ((r + cell_size_ - 1) \div cell_size_)
  BY <1>1, <1>2, CellsAreNear
<1>4. x \div cell_size_ \in Int /\ p \div cell_size_ \in Int
      /\ (r + cell_size_ - 1) \div cell_size_ \in Int
  BY <1>1
<1>5. Ent!PositionToCell(p) \in near
  BY <1>3, <1>4 DEF Ent!PositionToCell, Ent!CellRadius
<1>6. s \in Ent!In(Ent!PositionToCell(p))
  BY DEF InItsCell, Ent!In, p
<1>. HIDE DEF near
<1>7. s \in Ent!Searched(x, r)
  BY <1>5, <1>6 DEF Ent!Searched, near
<1>. QED
  BY <1>7 DEF Ent!GetSessionsInRadius

(* Owners.  Whoever is given up, destroyed or given away leaves what is    *)
(* owned apart and among the entities.                                     *)
Apart(table) == \A o, p \in DOMAIN table : o # p => table[o] \cap table[p] = {}
Among(table, all) == \A o \in DOMAIN table : o \in all /\ table[o] \subseteq all

LEMMA OwnersMean == Ent!OneOwner <=> Apart(ownership_) /\ Among(ownership_, DOMAIN entities)
BY DEF Ent!OneOwner, Apart, Among

(* Fewer owners, who own less.                                             *)
LEMMA LessIsOwned ==
    ASSUME NEW old, NEW all, Apart(old), Among(old, all),
           NEW new, DOMAIN new \subseteq DOMAIN old, \A o \in DOMAIN new : new[o] \subseteq old[o]
    PROVE  Apart(new) /\ Among(new, all)
BY DEF Apart, Among

LEMMA ManagerKeepsOwners ==
    ASSUME Placed, Ent!OneOwner, Ent!ManagerNext
    PROVE  Ent!OneOwner'
<1>1. Apart(ownership_) /\ Among(ownership_, DOMAIN entities)
  BY OwnersMean
<1>2. SUFFICES Apart(ownership_') /\ Among(ownership_', DOMAIN entities')
  BY DEF Ent!OneOwner, Apart, Among
<1>3. ASSUME NEW new, DOMAIN new \subseteq DOMAIN ownership_,
             \A o \in DOMAIN new : new[o] \subseteq ownership_[o]
      PROVE  Apart(new) /\ Among(new, DOMAIN entities)
  BY <1>1, <1>3, LessIsOwned
<1>4. ASSUME NEW e PROVE Apart(Ent!Given(e)) /\ Among(Ent!Given(e), DOMAIN entities)
  <2>1. DOMAIN Ent!Given(e) \subseteq DOMAIN ownership_
        /\ \A o \in DOMAIN Ent!Given(e) : Ent!Given(e)[o] = ownership_[o] \ {e}
    BY DEF Ent!Given
  <2>. HIDE DEF Ent!Given
  <2>. QED
    BY <1>3, <2>1
<1>5. ASSUME NEW e, Ent!DestroyEntity(e) \/ Ent!DeactivateEntity(e)
      PROVE  Apart(ownership_') /\ Among(ownership_', DOMAIN entities')
  <2>1. ownership_' = Ent!Disowned(e) /\ entities' = entities
    BY <1>5 DEF Ent!DestroyEntity, Ent!DeactivateEntity
  <2>2. DOMAIN Ent!Disowned(e) \subseteq DOMAIN ownership_
        /\ \A o \in DOMAIN Ent!Disowned(e) : Ent!Disowned(e)[o] = ownership_[o] \ {e}
    BY DEF Ent!Disowned
  <2>3. Apart(Ent!Disowned(e)) /\ Among(Ent!Disowned(e), DOMAIN entities)
    BY <1>3, <2>2
  <2>. QED
    BY <2>1, <2>3
<1>6. CASE Ent!Update
  <2>1. CASE Ent!CleanupDue
    BY <1>4, <2>1 DEF Ent!CleanupDue
  <2>2. CASE Ent!UpdateFirst
    <3>. DEFINE there == [o \in DOMAIN ownership_ |-> ownership_[o] \cap DOMAIN entities]
                tidy == Ent!WithoutEmpty(there)
    <3>1. ownership_' = tidy
      BY <2>2 DEF Ent!UpdateFirst
    <3>2. DOMAIN tidy \subseteq DOMAIN ownership_
          /\ \A o \in DOMAIN tidy : tidy[o] \subseteq ownership_[o]
      BY DEF Ent!WithoutEmpty
    <3>. HIDE DEF tidy
    <3>3. Apart(tidy) /\ Among(tidy, DOMAIN entities)
      BY <1>3, <3>2
    <3>4. DOMAIN entities' = DOMAIN entities
      BY <2>2 DEF Ent!UpdateFirst
    <3>. QED
      BY <3>1, <3>3, <3>4
  <2>. QED
    BY <1>6, <2>1, <2>2 DEF Ent!Update
<1>7. ASSUME NEW e, Ent!SetVelocity(e)
      PROVE  Apart(ownership_') /\ Among(ownership_', DOMAIN entities')
  <2>1. ownership_' = ownership_ /\ DOMAIN entities' = DOMAIN entities
    BY <1>7 DEF Ent!SetVelocity
  <2>. QED
    BY <1>1, <2>1
<1>8. ASSUME NEW t, NEW x, Ent!CreateEntity(t, x) \/ Ent!ActivatePooledEntity(t, x)
      PROVE  Apart(ownership_') /\ Among(ownership_', DOMAIN entities')
  <2>1. ownership_' = ownership_ /\ DOMAIN entities \subseteq DOMAIN entities'
    BY <1>8 DEF Ent!CreateEntity, Ent!ActivatePooledEntity, Ent!Put
  <2>. QED
    BY <1>1, <2>1 DEF Among
<1>9. ASSUME NEW e, NEW o, Ent!SetEntityOwner(e, o)
      PROVE  Apart(ownership_') /\ Among(ownership_', DOMAIN entities')
  <2>. DEFINE left == Ent!Given(e)
  <2>1. Apart(left) /\ Among(left, DOMAIN entities)
    BY <1>4
  <2>2. \A p \in DOMAIN left : e \notin left[p]
    BY DEF Ent!Given
  <2>. DEFINE owned == IF o \in DOMAIN left THEN left[o] ELSE {}
  <2>3. entities' = entities /\ e \in DOMAIN entities /\ o \in DOMAIN entities \cup {0}
        /\ ownership_' = IF o = 0 THEN left ELSE Ent!Put(left, o, owned \cup {e})
    BY <1>9 DEF Ent!SetEntityOwner
  <2>. HIDE DEF left
  <2>4. CASE o = 0
    BY <2>1, <2>3, <2>4
  <2>5. CASE o # 0
    <3>. DEFINE new == Ent!Put(left, o, owned \cup {e})
    <3>1. DOMAIN new = DOMAIN left \cup {o} /\ new[o] = owned \cup {e}
          /\ \A p \in DOMAIN left \ {o} : new[p] = left[p]
      BY DEF Ent!Put
    <3>. HIDE DEF new
    <3>2. Among(new, DOMAIN entities)
      BY <2>1, <2>3, <2>5, <3>1 DEF Among
    <3>3. ASSUME NEW p \in DOMAIN left \ {o} PROVE new[p] \cap new[o] = {}
      BY <2>1, <2>2, <3>1 DEF Apart
    <3>4. Apart(new)
      BY <2>1, <3>1, <3>3 DEF Apart
    <3>. QED
      BY <2>3, <2>5, <3>2, <3>4 DEF new
  <2>. QED
    BY <2>4, <2>5
<1>10. ASSUME NEW t, Ent!PreallocateEntityPool(t) \/ Ent!LocksTwiceAtOnce
       PROVE  Apart(ownership_') /\ Among(ownership_', DOMAIN entities')
  <2>1. ownership_' = ownership_ /\ entities' = entities
    BY <1>10 DEF Ent!PreallocateEntityPool, Ent!LocksTwiceAtOnce
  <2>. QED
    BY <1>1, <2>1
<1>. QED
  BY <1>5, <1>6, <1>7, <1>8, <1>9, <1>10 DEF Ent!ManagerNext

LEMMA ManagerKeepsPlaces ==
    ASSUME Placed, Ent!ManagerNext
    PROVE  Placed'
<1>1. ASSUME NEW e, NEW t, NEW x \in Spots, entities' = Ent!Put(entities, e, Ent!NewEntity(t, x))
      PROVE  Placed'
  BY <1>1 DEF Placed, Ent!Put, Ent!NewEntity
<1>2. ASSUME NEW t, NEW x \in Spots, Ent!CreateEntity(t, x) \/ Ent!ActivatePooledEntity(t, x)
      PROVE  Placed'
  BY <1>1, <1>2 DEF Ent!CreateEntity, Ent!ActivatePooledEntity
<1>3. CASE UNCHANGED entities
  BY <1>3 DEF Placed
<1>4. ASSUME NEW e \in DOMAIN entities, NEW x \in Spots, entities' = [entities EXCEPT ![e].x = x]
      PROVE  Placed'
  BY <1>4 DEF Placed
<1>5. ASSUME NEW e \in DOMAIN entities, Ent!SetVelocity(e) PROVE Placed'
  BY <1>5 DEF Placed, Ent!SetVelocity
<1>6. CASE Ent!Update
  BY <1>3, <1>4, <1>6 DEF Ent!Update, Ent!CleanupDue, Ent!UpdateFirst
<1>7. ASSUME NEW e, NEW o, \/ Ent!DestroyEntity(e) \/ Ent!DeactivateEntity(e)
                           \/ Ent!SetEntityOwner(e, o) \/ Ent!PreallocateEntityPool(e)
                           \/ Ent!LocksTwiceAtOnce
      PROVE  Placed'
  BY <1>3, <1>7 DEF Ent!DestroyEntity, Ent!DeactivateEntity, Ent!SetEntityOwner,
                    Ent!PreallocateEntityPool, Ent!LocksTwiceAtOnce
<1>. QED
  BY <1>2, <1>5, <1>6, <1>7 DEF Ent!ManagerNext

(* Sessions.                                                               *)
LEMMA LeftLeaves ==
    ASSUME InItsCell, NEW s \in DOMAIN position, NEW u \in DOMAIN position, u # s
    PROVE  cellOf[u] \in DOMAIN Ent!Left(s) /\ u \in Ent!Left(s)[cellOf[u]]
BY DEF InItsCell, Ent!Left, Ent!In, Ent!Drop

LEMMA GridKeepsCells ==
    ASSUME InItsCell, Ent!GridNext
    PROVE  InItsCell'
<1>1. ASSUME NEW s, NEW x \in Spots, Ent!AddSession(s, x) PROVE InItsCell'
  <2>. DEFINE c == Ent!PositionToCell(x)
  <2>1. position' = Ent!Put(position, s, x) /\ cellOf' = Ent!Put(cellOf, s, c)
        /\ cells' = Ent!Put(cells, c, Ent!In(c) \cup {s})
    BY <1>1 DEF Ent!AddSession
  <2>2. \A k \in DOMAIN cells : k \in DOMAIN cells' /\ cells[k] \subseteq cells'[k]
    BY <2>1 DEF Ent!Put, Ent!In
  <2>3. c \in DOMAIN cells' /\ s \in cells'[c]
    BY <2>1 DEF Ent!Put
  <2>4. DOMAIN position' = DOMAIN position \cup {s} /\ position'[s] = x
        /\ \A u \in DOMAIN position \ {s} : position'[u] = position[u]
    BY <2>1 DEF Ent!Put
  <2>5. DOMAIN cellOf' = DOMAIN cellOf \cup {s} /\ cellOf'[s] = c
        /\ \A u \in DOMAIN cellOf \ {s} : cellOf'[u] = cellOf[u]
    BY <2>1 DEF Ent!Put
  <2>. HIDE DEF c
  <2>. QED
    BY <2>2, <2>3, <2>4, <2>5 DEF InItsCell, Ent!PositionToCell, c
<1>2. ASSUME NEW s, NEW x \in Spots, Ent!UpdateSession(s, x) PROVE InItsCell'
  <2>. DEFINE c == Ent!PositionToCell(x)
  <2>1. s \in DOMAIN position /\ position' = [position EXCEPT ![s] = x]
    BY <1>2 DEF Ent!UpdateSession
  <2>2. CASE cellOf[s] = c
    BY <1>2, <2>1, <2>2 DEF Ent!UpdateSession, InItsCell, Ent!PositionToCell
  <2>3. CASE cellOf[s] # c
    <3>. DEFINE there == IF c \in DOMAIN Ent!Left(s) THEN Ent!Left(s)[c] ELSE {}
                left == Ent!Left(s)
    <3>1. cells' = Ent!Put(left, c, there \cup {s}) /\ cellOf' = [cellOf EXCEPT ![s] = c]
      BY <1>2, <2>3 DEF Ent!UpdateSession
    <3>2. \A u \in DOMAIN position \ {s} : cellOf[u] \in DOMAIN left /\ u \in left[cellOf[u]]
      BY <2>1, LeftLeaves
    <3>. HIDE DEF left
    <3>3. c \in DOMAIN cells' /\ s \in cells'[c]
          /\ \A k \in DOMAIN left : k \in DOMAIN cells' /\ left[k] \subseteq cells'[k]
      BY <3>1 DEF Ent!Put, left
    <3>4. \A u \in DOMAIN position \ {s} : cellOf[u] \in DOMAIN cells' /\ u \in cells'[cellOf[u]]
      BY <3>2, <3>3
    <3>. HIDE DEF c
    <3>. QED
      BY <2>1, <3>1, <3>3, <3>4 DEF InItsCell, Ent!PositionToCell, c
  <2>. QED
    BY <2>2, <2>3
<1>3. ASSUME NEW s, Ent!RemoveSession(s) PROVE InItsCell'
  <2>1. s \in DOMAIN position /\ cells' = Ent!Left(s) /\ cellOf' = Ent!Drop(cellOf, s)
        /\ position' = Ent!Drop(position, s)
    BY <1>3 DEF Ent!RemoveSession
  <2>2. \A u \in DOMAIN position \ {s} : cellOf[u] \in DOMAIN cells' /\ u \in cells'[cellOf[u]]
    BY <2>1, LeftLeaves
  <2>3. DOMAIN position' = DOMAIN position \ {s} /\ DOMAIN cellOf' = DOMAIN cellOf \ {s}
        /\ \A u \in DOMAIN position \ {s} : position'[u] = position[u] /\ cellOf'[u] = cellOf[u]
    BY <2>1 DEF Ent!Drop, InItsCell
  <2>. QED
    BY <2>2, <2>3 DEF InItsCell, Ent!PositionToCell
<1>4. CASE Ent!UpdateSessions
  BY <1>4 DEF Ent!UpdateSessions, InItsCell, Ent!PositionToCell
<1>. QED
  BY <1>1, <1>2, <1>3, <1>4 DEF Ent!GridNext

LEMMA EntitiesStep == EntitiesIInv /\ [Ent!EntitiesNext]_<<entityVars, gridVars>> => EntitiesIInv'
<1>. SUFFICES ASSUME EntitiesIInv, [Ent!EntitiesNext]_<<entityVars, gridVars>>
              PROVE  EntitiesIInv'
  OBVIOUS
<1>1. CASE Ent!ManagerNext
  <2>1. UNCHANGED gridVars
    BY <1>1 DEF Ent!ManagerNext, Ent!Free, Ent!LocksTwice, Ent!gridVars, gridVars,
                Ent!PreallocateEntityPool, Ent!CreateEntity, Ent!ActivatePooledEntity,
                Ent!DestroyEntity, Ent!DeactivateEntity, Ent!SetVelocity, Ent!SetEntityOwner,
                Ent!Update, Ent!LocksTwiceAtOnce
  <2>2. InItsCell'
    BY <2>1 DEF gridVars, EntitiesIInv, InItsCell, Ent!PositionToCell
  <2>. QED
    BY <1>1, <2>2, ManagerKeepsOwners, ManagerKeepsPlaces DEF EntitiesIInv
<1>2. CASE Ent!GridNext
  <2>1. UNCHANGED entityVars
    BY <1>2 DEF Ent!GridNext, Ent!Unlocked, Ent!AddSession, Ent!UpdateSession, Ent!RemoveSession,
                Ent!UpdateSessions, Ent!managerVars, entityVars
  <2>2. Placed' /\ Ent!OneOwner'
    BY <2>1 DEF entityVars, EntitiesIInv, Placed, Ent!OneOwner
  <2>. QED
    BY <1>2, <2>2, GridKeepsCells DEF EntitiesIInv
<1>3. CASE UNCHANGED <<entityVars, gridVars>>
  BY <1>3 DEF entityVars, gridVars, EntitiesIInv, Placed, Ent!OneOwner, InItsCell,
              Ent!PositionToCell
<1>. QED
  BY <1>1, <1>2, <1>3 DEF Ent!EntitiesNext

(* EntityManager and BroadcastGrid: an entity has one owner, everyone in   *)
(* range of a broadcast is among its receivers, and an entity is found in  *)
(* the chunk its place is in.                                              *)
THEOREM EntitiesAreFound == Spec => []EntitiesInv
<1>1. Init => EntitiesIInv
  BY DEF Init, Ent!EntitiesInit, EntitiesIInv, Placed, Ent!OneOwner, InItsCell
<1>2. EntitiesIInv /\ [Next]_vars => EntitiesIInv'
  <2>1. [Next]_vars => [Ent!EntitiesNext]_<<entityVars, gridVars>>
    BY DEF Next, RulesStep, BodiesStep, vars, bodies, Ent!EntitiesNext
  <2>. QED
    BY <2>1, EntitiesStep
<1>3. EntitiesIInv => EntitiesInv
  BY ChunksFind, BroadcastsArrive DEF EntitiesIInv, EntitiesInv, Ent!EntitiesInv
<1>. QED
  BY <1>1, <1>2, <1>3, PTL DEF Spec

-----------------------------------------------------------------------------
(* The least of a set of naturals.                                         *)
Smaller == OpToRel(<, Nat)

LEMMA LeastNatural ==
    ASSUME NEW T, T \subseteq Nat, T # {}
    PROVE  \E x \in T : \A y \in T : x <= y
<1>1. IsWellFoundedOn(Smaller, Nat)
  BY NatLessThanWellFounded, Zenon DEF Smaller
<1>2. PICK x \in T : \A y \in T : ~(<<y, x>> \in Smaller)
  BY <1>1, WFMin
<1>3. \A u \in Nat, v \in Nat : v < u => <<v, u>> \in Smaller
  BY DEF Smaller, OpToRel
<1>4. ASSUME NEW y \in T PROVE x <= y
  <2>1. x \in Nat /\ y \in Nat
    OBVIOUS
  <2>2. ~(y < x)
    BY <1>2, <1>3, <2>1
  <2>. QED
    BY <2>1, <2>2
<1>. QED
  BY <1>4

LEMMA MinOfNaturals ==
    ASSUME NEW T, T \subseteq Nat, T # {}
    PROVE  Col!Min(T) \in T /\ \A y \in T : Col!Min(T) <= y
BY LeastNatural DEF Col!Min

LEMMA MinMaxOfTwo ==
    ASSUME NEW a \in Int, NEW b \in Int
    PROVE  /\ Col!Min({a, b}) \in Int /\ Col!Min({a, b}) <= b
           /\ Col!Max({a, b}) \in Int /\ Col!Max({a, b}) >= b
<1>1. \E x \in {a, b} : \A y \in {a, b} : x <= y
  <2>1. CASE a <= b
    BY <2>1
  <2>2. CASE b <= a
    BY <2>2
  <2>. QED
    BY <2>1, <2>2
<1>2. \E x \in {a, b} : \A y \in {a, b} : x >= y
  <2>1. CASE a >= b
    BY <2>1
  <2>2. CASE b >= a
    BY <2>2
  <2>. QED
    BY <2>1, <2>2
<1>3. Col!Min({a, b}) \in {a, b} /\ \A y \in {a, b} : Col!Min({a, b}) <= y
  BY <1>1 DEF Col!Min
<1>4. Col!Max({a, b}) \in {a, b} /\ \A y \in {a, b} : Col!Max({a, b}) >= y
  BY <1>2 DEF Col!Max
<1>. QED
  BY <1>3, <1>4

-----------------------------------------------------------------------------
(* CollisionSystem.  Every body is in the cell that its centre is in,      *)
(* whatever else the grid holds.                                           *)
BodyFields == {"center", "previous", "radius", "static"}

Stand(table) ==
    \A id \in DOMAIN table :
        /\ id \in Bodies /\ DOMAIN table[id] = BodyFields
        /\ table[id].center \in Int /\ table[id].previous \in Int /\ table[id].radius \in Nat

Gridded(table, grid, size) ==
    \A id \in DOMAIN table :
        /\ table[id].center \div size \in DOMAIN grid
        /\ id \in grid[table[id].center \div size]

Shaped == \A k \in DOMAIN chunks_ : k \in Int /\ chunks_[k] \subseteq Int

CollisionIInv ==
    /\ gridCellSize_ \in Sizes /\ Stand(entities_)
    /\ Gridded(entities_, spatialGrid_, gridCellSize_) /\ Shaped

LEMMA CellHasSize == CollisionIInv => gridCellSize_ \in Nat \ {0}
BY CollisionAssumption DEF CollisionIInv, Col!CollisionConstants

LEMMA RadiusIsSearched ==
    ASSUME CollisionIInv, NEW x \in Int, NEW r \in Nat, NEW id \in DOMAIN entities_,
           Col!Away(x, entities_[id].center) <= r
    PROVE  \E c \in Col!CellsInRadius(x, r) : id \in Col!Cell(spatialGrid_, c)
<1>. DEFINE y == entities_[id].center
            c == y \div gridCellSize_
<1>1. gridCellSize_ \in Nat \ {0} /\ y \in Int
  BY CellHasSize DEF CollisionIInv, Stand
<1>2. c \in DOMAIN spatialGrid_ /\ id \in spatialGrid_[c]
  BY DEF CollisionIInv, Gridded
<1>. HIDE DEF y
<1>3. x - r <= y /\ y <= x + r
  BY <1>1 DEF Col!Away, y
<1>4. (x - r) \div gridCellSize_ <= c /\ c <= (x + r) \div gridCellSize_
  BY <1>1, <1>3, DivisionGrows
<1>5. c \in Int /\ (x - r) \div gridCellSize_ \in Int /\ (x + r) \div gridCellSize_ \in Int
  BY <1>1
<1>. HIDE DEF c
<1>6. c \in Col!CellsInRadius(x, r)
  BY <1>4, <1>5 DEF Col!CellsInRadius, Col!GetGridKey
<1>. QED
  BY <1>2, <1>6 DEF Col!Cell

LEMMA GridAnswers == CollisionIInv => Col!GridComplete
<1>. SUFFICES ASSUME CollisionIInv, NEW x \in Centers, NEW r \in Radii, Col!ValidatePosition(x)
              PROVE  /\ \A id \in DOMAIN entities_ :
                          Col!Away(x, entities_[id].center) <= r
                            => id \in Col!GetEntitiesInRadius(x, r)
                     /\ \A id \in Col!GetEntitiesInRadius(x, r) :
                          \E res \in Col!CheckCollision(x, r, 0) : res.collided /\ res.with = id
  BY DEF Col!GridComplete
<1>1. x \in Int /\ r \in Nat /\ 0 \notin Bodies
  BY CollisionAssumption DEF Col!CollisionConstants
<1>2. ASSUME NEW id \in DOMAIN entities_, Col!Away(x, entities_[id].center) <= r
      PROVE  id \in Col!GetEntitiesInRadius(x, r)
  <2>1. entities_[id].radius \in Nat /\ entities_[id].center \in Int
    BY DEF CollisionIInv, Stand
  <2>2. Col!Touches(x, r, entities_[id])
    BY <1>1, <1>2, <2>1 DEF Col!Touches, Col!Away
  <2>. QED
    BY <1>1, <1>2, <2>2, RadiusIsSearched DEF Col!GetEntitiesInRadius
<1>3. ASSUME NEW id \in Col!GetEntitiesInRadius(x, r)
      PROVE  \E res \in Col!CheckCollision(x, r, 0) : res.collided /\ res.with = id
  <2>. DEFINE met == {e \in DOMAIN entities_ \ {0} : Col!Touches(x, r, entities_[e])}
  <2>1. id \in met
    BY <1>1 DEF Col!GetEntitiesInRadius, CollisionIInv, Stand
  <2>. DEFINE res == [collided |-> TRUE, with |-> id,
                      resolution |-> Col!TestSphereSphere(x, r, entities_[id])]
  <2>2. Col!CheckCollision(x, r, 0) =
          {[collided |-> TRUE, with |-> e,
            resolution |-> Col!TestSphereSphere(x, r, entities_[e])] : e \in met}
    BY <2>1 DEF Col!CheckCollision
  <2>3. res \in Col!CheckCollision(x, r, 0)
    BY <2>1, <2>2
  <2>4. res.collided /\ res.with = id
    OBVIOUS
  <2>. HIDE DEF res
  <2>. QED
    BY <2>3, <2>4
<1>. QED
  BY <1>2, <1>3

LEMMA PairsAreFound == CollisionIInv => Col!OverlapsFound
<1>. SUFFICES ASSUME CollisionIInv, NEW a \in DOMAIN entities_, NEW b \in DOMAIN entities_,
                     a # b, entities_[a].center = entities_[b].center,
                     ~(entities_[a].static /\ entities_[b].static)
              PROVE  {a, b} \in Col!GetPotentialCollisions
  BY DEF Col!OverlapsFound
<1>. DEFINE c == entities_[a].center \div gridCellSize_
<1>1. c \in DOMAIN spatialGrid_ /\ {a, b} \subseteq spatialGrid_[c]
  BY DEF CollisionIInv, Gridded
<1>2. Cardinality({a, b}) = 2
  <2>1. IsFiniteSet({a}) /\ Cardinality({a}) = 1
    BY FS_Singleton
  <2>2. Cardinality({a} \cup {b}) = 2
    BY <2>1, FS_AddElement
  <2>3. {a} \cup {b} = {a, b}
    OBVIOUS
  <2>. QED
    BY <2>2, <2>3
<1>. HIDE DEF c
<1>3. {a, b} \in UNION {Col!kSubset(2, spatialGrid_[k]) : k \in DOMAIN spatialGrid_}
  <2>1. Col!Cardinality({a, b}) = Cardinality({a, b})
    BY Zenon DEF Col!Cardinality, Cardinality
  <2>. QED
    BY <1>1, <1>2, <2>1 DEF Col!kSubset
<1>4. \A u, v \in {a, b} : Col!Touches(entities_[u].center, entities_[u].radius, entities_[v])
  <2>1. \A u \in {a, b} : entities_[u].radius \in Nat /\ entities_[u].center \in Int
                          /\ entities_[u].center = entities_[a].center
    BY DEF CollisionIInv, Stand
  <2>. QED
    BY <2>1 DEF Col!Touches, Col!Away
<1>. QED
  BY <1>3, <1>4 DEF Col!GetPotentialCollisions

(* What a ray meets in a chunk, and in an entity, is at a natural distance.*)
LEMMA ChunkDistancesAreNatural ==
    ASSUME CollisionIInv, NEW x \in Int, NEW dir \in {-1, 1}, NEW k \in DOMAIN chunks_,
           NEW closest \in Nat
    PROVE  Col!ChunkDistances(x, dir, k, closest) \subseteq Nat
<1>1. Col!Low(k) \in Int /\ Col!High(k) \in Int
  BY CollisionAssumption DEF CollisionIInv, Shaped, Col!CollisionConstants, Col!Low, Col!High
<1>2. Col!TestRayAABB(x, dir, k) \subseteq Nat
  BY <1>1 DEF Col!TestRayAABB
<1>3. Col!Triangles(k) \subseteq Int
  BY <1>1 DEF CollisionIInv, Shaped, Col!Triangles
<1>4. ASSUME NEW p \in Int PROVE Col!TestRayTriangle(x, dir, p) \subseteq Nat
  <2>1. (p - x) * dir \in Int
    BY SMT
  <2>. QED
    BY <2>1 DEF Col!TestRayTriangle
<1>. QED
  BY <1>2, <1>3, <1>4 DEF Col!ChunkDistances

LEMMA EntityDistancesAreNatural ==
    ASSUME CollisionIInv, NEW x \in Int, NEW dir \in {-1, 1}, NEW id \in DOMAIN entities_
    PROVE  Col!IntersectsRay(x, dir, entities_[id]) \subseteq Nat
<1>. DEFINE c == entities_[id].center
            r == entities_[id].radius
            ahead == (c - x) * dir
<1>1. c \in Int /\ r \in Nat
  BY DEF CollisionIInv, Stand
<1>. HIDE DEF c, r
<1>2. ahead \in Int
  BY <1>1
<1>. HIDE DEF ahead
<1>3. ahead - r \in Int /\ ahead + r \in Int
  BY <1>1, <1>2
<1>. QED
  BY <1>3 DEF Col!IntersectsRay, ahead, c, r

\* A hit is no farther than the front of any entity.
LEMMA HitIsNearest ==
    ASSUME CollisionIInv, NEW x \in Int, NEW dir \in {-1, 1}, NEW far \in Nat,
           NEW res \in Col!Raycast(x, dir, far, 0), NEW id \in DOMAIN entities_, id # 0,
           NEW d \in Col!IntersectsRay(x, dir, entities_[id])
    PROVE  res.distance \in Nat /\ res.distance <= far /\ res.distance <= d
<1>. DEFINE others == DOMAIN entities_ \ {0}
            struck(e) == {n \in Col!IntersectsRay(x, dir, entities_[e]) : n < far}
            met == {far} \cup UNION {struck(e) : e \in others}
            nearest == Col!Min(met)
            passed == UNION {Col!ChunkDistances(x, dir, k, nearest) : k \in DOMAIN chunks_}
            end == Col!Min({nearest} \cup passed)
<1>1. met \subseteq Nat /\ far \in met /\ (d < far => d \in met)
  BY EntityDistancesAreNatural
<1>2. d \in Nat
  BY EntityDistancesAreNatural
<1>. HIDE DEF met
<1>3. nearest \in Nat /\ nearest <= far /\ nearest <= d
  <2>1. nearest \in met /\ \A y \in met : nearest <= y
    BY <1>1, MinOfNaturals
  <2>. HIDE DEF nearest
  <2>. QED
    BY <1>1, <1>2, <2>1
<1>. HIDE DEF nearest
<1>4. {nearest} \cup passed \subseteq Nat
  BY <1>3, ChunkDistancesAreNatural
<1>. HIDE DEF passed
<1>5. end \in Nat /\ end <= nearest
  BY <1>4, MinOfNaturals
<1>. HIDE DEF end
<1>6. res.distance \in {end, 0}
  <2>. DEFINE reached(k) == Col!ChunkDistances(x, dir, k, nearest)
              ids == {e \in others : nearest \in struck(e)}
              ground == {k \in DOMAIN chunks_ : end \in reached(k)}
              hit(e, k) == [hit |-> ids # {} \/ ground # {}, distance |-> end,
                            entity |-> e, chunk |-> k]
              E == IF ids = {} THEN {0} ELSE ids
              K == IF ground = {} THEN {0} ELSE ground
              none == [hit |-> FALSE, distance |-> 0, entity |-> 0, chunk |-> 0]
  <2>1. Col!Raycast(x, dir, far, 0) = IF Col!ValidatePosition(x) /\ far > 0
                                      THEN {hit(e, k) : e \in E, k \in K} ELSE {none}
    BY DEF Col!Raycast, end, passed, nearest, met
  <2>2. none.distance = 0 /\ \A e \in E, k \in K : hit(e, k).distance = end
    OBVIOUS
  <2>. HIDE DEF hit, E, K, none
  <2>. QED
    BY <2>1, <2>2
<1>. QED
  BY <1>2, <1>3, <1>5, <1>6

LEMMA RaysAreFree == CollisionIInv => Col!RayFree
<1>. SUFFICES ASSUME CollisionIInv, NEW x \in Centers, NEW dir \in {-1, 1},
                     NEW far \in Radii \cup Sizes, Col!ValidatePosition(x),
                     \A e \in DOMAIN entities_ : ~Col!Touches(x, 0, entities_[e]),
                     NEW res \in Col!Raycast(x, dir, far, 0),
                     NEW step \in 0..(res.distance - 1), NEW id \in DOMAIN entities_,
                     Col!Touches(x + step * dir, 0, entities_[id])
              PROVE  FALSE
  BY DEF Col!RayFree
<1>. DEFINE c == entities_[id].center
            r == entities_[id].radius
            ahead == (c - x) * dir
<1>1. x \in Int /\ far \in Nat /\ c \in Int /\ r \in Nat /\ id # 0
  BY CollisionAssumption DEF CollisionIInv, Stand, Col!CollisionConstants
<1>2. ~(Col!Away(x, c) <= 0 + r) /\ Col!Away(x + step * dir, c) <= 0 + r
  BY DEF Col!Touches
<1>. HIDE DEF c, r
<1>3. ahead \in Int
  BY <1>1
<1>4. Col!IntersectsRay(x, dir, entities_[id])
        = {d \in {IF ahead >= r THEN ahead - r ELSE ahead + r} : d >= 0}
  BY DEF Col!IntersectsRay, ahead, c, r
<1>. HIDE DEF ahead
<1>5. \A d \in Col!IntersectsRay(x, dir, entities_[id]) :
         res.distance \in Nat /\ res.distance <= far /\ res.distance <= d
  BY <1>1, HitIsNearest
<1>6. ahead >= r => res.distance \in Nat /\ res.distance <= ahead - r
  <2>1. ahead >= r => ahead - r \in Col!IntersectsRay(x, dir, entities_[id])
    BY <1>1, <1>3, <1>4
  <2>. QED
    BY <1>5, <2>1
<1>7. ASSUME step \in Nat PROVE ahead >= r /\ ahead - r <= step
  <2>1. CASE dir = 1
    BY <1>1, <1>2, <1>7, <2>1 DEF Col!Away, ahead
  <2>2. CASE dir = -1
    BY <1>1, <1>2, <1>7, <2>2 DEF Col!Away, ahead
  <2>. QED
    BY <2>1, <2>2
<1>. QED
  BY <1>1, <1>3, <1>6, <1>7

LEMMA BoxesPushOut == CollisionIInv => Col!PushedOut
<1>. SUFFICES ASSUME CollisionIInv, NEW x \in Centers, NEW r \in Radii,
                     NEW res \in Col!CheckCollision(x, r, 0), res.collided, res.with = 0
              PROVE  \E k \in DOMAIN chunks_ : /\ Col!BoxDistance(x, k) <= r
                                               /\ Col!BoxDistance(x + res.resolution, k) = r
  BY DEF Col!PushedOut
<1>1. x \in Int /\ r \in Nat
  BY CollisionAssumption DEF Col!CollisionConstants
<1>2. PICK k \in DOMAIN chunks_ :
         Col!BoxDistance(x, k) <= r /\ res.resolution = Col!TestSphereBox(x, r, k)
  <2>. DEFINE met == {id \in DOMAIN entities_ \ {0} : Col!Touches(x, r, entities_[id])}
              boxes == {k \in DOMAIN chunks_ : Col!BoxDistance(x, k) <= r}
              struck(k) == [collided |-> TRUE, with |-> 0, resolution |-> Col!TestSphereBox(x, r, k)]
  <2>1. res \notin {[collided |-> TRUE, with |-> id,
                     resolution |-> Col!TestSphereSphere(x, r, entities_[id])] : id \in met}
    BY DEF met
  <2>2. PICK k \in boxes : res = struck(k)
    BY <2>1 DEF Col!CheckCollision, Col!Nowhere
  <2>. QED
    BY <2>2
<1>3. Col!Low(k) \in Int /\ Col!High(k) \in Int /\ Col!Low(k) <= Col!High(k)
  <2>1. PICK n \in Int, w \in Nat : n = k /\ w = CHUNK_WIDTH
    BY CollisionAssumption DEF CollisionIInv, Shaped, Col!CollisionConstants
  <2>2. n * w \in Int /\ (n + 1) * w = n * w + w
    BY <2>1
  <2>. QED
    BY <2>1, <2>2 DEF Col!Low, Col!High
<1>4. Col!BoxDistance(x + res.resolution, k) = r
  BY <1>1, <1>2, <1>3 DEF Col!BoxDistance, Col!Closest, Col!TestSphereBox, Col!Away
<1>. QED
  BY <1>2, <1>4

(* Steps of the system.                                                    *)
LEMMA AddedIsThere ==
    ASSUME NEW grid, NEW id, NEW new
    PROVE  /\ \A c \in DOMAIN grid : c \in DOMAIN Col!AddToGrid(grid, id, new)
                                     /\ grid[c] \subseteq Col!AddToGrid(grid, id, new)[c]
           /\ \A c \in new : c \in DOMAIN Col!AddToGrid(grid, id, new)
                             /\ id \in Col!AddToGrid(grid, id, new)[c]
BY DEF Col!AddToGrid, Col!Cell

LEMMA RemovedIsGone ==
    ASSUME NEW grid, NEW id, NEW c
    PROVE  /\ DOMAIN Col!RemoveFromGrid(grid, id, c) = DOMAIN grid
           /\ \A k \in DOMAIN grid : grid[k] \ {id} \subseteq Col!RemoveFromGrid(grid, id, c)[k]
BY DEF Col!RemoveFromGrid

LEMMA CleanedIsThere ==
    ASSUME NEW grid, NEW c \in DOMAIN grid, grid[c] # {}
    PROVE  c \in DOMAIN Col!CleanEmptyGridCells(grid) /\ Col!CleanEmptyGridCells(grid)[c] = grid[c]
BY DEF Col!CleanEmptyGridCells

LEMMA RegisterKeeps ==
    ASSUME CollisionIInv, NEW id \in Bodies, NEW x \in Centers, NEW r \in Radii,
           Col!RegisterEntity(id, x, r)
    PROVE  CollisionIInv'
<1>. DEFINE body == Col!Body(x, r, id \in Heavy)
<1>1. entities_' = [e \in DOMAIN entities_ \cup {id} |-> IF e = id THEN body ELSE entities_[e]]
      /\ spatialGrid_' = Col!AddToGrid(spatialGrid_, id, {Col!GetGridKey(x)})
      /\ id \notin DOMAIN entities_ /\ UNCHANGED <<gridCellSize_, chunks_>>
  BY DEF Col!RegisterEntity
<1>2. DOMAIN body = BodyFields /\ body.center = x /\ body.previous = x /\ body.radius = r
  BY DEF Col!Body, BodyFields
<1>3. x \in Int /\ r \in Nat
  BY CollisionAssumption DEF Col!CollisionConstants
<1>. HIDE DEF body
<1>4. Stand(entities_')
  BY <1>1, <1>2, <1>3 DEF CollisionIInv, Stand
<1>5. Gridded(entities_', spatialGrid_', gridCellSize_)
  BY <1>1, <1>2, AddedIsThere DEF CollisionIInv, Gridded, Col!GetGridKey
<1>. QED
  BY <1>1, <1>4, <1>5 DEF CollisionIInv, Shaped

LEMMA MoveKeeps ==
    ASSUME CollisionIInv, NEW id, NEW x \in Centers, Col!UpdateEntity(id, x)
    PROVE  CollisionIInv'
<1>. DEFINE gone == Col!RemoveFromGrid(spatialGrid_, id, Col!GetGridKey(entities_[id].previous))
<1>1. entities_' = [entities_ EXCEPT ![id].center = x] /\ id \in DOMAIN entities_
      /\ spatialGrid_' = Col!AddToGrid(gone, id, {Col!GetGridKey(x)})
      /\ UNCHANGED <<gridCellSize_, chunks_>>
  BY DEF Col!UpdateEntity, Col!Regridded
<1>2. x \in Int
  BY CollisionAssumption DEF Col!CollisionConstants
<1>3. Stand(entities_')
  BY <1>1, <1>2 DEF CollisionIInv, Stand, BodyFields
<1>4. DOMAIN gone = DOMAIN spatialGrid_
      /\ \A k \in DOMAIN spatialGrid_ : spatialGrid_[k] \ {id} \subseteq gone[k]
  BY RemovedIsGone
<1>. HIDE DEF gone
<1>5. entities_'[id].center = x /\ DOMAIN entities_' = DOMAIN entities_
      /\ \A e \in DOMAIN entities_ \ {id} : entities_'[e].center = entities_[e].center
  BY <1>1 DEF CollisionIInv, Stand, BodyFields
<1>6. \A c \in DOMAIN gone : c \in DOMAIN spatialGrid_' /\ gone[c] \subseteq spatialGrid_'[c]
  BY <1>1, AddedIsThere
<1>7. Col!GetGridKey(x) \in DOMAIN spatialGrid_' /\ id \in spatialGrid_'[Col!GetGridKey(x)]
  BY <1>1, AddedIsThere
<1>8. Gridded(entities_', spatialGrid_', gridCellSize_)
  BY <1>4, <1>5, <1>6, <1>7 DEF CollisionIInv, Gridded, Col!GetGridKey
<1>. QED
  BY <1>1, <1>3, <1>8 DEF CollisionIInv, Shaped

LEMMA UnregisterKeeps ==
    ASSUME CollisionIInv, NEW id, Col!UnregisterEntity(id)
    PROVE  CollisionIInv'
<1>. DEFINE out == Col!RemoveFromGrid(spatialGrid_, id, Col!GetGridKey(entities_[id].center))
<1>1. entities_' = [e \in DOMAIN entities_ \ {id} |-> entities_[e]]
      /\ spatialGrid_' = (IF DOMAIN entities_ = {id} THEN Col!CleanEmptyGridCells(out) ELSE out)
      /\ UNCHANGED <<gridCellSize_, chunks_>>
  BY DEF Col!UnregisterEntity
<1>2. Stand(entities_')
  BY <1>1 DEF CollisionIInv, Stand
<1>3. DOMAIN out = DOMAIN spatialGrid_
      /\ \A k \in DOMAIN spatialGrid_ : spatialGrid_[k] \ {id} \subseteq out[k]
  BY RemovedIsGone
<1>. HIDE DEF out
<1>4. Gridded(entities_', spatialGrid_', gridCellSize_)
  <2>1. CASE DOMAIN entities_ = {id}
    BY <1>1, <2>1 DEF Gridded
  <2>2. CASE DOMAIN entities_ # {id}
    BY <1>1, <1>3, <2>2 DEF CollisionIInv, Gridded
  <2>. QED
    BY <2>1, <2>2
<1>. QED
  BY <1>1, <1>2, <1>4 DEF CollisionIInv, Shaped

(* Update: who has moved is in every cell crossed since, that of the       *)
(* centre among them.                                                      *)
LEMMA SweptHasCenter ==
    ASSUME CollisionIInv, NEW id \in DOMAIN entities_
    PROVE  Col!GetGridKey(entities_[id].center) \in Col!Swept(entities_[id])
<1>. DEFINE p == entities_[id].previous
            y == entities_[id].center
            r == entities_[id].radius
            low == Col!Min({p, y}) - r
            high == Col!Max({p, y}) + r
<1>1. gridCellSize_ \in Nat \ {0} /\ p \in Int /\ y \in Int /\ r \in Nat
  BY CellHasSize DEF CollisionIInv, Stand
<1>. HIDE DEF p, y, r
<1>2. low \in Int /\ high \in Int /\ low <= y /\ y <= high
  <2>1. /\ Col!Min({p, y}) \in Int /\ Col!Min({p, y}) <= y
        /\ Col!Max({p, y}) \in Int /\ Col!Max({p, y}) >= y
    BY <1>1, MinMaxOfTwo
  <2>2. \A m \in Int, n \in Int : m <= y /\ n >= y => m - r <= y /\ y <= n + r
    BY <1>1
  <2>. QED
    BY <1>1, <2>1, <2>2
<1>3. Col!Swept(entities_[id]) = Col!GetGridKey(low)..Col!GetGridKey(high)
  BY DEF Col!Swept, p, y, r
<1>. HIDE DEF low, high
<1>4. low \div gridCellSize_ <= y \div gridCellSize_
      /\ y \div gridCellSize_ <= high \div gridCellSize_
  BY <1>1, <1>2, DivisionGrows
<1>5. low \div gridCellSize_ \in Int /\ y \div gridCellSize_ \in Int
      /\ high \div gridCellSize_ \in Int
  BY <1>1, <1>2
<1>. QED
  BY <1>3, <1>4, <1>5 DEF Col!GetGridKey, y

LEMMA UpdateKeepsGrid ==
    ASSUME CollisionIInv, Col!Update
    PROVE  CollisionIInv'
<1>. DEFINE moving == {id \in DOMAIN entities_ : Col!Moved(id)}
            out == [c \in DOMAIN spatialGrid_ |->
                      {id \in spatialGrid_[c] : id \in DOMAIN entities_ /\ Col!Moved(id)
                                  => c # Col!GetGridKey(entities_[id].previous)}]
            new == [c \in DOMAIN out \cup UNION {Col!Swept(entities_[id]) : id \in moving} |->
                      Col!Cell(out, c) \cup {id \in moving : c \in Col!Swept(entities_[id])}]
<1>1. spatialGrid_' = new /\ UNCHANGED <<gridCellSize_, chunks_>>
      /\ entities_' = [id \in DOMAIN entities_ |->
                         IF Col!Moved(id)
                         THEN [entities_[id] EXCEPT !.previous = entities_[id].center]
                         ELSE entities_[id]]
  BY DEF Col!Update
<1>2. DOMAIN entities_' = DOMAIN entities_
  BY <1>1
<1>3. ASSUME NEW id \in DOMAIN entities_
      PROVE  /\ DOMAIN entities_'[id] = BodyFields
             /\ entities_'[id].center = entities_[id].center
             /\ entities_'[id].radius = entities_[id].radius
             /\ entities_'[id].previous \in {entities_[id].center, entities_[id].previous}
  BY <1>1 DEF CollisionIInv, Stand, BodyFields
<1>4. Stand(entities_')
  BY <1>2, <1>3 DEF CollisionIInv, Stand
<1>5. ASSUME NEW id \in DOMAIN entities_
      PROVE  /\ entities_[id].center \div gridCellSize_ \in DOMAIN new
             /\ id \in new[entities_[id].center \div gridCellSize_]
  <2>. DEFINE c == entities_[id].center \div gridCellSize_
  <2>1. CASE id \in moving
    <3>1. c \in Col!Swept(entities_[id])
      BY SweptHasCenter DEF Col!GetGridKey
    <3>. HIDE DEF c
    <3>. QED
      BY <2>1, <3>1 DEF c
  <2>2. CASE id \notin moving
    <3>1. c \in DOMAIN spatialGrid_ /\ id \in spatialGrid_[c]
      BY DEF CollisionIInv, Gridded
    <3>. HIDE DEF c
    <3>2. c \in DOMAIN out /\ id \in out[c]
      BY <2>2, <3>1
    <3>. HIDE DEF out
    <3>. QED
      BY <3>2 DEF Col!Cell, c
  <2>. QED
    BY <2>1, <2>2
<1>. HIDE DEF new
<1>6. Gridded(entities_', spatialGrid_', gridCellSize_)
  BY <1>1, <1>2, <1>3, <1>5 DEF Gridded
<1>. QED
  BY <1>1, <1>4, <1>6 DEF CollisionIInv, Shaped

LEMMA CollisionStep == CollisionIInv /\ [Col!CollisionNext]_collisionVars => CollisionIInv'
<1>. SUFFICES ASSUME CollisionIInv, [Col!CollisionNext]_collisionVars PROVE CollisionIInv'
  OBVIOUS
<1>1. CASE UNCHANGED collisionVars
  BY <1>1 DEF collisionVars, CollisionIInv, Shaped
<1>2. ASSUME NEW s \in Sizes, Col!SetGridCellSize(s) PROVE CollisionIInv'
  <2>. DEFINE key(id) == entities_[id].center \div s
              grid == [k \in {key(id) : id \in DOMAIN entities_} |->
                         {id \in DOMAIN entities_ : key(id) = k}]
  <2>1. gridCellSize_' = s /\ spatialGrid_' = grid /\ UNCHANGED <<entities_, chunks_>>
    BY <1>2 DEF Col!SetGridCellSize
  <2>2. Gridded(entities_, grid, s)
    BY DEF Gridded
  <2>. HIDE DEF grid
  <2>. QED
    BY <2>1, <2>2 DEF CollisionIInv, Shaped
<1>3. ASSUME NEW b, Col!SetWorldBounds(b) PROVE CollisionIInv'
  BY <1>3 DEF Col!SetWorldBounds, CollisionIInv, Shaped
<1>4. ASSUME NEW k \in ChunkColumns, NEW mesh \in Meshes, Col!RegisterChunk(k, mesh)
      PROVE  CollisionIInv'
  <2>1. k \in Int /\ mesh \subseteq Int
    BY CollisionAssumption DEF Col!CollisionConstants
  <2>2. Shaped'
    BY <1>4, <2>1 DEF Col!RegisterChunk, CollisionIInv, Shaped
  <2>. QED
    BY <1>4, <2>2 DEF Col!RegisterChunk, CollisionIInv
<1>5. ASSUME NEW gone, Col!UnregisterChunks(gone) PROVE CollisionIInv'
  <2>1. Shaped'
    BY <1>5 DEF Col!UnregisterChunks, CollisionIInv, Shaped
  <2>. QED
    BY <1>5, <2>1 DEF Col!UnregisterChunks, CollisionIInv
<1>6. CASE Col!UpdateBroadPhase
  <2>1. spatialGrid_' = Col!CleanEmptyGridCells(spatialGrid_)
        /\ UNCHANGED <<entities_, gridCellSize_, chunks_>>
    BY <1>6 DEF Col!UpdateBroadPhase
  <2>2. Gridded(entities_, spatialGrid_', gridCellSize_)
    BY <2>1, CleanedIsThere DEF CollisionIInv, Gridded
  <2>. QED
    BY <2>1, <2>2 DEF CollisionIInv, Shaped
<1>. QED
  BY <1>1, <1>2, <1>3, <1>4, <1>5, <1>6, RegisterKeeps, MoveKeeps, UnregisterKeeps,
     UpdateKeepsGrid DEF Col!CollisionNext, Col!ClearAllChunks

(* CollisionSystem: the grid finds whoever is near and what stands in one  *)
(* place, however bodies move, cells change and ids are left behind; and a *)
(* ray stops at the first entity it meets.                                 *)
THEOREM CollisionsAreFound == Spec => []CollisionInv
<1>1. Init => CollisionIInv
  BY DEF Init, Col!CollisionInit, CollisionIInv, Stand, Gridded, Shaped
<1>2. CollisionIInv /\ [Next]_vars => CollisionIInv'
  <2>1. [Next]_vars => [Col!CollisionNext]_collisionVars
    BY DEF Next, RulesStep, BodiesStep, vars, bodies
  <2>. QED
    BY <2>1, CollisionStep
<1>3. CollisionIInv => CollisionInv
  BY GridAnswers, PairsAreFound, RaysAreFree, BoxesPushOut DEF CollisionInv, Col!CollisionInv
<1>. QED
  BY <1>1, <1>2, <1>3, PTL DEF Spec

-----------------------------------------------------------------------------
(* The chunk streamer.                                                     *)

(* The instance names what it has from other modules anew.                 *)
LEMMA StreamSizes == ASSUME NEW S PROVE Str!Cardinality(S) = Cardinality(S)
BY DEF Str!Cardinality, Cardinality
LEMMA StreamFinite == ASSUME NEW S PROVE Str!IsFiniteSet(S) <=> IsFiniteSet(S)
BY DEF Str!IsFiniteSet, IsFiniteSet

(* How far down an element is in a set of numbers.                         *)
UpTo(I, i) == {j \in I : j <= i}
Ranks(I) == [i \in I |-> Cardinality(UpTo(I, i))]

LEMMA RanksDiffer ==
    ASSUME NEW n \in Nat, NEW I \in SUBSET (1..n)
    PROVE  /\ IsFiniteSet(I) /\ Cardinality(I) \in Nat
           /\ Ranks(I) \in Bijection(I, 1..Cardinality(I))
<1>. DEFINE m == Cardinality(I)
<1>1. IsFiniteSet(I)
  <2>1. IsFiniteSet(1..n)
    BY FS_Interval, 1 \in Int, n \in Int
  <2>. QED
    BY <2>1, FS_Subset
<1>2. m \in Nat
  BY <1>1, FS_CardinalityType
<1>3. ASSUME NEW i \in I
      PROVE  IsFiniteSet(UpTo(I, i)) /\ Cardinality(UpTo(I, i)) \in 1..m
  <2>1. UpTo(I, i) \in SUBSET I /\ i \in UpTo(I, i)
    BY DEF UpTo
  <2>2. IsFiniteSet(UpTo(I, i)) /\ Cardinality(UpTo(I, i)) <= m
    BY <1>1, <2>1, FS_Subset
  <2>3. Cardinality(UpTo(I, i)) \in Nat /\ Cardinality(UpTo(I, i)) # 0
    BY <2>1, <2>2, FS_CardinalityType, FS_EmptySet
  <2>. QED
    BY <1>2, <2>2, <2>3
<1>4. ASSUME NEW i \in I, NEW j \in I, i < j
      PROVE  Cardinality(UpTo(I, i)) # Cardinality(UpTo(I, j))
  <2>1. UpTo(I, i) \in SUBSET UpTo(I, j)
    <3>1. i \in Int /\ j \in Int
      OBVIOUS
    <3>2. ASSUME NEW x \in I, x <= i PROVE x <= j
      <4>1. x \in Int
        OBVIOUS
      <4>. QED
        BY <1>4, <3>1, <3>2, <4>1
    <3>. QED
      BY <3>2 DEF UpTo
  <2>2. j \in UpTo(I, j) /\ j \notin UpTo(I, i)
    BY <1>4 DEF UpTo
  <2>3. Cardinality(UpTo(I, i)) = Cardinality(UpTo(I, j)) => UpTo(I, i) = UpTo(I, j)
    BY <1>3, <2>1, FS_Subset
  <2>. QED
    BY <2>2, <2>3
<1>. HIDE DEF m
<1>5. Ranks(I) \in [I -> 1..m]
  BY <1>3 DEF Ranks
<1>6. \A i, j \in I : Ranks(I)[i] = Ranks(I)[j] => i = j
  BY <1>4 DEF Ranks
<1>7. Ranks(I) \in Injection(I, 1..m)
  BY <1>5, <1>6 DEF Injection, IsInjective
<1>8. IsFiniteSet(1..m) /\ Cardinality(1..m) = m
  BY <1>2, FS_Interval
<1>9. Ranks(I) \in Surjection(I, 1..m)
  BY <1>1, <1>7, <1>8, FS_Injection DEF m
<1>. QED
  BY <1>1, <1>2, <1>7, <1>9 DEF Bijection, m

(* What Keep leaves are the elements at the places kept.                   *)
LEMMA KeepKeeps ==
    ASSUME NEW S, NEW s \in Seq(S), NEW I \in SUBSET (1..Len(s))
    PROVE  /\ Str!Keep(s, I) \in Seq(S)
           /\ \A i \in I : \E n \in DOMAIN Str!Keep(s, I) : Str!Keep(s, I)[n] = s[i]
<1>. DEFINE m == Cardinality(I)
            kept == [n \in 1..m |-> s[Str!Ranked(I, n)]]
<1>1. Str!Keep(s, I) = kept
  BY StreamSizes DEF Str!Keep
<1>2. m \in Nat /\ Ranks(I) \in Bijection(I, 1..m)
  BY RanksDiffer, Len(s) \in Nat
<1>3. \A i \in I : Str!Rank(I, i) = Ranks(I)[i]
  BY StreamSizes DEF Ranks, UpTo, Str!Rank
<1>. HIDE DEF m
<1>4. /\ \A i \in I : Str!Rank(I, i) \in 1..m
      /\ \A n \in 1..m : \E i \in I : Str!Rank(I, i) = n
      /\ \A i, j \in I : Str!Rank(I, i) = Str!Rank(I, j) => i = j
  BY <1>2, <1>3 DEF Bijection, Injection, Surjection, IsInjective
<1>5. ASSUME NEW n \in 1..m
      PROVE  Str!Ranked(I, n) \in I /\ Str!Rank(I, Str!Ranked(I, n)) = n
  BY <1>4 DEF Str!Ranked
<1>6. ASSUME NEW n \in 1..m PROVE s[Str!Ranked(I, n)] \in S
  <2>1. Str!Ranked(I, n) \in 1..Len(s)
    BY <1>5
  <2>. QED
    BY <2>1
<1>7. kept \in [1..m -> S]
  BY <1>6
<1>8. ASSUME NEW i \in I
      PROVE  Str!Rank(I, i) \in 1..m /\ kept[Str!Rank(I, i)] = s[i]
  BY <1>4, <1>5
<1>. HIDE DEF kept
<1>9. kept \in Seq(S) /\ DOMAIN kept = 1..m
  BY <1>2, <1>7
<1>. QED
  BY <1>1, <1>8, <1>9

(* Threads and what they work on.                                          *)
Resting == {"off", "tests", "asleep"}
Worked(k) == \E t \in Loaders : job[t].x = k /\ thread[t] \notin Resting
Queued(k) == \E i \in DOMAIN load_queue_ : load_queue_[i].x = k

Staffed ==
    /\ DOMAIN thread = Loaders \cup Unloaders /\ DOMAIN job = Loaders \cup Unloaders
    /\ \A t \in Loaders \cup Unloaders : DOMAIN job[t] = {"x", "lod", "chunk"}

LoadRequests == [x : Tiles, lod : {"HIGH", "LOW"}, priority : Int]
QueueTyped == load_queue_ \in Seq(LoadRequests) /\ view_position_ \in Int

(* Each promise in the table has a future of its own.                      *)
PromisesKept ==
    /\ futures \in Seq({"waits", "value", "cancelled", "broken"})
    /\ \A k \in DOMAIN pending_promises_ : pending_promises_[k] \in DOMAIN futures
    /\ \A k, j \in DOMAIN pending_promises_ : pending_promises_[k] = pending_promises_[j] => k = j
    /\ Str!WaitersKnown

Attended == Str!NothingForgotten /\ Str!InProgress
WaitingInv == Staffed /\ QueueTyped /\ PromisesKept /\ Attended

(* Attended in the words above.                                            *)
LEMMA AttendedMeans ==
    Attended <=> /\ \A k \in DOMAIN pending_promises_ :
                       pending_promises_[k] \in forgotten \/ Queued(k) \/ Worked(k)
                 /\ \A k \in loading_in_progress_ : Worked(k)
BY DEF Attended, Str!NothingForgotten, Str!InProgress, Queued, Worked, Resting

LEMMA AttendedLater ==
    Attended' <=> /\ \A k \in DOMAIN pending_promises_' :
                        pending_promises_'[k] \in forgotten' \/ Queued(k)' \/ Worked(k)'
                  /\ \A k \in loading_in_progress_' : Worked(k)'
BY DEF Attended, Str!NothingForgotten, Str!InProgress, Queued, Worked, Resting

(* A step that leaves requests and promises alone and takes no loader from *)
(* its work.                                                               *)
WorkGoesOn == \A t \in Loaders : thread[t] \notin Resting =>
                  thread'[t] \notin Resting /\ job'[t].x = job[t].x
BooksStay == UNCHANGED <<load_queue_, pending_promises_, loading_in_progress_, view_position_,
                         futures, forgotten>>

LEMMA WorkKept ==
    ASSUME WorkGoesOn, NEW k, Worked(k)
    PROVE  Worked(k)'
BY DEF WorkGoesOn, Worked

LEMMA GoingOn ==
    ASSUME WaitingInv, Staffed', WorkGoesOn, BooksStay
    PROVE  WaitingInv'
<1>1. QueueTyped' /\ PromisesKept'
  BY DEF WaitingInv, BooksStay, QueueTyped, PromisesKept, Str!WaitersKnown
<1>2. \A k : (Queued(k) => Queued(k)') /\ (Worked(k) => Worked(k)')
  BY WorkKept DEF BooksStay, Queued
<1>3. Attended'
  BY <1>2, AttendedMeans, AttendedLater DEF WaitingInv, BooksStay
<1>. QED
  BY <1>1, <1>3 DEF WaitingInv

(* A thread moves on.                                                      *)
LEMMA ThreadGoes ==
    ASSUME Staffed, NEW t \in Loaders \cup Unloaders, NEW pc, NEW j,
           Str!Goes(t, pc, j), DOMAIN j = {"x", "lod", "chunk"}
    PROVE  /\ Staffed'
           /\ thread'[t] = pc /\ job'[t] = j
           /\ \A u \in Loaders \cup Unloaders : u # t => thread'[u] = thread[u] /\ job'[u] = job[u]
BY DEF Staffed, Str!Goes

LEMMA ThreadWakes ==
    ASSUME Staffed, NEW pcs, thread' = [t \in DOMAIN thread |-> pcs[t]], job' = job,
           \A t \in DOMAIN thread : thread[t] \notin Resting => pcs[t] = thread[t]
    PROVE  Staffed' /\ WorkGoesOn
BY DEF Staffed, WorkGoesOn

LEMMA Notified ==
    ASSUME Staffed, Str!NotifyOne, job' = job
    PROVE  Staffed' /\ WorkGoesOn
BY DEF Staffed, WorkGoesOn, Str!NotifyOne, Resting

(* A future for k is made, or the one there is answered.                   *)
LEMMA PromisedKeeps ==
    ASSUME PromisesKept, NEW k, Str!Promised(k)
    PROVE  PromisesKept' /\ k \in DOMAIN pending_promises_'
           /\ DOMAIN pending_promises_' = DOMAIN pending_promises_ \cup {k}
           /\ \A j \in DOMAIN pending_promises_ : j # k => pending_promises_'[j] = pending_promises_[j]
<1>. DEFINE n == Len(futures) + 1
            Outcomes == {"waits", "value", "cancelled", "broken"}
            base == IF k \in DOMAIN pending_promises_
                    THEN [futures EXCEPT ![pending_promises_[k]] = "broken"] ELSE futures
<1>1. futures' = Append(base, "waits") /\ pending_promises_' = Str!With(pending_promises_, k, n)
  BY DEF Str!Promised, Str!Resolved
<1>2. /\ futures \in Seq(Outcomes) /\ n \in Nat /\ DOMAIN futures = 1..Len(futures)
  BY DEF PromisesKept
<1>3. /\ base \in Seq(Outcomes) /\ Len(base) = Len(futures)
      /\ \A i \in DOMAIN futures : base[i] = IF k \in DOMAIN pending_promises_ /\ i = pending_promises_[k]
                                            THEN "broken" ELSE futures[i]
  <2>1. CASE k \in DOMAIN pending_promises_
    <3>1. pending_promises_[k] \in DOMAIN futures /\ base = [futures EXCEPT ![pending_promises_[k]] = "broken"]
      BY <2>1 DEF PromisesKept
    <3>. HIDE DEF base
    <3>. QED
      BY <1>2, <2>1, <3>1
  <2>2. CASE k \notin DOMAIN pending_promises_
    BY <1>2, <2>2
  <2>. QED
    BY <2>1, <2>2
<1>. HIDE DEF base
<1>4. /\ futures' \in Seq(Outcomes) /\ DOMAIN futures' = 1..n /\ futures'[n] = "waits"
      /\ \A i \in DOMAIN futures : i \in DOMAIN futures' /\ i # n /\ futures'[i] = base[i]
      /\ \A i \in DOMAIN futures' : i # n => i \in DOMAIN futures
  BY <1>1, <1>2, <1>3
<1>5. /\ DOMAIN pending_promises_' = DOMAIN pending_promises_ \cup {k}
      /\ pending_promises_'[k] = n
      /\ \A j \in DOMAIN pending_promises_ : j # k => pending_promises_'[j] = pending_promises_[j]
  BY <1>1 DEF Str!With
<1>. HIDE DEF n, Outcomes
<1>6. /\ \A j \in DOMAIN pending_promises_ : pending_promises_[j] \in DOMAIN futures
      /\ \A j, m \in DOMAIN pending_promises_ : pending_promises_[j] = pending_promises_[m] => j = m
      /\ \A i \in DOMAIN futures :
            futures[i] = "waits" <=> \E j \in DOMAIN pending_promises_ : i = pending_promises_[j]
  BY DEF PromisesKept, Str!WaitersKnown
<1>7. \A j \in DOMAIN pending_promises_' : pending_promises_'[j] \in DOMAIN futures'
  <2>1. n \in DOMAIN futures'
    BY <1>2, <1>4 DEF n
  <2>. QED
    BY <1>4, <1>5, <1>6, <2>1
<1>8. \A j, m \in DOMAIN pending_promises_' : pending_promises_'[j] = pending_promises_'[m] => j = m
  BY <1>4, <1>5, <1>6
<1>9. ASSUME NEW i \in DOMAIN futures'
      PROVE  futures'[i] = "waits" <=> \E j \in DOMAIN pending_promises_' : i = pending_promises_'[j]
  <2>1. CASE i = n
    BY <1>4, <1>5, <2>1
  <2>2. CASE i # n
    BY <1>3, <1>4, <1>5, <1>6, <2>2
  <2>. QED
    BY <2>1, <2>2
<1>10. Str!WaitersKnown'
  BY <1>7, <1>9 DEF Str!WaitersKnown
<1>. QED
  BY <1>4, <1>5, <1>7, <1>8, <1>10 DEF PromisesKept, Outcomes

LEMMA AnsweredKeeps ==
    ASSUME PromisesKept, NEW k \in DOMAIN pending_promises_, NEW how \in {"value", "cancelled"},
           futures' = Str!Resolved(pending_promises_[k], how),
           pending_promises_' = Str!Without(pending_promises_, k)
    PROVE  PromisesKept'
<1>1. /\ futures \in Seq({"waits", "value", "cancelled", "broken"})
      /\ \A j \in DOMAIN pending_promises_ : pending_promises_[j] \in DOMAIN futures
      /\ \A j, m \in DOMAIN pending_promises_ : pending_promises_[j] = pending_promises_[m] => j = m
      /\ \A i \in DOMAIN futures :
            futures[i] = "waits" <=> \E j \in DOMAIN pending_promises_ : i = pending_promises_[j]
  BY DEF PromisesKept, Str!WaitersKnown
<1>2. /\ futures' \in Seq({"waits", "value", "cancelled", "broken"})
      /\ DOMAIN futures' = DOMAIN futures
      /\ \A i \in DOMAIN futures : futures'[i] = IF i = pending_promises_[k] THEN how ELSE futures[i]
  BY <1>1 DEF Str!Resolved
<1>3. /\ DOMAIN pending_promises_' = DOMAIN pending_promises_ \ {k}
      /\ \A j \in DOMAIN pending_promises_' : pending_promises_'[j] = pending_promises_[j]
  BY DEF Str!Without
<1>4. ASSUME NEW i \in DOMAIN futures
      PROVE  futures'[i] = "waits" <=> \E j \in DOMAIN pending_promises_' : i = pending_promises_'[j]
  BY <1>1, <1>2, <1>3
<1>5. Str!WaitersKnown'
  BY <1>1, <1>2, <1>3, <1>4 DEF Str!WaitersKnown
<1>. QED
  BY <1>1, <1>2, <1>3, <1>5 DEF PromisesKept

(* RequestChunk.                                                           *)
LEMMA RequestAttended ==
    ASSUME WaitingInv, NEW k \in Tiles, Str!RequestChunk(k)
    PROVE  WaitingInv'
<1>0. /\ UNCHANGED <<loading_in_progress_, view_position_, forgotten, job>>
      /\ Staffed /\ QueueTyped /\ PromisesKept /\ Attended
  BY DEF Str!RequestChunk, WaitingInv
<1>1. CASE /\ futures' = Append(futures, "value")
           /\ UNCHANGED <<load_queue_, pending_promises_, thread>>
  <2>1. PromisesKept'
    <3>1. /\ futures' \in Seq({"waits", "value", "cancelled", "broken"})
          /\ DOMAIN futures' = DOMAIN futures \cup {Len(futures) + 1}
          /\ \A i \in DOMAIN futures : futures'[i] = futures[i]
          /\ futures'[Len(futures) + 1] = "value"
      BY <1>0, <1>1 DEF PromisesKept
    <3>. QED
      BY <1>0, <1>1, <3>1 DEF PromisesKept, Str!WaitersKnown
  <2>2. Staffed' /\ QueueTyped' /\ Attended'
    BY <1>0, <1>1 DEF Staffed, QueueTyped, Attended, Str!NothingForgotten, Str!InProgress
  <2>. QED
    BY <2>1, <2>2 DEF WaitingInv
<1>2. CASE k \in loading_in_progress_ /\ Str!Promised(k) /\ UNCHANGED <<load_queue_, thread>>
  <2>1. Staffed' /\ QueueTyped' /\ PromisesKept'
    BY <1>0, <1>2, PromisedKeeps DEF Staffed, QueueTyped
  <2>2. \A j : (Queued(j) => Queued(j)') /\ (Worked(j) => Worked(j)')
    BY <1>0, <1>2 DEF Queued, Worked
  <2>3. Attended'
    BY <1>0, <1>2, <2>2, AttendedMeans, AttendedLater, PromisedKeeps
  <2>. QED
    BY <2>1, <2>3 DEF WaitingInv
<1>3. CASE /\ Str!Promised(k) /\ Str!NotifyOne
           /\ load_queue_' = Append(load_queue_, Str!Request(k, "HIGH", view_position_))
  <2>1. Str!Request(k, "HIGH", view_position_) \in LoadRequests
    BY <1>0, StreamAssumption DEF Str!Request, Str!CalculatePriority, Str!Far, LoadRequests, QueueTyped,
                     Str!StreamConstants
  <2>2. QueueTyped' /\ Queued(k)' /\ \A j : Queued(j) => Queued(j)'
    <3>1. Str!Request(k, "HIGH", view_position_).x = k
      BY DEF Str!Request
    <3>. QED
      BY <1>0, <1>3, <2>1, <3>1 DEF QueueTyped, Queued
  <2>3. Staffed' /\ PromisesKept' /\ \A j : Worked(j) => Worked(j)'
    BY <1>0, <1>3, PromisedKeeps, Notified, WorkKept
  <2>4. Attended'
    BY <1>0, <1>3, <2>2, <2>3, AttendedMeans, AttendedLater, PromisedKeeps
  <2>. QED
    BY <2>2, <2>3, <2>4 DEF WaitingInv
<1>. QED
  BY <1>1, <1>2, <1>3 DEF Str!RequestChunk

(* CancelRequest.                                                          *)
LEMMA CancelAttended ==
    ASSUME WaitingInv, NEW k \in Tiles, Str!CancelRequest(k)
    PROVE  WaitingInv'
<1>0. /\ UNCHANGED <<loading_in_progress_, view_position_, forgotten, thread, job>>
      /\ Staffed /\ QueueTyped /\ PromisesKept /\ Attended
      /\ pending_promises_' = Str!Without(pending_promises_, k)
      /\ load_queue_' = Str!Keep(load_queue_, {i \in DOMAIN load_queue_ : load_queue_[i].x # k})
  BY DEF Str!CancelRequest, WaitingInv, Str!threadVars
<1>1. PromisesKept'
  <2>1. CASE k \in DOMAIN pending_promises_
    BY <1>0, <2>1, AnsweredKeeps DEF Str!CancelRequest
  <2>2. CASE k \notin DOMAIN pending_promises_
    <3>1. /\ DOMAIN pending_promises_' = DOMAIN pending_promises_ /\ futures' = futures
          /\ \A j \in DOMAIN pending_promises_ : pending_promises_'[j] = pending_promises_[j]
      BY <2>2 DEF Str!CancelRequest, Str!Without
    <3>. QED
      BY <1>0, <3>1 DEF PromisesKept, Str!WaitersKnown
  <2>. QED
    BY <2>1, <2>2
<1>2. /\ load_queue_' \in Seq(LoadRequests)
      /\ \A j : j # k /\ Queued(j) => Queued(j)'
  <2>. DEFINE I == {i \in DOMAIN load_queue_ : load_queue_[i].x # k}
  <2>1. load_queue_ \in Seq(LoadRequests) /\ I \in SUBSET (1..Len(load_queue_))
    BY <1>0 DEF QueueTyped
  <2>2. load_queue_' = Str!Keep(load_queue_, I)
    BY <1>0
  <2>3. \A j : j # k /\ Queued(j) => \E i \in I : load_queue_[i].x = j
    BY DEF Queued
  <2>. HIDE DEF I
  <2>4. /\ load_queue_' \in Seq(LoadRequests)
        /\ \A i \in I : \E n \in DOMAIN load_queue_' : load_queue_'[n] = load_queue_[i]
    BY <2>1, <2>2, KeepKeeps
  <2>. QED
    BY <2>3, <2>4, ZenonT(30) DEF Queued
<1>3. \A j : Worked(j) => Worked(j)'
  BY <1>0 DEF Worked
<1>4. /\ DOMAIN pending_promises_' = DOMAIN pending_promises_ \ {k}
      /\ \A j \in DOMAIN pending_promises_' : pending_promises_'[j] = pending_promises_[j]
  BY <1>0 DEF Str!Without
<1>5. Attended'
  BY <1>0, <1>2, <1>3, <1>4, AttendedMeans, AttendedLater
<1>. QED
  BY <1>0, <1>1, <1>2, <1>5 DEF WaitingInv, Staffed, QueueTyped

(* Stop, after the threads have ended.                                     *)
LEMMA ClearAttended == ASSUME WaitingInv, Str!StopClear PROVE WaitingInv'
<1>1. /\ load_queue_' = <<>> /\ pending_promises_' = <<>> /\ loading_in_progress_' = {}
      /\ futures' = [i \in DOMAIN futures |-> IF futures[i] = "waits" THEN "broken" ELSE futures[i]]
      /\ UNCHANGED <<view_position_, thread, job>>
  BY DEF Str!StopClear, Str!threadVars
<1>2. /\ futures' \in Seq({"waits", "value", "cancelled", "broken"})
      /\ \A i \in DOMAIN futures' : futures'[i] # "waits"
  BY <1>1 DEF WaitingInv, PromisesKept
<1>3. DOMAIN pending_promises_' = {}
  BY <1>1
<1>4. PromisesKept'
  BY <1>2, <1>3 DEF PromisesKept, Str!WaitersKnown
<1>5. Attended'
  BY <1>1, <1>3, AttendedLater
<1>. QED
  BY <1>1, <1>4, <1>5 DEF WaitingInv, Staffed, QueueTyped

(* The new queue of UpdateViewPosition has every chunk it should have.     *)
LEMMA ListedByStream ==
    ASSUME NEW S, IsFiniteSet(S)
    PROVE  /\ Str!SetToSeq(S) \in Seq(S)
           /\ \A x \in S : \E i \in DOMAIN Str!SetToSeq(S) : Str!SetToSeq(S)[i] = x
<1>. DEFINE n == Cardinality(S)
<1>1. n \in Nat /\ ExistsBijection(1..n, S)
  BY FS_CardinalityType
<1>2. PICK f : f \in Bijection(1..n, S)
  BY <1>1 DEF ExistsBijection
<1>3. f \in [1..n -> S] /\ \A i, j \in 1..n : f[i] = f[j] => i = j
  BY <1>2 DEF Bijection, Injection, IsInjective
<1>4. /\ Str!SetToSeq(S) \in [1..n -> S]
      /\ \A i, j \in 1..n : Str!SetToSeq(S)[i] = Str!SetToSeq(S)[j] => i = j
  <2>1. Str!Cardinality(S) = n
    BY StreamSizes
  <2>. HIDE DEF n
  <2>2. f \in [1..n -> S] /\ Str!IsInjective(f)
    BY <1>3 DEF Str!IsInjective
  <2>3. Str!SetToSeq(S) \in [1..n -> S] /\ Str!IsInjective(Str!SetToSeq(S))
    BY <2>1, <2>2 DEF Str!SetToSeq
  <2>. QED
    BY <2>3 DEF Str!IsInjective
<1>5. Str!SetToSeq(S) \in Injection(1..n, S)
  BY <1>4 DEF Injection, IsInjective
<1>6. IsFiniteSet(1..n) /\ Cardinality(1..n) = n
  BY <1>1, FS_Interval
<1>7. Str!SetToSeq(S) \in Surjection(1..n, S)
  BY <1>5, <1>6, FS_Injection
<1>. HIDE DEF n
<1>8. Str!SetToSeq(S) \in Seq(S) /\ DOMAIN Str!SetToSeq(S) = 1..n
  BY <1>1, <1>4
<1>. QED
  BY <1>7, <1>8 DEF Surjection

LEMMA ViewAttended ==
    ASSUME WaitingInv, NEW v \in Views, Str!UpdateViewPosition(v)
    PROVE  WaitingInv'
<1>. DEFINE W == Str!Wanted(v)
            request == [k \in W |-> Str!Request(k, Str!CalculateLOD(k, v), v)]
            R == {Str!Request(k, Str!CalculateLOD(k, v), v) : k \in W}
<1>0. /\ UNCHANGED <<pending_promises_, loading_in_progress_, thread, job, futures>>
      /\ load_queue_' = Str!SetToSeq(R) /\ view_position_' = v
      /\ forgotten' = forgotten \cup
            {pending_promises_[k] : k \in DOMAIN pending_promises_ \ (W \cup loading_in_progress_)}
      /\ Staffed /\ PromisesKept /\ Attended
  BY DEF Str!UpdateViewPosition, WaitingInv, Str!threadVars
<1>1. /\ W \subseteq Tiles /\ IsFiniteSet(W) /\ v \in Int /\ Tiles \subseteq Int
  <2>1. W \subseteq Tiles
    BY DEF Str!Wanted, Str!Around
  <2>2. IsFiniteSet(Tiles) /\ Tiles \subseteq Int /\ v \in Int
    BY StreamAssumption, StreamFinite DEF Str!StreamConstants
  <2>. HIDE DEF W
  <2>. QED
    BY <2>1, <2>2, FS_Subset
<1>2. ASSUME NEW k \in W
      PROVE  request[k] \in LoadRequests /\ request[k] \in R /\ request[k].x = k
  <2>1. k \in Int /\ k \in Tiles
    BY <1>1
  <2>2. Str!CalculateLOD(k, v) \in {"HIGH", "LOW"}
    BY DEF Str!CalculateLOD
  <2>3. Str!CalculatePriority(k, v) \in Int
    BY <1>1, <2>1 DEF Str!CalculatePriority, Str!Far
  <2>. QED
    BY <2>1, <2>2, <2>3 DEF Str!Request, LoadRequests
<1>3. IsFiniteSet(R)
  <2>1. request \in Surjection(W, R)
    BY DEF Surjection
  <2>. HIDE DEF W, R, request
  <2>. QED
    BY <1>1, <2>1, FS_Surjection
<1>4. R \subseteq LoadRequests /\ \A k \in W : \E r \in R : r.x = k
  BY <1>2
<1>. HIDE DEF R, W, request
<1>5. load_queue_' \in Seq(LoadRequests) /\ \A r \in R : \E i \in DOMAIN load_queue_' : load_queue_'[i] = r
  <2>1. Str!SetToSeq(R) \in Seq(R) /\ \A r \in R : \E i \in DOMAIN Str!SetToSeq(R) : Str!SetToSeq(R)[i] = r
    BY <1>3, ListedByStream
  <2>. QED
    BY <1>0, <1>4, <2>1
<1>6. \A k \in W : Queued(k)'
  BY <1>4, <1>5 DEF Queued
<1>7. \A k : Worked(k) => Worked(k)'
  BY <1>0 DEF Worked
<1>8. Attended'
  BY <1>0, <1>6, <1>7, AttendedMeans, AttendedLater
<1>9. PromisesKept' /\ Staffed' /\ QueueTyped'
  BY <1>0, <1>1, <1>5 DEF PromisesKept, Str!WaitersKnown, Staffed, QueueTyped
<1>. QED
  BY <1>8, <1>9 DEF WaitingInv

(* A loader takes a request, or rests.                                     *)
LEMMA JoinedPlaces ==
    ASSUME NEW S, NEW b \in Seq(S), NEW c \in Seq(S)
    PROVE  /\ b \o c \in Seq(S) /\ DOMAIN (b \o c) = 1..(Len(b) + Len(c))
           /\ \A i \in 1..Len(b) : (b \o c)[i] = b[i]
           /\ \A i \in 1..Len(c) : (b \o c)[Len(b) + i] = c[i]
OBVIOUS

LEMMA RemovedAt ==
    ASSUME NEW S, NEW s \in Seq(S), NEW i \in DOMAIN s
    PROVE  /\ Str!RemoveAt(s, i) \in Seq(S)
           /\ \A j \in DOMAIN s : j # i =>
                 \E n \in DOMAIN Str!RemoveAt(s, i) : Str!RemoveAt(s, i)[n] = s[j]
<1>. DEFINE r == Str!RemoveAt(s, i)
            b == SubSeq(s, 1, i - 1)
            c == SubSeq(s, i + 1, Len(s))
<1>0. Len(s) \in Nat /\ DOMAIN s = 1..Len(s) /\ i \in 1..Len(s)
  OBVIOUS
<1>1. r = b \o c
  BY DEF Str!RemoveAt
<1>2. /\ b \in Seq(S) /\ Len(b) = i - 1 /\ \A j \in 1..(i - 1) : b[j] = s[j]
      /\ c \in Seq(S) /\ Len(c) = Len(s) - i /\ \A m \in 1..(Len(s) - i) : c[m] = s[i + m]
  <2>1. b \in Seq(S) /\ Len(b) = i - 1
    BY <1>0
  <2>2. \A j \in 1..(i - 1) : b[j] = s[j]
    BY <1>0
  <2>3. c \in Seq(S)
    BY <1>0
  <2>4. Len(c) = Len(s) - i
    BY <1>0
  <2>5. \A m \in 1..(Len(s) - i) : c[m] = s[i + m]
    BY <1>0
  <2>. QED
    BY <2>1, <2>2, <2>3, <2>4, <2>5
<1>. HIDE DEF r, b, c
<1>j. /\ b \o c \in Seq(S) /\ DOMAIN (b \o c) = 1..(Len(b) + Len(c))
      /\ \A n \in 1..Len(b) : (b \o c)[n] = b[n]
      /\ \A n \in 1..Len(c) : (b \o c)[Len(b) + n] = c[n]
  <2>. b \in Seq(S) /\ c \in Seq(S)
    BY <1>2
  <2>. QED
    BY JoinedPlaces
<1>3. r \in Seq(S) /\ DOMAIN r = 1..(Len(s) - 1)
  <2>1. Len(b) + Len(c) = Len(s) - 1
    BY <1>0, <1>2
  <2>. QED
    BY <1>1, <1>j, <2>1, Zenon
<1>4. ASSUME NEW j \in DOMAIN s, j # i
      PROVE  \E n \in DOMAIN r : r[n] = s[j]
  <2>0. j \in 1..Len(s)
    BY <1>0
  <2>1. CASE j < i
    <3>1. j \in 1..(i - 1) /\ j \in DOMAIN r
      BY <1>0, <1>3, <2>0, <2>1
    <3>2. r[j] = b[j] /\ b[j] = s[j]
      <4>1. j \in 1..Len(b)
        BY <1>2, <3>1
      <4>. QED
        BY <1>1, <1>2, <1>j, <3>1, <4>1, Zenon
    <3>. QED
      BY <3>1, <3>2
  <2>2. CASE j > i
    <3>. DEFINE m == j - i
    <3>1. m \in 1..(Len(s) - i) /\ i + m = j /\ (i - 1) + m = j - 1 /\ j - 1 \in DOMAIN r
      BY <1>0, <1>3, <2>0, <2>2
    <3>. HIDE DEF m
    <3>2. (b \o c)[Len(b) + m] = c[m]
      <4>1. m \in 1..Len(c)
        BY <1>2, <3>1
      <4>. QED
        BY <1>j, <4>1, Zenon
    <3>3. Len(b) + m = j - 1 /\ c[m] = s[j]
      BY <1>2, <3>1
    <3>. QED
      BY <1>1, <3>1, <3>2, <3>3
  <2>. QED
    BY <1>0, <1>4, <2>0, <2>1, <2>2
<1>. QED
  BY <1>3, <1>4 DEF r

LEMMA LoaderTestsAttended ==
    ASSUME WaitingInv, NEW t \in Loaders, Str!LoaderTests(t)
    PROVE  WaitingInv'
<1>0. /\ UNCHANGED <<pending_promises_, view_position_, futures, forgotten>>
      /\ thread[t] = "tests" /\ Staffed /\ QueueTyped /\ PromisesKept /\ Attended
  BY DEF Str!LoaderTests, WaitingInv, Str!historyVars
<1>1. CASE running_ /\ load_queue_ # <<>>
  <2>1. PICK i \in DOMAIN load_queue_ :
            /\ load_queue_' = Str!RemoveAt(load_queue_, i)
            /\ loading_in_progress_' = loading_in_progress_ \cup {load_queue_[i].x}
            /\ Str!Goes(t, "cache", [x |-> load_queue_[i].x, lod |-> load_queue_[i].lod, chunk |-> <<>>])
    BY <1>1 DEF Str!LoaderTests, Str!Foremost
  <2>2. /\ load_queue_' \in Seq(LoadRequests)
        /\ \A j \in DOMAIN load_queue_ : j # i =>
              \E n \in DOMAIN load_queue_' : load_queue_'[n] = load_queue_[j]
    BY <1>0, <2>1, RemovedAt DEF QueueTyped
  <2>3. /\ Staffed' /\ thread'[t] = "cache" /\ job'[t].x = load_queue_[i].x
        /\ \A u \in Loaders \cup Unloaders : u # t => thread'[u] = thread[u] /\ job'[u] = job[u]
    BY <1>0, <2>1, ThreadGoes
  <2>a. WorkGoesOn
    BY <1>0, <2>3 DEF WorkGoesOn, Resting
  <2>b. \A k : k = load_queue_[i].x => Worked(k)'
    BY <2>3 DEF Worked, Resting
  <2>4. \A k : Worked(k) => Worked(k)'
    BY <2>a, WorkKept
  <2>5. ASSUME NEW k, Queued(k) PROVE Queued(k)' \/ Worked(k)'
    <3>1. PICK j \in DOMAIN load_queue_ : load_queue_[j].x = k
      BY <2>5 DEF Queued
    <3>2. CASE j = i
      BY <2>b, <3>1, <3>2
    <3>3. CASE j # i
      BY <2>2, <3>1, <3>3 DEF Queued
    <3>. QED
      BY <3>2, <3>3
  <2>6. Attended'
    BY <1>0, <2>1, <2>b, <2>4, <2>5, AttendedMeans, AttendedLater
  <2>7. PromisesKept' /\ QueueTyped'
    BY <1>0, <2>2 DEF PromisesKept, Str!WaitersKnown, QueueTyped
  <2>. QED
    BY <2>3, <2>6, <2>7 DEF WaitingInv
<1>2. CASE ~(running_ /\ load_queue_ # <<>>)
  <2>1. /\ Str!Goes(t, IF running_ THEN "asleep" ELSE "off", Str!Idle)
        /\ UNCHANGED <<load_queue_, loading_in_progress_>>
    BY <1>2 DEF Str!LoaderTests
  <2>2. /\ Staffed'
        /\ \A u \in Loaders \cup Unloaders : u # t => thread'[u] = thread[u] /\ job'[u] = job[u]
    BY <1>0, <2>1, ThreadGoes DEF Str!Idle
  <2>3. WorkGoesOn
    BY <1>0, <2>2 DEF WorkGoesOn, Resting
  <2>. QED
    BY <1>0, <2>1, <2>2, <2>3, GoingOn DEF BooksStay
<1>. QED
  BY <1>1, <1>2

(* A loader that has work goes on with it.                                 *)
LEMMA LoaderMovesOn ==
    ASSUME WaitingInv, NEW t \in Loaders, thread[t] \notin Resting, NEW pc, pc \notin Resting,
           NEW j, Str!Goes(t, pc, j), DOMAIN j = {"x", "lod", "chunk"}, j.x = job[t].x, BooksStay
    PROVE  WaitingInv'
<1>1. /\ Staffed' /\ thread'[t] = pc /\ job'[t] = j
      /\ \A u \in Loaders \cup Unloaders : u # t => thread'[u] = thread[u] /\ job'[u] = job[u]
  BY ThreadGoes DEF WaitingInv
<1>2. WorkGoesOn
  BY <1>1 DEF WorkGoesOn
<1>. QED
  BY <1>1, <1>2, GoingOn

LEMMA JobKept ==
    ASSUME Staffed, NEW t \in Loaders \cup Unloaders, NEW chunk0
    PROVE  /\ DOMAIN [job[t] EXCEPT !.chunk = chunk0] = {"x", "lod", "chunk"}
           /\ [job[t] EXCEPT !.chunk = chunk0].x = job[t].x
           /\ [job[t] EXCEPT !.chunk = chunk0].chunk = chunk0
BY DEF Staffed

LEMMA LoaderWorksAttended ==
    ASSUME WaitingInv, NEW t \in Loaders,
           Str!TryCache(t) \/ Str!AcquireChunk(t) \/ Str!Clean(t) \/ Str!Create(t)
    PROVE  WaitingInv'
<1>1. BooksStay /\ Staffed /\ thread[t] \notin Resting /\ DOMAIN job[t] = {"x", "lod", "chunk"}
  BY DEF Str!TryCache, Str!AcquireChunk, Str!Clean, Str!Create, Str!queueVars, Str!historyVars, BooksStay,
         WaitingInv, Staffed, Resting
<1>2. \/ \E key : Str!Goes(t, "loaded", [job[t] EXCEPT !.chunk = key])
      \/ \E pc \in {"pool", "cleans", "creates"} : Str!Goes(t, pc, job[t])
  BY DEF Str!TryCache, Str!AcquireChunk, Str!Clean, Str!Create, Str!Holds
<1>3. ASSUME NEW key, Str!Goes(t, "loaded", [job[t] EXCEPT !.chunk = key]) PROVE WaitingInv'
  <2>. DEFINE j == [job[t] EXCEPT !.chunk = key]
  <2>1. DOMAIN j = {"x", "lod", "chunk"} /\ j.x = job[t].x
    BY <1>1, JobKept
  <2>2. Str!Goes(t, "loaded", j) /\ "loaded" \notin Resting
    BY <1>3 DEF Resting
  <2>. HIDE DEF j
  <2>. QED
    BY <1>1, <2>1, <2>2, LoaderMovesOn
<1>4. ASSUME NEW pc \in {"pool", "cleans", "creates"}, Str!Goes(t, pc, job[t]) PROVE WaitingInv'
  <2>1. pc \notin Resting
    BY DEF Resting
  <2>. QED
    BY <1>1, <1>4, <2>1, LoaderMovesOn
<1>. QED
  BY <1>2, <1>3, <1>4

(* The chunk has come: whoever waits for it is told.                       *)
LEMMA FulfilAttended ==
    ASSUME WaitingInv, NEW t \in Loaders, Str!Fulfil(t)
    PROVE  WaitingInv'
<1>. DEFINE k == job[t].x
<1>0. /\ UNCHANGED <<load_queue_, view_position_, forgotten>>
      /\ loading_in_progress_' = loading_in_progress_ \ {k}
      /\ Str!Goes(t, "tests", Str!Idle)
      /\ Staffed /\ QueueTyped /\ PromisesKept /\ Attended
  BY DEF Str!Fulfil, WaitingInv
<1>1. /\ Staffed'
      /\ \A u \in Loaders \cup Unloaders : u # t => thread'[u] = thread[u] /\ job'[u] = job[u]
  BY <1>0, ThreadGoes DEF Str!Idle
<1>2. /\ PromisesKept' /\ k \notin DOMAIN pending_promises_'
      /\ \A j \in DOMAIN pending_promises_' :
            j \in DOMAIN pending_promises_ /\ pending_promises_'[j] = pending_promises_[j]
  <2>1. CASE k \in DOMAIN pending_promises_
    <3>1. /\ futures' = Str!Resolved(pending_promises_[k], "value")
          /\ pending_promises_' = Str!Without(pending_promises_, k)
      BY <2>1 DEF Str!Fulfil, Str!Answered
    <3>2. PromisesKept'
      BY <1>0, <2>1, <3>1, AnsweredKeeps
    <3>. QED
      BY <3>1, <3>2 DEF Str!Without
  <2>2. CASE k \notin DOMAIN pending_promises_
    <3>1. UNCHANGED <<futures, pending_promises_>>
      BY <2>2 DEF Str!Fulfil, Str!Answered
    <3>. QED
      BY <1>0, <2>2, <3>1 DEF PromisesKept, Str!WaitersKnown
  <2>. QED
    BY <2>1, <2>2
<1>3. \A j : j # k /\ Worked(j) => Worked(j)'
  BY <1>1 DEF Worked
<1>4. \A j : Queued(j) => Queued(j)'
  BY <1>0 DEF Queued
<1>5. Attended'
  BY <1>0, <1>2, <1>3, <1>4, AttendedMeans, AttendedLater
<1>. QED
  BY <1>0, <1>1, <1>2, <1>5 DEF WaitingInv, QueueTyped

(* What unloaders do is no loader's work.                                  *)
LEMMA UnloaderAttended ==
    ASSUME WaitingInv, NEW t \in Unloaders, Str!UnloaderTests(t) \/ Str!Unload(t) \/ Str!Release(t)
    PROVE  WaitingInv'
<1>1. t \notin Loaders
  BY StreamAssumption DEF Str!StreamConstants
<1>2. BooksStay
  BY DEF Str!UnloaderTests, Str!Unload, Str!Release, Str!queueVars, Str!historyVars, BooksStay
<1>3. \E pc, j : Str!Goes(t, pc, j) /\ DOMAIN j = {"x", "lod", "chunk"}
  <2>1. Staffed /\ DOMAIN Str!Idle = {"x", "lod", "chunk"}
    BY DEF WaitingInv, Str!Idle
  <2>2. CASE Str!UnloaderTests(t)
    <3>1. DOMAIN [Str!Idle EXCEPT !.x = Head(unload_queue_)] = {"x", "lod", "chunk"}
      BY <2>1
    <3>. QED
      BY <2>1, <2>2, <3>1 DEF Str!UnloaderTests
  <2>3. CASE Str!Unload(t)
    BY <2>1, <2>3, JobKept DEF Str!Unload
  <2>4. CASE Str!Release(t)
    BY <2>1, <2>4 DEF Str!Release
  <2>. QED
    BY <2>2, <2>3, <2>4
<1>4. PICK pc, j : Str!Goes(t, pc, j) /\ DOMAIN j = {"x", "lod", "chunk"}
  BY <1>3
<1>5. /\ Staffed'
      /\ \A u \in Loaders \cup Unloaders : u # t => thread'[u] = thread[u] /\ job'[u] = job[u]
  BY <1>4, ThreadGoes DEF WaitingInv
<1>6. WorkGoesOn
  BY <1>1, <1>5 DEF WorkGoesOn
<1>. QED
  BY <1>2, <1>5, <1>6, GoingOn

(* Start, the notification of Stop and UnloadChunk wake threads up.        *)
LEMMA WakingAttended ==
    ASSUME WaitingInv, Str!Start \/ Str!StopNotify \/ \E k \in Tiles : Str!UnloadChunk(k)
    PROVE  WaitingInv'
<1>1. BooksStay /\ job' = job /\ Staffed
  BY DEF Str!Start, Str!StopNotify, Str!UnloadChunk, Str!historyVars, BooksStay, WaitingInv
<1>2. Staffed' /\ WorkGoesOn
  <2>1. CASE Str!Start
    BY <1>1, <2>1 DEF Str!Start, Str!Ended, Staffed, WorkGoesOn, Resting
  <2>2. CASE Str!StopNotify
    <3>1. PICK deaf : thread' = [t \in DOMAIN thread |-> IF thread[t] = "asleep" /\ t \notin deaf
                                                         THEN "tests" ELSE thread[t]]
      BY <2>2 DEF Str!StopNotify
    <3>. QED
      BY <1>1, <3>1 DEF Staffed, WorkGoesOn, Resting
  <2>3. CASE \E k \in Tiles : Str!UnloadChunk(k)
    BY <1>1, <2>3, Notified DEF Str!UnloadChunk
  <2>. QED
    BY <2>1, <2>2, <2>3
<1>. QED
  BY <1>1, <1>2, GoingOn

LEMMA WaitingStep == WaitingInv /\ [Str!StreamNext]_streamVars => WaitingInv'
<1>. SUFFICES ASSUME WaitingInv, [Str!StreamNext]_streamVars PROVE WaitingInv'
  OBVIOUS
<1>1. CASE UNCHANGED streamVars \/ Str!CleanupLoop
  <2>1. BooksStay /\ UNCHANGED <<thread, job>>
    BY <1>1 DEF streamVars, Str!CleanupLoop, BooksStay, Str!queueVars, Str!historyVars, Str!threadVars
  <2>2. Staffed' /\ WorkGoesOn
    BY <2>1 DEF WaitingInv, Staffed, WorkGoesOn
  <2>. QED
    BY <2>1, <2>2, GoingOn
<1>2. CASE Str!Start \/ Str!StopNotify \/ \E k \in Tiles : Str!UnloadChunk(k)
  BY <1>2, WakingAttended
<1>3. CASE Str!StopClear
  BY <1>3, ClearAttended
<1>4. CASE \E k \in Tiles : Str!RequestChunk(k) \/ Str!CancelRequest(k)
  BY <1>4, RequestAttended, CancelAttended
<1>5. CASE \E v \in Views : Str!UpdateViewPosition(v)
  BY <1>5, ViewAttended
<1>6. CASE \E t \in Loaders : \/ Str!LoaderTests(t) \/ Str!TryCache(t) \/ Str!AcquireChunk(t)
                              \/ Str!Clean(t) \/ Str!Create(t) \/ Str!Fulfil(t)
  BY <1>6, LoaderTestsAttended, LoaderWorksAttended, FulfilAttended
<1>7. CASE \E t \in Unloaders : Str!UnloaderTests(t) \/ Str!Unload(t) \/ Str!Release(t)
  BY <1>7, UnloaderAttended
<1>. QED
  BY <1>1, <1>2, <1>3, <1>4, <1>5, <1>6, <1>7 DEF Str!StreamNext

(* The chunk pool.  Its keys are finitely many, and what is available is a *)
(* list of them.                                                           *)
Listing(s) == s \in Seq({s[i] : i \in DOMAIN s})
PoolTyped ==
    /\ IsFiniteSet(DOMAIN chunk_pool_)
    /\ \A key \in DOMAIN chunk_pool_ : /\ DOMAIN chunk_pool_[key] = {"chunk", "is_active"}
                                       /\ chunk_pool_[key].is_active \in BOOLEAN
    /\ Listing(available_chunks_) /\ memory_usage_ \in Int
PoolIInv == PoolTyped /\ Str!PoolBooks

(* The books, key by key.                                                  *)
LEMMA BooksMean ==
    Str!PoolBooks <=>
        /\ \A key : key \in active_chunks_ <=>
               key \in DOMAIN chunk_pool_ /\ chunk_pool_[key].is_active
        /\ \A key \in DOMAIN chunk_pool_ : ~chunk_pool_[key].is_active =>
               \E i \in DOMAIN available_chunks_ : available_chunks_[i] = key
        /\ memory_usage_ >= Cardinality(DOMAIN chunk_pool_)
BY StreamSizes DEF Str!PoolBooks, Str!Unused, Str!ToSet

LEMMA BooksMeanLater ==
    Str!PoolBooks' <=>
        /\ \A key : key \in active_chunks_' <=>
               key \in DOMAIN chunk_pool_' /\ chunk_pool_'[key].is_active
        /\ \A key \in DOMAIN chunk_pool_' : ~chunk_pool_'[key].is_active =>
               \E i \in DOMAIN available_chunks_' : available_chunks_'[i] = key
        /\ memory_usage_' >= Cardinality(DOMAIN chunk_pool_')
BY StreamSizes DEF Str!PoolBooks, Str!Unused, Str!ToSet

LEMMA ListingOf == ASSUME NEW S, NEW s \in Seq(S) PROVE Listing(s)
BY DEF Listing

LEMMA AddKeepsBooks ==
    ASSUME PoolIInv, NEW key, Str!AddToPool(key), available_chunks_' = available_chunks_
    PROVE  PoolIInv'
<1>. DEFINE P == DOMAIN chunk_pool_
<1>1. /\ DOMAIN chunk_pool_' = P \cup {key}
      /\ chunk_pool_'[key] = [chunk |-> key, is_active |-> TRUE]
      /\ \A k \in P : k # key => chunk_pool_'[k] = chunk_pool_[k]
      /\ active_chunks_' = active_chunks_ \cup {key} /\ memory_usage_' = memory_usage_ + 1
  BY DEF Str!AddToPool, Str!With
<1>2. IsFiniteSet(P) /\ Cardinality(P) \in Nat
  BY FS_CardinalityType DEF PoolIInv, PoolTyped
<1>3. /\ IsFiniteSet(P \cup {key})
      /\ Cardinality(P \cup {key}) \in {Cardinality(P), Cardinality(P) + 1}
  BY <1>2, FS_AddElement
<1>4. PoolTyped'
  <2>1. Listing(available_chunks_)' /\ memory_usage_' \in Int
    BY <1>1 DEF PoolIInv, PoolTyped, Listing
  <2>2. /\ DOMAIN [chunk |-> key, is_active |-> TRUE] = {"chunk", "is_active"}
        /\ [chunk |-> key, is_active |-> TRUE].is_active \in BOOLEAN
    OBVIOUS
  <2>3. \A k \in P \cup {key} : /\ DOMAIN chunk_pool_'[k] = {"chunk", "is_active"}
                                /\ chunk_pool_'[k].is_active \in BOOLEAN
    BY <1>1, <2>2 DEF PoolIInv, PoolTyped
  <2>. HIDE DEF P
  <2>. QED
    BY <1>1, <1>3, <2>1, <2>3 DEF PoolTyped
<1>5. memory_usage_' >= Cardinality(DOMAIN chunk_pool_')
  <2>1. memory_usage_ \in Int /\ memory_usage_ >= Cardinality(P)
    BY BooksMean DEF PoolIInv, PoolTyped
  <2>2. DOMAIN chunk_pool_' = P \cup {key} /\ memory_usage_' = memory_usage_ + 1
    BY <1>1
  <2>. HIDE DEF P
  <2>. QED
    BY <1>2, <1>3, <2>1, <2>2
<1>6. Str!PoolBooks'
  BY <1>1, <1>5, BooksMean, BooksMeanLater DEF PoolIInv
<1>. QED
  BY <1>4, <1>6 DEF PoolIInv

(* The chunk at key is taken into use or out of it.                        *)
LEMMA MarkKeepsBooks ==
    ASSUME PoolIInv, NEW key \in DOMAIN chunk_pool_, Str!MarkActive(key)
    PROVE  PoolIInv'
<1>1. /\ DOMAIN chunk_pool_' = DOMAIN chunk_pool_
      /\ \A k \in DOMAIN chunk_pool_ : DOMAIN chunk_pool_'[k] = DOMAIN chunk_pool_[k]
      /\ chunk_pool_'[key].is_active = TRUE
      /\ \A k \in DOMAIN chunk_pool_ : k # key => chunk_pool_'[k] = chunk_pool_[k]
      /\ active_chunks_' = active_chunks_ \cup {key} /\ memory_usage_' = memory_usage_
  BY DEF Str!MarkActive, PoolIInv, PoolTyped
<1>2. /\ Listing(available_chunks_)'
      /\ \A i \in DOMAIN available_chunks_ : available_chunks_[i] # key =>
            \E n \in DOMAIN available_chunks_' : available_chunks_'[n] = available_chunks_[i]
  <2>. DEFINE S == {available_chunks_[i] : i \in DOMAIN available_chunks_}
              I == {i \in DOMAIN available_chunks_ : available_chunks_[i] # key}
  <2>1. available_chunks_ \in Seq(S)
    BY DEF PoolIInv, PoolTyped, Listing
  <2>. HIDE DEF S
  <2>2. I \in SUBSET (1..Len(available_chunks_)) /\ available_chunks_' = Str!Keep(available_chunks_, I)
    BY <2>1 DEF Str!MarkActive
  <2>3. \A i \in DOMAIN available_chunks_ : available_chunks_[i] # key => i \in I
    OBVIOUS
  <2>. HIDE DEF I
  <2>. QED
    BY <2>1, <2>2, <2>3, KeepKeeps, ListingOf
<1>3. PoolTyped'
  BY <1>1, <1>2 DEF PoolIInv, PoolTyped
<1>4. Str!PoolBooks'
  BY <1>1, <1>2, BooksMean, BooksMeanLater DEF PoolIInv
<1>. QED
  BY <1>3, <1>4 DEF PoolIInv

LEMMA ReleaseKeepsBooks ==
    ASSUME PoolIInv, NEW key, Str!ReleaseChunk(key)
    PROVE  PoolIInv'
<1>1. CASE key \in DOMAIN chunk_pool_
  <2>1. /\ DOMAIN chunk_pool_' = DOMAIN chunk_pool_
        /\ \A k \in DOMAIN chunk_pool_ : DOMAIN chunk_pool_'[k] = DOMAIN chunk_pool_[k]
        /\ chunk_pool_'[key].is_active = FALSE
        /\ \A k \in DOMAIN chunk_pool_ : k # key => chunk_pool_'[k] = chunk_pool_[k]
        /\ active_chunks_' = active_chunks_ \ {key} /\ memory_usage_' = memory_usage_
    BY <1>1 DEF Str!ReleaseChunk, PoolIInv, PoolTyped
  <2>2. /\ Listing(available_chunks_)'
        /\ \A i \in DOMAIN available_chunks_ :
              i \in DOMAIN available_chunks_' /\ available_chunks_'[i] = available_chunks_[i]
        /\ \E i \in DOMAIN available_chunks_' : available_chunks_'[i] = key
    <3>. DEFINE S == {available_chunks_[i] : i \in DOMAIN available_chunks_}
    <3>1. available_chunks_ \in Seq(S) /\ available_chunks_' = Append(available_chunks_, key)
      BY <1>1 DEF PoolIInv, PoolTyped, Listing, Str!ReleaseChunk
    <3>. HIDE DEF S
    <3>2. available_chunks_ \in Seq(S \cup {key}) /\ key \in S \cup {key}
      BY <3>1
    <3>3. available_chunks_' \in Seq(S \cup {key})
      BY <3>1, <3>2
    <3>4. /\ available_chunks_'[Len(available_chunks_) + 1] = key
          /\ Len(available_chunks_) + 1 \in DOMAIN available_chunks_'
          /\ \A i \in DOMAIN available_chunks_ :
                i \in DOMAIN available_chunks_' /\ available_chunks_'[i] = available_chunks_[i]
      BY <3>1, <3>2
    <3>. QED
      BY <3>3, <3>4, ListingOf
  <2>3. PoolTyped'
    BY <2>1, <2>2 DEF PoolIInv, PoolTyped
  <2>4. Str!PoolBooks'
    BY <2>1, <2>2, BooksMean, BooksMeanLater DEF PoolIInv
  <2>. QED
    BY <2>3, <2>4 DEF PoolIInv
<1>2. CASE key \notin DOMAIN chunk_pool_
  BY <1>2, BooksMean, BooksMeanLater DEF Str!ReleaseChunk, Str!poolVars, PoolIInv, PoolTyped, Listing
<1>. QED
  BY <1>1, <1>2

(* CleanupUnused takes only chunks that are not in use.                    *)
LEMMA CleanKeepsBooks ==
    ASSUME PoolIInv, NEW n, Str!CleanupUnused(n)
    PROVE  PoolIInv'
<1>. DEFINE P == DOMAIN chunk_pool_
            V == Str!Victims(n)
<1>1. /\ DOMAIN chunk_pool_' = P \ V
      /\ \A k \in P \ V : chunk_pool_'[k] = chunk_pool_[k]
      /\ active_chunks_' = active_chunks_ /\ memory_usage_' = memory_usage_ - Cardinality(V)
  BY StreamSizes DEF Str!CleanupUnused
<1>2. V \in SUBSET P /\ \A k \in V : ~chunk_pool_[k].is_active
  BY DEF Str!Victims, Str!Unused
<1>3. /\ Listing(available_chunks_)'
      /\ \A i \in DOMAIN available_chunks_ : available_chunks_[i] \notin V =>
            \E m \in DOMAIN available_chunks_' : available_chunks_'[m] = available_chunks_[i]
  <2>. DEFINE S == {available_chunks_[i] : i \in DOMAIN available_chunks_}
              I == {i \in DOMAIN available_chunks_ : available_chunks_[i] \notin V}
  <2>1. available_chunks_ \in Seq(S)
    BY DEF PoolIInv, PoolTyped, Listing
  <2>. HIDE DEF S
  <2>2. I \in SUBSET (1..Len(available_chunks_)) /\ available_chunks_' = Str!Keep(available_chunks_, I)
    BY <2>1 DEF Str!CleanupUnused
  <2>3. \A i \in DOMAIN available_chunks_ : available_chunks_[i] \notin V => i \in I
    OBVIOUS
  <2>. HIDE DEF I, V
  <2>. QED
    BY <2>1, <2>2, <2>3, KeepKeeps, ListingOf
<1>. HIDE DEF V
<1>4. /\ IsFiniteSet(P \ V) /\ Cardinality(P) \in Nat /\ Cardinality(V) \in Nat
      /\ Cardinality(P \ V) = Cardinality(P) - Cardinality(V)
  <2>1. IsFiniteSet(P)
    BY DEF PoolIInv, PoolTyped
  <2>2. IsFiniteSet(V) /\ P \cap V = V
    BY <1>2, <2>1, FS_Subset
  <2>. HIDE DEF P
  <2>. QED
    BY <2>1, <2>2, FS_Difference, FS_CardinalityType
<1>5. memory_usage_' >= Cardinality(DOMAIN chunk_pool_') /\ memory_usage_' \in Int
  <2>1. memory_usage_ \in Int /\ memory_usage_ >= Cardinality(P)
    BY BooksMean DEF PoolIInv, PoolTyped
  <2>. QED
    BY <1>1, <1>4, <2>1
<1>6. PoolTyped'
  BY <1>1, <1>3, <1>4, <1>5 DEF PoolIInv, PoolTyped
<1>7. Str!PoolBooks'
  BY <1>1, <1>2, <1>3, <1>5, BooksMean, BooksMeanLater DEF PoolIInv
<1>. QED
  BY <1>6, <1>7 DEF PoolIInv

LEMMA PoolStep == PoolIInv /\ [Str!StreamNext]_streamVars => PoolIInv'
<1>. SUFFICES ASSUME PoolIInv, [Str!StreamNext]_streamVars PROVE PoolIInv'
  OBVIOUS
<1>0. ASSUME UNCHANGED Str!poolVars PROVE PoolIInv'
  BY <1>0, BooksMean, BooksMeanLater DEF Str!poolVars, PoolIInv, PoolTyped, Listing
<1>1. CASE UNCHANGED streamVars
  BY <1>0, <1>1 DEF streamVars, Str!poolVars
<1>2. CASE \/ Str!Start \/ Str!StopNotify \/ Str!StopClear
           \/ \E k \in Tiles : Str!RequestChunk(k) \/ Str!CancelRequest(k) \/ Str!UnloadChunk(k)
           \/ \E v \in Views : Str!UpdateViewPosition(v)
  BY <1>0, <1>2 DEF Str!Start, Str!StopNotify, Str!StopClear, Str!RequestChunk, Str!CancelRequest,
                    Str!UnloadChunk, Str!UpdateViewPosition
<1>3. CASE \/ \E t \in Loaders : Str!LoaderTests(t) \/ Str!TryCache(t) \/ Str!Fulfil(t)
           \/ \E t \in Unloaders : Str!UnloaderTests(t) \/ Str!Unload(t)
  BY <1>0, <1>3 DEF Str!LoaderTests, Str!TryCache, Str!Fulfil, Str!UnloaderTests, Str!Unload
<1>4. CASE Str!CleanupLoop \/ \E t \in Loaders : Str!Clean(t)
  BY <1>4, CleanKeepsBooks DEF Str!CleanupLoop, Str!Clean
<1>5. CASE \E t \in Loaders : Str!AcquireChunk(t)
  BY <1>0, <1>5, MarkKeepsBooks, AddKeepsBooks DEF Str!AcquireChunk
<1>6. CASE \E t \in Loaders : Str!Create(t)
  BY <1>6, AddKeepsBooks DEF Str!Create
<1>7. CASE \E t \in Unloaders : Str!Release(t)
  BY <1>7, ReleaseKeepsBooks DEF Str!Release
<1>. QED
  BY <1>1, <1>2, <1>3, <1>4, <1>5, <1>6, <1>7 DEF Str!StreamNext

(* The streamer starts with placeholders in the pool and nothing asked.    *)
LEMMA StreamStart == Str!StreamInit => WaitingInv /\ PoolIInv
<1>. SUFFICES ASSUME Str!StreamInit PROVE WaitingInv /\ PoolIInv
  OBVIOUS
<1>1. Staffed /\ QueueTyped
  BY DEF Str!StreamInit, Str!Idle, Staffed, QueueTyped
<1>2. PromisesKept /\ Attended
  BY DEF Str!StreamInit, PromisesKept, Attended, Str!WaitersKnown, Str!NothingForgotten, Str!InProgress
<1>. DEFINE N == initial_pool_size_
            name == [i \in 1..N |-> Str!Placeholder(i)]
            P == {Str!Placeholder(i) : i \in 1..N}
<1>3. /\ DOMAIN chunk_pool_ = P /\ active_chunks_ = P /\ memory_usage_ = N
      /\ \A k \in P : chunk_pool_[k] = [chunk |-> k, is_active |-> TRUE]
      /\ available_chunks_ = <<>>
  BY DEF Str!StreamInit
<1>4. IsFiniteSet(P) /\ Cardinality(P) \in Nat /\ Cardinality(P) <= N /\ N \in Nat
  <2>1. N \in Nat
    BY StreamAssumption DEF Str!StreamConstants
  <2>2. IsFiniteSet(1..N) /\ Cardinality(1..N) = N
    BY <2>1, FS_Interval
  <2>3. name \in Surjection(1..N, P)
    BY DEF Surjection
  <2>. HIDE DEF N, P, name
  <2>. QED
    BY <2>1, <2>2, <2>3, FS_Surjection, FS_CardinalityType
<1>. HIDE DEF P, N
<1>5. PoolTyped
  <2>1. Listing(<<>>)
    BY <<>> \in Seq({0}), ListingOf
  <2>2. \A k \in P : /\ DOMAIN chunk_pool_[k] = {"chunk", "is_active"}
                     /\ chunk_pool_[k].is_active \in BOOLEAN
    <3>1. ASSUME NEW r, NEW k, r = [chunk |-> k, is_active |-> TRUE]
          PROVE  DOMAIN r = {"chunk", "is_active"} /\ r.is_active \in BOOLEAN
      BY <3>1
    <3>. QED
      BY <1>3, <3>1
  <2>. QED
    BY <1>3, <1>4, <2>1, <2>2 DEF PoolTyped
<1>6. Str!PoolBooks
  BY <1>3, <1>4, BooksMean
<1>. QED
  BY <1>1, <1>2, <1>5, <1>6 DEF WaitingInv, PoolIInv

(* Whoever waits for a chunk is waited for, whatever the callers ask,      *)
(* cancel and look at and however the loaders interleave, and the books of *)
(* the chunk pool agree (ChunkStreamer, ChunkPool).                        *)
THEOREM ChunksAreAwaited == Spec => []StreamInv
<1>. DEFINE StreamIInv == WaitingInv /\ PoolIInv
<1>1. Init => StreamIInv
  BY StreamStart DEF Init
<1>2. StreamIInv /\ [Next]_vars => StreamIInv'
  <2>1. [Next]_vars => [Str!StreamNext]_streamVars
    BY DEF Next, RulesStep, BodiesStep, vars
  <2>. QED
    BY <2>1, WaitingStep, PoolStep
<1>3. StreamIInv => StreamInv
  BY DEF StreamInv, Str!StreamInv, WaitingInv, Attended, PromisesKept, PoolIInv
<1>. QED
  BY <1>1, <1>2, <1>3, PTL DEF Spec
=============================================================================
