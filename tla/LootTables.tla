----------------------------- MODULE LootTables -----------------------------
(***************************************************************************)
(* LootTableManager: the tables, drawing loot from one of them, and the    *)
(* draw from a table that is registered for the draw only.  Several        *)
(* threads draw: the io thread (CreateLootEntity) and the NPC loop         *)
(* (DropLoot).                                                             *)
(*                                                                         *)
(* tablesMutex_ is taken for each step and given back between them: what   *)
(* GetTable returned is a pointer into the map, and GenerateLoot locks     *)
(* again before it reads it.  A weight is kept as positive or not, a       *)
(* random number as any value of its range.  Of an item the rarity is      *)
(* kept, not the level, the quantity, stats, modifiers and colour.         *)
(***************************************************************************)
EXTENDS Integers, FiniteSetsExt, SequencesExt

CONSTANTS
    Drawers,      \* the threads
    Tables,       \* the tables there may be; a dropChance is in percent
    PlayerLevels, \* levels of those who draw
    Reputations,  \* their factionRep: functions from factions to numbers
    MaxLootCalls  \* bound on the calls

LootEntry ==
    [dropChance : Int, minLevel : Int, maxLevel : Int, minRarity : Int, maxRarity : Int,
     requiredQuest : STRING, requiredFaction : STRING, factionRepRequired : Int]
LootTable ==
    [tableId : STRING, entries : Seq(LootEntry), guaranteedDrops : Int, maxDrops : Int,
     uniqueDrops : BOOLEAN]
LootConstants == Tables \subseteq LootTable

VARIABLES
    lootTables, \* lootTables_: at most one table for each id
    lootFile,   \* the tables in loot_tables.json
    asked,      \* the ids loaded from the file, or in it
    draw,       \* what each thread is doing
    lootCalls   \* so far

lootVars == <<lootTables, lootFile, asked, draw, lootCalls>>

NoTable == [tableId |-> "none"]
Idle == [at |-> "idle", table |-> NoTable, temporary |-> FALSE, gone |-> FALSE,
         level |-> 0, rep |-> <<>>, loot |-> <<>>]

WithId(id) == {t \in lootTables : t.tableId = id}
LootIds(tables) == {t.tableId : t \in tables}
Registered(tables, table) == {t \in tables : t.tableId # table.tableId} \cup {table}

LootTablesInit ==
    /\ lootTables = {}
    /\ lootFile \in {{t} : t \in Tables}
    /\ asked = {}
    /\ draw = [d \in Drawers |-> Idle]
    /\ lootCalls = 0

-----------------------------------------------------------------------------
(* What a draw may give                                                    *)

(* No quest is ever taken as done.                                         *)
PlayerMeetsRequirements(entry, level, rep) ==
    /\ level \in entry.minLevel .. entry.maxLevel
    /\ entry.requiredQuest = ""
    /\ \/ entry.requiredFaction = ""
       \/ /\ entry.requiredFaction \in DOMAIN rep
          /\ rep[entry.requiredFaction] >= entry.factionRepRequired

(* The luck of every caller is 1.  Below the player, an entry loses a      *)
(* twentieth of its chance with each level; above, it keeps some.          *)
CalculateAdjustedDropChance(baseChance, level, itemLevel) ==
    IF itemLevel >= level THEN baseChance
    ELSE Max({0, baseChance * (20 - (level - itemLevel))})

(* GenerateRarity: between the two, whichever is larger.                   *)
GenerateRarity(entry) ==
    Min({entry.minRarity, entry.maxRarity}) .. Max({entry.minRarity, entry.maxRarity})

CreateItemFromEntry(i, entry) == [entry : {i}, rarity : GenerateRarity(entry)]

(* The indices of the entries that drop for sure, in the table's order.    *)
GuaranteedIndices(table, level, rep) ==
    LET Sure(i) == /\ table.entries[i].dropChance >= 100
                   /\ PlayerMeetsRequirements(table.entries[i], level, rep)
        sure[i \in 0..Len(table.entries)] ==
            IF i = 0 THEN <<>>
            ELSE IF Len(sure[i - 1]) < table.guaranteedDrops /\ Sure(i) THEN Append(sure[i - 1], i)
            ELSE sure[i - 1]
    IN  sure[Len(table.entries)]

(* The sets of entries that may have a weight: each rolls the level that   *)
(* decides it.                                                             *)
EligibleSets(table, level, rep) ==
    LET sure == ToSet(GuaranteedIndices(table, level, rep))
        open == {i \in DOMAIN table.entries :
                    /\ ~(table.uniqueDrops /\ i \in sure)
                    /\ PlayerMeetsRequirements(table.entries[i], level, rep)}
        Weighs(i, itemLevel) ==
            CalculateAdjustedDropChance(table.entries[i].dropChance, level, itemLevel) > 0
        Rolls(i) == table.entries[i].minLevel .. table.entries[i].maxLevel
        may == {i \in open : \E l \in Rolls(i) : Weighs(i, l)}
        must == {i \in open : \A l \in Rolls(i) : Weighs(i, l)}
    IN  {must \cup s : s \in SUBSET (may \ must)}

(* A variant in which an entry drawn stays among the eligible ones.        *)
DrawnWithReturn(table, eligible, n) ==
    IF eligible = {} \/ n <= 0 THEN {<<>>} ELSE [1 .. n -> eligible]

(* The indices drawn at random: an entry of a table with uniqueDrops is    *)
(* not drawn again, one of another table fills all drops there may be.     *)
Drawn(table, eligible, n) ==
    IF eligible = {} \/ n <= 0 THEN {<<>>}
    ELSE IF table.uniqueDrops
         THEN {s \in [1 .. Min({n, Cardinality(eligible)}) -> eligible] : IsInjective(s)}
         ELSE [1 .. n -> eligible]

(* GenerateLoot once it has the table: the items of each possible draw.    *)
LootOf(table, level, rep) ==
    LET sure == GuaranteedIndices(table, level, rep)
        picks == UNION {Drawn(table, eligible, table.maxDrops - Len(sure)) :
                            eligible \in EligibleSets(table, level, rep)}
        Item(i) == CreateItemFromEntry(i, table.entries[i])
    IN  UNION {LET s == sure \o pick IN
               {loot \in [DOMAIN s -> UNION {Item(i) : i \in ToSet(s)}] :
                    \A k \in DOMAIN s : loot[k] \in Item(s[k])} : pick \in picks}

-----------------------------------------------------------------------------
(* The tables                                                              *)

RegisterTable(table) ==
    /\ lootTables' = Registered(lootTables, table)
    /\ asked' = asked \cup {table.tableId}
    /\ lootCalls' = lootCalls + 1
    /\ UNCHANGED <<lootFile, draw>>

(* The draws once only the tables in left are in the map: a pointer to     *)
(* another one dangles, and stays so when its id is registered again.      *)
Freed(draws, left) ==
    [d \in Drawers |-> [draws[d] EXCEPT !.gone =
        @ \/ (draws[d].at = "found" /\ draws[d].table.tableId \notin LootIds(left))]]

(* LoadLootTables: a table of the file replaces the one with its id.       *)
LoadLootTables ==
    /\ lootTables' = {t \in lootTables : t.tableId \notin LootIds(lootFile)} \cup lootFile
    /\ asked' = asked \cup LootIds(lootFile)
    /\ lootCalls' = lootCalls + 1
    /\ UNCHANGED <<lootFile, draw>>

(* SaveLootTables: a table registered for a draw is written with the rest. *)
SaveLootTables ==
    /\ lootFile' = lootTables
    /\ lootCalls' = lootCalls + 1
    /\ UNCHANGED <<lootTables, asked, draw>>

ClearAllTables ==
    /\ lootTables' = {}
    /\ draw' = Freed(draw, {})
    /\ lootCalls' = lootCalls + 1
    /\ UNCHANGED <<lootFile, asked>>

-----------------------------------------------------------------------------
(* A draw                                                                  *)

(* GetTable: a pointer to the table, or, without one, no loot.             *)
Found(d, id) ==
    IF WithId(id) = {}
    THEN [draw[d] EXCEPT !.at = IF @ = "registered" THEN "drawn" ELSE "idle", !.loot = <<>>]
    ELSE [draw[d] EXCEPT !.at = "found", !.loot = <<>>,
                         !.table = CHOOSE t \in WithId(id) : TRUE, !.gone = FALSE]

GenerateLoot(d, id, level, rep) ==
    /\ draw[d].at = "idle"
    /\ draw' = [draw EXCEPT ![d] = [Found(d, id) EXCEPT !.temporary = FALSE,
                                          !.level = level, !.rep = rep]]
    /\ lootCalls' = lootCalls + 1
    /\ UNCHANGED <<lootTables, lootFile, asked>>

(* GenerateLoot has the lock again and reads through its pointer: what is  *)
(* registered under the id by then.  A table that was removed meanwhile    *)
(* was freed with its entries: the thread sees them still, or none.        *)
Draw(d) ==
    /\ draw[d].at = "found"
    /\ LET table == IF draw[d].gone THEN draw[d].table
                    ELSE CHOOSE t \in WithId(draw[d].table.tableId) : TRUE
       IN  \E loot \in LootOf(table, draw[d].level, draw[d].rep)
                        \cup IF draw[d].gone THEN {<<>>} ELSE {} :
               draw' = [draw EXCEPT ![d].at = IF draw[d].temporary THEN "drawn" ELSE "idle",
                                    ![d].table = table, ![d].loot = loot]
    /\ UNCHANGED <<lootTables, lootFile, asked, lootCalls>>

(* GenerateWeightedLoot has picked one of its tables and asks HasTable.    *)
GenerateWeightedLoot(d, table, level) ==
    /\ draw[d].at = "idle"
    /\ draw' = [draw EXCEPT ![d] =
                   [at |-> "picked", table |-> table, temporary |-> WithId(table.tableId) = {},
                    gone |-> FALSE, level |-> level, rep |-> <<>>, loot |-> <<>>]]
    /\ lootCalls' = lootCalls + 1
    /\ UNCHANGED <<lootTables, lootFile, asked>>

(* It registers the table it did not find, whatever came there since.      *)
RegisterPicked(d) ==
    /\ draw[d].at = "picked" /\ draw[d].temporary
    /\ lootTables' = Registered(lootTables, draw[d].table)
    /\ draw' = [draw EXCEPT ![d].at = "registered"]
    /\ UNCHANGED <<lootFile, asked, lootCalls>>

FindPicked(d) ==
    /\ \/ draw[d].at = "picked" /\ ~draw[d].temporary
       \/ draw[d].at = "registered"
    /\ draw' = [draw EXCEPT ![d] = Found(d, draw[d].table.tableId)]
    /\ UNCHANGED <<lootTables, lootFile, asked, lootCalls>>

(* A variant that keeps the table of a draw that gave nothing.             *)
RemoveIfUsed(d) ==
    /\ draw[d].at = "drawn"
    /\ LET id == draw[d].table.tableId IN
       /\ lootTables' = IF draw[d].loot = <<>> THEN lootTables ELSE lootTables \ WithId(id)
       /\ draw' = [Freed(draw, lootTables \ WithId(id)) EXCEPT ![d].at = "idle"]
    /\ UNCHANGED <<lootFile, asked, lootCalls>>

(* UnregisterTable: whoever holds a pointer to the table keeps it.         *)
UnregisterPicked(d) ==
    /\ draw[d].at = "drawn"
    /\ lootTables' = lootTables \ WithId(draw[d].table.tableId)
    /\ draw' = [Freed(draw, lootTables') EXCEPT ![d].at = "idle"]
    /\ UNCHANGED <<lootFile, asked, lootCalls>>

LootTablesNext ==
    \/ /\ lootCalls < MaxLootCalls
       /\ \/ \E table \in Tables : RegisterTable(table)
          \/ LoadLootTables
          \/ SaveLootTables \/ ClearAllTables
          \/ \E d \in Drawers, level \in PlayerLevels :
                 \/ \E id \in LootIds(Tables), rep \in Reputations :
                        GenerateLoot(d, id, level, rep)
                 \/ \E table \in Tables : GenerateWeightedLoot(d, table, level)
    \/ \E d \in Drawers :
           Draw(d) \/ RegisterPicked(d) \/ FindPicked(d) \/ UnregisterPicked(d)

LootSpec == LootTablesInit /\ [][LootTablesNext]_lootVars

-----------------------------------------------------------------------------
LootTypeOK ==
    /\ lootTables \subseteq Tables /\ lootFile \subseteq Tables
    /\ \A t \in Tables : Cardinality(WithId(t.tableId)) <= 1
    /\ asked \subseteq LootIds(Tables)
    /\ \A d \in Drawers :
           draw[d].at \in {"idle", "picked", "registered", "found", "drawn"}

(* The table of an item drawn lets the player have it: his level and his   *)
(* reputation are those the entry asks for.                                *)
OnlyDeserved ==
    \A d \in Drawers : \A k \in DOMAIN draw[d].loot :
        LET entry == draw[d].table.entries[draw[d].loot[k].entry] IN
        /\ draw[d].level \in entry.minLevel .. entry.maxLevel
        /\ entry.requiredQuest = ""
        /\ entry.requiredFaction # "" => entry.requiredFaction \in DOMAIN draw[d].rep

(* What one kill gives is bounded: by maxDrops, or by guaranteedDrops if   *)
(* that is more; and a table with uniqueDrops gives no entry twice, though *)
(* the guaranteed and the random part are drawn one after the other.       *)
DrawsBounded ==
    \A d \in Drawers : draw[d].loot # <<>> =>
        LET table == draw[d].table IN
        /\ Len(draw[d].loot) <= Max({table.maxDrops, table.guaranteedDrops})
        /\ table.uniqueDrops =>
              Cardinality({i.entry : i \in ToSet(draw[d].loot)}) = Len(draw[d].loot)

(* A table that was registered for a draw is not left behind: without a    *)
(* draw under way only tables somebody registered or loaded are there,     *)
(* however the draws of several threads overlap.                           *)
NoTableLeft ==
    LootIds(lootTables) \subseteq
        asked \cup {draw[d].table.tableId :
                        d \in {e \in Drawers : draw[e].at # "idle" /\ draw[e].temporary}}

LootInv == LootTypeOK /\ OnlyDeserved /\ DrawsBounded /\ NoTableLeft
=============================================================================
