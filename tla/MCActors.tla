------------------------------ MODULE MCActors ------------------------------
(***************************************************************************)
(* Characters, Movement, Inventory, LootTables and Creatures for TLC.      *)
(* They share no state, so a behaviour runs one of them, the focus, and    *)
(* leaves the others as they start: the run covers the sum of the state    *)
(* spaces and not their product.                                           *)
(***************************************************************************)
EXTENDS Characters, Inventory, Creatures

CONSTANTS MaxInputId, MAX_INPUT_HISTORY, BufferSize, MaxMessages,
          Drawers, Tables, PlayerLevels, Reputations, MaxLootCalls

VARIABLES focus, walker, history, inputs_, arrived, lifted, buffered, messages,
          lootTables, lootFile, asked, draw, lootCalls

Mov == INSTANCE Movement
Lt == INSTANCE LootTables

movementVars == <<walker, history, inputs_, arrived, lifted, buffered, messages>>
lootTablesVars == <<lootTables, lootFile, asked, draw, lootCalls>>
vars == <<focus, charactersVars, inventoryVars, creaturesVars, movementVars, lootTablesVars>>

(* Two items: a potion that stacks to two, a sword that does not.  Two     *)
(* lots of potions and one of swords lie in the world.                     *)
TheStack == [potion |-> 2, sword |-> 1]
TheSlot == [potion |-> "none", sword |-> "MAIN_HAND"]
TheLoot == [chest |-> "potion", crate |-> "potion", rack |-> "sword"]

(* Experience for a level, for two levels at once and for all of them.     *)
TheExperience == 2 :> 150 @@ 3 :> 225 @@ 4 :> 1000000000
TheStrength == [rage |-> 2]

(* One villager, who can be killed with three hits, and one spawn zone.    *)
TheKind == [villager |-> "VILLAGER"]
TheMobs == [meadow |-> 1]

(* A goblin drops one thing for sure, the dragon, of which there are two    *)
(* tables, several and none twice, the last only to a friend of the guild. *)
Entry(chance, least, most, faction) ==
    [dropChance |-> chance, minLevel |-> least, maxLevel |-> most,
     minRarity |-> 0, maxRarity |-> IF chance = 20 THEN 1 ELSE 0, requiredQuest |-> "",
     requiredFaction |-> faction, factionRepRequired |-> 1]
TheTables ==
    {[tableId |-> "goblin", guaranteedDrops |-> 1, maxDrops |-> 2, uniqueDrops |-> FALSE,
      entries |-> <<Entry(20, 1, 3, ""), Entry(100, 1, 30, "")>>],
     [tableId |-> "dragon", guaranteedDrops |-> 1, maxDrops |-> 3, uniqueDrops |-> TRUE,
      entries |-> <<Entry(100, 3, 30, ""), Entry(20, 5, 30, ""), Entry(100, 1, 30, "guild")>>],
     [tableId |-> "dragon", guaranteedDrops |-> 0, maxDrops |-> 1, uniqueDrops |-> TRUE,
      entries |-> <<[Entry(20, 3, 3, "") EXCEPT !.requiredQuest = "slay"]>>]}
TheReputations == {<<>>, [guild |-> 2]}

ASSUME MovementAssumption == Mov!MovementConstants
ASSUME LootAssumption == Lt!LootConstants

Init == /\ focus \in {"characters", "movement", "inventory", "loot", "creatures"}
        /\ CharactersInit /\ Mov!MovementInit /\ InventoryInit /\ CreaturesInit
        /\ Lt!LootTablesInit
        /\ focus # "loot" => lootFile = {CHOOSE t \in Tables : TRUE}

Next ==
    /\ UNCHANGED focus
    /\ \/ /\ focus = "characters" /\ CharactersNext
          /\ UNCHANGED <<inventoryVars, creaturesVars, movementVars, lootTablesVars>>
       \/ /\ focus = "movement" /\ Mov!MovementNext
          /\ UNCHANGED <<charactersVars, inventoryVars, creaturesVars, lootTablesVars>>
       \/ /\ focus = "inventory" /\ InventoryNext
          /\ UNCHANGED <<charactersVars, creaturesVars, movementVars, lootTablesVars>>
       \/ /\ focus = "loot" /\ Lt!LootTablesNext
          /\ UNCHANGED <<charactersVars, inventoryVars, creaturesVars, movementVars>>
       \/ /\ focus = "creatures" /\ CreaturesNext
          /\ UNCHANGED <<charactersVars, inventoryVars, movementVars, lootTablesVars>>

Spec == Init /\ [][Next]_vars

(* Movement's invariant: the place and the speed the server computes for a *)
(* player follow from the inputs it remembers.                             *)
MovementInv == focus = "movement" => Mov!MovementInv

(* What players carry and what they are given: the invariants of Inventory *)
(* and of LootTables.                                                      *)
ItemsInv == InventoryInv /\ (focus = "loot" => Lt!LootInv)
=============================================================================
