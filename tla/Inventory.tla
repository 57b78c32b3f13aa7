------------------------------- MODULE Inventory -------------------------------
(***************************************************************************)
(* InventorySystem, the items of LootItem in its slots, and the handlers   *)
(* of GameLogic that use it (OnInventory, OnLootPickup).                   *)
(*                                                                         *)
(* Every operation holds mutex_.  One that changes an inventory saves it   *)
(* and SaveInventory locks mutex_ again: for a std::mutex that is          *)
(* undefined, and an outcome is a choice here: to wait for ever, with the  *)
(* change made (what the builds do), or to go on.                          *)
(*                                                                         *)
(* What goes on does not save either.  The statement of SaveToDatabase     *)
(* names a column the server's schema does not have, and NOW(), which      *)
(* SQLite does not; on PostgreSQL its text is quoted twice.  It fails, no  *)
(* caller looks at the result, and no row is ever there to be loaded.      *)
(*                                                                         *)
(* Items that can stack are the same item here (CanStackWith also compares *)
(* durability, modifiers and sockets), and what a slot shows of its item   *)
(* (equipped, stack size, statistics) is left out.                         *)
(***************************************************************************)
EXTENDS Integers, FiniteSets, SequencesExt

CONSTANTS InvPlayers, Items,
          Stack,           \* maxStackSize_ of each item
          Slot,            \* the equipment slot of an item, or "none"
          Consumable,      \* the items that can be used up
          Loot,            \* the item each loot entity in the world carries
          maxInventorySize, MaxGold,
          Amounts, GoldAmounts,
          MaxOps           \* bound on the operations of a behaviour

VARIABLES
    inv,     \* playerInventories_, or NoInventory
    picked,  \* the item OnInventory has read from a slot, per player
    loot,    \* loot entities nobody has picked up
    stuck,   \* a thread waits for the mutex it holds
    ops      \* operations so far

inventoryVars == <<inv, picked, loot, stuck, ops>>

NoInventory == [slots |-> <<>>, gear |-> <<>>, gold |-> -1]
NoPick == [item |-> "none", slot |-> 0]
Empty == [item |-> "none", quantity |-> 0, position |-> 0]
Gear == {Slot[i] : i \in Items} \ {"none"}
PlayerInventory == [slots |-> <<>>, gear |-> [g \in Gear |-> Empty], gold |-> 0]

InventoryInit ==
    /\ inv = [p \in InvPlayers |-> NoInventory]
    /\ picked = [p \in InvPlayers |-> NoPick]
    /\ loot = DOMAIN Loot
    /\ stuck = FALSE
    /\ ops = 0

ASSUME InventoryAssumption ==
    /\ "none" \notin Items
    /\ Stack \in [Items -> Nat \ {0}]
    /\ Consumable \subseteq Items
    /\ \A e \in DOMAIN Loot : Loot[e] \in Items
    /\ maxInventorySize \in Nat /\ MaxGold \in Nat
    /\ Amounts \subseteq Nat /\ GoldAmounts \subseteq Int

-----------------------------------------------------------------------------
(* Operators on the slots of one inventory.                                *)

Least(a, b) == IF a < b THEN a ELSE b
Stacked(s, i) == s.item = i
(* (AsNumbered is a variant that leaves the numbers as they are.)          *)
AsNumbered(slots) == slots
Renumbered(slots) == [k \in DOMAIN slots |-> [slots[k] EXCEPT !.position = k - 1]]

SumOf(n) ==
    LET sum[k \in 0..Len(n)] == IF k = 0 THEN 0 ELSE sum[k - 1] + n[k] IN sum[Len(n)]

(* GetItemCount                                                            *)
Count(slots, i) ==
    SumOf([k \in DOMAIN slots |-> IF Stacked(slots[k], i) THEN slots[k].quantity ELSE 0])

(* What still goes into the stack of item i in a slot.                     *)
Room(s, i) ==
    IF Stack[i] > 1 /\ Stacked(s, i) /\ s.quantity < Stack[i] THEN Stack[i] - s.quantity ELSE 0

(* Quantity q goes into the stacks of item i that have room, in order.     *)
(* TransferItem counts the room in a slot of negative quantity too.        *)
Fill(slots, i, q) ==
    LET left[k \in 0..Len(slots)] ==
            IF k = 0 THEN q ELSE left[k - 1] - Least(left[k - 1], Room(slots[k], i))
    IN [slots |-> [k \in DOMAIN slots |->
                      [slots[k] EXCEPT !.quantity = @ + Least(left[k - 1], Room(slots[k], i))]],
        left |-> left[Len(slots)]]

(* ... and the rest into new slots, as many as the inventory has.          *)
NewSlots(slots, i, q) ==
    LET free == maxInventorySize - Len(slots)
        full == q \div Stack[i]
        needed == full + IF q % Stack[i] = 0 THEN 0 ELSE 1
        n == Least(free, needed)
        size(k) == IF k <= full THEN Stack[i] ELSE q % Stack[i]
        new == [k \in 1..n |-> [item |-> i, quantity |-> size(k),
                                position |-> Len(slots) + k - 1]]
    IN [slots |-> slots \o new, left |-> IF n = needed THEN 0 ELSE q - n * Stack[i]]

Put(slots, i, q) ==
    LET f == Fill(slots, i, q) IN NewSlots(f.slots, i, f.left)

(* (A variant of the next that forgets the stacks there are.)              *)
HasSlotsFor(slots, i, q) ==
    Len(slots) + (q + Stack[i] - 1) \div Stack[i] <= maxInventorySize

(* HasSpaceFor: the room in the stacks of the item, in slots for the rest. *)
HasSpaceFor(slots, i, q) ==
    LET left == q - SumOf([k \in DOMAIN slots |-> Room(slots[k], i)])
    IN left <= 0 \/ Len(slots) + (left + Stack[i] - 1) \div Stack[i] <= maxInventorySize

(* RemoveItem: what cannot be found is not removed, and then the emptied   *)
(* slots stay.                                                             *)
Taken(slots, i, q) ==
    LET Searched(k, n) == Stacked(slots[k], i) /\ n # 0
        left[k \in 0..Len(slots)] ==
            IF k = 0 THEN q
            ELSE IF Searched(k, left[k - 1])
                 THEN left[k - 1] - Least(left[k - 1], slots[k].quantity) ELSE left[k - 1]
        rest(k) == slots[k].quantity - (left[k - 1] - left[k])
        after(k) ==
            [slots[k] EXCEPT !.quantity = rest(k),
                !.item = IF Searched(k, left[k - 1]) /\ rest(k) = 0 THEN "none" ELSE @]
        kept[k \in 0..Len(slots)] ==
            IF k = 0 THEN <<>>
            ELSE IF rest(k) = 0 THEN kept[k - 1]
            ELSE Append(kept[k - 1], [after(k) EXCEPT !.position = Len(kept[k - 1])])
    IN IF left[Len(slots)] = 0 THEN kept[Len(slots)] ELSE [k \in DOMAIN slots |-> after(k)]

(* The first of the places K, or 0.                                        *)
First(K) == IF K = {} THEN 0 ELSE CHOOSE k \in K : \A j \in K : k <= j

FindItemSlot(slots, i) == First({k \in DOMAIN slots : Stacked(slots[k], i)})

-----------------------------------------------------------------------------
(* SaveInventory, after the inventories have become f.                     *)
Save(f) == inv' = f /\ stuck' \in BOOLEAN

Known(p) == ~stuck /\ inv[p] # NoInventory
Slots(p) == inv[p].slots
Positions(p) == DOMAIN Slots(p)
WithSlots(p, slots) == [inv EXCEPT ![p].slots = slots]

(* LoadInventory, which locks twice as well.  A query that fails answers   *)
(* with no rows, like one that finds none, and the player starts anew,     *)
(* with whatever he had; without a backend nothing is loaded.              *)
LoadFromDatabase(p) ==
    /\ ~stuck
    /\ \/ stuck' = TRUE /\ UNCHANGED inv
       \/ inv' = [inv EXCEPT ![p] = PlayerInventory] /\ UNCHANGED stuck
       \/ UNCHANGED <<inv, stuck>>
    /\ UNCHANGED <<picked, loot>>

(* OnLootPickup for a player next to the loot: AddItem, and the entity is  *)
(* gone when all of it fitted.                                             *)
LootPickup(p, e, q) ==
    LET old == IF inv[p] = NoInventory THEN PlayerInventory ELSE inv[p]
        new == Put(old.slots, Loot[e], q)
    IN /\ ~stuck /\ e \in loot /\ q > 0
       /\ Save([inv EXCEPT ![p] = [old EXCEPT !.slots = new.slots]])
       /\ loot' = IF new.left = 0 /\ ~stuck' THEN loot \ {e} ELSE loot
       /\ UNCHANGED picked

(* OnInventory first reads the item of the slot the client names, then     *)
(* works on the inventory as it is then.                                   *)
GetItem(p, k) ==
    /\ Known(p) /\ picked[p] = NoPick /\ k \in Positions(p) /\ Slots(p)[k].item \in Items
    /\ picked' = [picked EXCEPT ![p] = [item |-> Slots(p)[k].item, slot |-> k]]
    /\ UNCHANGED <<inv, loot, stuck>>

RemoveItem(p, q) ==
    /\ Known(p) /\ picked[p] # NoPick
    /\ IF q > 0 THEN Save(WithSlots(p, Taken(Slots(p), picked[p].item, q)))
       ELSE UNCHANGED <<inv, stuck>>
    /\ picked' = [picked EXCEPT ![p] = NoPick]
    /\ UNCHANGED loot

(* The slots of item i that hold at least q of it; the first is used.      *)
UseItem(p, q) ==
    LET i == picked[p].item
        k == First({j \in Positions(p) : Stacked(Slots(p)[j], i) /\ Slots(p)[j].quantity >= q})
        left == Slots(p)[k].quantity - q
    IN /\ Known(p) /\ i \in Consumable
       /\ IF k # 0
          THEN Save(WithSlots(p, [Slots(p) EXCEPT
                              ![k].item = IF left = 0 THEN "none" ELSE @,
                              ![k].quantity = left]))
          ELSE UNCHANGED <<inv, stuck>>
       /\ picked' = [picked EXCEPT ![p] = NoPick]
       /\ UNCHANGED loot

(* The item in the slot now is put on: into an empty place, or in exchange *)
(* for what is there.                                                      *)
EquipItem(p, q) ==
    LET k == picked[p].slot
        s == Slots(p)[k]
        g == Slot[s.item]
        worn == inv[p].gear[g]
    IN /\ Known(p) /\ picked[p] # NoPick /\ Slot[picked[p].item] # "none"
       /\ IF k \in Positions(p) /\ s.item \in Items /\ s.quantity >= q /\ g # "none"
          THEN Save([inv EXCEPT
                 ![p].gear[g] = s,
                 ![p].slots = IF worn.quantity > 0
                              THEN [@ EXCEPT ![k] = [worn EXCEPT !.position = k - 1]]
                              ELSE Renumbered(RemoveAt(@, k))])
          ELSE UNCHANGED <<inv, stuck>>
       /\ picked' = [picked EXCEPT ![p] = NoPick]
       /\ UNCHANGED loot

(* TransferItem gives item i to another player.  One that runs out of      *)
(* slots there fails after it has given what fitted and before it takes    *)
(* anything; one that succeeds takes everything from the first slot.       *)
Given(f, p, to, i, q) ==
    LET put == Put(f[to].slots, i, q)
        g == [f EXCEPT ![to].slots = put.slots]
        k == FindItemSlot(f[p].slots, i)
        left == g[p].slots[k].quantity - q
    IN IF put.left > 0 THEN [ok |-> FALSE, inv |-> g]
       ELSE [ok |-> TRUE,
             inv |-> [g EXCEPT ![p].slots =
                        IF left = 0 THEN Renumbered(RemoveAt(@, k))
                        ELSE [@ EXCEPT ![k].quantity = left]]]

TransferItem(p, to, q) ==
    LET i == picked[p].item
        t == Given(inv, p, to, i, q)
    IN /\ Known(p) /\ picked[p] # NoPick
       /\ IF inv[to] # NoInventory /\ FindItemSlot(Slots(p), i) # 0 /\ Count(Slots(p), i) >= q
          THEN IF t.ok THEN Save(t.inv) ELSE inv' = t.inv /\ UNCHANGED stuck
          ELSE UNCHANGED <<inv, stuck>>
       /\ picked' = [picked EXCEPT ![p] = NoPick]
       /\ UNCHANGED loot

-----------------------------------------------------------------------------
(* Operations of the class that no handler calls yet.                      *)

MoveItem(p, j, k) ==
    /\ Known(p) /\ j \in Positions(p) /\ k \in Positions(p) /\ j # k
    /\ Save(WithSlots(p, Renumbered([Slots(p) EXCEPT ![j] = Slots(p)[k],
                                                          ![k] = Slots(p)[j]])))
    /\ UNCHANGED <<picked, loot>>

(* (A variant of the next that leaves the whole stack where it was.)       *)
SplitStackOff(p, k, q) ==
    /\ Known(p) /\ k \in Positions(p) /\ Slots(p)[k].item \in Items /\ q > 0
    /\ Slots(p)[k].quantity > q /\ Len(Slots(p)) < maxInventorySize
    /\ Save(WithSlots(p, Append(Slots(p),
                   [item |-> Slots(p)[k].item, quantity |-> q,
                    position |-> Len(Slots(p))])))
    /\ UNCHANGED <<picked, loot>>

SplitStack(p, k, q) ==
    /\ Known(p) /\ k \in Positions(p) /\ Slots(p)[k].item \in Items /\ q > 0
    /\ Slots(p)[k].quantity > q /\ Len(Slots(p)) < maxInventorySize
    /\ Save(WithSlots(p, Append([Slots(p) EXCEPT ![k].quantity = @ - q],
                   [item |-> Slots(p)[k].item, quantity |-> q,
                    position |-> Len(Slots(p))])))
    /\ UNCHANGED <<picked, loot>>

MergeStacks(p, j, k) ==
    LET s == Slots(p)[j]
        n == Least(s.quantity, Stack[s.item] - Slots(p)[k].quantity)
        merged == [Slots(p) EXCEPT ![k].quantity = @ + n, ![j].quantity = @ - n]
    IN /\ Known(p) /\ j \in Positions(p) /\ k \in Positions(p) /\ j # k
       /\ s.item \in Items /\ Slots(p)[k].item = s.item
       /\ Slots(p)[k].quantity < Stack[s.item]
       /\ Save(WithSlots(p, IF n = s.quantity THEN Renumbered(RemoveAt(merged, j))
                                 ELSE merged))
       /\ UNCHANGED <<picked, loot>>

UnequipItem(p, g, q) ==
    LET worn == inv[p].gear[g]
    IN /\ Known(p) /\ worn.item \in Items /\ q > 0 /\ worn.quantity >= q
       /\ Len(Slots(p)) < maxInventorySize
       /\ Save([inv EXCEPT
             ![p].gear[g] = IF worn.quantity = q THEN Empty
                            ELSE [worn EXCEPT !.quantity = @ - q],
             ![p].slots = Append(@, [item |-> worn.item, quantity |-> q,
                                     position |-> Len(@)])])
       /\ UNCHANGED <<picked, loot>>

(* AddGold saturates where the sum of two int64_t overflows.               *)
AddGold(p, n) ==
    LET old == IF inv[p] = NoInventory THEN PlayerInventory ELSE inv[p]
    IN /\ ~stuck /\ n >= 0
       /\ Save([inv EXCEPT ![p] = [old EXCEPT !.gold = Least(@ + n, MaxGold)]])
       /\ UNCHANGED <<picked, loot>>

RemoveGold(p, n) ==
    /\ Known(p) /\ n >= 0 /\ inv[p].gold >= n
    /\ Save([inv EXCEPT ![p].gold = @ - n])
    /\ UNCHANGED <<picked, loot>>

TransferGold(p, to, n) ==
    /\ Known(p) /\ Known(to) /\ p # to /\ n > 0 /\ inv[p].gold >= n
    /\ Save([inv EXCEPT ![p].gold = @ - n, ![to].gold = Least(@ + n, MaxGold)])
    /\ UNCHANGED <<picked, loot>>

(* The worker process ends and another one starts.                         *)
InventoryRestart ==
    /\ inv' = [p \in InvPlayers |-> NoInventory]
    /\ picked' = [p \in InvPlayers |-> NoPick]
    /\ stuck' = FALSE
    /\ UNCHANGED loot

InventoryOperation ==
    \/ \E p \in InvPlayers :
         \/ LoadFromDatabase(p)
         \/ \E e \in loot, q \in Amounts : LootPickup(p, e, q)
         \/ \E k \in Positions(p) : GetItem(p, k)
         \/ \E q \in Amounts : RemoveItem(p, q) \/ UseItem(p, q) \/ EquipItem(p, q)
         \/ \E q \in Amounts, to \in InvPlayers : TransferItem(p, to, q)
         \/ \E j, k \in Positions(p) : MoveItem(p, j, k) \/ MergeStacks(p, j, k)
         \/ \E k \in Positions(p), q \in Amounts : SplitStack(p, k, q)
         \/ \E g \in Gear, q \in Amounts : Known(p) /\ UnequipItem(p, g, q)
         \/ \E n \in GoldAmounts : AddGold(p, n) \/ RemoveGold(p, n)
         \/ \E n \in GoldAmounts, to \in InvPlayers : TransferGold(p, to, n)
    \/ InventoryRestart

InventoryNext == ops < MaxOps /\ ops' = ops + 1 /\ InventoryOperation

-----------------------------------------------------------------------------
(* The slots of an inventory carry their own index, on which clients       *)
(* address them, whatever is moved, merged, worn or given away.            *)
SlotsNumbered ==
    \A p \in InvPlayers : \A k \in Positions(p) : Slots(p)[k].position = k - 1

(* No slot ever holds more than a full stack, no inventory more slots than *)
(* it has, and gold neither wraps around nor falls below zero.             *)
WithinLimits ==
    \A p \in InvPlayers :
        /\ Len(Slots(p)) <= maxInventorySize
        /\ \A k \in Positions(p) : Slots(p)[k].item \in Items =>
               Slots(p)[k].quantity <= Stack[Slots(p)[k].item]
        /\ inv[p] # NoInventory => inv[p].gold \in 0..MaxGold

(* HasSpaceFor says of every inventory what AddItem does: that all of it   *)
(* fits.                                                                   *)
SpaceAgrees ==
    \A p \in InvPlayers, i \in Items, q \in Amounts \ {0} : inv[p] # NoInventory =>
        (HasSpaceFor(Slots(p), i, q) <=> Put(Slots(p), i, q).left = 0)

(* The slots of every inventory are in order, and the checks that precede  *)
(* an operation tell what it will do.                                      *)
InventoryInv == SlotsNumbered /\ WithinLimits /\ SpaceAgrees

Total(f, i) ==
    LET have(p) == Count(f[p].slots, i)
                     + IF Slot[i] # "none" /\ f[p] # NoInventory
                          /\ f[p].gear[Slot[i]].item = i
                       THEN f[p].gear[Slot[i]].quantity ELSE 0
    IN MapThenFoldSet(+, 0, have, LAMBDA S : CHOOSE p \in S : TRUE, InvPlayers)

PickedUp == \E p \in InvPlayers, e \in loot, q \in Amounts : LootPickup(p, e, q)

HalfTransfer == \E p, to \in InvPlayers, q \in Amounts :
    picked[p] # NoPick /\ inv[to] # NoInventory
      /\ FindItemSlot(Slots(p), picked[p].item) # 0
      /\ ~Given(inv, p, to, picked[p].item, q).ok /\ TransferItem(p, to, q)

(* A transfer from several stacks takes it all from the first one, which   *)
(* may go below zero.  Where that has not happened nothing but picking up  *)
(* loot makes items, and nothing but a transfer that fails halfway doubles *)
(* them.                                                                   *)
ItemsKept ==
    [][(\A p \in InvPlayers : /\ inv[p] # NoInventory /\ inv'[p] # NoInventory
                             /\ \A k \in Positions(p) : Slots(p)[k].quantity >= 0)
          /\ ~PickedUp /\ ~HalfTransfer
            => \A i \in Items : Total(inv', i) <= Total(inv, i)]_inventoryVars
=============================================================================
