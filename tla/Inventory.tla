------------------------------ MODULE Inventory ------------------------------
(***************************************************************************)
(* The slots of a player's inventory (server/game/inventory.cpp) and the   *)
(* operations that change them. A slot holds a name, a quantity and, for   *)
(* what is worn, a mark; which EquipmentSlot the mark names follows from   *)
(* the item (Item::get_slot). Every operation is a function from slots to  *)
(* slots: the state machines that use them are Economy and its clients.    *)
(* ...Bug: a mutated form of the definition that follows it.               *)
(***************************************************************************)
EXTENDS Integers, FiniteSets, FiniteSetsExt

CONSTANTS
    Potions,      \* the consumables: no EquipmentSlot, they stack
    Gear,         \* weapons, armours, helmets and shields
    WornAs,       \* the EquipmentSlot of each piece of gear
    MaxItems,     \* GameConfig::get_max_inventory_items
    NoItem        \* an empty unique_ptr

Items == Potions \cup Gear

ASSUME ItemsAssumption == Potions \cap Gear = {} /\ NoItem \notin Items
ASSUME MaxItemsAssumption == MaxItems \in Nat \ {0}

Index == 0..MaxItems - 1

Slot == [item : Items \cup {NoItem}, qty : Nat, worn : BOOLEAN]
Slots == [Index -> Slot]

EmptySlot == [item |-> NoItem, qty |-> 0, worn |-> FALSE]
EmptySlots == [i \in Index |-> EmptySlot]

-----------------------------------------------------------------------------

Named(inv, k) == {i \in Index : inv[i].item = k}
Vacant(inv) == Named(inv, NoItem)
Held(inv) == Index \ Vacant(inv)

HasItem(inv, k) == Named(inv, k) # {}

CanAdd(inv, k) == (k \in Potions /\ HasItem(inv, k)) \/ Vacant(inv) # {}

\* Only what cannot be worn is stacked; the item that is merged is destroyed.
StacksOn(inv, k) == k \in Potions /\ HasItem(inv, k)

AddItem(inv, k, q) ==
    IF StacksOn(inv, k)
      THEN [inv EXCEPT ![Min(Named(inv, k))].qty = @ + q]
      ELSE [inv EXCEPT ![Min(Vacant(inv))] = [item |-> k, qty |-> q, worn |-> FALSE]]

\* remove_item: one unit.
RemoveOne(inv, i) ==
    IF inv[i].qty > 1 THEN [inv EXCEPT ![i].qty = @ - 1]
                      ELSE [inv EXCEPT ![i] = EmptySlot]

RemoveNamed(inv, k) == RemoveOne(inv, Min(Named(inv, k)))

PopSlot(inv, i) == [inv EXCEPT ![i] = EmptySlot]

\* A click on worn gear takes it off, on other gear changes it for what is worn in
\* its place, on a potion drinks one.
WornAt(inv, s) == {i \in Held(inv) : inv[i].worn /\ WornAs[inv[i].item] = s}

SwappedBug(inv, i) == {}
Swapped(inv, i) ==
    LET others == WornAt(inv, WornAs[inv[i].item]) \ {i}
    IN  IF others = {} THEN {} ELSE {Min(others)}

Equip(inv, i) ==
    CASE inv[i].item \in Potions -> RemoveOne(inv, i)
      [] inv[i].worn -> [inv EXCEPT ![i].worn = FALSE]
      [] OTHER -> [j \in Index |->
                     IF j = i THEN [inv[j] EXCEPT !.worn = TRUE]
                     ELSE IF j \in Swapped(inv, i) THEN [inv[j] EXCEPT !.worn = FALSE]
                     ELSE inv[j]]

\* RestorePlayerCommand: the saved slots are added to an empty inventory from the first
\* to the last, and equipped if they were worn.
RestoreSlotBug(inv, s) ==
    IF s.item = NoItem \/ ~CanAdd(inv, s.item) THEN inv ELSE AddItem(inv, s.item, s.qty)
RestoreSlot(inv, s) ==
    IF s.item = NoItem \/ ~CanAdd(inv, s.item) THEN inv
    ELSE LET added == AddItem(inv, s.item, s.qty)
         IN  IF s.worn THEN Equip(added, CHOOSE i \in Index : added[i] # inv[i]) ELSE added

RestoredSlotBySlot(saved) ==
    LET upTo[n \in 0..MaxItems] ==
          IF n = 0 THEN EmptySlots ELSE RestoreSlot(upTo[n - 1], saved[n - 1])
    IN  upTo[MaxItems]

\* What comes of it: the slots that hold something, without the gaps.
Order(S, i) == Cardinality({j \in S : j < i})

Restored(saved) ==
    [i \in Index |->
       IF \E j \in Held(saved) : Order(Held(saved), j) = i
         THEN saved[CHOOSE j \in Held(saved) : Order(Held(saved), j) = i]
         ELSE EmptySlot]

-----------------------------------------------------------------------------
\* What every operation must leave.

\* Quantities agree with items, gear is never stacked, only gear is worn.
SlotsAgree(inv) ==
    \A i \in Index :
        /\ inv[i].qty = 0 <=> inv[i].item = NoItem
        /\ inv[i].item \in Gear => inv[i].qty = 1
        /\ inv[i].worn => inv[i].item \in Gear

\* Two weapons, or two helmets, are never worn at once.
OneWornPerPlace(inv) ==
    \A i, j \in Held(inv) :
        inv[i].worn /\ inv[j].worn /\ WornAs[inv[i].item] = WornAs[inv[j].item] => i = j

\* A kind of potion fills one slot.
OneStackPerPotion(inv) ==
    \A i, j \in Index : inv[i].item \in Potions /\ inv[i].item = inv[j].item => i = j

Orderly(inv) == SlotsAgree(inv) /\ OneWornPerPlace(inv) /\ OneStackPerPotion(inv)
=============================================================================
