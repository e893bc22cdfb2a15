---------------------------- MODULE EconomyProofs ----------------------------
(***************************************************************************)
(* Machine-checked proofs about Economy, for any players, items, slots,    *)
(* ground, prices and limits. The operations of Inventory come first: each *)
(* keeps the slots orderly. Then the invariant that holds the state        *)
(* together, and what the belongings of a ghost do. Then the accounts: how *)
(* much of an item, and how much gold, the players, their safes and the    *)
(* ground hold, which are sums over sets that a step changes in one or two *)
(* places, and what each step enters in them. Last, the restoration of a   *)
(* saved inventory, slot by slot.                                          *)
(***************************************************************************)
EXTENDS Economy, TLAPS, FiniteSetTheorems, SequenceTheorems

\* The least of some natural numbers is one of them.
LEMMA MinIsMember ==
    ASSUME NEW S \in SUBSET Nat, S # {}
    PROVE  Min(S) \in S /\ \A i \in S : Min(S) <= i
<1>1. PICK n \in S : \A m \in S : n <= m
  <2>1. IsWellFoundedOn({pair \in Nat \X Nat : pair[1] < pair[2]}, Nat)
    BY NatLessThanWellFounded, Zenon DEF OpToRel
  <2>2. PICK n \in S : \A m \in S : <<m, n>> \notin {pair \in Nat \X Nat : pair[1] < pair[2]}
    BY <2>1, WFMin, Zenon
  <2>3. \A m \in S : ~(m < n)
    BY <2>2, Zenon
  <2> QED
    BY <2>3
<1> QED
  BY <1>1 DEF Min

\* A slot index is a natural number.
LEMMA IndexIsNat == Index \subseteq Nat
  BY MaxItemsAssumption DEF Index

\* What is added fits the slots, and they stay orderly.
LEMMA AddItemKeepsOrder ==
    ASSUME NEW inventory \in Slots, Orderly(inventory), NEW k \in Items, NEW q \in Nat \ {0},
           k \in Gear => q = 1, CanAdd(inventory, k)
    PROVE  AddItem(inventory, k, q) \in Slots /\ Orderly(AddItem(inventory, k, q))
<1> USE ItemsAssumption, MaxItemsAssumption DEF Slots, Slot, Items
<1>1. CASE StacksOn(inventory, k)
  <2> DEFINE i == Min(Named(inventory, k))
  <2>1. i \in Index /\ inventory[i].item = k /\ k \in Potions
    BY <1>1, MinIsMember, IndexIsNat DEF StacksOn, HasItem, Named
  <2>2. AddItem(inventory, k, q) = [inventory EXCEPT ![i].qty = @ + q]
    BY <1>1 DEF AddItem
  <2> HIDE DEF i
  <2>3. AddItem(inventory, k, q) \in Slots
    BY <2>1, <2>2
  <2>4. \A j \in Index : /\ AddItem(inventory, k, q)[j].item = inventory[j].item
                         /\ AddItem(inventory, k, q)[j].worn = inventory[j].worn
                         /\ AddItem(inventory, k, q)[j].qty =
                              IF j = i THEN inventory[j].qty + q ELSE inventory[j].qty
    BY <2>1, <2>2
  <2>5. SlotsAgree(AddItem(inventory, k, q))
    BY <2>1, <2>4 DEF Orderly, SlotsAgree
  <2> QED
    BY <2>3, <2>4, <2>5 DEF Orderly, OneWornPerPlace, OneStackPerPotion, Held, Vacant, Named
<1>2. CASE ~StacksOn(inventory, k)
  <2> DEFINE i == Min(Vacant(inventory))
             s == [item |-> k, qty |-> q, worn |-> FALSE]
  <2>1. i \in Index /\ inventory[i].item = NoItem
    BY <1>2, MinIsMember, IndexIsNat DEF StacksOn, CanAdd, Vacant, Named
  <2>2. AddItem(inventory, k, q) = [inventory EXCEPT ![i] = s]
    BY <1>2 DEF AddItem
  <2>3. k \in Potions => \A j \in Index : inventory[j].item # k
    BY <1>2 DEF StacksOn, HasItem, Named
  <2>4. s \in Slot /\ s.item = k /\ s.qty = q /\ s.worn = FALSE
    OBVIOUS
  <2> HIDE DEF i, s
  <2>5. AddItem(inventory, k, q) \in Slots
    BY <2>1, <2>2, <2>4
  <2>6. \A j \in Index : AddItem(inventory, k, q)[j] = IF j = i THEN s ELSE inventory[j]
    BY <2>1, <2>2
  <2>7. SlotsAgree(AddItem(inventory, k, q))
    BY <2>4, <2>6 DEF Orderly, SlotsAgree
  <2>8. OneWornPerPlace(AddItem(inventory, k, q))
    BY <2>4, <2>6 DEF Orderly, OneWornPerPlace, Held, Vacant, Named
  <2>9. OneStackPerPotion(AddItem(inventory, k, q))
    BY <2>3, <2>4, <2>6 DEF Orderly, OneStackPerPotion
  <2> QED
    BY <2>5, <2>7, <2>8, <2>9 DEF Orderly
<1> QED
  BY <1>1, <1>2

\* Emptying a slot keeps the others.
LEMMA EmptyingKeepsOrder ==
    ASSUME NEW inventory \in Slots, Orderly(inventory), NEW i \in Index
    PROVE  /\ [inventory EXCEPT ![i] = EmptySlot] \in Slots
           /\ Orderly([inventory EXCEPT ![i] = EmptySlot])
<1> USE ItemsAssumption DEF Slots, Slot, Items
<1> DEFINE after == [inventory EXCEPT ![i] = EmptySlot]
<1>1. /\ EmptySlot \in Slot
      /\ EmptySlot.item = NoItem /\ EmptySlot.qty = 0 /\ EmptySlot.worn = FALSE
  BY DEF EmptySlot
<1>2. \A j \in Index : after[j] = IF j = i THEN EmptySlot ELSE inventory[j]
  OBVIOUS
<1>3. after \in Slots
  BY <1>1
<1> HIDE DEF after
<1>4. SlotsAgree(after)
  BY <1>1, <1>2 DEF Orderly, SlotsAgree
<1>5. OneWornPerPlace(after)
  BY <1>1, <1>2 DEF Orderly, OneWornPerPlace, Held, Vacant, Named
<1>6. OneStackPerPotion(after)
  BY <1>1, <1>2 DEF Orderly, OneStackPerPotion
<1> QED
  BY <1>3, <1>4, <1>5, <1>6 DEF Orderly, after

\* A unit less, of a stack or of the last one, keeps the slots orderly.
LEMMA RemoveOneKeepsOrder ==
    ASSUME NEW inventory \in Slots, Orderly(inventory), NEW i \in Held(inventory)
    PROVE  RemoveOne(inventory, i) \in Slots /\ Orderly(RemoveOne(inventory, i))
<1> USE ItemsAssumption DEF Slots, Slot, Items
<1>1. i \in Index
  BY DEF Held
<1>2. CASE ~(inventory[i].qty > 1)
  BY <1>1, <1>2, EmptyingKeepsOrder DEF RemoveOne
<1>3. CASE inventory[i].qty > 1
  <2> DEFINE after == [inventory EXCEPT ![i].qty = @ - 1]
  <2>1. RemoveOne(inventory, i) = after
    BY <1>3 DEF RemoveOne
  <2>2. \A j \in Index : /\ after[j].item = inventory[j].item
                         /\ after[j].worn = inventory[j].worn
                         /\ after[j].qty = IF j = i THEN inventory[j].qty - 1
                                                    ELSE inventory[j].qty
    BY <1>1
  <2>3. after \in Slots
    BY <1>1, <1>3
  <2> HIDE DEF after
  <2>4. SlotsAgree(after)
    BY <1>1, <1>3, <2>2 DEF Orderly, SlotsAgree
  <2>5. OneWornPerPlace(after)
    BY <2>2 DEF Orderly, OneWornPerPlace, Held, Vacant, Named
  <2>6. OneStackPerPotion(after)
    BY <2>2 DEF Orderly, OneStackPerPotion
  <2> QED
    BY <2>1, <2>3, <2>4, <2>5, <2>6 DEF Orderly
<1> QED
  BY <1>2, <1>3

\* Wearing, swapping, taking off and drinking keep one worn item per place.
LEMMA EquipKeepsOrder ==
    ASSUME NEW inventory \in Slots, Orderly(inventory), NEW i \in Held(inventory)
    PROVE  Equip(inventory, i) \in Slots /\ Orderly(Equip(inventory, i))
<1> USE ItemsAssumption DEF Slots, Slot, Items
<1>1. i \in Index /\ inventory[i].item # NoItem
  BY DEF Held, Vacant, Named
<1>2. CASE inventory[i].item \in Potions
  <2>1. ~inventory[i].worn
    BY <1>1, <1>2 DEF Orderly, SlotsAgree
  <2>2. Equip(inventory, i) = RemoveOne(inventory, i)
    BY <1>2, <2>1 DEF Equip
  <2> QED
    BY <2>2, RemoveOneKeepsOrder
<1>3. CASE inventory[i].item \notin Potions /\ inventory[i].worn
  <2> DEFINE after == [inventory EXCEPT ![i].worn = FALSE]
  <2>1. Equip(inventory, i) = after
    BY <1>3 DEF Equip
  <2>2. \A j \in Index : /\ after[j].item = inventory[j].item
                         /\ after[j].qty = inventory[j].qty
                         /\ after[j].worn = IF j = i THEN FALSE ELSE inventory[j].worn
    BY <1>1
  <2>3. after \in Slots
    BY <1>1
  <2> HIDE DEF after
  <2>4. SlotsAgree(after)
    BY <2>2 DEF Orderly, SlotsAgree
  <2>5. OneWornPerPlace(after)
    BY <2>2 DEF Orderly, OneWornPerPlace, Held, Vacant, Named
  <2>6. OneStackPerPotion(after)
    BY <2>2 DEF Orderly, OneStackPerPotion
  <2> QED
    BY <2>1, <2>3, <2>4, <2>5, <2>6 DEF Orderly
<1>4. CASE inventory[i].item \notin Potions /\ ~inventory[i].worn
  <2> DEFINE after == [j \in Index |->
                         IF j = i THEN [inventory[j] EXCEPT !.worn = TRUE]
                         ELSE IF j \in Swapped(inventory, i)
                                THEN [inventory[j] EXCEPT !.worn = FALSE]
                         ELSE inventory[j]]
  <2>1. Equip(inventory, i) = after
    BY <1>4 DEF Equip
  <2>2. \A j \in Index : /\ after[j].item = inventory[j].item
                         /\ after[j].qty = inventory[j].qty
                         /\ after[j].worn = IF j = i THEN TRUE
                                            ELSE IF j \in Swapped(inventory, i) THEN FALSE
                                            ELSE inventory[j].worn
    BY <1>1
  <2>3. after \in Slots
    BY <1>1
  \* The swap finds whatever else is worn there: there is at most one.
  <2>4. \A j \in Held(inventory) \ {i} :
          inventory[j].worn /\ WornAs[inventory[j].item] = WornAs[inventory[i].item]
            => j \in Swapped(inventory, i)
    <3> SUFFICES ASSUME NEW j \in Held(inventory) \ {i}, inventory[j].worn,
                        WornAs[inventory[j].item] = WornAs[inventory[i].item]
                 PROVE  j \in Swapped(inventory, i)
      OBVIOUS
    <3> DEFINE others == WornAt(inventory, WornAs[inventory[i].item]) \ {i}
    <3>1. j \in others /\ others \in SUBSET Nat
      BY IndexIsNat DEF WornAt, Held
    <3>2. Min(others) \in others
      BY <3>1, MinIsMember
    <3>3. Min(others) = j
      BY <3>1, <3>2 DEF WornAt, Orderly, OneWornPerPlace
    <3> QED
      BY <3>1, <3>3 DEF Swapped
  <2> HIDE DEF after
  <2>5. SlotsAgree(after)
    <3>1. inventory[i].item \in Gear
      BY <1>1, <1>4
    <3> QED
      BY <2>2, <3>1 DEF Orderly, SlotsAgree
  <2>6. OneWornPerPlace(after)
    <3>1. Held(after) = Held(inventory)
      BY <2>2 DEF Held, Vacant, Named
    <3>2. \A j \in Held(inventory) \ {i} :
            after[j].worn => WornAs[inventory[j].item] # WornAs[inventory[i].item]
      BY <2>2, <2>4 DEF Held
    <3>3. \A j \in Held(inventory) \ {i} : after[j].worn => inventory[j].worn
      BY <2>2 DEF Held
    <3>4. \A j \in Index : after[j].item = inventory[j].item
      BY <2>2
    <3>5. \A j, k \in Held(inventory) \ {i} :
            after[j].worn /\ after[k].worn /\ WornAs[after[j].item] = WornAs[after[k].item]
              => j = k
      BY <3>3, <3>4 DEF Orderly, OneWornPerPlace, Held
    <3> QED
      BY <1>1, <3>1, <3>2, <3>4, <3>5 DEF OneWornPerPlace, Held
  <2>7. OneStackPerPotion(after)
    BY <2>2 DEF Orderly, OneStackPerPotion
  <2> QED
    BY <2>1, <2>3, <2>5, <2>6, <2>7 DEF Orderly
<1> QED
  BY <1>2, <1>3, <1>4

\* What a save brings back is orderly when what was saved was.
LEMMA RestoredKeepsOrder ==
    ASSUME NEW saved \in Slots, Orderly(saved)
    PROVE  Restored(saved) \in Slots /\ Orderly(Restored(saved))
<1> USE ItemsAssumption DEF Slots, Slot, Items
<1> DEFINE full == {i \in Index : \E j \in Held(saved) : Order(Held(saved), j) = i}
           from(i) == CHOOSE j \in Held(saved) : Order(Held(saved), j) = i
           after == Restored(saved)
<1>1. \A i \in full : from(i) \in Held(saved) /\ Order(Held(saved), from(i)) = i
  <2> SUFFICES ASSUME NEW i \in full
               PROVE  from(i) \in Held(saved) /\ Order(Held(saved), from(i)) = i
    OBVIOUS
  <2>1. \E j \in Held(saved) : Order(Held(saved), j) = i
    OBVIOUS
  <2> QED
    BY <2>1, Zenon
<1>2. \A i, k \in full : from(i) = from(k) => i = k
  BY <1>1, Zenon
<1>3. after = [i \in Index |-> IF i \in full THEN saved[from(i)] ELSE EmptySlot]
  BY DEF Restored
<1>4. \A i \in Index \ full : after[i] = EmptySlot
  BY <1>3
<1>5. \A i \in full : after[i] = saved[from(i)]
  BY <1>3
<1>6. full \subseteq Index /\ \A i \in full : from(i) \in Index
  BY <1>1 DEF Held
<1>7. /\ EmptySlot \in Slot
      /\ EmptySlot.item = NoItem /\ EmptySlot.qty = 0 /\ EmptySlot.worn = FALSE
  BY DEF EmptySlot
<1>8. after \in Slots
  BY <1>3, <1>6, <1>7
<1>9. \A i \in Held(after) : i \in full
  BY <1>4, <1>7 DEF Held, Vacant, Named
<1> HIDE DEF after, full, from
<1>10. SlotsAgree(after)
  <2> SUFFICES ASSUME NEW i \in Index
               PROVE  /\ after[i].qty = 0 <=> after[i].item = NoItem
                      /\ after[i].item \in Gear => after[i].qty = 1
                      /\ after[i].worn => after[i].item \in Gear
    BY DEF SlotsAgree
  <2>1. CASE i \in full
    BY <1>5, <1>6, <2>1 DEF Orderly, SlotsAgree
  <2>2. CASE i \notin full
    BY <1>4, <1>7, <2>2
  <2> QED
    BY <2>1, <2>2
<1>11. OneWornPerPlace(after)
  BY <1>1, <1>2, <1>5, <1>9 DEF Orderly, OneWornPerPlace
<1>12. OneStackPerPotion(after)
  <2> SUFFICES ASSUME NEW i \in Index, NEW j \in Index,
                      after[i].item \in Potions, after[i].item = after[j].item
               PROVE  i = j
    BY DEF OneStackPerPotion
  <2>1. i \in full /\ j \in full
    BY <1>4, <1>7
  <2>2. from(i) = from(j)
    BY <1>5, <1>6, <2>1 DEF Orderly, OneStackPerPotion
  <2> QED
    BY <1>2, <2>1, <2>2
<1> QED
  BY <1>8, <1>10, <1>11, <1>12 DEF Orderly, after

\* A pile that is scattered adds to the ground only what is in the pile.
LEMMA ScatteredLiesOnGround ==
    ASSUME NEW Things, NEW g \in [Cells -> Things \cup {Nothing}], NEW c \in Cells,
           NEW pile, \A n \in DOMAIN pile : pile[n] \in Things
    PROVE  Scattered(g, c, pile) \in [Cells -> Things \cup {Nothing}]
<1> SUFFICES ASSUME NEW x \in Cells
             PROVE  (IF \E n \in DOMAIN pile : Lands(g, c, pile, n, x)
                       THEN pile[CHOOSE n \in DOMAIN pile : Lands(g, c, pile, n, x)]
                       ELSE g[x]) \in Things \cup {Nothing}
  BY DEF Scattered
<1>1. CASE \E n \in DOMAIN pile : Lands(g, c, pile, n, x)
  <2>1. (CHOOSE n \in DOMAIN pile : Lands(g, c, pile, n, x)) \in DOMAIN pile
    BY <1>1, Zenon
  <2> QED
    BY <1>1, <2>1
<1>2. CASE ~\E n \in DOMAIN pile : Lands(g, c, pile, n, x)
  BY <1>2
<1> QED
  BY <1>1, <1>2

\* The first of its name leaves the safe, the rest stays.
LEMMA RemoveFirstLeavesItems ==
    ASSUME NEW S, NEW s \in Seq(S), NEW e
    PROVE  RemoveFirst(s, e) \in Seq(S)
<1>1. CASE ~\E i \in 1..Len(s) : s[i] = e
  BY <1>1 DEF RemoveFirst
<1>2. CASE \E i \in 1..Len(s) : s[i] = e
  <2> DEFINE at == {i \in 1..Len(s) : s[i] = e}
             first == Min(at)
  <2>1. at \in SUBSET Nat /\ at # {}
    BY <1>2
  <2>2. first \in 1..Len(s)
    BY <2>1, MinIsMember
  <2>3. RemoveFirst(s, e) = SubSeq(s, 1, first - 1) \o SubSeq(s, first + 1, Len(s))
    BY <1>2 DEF RemoveFirst, RemoveAt, SelectInSeq
  <2> HIDE DEF first
  <2>4. SubSeq(s, 1, first - 1) \in Seq(S) /\ SubSeq(s, first + 1, Len(s)) \in Seq(S)
    BY <2>2, SubSeqProperties
  <2> QED
    BY <2>3, <2>4, ConcatProperties
<1> QED
  BY <1>1, <1>2

-----------------------------------------------------------------------------
\* Sums over finite sets, and the order of the elements of one.

\* Induction over the natural numbers, for a set: among the numbers outside it there
\* would be a least one.
LEMMA NatSetInduction ==
    ASSUME NEW T \in SUBSET Nat, 0 \in T, \A n \in T : n + 1 \in T
    PROVE  T = Nat
<1> SUFFICES ASSUME Nat \ T # {} PROVE FALSE
  OBVIOUS
<1>1. IsWellFoundedOn({pair \in Nat \X Nat : pair[1] < pair[2]}, Nat)
  BY NatLessThanWellFounded, Zenon DEF OpToRel
<1>2. PICK n \in Nat \ T : \A m \in Nat \ T : <<m, n>> \notin {pair \in Nat \X Nat : pair[1] < pair[2]}
  BY <1>1, WFMin, Zenon
<1>3. \A m \in Nat \ T : ~(m < n)
  BY <1>2, Zenon
<1>4. n # 0 /\ n - 1 \in Nat
  OBVIOUS
<1>5. n - 1 \in T
  BY <1>3, <1>4
<1> QED
  BY <1>5

\* Induction over the subsets of a finite set: if a class holds every subset of which it
\* holds the subsets with an element less, it holds them all.
LEMMA SubsetInduction ==
    ASSUME NEW S, IsFiniteSet(S), NEW C,
           \A T \in SUBSET S : (\A x \in T : T \ {x} \in C) => T \in C
    PROVE  \A T \in SUBSET S : T \in C
<1> DEFINE N == {n \in Nat : \A T \in SUBSET S : Cardinality(T) = n => T \in C}
<1>1. \A T \in SUBSET S : IsFiniteSet(T) /\ Cardinality(T) \in Nat
  BY FS_Subset, FS_CardinalityType
<1>2. 0 \in N
  <2> SUFFICES ASSUME NEW T \in SUBSET S, Cardinality(T) = 0 PROVE T \in C
    OBVIOUS
  <2>1. T = {}
    BY <1>1, FS_EmptySet
  <2> QED
    BY <2>1
<1>3. ASSUME NEW n \in N PROVE n + 1 \in N
  <2> SUFFICES ASSUME NEW T \in SUBSET S, Cardinality(T) = n + 1 PROVE T \in C
    OBVIOUS
  <2>1. ASSUME NEW x \in T PROVE T \ {x} \in C
    <3>1. Cardinality(T \ {x}) = n
      BY <1>1, FS_RemoveElement
    <3> QED
      BY <3>1
  <2> QED
    BY <2>1
<1>4. N = Nat
  <2> HIDE DEF N
  <2>1. N \in SUBSET Nat
    BY DEF N
  <2> QED
    BY <2>1, <1>2, <1>3, NatSetInduction
<1> QED
  BY <1>1, <1>4

\* The recursion that SumFunctionOnSet is defined by.
Element(s) == CHOOSE x \in s : TRUE
SumStep(g, f, s) == IF s = {} THEN 0 ELSE f[Element(s)] + g[s \ {Element(s)}]
IsSum(g, f, S) == g = [s \in SUBSET S |-> SumStep(g, f, s)]

\* There is a function that satisfies it.
LEMMA SumExists ==
    ASSUME NEW f, NEW S, IsFiniteSet(S)
    PROVE  \E g : IsSum(g, f, S)
<1> DEFINE D(n) == {s \in SUBSET S : Cardinality(s) <= n}
           N == {n \in Nat : \E g : g = [s \in D(n) |-> SumStep(g, f, s)]}
<1>1. \A T \in SUBSET S : IsFiniteSet(T) /\ Cardinality(T) \in Nat
  BY FS_Subset, FS_CardinalityType
<1>2. \A T \in SUBSET S : T # {} => /\ Element(T) \in T
                                    /\ Cardinality(T \ {Element(T)}) = Cardinality(T) - 1
  BY <1>1, FS_RemoveElement DEF Element
<1>3. 0 \in N
  <2>1. \A s \in D(0) : s = {}
    BY <1>1, FS_EmptySet
  <2> DEFINE g == [s \in D(0) |-> 0]
  <2>2. g = [s \in D(0) |-> SumStep(g, f, s)]
    BY <2>1 DEF SumStep
  <2> QED
    BY <2>2
<1>4. ASSUME NEW n \in N PROVE n + 1 \in N
  <2>1. PICK g : g = [s \in D(n) |-> SumStep(g, f, s)]
    OBVIOUS
  <2> DEFINE h == [s \in D(n + 1) |-> IF s \in D(n) THEN g[s] ELSE SumStep(g, f, s)]
  <2>2. ASSUME NEW s \in D(n + 1) PROVE h[s] = SumStep(h, f, s)
    <3>1. h[s] = SumStep(g, f, s)
      BY <2>1
    <3>2. CASE s = {}
      BY <3>1, <3>2 DEF SumStep
    <3>3. CASE s # {}
      <4>1. s \ {Element(s)} \in D(n)
        BY <1>1, <1>2, <3>3
      <4>2. h[s \ {Element(s)}] = g[s \ {Element(s)}]
        BY <1>1, <4>1
      <4> QED
        BY <3>1, <3>3, <4>2 DEF SumStep
    <3> QED
      BY <3>2, <3>3
  <2>3. h = [s \in D(n + 1) |-> SumStep(h, f, s)]
    BY <2>2
  <2>4. \E k : k = [s \in D(n + 1) |-> SumStep(k, f, s)]
    <3> HIDE DEF h, D
    <3> QED
      BY <2>3
  <2>5. n + 1 \in Nat
    OBVIOUS
  <2> HIDE DEF D, h
  <2> QED
    BY <2>4, <2>5, Zenon
<1>5. N = Nat
  <2> HIDE DEF N
  <2>1. N \in SUBSET Nat
    BY DEF N
  <2> QED
    BY <2>1, <1>3, <1>4, NatSetInduction
<1>6. D(Cardinality(S)) = SUBSET S
  BY <1>1, FS_Subset
<1>7. PICK g : g = [s \in D(Cardinality(S)) |-> SumStep(g, f, s)]
  BY <1>1, <1>5
<1> HIDE DEF D
<1>8. IsSum(g, f, S)
  BY <1>6, <1>7 DEF IsSum
<1> QED
  BY <1>8

\* SumFunctionOnSet is a value of such a function.
LEMMA SumIsRecursive ==
    ASSUME NEW f, NEW S, IsFiniteSet(S)
    PROVE  \E g : IsSum(g, f, S) /\ SumFunctionOnSet(f, S) = g[S]
<1>1. SumFunctionOnSet(f, S) = (CHOOSE g : IsSum(g, f, S))[S]
  BY DEF SumFunctionOnSet, FoldFunctionOnSet, MapThenFoldSet, IsSum, SumStep, Element
<1> QED
  BY <1>1, SumExists, Zenon

\* Two sums agree where their summands do.
LEMMA SumsAgree ==
    ASSUME NEW f, NEW e, NEW S, NEW T, NEW g, NEW h, IsFiniteSet(S),
           IsSum(g, f, S), IsSum(h, e, T),
           NEW V, V \subseteq S, V \subseteq T, \A x \in V : f[x] = e[x]
    PROVE  g[V] = h[V]
<1> DEFINE C == {U \in SUBSET V : g[U] = h[U]}
<1>1. ASSUME NEW U \in SUBSET V, \A x \in U : U \ {x} \in C
      PROVE  U \in C
  <2>1. g[U] = SumStep(g, f, U) /\ h[U] = SumStep(h, e, U)
    BY DEF IsSum
  <2>2. CASE U = {}
    BY <2>1, <2>2 DEF SumStep
  <2>3. CASE U # {}
    <3>1. Element(U) \in U
      BY <2>3 DEF Element
    <3>2. g[U \ {Element(U)}] = h[U \ {Element(U)}] /\ f[Element(U)] = e[Element(U)]
      BY <1>1, <3>1
    <3> QED
      BY <2>1, <3>2 DEF SumStep
  <2> QED
    BY <2>2, <2>3
<1>2. IsFiniteSet(V)
  BY FS_Subset
<1> HIDE DEF C
<1>3. \A U \in SUBSET V : (\A x \in U : U \ {x} \in C) => U \in C
  BY <1>1
<1>4. \A U \in SUBSET V : U \in C
  BY <1>2, <1>3, SubsetInduction, Zenon

<1> QED
  BY <1>4 DEF C

\* The sum over no element, and with an element taken out.
LEMMA SumOfNone ==
    ASSUME NEW f PROVE SumFunctionOnSet(f, {}) = 0
<1>1. PICK g : IsSum(g, f, {}) /\ SumFunctionOnSet(f, {}) = g[{}]
  BY FS_EmptySet, SumIsRecursive
<1> QED
  BY <1>1 DEF IsSum, SumStep

\* Equal summands, equal sums.
LEMMA SumSame ==
    ASSUME NEW f, NEW e, NEW S, IsFiniteSet(S), \A x \in S : f[x] = e[x]
    PROVE  SumFunctionOnSet(f, S) = SumFunctionOnSet(e, S)
<1>1. PICK g : IsSum(g, f, S) /\ SumFunctionOnSet(f, S) = g[S]
  BY SumIsRecursive
<1>2. PICK h : IsSum(h, e, S) /\ SumFunctionOnSet(e, S) = h[S]
  BY SumIsRecursive
<1> QED
  BY <1>1, <1>2, SumsAgree

\* A sum is its element and the sum over the rest.
LEMMA SumWithoutItsElement ==
    ASSUME NEW f, NEW S, IsFiniteSet(S), S # {}
    PROVE  /\ Element(S) \in S
           /\ SumFunctionOnSet(f, S) = f[Element(S)] + SumFunctionOnSet(f, S \ {Element(S)})
<1> DEFINE R == S \ {Element(S)}
<1>1. Element(S) \in S
  BY DEF Element
<1>2. IsFiniteSet(R)
  BY FS_RemoveElement
<1>3. PICK g : IsSum(g, f, S) /\ SumFunctionOnSet(f, S) = g[S]
  BY SumIsRecursive
<1>4. PICK h : IsSum(h, f, R) /\ SumFunctionOnSet(f, R) = h[R]
  BY <1>2, SumIsRecursive
<1>5. g[R] = h[R]
  BY <1>3, <1>4, SumsAgree
<1>6. g[S] = f[Element(S)] + g[R]
  BY <1>3 DEF IsSum, SumStep
<1> QED
  BY <1>1, <1>3, <1>4, <1>5, <1>6

\* Sums of integers are integers.
LEMMA SumIsInt ==
    ASSUME NEW f, NEW S, IsFiniteSet(S), \A x \in S : f[x] \in Int
    PROVE  SumFunctionOnSet(f, S) \in Int
<1> DEFINE C == {T \in SUBSET S : SumFunctionOnSet(f, T) \in Int}
<1>1. ASSUME NEW T \in SUBSET S, \A x \in T : T \ {x} \in C
      PROVE  T \in C
  <2>1. IsFiniteSet(T)
    BY FS_Subset
  <2>2. CASE T = {}
    BY <2>2, SumOfNone
  <2>3. CASE T # {}
    <3>1. /\ Element(T) \in T
          /\ SumFunctionOnSet(f, T) = f[Element(T)] + SumFunctionOnSet(f, T \ {Element(T)})
      BY <2>1, <2>3, SumWithoutItsElement
    <3>2. f[Element(T)] \in Int /\ SumFunctionOnSet(f, T \ {Element(T)}) \in Int
      BY <1>1, <3>1
    <3> QED
      BY <3>1, <3>2
  <2> QED
    BY <2>2, <2>3
<1> HIDE DEF C
<1>2. \A T \in SUBSET S : (\A x \in T : T \ {x} \in C) => T \in C
  BY <1>1
<1>3. \A T \in SUBSET S : T \in C
  BY <1>2, SubsetInduction, Zenon
<1> QED
  BY <1>3 DEF C

\* Any element may be taken out first.
LEMMA SumWithout ==
    ASSUME NEW f, NEW S, IsFiniteSet(S), \A y \in S : f[y] \in Int, NEW x \in S
    PROVE  SumFunctionOnSet(f, S) = f[x] + SumFunctionOnSet(f, S \ {x})
<1> DEFINE Sum(T) == SumFunctionOnSet(f, T)
           C == {T \in SUBSET S : \A y \in T : Sum(T) = f[y] + Sum(T \ {y})}
<1>1. ASSUME NEW T \in SUBSET S, \A y \in T : T \ {y} \in C
      PROVE  T \in C
  <2> SUFFICES ASSUME NEW y \in T PROVE Sum(T) = f[y] + Sum(T \ {y})
    OBVIOUS
  <2>1. \A U \in SUBSET S : IsFiniteSet(U) /\ Sum(U) \in Int
    BY FS_Subset, SumIsInt
  <2> DEFINE z == Element(T)
  <2>2. z \in T /\ Sum(T) = f[z] + Sum(T \ {z})
    BY <2>1, SumWithoutItsElement
  <2> HIDE DEF z, Sum
  <2>3. CASE y = z
    BY <2>2, <2>3
  <2>4. CASE y # z
    <3>1. Sum(T \ {z}) = f[y] + Sum((T \ {z}) \ {y})
      BY <1>1, <2>2, <2>4
    <3>2. Sum(T \ {y}) = f[z] + Sum((T \ {y}) \ {z})
      BY <1>1, <2>2, <2>4
    <3>3. (T \ {z}) \ {y} = (T \ {y}) \ {z}
      OBVIOUS
    <3>4. /\ f[y] \in Int /\ f[z] \in Int
          /\ Sum((T \ {y}) \ {z}) \in Int
      <4>1. (T \ {y}) \ {z} \in SUBSET S
        OBVIOUS
      <4> QED
        BY <2>1, <2>2, <4>1
    <3>5. Sum(T) = f[z] + (f[y] + Sum((T \ {y}) \ {z}))
      BY <2>2, <3>1, <3>3
    <3> QED
      BY <3>2, <3>4, <3>5
  <2> QED
    BY <2>3, <2>4
<1> HIDE DEF C
<1>2. \A T \in SUBSET S : (\A y \in T : T \ {y} \in C) => T \in C
  BY <1>1
<1>3. \A T \in SUBSET S : T \in C
  BY <1>2, SubsetInduction, Zenon
<1> QED
  BY <1>3 DEF C

\* A summand that changes.
LEMMA SumWithChange ==
    ASSUME NEW f, NEW e, NEW S, IsFiniteSet(S), \A y \in S : f[y] \in Int /\ e[y] \in Int,
           NEW x \in S, \A y \in S \ {x} : e[y] = f[y]
    PROVE  SumFunctionOnSet(e, S) = SumFunctionOnSet(f, S) - f[x] + e[x]
<1>1. IsFiniteSet(S \ {x})
  BY FS_RemoveElement
<1>2. SumFunctionOnSet(e, S \ {x}) = SumFunctionOnSet(f, S \ {x})
  BY <1>1, SumSame
<1>3. SumFunctionOnSet(f, S \ {x}) \in Int
  BY <1>1, SumIsInt
<1>4. /\ SumFunctionOnSet(f, S) = f[x] + SumFunctionOnSet(f, S \ {x})
      /\ SumFunctionOnSet(e, S) = e[x] + SumFunctionOnSet(e, S \ {x})
  BY SumWithout
<1> QED
  BY <1>2, <1>3, <1>4

\* Nothing comes of nothing.
LEMMA SumOfZeros ==
    ASSUME NEW f, NEW S, IsFiniteSet(S), \A x \in S : f[x] = 0
    PROVE  SumFunctionOnSet(f, S) = 0
<1> DEFINE C == {T \in SUBSET S : SumFunctionOnSet(f, T) = 0}
<1>1. ASSUME NEW T \in SUBSET S, \A x \in T : T \ {x} \in C
      PROVE  T \in C
  <2>1. CASE T = {}
    BY <2>1, SumOfNone
  <2>2. CASE T # {}
    <3>1. /\ Element(T) \in T
          /\ SumFunctionOnSet(f, T) = f[Element(T)] + SumFunctionOnSet(f, T \ {Element(T)})
      BY <2>2, FS_Subset, SumWithoutItsElement
    <3> QED
      BY <1>1, <3>1
  <2> QED
    BY <2>1, <2>2
<1> HIDE DEF C
<1>2. \A T \in SUBSET S : (\A x \in T : T \ {x} \in C) => T \in C
  BY <1>1
<1>3. \A T \in SUBSET S : T \in C
  BY <1>2, SubsetInduction, Zenon
<1> QED
  BY <1>3 DEF C

\* The sum over two parts.
LEMMA SumOfParts ==
    ASSUME NEW f, NEW A, NEW B, IsFiniteSet(A), IsFiniteSet(B), A \cap B = {},
           \A x \in A \cup B : f[x] \in Int
    PROVE  SumFunctionOnSet(f, A \cup B) = SumFunctionOnSet(f, A) + SumFunctionOnSet(f, B)
<1> DEFINE Sum(T) == SumFunctionOnSet(f, T)
           C == {T \in SUBSET A : Sum(T \cup B) = Sum(T) + Sum(B)}
<1>1. \A T \in SUBSET A : /\ IsFiniteSet(T) /\ IsFiniteSet(T \cup B)
                          /\ Sum(T) \in Int /\ Sum(T \cup B) \in Int
  <2> SUFFICES ASSUME NEW T \in SUBSET A
               PROVE  /\ IsFiniteSet(T) /\ IsFiniteSet(T \cup B)
                      /\ Sum(T) \in Int /\ Sum(T \cup B) \in Int
    OBVIOUS
  <2>1. IsFiniteSet(T) /\ IsFiniteSet(T \cup B)
    BY FS_Subset, FS_Union
  <2> QED
    BY <2>1, SumIsInt
<1>2. Sum(B) \in Int
  BY SumIsInt
<1>3. ASSUME NEW T \in SUBSET A, \A x \in T : T \ {x} \in C
      PROVE  T \in C
  <2>1. CASE T = {}
    <3>1. Sum(T) = 0 /\ T \cup B = B
      BY <2>1, SumOfNone
    <3> QED
      BY <1>2, <3>1
  <2>2. CASE T # {}
    <3>1. PICK x \in T : T \ {x} \in C
      BY <1>3, <2>2
    <3>0. IsFiniteSet(T) /\ IsFiniteSet(T \cup B) /\ \A y \in T \cup B : f[y] \in Int
      BY <1>1
    <3>2. Sum(T) = f[x] + Sum(T \ {x})
      BY <3>0, SumWithout
    <3>3. Sum(T \cup B) = f[x] + Sum((T \cup B) \ {x})
      BY <3>0, SumWithout
    <3>4. (T \cup B) \ {x} = (T \ {x}) \cup B
      OBVIOUS
    <3>5. f[x] \in Int /\ Sum(T \ {x}) \in Int
      <4>1. T \ {x} \in SUBSET A
        OBVIOUS
      <4> QED
        BY <1>1, <4>1
    <3>6. Sum((T \ {x}) \cup B) = Sum(T \ {x}) + Sum(B)
      BY <3>1
    <3> HIDE DEF Sum
    <3>7. Sum(T \cup B) = f[x] + (Sum(T \ {x}) + Sum(B))
      BY <3>3, <3>4, <3>6
    <3>8. Sum(T \cup B) = Sum(T) + Sum(B)
      BY <1>2, <3>2, <3>5, <3>7
    <3> QED
      BY <3>8
  <2> QED
    BY <2>1, <2>2
<1> HIDE DEF C
<1>4. \A T \in SUBSET A : (\A x \in T : T \ {x} \in C) => T \in C
  BY <1>3
<1>5. \A T \in SUBSET A : T \in C
  BY <1>4, SubsetInduction, Zenon
<1> QED
  BY <1>5 DEF C

\* The summands under other names.
LEMMA SumRenamed ==
    ASSUME NEW f, NEW e, NEW A, NEW b, IsFiniteSet(A),
           \A x, y \in A : b[x] = b[y] => x = y,
           \A x \in A : f[x] \in Int /\ f[x] = e[b[x]]
    PROVE  /\ IsFiniteSet({b[x] : x \in A})
           /\ SumFunctionOnSet(f, A) = SumFunctionOnSet(e, {b[x] : x \in A})
<1> DEFINE Img(T) == {b[x] : x \in T}
           Same(T) == SumFunctionOnSet(f, T) = SumFunctionOnSet(e, Img(T))
           C == {T \in SUBSET A : IsFiniteSet(Img(T)) /\ Same(T)}
<1>1. ASSUME NEW T \in SUBSET A, \A x \in T : T \ {x} \in C
      PROVE  T \in C
  <2>1. CASE T = {}
    <3>1. Img(T) = {}
      BY <2>1
    <3> QED
      BY <2>1, <3>1, SumOfNone, FS_EmptySet
  <2>2. CASE T # {}
    <3>1. PICK x \in T : T \ {x} \in C
      BY <1>1, <2>2
    <3>2. Img(T) = Img(T \ {x}) \cup {b[x]} /\ b[x] \notin Img(T \ {x})
      OBVIOUS
    <3>3. IsFiniteSet(Img(T)) /\ Img(T) \ {b[x]} = Img(T \ {x})
      <4>1. IsFiniteSet(Img(T \ {x}))
        BY <3>1
      <4> DEFINE rest == Img(T \ {x})
      <4> HIDE DEF Img, rest
      <4>2. Img(T) = rest \cup {b[x]} /\ b[x] \notin rest
        BY <3>2 DEF rest
      <4>3. IsFiniteSet(rest \cup {b[x]})
        BY <4>1, FS_AddElement DEF rest
      <4>4. (rest \cup {b[x]}) \ {b[x]} = rest
        BY <4>2
      <4> QED
        BY <4>2, <4>3, <4>4 DEF rest
    <3>4. \A z \in Img(T) : e[z] \in Int
      OBVIOUS
    <3>5. SumFunctionOnSet(f, T) = f[x] + SumFunctionOnSet(f, T \ {x})
      BY FS_Subset, SumWithout
    <3>6. b[x] \in Img(T)
      OBVIOUS
    <3> HIDE DEF Img
    <3>7. SumFunctionOnSet(e, Img(T)) = e[b[x]] + SumFunctionOnSet(e, Img(T) \ {b[x]})
      BY <3>3, <3>4, <3>6, SumWithout
    <3> QED
      BY <3>1, <3>3, <3>5, <3>7
  <2> QED
    BY <2>1, <2>2
<1> HIDE DEF C
<1>2. \A T \in SUBSET A : (\A x \in T : T \ {x} \in C) => T \in C
  BY <1>1
<1>3. \A T \in SUBSET A : T \in C
  BY <1>2, SubsetInduction, Zenon
<1> QED
  BY <1>3 DEF C

\* The ranks of the elements of a finite set in an order without ties are the numbers
\* from 0 up, each once.
Below(f, S, x) == {y \in S : f[y] < f[x]}
Rank(f, S, x) == Cardinality(Below(f, S, x))

\* No two have the same rank, and every rank is taken.
LEMMA RanksAreDistinct ==
    ASSUME NEW S, IsFiniteSet(S), NEW f \in [S -> Int], \A x, y \in S : f[x] = f[y] => x = y
    PROVE  /\ Cardinality(S) \in Nat
           /\ \A x \in S : Rank(f, S, x) \in 0..Cardinality(S) - 1
           /\ \A x, y \in S : Rank(f, S, x) = Rank(f, S, y) => x = y
           /\ \A n \in 0..Cardinality(S) - 1 : \E x \in S : Rank(f, S, x) = n
<1> DEFINE Ranks == 0..Cardinality(S) - 1
           R == [x \in S |-> Rank(f, S, x)]
<1>1. Cardinality(S) \in Nat
  BY FS_CardinalityType
<1>2. ASSUME NEW x \in S PROVE Rank(f, S, x) \in Ranks
  <2>1. Below(f, S, x) \in SUBSET S /\ x \notin Below(f, S, x)
    BY DEF Below
  <2>2. /\ Cardinality(Below(f, S, x)) # Cardinality(S)
        /\ Cardinality(Below(f, S, x)) <= Cardinality(S)
    BY <2>1, FS_Subset
  <2>3. Cardinality(Below(f, S, x)) \in Nat
    BY <2>1, FS_Subset, FS_CardinalityType
  <2> QED
    BY <1>1, <2>2, <2>3 DEF Rank
<1>3. ASSUME NEW x \in S, NEW y \in S, f[x] < f[y] PROVE Rank(f, S, x) # Rank(f, S, y)
  <2>1. /\ Below(f, S, x) \in SUBSET Below(f, S, y)
        /\ x \in Below(f, S, y) /\ x \notin Below(f, S, x)
    BY <1>3 DEF Below
  <2>2. IsFiniteSet(Below(f, S, y))
    BY FS_Subset DEF Below
  <2> QED
    BY <2>1, <2>2, FS_Subset DEF Rank
<1>4. \A x, y \in S : Rank(f, S, x) = Rank(f, S, y) => x = y
  BY <1>3
<1>5. R \in Injection(S, Ranks)
  BY <1>2, <1>4 DEF Injection, IsInjective
<1>6. IsFiniteSet(Ranks) /\ Cardinality(Ranks) = Cardinality(S)
  <2> DEFINE last == Cardinality(S) - 1
  <2>1. last \in Int /\ last >= -1 /\ Cardinality(S) = last + 1
    BY <1>1
  <2> HIDE DEF last
  <2>2. IsFiniteSet(0..last) /\ Cardinality(0..last) = IF 0 > last THEN 0 ELSE last - 0 + 1
    <3>1. 0 \in Int /\ last \in Int
      BY <2>1
    <3> QED
      BY <3>1, FS_Interval, Zenon
  <2>3. IsFiniteSet(0..last) /\ Cardinality(0..last) = Cardinality(S)
    BY <2>1, <2>2
  <2> QED
    BY <2>3 DEF last
<1>7. \A n \in Ranks : \E x \in S : Rank(f, S, x) = n
  <2> HIDE DEF Ranks
  <2>1. R \in Surjection(S, Ranks)
    BY <1>5, <1>6, FS_Injection
  <2> QED
    BY <2>1 DEF Surjection
<1> QED
  BY <1>1, <1>2, <1>4, <1>7

-----------------------------------------------------------------------------
\* The invariant.

\* What may lie on the ground: gear that lies there has one unit, so what is picked up
\* keeps the slots in order.
Lying == {s \in Goods : s.item \in Gear => s.qty = 1} \cup Coins
LawfulGround == ground \in [Cells -> Lying \cup {Nothing}]

EconomyInv ==
    TypeOK /\ InventoriesOrderly /\ GoldWithinLimit /\ EveryChangeIsTold /\ LawfulGround

\* Empty slots are in order.
LEMMA EmptySlotsAreOrderly == EmptySlots \in Slots /\ Orderly(EmptySlots)
  BY ItemsAssumption DEF EmptySlots, EmptySlot, Slots, Slot, Items, Orderly, SlotsAgree,
     OneWornPerPlace, OneStackPerPotion, Held, Vacant, Named

\* What is dropped from orderly slots may lie on the ground.
LEMMA DroppedMayLie ==
    ASSUME NEW inventory \in Slots, Orderly(inventory), NEW i \in Index,
           inventory[i].item # NoItem
    PROVE  OnGround(inventory[i]) \in Lying
  BY ItemsAssumption DEF Orderly, SlotsAgree, OnGround, Lying, Goods, Slots, Slot, Items

\* An inventory that changes, and is told, stays in order.
LEMMA ChangedInventory ==
    ASSUME EconomyInv, NEW p \in Players, NEW slots \in Slots, Orderly(slots),
           inv' = [inv EXCEPT ![p] = slots], Tell(p)
    PROVE  /\ inv' \in [Players -> Slots] /\ told' \in [Players -> Slots]
           /\ InventoriesOrderly' /\ EveryChangeIsTold'
<1> USE DEF EconomyInv, TypeOK
<1>1. inv' \in [Players -> Slots] /\ \A q \in Players : inv'[q] = IF q = p THEN slots ELSE inv[q]
  OBVIOUS
<1>2. told' = inv'
  BY <1>1 DEF Tell, EveryChangeIsTold
<1> QED
  BY <1>1, <1>2 DEF InventoriesOrderly, EveryChangeIsTold

\* An inventory that stays may be told again.
LEMMA KeptInventory ==
    ASSUME EconomyInv, NEW p \in Players, UNCHANGED inv, Tell(p) \/ UNCHANGED told
    PROVE  /\ inv' \in [Players -> Slots] /\ told' \in [Players -> Slots]
           /\ InventoriesOrderly' /\ EveryChangeIsTold'
<1> USE DEF EconomyInv, TypeOK
<1>1. told' = inv
  BY DEF Tell, EveryChangeIsTold
<1> QED
  BY <1>1 DEF InventoriesOrderly, EveryChangeIsTold

\* add_gold never fills a purse beyond its limit.
LEMMA CappedFits ==
    ASSUME NEW p \in Players, level[p] \in Levels, NEW g \in Nat, NEW amount \in Nat,
           g <= Holdable[level[p]]
    PROVE  Capped(p, g, amount) \in Nat /\ Capped(p, g, amount) <= Holdable[level[p]]
  BY GoldAssumption DEF Capped, AtMost

\* A purse that changes within its limit.
LEMMA ChangedPurse ==
    ASSUME EconomyInv, NEW p \in Players, NEW g \in Nat, g <= Holdable[level[p]],
           gold' = [gold EXCEPT ![p] = g], UNCHANGED level
    PROVE  gold' \in [Players -> Nat] /\ GoldWithinLimit'
  BY DEF EconomyInv, TypeOK, GoldWithinLimit

\* Earning stays within the limit.
LEMMA EarnFits ==
    ASSUME EconomyInv, NEW p \in Players, NEW amount \in Nat, Earn(p, amount), UNCHANGED level
    PROVE  gold' \in [Players -> Nat] /\ GoldWithinLimit'
<1>1. gold[p] \in Nat /\ level[p] \in Levels /\ gold[p] <= Holdable[level[p]]
  BY DEF EconomyInv, TypeOK, GoldWithinLimit
<1>2. Capped(p, gold[p], amount) \in Nat /\ Capped(p, gold[p], amount) <= Holdable[level[p]]
  BY <1>1, CappedFits
<1> QED
  BY <1>2, ChangedPurse DEF Earn

\* Paying what the purse holds.
LEMMA PayFits ==
    ASSUME EconomyInv, NEW p \in Players, NEW amount \in Nat, CanPay(p, amount),
           Pay(p, amount), UNCHANGED level
    PROVE  gold' \in [Players -> Nat] /\ GoldWithinLimit'
<1>1. /\ gold[p] \in Nat /\ gold[p] - amount \in Nat
      /\ gold[p] - amount <= Holdable[level[p]]
  BY GoldAssumption DEF EconomyInv, TypeOK, GoldWithinLimit, CanPay
<1> QED
  BY <1>1, ChangedPurse DEF Pay

\* The purses stay.
LEMMA KeptPurse ==
    ASSUME EconomyInv, UNCHANGED purse
    PROVE  gold' \in [Players -> Nat] /\ level' \in [Players -> Levels] /\ GoldWithinLimit'
  BY DEF EconomyInv, TypeOK, GoldWithinLimit, purse

\* The first slot of a name holds that name.
LEMMA FirstNamed ==
    ASSUME NEW inventory \in Slots, NEW k \in Items, HasItem(inventory, k)
    PROVE  Min(Named(inventory, k)) \in Held(inventory)
<1>1. Min(Named(inventory, k)) \in Named(inventory, k)
  BY MinIsMember, IndexIsNat DEF HasItem, Named
<1> QED
  BY <1>1, ItemsAssumption DEF Named, Held, Vacant

\* Prices are natural numbers, and so is what an NPC pays.
LEMMA PricesAreNat == \A k \in Items : Price[k] \in Nat /\ Price[k] \div BuyFactor \in Nat
  BY TradeAssumption

\* The initial state.
LEMMA InitInv == Init => EconomyInv
<1> SUFFICES ASSUME Init PROVE EconomyInv
  OBVIOUS
<1> USE EmptySlotsAreOrderly, GoldAssumption DEF Init
<1>1. TypeOK
  BY DEF TypeOK, Levels
<1>2. InventoriesOrderly /\ EveryChangeIsTold
  BY DEF InventoriesOrderly, EveryChangeIsTold
<1>3. GoldWithinLimit
  BY DEF GoldWithinLimit, Levels
<1>4. LawfulGround
  BY DEF LawfulGround
<1> QED
  BY <1>1, <1>2, <1>3, <1>4 DEF EconomyInv

\* The commands of a living player that change the slots.
LEMMA PlayerCarries ==
    ASSUME EconomyInv, NEW p \in Players,
           \/ PickUp(p)
           \/ \E i \in Index : Drop(p, i) \/ EquipItem(p, i)
    PROVE  EconomyInv'
<1> USE DEF EconomyInv, TypeOK, life, safes, purse
<1>0. inv[p] \in Slots /\ Orderly(inv[p]) /\ spot[p] \in Cells
  BY DEF InventoriesOrderly
<1>1. CASE PickUp(p)
  <2> DEFINE thing == ground[spot[p]]
  <2>1. thing \in Lying
    BY <1>0, <1>1 DEF PickUp, LawfulGround
  <2>2. LawfulGround' /\ ground' \in [Cells -> Goods \cup Coins \cup {Nothing}]
    BY <1>0, <1>1 DEF PickUp, LawfulGround
  <2>3. CASE thing \in Coins
    <3>1. thing.gold \in Nat
      BY <2>3 DEF Coins
    <3>2. gold' \in [Players -> Nat] /\ GoldWithinLimit'
      BY <1>1, <2>3, <3>1, EarnFits DEF PickUp
    <3>3. /\ inv' \in [Players -> Slots] /\ told' \in [Players -> Slots]
          /\ InventoriesOrderly' /\ EveryChangeIsTold'
      BY <1>1, <2>3, KeptInventory DEF PickUp
    <3> QED
      BY <1>1, <2>2, <3>2, <3>3 DEF PickUp
  <2>4. CASE thing \notin Coins
    <3>1. /\ thing.item \in Items /\ thing.qty \in Nat \ {0}
          /\ thing.item \in Gear => thing.qty = 1
      BY <2>1, <2>4 DEF Lying, Goods
    <3> DEFINE slots == AddItem(inv[p], thing.item, thing.qty)
    <3>2. slots \in Slots /\ Orderly(slots)
      BY <1>0, <1>1, <2>4, <3>1, AddItemKeepsOrder DEF PickUp
    <3>3. inv' = [inv EXCEPT ![p] = slots] /\ Tell(p) /\ UNCHANGED purse
      BY <1>1, <2>4 DEF PickUp
    <3> HIDE DEF slots
    <3>4. /\ inv' \in [Players -> Slots] /\ told' \in [Players -> Slots]
          /\ InventoriesOrderly' /\ EveryChangeIsTold'
      BY <3>2, <3>3, ChangedInventory
    <3> QED
      BY <1>1, <2>2, <3>3, <3>4, KeptPurse DEF PickUp
  <2> QED
    BY <2>3, <2>4
<1>2. ASSUME NEW i \in Index, Drop(p, i)
      PROVE  EconomyInv'
  <2>1. PopSlot(inv[p], i) \in Slots /\ Orderly(PopSlot(inv[p], i))
    BY <1>0, EmptyingKeepsOrder DEF PopSlot
  <2>2. /\ inv' \in [Players -> Slots] /\ told' \in [Players -> Slots]
        /\ InventoriesOrderly' /\ EveryChangeIsTold'
    BY <1>2, <2>1, ChangedInventory DEF Drop
  <2> DEFINE pile == Single(OnGround(inv[p][i]))
  <2>3. \A n \in DOMAIN pile : pile[n] \in Lying
    BY <1>0, <1>2, DroppedMayLie DEF Single, Drop
  <2> HIDE DEF pile
  <2>4. Scattered(ground, spot[p], pile) \in [Cells -> Lying \cup {Nothing}]
    BY <1>0, <2>3, ScatteredLiesOnGround DEF LawfulGround
  <2>5. LawfulGround' /\ ground' \in [Cells -> Goods \cup Coins \cup {Nothing}]
    BY <1>2, <2>4 DEF Drop, LawfulGround, Lying, pile
  <2> QED
    BY <1>2, <2>2, <2>5, KeptPurse DEF Drop
<1>3. ASSUME NEW i \in Index, EquipItem(p, i)
      PROVE  EconomyInv'
  <2>1. i \in Held(inv[p])
    BY <1>3 DEF EquipItem, Held, Vacant, Named
  <2>2. Equip(inv[p], i) \in Slots /\ Orderly(Equip(inv[p], i))
    BY <1>0, <2>1, EquipKeepsOrder
  <2>3. /\ inv' \in [Players -> Slots] /\ told' \in [Players -> Slots]
        /\ InventoriesOrderly' /\ EveryChangeIsTold'
    BY <1>3, <2>2, ChangedInventory DEF EquipItem
  <2> QED
    BY <1>3, <2>3, KeptPurse DEF EquipItem, LawfulGround
<1> QED
  BY <1>1, <1>2, <1>3

\* The purchases and sales.
LEMMA PlayerTrades ==
    ASSUME EconomyInv, NEW p \in Players, NEW k \in Items, NEW npc \in {"merchant", "priest"},
           Buy(p, npc, k) \/ BuyWithoutRoom(p, npc, k) \/ Sell(p, k)
    PROVE  EconomyInv'
<1> USE DEF EconomyInv, TypeOK, life, safes, purse
<1>0. inv[p] \in Slots /\ Orderly(inv[p])
  BY DEF InventoriesOrderly
<1>1. CASE Buy(p, npc, k)
  <2>1. gold' \in [Players -> Nat] /\ GoldWithinLimit'
    BY <1>1, PayFits, PricesAreNat DEF Buy
  <2>2. AddItem(inv[p], k, 1) \in Slots /\ Orderly(AddItem(inv[p], k, 1))
    BY <1>0, <1>1, AddItemKeepsOrder DEF Buy
  <2>3. /\ inv' \in [Players -> Slots] /\ told' \in [Players -> Slots]
        /\ InventoriesOrderly' /\ EveryChangeIsTold'
    BY <1>1, <2>2, ChangedInventory DEF Buy
  <2> QED
    BY <1>1, <2>1, <2>3 DEF Buy, LawfulGround
<1>2. CASE BuyWithoutRoom(p, npc, k)
  <2>1. /\ gold[p] - Price[k] \in Nat /\ gold[p] - Price[k] <= Holdable[level[p]]
        /\ level[p] \in Levels
    BY <1>2, PricesAreNat, GoldAssumption DEF BuyWithoutRoom, CanPay, GoldWithinLimit
  <2>2. Refund(p, Price[k]) \in Nat /\ Refund(p, Price[k]) <= Holdable[level[p]]
    BY <2>1, PricesAreNat, CappedFits DEF Refund
  <2>3. gold' \in [Players -> Nat] /\ GoldWithinLimit'
    BY <1>2, <2>2, ChangedPurse DEF BuyWithoutRoom
  <2> QED
    BY <1>2, <2>3, KeptInventory DEF BuyWithoutRoom, LawfulGround
<1>3. CASE Sell(p, k)
  <2>1. gold' \in [Players -> Nat] /\ GoldWithinLimit'
    BY <1>3, EarnFits, PricesAreNat DEF Sell
  <2>2. RemoveNamed(inv[p], k) \in Slots /\ Orderly(RemoveNamed(inv[p], k))
    BY <1>0, <1>3, FirstNamed, RemoveOneKeepsOrder DEF Sell, RemoveNamed
  <2>3. /\ inv' \in [Players -> Slots] /\ told' \in [Players -> Slots]
        /\ InventoriesOrderly' /\ EveryChangeIsTold'
    BY <1>3, <2>2, ChangedInventory DEF Sell
  <2> QED
    BY <1>3, <2>1, <2>3 DEF Sell, LawfulGround
<1> QED
  BY <1>1, <1>2, <1>3

\* Gold goes to the safe and back.
LEMMA PlayerBanksGold ==
    ASSUME EconomyInv, NEW p \in Players, NEW amount \in 1..MaxSafeGold,
           DepositGold(p, amount) \/ WithdrawGold(p, amount)
    PROVE  EconomyInv'
<1> USE DEF EconomyInv, TypeOK, life, safes, purse
<1>0. amount \in Nat
  OBVIOUS
<1>1. CASE DepositGold(p, amount)
  <2>1. gold' \in [Players -> Nat] /\ GoldWithinLimit'
    BY <1>0, <1>1, PayFits DEF DepositGold
  <2>2. safeGold' \in [Players -> Nat]
    BY <1>0, <1>1 DEF DepositGold
  <2> QED
    BY <1>1, <2>1, <2>2, KeptInventory DEF DepositGold, LawfulGround
<1>2. CASE WithdrawGold(p, amount)
  <2>1. gold' \in [Players -> Nat] /\ GoldWithinLimit'
    BY <1>0, <1>2, EarnFits DEF WithdrawGold
  <2>2. safeGold' \in [Players -> Nat]
    BY <1>0, <1>2 DEF WithdrawGold
  <2> QED
    BY <1>2, <2>1, <2>2, KeptInventory DEF WithdrawGold, LawfulGround
<1> QED
  BY <1>1, <1>2

\* Items go to the safe and back.
LEMMA PlayerBanksItems ==
    ASSUME EconomyInv, NEW p \in Players, NEW k \in Items,
           DepositItem(p, k) \/ WithdrawItem(p, k)
    PROVE  EconomyInv'
<1> USE DEF EconomyInv, TypeOK, life, safes, purse
<1>0. inv[p] \in Slots /\ Orderly(inv[p]) /\ safeItems[p] \in Seq(Items)
  BY DEF InventoriesOrderly
<1>1. CASE DepositItem(p, k)
  <2>1. RemoveNamed(inv[p], k) \in Slots /\ Orderly(RemoveNamed(inv[p], k))
    BY <1>0, <1>1, FirstNamed, RemoveOneKeepsOrder DEF DepositItem, RemoveNamed
  <2>2. /\ inv' \in [Players -> Slots] /\ told' \in [Players -> Slots]
        /\ InventoriesOrderly' /\ EveryChangeIsTold'
    BY <1>1, <2>1, ChangedInventory DEF DepositItem
  <2>3. Append(safeItems[p], k) \in Seq(Items)
    BY <1>0, AppendProperties
  <2>4. safeItems' \in [Players -> Seq(Items)]
    BY <1>1, <2>3 DEF DepositItem
  <2> QED
    BY <1>1, <2>2, <2>4, KeptPurse DEF DepositItem, LawfulGround
<1>2. CASE WithdrawItem(p, k)
  <2>1. RemoveFirst(safeItems[p], k) \in Seq(Items)
    BY <1>0, RemoveFirstLeavesItems
  <2>2. Append(RemoveFirst(safeItems[p], k), k) \in Seq(Items)
    BY <2>1, AppendProperties
  <2>3. safeItems' \in [Players -> Seq(Items)]
    BY <1>2, <2>1, <2>2 DEF WithdrawItem, Returned
  <2>4. /\ inv' \in [Players -> Slots] /\ told' \in [Players -> Slots]
        /\ InventoriesOrderly' /\ EveryChangeIsTold'
    <3>1. CASE CanAdd(inv[p], k)
      <4>1. AddItem(inv[p], k, 1) \in Slots /\ Orderly(AddItem(inv[p], k, 1))
        BY <1>0, <3>1, AddItemKeepsOrder
      <4> QED
        BY <1>2, <3>1, <4>1, ChangedInventory DEF WithdrawItem
    <3>2. CASE ~CanAdd(inv[p], k)
      BY <1>2, <3>2, KeptInventory DEF WithdrawItem
    <3> QED
      BY <3>1, <3>2
  <2> QED
    BY <1>2, <2>3, <2>4, KeptPurse DEF WithdrawItem, LawfulGround
<1> QED
  BY <1>1, <1>2

\* Walking, the cheats, levels and resurrections.
LEMMA PlayerIsMoved ==
    ASSUME EconomyInv, NEW p \in Players,
           CheatDie(p) \/ CheatGold(p) \/ LevelUp(p) \/ \E c \in Cells : Walk(p, c) \/ Resurrect(p, c)
    PROVE  EconomyInv'
<1> USE DEF EconomyInv, TypeOK, life, safes, purse
<1>1. CASE CheatDie(p)
  BY <1>1, KeptInventory, KeptPurse DEF CheatDie, LawfulGround
<1>2. CASE CheatGold(p)
  <2>1. Holdable[level[p]] \in Nat
    BY GoldAssumption
  <2>2. gold' \in [Players -> Nat] /\ GoldWithinLimit'
    BY <1>2, <2>1, EarnFits DEF CheatGold
  <2> QED
    BY <1>2, <2>2, KeptInventory DEF CheatGold, LawfulGround
<1>3. CASE LevelUp(p)
  <2>1. level[p] + 1 \in Levels /\ Holdable[level[p]] <= Holdable[level[p] + 1]
    BY <1>3, GoldAssumption DEF LevelUp, Levels
  <2>2. level' \in [Players -> Levels]
    BY <1>3, <2>1 DEF LevelUp
  <2>3. GoldWithinLimit'
    BY <1>3, <2>1, GoldAssumption DEF LevelUp, GoldWithinLimit
  <2> QED
    BY <1>3, <2>2, <2>3, KeptInventory DEF LevelUp, LawfulGround
<1>4. ASSUME NEW c \in Cells, Walk(p, c)
      PROVE  EconomyInv'
  BY <1>4, KeptInventory, KeptPurse DEF Walk, LawfulGround
<1>5. ASSUME NEW c \in Cells, Resurrect(p, c)
      PROVE  EconomyInv'
  BY <1>5, KeptInventory, KeptPurse DEF Resurrect, LawfulGround
<1> QED
  BY <1>1, <1>2, <1>3, <1>4, <1>5

\* A death.
LEMMA PlayerIsKilled ==
    ASSUME EconomyInv, NEW p \in Players, Killed(p)
    PROVE  EconomyInv'
<1> USE DEF EconomyInv, TypeOK, life, safes, purse
<1>0. inv[p] \in Slots /\ Orderly(inv[p]) /\ spot[p] \in Cells /\ level[p] \in Levels
  BY DEF InventoriesOrderly
<1>1. Excess(p) \in Nat /\ Excess(p) <= gold[p]
  BY <1>0, GoldAssumption DEF Excess
<1>2. Kept(p) \in Nat /\ Kept(p) <= Holdable[level[p]]
  BY <1>0, <1>1, GoldAssumption DEF Kept, GoldWithinLimit
<1>3. gold' \in [Players -> Nat] /\ GoldWithinLimit'
  BY <1>2, ChangedPurse DEF Killed
<1>4. /\ inv' \in [Players -> Slots] /\ told' \in [Players -> Slots]
      /\ InventoriesOrderly' /\ EveryChangeIsTold'
  BY EmptySlotsAreOrderly, ChangedInventory DEF Killed, TellVictim
<1>5. \A n \in DOMAIN Loot(p) : Loot(p)[n] \in Lying
  <2> SUFFICES ASSUME NEW n \in DOMAIN Loot(p) PROVE Loot(p)[n] \in Lying
    OBVIOUS
  <2>1. CASE n = 0
    <3>1. \A i \in Held(inv[p]) : i + 1 # 0
      BY IndexIsNat DEF Held
    <3>2. 0 \in {m \in {0} : Excess(p) > 0}
      BY <2>1, <3>1 DEF Loot
    <3>3. Loot(p)[n] = [gold |-> Excess(p)]
      BY <2>1 DEF Loot
    <3> QED
      BY <1>1, <3>2, <3>3 DEF Lying, Coins
  <2>2. CASE n # 0
    <3>1. PICK i \in Held(inv[p]) : n = i + 1
      BY <2>2 DEF Loot
    <3>2. i \in Index /\ i \in Nat /\ inv[p][i].item # NoItem
      BY IndexIsNat DEF Held, Vacant, Named
    <3>3. n - 1 = i
      BY <3>1, <3>2
    <3>4. Loot(p)[n] = OnGround(inv[p][i])
      BY <2>2, <3>3 DEF Loot
    <3> QED
      BY <1>0, <3>2, <3>4, DroppedMayLie
  <2> QED
    BY <2>1, <2>2
<1>6. Scattered(ground, spot[p], Loot(p)) \in [Cells -> Lying \cup {Nothing}]
  BY <1>0, <1>5, ScatteredLiesOnGround DEF LawfulGround
<1>7. LawfulGround' /\ ground' \in [Cells -> Goods \cup Coins \cup {Nothing}]
  BY <1>6 DEF Killed, LawfulGround, Lying
<1> QED
  BY <1>3, <1>4, <1>7 DEF Killed

\* An NPC dies.
LEMMA NpcLeavesLoot ==
    ASSUME EconomyInv, NpcDies
    PROVE  EconomyInv'
<1> USE DEF EconomyInv, TypeOK, life, safes, purse
<1>1. PICK c \in Cells, thing \in Lying : NpcDrops(c, thing)
  <2>1. \A g \in NpcGold : [gold |-> g] \in Lying
    BY GoldAssumption DEF Lying, Coins
  <2>2. \A k \in Items : [item |-> k, qty |-> 1] \in Lying
    BY DEF Lying, Goods
  <2> QED
    BY <2>1, <2>2 DEF NpcDies
<1> DEFINE pile == Single(thing)
<1>2. \A n \in DOMAIN pile : pile[n] \in Lying
  BY DEF Single
<1> HIDE DEF pile
<1>3. Scattered(ground, c, pile) \in [Cells -> Lying \cup {Nothing}]
  BY <1>2, ScatteredLiesOnGround DEF LawfulGround
<1>4. LawfulGround' /\ ground' \in [Cells -> Goods \cup Coins \cup {Nothing}]
  BY <1>1, <1>3 DEF NpcDrops, LawfulGround, Lying, pile
<1>5. /\ InventoriesOrderly' /\ EveryChangeIsTold'
      /\ inv' \in [Players -> Slots] /\ told' \in [Players -> Slots]
  BY <1>1 DEF NpcDrops, InventoriesOrderly, EveryChangeIsTold
<1> QED
  BY <1>1, <1>4, <1>5, KeptPurse DEF NpcDrops

\* A player comes back.
LEMMA PlayerRejoins ==
    ASSUME EconomyInv, NEW p \in Players, Rejoins(p)
    PROVE  EconomyInv'
<1> USE DEF EconomyInv, TypeOK, life, safes, purse
<1>1. PICK save \in Saves \cup {NewCharacter}, reconnects \in BOOLEAN : Rejoin(p, save, reconnects)
  BY DEF Rejoins
<1>2. /\ save.inv \in Slots /\ Orderly(save.inv)
      /\ save.gold \in Nat /\ save.level \in Levels
  <2>1. CASE save \in Saves
    BY <2>1, SavesAssumption
  <2>2. CASE save = NewCharacter
    BY <2>2, GoldAssumption, EmptySlotsAreOrderly DEF NewCharacter, Levels
  <2> QED
    BY <1>1, <2>1, <2>2
<1> DEFINE slots == Restored(save.inv)
           purseful == AtMost(Holdable[save.level], save.gold)
<1>3. slots \in Slots /\ Orderly(slots)
  BY <1>2, RestoredKeepsOrder
<1>4. purseful \in Nat /\ purseful <= Holdable[save.level]
  BY <1>2, GoldAssumption DEF AtMost
<1>5. /\ inv' = [inv EXCEPT ![p] = slots] /\ Tell(p)
      /\ gold' = [gold EXCEPT ![p] = purseful]
      /\ level' = [level EXCEPT ![p] = save.level]
      /\ dead' = dead \ {p} /\ UNCHANGED <<spot, ground>>
  BY <1>1 DEF Rejoin
<1> HIDE DEF slots, purseful
<1>6. /\ inv' \in [Players -> Slots] /\ told' \in [Players -> Slots]
      /\ InventoriesOrderly' /\ EveryChangeIsTold'
  BY <1>3, <1>5, ChangedInventory
<1>7. /\ gold' \in [Players -> Nat] /\ level' \in [Players -> Levels]
      /\ GoldWithinLimit'
  BY <1>2, <1>4, <1>5 DEF GoldWithinLimit
<1>8. safeGold' \in [Players -> Nat] /\ safeItems' \in [Players -> Seq(Items)]
  <2>1. <<>> \in Seq(Items)
    BY EmptySeq
  <2>2. CASE reconnects
    <3>1. /\ safeGold' = [safeGold EXCEPT ![p] = 0]
          /\ safeItems' = [safeItems EXCEPT ![p] = <<>>]
      BY <1>1, <2>2, Zenon DEF Rejoin
    <3> QED
      BY <2>1, <3>1
  <2>3. CASE ~reconnects
    BY <1>1, <2>3 DEF Rejoin
  <2> QED
    BY <2>2, <2>3
<1> QED
  BY <1>5, <1>6, <1>7, <1>8 DEF LawfulGround

\* Every step keeps the invariant.
LEMMA StepInv == EconomyInv /\ [Next]_vars => EconomyInv'
<1> SUFFICES ASSUME EconomyInv, [Next]_vars PROVE EconomyInv'
  OBVIOUS
<1>1. CASE Next
  <2>1. ASSUME NEW p \in Players, PlayerActs(p) PROVE EconomyInv'
    BY <2>1, PlayerCarries, PlayerTrades, PlayerBanksGold, PlayerBanksItems, PlayerIsMoved DEF PlayerActs
  <2>2. ASSUME NEW p \in Players, PlayerSuffers(p) PROVE EconomyInv'
    BY <2>2, PlayerIsKilled, PlayerIsMoved, PlayerRejoins DEF PlayerSuffers
  <2> QED
    BY <1>1, <2>1, <2>2, NpcLeavesLoot DEF Next
<1>2. CASE UNCHANGED vars
  BY <1>2 DEF vars, purse, life, safes, EconomyInv, TypeOK, InventoriesOrderly,
     GoldWithinLimit, EveryChangeIsTold, LawfulGround
<1> QED
  BY <1>1, <1>2

\* The invariant holds throughout.
THEOREM EconomyInvariant == Spec => []EconomyInv
  BY InitInv, StepInv, PTL DEF Spec

\* Inventories, purses, safes and the ground hold what they may hold.
THEOREM EconomyTypes == Spec => []TypeOK
  BY EconomyInvariant, PTL DEF EconomyInv

\* However the slots are used, they stay in order (inventory.cpp).
THEOREM EconomyInventoriesOrderly == Spec => []InventoriesOrderly
  BY EconomyInvariant, PTL DEF EconomyInv

\* No purse ever exceeds what its level may hold (Player::add_gold).
THEOREM EconomyGoldWithinLimit == Spec => []GoldWithinLimit
  BY EconomyInvariant, PTL DEF EconomyInv

\* Whoever changes an inventory, its owner is sent it.
THEOREM EconomyEveryChangeIsTold == Spec => []EveryChangeIsTold
  BY EconomyInvariant, PTL DEF EconomyInv

\* What belongs to a player that stays dead stays, whoever acts (the commands ask
\* is_alive, the NPCs too; what others do reaches only their own).
LEMMA GhostsKeepAll ==
    ASSUME EconomyInv, [Next]_vars, NEW p \in Players, p \in dead, p \in dead'
    PROVE  UNCHANGED <<inv[p], safeItems[p], safeGold[p]>>
<1> USE DEF EconomyInv, TypeOK, life, safes, purse
<1>1. ASSUME NEW q \in Players, PlayerActs(q)
      PROVE  UNCHANGED <<inv[p], safeItems[p], safeGold[p]>>
  <2>1. CASE PickUp(q)
    BY <2>1 DEF PickUp, Alive
  <2>2. ASSUME NEW i \in Index, Drop(q, i) \/ EquipItem(q, i)
        PROVE  UNCHANGED <<inv[p], safeItems[p], safeGold[p]>>
    BY <2>2 DEF Drop, EquipItem, Alive
  <2>3. ASSUME NEW k \in Items, NEW npc \in {"merchant", "priest"},
               Buy(q, npc, k) \/ BuyWithoutRoom(q, npc, k)
        PROVE  UNCHANGED <<inv[p], safeItems[p], safeGold[p]>>
    BY <2>3 DEF Buy, BuyWithoutRoom, Deals, Alive
  <2>4. ASSUME NEW k \in Items, Sell(q, k) \/ DepositItem(q, k) \/ WithdrawItem(q, k)
        PROVE  UNCHANGED <<inv[p], safeItems[p], safeGold[p]>>
    BY <2>4 DEF Sell, DepositItem, WithdrawItem, Deals, Alive
  <2>5. ASSUME NEW amount \in 1..MaxSafeGold, DepositGold(q, amount) \/ WithdrawGold(q, amount)
        PROVE  UNCHANGED <<inv[p], safeItems[p], safeGold[p]>>
    BY <2>5 DEF DepositGold, WithdrawGold, Deals, Alive
  <2>6. CASE CheatDie(q) \/ CheatGold(q)
    BY <2>6 DEF CheatDie, CheatGold
  <2> QED
    BY <1>1, <2>1, <2>2, <2>3, <2>4, <2>5, <2>6 DEF PlayerActs
<1>2. ASSUME NEW q \in Players, PlayerSuffers(q)
      PROVE  UNCHANGED <<inv[p], safeItems[p], safeGold[p]>>
  <2>1. CASE Killed(q)
    BY <2>1 DEF Killed, Alive
  <2>2. CASE LevelUp(q)
    BY <2>2 DEF LevelUp
  <2>3. ASSUME NEW c \in Cells, Walk(q, c) \/ Resurrect(q, c)
        PROVE  UNCHANGED <<inv[p], safeItems[p], safeGold[p]>>
    BY <2>3 DEF Walk, Resurrect
  <2>4. CASE Rejoins(q)
    <3>1. p # q
      BY <2>4 DEF Rejoins, Rejoin
    <3>2. PICK save \in Saves \cup {NewCharacter}, reconnects \in BOOLEAN :
            Rejoin(q, save, reconnects)
      BY <2>4 DEF Rejoins
    <3>3. inv'[p] = inv[p]
      BY <3>1, <3>2 DEF Rejoin
    <3>4. safeGold'[p] = safeGold[p] /\ safeItems'[p] = safeItems[p]
      <4>1. CASE reconnects
        <5>1. /\ safeGold' = [safeGold EXCEPT ![q] = 0]
              /\ safeItems' = [safeItems EXCEPT ![q] = <<>>]
          BY <3>2, <4>1, Zenon DEF Rejoin
        <5> QED
          BY <3>1, <5>1
      <4>2. CASE ~reconnects
        BY <3>2, <4>2 DEF Rejoin
      <4> QED
        BY <4>1, <4>2
    <3> QED
      BY <3>3, <3>4
  <2> QED
    BY <1>2, <2>1, <2>2, <2>3, <2>4 DEF PlayerSuffers
<1>3. CASE NpcDies
  BY <1>3 DEF NpcDies, NpcDrops
<1>4. CASE UNCHANGED vars
  BY <1>4 DEF vars
<1> QED
  BY <1>1, <1>2, <1>3, <1>4 DEF Next

\* Dead players neither trade nor are robbed.
THEOREM EconomyGhostsTradeNothing == Spec => GhostsTradeNothing
<1>1. EconomyInv /\ [Next]_vars =>
        [\A p \in Players : p \in dead /\ p \in dead' =>
           UNCHANGED <<inv[p], safeItems[p], safeGold[p]>>]_vars
  BY GhostsKeepAll
<1> QED
  BY <1>1, EconomyInvariant, PTL DEF Spec, GhostsTradeNothing

-----------------------------------------------------------------------------
\* How many of a kind the slots, the ground and the safes hold.

SlotQty(s, k) == IF s.item = k THEN s.qty ELSE 0

\* A slot that changes.
LEMMA QtyInChangedSlot ==
    ASSUME NEW old \in Slots, NEW new \in Slots, NEW i \in Index, NEW k,
           \A j \in Index \ {i} : SlotQty(new[j], k) = SlotQty(old[j], k)
    PROVE  /\ QtyIn(old, k) \in Int
           /\ QtyIn(new, k) = QtyIn(old, k) - SlotQty(old[i], k) + SlotQty(new[i], k)
<1> DEFINE f == [j \in Index |-> SlotQty(old[j], k)]
           e == [j \in Index |-> SlotQty(new[j], k)]
<1>1. IsFiniteSet(Index)
  BY MaxItemsAssumption, FS_Interval DEF Index
<1>2. \A s \in Slot : SlotQty(s, k) \in Int
  BY DEF Slot, SlotQty
<1>3. \A j \in Index : f[j] \in Int /\ e[j] \in Int
  BY <1>2 DEF Slots
<1>4. QtyIn(old, k) = SumFunctionOnSet(f, Index) /\ QtyIn(new, k) = SumFunctionOnSet(e, Index)
  BY DEF QtyIn, SumFunction, SlotQty
<1>5. \A j \in Index \ {i} : e[j] = f[j]
  OBVIOUS
<1>6. f[i] = SlotQty(old[i], k) /\ e[i] = SlotQty(new[i], k)
  OBVIOUS
<1> HIDE DEF f, e
<1>7. SumFunctionOnSet(f, Index) \in Int
  BY <1>1, <1>3, SumIsInt
<1>8. SumFunctionOnSet(e, Index) = SumFunctionOnSet(f, Index) - f[i] + e[i]
  BY <1>1, <1>3, <1>5, SumWithChange
<1> QED
  BY <1>4, <1>6, <1>7, <1>8

\* No slot changes what it holds of a kind.
LEMMA QtyInSame ==
    ASSUME NEW old \in Slots, NEW new \in Slots, NEW k,
           \A j \in Index : SlotQty(new[j], k) = SlotQty(old[j], k)
    PROVE  QtyIn(new, k) = QtyIn(old, k)
<1>1. 0 \in Index
  BY MaxItemsAssumption DEF Index
<1>2. /\ QtyIn(old, k) \in Int
      /\ QtyIn(new, k) = QtyIn(old, k) - SlotQty(old[0], k) + SlotQty(new[0], k)
  BY <1>1, QtyInChangedSlot
<1>3. SlotQty(old[0], k) \in Int
  BY <1>1 DEF Slots, Slot, SlotQty
<1> QED
  BY <1>1, <1>2, <1>3

\* Adding, taking a unit, emptying a slot, wearing and drinking.
LEMMA QtyInAdded ==
    ASSUME NEW inventory \in Slots, Orderly(inventory), NEW kind \in Items, NEW q \in Nat \ {0},
           kind \in Gear => q = 1, CanAdd(inventory, kind), NEW k \in Items
    PROVE  QtyIn(AddItem(inventory, kind, q), k) = QtyIn(inventory, k) + IF k = kind THEN q ELSE 0
<1> DEFINE after == AddItem(inventory, kind, q)
<1>1. after \in Slots
  BY AddItemKeepsOrder
<1>2. PICK i \in Index : /\ \A j \in Index \ {i} : after[j] = inventory[j]
                         /\ \/ after[i].item = inventory[i].item /\ inventory[i].item = kind
                               /\ after[i].qty = inventory[i].qty + q
                            \/ inventory[i].item = NoItem /\ after[i].item = kind /\ after[i].qty = q
  <2>1. CASE StacksOn(inventory, kind)
    <3> DEFINE i == Min(Named(inventory, kind))
    <3>1. i \in Index /\ inventory[i].item = kind
      BY <2>1, MinIsMember, IndexIsNat DEF StacksOn, HasItem, Named
    <3>2. after = [inventory EXCEPT ![i].qty = @ + q]
      BY <2>1 DEF AddItem
    <3> HIDE DEF i, after
    <3> QED
      BY <3>1, <3>2 DEF Slots, Slot
  <2>2. CASE ~StacksOn(inventory, kind)
    <3> DEFINE i == Min(Vacant(inventory))
    <3>1. i \in Index /\ inventory[i].item = NoItem
      BY <2>2, MinIsMember, IndexIsNat DEF StacksOn, CanAdd, Vacant, Named
    <3>2. after = [inventory EXCEPT ![i] = [item |-> kind, qty |-> q, worn |-> FALSE]]
      BY <2>2 DEF AddItem
    <3> HIDE DEF i, after
    <3> QED
      BY <3>1, <3>2 DEF Slots
  <2> QED
    BY <2>1, <2>2
<1> HIDE DEF after
<1>3. /\ QtyIn(inventory, k) \in Int
      /\ QtyIn(after, k) = QtyIn(inventory, k) - SlotQty(inventory[i], k) + SlotQty(after[i], k)
  BY <1>1, <1>2, QtyInChangedSlot
<1>4. SlotQty(inventory[i], k) \in Int
  BY DEF Slots, Slot, SlotQty
<1>5. SlotQty(after[i], k) = SlotQty(inventory[i], k) + IF k = kind THEN q ELSE 0
  BY <1>2, ItemsAssumption DEF SlotQty, Slots, Slot, Items
<1> QED
  BY <1>3, <1>4, <1>5 DEF after

\* An emptied slot takes away what it held of a kind, and nothing of the others.
LEMMA QtyInEmptied ==
    ASSUME NEW inventory \in Slots, Orderly(inventory), NEW i \in Index, NEW k \in Items
    PROVE  /\ QtyIn(inventory, k) \in Int
           /\ QtyIn([inventory EXCEPT ![i] = EmptySlot], k)
                = QtyIn(inventory, k) - SlotQty(inventory[i], k)
<1> DEFINE after == [inventory EXCEPT ![i] = EmptySlot]
<1>1. after \in Slots
  BY EmptyingKeepsOrder
<1>2. after[i] = EmptySlot /\ \A j \in Index \ {i} : after[j] = inventory[j]
  BY DEF Slots
<1>3. SlotQty(EmptySlot, k) = 0 /\ SlotQty(inventory[i], k) \in Int
  BY DEF SlotQty, EmptySlot, Slots, Slot
<1> HIDE DEF after
<1> QED
  <2>1. /\ QtyIn(inventory, k) \in Int
        /\ QtyIn(after, k) = QtyIn(inventory, k) - SlotQty(inventory[i], k) + SlotQty(after[i], k)
    BY <1>1, <1>2, QtyInChangedSlot
  <2> QED
    BY <1>2, <1>3, <2>1 DEF after

\* A unit taken is one less of its kind.
LEMMA QtyInUnitTaken ==
    ASSUME NEW inventory \in Slots, Orderly(inventory), NEW i \in Held(inventory), NEW k \in Items
    PROVE  /\ QtyIn(inventory, k) \in Int
           /\ QtyIn(RemoveOne(inventory, i), k)
                = QtyIn(inventory, k) - IF k = inventory[i].item THEN 1 ELSE 0
<1>1. i \in Index /\ inventory[i].item # NoItem /\ inventory[i].qty \in Nat \ {0}
  BY DEF Held, Vacant, Named, Orderly, SlotsAgree, Slots, Slot
<1>2. CASE inventory[i].qty > 1
  <2> DEFINE after == [inventory EXCEPT ![i].qty = @ - 1]
  <2>1. RemoveOne(inventory, i) = after
    BY <1>2 DEF RemoveOne
  <2>2. after \in Slots
    BY <2>1, RemoveOneKeepsOrder
  <2>3. /\ after[i].item = inventory[i].item /\ after[i].qty = inventory[i].qty - 1
        /\ \A j \in Index \ {i} : after[j] = inventory[j]
    BY <1>1 DEF Slots, Slot
  <2> HIDE DEF after
  <2>4. /\ QtyIn(inventory, k) \in Int
        /\ QtyIn(after, k) = QtyIn(inventory, k) - SlotQty(inventory[i], k) + SlotQty(after[i], k)
    BY <1>1, <2>2, <2>3, QtyInChangedSlot
  <2> QED
    BY <1>1, <2>1, <2>3, <2>4 DEF SlotQty
<1>3. CASE ~(inventory[i].qty > 1)
  <2>1. inventory[i].qty = 1
    BY <1>1, <1>3
  <2> QED
    BY <1>1, <1>3, <2>1, QtyInEmptied DEF RemoveOne, SlotQty
<1> QED
  BY <1>2, <1>3

\* So is the unit that a name finds.
LEMMA QtyInNamedTaken ==
    ASSUME NEW inventory \in Slots, Orderly(inventory), NEW kind \in Items,
           HasItem(inventory, kind), NEW k \in Items
    PROVE  /\ QtyIn(inventory, k) \in Int
           /\ QtyIn(RemoveNamed(inventory, kind), k) = QtyIn(inventory, k) - IF k = kind THEN 1 ELSE 0
<1>1. Min(Named(inventory, kind)) \in Named(inventory, kind)
  BY MinIsMember, IndexIsNat DEF HasItem, Named
<1>2. inventory[Min(Named(inventory, kind))].item = kind
  BY <1>1 DEF Named
<1> QED
  BY <1>2, FirstNamed, QtyInUnitTaken DEF RemoveNamed

\* Putting on and taking off cost nothing; drinking costs the unit that is drunk.
LEMMA QtyInEquipped ==
    ASSUME NEW inventory \in Slots, Orderly(inventory), NEW i \in Held(inventory), NEW k \in Items
    PROVE  /\ QtyIn(inventory, k) \in Int
           /\ QtyIn(Equip(inventory, i), k)
                = QtyIn(inventory, k)
                    - IF k = inventory[i].item /\ inventory[i].item \in Potions THEN 1 ELSE 0
<1>1. i \in Index
  BY DEF Held
<1>2. CASE inventory[i].item \in Potions
  <2>1. ~inventory[i].worn
    BY <1>1, <1>2, ItemsAssumption DEF Orderly, SlotsAgree, Slots, Slot
  <2>2. Equip(inventory, i) = RemoveOne(inventory, i)
    BY <1>2, <2>1 DEF Equip
  <2> QED
    BY <1>2, <2>2, QtyInUnitTaken
<1>3. CASE inventory[i].item \notin Potions
  <2>1. Equip(inventory, i) \in Slots
    BY EquipKeepsOrder
  <2>2. \A j \in Index : /\ Equip(inventory, i)[j].item = inventory[j].item
                         /\ Equip(inventory, i)[j].qty = inventory[j].qty
    <3>1. CASE inventory[i].worn
      BY <1>1, <1>3, <3>1 DEF Equip, Slots, Slot
    <3>2. CASE ~inventory[i].worn
      BY <1>1, <1>3, <3>2 DEF Equip, Slots, Slot
    <3> QED
      BY <3>1, <3>2
  <2>3. QtyIn(Equip(inventory, i), k) = QtyIn(inventory, k)
    BY <2>1, <2>2, QtyInSame DEF SlotQty
  <2>4. QtyIn(inventory, k) \in Int
    BY QtyInUnitTaken
  <2> QED
    BY <1>3, <2>3, <2>4
<1> QED
  BY <1>2, <1>3

\* Empty slots hold nothing.
LEMMA QtyInNothing ==
    ASSUME NEW k \in Items PROVE QtyIn(EmptySlots, k) = 0
<1> DEFINE f == [j \in Index |-> SlotQty(EmptySlots[j], k)]
<1>1. IsFiniteSet(Index)
  BY MaxItemsAssumption, FS_Interval DEF Index
<1>2. \A j \in Index : f[j] = 0
  BY DEF SlotQty, EmptySlots, EmptySlot
<1>3. QtyIn(EmptySlots, k) = SumFunctionOnSet(f, Index)
  BY DEF QtyIn, SumFunction, SlotQty
<1> HIDE DEF f
<1> QED
  BY <1>1, <1>2, <1>3, SumOfZeros

\* The restoration loses nothing: a slot that holds something is found again at its place
\* in the row of those that do.
LEMMA OrderIsRank ==
    ASSUME NEW S, IsFiniteSet(S), \A i \in S : i \in Int
    PROVE  /\ Cardinality(S) \in Nat
           /\ \A i \in S : Order(S, i) \in 0..Cardinality(S) - 1
           /\ \A i, j \in S : Order(S, i) = Order(S, j) => i = j
           /\ \A n \in 0..Cardinality(S) - 1 : \E i \in S : Order(S, i) = n
<1>1. PICK f \in [S -> Int] : \A x \in S : f[x] = x
  <2>1. [i \in S |-> i] \in [S -> Int] /\ \A x \in S : [i \in S |-> i][x] = x
    OBVIOUS
  <2> QED
    BY <2>1
<1>2. \A x, y \in S : f[x] = f[y] => x = y
  BY <1>1
<1>3. \A x \in S : Rank(f, S, x) = Order(S, x)
  <2>1. \A x \in S : Below(f, S, x) = {j \in S : j < x}
    BY <1>1 DEF Below
  <2> QED
    BY <2>1 DEF Rank, Order
<1>4. /\ Cardinality(S) \in Nat
      /\ \A x \in S : Rank(f, S, x) \in 0..Cardinality(S) - 1
      /\ \A x, y \in S : Rank(f, S, x) = Rank(f, S, y) => x = y
      /\ \A n \in 0..Cardinality(S) - 1 : \E x \in S : Rank(f, S, x) = n
  BY <1>2, RanksAreDistinct
<1> QED
  BY <1>3, <1>4

\* The slots that hold something are finitely many numbers.
LEMMA HeldAreIndices ==
    ASSUME NEW inventory \in Slots
    PROVE  /\ Held(inventory) \in SUBSET Index /\ Held(inventory) \in SUBSET Int
           /\ IsFiniteSet(Index) /\ IsFiniteSet(Held(inventory))
           /\ Cardinality(Held(inventory)) <= MaxItems
<1>1. IsFiniteSet(Index) /\ Cardinality(Index) = MaxItems
  BY MaxItemsAssumption, FS_Interval DEF Index
<1>2. Held(inventory) \in SUBSET Index
  BY DEF Held
<1>3. IsFiniteSet(Held(inventory)) /\ Cardinality(Held(inventory)) <= Cardinality(Index)
  BY <1>1, <1>2, FS_Subset
<1>4. Held(inventory) \in SUBSET Int
  BY <1>2, MaxItemsAssumption DEF Index
<1> QED
  BY <1>1, <1>2, <1>3, <1>4, Zenon

\* What is restored without the gaps is as much as was saved.
LEMMA QtyInRestored ==
    ASSUME NEW saved \in Slots, Orderly(saved), NEW k \in Items
    PROVE  QtyIn(Restored(saved), k) = QtyIn(saved, k)
<1> DEFINE H == Held(saved)
           b == [i \in H |-> Order(H, i)]
           Img == {b[i] : i \in H}
           f == [j \in Index |-> SlotQty(saved[j], k)]
           e == [j \in Index |-> SlotQty(Restored(saved)[j], k)]
<1>1. /\ H \in SUBSET Index /\ H \in SUBSET Int /\ IsFiniteSet(H) /\ IsFiniteSet(Index)
      /\ Cardinality(H) <= MaxItems
  BY HeldAreIndices
<1>2. /\ \A i, j \in H : b[i] = b[j] => i = j
      /\ Img \in SUBSET Index
  <2>1. /\ Cardinality(H) \in Nat
        /\ \A i \in H : Order(H, i) \in 0..Cardinality(H) - 1
        /\ \A i, j \in H : Order(H, i) = Order(H, j) => i = j
    BY <1>1, OrderIsRank
  <2> QED
    BY <1>1, <2>1, MaxItemsAssumption DEF Index
<1>3. \A i \in H : Restored(saved)[b[i]] = saved[i]
  <2> SUFFICES ASSUME NEW i \in H PROVE Restored(saved)[b[i]] = saved[i]
    OBVIOUS
  <2>1. (CHOOSE j \in H : Order(H, j) = b[i]) = i
    BY <1>2
  <2>2. b[i] \in Index /\ \E j \in H : Order(H, j) = b[i]
    BY <1>2
  <2> QED
    BY <2>1, <2>2 DEF Restored
<1>4. \A n \in Index \ Img : Restored(saved)[n] = EmptySlot
  <2> SUFFICES ASSUME NEW n \in Index \ Img PROVE Restored(saved)[n] = EmptySlot
    OBVIOUS
  <2>1. ~\E j \in H : Order(H, j) = n
    OBVIOUS
  <2> QED
    BY <2>1 DEF Restored
<1>5. Restored(saved) \in Slots
  BY RestoredKeepsOrder
<1>6. \A j \in Index : f[j] \in Int /\ e[j] \in Int
  BY <1>5 DEF Slots, Slot, SlotQty
<1>7. QtyIn(saved, k) = SumFunctionOnSet(f, Index)
      /\ QtyIn(Restored(saved), k) = SumFunctionOnSet(e, Index)
  BY DEF QtyIn, SumFunction, SlotQty
<1>8. \A j \in Index \ H : f[j] = 0
  BY ItemsAssumption DEF SlotQty, Held, Vacant, Named
<1>9. \A j \in Index \ Img : e[j] = 0
  BY <1>4, ItemsAssumption DEF SlotQty, EmptySlot
<1>10. \A i \in H : f[i] = e[b[i]]
  BY <1>1, <1>2, <1>3
<1>11. IsFiniteSet(Img) /\ SumFunctionOnSet(f, H) = SumFunctionOnSet(e, Img)
  <2>1. \A i \in H : f[i] \in Int /\ f[i] = e[b[i]]
    BY <1>1, <1>6, <1>10
  <2>2. IsFiniteSet(H) /\ \A i, j \in H : b[i] = b[j] => i = j
    BY <1>1, <1>2
  <2> HIDE DEF f, e, b, H
  <2> QED
    BY <2>1, <2>2, SumRenamed
<1> HIDE DEF f, e, b, H, Img
<1>12. SumFunctionOnSet(f, Index) = SumFunctionOnSet(f, H)
  <2>1. IsFiniteSet(Index \ H) /\ H \cup (Index \ H) = Index /\ H \cap (Index \ H) = {}
    BY <1>1, FS_Subset
  <2>2. SumFunctionOnSet(f, Index \ H) = 0
    BY <1>8, <2>1, SumOfZeros
  <2>3. SumFunctionOnSet(f, H \cup (Index \ H)) = SumFunctionOnSet(f, H) + SumFunctionOnSet(f, Index \ H)
    BY <1>1, <1>6, <2>1, SumOfParts
  <2>4. SumFunctionOnSet(f, H) \in Int
    BY <1>1, <1>6, SumIsInt
  <2> QED
    BY <2>1, <2>2, <2>3, <2>4
<1>13. SumFunctionOnSet(e, Index) = SumFunctionOnSet(e, Img)
  <2>1. IsFiniteSet(Index \ Img) /\ Img \cup (Index \ Img) = Index /\ Img \cap (Index \ Img) = {}
    BY <1>1, <1>2, FS_Subset
  <2>2. SumFunctionOnSet(e, Index \ Img) = 0
    BY <1>9, <2>1, SumOfZeros
  <2>3. SumFunctionOnSet(e, Img \cup (Index \ Img))
          = SumFunctionOnSet(e, Img) + SumFunctionOnSet(e, Index \ Img)
    BY <1>1, <1>6, <1>11, <2>1, SumOfParts
  <2>4. SumFunctionOnSet(e, Img) \in Int
    BY <1>2, <1>6, <1>11, SumIsInt
  <2> QED
    BY <2>1, <2>2, <2>3, <2>4
<1> QED
  BY <1>7, <1>11, <1>12, <1>13

\* What a safe holds of a kind.
LEMMA PlacesAreFinite ==
    ASSUME NEW n \in Nat, NEW T \in SUBSET (1..n)
    PROVE  IsFiniteSet(T) /\ Cardinality(T) \in Nat
<1>1. IsFiniteSet(1..n)
  BY FS_Interval
<1> QED
  BY <1>1, FS_Subset, FS_CardinalityType

\* What is put into a safe is one more of its kind.
LEMMA QtySafeAppended ==
    ASSUME NEW s \in Seq(Items), NEW kind \in Items, NEW k \in Items
    PROVE  /\ QtySafe(s, k) \in Int
           /\ QtySafe(Append(s, kind), k) = QtySafe(s, k) + IF k = kind THEN 1 ELSE 0
<1> DEFINE at == {n \in DOMAIN s : s[n] = k}
           after == {n \in DOMAIN Append(s, kind) : Append(s, kind)[n] = k}
<1>1. Len(s) \in Nat /\ DOMAIN s = 1..Len(s)
  BY LenProperties
<1>2. /\ DOMAIN Append(s, kind) = 1..Len(s) + 1
      /\ \A n \in 1..Len(s) : Append(s, kind)[n] = s[n]
      /\ Append(s, kind)[Len(s) + 1] = kind
  BY AppendProperties, LenProperties
<1>3. IsFiniteSet(at) /\ Cardinality(at) \in Int
  <2>1. at \in SUBSET (1..Len(s))
    BY <1>1
  <2> HIDE DEF at
  <2>2. IsFiniteSet(at) /\ Cardinality(at) \in Nat
    BY <1>1, <2>1, PlacesAreFinite, Zenon
  <2> QED
    BY <2>2
<1>4. after = IF k = kind THEN at \cup {Len(s) + 1} ELSE at
  BY <1>1, <1>2
<1>5. Len(s) + 1 \notin at
  BY <1>1
<1> HIDE DEF at, after
<1>6. Cardinality(after) = Cardinality(at) + IF k = kind THEN 1 ELSE 0
  <2>1. IsFiniteSet(at \cup {Len(s) + 1}) /\ Cardinality(at \cup {Len(s) + 1}) = Cardinality(at) + 1
    BY <1>3, <1>5, FS_AddElement
  <2> QED
    BY <1>3, <1>4, <2>1
<1> QED
  BY <1>3, <1>6 DEF QtySafe, at, after

\* What is taken out of it is one less.
LEMMA QtySafeTaken ==
    ASSUME NEW s \in Seq(Items), NEW kind \in Items, Contains(s, kind), NEW k \in Items
    PROVE  QtySafe(RemoveFirst(s, kind), k) = QtySafe(s, k) - IF k = kind THEN 1 ELSE 0
<1>0. Len(s) \in Nat /\ DOMAIN s = 1..Len(s)
  BY LenProperties
<1>1. PICK first \in 1..Len(s) :
        s[first] = kind /\ RemoveFirst(s, kind) = SubSeq(s, 1, first - 1) \o SubSeq(s, first + 1, Len(s))
  <2>1. \E i \in 1..Len(s) : s[i] = kind
    BY <1>0 DEF Contains
  <2> DEFINE at == {i \in 1..Len(s) : s[i] = kind}
  <2>2. at \in SUBSET Nat /\ at # {}
    BY <2>1
  <2>3. Min(at) \in at
    BY <2>2, MinIsMember
  <2>4. RemoveFirst(s, kind) = SubSeq(s, 1, Min(at) - 1) \o SubSeq(s, Min(at) + 1, Len(s))
    BY <2>1 DEF RemoveFirst, RemoveAt, SelectInSeq
  <2> QED
    BY <2>3, <2>4
<1> DEFINE r == RemoveFirst(s, kind)
           shift == [n \in 1..Len(s) - 1 |-> IF n < first THEN n ELSE n + 1]
<1>2. /\ DOMAIN r = 1..Len(s) - 1
      /\ \A n \in 1..Len(s) - 1 : r[n] = s[shift[n]]
  <2> DEFINE u == SubSeq(s, 1, first - 1)
             v == SubSeq(s, first + 1, Len(s))
  <2>1. /\ u \in Seq(Items) /\ Len(u) = first - 1
        /\ \A i \in 1..first - 1 : u[i] = s[i]
    <3>1. \A i \in 1..first - 1 : s[i] \in Items
      BY <1>0, <1>1, ElementOfSeq
    <3> QED
      BY <1>0, <1>1, <3>1, SubSeqProperties
  <2>2. /\ v \in Seq(Items) /\ Len(v) = Len(s) - first
        /\ \A i \in 1..Len(s) - first : v[i] = s[first + i]
    <3>1. \A i \in first + 1..Len(s) : s[i] \in Items
      BY <1>0, <1>1, ElementOfSeq
    <3>2. /\ v \in Seq(Items) /\ Len(v) = IF first + 1 <= Len(s) THEN Len(s) - (first + 1) + 1 ELSE 0
          /\ \A i \in 1..Len(s) - (first + 1) + 1 : v[i] = s[(first + 1) + i - 1]
      BY <1>0, <1>1, <3>1, SubSeqProperties
    <3> HIDE DEF v
    <3>3. Len(s) - (first + 1) + 1 = Len(s) - first
      BY <1>0, <1>1
    <3>4. \A i \in 1..Len(s) - first : (first + 1) + i - 1 = first + i
      BY <1>0, <1>1
    <3>5. Len(v) = Len(s) - first
      <4>1. Len(v) = IF first + 1 <= Len(s) THEN Len(s) - (first + 1) + 1 ELSE 0
        BY <3>2
      <4>2. first \in Int /\ first <= Len(s) /\ Len(s) \in Int
        BY <1>0, <1>1
      <4> QED
        BY <4>1, <4>2
    <3>6. ASSUME NEW i \in 1..Len(s) - first PROVE v[i] = s[first + i]
      BY <3>2, <3>3, <3>4
    <3> QED
      BY <3>2, <3>5, <3>6
  <2> HIDE DEF u, v
  <2>3. /\ Len(u \o v) = Len(u) + Len(v) /\ u \o v \in Seq(Items)
        /\ \A i \in 1..Len(u) + Len(v) : (u \o v)[i] = IF i <= Len(u) THEN u[i] ELSE v[i - Len(u)]
    BY <2>1, <2>2, ConcatProperties
  <2>4. r = u \o v
    BY <1>1 DEF u, v
  <2> HIDE DEF r
  <2>5. DOMAIN r = 1..Len(s) - 1
    <3>1. DOMAIN r = 1..Len(r) /\ Len(r) = Len(u) + Len(v)
      BY <2>3, <2>4, LenProperties
    <3> QED
      BY <1>0, <1>1, <2>1, <2>2, <3>1
  <2>6. ASSUME NEW n \in 1..Len(s) - 1 PROVE r[n] = s[shift[n]]
    <3>1. CASE n < first
      BY <1>0, <1>1, <2>1, <2>2, <2>3, <2>4, <3>1
    <3>2. CASE ~(n < first)
      <4>1. r[n] = v[n - (first - 1)]
        BY <1>0, <1>1, <2>1, <2>2, <2>3, <2>4, <3>2
      <4>2. n - (first - 1) \in 1..Len(s) - first
        BY <1>0, <1>1, <3>2
      <4>3. first + (n - (first - 1)) = n + 1
        BY <1>0, <1>1
      <4> QED
        BY <2>2, <3>2, <4>1, <4>2, <4>3
    <3> QED
      BY <3>1, <3>2
  <2> QED
    BY <2>5, <2>6
<1> HIDE DEF r
<1> DEFINE at == {n \in 1..Len(s) : s[n] = k}
           left == {n \in 1..Len(s) - 1 : r[n] = k}
           m == [n \in left |-> shift[n]]
<1>3. m \in Bijection(left, at \ {first})
  <2>1. \A n \in left : m[n] \in at \ {first}
    BY <1>0, <1>1, <1>2
  <2>2. \A x, y \in left : m[x] = m[y] => x = y
    BY <1>0, <1>1
  <2>3. ASSUME NEW n \in at \ {first} PROVE \E x \in left : m[x] = n
    <3>1. CASE n < first
      <4>1. n \in 1..Len(s) - 1 /\ shift[n] = n
        BY <1>0, <1>1, <3>1
      <4>2. n \in left
        BY <1>2, <4>1
      <4> QED
        BY <4>1, <4>2
    <3>2. CASE ~(n < first)
      <4>1. n - 1 \in 1..Len(s) - 1 /\ shift[n - 1] = n
        BY <1>0, <1>1, <3>2
      <4>2. n - 1 \in left
        BY <1>2, <4>1
      <4> QED
        BY <4>1, <4>2
    <3> QED
      BY <3>1, <3>2
  <2> HIDE DEF left, at, shift
  <2> QED
    BY <2>1, <2>2, <2>3 DEF Bijection, Injection, Surjection, IsInjective
<1>4. IsFiniteSet(at) /\ Cardinality(at) \in Nat
  BY <1>0, PlacesAreFinite
<1>5. IsFiniteSet(left)
  <2>1. left \in SUBSET (1..Len(s))
    BY <1>0
  <2> HIDE DEF left
  <2> QED
    BY <1>0, <2>1, PlacesAreFinite
<1>6. first \in at <=> k = kind
  BY <1>1
<1>7. QtySafe(s, k) = Cardinality(at) /\ QtySafe(r, k) = Cardinality(left)
  BY <1>0, <1>2 DEF QtySafe
<1> HIDE DEF at, left, m
<1>8. Cardinality(left) = Cardinality(at \ {first})
  BY <1>3, <1>5, FS_Bijection DEF ExistsBijection
<1> QED
  <2>1. Cardinality(at \ {first}) = IF first \in at THEN Cardinality(at) - 1 ELSE Cardinality(at)
    BY <1>4, FS_RemoveElement
  <2> QED
    BY <1>4, <1>6, <1>7, <1>8, <2>1 DEF r

\* An empty safe holds nothing.
LEMMA QtySafeOfNone ==
    ASSUME NEW k PROVE QtySafe(<<>>, k) = 0
  BY FS_EmptySet DEF QtySafe

-----------------------------------------------------------------------------
\* What is scattered is on the ground afterwards.

\* The bare cells take their turns one by one.
LEMMA TurnIsRank ==
    ASSUME NEW g, NEW c \in Cells
    PROVE  /\ IsFiniteSet(Bare(g)) /\ Cardinality(Bare(g)) \in Nat
           /\ \A x \in Bare(g) : Turn(g, c, x) \in 0..Cardinality(Bare(g)) - 1
           /\ \A x, y \in Bare(g) : Turn(g, c, x) = Turn(g, c, y) => x = y
           /\ \A n \in 0..Cardinality(Bare(g)) - 1 : \E x \in Bare(g) : Turn(g, c, x) = n
<1> DEFINE B == Bare(g)
<1>1. \A x \in B : x \in Cells
  BY DEF Bare
<1>2. IsFiniteSet(B)
  BY GroundAssumption, FS_Subset DEF Bare
<1>3. \A x \in B : Turn(g, c, x) = Cardinality({y \in B : Distance[c][y] < Distance[c][x]})
  BY DEF Turn
<1> HIDE DEF B
<1>4. PICK f \in [B -> Int] : \A x \in B : f[x] = Distance[c][x]
  <2>1. \A x \in B : Distance[c][x] \in Int
    BY <1>1, GroundAssumption
  <2>2. [x \in B |-> Distance[c][x]] \in [B -> Int]
    BY <2>1
  <2> QED
    BY <2>2
<1>5. \A x, y \in B : f[x] = f[y] => x = y
  BY <1>1, <1>4, GroundAssumption
<1>6. \A x \in B : Rank(f, B, x) = Turn(g, c, x)
  <2>1. \A x \in B : Below(f, B, x) = {y \in B : Distance[c][y] < Distance[c][x]}
    BY <1>4 DEF Below
  <2> QED
    BY <1>3, <2>1 DEF Rank
<1>7. /\ Cardinality(B) \in Nat
      /\ \A x \in B : Rank(f, B, x) \in 0..Cardinality(B) - 1
      /\ \A x, y \in B : Rank(f, B, x) = Rank(f, B, y) => x = y
      /\ \A n \in 0..Cardinality(B) - 1 : \E x \in B : Rank(f, B, x) = n
  BY <1>2, <1>5, RanksAreDistinct
<1>8. /\ Cardinality(B) \in Nat
      /\ \A x \in B : Turn(g, c, x) \in 0..Cardinality(B) - 1
      /\ \A x, y \in B : Turn(g, c, x) = Turn(g, c, y) => x = y
      /\ \A n \in 0..Cardinality(B) - 1 : \E x \in B : Turn(g, c, x) = n
  BY <1>6, <1>7
<1> QED
  BY <1>2, <1>8 DEF B

\* Which of a pile find a bare cell, and which do not.
Placed(g, pile) == {n \in DOMAIN pile : Order(DOMAIN pile, n) < Cardinality(Bare(g))}
NotPlaced(g, pile) == {n \in DOMAIN pile : Order(DOMAIN pile, n) >= Cardinality(Bare(g))}

\* What the things that may lie on a cell are worth; a pile of them, numbered.
IsWorth(w, V) == w[Nothing] = 0 /\ \A thing \in V : w[thing] \in Int
IsPile(pile, V) == IsFiniteSet(DOMAIN pile) /\ \A n \in DOMAIN pile : n \in Int /\ pile[n] \in V
GroundWorth(w, g) == [x \in Cells |-> w[g[x]]]
PileWorth(w, pile) == [n \in DOMAIN pile |-> w[pile[n]]]

\* What lies on the cells after a pile is scattered: what lay there, and what was placed,
\* each on a cell of its own, whatever the things are worth.
LEMMA ScatteredKeepsWorth ==
    ASSUME NEW V, NEW w, IsWorth(w, V), NEW g \in [Cells -> V], NEW c \in Cells,
           NEW pile, IsPile(pile, V)
    PROVE  /\ SumFunctionOnSet(PileWorth(w, pile), Placed(g, pile)) \in Int
           /\ SumFunctionOnSet(GroundWorth(w, g), Cells) \in Int
           /\ SumFunctionOnSet(GroundWorth(w, Scattered(g, c, pile)), Cells)
                = SumFunctionOnSet(GroundWorth(w, g), Cells)
                    + SumFunctionOnSet(PileWorth(w, pile), Placed(g, pile))
<1> DEFINE D == DOMAIN pile
           B == Bare(g)
           P == Placed(g, pile)
           h == Scattered(g, c, pile)
           at == [n \in P |-> CHOOSE x \in B : Turn(g, c, x) = Order(D, n)]
           Img == {at[n] : n \in P}
           e == GroundWorth(w, h)
           f == GroundWorth(w, g)
           v == PileWorth(w, pile)
<1>0. /\ w[Nothing] = 0 /\ \A thing \in V : w[thing] \in Int
      /\ IsFiniteSet(D) /\ (\A n \in D : n \in Int) /\ (\A n \in D : pile[n] \in V)
      /\ \A x \in Cells : e[x] = w[h[x]] /\ f[x] = w[g[x]]
      /\ \A n \in D : v[n] = w[pile[n]]
  BY DEF IsWorth, IsPile, GroundWorth, PileWorth
<1>1. /\ IsFiniteSet(B) /\ Cardinality(B) \in Nat
      /\ \A x \in B : Turn(g, c, x) \in 0..Cardinality(B) - 1
      /\ \A x, y \in B : Turn(g, c, x) = Turn(g, c, y) => x = y
      /\ \A n \in 0..Cardinality(B) - 1 : \E x \in B : Turn(g, c, x) = n
  BY TurnIsRank
<1>2. /\ \A n \in D : Order(D, n) \in Nat
      /\ \A n, m \in D : Order(D, n) = Order(D, m) => n = m
  <2>1. /\ Cardinality(D) \in Nat
        /\ \A n \in D : Order(D, n) \in 0..Cardinality(D) - 1
        /\ \A n, m \in D : Order(D, n) = Order(D, m) => n = m
    BY <1>0, OrderIsRank
  <2> QED
    BY <2>1
<1>3. P \subseteq D /\ \A n \in D : n \in P <=> Order(D, n) < Cardinality(B)
  BY DEF Placed
<1>4. \A n \in P : at[n] \in B /\ Turn(g, c, at[n]) = Order(D, n)
  <2> SUFFICES ASSUME NEW n \in P PROVE at[n] \in B /\ Turn(g, c, at[n]) = Order(D, n)
    OBVIOUS
  <2>1. Order(D, n) \in 0..Cardinality(B) - 1
    BY <1>1, <1>2, <1>3
  <2>2. \E x \in B : Turn(g, c, x) = Order(D, n)
    BY <1>1, <2>1
  <2> HIDE DEF B, D
  <2> QED
    BY <2>2
<1>5. B \subseteq Cells /\ \A x \in B : g[x] = Nothing
  BY DEF Bare
<1>6. \A n \in D, x \in Cells : Lands(g, c, pile, n, x) <=> (x \in B /\ Order(D, n) = Turn(g, c, x))
  BY DEF Lands
<1>7. \A n \in D, x \in Cells : Lands(g, c, pile, n, x) <=> (n \in P /\ x = at[n])
  <2> SUFFICES ASSUME NEW n \in D, NEW x \in Cells
               PROVE  Lands(g, c, pile, n, x) <=> (n \in P /\ x = at[n])
    OBVIOUS
  <2> HIDE DEF B, D, P, at
  <2>1. ASSUME Lands(g, c, pile, n, x) PROVE n \in P /\ x = at[n]
    <3>1. x \in B /\ Order(D, n) = Turn(g, c, x)
      BY <1>6, <2>1
    <3>2. Order(D, n) < Cardinality(B)
      BY <1>1, <3>1
    <3>3. n \in P
      BY <1>3, <3>2
    <3> QED
      BY <1>1, <1>4, <3>1, <3>3
  <2>2. ASSUME n \in P, x = at[n] PROVE Lands(g, c, pile, n, x)
    BY <1>4, <1>6, <2>2
  <2> QED
    BY <2>1, <2>2
<1>8. \A n, m \in P : at[n] = at[m] => n = m
  <2> HIDE DEF B, D, P, at
  <2> QED
    BY <1>2, <1>3, <1>4
<1>9. \A x \in Cells : h[x] = IF \E n \in D : Lands(g, c, pile, n, x)
                                THEN pile[CHOOSE n \in D : Lands(g, c, pile, n, x)]
                                ELSE g[x]
  BY DEF Scattered
<1> HIDE DEF B, D, P, h, at, e, f, v
<1>10. \A n \in P : h[at[n]] = pile[n]
  <2> SUFFICES ASSUME NEW n \in P PROVE h[at[n]] = pile[n]
    OBVIOUS
  <2>1. at[n] \in Cells /\ n \in D
    BY <1>3, <1>4, <1>5
  <2>2. Lands(g, c, pile, n, at[n]) /\ \A m \in D : Lands(g, c, pile, m, at[n]) => m = n
    BY <1>7, <1>8, <2>1
  <2>3. (CHOOSE m \in D : Lands(g, c, pile, m, at[n])) = n
    BY <2>1, <2>2
  <2> QED
    BY <1>9, <2>1, <2>2, <2>3
<1>11. \A x \in Cells \ Img : h[x] = g[x]
  BY <1>7, <1>9
<1>12. Img \subseteq B /\ Img \subseteq Cells
  BY <1>4, <1>5
<1>13. IsFiniteSet(Cells) /\ IsFiniteSet(P)
  BY <1>0, <1>3, GroundAssumption, FS_Subset
<1>14. \A n \in P : pile[n] \in V
  BY <1>0, <1>3
<1>15. \A x \in Cells : f[x] \in Int
  BY <1>0
<1>16. \A n \in P : v[n] = w[pile[n]] /\ v[n] \in Int
  BY <1>0, <1>3, <1>14
<1>17. \A n \in P : v[n] = e[at[n]]
  BY <1>0, <1>3, <1>4, <1>5, <1>10
<1>18. \A x \in Cells \ Img : e[x] = f[x]
  BY <1>0, <1>11
<1>19. \A x \in Cells : e[x] \in Int
  <2> SUFFICES ASSUME NEW x \in Cells PROVE e[x] \in Int
    OBVIOUS
  <2>1. CASE x \in Img
    <3>1. PICK n \in P : x = at[n]
      BY <2>1
    <3> QED
      BY <1>16, <1>17, <3>1
  <2>2. CASE x \notin Img
    BY <1>15, <1>18, <2>2
  <2> QED
    BY <2>1, <2>2
<1>20. \A x \in Img : f[x] = 0
  BY <1>0, <1>5, <1>12
<1>21. IsFiniteSet(Img) /\ SumFunctionOnSet(v, P) = SumFunctionOnSet(e, Img)
  BY <1>8, <1>13, <1>16, <1>17, SumRenamed
<1> HIDE DEF Img
<1>22. IsFiniteSet(Cells \ Img) /\ Img \cup (Cells \ Img) = Cells /\ Img \cap (Cells \ Img) = {}
  BY <1>12, <1>13, FS_Subset
<1>23. SumFunctionOnSet(e, Img \cup (Cells \ Img))
         = SumFunctionOnSet(e, Img) + SumFunctionOnSet(e, Cells \ Img)
  BY <1>19, <1>21, <1>22, SumOfParts
<1>24. SumFunctionOnSet(f, Img \cup (Cells \ Img))
         = SumFunctionOnSet(f, Img) + SumFunctionOnSet(f, Cells \ Img)
  BY <1>15, <1>21, <1>22, SumOfParts
<1>25. SumFunctionOnSet(f, Img) = 0
  BY <1>20, <1>21, SumOfZeros
<1>26. SumFunctionOnSet(e, Cells \ Img) = SumFunctionOnSet(f, Cells \ Img)
  BY <1>18, <1>22, SumSame
<1>27. SumFunctionOnSet(v, P) \in Int /\ SumFunctionOnSet(f, Cells \ Img) \in Int
       /\ SumFunctionOnSet(f, Cells) \in Int
  BY <1>13, <1>15, <1>16, <1>22, SumIsInt
<1>28. SumFunctionOnSet(e, Cells) = SumFunctionOnSet(f, Cells) + SumFunctionOnSet(v, P)
  <2>1. /\ SumFunctionOnSet(e, Cells) = SumFunctionOnSet(v, P) + SumFunctionOnSet(f, Cells \ Img)
        /\ SumFunctionOnSet(f, Cells) = 0 + SumFunctionOnSet(f, Cells \ Img)
    BY <1>21, <1>22, <1>23, <1>24, <1>25, <1>26
  <2> QED
    BY <1>27, <2>1
<1> QED
  BY <1>27, <1>28 DEF P, e, f, v, h

-----------------------------------------------------------------------------
\* What the ground holds of a kind, and what a dead player leaves of it.

MayLie == Lying \cup {Nothing}

\* Goods are not coins.
LEMMA ThingsDiffer ==
    /\ \A thing \in Coins : thing \notin Goods /\ thing \notin {s \in Goods : s.item \in Gear => s.qty = 1}
    /\ \A thing \in Goods : thing \notin Coins
    /\ Nothing \notin Coins /\ Nothing \notin Goods
<1>1. \A thing \in Coins : DOMAIN thing = {"gold"}
  BY DEF Coins
<1>2. \A thing \in Goods : DOMAIN thing = {"item", "qty"}
  BY DEF Goods
<1>3. {"gold"} # {"item", "qty"}
  OBVIOUS
<1> QED
  BY <1>1, <1>2, <1>3, GroundAssumption

\* What a thing counts for.
LEMMA ThingsCount ==
    ASSUME NEW k
    PROVE  /\ \A thing \in Lying \cup {Nothing} : QtyOf(thing, k) \in Int /\ CoinsIn(thing) \in Int
           /\ QtyOf(Nothing, k) = 0 /\ CoinsIn(Nothing) = 0
           /\ \A thing \in Coins : QtyOf(thing, k) = 0 /\ CoinsIn(thing) = thing.gold
           /\ \A thing \in Goods : CoinsIn(thing) = 0 /\ QtyOf(thing, k) = SlotQty(thing, k)
<1>1. \A thing \in Goods : thing.qty \in Int
  BY DEF Goods
<1>2. \A thing \in Coins : thing.gold \in Int
  BY DEF Coins
<1>3. \A thing : QtyOf(thing, k) \in Int /\ CoinsIn(thing) \in Int
  BY <1>1, <1>2 DEF QtyOf, CoinsIn
<1>4. QtyOf(Nothing, k) = 0 /\ CoinsIn(Nothing) = 0
  BY ThingsDiffer DEF QtyOf, CoinsIn
<1>5. \A thing \in Coins : QtyOf(thing, k) = 0 /\ CoinsIn(thing) = thing.gold
  BY ThingsDiffer DEF QtyOf, CoinsIn
<1>6. \A thing \in Goods : CoinsIn(thing) = 0 /\ QtyOf(thing, k) = SlotQty(thing, k)
  BY ThingsDiffer DEF QtyOf, CoinsIn, SlotQty
<1> QED
  BY <1>3, <1>4, <1>5, <1>6

\* The gold on the cells.
CoinsOn(g) == SumFunction([x \in Cells |-> CoinsIn(g[x])])

QtyPiled(pile, k, S) == SumFunctionOnSet([n \in DOMAIN pile |-> QtyOf(pile[n], k)], S)
CoinsPiled(pile, S) == SumFunctionOnSet([n \in DOMAIN pile |-> CoinsIn(pile[n])], S)

\* The part of a pile that finds no cell is lost, the rest is on the ground.
LEMMA QtyOnScattered ==
    ASSUME NEW g \in [Cells -> MayLie], NEW c \in Cells, NEW pile, IsPile(pile, Lying), NEW k
    PROVE  /\ QtyOn(g, k) \in Int /\ LostIn(g, pile, k) \in Int
           /\ QtyPiled(pile, k, DOMAIN pile) \in Int
           /\ QtyOn(Scattered(g, c, pile), k)
                = QtyOn(g, k) + QtyPiled(pile, k, DOMAIN pile) - LostIn(g, pile, k)
<1> DEFINE w == [thing \in Lying \cup {Nothing} |-> QtyOf(thing, k)]
           h == Scattered(g, c, pile)
           D == DOMAIN pile
           P == Placed(g, pile)
           L == NotPlaced(g, pile)
           f == [x \in Cells |-> QtyOf(g[x], k)]
           e == [x \in Cells |-> QtyOf(h[x], k)]
           v == [n \in D |-> QtyOf(pile[n], k)]
<1>1. w[Nothing] = 0 /\ \A thing \in Lying \cup {Nothing} : w[thing] \in Int
  BY ThingsCount
<1>2. IsFiniteSet(D) /\ (\A n \in D : n \in Int) /\ \A n \in D : pile[n] \in Lying
  BY DEF IsPile
<1>3. h \in [Cells -> Lying \cup {Nothing}]
  BY <1>2, ScatteredLiesOnGround DEF MayLie
<1>4. GroundWorth(w, h) = e /\ GroundWorth(w, g) = f /\ PileWorth(w, pile) = v
  BY <1>2, <1>3 DEF GroundWorth, PileWorth, MayLie
<1>5. IsWorth(w, MayLie) /\ IsPile(pile, MayLie)
  BY <1>1, <1>2 DEF IsWorth, IsPile, MayLie
<1> HIDE DEF w, h, D, e, f, v
<1>6. /\ SumFunctionOnSet(PileWorth(w, pile), Placed(g, pile)) \in Int
      /\ SumFunctionOnSet(GroundWorth(w, g), Cells) \in Int
      /\ SumFunctionOnSet(GroundWorth(w, Scattered(g, c, pile)), Cells)
           = SumFunctionOnSet(GroundWorth(w, g), Cells)
               + SumFunctionOnSet(PileWorth(w, pile), Placed(g, pile))
  BY <1>5, ScatteredKeepsWorth
<1>7. /\ SumFunctionOnSet(v, Placed(g, pile)) \in Int
      /\ SumFunctionOnSet(f, Cells) \in Int
      /\ SumFunctionOnSet(e, Cells) = SumFunctionOnSet(f, Cells) + SumFunctionOnSet(v, Placed(g, pile))
  BY <1>4, <1>6 DEF h
<1>8. QtyOn(h, k) = QtyOn(g, k) + SumFunctionOnSet(v, P) /\ QtyOn(g, k) \in Int
  BY <1>7 DEF e, f, P, QtyOn, SumFunction
<1>9. P \subseteq D /\ L \subseteq D /\ P \cup L = D /\ P \cap L = {}
  <2>1. \A n \in D : Order(D, n) \in Int
    <3>1. \A n \in D : Order(D, n) \in 0..Cardinality(D) - 1
      BY <1>2, OrderIsRank
    <3>2. Cardinality(D) \in Nat
      BY <1>2, FS_CardinalityType
    <3> QED
      BY <3>1, <3>2
  <2>2. Cardinality(Bare(g)) \in Int
    BY TurnIsRank
  <2> QED
    BY <2>1, <2>2 DEF Placed, NotPlaced, D
<1>10. \A n \in D : v[n] \in Int
  BY <1>2, ThingsCount DEF v
<1>11. IsFiniteSet(P) /\ IsFiniteSet(L)
  BY <1>2, <1>9, FS_Subset
<1> HIDE DEF P, L
<1>12. SumFunctionOnSet(v, P \cup L) = SumFunctionOnSet(v, P) + SumFunctionOnSet(v, L)
  BY <1>9, <1>10, <1>11, SumOfParts
<1>13. SumFunctionOnSet(v, P) \in Int /\ SumFunctionOnSet(v, L) \in Int /\ SumFunctionOnSet(v, D) \in Int
  BY <1>2, <1>9, <1>10, <1>11, SumIsInt
<1>14. LostIn(g, pile, k) = SumFunctionOnSet(v, L)
  <2> DEFINE lost == [n \in L |-> QtyOf(pile[n], k)]
  <2>1. \A n \in L : lost[n] = v[n]
    BY <1>9 DEF v
  <2>2. LostIn(g, pile, k) = SumFunctionOnSet(lost, L)
    BY DEF LostIn, SumFunction, NotPlaced, L
  <2> HIDE DEF lost
  <2> QED
    BY <1>11, <2>1, <2>2, SumSame
<1>15. QtyPiled(pile, k, DOMAIN pile) = SumFunctionOnSet(v, P) + SumFunctionOnSet(v, L)
  BY <1>9, <1>12 DEF QtyPiled, v, D
<1> QED
  BY <1>8, <1>13, <1>14, <1>15 DEF h

\* The gold that is placed is on the ground.
LEMMA CoinsOnScattered ==
    ASSUME NEW g \in [Cells -> MayLie], NEW c \in Cells, NEW pile, IsPile(pile, Lying)
    PROVE  /\ CoinsOn(g) \in Int
           /\ CoinsPiled(pile, Placed(g, pile)) \in Int
           /\ CoinsOn(Scattered(g, c, pile)) = CoinsOn(g) + CoinsPiled(pile, Placed(g, pile))
<1> DEFINE w == [thing \in Lying \cup {Nothing} |-> CoinsIn(thing)]
           h == Scattered(g, c, pile)
           D == DOMAIN pile
           f == [x \in Cells |-> CoinsIn(g[x])]
           e == [x \in Cells |-> CoinsIn(h[x])]
           v == [n \in D |-> CoinsIn(pile[n])]
<1>1. w[Nothing] = 0 /\ \A thing \in Lying \cup {Nothing} : w[thing] \in Int
  BY ThingsCount
<1>2. IsFiniteSet(D) /\ (\A n \in D : n \in Int) /\ \A n \in D : pile[n] \in Lying
  BY DEF IsPile
<1>3. h \in [Cells -> Lying \cup {Nothing}]
  BY <1>2, ScatteredLiesOnGround DEF MayLie
<1>4. GroundWorth(w, h) = e /\ GroundWorth(w, g) = f /\ PileWorth(w, pile) = v
  BY <1>2, <1>3 DEF GroundWorth, PileWorth, MayLie
<1>5. IsWorth(w, MayLie) /\ IsPile(pile, MayLie)
  BY <1>1, <1>2 DEF IsWorth, IsPile, MayLie
<1> HIDE DEF w, h, D, e, f, v
<1>6. /\ SumFunctionOnSet(PileWorth(w, pile), Placed(g, pile)) \in Int
      /\ SumFunctionOnSet(GroundWorth(w, g), Cells) \in Int
      /\ SumFunctionOnSet(GroundWorth(w, Scattered(g, c, pile)), Cells)
           = SumFunctionOnSet(GroundWorth(w, g), Cells)
               + SumFunctionOnSet(PileWorth(w, pile), Placed(g, pile))
  BY <1>5, ScatteredKeepsWorth
<1>7. /\ SumFunctionOnSet(v, Placed(g, pile)) \in Int
      /\ SumFunctionOnSet(f, Cells) \in Int
      /\ SumFunctionOnSet(e, Cells) = SumFunctionOnSet(f, Cells) + SumFunctionOnSet(v, Placed(g, pile))
  BY <1>4, <1>6 DEF h
<1> QED
  BY <1>7 DEF e, f, h, D, v, CoinsOn, SumFunction, CoinsPiled

\* One thing, with a bare cell somewhere, is placed.
LEMMA SingleIsPlaced ==
    ASSUME NEW g \in [Cells -> MayLie], NEW c \in Cells, Bare(g) # {},
           NEW thing \in Lying, NEW k
    PROVE  /\ IsPile(Single(thing), Lying)
           /\ LostIn(g, Single(thing), k) = 0
           /\ QtyPiled(Single(thing), k, DOMAIN Single(thing)) = QtyOf(thing, k)
           /\ CoinsPiled(Single(thing), Placed(g, Single(thing))) = CoinsIn(thing)
<1> DEFINE pile == Single(thing)
           v == [n \in DOMAIN pile |-> QtyOf(pile[n], k)]
           u == [n \in DOMAIN pile |-> CoinsIn(pile[n])]
<1>1. DOMAIN pile = {0} /\ pile[0] = thing
  BY DEF Single
<1>2. IsFiniteSet({0})
  BY FS_Singleton
<1>3. IsPile(pile, Lying)
  BY <1>1, <1>2 DEF IsPile
<1>4. Order({0}, 0) = 0
  <2>1. {j \in {0} : j < 0} = {}
    OBVIOUS
  <2> QED
    BY <2>1, FS_EmptySet DEF Order
<1>5. Cardinality(Bare(g)) \in Nat /\ Cardinality(Bare(g)) # 0
  BY TurnIsRank, FS_EmptySet
<1>6. Placed(g, pile) = {0} /\ NotPlaced(g, pile) = {}
  BY <1>1, <1>4, <1>5 DEF Placed, NotPlaced
<1>7. v[0] = QtyOf(thing, k) /\ v[0] \in Int /\ u[0] = CoinsIn(thing) /\ u[0] \in Int
  BY <1>1, ThingsCount
<1>8. QtyPiled(pile, k, DOMAIN pile) = SumFunctionOnSet(v, {0})
      /\ CoinsPiled(pile, Placed(g, pile)) = SumFunctionOnSet(u, {0})
  BY <1>1, <1>6 DEF QtyPiled, CoinsPiled
<1>9. LostIn(g, pile, k) = 0
  <2> DEFINE e == [n \in NotPlaced(g, pile) |-> QtyOf(pile[n], k)]
  <2>1. LostIn(g, pile, k) = SumFunctionOnSet(e, NotPlaced(g, pile))
    BY DEF LostIn, SumFunction, NotPlaced
  <2> HIDE DEF e
  <2> QED
    BY <1>6, <2>1, SumOfNone
<1> HIDE DEF v, u, pile
<1>10. \A f : f[0] \in Int => SumFunctionOnSet(f, {0}) = f[0]
  <2> SUFFICES ASSUME NEW f, f[0] \in Int PROVE SumFunctionOnSet(f, {0}) = f[0]
    OBVIOUS
  <2>1. SumFunctionOnSet(f, {0}) = f[0] + SumFunctionOnSet(f, {0} \ {0})
    BY <1>2, SumWithout
  <2>2. {0} \ {0} = {}
    OBVIOUS
  <2> QED
    BY <2>1, <2>2, SumOfNone
<1> QED
  BY <1>3, <1>7, <1>8, <1>9, <1>10 DEF pile

\* Only the slots that hold something count.
LEMMA QtyInHeld ==
    ASSUME NEW inventory \in Slots, NEW k \in Items, NEW f,
           \A j \in Held(inventory) : f[j] = SlotQty(inventory[j], k)
    PROVE  QtyIn(inventory, k) = SumFunctionOnSet(f, Held(inventory))
<1> DEFINE H == Held(inventory)
           e == [j \in Index |-> SlotQty(inventory[j], k)]
<1>1. H \subseteq Index /\ IsFiniteSet(H) /\ IsFiniteSet(Index) /\ IsFiniteSet(Index \ H)
  BY HeldAreIndices, FS_Subset
<1>2. \A j \in Index : e[j] \in Int
  BY DEF Slots, Slot, SlotQty
<1>3. \A j \in Index \ H : e[j] = 0
  BY ItemsAssumption DEF SlotQty, Held, Vacant, Named, Items
<1>4. \A j \in H : e[j] = f[j]
  BY <1>1
<1>5. QtyIn(inventory, k) = SumFunctionOnSet(e, Index)
  BY DEF QtyIn, SumFunction, SlotQty
<1>6. H \cup (Index \ H) = Index /\ H \cap (Index \ H) = {}
  BY <1>1
<1> HIDE DEF H, e
<1>7. SumFunctionOnSet(e, H \cup (Index \ H)) = SumFunctionOnSet(e, H) + SumFunctionOnSet(e, Index \ H)
  BY <1>1, <1>2, <1>6, SumOfParts
<1>8. SumFunctionOnSet(e, Index \ H) = 0
  BY <1>1, <1>3, SumOfZeros
<1>9. SumFunctionOnSet(e, H) = SumFunctionOnSet(f, H) /\ SumFunctionOnSet(e, H) \in Int
  <2>1. \A j \in H : e[j] \in Int
    BY <1>1, <1>2
  <2> QED
    BY <1>1, <1>4, <2>1, SumSame, SumIsInt
<1>10. SumFunctionOnSet(e, Index) = SumFunctionOnSet(e, H) + 0
  BY <1>6, <1>7, <1>8
<1> QED
  BY <1>5, <1>9, <1>10 DEF H

\* The loot: the coins under 0, the slots under the numbers after it.
LEMMA LootIsPile ==
    ASSUME EconomyInv, NEW p \in Players, NEW k
    PROVE  /\ IsPile(Loot(p), Lying)
           /\ k \in Items => QtyPiled(Loot(p), k, DOMAIN Loot(p)) = QtyIn(inv[p], k)
           /\ Excess(p) \in Nat
           /\ Bare(ground) # {} => CoinsPiled(Loot(p), Placed(ground, Loot(p))) = Excess(p)
<1> DEFINE H == Held(inv[p])
           Z == {m \in {0} : Excess(p) > 0}
           Up == [i \in H |-> i + 1]
           R == {Up[i] : i \in H}
           L == Loot(p)
           D == DOMAIN L
           v == [n \in D |-> QtyOf(L[n], k)]
           u == [n \in D |-> CoinsIn(L[n])]
           f == [i \in H |-> SlotQty(inv[p][i], k)]
<1>1. inv[p] \in Slots /\ Orderly(inv[p]) /\ gold[p] \in Nat /\ level[p] \in Levels
  BY DEF EconomyInv, TypeOK, InventoriesOrderly
<1>2. H \subseteq Index /\ IsFiniteSet(H) /\ \A i \in H : i \in Nat
  BY <1>1, HeldAreIndices, IndexIsNat
<1>3. Excess(p) \in Nat
  BY <1>1, GoldAssumption DEF Excess
<1>4. R = {i + 1 : i \in H} /\ D = Z \cup R
  BY DEF Loot
<1>5. \A n \in D : L[n] = IF n = 0 THEN [gold |-> Excess(p)] ELSE OnGround(inv[p][n - 1])
  BY DEF Loot
<1>6. \A i \in H : Up[i] = i + 1 /\ Up[i] \in R /\ Up[i] # 0 /\ Up[i] - 1 = i
  BY <1>2
<1>7. 0 \notin R /\ Z \cap R = {}
  BY <1>6
<1>8. \A i \in H : L[Up[i]] = OnGround(inv[p][i])
  BY <1>4, <1>5, <1>6
<1>9. \A i \in H : OnGround(inv[p][i]) \in Lying /\ OnGround(inv[p][i]) \in Goods
  <2> SUFFICES ASSUME NEW i \in H
               PROVE  OnGround(inv[p][i]) \in Lying /\ OnGround(inv[p][i]) \in Goods
    OBVIOUS
  <2>1. i \in Index /\ inv[p][i].item # NoItem
    BY DEF Held, Vacant, Named
  <2>2. OnGround(inv[p][i]) \in Lying
    BY <1>1, <2>1, DroppedMayLie
  <2>3. OnGround(inv[p][i]) \notin Coins
    <3>1. \A thing \in Coins : DOMAIN thing = {"gold"}
      BY DEF Coins
    <3>2. DOMAIN OnGround(inv[p][i]) = {"item", "qty"}
      BY DEF OnGround
    <3>3. {"gold"} # {"item", "qty"}
      OBVIOUS
    <3> QED
      BY <3>1, <3>2, <3>3
  <2> QED
    BY <2>2, <2>3 DEF Lying
<1>10. \A n \in Z : L[n] \in Coins /\ L[n].gold = Excess(p) /\ n = 0
  BY <1>3, <1>4, <1>5 DEF Coins
<1>11. \A i \in H : OnGround(inv[p][i]).item = inv[p][i].item /\ OnGround(inv[p][i]).qty = inv[p][i].qty
  BY DEF OnGround
<1>12. /\ \A n \in Z : v[n] = 0 /\ u[n] = Excess(p)
       /\ \A i \in H : v[Up[i]] = SlotQty(inv[p][i], k) /\ u[Up[i]] = 0
  <2>1. \A n \in Z : v[n] = QtyOf(L[n], k) /\ u[n] = CoinsIn(L[n])
    BY <1>4
  <2>2. \A i \in H : v[Up[i]] = QtyOf(OnGround(inv[p][i]), k) /\ u[Up[i]] = CoinsIn(OnGround(inv[p][i]))
    BY <1>4, <1>6, <1>8
  <2>3. \A i \in H : SlotQty(OnGround(inv[p][i]), k) = SlotQty(inv[p][i], k)
    BY <1>11 DEF SlotQty
  <2> HIDE DEF v, u, L
  <2> QED
    BY <1>9, <1>10, <2>1, <2>2, <2>3, ThingsCount
<1>13. \A i \in H : f[i] = SlotQty(inv[p][i], k) /\ f[i] \in Int
  BY <1>1, <1>2 DEF Slots, Slot, SlotQty
<1>14. k \in Items => QtyIn(inv[p], k) = SumFunctionOnSet(f, H)
  BY <1>1, <1>13, QtyInHeld
<1>15. \A i, j \in H : Up[i] = Up[j] => i = j
  BY <1>6, <1>2
<1>16. \A i \in H : f[i] \in Int /\ f[i] = v[Up[i]]
  BY <1>12, <1>13
<1>17. IsFiniteSet(Z)
  <2>1. IsFiniteSet({0}) /\ Z \subseteq {0}
    BY FS_Singleton
  <2> QED
    BY <2>1, FS_Subset
<1> HIDE DEF H, Z, L, D, v, u, f, Up
<1>18. IsFiniteSet(R) /\ SumFunctionOnSet(f, H) = SumFunctionOnSet(v, R)
  BY <1>2, <1>15, <1>16, SumRenamed
<1>19. \A n \in R : v[n] \in Int /\ u[n] = 0
  BY <1>12, <1>16
<1>20. \A n \in D : v[n] \in Int
  BY <1>4, <1>12, <1>19
<1> HIDE DEF R
<1>21. IsFiniteSet(D)
  BY <1>4, <1>17, <1>18, FS_Union
<1>22. k \in Items => SumFunctionOnSet(v, D) = QtyIn(inv[p], k)
  <2>1. SumFunctionOnSet(v, Z \cup R) = SumFunctionOnSet(v, Z) + SumFunctionOnSet(v, R)
    BY <1>4, <1>7, <1>17, <1>18, <1>20, SumOfParts
  <2>2. SumFunctionOnSet(v, Z) = 0
    BY <1>12, <1>17, SumOfZeros
  <2>3. SumFunctionOnSet(v, R) \in Int
    BY <1>18, <1>19, SumIsInt
  <2> QED
    BY <1>4, <1>14, <1>18, <2>1, <2>2, <2>3
<1>23. \A n \in D : n \in Int /\ L[n] \in Lying
  <2>1. \A n \in Z : n \in Int /\ L[n] \in Lying
    BY <1>10 DEF Lying
  <2>2. \A n \in R : n \in Int /\ L[n] \in Lying
    BY <1>2, <1>6, <1>8, <1>9 DEF R
  <2> QED
    BY <1>4, <2>1, <2>2
<1>24. IsPile(L, Lying)
  BY <1>21, <1>23 DEF IsPile, D
<1>25. ASSUME Bare(ground) # {} PROVE CoinsPiled(L, Placed(ground, L)) = Excess(p)
  <2> DEFINE P == Placed(ground, L)
  <2>1. P \subseteq D /\ IsFiniteSet(P)
    BY <1>21, FS_Subset DEF Placed, D
  <2>2. CoinsPiled(L, P) = SumFunctionOnSet(u, P)
    BY DEF CoinsPiled, u, D
  <2>3. CASE Excess(p) > 0
    <3>1. 0 \in D /\ 0 \in Z
      BY <1>4, <2>3 DEF Z
    <3>2. \A n \in D : ~(n < 0)
      BY <1>4, <1>2, <1>6, <1>10 DEF R
    <3>3. {n \in D : n < 0} = {}
      BY <3>2
    <3>4. Order(D, 0) = 0
      BY <3>3, FS_EmptySet DEF Order
    <3>5. Cardinality(Bare(ground)) \in Nat /\ Cardinality(Bare(ground)) # 0
      <4>1. PICK x \in Cells : TRUE
        BY GroundAssumption
      <4> QED
        BY <1>25, <4>1, TurnIsRank, FS_EmptySet
    <3>6. 0 \in P
      BY <3>1, <3>4, <3>5 DEF Placed, D
    <3>7. \A n \in P \ {0} : u[n] = 0
      BY <1>4, <1>10, <1>19, <2>1
    <3>8. u[0] = Excess(p) /\ \A n \in P : u[n] \in Int
      BY <1>3, <1>12, <3>1, <3>7
    <3> HIDE DEF P
    <3>9. SumFunctionOnSet(u, P) = u[0] + SumFunctionOnSet(u, P \ {0})
      BY <2>1, <3>6, <3>8, SumWithout
    <3>10. SumFunctionOnSet(u, P \ {0}) = 0
      <4>1. IsFiniteSet(P \ {0})
        BY <2>1, FS_RemoveElement
      <4> QED
        BY <3>7, <4>1, SumOfZeros
    <3> QED
      BY <1>3, <2>2, <3>8, <3>9, <3>10 DEF P
  <2>4. CASE ~(Excess(p) > 0)
    <3>1. Z = {} /\ Excess(p) = 0
      BY <1>3, <2>4 DEF Z
    <3>2. \A n \in P : u[n] = 0
      BY <1>4, <1>19, <2>1, <3>1
    <3> HIDE DEF P
    <3> QED
      BY <2>1, <2>2, <3>1, <3>2, SumOfZeros DEF P
  <2> QED
    BY <2>3, <2>4
<1> QED
  BY <1>3, <1>22, <1>24, <1>25 DEF QtyPiled, v, D, L

-----------------------------------------------------------------------------
\* Every item is accounted for.

GoodsInv == ledger \in [Items -> Int] /\ GoodsConserved

\* What player p and the ground hold of a kind, before and after.
Here(p, k) == QtyIn(inv[p], k) + QtySafe(safeItems[p], k) + QtyOn(ground, k)

\* The quantities are integers.
LEMMA QuantitiesAreInt ==
    ASSUME NEW k \in Items
    PROVE  /\ \A i \in Slots : Orderly(i) => QtyIn(i, k) \in Int
           /\ \A s \in Seq(Items) : QtySafe(s, k) \in Int
           /\ \A g \in [Cells -> Lying \cup {Nothing}] : QtyOn(g, k) \in Int
<1>1. ASSUME NEW i \in Slots, Orderly(i) PROVE QtyIn(i, k) \in Int
  <2>1. 0 \in Index
    BY MaxItemsAssumption DEF Index
  <2> QED
    BY <1>1, <2>1, QtyInEmptied
<1>2. ASSUME NEW s \in Seq(Items) PROVE QtySafe(s, k) \in Int
  BY QtySafeAppended
<1>3. ASSUME NEW g \in [Cells -> Lying \cup {Nothing}] PROVE QtyOn(g, k) \in Int
  <2> DEFINE f == [x \in Cells |-> QtyOf(g[x], k)]
  <2>1. \A x \in Cells : f[x] \in Int
    BY ThingsCount
  <2>2. QtyOn(g, k) = SumFunctionOnSet(f, Cells)
    BY DEF QtyOn, SumFunction
  <2> HIDE DEF f
  <2> QED
    BY <2>1, <2>2, GroundAssumption, SumIsInt
<1> QED
  BY <1>1, <1>2, <1>3

\* A step that changes only what one player and the ground hold, and enters the
\* difference in the ledger, keeps the account.
LEMMA GoodsMove ==
    ASSUME EconomyInv, EconomyInv', GoodsInv, NEW p \in Players,
           \A q \in Players \ {p} : inv'[q] = inv[q] /\ safeItems'[q] = safeItems[q],
           ledger' \in [Items -> Int],
           \A k \in Items : ledger'[k] = ledger[k] + Here(p, k)' - Here(p, k)
    PROVE  GoodsInv'
<1> SUFFICES ASSUME NEW k \in Items PROVE InWorld(k)' = ledger'[k]
  BY DEF GoodsInv, GoodsConserved
<1> DEFINE f == [q \in Players |-> QtyIn(inv[q], k) + QtySafe(safeItems[q], k)]
           e == [q \in Players |-> QtyIn(inv'[q], k) + QtySafe(safeItems'[q], k)]
<1>1. /\ \A q \in Players : QtyIn(inv[q], k) \in Int /\ QtySafe(safeItems[q], k) \in Int
      /\ QtyOn(ground, k) \in Int
  <2>1. /\ \A q \in Players : inv[q] \in Slots /\ Orderly(inv[q]) /\ safeItems[q] \in Seq(Items)
        /\ ground \in [Cells -> Lying \cup {Nothing}]
    BY DEF EconomyInv, TypeOK, InventoriesOrderly, LawfulGround
  <2> QED
    BY <2>1, QuantitiesAreInt
<1>2. /\ \A q \in Players : QtyIn(inv'[q], k) \in Int /\ QtySafe(safeItems'[q], k) \in Int
      /\ QtyOn(ground', k) \in Int
  <2>1. /\ \A q \in Players : inv'[q] \in Slots /\ Orderly(inv'[q]) /\ safeItems'[q] \in Seq(Items)
        /\ ground' \in [Cells -> Lying \cup {Nothing}]
    BY DEF EconomyInv, TypeOK, InventoriesOrderly, LawfulGround
  <2> QED
    BY <2>1, QuantitiesAreInt
<1>3. \A q \in Players : f[q] \in Int /\ e[q] \in Int
  BY <1>1, <1>2
<1>4. \A q \in Players \ {p} : e[q] = f[q]
  OBVIOUS
<1>5. /\ f[p] = QtyIn(inv[p], k) + QtySafe(safeItems[p], k)
      /\ e[p] = QtyIn(inv'[p], k) + QtySafe(safeItems'[p], k)
  OBVIOUS
<1>6. /\ InWorld(k) = SumFunctionOnSet(f, Players) + QtyOn(ground, k)
      /\ InWorld(k)' = SumFunctionOnSet(e, Players) + QtyOn(ground', k)
  BY DEF InWorld, SumFunction
<1> HIDE DEF f, e
<1>7. SumFunctionOnSet(e, Players) = SumFunctionOnSet(f, Players) - f[p] + e[p]
  BY <1>3, <1>4, PlayersAssumption, SumWithChange
<1>8. SumFunctionOnSet(f, Players) \in Int
  BY <1>3, PlayersAssumption, SumIsInt
<1>9. InWorld(k) = ledger[k]
  BY DEF GoodsInv, GoodsConserved
<1>10. ledger'[k] = ledger[k] + (e[p] + QtyOn(ground', k)) - (f[p] + QtyOn(ground, k))
  BY <1>5 DEF Here
<1> QED
  BY <1>1, <1>2, <1>3, <1>6, <1>7, <1>8, <1>9, <1>10

\* The ground, when a cell is cleared.
LEMMA QtyOnCleared ==
    ASSUME NEW g \in [Cells -> MayLie], NEW x \in Cells, NEW k
    PROVE  /\ QtyOn(g, k) \in Int
           /\ QtyOn([g EXCEPT ![x] = Nothing], k) = QtyOn(g, k) - QtyOf(g[x], k)
           /\ CoinsOn(g) \in Int
           /\ CoinsOn([g EXCEPT ![x] = Nothing]) = CoinsOn(g) - CoinsIn(g[x])
<1> DEFINE h == [g EXCEPT ![x] = Nothing]
           f == [y \in Cells |-> QtyOf(g[y], k)]
           e == [y \in Cells |-> QtyOf(h[y], k)]
           c == [y \in Cells |-> CoinsIn(g[y])]
           d == [y \in Cells |-> CoinsIn(h[y])]
<1>1. \A y \in Cells : h[y] = IF y = x THEN Nothing ELSE g[y]
  OBVIOUS
<1>2. \A y \in Cells : g[y] \in Lying \cup {Nothing} /\ h[y] \in Lying \cup {Nothing}
  BY <1>1 DEF MayLie
<1> HIDE DEF h
<1>3. \A y \in Cells : f[y] \in Int /\ e[y] \in Int /\ c[y] \in Int /\ d[y] \in Int
  BY <1>2, ThingsCount
<1>4. \A y \in Cells \ {x} : e[y] = f[y] /\ d[y] = c[y]
  BY <1>1
<1>5. e[x] = 0 /\ d[x] = 0 /\ f[x] = QtyOf(g[x], k) /\ c[x] = CoinsIn(g[x])
  BY <1>1, ThingsCount
<1>6. /\ QtyOn(g, k) = SumFunctionOnSet(f, Cells) /\ QtyOn(h, k) = SumFunctionOnSet(e, Cells)
      /\ CoinsOn(g) = SumFunctionOnSet(c, Cells) /\ CoinsOn(h) = SumFunctionOnSet(d, Cells)
  BY DEF QtyOn, CoinsOn, SumFunction
<1> HIDE DEF e, f, c, d
<1>7. /\ SumFunctionOnSet(e, Cells) = SumFunctionOnSet(f, Cells) - f[x] + e[x]
      /\ SumFunctionOnSet(d, Cells) = SumFunctionOnSet(c, Cells) - c[x] + d[x]
  <2>0. IsFiniteSet(Cells)
    BY GroundAssumption
  <2>1. SumFunctionOnSet(e, Cells) = SumFunctionOnSet(f, Cells) - f[x] + e[x]
    <3>1. \A y \in Cells : f[y] \in Int /\ e[y] \in Int
      BY <1>3
    <3>2. \A y \in Cells \ {x} : e[y] = f[y]
      BY <1>4
    <3> QED
      BY <2>0, <3>1, <3>2, SumWithChange
  <2>2. SumFunctionOnSet(d, Cells) = SumFunctionOnSet(c, Cells) - c[x] + d[x]
    <3>1. \A y \in Cells : c[y] \in Int /\ d[y] \in Int
      BY <1>3
    <3>2. \A y \in Cells \ {x} : d[y] = c[y]
      BY <1>4
    <3> QED
      BY <2>0, <3>1, <3>2, SumWithChange
  <2> QED
    BY <2>1, <2>2
<1>8. SumFunctionOnSet(f, Cells) \in Int /\ SumFunctionOnSet(c, Cells) \in Int
  BY <1>3, GroundAssumption, SumIsInt
<1> QED
  BY <1>3, <1>5, <1>6, <1>7, <1>8 DEF h

\* Goods that stay where they are.
LEMMA GoodsStay ==
    ASSUME EconomyInv, GoodsInv, UNCHANGED <<inv, safeItems, ground, ledger>>
    PROVE  GoodsInv'
  BY DEF GoodsInv, GoodsConserved, InWorld, QtyIn, QtySafe, QtyOn

\* The account of what a player carries.
LEMMA GoodsCarried ==
    ASSUME EconomyInv, EconomyInv', GoodsInv, NEW p \in Players,
           \/ PickUp(p)
           \/ \E i \in Index : Drop(p, i) \/ EquipItem(p, i)
    PROVE  GoodsInv'
<1> USE DEF life, safes, purse
<1>0. /\ inv \in [Players -> Slots] /\ inv[p] \in Slots /\ Orderly(inv[p]) /\ spot[p] \in Cells
      /\ safeItems \in [Players -> Seq(Items)] /\ safeItems[p] \in Seq(Items)
      /\ ground \in [Cells -> MayLie] /\ ground \in [Cells -> Lying \cup {Nothing}]
      /\ ledger \in [Items -> Int]
  BY DEF EconomyInv, TypeOK, InventoriesOrderly, LawfulGround, GoodsInv, MayLie
<1>00. \A k \in Items : /\ QtyIn(inv[p], k) \in Int /\ QtySafe(safeItems[p], k) \in Int
                        /\ QtyOn(ground, k) \in Int
  BY <1>0, QuantitiesAreInt
<1>1. CASE PickUp(p)
  <2> DEFINE thing == ground[spot[p]]
  <2>1. thing \in Lying
    BY <1>0, <1>1 DEF PickUp
  <2>2. \A k \in Items : QtyOn(ground', k) = QtyOn(ground, k) - QtyOf(thing, k)
    BY <1>0, <1>1, QtyOnCleared DEF PickUp
  <2>3. \A k \in Items : QtyIn(inv'[p], k) = QtyIn(inv[p], k) + QtyOf(thing, k)
    <3> SUFFICES ASSUME NEW k \in Items
                 PROVE  QtyIn(inv'[p], k) = QtyIn(inv[p], k) + QtyOf(thing, k)
      OBVIOUS
    <3>1. CASE thing \in Coins
      <4>1. QtyOf(thing, k) = 0 /\ inv' = inv
        BY <1>1, <3>1, ThingsCount DEF PickUp
      <4> QED
        BY <1>00, <4>1
    <3>2. CASE thing \notin Coins
      <4>1. thing \in Goods /\ (thing.item \in Gear => thing.qty = 1)
        BY <2>1, <3>2 DEF Lying
      <4>2. thing.item \in Items /\ thing.qty \in Nat \ {0}
        BY <4>1 DEF Goods
      <4>3. CanAdd(inv[p], thing.item) /\ inv'[p] = AddItem(inv[p], thing.item, thing.qty)
        BY <1>0, <1>1, <3>2 DEF PickUp
      <4>4. QtyOf(thing, k) = IF k = thing.item THEN thing.qty ELSE 0
        BY <4>1 DEF QtyOf
      <4> HIDE DEF thing
      <4>5. QtyIn(AddItem(inv[p], thing.item, thing.qty), k)
              = QtyIn(inv[p], k) + IF k = thing.item THEN thing.qty ELSE 0
        BY <1>0, <4>1, <4>2, <4>3, QtyInAdded
      <4> QED
        BY <4>3, <4>4, <4>5
    <3> QED
      BY <3>1, <3>2
  <2>4. \A k \in Items : QtyOf(thing, k) \in Int
    BY <2>1, ThingsCount
  <2>5. /\ UNCHANGED <<safeItems, ledger>>
        /\ \A q \in Players \ {p} : inv'[q] = inv[q] /\ safeItems'[q] = safeItems[q]
    BY <1>0, <1>1 DEF PickUp
  <2> HIDE DEF thing
  <2>6. \A k \in Items : ledger'[k] = ledger[k] + Here(p, k)' - Here(p, k)
    <3> SUFFICES ASSUME NEW k \in Items PROVE ledger'[k] = ledger[k] + Here(p, k)' - Here(p, k)
      OBVIOUS
    <3>1. /\ QtyIn(inv[p], k) \in Int /\ QtySafe(safeItems[p], k) \in Int
          /\ QtyOn(ground, k) \in Int /\ ledger[k] \in Int
      BY <1>0, <1>00
    <3> QED
      BY <3>1, <2>2, <2>3, <2>4, <2>5 DEF Here
  <2> QED
    BY <1>0, <2>5, <2>6, GoodsMove
<1>2. ASSUME NEW i \in Index, Drop(p, i)
      PROVE  GoodsInv'
  <2> DEFINE thing == OnGround(inv[p][i])
  <2>1. /\ Bare(ground) # {} /\ inv[p][i].item # NoItem
        /\ inv'[p] = [inv[p] EXCEPT ![i] = EmptySlot]
        /\ ground' = Scattered(ground, spot[p], Single(thing))
        /\ UNCHANGED <<safeItems, ledger>>
        /\ \A q \in Players \ {p} : inv'[q] = inv[q] /\ safeItems'[q] = safeItems[q]
    BY <1>0, <1>2 DEF Drop, PopSlot
  <2>2. thing \in Lying
    BY <1>0, <2>1, DroppedMayLie
  <2>3. \A k \in Items : QtyOf(thing, k) = SlotQty(inv[p][i], k) /\ QtyOf(thing, k) \in Int
    <3>1. thing.item = inv[p][i].item /\ thing.qty = inv[p][i].qty
      BY DEF OnGround
    <3>2. thing \in Goods
      <4>1. inv[p][i].item \in Items /\ inv[p][i].qty \in Nat \ {0}
        BY <1>0, <2>1 DEF Orderly, SlotsAgree, Slots, Slot
      <4> QED
        BY <4>1 DEF Goods, OnGround
    <3> HIDE DEF thing
    <3> QED
      BY <2>2, <3>1, <3>2, ThingsCount DEF SlotQty
  <2>4. \A k \in Items : QtyIn(inv'[p], k) = QtyIn(inv[p], k) - QtyOf(thing, k)
    <3> SUFFICES ASSUME NEW k \in Items
                 PROVE  QtyIn(inv'[p], k) = QtyIn(inv[p], k) - QtyOf(thing, k)
      OBVIOUS
    <3>1. QtyIn([inv[p] EXCEPT ![i] = EmptySlot], k) = QtyIn(inv[p], k) - SlotQty(inv[p][i], k)
      BY <1>0, QtyInEmptied
    <3> QED
      BY <2>1, <2>3, <3>1
  <2> HIDE DEF thing
  <2>5. \A k \in Items : QtyOn(ground', k) = QtyOn(ground, k) + QtyOf(thing, k)
    <3> SUFFICES ASSUME NEW k \in Items PROVE QtyOn(ground', k) = QtyOn(ground, k) + QtyOf(thing, k)
      OBVIOUS
    <3>1. /\ IsPile(Single(thing), Lying) /\ LostIn(ground, Single(thing), k) = 0
          /\ QtyPiled(Single(thing), k, DOMAIN Single(thing)) = QtyOf(thing, k)
      BY <1>0, <2>1, <2>2, SingleIsPlaced
    <3>2. QtyOn(Scattered(ground, spot[p], Single(thing)), k)
            = QtyOn(ground, k) + QtyPiled(Single(thing), k, DOMAIN Single(thing))
                - LostIn(ground, Single(thing), k)
      BY <1>0, <3>1, QtyOnScattered
    <3> QED
      BY <1>00, <2>1, <2>3, <3>1, <3>2
  <2>6. \A k \in Items : ledger'[k] = ledger[k] + Here(p, k)' - Here(p, k)
    <3> SUFFICES ASSUME NEW k \in Items PROVE ledger'[k] = ledger[k] + Here(p, k)' - Here(p, k)
      OBVIOUS
    <3>1. /\ QtyIn(inv[p], k) \in Int /\ QtySafe(safeItems[p], k) \in Int
          /\ QtyOn(ground, k) \in Int /\ ledger[k] \in Int
      BY <1>0, <1>00
    <3> QED
      BY <3>1, <2>1, <2>3, <2>4, <2>5 DEF Here
  <2> QED
    BY <1>0, <2>1, <2>6, GoodsMove
<1>3. ASSUME NEW i \in Index, EquipItem(p, i)
      PROVE  GoodsInv'
  <2>1. /\ i \in Held(inv[p]) /\ inv'[p] = Equip(inv[p], i)
        /\ UNCHANGED <<safeItems, ground>>
        /\ \A q \in Players \ {p} : inv'[q] = inv[q] /\ safeItems'[q] = safeItems[q]
    BY <1>0, <1>3 DEF EquipItem, Held, Vacant, Named
  <2>2. \A k \in Items : QtyIn(inv'[p], k)
                           = QtyIn(inv[p], k)
                               - IF k = inv[p][i].item /\ inv[p][i].item \in Potions THEN 1 ELSE 0
    BY <1>0, <2>1, QtyInEquipped
  <2>3. /\ ledger' \in [Items -> Int]
        /\ \A k \in Items : ledger'[k]
                              = ledger[k]
                                  - IF k = inv[p][i].item /\ inv[p][i].item \in Potions THEN 1 ELSE 0
    <3>1. CASE inv[p][i].item \in Potions
      BY <1>0, <1>3, <3>1 DEF EquipItem, Exit
    <3>2. CASE inv[p][i].item \notin Potions
      BY <1>0, <1>3, <3>2 DEF EquipItem
    <3> QED
      BY <3>1, <3>2
  <2>6. \A k \in Items : ledger'[k] = ledger[k] + Here(p, k)' - Here(p, k)
    <3> SUFFICES ASSUME NEW k \in Items PROVE ledger'[k] = ledger[k] + Here(p, k)' - Here(p, k)
      OBVIOUS
    <3>1. /\ QtyIn(inv[p], k) \in Int /\ QtySafe(safeItems[p], k) \in Int
          /\ QtyOn(ground, k) \in Int /\ ledger[k] \in Int
      BY <1>0, <1>00
    <3> QED
      BY <3>1, <2>1, <2>2, <2>3 DEF Here
  <2> QED
    BY <2>1, <2>3, <2>6, GoodsMove
<1> QED
  BY <1>1, <1>2, <1>3

\* The account of what NPCs sell and buy, and of what is deposited and withdrawn.
LEMMA GoodsTraded ==
    ASSUME EconomyInv, EconomyInv', GoodsInv, NEW p \in Players, NEW k \in Items,
           NEW npc \in {"merchant", "priest"},
           \/ Buy(p, npc, k) \/ BuyWithoutRoom(p, npc, k) \/ Sell(p, k)
           \/ DepositItem(p, k) \/ WithdrawItem(p, k)
    PROVE  GoodsInv'
<1> USE DEF life, safes, purse
<1>0. /\ inv \in [Players -> Slots] /\ inv[p] \in Slots /\ Orderly(inv[p])
      /\ safeItems \in [Players -> Seq(Items)] /\ safeItems[p] \in Seq(Items)
      /\ ground \in [Cells -> Lying \cup {Nothing}]
      /\ ledger \in [Items -> Int]
  BY DEF EconomyInv, TypeOK, InventoriesOrderly, LawfulGround, GoodsInv
<1>00. \A j \in Items : /\ QtyIn(inv[p], j) \in Int /\ QtySafe(safeItems[p], j) \in Int
                        /\ QtyOn(ground, j) \in Int
  BY <1>0, QuantitiesAreInt
<1>1. CASE Buy(p, npc, k)
  <2>1. /\ CanAdd(inv[p], k) /\ inv'[p] = AddItem(inv[p], k, 1)
        /\ UNCHANGED <<safeItems, ground>>
        /\ \A q \in Players \ {p} : inv'[q] = inv[q] /\ safeItems'[q] = safeItems[q]
    BY <1>0, <1>1 DEF Buy
  <2>4. /\ ledger' \in [Items -> Int]
        /\ \A j \in Items : ledger'[j] = ledger[j] + IF j = k THEN 1 ELSE 0
    BY <1>0, <1>1 DEF Buy, Enter
  <2>2. \A j \in Items : QtyIn(inv'[p], j) = QtyIn(inv[p], j) + IF j = k THEN 1 ELSE 0
    BY <1>0, <2>1, QtyInAdded
  <2>3. \A j \in Items : ledger'[j] = ledger[j] + Here(p, j)' - Here(p, j)
    <3> SUFFICES ASSUME NEW j \in Items PROVE ledger'[j] = ledger[j] + Here(p, j)' - Here(p, j)
      OBVIOUS
    <3>1. /\ QtyIn(inv[p], j) \in Int /\ QtySafe(safeItems[p], j) \in Int
          /\ QtyOn(ground, j) \in Int /\ ledger[j] \in Int
      BY <1>0, <1>00
    <3> QED
      BY <3>1, <2>1, <2>2, <2>4 DEF Here
  <2> QED
    BY <2>1, <2>3, <2>4, GoodsMove
<1>2. CASE BuyWithoutRoom(p, npc, k)
  BY <1>2, GoodsStay DEF BuyWithoutRoom
<1>3. CASE Sell(p, k)
  <2>1. /\ HasItem(inv[p], k) /\ inv'[p] = RemoveNamed(inv[p], k)
        /\ UNCHANGED <<safeItems, ground>>
        /\ \A q \in Players \ {p} : inv'[q] = inv[q] /\ safeItems'[q] = safeItems[q]
    BY <1>0, <1>3 DEF Sell
  <2>4. /\ ledger' \in [Items -> Int]
        /\ \A j \in Items : ledger'[j] = ledger[j] - IF j = k THEN 1 ELSE 0
    BY <1>0, <1>3 DEF Sell, Exit
  <2>2. \A j \in Items : QtyIn(inv'[p], j) = QtyIn(inv[p], j) - IF j = k THEN 1 ELSE 0
    BY <1>0, <2>1, QtyInNamedTaken
  <2>3. \A j \in Items : ledger'[j] = ledger[j] + Here(p, j)' - Here(p, j)
    <3> SUFFICES ASSUME NEW j \in Items PROVE ledger'[j] = ledger[j] + Here(p, j)' - Here(p, j)
      OBVIOUS
    <3>1. /\ QtyIn(inv[p], j) \in Int /\ QtySafe(safeItems[p], j) \in Int
          /\ QtyOn(ground, j) \in Int /\ ledger[j] \in Int
      BY <1>0, <1>00
    <3> QED
      BY <3>1, <2>1, <2>2, <2>4 DEF Here
  <2> QED
    BY <2>1, <2>3, <2>4, GoodsMove
<1>4. CASE DepositItem(p, k)
  <2>1. /\ HasItem(inv[p], k) /\ inv'[p] = RemoveNamed(inv[p], k)
        /\ safeItems'[p] = Append(safeItems[p], k)
        /\ UNCHANGED <<ground, ledger>>
        /\ \A q \in Players \ {p} : inv'[q] = inv[q] /\ safeItems'[q] = safeItems[q]
    BY <1>0, <1>4 DEF DepositItem
  <2>2. \A j \in Items : /\ QtyIn(inv'[p], j) = QtyIn(inv[p], j) - IF j = k THEN 1 ELSE 0
                         /\ QtySafe(safeItems'[p], j) = QtySafe(safeItems[p], j) + IF j = k THEN 1 ELSE 0
    BY <1>0, <2>1, QtyInNamedTaken, QtySafeAppended
  <2>3. \A j \in Items : ledger'[j] = ledger[j] + Here(p, j)' - Here(p, j)
    <3> SUFFICES ASSUME NEW j \in Items PROVE ledger'[j] = ledger[j] + Here(p, j)' - Here(p, j)
      OBVIOUS
    <3>1. /\ QtyIn(inv[p], j) \in Int /\ QtySafe(safeItems[p], j) \in Int
          /\ QtyOn(ground, j) \in Int /\ ledger[j] \in Int
      BY <1>0, <1>00
    <3> QED
      BY <3>1, <2>1, <2>2 DEF Here
  <2> QED
    BY <1>0, <2>1, <2>3, GoodsMove
<1>5. CASE WithdrawItem(p, k)
  <2> DEFINE rest == RemoveFirst(safeItems[p], k)
  <2>1. Contains(safeItems[p], k) /\ UNCHANGED <<ground, ledger>>
    BY <1>5 DEF WithdrawItem
  <2>2. rest \in Seq(Items) /\ \A j \in Items : QtySafe(rest, j) = QtySafe(safeItems[p], j) - IF j = k THEN 1 ELSE 0
    BY <1>0, <2>1, QtySafeTaken, RemoveFirstLeavesItems
  <2>3. CASE CanAdd(inv[p], k)
    <3>1. /\ inv'[p] = AddItem(inv[p], k, 1) /\ safeItems'[p] = rest
          /\ \A q \in Players \ {p} : inv'[q] = inv[q] /\ safeItems'[q] = safeItems[q]
      BY <1>0, <1>5, <2>3 DEF WithdrawItem
    <3> HIDE DEF rest
    <3>2. \A j \in Items : QtyIn(inv'[p], j) = QtyIn(inv[p], j) + IF j = k THEN 1 ELSE 0
      <4>1. \A j \in Items : QtyIn(AddItem(inv[p], k, 1), j)
                               = QtyIn(inv[p], j) + IF j = k THEN 1 ELSE 0
        BY <1>0, <2>3, QtyInAdded
      <4> QED
        BY <3>1, <4>1
    <3>3. \A j \in Items : ledger'[j] = ledger[j] + Here(p, j)' - Here(p, j)
      <4> SUFFICES ASSUME NEW j \in Items PROVE ledger'[j] = ledger[j] + Here(p, j)' - Here(p, j)
        OBVIOUS
      <4>1. /\ QtyIn(inv[p], j) \in Int /\ QtySafe(safeItems[p], j) \in Int
            /\ QtyOn(ground, j) \in Int /\ ledger[j] \in Int
        BY <1>0, <1>00
      <4> QED
        BY <4>1, <2>1, <2>2, <3>1, <3>2 DEF Here
    <3> QED
      BY <1>0, <2>1, <3>1, <3>3, GoodsMove
  <2>4. CASE ~CanAdd(inv[p], k)
    <3>1. /\ inv'[p] = inv[p] /\ safeItems'[p] = Append(rest, k)
          /\ \A q \in Players \ {p} : inv'[q] = inv[q] /\ safeItems'[q] = safeItems[q]
      BY <1>0, <1>5, <2>4 DEF WithdrawItem, Returned
    <3> HIDE DEF rest
    <3>2. \A j \in Items : QtySafe(safeItems'[p], j) = QtySafe(safeItems[p], j)
      <4>1. \A j \in Items : QtySafe(Append(rest, k), j) = QtySafe(rest, j) + IF j = k THEN 1 ELSE 0
        BY <2>2, QtySafeAppended
      <4> QED
        BY <1>00, <2>2, <3>1, <4>1
    <3>3. \A j \in Items : ledger'[j] = ledger[j] + Here(p, j)' - Here(p, j)
      <4> SUFFICES ASSUME NEW j \in Items PROVE ledger'[j] = ledger[j] + Here(p, j)' - Here(p, j)
        OBVIOUS
      <4>1. /\ QtyIn(inv[p], j) \in Int /\ QtySafe(safeItems[p], j) \in Int
            /\ QtyOn(ground, j) \in Int /\ ledger[j] \in Int
        BY <1>0, <1>00
      <4> QED
        BY <4>1, <2>1, <3>1, <3>2 DEF Here
    <3> QED
      BY <1>0, <2>1, <3>1, <3>3, GoodsMove
  <2> QED
    BY <2>3, <2>4
<1> QED
  BY <1>1, <1>2, <1>3, <1>4, <1>5

\* The account of a death: what the dead carried is on the ground, or lost for good.
LEMMA GoodsOfDead ==
    ASSUME EconomyInv, EconomyInv', GoodsInv, NEW p \in Players, Killed(p)
    PROVE  GoodsInv'
<1> USE DEF life, safes, purse
<1>0. /\ inv \in [Players -> Slots] /\ inv[p] \in Slots /\ Orderly(inv[p]) /\ spot[p] \in Cells
      /\ safeItems \in [Players -> Seq(Items)] /\ safeItems[p] \in Seq(Items)
      /\ ground \in [Cells -> MayLie] /\ ground \in [Cells -> Lying \cup {Nothing}]
      /\ ledger \in [Items -> Int]
  BY DEF EconomyInv, TypeOK, InventoriesOrderly, LawfulGround, GoodsInv, MayLie
<1> DEFINE pile == Loot(p)
<1>1. /\ inv'[p] = EmptySlots /\ UNCHANGED safeItems
      /\ ground' = Scattered(ground, spot[p], pile)
      /\ ledger' = [k \in Items |-> ledger[k] - LostIn(ground, pile, k)]
      /\ \A q \in Players \ {p} : inv'[q] = inv[q] /\ safeItems'[q] = safeItems[q]
  BY <1>0 DEF Killed
<1>2. \A k \in Items : IsPile(pile, Lying) /\ QtyPiled(pile, k, DOMAIN pile) = QtyIn(inv[p], k)
  BY LootIsPile
<1> HIDE DEF pile
<1>3. ASSUME NEW k \in Items
      PROVE  /\ QtyIn(inv[p], k) \in Int /\ QtySafe(safeItems[p], k) \in Int
             /\ QtyOn(ground, k) \in Int /\ ledger[k] \in Int /\ LostIn(ground, pile, k) \in Int
             /\ QtyIn(inv'[p], k) = 0
             /\ QtyOn(ground', k) = QtyOn(ground, k) + QtyIn(inv[p], k) - LostIn(ground, pile, k)
             /\ ledger'[k] = ledger[k] - LostIn(ground, pile, k)
  <2>1. QtyIn(inv[p], k) \in Int /\ QtySafe(safeItems[p], k) \in Int /\ ledger[k] \in Int
    BY <1>0, QuantitiesAreInt
  <2>2. IsPile(pile, Lying) /\ QtyPiled(pile, k, DOMAIN pile) = QtyIn(inv[p], k)
    BY <1>2
  <2>3. /\ QtyOn(ground, k) \in Int /\ LostIn(ground, pile, k) \in Int
        /\ QtyOn(Scattered(ground, spot[p], pile), k)
             = QtyOn(ground, k) + QtyPiled(pile, k, DOMAIN pile) - LostIn(ground, pile, k)
    BY <1>0, <2>2, QtyOnScattered
  <2>4. QtyIn(inv'[p], k) = 0
    BY <1>1, QtyInNothing
  <2> QED
    BY <1>1, <2>1, <2>2, <2>3, <2>4
<1>4. \A k \in Items : ledger'[k] = ledger[k] + Here(p, k)' - Here(p, k)
  <2> SUFFICES ASSUME NEW k \in Items PROVE ledger'[k] = ledger[k] + Here(p, k)' - Here(p, k)
    OBVIOUS
  <2> QED
    BY <1>1, <1>3 DEF Here
<1>5. ledger' \in [Items -> Int]
  BY <1>1, <1>3
<1> QED
  BY <1>1, <1>4, <1>5, GoodsMove

\* The account of what an NPC leaves.
LEMMA GoodsOfNpcs ==
    ASSUME EconomyInv, EconomyInv', GoodsInv, NpcDies
    PROVE  GoodsInv'
<1> USE DEF life, safes, purse
<1>0. /\ inv \in [Players -> Slots] /\ safeItems \in [Players -> Seq(Items)]
      /\ ground \in [Cells -> MayLie] /\ ledger \in [Items -> Int]
  BY DEF EconomyInv, TypeOK, LawfulGround, GoodsInv, MayLie
<1>1. PICK c \in Cells, thing \in Lying :
        /\ NpcDrops(c, thing)
        /\ \/ thing \in Coins
           \/ thing \in Goods /\ thing.qty = 1
  <2>1. \A g \in NpcGold : [gold |-> g] \in Lying /\ [gold |-> g] \in Coins
    BY GoldAssumption DEF Lying, Coins
  <2>2. \A k \in Items : [item |-> k, qty |-> 1] \in Lying /\ [item |-> k, qty |-> 1] \in Goods
    BY DEF Lying, Goods
  <2> QED
    BY <2>1, <2>2 DEF NpcDies
<1>2. /\ Bare(ground) # {} /\ UNCHANGED <<inv, safeItems>>
      /\ ground' = Scattered(ground, c, Single(thing))
  BY <1>1 DEF NpcDrops
<1>3. /\ ledger' \in [Items -> Int]
      /\ \A k \in Items : ledger'[k] = ledger[k] + QtyOf(thing, k) /\ QtyOf(thing, k) \in Int
  <2>1. CASE thing \in Coins
    <3>1. ledger' = ledger /\ \A k \in Items : QtyOf(thing, k) = 0
      BY <1>1, <2>1, ThingsDiffer, ThingsCount DEF NpcDrops
    <3> QED
      BY <1>0, <3>1
  <2>2. CASE thing \in Goods
    <3>1. thing.item \in Items /\ thing.qty \in Int
      BY <2>2 DEF Goods
    <3>2. ledger' = [ledger EXCEPT ![thing.item] = @ + thing.qty]
      BY <1>1, <2>2 DEF NpcDrops, Enter
    <3>3. \A k \in Items : QtyOf(thing, k) = IF thing.item = k THEN thing.qty ELSE 0
      BY <2>2 DEF QtyOf
    <3> QED
      BY <1>0, <3>1, <3>2, <3>3
  <2> QED
    BY <1>1, <2>1, <2>2
<1>4. ASSUME NEW k \in Items PROVE InWorld(k)' = ledger'[k]
  <2> DEFINE f == [q \in Players |-> QtyIn(inv[q], k) + QtySafe(safeItems[q], k)]
  <2>1. /\ QtyOn(ground, k) \in Int
        /\ QtyOn(ground', k) = QtyOn(ground, k) + QtyOf(thing, k)
    <3>1. /\ IsPile(Single(thing), Lying) /\ LostIn(ground, Single(thing), k) = 0
          /\ QtyPiled(Single(thing), k, DOMAIN Single(thing)) = QtyOf(thing, k)
      BY <1>0, <1>2, SingleIsPlaced
    <3>2. /\ QtyOn(ground, k) \in Int
          /\ QtyOn(Scattered(ground, c, Single(thing)), k)
               = QtyOn(ground, k) + QtyPiled(Single(thing), k, DOMAIN Single(thing))
                   - LostIn(ground, Single(thing), k)
      BY <1>0, <3>1, QtyOnScattered
    <3> QED
      BY <1>2, <1>3, <3>1, <3>2
  <2>2. \A q \in Players : f[q] \in Int
    <3>1. \A q \in Players : inv[q] \in Slots /\ Orderly(inv[q]) /\ safeItems[q] \in Seq(Items)
      BY DEF EconomyInv, TypeOK, InventoriesOrderly
    <3>2. \A q \in Players : QtyIn(inv[q], k) \in Int /\ QtySafe(safeItems[q], k) \in Int
      BY <3>1, QuantitiesAreInt
    <3> QED
      BY <3>2
  <2>3. /\ InWorld(k) = SumFunctionOnSet(f, Players) + QtyOn(ground, k)
        /\ InWorld(k)' = SumFunctionOnSet(f, Players) + QtyOn(ground', k)
    BY <1>2 DEF InWorld, SumFunction
  <2> HIDE DEF f
  <2>4. SumFunctionOnSet(f, Players) \in Int
    BY <2>2, PlayersAssumption, SumIsInt
  <2>5. InWorld(k) = ledger[k]
    BY DEF GoodsInv, GoodsConserved
  <2> QED
    BY <1>0, <1>3, <2>1, <2>3, <2>4, <2>5
<1> QED
  BY <1>3, <1>4 DEF GoodsInv, GoodsConserved

\* The account of a player that comes back.
LEMMA GoodsOfRejoined ==
    ASSUME EconomyInv, EconomyInv', GoodsInv, NEW p \in Players, Rejoins(p)
    PROVE  GoodsInv'
<1> USE DEF life, safes, purse
<1>0. /\ inv \in [Players -> Slots] /\ inv[p] \in Slots /\ Orderly(inv[p])
      /\ safeItems \in [Players -> Seq(Items)] /\ safeItems[p] \in Seq(Items)
      /\ ground \in [Cells -> Lying \cup {Nothing}]
      /\ ledger \in [Items -> Int]
  BY DEF EconomyInv, TypeOK, InventoriesOrderly, LawfulGround, GoodsInv
<1>1. PICK save \in Saves \cup {NewCharacter}, reconnects \in BOOLEAN : Rejoin(p, save, reconnects)
  BY DEF Rejoins
<1>2. save.inv \in Slots /\ Orderly(save.inv)
  BY SavesAssumption, EmptySlotsAreOrderly DEF NewCharacter
<1> DEFINE leaves(k) == QtyIn(inv[p], k) + IF reconnects THEN QtySafe(safeItems[p], k) ELSE 0
           after == Restored(save.inv)
<1>3. /\ inv' = [inv EXCEPT ![p] = after] /\ UNCHANGED ground
      /\ ledger' = [k \in Items |-> ledger[k] - leaves(k) + QtyIn(save.inv, k)]
  BY <1>1 DEF Rejoin
<1>4. /\ reconnects => safeItems' = [safeItems EXCEPT ![p] = <<>>]
      /\ ~reconnects => safeItems' = safeItems
  <2>1. CASE reconnects
    BY <1>1, <2>1, Zenon DEF Rejoin
  <2>2. CASE ~reconnects
    BY <1>1, <2>2 DEF Rejoin
  <2> QED
    BY <2>1, <2>2
<1>5. ASSUME NEW k \in Items
      PROVE  /\ QtyIn(inv[p], k) \in Int /\ QtySafe(safeItems[p], k) \in Int
             /\ QtyOn(ground, k) \in Int /\ ledger[k] \in Int /\ QtyIn(save.inv, k) \in Int
             /\ QtyIn(inv'[p], k) = QtyIn(save.inv, k)
             /\ reconnects => QtySafe(safeItems'[p], k) = 0
             /\ ~reconnects => QtySafe(safeItems'[p], k) = QtySafe(safeItems[p], k)
             /\ ledger'[k] = ledger[k] - leaves(k) + QtyIn(save.inv, k)
  <2>1. /\ QtyIn(inv[p], k) \in Int /\ QtySafe(safeItems[p], k) \in Int
        /\ QtyOn(ground, k) \in Int /\ ledger[k] \in Int /\ QtyIn(save.inv, k) \in Int
    BY <1>0, <1>2, QuantitiesAreInt
  <2>2. QtyIn(inv'[p], k) = QtyIn(save.inv, k)
    <3>1. inv'[p] = Restored(save.inv)
      BY <1>0, <1>3
    <3> QED
      BY <1>2, <3>1, QtyInRestored
  <2>3. reconnects => QtySafe(safeItems'[p], k) = 0
    <3>1. reconnects => safeItems'[p] = <<>>
      BY <1>0, <1>4
    <3> QED
      BY <3>1, QtySafeOfNone
  <2>4. ~reconnects => QtySafe(safeItems'[p], k) = QtySafe(safeItems[p], k)
    BY <1>4
  <2>5. ledger'[k] = ledger[k] - leaves(k) + QtyIn(save.inv, k)
    BY <1>3
  <2> HIDE DEF leaves
  <2> QED
    BY <2>1, <2>2, <2>3, <2>4, <2>5
<1> HIDE DEF after
<1>6. \A q \in Players \ {p} : inv'[q] = inv[q] /\ safeItems'[q] = safeItems[q]
  BY <1>0, <1>3, <1>4
<1>7. \A k \in Items : ledger'[k] = ledger[k] + Here(p, k)' - Here(p, k)
  <2> SUFFICES ASSUME NEW k \in Items PROVE ledger'[k] = ledger[k] + Here(p, k)' - Here(p, k)
    OBVIOUS
  <2>1. CASE reconnects
    <3>1. leaves(k) = QtyIn(inv[p], k) + QtySafe(safeItems[p], k)
      BY <2>1
    <3> HIDE DEF leaves
    <3> QED
      BY <1>3, <1>5, <2>1, <3>1 DEF Here
  <2>2. CASE ~reconnects
    <3>1. leaves(k) = QtyIn(inv[p], k) + 0
      BY <2>2
    <3> HIDE DEF leaves
    <3> QED
      BY <1>3, <1>5, <2>2, <3>1 DEF Here
  <2> QED
    BY <2>1, <2>2
<1>8. ledger' \in [Items -> Int]
  <2>1. \A k \in Items : leaves(k) \in Int
    <3> SUFFICES ASSUME NEW k \in Items PROVE leaves(k) \in Int
      OBVIOUS
    <3> QED
      BY <1>5
  <2> HIDE DEF leaves
  <2>2. \A k \in Items : ledger[k] - leaves(k) + QtyIn(save.inv, k) \in Int
    BY <1>5, <2>1
  <2> QED
    BY <1>3, <2>2
<1> QED
  BY <1>6, <1>7, <1>8, GoodsMove

\* Every step keeps the account.
LEMMA StepGoods == EconomyInv /\ EconomyInv' /\ GoodsInv /\ [Next]_vars => GoodsInv'
<1> SUFFICES ASSUME EconomyInv, EconomyInv', GoodsInv, [Next]_vars PROVE GoodsInv'
  OBVIOUS
<1>1. ASSUME NEW p \in Players, PlayerActs(p) PROVE GoodsInv'
  <2>1. ASSUME NEW amount \in 1..MaxSafeGold, DepositGold(p, amount) \/ WithdrawGold(p, amount)
        PROVE  GoodsInv'
    BY <2>1, GoodsStay DEF DepositGold, WithdrawGold
  <2>2. CASE CheatDie(p) \/ CheatGold(p)
    BY <2>2, GoodsStay DEF CheatDie, CheatGold, safes
  <2>3. \E npc \in {"merchant", "priest"} : TRUE
    OBVIOUS
  <2> QED
    BY <1>1, <2>1, <2>2, <2>3, GoodsCarried, GoodsTraded DEF PlayerActs
<1>2. ASSUME NEW p \in Players, PlayerSuffers(p) PROVE GoodsInv'
  <2>1. CASE LevelUp(p)
    BY <2>1, GoodsStay DEF LevelUp, safes
  <2>2. ASSUME NEW c \in Cells, Walk(p, c) \/ Resurrect(p, c)
        PROVE  GoodsInv'
    BY <2>2, GoodsStay DEF Walk, Resurrect, safes
  <2> QED
    BY <1>2, <2>1, <2>2, GoodsOfDead, GoodsOfRejoined DEF PlayerSuffers
<1>3. CASE UNCHANGED vars
  BY <1>3, GoodsStay DEF vars, safes
<1> QED
  BY <1>1, <1>2, <1>3, GoodsOfNpcs DEF Next

\* At the start there is nothing.
LEMMA InitGoods == Init => GoodsInv
<1> SUFFICES ASSUME Init PROVE GoodsInv
  OBVIOUS
<1>1. ledger \in [Items -> Int] /\ \A k \in Items : ledger[k] = 0
  BY DEF Init
<1>2. ASSUME NEW k \in Items PROVE InWorld(k) = 0
  <2> DEFINE f == [q \in Players |-> QtyIn(inv[q], k) + QtySafe(safeItems[q], k)]
             g == [x \in Cells |-> QtyOf(ground[x], k)]
  <2>1. \A q \in Players : QtyIn(inv[q], k) = 0 /\ QtySafe(safeItems[q], k) = 0
    BY QtyInNothing, QtySafeOfNone DEF Init
  <2>2. \A q \in Players : f[q] = 0
    BY <2>1
  <2>3. \A x \in Cells : g[x] = 0
    BY ThingsCount DEF Init
  <2>4. InWorld(k) = SumFunctionOnSet(f, Players) + SumFunctionOnSet(g, Cells)
    BY DEF InWorld, QtyOn, SumFunction
  <2> HIDE DEF f, g
  <2>5. SumFunctionOnSet(f, Players) = 0 /\ SumFunctionOnSet(g, Cells) = 0
    BY <2>2, <2>3, PlayersAssumption, GroundAssumption, SumOfZeros
  <2> QED
    BY <2>4, <2>5
<1> QED
  BY <1>1, <1>2 DEF GoodsInv, GoodsConserved

\* No command copies or destroys an item: what is in the inventories, the safes and on
\* the ground is what was handed out, less what was taken for good.
THEOREM EconomyGoodsConserved == Spec => []GoodsConserved
<1>1. Init => EconomyInv /\ GoodsInv
  BY InitInv, InitGoods
<1>2. EconomyInv /\ GoodsInv /\ [Next]_vars => (EconomyInv /\ GoodsInv)'
  BY StepInv, StepGoods
<1>3. EconomyInv /\ GoodsInv => GoodsConserved
  BY DEF GoodsInv
<1> QED
  BY <1>1, <1>2, <1>3, PTL DEF Spec

-----------------------------------------------------------------------------
\* All gold is accounted for.

\* What a step does to the sum, when it changes one purse, one safe and the ground.
LEMMA GoldMove ==
    ASSUME EconomyInv, EconomyInv', NEW p \in Players,
           \A q \in Players \ {p} : gold'[q] = gold[q] /\ safeGold'[q] = safeGold[q]
    PROVE  /\ AllGold \in Int /\ AllGold' \in Int
           /\ gold[p] \in Nat /\ gold'[p] \in Nat /\ safeGold[p] \in Nat /\ safeGold'[p] \in Nat
           /\ CoinsOn(ground) \in Int /\ CoinsOn(ground') \in Int
           /\ AllGold' = AllGold + (gold'[p] + safeGold'[p] + CoinsOn(ground'))
                           - (gold[p] + safeGold[p] + CoinsOn(ground))
<1> DEFINE f == [q \in Players |-> gold[q] + safeGold[q]]
           e == [q \in Players |-> gold'[q] + safeGold'[q]]
<1>1. /\ \A q \in Players : gold[q] \in Nat /\ safeGold[q] \in Nat /\ gold'[q] \in Nat /\ safeGold'[q] \in Nat
      /\ ground \in [Cells -> MayLie] /\ ground' \in [Cells -> MayLie]
  BY DEF EconomyInv, TypeOK, LawfulGround, MayLie
<1>2. CoinsOn(ground) \in Int /\ CoinsOn(ground') \in Int
  <2>1. PICK x \in Cells : TRUE
    BY GroundAssumption
  <2> QED
    BY <1>1, <2>1, QtyOnCleared
<1>3. \A q \in Players : f[q] \in Int /\ e[q] \in Int
  BY <1>1
<1>4. \A q \in Players \ {p} : e[q] = f[q]
  OBVIOUS
<1>5. f[p] = gold[p] + safeGold[p] /\ e[p] = gold'[p] + safeGold'[p]
  OBVIOUS
<1>6. /\ AllGold = SumFunctionOnSet(f, Players) + CoinsOn(ground)
      /\ AllGold' = SumFunctionOnSet(e, Players) + CoinsOn(ground')
  BY DEF AllGold, CoinsAt, CoinsOn, SumFunction
<1> HIDE DEF f, e
<1>7. SumFunctionOnSet(e, Players) = SumFunctionOnSet(f, Players) - f[p] + e[p]
  BY <1>3, <1>4, PlayersAssumption, SumWithChange
<1>8. SumFunctionOnSet(f, Players) \in Int
  BY <1>3, PlayersAssumption, SumIsInt
<1> QED
  BY <1>1, <1>2, <1>5, <1>6, <1>7, <1>8

\* Where gold comes from and where it goes, for a step that does not stutter.
Accounted ==
    /\ AllGold \in Int /\ AllGold' \in Int
    /\ AllGold' > AllGold => GoldComes
    /\ AllGold > AllGold' => GoldGoes

\* The gold stays.
LEMMA GoldStays ==
    ASSUME EconomyInv, EconomyInv', UNCHANGED <<gold, safeGold, ground>>
    PROVE  Accounted
<1>1. AllGold' = AllGold
  BY DEF AllGold, CoinsAt, CoinsIn
<1>2. AllGold \in Int
  <2> DEFINE f == [q \in Players |-> gold[q] + safeGold[q]]
  <2>1. \A q \in Players : f[q] \in Int
    BY DEF EconomyInv, TypeOK
  <2>2. AllGold = SumFunctionOnSet(f, Players) + CoinsOn(ground)
    BY DEF AllGold, CoinsAt, CoinsOn, SumFunction
  <2> HIDE DEF f
  <2>3. SumFunctionOnSet(f, Players) \in Int
    BY <2>1, PlayersAssumption, SumIsInt
  <2>4. CoinsOn(ground) \in Int
    <3>1. PICK x \in Cells : TRUE
      BY GroundAssumption
    <3>2. ground \in [Cells -> MayLie]
      BY DEF EconomyInv, LawfulGround, MayLie
    <3> QED
      BY <3>1, <3>2, QtyOnCleared
  <2> QED
    BY <2>2, <2>3, <2>4
<1> QED
  BY <1>1, <1>2 DEF Accounted

\* add_gold: what does not fit fills the purse.
LEMMA EarnFills ==
    ASSUME EconomyInv, NEW p \in Players, NEW amount \in Nat, Earn(p, amount)
    PROVE  /\ \A q \in Players \ {p} : gold'[q] = gold[q]
           /\ gold'[p] \in Nat /\ gold'[p] >= gold[p] /\ gold'[p] <= gold[p] + amount
           /\ gold'[p] = gold[p] + amount \/ gold'[p] = Holdable[level[p]]
<1>1. /\ gold \in [Players -> Nat] /\ gold[p] \in Nat /\ Holdable[level[p]] \in Nat
      /\ gold[p] <= Holdable[level[p]]
  BY GoldAssumption DEF EconomyInv, TypeOK, GoldWithinLimit
<1>2. gold'[p] = Capped(p, gold[p], amount) /\ \A q \in Players \ {p} : gold'[q] = gold[q]
  BY <1>1 DEF Earn
<1> QED
  BY <1>1, <1>2 DEF Capped, AtMost

\* A pick-up, a drop and the use of an item.
LEMMA GoldOfCarrying ==
    ASSUME EconomyInv, EconomyInv', NEW p \in Players,
           \/ PickUp(p)
           \/ \E i \in Index : Drop(p, i) \/ EquipItem(p, i)
    PROVE  Accounted
<1> USE DEF life, safes, purse
<1>0. /\ inv[p] \in Slots /\ Orderly(inv[p]) /\ spot[p] \in Cells
      /\ ground \in [Cells -> MayLie] /\ ground \in [Cells -> Lying \cup {Nothing}]
  BY DEF EconomyInv, TypeOK, InventoriesOrderly, LawfulGround, MayLie
<1>1. CASE PickUp(p)
  <2> DEFINE thing == ground[spot[p]]
  <2>1. thing \in Lying /\ UNCHANGED safeGold
    BY <1>0, <1>1 DEF PickUp
  <2>2. CoinsOn(ground') = CoinsOn(ground) - CoinsIn(thing)
    BY <1>0, <1>1, QtyOnCleared DEF PickUp
  <2>3. CASE thing \in Coins
    <3>1. Earn(p, thing.gold) /\ thing.gold \in Nat /\ CoinsIn(thing) = thing.gold
      BY <1>1, <2>3, ThingsCount DEF PickUp, Coins
    <3> HIDE DEF thing
    <3>2. /\ \A q \in Players \ {p} : gold'[q] = gold[q] /\ safeGold'[q] = safeGold[q]
          /\ gold'[p] \in Nat /\ gold'[p] <= gold[p] + thing.gold
          /\ gold'[p] = gold[p] + thing.gold \/ gold'[p] = Holdable[level[p]]
      BY <2>1, <3>1, EarnFills
    <3>3. /\ AllGold \in Int /\ AllGold' \in Int /\ gold[p] \in Nat /\ safeGold[p] \in Nat
          /\ CoinsOn(ground) \in Int
          /\ AllGold' = AllGold + (gold'[p] + safeGold'[p] + CoinsOn(ground'))
                          - (gold[p] + safeGold[p] + CoinsOn(ground))
      BY <3>2, GoldMove
    <3>4. /\ AllGold' <= AllGold
          /\ AllGold' = AllGold \/ gold'[p] = Holdable[level[p]]
      BY <2>1, <2>2, <3>1, <3>2, <3>3
    <3> QED
      BY <3>3, <3>4 DEF Accounted, GoldGoes
  <2>4. CASE thing \notin Coins
    <3>1. CoinsIn(thing) = 0 /\ UNCHANGED gold
      BY <1>1, <2>4 DEF PickUp, CoinsIn
    <3> HIDE DEF thing
    <3>3. /\ AllGold \in Int /\ AllGold' \in Int /\ gold[p] \in Nat /\ safeGold[p] \in Nat
          /\ CoinsOn(ground) \in Int
          /\ AllGold' = AllGold + (gold'[p] + safeGold'[p] + CoinsOn(ground'))
                          - (gold[p] + safeGold[p] + CoinsOn(ground))
      BY <2>1, <3>1, GoldMove
    <3>4. AllGold' = AllGold
      BY <2>1, <2>2, <3>1, <3>3
    <3> QED
      BY <3>3, <3>4 DEF Accounted
  <2> QED
    BY <2>3, <2>4
<1>2. ASSUME NEW i \in Index, Drop(p, i)
      PROVE  Accounted
  <2> DEFINE thing == OnGround(inv[p][i])
  <2>1. /\ Bare(ground) # {} /\ inv[p][i].item # NoItem
        /\ ground' = Scattered(ground, spot[p], Single(thing))
        /\ UNCHANGED <<gold, safeGold>>
    BY <1>2 DEF Drop
  <2>2. thing \in Lying /\ CoinsIn(thing) = 0
    <3>1. inv[p][i].item \in Items /\ inv[p][i].qty \in Nat \ {0}
      BY <1>0, <2>1 DEF Orderly, SlotsAgree, Slots, Slot
    <3>2. thing \in Goods
      BY <3>1 DEF Goods, OnGround
    <3>3. thing \in Lying
      BY <1>0, <2>1, DroppedMayLie
    <3> HIDE DEF thing
    <3> QED
      BY <3>2, <3>3, ThingsCount
  <2> HIDE DEF thing
  <2>3. CoinsOn(ground') = CoinsOn(ground)
    <3>1. IsPile(Single(thing), Lying) /\ CoinsPiled(Single(thing), Placed(ground, Single(thing))) = 0
      BY <1>0, <2>1, <2>2, SingleIsPlaced
    <3>2. /\ CoinsOn(ground) \in Int
          /\ CoinsOn(Scattered(ground, spot[p], Single(thing)))
               = CoinsOn(ground) + CoinsPiled(Single(thing), Placed(ground, Single(thing)))
      BY <1>0, <3>1, CoinsOnScattered
    <3> QED
      BY <2>1, <3>1, <3>2
  <2>4. /\ AllGold \in Int /\ AllGold' \in Int /\ gold[p] \in Nat /\ safeGold[p] \in Nat
        /\ CoinsOn(ground) \in Int
        /\ AllGold' = AllGold + (gold'[p] + safeGold'[p] + CoinsOn(ground'))
                        - (gold[p] + safeGold[p] + CoinsOn(ground))
    BY <2>1, GoldMove
  <2>5. AllGold' = AllGold
    BY <2>1, <2>3, <2>4
  <2> QED
    BY <2>4, <2>5 DEF Accounted
<1>3. ASSUME NEW i \in Index, EquipItem(p, i)
      PROVE  Accounted
  BY <1>3, GoldStays DEF EquipItem
<1> QED
  BY <1>1, <1>2, <1>3

\* Purchases, sales, deposits and withdrawals.
LEMMA GoldOfTrade ==
    ASSUME EconomyInv, EconomyInv', NEW p \in Players, NEW k \in Items,
           NEW npc \in {"merchant", "priest"},
           Buy(p, npc, k) \/ BuyWithoutRoom(p, npc, k) \/ Sell(p, k)
    PROVE  Accounted
<1> USE DEF life, safes, purse
<1>0. /\ gold \in [Players -> Nat] /\ gold[p] \in Nat /\ Price[k] \in Nat
      /\ Holdable[level[p]] \in Nat /\ gold[p] <= Holdable[level[p]]
      /\ Price[k] \div BuyFactor \in Nat
  BY PricesAreNat, GoldAssumption DEF EconomyInv, TypeOK, GoldWithinLimit
<1>1. ASSUME UNCHANGED <<safeGold, ground>>, \A q \in Players \ {p} : gold'[q] = gold[q]
      PROVE  /\ AllGold \in Int /\ AllGold' \in Int /\ gold'[p] \in Nat
             /\ AllGold' = AllGold + gold'[p] - gold[p]
  <2>1. \A q \in Players \ {p} : gold'[q] = gold[q] /\ safeGold'[q] = safeGold[q]
    BY <1>1
  <2>2. /\ AllGold \in Int /\ AllGold' \in Int /\ gold'[p] \in Nat /\ safeGold[p] \in Nat
        /\ CoinsOn(ground) \in Int
        /\ AllGold' = AllGold + (gold'[p] + safeGold'[p] + CoinsOn(ground'))
                        - (gold[p] + safeGold[p] + CoinsOn(ground))
    BY <2>1, GoldMove
  <2> QED
    BY <1>0, <1>1, <2>2
<1>2. CASE Buy(p, npc, k)
  <2>1. /\ UNCHANGED <<safeGold, ground>> /\ gold'[p] = gold[p] - Price[k]
        /\ \A q \in Players \ {p} : gold'[q] = gold[q]
    BY <1>0, <1>2 DEF Buy, Pay
  <2>2. AllGold \in Int /\ AllGold' \in Int /\ AllGold' <= AllGold
    BY <1>0, <1>1, <2>1
  <2>3. GoldGoes
    BY <1>2 DEF GoldGoes
  <2> QED
    BY <2>2, <2>3 DEF Accounted
<1>3. CASE BuyWithoutRoom(p, npc, k)
  <2>1. /\ UNCHANGED <<safeGold, ground>> /\ gold'[p] = Refund(p, Price[k])
        /\ Price[k] <= gold[p]
        /\ \A q \in Players \ {p} : gold'[q] = gold[q]
    BY <1>0, <1>3 DEF BuyWithoutRoom, CanPay
  <2>2. gold'[p] = gold[p]
    BY <1>0, <2>1 DEF Refund, Capped, AtMost
  <2>3. AllGold \in Int /\ AllGold' \in Int /\ AllGold' = AllGold
    BY <1>0, <1>1, <2>1, <2>2
  <2> QED
    BY <2>3 DEF Accounted
<1>4. CASE Sell(p, k)
  <2>1. UNCHANGED <<safeGold, ground>> /\ Earn(p, Price[k] \div BuyFactor)
    BY <1>4 DEF Sell
  <2>2. gold'[p] >= gold[p] /\ \A q \in Players \ {p} : gold'[q] = gold[q]
    BY <1>0, <2>1, EarnFills
  <2>3. AllGold \in Int /\ AllGold' \in Int /\ AllGold' >= AllGold
    BY <1>0, <1>1, <2>1, <2>2
  <2>4. GoldComes
    BY <1>4 DEF GoldComes
  <2> QED
    BY <2>3, <2>4 DEF Accounted
<1> QED
  BY <1>2, <1>3, <1>4

\* Gold put into the bank, or taken out, only changes hands.
LEMMA GoldOfBanking ==
    ASSUME EconomyInv, EconomyInv', NEW p \in Players, NEW amount \in 1..MaxSafeGold,
           DepositGold(p, amount) \/ WithdrawGold(p, amount)
    PROVE  Accounted
<1> USE DEF life, safes, purse
<1>0. /\ gold \in [Players -> Nat] /\ safeGold \in [Players -> Nat] /\ amount \in Nat
  BY DEF EconomyInv, TypeOK
<1>1. UNCHANGED ground /\ \A q \in Players \ {p} : gold'[q] = gold[q] /\ safeGold'[q] = safeGold[q]
  <2>1. CASE DepositGold(p, amount)
    BY <1>0, <2>1 DEF DepositGold, Pay
  <2>2. CASE WithdrawGold(p, amount)
    BY <1>0, <2>2, EarnFills DEF WithdrawGold
  <2> QED
    BY <2>1, <2>2
<1>2. /\ AllGold \in Int /\ AllGold' \in Int /\ gold[p] \in Nat /\ gold'[p] \in Nat
      /\ safeGold[p] \in Nat /\ safeGold'[p] \in Nat /\ CoinsOn(ground) \in Int
      /\ AllGold' = AllGold + (gold'[p] + safeGold'[p] + CoinsOn(ground'))
                      - (gold[p] + safeGold[p] + CoinsOn(ground))
  BY <1>1, GoldMove
<1>3. AllGold' = AllGold + (gold'[p] + safeGold'[p]) - (gold[p] + safeGold[p])
  BY <1>1, <1>2
<1>4. CASE DepositGold(p, amount)
  <2>1. gold'[p] = gold[p] - amount /\ safeGold'[p] = safeGold[p] + amount
    BY <1>0, <1>4 DEF DepositGold, Pay
  <2>2. AllGold' = AllGold
    BY <1>0, <1>2, <1>3, <2>1
  <2> QED
    BY <1>2, <2>2 DEF Accounted
<1>5. CASE WithdrawGold(p, amount)
  <2>1. /\ safeGold'[p] = safeGold[p] - amount
        /\ gold'[p] <= gold[p] + amount
        /\ gold'[p] = gold[p] + amount \/ gold'[p] = Holdable[level[p]]
    BY <1>0, <1>5, EarnFills DEF WithdrawGold
  <2>2. AllGold' <= AllGold /\ (AllGold' = AllGold \/ gold'[p] = Holdable[level[p]])
    BY <1>0, <1>2, <1>3, <2>1
  <2> QED
    BY <1>2, <2>2 DEF Accounted, GoldGoes
<1> QED
  BY <1>4, <1>5

\* A death moves the excess to the ground, if there is a bare cell.
LEMMA GoldOfDead ==
    ASSUME EconomyInv, EconomyInv', NEW p \in Players, Killed(p)
    PROVE  Accounted
<1> USE DEF life, safes, purse
<1>0. /\ inv[p] \in Slots /\ gold \in [Players -> Nat] /\ spot[p] \in Cells
      /\ ground \in [Cells -> MayLie]
  BY DEF EconomyInv, TypeOK, LawfulGround, MayLie
<1> DEFINE pile == Loot(p)
<1>1. /\ gold'[p] = gold[p] - Excess(p) /\ UNCHANGED safeGold
      /\ ground' = Scattered(ground, spot[p], pile)
      /\ \A q \in Players \ {p} : gold'[q] = gold[q]
  BY <1>0 DEF Killed, Kept
<1>2. /\ IsPile(pile, Lying) /\ Excess(p) \in Nat
      /\ Bare(ground) # {} => CoinsPiled(pile, Placed(ground, pile)) = Excess(p)
  BY LootIsPile
<1> HIDE DEF pile
<1>3. /\ CoinsOn(ground) \in Int
      /\ CoinsOn(ground') = CoinsOn(ground) + CoinsPiled(pile, Placed(ground, pile))
  BY <1>0, <1>1, <1>2, CoinsOnScattered
<1>4. /\ AllGold \in Int /\ AllGold' \in Int /\ gold[p] \in Nat /\ safeGold[p] \in Nat
      /\ AllGold' = AllGold + (gold'[p] + safeGold'[p] + CoinsOn(ground'))
                      - (gold[p] + safeGold[p] + CoinsOn(ground))
  BY <1>1, GoldMove
<1>5. CASE Bare(ground) # {}
  <2>1. AllGold' = AllGold
    BY <1>1, <1>2, <1>3, <1>4, <1>5
  <2> QED
    BY <1>4, <2>1 DEF Accounted
<1>6. CASE Bare(ground) = {}
  <2>1. Placed(ground, pile) = {}
    <3>1. Cardinality(Bare(ground)) = 0
      BY <1>6, FS_EmptySet
    <3>2. \A n \in DOMAIN pile : Order(DOMAIN pile, n) \in Nat
      <4>1. /\ Cardinality(DOMAIN pile) \in Nat
            /\ \A n \in DOMAIN pile : Order(DOMAIN pile, n) \in 0..Cardinality(DOMAIN pile) - 1
        BY <1>2, OrderIsRank DEF IsPile
      <4> QED
        BY <4>1
    <3> QED
      BY <3>1, <3>2 DEF Placed
  <2>2. CoinsPiled(pile, Placed(ground, pile)) = 0
    BY <2>1, SumOfNone DEF CoinsPiled
  <2>3. AllGold' <= AllGold
    BY <1>1, <1>2, <1>3, <1>4, <2>2
  <2> QED
    BY <1>4, <1>6, <2>3 DEF Accounted, GoldGoes
<1> QED
  BY <1>5, <1>6

\* What an NPC drops, and what a player brings back, may be gold.
LEMMA GoldOfNpcs ==
    ASSUME EconomyInv, EconomyInv', NpcDies
    PROVE  Accounted
<1>0. ground \in [Cells -> MayLie]
  BY DEF EconomyInv, LawfulGround, MayLie
<1>1. PICK c \in Cells, thing \in Lying : NpcDrops(c, thing)
  <2>1. \A g \in NpcGold : [gold |-> g] \in Lying
    BY GoldAssumption DEF Lying, Coins
  <2>2. \A k \in Items : [item |-> k, qty |-> 1] \in Lying
    BY DEF Lying, Goods
  <2> QED
    BY <2>1, <2>2 DEF NpcDies
<1>2. /\ Bare(ground) # {} /\ UNCHANGED <<gold, safeGold>>
      /\ ground' = Scattered(ground, c, Single(thing))
  BY <1>1 DEF NpcDrops, purse, safes
<1>3. /\ CoinsOn(ground) \in Int /\ CoinsIn(thing) \in Nat
      /\ CoinsOn(ground') = CoinsOn(ground) + CoinsIn(thing)
  <2>1. /\ IsPile(Single(thing), Lying)
        /\ CoinsPiled(Single(thing), Placed(ground, Single(thing))) = CoinsIn(thing)
    BY <1>0, <1>2, SingleIsPlaced
  <2>2. /\ CoinsOn(ground) \in Int
        /\ CoinsOn(Scattered(ground, c, Single(thing)))
             = CoinsOn(ground) + CoinsPiled(Single(thing), Placed(ground, Single(thing)))
    BY <1>0, <2>1, CoinsOnScattered
  <2>3. CoinsIn(thing) \in Nat
    BY DEF CoinsIn, Coins
  <2> QED
    BY <1>2, <2>1, <2>2, <2>3
<1> DEFINE f == [q \in Players |-> gold[q] + safeGold[q]]
<1>4. \A q \in Players : f[q] \in Int
  BY DEF EconomyInv, TypeOK
<1>5. /\ AllGold = SumFunctionOnSet(f, Players) + CoinsOn(ground)
      /\ AllGold' = SumFunctionOnSet(f, Players) + CoinsOn(ground')
  BY <1>2 DEF AllGold, CoinsAt, CoinsOn, SumFunction
<1> HIDE DEF f
<1>6. SumFunctionOnSet(f, Players) \in Int
  BY <1>4, PlayersAssumption, SumIsInt
<1>7. AllGold \in Int /\ AllGold' \in Int /\ AllGold' >= AllGold
  BY <1>3, <1>5, <1>6
<1> QED
  BY <1>7 DEF Accounted, GoldComes

\* A player that comes back, with the gold that was saved and without its safe.
LEMMA GoldOfRejoined ==
    ASSUME EconomyInv, EconomyInv', NEW p \in Players, Rejoins(p)
    PROVE  Accounted
<1>0. gold \in [Players -> Nat] /\ safeGold \in [Players -> Nat]
  BY DEF EconomyInv, TypeOK
<1>1. PICK save \in Saves \cup {NewCharacter}, reconnects \in BOOLEAN : Rejoin(p, save, reconnects)
  BY DEF Rejoins
<1>2. \A q \in Players \ {p} : gold'[q] = gold[q] /\ safeGold'[q] = safeGold[q]
  <2>1. \A q \in Players \ {p} : gold'[q] = gold[q]
    BY <1>0, <1>1 DEF Rejoin
  <2>2. CASE reconnects
    <3>1. safeGold' = [safeGold EXCEPT ![p] = 0]
      BY <1>1, <2>2, Zenon DEF Rejoin
    <3> QED
      BY <1>0, <2>1, <3>1
  <2>3. CASE ~reconnects
    BY <1>1, <2>1, <2>3 DEF Rejoin, safes
  <2> QED
    BY <2>2, <2>3
<1>3. AllGold \in Int /\ AllGold' \in Int
  BY <1>2, GoldMove
<1>4. GoldComes /\ GoldGoes
  BY DEF GoldComes, GoldGoes
<1> QED
  BY <1>3, <1>4 DEF Accounted

\* Whatever a step does, the gold is accounted for.
LEMMA StepGold ==
    ASSUME EconomyInv, EconomyInv', Next
    PROVE  Accounted
<1>1. ASSUME NEW p \in Players, PlayerActs(p) PROVE Accounted
  <2>1. ASSUME NEW k \in Items, DepositItem(p, k) \/ WithdrawItem(p, k)
        PROVE  Accounted
    BY <2>1, GoldStays DEF DepositItem, WithdrawItem, purse
  <2>2. CASE CheatDie(p)
    BY <2>2, GoldStays DEF CheatDie, purse, safes
  <2>3. CASE CheatGold(p)
    <3>0. Holdable[level[p]] \in Nat
      BY GoldAssumption DEF EconomyInv, TypeOK
    <3>1. UNCHANGED <<safeGold, ground>> /\ Earn(p, Holdable[level[p]])
      BY <2>3 DEF CheatGold, safes
    <3>2. /\ \A q \in Players \ {p} : gold'[q] = gold[q] /\ safeGold'[q] = safeGold[q]
          /\ gold'[p] >= gold[p]
      BY <3>0, <3>1, EarnFills
    <3>3. /\ AllGold \in Int /\ AllGold' \in Int /\ gold[p] \in Nat /\ gold'[p] \in Nat
          /\ safeGold[p] \in Nat /\ CoinsOn(ground) \in Int
          /\ AllGold' = AllGold + (gold'[p] + safeGold'[p] + CoinsOn(ground'))
                          - (gold[p] + safeGold[p] + CoinsOn(ground))
      BY <3>2, GoldMove
    <3>4. AllGold' >= AllGold
      BY <3>1, <3>2, <3>3
    <3> QED
      BY <2>3, <3>3, <3>4 DEF Accounted, GoldComes
  <2>4. \E npc \in {"merchant", "priest"} : TRUE
    OBVIOUS
  <2> QED
    BY <1>1, <2>1, <2>2, <2>3, <2>4, GoldOfCarrying, GoldOfTrade, GoldOfBanking DEF PlayerActs
<1>2. ASSUME NEW p \in Players, PlayerSuffers(p) PROVE Accounted
  <2>1. CASE LevelUp(p)
    BY <2>1, GoldStays DEF LevelUp, safes
  <2>2. ASSUME NEW c \in Cells, Walk(p, c) \/ Resurrect(p, c)
        PROVE  Accounted
    BY <2>2, GoldStays DEF Walk, Resurrect, purse, safes
  <2> QED
    BY <1>2, <2>1, <2>2, GoldOfDead, GoldOfRejoined DEF PlayerSuffers
<1> QED
  BY <1>1, <1>2, GoldOfNpcs DEF Next

\* No step creates or destroys gold but those that are named: sales, drops, the cheat and
\* restorations bring it; purchases that deliver, full purses, departures and deaths
\* without a bare cell take it.
THEOREM EconomyGoldIsAccountedFor == Spec => GoldIsAccountedFor
<1>1. EconomyInv /\ EconomyInv' /\ [Next]_vars =>
        [LET before == AllGold
             after == AllGold'
         IN  CASE after = before -> TRUE
               [] after > before -> GoldComes
               [] OTHER -> GoldGoes]_<<gold, safeGold, CoinsAt>>
  <2> SUFFICES ASSUME EconomyInv, EconomyInv', [Next]_vars
               PROVE  [LET before == AllGold
                           after == AllGold'
                       IN  CASE after = before -> TRUE
                             [] after > before -> GoldComes
                             [] OTHER -> GoldGoes]_<<gold, safeGold, CoinsAt>>
    OBVIOUS
  <2>1. CASE UNCHANGED vars
    BY <2>1 DEF vars, purse, safes, CoinsAt
  <2>2. CASE Next
    <3>1. /\ AllGold \in Int /\ AllGold' \in Int
          /\ AllGold' > AllGold => GoldComes
          /\ AllGold > AllGold' => GoldGoes
      BY <2>2, StepGold DEF Accounted
    <3>2. AllGold' = AllGold \/ AllGold' > AllGold \/ AllGold > AllGold'
      BY <3>1
    <3>3. ~(AllGold' > AllGold /\ AllGold' = AllGold) /\ ~(AllGold' > AllGold /\ AllGold > AllGold')
      BY <3>1
    <3>4. CASE AllGold' = AllGold
      BY <3>3, <3>4
    <3>5. CASE AllGold' > AllGold
      BY <3>1, <3>3, <3>5
    <3>6. CASE AllGold > AllGold'
      BY <3>1, <3>3, <3>6
    <3> QED
      BY <3>2, <3>4, <3>5, <3>6
  <2> QED
    BY <2>1, <2>2
<1> QED
  BY <1>1, EconomyInvariant, PTL DEF Spec, GoldIsAccountedFor

-----------------------------------------------------------------------------
\* The restoration, slot by slot.

\* After the first n saved slots: those that hold something are there, each at its place in
\* the row of all that do, and nothing else.
IsPartial(s, saved, n) ==
    /\ s \in Slots
    /\ \A j \in Held(saved) : j < n => s[Order(Held(saved), j)] = saved[j]
    /\ \A i \in Index : (\A j \in Held(saved) : j < n => Order(Held(saved), j) # i) => s[i] = EmptySlot

\* The places grow with the slots.
LEMMA OrderGrows ==
    ASSUME NEW S, IsFiniteSet(S), \A i \in S : i \in Int, NEW i \in S, NEW j \in S, i <= j
    PROVE  Order(S, i) <= Order(S, j)
<1>1. {x \in S : x < i} \subseteq {x \in S : x < j}
  OBVIOUS
<1>2. IsFiniteSet({x \in S : x < j})
  BY FS_Subset
<1> QED
  BY <1>1, <1>2, FS_Subset DEF Order

\* Two slots with the same item, quantity and mark are the same.
LEMMA SlotsEqual ==
    ASSUME NEW a \in Slot, NEW b \in Slot, a.item = b.item, a.qty = b.qty, a.worn = b.worn
    PROVE  a = b
<1>1. a = [item |-> a.item, qty |-> a.qty, worn |-> a.worn]
  BY DEF Slot
<1>2. b = [item |-> b.item, qty |-> b.qty, worn |-> b.worn]
  BY DEF Slot
<1> QED
  BY <1>1, <1>2

\* A slot whose item is put on.
LEMMA WornSlot ==
    ASSUME NEW a \in Slot
    PROVE  /\ [a EXCEPT !.worn = TRUE] \in Slot
           /\ [a EXCEPT !.worn = TRUE].item = a.item
           /\ [a EXCEPT !.worn = TRUE].qty = a.qty
           /\ [a EXCEPT !.worn = TRUE].worn = TRUE
  BY DEF Slot

\* The next slot that holds something lands on the first vacant place, is merged with
\* nothing and takes nothing off.
LEMMA RestoreSlotAdds ==
    ASSUME NEW saved \in Slots, Orderly(saved), NEW n \in Index, NEW s, IsPartial(s, saved, n)
    PROVE  IsPartial(RestoreSlot(s, saved[n]), saved, n + 1)
<1> DEFINE H == Held(saved)
           r == Order(H, n)
           k == saved[n].item
           after == RestoreSlot(s, saved[n])
<1>1. /\ IsFiniteSet(H) /\ H \subseteq Index /\ Cardinality(H) <= MaxItems
      /\ \A j \in H : j \in Nat
  BY HeldAreIndices, IndexIsNat
<1>2. /\ Cardinality(H) \in Nat
      /\ \A j \in H : Order(H, j) \in 0..Cardinality(H) - 1
      /\ \A i, j \in H : Order(H, i) = Order(H, j) => i = j
      /\ \A m \in 0..Cardinality(H) - 1 : \E j \in H : Order(H, j) = m
  <2>1. \A j \in H : j \in Int
    BY <1>1
  <2> HIDE DEF H
  <2> QED
    BY <1>1, <2>1, OrderIsRank
<1>3. \A j \in H : Order(H, j) \in Index
  BY <1>1, <1>2, MaxItemsAssumption DEF Index
<1>4. n \in Nat /\ s \in Slots /\ saved[n] \in Slot
  BY IndexIsNat DEF IsPartial, Slots
<1>5. /\ \A j \in H : j < n => s[Order(H, j)] = saved[j]
      /\ \A i \in Index : (\A j \in H : j < n => Order(H, j) # i) => s[i] = EmptySlot
  BY DEF IsPartial
<1>6. \A j \in H : saved[j].item \in Items /\ saved[j].item # NoItem
  BY ItemsAssumption DEF Held, Vacant, Named, Slots, Slot
<1>7. EmptySlot.item = NoItem
  BY DEF EmptySlot
<1>8. CASE n \notin H
  <2>1. k = NoItem
    BY <1>8 DEF Held, Vacant, Named
  <2>2. after = s
    BY <2>1 DEF RestoreSlot
  <2>3. \A j \in H : j < n + 1 <=> j < n
    BY <1>1, <1>4, <1>8
  <2> QED
    BY <1>4, <1>5, <2>2, <2>3 DEF IsPartial
<1>9. CASE n \in H
  <2> HIDE DEF H
  <2>1. r \in Index /\ k \in Items /\ k # NoItem
    BY <1>3, <1>6, <1>9
  \* What was put back so far is where the earlier slots have their places.
  <2>2. \A i \in Index : s[i] # EmptySlot => \E j \in H : j < n /\ Order(H, j) = i /\ s[i] = saved[j]
    BY <1>5
  <2>3. s[r] = EmptySlot
    <3>1. \A j \in H : j < n => Order(H, j) # r
      BY <1>1, <1>2, <1>9
    <3> QED
      BY <1>5, <2>1, <3>1
  <2>4. ASSUME NEW i \in Index, i < r PROVE s[i].item # NoItem
    <3>1. i \in 0..Cardinality(H) - 1
      BY <1>2, <1>9, <2>4, IndexIsNat
    <3>2. PICK j \in H : Order(H, j) = i
      BY <1>2, <3>1
    <3>3. j < n
      <4>1. SUFFICES ASSUME n <= j PROVE FALSE
        BY <1>1, <1>4
      <4>2. Order(H, n) <= Order(H, j)
        <5>1. \A x \in H : x \in Int
          BY <1>1
        <5> QED
          BY <1>1, <1>9, <4>1, <5>1, OrderGrows
      <4> QED
        <5>1. r \in Nat /\ i \in Nat
          BY <2>1, IndexIsNat
        <5>2. r <= i
          BY <3>2, <4>2
        <5> QED
          BY <2>4, <5>1, <5>2
    <3> QED
      BY <1>5, <1>6, <3>2, <3>3
  <2>5. Min(Vacant(s)) = r
    <3>1. r \in Vacant(s) /\ Vacant(s) \subseteq Nat
      BY <1>7, <2>1, <2>3, IndexIsNat DEF Vacant, Named
    <3>2. Min(Vacant(s)) \in Vacant(s) /\ Min(Vacant(s)) <= r
      <4> DEFINE V == Vacant(s)
      <4>1. V \in SUBSET Nat /\ V # {} /\ r \in V
        BY <3>1
      <4> HIDE DEF V
      <4>2. Min(V) \in V /\ \A i \in V : Min(V) <= i
        BY <4>1, MinIsMember
      <4> QED
        BY <4>1, <4>2 DEF V
    <3>3. Min(Vacant(s)) \in Index /\ s[Min(Vacant(s))].item = NoItem
      BY <3>2 DEF Vacant, Named
    <3> QED
      BY <2>1, <2>4, <3>1, <3>2, <3>3
  <2>6. ~StacksOn(s, k) /\ CanAdd(s, k)
    <3>1. r \in Vacant(s)
      BY <1>7, <2>1, <2>3 DEF Vacant, Named
    <3>2. ASSUME NEW i \in Index, s[i].item = k, k \in Potions PROVE FALSE
      <4>1. PICK j \in H : j < n /\ s[i] = saved[j]
        BY <1>7, <2>1, <2>2, <3>2
      <4> QED
        BY <1>1, <3>2, <4>1 DEF Orderly, OneStackPerPotion
    <3> QED
      BY <3>1, <3>2 DEF StacksOn, CanAdd, HasItem, Named
  <2> DEFINE new == [item |-> k, qty |-> saved[n].qty, worn |-> FALSE]
             added == [s EXCEPT ![r] = new]
  <2>7. AddItem(s, k, saved[n].qty) = added
    BY <2>5, <2>6 DEF AddItem
  <2>8. /\ new \in Slot /\ new.item = k /\ new.qty = saved[n].qty /\ new.worn = FALSE
    <3>1. saved[n].qty \in Nat
      BY <1>4 DEF Slot
    <3>2. new \in Slot
      BY <2>1, <3>1 DEF Slot
    <3>3. new.item = k /\ new.qty = saved[n].qty /\ new.worn = FALSE
      OBVIOUS
    <3> QED
      BY <3>2, <3>3
  <2>9. saved[n] = [item |-> k, qty |-> saved[n].qty, worn |-> saved[n].worn] /\ saved[n].worn \in BOOLEAN
    BY <1>4 DEF Slot
  <2>10. /\ added \in Slots /\ added[r] = new
         /\ \A i \in Index \ {r} : added[i] = s[i]
    BY <1>4, <2>1, <2>8 DEF Slots
  <2>11. after = IF saved[n].worn THEN Equip(added, CHOOSE i \in Index : added[i] # s[i]) ELSE added
    BY <2>1, <2>6, <2>7 DEF RestoreSlot
  <2> HIDE DEF new, added, after, r, k
  <2>12. /\ after \in Slots /\ after[r] = saved[n]
         /\ \A i \in Index \ {r} : after[i] = s[i]
    <3>1. CASE ~saved[n].worn
      <4>1. new = saved[n]
        BY <2>9, <3>1 DEF new
      <4> QED
        BY <2>10, <2>11, <3>1, <4>1
    <3>2. CASE saved[n].worn
      <4>1. (CHOOSE i \in Index : added[i] # s[i]) = r
        <5>1. added[r] # s[r]
          BY <1>7, <2>1, <2>3, <2>8, <2>10
        <5> QED
          BY <2>1, <2>10, <5>1
      <4>2. k \in Gear /\ k \notin Potions
        BY <1>4, <3>2, ItemsAssumption DEF Orderly, SlotsAgree, k
      <4>3. WornAt(added, WornAs[k]) \ {r} = {}
        <5> SUFFICES ASSUME NEW i \in WornAt(added, WornAs[k]) \ {r} PROVE FALSE
          OBVIOUS
        <5>1. /\ i \in Index /\ i # r /\ added[i].item # NoItem /\ added[i].worn
              /\ WornAs[added[i].item] = WornAs[k]
          BY DEF WornAt, Held, Vacant, Named
        <5>2. added[i] = s[i]
          BY <2>10, <5>1
        <5>3. PICK j \in H : j < n /\ s[i] = saved[j]
          BY <1>7, <2>2, <5>1, <5>2
        <5>4. saved[j].worn /\ WornAs[saved[j].item] = WornAs[saved[n].item]
          BY <5>1, <5>2, <5>3 DEF k
        <5>5. j = n
          BY <1>9, <3>2, <5>3, <5>4 DEF Orderly, OneWornPerPlace, H
        <5> QED
          BY <1>4, <5>3, <5>5
      <4>4. Swapped(added, r) = {}
        <5>1. added[r].item = k
          BY <2>8, <2>10
        <5> QED
          BY <4>3, <5>1 DEF Swapped
      <4>5. Equip(added, r) = [j \in Index |-> IF j = r THEN [added[j] EXCEPT !.worn = TRUE] ELSE added[j]]
        <5>1. added[r].item \notin Potions /\ ~added[r].worn
          BY <2>8, <2>10, <4>2
        <5>2. Equip(added, r) = [j \in Index |->
                 IF j = r THEN [added[j] EXCEPT !.worn = TRUE]
                 ELSE IF j \in Swapped(added, r) THEN [added[j] EXCEPT !.worn = FALSE]
                 ELSE added[j]]
          BY <5>1 DEF Equip
        <5> QED
          BY <4>4, <5>2
      <4>6. [added[r] EXCEPT !.worn = TRUE] = saved[n]
        <5>1. added[r] \in Slot /\ added[r].item = saved[n].item /\ added[r].qty = saved[n].qty
          BY <2>8, <2>10 DEF k
        <5>2. /\ [added[r] EXCEPT !.worn = TRUE] \in Slot
              /\ [added[r] EXCEPT !.worn = TRUE].item = saved[n].item
              /\ [added[r] EXCEPT !.worn = TRUE].qty = saved[n].qty
              /\ [added[r] EXCEPT !.worn = TRUE].worn = saved[n].worn
          <6> DEFINE a == added[r]
          <6>1. a \in Slot
            BY <5>1
          <6> HIDE DEF a
          <6>2. /\ [a EXCEPT !.worn = TRUE] \in Slot
                /\ [a EXCEPT !.worn = TRUE].item = a.item
                /\ [a EXCEPT !.worn = TRUE].qty = a.qty
                /\ [a EXCEPT !.worn = TRUE].worn = TRUE
            BY <6>1, WornSlot, Zenon
          <6>3. saved[n].worn = TRUE
            BY <3>2, <2>9
          <6> QED
            BY <5>1, <6>2, <6>3 DEF a
        <5> QED
          BY <1>4, <5>2, SlotsEqual
      <4>7. after = Equip(added, r)
        BY <2>11, <3>2, <4>1
      <4>8. after[r] = saved[n] /\ \A i \in Index \ {r} : after[i] = s[i]
        BY <2>1, <2>10, <4>5, <4>6, <4>7
      <4>9. after \in Slots
        <5>1. \A i \in Index : after[i] \in Slot
          BY <1>4, <4>8 DEF Slots
        <5>2. after = [j \in Index |-> after[j]]
          BY <4>5, <4>7
        <5> QED
          BY <5>1, <5>2 DEF Slots
      <4> QED
        BY <4>8, <4>9
    <3> QED
      BY <3>1, <3>2
  <2>13. ASSUME NEW j \in H, j < n + 1 PROVE after[Order(H, j)] = saved[j]
    <3>1. CASE j = n
      BY <2>12, <3>1 DEF r
    <3>2. CASE j # n
      <4>1. j < n /\ Order(H, j) # r /\ Order(H, j) \in Index
        BY <1>1, <1>2, <1>3, <1>4, <1>9, <2>13, <3>2 DEF r
      <4> QED
        BY <1>5, <2>12, <4>1
    <3> QED
      BY <3>1, <3>2
  <2>14. ASSUME NEW i \in Index, \A j \in H : j < n + 1 => Order(H, j) # i
         PROVE  after[i] = EmptySlot
    <3>1. i # r
      BY <1>4, <1>9, <2>14 DEF r
    <3>2. \A j \in H : j < n => Order(H, j) # i
      BY <1>1, <1>4, <2>14
    <3> QED
      BY <1>5, <2>12, <3>1, <3>2
  <2> QED
    BY <2>12, <2>13, <2>14 DEF IsPartial, after, H
<1> QED
  BY <1>8, <1>9

-----------------------------------------------------------------------------
\* The restoration as a whole.

RestoreStep(g, saved, n) == IF n = 0 THEN EmptySlots ELSE RestoreSlot(g[n - 1], saved[n - 1])
IsRestoring(g, saved) == g = [n \in 0..MaxItems |-> RestoreStep(g, saved, n)]

\* The slots restored so far exist, up to any number of them.
LEMMA RestoringExists ==
    ASSUME NEW saved
    PROVE  \E g : IsRestoring(g, saved)
<1> DEFINE N == {n \in Nat : \E g : g = [m \in 0..n |-> RestoreStep(g, saved, m)]}
<1>1. 0 \in N
  <2> DEFINE g == [m \in 0..0 |-> EmptySlots]
  <2>1. g = [m \in 0..0 |-> RestoreStep(g, saved, m)]
    BY DEF RestoreStep
  <2> QED
    BY <2>1
<1>2. ASSUME NEW n \in N PROVE n + 1 \in N
  <2>1. PICK g : g = [m \in 0..n |-> RestoreStep(g, saved, m)]
    OBVIOUS
  <2> DEFINE h == [m \in 0..n + 1 |-> IF m \in 0..n THEN g[m] ELSE RestoreStep(g, saved, m)]
  <2>2. ASSUME NEW m \in 0..n + 1 PROVE h[m] = RestoreStep(h, saved, m)
    <3>1. h[m] = RestoreStep(g, saved, m)
      BY <2>1
    <3>2. CASE m = 0
      BY <3>1, <3>2 DEF RestoreStep
    <3>3. CASE m # 0
      <4>1. m - 1 \in 0..n
        BY <3>3
      <4>2. h[m - 1] = g[m - 1]
        BY <4>1
      <4> QED
        BY <3>1, <3>3, <4>2 DEF RestoreStep
    <3> QED
      BY <3>2, <3>3
  <2>3. h = [m \in 0..n + 1 |-> RestoreStep(h, saved, m)]
    BY <2>2
  <2>4. \E k : k = [m \in 0..n + 1 |-> RestoreStep(k, saved, m)]
    <3> HIDE DEF h
    <3> QED
      BY <2>3
  <2>5. n + 1 \in Nat
    OBVIOUS
  <2> HIDE DEF h
  <2> QED
    BY <2>4, <2>5
<1> HIDE DEF N
<1>3. N = Nat
  <2>1. N \subseteq Nat
    BY DEF N
  <2> QED
    BY <1>1, <1>2, <2>1, NatSetInduction
<1>4. MaxItems \in N
  BY <1>3, MaxItemsAssumption
<1> QED
  BY <1>4 DEF N, IsRestoring

\* What the restoration returns is where that function ends.
LEMMA RestoringEnds ==
    ASSUME NEW saved
    PROVE  \E g : IsRestoring(g, saved) /\ RestoredSlotBySlot(saved) = g[MaxItems]
<1> DEFINE g == CHOOSE upTo : upTo = [n \in 0..MaxItems |->
                    IF n = 0 THEN EmptySlots ELSE RestoreSlot(upTo[n - 1], saved[n - 1])]
<1>1. RestoredSlotBySlot(saved) = g[MaxItems]
  BY DEF RestoredSlotBySlot
<1>2. \E upTo : upTo = [n \in 0..MaxItems |->
                    IF n = 0 THEN EmptySlots ELSE RestoreSlot(upTo[n - 1], saved[n - 1])]
  BY RestoringExists, Zenon DEF IsRestoring, RestoreStep
<1>3. g = [n \in 0..MaxItems |->
                    IF n = 0 THEN EmptySlots ELSE RestoreSlot(g[n - 1], saved[n - 1])]
  BY <1>2, Zenon
<1>4. IsRestoring(g, saved)
  BY <1>3, Zenon DEF IsRestoring, RestoreStep
<1> QED
  BY <1>1, <1>4, Zenon

\* When every slot is restored, nothing is missing and nothing is out of place.
LEMMA AllRestored ==
    ASSUME NEW saved \in Slots, NEW s, IsPartial(s, saved, MaxItems)
    PROVE  s = Restored(saved)
<1> DEFINE H == Held(saved)
<1>1. /\ IsFiniteSet(H) /\ H \subseteq Index
      /\ \A j \in H : j \in Int
  BY HeldAreIndices, IndexIsNat
<1>2. \A i, j \in H : Order(H, i) = Order(H, j) => i = j
  <2> HIDE DEF H
  <2> QED
    BY <1>1, OrderIsRank
<1>3. /\ s \in Slots
      /\ \A j \in H : j < MaxItems => s[Order(H, j)] = saved[j]
      /\ \A i \in Index : (\A j \in H : j < MaxItems => Order(H, j) # i) => s[i] = EmptySlot
  BY DEF IsPartial
<1>4. \A j \in H : j < MaxItems
  BY <1>1, MaxItemsAssumption DEF Index
<1>5. ASSUME NEW i \in Index PROVE s[i] = Restored(saved)[i]
  <2>1. CASE \E j \in H : Order(H, j) = i
    <3>1. PICK j \in H : Order(H, j) = i
      BY <2>1
    <3>2. (CHOOSE x \in H : Order(H, x) = i) = j
      <4> HIDE DEF H
      <4> QED
        BY <1>2, <3>1
    <3>3. Restored(saved)[i] = saved[j]
      BY <2>1, <3>2 DEF Restored
    <3> QED
      BY <1>3, <1>4, <3>1, <3>3
  <2>2. CASE ~\E j \in H : Order(H, j) = i
    <3>1. Restored(saved)[i] = EmptySlot
      BY <2>2 DEF Restored
    <3> QED
      BY <1>3, <2>2, <3>1
  <2> QED
    BY <2>1, <2>2
<1>6. s = [i \in Index |-> s[i]]
  BY <1>3 DEF Slots
<1>7. Restored(saved) = [i \in Index |-> Restored(saved)[i]]
  BY DEF Restored
<1> QED
  BY <1>5, <1>6, <1>7

\* Restoring orderly slots one after another gives the slots without their gaps.
LEMMA RestoredIsRestored ==
    ASSUME NEW saved \in Slots, Orderly(saved)
    PROVE  RestoredSlotBySlot(saved) = Restored(saved)
<1>1. PICK g : IsRestoring(g, saved) /\ RestoredSlotBySlot(saved) = g[MaxItems]
  BY RestoringEnds
<1>2. /\ g[0] = EmptySlots
      /\ \A n \in Index : g[n + 1] = RestoreSlot(g[n], saved[n])
  <2>1. \A n \in 0..MaxItems : g[n] = RestoreStep(g, saved, n)
    BY <1>1 DEF IsRestoring
  <2>2. g[0] = EmptySlots
    BY <2>1, MaxItemsAssumption DEF RestoreStep
  <2>3. ASSUME NEW n \in Index PROVE g[n + 1] = RestoreSlot(g[n], saved[n])
    <3>1. n \in Nat /\ n + 1 \in 0..MaxItems /\ n + 1 # 0 /\ (n + 1) - 1 = n
      BY MaxItemsAssumption DEF Index
    <3>2. g[n + 1] = RestoreSlot(g[(n + 1) - 1], saved[(n + 1) - 1])
      BY <2>1, <3>1 DEF RestoreStep
    <3> QED
      BY <3>1, <3>2
  <2> QED
    BY <2>2, <2>3
<1> DEFINE N == {n \in Nat : n <= MaxItems => IsPartial(g[n], saved, n)}
<1>3. 0 \in N
  <2>1. EmptySlots \in Slots /\ \A i \in Index : EmptySlots[i] = EmptySlot
    BY ItemsAssumption DEF EmptySlots, EmptySlot, Slots, Slot
  <2>2. \A j \in Held(saved) : ~(j < 0)
    BY IndexIsNat DEF Held
  <2>3. IsPartial(EmptySlots, saved, 0)
    BY <2>1, <2>2 DEF IsPartial
  <2> QED
    BY <1>2, <2>3
<1>4. ASSUME NEW n \in N PROVE n + 1 \in N
  <2>1. n \in Nat /\ (n <= MaxItems => IsPartial(g[n], saved, n))
    OBVIOUS
  <2>2. CASE n + 1 <= MaxItems
    <3>1. n \in Index /\ n <= MaxItems
      BY <2>1, <2>2, MaxItemsAssumption DEF Index
    <3>2. IsPartial(RestoreSlot(g[n], saved[n]), saved, n + 1)
      BY <2>1, <3>1, RestoreSlotAdds
    <3>3. IsPartial(g[n + 1], saved, n + 1)
      BY <1>2, <3>1, <3>2
    <3> QED
      BY <2>1, <3>3
  <2> QED
    BY <2>1, <2>2
<1> HIDE DEF N
<1>5. N = Nat
  <2>1. N \subseteq Nat
    BY DEF N
  <2> QED
    BY <1>3, <1>4, <2>1, NatSetInduction
<1>6. IsPartial(g[MaxItems], saved, MaxItems)
  BY <1>5, MaxItemsAssumption DEF N
<1> QED
  BY <1>1, <1>6, AllRestored

\* RestorationIsFaithful, for every number of slots and every kind of item: whatever the
\* player holds when the snapshot is taken comes back whole.
THEOREM EconomyRestorationIsFaithful == Spec => []RestorationIsFaithful
<1>1. ASSUME EconomyInv PROVE RestorationIsFaithful
  <2>1. \A p \in Players : inv[p] \in Slots /\ Orderly(inv[p])
    BY <1>1 DEF EconomyInv, TypeOK, InventoriesOrderly
  <2> QED
    BY <2>1, RestoredIsRestored DEF RestorationIsFaithful
<1> QED
  BY <1>1, EconomyInvariant, PTL
=============================================================================
