------------------------------ MODULE MCEconomy ------------------------------
(***************************************************************************)
(* A market for Economy: two players with two slots each, three swords,    *)
(* potions and coins at most (both slots full and one thing in the safe),  *)
(* a cell in a city and one outside. A purse holds one coin; at level 1    *)
(* the coin falls to the ground at a death, at level 2 it does not: a      *)
(* death may leave two things, and find one cell bare. The save file holds *)
(* an inventory with a gap and a worn sword, and a purse that is too full. *)
(***************************************************************************)
EXTENDS Economy

Symmetry == Permutations(Players)

MCWornAs == [k \in Gear |-> "WEAPON"]
MCDistance == [c \in Cells |-> [x \in Cells |-> IF x = c THEN 0 ELSE 1]]
MCPrice == [k \in Items |-> 1]
MCMaxGold == [l \in Levels |-> l - 1]
MCHoldable == [l \in Levels |-> 1]
MCSaves ==
    LET worn == [item |-> CHOOSE k \in Gear : TRUE, qty |-> 1, worn |-> TRUE]
    IN  {[inv |-> [n \in Index |-> IF n = 0 THEN EmptySlot ELSE worn], gold |-> 2, level |-> 1]}
=============================================================================
