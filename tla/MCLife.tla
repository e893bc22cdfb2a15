------------------------------- MODULE MCLife -------------------------------
(* Life with a caster and a warrior, three levels, the second and the third *)
(* out of the newbies' protection.                                          *)
EXTENDS Life, TLC

CONSTANTS mage, warrior, hands, staff, wand, city, wild

MCLimit == [l \in 0..3 |-> 2 * l]
MCMaxHp == [p \in Players |-> [l \in Levels |-> l]]
MCMaxMana == [p \in Players |-> [l \in Levels |-> IF p \in Casters THEN l ELSE 0]]
MCManaCost == [w \in Weapons |-> IF w = hands THEN 0 ELSE 1]
MCReach == Cells \X Cells
=============================================================================
