------------------------------- MODULE MCWorld -------------------------------
(***************************************************************************)
(* A map of 3 by 2 cells for World: a city of one column with its priest,  *)
(* a wall, and ground where hostile NPCs roam.                             *)
(*                                                                         *)
(*     x     0       1      2                                              *)
(*   y 0   priest   free   free                                            *)
(*   y 1    city    wall   free                                            *)
(***************************************************************************)
EXTENDS World

MCCity == {0} \X (0..1)
MCPriests == {<<0, 0>>}
MCBlocked == {<<1, 1>>}
MCHaunts == [n \in Npcs |-> Cells]
MCBaseSpawn == <<0, 1>>

\* What comes after a call that a departure has overlapped is not explored: of the
\* properties only OnItsGround and DeadNpcsAreCleared say anything about it, and
\* they are proved.
MCRaceEnds == raced => call # NoCall
=============================================================================
