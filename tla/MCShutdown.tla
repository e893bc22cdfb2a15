------------------------------ MODULE MCShutdown ------------------------------
(* An instance of Shutdown for TLC. *)
EXTENDS Shutdown, TLC

\* Match names are interchangeable.
Symmetry == Permutations(MatchNames)
===============================================================================
