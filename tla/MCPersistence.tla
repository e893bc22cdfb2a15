---------------------------- MODULE MCPersistence ----------------------------
(* Instances of Persistence for TLC. *)
EXTENDS Persistence, TLC

\* Nicks are interchangeable and so are match names.
Symmetry == Permutations(Nicks) \cup Permutations(MatchNames)
===============================================================================
