------------------------------ MODULE MCSessions ------------------------------
(* Instances of Sessions for TLC. *)
EXTENDS Sessions, TLC

\* Slots and nicks are interchangeable (safety runs only).
Symmetry == Permutations(Handlers) \cup Permutations(Nicks) \cup Permutations(MatchNames)
===============================================================================
