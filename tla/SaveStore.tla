------------------------------ MODULE SaveStore ------------------------------
(***************************************************************************)
(* What Server relies on in Persister, without files, streams or errors:   *)
(* one register that outlives the process.  A save replaces what it holds  *)
(* by one whole and newer snapshot with players or leaves it as it was;    *)
(* what the process answers joins from is what the register holds, or what *)
(* it held until the save that is just returning; a process that starts    *)
(* finds what the last one left.                                           *)
(***************************************************************************)
EXTENDS Integers

CONSTANTS Snapshot, Absent

VARIABLES
    stored,    \* what a process that started now would load
    offered,   \* the snapshot whose save is under way
    known,     \* what the process believes is stored
    running

vars == <<stored, offered, known, running>>

Init ==
    /\ stored = Absent /\ offered = Absent /\ known = Absent
    /\ running = TRUE

Newer(x, y) == y # Absent => x.stamp > y.stamp

\* A save begins, by a process that knows what is stored.
Offer(x) ==
    /\ running /\ offered = Absent /\ known = stored
    /\ x.players # {} /\ Newer(x, stored)
    /\ offered' = x
    /\ UNCHANGED <<stored, known, running>>

\* It takes effect at once and whole, or it fails and has no effect.
Commit ==
    /\ running /\ offered # Absent
    /\ stored' = offered
    /\ offered' = Absent
    /\ UNCHANGED <<known, running>>

Withdraw ==
    /\ running /\ offered # Absent
    /\ offered' = Absent
    /\ UNCHANGED <<stored, known, running>>

\* The save returns.
Learn ==
    /\ running /\ offered = Absent
    /\ known' = stored
    /\ UNCHANGED <<stored, offered, running>>

\* The process dies or ends, before a save, in it or after it.
Stop ==
    /\ running
    /\ running' = FALSE /\ offered' = Absent /\ known' = Absent
    /\ UNCHANGED stored

Resume ==
    /\ ~ running
    /\ running' = TRUE
    /\ known' = stored
    /\ UNCHANGED <<stored, offered>>

Next ==
    \/ \E x \in Snapshot : Offer(x)
    \/ Commit \/ Withdraw \/ Learn \/ Stop \/ Resume

Spec == Init /\ [][Next]_vars
=============================================================================
