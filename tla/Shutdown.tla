------------------------------- MODULE Shutdown -------------------------------
(***************************************************************************)
(* The end of Server::run: on 'q' the main thread saves the final state,   *)
(* without a lock and before it stops the game loop, which may be in the   *)
(* middle of an autosave of its own; then it stops the loop, joins it and  *)
(* returns.  The steps of both saves are those of Persistence.             *)
(***************************************************************************)
EXTENDS Persistence

\* rename(2) fails when the other thread has renamed the file away.
RenameNothing(s) ==
    /\ pc[s] = "written" /\ file["tmp"] = Absent
    /\ pc' = [pc EXCEPT ![s] = Finished(s)]
    /\ UNCHANGED <<serverVars, taken, snap, fd, file, cached>>

\* gameloop.join(): the loop ends between two iterations, not inside a save.
LoopJoined == "loop" \in Savers => pc["loop"] = "idle"

Exit ==
    /\ up
    /\ "main" \in Savers /\ pc["main"] = "done"
    /\ LoopJoined
    /\ Ends

ShutdownNext == Next \/ (\E s \in Savers : RenameNothing(s)) \/ Exit

ShutdownSpec == Init /\ [][ShutdownNext]_vars

-----------------------------------------------------------------------------
\* docs/Documentación Técnica.md:413-415: the state is saved again at a clean
\* shutdown, through a temporary file and a rename "para evitar guardados
\* corruptos".  So a process that ends by Exit, both its saves over, leaves a save
\* that is whole (or none).
ExitLeavesWholeSave == [][Exit => file'["save"] # Torn]_vars
===============================================================================
