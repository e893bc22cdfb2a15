-------------------------- MODULE PersistenceProofs --------------------------
(***************************************************************************)
(* Machine-checked proofs about Persistence, for any nicks, any matches    *)
(* and any number of saves: the one saver of a running server under        *)
(* crashes and reported errors, which implements the store of SaveStore.   *)
(***************************************************************************)
EXTENDS Persistence, TLAPS

\* Every step keeps the types.
LEMMA TypeStep == TypeOK /\ [Next]_vars => TypeOK'
<1> SUFFICES ASSUME TypeOK, [Next]_vars PROVE TypeOK'
  OBVIOUS
<1> USE DEF TypeOK
<1>1. CASE UNCHANGED vars
  BY <1>1 DEF vars, serverVars
<1>2. ASSUME NEW m \in MatchNames, CreateMatch(m) PROVE TypeOK'
  BY <1>2 DEF CreateMatch
<1>3. ASSUME NEW n \in Nicks, NEW m \in MatchNames, Appear(n, m) \/ Leave(n, m) PROVE TypeOK'
  BY <1>3 DEF Appear, Leave, Avatars
<1>4. ASSUME NEW s \in Savers, TakeSnapshot(s) PROVE TypeOK'
  <2>1. Finished(s) \in {"done", "idle"}
    BY DEF Finished
  <2>2. ~ SkipsSave => taken + 1 \in 0..MaxSaves
    BY <1>4, MaxSavesAssumption DEF TakeSnapshot
  <2>3. ~ SkipsSave => [matches |-> matches, players |-> world, stamp |-> taken + 1] \in Snapshot
    BY <2>2 DEF Snapshot
  <2>4. QED
    BY <1>4, <2>1, <2>2, <2>3 DEF TakeSnapshot, serverVars
<1>5. ASSUME NEW s \in Savers, OpenTmp(s) PROVE TypeOK'
  <2>1. Finished(s) \in {"done", "idle"}
    BY DEF Finished
  <2>2. QED
    BY <1>5, <2>1 DEF OpenTmp, serverVars
<1>6. ASSUME NEW s \in Savers, Write(s) PROVE TypeOK'
  <2>1. Finished(s) \in {"done", "idle"} /\ Flushed(s) \subseteq Snapshot \cup {Torn}
    BY DEF Finished, Flushed
  <2>2. QED
    BY <1>6, <2>1 DEF Write, AfterWriteError, serverVars
<1>7. ASSUME NEW s \in Savers, Rename(s) PROVE TypeOK'
  <2>1. Finished(s) \in {"done", "idle"}
    BY DEF Finished
  <2>2. [tmp |-> Absent, save |-> file["tmp"]] \in [{"tmp", "save"} -> Snapshot \cup {Absent, Torn}]
    OBVIOUS
  <2>3. [t \in Savers |-> CASE fd[t] = "tmp"  -> "save"
                            [] fd[t] = "save" -> "none"
                            [] OTHER          -> fd[t]] \in [Savers -> {"none", "tmp", "save"}]
    OBVIOUS
  <2>4. QED
    BY <1>7, <2>1, <2>2, <2>3 DEF Rename, serverVars
<1>8. ASSUME NEW s \in Savers, RefreshCache(s) PROVE TypeOK'
  <2>1. Finished(s) \in {"done", "idle"}
    BY DEF Finished
  <2>2. QED
    BY <1>8, <2>1 DEF RefreshCache, CacheAfterSave, serverVars
<1>9. CASE Crash
  <2>1. Nothing \in Snapshot
    BY MaxSavesAssumption DEF Nothing, Snapshot
  <2>2. /\ up' = FALSE /\ matches' = {} /\ world' = {} /\ cached' = Absent
        /\ taken' = taken /\ file' = file
    BY <1>9 DEF Crash, Ends
  <2>3. /\ pc' \in [Savers -> {"idle"}] /\ fd' \in [Savers -> {"none"}]
        /\ snap' = [s \in Savers |-> Nothing]
    BY <1>9 DEF Crash, Ends
  <2>4. QED
    BY <2>1, <2>2, <2>3
<1>10. CASE Start
  <2>1. /\ Loaded \in Snapshot \cup {Absent}
        /\ Recreated \in SUBSET MatchNames
    BY DEF Loaded, Saved, Recreated, Snapshot
  <2>2. QED
    BY <1>10, <2>1 DEF Start
<1>11. QED
  BY <1>1, <1>2, <1>3, <1>4, <1>5, <1>6, <1>7, <1>8, <1>9, <1>10 DEF Next, SaveStep

\* The first start has the types.
LEMMA TypeInit == Init => TypeOK
<1>1. Nothing \in Snapshot
  BY MaxSavesAssumption DEF Nothing, Snapshot
<1>2. ASSUME Init PROVE file \in [{"tmp", "save"} -> Snapshot \cup {Absent, Torn}]
  BY <1>2 DEF Init
<1>3. QED
  BY <1>1, <1>2, MaxSavesAssumption DEF Init, TypeOK

\* Types hold in every reachable state, for any savers and failures.
THEOREM TypeCorrect == Spec => []TypeOK
BY TypeInit, TypeStep, PTL DEF Spec

-----------------------------------------------------------------------------
\* A server whose only saver is the game loop, on a file system that reports what
\* it could not write.
Solo == Savers = {"loop"} /\ "close" \notin Failures

\* What the game loop has done so far with the files: the save is never the one
\* being written, and what is about to be renamed is its whole snapshot.
SoloInv ==
    /\ TypeOK
    /\ SaveIsWhole
    /\ CacheIsDisk
    /\ fd["loop"] = IF pc["loop"] = "open" THEN "tmp" ELSE "none"
    /\ ~ up => pc["loop"] = "idle"
    /\ pc["loop"] \in {"taken", "open", "written"} => snap["loop"].players # {}
    /\ pc["loop"] = "written" => file["tmp"] = snap["loop"]
    /\ pc["loop"] = "renamed" => file["save"] = snap["loop"]
    /\ Saved(file["save"]) => file["save"].players # {}

\* The progress of save_state keeps the files as SoloInv says.
LEMMA SoloStep == ASSUME Solo PROVE SoloInv /\ [Next]_vars => SoloInv'
<1> SUFFICES ASSUME SoloInv, [Next]_vars PROVE SoloInv'
  OBVIOUS
<1> USE DEF SaveIsWhole, CacheIsDisk, Saved
<1>1. /\ TypeOK /\ TypeOK' /\ Savers = {"loop"}
      /\ \A x \in Snapshot : x # Absent /\ x # Torn
  BY TypeStep, MarksAssumption DEF Solo, SoloInv
<1>2. CASE UNCHANGED vars
  BY <1>1, <1>2 DEF SoloInv, vars, serverVars
<1>3. ASSUME NEW m \in MatchNames, CreateMatch(m) PROVE SoloInv'
  BY <1>1, <1>3 DEF SoloInv, CreateMatch
<1>4. ASSUME NEW n \in Nicks, NEW m \in MatchNames, Appear(n, m) \/ Leave(n, m) PROVE SoloInv'
  BY <1>1, <1>4 DEF SoloInv, Appear, Leave
<1>5. CASE TakeSnapshot("loop")
  BY <1>1, <1>5 DEF SoloInv, TakeSnapshot, SkipsSave, Finished, serverVars, TypeOK
<1>6. CASE OpenTmp("loop")
  BY <1>1, <1>6 DEF SoloInv, OpenTmp, Finished, serverVars, TypeOK
<1>7. CASE Write("loop")
  <2>1. Flushed("loop") = {snap["loop"]}
    BY DEF Flushed, Solo
  <2>2. QED
    BY <1>1, <1>7, <2>1 DEF SoloInv, Write, AfterWriteError, Finished, serverVars, TypeOK
<1>8. CASE Rename("loop")
  BY <1>1, <1>8 DEF SoloInv, Rename, Finished, serverVars, TypeOK
<1>9. CASE RefreshCache("loop")
  BY <1>1, <1>9 DEF SoloInv, RefreshCache, CacheAfterSave, Finished, serverVars, TypeOK
<1>10. CASE Crash
  BY <1>1, <1>10 DEF SoloInv, Crash, Ends, TypeOK
<1>11. CASE Start
  BY <1>1, <1>11 DEF SoloInv, Start, Loaded, Saved, TypeOK
<1>12. QED
  BY <1>1, <1>2, <1>3, <1>4, <1>5, <1>6, <1>7, <1>8, <1>9, <1>10, <1>11 DEF Next, SaveStep

\* While only the game loop saves, the files are as its progress says.
THEOREM SoloCorrect == ASSUME Solo PROVE Spec => []SoloInv
<1>1. Init => SoloInv
  <2> SUFFICES ASSUME Init PROVE SoloInv
    OBVIOUS
  <2>1. TypeOK
    BY TypeInit
  <2>2. QED
    BY <2>1, MarksAssumption DEF Init, SoloInv, SaveIsWhole, CacheIsDisk, Saved, Solo
<1>2. QED
  BY <1>1, SoloStep, PTL DEF Spec

\* Whenever the process dies, and whatever error stopped a save, the file to be
\* loaded is absent or one whole snapshot.
THEOREM WholeCorrect == ASSUME Solo PROVE Spec => []SaveIsWhole
<1>1. SoloInv => SaveIsWhole
  BY DEF SoloInv
<1>2. QED
  BY <1>1, SoloCorrect, PTL

\* What joins are answered from is what is on disk.
THEOREM CacheCorrect == ASSUME Solo PROVE Spec => []CacheIsDisk
<1>1. SoloInv => CacheIsDisk
  BY DEF SoloInv
<1>2. QED
  BY <1>1, SoloCorrect, PTL

\* A save with players is replaced only by a save with players.
THEOREM KeepsCorrect == ASSUME Solo PROVE Spec => EmptyWorldKeepsSave
<1> DEFINE Keeps == Saved(file["save"]) => Saved(file'["save"]) /\ file'["save"].players # {}
<1>1. SoloInv /\ SoloInv' /\ [Next]_vars => [Keeps]_vars
  <2> SUFFICES ASSUME SoloInv, SoloInv', Next, Saved(file["save"])
               PROVE  Saved(file'["save"])
    BY DEF SoloInv
  <2>1. Savers = {"loop"} /\ file["save"] # Absent /\ file'["save"] # Torn
    BY DEF Solo, Saved, SoloInv, SaveIsWhole
  <2>2. file'["save"] # Absent
    <3>1. CASE Rename("loop")
      BY <2>1, <3>1 DEF Rename
    <3>2. CASE Write("loop")
      BY <2>1, <3>2 DEF Write, SoloInv, TypeOK
    <3>3. CASE OpenTmp("loop")
      BY <2>1, <3>3 DEF OpenTmp, SoloInv, TypeOK
    <3>4. CASE file' = file
      BY <2>1, <3>4
    <3>5. QED
      BY <2>1, <3>1, <3>2, <3>3, <3>4
      DEF Next, SaveStep, CreateMatch, Appear, Leave, TakeSnapshot, RefreshCache, Crash,
          Ends, Start
  <2>3. QED
    BY <2>1, <2>2 DEF Saved
<1>2. QED
  BY <1>1, SoloCorrect, PTL DEF Spec, EmptyWorldKeepsSave

-----------------------------------------------------------------------------
\* Every snapshot that is stored or being saved was numbered when it was taken, and
\* the one being saved after the one it is to replace.
StampsInv ==
    /\ SoloInv
    /\ snap["loop"].stamp <= taken
    /\ Saved(file["save"]) => file["save"].stamp <= taken
    /\ pc["loop"] \in {"taken", "open", "written"} /\ Saved(file["save"]) =>
           snap["loop"].stamp > file["save"].stamp

\* Only a new snapshot and a rename disturb the numbers.
LEMMA StampsStep == ASSUME Solo PROVE StampsInv /\ [Next]_vars => StampsInv'
<1> SUFFICES ASSUME StampsInv, [Next]_vars PROVE StampsInv'
  OBVIOUS
<1> USE DEF Saved
<1>1. /\ TypeOK /\ TypeOK' /\ SoloInv /\ SoloInv' /\ Savers = {"loop"}
      /\ \A x \in Snapshot : x # Absent /\ x # Torn
  BY TypeStep, SoloStep, MarksAssumption DEF Solo, SoloInv, StampsInv
<1>2. /\ taken \in Int /\ taken' \in Int
      /\ snap["loop"] \in Snapshot /\ \A x \in Snapshot : x.stamp \in Int
      /\ pc["loop"] \in {"idle", "taken", "open", "written", "renamed", "done"}
  BY <1>1, MaxSavesAssumption DEF TypeOK, Snapshot
<1>3. CASE /\ taken' = taken /\ snap' = snap /\ file' = file
           /\ pc' = pc \/ pc'["loop"] \notin {"taken", "open", "written"}
                       \/ pc["loop"] \in {"taken", "open", "written"}
  BY <1>1, <1>3 DEF StampsInv
<1>4. CASE TakeSnapshot("loop")
  <2>1. CASE SkipsSave
    BY <1>1, <1>3, <1>4, <2>1 DEF TakeSnapshot, Finished, serverVars, TypeOK
  <2>2. CASE ~ SkipsSave
    <3>1. taken' = taken + 1 /\ snap'["loop"].stamp = taken + 1 /\ file' = file
      BY <1>1, <1>4, <2>2 DEF TakeSnapshot, serverVars, TypeOK
    <3>2. Saved(file["save"]) => file["save"].stamp \in Int /\ file["save"].stamp <= taken
      BY <1>1, <1>2 DEF StampsInv, TypeOK
    <3>3. QED
      BY <1>1, <1>2, <3>1, <3>2 DEF StampsInv
  <2>3. QED
    BY <2>1, <2>2
<1>5. CASE OpenTmp("loop")
  <2>1. /\ taken' = taken /\ snap' = snap /\ file'["save"] = file["save"]
        /\ pc["loop"] = "taken"
    BY <1>1, <1>5 DEF OpenTmp, serverVars, TypeOK
  <2>2. QED
    BY <1>1, <2>1 DEF StampsInv
<1>6. CASE Write("loop")
  <2>1. /\ taken' = taken /\ snap' = snap /\ file'["save"] = file["save"]
        /\ pc["loop"] = "open"
    BY <1>1, <1>6 DEF Write, SoloInv, serverVars, TypeOK
  <2>2. QED
    BY <1>1, <2>1 DEF StampsInv
<1>7. CASE Rename("loop")
  <2>1. /\ taken' = taken /\ snap' = snap /\ file'["save"] = snap["loop"]
        /\ pc'["loop"] = "renamed"
    BY <1>1, <1>2, <1>7 DEF Rename, SoloInv, serverVars, TypeOK
  <2>2. QED
    BY <1>1, <2>1 DEF StampsInv
<1>8. CASE Ends
  <2>1. /\ taken' = taken /\ file' = file /\ snap'["loop"].stamp = 0 /\ pc'["loop"] = "idle"
    BY <1>1, <1>8 DEF Ends, Nothing
  <2>2. 0 <= taken
    BY <1>1, MaxSavesAssumption DEF TypeOK
  <2>3. QED
    BY <1>1, <2>1, <2>2 DEF StampsInv
<1>9. QED
  <2>1. ASSUME NEW m \in MatchNames, CreateMatch(m) PROVE StampsInv'
    BY <1>3, <2>1 DEF CreateMatch
  <2>2. ASSUME NEW n \in Nicks, NEW m \in MatchNames, Appear(n, m) \/ Leave(n, m) PROVE StampsInv'
    BY <1>3, <2>2 DEF Appear, Leave
  <2>3. CASE RefreshCache("loop") \/ Start \/ UNCHANGED vars
    BY <1>1, <1>3, <2>3 DEF RefreshCache, Finished, Start, serverVars, vars, TypeOK
  <2>4. QED
    BY <1>1, <1>4, <1>5, <1>6, <1>7, <1>8, <2>1, <2>2, <2>3 DEF Next, SaveStep, Crash

\* What the store shows of a save under way: the snapshot, from when it is taken
\* until its rename or its failure.
Offered == IF pc["loop"] \in {"taken", "open", "written"} THEN snap["loop"] ELSE Absent

\* A step that leaves save file, saver, cache and process alone is none of the store.
LEMMA StoreStutters ==
    ASSUME file'["save"] = file["save"], Offered' = Offered, cached' = cached, up' = up
    PROVE  UNCHANGED Store!vars
BY DEF Store!vars, Offered

\* The steps of save_state are steps of the store: taking the snapshot offers it, the
\* rename commits it, an error withdraws it, and the new cache is how the process learns.
LEMMA StoreStep ==
    ASSUME Solo PROVE StampsInv /\ StampsInv' /\ [Next]_vars => [Store!Next]_Store!vars
<1> SUFFICES ASSUME StampsInv, StampsInv', [Next]_vars PROVE Store!Next \/ UNCHANGED Store!vars
  OBVIOUS
<1>1. /\ TypeOK /\ TypeOK' /\ SoloInv /\ SoloInv' /\ Savers = {"loop"}
      /\ \A x \in Snapshot : x # Absent /\ x # Torn
  BY MarksAssumption DEF Solo, SoloInv, StampsInv
<1>2. ASSUME NEW m \in MatchNames, CreateMatch(m) PROVE UNCHANGED Store!vars
  BY <1>2, StoreStutters DEF CreateMatch, Offered
<1>3. ASSUME NEW n \in Nicks, NEW m \in MatchNames, Appear(n, m) \/ Leave(n, m)
      PROVE  UNCHANGED Store!vars
  BY <1>3, StoreStutters DEF Appear, Leave, Offered
<1>4. CASE TakeSnapshot("loop")
  <2>1. CASE SkipsSave
    <3>1. Offered' = Absent /\ Offered = Absent
      BY <1>1, <1>4, <2>1 DEF TakeSnapshot, Finished, TypeOK, Offered
    <3>2. QED
      BY <1>4, <2>1, <3>1, StoreStutters DEF TakeSnapshot, serverVars
  <2>2. CASE ~ SkipsSave
    <3>1. /\ up /\ pc["loop"] = "idle" /\ pc'["loop"] = "taken"
          /\ file' = file /\ cached' = cached /\ up' = up
          /\ snap'["loop"].players = world /\ snap'["loop"].stamp = taken + 1
      BY <1>1, <1>4, <2>2 DEF TakeSnapshot, serverVars, TypeOK
    <3>2. cached = file["save"]
      BY <1>1, <3>1 DEF SoloInv, CacheIsDisk
    <3>3. file["save"] # Absent => taken + 1 > file["save"].stamp
      <4>1. file["save"] \in Snapshot \cup {Absent} /\ taken \in Int
        BY <1>1, MaxSavesAssumption DEF TypeOK, SoloInv, SaveIsWhole
      <4>2. file["save"] # Absent => file["save"].stamp \in Int /\ file["save"].stamp <= taken
        BY <1>1, <4>1, MaxSavesAssumption DEF Snapshot, Saved, StampsInv
      <4>3. QED
        BY <4>1, <4>2
    <3>4. snap'["loop"] \in Snapshot
      BY <1>1 DEF TypeOK
    <3>5. Store!Offer(snap'["loop"])
      BY <2>2, <3>1, <3>2, <3>3 DEF Store!Offer, Store!Newer, SkipsSave
    <3>6. QED
      BY <3>4, <3>5 DEF Store!Next
  <2>3. QED
    BY <2>1, <2>2
<1>5. ASSUME pc["loop"] \in {"taken", "open", "written"}, pc'["loop"] = "idle",
             file'["save"] = file["save"], cached' = cached, up' = up
      PROVE  Store!Withdraw
  BY <1>1, <1>5 DEF Store!Withdraw, SoloInv, TypeOK
<1>6. ASSUME pc["loop"] \in {"taken", "open", "written"}, snap' = snap,
             pc'["loop"] \in {"taken", "open", "written"},
             file'["save"] = file["save"], cached' = cached, up' = up
      PROVE  UNCHANGED Store!vars
  BY <1>6, StoreStutters DEF Offered
<1>7. CASE OpenTmp("loop")
  <2>1. /\ pc["loop"] = "taken" /\ pc'["loop"] \in {"open", "idle"} /\ snap' = snap
        /\ file'["save"] = file["save"] /\ cached' = cached /\ up' = up
    BY <1>1, <1>7 DEF OpenTmp, Finished, serverVars, TypeOK
  <2>2. QED
    BY <1>5, <1>6, <2>1 DEF Store!Next
<1>8. CASE Write("loop")
  <2>1. /\ pc["loop"] = "open" /\ pc'["loop"] \in {"written", "idle"} /\ snap' = snap
        /\ file'["save"] = file["save"] /\ cached' = cached /\ up' = up
    BY <1>1, <1>8 DEF Write, AfterWriteError, Finished, SoloInv, serverVars, TypeOK
  <2>2. QED
    BY <1>5, <1>6, <2>1 DEF Store!Next
<1>9. CASE Rename("loop")
  <2>1. /\ pc["loop"] = "written" /\ pc'["loop"] = "renamed" /\ file'["save"] = snap["loop"]
        /\ cached' = cached /\ up' = up
    BY <1>1, <1>9 DEF Rename, SoloInv, serverVars, TypeOK
  <2>2. up /\ snap["loop"] # Absent
    BY <1>1, <2>1 DEF SoloInv, TypeOK
  <2>3. Store!Commit
    BY <2>1, <2>2 DEF Store!Commit
  <2>4. QED
    BY <2>3 DEF Store!Next
<1>10. CASE RefreshCache("loop")
  <2>1. /\ pc["loop"] = "renamed" /\ pc'["loop"] = "idle" /\ file' = file
        /\ cached' = snap["loop"] /\ up' = up
    BY <1>1, <1>10 DEF RefreshCache, CacheAfterSave, Finished, serverVars, TypeOK
  <2>2. up /\ file["save"] = snap["loop"]
    BY <1>1, <2>1 DEF SoloInv, TypeOK
  <2>3. Store!Learn
    BY <2>1, <2>2 DEF Store!Learn
  <2>4. QED
    BY <2>3 DEF Store!Next
<1>11. CASE Crash
  <2>1. up /\ Ends
    BY <1>11 DEF Crash
  <2>2. up' = FALSE /\ cached' = Absent /\ pc'["loop"] = "idle" /\ file' = file
    BY <1>1, <2>1 DEF Ends
  <2>3. Store!Stop
    BY <2>1, <2>2 DEF Store!Stop
  <2>4. QED
    BY <2>3 DEF Store!Next
<1>12. CASE Start
  <2>1. /\ ~ up /\ up' = TRUE /\ cached' = file["save"] /\ file' = file
        /\ pc' = pc /\ snap' = snap
    BY <1>1, <1>12 DEF Start, Loaded, Saved, SoloInv, SaveIsWhole
  <2>2. Store!Resume
    BY <2>1 DEF Store!Resume
  <2>3. QED
    BY <2>2 DEF Store!Next
<1>13. CASE UNCHANGED vars
  BY <1>13, StoreStutters DEF vars, serverVars, Offered
<1>14. QED
  BY <1>1, <1>2, <1>3, <1>4, <1>7, <1>8, <1>9, <1>10, <1>11, <1>12, <1>13 DEF Next, SaveStep

\* One saver, with its files, errors and crashes, is a store that is replaced whole or
\* not at all and never goes back.
THEOREM StoreCorrect == ASSUME Solo PROVE Spec => ImplementsStore
<1>1. Init => Store!Init /\ StampsInv
  <2> SUFFICES ASSUME Init PROVE Store!Init /\ StampsInv
    OBVIOUS
  <2>1. SoloInv
    BY TypeInit, MarksAssumption DEF Init, SoloInv, SaveIsWhole, CacheIsDisk, Saved, Solo
  <2>2. StampsInv
    BY <2>1, MaxSavesAssumption DEF Init, StampsInv, Nothing, Saved, Solo
  <2>3. Store!Init
    BY DEF Init, Store!Init, Solo
  <2>4. QED
    BY <2>2, <2>3
<1>2. QED
  BY <1>1, StampsStep, StoreStep, PTL DEF Spec, ImplementsStore, Store!Spec

=============================================================================
