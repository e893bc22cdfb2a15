------------------------------ MODULE Persistence ------------------------------
(***************************************************************************)
(* The save file across runs of the server: Persister::try_load and save,  *)
(* Server::save_state, crashes and restarts.                               *)
(*                                                                         *)
(* The game loop saves every 30 seconds; the main thread saves too once    *)
(* 'q' is pressed, which is what Shutdown adds.  Persister has no lock, so *)
(* the steps of save() of two threads interleave: open and truncate, write *)
(* and close, rename, refresh the cache.  Both use the one name            *)
(* "<save>.tmp".  A descriptor stays with its file when the file is        *)
(* renamed over the save.  A save is shorter than a write(2) that the      *)
(* kernel would split, so a write is one step.                             *)
(*                                                                         *)
(* A snapshot holds the names of the matches, the (nick, match) pairs with *)
(* an avatar and a stamp in the order the snapshots were taken.            *)
(* ...Bug: a mutated form of the definition that follows it.               *)
(***************************************************************************)
EXTENDS Integers

CONSTANTS
    Nicks, MatchNames,
    Savers,     \* threads that save: "loop", and "main" once 'q' is pressed
    Failures,   \* what may fail: "open", "write" and "close" of the temporary
                \* file; "crash": the process dies
    MaxSaves,   \* bound of the model: snapshots taken
    Absent, Torn   \* no such file, no cache; truncated, or written in part

ASSUME SaversAssumption == Savers \subseteq {"loop", "main"}
ASSUME FailuresAssumption == Failures \subseteq {"open", "write", "close", "crash"}

Avatars == Nicks \X MatchNames
Snapshot == [matches : SUBSET MatchNames, players : SUBSET Avatars, stamp : 0..MaxSaves]

ASSUME MaxSavesAssumption == MaxSaves \in Nat
ASSUME MarksAssumption == Absent # Torn /\ Absent \notin Snapshot /\ Torn \notin Snapshot

VARIABLES
    up,        \* the server process exists
    matches,   \* the names of Server::matches
    world,     \* the (nick, match) pairs with an avatar
    taken,     \* number of snapshots taken
    pc, snap, fd,   \* per saver: where it is in save_state, the snapshot it
                    \* writes, the file its stream is open on
    file,      \* what the names "tmp" and "save" hold
    cached     \* Persister::cached

serverVars == <<up, matches, world>>
vars == <<serverVars, taken, pc, snap, fd, file, cached>>

Saved(x) == x \notin {Absent, Torn}

\* save_state: without players nothing is written.
SkipsSave == world = {}

\* Where a saver goes on: main saves once, the game loop again and again.
Finished(s) == IF s = "main" THEN "done" ELSE "idle"

\* save() returns by an exception when the stream reports an error, and only then.
AfterWriteErrorBug(s) == "written"
AfterWriteError(s) == Finished(s)

\* What try_load hands to the constructor and to the cache.
Loaded == IF Saved(file["save"]) THEN file["save"] ELSE Absent
RecreatedBug == IF Loaded = Absent THEN {Absent} ELSE Loaded.matches
Recreated == IF Loaded = Absent THEN {} ELSE Loaded.matches

\* What the file holds once the stream is closed: the close writes what the stream
\* still buffers and reports nothing.
Flushed(s) == {snap[s]} \cup {Torn : f \in Failures \cap {"close"}}

CacheAfterSaveBug(s) == cached
CacheAfterSave(s) == snap[s]

Nothing == [matches |-> {}, players |-> {}, stamp |-> 0]

-----------------------------------------------------------------------------
\* A first start, without a save file.
Init ==
    /\ up = TRUE /\ matches = {} /\ world = {} /\ taken = 0
    /\ pc = [s \in Savers |-> "idle"]
    /\ snap = [s \in Savers |-> Nothing]
    /\ fd = [s \in Savers |-> "none"]
    /\ file = [tmp |-> Absent, save |-> Absent]
    /\ cached = Absent

\* Clients: create a match, get an avatar in it (the game loop makes it between
\* two saves), leave (their own thread removes it at any moment).
CreateMatch(m) ==
    /\ up
    /\ matches' = matches \cup {m}
    /\ UNCHANGED <<up, world, taken, pc, snap, fd, file, cached>>

Appear(n, m) ==
    /\ up /\ m \in matches
    /\ "loop" \in Savers => pc["loop"] = "idle"
    /\ \A a \in world : a[1] # n
    /\ world' = world \cup {<<n, m>>}
    /\ UNCHANGED <<up, matches, taken, pc, snap, fd, file, cached>>

Leave(n, m) ==
    /\ up /\ <<n, m>> \in world
    /\ world' = world \ {<<n, m>>}
    /\ UNCHANGED <<up, matches, taken, pc, snap, fd, file, cached>>

-----------------------------------------------------------------------------
\* Server::save_state: snapshot(), and save() if it has players.
TakeSnapshot(s) ==
    /\ up /\ pc[s] = "idle" /\ taken < MaxSaves
    /\ \/ SkipsSave /\ pc' = [pc EXCEPT ![s] = Finished(s)] /\ UNCHANGED <<taken, snap>>
       \/ /\ ~ SkipsSave
          /\ taken' = taken + 1
          /\ snap' = [snap EXCEPT ![s] =
                         [matches |-> matches, players |-> world, stamp |-> taken + 1]]
          /\ pc' = [pc EXCEPT ![s] = "taken"]
    /\ UNCHANGED <<serverVars, fd, file, cached>>

\* Another stream may be open on the same file: it is truncated for both.
OpenTmp(s) ==
    /\ pc[s] = "taken"
    /\ \/ /\ file' = [file EXCEPT !["tmp"] = Torn]
          /\ fd' = [fd EXCEPT ![s] = "tmp"]
          /\ pc' = [pc EXCEPT ![s] = "open"]
       \/ /\ "open" \in Failures
          /\ pc' = [pc EXCEPT ![s] = Finished(s)]
          /\ UNCHANGED <<fd, file>>
    /\ UNCHANGED <<serverVars, taken, snap, cached>>

\* out << serialized, out.good() and the close at the end of the block.  (Two
\* saves over each other read as the later one: the parser stops at the end of
\* the first value.)  A write that reports an error may have left part of it.
Write(s) ==
    /\ pc[s] = "open"
    /\ fd' = [fd EXCEPT ![s] = "none"]
    /\ \/ /\ \E content \in Flushed(s) :
                file' = [f \in DOMAIN file |-> IF f = fd[s] THEN content ELSE file[f]]
          /\ pc' = [pc EXCEPT ![s] = "written"]
       \/ /\ "write" \in Failures
          /\ \/ UNCHANGED file
             \/ file' = [f \in DOMAIN file |-> IF f = fd[s] THEN Torn ELSE file[f]]
          /\ pc' = [pc EXCEPT ![s] = AfterWriteError(s)]
    /\ UNCHANGED <<serverVars, taken, snap, cached>>

\* rename(2): whatever has that name now, also if another thread is writing it.
Rename(s) ==
    /\ pc[s] = "written" /\ file["tmp"] # Absent
    /\ file' = [tmp |-> Absent, save |-> file["tmp"]]
    /\ fd' = [t \in Savers |-> CASE fd[t] = "tmp"  -> "save"
                                 [] fd[t] = "save" -> "none"
                                 [] OTHER          -> fd[t]]
    /\ pc' = [pc EXCEPT ![s] = "renamed"]
    /\ UNCHANGED <<serverVars, taken, snap, cached>>

RefreshCache(s) ==
    /\ pc[s] = "renamed"
    /\ cached' = CacheAfterSave(s)
    /\ pc' = [pc EXCEPT ![s] = Finished(s)]
    /\ UNCHANGED <<serverVars, taken, snap, fd, file>>

-----------------------------------------------------------------------------
\* The memory of the process is gone, the files are as they are.
Ends ==
    /\ up' = FALSE
    /\ matches' = {} /\ world' = {} /\ cached' = Absent
    /\ pc' = [s \in Savers |-> "idle"]
    /\ snap' = [s \in Savers |-> Nothing]
    /\ fd' = [s \in Savers |-> "none"]
    /\ UNCHANGED <<taken, file>>

Crash == "crash" \in Failures /\ up /\ Ends

\* The constructor of Server loads the save and recreates its matches.
Start ==
    /\ ~ up
    /\ up' = TRUE
    /\ cached' = Loaded
    /\ matches' = Recreated
    /\ UNCHANGED <<world, taken, pc, snap, fd, file>>

SaveStep(s) ==
    TakeSnapshot(s) \/ OpenTmp(s) \/ Write(s) \/ Rename(s) \/ RefreshCache(s)

Next ==
    \/ \E m \in MatchNames : CreateMatch(m)
    \/ \E n \in Nicks, m \in MatchNames : Appear(n, m) \/ Leave(n, m)
    \/ \E s \in Savers : SaveStep(s)
    \/ Crash \/ Start

Spec == Init /\ [][Next]_vars

-----------------------------------------------------------------------------
TypeOK ==
    /\ up \in BOOLEAN
    /\ matches \in SUBSET MatchNames
    /\ world \in SUBSET Avatars
    /\ taken \in 0..MaxSaves
    /\ pc \in [Savers -> {"idle", "taken", "open", "written", "renamed", "done"}]
    /\ snap \in [Savers -> Snapshot]
    /\ fd \in [Savers -> {"none", "tmp", "save"}]
    /\ file \in [{"tmp", "save"} -> Snapshot \cup {Absent, Torn}]
    /\ cached \in Snapshot \cup {Absent}

\* The save file is whole in every state, so whenever the process dies: what is
\* there to load is absent or one complete snapshot.
SaveIsWhole == file["save"] # Torn

\* What find_player_save searches is what is on disk, except between the rename
\* and the refresh of the cache: a failed save changes neither.
CacheIsDisk ==
    up /\ (\A s \in Savers : pc[s] # "renamed") => cached = file["save"]

\* A world that everybody has left never replaces a save that has players.
EmptyWorldKeepsSave ==
    [][Saved(file["save"]) => Saved(file'["save"]) /\ file'["save"].players # {}]_vars

-----------------------------------------------------------------------------
\* The one saver of a running server and the files it goes through are a store
\* that is replaced at the rename.
Store == INSTANCE SaveStore WITH
    stored  <- file["save"],
    offered <- IF pc["loop"] \in {"taken", "open", "written"} THEN snap["loop"] ELSE Absent,
    known   <- cached,
    running <- up

\* Open, write, close, rename and refresh, each of which may fail or be the last
\* thing the process does, are one atomic replacement: the save is whole at every
\* instant, never older than one read before, and known to the process unless the
\* save that changed it has still to return.
ImplementsStore == Store!Spec
=============================================================================
