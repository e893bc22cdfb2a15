----------------------------- MODULE WorldProofs -----------------------------
(***************************************************************************)
(* Machine-checked proofs about World, for any map, any players and any    *)
(* NPCs.                                                                   *)
(***************************************************************************)
EXTENDS World, TLAPS

PlaceTypes ==
    /\ pos \in [Characters -> Cells \cup {Nowhere}]
    /\ occupied \in SUBSET Cells

LifeTypes ==
    /\ dead \in SUBSET Characters
    /\ wait \in [Players -> Nat]
    /\ dest \in [Players -> Cells \cup {Nowhere}]
    /\ spawned \in SUBSET Npcs

ThreadTypes ==
    /\ call \in Placings \cup Startings \cup {NoCall}
    /\ leaver \in Departures \cup {NoOne}
    /\ raced \in BOOLEAN

\* The matrix and the positions, if nothing has raced.
MarksAgree == occupied = Staff \cup {pos[x] : x \in {y \in Characters : Standing(y)}}
Apart == \A x, y \in Characters : Standing(x) /\ Standing(y) /\ pos[x] = pos[y] => x = y

GridInv ==
    /\ PlaceTypes
    /\ Staff \subseteq occupied
    /\ OnItsGround
    /\ ~ raced => MarksAgree /\ Apart

\* The dead have not left, and an id without an NPC is nowhere.
BodiesArePresent ==
    /\ \A x \in dead : InWorld(x)
    /\ \A n \in Npcs \ spawned : ~ InWorld(n)

\* What the loops of World::update have still to visit; a dead NPC waits for its
\* visit.
LoopInv ==
    /\ phase \in {"commands", "resurrections", "npcs", "spawning"}
    /\ phase \in {"commands", "spawning"} => todo = {}
    /\ phase = "resurrections" => todo \subseteq Players
    /\ phase = "npcs" => todo \subseteq {n \in Npcs : InWorld(n)} /\ dead \cap Npcs \subseteq todo
    /\ DeadNpcsAreCleared

\* A call is made by a command or by update_resurrections, to a cell that stays
\* free until it is marked; and, if nothing has raced, what the call has read
\* still holds.
CallInv ==
    /\ call # NoCall => phase \in {"commands", "resurrections"}
    /\ call.at \in {"unmark", "place", "mark"} =>
          call.to \notin Blocked \cup occupied /\ call.from \notin Staff
    /\ call.at = "place" => call.from \notin occupied
    /\ ~ raced /\ call # NoCall => InWorld(call.who) /\ ~ Departing(call.who)
    /\ ~ raced /\ call.at \in {"unmark", "place"} =>
          /\ pos[call.who] = call.from
          /\ \/ wait[call.who] = 0 /\ Walk(call.from, call.to) = 1
             \/ wait[call.who] = 1 /\ phase = "resurrections"
    /\ ~ raced /\ call.at = "mark" => pos[call.who] = call.to

\* The same of the leaver.
LeaverInv ==
    /\ leaver # NoOne => leaver.cell \notin Staff
    /\ ~ raced /\ leaver.at \in {"unmark", "erase"} => InWorld(leaver.who)
    /\ ~ raced /\ leaver.at = "unmark" => pos[leaver.who] = leaver.cell

WorldInv ==
    /\ GridInv /\ LifeTypes /\ ThreadTypes
    /\ BodiesArePresent /\ LoopInv
    /\ CallInv /\ LeaverInv /\ WaitersArePresent

-----------------------------------------------------------------------------
\* The fields of the two calls.
LEMMA CallFields ==
  ASSUME ThreadTypes
  PROVE  /\ call.at \in {"none", "unmark", "place", "mark", "revive", "insert"}
         /\ call = NoCall <=> call.at = "none"
         /\ call # NoCall => call.who \in Players /\ call.to \in Cells
         /\ call.at \in {"unmark", "place", "mark", "revive"} => call \in Placings
         /\ call.at = "insert" => call \in Startings
<1>1. CASE call \in Placings
  BY <1>1 DEF Placings, NoCall
<1>2. CASE call \in Startings
  BY <1>2 DEF Startings, NoCall
<1>3. CASE call = NoCall
  BY <1>3 DEF NoCall
<1>4. QED
  BY <1>1, <1>2, <1>3 DEF ThreadTypes

LEMMA LeaverFields ==
  ASSUME ThreadTypes
  PROVE  /\ leaver.at \in {"none", "unmark", "erase", "cancel"}
         /\ leaver = NoOne <=> leaver.at = "none"
         /\ leaver # NoOne => leaver \in Departures /\ leaver.who \in Players /\ leaver.cell \in Cells
<1>1. CASE leaver \in Departures
  BY <1>1 DEF Departures, NoOne
<1>2. CASE leaver = NoOne
  BY <1>2 DEF NoOne
<1>3. QED
  BY <1>1, <1>2 DEF ThreadTypes

\* What a mark in the matrix stands for.
Marked(c) == c \in Staff \/ \E x \in Characters : Standing(x) /\ pos[x] = c

\* The matrix agrees with the positions if it does so cell by cell.
LEMMA CellByCell ==
  ASSUME PlaceTypes
  PROVE  MarksAgree <=> \A c \in Cells : c \in occupied <=> Marked(c)
<1>1. Staff \subseteq Cells
  BY MapAssumption
<1>2. \A x \in Characters : Standing(x) => pos[x] \in Cells
  BY DEF PlaceTypes, InWorld, Standing
<1>3. QED
  BY <1>1, <1>2 DEF PlaceTypes, Marked, MarksAgree

\* The same after a step.
LEMMA CellByCellNext ==
  ASSUME PlaceTypes', \A c \in Cells : (c \in occupied <=> Marked(c))'
  PROVE  MarksAgree'
<1>1. Staff \subseteq Cells
  BY MapAssumption
<1>2. \A x \in Characters : Standing(x)' => pos'[x] \in Cells
  BY DEF PlaceTypes, InWorld, Standing
<1>3. QED
  BY <1>1, <1>2 DEF PlaceTypes, Marked, MarksAgree

\* Players are not NPCs, and both are characters.
LEMMA Ids == /\ \A p \in Players : p \in Characters /\ p \notin Npcs
             /\ Npcs \subseteq Characters
BY IdsAssumption DEF Characters

\* A step that leaves the grid and both calls alone.
LEMMA QuietStep ==
  ASSUME WorldInv, UNCHANGED placeVars, UNCHANGED threadVars
  PROVE  /\ GridInv' /\ ThreadTypes' /\ LeaverInv'
         /\ \A x \in Characters : InWorld(x)' <=> InWorld(x)
         /\ \A x \in Players : Departing(x)' <=> Departing(x)
BY DEF WorldInv, placeVars, threadVars, GridInv, PlaceTypes, OnItsGround, MarksAgree, Apart,
       Standing, InHand, InWorld, ThreadTypes, LeaverInv, Departing

\* A hostile NPC's change of cell, at a time when the game loop is in no call.
LEMMA RelocateStep ==
  ASSUME WorldInv, call = NoCall, UNCHANGED threadVars, NEW x \in Npcs, InWorld(x),
         NEW c \in Cells \ Blocked, c \notin occupied, CanEnter(x, c), Relocate(x, c)
  PROVE  GridInv' /\ \A y \in Characters : InWorld(y)' <=> InWorld(y)
<1>1. /\ pos' = [pos EXCEPT ![x] = c]
      /\ occupied' = (occupied \ {pos[x]}) \cup {c}
      /\ c # Nowhere /\ c \notin Staff /\ pos[x] \notin Staff
      /\ x \in Characters
  BY Ids, NowhereAssumption DEF Relocate, WorldInv, GridInv, OnItsGround, InWorld
<1>2. \A y \in Characters : pos'[y] = IF y = x THEN c ELSE pos[y]
  BY <1>1 DEF WorldInv, GridInv, PlaceTypes
<1>3. PlaceTypes'
  BY <1>1 DEF WorldInv, GridInv, PlaceTypes
<1>4. \A y \in Characters : InWorld(y)' <=> InWorld(y)
  BY <1>1, <1>2 DEF InWorld
<1>5. ~ InHand(x) /\ \A y \in Characters : InHand(y)' <=> InHand(y)
  BY CallFields, LeaverFields, Ids DEF WorldInv, InHand, threadVars
<1>6. \A y \in Characters : Standing(y)' <=> Standing(y)
  BY <1>4, <1>5 DEF Standing
<1>7. Standing(x)
  BY <1>5 DEF Standing
<1>8. ASSUME ~ raced PROVE MarksAgree' /\ Apart'
  <2>1. Apart /\ \A b \in Cells : b \in occupied <=> Marked(b)
    BY <1>8, CellByCell DEF WorldInv, GridInv
  <2>2. \A y \in Characters : Standing(y) => pos[y] # c
    BY <2>1 DEF Marked
  <2>3. \A y \in Characters : Standing(y) /\ pos[y] = pos[x] => y = x
    BY <1>1, <1>7, <2>1 DEF Apart
  <2>4. \A b \in Cells : b \in occupied' <=> Marked(b)'
    BY <1>1, <1>2, <1>6, <1>7, <2>1, <2>2, <2>3 DEF Marked
  <2>5. Apart'
    BY <1>1, <1>2, <1>6, <2>1, <2>2 DEF Apart
  <2>6. QED
    BY <1>3, <2>4, <2>5, CellByCellNext
<1>9. Staff \subseteq occupied' /\ OnItsGround'
  BY <1>1, <1>2, <1>4 DEF WorldInv, GridInv, OnItsGround, CanEnter
<1>10. QED
  BY <1>3, <1>4, <1>8, <1>9 DEF GridInv, threadVars

\* add_player and add_npc at a free cell.
LEMMA AddStep ==
  ASSUME WorldInv, call = NoCall, UNCHANGED <<call, leaver>>,
         NEW x \in Characters, ~ InWorld(x), NEW c \in Free,
         x \in Npcs => c \in Haunts[x] \ City, Add(x, c),
         raced' \in BOOLEAN, ~ raced' => ~ raced
  PROVE  /\ GridInv'
         /\ InWorld(x)'
         /\ \A y \in Characters \ {x} : InWorld(y)' <=> InWorld(y)
<1>1. /\ pos' = [pos EXCEPT ![x] = c]
      /\ occupied' = occupied \cup {c}
      /\ c \in Cells \ Blocked /\ c \notin occupied /\ c # Nowhere /\ c \notin Staff
  BY NowhereAssumption DEF Add, Free, WorldInv, GridInv
<1>2. \A y \in Characters : pos'[y] = IF y = x THEN c ELSE pos[y]
  BY <1>1 DEF WorldInv, GridInv, PlaceTypes
<1>3. PlaceTypes'
  BY <1>1 DEF WorldInv, GridInv, PlaceTypes
<1>4. \A y \in Characters : InWorld(y)' <=> InWorld(y) \/ y = x
  BY <1>1, <1>2 DEF InWorld
<1>5. \A y \in Characters : InHand(y)' <=> InHand(y)
  BY DEF InHand
<1>6. ASSUME ~ raced' PROVE MarksAgree' /\ Apart'
  <2>1. ~ raced /\ Apart /\ \A b \in Cells : b \in occupied <=> Marked(b)
    BY <1>6, CellByCell DEF WorldInv, GridInv
  <2>2. ~ InHand(x)
    BY <2>1, CallFields, LeaverFields DEF WorldInv, InHand, LeaverInv
  <2>3. \A y \in Characters : Standing(y)' <=> Standing(y) \/ y = x
    BY <1>4, <1>5, <2>2 DEF Standing
  <2>4. ~ Standing(x) /\ \A y \in Characters : Standing(y) => pos[y] # c
    BY <1>1, <2>1 DEF Marked, Standing
  <2>5. \A b \in Cells : b \in occupied' <=> Marked(b)'
    BY <1>1, <1>2, <2>1, <2>3, <2>4 DEF Marked
  <2>6. Apart'
    BY <1>1, <1>2, <2>1, <2>3, <2>4 DEF Apart
  <2>7. QED
    BY <1>3, <2>5, <2>6, CellByCellNext
<1>7. Staff \subseteq occupied' /\ OnItsGround'
  BY <1>1, <1>2, <1>4 DEF WorldInv, GridInv, OnItsGround
<1>8. QED
  BY <1>3, <1>4, <1>6, <1>7 DEF GridInv

\* The removal of a dead NPC.
LEMMA RemoveStep ==
  ASSUME WorldInv, call = NoCall, UNCHANGED threadVars, NEW x \in Npcs, InWorld(x), Remove(x)
  PROVE  /\ GridInv'
         /\ ~ InWorld(x)'
         /\ \A y \in Characters \ {x} : InWorld(y)' <=> InWorld(y)
<1>1. /\ pos' = [pos EXCEPT ![x] = Nowhere]
      /\ occupied' = occupied \ {pos[x]}
      /\ x \in Characters /\ pos[x] \notin Staff
  BY Ids DEF Remove, WorldInv, GridInv, OnItsGround
<1>2. \A y \in Characters : pos'[y] = IF y = x THEN Nowhere ELSE pos[y]
  BY <1>1 DEF WorldInv, GridInv, PlaceTypes
<1>3. PlaceTypes'
  BY <1>1 DEF WorldInv, GridInv, PlaceTypes
<1>4. \A y \in Characters : InWorld(y)' <=> InWorld(y) /\ y # x
  BY <1>1, <1>2 DEF InWorld
<1>5. ~ InHand(x) /\ \A y \in Characters : InHand(y)' <=> InHand(y)
  BY CallFields, LeaverFields, Ids DEF WorldInv, InHand, threadVars
<1>6. Standing(x) /\ \A y \in Characters : Standing(y)' <=> Standing(y) /\ y # x
  BY <1>4, <1>5 DEF Standing
<1>7. ASSUME ~ raced PROVE MarksAgree' /\ Apart'
  <2>1. Apart /\ \A b \in Cells : b \in occupied <=> Marked(b)
    BY <1>7, CellByCell DEF WorldInv, GridInv
  <2>2. \A y \in Characters : Standing(y) /\ pos[y] = pos[x] => y = x
    BY <1>1, <1>6, <2>1 DEF Apart
  <2>3. \A b \in Cells : b \in occupied' <=> Marked(b)'
    BY <1>1, <1>2, <1>6, <2>1, <2>2 DEF Marked
  <2>4. Apart'
    BY <1>2, <1>6, <2>1 DEF Apart
  <2>5. QED
    BY <1>3, <2>3, <2>4, CellByCellNext
<1>8. Staff \subseteq occupied' /\ OnItsGround'
  BY <1>1, <1>2, <1>4 DEF WorldInv, GridInv, OnItsGround
<1>9. raced' = raced
  BY DEF threadVars
<1>10. GridInv'
  BY <1>3, <1>7, <1>8, <1>9 DEF GridInv
<1>11. QED
  BY <1>2, <1>4, <1>10, Ids DEF InWorld

-----------------------------------------------------------------------------
\* The accesses of the game loop's call.
LEMMA UnmarkStep == ASSUME WorldInv, Unmark PROVE WorldInv'
<1>1. /\ call \in Placings /\ call.at = "unmark" /\ call # NoCall
      /\ call.who \in Players /\ call.to \in Cells
  BY CallFields DEF Unmark, WorldInv
<1>2. /\ occupied' = occupied \ {call.from}
      /\ call' = [call EXCEPT !.at = "place"]
      /\ UNCHANGED <<pos, dead, wait, dest, spawned, phase, todo, leaver, raced>>
  BY DEF Unmark, waitVars, loopVars
<1>3. /\ call' \in Placings /\ call'.at = "place" /\ call'.who = call.who
      /\ call'.from = call.from /\ call'.to = call.to /\ call'.op = call.op
      /\ call' # NoCall
  BY <1>1, <1>2 DEF Placings, NoCall
<1>4. ThreadTypes' /\ LifeTypes' /\ PlaceTypes'
  BY <1>2, <1>3 DEF WorldInv, ThreadTypes, LifeTypes, GridInv, PlaceTypes
<1>5. Staff \subseteq occupied' /\ OnItsGround'
  BY <1>1, <1>2 DEF WorldInv, GridInv, CallInv, OnItsGround, InWorld
<1>6. ASSUME ~ raced PROVE MarksAgree' /\ Apart'
  <2>1. Apart /\ \A b \in Cells : b \in occupied <=> Marked(b)
    BY <1>6, CellByCell DEF WorldInv, GridInv
  <2>2. /\ InWorld(call.who) /\ ~ Departing(call.who)
        /\ pos[call.who] = call.from /\ call.from \notin Staff
    BY <1>1, <1>6 DEF WorldInv, CallInv
  <2>3. \A y \in Characters : InHand(y)' <=> InHand(y) \/ y = call.who
    BY <1>1, <1>2, <1>3 DEF InHand
  <2>4. Standing(call.who) /\ \A y \in Characters : Standing(y)' <=> Standing(y) /\ y # call.who
    BY <1>1, <1>2, <2>2, <2>3, LeaverFields DEF Standing, InHand, InWorld, Departing, WorldInv
  <2>5. \A y \in Characters : Standing(y) /\ pos[y] = call.from => y = call.who
    BY <1>1, <2>1, <2>2, <2>4, Ids DEF Apart
  <2>6. \A b \in Cells : (b \in occupied <=> Marked(b))'
    BY <1>2, <2>1, <2>2, <2>4, <2>5 DEF Marked
  <2>7. Apart'
    BY <1>2, <2>1, <2>4 DEF Apart
  <2>8. QED
    BY <1>4, <2>6, <2>7, CellByCellNext
<1>7. BodiesArePresent' /\ LoopInv' /\ LeaverInv' /\ WaitersArePresent'
  BY <1>2 DEF WorldInv, BodiesArePresent, LoopInv, LeaverInv, WaitersArePresent, InWorld,
              DeadNpcsAreCleared, Departing
<1>8. CallInv'
  BY <1>1, <1>2, <1>3 DEF WorldInv, CallInv, InWorld, Departing, Walk
<1>9. QED
  BY <1>2, <1>4, <1>5, <1>6, <1>7, <1>8 DEF WorldInv, GridInv

LEMMA PlaceStep == ASSUME WorldInv, Place PROVE WorldInv'
<1> DEFINE new == IF InWorld(call.who) THEN call.to ELSE Nowhere
<1>1. /\ call \in Placings /\ call.at = "place" /\ call # NoCall
      /\ call.who \in Players /\ call.who \in Characters /\ call.who \notin Npcs
      /\ call.to \in Cells /\ call.to # Nowhere
  BY CallFields, Ids, NowhereAssumption DEF Place, WorldInv
<1>2. /\ pos' = [pos EXCEPT ![call.who] = new]
      /\ call' = [call EXCEPT !.at = "mark"]
      /\ UNCHANGED <<occupied, dead, wait, dest, spawned, phase, todo, leaver, raced>>
  BY DEF Place, waitVars, loopVars
<1>3. /\ call' \in Placings /\ call'.at = "mark" /\ call'.who = call.who
      /\ call'.from = call.from /\ call'.to = call.to /\ call'.op = call.op
      /\ call' # NoCall
  BY <1>1, <1>2 DEF Placings, NoCall
<1>4. \A y \in Characters : pos'[y] = IF y = call.who THEN new ELSE pos[y]
  BY <1>1, <1>2 DEF WorldInv, GridInv, PlaceTypes
<1>5. \A y \in Characters : InWorld(y)' <=> InWorld(y)
  BY <1>1, <1>4 DEF InWorld
<1>6. PlaceTypes'
  BY <1>1, <1>2 DEF WorldInv, GridInv, PlaceTypes
<1>7. ThreadTypes' /\ LifeTypes'
  BY <1>2, <1>3 DEF WorldInv, ThreadTypes, LifeTypes
<1>8. call.to \notin Blocked \cup occupied /\ call.to \notin Staff
  BY <1>1 DEF WorldInv, CallInv, GridInv
<1>9. Staff \subseteq occupied' /\ OnItsGround'
  BY <1>1, <1>2, <1>4, <1>5, <1>8 DEF WorldInv, GridInv, OnItsGround
<1>10. ASSUME ~ raced PROVE MarksAgree' /\ Apart'
  <2>1. \A y \in Characters : InHand(y)' <=> InHand(y)
    BY <1>1, <1>2, <1>3 DEF InHand
  <2>2. InHand(call.who)
    BY <1>1 DEF InHand
  <2>3. \A y \in Characters : (Standing(y)' <=> Standing(y)) /\ (Standing(y) => pos'[y] = pos[y])
    BY <1>4, <1>5, <2>1, <2>2 DEF Standing
  <2>4. Apart /\ \A b \in Cells : b \in occupied <=> Marked(b)
    BY <1>10, CellByCell DEF WorldInv, GridInv
  <2>5. \A b \in Cells : (b \in occupied <=> Marked(b))'
    BY <1>2, <2>3, <2>4 DEF Marked
  <2>6. Apart'
    BY <2>3, <2>4 DEF Apart
  <2>7. QED
    BY <1>6, <2>5, <2>6, CellByCellNext
<1>11. BodiesArePresent' /\ WaitersArePresent'
  BY <1>2, <1>5, Ids DEF WorldInv, BodiesArePresent, WaitersArePresent, LifeTypes, Departing
<1>12. LoopInv'
  BY <1>2, <1>5, Ids DEF WorldInv, LoopInv, DeadNpcsAreCleared
<1>13. LeaverInv'
  <2>1. ~ raced => ~ Departing(call.who)
    BY <1>1 DEF WorldInv, CallInv
  <2>2. leaver.at \in {"unmark", "erase"} => leaver # NoOne /\ leaver.who \in Characters
    BY LeaverFields, Ids DEF WorldInv
  <2>3. QED
    BY <1>2, <1>4, <1>5, <2>1, <2>2 DEF WorldInv, LeaverInv, Departing
<1>14. CallInv'
  <2>1. ~ raced => InWorld(call.who) /\ ~ Departing(call.who)
    BY <1>1 DEF WorldInv, CallInv
  <2>2. ~ raced => pos'[call.who] = call.to
    BY <1>1, <1>4, <2>1
  <2>3. QED
    BY <1>1, <1>2, <1>3, <1>5, <1>8, <2>1, <2>2 DEF WorldInv, CallInv, Departing
<1>15. QED
  BY <1>2, <1>6, <1>7, <1>9, <1>10, <1>11, <1>12, <1>13, <1>14 DEF WorldInv, GridInv

LEMMA MarkStep == ASSUME WorldInv, Mark PROVE WorldInv'
<1>1. /\ call \in Placings /\ call.at = "mark" /\ call # NoCall
      /\ call.who \in Players /\ call.who \in Characters /\ call.to \in Cells
  BY CallFields, Ids DEF Mark, WorldInv
<1>2. /\ occupied' = occupied \cup {call.to}
      /\ call' = IF call.op = "move" THEN NoCall ELSE [call EXCEPT !.at = "revive"]
      /\ UNCHANGED <<pos, dead, wait, dest, spawned, phase, todo, leaver, raced>>
  BY DEF Mark, waitVars, loopVars
<1>3. /\ call' \in Placings \cup {NoCall} /\ call'.at \in {"none", "revive"}
      /\ call' # NoCall => call'.who = call.who
  BY <1>1, <1>2 DEF Placings, NoCall
<1>4. ThreadTypes' /\ LifeTypes' /\ PlaceTypes'
  BY <1>1, <1>2, <1>3 DEF WorldInv, ThreadTypes, LifeTypes, GridInv, PlaceTypes
<1>5. Staff \subseteq occupied' /\ OnItsGround'
  BY <1>2 DEF WorldInv, GridInv, OnItsGround, InWorld
<1>6. ASSUME ~ raced PROVE MarksAgree' /\ Apart'
  <2>1. Apart /\ \A b \in Cells : b \in occupied <=> Marked(b)
    BY <1>6, CellByCell DEF WorldInv, GridInv
  <2>2. /\ InWorld(call.who) /\ ~ Departing(call.who)
        /\ pos[call.who] = call.to /\ call.to \notin occupied
    BY <1>1, <1>6 DEF WorldInv, CallInv
  <2>3. leaver.at = "erase" => leaver.who # call.who
    BY <2>2, LeaverFields DEF Departing, WorldInv
  <2>4. \A y \in Characters : Standing(y)' <=> Standing(y) \/ y = call.who
    BY <1>1, <1>2, <1>3, <2>2, <2>3 DEF Standing, InHand, InWorld
  <2>5. \A y \in Characters : Standing(y) => pos[y] # call.to
    BY <1>1, <2>1, <2>2 DEF Marked
  <2>6. \A b \in Cells : (b \in occupied <=> Marked(b))'
    BY <1>1, <1>2, <2>1, <2>2, <2>4 DEF Marked
  <2>7. Apart'
    BY <1>2, <2>1, <2>2, <2>4, <2>5 DEF Apart
  <2>8. QED
    BY <1>4, <2>6, <2>7, CellByCellNext
<1>7. BodiesArePresent' /\ LoopInv' /\ LeaverInv' /\ WaitersArePresent'
  BY <1>2 DEF WorldInv, BodiesArePresent, LoopInv, LeaverInv, WaitersArePresent, InWorld,
              DeadNpcsAreCleared, Departing
<1>8. CallInv'
  BY <1>1, <1>2, <1>3 DEF WorldInv, CallInv, InWorld, Departing
<1>9. QED
  BY <1>2, <1>4, <1>5, <1>6, <1>7, <1>8 DEF WorldInv, GridInv

\* A call that ends without a change of place or of the leaver: what it leaves of
\* the grid.
LEMMA CallEnds ==
  ASSUME WorldInv, call.at \notin {"place", "mark"}, call' = NoCall,
         UNCHANGED placeVars, UNCHANGED <<leaver, raced>>
  PROVE  /\ GridInv' /\ ThreadTypes' /\ LeaverInv' /\ CallInv'
         /\ \A x \in Characters : InWorld(x)' <=> InWorld(x)
         /\ \A x \in Players : Departing(x)' <=> Departing(x)
<1>1. \A x \in Characters : /\ InWorld(x)' <=> InWorld(x)
                            /\ Standing(x)' <=> Standing(x)
  BY DEF placeVars, InWorld, Standing, InHand, NoCall
<1>2. GridInv'
  BY <1>1 DEF WorldInv, placeVars, GridInv, PlaceTypes, OnItsGround, MarksAgree, Apart
<1>3. ThreadTypes' /\ LeaverInv'
  BY DEF WorldInv, placeVars, ThreadTypes, LeaverInv, InWorld
<1>4. CallInv' /\ \A x \in Players : Departing(x)' <=> Departing(x)
  BY DEF CallInv, NoCall, Departing
<1>5. QED
  BY <1>1, <1>2, <1>3, <1>4

LEMMA ReviveStep == ASSUME WorldInv, Revive PROVE WorldInv'
<1>1. /\ call.at = "revive" /\ call.who \in Players /\ call # NoCall
      /\ dead' = dead \ {call.who}
      /\ wait' = [wait EXCEPT ![call.who] = 0]
      /\ dest' = [dest EXCEPT ![call.who] = Nowhere]
      /\ call' = NoCall
      /\ UNCHANGED <<spawned, phase, todo, leaver, raced>>
      /\ UNCHANGED placeVars
  BY CallFields DEF Revive, Revived, WorldInv, loopVars
<1>2. /\ GridInv' /\ ThreadTypes' /\ LeaverInv' /\ CallInv'
      /\ \A x \in Characters : InWorld(x)' <=> InWorld(x)
      /\ \A x \in Players : Departing(x)' <=> Departing(x)
  BY <1>1, CallEnds
<1>3. LifeTypes' /\ BodiesArePresent' /\ WaitersArePresent'
  BY <1>1, <1>2, Ids DEF WorldInv, LifeTypes, BodiesArePresent, WaitersArePresent
<1>4. LoopInv'
  BY <1>1, <1>2, Ids DEF WorldInv, LoopInv, DeadNpcsAreCleared
<1>5. QED
  BY <1>2, <1>3, <1>4 DEF WorldInv

LEMMA InsertStep == ASSUME WorldInv, Insert PROVE WorldInv'
<1>1. /\ call.at = "insert" /\ call.who \in Players /\ call # NoCall
      /\ call.ticks \in Nat \ {0} /\ call.to \in Cells
      /\ wait' = [wait EXCEPT ![call.who] = call.ticks]
      /\ dest' = [dest EXCEPT ![call.who] = call.to]
      /\ call' = NoCall
      /\ UNCHANGED <<dead, spawned, phase, todo, leaver, raced>>
      /\ UNCHANGED placeVars
  BY CallFields, SizeAssumption DEF Insert, WorldInv, loopVars, Startings
<1>2. /\ GridInv' /\ ThreadTypes' /\ LeaverInv' /\ CallInv'
      /\ \A x \in Characters : InWorld(x)' <=> InWorld(x)
      /\ \A x \in Players : Departing(x)' <=> Departing(x)
  BY <1>1, CallEnds
<1>3. ~ raced => InWorld(call.who)
  BY <1>1 DEF WorldInv, CallInv
<1>4. LifeTypes' /\ BodiesArePresent' /\ WaitersArePresent'
  BY <1>1, <1>2, <1>3, Ids DEF WorldInv, LifeTypes, BodiesArePresent, WaitersArePresent
<1>5. LoopInv'
  BY <1>1, <1>2, Ids DEF WorldInv, LoopInv, DeadNpcsAreCleared
<1>6. QED
  BY <1>2, <1>4, <1>5 DEF WorldInv

-----------------------------------------------------------------------------
\* The beginning of a call on a player: what it has read is true, unless its
\* player departs.
LEMMA CallBegins ==
  ASSUME WorldInv, call = NoCall, UNCHANGED <<placeVars, waitVars, dead, spawned, phase>>,
         todo' \subseteq todo, phase \in {"commands", "resurrections"},
         NEW c \in Placings \cup Startings, c.at \in {"unmark", "insert"}, c.who \in Players,
         InWorld(c.who), Calls(c),
         c.at = "unmark" =>
            /\ c.to \notin Blocked \cup occupied /\ c.from = pos[c.who]
            /\ \/ wait[c.who] = 0 /\ Walk(c.from, c.to) = 1
               \/ wait[c.who] = 1 /\ phase = "resurrections"
  PROVE  WorldInv'
<1>1. /\ call' = c /\ c # NoCall /\ c.who \in Characters
      /\ raced' = (raced \/ Departing(c.who))
      /\ UNCHANGED <<pos, occupied, wait, dest, leaver>>
  BY Ids DEF Calls, Placings, Startings, NoCall, placeVars, waitVars
<1>2. /\ ThreadTypes' /\ PlaceTypes' /\ LifeTypes'
      /\ raced \in BOOLEAN /\ ~ raced' => ~ raced /\ ~ Departing(c.who)
  BY <1>1 DEF WorldInv, ThreadTypes, Departing, GridInv, PlaceTypes, LifeTypes
<1>3. \A x \in Characters : (InWorld(x)' <=> InWorld(x)) /\ (Standing(x)' <=> Standing(x))
  BY <1>1 DEF InWorld, Standing, InHand, NoCall
<1>4. GridInv'
  <2>1. Staff \subseteq occupied' /\ OnItsGround'
    BY <1>1, <1>3 DEF WorldInv, GridInv, OnItsGround
  <2>2. ASSUME ~ raced' PROVE MarksAgree' /\ Apart'
    <3>1. Apart /\ \A b \in Cells : b \in occupied <=> Marked(b)
      BY <1>2, <2>2, CellByCell DEF WorldInv, GridInv
    <3>2. \A b \in Cells : (b \in occupied <=> Marked(b))'
      BY <1>1, <1>3, <3>1 DEF Marked
    <3>3. Apart'
      BY <1>1, <1>3, <3>1 DEF Apart
    <3>4. QED
      BY <1>2, <3>2, <3>3, CellByCellNext
  <2>3. QED
    BY <1>2, <2>1, <2>2 DEF GridInv
<1>5. LeaverInv'
  BY <1>1, <1>2 DEF WorldInv, LeaverInv, InWorld
<1>6. BodiesArePresent' /\ WaitersArePresent'
  BY <1>1, <1>2, <1>3, Ids DEF WorldInv, BodiesArePresent, WaitersArePresent, LifeTypes, Departing
<1>7. LoopInv'
  BY <1>3 DEF WorldInv, LoopInv, DeadNpcsAreCleared
<1>8. CallInv'
  <2>1. pos[c.who] \notin Staff
    BY <1>1 DEF WorldInv, GridInv, OnItsGround
  <2>2. call'.at \in {"unmark", "insert"} /\ phase' = phase
    BY <1>1
  <2>3. ~ raced' => InWorld(c.who)' /\ ~ Departing(c.who)'
    BY <1>1, <1>2 DEF InWorld, Departing
  <2>4. QED
    BY <1>1, <1>2, <2>1, <2>2, <2>3 DEF CallInv
<1>9. QED
  BY <1>2, <1>4, <1>5, <1>6, <1>7, <1>8 DEF WorldInv

\* The cell a direction leads to is one step away.
LEMMA AheadIsOneStep ==
  ASSUME NEW c \in Cells, NEW d \in Directions
  PROVE  Walk(c, Ahead(c, d)) = 1
<1>1. c[1] \in Int /\ c[2] \in Int
  BY SizeAssumption DEF Cells
<1>2. CASE d = "UP"
  BY <1>1, <1>2 DEF Ahead, Walk, Abs
<1>3. CASE d = "DOWN"
  BY <1>1, <1>3 DEF Ahead, Walk, Abs
<1>4. CASE d = "LEFT"
  BY <1>1, <1>4 DEF Ahead, Walk, Abs
<1>5. CASE d = "RIGHT"
  BY <1>1, <1>5 DEF Ahead, Walk, Abs
<1>6. QED
  BY <1>2, <1>3, <1>4, <1>5 DEF Directions

LEMMA MoveStep == ASSUME WorldInv, NEW p \in Players, NEW d \in Directions, Move(p, d) PROVE WorldInv'
<1> DEFINE c == [op |-> "move", who |-> p, from |-> pos[p], to |-> Ahead(pos[p], d), at |-> "unmark"]
<1>1. /\ call = NoCall /\ phase = "commands" /\ InWorld(p)
      /\ CanMove(p, Ahead(pos[p], d)) /\ Calls(c)
      /\ UNCHANGED <<placeVars, dead, waitVars, spawned, loopVars>>
  BY DEF Move, Executes
<1>2. pos[p] \in Cells /\ wait[p] \in Nat
  BY <1>1, Ids DEF WorldInv, GridInv, PlaceTypes, LifeTypes, InWorld
<1>3. Ahead(pos[p], d) \in Cells \ Blocked /\ Ahead(pos[p], d) \notin occupied /\ wait[p] = 0
  BY <1>1, <1>2 DEF CanMove, Walkable, Immobile
<1>4. c \in Placings /\ c.who = p /\ c.at = "unmark" /\ c.from = pos[p] /\ c.to = Ahead(pos[p], d)
  BY <1>2, <1>3 DEF Placings
<1>5. Walk(c.from, c.to) = 1
  BY <1>2, <1>4, AheadIsOneStep
<1> HIDE DEF c
<1>6. UNCHANGED <<placeVars, waitVars, dead, spawned, phase>> /\ todo' \subseteq todo
  BY <1>1 DEF loopVars
<1>7. QED
  BY <1>1, <1>3, <1>4, <1>5, <1>6, CallBegins

LEMMA StartResurrectionStep ==
  ASSUME WorldInv, NEW p \in Players, StartResurrection(p) PROVE WorldInv'
<1>1. PICK b \in Priests, ticks \in 1..Width + Height :
          Calls([who |-> p, to |-> b, ticks |-> ticks, at |-> "insert"])
  BY DEF StartResurrection
<1> DEFINE c == [who |-> p, to |-> b, ticks |-> ticks, at |-> "insert"]
<1>2. /\ call = NoCall /\ phase = "commands" /\ InWorld(p) /\ Calls(c)
      /\ UNCHANGED <<placeVars, waitVars, dead, spawned, phase>> /\ todo' \subseteq todo
  BY <1>1 DEF StartResurrection, Executes, loopVars
<1>3. c \in Startings /\ c.who = p /\ c.at = "insert"
  BY MapAssumption DEF Startings
<1> HIDE DEF c
<1>4. QED
  BY <1>2, <1>3, CallBegins

LEMMA TeleportStep ==
  ASSUME WorldInv, NEW p \in Players, UpdateResurrection(p), Teleport(p) PROVE WorldInv'
<1>1. PICK b \in ClosestFree(dest[p]) :
          Calls([op |-> "teleport", who |-> p, from |-> pos[p], to |-> b, at |-> "unmark"])
  BY DEF Teleport
<1> DEFINE c == [op |-> "teleport", who |-> p, from |-> pos[p], to |-> b, at |-> "unmark"]
<1>2. /\ call = NoCall /\ phase = "resurrections" /\ InWorld(p) /\ wait[p] = 1 /\ Calls(c)
      /\ UNCHANGED <<placeVars, waitVars, dead, spawned, phase>> /\ todo' \subseteq todo
  BY <1>1 DEF UpdateResurrection, Teleport
<1>3. b \in Cells \ Blocked /\ b \notin occupied /\ pos[p] \in Cells
  BY <1>2, Ids DEF ClosestFree, Free, WorldInv, GridInv, PlaceTypes, InWorld
<1>4. c \in Placings /\ c.who = p /\ c.at = "unmark" /\ c.from = pos[p] /\ c.to = b
  BY <1>3 DEF Placings
<1> HIDE DEF c
<1>5. QED
  BY <1>2, <1>3, <1>4, CallBegins

-----------------------------------------------------------------------------
\* The accesses of remove_player.
LEMMA LeaveBegins == ASSUME WorldInv, NEW p \in Players, Leave(p) PROVE WorldInv'
<1>1. /\ leaver = NoOne /\ InWorld(p) /\ p \in Characters
      /\ leaver' = [who |-> p, cell |-> pos[p], at |-> "unmark"]
      /\ raced' = (raced \/ (call # NoCall /\ call.who = p))
      /\ UNCHANGED <<pos, occupied, dead, wait, dest, spawned, phase, todo, call>>
  BY Ids DEF Leave, placeVars, waitVars, loopVars
<1>2. pos[p] \in Cells \ Staff
  BY <1>1 DEF WorldInv, GridInv, PlaceTypes, OnItsGround, InWorld
<1>3. /\ leaver' \in Departures /\ leaver'.who = p /\ leaver'.cell = pos[p]
      /\ leaver'.at = "unmark" /\ leaver' # NoOne
  BY <1>1, <1>2 DEF Departures, NoOne
<1>4. /\ ThreadTypes' /\ PlaceTypes' /\ LifeTypes'
      /\ raced \in BOOLEAN /\ ~ raced' => ~ raced /\ (call # NoCall => call.who # p)
  BY <1>1, <1>3 DEF WorldInv, ThreadTypes, GridInv, PlaceTypes, LifeTypes
<1>5. \A x \in Characters : (InWorld(x)' <=> InWorld(x)) /\ (Standing(x)' <=> Standing(x))
  BY <1>1, <1>3 DEF InWorld, Standing, InHand, NoOne
<1>6. GridInv'
  BY <1>1, <1>4, <1>5 DEF WorldInv, GridInv, OnItsGround, MarksAgree, Apart
<1>7. LeaverInv'
  BY <1>1, <1>2, <1>3 DEF LeaverInv, InWorld
<1>8. BodiesArePresent' /\ LoopInv'
  BY <1>1, <1>5, Ids DEF WorldInv, BodiesArePresent, LoopInv, DeadNpcsAreCleared, LifeTypes
<1>9. WaitersArePresent'
  BY <1>1, <1>4 DEF WorldInv, WaitersArePresent, InWorld, Departing
<1>10. CallInv'
  BY <1>1, <1>3, <1>4, CallFields, Ids DEF WorldInv, CallInv, InWorld, Departing
<1>11. QED
  BY <1>4, <1>6, <1>7, <1>8, <1>9, <1>10 DEF WorldInv

LEMMA LeaverUnmarksStep == ASSUME WorldInv, LeaverUnmarks PROVE WorldInv'
<1>1. /\ leaver \in Departures /\ leaver.at = "unmark" /\ leaver # NoOne
      /\ leaver.who \in Players /\ leaver.who \in Characters
  BY LeaverFields, Ids DEF LeaverUnmarks, WorldInv
<1>2. /\ occupied' = occupied \ {leaver.cell}
      /\ leaver' = [leaver EXCEPT !.at = "erase"]
      /\ UNCHANGED <<pos, dead, wait, dest, spawned, phase, todo, call, raced>>
  BY DEF LeaverUnmarks, waitVars, loopVars
<1>3. /\ leaver' \in Departures /\ leaver'.at = "erase" /\ leaver'.who = leaver.who
      /\ leaver'.cell = leaver.cell /\ leaver' # NoOne
  BY <1>1, <1>2 DEF Departures, NoOne
<1>4. ThreadTypes' /\ LifeTypes' /\ PlaceTypes'
  BY <1>2, <1>3 DEF WorldInv, ThreadTypes, LifeTypes, GridInv, PlaceTypes
<1>5. Staff \subseteq occupied' /\ OnItsGround' /\ leaver.cell \notin Staff
  BY <1>1, <1>2 DEF WorldInv, GridInv, LeaverInv, OnItsGround, InWorld
<1>6. ASSUME ~ raced PROVE MarksAgree' /\ Apart'
  <2>1. Apart /\ \A b \in Cells : b \in occupied <=> Marked(b)
    BY <1>6, CellByCell DEF WorldInv, GridInv
  <2>2. InWorld(leaver.who) /\ pos[leaver.who] = leaver.cell
    BY <1>1, <1>6 DEF WorldInv, LeaverInv
  <2>3. call.at \in {"place", "mark"} => call.who # leaver.who
    BY <1>1, <1>6, CallFields DEF WorldInv, CallInv, Departing
  <2>4. \A y \in Characters : InHand(y)' <=> InHand(y) \/ y = leaver.who
    BY <1>1, <1>2, <1>3 DEF InHand
  <2>5. Standing(leaver.who) /\ \A y \in Characters : Standing(y)' <=> Standing(y) /\ y # leaver.who
    BY <1>1, <1>2, <2>2, <2>3, <2>4 DEF Standing, InHand, InWorld
  <2>6. \A y \in Characters : Standing(y) /\ pos[y] = leaver.cell => y = leaver.who
    BY <1>1, <2>1, <2>2, <2>5 DEF Apart
  <2>7. \A b \in Cells : (b \in occupied <=> Marked(b))'
    BY <1>2, <1>5, <2>1, <2>2, <2>5, <2>6 DEF Marked
  <2>8. Apart'
    BY <1>2, <2>1, <2>5 DEF Apart
  <2>9. QED
    BY <1>4, <2>7, <2>8, CellByCellNext
<1>7. BodiesArePresent' /\ LoopInv' /\ LeaverInv' /\ WaitersArePresent'
  BY <1>1, <1>2, <1>3 DEF WorldInv, BodiesArePresent, LoopInv, LeaverInv, WaitersArePresent, InWorld,
              DeadNpcsAreCleared, Departing
<1>8. CallInv'
  BY <1>1, <1>2, <1>3 DEF WorldInv, CallInv, InWorld, Departing
<1>9. QED
  BY <1>2, <1>4, <1>5, <1>6, <1>7, <1>8 DEF WorldInv, GridInv

LEMMA LeaverErasedStep == ASSUME WorldInv, LeaverErased PROVE WorldInv'
<1>1. /\ leaver \in Departures /\ leaver.at = "erase" /\ leaver # NoOne
      /\ leaver.who \in Players /\ leaver.who \in Characters /\ leaver.who \notin Npcs
  BY LeaverFields, Ids DEF LeaverErased, WorldInv
<1>2. /\ pos' = [pos EXCEPT ![leaver.who] = Nowhere]
      /\ dead' = dead \ {leaver.who}
      /\ leaver' = [leaver EXCEPT !.at = "cancel"]
      /\ UNCHANGED <<occupied, wait, dest, spawned, phase, todo, call, raced>>
  BY DEF LeaverErased, waitVars, loopVars
<1>3. /\ leaver' \in Departures /\ leaver'.at = "cancel" /\ leaver'.who = leaver.who
      /\ leaver'.cell = leaver.cell /\ leaver' # NoOne
  BY <1>1, <1>2 DEF Departures, NoOne
<1>4. \A y \in Characters : pos'[y] = IF y = leaver.who THEN Nowhere ELSE pos[y]
  BY <1>1, <1>2 DEF WorldInv, GridInv, PlaceTypes
<1>5. \A y \in Characters : InWorld(y)' <=> InWorld(y) /\ y # leaver.who
  BY <1>4 DEF InWorld
<1>6. PlaceTypes' /\ ThreadTypes' /\ LifeTypes'
  BY <1>1, <1>2, <1>3 DEF WorldInv, ThreadTypes, LifeTypes, GridInv, PlaceTypes
<1>7. Staff \subseteq occupied' /\ OnItsGround'
  BY <1>2, <1>4, <1>5 DEF WorldInv, GridInv, OnItsGround
<1>8. ASSUME ~ raced PROVE MarksAgree' /\ Apart'
  <2>1. Apart /\ \A b \in Cells : b \in occupied <=> Marked(b)
    BY <1>8, CellByCell DEF WorldInv, GridInv
  <2>2. InHand(leaver.who) /\ \A y \in Characters : y # leaver.who => (InHand(y)' <=> InHand(y))
    BY <1>1, <1>2, <1>3 DEF InHand
  <2>3. \A y \in Characters : (Standing(y)' <=> Standing(y)) /\ (Standing(y) => pos'[y] = pos[y])
    BY <1>4, <1>5, <2>2 DEF Standing
  <2>4. \A b \in Cells : (b \in occupied <=> Marked(b))'
    BY <1>2, <2>1, <2>3 DEF Marked
  <2>5. Apart'
    BY <2>1, <2>3 DEF Apart
  <2>6. QED
    BY <1>6, <2>4, <2>5, CellByCellNext
<1>9. BodiesArePresent' /\ WaitersArePresent'
  BY <1>1, <1>2, <1>3, <1>5, Ids
  DEF WorldInv, BodiesArePresent, WaitersArePresent, LifeTypes, Departing
<1>10. LoopInv'
  BY <1>1, <1>2, <1>5, Ids DEF WorldInv, LoopInv, DeadNpcsAreCleared
<1>11. LeaverInv'
  BY <1>1, <1>2, <1>3 DEF WorldInv, LeaverInv
<1>12. CallInv'
  <2>1. ~ raced /\ call # NoCall => call.who # leaver.who /\ call.who \in Characters
    BY <1>1, CallFields, Ids DEF WorldInv, CallInv, Departing
  <2>2. call.at \in {"unmark", "place", "mark"} => call # NoCall
    BY CallFields DEF WorldInv
  <2>3. QED
    BY <1>2, <1>3, <1>4, <1>5, <2>1, <2>2 DEF WorldInv, CallInv, Departing
<1>13. QED
  BY <1>2, <1>6, <1>7, <1>8, <1>9, <1>10, <1>11, <1>12 DEF WorldInv, GridInv

LEMMA LeaverCancelsStep == ASSUME WorldInv, LeaverCancels PROVE WorldInv'
<1>1. /\ leaver.at = "cancel" /\ leaver # NoOne
      /\ leaver.who \in Players /\ leaver.who \in Characters /\ leaver.who \notin Npcs
  BY LeaverFields, Ids DEF LeaverCancels, WorldInv
<1>2. /\ wait' = [wait EXCEPT ![leaver.who] = 0]
      /\ dest' = [dest EXCEPT ![leaver.who] = Nowhere]
      /\ todo' = todo \ {leaver.who}
      /\ leaver' = NoOne
      /\ UNCHANGED <<pos, occupied, dead, spawned, phase, call, raced>>
  BY DEF LeaverCancels, WaitAfterLeave, placeVars
<1>3. ThreadTypes' /\ LifeTypes' /\ PlaceTypes'
  BY <1>2 DEF WorldInv, ThreadTypes, LifeTypes, GridInv, PlaceTypes
<1>4. \A x \in Characters : (InWorld(x)' <=> InWorld(x)) /\ (Standing(x)' <=> Standing(x))
  BY <1>1, <1>2 DEF InWorld, Standing, InHand, NoOne
<1>5. GridInv'
  BY <1>2, <1>3, <1>4 DEF WorldInv, GridInv, OnItsGround, MarksAgree, Apart
<1>6. BodiesArePresent' /\ LoopInv'
  BY <1>1, <1>2, <1>4, Ids DEF WorldInv, BodiesArePresent, LoopInv, DeadNpcsAreCleared, LifeTypes
<1>7. WaitersArePresent'
  BY <1>1, <1>2, <1>4, Ids DEF WorldInv, WaitersArePresent, LifeTypes, Departing
<1>8. LeaverInv'
  BY <1>2 DEF LeaverInv, NoOne
<1>9. CallInv'
  <2>1. ~ raced /\ call # NoCall => call.who # leaver.who /\ call.who \in Players
    BY <1>1, CallFields DEF WorldInv, CallInv, Departing
  <2>2. call.at \in {"unmark", "place", "mark"} => call # NoCall
    BY CallFields DEF WorldInv
  <2>3. ~ raced /\ call # NoCall => wait'[call.who] = wait[call.who]
    BY <1>2, <2>1 DEF WorldInv, LifeTypes
  <2>4. QED
    BY <1>2, <2>1, <2>2, <2>3 DEF WorldInv, CallInv, Departing, InWorld
<1>10. QED
  BY <1>3, <1>5, <1>6, <1>7, <1>8, <1>9 DEF WorldInv

-----------------------------------------------------------------------------
\* Commands that change only who is dead.
LEMMA DeathStep ==
  ASSUME WorldInv, UNCHANGED <<placeVars, waitVars, spawned, loopVars, threadVars>>,
         phase = "commands", dead' \in SUBSET Characters, \A x \in dead' : InWorld(x)
  PROVE  WorldInv'
<1>1. UNCHANGED <<pos, occupied, wait, dest, spawned, phase, todo, call, leaver, raced>>
  BY DEF placeVars, waitVars, loopVars, threadVars
<1>2. /\ GridInv' /\ ThreadTypes' /\ LeaverInv'
      /\ \A x \in Characters : InWorld(x)' <=> InWorld(x)
  BY QuietStep
<1>3. LifeTypes' /\ BodiesArePresent' /\ WaitersArePresent'
  BY <1>1, <1>2, Ids DEF WorldInv, LifeTypes, BodiesArePresent, WaitersArePresent, InWorld, Departing
<1>4. LoopInv'
  BY <1>1 DEF WorldInv, LoopInv, DeadNpcsAreCleared
<1>5. CallInv'
  BY <1>1 DEF WorldInv, CallInv, InWorld, Departing
<1>6. QED
  BY <1>2, <1>3, <1>4, <1>5 DEF WorldInv

\* Steps of the game loop that are in no call, once the grid is known to be kept.
LEMMA LoopStep ==
  ASSUME WorldInv, call = NoCall, UNCHANGED <<call, leaver>>, GridInv', LifeTypes', BodiesArePresent',
         LoopInv', WaitersArePresent', raced' \in BOOLEAN, ~ raced' => ~ raced,
         \A p \in Players : InWorld(p) => (InWorld(p)' /\ (~ raced' => pos'[p] = pos[p]))
  PROVE  WorldInv'
<1>1. ThreadTypes' /\ CallInv'
  BY DEF WorldInv, ThreadTypes, CallInv, NoCall
<1>2. LeaverInv'
  BY LeaverFields DEF WorldInv, LeaverInv
<1>3. QED
  BY <1>1, <1>2 DEF WorldInv

LEMMA EnterStep == ASSUME WorldInv, NEW p \in Players, NEW c \in Cells, Enter(p, c) PROVE WorldInv'
<1>1. /\ call = NoCall /\ phase = "commands" /\ ~ InWorld(p) /\ c \in Free /\ Add(p, c)
      /\ raced' = (raced \/ Departing(p))
      /\ UNCHANGED <<dead, wait, dest, spawned, phase, todo, call, leaver>>
      /\ raced \in BOOLEAN
  BY DEF Enter, Executes, waitVars, loopVars, WorldInv, ThreadTypes
<1>2. raced' \in BOOLEAN /\ ~ raced' => ~ raced
  BY <1>1 DEF Departing
<1>3. /\ GridInv' /\ InWorld(p)'
      /\ \A x \in Characters \ {p} : InWorld(x)' <=> InWorld(x)
  BY <1>1, <1>2, Ids, AddStep
<1>4. LifeTypes' /\ BodiesArePresent' /\ WaitersArePresent'
  BY <1>1, <1>2, <1>3, Ids DEF WorldInv, LifeTypes, BodiesArePresent, WaitersArePresent, Departing
<1>5. LoopInv'
  BY <1>1, <1>3, Ids DEF WorldInv, LoopInv, DeadNpcsAreCleared
<1>6. \A q \in Players : InWorld(q) => pos'[q] = pos[q]
  BY <1>1, Ids DEF Add, WorldInv, GridInv, PlaceTypes
<1>7. QED
  BY <1>1, <1>2, <1>3, <1>4, <1>5, <1>6, Ids, LoopStep

LEMMA PhaseStep == ASSUME WorldInv, EndCommands \/ EndResurrections \/ EndNpcs PROVE WorldInv'
<1>1. /\ phase \in {"npcs", "spawning"} => call = NoCall
      /\ UNCHANGED placeVars /\ UNCHANGED threadVars
      /\ UNCHANGED <<dead, wait, dest, spawned, call, leaver, raced, pos>>
  BY DEF WorldInv, CallInv, EndCommands, EndResurrections, EndNpcs, waitVars, placeVars, threadVars
<1>2. call = NoCall
  BY <1>1 DEF EndCommands, EndResurrections, EndNpcs, Executes
<1>3. /\ GridInv' /\ ThreadTypes' /\ LeaverInv'
      /\ \A x \in Characters : InWorld(x)' <=> InWorld(x)
      /\ \A x \in Players : Departing(x)' <=> Departing(x)
  BY <1>1, QuietStep
<1>4. LifeTypes' /\ BodiesArePresent' /\ WaitersArePresent'
  BY <1>1, <1>3, Ids DEF WorldInv, LifeTypes, BodiesArePresent, WaitersArePresent
<1>5. LoopInv'
  BY <1>1, <1>3, <1>4, Ids
  DEF WorldInv, LoopInv, DeadNpcsAreCleared, EndCommands, EndResurrections, EndNpcs, VisitedNpcs,
      BodiesArePresent, LifeTypes
<1>6. CallInv'
  BY <1>1, <1>2 DEF CallInv, NoCall
<1>7. QED
  BY <1>3, <1>4, <1>5, <1>6 DEF WorldInv

LEMMA ResurrectionStep == ASSUME WorldInv, NEW p \in Players, UpdateResurrection(p) PROVE WorldInv'
<1>1. CASE Teleport(p)
  BY <1>1, TeleportStep
<1>2. CASE CountDown(p) \/ GiveUp(p)
  <2>1. /\ call = NoCall /\ phase = "resurrections" /\ todo' = todo \ {p}
        /\ UNCHANGED <<dead, spawned, phase, call, leaver, raced, pos>>
        /\ UNCHANGED placeVars /\ UNCHANGED threadVars
    BY <1>2 DEF UpdateResurrection, CountDown, GiveUp, placeVars, threadVars
  <2>2. LifeTypes' /\ \A q \in Players : wait'[q] > 0 => wait[q] > 0
    BY <1>2, <2>1 DEF WorldInv, LifeTypes, CountDown, GiveUp
  <2>3. /\ GridInv' /\ ThreadTypes' /\ LeaverInv'
        /\ \A x \in Characters : InWorld(x)' <=> InWorld(x)
        /\ \A x \in Players : Departing(x)' <=> Departing(x)
    BY <2>1, QuietStep
  <2>4. BodiesArePresent' /\ WaitersArePresent'
    BY <2>1, <2>2, <2>3, Ids DEF WorldInv, LifeTypes, BodiesArePresent, WaitersArePresent
  <2>5. LoopInv'
    BY <2>1 DEF WorldInv, LoopInv, DeadNpcsAreCleared
  <2>6. CallInv'
    BY <2>1 DEF CallInv, NoCall
  <2>7. QED
    BY <2>2, <2>3, <2>4, <2>5, <2>6 DEF WorldInv
<1>3. QED
  BY <1>1, <1>2 DEF UpdateResurrection

LEMMA NpcStep == ASSUME WorldInv, NEW n \in Npcs, UpdateNpc(n) PROVE WorldInv'
<1>1. /\ phase = "npcs" /\ n \in todo /\ InWorld(n) /\ n \in Characters
      /\ todo' = todo \ {n}
      /\ UNCHANGED <<wait, dest, spawned, phase, call, leaver, raced>>
      /\ UNCHANGED threadVars
      /\ raced \in BOOLEAN /\ call = NoCall
  BY Ids DEF UpdateNpc, IsNext, WorldInv, LoopInv, CallInv, ThreadTypes, waitVars, threadVars
<1>2. CASE n \in dead /\ Remove(n)
  <2>1. /\ GridInv' /\ ~ InWorld(n)'
        /\ \A x \in Characters \ {n} : InWorld(x)' <=> InWorld(x)
    BY <1>1, <1>2, RemoveStep
  <2>2. dead' = dead \ {n} /\ \A q \in Players : pos'[q] = pos[q]
    BY <1>2, Ids DEF Remove, WorldInv, GridInv, PlaceTypes
  <2>3. LifeTypes' /\ BodiesArePresent' /\ WaitersArePresent'
    BY <1>1, <2>1, <2>2, Ids DEF WorldInv, LifeTypes, BodiesArePresent, WaitersArePresent, Departing
  <2>4. LoopInv'
    BY <1>1, <2>1, <2>2, Ids DEF WorldInv, LoopInv, DeadNpcsAreCleared
  <2>5. QED
    BY <1>1, <2>1, <2>2, <2>3, <2>4, Ids, LoopStep
<1>3. CASE /\ n \notin dead
           /\ \/ UNCHANGED <<placeVars, dead>>
              \/ \E p \in Players : IsPrey(n, p) /\ (Chase(n, p) \/ Strike(n, p))
  <2>1. /\ GridInv'
        /\ \A x \in Characters : InWorld(x)' <=> InWorld(x)
        /\ \A q \in Players : pos'[q] = pos[q]
        /\ dead' = dead \/ \E p \in Players : InWorld(p) /\ dead' = dead \cup {p}
    <3>1. CASE UNCHANGED <<placeVars, dead>>
      BY <1>1, <3>1, QuietStep DEF placeVars
    <3>2. ASSUME NEW p \in Players, Chase(n, p)
          PROVE  /\ GridInv' /\ dead' = dead /\ \A x \in Characters : InWorld(x)' <=> InWorld(x)
                 /\ \A q \in Players : pos'[q] = pos[q]
      <4>1. PICK c \in Cells \ Blocked : c \notin occupied /\ CanEnter(n, c) /\ Relocate(n, c)
        BY <3>2 DEF Chase, CanMove, Walkable
      <4>2. GridInv' /\ \A x \in Characters : InWorld(x)' <=> InWorld(x)
        BY <1>1, <4>1, RelocateStep
      <4>3. QED
        BY <3>2, <4>1, <4>2, Ids DEF Chase, Relocate, WorldInv, GridInv, PlaceTypes
    <3>3. ASSUME NEW p \in Players, IsPrey(n, p), Strike(n, p)
          PROVE  /\ GridInv' /\ dead' = dead \cup {p} /\ InWorld(p)
                 /\ \A x \in Characters : InWorld(x)' <=> InWorld(x)
                 /\ \A q \in Players : pos'[q] = pos[q]
      BY <1>1, <3>3, QuietStep DEF Strike, IsPrey, Near, Living, placeVars
    <3>4. QED
      BY <1>3, <3>1, <3>2, <3>3
  <2>2. LifeTypes' /\ BodiesArePresent' /\ WaitersArePresent'
    BY <1>1, <2>1, Ids DEF WorldInv, LifeTypes, BodiesArePresent, WaitersArePresent, Departing
  <2>3. LoopInv'
    BY <1>1, <1>3, <2>1, Ids DEF WorldInv, LoopInv, DeadNpcsAreCleared
  <2>4. QED
    BY <1>1, <2>1, <2>2, <2>3, Ids, LoopStep
<1>4. QED
  BY <1>2, <1>3 DEF UpdateNpc

LEMMA SpawningStep == ASSUME WorldInv, UpdateSpawning PROVE WorldInv'
<1>1. /\ phase = "spawning" /\ phase' = "commands" /\ call = NoCall
      /\ UNCHANGED <<dead, wait, dest, todo, call, leaver, raced>> /\ UNCHANGED threadVars
      /\ raced \in BOOLEAN
  BY DEF UpdateSpawning, waitVars, threadVars, WorldInv, CallInv, ThreadTypes
<1>2. LoopInv'
  BY <1>1 DEF WorldInv, LoopInv, DeadNpcsAreCleared
<1>3. CASE UNCHANGED <<placeVars, spawned>>
  <2>1. /\ GridInv' /\ \A x \in Characters : InWorld(x)' <=> InWorld(x)
        /\ UNCHANGED <<pos, spawned>>
    BY <1>1, <1>3, QuietStep DEF placeVars
  <2>2. LifeTypes' /\ BodiesArePresent' /\ WaitersArePresent'
    BY <1>1, <2>1, Ids DEF WorldInv, LifeTypes, BodiesArePresent, WaitersArePresent, Departing
  <2>3. QED
    BY <1>1, <1>2, <2>1, <2>2, Ids, LoopStep
<1>4. ASSUME NEW n \in Npcs \ spawned, NEW c \in (Haunts[n] \ City) \cap Free, Add(n, c),
             spawned' = spawned \cup {n}
      PROVE  WorldInv'
  <2>1. /\ GridInv' /\ InWorld(n)'
        /\ \A x \in Characters \ {n} : InWorld(x)' <=> InWorld(x)
    BY <1>1, <1>4, Ids, AddStep DEF WorldInv, BodiesArePresent
  <2>2. LifeTypes' /\ BodiesArePresent' /\ WaitersArePresent'
    BY <1>1, <1>4, <2>1, Ids DEF WorldInv, LifeTypes, BodiesArePresent, WaitersArePresent, Departing
  <2>3. \A q \in Players : pos'[q] = pos[q]
    BY <1>4, Ids DEF Add, WorldInv, GridInv, PlaceTypes
  <2>4. QED
    BY <1>1, <1>2, <2>1, <2>2, <2>3, Ids, LoopStep
<1>5. QED
  BY <1>3, <1>4 DEF UpdateSpawning, Spawn

-----------------------------------------------------------------------------
\* The inductive step, one case per action.
LEMMA WorldStep == WorldInv /\ [Next]_vars => WorldInv'
<1> SUFFICES ASSUME WorldInv, [Next]_vars PROVE WorldInv'
  OBVIOUS
<1>1. CASE UNCHANGED vars
  <2>1. UNCHANGED <<pos, occupied, dead, wait, dest, spawned, phase, todo, call, leaver, raced>>
    BY <1>1 DEF vars, placeVars, waitVars, loopVars, threadVars
  <2>2. /\ GridInv' /\ ThreadTypes' /\ LeaverInv'
        /\ \A x \in Characters : InWorld(x)' <=> InWorld(x)
    BY <2>1, QuietStep DEF placeVars, threadVars
  <2>3. /\ LifeTypes' /\ BodiesArePresent' /\ WaitersArePresent'
        /\ LoopInv' /\ CallInv'
    BY <2>1 DEF WorldInv, LifeTypes, BodiesArePresent, WaitersArePresent, LoopInv,
                DeadNpcsAreCleared, CallInv, InWorld, Departing
  <2>4. QED
    BY <2>2, <2>3 DEF WorldInv
<1>2. CASE CallStep
  BY <1>2, UnmarkStep, PlaceStep, MarkStep, ReviveStep, InsertStep DEF CallStep
<1>3. CASE LeaveStep
  BY <1>3, LeaverUnmarksStep, LeaverErasedStep, LeaverCancelsStep DEF LeaveStep
<1>4. ASSUME NEW p \in Players, Leave(p) PROVE WorldInv'
  BY <1>4, LeaveBegins
<1>5. ASSUME NEW p \in Players, Command(p) PROVE WorldInv'
  <2>1. ASSUME NEW c \in Cells, Enter(p, c) PROVE WorldInv'
    BY <2>1, EnterStep
  <2>2. ASSUME NEW d \in Directions, Move(p, d) PROVE WorldInv'
    BY <2>2, MoveStep
  <2>3. CASE StartResurrection(p)
    BY <2>3, StartResurrectionStep
  <2>4. CASE Die(p)
    <3>1. /\ UNCHANGED <<placeVars, waitVars, spawned, loopVars, threadVars>> /\ phase = "commands"
          /\ dead' = dead \cup {p} /\ InWorld(p) /\ p \in Characters
      BY <2>4, Ids DEF Die, Executes, Living
    <3>2. QED
      BY <3>1, DeathStep DEF WorldInv, LifeTypes, BodiesArePresent
  <2>5. ASSUME NEW x \in Characters, Attack(p, x) PROVE WorldInv'
    <3>1. /\ UNCHANGED <<placeVars, waitVars, spawned, loopVars, threadVars>> /\ phase = "commands"
          /\ dead' = dead \cup {x} /\ InWorld(x)
      BY <2>5 DEF Attack, Executes, Living
    <3>2. QED
      BY <3>1, DeathStep DEF WorldInv, LifeTypes, BodiesArePresent
  <2>6. CASE PriestResurrects(p)
    <3>1. /\ UNCHANGED <<placeVars, waitVars, spawned, loopVars, threadVars>> /\ phase = "commands"
          /\ dead' = dead \ {p}
      BY <2>6 DEF PriestResurrects, Executes, Revived
    <3>2. QED
      BY <3>1, DeathStep DEF WorldInv, LifeTypes, BodiesArePresent
  <2>7. QED
    BY <1>5, <2>1, <2>2, <2>3, <2>4, <2>5, <2>6
    DEF Command, Select, Restore, SpawnCells, Scanned
<1>6. CASE Update
  BY <1>6, PhaseStep, SpawningStep, ResurrectionStep, NpcStep DEF Update
<1>7. QED
  BY <1>1, <1>2, <1>3, <1>4, <1>5, <1>6 DEF Next

\* The constructor establishes the invariant.
LEMMA WorldInit == Init => WorldInv
<1> SUFFICES ASSUME Init PROVE WorldInv
  OBVIOUS
<1>1. /\ pos \in [Characters -> Cells \cup {Nowhere}]
      /\ \A p \in Players : ~ InWorld(p)
      /\ spawned \in SUBSET Npcs
      /\ \A n \in Npcs \ spawned : ~ InWorld(n)
      /\ \A n \in spawned : pos[n] \in Haunts[n] \ (City \cup Blocked)
      /\ call = NoCall /\ leaver = NoOne /\ raced = FALSE
  BY DEF Init, InWorld
<1>2. \A n \in spawned : pos[n] \in Cells /\ InWorld(n)
  BY <1>1, MapAssumption, NowhereAssumption DEF InWorld
<1>3. \A x \in Characters : (InWorld(x) <=> x \in spawned) /\ (Standing(x) <=> x \in spawned)
  BY <1>1, <1>2 DEF Characters, Standing, InHand, NoCall, NoOne
<1>4. PlaceTypes
  BY <1>1, <1>2, MapAssumption DEF PlaceTypes, Init
<1>5. MarksAgree
  <2>1. spawned = {y \in Characters : Standing(y)}
    BY <1>1, <1>3 DEF Characters
  <2>2. QED
    BY <2>1 DEF Init, MarksAgree
<1>6. Apart
  BY <1>3 DEF Apart, Init
<1>7. Staff \subseteq occupied /\ OnItsGround
  BY <1>1, <1>3, MapAssumption DEF OnItsGround, Init
<1>8. LifeTypes /\ WaitersArePresent /\ BodiesArePresent /\ LoopInv
  BY <1>1 DEF Init, LifeTypes, WaitersArePresent, BodiesArePresent, LoopInv, DeadNpcsAreCleared
<1>9. ThreadTypes /\ CallInv /\ LeaverInv
  BY <1>1 DEF ThreadTypes, CallInv, LeaverInv, NoCall, NoOne
<1>10. QED
  BY <1>4, <1>5, <1>6, <1>7, <1>8, <1>9 DEF WorldInv, GridInv

\* The invariant of the World holds in every reachable state.
THEOREM WorldCorrect == Spec => []WorldInv
BY WorldInit, WorldStep, PTL DEF Spec

\* Every variable keeps its type.
THEOREM TypeCorrect == Spec => []TypeOK
<1>1. WorldInv => TypeOK
  BY Ids DEF WorldInv, GridInv, PlaceTypes, LifeTypes, ThreadTypes, LoopInv, TypeOK
<1>2. QED
  BY <1>1, WorldCorrect, PTL

\* Whatever the map, and however the accesses of a departure fall between those of a
\* move, a teleport or a resurrection of somebody else: the marks are those of the
\* characters that stand and of the staff, and only the cell of somebody on its way
\* out may be shared.  Nothing is said once a departure has overlapped a call on the
\* very player that leaves.
THEOREM OccupiedCorrect == Spec => []OccupiedExact
<1>1. WorldInv => OccupiedExact
  <2> SUFFICES ASSUME WorldInv, ~ raced PROVE OccupiedExact
    BY DEF OccupiedExact
  <2>1. MarksAgree /\ Apart /\ \A b \in Cells : b \in occupied <=> Marked(b)
    BY CellByCell DEF WorldInv, GridInv
  <2>2. ASSUME NEW x \in Characters, NEW y \in Characters, InWorld(x), pos[x] = pos[y],
               ~ Departing(x), ~ Departing(y)
        PROVE  x = y
    <3>1. InWorld(y) /\ pos[x] \in Cells
      BY <2>2 DEF InWorld, WorldInv, GridInv, PlaceTypes
    <3>2. \A z \in {x, y} : Standing(z) \/ (call.at \in {"place", "mark"} /\ call.who = z)
      BY <2>2, <3>1, LeaverFields DEF Standing, InHand, Departing, WorldInv
    <3>3. call.at \in {"place", "mark"} => pos[call.who] \notin occupied
      BY CallFields DEF WorldInv, CallInv
    <3>4. \A z \in Characters : Standing(z) => pos[z] \in occupied
      BY <2>1 DEF Marked, WorldInv, GridInv, PlaceTypes, Standing, InWorld
    <3>5. QED
      BY <2>1, <2>2, <3>2, <3>3, <3>4 DEF Apart
  <2>3. QED
    BY <2>1, <2>2 DEF OccupiedExact, MarksAgree
<1>2. QED
  BY <1>1, WorldCorrect, PTL

\* Nobody ever stands in a wall or on the staff, and no hostile NPC in a city,
\* whatever the departures overlap.
THEOREM GroundCorrect == Spec => []OnItsGround
<1>1. WorldInv => OnItsGround
  BY DEF WorldInv, GridInv
<1>2. QED
  BY <1>1, WorldCorrect, PTL

\* No resurrection stays pending for a player that has left, if its departure has
\* overlapped no call on it.
THEOREM WaitersCorrect == Spec => []WaitersArePresent
<1>1. WorldInv => WaitersArePresent
  BY DEF WorldInv
<1>2. QED
  BY <1>1, WorldCorrect, PTL

\* The NPCs killed in a tick are gone when the spawning of the tick begins.
THEOREM DeadNpcsCorrect == Spec => []DeadNpcsAreCleared
<1>1. WorldInv => DeadNpcsAreCleared
  BY DEF WorldInv, LoopInv
<1>2. QED
  BY <1>1, WorldCorrect, PTL

\* What NoOtherJumps says of one step and one player.
StepOrWait(p) ==
    ~ raced /\ pos[p] # Nowhere /\ pos'[p] \notin {pos[p], Nowhere} =>
        \/ wait[p] = 0 /\ Walk(pos[p], pos'[p]) = 1
        \/ wait[p] = 1 /\ phase = "resurrections"

\* A player changes cell only by a step while nothing is pending, or by the end of
\* its resurrection, if its departure has overlapped no call on it.
THEOREM JumpsCorrect == Spec => NoOtherJumps
<1>1. ASSUME WorldInv, Next, NEW p \in Players
      PROVE  StepOrWait(p)
  <2>1. /\ pos \in [Characters -> Cells \cup {Nowhere}] /\ p \in Characters /\ p \notin Npcs
    BY <1>1, Ids DEF WorldInv, GridInv, PlaceTypes
  <2>2. CASE pos'[p] = pos[p] \/ pos[p] = Nowhere
    BY <2>2 DEF StepOrWait
  <2>3. ASSUME NEW q \in Players, NEW c \in Cells, Enter(q, c) PROVE StepOrWait(p)
    BY <2>1, <2>3 DEF Enter, Add, InWorld, StepOrWait
  <2>4. CASE LeaverErased
    BY <2>1, <2>4 DEF LeaverErased, StepOrWait
  <2>5. CASE Place
    <3>1. CASE raced
      BY <3>1 DEF StepOrWait
    <3>2. CASE ~ raced
      <4>1. /\ call # NoCall /\ call.at = "place" /\ call.who \in Characters
            /\ InWorld(call.who) /\ pos[call.who] = call.from
            /\ \/ wait[call.who] = 0 /\ Walk(call.from, call.to) = 1
               \/ wait[call.who] = 1 /\ phase = "resurrections"
            /\ pos' = [pos EXCEPT ![call.who] = call.to]
        BY <1>1, <2>5, <3>2, CallFields, Ids DEF Place, WorldInv, CallInv
      <4>2. CASE call.who = p
        BY <2>1, <4>1, <4>2 DEF StepOrWait
      <4>3. CASE call.who # p
        BY <2>1, <4>1, <4>3 DEF StepOrWait
      <4>4. QED
        BY <4>2, <4>3
    <3>3. QED
      BY <3>1, <3>2
  <2>6. ASSUME NEW n \in Npcs, UpdateNpc(n) PROVE StepOrWait(p)
    BY <2>1, <2>2, <2>6, Ids DEF UpdateNpc, Remove, Chase, Relocate, Strike, placeVars
  <2>7. CASE UpdateSpawning
    BY <2>1, <2>2, <2>7, Ids DEF UpdateSpawning, Spawn, Add, placeVars
  <2>8. CASE UNCHANGED pos
    BY <2>2, <2>8
  <2>9. ASSUME NEW q \in Players, Command(q) PROVE StepOrWait(p)
    BY <2>3, <2>8, <2>9
    DEF Command, Select, Restore, SpawnCells, Scanned, Move, Die, StartResurrection,
        PriestResurrects, Attack, placeVars
  <2>10. CASE CallStep \/ LeaveStep
    BY <2>4, <2>5, <2>8, <2>10
    DEF CallStep, Unmark, Mark, Revive, Insert, LeaveStep, LeaverUnmarks, LeaverCancels, placeVars
  <2>11. CASE Update
    BY <2>6, <2>7, <2>8, <2>11
    DEF Update, EndCommands, EndResurrections, EndNpcs, UpdateResurrection, placeVars
  <2>12. ASSUME NEW q \in Players, Leave(q) PROVE StepOrWait(p)
    BY <2>8, <2>12 DEF Leave, placeVars
  <2>13. QED
    BY <1>1, <2>9, <2>10, <2>11, <2>12 DEF Next
<1>2. WorldInv /\ [Next]_vars => [\A p \in Players : StepOrWait(p)]_vars
  BY <1>1
<1>3. [\A p \in Players : StepOrWait(p)]_vars <=>
        [\A p \in Players :
          ~ raced /\ pos[p] # Nowhere /\ pos'[p] \notin {pos[p], Nowhere} =>
             \/ wait[p] = 0 /\ Walk(pos[p], pos'[p]) = 1
             \/ wait[p] = 1 /\ phase = "resurrections"]_vars
  BY DEF StepOrWait
<1>4. QED
  BY <1>2, <1>3, WorldCorrect, PTL DEF Spec, NoOtherJumps

\* Grid, ground, waiting and dead together.
THEOREM ConsistentCorrect == Spec => []WorldIsConsistent
BY OccupiedCorrect, GroundCorrect, WaitersCorrect, DeadNpcsCorrect, PTL DEF WorldIsConsistent
=============================================================================
