-------------------------------- MODULE World --------------------------------
(***************************************************************************)
(* Who stands where in one World (server/world/world.cpp): players,        *)
(* hostile NPCs and the staff of the cities on a grid of cells, the matrix *)
(* "occupied" kept beside the positions, death, the resurrections that are *)
(* waited for, and the order in which World::update does its work between  *)
(* the commands of two ticks.                                              *)
(*                                                                         *)
(* Two threads act: the game loop with its commands and its updates, and   *)
(* the receiver of a player that leaves, in remove_player.  They share no  *)
(* lock, so the calls that place a player or start its resurrection and    *)
(* remove_player are taken access by access: "call" and "leaver" are what  *)
(* each of the two is in the middle of.  (There is one leaver at a time:   *)
(* leave_match holds matches_mutex.)  The other operations are one action: *)
(* remove_player only clears a mark and takes a player away, and what it   *)
(* does during one of them it may as well do before or after.  A Player    *)
(* that is used after its destruction takes no effect here, and a search   *)
(* for a free cell sees one instant of the matrix.                         *)
(*                                                                         *)
(* Hit points, levels, weapons, clans, evasion and the cooldown of NPCs    *)
(* are left out: an attack that is allowed may kill or not.                *)
(* ...Bug: a mutated form of the definition that follows it.               *)
(***************************************************************************)
EXTENDS Integers, FiniteSets

CONSTANTS
    Players, Npcs,      \* ids; those of NPCs are given in increasing order
    Width, Height,
    Blocked,            \* cells with a blocking terrain
    City,               \* cells of the safe zones
    Priests,            \* the priests' cells, one per city
    Staff,              \* the cells of priests, merchants and bankers
    Haunts,             \* the cells whose zone type each NPC's template allows
    BaseSpawn,          \* GameConfig's spawn position
    AttackRange, PopulationLimit,
    Nowhere             \* not in this World

Cells == (0..Width - 1) \X (0..Height - 1)
Characters == Players \cup Npcs

\* 1000 logins would reach the first NPC id.
ASSUME IdsAssumption ==
    Players \subseteq Nat /\ Npcs \subseteq Nat /\ Players \cap Npcs = {}
ASSUME SizeAssumption == Width \in Nat \ {0} /\ Height \in Nat \ {0}
ASSUME NowhereAssumption == Nowhere \notin Cells
ASSUME MapAssumption ==
    /\ Blocked \in SUBSET Cells
    /\ City \in SUBSET Cells
    /\ Staff \in SUBSET (City \ Blocked)
    /\ Priests \in SUBSET Staff
    /\ Haunts \in [Npcs -> SUBSET Cells]

VARIABLES
    pos,       \* the cell of each character
    occupied,  \* World::occupied
    dead,
    wait,      \* pending_resurrections: ticks left (0: not pending), and where
    dest,      \*   to
    spawned,   \* ids of NPCs given so far
    phase,     \* what the game loop does: "commands", "resurrections", "npcs"
               \* or "spawning"
    todo,      \* the ids its loop has still to visit
    call,      \* the call on a player that the game loop is in, or NoCall
    leaver,    \* the call of remove_player that a receiver is in, or NoOne
    raced      \* (of the history, read by no action) a departure and a call on
               \*   the same player have overlapped

placeVars == <<pos, occupied>>
waitVars == <<wait, dest>>
loopVars == <<phase, todo>>
threadVars == <<call, leaver, raced>>
vars == <<placeVars, dead, waitVars, spawned, loopVars, threadVars>>

\* What a call has read, and the access that it makes next.
NoCall == [at |-> "none"]
Placings == [op : {"move", "teleport"}, who : Players, from : Cells, to : Cells,
             at : {"unmark", "place", "mark", "revive"}]
Startings == [who : Players, to : Cells, ticks : 1..Width + Height, at : {"insert"}]

NoOne == [at |-> "none"]
Departures == [who : Players, cell : Cells, at : {"unmark", "erase", "cancel"}]

InWorld(x) == pos[x] # Nowhere
Living(x) == InWorld(x) /\ x \notin dead
HostilesAlive == {n \in Npcs : Living(n)}

-----------------------------------------------------------------------------
\* Geometry.

Abs(i) == IF i < 0 THEN -i ELSE i
Squared(a, b) == (a[1] - b[1]) * (a[1] - b[1]) + (a[2] - b[2]) * (a[2] - b[2])
Walk(a, b) == Abs(a[1] - b[1]) + Abs(a[2] - b[2])
Adjacent(a, b) == Abs(a[1] - b[1]) <= 1 /\ Abs(a[2] - b[2]) <= 1

Directions == {"UP", "DOWN", "LEFT", "RIGHT"}
Ahead(c, d) == CASE d = "UP"    -> <<c[1], c[2] - 1>>
                 [] d = "DOWN"  -> <<c[1], c[2] + 1>>
                 [] d = "LEFT"  -> <<c[1] - 1, c[2]>>
                 [] d = "RIGHT" -> <<c[1] + 1, c[2]>>

\* npc_move_towards: along the longer difference.
Towards(a, b) ==
    IF Abs(b[1] - a[1]) >= Abs(b[2] - a[2])
      THEN IF b[1] > a[1] THEN "RIGHT" ELSE "LEFT"
      ELSE IF b[2] > a[2] THEN "DOWN" ELSE "UP"

\* The wait is proportional to the distance: here one tick per cell, rounded up.
WaitFor(a, b, ticks) ==
    /\ ticks \in 1..Width + Height
    /\ Squared(a, b) <= ticks * ticks
    /\ ticks > 1 => (ticks - 1) * (ticks - 1) < Squared(a, b)

Free == {c \in Cells \ Blocked : c \notin occupied}

\* find_closest_position's breadth-first search does not stop at walls, so it
\* finds a free cell of least walking distance (here: any of them).
ClosestFree(c) == {f \in Free : \A g \in Free : Walk(c, f) <= Walk(c, g)}

\* get_spawn_position scans row by row from the base to the end of the map, then
\* the rows above the base (so never the cells left of the base in its row).
ScanOrder(c) == c[2] * Width + c[1] + (IF c[2] < BaseSpawn[2] THEN Width * Height ELSE 0)
Scanned == {c \in Cells : c[2] = BaseSpawn[2] => c[1] >= BaseSpawn[1]}
SpawnCells ==
    {c \in Scanned \cap Free : \A b \in Scanned \cap Free : ScanOrder(c) <= ScanOrder(b)}

-----------------------------------------------------------------------------
\* The steps from which the operations are made.

Relocate(x, c) ==
    /\ pos' = [pos EXCEPT ![x] = c]
    /\ occupied' = (occupied \ {pos[x]}) \cup {c}

Add(x, c) ==
    /\ pos' = [pos EXCEPT ![x] = c]
    /\ occupied' = occupied \cup {c}

Remove(x) ==
    /\ pos' = [pos EXCEPT ![x] = Nowhere]
    /\ occupied' = occupied \ {pos[x]}
    /\ dead' = dead \ {x}

\* can_enter_safe_zones and can_enter_zone_type.
CanEnter(x, c) == x \in Npcs => c \in Haunts[x] \ City

ImmobileBug(x) == FALSE
Immobile(x) == x \in Players /\ wait[x] > 0

WalkableBug(c) == c \notin Blocked
Walkable(c) == c \in Cells \ Blocked

CanMove(x, c) ==
    ~ Immobile(x) /\ Walkable(c) /\ CanEnter(x, c) /\ c \notin occupied

\* The game loop is between two commands.
Executes == phase = "commands" /\ call = NoCall

\* It enters a call on a player, which may be on its way out.
Departing(p) == leaver # NoOne /\ leaver.who = p
Calls(c) ==
    /\ call' = c
    /\ raced' = (raced \/ Departing(c.who))
    /\ UNCHANGED leaver

\* Player::resurrect.
RevivedBug(p) == dead
Revived(p) == dead \ {p}

-----------------------------------------------------------------------------
\* The constructor: the staff, and as many hostile NPCs as found a place.
Init ==
    /\ spawned \in {{n \in Npcs : n < k} : k \in Npcs \cup {m + 1 : m \in Npcs}}
    /\ Cardinality(spawned) <= PopulationLimit
    /\ pos \in [Characters -> Cells \cup {Nowhere}]
    /\ \A p \in Players : pos[p] = Nowhere
    /\ \A n \in Npcs : IF n \in spawned THEN pos[n] \in Haunts[n] \ (City \cup Blocked)
                                        ELSE pos[n] = Nowhere
    /\ \A m, n \in spawned : pos[m] = pos[n] => m = n
    /\ occupied = Staff \cup {pos[n] : n \in spawned}
    /\ dead = {}
    /\ wait = [p \in Players |-> 0]
    /\ dest = [p \in Players |-> Nowhere]
    /\ phase = "commands" /\ todo = {}
    /\ call = NoCall /\ leaver = NoOne /\ raced = FALSE

-----------------------------------------------------------------------------
\* Commands.

\* SelectRaceClassCommand; RestorePlayerCommand at the cell that was saved.
Enter(p, c) ==
    /\ Executes
    /\ ~ InWorld(p)
    /\ c \in Free
    /\ Add(p, c)
    /\ raced' = (raced \/ Departing(p))
    /\ UNCHANGED <<dead, waitVars, spawned, loopVars, call, leaver>>

Select(p) == \E c \in SpawnCells : Enter(p, c)
Restore(p) == \E c \in Cells : Enter(p, c)

\* move_character: the tests, then the accesses below.
Move(p, d) ==
    /\ Executes
    /\ InWorld(p)
    /\ CanMove(p, Ahead(pos[p], d))
    /\ Calls([op |-> "move", who |-> p, from |-> pos[p], to |-> Ahead(pos[p], d),
              at |-> "unmark"])
    /\ UNCHANGED <<placeVars, dead, waitVars, spawned, loopVars>>

\* World::attack, if it kills: the attacked need not be near (ranged weapons).
Attack(p, x) ==
    /\ Executes
    /\ Living(p) /\ Living(x) /\ p # x
    /\ pos[p] \notin City /\ pos[x] \notin City
    /\ dead' = dead \cup {x}
    /\ UNCHANGED <<placeVars, waitVars, spawned, loopVars, threadVars>>

\* apply_cheat(DIE).
Die(p) ==
    /\ Executes
    /\ Living(p)
    /\ dead' = dead \cup {p}
    /\ UNCHANGED <<placeVars, waitVars, spawned, loopVars, threadVars>>

\* start_resurrection: to the priest of a closest city; the entry is not made yet.
StartResurrection(p) ==
    /\ Executes
    /\ InWorld(p) /\ p \in dead
    /\ wait[p] = 0
    /\ \E c \in Priests, ticks \in 1..Width + Height :
           /\ \A b \in Priests : Squared(pos[p], c) <= Squared(pos[p], b)
           /\ WaitFor(pos[p], c, ticks)
           /\ Calls([who |-> p, to |-> c, ticks |-> ticks, at |-> "insert"])
    /\ UNCHANGED <<placeVars, dead, waitVars, spawned, loopVars>>

\* interact_with_npc(RESURRECT): a ghost may talk to a priest from anywhere.
PriestResurrects(p) ==
    /\ Executes
    /\ InWorld(p) /\ p \in dead
    /\ Priests # {}
    /\ dead' = Revived(p)
    /\ UNCHANGED <<placeVars, waitVars, spawned, loopVars, threadVars>>

-----------------------------------------------------------------------------
\* The accesses of move_character, teleport_player, update_resurrections and
\* start_resurrection, once they have read what they need.

Unmark ==
    /\ call.at = "unmark"
    /\ occupied' = occupied \ {call.from}
    /\ call' = [call EXCEPT !.at = "place"]
    /\ UNCHANGED <<pos, dead, waitVars, spawned, loopVars, leaver, raced>>

Place ==
    /\ call.at = "place"
    /\ pos' = [pos EXCEPT ![call.who] = IF InWorld(call.who) THEN call.to ELSE Nowhere]
    /\ call' = [call EXCEPT !.at = "mark"]
    /\ UNCHANGED <<occupied, dead, waitVars, spawned, loopVars, leaver, raced>>

Mark ==
    /\ call.at = "mark"
    /\ occupied' = occupied \cup {call.to}
    /\ call' = IF call.op = "move" THEN NoCall ELSE [call EXCEPT !.at = "revive"]
    /\ UNCHANGED <<pos, dead, waitVars, spawned, loopVars, leaver, raced>>

\* The teleported is looked up again and revived; its entry is erased.
Revive ==
    /\ call.at = "revive"
    /\ dead' = Revived(call.who)
    /\ wait' = [wait EXCEPT ![call.who] = 0]
    /\ dest' = [dest EXCEPT ![call.who] = Nowhere]
    /\ call' = NoCall
    /\ UNCHANGED <<placeVars, spawned, loopVars, leaver, raced>>

Insert ==
    /\ call.at = "insert"
    /\ wait' = [wait EXCEPT ![call.who] = call.ticks]
    /\ dest' = [dest EXCEPT ![call.who] = call.to]
    /\ call' = NoCall
    /\ UNCHANGED <<placeVars, dead, spawned, loopVars, leaver, raced>>

CallStep == Unmark \/ Place \/ Mark \/ Revive \/ Insert

-----------------------------------------------------------------------------
\* World::remove_player, on the thread of the player's receiver: it reads the
\* position, clears the mark, erases the Player, erases its pending resurrection.

Leave(p) ==
    /\ leaver = NoOne
    /\ InWorld(p)
    /\ leaver' = [who |-> p, cell |-> pos[p], at |-> "unmark"]
    /\ raced' = (raced \/ (call # NoCall /\ call.who = p))
    /\ UNCHANGED <<placeVars, dead, waitVars, spawned, loopVars, call>>

LeaverUnmarks ==
    /\ leaver.at = "unmark"
    /\ occupied' = occupied \ {leaver.cell}
    /\ leaver' = [leaver EXCEPT !.at = "erase"]
    /\ UNCHANGED <<pos, dead, waitVars, spawned, loopVars, call, raced>>

LeaverErased ==
    /\ leaver.at = "erase"
    /\ pos' = [pos EXCEPT ![leaver.who] = Nowhere]
    /\ dead' = dead \ {leaver.who}
    /\ leaver' = [leaver EXCEPT !.at = "cancel"]
    /\ UNCHANGED <<occupied, waitVars, spawned, loopVars, call, raced>>

WaitAfterLeaveBug(p) == wait
WaitAfterLeave(p) == [wait EXCEPT ![p] = 0]
LeaverCancels ==
    /\ leaver.at = "cancel"
    /\ wait' = WaitAfterLeave(leaver.who)
    /\ dest' = [dest EXCEPT ![leaver.who] = Nowhere]
    /\ todo' = todo \ {leaver.who}
    /\ leaver' = NoOne
    /\ UNCHANGED <<placeVars, dead, spawned, phase, call, raced>>

LeaveStep == LeaverUnmarks \/ LeaverErased \/ LeaverCancels

-----------------------------------------------------------------------------
\* World::update; its loops walk over maps ordered by id.

IsNext(x) == x \in todo /\ \A y \in todo : x <= y

EndCommands ==
    /\ Executes
    /\ phase' = "resurrections"
    /\ todo' = {p \in Players : wait[p] > 0}
    /\ UNCHANGED <<placeVars, dead, waitVars, spawned, threadVars>>

\* One turn of update_resurrections.  The entry is erased at the end of a turn
\* whose timer is out: after the accesses of a teleport, or at once if its player
\* is not there or no cell is free (and then nobody is revived).
CountDown(p) ==
    /\ wait[p] > 1
    /\ wait' = [wait EXCEPT ![p] = @ - 1]
    /\ UNCHANGED <<dest, threadVars>>

Teleport(p) ==
    /\ wait[p] = 1 /\ InWorld(p)
    /\ \E c \in ClosestFree(dest[p]) :
          Calls([op |-> "teleport", who |-> p, from |-> pos[p], to |-> c, at |-> "unmark"])
    /\ UNCHANGED waitVars

GiveUp(p) ==
    /\ wait[p] = 1
    /\ ~ InWorld(p) \/ Free = {}
    /\ wait' = [wait EXCEPT ![p] = 0]
    /\ dest' = [dest EXCEPT ![p] = Nowhere]
    /\ UNCHANGED threadVars

UpdateResurrection(p) ==
    /\ phase = "resurrections" /\ call = NoCall /\ IsNext(p)
    /\ todo' = todo \ {p}
    /\ CountDown(p) \/ Teleport(p) \/ GiveUp(p)
    /\ UNCHANGED <<placeVars, dead, spawned, phase>>

VisitedNpcs == {n \in Npcs : InWorld(n)}

EndResurrections ==
    /\ phase = "resurrections" /\ call = NoCall /\ todo = {}
    /\ phase' = "npcs"
    /\ todo' = VisitedNpcs
    /\ UNCHANGED <<placeVars, dead, waitVars, spawned, threadVars>>

\* get_players_near and the choice of HostileNPC::update.
Near(n) == {p \in Players : Living(p) /\ Squared(pos[n], pos[p]) <= AttackRange * AttackRange}
IsPrey(n, p) ==
    /\ p \in Near(n)
    /\ \A q \in Near(n) : \/ Squared(pos[n], pos[p]) < Squared(pos[n], pos[q])
                          \/ Squared(pos[n], pos[p]) = Squared(pos[n], pos[q]) /\ p <= q

Chase(n, p) ==
    LET next == Ahead(pos[n], Towards(pos[n], pos[p]))
    IN  /\ ~ Adjacent(pos[n], pos[p])
        /\ CanMove(n, next)
        /\ Relocate(n, next)
        /\ UNCHANGED dead

\* npc_attack does not look at zones.
Strike(n, p) ==
    /\ Adjacent(pos[n], pos[p])
    /\ dead' = dead \cup {p}
    /\ UNCHANGED placeVars

\* One turn of update_npcs.
UpdateNpc(n) ==
    /\ phase = "npcs" /\ IsNext(n)
    /\ todo' = todo \ {n}
    /\ \/ n \in dead /\ Remove(n)
       \/ /\ n \notin dead
          /\ \/ UNCHANGED <<placeVars, dead>>
             \/ \E p \in Players : IsPrey(n, p) /\ (Chase(n, p) \/ Strike(n, p))
    /\ UNCHANGED <<waitVars, spawned, phase, threadVars>>

EndNpcs ==
    /\ phase = "npcs" /\ todo = {}
    /\ phase' = "spawning"
    /\ UNCHANGED <<placeVars, dead, waitVars, spawned, todo, threadVars>>

\* try_spawn_npc, on the cell find_random_spawn_position hits upon.
Spawn(n) ==
    /\ \A m \in Npcs \ spawned : n <= m
    /\ Cardinality(HostilesAlive) < PopulationLimit
    /\ \E c \in (Haunts[n] \ City) \cap Free : Add(n, c)
    /\ spawned' = spawned \cup {n}

\* update_spawning: seldom, and not if 50 random cells are all unfit.
UpdateSpawning ==
    /\ phase = "spawning"
    /\ phase' = "commands"
    /\ \/ UNCHANGED <<placeVars, spawned>>
       \/ \E n \in Npcs \ spawned : Spawn(n)
    /\ UNCHANGED <<dead, waitVars, todo, threadVars>>

-----------------------------------------------------------------------------
Command(p) ==
    \/ Select(p) \/ Restore(p) \/ Die(p) \/ StartResurrection(p) \/ PriestResurrects(p)
    \/ \E d \in Directions : Move(p, d)
    \/ \E x \in Characters : Attack(p, x)

Update ==
    \/ EndCommands \/ EndResurrections \/ EndNpcs \/ UpdateSpawning
    \/ \E p \in Players : UpdateResurrection(p)
    \/ \E n \in Npcs : UpdateNpc(n)

Next ==
    \/ Update \/ CallStep \/ LeaveStep
    \/ \E p \in Players : Command(p) \/ Leave(p)

\* The game loop goes on, as does a receiver that is in remove_player, and the queue
\* of commands runs dry in every tick (the tick does not end before: a loop that is
\* kept in its commands for ever is assumed away).
Spec == Init /\ [][Next]_vars /\ WF_vars(CallStep) /\ WF_vars(LeaveStep) /\ SF_vars(Update)

-----------------------------------------------------------------------------
TypeOK ==
    /\ pos \in [Characters -> Cells \cup {Nowhere}]
    /\ occupied \in SUBSET Cells
    /\ dead \in SUBSET Characters
    /\ wait \in [Players -> Nat]
    /\ dest \in [Players -> Cells \cup {Nowhere}]
    /\ spawned \in SUBSET Npcs
    /\ phase \in {"commands", "resurrections", "npcs", "spawning"}
    /\ todo \in SUBSET Characters
    /\ call \in Placings \cup Startings \cup {NoCall}
    /\ leaver \in Departures \cup {NoOne}
    /\ raced \in BOOLEAN

\* Who is between the clearing of its old mark and its new one, or its end.
InHand(x) ==
    \/ call.at \in {"place", "mark"} /\ call.who = x
    \/ leaver.at = "erase" /\ leaver.who = x
Standing(x) == InWorld(x) /\ ~ InHand(x)

\* As long as no departure has overlapped a call on the player that leaves, the
\* matrix and the positions agree between any two accesses of the two threads:
\* a cell is marked if and only if a member of the staff stands on it or a
\* character whose mark is not in hand, and only the cell of somebody leaving may
\* be taken before it is empty.
OccupiedExact ==
    ~ raced =>
        /\ occupied = Staff \cup {pos[x] : x \in {y \in Characters : Standing(y)}}
        /\ \A x, y \in Characters :
              InWorld(x) /\ pos[x] = pos[y] /\ ~ Departing(x) /\ ~ Departing(y) => x = y

\* Nobody stands in a wall or on the staff, and a hostile NPC, however it chases,
\* stays out of the cities and inside the zones of its template, whatever the
\* departures overlap.
OnItsGround ==
    \A x \in Characters : InWorld(x) =>
        /\ pos[x] \notin Blocked \cup Staff
        /\ x \in Npcs => pos[x] \in Haunts[x] \ City

\* Only players who are in the World, or being removed, wait: a player that leaves
\* and comes back with the same id is neither immobile nor carried off.
WaitersArePresent ==
    ~ raced => \A p \in Players : wait[p] > 0 => InWorld(p) \/ Departing(p)

\* A killed NPC is gone, and its cell free, before the spawning of its tick (so
\* the count of try_spawn_npc and the map agree).
DeadNpcsAreCleared == phase = "spawning" => dead \cap Npcs = {}

\* The matrix, the positions, the dead and the waiting agree between any two
\* accesses of the game loop and of the threads of those who leave.
WorldIsConsistent ==
    OccupiedExact /\ OnItsGround /\ WaitersArePresent /\ DeadNpcsAreCleared

\* A player changes cell by single steps while nothing is pending, or at the end of
\* a wait.
NoOtherJumps ==
    [][\A p \in Players :
          ~ raced /\ pos[p] # Nowhere /\ pos'[p] \notin {pos[p], Nowhere} =>
             \/ wait[p] = 0 /\ Walk(pos[p], pos'[p]) = 1
             \/ wait[p] = 1 /\ phase = "resurrections"]_vars

\* A ghost that asked for its resurrection gets it, unless it leaves.
GhostsComeBack == \A p \in Players : (p \in dead /\ wait[p] > 0) ~> p \notin dead \/ raced
=============================================================================
