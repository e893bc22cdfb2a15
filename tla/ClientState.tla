---------------------------- MODULE ClientState ----------------------------
(***************************************************************************)
(* What one player sees and does: the SDL client (GameClient, GameState,   *)
(* ServerUpdateHandler, InputHandler) in front of the game loop of its     *)
(* match, with the receiver threads of the other players.                  *)
(*                                                                         *)
(* The client works in frames: it reads the events of the user against     *)
(* what it shows, sends commands, then applies the updates that arrived.   *)
(* The game loop works in ticks: commands, update, snapshot, broadcast.    *)
(* The thread of a player that leaves speaks at any moment of a tick.      *)
(* Both ways between them are FIFO queues: Conversation is about the bytes *)
(* and the threads in between.  Updates that only add a line to the chat   *)
(* are left out, and so are the positions, animation, sound and drawing.   *)
(* A definition called ...Bug is a mutated form of the one that follows.   *)
(***************************************************************************)
EXTENDS Naturals, Sequences

CONSTANTS
    Me,             \* the player of this client
    Others,         \* the other players of the match
    Npcs, NoNpc,    \* the NPCs of the city; 0 in the code
    Potions, Gear,  \* the items
    Nothing,        \* an empty slot
    Size,           \* the slots of an inventory
    Interactions,   \* what may be asked of an NPC, of NpcInteractions
    MaxCommands,    \* bound: commands on the way to the server
    MaxUpdates      \* bound: updates on the way when a tick begins, a command is
                    \* executed or a player leaves

Items == Potions \cup Gear
Slots == 1..Size
NoSlot == 0

ASSUME PlayersAssumption == Me \notin Others
ASSUME ItemsAssumption ==
    /\ Size \in Nat \ {0}
    /\ Nothing \notin Items /\ Potions \cap Gear = {}
    /\ NoNpc \notin Npcs

\* NPCInteraction: those that bring an item, take one, touch neither items nor life.
Gains == {"BUY", "WITHDRAW_ITEM"}
Losses == {"SELL", "DEPOSIT_ITEM"}
Services == {"HEAL", "DEPOSIT_GOLD", "WITHDRAW_GOLD"}
NpcInteractions == Gains \cup Losses \cup Services \cup {"RESURRECT", "LIST"}

ASSUME InteractionsAssumption ==
    Interactions \subseteq NpcInteractions /\ "RESURRECT" \in Interactions
ASSUME BoundsAssumption == MaxCommands \in Nat \ {0} /\ MaxUpdates \in Nat

VARIABLES
    \* the World and the game loop
    here,       \* the players with an avatar
    leaving,    \* of the others, those between broadcast and removal (leave_match)
    life,       \* of Me: "alive", "ghost", or "waiting" for a resurrection
    inventory,  \* of Me: slot by slot
    loop,       \* where the game loop is in its tick
    image,      \* the snapshot it is about to broadcast, or NoImage
    \* the queues
    commands, updates,
    \* the client
    view        \* GameState

server == <<here, leaving, life, inventory, loop, image>>
vars == <<server, commands, updates, view>>

Inventories == [Slots -> Items \cup {Nothing}]
Commands ==
    [op : {"SELECT", "MOVE", "PICK_UP", "RESURRECT", "DIE"}]
        \cup [op : {"ATTACK"}, target : Others]
        \cup [op : {"DROP", "EQUIP"}, slot : Slots]
        \cup [op : {"INTERACT"}, npc : Npcs, type : Interactions]
Snapshots == [type : {"SNAPSHOT"}, players : SUBSET (Others \cup {Me}), ghost : BOOLEAN]
Updates ==
    Snapshots
        \cup [type : {"PLAYER_LEFT"}, player : Others]
        \cup [type : {"INVENTORY"}, slots : Inventories]
        \cup [type : {"DEATH", "OUT_OF_RANGE"}]
View == [players : SUBSET (Others \cup {Me}), ghost : BOOLEAN,
         slots : Inventories \cup {<<>>}, npc : Npcs \cup {NoNpc}, slot : Slots \cup {NoSlot}]

Empty == [s \in Slots |-> Nothing]
NoImage == [type |-> "NONE"]
Snapshot == [type |-> "SNAPSHOT", players |-> here, ghost |-> life # "alive"]

\* The game starts with the choice of race and class, or a restoration, sent.
Init ==
    /\ here \in SUBSET Others
    /\ leaving = {}
    /\ life = "alive"
    /\ inventory = Empty
    /\ loop = "idle"
    /\ image = NoImage
    /\ commands = <<[op |-> "SELECT"]>>
    /\ updates = <<>>
    /\ view = [players |-> {}, ghost |-> FALSE, slots |-> <<>>, npc |-> NoNpc, slot |-> NoSlot]

-----------------------------------------------------------------------------
(* The client: events (process_sdl_events). *)

\* Client::do_...
SendCommand(c) ==
    /\ Len(commands) < MaxCommands
    /\ commands' = Append(commands, c)

\* A slot that the inventory shows with something in it.
Shown(s) == view.slots # <<>> /\ view.slots[s] # Nothing

\* try_attack_at_tile: a player shown on the tile, else an NPC of the city.
AttackAt(t) ==
    \/ /\ t \in view.players \ {Me} /\ ~ view.ghost
       /\ SendCommand([op |-> "ATTACK", target |-> t])
       /\ UNCHANGED view
    \/ /\ t \in Npcs
       /\ view' = [view EXCEPT !.npc = t]
       /\ UNCHANGED commands

\* try_equip_at.
EquipAtBug(s) ==
    /\ ~ view.ghost /\ Shown(s)
    /\ SendCommand([op |-> "EQUIP", slot |-> s + 1])
    /\ UNCHANGED view
EquipAt(s) ==
    /\ ~ view.ghost /\ Shown(s)
    /\ SendCommand([op |-> "EQUIP", slot |-> s])
    /\ UNCHANGED view

LeftClick ==
    /\ \/ \E t \in Others \cup Npcs : AttackAt(t)
       \/ \E s \in Slots : EquipAt(s)

RightClick ==
    /\ \E s \in Slots : Shown(s) /\ view' = [view EXCEPT !.slot = s]
    /\ UNCHANGED commands

\* The cheat that kills (the others do not concern what is kept here).
PressCheat ==
    /\ SendCommand([op |-> "DIE"])
    /\ UNCHANGED view

\* process_keyword_input: an arrow held down.
PressArrow ==
    /\ SendCommand([op |-> "MOVE"])
    /\ UNCHANGED view

\* handle_drop_command, with a slot (s) or with the selected one (NoSlot).
TypeDrop(s) ==
    LET slot == IF s = NoSlot THEN view.slot ELSE s IN
    IF slot # NoSlot /\ Shown(slot)
    THEN /\ SendCommand([op |-> "DROP", slot |-> slot])
         /\ view' = [view EXCEPT !.slot = NoSlot]
    ELSE UNCHANGED <<commands, view>>

\* handle_npc_command.
TypeToNpc(type) ==
    /\ IF view.npc # NoNpc
       THEN SendCommand([op |-> "INTERACT", npc |-> view.npc, type |-> type])
       ELSE UNCHANGED commands
    /\ UNCHANGED view

\* /resucitar: a ghost with no priest selected is resurrected where it is.
TypeResurrect ==
    IF ~ view.ghost THEN UNCHANGED <<commands, view>>
    ELSE IF view.npc = NoNpc THEN SendCommand([op |-> "RESURRECT"]) /\ UNCHANGED view
         ELSE TypeToNpc("RESURRECT")

\* dispatch_chat_command at the end of a line.
Submit ==
    /\ \/ SendCommand([op |-> "PICK_UP"]) /\ UNCHANGED view
       \/ \E s \in Slots \cup {NoSlot} : TypeDrop(s)
       \/ \E type \in Interactions \ {"RESURRECT"} : TypeToNpc(type)
       \/ TypeResurrect

-----------------------------------------------------------------------------
(* The client: updates (apply_pending). *)

\* GameState::apply_snapshot.
ApplySnapshotBug(v, u) ==
    [v EXCEPT !.players = v.players \cup u.players,
              !.ghost = IF Me \in u.players THEN u.ghost ELSE @]
ApplySnapshot(v, u) ==
    [v EXCEPT !.players = u.players,
              !.ghost = IF Me \in u.players THEN u.ghost ELSE @]

\* on_death of Me, and show_interact_error of a city that is too far.
OnDeath(v) == [v EXCEPT !.npc = NoNpc]
OnRefusal(v, status) == IF status = "OUT_OF_RANGE" THEN [v EXCEPT !.npc = NoNpc] ELSE v

\* on_snapshot, on_player_left, on_inventory, on_death, on_interact.
Applied(v, u) ==
    CASE u.type = "SNAPSHOT" -> ApplySnapshot(v, u)
      [] u.type = "PLAYER_LEFT" -> [v EXCEPT !.players = @ \ {u.player}]
      [] u.type = "INVENTORY" -> [v EXCEPT !.slots = u.slots]
      [] u.type = "DEATH" -> OnDeath(v)
      [] u.type = "OUT_OF_RANGE" -> OnRefusal(v, u.type)

ApplyUpdate ==
    /\ updates # <<>>
    /\ view' = Applied(view, Head(updates))
    /\ updates' = Tail(updates)
    /\ UNCHANGED <<server, commands>>

-----------------------------------------------------------------------------
(* The game loop: commands (Match::tick). *)

Room == Len(updates) <= MaxUpdates
Tell(us) == updates' = updates \o us
InventoryOf(inv) == [type |-> "INVENTORY", slots |-> inv]

BeginTick ==
    /\ loop = "idle" /\ Room
    /\ loop' = "commands"
    /\ UNCHANGED <<here, leaving, life, inventory, image, commands, updates, view>>

\* Inventories after something (a stack of it, a new slot) is added.
Vacant == {s \in Slots : inventory[s] = Nothing}
With(k) ==
    {[inventory EXCEPT ![s] = k] :
        s \in {t \in Vacant : \A u \in Vacant : t <= u}}
    \cup {inventory : s \in {t \in Slots : inventory[t] = k /\ k \in Potions}}

\* Inventories after one of the items k is removed, from its first slot; of a stack
\* the rest may stay.
OneLess(k) ==
    {[inventory EXCEPT ![s] = Nothing] :
        s \in {t \in Slots : inventory[t] = k /\ \A u \in 1..(t - 1) : inventory[u] # k}}
    \cup {inventory : s \in {t \in Slots : inventory[t] = k /\ k \in Potions}}

\* Inventories after the slot s is used: a potion may be the last of its
\* stack, gear may change places with what was worn.
Used(s) ==
    IF inventory[s] \in Potions
    THEN {inventory, [inventory EXCEPT ![s] = Nothing]}
    ELSE {[inventory EXCEPT ![s] = inventory[t], ![t] = inventory[s]] :
             t \in {u \in Slots : inventory[u] \in Gear}}

\* What an item command may leave behind; none if it is refused.
Outcomes(c) ==
    CASE c.op = "DROP" /\ inventory[c.slot] # Nothing -> {[inventory EXCEPT ![c.slot] = Nothing]}
      [] c.op = "EQUIP" /\ inventory[c.slot] # Nothing -> Used(c.slot)
      [] c.op = "PICK_UP" -> UNION {With(k) : k \in Items}
      [] OTHER -> {}

\* DropItemCommand, EquipItemCommand, PickUpItemCommand; nothing to pick up,
\* no free ground, a dead sender: no answer.
ItemCommand(c) ==
    /\ c.op \in {"DROP", "EQUIP", "PICK_UP"}
    /\ \/ /\ life = "alive"
          /\ \E inv \in Outcomes(c) :
                inventory' = inv /\ Tell(<<InventoryOf(inv)>>)
       \/ UNCHANGED <<inventory, updates>>
    /\ UNCHANGED <<here, life>>

\* SelectRaceClassCommand or RestorePlayerCommand.
Appear ==
    /\ Me \notin here
    /\ here' = here \cup {Me}
    /\ inventory' \in Inventories
    /\ Tell(<<InventoryOf(inventory')>>)
    /\ UNCHANGED life

\* What an interaction that succeeds leaves of the inventory; a list is answered
\* by a catalogue only.
AfterInteraction(type) ==
    CASE type \in Gains    -> UNION {With(k) : k \in Items}
      [] type \in Losses   -> UNION {OneLess(k) : k \in Items}
      [] type \in Services -> {inventory}
      [] OTHER             -> {}

\* InteractNPCCommand: every success but a list is followed by the inventory, a
\* resurrection (of a ghost, wherever it is) as well as what an NPC of the city
\* does for the living; too far from the city; the other refusals and the list
\* change nothing that is kept here.
Interact(c) ==
    /\ \/ /\ c.type = "RESURRECT" /\ life # "alive"
          /\ life' = "alive"
          /\ UNCHANGED inventory
          /\ Tell(<<InventoryOf(inventory)>>)
       \/ /\ life = "alive"
          /\ inventory' \in AfterInteraction(c.type)
          /\ Tell(<<InventoryOf(inventory')>>)
          /\ UNCHANGED life
       \/ /\ ~ (c.type = "RESURRECT" /\ life # "alive")
          /\ Tell(<<[type |-> "OUT_OF_RANGE"]>>)
          /\ UNCHANGED <<life, inventory>>
       \/ UNCHANGED <<life, inventory, updates>>
    /\ UNCHANGED here

\* CheatCommand: DIE, without loot.
Die ==
    /\ life = "alive"
    /\ life' = "ghost"
    /\ Tell(<<[type |-> "DEATH"]>>)
    /\ UNCHANGED <<here, inventory>>

\* ResurrectCommand.
StartResurrection ==
    /\ life' = IF life = "ghost" THEN "waiting" ELSE life
    /\ UNCHANGED <<here, inventory, updates>>

\* One command of Me; an attack or a step does not touch what is kept here.
ExecuteCommand ==
    /\ loop = "commands" /\ commands # <<>> /\ Room
    /\ commands' = Tail(commands)
    /\ LET c == Head(commands) IN
          \/ c.op = "SELECT" /\ Appear
          \/ Me \in here /\ ItemCommand(c)
          \/ Me \in here /\ c.op = "INTERACT" /\ Interact(c)
          \/ Me \in here /\ c.op = "DIE" /\ Die
          \/ c.op = "RESURRECT" /\ StartResurrection
          \/ /\ c.op \in {"ATTACK", "MOVE"} \/ (c.op = "DIE" /\ life # "alive")
             /\ UNCHANGED <<here, life, inventory, updates>>
    /\ UNCHANGED <<leaving, loop, image, view>>

\* Commands of the others: one appears; one kills Me, who drops everything.
TellVictimBug == Tell(<<[type |-> "DEATH"]>>)
TellVictim == Tell(<<[type |-> "DEATH"], InventoryOf(Empty)>>)
Killed ==
    /\ Me \in here /\ life = "alive"
    /\ life' = "ghost"
    /\ inventory' = Empty
    /\ TellVictim

OthersAct ==
    /\ loop = "commands" /\ Room
    /\ \/ /\ \E p \in Others \ here : here' = here \cup {p}
          /\ UNCHANGED <<life, inventory, updates>>
       \/ Killed /\ UNCHANGED here
    /\ UNCHANGED <<leaving, loop, image, commands, view>>

-----------------------------------------------------------------------------
(* The game loop: the rest of the tick (GameLoopThread::run). *)

\* World::update ends a resurrection, then an NPC may kill.
UpdateWorld ==
    /\ loop = "commands" /\ commands = <<>>
    /\ loop' = "snapshot"
    /\ \E over \in BOOLEAN :
          LET now == IF over /\ life = "waiting" THEN "alive" ELSE life IN
          \/ life' = now /\ UNCHANGED <<inventory, updates>>
          \/ /\ Me \in here /\ now = "alive"
             /\ life' = "ghost"
             /\ inventory' = Empty
             /\ TellVictim
    /\ UNCHANGED <<here, leaving, image, commands, view>>

BuildSnapshot ==
    /\ loop = "snapshot"
    /\ image' = Snapshot
    /\ loop' = "broadcast"
    /\ UNCHANGED <<here, leaving, life, inventory, commands, updates, view>>

Broadcast ==
    /\ loop = "broadcast"
    /\ Tell(<<image>>)
    /\ loop' = "idle"
    /\ image' = NoImage
    /\ UNCHANGED <<here, leaving, life, inventory, commands, view>>

-----------------------------------------------------------------------------
(* Another player leaves: Server::leave_match on its receiver thread. *)

AnnounceLeft(p) ==
    /\ p \in here \ leaving /\ Room
    /\ leaving' = leaving \cup {p}
    /\ Tell(<<[type |-> "PLAYER_LEFT", player |-> p]>>)
    /\ UNCHANGED <<here, life, inventory, loop, image, commands, view>>

RemovePlayer(p) ==
    /\ p \in leaving
    /\ leaving' = leaving \ {p}
    /\ here' = here \ {p}
    /\ UNCHANGED <<life, inventory, loop, image, commands, updates, view>>

-----------------------------------------------------------------------------
User ==
    /\ LeftClick \/ RightClick \/ PressCheat \/ PressArrow \/ Submit
    /\ UNCHANGED <<server, updates>>
Loop == BeginTick \/ UpdateWorld \/ BuildSnapshot \/ Broadcast
Next ==
    \/ User \/ ApplyUpdate
    \/ Loop \/ ExecuteCommand \/ OthersAct
    \/ \E p \in Others : AnnounceLeft(p) \/ RemovePlayer(p)

\* The game loop never stops while the match has players, and the queue of
\* commands runs dry in every tick (BasicMatch::tick ends only then; clients
\* faster than the loop could hold it for ever, which is assumed away).  Frames
\* follow one another, and a thread that announced a departure goes on to
\* remove the player.  The user and the other players need do nothing.
Fairness ==
    /\ WF_vars(Loop) /\ SF_vars(UpdateWorld) /\ WF_vars(ExecuteCommand)
    /\ []<>(loop = "commands" => commands = <<>>)
    /\ WF_vars(ApplyUpdate)
    /\ \A p \in Others : WF_vars(RemovePlayer(p))

Spec == Init /\ [][Next]_vars /\ Fairness

-----------------------------------------------------------------------------
\* Types of the World, of both queues and of GameState.
TypeOK ==
    /\ here \in SUBSET (Others \cup {Me}) /\ leaving \in SUBSET (Others \cap here)
    /\ life \in {"alive", "ghost", "waiting"}
    /\ inventory \in Inventories
    /\ loop \in {"idle", "commands", "snapshot", "broadcast"}
    /\ image \in Snapshots \cup {NoImage}
    /\ commands \in Seq(Commands) /\ Len(commands) <= MaxCommands
    /\ updates \in Seq(Updates)
    /\ view \in View

\* Between two ticks, when everything sent has been applied, the client shows
\* the truth: the player's own life and inventory, itself and every other
\* player that is not on its way out, through deaths, resurrections, item
\* commands on slots that have moved, departures and returns.
ViewIsExact ==
    loop = "idle" /\ updates = <<>> /\ Me \in here =>
        /\ view.ghost = (life # "alive")
        /\ view.slots = inventory
        /\ here \ leaving \subseteq view.players

\* Somebody who has left for good is finally shown no more, although the
\* thread that says so and the snapshot that still has its image pass each
\* other in either order.
DepartedFade ==
    \A p \in Others : <>[](p \notin here) => <>[](p \notin view.players)
=============================================================================
