# Argentum Online server: TLA+ specifications and proofs

The repository is a client and a multi-threaded server, in C++, of a multiplayer
role-playing game. These modules specify what the server's threads do to the state
they share, what the game loop does to a world, its players and their belongings,
what is left on disk, the bytes between the two programs, and what a client makes of
them. TLC checks them on small instances; TLAPS proves the main safety properties
for every value of the constants.

Paths below are relative to `src/`. `PROJECT.json` maps every definition to the
lines it was translated from, and lists the runs, the hazards and the theorems.

- [1. The system](#1-the-system)
- [2. Modules and code](#2-modules-and-code)
- [3. Model checking](#3-model-checking)
- [4. Fairness](#4-fairness)
- [5. Proofs](#5-proofs)
- [6. What the code does that its documents deny](#6-what-the-code-does-that-its-documents-deny)
- [7. Not modelled](#7-not-modelled)
- [8. Plan](#8-plan)

## 1. The system

### Threads

| thread | runs | how many |
|---|---|---|
| main | `Server::run`: waits for `q`, saves, stops everything | 1 |
| acceptor | `AcceptorThread::run`: accept, reap the dead handlers, admit | 1 |
| game loop | `GameLoopThread::run`: every match's `tick`, publication of updates, an autosave every 30 s | 1 |
| receiver | `ReceiverThread::run`: one opcode at a time of one client | 1 per client |
| sender | `SenderThread::run`: pops the client's queue and writes to its socket | 1 per client |

### Components

| component | state | operations | interacts with |
|---|---|---|---|
| blocking queue, `common/queue.h` | buffer, closed flag, two condition variables | push, try_push, pop, try_pop, close | commands (receivers to game loop), updates (game loop to senders) |
| sessions and lobby, `server/server.cpp`, `acceptor_thread.cpp`, `client_handler.cpp`, `player_connection.cpp`, `receiver_thread.cpp`, `game/basic_match.cpp` | clients, nicks in use, next player id; matches by id; per match the list of connections, their number, the command queue; per connection its state, player id and match | accept, reap, login, create, join, leave, disconnect, enqueue, tick, publish | everything |
| world, `server/world/`, `server/game/npcs/` | positions, the matrix of occupied cells, NPCs, pending resurrections, ground items | add, remove, move, attack, cheat, resurrect, and `World::update` | commands; `remove_player` also from receivers |
| clans, `server/game/clan.cpp`, `World` | per clan founder, members, applicants, banned; per Player its clan_id | found, request, accept, reject, ban, kick, leave | `ClanCommand`; arrival and departure of players |
| players, `server/game/player.cpp`, `character.cpp`, `game_formulas.cpp` | life, mana, gold, level, experience, inventory, bank | combat, regeneration, death, resurrection | world |
| items and trade, `server/game/inventory.cpp`, `bank.cpp`, `npcs/banker.cpp`, `merchant.cpp`, `priest.cpp` | slots, bank, gold | pick up, drop, equip, deposit, withdraw, buy, sell | players, ground items |
| persistence, `server/persistence/`, `Server::save_state` | the save file, its temporary file, the cached copy | load, save, find a player's save | game loop, main thread, receivers |
| wire protocol, `server_protocol.cpp`, `client/client_protocol.cpp` | the bytes of a socket | send and receive each message | receivers, senders |
| client, `client/sdl`, `client/qt` | what is shown | apply an update, send a command | wire protocol |

### What is hard in it

- **Departures.** A receiver removes its player from the `World` itself, without a
  lock the game loop also takes: between any two steps of the loop, and between any two
  accesses of one step.
- **Facts kept twice.** A player's clan is in the `Player` and in the `Clan`; a
  position is in the character and in the matrix; the number of players is a
  `uint8_t` beside a list; connections are listed by raw pointer in two places
  beside the handler that owns them; the cache repeats the file.
- **Late events.** A handler is destroyed by a later accept than its disconnection;
  a command is executed after its sender has left; a resurrection ends long after
  it was asked for.
- **Crashes.** The process may die at any step of a save, and main and the game loop
  may be saving at the same time.
- **Bytes without frames.** A message has an opcode and no length: both ends must agree
  on every field, in every state of the connection, and a refused message must be read.
- **Do, then undo.** A shop takes the gold before it asks the inventory for room, the bank
  debits before a purse caps, a restoration adds and equips slot by slot.
- **A picture behind the facts.** The client decides by what it shows, which is as old
  as the updates on their way, and speaks of slots by number.
- **Sleeping threads.** The queue wakes one side only when it turns from empty or from
  full, and only one side when it is closed.

### What makes each component correct

- Queue: first in, first out; no item lost or doubled; no thread asleep that could go
  on; a close ends a waiting pop.
- Sessions: one session per nick; the pointer lists hold exactly the objects that
  exist and belong there; no match above its maximum.
- World: a cell is marked exactly if somebody stands on it, alone; nobody in walls, no
  hostile NPC in a city; a pending resurrection belongs to somebody present and ends. The first
  and the last of these the code loses when a departure overlaps a call on the same player.
- Clans: both records of a membership agree; a founder stays; the three standings of
  a player exclude one another; the limit of members and the uniqueness of names.
- Players: the level is the one the experience pays for; dead means without life; a ghost
  is left alone; mana is spent for something.
- Items and trade: nothing is copied and nothing vanishes unaccounted; nobody wears two
  things in one place; whoever empties an inventory, its owner is told.
- Protocol: what one end writes the other reads, whole and in order, and every answer
  finds a window that waits for it.
- Client: once everything has arrived it shows the truth.
- Persistence: what is to be loaded is always one whole snapshot, the cache agrees
  with it, and an empty world does not erase it.

## 2. Modules and code

| module | what it is |
|---|---|
| `FifoChannel` | abstract: what users of a `Queue` rely on, without mutex or condition variables |
| `ClosableQueue` | `common/queue.h`: every method, wait sets, spurious wake-ups |
| `Rooms` | abstract: a lobby of nicks and rooms, without threads, handlers or lists |
| `Sessions`, `SessionsProofs` | acceptor, receivers, `Server`'s registries, `BasicMatch`, the game loop's walk over the matches |
| `World`, `WorldProofs` | the grid of one `World`, deaths, resurrections, NPCs, `World::update` |
| `Life`, `LifeProofs` | the bodies of its players: life, mana, experience, level, fighting, healing |
| `Inventory` | the operators of `Inventory`: add, equip, swap, stack, pop; the restoration of a saved one |
| `Economy`, `EconomyProofs` | inventories, gold, bank, shops, ground, deaths and restorations of one `World` |
| `Clans`, `ClansProofs` | the clans of one `World` |
| `SaveStore` | abstract: one register of snapshots that outlives the process, without files or errors |
| `Persistence`, `PersistenceProofs` | `Persister`, `save_state`, crashes, restarts |
| `Shutdown` | the end of `Server::run`: the final save of main beside the game loop, and the exit |
| `WireFormat` | fields to bytes and bytes to fields |
| `ServerProtocol`, `ClientProtocol` | the layouts of all messages, once as each end's code has them |
| `Conversation` | a client (window, threads) and its handler with the two streams of bytes between them |
| `TransportProofs` | the proofs about `ClosableQueue`, `WireFormat` and `Conversation` |
| `ClientState`, `ClientStateProofs` | the SDL client's picture of the game in front of the game loop of its match |
| `MC...` | instances for TLC |

A definition named `...Bug` is a mutated form of the definition that follows it: a
mistake one of the properties has to notice. Nothing else uses it.

**How they meet.** `Sessions` decides who is in which match and hands commands to the
game loop; `World`, `Life`, `Economy` and `Clans` are four views of what those commands
do to one `World`, each with the variables its properties are about and the same actors
(a command, a turn of `World::update`, the receiver thread that removes a player).
`Conversation` INSTANCEs both protocols, which extend `WireFormat`; what the registries
answer is a choice there and is decided in `Sessions`. `ClientState` takes from it that
updates and commands arrive whole and in order. `Economy` extends `Inventory`.

**ClosableQueue.** The mutex makes each stretch of code between two waits one action:
`Push`, `Pop` until they return or sleep; `ResumePush`, `ResumePop` for what follows a
wake-up; `TryPush`, `TryPop`, `Close`, `SpuriousWakeup`. `Insert` and `Dequeue` are the tails of push and pop,
where the buffer changes. A push that waited for room adds its item after a close, which no
channel does: `LatePush` names that step, and `ImplementsChannel` says that the queue implements the
channel but for it. (`QueueInit`, `QueueNext` and `queueVars` have the name in front because
`TransportProofs` extends this module and `Conversation`.) `asleep` is the wait set of
both condition variables and `call` the call each thread has pending. The code notifies
*before* it changes the buffer, under the mutex; the operators `WakePoppersOnPush` and
`WakePushersOnPop` keep its edge conditions.

**Sessions.** An action is one critical section of `clients_mutex` or `matches_mutex`,
or what one thread does that no other sees. `thread` is where a handler's receiver is;
`state`, `pid`, `cur` are the fields of its `PlayerConnection`, which the code resets
only by destroying the object. `logins` stands for `next_player_id` and remembers the
nick of each id. `Accept`, `VisitHandler`, `Admit` are the three parts of an acceptor
iteration; `JoinMatch` and `EnterMatch` the two halves of `handle_join_match`, between
which others run; `BeginDisconnect` and `EndDisconnect` those of `Server::disconnect`.
`held` is the vector of `Player` pointers `publish` iterates over. In the refinement,
`Lobby` maps a nick to the room of the one connection that has its session.

**World.** Two threads act on a `World` without a lock in common: the game loop, and the receiver of
a player that leaves, in `remove_player`. So the calls that move a player or start its resurrection, and
`remove_player` itself, are taken access by access. `Move`, `StartResurrection` and `Teleport` are the
reading part of a call: they put what was read into `call`, and `CallStep` makes its writes one by one
(`Unmark`, `Place`, `Mark`, `Revive`, `Insert`). `Leave` puts what `remove_player` has read into
`leaver`, and `LeaveStep` goes on (`LeaverUnmarks`, `LeaverErased`, `LeaverCancels`). One player leaves at
a time, because `leave_match` holds `matches_mutex`. The other commands and the turns of the NPCs are
one action each: `remove_player` only clears the mark of its player and takes the player
away, which may as well happen before or after them. `raced` remembers that a departure and a call on the
*same* player have overlapped (section 6).

`phase` and `todo` are the position in `World::update`; its loops (`UpdateResurrection`, `UpdateNpc`: one
turn each) walk maps ordered by id, so the next is the least. `CanMove` has the four refusals of
`move_character` in one conjunction. Levels, weapons, evasion and cooldowns are abstracted: an attack that
is permitted may kill or not. Distances are kept: prey is the nearest living player in range (the dead are
skipped by `get_players_near` already), the priest that of a closest city, the destination of a revived
player a free cell of least walking distance, the first cell of a new player the first free one in the
scan. `Init` is what `spawn_city_npcs` and `spawn_initial_hostile_npcs` leave, whatever the dice say.

**Life.** A body is the record of the fields of `Player` and `Character` that fights and
rests touch; the operators on bodies are the methods of those classes, the actions the
commands and loops that call them. The dice are choices: `Blows` (damage after strength, weapon,
critical hit, evasion and defence, with the clan's bonus), `Bonuses`, `Healings`; whether a
fraction of life or mana adds up to a point in a tick is one too. The formulas of limits are
constants with the monotonicity the code's formulas have. Two places are enough for safety
and reach, since the grid is in `World`.

**Inventory and Economy.** A slot is the item, its quantity and whether it is worn. `AddItem`,
`Equip`, `PopSlot` and `RemoveNamed` are the methods; `RestoredSlotBySlot` is the loop of
`RestorePlayerCommand` as it runs, `Restored` what it should amount to. Actions are the item
commands, the shops and the bank with their order of payment and undoing (`Refund`, `Returned`),
deaths with their loot scattered over bare ground, cheats, and restorations. `ledger` counts what
NPCs and saves brought in and what was used up, `told` is the last `InventoryUpdate` sent to
each player; both are there for the properties.

**Clans.** One action per `ClanCommand`; those that act on somebody else go through
`Resolves`, which is `resolve_founder_and_target` with the lookup by nick (least id
first). `EnterWorld` and `LeaveWorld` create and destroy the `Player` and its `clan_id`.
A nick owns several ids because each login gets a new one.

**Persistence, Shutdown.** `pc` is where each of the two savers is in `save_state`; `fd` the file
its stream is open on, which a rename does not change. `Torn` is a file truncated or
partly written; a write that fails may leave it so. `Failures` says what may go wrong in a run: open, write,
close, crash. `Store` maps one saver to `SaveStore`: `stored` is the file that would be loaded, `known` the cache,
and a snapshot is `offered` from when it is taken until it is renamed or given up. Opening and writing
are then no step of the store at all, and the rename is the whole save. `Shutdown` adds what only two savers
meet: a rename that finds its file renamed away, and the exit, after main's save and the end of the loop.

**WireFormat, ServerProtocol, ClientProtocol.** A layout is a sequence of kinds of fields,
lists that follow their count included; `Put` and `Get` are the `put_` and `recv_` functions
applied field by field. A reader is a function from the bytes of a stream to what was read and
what is left, to `Short` where `recvall` would go on waiting, or to `Bad` where the code throws;
`GetEach` runs readers one after the other, `ListReader` and `GridReader` as often as the counts
say that they have just read. `Fits` says which values a layout can be given: the types of the
arguments of `put_`, and lengths that their counts hold. The two protocol modules are written
from the two programs separately, so that a difference between them is a difference of two
definitions.

**Conversation.** `up` and `down` are bytes; a read takes a whole message or waits, or ends if
the stream ended before it. `page`, `busy`, `polling` are the window's, `inbox` the queue filled by
the client's receiver thread, `conn` and `joining` the handler's, `outbox` its sender's. Either
process may die in the middle of a message (`Gone`, `HardKill`). `strayed` records that an opcode
was refused and its payload left unread.

**ClientState.** The client reads the user's events against `view` (`GameState`), the game loop
goes through commands, update, snapshot and broadcast, and the thread of another player
announces its departure (`AnnounceLeft`) and then removes it (`RemovePlayer`) at any moment of
that. An item command may be refused silently, as in the code. Every interaction with an NPC that
succeeds, but a list, is followed by the inventory: with one item more, one less, or the same
(`AfterInteraction`). Chat lines, positions and
animation are left out.

## 3. Model checking

`tlc -config <run>.cfg <module>` for the rows below.

| run | module | shows | instance |
|---|---|---|---|
| `Clans` | `MCClans` | both records of membership agree; founders, standings, limit, names; how one joins and that a ban is final | 3 ids of 2 nicks, 2 clans, 2 members each |
| `Queue_Bounded` | `ClosableQueue` | no lost wake-up, refinement of `FifoChannel` with its fairness but for the late push, `close` ends `pop` | 3 threads, 2 items, 2 places |
| `Sessions` | `MCSessions` | registry, pointer lists, counters, refinement of `Rooms` | 2 handlers, 2 nicks, 1 match of 1 player, 2 logins, queue of 1 |
| `Persistence_Autosave` | `MCPersistence` | one saver, with open and write errors and crashes: refinement of `SaveStore`, the cache agrees | 2 nicks, 2 matches, 4 snapshots |
| `World` | `MCWorld` | grid, ground, resurrections and the order of `update` agree between any two accesses of the game loop and of a departing player's thread; nobody is carried off; ghosts come back | 2 players, 2 NPC ids, 3 x 2 cells |
| `Life` | `MCLife` | level and experience, ghosts, mana | a caster and a warrior, 3 levels, 3 weapons, 2 places |
| `Economy` | `MCEconomy` | order of slots, conservation of goods, account of gold, owners informed, faithful restoration | 2 players of 2 slots, sword and potion, 2 cells, 2 levels |
| `Conversation` | `MCConversation` | both protocols agree on every layout; messages arrive whole; the map reaches the game; answers reach a window that is not polling in the lobby | 1 client, 4 clicks, a broadcast, 15 requests and 23 updates of every layout |
| `ClientState` | `MCClientState` | when everything has arrived the client shows the truth; who left fades | 1 other player, 1 NPC, potion and sword in 2 slots |

`Sessions_SaveForgets`, `Shutdown` and `Conversation_StaysInStep` end in a counterexample; section 6 says
of which statement.

**Why these bounds are enough to meet the cases.** Three threads are the least with which
a wake-up can go to the wrong one of two sleepers of a kind, and two items show a wrong order.
Two handlers and one match of one player are the least with which a full match, a
taken nick, and a nick whose old connection is not reaped yet all occur; a second
login by the same nick comes from the second id. Two ids of one nick show what is kept
by id and what by name; two clans and two members are the least at which a clan is full
between a request and an acceptance. Four snapshots let a save
fail and be followed by others, before and after a crash. The map of the World is a city with its
priest, three cells of open ground and a wall; two players are the least with which one call
runs on one player while the other leaves; one NPC lives at a time, so that the
second replaces the first. Three levels let one blow be worth two of them, and the third be
lost or kept at a death; the newbies' level and two out of it meet the rule of fair levels;
damages of 1 and 2 leave somebody hurt or kill at once. Two slots are full with two items, stack
two potions and swap two swords; one cell of bare ground is too few for a death that leaves
two things; a purse of one coin is full at once and at level 1 already above what is safe in a
death. In `Conversation` the samples have every layout with empty and repeated lists and numbers
beyond one byte; four clicks are the way into the game and one more request, and one broadcast
meets the join in every order. In `ClientState` one command is under way while another is
typed against the old picture, the two slots can be exchanged under it, and one
other player is the least that can leave under a snapshot.

Constraint of a model only: `MCRaceEnds` (`World`) explores a race of a departure with a call on the same
player up to the end of that call. Of the properties only `OnItsGround` and `DeadNpcsAreCleared` speak
of what comes later, and they are theorems without that constraint. A behaviour that is cut off so has satisfied
`GhostsComeBack`, which promises nothing once `raced` holds, and `raced` holds for ever.

Bounds of a model only: `MaxPlayerId`, `MaxMatches`, `MaxQueue` and "one pending choice
per connection" (Sessions), `MaxClans`, `MaxSaves`, `MaxLevel`, `MaxThings`, `MaxSafeGold`,
`MaxSafeItems`, `MaxClicks`, `MaxBroadcasts`, `MaxCommands`, `MaxUpdates`. Each is a conjunct of a
guard. The code's queue of commands is unbounded; the receiver blocks at `MaxQueue` in the model,
which postpones a command and loses none. `MaxSize`, `MaxMembers`, `PopulationLimit` and
a match's `max` are parameters of the code.

`CHECK_DEADLOCK FALSE` is set only for the queue, whose threads may all have stopped after a
close or all be waiting for a call nobody makes, and for the conversation, which ends. The other
systems always have a step.

## 4. Fairness

- **Queue**: `WF` on each thread's resumption. A thread that is awake gets the mutex, which no
  method holds across a wait. Nobody has to call anything.
- **World**: `WF` on the accesses of a call that the game loop is in (`CallStep`) and of a
  departure once begun (`LeaveStep`): neither blocks. `SF` on `Update`, because `tick` comes to it
  only when the queue of commands is empty: the game loop is assumed to find it so again and again.
  A match whose clients keep its queue filled for ever would keep the loop in that match for ever
  (`server/game/basic_match.cpp:68`), which these modules do not promise anything about. Players are not
  assumed to do anything; in particular `GhostsComeBack` does not rely on their leaving.
- **ClientState**: the game loop goes on, executes what is in the queue and finds it empty again
  and again (`SF` on the step that needs it empty, and the assumption itself: `tick` ends only
  then); a frame applies what has arrived; the thread that announced a departure removes the player.
  The user and the others need do nothing.
- **Sessions**, **Persistence**, **Clans**, **Life**, **Economy** and **Conversation** have safety
  properties and action properties only.

## 5. Proofs

`tlapm <Module>.tla` checks each module of proofs on its own. The proofs hold for any sets
of players, nicks, names, handlers, items, any map, formulas and any limits within the named
assumptions.

| module | theorem | says |
|---|---|---|
| `ClansProofs` | `MembershipCorrect` | the invariant `MembershipInv` |
| | `ClanIdCorrect`, `ConsistentCorrect`, `WaysCorrect` | `ClanIdHasMembership`, `ClansAreConsistent`, `WaysIntoClans` |
| | `FounderCorrect`, `StandingCorrect`, `NamesCorrect`, `CapacityCorrect`, `JoinsByRequestCorrect`, `BanIsFinalCorrect` | their parts |
| `SessionsProofs` | `SessionsCorrect` | the invariant `SessionsInv` |
| | `NickRegistryCorrect`, `ListsCorrect`, `CountCorrect` | `NickRegistryExact`, `ListsAreLive`, `CountIsExact` |
| | `RoomsCorrect` | `ImplementsRooms`: `Sessions` implements `Rooms` |
| `WorldProofs` | `WorldCorrect` | the invariant `WorldInv` |
| | `ConsistentCorrect`, `JumpsCorrect` | `WorldIsConsistent`, `NoOtherJumps` |
| | `OccupiedCorrect`, `GroundCorrect`, `WaitersCorrect`, `DeadNpcsCorrect` | the parts of `WorldIsConsistent` |
| `TransportProofs` | `QueueCorrect` | the invariant `QueueInv` of the queue |
| | `SleepersCorrect` | `NoSleepers` (from `PoppersCorrect`, `PushersCorrect`) |
| | `ChannelCorrect` | every step of the queue is one of `FifoChannel`, a late push, or none |
| | `LayoutsDecode` | a reader gives back what was put, and says of a part of it that it is short, for any layout |
| | `EndsCorrect` | `EndsAgree` |
| | `ConversationCorrect` | the invariant `IInv` of a client and its handler |
| | `MessagesCorrect`, `MapCorrect`, `AnswersCorrect` | `MessagesArriveWhole`, `MapReachesGame`, `AnswersReachUser` |
| `PersistenceProofs` | `SoloCorrect` | the invariant `SoloInv` of one saver |
| | `WholeCorrect`, `CacheCorrect`, `KeepsCorrect` | `SaveIsWhole`, `CacheIsDisk`, `EmptyWorldKeepsSave` |
| | `StoreCorrect` | `ImplementsStore`: one saver implements `SaveStore` |
| `EconomyProofs` | `EconomyInvariant` | the inductive invariant of the belongings |
| | `EconomyInventoriesOrderly`, `EconomyEveryChangeIsTold` | `InventoriesOrderly`, `EveryChangeIsTold` |
| | `EconomyGoldWithinLimit`, `EconomyGhostsTradeNothing` | no purse above its limit; a ghost's belongings do not change |
| | `EconomyGoodsConserved`, `EconomyGoldIsAccountedFor` | `GoodsConserved`, `GoldIsAccountedFor` |
| | `EconomyRestorationIsFaithful` | `RestorationIsFaithful` |
| `ClientStateProofs` | `ClientInvariant` | the invariant `ClientInv` of the view and the updates on their way |
| | `ClientViewIsExact` | `ViewIsExact` |
| `LifeProofs` | `LifeCorrect` | the invariant `LifeInvariant` |
| | `LifeExperience`, `LifeGhosts`, `LifeMana` | `ExperienceMatchesLevel`, `GhostsAreFrozen`, `ManaIsPaidFor` |

Each of these eight modules also proves the type invariant of its component (`TypeCorrect`,
`EconomyTypes`, `LifeTypes`, `ClientTypes`, `QueueTypesCorrect`, `ConversationTypes`). With them
every invariant and every action property that a passing run checks is also a theorem.

**Clans.** `ClanIdHasMembership` alone is not inductive: `Kick` clears the target's clan_id
whichever clan it names, which is harmless only in one direction, and `LeaveClan` needs that
the founder of a clan is a member. `MembershipInv` joins the types with four state
properties and says that ids not given yet have empty sets; capacity is separate because it argues about cardinalities.

**Sessions.** `NickRegistryExact` needs that ids are handed out once: two connections with one
id would both own its nick. `ListsAreLive` needs that a connection in any state but
`IN_MATCH` is in no list, and `CountIsExact` needs `ListsAreLive`: the decrement of
the `uint8_t` is right only because the connection that leaves was in the list. So `SessionsInv`
is their conjunction with the types. The byte does not overflow by `CapacitiesAssumption`
(a maximum fits in the byte it is sent in).

**World.** The two threads need an invariant each of what they have read and not written yet. `CallInv`:
the cell a call goes to stays free until it is marked, whoever leaves in between, and, as long as
no departure has overlapped a call on the same player, what the call has read still holds (its
player is there, at the cell it came from, and not on its way out). `LeaverInv` says the same of `remove_player`.
`GridInv` has the matrix: `MarksAgree` leaves out of the equation the one character whose mark is `InHand`,
and `Apart` lets two characters share a cell only while one of them is on its way out. `LoopInv` is what
the loops rely on: what `todo` still holds is present, and in the NPC loop every dead NPC is still to be
visited. `OnItsGround` and `DeadNpcsAreCleared` need no such premise and hold through any race. There is one
lemma per access (`UnmarkStep`, `PlaceStep`, ..., `LeaverCancelsStep`) and one per operation.

**The lobby.** `Place` picks the connection of a nick by a CHOOSE; `NickRegistryExact` makes it
unique, so `PlaceNow` and `PlaceNext` say where a nick is before and after a step without it.
Each action of a receiver then moves the nick of its own connection or none. A join needs
room in the *set of nicks* of the match; `InsideIsSmall` gets it from the byte counter, through
a surjection of the match's connections onto its nicks.

**Queue.** `NoSleepingPopper` and `NoSleepingPusher` are inductive together with the types. Each
needs the other: after a push no producer may be asleep unless the queue is full, and none is
because, by the second, producers sleep only on a full queue and the push had room.

**Wire format.** `Decodes(reader, e, v)` says of one reader what a protocol without frames needs: of
`e` followed by any bytes it makes `v` and leaves those bytes, and of any proper prefix of `e` it says
`Short`. There is a lemma for each kind of scalar (`U16Decodes`, ...: arithmetic with 256 and 65536, the
sign of an `int32_t` included), then one for readers in a row (`EachReads`): those whose bytes are
there are whole, the one that meets the end of the prefix is short, and so is the row. A list and a
grid are a count and readers in a row, so nested lists need no more, and `LayoutsDecode` is the
sum of it. The recursive functions inside `GetEach` and `FlattenSeq` are shown to exist and to
satisfy their equations first (`ResultsExist`, `FlatteningExists`), by induction on the set of
the lengths for which it is true (`NatSetInduction`). `EndsCorrect` then compares the two protocol
modules opcode by opcode (`TablesAgree`). Only layouts with enumerations differ, where a byte is
read as one of four; `NarrowDecodes` needs that the value is one of them.

**Conversation.** `MessagesArriveWhole` says that the bytes on a stream are those of the messages
not read yet. It is inductive with the types, because every message is one of `Requested` or
`Updated`, and those decode (`RequestedFit`, `UpdatedFit`): a read takes the first message whole or, if
the stream ended within it, nothing (`FirstArrives`). `MapReachesGame` and `AnswersReachUser` are not inductive:
neither says anything of a window still in the lobby, nor of an answer on its way. `Answers`
adds that. `Coming` is the row of updates this client will still come to: its inbox, then the
stream, then the sender's queue. While it logs in (`LoggingIn`) only two kinds of update are coming,
and either the request is still to be read, or its answer is coming, or the stream ends. In the lobby
(`Choosing`) the server has it in no match, or `MATCH_JOINED` is coming or about to be sent;
no map comes before that, and behind it comes the map or the step that sends it.
So when the window takes `MATCH_JOINED` the map is still to come, and stays so on the page where race
and class are chosen. `Linked` ties the ends of threads, queues and streams to one another. A step is
described by what it does to `Coming`: `Taken`, `Added` and `Lost` are a message taken at the front, put at
the end, and lost with a sender that dies. TLC checked `IInv` on the instance of the run before it was proved.

**Persistence.** `Solo` is one saver (`Savers = {"loop"}`) on a file system that reports every error
(`"close" \notin Failures`): the game loop before `q` is pressed. `SoloInv` adds where its
stream is open and that what it is about to rename is its snapshot. For the store, `StampsInv` says in what order the snapshots were
taken: the one under way is newer than the file, and neither is newer than the number of snapshots taken.
`StoreStep` then maps each step of `save_state`: taking is `Offer`, a failure `Withdraw`, the rename
`Commit`, the refreshed cache `Learn`, a crash anywhere `Stop`. With two savers none of this holds, as section 6
says: a torn file may be renamed over the save, and an earlier snapshot over a later one.

**Economy.** First one lemma for each operation of the inventory: it keeps the slots orderly
(`AddItemKeepsOrder` needs that a stack it finds is the only one of its kind, and that the first
vacant slot exists, `MinIsMember`). Restoration is a fold over the slots, so its lemma carries
that what is added so far is orderly. The invariant joins order with the purses' limits, because a
legal snapshot needs both, and with `told = inv`.

*Conservation.* What exists is a sum over players, slots and cells, so the proof first needs sums
over any finite set. A sum is a recursive function over sets, and `SumExists` shows by induction on the
set that there is one (`SubsetInduction`, from the well-foundedness of the naturals applied to a set,
`NatSetInduction`); `SumWithChange`, `SumOfParts` and `SumRenamed` are what is used of it. Each operation of
the inventory then has a lemma that says by how much it changes the quantity of a kind (`QtyIn...`), and
`GoodsMove` adds up a step: what one player's slots, bank or ground gain is what another place loses or
what the ledger records. The hard case is a death, which scatters any number of things over the bare cells
nearest to the body: things and cells are matched by rank (`TurnIsRank`, `RanksAreDistinct`), so
each thing lands on one cell and none on two (`ScatteredKeepsWorth`). `GoldMove` does the same
for coins, for each step that the action property allows.

*Restoration.* `RestoringExists` and `RestoringEnds` follow the loop slot by slot (`IsPartial`): after each,
what the saved slots so far held is there, worn if it was worn, each at its place in the row of
the slots that held something, and nothing else; after the last it is `Restored` (`RestoredIsRestored`).

**ClientState.** `ViewIsExact` speaks only of moments at which nothing is on the way, and no step
preserves it by itself. `ClientInv` says that the updates on the way lead to the
truth: at every moment the last `INVENTORY` among them, or else the view, is the player's inventory; between
two ticks the last `SNAPSHOT`, or else the view, shows its life and everybody who stays, and
each announced departure of somebody who stays is followed by a snapshot. For the snapshot that is taken and not sent yet the same is said of `image`
(`ImageIsExact`), with those who are `leaving` left out: a thread may announce a departure while the
image of the departed is still to be sent. `LatestQueued` and `LatestFetched` are the only facts about
sequences the rest needs: what sending and applying do to the last update of a type.

**Life.** `Good(p, b)` is a body in order: types, ranges, and an experience within the limits of its
level. One lemma for each method says that it keeps a body good and what it leaves alone.
`LevelForStops` is the heart: the loop of `add_experience` stops at a level whose limit is above
the sum and whose predecessor's is not, because the limits grow. The action properties follow from what
the method lemmas say of level, mana and death.

**Assumptions.** `IdsAssumption` (World): ids of players and NPCs differ; the code's counter
of logins would reach the first NPC id after a thousand logins. `MapAssumption`: staff stand
in their city, not in a wall. `PlayersAssumption`: 0 is no player's id, casters are players.
`LevelsAssumption`, `BodiesAssumption`, `GoldAssumption`: limits, maxima of mana and of gold grow with the level, as the formulas
of `game_formulas.cpp` do. `SavesAssumption`: what a save holds of a player has its slots in order. An autosave runs between two
commands; main's final save reads the players while the loop runs, so the purse it finds may be above the
limit of the level it finds. That it finds no inventory in the middle of an operation is a restriction of the model. `PlayersAssumption` and `GroundAssumption` (Economy): players and cells are finite
sets, or there would be nothing to add up. `InteractionsAssumption` (ClientState): the interactions are some of `NPCInteraction`, resurrecting
among them. `RequestsAssumption`, `UpdatesAssumption`
(Conversation): what the `send_` functions are given has the types of their parameters and a length that
its count can hold (`put_string` and most lists throw at more than 65535; a list of equipment or of the members
of a clan is short by the rules of the game), and a race, a class or a
direction is one of the four. `BroadcastsAssumption`: what a match broadcasts is none of the updates
that the lobby consumes. `MatchIdsAssumption`: match ids are `uint32_t`, and few enough for one `MATCH_LIST`. `MaxMatchesAssumption`, `MaxClansAssumption`, `MaxPlayerIdAssumption`,
`MaxSavesAssumption`, `BoundsAssumption` only type the bounds, `MarksAssumption` and `ItemsAssumption` keep marks apart
from data.

**Checked only by TLC.** Liveness: `GhostsComeBack`, `CloseEndsPop`,
`DepartedFade` and the fairness in `ImplementsChannel`, because the prover does not handle
fairness or ENABLED.

## 6. What the code does that its documents deny

Three runs each check one statement of the repository and TLC finds it violated.

| run | statement | what happens |
|---|---|---|
| `Sessions_SaveForgets` | `README.md:161-163`: who rejoins with the nick and match of a save is restored | each save replaces the file by the players present now, so those who left are forgotten |
| `Shutdown` | `docs/Documentación Técnica.md:413-415`: a clean shutdown saves, through a temporary file and a rename "para evitar guardados corruptos" | main saves before it stops the game loop, and both use one temporary file: the loop truncates what main has written, main renames the torn file over the save, the write of the loop fails and is reported, and the exit leaves a torn save |
| `Conversation_StaysInStep` | `docs/Documentación Técnica.md:179-182` and the comment at `server/receiver_thread.cpp:307-308`: a message is read opcode first, then payload, also when it is refused | an opcode refused in the state of the connection is answered and its payload left in the stream; a second click on Join is enough |

Others were met while modelling and have no run of their own:

- A founder that leaves the match and comes back with the same id may found again: the clan_id is
  lost with the `Player` (`README.md:113`).
- `common/queue.h:25` says that any method of a closed queue raises. `close` does not wake a producer that
  waits for room; one that a consumer or a spurious wake-up has woken, and that finds room, adds its item after
  the close (`LatePush`, `common/queue.h:108-116`); and `pop` hands out the items left in a closed queue
  (`:123-137`), which `FifoChannel` has as what its users rely on.
- `leave_match` destroys a `Player` on a receiver's thread while the game loop may be in a call on it
  (`docs/Documentación Técnica.md:524`: the simulation lives in the game loop). With the premise
  `~ raced` taken from `OccupiedExact` TLC finds, in `World`, a cell that is marked for ever: `remove_player` clears the mark of the
  player and erases it between two of the writes of `move_character` (`server/world/world.cpp:368-370`) or of a teleport
  (`:393-395`), and the last of these marks the cell the player was going to. With the premise taken from `WaitersArePresent`
  it finds an entry in `pending_resurrections` of a player that is gone, made by `start_resurrection`
  (`:471`) after `remove_player` had erased it (`:73`); a player that comes back with the same id is then
  immobile, and carried off. `server/world/world.h:46-47` says that `occupied` is true of the cells in use.
- Main's final save and an autosave share one temporary file. Besides the run `Shutdown`: an autosave that
  began earlier may overwrite the final save (`docs/Documentación Técnica.md:414`), and an error met only by the
  flush at close goes unnoticed (`:415`). Main also reads the players while the loop runs
  (`server/server.cpp:278-279`): the level, experience and gold it finds of one player may be those of two moments.
- With nobody in any match nothing is saved, the names of the matches included
  (`README.md:160`).
- A player revived by a priest while its own resurrection is pending stays immobile and is
  then carried off (`server/world/world.cpp:341` calls the immobile a ghost that waits).
- A ban is kept by player id (`README.md:118`); the same nick at its next login is not banned.
- A restoration does not look at the saved life, mana and death (`README.md:163`,
  `server/commands/restore_player_command.cpp:42-44`); one whose saved position is occupied leaves
  the player in the match without an avatar, and one queued behind an older choice of race
  is without effect.
- Meditation is ended by moving alone; `README.md:110` says by any other action.
- The client says "El banco está lleno" when `/curar` finds nothing to heal
  (`client/sdl/state/server_update_handler.cpp:505`, `server/game/npcs/priest.cpp:22`), shows two
  statuses of clan operations under each other's meaning (`:309`, `:312`), and tells of a
  resurrection only if two snapshots differ (`:84`), although the comment at `:420-421` counts on it.

## 7. Not modelled

- Rendering, audio, animation and the layout of the forms: no state the server or the
  properties depend on.
- Loaders of TOML and JSON and the contents of the save file: the models take what they load as
  constants; a saved player is any legal one.
- The set-up and shutdown of sockets and the resolver: calls of the operating system.
- The texts of messages and of the chat.
- The drift arithmetic of the game loop (`server/gameloop_thread.cpp:176-200`): floating-point seconds.
- The life of hostile NPCs and the numbers behind the dice: which outcome is likelier is not a
  matter of these properties.
- The stop of the acceptor and of the handlers still connected at shutdown, and a thread that cannot
  be started.
- Data races inside one object (a `std::optional` read while it is assigned, a `map` erased from
  while it is walked, a `Player` used after its destruction, an inventory read by main's final save in the
  middle of an operation). The modules order such accesses.
- A `World` after a departure has raced with a call on the same player: its properties say that nothing
  but such a race breaks them, and section 6 what the race does.
- A command being served however many matches there are: the loop serves one match until its queue is empty.

## 8. Plan

Done: `ClosableQueue` with `FifoChannel`; `Sessions` with `Rooms`; `Clans`; `Persistence` with `SaveStore`;
`World`; `Shutdown` for the two saves; `Inventory` and `Economy`; `Life`; the wire protocol with `Conversation`; `ClientState`; the proofs
of section 5.

1. `Shutdown`: the acceptor, the handlers and the queues too; everybody joins.
2. `Conversation` with several clients and `ClosableQueue` in the place of its sequences, and a
   thread that cannot be started.
3. `ClientState` with the texts of deaths and resurrections.
4. Proofs: what `GhostsComeBack` needs of each step, as action properties (its safety part), and `Conversation` with a `FifoChannel` in the place of `outbox`.
