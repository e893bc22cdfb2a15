-------------------------- MODULE ClientStateProofs --------------------------
(***************************************************************************)
(* Machine-checked proofs about ClientState, for any players, NPCs, items, *)
(* slots and lengths of the queues.  ViewIsExact is not inductive: it says *)
(* nothing while updates are on the way.  What holds throughout is that    *)
(* the updates on the way, once applied in their order, lead the view to   *)
(* the truth: the last INVENTORY among them is the player's inventory, the *)
(* last SNAPSHOT shows who is here, and nobody who stays is announced as   *)
(* gone after it.                                                          *)
(***************************************************************************)
EXTENDS ClientState, TLAPS, SequenceTheorems

\* The last update of a type among those on the way, and there being none.
Latest(us, type, i) ==
    /\ i \in DOMAIN us /\ us[i].type = type
    /\ \A j \in DOMAIN us : i < j => us[j].type # type
Without(us, type) == \A i \in DOMAIN us : us[i].type # type

\* Once all of us is applied to the view v, it shows the inventory inv ...
ShowsInventory(v, us, inv) ==
    /\ Without(us, "INVENTORY") => v.slots = inv
    /\ \A i \in DOMAIN us : Latest(us, "INVENTORY", i) => us[i].slots = inv

\* ... whether Me is a ghost ...
ShowsLife(v, us, ghost) ==
    /\ Without(us, "SNAPSHOT") => v.ghost = ghost
    /\ \A i \in DOMAIN us :
         Latest(us, "SNAPSHOT", i) => Me \in us[i].players /\ us[i].ghost = ghost

\* ... and the player p.
ShowsPlayer(v, us, p) ==
    /\ Without(us, "SNAPSHOT") => p \in v.players
    /\ \A i \in DOMAIN us : Latest(us, "SNAPSHOT", i) => p \in us[i].players
    /\ \A i \in DOMAIN us :
         us[i].type = "PLAYER_LEFT" /\ us[i].player = p =>
           \E j \in DOMAIN us : i < j /\ us[j].type = "SNAPSHOT"

-----------------------------------------------------------------------------
\* Updates that are sent and fetched.

\* What is sent comes after what was on the way.
LEMMA Queued ==
    ASSUME NEW us \in Seq(Updates), NEW a \in Updates
    PROVE  /\ us \o <<a>> = Append(us, a)
           /\ Append(us, a) \in Seq(Updates)
           /\ Len(us) \in Nat /\ DOMAIN us = 1..Len(us)
           /\ DOMAIN Append(us, a) = 1..Len(us) + 1
           /\ Append(us, a)[Len(us) + 1] = a
           /\ \A i \in DOMAIN us : Append(us, a)[i] = us[i]
  OBVIOUS

\* Two updates told together.
LEMMA QueuedTwice ==
    ASSUME NEW us \in Seq(Updates), NEW a \in Updates, NEW b \in Updates
    PROVE  us \o <<a, b>> = Append(Append(us, a), b)
  OBVIOUS

\* What is fetched came first, the rest moves up.
LEMMA Fetched ==
    ASSUME NEW us \in Seq(Updates), us # <<>>
    PROVE  /\ Head(us) = us[1] /\ Head(us) \in Updates
           /\ Tail(us) \in Seq(Updates)
           /\ Len(us) \in Nat /\ 1 <= Len(us) /\ DOMAIN us = 1..Len(us)
           /\ DOMAIN Tail(us) = 1..Len(us) - 1
           /\ \A i \in DOMAIN Tail(us) : Tail(us)[i] = us[i + 1]
  OBVIOUS

\* The last of a type, after one is sent ...
AfterQueued(us, a, up, type) ==
    /\ Without(up, type) => Without(us, type) /\ a.type # type
    /\ a.type = type => \A i : Latest(up, type, i) => up[i] = a
    /\ a.type # type => \A i : Latest(up, type, i) => Latest(us, type, i) /\ up[i] = us[i]

\* What Append does to the last update of a type.
LEMMA LatestQueued ==
    ASSUME NEW us \in Seq(Updates), NEW a \in Updates, NEW type
    PROVE  AfterQueued(us, a, Append(us, a), type)
<1> DEFINE up == Append(us, a)
<1>1. /\ Len(us) \in Nat /\ DOMAIN us = 1..Len(us)
      /\ DOMAIN up = 1..Len(us) + 1
      /\ up[Len(us) + 1] = a
      /\ \A i \in DOMAIN us : up[i] = us[i]
  BY Queued
<1> HIDE DEF up
<1>2. DOMAIN us \subseteq DOMAIN up /\ Len(us) + 1 \in DOMAIN up
  BY <1>1
<1>3. Without(up, type) => Without(us, type) /\ a.type # type
  BY <1>1, <1>2 DEF Without
<1>4. ASSUME NEW i, Latest(up, type, i), a.type = type PROVE up[i] = a
  BY <1>1, <1>2, <1>4 DEF Latest
<1>5. ASSUME NEW i, Latest(up, type, i), a.type # type PROVE Latest(us, type, i) /\ up[i] = us[i]
  <2>1. i \in DOMAIN us
    BY <1>1, <1>5 DEF Latest
  <2> QED
    BY <1>1, <1>2, <1>5, <2>1 DEF Latest
<1> QED
  BY <1>1, <1>3, <1>4, <1>5 DEF up, AfterQueued

\* ... and after one is fetched.
AfterFetched(us, t, type) ==
    /\ Without(t, type) => IF us[1].type = type THEN Latest(us, type, 1) ELSE Without(us, type)
    /\ \A i : Latest(t, type, i) => Latest(us, type, i + 1) /\ t[i] = us[i + 1]

\* What Tail does to the last update of a type.
LEMMA LatestFetched ==
    ASSUME NEW us \in Seq(Updates), us # <<>>, NEW type
    PROVE  AfterFetched(us, Tail(us), type)
<1> DEFINE t == Tail(us)
<1>1. /\ Len(us) \in Nat /\ 1 <= Len(us) /\ DOMAIN us = 1..Len(us)
      /\ DOMAIN t = 1..Len(us) - 1
      /\ \A i \in DOMAIN t : t[i] = us[i + 1]
  BY Fetched
<1> HIDE DEF t
<1>2. \A j \in DOMAIN us : j # 1 => j - 1 \in DOMAIN t /\ t[j - 1] = us[j]
  BY <1>1
<1>3. ASSUME Without(t, type) PROVE \A j \in DOMAIN us : j # 1 => us[j].type # type
  BY <1>2, <1>3 DEF Without
<1>4. Without(t, type) => IF us[1].type = type THEN Latest(us, type, 1) ELSE Without(us, type)
  BY <1>1, <1>3 DEF Without, Latest
<1>5. ASSUME NEW i, Latest(t, type, i) PROVE Latest(us, type, i + 1) /\ t[i] = us[i + 1]
  <2>1. i \in DOMAIN t /\ t[i].type = type
    BY <1>5 DEF Latest
  <2>2. i + 1 \in DOMAIN us /\ t[i] = us[i + 1]
    BY <1>1, <2>1
  <2>3. ASSUME NEW j \in DOMAIN us, i + 1 < j PROVE us[j].type # type
    <3>1. j - 1 \in DOMAIN t /\ t[j - 1] = us[j] /\ i < j - 1
      BY <1>1, <1>2, <2>1, <2>3
    <3> QED
      BY <1>5, <3>1 DEF Latest
  <2> QED
    BY <2>1, <2>2, <2>3 DEF Latest
<1> QED
  BY <1>4, <1>5 DEF t, AfterFetched

-----------------------------------------------------------------------------
\* What the client is going to show, when updates are applied and sent.

\* Only one kind of update changes each part of the view.
LEMMA AppliedIs ==
    ASSUME NEW v \in View, NEW u \in Updates
    PROVE  /\ Applied(v, u).slots = IF u.type = "INVENTORY" THEN u.slots ELSE v.slots
           /\ Applied(v, u).ghost =
                IF u.type = "SNAPSHOT" /\ Me \in u.players THEN u.ghost ELSE v.ghost
           /\ Applied(v, u).players =
                IF u.type = "SNAPSHOT" THEN u.players
                ELSE IF u.type = "PLAYER_LEFT" THEN v.players \ {u.player} ELSE v.players
<1>1. u.type \in {"SNAPSHOT", "PLAYER_LEFT", "INVENTORY", "DEATH", "OUT_OF_RANGE"}
  BY DEF Updates, Snapshots
<1>2. CASE u.type = "SNAPSHOT"
  BY <1>2 DEF Applied, ApplySnapshot, View
<1>3. CASE u.type = "PLAYER_LEFT"
  BY <1>3 DEF Applied, View
<1>4. CASE u.type = "INVENTORY"
  BY <1>4 DEF Applied, View
<1>5. CASE u.type = "DEATH"
  BY <1>5 DEF Applied, OnDeath, View
<1>6. CASE u.type = "OUT_OF_RANGE"
  BY <1>6 DEF Applied, OnRefusal, View
<1> QED
  BY <1>1, <1>2, <1>3, <1>4, <1>5, <1>6

\* Applying an update does not change where the view is led.
LEMMA AppliedShows ==
    ASSUME NEW v \in View, NEW us \in Seq(Updates), us # <<>>
    PROVE  /\ \A inv : ShowsInventory(v, us, inv) =>
                         ShowsInventory(Applied(v, Head(us)), Tail(us), inv)
           /\ \A ghost : ShowsLife(v, us, ghost) =>
                           ShowsLife(Applied(v, Head(us)), Tail(us), ghost)
           /\ \A p : ShowsPlayer(v, us, p) => ShowsPlayer(Applied(v, Head(us)), Tail(us), p)
<1> DEFINE u == Head(us)
           t == Tail(us)
           after == Applied(v, u)
<1>1. /\ u = us[1] /\ u \in Updates
      /\ Len(us) \in Nat /\ 1 <= Len(us) /\ DOMAIN us = 1..Len(us)
      /\ DOMAIN t = 1..Len(us) - 1
      /\ \A i \in DOMAIN t : t[i] = us[i + 1]
  BY Fetched
<1>2. /\ after.slots = IF u.type = "INVENTORY" THEN u.slots ELSE v.slots
      /\ after.ghost = IF u.type = "SNAPSHOT" /\ Me \in u.players THEN u.ghost ELSE v.ghost
      /\ after.players = IF u.type = "SNAPSHOT" THEN u.players
                         ELSE IF u.type = "PLAYER_LEFT" THEN v.players \ {u.player} ELSE v.players
  BY <1>1, AppliedIs
<1>3. \A type : AfterFetched(us, t, type)
  BY LatestFetched
<1>4. /\ 1 \in DOMAIN us
      /\ \A i \in DOMAIN t : i + 1 \in DOMAIN us /\ t[i] = us[i + 1]
  BY <1>1
<1> HIDE DEF u, t, after
<1>5. ASSUME NEW inv, ShowsInventory(v, us, inv) PROVE ShowsInventory(after, t, inv)
  <2>1. Without(t, "INVENTORY") => after.slots = inv
    BY <1>1, <1>2, <1>3, <1>4, <1>5 DEF ShowsInventory, AfterFetched
  <2>2. ASSUME NEW i \in DOMAIN t, Latest(t, "INVENTORY", i) PROVE t[i].slots = inv
    BY <1>3, <1>4, <1>5, <2>2 DEF ShowsInventory, AfterFetched
  <2> QED
    BY <2>1, <2>2 DEF ShowsInventory
<1>6. ASSUME NEW ghost, ShowsLife(v, us, ghost) PROVE ShowsLife(after, t, ghost)
  <2>1. Without(t, "SNAPSHOT") => after.ghost = ghost
    BY <1>1, <1>2, <1>3, <1>4, <1>6 DEF ShowsLife, AfterFetched
  <2>2. ASSUME NEW i \in DOMAIN t, Latest(t, "SNAPSHOT", i)
        PROVE  Me \in t[i].players /\ t[i].ghost = ghost
    BY <1>3, <1>4, <1>6, <2>2 DEF ShowsLife, AfterFetched
  <2> QED
    BY <2>1, <2>2 DEF ShowsLife
<1>7. ASSUME NEW p, ShowsPlayer(v, us, p) PROVE ShowsPlayer(after, t, p)
  <2>1. ASSUME Without(t, "SNAPSHOT") PROVE p \in after.players
    <3>1. CASE u.type = "SNAPSHOT"
      BY <1>1, <1>2, <1>3, <1>4, <1>7, <2>1, <3>1 DEF ShowsPlayer, AfterFetched
    <3>2. CASE u.type # "SNAPSHOT"
      <4>1. Without(us, "SNAPSHOT") /\ p \in v.players
        BY <1>1, <1>3, <1>7, <2>1, <3>2 DEF ShowsPlayer, AfterFetched
      <4>2. ~(u.type = "PLAYER_LEFT" /\ u.player = p)
        BY <1>1, <1>4, <1>7, <4>1 DEF ShowsPlayer, Without
      <4> QED
        BY <1>2, <3>2, <4>1, <4>2
    <3> QED
      BY <3>1, <3>2
  <2>2. ASSUME NEW i \in DOMAIN t, Latest(t, "SNAPSHOT", i) PROVE p \in t[i].players
    BY <1>3, <1>4, <1>7, <2>2 DEF ShowsPlayer, AfterFetched
  <2>3. ASSUME NEW i \in DOMAIN t, t[i].type = "PLAYER_LEFT", t[i].player = p
        PROVE  \E j \in DOMAIN t : i < j /\ t[j].type = "SNAPSHOT"
    <3>1. PICK k \in DOMAIN us : i + 1 < k /\ us[k].type = "SNAPSHOT"
      BY <1>4, <1>7, <2>3 DEF ShowsPlayer
    <3>2. k - 1 \in DOMAIN t /\ i < k - 1 /\ t[k - 1] = us[k]
      BY <1>1, <3>1
    <3> QED
      BY <3>1, <3>2
  <2> QED
    BY <2>1, <2>2, <2>3 DEF ShowsPlayer
<1> QED
  BY <1>5, <1>6, <1>7 DEF u, t, after

\* An update of another kind, or about somebody else, leads nowhere else.
LEMMA OtherUpdatesShow ==
    ASSUME NEW v, NEW us \in Seq(Updates), NEW a \in Updates
    PROVE  /\ a.type # "INVENTORY" =>
                \A inv : ShowsInventory(v, us, inv) => ShowsInventory(v, Append(us, a), inv)
           /\ a.type # "SNAPSHOT" =>
                \A ghost : ShowsLife(v, us, ghost) => ShowsLife(v, Append(us, a), ghost)
           /\ a.type # "SNAPSHOT" =>
                \A p : (a.type = "PLAYER_LEFT" => a.player # p) /\ ShowsPlayer(v, us, p)
                         => ShowsPlayer(v, Append(us, a), p)
<1> DEFINE up == Append(us, a)
<1>1. /\ Len(us) \in Nat /\ DOMAIN us = 1..Len(us)
      /\ DOMAIN up = 1..Len(us) + 1
      /\ up[Len(us) + 1] = a
      /\ \A i \in DOMAIN us : up[i] = us[i]
  BY Queued
<1>2. \A type : AfterQueued(us, a, up, type)
  BY LatestQueued
<1>3. \A type, i : Latest(us, type, i) => i \in DOMAIN us
  BY DEF Latest
<1> HIDE DEF up
<1>4. ASSUME a.type # "INVENTORY", NEW inv, ShowsInventory(v, us, inv)
      PROVE  ShowsInventory(v, up, inv)
  BY <1>2, <1>3, <1>4 DEF ShowsInventory, AfterQueued
<1>5. ASSUME a.type # "SNAPSHOT", NEW ghost, ShowsLife(v, us, ghost)
      PROVE  ShowsLife(v, up, ghost)
  BY <1>2, <1>3, <1>5 DEF ShowsLife, AfterQueued
<1>6. ASSUME a.type # "SNAPSHOT", NEW p, a.type = "PLAYER_LEFT" => a.player # p,
             ShowsPlayer(v, us, p)
      PROVE  ShowsPlayer(v, up, p)
  <2>1. /\ Without(up, "SNAPSHOT") => p \in v.players
        /\ \A i \in DOMAIN up : Latest(up, "SNAPSHOT", i) => p \in up[i].players
    BY <1>2, <1>3, <1>6 DEF ShowsPlayer, AfterQueued
  <2>2. ASSUME NEW i \in DOMAIN up, up[i].type = "PLAYER_LEFT", up[i].player = p
        PROVE  \E j \in DOMAIN up : i < j /\ up[j].type = "SNAPSHOT"
    <3>1. i \in DOMAIN us
      BY <1>1, <1>6, <2>2
    <3>2. PICK j \in DOMAIN us : i < j /\ us[j].type = "SNAPSHOT"
      BY <1>1, <1>6, <2>2, <3>1 DEF ShowsPlayer
    <3> QED
      BY <1>1, <3>2
  <2> QED
    BY <2>1, <2>2 DEF ShowsPlayer
<1> QED
  BY <1>4, <1>5, <1>6 DEF up

\* A new inventory is what will be shown.
LEMMA InventoryShows ==
    ASSUME NEW v, NEW us \in Seq(Updates), NEW a \in Updates, a.type = "INVENTORY"
    PROVE  ShowsInventory(v, Append(us, a), a.slots)
<1> DEFINE up == Append(us, a)
<1>1. AfterQueued(us, a, up, a.type)
  BY LatestQueued
<1> HIDE DEF up
<1>2. ~Without(up, a.type) /\ \A i : Latest(up, a.type, i) => up[i] = a
  BY <1>1 DEF AfterQueued
<1>3. ShowsInventory(v, up, a.slots)
  BY <1>2 DEF ShowsInventory
<1> QED
  BY <1>3 DEF up

\* So is a new snapshot, whatever was announced before it.
LEMMA SnapshotShows ==
    ASSUME NEW v, NEW us \in Seq(Updates), NEW a \in Updates, a.type = "SNAPSHOT"
    PROVE  /\ Me \in a.players => ShowsLife(v, Append(us, a), a.ghost)
           /\ \A p \in a.players : ShowsPlayer(v, Append(us, a), p)
<1> DEFINE up == Append(us, a)
<1>1. /\ Len(us) \in Nat /\ DOMAIN us = 1..Len(us)
      /\ DOMAIN up = 1..Len(us) + 1
      /\ up[Len(us) + 1] = a
  BY Queued
<1>2. AfterQueued(us, a, up, a.type)
  BY LatestQueued
<1> HIDE DEF up
<1>5. ~Without(up, a.type) /\ \A i : Latest(up, a.type, i) => up[i] = a
  BY <1>2 DEF AfterQueued
<1>3. Me \in a.players => ShowsLife(v, up, a.ghost)
  BY <1>5 DEF ShowsLife
<1>4. ASSUME NEW p \in a.players PROVE ShowsPlayer(v, up, p)
  <2>1. ASSUME NEW i \in DOMAIN up, up[i].type = "PLAYER_LEFT"
        PROVE  \E j \in DOMAIN up : i < j /\ up[j].type = "SNAPSHOT"
    BY <1>1, <2>1
  <2> QED
    BY <1>4, <1>5, <2>1 DEF ShowsPlayer
<1> QED
  BY <1>3, <1>4 DEF up

-----------------------------------------------------------------------------
\* Types.

\* The client and the match start with the types.
LEMMA InitTypes == Init => TypeOK
<1> SUFFICES ASSUME Init PROVE TypeOK
  OBVIOUS
<1> USE DEF Init
<1>1. [op |-> "SELECT"] \in Commands
  BY DEF Commands
<1>2. commands \in Seq(Commands) /\ Len(commands) <= MaxCommands
  BY <1>1, BoundsAssumption
<1>3. view \in View
  BY DEF View
<1>4. inventory \in Inventories
  BY DEF Empty, Inventories
<1> QED
  BY <1>2, <1>3, <1>4 DEF TypeOK

\* A command that is sent is one that the server knows.
LEMMA SentTypes ==
    ASSUME TypeOK, NEW c \in Commands, SendCommand(c)
    PROVE  commands' \in Seq(Commands) /\ Len(commands') <= MaxCommands
  BY BoundsAssumption DEF TypeOK, SendCommand

\* The user sends commands and points at things that exist.
LEMMA UserTypes ==
    ASSUME TypeOK, User
    PROVE  TypeOK'
<1>1. UNCHANGED <<server, updates>>
  BY DEF User
<1>2. /\ commands \in Seq(Commands) /\ Len(commands) <= MaxCommands
      /\ view \in View /\ view.players \subseteq Others \cup {Me}
      /\ view.npc \in Npcs \cup {NoNpc} /\ view.slot \in Slots \cup {NoSlot}
  BY DEF TypeOK, View
<1> SUFFICES commands' \in Seq(Commands) /\ Len(commands') <= MaxCommands /\ view' \in View
  BY <1>1 DEF TypeOK, server, Snapshots, Updates
<1> DEFINE Sent(c) == c \in Commands /\ SendCommand(c)
           Typed == commands' \in Seq(Commands) /\ Len(commands') <= MaxCommands
<1>3. ASSUME NEW c, Sent(c) PROVE Typed
  BY <1>3, SentTypes
<1> HIDE DEF Typed
<1> SUFFICES Typed /\ view' \in View
  BY DEF Typed
<1>4. ASSUME UNCHANGED commands PROVE Typed
  BY <1>2, <1>4 DEF Typed
<1>5. ASSUME UNCHANGED view PROVE view' \in View
  BY <1>2, <1>5
<1>6. ASSUME NEW t \in Others \cup Npcs, AttackAt(t) PROVE Typed /\ view' \in View
  <2>1. CASE /\ t \in view.players \ {Me} /\ ~ view.ghost
             /\ SendCommand([op |-> "ATTACK", target |-> t])
             /\ UNCHANGED view
    <3>1. [op |-> "ATTACK", target |-> t] \in Commands
      BY <1>2, <2>1 DEF Commands
    <3> QED
      BY <1>3, <1>5, <2>1, <3>1
  <2>2. CASE /\ t \in Npcs
             /\ view' = [view EXCEPT !.npc = t]
             /\ UNCHANGED commands
    BY <1>2, <1>4, <2>2 DEF View
  <2> QED
    BY <1>6, <2>1, <2>2 DEF AttackAt
<1>7. ASSUME NEW s \in Slots, EquipAt(s) PROVE Typed /\ view' \in View
  <2>1. [op |-> "EQUIP", slot |-> s] \in Commands
    BY DEF Commands
  <2> QED
    BY <1>3, <1>5, <1>7, <2>1 DEF EquipAt
<1>8. CASE RightClick
  <2>1. PICK s \in Slots : view' = [view EXCEPT !.slot = s]
    BY <1>8 DEF RightClick
  <2>2. view' \in View
    BY <1>2, <2>1 DEF View
  <2> QED
    BY <1>4, <1>8, <2>2 DEF RightClick
<1>9. CASE PressCheat \/ PressArrow
  <2>1. [op |-> "DIE"] \in Commands /\ [op |-> "MOVE"] \in Commands
    BY DEF Commands
  <2> QED
    BY <1>3, <1>5, <1>9, <2>1 DEF PressCheat, PressArrow
<1>10. ASSUME NEW s \in Slots \cup {NoSlot}, TypeDrop(s) PROVE Typed /\ view' \in View
  <2> DEFINE slot == IF s = NoSlot THEN view.slot ELSE s
  <2>1. CASE /\ slot # NoSlot
             /\ SendCommand([op |-> "DROP", slot |-> slot])
             /\ view' = [view EXCEPT !.slot = NoSlot]
    <3>1. slot \in Slots
      BY <1>2, <2>1
    <3>2. [op |-> "DROP", slot |-> slot] \in Commands
      BY <3>1 DEF Commands
    <3>3. view' \in View
      BY <1>2, <2>1 DEF View
    <3> QED
      BY <1>3, <2>1, <3>2, <3>3
  <2>2. CASE UNCHANGED <<commands, view>>
    BY <1>4, <1>5, <2>2
  <2> QED
    BY <1>10, <2>1, <2>2 DEF TypeDrop
<1>11. ASSUME NEW type \in Interactions, TypeToNpc(type) PROVE Typed /\ view' \in View
  <2>1. CASE view.npc # NoNpc /\ SendCommand([op |-> "INTERACT", npc |-> view.npc, type |-> type])
    <3>1. [op |-> "INTERACT", npc |-> view.npc, type |-> type] \in Commands
      BY <1>2, <2>1 DEF Commands
    <3> QED
      BY <1>3, <1>5, <1>11, <2>1, <3>1 DEF TypeToNpc
  <2>2. CASE UNCHANGED commands
    BY <1>4, <1>5, <1>11, <2>2 DEF TypeToNpc
  <2> QED
    BY <1>11, <2>1, <2>2 DEF TypeToNpc
<1>12. CASE TypeResurrect
  <2>1. [op |-> "RESURRECT"] \in Commands
    BY DEF Commands
  <2>2. CASE UNCHANGED <<commands, view>>
    BY <1>4, <1>5, <2>2
  <2>3. CASE SendCommand([op |-> "RESURRECT"]) /\ UNCHANGED view
    BY <1>3, <1>5, <2>1, <2>3
  <2>4. CASE TypeToNpc("RESURRECT")
    BY <1>11, <2>4, InteractionsAssumption
  <2> QED
    BY <1>12, <2>2, <2>3, <2>4 DEF TypeResurrect
<1>13. CASE Submit
  <2>1. CASE SendCommand([op |-> "PICK_UP"]) /\ UNCHANGED view
    <3>1. [op |-> "PICK_UP"] \in Commands
      BY DEF Commands
    <3> QED
      BY <1>3, <1>5, <2>1, <3>1
  <2> QED
    BY <1>10, <1>11, <1>12, <1>13, <2>1 DEF Submit
<1>14. CASE LeftClick
  BY <1>6, <1>7, <1>14 DEF LeftClick
<1> QED
  BY <1>8, <1>9, <1>13, <1>14 DEF User

\* What is applied leaves a state of the client.
LEMMA AppliedTypes ==
    ASSUME TypeOK, ApplyUpdate
    PROVE  TypeOK'
<1>1. updates # <<>> /\ view' = Applied(view, Head(updates)) /\ updates' = Tail(updates)
  BY DEF ApplyUpdate
<1>2. UNCHANGED <<here, leaving, life, inventory, loop, image, commands>>
  BY DEF ApplyUpdate, server
<1>3. Head(updates) \in Updates /\ updates' \in Seq(Updates)
  BY <1>1, Fetched DEF TypeOK
<1>4. view' \in View
  <2> DEFINE u == Head(updates)
  <2>1. view \in View /\ u \in Updates
    BY <1>3 DEF TypeOK
  <2>2. view' = Applied(view, u)
    BY <1>1
  <2> HIDE DEF u
  <2>3. CASE u \in Snapshots
    BY <2>1, <2>2, <2>3 DEF Snapshots, Applied, ApplySnapshot, View
  <2>4. CASE u \in [type : {"PLAYER_LEFT"}, player : Others]
    BY <2>1, <2>2, <2>4 DEF Applied, View
  <2>5. CASE u \in [type : {"INVENTORY"}, slots : Inventories]
    BY <2>1, <2>2, <2>5 DEF Applied, View
  <2>6. CASE u \in [type : {"DEATH", "OUT_OF_RANGE"}]
    BY <2>1, <2>2, <2>6 DEF Applied, OnDeath, OnRefusal, View
  <2> QED
    BY <2>1, <2>3, <2>4, <2>5, <2>6 DEF Updates
<1> QED
  BY <1>2, <1>3, <1>4 DEF TypeOK

-----------------------------------------------------------------------------
\* The invariant.

\* The image about to be broadcast shows who is here to stay.
ImageIsExact ==
    loop = "broadcast" =>
        /\ image.type = "SNAPSHOT"
        /\ here \ leaving \subseteq image.players
        /\ Me \in here => image.ghost = (life # "alive")

\* At every moment the client is on its way to the player's inventory; between two ticks
\* also to its life, and to everybody who stays.
InventoryIsComing == Me \in here => ShowsInventory(view, updates, inventory)
LifeIsComing == loop = "idle" /\ Me \in here => ShowsLife(view, updates, life # "alive")
PlayersAreComing ==
    loop = "idle" /\ Me \in here =>
        \A p \in here \ leaving : ShowsPlayer(view, updates, p)

ClientInv ==
    /\ TypeOK
    /\ ImageIsExact /\ InventoryIsComing /\ LifeIsComing /\ PlayersAreComing

\* The updates that the server makes.
LEMMA UpdatesMade ==
    /\ \A inv \in Inventories :
         InventoryOf(inv) \in Updates /\ InventoryOf(inv).type = "INVENTORY" /\ InventoryOf(inv).slots = inv
    /\ [type |-> "DEATH"] \in Updates /\ [type |-> "OUT_OF_RANGE"] \in Updates
    /\ \A p \in Others : [type |-> "PLAYER_LEFT", player |-> p] \in Updates
  BY DEF Updates, InventoryOf

\* The inventories that commands leave behind.
LEMMA InventoriesMade ==
    ASSUME TypeOK
    PROVE  /\ Empty \in Inventories
           /\ \A k \in Items : With(k) \subseteq Inventories /\ OneLess(k) \subseteq Inventories
           /\ \A c \in Commands : Outcomes(c) \subseteq Inventories
<1>1. inventory \in Inventories
  BY DEF TypeOK
<1>2. Empty \in Inventories
  BY DEF Empty, Inventories
<1>3. ASSUME NEW s \in Slots, NEW k \in Items \cup {Nothing}
      PROVE  [inventory EXCEPT ![s] = k] \in Inventories
  BY <1>1 DEF Inventories
<1>4. ASSUME NEW k \in Items
      PROVE  With(k) \subseteq Inventories /\ OneLess(k) \subseteq Inventories
  BY <1>1, <1>3 DEF With, OneLess, Vacant
<1>5. ASSUME NEW s \in Slots PROVE Used(s) \subseteq Inventories
  <2>1. \A t \in Slots :
          [inventory EXCEPT ![s] = inventory[t], ![t] = inventory[s]] \in Inventories
    BY <1>1 DEF Inventories
  <2> QED
    BY <1>1, <1>3, <2>1 DEF Used
<1>6. ASSUME NEW c \in Commands PROVE Outcomes(c) \subseteq Inventories
  <2>1. CASE c.op \in {"DROP", "EQUIP"}
    <3>1. c.slot \in Slots
      BY <2>1 DEF Commands
    <3> QED
      BY <1>3, <1>5, <2>1, <3>1 DEF Outcomes
  <2>2. CASE c.op = "PICK_UP"
    BY <1>4, <2>2 DEF Outcomes
  <2>3. CASE c.op \notin {"DROP", "EQUIP", "PICK_UP"}
    BY <2>3 DEF Outcomes
  <2> QED
    BY <2>1, <2>2, <2>3
<1> QED
  BY <1>2, <1>4, <1>6

\* What a command, a kill or an NPC leaves of Me: types, and an inventory that its client
\* is told of.
Answered ==
    /\ updates' \in Seq(Updates)
    /\ inventory' \in Inventories
    /\ life' \in {"alive", "ghost", "waiting"}
    /\ here' \in SUBSET (Others \cup {Me}) /\ here \subseteq here'
    /\ Me \in here' => ShowsInventory(view, updates', inventory')

\* A new inventory is told ...
LEMMA InventoryTold ==
    ASSUME ClientInv, inventory' \in Inventories, Tell(<<InventoryOf(inventory')>>)
    PROVE  updates' \in Seq(Updates) /\ ShowsInventory(view, updates', inventory')
<1> DEFINE a == InventoryOf(inventory')
<1>1. a \in Updates /\ a.type = "INVENTORY" /\ a.slots = inventory' /\ updates \in Seq(Updates)
  BY UpdatesMade DEF ClientInv, TypeOK
<1>2. updates' = updates \o <<a>>
  BY DEF Tell
<1> HIDE DEF a
<1>3. updates' = Append(updates, a) /\ updates' \in Seq(Updates)
  BY <1>1, <1>2, Queued
<1>4. ShowsInventory(view, Append(updates, a), a.slots)
  BY <1>1, InventoryShows
<1> QED
  BY <1>1, <1>3, <1>4

\* ... also to a player that was killed ...
LEMMA LossTold ==
    ASSUME ClientInv, inventory' = Empty, TellVictim
    PROVE  updates' \in Seq(Updates) /\ ShowsInventory(view, updates', inventory')
<1> DEFINE a == [type |-> "DEATH"]
           b == InventoryOf(Empty)
<1>1. /\ Empty \in Inventories /\ updates \in Seq(Updates)
      /\ a \in Updates /\ b \in Updates /\ b.type = "INVENTORY" /\ b.slots = Empty
  BY UpdatesMade, InventoriesMade DEF ClientInv, TypeOK
<1>2. updates' = updates \o <<a, b>>
  BY DEF TellVictim, Tell
<1> HIDE DEF a, b
<1>3. updates' = Append(Append(updates, a), b) /\ Append(updates, a) \in Seq(Updates)
  BY <1>1, <1>2, Queued, QueuedTwice
<1> QED
  BY <1>1, <1>3, Queued, InventoryShows

\* ... and nothing else that is told concerns the inventory.
LEMMA OtherTold ==
    ASSUME ClientInv, UNCHANGED inventory, NEW a \in Updates, a.type # "INVENTORY", Tell(<<a>>)
    PROVE  /\ updates' \in Seq(Updates)
           /\ Me \in here => ShowsInventory(view, updates', inventory')
<1>1. updates \in Seq(Updates)
  BY DEF ClientInv, TypeOK
<1>2. updates' = Append(updates, a) /\ updates' \in Seq(Updates)
  BY <1>1, Queued DEF Tell
<1>3. \A inv : ShowsInventory(view, updates, inv) => ShowsInventory(view, updates', inv)
  BY <1>1, <1>2, OtherUpdatesShow
<1> QED
  BY <1>2, <1>3 DEF ClientInv, InventoryIsComing

\* Nothing told, nothing changed.
LEMMA NothingTold ==
    ASSUME ClientInv, UNCHANGED <<inventory, updates>>
    PROVE  /\ updates' \in Seq(Updates) /\ inventory' \in Inventories
           /\ Me \in here => ShowsInventory(view, updates', inventory')
  BY DEF ClientInv, TypeOK, InventoryIsComing

\* Every command of Me is answered.
LEMMA CommandAnswered ==
    ASSUME ClientInv, ExecuteCommand
    PROVE  Answered /\ commands' \in Seq(Commands) /\ Len(commands') <= MaxCommands
<1> DEFINE c == Head(commands)
<1>1. c \in Commands /\ commands' \in Seq(Commands) /\ Len(commands') <= MaxCommands
  BY BoundsAssumption DEF ExecuteCommand, ClientInv, TypeOK
<1>2. \/ Appear
      \/ Me \in here /\ ItemCommand(c)
      \/ Me \in here /\ Interact(c)
      \/ Me \in here /\ Die
      \/ StartResurrection
      \/ UNCHANGED <<here, life, inventory, updates>>
  BY DEF ExecuteCommand
<1> HIDE DEF c
<1>3. /\ here \in SUBSET (Others \cup {Me}) /\ life \in {"alive", "ghost", "waiting"}
      /\ inventory \in Inventories
  BY DEF ClientInv, TypeOK
<1> SUFFICES Answered
  BY <1>1
<1>4. CASE Appear
  BY <1>3, <1>4, InventoryTold DEF Appear, Answered
<1>5. CASE Me \in here /\ ItemCommand(c)
  <2>1. UNCHANGED <<here, life>>
    BY <1>5 DEF ItemCommand
  <2>2. CASE UNCHANGED <<inventory, updates>>
    BY <1>3, <2>1, <2>2, NothingTold DEF Answered
  <2>3. ASSUME NEW inv \in Outcomes(c), inventory' = inv, Tell(<<InventoryOf(inv)>>)
        PROVE  Answered
    <3>1. inventory' \in Inventories
      BY <1>1, <2>3, InventoriesMade DEF ClientInv
    <3> QED
      BY <1>3, <2>1, <2>3, <3>1, InventoryTold DEF Answered
  <2> QED
    BY <1>5, <2>2, <2>3 DEF ItemCommand
<1>6. CASE Me \in here /\ Interact(c)
  <2>1. UNCHANGED here
    BY <1>6 DEF Interact
  <2>2. CASE life' = "alive" /\ UNCHANGED inventory /\ Tell(<<InventoryOf(inventory)>>)
    BY <1>3, <2>1, <2>2, InventoryTold DEF Answered
  <2>3. CASE /\ inventory' \in AfterInteraction(c.type)
             /\ Tell(<<InventoryOf(inventory')>>) /\ UNCHANGED life
    <3>1. /\ UNION {With(k) : k \in Items} \subseteq Inventories
          /\ UNION {OneLess(k) : k \in Items} \subseteq Inventories
      BY InventoriesMade DEF ClientInv
    <3>2. inventory' \in Inventories
      BY <1>3, <2>3, <3>1 DEF AfterInteraction
    <3> QED
      BY <1>3, <2>1, <2>3, <3>2, InventoryTold DEF Answered
  <2>4. CASE Tell(<<[type |-> "OUT_OF_RANGE"]>>) /\ UNCHANGED <<life, inventory>>
    <3>1. [type |-> "OUT_OF_RANGE"] \in Updates /\ [type |-> "OUT_OF_RANGE"].type # "INVENTORY"
      BY UpdatesMade
    <3> QED
      BY <1>3, <2>1, <2>4, <3>1, OtherTold DEF Answered
  <2>5. CASE UNCHANGED <<life, inventory, updates>>
    BY <1>3, <2>1, <2>5, NothingTold DEF Answered
  <2> QED
    BY <1>6, <2>2, <2>3, <2>4, <2>5 DEF Interact
<1>7. CASE Me \in here /\ Die
  <2>1. [type |-> "DEATH"] \in Updates /\ [type |-> "DEATH"].type # "INVENTORY"
    BY UpdatesMade
  <2> QED
    BY <1>3, <1>7, <2>1, OtherTold DEF Die, Answered
<1>8. CASE StartResurrection
  BY <1>3, <1>8, NothingTold DEF StartResurrection, Answered
<1>9. CASE UNCHANGED <<here, life, inventory, updates>>
  BY <1>3, <1>9, NothingTold DEF Answered
<1> QED
  BY <1>2, <1>4, <1>5, <1>6, <1>7, <1>8, <1>9

\* What the others do to Me, and the NPCs.
LEMMA DeathAnswered ==
    ASSUME ClientInv, inventory' = Empty, TellVictim, life' = "ghost", UNCHANGED here
    PROVE  Answered
<1>1. here \in SUBSET (Others \cup {Me}) /\ Empty \in Inventories
  BY InventoriesMade DEF ClientInv, TypeOK
<1> QED
  BY <1>1, LossTold DEF Answered

\* A tick that is not over: the invariant asks only for the inventory.
LEMMA TickInv ==
    ASSUME ClientInv, Answered, UNCHANGED <<leaving, image, view>>,
           loop' \in {"commands", "snapshot"},
           commands' \in Seq(Commands), Len(commands') <= MaxCommands
    PROVE  ClientInv'
<1>1. TypeOK'
  <2>1. leaving' \in SUBSET (Others \cap here')
    BY DEF ClientInv, TypeOK, Answered
  <2> QED
    BY <2>1 DEF ClientInv, TypeOK, Answered
<1>2. InventoryIsComing'
  BY DEF Answered, InventoryIsComing
<1> QED
  BY <1>1, <1>2 DEF ClientInv, ImageIsExact, LifeIsComing, PlayersAreComing

\* A step that neither changes what there is to show nor sends anything.
LEMMA StillInv ==
    ASSUME ClientInv, UNCHANGED <<here, life, inventory, updates, view, leaving, image>>,
           loop' \in {"commands", "snapshot"} \/ loop' = loop,
           commands' \in Seq(Commands), Len(commands') <= MaxCommands
    PROVE  ClientInv'
  BY DEF ClientInv, TypeOK, ImageIsExact, InventoryIsComing, LifeIsComing, PlayersAreComing

\* The game loop.
LEMMA LoopInv ==
    ASSUME ClientInv, Loop \/ ExecuteCommand \/ OthersAct
    PROVE  ClientInv'
<1>1. commands \in Seq(Commands) /\ Len(commands) <= MaxCommands
  BY DEF ClientInv, TypeOK
<1>2. CASE BeginTick
  BY <1>1, <1>2, StillInv DEF BeginTick
<1>3. CASE ExecuteCommand
  <2>1. UNCHANGED <<leaving, image, view>> /\ loop' = "commands"
    BY <1>3 DEF ExecuteCommand
  <2> QED
    BY <1>3, <2>1, CommandAnswered, TickInv
<1>4. CASE OthersAct
  <2>1. UNCHANGED <<leaving, image, view, commands>> /\ loop' = "commands"
    BY <1>4 DEF OthersAct
  <2>2. CASE /\ \E p \in Others \ here : here' = here \cup {p}
             /\ UNCHANGED <<life, inventory, updates>>
    <3>1. Answered
      <4>1. Me \in here' => Me \in here
        BY <2>2, PlayersAssumption
      <4> QED
        BY <2>2, <4>1, NothingTold DEF Answered, ClientInv, TypeOK
    <3> QED
      BY <1>1, <2>1, <3>1, TickInv
  <2>3. CASE Killed /\ UNCHANGED here
    BY <1>1, <2>1, <2>3, DeathAnswered, TickInv DEF Killed
  <2> QED
    BY <1>4, <2>2, <2>3 DEF OthersAct
<1>5. CASE UpdateWorld
  <2>1. UNCHANGED <<here, leaving, image, view, commands>> /\ loop' = "snapshot"
    BY <1>5 DEF UpdateWorld
  <2>2. CASE life' \in {life, "alive"} /\ UNCHANGED <<inventory, updates>>
    <3>1. Answered
      BY <2>1, <2>2, NothingTold DEF Answered, ClientInv, TypeOK
    <3> QED
      BY <1>1, <2>1, <3>1, TickInv
  <2>3. CASE life' = "ghost" /\ inventory' = Empty /\ TellVictim
    BY <1>1, <2>1, <2>3, DeathAnswered, TickInv
  <2> QED
    BY <1>5, <2>2, <2>3 DEF UpdateWorld
<1>6. CASE BuildSnapshot
  <2>1. /\ image' = Snapshot /\ loop' = "broadcast"
        /\ UNCHANGED <<here, leaving, life, inventory, commands, updates, view>>
    BY <1>6 DEF BuildSnapshot
  <2>2. Snapshot \in Snapshots
    BY DEF Snapshot, Snapshots, ClientInv, TypeOK
  <2>3. TypeOK'
    BY <2>1, <2>2 DEF ClientInv, TypeOK
  <2>4. ImageIsExact'
    BY <2>1 DEF ImageIsExact, Snapshot
  <2>5. InventoryIsComing'
    BY <2>1 DEF ClientInv, InventoryIsComing
  <2> QED
    BY <2>1, <2>3, <2>4, <2>5 DEF ClientInv, LifeIsComing, PlayersAreComing
<1>7. CASE Broadcast
  <2>1. /\ loop = "broadcast" /\ loop' = "idle" /\ image' = NoImage
        /\ UNCHANGED <<here, leaving, life, inventory, commands, view>>
        /\ Tell(<<image>>)
    BY <1>7 DEF Broadcast
  <2>2. /\ image \in Updates /\ image.type = "SNAPSHOT" /\ updates \in Seq(Updates)
        /\ here \ leaving \subseteq image.players
        /\ Me \in here => image.ghost = (life # "alive")
    <3>1. image \in Snapshots
      BY <2>1 DEF ClientInv, TypeOK, ImageIsExact, NoImage
    <3> QED
      BY <2>1, <3>1 DEF ClientInv, TypeOK, ImageIsExact, Updates
  <2>3. updates' = Append(updates, image) /\ updates' \in Seq(Updates)
    BY <2>1, <2>2, Queued DEF Tell
  <2>4. TypeOK'
    BY <2>1, <2>3 DEF ClientInv, TypeOK
  <2>5. InventoryIsComing'
    BY <2>1, <2>2, OtherTold DEF InventoryIsComing
  <2>6. /\ Me \in image.players => ShowsLife(view, updates', image.ghost)
        /\ \A p \in image.players : ShowsPlayer(view, updates', p)
    BY <2>2, <2>3, SnapshotShows
  <2>7. Me \notin leaving
    BY PlayersAssumption DEF ClientInv, TypeOK
  <2>8. LifeIsComing' /\ PlayersAreComing'
    BY <2>1, <2>2, <2>6, <2>7 DEF LifeIsComing, PlayersAreComing
  <2> QED
    BY <2>1, <2>4, <2>5, <2>8 DEF ClientInv, ImageIsExact
<1> QED
  BY <1>2, <1>3, <1>4, <1>5, <1>6, <1>7 DEF Loop

\* A player that leaves.
LEMMA LeavingInv ==
    ASSUME ClientInv, NEW p \in Others, AnnounceLeft(p) \/ RemovePlayer(p)
    PROVE  ClientInv'
<1>1. CASE RemovePlayer(p)
  <2>1. /\ here' \ leaving' = here \ leaving /\ (Me \in here' <=> Me \in here)
        /\ UNCHANGED <<life, inventory, loop, image, commands, updates, view>>
        /\ here' \subseteq here /\ leaving' = leaving \ {p} /\ here' = here \ {p}
    BY <1>1, PlayersAssumption DEF RemovePlayer
  <2> QED
    BY <2>1 DEF ClientInv, TypeOK, ImageIsExact, InventoryIsComing, LifeIsComing, PlayersAreComing
<1>2. CASE AnnounceLeft(p)
  <2> DEFINE a == [type |-> "PLAYER_LEFT", player |-> p]
  <2>1. /\ p \in here /\ leaving' = leaving \cup {p} /\ Tell(<<a>>)
        /\ UNCHANGED <<here, life, inventory, loop, image, commands, view>>
    BY <1>2 DEF AnnounceLeft
  <2>2. /\ a \in Updates /\ a.type # "INVENTORY" /\ a.type # "SNAPSHOT" /\ a.player = p
        /\ updates \in Seq(Updates)
    BY UpdatesMade DEF ClientInv, TypeOK
  <2> HIDE DEF a
  <2>3. updates' = Append(updates, a) /\ updates' \in Seq(Updates)
    BY <2>1, <2>2, Queued DEF Tell
  <2>4. TypeOK'
    BY <2>1, <2>3 DEF ClientInv, TypeOK
  <2>5. InventoryIsComing'
    BY <2>1, <2>2, OtherTold DEF InventoryIsComing
  <2>6. /\ \A ghost : ShowsLife(view, updates, ghost) => ShowsLife(view, updates', ghost)
        /\ \A q : q # p /\ ShowsPlayer(view, updates, q) => ShowsPlayer(view, updates', q)
    BY <2>2, <2>3, OtherUpdatesShow
  <2>7. LifeIsComing'
    BY <2>1, <2>6 DEF ClientInv, LifeIsComing
  <2>8. PlayersAreComing'
    BY <2>1, <2>6 DEF ClientInv, PlayersAreComing
  <2>9. ImageIsExact'
    BY <2>1 DEF ClientInv, ImageIsExact
  <2> QED
    BY <2>4, <2>5, <2>7, <2>8, <2>9 DEF ClientInv
<1> QED
  BY <1>1, <1>2

\* Every step keeps the invariant.
LEMMA StepInv ==
    ASSUME ClientInv, [Next]_vars
    PROVE  ClientInv'
<1>1. CASE User
  <2>1. TypeOK'
    BY <1>1, UserTypes DEF ClientInv
  <2>2. UNCHANGED <<here, leaving, life, inventory, loop, image, updates>>
    BY <1>1 DEF User, server
  <2>3. view'.slots = view.slots /\ view'.ghost = view.ghost /\ view'.players = view.players
    <3>1. view \in View
      BY DEF ClientInv, TypeOK
    <3>2. \/ UNCHANGED view
          \/ \E t \in Npcs : view' = [view EXCEPT !.npc = t]
          \/ \E s \in Slots \cup {NoSlot} : view' = [view EXCEPT !.slot = s]
      BY <1>1 DEF User, LeftClick, AttackAt, EquipAt, RightClick, PressCheat, PressArrow,
                  Submit, TypeDrop, TypeToNpc, TypeResurrect
    <3> QED
      BY <3>1, <3>2 DEF View
  <2> QED
    BY <2>1, <2>2, <2>3 DEF ClientInv, ImageIsExact, InventoryIsComing, LifeIsComing,
                            PlayersAreComing, ShowsInventory, ShowsLife, ShowsPlayer
<1>2. CASE ApplyUpdate
  <2>1. TypeOK'
    BY <1>2, AppliedTypes DEF ClientInv
  <2>2. /\ UNCHANGED <<here, leaving, life, inventory, loop, image>>
        /\ updates # <<>> /\ updates' = Tail(updates) /\ view' = Applied(view, Head(updates))
    BY <1>2 DEF ApplyUpdate, server
  <2>3. view \in View /\ updates \in Seq(Updates)
    BY DEF ClientInv, TypeOK
  <2>4. /\ \A inv : ShowsInventory(view, updates, inv) => ShowsInventory(view', updates', inv)
        /\ \A ghost : ShowsLife(view, updates, ghost) => ShowsLife(view', updates', ghost)
        /\ \A p : ShowsPlayer(view, updates, p) => ShowsPlayer(view', updates', p)
    BY <2>2, <2>3, AppliedShows
  <2> QED
    BY <2>1, <2>2, <2>4 DEF ClientInv, ImageIsExact, InventoryIsComing, LifeIsComing, PlayersAreComing
<1>3. CASE Loop \/ ExecuteCommand \/ OthersAct
  BY <1>3, LoopInv
<1>4. CASE \E p \in Others : AnnounceLeft(p) \/ RemovePlayer(p)
  BY <1>4, LeavingInv
<1>5. CASE UNCHANGED vars
  <2>1. UNCHANGED <<here, leaving, life, inventory, loop, image, commands, updates, view>>
    BY <1>5 DEF vars, server
  <2> QED
    BY <2>1, StillInv DEF ClientInv, TypeOK
<1> QED
  BY <1>1, <1>2, <1>3, <1>4, <1>5 DEF Next

\* The invariant holds throughout.
THEOREM ClientInvariant == Spec => []ClientInv
<1>1. Init => ClientInv
  <2> SUFFICES ASSUME Init PROVE ClientInv
    OBVIOUS
  <2>1. TypeOK
    BY InitTypes
  <2>2. loop = "idle" /\ Me \notin here
    BY PlayersAssumption DEF Init
  <2> QED
    BY <2>1, <2>2 DEF ClientInv, ImageIsExact, InventoryIsComing, LifeIsComing, PlayersAreComing
<1>2. ClientInv /\ [Next]_vars => ClientInv'
  BY StepInv
<1> QED
  BY <1>1, <1>2, PTL DEF Spec

\* The World, the queues and GameState hold what they may hold.
THEOREM ClientTypes == Spec => []TypeOK
  BY ClientInvariant, PTL DEF ClientInv

\* When everything sent is applied, the client shows the truth between two ticks.
THEOREM ClientViewIsExact == Spec => []ViewIsExact
<1>1. ASSUME ClientInv, loop = "idle", updates = <<>>, Me \in here
      PROVE  /\ view.ghost = (life # "alive")
             /\ view.slots = inventory
             /\ here \ leaving \subseteq view.players
  <2>1. DOMAIN updates = {}
    BY <1>1
  <2>2. \A type : Without(updates, type)
    BY <2>1 DEF Without
  <2> QED
    BY <1>1, <2>2 DEF ClientInv, InventoryIsComing, LifeIsComing, PlayersAreComing,
                      ShowsInventory, ShowsLife, ShowsPlayer
<1>2. ClientInv => ViewIsExact
  BY <1>1 DEF ViewIsExact
<1> QED
  BY <1>2, ClientInvariant, PTL
=============================================================================
