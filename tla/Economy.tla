------------------------------- MODULE Economy -------------------------------
(***************************************************************************)
(* Who owns what in one World: the inventories and the gold of the         *)
(* players, the safes of the Bank, what lies on the ground, and the        *)
(* commands, NPCs, deaths, cheats and restorations that move it.           *)
(*                                                                         *)
(* The game loop executes the commands of a match one after the other      *)
(* (BasicMatch::tick): each is one action. An attack is seen here only     *)
(* when it kills, walking only as a change of cell. What a player was told *)
(* of its inventory is the last InventoryUpdate sent to it: the queue and  *)
(* the socket that carry it keep the order (ClosableQueue, Conversation).  *)
(* ...Bug: a mutated form of the definition that follows it.               *)
(***************************************************************************)
EXTENDS Inventory, SequencesExt

CONSTANTS
    Players,
    Cells, City,        \* the cells one can stand on; those of the safe zones
    Distance,           \* Distance[c][x]: when the search that starts in c visits x
    MagicWeapons,       \* the gear that only priests sell
    Price, BuyFactor,   \* an NPC pays Price / BuyFactor
    MaxLevel,           \* bounds the levels
    MaxGold, Holdable,  \* calculate_max_gold and calculate_max_holdable_gold, by level
    NpcGold,            \* the amounts of gold NPCs drop
    MaxThings,          \* bounds the goods and coins there are in the World
    MaxSafeGold,        \* bounds the gold in the safes,
    MaxSafeItems,       \*   and the items
    Saves,              \* what a save file may hold of a player
    Nothing             \* no ground item

Levels == 1..MaxLevel
Goods == [item : Items, qty : Nat \ {0}]
Coins == [gold : Nat \ {0}]

ASSUME PlayersAssumption == IsFiniteSet(Players)
ASSUME TradeAssumption ==
    /\ MagicWeapons \subseteq Gear
    /\ Price \in [Items -> Nat]
    /\ BuyFactor \in Nat \ {0}
ASSUME GoldAssumption ==
    /\ MaxLevel \in Nat \ {0}
    /\ MaxGold \in [Levels -> Nat]
    /\ Holdable \in [Levels -> Nat]
    /\ \A l \in Levels : MaxGold[l] <= Holdable[l]
    /\ \A l, m \in Levels : l <= m => Holdable[l] <= Holdable[m]
    /\ NpcGold \subseteq Nat \ {0}
\* An autosave reads between two commands, main's final save at any moment and without
\* a lock: the purse it finds may be more than its level allows.  That it reads no
\* inventory in the middle of an operation on it is a restriction of the model.
ASSUME SavesAssumption ==
    Saves \subseteq {s \in [inv : Slots, gold : Nat, level : Levels] : Orderly(s.inv)}
ASSUME GroundAssumption ==
    /\ IsFiniteSet(Cells)
    /\ City \subseteq Cells
    /\ Distance \in [Cells -> [Cells -> Nat]]
    /\ \A c, x, y \in Cells : Distance[c][x] = Distance[c][y] => x = y
    /\ Nothing \notin Goods \cup Coins
    /\ Cells # {}

VARIABLES
    inv,      \* Player::inventory
    gold,     \* Player::gold
    level,
    dead,     \* the ghosts
    spot,     \* the cell of each player
    safeGold, \* Bank::safes, by player
    safeItems,
    ground,   \* World::ground_items
    told,     \* the inventory in the last InventoryUpdate sent to the player
    ledger    \* of each kind, what was handed out minus what was taken for good

purse == <<gold, level>>
safes == <<safeGold, safeItems>>
life == <<dead, spot>>
vars == <<inv, purse, life, safes, ground, told, ledger>>

-----------------------------------------------------------------------------
\* Gold.

\* add_gold: what does not fit is lost.
AtMost(limit, g) == IF g > limit THEN limit ELSE g
Capped(p, g, amount) ==
    IF g >= Holdable[level[p]] THEN g ELSE AtMost(Holdable[level[p]], g + amount)

Earn(p, amount) == gold' = [gold EXCEPT ![p] = Capped(p, @, amount)]
CanPayBug(p, amount) == TRUE
CanPay(p, amount) == amount <= gold[p]
Pay(p, amount) == gold' = [gold EXCEPT ![p] = @ - amount]

-----------------------------------------------------------------------------
\* The ground.

Bare(g) == {x \in Cells : g[x] = Nothing}

\* find_closest_free_ground: the search visits the cells in the order of Distance.
\* The things of a pile, a function on a set of numbers, are dropped in the order of
\* the numbers: each lies on the next bare cell, and what finds none is lost.
Turn(g, c, x) == Cardinality({y \in Bare(g) : Distance[c][y] < Distance[c][x]})

Lands(g, c, pile, n, x) == x \in Bare(g) /\ Order(DOMAIN pile, n) = Turn(g, c, x)

Scattered(g, c, pile) ==
    [x \in Cells |-> IF \E n \in DOMAIN pile : Lands(g, c, pile, n, x)
                       THEN pile[CHOOSE n \in DOMAIN pile : Lands(g, c, pile, n, x)]
                       ELSE g[x]]

Single(thing) == [n \in {0} |-> thing]
OnGround(s) == [item |-> s.item, qty |-> s.qty]

-----------------------------------------------------------------------------
\* The ledger: how many of each kind there are, and where.

QtyIn(i, k) == SumFunction([j \in Index |-> IF i[j].item = k THEN i[j].qty ELSE 0])
QtyOf(thing, k) == IF thing \in Goods /\ thing.item = k THEN thing.qty ELSE 0
QtyOn(g, k) == SumFunction([x \in Cells |-> QtyOf(g[x], k)])
QtySafe(s, k) == Cardinality({n \in DOMAIN s : s[n] = k})

InWorld(k) == SumFunction([p \in Players |-> QtyIn(inv[p], k) + QtySafe(safeItems[p], k)])
                + QtyOn(ground, k)

CoinsIn(thing) == IF thing \in Coins THEN thing.gold ELSE 0
CoinsAt == [c \in Cells |-> CoinsIn(ground[c])]
AllGold == SumFunction([p \in Players |-> gold[p] + safeGold[p]]) + SumFunction(CoinsAt)
Wealth == SumFunction(ledger) + AllGold

\* Stated by the actions that bring something into the World.
Bounded == Wealth' <= MaxThings

Enter(k, q) == ledger' = [ledger EXCEPT ![k] = @ + q]
Exit(k, q) == ledger' = [ledger EXCEPT ![k] = @ - q]

-----------------------------------------------------------------------------
\* The commands of a living player.

Alive(p) == p \notin dead
Tell(p) == told' = [told EXCEPT ![p] = inv'[p]]

PickUp(p) ==
    LET thing == ground[spot[p]]
    IN  /\ Alive(p)
        /\ thing # Nothing
        /\ IF thing \in Coins
             THEN Earn(p, thing.gold) /\ UNCHANGED inv
             ELSE /\ CanAdd(inv[p], thing.item)
                  /\ inv' = [inv EXCEPT ![p] = AddItem(@, thing.item, thing.qty)]
                  /\ UNCHANGED gold
        /\ ground' = [ground EXCEPT ![spot[p]] = Nothing]
        /\ Tell(p)
        /\ UNCHANGED <<level, life, safes, ledger>>

Drop(p, i) ==
    /\ Alive(p)
    /\ Bare(ground) # {}
    /\ inv[p][i].item # NoItem
    /\ inv' = [inv EXCEPT ![p] = PopSlot(@, i)]
    /\ ground' = Scattered(ground, spot[p], Single(OnGround(inv[p][i])))
    /\ Tell(p)
    /\ UNCHANGED <<purse, life, safes, ledger>>

EquipItem(p, i) ==
    /\ Alive(p)
    /\ inv[p][i].item # NoItem
    /\ inv' = [inv EXCEPT ![p] = Equip(@, i)]
    /\ IF inv[p][i].item \in Potions THEN Exit(inv[p][i].item, 1) ELSE UNCHANGED ledger
    /\ Tell(p)
    /\ UNCHANGED <<purse, life, safes, ground>>

\* interact_with_npc: in a city, except for a ghost's resurrection.
Deals(p) == Alive(p) /\ spot[p] \in City

Sells(npc) == CASE npc = "merchant" -> Items \ MagicWeapons
                [] npc = "priest"   -> Potions \cup MagicWeapons

Buy(p, npc, k) ==
    /\ Deals(p)
    /\ k \in Sells(npc)
    /\ CanPay(p, Price[k])
    /\ CanAdd(inv[p], k)
    /\ Pay(p, Price[k])
    /\ inv' = [inv EXCEPT ![p] = AddItem(@, k, 1)]
    /\ Enter(k, 1)
    /\ Tell(p)
    /\ UNCHANGED <<level, life, safes, ground>>
    /\ Bounded

\* The price is taken before the inventory is asked for room, and given back.
Refund(p, price) == Capped(p, gold[p] - price, price)

BuyWithoutRoom(p, npc, k) ==
    /\ Deals(p)
    /\ k \in Sells(npc)
    /\ CanPay(p, Price[k])
    /\ ~CanAdd(inv[p], k)
    /\ gold' = [gold EXCEPT ![p] = Refund(p, Price[k])]
    /\ UNCHANGED <<inv, level, life, safes, ground, told, ledger>>

Sell(p, k) ==
    /\ Deals(p)
    /\ k \notin MagicWeapons
    /\ HasItem(inv[p], k)
    /\ inv' = [inv EXCEPT ![p] = RemoveNamed(@, k)]
    /\ Earn(p, Price[k] \div BuyFactor)
    /\ Exit(k, 1)
    /\ Tell(p)
    /\ UNCHANGED <<level, life, safes, ground>>
    /\ Bounded

DepositGold(p, amount) ==
    /\ Deals(p)
    /\ CanPay(p, amount)
    /\ SumFunction(safeGold) + amount <= MaxSafeGold
    /\ Pay(p, amount)
    /\ safeGold' = [safeGold EXCEPT ![p] = @ + amount]
    /\ UNCHANGED <<inv, level, life, safeItems, ground, ledger>>
    /\ Tell(p)

\* The safe is debited in full, whatever the player can hold.
WithdrawGold(p, amount) ==
    /\ Deals(p)
    /\ amount <= safeGold[p]
    /\ safeGold' = [safeGold EXCEPT ![p] = @ - amount]
    /\ Earn(p, amount)
    /\ UNCHANGED <<inv, level, life, safeItems, ground, ledger>>
    /\ Tell(p)

\* One unit of a stack goes to the safe as a new instance.
DepositItem(p, k) ==
    /\ Deals(p)
    /\ HasItem(inv[p], k)
    /\ SumFunction([q \in Players |-> Len(safeItems[q])]) < MaxSafeItems
    /\ inv' = [inv EXCEPT ![p] = RemoveNamed(@, k)]
    /\ safeItems' = [safeItems EXCEPT ![p] = Append(@, k)]
    /\ Tell(p)
    /\ UNCHANGED <<purse, life, safeGold, ground, ledger>>

\* The first of its name in the safe; what cannot be carried is deposited again, at
\* the end.
ReturnedBug(s, k) == s
Returned(s, k) == Append(s, k)

WithdrawItem(p, k) ==
    /\ Deals(p)
    /\ Contains(safeItems[p], k)
    /\ IF CanAdd(inv[p], k)
         THEN /\ inv' = [inv EXCEPT ![p] = AddItem(@, k, 1)]
              /\ safeItems' = [safeItems EXCEPT ![p] = RemoveFirst(@, k)]
              /\ Tell(p)
         ELSE /\ safeItems' = [safeItems EXCEPT ![p] = Returned(RemoveFirst(@, k), k)]
              /\ UNCHANGED <<inv, told>>
    /\ UNCHANGED <<purse, life, safeGold, ground, ledger>>

-----------------------------------------------------------------------------
\* What befalls a player.

Walk(p, c) ==
    /\ spot' = [spot EXCEPT ![p] = c]
    /\ UNCHANGED <<inv, purse, dead, safes, ground, told, ledger>>

\* drop_loot and drop_loot_in_world, and the updates sent after the death.
Excess(p) == IF gold[p] > MaxGold[level[p]] THEN gold[p] - MaxGold[level[p]] ELSE 0

Loot(p) ==
    [n \in {m \in {0} : Excess(p) > 0} \cup {i + 1 : i \in Held(inv[p])} |->
       IF n = 0 THEN [gold |-> Excess(p)] ELSE OnGround(inv[p][n - 1])]

KeptBug(p) == gold[p]
Kept(p) == gold[p] - Excess(p)

\* The killer's or the game loop's updates to the victim.
TellVictimBug(p) == UNCHANGED told
TellVictim(p) == Tell(p)

\* Items that find no bare cell leave the World.
LostIn(g, pile, k) ==
    SumFunction([n \in {m \in DOMAIN pile : Order(DOMAIN pile, m) >= Cardinality(Bare(g))} |->
                   QtyOf(pile[n], k)])

Killed(p) ==
    /\ Alive(p)
    /\ dead' = dead \cup {p}
    /\ gold' = [gold EXCEPT ![p] = Kept(p)]
    /\ inv' = [inv EXCEPT ![p] = EmptySlots]
    /\ ground' = Scattered(ground, spot[p], Loot(p))
    /\ ledger' = [k \in Items |-> ledger[k] - LostIn(ground, Loot(p), k)]
    /\ TellVictim(p)
    /\ UNCHANGED <<level, spot, safes>>

\* The cheat that kills drops nothing.
CheatDie(p) ==
    /\ Alive(p)
    /\ dead' = dead \cup {p}
    /\ UNCHANGED <<inv, purse, spot, safes, ground, told, ledger>>

\* By the priest at once, or after a wait next to the priest of the closest city.
Resurrect(p, c) ==
    /\ p \in dead
    /\ c = spot[p] \/ c \in City
    /\ dead' = dead \ {p}
    /\ spot' = [spot EXCEPT ![p] = c]
    /\ UNCHANGED <<inv, purse, safes, ground, ledger>>
    /\ IF c = spot[p] THEN Tell(p) ELSE UNCHANGED told

CheatGold(p) ==
    /\ Earn(p, Holdable[level[p]])
    /\ UNCHANGED <<inv, level, life, safes, ground, told, ledger>>
    /\ Bounded

LevelUp(p) ==
    /\ Alive(p)
    /\ level[p] < MaxLevel
    /\ level' = [level EXCEPT ![p] = @ + 1]
    /\ UNCHANGED <<inv, gold, life, safes, ground, told, ledger>>

\* A hostile NPC dies at c and drops gold or one item.
NpcDrops(c, thing) ==
    /\ Bare(ground) # {}
    /\ ground' = Scattered(ground, c, Single(thing))
    /\ IF thing \in Goods
         THEN Enter(thing.item, thing.qty)
         ELSE UNCHANGED ledger
    /\ UNCHANGED <<inv, purse, life, safes, told>>
    /\ Bounded

\* The player leaves the match with what it has and comes back: as a new character, or
\* as RestorePlayerCommand makes it from what a snapshot saved of it some time ago. Its
\* safe waits under the id of the connection: a new connection does not find it.
NewCharacter == [inv |-> EmptySlots, gold |-> 0, level |-> 1]

Rejoin(p, save, reconnects) ==
    LET leaves(k) == QtyIn(inv[p], k) + IF reconnects THEN QtySafe(safeItems[p], k) ELSE 0
    IN  /\ level' = [level EXCEPT ![p] = save.level]
        /\ gold' = [gold EXCEPT ![p] = AtMost(Holdable[save.level], save.gold)]
        /\ dead' = dead \ {p}
        /\ IF reconnects THEN /\ safeGold' = [safeGold EXCEPT ![p] = 0]
                              /\ safeItems' = [safeItems EXCEPT ![p] = <<>>]
                         ELSE UNCHANGED safes
        /\ UNCHANGED <<spot, ground>>
        /\ inv' = [inv EXCEPT ![p] = Restored(save.inv)]
        /\ ledger' = [k \in Items |-> ledger[k] - leaves(k) + QtyIn(save.inv, k)]
        /\ Tell(p)
        /\ Bounded

-----------------------------------------------------------------------------

Init ==
    /\ inv = [p \in Players |-> EmptySlots]
    /\ gold = [p \in Players |-> 0]
    /\ level = [p \in Players |-> 1]
    /\ dead = {}
    /\ spot \in [Players -> Cells]
    /\ safeGold = [p \in Players |-> 0]
    /\ safeItems = [p \in Players |-> <<>>]
    /\ ground = [c \in Cells |-> Nothing]
    /\ told = [p \in Players |-> EmptySlots]
    /\ ledger = [k \in Items |-> 0]

PlayerActs(p) ==
    \/ PickUp(p)
    \/ \E i \in Index : Drop(p, i) \/ EquipItem(p, i)
    \/ \E k \in Items, npc \in {"merchant", "priest"} : Buy(p, npc, k) \/ BuyWithoutRoom(p, npc, k)
    \/ \E k \in Items : Sell(p, k) \/ DepositItem(p, k) \/ WithdrawItem(p, k)
    \/ \E amount \in 1..MaxSafeGold : DepositGold(p, amount) \/ WithdrawGold(p, amount)
    \/ CheatDie(p) \/ CheatGold(p)

Rejoins(p) ==
    \E save \in Saves \cup {NewCharacter}, reconnects \in BOOLEAN : Rejoin(p, save, reconnects)

PlayerSuffers(p) ==
    \/ Killed(p)
    \/ LevelUp(p)
    \/ \E c \in Cells : Walk(p, c) \/ Resurrect(p, c)
    \/ Rejoins(p)

NpcDies ==
    \E c \in Cells :
        \/ \E g \in NpcGold : NpcDrops(c, [gold |-> g])
        \/ \E k \in Items : NpcDrops(c, [item |-> k, qty |-> 1])

Next == (\E p \in Players : PlayerActs(p) \/ PlayerSuffers(p)) \/ NpcDies

Spec == Init /\ [][Next]_vars

-----------------------------------------------------------------------------

TypeOK ==
    /\ inv \in [Players -> Slots]
    /\ gold \in [Players -> Nat]
    /\ level \in [Players -> Levels]
    /\ dead \in SUBSET Players
    /\ spot \in [Players -> Cells]
    /\ safeGold \in [Players -> Nat]
    /\ safeItems \in [Players -> Seq(Items)]
    /\ ground \in [Cells -> Goods \cup Coins \cup {Nothing}]
    /\ told \in [Players -> Slots]

\* However items are bought, found, worn, swapped, stacked, drunk, stored and
\* restored, the slots stay in order: nobody wears two weapons (get_equipped_item takes
\* the first it finds), gear has one unit, a kind of potion one stack.
InventoriesOrderly == \A p \in Players : Orderly(inv[p])

\* Nobody ever holds more gold than its level allows (add_gold).
GoldWithinLimit == \A p \in Players : gold[p] <= Holdable[level[p]]

\* No command copies or destroys an item: in inventories, safes and on the ground there
\* is what NPCs handed out and restorations brought, less what NPCs took, potions drunk,
\* what the departed carried, and the items of the dead that found no bare ground.
GoodsConserved == \A k \in Items : InWorld(k) = ledger[k]

\* The last InventoryUpdate a player was sent shows its inventory: whatever changes an
\* inventory, the owner's own command or somebody else's, is told to its owner.
EveryChangeIsTold == told = inv

\* RestorePlayerCommand brings back what the snapshot saved, without the gaps: as many of
\* each item, worn in the same places, whatever add_item merges and equip swaps.
RestorationIsFaithful ==
    \A p \in Players : RestoredSlotBySlot(inv[p]) = Restored(inv[p])

\* The belongings of a ghost stay as they are until it is resurrected or leaves.
GhostsTradeNothing ==
    [][\A p \in Players : p \in dead /\ p \in dead' =>
         UNCHANGED <<inv[p], safeItems[p], safeGold[p]>>]_vars

\* Gold comes into the World only by a sale, an NPC's drop, the cheat or a restoration,
\* and leaves it only in a purchase that delivers, with a player that leaves, when a
\* purse is full, or at a death without bare ground: deaths, pick-ups, deposits and
\* withdrawals move gold, and a purchase that is refused after the payment is free.
GoldComes ==
    \/ \E p \in Players : CheatGold(p) \/ (\E k \in Items : Sell(p, k)) \/ Rejoins(p)
    \/ NpcDies
GoldGoes ==
    \/ Bare(ground) = {}
    \/ \E p \in Players :
         \/ gold'[p] = Holdable[level[p]]
         \/ \E k \in Items, npc \in {"merchant", "priest"} : Buy(p, npc, k)
         \/ Rejoins(p)

GoldIsAccountedFor ==
    [][LET before == AllGold
           after == AllGold'
       IN  CASE after = before -> TRUE
             [] after > before -> GoldComes
             [] OTHER -> GoldGoes]_<<gold, safeGold, CoinsAt>>
=============================================================================
