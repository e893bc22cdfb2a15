-------------------------------- MODULE Life --------------------------------
(***************************************************************************)
(* The bodies of the players of one World: life, mana, experience, level,  *)
(* meditation, fighting, healing, death and return to life.                *)
(*                                                                         *)
(* Every action is a command of a player (server/commands) or a loop of    *)
(* World::update, run by the game loop.  A body is the record of the       *)
(* fields of Player and Character that these read and write; the operators *)
(* on bodies are the methods of those classes.  The dice (damage after     *)
(* defence and bonuses, evasion, critical hits, healing, regeneration) are *)
(* choices.  Where everybody stands matters only for safety and reach; the *)
(* grid itself is in World, the belongings are in Economy.                 *)
(* A definition called ...Bug is a mutated form of the one that follows.   *)
(***************************************************************************)
EXTENDS Integers

CONSTANTS
    Players,        \* the players that may be in the match
    Casters,        \* those whose class can_cast_magic
    MaxLevel,       \* bound: the highest level looked at
    Limit,          \* Limit[l]: calculate_level_up_limit(l)
    MaxHp,          \* MaxHp[p][l]: calculate_max_hp of p at level l
    MaxMana,        \* MaxMana[p][l]: calculate_max_mana
    Offset,         \* the 10 of calculate_attack_experience_gain
    NewbieMax,      \* newbie_max_level
    MaxDifference,  \* max_level_difference
    LossDivisor,    \* 1 / death_exp_loss_mult
    Weapons,        \* what can be in the weapon slot
    NoWeapon,       \* bare hands
    Healing,        \* the weapons whose spell heals
    ManaCost,       \* ManaCost[w]
    Amounts,        \* the damages, healings and bonuses the dice give
    NpcLevels,      \* the levels of the hostile NPCs
    Clans,          \* the ids of clans
    Cells, City,    \* the places, and those in a safe zone
    Reach           \* the pairs of places within attack range

Levels == 1..MaxLevel
NoClan == 0

ASSUME PlayersAssumption == Casters \subseteq Players
ASSUME LevelsAssumption ==
    /\ MaxLevel \in Nat \ {0}
    /\ Limit \in [0..MaxLevel -> Nat]
    /\ Limit[0] = 0
    /\ \A k, l \in 0..MaxLevel : k < l => Limit[k] < Limit[l]
ASSUME BodiesAssumption ==
    /\ MaxHp \in [Players -> [Levels -> Nat \ {0}]]
    /\ MaxMana \in [Players -> [Levels -> Nat]]
    /\ \A p \in Players \ Casters, l \in Levels : MaxMana[p][l] = 0
    /\ \A p \in Players, k, l \in Levels : k <= l => MaxMana[p][k] <= MaxMana[p][l]
ASSUME FormulasAssumption ==
    /\ {Offset, NewbieMax, MaxDifference} \subseteq Nat
    /\ LossDivisor \in Nat \ {0}
    /\ Amounts \subseteq Nat
    /\ NpcLevels \subseteq Nat
ASSUME WeaponsAssumption ==
    /\ NoWeapon \in Weapons \ Healing
    /\ ManaCost \in [Weapons -> Nat]
    /\ ManaCost[NoWeapon] = 0
ASSUME PlacesAssumption ==
    /\ Cells # {}
    /\ City \subseteq Cells
    /\ Clans \subseteq Nat \ {NoClan}

VARIABLES
    here,           \* the players with an avatar in the World
    body            \* their bodies (Nobody's, if absent)

vars == <<here, body>>

Body == [level : Levels, exp : Nat, hp : Nat, mana : Nat, dead : BOOLEAN,
         meditating : BOOLEAN, weapon : Weapons, clan : Clans \cup {NoClan},
         cell : Cells]

-----------------------------------------------------------------------------
(* The methods of Character and Player. *)

Least(a, b) == IF a < b THEN a ELSE b

\* Character::receive_damage.
HurtBug(b, amount) ==
    IF b.dead THEN b
    ELSE [b EXCEPT !.hp = IF amount < @ THEN @ - amount ELSE 0,
                   !.dead = amount > b.hp]
Hurt(b, amount) ==
    IF b.dead THEN b
    ELSE [b EXCEPT !.hp = IF amount < @ THEN @ - amount ELSE 0,
                   !.dead = amount >= b.hp]

\* Character::heal.
Heal(p, b, amount) ==
    IF b.dead THEN b
    ELSE [b EXCEPT !.hp = Least(@ + amount, MaxHp[p][b.level])]

\* Player::restore_mana and Player::consume_mana.
UsesMana(p, b) == p \in Casters /\ ~ b.dead
RestoreMana(p, b, amount) ==
    IF UsesMana(p, b)
    THEN [b EXCEPT !.mana = Least(@ + amount, MaxMana[p][b.level])] ELSE b
ConsumeMana(p, b, amount) ==
    IF UsesMana(p, b)
    THEN [b EXCEPT !.mana = IF amount < @ THEN @ - amount ELSE 0] ELSE b

\* Player::level_up (as often as needed): the new level fills life and mana.
AtLevel(p, b, l) ==
    [b EXCEPT !.level = l, !.hp = MaxHp[p][l], !.mana = MaxMana[p][l]]

\* The level at which the loop of add_experience stops: the first from l on
\* whose limit is above the experience e.
LevelFor(l, e) ==
    CHOOSE k \in l..MaxLevel : e < Limit[k] /\ \A j \in l..(k - 1) : Limit[j] <= e

\* Player::add_experience; CanGain keeps the level within the bound MaxLevel.
CanGain(b, amount) == b.exp + amount < Limit[MaxLevel]
Gain(p, b, amount) ==
    LET grown == [b EXCEPT !.exp = @ + amount] IN
    IF grown.exp < Limit[b.level] THEN grown
    ELSE AtLevel(p, grown, LevelFor(b.level, grown.exp))

\* Player::remove_experience: never below what the level took.
LoseExperienceBug(b, amount) ==
    [b EXCEPT !.exp = IF @ > amount THEN @ - amount ELSE 0]
LoseExperience(b, amount) ==
    LET floor == Limit[b.level - 1] IN
    [b EXCEPT !.exp = IF @ > amount /\ @ - amount >= floor THEN @ - amount ELSE floor]

\* The experience part of Player::drop_loot.
Lost(b) == b.exp \div LossDivisor
Fallen(b) == LoseExperience(b, Lost(b))

\* Player::resurrect: nothing else is reset.
Revived(p, b) ==
    IF b.dead
    THEN [b EXCEPT !.dead = FALSE, !.hp = MaxHp[p][b.level], !.mana = MaxMana[p][b.level]]
    ELSE b

\* calculate_attack_experience_gain: damage * max(NivelDelOtro - Nivel + 10, 0).
HitExperience(damage, mine, others) ==
    IF others + Offset > mine THEN damage * (others + Offset - mine) ELSE 0

\* The dice: a blow after strength, weapon, critical hit, evasion (0) and
\* defence; the bonus of a kill, often 0; the healing of a spell.
Blows == Amounts \cup {0}
Bonuses == Amounts \cup {0}
Healings == Amounts \ {0}

-----------------------------------------------------------------------------
(* The conditions of an attack. *)

InReach(b, c) == <<b.cell, c.cell>> \in Reach

\* GameFormulas::check_level_attack.
FairLevels(mine, others) ==
    /\ mine > NewbieMax /\ others > NewbieMax
    /\ mine - others <= MaxDifference /\ others - mine <= MaxDifference

\* World::validate_attack_conditions between two players.
MayAttack(p, q) ==
    /\ ~ body[p].dead /\ ~ body[q].dead
    /\ p # q
    /\ FairLevels(body[p].level, body[q].level)
    /\ body[p].cell \notin City /\ body[q].cell \notin City
    /\ ~ (body[p].clan # NoClan /\ body[p].clan = body[q].clan)
    /\ InReach(body[p], body[q])

\* Player::consume_attack_resources.
CanSpend(b) == b.mana >= ManaCost[b.weapon]
Spend(p, b) == ConsumeMana(p, b, ManaCost[b.weapon])

\* HostileNPC::update looks for living players only.
IsPreyBug(p) == TRUE
IsPrey(p) == ~ body[p].dead

-----------------------------------------------------------------------------
(* Arrival and departure. *)

\* A new body (create_initial_player) or a restored one.
Fresh(p, l, e, w, c) ==
    [level |-> l, exp |-> e, hp |-> MaxHp[p][l], mana |-> MaxMana[p][l], dead |-> FALSE,
     meditating |-> FALSE, weapon |-> w, clan |-> NoClan, cell |-> c]

\* Stands for no Player.
Nobody(p) == Fresh(p, 1, 0, NoWeapon, CHOOSE c \in Cells : TRUE)

Init ==
    /\ here = {}
    /\ body = [p \in Players |-> Nobody(p)]

\* SelectRaceClassCommand.
Appear(p) ==
    /\ p \notin here
    /\ here' = here \cup {p}
    /\ \E c \in Cells : body' = [body EXCEPT ![p] = Fresh(p, 1, 0, NoWeapon, c)]

\* RestorePlayerCommand, from what a save found of p (in this or in an earlier
\* run): the level is set first, the experience added from nothing; life, mana
\* and death of the save are not looked at.  Main's final save reads p without a
\* lock and may find the experience of a blow with the level before it.  (It may
\* also find a level-up cheat with the level raised and the experience not yet:
\* such a save, with less experience than its level took, is left out.)
Restore(p) ==
    /\ p \notin here
    /\ here' = here \cup {p}
    /\ \E l \in Levels, w \in Weapons, c \in Cells :
       \E e \in Limit[l - 1]..(Limit[MaxLevel] - 1) :
          body' = [body EXCEPT ![p] = Gain(p, Fresh(p, l, 0, w, c), e)]

\* World::remove_player destroys the Player.
Leave(p) ==
    /\ p \in here
    /\ here' = here \ {p}
    /\ body' = [body EXCEPT ![p] = Nobody(p)]

-----------------------------------------------------------------------------
(* Commands. *)

\* Whatever a present player does to its own body.
Becomes(p, b) ==
    /\ body' = [body EXCEPT ![p] = b]
    /\ UNCHANGED here

\* MoveCommand: meditation ends even if the step is refused.
Move(p) ==
    /\ p \in here
    /\ \E c \in {d \in Cells : <<body[p].cell, d>> \in Reach} \cup {body[p].cell} :
          Becomes(p, [body[p] EXCEPT !.meditating = FALSE, !.cell = c])

\* EquipItemCommand on a weapon: worn, taken off or exchanged.
Wield(p) ==
    /\ p \in here /\ ~ body[p].dead
    /\ \E w \in Weapons : Becomes(p, [body[p] EXCEPT !.weapon = w])

\* EquipItemCommand on a potion (ConsumableItem::use).
Drink(p) ==
    /\ p \in here /\ ~ body[p].dead
    /\ \E n \in Amounts :
          \/ Becomes(p, Heal(p, body[p], n))
          \/ Becomes(p, RestoreMana(p, body[p], n))

\* MeditateCommand.
Meditate(p) ==
    /\ p \in here \cap Casters /\ ~ body[p].dead
    /\ Becomes(p, [body[p] EXCEPT !.meditating = TRUE])

\* found_clan and accept; kick, ban and leave.
ChangeClan(p) ==
    /\ p \in here
    /\ \E k \in IF body[p].clan = NoClan THEN Clans ELSE {NoClan} :
          Becomes(p, [body[p] EXCEPT !.clan = k])

\* Who attacks gets the experience of the blow d, and the bonus e of the kill
\* computed at the level the blow took it to.
Rewarded(p, b, d, others) == Gain(p, b, HitExperience(d, b.level, others))

\* World::attack of one player on another, evaded (d = 0) or not.
Attack(p, q) ==
    /\ {p, q} \subseteq here /\ body[p].weapon \notin Healing
    /\ MayAttack(p, q) /\ CanSpend(body[p])
    /\ \E d \in Blows, e \in Bonuses :
          LET hit == Hurt(body[q], d)
              spent == Spend(p, body[p])
              paid == Rewarded(p, spent, d, hit.level) IN
          /\ CanGain(spent, HitExperience(d, spent.level, hit.level) + (IF hit.dead THEN e ELSE 0))
          /\ ~ hit.dead => e = 0
          /\ body' = [body EXCEPT ![p] = Gain(p, paid, e),
                                  ![q] = IF hit.dead THEN Fallen(hit) ELSE hit]
    /\ UNCHANGED here

\* World::heal, by a player whose weapon heals (itself included).
MayHealBug(p, q) ==
    /\ ~ body[p].dead /\ ~ body[q].dead
    /\ InReach(body[p], body[q])
MayHeal(p, q) ==
    /\ ~ body[p].dead /\ ~ body[q].dead
    /\ InReach(body[p], body[q])
    /\ body[q].hp < MaxHp[q][body[q].level]
HealOther(p, q) ==
    /\ {p, q} \subseteq here /\ body[p].weapon \in Healing
    /\ MayHeal(p, q) /\ CanSpend(body[p])
    /\ \E n \in Healings :
          LET spent == [body EXCEPT ![p] = Spend(p, body[p])] IN
          body' = [spent EXCEPT ![q] = Heal(q, @, n)]
    /\ UNCHANGED here

\* World::attack on a hostile NPC of level l: no rule about levels or clans,
\* and its life is not kept here.
AttackNpc(p, l) ==
    /\ p \in here /\ body[p].weapon \notin Healing
    /\ ~ body[p].dead /\ body[p].cell \notin City /\ CanSpend(body[p])
    /\ \E d \in Blows, e \in Bonuses :
          LET spent == Spend(p, body[p]) IN
          /\ CanGain(spent, HitExperience(d, spent.level, l) + e)
          /\ Becomes(p, Gain(p, Rewarded(p, spent, d, l), e))

\* Priest::on_heal and Priest::on_resurrect.
PriestHeals(p) ==
    /\ p \in here /\ body[p].cell \in City /\ ~ body[p].dead
    /\ Becomes(p, RestoreMana(p, Heal(p, body[p], MaxHp[p][body[p].level]),
                              MaxMana[p][body[p].level]))
PriestResurrects(p) ==
    /\ p \in here /\ body[p].dead
    /\ Becomes(p, Revived(p, body[p]))

\* World::apply_cheat.
Cheat(p) ==
    /\ p \in here /\ ~ body[p].dead
    /\ \/ Becomes(p, Heal(p, body[p], MaxHp[p][body[p].level]))
       \/ Becomes(p, RestoreMana(p, body[p], MaxMana[p][body[p].level]))
       \/ Becomes(p, Hurt(body[p], MaxHp[p][body[p].level] + 1))
       \/ /\ body[p].level < MaxLevel
          /\ Becomes(p, [AtLevel(p, body[p], body[p].level + 1) EXCEPT
                            !.exp = Limit[body[p].level]])

-----------------------------------------------------------------------------
(* World::update. *)

\* World::update_players: each living player's fractions of life and mana
\* become a whole point (H, M) or not yet.
Rested(p, H, M) ==
    LET b == Heal(p, body[p], IF p \in H THEN 1 ELSE 0) IN
    RestoreMana(p, b, IF p \in M THEN 1 ELSE 0)
UpdatePlayers ==
    /\ \E H, M \in SUBSET here :
          body' = [p \in Players |-> IF p \in here THEN Rested(p, H, M) ELSE body[p]]
    /\ UNCHANGED here

\* World::update_resurrections at the end of the wait: to the priest's cell.
Resurrect(p) ==
    /\ p \in here /\ body[p].dead
    /\ \E c \in Cells : Becomes(p, [Revived(p, body[p]) EXCEPT !.cell = c])

\* World::npc_attack: no rule about safe zones, and nobody is asked whether
\* the target still lives but the NPC that chose it.
NpcAttacks(p) ==
    /\ p \in here /\ IsPrey(p)
    /\ \E d \in Amounts :
          LET hit == Hurt(body[p], d) IN
          Becomes(p, IF hit.dead THEN Fallen(hit) ELSE hit)

-----------------------------------------------------------------------------
Next ==
    \/ \E p \in Players :
          \/ Appear(p) \/ Restore(p) \/ Leave(p)
          \/ Move(p) \/ Wield(p) \/ Drink(p) \/ Meditate(p) \/ ChangeClan(p)
          \/ PriestHeals(p) \/ PriestResurrects(p) \/ Cheat(p)
          \/ Resurrect(p) \/ NpcAttacks(p)
    \/ \E p, q \in Players : Attack(p, q) \/ HealOther(p, q)
    \/ \E p \in Players, l \in NpcLevels : AttackNpc(p, l)
    \/ UpdatePlayers

Spec == Init /\ [][Next]_vars

-----------------------------------------------------------------------------
\* Types and the ranges of one body: life and mana within what the level
\* gives, dead exactly when no life is left (receive_damage, level_up and
\* resurrect each write one of the two), no mana and no meditation for
\* somebody who cannot cast.
TypeOK ==
    /\ here \in SUBSET Players
    /\ body \in [Players -> Body]
    /\ \A p \in Players :
          /\ body[p].hp <= MaxHp[p][body[p].level]
          /\ body[p].mana <= MaxMana[p][body[p].level]
          /\ body[p].dead <=> body[p].hp = 0
          /\ body[p].meditating => p \in Casters

\* The level is always the one the experience pays for, through blows worth
\* several levels, deaths, level-up cheats and restorations: a lower sum would
\* let one gain the same level twice, a higher one leave it unpaid.
ExperienceMatchesLevel ==
    \A p \in Players :
        /\ Limit[body[p].level - 1] <= body[p].exp
        /\ body[p].exp < Limit[body[p].level]

\* While a player stays it loses no level, by death or otherwise, and as long
\* as it is a ghost nothing of its body changes (no second death, no reward,
\* no regeneration).
GhostsAreFrozen ==
    [][\A p \in here \cap here' :
          /\ body'[p].level >= body[p].level
          /\ body[p].dead /\ body'[p].dead =>
                /\ body'[p].exp = body[p].exp /\ body'[p].level = body[p].level
                /\ body'[p].hp = body[p].hp /\ body'[p].mana = body[p].mana]_vars

\* Mana is spent by casting alone, exactly what the weapon costs and only when
\* it was there; a healing spell that takes mana gives somebody life.
ManaIsPaidFor ==
    [][\A p \in here \cap here' : body'[p].mana < body[p].mana =>
          /\ body[p].mana - body'[p].mana = ManaCost[body[p].weapon]
          /\ body[p].weapon \in Healing =>
                \E q \in here : body'[q].hp > body[q].hp]_vars
=============================================================================
