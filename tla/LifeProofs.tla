----------------------------- MODULE LifeProofs -----------------------------
(***************************************************************************)
(* Machine-checked proofs about Life, for any players, levels, formulas,   *)
(* weapons and places. First what each method of Player and Character does *)
(* to a body in order, then what each action does to everybody's.          *)
(***************************************************************************)
EXTENDS Life, TLAPS, WellFoundedInduction

\* A body in order: its type and ranges, and the experience its level asks.
Good(p, b) ==
    /\ b \in Body
    /\ b.hp <= MaxHp[p][b.level]
    /\ b.mana <= MaxMana[p][b.level]
    /\ b.dead <=> b.hp = 0
    /\ b.meditating => p \in Casters
    /\ Limit[b.level - 1] <= b.exp
    /\ b.exp < Limit[b.level]

\* The inductive invariant: every body is in order.
LifeInvariant ==
    /\ here \in SUBSET Players
    /\ body \in [Players -> Body]
    /\ \A p \in Players : Good(p, body[p])

\* The formulas give numbers.
LEMMA FormulasAreNumbers ==
    /\ \A l \in Levels : l \in Nat /\ l >= 1 /\ l - 1 \in 0..MaxLevel /\ l \in 0..MaxLevel
    /\ \A l \in 0..MaxLevel : Limit[l] \in Nat
    /\ \A p \in Players, l \in Levels : MaxHp[p][l] \in Nat \ {0} /\ MaxMana[p][l] \in Nat
    /\ 1 \in Levels
<1>1. \A l \in Levels : l \in Nat /\ l >= 1 /\ l - 1 \in 0..MaxLevel /\ l \in 0..MaxLevel
  BY LevelsAssumption DEF Levels
<1>2. \A l \in 0..MaxLevel : Limit[l] \in Nat
  BY LevelsAssumption
<1>3. \A p \in Players, l \in Levels : MaxHp[p][l] \in Nat \ {0} /\ MaxMana[p][l] \in Nat
  BY BodiesAssumption
<1>4. 1 \in Levels
  BY LevelsAssumption DEF Levels
<1> QED
  BY <1>1, <1>2, <1>3, <1>4

\* The loop of add_experience stops at a level that the experience pays for.
LEMMA LevelForStops ==
    ASSUME NEW l \in Levels, NEW e \in Nat, Limit[l] <= e, e < Limit[MaxLevel]
    PROVE  /\ LevelFor(l, e) \in Levels /\ LevelFor(l, e) > l
           /\ e < Limit[LevelFor(l, e)] /\ Limit[LevelFor(l, e) - 1] <= e
<1> DEFINE S == {k \in l..MaxLevel : e < Limit[k]}
<1>1. S \in SUBSET Nat /\ S # {}
  BY LevelsAssumption, FormulasAreNumbers DEF Levels
<1>2. PICK n \in S : \A m \in S : n <= m
  <2>1. IsWellFoundedOn({pair \in Nat \X Nat : pair[1] < pair[2]}, Nat)
    BY NatLessThanWellFounded, Zenon DEF OpToRel
  <2>2. PICK n \in S : \A m \in S : <<m, n>> \notin {pair \in Nat \X Nat : pair[1] < pair[2]}
    BY <2>1, <1>1, WFMin, Zenon
  <2>3. \A m \in S : ~(m < n)
    BY <1>1, <2>2
  <2> QED
    BY <1>1, <2>2, <2>3
<1>3. n \in l..MaxLevel /\ e < Limit[n] /\ \A j \in l..(n - 1) : Limit[j] <= e
  <2>1. n \in l..MaxLevel /\ e < Limit[n] /\ l \in Nat /\ MaxLevel \in Nat
    BY <1>2, LevelsAssumption, FormulasAreNumbers
  <2>2. \A j \in l..(n - 1) : j \in l..MaxLevel /\ ~ (n <= j)
    BY <2>1
  <2>3. \A j \in l..(n - 1) : ~ (e < Limit[j])
    BY <1>2, <2>2
  <2>4. \A j \in l..(n - 1) : Limit[j] \in Nat
    BY <2>1, <2>2, FormulasAreNumbers
  <2> QED
    BY <2>1, <2>3, <2>4
<1>4. /\ LevelFor(l, e) \in l..MaxLevel /\ e < Limit[LevelFor(l, e)]
      /\ \A j \in l..(LevelFor(l, e) - 1) : Limit[j] <= e
  BY <1>3 DEF LevelFor
<1>5. LevelFor(l, e) # l
  BY <1>4, FormulasAreNumbers
<1> QED
  BY <1>4, <1>5, FormulasAreNumbers DEF Levels

\* Player::add_experience.
LEMMA GainKeeps ==
    ASSUME NEW p \in Players, NEW b, Good(p, b), NEW n \in Nat, CanGain(b, n), ~ b.dead
    PROVE  /\ Good(p, Gain(p, b, n))
           /\ Gain(p, b, n).level >= b.level
           /\ ~ Gain(p, b, n).dead
           /\ Gain(p, b, n).mana >= b.mana
           /\ \/ Gain(p, b, n).mana = b.mana
              \/ Gain(p, b, n).mana >= MaxMana[p][b.level]
           /\ Gain(p, b, n).exp = b.exp + n
<1> DEFINE grown == [b EXCEPT !.exp = @ + n]
           k == LevelFor(b.level, grown.exp)
<1> USE DEF Good, Body
<1>1. /\ grown \in Body /\ grown.exp = b.exp + n /\ grown.level = b.level
      /\ grown.hp = b.hp /\ grown.mana = b.mana /\ grown.dead = b.dead
      /\ grown.meditating = b.meditating
  OBVIOUS
<1>2. CASE grown.exp < Limit[b.level]
  <2>1. Gain(p, b, n) = grown
    BY <1>2 DEF Gain
  <2> QED
    BY <1>1, <1>2, <2>1, FormulasAreNumbers
<1>3. CASE ~ (grown.exp < Limit[b.level])
  <2>1. Gain(p, b, n) = AtLevel(p, grown, k)
    BY <1>3 DEF Gain
  <2>2. Limit[b.level] <= grown.exp /\ grown.exp < Limit[MaxLevel]
    BY <1>1, <1>3, FormulasAreNumbers DEF CanGain
  <2>3. /\ k \in Levels /\ k > b.level /\ grown.exp < Limit[k] /\ Limit[k - 1] <= grown.exp
    BY <1>1, <2>2, LevelForStops
  <2>4. /\ MaxHp[p][k] \in Nat \ {0} /\ MaxMana[p][k] \in Nat
        /\ b.mana <= MaxMana[p][k] /\ MaxMana[p][b.level] \in Nat
        /\ MaxMana[p][b.level] <= MaxMana[p][k]
    BY <2>3, FormulasAreNumbers, BodiesAssumption
  <2> HIDE DEF k
  <2>5. AtLevel(p, grown, k) = [grown EXCEPT !.level = k, !.hp = MaxHp[p][k], !.mana = MaxMana[p][k]]
    BY DEF AtLevel
  <2>6. /\ AtLevel(p, grown, k) \in Body
        /\ AtLevel(p, grown, k).level = k /\ AtLevel(p, grown, k).hp = MaxHp[p][k]
        /\ AtLevel(p, grown, k).mana = MaxMana[p][k]
        /\ AtLevel(p, grown, k).exp = grown.exp
        /\ AtLevel(p, grown, k).dead = grown.dead
        /\ AtLevel(p, grown, k).meditating = grown.meditating
    BY <1>1, <2>3, <2>4, <2>5
  <2> QED
    BY <1>1, <2>1, <2>3, <2>4, <2>6, FormulasAreNumbers
<1> QED
  BY <1>2, <1>3

\* Character::receive_damage.
LEMMA HurtKeeps ==
    ASSUME NEW p \in Players, NEW b, Good(p, b), NEW n \in Nat
    PROVE  /\ Good(p, Hurt(b, n))
           /\ Hurt(b, n).level = b.level /\ Hurt(b, n).exp = b.exp
           /\ Hurt(b, n).mana = b.mana
           /\ b.dead => Hurt(b, n) = b
<1> USE DEF Good, Body
<1>1. CASE b.dead
  BY <1>1 DEF Hurt
<1>2. CASE ~ b.dead
  <2> DEFINE h == IF n < b.hp THEN b.hp - n ELSE 0
             d == n >= b.hp
  <2>1. h \in Nat /\ h <= b.hp /\ d \in BOOLEAN /\ (d <=> h = 0)
    OBVIOUS
  <2>2. Hurt(b, n) = [b EXCEPT !.hp = h, !.dead = d]
    BY <1>2 DEF Hurt
  <2> HIDE DEF h, d
  <2>3. /\ Hurt(b, n) \in Body /\ Hurt(b, n).hp = h
        /\ Hurt(b, n).dead <=> h = 0
        /\ Hurt(b, n).level = b.level /\ Hurt(b, n).exp = b.exp
        /\ Hurt(b, n).mana = b.mana /\ Hurt(b, n).meditating = b.meditating
    BY <2>1, <2>2
  <2>4. h <= MaxHp[p][b.level]
    BY <2>1, FormulasAreNumbers
  <2> QED
    BY <1>2, <2>3, <2>4
<1> QED
  BY <1>1, <1>2

\* Character::heal.
LEMMA HealKeeps ==
    ASSUME NEW p \in Players, NEW b, Good(p, b), NEW n \in Nat
    PROVE  /\ Good(p, Heal(p, b, n))
           /\ Heal(p, b, n).level = b.level /\ Heal(p, b, n).exp = b.exp
           /\ Heal(p, b, n).mana = b.mana /\ Heal(p, b, n).dead = b.dead
           /\ b.dead => Heal(p, b, n) = b
           /\ ~ b.dead /\ n # 0 /\ b.hp < MaxHp[p][b.level] => Heal(p, b, n).hp > b.hp
<1> USE DEF Good, Body
<1>1. CASE b.dead
  BY <1>1 DEF Heal
<1>2. CASE ~ b.dead
  <2> DEFINE h == Least(b.hp + n, MaxHp[p][b.level])
  <2>1. MaxHp[p][b.level] \in Nat \ {0}
    BY FormulasAreNumbers
  <2>2. /\ h \in Nat /\ h <= MaxHp[p][b.level] /\ h >= b.hp
        /\ n # 0 /\ b.hp < MaxHp[p][b.level] => h > b.hp
    BY <2>1 DEF Least
  <2>3. Heal(p, b, n) = [b EXCEPT !.hp = h]
    BY <1>2 DEF Heal
  <2> HIDE DEF h
  <2> QED
    BY <1>2, <2>1, <2>2, <2>3
<1> QED
  BY <1>1, <1>2

\* Player::restore_mana.
LEMMA RestoreManaKeeps ==
    ASSUME NEW p \in Players, NEW b, Good(p, b), NEW n \in Nat
    PROVE  /\ Good(p, RestoreMana(p, b, n))
           /\ RestoreMana(p, b, n).level = b.level /\ RestoreMana(p, b, n).exp = b.exp
           /\ RestoreMana(p, b, n).mana >= b.mana
           /\ RestoreMana(p, b, n).dead = b.dead
           /\ b.dead => RestoreMana(p, b, n) = b
<1> USE DEF Good, Body
<1>1. CASE ~ UsesMana(p, b)
  BY <1>1 DEF RestoreMana, UsesMana
<1>2. CASE UsesMana(p, b)
  <2> DEFINE m == Least(b.mana + n, MaxMana[p][b.level])
  <2>1. MaxMana[p][b.level] \in Nat
    BY FormulasAreNumbers
  <2>2. m \in Nat /\ m <= MaxMana[p][b.level] /\ m >= b.mana
    BY <2>1 DEF Least
  <2>3. RestoreMana(p, b, n) = [b EXCEPT !.mana = m]
    BY <1>2 DEF RestoreMana
  <2> HIDE DEF m
  <2> QED
    BY <1>2, <2>1, <2>2, <2>3 DEF UsesMana
<1> QED
  BY <1>1, <1>2

\* Player::consume_attack_resources, once there is mana enough.
LEMMA SpendKeeps ==
    ASSUME NEW p \in Players, NEW b, Good(p, b), CanSpend(b), ~ b.dead
    PROVE  /\ Good(p, Spend(p, b))
           /\ Spend(p, b).level = b.level /\ Spend(p, b).exp = b.exp
           /\ Spend(p, b).hp = b.hp /\ Spend(p, b).dead = b.dead
           /\ Spend(p, b).mana = b.mana - ManaCost[b.weapon]
<1> USE DEF Good, Body
<1> DEFINE n == ManaCost[b.weapon]
<1>1. n \in Nat /\ n <= b.mana
  BY WeaponsAssumption DEF CanSpend
<1> HIDE DEF n
<1>2. Spend(p, b) = ConsumeMana(p, b, n)
  BY DEF Spend, n
<1>3. CASE p \in Casters
  <2>1. ConsumeMana(p, b, n) = [b EXCEPT !.mana = b.mana - n]
    BY <1>1, <1>3 DEF ConsumeMana, UsesMana
  <2>2. b.mana - n \in Nat
    BY <1>1
  <2> QED
    BY <1>1, <1>2, <1>3, <2>1, <2>2, FormulasAreNumbers DEF n
<1>4. CASE p \notin Casters
  <2>1. ConsumeMana(p, b, n) = b
    BY <1>4 DEF ConsumeMana, UsesMana
  <2>2. MaxMana[p][b.level] = 0
    BY <1>4, BodiesAssumption
  <2> QED
    BY <1>1, <1>2, <2>1, <2>2 DEF n
<1> QED
  BY <1>3, <1>4
\* The experience a death takes, down to what the level took.
LEMMA FallenKeeps ==
    ASSUME NEW p \in Players, NEW b, Good(p, b)
    PROVE  /\ Good(p, Fallen(b))
           /\ Fallen(b).level = b.level /\ Fallen(b).hp = b.hp
           /\ Fallen(b).mana = b.mana /\ Fallen(b).dead = b.dead
<1> USE DEF Good, Body
<1> DEFINE n == b.exp \div LossDivisor
           floor == Limit[b.level - 1]
           e == IF b.exp > n /\ b.exp - n >= floor THEN b.exp - n ELSE floor
<1>1. n \in Nat
  BY FormulasAssumption
<1> HIDE DEF n
<1>2. floor \in Nat
  BY FormulasAreNumbers
<1> HIDE DEF floor
<1>3. e \in Nat /\ floor <= e /\ e <= b.exp
  BY <1>1, <1>2 DEF floor
<1>4. Fallen(b) = [b EXCEPT !.exp = e]
  BY DEF Fallen, Lost, LoseExperience, n, floor
<1> HIDE DEF e
<1>5. /\ Fallen(b) \in Body /\ Fallen(b).exp = e
      /\ Fallen(b).level = b.level /\ Fallen(b).hp = b.hp
      /\ Fallen(b).mana = b.mana /\ Fallen(b).dead = b.dead
      /\ Fallen(b).meditating = b.meditating
  BY <1>3, <1>4
<1> QED
  BY <1>3, <1>5, FormulasAreNumbers DEF floor

\* Player::resurrect.
LEMMA RevivedKeeps ==
    ASSUME NEW p \in Players, NEW b, Good(p, b)
    PROVE  /\ Good(p, Revived(p, b))
           /\ Revived(p, b).level = b.level
           /\ ~ Revived(p, b).dead
           /\ Revived(p, b).mana >= b.mana
<1> USE DEF Good, Body
<1>1. MaxHp[p][b.level] \in Nat \ {0} /\ MaxMana[p][b.level] \in Nat
  BY FormulasAreNumbers
<1>2. CASE ~ b.dead
  BY <1>2 DEF Revived
<1>3. CASE b.dead
  <2> DEFINE h == MaxHp[p][b.level]
             m == MaxMana[p][b.level]
  <2>1. Revived(p, b) = [b EXCEPT !.dead = FALSE, !.hp = h, !.mana = m]
    BY <1>3 DEF Revived
  <2>2. h \in Nat \ {0} /\ m \in Nat /\ h <= MaxHp[p][b.level] /\ m <= MaxMana[p][b.level]
        /\ b.mana <= m
    BY <1>1
  <2> HIDE DEF h, m
  <2>3. /\ Revived(p, b) \in Body /\ Revived(p, b).hp = h /\ Revived(p, b).mana = m
        /\ Revived(p, b).level = b.level /\ Revived(p, b).exp = b.exp
        /\ Revived(p, b).dead = FALSE /\ Revived(p, b).meditating = b.meditating
    BY <2>1, <2>2
  <2> QED
    BY <2>2, <2>3
<1> QED
  BY <1>2, <1>3

\* create_initial_player, at any level with experience that fits it.
LEMMA FreshIsGood ==
    ASSUME NEW p \in Players, NEW l \in Levels, NEW e \in Limit[l - 1]..(Limit[l] - 1),
           NEW w \in Weapons, NEW c \in Cells
    PROVE  Good(p, Fresh(p, l, e, w, c))
<1>1. MaxHp[p][l] \in Nat \ {0} /\ MaxMana[p][l] \in Nat /\ Limit[l - 1] \in Nat
      /\ Limit[l] \in Nat
  BY FormulasAreNumbers
<1>2. e \in Nat /\ Limit[l - 1] <= e /\ e < Limit[l]
  BY <1>1
<1> QED
  BY <1>1, <1>2 DEF Good, Body, Fresh

\* The least a new character can be.
LEMMA NewcomerIsGood ==
    ASSUME NEW p \in Players, NEW c \in Cells
    PROVE  Good(p, Fresh(p, 1, 0, NoWeapon, c))
<1>1. 1 \in Levels /\ Limit[0] = 0 /\ Limit[1] \in Nat /\ Limit[0] < Limit[1]
  BY LevelsAssumption, FormulasAreNumbers DEF Levels
<1>2. 0 \in Limit[1 - 1]..(Limit[1] - 1)
  BY <1>1
<1> QED
  BY <1>1, <1>2, FreshIsGood, WeaponsAssumption

-----------------------------------------------------------------------------
(* What a step may do to a body that stays. *)

\* No level is lost, a ghost's body is left alone, mana is spent by the cost
\* of the weapon.
Lawful(b, c) ==
    /\ c.level >= b.level
    /\ b.dead /\ c.dead => /\ c.exp = b.exp /\ c.level = b.level
                          /\ c.hp = b.hp /\ c.mana = b.mana
    /\ c.mana < b.mana => b.mana - c.mana = ManaCost[b.weapon]

\* The same, of everybody that is there before and after the step, and the
\* invariant with it.
Preserved ==
    /\ LifeInvariant'
    /\ \A p \in here \cap here' :
          /\ Lawful(body[p], body'[p])
          /\ body'[p].mana < body[p].mana /\ body[p].weapon \in Healing =>
                \E q \in here : body'[q].hp > body[q].hp

\* A body is lawful to itself.
LEMMA LawfulStutter ==
    ASSUME NEW p \in Players, NEW b, Good(p, b)
    PROVE  Lawful(b, b)
  BY FormulasAreNumbers DEF Good, Body, Lawful

\* A step that changes the body of one player only.
LEMMA BecomesPreserves ==
    ASSUME LifeInvariant, NEW p \in here, NEW b, Becomes(p, b), Good(p, b), Lawful(body[p], b),
           body[p].weapon \in Healing => ~ (b.mana < body[p].mana)
    PROVE  Preserved
<1> USE DEF LifeInvariant
<1>1. /\ here' = here /\ p \in Players /\ body' \in [Players -> Body] /\ body'[p] = b
      /\ \A q \in Players \ {p} : body'[q] = body[q]
  BY DEF Becomes, Good
<1>2. LifeInvariant'
  BY <1>1
<1>3. \A q \in here \ {p} : body'[q] = body[q] /\ Lawful(body[q], body'[q])
  BY <1>1, LawfulStutter
<1>4. \A q \in here \ {p} : ~ (body'[q].mana < body[q].mana)
  <2>1. \A q \in here \ {p} : body[q].mana \in Nat
    BY DEF Body
  <2> QED
    BY <1>1, <2>1
<1> QED
  BY <1>1, <1>2, <1>3, <1>4 DEF Preserved

\* A player that comes or goes.
LEMMA ComingAndGoing ==
    ASSUME LifeInvariant, NEW p \in Players, NEW b, Good(p, b),
           body' = [body EXCEPT ![p] = b], here' \in SUBSET Players, p \notin here \cap here'
    PROVE  Preserved
<1> USE DEF LifeInvariant
<1>1. /\ body' \in [Players -> Body] /\ body'[p] = b
      /\ \A q \in Players \ {p} : body'[q] = body[q]
  BY DEF Good
<1>2. LifeInvariant'
  BY <1>1
<1>3. \A q \in here \cap here' : body'[q] = body[q] /\ Lawful(body[q], body'[q])
  BY <1>1, LawfulStutter
<1>4. \A q \in here \cap here' : ~ (body'[q].mana < body[q].mana)
  <2>1. \A q \in here : body[q].mana \in Nat
    BY DEF Body
  <2> QED
    BY <1>3, <2>1
<1> QED
  BY <1>2, <1>3, <1>4 DEF Preserved

\* Arrivals build a body of the level's ranges (Appear, Restore).
LEMMA AppearPreserves ==
    ASSUME LifeInvariant, NEW p \in Players, Appear(p)
    PROVE  Preserved
<1>1. PICK c \in Cells : body' = [body EXCEPT ![p] = Fresh(p, 1, 0, NoWeapon, c)]
  BY DEF Appear
<1>2. here' \in SUBSET Players /\ p \notin here
  BY DEF Appear, LifeInvariant
<1> QED
  BY <1>1, <1>2, NewcomerIsGood, ComingAndGoing

\* The restored player has the experience of its save and the level that this pays for.
LEMMA RestorePreserves ==
    ASSUME LifeInvariant, NEW p \in Players, Restore(p)
    PROVE  Preserved
<1>1. PICK l \in Levels, w \in Weapons, c \in Cells :
         \E e \in Limit[l - 1]..(Limit[MaxLevel] - 1) :
            body' = [body EXCEPT ![p] = Gain(p, Fresh(p, l, 0, w, c), e)]
  BY DEF Restore
<1>2. PICK e \in Limit[l - 1]..(Limit[MaxLevel] - 1) :
         body' = [body EXCEPT ![p] = Gain(p, Fresh(p, l, 0, w, c), e)]
  BY <1>1
<1> DEFINE floor == Limit[l - 1]
           b == Fresh(p, l, floor, w, c)
<1>3. /\ floor \in Nat /\ e \in Nat /\ floor <= e /\ e < Limit[MaxLevel]
      /\ floor < Limit[l] /\ Limit[l] \in Nat
  <2>1. MaxLevel \in 0..MaxLevel
    BY LevelsAssumption
  <2> QED
    BY <2>1, LevelsAssumption, FormulasAreNumbers
<1>4. Good(p, b)
  BY <1>3, FreshIsGood
<1>5. b.exp = floor /\ ~ b.dead
  BY DEF Fresh
<1>6. Good(p, Gain(p, b, e - floor))
  BY <1>3, <1>4, <1>5, GainKeeps DEF CanGain
<1>7. Gain(p, Fresh(p, l, 0, w, c), e) = Gain(p, b, e - floor)
  <2> DEFINE f == Fresh(p, l, 0, w, c)
             g == [f EXCEPT !.exp = @ + e]
             h == [b EXCEPT !.exp = @ + (e - floor)]
  <2>1. f.exp + e = e /\ b.exp + (e - floor) = e
    BY <1>3 DEF Fresh
  <2>2. f \in Body /\ b \in Body
    BY <1>3, FormulasAreNumbers DEF Fresh, Body
  <2>3. /\ g \in Body /\ h \in Body
        /\ g.exp = e /\ h.exp = e
    BY <1>3, <2>1, <2>2 DEF Body
  <2>4. /\ g.level = h.level /\ g.hp = h.hp /\ g.mana = h.mana /\ g.dead = h.dead
        /\ g.meditating = h.meditating /\ g.weapon = h.weapon /\ g.clan = h.clan
        /\ g.cell = h.cell /\ f.level = l /\ b.level = l
    BY DEF Fresh
  <2>5. g = h
    <3> HIDE DEF g, h
    <3> QED
      BY <2>3, <2>4 DEF Body
  <2>6. /\ Gain(p, f, e) = IF g.exp < Limit[f.level] THEN g ELSE AtLevel(p, g, LevelFor(f.level, g.exp))
        /\ Gain(p, b, e - floor) =
              IF h.exp < Limit[b.level] THEN h ELSE AtLevel(p, h, LevelFor(b.level, h.exp))
    BY DEF Gain
  <2> SUFFICES Gain(p, f, e) = Gain(p, b, e - floor)
    OBVIOUS
  <2> HIDE DEF f, b, g, h
  <2> QED
    BY <2>4, <2>5, <2>6
<1>8. here' \in SUBSET Players /\ p \notin here
  BY DEF Restore, LifeInvariant
<1> QED
  BY <1>2, <1>6, <1>7, <1>8, ComingAndGoing

\* A departure leaves nobody's body behind.
LEMMA LeavePreserves ==
    ASSUME LifeInvariant, NEW p \in Players, Leave(p)
    PROVE  Preserved
<1>1. (CHOOSE c \in Cells : TRUE) \in Cells
  BY PlacesAssumption
<1>2. Good(p, Nobody(p))
  BY <1>1, NewcomerIsGood DEF Nobody
<1>3. here' \in SUBSET Players /\ p \notin here'
  BY DEF Leave, LifeInvariant
<1> QED
  BY <1>2, <1>3, ComingAndGoing DEF Leave

\* Commands that touch neither life nor mana.
LEMMA QuietPreserves ==
    ASSUME LifeInvariant, NEW p \in here, NEW b \in Body, Becomes(p, b),
           b.hp = body[p].hp, b.mana = body[p].mana, b.dead = body[p].dead,
           b.level = body[p].level, b.exp = body[p].exp, b.meditating => p \in Casters
    PROVE  Preserved
<1>1. p \in Players /\ Good(p, body[p])
  BY DEF LifeInvariant
<1>2. Good(p, b)
  BY <1>1 DEF Good
<1>3. Lawful(body[p], b) /\ ~ (b.mana < body[p].mana)
  BY <1>1, FormulasAreNumbers DEF Lawful, Good, Body
<1> QED
  BY <1>1, <1>2, <1>3, BecomesPreserves

\* Commands on one's own body: moving, wielding, drinking, meditating, clans.
LEMMA MovesPreserve ==
    ASSUME LifeInvariant, NEW p \in Players,
           Move(p) \/ Wield(p) \/ Meditate(p) \/ ChangeClan(p)
    PROVE  Preserved
<1> USE DEF LifeInvariant
<1>1. Good(p, body[p]) /\ body[p] \in Body
  OBVIOUS
<1>2. CASE Move(p)
  <2>1. PICK c \in Cells : Becomes(p, [body[p] EXCEPT !.meditating = FALSE, !.cell = c])
    BY <1>1, <1>2 DEF Move, Body
  <2> QED
    BY <1>1, <1>2, <2>1, QuietPreserves DEF Move, Body
<1>3. CASE Wield(p)
  <2>1. PICK w \in Weapons : Becomes(p, [body[p] EXCEPT !.weapon = w])
    BY <1>3 DEF Wield
  <2>2. [body[p] EXCEPT !.weapon = w].meditating => p \in Casters
    BY <1>1 DEF Good, Body
  <2> QED
    BY <1>1, <1>3, <2>1, <2>2, QuietPreserves DEF Wield, Body
<1>4. CASE Meditate(p)
  BY <1>1, <1>4, QuietPreserves DEF Meditate, Body
<1>5. CASE ChangeClan(p)
  <2>1. PICK k \in Clans \cup {NoClan} : Becomes(p, [body[p] EXCEPT !.clan = k])
    BY <1>5 DEF ChangeClan
  <2>2. [body[p] EXCEPT !.clan = k].meditating => p \in Casters
    BY <1>1 DEF Good, Body
  <2> QED
    BY <1>1, <1>5, <2>1, <2>2, QuietPreserves DEF ChangeClan, Body
<1> QED
  BY <1>2, <1>3, <1>4, <1>5

\* Potions, the priest, the cheats and the end of a resurrection.
LEMMA CaresPreserve ==
    ASSUME LifeInvariant, NEW p \in Players,
           Drink(p) \/ PriestHeals(p) \/ PriestResurrects(p) \/ Resurrect(p)
    PROVE  Preserved
<1> USE DEF LifeInvariant
<1>1. /\ Good(p, body[p]) /\ body[p] \in Body /\ body[p].mana \in Nat
      /\ body[p].level \in Levels /\ body[p].level \in Nat
  BY FormulasAreNumbers DEF Body
<1>2. MaxHp[p][body[p].level] \in Nat /\ MaxMana[p][body[p].level] \in Nat
  BY <1>1, FormulasAreNumbers
<1>3. \A n \in Nat : LET b == Heal(p, body[p], n) IN
         Good(p, b) /\ Lawful(body[p], b) /\ ~ (b.mana < body[p].mana)
  <2> TAKE n \in Nat
  <2> DEFINE b == Heal(p, body[p], n)
  <2>1. /\ Good(p, b) /\ b.level = body[p].level /\ b.mana = body[p].mana
        /\ body[p].dead => b = body[p]
    BY <1>1, HealKeeps
  <2> HIDE DEF b
  <2>2. Lawful(body[p], b) /\ ~ (b.mana < body[p].mana)
    BY <1>1, <2>1 DEF Lawful
  <2> QED
    BY <2>1, <2>2 DEF b
<1>4. \A n \in Nat : LET b == RestoreMana(p, body[p], n) IN
         Good(p, b) /\ Lawful(body[p], b) /\ ~ (b.mana < body[p].mana)
  <2> TAKE n \in Nat
  <2> DEFINE b == RestoreMana(p, body[p], n)
  <2>1. /\ Good(p, b) /\ b.level = body[p].level
        /\ b.mana >= body[p].mana
        /\ body[p].dead => b = body[p]
    BY <1>1, RestoreManaKeeps
  <2>2. b.mana \in Nat
    BY <2>1 DEF Good, Body
  <2> HIDE DEF b
  <2>3. Lawful(body[p], b) /\ ~ (b.mana < body[p].mana)
    BY <1>1, <2>1, <2>2 DEF Lawful
  <2> QED
    BY <2>1, <2>3 DEF b
<1>5. CASE Drink(p)
  <2>1. PICK n \in Amounts : \/ Becomes(p, Heal(p, body[p], n))
                             \/ Becomes(p, RestoreMana(p, body[p], n))
    BY <1>5 DEF Drink
  <2>2. n \in Nat /\ p \in here
    BY <1>5, FormulasAssumption DEF Drink
  <2> QED
    BY <1>3, <1>4, <2>1, <2>2, BecomesPreserves
<1>6. CASE PriestHeals(p)
  <2> DEFINE b == Heal(p, body[p], MaxHp[p][body[p].level])
             c == RestoreMana(p, b, MaxMana[p][body[p].level])
  <2>1. /\ Good(p, b) /\ b.level = body[p].level /\ b.exp = body[p].exp
        /\ b.mana = body[p].mana /\ b.dead = body[p].dead
    <3> DEFINE n == MaxHp[p][body[p].level]
               h == Heal(p, body[p], n)
    <3>1. n \in Nat
      BY <1>2
    <3> HIDE DEF n
    <3>2. /\ Good(p, h) /\ h.level = body[p].level /\ h.exp = body[p].exp
          /\ h.mana = body[p].mana /\ h.dead = body[p].dead
      BY <1>1, <3>1, HealKeeps
    <3> QED
      BY <3>2 DEF n
  <2> HIDE DEF b
  <2>2. /\ Good(p, c) /\ c.level = b.level /\ c.mana >= b.mana /\ c.dead = b.dead
    BY <1>2, <2>1, RestoreManaKeeps
  <2>3. c.mana \in Nat
    BY <2>2 DEF Good, Body
  <2>4. p \in here /\ ~ body[p].dead /\ Becomes(p, c)
    BY <1>6 DEF PriestHeals, b
  <2> HIDE DEF c
  <2>5. Lawful(body[p], c) /\ ~ (c.mana < body[p].mana)
    BY <1>1, <2>1, <2>2, <2>3, <2>4, FormulasAreNumbers DEF Lawful
  <2> QED
    BY <2>2, <2>4, <2>5, BecomesPreserves
<1>7. /\ Good(p, Revived(p, body[p])) /\ Lawful(body[p], Revived(p, body[p]))
      /\ ~ (Revived(p, body[p]).mana < body[p].mana)
  <2> DEFINE b == Revived(p, body[p])
  <2>1. Good(p, b) /\ b.level = body[p].level /\ ~ b.dead /\ b.mana >= body[p].mana
    BY <1>1, RevivedKeeps
  <2>2. b.mana \in Nat
    BY <2>1 DEF Good, Body
  <2> HIDE DEF b
  <2>3. Lawful(body[p], b) /\ ~ (b.mana < body[p].mana)
    BY <1>1, <2>1, <2>2, FormulasAreNumbers DEF Lawful
  <2> QED
    BY <2>1, <2>3 DEF b
<1>8. CASE PriestResurrects(p)
  BY <1>7, <1>8, BecomesPreserves DEF PriestResurrects
<1>9. CASE Resurrect(p)
  <2>1. PICK c \in Cells : Becomes(p, [Revived(p, body[p]) EXCEPT !.cell = c])
    BY <1>9 DEF Resurrect
  <2> DEFINE b == Revived(p, body[p])
             d == [b EXCEPT !.cell = c]
  <2> HIDE DEF b
  <2>2. b \in Body
    BY <1>7 DEF Good, b
  <2>3. /\ d \in Body /\ d.level = b.level /\ d.exp = b.exp /\ d.hp = b.hp
        /\ d.mana = b.mana /\ d.dead = b.dead /\ d.meditating = b.meditating
    BY <2>2 DEF Body
  <2> HIDE DEF d
  <2>4. Good(p, d) /\ Lawful(body[p], d) /\ ~ (d.mana < body[p].mana)
    BY <1>7, <2>3 DEF Good, Lawful, b
  <2>5. Becomes(p, d) /\ p \in here
    BY <1>9, <2>1 DEF b, d, Resurrect
  <2> QED
    BY <2>4, <2>5, BecomesPreserves
<1> QED
  BY <1>5, <1>6, <1>8, <1>9

\* The cheats keep the ranges and the level's experience.
LEMMA CheatPreserves ==
    ASSUME LifeInvariant, NEW p \in Players, Cheat(p)
    PROVE  Preserved
<1> USE DEF LifeInvariant
<1> DEFINE l == body[p].level
<1>1. /\ p \in here /\ ~ body[p].dead
      /\ Good(p, body[p]) /\ body[p] \in Body /\ body[p].mana \in Nat
      /\ l \in Levels /\ l \in Nat
  BY FormulasAreNumbers DEF Body, Cheat
<1>2. MaxHp[p][l] \in Nat /\ MaxHp[p][l] + 1 \in Nat /\ MaxMana[p][l] \in Nat
  BY <1>1, FormulasAreNumbers
<1>3. CASE Becomes(p, Heal(p, body[p], MaxHp[p][l]))
  <2> DEFINE b == Heal(p, body[p], MaxHp[p][l])
  <2>1. Good(p, b) /\ b.level = l /\ b.mana = body[p].mana
    BY <1>1, <1>2, HealKeeps
  <2>2. Becomes(p, b)
    BY <1>3
  <2> HIDE DEF b
  <2>3. Lawful(body[p], b) /\ ~ (b.mana < body[p].mana)
    BY <1>1, <2>1 DEF Lawful
  <2> QED
    BY <1>1, <2>1, <2>2, <2>3, BecomesPreserves
<1>4. CASE Becomes(p, RestoreMana(p, body[p], MaxMana[p][l]))
  <2> DEFINE b == RestoreMana(p, body[p], MaxMana[p][l])
  <2>1. Good(p, b) /\ b.level = l /\ b.mana >= body[p].mana
    BY <1>1, <1>2, RestoreManaKeeps
  <2>2. Becomes(p, b) /\ b.mana \in Nat
    BY <1>4, <2>1 DEF Good, Body
  <2> HIDE DEF b
  <2>3. Lawful(body[p], b) /\ ~ (b.mana < body[p].mana)
    BY <1>1, <2>1, <2>2 DEF Lawful
  <2> QED
    BY <1>1, <2>1, <2>2, <2>3, BecomesPreserves
<1>5. CASE Becomes(p, Hurt(body[p], MaxHp[p][l] + 1))
  <2> DEFINE b == Hurt(body[p], MaxHp[p][l] + 1)
  <2>1. Good(p, b) /\ b.level = l /\ b.mana = body[p].mana
    BY <1>1, <1>2, HurtKeeps
  <2>2. Becomes(p, b)
    BY <1>5
  <2> HIDE DEF b
  <2>3. Lawful(body[p], b) /\ ~ (b.mana < body[p].mana)
    BY <1>1, <2>1 DEF Lawful
  <2> QED
    BY <1>1, <2>1, <2>2, <2>3, BecomesPreserves
<1>6. CASE l < MaxLevel /\ Becomes(p, [AtLevel(p, body[p], l + 1) EXCEPT !.exp = Limit[l]])
  <2> DEFINE h == MaxHp[p][l + 1]
             m == MaxMana[p][l + 1]
             b == [body[p] EXCEPT !.level = l + 1, !.hp = h, !.mana = m, !.exp = Limit[l]]
  <2>1. l + 1 \in Levels /\ l \in 0..MaxLevel /\ l + 1 \in 0..MaxLevel /\ (l + 1) - 1 = l
    BY <1>1, <1>6, LevelsAssumption DEF Levels
  <2>2. /\ h \in Nat \ {0} /\ m \in Nat /\ Limit[l] \in Nat /\ Limit[l] < Limit[l + 1]
        /\ MaxMana[p][l] <= m /\ MaxMana[p][l] \in Nat
    <3>1. h \in Nat \ {0} /\ m \in Nat /\ Limit[l] \in Nat /\ MaxMana[p][l] \in Nat
      BY <1>1, <2>1, FormulasAreNumbers
    <3>2. Limit[l] < Limit[l + 1]
      BY <1>1, <2>1, LevelsAssumption
    <3>3. MaxMana[p][l] <= m
      <4>1. \A k, j \in Levels : k <= j => MaxMana[p][k] <= MaxMana[p][j]
        BY BodiesAssumption
      <4> QED
        BY <1>1, <2>1, <4>1
    <3> QED
      BY <3>1, <3>2, <3>3
  <2>3. Becomes(p, b)
    <3>1. [AtLevel(p, body[p], l + 1) EXCEPT !.exp = Limit[l]] = b
      BY DEF AtLevel
    <3> QED
      BY <1>6, <3>1
  <2>4. h <= MaxHp[p][l + 1] /\ m <= MaxMana[p][l + 1]
    BY <2>2
  <2> HIDE DEF h, m
  <2>5. /\ b \in Body /\ b.level = l + 1 /\ b.hp = h /\ b.mana = m /\ b.exp = Limit[l]
        /\ b.dead = body[p].dead /\ b.meditating = body[p].meditating
    BY <1>1, <2>1, <2>2 DEF Body
  <2> HIDE DEF b
  <2>6. Good(p, b)
    BY <1>1, <2>1, <2>2, <2>4, <2>5 DEF Good
  <2>7. Lawful(body[p], b) /\ ~ (b.mana < body[p].mana)
    BY <1>1, <2>2, <2>5 DEF Lawful, Good
  <2> QED
    BY <1>1, <2>3, <2>6, <2>7, BecomesPreserves
<1> QED
  BY <1>3, <1>4, <1>5, <1>6 DEF Cheat

\* A blow that may kill: receive_damage, and what a death takes.
LEMMA StruckKeeps ==
    ASSUME NEW p \in Players, NEW b, Good(p, b), ~ b.dead, NEW n \in Nat
    PROVE  LET hit == Hurt(b, n)
               struck == IF hit.dead THEN Fallen(hit) ELSE hit IN
           /\ Good(p, struck) /\ Lawful(b, struck) /\ struck.mana = b.mana
<1> DEFINE hit == Hurt(b, n)
           struck == IF hit.dead THEN Fallen(hit) ELSE hit
<1>1. Good(p, hit) /\ hit.level = b.level /\ hit.mana = b.mana
  BY HurtKeeps
<1> HIDE DEF hit
<1>2. Good(p, struck) /\ struck.level = b.level /\ struck.mana = b.mana
  BY <1>1, FallenKeeps
<1> HIDE DEF struck
<1>3. b.level \in Nat /\ b.mana \in Nat
  BY FormulasAreNumbers DEF Good, Body
<1>4. Lawful(b, struck)
  BY <1>2, <1>3 DEF Lawful
<1> QED
  BY <1>2, <1>4 DEF hit, struck

\* The blow of an NPC, with the loss of experience of a death.
LEMMA NpcAttacksPreserves ==
    ASSUME LifeInvariant, NEW p \in Players, NpcAttacks(p)
    PROVE  Preserved
<1>1. p \in here /\ ~ body[p].dead /\ Good(p, body[p])
  BY DEF NpcAttacks, IsPrey, LifeInvariant
<1>2. PICK d \in Amounts :
         LET hit == Hurt(body[p], d) IN Becomes(p, IF hit.dead THEN Fallen(hit) ELSE hit)
  BY DEF NpcAttacks
<1> DEFINE hit == Hurt(body[p], d)
           struck == IF hit.dead THEN Fallen(hit) ELSE hit
<1>3. d \in Nat /\ Becomes(p, struck)
  BY <1>2, FormulasAssumption
<1>4. Good(p, struck) /\ Lawful(body[p], struck) /\ struck.mana = body[p].mana
  BY <1>1, <1>3, StruckKeeps
<1> HIDE DEF struck
<1>5. ~ (struck.mana < body[p].mana)
  BY <1>1, <1>4 DEF Good, Body
<1> QED
  BY <1>1, <1>3, <1>4, <1>5, BecomesPreserves

\* What an attack does to the attacker: the cost, then the experience of the
\* blow and of the kill, each of which may raise the level and fill the mana.
LEMMA RewardKeeps ==
    ASSUME NEW p \in Players, NEW b, Good(p, b), ~ b.dead, CanSpend(b),
           NEW d \in Nat, NEW e \in Nat, NEW others \in Nat,
           CanGain(Spend(p, b), HitExperience(d, Spend(p, b).level, others) + e)
    PROVE  LET c == Gain(p, Rewarded(p, Spend(p, b), d, others), e) IN
           Good(p, c) /\ Lawful(b, c)
<1> DEFINE s == Spend(p, b)
           x == HitExperience(d, s.level, others)
           r == Gain(p, s, x)
           c == Gain(p, r, e)
<1>1. /\ Good(p, s) /\ s.level = b.level /\ s.exp = b.exp /\ s.dead = b.dead
      /\ s.mana = b.mana - ManaCost[b.weapon]
  BY SpendKeeps
<1>2. /\ b.level \in Nat /\ b.mana \in Nat /\ b.exp \in Nat /\ s.exp \in Nat
      /\ s.mana \in Nat /\ ManaCost[b.weapon] \in Nat
  BY <1>1, FormulasAreNumbers, WeaponsAssumption DEF Good, Body
<1>3. x \in Nat
  BY <1>1, <1>2, FormulasAssumption DEF HitExperience
<1>4. CanGain(s, x + e)
  OBVIOUS
<1> HIDE DEF s, x
<1>5. CanGain(s, x) /\ Limit[MaxLevel] \in Nat
  BY <1>2, <1>3, <1>4, LevelsAssumption DEF CanGain
<1> DEFINE m == MaxMana[p][b.level]
<1>6. /\ Good(p, r) /\ r.level >= s.level /\ ~ r.dead /\ (r.mana = s.mana \/ r.mana >= m)
      /\ r.exp = s.exp + x
  BY <1>1, <1>3, <1>5, GainKeeps
<1> HIDE DEF r
<1>7. CanGain(r, e)
  BY <1>2, <1>3, <1>4, <1>6 DEF CanGain
<1> DEFINE n == MaxMana[p][r.level]
<1>8. Good(p, c) /\ c.level >= r.level /\ ~ c.dead /\ (c.mana = r.mana \/ c.mana >= n)
  BY <1>6, <1>7, GainKeeps
<1>9. /\ c.mana \in Nat /\ r.mana \in Nat /\ m \in Nat /\ n \in Nat
      /\ b.level \in Levels /\ r.level \in Levels
      /\ c.level \in Nat /\ r.level \in Nat
  BY <1>6, <1>8, FormulasAreNumbers DEF Good, Body
<1>10. m <= n /\ b.mana <= m
  BY <1>1, <1>2, <1>6, <1>9, BodiesAssumption DEF Good
<1> HIDE DEF c, m, n
<1>11. c.level >= b.level /\ (c.mana = s.mana \/ c.mana >= b.mana)
  BY <1>1, <1>2, <1>6, <1>8, <1>9, <1>10
<1>12. Lawful(b, c)
  BY <1>1, <1>2, <1>8, <1>9, <1>11 DEF Lawful
<1> QED
  BY <1>8, <1>12 DEF c, r, x, s, Rewarded

\* The attacker's side and the target's, which are different players.
LEMMA AttackPreserves ==
    ASSUME LifeInvariant, NEW p \in Players, NEW q \in Players, Attack(p, q)
    PROVE  Preserved
<1> USE DEF LifeInvariant
<1>1. /\ p \in here /\ q \in here /\ body[p].weapon \notin Healing /\ CanSpend(body[p])
      /\ ~ body[p].dead /\ ~ body[q].dead /\ p # q /\ here' = here
      /\ Good(p, body[p]) /\ Good(q, body[q])
  BY DEF Attack, MayAttack
<1>2. PICK d \in Amounts \cup {0}, e \in Amounts \cup {0} :
          LET hit == Hurt(body[q], d)
              spent == Spend(p, body[p])
              paid == Rewarded(p, spent, d, hit.level) IN
          /\ CanGain(spent, HitExperience(d, spent.level, hit.level) + (IF hit.dead THEN e ELSE 0))
          /\ ~ hit.dead => e = 0
          /\ body' = [body EXCEPT ![p] = Gain(p, paid, e),
                                  ![q] = IF hit.dead THEN Fallen(hit) ELSE hit]
  BY DEF Attack, Blows, Bonuses
<1> DEFINE hit == Hurt(body[q], d)
           struck == IF hit.dead THEN Fallen(hit) ELSE hit
           b == Gain(p, Rewarded(p, Spend(p, body[p]), d, hit.level), e)
<1>3. d \in Nat /\ e \in Nat
  BY FormulasAssumption
<1>4. Good(q, struck) /\ Lawful(body[q], struck) /\ struck.mana = body[q].mana
  BY <1>1, <1>3, StruckKeeps
<1>5. hit.level \in Nat
  BY <1>1, <1>3, HurtKeeps, FormulasAreNumbers DEF Good, Body
<1>6. CanGain(Spend(p, body[p]), HitExperience(d, Spend(p, body[p]).level, hit.level) + e)
  <2>1. e = IF hit.dead THEN e ELSE 0
    BY <1>2
  <2> QED
    BY <1>2, <2>1
<1>7. Good(p, b) /\ Lawful(body[p], b)
  BY <1>1, <1>3, <1>5, <1>6, RewardKeeps
<1>8. body' = [body EXCEPT ![p] = b, ![q] = struck]
  BY <1>2
<1> HIDE DEF b, struck
<1>9. /\ body' \in [Players -> Body] /\ body'[p] = b /\ body'[q] = struck
      /\ \A r \in Players \ {p, q} : body'[r] = body[r]
  BY <1>1, <1>4, <1>7, <1>8 DEF Good
<1>10. LifeInvariant'
  BY <1>1, <1>4, <1>7, <1>9
<1>11. \A r \in here : Lawful(body[r], body'[r])
  BY <1>1, <1>4, <1>7, <1>9, LawfulStutter
<1>12. \A r \in here \ {p} : ~ (body'[r].mana < body[r].mana)
  <2>1. \A r \in here : body[r].mana \in Nat
    BY DEF Body
  <2> QED
    BY <1>4, <1>9, <2>1
<1> QED
  BY <1>1, <1>10, <1>11, <1>12 DEF Preserved

\* A blow on an NPC, with the rewards and the levels they bring.
LEMMA AttackNpcPreserves ==
    ASSUME LifeInvariant, NEW p \in Players, NEW l \in NpcLevels, AttackNpc(p, l)
    PROVE  Preserved
<1>1. /\ p \in here /\ body[p].weapon \notin Healing /\ CanSpend(body[p]) /\ ~ body[p].dead
      /\ Good(p, body[p])
  BY DEF AttackNpc, LifeInvariant
<1>2. PICK d \in Amounts \cup {0}, e \in Amounts \cup {0} :
          LET spent == Spend(p, body[p]) IN
          /\ CanGain(spent, HitExperience(d, spent.level, l) + e)
          /\ Becomes(p, Gain(p, Rewarded(p, spent, d, l), e))
  BY DEF AttackNpc, Blows, Bonuses
<1>3. d \in Nat /\ e \in Nat /\ l \in Nat
  BY FormulasAssumption
<1> DEFINE b == Gain(p, Rewarded(p, Spend(p, body[p]), d, l), e)
<1>4. Good(p, b) /\ Lawful(body[p], b)
  BY <1>1, <1>2, <1>3, RewardKeeps
<1> QED
  BY <1>1, <1>2, <1>4, BecomesPreserves

\* The healer pays and the healed, perhaps the healer itself, gains life.
LEMMA HealOtherPreserves ==
    ASSUME LifeInvariant, NEW p \in Players, NEW q \in Players, HealOther(p, q)
    PROVE  Preserved
<1> USE DEF LifeInvariant
<1>1. /\ p \in here /\ q \in here /\ CanSpend(body[p]) /\ here' = here
      /\ ~ body[p].dead /\ ~ body[q].dead /\ body[q].hp < MaxHp[q][body[q].level]
      /\ Good(p, body[p]) /\ Good(q, body[q])
  BY DEF HealOther, MayHeal
<1> DEFINE s == Spend(p, body[p])
           spent == [body EXCEPT ![p] = s]
<1>2. PICK n \in Amounts \ {0} : body' = [spent EXCEPT ![q] = Heal(q, @, n)]
  BY DEF HealOther, Healings
<1>3. n \in Nat /\ n # 0
  BY FormulasAssumption
<1>4. /\ Good(p, s) /\ s.level = body[p].level /\ s.hp = body[p].hp /\ s.dead = body[p].dead
      /\ s.exp = body[p].exp
      /\ s.mana = body[p].mana - ManaCost[body[p].weapon]
  BY <1>1, SpendKeeps
<1> HIDE DEF s
<1>5. spent \in [Players -> Body] /\ spent[p] = s /\ \A r \in Players \ {p} : spent[r] = body[r]
  BY <1>4 DEF Good
<1>6. \A r \in Players : Good(r, spent[r])
  BY <1>4, <1>5
<1>7. /\ ~ spent[q].dead /\ spent[q].hp = body[q].hp /\ spent[q].level = body[q].level
  BY <1>1, <1>4, <1>5
<1> HIDE DEF spent
<1> DEFINE h == Heal(q, spent[q], n)
<1>8. /\ Good(q, h) /\ h.level = spent[q].level /\ h.mana = spent[q].mana
      /\ h.hp > spent[q].hp /\ h.dead = spent[q].dead
  BY <1>1, <1>3, <1>6, <1>7, HealKeeps
<1>9. body' = [spent EXCEPT ![q] = h]
  BY <1>2
<1> HIDE DEF h
<1>10. /\ body' \in [Players -> Body] /\ body'[q] = h
       /\ \A r \in Players \ {q} : body'[r] = spent[r]
  BY <1>5, <1>8, <1>9 DEF Good
<1>11. LifeInvariant'
  BY <1>1, <1>6, <1>8, <1>10
<1>12. \A r \in Players : /\ body'[r].level = body[r].level
                          /\ r # p => body'[r].mana = body[r].mana
  BY <1>4, <1>5, <1>7, <1>8, <1>10
<1>13. body'[p].mana = body[p].mana - ManaCost[body[p].weapon]
  BY <1>4, <1>5, <1>8, <1>10
<1>14. \A r \in Players \ {p, q} : body'[r] = body[r]
  BY <1>5, <1>10
<1>15. \A r \in Players : body[r].mana \in Nat /\ body[r].level \in Nat
  BY FormulasAreNumbers DEF Body
<1>16. ManaCost[body[p].weapon] \in Nat
  BY WeaponsAssumption DEF Body
<1>17. Lawful(body[p], body'[p])
  <2>1. body'[p].level = body[p].level /\ body[p].level \in Nat /\ body[p].mana \in Nat
    BY <1>12, <1>15
  <2>2. body[p].mana - body'[p].mana = ManaCost[body[p].weapon]
    BY <1>13, <1>16, <2>1
  <2> QED
    BY <1>1, <2>1, <2>2 DEF Lawful
<1>18. Lawful(body[q], body'[q])
  <2>1. CASE q = p
    BY <1>17, <2>1
  <2>2. CASE q # p
    <3>1. /\ body'[q].level = body[q].level /\ body[q].level \in Nat
          /\ body'[q].mana = body[q].mana /\ body[q].mana \in Nat
      BY <1>12, <1>15, <2>2
    <3> QED
      BY <1>1, <3>1 DEF Lawful
  <2> QED
    BY <2>1, <2>2
<1>19. \A r \in here : Lawful(body[r], body'[r])
  BY <1>14, <1>17, <1>18, LawfulStutter
<1>20. body'[q].hp > body[q].hp
  BY <1>7, <1>8, <1>10
<1> QED
  BY <1>1, <1>11, <1>19, <1>20 DEF Preserved

\* World::update_players.
LEMMA UpdatePlayersPreserves ==
    ASSUME LifeInvariant, UpdatePlayers
    PROVE  Preserved
<1> USE DEF LifeInvariant
<1>1. PICK H \in SUBSET here, M \in SUBSET here :
         body' = [p \in Players |-> IF p \in here THEN Rested(p, H, M) ELSE body[p]]
  BY DEF UpdatePlayers
<1>2. here' = here
  BY DEF UpdatePlayers
<1>3. \A p \in Players : LET r == Rested(p, H, M) IN
         Good(p, r) /\ Lawful(body[p], r) /\ ~ (r.mana < body[p].mana)
  <2> TAKE p \in Players
  <2> DEFINE i == IF p \in H THEN 1 ELSE 0
             j == IF p \in M THEN 1 ELSE 0
             b == Heal(p, body[p], i)
             r == RestoreMana(p, b, j)
  <2>1. i \in Nat /\ j \in Nat /\ Good(p, body[p])
    OBVIOUS
  <2>2. Rested(p, H, M) = r
    BY DEF Rested
  <2> HIDE DEF i, j
  <2>3. /\ Good(p, b) /\ b.level = body[p].level /\ b.mana = body[p].mana
        /\ b.dead = body[p].dead
        /\ body[p].dead => b = body[p]
    BY <2>1, HealKeeps
  <2> HIDE DEF b
  <2>4. /\ Good(p, r) /\ r.level = b.level /\ r.mana >= b.mana
        /\ b.dead => r = b
    BY <2>1, <2>3, RestoreManaKeeps
  <2> HIDE DEF r
  <2>5. r.mana \in Nat /\ b.mana \in Nat /\ b.level \in Nat
    BY <2>3, <2>4, FormulasAreNumbers DEF Good, Body
  <2>6. Lawful(body[p], r) /\ ~ (r.mana < body[p].mana)
    BY <2>3, <2>4, <2>5 DEF Lawful
  <2> QED
    BY <2>2, <2>4, <2>6
<1>4. \A p \in here : body'[p] = Rested(p, H, M)
  BY <1>1
<1>5. LifeInvariant'
  BY <1>1, <1>2, <1>3 DEF Good
<1> QED
  BY <1>2, <1>3, <1>4, <1>5 DEF Preserved

-----------------------------------------------------------------------------
\* Every step keeps every body in order and deals with it lawfully.
LEMMA StepPreserves ==
    ASSUME LifeInvariant, [Next]_vars
    PROVE  Preserved
<1>1. CASE UNCHANGED vars
  <2>1. here' = here /\ body' = body
    BY <1>1 DEF vars
  <2>2. \A p \in here : Lawful(body[p], body[p]) /\ body[p].mana \in Nat
    BY LawfulStutter DEF LifeInvariant, Good, Body
  <2>3. \A p \in here : ~ (body[p].mana < body[p].mana)
    BY <2>2
  <2>4. LifeInvariant'
    BY <2>1 DEF LifeInvariant
  <2> QED
    BY <2>1, <2>2, <2>3, <2>4 DEF Preserved
<1>2. CASE \E p \in Players : Appear(p) \/ Restore(p) \/ Leave(p)
  BY <1>2, AppearPreserves, RestorePreserves, LeavePreserves
<1>3. CASE \E p \in Players : Move(p) \/ Wield(p) \/ Meditate(p) \/ ChangeClan(p)
  BY <1>3, MovesPreserve
<1>4. CASE \E p \in Players : Drink(p) \/ PriestHeals(p) \/ PriestResurrects(p) \/ Resurrect(p)
  BY <1>4, CaresPreserve
<1>5. CASE \E p \in Players : Cheat(p) \/ NpcAttacks(p)
  BY <1>5, CheatPreserves, NpcAttacksPreserves
<1>6. CASE \E p, q \in Players : Attack(p, q) \/ HealOther(p, q)
  BY <1>6, AttackPreserves, HealOtherPreserves
<1>7. CASE \E p \in Players, l \in NpcLevels : AttackNpc(p, l)
  BY <1>7, AttackNpcPreserves
<1>8. CASE UpdatePlayers
  BY <1>8, UpdatePlayersPreserves
<1> QED
  BY <1>1, <1>2, <1>3, <1>4, <1>5, <1>6, <1>7, <1>8 DEF Next

\* Every reachable body is in order: the inductive invariant.
THEOREM LifeCorrect == Spec => []LifeInvariant
<1>1. Init => LifeInvariant
  <2> SUFFICES ASSUME Init PROVE LifeInvariant
    OBVIOUS
  <2>1. (CHOOSE c \in Cells : TRUE) \in Cells
    BY PlacesAssumption
  <2>2. \A p \in Players : Good(p, Nobody(p))
    BY <2>1, NewcomerIsGood DEF Nobody
  <2> QED
    BY <2>2 DEF Init, LifeInvariant, Good
<1>2. LifeInvariant /\ [Next]_vars => LifeInvariant'
  BY StepPreserves DEF Preserved
<1> QED
  BY <1>1, <1>2, PTL DEF Spec

\* For any formulas, life and mana stay within what the level gives, the dead
\* are those without life, and only casters have mana or meditate.
THEOREM LifeTypes == Spec => []TypeOK
<1>1. LifeInvariant => TypeOK
  BY DEF LifeInvariant, Good, TypeOK
<1> QED
  BY <1>1, LifeCorrect, PTL

\* The level is the one the experience pays for.
THEOREM LifeExperience == Spec => []ExperienceMatchesLevel
<1>1. LifeInvariant => ExperienceMatchesLevel
  BY DEF LifeInvariant, Good, ExperienceMatchesLevel
<1> QED
  BY <1>1, LifeCorrect, PTL

\* Nobody loses a level, and nothing happens to the body of a ghost.
THEOREM LifeGhosts == Spec => GhostsAreFrozen
<1>1. LifeInvariant /\ [Next]_vars =>
        [\A p \in here \cap here' :
          /\ body'[p].level >= body[p].level
          /\ body[p].dead /\ body'[p].dead =>
                /\ body'[p].exp = body[p].exp /\ body'[p].level = body[p].level
                /\ body'[p].hp = body[p].hp /\ body'[p].mana = body[p].mana]_vars
  BY StepPreserves DEF Preserved, Lawful
<1> QED
  BY <1>1, LifeCorrect, PTL DEF Spec, GhostsAreFrozen

\* Mana is spent by what the weapon costs, and by a healer for somebody's good.
THEOREM LifeMana == Spec => ManaIsPaidFor
<1>1. LifeInvariant /\ [Next]_vars =>
        [\A p \in here \cap here' : body'[p].mana < body[p].mana =>
          /\ body[p].mana - body'[p].mana = ManaCost[body[p].weapon]
          /\ body[p].weapon \in Healing =>
                \E q \in here : body'[q].hp > body[q].hp]_vars
  BY StepPreserves DEF Preserved, Lawful
<1> QED
  BY <1>1, LifeCorrect, PTL DEF Spec, ManaIsPaidFor
=============================================================================
