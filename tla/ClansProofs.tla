----------------------------- MODULE ClansProofs -----------------------------
(***************************************************************************)
(* Machine-checked proofs about Clans, for any number of players, nicks,   *)
(* names, clans and any member limit.  The type invariant comes first; the *)
(* membership invariants are inductive together and rest on it.            *)
(***************************************************************************)
EXTENDS Clans, TLAPS, FiniteSetTheorems, SequenceTheorems

\* The strengthening: clan ids not handed out yet have empty sets, without which
\* FoundClan could put its founder into a set it is already an applicant of.
UnusedAreEmpty ==
    \A c \in ClanIds :
        ~ Exists(c) => members[c] = {} /\ pending[c] = {} /\ banned[c] = {}

MembershipInv ==
    /\ TypeOK
    /\ UnusedAreEmpty
    /\ ClanIdHasMembership
    /\ FounderIsMember
    /\ OneStanding
    /\ NamesAreUnique

\* Every action, refused or not, keeps the players' and clans' records well formed.
LEMMA TypeStep == TypeOK /\ [Next]_vars => TypeOK'
<1> SUFFICES ASSUME TypeOK, [Next]_vars PROVE TypeOK'
  OBVIOUS
<1> USE DEF TypeOK, ClanIds
<1>1. ASSUME NEW p \in Players, EnterWorld(p) PROVE TypeOK'
  BY <1>1 DEF EnterWorld, clanVars
<1>2. ASSUME NEW p \in Players, LeaveWorld(p) PROVE TypeOK'
  BY <1>2 DEF LeaveWorld, clanVars
<1>3. ASSUME NEW p \in Players, LevelUp(p) PROVE TypeOK'
  BY <1>3 DEF LevelUp, clanVars
<1>4. ASSUME NEW p \in Players, NEW name \in Names, FoundClan(p, name)
      PROVE TypeOK'
  <2>1. /\ clanName' \in Seq(Names)
        /\ Len(clanName') = Len(clanName) + 1
        /\ Len(clanName) \in Nat
    BY <1>4 DEF FoundClan
  <2>2. Len(clanName) + 1 \in ClanIds
    BY <1>4, <2>1, MaxClansAssumption DEF FoundClan
  <2>3. QED
    BY <1>4, <2>1, <2>2 DEF FoundClan, NewClanId
<1>5. ASSUME NEW p \in Players, NEW c \in ClanIds, RequestJoin(p, c)
      PROVE TypeOK'
  BY <1>5 DEF RequestJoin
<1>6. ASSUME NEW p \in Players, NEW c \in ClanIds, LeaveClan(p, c)
      PROVE TypeOK'
  BY <1>6 DEF LeaveClan
<1>7. ASSUME NEW f \in Players, NEW t \in Players, NEW c \in ClanIds,
             NEW nick \in Nicks, FounderActs(f, c, nick, t)
      PROVE TypeOK'
  <2>1. c \in 0..Len(clanName) /\ Len(clanName) \in Nat
    BY <1>7 DEF FounderActs, Resolves, Exists
  <2>2. CASE Accept(f, c, t)
    BY <2>1, <2>2 DEF Accept, Withdraw
  <2>3. CASE Reject(f, c, t)
    BY <2>3 DEF Reject, Withdraw
  <2>4. CASE Ban(f, c, t)
    BY <2>1, <2>4 DEF Ban, Withdraw, ClanIdAfterBan
  <2>5. CASE Kick(f, c, t)
    <3>1. clanId' \in [Players -> 0..Len(clanName)] /\ clanName' = clanName
      BY <2>1, <2>5 DEF Kick
    <3>2. members' \in [ClanIds -> SUBSET Players]
      BY <2>5 DEF Kick
    <3>3. QED
      BY <2>5, <3>1, <3>2 DEF Kick
  <2>6. QED
    BY <1>7, <2>2, <2>3, <2>4, <2>5 DEF FounderActs
<1>8. CASE UNCHANGED vars
  BY <1>8 DEF vars
<1>9. QED
  BY <1>1, <1>2, <1>3, <1>4, <1>5, <1>6, <1>7, <1>8 DEF Next

\* Type correctness of every reachable state, for every value of the constants.
THEOREM TypeCorrect == Spec => []TypeOK
<1>1. Init => TypeOK
  BY MaxClansAssumption DEF Init, TypeOK, ClanIds
<1>2. TypeOK /\ [Next]_vars => TypeOK'
  BY TypeStep
<1>3. QED
  BY <1>1, <1>2, PTL DEF Spec

\* The inductive step of MembershipInv, one case per ClanCommand and one for each
\* way a player enters or leaves the World.
LEMMA MembershipStep == MembershipInv /\ [Next]_vars => MembershipInv'
<1> SUFFICES ASSUME MembershipInv, [Next]_vars PROVE MembershipInv'
  OBVIOUS
<1> USE DEF MembershipInv
<1>0. TypeOK'
  BY TypeStep
<1>1. ASSUME NEW p \in Players, EnterWorld(p) PROVE MembershipInv'
  BY <1>0, <1>1 DEF EnterWorld, clanVars, UnusedAreEmpty, ClanIdHasMembership,
                    FounderIsMember, OneStanding, NamesAreUnique, Exists
<1>2. ASSUME NEW p \in Players, LeaveWorld(p) PROVE MembershipInv'
  BY <1>0, <1>2 DEF LeaveWorld, clanVars, UnusedAreEmpty, ClanIdHasMembership,
                    FounderIsMember, OneStanding, NamesAreUnique, Exists, TypeOK
<1>3. ASSUME NEW p \in Players, LevelUp(p) PROVE MembershipInv'
  BY <1>0, <1>3 DEF LevelUp, clanVars, UnusedAreEmpty, ClanIdHasMembership,
                    FounderIsMember, OneStanding, NamesAreUnique, Exists
<1>4. ASSUME NEW p \in Players, NEW name \in Names, FoundClan(p, name)
      PROVE MembershipInv'
  <2> DEFINE new == Len(clanName) + 1
  <2>1. /\ Len(clanName) \in Nat
        /\ new \in ClanIds
        /\ ~ Exists(new)
    BY <1>4, MaxClansAssumption DEF FoundClan, TypeOK, ClanIds, Exists
  <2>2. /\ Len(clanName') = new
        /\ clanName'[new] = name
        /\ \A c \in 1..Len(clanName) : clanName'[c] = clanName[c]
    BY <1>4 DEF FoundClan, TypeOK
  <2>3. /\ members'[new] = {p}
        /\ founder'[new] = p
        /\ \A c \in ClanIds \ {new} : /\ members'[c] = members[c]
                                       /\ founder'[c] = founder[c]
        /\ pending' = pending
        /\ banned' = banned
    BY <1>4, <2>1 DEF FoundClan, TypeOK
  <2>4. UnusedAreEmpty'
    BY <2>1, <2>2, <2>3 DEF UnusedAreEmpty, Exists, ClanIds
  <2>5. ClanIdHasMembership'
    BY <1>4, <2>1, <2>3 DEF FoundClan, NewClanId, ClanIdHasMembership, TypeOK,
                            Exists, ClanIds
  <2>6. FounderIsMember'
    <3>1. \A c \in 1..Len(clanName) : c \in ClanIds \ {new}
      BY <2>1, MaxClansAssumption DEF ClanIds
    <3>2. \A c \in 1..Len(clanName) : founder'[c] \in members'[c]
      BY <2>3, <3>1 DEF FounderIsMember
    <3>3. 1..Len(clanName') = (1..Len(clanName)) \cup {new}
      BY <2>1, <2>2
    <3>4. founder'[new] \in members'[new]
      BY <2>3
    <3>5. QED
      BY <3>2, <3>3, <3>4 DEF FounderIsMember
  <2>7. OneStanding'
    BY <2>1, <2>3 DEF OneStanding, UnusedAreEmpty
  <2>8. NamesAreUnique'
    BY <1>4, <2>1, <2>2 DEF FoundClan, NamesAreUnique, NameTaken
  <2>9. QED
    BY <1>0, <2>4, <2>5, <2>6, <2>7, <2>8
<1>5. ASSUME NEW p \in Players, NEW c \in ClanIds, RequestJoin(p, c)
      PROVE MembershipInv'
  <2>1. UNCHANGED <<online, clanId, clanName, founder, members, banned>>
    BY <1>5 DEF RequestJoin
  <2>2. ClanIdHasMembership' /\ FounderIsMember' /\ NamesAreUnique'
    BY <2>1 DEF ClanIdHasMembership, FounderIsMember, NamesAreUnique, Exists, IsMember
  <2>3. UnusedAreEmpty'
    BY <1>5 DEF RequestJoin, UnusedAreEmpty, Exists, TypeOK
  <2>4. OneStanding'
    BY <1>5 DEF RequestJoin, CanRequest, IsMember, IsBanned, OneStanding, TypeOK
  <2>5. QED
    BY <1>0, <2>2, <2>3, <2>4
<1>6. ASSUME NEW p \in Players, NEW c \in ClanIds, LeaveClan(p, c)
      PROVE MembershipInv'
  BY <1>0, <1>6 DEF LeaveClan, IsMember, UnusedAreEmpty, ClanIdHasMembership,
       FounderIsMember, OneStanding, NamesAreUnique, Exists, TypeOK, ClanIds
<1>7. ASSUME NEW f \in Players, NEW t \in Players, NEW c \in ClanIds,
             NEW nick \in Nicks, FounderActs(f, c, nick, t)
      PROVE MembershipInv'
  <2>1. Exists(c)
    BY <1>7 DEF FounderActs, Resolves
  <2> USE DEF UnusedAreEmpty, ClanIdHasMembership, FounderIsMember, OneStanding,
              NamesAreUnique, Exists, TypeOK, ClanIds
  <2>2. CASE Accept(f, c, t)
    <3>1. /\ t \in pending[c]
          /\ members' = [members EXCEPT ![c] = @ \cup {t}]
          /\ pending' = [pending EXCEPT ![c] = @ \ {t}]
          /\ clanId' = [clanId EXCEPT ![t] = c]
          /\ banned' = banned /\ founder' = founder /\ clanName' = clanName
      BY <2>2 DEF Accept, CanAccept, Withdraw, IsPending
    <3>2. ClanIdHasMembership'
      BY <3>1
    <3>3. OneStanding'
      BY <3>1
    <3>4. UnusedAreEmpty' /\ FounderIsMember' /\ NamesAreUnique'
      BY <2>1, <3>1
    <3>5. QED
      BY <1>0, <3>2, <3>3, <3>4
  <2>3. CASE Reject(f, c, t)
    BY <1>0, <2>1, <2>3 DEF Reject, Withdraw
  <2>4. CASE Ban(f, c, t)
    BY <1>0, <2>1, <2>4 DEF Ban, Withdraw, ClanIdAfterBan, IsMember
  <2>5. CASE Kick(f, c, t)
    BY <1>0, <2>1, <2>5 DEF Kick, CanKick, IsMember
  <2>6. QED
    BY <1>7, <2>2, <2>3, <2>4, <2>5 DEF FounderActs
<1>8. CASE UNCHANGED vars
  BY <1>0, <1>8 DEF vars, UnusedAreEmpty, ClanIdHasMembership, FounderIsMember,
                    OneStanding, NamesAreUnique, Exists
<1>9. QED
  BY <1>1, <1>2, <1>3, <1>4, <1>5, <1>6, <1>7, <1>8 DEF Next

\* Every reachable state satisfies the strengthened invariant.
THEOREM MembershipCorrect == Spec => []MembershipInv
<1>1. Init => MembershipInv
  <2>1. ASSUME Init PROVE Len(clanName) = 0
    BY <2>1 DEF Init
  <2>2. ASSUME Init PROVE TypeOK
    BY <2>1, <2>2, MaxClansAssumption DEF Init, TypeOK, ClanIds
  <2>3. ASSUME Init PROVE UnusedAreEmpty /\ ClanIdHasMembership
    BY <2>3 DEF Init, UnusedAreEmpty, ClanIdHasMembership
  <2>4. ASSUME Init PROVE FounderIsMember /\ OneStanding /\ NamesAreUnique
    BY <2>1, <2>4 DEF Init, FounderIsMember, OneStanding, NamesAreUnique
  <2>5. QED
    BY <2>2, <2>3, <2>4 DEF MembershipInv
<1>2. QED
  BY <1>1, MembershipStep, PTL DEF Spec

\* A Player's clan_id always names a clan that counts the player as a member.
THEOREM ClanIdCorrect == Spec => []ClanIdHasMembership
<1>1. MembershipInv => ClanIdHasMembership
  BY DEF MembershipInv
<1>2. QED
  BY <1>1, MembershipCorrect, PTL

\* A founder never stops being a member of the clan it founded.
THEOREM FounderCorrect == Spec => []FounderIsMember
<1>1. MembershipInv => FounderIsMember
  BY DEF MembershipInv
<1>2. QED
  BY <1>1, MembershipCorrect, PTL

\* Member, applicant and banned exclude one another in every clan.
THEOREM StandingCorrect == Spec => []OneStanding
<1>1. MembershipInv => OneStanding
  BY DEF MembershipInv
<1>2. QED
  BY <1>1, MembershipCorrect, PTL

\* Two clans never have one name, so get_clan_by_name is unambiguous.
THEOREM NamesCorrect == Spec => []NamesAreUnique
<1>1. MembershipInv => NamesAreUnique
  BY DEF MembershipInv
<1>2. QED
  BY <1>1, MembershipCorrect, PTL

-----------------------------------------------------------------------------
\* Only Clan::accept makes a clan that exists grow, and it looks at is_full first.
LEMMA CapacityStep ==
  TypeOK /\ WithinCapacity /\ [Next]_vars => WithinCapacity'
<1> SUFFICES ASSUME TypeOK, WithinCapacity, [Next]_vars,
                    NEW d \in ClanIds
             PROVE  IsFiniteSet(members'[d]) /\ Cardinality(members'[d]) <= MaxMembers
  BY DEF WithinCapacity
<1>1. IsFiniteSet(members[d]) /\ Cardinality(members[d]) <= MaxMembers
  BY DEF WithinCapacity
<1>2. Cardinality(members[d]) \in Nat
  BY <1>1, FS_CardinalityType
<1>3. CASE members'[d] = members[d]
  BY <1>1, <1>3
<1>4. ASSUME NEW p \in Players, members'[d] = {p}
      PROVE  IsFiniteSet(members'[d]) /\ Cardinality(members'[d]) <= MaxMembers
  <2>1. IsFiniteSet({p}) /\ Cardinality({p}) = 1
    BY FS_Singleton
  <2>2. QED
    BY <1>4, <2>1, MaxMembersAssumption
<1>5. ASSUME NEW p \in Players, members'[d] = members[d] \ {p}
      PROVE  IsFiniteSet(members'[d]) /\ Cardinality(members'[d]) <= MaxMembers
  <2>1. /\ IsFiniteSet(members[d] \ {p})
        /\ Cardinality(members[d] \ {p}) =
              IF p \in members[d] THEN Cardinality(members[d]) - 1
                                ELSE Cardinality(members[d])
    BY <1>1, FS_RemoveElement
  <2>2. QED
    BY <1>1, <1>2, <1>5, <2>1, MaxMembersAssumption
<1>6. ASSUME NEW p \in Players, members'[d] = members[d] \cup {p}, ~ IsFull(d)
      PROVE  IsFiniteSet(members'[d]) /\ Cardinality(members'[d]) <= MaxMembers
  <2>1. /\ IsFiniteSet(members[d] \cup {p})
        /\ Cardinality(members[d] \cup {p}) =
              IF p \in members[d] THEN Cardinality(members[d])
                                ELSE Cardinality(members[d]) + 1
    BY <1>1, FS_AddElement
  <2>2. QED
    BY <1>1, <1>2, <1>6, <2>1, MaxMembersAssumption DEF IsFull
<1>7. \/ members'[d] = members[d]
      \/ \E p \in Players : \/ members'[d] = {p}
                            \/ members'[d] = members[d] \ {p}
                            \/ members'[d] = members[d] \cup {p} /\ ~ IsFull(d)
  <2> USE DEF TypeOK
  <2> DEFINE ClansAlone == \/ UNCHANGED vars
                           \/ \E p \in Players : EnterWorld(p) \/ LeaveWorld(p) \/ LevelUp(p)
  <2>1. ClansAlone => members' = members
    BY DEF vars, clanVars, EnterWorld, LeaveWorld, LevelUp
  <2>2. ASSUME NEW p \in Players, NEW name \in Names, FoundClan(p, name)
        PROVE  members'[d] = members[d] \/ members'[d] = {p}
    BY <2>2 DEF FoundClan
  <2>3. ASSUME NEW p \in Players, NEW c \in ClanIds,
               RequestJoin(p, c) \/ LeaveClan(p, c)
        PROVE  members'[d] = members[d] \/ members'[d] = members[d] \ {p}
    BY <2>3 DEF RequestJoin, LeaveClan
  <2>4. ASSUME NEW f \in Players, NEW t \in Players, NEW c \in ClanIds,
               NEW nick \in Nicks, FounderActs(f, c, nick, t)
        PROVE  \/ members'[d] = members[d]
               \/ members'[d] = members[d] \ {t}
               \/ members'[d] = members[d] \cup {t} /\ ~ IsFull(d)
    BY <2>4 DEF FounderActs, Accept, CanAccept, Reject, Ban, Kick
  <2>5. QED
    BY <2>1, <2>2, <2>3, <2>4 DEF Next
<1>8. QED
  BY <1>3, <1>4, <1>5, <1>6, <1>7

\* No clan ever has more members than clan_max_members.
THEOREM CapacityCorrect == Spec => []WithinCapacity
<1>1. Init => WithinCapacity
  BY FS_EmptySet, MaxMembersAssumption DEF Init, WithinCapacity
<1>2. QED
  BY <1>1, TypeCorrect, CapacityStep, PTL DEF Spec

\* The only ways into a clan: founding it, or having asked and being accepted.
THEOREM JoinsByRequestCorrect == Spec => JoinsByRequest
<1> DEFINE Joins == \A c \in ClanIds : \A p \in members'[c] \ members[c] :
                       p \in pending[c] \/ c = Len(clanName) + 1
<1>1. TypeOK /\ [Next]_vars => [Joins]_vars
  <2> SUFFICES ASSUME TypeOK, Next PROVE Joins
    OBVIOUS
  <2> USE DEF TypeOK
  <2>1. ASSUME NEW p \in Players, EnterWorld(p) \/ LeaveWorld(p) \/ LevelUp(p)
        PROVE  Joins
    BY <2>1 DEF EnterWorld, LeaveWorld, LevelUp, clanVars
  <2>2. ASSUME NEW p \in Players, NEW name \in Names, FoundClan(p, name)
        PROVE  Joins
    BY <2>2 DEF FoundClan
  <2>3. ASSUME NEW p \in Players, NEW c \in ClanIds,
               RequestJoin(p, c) \/ LeaveClan(p, c)
        PROVE  Joins
    BY <2>3 DEF RequestJoin, LeaveClan
  <2>4. ASSUME NEW f \in Players, NEW t \in Players, NEW c \in ClanIds,
               NEW nick \in Nicks, FounderActs(f, c, nick, t)
        PROVE  Joins
    <3>1. CASE Accept(f, c, t)
      BY <3>1 DEF Accept, CanAccept, IsPending
    <3>2. CASE Reject(f, c, t)
      BY <3>2 DEF Reject
    <3>3. ASSUME Ban(f, c, t) \/ Kick(f, c, t)
          PROVE  members' = [members EXCEPT ![c] = members[c] \ {t}]
      BY <3>3 DEF Ban, Kick
    <3>4. CASE Ban(f, c, t) \/ Kick(f, c, t)
      <4>1. members' = [members EXCEPT ![c] = members[c] \ {t}]
        BY <3>3, <3>4
      <4>2. \A e \in ClanIds : members'[e] \subseteq members[e]
        BY <4>1
      <4> QED
        BY <4>2
    <3>5. QED
      BY <2>4, <3>1, <3>2, <3>4 DEF FounderActs
  <2>5. QED
    BY <2>1, <2>2, <2>3, <2>4 DEF Next
<1>2. QED
  BY <1>1, TypeCorrect, PTL DEF Spec, JoinsByRequest

\* A banned id is for ever neither a member nor an applicant.
THEOREM BanIsFinalCorrect == Spec => BanIsFinal
<1> DEFINE Out == \A c \in ClanIds : banned[c] \cap (members'[c] \cup pending'[c]) = {}
<1>1. TypeOK /\ [Next]_vars => \A c \in ClanIds : banned[c] \subseteq banned'[c]
  BY DEF TypeOK, Next, vars, EnterWorld, LeaveWorld, LevelUp, clanVars, FoundClan,
         RequestJoin, LeaveClan, FounderActs, Accept, Reject, Ban, Kick
<1>2. TypeOK /\ OneStanding' /\ [Next]_vars => [Out]_vars
  BY <1>1 DEF OneStanding
<1>3. QED
  BY <1>2, TypeCorrect, StandingCorrect, PTL DEF Spec, BanIsFinal

\* Founder, standings, capacity and names together.
THEOREM ConsistentCorrect == Spec => []ClansAreConsistent
BY FounderCorrect, StandingCorrect, CapacityCorrect, NamesCorrect, PTL DEF ClansAreConsistent

\* In by request, out for ever by a ban.
THEOREM WaysCorrect == Spec => WaysIntoClans
BY JoinsByRequestCorrect, BanIsFinalCorrect DEF WaysIntoClans
=============================================================================
