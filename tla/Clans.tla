-------------------------------- MODULE Clans --------------------------------
(***************************************************************************)
(* The clans of one World: the Clan objects (server/game/clan.cpp), the    *)
(* clan operations of World (server/world/world.cpp) that ClanCommand      *)
(* dispatches to, and the two moments at which a Player object appears in  *)
(* or disappears from the World, because the object carries clan_id while  *)
(* the Clan carries the member ids.                                        *)
(*                                                                         *)
(* Every operation runs to completion inside BasicMatch::tick, so each one *)
(* is a single action.  An operation the code refuses changes nothing: its *)
(* guard is false here.                                                    *)
(*                                                                         *)
(* A definition called ...Bug is a mutated form of the one that follows    *)
(* it: the mistake one of the properties below has to notice.              *)
(***************************************************************************)
EXTENDS Integers, Sequences, FiniteSets

CONSTANTS
    Players,     \* player ids: one per login, so a nick may own several
    Nicks,       \* the nicks players log in with
    Nick,        \* the nick each player id logged in with
    Names,       \* the (non-empty) clan names players type
    MaxMembers,  \* GameConfig's clan_max_members
    MaxClans     \* bound of the model on next_clan_id

ASSUME PlayersAssumption == Players \subseteq Nat \ {0}
ASSUME NickAssumption == Nick \in [Players -> Nicks]
ASSUME MaxMembersAssumption == MaxMembers \in Nat \ {0}
ASSUME MaxClansAssumption == MaxClans \in Nat

ClanIds == 1..MaxClans

VARIABLES
    online,    \* ids in World::players
    veterans,  \* those whose level reaches clan_min_level_to_found
    clanId,    \* Player::clan_id, 0 without a clan (and while not online)
    clanName,  \* names of the clans created so far: World::clans_by_id
    founder, members, pending, banned   \* the fields of each Clan

vars == <<online, veterans, clanId, clanName, founder, members, pending, banned>>
clanVars == <<clanName, founder, members, pending, banned>>

Exists(c) == c \in 1..Len(clanName)
IsMember(c, p) == p \in members[c]
IsPending(c, p) == p \in pending[c]
IsFull(c) == Cardinality(members[c]) >= MaxMembers

IsBannedBug(c, p) == FALSE
IsBanned(c, p) == p \in banned[c]

NameTaken(name) == \E c \in 1..Len(clanName) : clanName[c] = name

\* next_clan_id++ in World::create_clan.
NewClanIdBug == Len(clanName) + 2
NewClanId == Len(clanName) + 1

\* get_player_by_name walks a map ordered by id and stops at the first match.
IsPlayerByName(p, nick) ==
    /\ p \in online
    /\ Nick[p] = nick
    /\ \A q \in online : Nick[q] = nick => p <= q

\* resolve_founder_and_target: f speaks for the clan its Player points at.
Resolves(f, c, nick, t) ==
    /\ f \in online
    /\ c = clanId[f]
    /\ Exists(c)
    /\ IsPlayerByName(t, nick)

CanRequest(c, p) ==
    ~ IsMember(c, p) /\ ~ IsPending(c, p) /\ ~ IsBanned(c, p) /\ ~ IsFull(c)

CanAcceptFullBug(f, c, t) == founder[c] = f /\ IsPending(c, t)
CanAccept(f, c, t) == founder[c] = f /\ IsPending(c, t) /\ ~ IsFull(c)

CanKick(f, c, t) == founder[c] = f /\ t # founder[c] /\ IsMember(c, t)

Withdraw(c, t) == [pending EXCEPT ![c] = @ \ {t}]

\* ban_clan_member clears clan_id only if the target belonged to this clan.
ClanIdAfterBanBug(c, t) == clanId
ClanIdAfterBan(c, t) ==
    IF IsMember(c, t) THEN [clanId EXCEPT ![t] = 0] ELSE clanId

-----------------------------------------------------------------------------
Init ==
    /\ online = {}
    /\ veterans = {}
    /\ clanId = [p \in Players |-> 0]
    /\ clanName = <<>>
    /\ founder = [c \in ClanIds |-> 0]
    /\ members = [c \in ClanIds |-> {}]
    /\ pending = [c \in ClanIds |-> {}]
    /\ banned = [c \in ClanIds |-> {}]

\* World::add_player with a new Player, whose clan_id starts at 0; a restored
\* one may already have the level.
EnterWorld(p) ==
    /\ p \notin online
    /\ online' = online \cup {p}
    /\ veterans' \in {veterans, veterans \cup {p}}
    /\ UNCHANGED <<clanId, clanVars>>

\* World::remove_player destroys the Player object; the clans keep the id.
LeaveWorld(p) ==
    /\ p \in online
    /\ online' = online \ {p}
    /\ veterans' = veterans \ {p}
    /\ clanId' = [clanId EXCEPT ![p] = 0]
    /\ UNCHANGED clanVars

\* Player::level_up, by experience or by the cheat; a level is never lost.
LevelUp(p) ==
    /\ p \in online \ veterans
    /\ veterans' = veterans \cup {p}
    /\ UNCHANGED <<online, clanId, clanVars>>

FoundClan(p, name) ==
    /\ p \in veterans
    /\ clanId[p] = 0
    /\ ~ NameTaken(name)
    /\ Len(clanName) < MaxClans
    /\ clanName' = Append(clanName, name)
    /\ founder' = [founder EXCEPT ![Len(clanName) + 1] = p]
    /\ members' = [members EXCEPT ![Len(clanName) + 1] = {p}]
    /\ clanId' = [clanId EXCEPT ![p] = NewClanId]
    /\ UNCHANGED <<online, veterans, pending, banned>>

RequestJoin(p, c) ==
    /\ p \in online
    /\ clanId[p] = 0
    /\ Exists(c)
    /\ CanRequest(c, p)
    /\ pending' = [pending EXCEPT ![c] = @ \cup {p}]
    /\ UNCHANGED <<online, veterans, clanId, clanName, founder, members, banned>>

\* accept_clan_member never looks at the clan_id the target already has.
Accept(f, c, t) ==
    /\ CanAccept(f, c, t)
    /\ pending' = Withdraw(c, t)
    /\ members' = [members EXCEPT ![c] = @ \cup {t}]
    /\ clanId' = [clanId EXCEPT ![t] = c]
    /\ UNCHANGED <<online, veterans, clanName, founder, banned>>

Reject(f, c, t) ==
    /\ founder[c] = f
    /\ IsPending(c, t)
    /\ pending' = Withdraw(c, t)
    /\ UNCHANGED <<online, veterans, clanId, clanName, founder, members, banned>>

Ban(f, c, t) ==
    /\ founder[c] = f
    /\ t # founder[c]
    /\ pending' = Withdraw(c, t)
    /\ members' = [members EXCEPT ![c] = @ \ {t}]
    /\ banned' = [banned EXCEPT ![c] = @ \cup {t}]
    /\ clanId' = ClanIdAfterBan(c, t)
    /\ UNCHANGED <<online, veterans, clanName, founder>>

\* The target's clan_id is cleared whichever clan it names.
Kick(f, c, t) ==
    /\ CanKick(f, c, t)
    /\ members' = [members EXCEPT ![c] = @ \ {t}]
    /\ clanId' = [clanId EXCEPT ![t] = 0]
    /\ UNCHANGED <<online, veterans, clanName, founder, pending, banned>>

LeaveClan(p, c) ==
    /\ p \in online
    /\ c = clanId[p]
    /\ Exists(c)
    /\ p # founder[c]
    /\ IsMember(c, p)
    /\ members' = [members EXCEPT ![c] = @ \ {p}]
    /\ clanId' = [clanId EXCEPT ![p] = 0]
    /\ UNCHANGED <<online, veterans, clanName, founder, pending, banned>>

FounderActs(f, c, nick, t) ==
    /\ Resolves(f, c, nick, t)
    /\ Accept(f, c, t) \/ Reject(f, c, t) \/ Ban(f, c, t) \/ Kick(f, c, t)

Next ==
    \/ \E p \in Players : EnterWorld(p) \/ LeaveWorld(p) \/ LevelUp(p)
    \/ \E p \in Players, name \in Names : FoundClan(p, name)
    \/ \E p \in Players, c \in ClanIds : RequestJoin(p, c) \/ LeaveClan(p, c)
    \/ \E f, t \in Players, c \in ClanIds, nick \in Nicks :
           FounderActs(f, c, nick, t)

Spec == Init /\ [][Next]_vars

-----------------------------------------------------------------------------
\* Types: veterans are online, and a clan_id names a clan that was created.
TypeOK ==
    /\ online \in SUBSET Players
    /\ veterans \in SUBSET online
    /\ clanName \in Seq(Names)
    /\ Len(clanName) <= MaxClans
    /\ clanId \in [Players -> 0..Len(clanName)]
    /\ founder \in [ClanIds -> Players \cup {0}]
    /\ members \in [ClanIds -> SUBSET Players]
    /\ pending \in [ClanIds -> SUBSET Players]
    /\ banned \in [ClanIds -> SUBSET Players]

\* The two records of one fact never contradict in this direction: a Player
\* whose clan_id names a clan (and who therefore cannot be attacked by it and
\* gets its notices) is in that clan's member set, however many clans accepted,
\* kicked or banned the player and however often it left and came back.
ClanIdHasMembership ==
    \A p \in Players : clanId[p] # 0 => p \in members[clanId[p]]

\* A founder is a member of its clan for ever: neither ban, kick, leave nor a
\* disconnection removes it (Clan::ban, kick and leave test founder_id).
FounderIsMember ==
    \A c \in 1..Len(clanName) : founder[c] \in members[c]

\* A player is at most one of member, applicant and banned in one clan.
OneStanding ==
    \A c \in ClanIds : /\ members[c] \cap pending[c] = {}
                       /\ members[c] \cap banned[c] = {}
                       /\ pending[c] \cap banned[c] = {}

\* The member limit holds although an application is checked against it at the
\* request and the clan may fill up before the acceptance.
WithinCapacity ==
    \A c \in ClanIds : /\ IsFiniteSet(members[c])
                       /\ Cardinality(members[c]) <= MaxMembers

\* get_clan_by_name can return one clan only.
NamesAreUnique ==
    \A c, d \in 1..Len(clanName) : clanName[c] = clanName[d] => c = d

\* The sets, the founder and the names of the clans stay consistent through
\* every order of founding, requests, answers, bans, kicks and departures.
ClansAreConsistent == FounderIsMember /\ OneStanding /\ WithinCapacity /\ NamesAreUnique

\* Nobody becomes a member except by founding the clan or by the acceptance of
\* a request of its own that was still pending.
JoinsByRequest ==
    [][\A c \in ClanIds : \A p \in members'[c] \ members[c] :
          p \in pending[c] \/ c = Len(clanName) + 1]_vars

\* A ban is final for the player id: the id never again applies or belongs.
BanIsFinal ==
    [][\A c \in ClanIds : banned[c] \cap (members'[c] \cup pending'[c]) = {}]_vars

\* The ways in and out of a clan, whoever acts in between: in by request, out
\* for ever by a ban.
WaysIntoClans == JoinsByRequest /\ BanIsFinal
=============================================================================
