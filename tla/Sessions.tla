------------------------------- MODULE Sessions -------------------------------
(***************************************************************************)
(* The server around its worlds: the connections (ClientHandler with its   *)
(* receiver thread), the acceptor that admits and reaps them, the registry *)
(* of clients, nicks and matches (Server), each match with its player list *)
(* and command queue (BasicMatch), the part of World that says who has an  *)
(* avatar in it, and the game loop that runs the commands.                 *)
(*                                                                         *)
(* One action is one critical section of clients_mutex or matches_mutex,   *)
(* or the work of one thread that no other thread sees.  The fields of a   *)
(* PlayerConnection are read by its own receiver only until it is dead, so *)
(* a receiver's writes to them ride along with the section before them.    *)
(*                                                                         *)
(* The sender threads, shutdown and failures to start a thread are not     *)
(* here.  ...Bug: a mutated form of the definition that follows it.        *)
(***************************************************************************)
EXTENDS Integers, Sequences, FiniteSets

CONSTANTS
    Handlers,     \* slots for ClientHandler objects; freed when reaped
    Nicks, MatchNames,
    Capacities,   \* the max_players values clients ask for: non-zero uint8
    MaxPlayerId,  \* bounds of the model: logins, matches, queued commands
    MaxMatches, MaxQueue

ASSUME CapacitiesAssumption == Capacities \subseteq 1..255
ASSUME MaxPlayerIdAssumption == MaxPlayerId \in Nat
ASSUME MaxMatchesAssumption == MaxMatches \in Nat

MatchIds == 1..MaxMatches
PlayerIds == 1..MaxPlayerId
Match == [name : MatchNames, max : Capacities]

VARIABLES
    thread,   \* per slot: "free" (no handler), "run" (waiting for an opcode),
              \* "entering" (in handle_join_match past join_match), "closing"
              \* (in disconnect past leave_match), "ending", "dead"
    state, pid, cur,   \* PlayerConnection: state, player_id, current_match_id
    clients, nicksInUse,   \* Server, under clients_mutex
    logins,   \* the nick each player id was given to; its length is
              \* next_player_id - 1
    matches, players, currentPlayers, commands,  \* Server's matches; BasicMatch
    avatars,  \* the ids in World::players of each match
    saved,    \* Persister::cached: the (nick, match name) pairs in it
    accepting, toReap,   \* the acceptor past accept(); handlers left to visit
    phase, at, todo, held   \* the game loop: what it does, in which match, the
                            \* matches left, the Player pointers it holds

connVars == <<thread, state, pid, cur>>
nickVars == <<clients, nicksInUse, logins>>
matchVars == <<matches, players, currentPlayers>>
worldVars == <<commands, avatars, saved>>
acceptVars == <<accepting, toReap>>
loopVars == <<phase, at, todo, held>>
vars == <<connVars, nickVars, matchVars, worldVars, acceptVars, loopVars>>

\* What a login, a membership and a disconnection look like in the fields.
LoggedIn(h) == pid[h] # 0 /\ thread[h] \in {"run", "entering", "closing"}
NickOf(h) == logins[pid[h]]
HasSession(h, n) == LoggedIn(h) /\ NickOf(h) = n
IsIn(h, m) ==
    /\ cur[h] = m
    /\ \/ thread[h] = "entering"
       \/ thread[h] = "run" /\ state[h] = "IN_MATCH"

Receiving(h, s) == thread[h] = "run" /\ state[h] = s

NickTaken(nick) == nick \in nicksInUse

IsFullBug(m) == currentPlayers[m] > matches[m].max
IsFull(m) == currentPlayers[m] >= matches[m].max

\* remove_client frees the nick only of a connection disconnect() never saw.
NicksAfterRemovalBug(h) ==
    IF pid[h] # 0 THEN nicksInUse \ {NickOf(h)} ELSE nicksInUse
NicksAfterRemoval(h) ==
    IF state[h] # "DISCONNECTING" /\ pid[h] # 0 THEN nicksInUse \ {NickOf(h)}
                                                ELSE nicksInUse

\* The test of Server::disconnect before it leaves the match.
LeavesFirstBug(h) == FALSE
LeavesFirst(h) == state[h] = "IN_MATCH"

\* current_players.fetch_sub(1), on a uint8.
CountDownBug(n) == n
CountDown(n) == (n - 1) % 256

\* The matches for_each_match copies under matches_mutex.
ActiveMatchesPastEndBug == 1..Len(matches) + 1
ActiveMatches == 1..Len(matches)

Push(m, c) == commands' = [commands EXCEPT ![m] = Append(@, c)]

-----------------------------------------------------------------------------
\* Server's constructor recreates the matches of the save file.
RecreatedMatches ==
    {ms \in UNION {[1..k -> Match] : k \in 0..MaxMatches} :
        \A i, j \in DOMAIN ms : ms[i].name = ms[j].name => i = j}

Init ==
    /\ thread = [h \in Handlers |-> "free"]
    /\ state = [h \in Handlers |-> "CONNECTED"]
    /\ pid = [h \in Handlers |-> 0]
    /\ cur = [h \in Handlers |-> 0]
    /\ clients = {} /\ nicksInUse = {} /\ logins = <<>>
    /\ matches \in RecreatedMatches
    /\ saved \in SUBSET (Nicks \X {matches[m].name : m \in DOMAIN matches})
    /\ players = [m \in MatchIds |-> {}]
    /\ currentPlayers = [m \in MatchIds |-> 0]
    /\ commands = [m \in MatchIds |-> <<>>]
    /\ avatars = [m \in MatchIds |-> {}]
    /\ accepting = FALSE /\ toReap = {}
    /\ phase = "idle" /\ at = 0 /\ todo = {} /\ held = {}

-----------------------------------------------------------------------------
\* The acceptor.

\* accept() returned; reap() is about to walk the list.  (A slot must be or
\* become free: bound of the model.)
Accept ==
    /\ ~ accepting
    /\ \E h \in Handlers : thread[h] \in {"free", "dead"}
    /\ accepting' = TRUE
    /\ toReap' = {h \in Handlers : thread[h] # "free"}
    /\ UNCHANGED <<connVars, nickVars, matchVars, worldVars, loopVars>>

\* reap()'s predicate on one handler: remove_client and delete if it is dead.
VisitHandler(h) ==
    /\ h \in toReap
    /\ toReap' = toReap \ {h}
    /\ \/ thread[h] # "dead" /\ UNCHANGED <<connVars, nickVars>>
       \/ /\ thread[h] = "dead"
          /\ clients' = clients \ {h}
          /\ nicksInUse' = NicksAfterRemoval(h)
          /\ thread' = [thread EXCEPT ![h] = "free"]
          /\ state' = [state EXCEPT ![h] = "CONNECTED"]
          /\ pid' = [pid EXCEPT ![h] = 0]
          /\ cur' = [cur EXCEPT ![h] = 0]
          /\ UNCHANGED logins
    /\ UNCHANGED <<matchVars, worldVars, accepting, loopVars>>

\* new ClientHandler, add_client, start_threads.
Admit(h) ==
    /\ accepting /\ toReap = {}
    /\ thread[h] = "free"
    /\ thread' = [thread EXCEPT ![h] = "run"]
    /\ clients' = clients \cup {h}
    /\ accepting' = FALSE
    /\ UNCHANGED <<state, pid, cur, nicksInUse, logins, matchVars, worldVars,
                   toReap, loopVars>>

-----------------------------------------------------------------------------
\* A receiver thread.

Login(h, nick) ==
    /\ Receiving(h, "CONNECTED")
    /\ ~ NickTaken(nick)
    /\ Len(logins) < MaxPlayerId
    /\ logins' = Append(logins, nick)
    /\ nicksInUse' = nicksInUse \cup {nick}
    /\ pid' = [pid EXCEPT ![h] = Len(logins) + 1]
    /\ state' = [state EXCEPT ![h] = "AUTHENTICATED"]
    /\ UNCHANGED <<thread, cur, clients, matchVars, worldVars, acceptVars, loopVars>>

CreateMatch(h, name, max) ==
    /\ Receiving(h, "AUTHENTICATED")
    /\ \A m \in 1..Len(matches) : matches[m].name # name
    /\ Len(matches) < MaxMatches
    /\ matches' = Append(matches, [name |-> name, max |-> max])
    /\ UNCHANGED <<connVars, nickVars, players, currentPlayers, worldVars,
                   acceptVars, loopVars>>

\* Server::join_match.
JoinMatch(h, m) ==
    /\ Receiving(h, "AUTHENTICATED")
    /\ m \in 1..Len(matches)
    /\ ~ IsFull(m)
    /\ players' = [players EXCEPT ![m] = @ \cup {h}]
    /\ currentPlayers' = [currentPlayers EXCEPT ![m] = (@ + 1) % 256]
    /\ thread' = [thread EXCEPT ![h] = "entering"]
    /\ cur' = [cur EXCEPT ![h] = m]
    /\ UNCHANGED <<state, pid, nickVars, matches, worldVars, acceptVars, loopVars>>

\* The rest of handle_join_match: find_player_save and the push of a Restore.
EnterMatch(h) ==
    /\ thread[h] = "entering"
    /\ thread' = [thread EXCEPT ![h] = "run"]
    /\ state' = [state EXCEPT ![h] = "IN_MATCH"]
    /\ IF <<NickOf(h), matches[cur[h]].name>> \in saved
         THEN /\ Len(commands[cur[h]]) < MaxQueue
              /\ Push(cur[h], [op |-> "restore", pid |-> pid[h]])
         ELSE UNCHANGED commands
    /\ UNCHANGED <<pid, cur, nickVars, matchVars, avatars, saved, acceptVars, loopVars>>

\* (One pending choice per connection: bound of the model.)
SelectRaceClass(h) ==
    /\ Receiving(h, "IN_MATCH")
    /\ \A i \in 1..Len(commands[cur[h]]) :
           commands[cur[h]][i] # [op |-> "select", pid |-> pid[h]]
    /\ Len(commands[cur[h]]) < MaxQueue
    /\ Push(cur[h], [op |-> "select", pid |-> pid[h]])
    /\ UNCHANGED <<connVars, nickVars, matchVars, avatars, saved, acceptVars, loopVars>>

\* Server::leave_match with BasicMatch::remove_player: the match forgets the
\* connection, counts down and the receiver's own thread erases the avatar.
RemovePlayer(h) ==
    /\ players' = [players EXCEPT ![cur[h]] = @ \ {h}]
    /\ currentPlayers' = [currentPlayers EXCEPT ![cur[h]] = CountDown(@)]
    /\ avatars' = [avatars EXCEPT ![cur[h]] = @ \ {pid[h]}]
    /\ UNCHANGED <<matches, commands, saved>>

LeaveMatch(h) ==
    /\ Receiving(h, "IN_MATCH")
    /\ RemovePlayer(h)
    /\ cur' = [cur EXCEPT ![h] = 0]
    /\ state' = [state EXCEPT ![h] = "AUTHENTICATED"]
    /\ UNCHANGED <<thread, pid, nickVars, acceptVars, loopVars>>

\* DISCONNECT, or the socket failed: first half of Server::disconnect.
BeginDisconnect(h) ==
    /\ thread[h] = "run"
    /\ thread' = [thread EXCEPT ![h] = "closing"]
    /\ \/ LeavesFirst(h) /\ RemovePlayer(h)
       \/ ~ LeavesFirst(h) /\ UNCHANGED <<matchVars, worldVars>>
    /\ UNCHANGED <<state, pid, cur, nickVars, acceptVars, loopVars>>

\* Its second half, under clients_mutex.
EndDisconnect(h) ==
    /\ thread[h] = "closing"
    /\ thread' = [thread EXCEPT ![h] = "ending"]
    /\ state' = [state EXCEPT ![h] = "DISCONNECTING"]
    /\ nicksInUse' = IF pid[h] # 0 THEN nicksInUse \ {NickOf(h)} ELSE nicksInUse
    /\ UNCHANGED <<pid, cur, clients, logins, matchVars, worldVars, acceptVars, loopVars>>

\* The send queue is closed: both threads run out.
ThreadsEnd(h) ==
    /\ thread[h] = "ending"
    /\ thread' = [thread EXCEPT ![h] = "dead"]
    /\ UNCHANGED <<state, pid, cur, nickVars, matchVars, worldVars, acceptVars, loopVars>>

-----------------------------------------------------------------------------
\* The game loop.

BeginIteration ==
    /\ phase = "idle" /\ todo = {}
    /\ todo' = ActiveMatches
    /\ UNCHANGED <<connVars, nickVars, matchVars, worldVars, acceptVars, phase, at, held>>

\* The order in which an unordered_map is walked is arbitrary.
BeginMatch(m) ==
    /\ phase = "idle" /\ m \in todo
    /\ phase' = "tick"
    /\ at' = m
    /\ todo' = todo \ {m}
    /\ UNCHANGED <<connVars, nickVars, matchVars, worldVars, acceptVars, held>>

\* BasicMatch::tick executes one SelectRaceClass or Restore.  Either is without
\* effect if the player exists, and may find the position occupied.
ExecuteCommand ==
    /\ phase = "tick"
    /\ commands[at] # <<>>
    /\ commands' = [commands EXCEPT ![at] = Tail(@)]
    /\ \/ UNCHANGED avatars
       \/ avatars' = [avatars EXCEPT ![at] = @ \cup {Head(commands[at]).pid}]
    /\ UNCHANGED <<connVars, nickVars, matchVars, saved, acceptVars, loopVars>>

\* The queue is empty; get_players hands out the pointers of the snapshot.
BeginPublish ==
    /\ phase = "tick"
    /\ commands[at] = <<>>
    /\ phase' = "publish"
    /\ held' = avatars[at]
    /\ UNCHANGED <<connVars, nickVars, matchVars, worldVars, acceptVars, at, todo>>

EndMatch ==
    /\ phase = "publish"
    /\ phase' = "idle"
    /\ held' = {}
    /\ at' = 0
    /\ UNCHANGED <<connVars, nickVars, matchVars, worldVars, acceptVars, todo>>

\* save_state from the game loop; without players nothing is written.
Autosave ==
    /\ phase = "idle" /\ todo = {}
    /\ \E m \in 1..Len(matches) : avatars[m] # {}
    /\ saved' = UNION {{<<logins[p], matches[m].name>> : p \in avatars[m]} :
                           m \in 1..Len(matches)}
    /\ UNCHANGED <<connVars, nickVars, matchVars, commands, avatars, acceptVars, loopVars>>

-----------------------------------------------------------------------------
GameLoop ==
    \/ BeginIteration \/ ExecuteCommand \/ BeginPublish \/ EndMatch
    \/ \E m \in MatchIds : BeginMatch(m)

Acceptor == Accept \/ \E h \in Handlers : VisitHandler(h) \/ Admit(h)

Receiver(h) ==
    \/ \E nick \in Nicks : Login(h, nick)
    \/ \E name \in MatchNames, max \in Capacities : CreateMatch(h, name, max)
    \/ \E m \in MatchIds : JoinMatch(h, m)
    \/ EnterMatch(h) \/ SelectRaceClass(h) \/ LeaveMatch(h)
    \/ BeginDisconnect(h) \/ EndDisconnect(h) \/ ThreadsEnd(h)

Next == GameLoop \/ Autosave \/ Acceptor \/ \E h \in Handlers : Receiver(h)

Spec == Init /\ [][Next]_vars

-----------------------------------------------------------------------------
Command(n) == [op : {"select", "restore"}, pid : 1..n]

ConnTypes ==
    /\ thread \in [Handlers -> {"free", "run", "entering", "closing", "ending", "dead"}]
    /\ state \in [Handlers -> {"CONNECTED", "AUTHENTICATED", "IN_MATCH", "DISCONNECTING"}]
    /\ pid \in [Handlers -> 0..Len(logins)]
    /\ cur \in [Handlers -> 0..Len(matches)]

ListTypes ==
    /\ clients \in SUBSET Handlers
    /\ nicksInUse \in SUBSET Nicks
    /\ logins \in Seq(Nicks) /\ Len(logins) <= MaxPlayerId
    /\ matches \in Seq(Match) /\ Len(matches) <= MaxMatches
    /\ players \in [MatchIds -> SUBSET Handlers]
    /\ currentPlayers \in [MatchIds -> 0..255]
    /\ accepting \in BOOLEAN
    /\ toReap \in SUBSET Handlers

WorldTypes ==
    /\ commands \in [MatchIds -> Seq(Command(Len(logins)))]
    /\ avatars \in [MatchIds -> SUBSET (1..Len(logins))]
    /\ saved \in SUBSET (Nicks \X MatchNames)

LoopTypes ==
    /\ phase \in {"idle", "tick", "publish"}
    /\ at \in 0..Len(matches)
    /\ todo \in SUBSET (1..Len(matches))
    /\ held \in SUBSET (1..Len(logins))

\* Types; every id in use was handed out and every match referred to exists.
TypeOK == ConnTypes /\ ListTypes /\ WorldTypes /\ LoopTypes

\* The registry of nicks is exact: it holds the nicks of the connections that
\* are logged in, each of which owns its nick alone, although a nick is freed at
\* the disconnection and its connection is reaped at some later accept.
NickRegistryExact ==
    \A n \in Nicks :
        /\ n \in nicksInUse <=> \E h \in Handlers : HasSession(h, n)
        /\ \A g, h \in Handlers : HasSession(g, n) /\ HasSession(h, n) => g = h

\* The lists of raw PlayerConnection pointers never outlive the connections:
\* a match lists exactly those that are in it (a broadcast reaches them all and
\* follows no dangling pointer), and the server lists every undeleted one.
ListsAreLive ==
    /\ \A m \in MatchIds : players[m] = {h \in Handlers : IsIn(h, m)}
    /\ clients = {h \in Handlers : thread[h] # "free"}

\* current_players, an atomic uint8 kept beside the list and decremented without
\* a test, agrees with the list and stays within max_players.
CountIsExact ==
    \A m \in 1..Len(matches) :
        /\ IsFiniteSet(players[m])
        /\ currentPlayers[m] = Cardinality(players[m])
        /\ currentPlayers[m] <= matches[m].max

\* Where a nick is, for the lobby seen from outside.
RoomOf(h) == IF IsIn(h, cur[h]) THEN cur[h] ELSE 0
Place(n) ==
    IF \E h \in Handlers : HasSession(h, n)
      THEN RoomOf(CHOOSE h \in Handlers : HasSession(h, n))
      ELSE -1

\* Threads, reaping and counters implement one session per nick and rooms that
\* never hold more than their maximum.
Lobby == INSTANCE Rooms WITH rooms <- matches, place <- [n \in Nicks |-> Place(n)]
ImplementsRooms == Lobby!Spec

\* README.md:161-163: who joins a match with the nick and match name of a save is
\* restored.  So a saved character is not forgotten.  (Every save replaces the
\* whole file and the cache by the players who are in a world at that moment.)
SavedStaysSaved == [][saved \subseteq saved']_vars
=============================================================================
