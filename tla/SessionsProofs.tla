---------------------------- MODULE SessionsProofs ----------------------------
(***************************************************************************)
(* Machine-checked proofs about Sessions, for any number of connections,   *)
(* nicks, matches, logins and queued commands: the invariants, and then    *)
(* the step simulation that shows Sessions to implement Rooms.             *)
(***************************************************************************)
EXTENDS Sessions, TLAPS, FiniteSetTheorems, SequenceTheorems

\* What the phase of a receiver thread says about the connection's fields.
FieldsAgree ==
    \A h \in Handlers :
        /\ thread[h] = "free" => pid[h] = 0 /\ cur[h] = 0 /\ state[h] = "CONNECTED"
        /\ thread[h] \in {"ending", "dead"} <=> state[h] = "DISCONNECTING"
        /\ thread[h] = "entering" => state[h] = "AUTHENTICATED" /\ cur[h] # 0
        /\ state[h] = "IN_MATCH" => cur[h] # 0
        /\ state[h] = "CONNECTED" => pid[h] = 0
        /\ state[h] \in {"AUTHENTICATED", "IN_MATCH"} => pid[h] # 0

\* The game loop is at a match while it works on one.
LoopAgrees == phase # "idle" => at # 0

TypeInv == TypeOK /\ FieldsAgree /\ LoopAgrees

\* What an action does not write keeps its type.
LEMMA Frame ==
  ASSUME TypeOK, logins' = logins
  PROVE  /\ UNCHANGED <<connVars, matches>> => ConnTypes'
         /\ UNCHANGED <<clients, nicksInUse, matchVars, acceptVars>> => ListTypes'
         /\ UNCHANGED worldVars => WorldTypes'
         /\ UNCHANGED <<loopVars, matches>> => LoopTypes'
<1>1. UNCHANGED <<connVars, matches>> => ConnTypes'
  BY DEF TypeOK, ConnTypes, connVars
<1>2. UNCHANGED <<clients, nicksInUse, matchVars, acceptVars>> => ListTypes'
  BY DEF TypeOK, ListTypes, matchVars, acceptVars
<1>3. UNCHANGED worldVars => WorldTypes'
  BY DEF TypeOK, WorldTypes, worldVars
<1>4. UNCHANGED <<loopVars, matches>> => LoopTypes'
  BY DEF TypeOK, LoopTypes, loopVars
<1>5. QED
  BY <1>1, <1>2, <1>3, <1>4

\* Types and field agreement are inductive together: one step per action.
LEMMA TypeStep == TypeInv /\ [Next]_vars => TypeInv'
<1> SUFFICES ASSUME TypeInv, [Next]_vars PROVE TypeInv'
  OBVIOUS
<1> USE DEF TypeInv
<1>1. CASE Accept
  <2>1. ConnTypes' /\ WorldTypes' /\ LoopTypes'
    BY <1>1, Frame DEF Accept, nickVars, matchVars
  <2>2. ListTypes'
    BY <1>1 DEF Accept, nickVars, matchVars, TypeOK, ListTypes
  <2>3. FieldsAgree' /\ LoopAgrees'
    BY <1>1 DEF Accept, connVars, loopVars, FieldsAgree, LoopAgrees
  <2>4. QED
    BY <2>1, <2>2, <2>3 DEF TypeOK
<1>2. ASSUME NEW h \in Handlers, VisitHandler(h) PROVE TypeInv'
  <2>1. WorldTypes' /\ LoopTypes'
    BY <1>2, Frame DEF VisitHandler, nickVars, matchVars
  <2>2. ConnTypes'
    <3>1. logins' = logins /\ matches' = matches
      BY <1>2 DEF VisitHandler, nickVars, matchVars
    <3>2. CASE UNCHANGED connVars
      BY <3>1, <3>2, Frame
    <3>3. CASE thread[h] = "dead"
      <4>1. Len(logins) \in Nat /\ Len(matches) \in Nat
        BY DEF TypeOK, ListTypes
      <4>2. /\ thread' = [thread EXCEPT ![h] = "free"]
            /\ state' = [state EXCEPT ![h] = "CONNECTED"]
            /\ pid' = [pid EXCEPT ![h] = 0]
            /\ cur' = [cur EXCEPT ![h] = 0]
        BY <1>2, <3>3 DEF VisitHandler
      <4>3. pid' \in [Handlers -> 0..Len(logins)] /\ cur' \in [Handlers -> 0..Len(matches)]
        BY <4>1, <4>2 DEF TypeOK, ConnTypes
      <4>4. QED
        BY <3>1, <4>2, <4>3 DEF TypeOK, ConnTypes
    <3>4. QED
      BY <1>2, <3>2, <3>3 DEF VisitHandler
  <2>3. ListTypes'
    BY <1>2 DEF VisitHandler, NicksAfterRemoval, nickVars, matchVars, TypeOK, ListTypes
  <2>4. FieldsAgree' /\ LoopAgrees'
    BY <1>2 DEF VisitHandler, connVars, loopVars, TypeOK, ConnTypes, FieldsAgree, LoopAgrees
  <2>5. QED
    BY <2>1, <2>2, <2>3, <2>4 DEF TypeOK
<1>3. ASSUME NEW h \in Handlers, Admit(h) PROVE TypeInv'
  <2>1. WorldTypes' /\ LoopTypes'
    BY <1>3, Frame DEF Admit, matchVars
  <2>2. ConnTypes' /\ ListTypes'
    BY <1>3 DEF Admit, matchVars, TypeOK, ConnTypes, ListTypes
  <2>3. FieldsAgree' /\ LoopAgrees'
    BY <1>3 DEF Admit, loopVars, TypeOK, ConnTypes, FieldsAgree, LoopAgrees
  <2>4. QED
    BY <2>1, <2>2, <2>3 DEF TypeOK
<1>4. ASSUME NEW h \in Handlers, NEW nick \in Nicks, Login(h, nick) PROVE TypeInv'
  <2>1. /\ logins' \in Seq(Nicks)
        /\ Len(logins) \in Nat
        /\ Len(logins') = Len(logins) + 1
    BY <1>4 DEF Login, TypeOK, ListTypes
  <2>2. commands' \in [MatchIds -> Seq(Command(Len(logins')))]
    <3>1. Command(Len(logins)) \subseteq Command(Len(logins'))
      BY <2>1 DEF Command
    <3>2. commands \in [MatchIds -> Seq(Command(Len(logins')))]
      BY <3>1, SeqMonotonic DEF TypeOK, WorldTypes
    <3>3. QED
      BY <1>4, <3>2 DEF Login, worldVars
  <2>3. WorldTypes'
    BY <1>4, <2>1, <2>2 DEF Login, worldVars, TypeOK, WorldTypes
  <2>4. LoopTypes'
    BY <1>4, <2>1 DEF Login, loopVars, matchVars, TypeOK, LoopTypes
  <2>5. ConnTypes'
    BY <1>4, <2>1 DEF Login, matchVars, TypeOK, ConnTypes
  <2>6. ListTypes'
    BY <1>4, <2>1, MaxPlayerIdAssumption DEF Login, matchVars, acceptVars, TypeOK, ListTypes
  <2>7. FieldsAgree' /\ LoopAgrees'
    BY <1>4, <2>1 DEF Login, Receiving, loopVars, TypeOK, ConnTypes, FieldsAgree, LoopAgrees
  <2>8. QED
    BY <2>3, <2>4, <2>5, <2>6, <2>7 DEF TypeOK
<1>5. ASSUME NEW h \in Handlers, NEW name \in MatchNames, NEW max \in Capacities,
             CreateMatch(h, name, max)
      PROVE TypeInv'
  <2>1. /\ matches' \in Seq(Match)
        /\ Len(matches) \in Nat
        /\ Len(matches') = Len(matches) + 1
    BY <1>5 DEF CreateMatch, Match, TypeOK, ListTypes
  <2>2. WorldTypes'
    BY <1>5, Frame DEF CreateMatch, nickVars
  <2>3. ConnTypes' /\ LoopTypes'
    BY <1>5, <2>1 DEF CreateMatch, connVars, nickVars, loopVars, TypeOK, ConnTypes, LoopTypes
  <2>4. ListTypes'
    BY <1>5, <2>1, MaxMatchesAssumption DEF CreateMatch, nickVars, acceptVars, TypeOK, ListTypes
  <2>5. FieldsAgree' /\ LoopAgrees'
    BY <1>5 DEF CreateMatch, connVars, loopVars, FieldsAgree, LoopAgrees
  <2>6. QED
    BY <2>2, <2>3, <2>4, <2>5 DEF TypeOK
<1>6. ASSUME NEW h \in Handlers, NEW m \in MatchIds, JoinMatch(h, m) PROVE TypeInv'
  <2>1. WorldTypes' /\ LoopTypes'
    BY <1>6, Frame DEF JoinMatch, nickVars
  <2>2. ConnTypes'
    BY <1>6 DEF JoinMatch, nickVars, TypeOK, ConnTypes
  <2>3. ListTypes'
    <3>1. \A n \in 0..255 : (n + 1) % 256 \in 0..255
      OBVIOUS
    <3>2. currentPlayers' \in [MatchIds -> 0..255]
      BY <1>6, <3>1 DEF JoinMatch, TypeOK, ListTypes
    <3>3. QED
      BY <1>6, <3>2 DEF JoinMatch, nickVars, acceptVars, TypeOK, ListTypes
  <2>4. FieldsAgree' /\ LoopAgrees'
    BY <1>6 DEF JoinMatch, Receiving, loopVars, TypeOK, ConnTypes, FieldsAgree, LoopAgrees
  <2>5. QED
    BY <2>1, <2>2, <2>3, <2>4 DEF TypeOK
<1>7. ASSUME NEW h \in Handlers, EnterMatch(h) \/ SelectRaceClass(h) PROVE TypeInv'
  <2>1. pid[h] \in 1..Len(logins) /\ cur[h] \in MatchIds
    BY <1>7, MaxMatchesAssumption
    DEF EnterMatch, SelectRaceClass, Receiving, TypeOK, ConnTypes, ListTypes, FieldsAgree, MatchIds
  <2>2. ASSUME NEW op \in {"select", "restore"}, Push(cur[h], [op |-> op, pid |-> pid[h]])
        PROVE  commands' \in [MatchIds -> Seq(Command(Len(logins)))]
    <3>1. [op |-> op, pid |-> pid[h]] \in Command(Len(logins))
      BY <2>1 DEF Command
    <3>2. commands[cur[h]] \in Seq(Command(Len(logins)))
      BY <2>1 DEF TypeOK, WorldTypes
    <3>3. Append(commands[cur[h]], [op |-> op, pid |-> pid[h]]) \in Seq(Command(Len(logins)))
      BY <3>1, <3>2, AppendProperties
    <3>4. QED
      BY <2>1, <2>2, <3>3 DEF Push, TypeOK, WorldTypes
  <2>3. commands' \in [MatchIds -> Seq(Command(Len(logins)))]
    BY <1>7, <2>2 DEF EnterMatch, SelectRaceClass, TypeOK, WorldTypes
  <2>4. WorldTypes'
    BY <1>7, <2>3 DEF EnterMatch, SelectRaceClass, nickVars, TypeOK, WorldTypes
  <2>5. ListTypes' /\ LoopTypes'
    BY <1>7, Frame DEF EnterMatch, SelectRaceClass, nickVars, matchVars
  <2>6. ConnTypes'
    BY <1>7 DEF EnterMatch, SelectRaceClass, connVars, nickVars, matchVars, TypeOK, ConnTypes
  <2>7. FieldsAgree' /\ LoopAgrees'
    BY <1>7 DEF EnterMatch, SelectRaceClass, connVars, loopVars, TypeOK, ConnTypes,
                FieldsAgree, LoopAgrees
  <2>8. QED
    BY <2>4, <2>5, <2>6, <2>7 DEF TypeOK
<1>8. ASSUME NEW h \in Handlers, LeaveMatch(h) \/ BeginDisconnect(h) PROVE TypeInv'
  <2>1. ListTypes' /\ WorldTypes'
    <3>1. CASE RemovePlayer(h)
      <4>1. \A n \in 0..255 : CountDown(n) \in 0..255
        BY DEF CountDown
      <4>2. currentPlayers' \in [MatchIds -> 0..255]
        BY <3>1, <4>1 DEF RemovePlayer, TypeOK, ListTypes
      <4>3. ListTypes'
        BY <1>8, <3>1, <4>2 DEF LeaveMatch, BeginDisconnect, RemovePlayer, nickVars,
                                acceptVars, TypeOK, ListTypes
      <4>4. WorldTypes'
        BY <1>8, <3>1 DEF LeaveMatch, BeginDisconnect, RemovePlayer, nickVars, TypeOK, WorldTypes
      <4>5. QED
        BY <4>3, <4>4
    <3>2. CASE UNCHANGED <<matchVars, worldVars>>
      BY <1>8, <3>2, Frame DEF LeaveMatch, BeginDisconnect, nickVars
    <3>3. QED
      BY <1>8, <3>1, <3>2 DEF LeaveMatch, BeginDisconnect
  <2>2. matches' = matches
    BY <1>8 DEF LeaveMatch, BeginDisconnect, RemovePlayer, matchVars
  <2>3. LoopTypes'
    BY <1>8, <2>2, Frame DEF LeaveMatch, BeginDisconnect, nickVars
  <2>4. ConnTypes'
    <3>1. Len(matches) \in Nat /\ logins' = logins
      BY <1>8 DEF LeaveMatch, BeginDisconnect, nickVars, TypeOK, ListTypes
    <3>2. QED
      <4>1. CASE LeaveMatch(h)
        <5>1. cur' \in [Handlers -> 0..Len(matches)]
          BY <3>1, <4>1 DEF LeaveMatch, TypeOK, ConnTypes
        <5>2. QED
          BY <2>2, <3>1, <4>1, <5>1 DEF LeaveMatch, TypeOK, ConnTypes
      <4>2. CASE BeginDisconnect(h)
        BY <2>2, <3>1, <4>2 DEF BeginDisconnect, TypeOK, ConnTypes
      <4>3. QED
        BY <1>8, <4>1, <4>2
  <2>5. FieldsAgree' /\ LoopAgrees'
    BY <1>8 DEF LeaveMatch, BeginDisconnect, Receiving, loopVars, TypeOK, ConnTypes,
                FieldsAgree, LoopAgrees
  <2>6. QED
    BY <2>1, <2>3, <2>4, <2>5 DEF TypeOK
<1>9. ASSUME NEW h \in Handlers, EndDisconnect(h) \/ ThreadsEnd(h) PROVE TypeInv'
  <2>1. WorldTypes' /\ LoopTypes'
    BY <1>9, Frame DEF EndDisconnect, ThreadsEnd, nickVars, matchVars
  <2>2. ConnTypes' /\ ListTypes'
    <3>1. UNCHANGED <<pid, cur, clients, logins, matchVars, acceptVars>>
      BY <1>9 DEF EndDisconnect, ThreadsEnd, nickVars
    <3>2. nicksInUse' \in SUBSET Nicks
      BY <1>9 DEF EndDisconnect, ThreadsEnd, nickVars, TypeOK, ListTypes
    <3>3. ListTypes'
      BY <3>1, <3>2 DEF TypeOK, ListTypes, matchVars, acceptVars
    <3>4. thread' \in [Handlers -> {"free", "run", "entering", "closing", "ending", "dead"}]
      BY <1>9 DEF EndDisconnect, ThreadsEnd, TypeOK, ConnTypes
    <3>5. state' \in [Handlers -> {"CONNECTED", "AUTHENTICATED", "IN_MATCH", "DISCONNECTING"}]
      BY <1>9 DEF EndDisconnect, ThreadsEnd, TypeOK, ConnTypes
    <3>6. QED
      BY <3>1, <3>3, <3>4, <3>5 DEF TypeOK, ConnTypes, matchVars
  <2>3. FieldsAgree' /\ LoopAgrees'
    BY <1>9 DEF EndDisconnect, ThreadsEnd, loopVars, TypeOK, ConnTypes, FieldsAgree, LoopAgrees
  <2>4. QED
    BY <2>1, <2>2, <2>3 DEF TypeOK
<1>10. ASSUME BeginIteration \/ EndMatch \/ \E m \in MatchIds : BeginMatch(m) PROVE TypeInv'
  <2>1. ConnTypes' /\ ListTypes' /\ WorldTypes'
    BY <1>10, Frame DEF BeginIteration, EndMatch, BeginMatch, nickVars, matchVars
  <2>2. LoopTypes'
    <3>1. Len(matches) \in Nat
      BY DEF TypeOK, ListTypes
    <3>2. CASE BeginIteration
      BY <3>1, <3>2 DEF BeginIteration, ActiveMatches, nickVars, matchVars, TypeOK, LoopTypes
    <3>3. CASE EndMatch
      <4>1. at' \in 0..Len(matches) /\ logins' = logins /\ matches' = matches
        BY <3>1, <3>3 DEF EndMatch, nickVars, matchVars
      <4>2. QED
        BY <3>3, <4>1 DEF EndMatch, TypeOK, LoopTypes
    <3>4. ASSUME NEW m \in MatchIds, BeginMatch(m) PROVE LoopTypes'
      <4>1. at' \in 0..Len(matches) /\ logins' = logins /\ matches' = matches
        BY <3>1, <3>4 DEF BeginMatch, nickVars, matchVars, TypeOK, LoopTypes
      <4>2. QED
        BY <3>4, <4>1 DEF BeginMatch, TypeOK, LoopTypes
    <3>5. QED
      BY <1>10, <3>2, <3>3, <3>4
  <2>3. FieldsAgree' /\ LoopAgrees'
    BY <1>10 DEF BeginIteration, EndMatch, BeginMatch, connVars, TypeOK, LoopTypes, MatchIds,
                 FieldsAgree, LoopAgrees
  <2>4. QED
    BY <2>1, <2>2, <2>3 DEF TypeOK
<1>11. CASE ExecuteCommand
  <2>1. at \in MatchIds
    BY <1>11, MaxMatchesAssumption
    DEF ExecuteCommand, TypeOK, LoopTypes, ListTypes, LoopAgrees, MatchIds
  <2>2. /\ Head(commands[at]) \in Command(Len(logins))
        /\ Tail(commands[at]) \in Seq(Command(Len(logins)))
    BY <1>11, <2>1, HeadTailProperties DEF ExecuteCommand, TypeOK, WorldTypes
  <2>3. Head(commands[at]).pid \in 1..Len(logins)
    BY <2>2 DEF Command
  <2>4. WorldTypes'
    BY <1>11, <2>1, <2>2, <2>3 DEF ExecuteCommand, nickVars, TypeOK, WorldTypes
  <2>5. ConnTypes' /\ ListTypes' /\ LoopTypes'
    BY <1>11, Frame DEF ExecuteCommand, nickVars, matchVars
  <2>6. FieldsAgree' /\ LoopAgrees'
    BY <1>11 DEF ExecuteCommand, connVars, loopVars, FieldsAgree, LoopAgrees
  <2>7. QED
    BY <2>4, <2>5, <2>6 DEF TypeOK
<1>12. CASE BeginPublish
  <2>1. at \in MatchIds
    BY <1>12, MaxMatchesAssumption
    DEF BeginPublish, TypeOK, LoopTypes, ListTypes, LoopAgrees, MatchIds
  <2>2. LoopTypes'
    BY <1>12, <2>1 DEF BeginPublish, nickVars, matchVars, TypeOK, WorldTypes, LoopTypes
  <2>3. ConnTypes' /\ ListTypes' /\ WorldTypes'
    BY <1>12, Frame DEF BeginPublish, nickVars, matchVars
  <2>4. FieldsAgree' /\ LoopAgrees'
    BY <1>12 DEF BeginPublish, connVars, FieldsAgree, LoopAgrees
  <2>5. QED
    BY <2>2, <2>3, <2>4 DEF TypeOK
<1>13. CASE Autosave
  <2>1. \A m \in 1..Len(matches) : m \in MatchIds /\ matches[m].name \in MatchNames
    <3>1. ASSUME NEW m \in 1..Len(matches) PROVE matches[m] \in Match
      BY ElementOfSeq DEF TypeOK, ListTypes
    <3>2. \A m \in 1..Len(matches) : matches[m].name \in MatchNames
      BY <3>1 DEF Match
    <3>3. QED
      BY <3>2, MaxMatchesAssumption DEF TypeOK, ListTypes, MatchIds
  <2>2. \A m \in 1..Len(matches) : \A p \in avatars[m] : logins[p] \in Nicks
    BY <2>1 DEF TypeOK, ListTypes, WorldTypes
  <2>3. saved' \in SUBSET (Nicks \X MatchNames)
    BY <1>13, <2>1, <2>2 DEF Autosave
  <2>4. WorldTypes'
    BY <1>13, <2>3 DEF Autosave, nickVars, TypeOK, WorldTypes
  <2>5. ConnTypes' /\ ListTypes' /\ LoopTypes'
    BY <1>13, Frame DEF Autosave, nickVars, matchVars
  <2>6. FieldsAgree' /\ LoopAgrees'
    BY <1>13 DEF Autosave, connVars, loopVars, FieldsAgree, LoopAgrees
  <2>7. QED
    BY <2>4, <2>5, <2>6 DEF TypeOK
<1>14. CASE UNCHANGED vars
  <2>1. TypeOK'
    BY <1>14, Frame DEF vars, nickVars, matchVars, TypeOK
  <2>2. QED
    BY <1>14, <2>1 DEF vars, connVars, loopVars, FieldsAgree, LoopAgrees
<1>15. QED
  BY <1>1, <1>2, <1>3, <1>4, <1>5, <1>6, <1>7, <1>8, <1>9, <1>10, <1>11, <1>12, <1>13, <1>14
  DEF Next, GameLoop, Acceptor, Receiver

\* Type correctness of every reachable state, for every value of the constants.
LEMMA TypeInvCorrect == Spec => []TypeInv
<1>1. Init => TypeInv
  <2> SUFFICES ASSUME Init PROVE TypeInv
    OBVIOUS
  <2>1. matches \in Seq(Match) /\ Len(matches) \in 0..MaxMatches
    <3>1. PICK k \in 0..MaxMatches : matches \in [1..k -> Match]
      BY DEF Init, RecreatedMatches
    <3>2. matches \in Seq(Match) /\ Len(matches) = k
      BY <3>1, MaxMatchesAssumption
    <3>3. QED
      BY <3>1, <3>2
  <2>2. logins \in Seq(Nicks) /\ Len(logins) = 0
    BY DEF Init
  <2>3. saved \in SUBSET (Nicks \X MatchNames)
    <3>1. ASSUME NEW m \in DOMAIN matches PROVE matches[m].name \in MatchNames
      <4>1. matches[m] \in Match
        BY <2>1, <3>1, ElementOfSeq
      <4>2. QED
        BY <4>1 DEF Match
    <3>2. QED
      BY <3>1 DEF Init
  <2>4. ConnTypes
    BY <2>1, <2>2 DEF Init, ConnTypes
  <2>5. ListTypes
    <3>1. Len(matches) <= MaxMatches /\ Len(logins) <= MaxPlayerId
      BY <2>1, <2>2, MaxPlayerIdAssumption, MaxMatchesAssumption
    <3>2. /\ players \in [MatchIds -> SUBSET Handlers]
          /\ currentPlayers \in [MatchIds -> 0..255]
      BY DEF Init
    <3>3. clients = {} /\ nicksInUse = {} /\ accepting = FALSE /\ toReap = {}
      BY DEF Init
    <3>4. QED
      BY <2>1, <2>2, <3>1, <3>2, <3>3 DEF ListTypes
  <2>6. WorldTypes
    BY <2>2, <2>3 DEF Init, WorldTypes
  <2>7. LoopTypes
    BY <2>1, <2>2 DEF Init, LoopTypes
  <2>8. FieldsAgree /\ LoopAgrees
    BY DEF Init, FieldsAgree, LoopAgrees
  <2>9. QED
    BY <2>4, <2>5, <2>6, <2>7, <2>8 DEF TypeInv, TypeOK
<1>2. QED
  BY <1>1, TypeStep, PTL DEF Spec

\* Type correctness of every reachable state, for every value of the constants.
THEOREM TypeCorrect == Spec => []TypeOK
<1>1. TypeInv => TypeOK
  BY DEF TypeInv
<1>2. QED
  BY <1>1, TypeInvCorrect, PTL

-----------------------------------------------------------------------------
\* Steps that touch neither receivers nor lists.
LEMMA QuietSteps ==
  ASSUME [Next]_vars
  PROVE  \/ UNCHANGED <<connVars, nickVars, matchVars>>
         \/ \E h \in Handlers : VisitHandler(h) \/ Admit(h) \/ Receiver(h)
  BY DEF Next, GameLoop, Acceptor, vars, BeginIteration, BeginMatch, ExecuteCommand,
         BeginPublish, EndMatch, Autosave, Accept

\* The lists are kept exact by every step.
LEMMA ListsStep == TypeInv /\ ListsAreLive /\ [Next]_vars => ListsAreLive'
<1> SUFFICES ASSUME TypeInv, ListsAreLive, [Next]_vars PROVE ListsAreLive'
  OBVIOUS
<1>1. CASE UNCHANGED <<connVars, nickVars, matchVars>>
  BY <1>1 DEF connVars, nickVars, matchVars, ListsAreLive, IsIn
<1>2. ASSUME NEW h \in Handlers, VisitHandler(h) \/ Admit(h) \/ Receiver(h)
      PROVE  ListsAreLive'
  <2> USE DEF ListsAreLive, IsIn, TypeInv, TypeOK, ConnTypes, ListTypes, FieldsAgree
  <2>1. CASE VisitHandler(h)
    BY <2>1 DEF VisitHandler, connVars, nickVars, matchVars
  <2>2. CASE Admit(h)
    BY <2>2 DEF Admit, matchVars
  <2>3. CASE \E nick \in Nicks : Login(h, nick)
    BY <2>3 DEF Login, Receiving, matchVars
  <2>4. CASE \E name \in MatchNames, max \in Capacities : CreateMatch(h, name, max)
    BY <2>4 DEF CreateMatch, connVars, nickVars
  <2>5. ASSUME NEW m \in MatchIds, JoinMatch(h, m) PROVE ListsAreLive'
    BY <2>5 DEF JoinMatch, Receiving, nickVars
  <2>6. CASE EnterMatch(h)
    BY <2>6 DEF EnterMatch, nickVars, matchVars
  <2>7. CASE SelectRaceClass(h)
    BY <2>7 DEF SelectRaceClass, connVars, nickVars, matchVars
  <2>8. CASE LeaveMatch(h)
    BY <2>8 DEF LeaveMatch, RemovePlayer, Receiving, nickVars
  <2>9. CASE BeginDisconnect(h)
    <3>1. CASE state[h] = "IN_MATCH"
      <4>1. /\ \A m \in MatchIds : ~ IsIn(h, m)'
            /\ \A g \in Handlers \ {h} : \A m \in MatchIds : IsIn(g, m)' <=> IsIn(g, m)
        BY <2>9 DEF BeginDisconnect
      <4>2. /\ players' = [players EXCEPT ![cur[h]] = @ \ {h}]
            /\ \A m \in MatchIds : m # cur[h] => ~ IsIn(h, m)
        BY <2>9, <3>1 DEF BeginDisconnect, LeavesFirst, RemovePlayer
      <4>3. ASSUME NEW m \in MatchIds PROVE players'[m] = {g \in Handlers : IsIn(g, m)'}
        <5>1. players'[m] = players[m] \ {h}
          BY <4>2
        <5>2. players[m] = {g \in Handlers : IsIn(g, m)}
          OBVIOUS
        <5> HIDE DEF IsIn, ListsAreLive
        <5>3. QED
          BY <4>1, <5>1, <5>2
      <4>4. clients' = {g \in Handlers : thread'[g] # "free"}
        BY <2>9 DEF BeginDisconnect, nickVars
      <4>5. QED
        BY <4>3, <4>4
    <3>2. CASE state[h] # "IN_MATCH"
      BY <2>9, <3>2 DEF BeginDisconnect, LeavesFirst, nickVars, matchVars
    <3>3. QED
      BY <3>1, <3>2
  <2>10. CASE EndDisconnect(h) \/ ThreadsEnd(h)
    <3>1. \A g \in Handlers : \A m \in MatchIds : IsIn(g, m)' <=> IsIn(g, m)
      BY <2>10 DEF EndDisconnect, ThreadsEnd
    <3>2. players' = players /\ clients' = {g \in Handlers : thread'[g] # "free"}
      BY <2>10 DEF EndDisconnect, ThreadsEnd, nickVars, matchVars
    <3> HIDE DEF IsIn
    <3>3. QED
      BY <3>1, <3>2
  <2>11. QED
    BY <1>2, <2>1, <2>2, <2>3, <2>4, <2>5, <2>6, <2>7, <2>8, <2>9, <2>10 DEF Receiver
<1>3. QED
  BY <1>1, <1>2, QuietSteps

\* The registry of nicks is kept exact by every step.
LEMMA NicksStep == TypeInv /\ NickRegistryExact /\ [Next]_vars => NickRegistryExact'
<1> SUFFICES ASSUME TypeInv, NickRegistryExact, [Next]_vars PROVE NickRegistryExact'
  OBVIOUS
<1>0. ASSUME nicksInUse' = nicksInUse,
             \A g \in Handlers, n \in Nicks : HasSession(g, n)' <=> HasSession(g, n)
      PROVE  NickRegistryExact'
  BY <1>0 DEF NickRegistryExact
<1> USE DEF LoggedIn, NickOf, HasSession
<1>1. CASE UNCHANGED <<connVars, nickVars, matchVars>>
  BY <1>1 DEF connVars, nickVars, NickRegistryExact
<1>2. ASSUME NEW h \in Handlers, VisitHandler(h) \/ Admit(h) \/ Receiver(h)
      PROVE  NickRegistryExact'
  <2> USE DEF NickRegistryExact, TypeInv, TypeOK, ConnTypes, ListTypes, FieldsAgree
  \* Who is logged in, and under which nick, is the same after the step.
  <2> DEFINE Same == /\ nicksInUse' = nicksInUse
                     /\ \A g \in Handlers, n \in Nicks : HasSession(g, n)' <=> HasSession(g, n)
  <2>0. Same => NickRegistryExact'
    BY <1>0
  <2>1. CASE VisitHandler(h)
    <3>1. Same
      BY <2>1 DEF VisitHandler, NicksAfterRemoval, connVars, nickVars
    <3>2. QED
      BY <2>0, <3>1
  <2>2. CASE Admit(h)
    <3>1. Same
      BY <2>2 DEF Admit
    <3>2. QED
      BY <2>0, <3>1
  <2>3. ASSUME NEW nick \in Nicks, Login(h, nick) PROVE NickRegistryExact'
    <3>1. /\ Len(logins) \in Nat
          /\ pid'[h] = Len(logins) + 1
          /\ logins'[Len(logins) + 1] = nick
          /\ \A i \in 1..Len(logins) : logins'[i] = logins[i]
      BY <2>3 DEF Login
    <3>2. LoggedIn(h)' /\ NickOf(h)' = nick /\ ~ LoggedIn(h)
      BY <2>3, <3>1 DEF Login, Receiving
    <3>3. \A g \in Handlers \ {h} : LoggedIn(g)' <=> LoggedIn(g)
      BY <2>3 DEF Login
    <3>4. \A g \in Handlers \ {h} : LoggedIn(g) => NickOf(g)' = NickOf(g)
      BY <2>3, <3>1 DEF Login
    <3>5. nick \notin nicksInUse /\ nicksInUse' = nicksInUse \cup {nick}
      BY <2>3 DEF Login, NickTaken
    <3>6. \A g \in Handlers : ~ HasSession(g, nick)
      BY <3>5
    <3>7. \A g \in Handlers \ {h} : \A n \in Nicks : HasSession(g, n)' <=> HasSession(g, n)
      BY <3>3, <3>4
    <3>8. \A n \in Nicks : HasSession(h, n)' <=> n = nick
      BY <3>2
    <3> HIDE DEF HasSession, LoggedIn, NickOf
    <3>9. ASSUME NEW n \in Nicks
          PROVE  /\ n \in nicksInUse' <=> \E g \in Handlers : HasSession(g, n)'
                 /\ \A f, g \in Handlers : HasSession(f, n)' /\ HasSession(g, n)' => f = g
      <4>0. /\ n \in nicksInUse <=> \E g \in Handlers : HasSession(g, n)
            /\ \A f, g \in Handlers : HasSession(f, n) /\ HasSession(g, n) => f = g
        OBVIOUS
      <4> HIDE DEF NickRegistryExact, TypeInv
      <4>1. CASE n = nick
        BY <3>5, <3>6, <3>7, <3>8, <4>0, <4>1
      <4>2. CASE n # nick
        <5>1. ~ HasSession(h, n)'
          BY <3>8, <4>2
        <5>2. ~ HasSession(h, n)
          BY <3>2 DEF HasSession
        <5>3. \A g \in Handlers : HasSession(g, n)' <=> HasSession(g, n)
          BY <3>7, <5>1, <5>2
        <5>4. QED
          BY <3>5, <4>0, <4>2, <5>3
      <4>3. QED
        BY <4>1, <4>2
    <3>10. QED
      BY <3>9
  <2>4. CASE \E name \in MatchNames, max \in Capacities : CreateMatch(h, name, max)
    <3>1. Same
      BY <2>4 DEF CreateMatch, connVars, nickVars
    <3>2. QED
      BY <2>0, <3>1
  <2>5. CASE \E m \in MatchIds : JoinMatch(h, m)
    <3>1. Same
      BY <2>5 DEF JoinMatch, Receiving, nickVars
    <3>2. QED
      BY <2>0, <3>1
  <2>6. CASE EnterMatch(h) \/ SelectRaceClass(h)
    <3>1. Same
      BY <2>6 DEF EnterMatch, SelectRaceClass, connVars, nickVars
    <3>2. QED
      BY <2>0, <3>1
  <2>7. CASE LeaveMatch(h) \/ BeginDisconnect(h)
    <3>1. Same
      BY <2>7 DEF LeaveMatch, BeginDisconnect, nickVars
    <3>2. QED
      BY <2>0, <3>1
  <2>8. CASE EndDisconnect(h)
    <3>1. /\ ~ LoggedIn(h)'
          /\ \A g \in Handlers \ {h} : LoggedIn(g)' <=> LoggedIn(g)
          /\ \A g \in Handlers : NickOf(g)' = NickOf(g)
      BY <2>8 DEF EndDisconnect
    <3>2. CASE pid[h] = 0
      <4>1. Same
        BY <2>8, <3>1, <3>2 DEF EndDisconnect
      <4>2. QED
        BY <2>0, <4>1
    <3>3. CASE pid[h] # 0
      <4>1. LoggedIn(h) /\ nicksInUse' = nicksInUse \ {NickOf(h)}
        BY <2>8, <3>3 DEF EndDisconnect
      <4>2. HasSession(h, NickOf(h)) /\ NickOf(h) \in Nicks
        BY <4>1
      <4>3. \A g \in Handlers \ {h} : \A n \in Nicks : HasSession(g, n)' <=> HasSession(g, n)
        BY <3>1
      <4>4. \A n \in Nicks : HasSession(h, n) => n = NickOf(h)
        OBVIOUS
      <4>5. \A n \in Nicks : ~ HasSession(h, n)'
        BY <3>1
      <4> DEFINE mine == NickOf(h)
      <4> HIDE DEF HasSession, LoggedIn, NickOf, mine
      <4>6. ASSUME NEW n \in Nicks
            PROVE  /\ n \in nicksInUse' <=> \E g \in Handlers : HasSession(g, n)'
                   /\ \A f, g \in Handlers : HasSession(f, n)' /\ HasSession(g, n)' => f = g
        <5>0. /\ n \in nicksInUse <=> \E g \in Handlers : HasSession(g, n)
              /\ \A f, g \in Handlers : HasSession(f, n) /\ HasSession(g, n) => f = g
          OBVIOUS
        <5> HIDE DEF NickRegistryExact, TypeInv
        <5>1. nicksInUse' = nicksInUse \ {mine} /\ HasSession(h, mine) /\ mine \in Nicks
          BY <4>1, <4>2 DEF mine
        <5>2. CASE n = mine
          BY <4>3, <4>5, <5>0, <5>1, <5>2
        <5>3. CASE n # mine
          <6>1. ~ HasSession(h, n) /\ ~ HasSession(h, n)'
            BY <4>4, <4>5, <5>3 DEF mine
          <6>2. \A g \in Handlers : HasSession(g, n)' <=> HasSession(g, n)
            BY <4>3, <6>1
          <6>3. QED
            BY <5>0, <5>1, <5>3, <6>2
        <5>4. QED
          BY <5>2, <5>3
      <4>7. QED
        BY <4>6
    <3>4. QED
      BY <3>2, <3>3
  <2>9. CASE ThreadsEnd(h)
    <3>1. Same
      BY <2>9 DEF ThreadsEnd, nickVars
    <3>2. QED
      BY <2>0, <3>1
  <2>10. QED
    BY <1>2, <2>1, <2>2, <2>3, <2>4, <2>5, <2>6, <2>7, <2>8, <2>9 DEF Receiver
<1>3. QED
  BY <1>1, <1>2, QuietSteps

-----------------------------------------------------------------------------
\* CountIsExact, strengthened to the ids of matches not created yet: CreateMatch
\* finds the counter of its new match at the size of an empty list.
CountInv ==
    \A m \in MatchIds :
        /\ IsFiniteSet(players[m])
        /\ currentPlayers[m] = Cardinality(players[m])
        /\ m <= Len(matches) => currentPlayers[m] <= matches[m].max

\* The counter follows the list through every step and never wraps around.
LEMMA CountStep == TypeInv /\ ListsAreLive /\ CountInv /\ [Next]_vars => CountInv'
<1> SUFFICES ASSUME TypeInv, ListsAreLive, CountInv, [Next]_vars PROVE CountInv'
  OBVIOUS
<1>1. CASE UNCHANGED matchVars
  BY <1>1 DEF matchVars, CountInv
<1>2. ASSUME NEW h \in Handlers, NEW m \in MatchIds, JoinMatch(h, m) PROVE CountInv'
  <2>1. /\ matches' = matches
        /\ m \in 1..Len(matches)
        /\ players' = [players EXCEPT ![m] = @ \cup {h}]
        /\ currentPlayers' = [currentPlayers EXCEPT ![m] = (@ + 1) % 256]
        /\ ~ IsFull(m)
    BY <1>2 DEF JoinMatch
  <2>2. h \notin players[m]
    BY <1>2 DEF JoinMatch, Receiving, ListsAreLive, IsIn
  <2>3. matches[m].max \in 1..255
    <3>1. matches[m] \in Match
      BY <2>1, ElementOfSeq DEF TypeInv, TypeOK, ListTypes
    <3>2. QED
      BY <3>1, CapacitiesAssumption DEF Match
  <2>4. /\ IsFiniteSet(players[m])
        /\ currentPlayers[m] = Cardinality(players[m])
        /\ currentPlayers[m] \in 0..255
        /\ currentPlayers[m] < matches[m].max
    <3>1. IsFiniteSet(players[m]) /\ currentPlayers[m] = Cardinality(players[m])
      BY DEF CountInv
    <3>2. currentPlayers[m] \in 0..255
      BY DEF TypeInv, TypeOK, ListTypes
    <3>3. currentPlayers[m] < matches[m].max
      <4> DEFINE max == matches[m].max
      <4>1. max \in 1..255 /\ ~ (currentPlayers[m] >= max)
        BY <2>1, <2>3 DEF IsFull
      <4> HIDE DEF max
      <4>2. currentPlayers[m] < max
        BY <3>2, <4>1
      <4>3. QED
        BY <4>2 DEF max
    <3>4. QED
      BY <3>1, <3>2, <3>3
  <2>5. /\ IsFiniteSet(players[m] \cup {h})
        /\ Cardinality(players[m] \cup {h}) = Cardinality(players[m]) + 1
    BY <2>2, <2>4, FS_AddElement
  <2>6. (currentPlayers[m] + 1) % 256 = currentPlayers[m] + 1
    BY <2>3, <2>4
  <2>7. players'[m] = players[m] \cup {h} /\ currentPlayers'[m] = currentPlayers[m] + 1
    BY <2>1, <2>6 DEF TypeInv, TypeOK, ListTypes
  <2>8. \A n \in MatchIds \ {m} : players'[n] = players[n] /\ currentPlayers'[n] = currentPlayers[n]
    BY <2>1 DEF TypeInv, TypeOK, ListTypes
  <2>9. QED
    <3>1. currentPlayers'[m] <= matches'[m].max
      <4> DEFINE max == matches[m].max
      <4>1. max \in 1..255 /\ currentPlayers[m] \in 0..255 /\ currentPlayers[m] < max
        BY <2>3, <2>4
      <4> HIDE DEF max
      <4>2. currentPlayers[m] + 1 <= max
        BY <4>1
      <4>3. QED
        BY <2>1, <2>7, <4>2 DEF max
    <3>2. IsFiniteSet(players'[m]) /\ currentPlayers'[m] = Cardinality(players'[m])
      BY <2>4, <2>5, <2>7
    <3>3. ASSUME NEW n \in MatchIds \ {m}
          PROVE  /\ IsFiniteSet(players'[n])
                 /\ currentPlayers'[n] = Cardinality(players'[n])
                 /\ n <= Len(matches') => currentPlayers'[n] <= matches'[n].max
      BY <2>1, <2>8 DEF CountInv
    <3>4. QED
      BY <3>1, <3>2, <3>3 DEF CountInv
<1>3. ASSUME NEW h \in Handlers, IsIn(h, cur[h]), cur[h] \in MatchIds, RemovePlayer(h)
      PROVE  CountInv'
  <2> DEFINE m == cur[h]
  <2>1. /\ matches' = matches
        /\ players' = [players EXCEPT ![m] = @ \ {h}]
        /\ currentPlayers' = [currentPlayers EXCEPT ![m] = CountDown(@)]
    BY <1>3 DEF RemovePlayer
  <2>2. h \in players[m]
    BY <1>3 DEF ListsAreLive
  <2>3. /\ IsFiniteSet(players[m])
        /\ currentPlayers[m] = Cardinality(players[m])
        /\ currentPlayers[m] \in 0..255
        /\ m <= Len(matches) => currentPlayers[m] <= matches[m].max
    BY <1>3 DEF CountInv, TypeInv, TypeOK, ListTypes
  <2>4. /\ IsFiniteSet(players[m] \ {h})
        /\ Cardinality(players[m] \ {h}) = Cardinality(players[m]) - 1
        /\ Cardinality(players[m] \ {h}) \in Nat
    BY <2>2, <2>3, FS_RemoveElement, FS_CardinalityType
  <2>5. CountDown(currentPlayers[m]) = currentPlayers[m] - 1
    <3>1. \A n \in 1..255 : CountDown(n) = n - 1
      BY DEF CountDown
    <3>2. currentPlayers[m] \in 1..255
      <4> DEFINE c == currentPlayers[m]
      <4>1. c \in 0..255 /\ c - 1 \in Nat
        BY <2>3, <2>4
      <4> HIDE DEF c
      <4>2. c \in 1..255
        BY <4>1
      <4>3. QED
        BY <4>2 DEF c
    <3>3. QED
      BY <3>1, <3>2
  <2>6. players'[m] = players[m] \ {h} /\ currentPlayers'[m] = currentPlayers[m] - 1
    BY <1>3, <2>1, <2>5 DEF TypeInv, TypeOK, ListTypes
  <2>7. \A n \in MatchIds \ {m} : players'[n] = players[n] /\ currentPlayers'[n] = currentPlayers[n]
    BY <2>1 DEF TypeInv, TypeOK, ListTypes
  <2>8. m <= Len(matches) => matches[m].max \in Int
    <3>1. ASSUME m <= Len(matches) PROVE matches[m] \in Match
      <4>1. m \in 1..Len(matches) /\ matches \in Seq(Match)
        BY <1>3, <3>1, MaxMatchesAssumption DEF TypeInv, TypeOK, ListTypes, MatchIds
      <4> HIDE DEF m
      <4>2. QED
        BY <4>1, ElementOfSeq
    <3>2. ASSUME NEW x \in Match PROVE x.max \in Int
      <4>1. x.max \in Capacities
        BY DEF Match
      <4>2. \A c \in Capacities : c \in Int
        BY CapacitiesAssumption
      <4>3. QED
        BY <4>1, <4>2, Zenon
    <3> HIDE DEF m
    <3>3. QED
      BY <3>1, <3>2
  <2>9. m <= Len(matches) => currentPlayers'[m] <= matches'[m].max
    <3>1. \A c \in 0..255, x \in Int : c <= x => c - 1 <= x
      OBVIOUS
    <3> HIDE DEF m
    <3>2. QED
      BY <2>1, <2>3, <2>6, <2>8, <3>1
  <2> HIDE DEF m
  <2>10. QED
    BY <2>1, <2>3, <2>4, <2>6, <2>7, <2>9 DEF CountInv
<1>4. ASSUME NEW h \in Handlers, NEW name \in MatchNames, NEW max \in Capacities,
             CreateMatch(h, name, max)
      PROVE CountInv'
  <2> DEFINE new == Len(matches) + 1
  <2>1. /\ Len(matches) \in Nat
        /\ Len(matches') = new
        /\ matches'[new].max = max
        /\ \A m \in 1..Len(matches) : matches'[m] = matches[m]
        /\ players' = players /\ currentPlayers' = currentPlayers
    BY <1>4 DEF CreateMatch, TypeInv, TypeOK, ListTypes
  <2>2. new \in MatchIds
    BY <1>4, <2>1, MaxMatchesAssumption DEF CreateMatch, MatchIds
  <2>3. players[new] = {}
    BY <2>1, <2>2 DEF ListsAreLive, IsIn, TypeInv, TypeOK, ConnTypes
  <2>4. currentPlayers[new] <= max
    <3>1. Cardinality({}) = 0
      BY FS_EmptySet
    <3>2. currentPlayers[new] = 0
      BY <2>2, <2>3, <3>1 DEF CountInv
    <3>3. max \in 1..255
      BY CapacitiesAssumption
    <3>4. QED
      BY <3>2, <3>3
  <2> HIDE DEF new
  <2>5. ASSUME NEW m \in MatchIds, m <= Len(matches')
        PROVE  currentPlayers'[m] <= matches'[m].max
    <3>1. CASE m = new
      BY <2>1, <2>4, <3>1
    <3>2. CASE m # new
      <4>1. m \in 1..Len(matches)
        BY <2>1, <2>5, <3>2, MaxMatchesAssumption DEF new, MatchIds
      <4>2. QED
        BY <2>1, <4>1 DEF CountInv
    <3>3. QED
      BY <3>1, <3>2
  <2>6. QED
    BY <2>1, <2>5 DEF CountInv
<1>5. ASSUME NEW h \in Handlers, LeaveMatch(h) \/ BeginDisconnect(h) PROVE CountInv'
  <2>1. CASE RemovePlayer(h) /\ Receiving(h, "IN_MATCH")
    <3>1. IsIn(h, cur[h]) /\ cur[h] \in MatchIds
      BY <2>1, MaxMatchesAssumption
      DEF IsIn, Receiving, MatchIds, TypeInv, TypeOK, ConnTypes, ListTypes, FieldsAgree
    <3>2. QED
      BY <1>3, <2>1, <3>1
  <2>2. QED
    BY <1>1, <1>5, <2>1 DEF LeaveMatch, BeginDisconnect, LeavesFirst, Receiving
<1>6. QED
  <2>1. ASSUME NEW h \in Handlers,
               \/ VisitHandler(h) \/ Admit(h) \/ \E nick \in Nicks : Login(h, nick)
               \/ EnterMatch(h) \/ SelectRaceClass(h) \/ EndDisconnect(h) \/ ThreadsEnd(h)
        PROVE  UNCHANGED matchVars
    BY <2>1 DEF VisitHandler, Admit, Login, EnterMatch, SelectRaceClass, EndDisconnect, ThreadsEnd
  <2>2. QED
    BY <1>1, <1>2, <1>4, <1>5, <2>1, QuietSteps DEF Receiver

-----------------------------------------------------------------------------
\* The inductive invariant of Sessions.
SessionsInv == TypeInv /\ ListsAreLive /\ NickRegistryExact /\ CountInv

\* Every reachable state satisfies the inductive invariant.
THEOREM SessionsCorrect == Spec => []SessionsInv
<1>1. Init => ListsAreLive /\ NickRegistryExact /\ CountInv
  <2> SUFFICES ASSUME Init PROVE ListsAreLive /\ NickRegistryExact /\ CountInv
    OBVIOUS
  <2>1. ListsAreLive
    BY DEF Init, ListsAreLive, IsIn, MatchIds
  <2>2. NickRegistryExact
    BY DEF Init, NickRegistryExact, HasSession, LoggedIn
  <2>3. CountInv
    <3>1. \A m \in DOMAIN matches : matches[m].max \in 1..255
      <4>1. PICK k \in 0..MaxMatches : matches \in [1..k -> Match]
        BY DEF Init, RecreatedMatches
      <4>2. QED
        BY <4>1, CapacitiesAssumption DEF Match
    <3>2. Len(matches) \in Nat /\ DOMAIN matches = 1..Len(matches)
      <4>1. PICK k \in 0..MaxMatches : matches \in [1..k -> Match]
        BY DEF Init, RecreatedMatches
      <4>2. matches \in Seq(Match)
        BY <4>1, MaxMatchesAssumption
      <4>3. QED
        BY <4>2
    <3>3. \A m \in MatchIds : players[m] = {} /\ currentPlayers[m] = 0
      BY DEF Init
    <3>4. QED
      <4>1. IsFiniteSet({}) /\ Cardinality({}) = 0
        BY FS_EmptySet
      <4>2. ASSUME NEW m \in MatchIds, m <= Len(matches) PROVE 0 <= matches[m].max
        <5>1. m \in DOMAIN matches
          BY <3>2, <4>2, MaxMatchesAssumption DEF MatchIds
        <5>2. QED
          BY <3>1, <5>1
      <4>3. QED
        BY <3>3, <4>1, <4>2 DEF CountInv
  <2>4. QED
    BY <2>1, <2>2, <2>3
<1>2. TypeInv /\ ListsAreLive /\ NickRegistryExact /\ CountInv /\ [Next]_vars
        => ListsAreLive' /\ NickRegistryExact' /\ CountInv'
  BY ListsStep, NicksStep, CountStep
<1>3. QED
  BY <1>1, <1>2, TypeInvCorrect, PTL DEF Spec, SessionsInv

\* A nick has one session at a time and the registry knows exactly the taken ones.
THEOREM NickRegistryCorrect == Spec => []NickRegistryExact
<1>1. SessionsInv => NickRegistryExact
  BY DEF SessionsInv
<1>2. QED
  BY <1>1, SessionsCorrect, PTL

\* The lists of connection pointers hold exactly the connections they should.
THEOREM ListsCorrect == Spec => []ListsAreLive
<1>1. SessionsInv => ListsAreLive
  BY DEF SessionsInv
<1>2. QED
  BY <1>1, SessionsCorrect, PTL

\* The eight-bit counter of a match equals the length of its list, and the list
\* never exceeds the match's maximum.
THEOREM CountCorrect == Spec => []CountIsExact
<1>1. SessionsInv => CountIsExact
  <2> SUFFICES ASSUME SessionsInv, NEW m \in 1..Len(matches)
               PROVE  /\ IsFiniteSet(players[m])
                      /\ currentPlayers[m] = Cardinality(players[m])
                      /\ currentPlayers[m] <= matches[m].max
    BY DEF CountIsExact
  <2>1. m \in MatchIds /\ m <= Len(matches)
    BY MaxMatchesAssumption DEF SessionsInv, TypeInv, TypeOK, ListTypes, MatchIds
  <2>2. QED
    BY <2>1 DEF SessionsInv, CountInv
<1>2. QED
  BY <1>1, SessionsCorrect, PTL

-----------------------------------------------------------------------------
\* Sessions implements Rooms: what the lobby sees of a step of Sessions is a step of
\* Rooms, or nothing.

\* What the refinement mapping says of a nick, without a CHOOSE.
LEMMA PlaceNow ==
  ASSUME NickRegistryExact, NEW n \in Nicks
  PROVE  /\ \A h \in Handlers : HasSession(h, n) => Place(n) = RoomOf(h)
         /\ (\A h \in Handlers : ~ HasSession(h, n)) => Place(n) = -1
<1>1. ASSUME NEW h \in Handlers, HasSession(h, n)
      PROVE  Place(n) = RoomOf(h)
  <2>1. (CHOOSE g \in Handlers : HasSession(g, n)) = h
    BY <1>1 DEF NickRegistryExact
  <2>2. QED
    BY <1>1, <2>1 DEF Place
<1>2. QED
  BY <1>1 DEF Place

\* The same after a step.
LEMMA PlaceNext ==
  ASSUME NickRegistryExact', NEW n \in Nicks
  PROVE  /\ \A h \in Handlers : HasSession(h, n)' => Place(n)' = RoomOf(h)'
         /\ (\A h \in Handlers : ~ HasSession(h, n)') => Place(n)' = -1
<1>1. ASSUME NEW h \in Handlers, HasSession(h, n)'
      PROVE  Place(n)' = RoomOf(h)'
  <2>1. (CHOOSE g \in Handlers : HasSession(g, n)') = h
    BY <1>1 DEF NickRegistryExact
  <2>2. QED
    BY <1>1, <2>1 DEF Place
<1>2. QED
  BY <1>1 DEF Place

Places == [n \in Nicks |-> Place(n)]

\* A step that only concerns connection h moves no nick but those that have their
\* session on h before or after it.
LEMMA OthersStay ==
  ASSUME NickRegistryExact, NickRegistryExact', NEW h \in Handlers,
         \A g \in Handlers \ {h} : /\ RoomOf(g)' = RoomOf(g)
                                   /\ \A n \in Nicks : HasSession(g, n)' <=> HasSession(g, n),
         NEW n \in Nicks, ~ HasSession(h, n), ~ HasSession(h, n)'
  PROVE  Place(n)' = Place(n)
<1>1. CASE \E g \in Handlers : HasSession(g, n)
  <2>1. PICK g \in Handlers \ {h} : HasSession(g, n) /\ HasSession(g, n)'
    BY <1>1
  <2>2. QED
    BY <2>1, PlaceNow, PlaceNext
<1>2. CASE \A g \in Handlers : ~ HasSession(g, n)
  <2>1. \A g \in Handlers : ~ HasSession(g, n)'
    BY <1>2
  <2>2. QED
    BY <1>2, <2>1, PlaceNow, PlaceNext
<1>3. QED
  BY <1>1, <1>2

\* One nick goes to r and the others stay.
LEMMA OneMoves ==
  ASSUME NEW k \in Nicks, NEW r, Place(k)' = r,
         \A n \in Nicks \ {k} : Place(n)' = Place(n)
  PROVE  Places' = [Places EXCEPT ![k] = r]
BY DEF Places

\* A match has no more nicks than connections.
LEMMA InsideIsSmall ==
  ASSUME SessionsInv, NEW m \in 1..Len(matches)
  PROVE  LET inside == {n \in Nicks : Places[n] = m}
         IN  IsFiniteSet(inside) /\ Cardinality(inside) <= currentPlayers[m]
<1> DEFINE inside == {n \in Nicks : Places[n] = m}
           owner == [h \in {g \in players[m] : NickOf(g) \in inside} |-> NickOf(h)]
<1>1. m \in MatchIds /\ IsFiniteSet(players[m]) /\ Cardinality(players[m]) = currentPlayers[m]
  BY MaxMatchesAssumption DEF SessionsInv, CountInv, TypeInv, TypeOK, ListTypes, MatchIds
<1>2. ASSUME NEW n \in inside
      PROVE  \E h \in players[m] : NickOf(h) = n
  <2>1. PICK h \in Handlers : HasSession(h, n)
    BY <1>2, PlaceNow DEF SessionsInv, Places
  <2>2. RoomOf(h) = m
    BY <2>1, PlaceNow DEF SessionsInv, Places
  <2>3. IsIn(h, m) /\ NickOf(h) = n
    BY <2>1, <2>2 DEF RoomOf, HasSession, IsIn
  <2>4. QED
    BY <1>1, <2>3 DEF SessionsInv, ListsAreLive
<1>3. IsFiniteSet(DOMAIN owner) /\ Cardinality(DOMAIN owner) <= Cardinality(players[m])
  BY <1>1, FS_Subset
<1>4. owner \in Surjection(DOMAIN owner, inside)
  BY <1>2 DEF Surjection
<1>5. IsFiniteSet(inside) /\ Cardinality(inside) <= Cardinality(DOMAIN owner)
  BY <1>3, <1>4, FS_Surjection DEF ExistsSurjection
<1>6. Cardinality(inside) \in Nat /\ Cardinality(DOMAIN owner) \in Nat /\ currentPlayers[m] \in Nat
  BY <1>1, <1>3, <1>5, FS_CardinalityType
<1>7. QED
  BY <1>1, <1>3, <1>5, <1>6

-----------------------------------------------------------------------------
\* A step after which every session is where it was is none for the lobby.
LEMMA Stutter ==
  ASSUME NickRegistryExact, NickRegistryExact', matches' = matches,
         \A g \in Handlers : \A n \in Nicks :
            /\ HasSession(g, n)' <=> HasSession(g, n)
            /\ HasSession(g, n) => RoomOf(g)' = RoomOf(g)
  PROVE  UNCHANGED Lobby!vars
<1>1. ASSUME NEW n \in Nicks PROVE Place(n)' = Place(n)
  <2>1. CASE \E g \in Handlers : HasSession(g, n)
    BY <2>1, PlaceNow, PlaceNext
  <2>2. CASE \A g \in Handlers : ~ HasSession(g, n)
    BY <2>2, PlaceNow, PlaceNext
  <2>3. QED
    BY <2>1, <2>2
<1>2. QED
  BY <1>1 DEF Lobby!vars

\* A connection has the session of its own nick only.
LEMMA OneNick ==
  ASSUME SessionsInv, NEW h \in Handlers
  PROVE  /\ LoggedIn(h) => NickOf(h) \in Nicks /\ HasSession(h, NickOf(h))
         /\ \A n \in Nicks : HasSession(h, n) => LoggedIn(h) /\ n = NickOf(h)
BY DEF SessionsInv, TypeInv, TypeOK, ConnTypes, ListTypes, HasSession, LoggedIn, NickOf

\* Every step of the sessions is a step of the lobby or none.
LEMMA RoomsStep ==
  SessionsInv /\ NickRegistryExact' /\ [Next]_vars => [Lobby!Next]_Lobby!vars
<1> SUFFICES ASSUME SessionsInv, NickRegistryExact', [Next]_vars
             PROVE  [Lobby!Next]_Lobby!vars
  OBVIOUS
<1>1. NickRegistryExact /\ ConnTypes /\ ListTypes /\ FieldsAgree
  BY DEF SessionsInv, TypeInv, TypeOK
<1>2. CASE UNCHANGED <<connVars, nickVars, matchVars>>
  <2>1. \A g \in Handlers : /\ RoomOf(g)' = RoomOf(g)
                            /\ \A n \in Nicks : HasSession(g, n)' <=> HasSession(g, n)
    BY <1>2 DEF connVars, nickVars, RoomOf, IsIn, HasSession, LoggedIn, NickOf
  <2>2. QED
    BY <1>1, <1>2, <2>1, Stutter DEF matchVars
\* What one connection does.
<1>3. ASSUME NEW h \in Handlers, VisitHandler(h) \/ Admit(h) \/ Receiver(h)
      PROVE  [Lobby!Next]_Lobby!vars
  <2> DEFINE OthersSame ==
               \A g \in Handlers \ {h} :
                  /\ RoomOf(g)' = RoomOf(g)
                  /\ \A n \in Nicks : HasSession(g, n)' <=> HasSession(g, n)
             HereSame ==
               \A n \in Nicks : /\ HasSession(h, n)' <=> HasSession(h, n)
                                /\ HasSession(h, n) => RoomOf(h)' = RoomOf(h)
  <2>1. OthersSame /\ HereSame /\ matches' = matches => UNCHANGED Lobby!vars
    BY <1>1, Stutter
  \* Connections whose fields did not change.
  <2>2. ASSUME logins' = logins,
               \A g \in Handlers \ {h} : /\ thread'[g] = thread[g] /\ state'[g] = state[g]
                                         /\ pid'[g] = pid[g] /\ cur'[g] = cur[g]
        PROVE  OthersSame
    BY <2>2 DEF RoomOf, IsIn, HasSession, LoggedIn, NickOf
  \* A move of the nick of h, seen by the lobby.
  <2>3. ASSUME OthersSame, LoggedIn(h), NickOf(h)' = NickOf(h), NEW r,
               Place(NickOf(h))' = r,
               \A n \in Nicks : HasSession(h, n)' => n = NickOf(h)
        PROVE  Places' = [Places EXCEPT ![NickOf(h)] = r]
    <3>1. \A n \in Nicks \ {NickOf(h)} : ~ HasSession(h, n) /\ ~ HasSession(h, n)'
      BY <2>3, OneNick
    <3>2. \A n \in Nicks \ {NickOf(h)} : Place(n)' = Place(n)
      BY <1>1, <2>3, <3>1, OthersStay
    <3>3. QED
      BY <2>3, <3>2, OneNick, OneMoves
  <2>4. CASE VisitHandler(h) \/ Admit(h) \/ ThreadsEnd(h)
    <3>1. OthersSame /\ matches' = matches
      BY <1>1, <2>2, <2>4
      DEF VisitHandler, Admit, ThreadsEnd, ConnTypes, connVars, nickVars, matchVars
    <3>2. HereSame
      BY <1>1, <2>4
      DEF VisitHandler, Admit, ThreadsEnd, ConnTypes, FieldsAgree, connVars, nickVars,
          HasSession, LoggedIn, NickOf, RoomOf, IsIn
    <3>3. QED
      BY <2>1, <3>1, <3>2
  <2>5. ASSUME NEW nick \in Nicks, Login(h, nick) PROVE Lobby!LogIn(nick)
    <3>1. /\ Len(logins) \in Nat /\ pid'[h] = Len(logins) + 1
          /\ logins'[Len(logins) + 1] = nick
          /\ \A i \in 1..Len(logins) : logins'[i] = logins[i]
      BY <1>1, <2>5 DEF Login, ListTypes, ConnTypes
    <3>2. ~ LoggedIn(h) /\ LoggedIn(h)' /\ NickOf(h)' = nick /\ RoomOf(h)' = 0
      BY <1>1, <2>5, <3>1
      DEF Login, Receiving, ConnTypes, FieldsAgree, LoggedIn, NickOf, RoomOf, IsIn
    <3>3. \A g \in Handlers \ {h} : /\ LoggedIn(g)' <=> LoggedIn(g)
                                    /\ LoggedIn(g) => NickOf(g)' = NickOf(g)
                                    /\ RoomOf(g)' = RoomOf(g)
      BY <1>1, <2>5, <3>1 DEF Login, ConnTypes, LoggedIn, NickOf, RoomOf, IsIn
    <3>4. OthersSame
      BY <3>3 DEF HasSession
    <3>5. \A n \in Nicks : ~ HasSession(h, n) /\ (HasSession(h, n)' <=> n = nick)
      BY <3>2 DEF HasSession
    <3>6. Place(nick) = -1
      BY <1>1, <2>5, PlaceNow DEF Login, NickTaken, NickRegistryExact
    <3>7. Place(nick)' = 0
      BY <3>2, <3>5, PlaceNext
    <3>8. \A n \in Nicks \ {nick} : Place(n)' = Place(n)
      BY <1>1, <3>4, <3>5, OthersStay
    <3>9. Places' = [Places EXCEPT ![nick] = 0] /\ Places[nick] = -1 /\ matches' = matches
      BY <2>5, <3>6, <3>7, <3>8, OneMoves DEF Login, matchVars, Places
    <3>10. QED
      BY <3>9 DEF Lobby!LogIn, Lobby!Out, Lobby!InLobby, Places
  <2>6. ASSUME NEW name \in MatchNames, NEW max \in Capacities, CreateMatch(h, name, max)
        PROVE  Lobby!Open(name, max)
    <3>1. \A g \in Handlers : /\ RoomOf(g)' = RoomOf(g)
                              /\ \A n \in Nicks : HasSession(g, n)' <=> HasSession(g, n)
      BY <2>6 DEF CreateMatch, connVars, nickVars, RoomOf, IsIn, HasSession, LoggedIn, NickOf
    <3>2. \A n \in Nicks : Place(n)' = Place(n)
      BY <1>1, <3>1, PlaceNow, PlaceNext
    <3>3. QED
      BY <2>6, <3>2 DEF CreateMatch, Lobby!Open
  <2>7. ASSUME NEW m \in MatchIds, JoinMatch(h, m) PROVE Lobby!Enter(NickOf(h), m)
    <3>1. /\ thread' = [thread EXCEPT ![h] = "entering"] /\ cur' = [cur EXCEPT ![h] = m]
          /\ UNCHANGED <<state, pid, logins, matches>>
          /\ thread[h] = "run" /\ state[h] = "AUTHENTICATED"
          /\ m \in 1..Len(matches) /\ ~ IsFull(m)
      BY <2>7 DEF JoinMatch, Receiving, nickVars
    <3>2. LoggedIn(h) /\ RoomOf(h) = 0 /\ NickOf(h)' = NickOf(h) /\ LoggedIn(h)' /\ RoomOf(h)' = m
      BY <1>1, <3>1 DEF ConnTypes, FieldsAgree, LoggedIn, NickOf, RoomOf, IsIn
    <3>3. OthersSame
      BY <1>1, <2>2, <3>1 DEF ConnTypes
    <3>4. /\ HasSession(h, NickOf(h)) /\ HasSession(h, NickOf(h))' /\ NickOf(h) \in Nicks
          /\ \A n \in Nicks : HasSession(h, n)' => n = NickOf(h)
      BY <3>2, OneNick DEF HasSession
    <3>5. Place(NickOf(h)) = 0 /\ Place(NickOf(h))' = m
      BY <1>1, <3>2, <3>4, PlaceNow, PlaceNext
    <3>6. Places' = [Places EXCEPT ![NickOf(h)] = m]
      BY <2>3, <3>2, <3>3, <3>4, <3>5
    <3>7. Cardinality({n \in Nicks : Places[n] = m}) < matches[m].max
      <4>1. LET inside == {n \in Nicks : Places[n] = m}
            IN  IsFiniteSet(inside) /\ Cardinality(inside) <= currentPlayers[m]
        BY <3>1, InsideIsSmall
      <4>2. Cardinality({n \in Nicks : Places[n] = m}) \in Nat
        BY <4>1, FS_CardinalityType
      <4>3. matches[m].max \in Int /\ currentPlayers[m] \in Int
        <5>1. matches[m] \in Match
          BY <1>1, <3>1 DEF ListTypes
        <5>2. matches[m].max \in Capacities
          BY <5>1 DEF Match
        <5>3. currentPlayers[m] \in 0..255
          BY <1>1 DEF ListTypes
        <5>4. \A c \in Capacities : c \in Int
          BY CapacitiesAssumption
        <5>5. QED
          BY <5>2, <5>3, <5>4
      <4>4. QED
        BY <3>1, <4>1, <4>2, <4>3 DEF IsFull
    <3>8. Lobby!Cardinality(Lobby!Inside(m)) = Cardinality({n \in Nicks : Places[n] = m})
      BY DEF Lobby!Inside, Places, Lobby!Cardinality, Cardinality
    <3>9. QED
      BY <3>1, <3>4, <3>5, <3>6, <3>7, <3>8 DEF Lobby!Enter, Lobby!InLobby, Places
  <2>8. CASE EnterMatch(h) \/ SelectRaceClass(h)
    <3>1. OthersSame /\ matches' = matches
      BY <1>1, <2>2, <2>8
      DEF EnterMatch, SelectRaceClass, ConnTypes, connVars, nickVars, matchVars
    <3>2. HereSame
      BY <1>1, <2>8
      DEF EnterMatch, SelectRaceClass, ConnTypes, FieldsAgree, connVars, nickVars,
          HasSession, LoggedIn, NickOf, RoomOf, IsIn
    <3>3. QED
      BY <2>1, <3>1, <3>2
  <2>9. ASSUME LeaveMatch(h) \/ (BeginDisconnect(h) /\ state[h] = "IN_MATCH")
        PROVE  Lobby!Leave(NickOf(h))
    <3>1. /\ thread[h] = "run" /\ state[h] = "IN_MATCH"
          /\ UNCHANGED <<pid, logins, matches>>
          /\ thread'[h] \in {"run", "closing"}
          /\ thread'[h] = "closing" \/ state'[h] = "AUTHENTICATED"
          /\ \A g \in Handlers \ {h} : /\ thread'[g] = thread[g] /\ state'[g] = state[g]
                                       /\ cur'[g] = cur[g]
      BY <1>1, <2>9
      DEF LeaveMatch, BeginDisconnect, Receiving, RemovePlayer, matchVars, nickVars, ConnTypes
    <3>2. LoggedIn(h) /\ RoomOf(h) = cur[h] /\ NickOf(h)' = NickOf(h) /\ LoggedIn(h)' /\ RoomOf(h)' = 0
      BY <1>1, <3>1 DEF ConnTypes, FieldsAgree, LoggedIn, NickOf, RoomOf, IsIn
    <3>3. OthersSame
      BY <2>2, <3>1
    <3>4. /\ HasSession(h, NickOf(h)) /\ HasSession(h, NickOf(h))' /\ NickOf(h) \in Nicks
          /\ \A n \in Nicks : HasSession(h, n)' => n = NickOf(h)
      BY <3>2, OneNick DEF HasSession
    <3>5. Place(NickOf(h)) = cur[h] /\ Place(NickOf(h))' = 0 /\ cur[h] >= 1
      BY <1>1, <3>1, <3>2, <3>4, PlaceNow, PlaceNext DEF ConnTypes, FieldsAgree, ListTypes
    <3>6. Places' = [Places EXCEPT ![NickOf(h)] = 0]
      BY <2>3, <3>2, <3>3, <3>4, <3>5
    <3>7. QED
      BY <3>1, <3>4, <3>5, <3>6 DEF Lobby!Leave, Lobby!InLobby, Places
  <2>10. CASE BeginDisconnect(h) /\ state[h] # "IN_MATCH"
    <3>1. OthersSame /\ matches' = matches
      BY <1>1, <2>2, <2>10 DEF BeginDisconnect, LeavesFirst, ConnTypes, nickVars, matchVars
    <3>2. HereSame
      BY <1>1, <2>10
      DEF BeginDisconnect, LeavesFirst, ConnTypes, nickVars, HasSession, LoggedIn, NickOf, RoomOf, IsIn
    <3>3. QED
      BY <2>1, <3>1, <3>2
  <2>11. CASE EndDisconnect(h)
    <3>1. /\ thread[h] = "closing" /\ thread' = [thread EXCEPT ![h] = "ending"]
          /\ state' = [state EXCEPT ![h] = "DISCONNECTING"]
          /\ UNCHANGED <<pid, cur, logins, matches>>
      BY <2>11 DEF EndDisconnect, matchVars
    <3>2. OthersSame
      BY <1>1, <2>2, <3>1 DEF ConnTypes
    <3>3. \A n \in Nicks : ~ HasSession(h, n)'
      BY <1>1, <3>1 DEF ConnTypes, HasSession, LoggedIn
    <3>4. CASE pid[h] = 0
      <4>1. HereSame
        BY <3>3, <3>4 DEF HasSession, LoggedIn
      <4>2. QED
        BY <2>1, <3>1, <3>2, <4>1
    <3>5. CASE pid[h] # 0
      <4>1. LoggedIn(h) /\ RoomOf(h) = 0 /\ NickOf(h)' = NickOf(h)
        BY <1>1, <3>1, <3>5 DEF LoggedIn, RoomOf, IsIn, NickOf
      <4>2. HasSession(h, NickOf(h)) /\ NickOf(h) \in Nicks
        BY <4>1, OneNick
      <4>3. \A g \in Handlers : ~ HasSession(g, NickOf(h))'
        BY <1>1, <3>2, <3>3, <4>1, <4>2 DEF NickRegistryExact
      <4>4. Place(NickOf(h)) = 0 /\ Place(NickOf(h))' = -1
        BY <1>1, <4>1, <4>2, <4>3, PlaceNow, PlaceNext
      <4>5. Places' = [Places EXCEPT ![NickOf(h)] = -1]
        BY <2>3, <3>2, <3>3, <4>1, <4>4
      <4>6. Lobby!LogOut(NickOf(h))
        BY <3>1, <4>2, <4>4, <4>5 DEF Lobby!LogOut, Lobby!InLobby, Lobby!Out, Places
      <4>7. QED
        BY <4>2, <4>6 DEF Lobby!Next
    <3>6. QED
      BY <3>4, <3>5
  <2>12. QED
    <3>1. ASSUME NEW m \in MatchIds, JoinMatch(h, m) PROVE Lobby!Next
      <4>1. LoggedIn(h) /\ m \in 1..Len(matches)
        BY <1>1, <3>1 DEF JoinMatch, Receiving, LoggedIn, FieldsAgree
      <4>2. NickOf(h) \in Nicks /\ Lobby!Enter(NickOf(h), m)
        BY <2>7, <3>1, <4>1, OneNick
      <4>3. QED
        BY <4>1, <4>2 DEF Lobby!Next
    <3>2. Lobby!Leave(NickOf(h)) /\ NickOf(h) \in Nicks => Lobby!Next
      BY DEF Lobby!Next
    <3>3. (LeaveMatch(h) \/ BeginDisconnect(h)) /\ state[h] = "IN_MATCH" => LoggedIn(h)
      BY <1>1 DEF LeaveMatch, BeginDisconnect, Receiving, LoggedIn, FieldsAgree
    <3>4. LeaveMatch(h) => state[h] = "IN_MATCH"
      BY DEF LeaveMatch, Receiving
    <3>5. QED
      BY <1>3, <2>4, <2>5, <2>6, <2>8, <2>9, <2>10, <2>11, <3>1, <3>2, <3>3, <3>4, OneNick
      DEF Receiver, Lobby!Next
<1>4. QED
  BY <1>2, <1>3, QuietSteps

\* Threads, late reaping, pointer lists and byte counters implement the lobby: one
\* session per nick, and rooms that never exceed their maximum.
THEOREM RoomsCorrect == Spec => ImplementsRooms
<1>1. Init => Lobby!Init
  <2> SUFFICES ASSUME Init PROVE Lobby!Init
    OBVIOUS
  <2>1. matches \in Seq([name : MatchNames, max : Capacities])
    <3>1. PICK k \in 0..MaxMatches : matches \in [1..k -> Match]
      BY DEF Init, RecreatedMatches
    <3>2. matches \in Seq(Match)
      BY <3>1, MaxMatchesAssumption
    <3>3. QED
      BY <3>2 DEF Match
  <2>2. \A n \in Nicks : Place(n) = -1
    BY DEF Init, Place, HasSession, LoggedIn
  <2>3. QED
    BY <2>1, <2>2 DEF Lobby!Init, Lobby!Out
<1>2. SessionsInv /\ SessionsInv' /\ [Next]_vars => [Lobby!Next]_Lobby!vars
  BY RoomsStep DEF SessionsInv
<1>3. QED
  BY <1>1, <1>2, SessionsCorrect, PTL DEF Spec, ImplementsRooms, Lobby!Spec
=============================================================================
