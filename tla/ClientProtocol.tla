---------------------------- MODULE ClientProtocol ----------------------------
(***************************************************************************)
(* The client's end of the protocol: what ClientProtocol writes after each *)
(* opcode and what it reads after each opcode of the server.  It is a      *)
(* second text of the same table: nothing but its use shows that the two   *)
(* ends agree.  ...Bug: a mutated form of the definition that follows it.  *)
(***************************************************************************)
EXTENDS WireFormat

\* Requests, in the order in which send_... writes them.
SendLogin == <<Str>>
SendCreateMatch == <<Str, U8>>
SendJoinMatch == <<U32>>
SendSelectRaceClass == <<U8, U8>>
SendMove == <<U8>>
SendAttack == <<U32>>
SendDropItem == <<U8>>
SendEquipItem == <<U8>>
SendInteract == <<U32, U8, Str, I32>>
SendClanAction == <<U8, Str>>
SendCheat == <<U8>>
SendChat == <<Str>>
SendPrivateChat == <<Str, Str>>

Requests ==
    [op \in 1..5 \cup 16..25 \cup {32, 33, 254, 255} |->
        CASE op = 1                           -> SendLogin
          [] op = 3                           -> SendCreateMatch
          [] op = 4                           -> SendJoinMatch
          [] op = 5                           -> SendSelectRaceClass
          [] op = 16                          -> SendMove
          [] op = 17                          -> SendAttack
          [] op = 20                          -> SendDropItem
          [] op = 21                          -> SendEquipItem
          [] op = 22                          -> SendInteract
          [] op = 23                          -> SendClanAction
          [] op = 25                          -> SendCheat
          [] op = 32                          -> SendChat
          [] op = 33                          -> SendPrivateChat
          [] op \in {2, 18, 19, 24, 254, 255} -> <<>>]

\* Updates, in the order in which recv_... reads them.
RecvLoginOk == <<U32>>
RecvMatchList == <<ListOf(U16, <<U32, Str, U8, U8>>)>>
RecvMatchCreated == <<U32>>
RecvMatchJoined == <<U32, U32, Bool, U8, U8>>
RecvPlayerJoined == <<U32, Str, U8, U8, I32, I32>>
RecvPlayerLeft == <<U32, Str, U32>>
RecvAttacked == <<U32, U32, I32, Bool, Bool, Bool, Bool, I32, U8, Str, U8, U32>>
RecvDeath == <<U32, U32>>
RecvRevive == <<U8>>
RecvMeditate == <<U8>>
RecvInventory == <<U32, ListOf(U16, <<Str, U32, Bool>>), U64>>
RecvPlayerSpawned == <<U32, Str, U8, U8, I32, I32>>
RecvWorldMap == <<GridOf(<<U8, Bool>>)>>
RecvSnapshot ==
    <<U32,
      ListOf(U16, <<U32, Str, U8, U8, I32, I32, I32, I32, I32, I32, U64, U64, U16,
                    Bool, Bool, U32, ListOf(U8, <<Str>>), U8, Bool>>),
      ListOf(U16, <<U32, Str, I32, I32, I32, I32, Bool, U32, U8, Bool>>),
      ListOf(U16, <<I32, I32, Bool, U64, Str>>)>>
RecvMoved == <<U32, I32, I32>>
RecvChatMsg == <<U32, Str, Str, Bool>>
RecvSystemMsg == <<U32, Str>>
RecvNpcInteract == <<U8, U8, Str, U64>>
RecvClanResult == <<U8, U8, Str, Str, U32, Str>>
RecvClanReview ==
    <<Str, ListOf(U16, <<U32, Str, Bool, Bool>>), ListOf(U16, <<U32, Str, Bool, Bool>>)>>
RecvError == <<U8, Str>>
RecvCatalog == <<ListOf(U16, <<Str>>), U64, Bool>>

\* receive_update, which throws for any other opcode.
Updates ==
    [op \in 129..137 \cup 146..149 \cup 160..162 \cup {144, 176, 177, 192, 193, 238} |->
        CASE op = 129 -> RecvLoginOk
          [] op = 130 -> RecvMatchList
          [] op = 131 -> RecvMatchCreated
          [] op = 132 -> RecvMatchJoined
          [] op = 133 -> RecvSnapshot
          [] op = 134 -> RecvPlayerJoined
          [] op = 135 -> RecvPlayerLeft
          [] op = 136 -> RecvPlayerSpawned
          [] op = 137 -> RecvWorldMap
          [] op = 144 -> RecvMoved
          [] op = 146 -> RecvDeath
          [] op = 147 -> RecvRevive
          [] op = 148 -> RecvAttacked
          [] op = 149 -> RecvMeditate
          [] op = 160 -> RecvInventory
          [] op = 161 -> RecvCatalog
          [] op = 162 -> RecvNpcInteract
          [] op = 176 -> RecvChatMsg
          [] op = 177 -> RecvSystemMsg
          [] op = 192 -> RecvClanResult
          [] op = 193 -> RecvClanReview
          [] op = 238 -> RecvError]
===============================================================================
