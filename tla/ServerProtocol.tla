---------------------------- MODULE ServerProtocol ----------------------------
(***************************************************************************)
(* The server's end of the protocol: what ServerProtocol reads after each  *)
(* opcode of a client and what it writes after each of its own.  Messages  *)
(* too long for their counts, which make it throw before anything is       *)
(* written, are left out.  ...Bug: a mutated form of what follows it.      *)
(***************************************************************************)
EXTENDS WireFormat

\* Requests, in the order in which recv_..._payload reads them.
RecvLogin == <<Str>>
RecvCreateMatch == <<Str, U8>>
RecvJoinMatchBug == <<U16>>
RecvJoinMatch == <<U32>>
RecvSelectRaceClass == <<UpTo(3), UpTo(3)>>
RecvMove == <<UpTo(3)>>
RecvAttack == <<U32>>
RecvSlot == <<U8>>
RecvInteractBug == <<U32, U8, I32, Str>>
RecvInteract == <<U32, U8, Str, I32>>
RecvClan == <<U8, Str>>
RecvCheat == <<U8>>
RecvChat == <<Str>>
RecvPrivateChat == <<Str, Str>>

Requests ==
    [op \in 1..5 \cup 16..25 \cup {32, 33, 254, 255} |->
        CASE op = 1                           -> RecvLogin
          [] op = 3                           -> RecvCreateMatch
          [] op = 4                           -> RecvJoinMatch
          [] op = 5                           -> RecvSelectRaceClass
          [] op = 16                          -> RecvMove
          [] op = 17                          -> RecvAttack
          [] op \in {20, 21}                  -> RecvSlot
          [] op = 22                          -> RecvInteract
          [] op = 23                          -> RecvClan
          [] op = 25                          -> RecvCheat
          [] op = 32                          -> RecvChat
          [] op = 33                          -> RecvPrivateChat
          [] op \in {2, 18, 19, 24, 254, 255} -> <<>>]

\* Updates, in the order in which send_... writes them.
SendLoginOk == <<U32>>
SendMatchList == <<ListOf(U16, <<U32, Str, U8, U8>>)>>
SendMatchCreated == <<U32>>
SendMatchJoined == <<U32, U32, Bool, U8, U8>>
SendPlayerJoined == <<U32, Str, U8, U8, I32, I32>>
SendPlayerLeft == <<U32, Str, U32>>
SendPlayerSpawned == <<U32, Str, U8, U8, I32, I32>>
SendWorldMap == <<GridOf(<<U8, Bool>>)>>
SendAttacked == <<U32, U32, I32, Bool, Bool, Bool, Bool, I32, U8, Str, U8, U32>>
SendDeath == <<U32, U32>>
SendMeditate == <<U8>>
SendRevive == <<U8>>
SendInventory == <<U32, ListOf(U16, <<Str, U32, Bool>>), U64>>
SendCatalog == <<ListOf(U16, <<Str>>), U64, Bool>>
SendSnapshot ==
    <<U32,
      ListOf(U16, <<U32, Str, U8, U8, I32, I32, I32, I32, I32, I32, U64, U64, U16,
                    Bool, Bool, U32, ListOf(U8, <<Str>>), U8, Bool>>),
      ListOf(U16, <<U32, Str, I32, I32, I32, I32, Bool, U32, U8, Bool>>),
      ListOf(U16, <<I32, I32, Bool, U64, Str>>)>>
SendMoved == <<U32, I32, I32>>
SendChatMsg == <<U32, Str, Str, Bool>>
SendSystemMsg == <<U32, Str>>
SendNpcInteract == <<U8, U8, Str, U64>>
SendClanResult == <<U8, U8, Str, Str, U32, Str>>
SendClanReview ==
    <<Str, ListOf(U16, <<U32, Str, Bool, Bool>>), ListOf(U16, <<U32, Str, Bool, Bool>>)>>
SendError == <<U8, Str>>

\* send_update; STATS, which nothing sends, is discarded.
Updates ==
    [op \in 129..137 \cup 146..149 \cup 160..162 \cup {144, 176, 177, 192, 193, 238} |->
        CASE op = 129 -> SendLoginOk
          [] op = 130 -> SendMatchList
          [] op = 131 -> SendMatchCreated
          [] op = 132 -> SendMatchJoined
          [] op = 133 -> SendSnapshot
          [] op = 134 -> SendPlayerJoined
          [] op = 135 -> SendPlayerLeft
          [] op = 136 -> SendPlayerSpawned
          [] op = 137 -> SendWorldMap
          [] op = 144 -> SendMoved
          [] op = 146 -> SendDeath
          [] op = 147 -> SendRevive
          [] op = 148 -> SendAttacked
          [] op = 149 -> SendMeditate
          [] op = 160 -> SendInventory
          [] op = 161 -> SendCatalog
          [] op = 162 -> SendNpcInteract
          [] op = 176 -> SendChatMsg
          [] op = 177 -> SendSystemMsg
          [] op = 192 -> SendClanResult
          [] op = 193 -> SendClanReview
          [] op = 238 -> SendError]
===============================================================================
