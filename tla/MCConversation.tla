---------------------------- MODULE MCConversation ----------------------------
(* An instance of Conversation for TLC: one request of each layout and one   *)
(* update of each kind, with empty and repeated lists, an empty string, and  *)
(* numbers that fill more than their last byte.                              *)
EXTENDS Conversation

Ana == <<97, 110, 97>>
AllRequests ==
    {Login, ListMatches, CreateMatch, JoinMatch(70000), SelectRaceClass, LeaveMatch,
     Message(16, <<3>>), Message(17, <<70000>>), Message(18, <<>>), Message(20, <<19>>),
     Message(22, <<1, 2, Ana, -300>>), Message(23, <<9, <<>>>>), Message(25, <<4>>),
     Message(32, <<Ana>>), Message(33, <<Ana, <<>>>>)}

APlayer == <<1, Ana, 0, 3, -1, 2, 300, 300, 0, 0, <<0, 7>>, <<1, 0>>, 300, TRUE, FALSE, 2,
             <<<<Ana>>, <<Ana>>>>, 1, TRUE>>
AnNpc == <<5, Ana, 3, 4, 10, 20, TRUE, 1, 0, FALSE>>
AnItem == <<1, 1, FALSE, <<0, 3>>, Ana>>
AllUpdates ==
    {LoginOk, MatchList({1, 300}), MatchCreated, MatchJoined(300, TRUE), WorldMap,
     Message(133, <<7, <<>>, <<>>, <<>>>>),
     Message(133, <<70000, <<APlayer, APlayer>>, <<AnNpc>>, <<AnItem, AnItem>>>>),
     Message(134, <<2, Ana, 1, 2, 3, -4>>), Message(135, <<2, Ana, 300>>), Message(136, <<2, Ana, 1, 2, 3, -4>>),
     Message(144, <<2, -1, 70000>>), Message(146, <<1, 2>>), Message(147, <<1>>),
     Message(148, <<1, 2, -5, TRUE, FALSE, TRUE, FALSE, 300, 1, Ana, 2, 3>>),
     Message(149, <<0>>), Message(160, <<1, <<<<Ana, 2, TRUE>>, <<<<>>, 0, FALSE>>>>, <<0, 9>>>>),
     Message(161, <<<<<<Ana>>>>, <<2, 1>>, TRUE>>), Message(162, <<1, 2, Ana, <<0, 5>>>>),
     Message(176, <<2, Ana, Ana, TRUE>>), Message(177, <<1, Ana>>),
     Message(192, <<3, 0, Ana, <<>>, 300, Ana>>),
     Message(193, <<Ana, <<<<1, Ana, TRUE, FALSE>>>>, <<<<2, Ana, FALSE, TRUE>>>>>>),
     Refusal}

InGame == {Message(33, <<Ana, <<>>>>)}
FromMatch == {Message(160, <<1, <<<<Ana, 2, TRUE>>, <<<<>>, 0, FALSE>>>>, <<0, 9>>>>)}
===============================================================================
