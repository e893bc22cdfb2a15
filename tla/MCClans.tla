------------------------------- MODULE MCClans -------------------------------
(***************************************************************************)
(* A small instance of Clans: three player ids, two of which are logins of *)
(* the same nick, two clans, room for two members in each.                 *)
(***************************************************************************)
EXTENDS Clans, TLC

MCPlayers == {1, 2, 3}
MCNicks == {"ana", "beto"}
MCNick == (1 :> "ana") @@ (2 :> "ana") @@ (3 :> "beto")
=============================================================================
