---------------------------- MODULE MCClientState ----------------------------
(* ClientState with one other player, one priest who also sells, a potion    *)
(* and a sword in two slots.                                                 *)
EXTENDS ClientState
=============================================================================
