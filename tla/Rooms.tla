-------------------------------- MODULE Rooms --------------------------------
(***************************************************************************)
(* What the lobby of the server promises to somebody who sees only nicks   *)
(* and matches: a nick is out, in the lobby, or in one match; one session  *)
(* per nick; a match never holds more players than it was created for.     *)
(* No handler, thread, lock, list or counter appears here.                 *)
(***************************************************************************)
EXTENDS Integers, Sequences, FiniteSets

CONSTANTS Nicks, MatchNames, Capacities

Out == -1
InLobby == 0   \* current_match_id of a player that is in no match

VARIABLES
    rooms,   \* the matches created so far, by match id
    place    \* where each nick is: Out, InLobby or a match id

vars == <<rooms, place>>

Inside(r) == {n \in Nicks : place[n] = r}

Init ==
    /\ rooms \in Seq([name : MatchNames, max : Capacities])
    /\ place = [n \in Nicks |-> Out]

LogIn(n) ==
    /\ place[n] = Out
    /\ place' = [place EXCEPT ![n] = InLobby]
    /\ UNCHANGED rooms

Open(name, max) ==
    /\ \A r \in 1..Len(rooms) : rooms[r].name # name
    /\ rooms' = Append(rooms, [name |-> name, max |-> max])
    /\ UNCHANGED place

Enter(n, r) ==
    /\ place[n] = InLobby
    /\ Cardinality(Inside(r)) < rooms[r].max
    /\ place' = [place EXCEPT ![n] = r]
    /\ UNCHANGED rooms

Leave(n) ==
    /\ place[n] >= 1
    /\ place' = [place EXCEPT ![n] = InLobby]
    /\ UNCHANGED rooms

LogOut(n) ==
    /\ place[n] = InLobby
    /\ place' = [place EXCEPT ![n] = Out]
    /\ UNCHANGED rooms

Next ==
    \/ \E n \in Nicks : LogIn(n) \/ Leave(n) \/ LogOut(n)
    \/ \E n \in Nicks, r \in 1..Len(rooms) : Enter(n, r)
    \/ \E name \in MatchNames, max \in Capacities : Open(name, max)

Spec == Init /\ [][Next]_vars
=============================================================================
