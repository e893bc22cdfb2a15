----------------------------- MODULE Conversation -----------------------------
(***************************************************************************)
(* One client and its ClientHandler, from the connection to the game: the  *)
(* pages of MainWindow and the timer of its QtClientAdapter, the bytes of  *)
(* both directions of the socket, the state that ReceiverThread judges an  *)
(* opcode by, the queue of SenderThread, and the queue the client's own    *)
(* receiver thread fills.  What the registries of Server answer is left to *)
(* Sessions: here a login or a join is granted or refused.                 *)
(*                                                                         *)
(* A recvall waits until its bytes are there, so a read of a message is    *)
(* one action; the bytes are there or the stream has ended before them.    *)
(* ...Bug: a mutated form of the definition that follows it.               *)
(***************************************************************************)
EXTENDS FiniteSets, WireFormat

Server == INSTANCE ServerProtocol
Client == INSTANCE ClientProtocol

CONSTANTS
    SomeRequests, SomeUpdates,  \* samples of messages, of every layout
    GameRequests,  \* what the player may ask for in the game
    Broadcasts,    \* what the match may have to say to this client
    MatchIds,
    MaxClicks, MaxBroadcasts   \* bounds of the model

VARIABLES
    page,     \* MainWindow: "connection", "lobby", "race"; "game" once SdlClient
              \* has the Client; "closed"
    busy,     \* connection_page: the button is disabled until an answer
    polling,  \* the timer of the adapter runs
    rows,     \* the matches the lobby shows
    map,      \* GameClient has the map
    inbox, inboxClosed,    \* Client::received_updates
    up, upEnd, down, downEnd,   \* bytes not yet read; nothing follows them
    conn,     \* PlayerConnection::state, or "over" when run() has returned
    joining,  \* handle_join_match: "no", "told", "map" are the steps left
    match,    \* current_match_id
    outbox, outboxClosed, sender,   \* send_queue; SenderThread runs
    \* What the variables of the code do not say:
    asked, said,        \* the messages whose bytes are in up and in down
    misread, misheard,  \* a message was read that is not the one written
    strayed,   \* an opcode was refused and its payload left in the stream
    clicks, broadcasts   \* of the user, of the match; bounded

windowVars == <<page, busy, polling, rows, map, clicks>>
upVars == <<up, upEnd, asked>>
downVars == <<down, downEnd, said>>
inboxVars == <<inbox, inboxClosed, misheard>>
handlerVars == <<conn, joining, match, misread, strayed>>
outboxVars == <<outbox, outboxClosed, sender, broadcasts>>
vars == <<windowVars, upVars, downVars, inboxVars, handlerVars, outboxVars>>

Message(op, payload) == [op |-> op, payload |-> payload]
Login == Message(1, <<<<97>>>>)
ListMatches == Message(2, <<>>)
CreateMatch == Message(3, <<<<97, 32, 98>>, 4>>)   \* a name with a blank in it
JoinMatch(m) == Message(4, <<m>>)
SelectRaceClass == Message(5, <<1, 3>>)
LeaveMatch == Message(254, <<>>)

LoginOk == Message(129, <<1>>)
MatchList(ms) ==
    Message(130, <<[i \in DOMAIN SetToSeq(ms) |-> <<SetToSeq(ms)[i], <<97>>, 0, 4>>]>>)
MatchCreated == Message(131, <<1>>)
MatchJoined(m, restored) == Message(132, <<m, 1, restored, 0, 0>>)
WorldMap == Message(137, <<[width |-> 2, height |-> 1, cells |-> <<<<0, FALSE>>, <<3, TRUE>>>>]>>)
Refusal == Message(238, <<4, <<110, 111>>>>)

IsLobbyUpdate(u) == u.op \in {129, 130, 131, 132, 137, 238}

\* What the send_ functions of both ends can be given: values that the layout of the
\* opcode holds, and of Race, Class and Direction the four enumerators.
FitsRequest(m) ==
    /\ m = Message(m.op, m.payload)
    /\ m.op \in DOMAIN Client!Requests /\ Fits(Client!Requests[m.op], m.payload)
    /\ m.op \in {5, 16} => \A i \in DOMAIN m.payload : m.payload[i] <= 3
FitsUpdate(u) ==
    /\ u = Message(u.op, u.payload)
    /\ u.op \in DOMAIN Server!Updates /\ Fits(Server!Updates[u.op], u.payload)

ASSUME RequestsAssumption == \A m \in SomeRequests \cup GameRequests : FitsRequest(m)
ASSUME UpdatesAssumption == \A u \in SomeUpdates \cup Broadcasts : FitsUpdate(u)
ASSUME BroadcastsAssumption == \A u \in Broadcasts : ~ IsLobbyUpdate(u)

\* Match ids are uint32_t, held as WireFormat says, and a list of all of them can be sent.
ASSUME MatchIdsAssumption ==
    MatchIds \subseteq Int32 /\ IsFiniteSet(MatchIds) /\ Cardinality(MatchIds) \in Counts

\* ------------------------------------------------------------------ client
\* A do_... of Client: sendall under send_mutex.
Send(ms) ==
    /\ up' = up \o PutMessages(Client!Requests, ms)
    /\ asked' = asked \o ms
    /\ UNCHANGED upEnd

Click == clicks < MaxClicks /\ clicks' = clicks + 1

\* handle_connect_requested: a Client, hence a connection, of its own.  The one
\* of an earlier attempt that was refused is destroyed.
Connect ==
    /\ page = "connection" /\ ~ busy /\ Click
    /\ busy' = TRUE /\ polling' = TRUE
    /\ up' = PutMessage(Client!Requests, Login) /\ upEnd' = FALSE
    /\ asked' = <<Login>>
    /\ down' = <<>> /\ downEnd' = FALSE /\ said' = <<>>
    /\ inbox' = <<>> /\ inboxClosed' = FALSE /\ misheard' = FALSE
    /\ conn' = "CONNECTED" /\ joining' = "no" /\ match' = 0
    /\ misread' = FALSE /\ strayed' = FALSE
    /\ outbox' = <<>> /\ outboxClosed' = FALSE /\ sender' = TRUE
    /\ UNCHANGED <<page, rows, map, broadcasts>>

\* The buttons of the lobby.  None is disabled while an answer is awaited.
Refresh ==
    /\ page = "lobby" /\ Click /\ Send(<<ListMatches>>)
    /\ UNCHANGED <<page, busy, polling, rows, map, downVars, inboxVars, handlerVars, outboxVars>>
Create ==
    /\ page = "lobby" /\ Click /\ Send(<<CreateMatch>>)
    /\ UNCHANGED <<page, busy, polling, rows, map, downVars, inboxVars, handlerVars, outboxVars>>
Join(m) ==
    /\ page = "lobby" /\ m \in rows /\ Click /\ Send(<<JoinMatch(m)>>)
    /\ UNCHANGED <<page, busy, polling, rows, map, downVars, inboxVars, handlerVars, outboxVars>>

\* The choice of race and class goes out and the game starts.
Confirm ==
    /\ page = "race" /\ Click /\ Send(<<SelectRaceClass>>)
    /\ page' = "game" /\ polling' = FALSE
    /\ UNCHANGED <<busy, rows, map, downVars, inboxVars, handlerVars, outboxVars>>

\* Back to the lobby.  The timer, stopped by MATCH_JOINED, is not started again.
BackToLobby ==
    /\ page = "race" /\ Click /\ Send(<<LeaveMatch, ListMatches>>)
    /\ page' = "lobby"
    /\ UNCHANGED <<busy, polling, rows, map, downVars, inboxVars, handlerVars, outboxVars>>

Play(r) ==
    /\ page = "game" /\ Click /\ Send(<<r>>)
    /\ UNCHANGED <<page, busy, polling, rows, map, downVars, inboxVars, handlerVars, outboxVars>>

\* ~Client: what was read or is on its way to it is lost; what it wrote arrives.
Gone ==
    /\ polling' = FALSE /\ rows' = {} /\ map' = FALSE
    /\ inbox' = <<>> /\ inboxClosed' = TRUE /\ down' = <<>> /\ said' = <<>>
    /\ upEnd' = TRUE
    /\ UNCHANGED <<clicks, asked, downEnd, misheard, handlerVars, outboxVars>>

\* Log out: back to the first page.
LogOut == page = "lobby" /\ Gone /\ page' = "connection" /\ busy' = FALSE /\ UNCHANGED up

\* The window is closed, or the process dies while a sendall is under way: all
\* but the end of the last request is sent.
Quit ==
    /\ page # "closed" /\ ~ upEnd
    /\ Gone /\ page' = "closed" /\ busy' = FALSE
    /\ \/ up' = up
       \/ up # <<>> /\ up' = SubSeq(up, 1, Len(up) - 1)

\* receive_update: the opcode and the payload its table gives it, which throws for
\* an opcode it does not know.
ReceiveUpdate ==
    IF down = <<>> THEN Short
    ELSE IF down[1] \notin DOMAIN Client!Updates THEN Bad
    ELSE Get(Client!Updates[down[1]], Tail(down))

\* ClientReceiverThread: one update, and the push of what was read.
ClientReceives ==
    /\ ~ inboxClosed
    /\ LET r == ReceiveUpdate
           u == Message(down[1], r.value)
       IN /\ r.status = "whole"
          /\ inbox' = Append(inbox, u)
          /\ down' = r.rest
          /\ said' = Tail(said)
          /\ misheard' = (misheard \/ u # Head(said))
    /\ UNCHANGED <<inboxClosed, downEnd, windowVars, upVars, handlerVars, outboxVars>>

\* It throws, or the stream ends before a whole update, and it closes the queue.
ClientReceiverEnds ==
    /\ ~ inboxClosed
    /\ ReceiveUpdate.status = "bad" \/ (ReceiveUpdate.status = "short" /\ downEnd)
    /\ inboxClosed' = TRUE
    /\ UNCHANGED <<inbox, misheard, windowVars, upVars, downVars, handlerVars, outboxVars>>

\* poll_updates and the slots of MainWindow it signals.
ShowError == busy' = FALSE /\ UNCHANGED <<page, polling, rows>>
OnLoginOk ==
    /\ page' = "lobby" /\ busy' = FALSE /\ Send(<<ListMatches>>)
    /\ UNCHANGED <<polling, rows>>
OnMatchList(u) ==
    /\ rows' = {u.payload[1][i][1] : i \in DOMAIN u.payload[1]}
    /\ UNCHANGED <<page, busy, polling, upVars>>
OnMatchCreated == Send(<<ListMatches>>) /\ UNCHANGED <<page, busy, polling, rows>>
OnMatchJoinedBug(u) ==
    /\ page' = IF u.payload[3] THEN "game" ELSE "race"
    /\ UNCHANGED <<polling, busy, rows, upVars>>
OnMatchJoined(u) ==
    /\ polling' = FALSE   \* WORLD_MAP and the snapshots stay in the queue
    /\ page' = IF u.payload[3] THEN "game" ELSE "race"
    /\ UNCHANGED <<busy, rows, upVars>>

PollUpdate ==
    /\ polling /\ inbox # <<>>
    /\ LET u == Head(inbox) IN
         CASE u.op = 129 -> OnLoginOk
           [] u.op = 130 -> OnMatchList(u)
           [] u.op = 131 -> OnMatchCreated
           [] u.op = 132 -> OnMatchJoined(u)
           [] u.op = 238 -> ShowError /\ UNCHANGED upVars
           [] OTHER      -> UNCHANGED <<page, busy, polling, rows, upVars>>
    /\ inbox' = Tail(inbox)
    /\ UNCHANGED <<map, clicks, inboxClosed, misheard, downVars, handlerVars, outboxVars>>

\* The queue is closed and empty: the session is torn down and the window closed.
PollClosed ==
    /\ polling /\ inbox = <<>> /\ inboxClosed
    /\ Gone /\ page' = "closed" /\ busy' = FALSE /\ UNCHANGED up

\* apply_pending of the game; ClientState says what the other updates do.
ApplyPending ==
    /\ page = "game" /\ inbox # <<>>
    /\ map' = (map \/ Head(inbox).op = 137)
    /\ inbox' = Tail(inbox)
    /\ UNCHANGED <<page, busy, polling, rows, clicks, inboxClosed, misheard, upVars, downVars,
                   handlerVars, outboxVars>>

\* ------------------------------------------------------------------ server
Enqueue(us) == outbox' = IF outboxClosed THEN outbox ELSE outbox \o us
ReadingBug == conn # "over"
Reading == conn # "over" /\ joining = "no"

\* The opcodes each state has a case for.
InMatchOps == {5} \cup 16..25 \cup {32, 33, 254}
Accepts(op) ==
    CASE conn = "CONNECTED"     -> op = 1
      [] conn = "AUTHENTICATED" -> op \in {2, 3, 4}
      [] conn = "IN_MATCH"      -> op \in InMatchOps

\* An opcode out of place: it is refused and what follows it is left to be read
\* as the next opcode.
RefusesOp ==
    /\ Reading /\ up # <<>> /\ up[1] # 255 /\ ~ Accepts(up[1])
    /\ up' = Tail(up)
    /\ strayed' = (strayed \/ (asked # <<>> /\ Head(asked).payload # <<>>))
    /\ asked' = IF strayed' THEN <<>> ELSE Tail(asked)
    /\ Enqueue(<<Refusal>>)
    /\ UNCHANGED <<upEnd, windowVars, downVars, inboxVars, conn, joining, match, misread,
                   outboxClosed, sender, broadcasts>>

\* The answers of the handlers.
OnLogin ==
    \/ conn' = "AUTHENTICATED" /\ Enqueue(<<LoginOk>>)
    \/ conn' = conn /\ Enqueue(<<Refusal>>)
OnJoinMatchBug(m) ==
    \/ /\ m \in MatchIds
       /\ match' = m /\ conn' = "IN_MATCH" /\ joining' = "told" /\ outbox' = outbox
    \/ conn' = "IN_MATCH" /\ Enqueue(<<Refusal>>) /\ UNCHANGED <<match, joining>>
OnJoinMatch(m) ==
    \/ /\ m \in MatchIds
       /\ match' = m /\ conn' = "IN_MATCH" /\ joining' = "told" /\ outbox' = outbox
    \/ Enqueue(<<Refusal>>) /\ UNCHANGED <<match, conn, joining>>

Handle(op, payload) ==
    CASE op = 1   -> OnLogin /\ UNCHANGED <<joining, match>>
      [] op = 2   -> /\ \E ms \in SUBSET MatchIds : Enqueue(<<MatchList(ms)>>)
                     /\ UNCHANGED <<conn, joining, match>>
      [] op = 3   -> /\ Enqueue(<<MatchCreated>>) \/ Enqueue(<<Refusal>>)
                     /\ UNCHANGED <<conn, joining, match>>
      [] op = 4   -> OnJoinMatch(payload[1])
      [] op = 254 -> /\ conn' = "AUTHENTICATED" /\ match' = 0
                     /\ UNCHANGED <<joining, outbox>>
      [] OTHER    -> UNCHANGED <<conn, joining, match, outbox>>   \* a command is queued

\* The payload of an opcode in its place.
RecvPayload == Get(Server!Requests[up[1]], Tail(up))
AsAsked(r) == asked # <<>> /\ r = Head(asked)

\* An opcode in its place, its payload, and the handler.
ServerReads ==
    /\ Reading /\ up # <<>> /\ Accepts(up[1])
    /\ LET r == RecvPayload IN
         /\ r.status = "whole"
         /\ up' = r.rest
         /\ asked' = IF strayed THEN <<>> ELSE Tail(asked)
         /\ misread' = (misread \/ (~ strayed /\ ~ AsAsked(Message(up[1], r.value))))
         /\ Handle(up[1], r.value)
    /\ UNCHANGED <<upEnd, strayed, windowVars, downVars, inboxVars,
                   outboxClosed, sender, broadcasts>>

\* handle_join_match once join_match has let it in: the answer, then the map.
TellsJoined ==
    /\ joining = "told" /\ joining' = "map"
    /\ \E restored \in BOOLEAN : Enqueue(<<MatchJoined(match, restored)>>)
    /\ UNCHANGED <<conn, match, misread, strayed, outboxClosed, sender, broadcasts,
                   windowVars, upVars, downVars, inboxVars>>
SendsMap ==
    /\ joining = "map" /\ joining' = "no"
    /\ Enqueue(<<WorldMap>>)
    /\ UNCHANGED <<conn, match, misread, strayed, outboxClosed, sender, broadcasts,
                   windowVars, upVars, downVars, inboxVars>>

\* DISCONNECT, a byte out of range, or the end of the stream: run() leaves its
\* loop, disconnects and closes the queue.  The socket stays open.
Leaves ==
    IF up = <<>> THEN upEnd
    ELSE \/ up[1] = 255
         \/ Accepts(up[1]) /\ RecvPayload.status = "bad"
         \/ Accepts(up[1]) /\ RecvPayload.status = "short" /\ upEnd
ReceiverEnds ==
    /\ Reading /\ Leaves
    /\ conn' = "over" /\ match' = 0 /\ outboxClosed' = TRUE
    /\ UNCHANGED <<joining, misread, strayed, outbox, sender, broadcasts,
                   windowVars, upVars, downVars, inboxVars>>

\* The game loop and other receivers, to a connection in the list of its match,
\* where it is from join_match on.
MatchSays(u) ==
    /\ conn = "IN_MATCH" /\ broadcasts < MaxBroadcasts
    /\ broadcasts' = broadcasts + 1
    /\ Enqueue(<<u>>)
    /\ UNCHANGED <<outboxClosed, sender, windowVars, upVars, downVars, inboxVars, handlerVars>>

\* SenderThread: pop, then send_update.  The system may accept what nobody reads.
SenderSends ==
    /\ sender /\ outbox # <<>>
    /\ outbox' = Tail(outbox)
    /\ down' = IF upEnd THEN down ELSE down \o PutMessage(Server!Updates, Head(outbox))
    /\ said' = IF upEnd THEN said ELSE Append(said, Head(outbox))
    /\ UNCHANGED <<downEnd, outboxClosed, sender, broadcasts, windowVars, upVars, inboxVars, handlerVars>>

\* It ends when the queue is closed and empty, or a send fails: the client is gone.
SenderEnds ==
    /\ sender
    /\ (outbox = <<>> /\ outboxClosed) \/ (outbox # <<>> /\ upEnd)
    /\ sender' = FALSE
    /\ UNCHANGED <<outbox, outboxClosed, broadcasts, windowVars, upVars, downVars, inboxVars, handlerVars>>

\* Both threads have ended, somebody connects, and the acceptor destroys the
\* handler: only now is the socket closed.
HandlerReaped ==
    /\ conn = "over" /\ ~ sender /\ ~ downEnd
    /\ downEnd' = TRUE
    /\ UNCHANGED <<down, said, windowVars, upVars, inboxVars, handlerVars, outboxVars>>

\* The server shuts down: hard_kill stops both threads and closes the socket, maybe
\* in the middle of a sendall.
HardKill ==
    /\ ~ downEnd /\ downEnd' = TRUE
    /\ conn' = "over" /\ joining' = "no" /\ match' = 0
    /\ outbox' = <<>> /\ outboxClosed' = TRUE /\ sender' = FALSE
    /\ \/ down' = down
       \/ down # <<>> /\ down' = SubSeq(down, 1, Len(down) - 1)
    /\ UNCHANGED <<said, misread, strayed, broadcasts, windowVars, upVars, inboxVars>>

Init ==
    /\ page = "connection" /\ busy = FALSE /\ polling = FALSE /\ rows = {} /\ map = FALSE
    /\ inbox = <<>> /\ inboxClosed = TRUE
    /\ up = <<>> /\ upEnd = TRUE /\ down = <<>> /\ downEnd = TRUE
    /\ conn = "over" /\ joining = "no" /\ match = 0
    /\ outbox = <<>> /\ outboxClosed = TRUE /\ sender = FALSE
    /\ asked = <<>> /\ said = <<>> /\ misread = FALSE /\ misheard = FALSE /\ strayed = FALSE
    /\ clicks = 0 /\ broadcasts = 0

User ==
    \/ Connect \/ Refresh \/ Create \/ (\E m \in MatchIds : Join(m))
    \/ Confirm \/ BackToLobby \/ (\E r \in GameRequests : Play(r))
    \/ LogOut \/ Quit
ClientThreads == ClientReceives \/ ClientReceiverEnds \/ PollUpdate \/ PollClosed \/ ApplyPending
Handler ==
    \/ RefusesOp \/ ServerReads \/ TellsJoined \/ SendsMap \/ ReceiverEnds
    \/ SenderSends \/ SenderEnds \/ HandlerReaped \/ HardKill
Next == User \/ ClientThreads \/ Handler \/ \E u \in Broadcasts : MatchSays(u)

Spec == Init /\ [][Next]_vars

-----------------------------------------------------------------------------
TypeOK ==
    /\ page \in {"connection", "lobby", "race", "game", "closed"}
    /\ busy \in BOOLEAN /\ polling \in BOOLEAN /\ rows \subseteq MatchIds /\ map \in BOOLEAN
    /\ up \in Bytes /\ down \in Bytes /\ upEnd \in BOOLEAN /\ downEnd \in BOOLEAN
    /\ inboxClosed \in BOOLEAN /\ outboxClosed \in BOOLEAN /\ sender \in BOOLEAN
    /\ conn \in {"CONNECTED", "AUTHENTICATED", "IN_MATCH", "over"}
    /\ joining \in {"no", "told", "map"} /\ match \in {0} \cup MatchIds
    /\ joining # "no" => conn = "IN_MATCH"

AskedBytes == PutMessages(Client!Requests, asked)
SaidBytes == PutMessages(Server!Updates, said)

\* Whole and only when whole: of the bytes of a message its reader makes the same
\* message, and of a part of them none.
ReadsBack(layouts, readers, m) ==
    LET bytes == Put(layouts[m.op], m.payload)
    IN /\ Get(readers[m.op], bytes) = Read(m.payload, <<>>)
       /\ \A n \in 0..(Len(bytes) - 1) : Get(readers[m.op], SubSeq(bytes, 1, n)) = Short

\* Both texts of the protocol agree, put_ with recv_ and layout by layout, on every
\* sample.  (It is about constants: the initial state is the one to look at.)
EndsAgree ==
    clicks = 0 => /\ \A m \in SomeRequests : ReadsBack(Client!Requests, Server!Requests, m)
                  /\ \A m \in SomeUpdates : ReadsBack(Server!Updates, Client!Updates, m)

\* Until a request is refused without its payload (RefusesOp), what the server reads are
\* the requests the client wrote, in their order and with their values, and what is left
\* on the stream are the others; and receive_update returns the updates that send_update
\* was given, one for one. Of a side that dies while it writes, no half message is ever
\* taken for a whole one.
RequestsArriveWhole ==
    ~ strayed => /\ ~ misread
                 /\ IsPrefix(up, AskedBytes)
                 /\ page # "closed" => up = AskedBytes
UpdatesArriveWhole ==
    /\ ~ misheard
    /\ IsPrefix(down, SaidBytes)
    /\ ~ downEnd => down = SaidBytes
MessagesArriveWhole == RequestsArriveWhole /\ UpdatesArriveWhole

\* send_world_map_to comes after MATCH_JOINED, which ends the polling: the lobby,
\* which would drop the map, leaves it in the queue for the game.
MapReachesGame ==
    page \in {"race", "game"} =>
        \/ map \/ joining # "no" \/ downEnd
        \/ \E q \in {inbox, said, outbox} : \E i \in DOMAIN q : q[i].op = 137

\* Nothing is on its way in either direction and every thread waits.
Settled ==
    /\ up = <<>> /\ joining = "no" /\ outbox = <<>> /\ down = <<>>
    /\ polling => inbox = <<>> /\ ~ inboxClosed /\ ~ downEnd

\* When nothing more can come, the window knows what the server decided: an attempt to
\* log in has been answered (its button is enabled again), and a lobby that polls has
\* learnt that its client was let into a match.
LoginIsAnswered == page = "connection" => ~ busy
LobbyKnowsMatch == page = "lobby" /\ polling => conn = "AUTHENTICATED"
AnswersReachUser == Settled => LoginIsAnswered /\ LobbyKnowsMatch

\* The payload of a request is read together with its opcode.
StaysInStep == ~ strayed
===============================================================================
