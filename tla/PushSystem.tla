---------------------------- MODULE PushSystem ----------------------------
(***************************************************************************)
(* A game in play: one process per player with its own copy of the board,  *)
(* and the server between them.  A key changes no board by itself; it goes *)
(* up to the server, whose thread for that player sends it to everybody,   *)
(* and each client plays what comes down.  The handshake is over and       *)
(* nobody leaves before the first end event; what the server still does    *)
(* after it no client plays (PushServer follows it).                       *)
(*                                                                         *)
(* An inbox is a socket and the ring of EventQueue behind it, which        *)
(* together are first in, first out.                                       *)
(***************************************************************************)
EXTENDS PushRules, Sequences, FiniteSetsExt

Seqs == INSTANCE SequencesExt

CONSTANTS
    Keys,       \* user -> the commands that its player gives
    MaxUplink,  \* bound: keys under way to the server, per client
    MaxInbox    \* bound: events under way to a client; the server waits

ASSUME BoundsAssumption ==
    /\ \A u \in Users : Keys[u] \subseteq {cmd \in Commands : UserOf(cmd) = u}
    /\ MaxUplink \in Nat \ {0}
    /\ MaxInbox \in Nat \ {0}

VARIABLES
    client,     \* user -> the state of its game loop, as in PushGame
    uplink,     \* user -> the events it has written, unread by its thread
    sending,    \* the event of the thread that holds mutx, and who has it yet to get
    inbox,      \* user -> the events written to it, not yet played
    link        \* user -> its connection: open, closed by the server, reset, or
                \*   broken: SIGPIPE has killed the client

systemVars == <<client, uplink, sending, inbox, link>>

Idle == [event |-> EndEvent, from |-> -1, left |-> {}]

\* The game loop of one client, and what it promises.
Game(u) == INSTANCE PushGame WITH
    game <- client[u].game, info <- client[u].info,
    running <- client[u].running, end_sent <- client[u].end_sent

SystemInit ==
    /\ client = [u \in Users |->
           [game |-> InitialGame, info |-> "welcome", running |-> TRUE, end_sent |-> FALSE]]
    /\ uplink = [u \in Users |-> <<>>]
    /\ sending = Idle
    /\ inbox = [u \in Users |-> <<>>]
    /\ link = [u \in Users |-> "open"]

-----------------------------------------------------------------------------
(* Clients.                                                                *)

\* What a client makes of an event, apart from the label.
Played(g, event) ==
    LET movement == CheckValidation(g, event)
    IN  IF movement = 0 THEN g ELSE Move(g, event, movement)

\* Fault: the event is played without check_validation.
Handled_Unchecked(u, event) ==
    IF event = EndEvent THEN [client[u] EXCEPT !.running = FALSE]
    ELSE [client[u] EXCEPT !.game = Move(@, event, CheckValidation(@, event))]

\* handle_cmd.
Handled(u, event) ==
    LET movement == CheckValidation(client[u].game, event)
        g == Played(client[u].game, event)
    IN  IF event = EndEvent THEN [client[u] EXCEPT !.running = FALSE]
        ELSE IF movement = 0 THEN client[u]
        ELSE [client[u] EXCEPT !.game = g, !.info = Game(u)!InfoAfter(movement, g)]

\* read_msg and handle_cmd for the next event.
HandleCmd(u) ==
    /\ client[u].running
    /\ link[u] # "broken"
    /\ inbox[u] # <<>>
    /\ client' = [client EXCEPT ![u] = Handled(u, Head(inbox[u]))]
    /\ inbox' = [inbox EXCEPT ![u] = Tail(@)]
    /\ UNCHANGED <<uplink, sending, link>>

\* A TCP connection that is reset drops what has not been read.
Kept(events) == {SubSeq(events, 1, n) : n \in 0 .. Len(events)}

\* Fault: the client plays its own key at once.
KeyPress_Echo(u) ==
    \E cmd \in Keys[u] :
        /\ link[u] = "open"
        /\ Len(uplink[u]) < MaxUplink
        /\ uplink' = [uplink EXCEPT ![u] = Append(@, cmd)]
        /\ client' = [client EXCEPT ![u] = Handled(u, cmd)]
        /\ UNCHANGED <<sending, inbox, link>>

\* on_key_press, whose keys are written also when the game is over: to a
\* connection that the server has closed once, which resets it, and then to
\* a broken one.
KeyPress(u) ==
    \/ /\ link[u] = "open"
       /\ Len(uplink[u]) < MaxUplink
       /\ \E cmd \in Keys[u] : uplink' = [uplink EXCEPT ![u] = Append(@, cmd)]
       /\ UNCHANGED <<client, sending, inbox, link>>
    \/ /\ link[u] = "closed"
       /\ link' = [link EXCEPT ![u] = "reset"]
       /\ \E kept \in Kept(inbox[u]) : inbox' = [inbox EXCEPT ![u] = kept]
       /\ UNCHANGED <<client, uplink, sending>>
    \/ /\ link[u] = "reset"
       /\ link' = [link EXCEPT ![u] = "broken"]
       /\ UNCHANGED <<client, uplink, sending, inbox>>

\* handle_timeout.
Timeout(u) ==
    /\ ~client[u].end_sent
    /\ client' = [client EXCEPT ![u].end_sent = TRUE, ![u].info = "over"]
    /\ uplink' = [uplink EXCEPT ![u] = Append(@, EndEvent)]
    /\ UNCHANGED <<sending, inbox, link>>

-----------------------------------------------------------------------------
(* The server's threads.                                                   *)

\* Fault: the event is not sent back to the client that it came from.
Broadcast_NotBack(u) ==
    /\ sending = Idle
    /\ \A v \in Users : link[v] = "open"
    /\ uplink[u] # <<>>
    /\ sending' = [event |-> Head(uplink[u]), from |-> u, left |-> Users \ {u}]
    /\ uplink' = [uplink EXCEPT ![u] = Tail(@)]
    /\ UNCHANGED <<client, inbox, link>>

\* handle_clnt reads the event and send_msg_all gets the mutex.  After the
\* first end event nothing is sent that a client plays.
Broadcast(u) ==
    /\ sending = Idle
    /\ \A v \in Users : link[v] = "open"
    /\ uplink[u] # <<>>
    /\ sending' = [event |-> Head(uplink[u]), from |-> u, left |-> Users]
    /\ uplink' = [uplink EXCEPT ![u] = Tail(@)]
    /\ UNCHANGED <<client, inbox, link>>

\* One round of the loop in send_msg_all, which waits when a client reads slowly.
SendOne ==
    /\ sending.left # {}
    /\ LET v == Min(sending.left)
       IN  /\ Len(inbox[v]) < MaxInbox
           /\ inbox' = [inbox EXCEPT ![v] = Append(@, sending.event)]
           /\ sending' = [sending EXCEPT !.left = @ \ {v}]
    /\ UNCHANGED <<client, uplink, link>>

\* The unlock; the thread that has sent the end event closes the connection
\* of its client, which is a reset when it leaves something unread.
SendDone ==
    LET u == sending.from IN
    /\ sending # Idle
    /\ sending.left = {}
    /\ sending' = Idle
    /\ IF sending.event # EndEvent THEN UNCHANGED <<inbox, link>>
       ELSE IF uplink[u] = <<>>
       THEN link' = [link EXCEPT ![u] = "closed"] /\ UNCHANGED inbox
       ELSE /\ link' = [link EXCEPT ![u] = "reset"]
            /\ \E kept \in Kept(inbox[u]) : inbox' = [inbox EXCEPT ![u] = kept]
    /\ UNCHANGED <<client, uplink>>

SystemNext ==
    \/ \E u \in Users : HandleCmd(u) \/ KeyPress(u) \/ Timeout(u) \/ Broadcast(u)
    \/ SendOne
    \/ SendDone

SystemSpec == SystemInit /\ [][SystemNext]_systemVars

(***************************************************************************)
(* Threads and timers that can run do run; the mutex is given to each that *)
(* asks for it again and again; alarm() fires.  Nobody has to press a key. *)
(***************************************************************************)
FairSystemSpec ==
    /\ SystemSpec
    /\ WF_systemVars(SendOne) /\ WF_systemVars(SendDone)
    /\ \A u \in Users : /\ WF_systemVars(HandleCmd(u)) /\ WF_systemVars(Timeout(u))
                        /\ SF_systemVars(Broadcast(u))

-----------------------------------------------------------------------------
\* What is on its way to u: the part of the common sequence of events that u
\* has not played.
Outstanding(u) ==
    inbox[u] \o IF u \in sending.left THEN <<sending.event>> ELSE <<>>

\* The game that u will have when everything under way has reached it; after
\* an end event nothing is played.
Outcome(u) ==
    LET Step(c, event) ==
            IF ~c.running THEN c
            ELSE IF event = EndEvent THEN [c EXCEPT !.running = FALSE]
            ELSE [c EXCEPT !.game = Played(c.game, event)]
    IN  Seqs!FoldLeft(Step, [game |-> client[u].game, running |-> client[u].running],
                      Outstanding(u))

\* "receive and echo command" (handle_clnt): each client computes the moves,
\* the scores and the end of the game for itself, and still all are on the way
\* to the same game: whatever the others have played and u has not is on its
\* way to u, in the same order.  Only a client whose connection was reset
\* behind its own end event may be left behind.
SameGame ==
    \A u, v \in Users :
        link[u] \in {"open", "closed"} /\ link[v] \in {"open", "closed"}
            => Outcome(u) = Outcome(v)

\* What reaches a client is a game: each client on its own takes steps of
\* PushGame only, for which the theorems of PushGame_proofs hold.
EachPlaysTheGame == [][\A u \in Users : [Game(u)!Next]_(Game(u)!vars)]_client

\* The alarm of one client stops every game, except where the reset of the
\* sender's connection has taken its end event away.
AlarmStopsAll ==
    (\E u \in Users : client[u].end_sent)
        ~> \A u \in Users : ~client[u].running \/ link[u] \in {"reset", "broken"}

\* When one player is told that the last item is home, all are in the end.
OverForAll ==
    (\E u \in Users : client[u].game.current_num_item = 0)
        ~> \A u \in Users : \/ client[u].game.current_num_item = 0
                             \/ link[u] \in {"reset", "broken"}

\* The end of the game, by the alarm of one client or by the last item, comes
\* to all of them (handle_timeout, handle_clnt, handle_cmd).
EndReachesAll == AlarmStopsAll /\ OverForAll
=============================================================================
