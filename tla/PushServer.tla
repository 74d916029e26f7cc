----------------------------- MODULE PushServer -----------------------------
(***************************************************************************)
(* The PushPush server: main accepts connections and starts one thread per *)
(* client; handle_clnt runs the handshake of its client and then echoes    *)
(* its commands to everybody.  The threads share the client table, the     *)
(* counters and game_start; mutx protects some of the accesses, not all.   *)
(*                                                                         *)
(* A connection is a member of Conns; it is also the name of the thread    *)
(* that pthread_create starts for it.  Descriptors are reused: accept      *)
(* returns the lowest one that is free.  One message stands for the bytes  *)
(* of one read_byte or write_byte call (of two calls, length and content,  *)
(* for the game file and for each name).                                   *)
(***************************************************************************)
EXTENDS Integers, Sequences, FiniteSets

CONSTANTS
    Conns,         \* the connections that clients make
    Main,          \* the main thread
    NoConn,        \* what a free descriptor refers to, a name not received
    None,          \* nobody holds the mutex
    MaxUser,       \* max_user of the game file
    Leavers,       \* the clients that may leave at any moment
    Enders,        \* the clients whose alarm may go off
    MaxCmds,       \* bound: how many commands a client sends
    MinCnt,        \* bound: how far below zero clnt_cnt is followed
    AcceptMayFail, \* accept may return -1
    PromptStart    \* a new thread reads its argument before the next accept

MAX_USER == 4

ASSUME ServerAssumption ==
    /\ MaxUser \in 1 .. MAX_USER
    /\ Leavers \subseteq Conns /\ Enders \subseteq Conns
    /\ MaxCmds \in Nat
    /\ MinCnt \in Int /\ MinCnt <= 0
    /\ AcceptMayFail \in BOOLEAN /\ PromptStart \in BOOLEAN
    /\ IsFiniteSet(Conns)
    /\ Main \notin Conns /\ NoConn \notin Conns
    /\ None \notin Conns \cup {Main}

Threads == Conns \cup {Main}
Fds == 0 .. Cardinality(Conns) - 1
BadFd == -1
Slots == 0 .. MAX_USER - 1

VARIABLES
    proc,         \* "up"; "killed" by SIGPIPE; "wild" after undefined behaviour
    mutx,         \* the thread that holds the mutex, or None
    clnt_cnt, clnt_socks, usr_cnt, game_start,
    user_name,    \* slot -> the connection whose name it holds
    th,           \* the program counter and the locals of every thread
    accepted,     \* the connection main accepted last
    fds,          \* descriptor -> the connection it refers to, or NoConn
    link,         \* how each client's end is: "out", "up", "fin" or "rst"
    in,           \* client -> server: written and not read yet
    out,          \* server -> client: everything written
    csent,        \* how many messages the client has sent (size, name, commands)
    ended,        \* the client's alarm has gone off
    bcast         \* history: the events in the order they were broadcast

tableVars == <<clnt_cnt, clnt_socks, usr_cnt, game_start, user_name>>
netVars == <<fds, link, in, out>>
clientVars == <<csent, ended>>
vars == <<proc, mutx, tableVars, th, accepted, netVars, clientVars, bcast>>

(***************************************************************************)
(* Thread locals.  arg and ret are the argument of a call of disconnected  *)
(* and the place it returns to.  behind: read_size or write_size has gone  *)
(* negative, because the loops of read_byte and write_byte add the -1 of a *)
(* failed call to it and go on.                                            *)
(***************************************************************************)
NewThread(pc) ==
    [pc |-> pc, sock |-> BadFd, name_size |-> 0, i |-> 0, event |-> <<>>,
     arg |-> BadFd, ret |-> pc, behind |-> FALSE]

Init ==
    /\ proc = "up"
    /\ mutx = None
    /\ clnt_cnt = 0
    /\ clnt_socks = [s \in Slots |-> BadFd]
    /\ usr_cnt = 0
    /\ game_start = 0
    /\ user_name = [s \in 0 .. MaxUser - 1 |-> NoConn]
    /\ th = [t \in Threads |-> NewThread(IF t = Main THEN "accept" ELSE "none")]
    /\ accepted = NoConn
    /\ fds = [f \in Fds |-> NoConn]
    /\ link = [c \in Conns |-> "out"]
    /\ in = [c \in Conns |-> <<>>]
    /\ out = [c \in Conns |-> <<>>]
    /\ csent = [c \in Conns |-> 0]
    /\ ended = [c \in Conns |-> FALSE]
    /\ bcast = <<>>

-----------------------------------------------------------------------------
(* Sockets, as the code uses them.                                         *)

IsOpen(f) == f \in Fds /\ fds[f] # NoConn

\* The client's end of descriptor f; the own end may be closed.
LinkOf(f) == IF IsOpen(f) THEN link[fds[f]] ELSE "closed"

\* Thread t is at place p of its program.
At(t, p) == proc = "up" /\ th[t].pc = p

Goto(t, p) == th' = [th EXCEPT ![t].pc = p]

\* The call disconnected(f) made by t, which then continues at back.
CallDisconnected(t, f, back, behind) ==
    th' = [th EXCEPT ![t].pc = "disc", ![t].arg = f, ![t].ret = back,
                     ![t].behind = behind]

\* The process dies or its state becomes meaningless: nothing else happens.
Crash(how) ==
    /\ proc' = how
    /\ UNCHANGED <<mutx, tableVars, th, accepted, netVars, clientVars, bcast>>

(***************************************************************************)
(* write_byte on descriptor f: the message arrives; or the client is gone  *)
(* and write returns -1 or raises SIGPIPE, which nobody handles.  The      *)
(* first write after an orderly close still succeeds.  When write_size is  *)
(* negative the bytes that go out start before the buffer: junk.           *)
(***************************************************************************)
WriteArrives(t, f, msg) ==
    /\ LinkOf(f) \in {"up", "fin"}
    /\ out' = [out EXCEPT ![fds[f]] =
                  Append(@, IF th[t].behind THEN <<"junk", 0>> ELSE msg)]
    /\ link' = [link EXCEPT ![fds[f]] = IF @ = "fin" THEN "rst" ELSE @]
    /\ UNCHANGED <<proc, fds, in>>

WriteFails(t, f) ==
    /\ LinkOf(f) \in {"rst", "closed"}
    /\ CallDisconnected(t, f, th[t].pc, TRUE)
    /\ UNCHANGED <<proc, mutx, tableVars, accepted, netVars, clientVars, bcast>>

WriteKills(f) ==
    /\ LinkOf(f) = "rst"
    /\ Crash("killed")

WriteFailsOrKills(t, f) == WriteFails(t, f) \/ WriteKills(f)

(***************************************************************************)
(* read_byte on the thread's own descriptor.  Data that does not have the  *)
(* kind the thread expects, or that lands before the buffer because        *)
(* read_size is negative, leaves the process in an undefined state.        *)
(***************************************************************************)
HasData(t) == IsOpen(th[t].sock) /\ in[fds[th[t].sock]] # <<>>
NextIn(t) == Head(in[fds[th[t].sock]])

ReadArrives(t, kind) ==
    /\ HasData(t) /\ ~th[t].behind /\ NextIn(t)[1] = kind
    /\ in' = [in EXCEPT ![fds[th[t].sock]] = Tail(@)]
    /\ UNCHANGED <<proc, fds, link, out>>

ReadCorrupts(t, kind) ==
    /\ HasData(t) /\ (th[t].behind \/ NextIn(t)[1] # kind)
    /\ Crash("wild")

ReadEof(t, back) ==
    /\ LinkOf(th[t].sock) = "fin" /\ ~HasData(t)
    /\ CallDisconnected(t, th[t].sock, back, FALSE)
    /\ UNCHANGED <<proc, mutx, tableVars, accepted, netVars, clientVars, bcast>>

ReadFails(t) ==
    /\ LinkOf(th[t].sock) \in {"rst", "closed"} /\ ~HasData(t)
    /\ CallDisconnected(t, th[t].sock, th[t].pc, TRUE)
    /\ UNCHANGED <<proc, mutx, tableVars, accepted, netVars, clientVars, bcast>>

\* What a read may do besides delivering what was asked for.
ReadGoesWrong(t, kind, back) ==
    ReadCorrupts(t, kind) \/ ReadEof(t, back) \/ ReadFails(t)

-----------------------------------------------------------------------------
(* main                                                                    *)

LowestFree == CHOOSE f \in Fds : fds[f] = NoConn /\ \A g \in Fds : fds[g] = NoConn => f <= g

MainAccept(c) ==
    /\ At(Main, "accept")
    /\ link[c] = "out"
    /\ PromptStart => \A t \in Conns : th[t].pc # "begin"
    /\ fds' = [fds EXCEPT ![LowestFree] = c]
    /\ link' = [link EXCEPT ![c] = "up"]
    /\ accepted' = c
    /\ th' = [th EXCEPT ![Main].pc = "hello", ![Main].sock = LowestFree]
    /\ UNCHANGED <<proc, mutx, tableVars, in, out, clientVars, bcast>>

\* The result of accept is not tested.
MainAcceptFails ==
    /\ AcceptMayFail
    /\ At(Main, "accept")
    /\ th' = [th EXCEPT ![Main].pc = "hello", ![Main].sock = BadFd]
    /\ UNCHANGED <<proc, mutx, tableVars, accepted, netVars, clientVars, bcast>>

\* game_start is read here to tell the client ...  The write fails only on
\* the descriptor of a failed accept: no client resets before its first byte.
MainHello ==
    /\ At(Main, "hello")
    /\ \/ /\ WriteArrives(Main, th[Main].sock, <<"hello", game_start>>)
          /\ th' = [th EXCEPT ![Main].pc = "check", ![Main].behind = FALSE]
          /\ UNCHANGED <<mutx, tableVars, accepted, clientVars, bcast>>
       \/ WriteFails(Main, th[Main].sock)

\* Faults: nobody is refused; usr_cnt is asked instead of game_start.
Refuses_Never == FALSE
Refuses_Full == usr_cnt >= MaxUser

Refuses == game_start = 1

\* ... and again to decide.
MainCheck ==
    /\ At(Main, "check")
    /\ IF Refuses
       THEN /\ fds' = [fds EXCEPT ![th[Main].sock] = NoConn]
            /\ Goto(Main, "accept")
       ELSE Goto(Main, "add") /\ UNCHANGED fds
    /\ UNCHANGED <<proc, mutx, tableVars, accepted, link, in, out, clientVars, bcast>>

MainAdd ==
    /\ At(Main, "add")
    /\ mutx = None
    /\ IF clnt_cnt \in Slots
       THEN /\ clnt_socks' = [clnt_socks EXCEPT ![clnt_cnt] = th[Main].sock]
            /\ clnt_cnt' = clnt_cnt + 1
            /\ Goto(Main, "spawn")
            /\ UNCHANGED <<proc, mutx, usr_cnt, game_start, user_name, accepted,
                           netVars, clientVars, bcast>>
       ELSE Crash("wild")

\* The thread receives the address of main's clnt_sock.
MainSpawn ==
    /\ At(Main, "spawn")
    /\ th' = [th EXCEPT ![Main].pc = "count", ![accepted].pc = "begin"]
    /\ UNCHANGED <<proc, mutx, tableVars, accepted, netVars, clientVars, bcast>>

\* clnt_cnt is read without the mutex ...
MainCount ==
    /\ At(Main, "count")
    /\ Goto(Main, IF clnt_cnt = MaxUser THEN "start" ELSE "accept")
    /\ UNCHANGED <<proc, mutx, tableVars, accepted, netVars, clientVars, bcast>>

\* ... and may have changed when game_start is set.
MainStart ==
    /\ At(Main, "start")
    /\ game_start' = 1
    /\ Goto(Main, "accept")
    /\ UNCHANGED <<proc, mutx, clnt_cnt, clnt_socks, usr_cnt, user_name, accepted,
                   netVars, clientVars, bcast>>

-----------------------------------------------------------------------------
(* handle_clnt: the handshake                                              *)

\* The thread reads main's clnt_sock through the pointer.
Begin(t) ==
    /\ At(t, "begin")
    /\ th' = [th EXCEPT ![t].pc = "size", ![t].sock = th[Main].sock]
    /\ UNCHANGED <<proc, mutx, tableVars, accepted, netVars, clientVars, bcast>>

\* A failed read leaves name_size 0 and the thread goes on all the same.
ReadSize(t) ==
    /\ At(t, "size")
    /\ \/ /\ ReadArrives(t, "size")
          /\ th' = [th EXCEPT ![t].pc = "lock", ![t].name_size = 1]
          /\ UNCHANGED <<mutx, tableVars, accepted, clientVars, bcast>>
       \/ ReadGoesWrong(t, "size", "lock")

SlotsOf(f) == {s \in Slots : s < clnt_cnt /\ clnt_socks[s] = f}
FirstSlot(f) == CHOOSE s \in SlotsOf(f) : \A r \in SlotsOf(f) : s <= r

\* Lock and look for the own slot; the mutex stays locked while the thread
\* waits for the client's name.
LockTable(t) ==
    /\ At(t, "lock")
    /\ mutx = None
    /\ mutx' = t
    /\ IF SlotsOf(th[t].sock) = {}
       THEN Goto(t, "unlock")
       ELSE th' = [th EXCEPT ![t].pc = "name", ![t].i = FirstSlot(th[t].sock)]
    /\ UNCHANGED <<proc, tableVars, accepted, netVars, clientVars, bcast>>

ReadName(t) ==
    /\ At(t, "name")
    /\ \/ /\ th[t].name_size = 0
          /\ Goto(t, "id")
          /\ UNCHANGED <<proc, mutx, tableVars, accepted, netVars, clientVars, bcast>>
       \/ /\ th[t].name_size # 0
          /\ ReadArrives(t, "name")
          /\ user_name' = [user_name EXCEPT ![th[t].i] = NextIn(t)[2]]
          /\ Goto(t, "id")
          /\ UNCHANGED <<mutx, clnt_cnt, clnt_socks, usr_cnt, game_start, accepted,
                         clientVars, bcast>>
       \/ th[t].name_size # 0 /\ ReadGoesWrong(t, "name", "id")

\* The id is the index of the slot.
IdOf(t) == th[t].i

WriteId(t) ==
    /\ At(t, "id")
    /\ \/ /\ WriteArrives(t, th[t].sock, <<"id", IdOf(t)>>)
          /\ usr_cnt' = usr_cnt + 1
          /\ th' = [th EXCEPT ![t].pc = "unlock", ![t].behind = FALSE]
          /\ UNCHANGED <<mutx, clnt_cnt, clnt_socks, game_start, user_name, accepted,
                         clientVars, bcast>>
       \/ WriteFailsOrKills(t, th[t].sock)

UnlockTable(t) ==
    /\ At(t, "unlock")
    /\ mutx' = None
    /\ Goto(t, "json")
    /\ UNCHANGED <<proc, tableVars, accepted, netVars, clientVars, bcast>>

WriteJson(t) ==
    /\ At(t, "json")
    /\ \/ /\ WriteArrives(t, th[t].sock, <<"json", 0>>)
          /\ th' = [th EXCEPT ![t].pc = "wait", ![t].behind = FALSE]
          /\ UNCHANGED <<mutx, tableVars, accepted, clientVars, bcast>>
       \/ WriteFailsOrKills(t, th[t].sock)

\* Faults: the comparison is off by one, either way.
AllIn_Early == usr_cnt >= MaxUser - 1
AllIn_Late == usr_cnt > MaxUser

AllIn == usr_cnt >= MaxUser

\* The busy wait on usr_cnt, read without the mutex.
Barrier(t) ==
    /\ At(t, "wait")
    /\ AllIn
    /\ th' = [th EXCEPT ![t].pc = "names", ![t].i = 0]
    /\ UNCHANGED <<proc, mutx, tableVars, accepted, netVars, clientVars, bcast>>

\* One name per step, without the mutex.
WriteNames(t) ==
    /\ At(t, "names")
    /\ \/ /\ th[t].i < MaxUser
          /\ WriteArrives(t, th[t].sock, <<"name", user_name[th[t].i]>>)
          /\ th' = [th EXCEPT ![t].i = @ + 1, ![t].behind = FALSE]
          /\ UNCHANGED <<mutx, tableVars, accepted, clientVars, bcast>>
       \/ th[t].i < MaxUser /\ WriteFailsOrKills(t, th[t].sock)
       \/ /\ th[t].i = MaxUser
          /\ Goto(t, "event")
          /\ UNCHANGED <<proc, mutx, tableVars, accepted, netVars, clientVars, bcast>>

-----------------------------------------------------------------------------
(* handle_clnt: the echo loop and send_msg_all                             *)

\* An event is <<client, number>>; number 0 is the client's end event.
IsEnd(e) == e[2] = 0

ReadEvent(t) ==
    /\ At(t, "event")
    /\ \/ /\ ReadArrives(t, "event")
          /\ th' = [th EXCEPT ![t].pc = "bcast", ![t].event = NextIn(t)[2]]
          /\ UNCHANGED <<mutx, tableVars, accepted, clientVars, bcast>>
       \/ ReadGoesWrong(t, "event", "done")

\* Fault: the broadcast does not take the mutex.
LockBroadcast_NoLock(t) ==
    /\ At(t, "bcast")
    /\ bcast' = Append(bcast, th[t].event)
    /\ th' = [th EXCEPT ![t].pc = "send", ![t].i = 0]
    /\ UNCHANGED <<proc, mutx, tableVars, accepted, netVars, clientVars>>

LockBroadcast(t) ==
    /\ At(t, "bcast")
    /\ mutx = None
    /\ mutx' = t
    /\ bcast' = Append(bcast, th[t].event)
    /\ th' = [th EXCEPT ![t].pc = "send", ![t].i = 0]
    /\ UNCHANGED <<proc, tableVars, accepted, netVars, clientVars>>

\* One client per step.  A failing write calls disconnected with the mutex
\* held: the thread then waits for itself.
SendOne(t) ==
    /\ At(t, "send")
    /\ th[t].i < clnt_cnt
    /\ \/ /\ WriteArrives(t, clnt_socks[th[t].i], <<"event", th[t].event>>)
          /\ th' = [th EXCEPT ![t].i = @ + 1, ![t].behind = FALSE]
          /\ UNCHANGED <<mutx, tableVars, accepted, clientVars, bcast>>
       \/ WriteFailsOrKills(t, clnt_socks[th[t].i])

\* Fault: the mutex is kept after the loop.
SendDone_Keeps(t) ==
    /\ At(t, "send")
    /\ th[t].i >= clnt_cnt
    /\ Goto(t, "event")
    /\ UNCHANGED <<proc, mutx, tableVars, accepted, netVars, clientVars, bcast>>

\* Unlock; the end event then makes the thread disconnect its own client.
SendDone(t) ==
    /\ At(t, "send")
    /\ th[t].i >= clnt_cnt
    /\ mutx' = None
    /\ IF IsEnd(th[t].event)
       THEN CallDisconnected(t, th[t].sock, "event", FALSE)
       ELSE Goto(t, "event")
    /\ UNCHANGED <<proc, tableVars, accepted, netVars, clientVars, bcast>>

-----------------------------------------------------------------------------
(* disconnected, called by any thread                                      *)

\* Fault: the table is changed without the mutex.
DisconnectRemove_NoLock(t) ==
    /\ At(t, "disc")
    /\ clnt_cnt > MinCnt
    /\ mutx' = t
    /\ clnt_cnt' = clnt_cnt - 1
    /\ Goto(t, "reset")
    /\ UNCHANGED <<proc, clnt_socks, usr_cnt, game_start, user_name, accepted,
                   netVars, clientVars, bcast>>

\* Fault: the gap in the table is not closed.
DisconnectRemove_LeavesGap(t) ==
    /\ At(t, "disc")
    /\ mutx = None
    /\ clnt_cnt > MinCnt
    /\ mutx' = t
    /\ clnt_cnt' = clnt_cnt - 1
    /\ Goto(t, "reset")
    /\ UNCHANGED <<proc, clnt_socks, usr_cnt, game_start, user_name, accepted,
                   netVars, clientVars, bcast>>

\* Lock, close the gap in the table, and count one client less whether or
\* not the descriptor was found.
DisconnectRemove(t) ==
    LET f == th[t].arg IN
    /\ At(t, "disc")
    /\ mutx = None
    /\ clnt_cnt > MinCnt
    /\ mutx' = t
    /\ clnt_socks' =
          IF SlotsOf(f) = {} THEN clnt_socks
          ELSE [s \in Slots |-> IF FirstSlot(f) <= s /\ s < clnt_cnt - 1
                                THEN clnt_socks[s + 1] ELSE clnt_socks[s]]
    /\ clnt_cnt' = clnt_cnt - 1
    /\ Goto(t, "reset")
    /\ UNCHANGED <<proc, usr_cnt, game_start, user_name, accepted, netVars,
                   clientVars, bcast>>

\* Fault: every disconnected client is taken off usr_cnt.
DisconnectReset_Counts(t) ==
    /\ At(t, "reset")
    /\ game_start' = IF clnt_cnt = 0 THEN 0 ELSE game_start
    /\ usr_cnt' = usr_cnt - 1
    /\ mutx' = None
    /\ Goto(t, "close")
    /\ UNCHANGED <<proc, clnt_cnt, clnt_socks, user_name, accepted, netVars,
                   clientVars, bcast>>

\* The last client out makes room for a new game; unlock.
DisconnectReset(t) ==
    /\ At(t, "reset")
    /\ IF clnt_cnt = 0 THEN game_start' = 0 /\ usr_cnt' = 0
                       ELSE UNCHANGED <<game_start, usr_cnt>>
    /\ mutx' = None
    /\ Goto(t, "close")
    /\ UNCHANGED <<proc, clnt_cnt, clnt_socks, user_name, accepted, netVars,
                   clientVars, bcast>>

\* close comes after the unlock and acts on whatever the number means now.
DisconnectClose(t) ==
    /\ At(t, "close")
    /\ fds' = [f \in Fds |-> IF f = th[t].arg THEN NoConn ELSE fds[f]]
    /\ Goto(t, th[t].ret)
    /\ UNCHANGED <<proc, mutx, tableVars, accepted, link, in, out, clientVars, bcast>>

-----------------------------------------------------------------------------
(* The clients, as far as the server sees them.                            *)

Kinds(c) == [k \in DOMAIN out[c] |-> out[c][k][1]]

Admitted(c) == Len(out[c]) > 0 /\ out[c][1] = <<"hello", 0>>

\* What a client must read before it enters its main loop.
Handshake == <<"hello", "id", "json">> \o [k \in 1 .. MaxUser |-> "name"]

Playing(c) ==
    /\ Len(out[c]) >= Len(Handshake)
    /\ SubSeq(Kinds(c), 1, Len(Handshake)) = Handshake

Reachable(c) == link[c] = "up" /\ \E f \in Fds : fds[f] = c

Send(c, msg) ==
    /\ proc = "up" /\ Reachable(c)
    /\ in' = [in EXCEPT ![c] = Append(@, msg)]
    /\ UNCHANGED <<proc, mutx, tableVars, th, accepted, fds, link, out, bcast>>

\* The length of the name, then the name, are two writes of the client.
ClientSize(c) ==
    /\ csent[c] = 0 /\ Admitted(c)
    /\ Send(c, <<"size", c>>)
    /\ csent' = [csent EXCEPT ![c] = 1]
    /\ UNCHANGED ended

ClientName(c) ==
    /\ csent[c] = 1
    /\ Send(c, <<"name", c>>)
    /\ csent' = [csent EXCEPT ![c] = 2]
    /\ UNCHANGED ended

\* on_key_press: a command of this client.
ClientCommand(c) ==
    /\ csent[c] \in 2 .. 1 + MaxCmds /\ Playing(c)
    /\ Send(c, <<"event", <<c, csent[c] - 1>>>>)
    /\ csent' = [csent EXCEPT ![c] = @ + 1]
    /\ UNCHANGED ended

\* handle_timeout: the alarm goes off once.
ClientEnd(c) ==
    /\ c \in Enders /\ ~ended[c] /\ csent[c] >= 2 /\ Playing(c)
    /\ Send(c, <<"event", <<c, 0>>>>)
    /\ ended' = [ended EXCEPT ![c] = TRUE]
    /\ UNCHANGED csent

\* The client that is told that a game is running closes and exits; a
\* leaver may do so at any time.  Closing resets the connection if something
\* that was sent has not been read.
ClientLeave(c) ==
    /\ proc = "up" /\ link[c] = "up"
    /\ \/ Len(out[c]) > 0 /\ out[c][1] = <<"hello", 1>> /\ link' = [link EXCEPT ![c] = "fin"]
       \/ c \in Leavers /\ link' = [link EXCEPT ![c] = "fin"]
       \/ c \in Leavers /\ out[c] # <<>> /\ link' = [link EXCEPT ![c] = "rst"]
    /\ UNCHANGED <<proc, mutx, tableVars, th, accepted, fds, in, out, clientVars, bcast>>

-----------------------------------------------------------------------------
MainStep ==
    \/ MainHello \/ MainCheck \/ MainAdd \/ MainSpawn \/ MainCount \/ MainStart

ThreadStep(t) ==
    \/ Begin(t) \/ ReadSize(t) \/ LockTable(t) \/ ReadName(t) \/ WriteId(t)
    \/ UnlockTable(t) \/ WriteJson(t) \/ Barrier(t) \/ WriteNames(t)
    \/ ReadEvent(t) \/ LockBroadcast(t) \/ SendOne(t) \/ SendDone(t)

DisconnectedStep(t) ==
    DisconnectRemove(t) \/ DisconnectReset(t) \/ DisconnectClose(t)

ClientStep(c) ==
    \/ ClientSize(c) \/ ClientName(c) \/ ClientCommand(c) \/ ClientEnd(c)
    \/ ClientLeave(c)

Next ==
    \/ \E c \in Conns : MainAccept(c) \/ ThreadStep(c) \/ ClientStep(c)
    \/ MainAcceptFails
    \/ MainStep
    \/ \E t \in Threads : DisconnectedStep(t)

Spec == Init /\ [][Next]_vars

(***************************************************************************)
(* The kernel runs every thread, and a thread that keeps asking for the    *)
(* mutex gets it: it is held for a few calls at a time.  Nothing is        *)
(* assumed of the clients or of the arrival of connections.                *)
(***************************************************************************)
Fairness ==
    /\ WF_vars(MainStep) /\ SF_vars(MainAdd)
    /\ \A c \in Conns :
           /\ WF_vars(ThreadStep(c))
           /\ SF_vars(LockTable(c)) /\ SF_vars(LockBroadcast(c))
    /\ \A t \in Threads :
           WF_vars(DisconnectedStep(t)) /\ SF_vars(DisconnectRemove(t))

FairSpec == Spec /\ Fairness

-----------------------------------------------------------------------------
Places ==
    {"none", "begin", "size", "lock", "name", "id", "unlock", "json", "wait", "names",
     "event", "bcast", "send", "done", "disc", "reset", "close",
     "accept", "hello", "check", "add", "spawn", "count", "start"}

Events == Conns \X (0 .. MaxCmds)

Locals ==
    [pc : Places, sock : Fds \cup {BadFd}, name_size : {0, 1}, i : 0 .. MAX_USER,
     event : Events \cup {<<>>}, arg : Fds \cup {BadFd}, ret : Places, behind : BOOLEAN]

TypeOK ==
    /\ proc \in {"up", "killed", "wild"}
    /\ mutx \in Threads \cup {None}
    /\ clnt_cnt \in Int
    /\ clnt_socks \in [Slots -> Fds \cup {BadFd}]
    /\ usr_cnt \in Nat
    /\ game_start \in {0, 1}
    /\ user_name \in [0 .. MaxUser - 1 -> Conns \cup {NoConn}]
    /\ th \in [Threads -> Locals]
    /\ accepted \in Conns \cup {NoConn}
    /\ fds \in [Fds -> Conns \cup {NoConn}]
    /\ link \in [Conns -> {"out", "up", "fin", "rst"}]
    /\ csent \in [Conns -> 0 .. 2 + MaxCmds]
    /\ ended \in [Conns -> BOOLEAN]
    /\ bcast \in Seq(Events)

\* The client table never outgrows the game: main tests game_start without
\* the mutex, and game_start lags behind clnt_cnt, yet the test comes back to
\* main before the next accept and nobody else adds a client.
CntBounded == clnt_cnt <= MaxUser

\* The search for the own slot in handle_clnt, the name that is stored there and
\* the id that is sent belong together: although clients leave at any moment
\* and disconnected moves the others up, a thread between its search and its
\* id is still at the slot of its own descriptor.
IdIsSlot ==
    \A t \in Conns :
        th[t].pc \in {"name", "id"} =>
            th[t].i < clnt_cnt /\ clnt_socks[th[t].i] = th[t].sock

\* Only the owner of the mutex is inside a section that needs it; if the
\* server ever hangs on its own mutex, the owner is a thread that lost a
\* client during the exchange of name and id or during a broadcast.
MutexOwned ==
    \A t \in Threads :
        /\ th[t].pc \in {"name", "id", "unlock", "send", "reset"} => mutx = t
        /\ mutx = t => \/ th[t].pc \in {"name", "id", "unlock", "send", "reset"}
                       \/ th[t].pc = "disc" /\ th[t].ret \in {"name", "id", "send"}

-----------------------------------------------------------------------------
(* What a game is for its players.                                         *)

\* What the messages of one kind carry, in the order they were sent.
Carried(sent, kind) ==
    LET carried[n \in 0 .. Len(sent)] ==
            IF n = 0 THEN <<>>
            ELSE IF sent[n][1] = kind THEN Append(carried[n - 1], sent[n][2])
            ELSE carried[n - 1]
    IN  carried[Len(sent)]

SentTo(c, kind) == Carried(out[c], kind)

IdsOf(c) == {SentTo(c, "id")[k] : k \in DOMAIN SentTo(c, "id")}

\* Clients that stay get different ids, all of them users of the game file.
IdsDistinct ==
    \A c \in Conns :
        /\ IdsOf(c) \subseteq 0 .. MaxUser - 1
        /\ \A d \in Conns \ {c} : IdsOf(c) \cap IdsOf(d) = {}

\* handle_clnt sends the names in the order of the ids, each the name that
\* the client with that id gave: the busy wait on usr_cnt is what keeps a
\* thread from sending the table before it is complete.
NamesAgree ==
    \A c \in Conns : \A k \in DOMAIN SentTo(c, "name") :
        LET owner == SentTo(c, "name")[k] IN
        owner \in Conns /\ k - 1 \in IdsOf(owner)

\* The exchange of handle_clnt identifies the players: each id has one owner,
\* and every player is told whose it is.
PlayersKnown == IdsDistinct /\ NamesAgree

\* main reads game_start twice, and disconnected may reset it in between: a
\* client that main turns away has been told so, and nothing else; none that
\* was told that it may play loses its place to others who come or go.
RefusedWereTold ==
    [][At(Main, "check") /\ th'[Main].pc = "accept"
           => SentTo(accepted, "hello") = <<1>>]_vars

EventsTo(c) == SentTo(c, "event")

\* send_msg_all: every player sees one and the same sequence of events, and
\* nobody is more than one event behind.
SameOrder ==
    \A c \in Conns :
        LET n == Len(EventsTo(c)) IN
        /\ n <= Len(bcast) /\ EventsTo(c) = SubSeq(bcast, 1, n)
        /\ IdsOf(c) # {} => n >= Len(bcast) - 1

\* The events s come one after another in the common sequence b, perhaps with
\* others between them.
Follows(s, b) ==
    \E at \in [DOMAIN s -> DOMAIN b] :
        \A j, k \in DOMAIN s : s[k] = b[at[k]] /\ (j <= k => at[j] <= at[k])

\* Whoever comes and goes, resets its connection or hangs the server: no
\* client is sent an event that is not in the common sequence, or one after
\* a later one.
NeverOvertaken == \A c \in Conns : Follows(EventsTo(c), bcast)

\* Nobody's alarm has gone off, and every client that has left did so in good
\* order: playing, with an orderly close, or before it had a thread.  A
\* client that goes otherwise leaves a thread behind that calls disconnected
\* again and again, for a descriptor that by then may be somebody else's.
Undisturbed ==
    \A c \in Conns :
        /\ ~ended[c]
        /\ \/ link[c] \in {"out", "up"}
           \/ link[c] = "fin" /\ (Playing(c) \/ th[c].pc = "none")

\* What c was sent are the last events of the first m of the common sequence.
UpTo(c, m) ==
    LET n == Len(EventsTo(c)) IN n <= m /\ EventsTo(c) = SubSeq(bcast, m - n + 1, m)

\* The clients that have their id and have not left.
There == {c \in Conns : link[c] = "up" /\ IdsOf(c) # {}}

\* A client is sent an unbroken stretch of the common sequence, and while it
\* is there it is not more than one event behind.
NothingSkipped ==
    \A c \in Conns : \E m \in 0 .. Len(bcast) :
        UpTo(c, m) /\ (c \in There => m >= Len(bcast) - 1)

\* When the loop of send_msg_all is over, everybody who is there has the event.
EverybodyReached ==
    \A t \in Conns : th[t].pc = "send" /\ th[t].i >= clnt_cnt =>
        \A c \in There :
            /\ EventsTo(c) # <<>>
            /\ EventsTo(c)[Len(EventsTo(c))] = th[t].event

\* When others only leave in good order, closing the gaps in the table and
\* using descriptors again passes nobody over.
NothingMissed == Undisturbed => NothingSkipped /\ EverybodyReached

\* What send_msg_all promises while clients come and go.
UnbrokenOrder == NeverOvertaken /\ NothingMissed

\* When as many clients as the game has users have given their names,
\* each of them is sent all the names.  (What is true once stays true.)
Named == {c \in Conns : csent[c] >= 2}

NamesReachAll ==
    []<>(Cardinality(Named) = MaxUser
            => \A c \in Named : Len(SentTo(c, "name")) = MaxUser)

\* Every command a client sends comes back to every player.
CommandsReachAll ==
    []<>\A c \in Conns, k \in 1 .. MaxCmds : csent[c] >= 2 + k =>
            \A d \in Named : \E n \in DOMAIN out[d] : out[d][n] = <<"event", <<c, k>>>>

-----------------------------------------------------------------------------
(* What the comments of the source promise.                                *)

\* A client that has its id and has not left, and that no call of
\* disconnected is taking out.
Leaving(f) ==
    \E t \in Threads : th[t].pc \in {"disc", "reset", "close"} /\ th[t].arg = f

Connected ==
    {c \in Conns : /\ link[c] = "up" /\ IdsOf(c) # {}
                   /\ \E f \in Fds : fds[f] = c /\ ~Leaving(f)}

\* "send msg to all connected users" (send_msg_all): when the loop is over
\* every client that is still connected has got the event.
SentToAllConnected ==
    [][\A t \in Conns :
          At(t, "send") /\ mutx = t /\ mutx' = None
              => \A c \in Connected : \E n \in DOMAIN out[c] :
                     out[c][n] = <<"event", th[t].event>>]_vars

\* "handle one client per one thread" (handle_clnt): two threads never serve
\* the same connection.
Serving == {t \in Conns : th[t].pc \notin {"none", "begin", "done"}}

OneClientPerThread ==
    \A s, t \in Serving : IsOpen(th[s].sock) /\ th[s].sock = th[t].sock => s = t

\* "wait untill all user is connected" (handle_clnt): when usr_cnt lets the
\* threads out of the busy wait, the table holds as many clients as the game
\* has users.
WaitsForAll == [][usr_cnt < MaxUser /\ usr_cnt' >= MaxUser => clnt_cnt = MaxUser]_vars

\* "receive all player's name size, name" (client main): behind the game file
\* a client is sent all the names, and nothing between or before them.
NamesUninterrupted ==
    \A c \in Conns : \A j, k \in DOMAIN out[c] :
        Admitted(c) /\ Kinds(c)[j] = "json" /\ k \in j + 1 .. j + MaxUser
            => Kinds(c)[k] = "name"
=============================================================================
