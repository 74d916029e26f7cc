----------------------------- MODULE Connection -----------------------------
(***************************************************************************)
(* One client's connection, byte by byte: what PushServer takes for one    *)
(* message and EventQueue for one event goes through the loops of          *)
(* write_byte and read_byte on the server and of write_bytes and           *)
(* read_bytes in the client, each turn of which moves as many bytes as it  *)
(* likes.  The client exchanges names with the server, and then read_msg   *)
(* and the timer run.  The names of the other users are in the server's    *)
(* memory already; the server may go away at any moment.                   *)
(***************************************************************************)
EXTENDS EventQueue, SequencesExt

CONSTANTS
    Users,      \* 0 .. max_user - 1
    Me,         \* the client's slot
    IntSize,    \* sizeof(int)
    NAME_SIZE,
    UserSize,   \* sizeof(struct user): the name, the score, two locations
    UserMemory, \* user -> its struct user as parseJson leaves it
    Bytes,      \* the values of a char
    NUL,
    Names,      \* the names that players type
    Heap,       \* what the memory for a name may hold, and what lies behind it
    JsonText,   \* json_serialize
    MaxOnWire   \* bound: bytes in a socket

\* A name is what strlen measures: there is no NUL in it.  The score, behind
\* the name, is 0.
ASSUME ConnectionAssumption ==
    /\ IsFiniteSet(Users) /\ Users = 0 .. Cardinality(Users) - 1
    /\ Me \in Users
    /\ IntSize \in Nat \ {0} /\ NAME_SIZE \in Nat
    /\ Names \subseteq Seq(Bytes \ {NUL}) /\ Heap \subseteq Seq(Bytes)
    /\ JsonText \in Seq(Bytes)
    /\ UserSize \in Nat /\ NAME_SIZE + IntSize <= UserSize
    /\ UserMemory \in [Users -> Seq(Bytes)]
    /\ \A u \in Users :
           /\ Len(UserMemory[u]) = UserSize
           /\ \A k \in NAME_SIZE + 1 .. NAME_SIZE + IntSize : UserMemory[u][k] = NUL
    /\ \A n \in Names : Len(n) \in 1 .. NAME_SIZE
    /\ \A m \in Heap : Len(m) > NAME_SIZE /\ m[Len(m)] = NUL

VARIABLES
    given,      \* user -> the name its player has typed
    before,     \* history: the memory for a name before one was stored
    user_name,  \* user -> the server's memory for its name
    users,      \* user -> the memory of Model.users[user] of the client
    server,     \* handle_clnt: the message it is at, its bytes so far, the size read
    main,       \* the client's main, later read_msg: likewise
    up, down,   \* the bytes on their way
    open,       \* the server is there
    sent        \* history: the events written

wireVars == <<given, before, user_name, users, server, main, up, down, open, sent>>
connectionVars == <<vars, wireVars>>

-----------------------------------------------------------------------------
(* The messages, in the order in which both sides take them.               *)
STARTED == 1
SIZE == 2
NAME == 3
ID == 4
JSON_SIZE == 5
JSON == 6
EVENTS == 7 + 2 * Cardinality(Users)

\* The client's main has returned; it has written behind a struct user and
\* nothing is said of it any more.
GONE == EVENTS + 1
WILD == EVENTS + 2

IsLength(step) == step > JSON /\ step % 2 = 1
IsName(step) == step > JSON /\ step % 2 = 0
UserAt(step) == (step - 7) \div 2

IntBytes(v) == [k \in 1 .. IntSize |-> <<v, k>>]
ValueOf(bytes) ==
    LET v == Head(bytes)[1] IN IF bytes = IntBytes(v) THEN v ELSE None

\* What strlen and a name's reader see of a memory.
CString(memory) == SubSeq(memory, 1, SelectInSeq(memory, LAMBDA byte : byte = NUL) - 1)

Stored(memory, at, bytes) ==
    [k \in DOMAIN memory |->
        IF k \in at + 1 .. at + Len(bytes) THEN bytes[k - at] ELSE memory[k]]

Message(step) ==
    CASE step = STARTED -> IntBytes(0)
      [] step = SIZE -> IntBytes(Len(given[Me]))
      [] step = NAME -> given[Me]
      [] step = ID -> IntBytes(Me)
      [] step = JSON_SIZE -> IntBytes(Len(JsonText))
      [] step = JSON -> JsonText
      [] IsLength(step) -> IntBytes(Len(CString(user_name[UserAt(step)])))
      [] IsName(step) -> CString(user_name[UserAt(step)])

\* How many bytes a reader waits for, who has read the size last.
Length(step, size) == IF step \in {NAME, JSON} \/ IsName(step) THEN size ELSE IntSize

ConnectionInit ==
    /\ Init
    /\ given \in [Users -> Names]
    /\ before \in Heap
    /\ user_name = [u \in Users |-> IF u = Me THEN before ELSE Stored(before, 0, given[u])]
    /\ users = UserMemory
    /\ server = [at |-> STARTED, buf |-> <<>>, size |-> 0]
    /\ main = [at |-> STARTED, buf |-> <<>>, size |-> 0]
    /\ up = <<>> /\ down = <<>>
    /\ open = TRUE
    /\ sent = <<>>

-----------------------------------------------------------------------------
(* The loops: each turn moves between one byte and all that is missing.    *)

\* The next bytes of a message, as many as the wire takes.
Chunks(side, message, wire) ==
    {SubSeq(message, Len(side.buf) + 1, Len(side.buf) + n) :
        n \in {k \in 1 .. Len(message) - Len(side.buf) : Len(wire) + k <= MaxOnWire}}

\* The next bytes from a wire, as many as the reader still wants.
Arrived(side, wire) ==
    {SubSeq(wire, 1, n) :
        n \in {k \in 1 .. Len(wire) : Len(side.buf) + k <= Length(side.at, side.size)}}

\* The side after it has moved bytes: at the next message when it has all,
\* len of them, and with their value if they are an int.
After(side, bytes, len) ==
    LET buf == side.buf \o bytes IN
    IF Len(buf) < len THEN [side EXCEPT !.buf = buf]
    ELSE [at |-> side.at + 1, buf |-> <<>>,
          size |-> IF side.at \in {SIZE, JSON_SIZE} \/ IsLength(side.at) THEN ValueOf(buf)
                   ELSE side.size]

ServerWrites ==
    /\ open /\ server.at < EVENTS /\ server.at \notin {SIZE, NAME}
    /\ \E bytes \in Chunks(server, Message(server.at), down) :
           /\ down' = down \o bytes
           /\ server' = After(server, bytes, Len(Message(server.at)))
    /\ UNCHANGED <<vars, given, before, user_name, users, main, up, open, sent>>

\* A name goes to its memory as it arrives; nothing is put behind it.
ServerReads ==
    /\ open /\ server.at \in {SIZE, NAME}
    /\ \E bytes \in Arrived(server, up) :
           /\ up' = SubSeq(up, Len(bytes) + 1, Len(up))
           /\ server' = After(server, bytes, Length(server.at, server.size))
           /\ user_name' = IF server.at = SIZE THEN user_name
                           ELSE [user_name EXCEPT ![Me] = Stored(@, Len(server.buf), bytes)]
    /\ UNCHANGED <<vars, given, before, users, main, down, open, sent>>

\* send_msg_all, whichever thread calls it.
ServerBroadcasts ==
    /\ open /\ server.at = EVENTS
    /\ Len(sent) < MaxReads
    /\ \E e \in IF server.buf = <<>> THEN Event ELSE {Head(server.buf)[1]} :
       \E bytes \in Chunks(server, IntBytes(e), down) :
           LET buf == server.buf \o bytes IN
           /\ down' = down \o bytes
           /\ server' = [server EXCEPT !.buf = IF Len(buf) = IntSize THEN <<>> ELSE buf]
           /\ sent' = IF Len(buf) = IntSize THEN Append(sent, e) ELSE sent
    /\ UNCHANGED <<vars, given, before, user_name, users, main, up, open>>

\* The connection ends, perhaps in the middle of a message.
ServerGoes ==
    /\ open
    /\ open' = FALSE
    /\ UNCHANGED <<vars, given, before, user_name, users, server, main, up, down, sent>>

ClientWrites ==
    /\ open /\ main.at \in {SIZE, NAME}
    /\ \E bytes \in Chunks(main, Message(main.at), up) :
           /\ up' = up \o bytes
           /\ main' = After(main, bytes, Len(Message(main.at)))
    /\ UNCHANGED <<vars, given, before, user_name, users, server, down, open, sent>>

\* Fault: nothing is put behind a name.
Written_Unterminated(bytes) == bytes

\* What arrives of a name, and the NUL that main puts behind all of it.
Written(bytes) ==
    IF Len(main.buf \o bytes) = main.size THEN Append(bytes, NUL) ELSE bytes

Fits(bytes) == Len(main.buf \o Written(bytes)) <= UserSize

\* name_size bytes go to name[NAME_SIZE], whatever the size: a longer name, and
\* the NUL behind one of NAME_SIZE bytes, go to the score and the locations.
ClientReads ==
    /\ main.at < EVENTS /\ main.at \notin {SIZE, NAME}
    /\ \E bytes \in Arrived(main, down) :
           /\ IsName(main.at) => Fits(bytes)
           /\ down' = SubSeq(down, Len(bytes) + 1, Len(down))
           /\ main' = After(main, bytes, Length(main.at, main.size))
           /\ users' = IF IsName(main.at)
                       THEN [users EXCEPT ![UserAt(main.at)] =
                                 Stored(@, Len(main.buf), Written(bytes))]
                       ELSE users
    /\ UNCHANGED <<vars, given, before, user_name, server, up, open, sent>>

\* A name that is longer than what is left of the struct goes to the next
\* user's, or to memory that is not the array's.
ClientOverruns ==
    /\ main.at < EVENTS /\ IsName(main.at)
    /\ \E bytes \in Arrived(main, down) : ~Fits(bytes)
    /\ main' = [main EXCEPT !.at = WILD]
    /\ UNCHANGED <<vars, given, before, user_name, users, server, up, down, open, sent>>

\* Fault: a short read is taken for the whole event.
ReaderReads_Short ==
    /\ main.at = EVENTS /\ rpc = "read"
    /\ \E bytes \in Arrived(main, down) :
           /\ down' = SubSeq(down, Len(bytes) + 1, Len(down))
           /\ ReadEvent(ValueOf(bytes))
    /\ UNCHANGED <<given, before, user_name, users, server, main, up, open, sent>>

\* read_msg: the bytes of an event, and the event when it is whole.
ReaderReads ==
    /\ main.at = EVENTS /\ rpc = "read"
    /\ \E bytes \in Arrived(main, down) :
           LET buf == main.buf \o bytes IN
           /\ down' = SubSeq(down, Len(bytes) + 1, Len(down))
           /\ IF Len(buf) < IntSize
              THEN main' = [main EXCEPT !.buf = buf] /\ UNCHANGED vars
              ELSE main' = [main EXCEPT !.buf = <<>>] /\ ReadEvent(ValueOf(buf))
    /\ UNCHANGED <<given, before, user_name, users, server, up, open, sent>>

\* read_bytes finds the end of the file: main returns 1, or read_msg ends.
ClientLearns ==
    /\ ~open
    /\ \/ /\ main.at < EVENTS
          /\ main.at \in {SIZE, NAME} \/ down = <<>>
          /\ main' = [main EXCEPT !.at = GONE]
          /\ UNCHANGED vars
       \/ /\ main.at = EVENTS /\ down = <<>>
          /\ ReadFails
          /\ UNCHANGED main
    /\ UNCHANGED <<given, before, user_name, users, server, up, down, open, sent>>

RingStep == main.at = EVENTS /\ (SpuriousWakeup \/ Reader \/ Timer) /\ UNCHANGED wireVars

Server == ServerWrites \/ ServerReads \/ (server.buf # <<>> /\ ServerBroadcasts)
Client == ClientWrites \/ ClientReads \/ ClientOverruns \/ ReaderReads \/ ClientLearns

ConnectionNext == Server \/ ServerBroadcasts \/ ServerGoes \/ Client \/ RingStep

ConnectionSpec == ConnectionInit /\ [][ConnectionNext]_connectionVars

(***************************************************************************)
(* The kernel runs every thread, GTK keeps calling a registered timer, and *)
(* a thread that keeps asking for the mutex gets it: the timer asks once   *)
(* every 50 ms and holds it for a few instructions.  The server's thread   *)
(* finishes what it has begun to write.  That it has an event or goes is   *)
(* not assumed, nor is a spurious wakeup.                                  *)
(***************************************************************************)
FairConnectionSpec ==
    /\ ConnectionSpec
    /\ WF_connectionVars(Server) /\ WF_connectionVars(Client)
    /\ WF_connectionVars(RingStep /\ Reader) /\ SF_connectionVars(RingStep /\ ReaderLock)
    /\ WF_connectionVars(RingStep /\ Timer) /\ SF_connectionVars(RingStep /\ TimerLock)

-----------------------------------------------------------------------------
\* "guarantee that all the byte is sent", "guarantee that all byte is accepted"
\* (write_byte, read_byte): however the bytes are cut, and wherever the
\* connection ends, what read_msg puts in the ring are the first events that
\* the server has written, whole and in their order.
WholeEvents ==
    IsPrefix(IF rpc \in {"lock", "test", "waiting", "woken"} THEN Append(received, read_cmd)
             ELSE received,
             sent)

\* What the labels show of a user's name, and the data behind its array.
NameOf(u) == CString(users[u])
DataOf(memory) == SubSeq(memory, NAME_SIZE + 1, UserSize)

\* main stores each name with read_bytes and puts a NUL behind it.  When the
\* game starts a name is as it was typed if the server's memory had a NUL
\* behind it, even one that fills name[NAME_SIZE] and whose NUL is a byte of
\* the score; and a user whose name fits has its score and locations.
NamesShown ==
    main.at = EVENTS => \A u \in Users :
        /\ before[Len(given[u]) + 1] = NUL => NameOf(u) = given[u]
        /\ Len(CString(user_name[u])) <= NAME_SIZE => DataOf(users[u]) = DataOf(UserMemory[u])

\* "receive all player's name size, name" (main): when the game starts, the
\* client has every player's name.
NamesReceived == main.at = EVENTS => \A u \in Users : NameOf(u) = given[u]

\* Every event that the server has written whole is handled, unless the end
\* event stops the timer or a name has overrun the client's memory; it matters
\* neither that the ring fills nor that the server goes in the meantime.
EveryEventHandled ==
    \A k \in 1 .. MaxReads :
        Len(sent) >= k ~> Len(handled) >= k \/ tpc = "stopped" \/ main.at = WILD

\* When the server has gone the client finds out wherever it is, in main or in
\* read_msg, so that pthread_join returns, unless a full ring keeps read_msg
\* after the end of the game or a name has overrun its memory.
ClientFindsEnd ==
    ~open ~> main.at \in {GONE, WILD} \/ rpc = "ended" \/ tpc = "stopped"
=============================================================================
