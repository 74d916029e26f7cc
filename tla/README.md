# PushPush: models, checks and proofs

TLA+ models of PushPush, a multi-player box-pushing game in C: a server
(`src/pushpush/pushpush_server.c`), a GTK client
(`src/pushpush/pushpush_client.c`), a single-player variant
(`src/pushpush/single_play.c`), and the JSON library that they carry their game
file with (`src/cJSON.c`). Every definition is a reading of that code; line
numbers below and in `PROJECT.json` refer to those files.

## 1. The system

A game file (JSON) gives the number of users, the time limit, the board, and the
places of users, bases, items and blocks. The server loads it and waits for
clients. When `max_user` clients have joined, they play: a key press is sent
to the server as a number `4 * id + direction`, the server echoes it to all the
clients, and each client applies it to its own copy of the board. There is no
state of the game on the server. All boards agree only because every client
starts from the same file and applies the same commands in the same order. An
item pushed onto the pusher's own base leaves the board and scores. The game ends when
no item is left or when some client's alarm goes off, which sends the number
`4 * max_user`.

| component | state | operations | talks to |
|---|---|---|---|
| server `main` | `clnt_sock`, `clnt_socks`, `clnt_cnt`, `game_start` | accept, greet, refuse or add, start a thread, start the game | clients by socket; threads by shared globals and a pointer into its frame |
| server threads (`handle_clnt`) | locals; `user_name`, `usr_cnt` | read name, send id, file and names, echo commands | their client; all clients through `send_msg_all` |
| `disconnected` | `clnt_socks`, `clnt_cnt`, `usr_cnt`, `game_start` | take a client out | called from both byte loops and from the echo loop |
| byte loops (`read_byte`, `write_byte`; `read_bytes`, `write_bytes`) | counts | move n bytes | sockets |
| game file (`loadJson`, `parseJson`) | `max_user`, `json_serialize`; `Model` | read, print, send, parse | cJSON |
| cJSON items | doubly linked lists of children, names, references | create, add, insert, detach, replace, delete, find, copy, compare | an allocator that may fail |
| cJSON texts | a read position with a depth; a buffer that grows | parse, print, minify | the allocator; items |
| client handshake (`main`) | `my_id`, `Model`, names | the mirror of `handle_clnt` | server |
| client receiver (`read_msg`, a thread) | ring `event_arry`, `rear`, `front`, `mutx`, `cond` | read an event, enqueue | `handle_cmd` through the ring |
| client game loop (`handle_cmd`, a GTK timer) | the same ring; `map`, `Model`, `current_num_item`, label | dequeue, check, move, repaint, end | ring; rules |
| client alarm (`handle_timeout`, SIGALRM) | label | send the end event, show GAME OVER | server |
| rules (`check_validation`, `move`, `update_model`, `update_cell`, `score_up`) | `map`, `Model` | pure updates | |
| single player | `Model`, `map`, `end_flag`, label | a key press is checked and applied at once | rules (copied) |
| client screens | two layers of cells, labels, the buffer `msg_info` | `display_screen`, `score_up`, `gameover` | game loop; alarm |

### What is hard here

* **Threads.** The server's threads and `main` share five globals. `mutx`
  protects some accesses; `main` reads `clnt_cnt` and `game_start` without it, the
  threads read `usr_cnt` and `user_name` without it, and a new thread reads `main`'s
  local variable through a pointer.
* **Failures.** A read or a write that fails calls `disconnected`, possibly with
  the mutex held, and goes on with a negative count. `disconnected` decrements
  `clnt_cnt` whether or not it found the descriptor, and closes the descriptor
  after the unlock, when `accept` may reuse its number.
* **Ordering.** Clients agree on the board only through the order of broadcasts,
  through the ring, and through the end event.
* **Hidden objects.** The board has one value per cell. A base hides the user
  that stands on it, and validity is decided on the board.
* **Bytes.** A name is stored without a terminator and measured with `strlen`; the
  game is parsed without one. Reads and writes are short.
* **Signals.** The alarm writes the labels' buffer between any two GTK calls of the
  main thread.
* **Liveness.** A busy-wait barrier over a counter, a condition variable used by
  two threads of which only one ever waits.
* **Pointers.** A list of cJSON has a short cut from the first item to the last,
  which every change of an end must repair; every allocation may fail half way up a tree.

### What makes each component correct

* Rules: objects do not share cells except on bases; the board shows what
  validity needs; items move only by pushes; no item is lost or scored twice.
* Game loop: the item counter that ends the game is the number of items left;
  GAME OVER, once due, is what the label says.
* Ring: a bounded first-in first-out queue, closed by the end event; no lost wakeup;
  nobody waits for ever.
* Connection: whole events in order; names as typed; the end of the connection is
  noticed.
* All together: the boards of all clients are on their way to the same game, each
  board plays by the rules, and the end of the game comes to everybody.
* Screens: every cell and every label shows the game.
* cJSON: lists whole, each item in one place, nothing lost or freed twice; a copy is
  one; what is printed is what is parsed; no byte outside a text or a buffer.
* Server: the table stays within the game; one owner of the mutex; different ids;
  names that match ids; nobody turned away who was told to play; one
  order of events for everybody; handshakes and echoes that complete.

The hazards, each at its line and with the properties that guard against it, are
listed in `PROJECT.json`.

## 2. The modules

| module | models | state |
|---|---|---|
| `PushRules` | the rules, as operators on a record | none |
| `PushGame` | one client's game loop and alarm | `game` (the C globals `Model`, `map`, `current_num_item`), `info` (the label), `running` (the timer), `end_sent` (the alarm) |
| `BoundedFifo` | abstract: what the ring promises | `sent`, `got`, `open` |
| `SinglePlay` | the single player game; refines `PushGame` | `game` (with `end_flag` for the counter), `info` |
| `ClientDisplay` | extends `PushGame` by what the player sees | the two layers, the labels, `msg_info`, the calls still to make |
| `EventQueue` | the ring between `read_msg` and `handle_cmd` | the C variables, a program counter and a local per thread, two histories |
| `Connection` | extends `EventQueue` by the wire, byte by byte, from the first int to the last event | both ends' place in the exchange, the bytes under way, the server's memory for names, the client's `struct user`s |
| `PushServer` | `main`, `handle_clnt`, `send_msg_all`, `disconnected`, sockets, and clients as environment | the C globals, program counter and locals per thread, descriptors, links, messages, histories |
| `PushSystem` | clients and server in play; each client refines `PushGame` | a game per client, keys and events under way, the broadcast, the links |
| `CJsonTree` | cJSON's items and lists, next to the lists that the calls promise | `heap` (the fields of every block), `live`, `held`, `list` |
| `CJsonCopy` | `cJSON_Duplicate` and `cJSON_Compare`, on trees built with `CJsonTree` | which item is a copy of which |
| `CJsonParse`, `CJsonPrint`, `CJsonMinify` | the parser, the printer, minify, as operators on bytes | `written`: the text so far |
| `PushRules_proofs`, `PushGame_proofs`, `ClientDisplay_proofs`, `SinglePlay_proofs`, `Connection_proofs`, `PushServer_proofs`, `PushSystem_proofs`, `CJsonTree_proofs` | theorems | |
| `MCPushGame`, `MCSinglePlay`, `MCConnection`, `MCPushSystem`, `MCPushServer`, `MCJsonTree`, `MCJsonCopy`, `MCJsonText` | instances for TLC | |

Definitions whose names carry a suffix after an underscore and whose comment begins with
"Fault:" (`Move_UserFirst`, `Dequeue_NoSignal`, ...) are not part of the models.
Each is a wrong version of the definition that follows it. They are the mutants in
`PROJECT.json` that show that every property can fail.

### PushRules and PushGame

`CheckValidation`, `Move`, `UpdateModel`, `UpdateCell` and `ScoreUp` are the
functions of those names. The four directions, written out four times in C, are
one operator `Ahead`. `CellPaint` says per cell what `update_cell` leaves
there after painting users and bases in turn, then blocks, then items: the last
painter wins. Assumptions on the game file are named `SizeAssumption` (at most four
users, a square board: the client allocates rows by width and indexes them by
height), `PlaceAssumption` (everything on the board) and `LayoutAssumption` (nothing starts
inside a block, bases and items apart, at most a base under another object). They hold for
the shipped `map1.json`.

An action of `PushGame` is one call of `handle_cmd` after the dequeue (`HandleMove`,
`HandleInvalid`, `HandleEnd`) or of `handle_timeout`. Any user's command may
come at any time, which covers every order in which a server can broadcast. `alarm`
is armed once.

### ClientDisplay

A command changes the game at once (`DisplayMove`) and leaves a list of calls to
make: `sprintf` to `msg_info`, a label shown from it, the second layer drawn.
`DisplayCall` makes the next one, and `DisplayTimeout`, the signal handler, may come
before any of them. `IsFixed` decides the layer of a cell. `ScreenShowsMap` has one
exception: a base that another object hides when the window opens is on neither layer
afterwards (line 363). `ScoresShown` has one too: a score whose text the alarm
overwrites in the buffer reads GAME OVER.

### SinglePlay

`single_play.c` has copies of the rules, applied in `on_key_press`. Three things differ from the
client: `gameover` is called inside `move`, only when an item is scored; a key that is no arrow is
not ignored but means up; and the user is always the second of the file. Its thread function
`recv_msg` and its alarm are never started. The module is refined to `PushGame` with the timer
always running and no alarm. `SingleAssumption` requires a second user and at least one item:
without items the client says GAME OVER after the first move and the single player game never does.

### EventQueue

One action per access under or around the mutex: lock, test, wait, enqueue and unlock on
the reader's side, lock, empty return, dequeue with its signal and unlock on the timer's. A
wait is two actions, so that a signal or a spurious wakeup can come in between, and
the woken reader must get the mutex again and test again. The only waiter is
the reader, so the reader's own signal after an enqueue has no effect. When the
end event comes out the timer is dropped; the reader may go on filling the
ring and then sleeps for ever, which `BoundedFifo` permits. The proofs are about this
module; TLC runs it as a part of `Connection`.

### Connection

`server` and `main` are the places of `handle_clnt` and of the client's `main` (later
`read_msg`) in the one order of messages: flag, name size, name, id, size and text of the
game, size and text of each name, events. Each turn of a loop moves one byte or more
(`Chunks`, `Arrived`); `After` goes to the next message when the bytes are complete. The
name of this client goes to memory that holds what was there before (`Heap`), and its
length when it is sent on is that up to the next NUL (`CString`); `Bytes` are the values of a
char. In the client a name goes to `users`, the memory of `Model.users` as `parseJson` leaves it
(`UserMemory`: name, score, locations, `UserSize` bytes in all): `ClientReads` stores what arrives,
whatever its size, and then the NUL of line 203 (`Written`). A name of `NAME_SIZE` bytes puts that NUL
on the first byte of the score, which is 0 before the game; a longer one changes the score and the
locations. What does not fit the `struct user` (`Fits`) goes to the next one or out of the array:
`ClientOverruns` ends there, with `main` at `WILD`, and nothing is said of what the client does
then. `GONE` is a client whose `main` has returned. `ServerGoes` cuts the
connection anywhere, also inside an int. The names of the others are there already: what
their threads do is the matter of `PushServer`.

### PushServer

One action per call that another thread can observe. A message is one read or
write of a whole value (the length and the content of the file and of a name sent by the server are
one message). What is kept of the failing byte loops is their effect:

* `ReadEof`: `disconnected`, return 0; the caller goes on.
* `ReadFails`, `WriteFails`: `disconnected`, then the loop goes round again with a
  count of -1 or less (`behind`). It fails again, and calls `disconnected` again.
  If data arrives after that, it lands before the buffer: the process is then
  in an undefined state (`proc = "wild"`). A write that succeeds sends junk.
* `WriteKills`: nobody handles SIGPIPE.
* a call of `disconnected` with the mutex held waits for itself.

`close` is a step after the unlock and acts on whatever its number then refers to.
`accept` gives the lowest free number. `AcceptMayFail` lets it return -1, which
the code does not test.

A client is modelled by what it sends: a length, a name, commands once it has
read what `main` of the client reads, and the end event of its alarm. It closes
its connection when it is told that a game is running. The members of `Leavers` may close
(orderly, or with a reset) at any moment.

**`PromptStart`.** The new thread reads `clnt_sock` through a pointer into `main`'s
frame (lines 286 and 181). With `FALSE` it may do so at any later time: two threads may
then serve one client and none the other, and ids, names and order mean nothing
(section 3). `server_leave` is checked that way. The other runs set it to `TRUE`: a new thread reads
its argument before the next connection is accepted, as it does unless two clients
connect at the same instant.

### PushSystem

`client[u]` is the state of one `PushGame`, `uplink[u]` what client u has written and
its thread has not read, `inbox[u]` the socket to u and the ring behind it (first in,
first out, by `Connection` and `EventQueue`). `Broadcast` takes an event and the mutex,
`SendOne` is a turn of `send_msg_all`'s loop, `SendDone` the unlock and, after an end
event, the `disconnected` that closes the sender's connection. What that does to a client
that still sends keys is `link`: `closed`; `reset` by TCP, which drops any part of what
is unread (`Kept`); `broken`, the client killed by SIGPIPE. No client plays what is
broadcast after the first end event, so `Broadcast` ends there; `PushServer` goes on. That
the server here is the one of `PushServer` without leavers rests on `SameOrder` there and
is not proved.

### cJSON

`CJsonTree` keeps the pointers (`next`, `prev`, `child`), names and the reference flag of
each block, and next to them the list that each call promises. An action is one call
of the library with an allocator that may refuse. The callers are well behaved: an item
that is added is one the program holds, it is not put below itself, and a list is not
changed through a reference (`Target`, `Loose`). `NothingLost` leaves out references: the one that
`cJSON_AddItemReferenceToObject` cannot name is left behind. `ReadsAgree` has one exception: the search
that takes case into account ends at the first item without a name (`src/cJSON.c`:1894).

`CJsonCopy` builds trees of a few items and copies an item of each, with the memory ending
after any allocation. `CopyCompares` is stated for objects without two items of one name:
`cJSON_Compare` finds the counterpart by name (line 3078), so a copy of an object that has
one name twice differs from its original.

`CJsonParse` has the parser's functions under their names, as operators on a state: offset, depth,
allocations left, blocks in use, the value read last, and `wild`, which says
that a byte outside was touched. Texts grow token by token as long as they may still become
valid (`Promising`). Numbers are integers, saturated as `valueint` is. `CJsonPrint` has
`ensure`, which grows, refuses or frees the buffer, and the three ways to print.
`CJsonMinify` follows `minify_string`, which takes a quote behind a backslash for an
escaped one also when that backslash is itself escaped (line 2829); its properties are
about texts without such strings (`Lexical`).

## 3. What TLC checks

| run | instance | distinct states | shows |
|---|---|---|---|
| `game` | 4 x 4, 2 users, 2 items of which one hides a base, 1 block, the alarm anywhere | 802,545 | `TypeOK`, `NoOverlap`, `BoardShowsObjects`, `ItemsCounted`, `ScoresAddUp`, `ScreenShowsMap`, `LabelsShowGame`, `ItemsArePushed` |
| `single` | 4 x 4, one user plays, one stands, 2 items, 1 block; deadlock is checked | 765 | `PlaysByTheRules` |
| `connection` | ints of 2 bytes, names of 1 or 2, a `struct user` of 5, 3 slots, 5 events, fair | 77,764 | `SleepsOnlyWhenFull`, `WholeEvents`, `NamesShown`, `ImplementsFifo`, `EveryEventHandled`, `ClientFindsEnd` |
| `system` | 2 clients, a cross of 5 cells, 1 item, 3 keys, fair | 186,238 | `SameGame`, `EachPlaysTheGame`, `EndReachesAll` |
| `server_game` | 3 clients for 2 users, 1 command each, nobody leaves, fair | 17,017 | `PlayersKnown`, `SameOrder`, `NamesReachAll`, `CommandsReachAll` |
| `server_leave` | 2 clients, both may leave, one alarm, accept may fail, late threads | 4.96 million | `TypeOK`, `MutexOwned`, `IdIsSlot` |
| `server_rejoin` | 3 clients, one may leave | 4.83 million | `CntBounded`, `UnbrokenOrder`, `RefusedWereTold` |
| `json_tree` | 4 items, 2 names, arrays of up to 2 made at once | 82,253 (symmetric) | `ListsWhole`, `EveryItemOnce`, `ReadsAgree` |
| `json_copy` | trees of 3 items and a reference, memory for 0 to 8 blocks | 8,216 | `CopyLeavesWhole`, `CopyRight`, `OriginalUntouched` |
| `json_text` | texts of up to 6 tokens, strings of up to 4 pieces, memory for 0 to 8 blocks, buffers of 0 to 24 bytes | 102,002 | `ParseSafe`, `UnicodeRight`, `RoundTrip`, `PrintSafe`, `ReadWithoutEnd`, `MinifyRight` |
| `server_send_all` | 2 clients with alarms | violation | `SentToAllConnected` fails |
| `server_names` | 2 clients, 1 command each | violation | `NamesUninterrupted` fails |

Several properties are conjunctions of named parts, each of which says one thing:
`LabelsShowGame` of `OverAnnounced` and `ScoresShown`; `EndReachesAll` of `AlarmStopsAll`
and `OverForAll`; `PlayersKnown` of `IdsDistinct` and `NamesAgree`; `UnbrokenOrder` of `NeverOvertaken`
and `NothingMissed`, which is `NothingSkipped` and `EverybodyReached` while `Undisturbed`; `EveryItemOnce` of
`NoItemTwice`, `LooseEndsHere` and `NothingLost`; `CopyLeavesWhole` of `ListsWhole` and `EveryItemOnce`;
`CopyRight` of `CopyOwnsAll`, `CopyCompares` and `CompareSymmetric`; `ParseSafe` of
`StaysInside`, `ParseOwns` and `ParseSame`; `PrintSafe` of `PrintsInside`, `PrintOwns` and
`FiveMoreSuffice`; `MinifyRight` of `MinifyKeepsTheRest` and `MinifyUndoesFormat`.

Bounds, and why they suffice:

* `game` and `single` have no bound: their state spaces are finite. Two users and two
  items on 4 x 4 give pushes blocked by edge, block, item and user, both bases as
  targets and as obstacles, users on the other's base, and a last item that scores for
  either. Larger boards and more users are covered by the theorems.
* `QueueSize = 3` leaves two usable slots; `MaxReads = 5` makes both indices wrap and the
  ring fill. Fullness and wrap-around do not depend on the size; the theorems hold for
  every size.
* `IntSize = 2`, `NAME_SIZE = 2`: an int and a name can be cut in the middle, and a name
  can fill its memory or not. `UserSize = 5`: a name, a score and one byte of a location. `Heap` has
  clean memory, memory with a letter of an earlier name, and two without a NUL for the name: from one
  the client's score is overwritten, from the other its `struct user` is left. `MaxOnWire = 2` cuts messages also where the writer
  waits for the reader.
* `MaxUplink = 1`, `MaxInbox = 2`: each client has a key under way while two events wait
  for it, so that the clients are up to two events apart and the server waits for the
  slower. On the board of `system` either user can push the item home, and the order of
  their keys decides who does.
* `MaxCmds` bounds the commands per client: with one each, two commands already
  interleave in every order, and a thread that has sent one is where it was before.
* `Conns`: one more client than users makes refusal, re-admission and reuse of
  descriptors happen.
* `MinCnt` bounds how far below zero repeated calls of `disconnected` are followed; the
  failing loops would go on for ever. `server_leave` goes to -2, which takes a second
  decrement after the table is empty.
* Four `Nodes` in `json_tree`: an owner with three children (first, middle and last
  differ), or two owners. `MaxIndex = 3` is one beyond the end, `MaxMade = 2` an array
  whose second item may fail.
* `MaxItems = 3`, `MaxLive = 4` and 8 nodes in `json_copy`: trees of depth two and of width two with
  a reference, and room for a whole copy; `MaxAllocations = 8` is as many as the largest
  copy can take.
* `NestingLimit = 2`: the third bracket is one too many. `NumberBuffer = 4`: digits that
  do not fit are left. `IntMax = 20`: -25 saturates. `DefaultBuffer = 4`: the printer grows
  its buffer. `MaxBuffer = 24`: longer than all but the longest texts printed. `MaxMemory = 8`: at
  least as many blocks as any of the values takes.
* Symmetry is used only in `json_tree`, for the blocks of memory; no liveness is checked
  there.

Deadlock is not checked where the system really stops: when all bounds are used up, when
the timer has been dropped, when the server has been killed or has gone, when a text is
complete, or when the server waits on its own mutex. The last is what `MutexOwned`
describes: a mutex that is never released belongs to a thread that called `disconnected`
inside its own section, from the exchange of name and id or from a broadcast.

Fairness:

* `Connection`: weak fairness for both threads of the client (the kernel runs them, GTK
  calls a registered timer again) and strong fairness for their locks (the timer asks
  every 50 ms and holds the mutex for a few instructions). The server's thread finishes a
  message that it has begun, unless the server goes. Nothing makes it have an event to
  send, or go, and nothing makes a wakeup spurious.
* `PushSystem`: weak fairness for each client's timer, for its alarm (`alarm` fires once)
  and for the sending thread, which waits only for a client with a full inbox; strong
  fairness for the mutex of each thread. Nobody has to press a key.
* `PushServer`: weak fairness for `main` and the threads, strong for the mutex. Nothing is
  assumed of the clients: `NamesReachAll` starts when they have all sent their names,
  `CommandsReachAll` when a command has been sent.

### What the violations say

1. `server_send_all`: after the end event the thread disconnects its client (line 226)
   and reads on; the failed read disconnects it again, and the second decrement
   drops the other client, so "send msg to all connected users" (line 167) fails.
2. `server_names`: each thread passes the barrier on its own and sends names without
   the mutex (lines 210-215), so the event of a thread that is ahead can reach a client that has
   the game file and not all the names; the client (line 194, "receive all player's name size,
   name") reads it as a length.

Three formulas of the modules say what comments promise and are in no run; TLC refutes each on the instance given.

* `OneClientPerThread` (two clients who do nothing else, late threads). A thread reads `clnt_sock` through a pointer into
  `main`'s frame. If `accept` has returned the next client by then, two threads serve that one and none the
  first ("handle one client per one thread", line 178).
* `WaitsForAll` (two clients, one may leave). A thread goes on when its client has left before it sent its size.
  Its descriptor is closed, the number goes to the next client, and the thread finds it in
  the table: it sends that client an id and counts it, and that client's own thread counts it again.
  `usr_cnt`, which is never decremented when one client leaves, reaches `max_user`, and the busy wait
  ("wait untill all user is connected", line 207) is over with one client there.
* `NamesReceived` (the instance of `connection`). The server stores a name without a terminator and sends as much as
  `strlen` finds. Behind a name that is shorter than the one its place held before there is a letter of
  that one, and the client shows both (`pushpush_client.c`:194, "receive all player's name size, name").

One more needs four
connections: a client resets its connection or goes during its handshake, its thread calls `disconnected` for
every further failure, and a late `close` (line 121) hits a number that a new client has by then.
The next `accept` gives that number out again while the first entry is still in the table: whoever gets it is
in the table twice and is sent every event twice. TLC finds it by simulation; `Undisturbed` is the condition that rules it out.

## 4. What is proved

`tlapm` checks every proof. The assumptions are those on the constants, in the modules that
declare them; in the second part of `PushServer_proofs` the hypothesis `QuietGame`, and in one theorem of its third
part `PromptStart` and `~AcceptMayFail`; nothing else.

**`PushGame_proofs`**, for every board, number of users and items:
`TypeCorrect`, `ObjectsKeepApart`, `CounterCounts`, `BoardIsTrue`,
`ItemsMoveByPushes`, `EveryItemScored`. The inductive invariant `Inv` is `TypeOK`,
"the board is what `update_cell` paints for the current positions" (`MapInSync`),
`NoOverlap` and `ItemsCounted` together. `NoOverlap` alone is not
inductive: a step is decided on the board, so the proof needs what the board says about the
positions. That is the lemma `PaintedCell`. A free-looking cell holds no item, no
block, and no user unless it is a base; a cell that shows an item holds it. With it,
`MoveCases` splits a valid command into a plain step, a push and a push home,
and each is shown to keep the parts. `ItemsMoveByPushes`
uses it for the step. `EveryItemScored` needs the
sum of the scores, a fold over the users in an order that it chooses: `FoldAddsUp` shows by
induction over the sets of users that the order does not matter.

**`ClientDisplay_proofs`**, for every board: `ScreenIsTrue`, `LabelsAreTrue` and
`DisplayKeepsGame`, by which the game with its screen is a behaviour of `PushGame`. The two properties
speak of the moments between commands; `DisplayInv` speaks of all the others. It lists the calls that may
be left (`Idle`, `Announcing`, `Closed`, `Scoring`) and what each finds in the buffer: the
text that it expects, or GAME OVER, which the alarm leaves there at most once. `PaintFacts`
says what the screen needs of the board: a block is always drawn as one, and a base is
never empty, so that nothing of the first layer shows through in the wrong place.

**`SinglePlay_proofs`**, for every board with a second user and an item: `SingleTypeCorrect` and
`SingleImplementsGame`, the refinement. The invariant adds that the label already says GAME OVER when
the counter is zero, since `handle_cmd` writes it again on every later move and the single player
game does not. `SameRules` shows that the rules inside the instance of `PushGame` are those of `PushRules`.

**`Connection_proofs`**, first part, about `EventQueue`, for every size of the ring and every number of events:
`TypeCorrect`, `NoLostWakeup`, `RingIsFifo` (the safety refinement of
`BoundedFifo`). The inductive invariant relates the ring to the histories: the
events received and not yet handled are in the slots after `front`, in order, and
there are as many as `rear` is ahead of `front`; the holder of the mutex is at a
place inside its section; a sleeping reader sleeps on a full ring.

**`Connection_proofs`**, second part, about `Connection`, for ints of any size, any names and any way to cut the bytes:
`EventsAreWhole` (`WholeEvents`), `NamesAreShown` (`NamesShown`) and `ConnectionUsesRing` (`ImplementsFifo`, and with
`NoLostWakeup` also `SleepsOnlyWhenFull`). Assumed are that a name
has no NUL in it, being what `strlen` measured (`pushpush_client.c`:169), and fits its memory, that some NUL
follows that memory, and that the score, which lies behind the name in `struct user`, is 0 when the names
arrive. `NamesAreShown` says that a name with a NUL behind it on the server reads in the client's memory as it was typed, a name of
`NAME_SIZE` bytes too, which ends in the score's 0; and that no name of at most `NAME_SIZE` bytes changes a score or a location.
Longer ones do; of a client at `WILD` nothing is claimed. The heart of `ConnectionInv` is `IsFlow`: the bytes that
the reader has of its message, followed by those on the wire, can be cut into the messages from the reader's
to the writer's and what the writer has written of the next one (`UpInv`, `DownInv`; the events written are
numbered behind the names, `Msg`). `FlowWritten`, `FlowDone` and `FlowRead` say what writing bytes,
writing the last byte and reading the last byte of a message do to it; `FlowAhead`, that nobody
reads to its end what is not written to its end. The other parts say which size the reader of a text has
(`SizeInv`), that the first int and the names leave the wire empty when its direction turns
(`HelloInv`, `UpInv`), and what is in the server's memory and in the client's `struct user`s for the names read so
far (`MemoryInv`, `NamesInv`). TLC checks all but the types on the instance of the run `connection` as well.

**`PushServer_proofs`**, first part, for any number of connections, with clients that leave or reset at any
moment, alarms, an `accept` that fails and threads that start late:
`ServerTypeCorrect`, `MutexIsOwned`, `TableBounded`, `SlotKept` (`IdIsSlot`) and
`NobodyTurnedAwayUntold` (`RefusedWereTold`). `ServerInv` adds to the types that
descriptors refer to different connections that are there (`NetInv`), that
each thread is at a place of its own program and returns to one (`PlaceInv`), that the holder of the
mutex is inside a section or waits for itself in `disconnected` (`LockInv`), that `main` spawns no thread
twice (`SpawnInv`), and that `main`, which looks at `clnt_cnt` and `game_start` without the mutex,
finds the game not full or started (`CntInv`). The last is what bounds the table: the check and the increment are
two steps, and only the fact that nobody but `main` increments keeps them together.
`SlotKept` adds to it that between the search for its slot (line 189) and the id that it sends a
thread keeps that slot, whatever `disconnected` moves for others, since both hold the mutex.
`NobodyTurnedAwayUntold` is about the two reads of `game_start` by `main` (lines 275 and 276), between which a call of
`disconnected` may put it back to 0: a client may be told to go and get a thread all the same, but never
be told to play and get none, since only `main` sets it to 1.

**`PushServer_proofs`**, second part, for any number of connections, users and commands, under `QuietGame`: no client
closes its connection during the game, no alarm goes off, `accept` succeeds and a thread
reads its argument in time. That is the setting of the run `server_game`. In it:
`PlayersAreKnown` (`PlayersKnown`) and `OneOrderForAll`
(`SameOrder`). On the instance of `server_game` TLC refutes both when
one client may leave and when one alarm may go off, and `SameOrder` when `accept` may fail. `GameInv` says in
six parts why the handshake works: nobody calls `disconnected` (`CalmInv`); a thread serves a
client that was told 0 (`AdmitInv`); the slots in use hold the descriptors of exactly these clients (`SeatInv`);
a name is in its slot before the id of that slot is sent, and `usr_cnt` counts the ids sent (`IdInv`); the names sent
to a client so far are in the places of their ids (`NameInv`); and every client has the whole broadcast but for the
last event, if the sender has not come to its slot yet (`OrderInv`). Histories are read with `SentTo`, a recursive
function over what was sent (`Carried`), for which `CarriedAppend` says what one more message adds.

**`PushServer_proofs`**, third part, about a server whose clients come and go. `OrderNeverBroken` (`NeverOvertaken`) needs no hypothesis:
with resets, alarms, failed accepts, late threads and a server that hangs on its own mutex, no client is sent an
event after a later one. Its invariant `HistInv` says that whoever is in the loop of `send_msg_all` sends the last event
broadcast, which only the mutex can promise: a thread that fails in the loop keeps it for ever.
`NobodyPassedOver` (`UnbrokenOrder`) adds that nobody is skipped while the table shifts. It is stated for behaviours so far
`Undisturbed`, with `PromptStart` and `accept` succeeding. A client that
goes otherwise takes another one's place out of the table (see the end of section 3), and a failed accept makes
`main` count one client less: TLC refutes `UnbrokenOrder` on the instance of `server_rejoin` when `accept` may fail. It does not
when threads may start late; there the proof asks for more than that instance needs, since `Tidy` says whose
descriptor a thread has. What is proved is `Undisturbed => Tidy`; `StillUndisturbed` says that
disorder is never undone, so that a step into an orderly state starts in one. `Tidy` has five parts: a thread that is not in `disconnected` has
its client's descriptor and a slot, one that has taken the slot out has none (`TidyThread`); `main` is busy with a connection that is
not in the table (`TidyMain`); the slots in use hold different open descriptors (`TidySeats`);
a client without an id has no thread past the handshake (`TidyLink`); and the client in each slot has the whole
broadcast from the moment it came in, but for the last event if the sender has not come to the slot, and that event if
the sender has passed it (`TidyEvents`). `GapClosed` says
what `disconnected` does to the slots; that its caller waits for the mutex, so that no broadcast is under way, is why it skips nobody.
TLC checks `HistInv` and `Undisturbed => Tidy` on the instance of `server_rejoin` as well.

**`PushSystem_proofs`**, for every board, number of users, keys and bounds:
`AllPlayOneGame` (`SameGame`), `ClientsPlayTheGame` (`EachPlaysTheGame`, the refinement of `PushGame` by every client), `SystemTypeCorrect`.
`SameGame` compares what the clients will have when they have played all that is on its way
to them, a fold over a sequence. `PlayAllAppend` and its like say what the fold makes of an event
more at either end. The invariant `SystemInv` adds that every board is painted from
its positions and that a broadcast in progress has begun while everybody was connected.

**`CJsonTree_proofs`**, for any number of blocks, names and kinds, with allocations that may fail:
`ListsAreWhole` (`ListsWhole`), `ItemsAreOnce` (`EveryItemOnce`) and `ReadsAreRight` (`ReadsAgree`). `ItemsAreOnce` leaves out
the reference that `cJSON_AddItemReferenceToObject` makes and cannot name, as `NothingLost` does. The callers are those of the
model (`Target`, `Loose`); that an item is not put below itself is not needed for these three.
The inductive invariant `Good` speaks of a heap and of the lists, so that it also holds between the two
steps of one call: it needs that an item outside every list leads nowhere (`Ends`), since appending does
not write its `next`; that free blocks hold nothing (`Bare`); and that every allocated block has one
place (`Once`, `Placed`, `Kept`). `GoodStep` is the common part of all calls that change a list:
if the pointers change in that list only, and are those of the new one (`Relinked`), then `Good` stays. `AddRelinks`,
`DetachRelinks`, `InsertRelinks`, `ExchangeRelinks` and `ChainRelinks` show this for the surgery of each call,
pointer by pointer. For `cJSON_Delete`, `DoomedWhole` says that the blocks reached from a held item are whole
lists and nothing else that is held: the blocks reached, less a list whose owner stays, are closed as well. `ItemIs`
gives the walk by index in closed form. TLC checks `Good` on the instance of the run `json_tree` as well.

The prover's induction theorems cannot be used, since they take an operator as a parameter.
Where a proof needs induction over the numbers (`FoldAddsUp`, the facts about `Carried` and about
`PlayAll`, `DoomedWhole`, `ItemIs`), it is over a set of numbers: `EveryNumber` and `AllNumbers` are derived from the well-foundedness of
the order, which the library states for sets.

Only model-checked: every liveness property, and cJSON's copying, parsing, printing and minifying, which are recursive operators and
out of the prover's reach.

## 5. What is not modelled

* Icons and layout of the screens, and the single player game's copy of the screens.
  `load_icons` writes a twelfth picture behind `icon_fruit[11]` (`pushpush_client.c`:278),
  which nothing defined depends on. The unused network functions of `single_play.c`.
* `loadJson`'s failures, which end the process before a socket is open; game files that
  lack a member, which `parseJson` does not check; boards that are not square, on which
  the client indexes outside its rows.
* What a name does after it has filled `name[NAME_SIZE]`: the NUL behind it is the low byte of the score, so that with the
  first point the label runs on into the score (`Connection` ends where the game begins, and
  `ClientDisplay` has no names). What a client does whose name has left its `struct user` (`WILD`).
* Numbers of cJSON with a fraction or an exponent (`compare_double`, `%1.17g`), raw items,
  `cJSON_SetValuestring`, the allocation hooks, and a text given by its length without a
  NUL, in which `parse_string` reads one byte too far behind a comma at the end of an object's text (`cJSON.c`:781).
* The copies under `src/fuzz_*`, `src/client_module`, `src/server_module*`: the functions
  of `src/pushpush` with GUI calls or updates removed. Their drivers feed one function
  with values from a file or a pipe, among them values that no client sends:
  `src/fuzz_client/main.c`:104 plays also moves that `check_validation` has refused.
* In `PushSystem`: players who leave during play, and what the server sends after the
  first end event. Both are in `PushServer`.
* A signal inside a GTK call or inside `sprintf`: `ClientDisplay` takes each as a whole.

## 6. Plan

Done, in this order: rules and game loop; their proofs; ring, its abstract specification
and proofs; server with its clients; the single player game and its refinement; the
connection byte by byte; the composition of clients and server; the screens with the
alarm between the calls; cJSON's lists, copies and texts; proofs about the composition, the server, the
game that nobody leaves, the screens, the connection, cJSON's lists and the order of events while clients come and go.

Next: `PushServer` without leavers refines the server of `PushSystem`.
