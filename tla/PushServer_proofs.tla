------------------------- MODULE PushServer_proofs -------------------------
(***************************************************************************)
(* The server, for any number of connections and any mixture of clients    *)
(* that stay, leave, reset their connections or end the game; then a game  *)
(* that nobody leaves; then, while clients come and go, the order of the   *)
(* events, the slots of the table and whom main turns away.                *)
(***************************************************************************)
EXTENDS PushServer, FiniteSetTheorems, WellFoundedInduction, TLAPS

\* What clients write.
InMsgs == ({"size", "name"} \X Conns) \cup ({"event"} \X Events)

Calls == {"disc", "reset", "close"}
MainPlaces == {"accept", "hello", "check", "add", "spawn", "count", "start"}
ThreadPlaces ==
    {"none", "begin", "size", "lock", "name", "id", "unlock", "json", "wait", "names",
     "event", "bcast", "send", "done"}

\* Where a thread holds the mutex, and where disconnected is called from
\* with the mutex held.
Sections == {"name", "id", "unlock", "send", "reset"}
Holding == {"name", "id", "send"}

\* Where disconnected returns to.
Returns == {"size", "lock", "name", "id", "json", "names", "event", "send", "done"}

NetInv ==
    /\ in \in [Conns -> Seq(InMsgs)]
    /\ clnt_cnt <= MAX_USER
    /\ \A f \in Fds : fds[f] # NoConn => link[fds[f]] # "out"
    /\ \A f, g \in Fds : fds[f] = fds[g] /\ fds[f] # NoConn => f = g

\* Main and the threads are at places of their own programs.
PlaceInv ==
    /\ th[Main].pc \in MainPlaces \cup Calls
    /\ th[Main].pc \in Calls => th[Main].ret = "hello"
    /\ \A c \in Conns :
           /\ th[c].pc \in ThreadPlaces \cup Calls
           /\ th[c].pc \in Calls => th[c].ret \in Returns
           /\ th[c].pc = "bcast" => th[c].event \in Events

\* What holding the mutex means for the program of a thread: it is inside a
\* section, or in a call of disconnected, made from inside one, that waits
\* for the mutex its own thread holds.
Holds(t) == th[t].pc \in Sections \/ (th[t].pc = "disc" /\ th[t].ret \in Holding)

\* The call that does not come back is the one made with the mutex held.
LockInv ==
    \A t \in Threads :
        /\ mutx = t <=> Holds(t)
        /\ th[t].pc \in {"reset", "close"} => th[t].ret \notin Holding

\* No thread is started twice: the connection that main has accepted has no
\* thread until main spawns it.  When accept fails main never gets so far.
SpawnInv ==
    /\ \A c \in Conns : link[c] = "out" => th[c].pc = "none" /\ accepted # c
    /\ \/ th[Main].pc \in {"check", "add", "spawn"}
       \/ th[Main].pc \in {"hello"} \cup Calls /\ th[Main].sock # BadFd
       => accepted \in Conns /\ th[accepted].pc = "none"

\* While game_start does not say so, the game is not full when main looks.
CntInv ==
    /\ clnt_cnt <= MaxUser
    /\ th[Main].pc \in {"accept", "hello", "check"} \cup Calls /\ game_start = 0
           => clnt_cnt < MaxUser
    /\ th[Main].pc = "add" => clnt_cnt < MaxUser

ServerInv == TypeOK /\ NetInv /\ PlaceInv /\ LockInv /\ SpawnInv /\ CntInv

-----------------------------------------------------------------------------
(* Descriptors and slots.                                                  *)

\* A nonempty set of numbers has a smallest member.
LEMMA SmallestNumber ==
    ASSUME NEW S \in SUBSET Nat, S # {}
    PROVE  \E x \in S : \A y \in S : x <= y
<1> DEFINE Less == {p \in Nat \X Nat : p[1] < p[2]}
<1>1. IsWellFoundedOn(Less, Nat)
  BY NatLessThanWellFounded DEF OpToRel
<1>2. PICK x \in S : \A y \in S : <<y, x>> \notin Less
  <2> HIDE DEF Less
  <2> QED BY <1>1, WFMin
<1>3. ASSUME NEW y \in S PROVE x <= y
  <2>1. <<y, x>> \in Less <=> y < x
    OBVIOUS
  <2> QED BY <1>2, <2>1
<1> QED BY <1>3

\* accept finds a free descriptor: there are as many as connections, and the
\* one that is being made has none yet.
LEMMA AcceptFinds ==
    ASSUME ServerInv, NEW c \in Conns, link[c] = "out"
    PROVE  LowestFree \in Fds /\ fds[LowestFree] = NoConn
<1> DEFINE Free == {f \in Fds : fds[f] = NoConn}
<1>1. Cardinality(Conns) \in Nat /\ IsFiniteSet(Fds) /\ Cardinality(Fds) = Cardinality(Conns)
  <2>1. IsFiniteSet(Conns) /\ Cardinality(Conns) \in Nat
    BY ServerAssumption, FS_CardinalityType
  <2>2. Cardinality(Conns) - 1 \in Int
    BY <2>1
  <2> HIDE DEF Fds
  <2>3. IsFiniteSet(0 .. Cardinality(Conns) - 1)
    BY <2>2, FS_Interval
  <2>4. Cardinality(0 .. Cardinality(Conns) - 1) =
          IF 0 > Cardinality(Conns) - 1 THEN 0 ELSE Cardinality(Conns) - 1 - 0 + 1
    BY <2>2, FS_Interval
  <2> QED BY <2>1, <2>3, <2>4 DEF Fds
<1>2. Free # {}
  <2> SUFFICES ASSUME \A f \in Fds : fds[f] # NoConn PROVE FALSE
    OBVIOUS
  <2>1. fds \in [Fds -> Conns \ {c}]
    BY DEF ServerInv, TypeOK, NetInv
  <2>2. IsFiniteSet(Conns \ {c}) /\ Cardinality(Conns \ {c}) = Cardinality(Conns) - 1
    BY ServerAssumption, FS_RemoveElement
  <2>3. \E f, g \in Fds : f # g /\ fds[f] = fds[g]
    <3>1. Cardinality(Conns \ {c}) < Cardinality(Fds)
      BY <1>1, <2>2
    <3> QED BY <1>1, <2>1, <2>2, <3>1, FS_PigeonHole
  <2> QED BY <2>3 DEF ServerInv, NetInv
<1>3. Free \in SUBSET Nat
  BY <1>1 DEF Fds
<1>4. PICK f \in Free : \A g \in Free : f <= g
  BY <1>2, <1>3, SmallestNumber
<1>5. f \in Fds /\ fds[f] = NoConn /\ \A g \in Fds : fds[g] = NoConn => f <= g
  BY <1>4
<1> QED BY <1>5 DEF LowestFree

\* The first slot of a descriptor is one of its slots.
LEMMA FirstSlotFound ==
    ASSUME NEW f, SlotsOf(f) # {}
    PROVE  FirstSlot(f) \in SlotsOf(f)
<1>1. SlotsOf(f) \in SUBSET Nat
  BY DEF SlotsOf, Slots, MAX_USER
<1>2. PICK s \in SlotsOf(f) : \A r \in SlotsOf(f) : s <= r
  <2> HIDE DEF SlotsOf
  <2> QED BY <1>1, SmallestNumber
<1> QED BY <1>2 DEF FirstSlot

-----------------------------------------------------------------------------
(* What one step of one thread does to the invariant.                      *)

\* The step is of thread t: it goes on at place p.
Moves(t, p) ==
    /\ th' \in [Threads -> Locals]
    /\ th'[t].pc = p
    /\ \A s \in Threads \ {t} : th'[s] = th[s]

\* A step of a client's thread keeps the places, the mutex, and the counts if
\* it goes on at a place of its program, has the mutex where it should, adds
\* no client and does not make game_start zero with the table full.
LEMMA ThreadMoves ==
    ASSUME ServerInv, NEW t \in Conns, NEW p, th[t].pc # "none", Moves(t, p),
           p \in (ThreadPlaces \ {"none"}) \cup Calls,
           p \in Calls => th'[t].ret \in Returns,
           p = "bcast" => th'[t].event \in Events,
           p \in {"reset", "close"} => th'[t].ret \notin Holding,
           mutx' = t <=> p \in Sections \/ (p = "disc" /\ th'[t].ret \in Holding),
           \A s \in Threads \ {t} : mutx' = s <=> mutx = s,
           \A c \in Conns : link'[c] = "out" => link[c] = "out",
           accepted' = accepted,
           clnt_cnt' \in Int, clnt_cnt' <= clnt_cnt,
           game_start' = game_start \/ clnt_cnt' < MaxUser
    PROVE  PlaceInv' /\ LockInv' /\ SpawnInv' /\ CntInv'
<1> USE ServerAssumption
<1>1. t \in Threads /\ Main \in Threads /\ t # Main /\ th'[Main] = th[Main]
      /\ \A c \in Conns : c \in Threads
  BY DEF Threads, Moves
<1>2. th'[t].pc = p /\ \A s \in Threads \ {t} : th'[s] = th[s]
  BY DEF Moves
<1>3. PlaceInv'
  BY <1>1, <1>2 DEF ServerInv, PlaceInv
<1>4. LockInv'
  BY <1>1, <1>2 DEF ServerInv, LockInv, Holds
<1>5. SpawnInv'
  <2>1. \A c \in Conns : link'[c] = "out" => th'[c].pc = "none" /\ accepted' # c
    BY <1>1, <1>2 DEF ServerInv, SpawnInv
  <2> QED BY <1>1, <1>2, <2>1 DEF ServerInv, SpawnInv
<1>6. CntInv'
  BY <1>1, <1>2 DEF ServerInv, CntInv, TypeOK
<1> QED BY <1>3, <1>4, <1>5, <1>6

\* A step of main that leaves the mutex, the links and game_start alone.
LEMMA MainMoves ==
    ASSUME ServerInv, NEW p, Moves(Main, p),
           p \in MainPlaces \cup Calls,
           p \in Calls => th'[Main].ret = "hello",
           mutx' = mutx, ~Holds(Main), ~Holds(Main)',
           link' = link, accepted' = accepted,
           \/ p \in {"check", "add", "spawn"}
           \/ p \in {"hello"} \cup Calls /\ th'[Main].sock # BadFd
           => accepted \in Conns /\ th[accepted].pc = "none",
           CntInv'
    PROVE  PlaceInv' /\ LockInv' /\ SpawnInv' /\ CntInv'
<1> USE ServerAssumption
<1>1. Main \in Threads /\ \A c \in Conns : c \in Threads /\ c # Main /\ th'[c] = th[c]
  BY DEF Threads, Moves
<1>2. th'[Main].pc = p /\ \A s \in Threads \ {Main} : th'[s] = th[s]
  BY DEF Moves
<1>3. PlaceInv'
  BY <1>1, <1>2 DEF ServerInv, PlaceInv
<1>4. LockInv'
  <2>1. p \in {"reset", "close"} => th'[Main].ret \notin Holding
    BY DEF Calls, Holding
  <2> QED BY <1>1, <1>2, <2>1 DEF ServerInv, LockInv, Holds
<1>5. SpawnInv'
  BY <1>1, <1>2 DEF ServerInv, SpawnInv
<1> QED BY <1>3, <1>4, <1>5

\* The invariant holds after a step that leaves every variable alone but th,
\* proc or the history.
LEMMA CrashKeeps ==
    ASSUME ServerInv, NEW how \in {"killed", "wild"}, Crash(how)
    PROVE  ServerInv'
BY DEF Crash, ServerInv, TypeOK, NetInv, PlaceInv, LockInv, Holds, SpawnInv, CntInv,
       tableVars, netVars, clientVars

LEMMA StutterKeeps ==
    ASSUME ServerInv, UNCHANGED vars
    PROVE  ServerInv'
BY DEF vars, ServerInv, TypeOK, NetInv, PlaceInv, LockInv, Holds, SpawnInv, CntInv,
       tableVars, netVars, clientVars

LEMMA GotoMoves ==
    ASSUME TypeOK, NEW t \in Threads, NEW p \in Places, Goto(t, p)
    PROVE  Moves(t, p) /\ th'[t] = [th[t] EXCEPT !.pc = p]
BY DEF TypeOK, Locals, Goto, Moves

LEMMA CallMoves ==
    ASSUME TypeOK, NEW t \in Threads, NEW f \in Fds \cup {BadFd}, NEW back \in Places,
           NEW behind \in BOOLEAN, CallDisconnected(t, f, back, behind)
    PROVE  /\ Moves(t, "disc")
           /\ th'[t].ret = back /\ th'[t].arg = f /\ th'[t].sock = th[t].sock
<1>1. th \in [Threads -> Locals] /\ th[t] \in Locals /\ "disc" \in Places
  BY DEF TypeOK, Places
<1>2. th'[t] = [th[t] EXCEPT !.pc = "disc", !.arg = f, !.ret = back, !.behind = behind]
      /\ \A s \in Threads \ {t} : th'[s] = th[s]
  BY <1>1 DEF CallDisconnected
<1>3. th'[t] \in Locals
  BY <1>1, <1>2 DEF Locals
<1>4. th' \in [Threads -> Locals]
  BY <1>1, <1>3 DEF CallDisconnected
<1> QED BY <1>1, <1>2, <1>4 DEF Moves, Locals

\* A thread that calls disconnected will hold the mutex on return exactly
\* when it holds it now.
LEMMA CallKeeps ==
    ASSUME ServerInv, NEW t \in Threads, NEW f \in Fds \cup {BadFd}, NEW back,
           NEW behind \in BOOLEAN,
           IF t = Main THEN th[t].pc = "hello" /\ back = "hello"
           ELSE /\ th[t].pc \in ThreadPlaces \ {"none"} /\ back \in Returns
                /\ back \in Holding <=> th[t].pc \in Sections,
           CallDisconnected(t, f, back, behind),
           UNCHANGED <<proc, mutx, tableVars, accepted, netVars, clientVars, bcast>>
    PROVE  ServerInv'
<1> USE ServerAssumption
<1>1. back \in Places /\ th[t] \in Locals
  BY DEF Returns, Places, ServerInv, TypeOK
<1>2. Moves(t, "disc") /\ th'[t].ret = back /\ th'[t].sock = th[t].sock
  BY <1>1, CallMoves DEF ServerInv
<1>3. TypeOK'
  BY <1>2 DEF ServerInv, TypeOK, Moves, tableVars, netVars, clientVars
<1>4. NetInv'
  BY DEF ServerInv, NetInv, tableVars, netVars
<1>5. "disc" \in Calls /\ "disc" \notin Sections
  BY DEF Calls, Sections
<1>6. PlaceInv' /\ LockInv' /\ SpawnInv' /\ CntInv'
  <2>1. CASE t = Main
    <3>1. ~Holds(Main)
      BY <2>1 DEF Holds, Sections
    <3>2. ~Holds(Main)'
      BY <1>2, <2>1 DEF Holds, Sections, Holding, Moves
    <3>3. th'[Main].pc = "disc"
      BY <1>2, <2>1 DEF Moves
    <3>4. CntInv'
      BY <1>2, <2>1, <3>3 DEF ServerInv, CntInv, tableVars, Calls
    <3>5. \/ "disc" \in {"check", "add", "spawn"}
          \/ "disc" \in {"hello"} \cup Calls /\ th'[Main].sock # BadFd
          => accepted \in Conns /\ th[accepted].pc = "none"
      BY <1>2, <2>1 DEF ServerInv, SpawnInv
    <3> QED BY <1>2, <1>5, <2>1, <3>1, <3>2, <3>4, <3>5, MainMoves DEF netVars
  <2>2. CASE t \in Conns
    <3>1. th[t].pc \in ThreadPlaces \ {"none"} /\ back \in Returns
          /\ (back \in Holding <=> th[t].pc \in Sections)
      BY <2>2
    <3>2. mutx = t <=> th[t].pc \in Sections
      BY <3>1 DEF ServerInv, LockInv, Holds, ThreadPlaces
    <3> QED BY <1>2, <1>5, <2>2, <3>1, <3>2, ThreadMoves
            DEF netVars, tableVars, ServerInv, TypeOK
  <2> QED BY <2>1, <2>2 DEF Threads
<1> QED BY <1>3, <1>4, <1>6 DEF ServerInv

\* A write that arrives changes what one client is sent, and its link only
\* from "fin" to "rst".
LEMMA WriteEffect ==
    ASSUME ServerInv, NEW t, NEW f, NEW msg, WriteArrives(t, f, msg)
    PROVE  /\ link' \in [Conns -> {"out", "up", "fin", "rst"}]
           /\ \A c \in Conns : link'[c] = "out" => link[c] = "out"
           /\ UNCHANGED <<proc, fds, in>>
<1>1. f \in Fds /\ fds[f] \in Conns
  BY DEF WriteArrives, LinkOf, IsOpen, ServerInv, TypeOK
<1> QED BY <1>1 DEF WriteArrives, ServerInv, TypeOK

LEMMA ReadEffect ==
    ASSUME ServerInv, NEW t, NEW kind, ReadArrives(t, kind)
    PROVE  /\ in' \in [Conns -> Seq(InMsgs)]
           /\ NextIn(t) \in InMsgs /\ NextIn(t)[1] = kind
           /\ UNCHANGED <<proc, fds, link, out>>
<1> DEFINE c == fds[th[t].sock]
<1>1. c \in Conns /\ in \in [Conns -> Seq(InMsgs)] /\ in[c] # <<>>
  BY DEF ReadArrives, HasData, IsOpen, ServerInv, TypeOK, NetInv
<1>2. NextIn(t) = Head(in[c]) /\ in' = [in EXCEPT ![c] = Tail(@)]
      /\ NextIn(t)[1] = kind /\ UNCHANGED <<proc, fds, link, out>>
  BY DEF ReadArrives, NextIn
<1> HIDE DEF c
<1>3. Head(in[c]) \in InMsgs /\ Tail(in[c]) \in Seq(InMsgs)
  <2>1. in[c] \in Seq(InMsgs)
    BY <1>1
  <2> QED BY <1>1, <2>1
<1> QED BY <1>1, <1>2, <1>3

LEMMA WrongReadKeeps ==
    ASSUME ServerInv, NEW t \in Conns, NEW kind, NEW back,
           th[t].pc \in {"size", "name", "event"}, back \in Returns,
           back \in Holding <=> th[t].pc \in Sections,
           ReadGoesWrong(t, kind, back)
    PROVE  ServerInv'
<1>1. t \in Threads /\ t # Main /\ th[t] \in Locals /\ th[t].pc \in ThreadPlaces \ {"none"}
      /\ th[t].sock \in Fds \cup {BadFd}
  BY ServerAssumption DEF Threads, ServerInv, TypeOK, ThreadPlaces, Locals
<1>2. CASE ReadCorrupts(t, kind)
  BY <1>2, CrashKeeps DEF ReadCorrupts
<1>3. CASE ReadEof(t, back)
  BY <1>1, <1>3, CallKeeps DEF ReadEof
<1>4. CASE ReadFails(t)
  <2>1. th[t].pc \in Returns /\ (th[t].pc \in Holding <=> th[t].pc \in Sections)
    BY DEF Returns, Holding, Sections
  <2> QED BY <1>1, <1>4, <2>1, CallKeeps DEF ReadFails
<1> QED BY <1>2, <1>3, <1>4 DEF ReadGoesWrong

LEMMA FailedWriteKeeps ==
    ASSUME ServerInv, NEW t \in Conns, NEW f \in Fds \cup {BadFd},
           th[t].pc \in {"id", "json", "names", "send"}, WriteFailsOrKills(t, f)
    PROVE  ServerInv'
<1>1. t \in Threads /\ t # Main /\ th[t].pc \in ThreadPlaces \ {"none"}
      /\ th[t].pc \in Returns /\ (th[t].pc \in Holding <=> th[t].pc \in Sections)
  BY ServerAssumption DEF Threads, ThreadPlaces, Returns, Holding, Sections
<1>2. CASE WriteKills(f)
  BY <1>2, CrashKeeps DEF WriteKills
<1>3. CASE WriteFails(t, f)
  BY <1>1, <1>3, CallKeeps DEF WriteFails
<1> QED BY <1>2, <1>3 DEF WriteFailsOrKills

\* What the other components need of a step that is not a call: the typing of
\* what it changes, and that no connection becomes new again.
LEMMA RestKeeps ==
    ASSUME ServerInv, th' \in [Threads -> Locals],
           UNCHANGED <<proc, usr_cnt, game_start, clnt_cnt, clnt_socks, accepted, fds,
                       csent, ended>>,
           mutx' \in Threads \cup {None},
           user_name' \in [0 .. MaxUser - 1 -> Conns \cup {NoConn}],
           link' \in [Conns -> {"out", "up", "fin", "rst"}],
           \A c \in Conns : link'[c] = "out" => link[c] = "out",
           in' \in [Conns -> Seq(InMsgs)],
           bcast' \in Seq(Events)
    PROVE  TypeOK' /\ NetInv'
<1>1. TypeOK'
  BY DEF ServerInv, TypeOK
<1>2. NetInv'
  <2>1. \A f \in Fds : fds[f] # NoConn => fds[f] \in Conns
    BY DEF ServerInv, TypeOK
  <2> QED BY <2>1 DEF ServerInv, NetInv
<1> QED BY <1>1, <1>2

\* A step from one place of the thread's program to another: the mutex is
\* held after it exactly at the places that need it.
LEMMA PlaceMoves ==
    ASSUME ServerInv, NEW t \in Conns, NEW p \in ThreadPlaces \ {"none"},
           th[t].pc \in ThreadPlaces \ {"none"}, Moves(t, p),
           p = "bcast" => th'[t].event \in Events,
           \/ mutx' = mutx /\ (p \in Sections <=> th[t].pc \in Sections)
           \/ mutx = None /\ mutx' = t /\ p \in Sections
           \/ mutx = t /\ mutx' = None /\ p \notin Sections,
           \A c \in Conns : link'[c] = "out" => link[c] = "out",
           UNCHANGED <<accepted, clnt_cnt, game_start>>
    PROVE  PlaceInv' /\ LockInv' /\ SpawnInv' /\ CntInv'
<1>1. t \in Threads /\ None \notin Threads /\ clnt_cnt \in Int
  BY ServerAssumption DEF Threads, ServerInv, TypeOK
<1>2. p \notin Calls /\ p \notin {"disc", "reset", "close"}
  BY DEF Calls, ThreadPlaces
<1>3. mutx = t <=> th[t].pc \in Sections
  BY <1>1 DEF ServerInv, LockInv, Holds, ThreadPlaces
<1>4. mutx' = t <=> p \in Sections
  BY <1>1, <1>3
<1>5. \A s \in Threads \ {t} : mutx' = s <=> mutx = s
  BY <1>1
<1> QED BY <1>1, <1>2, <1>4, <1>5, ThreadMoves DEF ThreadPlaces

\* The state of a thread at a place.
LEMMA ThreadState ==
    ASSUME ServerInv, NEW t \in Conns
    PROVE  /\ t \in Threads /\ t # Main /\ t # None /\ th \in [Threads -> Locals]
           /\ th[t] \in Locals /\ th[t].sock \in Fds \cup {BadFd}
           /\ in \in [Conns -> Seq(InMsgs)] /\ bcast \in Seq(Events)
           /\ mutx \in Threads \cup {None}
           /\ user_name \in [0 .. MaxUser - 1 -> Conns \cup {NoConn}]
           /\ link \in [Conns -> {"out", "up", "fin", "rst"}]
           /\ th[Main].sock \in Fds \cup {BadFd}
BY ServerAssumption DEF Threads, ServerInv, TypeOK, NetInv, Locals

-----------------------------------------------------------------------------
(* The steps of handle_clnt.                                               *)

LEMMA BeginKeeps ==
    ASSUME ServerInv, NEW t \in Conns, Begin(t)
    PROVE  ServerInv'
<1>1. Moves(t, "size")
  <2> DEFINE r == [th[t] EXCEPT !.pc = "size", !.sock = th[Main].sock]
  <2>1. r \in Locals /\ r.pc = "size"
    BY ThreadState DEF Locals, Places
  <2>2. th' = [th EXCEPT ![t] = r]
    BY ThreadState DEF Begin
  <2> HIDE DEF r
  <2> QED BY <2>1, <2>2, ThreadState DEF Moves
<1>2. th[t].pc = "begin"
  BY DEF Begin, At
<1>3. TypeOK' /\ NetInv'
  BY <1>1, RestKeeps, ThreadState DEF Begin, Moves, tableVars, netVars, clientVars
<1>4. PlaceInv' /\ LockInv' /\ SpawnInv' /\ CntInv'
  BY <1>1, <1>2, PlaceMoves DEF Begin, tableVars, netVars, ThreadPlaces, Sections
<1> QED BY <1>3, <1>4 DEF ServerInv

LEMMA ReadSizeKeeps ==
    ASSUME ServerInv, NEW t \in Conns, ReadSize(t)
    PROVE  ServerInv'
<1>1. th[t].pc = "size"
  BY DEF ReadSize, At
<1>2. CASE ReadGoesWrong(t, "size", "lock")
  BY <1>1, <1>2, WrongReadKeeps DEF Returns, Holding, Sections
<1>3. CASE /\ ReadArrives(t, "size")
           /\ th' = [th EXCEPT ![t].pc = "lock", ![t].name_size = 1]
           /\ UNCHANGED <<mutx, tableVars, accepted, clientVars, bcast>>
  <2>1. Moves(t, "lock")
    <3> DEFINE r == [th[t] EXCEPT !.pc = "lock", !.name_size = 1]
    <3>1. r \in Locals /\ r.pc = "lock"
      BY ThreadState DEF Locals, Places
    <3>2. th' = [th EXCEPT ![t] = r]
      BY <1>3, ThreadState
    <3> HIDE DEF r
    <3> QED BY <3>1, <3>2, ThreadState DEF Moves
  <2>2. TypeOK' /\ NetInv'
    BY <1>3, <2>1, RestKeeps, ReadEffect, ThreadState DEF Moves, tableVars, clientVars
  <2>3. PlaceInv' /\ LockInv' /\ SpawnInv' /\ CntInv'
    BY <1>1, <1>3, <2>1, PlaceMoves, ReadEffect DEF tableVars, ThreadPlaces, Sections
  <2> QED BY <2>2, <2>3 DEF ServerInv
<1> QED BY <1>2, <1>3 DEF ReadSize

LEMMA LockTableKeeps ==
    ASSUME ServerInv, NEW t \in Conns, LockTable(t)
    PROVE  ServerInv'
<1>1. th[t].pc = "lock" /\ mutx = None /\ mutx' = t
      /\ UNCHANGED <<proc, tableVars, accepted, netVars, clientVars, bcast>>
  BY DEF LockTable, At
<1>2. \E p \in {"unlock", "name"} : Moves(t, p)
  <2>1. CASE SlotsOf(th[t].sock) = {}
    BY <2>1, GotoMoves, ThreadState DEF LockTable, Places, ServerInv
  <2>2. CASE SlotsOf(th[t].sock) # {}
    <3>1. FirstSlot(th[t].sock) \in 0 .. MAX_USER
      BY <2>2, FirstSlotFound DEF SlotsOf, Slots, MAX_USER
    <3>2. Moves(t, "name")
      <4> DEFINE r == [th[t] EXCEPT !.pc = "name", !.i = FirstSlot(th[t].sock)]
      <4>1. r \in Locals /\ r.pc = "name"
        BY <3>1, ThreadState DEF Locals, Places
      <4>2. th' = [th EXCEPT ![t] = r]
        BY <2>2, ThreadState DEF LockTable
      <4> HIDE DEF r
      <4> QED BY <4>1, <4>2, ThreadState DEF Moves
    <3> QED BY <3>2
  <2> QED BY <2>1, <2>2
<1>3. PICK p \in {"unlock", "name"} : Moves(t, p)
  BY <1>2
<1>4. TypeOK' /\ NetInv'
  BY <1>1, <1>3, RestKeeps, ThreadState DEF Moves, tableVars, netVars, clientVars
<1>5. PlaceInv' /\ LockInv' /\ SpawnInv' /\ CntInv'
  BY <1>1, <1>3, PlaceMoves DEF tableVars, netVars, ThreadPlaces, Sections
<1> QED BY <1>4, <1>5 DEF ServerInv

LEMMA ReadNameKeeps ==
    ASSUME ServerInv, NEW t \in Conns, ReadName(t)
    PROVE  ServerInv'
<1>1. th[t].pc = "name"
  BY DEF ReadName, At
<1>2. CASE ReadGoesWrong(t, "name", "id")
  BY <1>1, <1>2, WrongReadKeeps DEF Returns, Holding, Sections
<1>3. ASSUME Goto(t, "id") PROVE Moves(t, "id")
  BY <1>3, GotoMoves, ThreadState DEF Places, ServerInv
<1>4. CASE /\ Goto(t, "id")
           /\ UNCHANGED <<proc, mutx, tableVars, accepted, netVars, clientVars, bcast>>
  <2>1. TypeOK' /\ NetInv'
    BY <1>3, <1>4, RestKeeps, ThreadState DEF Moves, tableVars, netVars, clientVars
  <2>2. PlaceInv' /\ LockInv' /\ SpawnInv' /\ CntInv'
    BY <1>1, <1>3, <1>4, PlaceMoves DEF tableVars, netVars, ThreadPlaces, Sections
  <2> QED BY <2>1, <2>2 DEF ServerInv
<1>5. CASE /\ ReadArrives(t, "name")
           /\ user_name' = [user_name EXCEPT ![th[t].i] = NextIn(t)[2]]
           /\ Goto(t, "id")
           /\ UNCHANGED <<mutx, clnt_cnt, clnt_socks, usr_cnt, game_start, accepted,
                          clientVars, bcast>>
  <2>1. NextIn(t)[2] \in Conns
    BY <1>5, ReadEffect DEF InMsgs
  <2>2. user_name' \in [0 .. MaxUser - 1 -> Conns \cup {NoConn}]
    BY <1>5, <2>1, ThreadState
  <2>3. TypeOK' /\ NetInv'
    BY <1>3, <1>5, <2>2, RestKeeps, ReadEffect, ThreadState DEF Moves, clientVars
  <2>4. PlaceInv' /\ LockInv' /\ SpawnInv' /\ CntInv'
    BY <1>1, <1>3, <1>5, PlaceMoves, ReadEffect DEF ThreadPlaces, Sections
  <2> QED BY <2>3, <2>4 DEF ServerInv
<1> QED BY <1>2, <1>4, <1>5 DEF ReadName

LEMMA WriteIdKeeps ==
    ASSUME ServerInv, NEW t \in Conns, WriteId(t)
    PROVE  ServerInv'
<1>1. th[t].pc = "id"
  BY DEF WriteId, At
<1>2. CASE WriteFailsOrKills(t, th[t].sock)
  BY <1>1, <1>2, FailedWriteKeeps, ThreadState
<1>3. CASE /\ WriteArrives(t, th[t].sock, <<"id", IdOf(t)>>)
           /\ usr_cnt' = usr_cnt + 1
           /\ th' = [th EXCEPT ![t].pc = "unlock", ![t].behind = FALSE]
           /\ UNCHANGED <<mutx, clnt_cnt, clnt_socks, game_start, user_name, accepted,
                          clientVars, bcast>>
  <2>1. Moves(t, "unlock")
    <3> DEFINE r == [th[t] EXCEPT !.pc = "unlock", !.behind = FALSE]
    <3>1. r \in Locals /\ r.pc = "unlock"
      BY ThreadState DEF Locals, Places
    <3>2. th' = [th EXCEPT ![t] = r]
      BY <1>3, ThreadState
    <3> HIDE DEF r
    <3> QED BY <3>1, <3>2, ThreadState DEF Moves
  <2>2. UNCHANGED <<proc, fds, in>>
        /\ link' \in [Conns -> {"out", "up", "fin", "rst"}]
        /\ \A c \in Conns : link'[c] = "out" => link[c] = "out"
    BY <1>3, WriteEffect
  <2>3. TypeOK'
    BY <1>3, <2>1, <2>2 DEF Moves, ServerInv, TypeOK, clientVars
  <2>4. NetInv'
    BY <1>3, <2>2 DEF ServerInv, TypeOK, NetInv
  <2>5. PlaceInv' /\ LockInv' /\ SpawnInv' /\ CntInv'
    BY <1>1, <1>3, <2>1, <2>2, PlaceMoves DEF ThreadPlaces, Sections
  <2> QED BY <2>3, <2>4, <2>5 DEF ServerInv
<1> QED BY <1>2, <1>3 DEF WriteId

LEMMA UnlockTableKeeps ==
    ASSUME ServerInv, NEW t \in Conns, UnlockTable(t)
    PROVE  ServerInv'
<1>1. th[t].pc = "unlock" /\ mutx' = None
      /\ UNCHANGED <<proc, tableVars, accepted, netVars, clientVars, bcast>>
  BY DEF UnlockTable, At
<1>2. mutx = t
  BY <1>1, ThreadState DEF ServerInv, LockInv, Holds, Sections
<1>3. Moves(t, "json")
  BY GotoMoves, ThreadState DEF UnlockTable, Places, ServerInv
<1>4. TypeOK' /\ NetInv'
  BY <1>1, <1>3, RestKeeps, ThreadState DEF Moves, tableVars, netVars, clientVars
<1>5. PlaceInv' /\ LockInv' /\ SpawnInv' /\ CntInv'
  BY <1>1, <1>2, <1>3, PlaceMoves DEF tableVars, netVars, ThreadPlaces, Sections
<1> QED BY <1>4, <1>5 DEF ServerInv

LEMMA WriteJsonKeeps ==
    ASSUME ServerInv, NEW t \in Conns, WriteJson(t)
    PROVE  ServerInv'
<1>1. th[t].pc = "json"
  BY DEF WriteJson, At
<1>2. CASE WriteFailsOrKills(t, th[t].sock)
  BY <1>1, <1>2, FailedWriteKeeps, ThreadState
<1>3. CASE /\ WriteArrives(t, th[t].sock, <<"json", 0>>)
           /\ th' = [th EXCEPT ![t].pc = "wait", ![t].behind = FALSE]
           /\ UNCHANGED <<mutx, tableVars, accepted, clientVars, bcast>>
  <2>1. Moves(t, "wait")
    <3> DEFINE r == [th[t] EXCEPT !.pc = "wait", !.behind = FALSE]
    <3>1. r \in Locals /\ r.pc = "wait"
      BY ThreadState DEF Locals, Places
    <3>2. th' = [th EXCEPT ![t] = r]
      BY <1>3, ThreadState
    <3> HIDE DEF r
    <3> QED BY <3>1, <3>2, ThreadState DEF Moves
  <2>2. TypeOK' /\ NetInv'
    BY <1>3, <2>1, RestKeeps, WriteEffect, ThreadState DEF Moves, tableVars, clientVars
  <2>3. PlaceInv' /\ LockInv' /\ SpawnInv' /\ CntInv'
    BY <1>1, <1>3, <2>1, PlaceMoves, WriteEffect DEF tableVars, ThreadPlaces, Sections
  <2> QED BY <2>2, <2>3 DEF ServerInv
<1> QED BY <1>2, <1>3 DEF WriteJson

LEMMA BarrierKeeps ==
    ASSUME ServerInv, NEW t \in Conns, Barrier(t)
    PROVE  ServerInv'
<1>1. Moves(t, "names")
  <2> DEFINE r == [th[t] EXCEPT !.pc = "names", !.i = 0]
  <2>1. 0 \in 0 .. MAX_USER
    BY DEF MAX_USER
  <2>2. r \in Locals /\ r.pc = "names"
    BY <2>1, ThreadState DEF Locals, Places
  <2>3. th' = [th EXCEPT ![t] = r]
    BY ThreadState DEF Barrier
  <2> HIDE DEF r
  <2> QED BY <2>2, <2>3, ThreadState DEF Moves
<1>2. th[t].pc = "wait"
  BY DEF Barrier, At
<1>3. TypeOK' /\ NetInv'
  BY <1>1, RestKeeps, ThreadState DEF Barrier, Moves, tableVars, netVars, clientVars
<1>4. PlaceInv' /\ LockInv' /\ SpawnInv' /\ CntInv'
  BY <1>1, <1>2, PlaceMoves DEF Barrier, tableVars, netVars, ThreadPlaces, Sections
<1> QED BY <1>3, <1>4 DEF ServerInv

LEMMA WriteNamesKeeps ==
    ASSUME ServerInv, NEW t \in Conns, WriteNames(t)
    PROVE  ServerInv'
<1>1. th[t].pc = "names"
  BY DEF WriteNames, At
<1>2. CASE WriteFailsOrKills(t, th[t].sock)
  BY <1>1, <1>2, FailedWriteKeeps, ThreadState
<1>3. CASE /\ th[t].i < MaxUser
           /\ WriteArrives(t, th[t].sock, <<"name", user_name[th[t].i]>>)
           /\ th' = [th EXCEPT ![t].i = @ + 1, ![t].behind = FALSE]
           /\ UNCHANGED <<mutx, tableVars, accepted, clientVars, bcast>>
  <2>1. Moves(t, "names")
    <3>1. th[t].i + 1 \in 0 .. MAX_USER
      <4>1. th[t].i \in 0 .. MAX_USER /\ MaxUser \in 1 .. MAX_USER
        BY ThreadState, ServerAssumption DEF Locals
      <4> QED BY <1>3, <4>1 DEF MAX_USER
    <3> DEFINE r == [th[t] EXCEPT !.i = th[t].i + 1, !.behind = FALSE]
    <3>2. r \in Locals /\ r.pc = "names"
      BY <1>1, <3>1, ThreadState DEF Locals, Places
    <3>3. th' = [th EXCEPT ![t] = r]
      BY <1>3, ThreadState
    <3> HIDE DEF r
    <3> QED BY <3>2, <3>3, ThreadState DEF Moves
  <2>2. TypeOK' /\ NetInv'
    BY <1>3, <2>1, RestKeeps, WriteEffect, ThreadState DEF Moves, tableVars, clientVars
  <2>3. PlaceInv' /\ LockInv' /\ SpawnInv' /\ CntInv'
    BY <1>1, <1>3, <2>1, PlaceMoves, WriteEffect DEF tableVars, ThreadPlaces, Sections
  <2> QED BY <2>2, <2>3 DEF ServerInv
<1>4. CASE /\ Goto(t, "event")
           /\ UNCHANGED <<proc, mutx, tableVars, accepted, netVars, clientVars, bcast>>
  <2>1. Moves(t, "event")
    BY <1>4, GotoMoves, ThreadState DEF Places, ServerInv
  <2>2. TypeOK' /\ NetInv'
    BY <1>4, <2>1, RestKeeps, ThreadState DEF Moves, tableVars, netVars, clientVars
  <2>3. PlaceInv' /\ LockInv' /\ SpawnInv' /\ CntInv'
    BY <1>1, <1>4, <2>1, PlaceMoves DEF tableVars, netVars, ThreadPlaces, Sections
  <2> QED BY <2>2, <2>3 DEF ServerInv
<1> QED BY <1>2, <1>3, <1>4 DEF WriteNames

LEMMA ReadEventKeeps ==
    ASSUME ServerInv, NEW t \in Conns, ReadEvent(t)
    PROVE  ServerInv'
<1>1. th[t].pc = "event"
  BY DEF ReadEvent, At
<1>2. CASE ReadGoesWrong(t, "event", "done")
  BY <1>1, <1>2, WrongReadKeeps DEF Returns, Holding, Sections
<1>3. CASE /\ ReadArrives(t, "event")
           /\ th' = [th EXCEPT ![t].pc = "bcast", ![t].event = NextIn(t)[2]]
           /\ UNCHANGED <<mutx, tableVars, accepted, clientVars, bcast>>
  <2>1. NextIn(t)[2] \in Events
    BY <1>3, ReadEffect DEF InMsgs
  <2>2. Moves(t, "bcast") /\ th'[t].event \in Events
    <3> DEFINE r == [th[t] EXCEPT !.pc = "bcast", !.event = NextIn(t)[2]]
    <3>1. r \in Locals /\ r.pc = "bcast" /\ r.event \in Events
      BY <2>1, ThreadState DEF Locals, Places
    <3>2. th' = [th EXCEPT ![t] = r]
      BY <1>3, ThreadState
    <3> HIDE DEF r
    <3> QED BY <3>1, <3>2, ThreadState DEF Moves
  <2>3. TypeOK' /\ NetInv'
    BY <1>3, <2>2, RestKeeps, ReadEffect, ThreadState DEF Moves, tableVars, clientVars
  <2>4. PlaceInv' /\ LockInv' /\ SpawnInv' /\ CntInv'
    BY <1>1, <1>3, <2>2, PlaceMoves, ReadEffect DEF tableVars, ThreadPlaces, Sections
  <2> QED BY <2>3, <2>4 DEF ServerInv
<1> QED BY <1>2, <1>3 DEF ReadEvent

LEMMA LockBroadcastKeeps ==
    ASSUME ServerInv, NEW t \in Conns, LockBroadcast(t)
    PROVE  ServerInv'
<1>1. th[t].pc = "bcast" /\ mutx = None /\ mutx' = t
      /\ UNCHANGED <<proc, tableVars, accepted, netVars, clientVars>>
  BY DEF LockBroadcast, At
<1>2. Moves(t, "send")
  <2> DEFINE r == [th[t] EXCEPT !.pc = "send", !.i = 0]
  <2>1. 0 \in 0 .. MAX_USER
    BY DEF MAX_USER
  <2>2. r \in Locals /\ r.pc = "send"
    BY <2>1, ThreadState DEF Locals, Places
  <2>3. th' = [th EXCEPT ![t] = r]
    BY ThreadState DEF LockBroadcast
  <2> HIDE DEF r
  <2> QED BY <2>2, <2>3, ThreadState DEF Moves
<1>3. bcast' \in Seq(Events)
  <2>1. th[t].event \in Events
    BY <1>1 DEF ServerInv, PlaceInv
  <2> QED BY <2>1, ThreadState DEF LockBroadcast
<1>4. TypeOK' /\ NetInv'
  BY <1>1, <1>2, <1>3, RestKeeps, ThreadState DEF Moves, tableVars, netVars, clientVars
<1>5. PlaceInv' /\ LockInv' /\ SpawnInv' /\ CntInv'
  BY <1>1, <1>2, PlaceMoves DEF tableVars, netVars, ThreadPlaces, Sections
<1> QED BY <1>4, <1>5 DEF ServerInv

LEMMA SendOneKeeps ==
    ASSUME ServerInv, NEW t \in Conns, SendOne(t)
    PROVE  ServerInv'
<1>1. th[t].pc = "send" /\ th[t].i < clnt_cnt /\ th[t].i \in 0 .. MAX_USER
      /\ clnt_cnt \in Int /\ clnt_cnt <= MAX_USER
  BY ThreadState DEF SendOne, At, Locals, ServerInv, TypeOK, NetInv
<1>2. clnt_socks[th[t].i] \in Fds \cup {BadFd}
  BY <1>1 DEF ServerInv, TypeOK, Slots, MAX_USER
<1>3. CASE WriteFailsOrKills(t, clnt_socks[th[t].i])
  BY <1>1, <1>2, <1>3, FailedWriteKeeps
<1>4. CASE /\ WriteArrives(t, clnt_socks[th[t].i], <<"event", th[t].event>>)
           /\ th' = [th EXCEPT ![t].i = @ + 1, ![t].behind = FALSE]
           /\ UNCHANGED <<mutx, tableVars, accepted, clientVars, bcast>>
  <2>1. Moves(t, "send")
    <3>1. th[t].i + 1 \in 0 .. MAX_USER
      BY <1>1 DEF MAX_USER
    <3> DEFINE r == [th[t] EXCEPT !.i = th[t].i + 1, !.behind = FALSE]
    <3>2. r \in Locals /\ r.pc = "send"
      BY <1>1, <3>1, ThreadState DEF Locals, Places
    <3>3. th' = [th EXCEPT ![t] = r]
      BY <1>4, ThreadState
    <3> HIDE DEF r
    <3> QED BY <3>2, <3>3, ThreadState DEF Moves
  <2>2. TypeOK' /\ NetInv'
    BY <1>4, <2>1, RestKeeps, WriteEffect, ThreadState DEF Moves, tableVars, clientVars
  <2>3. PlaceInv' /\ LockInv' /\ SpawnInv' /\ CntInv'
    BY <1>1, <1>4, <2>1, PlaceMoves, WriteEffect DEF tableVars, ThreadPlaces, Sections
  <2> QED BY <2>2, <2>3 DEF ServerInv
<1> QED BY <1>3, <1>4 DEF SendOne

LEMMA SendDoneKeeps ==
    ASSUME ServerInv, NEW t \in Conns, SendDone(t)
    PROVE  ServerInv'
<1>1. th[t].pc = "send" /\ mutx' = None
      /\ UNCHANGED <<proc, tableVars, accepted, netVars, clientVars, bcast>>
  BY DEF SendDone, At
<1>2. mutx = t
  BY <1>1, ThreadState DEF ServerInv, LockInv, Holds, Sections
<1>3. CASE Goto(t, "event")
  <2>1. Moves(t, "event")
    BY <1>3, GotoMoves, ThreadState DEF Places, ServerInv
  <2>2. TypeOK' /\ NetInv'
    BY <1>1, <2>1, RestKeeps, ThreadState DEF Moves, tableVars, netVars, clientVars
  <2>3. PlaceInv' /\ LockInv' /\ SpawnInv' /\ CntInv'
    BY <1>1, <1>2, <2>1, PlaceMoves DEF tableVars, netVars, ThreadPlaces, Sections
  <2> QED BY <2>2, <2>3 DEF ServerInv
<1>4. CASE CallDisconnected(t, th[t].sock, "event", FALSE)
  <2>1. Moves(t, "disc") /\ th'[t].ret = "event"
    BY <1>4, CallMoves, ThreadState DEF Places, ServerInv
  <2>2. TypeOK' /\ NetInv'
    BY <1>1, <2>1, RestKeeps, ThreadState DEF Moves, tableVars, netVars, clientVars
  <2>3. mutx' # t /\ \A s \in Threads \ {t} : mutx' = s <=> mutx = s
    BY <1>1, <1>2, ThreadState, ServerAssumption DEF Threads
  <2>4. "disc" \in Calls /\ "disc" \notin Sections /\ "event" \in Returns \ Holding
    BY DEF Calls, Sections, Returns, Holding
  <2>5. PlaceInv' /\ LockInv' /\ SpawnInv' /\ CntInv'
    BY <1>1, <2>1, <2>3, <2>4, ThreadMoves
       DEF tableVars, netVars, ServerInv, TypeOK
  <2> QED BY <2>2, <2>5 DEF ServerInv
<1> QED BY <1>3, <1>4 DEF SendDone

-----------------------------------------------------------------------------
(* The steps of disconnected, by a client's thread and by main.            *)

\* Inside disconnected a thread is at one of its three places, and it will
\* return to one from which it was called.
LEMMA InCall ==
    ASSUME ServerInv, NEW t \in Threads, th[t].pc \in Calls
    PROVE  /\ IF t = Main THEN th[t].ret = "hello" ELSE t \in Conns /\ th[t].ret \in Returns
           /\ th[t].pc \in {"reset", "close"} => th[t].ret \notin Holding
           /\ mutx = t <=> Holds(t)
           /\ th \in [Threads -> Locals] /\ th[t] \in Locals
           /\ t # None /\ mutx \in Threads \cup {None}
BY ServerAssumption DEF Threads, ServerInv, TypeOK, PlaceInv, LockInv

\* A step of disconnected that does not return.
LEMMA InsideKeeps ==
    ASSUME ServerInv, NEW t \in Threads, NEW p \in Calls, th[t].pc \in Calls, Goto(t, p),
           p \in {"reset", "close"}, th[t].ret \notin Holding,
           IF p = "reset" THEN mutx = None /\ mutx' = t ELSE mutx = t /\ mutx' = None,
           UNCHANGED <<accepted, netVars>>,
           clnt_cnt' \in Int, clnt_cnt' <= clnt_cnt,
           game_start' = game_start \/ clnt_cnt' < MaxUser
    PROVE  PlaceInv' /\ LockInv' /\ SpawnInv' /\ CntInv'
<1> USE ServerAssumption
<1>1. Moves(t, p) /\ th'[t] = [th[t] EXCEPT !.pc = p]
  BY GotoMoves DEF Calls, Places, ServerInv
<1>2. th'[t].ret = th[t].ret /\ th'[t].sock = th[t].sock /\ th'[t].pc = p
  BY <1>1, InCall DEF Locals
<1>3. mutx' = t <=> p \in Sections
  BY InCall DEF Sections
<1>4. \A s \in Threads \ {t} : mutx' = s <=> mutx = s
  BY DEF Threads
<1>5. CASE t = Main
  <2>1. th[Main].ret = "hello" /\ Main \in Threads
    BY <1>5, InCall
  <2>2. \A c \in Conns : c \in Threads /\ c # Main /\ th'[c] = th[c]
    BY <1>1, <1>5 DEF Moves, Threads
  <2>3. PlaceInv'
    BY <1>2, <1>5, <2>1, <2>2 DEF ServerInv, PlaceInv
  <2>4. LockInv'
    BY <1>1, <1>2, <1>3, <1>4, InCall DEF ServerInv, LockInv, Holds, Moves
  <2>5. SpawnInv'
    BY <1>2, <1>5, <2>2 DEF ServerInv, SpawnInv, netVars
  <2>6. CntInv'
    BY <1>2, <1>5 DEF ServerInv, CntInv, TypeOK
  <2> QED BY <2>3, <2>4, <2>5, <2>6
<1>6. CASE t \in Conns
  <2>1. th[t].ret \in Returns /\ th[t].pc # "none" /\ p # "bcast" /\ p # "disc"
    BY <1>6, InCall DEF Calls
  <2> QED BY <1>1, <1>2, <1>3, <1>4, <1>6, <2>1, ThreadMoves DEF netVars
<1> QED BY <1>5, <1>6 DEF Threads

LEMMA DisconnectRemoveKeeps ==
    ASSUME ServerInv, NEW t \in Threads, DisconnectRemove(t)
    PROVE  ServerInv'
<1>1. th[t].pc = "disc" /\ mutx = None /\ mutx' = t /\ clnt_cnt' = clnt_cnt - 1
      /\ Goto(t, "reset")
      /\ UNCHANGED <<proc, usr_cnt, game_start, user_name, accepted, netVars,
                     clientVars, bcast>>
  BY DEF DisconnectRemove, At
<1>2. th[t].ret \notin Holding
  BY <1>1, InCall DEF Calls, Holds
<1>3. clnt_cnt \in Int /\ clnt_cnt <= MAX_USER
  BY DEF ServerInv, TypeOK, NetInv
<1>4. TypeOK'
  <2>1. clnt_socks' \in [Slots -> Fds \cup {BadFd}]
    <3>1. \A s \in Slots : s < clnt_cnt - 1 => s + 1 \in Slots
      BY <1>3 DEF Slots, MAX_USER
    <3>2. clnt_socks \in [Slots -> Fds \cup {BadFd}]
      BY DEF ServerInv, TypeOK
    <3> QED BY <3>1, <3>2 DEF DisconnectRemove
  <2>2. th' \in [Threads -> Locals]
    BY <1>1, GotoMoves DEF Moves, Places, ServerInv
  <2> QED BY <1>1, <1>3, <2>1, <2>2 DEF ServerInv, TypeOK, netVars, clientVars
<1>5. NetInv'
  BY <1>1, <1>3 DEF ServerInv, NetInv, netVars, MAX_USER
<1>6. PlaceInv' /\ LockInv' /\ SpawnInv' /\ CntInv'
  <2>1. clnt_cnt' \in Int /\ clnt_cnt' <= clnt_cnt
    BY <1>1, <1>3
  <2> QED BY <1>1, <1>2, <2>1, InsideKeeps DEF Calls
<1> QED BY <1>4, <1>5, <1>6 DEF ServerInv

LEMMA DisconnectResetKeeps ==
    ASSUME ServerInv, NEW t \in Threads, DisconnectReset(t)
    PROVE  ServerInv'
<1>1. th[t].pc = "reset" /\ mutx' = None /\ clnt_cnt' = clnt_cnt /\ Goto(t, "close")
      /\ UNCHANGED <<proc, clnt_cnt, clnt_socks, user_name, accepted, netVars,
                     clientVars, bcast>>
  BY DEF DisconnectReset, At
<1>2. mutx = t /\ th[t].ret \notin Holding
  BY <1>1, InCall DEF Calls, Holds, Sections
<1>3. /\ game_start' = game_start \/ (game_start' = 0 /\ clnt_cnt = 0)
      /\ usr_cnt' = usr_cnt \/ usr_cnt' = 0
  BY DEF DisconnectReset
<1>4. TypeOK'
  <2>1. th' \in [Threads -> Locals]
    BY <1>1, GotoMoves DEF Moves, Places, ServerInv
  <2> QED BY <1>1, <1>3, <2>1 DEF ServerInv, TypeOK, netVars, clientVars
<1>5. NetInv'
  BY <1>1 DEF ServerInv, NetInv, netVars
<1>6. PlaceInv' /\ LockInv' /\ SpawnInv' /\ CntInv'
  <2>1. clnt_cnt' \in Int /\ clnt_cnt' <= clnt_cnt
    BY <1>1 DEF ServerInv, TypeOK
  <2>2. game_start' = game_start \/ clnt_cnt' < MaxUser
    BY <1>1, <1>3, ServerAssumption
  <2> QED BY <1>1, <1>2, <2>1, <2>2, InsideKeeps DEF Calls
<1> QED BY <1>4, <1>5, <1>6 DEF ServerInv

\* The thread returns to where disconnected was called, without the mutex.
LEMMA DisconnectCloseKeeps ==
    ASSUME ServerInv, NEW t \in Threads, DisconnectClose(t)
    PROVE  ServerInv'
<1> DEFINE p == th[t].ret
<1>1. th[t].pc = "close" /\ Goto(t, p)
      /\ fds' = [f \in Fds |-> IF f = th[t].arg THEN NoConn ELSE fds[f]]
      /\ UNCHANGED <<proc, mutx, tableVars, accepted, link, in, out, clientVars, bcast>>
  BY DEF DisconnectClose, At
<1>2. /\ IF t = Main THEN p = "hello" ELSE t \in Conns /\ p \in Returns
      /\ p \notin Holding /\ th[t] \in Locals /\ p \in Places /\ mutx # t
  BY <1>1, InCall DEF Calls, Locals, Holds, Sections
<1> HIDE DEF p
<1>3. Moves(t, p) /\ th'[t] = [th[t] EXCEPT !.pc = p]
  BY <1>1, <1>2, GotoMoves DEF ServerInv
<1>4. TypeOK'
  <2>1. fds' \in [Fds -> Conns \cup {NoConn}]
    BY <1>1 DEF ServerInv, TypeOK
  <2> QED BY <1>1, <1>3, <2>1 DEF Moves, ServerInv, TypeOK, tableVars, clientVars
<1>5. NetInv'
  <2>1. \A f \in Fds : fds'[f] = fds[f] \/ fds'[f] = NoConn
    BY <1>1
  <2> QED BY <1>1, <2>1 DEF ServerInv, NetInv, tableVars
<1>6. p \notin Calls /\ p \notin Sections /\ p \notin {"disc", "bcast", "none"}
      /\ p \in ThreadPlaces \cup {"hello"}
  BY <1>2 DEF Calls, Sections, Holding, Returns, ThreadPlaces
<1>7. CASE t = Main
  <2>1. ~Holds(Main) /\ th[Main] \in Locals
    BY <1>1, <1>2, <1>7 DEF Holds, Sections
  <2>2. th'[Main].sock = th[Main].sock /\ th'[Main].pc = "hello" /\ p = "hello"
    BY <1>2, <1>3, <1>7 DEF Locals, Moves
  <2>3. ~Holds(Main)'
    BY <2>2 DEF Holds, Sections
  <2>4. CntInv'
    BY <1>1, <1>7, <2>2 DEF ServerInv, CntInv, tableVars, Calls
  <2>5. \/ p \in {"check", "add", "spawn"}
        \/ p \in {"hello"} \cup Calls /\ th'[Main].sock # BadFd
        => accepted \in Conns /\ th[accepted].pc = "none"
    BY <1>1, <1>7, <2>2 DEF ServerInv, SpawnInv, Calls
  <2>6. PlaceInv' /\ LockInv' /\ SpawnInv' /\ CntInv'
    <3>1. p \in MainPlaces \cup Calls
      BY <2>2 DEF MainPlaces
    <3> QED BY <1>1, <1>3, <1>6, <1>7, <2>1, <2>3, <2>4, <2>5, <3>1, MainMoves
  <2> QED BY <1>4, <1>5, <2>6 DEF ServerInv
<1>8. CASE t \in Conns
  <2>1. clnt_cnt' \in Int /\ clnt_cnt' <= clnt_cnt
    BY <1>1 DEF tableVars, ServerInv, TypeOK
  <2>2. t # Main
    BY <1>8, ServerAssumption
  <2>3. PlaceInv' /\ LockInv' /\ SpawnInv' /\ CntInv'
    <3>1. p \in (ThreadPlaces \ {"none"}) \cup Calls
      BY <1>2, <1>6, <2>2 DEF Returns, ThreadPlaces
    <3>2. th[t].pc # "none" /\ Moves(t, p) /\ p \notin Calls /\ p # "bcast"
          /\ p \notin {"reset", "close"}
      BY <1>1, <1>3, <1>6 DEF Calls
    <3>3. mutx' = mutx /\ mutx' # t /\ p \notin Sections /\ p # "disc"
      BY <1>1, <1>2, <1>6
    <3>4. link' = link /\ accepted' = accepted /\ game_start' = game_start
      BY <1>1 DEF tableVars
    <3> QED BY <1>8, <2>1, <3>1, <3>2, <3>3, <3>4, ThreadMoves
  <2> QED BY <1>4, <1>5, <2>3 DEF ServerInv
<1> QED BY <1>2, <1>7, <1>8

-----------------------------------------------------------------------------
(* The steps of main.                                                      *)

LEMMA MainState ==
    ASSUME ServerInv
    PROVE  /\ Main \in Threads /\ Main # None /\ th \in [Threads -> Locals]
           /\ th[Main] \in Locals /\ th[Main].sock \in Fds \cup {BadFd}
           /\ in \in [Conns -> Seq(InMsgs)] /\ bcast \in Seq(Events)
           /\ mutx \in Threads \cup {None}
           /\ user_name \in [0 .. MaxUser - 1 -> Conns \cup {NoConn}]
           /\ link \in [Conns -> {"out", "up", "fin", "rst"}]
           /\ \A c \in Conns : c \in Threads /\ c # Main
BY ServerAssumption DEF Threads, ServerInv, TypeOK, NetInv, Locals

LEMMA MainAcceptKeeps ==
    ASSUME ServerInv, NEW c \in Conns, MainAccept(c)
    PROVE  ServerInv'
<1> DEFINE r == [th[Main] EXCEPT !.pc = "hello", !.sock = LowestFree]
<1>1. link[c] = "out" /\ th[Main].pc = "accept"
      /\ fds' = [fds EXCEPT ![LowestFree] = c] /\ link' = [link EXCEPT ![c] = "up"]
      /\ accepted' = c
      /\ UNCHANGED <<proc, mutx, tableVars, in, out, clientVars, bcast>>
  BY DEF MainAccept, At
<1>2. LowestFree \in Fds /\ fds[LowestFree] = NoConn
  BY <1>1, AcceptFinds
<1>3. r \in Locals /\ r.pc = "hello"
  BY <1>2, MainState DEF Locals, Places
<1>4. th' = [th EXCEPT ![Main] = r]
  BY MainState DEF MainAccept
<1> HIDE DEF r
<1>5. Moves(Main, "hello")
  BY <1>3, <1>4, MainState DEF Moves
<1>6. TypeOK'
  <2>1. fds' \in [Fds -> Conns \cup {NoConn}]
    BY <1>1 DEF ServerInv, TypeOK
  <2>2. link' \in [Conns -> {"out", "up", "fin", "rst"}]
    BY <1>1, MainState
  <2> QED BY <1>1, <1>5, <2>1, <2>2 DEF Moves, ServerInv, TypeOK, tableVars, clientVars
<1>7. NetInv'
  <2>1. \A f \in Fds : fds[f] # NoConn => fds[f] \in Conns /\ fds[f] # c
    BY <1>1 DEF ServerInv, TypeOK, NetInv
  <2>2. \A f \in Fds : fds'[f] = IF f = LowestFree THEN c ELSE fds[f]
    BY <1>1 DEF ServerInv, TypeOK
  <2>3. \A d \in Conns : link'[d] = IF d = c THEN "up" ELSE link[d]
    BY <1>1, MainState
  <2>4. \A f \in Fds : fds'[f] # NoConn => link'[fds'[f]] # "out"
    BY <2>1, <2>2, <2>3 DEF ServerInv, NetInv
  <2>5. \A f, g \in Fds : fds'[f] = fds'[g] /\ fds'[f] # NoConn => f = g
    BY <2>1, <2>2, ServerAssumption DEF ServerInv, NetInv
  <2> QED BY <1>1, <2>4, <2>5 DEF ServerInv, NetInv, tableVars
<1>8. \A d \in Conns : th'[d] = th[d]
  BY <1>5, MainState DEF Moves
<1>9. th'[Main].pc = "hello"
  BY <1>5 DEF Moves
<1>10. PlaceInv'
  BY <1>8, <1>9 DEF ServerInv, PlaceInv, MainPlaces, Calls
<1>11. LockInv'
  BY <1>1, <1>5, <1>9 DEF ServerInv, LockInv, Holds, Sections, Moves
<1>12. SpawnInv'
  <2>1. th[c].pc = "none"
    BY <1>1 DEF ServerInv, SpawnInv
  <2>2. \A d \in Conns : link'[d] = "out" => d # c /\ link[d] = "out"
    BY <1>1, MainState
  <2> QED BY <1>1, <1>8, <1>9, <2>1, <2>2 DEF ServerInv, SpawnInv
<1>13. CntInv'
  BY <1>1, <1>9 DEF ServerInv, CntInv, tableVars
<1> QED BY <1>6, <1>7, <1>10, <1>11, <1>12, <1>13 DEF ServerInv

\* A step of main that changes no more than its own place.
LEMMA MainGoes ==
    ASSUME ServerInv, NEW p, Moves(Main, p), p \in MainPlaces,
           th[Main].pc \in MainPlaces,
           UNCHANGED <<proc, mutx, usr_cnt, user_name, accepted, link, in, clientVars, bcast>>,
           clnt_socks' \in [Slots -> Fds \cup {BadFd}],
           clnt_cnt' \in Int, clnt_cnt' <= MAX_USER, game_start' \in {0, 1},
           fds' \in [Fds -> Conns \cup {NoConn}],
           \A f \in Fds : fds'[f] = fds[f] \/ fds'[f] = NoConn,
           \/ p \in {"check", "add", "spawn"}
           \/ p \in {"hello"} \cup Calls /\ th'[Main].sock # BadFd
           => accepted \in Conns /\ th[accepted].pc = "none",
           CntInv'
    PROVE  ServerInv'
<1>1. TypeOK'
  BY DEF Moves, ServerInv, TypeOK, clientVars
<1>2. NetInv'
  BY DEF ServerInv, NetInv
<1>3. ~Holds(Main) /\ ~Holds(Main)'
  BY DEF Holds, Moves, MainPlaces, Sections
<1>4. p \notin Calls
  BY DEF MainPlaces, Calls
<1>5. PlaceInv' /\ LockInv' /\ SpawnInv'
  BY <1>3, <1>4, MainMoves
<1> QED BY <1>1, <1>2, <1>5 DEF ServerInv

LEMMA MainAcceptFailsKeeps ==
    ASSUME ServerInv, MainAcceptFails
    PROVE  ServerInv'
<1> DEFINE r == [th[Main] EXCEPT !.pc = "hello", !.sock = BadFd]
<1>1. th[Main].pc = "accept"
      /\ UNCHANGED <<proc, mutx, tableVars, accepted, netVars, clientVars, bcast>>
  BY DEF MainAcceptFails, At
<1>2. r \in Locals /\ r.pc = "hello" /\ r.sock = BadFd
  BY MainState DEF Locals, Places
<1>3. th' = [th EXCEPT ![Main] = r]
  BY MainState DEF MainAcceptFails
<1> HIDE DEF r
<1>4. Moves(Main, "hello") /\ th'[Main].sock = BadFd
  BY <1>2, <1>3, MainState DEF Moves
<1>5. CntInv'
  BY <1>1, <1>4 DEF Moves, ServerInv, CntInv, tableVars
<1>6. "hello" \notin {"check", "add", "spawn"} /\ "hello" \in MainPlaces
      /\ "accept" \in MainPlaces
  BY DEF MainPlaces
<1> QED BY <1>1, <1>4, <1>5, <1>6, MainGoes
        DEF tableVars, netVars, clientVars, ServerInv, TypeOK, NetInv

LEMMA MainHelloKeeps ==
    ASSUME ServerInv, MainHello
    PROVE  ServerInv'
<1>1. th[Main].pc = "hello"
  BY DEF MainHello, At
<1>2. CASE WriteFails(Main, th[Main].sock)
  BY <1>1, <1>2, MainState, CallKeeps DEF WriteFails
<1>3. CASE /\ WriteArrives(Main, th[Main].sock, <<"hello", game_start>>)
           /\ th' = [th EXCEPT ![Main].pc = "check", ![Main].behind = FALSE]
           /\ UNCHANGED <<mutx, tableVars, accepted, clientVars, bcast>>
  <2>1. Moves(Main, "check")
    <3> DEFINE r == [th[Main] EXCEPT !.pc = "check", !.behind = FALSE]
    <3>1. r \in Locals /\ r.pc = "check"
      BY MainState DEF Locals, Places
    <3>2. th' = [th EXCEPT ![Main] = r]
      BY <1>3, MainState
    <3> HIDE DEF r
    <3> QED BY <3>1, <3>2, MainState DEF Moves
  <2>2. TypeOK' /\ NetInv'
    BY <1>3, <2>1, RestKeeps, WriteEffect, MainState DEF Moves, tableVars, clientVars
  <2>3. \A c \in Conns : th'[c] = th[c]
    BY <2>1, MainState DEF Moves
  <2>4. th'[Main].pc = "check"
    BY <2>1 DEF Moves
  <2>5. PlaceInv'
    BY <2>3, <2>4 DEF ServerInv, PlaceInv, MainPlaces, Calls
  <2>6. LockInv'
    BY <1>1, <1>3, <2>1, <2>4 DEF ServerInv, LockInv, Holds, Sections, Moves
  <2>7. SpawnInv'
    <3>1. th[Main].sock # BadFd
      <4>1. BadFd \notin Fds
        <5>1. Cardinality(Conns) \in Nat
          BY ServerAssumption, FS_CardinalityType
        <5> QED BY <5>1 DEF BadFd, Fds
      <4> QED BY <1>3, <4>1 DEF WriteArrives, LinkOf, IsOpen
    <3>2. accepted \in Conns /\ th[accepted].pc = "none"
      BY <1>1, <3>1 DEF ServerInv, SpawnInv
    <3>3. \A c \in Conns : link'[c] = "out" => link[c] = "out"
      BY <1>3, WriteEffect
    <3> QED BY <1>3, <2>3, <2>4, <3>2, <3>3 DEF ServerInv, SpawnInv
  <2>8. CntInv'
    BY <1>1, <1>3, <2>4 DEF ServerInv, CntInv, tableVars
  <2> QED BY <2>2, <2>5, <2>6, <2>7, <2>8 DEF ServerInv
<1> QED BY <1>2, <1>3 DEF MainHello

LEMMA MainCheckKeeps ==
    ASSUME ServerInv, MainCheck
    PROVE  ServerInv'
<1>1. th[Main].pc = "check"
      /\ UNCHANGED <<proc, mutx, tableVars, accepted, link, in, out, clientVars, bcast>>
  BY DEF MainCheck, At
<1>2. clnt_cnt \in Int /\ clnt_cnt <= MAX_USER /\ game_start \in {0, 1}
      /\ clnt_socks \in [Slots -> Fds \cup {BadFd}] /\ fds \in [Fds -> Conns \cup {NoConn}]
  BY DEF ServerInv, TypeOK, NetInv
<1>3. accepted \in Conns /\ th[accepted].pc = "none"
  BY <1>1 DEF ServerInv, SpawnInv
<1>4. {"check", "accept", "add"} \subseteq MainPlaces /\ MainPlaces \subseteq Places
  BY DEF MainPlaces, Places
<1>5. CASE /\ Refuses
           /\ fds' = [fds EXCEPT ![th[Main].sock] = NoConn]
           /\ Goto(Main, "accept")
  <2>1. Moves(Main, "accept")
    BY <1>4, <1>5, GotoMoves, MainState DEF ServerInv
  <2>2. CntInv'
    BY <1>1, <2>1 DEF Moves, ServerInv, CntInv, tableVars
  <2>3. fds' \in [Fds -> Conns \cup {NoConn}]
        /\ \A f \in Fds : fds'[f] = fds[f] \/ fds'[f] = NoConn
    BY <1>2, <1>5
  <2>4. "accept" \notin {"check", "add", "spawn"} \cup {"hello"} \cup Calls
    BY DEF Calls
  <2> QED BY <1>1, <1>2, <1>4, <2>1, <2>2, <2>3, <2>4, MainGoes DEF tableVars
<1>6. CASE ~Refuses /\ Goto(Main, "add") /\ UNCHANGED fds
  <2>1. Moves(Main, "add")
    BY <1>4, <1>6, GotoMoves, MainState DEF ServerInv
  <2>2. CntInv'
    BY <1>1, <1>2, <1>6, <2>1 DEF Moves, ServerInv, CntInv, tableVars, Refuses, Calls
  <2> QED BY <1>1, <1>2, <1>3, <1>4, <1>6, <2>1, <2>2, MainGoes DEF tableVars
<1> QED BY <1>5, <1>6 DEF MainCheck

LEMMA MainAddKeeps ==
    ASSUME ServerInv, MainAdd
    PROVE  ServerInv'
<1>1. th[Main].pc = "add"
  BY DEF MainAdd, At
<1>2. clnt_cnt \in Int /\ clnt_cnt < MaxUser /\ MaxUser <= MAX_USER /\ game_start \in {0, 1}
      /\ clnt_socks \in [Slots -> Fds \cup {BadFd}] /\ fds \in [Fds -> Conns \cup {NoConn}]
      /\ MaxUser \in Int
  BY <1>1, ServerAssumption DEF ServerInv, TypeOK, CntInv, MAX_USER
<1>3. accepted \in Conns /\ th[accepted].pc = "none"
  BY <1>1 DEF ServerInv, SpawnInv
<1>4. {"add", "spawn"} \subseteq MainPlaces /\ MainPlaces \subseteq Places
  BY DEF MainPlaces, Places
<1>5. CASE Crash("wild")
  BY <1>5, CrashKeeps
<1>6. CASE /\ clnt_socks' = [clnt_socks EXCEPT ![clnt_cnt] = th[Main].sock]
           /\ clnt_cnt' = clnt_cnt + 1
           /\ Goto(Main, "spawn")
           /\ UNCHANGED <<proc, mutx, usr_cnt, game_start, user_name, accepted,
                          netVars, clientVars, bcast>>
  <2>1. Moves(Main, "spawn")
    BY <1>4, <1>6, GotoMoves, MainState DEF ServerInv
  <2>2. CntInv'
    BY <1>2, <1>6, <2>1 DEF Moves, ServerInv, CntInv, Calls
  <2>3. clnt_socks' \in [Slots -> Fds \cup {BadFd}]
    BY <1>2, <1>6, MainState
  <2>4. clnt_cnt' \in Int /\ clnt_cnt' <= MAX_USER
    BY <1>2, <1>6 DEF MAX_USER
  <2>5. UNCHANGED <<proc, mutx, usr_cnt, user_name, accepted, link, in, clientVars, bcast>>
        /\ fds' = fds /\ game_start' = game_start
    BY <1>6 DEF netVars
  <2> QED BY <1>1, <1>2, <1>3, <1>4, <2>1, <2>2, <2>3, <2>4, <2>5, MainGoes
<1> QED BY <1>5, <1>6 DEF MainAdd

\* The thread that is started is one that has not run.
LEMMA MainSpawnKeeps ==
    ASSUME ServerInv, MainSpawn
    PROVE  ServerInv'
<1>1. th[Main].pc = "spawn"
      /\ th' = [th EXCEPT ![Main].pc = "count", ![accepted].pc = "begin"]
      /\ UNCHANGED <<proc, mutx, tableVars, accepted, netVars, clientVars, bcast>>
  BY DEF MainSpawn, At
<1>2. accepted \in Conns /\ th[accepted].pc = "none" /\ link[accepted] # "out"
  BY <1>1 DEF ServerInv, SpawnInv
<1>3. accepted \in Threads /\ Main \in Threads /\ accepted # Main /\ th \in [Threads -> Locals]
  BY <1>2, MainState
<1>4. /\ th'[Main] = [th[Main] EXCEPT !.pc = "count"]
      /\ th'[accepted] = [th[accepted] EXCEPT !.pc = "begin"]
      /\ \A s \in Threads \ {Main, accepted} : th'[s] = th[s]
      /\ th' \in [Threads -> {th'[s] : s \in Threads}]
  BY <1>1, <1>3
<1>5. /\ th'[Main].pc = "count" /\ th'[accepted].pc = "begin"
      /\ th'[Main] \in Locals /\ th'[accepted] \in Locals
  BY <1>3, <1>4 DEF Locals, Places
<1>6. th' \in [Threads -> Locals]
  <2>1. \A s \in Threads : th'[s] \in Locals
    BY <1>3, <1>4, <1>5
  <2> QED BY <1>4, <2>1
<1>7. TypeOK' /\ NetInv'
  <2>1. link' = link /\ in' = in
    BY <1>1 DEF netVars
  <2> QED BY <1>1, <1>6, <2>1, MainState, RestKeeps DEF tableVars, netVars, clientVars
<1>8. PlaceInv'
  <2>1. ASSUME NEW c \in Conns, c # accepted PROVE th'[c] = th[c]
    BY <1>4, <2>1, MainState
  <2>2. "begin" \in ThreadPlaces /\ "count" \in MainPlaces /\ "begin" \notin Calls
        /\ "count" \notin Calls
    BY DEF ThreadPlaces, MainPlaces, Calls
  <2> QED BY <1>5, <2>1, <2>2 DEF ServerInv, PlaceInv
<1>9. LockInv'
  <2>1. mutx' = mutx
    BY <1>1
  <2>2. ~Holds(Main) /\ ~Holds(accepted)
    BY <1>1, <1>2 DEF Holds, Sections
  <2>3. \A s \in {Main, accepted} :
           ~Holds(s)' /\ ~Holds(s) /\ th'[s].pc \notin {"reset", "close"}
    BY <1>5, <2>2 DEF Holds, Sections
  <2>4. \A s \in Threads \ {Main, accepted} : Holds(s)' <=> Holds(s)
    BY <1>4, <1>1 DEF Holds
  <2>5. ASSUME NEW s \in Threads
        PROVE  /\ mutx' = s <=> Holds(s)'
               /\ th'[s].pc \in {"reset", "close"} => th'[s].ret \notin Holding
    <3>1. CASE s = Main \/ s = accepted
      <4>1. mutx # s
        BY <2>3, <3>1 DEF ServerInv, LockInv
      <4> QED BY <2>1, <2>3, <3>1, <4>1
    <3>2. CASE s \notin {Main, accepted}
      BY <1>4, <2>1, <2>4, <3>2 DEF ServerInv, LockInv
    <3> QED BY <3>1, <3>2
  <2>6. \A s \in Threads :
           /\ mutx' = s <=> Holds(s)'
           /\ th'[s].pc \in {"reset", "close"} => th'[s].ret \notin Holding
    BY <2>5
  <2> QED BY <2>6 DEF LockInv
<1>10. SpawnInv'
  <2>1. \A c \in Conns : link'[c] = "out" => th'[c].pc = "none" /\ accepted' # c
    <3>1. link' = link /\ accepted' = accepted
      BY <1>1 DEF netVars
    <3>2. \A c \in Conns : c # accepted => th'[c] = th[c]
      BY <1>4, MainState
    <3> QED BY <1>2, <3>1, <3>2 DEF ServerInv, SpawnInv
  <2> QED BY <1>5, <2>1 DEF SpawnInv, Calls
<1>11. CntInv'
  BY <1>1, <1>5 DEF ServerInv, CntInv, tableVars, Calls
<1> QED BY <1>7, <1>8, <1>9, <1>10, <1>11 DEF ServerInv

LEMMA MainCountKeeps ==
    ASSUME ServerInv, MainCount
    PROVE  ServerInv'
<1> DEFINE p == IF clnt_cnt = MaxUser THEN "start" ELSE "accept"
<1>1. th[Main].pc = "count" /\ Goto(Main, p)
      /\ UNCHANGED <<proc, mutx, tableVars, accepted, netVars, clientVars, bcast>>
  BY DEF MainCount, At
<1>2. p \in MainPlaces /\ p \in Places /\ "count" \in MainPlaces
      /\ p \notin {"check", "add", "spawn"} \cup {"hello"} \cup Calls
  BY DEF MainPlaces, Places, Calls
<1>3. Moves(Main, p)
  <2> HIDE DEF p
  <2> QED BY <1>1, <1>2, GotoMoves, MainState DEF ServerInv
<1>4. CntInv'
  <2>1. th'[Main].pc = p
    BY <1>3 DEF Moves
  <2>2. UNCHANGED <<clnt_cnt, game_start>> /\ clnt_cnt \in Int /\ MaxUser \in Int
        /\ clnt_cnt <= MaxUser
    BY <1>1, ServerAssumption DEF tableVars, ServerInv, TypeOK, CntInv, MAX_USER
  <2>3. p = "start" \/ clnt_cnt < MaxUser
    BY <2>2
  <2> HIDE DEF p
  <2> QED BY <1>2, <2>1, <2>2, <2>3 DEF CntInv, Calls
<1> HIDE DEF p
<1> QED BY <1>1, <1>2, <1>3, <1>4, MainGoes
        DEF tableVars, netVars, ServerInv, TypeOK, NetInv

LEMMA MainStartKeeps ==
    ASSUME ServerInv, MainStart
    PROVE  ServerInv'
<1>1. th[Main].pc = "start" /\ game_start' = 1 /\ Goto(Main, "accept")
      /\ UNCHANGED <<proc, mutx, clnt_cnt, clnt_socks, usr_cnt, user_name, accepted,
                     netVars, clientVars, bcast>>
  BY DEF MainStart, At
<1>2. {"start", "accept"} \subseteq MainPlaces /\ "accept" \in Places
      /\ "accept" \notin {"check", "add", "spawn"} \cup {"hello"} \cup Calls
  BY DEF MainPlaces, Places, Calls
<1>3. Moves(Main, "accept")
  BY <1>1, <1>2, GotoMoves, MainState DEF ServerInv
<1>4. CntInv'
  BY <1>1, <1>3 DEF Moves, ServerInv, CntInv
<1> QED BY <1>1, <1>2, <1>3, <1>4, MainGoes DEF netVars, ServerInv, TypeOK, NetInv

-----------------------------------------------------------------------------
(* The steps of the clients.                                               *)

\* A step that changes no more than what is sent and how far a client is.
LEMMA ClientKeeps ==
    ASSUME ServerInv,
           UNCHANGED <<proc, mutx, tableVars, th, accepted, fds, bcast>>,
           in' \in [Conns -> Seq(InMsgs)],
           link' \in [Conns -> {"out", "up", "fin", "rst"}],
           \A c \in Conns : link'[c] = "out" => link[c] = "out",
           csent' \in [Conns -> 0 .. 2 + MaxCmds], ended' \in [Conns -> BOOLEAN]
    PROVE  ServerInv'
<1>1. TypeOK'
  BY DEF ServerInv, TypeOK, tableVars
<1>2. NetInv'
  <2>1. \A f \in Fds : fds[f] # NoConn => fds[f] \in Conns
    BY DEF ServerInv, TypeOK
  <2> QED BY <2>1 DEF ServerInv, NetInv, tableVars
<1>3. PlaceInv' /\ LockInv'
  BY DEF ServerInv, PlaceInv, LockInv, Holds
<1>4. SpawnInv' /\ CntInv'
  BY DEF ServerInv, SpawnInv, CntInv, tableVars
<1> QED BY <1>1, <1>2, <1>3, <1>4 DEF ServerInv

LEMMA SendKeeps ==
    ASSUME ServerInv, NEW c \in Conns, NEW msg \in InMsgs, Send(c, msg),
           csent' \in [Conns -> 0 .. 2 + MaxCmds], ended' \in [Conns -> BOOLEAN]
    PROVE  ServerInv'
<1>1. in' = [in EXCEPT ![c] = Append(in[c], msg)] /\ link' = link
      /\ UNCHANGED <<proc, mutx, tableVars, th, accepted, fds, bcast>>
  BY DEF Send
<1>2. in \in [Conns -> Seq(InMsgs)] /\ link \in [Conns -> {"out", "up", "fin", "rst"}]
  BY DEF ServerInv, NetInv, TypeOK
<1>3. in' \in [Conns -> Seq(InMsgs)]
  <2>1. Append(in[c], msg) \in Seq(InMsgs)
    BY <1>2
  <2> QED BY <1>1, <1>2, <2>1
<1> QED BY <1>1, <1>2, <1>3, ClientKeeps

LEMMA ClientStepKeeps ==
    ASSUME ServerInv, NEW c \in Conns, ClientStep(c)
    PROVE  ServerInv'
<1>1. csent \in [Conns -> 0 .. 2 + MaxCmds] /\ ended \in [Conns -> BOOLEAN]
      /\ link \in [Conns -> {"out", "up", "fin", "rst"}] /\ in \in [Conns -> Seq(InMsgs)]
      /\ MaxCmds \in Nat
  BY ServerAssumption DEF ServerInv, TypeOK, NetInv
<1>2. CASE ClientSize(c)
  <2>1. <<"size", c>> \in InMsgs
    BY DEF InMsgs
  <2>2. csent' \in [Conns -> 0 .. 2 + MaxCmds] /\ ended' \in [Conns -> BOOLEAN]
    BY <1>1, <1>2 DEF ClientSize
  <2> QED BY <1>2, <2>1, <2>2, SendKeeps DEF ClientSize
<1>3. CASE ClientName(c)
  <2>1. <<"name", c>> \in InMsgs
    BY DEF InMsgs
  <2>2. csent' \in [Conns -> 0 .. 2 + MaxCmds] /\ ended' \in [Conns -> BOOLEAN]
    BY <1>1, <1>3 DEF ClientName
  <2> QED BY <1>3, <2>1, <2>2, SendKeeps DEF ClientName
<1>4. CASE ClientCommand(c)
  <2>1. csent[c] \in 2 .. 1 + MaxCmds
    BY <1>4 DEF ClientCommand
  <2>2. <<"event", <<c, csent[c] - 1>>>> \in InMsgs
    BY <1>1, <2>1 DEF InMsgs, Events
  <2>3. csent' \in [Conns -> 0 .. 2 + MaxCmds] /\ ended' \in [Conns -> BOOLEAN]
    <3>1. csent[c] + 1 \in 0 .. 2 + MaxCmds
      BY <1>1, <2>1
    <3> QED BY <1>1, <1>4, <3>1 DEF ClientCommand
  <2> QED BY <1>4, <2>2, <2>3, SendKeeps DEF ClientCommand
<1>5. CASE ClientEnd(c)
  <2>1. <<"event", <<c, 0>>>> \in InMsgs
    BY <1>1 DEF InMsgs, Events
  <2>2. csent' \in [Conns -> 0 .. 2 + MaxCmds] /\ ended' \in [Conns -> BOOLEAN]
    BY <1>1, <1>5 DEF ClientEnd
  <2> QED BY <1>5, <2>1, <2>2, SendKeeps DEF ClientEnd
<1>6. CASE ClientLeave(c)
  <2>1. link' \in [Conns -> {"out", "up", "fin", "rst"}]
        /\ \A d \in Conns : link'[d] = "out" => link[d] = "out"
    BY <1>1, <1>6 DEF ClientLeave
  <2>2. UNCHANGED <<proc, mutx, tableVars, th, accepted, fds, in, out, clientVars, bcast>>
    BY <1>6 DEF ClientLeave
  <2> QED BY <1>1, <2>1, <2>2, ClientKeeps DEF clientVars
<1> QED BY <1>2, <1>3, <1>4, <1>5, <1>6 DEF ClientStep

-----------------------------------------------------------------------------
(* The theorems.                                                           *)

LEMMA InitServerInv ==
    ASSUME Init
    PROVE  ServerInv
<1> USE ServerAssumption
<1>1. Main \in Threads /\ \A c \in Conns : c \in Threads /\ c # Main
  BY DEF Threads
<1>2. th = [t \in Threads |-> NewThread(IF t = Main THEN "accept" ELSE "none")]
  BY DEF Init
<1>3. \A t \in Threads : th[t].pc = (IF t = Main THEN "accept" ELSE "none")
  BY <1>2 DEF NewThread
<1>4. TypeOK
  <2>1. \A t \in Threads : th[t] \in Locals
    <3>1. 0 \in 0 .. MAX_USER /\ "accept" \in Places /\ "none" \in Places
      BY DEF MAX_USER, Places
    <3> QED BY <1>2, <3>1 DEF NewThread, Locals
  <2>2. th \in [Threads -> Locals]
    BY <1>2, <2>1
  <2>3. csent \in [Conns -> 0 .. 2 + MaxCmds]
    BY DEF Init
  <2>4. bcast \in Seq(Events)
    BY DEF Init
  <2>5. /\ clnt_socks \in [Slots -> Fds \cup {BadFd}]
        /\ user_name \in [0 .. MaxUser - 1 -> Conns \cup {NoConn}]
        /\ fds \in [Fds -> Conns \cup {NoConn}]
        /\ link \in [Conns -> {"out", "up", "fin", "rst"}]
        /\ ended \in [Conns -> BOOLEAN]
    BY DEF Init
  <2> QED BY <2>2, <2>3, <2>4, <2>5 DEF Init, TypeOK
<1>5. NetInv
  <2>1. in \in [Conns -> Seq(InMsgs)]
    BY DEF Init
  <2> QED BY <2>1 DEF Init, NetInv, MAX_USER
<1>6. PlaceInv
  BY <1>1, <1>3 DEF PlaceInv, MainPlaces, ThreadPlaces, Calls
<1>7. LockInv
  BY <1>3 DEF Init, LockInv, Holds, Sections, Threads
<1>8. SpawnInv
  BY <1>1, <1>3 DEF Init, SpawnInv, Calls
<1>9. CntInv
  BY <1>1, <1>3 DEF Init, CntInv, Calls
<1> QED BY <1>4, <1>5, <1>6, <1>7, <1>8, <1>9 DEF ServerInv

LEMMA NextServerInv ==
    ASSUME ServerInv, [Next]_vars
    PROVE  ServerInv'
<1>1. ASSUME NEW c \in Conns, MainAccept(c) PROVE ServerInv'
  BY <1>1, MainAcceptKeeps
<1>2. ASSUME NEW t \in Conns, ThreadStep(t) PROVE ServerInv'
  BY <1>2, BeginKeeps, ReadSizeKeeps, LockTableKeeps, ReadNameKeeps, WriteIdKeeps,
     UnlockTableKeeps, WriteJsonKeeps, BarrierKeeps, WriteNamesKeeps, ReadEventKeeps,
     LockBroadcastKeeps, SendOneKeeps, SendDoneKeeps DEF ThreadStep
<1>3. ASSUME NEW c \in Conns, ClientStep(c) PROVE ServerInv'
  BY <1>3, ClientStepKeeps
<1>4. CASE MainAcceptFails
  BY <1>4, MainAcceptFailsKeeps
<1>5. CASE MainStep
  BY <1>5, MainHelloKeeps, MainCheckKeeps, MainAddKeeps, MainSpawnKeeps, MainCountKeeps,
     MainStartKeeps DEF MainStep
<1>6. ASSUME NEW t \in Threads, DisconnectedStep(t) PROVE ServerInv'
  BY <1>6, DisconnectRemoveKeeps, DisconnectResetKeeps, DisconnectCloseKeeps
     DEF DisconnectedStep
<1>7. CASE UNCHANGED vars
  BY <1>7, StutterKeeps
<1> QED BY <1>1, <1>2, <1>3, <1>4, <1>5, <1>6, <1>7 DEF Next

LEMMA ServerInvariant == Spec => []ServerInv
<1>1. Init => ServerInv
  BY InitServerInv
<1>2. ServerInv /\ [Next]_vars => ServerInv'
  BY NextServerInv
<1> QED BY <1>1, <1>2, PTL DEF Spec

\* The locals of every thread, the table and the descriptors stay within
\* their types: no thread writes its name outside the table or reads a slot
\* outside it, however many clients come and go.
THEOREM ServerTypeCorrect == Spec => []TypeOK
<1>1. ServerInv => TypeOK
  BY DEF ServerInv
<1> QED BY <1>1, ServerInvariant, PTL

\* The mutex is owned by the thread that is inside a section, and a server
\* that waits for its own mutex does so because a client was lost during the
\* exchange of name and id or during a broadcast (handle_clnt, send_msg_all,
\* disconnected).
THEOREM MutexIsOwned == Spec => []MutexOwned
<1>1. ServerInv => MutexOwned
  BY DEF ServerInv, LockInv, Holds, MutexOwned, Sections, Holding
<1> QED BY <1>1, ServerInvariant, PTL

\* main tests game_start without the mutex, and yet the client table never
\* holds more clients than the game has users.
THEOREM TableBounded == Spec => []CntBounded
<1>1. ServerInv => CntBounded
  BY DEF ServerInv, CntInv, CntBounded
<1> QED BY <1>1, ServerInvariant, PTL

-----------------------------------------------------------------------------
(***************************************************************************)
(* A game that nobody leaves, for any number of connections, users and     *)
(* commands: what handle_clnt and send_msg_all do for the players when no  *)
(* client closes its connection before the game is over, no alarm goes     *)
(* off, accept succeeds and a thread reads its argument in time.           *)
(***************************************************************************)

QuietGame == Leavers = {} /\ Enders = {} /\ ~AcceptMayFail /\ PromptStart

\* What client c writes, and what clients are sent.
Own(c) == ({"size", "name"} \X {c}) \cup ({"event"} \X ({c} \X (1 .. MaxCmds)))

OutMsgs ==
    ({"hello"} \X {0, 1}) \cup ({"id"} \X (0 .. MAX_USER)) \cup {<<"json", 0>>}
      \cup ({"name"} \X Conns) \cup ({"event"} \X Events)

\* Where a thread has written its id, and where it has seen all of them in.
Late == {"unlock", "json", "wait", "names", "event", "bcast", "send"}
PastBarrier == {"names", "event", "bcast", "send"}
Identified == {c \in Conns : th[c].pc \in Late}

\* The part of the table that is in use, and whose descriptor a slot holds.
Seats == {s \in Slots : s < clnt_cnt}
Seated(s) == fds[clnt_socks[s]]

\* No call of disconnected is ever made, and everything read is well formed.
CalmInv ==
    /\ \A t \in Threads : th[t].pc \notin Calls \cup {"done"} /\ ~th[t].behind
    /\ out \in [Conns -> Seq(OutMsgs)]
    /\ \A c \in Conns :
           /\ in[c] \in Seq(Own(c))
           /\ th[c].pc \in {"bcast", "send"} => ~IsEnd(th[c].event)

\* A thread's client was told that it may play and is still there; main is
\* busy with the connection that it accepted.
AdmitInv ==
    /\ \A c \in Conns :
           /\ link[c] = "out" => out[c] = <<>>
           /\ th[c].pc # "none" => Admitted(c) /\ link[c] = "up"
           /\ th[c].pc = "begin" =>
                  /\ th[Main].pc \in {"count", "start", "accept"}
                  /\ th[Main].sock \in Fds /\ fds[th[Main].sock] = c
           /\ th[c].pc \notin {"none", "begin"} => th[c].sock \in Fds /\ fds[th[c].sock] = c
    /\ th[Main].pc \in {"hello", "check", "add", "spawn"} =>
           th[Main].sock \in Fds /\ fds[th[Main].sock] = accepted /\ accepted \in Conns
    /\ th[Main].pc = "hello" => out[accepted] = <<>> /\ link[accepted] = "up"
    /\ th[Main].pc = "check" =>
           \/ out[accepted] = <<<<"hello", 0>>>> /\ link[accepted] = "up"
           \/ out[accepted] = <<<<"hello", 1>>>> /\ game_start = 1
    /\ th[Main].pc \in {"add", "spawn"} =>
           out[accepted] = <<<<"hello", 0>>>> /\ link[accepted] = "up"

\* The slots in use hold the descriptors of the clients with a thread, and of
\* the one that is about to get a thread.
SeatInv ==
    /\ clnt_cnt \in Nat
    /\ \A s \in Seats :
           /\ clnt_socks[s] \in Fds /\ Seated(s) \in Conns
           /\ th[Seated(s)].pc # "none" \/ (th[Main].pc = "spawn" /\ Seated(s) = accepted)
    /\ \A s, r \in Seats : clnt_socks[s] = clnt_socks[r] => s = r
    /\ \A c \in Conns : th[c].pc # "none" => \E s \in Seats : Seated(s) = c
    /\ th[Main].pc = "spawn" => \E s \in Seats : Seated(s) = accepted

\* The id of a client is its slot, and its name is there before its id is
\* sent; usr_cnt counts the clients that have their id.
IdInv ==
    /\ \A c \in Conns :
           /\ th[c].pc \notin Late => SentTo(c, "id") = <<>>
           /\ th[c].pc \in Late =>
                  \E s \in Seats : /\ Seated(s) = c /\ user_name[s] = c
                                   /\ SentTo(c, "id") = <<s>>
           /\ th[c].pc \in {"lock", "name"} => th[c].name_size = 1
           /\ th[c].pc \in {"name", "id"} =>
                  \E s \in Seats : /\ Seated(s) = c /\ th[c].i = s
                                   /\ th[c].pc = "id" => user_name[s] = c
           /\ th[c].pc \in PastBarrier => usr_cnt >= MaxUser
    /\ usr_cnt = Cardinality(Identified)

\* A name that was sent is that of the client whose id is its place.
NameInv ==
    \A c \in Conns :
        /\ th[c].pc \notin PastBarrier => SentTo(c, "name") = <<>>
        /\ th[c].pc = "names" => Len(SentTo(c, "name")) = th[c].i
        /\ SentTo(c, "name") \in Seq(Conns)
        /\ \A k \in DOMAIN SentTo(c, "name") : SentTo(SentTo(c, "name")[k], "id") = <<k - 1>>

\* The table is complete before the first broadcast.  Everybody in it has
\* all the events but perhaps the last one, which the sender is sending.
OrderInv ==
    /\ bcast # <<>> => usr_cnt >= MaxUser
    /\ \A t \in Conns : th[t].pc = "send" =>
           bcast # <<>> /\ th[t].event = bcast[Len(bcast)] /\ th[t].i <= clnt_cnt
    /\ \A c \in Conns : (\A s \in Seats : Seated(s) # c) => EventsTo(c) = <<>>
    /\ \A s \in Seats :
           EventsTo(Seated(s)) =
               IF \E t \in Conns : th[t].pc = "send" /\ th[t].i <= s
               THEN SubSeq(bcast, 1, Len(bcast) - 1) ELSE bcast

GameInv == CalmInv /\ AdmitInv /\ SeatInv /\ IdInv /\ NameInv /\ OrderInv

-----------------------------------------------------------------------------
(* What the messages of a kind carry.                                      *)

\* Induction over the natural numbers, for a set of them.
LEMMA AllNumbers ==
    ASSUME NEW S, 0 \in S, \A n \in Nat : n \in S => n + 1 \in S
    PROVE  Nat \subseteq S
<1> SUFFICES ASSUME Nat \ S # {} PROVE FALSE
  OBVIOUS
<1>1. PICK m \in Nat \ S : \A n \in Nat \ S : m <= n
  BY SmallestNumber
<1>2. m - 1 \in Nat /\ (m - 1) + 1 = m
  BY <1>1
<1>3. m - 1 \in S
  BY <1>1, <1>2
<1> QED BY <1>1, <1>2, <1>3

\* f[n] is what the first n messages of s carry.
Carries(f, s, kind, n) ==
    f = [k \in 0 .. n |-> IF k = 0 THEN <<>>
                          ELSE IF s[k][1] = kind THEN Append(f[k - 1], s[k][2])
                          ELSE f[k - 1]]

LEMMA CarriedIs ==
    ASSUME NEW s, NEW kind
    PROVE  Carried(s, kind) = (CHOOSE f : Carries(f, s, kind, Len(s)))[Len(s)]
BY DEF Carried, Carries

LEMMA CarriesExists ==
    ASSUME NEW s, NEW kind
    PROVE  \A n \in Nat : \E f : Carries(f, s, kind, n)
<1> DEFINE Good == {n \in Nat : \E f : Carries(f, s, kind, n)}
<1>1. 0 \in Good
  <2>1. Carries([k \in 0 .. 0 |-> <<>>], s, kind, 0)
    BY DEF Carries
  <2> QED BY <2>1
<1>2. ASSUME NEW n \in Nat, n \in Good PROVE n + 1 \in Good
  <2>1. PICK f : Carries(f, s, kind, n)
    BY <1>2
  <2> DEFINE g == [k \in 0 .. n + 1 |->
                      IF k = n + 1
                      THEN IF s[n + 1][1] = kind THEN Append(f[n], s[n + 1][2]) ELSE f[n]
                      ELSE f[k]]
             h == [k \in 0 .. n + 1 |->
                      IF k = 0 THEN <<>>
                      ELSE IF s[k][1] = kind THEN Append(g[k - 1], s[k][2]) ELSE g[k - 1]]
  <2>2. ASSUME NEW k \in 0 .. n + 1 PROVE g[k] = h[k]
    <3>1. CASE k = n + 1
      <4>1. k # 0 /\ k - 1 = n /\ n \in 0 .. n + 1 /\ n # n + 1
        BY <3>1
      <4> QED BY <3>1, <4>1
    <3>2. CASE k = 0
      <4>1. 0 \in 0 .. n /\ 0 # n + 1
        OBVIOUS
      <4> QED BY <2>1, <3>2, <4>1 DEF Carries
    <3>3. CASE k # 0 /\ k # n + 1
      <4>1. k \in 0 .. n /\ k - 1 \in 0 .. n /\ k - 1 \in 0 .. n + 1 /\ k - 1 # n + 1
        BY <3>3
      <4>2. g[k] = f[k] /\ g[k - 1] = f[k - 1]
        BY <3>3, <4>1
      <4>3. f[k] = IF s[k][1] = kind THEN Append(f[k - 1], s[k][2]) ELSE f[k - 1]
        BY <2>1, <3>3, <4>1 DEF Carries
      <4> QED BY <3>3, <4>2, <4>3
    <3> QED BY <3>1, <3>2, <3>3
  <2>3. g = h
    BY <2>2
  <2>4. Carries(g, s, kind, n + 1)
    BY <2>3 DEF Carries
  <2> QED BY <2>4
<1>3. Nat \subseteq Good
  BY <1>1, <1>2, AllNumbers
<1> QED BY <1>3

\* One more message does not change what the earlier ones carry.
LEMMA CarriesSame ==
    ASSUME NEW s, NEW r, NEW kind, NEW n \in Nat, NEW f, NEW g,
           \A k \in 1 .. n : s[k] = r[k],
           Carries(f, s, kind, n), Carries(g, r, kind, n + 1)
    PROVE  f[n] = g[n]
<1> DEFINE Same == {k \in Nat : k <= n => f[k] = g[k]}
<1>1. 0 \in Same
  <2>1. 0 \in 0 .. n /\ 0 \in 0 .. n + 1
    OBVIOUS
  <2>2. f[0] = <<>>
    BY <2>1 DEF Carries
  <2>3. g[0] = <<>>
    BY <2>1 DEF Carries
  <2> QED BY <2>2, <2>3
<1>2. ASSUME NEW k \in Nat, k \in Same PROVE k + 1 \in Same
  <2> SUFFICES ASSUME k + 1 <= n PROVE f[k + 1] = g[k + 1]
    OBVIOUS
  <2>1. k + 1 \in 0 .. n /\ k + 1 \in 0 .. n + 1 /\ k + 1 \in 1 .. n /\ k + 1 # 0
        /\ (k + 1) - 1 = k /\ k <= n
    OBVIOUS
  <2>2. f[k + 1] = IF s[k + 1][1] = kind THEN Append(f[k], s[k + 1][2]) ELSE f[k]
    BY <2>1 DEF Carries
  <2>3. g[k + 1] = IF r[k + 1][1] = kind THEN Append(g[k], r[k + 1][2]) ELSE g[k]
    BY <2>1 DEF Carries
  <2> QED BY <1>2, <2>1, <2>2, <2>3
<1>3. Nat \subseteq Same
  BY <1>1, <1>2, AllNumbers
<1> QED BY <1>3

\* A message that is sent comes last, if it is of the kind.
LEMMA CarriedAppend ==
    ASSUME NEW S, NEW s \in Seq(S), NEW m \in S, NEW kind
    PROVE  Carried(Append(s, m), kind) =
               IF m[1] = kind THEN Append(Carried(s, kind), m[2]) ELSE Carried(s, kind)
<1> DEFINE N == Len(s)
           r == Append(s, m)
           f == CHOOSE h : Carries(h, s, kind, N)
           g == CHOOSE h : Carries(h, r, kind, N + 1)
<1>1. N \in Nat /\ Len(r) = N + 1 /\ r[N + 1] = m /\ \A k \in 1 .. N : r[k] = s[k]
  OBVIOUS
<1>2. Carries(f, s, kind, N) /\ Carries(g, r, kind, N + 1)
  <2>1. N + 1 \in Nat
    BY <1>1
  <2> HIDE DEF N, r
  <2> QED BY <1>1, <2>1, CarriesExists
<1>3. Carried(s, kind) = f[N] /\ Carried(r, kind) = g[N + 1]
  BY <1>1, CarriedIs
<1> HIDE DEF f, g, r, N
<1>4. f[N] = g[N]
  <2>1. N \in Nat /\ \A k \in 1 .. N : s[k] = r[k]
    BY <1>1
  <2> QED BY <1>2, <2>1, CarriesSame
<1>5. g[N + 1] = IF r[N + 1][1] = kind THEN Append(g[N], r[N + 1][2]) ELSE g[N]
  <2>1. N + 1 \in 0 .. N + 1 /\ N + 1 # 0 /\ (N + 1) - 1 = N
    BY <1>1
  <2> QED BY <1>2, <2>1 DEF Carries
<1> QED BY <1>1, <1>3, <1>4, <1>5 DEF r

LEMMA CarriedNothing ==
    ASSUME NEW kind
    PROVE  Carried(<<>>, kind) = <<>>
<1> DEFINE f == CHOOSE h : Carries(h, <<>>, kind, 0)
<1>1. Carries(f, <<>>, kind, 0)
  BY CarriesExists
<1>2. Carried(<<>>, kind) = f[0]
  BY CarriedIs
<1> HIDE DEF f
<1> QED BY <1>1, <1>2 DEF Carries

-----------------------------------------------------------------------------
(* Consequences of the invariant.                                          *)

LEMMA BadFdClosed == BadFd \notin Fds
<1>1. Cardinality(Conns) \in Nat
  BY ServerAssumption, FS_CardinalityType
<1> QED BY <1>1 DEF BadFd, Fds

\* A client has one slot.
LEMMA OneSeat ==
    ASSUME ServerInv, SeatInv, NEW s \in Seats, NEW r \in Seats, Seated(s) = Seated(r)
    PROVE  s = r
<1>1. clnt_socks[s] \in Fds /\ clnt_socks[r] \in Fds /\ Seated(s) \in Conns
  BY DEF SeatInv
<1>2. fds[clnt_socks[s]] = fds[clnt_socks[r]] /\ fds[clnt_socks[s]] # NoConn
  BY <1>1, ServerAssumption DEF Seated
<1>3. clnt_socks[s] = clnt_socks[r]
  BY <1>1, <1>2 DEF ServerInv, NetInv
<1> QED BY <1>3 DEF SeatInv

LEMMA SeatsAre ==
    ASSUME ServerInv, SeatInv
    PROVE  /\ Seats = 0 .. clnt_cnt - 1 /\ clnt_cnt \in Nat
           /\ IsFiniteSet(Seats) /\ Cardinality(Seats) = clnt_cnt
           /\ clnt_cnt <= MaxUser /\ MaxUser \in 1 .. MAX_USER
<1>1. clnt_cnt \in Nat /\ clnt_cnt <= MaxUser /\ MaxUser \in 1 .. MAX_USER
  BY ServerAssumption DEF SeatInv, ServerInv, CntInv
<1>2. Seats = 0 .. clnt_cnt - 1
  BY <1>1 DEF Seats, Slots, MAX_USER
<1>3. IsFiniteSet(0 .. clnt_cnt - 1) /\ Cardinality(0 .. clnt_cnt - 1) = clnt_cnt
  <2>1. clnt_cnt - 1 \in Int
    BY <1>1
  <2>2. Cardinality(0 .. clnt_cnt - 1) =
          IF 0 > clnt_cnt - 1 THEN 0 ELSE (clnt_cnt - 1) - 0 + 1
    BY <2>1, FS_Interval
  <2> QED BY <1>1, <2>1, <2>2, FS_Interval
<1> QED BY <1>1, <1>2, <1>3

\* When usr_cnt says that all users are in, the table is full, and everybody
\* in it has its id and is known by name.
LEMMA FullTable ==
    ASSUME ServerInv, SeatInv, IdInv, usr_cnt >= MaxUser
    PROVE  /\ clnt_cnt = MaxUser
           /\ \A s \in Seats : /\ Seated(s) \in Conns /\ th[Seated(s)].pc \in Late
                               /\ user_name[s] = Seated(s)
                               /\ SentTo(Seated(s), "id") = <<s>>
<1> DEFINE Fits(c, s) == /\ Seated(s) = c /\ user_name[s] = c
                         /\ SentTo(c, "id") = <<s>>
           seat == [c \in Identified |-> CHOOSE s \in Seats : Fits(c, s)]
<1>1. ASSUME NEW c \in Identified PROVE seat[c] \in Seats /\ Fits(c, seat[c])
  <2>1. \E s \in Seats : Fits(c, s)
    BY DEF Identified, IdInv
  <2> HIDE DEF Fits
  <2> QED BY <2>1
<1>2. seat \in [Identified -> Seats]
  BY <1>1
<1>3. \A c, d \in Identified : seat[c] = seat[d] => c = d
  BY <1>1
<1> HIDE DEF seat
<1>4. seat \in Injection(Identified, Seats)
  BY <1>2, <1>3 DEF Injection, IsInjective
<1>5. /\ IsFiniteSet(Seats) /\ Cardinality(Seats) = clnt_cnt
      /\ clnt_cnt \in Nat /\ MaxUser \in Nat /\ clnt_cnt <= MaxUser
  BY SeatsAre
<1>6. /\ IsFiniteSet(Identified) /\ Cardinality(Identified) <= Cardinality(Seats)
      /\ Cardinality(Identified) = Cardinality(Seats)
             <=> seat \in Surjection(Identified, Seats)
  BY <1>4, <1>5, FS_Injection
<1>7. usr_cnt = Cardinality(Identified) /\ Cardinality(Identified) \in Nat
  BY <1>6, FS_CardinalityType DEF IdInv
<1>8. clnt_cnt = MaxUser /\ Cardinality(Identified) = Cardinality(Seats)
  BY <1>5, <1>6, <1>7
<1>9. seat \in Surjection(Identified, Seats)
  BY <1>6, <1>8
<1>10. ASSUME NEW s \in Seats
       PROVE  /\ Seated(s) \in Conns /\ th[Seated(s)].pc \in Late
              /\ user_name[s] = Seated(s) /\ SentTo(Seated(s), "id") = <<s>>
  <2>1. PICK c \in Identified : seat[c] = s
    BY <1>9 DEF Surjection
  <2>2. Fits(c, s)
    BY <1>1, <2>1
  <2> QED BY <2>1, <2>2 DEF Identified
<1> QED BY <1>8, <1>10

\* The descriptor of a running thread is that of its client, which is there.
LEMMA OwnLink ==
    ASSUME ServerInv, AdmitInv, NEW t \in Conns, th[t].pc \notin {"none", "begin"}
    PROVE  /\ th[t].sock \in Fds /\ fds[th[t].sock] = t /\ link[t] = "up"
           /\ IsOpen(th[t].sock) /\ LinkOf(th[t].sock) = "up"
BY ServerAssumption DEF AdmitInv, IsOpen, LinkOf

\* What is sent reaches one client and is of one kind.
LEMMA WriteSends ==
    ASSUME ServerInv, CalmInv, NEW t \in Threads, NEW f \in Fds, NEW d \in Conns,
           fds[f] = d, link[d] = "up", NEW m \in OutMsgs, WriteArrives(t, f, m)
    PROVE  /\ out' \in [Conns -> Seq(OutMsgs)]
           /\ UNCHANGED <<proc, fds, in, link>>
           /\ out'[d] = Append(out[d], m)
           /\ \A c \in Conns \ {d} : out'[c] = out[c]
           /\ \A k \in {"id", "name", "event"} :
                  Carried(out'[d], k) = IF m[1] = k THEN Append(Carried(out[d], k), m[2])
                                        ELSE Carried(out[d], k)
           /\ \A c \in Conns : Admitted(c) => Admitted(c)'
<1>1. out \in [Conns -> Seq(OutMsgs)] /\ ~th[t].behind
      /\ link \in [Conns -> {"out", "up", "fin", "rst"}]
  BY DEF CalmInv, ServerInv, TypeOK
<1>2. /\ out' = [out EXCEPT ![d] = Append(out[d], m)]
      /\ link' = [link EXCEPT ![d] = link[d]]
      /\ UNCHANGED <<proc, fds, in>>
  BY <1>1 DEF WriteArrives
<1>3. out[d] \in Seq(OutMsgs) /\ Append(out[d], m) \in Seq(OutMsgs)
  BY <1>1
<1>4. out' \in [Conns -> Seq(OutMsgs)] /\ link' = link
      /\ out'[d] = Append(out[d], m) /\ \A c \in Conns \ {d} : out'[c] = out[c]
  BY <1>1, <1>2, <1>3
<1>5. ASSUME NEW k
      PROVE  Carried(Append(out[d], m), k) =
                 IF m[1] = k THEN Append(Carried(out[d], k), m[2]) ELSE Carried(out[d], k)
  <2> DEFINE q == out[d]
  <2>1. q \in Seq(OutMsgs) /\ m \in OutMsgs
    BY <1>3
  <2> HIDE DEF q
  <2>2. Carried(Append(q, m), k) =
            IF m[1] = k THEN Append(Carried(q, k), m[2]) ELSE Carried(q, k)
    BY <2>1, CarriedAppend
  <2> QED BY <2>2 DEF q
<1>6. ASSUME NEW c \in Conns, Admitted(c) PROVE Admitted(c)'
  <2>1. out[c] \in Seq(OutMsgs) /\ Len(out[c]) > 0 /\ out[c][1] = <<"hello", 0>>
    BY <1>1, <1>6 DEF Admitted
  <2>2. CASE c = d
    <3>1. Len(out'[c]) = Len(out[c]) + 1 /\ out'[c][1] = out[c][1]
      BY <1>3, <1>4, <2>1, <2>2
    <3> QED BY <2>1, <3>1 DEF Admitted
  <2>3. CASE c # d
    BY <1>4, <2>1, <2>3 DEF Admitted
  <2> QED BY <2>2, <2>3
<1> QED BY <1>2, <1>4, <1>5, <1>6

-----------------------------------------------------------------------------
(* What one step of one thread does to the invariant.                      *)

\* Between places of its program after "begin" a thread keeps main, the
\* connections and the table as they are.
LEMMA ThreadFrame ==
    ASSUME ServerInv, AdmitInv, SeatInv, NEW t \in Conns, NEW p, Moves(t, p),
           th[t].pc # "none", p \notin {"none", "begin"},
           th'[t].sock \in Fds, fds[th'[t].sock] = t,
           UNCHANGED <<fds, link, accepted, game_start, clnt_cnt, clnt_socks>>,
           \A c \in Conns : th[c].pc = "none" => out'[c] = out[c],
           \A c \in Conns : Admitted(c) => Admitted(c)'
    PROVE  /\ AdmitInv' /\ SeatInv' /\ Seats' = Seats
           /\ \A s \in Seats : Seated(s)' = Seated(s)
<1>1. /\ t \in Threads /\ t # Main /\ th'[Main] = th[Main] /\ th'[t].pc = p
      /\ \A c \in Conns : c \in Threads /\ (c # t => th'[c] = th[c])
  BY ServerAssumption DEF Threads, Moves
<1>2. \A c \in Conns : th'[c].pc = "none" <=> th[c].pc = "none"
  BY <1>1
<1>3. AdmitInv'
  <2>1. \A c \in Conns :
           /\ link'[c] = "out" => out'[c] = <<>>
           /\ th'[c].pc # "none" => Admitted(c)' /\ link'[c] = "up"
    BY <1>2 DEF AdmitInv, ServerInv, SpawnInv
  <2>2. \A c \in Conns :
           /\ th'[c].pc = "begin" =>
                  /\ th'[Main].pc \in {"count", "start", "accept"}
                  /\ th'[Main].sock \in Fds /\ fds'[th'[Main].sock] = c
           /\ th'[c].pc \notin {"none", "begin"} => th'[c].sock \in Fds /\ fds'[th'[c].sock] = c
    BY <1>1 DEF AdmitInv
  <2>3. th'[Main].pc \in {"hello", "check", "add", "spawn"} =>
           /\ th'[Main].sock \in Fds /\ fds'[th'[Main].sock] = accepted'
           /\ accepted' \in Conns /\ out'[accepted] = out[accepted]
    <3>1. th[Main].pc \in {"hello", "check", "add", "spawn"} =>
              th[Main].sock # BadFd /\ fds[th[Main].sock] = accepted /\ accepted \in Conns
      BY BadFdClosed DEF AdmitInv
    <3>2. th[Main].pc \in {"hello", "check", "add", "spawn"} => th[accepted].pc = "none"
      BY <3>1 DEF ServerInv, SpawnInv
    <3> QED BY <1>1, <3>1, <3>2 DEF AdmitInv
  <2> QED BY <1>1, <2>1, <2>2, <2>3 DEF AdmitInv
<1>4. Seats' = Seats /\ \A s \in Seats : Seated(s)' = Seated(s)
  BY DEF Seats, Seated
<1>5. SeatInv'
  BY <1>1, <1>2, <1>4 DEF SeatInv
<1> QED BY <1>3, <1>4, <1>5

LEMMA CalmFrame ==
    ASSUME CalmInv, NEW t \in Conns, NEW p, Moves(t, p), p \notin Calls \cup {"done"},
           ~th'[t].behind, p \in {"bcast", "send"} => ~IsEnd(th'[t].event),
           out' \in [Conns -> Seq(OutMsgs)],
           \A c \in Conns : in'[c] \in Seq(Own(c))
    PROVE  CalmInv'
BY DEF CalmInv, Moves, Threads

LEMMA IdFrame ==
    ASSUME IdInv, NEW t \in Conns, NEW p, Moves(t, p), th[t].pc \in Late <=> p \in Late,
           Seats' = Seats, \A s \in Seats : Seated(s)' = Seated(s),
           usr_cnt' = usr_cnt,
           \A s \in Seats : Seated(s) # t \/ th[t].pc \in Late => user_name'[s] = user_name[s],
           \A c \in Conns : SentTo(c, "id")' = SentTo(c, "id"),
           p \in {"lock", "name"} => th'[t].name_size = 1,
           p \in {"name", "id"} =>
               \E s \in Seats : /\ Seated(s) = t /\ th'[t].i = s
                                /\ p = "id" => user_name'[s] = t,
           p \in PastBarrier => usr_cnt >= MaxUser
    PROVE  IdInv'
<1>1. th'[t].pc = p /\ \A c \in Conns : c # t => th'[c] = th[c]
  BY DEF Threads, Moves
<1>2. Identified' = Identified
  BY <1>1 DEF Identified
<1>3. ASSUME NEW c \in Conns, c # t
      PROVE  /\ th'[c].pc \notin Late => SentTo(c, "id")' = <<>>
             /\ th'[c].pc \in Late =>
                    \E s \in Seats' : /\ Seated(s)' = c /\ user_name'[s] = c
                                      /\ SentTo(c, "id")' = <<s>>
             /\ th'[c].pc \in {"lock", "name"} => th'[c].name_size = 1
             /\ th'[c].pc \in {"name", "id"} =>
                    \E s \in Seats' : /\ Seated(s)' = c /\ th'[c].i = s
                                      /\ th'[c].pc = "id" => user_name'[s] = c
             /\ th'[c].pc \in PastBarrier => usr_cnt' >= MaxUser
  <2>1. th'[c] = th[c] /\ SentTo(c, "id")' = SentTo(c, "id")
    BY <1>1, <1>3
  <2>2. \A s \in Seats : Seated(s) = c => user_name'[s] = user_name[s] /\ Seated(s)' = c
    BY <1>3
  <2>3. th[c].pc \in {"name", "id"} =>
            \E s \in Seats : /\ Seated(s)' = c /\ th[c].i = s
                             /\ th[c].pc = "id" => user_name'[s] = c
    BY <2>2 DEF IdInv
  <2>4. th[c].pc \in Late =>
            \E s \in Seats : /\ Seated(s)' = c /\ user_name'[s] = c
                             /\ SentTo(c, "id") = <<s>>
    BY <2>2 DEF IdInv
  <2>5. /\ th[c].pc \notin Late => SentTo(c, "id") = <<>>
        /\ th[c].pc \in {"lock", "name"} => th[c].name_size = 1
        /\ th[c].pc \in PastBarrier => usr_cnt >= MaxUser
    BY DEF IdInv
  <2> QED BY <2>1, <2>3, <2>4, <2>5
<1>4. /\ th'[t].pc \notin Late => SentTo(t, "id")' = <<>>
      /\ th'[t].pc \in Late =>
             \E s \in Seats' : /\ Seated(s)' = t /\ user_name'[s] = t
                               /\ SentTo(t, "id")' = <<s>>
      /\ th'[t].pc \in {"lock", "name"} => th'[t].name_size = 1
      /\ th'[t].pc \in {"name", "id"} =>
             \E s \in Seats' : /\ Seated(s)' = t /\ th'[t].i = s
                               /\ th'[t].pc = "id" => user_name'[s] = t
      /\ th'[t].pc \in PastBarrier => usr_cnt' >= MaxUser
  <2>1. p \in Late =>
             \E s \in Seats : /\ Seated(s)' = t /\ user_name'[s] = t
                              /\ SentTo(t, "id") = <<s>>
    BY DEF IdInv
  <2>2. p \notin Late => SentTo(t, "id") = <<>>
    BY DEF IdInv
  <2>3. SentTo(t, "id")' = SentTo(t, "id")
    OBVIOUS
  <2>4. p \in {"name", "id"} =>
            \E s \in Seats : /\ Seated(s)' = t /\ th'[t].i = s
                             /\ p = "id" => user_name'[s] = t
    OBVIOUS
  <2> QED BY <1>1, <2>1, <2>2, <2>3, <2>4
<1>5. usr_cnt' = Cardinality(Identified')
  BY <1>2 DEF IdInv
<1> QED BY <1>3, <1>4, <1>5 DEF IdInv

LEMMA NameFrame ==
    ASSUME NameInv, NEW t \in Conns, NEW p, Moves(t, p),
           \A c \in Conns : SentTo(c, "name")' = SentTo(c, "name"),
           \A c \in Conns : SentTo(c, "id") # <<>> => SentTo(c, "id")' = SentTo(c, "id"),
           p \notin PastBarrier => th[t].pc \notin PastBarrier,
           p = "names" => Len(SentTo(t, "name")) = th'[t].i
    PROVE  NameInv'
<1>1. th'[t].pc = p /\ \A c \in Conns : c # t => th'[c] = th[c]
  BY DEF Threads, Moves
<1>2. ASSUME NEW c \in Conns, NEW k \in DOMAIN SentTo(c, "name")
      PROVE  SentTo(SentTo(c, "name")[k], "id")' = <<k - 1>>
  <2> DEFINE d == SentTo(c, "name")[k]
  <2>1. d \in Conns /\ SentTo(d, "id") = <<k - 1>>
    BY DEF NameInv
  <2>2. SentTo(d, "id")' = <<k - 1>> /\ SentTo(c, "name")' = SentTo(c, "name")
    BY <2>1
  <2> QED BY <2>2
<1>3. \A c \in Conns : th'[c].pc \notin PastBarrier => SentTo(c, "name")' = <<>>
  BY <1>1 DEF NameInv
<1>4. \A c \in Conns : th'[c].pc = "names" => Len(SentTo(c, "name")') = th'[c].i
  BY <1>1 DEF NameInv
<1>5. \A c \in Conns : SentTo(c, "name")' \in Seq(Conns)
  BY DEF NameInv
<1> QED BY <1>2, <1>3, <1>4, <1>5 DEF NameInv

LEMMA OrderFrame ==
    ASSUME OrderInv, NEW t \in Conns, NEW p, Moves(t, p),
           p # "send", th[t].pc # "send",
           Seats' = Seats, \A s \in Seats : Seated(s)' = Seated(s), clnt_cnt' = clnt_cnt,
           bcast' = bcast, usr_cnt >= MaxUser => usr_cnt' >= MaxUser,
           \A s \in Seats : Seated(s) \in Conns,
           \A c \in Conns : EventsTo(c)' = EventsTo(c)
    PROVE  OrderInv'
<1>1. th'[t].pc = p /\ \A c \in Conns : c # t => th'[c] = th[c]
  BY DEF Threads, Moves
<1>2. \A s : (\E c \in Conns : th'[c].pc = "send" /\ th'[c].i <= s)
                 <=> (\E c \in Conns : th[c].pc = "send" /\ th[c].i <= s)
  BY <1>1
<1>3. \A s \in Seats : EventsTo(Seated(s))' = EventsTo(Seated(s))
  BY DEF Seated, EventsTo
<1>4. \A c \in Conns : th'[c].pc = "send" =>
           bcast' # <<>> /\ th'[c].event = bcast'[Len(bcast')] /\ th'[c].i <= clnt_cnt'
  BY <1>1 DEF OrderInv
<1> QED BY <1>2, <1>3, <1>4 DEF OrderInv

LEMMA GameStutters ==
    ASSUME GameInv,
           UNCHANGED <<tableVars, th, accepted, netVars, bcast>>
    PROVE  GameInv'
<1> USE DEF tableVars, netVars
<1>1. CalmInv' /\ AdmitInv'
  BY DEF GameInv, CalmInv, AdmitInv, Admitted
<1>2. Seats' = Seats /\ Identified' = Identified
  BY DEF Seats, Identified
<1>3. SeatInv'
  BY <1>2 DEF GameInv, SeatInv, Seated
<1>4. IdInv'
  BY <1>2 DEF GameInv, IdInv, Seated, SentTo
<1>5. NameInv'
  BY DEF GameInv, NameInv, SentTo
<1>6. OrderInv'
  BY <1>2 DEF GameInv, OrderInv, Seated, EventsTo, SentTo
<1> QED BY <1>1, <1>3, <1>4, <1>5, <1>6 DEF GameInv

LEMMA NothingSent ==
    ASSUME out' = out
    PROVE  \A c : /\ \A k : SentTo(c, k)' = SentTo(c, k)
                  /\ EventsTo(c)' = EventsTo(c)
                  /\ Admitted(c) => Admitted(c)'
BY DEF SentTo, EventsTo, Admitted

\* A step between two places of a thread that sends no event, name or id.
LEMMA QuietMove ==
    ASSUME ServerInv, GameInv, NEW t \in Conns, NEW p, Moves(t, p),
           th[t].pc \notin {"none", "send"},
           p \in ThreadPlaces \ {"none", "begin", "done", "send"},
           th'[t].sock \in Fds, fds[th'[t].sock] = t, ~th'[t].behind,
           p = "bcast" => ~IsEnd(th'[t].event),
           UNCHANGED <<fds, link, accepted, game_start, clnt_cnt, clnt_socks, usr_cnt, bcast>>,
           out' \in [Conns -> Seq(OutMsgs)],
           \A c \in Conns : in'[c] \in Seq(Own(c)),
           \A c \in Conns :
               /\ th[c].pc = "none" => out'[c] = out[c]
               /\ Admitted(c) => Admitted(c)'
               /\ SentTo(c, "id")' = SentTo(c, "id")
               /\ SentTo(c, "name")' = SentTo(c, "name")
               /\ EventsTo(c)' = EventsTo(c),
           \A s \in Seats : Seated(s) # t \/ th[t].pc \in Late => user_name'[s] = user_name[s],
           th[t].pc \in Late <=> p \in Late,
           p \in {"lock", "name"} => th'[t].name_size = 1,
           p \in {"name", "id"} =>
               \E s \in Seats : /\ Seated(s) = t /\ th'[t].i = s
                                /\ p = "id" => user_name'[s] = t,
           p \in PastBarrier => usr_cnt >= MaxUser,
           p \notin PastBarrier => th[t].pc \notin PastBarrier,
           p = "names" => Len(SentTo(t, "name")) = th'[t].i
    PROVE  GameInv'
<1> USE DEF GameInv
<1>1. AdmitInv' /\ SeatInv' /\ Seats' = Seats /\ \A s \in Seats : Seated(s)' = Seated(s)
  <2>1. p \notin {"none", "begin"}
    OBVIOUS
  <2> QED BY <2>1, ThreadFrame
<1>2. CalmInv'
  <2>1. p \notin Calls \cup {"done"} /\ p # "send"
    BY DEF ThreadPlaces, Calls
  <2> QED BY <2>1, CalmFrame
<1>3. IdInv'
  <2>1. usr_cnt' = usr_cnt /\ \A c \in Conns : SentTo(c, "id")' = SentTo(c, "id")
    OBVIOUS
  <2> QED BY <1>1, <2>1, IdFrame
<1>4. NameInv'
  <2>1. \A c \in Conns : /\ SentTo(c, "name")' = SentTo(c, "name")
                         /\ SentTo(c, "id")' = SentTo(c, "id")
    OBVIOUS
  <2> QED BY <2>1, NameFrame
<1>5. OrderInv'
  <2>1. \A c \in Conns : EventsTo(c)' = EventsTo(c)
    OBVIOUS
  <2>2. \A s \in Seats : Seated(s) \in Conns
    BY DEF SeatInv
  <2>3. p # "send" /\ th[t].pc # "send" /\ bcast' = bcast /\ clnt_cnt' = clnt_cnt
        /\ usr_cnt' = usr_cnt
    OBVIOUS
  <2> QED BY <1>1, <2>1, <2>2, <2>3, OrderFrame
<1> QED BY <1>1, <1>2, <1>3, <1>4, <1>5

\* A read either delivers a message of the thread's client or corrupts.
LEMMA QuietRead ==
    ASSUME ServerInv, GameInv, NEW t \in Conns, th[t].pc \notin {"none", "begin"},
           NEW kind, NEW back
    PROVE  /\ ReadGoesWrong(t, kind, back) => GameInv'
           /\ ReadArrives(t, kind) =>
                  /\ NextIn(t) \in Own(t) /\ NextIn(t)[1] = kind
                  /\ \A c \in Conns : in'[c] \in Seq(Own(c))
                  /\ UNCHANGED <<proc, fds, link, out>>
<1>1. LinkOf(th[t].sock) = "up" /\ th[t].sock \in Fds /\ fds[th[t].sock] = t
  BY OwnLink DEF GameInv
<1>2. ASSUME ReadGoesWrong(t, kind, back) PROVE GameInv'
  <2>1. ReadCorrupts(t, kind)
    BY <1>1, <1>2 DEF ReadGoesWrong, ReadEof, ReadFails
  <2> QED BY <2>1, GameStutters DEF ReadCorrupts, Crash
<1>3. ASSUME ReadArrives(t, kind)
      PROVE  /\ NextIn(t) \in Own(t) /\ NextIn(t)[1] = kind
             /\ \A c \in Conns : in'[c] \in Seq(Own(c))
             /\ UNCHANGED <<proc, fds, link, out>>
  <2>1. NextIn(t) = Head(in[t]) /\ in' = [in EXCEPT ![t] = Tail(in[t])]
        /\ NextIn(t)[1] = kind /\ in[t] # <<>> /\ UNCHANGED <<proc, fds, link, out>>
    BY <1>1, <1>3 DEF ReadArrives, HasData, NextIn
  <2>2. \A c \in Conns : in[c] \in Seq(Own(c))
    BY DEF GameInv, CalmInv
  <2>3. in \in [Conns -> Seq(InMsgs)]
    BY DEF ServerInv, NetInv
  <2>4. Head(in[t]) \in Own(t) /\ Tail(in[t]) \in Seq(Own(t))
    <3>1. in[t] \in Seq(Own(t))
      BY <2>2
    <3> QED BY <2>1, <3>1
  <2>5. \A c \in Conns : in'[c] \in Seq(Own(c))
    BY <2>1, <2>2, <2>3, <2>4
  <2> QED BY <2>1, <2>4, <2>5
<1> QED BY <1>2, <1>3

\* A write to a client that is there does not fail.
LEMMA QuietWrite ==
    ASSUME NEW t, NEW f, LinkOf(f) = "up"
    PROVE  ~WriteFailsOrKills(t, f)
BY DEF WriteFailsOrKills, WriteFails, WriteKills

\* What a thread writes on its own descriptor goes to its own client.
LEMMA ThreadWrites ==
    ASSUME ServerInv, GameInv, NEW t \in Conns, th[t].pc \notin {"none", "begin"},
           NEW m \in OutMsgs, WriteArrives(t, th[t].sock, m)
    PROVE  /\ out' \in [Conns -> Seq(OutMsgs)] /\ UNCHANGED <<proc, fds, in, link>>
           /\ \A c \in Conns \ {t} : out'[c] = out[c]
           /\ \A k \in {"id", "name", "event"} :
                  Carried(out'[t], k) = IF m[1] = k THEN Append(Carried(out[t], k), m[2])
                                        ELSE Carried(out[t], k)
           /\ \A c \in Conns : /\ Admitted(c) => Admitted(c)'
                               /\ th[c].pc = "none" => out'[c] = out[c]
<1> DEFINE f == th[t].sock
<1>1. CalmInv /\ t \in Threads /\ f \in Fds /\ fds[f] = t /\ link[t] = "up"
      /\ WriteArrives(t, f, m)
  BY OwnLink, ThreadState DEF GameInv
<1> HIDE DEF f
<1> QED BY <1>1, WriteSends

-----------------------------------------------------------------------------
(* The steps of handle_clnt in a game that nobody leaves.                  *)

LEMMA BeginInGame ==
    ASSUME ServerInv, TypeOK', GameInv, NEW t \in Conns, Begin(t)
    PROVE  GameInv'
<1>1. th[t].pc = "begin" /\ th'[t] = [th[t] EXCEPT !.pc = "size", !.sock = th[Main].sock]
      /\ \A s \in Threads \ {t} : th'[s] = th[s]
      /\ UNCHANGED <<proc, mutx, tableVars, accepted, netVars, clientVars, bcast>>
  BY ThreadState DEF Begin, At
<1>2. Moves(t, "size") /\ th'[t].sock = th[Main].sock /\ th'[t].behind = th[t].behind
  BY <1>1, ThreadState DEF TypeOK, Moves, Locals
<1>3. th[Main].sock \in Fds /\ fds[th[Main].sock] = t /\ ~th[t].behind
      /\ \A c \in Conns : in[c] \in Seq(Own(c))
      /\ out \in [Conns -> Seq(OutMsgs)]
  BY <1>1, ThreadState DEF GameInv, AdmitInv, CalmInv
<1>4. "size" \in ThreadPlaces \ ({"none", "begin", "done", "send"} \cup Late \cup PastBarrier)
      /\ "begin" \notin Late \cup PastBarrier
  BY DEF ThreadPlaces, Late, PastBarrier
<1>5. th[t].pc \notin {"none", "send"} \cup Late \cup PastBarrier
      /\ th'[t].sock \in Fds /\ fds[th'[t].sock] = t /\ ~th'[t].behind
  BY <1>1, <1>2, <1>3, <1>4
<1>6. out' = out /\ in' = in /\ user_name' = user_name
      /\ UNCHANGED <<fds, link, accepted, game_start, clnt_cnt, clnt_socks, usr_cnt, bcast>>
  BY DEF Begin, tableVars, netVars
<1>7. out' \in [Conns -> Seq(OutMsgs)] /\ \A c \in Conns : in'[c] \in Seq(Own(c))
  BY <1>3, <1>6
<1> QED BY <1>2, <1>4, <1>5, <1>6, <1>7, NothingSent, QuietMove

LEMMA ReadSizeInGame ==
    ASSUME ServerInv, TypeOK', GameInv, NEW t \in Conns, ReadSize(t)
    PROVE  GameInv'
<1>1. th[t].pc = "size"
  BY DEF ReadSize, At
<1>2. CASE ReadGoesWrong(t, "size", "lock")
  BY <1>1, <1>2, QuietRead
<1>3. CASE /\ ReadArrives(t, "size")
           /\ th' = [th EXCEPT ![t].pc = "lock", ![t].name_size = 1]
           /\ UNCHANGED <<mutx, tableVars, accepted, clientVars, bcast>>
  <2>1. th'[t] = [th[t] EXCEPT !.pc = "lock", !.name_size = 1]
        /\ \A s \in Threads \ {t} : th'[s] = th[s]
    BY <1>3, ThreadState
  <2>2. Moves(t, "lock") /\ th'[t].sock = th[t].sock /\ th'[t].behind = th[t].behind
        /\ th'[t].name_size = 1
    BY <2>1, ThreadState DEF TypeOK, Moves, Locals
  <2>3. ~th[t].behind /\ out \in [Conns -> Seq(OutMsgs)]
    BY ThreadState DEF GameInv, CalmInv
  <2>4. "lock" \in ThreadPlaces \ ({"none", "begin", "done", "send"} \cup Late \cup PastBarrier)
        /\ "size" \notin Late \cup PastBarrier
    BY DEF ThreadPlaces, Late, PastBarrier
  <2>5. th[t].sock \in Fds /\ fds[th[t].sock] = t
    BY <1>1, OwnLink DEF GameInv
  <2>6. \A c \in Conns : in'[c] \in Seq(Own(c))
    BY <1>1, <1>3, QuietRead
  <2>7. UNCHANGED <<proc, fds, link, out>>
    BY <1>1, <1>3, QuietRead
  <2> QED BY <1>1, <1>3, <2>2, <2>3, <2>4, <2>5, <2>6, <2>7, NothingSent, QuietMove
          DEF tableVars
<1> QED BY <1>2, <1>3 DEF ReadSize

\* The thread finds the slot of its client.
LEMMA LockTableInGame ==
    ASSUME ServerInv, TypeOK', GameInv, NEW t \in Conns, LockTable(t)
    PROVE  GameInv'
<1>1. th[t].pc = "lock"
      /\ UNCHANGED <<proc, tableVars, accepted, netVars, clientVars, bcast>>
  BY DEF LockTable, At
<1>2. th[t].sock \in Fds /\ fds[th[t].sock] = t
  BY <1>1, OwnLink DEF GameInv
<1>3. PICK s \in Seats : Seated(s) = t
  BY <1>1 DEF GameInv, SeatInv
<1>4. clnt_socks[s] = th[t].sock
  <2>1. clnt_socks[s] \in Fds /\ fds[clnt_socks[s]] = t /\ t # NoConn
    BY <1>3, ServerAssumption DEF GameInv, SeatInv, Seated
  <2> QED BY <1>2, <2>1 DEF ServerInv, NetInv
<1>5. SlotsOf(th[t].sock) # {}
  BY <1>4 DEF SlotsOf, Seats
<1>6. FirstSlot(th[t].sock) = s
  <2>1. FirstSlot(th[t].sock) \in SlotsOf(th[t].sock)
    BY <1>5, FirstSlotFound
  <2>2. FirstSlot(th[t].sock) \in Seats /\ clnt_socks[FirstSlot(th[t].sock)] = clnt_socks[s]
    BY <1>4, <2>1 DEF SlotsOf, Seats
  <2> QED BY <2>2 DEF GameInv, SeatInv
<1>7. th'[t] = [th[t] EXCEPT !.pc = "name", !.i = s]
      /\ \A r \in Threads \ {t} : th'[r] = th[r]
  BY <1>5, <1>6, ThreadState DEF LockTable
<1>8. Moves(t, "name") /\ th'[t].sock = th[t].sock /\ th'[t].behind = th[t].behind
      /\ th'[t].i = s /\ th'[t].name_size = 1
  <2>1. th[t].name_size = 1
    BY <1>1 DEF GameInv, IdInv
  <2> QED BY <1>7, <2>1, ThreadState DEF TypeOK, Moves, Locals
<1>9. ~th[t].behind /\ out \in [Conns -> Seq(OutMsgs)] /\ \A c \in Conns : in[c] \in Seq(Own(c))
  BY ThreadState DEF GameInv, CalmInv
<1>10. "name" \in ThreadPlaces \ ({"none", "begin", "done", "send"} \cup Late \cup PastBarrier)
       /\ "lock" \notin Late \cup PastBarrier
  BY DEF ThreadPlaces, Late, PastBarrier
<1> QED BY <1>1, <1>2, <1>3, <1>8, <1>9, <1>10, NothingSent, QuietMove
        DEF tableVars, netVars

\* The name is in the slot before the id is sent.
LEMMA ReadNameInGame ==
    ASSUME ServerInv, TypeOK', GameInv, NEW t \in Conns, ReadName(t)
    PROVE  GameInv'
<1>1. th[t].pc = "name" /\ th[t].name_size = 1
  BY DEF ReadName, At, GameInv, IdInv
<1>2. CASE ReadGoesWrong(t, "name", "id")
  BY <1>1, <1>2, QuietRead
<1>3. CASE /\ ReadArrives(t, "name")
           /\ user_name' = [user_name EXCEPT ![th[t].i] = NextIn(t)[2]]
           /\ Goto(t, "id")
           /\ UNCHANGED <<mutx, clnt_cnt, clnt_socks, usr_cnt, game_start, accepted,
                          clientVars, bcast>>
  <2>1. th'[t] = [th[t] EXCEPT !.pc = "id"]
        /\ \A r \in Threads \ {t} : th'[r] = th[r]
    BY <1>3, ThreadState DEF Goto
  <2>2. Moves(t, "id") /\ th'[t].sock = th[t].sock /\ th'[t].behind = th[t].behind
        /\ th'[t].i = th[t].i
    BY <2>1, ThreadState DEF TypeOK, Moves, Locals
  <2>3. ~th[t].behind /\ out \in [Conns -> Seq(OutMsgs)]
    BY ThreadState DEF GameInv, CalmInv
  <2>4. "id" \in ThreadPlaces \ ({"none", "begin", "done", "send"} \cup Late \cup PastBarrier)
        /\ "name" \notin Late \cup PastBarrier
    BY DEF ThreadPlaces, Late, PastBarrier
  <2>5. th[t].sock \in Fds /\ fds[th[t].sock] = t
    BY <1>1, OwnLink DEF GameInv
  <2>6. (\A c \in Conns : in'[c] \in Seq(Own(c))) /\ UNCHANGED <<proc, fds, link, out>>
        /\ NextIn(t)[2] = t
    BY <1>1, <1>3, QuietRead DEF Own
  <2>7. PICK s \in Seats : Seated(s) = t /\ th[t].i = s
    BY <1>1 DEF GameInv, IdInv
  <2>8. user_name'[s] = t
    <3>1. s \in 0 .. MaxUser - 1
      BY SeatsAre DEF GameInv
    <3> QED BY <1>3, <2>6, <2>7, <3>1, ThreadState
  <2>9. \A r \in Seats : Seated(r) # t => user_name'[r] = user_name[r]
    BY <1>3, <2>7, ThreadState
  <2> QED BY <1>1, <1>3, <2>2, <2>3, <2>4, <2>5, <2>6, <2>7, <2>8, <2>9, NothingSent,
             QuietMove
<1> QED BY <1>1, <1>2, <1>3 DEF ReadName

\* The client has its id, and usr_cnt counts it.
LEMMA WriteIdInGame ==
    ASSUME ServerInv, TypeOK', GameInv, NEW t \in Conns, WriteId(t)
    PROVE  GameInv'
<1>1. th[t].pc = "id" /\ t \in Threads
  BY ThreadState DEF WriteId, At
<1>2. th[t].sock \in Fds /\ fds[th[t].sock] = t /\ LinkOf(th[t].sock) = "up" /\ link[t] = "up"
  BY <1>1, OwnLink DEF GameInv
<1>3. PICK s \in Seats : Seated(s) = t /\ th[t].i = s /\ user_name[s] = t
  BY <1>1 DEF GameInv, IdInv
<1>4. /\ WriteArrives(t, th[t].sock, <<"id", s>>)
      /\ usr_cnt' = usr_cnt + 1
      /\ th' = [th EXCEPT ![t].pc = "unlock", ![t].behind = FALSE]
      /\ UNCHANGED <<mutx, clnt_cnt, clnt_socks, game_start, user_name, accepted,
                     clientVars, bcast>>
  BY <1>2, <1>3, QuietWrite DEF WriteId, IdOf
<1>5. Moves(t, "unlock") /\ th'[t].sock = th[t].sock /\ ~th'[t].behind
  <2>1. th'[t] = [th[t] EXCEPT !.pc = "unlock", !.behind = FALSE]
        /\ \A r \in Threads \ {t} : th'[r] = th[r]
    BY <1>4, ThreadState
  <2> QED BY <2>1, ThreadState DEF TypeOK, Moves, Locals
<1> DEFINE m == <<"id", s>>
<1>6. m \in OutMsgs /\ m[1] = "id" /\ m[2] = s /\ WriteArrives(t, th[t].sock, m)
  <2>1. s \in 0 .. MAX_USER
    BY DEF Seats, Slots, MAX_USER
  <2> QED BY <1>4, <2>1 DEF OutMsgs
<1> HIDE DEF m
<1>7. /\ out' \in [Conns -> Seq(OutMsgs)] /\ UNCHANGED <<proc, fds, in, link>>
      /\ \A c \in Conns \ {t} : out'[c] = out[c]
      /\ \A k \in {"id", "name", "event"} :
             Carried(out'[t], k) = IF m[1] = k THEN Append(Carried(out[t], k), m[2])
                                   ELSE Carried(out[t], k)
      /\ \A c \in Conns : /\ Admitted(c) => Admitted(c)'
                          /\ th[c].pc = "none" => out'[c] = out[c]
  BY <1>1, <1>6, ThreadWrites
<1>8. /\ \A c \in Conns : /\ SentTo(c, "name")' = SentTo(c, "name")
                          /\ EventsTo(c)' = EventsTo(c)
                          /\ c # t => SentTo(c, "id")' = SentTo(c, "id")
      /\ SentTo(t, "id") = <<>> /\ SentTo(t, "id")' = <<s>>
  <2>1. \A c \in Conns : \A k \in {"name", "event"} : Carried(out'[c], k) = Carried(out[c], k)
    BY <1>6, <1>7
  <2>2. \A c \in Conns : c # t => Carried(out'[c], "id") = Carried(out[c], "id")
    BY <1>7
  <2>3. SentTo(t, "id") = <<>>
    BY <1>1 DEF GameInv, IdInv, Late
  <2>4. Carried(out'[t], "id") = Append(<<>>, s)
    BY <1>6, <1>7, <2>3 DEF SentTo
  <2>5. Append(<<>>, s) = <<s>>
    OBVIOUS
  <2> QED BY <2>1, <2>2, <2>3, <2>4, <2>5 DEF SentTo, EventsTo
<1>9. AdmitInv' /\ SeatInv' /\ Seats' = Seats /\ \A r \in Seats : Seated(r)' = Seated(r)
  BY <1>1, <1>2, <1>4, <1>5, <1>7, ThreadFrame DEF GameInv
<1>10. CalmInv'
  <2>1. \A c \in Conns : in'[c] \in Seq(Own(c))
    BY <1>7 DEF GameInv, CalmInv
  <2>2. CalmInv /\ "unlock" \notin Calls \cup {"done", "bcast", "send"}
    BY DEF GameInv, Calls
  <2> QED BY <1>5, <1>7, <2>1, <2>2, CalmFrame
<1>11. /\ "unlock" \in Late \ PastBarrier /\ "id" \notin Late \cup PastBarrier
       /\ \A c \in Conns : c # t => th'[c] = th[c]
       /\ th'[t].pc = "unlock"
  BY <1>5 DEF Late, PastBarrier, Moves, Threads
<1>12. IdInv'
  <2>1. usr_cnt \in Nat /\ MaxUser \in Nat
    BY ServerAssumption DEF ServerInv, TypeOK
  <2>2. ASSUME NEW c \in Conns, c # t
        PROVE  /\ th'[c].pc \notin Late => SentTo(c, "id")' = <<>>
               /\ th'[c].pc \in Late =>
                      \E r \in Seats' : /\ Seated(r)' = c /\ user_name'[r] = c
                                        /\ SentTo(c, "id")' = <<r>>
               /\ th'[c].pc \in {"lock", "name"} => th'[c].name_size = 1
               /\ th'[c].pc \in {"name", "id"} =>
                      \E r \in Seats' : /\ Seated(r)' = c /\ th'[c].i = r
                                        /\ th'[c].pc = "id" => user_name'[r] = c
               /\ th'[c].pc \in PastBarrier => usr_cnt' >= MaxUser
    <3>1. th'[c] = th[c] /\ SentTo(c, "id")' = SentTo(c, "id") /\ user_name' = user_name
      BY <1>4, <1>8, <1>11, <2>2
    <3>2. th[c].pc \in PastBarrier => usr_cnt >= MaxUser
      BY DEF GameInv, IdInv
    <3>3. th[c].pc \in PastBarrier => usr_cnt' >= MaxUser
      BY <1>4, <2>1, <3>2
    <3>4. th[c].pc \in {"name", "id"} =>
              \E r \in Seats : /\ Seated(r)' = c /\ th[c].i = r
                               /\ th[c].pc = "id" => user_name[r] = c
      BY <1>9 DEF GameInv, IdInv
    <3>5. th[c].pc \in Late =>
              \E r \in Seats : /\ Seated(r)' = c /\ user_name[r] = c
                               /\ SentTo(c, "id") = <<r>>
      BY <1>9 DEF GameInv, IdInv
    <3>6. /\ th[c].pc \notin Late => SentTo(c, "id") = <<>>
          /\ th[c].pc \in {"lock", "name"} => th[c].name_size = 1
      BY DEF GameInv, IdInv
    <3> QED BY <1>9, <3>1, <3>3, <3>4, <3>5, <3>6
  <2>3. \E r \in Seats' : Seated(r)' = t /\ user_name'[r] = t /\ SentTo(t, "id")' = <<r>>
    BY <1>3, <1>4, <1>8, <1>9
  <2>4. Identified' = Identified \cup {t} /\ t \notin Identified
    BY <1>1, <1>11 DEF Identified
  <2>5. usr_cnt' = Cardinality(Identified')
    <3>1. IsFiniteSet(Identified)
      BY ServerAssumption, FS_Subset DEF Identified
    <3>2. Cardinality(Identified \cup {t}) = Cardinality(Identified) + 1
      BY <2>4, <3>1, FS_AddElement
    <3> QED BY <1>4, <2>4, <3>2 DEF GameInv, IdInv
  <2> QED BY <1>11, <2>2, <2>3, <2>5 DEF IdInv
<1>13. NameInv'
  <2>1. \A c \in Conns : SentTo(c, "id") # <<>> => SentTo(c, "id")' = SentTo(c, "id")
    BY <1>8
  <2>2. th[t].pc \notin PastBarrier
    BY <1>1, <1>11
  <2> QED BY <1>5, <1>8, <2>1, <2>2, NameFrame DEF GameInv
<1>14. OrderInv'
  <2>1. \A r \in Seats : Seated(r) \in Conns
    BY DEF GameInv, SeatInv
  <2>2. usr_cnt >= MaxUser => usr_cnt' >= MaxUser
    BY <1>4, ServerAssumption DEF ServerInv, TypeOK
  <2> QED BY <1>1, <1>4, <1>5, <1>8, <1>9, <2>1, <2>2, OrderFrame DEF GameInv
<1> QED BY <1>9, <1>10, <1>12, <1>13, <1>14 DEF GameInv

LEMMA UnlockTableInGame ==
    ASSUME ServerInv, TypeOK', GameInv, NEW t \in Conns, UnlockTable(t)
    PROVE  GameInv'
<1>1. th[t].pc = "unlock"
      /\ UNCHANGED <<proc, tableVars, accepted, netVars, clientVars, bcast>>
  BY DEF UnlockTable, At
<1>2. th'[t] = [th[t] EXCEPT !.pc = "json"]
      /\ \A r \in Threads \ {t} : th'[r] = th[r]
  BY ThreadState DEF UnlockTable, Goto
<1>3. Moves(t, "json") /\ th'[t].sock = th[t].sock /\ th'[t].behind = th[t].behind
  BY <1>2, ThreadState DEF TypeOK, Moves, Locals
<1>4. ~th[t].behind /\ out \in [Conns -> Seq(OutMsgs)] /\ \A c \in Conns : in[c] \in Seq(Own(c))
  BY ThreadState DEF GameInv, CalmInv
<1>5. "json" \in (ThreadPlaces \cap Late) \ ({"none", "begin", "done", "send"} \cup PastBarrier)
      /\ "unlock" \in Late \ PastBarrier
  BY DEF ThreadPlaces, Late, PastBarrier
<1>6. th[t].sock \in Fds /\ fds[th[t].sock] = t
  BY <1>1, OwnLink DEF GameInv
<1> QED BY <1>1, <1>3, <1>4, <1>5, <1>6, NothingSent, QuietMove DEF tableVars, netVars

LEMMA WriteJsonInGame ==
    ASSUME ServerInv, TypeOK', GameInv, NEW t \in Conns, WriteJson(t)
    PROVE  GameInv'
<1>1. th[t].pc = "json" /\ t \in Threads
  BY ThreadState DEF WriteJson, At
<1>2. th[t].sock \in Fds /\ fds[th[t].sock] = t /\ LinkOf(th[t].sock) = "up" /\ link[t] = "up"
  BY <1>1, OwnLink DEF GameInv
<1>3. /\ WriteArrives(t, th[t].sock, <<"json", 0>>)
      /\ th' = [th EXCEPT ![t].pc = "wait", ![t].behind = FALSE]
      /\ UNCHANGED <<mutx, tableVars, accepted, clientVars, bcast>>
  BY <1>2, QuietWrite DEF WriteJson
<1>4. th'[t] = [th[t] EXCEPT !.pc = "wait", !.behind = FALSE]
      /\ \A r \in Threads \ {t} : th'[r] = th[r]
  BY <1>3, ThreadState
<1>5. Moves(t, "wait") /\ th'[t].sock = th[t].sock /\ ~th'[t].behind
  BY <1>4, ThreadState DEF TypeOK, Moves, Locals
<1> DEFINE m == <<"json", 0>>
<1>6. m \in OutMsgs /\ m[1] = "json" /\ m[2] = 0 /\ WriteArrives(t, th[t].sock, m)
  BY <1>3 DEF OutMsgs
<1> HIDE DEF m
<1>7. /\ out' \in [Conns -> Seq(OutMsgs)] /\ UNCHANGED <<proc, fds, in, link>>
      /\ \A c \in Conns \ {t} : out'[c] = out[c]
      /\ \A k \in {"id", "name", "event"} :
             Carried(out'[t], k) = IF m[1] = k THEN Append(Carried(out[t], k), m[2])
                                   ELSE Carried(out[t], k)
      /\ \A c \in Conns : /\ Admitted(c) => Admitted(c)'
                          /\ th[c].pc = "none" => out'[c] = out[c]
  BY <1>1, <1>6, ThreadWrites
<1>8. \A c \in Conns : /\ SentTo(c, "id")' = SentTo(c, "id")
                       /\ SentTo(c, "name")' = SentTo(c, "name")
                       /\ EventsTo(c)' = EventsTo(c)
  <2>1. \A c \in Conns : \A k \in {"id", "name", "event"} :
            Carried(out'[c], k) = Carried(out[c], k)
    BY <1>6, <1>7
  <2> QED BY <2>1 DEF SentTo, EventsTo
<1>9. "wait" \in (ThreadPlaces \cap Late) \ ({"none", "begin", "done", "send"} \cup PastBarrier)
      /\ "json" \in Late \ PastBarrier
  BY DEF ThreadPlaces, Late, PastBarrier
<1>10. \A c \in Conns : in[c] \in Seq(Own(c))
  BY DEF GameInv, CalmInv
<1> QED BY <1>1, <1>2, <1>3, <1>5, <1>7, <1>8, <1>9, <1>10, QuietMove DEF tableVars

\* usr_cnt says that all users are in.
LEMMA BarrierInGame ==
    ASSUME ServerInv, TypeOK', GameInv, NEW t \in Conns, Barrier(t)
    PROVE  GameInv'
<1>1. th[t].pc = "wait" /\ usr_cnt >= MaxUser
      /\ UNCHANGED <<proc, tableVars, accepted, netVars, clientVars, bcast>>
  BY DEF Barrier, At, AllIn
<1>2. th'[t] = [th[t] EXCEPT !.pc = "names", !.i = 0]
      /\ \A r \in Threads \ {t} : th'[r] = th[r]
  BY ThreadState DEF Barrier
<1>3. Moves(t, "names") /\ th'[t].sock = th[t].sock /\ th'[t].behind = th[t].behind
      /\ th'[t].i = 0
  BY <1>2, ThreadState DEF TypeOK, Moves, Locals
<1>4. ~th[t].behind /\ out \in [Conns -> Seq(OutMsgs)] /\ \A c \in Conns : in[c] \in Seq(Own(c))
  BY ThreadState DEF GameInv, CalmInv
<1>5. "names" \in (ThreadPlaces \cap Late \cap PastBarrier) \ {"none", "begin", "done", "send"}
      /\ "wait" \in Late \ PastBarrier
  BY DEF ThreadPlaces, Late, PastBarrier
<1>6. th[t].sock \in Fds /\ fds[th[t].sock] = t
  BY <1>1, OwnLink DEF GameInv
<1>7. Len(SentTo(t, "name")) = 0
  <2>1. SentTo(t, "name") = <<>>
    BY <1>1, <1>5 DEF GameInv, NameInv
  <2> QED BY <2>1
<1> QED BY <1>1, <1>3, <1>4, <1>5, <1>6, <1>7, NothingSent, QuietMove DEF tableVars, netVars

\* The name that is sent is the one of the client whose id is its place:
\* usr_cnt has said that the table is complete.
LEMMA WriteNamesInGame ==
    ASSUME ServerInv, TypeOK', GameInv, NEW t \in Conns, WriteNames(t)
    PROVE  GameInv'
<1>1. th[t].pc = "names" /\ t \in Threads /\ th[t] \in Locals
  BY ThreadState DEF WriteNames, At
<1>2. th[t].sock \in Fds /\ fds[th[t].sock] = t /\ LinkOf(th[t].sock) = "up"
  BY <1>1, OwnLink DEF GameInv
<1>3. /\ "names" \in (ThreadPlaces \cap Late \cap PastBarrier) \ {"none", "begin", "done", "send"}
      /\ "event" \in (ThreadPlaces \cap Late \cap PastBarrier) \ {"none", "begin", "done", "send"}
  BY DEF ThreadPlaces, Late, PastBarrier
<1>4. usr_cnt >= MaxUser /\ Len(SentTo(t, "name")) = th[t].i
  BY <1>1, <1>3 DEF GameInv, IdInv, NameInv
<1>5. \A c \in Conns : in[c] \in Seq(Own(c))
  BY DEF GameInv, CalmInv
<1>6. CASE /\ th[t].i = MaxUser
           /\ Goto(t, "event")
           /\ UNCHANGED <<proc, mutx, tableVars, accepted, netVars, clientVars, bcast>>
  <2>1. Moves(t, "event") /\ th'[t] = [th[t] EXCEPT !.pc = "event"]
    BY <1>1, <1>6, GotoMoves DEF ServerInv, Places
  <2>2. th'[t].sock = th[t].sock /\ th'[t].behind = th[t].behind
    BY <1>1, <2>1 DEF Locals
  <2>3. ~th[t].behind /\ out \in [Conns -> Seq(OutMsgs)]
    BY ThreadState DEF GameInv, CalmInv
  <2> QED BY <1>1, <1>2, <1>3, <1>4, <1>5, <1>6, <2>1, <2>2, <2>3, NothingSent, QuietMove
          DEF tableVars, netVars
<1>7. CASE /\ th[t].i < MaxUser
           /\ WriteArrives(t, th[t].sock, <<"name", user_name[th[t].i]>>)
           /\ th' = [th EXCEPT ![t].i = @ + 1, ![t].behind = FALSE]
           /\ UNCHANGED <<mutx, tableVars, accepted, clientVars, bcast>>
  <2>1. PICK i \in Seats : i = th[t].i /\ i \in Nat
    <3>1. th[t].i \in 0 .. MAX_USER /\ clnt_cnt = MaxUser
      BY <1>1, <1>4, FullTable DEF GameInv, Locals
    <3> QED BY <1>7, <3>1, ServerAssumption DEF Seats, Slots, MAX_USER
  <2>2. PICK d \in Conns : d = user_name[i] /\ SentTo(d, "id") = <<i>>
    BY <1>4, FullTable DEF GameInv
  <2> DEFINE m == <<"name", d>>
  <2>3. Moves(t, "names") /\ th'[t].sock = th[t].sock /\ ~th'[t].behind
        /\ th'[t].i = i + 1
    <3>1. th'[t] = [th[t] EXCEPT !.i = i + 1, !.behind = FALSE]
          /\ \A r \in Threads \ {t} : th'[r] = th[r]
      BY <1>7, <2>1, ThreadState
    <3> QED BY <1>1, <3>1, ThreadState DEF TypeOK, Moves, Locals
  <2>4. m \in OutMsgs /\ m[1] = "name" /\ m[2] = d /\ WriteArrives(t, th[t].sock, m)
    BY <1>7, <2>1, <2>2 DEF OutMsgs
  <2> HIDE DEF m
  <2>5. /\ out' \in [Conns -> Seq(OutMsgs)] /\ UNCHANGED <<proc, fds, in, link>>
        /\ \A c \in Conns \ {t} : out'[c] = out[c]
        /\ \A k \in {"id", "name", "event"} :
               Carried(out'[t], k) = IF m[1] = k THEN Append(Carried(out[t], k), m[2])
                                     ELSE Carried(out[t], k)
        /\ \A c \in Conns : /\ Admitted(c) => Admitted(c)'
                            /\ th[c].pc = "none" => out'[c] = out[c]
    BY <1>1, <2>4, ThreadWrites
  <2>6. /\ \A c \in Conns : /\ SentTo(c, "id")' = SentTo(c, "id")
                            /\ EventsTo(c)' = EventsTo(c)
                            /\ c # t => SentTo(c, "name")' = SentTo(c, "name")
        /\ SentTo(t, "name")' = Append(SentTo(t, "name"), d)
    <3>1. \A c \in Conns : \A k \in {"id", "event"} : Carried(out'[c], k) = Carried(out[c], k)
      BY <2>4, <2>5
    <3>2. \A c \in Conns : c # t => Carried(out'[c], "name") = Carried(out[c], "name")
      BY <2>5
    <3>3. Carried(out'[t], "name") = Append(Carried(out[t], "name"), d)
      BY <2>4, <2>5
    <3> QED BY <3>1, <3>2, <3>3 DEF SentTo, EventsTo
  <2>7. UNCHANGED <<clnt_cnt, clnt_socks, usr_cnt, game_start, user_name, accepted, bcast>>
    BY <1>7 DEF tableVars
  <2>8. AdmitInv' /\ SeatInv' /\ Seats' = Seats /\ \A r \in Seats : Seated(r)' = Seated(r)
    BY <1>1, <1>2, <2>3, <2>5, <2>7, ThreadFrame DEF GameInv
  <2>9. CalmInv'
    <3>1. \A c \in Conns : in'[c] \in Seq(Own(c))
      BY <1>5, <2>5
    <3>2. CalmInv /\ "names" \notin Calls \cup {"done", "bcast", "send"}
      BY DEF GameInv, Calls
    <3> QED BY <2>3, <2>5, <3>1, <3>2, CalmFrame
  <2>10. IdInv'
    <3>1. IdInv
      BY DEF GameInv
    <3>2. \A c \in Conns : SentTo(c, "id")' = SentTo(c, "id")
      BY <2>6
    <3> QED BY <1>1, <1>3, <1>4, <2>3, <2>7, <2>8, <3>1, <3>2, IdFrame
  <2>11. OrderInv'
    <3>1. (\A r \in Seats : Seated(r) \in Conns) /\ OrderInv
      BY DEF GameInv, SeatInv
    <3>2. \A c \in Conns : EventsTo(c)' = EventsTo(c)
      BY <2>6
    <3> QED BY <1>1, <2>3, <2>7, <2>8, <3>1, <3>2, OrderFrame
  <2>12. NameInv'
    <3>1. th'[t].pc = "names" /\ \A c \in Conns : c # t => th'[c] = th[c]
      BY <2>3 DEF Moves, Threads
    <3>2. SentTo(t, "name") \in Seq(Conns) /\ Len(SentTo(t, "name")) = i
      BY <1>4, <2>1 DEF GameInv, NameInv
    <3>3. ASSUME NEW c \in Conns, c # t
          PROVE  /\ th'[c].pc \notin PastBarrier => SentTo(c, "name")' = <<>>
                 /\ th'[c].pc = "names" => Len(SentTo(c, "name")') = th'[c].i
                 /\ SentTo(c, "name")' \in Seq(Conns)
                 /\ (\A k \in DOMAIN SentTo(c, "name") :
                         SentTo(SentTo(c, "name")[k], "id") = <<k - 1>>)'
      <4>1. SentTo(c, "name")' = SentTo(c, "name") /\ th'[c] = th[c]
        BY <2>6, <3>1, <3>3
      <4>2. ASSUME NEW k \in DOMAIN SentTo(c, "name"), NEW e, e = SentTo(c, "name")[k]
            PROVE  SentTo(e, "id")' = <<k - 1>>
        <5>1. e \in Conns /\ SentTo(e, "id") = <<k - 1>>
          BY <4>2 DEF GameInv, NameInv
        <5> QED BY <2>6, <5>1
      <4>3. /\ th[c].pc \notin PastBarrier => SentTo(c, "name") = <<>>
            /\ th[c].pc = "names" => Len(SentTo(c, "name")) = th[c].i
            /\ SentTo(c, "name") \in Seq(Conns)
        BY DEF GameInv, NameInv
      <4> QED BY <4>1, <4>2, <4>3
    <3>4. /\ Len(SentTo(t, "name")') = th'[t].i
          /\ SentTo(t, "name")' \in Seq(Conns)
      <4> DEFINE q == SentTo(t, "name")
      <4>1. q \in Seq(Conns) /\ Len(q) = i /\ d \in Conns /\ q' = Append(q, d)
        BY <2>6, <3>2
      <4> HIDE DEF q
      <4>2. Len(q') = i + 1 /\ q' \in Seq(Conns)
        BY <4>1
      <4> QED BY <2>3, <4>2 DEF q
    <3>5. ASSUME NEW k \in DOMAIN SentTo(t, "name")'
          PROVE  SentTo(SentTo(t, "name")[k], "id")' = <<k - 1>>
      <4> DEFINE q == SentTo(t, "name")
      <4>1. q \in Seq(Conns) /\ Len(q) = i /\ i \in Nat /\ d \in Conns
            /\ k \in DOMAIN Append(q, d)
        BY <2>1, <2>2, <2>6, <3>2, <3>5
      <4>2. CASE k = i + 1
        <5>1. Append(q, d)[k] = d /\ k - 1 = i
          BY <2>1, <4>1, <4>2
        <5>2. SentTo(d, "id")' = <<k - 1>>
          BY <2>2, <2>6, <5>1
        <5> QED BY <2>6, <5>1, <5>2
      <4>3. CASE k # i + 1
        <5>1. k \in DOMAIN q /\ Append(q, d)[k] = q[k]
          BY <4>1, <4>3
        <5>2. PICK e \in Conns : e = q[k] /\ SentTo(e, "id") = <<k - 1>>
          BY <5>1 DEF GameInv, NameInv
        <5>3. SentTo(e, "id")' = <<k - 1>>
          BY <2>6, <5>2
        <5> QED BY <2>6, <5>1, <5>2, <5>3
      <4> QED BY <4>2, <4>3
    <3> QED BY <1>3, <3>1, <3>3, <3>4, <3>5 DEF NameInv
  <2> QED BY <2>8, <2>9, <2>10, <2>11, <2>12 DEF GameInv
<1>8. ~WriteFailsOrKills(t, th[t].sock)
  BY <1>2, QuietWrite
<1> QED BY <1>6, <1>7, <1>8 DEF WriteNames

LEMMA ReadEventInGame ==
    ASSUME ServerInv, TypeOK', GameInv, NEW t \in Conns, ReadEvent(t)
    PROVE  GameInv'
<1>1. th[t].pc = "event"
  BY DEF ReadEvent, At
<1>2. CASE ReadGoesWrong(t, "event", "done")
  BY <1>1, <1>2, QuietRead
<1>3. CASE /\ ReadArrives(t, "event")
           /\ th' = [th EXCEPT ![t].pc = "bcast", ![t].event = NextIn(t)[2]]
           /\ UNCHANGED <<mutx, tableVars, accepted, clientVars, bcast>>
  <2>1. th'[t] = [th[t] EXCEPT !.pc = "bcast", !.event = NextIn(t)[2]]
        /\ \A r \in Threads \ {t} : th'[r] = th[r]
    BY <1>3, ThreadState
  <2>2. Moves(t, "bcast") /\ th'[t].sock = th[t].sock /\ th'[t].behind = th[t].behind
        /\ th'[t].event = NextIn(t)[2]
    BY <2>1, ThreadState DEF TypeOK, Moves, Locals
  <2>3. ~th[t].behind /\ out \in [Conns -> Seq(OutMsgs)]
    BY ThreadState DEF GameInv, CalmInv
  <2>4. "bcast" \in (ThreadPlaces \cap Late \cap PastBarrier) \ {"none", "begin", "done", "send"}
        /\ "event" \in Late \cap PastBarrier
    BY DEF ThreadPlaces, Late, PastBarrier
  <2>5. th[t].sock \in Fds /\ fds[th[t].sock] = t
    BY <1>1, OwnLink DEF GameInv
  <2>6. (\A c \in Conns : in'[c] \in Seq(Own(c))) /\ UNCHANGED <<proc, fds, link, out>>
        /\ NextIn(t) \in {"event"} \X ({t} \X (1 .. MaxCmds))
    BY <1>1, <1>3, QuietRead DEF Own
  <2>7. ~IsEnd(th'[t].event)
    BY <2>2, <2>6, ServerAssumption DEF IsEnd
  <2>8. usr_cnt >= MaxUser
    BY <1>1, <2>4 DEF GameInv, IdInv
  <2> QED BY <1>1, <1>3, <2>2, <2>3, <2>4, <2>5, <2>6, <2>7, <2>8, NothingSent, QuietMove
          DEF tableVars
<1> QED BY <1>2, <1>3 DEF ReadEvent

\* Only the owner of the mutex broadcasts.
LEMMA OneSender ==
    ASSUME ServerInv
    PROVE  \A t, r \in Conns : th[t].pc = "send" /\ th[r].pc = "send" => t = r /\ mutx = t
BY DEF ServerInv, LockInv, Holds, Sections, Threads

LEMMA AllButLast ==
    ASSUME NEW S, NEW q \in Seq(S), NEW e \in S
    PROVE  /\ SubSeq(Append(q, e), 1, Len(Append(q, e)) - 1) = q
           /\ Append(q, e)[Len(Append(q, e))] = e /\ Append(q, e) # <<>>
<1>1. Append(q, e) \in Seq(S) /\ Len(Append(q, e)) = Len(q) + 1 /\ Len(q) \in Nat
  OBVIOUS
<1> DEFINE p == SubSeq(Append(q, e), 1, Len(q))
<1>2. p \in Seq(S) /\ Len(p) = Len(q) /\ \A k \in 1 .. Len(q) : p[k] = q[k]
  BY <1>1
<1>3. p = q
  BY <1>2
<1> QED BY <1>1, <1>3

LEMMA LastAgain ==
    ASSUME NEW S, NEW q \in Seq(S), q # <<>>
    PROVE  /\ Append(SubSeq(q, 1, Len(q) - 1), q[Len(q)]) = q
           /\ q[Len(q)] \in S
<1> DEFINE p == SubSeq(q, 1, Len(q) - 1)
           r == Append(p, q[Len(q)])
<1>1. Len(q) \in Nat /\ Len(q) > 0 /\ q[Len(q)] \in S
  OBVIOUS
<1>2. p \in Seq(S) /\ Len(p) = Len(q) - 1 /\ \A k \in 1 .. Len(q) - 1 : p[k] = q[k]
  <2>1. PICK n \in Nat : n = Len(q) - 1
    BY <1>1
  <2>2. SubSeq(q, 1, n) = [k \in 1 .. n |-> q[k]] /\ \A k \in 1 .. n : q[k] \in S
    BY <1>1, <2>1
  <2>3. SubSeq(q, 1, n) \in Seq(S) /\ Len(SubSeq(q, 1, n)) = n
    BY <2>1, <2>2
  <2> QED BY <2>1, <2>2, <2>3
<1>3. r \in Seq(S) /\ Len(r) = Len(q) /\ \A k \in 1 .. Len(q) : r[k] = q[k]
  BY <1>1, <1>2
<1>4. r = q
  BY <1>3
<1> QED BY <1>1, <1>4

\* A broadcast begins: everybody in the table has all the earlier events.
LEMMA LockBroadcastInGame ==
    ASSUME ServerInv, TypeOK', GameInv, NEW t \in Conns, LockBroadcast(t)
    PROVE  GameInv'
<1>1. th[t].pc = "bcast" /\ mutx = None /\ t \in Threads /\ th[t] \in Locals
      /\ UNCHANGED <<proc, tableVars, accepted, netVars, clientVars>>
  BY ThreadState DEF LockBroadcast, At
<1>2. PICK e \in Events : e = th[t].event
  BY <1>1 DEF ServerInv, PlaceInv
<1>3. bcast' = Append(bcast, e) /\ bcast \in Seq(Events)
  BY <1>2, ThreadState DEF LockBroadcast
<1>4. Moves(t, "send") /\ th'[t].sock = th[t].sock /\ th'[t].behind = th[t].behind
      /\ th'[t].i = 0 /\ th'[t].event = e
  <2>1. th'[t] = [th[t] EXCEPT !.pc = "send", !.i = 0]
        /\ \A r \in Threads \ {t} : th'[r] = th[r]
    BY ThreadState DEF LockBroadcast
  <2> QED BY <1>1, <1>2, <2>1, ThreadState DEF TypeOK, Moves, Locals
<1>5. th[t].sock \in Fds /\ fds[th[t].sock] = t
  BY <1>1, OwnLink DEF GameInv
<1>6. ~th[t].behind /\ ~IsEnd(e) /\ out \in [Conns -> Seq(OutMsgs)]
      /\ \A c \in Conns : in[c] \in Seq(Own(c))
  BY <1>1, <1>2 DEF GameInv, CalmInv
<1>7. UNCHANGED <<clnt_cnt, clnt_socks, usr_cnt, game_start, user_name, accepted,
                  fds, link, in, out>>
  BY <1>1 DEF tableVars, netVars
<1>8. "bcast" \in Late \cap PastBarrier /\ "send" \in Late \cap PastBarrier
  BY DEF Late, PastBarrier
<1>9. usr_cnt >= MaxUser
  BY <1>1, <1>8 DEF GameInv, IdInv
<1>10. AdmitInv' /\ SeatInv' /\ Seats' = Seats /\ \A r \in Seats : Seated(r)' = Seated(r)
  BY <1>1, <1>4, <1>5, <1>7, NothingSent, ThreadFrame DEF GameInv
<1>11. CalmInv'
  <2>1. CalmInv /\ "send" \notin Calls \cup {"done"} /\ ~th'[t].behind /\ ~IsEnd(th'[t].event)
    BY <1>4, <1>6 DEF GameInv, Calls
  <2> QED BY <1>4, <1>6, <1>7, <2>1, CalmFrame
<1>12. IdInv'
  <2>1. IdInv /\ \A c \in Conns : SentTo(c, "id")' = SentTo(c, "id")
    BY <1>7, NothingSent DEF GameInv
  <2> QED BY <1>1, <1>4, <1>7, <1>8, <1>9, <1>10, <2>1, IdFrame
<1>13. NameInv'
  <2>1. NameInv /\ \A c \in Conns : /\ SentTo(c, "id")' = SentTo(c, "id")
                                    /\ SentTo(c, "name")' = SentTo(c, "name")
    BY <1>7, NothingSent DEF GameInv
  <2> QED BY <1>4, <1>8, <2>1, NameFrame
<1>14. OrderInv'
  <2>1. th'[t].pc = "send" /\ \A c \in Conns : c # t => th'[c] = th[c]
    BY <1>4 DEF Moves, Threads
  <2>2. \A c \in Conns : th[c].pc # "send"
    BY <1>1, OneSender, ServerAssumption DEF ServerInv, LockInv, Holds, Sections, Threads
  <2>3. SubSeq(bcast', 1, Len(bcast') - 1) = bcast /\ bcast' # <<>> /\ bcast'[Len(bcast')] = e
    BY <1>3, AllButLast
  <2>4. \A c \in Conns : EventsTo(c)' = EventsTo(c)
    BY <1>7, NothingSent
  <2>5. clnt_cnt \in Nat /\ \A s \in Seats : Seated(s) \in Conns /\ s >= 0
    BY DEF GameInv, SeatInv, Seats, Slots
  <2>6. \A s \in Seats : EventsTo(Seated(s)) = bcast
    BY <2>2 DEF GameInv, OrderInv
  <2>7. \A s \in Seats : EventsTo(Seated(s))' = EventsTo(Seated(s))
    BY <1>7 DEF EventsTo, SentTo, Seated
  <2>8. \A c \in Conns : th'[c].pc = "send" =>
            bcast' # <<>> /\ th'[c].event = bcast'[Len(bcast')] /\ th'[c].i <= clnt_cnt'
    BY <1>4, <1>7, <2>1, <2>2, <2>3, <2>5
  <2>9. \A c \in Conns : (\A s \in Seats : Seated(s) # c) => EventsTo(c)' = <<>>
    BY <2>4 DEF GameInv, OrderInv
  <2>10. \A s \in Seats : \E c \in Conns : th'[c].pc = "send" /\ th'[c].i <= s
    BY <1>4, <2>1, <2>5
  <2> QED BY <1>7, <1>9, <1>10, <2>3, <2>6, <2>7, <2>8, <2>9, <2>10 DEF OrderInv
<1> QED BY <1>10, <1>11, <1>12, <1>13, <1>14 DEF GameInv

\* The next client in the table gets the event; it is there.
LEMMA SendOneInGame ==
    ASSUME ServerInv, TypeOK', GameInv, NEW t \in Conns, SendOne(t)
    PROVE  GameInv'
<1>1. th[t].pc = "send" /\ t \in Threads /\ th[t] \in Locals /\ th[t].i < clnt_cnt
  BY ThreadState DEF SendOne, At
<1>2. "send" \in Late \cap PastBarrier
  BY DEF Late, PastBarrier
<1>3. usr_cnt >= MaxUser
  BY <1>1, <1>2 DEF GameInv, IdInv
<1>4. PICK i \in Seats : i = th[t].i /\ i \in Nat
  <2>1. th[t].i \in 0 .. MAX_USER /\ clnt_cnt = MaxUser
    BY <1>1, <1>3, FullTable DEF GameInv, Locals
  <2> QED BY <1>1, <2>1, ServerAssumption DEF Seats, Slots, MAX_USER
<1>5. PICK d \in Conns : d = Seated(i) /\ th[d].pc \in Late
  BY <1>3, FullTable DEF GameInv
<1>6. PICK f \in Fds : f = clnt_socks[i] /\ fds[f] = d
  BY <1>5 DEF GameInv, SeatInv, Seated
<1>7. th[d].pc # "none" /\ link[d] = "up" /\ LinkOf(f) = "up"
  <2>1. th[d].pc # "none" /\ link[d] = "up"
    BY <1>5 DEF Late, GameInv, AdmitInv
  <2> QED BY <1>6, <2>1, ServerAssumption DEF LinkOf, IsOpen
<1>8. PICK e \in Events : e = th[t].event
  <2>1. bcast # <<>> /\ th[t].event = bcast[Len(bcast)] /\ bcast \in Seq(Events)
    BY <1>1, ThreadState DEF GameInv, OrderInv
  <2> QED BY <2>1, LastAgain
<1>9. /\ WriteArrives(t, f, <<"event", e>>)
      /\ th' = [th EXCEPT ![t].i = @ + 1, ![t].behind = FALSE]
      /\ UNCHANGED <<mutx, tableVars, accepted, clientVars, bcast>>
  <2>1. ~WriteFailsOrKills(t, clnt_socks[th[t].i])
    BY <1>4, <1>6, <1>7, QuietWrite
  <2> QED BY <1>4, <1>6, <1>8, <2>1 DEF SendOne
<1>10. Moves(t, "send") /\ th'[t].sock = th[t].sock /\ ~th'[t].behind
       /\ th'[t].i = i + 1 /\ th'[t].event = e
  <2>1. th'[t] = [th[t] EXCEPT !.i = i + 1, !.behind = FALSE]
        /\ \A r \in Threads \ {t} : th'[r] = th[r]
    BY <1>4, <1>9, ThreadState
  <2> QED BY <1>1, <1>8, <2>1, ThreadState DEF TypeOK, Moves, Locals
<1> DEFINE m == <<"event", e>>
<1>11. m \in OutMsgs /\ m[1] = "event" /\ m[2] = e /\ WriteArrives(t, f, m)
  BY <1>9 DEF OutMsgs
<1> HIDE DEF m
<1>12. /\ out' \in [Conns -> Seq(OutMsgs)] /\ UNCHANGED <<proc, fds, in, link>>
       /\ \A c \in Conns \ {d} : out'[c] = out[c]
       /\ \A k \in {"id", "name", "event"} :
              Carried(out'[d], k) = IF m[1] = k THEN Append(Carried(out[d], k), m[2])
                                    ELSE Carried(out[d], k)
       /\ \A c \in Conns : Admitted(c) => Admitted(c)'
  <2>1. CalmInv
    BY DEF GameInv
  <2> QED BY <1>1, <1>6, <1>7, <1>11, <2>1, WriteSends
<1>13. /\ \A c \in Conns : /\ SentTo(c, "id")' = SentTo(c, "id")
                           /\ SentTo(c, "name")' = SentTo(c, "name")
                           /\ c # d => EventsTo(c)' = EventsTo(c)
       /\ EventsTo(d)' = Append(EventsTo(d), e)
  <2>1. \A c \in Conns : \A k \in {"id", "name"} : Carried(out'[c], k) = Carried(out[c], k)
    BY <1>11, <1>12
  <2>2. \A c \in Conns : c # d => Carried(out'[c], "event") = Carried(out[c], "event")
    BY <1>12
  <2>3. Carried(out'[d], "event") = Append(Carried(out[d], "event"), e)
    BY <1>11, <1>12
  <2> QED BY <2>1, <2>2, <2>3 DEF SentTo, EventsTo
<1>14. UNCHANGED <<clnt_cnt, clnt_socks, usr_cnt, game_start, user_name, accepted, bcast>>
  BY <1>9 DEF tableVars
<1>15. th[t].sock \in Fds /\ fds[th[t].sock] = t
  BY <1>1, OwnLink DEF GameInv
<1>16. AdmitInv' /\ SeatInv' /\ Seats' = Seats /\ \A r \in Seats : Seated(r)' = Seated(r)
  <2>1. \A c \in Conns : th[c].pc = "none" => out'[c] = out[c]
    BY <1>7, <1>12
  <2> QED BY <1>1, <1>10, <1>12, <1>14, <1>15, <2>1, ThreadFrame DEF GameInv
<1>17. CalmInv'
  <2>1. \A c \in Conns : in'[c] \in Seq(Own(c))
    BY <1>12 DEF GameInv, CalmInv
  <2>2. CalmInv /\ "send" \notin Calls \cup {"done"} /\ ~IsEnd(th'[t].event)
    BY <1>1, <1>8, <1>10 DEF GameInv, CalmInv, Calls
  <2> QED BY <1>10, <1>12, <2>1, <2>2, CalmFrame
<1>18. IdInv'
  <2>1. IdInv /\ \A c \in Conns : SentTo(c, "id")' = SentTo(c, "id")
    BY <1>13 DEF GameInv
  <2> QED BY <1>1, <1>2, <1>3, <1>10, <1>14, <1>16, <2>1, IdFrame
<1>19. NameInv'
  <2>1. NameInv /\ \A c \in Conns : /\ SentTo(c, "id")' = SentTo(c, "id")
                                    /\ SentTo(c, "name")' = SentTo(c, "name")
    BY <1>13 DEF GameInv
  <2> QED BY <1>2, <1>10, <2>1, NameFrame
<1>20. OrderInv'
  <2>1. th'[t].pc = "send" /\ \A c \in Conns : c # t => th'[c] = th[c]
    BY <1>10 DEF Moves, Threads
  <2>2. \A c \in Conns : th[c].pc = "send" => c = t
    BY <1>1, OneSender
  <2>3. bcast # <<>> /\ e = bcast[Len(bcast)] /\ bcast \in Seq(Events)
    BY <1>1, <1>8, ThreadState DEF GameInv, OrderInv
  <2>4. Append(SubSeq(bcast, 1, Len(bcast) - 1), e) = bcast
    BY <2>3, LastAgain
  <2>5. clnt_cnt \in Nat /\ \A s \in Seats : Seated(s) \in Conns /\ s \in Nat
    BY DEF GameInv, SeatInv, Seats, Slots
  <2>6. \A c \in Conns : th'[c].pc = "send" =>
            bcast' # <<>> /\ th'[c].event = bcast'[Len(bcast')] /\ th'[c].i <= clnt_cnt'
    BY <1>1, <1>4, <1>10, <1>14, <2>1, <2>2, <2>3, <2>5
  <2>7. \A c \in Conns : (\A s \in Seats : Seated(s) # c) => EventsTo(c)' = <<>>
    BY <1>5, <1>13 DEF GameInv, OrderInv
  <2>8. ASSUME NEW s \in Seats, NEW c \in Conns, c = Seated(s)
        PROVE  EventsTo(c)' = IF \E r \in Conns : th'[r].pc = "send" /\ th'[r].i <= s
                              THEN SubSeq(bcast, 1, Len(bcast) - 1) ELSE bcast
    <3>1. (\E r \in Conns : th'[r].pc = "send" /\ th'[r].i <= s) <=> i + 1 <= s
      BY <1>10, <2>1, <2>2
    <3>2. (\E r \in Conns : th[r].pc = "send" /\ th[r].i <= s) <=> i <= s
      BY <1>1, <1>4, <2>2
    <3>3. EventsTo(c) = IF i <= s THEN SubSeq(bcast, 1, Len(bcast) - 1) ELSE bcast
      BY <2>8, <3>2 DEF GameInv, OrderInv
    <3>4. CASE s = i
      <4>1. c = d /\ i <= s /\ ~(i + 1 <= s)
        BY <1>4, <1>5, <2>8, <3>4
      <4>2. EventsTo(d) = SubSeq(bcast, 1, Len(bcast) - 1)
        BY <3>3, <4>1
      <4>3. EventsTo(d)' = bcast
        BY <1>13, <2>4, <4>2
      <4> QED BY <3>1, <4>1, <4>3
    <3>5. CASE s # i
      <4>1. c # d
        BY <1>5, <2>8, <3>5, OneSeat DEF GameInv
      <4>2. i \in Int /\ s \in Int
        BY <2>5
      <4>3. i + 1 <= s <=> i <= s
        BY <3>5, <4>2
      <4> QED BY <1>13, <3>1, <3>3, <4>1, <4>3
    <3> QED BY <3>4, <3>5
  <2>9. ASSUME NEW s \in Seats'
        PROVE  EventsTo(Seated(s))' = IF \E r \in Conns : th'[r].pc = "send" /\ th'[r].i <= s
                                      THEN SubSeq(bcast', 1, Len(bcast') - 1) ELSE bcast'
    <3>1. s \in Seats
      BY <1>16
    <3>2. PICK c \in Conns : c = Seated(s)
      BY <2>5, <3>1
    <3>3. EventsTo(Seated(s))' = EventsTo(c)'
      BY <1>16, <3>1, <3>2 DEF EventsTo, SentTo
    <3> QED BY <1>14, <2>8, <3>1, <3>2, <3>3
  <2>10. \A c \in Conns : (\A s \in Seats' : Seated(s)' # c) => EventsTo(c)' = <<>>
    BY <1>16, <2>7
  <2>11. bcast' # <<>> => usr_cnt' >= MaxUser
    BY <1>3, <1>14
  <2> QED BY <2>6, <2>9, <2>10, <2>11 DEF OrderInv
<1> QED BY <1>16, <1>17, <1>18, <1>19, <1>20 DEF GameInv

\* When the loop is over everybody in the table has the event.
LEMMA SendDoneInGame ==
    ASSUME ServerInv, TypeOK', GameInv, NEW t \in Conns, SendDone(t)
    PROVE  GameInv'
<1>1. th[t].pc = "send" /\ t \in Threads /\ th[t] \in Locals /\ th[t].i >= clnt_cnt
      /\ UNCHANGED <<proc, tableVars, accepted, netVars, clientVars, bcast>>
  BY ThreadState DEF SendDone, At
<1>2. Goto(t, "event")
  BY <1>1 DEF SendDone, GameInv, CalmInv
<1>3. Moves(t, "event") /\ th'[t].sock = th[t].sock /\ th'[t].behind = th[t].behind
  <2>1. Moves(t, "event") /\ th'[t] = [th[t] EXCEPT !.pc = "event"]
    BY <1>1, <1>2, GotoMoves DEF ServerInv, Places
  <2> QED BY <1>1, <2>1 DEF Locals
<1>4. th[t].sock \in Fds /\ fds[th[t].sock] = t
  BY <1>1, OwnLink DEF GameInv
<1>5. ~th[t].behind /\ out \in [Conns -> Seq(OutMsgs)]
      /\ \A c \in Conns : in[c] \in Seq(Own(c))
  BY <1>1 DEF GameInv, CalmInv
<1>6. UNCHANGED <<clnt_cnt, clnt_socks, usr_cnt, game_start, user_name, accepted,
                  fds, link, in, out, bcast>>
  BY <1>1 DEF tableVars, netVars
<1>7. "event" \in Late \cap PastBarrier /\ "send" \in Late \cap PastBarrier
  BY DEF Late, PastBarrier
<1>8. usr_cnt >= MaxUser
  BY <1>1, <1>7 DEF GameInv, IdInv
<1>9. AdmitInv' /\ SeatInv' /\ Seats' = Seats /\ \A r \in Seats : Seated(r)' = Seated(r)
  BY <1>1, <1>3, <1>4, <1>6, NothingSent, ThreadFrame DEF GameInv
<1>10. CalmInv'
  <2>1. CalmInv /\ "event" \notin Calls \cup {"done", "bcast", "send"} /\ ~th'[t].behind
    BY <1>3, <1>5 DEF GameInv, Calls
  <2> QED BY <1>3, <1>5, <1>6, <2>1, CalmFrame
<1>11. IdInv'
  <2>1. IdInv /\ \A c \in Conns : SentTo(c, "id")' = SentTo(c, "id")
    BY <1>6, NothingSent DEF GameInv
  <2> QED BY <1>1, <1>3, <1>6, <1>7, <1>8, <1>9, <2>1, IdFrame
<1>12. NameInv'
  <2>1. NameInv /\ \A c \in Conns : /\ SentTo(c, "id")' = SentTo(c, "id")
                                    /\ SentTo(c, "name")' = SentTo(c, "name")
    BY <1>6, NothingSent DEF GameInv
  <2> QED BY <1>3, <1>7, <2>1, NameFrame
<1>13. OrderInv'
  <2>1. th'[t].pc = "event" /\ \A c \in Conns : c # t => th'[c] = th[c]
    BY <1>3 DEF Moves, Threads
  <2>2. \A c \in Conns : th[c].pc = "send" => c = t
    BY <1>1, OneSender
  <2>3. \A c \in Conns : th'[c].pc # "send"
    BY <2>1, <2>2
  <2>4. \A s \in Seats : ~(th[t].i <= s)
    <3>1. th[t].i \in Int /\ clnt_cnt \in Int
      BY <1>1 DEF Locals, ServerInv, TypeOK
    <3> QED BY <1>1, <3>1 DEF Seats, Slots
  <2>5. \A s \in Seats : EventsTo(Seated(s)) = bcast
    BY <2>2, <2>4 DEF GameInv, OrderInv
  <2>6. \A s \in Seats : EventsTo(Seated(s))' = EventsTo(Seated(s))
    BY <1>6 DEF EventsTo, SentTo, Seated
  <2>7. \A c \in Conns : (\A s \in Seats : Seated(s) # c) => EventsTo(c)' = <<>>
    BY <1>6, NothingSent DEF GameInv, OrderInv
  <2> QED BY <1>6, <1>8, <1>9, <2>3, <2>5, <2>6, <2>7 DEF OrderInv
<1> QED BY <1>9, <1>10, <1>11, <1>12, <1>13 DEF GameInv

-----------------------------------------------------------------------------
(* The steps of main in a game that nobody leaves.                         *)

\* What a step of main does not touch while the table stays as it is.
LEMMA MainFrame ==
    ASSUME ServerInv, GameInv, NEW p, Moves(Main, p),
           UNCHANGED <<clnt_cnt, clnt_socks, usr_cnt, user_name, bcast>>,
           \A s \in Seats : fds'[clnt_socks[s]] = fds[clnt_socks[s]],
           \A c \in Conns : /\ SentTo(c, "id")' = SentTo(c, "id")
                            /\ SentTo(c, "name")' = SentTo(c, "name")
                            /\ EventsTo(c)' = EventsTo(c)
    PROVE  /\ th'[Main].pc = p /\ \A c \in Conns : th'[c] = th[c]
           /\ Seats' = Seats /\ \A s \in Seats : Seated(s)' = Seated(s)
           /\ (p = "spawn" <=> th[Main].pc = "spawn") /\ accepted' = accepted => SeatInv'
           /\ p # "spawn" /\ th[Main].pc # "spawn" => SeatInv'
           /\ IdInv' /\ NameInv' /\ OrderInv'
<1>1. th'[Main].pc = p /\ \A c \in Conns : th'[c] = th[c]
  BY ServerAssumption DEF Moves, Threads
<1>2. Seats' = Seats /\ \A s \in Seats : Seated(s)' = Seated(s)
  BY DEF Seats, Seated
<1>3. Identified' = Identified
  BY <1>1 DEF Identified
<1>4. /\ (p = "spawn" <=> th[Main].pc = "spawn") /\ accepted' = accepted => SeatInv'
      /\ p # "spawn" /\ th[Main].pc # "spawn" => SeatInv'
  BY <1>1, <1>2 DEF GameInv, SeatInv
<1>5. IdInv'
  BY <1>1, <1>2, <1>3 DEF GameInv, IdInv
<1>6. NameInv'
  <2>1. ASSUME NEW c \in Conns, NEW k \in DOMAIN SentTo(c, "name")
        PROVE  SentTo(SentTo(c, "name")[k], "id")' = <<k - 1>>
    <3>1. PICK d \in Conns : d = SentTo(c, "name")[k] /\ SentTo(d, "id") = <<k - 1>>
      BY DEF GameInv, NameInv
    <3> QED BY <3>1
  <2> QED BY <1>1, <2>1 DEF GameInv, NameInv
<1>7. OrderInv'
  <2>1. \A s \in Seats : Seated(s) \in Conns
    BY DEF GameInv, SeatInv
  <2>2. ASSUME NEW s \in Seats PROVE EventsTo(Seated(s))' = EventsTo(Seated(s))
    <3>1. PICK c \in Conns : c = Seated(s)
      BY <2>1
    <3>2. EventsTo(Seated(s))' = EventsTo(c)'
      BY <1>2, <3>1 DEF EventsTo, SentTo
    <3> QED BY <3>1, <3>2
  <2>3. \A s : (\E c \in Conns : th'[c].pc = "send" /\ th'[c].i <= s)
                   <=> (\E c \in Conns : th[c].pc = "send" /\ th[c].i <= s)
    BY <1>1
  <2> QED BY <1>1, <1>2, <2>2, <2>3 DEF GameInv, OrderInv
<1> QED BY <1>1, <1>2, <1>4, <1>5, <1>6, <1>7

LEMMA MainTable ==
    ASSUME ServerInv
    PROVE  /\ Main \in Threads /\ th[Main] \in Locals /\ th \in [Threads -> Locals]
           /\ \A c \in Conns : c \in Threads /\ c # Main /\ c # NoConn
           /\ fds \in [Fds -> Conns \cup {NoConn}] /\ clnt_socks \in [Slots -> Fds \cup {BadFd}]
           /\ link \in [Conns -> {"out", "up", "fin", "rst"}] /\ game_start \in {0, 1}
<1>1. Main \in Threads /\ \A c \in Conns : c \in Threads /\ c # Main /\ c # NoConn
  BY ServerAssumption DEF Threads
<1> QED BY <1>1 DEF ServerInv, TypeOK

\* Main steps only between places of its own program.
LEMMA MainCalm ==
    ASSUME ServerInv, GameInv, NEW p, Moves(Main, p), p \notin Calls \cup {"done"},
           ~th'[Main].behind, out' \in [Conns -> Seq(OutMsgs)], in' = in
    PROVE  CalmInv'
<1>1. \A t \in Threads : th'[t].pc \notin Calls \cup {"done"} /\ ~th'[t].behind
  BY DEF GameInv, CalmInv, Moves
<1>2. \A c \in Conns : th'[c] = th[c]
  BY ServerAssumption DEF Moves, Threads
<1> QED BY <1>1, <1>2 DEF GameInv, CalmInv

\* With PromptStart no thread still has to read main's clnt_sock.
LEMMA MainAcceptInGame ==
    ASSUME QuietGame, ServerInv, TypeOK', GameInv, NEW c \in Conns, MainAccept(c)
    PROVE  GameInv'
<1>1. /\ th[Main].pc = "accept" /\ link[c] = "out" /\ \A d \in Conns : th[d].pc # "begin"
      /\ link' = [link EXCEPT ![c] = "up"] /\ accepted' = c
      /\ UNCHANGED <<clnt_cnt, clnt_socks, usr_cnt, user_name, in, out, bcast>>
  BY DEF MainAccept, At, QuietGame, tableVars
<1>2. PICK f \in Fds : fds[f] = NoConn /\ f = LowestFree
  BY <1>1, AcceptFinds
<1>3. fds' = [fds EXCEPT ![f] = c] /\ th' = [th EXCEPT ![Main].pc = "hello", ![Main].sock = f]
  BY <1>2 DEF MainAccept
<1>4. Moves(Main, "hello") /\ th'[Main].sock = f /\ th'[Main].behind = th[Main].behind
  <2>1. th'[Main] = [th[Main] EXCEPT !.pc = "hello", !.sock = f]
        /\ \A r \in Threads \ {Main} : th'[r] = th[r]
    BY <1>3, MainTable
  <2> QED BY <2>1, MainTable DEF TypeOK, Moves, Locals
<1>5. fds'[f] = c /\ \A g \in Fds : fds[g] # NoConn => fds'[g] = fds[g]
  BY <1>2, <1>3, MainTable
<1>6. \A s \in Seats : fds'[clnt_socks[s]] = fds[clnt_socks[s]]
  <2>1. \A s \in Seats : clnt_socks[s] \in Fds /\ fds[clnt_socks[s]] # NoConn
    BY MainTable DEF GameInv, SeatInv, Seated
  <2> QED BY <1>5, <2>1
<1>7. /\ th'[Main].pc = "hello" /\ \A d \in Conns : th'[d] = th[d]
      /\ SeatInv' /\ IdInv' /\ NameInv' /\ OrderInv'
  BY <1>1, <1>4, <1>6, NothingSent, MainFrame
<1>8. CalmInv'
  <2>1. ~th[Main].behind /\ out \in [Conns -> Seq(OutMsgs)] /\ "hello" \notin Calls \cup {"done"}
    BY MainTable DEF GameInv, CalmInv, Calls
  <2> QED BY <1>1, <1>4, <2>1, MainCalm
<1>9. AdmitInv'
  <2>1. out[c] = <<>> /\ th[c].pc = "none"
    BY <1>1 DEF GameInv, AdmitInv, ServerInv, SpawnInv
  <2>2. link'[c] = "up" /\ \A d \in Conns : d # c => link'[d] = link[d]
    BY <1>1, MainTable
  <2>3. \A d \in Conns : Admitted(d)' <=> Admitted(d)
    BY <1>1 DEF Admitted
  <2>4. \A d \in Conns : th[d].pc \notin {"none", "begin"} =>
            th[d].sock \in Fds /\ fds'[th[d].sock] = d
    BY <1>5, MainTable DEF GameInv, AdmitInv
  <2>5. \A d \in Conns : /\ link'[d] = "out" => out'[d] = <<>>
                         /\ th'[d].pc # "none" => Admitted(d)' /\ link'[d] = "up"
    BY <1>1, <1>7, <2>1, <2>2, <2>3 DEF GameInv, AdmitInv
  <2> QED BY <1>1, <1>4, <1>5, <1>7, <2>1, <2>2, <2>4, <2>5 DEF AdmitInv
<1> QED BY <1>7, <1>8, <1>9 DEF GameInv

\* The client is told what game_start says.
LEMMA MainHelloInGame ==
    ASSUME ServerInv, TypeOK', GameInv, MainHello
    PROVE  GameInv'
<1>1. th[Main].pc = "hello"
  BY DEF MainHello, At
<1>2. PICK f \in Fds : f = th[Main].sock /\ fds[f] = accepted /\ accepted \in Conns
  BY <1>1 DEF GameInv, AdmitInv
<1>3. PICK a \in Conns : a = accepted /\ out[a] = <<>> /\ link[a] = "up"
  BY <1>1, <1>2 DEF GameInv, AdmitInv
<1>4. PICK g \in {0, 1} : g = game_start
  BY MainTable
<1> DEFINE m == <<"hello", g>>
<1>5. /\ WriteArrives(Main, f, m)
      /\ th' = [th EXCEPT ![Main].pc = "check", ![Main].behind = FALSE]
      /\ UNCHANGED <<mutx, tableVars, accepted, clientVars, bcast>>
  <2>1. LinkOf(f) = "up"
    BY <1>2, <1>3, MainTable DEF LinkOf, IsOpen
  <2> QED BY <1>2, <1>4, <2>1 DEF MainHello, WriteFails
<1>6. m \in OutMsgs /\ m[1] = "hello" /\ m[2] = g
  BY DEF OutMsgs
<1>7. Moves(Main, "check") /\ th'[Main].sock = f /\ ~th'[Main].behind
  <2>1. th'[Main] = [th[Main] EXCEPT !.pc = "check", !.behind = FALSE]
        /\ \A r \in Threads \ {Main} : th'[r] = th[r]
    BY <1>5, MainTable
  <2> QED BY <1>2, <2>1, MainTable DEF TypeOK, Moves, Locals
<1> HIDE DEF m
<1>8. /\ out' \in [Conns -> Seq(OutMsgs)] /\ UNCHANGED <<proc, fds, in, link>>
      /\ out'[a] = Append(out[a], m)
      /\ \A c \in Conns \ {a} : out'[c] = out[c]
      /\ \A k \in {"id", "name", "event"} :
             Carried(out'[a], k) = IF m[1] = k THEN Append(Carried(out[a], k), m[2])
                                   ELSE Carried(out[a], k)
      /\ \A c \in Conns : Admitted(c) => Admitted(c)'
  <2>1. CalmInv /\ fds[f] = a
    BY <1>2, <1>3 DEF GameInv
  <2> QED BY <1>3, <1>5, <1>6, <2>1, MainTable, WriteSends
<1>9. \A c \in Conns : /\ SentTo(c, "id")' = SentTo(c, "id")
                       /\ SentTo(c, "name")' = SentTo(c, "name")
                       /\ EventsTo(c)' = EventsTo(c)
  <2>1. \A c \in Conns : \A k \in {"id", "name", "event"} :
            Carried(out'[c], k) = Carried(out[c], k)
    BY <1>6, <1>8
  <2> QED BY <2>1 DEF SentTo, EventsTo
<1>10. UNCHANGED <<clnt_cnt, clnt_socks, usr_cnt, game_start, user_name, accepted, bcast>>
  BY <1>5 DEF tableVars
<1>11. /\ th'[Main].pc = "check" /\ \A d \in Conns : th'[d] = th[d]
       /\ SeatInv' /\ IdInv' /\ NameInv' /\ OrderInv'
  BY <1>1, <1>7, <1>8, <1>9, <1>10, MainFrame
<1>12. CalmInv'
  <2>1. "check" \notin Calls \cup {"done"}
    BY DEF Calls
  <2> QED BY <1>7, <1>8, <2>1, MainCalm
<1>13. AdmitInv'
  <2>1. out'[a] = <<m>>
    BY <1>3, <1>8
  <2>2. \A d \in Conns : /\ link'[d] = "out" => out'[d] = <<>>
                         /\ th'[d].pc # "none" => Admitted(d)' /\ link'[d] = "up"
    BY <1>3, <1>8, <1>11 DEF GameInv, AdmitInv
  <2>3. \A d \in Conns : /\ th'[d].pc # "begin"
                         /\ th'[d].pc # "none" => th'[d].sock \in Fds /\ fds'[th'[d].sock] = d
    BY <1>1, <1>8, <1>11 DEF GameInv, AdmitInv
  <2>4. \/ out'[accepted'] = <<<<"hello", 0>>>> /\ link'[accepted'] = "up"
        \/ out'[accepted'] = <<<<"hello", 1>>>> /\ game_start' = 1
    BY <1>3, <1>4, <1>8, <1>10, <2>1 DEF m
  <2> QED BY <1>2, <1>3, <1>7, <1>8, <1>10, <1>11, <2>2, <2>3, <2>4 DEF AdmitInv
<1> QED BY <1>11, <1>12, <1>13 DEF GameInv

\* main reads the same game_start again; who is refused has no thread.
LEMMA MainCheckInGame ==
    ASSUME ServerInv, TypeOK', GameInv, MainCheck
    PROVE  GameInv'
<1>1. th[Main].pc = "check"
      /\ UNCHANGED <<proc, mutx, tableVars, accepted, link, in, out, clientVars, bcast>>
  BY DEF MainCheck, At
<1>2. PICK f \in Fds : f = th[Main].sock /\ fds[f] = accepted /\ accepted \in Conns
  BY <1>1 DEF GameInv, AdmitInv
<1>3. th[accepted].pc = "none"
  BY <1>1, <1>2 DEF ServerInv, SpawnInv
<1>4. UNCHANGED <<clnt_cnt, clnt_socks, usr_cnt, game_start, user_name, bcast, out, in, link>>
  BY <1>1 DEF tableVars
<1>5. PICK p \in {"accept", "add"} : Goto(Main, p) /\ (p = "add" <=> ~Refuses)
  BY DEF MainCheck
<1>6. Moves(Main, p) /\ th'[Main].sock = f /\ ~th'[Main].behind
  <2>1. Moves(Main, p) /\ th'[Main] = [th[Main] EXCEPT !.pc = p]
    <3>1. p \in Places
      BY DEF Places
    <3> QED BY <1>5, <3>1, MainTable, GotoMoves DEF ServerInv
  <2>2. ~th[Main].behind
    BY MainTable DEF GameInv, CalmInv
  <2> QED BY <1>2, <2>1, <2>2, MainTable DEF Locals
<1>7. fds' = fds \/ fds' = [fds EXCEPT ![f] = NoConn]
  BY <1>2 DEF MainCheck
<1>8. /\ p = "add" => fds' = fds
      /\ \A g \in Fds : fds[g] # accepted => fds'[g] = fds[g]
  <2>1. p = "add" => fds' = fds
    BY <1>5 DEF MainCheck
  <2> QED BY <1>2, <1>7, <2>1, MainTable
<1>9. \A s \in Seats : fds'[clnt_socks[s]] = fds[clnt_socks[s]]
  <2>1. \A s \in Seats : clnt_socks[s] \in Fds /\ fds[clnt_socks[s]] # accepted
    BY <1>1, <1>3 DEF GameInv, SeatInv, Seated
  <2> QED BY <1>8, <2>1
<1>10. /\ th'[Main].pc = p /\ \A d \in Conns : th'[d] = th[d]
       /\ SeatInv' /\ IdInv' /\ NameInv' /\ OrderInv'
  BY <1>1, <1>4, <1>6, <1>9, NothingSent, MainFrame
<1>11. CalmInv'
  <2>1. out \in [Conns -> Seq(OutMsgs)] /\ p \notin Calls \cup {"done"}
    BY DEF GameInv, CalmInv, Calls
  <2> QED BY <1>4, <1>6, <2>1, MainCalm
<1>12. AdmitInv'
  <2>1. \A d \in Conns : /\ link'[d] = "out" => out'[d] = <<>>
                         /\ th'[d].pc # "none" => Admitted(d)' /\ link'[d] = "up"
    BY <1>4, <1>10, NothingSent DEF GameInv, AdmitInv
  <2>2. \A d \in Conns : /\ th'[d].pc # "begin"
                         /\ th'[d].pc # "none" => th'[d].sock \in Fds /\ fds'[th'[d].sock] = d
    BY <1>1, <1>3, <1>8, <1>10 DEF GameInv, AdmitInv
  <2>3. p = "add" => /\ th'[Main].sock \in Fds /\ fds'[th'[Main].sock] = accepted'
                     /\ accepted' \in Conns
                     /\ out'[accepted'] = <<<<"hello", 0>>>> /\ link'[accepted'] = "up"
    BY <1>1, <1>2, <1>4, <1>5, <1>6, <1>8 DEF GameInv, AdmitInv, Refuses
  <2> QED BY <1>10, <2>1, <2>2, <2>3 DEF AdmitInv
<1> QED BY <1>10, <1>11, <1>12 DEF GameInv

\* The new client's slot is the next one; nothing has been broadcast yet.
LEMMA MainAddInGame ==
    ASSUME ServerInv, TypeOK', GameInv, MainAdd
    PROVE  GameInv'
<1>1. th[Main].pc = "add"
  BY DEF MainAdd, At
<1>2. clnt_cnt \in Slots /\ clnt_cnt \in Nat /\ clnt_cnt < MaxUser /\ MaxUser \in Nat
  <2>1. clnt_cnt < MaxUser
    BY <1>1 DEF ServerInv, CntInv
  <2> QED BY <2>1, SeatsAre DEF GameInv, Slots, MAX_USER
<1>3. PICK n \in Slots : n = clnt_cnt
  BY <1>2
<1>4. PICK f \in Fds : f = th[Main].sock /\ fds[f] = accepted /\ accepted \in Conns
  BY <1>1 DEF GameInv, AdmitInv
<1>5. PICK a \in Conns : a = accepted
  BY <1>4
<1>6. /\ clnt_socks' = [clnt_socks EXCEPT ![n] = f] /\ clnt_cnt' = n + 1
      /\ Goto(Main, "spawn")
      /\ UNCHANGED <<proc, mutx, usr_cnt, game_start, user_name, accepted, fds, link,
                     in, out, bcast>>
  BY <1>2, <1>3, <1>4 DEF MainAdd, netVars
<1>7. Moves(Main, "spawn") /\ th'[Main].sock = f /\ ~th'[Main].behind
  <2>1. Moves(Main, "spawn") /\ th'[Main] = [th[Main] EXCEPT !.pc = "spawn"]
    BY <1>6, MainTable, GotoMoves DEF ServerInv, Places
  <2>2. ~th[Main].behind
    BY MainTable DEF GameInv, CalmInv
  <2> QED BY <1>4, <2>1, <2>2, MainTable DEF Locals
<1>8. th'[Main].pc = "spawn" /\ \A c \in Conns : th'[c] = th[c]
  BY <1>7, MainTable DEF Moves
<1>9. th[a].pc = "none"
  BY <1>1, <1>5 DEF ServerInv, SpawnInv
<1>10. Seats' = Seats \cup {n} /\ n \notin Seats
  BY <1>2, <1>3, <1>6 DEF Seats, Slots
<1>11. /\ \A s \in Seats : clnt_socks'[s] = clnt_socks[s] /\ Seated(s)' = Seated(s)
       /\ clnt_socks'[n] = f /\ Seated(n)' = a
  <2>1. \A s \in Seats : s \in Slots /\ clnt_socks'[s] = clnt_socks[s]
    BY <1>6, <1>10, MainTable DEF Seats
  <2>2. clnt_socks'[n] = f
    BY <1>6, MainTable
  <2> QED BY <1>4, <1>5, <1>6, <2>1, <2>2 DEF Seated
<1>12. \A s \in Seats : Seated(s) \in Conns /\ th[Seated(s)].pc # "none" /\ Seated(s) # a
  BY <1>1, <1>9 DEF GameInv, SeatInv
<1>13. CalmInv'
  <2>1. out' \in [Conns -> Seq(OutMsgs)] /\ "spawn" \notin Calls \cup {"done"}
    BY <1>6 DEF GameInv, CalmInv, Calls
  <2> QED BY <1>6, <1>7, <2>1, MainCalm
<1>14. AdmitInv'
  <2>1. \A c \in Conns : /\ link'[c] = "out" => out'[c] = <<>>
                         /\ th'[c].pc # "none" => Admitted(c)' /\ link'[c] = "up"
    BY <1>6, <1>8, NothingSent DEF GameInv, AdmitInv
  <2>2. \A c \in Conns : /\ th'[c].pc # "begin"
                         /\ th'[c].pc # "none" => th'[c].sock \in Fds /\ fds'[th'[c].sock] = c
    BY <1>1, <1>6, <1>8 DEF GameInv, AdmitInv
  <2>3. /\ th'[Main].sock \in Fds /\ fds'[th'[Main].sock] = accepted' /\ accepted' \in Conns
        /\ out'[accepted'] = <<<<"hello", 0>>>> /\ link'[accepted'] = "up"
    BY <1>1, <1>4, <1>6, <1>7 DEF GameInv, AdmitInv
  <2> QED BY <1>8, <2>1, <2>2, <2>3 DEF AdmitInv
<1>15. SeatInv'
  <2>1. clnt_cnt' \in Nat
    BY <1>2, <1>3, <1>6
  <2>2. \A s \in Seats' :
           /\ clnt_socks'[s] \in Fds /\ Seated(s)' \in Conns
           /\ th'[Seated(s)'].pc # "none" \/ (th'[Main].pc = "spawn" /\ Seated(s)' = accepted')
    <3>1. \A s \in Seats : clnt_socks[s] \in Fds
      BY DEF GameInv, SeatInv
    <3> QED BY <1>5, <1>6, <1>8, <1>10, <1>11, <1>12, <3>1
  <2>3. \A s, r \in Seats' : clnt_socks'[s] = clnt_socks'[r] => s = r
    <3>1. \A s \in Seats : clnt_socks[s] # f
      BY <1>4, <1>5, <1>12 DEF Seated
    <3>2. \A s, r \in Seats : clnt_socks[s] = clnt_socks[r] => s = r
      BY DEF GameInv, SeatInv
    <3> QED BY <1>10, <1>11, <3>1, <3>2
  <2>4. \A c \in Conns : th'[c].pc # "none" => \E s \in Seats' : Seated(s)' = c
    BY <1>8, <1>10, <1>11 DEF GameInv, SeatInv
  <2>5. \E s \in Seats' : Seated(s)' = accepted'
    BY <1>5, <1>6, <1>10, <1>11
  <2> QED BY <2>1, <2>2, <2>3, <2>4, <2>5 DEF SeatInv
<1>16. IdInv'
  <2>1. Identified' = Identified
    BY <1>8 DEF Identified
  <2>2. \A c \in Conns : SentTo(c, "id")' = SentTo(c, "id")
    BY <1>6, NothingSent
  <2>3. ASSUME NEW c \in Conns
        PROVE  /\ th[c].pc \in Late =>
                      \E s \in Seats' : /\ Seated(s)' = c /\ user_name[s] = c
                                        /\ SentTo(c, "id") = <<s>>
               /\ th[c].pc \in {"name", "id"} =>
                      \E s \in Seats' : /\ Seated(s)' = c /\ th[c].i = s
                                        /\ th[c].pc = "id" => user_name[s] = c
    BY <1>10, <1>11 DEF GameInv, IdInv
  <2>4. \A c \in Conns : /\ th[c].pc \notin Late => SentTo(c, "id") = <<>>
                         /\ th[c].pc \in {"lock", "name"} => th[c].name_size = 1
                         /\ th[c].pc \in PastBarrier => usr_cnt >= MaxUser
    BY DEF GameInv, IdInv
  <2>5. usr_cnt = Cardinality(Identified)
    BY DEF GameInv, IdInv
  <2> QED BY <1>6, <1>8, <2>1, <2>2, <2>3, <2>4, <2>5 DEF IdInv
<1>17. NameInv'
  <2>1. \A c \in Conns : /\ SentTo(c, "id")' = SentTo(c, "id")
                         /\ SentTo(c, "name")' = SentTo(c, "name")
    BY <1>6, NothingSent
  <2>2. ASSUME NEW c \in Conns, NEW k \in DOMAIN SentTo(c, "name")
        PROVE  SentTo(SentTo(c, "name")[k], "id")' = <<k - 1>>
    <3>1. PICK d \in Conns : d = SentTo(c, "name")[k] /\ SentTo(d, "id") = <<k - 1>>
      BY DEF GameInv, NameInv
    <3> QED BY <2>1, <3>1
  <2> QED BY <1>8, <2>1, <2>2 DEF GameInv, NameInv
<1>18. OrderInv'
  <2>1. ~(usr_cnt >= MaxUser)
    BY <1>2, FullTable DEF GameInv
  <2>2. bcast = <<>> /\ \A c \in Conns : th[c].pc # "send"
    BY <2>1 DEF GameInv, OrderInv
  <2>3. \A c \in Conns : EventsTo(c)' = EventsTo(c)
    BY <1>6, NothingSent
  <2>4. \A c \in Conns : EventsTo(c) = <<>>
    BY <2>2 DEF GameInv, OrderInv
  <2>5. \A s \in Seats' : Seated(s)' \in Conns
    BY <1>15 DEF SeatInv
  <2>6. ASSUME NEW s \in Seats' PROVE EventsTo(Seated(s))' = <<>>
    <3>1. PICK c \in Conns : c = Seated(s)'
      BY <2>5
    <3>2. EventsTo(Seated(s))' = EventsTo(c)'
      BY <3>1 DEF EventsTo, SentTo
    <3> QED BY <2>3, <2>4, <3>2
  <2> QED BY <1>6, <1>8, <2>2, <2>3, <2>4, <2>6 DEF OrderInv
<1> QED BY <1>13, <1>14, <1>15, <1>16, <1>17, <1>18 DEF GameInv

LEMMA MainSpawnInGame ==
    ASSUME ServerInv, TypeOK', GameInv, MainSpawn
    PROVE  GameInv'
<1>1. th[Main].pc = "spawn"
      /\ UNCHANGED <<proc, mutx, tableVars, accepted, netVars, clientVars, bcast>>
  BY DEF MainSpawn, At
<1>2. PICK f \in Fds : f = th[Main].sock /\ fds[f] = accepted /\ accepted \in Conns
  BY <1>1 DEF GameInv, AdmitInv
<1>3. PICK a \in Conns : a = accepted /\ th[a].pc = "none"
  BY <1>1, <1>2 DEF ServerInv, SpawnInv
<1>4. th' = [th EXCEPT ![Main].pc = "count", ![a].pc = "begin"]
  BY <1>3 DEF MainSpawn
<1>5. /\ th'[Main] = [th[Main] EXCEPT !.pc = "count"]
      /\ th'[a] = [th[a] EXCEPT !.pc = "begin"]
      /\ \A c \in Conns : c # a => th'[c] = th[c]
  BY <1>4, MainTable
<1>6. /\ th'[Main].pc = "count" /\ th'[Main].sock = f /\ th'[Main].behind = th[Main].behind
      /\ th'[a].pc = "begin" /\ th'[a].behind = th[a].behind
  BY <1>2, <1>5, MainTable DEF ServerInv, TypeOK, Locals
<1>7. UNCHANGED <<clnt_cnt, clnt_socks, usr_cnt, game_start, user_name, accepted,
                  fds, link, in, out, bcast>>
  BY <1>1 DEF tableVars, netVars
<1>8. /\ {"begin", "count"} \cap ({"none", "done"} \cup Calls) = {}
      /\ {"begin", "none"} \cap (Late \cup PastBarrier \cup {"send"}) = {}
  BY DEF Calls, Late, PastBarrier
<1>9. CalmInv'
  BY <1>5, <1>6, <1>7, <1>8 DEF GameInv, CalmInv, Threads
<1>10. AdmitInv'
  <2>1. \A c \in Conns : th[c].pc # "begin"
    BY <1>1 DEF GameInv, AdmitInv
  <2>2. out[a] = <<<<"hello", 0>>>> /\ link[a] = "up"
    BY <1>1, <1>3 DEF GameInv, AdmitInv
  <2>3. Admitted(a)'
    BY <1>7, <2>2 DEF Admitted
  <2>4. \A c \in Conns : /\ link'[c] = "out" => out'[c] = <<>>
                         /\ th'[c].pc # "none" => Admitted(c)' /\ link'[c] = "up"
    BY <1>5, <1>7, <2>2, <2>3, NothingSent DEF GameInv, AdmitInv
  <2>5. \A c \in Conns : th'[c].pc \notin {"none", "begin"} =>
            th'[c].sock \in Fds /\ fds'[th'[c].sock] = c
    <3>1. ASSUME NEW c \in Conns, th'[c].pc \notin {"none", "begin"}
          PROVE  th'[c] = th[c]
      BY <1>5, <1>6, <3>1
    <3>2. \A c \in Conns : th[c].pc \notin {"none", "begin"} =>
              th[c].sock \in Fds /\ fds[th[c].sock] = c
      BY DEF GameInv, AdmitInv
    <3> QED BY <1>7, <3>1, <3>2
  <2>6. \A c \in Conns : th'[c].pc = "begin" => c = a
    BY <1>5, <2>1
  <2> QED BY <1>2, <1>3, <1>6, <1>7, <2>4, <2>5, <2>6 DEF AdmitInv
<1>11. Seats' = Seats /\ \A s \in Seats : Seated(s)' = Seated(s)
  BY <1>7 DEF Seats, Seated
<1>12. SeatInv'
  <2>1. \A c \in Conns : th'[c].pc # "none" => th[c].pc # "none" \/ c = a
    BY <1>5
  <2>2. \A c \in Conns : th[c].pc # "none" \/ c = accepted => th'[c].pc # "none"
    BY <1>3, <1>5, <1>6
  <2> QED BY <1>1, <1>3, <1>6, <1>7, <1>11, <2>1, <2>2 DEF GameInv, SeatInv
<1>13. IdInv'
  <2>1. Identified' = Identified
    BY <1>3, <1>5, <1>6, <1>8 DEF Identified
  <2>2. SentTo(a, "id") = <<>> /\ \A c \in Conns : SentTo(c, "id")' = SentTo(c, "id")
    BY <1>3, <1>7, <1>8, NothingSent DEF GameInv, IdInv
  <2>3. ASSUME NEW c \in Conns, c # a
        PROVE  /\ th'[c].pc \notin Late => SentTo(c, "id")' = <<>>
               /\ th'[c].pc \in Late =>
                      \E s \in Seats' : /\ Seated(s)' = c /\ user_name'[s] = c
                                        /\ SentTo(c, "id")' = <<s>>
               /\ th'[c].pc \in {"lock", "name"} => th'[c].name_size = 1
               /\ th'[c].pc \in {"name", "id"} =>
                      \E s \in Seats' : /\ Seated(s)' = c /\ th'[c].i = s
                                        /\ th'[c].pc = "id" => user_name'[s] = c
               /\ th'[c].pc \in PastBarrier => usr_cnt' >= MaxUser
    BY <1>5, <1>7, <1>11, <2>2, <2>3 DEF GameInv, IdInv
  <2>4. usr_cnt' = Cardinality(Identified')
    BY <1>7, <2>1 DEF GameInv, IdInv
  <2> QED BY <1>6, <1>8, <2>2, <2>3, <2>4 DEF IdInv
<1>14. NameInv'
  <2>1. \A c \in Conns : /\ SentTo(c, "id")' = SentTo(c, "id")
                         /\ SentTo(c, "name")' = SentTo(c, "name")
    BY <1>7, NothingSent
  <2>2. ASSUME NEW c \in Conns, NEW k \in DOMAIN SentTo(c, "name")
        PROVE  SentTo(SentTo(c, "name")[k], "id")' = <<k - 1>>
    <3>1. PICK d \in Conns : d = SentTo(c, "name")[k] /\ SentTo(d, "id") = <<k - 1>>
      BY DEF GameInv, NameInv
    <3> QED BY <2>1, <3>1
  <2>3. \A c \in Conns : /\ th'[c].pc \notin PastBarrier => SentTo(c, "name")' = <<>>
                         /\ th'[c].pc = "names" => Len(SentTo(c, "name")') = th'[c].i
                         /\ SentTo(c, "name")' \in Seq(Conns)
    BY <1>3, <1>5, <1>6, <1>8, <2>1 DEF GameInv, NameInv
  <2> QED BY <2>1, <2>2, <2>3 DEF NameInv
<1>15. OrderInv'
  <2>1. \A s \in Seats : Seated(s) \in Conns
    BY DEF GameInv, SeatInv
  <2>2. ASSUME NEW s \in Seats PROVE EventsTo(Seated(s))' = EventsTo(Seated(s))
    <3>1. PICK c \in Conns : c = Seated(s)
      BY <2>1
    <3>2. EventsTo(Seated(s))' = EventsTo(c)'
      BY <1>11, <3>1 DEF EventsTo, SentTo
    <3> QED BY <1>7, <3>1, <3>2, NothingSent
  <2>3. \A c \in Conns : /\ th'[c].pc = "send" <=> th[c].pc = "send"
                         /\ th'[c].pc = "send" => th'[c] = th[c]
    BY <1>3, <1>5, <1>6
  <2>4. \A s : (\E c \in Conns : th'[c].pc = "send" /\ th'[c].i <= s)
                   <=> (\E c \in Conns : th[c].pc = "send" /\ th[c].i <= s)
    BY <2>3
  <2>5. \A c \in Conns : EventsTo(c)' = EventsTo(c)
    BY <1>7, NothingSent
  <2> QED BY <1>7, <1>11, <2>2, <2>3, <2>4, <2>5 DEF GameInv, OrderInv
<1> QED BY <1>9, <1>10, <1>12, <1>13, <1>14, <1>15 DEF GameInv

\* What main does between two connections.
LEMMA MainGoesOn ==
    ASSUME ServerInv, TypeOK', GameInv, MainCount \/ MainStart
    PROVE  GameInv'
<1>1. PICK p \in {"start", "accept"} : Goto(Main, p)
  BY DEF MainCount, MainStart
<1>2. th[Main].pc \in {"count", "start"}
      /\ UNCHANGED <<clnt_cnt, clnt_socks, usr_cnt, user_name, accepted, netVars, bcast>>
  BY DEF MainCount, MainStart, At, tableVars
<1>3. UNCHANGED <<fds, link, in, out>>
  BY <1>2 DEF netVars
<1>4. Moves(Main, p) /\ th'[Main].sock = th[Main].sock /\ ~th'[Main].behind
  <2>1. Moves(Main, p) /\ th'[Main] = [th[Main] EXCEPT !.pc = p]
    <3>1. p \in Places
      BY DEF Places
    <3> QED BY <1>1, <3>1, MainTable, GotoMoves DEF ServerInv
  <2>2. ~th[Main].behind
    BY MainTable DEF GameInv, CalmInv
  <2> QED BY <2>1, <2>2, MainTable DEF Locals
<1>5. /\ th'[Main].pc = p /\ \A d \in Conns : th'[d] = th[d]
      /\ SeatInv' /\ IdInv' /\ NameInv' /\ OrderInv'
  BY <1>2, <1>3, <1>4, NothingSent, MainFrame
<1>6. CalmInv'
  <2>1. out' \in [Conns -> Seq(OutMsgs)] /\ p \notin Calls \cup {"done"}
    BY <1>3 DEF GameInv, CalmInv, Calls
  <2> QED BY <1>3, <1>4, <2>1, MainCalm
<1>7. AdmitInv'
  BY <1>2, <1>3, <1>4, <1>5, NothingSent DEF GameInv, AdmitInv
<1> QED BY <1>5, <1>6, <1>7 DEF GameInv

-----------------------------------------------------------------------------
(* The clients, and the theorems.                                          *)

\* A client writes only what is its own.
LEMMA SendInGame ==
    ASSUME ServerInv, GameInv, NEW c \in Conns, NEW m \in Own(c), Send(c, m)
    PROVE  GameInv'
<1>1. in' = [in EXCEPT ![c] = Append(in[c], m)]
      /\ UNCHANGED <<proc, mutx, tableVars, th, accepted, fds, link, out, bcast>>
  BY DEF Send
<1>2. UNCHANGED <<clnt_cnt, clnt_socks, usr_cnt, game_start, user_name>>
  BY <1>1 DEF tableVars
<1>3. CalmInv'
  <2>1. \A d \in Conns : in[d] \in Seq(Own(d))
    BY DEF GameInv, CalmInv
  <2>2. Append(in[c], m) \in Seq(Own(c))
    BY <2>1
  <2>3. in \in [Conns -> Seq(InMsgs)]
    BY DEF ServerInv, NetInv
  <2>4. \A d \in Conns : in'[d] \in Seq(Own(d))
    BY <1>1, <2>1, <2>2, <2>3
  <2> QED BY <1>1, <2>4 DEF GameInv, CalmInv
<1>4. AdmitInv'
  BY <1>1, <1>2 DEF GameInv, AdmitInv, Admitted
<1>5. Seats' = Seats /\ Identified' = Identified
  BY <1>1, <1>2 DEF Seats, Identified
<1>6. SeatInv'
  BY <1>1, <1>2, <1>5 DEF GameInv, SeatInv, Seated
<1>7. IdInv'
  BY <1>1, <1>2, <1>5 DEF GameInv, IdInv, Seated, SentTo
<1>8. NameInv'
  BY <1>1 DEF GameInv, NameInv, SentTo
<1>9. OrderInv'
  BY <1>1, <1>2, <1>5 DEF GameInv, OrderInv, Seated, EventsTo, SentTo
<1> QED BY <1>3, <1>4, <1>6, <1>7, <1>8, <1>9 DEF GameInv

\* Nobody closes its connection but the clients that are refused.
LEMMA ClientInGame ==
    ASSUME QuietGame, ServerInv, GameInv, NEW c \in Conns, ClientStep(c)
    PROVE  GameInv'
<1>1. CASE ClientSize(c)
  <2>1. <<"size", c>> \in Own(c)
    BY DEF Own
  <2> QED BY <1>1, <2>1, SendInGame DEF ClientSize
<1>2. CASE ClientName(c)
  <2>1. <<"name", c>> \in Own(c)
    BY DEF Own
  <2> QED BY <1>2, <2>1, SendInGame DEF ClientName
<1>3. CASE ClientCommand(c)
  <2>1. PICK k \in 1 .. MaxCmds : k = csent[c] - 1
    BY <1>3, ServerAssumption DEF ClientCommand
  <2>2. <<"event", <<c, k>>>> \in Own(c) /\ Send(c, <<"event", <<c, k>>>>)
    BY <1>3, <2>1 DEF ClientCommand, Own
  <2> QED BY <2>2, SendInGame
<1>4. CASE ClientEnd(c)
  BY <1>4 DEF ClientEnd, QuietGame
<1>5. CASE ClientLeave(c)
  <2>1. /\ link[c] = "up" /\ Len(out[c]) > 0 /\ out[c][1] = <<"hello", 1>>
        /\ link' = [link EXCEPT ![c] = "fin"]
        /\ UNCHANGED <<proc, mutx, tableVars, th, accepted, fds, in, out, clientVars, bcast>>
    BY <1>5 DEF ClientLeave, QuietGame
  <2>2. UNCHANGED <<clnt_cnt, clnt_socks, usr_cnt, game_start, user_name>>
    BY <2>1 DEF tableVars
  <2>3. link'[c] = "fin" /\ \A d \in Conns : d # c => link'[d] = link[d]
    BY <2>1, MainTable
  <2>4. ~Admitted(c) /\ out[c] # <<>> /\ out[c] # <<<<"hello", 0>>>>
    <3>1. out[c][1] # <<"hello", 0>>
      BY <2>1
    <3> QED BY <2>1, <3>1 DEF Admitted
  <2>5. AdmitInv'
    <3>1. \A d \in Conns : /\ link'[d] = "out" => out'[d] = <<>>
                           /\ th'[d].pc # "none" => Admitted(d)' /\ link'[d] = "up"
      BY <2>1, <2>3, <2>4, NothingSent DEF GameInv, AdmitInv
    <3>2. /\ th'[Main].pc = "hello" => out'[accepted'] = <<>> /\ link'[accepted'] = "up"
          /\ th'[Main].pc = "check" =>
                 \/ out'[accepted'] = <<<<"hello", 0>>>> /\ link'[accepted'] = "up"
                 \/ out'[accepted'] = <<<<"hello", 1>>>> /\ game_start' = 1
          /\ th'[Main].pc \in {"add", "spawn"} =>
                 out'[accepted'] = <<<<"hello", 0>>>> /\ link'[accepted'] = "up"
      BY <2>1, <2>2, <2>3, <2>4 DEF GameInv, AdmitInv
    <3>3. /\ \A d \in Conns :
                /\ th'[d].pc = "begin" =>
                       /\ th'[Main].pc \in {"count", "start", "accept"}
                       /\ th'[Main].sock \in Fds /\ fds'[th'[Main].sock] = d
                /\ th'[d].pc \notin {"none", "begin"} =>
                       th'[d].sock \in Fds /\ fds'[th'[d].sock] = d
          /\ th'[Main].pc \in {"hello", "check", "add", "spawn"} =>
                 /\ th'[Main].sock \in Fds /\ fds'[th'[Main].sock] = accepted'
                 /\ accepted' \in Conns
      BY <2>1 DEF GameInv, AdmitInv
    <3> QED BY <3>1, <3>2, <3>3 DEF AdmitInv
  <2>6. CalmInv'
    BY <2>1 DEF GameInv, CalmInv
  <2>7. Seats' = Seats /\ Identified' = Identified
    BY <2>1, <2>2 DEF Seats, Identified
  <2>8. SeatInv'
    BY <2>1, <2>2, <2>7 DEF GameInv, SeatInv, Seated
  <2>9. IdInv'
    BY <2>1, <2>2, <2>7 DEF GameInv, IdInv, Seated, SentTo
  <2>10. NameInv'
    BY <2>1 DEF GameInv, NameInv, SentTo
  <2>11. OrderInv'
    BY <2>1, <2>2, <2>7 DEF GameInv, OrderInv, Seated, EventsTo, SentTo
  <2> QED BY <2>5, <2>6, <2>8, <2>9, <2>10, <2>11 DEF GameInv
<1> QED BY <1>1, <1>2, <1>3, <1>4, <1>5 DEF ClientStep

LEMMA GameBegins ==
    ASSUME Init
    PROVE  GameInv
<1>1. /\ th[Main].pc = "accept" /\ ~th[Main].behind
      /\ \A c \in Conns : th[c].pc = "none" /\ ~th[c].behind
  BY ServerAssumption DEF Init, NewThread, Threads
<1>2. Seats = {} /\ clnt_cnt = 0
  BY DEF Init, Seats, Slots
<1>3. \A c \in Conns : out[c] = <<>> /\ in[c] = <<>>
  BY DEF Init
<1>4. \A c \in Conns : \A k : SentTo(c, k) = <<>>
  BY <1>3, CarriedNothing DEF SentTo
<1>5. CalmInv
  <2>1. \A S : <<>> \in Seq(S)
    OBVIOUS
  <2>2. out \in [Conns -> Seq(OutMsgs)]
    BY <2>1 DEF Init
  <2> QED BY <1>1, <1>3, <2>1, <2>2 DEF CalmInv, Calls, Threads
<1>6. AdmitInv
  BY <1>1, <1>3 DEF AdmitInv
<1>7. SeatInv
  BY <1>1, <1>2 DEF SeatInv
<1>8. IdInv
  <2>1. Identified = {}
    BY <1>1 DEF Identified, Late
  <2>2. usr_cnt = Cardinality(Identified)
    BY <2>1, FS_EmptySet DEF Init
  <2> QED BY <1>1, <1>4, <2>2 DEF IdInv, Late, PastBarrier
<1>9. NameInv
  <2>1. <<>> \in Seq(Conns)
    OBVIOUS
  <2>2. \A c \in Conns : SentTo(c, "name") = <<>> /\ SentTo(c, "name") \in Seq(Conns)
    BY <1>4, <2>1
  <2> QED BY <1>1, <2>2 DEF NameInv
<1>10. OrderInv
  BY <1>1, <1>2, <1>4 DEF OrderInv, Init, EventsTo
<1> QED BY <1>5, <1>6, <1>7, <1>8, <1>9, <1>10 DEF GameInv

LEMMA GameStep ==
    ASSUME QuietGame, ServerInv, ServerInv', GameInv, [Next]_vars
    PROVE  GameInv'
<1>1. TypeOK'
  BY DEF ServerInv
<1>2. ASSUME NEW c \in Conns, MainAccept(c) PROVE GameInv'
  BY <1>1, <1>2, MainAcceptInGame
<1>3. ASSUME NEW c \in Conns, ThreadStep(c) PROVE GameInv'
  BY <1>1, <1>3, BeginInGame, ReadSizeInGame, LockTableInGame, ReadNameInGame,
     WriteIdInGame, UnlockTableInGame, WriteJsonInGame, BarrierInGame, WriteNamesInGame,
     ReadEventInGame, LockBroadcastInGame, SendOneInGame, SendDoneInGame DEF ThreadStep
<1>4. ASSUME NEW c \in Conns, ClientStep(c) PROVE GameInv'
  BY <1>4, ClientInGame
<1>5. CASE MainStep
  BY <1>1, <1>5, MainHelloInGame, MainCheckInGame, MainAddInGame, MainSpawnInGame,
     MainGoesOn DEF MainStep
<1>6. CASE MainAcceptFails
  BY <1>6 DEF MainAcceptFails, QuietGame
<1>7. ASSUME NEW t \in Threads, DisconnectedStep(t) PROVE GameInv'
  BY <1>7 DEF DisconnectedStep, DisconnectRemove, DisconnectReset, DisconnectClose, At,
              GameInv, CalmInv, Calls
<1>8. CASE UNCHANGED vars
  BY <1>8, GameStutters DEF vars
<1> QED BY <1>2, <1>3, <1>4, <1>5, <1>6, <1>7, <1>8 DEF Next

\* In a game that nobody leaves the invariant holds.
LEMMA GameAlways ==
    ASSUME QuietGame
    PROVE  Spec => [](ServerInv /\ GameInv)
<1>1. Init => ServerInv /\ GameInv
  BY InitServerInv, GameBegins
<1>2. ServerInv /\ GameInv /\ [Next]_vars => ServerInv' /\ GameInv'
  BY NextServerInv, GameStep
<1> QED BY <1>1, <1>2, PTL DEF Spec

LEMMA IdIsSeat ==
    ASSUME GameInv, NEW c \in Conns, IdsOf(c) # {}
    PROVE  \E s \in Seats : Seated(s) = c /\ IdsOf(c) = {s}
<1>1. th[c].pc \in Late
  <2>1. th[c].pc \notin Late => SentTo(c, "id") = <<>>
    BY DEF GameInv, IdInv
  <2>2. SentTo(c, "id") = <<>> => IdsOf(c) = {}
    <3>1. DOMAIN <<>> = {}
      OBVIOUS
    <3> QED BY <3>1 DEF IdsOf
  <2> QED BY <2>1, <2>2
<1>2. PICK s \in Seats : Seated(s) = c /\ SentTo(c, "id") = <<s>>
  BY <1>1 DEF GameInv, IdInv
<1>3. IdsOf(c) = {s}
  <2>1. DOMAIN <<s>> = {1} /\ <<s>>[1] = s
    OBVIOUS
  <2> QED BY <1>2, <2>1 DEF IdsOf
<1> QED BY <1>2, <1>3

\* The handshake of handle_clnt gives every player an id of its own and all
\* the names, each in the place of the id it belongs to, in whatever order
\* the threads run.
THEOREM PlayersAreKnown == ASSUME QuietGame PROVE Spec => []PlayersKnown
<1>1. ASSUME ServerInv, GameInv PROVE IdsDistinct
  <2>1. \A s \in Seats : s \in 0 .. MaxUser - 1
    BY <1>1, SeatsAre DEF GameInv
  <2>2. ASSUME NEW c \in Conns PROVE IdsOf(c) \subseteq 0 .. MaxUser - 1
    BY <1>1, <2>1, IdIsSeat
  <2>3. ASSUME NEW c \in Conns, NEW d \in Conns \ {c} PROVE IdsOf(c) \cap IdsOf(d) = {}
    <3> SUFFICES ASSUME NEW x \in IdsOf(c), x \in IdsOf(d) PROVE FALSE
      OBVIOUS
    <3>1. PICK s \in Seats : Seated(s) = c /\ IdsOf(c) = {s}
      BY <1>1, IdIsSeat
    <3>2. PICK r \in Seats : Seated(r) = d /\ IdsOf(d) = {r}
      BY <1>1, IdIsSeat
    <3> QED BY <3>1, <3>2
  <2> QED BY <2>2, <2>3 DEF IdsDistinct
<1>2. ASSUME GameInv PROVE NamesAgree
  <2>1. ASSUME NEW c \in Conns, NEW k \in DOMAIN SentTo(c, "name")
        PROVE  /\ SentTo(c, "name")[k] \in Conns
               /\ k - 1 \in IdsOf(SentTo(c, "name")[k])
    <3>1. PICK d \in Conns : d = SentTo(c, "name")[k] /\ SentTo(d, "id") = <<k - 1>>
      BY <1>2 DEF GameInv, NameInv
    <3>2. 1 \in DOMAIN SentTo(d, "id") /\ SentTo(d, "id")[1] = k - 1
      BY <3>1
    <3> QED BY <3>1, <3>2 DEF IdsOf
  <2> QED BY <2>1 DEF NamesAgree
<1>3. ServerInv /\ GameInv => PlayersKnown
  BY <1>1, <1>2 DEF PlayersKnown
<1> QED BY <1>3, GameAlways, PTL

\* send_msg_all shows every player the same events in the same order, and no
\* player is more than one event behind.
THEOREM OneOrderForAll == ASSUME QuietGame PROVE Spec => []SameOrder
<1>1. ASSUME ServerInv, GameInv, NEW c \in Conns
      PROVE  /\ Len(EventsTo(c)) <= Len(bcast)
             /\ EventsTo(c) = SubSeq(bcast, 1, Len(EventsTo(c)))
             /\ IdsOf(c) # {} => Len(EventsTo(c)) >= Len(bcast) - 1
  <2>1. bcast \in Seq(Events) /\ Len(bcast) \in Nat
    BY <1>1, ThreadState
  <2>2. CASE \A s \in Seats : Seated(s) # c
    <3>1. EventsTo(c) = <<>> /\ IdsOf(c) = {}
      BY <1>1, <2>2, IdIsSeat DEF GameInv, OrderInv
    <3>2. SubSeq(bcast, 1, 0) = <<>>
      BY <2>1
    <3> QED BY <2>1, <3>1, <3>2
  <2>3. ASSUME NEW s \in Seats, Seated(s) = c
        PROVE  /\ Len(EventsTo(c)) <= Len(bcast)
               /\ EventsTo(c) = SubSeq(bcast, 1, Len(EventsTo(c)))
               /\ Len(EventsTo(c)) >= Len(bcast) - 1
    <3>1. CASE EventsTo(c) = bcast
      <4>1. SubSeq(bcast, 1, Len(bcast)) = bcast
        BY <2>1
      <4> QED BY <2>1, <3>1, <4>1
    <3>2. CASE bcast # <<>> /\ EventsTo(c) = SubSeq(bcast, 1, Len(bcast) - 1)
      <4>1. PICK n \in Nat : n = Len(bcast) - 1
        BY <2>1, <3>2
      <4>2. Len(SubSeq(bcast, 1, n)) = n
        BY <2>1, <4>1
      <4> QED BY <2>1, <3>2, <4>1, <4>2
    <3>3. EventsTo(c) = bcast
          \/ (bcast # <<>> /\ EventsTo(c) = SubSeq(bcast, 1, Len(bcast) - 1))
      BY <1>1, <2>3 DEF GameInv, OrderInv
    <3> QED BY <3>1, <3>2, <3>3
  <2> QED BY <2>2, <2>3
<1>2. ServerInv /\ GameInv => SameOrder
  BY <1>1 DEF SameOrder
<1> QED BY <1>2, GameAlways, PTL

-----------------------------------------------------------------------------
(***************************************************************************)
(* The order of the events, whoever comes and goes: nobody is sent an      *)
(* event after a later one; and nobody who stays misses one, as long as    *)
(* the others leave in good order.                                         *)
(***************************************************************************)

\* What clients are sent, whatever goes wrong.
AnyMsgs == OutMsgs \cup {<<"junk", 0>>} \cup ({"name"} \X {NoConn})

\* The history: whoever is in the middle of a broadcast sends the last event.
HistInv ==
    /\ out \in [Conns -> Seq(AnyMsgs)]
    /\ \A c \in Conns : EventsTo(c) \in Seq(Events) /\ Follows(EventsTo(c), bcast)
    /\ \A t \in Conns : th[t].pc = "send" =>
           bcast # <<>> /\ th[t].event = bcast[Len(bcast)]

\* What the clients write that do not end the game.
Plain == ({"size", "name"} \X Conns) \cup ({"event"} \X (Conns \X (1 .. MaxCmds)))

\* Where a thread has not written the id of its client.
Early == {"none", "begin", "size", "lock", "name", "id"}

\* Where the descriptor of a thread is not, or no longer, in the table.
Outside == {"none", "reset", "close", "done"}

\* The thread of a client c that leaves in good order, if at all.
TidyThread(c) ==
    /\ ~th[c].behind
    /\ th[c].pc \notin {"none", "begin", "done"} => th[c].sock \in Fds /\ fds[th[c].sock] = c
    /\ th[c].pc = "begin" =>
           /\ th[Main].pc \in {"count", "start", "accept"}
           /\ th[Main].sock \in Fds /\ fds[th[Main].sock] = c
    /\ th[c].pc \in Calls => th[c].arg = th[c].sock /\ th[c].ret = "done"
    /\ th[c].pc \in Calls \cup {"done"} => link[c] # "up"
    /\ th[c].pc \in {"bcast", "send"} => ~IsEnd(th[c].event)
    /\ th[c].pc \notin Outside => \E s \in Seats : Seated(s) = c
    /\ th[c].pc \in {"reset", "close"} => \A s \in Seats : Seated(s) # c

TidyMain ==
    /\ th[Main].pc \notin Calls /\ ~th[Main].behind
    /\ th[Main].pc \in {"hello", "check", "add", "spawn"} =>
           th[Main].sock \in Fds /\ fds[th[Main].sock] = accepted
    /\ th[Main].pc \in {"hello", "check", "add"} => \A s \in Seats : Seated(s) # accepted
    /\ th[Main].pc = "spawn" => \E s \in Seats : Seated(s) = accepted

TidySeats ==
    /\ 0 <= clnt_cnt
    /\ \A s \in Seats : clnt_socks[s] \in Fds /\ Seated(s) \in Conns
    /\ \A s, r \in Seats : clnt_socks[s] = clnt_socks[r] => s = r

\* A client that has not been told its id.
NoId(c) == SentTo(c, "id") = <<>> /\ \A k \in DOMAIN out[c] : out[c][k][1] # "id"

\* What the client has written, and what it has not been sent yet.
TidyLink(c) ==
    /\ in[c] \in Seq(Plain)
    /\ link[c] = "out" => EventsTo(c) = <<>>
    /\ th[c].pc \in Early => NoId(c)

\* The events s are the last of the first m of the common sequence b.
Ends(s, b, m) == Len(s) <= m /\ \A k \in 1 .. Len(s) : s[k] = b[m - Len(s) + k]

\* How many events the client in slot s has seen: perhaps all but the one that
\* is being sent.
Reached(s) ==
    IF \E t \in Conns : th[t].pc = "send" /\ th[t].i <= s THEN Len(bcast) - 1 ELSE Len(bcast)

\* The slots that the sender has passed hold clients that have got the event.
Served ==
    \A t \in Conns : th[t].pc = "send" =>
        \A s \in Seats : \A c \in Conns : s < th[t].i /\ Seated(s) = c => EventsTo(c) # <<>>

\* A client that is new in the table has been sent no event.
TidyEvents ==
    /\ Served
    /\ \A c \in Conns : th[Main].pc \in {"hello", "check", "add"} /\ accepted = c =>
           EventsTo(c) = <<>>
    /\ \A s \in Seats : \A c \in Conns : Seated(s) = c =>
           Ends(EventsTo(c), bcast, Reached(s))
    /\ \A c \in Conns : \E m \in 0 .. Len(bcast) : Ends(EventsTo(c), bcast, m)

Tidy ==
    /\ \A c \in Conns : TidyThread(c) /\ TidyLink(c)
    /\ TidyMain /\ TidySeats /\ TidyEvents

TidyInv == Undisturbed => Tidy
-----------------------------------------------------------------------------
(* What follows a sequence.                                                *)

LEMMA FollowsNothing ==
    ASSUME NEW b
    PROVE  Follows(<<>>, b)
<1>1. DOMAIN <<>> = {} /\ <<>> \in [DOMAIN <<>> -> DOMAIN b]
  OBVIOUS
<1> QED BY <1>1 DEF Follows

\* A longer common sequence.
LEMMA FollowsMore ==
    ASSUME NEW S, NEW s, NEW b \in Seq(S), NEW e \in S, Follows(s, b)
    PROVE  Follows(s, Append(b, e))
<1>1. PICK at \in [DOMAIN s -> DOMAIN b] :
          \A j, k \in DOMAIN s : s[k] = b[at[k]] /\ (j <= k => at[j] <= at[k])
  BY DEF Follows
<1>2. /\ DOMAIN b \subseteq DOMAIN Append(b, e)
      /\ \A k \in DOMAIN b : Append(b, e)[k] = b[k]
  OBVIOUS
<1>3. at \in [DOMAIN s -> DOMAIN Append(b, e)]
  BY <1>2
<1>4. \A j, k \in DOMAIN s : s[k] = Append(b, e)[at[k]] /\ (j <= k => at[j] <= at[k])
  BY <1>1, <1>2
<1> QED BY <1>3, <1>4 DEF Follows

\* The last event of the common sequence comes after anything else.
LEMMA FollowsLast ==
    ASSUME NEW S, NEW s \in Seq(S), NEW b \in Seq(S), b # <<>>, Follows(s, b)
    PROVE  Follows(Append(s, b[Len(b)]), b)
<1>1. PICK at \in [DOMAIN s -> DOMAIN b] :
          \A j, k \in DOMAIN s : s[k] = b[at[k]] /\ (j <= k => at[j] <= at[k])
  BY DEF Follows
<1> DEFINE n == Len(s)
           r == Append(s, b[Len(b)])
           to == [k \in 1 .. n + 1 |-> IF k = n + 1 THEN Len(b) ELSE at[k]]
<1>2. n \in Nat /\ DOMAIN s = 1 .. n /\ Len(b) \in Nat /\ Len(b) \in DOMAIN b /\ DOMAIN b = 1 .. Len(b)
  OBVIOUS
<1>3. DOMAIN r = 1 .. n + 1 /\ r[n + 1] = b[Len(b)] /\ \A k \in 1 .. n : r[k] = s[k]
  <2>1. b[Len(b)] \in S
    BY <1>2
  <2> QED BY <2>1
<1> HIDE DEF n, r
<1>4. \A k \in 1 .. n + 1 : k = n + 1 \/ k \in 1 .. n
  BY <1>2
<1>5. \A k \in 1 .. n : at[k] \in DOMAIN b /\ at[k] \in Nat /\ at[k] <= Len(b) /\ k # n + 1 /\ to[k] = at[k]
  BY <1>2
<1>6. to[n + 1] = Len(b)
  BY <1>2
<1>7. to \in [DOMAIN r -> DOMAIN b]
  <2>1. \A k \in 1 .. n + 1 : to[k] \in DOMAIN b
    BY <1>2, <1>4, <1>5, <1>6
  <2>2. to \in [1 .. n + 1 -> DOMAIN b]
    BY <2>1
  <2> QED BY <1>3, <2>2
<1> HIDE DEF to
<1>8. ASSUME NEW j \in 1 .. n + 1, NEW k \in 1 .. n + 1
      PROVE  r[k] = b[to[k]] /\ (j <= k => to[j] <= to[k])
  <2>1. r[k] = b[to[k]]
    <3>1. CASE k = n + 1
      BY <1>3, <1>6, <3>1
    <3>2. CASE k \in 1 .. n
      BY <1>1, <1>2, <1>3, <1>5, <3>2
    <3> QED BY <1>4, <3>1, <3>2
  <2>2. ASSUME j <= k PROVE to[j] <= to[k]
    <3>1. CASE k = n + 1
      BY <1>2, <1>4, <1>5, <1>6, <3>1
    <3>2. CASE k \in 1 .. n
      <4>1. j \in 1 .. n
        BY <1>2, <2>2, <3>2
      <4> QED BY <1>1, <1>2, <1>5, <2>2, <3>2, <4>1
    <3> QED BY <1>4, <3>1, <3>2
  <2> QED BY <2>1, <2>2
<1>9. Follows(r, b)
  BY <1>3, <1>7, <1>8 DEF Follows
<1> QED BY <1>9 DEF r

-----------------------------------------------------------------------------
(* Nobody is sent an event after a later one.                              *)

\* The senders and what they send.
SameSenders ==
    \A t \in Conns : th'[t].pc = "send" => th[t].pc = "send" /\ th'[t].event = th[t].event

LEMMA NothingWritten ==
    ASSUME HistInv, out' = out, bcast' = bcast, SameSenders
    PROVE  HistInv'
<1>1. \A c \in Conns : EventsTo(c)' = EventsTo(c)
  BY NothingSent
<1> QED BY <1>1 DEF HistInv, SameSenders

\* Any write of any thread: the message, or junk, goes to one client.
LEMMA AnyWrite ==
    ASSUME ServerInv, HistInv, NEW t \in Threads, NEW f, NEW m \in AnyMsgs,
           m[1] = "event" => bcast # <<>> /\ m[2] = bcast[Len(bcast)],
           WriteArrives(t, f, m), bcast' = bcast, SameSenders
    PROVE  HistInv'
<1>1. PICK d \in Conns : d = fds[f]
  BY DEF WriteArrives, LinkOf, IsOpen, ServerInv, TypeOK
<1>2. PICK x \in AnyMsgs : /\ x = IF th[t].behind THEN <<"junk", 0>> ELSE m
                           /\ x[1] = "event" => bcast # <<>> /\ x[2] = bcast[Len(bcast)]
  <2>1. <<"junk", 0>> \in AnyMsgs /\ <<"junk", 0>>[1] # "event"
    BY DEF AnyMsgs
  <2> QED BY <2>1
<1>3. out' = [out EXCEPT ![d] = Append(out[d], x)] /\ out \in [Conns -> Seq(AnyMsgs)]
  BY <1>1, <1>2 DEF WriteArrives, HistInv
<1>4. PICK q \in Seq(AnyMsgs) : q = out[d]
  BY <1>3
<1>5. Append(q, x) \in Seq(AnyMsgs)
  BY <1>2, <1>4
<1>6. out' \in [Conns -> Seq(AnyMsgs)] /\ out'[d] = Append(q, x)
      /\ \A c \in Conns : c # d => out'[c] = out[c]
  BY <1>3, <1>4, <1>5
<1>7. \A c \in Conns : c # d => EventsTo(c)' = EventsTo(c)
  BY <1>6 DEF EventsTo, SentTo
<1>8. EventsTo(d)' = IF x[1] = "event" THEN Append(EventsTo(d), x[2]) ELSE EventsTo(d)
  <2>1. Carried(Append(q, x), "event") =
            IF x[1] = "event" THEN Append(Carried(q, "event"), x[2]) ELSE Carried(q, "event")
    BY CarriedAppend
  <2> QED BY <1>4, <1>6, <2>1 DEF EventsTo, SentTo
<1>9. bcast \in Seq(Events)
  BY DEF ServerInv, TypeOK
<1>10. EventsTo(d)' \in Seq(Events) /\ Follows(EventsTo(d)', bcast)
  <2>1. EventsTo(d) \in Seq(Events) /\ Follows(EventsTo(d), bcast)
    BY DEF HistInv
  <2>2. CASE x[1] # "event"
    BY <1>8, <2>1, <2>2
  <2>3. CASE x[1] = "event"
    <3>1. bcast # <<>> /\ x[2] = bcast[Len(bcast)] /\ x[2] \in Events
      <4>1. bcast # <<>> /\ x[2] = bcast[Len(bcast)]
        BY <1>2, <2>3
      <4> QED BY <1>9, <4>1
    <3>2. EventsTo(d)' = Append(EventsTo(d), bcast[Len(bcast)])
      BY <1>8, <2>3, <3>1
    <3> DEFINE s == EventsTo(d)
    <3> HIDE DEF s
    <3>3. s \in Seq(Events) /\ Follows(s, bcast)
      BY <2>1 DEF s
    <3>4. Follows(Append(s, bcast[Len(bcast)]), bcast)
      BY <1>9, <3>1, <3>3, FollowsLast
    <3>5. Append(s, bcast[Len(bcast)]) \in Seq(Events)
      BY <1>9, <3>1, <3>3
    <3> QED BY <3>2, <3>4, <3>5 DEF s
  <2> QED BY <2>2, <2>3
<1>11. \A c \in Conns : EventsTo(c)' \in Seq(Events) /\ Follows(EventsTo(c)', bcast')
  BY <1>7, <1>10 DEF HistInv
<1> QED BY <1>6, <1>11 DEF HistInv, SameSenders

\* A thread that does not go on in the loop of send_msg_all.
LEMMA NoNewSender ==
    ASSUME NEW t \in Threads, th'[t].pc # "send",
           \A s \in Threads \ {t} : th'[s] = th[s]
    PROVE  SameSenders
BY DEF SameSenders, Threads

\* What Goto and the other updates of one thread do.
LEMMA Updates ==
    ASSUME ServerInv, NEW t \in Threads
    PROVE  /\ \A p : Goto(t, p) => th'[t].pc = p
           /\ \A p : Goto(t, p) => \A s \in Threads \ {t} : th'[s] = th[s]
           /\ \A f, back, behind : CallDisconnected(t, f, back, behind) =>
                  th'[t].pc = "disc" /\ \A s \in Threads \ {t} : th'[s] = th[s]
<1>1. th \in [Threads -> Locals] /\ th[t] \in Locals
  BY DEF ServerInv, TypeOK
<1>2. ASSUME NEW p, Goto(t, p)
      PROVE  th'[t].pc = p /\ \A s \in Threads \ {t} : th'[s] = th[s]
  BY <1>1, <1>2 DEF Goto, Locals
<1>3. ASSUME NEW f, NEW back, NEW behind, CallDisconnected(t, f, back, behind)
      PROVE  th'[t].pc = "disc" /\ \A s \in Threads \ {t} : th'[s] = th[s]
  BY <1>1, <1>3 DEF CallDisconnected, Locals
<1> QED BY <1>2, <1>3

LEMMA HistCrash ==
    ASSUME HistInv, NEW how, Crash(how)
    PROVE  HistInv'
BY NothingWritten DEF Crash, SameSenders, netVars

LEMMA HistFailedWrite ==
    ASSUME ServerInv, HistInv, NEW t \in Threads, NEW f, WriteFailsOrKills(t, f)
    PROVE  HistInv'
<1>1. CASE WriteFails(t, f)
  BY <1>1, Updates, NoNewSender, NothingWritten DEF WriteFails, netVars
<1>2. CASE WriteKills(f)
  BY <1>2, HistCrash DEF WriteKills
<1> QED BY <1>1, <1>2 DEF WriteFailsOrKills

LEMMA HistWrongRead ==
    ASSUME ServerInv, HistInv, NEW t \in Threads, NEW kind, NEW back,
           ReadGoesWrong(t, kind, back)
    PROVE  HistInv'
<1>1. CASE ReadCorrupts(t, kind)
  BY <1>1, HistCrash DEF ReadCorrupts
<1>2. CASE ReadEof(t, back)
  BY <1>2, Updates, NoNewSender, NothingWritten DEF ReadEof, netVars
<1>3. CASE ReadFails(t)
  BY <1>3, Updates, NoNewSender, NothingWritten DEF ReadFails, netVars
<1> QED BY <1>1, <1>2, <1>3 DEF ReadGoesWrong

\* The steps of a thread that write nothing.
LEMMA HistQuietStep ==
    ASSUME ServerInv, HistInv, NEW t \in Conns,
           \/ Begin(t) \/ ReadSize(t) \/ LockTable(t) \/ ReadName(t) \/ UnlockTable(t)
           \/ Barrier(t) \/ ReadEvent(t) \/ SendDone(t)
    PROVE  HistInv'
<1>1. t \in Threads /\ th \in [Threads -> Locals]
  BY ThreadState
<1>2. CASE Begin(t)
  <2>1. th'[t].pc = "size" /\ \A s \in Threads \ {t} : th'[s] = th[s]
    BY <1>1, <1>2 DEF Begin, Locals
  <2> QED BY <1>1, <1>2, <2>1, NoNewSender, NothingWritten DEF Begin, netVars
<1>3. CASE ReadSize(t)
  <2>1. CASE ReadGoesWrong(t, "size", "lock")
    BY <1>1, <2>1, HistWrongRead
  <2>2. CASE /\ ReadArrives(t, "size")
             /\ th' = [th EXCEPT ![t].pc = "lock", ![t].name_size = 1]
             /\ UNCHANGED bcast
    <3>1. th'[t].pc = "lock" /\ \A s \in Threads \ {t} : th'[s] = th[s]
      BY <1>1, <2>2 DEF Locals
    <3> QED BY <1>1, <2>2, <3>1, NoNewSender, NothingWritten DEF ReadArrives
  <2> QED BY <1>3, <2>1, <2>2 DEF ReadSize
<1>4. CASE LockTable(t)
  <2>1. th'[t].pc # "send" /\ \A s \in Threads \ {t} : th'[s] = th[s]
    <3>1. CASE SlotsOf(th[t].sock) = {}
      BY <1>1, <1>4, <3>1, Updates DEF LockTable
    <3>2. CASE th' = [th EXCEPT ![t].pc = "name", ![t].i = FirstSlot(th[t].sock)]
      BY <1>1, <3>2 DEF Locals
    <3> QED BY <1>4, <3>1, <3>2 DEF LockTable
  <2> QED BY <1>1, <1>4, <2>1, NoNewSender, NothingWritten DEF LockTable, netVars
<1>5. CASE ReadName(t)
  <2>1. CASE ReadGoesWrong(t, "name", "id")
    BY <1>1, <2>1, HistWrongRead
  <2>2. CASE Goto(t, "id") /\ UNCHANGED bcast /\ (ReadArrives(t, "name") \/ UNCHANGED netVars)
    <3>1. th'[t].pc = "id" /\ \A s \in Threads \ {t} : th'[s] = th[s]
      BY <1>1, <2>2, Updates
    <3> QED BY <1>1, <2>2, <3>1, NoNewSender, NothingWritten DEF ReadArrives, netVars
  <2> QED BY <1>5, <2>1, <2>2 DEF ReadName
<1>6. CASE UnlockTable(t)
  <2>1. th'[t].pc = "json" /\ \A s \in Threads \ {t} : th'[s] = th[s]
    BY <1>1, <1>6, Updates DEF UnlockTable
  <2> QED BY <1>1, <1>6, <2>1, NoNewSender, NothingWritten DEF UnlockTable, netVars
<1>7. CASE Barrier(t)
  <2>1. th'[t].pc = "names" /\ \A s \in Threads \ {t} : th'[s] = th[s]
    BY <1>1, <1>7 DEF Barrier, Locals
  <2> QED BY <1>1, <1>7, <2>1, NoNewSender, NothingWritten DEF Barrier, netVars
<1>8. CASE ReadEvent(t)
  <2>1. CASE ReadGoesWrong(t, "event", "done")
    BY <1>1, <2>1, HistWrongRead
  <2>2. CASE /\ ReadArrives(t, "event")
             /\ th' = [th EXCEPT ![t].pc = "bcast", ![t].event = NextIn(t)[2]]
             /\ UNCHANGED bcast
    <3>1. th'[t].pc = "bcast" /\ \A s \in Threads \ {t} : th'[s] = th[s]
      BY <1>1, <2>2 DEF Locals
    <3> QED BY <1>1, <2>2, <3>1, NoNewSender, NothingWritten DEF ReadArrives
  <2> QED BY <1>8, <2>1, <2>2 DEF ReadEvent
<1>9. CASE SendDone(t)
  <2>1. th'[t].pc \in {"disc", "event"} /\ \A s \in Threads \ {t} : th'[s] = th[s]
    BY <1>1, <1>9, Updates DEF SendDone
  <2> QED BY <1>1, <1>9, <2>1, NoNewSender, NothingWritten DEF SendDone, netVars
<1> QED BY <1>2, <1>3, <1>4, <1>5, <1>6, <1>7, <1>8, <1>9

\* The steps of a thread that write.
LEMMA HistWriteStep ==
    ASSUME ServerInv, HistInv, NEW t \in Conns,
           WriteId(t) \/ WriteJson(t) \/ WriteNames(t) \/ SendOne(t)
    PROVE  HistInv'
<1>1. t \in Threads /\ th \in [Threads -> Locals] /\ th[t] \in Locals
      /\ user_name \in [0 .. MaxUser - 1 -> Conns \cup {NoConn}]
  BY ThreadState
<1>2. CASE WriteId(t)
  <2>1. CASE WriteFailsOrKills(t, th[t].sock)
    BY <1>1, <2>1, HistFailedWrite
  <2>2. CASE /\ WriteArrives(t, th[t].sock, <<"id", IdOf(t)>>)
             /\ th' = [th EXCEPT ![t].pc = "unlock", ![t].behind = FALSE]
             /\ UNCHANGED bcast
    <3>1. th'[t].pc = "unlock" /\ \A s \in Threads \ {t} : th'[s] = th[s]
      BY <1>1, <2>2 DEF Locals
    <3>2. <<"id", IdOf(t)>> \in AnyMsgs /\ <<"id", IdOf(t)>>[1] # "event"
      BY <1>1 DEF AnyMsgs, OutMsgs, IdOf, Locals
    <3> QED BY <1>1, <2>2, <3>1, <3>2, NoNewSender, AnyWrite
  <2> QED BY <1>2, <2>1, <2>2 DEF WriteId
<1>3. CASE WriteJson(t)
  <2>1. CASE WriteFailsOrKills(t, th[t].sock)
    BY <1>1, <2>1, HistFailedWrite
  <2>2. CASE /\ WriteArrives(t, th[t].sock, <<"json", 0>>)
             /\ th' = [th EXCEPT ![t].pc = "wait", ![t].behind = FALSE]
             /\ UNCHANGED bcast
    <3>1. th'[t].pc = "wait" /\ \A s \in Threads \ {t} : th'[s] = th[s]
      BY <1>1, <2>2 DEF Locals
    <3>2. <<"json", 0>> \in AnyMsgs /\ <<"json", 0>>[1] # "event"
      BY DEF AnyMsgs, OutMsgs
    <3> QED BY <1>1, <2>2, <3>1, <3>2, NoNewSender, AnyWrite
  <2> QED BY <1>3, <2>1, <2>2 DEF WriteJson
<1>4. CASE WriteNames(t)
  <2>1. CASE WriteFailsOrKills(t, th[t].sock)
    BY <1>1, <2>1, HistFailedWrite
  <2>2. CASE /\ th[t].i < MaxUser
             /\ WriteArrives(t, th[t].sock, <<"name", user_name[th[t].i]>>)
             /\ th' = [th EXCEPT ![t].i = @ + 1, ![t].behind = FALSE]
             /\ UNCHANGED bcast
    <3>1. th'[t].pc = th[t].pc /\ th'[t].event = th[t].event
          /\ \A s \in Threads \ {t} : th'[s] = th[s]
      BY <1>1, <2>2 DEF Locals
    <3>2. SameSenders
      BY <3>1 DEF SameSenders, Threads
    <3>3. user_name[th[t].i] \in Conns \cup {NoConn}
      BY <1>1, <2>2, ServerAssumption DEF Locals
    <3> DEFINE m == <<"name", user_name[th[t].i]>>
    <3>4. m \in AnyMsgs /\ m[1] # "event"
      BY <3>3 DEF AnyMsgs, OutMsgs
    <3> HIDE DEF m
    <3> QED BY <1>1, <2>2, <3>2, <3>4, AnyWrite DEF m
  <2>3. CASE Goto(t, "event") /\ UNCHANGED <<netVars, bcast>>
    <3>1. th'[t].pc = "event" /\ \A s \in Threads \ {t} : th'[s] = th[s]
      BY <1>1, <2>3, Updates
    <3> QED BY <1>1, <2>3, <3>1, NoNewSender, NothingWritten DEF netVars
  <2> QED BY <1>4, <2>1, <2>2, <2>3 DEF WriteNames
<1>5. CASE SendOne(t)
  <2>1. CASE WriteFailsOrKills(t, clnt_socks[th[t].i])
    BY <1>1, <2>1, HistFailedWrite
  <2>2. CASE /\ WriteArrives(t, clnt_socks[th[t].i], <<"event", th[t].event>>)
             /\ th' = [th EXCEPT ![t].i = @ + 1, ![t].behind = FALSE]
             /\ UNCHANGED bcast
    <3>1. th'[t].pc = th[t].pc /\ th'[t].event = th[t].event
          /\ \A s \in Threads \ {t} : th'[s] = th[s]
      BY <1>1, <2>2 DEF Locals
    <3>2. SameSenders
      BY <3>1 DEF SameSenders, Threads
    <3>3. bcast # <<>> /\ th[t].event = bcast[Len(bcast)] /\ bcast \in Seq(Events)
      BY <1>5, ThreadState DEF HistInv, SendOne, At
    <3>4. bcast[Len(bcast)] \in Events
      BY <3>3
    <3> DEFINE m == <<"event", th[t].event>>
    <3>5. m \in AnyMsgs /\ m[2] = th[t].event
      BY <3>3, <3>4 DEF AnyMsgs, OutMsgs
    <3> HIDE DEF m
    <3> QED BY <1>1, <2>2, <3>2, <3>3, <3>5, AnyWrite DEF m
  <2> QED BY <1>5, <2>1, <2>2 DEF SendOne
<1> QED BY <1>2, <1>3, <1>4, <1>5

\* A broadcast begins when nobody else is in the middle of one.
LEMMA HistLockBroadcast ==
    ASSUME ServerInv, HistInv, NEW t \in Conns, LockBroadcast(t)
    PROVE  HistInv'
<1>1. /\ t \in Threads /\ th \in [Threads -> Locals] /\ bcast \in Seq(Events)
      /\ th[t].pc = "bcast" /\ mutx = None /\ out' = out
  BY ThreadState DEF LockBroadcast, At, netVars
<1>2. PICK e \in Events : e = th[t].event
  BY <1>1 DEF ServerInv, PlaceInv
<1>3. bcast' = Append(bcast, e)
  BY <1>2 DEF LockBroadcast
<1>4. th'[t].event = e /\ \A s \in Threads \ {t} : th'[s] = th[s]
  BY <1>1, <1>2 DEF LockBroadcast, Locals
<1>5. \A s \in Conns : th[s].pc # "send"
  BY <1>1, OneSender, ServerAssumption DEF ServerInv, LockInv, Holds, Sections, Threads
<1>6. bcast' # <<>> /\ bcast'[Len(bcast')] = e
  BY <1>1, <1>3, AllButLast
<1>7. \A s \in Conns : th'[s].pc = "send" => bcast' # <<>> /\ th'[s].event = bcast'[Len(bcast')]
  BY <1>4, <1>5, <1>6 DEF Threads
<1>8. \A c \in Conns : EventsTo(c)' \in Seq(Events) /\ Follows(EventsTo(c)', bcast')
  <2> TAKE c \in Conns
  <2> DEFINE s == EventsTo(c)
  <2>1. EventsTo(c)' = s /\ s \in Seq(Events) /\ Follows(s, bcast)
    BY <1>1, NothingSent DEF HistInv
  <2> HIDE DEF s
  <2>2. Follows(s, Append(bcast, e))
    BY <1>1, <2>1, FollowsMore
  <2> QED BY <1>3, <2>1, <2>2
<1> QED BY <1>1, <1>7, <1>8 DEF HistInv

LEMMA HistDisconnected ==
    ASSUME ServerInv, HistInv, NEW t \in Threads, DisconnectedStep(t)
    PROVE  HistInv'
<1>1. CASE DisconnectRemove(t)
  <2>1. Goto(t, "reset") /\ UNCHANGED <<out, bcast>>
    BY <1>1 DEF DisconnectRemove, netVars
  <2> QED BY <2>1, Updates, NoNewSender, NothingWritten
<1>2. CASE DisconnectReset(t)
  <2>1. Goto(t, "close") /\ UNCHANGED <<out, bcast>>
    BY <1>2 DEF DisconnectReset, netVars
  <2> QED BY <2>1, Updates, NoNewSender, NothingWritten
<1>3. CASE DisconnectClose(t)
  <2>1. Goto(t, th[t].ret) /\ UNCHANGED <<out, bcast>> /\ th[t].ret # "send"
    BY <1>3 DEF DisconnectClose, At, ServerInv, LockInv, Holding
  <2> QED BY <2>1, Updates, NoNewSender, NothingWritten
<1> QED BY <1>1, <1>2, <1>3 DEF DisconnectedStep

LEMMA HistMain ==
    ASSUME ServerInv, HistInv,
           MainStep \/ MainAcceptFails \/ \E c \in Conns : MainAccept(c)
    PROVE  HistInv'
<1>1. /\ Main \in Threads /\ th \in [Threads -> Locals] /\ Main \notin Conns
      /\ game_start \in {0, 1}
  BY ServerAssumption DEF Threads, ServerInv, TypeOK
<1>2. CASE MainHello
  <2>1. CASE WriteFails(Main, th[Main].sock)
    BY <1>1, <2>1, HistFailedWrite DEF WriteFailsOrKills
  <2>2. CASE /\ WriteArrives(Main, th[Main].sock, <<"hello", game_start>>)
             /\ th' = [th EXCEPT ![Main].pc = "check", ![Main].behind = FALSE]
             /\ UNCHANGED bcast
    <3>1. th'[Main].pc = "check" /\ \A s \in Threads \ {Main} : th'[s] = th[s]
      BY <1>1, <2>2 DEF Locals
    <3>2. <<"hello", game_start>> \in AnyMsgs /\ <<"hello", game_start>>[1] # "event"
      BY <1>1 DEF AnyMsgs, OutMsgs
    <3> QED BY <1>1, <2>2, <3>1, <3>2, NoNewSender, AnyWrite
  <2> QED BY <1>2, <2>1, <2>2 DEF MainHello
<1>3. CASE MainSpawn
  <2>1. SameSenders
    BY <1>1, <1>3 DEF MainSpawn, SameSenders, Locals, Threads
  <2> QED BY <1>3, <2>1, NothingWritten DEF MainSpawn, netVars
<1>4. CASE MainCheck \/ MainAdd \/ MainCount \/ MainStart \/ MainAcceptFails
           \/ \E c \in Conns : MainAccept(c)
  <2>1. UNCHANGED <<out, bcast>>
    BY <1>4 DEF MainCheck, MainAdd, MainCount, MainStart, MainAcceptFails, MainAccept,
                Crash, netVars
  <2>2. \A s \in Threads \ {Main} : th'[s] = th[s]
    BY <1>1, <1>4 DEF MainCheck, MainAdd, MainCount, MainStart, MainAcceptFails, MainAccept,
                      Crash, Goto
  <2>3. SameSenders
    BY <1>1, <2>2 DEF SameSenders, Threads
  <2> QED BY <2>1, <2>3, NothingWritten
<1> QED BY <1>2, <1>3, <1>4 DEF MainStep

LEMMA HistClient ==
    ASSUME HistInv, NEW c \in Conns, ClientStep(c)
    PROVE  HistInv'
<1>1. UNCHANGED <<th, out, bcast>>
  BY DEF ClientStep, ClientSize, ClientName, ClientCommand, ClientEnd, ClientLeave, Send
<1> QED BY <1>1, NothingWritten DEF SameSenders

LEMMA HistBegins ==
    ASSUME Init
    PROVE  HistInv
<1>1. \A c \in Conns : out[c] = <<>> /\ th[c].pc = "none"
  BY ServerAssumption DEF Init, NewThread, Threads
<1>2. \A S : <<>> \in Seq(S)
  OBVIOUS
<1>3. \A c \in Conns : EventsTo(c) = <<>>
  BY <1>1, CarriedNothing DEF EventsTo, SentTo
<1>4. out \in [Conns -> Seq(AnyMsgs)]
  BY <1>2 DEF Init
<1> QED BY <1>1, <1>2, <1>3, <1>4, FollowsNothing DEF HistInv

LEMMA HistStep ==
    ASSUME ServerInv, HistInv, [Next]_vars
    PROVE  HistInv'
<1>1. ASSUME NEW t \in Conns, ThreadStep(t) PROVE HistInv'
  BY <1>1, HistQuietStep, HistWriteStep, HistLockBroadcast DEF ThreadStep
<1>2. CASE UNCHANGED vars
  BY <1>2, NothingWritten DEF vars, netVars, SameSenders
<1> QED BY <1>1, <1>2, HistMain, HistClient, HistDisconnected DEF Next

LEMMA HistAlways == Spec => [](ServerInv /\ HistInv)
<1>1. Init => ServerInv /\ HistInv
  BY InitServerInv, HistBegins
<1>2. ServerInv /\ HistInv /\ [Next]_vars => ServerInv' /\ HistInv'
  BY NextServerInv, HistStep
<1> QED BY <1>1, <1>2, PTL DEF Spec

\* send_msg_all holds the mutex for a whole broadcast: whatever the clients do
\* and whatever goes wrong in the calls that fail, no client is sent an event
\* that was not broadcast, or one after a later one.
THEOREM OrderNeverBroken == Spec => []NeverOvertaken
<1>1. HistInv => NeverOvertaken
  BY DEF HistInv, NeverOvertaken
<1> QED BY <1>1, HistAlways, PTL

-----------------------------------------------------------------------------
(***************************************************************************)
(* What is read from the table once and used after it: the own slot.       *)
(***************************************************************************)

\* Where a thread relies on the slot it has found.
AtSlot == {"name", "id"}

\* The table stays, and no thread comes to where it relies on its slot.
LEMMA SlotFrame ==
    ASSUME IdIsSlot, UNCHANGED <<clnt_cnt, clnt_socks>>,
           \A c \in Conns : th'[c].pc \in AtSlot =>
               th[c].pc \in AtSlot /\ th'[c].i = th[c].i /\ th'[c].sock = th[c].sock
    PROVE  IdIsSlot'
BY DEF IdIsSlot, AtSlot

\* A step of one thread to a place where it does not.
LEMMA SlotLeft ==
    ASSUME IdIsSlot, NEW t \in Threads, UNCHANGED <<clnt_cnt, clnt_socks>>,
           t \in Conns => th'[t].pc \notin AtSlot,
           \A s \in Threads \ {t} : th'[s] = th[s]
    PROVE  IdIsSlot'
BY SlotFrame DEF Threads

\* The table changes while nobody holds the mutex, hence while nobody
\* relies on a slot.
LEMMA SlotUnused ==
    ASSUME ServerInv, mutx = None, NEW t \in Threads, t \in Conns => th'[t].pc \notin AtSlot,
           \A s \in Threads \ {t} : th'[s] = th[s]
    PROVE  IdIsSlot'
<1>1. \A c \in Conns : c \in Threads /\ c # None
  BY ServerAssumption DEF Threads
<1>2. \A c \in Conns : th[c].pc \notin AtSlot
  BY <1>1 DEF ServerInv, LockInv, Holds, Sections, AtSlot
<1> QED BY <1>1, <1>2 DEF IdIsSlot, AtSlot

LEMMA SlotFailedWrite ==
    ASSUME ServerInv, IdIsSlot, NEW t \in Threads, NEW f, WriteFailsOrKills(t, f)
    PROVE  IdIsSlot'
<1>1. CASE WriteFails(t, f)
  BY <1>1, Updates, SlotLeft DEF WriteFails, tableVars, AtSlot
<1>2. CASE WriteKills(f)
  BY <1>2, SlotFrame DEF WriteKills, Crash, tableVars
<1> QED BY <1>1, <1>2 DEF WriteFailsOrKills

LEMMA SlotWrongRead ==
    ASSUME ServerInv, IdIsSlot, NEW t \in Threads, NEW kind, NEW back,
           ReadGoesWrong(t, kind, back)
    PROVE  IdIsSlot'
<1>1. CASE ReadCorrupts(t, kind)
  BY <1>1, SlotFrame DEF ReadCorrupts, Crash, tableVars
<1>2. CASE ReadEof(t, back)
  BY <1>2, Updates, SlotLeft DEF ReadEof, tableVars, AtSlot
<1>3. CASE ReadFails(t)
  BY <1>3, Updates, SlotLeft DEF ReadFails, tableVars, AtSlot
<1> QED BY <1>1, <1>2, <1>3 DEF ReadGoesWrong

\* The search finds a slot of the own descriptor.
LEMMA SlotFound ==
    ASSUME ServerInv, IdIsSlot, NEW t \in Conns, LockTable(t)
    PROVE  IdIsSlot'
<1>1. t \in Threads /\ th \in [Threads -> Locals] /\ th[t] \in Locals
      /\ UNCHANGED <<clnt_cnt, clnt_socks>>
  BY ThreadState DEF LockTable, tableVars
<1>2. CASE SlotsOf(th[t].sock) = {}
  BY <1>1, <1>2, Updates, SlotLeft DEF LockTable, AtSlot
<1>3. CASE SlotsOf(th[t].sock) # {}
  <2> DEFINE s == FirstSlot(th[t].sock)
  <2>1. s < clnt_cnt /\ clnt_socks[s] = th[t].sock
    BY <1>3, FirstSlotFound DEF SlotsOf
  <2>2. th' = [th EXCEPT ![t].pc = "name", ![t].i = s]
    BY <1>3 DEF LockTable
  <2> HIDE DEF s
  <2>3. th'[t].i = s /\ th'[t].sock = th[t].sock /\ \A c \in Conns \ {t} : th'[c] = th[c]
    BY <1>1, <2>2 DEF Locals, Threads
  <2> QED BY <1>1, <2>1, <2>3 DEF IdIsSlot
<1> QED BY <1>2, <1>3

LEMMA SlotThread ==
    ASSUME ServerInv, IdIsSlot, NEW t \in Conns, ThreadStep(t)
    PROVE  IdIsSlot'
<1>1. t \in Threads /\ th \in [Threads -> Locals] /\ th[t] \in Locals
  BY ThreadState
<1>2. CASE Begin(t) \/ UnlockTable(t) \/ Barrier(t) \/ LockBroadcast(t) \/ SendDone(t)
  <2>1. \A s \in Threads \ {t} : th'[s] = th[s]
    BY <1>1, <1>2 DEF Begin, UnlockTable, Barrier, LockBroadcast, SendDone, Goto,
                      CallDisconnected
  <2>2. th'[t].pc \notin AtSlot
    BY <1>1, <1>2 DEF Begin, UnlockTable, Barrier, LockBroadcast, SendDone, Goto,
                      CallDisconnected, Locals, AtSlot
  <2>3. UNCHANGED <<clnt_cnt, clnt_socks>>
    BY <1>2 DEF Begin, UnlockTable, Barrier, LockBroadcast, SendDone, tableVars
  <2> QED BY <1>1, <2>1, <2>2, <2>3, SlotLeft
<1>3. CASE ReadSize(t)
  <2>1. CASE /\ th' = [th EXCEPT ![t].pc = "lock", ![t].name_size = 1]
             /\ UNCHANGED tableVars
    <3>1. th'[t].pc = "lock" /\ \A s \in Threads \ {t} : th'[s] = th[s]
      BY <1>1, <2>1 DEF Locals
    <3> QED BY <1>1, <2>1, <3>1, SlotLeft DEF tableVars, AtSlot
  <2> QED BY <1>1, <1>3, <2>1, SlotWrongRead DEF ReadSize
<1>4. CASE ReadName(t)
  <2>1. th[t].pc = "name"
    BY <1>4 DEF ReadName, At
  <2>2. CASE Goto(t, "id") /\ UNCHANGED <<clnt_cnt, clnt_socks>>
    <3>1. th'[t].i = th[t].i /\ th'[t].sock = th[t].sock
          /\ \A s \in Threads \ {t} : th'[s] = th[s]
      BY <1>1, <2>2 DEF Goto, Locals
    <3> QED BY <2>1, <2>2, <3>1, SlotFrame DEF AtSlot, Threads
  <2> QED BY <1>1, <1>4, <2>2, SlotWrongRead DEF ReadName, tableVars
<1>5. CASE ReadEvent(t)
  <2>1. CASE /\ th' = [th EXCEPT ![t].pc = "bcast", ![t].event = NextIn(t)[2]]
             /\ UNCHANGED tableVars
    <3>1. th'[t].pc = "bcast" /\ \A s \in Threads \ {t} : th'[s] = th[s]
      BY <1>1, <2>1 DEF Locals
    <3> QED BY <1>1, <2>1, <3>1, SlotLeft DEF tableVars, AtSlot
  <2> QED BY <1>1, <1>5, <2>1, SlotWrongRead DEF ReadEvent
<1>6. CASE WriteId(t)
  <2>1. CASE /\ th' = [th EXCEPT ![t].pc = "unlock", ![t].behind = FALSE]
             /\ UNCHANGED <<clnt_cnt, clnt_socks>>
    <3>1. th'[t].pc = "unlock" /\ \A s \in Threads \ {t} : th'[s] = th[s]
      BY <1>1, <2>1 DEF Locals
    <3> QED BY <1>1, <2>1, <3>1, SlotLeft DEF AtSlot
  <2> QED BY <1>1, <1>6, <2>1, SlotFailedWrite DEF WriteId
<1>7. CASE WriteJson(t)
  <2>1. CASE /\ th' = [th EXCEPT ![t].pc = "wait", ![t].behind = FALSE]
             /\ UNCHANGED tableVars
    <3>1. th'[t].pc = "wait" /\ \A s \in Threads \ {t} : th'[s] = th[s]
      BY <1>1, <2>1 DEF Locals
    <3> QED BY <1>1, <2>1, <3>1, SlotLeft DEF tableVars, AtSlot
  <2> QED BY <1>1, <1>7, <2>1, SlotFailedWrite DEF WriteJson
<1>8. CASE WriteNames(t) \/ SendOne(t)
  <2>1. th[t].pc \in {"names", "send"}
    BY <1>8 DEF WriteNames, SendOne, At
  <2>2. CASE /\ th' = [th EXCEPT ![t].i = @ + 1, ![t].behind = FALSE]
             /\ UNCHANGED tableVars
    <3>1. th'[t].pc = th[t].pc /\ \A s \in Threads \ {t} : th'[s] = th[s]
      BY <1>1, <2>2 DEF Locals
    <3> QED BY <1>1, <2>1, <2>2, <3>1, SlotLeft DEF tableVars, AtSlot
  <2>3. CASE Goto(t, "event") /\ UNCHANGED tableVars
    BY <1>1, <2>3, Updates, SlotLeft DEF tableVars, AtSlot
  <2> QED BY <1>1, <1>8, <2>2, <2>3, SlotFailedWrite DEF WriteNames, SendOne
<1> QED BY <1>2, <1>3, <1>4, <1>5, <1>6, <1>7, <1>8, SlotFound DEF ThreadStep

LEMMA SlotOthers ==
    ASSUME ServerInv, IdIsSlot,
           \/ MainStep \/ MainAcceptFails \/ \E c \in Conns : MainAccept(c)
           \/ \E t \in Threads : DisconnectedStep(t)
           \/ \E c \in Conns : ClientStep(c)
    PROVE  IdIsSlot'
<1>1. /\ Main \in Threads /\ Main \notin Conns /\ th \in [Threads -> Locals]
      /\ \A c \in Conns : c \in Threads
  BY ServerAssumption DEF Threads, ServerInv, TypeOK
<1>2. CASE MainHello
  <2>1. CASE th' = [th EXCEPT ![Main].pc = "check", ![Main].behind = FALSE]
             /\ UNCHANGED tableVars
    <3>1. \A s \in Threads \ {Main} : th'[s] = th[s]
      BY <1>1, <2>1
    <3> QED BY <1>1, <2>1, <3>1, SlotLeft DEF tableVars
  <2> QED BY <1>1, <1>2, <2>1, SlotFailedWrite DEF MainHello, WriteFailsOrKills
<1>3. CASE MainSpawn
  <2>1. \A c \in Conns : th'[c].pc \in AtSlot => th'[c] = th[c]
    BY <1>1, <1>3 DEF MainSpawn, AtSlot, Locals
  <2> QED BY <1>3, <2>1, SlotFrame DEF MainSpawn, tableVars
<1>4. CASE MainAdd
  <2>1. mutx = None /\ \A s \in Threads \ {Main} : th'[s] = th[s]
    BY <1>1, <1>4 DEF MainAdd, Crash, Goto
  <2> QED BY <1>1, <2>1, SlotUnused
<1>5. CASE MainCheck \/ MainCount \/ MainStart \/ MainAcceptFails
           \/ \E c \in Conns : MainAccept(c)
  <2>1. \A s \in Threads \ {Main} : th'[s] = th[s]
    BY <1>1, <1>5 DEF MainCheck, MainCount, MainStart, MainAcceptFails, MainAccept, Goto
  <2>2. UNCHANGED <<clnt_cnt, clnt_socks>>
    BY <1>5 DEF MainCheck, MainCount, MainStart, MainAcceptFails, MainAccept, tableVars
  <2> QED BY <1>1, <2>1, <2>2, SlotLeft
<1>6. ASSUME NEW t \in Threads, DisconnectRemove(t) PROVE IdIsSlot'
  <2>1. mutx = None /\ Goto(t, "reset")
    BY <1>6 DEF DisconnectRemove
  <2> QED BY <2>1, Updates, SlotUnused DEF AtSlot
<1>7. ASSUME NEW t \in Threads, DisconnectReset(t) \/ DisconnectClose(t) PROVE IdIsSlot'
  <2>1. PICK p : /\ Goto(t, p) /\ p \notin AtSlot
                 /\ UNCHANGED <<clnt_cnt, clnt_socks>>
    BY <1>7 DEF DisconnectReset, DisconnectClose, At, ServerInv, LockInv, Holding, AtSlot,
                tableVars
  <2> QED BY <2>1, Updates, SlotLeft
<1>8. ASSUME NEW c \in Conns, ClientStep(c) PROVE IdIsSlot'
  <2>1. UNCHANGED <<th, clnt_cnt, clnt_socks>>
    BY <1>8 DEF ClientStep, ClientSize, ClientName, ClientCommand, ClientEnd, ClientLeave,
                Send, tableVars
  <2> QED BY <2>1, SlotFrame
<1> QED BY <1>2, <1>3, <1>4, <1>5, <1>6, <1>7, <1>8 DEF MainStep, DisconnectedStep

\* Between the search of handle_clnt for the own slot and the id that is sent,
\* no call of disconnected moves the slot away: both hold the mutex, and the
\* one that waits for the name keeps it.
THEOREM SlotKept == Spec => []IdIsSlot
<1>1. Init => IdIsSlot
  BY ServerAssumption DEF Init, NewThread, Threads, IdIsSlot
<1>2. ServerInv /\ IdIsSlot /\ [Next]_vars => IdIsSlot'
  <2> SUFFICES ASSUME ServerInv, IdIsSlot, [Next]_vars PROVE IdIsSlot'
    OBVIOUS
  <2>1. CASE UNCHANGED vars
    BY <2>1, SlotFrame DEF vars, tableVars
  <2> QED BY <2>1, SlotThread, SlotOthers DEF Next
<1> QED BY <1>1, <1>2, ServerInvariant, PTL DEF Spec

-----------------------------------------------------------------------------
(***************************************************************************)
(* What main has told the client that it is about to let in or to turn     *)
(* away.                                                                   *)
(***************************************************************************)

Told(c) == SentTo(c, "hello")

\* The connection is told once, on a descriptor that is its own or closed; a
\* hello that fails is never repeated with success.
GreetInv ==
    /\ \A c \in Conns : link[c] = "out" => Told(c) = <<>>
    /\ th[Main].pc \in {"hello"} \cup Calls /\ th[Main].sock # BadFd =>
           Told(accepted) = <<>> /\ fds[th[Main].sock] \in {accepted, NoConn}
    /\ th[Main].pc \in Calls => th[Main].arg = th[Main].sock
    /\ th[Main].behind => \/ th[Main].pc \in Calls
                          \/ th[Main].pc = "hello" /\ ~IsOpen(th[Main].sock)
    /\ th[Main].pc = "check" =>
           Told(accepted) = <<1>> \/ (Told(accepted) = <<0>> /\ game_start = 0)

\* A step of somebody else: it may close descriptors and end the game.
LEMMA GreetFrame ==
    ASSUME ServerInv, GreetInv, th'[Main] = th[Main], accepted' = accepted,
           \A c \in Conns : Told(c)' = Told(c),
           \A f \in Fds : fds'[f] \in {fds[f], NoConn},
           \A c \in Conns : link'[c] = "out" => link[c] = "out",
           game_start = 0 => game_start' = 0
    PROVE  GreetInv'
<1>1. th[Main].sock \in Fds \cup {BadFd}
  BY MainState
<1>2. \A c \in Conns : link'[c] = "out" => Told(c)' = <<>>
  BY DEF GreetInv
<1>3. th[Main].pc \in {"hello"} \cup Calls /\ th[Main].sock # BadFd =>
          Told(accepted)' = <<>> /\ fds'[th[Main].sock] \in {accepted, NoConn}
  BY <1>1 DEF GreetInv, ServerInv, SpawnInv
<1>4. ~IsOpen(th[Main].sock) => ~IsOpen(th[Main].sock)'
  BY DEF IsOpen
<1>5. th[Main].pc = "check" =>
          Told(accepted)' = <<1>> \/ (Told(accepted)' = <<0>> /\ game_start' = 0)
  BY DEF GreetInv, ServerInv, SpawnInv
<1> QED BY <1>2, <1>3, <1>4, <1>5 DEF GreetInv

\* Nobody but main writes a hello.
LEMMA NoHello ==
    ASSUME ServerInv, HistInv, NEW t \in Conns, NEW f, NEW m \in AnyMsgs, m[1] # "hello",
           WriteArrives(t, f, m)
    PROVE  \A c \in Conns : Told(c)' = Told(c)
<1>1. PICK d \in Conns : d = fds[f]
  BY DEF WriteArrives, LinkOf, IsOpen, ServerInv, TypeOK
<1>2. PICK x \in AnyMsgs : x = (IF th[t].behind THEN <<"junk", 0>> ELSE m) /\ x[1] # "hello"
  <2>1. <<"junk", 0>> \in AnyMsgs /\ <<"junk", 0>>[1] # "hello"
    BY DEF AnyMsgs
  <2> QED BY <2>1
<1>3. out' = [out EXCEPT ![d] = Append(out[d], x)] /\ out \in [Conns -> Seq(AnyMsgs)]
  BY <1>1, <1>2 DEF WriteArrives, HistInv
<1>4. PICK q \in Seq(AnyMsgs) : q = out[d]
  BY <1>3
<1>5. Carried(Append(q, x), "hello") = Carried(q, "hello")
  BY <1>2, CarriedAppend
<1>6. out'[d] = Append(q, x) /\ \A c \in Conns : c # d => out'[c] = out[c]
  BY <1>3, <1>4
<1> QED BY <1>4, <1>5, <1>6 DEF Told, SentTo

LEMMA NothingTold ==
    ASSUME out' = out
    PROVE  \A c : Told(c)' = Told(c)
BY NothingSent DEF Told

\* A step of a thread that writes nothing or no hello.
LEMMA GreetQuiet ==
    ASSUME ServerInv, GreetInv, NEW t \in Conns, \A s \in Threads \ {t} : th'[s] = th[s],
           UNCHANGED <<accepted, game_start, fds>>,
           \A c \in Conns : Told(c)' = Told(c),
           \A c \in Conns : link'[c] = "out" => link[c] = "out"
    PROVE  GreetInv'
BY GreetFrame, MainState

LEMMA GreetCrash ==
    ASSUME ServerInv, GreetInv, NEW how, Crash(how)
    PROVE  GreetInv'
BY GreetFrame, NothingTold DEF Crash, netVars, tableVars

LEMMA GreetFailedWrite ==
    ASSUME ServerInv, GreetInv, NEW t \in Conns, NEW f, WriteFailsOrKills(t, f)
    PROVE  GreetInv'
<1>1. CASE WriteFails(t, f)
  BY <1>1, ThreadState, Updates, GreetQuiet, NothingTold DEF WriteFails, netVars, tableVars
<1>2. CASE WriteKills(f)
  BY <1>2, GreetCrash DEF WriteKills
<1> QED BY <1>1, <1>2 DEF WriteFailsOrKills

LEMMA GreetWrongRead ==
    ASSUME ServerInv, GreetInv, NEW t \in Conns, NEW kind, NEW back,
           ReadGoesWrong(t, kind, back)
    PROVE  GreetInv'
<1>1. CASE ReadCorrupts(t, kind)
  BY <1>1, GreetCrash DEF ReadCorrupts
<1>2. CASE ReadEof(t, back)
  BY <1>2, ThreadState, Updates, GreetQuiet, NothingTold DEF ReadEof, netVars, tableVars
<1>3. CASE ReadFails(t)
  BY <1>3, ThreadState, Updates, GreetQuiet, NothingTold DEF ReadFails, netVars, tableVars
<1> QED BY <1>1, <1>2, <1>3 DEF ReadGoesWrong

LEMMA GreetRead ==
    ASSUME ServerInv, GreetInv, NEW t \in Conns, NEW kind, ReadArrives(t, kind),
           \A s \in Threads \ {t} : th'[s] = th[s], UNCHANGED <<accepted, game_start>>
    PROVE  GreetInv'
BY GreetQuiet, NothingTold DEF ReadArrives

LEMMA GreetWrite ==
    ASSUME ServerInv, HistInv, GreetInv, NEW t \in Conns, NEW f, NEW m \in AnyMsgs,
           m[1] # "hello", WriteArrives(t, f, m),
           \A s \in Threads \ {t} : th'[s] = th[s], UNCHANGED <<accepted, game_start>>
    PROVE  GreetInv'
<1>1. (\A c \in Conns : link'[c] = "out" => link[c] = "out") /\ fds' = fds
  BY WriteEffect
<1>2. \A c \in Conns : Told(c)' = Told(c)
  BY NoHello
<1> QED BY <1>1, <1>2, GreetQuiet

LEMMA OneThreadSteps ==
    ASSUME ServerInv, NEW t \in Conns, ThreadStep(t)
    PROVE  \A s \in Threads \ {t} : th'[s] = th[s]
<1>1. th \in [Threads -> Locals] /\ t \in Threads
  BY ThreadState
<1>2. ASSUME NEW f, WriteFailsOrKills(t, f) PROVE \A s \in Threads \ {t} : th'[s] = th[s]
  BY <1>1, <1>2 DEF WriteFailsOrKills, WriteFails, WriteKills, Crash, CallDisconnected
<1>3. ASSUME NEW kind, NEW back, ReadGoesWrong(t, kind, back)
      PROVE  \A s \in Threads \ {t} : th'[s] = th[s]
  BY <1>1, <1>3 DEF ReadGoesWrong, ReadCorrupts, ReadEof, ReadFails, Crash, CallDisconnected
<1>4. CASE Begin(t) \/ LockTable(t) \/ UnlockTable(t) \/ Barrier(t) \/ LockBroadcast(t)
           \/ SendDone(t)
  BY <1>1, <1>4 DEF Begin, LockTable, UnlockTable, Barrier, LockBroadcast, SendDone, Goto,
                    CallDisconnected
<1>5. CASE ReadSize(t) \/ ReadName(t) \/ ReadEvent(t)
  BY <1>1, <1>3, <1>5 DEF ReadSize, ReadName, ReadEvent, Goto
<1>6. CASE WriteId(t) \/ WriteJson(t) \/ WriteNames(t) \/ SendOne(t)
  BY <1>1, <1>2, <1>6 DEF WriteId, WriteJson, WriteNames, SendOne, Goto
<1> QED BY <1>4, <1>5, <1>6 DEF ThreadStep

LEMMA GreetThread ==
    ASSUME ServerInv, HistInv, GreetInv, NEW t \in Conns, ThreadStep(t)
    PROVE  GreetInv'
<1>1. t \in Threads /\ th \in [Threads -> Locals] /\ th[t] \in Locals
      /\ user_name \in [0 .. MaxUser - 1 -> Conns \cup {NoConn}] /\ bcast \in Seq(Events)
      /\ \A s \in Threads \ {t} : th'[s] = th[s]
  BY ThreadState, OneThreadSteps
<1>2. CASE Begin(t) \/ LockTable(t) \/ UnlockTable(t) \/ Barrier(t) \/ LockBroadcast(t)
           \/ SendDone(t)
  <2>1. UNCHANGED <<link, out, fds, accepted, game_start>>
    BY <1>2 DEF Begin, LockTable, UnlockTable, Barrier, LockBroadcast, SendDone, netVars,
                tableVars
  <2> QED BY <1>1, <2>1, NothingTold, GreetQuiet
<1>3. CASE ReadSize(t)
  <2>1. CASE /\ ReadArrives(t, "size")
             /\ UNCHANGED <<tableVars, accepted>>
    BY <1>1, <2>1, GreetRead DEF tableVars
  <2> QED BY <1>3, <2>1, GreetWrongRead DEF ReadSize
<1>4. CASE ReadName(t)
  <2>1. CASE ReadArrives(t, "name") /\ UNCHANGED <<accepted, game_start>>
    BY <1>1, <2>1, GreetRead
  <2>2. CASE UNCHANGED <<tableVars, accepted, netVars>>
    BY <1>1, <2>2, NothingTold, GreetQuiet DEF netVars, tableVars
  <2> QED BY <1>4, <2>1, <2>2, GreetWrongRead DEF ReadName
<1>5. CASE ReadEvent(t)
  <2>1. CASE /\ ReadArrives(t, "event")
             /\ UNCHANGED <<tableVars, accepted>>
    BY <1>1, <2>1, GreetRead DEF tableVars
  <2> QED BY <1>5, <2>1, GreetWrongRead DEF ReadEvent
<1>6. CASE WriteId(t)
  <2>1. CASE /\ WriteArrives(t, th[t].sock, <<"id", IdOf(t)>>)
             /\ UNCHANGED <<accepted, game_start>>
    <3>1. <<"id", IdOf(t)>> \in AnyMsgs /\ <<"id", IdOf(t)>>[1] # "hello"
      BY <1>1 DEF AnyMsgs, OutMsgs, IdOf, Locals
    <3> QED BY <1>1, <2>1, <3>1, GreetWrite
  <2> QED BY <1>6, <2>1, GreetFailedWrite DEF WriteId
<1>7. CASE WriteJson(t)
  <2>1. CASE /\ WriteArrives(t, th[t].sock, <<"json", 0>>)
             /\ UNCHANGED <<tableVars, accepted>>
    <3>1. <<"json", 0>> \in AnyMsgs /\ <<"json", 0>>[1] # "hello"
      BY DEF AnyMsgs, OutMsgs
    <3> QED BY <1>1, <2>1, <3>1, GreetWrite DEF tableVars
  <2> QED BY <1>7, <2>1, GreetFailedWrite DEF WriteJson
<1>8. CASE WriteNames(t)
  <2>1. CASE /\ th[t].i < MaxUser
             /\ WriteArrives(t, th[t].sock, <<"name", user_name[th[t].i]>>)
             /\ UNCHANGED <<tableVars, accepted>>
    <3>1. user_name[th[t].i] \in Conns \cup {NoConn}
      BY <1>1, <2>1, ServerAssumption DEF Locals
    <3> DEFINE m == <<"name", user_name[th[t].i]>>
    <3>2. m \in AnyMsgs /\ m[1] # "hello"
      BY <3>1 DEF AnyMsgs, OutMsgs
    <3> HIDE DEF m
    <3> QED BY <1>1, <2>1, <3>2, GreetWrite DEF m, tableVars
  <2>2. CASE UNCHANGED <<tableVars, accepted, netVars>>
    BY <1>1, <2>2, NothingTold, GreetQuiet DEF netVars, tableVars
  <2> QED BY <1>8, <2>1, <2>2, GreetFailedWrite DEF WriteNames
<1>9. CASE SendOne(t)
  <2>1. CASE /\ WriteArrives(t, clnt_socks[th[t].i], <<"event", th[t].event>>)
             /\ UNCHANGED <<tableVars, accepted>>
    <3>1. bcast # <<>> /\ th[t].event = bcast[Len(bcast)]
      BY <1>9 DEF HistInv, SendOne, At
    <3>2. th[t].event \in Events
      BY <1>1, <3>1
    <3> DEFINE m == <<"event", th[t].event>>
    <3>3. m \in AnyMsgs /\ m[1] # "hello"
      BY <3>2 DEF AnyMsgs, OutMsgs
    <3> HIDE DEF m
    <3> QED BY <1>1, <2>1, <3>3, GreetWrite DEF m, tableVars
  <2> QED BY <1>9, <2>1, GreetFailedWrite DEF SendOne
<1> QED BY <1>2, <1>3, <1>4, <1>5, <1>6, <1>7, <1>8, <1>9 DEF ThreadStep

\* disconnected: called by main, it closes the descriptor of the client.
LEMMA GreetDisconnected ==
    ASSUME ServerInv, GreetInv, NEW t \in Threads, DisconnectedStep(t)
    PROVE  GreetInv'
<1>1. PICK p \in {"reset", "close", th[t].ret} :
          /\ Goto(t, p) /\ th[t].pc \in Calls
          /\ p = th[t].ret => th[t].pc = "close"
          /\ UNCHANGED <<accepted, link, out>>
          /\ game_start = 0 => game_start' = 0
          /\ \A f \in Fds : fds'[f] \in {fds[f], NoConn}
          /\ th[t].pc = "close" => \A f \in Fds : f = th[t].arg => fds'[f] = NoConn
  <2>1. CASE DisconnectRemove(t)
    <3>1. th[t].ret # "reset"
      BY <2>1, InCall DEF DisconnectRemove, At, Calls, Returns
    <3> QED BY <2>1, <3>1 DEF DisconnectRemove, At, Calls, netVars
  <2>2. CASE DisconnectReset(t)
    <3>1. th[t].ret # "close"
      BY <2>2, InCall DEF DisconnectReset, At, Calls, Returns
    <3> QED BY <2>2, <3>1 DEF DisconnectReset, At, Calls, netVars
  <2>3. CASE DisconnectClose(t)
    BY <2>3 DEF DisconnectClose, At, Calls, tableVars
  <2> QED BY <2>1, <2>2, <2>3 DEF DisconnectedStep
<1>2. \A c \in Conns : Told(c)' = Told(c)
  BY <1>1, NothingTold
<1>3. CASE t # Main
  <2>1. th'[Main] = th[Main]
    BY <1>1, <1>3, Updates, MainState
  <2> QED BY <1>1, <1>2, <2>1, GreetFrame
<1>4. CASE t = Main
  <2>1. th[Main].ret = "hello"
    BY <1>1, <1>4, InCall
  <2>2. /\ th'[Main].pc = p /\ th'[Main].sock = th[Main].sock
        /\ th'[Main].arg = th[Main].arg /\ th'[Main].behind = th[Main].behind
    BY <1>1, <1>4, MainState DEF Goto, Locals
  <2>3. th[Main].arg = th[Main].sock
    BY <1>1, <1>4 DEF GreetInv
  <2>4. p = "hello" => \A f \in Fds : f = th[Main].sock => fds'[f] = NoConn
    BY <1>1, <1>4, <2>1, <2>3
  <2>5. th[Main].sock # BadFd =>
            Told(accepted)' = <<>> /\ fds'[th[Main].sock] \in {accepted, NoConn}
    <3>1. th[Main].sock # BadFd => accepted \in Conns /\ th[Main].sock \in Fds
      BY <1>1, <1>4, MainState DEF ServerInv, SpawnInv
    <3> QED BY <1>1, <1>2, <1>4, <3>1 DEF GreetInv
  <2>6. p \in {"hello"} \cup Calls
    BY <1>1, <1>4, <2>1 DEF Calls
  <2> QED BY <1>1, <1>2, <2>2, <2>3, <2>4, <2>5, <2>6 DEF GreetInv, Calls, IsOpen
<1> QED BY <1>3, <1>4

LEMMA GreetHello ==
    ASSUME ServerInv, HistInv, GreetInv, MainHello
    PROVE  GreetInv'
<1> DEFINE f == th[Main].sock
<1>1. /\ th[Main].pc = "hello" /\ Main \in Threads /\ th \in [Threads -> Locals]
      /\ th[Main] \in Locals /\ game_start \in {0, 1}
  BY MainState DEF MainHello, At, ServerInv, TypeOK
<1>2. CASE WriteFails(Main, f)
  <2>1. /\ th'[Main].pc = "disc" /\ th'[Main].arg = f /\ th'[Main].sock = f
        /\ UNCHANGED <<accepted, netVars>>
    BY <1>1, <1>2 DEF WriteFails, CallDisconnected, Locals
  <2>2. "disc" \in Calls /\ "disc" # "check"
    BY DEF Calls
  <2>3. \A c : Told(c)' = Told(c)
    BY <2>1, NothingTold DEF netVars
  <2> QED BY <1>1, <2>1, <2>2, <2>3 DEF GreetInv, netVars
<1>3. CASE /\ WriteArrives(Main, f, <<"hello", game_start>>)
           /\ th' = [th EXCEPT ![Main].pc = "check", ![Main].behind = FALSE]
           /\ UNCHANGED <<tableVars, accepted>>
  <2>1. IsOpen(f) /\ f # BadFd
    BY <1>3, BadFdClosed DEF WriteArrives, LinkOf, IsOpen
  <2>2. Told(accepted) = <<>> /\ fds[f] = accepted /\ accepted \in Conns /\ ~th[Main].behind
    <3>1. accepted \in Conns
      BY <1>1, <2>1 DEF ServerInv, SpawnInv
    <3>2. "hello" \notin Calls
      BY DEF Calls
    <3> QED BY <1>1, <2>1, <3>1, <3>2 DEF GreetInv, IsOpen
  <2> DEFINE m == <<"hello", game_start>>
  <2>3. m \in AnyMsgs /\ m[1] = "hello" /\ m[2] = game_start
    BY <1>1 DEF AnyMsgs, OutMsgs
  <2>4. out' = [out EXCEPT ![accepted] = Append(out[accepted], m)]
        /\ out \in [Conns -> Seq(AnyMsgs)]
    BY <1>3, <2>2 DEF WriteArrives, HistInv
  <2> HIDE DEF m
  <2>5. PICK q \in Seq(AnyMsgs) : q = out[accepted]
    BY <2>2, <2>4
  <2>6. Carried(Append(q, m), "hello") = Append(Carried(q, "hello"), game_start)
    BY <2>3, CarriedAppend
  <2>7. out'[accepted] = Append(q, m) /\ \A c \in Conns : c # accepted => out'[c] = out[c]
    BY <2>2, <2>4, <2>5
  <2>8. Told(accepted)' = <<game_start>> /\ accepted' = accepted
    <3>1. Append(<<>>, game_start) = <<game_start>>
      OBVIOUS
    <3>2. Carried(q, "hello") = <<>>
      BY <2>2, <2>5 DEF Told, SentTo
    <3>3. accepted' = accepted
      BY <1>3
    <3> QED BY <2>6, <2>7, <3>1, <3>2, <3>3 DEF Told, SentTo
  <2>9. \A c \in Conns : link'[c] = "out" => Told(c)' = <<>>
    <3>1. link[accepted] # "out"
      BY <2>1, <2>2 DEF ServerInv, NetInv, IsOpen
    <3>2. \A c \in Conns : link'[c] = "out" => link[c] = "out"
      BY <1>3, WriteEffect
    <3>3. \A c \in Conns : c # accepted => Told(c)' = Told(c)
      BY <2>7 DEF Told, SentTo
    <3> QED BY <3>1, <3>2, <3>3 DEF GreetInv
  <2>10. th'[Main].pc = "check" /\ ~th'[Main].behind
    BY <1>1, <1>3 DEF Locals
  <2>11. game_start' = game_start
    BY <1>3 DEF tableVars
  <2> QED BY <1>1, <2>8, <2>9, <2>10, <2>11 DEF GreetInv, Calls
<1> QED BY <1>2, <1>3 DEF MainHello

LEMMA GreetAccept ==
    ASSUME ServerInv, GreetInv, NEW c \in Conns, MainAccept(c)
    PROVE  GreetInv'
<1>1. /\ th[Main].pc = "accept" /\ link[c] = "out" /\ accepted' = c
      /\ fds' = [fds EXCEPT ![LowestFree] = c] /\ link' = [link EXCEPT ![c] = "up"]
      /\ th' = [th EXCEPT ![Main].pc = "hello", ![Main].sock = LowestFree]
      /\ UNCHANGED out
  BY DEF MainAccept, At
<1>2. LowestFree \in Fds
  BY <1>1, AcceptFinds
<1>3. /\ th'[Main].pc = "hello" /\ th'[Main].sock = LowestFree
      /\ th'[Main].behind = th[Main].behind
  BY <1>1, MainState DEF Locals
<1>4. ~th[Main].behind
  BY <1>1 DEF GreetInv, Calls
<1>5. fds'[LowestFree] = c
  BY <1>1, <1>2 DEF ServerInv, TypeOK
<1>6. \A d \in Conns : Told(d)' = Told(d) /\ (link'[d] = "out" => link[d] = "out")
  BY <1>1, NothingTold, MainState
<1>7. Told(c) = <<>>
  BY <1>1 DEF GreetInv
<1> QED BY <1>1, <1>3, <1>4, <1>5, <1>6, <1>7 DEF GreetInv, Calls

\* The other steps of main: none of them leads to a hello or its check.
LEMMA GreetMain ==
    ASSUME ServerInv, GreetInv,
           MainCheck \/ MainAdd \/ MainSpawn \/ MainCount \/ MainStart \/ MainAcceptFails
    PROVE  GreetInv'
<1>1. CASE \E how : Crash(how)
  BY <1>1, GreetCrash
<1>2. CASE MainAcceptFails
  <2>1. /\ th[Main].pc = "accept" /\ th'[Main].pc = "hello" /\ th'[Main].sock = BadFd
        /\ th'[Main].behind = th[Main].behind /\ UNCHANGED <<out, link>>
    BY <1>2, MainState DEF MainAcceptFails, At, Locals, netVars
  <2>2. ~th[Main].behind
    BY <2>1 DEF GreetInv, Calls
  <2>3. \A c : Told(c)' = Told(c)
    BY <2>1, NothingTold
  <2> QED BY <2>1, <2>2, <2>3 DEF GreetInv, Calls
<1>3. CASE /\ MainCheck \/ MainAdd \/ MainSpawn \/ MainCount \/ MainStart
           /\ ~\E how : Crash(how)
  <2>1. /\ th[Main].pc \in {"check", "add", "spawn", "count", "start"}
        /\ UNCHANGED <<out, link>>
    BY <1>3 DEF MainCheck, MainAdd, MainSpawn, MainCount, MainStart, At, netVars
  <2>2. th'[Main].pc \in {"accept", "add", "spawn", "count", "start"}
        /\ th'[Main].behind = th[Main].behind
    <3>1. CASE MainSpawn
      <4>1. accepted \in Conns
        BY <3>1 DEF MainSpawn, At, ServerInv, SpawnInv
      <4> QED BY <3>1, <4>1, MainState DEF MainSpawn, Locals
    <3>2. CASE MainCheck \/ MainAdd \/ MainCount \/ MainStart
      BY <1>3, <3>2, MainState DEF MainCheck, MainAdd, MainCount, MainStart, Goto, Locals
    <3> QED BY <1>3, <3>1, <3>2
  <2>3. ~th[Main].behind
    BY <2>1 DEF GreetInv, Calls
  <2>4. \A c : Told(c)' = Told(c)
    BY <2>1, NothingTold
  <2> QED BY <2>1, <2>2, <2>3, <2>4 DEF GreetInv, Calls
<1> QED BY <1>1, <1>2, <1>3

LEMMA GreetBegins ==
    ASSUME Init
    PROVE  GreetInv
<1>1. \A c \in Conns : Told(c) = <<>>
  BY CarriedNothing DEF Init, Told, SentTo
<1>2. th[Main].pc = "accept" /\ ~th[Main].behind
  BY DEF Init, NewThread, Threads
<1> QED BY <1>1, <1>2 DEF GreetInv, Calls

LEMMA GreetStep ==
    ASSUME ServerInv, HistInv, GreetInv, [Next]_vars
    PROVE  GreetInv'
<1>1. CASE UNCHANGED vars
  BY <1>1, GreetFrame, NothingTold DEF vars, netVars, tableVars
<1>2. ASSUME NEW c \in Conns, ClientStep(c) PROVE GreetInv'
  <2>1. UNCHANGED <<th, accepted, fds, out, game_start>>
    BY <1>2 DEF ClientStep, ClientSize, ClientName, ClientCommand, ClientEnd, ClientLeave,
                Send, tableVars
  <2>2. \A d \in Conns : link'[d] = "out" => link[d] = "out"
    BY <1>2, MainState DEF ClientStep, ClientSize, ClientName, ClientCommand, ClientEnd,
                           ClientLeave, Send
  <2> QED BY <2>1, <2>2, GreetFrame, NothingTold
<1> QED BY <1>1, <1>2, GreetThread, GreetDisconnected, GreetHello, GreetAccept, GreetMain
        DEF Next, MainStep

\* game_start may be 1 when main tells the client and 0 when main looks again:
\* then the client was told to go and gets a thread all the same.  The other
\* way round cannot happen: whom main turns away has been told so, on every
\* mixture of clients that come and go.
THEOREM NobodyTurnedAwayUntold == Spec => RefusedWereTold
<1>1. Init => ServerInv /\ HistInv /\ GreetInv
  BY InitServerInv, HistBegins, GreetBegins
<1>2. ServerInv /\ HistInv /\ GreetInv /\ [Next]_vars => ServerInv' /\ HistInv' /\ GreetInv'
  BY NextServerInv, HistStep, GreetStep
<1>3. ServerInv /\ GreetInv /\ [Next]_vars
          => [At(Main, "check") /\ th'[Main].pc = "accept"
                  => SentTo(accepted, "hello") = <<1>>]_vars
  <2> SUFFICES ASSUME ServerInv, GreetInv, Next, At(Main, "check"), th'[Main].pc = "accept"
               PROVE  Told(accepted) = <<1>>
    BY DEF Told
  <2>1. th[Main].pc = "check" /\ th'[Main] # th[Main]
    BY DEF At
  <2>2. game_start = 1
    <3>1. CASE MainCheck
      BY <3>1, MainState DEF MainCheck, Refuses, Goto, Locals
    <3>2. ~MainHello /\ ~MainAdd /\ ~MainSpawn /\ ~MainCount /\ ~MainStart
          /\ ~MainAcceptFails /\ ~DisconnectedStep(Main)
          /\ \A c \in Conns : ~MainAccept(c)
      BY <2>1 DEF MainHello, MainAdd, MainSpawn, MainCount, MainStart, MainAcceptFails,
                  MainAccept, DisconnectedStep, DisconnectRemove, DisconnectReset,
                  DisconnectClose, At
    <3>3. ASSUME NEW c \in Conns, ThreadStep(c) \/ ClientStep(c) PROVE FALSE
      <4>1. CASE ThreadStep(c)
        BY <2>1, <4>1, OneThreadSteps, MainState
      <4>2. CASE ClientStep(c)
        BY <2>1, <4>2 DEF ClientStep, ClientSize, ClientName, ClientCommand, ClientEnd,
                          ClientLeave, Send
      <4> QED BY <3>3, <4>1, <4>2
    <3>4. ASSUME NEW t \in Conns, DisconnectedStep(t) PROVE FALSE
      <4>1. \E p : Goto(t, p)
        BY <3>4 DEF DisconnectedStep, DisconnectRemove, DisconnectReset, DisconnectClose
      <4> QED BY <2>1, <4>1, ThreadState, MainState DEF Goto
    <3> QED BY <3>1, <3>2, <3>3, <3>4 DEF Next, MainStep, Threads
  <2> QED BY <2>1, <2>2 DEF GreetInv
<1> QED BY <1>1, <1>2, <1>3, PTL DEF Spec, RefusedWereTold

-----------------------------------------------------------------------------
(* The last events of the common sequence.                                 *)

\* UpTo, event by event.
LEMMA UpToIs ==
    ASSUME NEW S, NEW s \in Seq(S), NEW b \in Seq(S), NEW m \in 0 .. Len(b), Len(s) <= m
    PROVE  s = SubSeq(b, m - Len(s) + 1, m) <=> \A k \in 1 .. Len(s) : s[k] = b[m - Len(s) + k]
<1> DEFINE n == Len(s)
           r == SubSeq(b, m - n + 1, m)
<1>1. n \in Nat /\ n <= m /\ m \in Nat /\ m <= Len(b) /\ Len(b) \in Nat
  OBVIOUS
<1> HIDE DEF n
<1>2. m - n + 1 \in 1 .. m + 1 /\ m - (m - n + 1) + 1 = n
  BY <1>1
<1>3. PICK j \in Nat : j = m - n + 1 /\ 1 <= j
  BY <1>1
<1>4. SubSeq(b, j, m) \in Seq(S) /\ Len(SubSeq(b, j, m)) = n
  <2>1. Len(SubSeq(b, j, m)) = IF j <= m THEN m - j + 1 ELSE 0
    BY <1>1, <1>3
  <2>2. \A k \in j .. m : b[k] \in S
    BY <1>1, <1>3
  <2>3. SubSeq(b, j, m) = [k \in 1 .. m - j + 1 |-> b[j + k - 1]]
    BY <1>1, <1>3
  <2>4. m - j + 1 = n /\ \A k \in 1 .. n : j + k - 1 \in j .. m
    BY <1>1, <1>3
  <2>5. \A k \in 1 .. n : b[j + k - 1] \in S
    BY <2>2, <2>4
  <2>6. SubSeq(b, j, m) = [k \in 1 .. n |-> b[j + k - 1]]
    BY <2>3, <2>4
  <2>7. [k \in 1 .. n |-> b[j + k - 1]] \in Seq(S)
    BY <1>1, <2>5
  <2> QED BY <1>1, <2>6, <2>7
<1>5. \A k \in 1 .. n : SubSeq(b, j, m)[k] = b[m - n + k]
  <2>1. \A k \in 1 .. n : SubSeq(b, j, m)[k] = b[j + k - 1] /\ j + k - 1 = m - n + k
    BY <1>1, <1>3
  <2> QED BY <2>1
<1>6. r \in Seq(S) /\ Len(r) = n /\ \A k \in 1 .. n : r[k] = b[m - n + k]
  BY <1>3, <1>4, <1>5
<1> HIDE DEF r
<1>7. ASSUME s = r PROVE \A k \in 1 .. n : s[k] = b[m - n + k]
  BY <1>6, <1>7
<1>8. ASSUME \A k \in 1 .. n : s[k] = b[m - n + k] PROVE s = r
  <2>1. Len(s) = Len(r) /\ \A k \in 1 .. Len(s) : s[k] = r[k]
    BY <1>6, <1>8 DEF n
  <2> QED BY <1>6, <2>1
<1>9. (s = r) <=> \A k \in 1 .. n : s[k] = b[m - n + k]
  BY <1>7, <1>8
<1> QED BY <1>9 DEF n, r

LEMMA UpToEnds ==
    ASSUME NEW c, EventsTo(c) \in Seq(Events), bcast \in Seq(Events), NEW m \in 0 .. Len(bcast)
    PROVE  UpTo(c, m) <=> Ends(EventsTo(c), bcast, m)
<1> DEFINE s == EventsTo(c)
<1>1. s \in Seq(Events)
  OBVIOUS
<1> HIDE DEF s
<1>2. UpTo(c, m) <=> Len(s) <= m /\ s = SubSeq(bcast, m - Len(s) + 1, m)
  BY DEF UpTo, s
<1>3. Ends(s, bcast, m) <=> Len(s) <= m /\ s = SubSeq(bcast, m - Len(s) + 1, m)
  BY <1>1, UpToIs DEF Ends
<1> QED BY <1>2, <1>3 DEF s

\* One more event in the common sequence changes nothing before it.
LEMMA EndsMore ==
    ASSUME NEW S, NEW s \in Seq(S), NEW b \in Seq(S), NEW e \in S, NEW m \in 0 .. Len(b),
           Ends(s, b, m)
    PROVE  Ends(s, Append(b, e), m)
<1>1. Len(s) \in Nat /\ Len(s) <= m /\ m <= Len(b)
  BY DEF Ends
<1>2. \A k \in 1 .. Len(s) : m - Len(s) + k \in 1 .. Len(b)
  BY <1>1
<1>3. \A k \in 1 .. Len(b) : Append(b, e)[k] = b[k]
  OBVIOUS
<1> QED BY <1>1, <1>2, <1>3 DEF Ends

\* Whoever has all but the last event is up to date when that is sent.
LEMMA EndsNext ==
    ASSUME NEW S, NEW s \in Seq(S), NEW b \in Seq(S), b # <<>>, Ends(s, b, Len(b) - 1)
    PROVE  Ends(Append(s, b[Len(b)]), b, Len(b))
<1> DEFINE n == Len(s)
           r == Append(s, b[Len(b)])
<1>1. n \in Nat /\ Len(b) \in Nat /\ n <= Len(b) - 1 /\ b[Len(b)] \in S
      /\ \A k \in 1 .. n : s[k] = b[Len(b) - 1 - n + k]
  BY DEF Ends
<1>2. Len(r) = n + 1 /\ r[n + 1] = b[Len(b)] /\ \A k \in 1 .. n : r[k] = s[k]
  BY <1>1
<1> HIDE DEF n, r
<1>3. ASSUME NEW k \in 1 .. n + 1 PROVE r[k] = b[Len(b) - (n + 1) + k]
  <2>1. CASE k = n + 1
    <3>1. Len(b) - (n + 1) + k = Len(b)
      BY <1>1, <2>1
    <3> QED BY <1>2, <2>1, <3>1
  <2>2. CASE k \in 1 .. n
    <3>1. Len(b) - (n + 1) + k = Len(b) - 1 - n + k
      BY <1>1, <2>2
    <3> QED BY <1>1, <1>2, <2>2, <3>1
  <2> QED BY <1>1, <2>1, <2>2
<1>4. Ends(r, b, Len(b))
  BY <1>1, <1>2, <1>3 DEF Ends
<1> QED BY <1>4 DEF r

LEMMA EndsNothing ==
    ASSUME NEW b, NEW m \in Nat
    PROVE  Ends(<<>>, b, m)
BY DEF Ends

-----------------------------------------------------------------------------
(* What was in good order before a step if it is after it.                 *)

\* What a step may do to the connection of a client.
LinkSteps(c) ==
    /\ ended[c] => ended'[c]
    /\ th[c].pc # "none" => th'[c].pc # "none"
    /\ link'[c] \in {"out", "up"} => link[c] \in {"out", "up"}
    /\ link'[c] = "fin" => link[c] \in {"out", "up"} \/ (link[c] = "fin" /\ out'[c] = out[c])

LEMMA LinkStepsBack ==
    ASSUME \A c \in Conns : LinkSteps(c), link' \in [Conns -> {"out", "up", "fin", "rst"}],
           Undisturbed'
    PROVE  Undisturbed
<1> SUFFICES ASSUME NEW c \in Conns
             PROVE  /\ ~ended[c]
                    /\ \/ link[c] \in {"out", "up"}
                       \/ link[c] = "fin" /\ (Playing(c) \/ th[c].pc = "none")
  BY DEF Undisturbed
<1>1. /\ ~ended'[c]
      /\ \/ link'[c] \in {"out", "up"}
         \/ link'[c] = "fin" /\ (Playing(c)' \/ th'[c].pc = "none")
  BY DEF Undisturbed
<1>2. ~ended[c]
  BY <1>1 DEF LinkSteps
<1>3. out'[c] = out[c] => (Playing(c)' => Playing(c))
  BY DEF Playing, Kinds
<1> QED BY <1>1, <1>2, <1>3 DEF LinkSteps

\* The step changes one thread, which stays alive, and no connection.
LEMMA ThreadOnly ==
    ASSUME NEW t, \A s \in Threads \ {t} : th'[s] = th[s],
           t \in Conns => th'[t].pc # "none",
           UNCHANGED <<link, out, ended>>
    PROVE  \A c \in Conns : LinkSteps(c)
BY DEF LinkSteps, Threads

LEMMA WriteOnly ==
    ASSUME ServerInv, NEW t, NEW f, NEW m, WriteArrives(t, f, m), ended' = ended,
           \A s \in Threads \ {t} : th'[s] = th[s],
           t \in Conns => th'[t].pc # "none"
    PROVE  \A c \in Conns : LinkSteps(c)
<1>1. PICK d \in Conns : d = fds[f]
  BY DEF WriteArrives, LinkOf, IsOpen, ServerInv, TypeOK
<1>2. \A c \in Conns : c # d => link'[c] = link[c] /\ out'[c] = out[c]
  BY <1>1 DEF WriteArrives
<1>3. link'[d] = IF link[d] = "fin" THEN "rst" ELSE link[d]
  BY <1>1 DEF WriteArrives, ServerInv, TypeOK
<1>4. \A c \in Conns : /\ ended[c] => ended'[c]
                       /\ th[c].pc # "none" => th'[c].pc # "none"
  BY DEF Threads
<1> QED BY <1>2, <1>3, <1>4 DEF LinkSteps

LEMMA CrashOnly ==
    ASSUME NEW how, Crash(how)
    PROVE  \A c \in Conns : LinkSteps(c)
BY DEF Crash, LinkSteps, netVars, clientVars

LEMMA FailedWriteOnly ==
    ASSUME ServerInv, NEW t \in Threads, NEW f, WriteFailsOrKills(t, f)
    PROVE  \A c \in Conns : LinkSteps(c)
<1>1. CASE WriteFails(t, f)
  BY <1>1, Updates, ThreadOnly DEF WriteFails, netVars, clientVars
<1>2. CASE WriteKills(f)
  BY <1>2, CrashOnly DEF WriteKills
<1> QED BY <1>1, <1>2 DEF WriteFailsOrKills

LEMMA WrongReadOnly ==
    ASSUME ServerInv, NEW t \in Threads, NEW kind, NEW back, ReadGoesWrong(t, kind, back)
    PROVE  \A c \in Conns : LinkSteps(c)
<1>1. CASE ReadCorrupts(t, kind)
  BY <1>1, CrashOnly DEF ReadCorrupts
<1>2. CASE ReadEof(t, back)
  BY <1>2, Updates, ThreadOnly DEF ReadEof, netVars, clientVars
<1>3. CASE ReadFails(t)
  BY <1>3, Updates, ThreadOnly DEF ReadFails, netVars, clientVars
<1> QED BY <1>1, <1>2, <1>3 DEF ReadGoesWrong

\* The steps of the threads of the clients.
LEMMA ThreadStepLinks ==
    ASSUME ServerInv, NEW t \in Conns, ThreadStep(t)
    PROVE  \A c \in Conns : LinkSteps(c)
<1>1. t \in Threads /\ th \in [Threads -> Locals] /\ th[t] \in Locals
  BY ThreadState
<1>2. CASE Begin(t) \/ LockTable(t) \/ UnlockTable(t) \/ Barrier(t) \/ LockBroadcast(t)
           \/ SendDone(t)
  <2>1. \A s \in Threads \ {t} : th'[s] = th[s]
    BY <1>1, <1>2 DEF Begin, LockTable, UnlockTable, Barrier, LockBroadcast, SendDone, Goto,
                      CallDisconnected
  <2>2. th'[t].pc # "none"
    BY <1>1, <1>2 DEF Begin, LockTable, UnlockTable, Barrier, LockBroadcast, SendDone, Goto,
                      CallDisconnected, Locals
  <2>3. UNCHANGED <<link, out, ended>>
    BY <1>2 DEF Begin, LockTable, UnlockTable, Barrier, LockBroadcast, SendDone, netVars,
                clientVars
  <2> QED BY <1>1, <2>1, <2>2, <2>3, ThreadOnly
<1>3. CASE ReadSize(t)
  <2>1. CASE /\ ReadArrives(t, "size")
             /\ th' = [th EXCEPT ![t].pc = "lock", ![t].name_size = 1]
             /\ UNCHANGED clientVars
    <3>1. th'[t].pc = "lock" /\ \A s \in Threads \ {t} : th'[s] = th[s]
      BY <1>1, <2>1 DEF Locals
    <3> QED BY <1>1, <2>1, <3>1, ThreadOnly DEF ReadArrives, clientVars
  <2> QED BY <1>1, <1>3, <2>1, WrongReadOnly DEF ReadSize
<1>4. CASE ReadName(t)
  <2>1. CASE /\ Goto(t, "id")
             /\ UNCHANGED clientVars /\ (ReadArrives(t, "name") \/ UNCHANGED netVars)
    <3>1. th'[t].pc = "id" /\ \A s \in Threads \ {t} : th'[s] = th[s]
      BY <1>1, <2>1, Updates
    <3> QED BY <1>1, <2>1, <3>1, ThreadOnly DEF ReadArrives, clientVars, netVars
  <2> QED BY <1>1, <1>4, <2>1, WrongReadOnly DEF ReadName
<1>5. CASE ReadEvent(t)
  <2>1. CASE /\ ReadArrives(t, "event")
             /\ th' = [th EXCEPT ![t].pc = "bcast", ![t].event = NextIn(t)[2]]
             /\ UNCHANGED clientVars
    <3>1. th'[t].pc = "bcast" /\ \A s \in Threads \ {t} : th'[s] = th[s]
      BY <1>1, <2>1 DEF Locals
    <3> QED BY <1>1, <2>1, <3>1, ThreadOnly DEF ReadArrives, clientVars
  <2> QED BY <1>1, <1>5, <2>1, WrongReadOnly DEF ReadEvent
<1>6. CASE WriteId(t)
  <2>1. CASE /\ WriteArrives(t, th[t].sock, <<"id", IdOf(t)>>)
             /\ th' = [th EXCEPT ![t].pc = "unlock", ![t].behind = FALSE]
             /\ UNCHANGED clientVars
    <3>1. th'[t].pc = "unlock" /\ \A s \in Threads \ {t} : th'[s] = th[s]
      BY <1>1, <2>1 DEF Locals
    <3> QED BY <1>1, <2>1, <3>1, WriteOnly DEF clientVars
  <2> QED BY <1>1, <1>6, <2>1, FailedWriteOnly DEF WriteId
<1>7. CASE WriteJson(t)
  <2>1. CASE /\ WriteArrives(t, th[t].sock, <<"json", 0>>)
             /\ th' = [th EXCEPT ![t].pc = "wait", ![t].behind = FALSE]
             /\ UNCHANGED clientVars
    <3>1. th'[t].pc = "wait" /\ \A s \in Threads \ {t} : th'[s] = th[s]
      BY <1>1, <2>1 DEF Locals
    <3> QED BY <1>1, <2>1, <3>1, WriteOnly DEF clientVars
  <2> QED BY <1>1, <1>7, <2>1, FailedWriteOnly DEF WriteJson
<1>8. CASE WriteNames(t)
  <2>1. th[t].pc = "names"
    BY <1>8 DEF WriteNames, At
  <2>2. CASE /\ WriteArrives(t, th[t].sock, <<"name", user_name[th[t].i]>>)
             /\ th' = [th EXCEPT ![t].i = @ + 1, ![t].behind = FALSE]
             /\ UNCHANGED clientVars
    <3>1. th'[t].pc = "names" /\ \A s \in Threads \ {t} : th'[s] = th[s]
      BY <1>1, <2>1, <2>2 DEF Locals
    <3> QED BY <1>1, <2>2, <3>1, WriteOnly DEF clientVars
  <2>3. CASE Goto(t, "event") /\ UNCHANGED <<netVars, clientVars>>
    <3>1. th'[t].pc = "event" /\ \A s \in Threads \ {t} : th'[s] = th[s]
      BY <1>1, <2>3, Updates
    <3> QED BY <1>1, <2>3, <3>1, ThreadOnly DEF netVars, clientVars
  <2> QED BY <1>1, <1>8, <2>2, <2>3, FailedWriteOnly DEF WriteNames
<1>9. CASE SendOne(t)
  <2>1. th[t].pc = "send"
    BY <1>9 DEF SendOne, At
  <2>2. CASE /\ WriteArrives(t, clnt_socks[th[t].i], <<"event", th[t].event>>)
             /\ th' = [th EXCEPT ![t].i = @ + 1, ![t].behind = FALSE]
             /\ UNCHANGED clientVars
    <3>1. th'[t].pc = "send" /\ \A s \in Threads \ {t} : th'[s] = th[s]
      BY <1>1, <2>1, <2>2 DEF Locals
    <3> QED BY <1>1, <2>2, <3>1, WriteOnly DEF clientVars
  <2> QED BY <1>1, <1>9, <2>2, FailedWriteOnly DEF SendOne
<1> QED BY <1>2, <1>3, <1>4, <1>5, <1>6, <1>7, <1>8, <1>9 DEF ThreadStep

LEMMA OtherStepLinks ==
    ASSUME ServerInv,
           \/ MainStep \/ MainAcceptFails \/ \E c \in Conns : MainAccept(c)
           \/ \E t \in Threads : DisconnectedStep(t)
           \/ \E c \in Conns : ClientStep(c)
    PROVE  \A c \in Conns : LinkSteps(c)
<1>1. /\ Main \in Threads /\ th \in [Threads -> Locals] /\ Main \notin Conns
      /\ link \in [Conns -> {"out", "up", "fin", "rst"}] /\ ended \in [Conns -> BOOLEAN]
      /\ \A t \in Conns : t \in Threads
  BY ServerAssumption DEF Threads, ServerInv, TypeOK
<1>2. CASE MainHello
  <2>1. CASE WriteFails(Main, th[Main].sock)
    BY <1>1, <2>1, FailedWriteOnly DEF WriteFailsOrKills
  <2>2. CASE /\ WriteArrives(Main, th[Main].sock, <<"hello", game_start>>)
             /\ th' = [th EXCEPT ![Main].pc = "check", ![Main].behind = FALSE]
             /\ UNCHANGED clientVars
    <3>1. \A s \in Threads \ {Main} : th'[s] = th[s]
      BY <1>1, <2>2
    <3> QED BY <1>1, <2>2, <3>1, WriteOnly DEF clientVars
  <2> QED BY <1>2, <2>1, <2>2 DEF MainHello
<1>3. CASE MainSpawn
  <2>1. \A c \in Conns : th[c].pc # "none" => th'[c].pc # "none"
    BY <1>1, <1>3 DEF MainSpawn, Locals
  <2> QED BY <1>3, <2>1 DEF MainSpawn, LinkSteps, netVars, clientVars
<1>4. CASE MainCheck \/ MainAdd \/ MainCount \/ MainStart \/ MainAcceptFails
  <2>1. UNCHANGED <<link, out, ended>>
    BY <1>4 DEF MainCheck, MainAdd, MainCount, MainStart, MainAcceptFails, Crash, netVars,
                clientVars
  <2>2. \A s \in Threads \ {Main} : th'[s] = th[s]
    BY <1>1, <1>4 DEF MainCheck, MainAdd, MainCount, MainStart, MainAcceptFails, Crash, Goto
  <2> QED BY <1>1, <2>1, <2>2, ThreadOnly
<1>5. ASSUME NEW c \in Conns, MainAccept(c) PROVE \A d \in Conns : LinkSteps(d)
  <2>1. link' = [link EXCEPT ![c] = "up"] /\ link[c] = "out" /\ UNCHANGED <<out, ended>>
    BY <1>5 DEF MainAccept, clientVars
  <2>2. \A s \in Threads \ {Main} : th'[s] = th[s]
    BY <1>1, <1>5 DEF MainAccept
  <2> QED BY <1>1, <2>1, <2>2 DEF LinkSteps
<1>6. ASSUME NEW t \in Threads, DisconnectedStep(t) PROVE \A c \in Conns : LinkSteps(c)
  <2>1. PICK p \in {"reset", "close", th[t].ret} :
            /\ Goto(t, p) /\ UNCHANGED <<link, out, ended>>
            /\ p \in {"reset", "close"} \/ (p = th[t].ret /\ th[t].pc = "close")
    BY <1>6 DEF DisconnectedStep, DisconnectRemove, DisconnectReset, DisconnectClose, At,
                netVars, clientVars
  <2>2. t \in Conns => p # "none"
    BY <2>1 DEF ServerInv, PlaceInv, Returns, Calls
  <2> QED BY <2>1, <2>2, Updates, ThreadOnly
<1>7. ASSUME NEW c \in Conns, ClientStep(c) PROVE \A d \in Conns : LinkSteps(d)
  <2>1. CASE ClientLeave(c)
    BY <1>1, <2>1 DEF ClientLeave, LinkSteps, clientVars
  <2>2. CASE ClientEnd(c)
    BY <1>1, <2>2 DEF ClientEnd, Send, LinkSteps
  <2>3. CASE ClientSize(c) \/ ClientName(c) \/ ClientCommand(c)
    BY <1>1, <2>3 DEF ClientSize, ClientName, ClientCommand, Send, LinkSteps
  <2> QED BY <1>7, <2>1, <2>2, <2>3 DEF ClientStep
<1> QED BY <1>2, <1>3, <1>4, <1>5, <1>6, <1>7 DEF MainStep

\* What has been disturbed once is so for good.
LEMMA StillUndisturbed ==
    ASSUME ServerInv, ServerInv', [Next]_vars, Undisturbed'
    PROVE  Undisturbed
<1>1. link' \in [Conns -> {"out", "up", "fin", "rst"}]
  BY DEF ServerInv, TypeOK
<1>2. CASE Next
  BY <1>1, <1>2, ThreadStepLinks, OtherStepLinks, LinkStepsBack DEF Next
<1>3. CASE UNCHANGED vars
  BY <1>1, <1>3, LinkStepsBack DEF vars, netVars, clientVars, LinkSteps
<1> QED BY <1>2, <1>3

-----------------------------------------------------------------------------
(* Consequences of the invariant.                                          *)

\* The step is of thread t, which goes on at place p.
Update(t, p) == th'[t].pc = p /\ \A s \in Threads \ {t} : th'[s] = th[s]

LEMMA Joined ==
    ASSUME NEW S, NEW q \in Seq(S), NEW r \in Seq(S)
    PROVE  Len(q \o r) = Len(q) + Len(r) /\ \A k \in 1 .. Len(q) : (q \o r)[k] = q[k]
OBVIOUS

\* A client that has not been told its id is not playing.
LEMMA NotPlaying ==
    ASSUME HistInv, NEW c \in Conns, NoId(c)
    PROVE  ~Playing(c)
<1>1. MaxUser \in Nat /\ out[c] \in Seq(AnyMsgs)
  BY ServerAssumption DEF MAX_USER, HistInv
<1> DEFINE names == [k \in 1 .. MaxUser |-> "name"]
           first == <<"hello", "id", "json">>
           all == first \o names
<1> DEFINE S == {"hello", "id", "json", "name"}
<1>2. names \in Seq(S) /\ Len(names) = MaxUser
  <2>1. names \in [1 .. MaxUser -> S]
    OBVIOUS
  <2> QED BY <1>1, <2>1
<1>3. first \in Seq(S) /\ Len(first) = 3 /\ first[2] = "id"
  OBVIOUS
<1> HIDE DEF names, first, S
<1>10. Len(all) = MaxUser + 3 /\ all[2] = "id"
  <2>1. 2 \in 1 .. Len(first)
    BY <1>3
  <2>2. Len(all) = Len(first) + Len(names) /\ \A k \in 1 .. Len(first) : all[k] = first[k]
    BY <1>2, <1>3, Joined
  <2> HIDE DEF all
  <2> QED BY <1>1, <1>2, <1>3, <2>1, <2>2
<1>4. Handshake = all
  BY DEF Handshake, names, first
<1> HIDE DEF all
<1> DEFINE kinds == [k \in DOMAIN out[c] |-> out[c][k][1]]
<1> SUFFICES ASSUME Playing(c) PROVE FALSE
  OBVIOUS
<1>5. Len(out[c]) >= Len(all) /\ SubSeq(kinds, 1, Len(all)) = all
  BY <1>4 DEF Playing, Kinds
<1>6. PICK n \in Nat : n = Len(all) /\ 2 <= n
  BY <1>1, <1>10
<1>7. 2 \in DOMAIN out[c]
  BY <1>1, <1>5, <1>6
<1>8. SubSeq(kinds, 1, n)[2] = kinds[2]
  <2>1. SubSeq(kinds, 1, n) = [k \in 1 .. n |-> kinds[k]]
    <3> HIDE DEF kinds
    <3>1. SubSeq(kinds, 1, n) = [k \in 1 .. 1 + n - 1 |-> kinds[k + 1 - 1]]
      BY <1>6
    <3> QED BY <1>6, <3>1
  <2> QED BY <1>6, <2>1
<1>9. kinds[2] = "id"
  BY <1>5, <1>6, <1>8, <1>10
<1> QED BY <1>7, <1>9 DEF NoId

\* The descriptor of a thread is that of its client.
LEMMA OwnOpen ==
    ASSUME ServerInv, HistInv, Undisturbed, Tidy, NEW t \in Conns,
           th[t].pc \notin {"none", "begin", "done"}
    PROVE  /\ t \in Threads /\ th[t].sock \in Fds /\ fds[th[t].sock] = t
           /\ IsOpen(th[t].sock) /\ LinkOf(th[t].sock) = link[t]
           /\ link[t] \in {"up", "fin"} /\ (th[t].pc \in Early => link[t] = "up")
<1>1. t \in Threads /\ th[t].sock \in Fds /\ fds[th[t].sock] = t
  BY DEF Tidy, TidyThread, Threads
<1>2. IsOpen(th[t].sock) /\ LinkOf(th[t].sock) = link[t]
  BY <1>1, ServerAssumption DEF IsOpen, LinkOf
<1>3. link[t] # "out"
  BY <1>1, ServerAssumption DEF ServerInv, NetInv
<1>4. link[t] \in {"up", "fin"} /\ (link[t] = "fin" => Playing(t))
  BY <1>3 DEF Undisturbed
<1>5. th[t].pc \in Early => ~Playing(t)
  BY NotPlaying DEF Tidy, TidyLink
<1> QED BY <1>1, <1>2, <1>4, <1>5

\* In good order nothing is written to a client that has closed.
LEMMA CleanWrite ==
    ASSUME ServerInv, HistInv, Undisturbed, Undisturbed', NEW t \in Threads, ~th[t].behind,
           NEW f \in Fds, NEW d \in Conns, fds[f] = d, NEW m \in AnyMsgs, WriteArrives(t, f, m)
    PROVE  /\ link[d] = "up" /\ UNCHANGED <<proc, fds, in, link>>
           /\ \A c \in Conns : c # d => EventsTo(c)' = EventsTo(c) /\ (NoId(c) => NoId(c)')
           /\ EventsTo(d)' = IF m[1] = "event" THEN Append(EventsTo(d), m[2]) ELSE EventsTo(d)
           /\ m[1] # "id" /\ NoId(d) => NoId(d)'
<1>1. link \in [Conns -> {"out", "up", "fin", "rst"}] /\ out \in [Conns -> Seq(AnyMsgs)]
  BY DEF ServerInv, TypeOK, HistInv
<1>2. /\ LinkOf(f) = link[d] /\ link[d] \in {"up", "fin"}
      /\ out' = [out EXCEPT ![d] = Append(out[d], m)]
      /\ link' = [link EXCEPT ![d] = IF link[d] = "fin" THEN "rst" ELSE link[d]]
      /\ UNCHANGED <<proc, fds, in>>
  BY ServerAssumption DEF WriteArrives, LinkOf, IsOpen
<1>3. link[d] = "up" /\ link' = link
  <2>1. link'[d] # "rst"
    BY DEF Undisturbed
  <2> QED BY <1>1, <1>2, <2>1
<1>4. PICK q \in Seq(AnyMsgs) : q = out[d]
  BY <1>1
<1>5. out'[d] = Append(q, m) /\ \A c \in Conns : c # d => out'[c] = out[c]
  BY <1>1, <1>2, <1>4
<1>6. \A c \in Conns : c # d => EventsTo(c)' = EventsTo(c) /\ (NoId(c) => NoId(c)')
  BY <1>5 DEF EventsTo, SentTo, NoId
<1>7. ASSUME NEW kind
      PROVE  SentTo(d, kind)' = IF m[1] = kind THEN Append(SentTo(d, kind), m[2])
                                ELSE SentTo(d, kind)
  <2>1. Carried(Append(q, m), kind) =
            IF m[1] = kind THEN Append(Carried(q, kind), m[2]) ELSE Carried(q, kind)
    BY CarriedAppend
  <2> QED BY <1>4, <1>5, <2>1 DEF SentTo
<1>8. EventsTo(d)' = IF m[1] = "event" THEN Append(EventsTo(d), m[2]) ELSE EventsTo(d)
  BY <1>7 DEF EventsTo
<1>9. ASSUME m[1] # "id", NoId(d) PROVE NoId(d)'
  <2>1. SentTo(d, "id")' = <<>>
    BY <1>7, <1>9 DEF NoId
  <2>2. ASSUME NEW k \in DOMAIN Append(q, m) PROVE Append(q, m)[k][1] # "id"
    <3>1. k \in 1 .. Len(q) + 1 /\ Len(q) \in Nat
      OBVIOUS
    <3>2. CASE k = Len(q) + 1
      <4>1. Append(q, m)[k] = m
        BY <3>2
      <4> QED BY <1>9, <4>1
    <3>3. CASE k \in 1 .. Len(q)
      <4>1. Append(q, m)[k] = q[k] /\ k \in DOMAIN q
        BY <3>3
      <4> QED BY <1>4, <1>9, <4>1 DEF NoId
    <3> QED BY <3>1, <3>2, <3>3
  <2> QED BY <1>5, <2>1, <2>2 DEF NoId
<1> QED BY <1>2, <1>3, <1>6, <1>8, <1>9

\* A thread reads what its client has written.
LEMMA CleanRead ==
    ASSUME ServerInv, HistInv, Undisturbed, Tidy, NEW t \in Conns,
           th[t].pc \notin {"none", "begin", "done"}, NEW kind, ReadArrives(t, kind)
    PROVE  /\ NextIn(t) \in Plain /\ NextIn(t)[1] = kind
           /\ \A c \in Conns : in'[c] \in Seq(Plain)
           /\ UNCHANGED <<proc, fds, link, out>>
<1>1. fds[th[t].sock] = t
  BY OwnOpen
<1>2. NextIn(t) = Head(in[t]) /\ in' = [in EXCEPT ![t] = Tail(in[t])]
      /\ NextIn(t)[1] = kind /\ in[t] # <<>> /\ UNCHANGED <<proc, fds, link, out>>
  BY <1>1 DEF ReadArrives, HasData, NextIn
<1>3. \A c \in Conns : in[c] \in Seq(Plain)
  BY DEF Tidy, TidyLink
<1>4. in \in [Conns -> Seq(InMsgs)]
  BY DEF ServerInv, NetInv
<1>5. Head(in[t]) \in Plain /\ Tail(in[t]) \in Seq(Plain)
  <2>1. in[t] \in Seq(Plain)
    BY <1>3
  <2> QED BY <1>2, <2>1
<1>6. \A c \in Conns : in'[c] \in Seq(Plain)
  BY <1>2, <1>3, <1>4, <1>5
<1> QED BY <1>2, <1>5, <1>6

\* What can go wrong in a read: a message that does not fit, or the end of the
\* commands of a client that has closed.
LEMMA CleanWrong ==
    ASSUME ServerInv, HistInv, Undisturbed, Tidy, NEW t \in Conns,
           th[t].pc \notin {"none", "begin", "done"}, NEW kind, NEW back,
           ReadGoesWrong(t, kind, back)
    PROVE  Crash("wild") \/ (ReadEof(t, back) /\ link[t] = "fin" /\ th[t].pc \notin Early)
<1>1. LinkOf(th[t].sock) = link[t] /\ link[t] \in {"up", "fin"}
      /\ (th[t].pc \in Early => link[t] = "up")
  BY OwnOpen
<1>2. ~ReadFails(t)
  BY <1>1 DEF ReadFails
<1> QED BY <1>1, <1>2 DEF ReadGoesWrong, ReadCorrupts, ReadEof

\* No write fails.
LEMMA CleanLink ==
    ASSUME NEW t, NEW f, LinkOf(f) \in {"up", "fin"}
    PROVE  ~WriteFailsOrKills(t, f)
BY DEF WriteFailsOrKills, WriteFails, WriteKills

-----------------------------------------------------------------------------
(* What one step of one thread does to the order.                          *)

LEMMA TidyStutters ==
    ASSUME Tidy,
           UNCHANGED <<clnt_cnt, clnt_socks, th, accepted, netVars, bcast>>
    PROVE  Tidy'
<1> USE DEF netVars
<1>1. Seats' = Seats
  BY DEF Seats
<1>2. \A c \in Conns : TidyThread(c)' /\ TidyLink(c)'
  <2> TAKE c \in Conns
  <2>1. TidyThread(c)'
    BY <1>1 DEF Tidy, TidyThread, Seated
  <2>2. TidyLink(c)'
    BY DEF Tidy, TidyLink, NoId, EventsTo, SentTo
  <2> QED BY <2>1, <2>2
<1>3. TidyMain' /\ TidySeats'
  BY <1>1 DEF Tidy, TidyMain, TidySeats, Seated
<1>4. TidyEvents'
  BY <1>1 DEF Tidy, TidyEvents, Served, Seated, Reached, EventsTo, SentTo
<1> QED BY <1>2, <1>3, <1>4 DEF Tidy

LEMMA TidyCrash ==
    ASSUME Tidy, NEW how, Crash(how)
    PROVE  Tidy'
BY TidyStutters DEF Crash, tableVars

\* A thread that goes on keeps main, the table and the other threads.
LEMMA TidyFrame ==
    ASSUME Tidy, NEW t \in Conns, NEW p, Update(t, p), Main \notin Conns,
           th[t].pc # "none", p \notin {"none", "begin"},
           UNCHANGED <<fds, link, accepted, clnt_cnt, clnt_socks>>,
           ~th'[t].behind,
           p # "done" => th'[t].sock \in Fds /\ fds[th'[t].sock] = t,
           p \in Calls => th'[t].arg = th'[t].sock /\ th'[t].ret = "done",
           p \in Calls \cup {"done"} => link[t] # "up",
           p \in {"bcast", "send"} => ~IsEnd(th'[t].event),
           p \notin Outside => th[t].pc \notin Outside,
           p \in {"reset", "close"} => th[t].pc \in {"reset", "close"}
    PROVE  /\ \A c \in Conns : TidyThread(c)'
           /\ TidyMain' /\ TidySeats' /\ th'[Main] = th[Main]
           /\ Seats' = Seats /\ \A s : Seated(s)' = Seated(s)
<1>1. /\ th'[t].pc = p /\ th'[Main] = th[Main]
      /\ \A c \in Conns : c # t => th'[c] = th[c]
  BY DEF Update, Threads
<1>2. Seats' = Seats /\ \A s : Seated(s)' = Seated(s)
  BY DEF Seats, Seated
<1>3. \A c \in Conns : c # t => TidyThread(c)'
  BY <1>1, <1>2 DEF Tidy, TidyThread
<1>4. TidyThread(t)'
  <2>1. TidyThread(t)
    BY DEF Tidy
  <2>2. p \notin Outside => \E s \in Seats' : Seated(s)' = t
    BY <1>2, <2>1 DEF TidyThread
  <2>3. p \in {"reset", "close"} => \A s \in Seats' : Seated(s)' # t
    BY <1>2, <2>1 DEF TidyThread
  <2> QED BY <1>1, <2>2, <2>3 DEF TidyThread
<1>5. TidyMain' /\ TidySeats'
  BY <1>1, <1>2 DEF Tidy, TidyMain, TidySeats
<1> QED BY <1>1, <1>2, <1>3, <1>4, <1>5

\* A step that writes no event, with the senders as they were.
LEMMA EventsFrame ==
    ASSUME TidyEvents, bcast' = bcast, accepted' = accepted, Seats' = Seats,
           \A s \in Seats : Seated(s)' = Seated(s),
           th'[Main].pc \in {"hello", "check", "add"} => th[Main].pc \in {"hello", "check", "add"},
           \A c \in Conns : EventsTo(c)' = EventsTo(c),
           \A c \in Conns : th'[c].pc = "send" <=> th[c].pc = "send",
           \A c \in Conns : th'[c].pc = "send" => th'[c].i = th[c].i
    PROVE  TidyEvents'
<1>1. \A s \in Seats : Reached(s)' = Reached(s)
  BY DEF Reached
<1>2. \A c \in Conns : th'[Main].pc \in {"hello", "check", "add"} /\ accepted' = c =>
          EventsTo(c)' = <<>>
  BY DEF TidyEvents
<1>3. \A s \in Seats' : \A c \in Conns : Seated(s)' = c =>
          Ends(EventsTo(c)', bcast', Reached(s)')
  BY <1>1 DEF TidyEvents
<1>4. \A c \in Conns : \E m \in 0 .. Len(bcast') : Ends(EventsTo(c)', bcast', m)
  BY DEF TidyEvents
<1>5. \A c \in Conns : \A m : Ends(EventsTo(c), bcast, m)' <=> Ends(EventsTo(c)', bcast', m)
  BY DEF Ends
<1>6. \A c \in Conns : \A s : Ends(EventsTo(c), bcast, Reached(s))'
                              <=> Ends(EventsTo(c)', bcast', Reached(s)')
  BY DEF Ends
<1>7. Served'
  BY DEF TidyEvents, Served
<1> QED BY <1>2, <1>3, <1>4, <1>5, <1>6, <1>7 DEF TidyEvents

\* A step between two places of a thread, none of them in a broadcast.
LEMMA QuietTidy ==
    ASSUME Tidy, NEW t \in Conns, NEW p, Update(t, p), Main \notin Conns,
           th[t].pc \notin Outside \cup {"send"}, p \notin Outside \cup {"begin", "send"},
           UNCHANGED <<fds, link, accepted, clnt_cnt, clnt_socks, bcast>>,
           ~th'[t].behind, th'[t].sock \in Fds, fds[th'[t].sock] = t,
           p = "disc" => th'[t].arg = th'[t].sock /\ th'[t].ret = "done" /\ link[t] # "up",
           p = "bcast" => ~IsEnd(th'[t].event),
           p \in Early => th[t].pc \in Early,
           \A c \in Conns : /\ in'[c] \in Seq(Plain) /\ EventsTo(c)' = EventsTo(c)
                            /\ th'[c].pc \in Early /\ NoId(c) => NoId(c)'
    PROVE  Tidy'
<1>1. /\ th'[t].pc = p /\ \A c \in Conns : c # t => th'[c] = th[c]
  BY DEF Update, Threads
<1>2. /\ \A c \in Conns : TidyThread(c)'
      /\ TidyMain' /\ TidySeats' /\ th'[Main] = th[Main]
      /\ Seats' = Seats /\ \A s : Seated(s)' = Seated(s)
  BY TidyFrame DEF Outside, Calls
<1>3. TidyEvents'
  <2>1. TidyEvents
    BY DEF Tidy
  <2>2. \A c \in Conns : /\ th'[c].pc = "send" <=> th[c].pc = "send"
                         /\ th'[c].pc = "send" => th'[c].i = th[c].i
    BY <1>1
  <2> QED BY <1>2, <2>1, <2>2, EventsFrame
<1>4. \A c \in Conns : TidyLink(c)'
  <2> TAKE c \in Conns
  <2>1. TidyLink(c)
    BY DEF Tidy
  <2>2. th'[c].pc \in Early => th[c].pc \in Early
    BY <1>1
  <2> QED BY <2>1, <2>2 DEF TidyLink
<1> QED BY <1>2, <1>3, <1>4 DEF Tidy

\* What a step that sends nothing leaves alone.
LEMMA NoneSent ==
    ASSUME out' = out
    PROVE  \A c \in Conns : EventsTo(c)' = EventsTo(c) /\ (NoId(c) => NoId(c)')
BY DEF EventsTo, SentTo, NoId

-----------------------------------------------------------------------------
(* The steps of handle_clnt, in good order.                                *)

\* A step that sends nothing, of a thread that goes on at place p.
LEMMA SilentTidy ==
    ASSUME ServerInv, HistInv, Undisturbed, Tidy, NEW t \in Conns, NEW p, Update(t, p),
           th[t].pc \notin Outside \cup {"begin", "send"},
           p \notin Outside \cup {"begin", "disc", "bcast", "send"},
           p \in Early => th[t].pc \in Early,
           th'[t].sock = th[t].sock, ~th'[t].behind,
           UNCHANGED <<fds, link, out, accepted, clnt_cnt, clnt_socks, bcast>>,
           \A c \in Conns : in'[c] \in Seq(Plain)
    PROVE  Tidy'
<1>1. th[t].sock \in Fds /\ fds[th[t].sock] = t
  BY OwnOpen DEF Outside
<1>2. \A c \in Conns : EventsTo(c)' = EventsTo(c) /\ (NoId(c) => NoId(c)')
  BY NoneSent
<1>3. th[t].pc \notin Outside \cup {"send"} /\ p \notin Outside \cup {"begin", "send"}
      /\ p # "disc" /\ p # "bcast"
  OBVIOUS
<1> QED BY <1>1, <1>2, <1>3, QuietTidy, ServerAssumption

\* A read on the way through the handshake.
LEMMA WrongReadTidy ==
    ASSUME ServerInv, HistInv, Undisturbed, Tidy, NEW t \in Conns,
           th[t].pc \in Early \ {"none", "begin"}, NEW kind, NEW back,
           ReadGoesWrong(t, kind, back)
    PROVE  Tidy'
<1>1. th[t].pc \notin {"none", "begin", "done"} /\ th[t].pc \in Early
  BY DEF Early
<1>2. Crash("wild")
  BY <1>1, CleanWrong
<1> QED BY <1>2, TidyCrash

LEMMA HandshakeTidy ==
    ASSUME ServerInv, HistInv, Undisturbed, Tidy, NEW t \in Conns,
           \/ ReadSize(t) \/ LockTable(t) \/ ReadName(t) \/ UnlockTable(t) \/ Barrier(t)
    PROVE  Tidy'
<1> USE DEF Early, Outside
<1>1. t \in Threads /\ th \in [Threads -> Locals] /\ th[t] \in Locals
  BY ThreadState
<1>2. \A c \in Conns : in[c] \in Seq(Plain)
  BY DEF Tidy, TidyLink
<1>3. ~th[t].behind
  BY DEF Tidy, TidyThread
<1>4. CASE ReadSize(t)
  <2>1. th[t].pc = "size"
    BY <1>4 DEF ReadSize, At
  <2>2. CASE /\ ReadArrives(t, "size")
             /\ th' = [th EXCEPT ![t].pc = "lock", ![t].name_size = 1]
             /\ UNCHANGED <<tableVars, accepted, bcast>>
    <3>1. Update(t, "lock") /\ th'[t].sock = th[t].sock /\ th'[t].behind = th[t].behind
      BY <1>1, <2>2 DEF Update, Locals
    <3>2. (\A c \in Conns : in'[c] \in Seq(Plain)) /\ UNCHANGED <<proc, fds, link, out>>
      BY <2>1, <2>2, CleanRead
    <3> QED BY <1>3, <2>1, <2>2, <3>1, <3>2, SilentTidy DEF tableVars
  <2> QED BY <1>4, <2>1, <2>2, WrongReadTidy DEF ReadSize
<1>5. CASE LockTable(t)
  <2>1. th[t].pc = "lock" /\ UNCHANGED <<tableVars, accepted, netVars, bcast>>
    BY <1>5 DEF LockTable, At
  <2>2. PICK p \in {"unlock", "name"} : Update(t, p)
                /\ th'[t].sock = th[t].sock /\ th'[t].behind = th[t].behind
    <3>1. CASE Goto(t, "unlock")
      BY <1>1, <3>1 DEF Goto, Update, Locals
    <3>2. CASE th' = [th EXCEPT ![t].pc = "name", ![t].i = FirstSlot(th[t].sock)]
      BY <1>1, <3>2 DEF Update, Locals
    <3> QED BY <1>5, <3>1, <3>2 DEF LockTable
  <2> QED BY <1>2, <1>3, <2>1, <2>2, SilentTidy DEF tableVars, netVars
<1>6. CASE ReadName(t)
  <2>1. th[t].pc = "name"
    BY <1>6 DEF ReadName, At
  <2>2. CASE /\ Goto(t, "id")
             /\ ReadArrives(t, "name") \/ UNCHANGED netVars
             /\ UNCHANGED <<clnt_cnt, clnt_socks, accepted, bcast>>
    <3>1. Update(t, "id") /\ th'[t].sock = th[t].sock /\ th'[t].behind = th[t].behind
      BY <1>1, <2>2 DEF Update, Locals, Goto
    <3>2. (\A c \in Conns : in'[c] \in Seq(Plain)) /\ UNCHANGED <<fds, link, out>>
      BY <1>2, <2>1, <2>2, CleanRead DEF netVars
    <3> QED BY <1>3, <2>1, <2>2, <3>1, <3>2, SilentTidy
  <2> QED BY <1>6, <2>1, <2>2, WrongReadTidy DEF ReadName, tableVars
<1>7. CASE UnlockTable(t) \/ Barrier(t)
  <2>1. th[t].pc \in {"unlock", "wait"} /\ UNCHANGED <<tableVars, accepted, netVars, bcast>>
    BY <1>7 DEF UnlockTable, Barrier, At
  <2>2. PICK p \in {"json", "names"} : Update(t, p)
                /\ th'[t].sock = th[t].sock /\ th'[t].behind = th[t].behind
    <3>1. CASE Goto(t, "json")
      BY <1>1, <3>1 DEF Goto, Update, Locals
    <3>2. CASE th' = [th EXCEPT ![t].pc = "names", ![t].i = 0]
      BY <1>1, <3>2 DEF Update, Locals
    <3> QED BY <1>7, <3>1, <3>2 DEF UnlockTable, Barrier
  <2> QED BY <1>2, <1>3, <2>1, <2>2, SilentTidy DEF tableVars, netVars
<1> QED BY <1>4, <1>5, <1>6, <1>7

\* The thread takes over the descriptor that main has accepted.
LEMMA BeginTidy ==
    ASSUME ServerInv, HistInv, Undisturbed, Tidy, NEW t \in Conns, Begin(t)
    PROVE  Tidy'
<1>1. t \in Threads /\ th \in [Threads -> Locals] /\ th[t] \in Locals
  BY ThreadState
<1>2. th[t].pc = "begin" /\ UNCHANGED <<tableVars, accepted, netVars, bcast>>
  BY DEF Begin, At
<1>3. /\ Update(t, "size") /\ th'[t].sock = th[Main].sock
      /\ th'[t].behind = th[t].behind
  BY <1>1 DEF Begin, Update, Locals
<1>4. ~th[t].behind /\ th[Main].sock \in Fds /\ fds[th[Main].sock] = t
  BY <1>2 DEF Tidy, TidyThread
<1>5. \A c \in Conns : in'[c] \in Seq(Plain) /\ EventsTo(c)' = EventsTo(c)
                       /\ (NoId(c) => NoId(c)')
  BY <1>2, NoneSent DEF Tidy, TidyLink, netVars
<1>6. th[t].pc \notin Outside \cup {"send"} /\ "size" \notin Outside \cup {"begin", "send"}
      /\ th[t].pc \in Early
  BY <1>2 DEF Outside, Early
<1> QED BY <1>2, <1>3, <1>4, <1>5, <1>6, QuietTidy, ServerAssumption DEF tableVars, netVars

\* A write of a thread to its own client.
LEMMA OwnWriteTidy ==
    ASSUME ServerInv, HistInv, Undisturbed, Undisturbed', Tidy, NEW t \in Conns,
           th[t].pc \notin Outside \cup {"begin", "send"},
           NEW p \in {"unlock", "wait", "names"}, Update(t, p),
           th'[t].sock = th[t].sock, ~th'[t].behind,
           NEW m \in AnyMsgs, m[1] # "event", WriteArrives(t, th[t].sock, m),
           UNCHANGED <<accepted, clnt_cnt, clnt_socks, bcast>>
    PROVE  Tidy'
<1>1. t \in Threads /\ th[t].sock \in Fds /\ fds[th[t].sock] = t
  BY OwnOpen DEF Outside
<1>2. ~th[t].behind
  BY DEF Tidy, TidyThread
<1>3. /\ UNCHANGED <<proc, fds, in, link>>
      /\ \A c \in Conns : c # t => EventsTo(c)' = EventsTo(c) /\ (NoId(c) => NoId(c)')
      /\ EventsTo(t)' = EventsTo(t)
  BY <1>1, <1>2, CleanWrite
<1>4. p \notin Early /\ p \notin Outside \cup {"begin", "send"} /\ p # "disc" /\ p # "bcast"
      /\ th[t].pc \notin Outside \cup {"send"}
  BY DEF Early, Outside
<1>5. \A c \in Conns : /\ in'[c] \in Seq(Plain) /\ EventsTo(c)' = EventsTo(c)
                       /\ th'[c].pc \in Early /\ NoId(c) => NoId(c)'
  BY <1>3, <1>4 DEF Update, Tidy, TidyLink
<1> QED BY <1>1, <1>3, <1>4, <1>5, QuietTidy, ServerAssumption

LEMMA NoFailedWrite ==
    ASSUME ServerInv, HistInv, Undisturbed, Tidy, NEW t \in Conns,
           th[t].pc \notin {"none", "begin", "done"}
    PROVE  ~WriteFailsOrKills(t, th[t].sock)
<1>1. LinkOf(th[t].sock) \in {"up", "fin"}
  BY OwnOpen
<1> QED BY <1>1, CleanLink

LEMMA GreetingTidy ==
    ASSUME ServerInv, HistInv, Undisturbed, Undisturbed', Tidy, NEW t \in Conns,
           WriteId(t) \/ WriteJson(t) \/ WriteNames(t)
    PROVE  Tidy'
<1> USE DEF Outside
<1>1. t \in Threads /\ th \in [Threads -> Locals] /\ th[t] \in Locals
      /\ user_name \in [0 .. MaxUser - 1 -> Conns \cup {NoConn}]
  BY ThreadState
<1>2. CASE WriteId(t)
  <2>1. th[t].pc = "id"
    BY <1>2 DEF WriteId, At
  <2>2. /\ WriteArrives(t, th[t].sock, <<"id", IdOf(t)>>)
        /\ th' = [th EXCEPT ![t].pc = "unlock", ![t].behind = FALSE]
        /\ UNCHANGED <<clnt_cnt, clnt_socks, accepted, bcast>>
    BY <1>2, <2>1, NoFailedWrite DEF WriteId
  <2>3. Update(t, "unlock") /\ th'[t].sock = th[t].sock /\ ~th'[t].behind
    BY <1>1, <2>2 DEF Update, Locals
  <2>4. <<"id", IdOf(t)>> \in AnyMsgs
    BY <1>1 DEF AnyMsgs, OutMsgs, IdOf, Locals
  <2> QED BY <2>1, <2>2, <2>3, <2>4, OwnWriteTidy
<1>3. CASE WriteJson(t)
  <2>1. th[t].pc = "json"
    BY <1>3 DEF WriteJson, At
  <2>2. /\ WriteArrives(t, th[t].sock, <<"json", 0>>)
        /\ th' = [th EXCEPT ![t].pc = "wait", ![t].behind = FALSE]
        /\ UNCHANGED <<tableVars, accepted, bcast>>
    BY <1>3, <2>1, NoFailedWrite DEF WriteJson
  <2>3. Update(t, "wait") /\ th'[t].sock = th[t].sock /\ ~th'[t].behind
    BY <1>1, <2>2 DEF Update, Locals
  <2>4. <<"json", 0>> \in AnyMsgs
    BY DEF AnyMsgs, OutMsgs
  <2> QED BY <2>1, <2>2, <2>3, <2>4, OwnWriteTidy DEF tableVars
<1>4. CASE WriteNames(t)
  <2>1. th[t].pc = "names"
    BY <1>4 DEF WriteNames, At
  <2>2. CASE /\ th[t].i < MaxUser
             /\ WriteArrives(t, th[t].sock, <<"name", user_name[th[t].i]>>)
             /\ th' = [th EXCEPT ![t].i = @ + 1, ![t].behind = FALSE]
             /\ UNCHANGED <<tableVars, accepted, bcast>>
    <3>1. Update(t, "names") /\ th'[t].sock = th[t].sock /\ ~th'[t].behind
      BY <1>1, <2>1, <2>2 DEF Update, Locals
    <3>2. <<"name", user_name[th[t].i]>> \in AnyMsgs
      <4>1. th[t].i \in 0 .. MaxUser - 1
        BY <1>1, <2>2, ServerAssumption DEF Locals, MAX_USER
      <4> QED BY <1>1, <4>1 DEF AnyMsgs, OutMsgs
    <3> QED BY <2>1, <2>2, <3>1, <3>2, OwnWriteTidy DEF tableVars
  <2>3. CASE Goto(t, "event") /\ UNCHANGED <<tableVars, accepted, netVars, bcast>>
    <3>1. Update(t, "event") /\ th'[t].sock = th[t].sock /\ th'[t].behind = th[t].behind
      BY <1>1, <2>3 DEF Goto, Update, Locals
    <3>2. ~th[t].behind /\ \A c \in Conns : in[c] \in Seq(Plain)
      BY DEF Tidy, TidyThread, TidyLink
    <3>3. "event" \notin Early
      BY DEF Early
    <3> QED BY <2>1, <2>3, <3>1, <3>2, <3>3, SilentTidy DEF tableVars, netVars
  <2> QED BY <1>4, <2>1, <2>2, <2>3, NoFailedWrite DEF WriteNames
<1> QED BY <1>2, <1>3, <1>4

\* A command arrives, or the client has closed and all its commands are read.
LEMMA ReadEventTidy ==
    ASSUME ServerInv, HistInv, Undisturbed, Tidy, NEW t \in Conns, ReadEvent(t)
    PROVE  Tidy'
<1> USE DEF Early, Outside
<1>1. t \in Threads /\ th \in [Threads -> Locals] /\ th[t] \in Locals /\ th[t].pc = "event"
  BY ThreadState DEF ReadEvent, At
<1>2. ~th[t].behind /\ \A c \in Conns : in[c] \in Seq(Plain)
  BY DEF Tidy, TidyThread, TidyLink
<1>3. th[t].sock \in Fds /\ fds[th[t].sock] = t
  BY <1>1, OwnOpen
<1>4. CASE /\ ReadArrives(t, "event")
           /\ th' = [th EXCEPT ![t].pc = "bcast", ![t].event = NextIn(t)[2]]
           /\ UNCHANGED <<tableVars, accepted, bcast>>
  <2>1. /\ Update(t, "bcast") /\ th'[t].sock = th[t].sock /\ th'[t].behind = th[t].behind
        /\ th'[t].event = NextIn(t)[2]
    BY <1>1, <1>4 DEF Update, Locals
  <2>2. /\ NextIn(t) \in Plain /\ NextIn(t)[1] = "event"
        /\ \A c \in Conns : in'[c] \in Seq(Plain)
        /\ UNCHANGED <<fds, link, out>>
    BY <1>1, <1>4, CleanRead
  <2>3. ~IsEnd(th'[t].event)
    <3>1. NextIn(t) \in {"event"} \X (Conns \X (1 .. MaxCmds))
      BY <2>2 DEF Plain
    <3>2. NextIn(t)[2] \in Conns \X (1 .. MaxCmds)
      BY <3>1
    <3>3. NextIn(t)[2][2] \in 1 .. MaxCmds
      BY <3>2
    <3> QED BY <2>1, <3>3, ServerAssumption DEF IsEnd
  <2>4. \A c \in Conns : EventsTo(c)' = EventsTo(c) /\ (NoId(c) => NoId(c)')
    BY <2>2, NoneSent
  <2> QED BY <1>1, <1>2, <1>3, <1>4, <2>1, <2>2, <2>3, <2>4, QuietTidy, ServerAssumption
          DEF tableVars
<1>5. CASE ReadEof(t, "done") /\ link[t] = "fin"
  <2>1. /\ CallDisconnected(t, th[t].sock, "done", FALSE)
        /\ UNCHANGED <<tableVars, accepted, netVars, bcast>>
    BY <1>5 DEF ReadEof
  <2>2. /\ Update(t, "disc") /\ th'[t].sock = th[t].sock /\ ~th'[t].behind
        /\ th'[t].arg = th[t].sock /\ th'[t].ret = "done"
    BY <1>1, <2>1 DEF CallDisconnected, Update, Locals
  <2>3. \A c \in Conns : EventsTo(c)' = EventsTo(c) /\ (NoId(c) => NoId(c)')
    BY <2>1, NoneSent DEF netVars
  <2> QED BY <1>1, <1>2, <1>3, <1>5, <2>1, <2>2, <2>3, QuietTidy, ServerAssumption
          DEF tableVars, netVars
<1>6. CASE Crash("wild")
  BY <1>6, TidyCrash
<1>7. ReadGoesWrong(t, "event", "done") =>
          Crash("wild") \/ (ReadEof(t, "done") /\ link[t] = "fin")
  BY <1>1, CleanWrong
<1> QED BY <1>4, <1>5, <1>6, <1>7 DEF ReadEvent

-----------------------------------------------------------------------------
(* send_msg_all, in good order.                                            *)

LEMMA NobodySends ==
    ASSUME ServerInv, mutx = None
    PROVE  (\A t \in Conns : th[t].pc # "send") /\ \A s : Reached(s) = Len(bcast)
BY ServerAssumption DEF ServerInv, LockInv, Holds, Sections, Threads, Reached

LEMMA LockBroadcastTidy ==
    ASSUME ServerInv, HistInv, Undisturbed, Tidy, NEW t \in Conns, LockBroadcast(t)
    PROVE  Tidy'
<1>1. t \in Threads /\ th \in [Threads -> Locals] /\ th[t] \in Locals /\ bcast \in Seq(Events)
  BY ThreadState
<1>2. /\ th[t].pc = "bcast" /\ mutx = None /\ bcast' = Append(bcast, th[t].event)
      /\ th' = [th EXCEPT ![t].pc = "send", ![t].i = 0]
      /\ UNCHANGED <<tableVars, accepted, netVars>>
  BY DEF LockBroadcast, At
<1>3. PICK e \in Events : e = th[t].event
  BY <1>2 DEF ServerInv, PlaceInv
<1>4. /\ Update(t, "send") /\ th'[t].sock = th[t].sock /\ th'[t].behind = th[t].behind
      /\ th'[t].event = th[t].event /\ th'[t].i = 0
  BY <1>1, <1>2 DEF Update, Locals
<1>5. ~th[t].behind /\ ~IsEnd(th[t].event) /\ th[t].sock \in Fds /\ fds[th[t].sock] = t
  <2>1. TidyThread(t)
    BY DEF Tidy
  <2> QED BY <1>2, <2>1 DEF TidyThread
<1>6. /\ \A c \in Conns : TidyThread(c)'
      /\ TidyMain' /\ TidySeats' /\ th'[Main] = th[Main]
      /\ Seats' = Seats /\ \A s : Seated(s)' = Seated(s)
  BY <1>2, <1>4, <1>5, TidyFrame, ServerAssumption DEF Outside, Calls, tableVars, netVars
<1>7. \A c \in Conns : EventsTo(c)' = EventsTo(c) /\ (NoId(c) => NoId(c)')
  BY <1>2, NoneSent DEF netVars
<1>8. \A c \in Conns : TidyLink(c)'
  <2> TAKE c \in Conns
  <2>1. TidyLink(c)
    BY DEF Tidy
  <2>2. th'[c].pc \in Early => th[c].pc \in Early
    BY <1>4 DEF Update, Threads, Early
  <2> QED BY <1>2, <1>7, <2>1, <2>2 DEF TidyLink, netVars
<1>9. bcast' \in Seq(Events) /\ Len(bcast') = Len(bcast) + 1 /\ Len(bcast) \in Nat
  BY <1>1, <1>2, <1>3
<1>10. ASSUME NEW c \in Conns, NEW m \in 0 .. Len(bcast), Ends(EventsTo(c), bcast, m)
       PROVE  Ends(EventsTo(c)', bcast', m)
  <2>1. EventsTo(c) \in Seq(Events)
    BY DEF HistInv
  <2>2. Ends(EventsTo(c), Append(bcast, e), m)
    BY <1>1, <1>10, <2>1, EndsMore
  <2> QED BY <1>2, <1>3, <1>7, <2>2
<1>11. TidyEvents
  BY DEF Tidy
<1>12. ASSUME NEW s \in Seats', NEW c \in Conns, Seated(s)' = c
       PROVE  Ends(EventsTo(c), bcast, Reached(s))'
  <2>1. Ends(EventsTo(c), bcast, Reached(s)) /\ Reached(s) = Len(bcast)
    BY <1>2, <1>6, <1>11, <1>12, NobodySends DEF TidyEvents
  <2>2. Reached(s)' = Len(bcast)
    <3>1. s \in Nat /\ th'[t].pc = "send" /\ th'[t].i <= s
      BY <1>4 DEF Seats, Slots, MAX_USER, Update
    <3> QED BY <1>9, <3>1 DEF Reached
  <2>3. Ends(EventsTo(c)', bcast', Len(bcast))
    BY <1>9, <1>10, <2>1
  <2> QED BY <2>2, <2>3 DEF Ends
<1>13. \A c \in Conns : \E m \in 0 .. Len(bcast') : Ends(EventsTo(c), bcast, m)'
  <2> TAKE c \in Conns
  <2>1. PICK m \in 0 .. Len(bcast) : Ends(EventsTo(c), bcast, m)
    BY <1>11 DEF TidyEvents
  <2>2. Ends(EventsTo(c)', bcast', m) /\ m \in 0 .. Len(bcast')
    BY <1>9, <1>10, <2>1
  <2> QED BY <2>2 DEF Ends
<1>14. \A c \in Conns : th'[Main].pc \in {"hello", "check", "add"} /\ accepted' = c =>
           EventsTo(c)' = <<>>
  BY <1>2, <1>6, <1>7, <1>11 DEF TidyEvents
<1>15. Served'
  <2>1. \A r \in Conns : th'[r].pc = "send" => th'[r].i = 0
    BY <1>2, <1>4, NobodySends DEF Update, Threads
  <2> QED BY <2>1 DEF Served, Seats, Slots
<1>16. TidyEvents'
  BY <1>12, <1>13, <1>14, <1>15 DEF TidyEvents
<1> QED BY <1>6, <1>8, <1>16 DEF Tidy

\* Two slots hold two clients.
LEMMA OneSlotEach ==
    ASSUME ServerInv, TidySeats, NEW s \in Seats, NEW r \in Seats, Seated(s) = Seated(r)
    PROVE  s = r
BY ServerAssumption DEF ServerInv, NetInv, TidySeats, Seated

LEMMA SendOneTidy ==
    ASSUME ServerInv, HistInv, Undisturbed, Undisturbed', Tidy, NEW t \in Conns, SendOne(t)
    PROVE  Tidy'
<1>1. t \in Threads /\ th \in [Threads -> Locals] /\ th[t] \in Locals /\ bcast \in Seq(Events)
      /\ clnt_cnt \in Int /\ clnt_cnt <= MAX_USER
  BY ThreadState DEF ServerInv, TypeOK, NetInv
<1>2. th[t].pc = "send" /\ th[t].i < clnt_cnt
  BY DEF SendOne, At
<1>3. PICK i \in Seats : i = th[t].i
  BY <1>1, <1>2 DEF Seats, Slots, Locals, MAX_USER
<1>4. TidySeats /\ TidyMain /\ TidyEvents /\ TidyThread(t)
  BY DEF Tidy
<1>5. clnt_socks[i] \in Fds /\ Seated(i) \in Conns
  BY <1>4 DEF TidySeats
<1>6. PICK d \in Conns : d = Seated(i)
  BY <1>5
<1>7. ~th[t].behind /\ ~IsEnd(th[t].event) /\ th[t].sock \in Fds /\ fds[th[t].sock] = t
  BY <1>2, <1>4 DEF TidyThread
<1>8. LinkOf(clnt_socks[i]) \in {"up", "fin"}
  <2>1. IsOpen(clnt_socks[i]) /\ LinkOf(clnt_socks[i]) = link[d] /\ link[d] # "out"
    BY <1>5, <1>6, ServerAssumption DEF IsOpen, LinkOf, Seated, ServerInv, NetInv
  <2> QED BY <2>1 DEF Undisturbed
<1>9. /\ WriteArrives(t, clnt_socks[i], <<"event", th[t].event>>)
      /\ th' = [th EXCEPT ![t].i = @ + 1, ![t].behind = FALSE]
      /\ UNCHANGED <<mutx, tableVars, accepted, clientVars, bcast>>
  BY <1>3, <1>8, CleanLink DEF SendOne
<1>10. bcast # <<>> /\ th[t].event = bcast[Len(bcast)] /\ bcast[Len(bcast)] \in Events
  BY <1>1, <1>2 DEF HistInv
<1>11. <<"event", th[t].event>> \in AnyMsgs
  BY <1>10 DEF AnyMsgs, OutMsgs
<1>12. /\ link[d] = "up" /\ UNCHANGED <<proc, fds, in, link>>
       /\ \A c \in Conns : c # d => EventsTo(c)' = EventsTo(c) /\ (NoId(c) => NoId(c)')
       /\ EventsTo(d)' = Append(EventsTo(d), bcast[Len(bcast)])
       /\ NoId(d) => NoId(d)'
  <2> DEFINE msg == <<"event", th[t].event>>
  <2>1. msg[1] = "event" /\ msg[2] = bcast[Len(bcast)] /\ msg \in AnyMsgs
    BY <1>10, <1>11
  <2>2. fds[clnt_socks[i]] = d /\ WriteArrives(t, clnt_socks[i], msg)
    BY <1>6, <1>9 DEF Seated
  <2> HIDE DEF msg
  <2>3. /\ link[d] = "up" /\ UNCHANGED <<proc, fds, in, link>>
        /\ \A c \in Conns : c # d => EventsTo(c)' = EventsTo(c) /\ (NoId(c) => NoId(c)')
        /\ EventsTo(d)' = IF msg[1] = "event" THEN Append(EventsTo(d), msg[2]) ELSE EventsTo(d)
        /\ msg[1] # "id" /\ NoId(d) => NoId(d)'
    BY <1>1, <1>5, <1>7, <2>1, <2>2, CleanWrite
  <2> QED BY <2>1, <2>3
<1>13. /\ Update(t, "send") /\ th'[t].sock = th[t].sock /\ ~th'[t].behind
       /\ th'[t].event = th[t].event /\ th'[t].i = i + 1
  BY <1>1, <1>2, <1>3, <1>9 DEF Update, Locals
<1>14. /\ \A c \in Conns : TidyThread(c)'
       /\ TidyMain' /\ TidySeats' /\ th'[Main] = th[Main]
       /\ Seats' = Seats /\ \A s : Seated(s)' = Seated(s)
  BY <1>2, <1>7, <1>9, <1>12, <1>13, TidyFrame, ServerAssumption
     DEF Outside, Calls, tableVars
<1>15. \A c \in Conns : TidyLink(c)'
  <2> TAKE c \in Conns
  <2>1. TidyLink(c)
    BY DEF Tidy
  <2>2. th'[c].pc \in Early => th[c].pc \in Early
    BY <1>13 DEF Update, Threads, Early
  <2>3. NoId(c) => NoId(c)'
    BY <1>12
  <2>4. link'[c] = "out" => EventsTo(c)' = <<>>
    BY <1>12, <2>1 DEF TidyLink
  <2> QED BY <1>12, <2>1, <2>2, <2>3, <2>4 DEF TidyLink
<1>16. \A r \in Conns : th[r].pc = "send" => r = t
  BY <1>2, OneSender
<1>17. \A s \in Seats : Reached(s) = IF i <= s THEN Len(bcast) - 1 ELSE Len(bcast)
  BY <1>2, <1>3, <1>16 DEF Reached
<1>18. \A s \in Seats : Reached(s)' = IF i + 1 <= s THEN Len(bcast) - 1 ELSE Len(bcast)
  <2>1. \A r \in Conns : th'[r].pc = "send" => r = t
    BY <1>13, <1>16 DEF Update, Threads
  <2>2. th'[t].pc = "send" /\ bcast' = bcast
    BY <1>9, <1>13 DEF Update
  <2> QED BY <1>13, <2>1, <2>2 DEF Reached
<1>19. Ends(EventsTo(d)', bcast, Len(bcast))
  <2>1. i <= i /\ i \in Nat
    BY DEF Seats, Slots
  <2>2. Ends(EventsTo(d), bcast, Len(bcast) - 1)
    BY <1>4, <1>6, <1>17, <2>1 DEF TidyEvents
  <2>3. EventsTo(d) \in Seq(Events)
    BY DEF HistInv
  <2>4. Ends(Append(EventsTo(d), bcast[Len(bcast)]), bcast, Len(bcast))
    BY <1>1, <1>10, <2>2, <2>3, EndsNext
  <2> QED BY <1>12, <2>4
<1>20. ASSUME NEW s \in Seats', NEW c \in Conns, Seated(s)' = c
       PROVE  Ends(EventsTo(c), bcast, Reached(s))'
  <2>1. s \in Seats /\ Seated(s) = c /\ bcast' = bcast
    BY <1>9, <1>14, <1>20
  <2>2. CASE s = i
    <3>1. c = d /\ Reached(s)' = Len(bcast)
      <4>1. ~(i + 1 <= i)
        BY DEF Seats, Slots
      <4> QED BY <1>6, <1>18, <2>1, <2>2, <4>1
    <3>2. Ends(EventsTo(c)', bcast', Reached(s)')
      BY <1>19, <2>1, <3>1
    <3> QED BY <3>2 DEF Ends
  <2>3. CASE s # i
    <3>1. c # d
      BY <1>4, <1>6, <2>1, <2>3, OneSlotEach
    <3>2. Reached(s)' = Reached(s)
      <4>1. i + 1 <= s <=> i <= s
        BY <2>1, <2>3 DEF Seats, Slots
      <4> QED BY <1>17, <1>18, <2>1, <4>1
    <3>3. Ends(EventsTo(c)', bcast', Reached(s)')
      BY <1>4, <1>12, <2>1, <3>1, <3>2 DEF TidyEvents
    <3> QED BY <3>3 DEF Ends
  <2> QED BY <2>2, <2>3
<1>21. \A c \in Conns : \E m \in 0 .. Len(bcast') : Ends(EventsTo(c), bcast, m)'
  <2> TAKE c \in Conns
  <2>1. \E m \in 0 .. Len(bcast) : Ends(EventsTo(c)', bcast, m)
    <3>1. CASE c = d
      BY <1>1, <1>19, <3>1
    <3>2. CASE c # d
      BY <1>4, <1>12, <3>2 DEF TidyEvents
    <3> QED BY <3>1, <3>2
  <2> QED BY <1>9, <2>1 DEF Ends
<1>22. \A c \in Conns : th'[Main].pc \in {"hello", "check", "add"} /\ accepted' = c =>
           EventsTo(c)' = <<>>
  <2> TAKE c \in Conns
  <2> HAVE th'[Main].pc \in {"hello", "check", "add"} /\ accepted' = c
  <2>1. c # d
    BY <1>4, <1>6, <1>9, <1>14 DEF TidyMain
  <2> QED BY <1>4, <1>9, <1>12, <1>14, <2>1 DEF TidyEvents
<1>23. Served'
  <2>1. \A r \in Conns : th'[r].pc = "send" => r = t
    BY <1>13, <1>16 DEF Update, Threads
  <2>2. ASSUME NEW s \in Seats', NEW c \in Conns, s < i + 1, Seated(s)' = c
        PROVE  EventsTo(c)' # <<>>
    <3>1. s \in Seats /\ Seated(s) = c
      BY <1>14, <2>2
    <3>2. CASE c = d
      <4>1. EventsTo(d) \in Seq(Events)
        BY DEF HistInv
      <4> QED BY <1>12, <3>2, <4>1
    <3>3. CASE c # d
      <4>1. s < i
        BY <1>6, <2>2, <3>1, <3>3 DEF Seats, Slots
      <4> QED BY <1>2, <1>3, <1>4, <1>12, <3>1, <3>3, <4>1 DEF TidyEvents, Served
    <3> QED BY <3>2, <3>3
  <2> QED BY <1>13, <2>1, <2>2 DEF Served
<1>24. TidyEvents'
  BY <1>20, <1>21, <1>22, <1>23 DEF TidyEvents
<1> QED BY <1>14, <1>15, <1>24 DEF Tidy

LEMMA SendDoneTidy ==
    ASSUME ServerInv, HistInv, Undisturbed, Tidy, NEW t \in Conns, SendDone(t)
    PROVE  Tidy'
<1>1. t \in Threads /\ th \in [Threads -> Locals] /\ th[t] \in Locals
      /\ clnt_cnt \in Int
  BY ThreadState DEF ServerInv, TypeOK
<1>2. /\ th[t].pc = "send" /\ th[t].i >= clnt_cnt
      /\ UNCHANGED <<tableVars, accepted, netVars, bcast>>
  BY DEF SendDone, At
<1>3. TidyEvents /\ TidyThread(t)
  BY DEF Tidy
<1>4. ~th[t].behind /\ ~IsEnd(th[t].event) /\ th[t].sock \in Fds /\ fds[th[t].sock] = t
  BY <1>2, <1>3 DEF TidyThread
<1>5. Update(t, "event") /\ th'[t].sock = th[t].sock /\ ~th'[t].behind
  BY <1>1, <1>4 DEF SendDone, Goto, Update, Locals
<1>6. /\ \A c \in Conns : TidyThread(c)'
      /\ TidyMain' /\ TidySeats' /\ th'[Main] = th[Main]
      /\ Seats' = Seats /\ \A s : Seated(s)' = Seated(s)
  BY <1>2, <1>4, <1>5, TidyFrame, ServerAssumption DEF Outside, Calls, tableVars, netVars
<1>7. \A c \in Conns : EventsTo(c)' = EventsTo(c) /\ (NoId(c) => NoId(c)')
  BY <1>2, NoneSent DEF netVars
<1>8. \A c \in Conns : TidyLink(c)'
  <2> TAKE c \in Conns
  <2>1. TidyLink(c)
    BY DEF Tidy
  <2>2. th'[c].pc \in Early => th[c].pc \in Early
    BY <1>5 DEF Update, Threads, Early
  <2> QED BY <1>2, <1>7, <2>1, <2>2 DEF TidyLink, netVars
<1>9. \A r \in Conns : th[r].pc = "send" => r = t
  BY <1>2, OneSender
<1>10. \A s \in Seats : Reached(s) = Len(bcast)
  <2>1. \A s \in Seats : ~(th[t].i <= s)
    BY <1>1, <1>2 DEF Seats, Slots, Locals
  <2> QED BY <1>9, <2>1 DEF Reached
<1>11. \A s : Reached(s)' = Len(bcast)
  BY <1>2, <1>5, <1>9 DEF Reached, Update, Threads
<1>12. ASSUME NEW s \in Seats', NEW c \in Conns, Seated(s)' = c
       PROVE  Ends(EventsTo(c), bcast, Reached(s))'
  <2>1. Ends(EventsTo(c), bcast, Len(bcast))
    BY <1>3, <1>6, <1>10, <1>12 DEF TidyEvents
  <2> QED BY <1>2, <1>7, <1>11, <2>1 DEF Ends
<1>13. \A c \in Conns : \E m \in 0 .. Len(bcast') : Ends(EventsTo(c), bcast, m)'
  BY <1>2, <1>3, <1>7 DEF TidyEvents, Ends
<1>14. \A c \in Conns : th'[Main].pc \in {"hello", "check", "add"} /\ accepted' = c =>
           EventsTo(c)' = <<>>
  BY <1>2, <1>3, <1>6, <1>7 DEF TidyEvents
<1>15. Served'
  BY <1>5, <1>9 DEF Served, Update, Threads
<1>16. TidyEvents'
  BY <1>12, <1>13, <1>14, <1>15 DEF TidyEvents
<1> QED BY <1>6, <1>8, <1>16 DEF Tidy

-----------------------------------------------------------------------------
(* disconnected, in good order.                                            *)

\* A thread in a call, and what it is about to take out of the table.
LEMMA CallTidy ==
    ASSUME ServerInv, Tidy, NEW t \in Threads, th[t].pc \in Calls
    PROVE  /\ t \in Conns /\ t # Main /\ th \in [Threads -> Locals] /\ th[t] \in Locals
           /\ th[t].sock \in Fds /\ fds[th[t].sock] = t
           /\ th[t].arg = th[t].sock /\ th[t].ret = "done"
           /\ ~th[t].behind /\ link[t] # "up"
           /\ th[t].pc = "disc" => \E s \in Seats : Seated(s) = t
           /\ th[t].pc # "disc" => \A s \in Seats : Seated(s) # t
<1>1. t \in Conns
  BY DEF Tidy, TidyMain, Threads
<1>2. TidyThread(t)
  BY <1>1 DEF Tidy
<1> QED BY <1>1, <1>2, ThreadState DEF TidyThread, Calls, Outside

\* A step inside a call sends nothing to anybody.
LEMMA InCallLinks ==
    ASSUME Tidy, NEW t \in Conns, NEW p \in Calls \cup {"done"}, Update(t, p),
           UNCHANGED <<link, in, out>>
    PROVE  \A c \in Conns : TidyLink(c)'
<1>1. \A c \in Conns : EventsTo(c)' = EventsTo(c) /\ (NoId(c) => NoId(c)')
  BY NoneSent
<1>2. \A c \in Conns : th'[c].pc \in Early => th[c].pc \in Early
  BY DEF Update, Threads, Early, Calls
<1> QED BY <1>1, <1>2 DEF Tidy, TidyLink

\* The place in the table from which slot s is filled when k is taken out.
From(k, s) == IF k <= s THEN s + 1 ELSE s

\* Closing the gap keeps every client but one, each in one slot.
LEMMA GapClosed ==
    ASSUME ServerInv, TidySeats, NEW t \in Threads, DisconnectRemove(t),
           NEW c \in Conns, NEW k \in Seats, Seated(k) = c, clnt_socks[k] = th[t].arg
    PROVE  /\ clnt_cnt' = clnt_cnt - 1 /\ clnt_cnt \in 1 .. MAX_USER
           /\ \A s \in Seats' : /\ From(k, s) \in Seats /\ From(k, s) # k
                                /\ clnt_socks'[s] = clnt_socks[From(k, s)]
                                /\ Seated(s)' = Seated(From(k, s))
           /\ \A r \in Seats \ {k} : \E s \in Seats' : From(k, s) = r
<1>1. clnt_cnt \in Int /\ clnt_cnt <= MAX_USER /\ clnt_cnt' = clnt_cnt - 1 /\ fds' = fds
  BY DEF ServerInv, TypeOK, NetInv, DisconnectRemove, netVars
<1>2. k \in Slots /\ 0 <= k /\ k < clnt_cnt
  BY DEF Seats, Slots
<1>3. SlotsOf(th[t].arg) = {k}
  BY <1>2 DEF SlotsOf, TidySeats, Seats
<1>4. FirstSlot(th[t].arg) = k
  <2>1. FirstSlot(th[t].arg) \in SlotsOf(th[t].arg)
    BY <1>3, FirstSlotFound
  <2> QED BY <1>3, <2>1
<1>5. clnt_socks' = [s \in Slots |-> IF k <= s /\ s < clnt_cnt - 1
                                     THEN clnt_socks[s + 1] ELSE clnt_socks[s]]
  BY <1>3, <1>4 DEF DisconnectRemove
<1>6. Seats' = {s \in Slots : s < clnt_cnt - 1}
  BY <1>1 DEF Seats
<1>7. ASSUME NEW s \in Seats'
      PROVE  /\ From(k, s) \in Seats /\ From(k, s) # k
             /\ clnt_socks'[s] = clnt_socks[From(k, s)]
  <2>1. s \in Slots /\ s < clnt_cnt - 1
    BY <1>6, <1>7
  <2> QED BY <1>1, <1>2, <1>5, <2>1 DEF From, Seats, Slots, MAX_USER
<1>8. \A s \in Seats' : Seated(s)' = Seated(From(k, s))
  BY <1>1, <1>7 DEF Seated
<1>9. ASSUME NEW r \in Seats \ {k} PROVE \E s \in Seats' : From(k, s) = r
  <2>1. r \in Slots /\ r < clnt_cnt /\ r # k
    BY DEF Seats
  <2>2. CASE k < r
    <3>1. r - 1 \in Seats' /\ From(k, r - 1) = r
      BY <1>1, <1>2, <1>6, <2>1, <2>2 DEF From, Slots, MAX_USER
    <3> QED BY <3>1
  <2>3. CASE ~(k < r)
    <3>1. r \in Seats' /\ From(k, r) = r
      BY <1>1, <1>2, <1>6, <2>1, <2>3 DEF From, Slots, MAX_USER
    <3> QED BY <3>1
  <2> QED BY <2>2, <2>3
<1>10. clnt_cnt \in 1 .. MAX_USER
  BY <1>1, <1>2 DEF MAX_USER, Slots
<1> QED BY <1>1, <1>7, <1>8, <1>9, <1>10

LEMMA DisconnectRemoveTidy ==
    ASSUME ServerInv, HistInv, Undisturbed, Tidy, NEW t \in Threads, DisconnectRemove(t)
    PROVE  Tidy'
<1>1. /\ th[t].pc = "disc" /\ mutx = None /\ Goto(t, "reset")
      /\ UNCHANGED <<accepted, netVars, bcast>>
  BY DEF DisconnectRemove, At
<1>2. /\ t \in Conns /\ t # Main /\ th \in [Threads -> Locals] /\ th[t] \in Locals
      /\ th[t].sock \in Fds /\ fds[th[t].sock] = t
      /\ th[t].arg = th[t].sock /\ th[t].ret = "done"
      /\ ~th[t].behind /\ link[t] # "up"
      /\ \E s \in Seats : Seated(s) = t
  BY <1>1, CallTidy DEF Calls
<1>3. TidySeats /\ TidyMain /\ TidyEvents
  BY DEF Tidy
<1>4. PICK k \in Seats : Seated(k) = t
  BY <1>2
<1>5. clnt_socks[k] = th[t].arg
  <2>1. clnt_socks[k] \in Fds /\ fds[clnt_socks[k]] = fds[th[t].sock]
    BY <1>2, <1>3, <1>4 DEF TidySeats, Seated
  <2> QED BY <1>2, <2>1, ServerAssumption DEF ServerInv, NetInv
<1>6. /\ clnt_cnt' = clnt_cnt - 1 /\ clnt_cnt \in 1 .. MAX_USER
      /\ \A s \in Seats' : /\ From(k, s) \in Seats /\ From(k, s) # k
                           /\ clnt_socks'[s] = clnt_socks[From(k, s)]
                           /\ Seated(s)' = Seated(From(k, s))
      /\ \A r \in Seats \ {k} : \E s \in Seats' : From(k, s) = r
  BY <1>2, <1>3, <1>4, <1>5, GapClosed
<1>7. /\ Update(t, "reset") /\ th'[t].sock = th[t].sock /\ th'[t].behind = th[t].behind
      /\ th'[t].arg = th[t].arg /\ th'[t].ret = th[t].ret
  BY <1>1, <1>2 DEF Goto, Update, Locals
<1>8. th'[Main] = th[Main] /\ \A c \in Conns : c # t => th'[c] = th[c]
  BY <1>2, <1>7 DEF Update, Threads
<1>9. \A s \in Seats' : Seated(s)' # t
  BY <1>3, <1>4, <1>6, OneSlotEach
<1>10. \A c \in Conns : c # t =>
           ((\E s \in Seats : Seated(s) = c) <=> (\E s \in Seats' : Seated(s)' = c))
  <2> TAKE c \in Conns
  <2> HAVE c # t
  <2>1. ASSUME NEW r \in Seats, Seated(r) = c PROVE \E s \in Seats' : Seated(s)' = c
    <3>1. PICK s \in Seats' : From(k, s) = r
      BY <1>4, <1>6, <2>1
    <3> QED BY <1>6, <2>1, <3>1
  <2>2. ASSUME NEW s \in Seats', Seated(s)' = c PROVE \E r \in Seats : Seated(r) = c
    BY <1>6, <2>2
  <2> QED BY <2>1, <2>2
<1>11. ASSUME NEW c \in Conns PROVE TidyThread(c)'
  <2>1. TidyThread(c)
    BY DEF Tidy
  <2>2. CASE c = t
    <3>1. th'[t].pc = "reset" /\ UNCHANGED <<fds, link>>
      BY <1>1, <1>7 DEF Update, netVars
    <3> QED BY <1>2, <1>7, <1>9, <2>2, <3>1 DEF TidyThread, Outside, Calls
  <2>3. CASE c # t
    <3>1. th'[c] = th[c] /\ th'[Main] = th[Main] /\ UNCHANGED <<fds, link>>
      BY <1>1, <1>8, <2>3 DEF netVars
    <3>2. th[c].pc \notin Outside => \E s \in Seats' : Seated(s)' = c
      BY <1>10, <2>1, <2>3 DEF TidyThread
    <3>3. th[c].pc \in {"reset", "close"} => \A s \in Seats' : Seated(s)' # c
      BY <1>10, <2>1, <2>3 DEF TidyThread
    <3> QED BY <2>1, <3>1, <3>2, <3>3 DEF TidyThread
  <2> QED BY <2>2, <2>3
<1>12. TidyMain'
  <2>1. th[Main].pc = "spawn" => accepted \in Conns /\ th[accepted].pc = "none"
    BY DEF ServerInv, SpawnInv
  <2>2. th[Main].pc = "spawn" => accepted \in Conns /\ accepted # t
    BY <1>1, <2>1
  <2>3. th[Main].pc = "spawn" => \E s \in Seats' : Seated(s)' = accepted
    BY <1>3, <1>10, <2>2 DEF TidyMain
  <2>4. th[Main].pc \in {"hello", "check", "add"} => \A s \in Seats' : Seated(s)' # accepted
    BY <1>3, <1>6 DEF TidyMain
  <2> QED BY <1>1, <1>3, <1>8, <2>3, <2>4 DEF TidyMain, netVars
<1>13. TidySeats'
  <2>1. 0 <= clnt_cnt'
    BY <1>6
  <2>2. \A s \in Seats' : clnt_socks'[s] \in Fds /\ Seated(s)' \in Conns
    BY <1>3, <1>6 DEF TidySeats
  <2>3. \A s, r \in Seats' : clnt_socks'[s] = clnt_socks'[r] => s = r
    <3> TAKE s, r \in Seats'
    <3> HAVE clnt_socks'[s] = clnt_socks'[r]
    <3>1. From(k, s) = From(k, r)
      BY <1>3, <1>6 DEF TidySeats
    <3> QED BY <3>1 DEF From, Seats, Slots
  <2> QED BY <2>1, <2>2, <2>3 DEF TidySeats
<1>14. \A c \in Conns : TidyLink(c)'
  BY <1>1, <1>2, <1>7, InCallLinks DEF Calls, netVars
<1>15. \A c \in Conns : EventsTo(c)' = EventsTo(c)
  BY <1>1, NoneSent DEF netVars
<1>16. (\A s : Reached(s) = Len(bcast)) /\ (\A s : Reached(s)' = Len(bcast)) /\ Served'
  <2>1. \A r \in Conns : th[r].pc # "send"
    BY <1>1, NobodySends
  <2>2. \A r \in Conns : th'[r].pc # "send"
    BY <1>7, <2>1 DEF Update, Threads
  <2> QED BY <1>1, <2>1, <2>2 DEF Reached, Served
<1>17. TidyEvents'
  <2>1. ASSUME NEW s \in Seats', NEW c \in Conns, Seated(s)' = c
        PROVE  Ends(EventsTo(c), bcast, Reached(s))'
    <3>1. Ends(EventsTo(c), bcast, Len(bcast))
      BY <1>3, <1>6, <1>16, <2>1 DEF TidyEvents
    <3> QED BY <1>1, <1>15, <1>16, <3>1 DEF Ends
  <2>2. \A c \in Conns : \E m \in 0 .. Len(bcast') : Ends(EventsTo(c), bcast, m)'
    BY <1>1, <1>3, <1>15 DEF TidyEvents, Ends
  <2>3. \A c \in Conns : th'[Main].pc \in {"hello", "check", "add"} /\ accepted' = c =>
            EventsTo(c)' = <<>>
    BY <1>1, <1>3, <1>8, <1>15 DEF TidyEvents
  <2> QED BY <1>16, <2>1, <2>2, <2>3 DEF TidyEvents
<1> QED BY <1>11, <1>12, <1>13, <1>14, <1>17 DEF Tidy

LEMMA DisconnectResetTidy ==
    ASSUME ServerInv, HistInv, Undisturbed, Tidy, NEW t \in Threads, DisconnectReset(t)
    PROVE  Tidy'
<1>1. /\ th[t].pc = "reset" /\ Goto(t, "close")
      /\ UNCHANGED <<clnt_cnt, clnt_socks, accepted, netVars, bcast>>
  BY DEF DisconnectReset, At
<1>2. /\ t \in Conns /\ t # Main /\ th \in [Threads -> Locals] /\ th[t] \in Locals
      /\ th[t].sock \in Fds /\ fds[th[t].sock] = t
      /\ th[t].arg = th[t].sock /\ th[t].ret = "done"
      /\ ~th[t].behind /\ link[t] # "up"
  BY <1>1, CallTidy DEF Calls
<1>3. /\ Update(t, "close") /\ th'[t].sock = th[t].sock /\ th'[t].behind = th[t].behind
      /\ th'[t].arg = th[t].arg /\ th'[t].ret = th[t].ret
  BY <1>1, <1>2 DEF Goto, Update, Locals
<1>4. /\ \A c \in Conns : TidyThread(c)'
      /\ TidyMain' /\ TidySeats' /\ th'[Main] = th[Main]
      /\ Seats' = Seats /\ \A s : Seated(s)' = Seated(s)
  BY <1>1, <1>2, <1>3, TidyFrame, ServerAssumption DEF Outside, Calls, netVars
<1>5. \A c \in Conns : TidyLink(c)'
  BY <1>1, <1>2, <1>3, InCallLinks DEF Calls, netVars
<1>6. \A c \in Conns : EventsTo(c)' = EventsTo(c)
  BY <1>1, NoneSent DEF netVars
<1>7. TidyEvents'
  <2>1. TidyEvents
    BY DEF Tidy
  <2>2. \A c \in Conns : /\ th'[c].pc = "send" <=> th[c].pc = "send"
                         /\ th'[c].pc = "send" => th'[c].i = th[c].i
    BY <1>1, <1>3 DEF Update, Threads
  <2> QED BY <1>1, <1>4, <1>6, <2>1, <2>2, EventsFrame
<1> QED BY <1>4, <1>5, <1>7 DEF Tidy

\* The descriptor that is closed is out of the table, and nobody else's.
LEMMA DisconnectCloseTidy ==
    ASSUME ServerInv, HistInv, Undisturbed, Tidy, NEW t \in Threads, DisconnectClose(t)
    PROVE  Tidy'
<1>1. /\ th[t].pc = "close" /\ Goto(t, th[t].ret)
      /\ fds' = [f \in Fds |-> IF f = th[t].arg THEN NoConn ELSE fds[f]]
      /\ UNCHANGED <<tableVars, accepted, link, in, out, bcast>>
  BY DEF DisconnectClose, At
<1>2. /\ t \in Conns /\ t # Main /\ th \in [Threads -> Locals] /\ th[t] \in Locals
      /\ th[t].sock \in Fds /\ fds[th[t].sock] = t
      /\ th[t].arg = th[t].sock /\ th[t].ret = "done"
      /\ ~th[t].behind /\ link[t] # "up"
      /\ \A s \in Seats : Seated(s) # t
  BY <1>1, CallTidy DEF Calls
<1>3. Update(t, "done") /\ th'[t].behind = th[t].behind
  BY <1>1, <1>2 DEF Goto, Update, Locals
<1>4. th'[Main] = th[Main] /\ \A c \in Conns : c # t => th'[c] = th[c]
  BY <1>2, <1>3 DEF Update, Threads
<1>5. \A f \in Fds : fds[f] # t => fds'[f] = fds[f]
  BY <1>1, <1>2
<1>6. Seats' = Seats /\ \A s \in Seats : Seated(s)' = Seated(s)
  <2>1. Seats' = Seats /\ clnt_socks' = clnt_socks
    BY <1>1 DEF Seats, tableVars
  <2>2. \A s \in Seats : clnt_socks[s] \in Fds /\ fds[clnt_socks[s]] # t
    BY <1>2 DEF Tidy, TidySeats, Seated
  <2> QED BY <1>5, <2>1, <2>2 DEF Seated
<1>7. ASSUME NEW c \in Conns PROVE TidyThread(c)'
  <2>1. TidyThread(c)
    BY DEF Tidy
  <2>2. CASE c = t
    BY <1>1, <1>2, <1>3, <2>2 DEF TidyThread, Update, Outside, Calls
  <2>3. CASE c # t
    <3>1. th'[c] = th[c] /\ th'[Main] = th[Main] /\ link' = link
      BY <1>1, <1>4, <2>3
    <3>2. th[c].pc \notin {"none", "begin", "done"} =>
              th[c].sock \in Fds /\ fds'[th[c].sock] = c
      BY <1>5, <2>1, <2>3 DEF TidyThread
    <3>3. th[c].pc = "begin" =>
              /\ th[Main].pc \in {"count", "start", "accept"}
              /\ th[Main].sock \in Fds /\ fds'[th[Main].sock] = c
      BY <1>5, <2>1, <2>3 DEF TidyThread
    <3>4. th[c].pc \notin Outside => \E s \in Seats' : Seated(s)' = c
      BY <1>6, <2>1 DEF TidyThread
    <3>5. th[c].pc \in {"reset", "close"} => \A s \in Seats' : Seated(s)' # c
      BY <1>6, <2>1 DEF TidyThread
    <3> QED BY <2>1, <3>1, <3>2, <3>3, <3>4, <3>5 DEF TidyThread
  <2> QED BY <2>2, <2>3
<1>8. TidyMain'
  <2>1. TidyMain
    BY DEF Tidy
  <2>2. th[Main].pc \in {"hello", "check", "add", "spawn"} =>
            accepted \in Conns /\ th[accepted].pc = "none"
    BY <2>1 DEF TidyMain, ServerInv, SpawnInv, Fds, BadFd
  <2>3. th[Main].pc \in {"hello", "check", "add", "spawn"} => accepted # t
    BY <1>1, <2>2
  <2>4. th[Main].pc \in {"hello", "check", "add", "spawn"} =>
            th[Main].sock \in Fds /\ fds'[th[Main].sock] = accepted
    BY <1>5, <2>1, <2>3 DEF TidyMain
  <2> QED BY <1>1, <1>4, <1>6, <2>1, <2>4 DEF TidyMain
<1>9. TidySeats'
  BY <1>1, <1>6 DEF Tidy, TidySeats, tableVars
<1>10. \A c \in Conns : TidyLink(c)'
  BY <1>1, <1>2, <1>3, InCallLinks
<1>11. \A c \in Conns : EventsTo(c)' = EventsTo(c)
  BY <1>1, NoneSent
<1>12. TidyEvents'
  <2>1. TidyEvents
    BY DEF Tidy
  <2>2. \A c \in Conns : /\ th'[c].pc = "send" <=> th[c].pc = "send"
                         /\ th'[c].pc = "send" => th'[c].i = th[c].i
    BY <1>1, <1>3 DEF Update, Threads
  <2> QED BY <1>1, <1>4, <1>6, <1>11, <2>1, <2>2, EventsFrame
<1> QED BY <1>7, <1>8, <1>9, <1>10, <1>12 DEF Tidy

LEMMA DisconnectedTidy ==
    ASSUME ServerInv, HistInv, Undisturbed, Tidy, NEW t \in Threads, DisconnectedStep(t)
    PROVE  Tidy'
BY DisconnectRemoveTidy, DisconnectResetTidy, DisconnectCloseTidy DEF DisconnectedStep

-----------------------------------------------------------------------------
(* main, in good order.                                                    *)

\* The connection that main is busy with.
LEMMA AcceptedTidy ==
    ASSUME ServerInv, Undisturbed, Tidy, th[Main].pc \in {"hello", "check", "add", "spawn"}
    PROVE  /\ accepted \in Conns /\ th[accepted].pc = "none"
           /\ th[Main].sock \in Fds /\ fds[th[Main].sock] = accepted
           /\ LinkOf(th[Main].sock) \in {"up", "fin"}
           /\ \A c \in Conns : th[c].pc # "begin"
<1>1. th[Main].sock \in Fds /\ fds[th[Main].sock] = accepted
  BY DEF Tidy, TidyMain
<1>2. accepted \in Conns /\ th[accepted].pc = "none"
  BY <1>1 DEF ServerInv, SpawnInv, Fds, BadFd
<1>3. IsOpen(th[Main].sock) /\ LinkOf(th[Main].sock) = link[accepted]
  BY <1>1, <1>2, ServerAssumption DEF IsOpen, LinkOf
<1>4. link[accepted] # "out"
  BY <1>1, <1>2, ServerAssumption DEF ServerInv, NetInv
<1>5. link[accepted] \in {"up", "fin"}
  BY <1>2, <1>4 DEF Undisturbed
<1>6. \A c \in Conns : th[c].pc # "begin"
  BY DEF Tidy, TidyThread
<1> QED BY <1>1, <1>2, <1>3, <1>5, <1>6

\* A step of main that leaves the table and the descriptors alone.
LEMMA MainMovesTidy ==
    ASSUME Tidy, Main \notin Conns, NEW p, Update(Main, p),
           th'[Main].sock = th[Main].sock, ~th'[Main].behind,
           p \notin Calls \cup {"hello", "spawn"},
           th[Main].pc \in {"hello", "check", "add", "spawn"} \/ p \in {"count", "start", "accept"},
           p \in {"check", "add"} => th[Main].pc \in {"hello", "check", "add"},
           UNCHANGED <<fds, link, in, accepted, clnt_cnt, clnt_socks, bcast>>,
           \A c \in Conns : EventsTo(c)' = EventsTo(c) /\ (NoId(c) => NoId(c)')
    PROVE  Tidy'
<1>1. th'[Main].pc = p /\ \A c \in Conns : th'[c] = th[c]
  BY DEF Update, Threads
<1>2. Seats' = Seats /\ \A s : Seated(s)' = Seated(s)
  BY DEF Seats, Seated
<1>3. \A c \in Conns : TidyThread(c)'
  BY <1>1, <1>2 DEF Tidy, TidyThread
<1>4. \A c \in Conns : TidyLink(c)'
  BY <1>1 DEF Tidy, TidyLink
<1>5. TidyMain' /\ TidySeats'
  BY <1>1, <1>2 DEF Tidy, TidyMain, TidySeats
<1>6. TidyEvents'
  <2>1. TidyEvents
    BY DEF Tidy
  <2> QED BY <1>1, <1>2, <2>1, EventsFrame
<1> QED BY <1>3, <1>4, <1>5, <1>6 DEF Tidy

LEMMA MainAcceptTidy ==
    ASSUME PromptStart, ServerInv, Undisturbed, Tidy, NEW c \in Conns, MainAccept(c)
    PROVE  Tidy'
<1>1. /\ link[c] = "out" /\ th[Main].pc = "accept" /\ \A d \in Conns : th[d].pc # "begin"
      /\ fds' = [fds EXCEPT ![LowestFree] = c] /\ link' = [link EXCEPT ![c] = "up"]
      /\ accepted' = c
      /\ UNCHANGED <<tableVars, in, out, bcast>>
  BY DEF MainAccept, At
<1>2. LowestFree \in Fds /\ fds[LowestFree] = NoConn
  BY <1>1, AcceptFinds
<1>3. fds \in [Fds -> Conns \cup {NoConn}] /\ link \in [Conns -> {"out", "up", "fin", "rst"}]
      /\ th \in [Threads -> Locals] /\ Main \in Threads /\ th[Main] \in Locals
  BY MainState DEF ServerInv, TypeOK
<1>4. /\ th'[Main].pc = "hello" /\ th'[Main].sock = LowestFree
      /\ th'[Main].behind = th[Main].behind
      /\ \A d \in Conns : th'[d] = th[d]
  BY <1>3, ServerAssumption DEF MainAccept, Locals, Threads
<1>5. fds'[LowestFree] = c /\ \A f \in Fds : fds[f] # NoConn => fds'[f] = fds[f]
  BY <1>1, <1>2, <1>3
<1>6. Seats' = Seats /\ \A s \in Seats : Seated(s)' = Seated(s) /\ Seated(s) # c
  <2>1. Seats' = Seats /\ clnt_socks' = clnt_socks
    BY <1>1 DEF Seats, tableVars
  <2>2. \A s \in Seats : clnt_socks[s] \in Fds /\ fds[clnt_socks[s]] # NoConn
    BY ServerAssumption DEF Tidy, TidySeats, Seated
  <2> QED BY <1>1, <1>5, <2>1, <2>2 DEF Seated, ServerInv, NetInv
<1>7. th[c].pc = "none"
  BY <1>1 DEF ServerInv, SpawnInv
<1>8. ASSUME NEW d \in Conns PROVE TidyThread(d)'
  <2>1. TidyThread(d)
    BY DEF Tidy
  <2>2. th[d].pc \notin {"none", "begin", "done"} =>
            th[d].sock \in Fds /\ fds'[th[d].sock] = d
    BY <1>5, <2>1, ServerAssumption DEF TidyThread
  <2>3. th[d].pc \in Calls \cup {"done"} => link'[d] # "up"
    BY <1>1, <1>3, <1>7, <2>1 DEF TidyThread, Calls
  <2> QED BY <1>1, <1>4, <1>6, <2>1, <2>2, <2>3 DEF TidyThread
<1>9. TidyMain'
  BY <1>1, <1>2, <1>4, <1>5, <1>6 DEF Tidy, TidyMain, Calls
<1>10. TidySeats'
  BY <1>1, <1>6 DEF Tidy, TidySeats, tableVars
<1>11. \A d \in Conns : EventsTo(d)' = EventsTo(d) /\ (NoId(d) => NoId(d)')
  BY <1>1, NoneSent
<1>12. \A d \in Conns : TidyLink(d)'
  BY <1>1, <1>3, <1>4, <1>11 DEF Tidy, TidyLink
<1>13. TidyEvents'
  <2>1. TidyEvents /\ EventsTo(c) = <<>>
    BY <1>1 DEF Tidy, TidyLink
  <2>2. \A s : Reached(s)' = Reached(s)
    BY <1>1, <1>4 DEF Reached
  <2>3. ASSUME NEW s \in Seats', NEW d \in Conns, Seated(s)' = d
        PROVE  Ends(EventsTo(d), bcast, Reached(s))'
    <3>1. Ends(EventsTo(d), bcast, Reached(s))
      BY <1>6, <2>1, <2>3 DEF TidyEvents
    <3> QED BY <1>1, <1>11, <2>2, <3>1 DEF Ends
  <2>4. \A d \in Conns : \E m \in 0 .. Len(bcast') : Ends(EventsTo(d), bcast, m)'
    BY <1>1, <1>11, <2>1 DEF TidyEvents, Ends
  <2>5. \A d \in Conns : accepted' = d => EventsTo(d)' = <<>>
    BY <1>1, <1>11, <2>1
  <2>6. Served'
    BY <1>4, <1>6, <1>11, <2>1 DEF TidyEvents, Served
  <2> QED BY <2>3, <2>4, <2>5, <2>6 DEF TidyEvents
<1> QED BY <1>8, <1>9, <1>10, <1>12, <1>13 DEF Tidy

LEMMA MainHelloTidy ==
    ASSUME ServerInv, HistInv, Undisturbed, Undisturbed', Tidy, MainHello
    PROVE  Tidy'
<1>1. th[Main].pc = "hello"
  BY DEF MainHello, At
<1>2. /\ accepted \in Conns /\ th[Main].sock \in Fds /\ fds[th[Main].sock] = accepted
      /\ LinkOf(th[Main].sock) \in {"up", "fin"}
  BY <1>1, AcceptedTidy
<1>3. /\ WriteArrives(Main, th[Main].sock, <<"hello", game_start>>)
      /\ th' = [th EXCEPT ![Main].pc = "check", ![Main].behind = FALSE]
      /\ UNCHANGED <<tableVars, accepted, bcast>>
  BY <1>2, CleanLink DEF MainHello, WriteFailsOrKills
<1>4. /\ Update(Main, "check") /\ th'[Main].sock = th[Main].sock /\ ~th'[Main].behind
      /\ Main \in Threads
  BY <1>3, MainState DEF Update, Locals
<1>5. ~th[Main].behind
  BY DEF Tidy, TidyMain
<1>6. <<"hello", game_start>> \in AnyMsgs
  BY DEF AnyMsgs, OutMsgs, ServerInv, TypeOK
<1>7. /\ UNCHANGED <<fds, link, in>>
      /\ \A c \in Conns : EventsTo(c)' = EventsTo(c) /\ (NoId(c) => NoId(c)')
  <2> DEFINE msg == <<"hello", game_start>>
  <2>1. msg[1] = "hello"
    OBVIOUS
  <2> HIDE DEF msg
  <2>2. PICK d \in Conns : d = accepted
    BY <1>2
  <2>3. WriteArrives(Main, th[Main].sock, msg) /\ msg \in AnyMsgs
    BY <1>3, <1>6 DEF msg
  <2>4. /\ UNCHANGED <<proc, fds, in, link>>
        /\ \A c \in Conns : c # d => EventsTo(c)' = EventsTo(c) /\ (NoId(c) => NoId(c)')
        /\ EventsTo(d)' = IF msg[1] = "event" THEN Append(EventsTo(d), msg[2])
                          ELSE EventsTo(d)
        /\ msg[1] # "id" /\ NoId(d) => NoId(d)'
    BY <1>2, <1>4, <1>5, <2>2, <2>3, CleanWrite
  <2>5. ASSUME NEW c \in Conns
        PROVE  EventsTo(c)' = EventsTo(c) /\ (NoId(c) => NoId(c)')
    <3>1. CASE c = d
      BY <2>1, <2>4, <3>1
    <3>2. CASE c # d
      BY <2>4, <3>2
    <3> QED BY <3>1, <3>2
  <2> QED BY <2>4, <2>5
<1> QED BY <1>1, <1>3, <1>4, <1>7, MainMovesTidy, ServerAssumption DEF Calls, tableVars

LEMMA MainCheckTidy ==
    ASSUME ServerInv, HistInv, Undisturbed, Tidy, MainCheck
    PROVE  Tidy'
<1>1. th[Main].pc = "check" /\ UNCHANGED <<tableVars, accepted, link, in, out, bcast>>
  BY DEF MainCheck, At
<1>2. /\ accepted \in Conns /\ th[accepted].pc = "none"
      /\ th[Main].sock \in Fds /\ fds[th[Main].sock] = accepted
      /\ \A c \in Conns : th[c].pc # "begin"
  BY <1>1, AcceptedTidy
<1>3. TidyMain /\ TidySeats /\ TidyEvents
  BY DEF Tidy
<1>4. \A c \in Conns : EventsTo(c)' = EventsTo(c) /\ (NoId(c) => NoId(c)')
  BY <1>1, NoneSent
<1>5. CASE Goto(Main, "add") /\ fds' = fds
  <2>1. Update(Main, "add") /\ th'[Main].sock = th[Main].sock /\ ~th'[Main].behind
    BY <1>3, <1>5, MainState DEF Update, Locals, Goto, TidyMain
  <2> QED BY <1>1, <1>4, <1>5, <2>1, MainMovesTidy, ServerAssumption DEF Calls, tableVars
<1>6. CASE Goto(Main, "accept") /\ fds' = [fds EXCEPT ![th[Main].sock] = NoConn]
  <2>1. /\ th'[Main].pc = "accept" /\ th'[Main].behind = th[Main].behind
        /\ \A c \in Conns : th'[c] = th[c]
    BY <1>6, MainState DEF Locals, Goto
  <2>2. \A f \in Fds : fds[f] # accepted => fds'[f] = fds[f]
    BY <1>2, <1>6 DEF ServerInv, TypeOK
  <2>3. Seats' = Seats /\ \A s \in Seats : Seated(s)' = Seated(s)
    <3>1. Seats' = Seats /\ clnt_socks' = clnt_socks
      BY <1>1 DEF Seats, tableVars
    <3>2. \A s \in Seats : clnt_socks[s] \in Fds /\ fds[clnt_socks[s]] # accepted
      BY <1>1, <1>3 DEF TidySeats, TidyMain, Seated
    <3> QED BY <2>2, <3>1, <3>2 DEF Seated
  <2>4. ASSUME NEW c \in Conns PROVE TidyThread(c)'
    <3>1. TidyThread(c)
      BY DEF Tidy
    <3>2. th[c].pc \notin {"none", "begin", "done"} =>
              th[c].sock \in Fds /\ fds'[th[c].sock] = c
      BY <1>2, <2>2, <3>1 DEF TidyThread
    <3> QED BY <1>1, <1>2, <2>1, <2>3, <3>1, <3>2 DEF TidyThread
  <2>5. TidyMain'
    BY <1>3, <2>1 DEF TidyMain, Calls
  <2>6. TidySeats'
    BY <1>1, <1>3, <2>3 DEF TidySeats, tableVars
  <2>7. \A c \in Conns : TidyLink(c)'
    BY <1>1, <1>4, <2>1 DEF Tidy, TidyLink
  <2>8. TidyEvents'
    BY <1>1, <1>3, <1>4, <2>1, <2>3, EventsFrame
  <2> QED BY <2>4, <2>5, <2>6, <2>7, <2>8 DEF Tidy
<1> QED BY <1>5, <1>6 DEF MainCheck

LEMMA MainAddTidy ==
    ASSUME ServerInv, HistInv, Undisturbed, Tidy, MainAdd
    PROVE  Tidy'
<1>1. th[Main].pc = "add" /\ mutx = None
  BY DEF MainAdd, At
<1>2. /\ accepted \in Conns /\ th[accepted].pc = "none"
      /\ th[Main].sock \in Fds /\ fds[th[Main].sock] = accepted
      /\ \A c \in Conns : th[c].pc # "begin"
  BY <1>1, AcceptedTidy
<1>3. TidyMain /\ TidySeats /\ TidyEvents
  BY DEF Tidy
<1>4. clnt_cnt \in Slots /\ clnt_cnt \in Int
  BY <1>1, <1>3, ServerAssumption DEF TidySeats, ServerInv, CntInv, TypeOK, Slots, MAX_USER
<1>5. /\ clnt_socks' = [clnt_socks EXCEPT ![clnt_cnt] = th[Main].sock]
      /\ clnt_cnt' = clnt_cnt + 1 /\ Goto(Main, "spawn")
      /\ UNCHANGED <<accepted, netVars, bcast>>
  BY <1>4 DEF MainAdd
<1>6. /\ th'[Main].pc = "spawn" /\ th'[Main].sock = th[Main].sock
      /\ th'[Main].behind = th[Main].behind
      /\ \A c \in Conns : th'[c] = th[c]
  BY <1>5, MainState DEF Locals, Goto
<1>7. PICK k \in Slots : k = clnt_cnt
  BY <1>4
<1>8. /\ Seats' = Seats \cup {k} /\ k \notin Seats
      /\ clnt_socks'[k] = th[Main].sock
      /\ \A s \in Seats : clnt_socks'[s] = clnt_socks[s]
  BY <1>4, <1>5, <1>7 DEF Seats, Slots, ServerInv, TypeOK
<1>9. Seated(k)' = accepted /\ \A s \in Seats : Seated(s)' = Seated(s)
  BY <1>2, <1>5, <1>8 DEF Seated, netVars
<1>10. \A c \in Conns : EventsTo(c)' = EventsTo(c) /\ (NoId(c) => NoId(c)')
  BY <1>5, NoneSent DEF netVars
<1>11. ASSUME NEW c \in Conns PROVE TidyThread(c)'
  <2>1. TidyThread(c)
    BY DEF Tidy
  <2>2. th[c].pc \notin Outside => \E s \in Seats' : Seated(s)' = c
    BY <1>8, <1>9, <2>1 DEF TidyThread
  <2>3. th[c].pc \in {"reset", "close"} => \A s \in Seats' : Seated(s)' # c
    BY <1>2, <1>8, <1>9, <2>1 DEF TidyThread
  <2> QED BY <1>2, <1>5, <1>6, <2>1, <2>2, <2>3 DEF TidyThread, netVars
<1>12. TidyMain'
  <2>1. \E s \in Seats' : Seated(s)' = accepted'
    BY <1>5, <1>8, <1>9
  <2> QED BY <1>2, <1>3, <1>5, <1>6, <2>1 DEF TidyMain, Calls, netVars
<1>13. TidySeats'
  <2>1. 0 <= clnt_cnt'
    BY <1>3, <1>4, <1>5 DEF TidySeats
  <2>2. \A s \in Seats' : clnt_socks'[s] \in Fds /\ Seated(s)' \in Conns
    BY <1>2, <1>3, <1>8, <1>9 DEF TidySeats
  <2>3. \A s \in Seats : clnt_socks[s] # th[Main].sock
    BY <1>1, <1>2, <1>3 DEF TidyMain, Seated
  <2>4. \A s, r \in Seats' : clnt_socks'[s] = clnt_socks'[r] => s = r
    BY <1>3, <1>8, <2>3 DEF TidySeats
  <2> QED BY <2>1, <2>2, <2>4 DEF TidySeats
<1>14. \A c \in Conns : TidyLink(c)'
  BY <1>5, <1>6, <1>10 DEF Tidy, TidyLink, netVars
<1>15. (\A s : Reached(s) = Len(bcast) /\ Reached(s)' = Len(bcast)) /\ Served'
  <2>1. \A c \in Conns : th[c].pc # "send"
    BY <1>1, NobodySends
  <2> QED BY <1>5, <1>6, <2>1 DEF Reached, Served
<1>16. TidyEvents'
  <2>1. ASSUME NEW s \in Seats', NEW c \in Conns, Seated(s)' = c
        PROVE  Ends(EventsTo(c), bcast, Reached(s))'
    <3>1. CASE s \in Seats
      <4>1. Ends(EventsTo(c), bcast, Len(bcast))
        BY <1>3, <1>9, <1>15, <2>1, <3>1 DEF TidyEvents
      <4> QED BY <1>5, <1>10, <1>15, <4>1 DEF Ends
    <3>2. CASE s = k
      <4>1. EventsTo(c) = <<>>
        BY <1>1, <1>3, <1>9, <2>1, <3>2 DEF TidyEvents
      <4>2. Len(bcast) \in Nat
        BY MainState
      <4>3. Ends(<<>>, bcast, Len(bcast))
        BY <4>2, EndsNothing
      <4> QED BY <1>5, <1>10, <1>15, <4>1, <4>3 DEF Ends
    <3> QED BY <1>8, <2>1, <3>1, <3>2
  <2>2. \A c \in Conns : \E m \in 0 .. Len(bcast') : Ends(EventsTo(c), bcast, m)'
    <3>1. \A c \in Conns : \A m : Ends(EventsTo(c), bcast, m) => Ends(EventsTo(c), bcast, m)'
      BY <1>5, <1>10 DEF Ends
    <3> QED BY <1>3, <1>5, <3>1 DEF TidyEvents
  <2> QED BY <1>6, <1>15, <2>1, <2>2 DEF TidyEvents
<1> QED BY <1>11, <1>12, <1>13, <1>14, <1>16 DEF Tidy

LEMMA MainSpawnTidy ==
    ASSUME ServerInv, HistInv, Undisturbed, Tidy, MainSpawn
    PROVE  Tidy'
<1>1. th[Main].pc = "spawn" /\ UNCHANGED <<tableVars, accepted, netVars, bcast>>
  BY DEF MainSpawn, At
<1>2. /\ accepted \in Conns /\ th[accepted].pc = "none"
      /\ th[Main].sock \in Fds /\ fds[th[Main].sock] = accepted
      /\ \A c \in Conns : th[c].pc # "begin"
  BY <1>1, AcceptedTidy
<1>3. TidyMain /\ TidySeats /\ TidyEvents
  BY DEF Tidy
<1>4. PICK d \in Conns : d = accepted
  BY <1>2
<1>5. th' = [th EXCEPT ![Main].pc = "count", ![d].pc = "begin"]
  BY <1>4 DEF MainSpawn
<1>6. /\ th'[Main].pc = "count" /\ th'[Main].sock = th[Main].sock
      /\ th'[Main].behind = th[Main].behind
      /\ th'[d].pc = "begin" /\ th'[d].behind = th[d].behind
      /\ \A c \in Conns : c # d => th'[c] = th[c]
  <2>1. d \in Threads /\ Main \in Threads /\ d # Main
    BY MainState
  <2>2. th[d] \in Locals /\ th[Main] \in Locals /\ th \in [Threads -> Locals]
    BY <2>1, MainState
  <2>3. \A c \in Conns : c \in Threads /\ c # Main
    BY MainState
  <2> QED BY <1>5, <2>1, <2>2, <2>3 DEF Locals
<1>7. Seats' = Seats /\ \A s : Seated(s)' = Seated(s)
  BY <1>1 DEF Seats, Seated, tableVars, netVars
<1>8. \A c \in Conns : EventsTo(c)' = EventsTo(c) /\ (NoId(c) => NoId(c)')
  BY <1>1, NoneSent DEF netVars
<1>9. ASSUME NEW c \in Conns PROVE TidyThread(c)'
  <2>1. TidyThread(c)
    BY DEF Tidy
  <2>2. CASE c = d
    <3>1. \E s \in Seats' : Seated(s)' = c
      BY <1>1, <1>3, <1>4, <1>7, <2>2 DEF TidyMain
    <3> QED BY <1>1, <1>2, <1>4, <1>6, <2>1, <2>2, <3>1 DEF TidyThread, Calls, netVars
  <2>3. CASE c # d
    <3>1. th'[c] = th[c] /\ th[c].pc # "begin" /\ UNCHANGED <<fds, link>>
      BY <1>1, <1>2, <1>6, <2>3 DEF netVars
    <3> QED BY <1>7, <2>1, <3>1 DEF TidyThread
  <2> QED BY <2>2, <2>3
<1>10. TidyMain'
  BY <1>3, <1>6 DEF TidyMain, Calls
<1>11. TidySeats'
  BY <1>1, <1>3, <1>7 DEF TidySeats, tableVars
<1>12. \A c \in Conns : TidyLink(c)'
  <2> TAKE c \in Conns
  <2>1. TidyLink(c)
    BY DEF Tidy
  <2>2. th'[c].pc \in Early => th[c].pc \in Early
    BY <1>2, <1>4, <1>6 DEF Early
  <2> QED BY <1>1, <1>8, <2>1, <2>2 DEF TidyLink, netVars
<1>13. TidyEvents'
  <2>1. \A c \in Conns : /\ th'[c].pc = "send" <=> th[c].pc = "send"
                         /\ th'[c].pc = "send" => th'[c].i = th[c].i
    BY <1>2, <1>4, <1>6
  <2> QED BY <1>1, <1>3, <1>6, <1>7, <1>8, <2>1, EventsFrame
<1> QED BY <1>9, <1>10, <1>11, <1>12, <1>13 DEF Tidy

LEMMA MainTidy ==
    ASSUME PromptStart, ~AcceptMayFail, ServerInv, HistInv, Undisturbed, Undisturbed', Tidy,
           MainStep \/ MainAcceptFails \/ \E c \in Conns : MainAccept(c)
    PROVE  Tidy'
<1>1. ASSUME NEW p \in {"accept", "start"}, Goto(Main, p),
             th[Main].pc \in {"count", "start"},
             UNCHANGED <<clnt_cnt, clnt_socks, accepted, netVars, bcast>>
      PROVE  Tidy'
  <2>1. Update(Main, p) /\ th'[Main].sock = th[Main].sock /\ ~th'[Main].behind
    BY <1>1, MainState DEF Update, Locals, Goto, Tidy, TidyMain
  <2>2. \A c \in Conns : EventsTo(c)' = EventsTo(c) /\ (NoId(c) => NoId(c)')
    BY <1>1, NoneSent DEF netVars
  <2> QED BY <1>1, <2>1, <2>2, MainMovesTidy, ServerAssumption DEF Calls, netVars
<1>2. CASE MainCount \/ MainStart
  BY <1>1, <1>2 DEF MainCount, MainStart, At, tableVars
<1>3. ~MainAcceptFails
  BY DEF MainAcceptFails
<1> QED BY <1>2, <1>3, MainAcceptTidy, MainHelloTidy, MainCheckTidy, MainAddTidy, MainSpawnTidy
        DEF MainStep

-----------------------------------------------------------------------------
(* The clients, and the theorem.                                           *)

LEMMA ClientTidy ==
    ASSUME ServerInv, Undisturbed', Tidy, NEW c \in Conns, ClientStep(c)
    PROVE  Tidy'
<1>1. UNCHANGED <<tableVars, th, accepted, fds, out, bcast>>
  BY DEF ClientStep, ClientSize, ClientName, ClientCommand, ClientEnd, ClientLeave, Send
<1>2. \A d \in Conns : /\ link'[d] = "up" => link[d] = "up"
                       /\ link'[d] = "out" => link[d] = "out"
  <2>1. link' = link \/ \E how \in {"fin", "rst"} : link' = [link EXCEPT ![c] = how]
    BY DEF ClientStep, ClientSize, ClientName, ClientCommand, ClientEnd, ClientLeave, Send
  <2>2. link \in [Conns -> {"out", "up", "fin", "rst"}]
    BY DEF ServerInv, TypeOK
  <2> QED BY <2>1, <2>2
<1>3. \A d \in Conns : in'[d] \in Seq(Plain)
  <2>1. \A d \in Conns : in[d] \in Seq(Plain)
    BY DEF Tidy, TidyLink
  <2>2. ~ClientEnd(c)
    <3>1. ended \in [Conns -> BOOLEAN] /\ ~ended'[c]
      BY DEF ServerInv, TypeOK, Undisturbed
    <3> QED BY <3>1 DEF ClientEnd
  <2>3. ASSUME NEW m \in Plain, Send(c, m) PROVE \A d \in Conns : in'[d] \in Seq(Plain)
    <3>1. in' = [in EXCEPT ![c] = Append(in[c], m)] /\ in \in [Conns -> Seq(InMsgs)]
      BY <2>3 DEF Send, ServerInv, NetInv
    <3>2. Append(in[c], m) \in Seq(Plain)
      BY <2>1, <2>3
    <3> QED BY <2>1, <3>1, <3>2
  <2>4. CASE ClientSize(c) \/ ClientName(c)
    <3>1. <<"size", c>> \in Plain /\ <<"name", c>> \in Plain
      BY DEF Plain
    <3> QED BY <2>3, <2>4, <3>1 DEF ClientSize, ClientName
  <2>5. CASE ClientCommand(c)
    <3>1. csent[c] - 1 \in 1 .. MaxCmds
      BY <2>5, ServerAssumption DEF ClientCommand, ServerInv, TypeOK
    <3>2. <<"event", <<c, csent[c] - 1>>>> \in Plain
      BY <3>1 DEF Plain
    <3> QED BY <2>3, <2>5, <3>2 DEF ClientCommand
  <2>6. CASE ClientLeave(c)
    BY <2>1, <2>6 DEF ClientLeave
  <2> QED BY <2>2, <2>4, <2>5, <2>6 DEF ClientStep
<1>4. Seats' = Seats /\ \A s : Seated(s)' = Seated(s)
  BY <1>1 DEF Seats, Seated, tableVars
<1>5. \A d \in Conns : EventsTo(d)' = EventsTo(d) /\ (NoId(d) => NoId(d)')
  BY <1>1, NoneSent
<1>6. \A d \in Conns : TidyThread(d)'
  <2> TAKE d \in Conns
  <2>1. TidyThread(d)
    BY DEF Tidy
  <2> QED BY <1>1, <1>2, <1>4, <2>1 DEF TidyThread
<1>7. \A d \in Conns : TidyLink(d)'
  BY <1>1, <1>2, <1>3, <1>5 DEF Tidy, TidyLink
<1>8. TidyMain' /\ TidySeats'
  BY <1>1, <1>4 DEF Tidy, TidyMain, TidySeats, tableVars
<1>9. TidyEvents'
  <2>1. TidyEvents
    BY DEF Tidy
  <2> QED BY <1>1, <1>4, <1>5, <2>1, EventsFrame
<1> QED BY <1>6, <1>7, <1>8, <1>9 DEF Tidy

LEMMA TidyBegins ==
    ASSUME Init
    PROVE  Tidy
<1>1. /\ \A c \in Conns : /\ th[c] = NewThread("none") /\ out[c] = <<>> /\ in[c] = <<>>
                          /\ link[c] = "out"
      /\ th[Main] = NewThread("accept")
      /\ clnt_cnt = 0 /\ bcast = <<>>
  BY ServerAssumption DEF Init, Threads
<1>2. Seats = {}
  BY <1>1 DEF Seats, Slots
<1>3. \A c \in Conns : /\ th[c].pc = "none" /\ ~th[c].behind
                       /\ th[Main].pc = "accept" /\ ~th[Main].behind
  BY <1>1 DEF NewThread
<1>4. th[Main].pc = "accept" /\ ~th[Main].behind
  BY <1>1 DEF NewThread
<1>5. \A c \in Conns : EventsTo(c) = <<>> /\ NoId(c)
  <2> TAKE c \in Conns
  <2>1. SentTo(c, "event") = <<>> /\ SentTo(c, "id") = <<>>
    BY <1>1, CarriedNothing DEF SentTo
  <2>2. DOMAIN out[c] = {}
    BY <1>1
  <2> QED BY <2>1, <2>2 DEF EventsTo, NoId
<1>6. \A c \in Conns : TidyThread(c)
  BY <1>3 DEF TidyThread, Calls, Outside
<1>7. \A c \in Conns : TidyLink(c)
  <2>1. <<>> \in Seq(Plain)
    OBVIOUS
  <2> QED BY <1>1, <1>5, <2>1 DEF TidyLink
<1>8. TidyMain /\ TidySeats
  BY <1>1, <1>2, <1>4 DEF TidyMain, TidySeats, Calls
<1>9. TidyEvents
  <2>1. 0 \in 0 .. Len(bcast) /\ Ends(<<>>, bcast, 0)
    BY <1>1, EndsNothing
  <2>2. \A c \in Conns : \E m \in 0 .. Len(bcast) : Ends(EventsTo(c), bcast, m)
    BY <1>5, <2>1
  <2>3. Served
    BY <1>3 DEF Served
  <2> QED BY <1>2, <1>4, <2>2, <2>3 DEF TidyEvents
<1> QED BY <1>6, <1>7, <1>8, <1>9 DEF Tidy

LEMMA TidyStep ==
    ASSUME PromptStart, ~AcceptMayFail, ServerInv, HistInv, TidyInv, [Next]_vars
    PROVE  TidyInv'
<1> SUFFICES ASSUME Undisturbed' PROVE Tidy'
  BY DEF TidyInv
<1>1. ServerInv'
  BY NextServerInv
<1>2. Undisturbed /\ Tidy
  BY <1>1, StillUndisturbed DEF TidyInv
<1>3. ASSUME NEW t \in Conns, ThreadStep(t) PROVE Tidy'
  BY <1>2, <1>3, BeginTidy, HandshakeTidy, GreetingTidy, ReadEventTidy, LockBroadcastTidy,
     SendOneTidy, SendDoneTidy DEF ThreadStep
<1>4. CASE UNCHANGED vars
  BY <1>2, <1>4, TidyStutters DEF vars, tableVars
<1>5. CASE Next
  BY <1>2, <1>3, <1>5, ClientTidy, DisconnectedTidy, MainTidy DEF Next
<1> QED BY <1>4, <1>5

\* In good order a client that is there is in the table, and everybody in the
\* table has all the events but perhaps the last one.
LEMMA ThereIsSeated ==
    ASSUME ServerInv, HistInv, Tidy, NEW c \in There
    PROVE  \E s \in Seats : /\ Seated(s) = c /\ Ends(EventsTo(c), bcast, Reached(s))
                           /\ Reached(s) \in 0 .. Len(bcast) /\ Reached(s) >= Len(bcast) - 1
<1>1. c \in Conns /\ link[c] = "up" /\ IdsOf(c) # {}
  BY DEF There
<1>2. TidyThread(c) /\ TidyLink(c) /\ TidyEvents
  BY <1>1 DEF Tidy
<1>3. SentTo(c, "id") # <<>>
  BY <1>1 DEF IdsOf
<1>4. th[c].pc \notin Early
  BY <1>2, <1>3 DEF TidyLink, NoId
<1>5. th[c].pc \notin Calls \cup {"done"}
  BY <1>1, <1>2 DEF TidyThread
<1>6. th[c].pc \notin Outside
  BY <1>4, <1>5 DEF Early, Calls, Outside
<1>7. PICK s \in Seats : Seated(s) = c
  BY <1>2, <1>6 DEF TidyThread
<1>8. Ends(EventsTo(c), bcast, Reached(s))
  BY <1>1, <1>2, <1>7 DEF TidyEvents
<1>9. Reached(s) \in 0 .. Len(bcast) /\ Reached(s) >= Len(bcast) - 1
  <2>1. (\E t \in Conns : th[t].pc = "send") => Len(bcast) > 0
    BY MainState DEF HistInv
  <2> QED BY <2>1, MainState DEF Reached
<1> QED BY <1>7, <1>8, <1>9

LEMMA TidyMissesNothing ==
    ASSUME ServerInv, HistInv, TidyInv
    PROVE  NothingMissed
<1> SUFFICES ASSUME Undisturbed PROVE NothingSkipped /\ EverybodyReached
  BY DEF NothingMissed
<1>1. Tidy /\ TidyEvents
  BY DEF TidyInv, Tidy
<1>2. bcast \in Seq(Events) /\ Len(bcast) \in Nat
      /\ \A c \in Conns : EventsTo(c) \in Seq(Events)
  BY MainState DEF HistInv
<1>3. ASSUME NEW c \in Conns
      PROVE  \E m \in 0 .. Len(bcast) : UpTo(c, m) /\ (c \in There => m >= Len(bcast) - 1)
  <2>1. CASE c \in There
    <3>1. PICK s \in Seats : /\ Ends(EventsTo(c), bcast, Reached(s))
                             /\ Reached(s) \in 0 .. Len(bcast)
                             /\ Reached(s) >= Len(bcast) - 1
      BY <1>1, <2>1, ThereIsSeated
    <3> QED BY <1>2, <3>1, UpToEnds
  <2>2. CASE c \notin There
    <3>1. PICK m \in 0 .. Len(bcast) : Ends(EventsTo(c), bcast, m)
      BY <1>1 DEF TidyEvents
    <3> QED BY <1>2, <2>2, <3>1, UpToEnds
  <2> QED BY <2>1, <2>2
<1>4. ASSUME NEW t \in Conns, th[t].pc = "send", th[t].i >= clnt_cnt, NEW c \in There
      PROVE  EventsTo(c) # <<>> /\ EventsTo(c)[Len(EventsTo(c))] = th[t].event
  <2>1. c \in Conns /\ th[t] \in Locals /\ clnt_cnt \in Int
    BY ThreadState DEF There, ServerInv, TypeOK
  <2>2. PICK s \in Seats : Seated(s) = c /\ Ends(EventsTo(c), bcast, Reached(s))
    BY <1>1, ThereIsSeated
  <2>3. s < th[t].i /\ ~(th[t].i <= s)
    BY <1>4, <2>1 DEF Seats, Slots, Locals
  <2>4. Reached(s) = Len(bcast)
    <3>1. \A r \in Conns : th[r].pc = "send" => r = t
      BY <1>4, OneSender
    <3> QED BY <2>3, <3>1 DEF Reached
  <2>5. EventsTo(c) # <<>>
    BY <1>1, <1>4, <2>1, <2>2, <2>3 DEF TidyEvents, Served
  <2>6. Len(EventsTo(c)) \in 1 .. Len(EventsTo(c)) /\ Len(EventsTo(c)) \in Nat
    BY <1>2, <2>1, <2>5
  <2>7. EventsTo(c)[Len(EventsTo(c))] = bcast[Len(bcast) - Len(EventsTo(c)) + Len(EventsTo(c))]
    BY <2>2, <2>4, <2>6 DEF Ends
  <2>8. EventsTo(c)[Len(EventsTo(c))] = bcast[Len(bcast)]
    BY <1>2, <2>6, <2>7
  <2> QED BY <1>4, <2>5, <2>8 DEF HistInv
<1> QED BY <1>3, <1>4 DEF NothingSkipped, EverybodyReached

\* send_msg_all and disconnected, while clients come and go: no client is sent
\* an event after a later one; and as long as those who leave do so in good
\* order, nobody who is playing is passed over or sent an event twice, and
\* everybody has the event when the loop is over, although disconnected closes
\* gaps in the table and accept uses descriptors again.  (A failed accept makes
\* main call disconnected, which takes the last client out of the table.)
THEOREM NobodyPassedOver ==
    ASSUME PromptStart, ~AcceptMayFail
    PROVE  Spec => []UnbrokenOrder
<1>1. Init => ServerInv /\ HistInv /\ TidyInv
  BY InitServerInv, HistBegins, TidyBegins DEF TidyInv
<1>2. ServerInv /\ HistInv /\ TidyInv /\ [Next]_vars => ServerInv' /\ HistInv' /\ TidyInv'
  BY NextServerInv, HistStep, TidyStep
<1>3. ServerInv /\ HistInv /\ TidyInv => UnbrokenOrder
  BY TidyMissesNothing DEF UnbrokenOrder, HistInv, NeverOvertaken
<1> QED BY <1>1, <1>2, <1>3, PTL DEF Spec
=============================================================================
