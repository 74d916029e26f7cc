------------------------- MODULE PushSystem_proofs -------------------------
(***************************************************************************)
(* The players of one game see the same game, whatever the board, the      *)
(* number of users, their keys and the bounds.  A client that has played   *)
(* less than another has the rest on its way.  First what it means to play *)
(* a sequence of events, then the invariant.                               *)
(***************************************************************************)
EXTENDS PushSystem, PushRules_proofs

SystemEvents == Commands \cup {EndEvent}

\* What a client makes of the next event of those under way to it, and of
\* all of them: the fold of Outcome.
PlayEvent(c, event) ==
    IF ~c.running THEN c
    ELSE IF event = EndEvent THEN [c EXCEPT !.running = FALSE]
    ELSE [c EXCEPT !.game = Played(c.game, event)]

PlayAll(c, events) == Seqs!FoldLeft(PlayEvent, c, events)

InPlay(u) == [game |-> client[u].game, running |-> client[u].running]

LEMMA OutcomeIsPlayed ==
    ASSUME NEW u
    PROVE  /\ Outcome(u) = PlayAll(InPlay(u), Outstanding(u))
           /\ Outcome(u)' = PlayAll(InPlay(u)', Outstanding(u)')
<1>1. Outcome(u) = PlayAll(InPlay(u), Outstanding(u))
  BY Zenon DEF Outcome, PlayAll, InPlay, PlayEvent
<1>2. Outcome(u)' = PlayAll(InPlay(u)', Outstanding(u)')
  BY DEF Outcome, PlayAll, InPlay, PlayEvent, Seqs!FoldLeft, Seqs!MapThenFoldSet
<1> QED BY <1>1, <1>2

-----------------------------------------------------------------------------
(* The fold, taken apart.                                                  *)

LargestOf(S) == CHOOSE m \in S : \A n \in S : m >= n

\* f plays every selection of the first n events of s.
Folds(f, c, s, n) ==
    f = [S \in SUBSET (1 .. n) |->
            IF S = {} THEN c
            ELSE PlayEvent(f[S \ {LargestOf(S)}], s[LargestOf(S)])]

\* The states that c goes through when it plays s.
IsRun(r, c, s) ==
    /\ r[0] = c
    /\ \A k \in 1 .. Len(s) : r[k] = PlayEvent(r[k - 1], s[k])

LEMMA PlayAllIsFold ==
    ASSUME NEW c, NEW s \in Seq(SystemEvents)
    PROVE  PlayAll(c, s) = (CHOOSE f : Folds(f, c, s, Len(s)))[1 .. Len(s)]
<1>1. DOMAIN s = 1 .. Len(s)
  OBVIOUS
<1> QED BY <1>1 DEF PlayAll, Folds, LargestOf, Seqs!FoldLeft, Seqs!MapThenFoldSet, Seqs!Max

LEMMA LargestIs ==
    ASSUME NEW n \in Nat \ {0}, NEW S \in SUBSET (1 .. n), n \in S
    PROVE  LargestOf(S) = n
<1>1. \A k \in S : k \in Nat /\ n >= k
  OBVIOUS
<1>2. ASSUME NEW m \in S, \A k \in S : m >= k PROVE m = n
  BY <1>1, <1>2
<1> QED BY <1>1, <1>2 DEF LargestOf

\* The largest member of a set of indices is one of them.
LEMMA LargestIn ==
    ASSUME NEW n \in Nat, NEW S \in SUBSET (1 .. n), S # {}
    PROVE  LargestOf(S) \in S
<1>1. Last(S) \in S /\ \A k \in S : k <= Last(S)
  BY LastIsLargest
<1> QED BY <1>1 DEF LargestOf

\* Every sequence can be played.
LEMMA FoldExists ==
    ASSUME NEW c, NEW s
    PROVE  \A n \in Nat : \E f : Folds(f, c, s, n)
<1> DEFINE Good == {n \in Nat : \E f : Folds(f, c, s, n)}
<1>1. 0 \in Good
  <2>1. Folds([S \in SUBSET (1 .. 0) |-> c], c, s, 0)
    BY DEF Folds
  <2> QED BY <2>1
<1>2. ASSUME NEW n \in Nat, n \in Good PROVE n + 1 \in Good
  <2>1. PICK f : Folds(f, c, s, n)
    BY <1>2
  <2> DEFINE g == [S \in SUBSET (1 .. n + 1) |->
                      IF n + 1 \in S THEN PlayEvent(f[S \ {n + 1}], s[n + 1]) ELSE f[S]]
  <2>2. ASSUME NEW S \in SUBSET (1 .. n + 1), n + 1 \in S
        PROVE  g[S] = PlayEvent(g[S \ {LargestOf(S)}], s[LargestOf(S)])
    <3>1. LargestOf(S) = n + 1 /\ S \ {n + 1} \in SUBSET (1 .. n + 1)
      BY <2>2, LargestIs
    <3> QED BY <2>2, <3>1
  <2>3. ASSUME NEW S \in SUBSET (1 .. n + 1), n + 1 \notin S, S # {}
        PROVE  g[S] = PlayEvent(g[S \ {LargestOf(S)}], s[LargestOf(S)])
    <3>1. S \in SUBSET (1 .. n) /\ S \ {LargestOf(S)} \in SUBSET (1 .. n)
      <4>1. \A k \in S : k \in 1 .. n
        BY <2>3
      <4> QED BY <4>1
    <3>2. g[S] = f[S] /\ g[S \ {LargestOf(S)}] = f[S \ {LargestOf(S)}]
      BY <2>3, <3>1
    <3>3. f[S] = PlayEvent(f[S \ {LargestOf(S)}], s[LargestOf(S)])
      BY <2>1, <2>3, <3>1 DEF Folds
    <3> QED BY <3>2, <3>3
  <2>4. g[{}] = c
    <3>1. f[{}] = c
      BY <2>1 DEF Folds
    <3> QED BY <3>1
  <2>5. Folds(g, c, s, n + 1)
    <3> DEFINE h == [S \in SUBSET (1 .. n + 1) |->
                        IF S = {} THEN c
                        ELSE PlayEvent(g[S \ {LargestOf(S)}], s[LargestOf(S)])]
    <3>1. \A S \in SUBSET (1 .. n + 1) : g[S] = h[S]
      BY <2>2, <2>3, <2>4
    <3>2. g = h
      BY <3>1
    <3> QED BY <3>2 DEF Folds
  <2> QED BY <2>5
<1>3. Nat \subseteq Good
  BY <1>1, <1>2, EveryNumber
<1> QED BY <1>3

\* A fold goes through a run.
LEMMA PlayAllRuns ==
    ASSUME NEW c, NEW s \in Seq(SystemEvents)
    PROVE  \E r : IsRun(r, c, s) /\ PlayAll(c, s) = r[Len(s)]
<1> DEFINE f == CHOOSE g : Folds(g, c, s, Len(s))
           r == [k \in 0 .. Len(s) |-> f[1 .. k]]
<1>1. Folds(f, c, s, Len(s))
  BY FoldExists
<1> HIDE DEF f
<1>2. r[0] = c
  <2>1. 1 .. 0 = {} /\ 0 \in 0 .. Len(s)
    OBVIOUS
  <2> QED BY <1>1, <2>1 DEF Folds
<1>3. ASSUME NEW k \in 1 .. Len(s) PROVE r[k] = PlayEvent(r[k - 1], s[k])
  <2>1. 1 .. k \in SUBSET (1 .. Len(s)) /\ 1 .. k # {} /\ k \in Nat \ {0}
    <3>1. Len(s) \in Nat /\ k \in Nat \ {0} /\ k \in 1 .. k
      OBVIOUS
    <3>2. \A j \in 1 .. k : j \in 1 .. Len(s)
      BY <3>1
    <3> QED BY <3>1, <3>2
  <2>2. LargestOf(1 .. k) = k
    BY <2>1, LargestIs
  <2>3. (1 .. k) \ {k} = 1 .. (k - 1)
    OBVIOUS
  <2>4. f[1 .. k] = PlayEvent(f[1 .. (k - 1)], s[k])
    BY <1>1, <2>1, <2>2, <2>3 DEF Folds
  <2> QED BY <2>4
<1>4. PlayAll(c, s) = r[Len(s)]
  BY PlayAllIsFold DEF f
<1> QED BY <1>2, <1>3, <1>4 DEF IsRun

\* The run decides the outcome.
LEMMA RunDecides ==
    ASSUME NEW c, NEW s \in Seq(SystemEvents), NEW r, IsRun(r, c, s)
    PROVE  PlayAll(c, s) = r[Len(s)]
<1>1. PICK q : IsRun(q, c, s) /\ PlayAll(c, s) = q[Len(s)]
  BY PlayAllRuns
<1> DEFINE Same == {k \in Nat : k <= Len(s) => q[k] = r[k]}
<1>2. 0 \in Same
  BY <1>1 DEF IsRun
<1>3. ASSUME NEW k \in Nat, k \in Same PROVE k + 1 \in Same
  <2>1. CASE k + 1 <= Len(s)
    <3>1. k + 1 \in 1 .. Len(s) /\ (k + 1) - 1 = k /\ q[k] = r[k]
      BY <1>3, <2>1
    <3> QED BY <1>1, <3>1 DEF IsRun
  <2> QED BY <2>1
<1>4. Nat \subseteq Same
  BY <1>2, <1>3, EveryNumber
<1> QED BY <1>1, <1>4

\* An event that joins those under way is played last.
LEMMA PlayAllAppend ==
    ASSUME NEW c, NEW s \in Seq(SystemEvents), NEW e \in SystemEvents
    PROVE  PlayAll(c, Append(s, e)) = PlayEvent(PlayAll(c, s), e)
<1>1. PICK r : IsRun(r, c, s) /\ PlayAll(c, s) = r[Len(s)]
  BY PlayAllRuns
<1> DEFINE n == Len(s)
           t == Append(s, e)
           q == [k \in 0 .. n + 1 |-> IF k = n + 1 THEN PlayEvent(r[n], e) ELSE r[k]]
<1>2. /\ t \in Seq(SystemEvents) /\ Len(t) = n + 1 /\ t[n + 1] = e
      /\ \A k \in 1 .. n : t[k] = s[k]
  OBVIOUS
<1>3. IsRun(q, c, t)
  <2>1. q[0] = c
    BY <1>1 DEF IsRun
  <2>2. ASSUME NEW k \in 1 .. n + 1 PROVE q[k] = PlayEvent(q[k - 1], t[k])
    <3>1. CASE k = n + 1
      BY <1>2, <3>1
    <3>2. CASE k \in 1 .. n
      <4>1. r[k] = PlayEvent(r[k - 1], s[k])
        BY <1>1, <3>2 DEF IsRun
      <4>2. q[k] = r[k] /\ q[k - 1] = r[k - 1] /\ t[k] = s[k]
        BY <1>2, <3>2
      <4> QED BY <4>1, <4>2
    <3> QED BY <3>1, <3>2
  <2> QED BY <1>2, <2>1, <2>2 DEF IsRun
<1>4. PlayAll(c, t) = q[n + 1]
  BY <1>2, <1>3, RunDecides
<1> QED BY <1>1, <1>4

\* To play the first event is to leave the others to be played.
LEMMA PlayAllHead ==
    ASSUME NEW c, NEW s \in Seq(SystemEvents), s # <<>>
    PROVE  PlayAll(c, s) = PlayAll(PlayEvent(c, Head(s)), Tail(s))
<1> DEFINE d == PlayEvent(c, Head(s))
           t == Tail(s)
           n == Len(t)
<1>1. /\ t \in Seq(SystemEvents) /\ Len(s) = n + 1 /\ Head(s) = s[1]
      /\ n \in Nat /\ \A k \in 1 .. n : t[k] = s[k + 1]
  OBVIOUS
<1>2. PICK r : IsRun(r, d, t) /\ PlayAll(d, t) = r[n]
  BY <1>1, PlayAllRuns
<1> DEFINE q == [k \in 0 .. n + 1 |-> IF k = 0 THEN c ELSE r[k - 1]]
<1>3. IsRun(q, c, s)
  <2>1. q[0] = c
    BY <1>1
  <2>2. ASSUME NEW k \in 1 .. n + 1 PROVE q[k] = PlayEvent(q[k - 1], s[k])
    <3>1. CASE k = 1
      BY <1>1, <1>2, <3>1 DEF IsRun
    <3>2. CASE k # 1
      <4>1. /\ k - 1 \in 1 .. n /\ (k - 1) - 1 = k - 2 /\ k - 1 \in 0 .. n + 1
            /\ k - 1 # 0 /\ (k - 1) + 1 = k
        BY <1>1, <3>2
      <4>2. r[k - 1] = PlayEvent(r[(k - 1) - 1], t[k - 1])
        BY <1>2, <4>1 DEF IsRun
      <4>3. t[k - 1] = s[k]
        BY <1>1, <4>1
      <4>4. q[k] = r[k - 1] /\ q[k - 1] = r[(k - 1) - 1]
        BY <1>1, <4>1
      <4> QED BY <4>2, <4>3, <4>4
    <3> QED BY <3>1, <3>2
  <2> QED BY <1>1, <2>1, <2>2 DEF IsRun
<1>4. PlayAll(c, s) = q[n + 1]
  BY <1>1, <1>3, RunDecides
<1> QED BY <1>1, <1>2, <1>4

-----------------------------------------------------------------------------
(* The invariant.                                                          *)

Loops ==
    [game : Games, info : {"welcome", "score", "over"}, running : BOOLEAN,
     end_sent : BOOLEAN]

SystemTypeOK ==
    /\ client \in [Users -> Loops]
    /\ uplink \in [Users -> Seq(SystemEvents)]
    /\ sending \in [event : SystemEvents, from : Users \cup {-1}, left : SUBSET Users]
    /\ inbox \in [Users -> Seq(SystemEvents)]
    /\ link \in [Users -> {"open", "closed", "reset", "broken"}]

\* Every client's board is the one that update_cell paints; only a thread that
\* broadcasts has somebody left to send to, and it has begun while everybody
\* was connected.
SystemInv ==
    /\ SystemTypeOK
    /\ \A u \in Users : GameInv(client[u].game)
    /\ sending.from = -1 => sending = Idle
    /\ sending # Idle => \A u \in Users : link[u] = "open"

LEMMA InitSystemInv == SystemInit => SystemInv /\ SameGame
<1> SUFFICES ASSUME SystemInit PROVE SystemInv /\ SameGame
  OBVIOUS
<1>1. GameInv(InitialGame)
  <2>1. Positions(UserStart, ItemStart)
    BY PlaceAssumption DEF Positions
  <2>2. UpdateCell(UserStart, ItemStart) \in [Cells -> BoardValues]
    BY <2>1, UpdateCellType
  <2> QED BY <2>1, <2>2, SizeAssumption DEF InitialGame, Games, Positions, GameInv
<1>2. SystemTypeOK
  <2>1. InitialGame \in Games
    BY <1>1 DEF GameInv
  <2> QED BY <2>1 DEF SystemInit, SystemTypeOK, Loops, Idle, SystemEvents
<1>3. SystemInv
  BY <1>1, <1>2 DEF SystemInit, SystemInv
<1>4. ASSUME NEW u \in Users, NEW v \in Users
      PROVE  InPlay(u) = InPlay(v) /\ Outstanding(u) = Outstanding(v)
  BY DEF SystemInit, InPlay, Outstanding, Idle
<1> QED BY <1>3, <1>4, OutcomeIsPlayed DEF SameGame

(***************************************************************************)
(* The game loop is an instance of PushGame for every user; its copy of    *)
(* the rules is the same rules.                                            *)
(***************************************************************************)
LEMMA GameConstants ==
    ASSUME NEW u
    PROVE  /\ Game(u)!Users = Users /\ Game(u)!Items = Items /\ Game(u)!Cells = Cells
           /\ Game(u)!Removed = Removed /\ Game(u)!Commands = Commands
           /\ Game(u)!EMPTY = EMPTY /\ Game(u)!BLOCK = BLOCK /\ Game(u)!ITEM = ITEM
           /\ Game(u)!BASE = BASE
BY DEF Game!Users, Users, Game!Items, Items, Game!Cells, Cells, Game!Removed,
       Removed, Game!Commands, Commands, Game!EMPTY, EMPTY, Game!BLOCK, BLOCK,
       Game!ITEM, ITEM, Game!BASE, BASE

LEMMA GameNumbers ==
    ASSUME NEW w, NEW n
    PROVE  /\ Game(w)!UserId(n) = UserId(n) /\ Game(w)!BaseId(n) = BaseId(n)
           /\ Game(w)!ItemIdxToId(n) = ItemIdxToId(n)
           /\ Game(w)!ItemIdToIdx(n) = ItemIdToIdx(n)
           /\ Game(w)!UserOf(n) = UserOf(n)
BY DEF Game!UserId, UserId, Game!BaseId, BaseId, Game!ItemIdxToId, ItemIdxToId,
       Game!ItemIdToIdx, ItemIdToIdx, Game!UserOf, UserOf

LEMMA GameBoard ==
    ASSUME NEW w, NEW ul, NEW il
    PROVE  Game(w)!UpdateCell(ul, il) = UpdateCell(ul, il)
<1>1. ASSUME NEW S PROVE Game(w)!Last(S) = Last(S)
  BY DEF Game!Last, Last
<1>2. ASSUME NEW c
      PROVE  /\ Game(w)!PaintersAt(ul, c) = PaintersAt(ul, c)
             /\ Game(w)!ItemsAt(il, c) = ItemsAt(il, c)
  BY GameConstants DEF Game!PaintersAt, PaintersAt, Game!ItemsAt, ItemsAt
<1>3. ASSUME NEW c PROVE Game(w)!UserPaint(ul, c) = UserPaint(ul, c)
  BY <1>1, <1>2, GameNumbers, GameConstants DEF Game!UserPaint, UserPaint
<1>4. ASSUME NEW c PROVE Game(w)!CellPaint(ul, il, c) = CellPaint(ul, il, c)
  BY <1>1, <1>2, <1>3, GameNumbers, GameConstants DEF Game!CellPaint, CellPaint
<1> QED BY <1>4, GameConstants DEF Game!UpdateCell, UpdateCell

LEMMA GameTargets ==
    ASSUME NEW w, NEW g, NEW cmd
    PROVE  /\ Game(w)!Target(g, cmd) = Target(g, cmd)
           /\ Game(w)!ItemTarget(g, cmd) = ItemTarget(g, cmd)
BY DEF Game!Target, Target, Game!ItemTarget, ItemTarget, Game!Ahead, Ahead,
       Game!UserOf, UserOf, Game!UP, UP, Game!DOWN, DOWN, Game!LEFT, LEFT,
       Game!RIGHT, RIGHT

LEMMA GameUpdate ==
    ASSUME NEW w, NEW g, NEW id, NEW c
    PROVE  Game(w)!UpdateModel(g, id, c) = UpdateModel(g, id, c)
BY GameBoard, GameConstants, GameNumbers DEF Game!UpdateModel, UpdateModel

LEMMA GameRules ==
    ASSUME NEW w, NEW g, NEW cmd, NEW m
    PROVE  /\ Game(w)!CheckValidation(g, cmd) = CheckValidation(g, cmd)
           /\ Game(w)!Move(g, cmd, m) = Move(g, cmd, m)
<1>1. Game(w)!CheckValidation(g, cmd) = CheckValidation(g, cmd)
  BY GameTargets, GameConstants, GameNumbers
     DEF Game!CheckValidation, CheckValidation, Game!Walkable, Walkable
<1>2. Game(w)!MoveItem(g, cmd, m) = MoveItem(g, cmd, m)
  <2>1. \A h, v : Game(w)!ScoreUp(h, v) = ScoreUp(h, v)
    BY DEF Game!ScoreUp, ScoreUp
  <2> QED BY <2>1, GameTargets, GameUpdate, GameConstants, GameNumbers
          DEF Game!MoveItem, MoveItem
<1>3. Game(w)!Move(g, cmd, m) = Move(g, cmd, m)
  BY <1>2, GameTargets, GameUpdate, GameNumbers DEF Game!Move, Move
<1> QED BY <1>1, <1>3

-----------------------------------------------------------------------------
(* One step at a time.                                                     *)

\* handle_cmd keeps a client in order, and is one event of Outcome.
LEMMA HandledIsPlayed ==
    ASSUME SystemInv, NEW u \in Users, client[u].running, NEW event \in SystemEvents
    PROVE  LET d == Handled(u, event) IN
           /\ d \in Loops /\ GameInv(d.game)
           /\ [game |-> d.game, running |-> d.running] = PlayEvent(InPlay(u), event)
<1> DEFINE c == client[u]
           d == Handled(u, event)
           movement == CheckValidation(c.game, event)
<1>1. c \in Loops /\ GameInv(c.game)
  BY DEF SystemInv, SystemTypeOK
<1>2. CASE event = EndEvent
  <2>1. d = [c EXCEPT !.running = FALSE]
    BY <1>2 DEF Handled
  <2> QED BY <1>1, <1>2, <2>1 DEF Loops, PlayEvent, InPlay
<1>3. CASE event # EndEvent /\ movement = 0
  <2>1. d = c /\ Played(c.game, event) = c.game
    BY <1>3 DEF Handled, Played
  <2> QED BY <1>1, <1>3, <2>1 DEF Loops, PlayEvent, InPlay
<1>4. CASE event # EndEvent /\ movement # 0
  <2> DEFINE g == Move(c.game, event, movement)
  <2>1. event \in Commands
    BY <1>4 DEF SystemEvents
  <2>2. GameInv(g) /\ g \in Games
    BY <1>1, <1>4, <2>1, MoveCases DEF GameInv
  <2>3. Played(c.game, event) = g
    BY <1>4 DEF Played
  <2>4. d = [c EXCEPT !.game = g, !.info = Game(u)!InfoAfter(movement, g)]
    BY <1>4, <2>3 DEF Handled
  <2>5. Game(u)!InfoAfter(movement, g) \in {"welcome", "score", "over"}
    BY <1>1 DEF Loops, Game!InfoAfter
  <2> HIDE DEF g
  <2> QED BY <1>1, <1>4, <2>2, <2>3, <2>4, <2>5 DEF Loops, PlayEvent, InPlay
<1> QED BY <1>2, <1>3, <1>4

\* What handle_cmd does is a step of the client's game loop.
LEMMA HandledIsStep ==
    ASSUME SystemInv, NEW u \in Users, HandleCmd(u)
    PROVE  \A w \in Users : [Game(w)!Next]_(Game(w)!vars)
<1> DEFINE c == client[u]
           event == Head(inbox[u])
           movement == CheckValidation(c.game, event)
<1>1. /\ c \in Loops /\ GameInv(c.game) /\ event \in SystemEvents /\ c.running
      /\ client \in [Users -> Loops]
      /\ client' = [client EXCEPT ![u] = Handled(u, event)]
  BY DEF SystemInv, SystemTypeOK, HandleCmd
<1>2. ASSUME NEW w \in Users, w # u PROVE UNCHANGED Game(w)!vars
  BY <1>1, <1>2 DEF Game!vars
<1>3. CASE event = EndEvent
  <2>1. client'[u] = [c EXCEPT !.running = FALSE]
    BY <1>1, <1>3 DEF Handled
  <2>2. Game(u)!HandleEnd
    BY <1>1, <2>1 DEF Game!HandleEnd, Loops
  <2> QED BY <1>2, <2>2 DEF Game!Next
<1>4. CASE event # EndEvent /\ movement = 0
  <2>1. client'[u] = c
    BY <1>1, <1>4 DEF Handled
  <2> QED BY <1>2, <2>1 DEF Game!vars
<1>5. CASE event # EndEvent /\ movement # 0
  <2> DEFINE g == Move(c.game, event, movement)
  <2>1. client'[u] = [c EXCEPT !.game = g, !.info = Game(u)!InfoAfter(movement, g)]
    BY <1>1, <1>5 DEF Handled, Played
  <2>2. /\ event \in Game(u)!Commands
        /\ Game(u)!CheckValidation(c.game, event) = movement
        /\ Game(u)!Move(c.game, event, movement) = g
    BY <1>1, <1>5, GameRules, GameConstants DEF SystemEvents
  <2> HIDE DEF g
  <2>3. /\ client'[u].game = g /\ client'[u].info = Game(u)!InfoAfter(movement, g)
        /\ client'[u].running = c.running /\ client'[u].end_sent = c.end_sent
    BY <1>1, <2>1 DEF Loops
  <2>4. Game(u)!HandleMove(event)
    BY <1>1, <1>5, <2>2, <2>3 DEF Game!HandleMove
  <2> QED BY <1>2, <2>2, <2>4 DEF Game!Next
<1> QED BY <1>3, <1>4, <1>5

Follows(u) == link[u] \in {"open", "closed"}

\* What is under way to a client is a sequence of events.
LEMMA OutstandingType ==
    ASSUME SystemTypeOK, NEW u \in Users
    PROVE  Outstanding(u) \in Seq(SystemEvents)
BY DEF SystemTypeOK, Outstanding

\* The clients stay on the way to the same game when nobody's outcome changes.
LEMMA OutcomesKept ==
    ASSUME SameGame,
           \A u \in Users : Follows(u)' => Follows(u) /\ Outcome(u)' = Outcome(u)
    PROVE  SameGame'
<1> SUFFICES ASSUME NEW u \in Users, NEW v \in Users, Follows(u)', Follows(v)'
             PROVE  Outcome(u)' = Outcome(v)'
  BY Zenon DEF SameGame, Follows
<1>1. Outcome(u)' = Outcome(u) /\ Outcome(v)' = Outcome(v) /\ Follows(u) /\ Follows(v)
  OBVIOUS
<1>2. Outcome(u) = Outcome(v)
  BY <1>1, Zenon DEF SameGame, Follows
<1> QED BY <1>1, <1>2

\* One event is taken from the front, and the game goes on from there.
LEMMA HandleKeeps ==
    ASSUME SystemInv, SameGame, NEW u \in Users, HandleCmd(u)
    PROVE  SystemInv' /\ SameGame'
<1> DEFINE event == Head(inbox[u])
           d == Handled(u, event)
<1>1. /\ SystemTypeOK /\ inbox[u] # <<>> /\ inbox[u] \in Seq(SystemEvents)
      /\ client[u].running /\ event \in SystemEvents
      /\ client' = [client EXCEPT ![u] = d]
      /\ inbox' = [inbox EXCEPT ![u] = Tail(@)]
      /\ UNCHANGED <<uplink, sending, link>>
  BY DEF SystemInv, SystemTypeOK, HandleCmd
<1>2. /\ d \in Loops /\ GameInv(d.game)
      /\ [game |-> d.game, running |-> d.running] = PlayEvent(InPlay(u), event)
  BY <1>1, HandledIsPlayed
<1> HIDE DEF d
<1>3. SystemTypeOK'
  BY <1>1, <1>2 DEF SystemTypeOK
<1>4. SystemInv'
  BY <1>1, <1>2, <1>3 DEF SystemInv, SystemTypeOK, Idle
<1>5. ASSUME NEW v \in Users PROVE Outcome(v)' = Outcome(v)
  <2>1. CASE v # u
    <3>1. InPlay(v)' = InPlay(v) /\ Outstanding(v)' = Outstanding(v)
      BY <1>1, <2>1 DEF SystemTypeOK, InPlay, Outstanding
    <3> QED BY <3>1, OutcomeIsPlayed
  <2>2. CASE v = u
    <3>1. InPlay(u)' = PlayEvent(InPlay(u), event)
      BY <1>1, <1>2 DEF SystemTypeOK, InPlay
    <3>2. /\ Outstanding(u) # <<>> /\ Head(Outstanding(u)) = event
          /\ Outstanding(u)' = Tail(Outstanding(u))
      BY <1>1 DEF SystemTypeOK, Outstanding
    <3>3. PlayAll(InPlay(u), Outstanding(u))
             = PlayAll(PlayEvent(InPlay(u), event), Tail(Outstanding(u)))
      BY <1>1, <3>2, OutstandingType, PlayAllHead
    <3> QED BY <2>2, <3>1, <3>2, <3>3, OutcomeIsPlayed
  <2> QED BY <2>1, <2>2
<1>6. SameGame'
  BY <1>1, <1>5, OutcomesKept DEF Follows
<1> QED BY <1>4, <1>6

\* A key changes nobody's game, and may take its client out of the game.
LEMMA KeyKeeps ==
    ASSUME SystemInv, SameGame, NEW u \in Users, KeyPress(u)
    PROVE  SystemInv' /\ SameGame'
<1>1. /\ SystemTypeOK /\ inbox \in [Users -> Seq(SystemEvents)]
      /\ UNCHANGED <<client, sending>>
  BY DEF SystemInv, SystemTypeOK, KeyPress
<1>2. CASE /\ link[u] = "open"
           /\ \E cmd \in Keys[u] : uplink' = [uplink EXCEPT ![u] = Append(@, cmd)]
           /\ UNCHANGED <<client, sending, inbox, link>>
  <2>1. PICK cmd \in Keys[u] : uplink' = [uplink EXCEPT ![u] = Append(@, cmd)]
    BY <1>2
  <2>2. cmd \in SystemEvents
    BY BoundsAssumption DEF SystemEvents
  <2>3. uplink' \in [Users -> Seq(SystemEvents)]
    BY <1>1, <2>1, <2>2 DEF SystemTypeOK
  <2>4. SystemInv'
    BY <1>2, <2>3 DEF SystemInv, SystemTypeOK, Idle
  <2>5. ASSUME NEW v \in Users PROVE Outcome(v)' = Outcome(v)
    <3>1. InPlay(v)' = InPlay(v) /\ Outstanding(v)' = Outstanding(v)
      BY <1>2 DEF InPlay, Outstanding
    <3> QED BY <3>1, OutcomeIsPlayed
  <2> QED BY <1>2, <2>4, <2>5, OutcomesKept DEF Follows
<1>3. ASSUME NEW how \in {"reset", "broken"}, NEW kept \in Seq(SystemEvents),
             link' = [link EXCEPT ![u] = how],
             inbox' = [inbox EXCEPT ![u] = kept], link[u] # "open",
             UNCHANGED <<client, uplink, sending>>
      PROVE  SystemInv' /\ SameGame'
  <2>1. SystemInv'
    <3>1. sending = Idle /\ sending' = Idle
      BY <1>3 DEF SystemInv
    <3>2. SystemTypeOK'
      BY <1>1, <1>3 DEF SystemTypeOK
    <3> QED BY <1>3, <3>1, <3>2 DEF SystemInv, Idle
  <2>2. ASSUME NEW v \in Users, Follows(v)' PROVE Follows(v) /\ Outcome(v)' = Outcome(v)
    <3>1. v # u /\ Follows(v)
      BY <1>1, <1>3, <2>2 DEF Follows, SystemTypeOK
    <3>2. InPlay(v)' = InPlay(v) /\ Outstanding(v)' = Outstanding(v)
      BY <1>1, <1>3, <3>1 DEF InPlay, Outstanding
    <3> QED BY <3>1, <3>2, OutcomeIsPlayed
  <2> QED BY <2>1, <2>2, OutcomesKept
<1>4. \A kept \in Kept(inbox[u]) : kept \in Seq(SystemEvents)
  BY <1>1 DEF Kept
<1>5. CASE /\ link[u] # "open" /\ link' = [link EXCEPT ![u] = "reset"]
           /\ \E kept \in Kept(inbox[u]) : inbox' = [inbox EXCEPT ![u] = kept]
           /\ UNCHANGED <<client, uplink, sending>>
  BY <1>3, <1>4, <1>5
<1>6. CASE /\ link[u] # "open" /\ link' = [link EXCEPT ![u] = "broken"]
           /\ UNCHANGED <<client, uplink, sending, inbox>>
  <2>1. inbox' = [inbox EXCEPT ![u] = inbox[u]] /\ inbox[u] \in Seq(SystemEvents)
    BY <1>1, <1>6
  <2> QED BY <1>3, <1>6, <2>1
<1> QED BY <1>2, <1>5, <1>6 DEF KeyPress

\* The alarm writes its end event and a label.
LEMMA TimeoutKeeps ==
    ASSUME SystemInv, SameGame, NEW u \in Users, Timeout(u)
    PROVE  SystemInv' /\ SameGame'
<1>1. /\ SystemTypeOK
      /\ client' = [client EXCEPT ![u].end_sent = TRUE, ![u].info = "over"]
      /\ uplink' = [uplink EXCEPT ![u] = Append(@, EndEvent)]
      /\ UNCHANGED <<sending, inbox, link>>
  BY DEF SystemInv, Timeout
<1>2. \A v \in Users : /\ client'[v] \in Loops /\ client'[v].game = client[v].game
                        /\ client'[v].running = client[v].running
  BY <1>1 DEF SystemTypeOK, Loops
<1>3. client' \in [Users -> Loops] /\ uplink' \in [Users -> Seq(SystemEvents)]
  BY <1>1, <1>2 DEF SystemTypeOK, SystemEvents
<1>4. SystemInv'
  BY <1>1, <1>2, <1>3 DEF SystemInv, SystemTypeOK, Idle
<1>5. ASSUME NEW v \in Users PROVE Outcome(v)' = Outcome(v)
  <2>1. InPlay(v)' = InPlay(v) /\ Outstanding(v)' = Outstanding(v)
    BY <1>1, <1>2 DEF InPlay, Outstanding
  <2> QED BY <2>1, OutcomeIsPlayed
<1> QED BY <1>1, <1>4, <1>5, OutcomesKept DEF Follows

\* A broadcast puts the same event behind what is under way to each client.
LEMMA BroadcastKeeps ==
    ASSUME SystemInv, SameGame, NEW u \in Users, Broadcast(u)
    PROVE  SystemInv' /\ SameGame'
<1> DEFINE event == Head(uplink[u])
<1>1. /\ SystemTypeOK /\ sending = Idle /\ event \in SystemEvents
      /\ sending' = [event |-> event, from |-> u, left |-> Users]
      /\ uplink' = [uplink EXCEPT ![u] = Tail(@)]
      /\ UNCHANGED <<client, inbox, link>>
      /\ \A v \in Users : link[v] = "open" /\ Follows(v)
  BY DEF SystemInv, SystemTypeOK, Broadcast, Follows
<1>2. SystemInv'
  <2>1. uplink' \in [Users -> Seq(SystemEvents)]
    BY <1>1 DEF SystemTypeOK, Broadcast
  <2>2. u # -1
    BY SizeAssumption DEF Users
  <2>3. SystemTypeOK'
    BY <1>1, <2>1 DEF SystemTypeOK
  <2>4. sending'.from # -1 /\ \A v \in Users : link'[v] = "open"
    BY <1>1, <2>2
  <2> QED BY <1>1, <2>3, <2>4 DEF SystemInv
<1>3. ASSUME NEW v \in Users PROVE Outcome(v)' = PlayEvent(Outcome(v), event)
  <2>1. InPlay(v)' = InPlay(v)
    BY <1>1 DEF InPlay
  <2>2. Outstanding(v)' = Append(Outstanding(v), event)
    BY <1>1 DEF SystemTypeOK, Outstanding, Idle
  <2>3. PlayAll(InPlay(v), Append(Outstanding(v), event))
           = PlayEvent(PlayAll(InPlay(v), Outstanding(v)), event)
    BY <1>1, OutstandingType, PlayAllAppend
  <2> QED BY <2>1, <2>2, <2>3, OutcomeIsPlayed
<1>4. ASSUME NEW v \in Users, NEW w \in Users PROVE Outcome(v) = Outcome(w)
  BY <1>1, Zenon DEF SameGame, Follows
<1>5. ASSUME NEW v \in Users, NEW w \in Users PROVE Outcome(v)' = Outcome(w)'
  BY <1>3, <1>4
<1>6. SameGame'
  BY <1>5, Zenon DEF SameGame
<1> QED BY <1>2, <1>6

\* The loop of send_msg_all moves the event on, from the thread to the client.
LEMMA SendOneKeeps ==
    ASSUME SystemInv, SameGame, SendOne
    PROVE  SystemInv' /\ SameGame'
<1>1. SystemTypeOK /\ sending.left # {} /\ sending.left \in SUBSET Users
  BY DEF SystemInv, SystemTypeOK, SendOne
<1>2. PICK v \in sending.left :
        /\ inbox' = [inbox EXCEPT ![v] = Append(@, sending.event)]
        /\ sending' = [sending EXCEPT !.left = @ \ {v}]
        /\ UNCHANGED <<client, uplink, link>>
  <2>1. Min(sending.left) \in sending.left
    <3>1. sending.left \in SUBSET Nat
      BY <1>1, SizeAssumption DEF Users
    <3>2. \E m \in sending.left : \A n \in sending.left : m <= n
      BY <1>1, <3>1, SmallestMember
    <3> QED BY <3>2 DEF Min
  <2> QED BY <2>1 DEF SendOne
<1>3. SystemInv'
  <2>1. SystemTypeOK'
    <3>1. inbox' \in [Users -> Seq(SystemEvents)]
      BY <1>1, <1>2 DEF SystemTypeOK
    <3>2. sending' \in [event : SystemEvents, from : Users \cup {-1}, left : SUBSET Users]
      BY <1>1, <1>2 DEF SystemTypeOK
    <3> QED BY <1>1, <1>2, <3>1, <3>2 DEF SystemTypeOK
  <2>2. sending # Idle
    BY <1>1 DEF Idle
  <2>3. sending.from # -1 /\ sending'.from = sending.from
    BY <1>1, <1>2, <2>2 DEF SystemInv, SystemTypeOK
  <2> QED BY <1>2, <2>1, <2>2, <2>3 DEF SystemInv
<1>4. ASSUME NEW w \in Users PROVE Outcome(w)' = Outcome(w)
  <2>1. InPlay(w)' = InPlay(w)
    BY <1>2 DEF InPlay
  <2>2. Outstanding(w)' = Outstanding(w)
    <3>1. /\ sending'.left = sending.left \ {v} /\ sending'.event = sending.event
          /\ sending.event \in SystemEvents /\ inbox[w] \in Seq(SystemEvents)
          /\ v \in Users
      BY <1>1, <1>2 DEF SystemTypeOK
    <3>2. CASE w = v
      <4>1. inbox'[w] = Append(inbox[w], sending.event)
        BY <1>1, <1>2, <3>2 DEF SystemTypeOK
      <4> QED BY <3>1, <3>2, <4>1 DEF Outstanding
    <3>3. CASE w # v
      <4>1. inbox'[w] = inbox[w]
        BY <1>1, <1>2, <3>3 DEF SystemTypeOK
      <4> QED BY <3>1, <3>3, <4>1 DEF Outstanding
    <3> QED BY <3>2, <3>3
  <2> QED BY <2>1, <2>2, OutcomeIsPlayed
<1> QED BY <1>2, <1>3, <1>4, OutcomesKept DEF Follows

\* The end of the loop, where an end event closes one connection.
LEMMA SendDoneKeeps ==
    ASSUME SystemInv, SameGame, SendDone
    PROVE  SystemInv' /\ SameGame'
<1> DEFINE u == sending.from
<1>1. /\ SystemTypeOK /\ sending.left = {} /\ sending' = Idle /\ u \in Users
      /\ UNCHANGED <<client, uplink>>
  BY DEF SystemInv, SystemTypeOK, SendDone
<1>2. /\ \A v \in Users : v # u => link'[v] = link[v] /\ inbox'[v] = inbox[v]
      /\ link'[u] = link[u] \/ link'[u] \in {"closed", "reset"}
      /\ link'[u] # "reset" => inbox'[u] = inbox[u]
      /\ link' \in [Users -> {"open", "closed", "reset", "broken"}]
      /\ inbox' \in [Users -> Seq(SystemEvents)]
  <2>1. \A kept \in Kept(inbox[u]) : kept \in Seq(SystemEvents)
    BY <1>1 DEF SystemTypeOK, Kept
  <2> QED BY <1>1, <2>1 DEF SendDone, SystemTypeOK
<1>3. SystemInv'
  BY <1>1, <1>2 DEF SystemInv, SystemTypeOK, Idle, SystemEvents
<1>4. ASSUME NEW v \in Users, Follows(v)' PROVE Follows(v) /\ Outcome(v)' = Outcome(v)
  <2>1. Follows(v)
    BY DEF SystemInv, SendDone, Follows
  <2>2. inbox'[v] = inbox[v]
    BY <1>2, <1>4 DEF Follows
  <2>3. InPlay(v)' = InPlay(v) /\ Outstanding(v)' = Outstanding(v)
    BY <1>1, <2>2 DEF InPlay, Outstanding, Idle
  <2> QED BY <2>1, <2>3, OutcomeIsPlayed
<1> QED BY <1>3, <1>4, OutcomesKept

LEMMA NextSystemInv ==
    SystemInv /\ SameGame /\ [SystemNext]_systemVars => SystemInv' /\ SameGame'
<1> SUFFICES ASSUME SystemInv, SameGame, [SystemNext]_systemVars
             PROVE  SystemInv' /\ SameGame'
  OBVIOUS
<1>1. ASSUME NEW u \in Users, HandleCmd(u) PROVE SystemInv' /\ SameGame'
  BY <1>1, HandleKeeps
<1>2. ASSUME NEW u \in Users, KeyPress(u) PROVE SystemInv' /\ SameGame'
  BY <1>2, KeyKeeps
<1>3. ASSUME NEW u \in Users, Timeout(u) PROVE SystemInv' /\ SameGame'
  BY <1>3, TimeoutKeeps
<1>4. ASSUME NEW u \in Users, Broadcast(u) PROVE SystemInv' /\ SameGame'
  BY <1>4, BroadcastKeeps
<1>5. CASE SendOne
  BY <1>5, SendOneKeeps
<1>6. CASE SendDone
  BY <1>6, SendDoneKeeps
<1>7. CASE UNCHANGED systemVars
  <2>1. SystemInv'
    BY <1>7 DEF systemVars, SystemInv, SystemTypeOK, Idle
  <2>2. ASSUME NEW v \in Users PROVE Outcome(v)' = Outcome(v)
    <3>1. InPlay(v)' = InPlay(v) /\ Outstanding(v)' = Outstanding(v)
      BY <1>7 DEF systemVars, InPlay, Outstanding
    <3> QED BY <3>1, OutcomeIsPlayed
  <2> QED BY <1>7, <2>1, <2>2, OutcomesKept DEF systemVars, Follows
<1> QED BY <1>1, <1>2, <1>3, <1>4, <1>5, <1>6, <1>7 DEF SystemNext

LEMMA SystemInvAlways == SystemSpec => [](SystemInv /\ SameGame)
BY InitSystemInv, NextSystemInv, PTL DEF SystemSpec

-----------------------------------------------------------------------------
\* "receive and echo command" (handle_clnt): on every board, for any number of
\* users and any keys, whatever the others have played and a client has not is
\* on its way to it in the same order, so that boards, scores and the end of
\* the game, which each client computes for itself, come out the same.
THEOREM AllPlayOneGame == SystemSpec => []SameGame
BY SystemInvAlways, PTL

\* The types of the system: every game stays on the board, and what is under
\* way are commands of the users and end events.
THEOREM SystemTypeCorrect == SystemSpec => []SystemTypeOK
<1>1. SystemInv => SystemTypeOK
  BY DEF SystemInv
<1> QED BY <1>1, SystemInvAlways, PTL

\* Each step of the system is for each client a step of its game loop, as
\* PushGame describes it, or none (handle_cmd, handle_timeout).
LEMMA StepIsGameStep ==
    SystemInv /\ [SystemNext]_systemVars
        => [\A u \in Users : [Game(u)!Next]_(Game(u)!vars)]_client
<1> SUFFICES ASSUME SystemInv, [SystemNext]_systemVars, client' # client
             PROVE  \A w \in Users : [Game(w)!Next]_(Game(w)!vars)
  OBVIOUS
<1>1. ASSUME NEW u \in Users, HandleCmd(u)
      PROVE  \A w \in Users : [Game(w)!Next]_(Game(w)!vars)
  BY <1>1, HandledIsStep
<1>2. ASSUME NEW u \in Users, Timeout(u), NEW w \in Users
      PROVE  [Game(w)!Next]_(Game(w)!vars)
  <2>1. client \in [Users -> Loops]
    BY DEF SystemInv, SystemTypeOK
  <2>2. CASE w = u
    <3>1. Game(u)!HandleTimeout
      BY <1>2, <2>1 DEF Timeout, Game!HandleTimeout, Loops
    <3> QED BY <2>2, <3>1 DEF Game!Next
  <2>3. CASE w # u
    BY <1>2, <2>1, <2>3 DEF Timeout, Game!vars
  <2> QED BY <2>2, <2>3
<1>3. SystemNext
  BY DEF systemVars
<1>4. PICK u \in Users : HandleCmd(u) \/ Timeout(u)
  BY <1>3 DEF SystemNext, KeyPress, Broadcast, SendOne, SendDone
<1> QED BY <1>1, <1>2, <1>4

\* What the server does to a client is a game: each client on its own only
\* takes steps that PushGame allows.
THEOREM ClientsPlayTheGame == SystemSpec => EachPlaysTheGame
BY SystemInvAlways, StepIsGameStep, PTL DEF SystemSpec, EachPlaysTheGame
=============================================================================
