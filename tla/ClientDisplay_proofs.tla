------------------------ MODULE ClientDisplay_proofs ------------------------
(***************************************************************************)
(* Proofs about ClientDisplay: between two commands the screen and the     *)
(* labels tell the game, on every board and wherever the alarm has come in *)
(* between the calls that write them.  The invariant says which calls may  *)
(* still be to come, and what each of them finds in the buffer.            *)
(***************************************************************************)
EXTENDS ClientDisplay, PushGame_proofs

Calls == {Draw, ShowInfo, Sprintf(Over)}
            \cup {Sprintf(Scored(u)) : u \in Users}
            \cup {Sprintf(ScoreLine(u, n)) : u \in Users, n \in Nat}
            \cup {ShowScore(u) : u \in Users}

\* The end of every move: the board, and GAME OVER after the last item.
Closing(g) == <<Draw>> \o (IF g.current_num_item <= 0 THEN gameover ELSE <<>>)

\* What is left of score_up, in the order of its calls.
ScoreRests(u, g) ==
    {score_up(u, g), <<ShowInfo, Sprintf(ScoreLine(u, g.score[u])), ShowScore(u)>>,
     <<Sprintf(ScoreLine(u, g.score[u])), ShowScore(u)>>, <<ShowScore(u)>>}

ScoreRight(u) == \/ label_score[u] = ScoreLine(u, game.score[u])
                 \/ label_score[u] = Over /\ end_sent

OverIsUp == NumItem > 0 /\ game.current_num_item = 0 => label_info = Over

-----------------------------------------------------------------------------
(* Between two commands, and within one: the calls to come.                *)

Idle ==
    /\ todo = <<>>
    /\ changed = SecondLayer(game.map)
    /\ OverIsUp
    /\ \A u \in Users : ScoreRight(u)

Announcing ==
    /\ todo = gameover \/ (todo = <<ShowInfo>> /\ msg_info = Over)
    /\ changed = SecondLayer(game.map)
    /\ \A u \in Users : ScoreRight(u)

Closed ==
    /\ todo = Closing(game)
    /\ \A u \in Users : ScoreRight(u)

\* The alarm may leave GAME OVER where the score of u is expected; it does so
\* once, so no other score shows it.
Scoring(u) ==
    /\ \A v \in Users \ {u} : ScoreRight(v)
    /\ \E rest \in ScoreRests(u, game) :
          /\ todo = rest \o Closing(game)
          /\ rest = <<ShowScore(u)>> =>
                \/ msg_info = ScoreLine(u, game.score[u])
                \/ msg_info = Over /\ end_sent /\ \A v \in Users : label_score[v] # Over

DisplayInv ==
    /\ Inv
    /\ fixed = FirstLayer(InitialGame.map)
    /\ label_score \in [Users -> {Over} \cup {ScoreLine(u, n) : u \in Users, n \in Nat}]
    /\ ~end_sent => \A u \in Users : label_score[u] # Over
    /\ \A u, v \in Users : label_score[u] = Over /\ label_score[v] = Over => u = v
    /\ Idle \/ Announcing \/ Closed \/ \E u \in Users : Scoring(u)

-----------------------------------------------------------------------------
(* Sequences of calls.                                                     *)

LEMMA NextCall ==
    ASSUME NEW S, NEW r \in Seq(S), NEW s \in Seq(S), r # <<>>
    PROVE  /\ r \o s # <<>>
           /\ Head(r \o s) = Head(r)
           /\ Tail(r \o s) = Tail(r) \o s
<1>1. Len(r) \in Nat /\ Len(s) \in Nat /\ Len(r) > 0
  OBVIOUS
<1>2. r \o s # <<>> /\ Head(r \o s) = Head(r)
  BY <1>1
<1>3. Tail(r) \in Seq(S) /\ Len(Tail(r)) = Len(r) - 1
      /\ \A k \in 1 .. Len(r) - 1 : Tail(r)[k] = r[k + 1]
  BY <1>1
<1>4. Tail(r \o s) = Tail(r) \o s
  <2>1. r \o s \in Seq(S) /\ Len(r \o s) = Len(r) + Len(s)
    OBVIOUS
  <2>2. Tail(r \o s) \in Seq(S) /\ Len(Tail(r \o s)) = Len(r) + Len(s) - 1
    BY <1>1, <2>1
  <2>3. Tail(r) \o s \in Seq(S) /\ Len(Tail(r) \o s) = Len(r) + Len(s) - 1
    BY <1>1, <1>3
  <2>4. ASSUME NEW k \in 1 .. Len(r) + Len(s) - 1
        PROVE  Tail(r \o s)[k] = (Tail(r) \o s)[k]
    <3>1. Tail(r \o s)[k] = (r \o s)[k + 1]
      BY <1>1, <2>1
    <3>2. CASE k <= Len(r) - 1
      BY <1>1, <1>3, <3>1, <3>2
    <3>3. CASE k > Len(r) - 1
      BY <1>1, <1>3, <3>1, <3>3
    <3> QED BY <1>1, <3>2, <3>3
  <2> QED BY <2>2, <2>3, <2>4
<1> QED BY <1>2, <1>4

LEMMA NothingBefore == ASSUME NEW S, NEW s \in Seq(S) PROVE <<>> \o s = s
OBVIOUS

LEMMA Regrouped ==
    ASSUME NEW S, NEW r \in Seq(S), NEW s \in Seq(S), NEW t \in Seq(S)
    PROVE  (r \o s) \o t = r \o (s \o t)
OBVIOUS

\* What closes a move: it draws first, and then there is nothing or gameover.
LEMMA ClosingParts ==
    ASSUME NEW g
    PROVE  /\ Closing(g) \in Seq(Calls) /\ Closing(g) # <<>>
           /\ Head(Closing(g)) = Draw
           /\ Tail(Closing(g)) = IF g.current_num_item <= 0 THEN gameover ELSE <<>>
<1> DEFINE after == IF g.current_num_item <= 0 THEN gameover ELSE <<>>
<1>1. Draw \in Calls /\ Sprintf(Over) \in Calls /\ ShowInfo \in Calls
  BY DEF Calls
<1>2. <<Draw>> \in Seq(Calls) /\ <<Draw>> # <<>>
      /\ Head(<<Draw>>) = Draw /\ Tail(<<Draw>>) = <<>>
  <2> HIDE DEF Draw
  <2> QED BY <1>1
<1>3. after \in Seq(Calls)
  <2>1. <<>> \in Seq(Calls)
    OBVIOUS
  <2>2. gameover \in Seq(Calls)
    BY <1>1 DEF gameover
  <2> QED BY <2>1, <2>2
<1>4. Closing(g) = <<Draw>> \o after
  BY DEF Closing
<1>5. <<>> \o after = after
  <2> HIDE DEF after
  <2> QED BY <1>3, NothingBefore
<1>6. <<Draw>> \o after \in Seq(Calls)
  <2> HIDE DEF after
  <2> QED BY <1>2, <1>3
<1>7. <<Draw>> \o after # <<>> /\ Head(<<Draw>> \o after) = Head(<<Draw>>)
      /\ Tail(<<Draw>> \o after) = Tail(<<Draw>>) \o after
  <2> HIDE DEF after
  <2> QED BY <1>2, <1>3, NextCall
<1> QED BY <1>2, <1>4, <1>5, <1>6, <1>7

LEMMA ScoreRestParts ==
    ASSUME NEW u \in Users, NEW g \in Games, NEW rest \in ScoreRests(u, g)
    PROVE  /\ rest \in Seq(Calls) /\ rest # <<>>
           /\ \/ /\ Head(rest) = Sprintf(Scored(u))
                 /\ Tail(rest) \in ScoreRests(u, g) /\ Tail(rest) # <<ShowScore(u)>>
              \/ /\ Head(rest) = ShowInfo
                 /\ Tail(rest) \in ScoreRests(u, g) /\ Tail(rest) # <<ShowScore(u)>>
              \/ /\ Head(rest) = Sprintf(ScoreLine(u, g.score[u]))
                 /\ Tail(rest) = <<ShowScore(u)>>
              \/ /\ rest = <<ShowScore(u)>>
                 /\ Head(rest) = ShowScore(u) /\ Tail(rest) = <<>>
<1> DEFINE a == Sprintf(Scored(u))
           b == Sprintf(ScoreLine(u, g.score[u]))
           c == ShowScore(u)
           i == ShowInfo
<1>1. a \in Calls /\ b \in Calls /\ c \in Calls /\ i \in Calls
  BY DEF Calls, Games
<1>2. ScoreRests(u, g) = {<<a, i, b, c>>, <<i, b, c>>, <<b, c>>, <<c>>}
  BY DEF ScoreRests, score_up
<1> HIDE DEF a, b, c, i
<1>3. /\ <<a, i, b, c>> \in Seq(Calls) /\ <<i, b, c>> \in Seq(Calls)
      /\ <<b, c>> \in Seq(Calls) /\ <<c>> \in Seq(Calls)
  BY <1>1
<1>4. /\ Len(<<a, i, b, c>>) = 4 /\ Len(<<i, b, c>>) = 3
      /\ Len(<<b, c>>) = 2 /\ Len(<<c>>) = 1
  OBVIOUS
<1>5. /\ Head(<<a, i, b, c>>) = a /\ Tail(<<a, i, b, c>>) = <<i, b, c>>
      /\ Head(<<i, b, c>>) = i /\ Tail(<<i, b, c>>) = <<b, c>>
      /\ Head(<<b, c>>) = b /\ Tail(<<b, c>>) = <<c>>
      /\ Head(<<c>>) = c /\ Tail(<<c>>) = <<>>
  OBVIOUS
<1>6. /\ <<i, b, c>> # <<c>> /\ <<b, c>> # <<c>>
      /\ <<a, i, b, c>> # <<>> /\ <<i, b, c>> # <<>> /\ <<b, c>> # <<>> /\ <<c>> # <<>>
  BY <1>4
<1>7. /\ rest \in Seq(Calls) /\ rest # <<>>
      /\ \/ Head(rest) = a /\ Tail(rest) = <<i, b, c>>
         \/ Head(rest) = i /\ Tail(rest) = <<b, c>>
         \/ Head(rest) = b /\ Tail(rest) = <<c>>
         \/ rest = <<c>> /\ Head(rest) = c /\ Tail(rest) = <<>>
  BY <1>2, <1>3, <1>5, <1>6
<1>8. <<i, b, c>> \in ScoreRests(u, g) /\ <<b, c>> \in ScoreRests(u, g)
  BY <1>2
<1> QED BY <1>6, <1>7, <1>8 DEF a, b, c, i

\* The calls of a command, closing and all.
LEMMA CallsAre ==
    ASSUME NEW cmd, NEW m \in Int, NEW g \in Games, UserOf(cmd) \in Users
    PROVE  CallsFor(cmd, m, g) = IF m > -ITEM THEN score_up(UserOf(cmd), g) \o Closing(g)
                                 ELSE Closing(g)
<1> DEFINE u == UserOf(cmd)
           su == score_up(u, g)
           after == IF g.current_num_item <= 0 THEN gameover ELSE <<>>
           draw == <<Draw>>
<1>1. su \in Seq(Calls)
  <2>1. su \in ScoreRests(u, g)
    BY DEF ScoreRests
  <2> QED BY <2>1, ScoreRestParts
<1>2. draw \in Seq(Calls) /\ after \in Seq(Calls)
  <2>1. Draw \in Calls /\ Sprintf(Over) \in Calls /\ ShowInfo \in Calls
    BY DEF Calls
  <2>2. draw \in Seq(Calls)
    <3> HIDE DEF Draw
    <3> QED BY <2>1
  <2>3. gameover \in Seq(Calls)
    BY <2>1 DEF gameover
  <2>4. <<>> \in Seq(Calls)
    OBVIOUS
  <2> QED BY <2>2, <2>3, <2>4
<1>3. CallsFor(cmd, m, g) = ((IF m > -ITEM THEN su ELSE <<>>) \o draw) \o after
  BY DEF CallsFor
<1>4. Closing(g) = draw \o after
  BY DEF Closing
<1> HIDE DEF su, after, draw
<1>5. (su \o draw) \o after = su \o (draw \o after)
  BY <1>1, <1>2, Regrouped
<1>6. <<>> \o draw = draw
  BY <1>2, NothingBefore
<1> QED BY <1>3, <1>4, <1>5, <1>6 DEF su

LEMMA TextsDiffer ==
    /\ \A u, n : ScoreLine(u, n) # Over
    /\ Welcome # Over
<1>1. ASSUME NEW u, NEW n PROVE ScoreLine(u, n) # Over
  <2>1. Len(<<"score", u, n>>) = 3 /\ Len(<<"game over">>) = 1
    OBVIOUS
  <2> QED BY <2>1 DEF ScoreLine, Over
<1> QED BY <1>1 DEF Welcome, Over

-----------------------------------------------------------------------------
(* The steps.                                                              *)

LEMMA DisplayInitInv == DisplayInit => DisplayInv
<1> SUFFICES ASSUME DisplayInit PROVE DisplayInv
  OBVIOUS
<1>1. Inv /\ game = InitialGame
  BY InitInv DEF DisplayInit, Init
<1>2. \A u \in Users : label_score[u] = ScoreLine(u, 0) /\ game.score[u] = 0
  BY <1>1 DEF DisplayInit, InitialGame
<1>3. /\ label_score \in [Users -> {Over} \cup {ScoreLine(u, n) : u \in Users, n \in Nat}]
      /\ \A u \in Users : label_score[u] # Over
  BY <1>2, TextsDiffer DEF DisplayInit
<1>4. OverIsUp
  BY <1>1, SizeAssumption DEF OverIsUp, InitialGame
<1>5. Idle
  BY <1>2, <1>4 DEF DisplayInit, Idle, ScoreRight
<1> QED BY <1>1, <1>3, <1>5 DEF DisplayInit, DisplayInv

\* Only the three shapes with calls to come are not idle.
LEMMA BusyOrIdle ==
    ASSUME DisplayInv
    PROVE  todo = <<>> => Idle
<1>1. game \in Games
  BY DEF DisplayInv, Inv, TypeOK
<1>2. gameover # <<>> /\ <<ShowInfo>> # <<>>
  <2>1. Len(<<Sprintf(Over), ShowInfo>>) = 2 /\ Len(<<ShowInfo>>) = 1 /\ Len(<<>>) = 0
    OBVIOUS
  <2> QED BY <2>1 DEF gameover
<1>3. Closing(game) # <<>>
  BY ClosingParts
<1>4. ASSUME NEW u \in Users, NEW rest \in ScoreRests(u, game)
      PROVE  rest \o Closing(game) # <<>>
  BY <1>1, ScoreRestParts, ClosingParts, NextCall
<1> QED BY <1>2, <1>3, <1>4 DEF DisplayInv, Announcing, Closed, Scoring

LEMMA DisplayMoveKeeps ==
    ASSUME DisplayInv, NEW cmd \in Commands, DisplayMove(cmd)
    PROVE  DisplayInv'
<1> DEFINE u == UserOf(cmd)
           m == CheckValidation(game, cmd)
<1>1. Idle
  BY BusyOrIdle DEF DisplayMove
<1>2. /\ Inv' /\ game' \in Games /\ game \in Games /\ m # 0 /\ u \in Users
      /\ game' = Move(game, cmd, m) /\ GameInv(game)
      /\ UNCHANGED <<label_score, msg_info, fixed, end_sent>>
      /\ todo' = CallsFor(cmd, m, game')
  <2>1. Inv /\ Next
    BY DEF DisplayInv, DisplayMove, Next
  <2>2. Inv'
    BY <2>1, NextInv
  <2> QED BY <2>1, <2>2, CommandParts
       DEF DisplayMove, HandleMove, labelVars, Inv, TypeOK, MapInSync, GameInv
<1>3. PlainStep(game, game', cmd) \/ Push(game, game', cmd) \/ Score(game, game', cmd)
  BY <1>2, MoveCases
<1>4. CASE PlainStep(game, game', cmd) \/ Push(game, game', cmd)
  <2>1. game'.score = game.score /\ m \in Int /\ ~(m > -ITEM)
    <3>1. CASE PlainStep(game, game', cmd)
      BY <3>1 DEF PlainStep, SameCounts, ITEM
    <3>2. CASE Push(game, game', cmd)
      <4>1. PICK i \in Items : m = ItemIdxToId(i) /\ SameCounts(game, game')
        BY <3>2 DEF Push
      <4> QED BY <4>1, ObjectNumbers DEF SameCounts, ITEM
    <3> QED BY <1>4, <3>1, <3>2
  <2>2. todo' = Closing(game')
    BY <1>2, <2>1, CallsAre
  <2>3. Closed'
    BY <1>1, <1>2, <2>1, <2>2 DEF Idle, Closed, ScoreRight, Closing, gameover,
         Sprintf, ShowInfo, Draw, Over
  <2> QED BY <1>2, <2>3 DEF DisplayInv, FirstLayer
<1>5. CASE Score(game, game', cmd)
  <2>1. /\ m \in Int /\ m > -ITEM
        /\ game'.score = [game.score EXCEPT ![u] = @ + 1]
    BY <1>5, ObjectNumbers DEF Score, ITEM
  <2>2. todo' = score_up(u, game') \o Closing(game')
    BY <1>2, <2>1, CallsAre
  <2>3. \A v \in Users \ {u} : game'.score[v] = game.score[v]
    BY <1>2, <2>1 DEF Games
  <2>4. score_up(u, game') \in ScoreRests(u, game')
    BY DEF ScoreRests
  <2>5. score_up(u, game') # <<ShowScore(u)>>
    <3>1. \A a, b, c, d : Len(<<a, b, c, d>>) = 4
      OBVIOUS
    <3>2. Len(score_up(u, game')) = 4
      BY <3>1 DEF score_up
    <3>3. \A a : Len(<<a>>) = 1
      OBVIOUS
    <3> QED BY <3>2, <3>3
  <2>6. \A v \in Users \ {u} : ScoreRight(v)'
    BY <1>1, <1>2, <2>3 DEF Idle, ScoreRight
  <2>7. Scoring(u)'
    BY <2>2, <2>4, <2>5, <2>6 DEF Scoring
  <2> QED BY <1>2, <2>7 DEF DisplayInv
<1> QED BY <1>3, <1>4, <1>5

\* A step that leaves the display and the game alone, but for the handler's
\* timer.
LEMMA DisplayNothingKeeps ==
    ASSUME DisplayInv, DisplayNothing \/ UNCHANGED displayVars
    PROVE  DisplayInv'
<1>1. /\ UNCHANGED <<labelVars, fixed, changed, todo, game, end_sent>>
      /\ [Next]_vars
  BY DEF DisplayNothing, HandleEnd, HandleInvalid, displayVars, vars, Next
<1>2. Inv'
  BY <1>1, NextInv DEF DisplayInv
<1>3. UNCHANGED <<msg_info, label_info, label_score, fixed, changed, todo, game, end_sent>>
  BY <1>1 DEF labelVars
<1>4. \A u : ScoreRight(u)' <=> ScoreRight(u)
  BY <1>3 DEF ScoreRight
<1>5. /\ Idle => Idle'
      /\ Announcing => Announcing'
      /\ Closed => Closed'
      /\ \A u : Scoring(u) => Scoring(u)'
  <2>1. Idle => Idle'
    BY <1>3, <1>4 DEF Idle, OverIsUp, SecondLayer
  <2>2. Announcing => Announcing'
    BY <1>3, <1>4 DEF Announcing, SecondLayer
  <2>3. Closed => Closed'
    BY <1>3, <1>4 DEF Closed, Closing
  <2>4. \A u : Scoring(u) => Scoring(u)'
    BY <1>3, <1>4 DEF Scoring, Closing, ScoreRests, score_up
  <2> QED BY <2>1, <2>2, <2>3, <2>4
<1> QED BY <1>2, <1>3, <1>5 DEF DisplayInv

\* The alarm: it comes once, and finds no GAME OVER among the scores.
LEMMA DisplayTimeoutKeeps ==
    ASSUME DisplayInv, DisplayTimeout
    PROVE  DisplayInv'
<1>1. /\ ~end_sent /\ end_sent'
      /\ msg_info' = Over /\ label_info' = Over
      /\ UNCHANGED <<label_score, fixed, changed, todo, game>>
      /\ [Next]_vars
  BY DEF DisplayTimeout, HandleTimeout, Next
<1>2. Inv'
  BY <1>1, NextInv DEF DisplayInv
<1>3. \A u : ScoreRight(u) => ScoreRight(u)'
  BY <1>1 DEF ScoreRight
<1>4. \A u \in Users : label_score[u] # Over
  BY <1>1 DEF DisplayInv
<1>5. /\ Idle => Idle'
      /\ Announcing => Announcing'
      /\ Closed => Closed'
      /\ \A u : Scoring(u) => Scoring(u)'
  <2>1. Idle => Idle'
    BY <1>1, <1>3 DEF Idle, OverIsUp, SecondLayer
  <2>2. Announcing => Announcing'
    BY <1>1, <1>3 DEF Announcing, SecondLayer
  <2>3. Closed => Closed'
    BY <1>1, <1>3 DEF Closed, Closing
  <2>4. \A u : Scoring(u) => Scoring(u)'
    BY <1>1, <1>3, <1>4 DEF Scoring, Closing, ScoreRests, score_up
  <2> QED BY <2>1, <2>2, <2>3, <2>4
<1> QED BY <1>1, <1>2, <1>5 DEF DisplayInv

-----------------------------------------------------------------------------
\* What the next call does, by its kind.
LEMMA CallDoes ==
    ASSUME DisplayCall
    PROVE  /\ UNCHANGED <<game, info, running, end_sent, fixed>>
           /\ todo # <<>> /\ todo' = Tail(todo)
           /\ Head(todo) = Draw =>
                 /\ UNCHANGED <<msg_info, label_info, label_score>>
                 /\ changed' = SecondLayer(game.map)
           /\ Head(todo) = ShowInfo =>
                 /\ UNCHANGED <<msg_info, label_score, changed>>
                 /\ label_info' = msg_info
           /\ \A t : Head(todo) = Sprintf(t) =>
                 /\ UNCHANGED <<label_info, label_score, changed>>
                 /\ msg_info' = t
           /\ \A u : Head(todo) = ShowScore(u) =>
                 /\ UNCHANGED <<msg_info, label_info, changed>>
                 /\ label_score' = [label_score EXCEPT ![u] = msg_info]
BY DEF DisplayCall, vars, Draw, ShowInfo, Sprintf, ShowScore

LEMMA SameScores ==
    ASSUME UNCHANGED <<game, label_score, end_sent>>
    PROVE  \A u : ScoreRight(u)' <=> ScoreRight(u)
BY DEF ScoreRight

\* gameover: the text, then the label.
LEMMA AnnouncingCall ==
    ASSUME Announcing, DisplayCall
    PROVE  UNCHANGED label_score /\ (Announcing' \/ Idle')
<1>1. /\ Head(gameover) = Sprintf(Over) /\ Tail(gameover) = <<ShowInfo>>
      /\ Head(<<ShowInfo>>) = ShowInfo /\ Tail(<<ShowInfo>>) = <<>>
  <2>1. \A a, b : Head(<<a, b>>) = a /\ Tail(<<a, b>>) = <<b>>
    OBVIOUS
  <2>2. \A a : Head(<<a>>) = a /\ Tail(<<a>>) = <<>>
    OBVIOUS
  <2> QED BY <2>1, <2>2 DEF gameover
<1>2. CASE todo = gameover
  <2>1. /\ UNCHANGED <<game, end_sent, label_score, changed>>
        /\ todo' = <<ShowInfo>> /\ msg_info' = Over
    BY <1>1, <1>2, CallDoes
  <2> QED BY <2>1, SameScores DEF Announcing
<1>3. CASE todo = <<ShowInfo>> /\ msg_info = Over
  <2>1. /\ UNCHANGED <<game, end_sent, label_score, changed>>
        /\ todo' = <<>> /\ label_info' = Over
    BY <1>1, <1>3, CallDoes
  <2>2. OverIsUp'
    BY <2>1 DEF OverIsUp
  <2> QED BY <2>1, <2>2, SameScores DEF Announcing, Idle
<1> QED BY <1>2, <1>3 DEF Announcing

\* The board is drawn, and GAME OVER follows if the last item is home.
LEMMA ClosedCall ==
    ASSUME game \in Games, Closed, DisplayCall
    PROVE  UNCHANGED label_score /\ (Announcing' \/ Idle')
<1>1. /\ UNCHANGED <<game, end_sent, label_score>>
      /\ changed' = SecondLayer(game.map)
      /\ todo' = IF game.current_num_item <= 0 THEN gameover ELSE <<>>
  BY ClosingParts, CallDoes DEF Closed
<1>2. \A u \in Users : ScoreRight(u)'
  BY <1>1, SameScores DEF Closed
<1>3. CASE game.current_num_item <= 0
  BY <1>1, <1>2, <1>3 DEF Announcing
<1>4. CASE ~(game.current_num_item <= 0)
  <2>1. OverIsUp'
    BY <1>1, <1>4 DEF OverIsUp
  <2> QED BY <1>1, <1>2, <1>4, <2>1 DEF Idle
<1> QED BY <1>3, <1>4

\* score_up: the score is printed before it is shown, unless the alarm has put
\* its text there.
LEMMA ScoringCall ==
    ASSUME DisplayInv, NEW u \in Users, Scoring(u), DisplayCall
    PROVE  \/ UNCHANGED label_score /\ Scoring(u)'
           \/ /\ label_score' = [label_score EXCEPT ![u] = msg_info]
              /\ \/ msg_info = ScoreLine(u, game.score[u])
                 \/ msg_info = Over /\ end_sent /\ \A v \in Users : label_score[v] # Over
              /\ Closed'
<1>1. game \in Games
  BY DEF DisplayInv, Inv, TypeOK
<1>2. PICK rest \in ScoreRests(u, game) :
          /\ todo = rest \o Closing(game)
          /\ rest = <<ShowScore(u)>> =>
                \/ msg_info = ScoreLine(u, game.score[u])
                \/ msg_info = Over /\ end_sent /\ \A v \in Users : label_score[v] # Over
  BY DEF Scoring
<1>3. /\ rest \in Seq(Calls) /\ rest # <<>>
      /\ Closing(game) \in Seq(Calls)
  BY <1>1, ScoreRestParts, ClosingParts
<1>4. Head(todo) = Head(rest) /\ Tail(todo) = Tail(rest) \o Closing(game)
  BY <1>2, <1>3, NextCall
<1>5. /\ UNCHANGED <<game, end_sent>>
      /\ todo' = Tail(rest) \o Closing(game)
  BY <1>4, CallDoes
<1>6. \A v \in Users \ {u} : ScoreRight(v)
  BY DEF Scoring
<1>7. Closing(game)' = Closing(game) /\ ScoreRests(u, game)' = ScoreRests(u, game)
      /\ ScoreLine(u, game.score[u])' = ScoreLine(u, game.score[u])
      /\ ShowScore(u)' = ShowScore(u)
  BY <1>5 DEF Closing, ScoreRests, score_up
<1>8. ASSUME UNCHANGED label_score, Tail(rest) \in ScoreRests(u, game),
             Tail(rest) = <<ShowScore(u)>> => msg_info' = ScoreLine(u, game.score[u])
      PROVE  Scoring(u)'
  <2>1. \A v \in Users \ {u} : ScoreRight(v)'
    BY <1>5, <1>6, <1>8, SameScores
  <2> QED BY <1>5, <1>7, <1>8, <2>1 DEF Scoring
<1>9. CASE /\ Head(rest) \in {Sprintf(Scored(u)), ShowInfo}
           /\ Tail(rest) \in ScoreRests(u, game) /\ Tail(rest) # <<ShowScore(u)>>
  <2>1. UNCHANGED label_score
    BY <1>4, <1>9, CallDoes
  <2> QED BY <1>8, <1>9, <2>1
<1>10. CASE /\ Head(rest) = Sprintf(ScoreLine(u, game.score[u]))
            /\ Tail(rest) = <<ShowScore(u)>>
  <2>1. UNCHANGED label_score /\ msg_info' = ScoreLine(u, game.score[u])
    BY <1>4, <1>10, CallDoes
  <2>2. <<ShowScore(u)>> \in ScoreRests(u, game)
    BY DEF ScoreRests
  <2> QED BY <1>8, <1>10, <2>1, <2>2
<1>11. CASE /\ rest = <<ShowScore(u)>>
            /\ Head(rest) = ShowScore(u) /\ Tail(rest) = <<>>
  <2>1. label_score' = [label_score EXCEPT ![u] = msg_info]
    BY <1>4, <1>11, CallDoes
  <2>2. todo' = Closing(game)'
    BY <1>3, <1>5, <1>7, <1>11, NothingBefore
  <2>3. \/ msg_info = ScoreLine(u, game.score[u])
        \/ msg_info = Over /\ end_sent /\ \A v \in Users : label_score[v] # Over
    BY <1>2, <1>11
  <2>4. label_score'[u] = msg_info /\ \A v \in Users \ {u} : label_score'[v] = label_score[v]
    BY <2>1 DEF DisplayInv
  <2>5. \A v \in Users : ScoreRight(v)'
    BY <1>5, <1>6, <2>3, <2>4 DEF ScoreRight
  <2> QED BY <2>1, <2>2, <2>3, <2>5 DEF Closed
<1> QED BY <1>1, <1>9, <1>10, <1>11, ScoreRestParts

LEMMA DisplayCallKeeps ==
    ASSUME DisplayInv, DisplayCall
    PROVE  DisplayInv'
<1>1. UNCHANGED <<game, info, running, end_sent, fixed>>
  BY CallDoes
<1>2. Inv'
  BY <1>1, NextInv DEF DisplayInv, vars
<1>3. game \in Games /\ todo # <<>>
  BY CallDoes DEF DisplayInv, Inv, TypeOK
<1>4. CASE UNCHANGED label_score /\ (Announcing' \/ Idle' \/ \E u \in Users : Scoring(u)')
  BY <1>1, <1>2, <1>4 DEF DisplayInv, FirstLayer
<1>5. ASSUME NEW u \in Users,
             label_score' = [label_score EXCEPT ![u] = msg_info],
             \/ msg_info = ScoreLine(u, game.score[u])
             \/ msg_info = Over /\ end_sent /\ \A v \in Users : label_score[v] # Over,
             Closed'
      PROVE  DisplayInv'
  <2>1. label_score'[u] = msg_info /\ \A v \in Users \ {u} : label_score'[v] = label_score[v]
    BY <1>5 DEF DisplayInv
  <2>2. game.score[u] \in Nat
    BY <1>3 DEF Games
  <2>3. msg_info \in {Over} \cup {ScoreLine(v, n) : v \in Users, n \in Nat}
    BY <1>5, <2>2
  <2>4. label_score' \in [Users -> {Over} \cup {ScoreLine(v, n) : v \in Users, n \in Nat}]
    BY <1>5, <2>3 DEF DisplayInv
  <2>5. ~end_sent' => \A v \in Users : label_score'[v] # Over
    BY <1>1, <1>5, <2>1, TextsDiffer DEF DisplayInv
  <2>6. \A v, w \in Users : label_score'[v] = Over /\ label_score'[w] = Over => v = w
    <3>1. CASE msg_info = ScoreLine(u, game.score[u])
      BY <2>1, <3>1, TextsDiffer DEF DisplayInv
    <3>2. CASE \A v \in Users : label_score[v] # Over
      BY <2>1, <3>2
    <3> QED BY <1>5, <3>1, <3>2
  <2> QED BY <1>1, <1>2, <1>5, <2>4, <2>5, <2>6 DEF DisplayInv, FirstLayer
<1>6. CASE Idle
  BY <1>3, <1>6 DEF Idle
<1>7. CASE Announcing
  BY <1>4, <1>7, AnnouncingCall
<1>8. CASE Closed
  BY <1>3, <1>4, <1>8, ClosedCall
<1>9. CASE \E u \in Users : Scoring(u)
  BY <1>4, <1>5, <1>9, ScoringCall
<1> QED BY <1>6, <1>7, <1>8, <1>9 DEF DisplayInv

LEMMA DisplayAlways == DisplaySpec => []DisplayInv
<1>1. DisplayInv /\ [DisplayNext]_displayVars => DisplayInv'
  BY DisplayMoveKeeps, DisplayNothingKeeps, DisplayCallKeeps, DisplayTimeoutKeeps
     DEF DisplayNext
<1> QED BY <1>1, DisplayInitInv, PTL DEF DisplaySpec

-----------------------------------------------------------------------------
(* What a cell of the board can be.                                        *)

LEMMA PaintFacts ==
    ASSUME NEW ul, NEW il, Positions(ul, il), NEW c \in Cells
    PROVE  LET v == CellPaint(ul, il, c) IN
           /\ v \in Int
           /\ v = BLOCK => c \in BlockLoc
           /\ c \in BlockLoc /\ (\A i \in Items : il[i] # c) => v = BLOCK
           /\ c \in BlockLoc \/ IsBaseCell(c) => v # EMPTY
           /\ v > BASE => IsBaseCell(c)
<1> DEFINE v == CellPaint(ul, il, c)
<1>1. v \in Int /\ (v > BASE => IsBaseCell(c))
  <2>1. v \in BoardValues /\ (v > BASE => \E u \in Users : BaseLoc[u] = c)
    BY PaintedCell
  <2> QED BY <2>1, BoardValuesAreInts DEF IsBaseCell
<1>2. CASE ItemsAt(il, c) # {}
  <2>1. Last(ItemsAt(il, c)) \in ItemsAt(il, c)
    <3>1. ItemsAt(il, c) \in SUBSET (0 .. NumItem)
      BY SizeAssumption DEF ItemsAt, Items
    <3> QED BY <1>2, <3>1, SizeAssumption, LastIsLargest
  <2>2. v < ITEM
    BY <1>2, <2>1, ObjectNumbers DEF CellPaint, ItemsAt
  <2> QED BY <1>1, <1>2, <2>2 DEF ITEM, BLOCK, EMPTY, ItemsAt
<1>3. CASE ItemsAt(il, c) = {} /\ c \in BlockLoc
  <2>1. v = BLOCK
    BY <1>3 DEF CellPaint
  <2> QED BY <1>1, <1>3, <2>1 DEF BLOCK, EMPTY
<1>4. CASE ItemsAt(il, c) = {} /\ c \notin BlockLoc
  <2>1. v = UserPaint(ul, c)
    BY <1>4 DEF CellPaint
  <2>2. CASE PaintersAt(ul, c) = {}
    <3>1. v = EMPTY /\ ~IsBaseCell(c)
      BY <2>1, <2>2 DEF UserPaint, PaintersAt, IsBaseCell
    <3> QED BY <1>1, <1>4, <3>1 DEF BLOCK, EMPTY
  <2>3. CASE PaintersAt(ul, c) # {}
    <3>1. Last(PaintersAt(ul, c)) \in PaintersAt(ul, c)
      <4>1. PaintersAt(ul, c) \in SUBSET (0 .. 4)
        BY SizeAssumption DEF PaintersAt, Users
      <4> QED BY <2>3, <4>1, LastIsLargest
    <3>2. v >= 1
      BY <2>1, <2>3, <3>1, ObjectNumbers DEF UserPaint, PaintersAt
    <3> QED BY <1>1, <1>4, <3>2 DEF BLOCK, EMPTY
  <2> QED BY <2>2, <2>3
<1> QED BY <1>2, <1>3, <1>4

-----------------------------------------------------------------------------
\* display_screen: the layer that is drawn once and the one that is drawn
\* after every move show together what the board holds, in every cell but the
\* base that was covered when the first layer was drawn.
THEOREM ScreenIsTrue == DisplaySpec => []ScreenShowsMap
<1>1. DisplayInv => ScreenShowsMap
  <2> SUFFICES ASSUME DisplayInv, todo = <<>>, NEW c \in Cells
               PROVE  \/ Shown(c) = game.map[c]
                      \/ game.map[c] > BASE /\ InitialGame.map[c] \notin {EMPTY, game.map[c]}
    BY DEF ScreenShowsMap
  <2>1. /\ changed = SecondLayer(game.map) /\ fixed = FirstLayer(InitialGame.map)
        /\ Inv
    BY BusyOrIdle DEF Idle, DisplayInv
  <2> DEFINE now == CellPaint(game.user_loc, game.item_loc, c)
             first == CellPaint(UserStart, ItemStart, c)
  <2>2. Positions(game.user_loc, game.item_loc) /\ Positions(UserStart, ItemStart)
    BY <2>1, PlaceAssumption DEF Inv, TypeOK, Games, Positions
  <2>3. game.map[c] = now /\ InitialGame.map[c] = first
    BY <2>1, <2>2, UpdateCellType DEF Inv, MapInSync, InitialGame
  <2>4. /\ changed[c] = IF IsFixed(now) THEN EMPTY ELSE now
        /\ fixed[c] = IF IsFixed(first) THEN first ELSE EMPTY
    BY <2>1, <2>3 DEF SecondLayer, FirstLayer
  <2>5. /\ now \in Int /\ first \in Int
        /\ now = BLOCK => c \in BlockLoc
        /\ first = BLOCK => c \in BlockLoc
        /\ c \in BlockLoc => first = BLOCK
        /\ c \in BlockLoc \/ IsBaseCell(c) => now # EMPTY
        /\ c \in BlockLoc \/ IsBaseCell(c) => first # EMPTY
        /\ now > BASE => IsBaseCell(c)
        /\ first > BASE => IsBaseCell(c)
    <3>1. c \in BlockLoc => \A i \in Items : ItemStart[i] # c
      BY LayoutAssumption
    <3> HIDE DEF now, first
    <3> QED BY <2>2, <3>1, PaintFacts DEF now, first
  <2> HIDE DEF now, first
  <2>6. CASE IsFixed(now)
    BY <2>3, <2>4, <2>5, <2>6 DEF Shown, IsFixed, BLOCK, EMPTY, BASE
  <2>7. CASE ~IsFixed(now)
    BY <2>3, <2>4, <2>5, <2>7 DEF Shown, IsFixed, BLOCK, EMPTY, BASE
  <2> QED BY <2>6, <2>7
<1> QED BY <1>1, DisplayAlways, PTL

\* score_up, gameover and handle_timeout write through one buffer, and the
\* labels come out right all the same: the end of the game is announced and
\* every score is its user's, but for one that the alarm replaced.
THEOREM LabelsAreTrue == DisplaySpec => []LabelsShowGame
<1>1. DisplayInv => LabelsShowGame
  <2> SUFFICES ASSUME DisplayInv, todo = <<>> PROVE OverAnnounced /\ ScoresShown
    BY DEF LabelsShowGame, OverAnnounced, ScoresShown
  <2>1. Idle
    BY BusyOrIdle
  <2>2. Cardinality({u \in Users : label_score[u] = Over}) <= 1
    <3> DEFINE covered == {u \in Users : label_score[u] = Over}
    <3>1. \E u : covered \subseteq {u}
      <4>1. CASE covered = {}
        BY <4>1
      <4>2. ASSUME NEW u \in covered PROVE covered \subseteq {u}
        BY <4>2 DEF DisplayInv
      <4> QED BY <4>1, <4>2
    <3> HIDE DEF covered
    <3>2. Cardinality(covered) <= 1
      BY <3>1, AtMostOne
    <3> QED BY <3>2 DEF covered
  <2> QED BY <2>1, <2>2 DEF Idle, OverIsUp, ScoreRight, OverAnnounced, ScoresShown
<1> QED BY <1>1, DisplayAlways, PTL

-----------------------------------------------------------------------------
\* What is shown does not change the game: handle_cmd with its calls to the
\* labels and the screen is a behaviour of the game loop, and everything that
\* is proved of PushGame holds of it.
THEOREM DisplayKeepsGame == DisplaySpec => Spec
<1>1. DisplayInit => Init
  BY DEF DisplayInit
<1>2. [DisplayNext]_displayVars => [Next]_vars
  <2> SUFFICES ASSUME [DisplayNext]_displayVars PROVE [Next]_vars
    OBVIOUS
  <2>1. ASSUME NEW cmd \in Commands, DisplayMove(cmd) PROVE Next
    BY <2>1 DEF DisplayMove, Next
  <2>2. CASE DisplayNothing
    BY <2>2 DEF DisplayNothing, Next
  <2>3. CASE DisplayCall
    BY <2>3 DEF DisplayCall
  <2>4. CASE DisplayTimeout
    BY <2>4 DEF DisplayTimeout, Next
  <2>5. CASE UNCHANGED displayVars
    BY <2>5 DEF displayVars
  <2> QED BY <2>1, <2>2, <2>3, <2>4, <2>5 DEF DisplayNext
<1> QED BY <1>1, <1>2, PTL DEF DisplaySpec, Spec
=============================================================================
