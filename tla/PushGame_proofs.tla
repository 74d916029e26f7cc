-------------------------- MODULE PushGame_proofs --------------------------
(***************************************************************************)
(* Proofs about PushGame for every board, number of users and of items.    *)
(* The inductive invariant joins the types, the agreement of the board     *)
(* with the positions, the absence of overlaps and the item counter: what  *)
(* check_validation reads off the board can be trusted only while all of   *)
(* them hold.                                                              *)
(***************************************************************************)
EXTENDS PushGame, PushRules_proofs, FiniteSetTheorems

Inv == TypeOK /\ MapInSync /\ NoOverlap /\ ItemsCounted

LEMMA RemovedIsNoCell == Removed \notin Cells
BY SizeAssumption DEF Removed, Cells

LEMMA LiveIsFinite == IsFiniteSet(Live)
<1>1. IsFiniteSet(Items)
  BY SizeAssumption, FS_Interval DEF Items
<1> QED BY <1>1, FS_Subset DEF Live

LEMMA InitInv == Init => Inv
<1> SUFFICES ASSUME Init PROVE Inv
  OBVIOUS
<1>1. Positions(UserStart, ItemStart)
  BY PlaceAssumption DEF Positions
<1>2. game \in Games /\ MapInSync
  <2>1. UpdateCell(UserStart, ItemStart) \in [Cells -> BoardValues]
    BY <1>1, UpdateCellType
  <2> QED BY <1>1, <2>1, SizeAssumption
       DEF Init, InitialGame, Games, Positions, MapInSync
<1>3. Live = Items
  BY PlaceAssumption, RemovedIsNoCell DEF Init, InitialGame, Live
<1>4. NoOverlap
  BY <1>3, LayoutAssumption DEF Init, InitialGame, NoOverlap
<1>5. ItemsCounted
  BY <1>3, SizeAssumption, FS_Interval DEF Init, InitialGame, ItemsCounted, Items
<1> QED BY <1>2, <1>4, <1>5 DEF Init, Inv, TypeOK

-----------------------------------------------------------------------------
\* A cell that check_validation takes for free holds no item and no block,
\* and a user only if a base hides it.
LEMMA WalkableIsFree ==
    ASSUME GameInv(game), NEW c \in Cells, Walkable(game.map[c])
    PROVE  /\ c \notin BlockLoc
           /\ \A i \in Items : game.item_loc[i] # c
           /\ (\A u \in Users : game.user_loc[u] # c) \/ IsBaseCell(c)
<1>1. Positions(game.user_loc, game.item_loc)
  BY DEF GameInv, Games, Positions
<1>2. game.map[c] = CellPaint(game.user_loc, game.item_loc, c)
  BY <1>1, UpdateCellType DEF GameInv
<1>3. Walkable(CellPaint(game.user_loc, game.item_loc, c))
  BY <1>2
<1>4. c \notin BlockLoc /\ \A i \in Items : game.item_loc[i] # c
  BY <1>1, <1>3, PaintedCell
<1>5. CASE CellPaint(game.user_loc, game.item_loc, c) = EMPTY
  BY <1>1, <1>4, <1>5, PaintedCell
<1>6. CASE CellPaint(game.user_loc, game.item_loc, c) > BASE
  BY <1>1, <1>4, <1>6, PaintedCell DEF IsBaseCell
<1> QED BY <1>3, <1>5, <1>6 DEF Walkable

\* A move that check_validation accepts keeps the objects apart.
LEMMA MoveKeepsApart ==
    ASSUME Inv, NEW cmd \in Commands, CheckValidation(game, cmd) # 0,
           game' = Move(game, cmd, CheckValidation(game, cmd))
    PROVE  NoOverlap'
<1> DEFINE u == UserOf(cmd)
           t == Target(game, cmd)
           it == ItemTarget(game, cmd)
<1>1. GameInv(game) /\ game \in Games
  BY DEF Inv, TypeOK, MapInSync, GameInv
<1>2. /\ game' \in Games /\ t \in Cells /\ u \in Users
      /\ game'.user_loc = [game.user_loc EXCEPT ![u] = t]
      /\ PlainStep(game, game', cmd) \/ Push(game, game', cmd) \/ Score(game, game', cmd)
  BY <1>1, MoveCases, CommandParts DEF GameInv
<1>3. NoOverlap
  BY DEF Inv
<1>4. CASE PlainStep(game, game', cmd)
  <2>1. /\ t \notin BlockLoc /\ \A i \in Items : game.item_loc[i] # t
        /\ (\A v \in Users : game.user_loc[v] # t) \/ IsBaseCell(t)
    BY <1>1, <1>2, <1>4, WalkableIsFree DEF PlainStep
  <2>2. game'.item_loc = game.item_loc
    BY <1>4 DEF PlainStep
  <2> QED BY <1>1, <1>2, <1>3, <2>1, <2>2 DEF NoOverlap, Live, Games
<1>5. CASE Push(game, game', cmd)
  <2>1. PICK i \in Items :
          /\ game.item_loc[i] = t /\ it \in Cells /\ Walkable(game.map[it])
          /\ game'.item_loc = [game.item_loc EXCEPT ![i] = it]
    BY <1>5 DEF Push
  <2>2. /\ it \notin BlockLoc /\ \A j \in Items : game.item_loc[j] # it
        /\ (\A v \in Users : game.user_loc[v] # it) \/ IsBaseCell(it)
    BY <1>1, <2>1, WalkableIsFree
  <2>3. t # it /\ i \in Live
    BY <1>2, <2>1, <2>2, RemovedIsNoCell DEF Live
  <2> QED BY <1>1, <1>2, <1>3, <2>1, <2>2, <2>3 DEF NoOverlap, Live, Games
<1>6. CASE Score(game, game', cmd)
  <2>1. PICK i \in Items :
          /\ game.item_loc[i] = t
          /\ game'.item_loc = [game.item_loc EXCEPT ![i] = Removed]
    BY <1>6 DEF Score
  <2>2. i \in Live
    BY <1>2, <2>1, RemovedIsNoCell DEF Live
  <2> QED BY <1>1, <1>2, <1>3, <2>1, <2>2 DEF NoOverlap, Live, Games
<1> QED BY <1>2, <1>4, <1>5, <1>6

\* A move that check_validation accepts counts the items it takes away.
LEMMA MoveKeepsCount ==
    ASSUME Inv, NEW cmd \in Commands, CheckValidation(game, cmd) # 0,
           game' = Move(game, cmd, CheckValidation(game, cmd))
    PROVE  ItemsCounted'
<1> DEFINE t == Target(game, cmd)
           it == ItemTarget(game, cmd)
<1>1. GameInv(game) /\ game \in Games
  BY DEF Inv, TypeOK, MapInSync, GameInv
<1>2. /\ game' \in Games /\ t \in Cells
      /\ PlainStep(game, game', cmd) \/ Push(game, game', cmd) \/ Score(game, game', cmd)
  BY <1>1, MoveCases DEF GameInv
<1>3. ItemsCounted
  BY DEF Inv
<1>4. CASE PlainStep(game, game', cmd)
  <2>1. Live' = Live /\ game'.current_num_item = game.current_num_item
    BY <1>4 DEF PlainStep, SameCounts, Live
  <2> QED BY <1>3, <2>1 DEF ItemsCounted
<1>5. CASE Push(game, game', cmd)
  <2>1. PICK i \in Items :
          /\ game.item_loc[i] = t /\ it \in Cells
          /\ game'.item_loc = [game.item_loc EXCEPT ![i] = it]
          /\ game'.current_num_item = game.current_num_item
    BY <1>5 DEF Push, SameCounts
  <2>2. Live' = Live
    BY <1>1, <1>2, <2>1, RemovedIsNoCell DEF Live, Games
  <2> QED BY <1>3, <2>1, <2>2 DEF ItemsCounted
<1>6. CASE Score(game, game', cmd)
  <2>1. PICK i \in Items :
          /\ game.item_loc[i] = t
          /\ game'.item_loc = [game.item_loc EXCEPT ![i] = Removed]
          /\ game'.current_num_item = game.current_num_item - 1
    BY <1>6 DEF Score
  <2>2. Live' = Live \ {i} /\ i \in Live
    BY <1>1, <1>2, <2>1, RemovedIsNoCell DEF Live, Games
  <2>3. Cardinality(Live \ {i}) = Cardinality(Live) - 1
    BY <2>2, LiveIsFinite, FS_RemoveElement
  <2> QED BY <1>3, <2>1, <2>2, <2>3 DEF ItemsCounted
<1> QED BY <1>2, <1>4, <1>5, <1>6

LEMMA NextInv == Inv /\ [Next]_vars => Inv'
<1> SUFFICES ASSUME Inv, [Next]_vars PROVE Inv'
  OBVIOUS
<1>1. ASSUME NEW cmd \in Commands, HandleMove(cmd) PROVE Inv'
  <2>1. /\ CheckValidation(game, cmd) # 0
        /\ game' = Move(game, cmd, CheckValidation(game, cmd))
    BY <1>1 DEF HandleMove
  <2>2. game' \in Games /\ MapInSync'
    BY <2>1, MoveCases DEF Inv, TypeOK, MapInSync, GameInv
  <2>3. TypeOK'
    BY <1>1, <2>2 DEF HandleMove, InfoAfter, Inv, TypeOK
  <2>4. NoOverlap' /\ ItemsCounted'
    BY <2>1, MoveKeepsApart, MoveKeepsCount
  <2> QED BY <2>2, <2>3, <2>4 DEF Inv
<1>2. ASSUME NEW cmd \in Commands, HandleInvalid(cmd) PROVE Inv'
  BY <1>2 DEF HandleInvalid, vars, Inv, TypeOK, MapInSync, NoOverlap, ItemsCounted, Live
<1>3. CASE HandleEnd
  BY <1>3 DEF HandleEnd, Inv, TypeOK, MapInSync, NoOverlap, ItemsCounted, Live
<1>4. CASE HandleTimeout
  BY <1>4 DEF HandleTimeout, Inv, TypeOK, MapInSync, NoOverlap, ItemsCounted, Live
<1>5. CASE UNCHANGED vars
  BY <1>5 DEF vars, Inv, TypeOK, MapInSync, NoOverlap, ItemsCounted, Live
<1> QED BY <1>1, <1>2, <1>3, <1>4, <1>5 DEF Next

LEMMA InvAlways == Spec => []Inv
BY InitInv, NextInv, PTL DEF Spec

-----------------------------------------------------------------------------
\* The state of the game loop (handle_cmd, handle_timeout) is well typed: no
\* move leaves the board and update_cell paints known objects only.
THEOREM TypeCorrect == Spec => []TypeOK
<1>1. Inv => TypeOK
  BY DEF Inv
<1> QED BY <1>1, InvAlways, PTL

\* Whatever commands arrive in whatever order, check_validation and move
\* never let two objects share a cell that has no base.
THEOREM ObjectsKeepApart == Spec => []NoOverlap
<1>1. Inv => NoOverlap
  BY DEF Inv
<1> QED BY <1>1, InvAlways, PTL

\* current_num_item, which ends the game, is the number of items on the board.
THEOREM CounterCounts == Spec => []ItemsCounted
<1>1. Inv => ItemsCounted
  BY DEF Inv
<1> QED BY <1>1, InvAlways, PTL

-----------------------------------------------------------------------------
LEMMA LastOfOne == \A m \in Int : Last({m}) = m
BY DEF Last

LEMMA InvShowsObjects == Inv => BoardShowsObjects
<1> SUFFICES ASSUME Inv PROVE BoardShowsObjects
  OBVIOUS
<1>1. /\ game \in Games /\ NoOverlap /\ GameInv(game)
      /\ Positions(game.user_loc, game.item_loc)
  BY DEF Inv, TypeOK, MapInSync, GameInv, Games, Positions
<1>2. \A c \in Cells : game.map[c] = CellPaint(game.user_loc, game.item_loc, c)
  BY <1>1, UpdateCellType DEF GameInv
<1>3. ASSUME NEW i \in Live PROVE game.map[game.item_loc[i]] = ItemIdxToId(i)
  <2> DEFINE c == game.item_loc[i]
  <2>1. i \in Items /\ c \in Cells /\ i \in Int
    BY <1>1, <1>3, SizeAssumption DEF Live, Games, Items
  <2>2. ItemsAt(game.item_loc, c) = {i}
    BY <1>1, <1>3, <2>1, RemovedIsNoCell DEF ItemsAt, NoOverlap, Live
  <2>3. Last(ItemsAt(game.item_loc, c)) = i
    BY <2>1, <2>2, LastOfOne
  <2> QED BY <1>2, <2>1, <2>2, <2>3 DEF CellPaint
<1>4. ASSUME NEW u \in Users, ~IsBaseCell(game.user_loc[u])
      PROVE  game.map[game.user_loc[u]] = UserId(u)
  <2> DEFINE c == game.user_loc[u]
  <2>1. c \in Cells /\ u \in Int /\ c \notin BlockLoc
    BY <1>1, SizeAssumption DEF Games, Users, NoOverlap
  <2>2. ItemsAt(game.item_loc, c) = {}
    BY <1>1, <1>4, <2>1, RemovedIsNoCell DEF ItemsAt, NoOverlap, Live
  <2>3. PaintersAt(game.user_loc, c) = {u}
    BY <1>1, <1>4 DEF PaintersAt, NoOverlap, IsBaseCell
  <2>4. Last(PaintersAt(game.user_loc, c)) = u
    BY <2>1, <2>3, LastOfOne
  <2>5. BaseLoc[u] # c
    BY <1>4 DEF IsBaseCell
  <2> QED BY <1>2, <2>1, <2>2, <2>3, <2>4, <2>5 DEF CellPaint, UserPaint
<1> QED BY <1>3, <1>4 DEF BoardShowsObjects

\* The painted board, which is all that check_validation looks at, shows every
\* item and every user that is not on a base.
THEOREM BoardIsTrue == Spec => []BoardShowsObjects
BY InvShowsObjects, InvAlways, PTL

-----------------------------------------------------------------------------
\* One step in the direction of a command.
LEMMA AheadIsOneStep ==
    ASSUME NEW cmd \in Commands, NEW c \in Int \X Int
    PROVE  LET n == Ahead(cmd, c)
               d == <<n[1] - c[1], n[2] - c[2]>>
           IN  /\ n \in Int \X Int
               /\ d \in {<<0, 1>>, <<0, -1>>, <<1, 0>>, <<-1, 0>>}
               /\ Ahead(cmd, n) = <<n[1] + d[1], n[2] + d[2]>>
<1>1. cmd % 4 \in {UP, DOWN, LEFT, RIGHT}
  BY CommandParts
<1>2. CASE cmd % 4 = UP
  BY <1>2 DEF Ahead, UP, DOWN, LEFT, RIGHT
<1>3. CASE cmd % 4 = DOWN
  BY <1>3 DEF Ahead, UP, DOWN, LEFT, RIGHT
<1>4. CASE cmd % 4 = LEFT
  BY <1>4 DEF Ahead, UP, DOWN, LEFT, RIGHT
<1>5. CASE cmd % 4 = RIGHT
  BY <1>5 DEF Ahead, UP, DOWN, LEFT, RIGHT
<1> QED BY <1>1, <1>2, <1>3, <1>4, <1>5

\* At most one item is moved if all the moved ones are the same.
LEMMA AtMostOne ==
    ASSUME NEW S, NEW i, S \subseteq {i}
    PROVE  Cardinality(S) <= 1
<1>1. IsFiniteSet({i}) /\ Cardinality({i}) = 1
  BY FS_Singleton
<1> QED BY <1>1, FS_Subset

LEMMA MoveIsDisciplined ==
    ASSUME Inv, NEW cmd \in Commands, CheckValidation(game, cmd) # 0,
           game' = Move(game, cmd, CheckValidation(game, cmd))
    PROVE  PushDiscipline
<1> DEFINE u == UserOf(cmd)
           t == Target(game, cmd)
           it == ItemTarget(game, cmd)
           p == game.user_loc[u]
           d == <<t[1] - p[1], t[2] - p[2]>>
           moved == {i \in Items : game'.item_loc[i] # game.item_loc[i]}
<1>1. GameInv(game) /\ game \in Games
  BY DEF Inv, TypeOK, MapInSync, GameInv
<1>2. /\ game' \in Games /\ t \in Cells /\ u \in Users
      /\ game'.user_loc[u] = t
      /\ PlainStep(game, game', cmd) \/ Push(game, game', cmd) \/ Score(game, game', cmd)
  <2>1. /\ game' \in Games /\ t \in Cells /\ u \in Users
        /\ game'.user_loc = [game.user_loc EXCEPT ![u] = t]
        /\ PlainStep(game, game', cmd) \/ Push(game, game', cmd) \/ Score(game, game', cmd)
    BY <1>1, MoveCases, CommandParts DEF GameInv
  <2>2. game'.user_loc[u] = t
    BY <1>1, <2>1 DEF Games
  <2> QED BY <2>1, <2>2
<1>3. p \in Int \X Int
  BY <1>1, <1>2, SizeAssumption DEF Games, Cells
<1>4. /\ d \in {<<0, 1>>, <<0, -1>>, <<1, 0>>, <<-1, 0>>}
      /\ it = <<t[1] + d[1], t[2] + d[2]>>
  BY <1>3, AheadIsOneStep DEF Target, ItemTarget
<1>5. CASE PlainStep(game, game', cmd)
  <2>1. moved = {} /\ moved \subseteq {0}
    BY <1>5 DEF PlainStep
  <2>2. Cardinality(moved) <= 1
    BY <2>1, AtMostOne
  <2> QED BY <2>1, <2>2 DEF PushDiscipline
<1>6. CASE Push(game, game', cmd)
  <2>1. PICK i \in Items :
          /\ game.item_loc[i] = t /\ it \in Cells
          /\ game'.item_loc = [game.item_loc EXCEPT ![i] = it]
          /\ game'.score = game.score
    BY <1>6 DEF Push, SameCounts
  <2>2. moved \subseteq {i}
    BY <1>1, <2>1 DEF Games
  <2>3. Cardinality(moved) <= 1
    BY <2>2, AtMostOne
  <2>4. i \in Live /\ game'.item_loc[i] = it
    BY <1>1, <1>2, <2>1, RemovedIsNoCell DEF Live, Games
  <2>5. PushedBy(u, i)
    BY <1>2, <1>4, <2>1, <2>4 DEF PushedBy
  <2> QED BY <1>2, <2>2, <2>3, <2>4, <2>5 DEF PushDiscipline
<1>7. CASE Score(game, game', cmd)
  <2>1. PICK i \in Items :
          /\ game.item_loc[i] = t /\ it \in Cells
          /\ game.map[it] = BaseId(u)
          /\ game'.item_loc = [game.item_loc EXCEPT ![i] = Removed]
          /\ game'.score = [game.score EXCEPT ![u] = @ + 1]
    BY <1>7 DEF Score
  <2>2. moved \subseteq {i}
    BY <1>1, <2>1 DEF Games
  <2>3. Cardinality(moved) <= 1
    BY <2>2, AtMostOne
  <2>4. i \in Live /\ game'.item_loc[i] = Removed
    BY <1>1, <1>2, <2>1, RemovedIsNoCell DEF Live, Games
  <2>5. BaseLoc[u] = it
    <3>1. Positions(game.user_loc, game.item_loc)
      BY <1>1 DEF Games, Positions
    <3>2. CellPaint(game.user_loc, game.item_loc, it) = BaseId(u) /\ BaseId(u) > BASE
      BY <1>1, <1>2, <2>1, <3>1, UpdateCellType, ObjectNumbers DEF GameInv, BASE
    <3>3. PICK v \in Users : BaseLoc[v] = it /\ BaseId(u) = BaseId(v)
      BY <2>1, <3>1, <3>2, PaintedCell
    <3> QED BY <1>2, <3>3, ObjectNumbers
  <2>6. PushedBy(u, i)
    BY <1>2, <1>4, <2>1, <2>4, <2>5 DEF PushedBy
  <2> QED BY <1>2, <2>2, <2>3, <2>4, <2>6 DEF PushDiscipline
<1> QED BY <1>2, <1>5, <1>6, <1>7

LEMMA StepIsDisciplined == Inv /\ [Next]_vars => [PushDiscipline]_vars
<1> SUFFICES ASSUME Inv, Next PROVE PushDiscipline \/ UNCHANGED vars
  OBVIOUS
<1>1. ASSUME NEW cmd \in Commands, HandleMove(cmd) PROVE PushDiscipline
  BY <1>1, MoveIsDisciplined DEF HandleMove
<1>2. ASSUME NEW cmd \in Commands, HandleInvalid(cmd) PROVE UNCHANGED vars
  BY <1>2 DEF HandleInvalid
<1>3. ASSUME HandleEnd \/ HandleTimeout PROVE PushDiscipline
  <2>1. game' = game
    BY <1>3 DEF HandleEnd, HandleTimeout
  <2>2. {i \in Items : game'.item_loc[i] # game.item_loc[i]} = {}
    BY <2>1
  <2>3. Cardinality({}) <= 1
    BY FS_EmptySet
  <2> QED BY <2>2, <2>3 DEF PushDiscipline
<1> QED BY <1>1, <1>2, <1>3 DEF Next

\* move takes an item along only when its user steps into the item's cell, one
\* item at a time, and takes it off the board only on that user's own base.
THEOREM ItemsMoveByPushes == Spec => ItemsArePushed
BY InvAlways, StepIsDisciplined, PTL DEF Spec, ItemsArePushed

-----------------------------------------------------------------------------
\* The scores of at most four users, added up one by one.
ScoreOf(sc, S, u) == IF u \in S THEN sc[u] ELSE 0
AddedUp(sc, S) == ScoreOf(sc, S, 0) + ScoreOf(sc, S, 1) + ScoreOf(sc, S, 2) + ScoreOf(sc, S, 3)

LEMMA TakeOneAway ==
    ASSUME NEW sc \in [Users -> Nat], NEW S \in SUBSET Users, NEW u \in S
    PROVE  AddedUp(sc, S) = sc[u] + AddedUp(sc, S \ {u})
<1>1. u \in {0, 1, 2, 3}
  BY SizeAssumption DEF Users
<1>2. \A v \in 0 .. 3 : ScoreOf(sc, S, v) \in Nat
  BY DEF ScoreOf
<1> QED BY <1>1, <1>2 DEF AddedUp, ScoreOf

\* FoldFunction adds the scores in an order it chooses; the sum is the same.
ScoreSum(sc) == FoldFunction(+, 0, sc)

LEMMA FoldAddsUp ==
    ASSUME NEW sc \in [Users -> Nat]
    PROVE  ScoreSum(sc) = AddedUp(sc, Users)
<1> DEFINE Pick(S) == CHOOSE u \in S : TRUE
           Adds(f) == f = [S \in SUBSET Users |->
                             IF S = {} THEN 0 ELSE sc[Pick(S)] + f[S \ {Pick(S)}]]
           sum == CHOOSE f : Adds(f)
           total == [S \in SUBSET Users |-> AddedUp(sc, S)]
<1>1. ScoreSum(sc) = sum[Users]
  BY DEF ScoreSum, FoldFunction, FoldFunctionOnSet, MapThenFoldSet
<1>2. Adds(total)
  <2>1. AddedUp(sc, {}) = 0
    BY DEF AddedUp, ScoreOf
  <2>2. ASSUME NEW S \in SUBSET Users, S # {}
        PROVE  AddedUp(sc, S) = sc[Pick(S)] + AddedUp(sc, S \ {Pick(S)})
    <3>1. Pick(S) \in S
      BY <2>2
    <3> HIDE DEF Pick
    <3> QED BY <3>1, TakeOneAway
  <2> QED BY <2>1, <2>2
<1>3. Adds(sum)
  BY <1>2
<1> HIDE DEF sum
<1> DEFINE Right == {n \in Nat : \A S \in SUBSET Users :
                        Cardinality(S) = n => sum[S] = AddedUp(sc, S)}
<1>4. IsFiniteSet(Users)
  BY SizeAssumption, FS_Interval DEF Users
<1>5. 0 \in Right
  <2>1. ASSUME NEW S \in SUBSET Users, Cardinality(S) = 0 PROVE S = {}
    BY <1>4, <2>1, FS_Subset, FS_EmptySet
  <2>2. sum[{}] = 0
    BY <1>3
  <2> QED BY <2>1, <2>2 DEF AddedUp, ScoreOf
<1>6. ASSUME NEW n \in Nat, n \in Right PROVE n + 1 \in Right
  <2> SUFFICES ASSUME NEW S \in SUBSET Users, Cardinality(S) = n + 1
               PROVE  sum[S] = AddedUp(sc, S)
    BY DEF Right
  <2>1. S # {} /\ IsFiniteSet(S)
    BY <1>4, FS_Subset, FS_EmptySet
  <2>2. Pick(S) \in S
    BY <2>1
  <2>3. Cardinality(S \ {Pick(S)}) = n
    <3> HIDE DEF Pick
    <3> QED BY <2>1, <2>2, FS_RemoveElement
  <2>4. sum[S \ {Pick(S)}] = AddedUp(sc, S \ {Pick(S)})
    BY <1>6, <2>3
  <2>5. sum[S] = sc[Pick(S)] + sum[S \ {Pick(S)}]
    BY <1>3, <2>1
  <2> QED BY <2>2, <2>4, <2>5, TakeOneAway
<1>7. Cardinality(Users) \in Nat /\ Nat \subseteq Right
  BY <1>4, <1>5, <1>6, EveryNumber, FS_CardinalityType
<1> QED BY <1>1, <1>7 DEF Right

LEMMA ScoresAddUpSum ==
    /\ ScoresAddUp <=> ScoreSum(game.score) + Cardinality(Live) = NumItem
    /\ ScoresAddUp' <=> ScoreSum(game'.score) + Cardinality(Live)' = NumItem
<1>1. ScoresAddUp <=> ScoreSum(game.score) + Cardinality(Live) = NumItem
  BY Zenon DEF ScoresAddUp, ScoreSum
<1>2. ScoresAddUp' <=> ScoreSum(game'.score) + Cardinality(Live)' = NumItem
  BY DEF ScoresAddUp, ScoreSum, FoldFunction, FoldFunctionOnSet, MapThenFoldSet
<1> QED BY <1>1, <1>2

\* No item is scored twice or for nobody (score_up, move): the scores account
\* for the items that have left the board.
THEOREM EveryItemScored == Spec => []ScoresAddUp
<1>1. Init => ScoresAddUp
  <2> SUFFICES ASSUME Init PROVE ScoresAddUp
    OBVIOUS
  <2>1. game.score = [u \in Users |-> 0] /\ game.score \in [Users -> Nat]
    BY DEF Init, InitialGame
  <2>2. ScoreSum(game.score) = 0
    BY <2>1, FoldAddsUp DEF AddedUp, ScoreOf
  <2>3. Inv /\ game.current_num_item = NumItem
    BY InitInv DEF Init, InitialGame
  <2> QED BY <2>2, <2>3, SizeAssumption, ScoresAddUpSum DEF Inv, ItemsCounted
<1>2. ScoresAddUp /\ Inv /\ Inv' /\ [Next]_vars => ScoresAddUp'
  <2> SUFFICES ASSUME ScoresAddUp, Inv, Inv', [Next]_vars PROVE ScoresAddUp'
    OBVIOUS
  <2>1. /\ Cardinality(Live) = game.current_num_item
        /\ Cardinality(Live)' = game'.current_num_item
        /\ game.current_num_item \in Int /\ game'.current_num_item \in Int
        /\ game.score \in [Users -> Nat] /\ game'.score \in [Users -> Nat]
    BY DEF Inv, ItemsCounted, TypeOK, Games
  <2>2. /\ ScoreSum(game.score) = AddedUp(game.score, Users)
        /\ ScoreSum(game'.score) = AddedUp(game'.score, Users)
    BY <2>1, FoldAddsUp
  <2>3. CASE game'.score = game.score /\ game'.current_num_item = game.current_num_item
    BY <2>1, <2>3, ScoresAddUpSum
  <2>4. ASSUME NEW cmd \in Commands, HandleMove(cmd) PROVE ScoresAddUp'
    <3> DEFINE u == UserOf(cmd)
    <3>1. \/ PlainStep(game, game', cmd) \/ Push(game, game', cmd)
          \/ Score(game, game', cmd)
      BY <2>4, MoveCases DEF HandleMove, Inv, TypeOK, MapInSync, GameInv
    <3>2. CASE Score(game, game', cmd)
      <4>1. /\ u \in Users
            /\ game'.score = [game.score EXCEPT ![u] = @ + 1]
            /\ game'.current_num_item = game.current_num_item - 1
        BY <3>2, CommandParts DEF Score
      <4>2. /\ AddedUp(game.score, Users)
                  = game.score[u] + AddedUp(game.score, Users \ {u})
            /\ AddedUp(game'.score, Users)
                  = game'.score[u] + AddedUp(game'.score, Users \ {u})
        BY <2>1, <4>1, TakeOneAway
      <4>3. /\ AddedUp(game.score, Users \ {u}) = AddedUp(game'.score, Users \ {u})
            /\ AddedUp(game.score, Users \ {u}) \in Nat
        BY <2>1, <4>1 DEF AddedUp, ScoreOf
      <4>4. game'.score[u] = game.score[u] + 1 /\ game.score[u] \in Nat
        BY <2>1, <4>1
      <4> QED BY <2>1, <2>2, <4>1, <4>2, <4>3, <4>4, SizeAssumption, ScoresAddUpSum
    <3> QED BY <2>3, <3>1, <3>2 DEF PlainStep, Push, SameCounts
  <2>5. CASE UNCHANGED vars \/ HandleEnd \/ HandleTimeout
             \/ \E cmd \in Commands : HandleInvalid(cmd)
    BY <2>3, <2>5 DEF vars, HandleEnd, HandleTimeout, HandleInvalid
  <2> QED BY <2>4, <2>5 DEF Next
<1> QED BY <1>1, <1>2, InvAlways, PTL DEF Spec
=============================================================================
