------------------------- MODULE SinglePlay_proofs -------------------------
(***************************************************************************)
(* The single player game implements the client's game loop, on every      *)
(* board.  Besides the type of the game the proof needs that the label     *)
(* already says GAME OVER when no item is left: handle_cmd writes it again *)
(* after every move, the single player game only after the last score.     *)
(***************************************************************************)
EXTENDS SinglePlay, PushRules_proofs

OverIsShown == game.current_num_item <= 0 => info = "over"

SingleInv == SingleTypeOK /\ GameInv(game) /\ OverIsShown

LEMMA InitSingleInv == SingleInit => SingleInv
<1> SUFFICES ASSUME SingleInit PROVE SingleInv
  OBVIOUS
<1>1. Positions(UserStart, ItemStart)
  BY PlaceAssumption DEF Positions
<1>2. UpdateCell(UserStart, ItemStart) \in [Cells -> BoardValues]
  BY <1>1, UpdateCellType
<1>3. GameInv(game)
  BY <1>1, <1>2, SizeAssumption
     DEF SingleInit, InitialGame, Games, Positions, GameInv
<1>4. OverIsShown
  BY SingleAssumption, SizeAssumption DEF SingleInit, InitialGame, OverIsShown
<1> QED BY <1>3, <1>4 DEF SingleInit, SingleInv, SingleTypeOK, GameInv

(***************************************************************************)
(* The instance of PushGame brings a copy of the rules of its own; with    *)
(* the same constants it is the same rules.                                *)
(***************************************************************************)
LEMMA SameConstants ==
    /\ Multi!Users = Users /\ Multi!Items = Items /\ Multi!Cells = Cells
    /\ Multi!Removed = Removed /\ Multi!Commands = Commands
    /\ Multi!EMPTY = EMPTY /\ Multi!BLOCK = BLOCK /\ Multi!ITEM = ITEM
    /\ Multi!BASE = BASE
BY DEF Multi!Users, Users, Multi!Items, Items, Multi!Cells, Cells, Multi!Removed,
       Removed, Multi!Commands, Commands, Multi!EMPTY, EMPTY, Multi!BLOCK, BLOCK,
       Multi!ITEM, ITEM, Multi!BASE, BASE

LEMMA SameBoard ==
    \A ul, il : Multi!UpdateCell(ul, il) = UpdateCell(ul, il)
<1> TAKE ul, il
<1>1. ASSUME NEW c PROVE Multi!UserPaint(ul, c) = UserPaint(ul, c)
  BY SameConstants
     DEF Multi!UserPaint, UserPaint, Multi!PaintersAt, PaintersAt, Multi!Last, Last,
         Multi!BaseId, BaseId, Multi!UserId, UserId
<1>2. ASSUME NEW c PROVE Multi!CellPaint(ul, il, c) = CellPaint(ul, il, c)
  BY <1>1, SameConstants
     DEF Multi!CellPaint, CellPaint, Multi!ItemsAt, ItemsAt, Multi!Last, Last,
         Multi!ItemIdxToId, ItemIdxToId
<1> QED BY <1>2, SameConstants DEF Multi!UpdateCell, UpdateCell

LEMMA SameTargets ==
    \A g, cmd : /\ Multi!Target(g, cmd) = Target(g, cmd)
                /\ Multi!ItemTarget(g, cmd) = ItemTarget(g, cmd)
BY DEF Multi!Target, Target, Multi!ItemTarget, ItemTarget, Multi!Ahead, Ahead,
       Multi!UserOf, UserOf, Multi!UP, UP, Multi!DOWN, DOWN, Multi!LEFT, LEFT,
       Multi!RIGHT, RIGHT

LEMMA SameUpdate ==
    \A g, id, c : Multi!UpdateModel(g, id, c) = UpdateModel(g, id, c)
BY SameBoard, SameConstants
   DEF Multi!UpdateModel, UpdateModel, Multi!ItemIdToIdx, ItemIdToIdx

LEMMA SameRules ==
    \A g, cmd, m : /\ Multi!CheckValidation(g, cmd) = CheckValidation(g, cmd)
                   /\ Multi!Move(g, cmd, m) = Move(g, cmd, m)
<1> TAKE g, cmd, m
<1>1. Multi!CheckValidation(g, cmd) = CheckValidation(g, cmd)
  BY SameTargets, SameConstants
     DEF Multi!CheckValidation, CheckValidation, Multi!Walkable, Walkable,
         Multi!BaseId, BaseId, Multi!UserId, UserId, Multi!UserOf, UserOf
<1>2. Multi!MoveItem(g, cmd, m) = MoveItem(g, cmd, m)
  BY SameTargets, SameUpdate, SameConstants
     DEF Multi!MoveItem, MoveItem, Multi!ScoreUp, ScoreUp, Multi!UserOf, UserOf
<1>3. Multi!Move(g, cmd, m) = Move(g, cmd, m)
  BY <1>2, SameTargets, SameUpdate
     DEF Multi!Move, Move, Multi!UserId, UserId, Multi!UserOf, UserOf
<1> QED BY <1>1, <1>3

\* Every key is a command of the one user.
LEMMA KeysAreCommands ==
    ASSUME NEW key \in Keys PROVE CmdOf(key) \in Commands
<1>1. Span(key) \in 0 .. 3
  BY DEF Keys, Span, UP, DOWN, LEFT, RIGHT
<1> QED BY <1>1, SingleAssumption, SizeAssumption DEF CmdOf, Commands, MyId, Users

\* The counter goes down exactly when the movement scores, that is, exceeds
\* -ITEM.
LEMMA ScoringCounts ==
    ASSUME NEW g, GameInv(g), NEW cmd \in Commands, CheckValidation(g, cmd) # 0
    PROVE  LET v == CheckValidation(g, cmd)
               h == Move(g, cmd, v)
           IN  h.current_num_item = IF v > -ITEM THEN g.current_num_item - 1
                                                 ELSE g.current_num_item
<1> DEFINE v == CheckValidation(g, cmd)
           h == Move(g, cmd, v)
<1>1. PlainStep(g, h, cmd) \/ Push(g, h, cmd) \/ Score(g, h, cmd)
  BY MoveCases
<1>2. CASE PlainStep(g, h, cmd)
  BY <1>2 DEF PlainStep, SameCounts, ITEM
<1>3. CASE Push(g, h, cmd)
  <2>1. PICK i \in Items : v = ItemIdxToId(i) /\ SameCounts(g, h)
    BY <1>3 DEF Push
  <2> QED BY <2>1, ObjectNumbers DEF SameCounts, ITEM
<1>4. CASE Score(g, h, cmd)
  <2>1. PICK i \in Items :
          v = -ItemIdxToId(i) /\ h.current_num_item = g.current_num_item - 1
    BY <1>4 DEF Score
  <2> QED BY <2>1, ObjectNumbers DEF ITEM
<1> QED BY <1>1, <1>2, <1>3, <1>4

\* One key press, as a step of the client's game loop.
LEMMA PressIsHandled ==
    ASSUME SingleInv, NEW key \in Keys, Press(key)
    PROVE  SingleInv' /\ (Multi!HandleMove(CmdOf(key)) \/ UNCHANGED singleVars)
<1> DEFINE cmd == CmdOf(key)
           v == CheckValidation(game, cmd)
<1>1. cmd \in Commands
  BY KeysAreCommands
<1>2. CASE v = 0
  <2>1. UNCHANGED singleVars
    BY <1>2 DEF Press
  <2> QED BY <2>1 DEF singleVars, SingleInv, SingleTypeOK, OverIsShown
<1>3. CASE v # 0
  <2>1. game' = Move(game, cmd, v) /\ info' = InfoAfterMove(v)
    BY <1>3 DEF Press
  <2>2. GameInv(game')
    BY <1>1, <1>3, <2>1, MoveCases DEF SingleInv
  <2>3. game'.current_num_item = IF v > -ITEM THEN game.current_num_item - 1
                                              ELSE game.current_num_item
    BY <1>1, <1>3, <2>1, ScoringCounts DEF SingleInv
  <2>4. info' = Multi!InfoAfter(v, game')
    BY <2>1, <2>3, SameConstants DEF InfoAfterMove, Multi!InfoAfter, SingleInv, OverIsShown
  <2>5. SingleInv'
    BY <2>1, <2>2, <2>3 DEF InfoAfterMove, SingleInv, SingleTypeOK, OverIsShown, GameInv
  <2>6. Multi!HandleMove(cmd)
    BY <1>3, <2>1, <2>4, SameRules DEF Multi!HandleMove
  <2> QED BY <2>5, <2>6
<1> QED BY <1>2, <1>3

LEMMA NextSingleInv == SingleInv /\ [SingleNext]_singleVars => SingleInv'
<1> SUFFICES ASSUME SingleInv, [SingleNext]_singleVars PROVE SingleInv'
  OBVIOUS
<1>1. CASE SingleNext
  BY <1>1, PressIsHandled DEF SingleNext
<1>2. CASE UNCHANGED singleVars
  BY <1>2 DEF singleVars, SingleInv, SingleTypeOK, OverIsShown
<1> QED BY <1>1, <1>2

\* on_key_press never takes an object off the board, and the label and the
\* game stay well typed.
THEOREM SingleTypeCorrect == SingleSpec => []SingleTypeOK
<1>1. SingleInv => SingleTypeOK
  BY DEF SingleInv
<1> QED BY <1>1, InitSingleInv, NextSingleInv, PTL DEF SingleSpec

\* on_key_press with its own move and gameover does to boards, scores and
\* label what handle_cmd does when the commands of one user arrive.
THEOREM SingleImplementsGame == SingleSpec => PlaysByTheRules
<1>1. SingleInit => Multi!Init
  BY SameBoard, SameConstants
     DEF SingleInit, InitialGame, Multi!Init, Multi!InitialGame
<1>2. SingleInv /\ [SingleNext]_singleVars => [Multi!Next]_(Multi!vars)
  <2> SUFFICES ASSUME SingleInv, [SingleNext]_singleVars
               PROVE  [Multi!Next]_(Multi!vars)
    OBVIOUS
  <2>1. ASSUME NEW key \in Keys, Press(key) PROVE [Multi!Next]_(Multi!vars)
    <3>1. CmdOf(key) \in Commands
      BY KeysAreCommands
    <3>2. CASE Multi!HandleMove(CmdOf(key))
      BY <3>1, <3>2, SameConstants DEF Multi!Next
    <3>3. CASE UNCHANGED singleVars
      BY <3>3 DEF singleVars, Multi!vars
    <3> QED BY <2>1, <3>2, <3>3, PressIsHandled
  <2>2. CASE UNCHANGED singleVars
    BY <2>2 DEF singleVars, Multi!vars
  <2> QED BY <2>1, <2>2 DEF SingleNext
<1> QED BY <1>1, <1>2, InitSingleInv, NextSingleInv, PTL
     DEF SingleSpec, PlaysByTheRules, Multi!Spec
=============================================================================
