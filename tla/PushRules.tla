----------------------------- MODULE PushRules -----------------------------
(***************************************************************************)
(* The rules of PushPush as the client computes them: the board that       *)
(* update_cell draws from the object positions, the test check_validation  *)
(* makes on that board, and the update that move performs.                 *)
(*                                                                         *)
(* The state of one client's game is a record, the C globals `Model`,      *)
(* `map` and `current_num_item` gathered in one value, so that the same    *)
(* rules serve one client (PushGame) and several of them.                  *)
(*                                                                         *)
(* A position is <<x, y>>; the C array is indexed map[y][x].               *)
(***************************************************************************)
EXTENDS Integers

CONSTANTS
    MaxUser,      \* Model.max_user
    MapWidth,     \* Model.map_width
    MapHeight,    \* Model.map_height
    NumItem,      \* num_item, the length of "item_location"
    UserStart,    \* user index -> "location"
    BaseLoc,      \* user index -> "base"
    ItemStart,    \* item index -> entry of "item_location"
    BlockLoc      \* the set of entries of "block_location"

Users == 0 .. MaxUser - 1
Items == 0 .. NumItem - 1
Cells == (0 .. MapWidth - 1) \X (0 .. MapHeight - 1)

\* The position move gives to an item that has reached its pusher's base.
Removed == <<-1, -1>>

EMPTY == 0
BLOCK == -1
ITEM  == -9     \* items are below it: -10, -20, ...
BASE  == 9      \* bases are above it: 10, 20, ...

(***************************************************************************)
(* What the game file must satisfy.  The server has MAX_USER = 4 slots.    *)
(* The client allocates map_width rows of map_height cells and indexes     *)
(* them [y][x], so only a square map stays inside its allocation.          *)
(***************************************************************************)
ASSUME SizeAssumption ==
    /\ MaxUser \in 1 .. 4
    /\ NumItem \in Nat
    /\ MapWidth \in Nat
    /\ MapHeight = MapWidth

ASSUME PlaceAssumption ==
    /\ UserStart \in [Users -> Cells]
    /\ BaseLoc \in [Users -> Cells]
    /\ ItemStart \in [Items -> Cells]
    /\ BlockLoc \subseteq Cells

IsBaseCell(c) == \E u \in Users : BaseLoc[u] = c

\* A board drawn by a sane author: nothing inside a block, one base per cell,
\* one item per cell, and no two objects of any kind in a cell without a base.
ASSUME LayoutAssumption ==
    /\ \A u, v \in Users : BaseLoc[u] = BaseLoc[v] => u = v
    /\ \A i, j \in Items : ItemStart[i] = ItemStart[j] => i = j
    /\ \A u \in Users : UserStart[u] \notin BlockLoc /\ BaseLoc[u] \notin BlockLoc
    /\ \A i \in Items : ItemStart[i] \notin BlockLoc
    /\ \A u, v \in Users :
           u # v /\ UserStart[u] = UserStart[v] => IsBaseCell(UserStart[u])
    /\ \A u \in Users, i \in Items :
           UserStart[u] = ItemStart[i] => IsBaseCell(UserStart[u])

-----------------------------------------------------------------------------
(* Object numbers, as they appear on the board.                            *)

UserId(u) == u + 1
BaseId(u) == UserId(u) * 10
ItemIdxToId(i)  == -((i + 1) * 10)
ItemIdToIdx(id) == ((-id) \div 10) - 1

BoardValues ==
    {EMPTY, BLOCK} \cup {UserId(u) : u \in Users} \cup {BaseId(u) : u \in Users}
        \cup {ItemIdxToId(i) : i \in Items}

-----------------------------------------------------------------------------
(***************************************************************************)
(* update_cell.  It paints users and bases in index order, the base of a   *)
(* user after the user, then the blocks, then the items that are left: in  *)
(* every cell the last painter wins.                                       *)
(***************************************************************************)
Last(S) == CHOOSE m \in S : \A n \in S : n <= m

ItemsAt(item_loc, c) == {i \in Items : item_loc[i] = c}
PaintersAt(user_loc, c) == {u \in Users : user_loc[u] = c \/ BaseLoc[u] = c}

UserPaint(user_loc, c) ==
    LET painters == PaintersAt(user_loc, c)
        u == Last(painters)
    IN  IF painters = {} THEN EMPTY
        ELSE IF BaseLoc[u] = c THEN BaseId(u) ELSE UserId(u)

CellPaint(user_loc, item_loc, c) ==
    IF ItemsAt(item_loc, c) # {} THEN ItemIdxToId(Last(ItemsAt(item_loc, c)))
    ELSE IF c \in BlockLoc THEN BLOCK
    ELSE UserPaint(user_loc, c)

UpdateCell(user_loc, item_loc) ==
    [c \in Cells |-> CellPaint(user_loc, item_loc, c)]

-----------------------------------------------------------------------------
(***************************************************************************)
(* The game state, and the one parseJson and the first update_cell leave.  *)
(***************************************************************************)
Games ==
    [user_loc : [Users -> Cells],
     item_loc : [Items -> Cells \cup {Removed}],
     score : [Users -> Nat],
     current_num_item : Int,
     map : [Cells -> BoardValues]]

InitialGame ==
    [user_loc |-> UserStart,
     item_loc |-> ItemStart,
     score |-> [u \in Users |-> 0],
     current_num_item |-> NumItem,
     map |-> UpdateCell(UserStart, ItemStart)]

-----------------------------------------------------------------------------
(***************************************************************************)
(* A command is 4 * user + span; 4 * MaxUser is the end of the game.       *)
(***************************************************************************)
UP == 0
DOWN == 1
LEFT == 2
RIGHT == 3

Commands == 0 .. 4 * MaxUser - 1
EndEvent == 4 * MaxUser

UserOf(cmd) == cmd \div 4

\* The next cell from c in the direction of cmd; it may lie off the board.
Ahead(cmd, c) ==
    CASE cmd % 4 = UP    -> <<c[1], c[2] - 1>>
      [] cmd % 4 = DOWN  -> <<c[1], c[2] + 1>>
      [] cmd % 4 = LEFT  -> <<c[1] - 1, c[2]>>
      [] cmd % 4 = RIGHT -> <<c[1] + 1, c[2]>>

Target(g, cmd) == Ahead(cmd, g.user_loc[UserOf(cmd)])
ItemTarget(g, cmd) == Ahead(cmd, Target(g, cmd))

\* Fault: an occupied cell counts as free.
Walkable_Occupied(value) == value >= EMPTY

Walkable(value) == value = EMPTY \/ value > BASE

\* Fault: an item is home on anybody's base.
CheckValidation_AnyBase(g, cmd) ==
    LET t == Target(g, cmd)
        it == ItemTarget(g, cmd)
    IN  CASE t \notin Cells -> 0
          [] t \in Cells /\ Walkable(g.map[t]) -> 1
          [] t \in Cells /\ g.map[t] < ITEM /\ it \in Cells /\ g.map[it] > BASE -> -g.map[t]
          [] t \in Cells /\ g.map[t] < ITEM /\ it \in Cells /\ g.map[it] = EMPTY -> g.map[t]
          [] OTHER -> 0

(***************************************************************************)
(* check_validation: 0 refuses, 1 is a plain step, a negative number is    *)
(* the item that is pushed, a positive one the item pushed home, negated.  *)
(* The four cases of the C switch differ only in the direction.            *)
(***************************************************************************)
CheckValidation(g, cmd) ==
    LET t == Target(g, cmd)
        it == ItemTarget(g, cmd)
    IN  CASE t \notin Cells -> 0
          [] t \in Cells /\ Walkable(g.map[t]) -> 1
          [] /\ t \in Cells /\ g.map[t] < ITEM
             /\ it \in Cells /\ g.map[it] = BaseId(UserOf(cmd)) -> -g.map[t]
          [] /\ t \in Cells /\ g.map[t] < ITEM
             /\ it \in Cells /\ Walkable(g.map[it])
             /\ g.map[it] # BaseId(UserOf(cmd)) -> g.map[t]
          [] OTHER -> 0

-----------------------------------------------------------------------------
\* Fault: the board is not painted again.
UpdateModel_NoPaint(g, id, c) ==
    IF id < ITEM THEN [g EXCEPT !.item_loc[ItemIdToIdx(id)] = c]
                 ELSE [g EXCEPT !.user_loc[id - 1] = c]

\* update_model: one object moves and the board is painted again.
UpdateModel(g, id, c) ==
    LET moved == IF id < ITEM
                 THEN [g EXCEPT !.item_loc[ItemIdToIdx(id)] = c]
                 ELSE [g EXCEPT !.user_loc[id - 1] = c]
    IN  [moved EXCEPT !.map = UpdateCell(moved.user_loc, moved.item_loc)]

ScoreUp(g, u) == [g EXCEPT !.score[u] = @ + 1]

\* Fault: an item that is home is scored and left on the board.
MoveItem_NotRemoved(g, cmd, movement) ==
    IF movement < ITEM THEN UpdateModel(g, movement, ItemTarget(g, cmd))
    ELSE IF movement > -ITEM
    THEN [ScoreUp(UpdateModel(g, -movement, ItemTarget(g, cmd)), UserOf(cmd))
             EXCEPT !.current_num_item = @ - 1]
    ELSE g

\* Fault: an item that is home is not counted.
MoveItem_NotCounted(g, cmd, movement) ==
    IF movement < ITEM THEN UpdateModel(g, movement, ItemTarget(g, cmd))
    ELSE IF movement > -ITEM
    THEN ScoreUp(UpdateModel(g, -movement, Removed), UserOf(cmd))
    ELSE g

MoveItem(g, cmd, movement) ==
    IF movement < ITEM THEN UpdateModel(g, movement, ItemTarget(g, cmd))
    ELSE IF movement > -ITEM
    THEN [ScoreUp(UpdateModel(g, -movement, Removed), UserOf(cmd))
             EXCEPT !.current_num_item = @ - 1]
    ELSE g

\* Fault: the user steps first, and the item's target is computed from there.
Move_UserFirst(g, cmd, movement) ==
    MoveItem(UpdateModel(g, UserId(UserOf(cmd)), Target(g, cmd)), cmd, movement)

\* move: both targets are computed before anything is written.
Move(g, cmd, movement) ==
    UpdateModel(MoveItem(g, cmd, movement), UserId(UserOf(cmd)), Target(g, cmd))
=============================================================================
