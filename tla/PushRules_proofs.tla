-------------------------- MODULE PushRules_proofs --------------------------
(***************************************************************************)
(* What the painted board tells check_validation, and what a move that it  *)
(* accepts does to the positions, for every board.                         *)
(***************************************************************************)
EXTENDS PushRules, WellFoundedInduction, TLAPS

Positions(ul, il) ==
    ul \in [Users -> Cells] /\ il \in [Items -> Cells \cup {Removed}]

\* The natural numbers are well ordered.
LEMMA SmallestMember ==
    ASSUME NEW R \in SUBSET Nat, R # {}
    PROVE  \E m \in R : \A n \in R : m <= n
<1> DEFINE Less == {p \in Nat \X Nat : p[1] < p[2]}
<1>1. IsWellFoundedOn(Less, Nat)
  BY NatLessThanWellFounded DEF OpToRel
<1>2. PICK m \in R : \A n \in R : ~ (<<n, m>> \in Less)
  <2> HIDE DEF Less
  <2> QED BY <1>1, WFMin
<1>3. ASSUME NEW n \in R PROVE m <= n
  <2>1. m \in Nat /\ n \in Nat /\ ~ (<<n, m>> \in Less)
    BY <1>2
  <2>2. <<n, m>> \in Less <=> n < m
    BY <2>1
  <2> QED BY <2>1, <2>2
<1> QED BY <1>3

\* Induction over the natural numbers, for a set of them.
LEMMA EveryNumber ==
    ASSUME NEW S, 0 \in S, \A n \in Nat : n \in S => n + 1 \in S
    PROVE  Nat \subseteq S
<1> SUFFICES ASSUME Nat \ S # {} PROVE FALSE
  OBVIOUS
<1>1. PICK m \in Nat \ S : \A n \in Nat \ S : m <= n
  BY SmallestMember
<1>2. m - 1 \in Nat /\ (m - 1) + 1 = m
  BY <1>1
<1>3. m - 1 \in S
  BY <1>1, <1>2
<1> QED BY <1>2, <1>3

\* The last painter of a cell exists: a set of indices has a largest one.
LEMMA LastIsLargest ==
    ASSUME NEW K \in Nat, NEW S \in SUBSET (0 .. K), S # {}
    PROVE  Last(S) \in S /\ \A n \in S : n <= Last(S)
<1> DEFINE R == {n \in 0 .. K : K - n \in S}
<1>1. R \in SUBSET Nat
  OBVIOUS
<1>2. R # {}
  <2>1. PICK s \in S : TRUE
    OBVIOUS
  <2>2. K - s \in 0 .. K /\ K - (K - s) = s
    BY <2>1
  <2> QED BY <2>1, <2>2
<1>3. PICK r \in R : \A n \in R : r <= n
  BY <1>1, <1>2, SmallestMember
<1>4. K - r \in S
  BY <1>3
<1>5. \A n \in S : n <= K - r
  <2> TAKE n \in S
  <2>1. n \in 0 .. K /\ K - n \in 0 .. K /\ K - (K - n) = n
    OBVIOUS
  <2>2. K - n \in R
    BY <2>1
  <2> QED BY <1>3, <2>1, <2>2
<1>6. \E m \in S : \A n \in S : n <= m
  BY <1>4, <1>5
<1> QED BY <1>6 DEF Last

\* Object numbers do not collide.
LEMMA ObjectNumbers ==
    /\ \A u \in Users : UserId(u) \in 1 .. 4 /\ BaseId(u) \in 10 .. 40
    /\ \A u, v \in Users : BaseId(u) = BaseId(v) => u = v
    /\ \A i \in Items : ItemIdxToId(i) \in Int /\ ItemIdxToId(i) < ITEM
                        /\ ItemIdToIdx(ItemIdxToId(i)) = i
BY SizeAssumption, SMT
   DEF Users, Items, UserId, BaseId, ItemIdxToId, ItemIdToIdx, ITEM

LEMMA BoardValuesAreInts == BoardValues \subseteq Int
BY ObjectNumbers DEF BoardValues, EMPTY, BLOCK

\* What a painted cell shows is there, and it hides nothing but users.
LEMMA PaintedCell ==
    ASSUME NEW ul, NEW il, Positions(ul, il), NEW c \in Cells
    PROVE  LET v == CellPaint(ul, il, c) IN
           /\ v \in BoardValues
           /\ v < ITEM => \E i \in Items : il[i] = c /\ v = ItemIdxToId(i)
           /\ Walkable(v) => c \notin BlockLoc /\ \A i \in Items : il[i] # c
           /\ v = EMPTY => \A u \in Users : ul[u] # c
           /\ v > BASE => \E u \in Users : BaseLoc[u] = c /\ v = BaseId(u)
<1> DEFINE v == CellPaint(ul, il, c)
           items == ItemsAt(il, c)
           painters == PaintersAt(ul, c)
<1>1. CASE items # {}
  <2>1. items \in SUBSET Items /\ NumItem - 1 \in Nat
    BY <1>1, SizeAssumption DEF ItemsAt, Items
  <2>2. items \in SUBSET (0 .. (NumItem - 1))
    BY <2>1 DEF Items
  <2>3. Last(items) \in items
    BY <1>1, <2>1, <2>2, LastIsLargest
  <2>4. Last(items) \in Items /\ il[Last(items)] = c
    BY <2>3 DEF ItemsAt
  <2>5. v = ItemIdxToId(Last(items))
    BY <1>1 DEF CellPaint
  <2>6. v \in Int /\ v < ITEM
    BY <2>4, <2>5, ObjectNumbers
  <2>7. ~Walkable(v) /\ v # EMPTY /\ ~(v > BASE)
    BY <2>6 DEF Walkable, EMPTY, ITEM, BASE
  <2>8. v \in BoardValues
    BY <2>4, <2>5 DEF BoardValues
  <2> QED BY <2>4, <2>5, <2>7, <2>8
<1>2. CASE items = {} /\ c \in BlockLoc
  <2>1. v = BLOCK
    BY <1>2 DEF CellPaint
  <2> QED BY <2>1 DEF BLOCK, ITEM, Walkable, EMPTY, BASE, BoardValues
<1>3. CASE items = {} /\ c \notin BlockLoc /\ painters = {}
  <2>1. v = EMPTY
    BY <1>3 DEF CellPaint, UserPaint
  <2>2. \A u \in Users : ul[u] # c
    BY <1>3 DEF PaintersAt
  <2>3. \A i \in Items : il[i] # c
    BY <1>3 DEF ItemsAt
  <2>4. v \in BoardValues
    BY <2>1 DEF BoardValues
  <2> QED BY <1>3, <2>1, <2>2, <2>3, <2>4 DEF ITEM, EMPTY, BASE
<1>4. CASE items = {} /\ c \notin BlockLoc /\ painters # {}
  <2> DEFINE u == Last(painters)
  <2>1. painters \in SUBSET (0 .. (MaxUser - 1)) /\ MaxUser - 1 \in Nat
    BY SizeAssumption DEF PaintersAt, Users
  <2>2. u \in painters
    BY <1>4, <2>1, LastIsLargest
  <2>3. u \in Users
    BY <2>2 DEF PaintersAt
  <2>4. v = IF BaseLoc[u] = c THEN BaseId(u) ELSE UserId(u)
    BY <1>4 DEF CellPaint, UserPaint
  <2>5. UserId(u) \in 1 .. 4 /\ BaseId(u) \in 10 .. 40
    BY <2>3, ObjectNumbers
  <2>6. v \in BoardValues
    BY <2>3, <2>4 DEF BoardValues
  <2>7. \A i \in Items : il[i] # c
    BY <1>4 DEF ItemsAt
  <2>8. v \in Int /\ ~(v < ITEM) /\ v # EMPTY
    BY <2>4, <2>5 DEF ITEM, EMPTY
  <2>9. v > BASE => BaseLoc[u] = c /\ v = BaseId(u)
    BY <2>4, <2>5 DEF BASE
  <2> QED BY <1>4, <2>3, <2>6, <2>7, <2>8, <2>9
<1> QED BY <1>1, <1>2, <1>3, <1>4

LEMMA UpdateCellType ==
    ASSUME NEW ul, NEW il, Positions(ul, il)
    PROVE  /\ UpdateCell(ul, il) \in [Cells -> BoardValues]
           /\ \A c \in Cells : UpdateCell(ul, il)[c] = CellPaint(ul, il, c)
BY PaintedCell DEF UpdateCell

-----------------------------------------------------------------------------
\* update_model on an item changes that item and the board.
LEMMA UpdateModelItem ==
    ASSUME NEW g \in Games, NEW i \in Items, NEW c \in Cells \cup {Removed}
    PROVE  LET h == UpdateModel(g, ItemIdxToId(i), c) IN
           /\ h \in Games
           /\ h.user_loc = g.user_loc
           /\ h.item_loc = [g.item_loc EXCEPT ![i] = c]
           /\ h.score = g.score
           /\ h.current_num_item = g.current_num_item
           /\ h.map = UpdateCell(h.user_loc, h.item_loc)
<1> DEFINE il == [g.item_loc EXCEPT ![i] = c]
           h == UpdateModel(g, ItemIdxToId(i), c)
<1>1. ItemIdxToId(i) < ITEM /\ ItemIdToIdx(ItemIdxToId(i)) = i
  BY ObjectNumbers
<1>2. h = [[g EXCEPT !.item_loc = il] EXCEPT !.map = UpdateCell(g.user_loc, il)]
  BY <1>1 DEF UpdateModel, Games
<1>3. Positions(g.user_loc, il)
  BY DEF Games, Positions
<1>4. UpdateCell(g.user_loc, il) \in [Cells -> BoardValues]
  BY <1>3, UpdateCellType
<1> QED BY <1>2, <1>3, <1>4 DEF Games, Positions

\* update_model on a user changes that user's place and the board.
LEMMA UpdateModelUser ==
    ASSUME NEW g \in Games, NEW u \in Users, NEW c \in Cells
    PROVE  LET h == UpdateModel(g, UserId(u), c) IN
           /\ h \in Games
           /\ h.user_loc = [g.user_loc EXCEPT ![u] = c]
           /\ h.item_loc = g.item_loc
           /\ h.score = g.score
           /\ h.current_num_item = g.current_num_item
           /\ h.map = UpdateCell(h.user_loc, h.item_loc)
<1> DEFINE ul == [g.user_loc EXCEPT ![u] = c]
           h == UpdateModel(g, UserId(u), c)
<1>1. ~(UserId(u) < ITEM) /\ UserId(u) - 1 = u
  BY SizeAssumption DEF UserId, ITEM, Users
<1>2. h = [[g EXCEPT !.user_loc = ul] EXCEPT !.map = UpdateCell(ul, g.item_loc)]
  BY <1>1 DEF UpdateModel, Games
<1>3. Positions(ul, g.item_loc)
  BY DEF Games, Positions
<1>4. UpdateCell(ul, g.item_loc) \in [Cells -> BoardValues]
  BY <1>3, UpdateCellType
<1> QED BY <1>2, <1>3, <1>4 DEF Games, Positions

\* score_up and the decrement that follows it in move.
LEMMA CountOneItem ==
    ASSUME NEW m \in Games, NEW u \in Users
    PROVE  LET k == [ScoreUp(m, u) EXCEPT !.current_num_item = @ - 1] IN
           /\ k \in Games /\ k.user_loc = m.user_loc /\ k.item_loc = m.item_loc
           /\ k.score = [m.score EXCEPT ![u] = @ + 1]
           /\ k.current_num_item = m.current_num_item - 1
<1> DEFINE sc == [m.score EXCEPT ![u] = @ + 1]
           n == m.current_num_item - 1
           k == [ScoreUp(m, u) EXCEPT !.current_num_item = @ - 1]
<1>1. ScoreUp(m, u) = [m EXCEPT !.score = sc]
  BY DEF ScoreUp, Games
<1>2. k = [[m EXCEPT !.score = sc] EXCEPT !.current_num_item = n]
  BY <1>1 DEF Games
<1>3. sc \in [Users -> Nat] /\ n \in Int
  BY DEF Games
<1> QED BY <1>2, <1>3 DEF Games

\* A command names a user and one of the four directions.
LEMMA CommandParts ==
    ASSUME NEW cmd \in Commands
    PROVE  UserOf(cmd) \in Users /\ cmd % 4 \in {UP, DOWN, LEFT, RIGHT}
BY SizeAssumption, SMT DEF Commands, UserOf, Users, UP, DOWN, LEFT, RIGHT

(***************************************************************************)
(* The three moves that check_validation accepts: a plain step, a push     *)
(* onto a free cell or a foreign base, and a push onto the own base.       *)
(***************************************************************************)
SameCounts(g, h) ==
    h.score = g.score /\ h.current_num_item = g.current_num_item

PlainStep(g, h, cmd) ==
    /\ CheckValidation(g, cmd) = 1
    /\ Walkable(g.map[Target(g, cmd)])
    /\ h.item_loc = g.item_loc
    /\ SameCounts(g, h)

Push(g, h, cmd) ==
    \E i \in Items :
        /\ CheckValidation(g, cmd) = ItemIdxToId(i)
        /\ g.item_loc[i] = Target(g, cmd)
        /\ ItemTarget(g, cmd) \in Cells
        /\ Walkable(g.map[ItemTarget(g, cmd)])
        /\ h.item_loc = [g.item_loc EXCEPT ![i] = ItemTarget(g, cmd)]
        /\ SameCounts(g, h)

Score(g, h, cmd) ==
    \E i \in Items :
        /\ CheckValidation(g, cmd) = -ItemIdxToId(i)
        /\ g.item_loc[i] = Target(g, cmd)
        /\ ItemTarget(g, cmd) \in Cells
        /\ g.map[ItemTarget(g, cmd)] = BaseId(UserOf(cmd))
        /\ h.item_loc = [g.item_loc EXCEPT ![i] = Removed]
        /\ h.score = [g.score EXCEPT ![UserOf(cmd)] = @ + 1]
        /\ h.current_num_item = g.current_num_item - 1

GameInv(g) == g \in Games /\ g.map = UpdateCell(g.user_loc, g.item_loc)

LEMMA MoveCases ==
    ASSUME NEW g, GameInv(g), NEW cmd \in Commands, CheckValidation(g, cmd) # 0
    PROVE  LET h == Move(g, cmd, CheckValidation(g, cmd)) IN
           /\ GameInv(h)
           /\ Target(g, cmd) \in Cells
           /\ h.user_loc = [g.user_loc EXCEPT ![UserOf(cmd)] = Target(g, cmd)]
           /\ PlainStep(g, h, cmd) \/ Push(g, h, cmd) \/ Score(g, h, cmd)
<1> DEFINE u == UserOf(cmd)
           t == Target(g, cmd)
           it == ItemTarget(g, cmd)
           v == CheckValidation(g, cmd)
           h == Move(g, cmd, v)
           k == MoveItem(g, cmd, v)
<1>1. u \in Users
  BY CommandParts
<1>2. Positions(g.user_loc, g.item_loc)
  BY DEF GameInv, Games, Positions
<1>3. g \in Games /\ \A c \in Cells : g.map[c] = CellPaint(g.user_loc, g.item_loc, c)
  BY <1>2, UpdateCellType DEF GameInv
<1>4. t \in Cells
  BY DEF CheckValidation
<1>5. ASSUME k \in Games
      PROVE  /\ GameInv(h)
             /\ h.user_loc = [k.user_loc EXCEPT ![u] = t]
             /\ h.item_loc = k.item_loc
             /\ SameCounts(k, h)
  BY <1>1, <1>4, <1>5, UpdateModelUser DEF Move, GameInv, SameCounts
<1>6. CASE Walkable(g.map[t])
  <2>1. v = 1
    <3>1. ~(g.map[t] < ITEM)
      <4>1. g.map[t] \in Int
        BY <1>3, <1>4, BoardValuesAreInts DEF Games
      <4> QED BY <1>6, <4>1 DEF Walkable, EMPTY, BASE, ITEM
    <3> QED BY <1>4, <1>6, <3>1 DEF CheckValidation
  <2>2. k = g
    BY <2>1 DEF MoveItem, ITEM
  <2> QED BY <1>3, <1>4, <1>5, <1>6, <2>1, <2>2 DEF PlainStep, SameCounts
<1>7. CASE ~Walkable(g.map[t])
  <2>1. /\ g.map[t] < ITEM /\ it \in Cells
        /\ \/ g.map[it] = BaseId(u) /\ v = -g.map[t]
           \/ g.map[it] # BaseId(u) /\ Walkable(g.map[it]) /\ v = g.map[t]
    BY <1>4, <1>7 DEF CheckValidation
  <2>2. PICK i \in Items : g.item_loc[i] = t /\ g.map[t] = ItemIdxToId(i)
    BY <1>2, <1>3, <1>4, <2>1, PaintedCell
  <2>3. ItemIdxToId(i) \in Int /\ ItemIdxToId(i) < ITEM
    BY ObjectNumbers
  <2>4. CASE g.map[it] # BaseId(u)
    <3>1. v = ItemIdxToId(i) /\ Walkable(g.map[it])
      BY <2>1, <2>2, <2>4
    <3>2. k = UpdateModel(g, ItemIdxToId(i), it)
      BY <2>3, <3>1 DEF MoveItem
    <3>3. /\ k \in Games /\ k.user_loc = g.user_loc
          /\ k.item_loc = [g.item_loc EXCEPT ![i] = it] /\ SameCounts(g, k)
      BY <1>3, <2>1, <3>2, UpdateModelItem DEF SameCounts
    <3> QED BY <1>4, <1>5, <2>1, <2>2, <3>1, <3>3 DEF Push, SameCounts
  <2>5. CASE g.map[it] = BaseId(u)
    <3> DEFINE m == UpdateModel(g, ItemIdxToId(i), Removed)
    <3>1. v = -ItemIdxToId(i)
      BY <2>1, <2>2, <2>5
    <3>2. ~(v < ITEM) /\ v > -ITEM /\ -v = ItemIdxToId(i)
      BY <2>3, <3>1 DEF ITEM
    <3>3. k = [ScoreUp(m, u) EXCEPT !.current_num_item = @ - 1]
      BY <3>2 DEF MoveItem
    <3>4. /\ m \in Games /\ m.user_loc = g.user_loc
          /\ m.item_loc = [g.item_loc EXCEPT ![i] = Removed] /\ SameCounts(g, m)
      BY <1>3, UpdateModelItem DEF SameCounts
    <3>5. /\ k \in Games /\ k.user_loc = m.user_loc /\ k.item_loc = m.item_loc
          /\ k.score = [m.score EXCEPT ![u] = @ + 1]
          /\ k.current_num_item = m.current_num_item - 1
      BY <1>1, <3>3, <3>4, CountOneItem
    <3> QED BY <1>4, <1>5, <2>1, <2>2, <2>5, <3>1, <3>4, <3>5 DEF Score, SameCounts
  <2> QED BY <2>4, <2>5
<1> QED BY <1>6, <1>7
=============================================================================
