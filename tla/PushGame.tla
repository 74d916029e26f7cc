------------------------------ MODULE PushGame ------------------------------
(***************************************************************************)
(* One client's game loop: the GTK timer handle_cmd that applies the       *)
(* commands the server broadcasts, and the SIGALRM handler handle_timeout  *)
(* that ends the game.  The commands of all users arrive in an order the   *)
(* client does not choose.                                                 *)
(***************************************************************************)
EXTENDS PushRules, FiniteSets, Functions

VARIABLES
    game,       \* Model, map and current_num_item
    info,       \* what label_info shows
    running,    \* handle_cmd is still registered with g_timeout_add
    end_sent    \* the alarm has fired and its end event has been written

vars == <<game, info, running, end_sent>>

Init ==
    /\ game = InitialGame
    /\ info = "welcome"
    /\ running = TRUE
    /\ end_sent = FALSE

\* The label after a command: gameover comes last and overwrites score_up.
InfoAfter(movement, g) ==
    IF g.current_num_item <= 0 THEN "over"
    ELSE IF movement > -ITEM THEN "score"
    ELSE info

\* handle_cmd takes a move that check_validation accepts.
HandleMove(cmd) ==
    LET movement == CheckValidation(game, cmd) IN
    /\ running
    /\ movement # 0
    /\ game' = Move(game, cmd, movement)
    /\ info' = InfoAfter(movement, game')
    /\ UNCHANGED <<running, end_sent>>

\* handle_cmd takes a move that check_validation refuses.
HandleInvalid(cmd) ==
    /\ running
    /\ CheckValidation(game, cmd) = 0
    /\ UNCHANGED vars

\* handle_cmd takes the end event and returns FALSE: GTK drops the timer.
HandleEnd ==
    /\ running
    /\ running' = FALSE
    /\ UNCHANGED <<game, info, end_sent>>

\* handle_timeout: alarm() was armed once, so it fires once.
HandleTimeout ==
    /\ ~end_sent
    /\ end_sent' = TRUE
    /\ info' = "over"
    /\ UNCHANGED <<game, running>>

Next ==
    \/ \E cmd \in Commands : HandleMove(cmd) \/ HandleInvalid(cmd)
    \/ HandleEnd
    \/ HandleTimeout

Spec == Init /\ [][Next]_vars

-----------------------------------------------------------------------------
TypeOK ==
    /\ game \in Games
    /\ info \in {"welcome", "score", "over"}
    /\ running \in BOOLEAN
    /\ end_sent \in BOOLEAN

Live == {i \in Items : game.item_loc[i] # Removed}

\* The board is what update_cell paints for the current positions.
MapInSync == game.map = UpdateCell(game.user_loc, game.item_loc)

\* Objects share a cell only where a base lies: check_validation works on the
\* painted board, where a base hides the user that stands on it, and still no
\* item ever enters another item or a block, no user a block, and two users,
\* or a user and an item, meet on base cells only.
NoOverlap ==
    /\ \A i, j \in Live : game.item_loc[i] = game.item_loc[j] => i = j
    /\ \A i \in Live : game.item_loc[i] \notin BlockLoc
    /\ \A u \in Users : game.user_loc[u] \notin BlockLoc
    /\ \A u, v \in Users :
           u # v /\ game.user_loc[u] = game.user_loc[v]
               => IsBaseCell(game.user_loc[u])
    /\ \A u \in Users, i \in Live :
           game.user_loc[u] = game.item_loc[i] => IsBaseCell(game.user_loc[u])

\* What check_validation sees is enough: every item on the board shows its
\* own number and every user off the bases shows its own.
BoardShowsObjects ==
    /\ \A i \in Live : game.map[game.item_loc[i]] = ItemIdxToId(i)
    /\ \A u \in Users : \/ IsBaseCell(game.user_loc[u])
                        \/ game.map[game.user_loc[u]] = UserId(u)

\* No item is lost: the counter that ends the game counts the items that are
\* on the board.
ItemsCounted == game.current_num_item = Cardinality(Live)

\* No item is scored twice or for nobody: the scores of all users account for
\* the items that have left the board.
ScoresAddUp ==
    FoldFunction(+, 0, game.score) + Cardinality(Live) = NumItem

\* An item leaves its cell only because one user stepped into that cell, and
\* it goes to the next cell in the same direction or, from beside that
\* user's own base, off the board; no other item moves in the same step.
PushedBy(u, i) ==
    LET from == game.item_loc[i]
        d == <<from[1] - game.user_loc[u][1], from[2] - game.user_loc[u][2]>>
        beyond == <<from[1] + d[1], from[2] + d[2]>>
    IN  /\ d \in {<<0, 1>>, <<0, -1>>, <<1, 0>>, <<-1, 0>>}
        /\ game'.user_loc[u] = from
        /\ \/ game'.item_loc[i] = beyond /\ game'.score = game.score
           \/ /\ game'.item_loc[i] = Removed
              /\ BaseLoc[u] = beyond
              /\ game'.score = [game.score EXCEPT ![u] = @ + 1]

PushDiscipline ==
    LET moved == {i \in Items : game'.item_loc[i] # game.item_loc[i]} IN
    /\ Cardinality(moved) <= 1
    /\ \A i \in moved : i \in Live /\ \E u \in Users : PushedBy(u, i)

ItemsArePushed == [][PushDiscipline]_vars
=============================================================================
