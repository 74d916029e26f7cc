----------------------------- MODULE SinglePlay -----------------------------
(***************************************************************************)
(* The single player game: no server, no queue and no timer.  on_key_press *)
(* checks the command of its one user, the second of the game file, and    *)
(* applies it at once.  Its check_validation, update_model and update_cell *)
(* are those of PushRules; its move also shows GAME OVER, as soon as the   *)
(* item is scored and before the user has moved.                           *)
(*                                                                         *)
(* The field current_num_item of the game record is the variable end_flag. *)
(***************************************************************************)
EXTENDS PushRules

VARIABLES
    game,       \* Model, map and end_flag
    info        \* what label_info shows

singleVars == <<game, info>>

MyId == 1

\* The second user exists, and there is something to play for.
ASSUME SingleAssumption == MyId \in Users /\ NumItem > 0

Keys == {"up", "down", "left", "right", "other"}

\* A key that is no arrow falls through the switch and means up.
Span(key) ==
    CASE key \in {"up", "other"} -> UP
      [] key = "down"  -> DOWN
      [] key = "left"  -> LEFT
      [] key = "right" -> RIGHT

CmdOf(key) == MyId * 4 + Span(key)

\* parseJson: end_flag starts as the number of items.
SingleInit ==
    /\ game = InitialGame
    /\ info = "welcome"

\* Fault: score_up writes the label after gameover.
InfoAfterMove_ScoreLast(movement) ==
    IF movement > -ITEM THEN "score" ELSE info

\* In move, score_up writes the label, then gameover if it was the last item.
InfoAfterMove(movement) ==
    IF movement > -ITEM
    THEN IF game.current_num_item - 1 <= 0 THEN "over" ELSE "score"
    ELSE info

\* on_key_press.
Press(key) ==
    LET movement == CheckValidation(game, CmdOf(key)) IN
    IF movement = 0
    THEN UNCHANGED singleVars
    ELSE /\ game' = Move(game, CmdOf(key), movement)
         /\ info' = InfoAfterMove(movement)

SingleNext == \E key \in Keys : Press(key)

SingleSpec == SingleInit /\ [][SingleNext]_singleVars

-----------------------------------------------------------------------------
SingleTypeOK == game \in Games /\ info \in {"welcome", "score", "over"}

\* The single player game is a run of the client's game loop in which one
\* user has all the commands, and neither the end event nor the alarm comes:
\* although gameover is called from another place and under another test,
\* boards, scores and the label are those of handle_cmd.
Multi == INSTANCE PushGame WITH running <- TRUE, end_sent <- FALSE

PlaysByTheRules == Multi!Spec

=============================================================================
