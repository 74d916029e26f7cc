--------------------------- MODULE ClientDisplay ---------------------------
(***************************************************************************)
(* What the players of PushGame see.  The board is drawn in two layers,    *)
(* one that is built once and one that is built anew by display_screen;    *)
(* the labels are written through the one buffer msg_info.  A command      *)
(* changes the game at once, and then its calls to the labels and the      *)
(* screen follow one by one: the SIGALRM handler may come between any two  *)
(* of them.  A GTK call is taken as a whole.                               *)
(***************************************************************************)
EXTENDS PushGame, Sequences

VARIABLES
    msg_info,       \* the text buffer
    label_info,     \* the text of the label above the board
    label_score,    \* user -> the text of its score
    fixed, changed, \* mat_fixed_screen and mat_changed_screen: cell -> what is drawn
    todo            \* the calls that the command in work has still to make

labelVars == <<msg_info, label_info, label_score>>
displayVars == <<vars, labelVars, fixed, changed, todo>>

Welcome == <<"welcome">>
Scored(u) == <<"got the score", u>>
ScoreLine(u, n) == <<"score", u, n>>
Over == <<"game over">>

\* What stays on the first layer for good.
IsFixed(value) == value = BLOCK \/ value > BASE

\* Fault: only the blocks are drawn on the first layer.
FirstLayer_BlocksOnly(map) == [c \in Cells |-> IF map[c] = BLOCK THEN BLOCK ELSE EMPTY]

FirstLayer(map) == [c \in Cells |-> IF IsFixed(map[c]) THEN map[c] ELSE EMPTY]
SecondLayer(map) == [c \in Cells |-> IF IsFixed(map[c]) THEN EMPTY ELSE map[c]]

\* set_window, with the first display_screen and add_mat_board, whose last
\* score stays in the buffer.
DisplayInit ==
    /\ Init
    /\ label_info = Welcome
    /\ label_score = [u \in Users |-> ScoreLine(u, 0)]
    /\ msg_info = ScoreLine(MaxUser - 1, 0)
    /\ fixed = FirstLayer(game.map)
    /\ changed = SecondLayer(game.map)
    /\ todo = <<>>

-----------------------------------------------------------------------------
\* The calls: sprintf to the buffer, gtk_label_set_text, display_screen.
Sprintf(text) == [call |-> "print", text |-> text]
ShowInfo == [call |-> "info"]
ShowScore(u) == [call |-> "score", user |-> u]
Draw == [call |-> "draw"]

gameover == <<Sprintf(Over), ShowInfo>>

\* Fault: the score is shown from the buffer before it is printed.
score_up_Stale(u, g) ==
    <<Sprintf(Scored(u)), ShowInfo, ShowScore(u), Sprintf(ScoreLine(u, g.score[u]))>>

score_up(u, g) ==
    <<Sprintf(Scored(u)), ShowInfo, Sprintf(ScoreLine(u, g.score[u])), ShowScore(u)>>

\* move, then handle_cmd: g is the game after the move.
CallsFor(cmd, movement, g) ==
    (IF movement > -ITEM THEN score_up(UserOf(cmd), g) ELSE <<>>)
        \o <<Draw>>
        \o (IF g.current_num_item <= 0 THEN gameover ELSE <<>>)

DisplayMove(cmd) ==
    /\ todo = <<>>
    /\ HandleMove(cmd)
    /\ todo' = CallsFor(cmd, CheckValidation(game, cmd), game')
    /\ UNCHANGED <<labelVars, fixed, changed>>

\* An invalid move is only logged, and the end event shows nothing.
DisplayNothing ==
    /\ todo = <<>>
    /\ HandleEnd \/ \E cmd \in Commands : HandleInvalid(cmd)
    /\ UNCHANGED <<labelVars, fixed, changed, todo>>

\* The next call of the command in work.
DisplayCall ==
    /\ todo # <<>>
    /\ LET c == Head(todo)
       IN  /\ msg_info' = IF c.call = "print" THEN c.text ELSE msg_info
           /\ label_info' = IF c.call = "info" THEN msg_info ELSE label_info
           /\ label_score' = IF c.call = "score" THEN [label_score EXCEPT ![c.user] = msg_info]
                             ELSE label_score
           /\ changed' = IF c.call = "draw" THEN SecondLayer(game.map) ELSE changed
    /\ todo' = Tail(todo)
    /\ UNCHANGED <<vars, fixed>>

\* handle_timeout calls gameover, whatever the main thread is doing.
DisplayTimeout ==
    /\ HandleTimeout
    /\ msg_info' = Over
    /\ label_info' = Over
    /\ UNCHANGED <<label_score, fixed, changed, todo>>

DisplayNext ==
    \/ \E cmd \in Commands : DisplayMove(cmd)
    \/ DisplayNothing
    \/ DisplayCall
    \/ DisplayTimeout

DisplaySpec == DisplayInit /\ [][DisplayNext]_displayVars

-----------------------------------------------------------------------------
\* A cell shows the second layer where something is drawn there, the first
\* elsewhere.
Shown(c) == IF changed[c] # EMPTY THEN changed[c] ELSE fixed[c]

\* "display screen from map[] model" (display_screen): between two commands
\* every cell shows what the board holds, although each layer is built with
\* only a part of it, except a base that was hidden by another object when the
\* first layer was built: it is never drawn.
ScreenShowsMap ==
    todo = <<>> => \A c \in Cells :
        \/ Shown(c) = game.map[c]
        \/ game.map[c] > BASE /\ InitialGame.map[c] \notin {EMPTY, game.map[c]}

\* Between two commands the label says GAME OVER when the last item is home,
\* also when the alarm came between the calls that write the labels.
OverAnnounced ==
    todo = <<>> /\ NumItem > 0 /\ game.current_num_item = 0 => label_info = Over

\* Between two commands every score that is shown is the score of its user:
\* the one that the alarm overwrites in the buffer is shown as GAME OVER.
ScoresShown ==
    todo = <<>> =>
        /\ \A u \in Users : \/ label_score[u] = ScoreLine(u, game.score[u])
                            \/ label_score[u] = Over /\ end_sent
        /\ Cardinality({u \in Users : label_score[u] = Over}) <= 1

\* Whatever the alarm interrupts, the labels tell the game: its end, when the
\* last item is home, and every score (score_up, gameover, handle_timeout).
LabelsShowGame == OverAnnounced /\ ScoresShown
=============================================================================
