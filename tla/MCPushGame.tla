----------------------------- MODULE MCPushGame -----------------------------
(* A 4 x 4 board for PushGame and ClientDisplay: two users in opposite      *)
(* corners, the second on its base, an item that hides the base of the      *)
(* first when the screen is built, one more item and one block.             *)
EXTENDS ClientDisplay, TLC

MCUserStart == 0 :> <<3, 3>> @@ 1 :> <<0, 0>>
MCBaseLoc == 0 :> <<1, 1>> @@ 1 :> <<0, 0>>
MCItemStart == 0 :> <<1, 1>> @@ 1 :> <<2, 1>>
MCBlockLoc == {<<1, 2>>}
=============================================================================
