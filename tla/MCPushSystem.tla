---------------------------- MODULE MCPushSystem ----------------------------
(* A cross of five free cells on a 3 x 3 board with the item in the middle, *)
(* which either user can push home: the order of their keys decides.        *)
EXTENDS PushSystem, TLC

MCUserStart == 0 :> <<0, 1>> @@ 1 :> <<1, 0>>
MCBaseLoc == 0 :> <<2, 1>> @@ 1 :> <<1, 2>>
MCItemStart == 0 :> <<1, 1>>
MCBlockLoc == {<<0, 0>>, <<2, 0>>, <<0, 2>>, <<2, 2>>}
MCKeys == 0 :> {LEFT, RIGHT} @@ 1 :> {4 + DOWN}
=============================================================================
