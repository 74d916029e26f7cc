---------------------------- MODULE MCSinglePlay ----------------------------
(* SinglePlay on a 4 x 4 board: the user that plays starts on its base, the *)
(* other one stands in the way; two items and one block.                    *)
EXTENDS SinglePlay, TLC

MCUserStart == 0 :> <<0, 2>> @@ 1 :> <<0, 0>>
MCBaseLoc == 0 :> <<3, 3>> @@ 1 :> <<0, 0>>
MCItemStart == 0 :> <<1, 1>> @@ 1 :> <<2, 1>>
MCBlockLoc == {<<1, 2>>}
=============================================================================
