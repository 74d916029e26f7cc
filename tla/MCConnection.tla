---------------------------- MODULE MCConnection ----------------------------
(* A game of two over a wire of two bytes, with ints of two bytes.  A name  *)
(* fills its memory or not; the server's memory is clean, has a letter left *)
(* in it, or lacks a NUL, so that a name goes to the client's score or out  *)
(* of its struct user.  The ring has three slots, two of them usable, and   *)
(* wraps around.                                                            *)
EXTENDS Connection

CONSTANTS move, gameover, a, b
MCEvent == {move, gameover}
MCEndEvent == gameover
MCBytes == {a, b, NUL}
MCUsers == {0, 1}
MCNames == {<<a>>, <<a, a>>}
MCHeap == {<<NUL, NUL, NUL>>, <<NUL, b, NUL>>, <<b, b, b, NUL>>, <<b, b, b, b, b, NUL>>}
MCUserMemory == [u \in MCUsers |-> <<NUL, b, NUL, NUL, a>>]
MCJsonText == <<a>>
=============================================================================
