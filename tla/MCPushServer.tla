---------------------------- MODULE MCPushServer ----------------------------
(* Three connections for PushServer: a game of two and a third client that  *)
(* comes too early or too late, or a game of three.                         *)
EXTENDS PushServer

CONSTANTS c1, c2, c3

Three == {c1, c2, c3}
Two == {c1, c2}
One == {c1}
Nobody == {}
MinusTwo == -2
=============================================================================
