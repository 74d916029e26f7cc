----------------------------- MODULE MCJsonTree -----------------------------
EXTENDS CJsonTree, TLC

CONSTANTS k, K      \* one name in lower and in upper case

MCLower == [n \in Names |-> IF n = K THEN k ELSE n]
NodeSymmetry == Permutations(Nodes)
=============================================================================
