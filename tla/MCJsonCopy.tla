----------------------------- MODULE MCJsonCopy -----------------------------
EXTENDS CJsonCopy, TLC

CONSTANTS k, K      \* one name in lower and in upper case

MCLower == [n \in Names |-> IF n = K THEN k ELSE n]
=============================================================================
