----------------------------- MODULE MCJsonText -----------------------------
(* Texts of up to five tokens and a bracket, with strings that need escapes *)
(* of two and of six bytes or none and a number below INT_MIN; and texts    *)
(* that begin with a quote, with what a string may hold: complete and       *)
(* broken escapes and UTF-16 units at the boundaries of their ranges.       *)
EXTENDS CJsonMinify

Hex(d) == IF d < 10 THEN 48 + d ELSE IF d % 2 = 0 THEN 55 + d ELSE 87 + d
Escaped(n) ==
    <<92, 117, Hex(n \div 4096), Hex((n \div 256) % 16), Hex((n \div 16) % 16), Hex(n % 16)>>

MCUnits ==
    LET units == {0, 65, 127, 128, 2047, 2048, 55295, 55296, 56319, 56320, 57343, 57344, 65535}
    IN  [e \in {Escaped(u) : u \in units} |-> CHOOSE u \in units : Escaped(u) = e]

Closing == {<<93>>, <<125>>}
Tokens == Closing \cup
    {<<91>>, <<123>>, <<44>>, <<58>>, <<32>>, <<34, 97, 34, 58>>, <<34, 34>>,
     <<34, 92, 34, 32, 1, 34>>, <<45, 50, 53>>, <<110, 117, 108, 108>>}
Inside == {<<34>>, <<92>>, <<34, 92>>, <<92, 117, 48, 48, 48>>, <<117>>, <<110>>, <<65>>}

MCPieces(w) ==
    CASE w = <<>> -> Tokens \cup {<<34>>}
      [] w # <<>> /\ w[1] = <<34>> -> IF Len(w) < 4 THEN Inside \cup DOMAIN MCUnits ELSE {}
      [] OTHER -> IF Len(w) < 5 THEN Tokens ELSE IF Len(w) = 5 THEN Closing ELSE {}

\* A blank, // b and the end of the line, /* b / */ and /**/.
MCGaps == {<<32>>, <<47, 47, 98, 10>>, <<47, 42, 98, 47, 42, 47>>, <<47, 42, 42, 47>>}
=============================================================================
