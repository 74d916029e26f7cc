---------------------------- MODULE CJsonMinify -----------------------------
(***************************************************************************)
(* cJSON_Minify, which takes blanks and comments out of a text in place.   *)
(* It knows nothing of the grammar but strings, blanks and comments.       *)
(***************************************************************************)
EXTENDS CJsonPrint

CONSTANT Gaps       \* blanks and comments

Star == 42
Blanks == {Char.blank, Char.tab, Char.cr, Char.lf}
Letter(t, k) == IF k <= Len(t) THEN t[k] ELSE Char.nul

\* The place after the first of the positions that end what is skipped, or the
\* NUL.
Past(t, ends) == IF ends = {} THEN Len(t) + 1 ELSE Least(ends) + 1

skip_oneline_comment(t, k) == Past(t, {j \in k + 2 .. Len(t) : t[j] = Char.lf})

skip_multiline_comment(t, k) ==
    Past(t, {j \in k + 3 .. Len(t) : t[j] = Char.slash /\ t[j - 1] = Star})

EscapedQuote(t, k) == t[k] = Char.backslash /\ Letter(t, k + 1) = Char.quote

\* Where the string that begins before k ends: a quote behind a backslash does
\* not end it.
RECURSIVE minify_string(_, _)
minify_string(t, k) ==
    IF k > Len(t) THEN k
    ELSE IF t[k] = Char.quote THEN k + 1
    ELSE IF EscapedQuote(t, k) THEN minify_string(t, k + 2)
    ELSE minify_string(t, k + 1)

\* Fault: the character after a slash that begins no comment goes with it.
AfterSlash_Two(t, k) ==
    CASE Letter(t, k + 1) = Char.slash -> skip_oneline_comment(t, k)
      [] Letter(t, k + 1) = Star -> skip_multiline_comment(t, k + 1)
      [] OTHER -> k + 2

\* A slash goes, with its comment when it begins one.
AfterSlash(t, k) ==
    CASE Letter(t, k + 1) = Char.slash -> skip_oneline_comment(t, k)
      [] Letter(t, k + 1) = Star -> skip_multiline_comment(t, k)
      [] OTHER -> k + 1

RECURSIVE Minified(_, _)
Minified(t, k) ==
    LET Keep(next) == SubSeq(t, k, next - 1) \o Minified(t, next)
    IN  IF k > Len(t) THEN <<>>
        ELSE IF t[k] \in Blanks THEN Minified(t, k + 1)
        ELSE IF t[k] = Char.slash THEN Minified(t, AfterSlash(t, k))
        ELSE IF t[k] = Char.quote THEN Keep(minify_string(t, k + 1))
        ELSE Keep(k + 1)

cJSON_Minify(t) == Minified(t, 1)
-----------------------------------------------------------------------------
\* A text whose pieces are whole lexemes, none of them a string that ends in a
\* backslash: the code takes its closing quote for an escaped one and leaves
\* the blanks behind it.
Lexical ==
    \A piece \in ToSet(written) :
        /\ piece \notin {<<Char.blank>>, <<Char.quote>>}
        /\ \A k \in 2 .. Len(piece) - 1 : piece[k] = Char.backslash
              => k < Len(piece) - 1 /\ piece[k + 1] # Char.backslash

\* Blanks and comments between the lexemes go and nothing else does (cJSON.h:
\* "Minify a strings, remove blank characters").
MinifyKeepsTheRest ==
    Lexical => \A gap \in Gaps :
        cJSON_Minify(FlattenSeq([k \in DOMAIN written |-> gap \o written[k]]) \o gap) = text

\* What is printed with format is, minified, what is printed without: the two
\* ways through print_array and print_object differ in blanks alone.
MinifyUndoesFormat ==
    LET Undone(long, short) == long.ok /\ short.ok => cJSON_Minify(long.text) = short.text
        Of(p) == p.ok => Undone(print(p.value, TRUE, MaxMemory), print(p.value, FALSE, MaxMemory))
    IN  Lexical => Of(Parsed)

\* cJSON_Minify takes out blanks and comments, its own formatting included.
MinifyRight == MinifyKeepsTheRest /\ MinifyUndoesFormat
=============================================================================
