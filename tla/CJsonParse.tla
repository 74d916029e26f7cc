----------------------------- MODULE CJsonParse -----------------------------
(***************************************************************************)
(* The parser of cJSON.c as operators on buffers.  A buffer is a sequence  *)
(* of bytes that counts its terminating NUL.  Memory may run out at every  *)
(* allocation.  Numbers are integers: fraction and exponent, and so the    *)
(* most of strtod, are not modelled.                                       *)
(*                                                                         *)
(* The one variable is a text that grows piece by piece, so that TLC meets *)
(* every text of the pieces; the properties are about what the parser      *)
(* makes of it.  It is recursive: nothing is proved in this module.        *)
(***************************************************************************)
EXTENDS Integers, Sequences, SequencesExt

CONSTANTS
    NestingLimit,   \* CJSON_NESTING_LIMIT
    NumberBuffer,   \* bytes of number_c_string
    IntMax,         \* INT_MAX
    Pieces(_),      \* bound: the pieces of text that may follow those written
    Units,          \* the code unit of each piece that is a UTF-16 escape
    MaxMemory       \* bound: allocations that succeed in one call

VARIABLE written    \* the pieces so far

Char == [nul |-> 0, b |-> 8, tab |-> 9, lf |-> 10, f |-> 12, cr |-> 13, blank |-> 32,
         quote |-> 34, comma |-> 44, minus |-> 45, slash |-> 47, zero |-> 48,
         colon |-> 58, openArray |-> 91, backslash |-> 92, closeArray |-> 93,
         u |-> 117, openObject |-> 123, closeObject |-> 125]

Words == [null |-> <<110, 117, 108, 108>>, true |-> <<116, 114, 117, 101>>,
          false |-> <<102, 97, 108, 115, 101>>]

NoName == <<-1>>

\* An item, and how many blocks it owns: itself, its name and its string.
Value(kind, val, kids) == [kind |-> kind, val |-> val, name |-> NoName, kids |-> kids]

RECURSIVE Blocks(_)
Blocks(v) ==
    LET Add(sum, kid) == sum + Blocks(kid)
    IN  FoldLeft(Add, 1 + (IF v.name = NoName THEN 0 ELSE 1)
                        + (IF v.kind = "string" THEN 1 ELSE 0), v.kids)
-----------------------------------------------------------------------------
(***************************************************************************)
(* The parser's state: offset and depth in the input, allocations left,    *)
(* blocks in use, whether memory outside a buffer was touched, and the     *)
(* value read last.                                                        *)
(***************************************************************************)
Parser(memory) ==
    [at |-> 0, depth |-> 0, left |-> memory, used |-> 0, wild |-> FALSE,
     ok |-> TRUE, value |-> Value("invalid", <<>>, <<>>)]

Fails(p, at) == [p EXCEPT !.ok = FALSE, !.at = at]
Reads(p, at, v) == [p EXCEPT !.at = at, !.value = v]
Allocate(p) == IF p.left = 0 THEN Fails(p, p.at) ELSE [p EXCEPT !.left = @ - 1, !.used = @ + 1]

Byte(t, at) == t[at + 1]
At(t, at, c) == at < Len(t) /\ Byte(t, at) = c
Word(t, at, w) == at + Len(w) <= Len(t) /\ SubSeq(t, at + 1, at + Len(w)) = w

Least(S) == CHOOSE n \in S : \A m \in S : n <= m
Greatest(S) == CHOOSE n \in S : \A m \in S : m <= n

\* Anything up to the blank is white space, the NUL too; at the end of the
\* buffer the offset steps back to the last byte.
buffer_skip_whitespace(t, at) ==
    LET rest == {j \in at .. Len(t) - 1 : Byte(t, j) > Char.blank}
    IN  IF at >= Len(t) THEN at ELSE IF rest = {} THEN Len(t) - 1 ELSE Least(rest)

ByteOrderMark == <<239, 187, 191>>

skip_utf8_bom(t) == IF Len(t) > 4 /\ Word(t, 0, ByteOrderMark) THEN 3 ELSE 0

IsDigit(c) == c \in 48 .. 57
NumberBytes == 48 .. 57 \cup {43, 45, 46, 69, 101}

RECURSIVE Decimal(_)
Decimal(digits) ==
    IF digits = <<>> THEN 0 ELSE 10 * Decimal(Front(digits)) + Last(digits) - Char.zero

\* cJSON_SetNumberHelper does the same: valuedouble and valueint.
Number(n) == <<n, IF n >= IntMax THEN IntMax ELSE IF n <= -IntMax - 1 THEN -IntMax - 1 ELSE n>>

\* Copies what looks like a number, as much as the buffer takes, and leaves it
\* to strtod how much of that is one.
parse_number(t, p) ==
    LET copied == Greatest({n \in 0 .. NumberBuffer - 1 :
                       /\ p.at + n <= Len(t)
                       /\ \A j \in p.at .. p.at + n - 1 : Byte(t, j) \in NumberBytes})
        sign == IF At(t, p.at, Char.minus) THEN 1 ELSE 0
        Digits(n) == SubSeq(t, p.at + sign + 1, p.at + n)
        taken == Greatest({n \in sign .. copied : \A d \in ToSet(Digits(n)) : IsDigit(d)})
        number == (1 - 2 * sign) * Decimal(Digits(taken))
    IN  IF taken = sign THEN Fails(p, p.at)
        ELSE Reads(p, p.at + taken, Value("number", Number(number), <<>>))
-----------------------------------------------------------------------------
(***************************************************************************)
(* Strings.                                                                *)
(***************************************************************************)
Nibble(c) ==
    IF IsDigit(c) THEN c - 48 ELSE IF c \in 65 .. 70 THEN c - 55
    ELSE IF c \in 97 .. 102 THEN c - 87 ELSE -1

\* What is no number reads as 0.
parse_hex4(t, at) ==
    LET Hex4(n) == IF -1 \in ToSet(n) THEN 0 ELSE FoldLeft(LAMBDA h, d : 16 * h + d, 0, n)
    IN  Hex4([k \in 1 .. 4 |-> Nibble(Byte(t, at + k - 1))])

\* The bits that the code sets with | are clear before.
Utf8(c) ==
    LET Tail6(k) == 128 + ((c \div 64 ^ k) % 64)
    IN  IF c < 128 THEN <<c>>
        ELSE IF c < 2048 THEN <<192 + c \div 64, Tail6(0)>>
        ELSE IF c < 65536 THEN <<224 + c \div 4096, Tail6(1), Tail6(0)>>
        ELSE <<240 + c \div 262144, Tail6(2), Tail6(1), Tail6(0)>>

NoLiteral == [length |-> 0, bytes |-> <<>>]
Literal(n, c) == [length |-> n, bytes |-> Utf8(c)]
Pair(first, second) == 65536 + (first % 1024) * 1024 + (second % 1024)

\* Fault: any unit may follow the first half of a pair.
SecondHalf_Any(t, at, end, first, second) ==
    IF end - at < 12 THEN NoLiteral ELSE Literal(12, Pair(first, second))

SecondHalf(t, at, end, first, second) ==
    IF \/ end - at < 12
       \/ ~ Word(t, at + 6, <<Char.backslash, Char.u>>)
       \/ second \notin 56320 .. 57343
    THEN NoLiteral ELSE Literal(12, Pair(first, second))

\* How much of the input is one character, nothing when it is none.
utf16_literal_to_utf8(t, at, end) ==
    LET From(first) ==
            IF end - at < 6 \/ first \in 56320 .. 57343 THEN NoLiteral
            ELSE IF first \notin 55296 .. 56319 THEN Literal(6, first)
            ELSE SecondHalf(t, at, end, first, parse_hex4(t, at + 8))
    IN  From(parse_hex4(t, at + 2))

Escapes == {<<98, Char.b>>, <<102, Char.f>>, <<110, Char.lf>>, <<114, Char.cr>>,
            <<116, Char.tab>>, <<Char.quote, Char.quote>>,
            <<Char.backslash, Char.backslash>>, <<Char.slash, Char.slash>>}

\* What an escape takes from the room that its bytes would need.
ScanEscape == 1

\* The closing quote, or the end of the buffer, and the backslashes before it.
RECURSIVE ScanString(_, _, _)
ScanString(t, at, skipped) ==
    IF at >= Len(t) \/ At(t, at, Char.quote) THEN [end |-> at, skipped |-> skipped]
    ELSE IF Byte(t, at) # Char.backslash THEN ScanString(t, at + 1, skipped)
    ELSE ScanString(t, at + 2, skipped + ScanEscape)

\* What one escape reads as, nothing when it is none.
ReadEscape(t, at, end) ==
    LET code == {e \in Escapes : e[1] = Byte(t, at + 1)}
    IN  IF Byte(t, at + 1) = Char.u THEN utf16_literal_to_utf8(t, at, end)
        ELSE IF code = {} THEN NoLiteral
        ELSE [length |-> 2, bytes |-> <<(CHOOSE e \in code : TRUE)[2]>>]

RECURSIVE Unescape(_, _, _, _)
Unescape(t, at, end, out) ==
    LET Stop(ok) == [ok |-> ok, at |-> at, out |-> out]
        Go(read) == IF read.length = 0 THEN Stop(FALSE)
                    ELSE Unescape(t, at + read.length, end, out \o read.bytes)
    IN  IF at >= end THEN Stop(TRUE)
        ELSE Go(IF Byte(t, at) = Char.backslash THEN ReadEscape(t, at, end)
                ELSE [length |-> 1, bytes |-> <<Byte(t, at)>>])

\* What the functions of C see of a string.
CString(s) ==
    LET nul == {k \in DOMAIN s : s[k] = Char.nul}
    IN  IF nul = {} THEN s ELSE SubSeq(s, 1, Least(nul) - 1)

StringFailed(p, at) == [Fails(p, at) EXCEPT !.used = @ - 1]

\* The bytes of the string go to a block of its own, of the size of the scan.
StringRead(p, scan, size, read) ==
    LET done == IF read.ok THEN Reads(p, scan.end + 1, Value("string", CString(read.out), <<>>))
                ELSE StringFailed(p, read.at)
        bytes == Len(read.out) + (IF read.ok THEN 1 ELSE 0)
    IN  [done EXCEPT !.wild = @ \/ bytes > size]

\* The first byte is read without a look at the length.
parse_string(t, p) ==
    LET From(scan, begun) ==
            IF scan.end >= Len(t) \/ ~ begun.ok THEN Fails(p, p.at + 1)
            ELSE StringRead(begun, scan, scan.end - p.at - scan.skipped + 1,
                            Unescape(t, p.at + 1, scan.end, <<>>))
    IN  IF At(t, p.at, Char.quote) THEN From(ScanString(t, p.at + 1, 0), Allocate(p))
        ELSE [Fails(p, p.at + 1) EXCEPT !.wild = @ \/ p.at >= Len(t)]
-----------------------------------------------------------------------------
(***************************************************************************)
(* Values.                                                                 *)
(***************************************************************************)
\* Fault: only the element begun is deleted, not those before it.
Abandoned_Head(p, kids, own) == [Fails(p, p.at) EXCEPT !.used = @ - own]

Abandoned(p, kids, own) ==
    [Fails(p, p.at) EXCEPT !.used = @ - own - Blocks(Value("array", <<>>, kids)) + 1]

RECURSIVE parse_value(_, _), parse_container(_, _, _), parse_elements(_, _, _, _)

parse_value(t, p) ==
    LET Is(w) == Word(t, p.at, Words[w])
        Begins(S) == p.at < Len(t) /\ Byte(t, p.at) \in S
    IN  CASE \E w \in DOMAIN Words : Is(w) ->
               LET w == CHOOSE w \in DOMAIN Words : Is(w)
               IN  Reads(p, p.at + Len(Words[w]), Value(w, <<>>, <<>>))
          [] Begins({Char.quote}) -> parse_string(t, p)
          [] Begins({Char.minus} \cup 48 .. 57) -> parse_number(t, p)
          [] Begins({Char.openArray}) -> parse_container(t, p, FALSE)
          [] Begins({Char.openObject}) -> parse_container(t, p, TRUE)
          [] OTHER -> Fails(p, p.at)

Skip(t, p, at) == [p EXCEPT !.at = buffer_skip_whitespace(t, at)]
Container(named, kids) == Value(IF named THEN "object" ELSE "array", <<>>, kids)

\* The name of an element, which goes when no colon follows, and the colon.
parse_name(t, p) ==
    LET AtColon(q) == IF At(t, q.at, Char.colon) THEN Skip(t, q, q.at + 1)
                      ELSE StringFailed(q, q.at)
        From(key) == IF key.ok THEN AtColon(Skip(t, key, key.at)) ELSE key
    IN  From(parse_string(t, p))

\* The value of an element, and the elements that follow; kids are those before.
\* A failure deletes the list, the element begun and its name included.
ElementRead(t, read, named, kids, name) ==
    LET kid == [read.value EXCEPT !.name = name]
    IN  IF ~ read.ok THEN Abandoned(read, kids, IF named THEN 2 ELSE 1)
        ELSE IF At(t, read.at, Char.comma)
        THEN parse_elements(t, read, named, Append(kids, kid))
        ELSE [read EXCEPT !.value = Container(named, Append(kids, kid))]

ElementFrom(t, p, named, kids) ==
    LET After(read) == IF read.ok THEN Skip(t, read, read.at) ELSE read
    IN  IF ~ p.ok THEN Abandoned(p, kids, 1)
        ELSE ElementRead(t, After(parse_value(t, p)), named, kids,
                         IF named THEN p.value.val ELSE NoName)

\* The elements from the byte in front of one on, until no comma follows.
parse_elements(t, p, named, kids) ==
    LET Begun(item) == IF named THEN parse_name(t, item) ELSE item
    IN  IF ~ Allocate(p).ok THEN Abandoned(p, kids, 0)
        ELSE ElementFrom(t, Begun(Skip(t, Allocate(p), p.at + 1)), named, kids)

TooDeep(p) == p.depth >= NestingLimit

\* The bracket behind all elements.
CloseBracket(t, p, close) ==
    IF ~ p.ok THEN p
    ELSE IF At(t, p.at, close) THEN [p EXCEPT !.depth = @ - 1, !.at = @ + 1]
    ELSE Abandoned(p, p.value.kids, 0)

\* parse_array and parse_object.
parse_container(t, p, named) ==
    LET close == IF named THEN Char.closeObject ELSE Char.closeArray
        Elements(inside) ==
            IF At(t, inside.at, close) THEN [inside EXCEPT !.value = Container(named, <<>>)]
            ELSE IF inside.at >= Len(t) THEN Fails(inside, inside.at - 1)
            ELSE parse_elements(t, [inside EXCEPT !.at = @ - 1], named, <<>>)
        From(inside) == CloseBracket(t, Elements(inside), close)
    IN  IF TooDeep(p) THEN Fails(p, p.at)
        ELSE From(Skip(t, [p EXCEPT !.depth = @ + 1], p.at + 1))

Wrong(t, p, own) ==
    [Fails(p, IF p.at < Len(t) THEN p.at ELSE Len(t) - 1) EXCEPT !.used = @ - own]

\* Fault: the text must end after the value, whatever the caller has asked for.
Ending_Always(t, p, terminated) ==
    LET At0(q) == IF At(t, q.at, Char.nul) THEN q ELSE Wrong(t, q, Blocks(q.value))
    IN  IF p.ok THEN At0(Skip(t, p, p.at)) ELSE Wrong(t, p, 1)

\* Behind the value: the end of the text, if the caller has asked for it.
Ending(t, p, terminated) ==
    LET At0(q) == IF At(t, q.at, Char.nul) THEN q ELSE Wrong(t, q, Blocks(q.value))
    IN  IF ~ p.ok THEN Wrong(t, p, 1)
        ELSE IF terminated THEN At0(Skip(t, p, p.at)) ELSE p

\* The state at the end; at is what return_parse_end and the error position say.
cJSON_ParseWithLengthOpts(t, memory, terminated) ==
    LET From(item) == IF ~ item.ok THEN Wrong(t, item, 0)
                      ELSE Ending(t, parse_value(t, Skip(t, item, skip_utf8_bom(t))), terminated)
    IN  IF t = <<>> THEN Fails(Parser(memory), 0) ELSE From(Allocate(Parser(memory)))

cJSON_ParseWithOpts(t, memory, terminated) ==
    cJSON_ParseWithLengthOpts(Append(t, Char.nul), memory, terminated)
-----------------------------------------------------------------------------
text == FlattenSeq(written)
Memory == 0 .. MaxMemory

\* A text that is wrong before its end, strings apart, is not continued.
Promising ==
    LET Open(at) == At(text, at - 1, Char.quote) /\ ScanString(text, at, 0).end >= Len(text)
        Of(p) == p.ok \/ p.at >= Len(text) \/ (p.at > 0 /\ Open(p.at))
    IN  Of(cJSON_ParseWithOpts(text, MaxMemory, TRUE))

ParseInit == written = <<>>

Extend(piece) == Promising /\ written' = Append(written, piece)

ParseNext == \E piece \in Pieces(written) : Extend(piece)

ParseSpec == ParseInit /\ [][ParseNext]_written
-----------------------------------------------------------------------------
RECURSIVE Depth(_)
Depth(v) ==
    LET Deeper(d, kid) == IF Depth(kid) >= d THEN Depth(kid) + 1 ELSE d
    IN  FoldLeft(Deeper, IF v.kind \in {"array", "object"} THEN 1 ELSE 0, v.kids)

\* Nothing was read past the NUL or written past a string that was allocated.
StaysInside(p) == ~ p.wild /\ p.at <= Len(text)

\* A parse that fails has freed all it allocated, and one that succeeds has
\* in use exactly the blocks of its value.
ParseOwns(p) == p.used = IF p.ok THEN Blocks(p.value) ELSE 0

\* A parse reads what it would have read with the most memory.
ParseSame(p, most) == p.ok => most.ok /\ p.value = most.value

\* cJSON_ParseWithLengthOpts on any text that ends in a NUL, which the length
\* counts (cJSON_ParseWithOpts), and with any memory stays inside what it was
\* given, gives back what it does not return, never returns another value for
\* want of memory, and nests no deeper than the limit.  Nothing is said of a
\* length without a NUL: behind a comma that ends an object's text, parse_string
\* reads one byte too far (l. 781).
ParseSafe ==
    LET Safe(p, most) == StaysInside(p) /\ ParseOwns(p) /\ ParseSame(p, most)
        Every(most) ==
            /\ Depth(most.value) <= NestingLimit
            /\ \A memory \in Memory, terminated \in BOOLEAN :
                   Safe(cJSON_ParseWithOpts(text, memory, terminated), most)
    IN  Every(cJSON_ParseWithOpts(text, MaxMemory, FALSE))

(***************************************************************************)
(* A string of UTF-16 escapes: what it says, by the definition of UTF-16,  *)
(* and what the bytes that were read say, by the definition of UTF-8.      *)
(***************************************************************************)
RECURSIVE FromUnits(_), FromBytes(_)
FromUnits(s) ==
    LET pair == Len(s) > 1 /\ s[1] \in 55296 .. 56319 /\ s[2] \in 56320 .. 57343
        rest == FromUnits(SubSeq(s, IF pair THEN 3 ELSE 2, Len(s)))
    IN  IF s = <<>> THEN <<>>
        ELSE IF pair THEN <<65536 + (s[1] - 55296) * 1024 + (s[2] - 56320)>> \o rest
        ELSE <<IF s[1] \in 55296 .. 57343 THEN -1 ELSE s[1]>> \o rest

FromBytes(s) ==
    LET size == IF s[1] < 128 THEN 1 ELSE IF s[1] < 224 THEN 2 ELSE IF s[1] < 240 THEN 3 ELSE 4
        Bits(sum, b) == 64 * sum + b - 128
        lead == s[1] - <<0, 192, 224, 240>>[size]
    IN  IF s = <<>> THEN <<>>
        ELSE <<FoldLeft(Bits, lead, SubSeq(s, 2, size))>>
                \o FromBytes(SubSeq(s, size + 1, Len(s)))

\* A string of escapes reads as the characters they name, up to the first NUL,
\* or not at all when one is half a surrogate pair.
UnicodeRight ==
    LET inner == SubSeq(written, 2, Len(written) - 1)
        Right(said, p) == IF -1 \in ToSet(said) THEN ~ p.ok
                          ELSE p.ok /\ FromBytes(p.value.val) = CString(said)
    IN  (/\ Len(written) > 1 /\ written[1] = <<Char.quote>> /\ Last(written) = <<Char.quote>>
         /\ ToSet(inner) \subseteq DOMAIN Units) =>
            Right(FromUnits([k \in DOMAIN inner |-> Units[inner[k]]]),
                  cJSON_ParseWithOpts(text, MaxMemory, TRUE))
=============================================================================
