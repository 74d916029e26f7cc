----------------------------- MODULE CJsonPrint -----------------------------
(***************************************************************************)
(* The printer of cJSON.c, on the values that the parser reads: into a     *)
(* buffer that grows as it fills, or into one of the caller's.  Every      *)
(* write first asks for room; nothing else keeps it inside the buffer.     *)
(* Raw items, which no parser makes, are left out.                         *)
(***************************************************************************)
EXTENDS CJsonParse

CONSTANTS
    DefaultBuffer,  \* default_buffer_size of print
    MaxBuffer       \* bound: the largest buffer a caller passes

(***************************************************************************)
(* The print buffer: the text in it, its length, the depth, whether it may *)
(* grow, the format, allocations left, whether the pointer to it is NULL,  *)
(* how often it was freed, and whether a byte was written outside.         *)
(***************************************************************************)
Printer(length, memory, noalloc, fmt) ==
    [text |-> <<>>, length |-> length, depth |-> 0, noalloc |-> noalloc, fmt |-> fmt,
     left |-> memory, ok |-> TRUE, null |-> FALSE, frees |-> 0, wild |-> FALSE]

Stop(s) == [s EXCEPT !.ok = FALSE]

Fits(s, total) == total <= s.length

ensure(s, needed) ==
    LET total == needed + Len(s.text) + 1
        newsize == IF total > IntMax \div 2 THEN IntMax ELSE 2 * total
    IN  CASE ~ s.ok -> s
          [] s.ok /\ s.length > 0 /\ Len(s.text) >= s.length -> Stop(s)
          [] OTHER ->
               CASE needed > IntMax -> Stop(s)
                 [] needed <= IntMax /\ Fits(s, total) -> s
                 [] OTHER ->
                      IF s.noalloc \/ total > IntMax THEN Stop(s)
                      ELSE IF s.left = 0
                      THEN [Stop(s) EXCEPT !.frees = @ + 1, !.null = TRUE, !.length = 0]
                      ELSE [s EXCEPT !.length = newsize, !.left = @ - 1]

\* Ask for room, then write bytes and a NUL or not; once a request has failed
\* nothing more is written.
Write(s, needed, bytes, nul) ==
    LET Put(r, after) ==
            IF ~ r.ok THEN r
            ELSE [r EXCEPT !.text = after, !.wild = @ \/ Len(after) + nul > r.length]
        Room(r) == Put(r, r.text \o bytes)
    IN  Room(ensure(s, needed))

RECURSIVE Digits(_)
Digits(n) == IF n < 10 THEN <<Char.zero + n>> ELSE Append(Digits(n \div 10), Char.zero + (n % 10))

print_number(s, v) ==
    LET n == v.val[1]
        All(bytes) == Write(s, Len(bytes) + 1, bytes, 1)
    IN  All(IF n < 0 THEN <<Char.minus>> \o Digits(-n) ELSE Digits(n))

\* The characters that have an escape of two bytes; those below the blank that
\* have none take six.
Short(c) == {e \in Escapes : e[2] = c /\ c # Char.slash}

\* Fault: a control character is printed as it is unless it has a short escape.
EscapedByte_Short(c) ==
    IF Short(c) # {} THEN <<Char.backslash, 98>> ELSE <<c>>

EscapedByte(c) ==
    IF Short(c) # {} THEN <<Char.backslash, (CHOOSE e \in Short(c) : TRUE)[1]>>
    ELSE IF c >= Char.blank THEN <<c>>
    ELSE <<Char.backslash, Char.u>> \o
         [k \in 1 .. 4 |-> LET d == (c \div 16 ^ (4 - k)) % 16
                           IN  IF d < 10 THEN Char.zero + d ELSE 87 + d]

\* Fault: the escapes of six bytes are counted as those of two.
Escaping_AllShort(c) == IF Short(c) # {} \/ c < Char.blank THEN 1 ELSE 0

\* The bytes that escaping adds to one.
Escaping(c) == IF Short(c) # {} THEN 1 ELSE IF c < Char.blank THEN 5 ELSE 0

print_string_ptr(s, string) ==
    LET Extra(sum, c) == sum + Escaping(c)
        output_length == FoldLeft(Extra, Len(string), string)
        Quoted(inner) == <<Char.quote>> \o inner \o <<Char.quote>>
        Inner == FlattenSeq([k \in DOMAIN string |-> EscapedByte(string[k])])
    IN  IF string = NoName THEN Write(s, 3, Quoted(<<>>), 1)
        ELSE Write(s, output_length + 3, Quoted(Inner), 1)

Tabs(n) == [k \in 1 .. n |-> Char.tab]
When(fmt, c) == IF fmt THEN <<c>> ELSE <<>>

RECURSIVE print_value(_, _), print_elements(_, _), print_members(_, _)

print_elements(s, kids) ==
    LET comma == <<Char.comma>> \o When(s.fmt, Char.blank)
        More(printed) == IF Len(kids) = 1 THEN printed
                         ELSE print_elements(Write(printed, Len(comma) + 1, comma, 1), Tail(kids))
    IN  IF kids = <<>> THEN s ELSE More(print_value(s, Head(kids)))

print_members(s, kids) ==
    LET indented == IF s.fmt THEN Write(s, s.depth, Tabs(s.depth), 0) ELSE s
        colon == <<Char.colon>> \o When(s.fmt, Char.tab)
        rest == When(Len(kids) > 1, Char.comma) \o When(s.fmt, Char.lf)
        key == print_string_ptr(indented, Head(kids).name)
        printed == print_value(Write(key, Len(colon), colon, 0), Head(kids))
    IN  IF kids = <<>> THEN s
        ELSE print_members(Write(printed, Len(rest) + 1, rest, 1), Tail(kids))

\* print_array and print_object.
print_array(s, v) ==
    LET opened == [Write(s, 1, <<Char.openArray>>, 0) EXCEPT !.depth = @ + 1]
        elements == print_elements(opened, v.kids)
    IN  [Write(elements, 2, <<Char.closeArray>>, 1) EXCEPT !.depth = s.depth]

print_object(s, v) ==
    LET brace == <<Char.openObject>> \o When(s.fmt, Char.lf)
        opened == Write([s EXCEPT !.depth = @ + 1], Len(brace) + 1, brace, 0)
        members == print_members(opened, v.kids)
        close == (IF s.fmt THEN Tabs(s.depth) ELSE <<>>) \o <<Char.closeObject>>
    IN  [Write(members, IF s.fmt THEN s.depth + 2 ELSE 2, close, 1) EXCEPT !.depth = s.depth]

print_value(s, v) ==
    CASE v.kind \in DOMAIN Words -> Write(s, Len(Words[v.kind]) + 1, Words[v.kind], 1)
      [] v.kind = "number" -> print_number(s, v)
      [] v.kind = "string" -> print_string_ptr(s, v.val)
      [] v.kind = "array" -> print_array(s, v)
      [] v.kind = "object" -> print_object(s, v)
      [] OTHER -> Stop(s)

\* What the callers do with the buffer when the printing has failed.
Discard(s) == [Stop(s) EXCEPT !.frees = IF s.null THEN @ ELSE @ + 1, !.null = TRUE]

Without == [Stop(Printer(0, 0, FALSE, FALSE)) EXCEPT !.null = TRUE]

\* The text is copied to a block of its size, which takes the buffer's place.
print(v, fmt, memory) ==
    LET Copied(s) == IF s.ok /\ s.left > 0 THEN [s EXCEPT !.length = Len(s.text) + 1]
                     ELSE Discard(s)
    IN  IF memory = 0 THEN Without
        ELSE Copied(print_value(Printer(DefaultBuffer, memory - 1, FALSE, fmt), v))

cJSON_PrintBuffered(v, prebuffer, fmt, memory) ==
    LET Returned(s) == IF s.ok THEN s ELSE Discard(s)
    IN  IF memory = 0 THEN Without
        ELSE Returned(print_value(Printer(prebuffer, memory - 1, FALSE, fmt), v))

cJSON_PrintPreallocated(v, length, fmt) == print_value(Printer(length, 0, TRUE, fmt), v)
-----------------------------------------------------------------------------
Parsed == cJSON_ParseWithOpts(text, MaxMemory, TRUE)
Buffers == 0 .. MaxBuffer

ReadsAs(p, v) == p.ok /\ p.value = v

\* What is printed, formatted or not, parses to the value that was printed.
RoundTrip ==
    LET Back(v, s) == s.ok => ReadsAs(cJSON_ParseWithOpts(s.text, MaxMemory, TRUE), v)
        Of(p) == p.ok => \A fmt \in BOOLEAN : Back(p.value, print(p.value, fmt, MaxMemory))
    IN  Of(Parsed)

\* A result that is inside its buffer and, if it is a text, is the one text.
PrintsInside(s, whole) == ~ s.wild /\ (s.ok /\ whole.ok => s.text = whole.text)

\* A buffer of its own is returned, or it has been freed once.
PrintOwns(s, memory) ==
    IF s.ok THEN s.frees = 0 ELSE s.null /\ s.frees = IF memory = 0 THEN 0 ELSE 1

\* The caller's buffer is never freed, and "5 bytes more than you actually need"
\* is enough (cJSON.h), where the text and its NUL are what is needed.
FiveMoreSuffice(s, length, whole) ==
    s.frees = 0 /\ (whole.ok /\ length >= Len(whole.text) + 1 + 5 => s.ok)

\* Every way to print, in every buffer and with any memory, either stays inside
\* the buffer and prints the one text, or fails and has freed the buffer once;
\* and a buffer of the size that cJSON.h asks for is printed into.
PrintSafe ==
    LET Owned(s, whole, memory) == PrintsInside(s, whole) /\ PrintOwns(s, memory)
        Given(s, whole, length) == PrintsInside(s, whole) /\ FiveMoreSuffice(s, length, whole)
        Every(v, fmt, whole) ==
            /\ \A length \in Buffers :
                   Given(cJSON_PrintPreallocated(v, length, fmt), whole, length)
            /\ \A memory \in Memory :
                   /\ Owned(print(v, fmt, memory), whole, memory)
                   /\ \A length \in Buffers :
                          Owned(cJSON_PrintBuffered(v, length, fmt, memory), whole, memory)
        Of(p) == p.ok => \A fmt \in BOOLEAN :
                            Every(p.value, fmt, print(p.value, fmt, MaxMemory))
    IN  Of(Parsed)

\* The client parses a game without its NUL: whatever bytes of the heap follow,
\* an array or an object that was printed is read as it was (the call of
\* cJSON_Parse on the bytes received).
ReadWithoutEnd ==
    LET Back(v, s) ==
            s.ok => \A garbage \in Pieces(<<>>) :
                ReadsAs(cJSON_ParseWithOpts(s.text \o garbage, MaxMemory, FALSE), v)
        Of(p) == p.ok /\ p.value.kind \in {"array", "object"}
                    => Back(p.value, print(p.value, TRUE, MaxMemory))
    IN  Of(Parsed)
=============================================================================
