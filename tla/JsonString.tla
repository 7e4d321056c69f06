----------------------------- MODULE JsonString -----------------------------
(***************************************************************************)
(* The strings of lib/json/json.c: the string buffer, parse_string and     *)
(* emit_string.                                                            *)
(*                                                                         *)
(* A text is a sequence of bytes and a pointer into it an index; behind    *)
(* the end it reads as the terminating 0 (Utf8!At).  `live` counts the     *)
(* blocks a call has allocated and not freed.  A loop is a function of the *)
(* number of its rounds, up to one it cannot exceed; a round after the     *)
(* last changes nothing.                                                   *)
(***************************************************************************)
EXTENDS Utf8

--------------------------------------------------------------------------
\* String buffers: what is written, the room there is, and whether a write
\* ever went behind it.

sb_init == [bytes |-> <<>>, alloc |-> 16, over |-> FALSE]

\* do alloc *= 2 while (alloc < wanted)
Doubling(alloc, wanted) ==
  LET size[k \in 0 .. wanted] ==
        IF k = 0 THEN 2 * alloc
        ELSE LET a == size[k - 1] IN IF a < wanted THEN 2 * a ELSE a
  IN  size
Doubled(alloc, wanted) == Doubling(alloc, wanted)[wanted]

sb_grow(sb, need) == [sb EXCEPT !.alloc = Doubled(@, Len(sb.bytes) + need)]

sb_need(sb, need) == IF sb.alloc - Len(sb.bytes) < need THEN sb_grow(sb, need) ELSE sb

Write(sb, b) ==
  [sb EXCEPT !.bytes = @ \o b, !.over = @ \/ Len(sb.bytes) + Len(b) > sb.alloc]

sb_put(sb, b) == Write(sb_need(sb, Len(b)), b)

--------------------------------------------------------------------------
\* Values, of which strings are one kind, as json_mk* makes them.  `blocks` is
\* how many allocations json_delete frees with the value.

Value(tag, s) == [tag |-> tag, s |-> s, kids |-> <<>>, blocks |-> IF tag = "string" THEN 2 ELSE 1]
Null          == Value("null", <<>>)

\* What a parse function returns: success with the position behind the value,
\* or failure with what it has left allocated.
Parsed(pos, v, live, over) == [ok |-> TRUE, pos |-> pos, val |-> v, live |-> live, over |-> over]
Failed(live, over)         == [ok |-> FALSE, pos |-> 0, val |-> Null, live |-> live, over |-> over]

--------------------------------------------------------------------------
\* Parsing.

\* What the letter behind a backslash means.
Short ==
  [d \in {34, 47, 92, 98, 102, 110, 114, 116} |->
     IF d = 98 THEN 8 ELSE IF d = 102 THEN 12 ELSE IF d = 110 THEN 10
     ELSE IF d = 114 THEN 13 ELSE IF d = 116 THEN 9 ELSE d]

Unit(n, b) == [n |-> n, b |-> b]
BadUnit    == Unit(0, <<>>)

\* The escape \u at i: one code unit, or a surrogate pair.
UnicodeEscape(t, i) ==
  LET uc == parse_hex16(t, i + 2)
      lc == parse_hex16(t, i + 8)
  IN  IF ~IsHex16(t, i + 2) \/ uc = 0 THEN BadUnit
      ELSE IF ~IsSurrogate(uc) THEN Unit(6, utf8_write_char(uc))
      ELSE IF At(t, i + 6) = 92 /\ At(t, i + 7) = 117 /\ IsHex16(t, i + 8) /\ IsPair(uc, lc)
           THEN Unit(12, utf8_write_char(from_surrogate_pair(uc, lc)))
           ELSE BadUnit

\* The character of a string literal at i: the bytes it takes, and means.
CharAt(t, i) ==
  LET c == At(t, i)
      d == At(t, i + 1)
      len == utf8_validate_cz(t, i)
  IN  IF c = 92 THEN IF d = 117 THEN UnicodeEscape(t, i)
                     ELSE IF d \in DOMAIN Short THEN Unit(2, <<Short[d]>>)
                     ELSE BadUnit
      ELSE IF c <= 31 \/ len = 0 THEN BadUnit
      ELSE Unit(len, SubSeq(t, i, i + len - 1))

\* Without `out` every character goes to the start of a buffer of 4 bytes.
throwaway_buffer == [bytes |-> <<>>, alloc |-> 4, over |-> FALSE]

NextBuffer(sb, out) == IF out THEN sb_need(sb, 4) ELSE [throwaway_buffer EXCEPT !.over = sb.over]

\* A round of the loop, which ends at a quotation mark or a character that is none.
StringRound(t, l, out) ==
  LET u == CharAt(t, l.pos)
  IN  IF At(t, l.pos) = 34 \/ u.n = 0 THEN l
      ELSE [pos |-> l.pos + u.n, sb |-> NextBuffer(Write(l.sb, u.b), out)]

StringLoop(t, i, out) ==
  LET round[k \in 0 .. Len(t)] ==
        IF k = 0 THEN [pos |-> i + 1, sb |-> IF out THEN sb_need(sb_init, 4) ELSE throwaway_buffer]
        ELSE StringRound(t, round[k - 1], out)
  IN  round

\* Behind the loop.
StringEnd(t, l, out) ==
  IF At(t, l.pos) = 34
  THEN Parsed(l.pos + 1, Value("string", l.sb.bytes), IF out THEN 1 ELSE 0, l.sb.over)
  ELSE Failed(0, l.sb.over)

parse_string(t, i, out) ==
  IF At(t, i) # 34 THEN Failed(0, FALSE) ELSE StringEnd(t, StringLoop(t, i, out)[Len(t)], out)

--------------------------------------------------------------------------
\* Printing.  A string handed to emit_string is valid UTF-8: it asserts that.

\* Mutant: a backslash is written as it is.
EscapedBare(s, i) ==
  LET len == utf8_validate_cz(s, i) IN Unit(len, SubSeq(s, i, i + len - 1))

\* The character of s at i: the bytes it has, and those it is written as.
Escaped(s, i) ==
  LET c   == At(s, i)
      len == utf8_validate_cz(s, i)
      sh  == {d \in DOMAIN Short \ {47} : Short[d] = c}
  IN  IF sh # {} THEN Unit(1, <<92, CHOOSE d \in sh : TRUE>>)
      ELSE IF c < 31 THEN Unit(len, <<92, 117>> \o write_hex16(utf8_read_char(s, i)))
      ELSE Unit(len, SubSeq(s, i, i + len - 1))

EscapeRoom == 14

EmitRound(s, l) ==
  IF l.pos > Len(s) THEN l
  ELSE LET u == Escaped(s, l.pos)
       IN  [pos |-> l.pos + u.n, sb |-> sb_need(Write(l.sb, u.b), EscapeRoom)]

EmitLoop(sb, s) ==
  LET round[k \in 0 .. Len(s)] ==
        IF k = 0 THEN [pos |-> 1, sb |-> Write(sb_need(sb, EscapeRoom), <<34>>)]
        ELSE EmitRound(s, round[k - 1])
  IN  round

emit_string(sb, s) == Write(EmitLoop(sb, s)[Len(s)].sb, <<34>>)

json_encode_string(s) == emit_string(sb_init, s)

\* Whether a parse has read the literal of s, up to `end`.
IsLiteralOf(p, s, end) == p.ok /\ p.val.s = s /\ p.pos = end

\* Whether parse_string reads s back from the literal json_encode_string writes:
\* it has to if and only if U+001F is not in it, which emit_string writes as it is.
ReadsBack(s) ==
  LET lit == json_encode_string(s).bytes
  IN  (\A i \in DOMAIN s : s[i] # 31) <=> IsLiteralOf(parse_string(lit, 1, TRUE), s, Len(lit) + 1)
=============================================================================
