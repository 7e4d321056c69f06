---------------------------- MODULE JsonGrammar ----------------------------
(***************************************************************************)
(* What the parser is measured by: the grammar of JSON (RFC 4627).  A span *)
(* i, j of a text is its bytes from i up to, not including, j; the grammar *)
(* says which spans are numbers, strings and values.                       *)
(***************************************************************************)
EXTENDS JsonParse, Rfc3629

Spans(t)      == (1 .. Len(t) + 1) \X (1 .. Len(t) + 1)
Part(t, i, j) == SubSeq(t, i, j - 1)

IsBlank(t, i, j)   == \A k \in i .. j - 1 : At(t, k) \in Space
AreDigits(t, i, j) == i < j /\ \A k \in i .. j - 1 : IsDigit(At(t, k))

--------------------------------------------------------------------------
\* Numbers: [-] (0 | 1-9 digits) [. digits] [e [+-] digits]

IsInteger(t, i, j)  == AreDigits(t, i, j) /\ (At(t, i) = 48 => j = i + 1)
IsFraction(t, i, j) == i = j \/ (At(t, i) = 46 /\ AreDigits(t, i + 1, j))
IsExponent(t, i, j) ==
  \/ i = j
  \/ /\ At(t, i) \in {69, 101}
     /\ AreDigits(t, i + 1, j) \/ (At(t, i + 1) \in {43, 45} /\ AreDigits(t, i + 2, j))

IsNumber(t, i, j) ==
  \E a \in {i, i + 1} :
    /\ a = i + 1 => At(t, i) = 45
    /\ \E b \in a .. j : IsInteger(t, a, b) /\ \E c \in b .. j : IsFraction(t, b, c) /\ IsExponent(t, c, j)

--------------------------------------------------------------------------
\* The places up to b that are reached from i by spans of `steps`, one behind
\* the other.
Reached(steps, i, j) ==
  LET reached[b \in i .. j] ==
        IF b = i THEN {i}
        ELSE LET r == reached[b - 1]
             IN  IF \E a \in r : <<a, b>> \in steps THEN r \cup {b} ELSE r
  IN  reached

Lead(steps, i, j) == j \in Reached(steps, i, j)[j]

\* Strings.  U+0000 is left out: a C string ends with it.

EscapedUnit(c) == Len(c) = 6 /\ c[1] = 92 /\ c[2] = 117 /\ \A k \in 3 .. 6 : IsHex(c[k])

IsStringUnit(c) ==
  \/ IsUtf8Char(c) /\ Payload(c) >= 32 /\ Payload(c) \notin {34, 92}
  \/ Len(c) = 2 /\ c[1] = 92 /\ c[2] \in DOMAIN Short
  \/ EscapedUnit(c) /\ LET u == parse_hex16(c, 3) IN u # 0 /\ ~IsSurrogate(u)
  \/ /\ Len(c) = 12 /\ EscapedUnit(SubSeq(c, 1, 6)) /\ EscapedUnit(SubSeq(c, 7, 12))
     /\ IsPair(parse_hex16(c, 3), parse_hex16(c, 9))

Units(t) == {p \in Spans(t) : IsStringUnit(Part(t, p[1], p[2]))}

IsEnclosed(t, i, j, open, close) == i + 2 <= j /\ At(t, i) = open /\ At(t, j - 1) = close

IsString(t, i, j) == IsEnclosed(t, i, j, 34, 34) /\ Lead(Units(t), i + 1, j - 1)

--------------------------------------------------------------------------
\* Values, which are made of the values in `inner`.

\* One of the spans with space around it.
Padded(t, spans, i, j) ==
  \E a \in i .. j : IsBlank(t, i, a) /\ \E b \in a .. j : IsBlank(t, b, j) /\ <<a, b>> \in spans

Strings(t) == {p \in Spans(t) : IsString(t, p[1], p[2])}

IsMember(t, inner, i, j) ==
  \E k \in i .. j - 1 : At(t, k) = 58 /\ Padded(t, Strings(t), i, k) /\ Padded(t, inner, k + 1, j)

\* An item between two separators: a comma, or the brackets at both ends.
ElementSteps(t, inner, end) ==
  {p \in Spans(t) : (p[2] = end \/ At(t, p[2]) = 44) /\ Padded(t, inner, p[1] + 1, p[2])}
MemberSteps(t, inner, end) ==
  {p \in Spans(t) : (p[2] = end \/ At(t, p[2]) = 44) /\ IsMember(t, inner, p[1] + 1, p[2])}

IsArray(t, inner, i, j) ==
  /\ IsEnclosed(t, i, j, 91, 93)
  /\ IsBlank(t, i + 1, j - 1) \/ Lead(ElementSteps(t, inner, j - 1), i, j - 1)
IsObject(t, inner, i, j) ==
  /\ IsEnclosed(t, i, j, 123, 125)
  /\ IsBlank(t, i + 1, j - 1) \/ Lead(MemberSteps(t, inner, j - 1), i, j - 1)

IsValue(t, inner, i, j) ==
  \/ Part(t, i, j) \in {Literal("null"), Literal("true"), Literal("false")}
  \/ IsNumber(t, i, j) \/ IsString(t, i, j)
  \/ IsArray(t, inner, i, j) \/ IsObject(t, inner, i, j)

\* The values in which containers are nested less deep than d.  None are nested
\* deeper than the text is long.
Values(t) ==
  LET value[d \in 0 .. Len(t)] ==
        IF d = 0 THEN {} ELSE {p \in Spans(t) : IsValue(t, value[d - 1], p[1], p[2])}
  IN  value

IsJson(t) == Padded(t, Values(t)[Len(t)], 1, Len(t) + 1)

\* json_decode and json_validate accept exactly the JSON texts (but for
\* U+0000), although one writes every string to a growing buffer and the other
\* to a buffer of four bytes.
AcceptsJson ==
  /\ json_decode(text).ok <=> IsJson(text)
  /\ json_validate(text).ok <=> json_decode(text).ok
=============================================================================
