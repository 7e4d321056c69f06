----------------------------- MODULE JsonParse -----------------------------
(***************************************************************************)
(* The parser of lib/json/json.c, which json_decode and json_validate      *)
(* share.                                                                  *)
(*                                                                         *)
(* A document is a tree of values (JsonTree has the pointers it is made    *)
(* of).  A double is represented by what "%.16g" prints for it.  The       *)
(* recursion of parse_value is a function of how deep containers are       *)
(* nested.                                                                 *)
(***************************************************************************)
EXTENDS JsonString

--------------------------------------------------------------------------
\* Scanning.

IsDigit(c) == 48 <= c /\ c <= 57

\* The first place from i on whose byte is not in cs.
BehindAll(t, i, cs) ==
  CHOOSE j \in i .. Len(t) + 1 : At(t, j) \notin cs /\ \A k \in i .. j - 1 : At(t, k) \in cs

Space            == {9, 10, 13, 32}
skip_space(t, i) == BehindAll(t, i, Space)
Digits(t, i)     == BehindAll(t, i, 48 .. 57)

Literal(w) == CASE w = "null"  -> <<110, 117, 108, 108>>
                [] w = "true"  -> <<116, 114, 117, 101>>
                [] w = "false" -> <<102, 97, 108, 115, 101>>

expect_literal(t, i, w) == \A k \in DOMAIN Literal(w) : At(t, i + k - 1) = Literal(w)[k]

\* Mutant: any run of digits is an integer part.
IntegerEndLax(t, i) == Digits(t, i)

\* The end of (0 | [1-9][0-9]*) at i, or i.
IntegerEnd(t, i) == IF At(t, i) = 48 THEN i + 1 ELSE Digits(t, i)

\* The end of an optional part that the byte at i opens and that needs digits
\* from j on: 0 if they are missing.
OptionalEnd(t, i, opens, j) ==
  IF ~opens THEN i ELSE IF Digits(t, j) = j THEN 0 ELSE Digits(t, j)

\* The end of the number at i, or 0.
parse_number(t, i) ==
  LET a == IF At(t, i) = 45 THEN i + 1 ELSE i
      b == IntegerEnd(t, a)
      c == OptionalEnd(t, b, At(t, b) = 46, b + 1)
      sign == IF At(t, c + 1) \in {43, 45} THEN 1 ELSE 0
      d == OptionalEnd(t, c, At(t, c) \in {69, 101}, c + 1 + sign)
  IN  IF b = a \/ c = 0 THEN 0 ELSE d

number_is_valid(t) == parse_number(t, 1) = Len(t) + 1

--------------------------------------------------------------------------
\* A double and its text.  A decimal is a sign, digits without zeros at its
\* ends, and the place of the point: 0.d1d2.. * 10^e.

Huge == 10000                          \* no exponent above it makes a difference

\* The digits from i up to j.
NumberValue(t, i, j) ==
  LET upto[k \in i .. j] ==
        IF k = i THEN 0
        ELSE LET n == 10 * upto[k - 1] + (t[k - 1] - 48) IN IF n > Huge THEN Huge ELSE n
  IN  IF i >= j THEN 0 ELSE upto[j]

Trimmed(neg, ds, e, nz) ==
  IF nz = {} THEN [neg |-> neg, digits |-> <<>>, e |-> 0]
  ELSE LET first == CHOOSE k \in nz : \A m \in nz : k <= m
           last  == CHOOSE k \in nz : \A m \in nz : m <= k
       IN  [neg |-> neg, digits |-> SubSeq(ds, first, last), e |-> e - (first - 1)]

\* The number from i to end, whose integer part ends in front of b, and its
\* fraction in front of c.
DecimalParts(t, i, a, b, c, end) ==
  LET sgn  == IF At(t, c + 1) = 45 THEN -1 ELSE 1
      from == IF At(t, c + 1) \in {43, 45} THEN c + 2 ELSE c + 1
      exp  == IF c = end THEN 0 ELSE sgn * NumberValue(t, from, end)
      ds   == SubSeq(t, a, b - 1) \o SubSeq(t, b + 1, c - 1)
  IN  Trimmed(a > i, ds, (b - a) + exp, {k \in DOMAIN ds : ds[k] # 48})

Decimal(t, i, end) ==
  LET a == IF At(t, i) = 45 THEN i + 1 ELSE i
      b == Digits(t, a)
      c == IF At(t, b) = 46 THEN Digits(t, b + 1) ELSE b
  IN  DecimalParts(t, i, a, b, c, end)

MaxExponent == 308                                        \* of a double

Zeros(n) == [k \in 1 .. n |-> 48]
TwoDigits(n) == IF n < 10 THEN <<48, 48 + n>>
                ELSE IF n < 100 THEN <<48 + n \div 10, 48 + (n % 10)>>
                ELSE <<48 + n \div 100, 48 + ((n \div 10) % 10), 48 + (n % 10)>>

\* sprintf("%.16g") of a number of at most 15 digits that is not denormal.
Printed(x) ==
  LET n == Len(x.digits)
      sign == IF x.neg THEN <<45>> ELSE <<>>
      point == IF n > 1 THEN <<46>> \o Tail(x.digits) ELSE <<>>
      exp == x.e - 1
  IN  IF n = 0 \/ exp < -324 THEN sign \o <<48>>
      ELSE IF exp > MaxExponent THEN sign \o <<105, 110, 102>>
      ELSE IF exp < -4 \/ exp >= 16
           THEN sign \o <<Head(x.digits)>> \o point \o <<101, IF exp < 0 THEN 45 ELSE 43>>
                     \o TwoDigits(IF exp < 0 THEN -exp ELSE exp)
      ELSE IF x.e <= 0 THEN sign \o <<48, 46>> \o Zeros(-x.e) \o x.digits
      ELSE IF n <= x.e THEN sign \o x.digits \o Zeros(x.e - n)
      ELSE sign \o SubSeq(x.digits, 1, x.e) \o <<46>> \o SubSeq(x.digits, x.e + 1, n)

--------------------------------------------------------------------------
\* Values.  `ret` is the container that is being filled, and json_delete(ret)
\* takes what it holds; without `out` nothing is allocated and it stays empty.

Held(v, out) == IF out THEN v.blocks ELSE 0

\* json_append_element, and append_member, whose key is a block of its own.
WithElement(ret, v, out) ==
  IF out THEN [ret EXCEPT !.kids = Append(@, [key |-> <<>>, val |-> v]), !.blocks = @ + v.blocks]
  ELSE ret
WithMember(ret, key, v, out) ==
  IF out THEN [ret EXCEPT !.kids = Append(@, [key |-> key, val |-> v]), !.blocks = @ + v.blocks + 1]
  ELSE ret

\* Mutant: a failure behind the key forgets the key.
FreedKeyNot(out) == 0

\* failure_free_key
FreedKey(out) == IF out THEN 1 ELSE 0

\* The loop over the elements or members of a container, in which `live` counts
\* what has been allocated: it goes on at a place, or has ended with a result.
GoesOn(pos, ret, live, over) ==
  [ended |-> FALSE, pos |-> pos, ret |-> ret, live |-> live, over |-> over]
Ended(p) == [ended |-> TRUE, res |-> p]

\* What follows an element or member: the end of the container, a comma, or neither.
Behind(t, i, close, ret, live, out, over) ==
  LET k == skip_space(t, i)
  IN  IF At(t, k) = close THEN Ended(Parsed(k + 1, ret, live, over))
      ELSE IF At(t, k) = 44 THEN GoesOn(skip_space(t, k + 1), ret, live, over)
      ELSE Ended(Failed(live - Held(ret, out), over))

\* `inner` is what parse_value does at each place, one container further in.
ElementRound(t, inner, l, out) ==
  LET e    == inner[l.pos]
      over == l.over \/ e.over
      live == l.live + e.live
  IN  IF l.ended THEN l
      ELSE IF ~e.ok THEN Ended(Failed(live - Held(l.ret, out), over))
      ELSE Behind(t, e.pos, 93, WithElement(l.ret, e.val, out), live, out, over)

\* Behind a key, which is in front of j.
MemberValue(t, inner, l, key, j, out) ==
  LET e    == inner[skip_space(t, j + 1)]
      over == l.over \/ key.over \/ e.over
      live == l.live + key.live + e.live
  IN  IF At(t, j) # 58
      THEN Ended(Failed(l.live + key.live - FreedKey(out) - Held(l.ret, out), l.over \/ key.over))
      ELSE IF ~e.ok THEN Ended(Failed(live - FreedKey(out) - Held(l.ret, out), over))
      ELSE Behind(t, e.pos, 125, WithMember(l.ret, key.val.s, e.val, out), live, out, over)

MemberKey(t, inner, l, key, out) ==
  IF ~key.ok THEN Ended(Failed(l.live + key.live - Held(l.ret, out), l.over \/ key.over))
  ELSE MemberValue(t, inner, l, key, skip_space(t, key.pos), out)

MemberRound(t, inner, l, out) ==
  IF l.ended THEN l ELSE MemberKey(t, inner, l, parse_string(t, l.pos, out), out)

\* A container is empty, or its loop is run.
Started(t, j, ret, out) == GoesOn(j, ret, Held(ret, out), FALSE)

Elements(t, inner, j, ret, out) ==
  LET round[k \in 0 .. Len(t)] ==
        IF k = 0 THEN Started(t, j, ret, out) ELSE ElementRound(t, inner, round[k - 1], out)
  IN  round

Members(t, inner, j, ret, out) ==
  LET round[k \in 0 .. Len(t)] ==
        IF k = 0 THEN Started(t, j, ret, out) ELSE MemberRound(t, inner, round[k - 1], out)
  IN  round

parse_array(t, inner, i, out) ==
  LET ret == Value("array", <<>>)
      j   == skip_space(t, i + 1)
  IN  IF At(t, j) = 93 THEN Parsed(j + 1, ret, Held(ret, out), FALSE)
      ELSE Elements(t, inner, j, ret, out)[Len(t)].res

parse_object(t, inner, i, out) ==
  LET ret == Value("object", <<>>)
      j   == skip_space(t, i + 1)
  IN  IF At(t, j) = 125 THEN Parsed(j + 1, ret, Held(ret, out), FALSE)
      ELSE Members(t, inner, j, ret, out)[Len(t)].res

LiteralValue(t, i, w, v, out) ==
  IF expect_literal(t, i, w) THEN Parsed(i + Len(Literal(w)), v, Held(v, out), FALSE)
  ELSE Failed(0, FALSE)

\* mkstring allocates the node, to the text that parse_string has.
StringNode(p, out) ==
  IF p.ok THEN Parsed(p.pos, p.val, p.live + (IF out THEN 1 ELSE 0), p.over) ELSE p
StringValue(t, i, out) == StringNode(parse_string(t, i, out), out)

NumberUpto(t, i, end, out) ==
  LET v == Value("number", Printed(Decimal(t, i, end)))
  IN  IF end = 0 THEN Failed(0, FALSE) ELSE Parsed(end, v, Held(v, out), FALSE)

NumberAt(t, i, out) == NumberUpto(t, i, parse_number(t, i), out)

ValueAt(t, inner, i, out) ==
  LET c == At(t, i)
  IN  CASE c = 110 -> LiteralValue(t, i, "null", Null, out)
        [] c = 102 -> LiteralValue(t, i, "false", Value("bool", <<0>>), out)
        [] c = 116 -> LiteralValue(t, i, "true", Value("bool", <<1>>), out)
        [] c = 34  -> StringValue(t, i, out)
        [] c = 91  -> parse_array(t, inner, i, out)
        [] c = 123 -> parse_object(t, inner, i, out)
        [] OTHER   -> NumberAt(t, i, out)

\* What parse_value does at each place of t with containers that are nested less
\* deep than d.  None are nested deeper than t is long.
Nested(t, out) ==
  LET value[d \in 0 .. Len(t)] ==
        IF d = 0 THEN [i \in 1 .. Len(t) + 1 |-> Failed(0, FALSE)]
        ELSE [i \in 1 .. Len(t) + 1 |-> ValueAt(t, value[d - 1], i, out)]
  IN  value

parse_value(t, i, out) == Nested(t, out)[Len(t)][i]

\* Nothing but space may follow the value p.
Alone(t, p, out) ==
  IF p.ok /\ At(t, skip_space(t, p.pos)) # 0 THEN Failed(p.live - Held(p.val, out), p.over) ELSE p

json_decode(t)   == Alone(t, parse_value(t, skip_space(t, 1), TRUE), TRUE)
json_validate(t) == Alone(t, parse_value(t, skip_space(t, 1), FALSE), FALSE)
=============================================================================
