--------------------------- MODULE JsonTextProofs ---------------------------
(***************************************************************************)
(* Proofs about the texts of lib/json, of any length: its characters,      *)
(* strings and their literals; the parser, which keeps its memory, and     *)
(* which accepts the same with and without a document to make; what        *)
(* json_delete frees; and the grammar, of which the parser accepts what it *)
(* has and no more.  A loop, or a recursion over nested containers, is     *)
(* followed by the first round, or the least depth, at which a claim about *)
(* it would fail.                                                          *)
(***************************************************************************)
EXTENDS JsonMemory, JsonGrammar, SequenceTheorems, WellFoundedInduction, TLAPS

-----------------------------------------------------------------------------
(* Characters and escapes. *)

\* A number in digits of base 64, as UTF-8 writes it.
LEMMA Digits64 ==
  ASSUME NEW u \in Nat
  PROVE  /\ u \div 64 \in Nat /\ u % 64 \in Nat /\ u % 64 < 64
         /\ u = 64 * (u \div 64) + (u % 64)
         /\ u \div 4096 = (u \div 64) \div 64
         /\ u \div 262144 = (u \div 4096) \div 64
BY SMT

\* ... and of base 16.
LEMMA Digits16 ==
  ASSUME NEW v \in Nat
  PROVE  /\ v \div 16 \in Nat /\ v % 16 \in Nat /\ v % 16 < 16
         /\ v = 16 * (v \div 16) + (v % 16)
         /\ v \div 256 = (v \div 16) \div 16
         /\ v \div 4096 = (v \div 256) \div 16
BY SMT

\* A lead byte is a tag and a digit.
LEMMA LeadDigit ==
  ASSUME NEW d \in Nat
  PROVE  /\ d < 64 => (128 + d) % 64 = d
         /\ d < 32 => (192 + d) % 32 = d
         /\ d < 16 => (224 + d) % 16 = d
         /\ d < 8  => (240 + d) % 8 = d
BY SMT

\* What utf8_write_char writes is one valid character, for utf8_validate_cz as
\* for utf8_read_char, and reads as the code point it was written for.
THEOREM Utf8RoundTrip ==
  ASSUME NEW u, IsCodePoint(u)
  PROVE  LET s == utf8_write_char(u)
         IN  utf8_validate_cz(s, 1) = Len(s) /\ utf8_read_char(s, 1) = u
<1> DEFINE s == utf8_write_char(u)
<1>0. u \in Nat /\ u <= 1114111 /\ ~(55296 <= u /\ u <= 57343)
  BY DEF IsCodePoint, IsSurrogate
<1> SUFFICES utf8_validate_cz(s, 1) = Len(s) /\ utf8_read_char(s, 1) = u
  OBVIOUS
<1>1. CASE u <= 127
  <2>1. s = <<u>>
    BY <1>1 DEF utf8_write_char
  <2>2. At(s, 1) = u /\ Len(s) = 1
    BY <2>1 DEF At
  <2> QED BY <1>0, <1>1, <2>2 DEF utf8_validate_cz, utf8_read_char
<1>2. CASE 127 < u /\ u <= 2047
  <2> DEFINE q == u \div 64  r == u % 64
  <2>1. q \in Nat /\ r \in Nat /\ r < 64 /\ u = 64 * q + r
    BY <1>0, Digits64
  <2>2. s = <<192 + q, 128 + r>>
    BY <1>0, <1>2, SMT DEF utf8_write_char
  <2>3. At(s, 1) = 192 + q /\ At(s, 2) = 128 + r /\ Len(s) = 2
    BY <2>2 DEF At
  <2> HIDE DEF q, r, s
  <2>4. 2 <= q /\ q < 32
    BY <2>1, <1>2, SMT
  <2>5. (192 + q) % 32 = q /\ (128 + r) % 64 = r
    BY <2>1, <2>4, LeadDigit
  <2>6. utf8_validate_cz(s, 1) = 2
    BY <2>1, <2>3, <2>4, SMT DEF utf8_validate_cz, Continues
  <2>7. utf8_read_char(s, 1) = q * 64 + r
    BY <2>1, <2>3, <2>4, <2>5, SMT DEF utf8_read_char
  <2> QED BY <2>1, <2>3, <2>6, <2>7, SMT
<1>3. CASE 2047 < u /\ u <= 65535
  <2> DEFINE p == u \div 64  r == u % 64  q == p % 64  t == p \div 64
  <2>1. p \in Nat /\ r \in Nat /\ r < 64 /\ u = 64 * p + r /\ u \div 4096 = t
    BY <1>0, Digits64
  <2> HIDE DEF p, r
  <2>2. t \in Nat /\ q \in Nat /\ q < 64 /\ p = 64 * t + q
    BY <2>1, Digits64
  <2>3. s = <<224 + t, 128 + q, 128 + r>>
    BY <1>0, <1>3, <2>1, SMT DEF utf8_write_char, p, r
  <2>4. At(s, 1) = 224 + t /\ At(s, 2) = 128 + q /\ At(s, 3) = 128 + r /\ Len(s) = 3
    BY <2>3 DEF At
  <2> HIDE DEF q, t, s
  <2>5. t < 16
    BY <2>1, <2>2, <1>3, SMT
  <2>6. (224 + t) % 16 = t /\ (128 + q) % 64 = q /\ (128 + r) % 64 = r
    BY <2>1, <2>2, <2>5, LeadDigit
  <2>7. ~(t = 0 /\ q < 32) /\ ~(t = 13 /\ q > 31)
    BY <1>0, <1>3, <2>1, <2>2, SMT
  <2>8. utf8_validate_cz(s, 1) = 3
    BY <2>1, <2>2, <2>4, <2>5, <2>7, SMT DEF utf8_validate_cz, Continues
  <2>9. utf8_read_char(s, 1) = t * 4096 + q * 64 + r
    <3>1. 223 < At(s, 1) /\ At(s, 1) <= 239
      BY <2>2, <2>4, <2>5, SMT
    <3>2. utf8_read_char(s, 1) = (At(s, 1) % 16) * 4096 + (At(s, 2) % 64) * 64 + (At(s, 3) % 64)
      BY <3>1, <2>2, <2>4, SMT DEF utf8_read_char
    <3> QED BY <3>2, <2>4, <2>6
  <2> QED BY <2>1, <2>2, <2>4, <2>8, <2>9, SMT
<1>4. CASE 65535 < u
  <2> DEFINE n == u \div 64  r == u % 64  p == n \div 64  q == n % 64  t == p \div 64  v == p % 64
  <2>1. n \in Nat /\ r \in Nat /\ r < 64 /\ u = 64 * n + r /\ u \div 4096 = p /\ u \div 262144 = (u \div 4096) \div 64
    BY <1>0, Digits64
  <2> HIDE DEF n, r
  <2>2. p \in Nat /\ q \in Nat /\ q < 64 /\ n = 64 * p + q
    BY <2>1, Digits64
  <2> HIDE DEF p, q
  <2>3. t \in Nat /\ v \in Nat /\ v < 64 /\ p = 64 * t + v /\ u \div 262144 = t
    BY <2>1, <2>2, Digits64
  <2>4. s = <<240 + t, 128 + v, 128 + q, 128 + r>>
    <3>1. s = <<240 + u \div 262144, 128 + ((u \div 4096) % 64), 128 + ((u \div 64) % 64), 128 + (u % 64)>>
      BY <1>0, <1>4, SMT DEF utf8_write_char
    <3> QED BY <3>1, <2>1, <2>3 DEF n, r, q
  <2>5. At(s, 1) = 240 + t /\ At(s, 2) = 128 + v /\ At(s, 3) = 128 + q /\ At(s, 4) = 128 + r /\ Len(s) = 4
    BY <2>4 DEF At
  <2> HIDE DEF t, v, s
  <2>6. t <= 4
    BY <1>0, <2>1, <2>2, <2>3, SMT
  <2>7. (240 + t) % 8 = t /\ (128 + v) % 64 = v /\ (128 + q) % 64 = q /\ (128 + r) % 64 = r
    BY <2>1, <2>2, <2>3, <2>6, LeadDigit, SMT
  <2>8. ~(t = 0 /\ v < 16) /\ ~(t = 4 /\ v > 15)
    BY <1>0, <1>4, <2>1, <2>2, <2>3, SMT
  <2>9. utf8_validate_cz(s, 1) = 4
    BY <2>1, <2>2, <2>3, <2>5, <2>6, <2>8, SMT DEF utf8_validate_cz, Continues
  <2>10. utf8_read_char(s, 1) = t * 262144 + v * 4096 + q * 64 + r
    <3>1. 239 < At(s, 1)
      BY <2>3, <2>5, SMT
    <3>2. utf8_read_char(s, 1) = (At(s, 1) % 8) * 262144 + (At(s, 2) % 64) * 4096
                                  + (At(s, 3) % 64) * 64 + (At(s, 4) % 64)
      BY <3>1, <2>3, <2>5, SMT DEF utf8_read_char
    <3> QED BY <3>2, <2>5, <2>7
  <2> QED BY <2>1, <2>2, <2>3, <2>5, <2>9, <2>10, SMT
<1> QED
  BY <1>0, <1>1, <1>2, <1>3, <1>4, SMT

\* Two digits of base 64 in a number.
LEMMA FromDigits64 ==
  ASSUME NEW a \in Nat, NEW b \in Nat, b < 64
  PROVE  (64 * a + b) \div 64 = a /\ (64 * a + b) % 64 = b
BY SMT

\* The converse of Utf8RoundTrip: what utf8_validate_cz accepts is a character of
\* a code point, and in the form that utf8_write_char gives it.  There is no other
\* spelling of a character, and no character that is not one.
THEOREM Utf8NoOther ==
  ASSUME NEW s, NEW i \in Int,
         At(s, i) \in 0 .. 255, At(s, i + 1) \in 0 .. 255,
         At(s, i + 2) \in 0 .. 255, At(s, i + 3) \in 0 .. 255,
         utf8_validate_cz(s, i) > 0
  PROVE  LET u == utf8_read_char(s, i)
         IN  /\ IsCodePoint(u)
             /\ utf8_write_char(u) = [k \in 1 .. utf8_validate_cz(s, i) |-> At(s, i + k - 1)]
<1>a. PICK a \in 0 .. 255 : a = At(s, i)
  OBVIOUS
<1>b. PICK b \in 0 .. 255 : b = At(s, i + 1)
  OBVIOUS
<1>c. PICK c \in 0 .. 255 : c = At(s, i + 2)
  OBVIOUS
<1>d. PICK d \in 0 .. 255 : d = At(s, i + 3)
  OBVIOUS
<1> DEFINE u == utf8_read_char(s, i)
           n == utf8_validate_cz(s, i)
           t == [k \in 1 .. n |-> At(s, i + k - 1)]
<1>1. \/ n = 1 /\ a <= 127
      \/ n = 2 /\ 194 <= a /\ a <= 223 /\ Continues(b)
      \/ n = 3 /\ 224 <= a /\ a <= 239 /\ Continues(b) /\ Continues(c)
         /\ ~(a = 224 /\ b < 160) /\ ~(a = 237 /\ b > 159)
      \/ n = 4 /\ 240 <= a /\ a <= 244 /\ Continues(b) /\ Continues(c) /\ Continues(d)
         /\ ~(a = 240 /\ b < 144) /\ ~(a = 244 /\ b > 143)
  BY <1>a, <1>b, <1>c, <1>d DEF utf8_validate_cz
<1>2. \A k \in 1 .. n : t[k] = At(s, i + k - 1)
  OBVIOUS
<1>3. /\ At(s, i + 1 - 1) = a /\ At(s, i + 2 - 1) = b /\ At(s, i + 3 - 1) = c /\ At(s, i + 4 - 1) = d
  <2>1. i + 1 - 1 = i /\ i + 2 - 1 = i + 1 /\ i + 3 - 1 = i + 2 /\ i + 4 - 1 = i + 3
    OBVIOUS
  <2>2. QED
    BY <1>a, <1>b, <1>c, <1>d, <2>1
<1>4. CASE n = 1 /\ a <= 127
  <2>1. u = a
    BY <1>a, <1>4 DEF utf8_read_char
  <2>2. t = <<a>>
    BY <1>3, <1>4
  <2>3. IsCodePoint(u) /\ utf8_write_char(u) = <<a>>
    BY <1>4, <2>1, SMT DEF IsCodePoint, IsSurrogate, utf8_write_char
  <2>4. QED
    BY <2>2, <2>3
<1>5. CASE n = 2 /\ 194 <= a /\ a <= 223 /\ Continues(b)
  <2>1. PICK x \in Nat : a = 192 + x /\ 2 <= x /\ x < 32
    BY <1>5
  <2>2. PICK y \in Nat : b = 128 + y /\ y < 64
    BY <1>5 DEF Continues
  <2>3. u = 64 * x + y
    <3>1. a % 32 = x /\ b % 64 = y
      BY <2>1, <2>2, LeadDigit
    <3>2. u = (a % 32) * 64 + (b % 64)
      BY <1>5, <1>a, <1>b DEF utf8_read_char
    <3>3. QED
      BY <3>1, <3>2
  <2>4. t = <<a, b>>
    BY <1>3, <1>5
  <2>5. u \div 64 = x /\ u % 64 = y
    BY <2>2, <2>3, FromDigits64
  <2>6. u \in Nat /\ 127 < u /\ u <= 2047
    BY <2>1, <2>2, <2>3
  <2> HIDE DEF u, n, t
  <2>7. utf8_write_char(u) = <<192 + u \div 64, 128 + (u % 64)>>
    BY <2>6, SMT DEF utf8_write_char
  <2>8. IsCodePoint(u) /\ utf8_write_char(u) = t
    BY <2>1, <2>2, <2>4, <2>5, <2>6, <2>7 DEF IsCodePoint, IsSurrogate
  <2>9. QED
    BY <2>8 DEF u, n, t
<1>6. CASE n = 3 /\ 224 <= a /\ a <= 239 /\ Continues(b) /\ Continues(c)
           /\ ~(a = 224 /\ b < 160) /\ ~(a = 237 /\ b > 159)
  <2>1. PICK x \in Nat : a = 224 + x /\ x < 16
    BY <1>6
  <2>2. PICK y \in Nat : b = 128 + y /\ y < 64
    BY <1>6 DEF Continues
  <2>3. PICK z \in Nat : c = 128 + z /\ z < 64
    BY <1>6 DEF Continues
  <2>4. PICK p \in Nat : p = 64 * x + y
    BY <2>1, <2>2
  <2>5. u = 64 * p + z
    <3>1. a % 16 = x /\ b % 64 = y /\ c % 64 = z
      BY <2>1, <2>2, <2>3, LeadDigit
    <3>2. u = (a % 16) * 4096 + (b % 64) * 64 + (c % 64)
      BY <1>6, <1>a, <1>b, <1>c DEF utf8_read_char
    <3>3. u = x * 4096 + y * 64 + z
      BY <3>1, <3>2
    <3>4. QED
      BY <2>4, <3>3
  <2>6. t = <<a, b, c>>
    BY <1>3, <1>6
  <2> HIDE DEF u, n, t
  <2>7. u \in Nat /\ u \div 64 = p /\ u % 64 = z /\ p \div 64 = x /\ p % 64 = y
    BY <2>2, <2>3, <2>4, <2>5, FromDigits64
  <2>8. u \div 4096 = x
    BY <2>7, Digits64
  <2>9. ~(x = 0 /\ y < 32) /\ ~(x = 13 /\ y > 31)
    BY <1>6, <2>1, <2>2
  <2>10. 2047 < u /\ u <= 65535 /\ ~(55296 <= u /\ u <= 57343)
    BY <2>1, <2>2, <2>3, <2>4, <2>5, <2>9
  <2>11. utf8_write_char(u) = <<224 + u \div 4096, 128 + ((u \div 64) % 64), 128 + (u % 64)>>
    BY <2>7, <2>10, SMT DEF utf8_write_char
  <2>12. utf8_write_char(u) = t
    BY <2>1, <2>2, <2>3, <2>6, <2>7, <2>8, <2>11
  <2>13. IsCodePoint(u)
    BY <2>7, <2>10 DEF IsCodePoint, IsSurrogate
  <2>14. QED
    BY <2>12, <2>13 DEF u, n, t
<1>7. CASE n = 4 /\ 240 <= a /\ a <= 244 /\ Continues(b) /\ Continues(c) /\ Continues(d)
           /\ ~(a = 240 /\ b < 144) /\ ~(a = 244 /\ b > 143)
  <2>1. PICK x \in Nat : a = 240 + x /\ x <= 4
    BY <1>7
  <2>2. PICK y \in Nat : b = 128 + y /\ y < 64
    BY <1>7 DEF Continues
  <2>3. PICK z \in Nat : c = 128 + z /\ z < 64
    BY <1>7 DEF Continues
  <2>4. PICK w \in Nat : d = 128 + w /\ w < 64
    BY <1>7 DEF Continues
  <2>5. PICK p \in Nat : p = 64 * x + y
    BY <2>1, <2>2
  <2>6. PICK q \in Nat : q = 64 * p + z
    BY <2>3, <2>5
  <2>7. u = 64 * q + w
    <3>1. a % 8 = x /\ b % 64 = y /\ c % 64 = z /\ d % 64 = w
      BY <2>1, <2>2, <2>3, <2>4, LeadDigit
    <3>2. u = (a % 8) * 262144 + (b % 64) * 4096 + (c % 64) * 64 + (d % 64)
      BY <1>7, <1>a, <1>b, <1>c, <1>d DEF utf8_read_char
    <3>3. u = x * 262144 + y * 4096 + z * 64 + w
      BY <3>1, <3>2
    <3>4. QED
      BY <2>5, <2>6, <3>3
  <2>8. t = <<a, b, c, d>>
    BY <1>3, <1>7
  <2> HIDE DEF u, n, t
  <2>9. /\ u \in Nat /\ u \div 64 = q /\ u % 64 = w /\ q \div 64 = p /\ q % 64 = z
        /\ p \div 64 = x /\ p % 64 = y
    BY <2>2, <2>3, <2>4, <2>5, <2>6, <2>7, FromDigits64
  <2>10. u \div 4096 = p /\ u \div 262144 = x
    BY <2>9, Digits64
  <2>11. ~(x = 0 /\ y < 16) /\ ~(x = 4 /\ y > 15)
    BY <1>7, <2>1, <2>2
  <2>12. 65535 < u /\ u <= 1114111
    BY <2>1, <2>2, <2>3, <2>4, <2>5, <2>6, <2>7, <2>11
  <2>13. utf8_write_char(u) = <<240 + u \div 262144, 128 + ((u \div 4096) % 64),
                                128 + ((u \div 64) % 64), 128 + (u % 64)>>
    BY <2>9, <2>12, SMT DEF utf8_write_char
  <2>14. utf8_write_char(u) = t
    BY <2>1, <2>2, <2>3, <2>4, <2>8, <2>9, <2>10, <2>13
  <2>15. IsCodePoint(u)
    BY <2>9, <2>12 DEF IsCodePoint, IsSurrogate
  <2>16. QED
    BY <2>14, <2>15 DEF u, n, t
<1>8. QED
  BY <1>1, <1>4, <1>5, <1>6, <1>7

\* A pair made of a code point above U+FFFF is one that from_surrogate_pair
\* accepts, and names that code point.
THEOREM SurrogateRoundTrip ==
  ASSUME NEW u \in Nat, 65536 <= u, u <= 1114111
  PROVE  LET p == to_surrogate_pair(u)
         IN  IsPair(p[1], p[2]) /\ from_surrogate_pair(p[1], p[2]) = u
<1> DEFINE n == u - 65536
           h == n \div 1024
           l == n % 1024
<1>1. n \in Nat /\ n <= 1048575
  BY SMT
<1>2. n = 1024 * h + l /\ h \in Nat /\ l \in Nat /\ l < 1024
  <2> HIDE DEF n
  <2> QED BY <1>1, SMT
<1>3. h < 1024
  <2> HIDE DEF n, h, l
  <2> QED BY <1>1, <1>2, SMT
<1>4. h % 1024 = h
  <2> HIDE DEF n, h, l
  <2> QED BY <1>2, <1>3, SMT
<1>5. (55296 + h) % 1024 = h /\ (56320 + l) % 1024 = l
  <2> HIDE DEF n, h, l
  <2> QED BY <1>2, <1>3, SMT
<1>6. to_surrogate_pair(u) = <<55296 + h, 56320 + l>>
  <2>1. to_surrogate_pair(u) = <<55296 + (h % 1024), 56320 + l>>
    BY DEF to_surrogate_pair
  <2> QED BY <2>1, <1>4
<1>7. u = 65536 + n
  BY SMT
<1> HIDE DEF n, h, l
<1> QED
  BY <1>1, <1>2, <1>3, <1>5, <1>6, <1>7, SMT DEF IsPair, from_surrogate_pair

\* One hexadecimal digit is a digit for IsHex, and has the value it was written for.
LEMMA HexDigitValue ==
  ASSUME NEW d \in Nat, d < 16
  PROVE  IsHex(HexDigit(d)) /\ HexValue(HexDigit(d)) = d
<1>1. CASE d < 10
  BY <1>1, SMT DEF IsHex, HexDigit, HexValue
<1>2. CASE d >= 10
  BY <1>2, SMT DEF IsHex, HexDigit, HexValue
<1> QED BY <1>1, <1>2, SMT

\* The four digits write_hex16 writes are ones parse_hex16 accepts, and it
\* reads the number they were written for.
THEOREM HexRoundTrip ==
  ASSUME NEW v \in Nat, v <= 65535
  PROVE  LET s == write_hex16(v)
         IN  IsHex16(s, 1) /\ parse_hex16(s, 1) = v
<1> DEFINE s == write_hex16(v)
           a == v \div 16   d0 == v % 16
           b == a \div 16   d1 == a % 16
           d3 == b \div 16  d2 == b % 16
<1> SUFFICES IsHex16(s, 1) /\ parse_hex16(s, 1) = v
  OBVIOUS
<1>1. a \in Nat /\ d0 \in Nat /\ d0 < 16 /\ v = 16 * a + d0 /\ v \div 256 = b
  BY Digits16
<1> HIDE DEF a, d0
<1>2. b \in Nat /\ d1 \in Nat /\ d1 < 16 /\ a = 16 * b + d1
  BY <1>1, Digits16
<1> HIDE DEF b, d1
<1>3. d3 \in Nat /\ d2 \in Nat /\ d2 < 16 /\ b = 16 * d3 + d2
  BY <1>2, Digits16
<1>4. v \div 4096 = d3 /\ (v \div 256) % 16 = d2
  BY <1>1, Digits16
<1>5. s = <<HexDigit(d3), HexDigit(d2), HexDigit(d1), HexDigit(d0)>>
  BY <1>4 DEF write_hex16, a, d0, d1
<1> HIDE DEF d2, d3
<1>6. d3 < 16
  BY <1>1, <1>2, <1>3, SMT
<1>7. /\ At(s, 1) = HexDigit(d3) /\ At(s, 2) = HexDigit(d2)
      /\ At(s, 3) = HexDigit(d1) /\ At(s, 4) = HexDigit(d0)
  BY <1>5 DEF At
<1> HIDE DEF s
<1>8. /\ IsHex(HexDigit(d3)) /\ HexValue(HexDigit(d3)) = d3
      /\ IsHex(HexDigit(d2)) /\ HexValue(HexDigit(d2)) = d2
      /\ IsHex(HexDigit(d1)) /\ HexValue(HexDigit(d1)) = d1
      /\ IsHex(HexDigit(d0)) /\ HexValue(HexDigit(d0)) = d0
  BY <1>1, <1>2, <1>3, <1>6, HexDigitValue
<1>9. IsHex16(s, 1)
  <2> SUFFICES ASSUME NEW k \in 0 .. 3 PROVE IsHex(At(s, 1 + k))
    BY DEF IsHex16
  <2>1. k = 0 \/ k = 1 \/ k = 2 \/ k = 3
    BY SMT
  <2>2. 1 + 0 = 1 /\ 1 + 1 = 2 /\ 1 + 2 = 3 /\ 1 + 3 = 4
    BY SMT
  <2> QED BY <2>1, <2>2, <1>7, <1>8
<1>10. parse_hex16(s, 1) = d3 * 4096 + d2 * 256 + d1 * 16 + d0
  <2>1. parse_hex16(s, 1) = HexValue(At(s, 1)) * 4096 + HexValue(At(s, 2)) * 256
                             + HexValue(At(s, 3)) * 16 + HexValue(At(s, 4))
    BY SMT DEF parse_hex16
  <2> QED BY <2>1, <1>7, <1>8
<1> QED BY <1>1, <1>2, <1>3, <1>9, <1>10, SMT

-----------------------------------------------------------------------------
(* Loops.  There is no theorem of induction that the provers can apply to   *)
(* a property, but one about sets: a nonempty set of natural numbers has a  *)
(* least one.                                                               *)

Smaller == {p \in Nat \X Nat : p[1] < p[2]}

LEMMA LeastNatural ==
  ASSUME NEW T, T \subseteq Nat, T # {}
  PROVE  \E n \in T : \A m \in T : n <= m
<1>1. IsWellFoundedOn(Smaller, Nat)
  BY NatLessThanWellFounded DEF OpToRel, Smaller
<1>2. PICK n \in T : \A m \in T : <<m, n>> \notin Smaller
  BY <1>1, WFMin
<1>3. \A m \in T : ~(m < n)
  BY <1>2 DEF Smaller
<1>4. QED
  BY <1>2, <1>3

\* What holds of the start of a loop, and of each round if it holds of the round
\* before, holds of all.
LEMMA LoopInvariant ==
  ASSUME NEW n \in Nat, NEW f, NEW Q, f[0] \in Q,
         \A k \in 1 .. n : f[k - 1] \in Q => f[k] \in Q
  PROVE  \A k \in 0 .. n : f[k] \in Q
<1> DEFINE Bad == {k \in 0 .. n : f[k] \notin Q}
<1>1. SUFFICES ASSUME Bad # {} PROVE FALSE
  OBVIOUS
<1>2. Bad \subseteq Nat
  OBVIOUS
<1>3. PICK m \in Bad : \A k \in Bad : m <= k
  <2> HIDE DEF Bad
  <2> QED BY <1>1, <1>2, LeastNatural
<1>4. m \in 1 .. n /\ f[m - 1] \in Q
  BY <1>3
<1>5. QED
  BY <1>3, <1>4

\* The function f of n rounds of a loop that starts in a, a round of which takes
\* a state x of S to g[x].
Rounds(S) == [S -> S]
IsLoop(f, S, g, a, n) ==
  f \in [0 .. n -> S] /\ f[0] = a /\ \A k \in 1 .. n : f[k] = g[f[k - 1]]

\* Every loop exists, for any number of rounds.
LEMMA LoopExists ==
  ASSUME NEW S, NEW g, g \in Rounds(S), NEW a \in S, NEW n \in Nat
  PROVE  \E f : IsLoop(f, S, g, a, n)
<1> USE DEF IsLoop, Rounds
<1> DEFINE Loop(m, f) == IsLoop(f, S, g, a, m)
           Bad == {m \in Nat : ~\E f : Loop(m, f)}
<1>1. SUFFICES ASSUME Bad # {} PROVE FALSE
  OBVIOUS
<1>2. PICK m \in Bad : \A k \in Bad : m <= k
  <2>1. Bad \subseteq Nat
    OBVIOUS
  <2> HIDE DEF Bad
  <2>2. QED
    BY <1>1, <2>1, LeastNatural
<1>3. m # 0
  <2>1. Loop(0, [k \in 0 .. 0 |-> a])
    OBVIOUS
  <2>2. QED
    BY <1>2, <2>1
<1>4. m - 1 \in Nat /\ m - 1 \notin Bad
  <2>1. m \in Nat
    OBVIOUS
  <2> HIDE DEF Bad
  <2>2. QED
    BY <1>2, <1>3, <2>1
<1>5. PICK f : Loop(m - 1, f)
  BY <1>4
<1> DEFINE h == [k \in 0 .. m |-> IF k < m THEN f[k] ELSE g[f[m - 1]]]
<1>6. Loop(m, h)
  <2>1. \A k \in 0 .. m - 1 : k \in 0 .. m /\ h[k] = f[k]
    BY <1>4
  <2>2. h[m] = g[f[m - 1]] /\ f[m - 1] \in S
    BY <1>4, <1>5
  <2>3. h \in [0 .. m -> S]
    BY <1>4, <1>5, <2>2
  <2>4. ASSUME NEW k \in 1 .. m PROVE h[k] = g[h[k - 1]]
    <3>1. k - 1 \in 0 .. m - 1 /\ h[k - 1] = f[k - 1]
      BY <1>4, <2>1
    <3>2. CASE k = m
      BY <2>2, <3>1, <3>2
    <3>3. CASE k < m
      BY <1>4, <1>5, <2>1, <3>1, <3>3
    <3>4. QED
      BY <1>4, <3>2, <3>3
  <2>5. h[0] = a
    BY <1>4, <1>5, <2>1
  <2>6. QED
    BY <2>3, <2>4, <2>5
<1>7. QED
  BY <1>2, <1>6

\* A state that a round does not change stays.
LEMMA LoopStops ==
  ASSUME NEW n \in Nat, NEW f, NEW m \in 0 .. n,
         \A k \in 1 .. n : f[k - 1] = f[m] => f[k] = f[m]
  PROVE  \A k \in m .. n : f[k] = f[m]
<1> DEFINE h == [k \in 0 .. n - m |-> f[k + m]]
<1>1. h[0] \in {f[m]}
  OBVIOUS
<1>2. \A k \in 1 .. n - m : h[k - 1] \in {f[m]} => h[k] \in {f[m]}
  <2> SUFFICES ASSUME NEW k \in 1 .. n - m, h[k - 1] = f[m] PROVE h[k] = f[m]
    OBVIOUS
  <2>1. h[k - 1] = f[(k + m) - 1] /\ h[k] = f[k + m] /\ k + m \in 1 .. n
    OBVIOUS
  <2>2. QED
    BY <2>1
<1>3. \A k \in 0 .. n - m : h[k] \in {f[m]}
  <2>1. n - m \in Nat
    OBVIOUS
  <2> HIDE DEF h
  <2>2. QED
    BY <1>1, <1>2, <2>1, LoopInvariant
<1>4. ASSUME NEW k \in m .. n PROVE f[k] = f[m]
  <2>1. k - m \in 0 .. n - m /\ (k - m) + m = k
    OBVIOUS
  <2>2. QED
    BY <1>3, <2>1
<1>5. QED
  BY <1>4

-----------------------------------------------------------------------------
(* utf8_validate. *)

AnyByte == 0 .. 255
Byte    == 1 .. 255
String  == Seq(Byte)                     \* what a C string can hold

PlaceAfter(s, i) == IF i > Len(s) THEN i ELSE i + utf8_validate_cz(s, i)

LEMMA ValidateCzLength ==
  ASSUME NEW s, NEW i \in Int
  PROVE  utf8_validate_cz(s, i) \in 0 .. 4
BY DEF utf8_validate_cz

\* The places where utf8_validate comes by.
LEMMA ValidPlaceLoop ==
  ASSUME NEW s \in String
  PROVE  /\ ValidPlace(s) \in [0 .. Len(s) -> Nat]
         /\ ValidPlace(s)[0] = 1
         /\ \A k \in 1 .. Len(s) : ValidPlace(s)[k] = PlaceAfter(s, ValidPlace(s)[k - 1])
<1> DEFINE n == Len(s)
           g == [i \in Nat |-> PlaceAfter(s, i)]
<1>1. n \in Nat
  BY DEF String
<1>2. g \in [Nat -> Nat]
  BY <1>1, ValidateCzLength DEF PlaceAfter
<1>3. PICK f \in [0 .. n -> Nat] : f[0] = 1 /\ \A k \in 1 .. n : f[k] = g[f[k - 1]]
  <2>1. g \in Rounds(Nat)
    BY <1>2 DEF Rounds
  <2>2. \E f : IsLoop(f, Nat, g, 1, n)
    <3> HIDE DEF n, g
    <3> QED BY <1>1, <2>1, LoopExists
  <2>3. QED
    BY <2>2 DEF IsLoop
<1>4. \A k \in 1 .. n : f[k] = PlaceAfter(s, f[k - 1])
  BY <1>1, <1>3
<1>5. f = [k \in 0 .. n |-> IF k = 0 THEN 1 ELSE PlaceAfter(s, f[k - 1])]
  BY <1>1, <1>3, <1>4
<1> DEFINE P(h) == h = [k \in 0 .. n |-> IF k = 0 THEN 1 ELSE PlaceAfter(s, h[k - 1])]
<1>6. ValidPlace(s) = CHOOSE h : P(h)
  BY DEF ValidPlace, PlaceAfter
<1>7. P(CHOOSE h : P(h))
  <2>1. P(f)
    BY <1>5
  <2> HIDE DEF P
  <2>2. QED
    BY <2>1
<1>8. ValidPlace(s) = [k \in 0 .. n |-> IF k = 0 THEN 1 ELSE PlaceAfter(s, ValidPlace(s)[k - 1])]
  BY <1>6, <1>7
<1> DEFINE at == ValidPlace(s)
<1>9. at[0] = 1 /\ \A k \in 1 .. n : at[k] = PlaceAfter(s, at[k - 1])
  BY <1>1, <1>8
<1>10. \A k \in 0 .. n : at[k] \in Nat
  <2>1. \A k \in 1 .. n : at[k - 1] \in Nat => at[k] \in Nat
    BY <1>1, <1>9, <1>2
  <2>2. at[0] \in Nat
    BY <1>9
  <2> HIDE DEF at, n
  <2>3. QED
    BY <1>1, <2>1, <2>2, LoopInvariant
<1>11. QED
  BY <1>8, <1>9, <1>10

LEMMA StringLength ==
  ASSUME NEW s \in String
  PROVE  Len(s) \in Nat /\ DOMAIN s = 1 .. Len(s)
BY DEF String

LEMMA ByteInside ==
  ASSUME NEW s \in String, NEW i \in 1 .. Len(s)
  PROVE  s[i] = At(s, i) /\ s[i] \in Byte
<1>1. s[i] \in Byte
  BY ElementOfSeq DEF String
<1>2. QED
  BY <1>1, StringLength DEF At

LEMMA ByteAt ==
  ASSUME NEW s \in String, NEW i \in Int
  PROVE  At(s, i) \in 0 .. 255 /\ (At(s, i) # 0 <=> i \in 1 .. Len(s))
<1>1. CASE i \in 1 .. Len(s)
  <2>1. PICK x \in 1 .. 255 : x = At(s, i)
    BY <1>1, ByteInside DEF Byte
  <2>2. x \in 0 .. 255 /\ x # 0
    OBVIOUS
  <2>3. QED
    BY <1>1, <2>1, <2>2
<1>2. CASE i \notin 1 .. Len(s)
  BY <1>2, StringLength DEF At
<1>3. QED
  BY <1>1, <1>2

\* A piece inside a string.
LEMMA PieceBytes ==
  ASSUME NEW s \in String, NEW i \in Nat \ {0}, NEW n \in 1 .. 4, i + n - 1 <= Len(s)
  PROVE  /\ Piece(s, i, n) \in String /\ Len(Piece(s, i, n)) = n
         /\ \A k \in 1 .. n : Piece(s, i, n)[k] = At(s, i + k - 1)
<1> DEFINE m == i + n - 1
<1>1. Len(s) \in Nat /\ i \in Int /\ m \in Int /\ i <= m /\ m - i + 1 = n
  BY StringLength
<1>2. \A k \in i .. m : s[k] \in Byte /\ s[k] = At(s, k)
  BY <1>1, ByteInside
<1>3. /\ SubSeq(s, i, m) \in Seq(Byte)
      /\ Len(SubSeq(s, i, m)) = n
      /\ \A k \in 1 .. n : SubSeq(s, i, m)[k] = s[i + k - 1]
  <2> HIDE DEF m
  <2> QED BY <1>1, <1>2, SubSeqProperties
<1>4. \A k \in 1 .. n : i + k - 1 \in i .. m
  BY <1>1
<1>5. QED
  BY <1>2, <1>3, <1>4 DEF Piece, String

\* The bytes that utf8_validate_cz looks at.
LEMMA FourBytes ==
  ASSUME NEW s \in String, NEW i \in 1 .. Len(s)
  PROVE  /\ i \in Int /\ Len(s) \in Nat
         /\ At(s, i) \in Byte /\ At(s, i + 1) \in 0 .. 255
         /\ At(s, i + 2) \in 0 .. 255 /\ At(s, i + 3) \in 0 .. 255
<1>1. i \in Int /\ Len(s) \in Nat
  BY StringLength
<1>2. i + 1 \in Int /\ i + 2 \in Int /\ i + 3 \in Int
  BY <1>1
<1>3. QED
  BY <1>1, <1>2, ByteAt, ByteInside

\* A character takes bytes that are there, the first a lead byte of its length,
\* the others continuations.
LEMMA ValidateCzShape ==
  ASSUME NEW s \in String, NEW i \in 1 .. Len(s), utf8_validate_cz(s, i) # 0
  PROVE  LET n == utf8_validate_cz(s, i)
         IN  /\ n \in 1 .. 4 /\ i + n - 1 <= Len(s) /\ LeadLength(At(s, i)) = n
             /\ \A k \in i + 1 .. i + n - 1 : At(s, k) \in 128 .. 191
<1> DEFINE n == utf8_validate_cz(s, i)
           a == At(s, i)  b == At(s, i + 1)  c == At(s, i + 2)  d == At(s, i + 3)
<1>1. /\ i \in Int /\ Len(s) \in Nat
      /\ a \in 1 .. 255 /\ b \in 0 .. 255 /\ c \in 0 .. 255 /\ d \in 0 .. 255
  BY FourBytes DEF Byte
<1>2. n # 0
  OBVIOUS
<1>3. n = IF a <= 127 THEN 1
          ELSE IF 194 <= a /\ a <= 223 /\ Continues(b) THEN 2
          ELSE IF 224 <= a /\ a <= 239 /\ Continues(b) /\ Continues(c)
                  /\ ~(a = 224 /\ b < 160) /\ ~(a = 237 /\ b > 159) THEN 3
          ELSE IF 240 <= a /\ a <= 244 /\ Continues(b) /\ Continues(c) /\ Continues(d)
                  /\ ~(a = 240 /\ b < 144) /\ ~(a = 244 /\ b > 143) THEN 4
          ELSE 0
  BY DEF utf8_validate_cz
<1> HIDE DEF n, a, b, c, d
<1>4. /\ n \in 1 .. 4 /\ LeadLength(a) = n
      /\ n >= 2 => b \in 128 .. 191
      /\ n >= 3 => c \in 128 .. 191
      /\ n = 4 => d \in 128 .. 191
  BY <1>1, <1>2, <1>3 DEF LeadLength, Continues
<1>5. ASSUME NEW k \in i + 1 .. i + n - 1 PROVE At(s, k) \in 128 .. 191
  <2>1. k = i + 1 \/ (n >= 3 /\ k = i + 2) \/ (n = 4 /\ k = i + 3)
    BY <1>1, <1>4
  <2>2. n >= 2
    BY <1>1, <1>4
  <2>3. QED
    BY <1>4, <2>1, <2>2 DEF b, c, d
<1>6. i + n - 1 <= Len(s)
  <2>1. CASE n = 1
    BY <1>1, <2>1
  <2>2. CASE n # 1
    <3>1. PICK k \in i + 1 .. i + n - 1 : k = i + n - 1
      BY <1>1, <1>4, <2>2
    <3>2. PICK x \in 128 .. 191 : x = At(s, k)
      BY <1>5
    <3>3. x # 0
      OBVIOUS
    <3>4. k \in Int
      BY <1>1, <3>1
    <3>5. k \in 1 .. Len(s)
      BY <3>2, <3>3, <3>4, ByteAt
    <3>6. QED
      BY <1>1, <3>1, <3>5
  <2>3. QED
    BY <2>1, <2>2
<1>7. QED
  BY <1>4, <1>5, <1>6 DEF n, a

\* The characters of each length, by their bytes.
LEMMA Continuations ==
  ASSUME NEW p, NEW n \in 2 .. 4
  PROVE  (\A k \in 2 .. n : p[k] \in 128 .. 191)
           <=> /\ p[2] \in 128 .. 191
               /\ n >= 3 => p[3] \in 128 .. 191
               /\ n = 4  => p[4] \in 128 .. 191
<1> DEFINE C(k) == p[k] \in 128 .. 191
<1>1. 2 \in 2 .. n /\ (n >= 3 => 3 \in 2 .. n) /\ (n = 4 => 4 \in 2 .. n)
  OBVIOUS
<1>2. \A k \in 2 .. n : k = 2 \/ (n >= 3 /\ k = 3) \/ (n = 4 /\ k = 4)
  OBVIOUS
<1> SUFFICES (\A k \in 2 .. n : C(k)) <=> C(2) /\ (n >= 3 => C(3)) /\ (n = 4 => C(4))
  OBVIOUS
<1> HIDE DEF C
<1>3. (\A k \in 2 .. n : C(k)) => C(2) /\ (n >= 3 => C(3)) /\ (n = 4 => C(4))
  BY <1>1
<1>4. C(2) /\ (n >= 3 => C(3)) /\ (n = 4 => C(4)) => \A k \in 2 .. n : C(k)
  BY <1>2
<1>5. QED
  BY <1>3, <1>4

Shape2(a, b) == 194 <= a /\ a <= 223 /\ b \in 128 .. 191

Value2(a, b) == 64 * (a - 192) + (b - 128)

LEMMA Chars2 ==
  ASSUME NEW p, Len(p) = 2, p[1] \in Byte, p[2] \in AnyByte
  PROVE  /\ IsUtf8Char(p) <=> Shape2(p[1], p[2])
         /\ Payload(p) = Value2(p[1], p[2])
<1> DEFINE a == p[1]
           b == p[2]
<1>a. a \in 1 .. 255 /\ b \in 0 .. 255
  BY DEF Byte, AnyByte
<1> SUFFICES /\ IsUtf8Char(p) <=> Shape2(a, b)
             /\ Payload(p) = Value2(a, b)
  OBVIOUS
<1> HIDE DEF a, b
<1> DEFINE v == 64 * (a - 192) + (b - 128)
<1>1. Payload(p) = v
  BY <1>a DEF Payload, a, b
<1>2. LeadLength(a) = 2 <=> 192 <= a /\ a <= 223
  BY <1>a DEF LeadLength
<1>3. (\A k \in 2 .. 2 : p[k] \in 128 .. 191) <=> b \in 128 .. 191
  BY Continuations DEF b
<1>4. Len(p) \in 1 .. 4 /\ Least[2] = 128
  BY DEF Least
<1>5. v \in Int
  BY <1>a
<1> HIDE DEF v
<1>6. IsUtf8Char(p) <=> LeadLength(a) = 2 /\ b \in 128 .. 191 /\ v >= 128 /\ IsCodePoint(v)
  BY <1>1, <1>3, <1>4 DEF IsUtf8Char, a
<1>7. 192 <= a /\ a <= 223 /\ b \in 128 .. 191
        => (v >= 128 /\ IsCodePoint(v) <=> 194 <= a)
  BY <1>a DEF v, IsCodePoint, IsSurrogate
<1>8. 194 <= a => 192 <= a
  BY <1>a
<1>9. QED
  BY <1>1, <1>2, <1>6, <1>7, <1>8 DEF v, Shape2, Value2

Shape3(a, b, c) == /\ 224 <= a /\ a <= 239 /\ b \in 128 .. 191 /\ c \in 128 .. 191
                   /\ ~(a = 224 /\ b < 160) /\ ~(a = 237 /\ b > 159)

Value3(a, b, c) == 4096 * (a - 224) + 64 * (b - 128) + (c - 128)

LEMMA Chars3 ==
  ASSUME NEW p, Len(p) = 3, p[1] \in Byte, p[2] \in AnyByte, p[3] \in AnyByte
  PROVE  /\ IsUtf8Char(p) <=> Shape3(p[1], p[2], p[3])
         /\ Payload(p) = Value3(p[1], p[2], p[3])
<1> DEFINE a == p[1]
           b == p[2]
           c == p[3]
<1>a. a \in 1 .. 255 /\ b \in 0 .. 255 /\ c \in 0 .. 255
  BY DEF Byte, AnyByte
<1> SUFFICES /\ IsUtf8Char(p) <=> Shape3(a, b, c)
             /\ Payload(p) = Value3(a, b, c)
  OBVIOUS
<1> HIDE DEF a, b, c
<1> DEFINE v == 4096 * (a - 224) + 64 * (b - 128) + (c - 128)
<1>1. Payload(p) = v
  BY <1>a DEF Payload, a, b, c
<1>2. LeadLength(a) = 3 <=> 224 <= a /\ a <= 239
  BY <1>a DEF LeadLength
<1>3. (\A k \in 2 .. 3 : p[k] \in 128 .. 191) <=> b \in 128 .. 191 /\ c \in 128 .. 191
  BY Continuations DEF b, c
<1>4. Len(p) \in 1 .. 4 /\ Least[3] = 2048
  BY DEF Least
<1>5. v \in Int
  BY <1>a
<1> HIDE DEF v
<1>6. IsUtf8Char(p) <=> /\ LeadLength(a) = 3 /\ b \in 128 .. 191 /\ c \in 128 .. 191
                        /\ v >= 2048 /\ IsCodePoint(v)
  BY <1>1, <1>3, <1>4 DEF IsUtf8Char, a
<1>7. ASSUME 224 <= a, a <= 239, b \in 128 .. 191, c \in 128 .. 191
      PROVE  v >= 2048 /\ IsCodePoint(v)
               <=> ~(a = 224 /\ b < 160) /\ ~(a = 237 /\ b > 159)
  <2>1. v >= 2048 <=> ~(a = 224 /\ b < 160)
    BY <1>a, <1>7 DEF v
  <2>2. v >= 0 /\ v <= 65535
    BY <1>a, <1>7 DEF v
  <2>3. 55296 <= v /\ v <= 57343 <=> a = 237 /\ b > 159
    BY <1>a, <1>7 DEF v
  <2>4. QED
    BY <1>5, <2>1, <2>2, <2>3 DEF IsCodePoint, IsSurrogate
<1>8. QED
  BY <1>1, <1>2, <1>6, <1>7 DEF v, Shape3, Value3

Shape4(a, b, c, d) == /\ 240 <= a /\ a <= 244
                      /\ b \in 128 .. 191 /\ c \in 128 .. 191 /\ d \in 128 .. 191
                      /\ ~(a = 240 /\ b < 144) /\ ~(a = 244 /\ b > 143)

Value4(a, b, c, d) == 262144 * (a - 240) + 4096 * (b - 128) + 64 * (c - 128) + (d - 128)

LEMMA Chars4 ==
  ASSUME NEW p, Len(p) = 4, p[1] \in Byte, p[2] \in AnyByte, p[3] \in AnyByte, p[4] \in AnyByte
  PROVE  /\ IsUtf8Char(p) <=> Shape4(p[1], p[2], p[3], p[4])
         /\ Payload(p) = Value4(p[1], p[2], p[3], p[4])
<1> DEFINE a == p[1]
           b == p[2]
           c == p[3]
           d == p[4]
<1>a. a \in 1 .. 255 /\ b \in 0 .. 255 /\ c \in 0 .. 255 /\ d \in 0 .. 255
  BY DEF Byte, AnyByte
<1> SUFFICES /\ IsUtf8Char(p) <=> Shape4(a, b, c, d)
             /\ Payload(p) = Value4(a, b, c, d)
  OBVIOUS
<1> HIDE DEF a, b, c, d
<1> DEFINE v == 262144 * (a - 240) + 4096 * (b - 128) + 64 * (c - 128) + (d - 128)
<1>1. Payload(p) = v
  BY <1>a DEF Payload, a, b, c, d
<1>2. LeadLength(a) = 4 <=> 240 <= a /\ a <= 247
  BY <1>a DEF LeadLength
<1>3. (\A k \in 2 .. 4 : p[k] \in 128 .. 191)
        <=> b \in 128 .. 191 /\ c \in 128 .. 191 /\ d \in 128 .. 191
  BY Continuations DEF b, c, d
<1>4. Len(p) \in 1 .. 4 /\ Least[4] = 65536
  BY DEF Least
<1>5. v \in Int
  BY <1>a
<1> HIDE DEF v
<1>6. IsUtf8Char(p) <=> /\ LeadLength(a) = 4
                        /\ b \in 128 .. 191 /\ c \in 128 .. 191 /\ d \in 128 .. 191
                        /\ v >= 65536 /\ IsCodePoint(v)
  BY <1>1, <1>3, <1>4 DEF IsUtf8Char, a
<1>7. ASSUME 240 <= a, a <= 247, b \in 128 .. 191, c \in 128 .. 191, d \in 128 .. 191
      PROVE  v >= 65536 /\ IsCodePoint(v)
               <=> a <= 244 /\ ~(a = 240 /\ b < 144) /\ ~(a = 244 /\ b > 143)
  <2>1. v >= 65536 <=> ~(a = 240 /\ b < 144)
    BY <1>a, <1>7 DEF v
  <2>2. v >= 0
    BY <1>a, <1>7 DEF v
  <2>3. v <= 1114111 <=> a <= 244 /\ ~(a = 244 /\ b > 143)
    BY <1>a, <1>7 DEF v
  <2>4. QED
    BY <1>5, <2>1, <2>2, <2>3 DEF IsCodePoint, IsSurrogate
<1>8. a <= 244 => a <= 247
  BY <1>a
<1>9. QED
  BY <1>1, <1>2, <1>6, <1>7, <1>8 DEF v, Shape4, Value4

\* utf8_validate_cz finds the characters of RFC 3629, and utf8_read_char their
\* code points.
LEMMA CharIsRfc3629 ==
  ASSUME NEW s \in String, NEW i \in 1 .. Len(s), NEW n \in 1 .. 4
  PROVE  /\ utf8_validate_cz(s, i) = n <=> Utf8At(s, i, n)
         /\ Utf8At(s, i, n) => utf8_read_char(s, i) = Payload(Piece(s, i, n))
<1> DEFINE p == Piece(s, i, n)
           a == At(s, i)  b == At(s, i + 1)  c == At(s, i + 2)  d == At(s, i + 3)
           cz == utf8_validate_cz(s, i)
           u  == utf8_read_char(s, i)
<1>1. /\ i \in Nat \ {0} /\ Len(s) \in Nat /\ n \in Nat
      /\ a \in 1 .. 255 /\ b \in 0 .. 255 /\ c \in 0 .. 255 /\ d \in 0 .. 255
  BY FourBytes DEF Byte
<1>2. cz = IF a <= 127 THEN 1
           ELSE IF 194 <= a /\ a <= 223 /\ Continues(b) THEN 2
           ELSE IF 224 <= a /\ a <= 239 /\ Continues(b) /\ Continues(c)
                   /\ ~(a = 224 /\ b < 160) /\ ~(a = 237 /\ b > 159) THEN 3
           ELSE IF 240 <= a /\ a <= 244 /\ Continues(b) /\ Continues(c) /\ Continues(d)
                   /\ ~(a = 240 /\ b < 144) /\ ~(a = 244 /\ b > 143) THEN 4
           ELSE 0
  BY DEF utf8_validate_cz
<1>3. u = IF a <= 127 THEN a
          ELSE IF a <= 223 THEN (a % 32) * 64 + (b % 64)
          ELSE IF a <= 239 THEN (a % 16) * 4096 + (b % 64) * 64 + (c % 64)
          ELSE (a % 8) * 262144 + (b % 64) * 4096 + (c % 64) * 64 + (d % 64)
  BY DEF utf8_read_char
<1>4. SUFFICES /\ cz = n <=> Utf8At(s, i, n)
               /\ Utf8At(s, i, n) => u = Payload(p)
  OBVIOUS
<1> HIDE DEF a, b, c, d, cz, u
<1>5. CASE i + n - 1 > Len(s)
  <2>1. ~Utf8At(s, i, n)
    BY <1>1, <1>5 DEF Utf8At
  <2>2. cz # n
    BY <1>1, <1>5, ValidateCzShape DEF cz
  <2>3. QED
    BY <2>1, <2>2
<1>6. CASE i + n - 1 <= Len(s)
  <2>1. Len(p) = n /\ \A k \in 1 .. n : p[k] = At(s, i + k - 1)
    BY <1>1, <1>6, PieceBytes
  <2> HIDE DEF p
  <2>2. /\ p[1] = a
        /\ n >= 2 => p[2] = b
        /\ n >= 3 => p[3] = c
        /\ n = 4 => p[4] = d
    <3>1. i + 1 - 1 = i /\ i + 2 - 1 = i + 1 /\ i + 3 - 1 = i + 2 /\ i + 4 - 1 = i + 3
      BY <1>1
    <3>2. QED
      BY <1>1, <2>1, <3>1 DEF a, b, c, d
  <2>3. SUFFICES /\ cz = n <=> IsUtf8Char(p)
                 /\ IsUtf8Char(p) => u = Payload(p)
    BY <1>1, <1>6 DEF Utf8At, p
  <2>4. Len(p) = n
    BY <2>1
  <2>5. CASE n = 1
    <3>1. Payload(p) = a
      BY <2>2, <2>4, <2>5 DEF Payload
    <3>2. IsUtf8Char(p) <=> a <= 127
      <4>1. LeadLength(a) = 1 <=> a <= 127
        BY <1>1 DEF LeadLength
      <4>2. Least[1] = 0 /\ 2 .. 1 = {}
        BY DEF Least
      <4>3. a <= 127 => a >= 0 /\ IsCodePoint(a)
        BY <1>1 DEF IsCodePoint, IsSurrogate
      <4>4. IsUtf8Char(p) <=> LeadLength(a) = 1 /\ a >= 0 /\ IsCodePoint(a)
        BY <2>2, <2>4, <2>5, <3>1, <4>2 DEF IsUtf8Char
      <4>5. QED
        BY <4>1, <4>3, <4>4
    <3>3. cz = 1 <=> a <= 127
      BY <1>1, <1>2
    <3>4. a <= 127 => u = a
      BY <1>3
    <3>5. QED
      BY <2>5, <3>1, <3>2, <3>3, <3>4
  <2>6. CASE n = 2
    <3>1. /\ IsUtf8Char(p) <=> Shape2(a, b)
          /\ Payload(p) = Value2(a, b)
      <4>1. Len(p) = 2 /\ p[1] = a /\ p[2] = b
        BY <2>2, <2>4, <2>6
      <4>2. p[1] \in Byte /\ p[2] \in AnyByte
        BY <1>1, <4>1 DEF Byte, AnyByte
      <4>3. QED
        BY <4>1, <4>2, Chars2
    <3>2. cz = 2 <=> Shape2(a, b)
      BY <1>1, <1>2 DEF Continues, Shape2
    <3>3. ASSUME Shape2(a, b)
          PROVE  u = Value2(a, b)
      <4>1. u = (a % 32) * 64 + (b % 64)
        BY <1>1, <1>3, <3>3 DEF Shape2
      <4>2. a % 32 = a - 192 /\ b % 64 = b - 128
        BY <1>1, <3>3 DEF Shape2
      <4>3. QED
        BY <1>1, <4>1, <4>2 DEF Value2
    <3>4. QED
      BY <2>6, <3>1, <3>2, <3>3
  <2>7. CASE n = 3
    <3>1. /\ IsUtf8Char(p) <=> Shape3(a, b, c)
          /\ Payload(p) = Value3(a, b, c)
      <4>1. Len(p) = 3 /\ p[1] = a /\ p[2] = b /\ p[3] = c
        BY <2>2, <2>4, <2>7
      <4>2. p[1] \in Byte /\ p[2] \in AnyByte /\ p[3] \in AnyByte
        BY <1>1, <4>1 DEF Byte, AnyByte
      <4>3. QED
        BY <4>1, <4>2, Chars3
    <3>2. cz = 3 <=> Shape3(a, b, c)
      BY <1>1, <1>2 DEF Continues, Shape3
    <3>3. ASSUME Shape3(a, b, c)
          PROVE  u = Value3(a, b, c)
      <4>1. 224 <= a /\ a <= 239 /\ b \in 128 .. 191 /\ c \in 128 .. 191
        BY <3>3 DEF Shape3
      <4>2. u = (a % 16) * 4096 + (b % 64) * 64 + (c % 64)
        BY <1>1, <1>3, <4>1
      <4>3. a % 16 = a - 224 /\ b % 64 = b - 128 /\ c % 64 = c - 128
        BY <1>1, <4>1
      <4>4. QED
        BY <1>1, <4>2, <4>3 DEF Value3
    <3>4. QED
      BY <2>7, <3>1, <3>2, <3>3
  <2>8. CASE n = 4
    <3>1. /\ IsUtf8Char(p) <=> Shape4(a, b, c, d)
          /\ Payload(p) = Value4(a, b, c, d)
      <4>1. Len(p) = 4 /\ p[1] = a /\ p[2] = b /\ p[3] = c /\ p[4] = d
        BY <2>2, <2>4, <2>8
      <4>2. p[1] \in Byte /\ p[2] \in AnyByte /\ p[3] \in AnyByte /\ p[4] \in AnyByte
        BY <1>1, <4>1 DEF Byte, AnyByte
      <4>3. QED
        BY <4>1, <4>2, Chars4
    <3>2. cz = 4 <=> Shape4(a, b, c, d)
      BY <1>1, <1>2 DEF Continues, Shape4
    <3>3. ASSUME Shape4(a, b, c, d)
          PROVE  u = Value4(a, b, c, d)
      <4>1. 240 <= a /\ a <= 244 /\ b \in 128 .. 191 /\ c \in 128 .. 191 /\ d \in 128 .. 191
        BY <3>3 DEF Shape4
      <4>2. u = (a % 8) * 262144 + (b % 64) * 4096 + (c % 64) * 64 + (d % 64)
        BY <1>1, <1>3, <4>1
      <4>3. a % 8 = a - 240 /\ b % 64 = b - 128 /\ c % 64 = c - 128 /\ d % 64 = d - 128
        BY <1>1, <4>1
      <4>4. QED
        BY <1>1, <4>2, <4>3 DEF Value4
    <3>4. QED
      BY <2>8, <3>1, <3>2, <3>3
  <2>9. QED
    BY <1>1, <2>5, <2>6, <2>7, <2>8
<1>7. QED
  BY <1>1, <1>5, <1>6
\* The places only grow.
LEMMA PlacesGrow ==
  ASSUME NEW s \in String
  PROVE  LET at == ValidPlace(s)
         IN  /\ \A k \in 0 .. Len(s) : at[k] \in Nat /\ at[k] >= 1
             /\ \A k \in 1 .. Len(s) : at[k - 1] <= at[k]
<1> DEFINE n == Len(s)
           at == ValidPlace(s)
<1>1. n \in Nat
  BY StringLength
<1>2. at[0] = 1 /\ \A k \in 1 .. n : at[k] = PlaceAfter(s, at[k - 1])
  BY ValidPlaceLoop
<1>3. \A k \in 0 .. n : at[k] \in Nat
  BY ValidPlaceLoop
<1> HIDE DEF n, at
<1>4. ASSUME NEW k \in 1 .. n PROVE at[k - 1] <= at[k]
  <2>1. k - 1 \in 0 .. n /\ k \in 0 .. n
    BY <1>1
  <2>2. PICK i \in Nat : i = at[k - 1]
    BY <1>3, <2>1
  <2>3. at[k] = PlaceAfter(s, i)
    BY <1>2, <2>2
  <2>4. utf8_validate_cz(s, i) \in 0 .. 4
    BY <2>2, ValidateCzLength
  <2>5. i <= PlaceAfter(s, i)
    BY <2>4 DEF PlaceAfter
  <2>6. QED
    BY <2>2, <2>3, <2>5
<1>5. \A k \in 0 .. n : at[k] \in Nat \ {0}
  <2>1. at[0] \in Nat \ {0}
    BY <1>2
  <2>2. \A k \in 1 .. n : at[k - 1] \in Nat \ {0} => at[k] \in Nat \ {0}
    BY <1>1, <1>3, <1>4
  <2>3. QED
    BY <1>1, <2>1, <2>2, LoopInvariant
<1>6. QED
  BY <1>1, <1>4, <1>5 DEF n, at

\* Between two characters there is no third: a character does not begin inside
\* another.
LEMMA NoCharInside ==
  ASSUME NEW s \in String, NEW i \in 1 .. Len(s), NEW j \in 1 .. Len(s),
         utf8_validate_cz(s, i) # 0, utf8_validate_cz(s, j) # 0,
         i < j
  PROVE  i + utf8_validate_cz(s, i) <= j
<1> DEFINE n == utf8_validate_cz(s, i)
<1>1. n \in 0 .. 4 /\ i \in Int /\ j \in Int
  BY StringLength, ValidateCzLength
<1>2. \A k \in i + 1 .. i + n - 1 : At(s, k) \in 128 .. 191
  BY ValidateCzShape
<1>3. LeadLength(At(s, j)) = utf8_validate_cz(s, j)
  BY ValidateCzShape
<1>4. LeadLength(At(s, j)) # 0
  BY <1>3
<1>5. At(s, j) \notin 128 .. 191
  <2>1. \A x \in 128 .. 191 : LeadLength(x) = 0
    BY DEF LeadLength
  <2>2. QED
    BY <1>4, <2>1
<1>6. j \notin i + 1 .. i + n - 1
  BY <1>2, <1>5
<1> HIDE DEF n
<1>7. i + n <= j
  BY <1>1, <1>6
<1>8. QED
  BY <1>7 DEF n

\* A text that utf8_validate accepts consists of characters.
LEMMA AcceptedIsUtf8 ==
  ASSUME NEW s \in String, utf8_validate(s)
  PROVE  IsUtf8(s)
<1> DEFINE N == Len(s)
           at == ValidPlace(s)
<1>1. N \in Nat /\ DOMAIN s = 1 .. N
  BY StringLength
<1>2. at[0] = 1 /\ \A k \in 1 .. N : at[k] = PlaceAfter(s, at[k - 1])
  BY ValidPlaceLoop
<1>3. \A k \in 0 .. N : at[k] \in Nat /\ at[k] >= 1
  BY PlacesGrow
<1>4. at[N] > N
  BY DEF utf8_validate
<1>5. SUFFICES ASSUME NEW j \in 1 .. N
               PROVE  \E n \in 1 .. 4 : \E i \in (j - n + 1) .. j : Utf8At(s, i, n)
  BY <1>1 DEF IsUtf8
<1> HIDE DEF N, at
<1> DEFINE Beyond == {k \in 0 .. N : at[k] > j}
<1>6. PICK k \in Beyond : \A m \in Beyond : k <= m
  <2>1. Beyond \subseteq Nat
    BY <1>1
  <2>2. N \in Beyond
    BY <1>1, <1>3, <1>4
  <2> HIDE DEF Beyond
  <2>3. QED
    BY <2>1, <2>2, LeastNatural
<1>7. k \in 1 .. N /\ k - 1 \in 0 .. N /\ at[k] > j
  BY <1>1, <1>2, <1>6
<1>8. PICK i \in Nat : i = at[k - 1] /\ i >= 1 /\ i <= j
  BY <1>1, <1>3, <1>6, <1>7
<1> HIDE DEF Beyond
<1>9. at[k] = PlaceAfter(s, i)
  BY <1>2, <1>7, <1>8
<1>10. i <= N /\ i \in 1 .. Len(s)
  BY <1>1, <1>8 DEF N
<1>11. PICK n \in 0 .. 4 : n = utf8_validate_cz(s, i)
  BY <1>8, ValidateCzLength
<1>12. at[k] = i + n
  BY <1>1, <1>8, <1>9, <1>10, <1>11 DEF PlaceAfter, N
<1>13. n \in 1 .. 4 /\ i \in (j - n + 1) .. j
  BY <1>1, <1>7, <1>8, <1>12
<1>14. Utf8At(s, i, n)
  BY <1>10, <1>11, <1>13, CharIsRfc3629
<1>15. QED
  BY <1>13, <1>14

\* A text that consists of characters is one that utf8_validate accepts.
LEMMA Utf8IsAccepted ==
  ASSUME NEW s \in String, IsUtf8(s)
  PROVE  utf8_validate(s)
<1> DEFINE N == Len(s)
           at == ValidPlace(s)
<1>1. N \in Nat /\ DOMAIN s = 1 .. N
  BY StringLength
<1>2. at[0] = 1 /\ \A k \in 1 .. N : at[k] = PlaceAfter(s, at[k - 1])
  BY ValidPlaceLoop
<1>3. \A k \in 0 .. N : at[k] \in Nat /\ at[k] >= 1
  BY PlacesGrow
<1>4. \A k \in 1 .. N : at[k - 1] <= at[k]
  BY PlacesGrow
<1>5. SUFFICES ASSUME ~(at[N] > N) PROVE FALSE
  BY DEF utf8_validate
<1> HIDE DEF N, at
\* The loop got stuck, at a place p.
<1> DEFINE Late == {k \in 0 .. N : at[k] < k + 1}
<1>6. PICK k \in Late : \A m \in Late : k <= m
  <2>1. Late \subseteq Nat
    BY <1>1
  <2>2. N \in Late
    BY <1>1, <1>3, <1>5
  <2> HIDE DEF Late
  <2>3. QED
    BY <2>1, <2>2, LeastNatural
<1>7. k \in 1 .. N /\ k - 1 \in 0 .. N /\ k \in Nat
  BY <1>1, <1>2, <1>6
<1>8. at[k - 1] = k /\ at[k] = k
  <2>1. at[k] < k + 1 /\ at[k] \in Nat
    BY <1>3, <1>6
  <2>2. k - 1 \notin Late
    BY <1>6, <1>7
  <2>3. at[k - 1] >= k /\ at[k - 1] \in Nat
    BY <1>3, <1>7, <2>2
  <2>4. QED
    BY <1>4, <1>7, <2>1, <2>3
<1> HIDE DEF Late
<1> DEFINE p == k
<1>9. utf8_validate_cz(s, p) = 0 /\ p \in 1 .. Len(s)
  <2>1. p = PlaceAfter(s, p)
    BY <1>2, <1>7, <1>8
  <2>2. p <= Len(s) /\ Len(s) \in Nat
    BY <1>1, <1>7 DEF N
  <2>3. utf8_validate_cz(s, p) \in 0 .. 4
    BY <1>7, ValidateCzLength
  <2>4. p = p + utf8_validate_cz(s, p)
    BY <1>7, <2>1, <2>2 DEF PlaceAfter
  <2>5. QED
    BY <1>7, <2>2, <2>3, <2>4
\* It is inside a character, that begins at i.
<1>9a. PICK n \in 1 .. 4 : \E i \in (p - n + 1) .. p : Utf8At(s, i, n)
  BY <1>1, <1>7 DEF IsUtf8
<1>10. PICK i \in (p - n + 1) .. p : Utf8At(s, i, n)
  BY <1>9a
<1>11. i \in 1 .. Len(s) /\ i <= p /\ p < i + n
  BY <1>7, <1>9, <1>10 DEF Utf8At
<1>12. utf8_validate_cz(s, i) = n /\ n # 0
  BY <1>10, <1>11, CharIsRfc3629
<1>13. i # p
  BY <1>9, <1>12
\* The loop came to p from the character at q.
<1> DEFINE There == {m \in 0 .. N : at[m] = p}
<1>14. PICK m \in There : \A l \in There : m <= l
  <2>1. There \subseteq Nat
    BY <1>1
  <2>2. k - 1 \in There
    BY <1>7, <1>8
  <2> HIDE DEF There
  <2>3. QED
    BY <2>1, <2>2, LeastNatural
<1>15. m \in 1 .. N /\ m - 1 \in 0 .. N /\ at[m] = p
  BY <1>1, <1>2, <1>7, <1>9, <1>11, <1>13, <1>14
<1>16. PICK q \in Nat : q = at[m - 1] /\ q >= 1 /\ q # p /\ q <= p
  <2>1. at[m - 1] # p
    BY <1>14, <1>15
  <2>2. QED
    BY <1>3, <1>4, <1>15, <2>1
<1> HIDE DEF There
<1>17. q \in 1 .. Len(s) /\ p = q + utf8_validate_cz(s, q)
  <2>1. q <= Len(s) /\ Len(s) \in Nat
    BY <1>1, <1>7, <1>16 DEF N
  <2>2. p = PlaceAfter(s, q)
    BY <1>2, <1>15, <1>16
  <2>3. QED
    BY <1>16, <2>1, <2>2 DEF PlaceAfter
<1> DEFINE cz == utf8_validate_cz(s, q)
<1>18. cz \in 0 .. 4 /\ cz # 0
  <2>1. cz \in 0 .. 4
    BY <1>16, ValidateCzLength
  <2> HIDE DEF cz
  <2>2. p = q + cz
    BY <1>17 DEF cz
  <2>3. QED
    BY <1>16, <2>1, <2>2
<1>19. CASE i = q
  BY <1>7, <1>11, <1>12, <1>17, <1>19
<1>20. CASE i < q
  <2>1. i + n <= q
    BY <1>11, <1>12, <1>17, <1>18, <1>20, NoCharInside
  <2>2. i \in Int /\ q < p
    BY <1>7, <1>11, <1>16
  <2>3. QED
    BY <1>7, <1>11, <1>16, <2>1, <2>2
<1>21. CASE q < i
  <2>1. q + cz <= i
    BY <1>11, <1>12, <1>17, <1>18, <1>21, NoCharInside
  <2>2. p <= i
    BY <1>17, <2>1
  <2>3. QED
    BY <1>7, <1>11, <1>13, <2>2
<1>22. QED
  BY <1>11, <1>16, <1>19, <1>20, <1>21

\* Of every C string: utf8_validate accepts it if and only if it is UTF-8 as RFC
\* 3629 defines it, utf8_validate_cz finds its characters and utf8_read_char
\* their code points (json.c lines 115-258).
THEOREM Utf8OfEveryText ==
  text \in String => Utf8IsRfc3629
<1> SUFFICES ASSUME text \in String PROVE Utf8IsRfc3629
  OBVIOUS
<1>1. utf8_validate(text) <=> IsUtf8(text)
  BY AcceptedIsUtf8, Utf8IsAccepted
<1>2. ASSUME NEW i \in DOMAIN text, NEW n \in 1 .. 4
      PROVE  IF Utf8At(text, i, n)
             THEN /\ utf8_validate_cz(text, i) = n
                  /\ utf8_read_char(text, i) = Payload(Piece(text, i, n))
             ELSE utf8_validate_cz(text, i) # n
  <2>1. i \in 1 .. Len(text)
    BY StringLength
  <2>2. utf8_validate_cz(text, i) = n <=> Utf8At(text, i, n)
    BY <2>1, CharIsRfc3629
  <2>3. Utf8At(text, i, n) => utf8_read_char(text, i) = Payload(Piece(text, i, n))
    BY <2>1, CharIsRfc3629
  <2>4. QED
    BY <2>2, <2>3
<1>3. QED
  BY <1>1, <1>2 DEF Utf8IsRfc3629
-----------------------------------------------------------------------------
(* String buffers. *)

SB == [bytes : String, alloc : Nat, over : BOOLEAN]

\* The buffers with room for n more bytes, behind which nothing was written.
HasRoom(n) == {sb \in SB : sb.alloc >= 1 /\ Len(sb.bytes) + n <= sb.alloc /\ ~sb.over}

LEMMA DoublingLoop ==
  ASSUME NEW alloc \in Nat \ {0}, NEW wanted \in Nat
  PROVE  LET size == Doubling(alloc, wanted)
         IN  /\ \A k \in 0 .. wanted : size[k] \in Nat \ {0}
             /\ size[0] = 2 * alloc
             /\ \A k \in 1 .. wanted :
                  size[k] = IF size[k - 1] < wanted THEN 2 * size[k - 1] ELSE size[k - 1]
<1> DEFINE S == Nat \ {0}
           Grown(a) == IF a < wanted THEN 2 * a ELSE a
           g == [a \in S |-> Grown(a)]
<1>1. g \in [S -> S]
  OBVIOUS
<1>2. PICK f \in [0 .. wanted -> S] :
         f[0] = 2 * alloc /\ \A k \in 1 .. wanted : f[k] = g[f[k - 1]]
  <2>1. g \in Rounds(S)
    BY <1>1 DEF Rounds
  <2>2. 2 * alloc \in S
    OBVIOUS
  <2>3. \E f : IsLoop(f, S, g, 2 * alloc, wanted)
    <3> HIDE DEF S, g
    <3> QED BY <2>1, <2>2, LoopExists
  <2>4. QED
    BY <2>3 DEF IsLoop
<1>3. ASSUME NEW k \in 1 .. wanted PROVE f[k] = Grown(f[k - 1])
  <2>1. k - 1 \in 0 .. wanted
    OBVIOUS
  <2>2. f[k - 1] \in S
    BY <1>2, <2>1
  <2>3. \A a \in S : g[a] = Grown(a)
    OBVIOUS
  <2> HIDE DEF g, S, Grown
  <2>4. QED
    BY <1>2, <2>2, <2>3
<1>4. f = [k \in 0 .. wanted |-> IF k = 0 THEN 2 * alloc ELSE Grown(f[k - 1])]
  BY <1>2, <1>3
<1> DEFINE P(h) == h = [k \in 0 .. wanted |-> IF k = 0 THEN 2 * alloc ELSE Grown(h[k - 1])]
<1>5. Doubling(alloc, wanted) = CHOOSE h : P(h)
  BY DEF Doubling
<1>6. P(CHOOSE h : P(h))
  <2>1. P(f)
    BY <1>4
  <2> HIDE DEF P
  <2>2. QED
    BY <2>1
<1> DEFINE size == Doubling(alloc, wanted)
<1>7. size = [k \in 0 .. wanted |-> IF k = 0 THEN 2 * alloc ELSE Grown(size[k - 1])]
  BY <1>5, <1>6
<1>8. size[0] = 2 * alloc /\ \A k \in 1 .. wanted : size[k] = Grown(size[k - 1])
  BY <1>7
<1>9. \A k \in 0 .. wanted : size[k] \in S
  <2>a. \A a \in S : Grown(a) \in S
    OBVIOUS
  <2>2. size[0] \in S
    BY <1>8
  <2> HIDE DEF size, S, Grown
  <2>1. \A k \in 1 .. wanted : size[k - 1] \in S => size[k] \in S
    BY <1>8, <2>a
  <2>3. QED
    BY <2>1, <2>2, LoopInvariant
<1>10. QED
  BY <1>8, <1>9

\* A buffer that grows becomes at least as large as was wanted.
LEMMA DoubledIsEnough ==
  ASSUME NEW alloc \in Nat \ {0}, NEW wanted \in Nat
  PROVE  Doubled(alloc, wanted) \in Nat \ {0} /\ Doubled(alloc, wanted) >= wanted
<1> DEFINE size == Doubling(alloc, wanted)
           Small == {k \in 0 .. wanted : size[k] < wanted /\ size[k] < k + 1}
<1>1. /\ \A k \in 0 .. wanted : size[k] \in Nat \ {0}
      /\ size[0] = 2 * alloc
      /\ \A k \in 1 .. wanted :
           size[k] = IF size[k - 1] < wanted THEN 2 * size[k - 1] ELSE size[k - 1]
  BY DoublingLoop
<1> HIDE DEF size
<1>2. SUFFICES Small = {}
  <2>1. size[wanted] \in Nat \ {0} /\ wanted \in 0 .. wanted
    BY <1>1
  <2>2. size[wanted] >= wanted
    BY <1>2, <2>1
  <2>3. QED
    BY <2>1, <2>2 DEF Doubled, size
<1>3. SUFFICES ASSUME Small # {} PROVE FALSE
  OBVIOUS
<1>4. PICK k \in Small : \A m \in Small : k <= m
  <2>1. Small \subseteq Nat
    OBVIOUS
  <2> HIDE DEF Small
  <2>2. QED
    BY <1>3, <2>1, LeastNatural
<1>5. k \in 1 .. wanted /\ k - 1 \in 0 .. wanted
  BY <1>1, <1>4
<1>6. size[k - 1] \in Nat \ {0} /\ k - 1 \notin Small
  BY <1>1, <1>4, <1>5
<1>7. size[k - 1] >= wanted \/ size[k - 1] >= k
  BY <1>5, <1>6
<1>8. size[k] = IF size[k - 1] < wanted THEN 2 * size[k - 1] ELSE size[k - 1]
  BY <1>1, <1>5
<1>9. size[k] < wanted /\ size[k] < k + 1
  BY <1>4
<1>10. QED
  BY <1>5, <1>6, <1>7, <1>8, <1>9

\* sb_need makes room, and keeps what is written.
LEMMA NeedMakesRoom ==
  ASSUME NEW sb \in HasRoom(0), NEW need \in Nat
  PROVE  sb_need(sb, need) \in HasRoom(need) /\ sb_need(sb, need).bytes = sb.bytes
<1> DEFINE n == Len(sb.bytes)
<1>1. sb \in SB /\ sb.bytes \in String /\ sb.alloc \in Nat /\ sb.alloc >= 1 /\ ~sb.over /\ n <= sb.alloc
  BY StringLength DEF HasRoom, SB
<1>2. n \in Nat
  BY <1>1, StringLength
<1>3. CASE sb.alloc - n < need
  <2>1. sb_need(sb, need) = [sb EXCEPT !.alloc = Doubled(sb.alloc, n + need)]
    BY <1>3 DEF sb_need, sb_grow
  <2>2. /\ Doubled(sb.alloc, n + need) \in Nat \ {0}
        /\ Doubled(sb.alloc, n + need) >= n + need
    <3>1. sb.alloc \in Nat \ {0} /\ n + need \in Nat
      BY <1>1, <1>2
    <3> HIDE DEF n
    <3>2. QED
      BY <3>1, DoubledIsEnough
  <2>3. PICK a \in Nat \ {0} : a = Doubled(sb.alloc, n + need) /\ a >= n + need
    BY <2>2
  <2>4. sb_need(sb, need) = [sb EXCEPT !.alloc = a]
    BY <2>1, <2>3
  <2>5. QED
    BY <1>1, <1>2, <2>3, <2>4 DEF HasRoom, SB
<1>4. CASE ~(sb.alloc - n < need)
  <2>1. sb_need(sb, need) = sb
    BY <1>4 DEF sb_need
  <2>2. n + need <= sb.alloc
    BY <1>1, <1>2, <1>4
  <2>3. QED
    BY <1>1, <2>1, <2>2 DEF HasRoom
<1>5. QED
  BY <1>3, <1>4

\* A write that there is room for appends.
LEMMA WriteAppends ==
  ASSUME NEW room \in Nat, NEW sb \in HasRoom(room), NEW b \in String, Len(b) <= room
  PROVE  Write(sb, b) \in HasRoom(room - Len(b)) /\ Write(sb, b).bytes = sb.bytes \o b
<1> DEFINE n == Len(sb.bytes)
           m == Len(b)
<1>1. /\ sb \in SB /\ sb.bytes \in String /\ sb.alloc \in Nat /\ sb.alloc >= 1
      /\ ~sb.over /\ n + room <= sb.alloc
  BY DEF HasRoom, SB
<1>2. n \in Nat /\ m \in Nat /\ m <= room
  BY <1>1, StringLength
<1>3. sb.bytes \o b \in String /\ Len(sb.bytes \o b) = n + m
  BY <1>1, ConcatProperties DEF String
<1>4. Write(sb, b) = [bytes |-> sb.bytes \o b, alloc |-> sb.alloc, over |-> FALSE]
  <2>1. ~(n + m > sb.alloc)
    BY <1>1, <1>2
  <2> HIDE DEF n, m
  <2>2. Write(sb, b) = [sb EXCEPT !.bytes = sb.bytes \o b, !.over = sb.over \/ n + m > sb.alloc]
    BY DEF Write, n, m
  <2>3. QED
    BY <1>1, <2>1, <2>2 DEF SB
<1>5. QED
  BY <1>1, <1>2, <1>3, <1>4 DEF HasRoom, SB
-----------------------------------------------------------------------------
(* parse_string: the characters of a string literal. *)

LEMMA OneByte ==
  ASSUME NEW a \in Byte
  PROVE  <<a>> \in String /\ Len(<<a>>) = 1
BY DEF String

LEMMA TwoBytes ==
  ASSUME NEW a \in Byte, NEW b \in Byte
  PROVE  <<a, b>> \in String /\ Len(<<a, b>>) = 2
BY DEF String

LEMMA ThreeBytes ==
  ASSUME NEW a \in Byte, NEW b \in Byte, NEW c \in Byte
  PROVE  <<a, b, c>> \in String /\ Len(<<a, b, c>>) = 3
BY DEF String

LEMMA BytesOfFour ==
  ASSUME NEW a \in Byte, NEW b \in Byte, NEW c \in Byte, NEW d \in Byte
  PROVE  <<a, b, c, d>> \in String /\ Len(<<a, b, c, d>>) = 4
BY DEF String

\* A character of RFC 3629 at the start of a sequence that it fills.
LEMMA WholePiece ==
  ASSUME NEW s \in String
  PROVE  Piece(s, 1, Len(s)) = s
<1>1. Len(s) \in Nat /\ s \in Seq(Byte)
  BY StringLength DEF String
<1>2. SubSeq(s, 1, Len(s)) = s
  BY <1>1, SubSeqFull
<1>3. 1 + Len(s) - 1 = Len(s)
  BY <1>1
<1>4. QED
  BY <1>2, <1>3 DEF Piece

\* What utf8_write_char writes is a character, without a 0.
LEMMA WrittenBytes ==
  ASSUME NEW u \in Nat \ {0}, IsCodePoint(u)
  PROVE  utf8_write_char(u) \in String /\ Len(utf8_write_char(u)) \in 1 .. 4
<1> DEFINE s == utf8_write_char(u)
           x == u \div 64  y == u \div 4096  z == u \div 262144
<1>1. SUFFICES s \in String /\ Len(s) \in 1 .. 4
  OBVIOUS
<1>2. CASE u <= 127
  <2>1. s = <<u>> /\ u \in Byte
    BY <1>2 DEF utf8_write_char, Byte
  <2>2. QED
    BY <2>1, OneByte
<1>3. CASE 127 < u /\ u <= 2047
  <2>1. s = <<192 + x, 128 + (u % 64)>>
    BY <1>3 DEF utf8_write_char
  <2>2. 192 + x \in Byte /\ 128 + (u % 64) \in Byte
    BY <1>3 DEF Byte
  <2> HIDE DEF s, x
  <2>3. QED
    BY <2>1, <2>2, TwoBytes
<1>4. CASE 2047 < u /\ u <= 65535
  <2>1. s = <<224 + y, 128 + (x % 64), 128 + (u % 64)>>
    BY <1>4 DEF utf8_write_char
  <2>2. 224 + y \in Byte /\ 128 + (x % 64) \in Byte /\ 128 + (u % 64) \in Byte
    BY <1>4 DEF Byte
  <2> HIDE DEF s, x, y
  <2>3. QED
    BY <2>1, <2>2, ThreeBytes
<1>5. CASE 65535 < u
  <2>1. s = <<240 + z, 128 + (y % 64), 128 + (x % 64), 128 + (u % 64)>>
    BY <1>5 DEF utf8_write_char
  <2>2. /\ 240 + z \in Byte /\ 128 + (y % 64) \in Byte
        /\ 128 + (x % 64) \in Byte /\ 128 + (u % 64) \in Byte
    BY <1>5 DEF Byte, IsCodePoint
  <2> HIDE DEF s, x, y, z
  <2>3. QED
    BY <2>1, <2>2, BytesOfFour
<1>6. QED
  BY <1>2, <1>3, <1>4, <1>5

IsChar(s) == s \in String /\ Len(s) \in 1 .. 4 /\ IsUtf8Char(s)

LEMMA WrittenIsChar ==
  ASSUME NEW u \in Nat \ {0}, IsCodePoint(u)
  PROVE  IsChar(utf8_write_char(u))
<1> DEFINE s == utf8_write_char(u)
<1>1. s \in String /\ Len(s) \in 1 .. 4
  BY WrittenBytes
<1>2. utf8_validate_cz(s, 1) = Len(s)
  BY Utf8RoundTrip
<1> HIDE DEF s
<1>3. 1 \in 1 .. Len(s)
  BY <1>1
<1>4. Utf8At(s, 1, Len(s))
  BY <1>1, <1>2, <1>3, CharIsRfc3629
<1>5. IsUtf8Char(s)
  BY <1>1, <1>4, WholePiece DEF Utf8At
<1>6. QED
  BY <1>1, <1>5 DEF s, IsChar

\* Four hexadecimal digits are there, and a number of 16 bits.
LEMMA HexInside ==
  ASSUME NEW t \in String, NEW i \in Nat \ {0}, IsHex16(t, i)
  PROVE  parse_hex16(t, i) \in Nat /\ parse_hex16(t, i) <= 65535 /\ i + 3 <= Len(t)
<1>1. \A c : IsHex(c) => HexValue(c) \in 0 .. 15 /\ c # 0
  BY DEF IsHex, HexValue
<1>2. IsHex(At(t, i + 0)) /\ IsHex(At(t, i + 1)) /\ IsHex(At(t, i + 2)) /\ IsHex(At(t, i + 3))
  BY DEF IsHex16
<1>3. i + 0 = i
  OBVIOUS
<1>4. /\ HexValue(At(t, i)) \in 0 .. 15 /\ HexValue(At(t, i + 1)) \in 0 .. 15
      /\ HexValue(At(t, i + 2)) \in 0 .. 15 /\ HexValue(At(t, i + 3)) \in 0 .. 15
  BY <1>1, <1>2, <1>3
<1>5. parse_hex16(t, i) \in Nat /\ parse_hex16(t, i) <= 65535
  <2> DEFINE v == HexValue(At(t, i))      w == HexValue(At(t, i + 1))
             x == HexValue(At(t, i + 2))  y == HexValue(At(t, i + 3))
  <2>1. parse_hex16(t, i) = v * 4096 + w * 256 + x * 16 + y
    BY DEF parse_hex16
  <2>2. v \in 0 .. 15 /\ w \in 0 .. 15 /\ x \in 0 .. 15 /\ y \in 0 .. 15
    BY <1>4
  <2> HIDE DEF v, w, x, y
  <2>3. QED
    BY <2>1, <2>2
<1>6. At(t, i + 3) # 0 /\ i + 3 \in Int
  BY <1>1, <1>2
<1>7. i + 3 \in 1 .. Len(t)
  BY <1>6, ByteAt
<1>8. QED
  BY <1>5, <1>7

\* A unit of a literal: none, or n bytes that are there and mean one character.
IsUnit(t, i, u) ==
  u.n \in 0 .. 12 /\ (u.n # 0 => /\ i + u.n - 1 <= Len(t)
                                 /\ IsChar(u.b))

LEMMA NoUnit ==
  ASSUME NEW t, NEW i
  PROVE  IsUnit(t, i, BadUnit)
BY DEF IsUnit, BadUnit, Unit

LEMMA UnicodeUnit ==
  ASSUME NEW t \in String, NEW i \in Nat \ {0}
  PROVE  IsUnit(t, i, UnicodeEscape(t, i))
<1> DEFINE uc == parse_hex16(t, i + 2)
           lc == parse_hex16(t, i + 8)
           v  == from_surrogate_pair(uc, lc)
<1>1. CASE ~IsHex16(t, i + 2) \/ uc = 0
  <2>1. UnicodeEscape(t, i) = BadUnit
    BY <1>1 DEF UnicodeEscape
  <2>2. QED
    BY <2>1, NoUnit
<1>2. CASE IsHex16(t, i + 2) /\ uc # 0 /\ ~IsSurrogate(uc)
  <2>1. UnicodeEscape(t, i) = Unit(6, utf8_write_char(uc))
    BY <1>2 DEF UnicodeEscape
  <2>2. uc \in Nat /\ uc <= 65535 /\ i + 2 + 3 <= Len(t)
    BY <1>2, HexInside
  <2>3. i + 6 - 1 <= Len(t)
    BY <2>2, StringLength
  <2>4. uc \in Nat \ {0} /\ IsCodePoint(uc)
    BY <1>2, <2>2 DEF IsCodePoint
  <2> HIDE DEF uc
  <2>5. IsChar(utf8_write_char(uc))
    BY <1>2, <2>4, WrittenIsChar
  <2>6. QED
    BY <2>1, <2>3, <2>5 DEF IsUnit, Unit
<1>3. CASE IsHex16(t, i + 2) /\ uc # 0 /\ IsSurrogate(uc)
           /\ At(t, i + 6) = 92 /\ At(t, i + 7) = 117 /\ IsHex16(t, i + 8) /\ IsPair(uc, lc)
  <2>1. UnicodeEscape(t, i) = Unit(12, utf8_write_char(v))
    BY <1>3 DEF UnicodeEscape
  <2>2. uc \in Nat /\ uc <= 65535 /\ lc \in Nat /\ lc <= 65535 /\ i + 8 + 3 <= Len(t)
    BY <1>3, HexInside
  <2>3. i + 12 - 1 <= Len(t)
    BY <2>2, StringLength
  <2> HIDE DEF uc, lc
  <2>4. v \in Nat /\ v >= 65536 /\ IsCodePoint(v)
    BY <1>3, <2>2, SMT DEF from_surrogate_pair, IsPair, IsCodePoint, IsSurrogate
  <2> HIDE DEF v
  <2>5. v \in Nat \ {0}
    BY <2>4
  <2>6. IsChar(utf8_write_char(v))
    BY <2>4, <2>5, WrittenIsChar
  <2>7. QED
    BY <2>1, <2>3, <2>6 DEF IsUnit, Unit
<1>4. CASE IsHex16(t, i + 2) /\ uc # 0 /\ IsSurrogate(uc)
           /\ ~(At(t, i + 6) = 92 /\ At(t, i + 7) = 117 /\ IsHex16(t, i + 8) /\ IsPair(uc, lc))
  <2>1. UnicodeEscape(t, i) = BadUnit
    BY <1>4 DEF UnicodeEscape
  <2>2. QED
    BY <2>1, NoUnit
<1>5. QED
  BY <1>1, <1>2, <1>3, <1>4

\* The characters below 128.
LEMMA Ascii ==
  ASSUME NEW a \in 1 .. 127
  PROVE  IsChar(<<a>>)
<1>1. utf8_write_char(a) = <<a>>
  BY DEF utf8_write_char
<1>2. a \in Nat \ {0} /\ IsCodePoint(a)
  BY SMT DEF IsCodePoint, IsSurrogate
<1>3. QED
  BY <1>1, <1>2, WrittenIsChar

LEMMA CharUnit ==
  ASSUME NEW t \in String, NEW i \in Nat \ {0}
  PROVE  IsUnit(t, i, CharAt(t, i))
<1> DEFINE c == At(t, i)
           d == At(t, i + 1)
           len == utf8_validate_cz(t, i)
<1>1. CASE c = 92 /\ d = 117
  <2>1. CharAt(t, i) = UnicodeEscape(t, i)
    BY <1>1 DEF CharAt
  <2>2. QED
    BY <2>1, UnicodeUnit
<1>2. CASE c = 92 /\ d # 117 /\ d \in DOMAIN Short
  <2>1. CharAt(t, i) = Unit(2, <<Short[d]>>)
    BY <1>2 DEF CharAt
  <2>2. d \in {34, 47, 92, 98, 102, 110, 114, 116}
    BY <1>2 DEF Short
  <2>3. Short[d] \in 1 .. 127
    BY <2>2 DEF Short
  <2>4. i + 2 - 1 <= Len(t)
    <3>1. d # 0 /\ i + 1 \in Int
      BY <2>2
    <3>2. i + 1 \in 1 .. Len(t)
      BY <3>1, ByteAt
    <3>3. QED
      BY <3>2
  <2>5. PICK a \in 1 .. 127 : a = Short[d]
    BY <2>3
  <2>6. IsChar(<<a>>)
    BY Ascii
  <2>7. CharAt(t, i).n = 2 /\ CharAt(t, i).b = <<a>>
    BY <2>1, <2>5 DEF Unit
  <2>8. QED
    BY <2>4, <2>6, <2>7 DEF IsUnit
<1>3. CASE c = 92 /\ d # 117 /\ d \notin DOMAIN Short
  <2>1. CharAt(t, i) = BadUnit
    BY <1>3 DEF CharAt
  <2>2. QED
    BY <2>1, NoUnit
<1>4. CASE c # 92 /\ (c <= 31 \/ len = 0)
  <2>1. CharAt(t, i) = BadUnit
    BY <1>4 DEF CharAt
  <2>2. QED
    BY <2>1, NoUnit
<1>5. CASE c # 92 /\ ~(c <= 31 \/ len = 0)
  <2>1. CharAt(t, i) = Unit(len, Piece(t, i, len))
    BY <1>5 DEF CharAt, Piece
  <2>2. c \in 0 .. 255 /\ (c # 0 <=> i \in 1 .. Len(t))
    BY ByteAt
  <2>3. i \in 1 .. Len(t)
    BY <1>5, <2>2
  <2>4. len \in 1 .. 4
    <3>1. len \in 0 .. 4
      BY ValidateCzLength
    <3> HIDE DEF len
    <3>2. QED
      BY <1>5, <3>1
  <2> HIDE DEF len
  <2>5. Utf8At(t, i, len)
    BY <2>3, <2>4, CharIsRfc3629 DEF len
  <2>6. i + len - 1 <= Len(t) /\ IsUtf8Char(Piece(t, i, len))
    BY <2>5 DEF Utf8At
  <2>7. Piece(t, i, len) \in String /\ Len(Piece(t, i, len)) = len
    BY <2>4, <2>6, PieceBytes
  <2>8. CharAt(t, i).n = len /\ CharAt(t, i).b = Piece(t, i, len)
    BY <2>1 DEF Unit
  <2>9. len \in 0 .. 12
    BY <2>4
  <2>10. QED
    BY <2>4, <2>6, <2>7, <2>8, <2>9 DEF IsUnit, IsChar
<1>6. QED
  BY <1>1, <1>2, <1>3, <1>4, <1>5
\* A character behind a text of characters.
LEMMA Utf8Append ==
  ASSUME NEW a \in String, IsUtf8(a), NEW c, IsChar(c)
  PROVE  a \o c \in String /\ IsUtf8(a \o c) /\ Len(a \o c) = Len(a) + Len(c)
<1> DEFINE s == a \o c
           n == Len(a)
           m == Len(c)
<1>1. c \in String /\ IsUtf8Char(c) /\ m \in 1 .. 4 /\ n \in Nat
  BY StringLength DEF IsChar
<1>2. s \in String /\ Len(s) = n + m
  BY <1>1, ConcatProperties DEF String
<1>3. DOMAIN s = 1 .. n + m /\ DOMAIN a = 1 .. n
  BY <1>2, StringLength
<1>4. ASSUME NEW i \in 1 .. n, NEW l \in 1 .. n
      PROVE  SubSeq(s, i, l) = SubSeq(a, i, l)
  BY <1>1, SubSeqOfConcat1 DEF String
<1>5. Piece(s, n + 1, m) = c
  <2>1. SubSeq(s, n + 1, n + m) = SubSeq(c, (n + 1) - n, (n + m) - n)
    <3>1. n + 1 \in n + 1 .. n + m /\ n + m \in n + 1 .. n + m
      BY <1>1
    <3>2. a \in Seq(Byte) /\ c \in Seq(Byte)
      BY <1>1 DEF String
    <3>3. QED
      BY <3>1, <3>2, SubSeqOfConcat2
  <2>2. (n + 1) - n = 1 /\ (n + m) - n = m /\ (n + 1) + m - 1 = n + m
    BY <1>1
  <2>3. SubSeq(c, 1, m) = c
    BY <1>1, SubSeqFull DEF String
  <2>4. QED
    BY <2>1, <2>2, <2>3 DEF Piece
<1> HIDE DEF s, n, m
<1>6. ASSUME NEW j \in 1 .. n
      PROVE  \E k \in 1 .. 4 : \E i \in (j - k + 1) .. j : Utf8At(s, i, k)
  <2>1. PICK k \in 1 .. 4 : \E i \in (j - k + 1) .. j : Utf8At(a, i, k)
    BY <1>3 DEF IsUtf8
  <2>2. PICK i \in (j - k + 1) .. j : Utf8At(a, i, k)
    BY <2>1
  <2>3. 1 <= i /\ i + k - 1 <= n /\ IsUtf8Char(Piece(a, i, k))
    BY <2>2 DEF Utf8At, n
  <2>4. i \in 1 .. n /\ i + k - 1 \in 1 .. n
    BY <1>1, <2>3
  <2>5. Piece(s, i, k) = Piece(a, i, k)
    BY <1>4, <2>4 DEF Piece
  <2>6. Utf8At(s, i, k)
    BY <1>1, <1>2, <2>3, <2>4, <2>5 DEF Utf8At
  <2>7. QED
    BY <2>6
<1>7. ASSUME NEW j \in n + 1 .. n + m
      PROVE  \E k \in 1 .. 4 : \E i \in (j - k + 1) .. j : Utf8At(s, i, k)
  <2>1. Utf8At(s, n + 1, m)
    <3>1. 1 <= n + 1 /\ n + 1 + m - 1 <= Len(s)
      BY <1>1, <1>2
    <3>2. QED
      BY <1>1, <1>5, <3>1 DEF Utf8At
  <2>2. n + 1 \in (j - m + 1) .. j
    BY <1>1
  <2>3. QED
    BY <1>1, <2>1, <2>2
<1>8. IsUtf8(s)
  <2> SUFFICES ASSUME NEW j \in DOMAIN s
               PROVE  \E k \in 1 .. 4 : \E i \in (j - k + 1) .. j : Utf8At(s, i, k)
    BY DEF IsUtf8
  <2>1. j \in 1 .. n \/ j \in n + 1 .. n + m
    BY <1>1, <1>3
  <2>2. QED
    BY <1>6, <1>7, <2>1
<1>9. QED
  BY <1>2, <1>8 DEF s, n, m

LEMMA NoText ==
  <<>> \in String /\ IsUtf8(<<>>) /\ Len(<<>>) = 0
BY DEF String, IsUtf8

-----------------------------------------------------------------------------
(* parse_string: its loop.  Where it is, there is room for a character, and *)
(* what it has written is UTF-8.                                            *)

Cursors == {l \in [pos : Nat \ {0}, sb : HasRoom(4)] : IsUtf8(l.sb.bytes)}

LEMMA Throwaway ==
  throwaway_buffer \in HasRoom(4) /\ throwaway_buffer.bytes = <<>>
BY NoText DEF throwaway_buffer, HasRoom, SB

\* The loop starts with room for a character.
LEMMA StringStart ==
  ASSUME NEW i \in Nat \ {0}, NEW out \in BOOLEAN
  PROVE  [pos |-> i + 1, sb |-> IF out THEN sb_need(sb_init, 4) ELSE throwaway_buffer] \in Cursors
<1>1. throwaway_buffer \in HasRoom(4) /\ throwaway_buffer.bytes = <<>>
  BY Throwaway
<1>2. sb_init \in HasRoom(0) /\ sb_init.bytes = <<>>
  BY NoText DEF sb_init, HasRoom, SB
<1>3. sb_need(sb_init, 4) \in HasRoom(4) /\ sb_need(sb_init, 4).bytes = <<>>
  BY <1>2, NeedMakesRoom
<1> DEFINE sb == IF out THEN sb_need(sb_init, 4) ELSE throwaway_buffer
<1>4. sb \in HasRoom(4) /\ sb.bytes = <<>>
  BY <1>1, <1>3
<1> HIDE DEF sb
<1>5. i + 1 \in Nat \ {0}
  OBVIOUS
<1>6. [pos |-> i + 1, sb |-> sb] \in Cursors
  BY <1>4, <1>5, NoText DEF Cursors
<1>7. QED
  BY <1>6 DEF sb

\* A round appends a character, for which there was room, and makes room for
\* the next one.
LEMMA StringRoundKeeps ==
  ASSUME NEW t \in String, NEW l \in Cursors, NEW out \in BOOLEAN
  PROVE  LET u == CharAt(t, l.pos)
             m == StringRound(t, l, out)
         IN  /\ m \in Cursors
             /\ At(t, l.pos) = 34 \/ u.n = 0 => m = l
             /\ ~(At(t, l.pos) = 34 \/ u.n = 0)
                  => /\ m.pos = l.pos + u.n /\ u.n \in 1 .. 12 /\ m.pos <= Len(t) + 1
                     /\ out => m.sb.bytes = l.sb.bytes \o u.b
<1> DEFINE u == CharAt(t, l.pos)
           m == StringRound(t, l, out)
           w == Write(l.sb, u.b)
<1>1. l.pos \in Nat \ {0} /\ l.sb \in HasRoom(4) /\ IsUtf8(l.sb.bytes) /\ l.sb.bytes \in String
  BY DEF Cursors, HasRoom, SB
<1>2. IsUnit(t, l.pos, u)
  BY <1>1, CharUnit
<1> HIDE DEF u
<1>3. CASE At(t, l.pos) = 34 \/ u.n = 0
  <2>1. m = l
    BY <1>3 DEF StringRound, u
  <2>2. QED
    BY <1>3, <2>1 DEF u
<1>4. CASE ~(At(t, l.pos) = 34 \/ u.n = 0)
  <2>1. m = [pos |-> l.pos + u.n, sb |-> NextBuffer(w, out)]
    BY <1>4 DEF StringRound, u
  <2> HIDE DEF m
  <2>2. u.n \in 1 .. 12 /\ l.pos + u.n - 1 <= Len(t) /\ IsChar(u.b)
    BY <1>2, <1>4 DEF IsUnit
  <2>3. u.b \in String /\ Len(u.b) \in 1 .. 4
    BY <2>2 DEF IsChar
  <2>4. w \in HasRoom(4 - Len(u.b)) /\ w.bytes = l.sb.bytes \o u.b
    <3>1. 4 \in Nat /\ Len(u.b) <= 4
      <4>1. PICK x \in 1 .. 4 : x = Len(u.b)
        BY <2>3
      <4>2. x <= 4
        OBVIOUS
      <4>3. QED
        BY <4>1, <4>2
    <3>2. QED
      BY <1>1, <2>3, <3>1, WriteAppends
  <2>5. w.bytes \in String /\ IsUtf8(w.bytes)
    BY <1>1, <2>2, <2>4, Utf8Append
  <2> HIDE DEF w
  <2>6. w \in HasRoom(0)
    <3>1. w \in SB /\ w.alloc \in Nat /\ Len(w.bytes) \in Nat
      BY <2>4, <2>5, StringLength DEF HasRoom, SB
    <3>2. w.alloc >= 1 /\ ~w.over /\ Len(w.bytes) + (4 - Len(u.b)) <= w.alloc
      BY <2>4 DEF HasRoom
    <3>3. Len(w.bytes) + 0 <= w.alloc
      <4> DEFINE x == Len(u.b)  y == Len(w.bytes)  z == w.alloc
      <4>1. x \in 1 .. 4 /\ y \in Nat /\ z \in Nat /\ y + (4 - x) <= z
        BY <2>3, <3>1, <3>2
      <4> HIDE DEF x, y, z
      <4>2. y + 0 <= z
        BY <4>1
      <4>3. QED
        BY <4>2 DEF y, z
    <3>4. QED
      BY <3>1, <3>2, <3>3 DEF HasRoom
  <2>7. l.pos + u.n \in Nat \ {0} /\ l.pos + u.n <= Len(t) + 1
    <3>1. PICK n \in 1 .. 12 : n = u.n
      BY <2>2
    <3>2. PICK p \in Nat \ {0} : p = l.pos
      BY <1>1
    <3>3. p + n - 1 <= Len(t) /\ Len(t) \in Nat
      BY <2>2, <3>1, <3>2, StringLength
    <3>4. p + n \in Nat \ {0} /\ p + n <= Len(t) + 1
      BY <3>3
    <3>5. QED
      BY <3>1, <3>2, <3>4
  <2>8. CASE out
    <3>1. m = [pos |-> l.pos + u.n, sb |-> sb_need(w, 4)]
      BY <2>1, <2>8 DEF NextBuffer
    <3>2. sb_need(w, 4) \in HasRoom(4) /\ sb_need(w, 4).bytes = w.bytes
      BY <2>6, NeedMakesRoom
    <3>3. m \in Cursors
      BY <2>5, <2>7, <3>1, <3>2 DEF Cursors
    <3>4. m.sb.bytes = l.sb.bytes \o u.b /\ m.pos = l.pos + u.n
      BY <2>4, <3>1, <3>2
    <3>5. QED
      BY <1>4, <2>2, <2>7, <3>3, <3>4 DEF u, m
  <2>9. CASE ~out
    <3>1. m = [pos |-> l.pos + u.n, sb |-> [throwaway_buffer EXCEPT !.over = w.over]]
      BY <2>1, <2>9 DEF NextBuffer
    <3>2. w.over = FALSE
      BY <2>6 DEF HasRoom, SB
    <3>3. /\ [throwaway_buffer EXCEPT !.over = w.over] \in HasRoom(4)
          /\ [throwaway_buffer EXCEPT !.over = w.over].bytes = <<>>
      <4> DEFINE tb == throwaway_buffer
                 b  == [tb EXCEPT !.over = w.over]
      <4>1. tb \in SB /\ tb.bytes = <<>> /\ tb.alloc = 4
        BY Throwaway DEF HasRoom, throwaway_buffer
      <4> HIDE DEF tb
      <4>2. b \in SB /\ b.bytes = <<>> /\ b.alloc = 4 /\ b.over = FALSE
        BY <3>2, <4>1 DEF SB
      <4> HIDE DEF b
      <4>3. b \in HasRoom(4) /\ b.bytes = <<>>
        BY <4>2, NoText DEF HasRoom
      <4>4. QED
        BY <4>3 DEF b, tb
    <3>4. m \in Cursors
      <4> DEFINE b == [throwaway_buffer EXCEPT !.over = w.over]
      <4>1. b \in HasRoom(4) /\ IsUtf8(b.bytes)
        BY <3>3, NoText
      <4>2. m = [pos |-> l.pos + u.n, sb |-> b]
        BY <3>1
      <4> HIDE DEF b
      <4>3. QED
        BY <2>7, <4>1, <4>2 DEF Cursors
    <3>5. m.pos = l.pos + u.n
      BY <3>1
    <3>6. QED
      BY <1>4, <2>2, <2>7, <2>9, <3>4, <3>5 DEF u, m
  <2>10. QED
    BY <2>8, <2>9
<1>5. QED
  BY <1>3, <1>4

LEMMA StringLoopKeeps ==
  ASSUME NEW t \in String, NEW i \in Nat \ {0}, NEW out \in BOOLEAN
  PROVE  LET f == StringLoop(t, i, out)
         IN  /\ \A k \in 0 .. Len(t) : f[k] \in Cursors
             /\ f[0] = [pos |-> i + 1,
                        sb |-> IF out THEN sb_need(sb_init, 4) ELSE throwaway_buffer]
             /\ \A k \in 1 .. Len(t) : f[k] = StringRound(t, f[k - 1], out)
<1> DEFINE n == Len(t)
           a == [pos |-> i + 1, sb |-> IF out THEN sb_need(sb_init, 4) ELSE throwaway_buffer]
           R(l) == StringRound(t, l, out)
           g == [l \in Cursors |-> R(l)]
<1>1. n \in Nat /\ a \in Cursors
  BY StringLength, StringStart
<1>2. \A l \in Cursors : R(l) \in Cursors
  BY StringRoundKeeps
<1> HIDE DEF n, a, R
<1>3. PICK f \in [0 .. n -> Cursors] : f[0] = a /\ \A k \in 1 .. n : f[k] = g[f[k - 1]]
  <2>1. g \in Rounds(Cursors)
    BY <1>2 DEF Rounds
  <2>2. \E f : IsLoop(f, Cursors, g, a, n)
    <3> HIDE DEF g
    <3> QED BY <1>1, <2>1, LoopExists
  <2>3. QED
    BY <2>2 DEF IsLoop
<1>4. ASSUME NEW k \in 1 .. n PROVE f[k] = R(f[k - 1])
  <2>1. k - 1 \in 0 .. n
    BY <1>1
  <2>2. f[k - 1] \in Cursors
    BY <1>3, <2>1
  <2>3. QED
    BY <1>3, <2>2
<1>5. f = [k \in 0 .. n |-> IF k = 0 THEN a ELSE R(f[k - 1])]
  BY <1>1, <1>3, <1>4
<1> DEFINE P(h) == h = [k \in 0 .. n |-> IF k = 0 THEN a ELSE R(h[k - 1])]
           loop == StringLoop(t, i, out)
<1>6. loop = CHOOSE h : P(h)
  BY DEF StringLoop, n, a, R
<1>7. P(CHOOSE h : P(h))
  <2>1. P(f)
    BY <1>5
  <2> HIDE DEF P
  <2>2. QED
    BY <2>1
<1>8. loop = [k \in 0 .. n |-> IF k = 0 THEN a ELSE R(loop[k - 1])]
  BY <1>6, <1>7
<1> HIDE DEF loop
<1>9. loop[0] = a /\ \A k \in 1 .. n : loop[k] = R(loop[k - 1])
  BY <1>1, <1>8
<1>10. \A k \in 0 .. n : loop[k] \in Cursors
  <2>1. \A k \in 1 .. n : loop[k - 1] \in Cursors => loop[k] \in Cursors
    BY <1>2, <1>9
  <2>2. QED
    BY <1>1, <1>9, <2>1, LoopInvariant
<1>11. QED
  BY <1>9, <1>10 DEF loop, n, a, R
\* Where the loop of parse_string ends.
AtEnd(t, l) == At(t, l.pos) = 34 \/ CharAt(t, l.pos).n = 0

\* Behind a text there is no character.
LEMMA NothingBehind ==
  ASSUME NEW t \in String, NEW l \in Cursors, l.pos > Len(t)
  PROVE  AtEnd(t, l)
<1>1. l.pos \in Nat \ {0} /\ Len(t) \in Nat
  BY StringLength DEF Cursors
<1>2. At(t, l.pos) = 0
  BY <1>1, ByteAt
<1>3. CharAt(t, l.pos) = BadUnit
  BY <1>2 DEF CharAt
<1>4. QED
  BY <1>3 DEF AtEnd, BadUnit, Unit

LEMMA StringLoopStart ==
  ASSUME NEW t \in String, NEW i \in Nat \ {0}, NEW out \in BOOLEAN
  PROVE  StringLoop(t, i, out)[0].pos = i + 1
<1>1. StringLoop(t, i, out)[0]
        = [pos |-> i + 1, sb |-> IF out THEN sb_need(sb_init, 4) ELSE throwaway_buffer]
  BY StringLoopKeeps
<1>2. QED
  BY <1>1

\* Len(t) rounds are enough: the loop has ended then.
LEMMA StringLoopEnds ==
  ASSUME NEW t \in String, NEW i \in Nat \ {0}, NEW out \in BOOLEAN
  PROVE  AtEnd(t, StringLoop(t, i, out)[Len(t)])
<1> DEFINE n == Len(t)
           f == StringLoop(t, i, out)
           Slow == {k \in 0 .. n : f[k].pos < k + 2}
<1>1. n \in Nat
  BY StringLength
<1>2. \A k \in 0 .. n : f[k] \in Cursors
  BY StringLoopKeeps
<1>3. f[0].pos = i + 1
  BY StringLoopStart
<1>4. \A k \in 1 .. n : f[k] = StringRound(t, f[k - 1], out)
  BY StringLoopKeeps
<1>a. \A k \in 0 .. n : f[k].pos \in Nat
  BY <1>2 DEF Cursors
<1>5. SUFFICES AtEnd(t, f[n])
  OBVIOUS
<1> HIDE DEF n, f
<1>6. CASE Slow = {}
  <2>1. n \in 0 .. n
    BY <1>1
  <2>2. f[n].pos >= n + 2
    BY <1>6, <1>a, <2>1
  <2>3. f[n].pos > Len(t)
    BY <1>1, <1>a, <2>1, <2>2 DEF n
  <2>4. QED
    BY <1>2, <2>1, <2>3, NothingBehind
<1>7. CASE Slow # {}
  <2>1. PICK k \in Slow : \A m \in Slow : k <= m
    <3>1. Slow \subseteq Nat
      BY <1>1
    <3> HIDE DEF Slow
    <3>2. QED
      BY <1>7, <3>1, LeastNatural
  <2>2. k \in 1 .. n /\ k - 1 \in 0 .. n /\ f[k].pos < k + 2
    BY <1>1, <1>3, <2>1
  <2>3. f[k - 1].pos >= k + 1
    <3>1. k - 1 \notin Slow
      BY <2>1, <2>2
    <3>2. QED
      BY <1>a, <2>2, <3>1
  <2>4. AtEnd(t, f[k - 1])
    <3>1. f[k] = StringRound(t, f[k - 1], out) /\ f[k - 1] \in Cursors
      BY <1>2, <1>4, <2>2
    <3>2. SUFFICES ASSUME ~AtEnd(t, f[k - 1]) PROVE FALSE
      OBVIOUS
    <3>a. PICK l \in Cursors : l = f[k - 1]
      BY <3>1
    <3>b. ~(At(t, l.pos) = 34 \/ CharAt(t, l.pos).n = 0) /\ f[k] = StringRound(t, l, out)
      BY <3>1, <3>2, <3>a DEF AtEnd
    <3>c. f[k].pos = l.pos + CharAt(t, l.pos).n /\ CharAt(t, l.pos).n \in 1 .. 12
      BY <3>b, StringRoundKeeps
    <3>3. /\ f[k].pos = f[k - 1].pos + CharAt(t, f[k - 1].pos).n
          /\ CharAt(t, f[k - 1].pos).n \in 1 .. 12
      BY <3>a, <3>c
    <3>4. PICK u \in 1 .. 12 : u = CharAt(t, f[k - 1].pos).n
      BY <3>3
    <3>5. PICK p \in Nat : p = f[k - 1].pos
      BY <1>a, <2>2
    <3>6. p + u < k + 2 /\ p >= k + 1
      BY <2>2, <2>3, <3>3, <3>4, <3>5
    <3>7. QED
      BY <2>2, <3>4, <3>5, <3>6
  <2>5. f[n] = f[k - 1]
    <3>1. \A m \in 1 .. n : f[m - 1] = f[k - 1] => f[m] = f[k - 1]
      <4> SUFFICES ASSUME NEW m \in 1 .. n, f[m - 1] = f[k - 1] PROVE f[m] = f[k - 1]
        OBVIOUS
      <4>1. f[m] = StringRound(t, f[k - 1], out)
        BY <1>4
      <4>2. f[k - 1] \in Cursors
        BY <1>2, <2>2
      <4>3. QED
        BY <2>4, <4>1, <4>2, StringRoundKeeps DEF AtEnd
    <3>2. \A m \in k - 1 .. n : f[m] = f[k - 1]
      BY <1>1, <2>2, <3>1, LoopStops
    <3>3. n \in k - 1 .. n
      BY <1>1, <2>2
    <3>4. QED
      BY <3>2, <3>3
  <2>6. QED
    BY <2>4, <2>5
<1>8. QED
  BY <1>6, <1>7

\* Whether the characters are kept makes no difference to where the loop is.
LEMMA SamePlace ==
  ASSUME NEW t \in String, NEW i \in Nat \ {0}, NEW k \in 0 .. Len(t)
  PROVE  StringLoop(t, i, TRUE)[k].pos = StringLoop(t, i, FALSE)[k].pos
<1> DEFINE n == Len(t)
           f == StringLoop(t, i, TRUE)
           g == StringLoop(t, i, FALSE)
           Off == {m \in 0 .. n : f[m].pos # g[m].pos}
<1>1. n \in Nat /\ TRUE \in BOOLEAN /\ FALSE \in BOOLEAN
  BY StringLength
<1>2. /\ \A m \in 0 .. n : f[m] \in Cursors
      /\ f[0].pos = i + 1
      /\ \A m \in 1 .. n : f[m] = StringRound(t, f[m - 1], TRUE)
  <2>1. f[0].pos = i + 1
    BY <1>1, StringLoopStart
  <2>2. \A m \in 0 .. n : f[m] \in Cursors
    BY <1>1, StringLoopKeeps
  <2>3. \A m \in 1 .. n : f[m] = StringRound(t, f[m - 1], TRUE)
    BY <1>1, StringLoopKeeps
  <2>4. QED
    BY <2>1, <2>2, <2>3
<1>3. /\ \A m \in 0 .. n : g[m] \in Cursors
      /\ g[0].pos = i + 1
      /\ \A m \in 1 .. n : g[m] = StringRound(t, g[m - 1], FALSE)
  <2>1. g[0].pos = i + 1
    BY <1>1, StringLoopStart
  <2>2. \A m \in 0 .. n : g[m] \in Cursors
    BY <1>1, StringLoopKeeps
  <2>3. \A m \in 1 .. n : g[m] = StringRound(t, g[m - 1], FALSE)
    BY <1>1, StringLoopKeeps
  <2>4. QED
    BY <2>1, <2>2, <2>3
<1>4. SUFFICES ASSUME Off # {} PROVE FALSE
  OBVIOUS
<1> HIDE DEF n, f, g
<1>5. PICK m \in Off : \A l \in Off : m <= l
  <2>1. Off \subseteq Nat
    BY <1>1
  <2> HIDE DEF Off
  <2>2. QED
    BY <1>4, <2>1, LeastNatural
<1>6. m \in 1 .. n /\ m - 1 \in 0 .. n
  BY <1>1, <1>2, <1>3, <1>5
<1>7. f[m - 1].pos = g[m - 1].pos
  BY <1>5, <1>6
<1>8. f[m - 1] \in Cursors /\ g[m - 1] \in Cursors
  BY <1>2, <1>3, <1>6
<1> DEFINE x == f[m - 1]
           y == g[m - 1]
<1>9. f[m] = StringRound(t, x, TRUE) /\ g[m] = StringRound(t, y, FALSE)
  BY <1>2, <1>3, <1>6
<1> HIDE DEF x, y
<1>10. x \in Cursors /\ y \in Cursors /\ x.pos = y.pos
  BY <1>7, <1>8 DEF x, y
<1>11. f[m].pos = IF AtEnd(t, x) THEN x.pos ELSE x.pos + CharAt(t, x.pos).n
  BY <1>9, <1>10, StringRoundKeeps DEF AtEnd
<1>12. g[m].pos = IF AtEnd(t, y) THEN y.pos ELSE y.pos + CharAt(t, y.pos).n
  BY <1>9, <1>10, StringRoundKeeps DEF AtEnd
<1>13. AtEnd(t, x) <=> AtEnd(t, y)
  BY <1>10 DEF AtEnd
<1>14. f[m].pos = g[m].pos
  BY <1>10, <1>11, <1>12, <1>13
<1>15. QED
  BY <1>5, <1>14

\* The loop never goes back.
LEMMA PlaceBehindStart ==
  ASSUME NEW t \in String, NEW i \in Nat \ {0}, NEW out \in BOOLEAN, NEW k \in 0 .. Len(t)
  PROVE  StringLoop(t, i, out)[k].pos \in Nat /\ StringLoop(t, i, out)[k].pos >= i + 1
<1> DEFINE n == Len(t)
           f == StringLoop(t, i, out)
           Q == {l \in Cursors : l.pos >= i + 1}
<1>1. n \in Nat
  BY StringLength
<1>2. /\ \A m \in 0 .. n : f[m] \in Cursors
      /\ f[0].pos = i + 1
      /\ \A m \in 1 .. n : f[m] = StringRound(t, f[m - 1], out)
  <2>1. f[0].pos = i + 1
    BY <1>1, StringLoopStart
  <2>2. \A m \in 0 .. n : f[m] \in Cursors
    BY <1>1, StringLoopKeeps
  <2>3. \A m \in 1 .. n : f[m] = StringRound(t, f[m - 1], out)
    BY <1>1, StringLoopKeeps
  <2>4. QED
    BY <2>1, <2>2, <2>3
<1> HIDE DEF n, f
<1>3. ASSUME NEW l \in Q PROVE StringRound(t, l, out) \in Q
  <2> DEFINE m == StringRound(t, l, out)
  <2>1. l \in Cursors /\ l.pos \in Nat /\ l.pos >= i + 1
    BY DEF Cursors
  <2>2. m \in Cursors /\ (m = l \/ \E u \in 1 .. 12 : m.pos = l.pos + u)
    BY <2>1, StringRoundKeeps
  <2> HIDE DEF m
  <2>3. m.pos >= i + 1
    <3>1. PICK p \in Nat : p = l.pos /\ p >= i + 1
      BY <2>1
    <3>2. m.pos = p \/ \E u \in 1 .. 12 : m.pos = p + u
      BY <2>2, <3>1
    <3>3. \A u \in 1 .. 12 : p + u >= i + 1
      BY <3>1
    <3>4. QED
      BY <3>1, <3>2, <3>3
  <2>4. m \in Q
    BY <2>2, <2>3
  <2>5. QED
    BY <2>4 DEF m
<1>4. f[0] \in Q
  BY <1>1, <1>2
<1> HIDE DEF Q
<1>5. \A m \in 1 .. n : f[m - 1] \in Q => f[m] \in Q
  BY <1>2, <1>3
<1>6. \A m \in 0 .. n : f[m] \in Q
  BY <1>1, <1>4, <1>5, LoopInvariant
<1>7. f[k] \in Q
  BY <1>6 DEF n
<1>8. QED
  BY <1>7 DEF Q, f, Cursors

\* Whatever text parse_string is given, it does not write behind its buffer, is
\* it the one that grows or the one of four bytes: the four bytes that were made
\* sure of hold any character.  It leaves a string allocated if and only if it
\* succeeds and was to keep it; it ends inside the text, at the same place
\* whether or not the string is kept; and what it returns is UTF-8, which
\* emit_string asserts of a string (json.c lines 793-906, 1106-1117).
THEOREM ParseStringKeeps ==
  ASSUME NEW t \in String, NEW i \in Nat \ {0}, NEW out \in BOOLEAN
  PROVE  LET p == parse_string(t, i, out)
         IN  /\ ~p.over
             /\ p.live = IF p.ok /\ out THEN 1 ELSE 0
             /\ p.ok <=> parse_string(t, i, TRUE).ok
             /\ p.ok => /\ p.pos = parse_string(t, i, TRUE).pos
                        /\ p.pos \in i + 2 .. Len(t) + 1
                        /\ p.val.s \in String /\ utf8_validate(p.val.s)
<1> DEFINE p == parse_string(t, i, out)
           q == parse_string(t, i, TRUE)
           l == StringLoop(t, i, out)[Len(t)]
           m == StringLoop(t, i, TRUE)[Len(t)]
<1>1. Len(t) \in Nat /\ Len(t) \in 0 .. Len(t)
  BY StringLength
<1>2. l \in Cursors /\ l.sb.over = FALSE /\ l.sb.bytes \in String /\ IsUtf8(l.sb.bytes)
  <2>1. l \in Cursors
    BY <1>1, StringLoopKeeps
  <2> HIDE DEF l
  <2>2. QED
    BY <2>1 DEF Cursors, HasRoom, SB
<1>3. l.pos = m.pos
  BY <1>1, SamePlace
<1>4. l.pos \in Nat /\ l.pos >= i + 1
  BY <1>1, PlaceBehindStart
<1>5. p = IF At(t, i) # 34 THEN Failed(0, FALSE) ELSE StringEnd(t, l, out)
  BY DEF parse_string
<1>6. q = IF At(t, i) # 34 THEN Failed(0, FALSE) ELSE StringEnd(t, m, TRUE)
  BY DEF parse_string
<1>7. SUFFICES /\ ~p.over
               /\ p.live = IF p.ok /\ out THEN 1 ELSE 0
               /\ p.ok <=> q.ok
               /\ p.ok => /\ p.pos = q.pos
                          /\ p.pos \in i + 2 .. Len(t) + 1
                          /\ p.val.s \in String /\ utf8_validate(p.val.s)
  OBVIOUS
<1> HIDE DEF p, q, l, m
<1>8. CASE At(t, i) # 34 \/ At(t, l.pos) # 34
  <2>1. p = Failed(0, FALSE)
    <3>1. CASE At(t, i) # 34
      BY <1>5, <3>1
    <3>2. CASE At(t, i) = 34 /\ At(t, l.pos) # 34
      BY <1>2, <1>5, <3>2 DEF StringEnd
    <3>3. QED
      BY <1>8, <3>1, <3>2
  <2>a. q.ok = FALSE
    <3>1. CASE At(t, i) # 34
      BY <1>6, <3>1 DEF Failed
    <3>2. CASE At(t, i) = 34 /\ At(t, l.pos) # 34
      BY <1>3, <1>6, <3>2 DEF StringEnd, Failed
    <3>3. QED
      BY <1>8, <3>1, <3>2
  <2>2. QED
    BY <2>1, <2>a DEF Failed
<1>9. CASE At(t, i) = 34 /\ At(t, l.pos) = 34
  <2>1. p = Parsed(l.pos + 1, Value("string", l.sb.bytes), IF out THEN 1 ELSE 0, FALSE)
    BY <1>2, <1>5, <1>9 DEF StringEnd
  <2>2. q.ok = TRUE /\ q.pos = l.pos + 1
    BY <1>3, <1>6, <1>9 DEF StringEnd, Parsed
  <2>3. l.pos \in 1 .. Len(t)
    <3>1. At(t, l.pos) # 0 /\ l.pos \in Int
      BY <1>4, <1>9
    <3>2. QED
      BY <3>1, ByteAt
  <2>4. l.pos + 1 \in i + 2 .. Len(t) + 1
    BY <1>1, <1>4, <2>3
  <2>5. utf8_validate(l.sb.bytes)
    BY <1>2, Utf8IsAccepted
  <2>6. p.ok = TRUE /\ p.over = FALSE /\ p.live = (IF out THEN 1 ELSE 0)
        /\ p.pos = l.pos + 1 /\ p.val.s = l.sb.bytes
    BY <2>1 DEF Parsed, Value
  <2>7. QED
    BY <1>2, <2>2, <2>4, <2>5, <2>6
<1>10. QED
  BY <1>8, <1>9
-----------------------------------------------------------------------------
(* emit_string: what a character is written as, and read back as. *)

Letter(d)  == d \in DOMAIN Short /\ d # 117
ShortForm(s, i, b)  == /\ utf8_validate_cz(s, i) = 1 /\ At(s, i) # 31
                       /\ \E d \in Byte : Letter(d) /\ Short[d] = At(s, i) /\ b = <<92, d>>
HexForm(s, i, b)    == /\ utf8_validate_cz(s, i) = 1 /\ At(s, i) \in 1 .. 30
                       /\ b = <<92, 117>> \o write_hex16(At(s, i))
DirectForm(s, i, b) == /\ At(s, i) >= 31 /\ At(s, i) \notin {34, 92}
                       /\ b = Piece(s, i, utf8_validate_cz(s, i))

LEMMA ShortLetters ==
  ASSUME NEW d \in DOMAIN Short
  PROVE  d \in Byte /\ d # 117 /\ Short[d] \in 1 .. 127 /\ Short[d] # 31
<1>1. d \in {34, 47, 92, 98, 102, 110, 114, 116}
  BY DEF Short
<1>2. Short[d] \in 1 .. 127 /\ Short[d] # 31
  BY <1>1 DEF Short
<1>3. d \in Byte /\ d # 117
  BY <1>1 DEF Byte
<1>4. QED
  BY <1>2, <1>3

LEMMA EscapedForms ==
  ASSUME NEW s \in String, NEW i \in 1 .. Len(s), utf8_validate_cz(s, i) # 0
  PROVE  LET u == Escaped(s, i)
         IN  /\ u.n = utf8_validate_cz(s, i)
             /\ ShortForm(s, i, u.b) \/ HexForm(s, i, u.b) \/ DirectForm(s, i, u.b)
<1> DEFINE c   == At(s, i)
           len == utf8_validate_cz(s, i)
           sh  == {d \in DOMAIN Short \ {47} : Short[d] = c}
           u   == Escaped(s, i)
<1>1. c \in 1 .. 255
  BY FourBytes DEF Byte
<1>2. c <= 127 => len = 1
  BY DEF utf8_validate_cz
<1>3. u = IF sh # {} THEN Unit(1, <<92, CHOOSE d \in sh : TRUE>>)
          ELSE IF c < 31 THEN Unit(len, <<92, 117>> \o write_hex16(utf8_read_char(s, i)))
          ELSE Unit(len, SubSeq(s, i, i + len - 1))
  BY DEF Escaped
<1>a. c <= 127 => utf8_read_char(s, i) = c
  BY DEF utf8_read_char
<1> HIDE DEF u, c
<1>4. SUFFICES u.n = len /\ (ShortForm(s, i, u.b) \/ HexForm(s, i, u.b) \/ DirectForm(s, i, u.b))
  BY DEF u
<1>5. CASE sh # {}
  <2>1. PICK d \in sh : d = CHOOSE x \in sh : TRUE
    BY <1>5
  <2>2. u = Unit(1, <<92, d>>)
    BY <1>3, <1>5, <2>1
  <2>3. d \in DOMAIN Short /\ Short[d] = c
    BY <2>1
  <2>4. d \in Byte /\ d # 117 /\ Short[d] \in 1 .. 127 /\ Short[d] # 31
    BY <2>3, ShortLetters
  <2>5. len = 1
    <3>1. PICK x \in 1 .. 127 : x = c
      BY <2>3, <2>4
    <3>2. c <= 127
      BY <3>1
    <3>3. QED
      BY <1>2, <3>2
  <2> HIDE DEF sh
  <2>6. u.n = 1 /\ u.b = <<92, d>>
    BY <2>2 DEF Unit
  <2>7. ShortForm(s, i, u.b)
    BY <2>3, <2>4, <2>5, <2>6 DEF ShortForm, Letter, c
  <2>8. QED
    BY <2>5, <2>6, <2>7
<1>6. CASE sh = {} /\ c < 31
  <2>1. u = Unit(len, <<92, 117>> \o write_hex16(utf8_read_char(s, i)))
    BY <1>3, <1>6
  <2>2. utf8_read_char(s, i) = c
    BY <1>1, <1>6, <1>a
  <2>3. len = 1 /\ c \in 1 .. 30
    BY <1>1, <1>2, <1>6
  <2> HIDE DEF len
  <2>4. u.n = len /\ u.b = <<92, 117>> \o write_hex16(c)
    BY <2>1, <2>2 DEF Unit
  <2>5. HexForm(s, i, u.b)
    BY <2>3, <2>4 DEF HexForm, len, c
  <2>6. QED
    BY <2>4, <2>5
<1>7. CASE sh = {} /\ ~(c < 31)
  <2>1. u = Unit(len, Piece(s, i, len))
    BY <1>3, <1>7 DEF Piece
  <2>2. \A d \in DOMAIN Short \ {47} : Short[d] # c
    BY <1>7
  <2>3. 34 \in DOMAIN Short \ {47} /\ 92 \in DOMAIN Short \ {47} /\ Short[34] = 34 /\ Short[92] = 92
    BY DEF Short
  <2>4. c # 34 /\ c # 92
    BY <2>2, <2>3
  <2>5. c >= 31
    BY <1>1, <1>7
  <2> HIDE DEF len
  <2>6. u.n = len /\ u.b = Piece(s, i, len)
    BY <2>1 DEF Unit
  <2>7. DirectForm(s, i, u.b)
    BY <2>4, <2>5, <2>6 DEF DirectForm, len, c
  <2>8. QED
    BY <2>6, <2>7
<1>8. QED
  BY <1>5, <1>6, <1>7

\* Four hexadecimal digits are four bytes.
LEMMA HexBytes ==
  ASSUME NEW v \in 0 .. 255
  PROVE  write_hex16(v) \in String /\ Len(write_hex16(v)) = 4
<1>1. \A d \in 0 .. 15 : HexDigit(d) \in Byte
  BY DEF HexDigit, Byte
<1>2. /\ v \div 4096 \in 0 .. 15 /\ (v \div 256) % 16 \in 0 .. 15
      /\ (v \div 16) % 16 \in 0 .. 15 /\ v % 16 \in 0 .. 15
  OBVIOUS
<1>3. QED
  BY <1>1, <1>2, BytesOfFour DEF write_hex16

\* Every form is of at most six bytes.
LEMMA EscapedBytes ==
  ASSUME NEW s \in String, NEW i \in 1 .. Len(s), utf8_validate_cz(s, i) # 0
  PROVE  Escaped(s, i).b \in String /\ Len(Escaped(s, i).b) \in 1 .. 6
<1> DEFINE b == Escaped(s, i).b
<1>1. SUFFICES b \in String /\ Len(b) \in 1 .. 6
  OBVIOUS
<1>2. ShortForm(s, i, b) \/ HexForm(s, i, b) \/ DirectForm(s, i, b)
  BY EscapedForms
<1> HIDE DEF b
<1>3. 92 \in Byte /\ 117 \in Byte
  BY DEF Byte
<1>4. CASE ShortForm(s, i, b)
  <2>1. PICK d \in Byte : b = <<92, d>>
    BY <1>4 DEF ShortForm
  <2>2. QED
    BY <1>3, <2>1, TwoBytes
<1>5. CASE HexForm(s, i, b)
  <2>1. At(s, i) \in 0 .. 255 /\ b = <<92, 117>> \o write_hex16(At(s, i))
    BY <1>5 DEF HexForm
  <2>2. write_hex16(At(s, i)) \in String /\ Len(write_hex16(At(s, i))) = 4
    BY <2>1, HexBytes
  <2>3. <<92, 117>> \in String /\ Len(<<92, 117>>) = 2
    BY <1>3, TwoBytes
  <2> DEFINE x == <<92, 117>>
             y == write_hex16(At(s, i))
  <2>a. x \in Seq(Byte) /\ y \in Seq(Byte) /\ Len(x) = 2 /\ Len(y) = 4 /\ b = x \o y
    BY <2>1, <2>2, <2>3 DEF String
  <2> HIDE DEF x, y
  <2>4. b \in String /\ Len(b) = 2 + 4
    <3>1. x \o y \in Seq(Byte) /\ Len(x \o y) = Len(x) + Len(y)
      BY <2>a, ConcatProperties
    <3>2. QED
      BY <2>a, <3>1 DEF String
  <2>5. QED
    BY <2>4
<1>6. CASE DirectForm(s, i, b)
  <2>1. PICK n \in 1 .. 4 : n = utf8_validate_cz(s, i) /\ i + n - 1 <= Len(s)
    BY ValidateCzShape
  <2>2. b = Piece(s, i, n)
    BY <1>6, <2>1 DEF DirectForm
  <2>3. i \in Nat \ {0}
    BY StringLength
  <2>4. b \in String /\ Len(b) = n
    BY <2>1, <2>2, <2>3, PieceBytes
  <2>5. QED
    BY <2>4
<1>7. QED
  BY <1>2, <1>4, <1>5, <1>6
-----------------------------------------------------------------------------
(* emit_string: its loop, for a text that utf8_validate accepts. *)

\* utf8_validate, and with it emit_string, does not get stuck in such a text.
LEMMA NeverStuck ==
  ASSUME NEW s \in String, utf8_validate(s), NEW k \in 0 .. Len(s)
  PROVE  LET i == ValidPlace(s)[k]
         IN  /\ i \in Nat /\ i >= 1
             /\ i <= Len(s) => utf8_validate_cz(s, i) \in 1 .. 4 /\ i \in 1 .. Len(s)
<1> DEFINE n == Len(s)
           at == ValidPlace(s)
<1>1. n \in Nat /\ n \in 0 .. n
  BY StringLength
<1>2. \A m \in 1 .. n : at[m] = PlaceAfter(s, at[m - 1])
  BY ValidPlaceLoop
<1>3. \A m \in 0 .. n : at[m] \in Nat /\ at[m] >= 1
  BY PlacesGrow
<1>4. at[n] > n
  BY DEF utf8_validate
<1> HIDE DEF n, at
<1>5. PICK i \in Nat : i = at[k] /\ i >= 1
  BY <1>3 DEF n
<1>6. ASSUME i <= n, utf8_validate_cz(s, i) = 0
      PROVE  FALSE
  <2>1. PlaceAfter(s, i) = i
    BY <1>1, <1>5, <1>6 DEF PlaceAfter
  <2>2. \A m \in 1 .. n : at[m - 1] = at[k] => at[m] = at[k]
    BY <1>2, <1>5, <2>1
  <2>3. k \in 0 .. n
    BY DEF n
  <2>4. \A m \in k .. n : at[m] = at[k]
    BY <1>1, <2>2, <2>3, LoopStops
  <2>5. n \in k .. n
    BY <1>1, <2>3
  <2>6. at[n] = i
    BY <1>5, <2>4, <2>5
  <2>7. QED
    BY <1>1, <1>4, <1>5, <1>6, <2>6
<1>7. utf8_validate_cz(s, i) \in 0 .. 4
  BY <1>5, ValidateCzLength
<1>8. i <= n => utf8_validate_cz(s, i) \in 1 .. 4 /\ i \in 1 .. n
  <2> SUFFICES ASSUME i <= n PROVE utf8_validate_cz(s, i) \in 1 .. 4 /\ i \in 1 .. n
    OBVIOUS
  <2>1. utf8_validate_cz(s, i) # 0
    BY <1>6
  <2> DEFINE z == utf8_validate_cz(s, i)
  <2>2. z \in 0 .. 4 /\ z # 0
    BY <1>7, <2>1
  <2> HIDE DEF z
  <2>3. z \in 1 .. 4
    BY <2>2
  <2>4. i \in 1 .. n
    BY <1>1, <1>5
  <2>5. QED
    BY <2>3, <2>4 DEF z
<1>9. QED
  BY <1>5, <1>8 DEF n, at

\* Where emit_string is before a character there is room for thirteen bytes.
\* (Fourteen, but for the first, in front of which the quotation mark is.)
Printers(s) == {l \in [pos : Nat \ {0}, sb : HasRoom(13)] :
                  \E k \in 0 .. Len(s) : l.pos = ValidPlace(s)[k]}

\* More room is room.
LEMMA LessRoom ==
  ASSUME NEW m \in Nat, NEW n \in Nat, n <= m, NEW sb \in HasRoom(m)
  PROVE  sb \in HasRoom(n)
<1>1. sb \in SB /\ sb.alloc >= 1 /\ Len(sb.bytes) + m <= sb.alloc /\ ~sb.over
  BY DEF HasRoom
<1>2. PICK x \in Nat : x = Len(sb.bytes)
  BY <1>1, StringLength DEF SB
<1>3. PICK y \in Nat : y = sb.alloc
  BY <1>1 DEF SB
<1>4. x + n <= y
  BY <1>1, <1>2, <1>3
<1>5. QED
  BY <1>1, <1>2, <1>3, <1>4 DEF HasRoom

\* A round of emit_string.
LEMMA EmitRoundKeeps ==
  ASSUME NEW s \in String, NEW l, l.pos \in 1 .. Len(s), l.sb \in HasRoom(13),
         utf8_validate_cz(s, l.pos) # 0
  PROVE  LET u == Escaped(s, l.pos)
             m == EmitRound(s, l)
         IN  /\ m.sb \in HasRoom(14) /\ m.sb.bytes = l.sb.bytes \o u.b
             /\ m.pos = l.pos + utf8_validate_cz(s, l.pos)
<1> DEFINE u == Escaped(s, l.pos)
           m == EmitRound(s, l)
           w == Write(l.sb, u.b)
<1>1. l.pos \in Nat /\ Len(s) \in Nat
  BY StringLength
<1>2. m = [pos |-> l.pos + u.n, sb |-> sb_need(w, 14)]
  BY <1>1 DEF EmitRound, EscapeRoom
<1>3. u.n = utf8_validate_cz(s, l.pos) /\ u.b \in String /\ Len(u.b) \in 1 .. 6
  BY EscapedForms, EscapedBytes
<1> HIDE DEF u, m
<1>4. w \in HasRoom(13 - Len(u.b)) /\ w.bytes = l.sb.bytes \o u.b
  <2>1. PICK x \in 1 .. 6 : x = Len(u.b)
    BY <1>3
  <2>2. 13 \in Nat /\ x <= 13
    OBVIOUS
  <2>3. QED
    BY <1>3, <2>1, <2>2, WriteAppends
<1> HIDE DEF w
<1>5. w \in HasRoom(0)
  <2>1. PICK x \in 1 .. 6 : x = Len(u.b)
    BY <1>3
  <2>2. 13 - x \in Nat /\ 0 \in Nat /\ 0 <= 13 - x
    OBVIOUS
  <2>3. QED
    BY <1>4, <2>1, <2>2, LessRoom
<1>6. sb_need(w, 14) \in HasRoom(14) /\ sb_need(w, 14).bytes = w.bytes
  <2>1. 14 \in Nat
    OBVIOUS
  <2>2. QED
    BY <1>5, <2>1, NeedMakesRoom
<1>7. m.pos = l.pos + u.n /\ m.sb = sb_need(w, 14)
  BY <1>2
<1>8. QED
  BY <1>3, <1>4, <1>6, <1>7 DEF u, m
LEMMA PrinterRound ==
  ASSUME NEW s \in String, utf8_validate(s), NEW l \in Printers(s)
  PROVE  /\ EmitRound(s, l) \in Printers(s)
         /\ EmitRound(s, l).pos = PlaceAfter(s, l.pos)
<1> DEFINE n == Len(s)
           at == ValidPlace(s)
           m == EmitRound(s, l)
<1>1. n \in Nat
  BY StringLength
<1>2. l.pos \in Nat \ {0} /\ l.sb \in HasRoom(13)
  BY DEF Printers
<1>3. CASE l.pos > n
  <2>1. m = l
    BY <1>3 DEF EmitRound
  <2>2. PlaceAfter(s, l.pos) = l.pos
    BY <1>3 DEF PlaceAfter
  <2>3. QED
    BY <2>1, <2>2
<1>4. CASE ~(l.pos > n)
  <2>1. PICK k \in 0 .. n : l.pos = at[k]
    BY DEF Printers
  <2>2. l.pos <= n
    BY <1>1, <1>2, <1>4
  <2>3. l.pos \in 1 .. n /\ utf8_validate_cz(s, l.pos) \in 1 .. 4
    BY <2>1, <2>2, NeverStuck
  <2>4. utf8_validate_cz(s, l.pos) # 0
    BY <2>3
  <2>5. m.sb \in HasRoom(14) /\ m.pos = l.pos + utf8_validate_cz(s, l.pos)
    BY <1>2, <2>3, <2>4, EmitRoundKeeps
  <2>6. m.pos = PlaceAfter(s, l.pos)
    BY <1>4, <2>5 DEF PlaceAfter
  <2>7. k # n
    <3>1. at[n] > n
      BY DEF utf8_validate
    <3> HIDE DEF at, n
    <3>2. QED
      BY <1>4, <2>1, <3>1
  <2>8. k + 1 \in 1 .. n /\ (k + 1) - 1 = k
    BY <1>1, <2>7
  <2>9. \A q \in 1 .. n : at[q] = PlaceAfter(s, at[q - 1])
    BY ValidPlaceLoop
  <2> HIDE DEF at, m, n
  <2>10. at[k + 1] = m.pos
    BY <2>1, <2>6, <2>8, <2>9
  <2>11. m.sb \in HasRoom(13)
    <3>1. 13 \in Nat /\ 14 \in Nat /\ 13 <= 14
      OBVIOUS
    <3>2. QED
      BY <2>5, <3>1, LessRoom
  <2>12. m.pos \in Nat \ {0}
    <3>1. PICK z \in 1 .. 4 : z = utf8_validate_cz(s, l.pos)
      BY <2>3
    <3>2. l.pos + z \in Nat \ {0}
      BY <1>2
    <3>3. QED
      BY <2>5, <3>1, <3>2
  <2>13. m = [pos |-> m.pos, sb |-> m.sb]
    BY <1>4 DEF m, n, EmitRound
  <2>14. m \in [pos : Nat \ {0}, sb : HasRoom(13)]
    BY <2>11, <2>12, <2>13
  <2>15. m \in Printers(s)
    <3>1. k + 1 \in 0 .. n
      BY <1>1, <2>8
    <3>2. QED
      BY <2>10, <2>14, <3>1 DEF Printers, at, n
  <2>16. QED
    BY <2>6, <2>15 DEF m
<1>5. QED
  BY <1>3, <1>4

PrintStart(sb) == [pos |-> 1, sb |-> Write(sb_need(sb, 14), <<34>>)]

LEMMA PrinterStart ==
  ASSUME NEW s \in String, NEW sb \in HasRoom(0)
  PROVE  /\ PrintStart(sb) \in Printers(s)
         /\ PrintStart(sb).pos = 1 /\ PrintStart(sb).sb.bytes = sb.bytes \o <<34>>
<1> DEFINE b == sb_need(sb, 14)
           w == Write(b, <<34>>)
<1>1. 14 \in Nat /\ 1 <= 14 /\ 14 - 1 = 13
  OBVIOUS
<1>2. b \in HasRoom(14) /\ b.bytes = sb.bytes
  BY <1>1, NeedMakesRoom
<1> HIDE DEF b
<1>3. <<34>> \in String /\ Len(<<34>>) = 1
  <2>1. 34 \in Byte
    BY DEF Byte
  <2>2. QED
    BY <2>1, OneByte
<1>4. w \in HasRoom(13) /\ w.bytes = b.bytes \o <<34>>
  <2> DEFINE q == <<34>>
  <2>1. q \in String /\ Len(q) = 1
    BY <1>3
  <2> HIDE DEF q
  <2>2. Write(b, q) \in HasRoom(14 - Len(q)) /\ Write(b, q).bytes = b.bytes \o q
    BY <1>1, <1>2, <2>1, WriteAppends
  <2>3. 14 - Len(q) = 13
    BY <2>1
  <2>4. QED
    BY <2>2, <2>3 DEF q
<1>5. PrintStart(sb) = [pos |-> 1, sb |-> w]
  BY DEF PrintStart, b
<1> HIDE DEF w
<1>6. 0 \in 0 .. Len(s) /\ ValidPlace(s)[0] = 1
  BY StringLength, ValidPlaceLoop
<1>7. [pos |-> 1, sb |-> w] \in Printers(s)
  BY <1>4, <1>6 DEF Printers
<1>8. QED
  BY <1>2, <1>4, <1>5, <1>7

LEMMA EmitLoopKeeps ==
  ASSUME NEW s \in String, utf8_validate(s), NEW sb \in HasRoom(0)
  PROVE  LET f == EmitLoop(sb, s)
         IN  /\ \A k \in 0 .. Len(s) : f[k] \in Printers(s)
             /\ f[0] = PrintStart(sb)
             /\ \A k \in 1 .. Len(s) : f[k] = EmitRound(s, f[k - 1])
<1> DEFINE n == Len(s)
           S == Printers(s)
           a == PrintStart(sb)
           R(l) == EmitRound(s, l)
           g == [l \in S |-> R(l)]
<1>1. n \in Nat /\ a \in S
  BY StringLength, PrinterStart
<1>2. \A l \in S : R(l) \in S
  BY PrinterRound
<1>b. EmitLoop(sb, s) = CHOOSE h : h = [k \in 0 .. n |-> IF k = 0 THEN a ELSE R(h[k - 1])]
  BY DEF EmitLoop, PrintStart, EscapeRoom
<1> HIDE DEF n, a, R, S
<1>3. PICK f \in [0 .. n -> S] : f[0] = a /\ \A k \in 1 .. n : f[k] = g[f[k - 1]]
  <2>1. g \in Rounds(S)
    BY <1>2 DEF Rounds
  <2>2. \E f : IsLoop(f, S, g, a, n)
    <3> HIDE DEF g
    <3> QED BY <1>1, <2>1, LoopExists
  <2>3. QED
    BY <2>2 DEF IsLoop
<1>4. ASSUME NEW k \in 1 .. n PROVE f[k] = R(f[k - 1])
  <2>1. k - 1 \in 0 .. n
    BY <1>1
  <2>2. f[k - 1] \in S
    BY <1>3, <2>1
  <2>3. QED
    BY <1>3, <2>2
<1>5. f = [k \in 0 .. n |-> IF k = 0 THEN a ELSE R(f[k - 1])]
  BY <1>1, <1>3, <1>4
<1> DEFINE P(h) == h = [k \in 0 .. n |-> IF k = 0 THEN a ELSE R(h[k - 1])]
           loop == EmitLoop(sb, s)
<1>6. loop = CHOOSE h : P(h)
  BY <1>b
<1>7. P(CHOOSE h : P(h))
  <2>1. P(f)
    BY <1>5
  <2> HIDE DEF P
  <2>2. QED
    BY <2>1
<1>8. loop = [k \in 0 .. n |-> IF k = 0 THEN a ELSE R(loop[k - 1])]
  BY <1>6, <1>7
<1> HIDE DEF loop
<1>9. loop[0] = a /\ \A k \in 1 .. n : loop[k] = R(loop[k - 1])
  BY <1>1, <1>8
<1>10. \A k \in 0 .. n : loop[k] \in S
  <2>1. \A k \in 1 .. n : loop[k - 1] \in S => loop[k] \in S
    BY <1>2, <1>9
  <2>2. QED
    BY <1>1, <1>9, <2>1, LoopInvariant
<1>11. QED
  BY <1>9, <1>10 DEF loop, n, a, R, S

\* emit_string and utf8_validate go from character to character together.
LEMMA EmitPlaces ==
  ASSUME NEW s \in String, utf8_validate(s), NEW sb \in HasRoom(0), NEW k \in 0 .. Len(s)
  PROVE  EmitLoop(sb, s)[k].pos = ValidPlace(s)[k]
<1> DEFINE n == Len(s)
           f == EmitLoop(sb, s)
           at == ValidPlace(s)
           Off == {m \in 0 .. n : f[m].pos # at[m]}
<1>1. n \in Nat
  BY StringLength
<1>2. /\ \A m \in 0 .. n : f[m] \in Printers(s)
      /\ \A m \in 1 .. n : f[m] = EmitRound(s, f[m - 1])
  BY EmitLoopKeeps
<1>3. f[0].pos = 1
  <2>1. f[0] = PrintStart(sb)
    BY EmitLoopKeeps
  <2>2. QED
    BY <2>1, PrinterStart
<1>4. at[0] = 1 /\ \A m \in 1 .. n : at[m] = PlaceAfter(s, at[m - 1])
  BY ValidPlaceLoop
<1>5. SUFFICES ASSUME Off # {} PROVE FALSE
  OBVIOUS
<1> HIDE DEF n, f, at
<1>6. PICK m \in Off : \A l \in Off : m <= l
  <2>1. Off \subseteq Nat
    BY <1>1
  <2> HIDE DEF Off
  <2>2. QED
    BY <1>5, <2>1, LeastNatural
<1>7. m \in 1 .. n /\ m - 1 \in 0 .. n
  BY <1>1, <1>3, <1>4, <1>6
<1>8. f[m - 1].pos = at[m - 1]
  BY <1>6, <1>7
<1>9. f[m].pos = PlaceAfter(s, f[m - 1].pos)
  BY <1>2, <1>7, PrinterRound
<1>10. f[m].pos = at[m]
  BY <1>4, <1>7, <1>8, <1>9
<1>11. QED
  BY <1>6, <1>10

\* For every buffer and every text that is UTF-8, as emit_string asserts: the
\* fourteen bytes it makes sure of between two characters are enough, so that
\* nothing is written behind the buffer, the last quotation mark included
\* (json.c lines 1106-1223).
THEOREM EmitStringKeeps ==
  ASSUME NEW s \in String, utf8_validate(s), NEW sb \in HasRoom(0)
  PROVE  emit_string(sb, s) \in HasRoom(0) /\ ~emit_string(sb, s).over
<1> DEFINE l == EmitLoop(sb, s)[Len(s)]
<1>1. Len(s) \in 0 .. Len(s)
  BY StringLength
<1>2. l \in Printers(s)
  BY <1>1, EmitLoopKeeps
<1> HIDE DEF l
<1>3. l.sb \in HasRoom(13)
  BY <1>2 DEF Printers
<1> DEFINE q == <<34>>
<1>4. q \in String /\ Len(q) = 1
  <2>1. 34 \in Byte
    BY DEF Byte
  <2>2. QED
    BY <2>1, OneByte
<1>5. emit_string(sb, s) = Write(l.sb, q)
  BY DEF emit_string, l
<1> HIDE DEF q
<1>6. 13 \in Nat /\ 12 \in Nat /\ 0 \in Nat /\ 0 <= 12 /\ 1 <= 13 /\ 13 - 1 = 12
  OBVIOUS
<1>7. Write(l.sb, q) \in HasRoom(13 - Len(q))
  BY <1>3, <1>4, <1>6, WriteAppends
<1>8. Write(l.sb, q) \in HasRoom(12)
  BY <1>4, <1>6, <1>7
<1>9. emit_string(sb, s) \in HasRoom(0)
  BY <1>5, <1>6, <1>8, LessRoom
<1>10. QED
  BY <1>9 DEF HasRoom
-----------------------------------------------------------------------------
(* parse_string reads back what emit_string wrote: a character. *)

\* The bytes b are in the text t, from i on.
Holds(t, i, b) == \A k \in 1 .. Len(b) : At(t, i + k - 1) = b[k]

LEMMA OnePiece ==
  ASSUME NEW s \in String, NEW i \in 1 .. Len(s)
  PROVE  Piece(s, i, 1) = <<At(s, i)>>
<1> DEFINE p == Piece(s, i, 1)
           q == <<At(s, i)>>
<1>1. i \in Nat \ {0} /\ i + 1 - 1 = i /\ i \in 1 .. Len(s) /\ 1 \in 1 .. 4 /\ i + 1 - 1 <= Len(s)
  BY StringLength
<1>2. p \in String /\ Len(p) = 1 /\ \A k \in 1 .. 1 : p[k] = At(s, i + k - 1)
  BY <1>1, PieceBytes
<1>3. At(s, i) \in Byte
  BY FourBytes
<1>4. q \in String /\ Len(q) = 1 /\ q[1] = At(s, i)
  BY <1>3, OneByte
<1>5. p[1] = q[1]
  BY <1>1, <1>2, <1>4
<1> HIDE DEF p, q
<1>6. \A k \in 1 .. Len(p) : p[k] = q[k]
  BY <1>2, <1>5
<1>7. p = q
  BY <1>2, <1>4, <1>6, SeqEqual DEF String
<1>8. QED
  BY <1>7 DEF p, q

LEMMA ReadsShort ==
  ASSUME NEW s \in String, NEW j \in 1 .. Len(s), NEW b, ShortForm(s, j, b),
         NEW t \in String, NEW i \in Nat \ {0}, Holds(t, i, b)
  PROVE  CharAt(t, i) = Unit(Len(b), Piece(s, j, utf8_validate_cz(s, j))) /\ At(t, i) # 34
<1>1. utf8_validate_cz(s, j) = 1
  BY DEF ShortForm
<1>2. PICK d \in Byte : d \in DOMAIN Short /\ d # 117 /\ Short[d] = At(s, j) /\ b = <<92, d>>
  BY DEF ShortForm, Letter
<1>3. Len(b) = 2 /\ b[1] = 92 /\ b[2] = d
  BY <1>2
<1>4. At(t, i) = 92 /\ At(t, i + 1) = d
  <2>1. 1 \in 1 .. 2 /\ 2 \in 1 .. 2 /\ i + 1 - 1 = i /\ i + 2 - 1 = i + 1
    OBVIOUS
  <2>2. QED
    BY <1>3, <2>1 DEF Holds
<1>5. CharAt(t, i) = Unit(2, <<Short[d]>>)
  BY <1>2, <1>4 DEF CharAt
<1>6. At(t, i) # 34
  BY <1>4
<1>7. QED
  BY <1>1, <1>2, <1>3, <1>5, <1>6, OnePiece

LEMMA ReadsHex ==
  ASSUME NEW s \in String, NEW j \in 1 .. Len(s), NEW b, HexForm(s, j, b),
         NEW t \in String, NEW i \in Nat \ {0}, Holds(t, i, b)
  PROVE  CharAt(t, i) = Unit(Len(b), Piece(s, j, utf8_validate_cz(s, j))) /\ At(t, i) # 34
<1> DEFINE c == At(s, j)
           h == write_hex16(c)
           x == <<92, 117>>
<1>1. utf8_validate_cz(s, j) = 1 /\ c \in 1 .. 30 /\ b = x \o h
  BY DEF HexForm
<1> HIDE DEF c
<1>range. c \in 0 .. 255 /\ c \in Nat /\ c <= 65535 /\ c <= 127 /\ c # 0 /\ ~(55296 <= c)
  <2>1. PICK d \in 1 .. 30 : d = c
    BY <1>1
  <2>2. d \in 0 .. 255 /\ d \in Nat /\ d <= 65535 /\ d <= 127 /\ d # 0 /\ ~(55296 <= d)
    OBVIOUS
  <2>3. QED
    BY <2>1, <2>2
<1>2. h \in String /\ Len(h) = 4
  <2>1. c \in 0 .. 255
    BY <1>range
  <2>2. QED
    BY <2>1, HexBytes
<1>3. IsHex16(h, 1) /\ parse_hex16(h, 1) = c
  BY <1>range, HexRoundTrip
<1> HIDE DEF h
<1>4. x \in Seq(Byte) /\ Len(x) = 2 /\ x[1] = 92 /\ x[2] = 117
  <2>1. 92 \in Byte /\ 117 \in Byte
    BY DEF Byte
  <2>2. QED
    BY <2>1, TwoBytes DEF String
<1> HIDE DEF x
<1>5. /\ Len(b) = 6
      /\ \A k \in 1 .. 6 : b[k] = IF k <= 2 THEN x[k] ELSE h[k - 2]
  <2>1. h \in Seq(Byte)
    BY <1>2 DEF String
  <2>2. /\ Len(x \o h) = Len(x) + Len(h)
        /\ \A k \in 1 .. Len(x) + Len(h) : (x \o h)[k] = IF k <= Len(x) THEN x[k] ELSE h[k - Len(x)]
    <3>1. Len(x \o h) = Len(x) + Len(h)
      <4>1. x \in Seq(Byte)
        BY <1>4
      <4>2. QED
        BY <4>1, <2>1, ConcatProperties, Zenon
    <3>2. \A k \in 1 .. Len(x) + Len(h) : (x \o h)[k] = IF k <= Len(x) THEN x[k] ELSE h[k - Len(x)]
      <4>1. x \in Seq(Byte)
        BY <1>4
      <4>2. QED
        BY <4>1, <2>1, ConcatProperties, Zenon
    <3>3. QED
      BY <3>1, <3>2
  <2>3. Len(x) + Len(h) = 6
    BY <1>2, <1>4
  <2>4. QED
    BY <1>1, <1>4, <2>2, <2>3
<1>6. At(t, i) = 92 /\ At(t, i + 1) = 117
  <2>1. 1 \in 1 .. 6 /\ 2 \in 1 .. 6 /\ i + 1 - 1 = i /\ i + 2 - 1 = i + 1
    OBVIOUS
  <2>2. b[1] = 92 /\ b[2] = 117
    BY <1>4, <1>5
  <2>3. QED
    BY <1>5, <2>1, <2>2 DEF Holds
<1>7. ASSUME NEW k \in 0 .. 3 PROVE At(t, i + 2 + k) = At(h, 1 + k)
  <2>1. k + 3 \in 1 .. 6 /\ i + (k + 3) - 1 = i + 2 + k /\ (k + 3) - 2 = 1 + k /\ ~(k + 3 <= 2)
    OBVIOUS
  <2>2. At(t, i + (k + 3) - 1) = b[k + 3]
    BY <1>5, <2>1 DEF Holds
  <2>3. b[k + 3] = h[(k + 3) - 2]
    BY <1>5, <2>1
  <2>4. 1 + k \in 1 .. Len(h)
    BY <1>2
  <2>5. h[1 + k] = At(h, 1 + k)
    BY <1>2, <2>4, ByteInside
  <2>6. QED
    BY <2>1, <2>2, <2>3, <2>5
<1>8. IsHex16(t, i + 2)
  BY <1>3, <1>7 DEF IsHex16
<1>9. parse_hex16(t, i + 2) = c
  <2>1. 0 \in 0 .. 3 /\ 1 \in 0 .. 3 /\ 2 \in 0 .. 3 /\ 3 \in 0 .. 3 /\ i + 2 + 0 = i + 2
    OBVIOUS
  <2>2. 1 + 0 = 1
    OBVIOUS
  <2>3. At(t, i + 2) = At(h, 1)
    BY <1>7, <2>1, <2>2
  <2>4. /\ At(t, i + 2 + 1) = At(h, 1 + 1) /\ At(t, i + 2 + 2) = At(h, 1 + 2)
        /\ At(t, i + 2 + 3) = At(h, 1 + 3)
    BY <1>7, <2>1
  <2> DEFINE v == HexValue(At(h, 1))      w == HexValue(At(h, 1 + 1))
             y == HexValue(At(h, 1 + 2))  z == HexValue(At(h, 1 + 3))
  <2>5. parse_hex16(h, 1) = v * 4096 + w * 256 + y * 16 + z
    BY DEF parse_hex16
  <2>6. /\ HexValue(At(t, i + 2)) = v /\ HexValue(At(t, i + 2 + 1)) = w
        /\ HexValue(At(t, i + 2 + 2)) = y /\ HexValue(At(t, i + 2 + 3)) = z
    BY <2>3, <2>4
  <2> HIDE DEF v, w, y, z
  <2>7. parse_hex16(t, i + 2) = v * 4096 + w * 256 + y * 16 + z
    BY <2>6, SMT DEF parse_hex16
  <2>8. QED
    BY <1>3, <2>5, <2>7
<1>10. CharAt(t, i) = UnicodeEscape(t, i)
  BY <1>6 DEF CharAt
<1>11. UnicodeEscape(t, i) = Unit(6, utf8_write_char(c))
  <2>1. c # 0 /\ ~IsSurrogate(c)
    BY <1>range DEF IsSurrogate
  <2>2. QED
    BY <1>8, <1>9, <2>1 DEF UnicodeEscape
<1>12. utf8_write_char(c) = <<c>>
  BY <1>range DEF utf8_write_char
<1>13. Piece(s, j, 1) = <<c>>
  BY OnePiece DEF c
<1>14. At(t, i) # 34
  BY <1>6
<1>15. QED
  BY <1>1, <1>5, <1>10, <1>11, <1>12, <1>13, <1>14

LEMMA ReadsDirect ==
  ASSUME NEW s \in String, NEW j \in 1 .. Len(s), NEW b, DirectForm(s, j, b),
         utf8_validate_cz(s, j) # 0, At(s, j) # 31,
         NEW t \in String, NEW i \in Nat \ {0}, Holds(t, i, b)
  PROVE  CharAt(t, i) = Unit(Len(b), Piece(s, j, utf8_validate_cz(s, j))) /\ At(t, i) # 34
<1>1. PICK n \in 1 .. 4 : n = utf8_validate_cz(s, j) /\ j + n - 1 <= Len(s)
  BY ValidateCzShape
<1>2. b = Piece(s, j, n)
  BY <1>1 DEF DirectForm
<1>3. j \in Nat \ {0}
  BY StringLength
<1>4. b \in String /\ Len(b) = n /\ \A k \in 1 .. n : b[k] = At(s, j + k - 1)
  BY <1>1, <1>2, <1>3, PieceBytes
<1>5. IsUtf8Char(b)
  <2>1. Utf8At(s, j, n)
    BY <1>1, CharIsRfc3629
  <2>2. QED
    BY <1>2, <2>1 DEF Utf8At
<1>6. i + n - 1 <= Len(t)
  <2>1. n \in 1 .. n /\ At(t, i + n - 1) = b[n]
    BY <1>4 DEF Holds
  <2>2. b[n] \in Byte
    BY <1>4, <2>1, ByteInside
  <2> DEFINE e == At(t, i + n - 1)
  <2>a. e \in Byte
    BY <2>1, <2>2
  <2>b. i + n - 1 \in Int
    OBVIOUS
  <2> HIDE DEF e
  <2>3. e # 0
    BY <2>a DEF Byte
  <2>4. i + n - 1 \in 1 .. Len(t)
    BY <2>3, <2>b, ByteAt DEF e
  <2>5. QED
    BY <2>4
<1>7. Piece(t, i, n) = b
  <2>1. /\ Piece(t, i, n) \in String /\ Len(Piece(t, i, n)) = n
        /\ \A k \in 1 .. n : Piece(t, i, n)[k] = At(t, i + k - 1)
    BY <1>6, PieceBytes
  <2>2. \A k \in 1 .. n : Piece(t, i, n)[k] = b[k]
    BY <1>4, <2>1 DEF Holds
  <2>3. QED
    BY <1>4, <2>1, <2>2, SeqEqual DEF String
<1>8. At(t, i) = At(s, j)
  <2>1. 1 \in 1 .. n /\ i + 1 - 1 = i /\ j + 1 - 1 = j
    BY <1>3
  <2>2. QED
    BY <1>4, <2>1 DEF Holds
<1>9. At(s, j) > 31 /\ At(s, j) # 34 /\ At(s, j) # 92
  <2> DEFINE c == At(s, j)
  <2>1. c >= 31 /\ c \notin {34, 92} /\ c # 31
    BY DEF DirectForm
  <2>2. c \in 0 .. 255
    <3>1. j \in Int
      BY <1>3
    <3>2. QED
      BY <3>1, ByteAt
  <2> HIDE DEF c
  <2>3. c > 31 /\ c # 34 /\ c # 92
    BY <2>1, <2>2
  <2>4. QED
    BY <2>3 DEF c
<1>10. i \in 1 .. Len(t)
  BY <1>6, StringLength
<1>11. utf8_validate_cz(t, i) = n
  <2>1. Utf8At(t, i, n)
    BY <1>5, <1>6, <1>7 DEF Utf8At
  <2>2. QED
    BY <1>10, <2>1, CharIsRfc3629
<1>12. CharAt(t, i) = Unit(n, Piece(t, i, n))
  <2> DEFINE c == At(t, i)
  <2>0. c \in 0 .. 255
    <3>1. i \in Int
      OBVIOUS
    <3>2. QED
      BY <3>1, ByteAt
  <2>b. c > 31 /\ c # 92
    BY <1>8, <1>9
  <2> HIDE DEF c
  <2>c. ~(c <= 31) /\ c # 92 /\ n # 0
    BY <2>0, <2>b
  <2>1. At(t, i) # 92 /\ ~(At(t, i) <= 31) /\ n # 0
    BY <2>c DEF c
  <2>2. QED
    BY <1>11, <2>1 DEF CharAt, Piece
<1>13. QED
  BY <1>1, <1>2, <1>4, <1>7, <1>8, <1>9, <1>12

\* A character is read back, unless it is U+001F.
LEMMA ReadBack ==
  ASSUME NEW s \in String, NEW j \in 1 .. Len(s), utf8_validate_cz(s, j) # 0, At(s, j) # 31,
         NEW t \in String, NEW i \in Nat \ {0}, Holds(t, i, Escaped(s, j).b)
  PROVE  /\ CharAt(t, i) = Unit(Len(Escaped(s, j).b), Piece(s, j, utf8_validate_cz(s, j)))
         /\ At(t, i) # 34
<1> DEFINE b == Escaped(s, j).b
<1>1. ShortForm(s, j, b) \/ HexForm(s, j, b) \/ DirectForm(s, j, b)
  BY EscapedForms
<1> HIDE DEF b
<1>2. Holds(t, i, b)
  BY DEF b
<1>3. CharAt(t, i) = Unit(Len(b), Piece(s, j, utf8_validate_cz(s, j))) /\ At(t, i) # 34
  BY <1>1, <1>2, ReadsShort, ReadsHex, ReadsDirect
<1>4. QED
  BY <1>3 DEF b

\* U+001F is written as it is, and refused.
LEMMA NotReadBack ==
  ASSUME NEW s \in String, NEW j \in 1 .. Len(s), utf8_validate_cz(s, j) # 0, At(s, j) = 31,
         NEW t \in String, NEW i \in Nat \ {0}, Holds(t, i, Escaped(s, j).b)
  PROVE  At(t, i) # 34 /\ CharAt(t, i).n = 0
<1> DEFINE b == Escaped(s, j).b
<1>1. ShortForm(s, j, b) \/ HexForm(s, j, b) \/ DirectForm(s, j, b)
  BY EscapedForms
<1> HIDE DEF b
<1>2. ~ShortForm(s, j, b) /\ ~HexForm(s, j, b)
  BY DEF ShortForm, HexForm
<1>3. utf8_validate_cz(s, j) = 1
  BY DEF utf8_validate_cz
<1>4. b = <<31>>
  BY <1>1, <1>2, <1>3, OnePiece DEF DirectForm
<1>5. At(t, i) = 31
  <2>1. 1 \in 1 .. Len(b) /\ b[1] = 31 /\ i + 1 - 1 = i
    BY <1>4
  <2>2. Holds(t, i, b)
    BY DEF b
  <2>3. QED
    BY <2>1, <2>2 DEF Holds
<1>6. CharAt(t, i) = BadUnit
  BY <1>5 DEF CharAt
<1>7. QED
  BY <1>5, <1>6 DEF BadUnit, Unit
-----------------------------------------------------------------------------
(* emit_string: the literal, as it grows. *)

\* What is written after k characters of s, and the whole literal.
Emitted(s, k) == EmitLoop(sb_init, s)[k].sb.bytes
Quoted(s)    == Emitted(s, Len(s)) \o <<34>>

LEMMA Quote ==
  <<34>> \in String /\ Len(<<34>>) = 1
<1>1. 34 \in Byte
  BY DEF Byte
<1>2. QED
  BY <1>1, OneByte

LEMMA InitialBuffer ==
  sb_init \in HasRoom(0) /\ sb_init.bytes = <<>>
BY NoText DEF sb_init, HasRoom, SB

LEMMA EmittedStart ==
  ASSUME NEW s \in String, utf8_validate(s)
  PROVE  Emitted(s, 0) = <<34>>
<1> DEFINE f == EmitLoop(sb_init, s)
           q == <<34>>
<1>1. f[0] = PrintStart(sb_init)
  BY InitialBuffer, EmitLoopKeeps
<1>2. PrintStart(sb_init).sb.bytes = sb_init.bytes \o q
  BY InitialBuffer, PrinterStart
<1>3. q \in Seq(Byte)
  BY Quote DEF String
<1> HIDE DEF q
<1>4. <<>> \o q = q
  BY <1>3, ConcatEmptySeq
<1>5. f[0].sb.bytes = q
  BY <1>1, <1>2, <1>4, InitialBuffer
<1>6. QED
  BY <1>5 DEF Emitted, q

LEMMA EmittedText ==
  ASSUME NEW s \in String, utf8_validate(s), NEW k \in 0 .. Len(s)
  PROVE  Emitted(s, k) \in String
<1> DEFINE l == EmitLoop(sb_init, s)[k]
<1>1. l \in Printers(s)
  BY InitialBuffer, EmitLoopKeeps
<1> HIDE DEF l
<1>2. l.sb.bytes \in String
  BY <1>1 DEF Printers, HasRoom, SB
<1>3. QED
  BY <1>2 DEF Emitted, l

\* A round writes what the next character is written as.
LEMMA EmittedRound ==
  ASSUME NEW s \in String, utf8_validate(s), NEW k \in 1 .. Len(s)
  PROVE  LET i == ValidPlace(s)[k - 1]
         IN  /\ i > Len(s)  => Emitted(s, k) = Emitted(s, k - 1)
             /\ i <= Len(s) => Emitted(s, k) = Emitted(s, k - 1) \o Escaped(s, i).b
<1> DEFINE f == EmitLoop(sb_init, s)
           l == f[k - 1]
           i == ValidPlace(s)[k - 1]
<1>1. k - 1 \in 0 .. Len(s) /\ k \in 1 .. Len(s)
  OBVIOUS
<1>2. f[k] = EmitRound(s, l)
  BY <1>1, InitialBuffer, EmitLoopKeeps
<1>3. l \in Printers(s)
  BY <1>1, InitialBuffer, EmitLoopKeeps
<1>4. l.pos = i
  BY <1>1, InitialBuffer, EmitPlaces
<1>5. i \in Nat /\ (i <= Len(s) => utf8_validate_cz(s, i) \in 1 .. 4 /\ i \in 1 .. Len(s))
  BY <1>1, NeverStuck
<1>6. Emitted(s, k) = f[k].sb.bytes /\ Emitted(s, k - 1) = l.sb.bytes
  BY DEF Emitted
<1> HIDE DEF f, l, i
<1>7. ASSUME i > Len(s) PROVE Emitted(s, k) = Emitted(s, k - 1)
  <2>1. EmitRound(s, l) = l
    BY <1>4, <1>7 DEF EmitRound
  <2>2. QED
    BY <1>2, <1>6, <2>1
<1>8. ASSUME i <= Len(s) PROVE Emitted(s, k) = Emitted(s, k - 1) \o Escaped(s, i).b
  <2>1. l.pos \in 1 .. Len(s) /\ utf8_validate_cz(s, l.pos) # 0
    BY <1>4, <1>5, <1>8
  <2>2. l.sb \in HasRoom(13)
    BY <1>3 DEF Printers
  <2>3. EmitRound(s, l).sb.bytes = l.sb.bytes \o Escaped(s, l.pos).b
    BY <2>1, <2>2, EmitRoundKeeps
  <2>4. QED
    BY <1>2, <1>4, <1>6, <2>3
<1>9. QED
  BY <1>7, <1>8 DEF i

\* The text b begins with a.
Begins(a, b) == /\ a \in String /\ b \in String /\ Len(a) <= Len(b)
                /\ \A k \in 1 .. Len(a) : b[k] = a[k]

LEMMA Appended ==
  ASSUME NEW a \in String, NEW b \in String
  PROVE  /\ a \o b \in String /\ Len(a \o b) = Len(a) + Len(b)
         /\ \A k \in 1 .. Len(a) : (a \o b)[k] = a[k]
         /\ \A k \in 1 .. Len(b) : (a \o b)[Len(a) + k] = b[k]
<1>1. a \in Seq(Byte) /\ b \in Seq(Byte)
  BY DEF String
<1>2. Len(a) \in Nat /\ Len(b) \in Nat
  BY StringLength
<1>3. a \o b \in Seq(Byte)
  BY <1>1, ConcatProperties
<1>4. Len(a \o b) = Len(a) + Len(b)
  BY <1>1, ConcatProperties
<1>5. \A i \in 1 .. Len(a) + Len(b) : (a \o b)[i] = IF i <= Len(a) THEN a[i] ELSE b[i - Len(a)]
  BY <1>1, ConcatProperties, Zenon
<1> DEFINE c == a \o b
           m == Len(a)
           n == Len(b)
<1> HIDE DEF c, m, n
<1>6. \A i \in 1 .. m + n : c[i] = IF i <= m THEN a[i] ELSE b[i - m]
  BY <1>5 DEF c, m, n
<1>7. m \in Nat /\ n \in Nat
  BY <1>2 DEF m, n
<1>8. ASSUME NEW k \in 1 .. m PROVE c[k] = a[k]
  <2>1. k \in 1 .. m + n /\ k <= m
    BY <1>7
  <2>2. QED
    BY <1>6, <2>1
<1>9. ASSUME NEW k \in 1 .. n PROVE c[m + k] = b[k]
  <2>1. m + k \in 1 .. m + n /\ ~(m + k <= m) /\ (m + k) - m = k
    BY <1>7
  <2>2. QED
    BY <1>6, <2>1
<1>10. QED
  BY <1>3, <1>4, <1>8, <1>9 DEF c, m, n, String

LEMMA BeginsWithLess ==
  ASSUME NEW a, NEW b, Begins(a, b), NEW c \in String
  PROVE  Begins(a, b \o c)
<1>1. a \in String /\ b \in String /\ Len(a) \in Nat /\ Len(b) \in Nat /\ Len(c) \in Nat
  BY StringLength DEF Begins
<1>2. Len(a) <= Len(b) /\ \A k \in 1 .. Len(a) : b[k] = a[k]
  BY DEF Begins
<1>3. /\ b \o c \in String /\ Len(b \o c) = Len(b) + Len(c)
      /\ \A k \in 1 .. Len(b) : (b \o c)[k] = b[k]
  BY <1>1, Appended
<1>4. \A k \in 1 .. Len(a) : k \in 1 .. Len(b)
  BY <1>1, <1>2
<1>5. \A k \in 1 .. Len(a) : (b \o c)[k] = a[k]
  BY <1>2, <1>3, <1>4
<1>6. Len(a) <= Len(b \o c)
  BY <1>1, <1>2, <1>3
<1>7. QED
  BY <1>1, <1>3, <1>5, <1>6 DEF Begins

\* What has been written stays.
LEMMA EmittedStays ==
  ASSUME NEW s \in String, utf8_validate(s), NEW k \in 0 .. Len(s)
  PROVE  \A m \in k .. Len(s) : Begins(Emitted(s, k), Emitted(s, m))
<1> DEFINE n == Len(s)
           Off == {m \in k .. n : ~Begins(Emitted(s, k), Emitted(s, m))}
<1>1. n \in Nat /\ k \in Nat
  BY StringLength
<1>2. SUFFICES ASSUME Off # {} PROVE FALSE
  OBVIOUS
<1>3. PICK m \in Off : \A l \in Off : m <= l
  <2>1. Off \subseteq Nat
    BY <1>1
  <2> HIDE DEF Off
  <2>2. QED
    BY <1>2, <2>1, LeastNatural
<1>4. m \in k .. n
  OBVIOUS
<1>5. m # k
  <2>1. Emitted(s, k) \in String /\ Len(Emitted(s, k)) \in Nat
    BY EmittedText, StringLength
  <2>2. Begins(Emitted(s, k), Emitted(s, k))
    BY <2>1 DEF Begins
  <2>3. QED
    BY <2>2
<1>6. m - 1 \in k .. n /\ m - 1 \in 0 .. n /\ m \in 1 .. n /\ ~(m <= m - 1)
  BY <1>1, <1>4, <1>5
<1>7. Begins(Emitted(s, k), Emitted(s, m - 1))
  BY <1>3, <1>6
<1> DEFINE i == ValidPlace(s)[m - 1]
<1>8. CASE i > n
  <2>1. Emitted(s, m) = Emitted(s, m - 1)
    BY <1>6, <1>8, EmittedRound
  <2>2. QED
    BY <1>7, <2>1
<1>9. CASE i <= n
  <2>1. Emitted(s, m) = Emitted(s, m - 1) \o Escaped(s, i).b
    BY <1>6, <1>9, EmittedRound
  <2>2. i \in 1 .. n /\ utf8_validate_cz(s, i) \in 1 .. 4
    BY <1>6, <1>9, NeverStuck
  <2>3. utf8_validate_cz(s, i) # 0
    BY <2>2
  <2>4. Escaped(s, i).b \in String
    BY <2>2, <2>3, EscapedBytes
  <2>5. QED
    BY <1>7, <2>1, <2>4, BeginsWithLess
<1>10. i \in Nat
  BY <1>6, NeverStuck
<1>11. QED
  BY <1>1, <1>8, <1>9, <1>10

LEMMA QuotedText ==
  ASSUME NEW s \in String, utf8_validate(s)
  PROVE  /\ json_encode_string(s).bytes = Quoted(s)
         /\ Quoted(s) \in String /\ Len(Quoted(s)) = Len(Emitted(s, Len(s))) + 1
         /\ At(Quoted(s), Len(Emitted(s, Len(s))) + 1) = 34
         /\ \A k \in 0 .. Len(s) : Begins(Emitted(s, k), Quoted(s))
<1> DEFINE n == Len(s)
           w == Emitted(s, n)
           q == <<34>>
           l == EmitLoop(sb_init, s)[n]
<1>1. n \in 0 .. n /\ w \in String /\ Len(w) \in Nat
  <2>1. n \in 0 .. n
    BY StringLength
  <2>2. w \in String
    BY <2>1, EmittedText
  <2>3. QED
    BY <2>1, <2>2, StringLength
<1>2. json_encode_string(s).bytes = Quoted(s)
  <2>1. l \in Printers(s)
    BY <1>1, InitialBuffer, EmitLoopKeeps
  <2>2. json_encode_string(s) = Write(l.sb, q)
    BY DEF json_encode_string, emit_string
  <2>3. l.sb.bytes = w
    BY DEF Emitted
  <2> HIDE DEF l, w, q
  <2>4. l.sb \in SB
    BY <2>1 DEF Printers, HasRoom
  <2>5. Write(l.sb, q).bytes = l.sb.bytes \o q
    BY <2>4 DEF Write, SB
  <2>6. QED
    BY <2>2, <2>3, <2>5 DEF Quoted, w, q
<1>3. q \in String /\ Len(q) = 1 /\ q[1] = 34
  BY Quote
<1>4. Quoted(s) = w \o q
  BY DEF Quoted
<1>5. ASSUME NEW k \in 0 .. n PROVE Begins(Emitted(s, k), Quoted(s))
  <2>1. n \in k .. n
    BY <1>1
  <2>2. Begins(Emitted(s, k), w)
    BY <2>1, EmittedStays
  <2> HIDE DEF w, q
  <2>3. QED
    BY <1>3, <1>4, <2>2, BeginsWithLess
<1> HIDE DEF w, q
<1>6. /\ w \o q \in String /\ Len(w \o q) = Len(w) + Len(q)
      /\ \A k \in 1 .. Len(q) : (w \o q)[Len(w) + k] = q[k]
  BY <1>1, <1>3, Appended
<1>7. Len(Quoted(s)) = Len(w) + 1 /\ Quoted(s)[Len(w) + 1] = 34
  BY <1>3, <1>4, <1>6
<1>8. Len(w) + 1 \in 1 .. Len(Quoted(s))
  BY <1>1, <1>7
<1>9. At(Quoted(s), Len(w) + 1) = 34
  BY <1>4, <1>6, <1>7, <1>8, ByteInside
<1>10. QED
  BY <1>2, <1>4, <1>5, <1>6, <1>7, <1>9 DEF w
\* A character of s is in the literal where the characters before it end.
LEMMA CharInQuoted ==
  ASSUME NEW s \in String, utf8_validate(s), NEW k \in 1 .. Len(s),
         ValidPlace(s)[k - 1] <= Len(s)
  PROVE  LET b == Escaped(s, ValidPlace(s)[k - 1]).b
             m == Len(Emitted(s, k - 1))
         IN  Holds(Quoted(s), m + 1, b) /\ Len(Emitted(s, k)) = m + Len(b)
<1> DEFINE i == ValidPlace(s)[k - 1]
           b == Escaped(s, i).b
           v == Emitted(s, k - 1)
           w == Emitted(s, k)
           t == Quoted(s)
           m == Len(v)
<1>1. k - 1 \in 0 .. Len(s) /\ k \in 0 .. Len(s)
  OBVIOUS
<1>2. i \in 1 .. Len(s) /\ utf8_validate_cz(s, i) # 0
  <2>1. i \in 1 .. Len(s) /\ utf8_validate_cz(s, i) \in 1 .. 4
    BY <1>1, NeverStuck
  <2>2. QED
    BY <2>1
<1>3. b \in String
  BY <1>2, EscapedBytes
<1>4. v \in String /\ w = v \o b
  BY <1>1, EmittedText, EmittedRound
<1>5. Begins(w, t)
  BY <1>1, QuotedText
<1> HIDE DEF b, v, w, t
<1>6. /\ w \in String /\ Len(w) = m + Len(b) /\ m \in Nat /\ Len(b) \in Nat
      /\ \A x \in 1 .. Len(b) : w[m + x] = b[x]
  BY <1>3, <1>4, Appended, StringLength
<1>7. t \in String /\ Len(w) <= Len(t) /\ Len(t) \in Nat /\ \A x \in 1 .. Len(w) : t[x] = w[x]
  BY <1>5, StringLength DEF Begins
<1> HIDE DEF m
<1>8. ASSUME NEW x \in 1 .. Len(b) PROVE At(t, m + 1 + x - 1) = b[x]
  <2>1. m + 1 + x - 1 = m + x /\ m + x \in 1 .. Len(w) /\ m + x \in 1 .. Len(t)
    BY <1>6, <1>7
  <2>2. At(t, m + x) = t[m + x]
    BY <1>7, <2>1, ByteInside
  <2>3. QED
    BY <1>6, <1>7, <2>1, <2>2
<1>9. Holds(t, m + 1, b)
  BY <1>8 DEF Holds
<1>10. QED
  BY <1>6, <1>9 DEF b, v, w, t, m

\* What is written of a character is at least as long as the character.
LEMMA NotShortened ==
  ASSUME NEW s \in String, NEW i \in 1 .. Len(s), utf8_validate_cz(s, i) # 0
  PROVE  Len(Escaped(s, i).b) >= utf8_validate_cz(s, i)
<1> DEFINE b == Escaped(s, i).b
           z == utf8_validate_cz(s, i)
<1>1. ShortForm(s, i, b) \/ HexForm(s, i, b) \/ DirectForm(s, i, b)
  BY EscapedForms
<1>2. Len(b) \in 1 .. 6
  BY EscapedBytes
<1> HIDE DEF b
<1>3. CASE z = 1
  <2>1. Len(b) >= 1
    BY <1>2
  <2>2. Len(b) >= z
    BY <1>3, <2>1
  <2>3. QED
    BY <2>2 DEF b
<1>4. CASE z # 1
  <2>1. b = Piece(s, i, z)
    BY <1>1, <1>4 DEF ShortForm, HexForm, DirectForm
  <2>2. PICK n \in 1 .. 4 : n = z /\ i + n - 1 <= Len(s)
    BY ValidateCzShape
  <2>3. i \in Nat \ {0}
    BY StringLength
  <2>4. Len(b) = n
    BY <2>1, <2>2, <2>3, PieceBytes
  <2>5. QED
    BY <2>2, <2>4 DEF b
<1>5. QED
  BY <1>3, <1>4

LEMMA QuotedIsLong ==
  ASSUME NEW s \in String, utf8_validate(s), NEW k \in 0 .. Len(s)
  PROVE  Len(Emitted(s, k)) \in Nat /\ Len(Emitted(s, k)) >= ValidPlace(s)[k]
<1> DEFINE n == Len(s)
           len(m) == Len(Emitted(s, m))
           at == ValidPlace(s)
           Off == {m \in 0 .. n : ~(len(m) >= at[m])}
<1>1. n \in Nat
  BY StringLength
<1>2. \A m \in 0 .. n : len(m) \in Nat
  BY EmittedText, StringLength
<1>3. len(0) = 1 /\ at[0] = 1
  BY EmittedStart, Quote, ValidPlaceLoop
<1>4. SUFFICES ASSUME Off # {} PROVE FALSE
  BY <1>2
<1>5. PICK m \in Off : \A l \in Off : m <= l
  <2>1. Off \subseteq Nat
    BY <1>1
  <2> HIDE DEF Off
  <2>2. QED
    BY <1>4, <2>1, LeastNatural
<1>6. m \in 1 .. n /\ m - 1 \in 0 .. n
  <2>1. len(0) >= at[0]
    <3> HIDE DEF len, at
    <3>1. QED
      BY <1>3
  <2>2. m \in 0 .. n /\ ~(len(m) >= at[m])
    OBVIOUS
  <2> HIDE DEF len, at, Off
  <2>3. m # 0
    BY <2>1, <2>2
  <2>4. QED
    BY <1>1, <2>2, <2>3
<1>7. len(m - 1) >= at[m - 1]
  BY <1>5, <1>6
<1>8. at[m] = PlaceAfter(s, at[m - 1]) /\ at[m - 1] \in Nat
  BY <1>6, ValidPlaceLoop
<1>9. len(m) \in Nat /\ len(m - 1) \in Nat
  BY <1>2, <1>6
<1>10. CASE at[m - 1] > n
  <2>1. at[m] = at[m - 1]
    BY <1>8, <1>10 DEF PlaceAfter
  <2>2. len(m) = len(m - 1)
    BY <1>6, <1>10, EmittedRound
  <2>3. QED
    BY <1>7, <2>1, <2>2
<1>11. CASE at[m - 1] <= n
  <2> DEFINE i == at[m - 1]
             b == Escaped(s, i).b
             z == utf8_validate_cz(s, i)
  <2>1. at[m] = i + z
    BY <1>1, <1>8, <1>11 DEF PlaceAfter
  <2>2. len(m) = len(m - 1) + Len(b)
    BY <1>6, <1>11, CharInQuoted
  <2>3. i \in 1 .. n /\ z \in 1 .. 4
    BY <1>6, <1>11, NeverStuck
  <2>4. z # 0
    BY <2>3
  <2>5. Len(b) >= z /\ Len(b) \in 1 .. 6
    BY <2>3, <2>4, NotShortened, EscapedBytes
  <2>6. ~(len(m) >= at[m])
    OBVIOUS
  <2> HIDE DEF z, b, i, len, at
  <2>7. at[m - 1] = i
    BY DEF i
  <2>8. PICK x \in 1 .. 6, y \in 1 .. 4 : x = Len(b) /\ y = z
    BY <2>3, <2>5
  <2>9. len(m - 1) + x >= i + y
    BY <1>7, <1>8, <1>9, <2>5, <2>7, <2>8
  <2>10. QED
    BY <2>1, <2>2, <2>6, <2>8, <2>9
<1>12. QED
  BY <1>1, <1>8, <1>10, <1>11

\* The start of s that is read.
Taken(s, i) == SubSeq(s, 1, i - 1)

LEMMA TakenNext ==
  ASSUME NEW s \in String, NEW i \in 1 .. Len(s), NEW n \in 1 .. 4, i + n - 1 <= Len(s)
  PROVE  Taken(s, i) \o Piece(s, i, n) = Taken(s, i + n)
<1> DEFINE m == i + n - 1
<1>1. s \in Seq(Byte) /\ Len(s) \in Nat
  BY StringLength DEF String
<1>2. /\ 1 \in 1 .. Len(s) + 1 /\ i - 1 \in 1 - 1 .. Len(s) /\ m \in i - 1 .. Len(s)
      /\ (i - 1) + 1 = i /\ (i + n) - 1 = m
  BY <1>1
<1> HIDE DEF m
<1>3. SubSeq(s, 1, i - 1) \o SubSeq(s, (i - 1) + 1, m) = SubSeq(s, 1, m)
  BY <1>1, <1>2, ConcatAdjacentSubSeq
<1>4. QED
  BY <1>2, <1>3 DEF Taken, Piece, m
-----------------------------------------------------------------------------
(* parse_string reads back what emit_string wrote: the literal. *)

\* The loop of parse_string, on the literal of s.
Read(s, k) == StringLoop(Quoted(s), 1, TRUE)[k]

\* Where parse_string is in the literal, and what it has read, when it has read
\* k characters of s.
InStep(s, k) == /\ Read(s, k).pos = Len(Emitted(s, k)) + 1
                /\ Read(s, k).sb.bytes = Taken(s, ValidPlace(s)[k])

LEMMA InStepAtStart ==
  ASSUME NEW s \in String, utf8_validate(s)
  PROVE  InStep(s, 0)
<1> DEFINE t == Quoted(s)
<1>1. t \in String /\ 1 \in Nat \ {0} /\ TRUE \in BOOLEAN
  BY QuotedText
<1> HIDE DEF t
<1>2. StringLoop(t, 1, TRUE)[0] = [pos |-> 1 + 1, sb |-> sb_need(sb_init, 4)]
  BY <1>1, StringLoopKeeps
<1>3. sb_need(sb_init, 4).bytes = <<>>
  BY InitialBuffer, NeedMakesRoom
<1> DEFINE l == StringLoop(t, 1, TRUE)[0]
           sb == sb_need(sb_init, 4)
<1> HIDE DEF l, sb
<1>a. l = [pos |-> 1 + 1, sb |-> sb]
  BY <1>2 DEF l, sb
<1>b. l.pos = 2 /\ l.sb = sb
  BY <1>a
<1>c. Read(s, 0) = l
  BY DEF Read, t, l
<1>4. Read(s, 0).pos = 2 /\ Read(s, 0).sb.bytes = <<>>
  BY <1>3, <1>b, <1>c DEF sb
<1>5. ValidPlace(s)[0] = 1
  BY ValidPlaceLoop
<1>6. Taken(s, 1) = <<>>
  BY SubSeqEmpty DEF Taken
<1>7. Len(Emitted(s, 0)) = 1
  BY EmittedStart, Quote
<1>8. Len(Emitted(s, 0)) + 1 = 2
  <2>1. PICK x \in 1 .. 1 : x = Len(Emitted(s, 0))
    BY <1>7
  <2>2. x + 1 = 2
    OBVIOUS
  <2>3. QED
    BY <2>1, <2>2
<1>9. Taken(s, ValidPlace(s)[0]) = <<>>
  BY <1>5, <1>6
<1>10. QED
  BY <1>4, <1>8, <1>9, Zenon DEF InStep

\* The literal is longer than s, so that as many rounds are counted.
LEMMA RoundsOfQuoted ==
  ASSUME NEW s \in String, utf8_validate(s)
  PROVE  /\ Quoted(s) \in String /\ Len(Quoted(s)) \in Nat /\ Len(Quoted(s)) > Len(s)
         /\ \A k \in 0 .. Len(Quoted(s)) : Read(s, k) \in Cursors
         /\ \A k \in 1 .. Len(Quoted(s)) :
              Read(s, k) = StringRound(Quoted(s), Read(s, k - 1), TRUE)
<1> DEFINE t == Quoted(s)
           n == Len(s)
<1>1. /\ t \in String /\ Len(t) = Len(Emitted(s, n)) + 1 /\ 1 \in Nat \ {0} /\ TRUE \in BOOLEAN
  BY QuotedText
<1>2. n \in Nat /\ n \in 0 .. n
  BY StringLength
<1>3. Len(Emitted(s, n)) \in Nat /\ Len(Emitted(s, n)) >= ValidPlace(s)[n]
  BY <1>2, QuotedIsLong
<1>4. ValidPlace(s)[n] \in Nat /\ ValidPlace(s)[n] > n
  BY <1>2, PlacesGrow DEF utf8_validate
<1>5. Len(t) \in Nat /\ Len(t) > n
  BY <1>1, <1>2, <1>3, <1>4
<1> HIDE DEF t
<1>6. \A k \in 0 .. Len(t) : StringLoop(t, 1, TRUE)[k] \in Cursors
  BY <1>1, StringLoopKeeps
<1>7. \A k \in 1 .. Len(t) :
        StringLoop(t, 1, TRUE)[k] = StringRound(t, StringLoop(t, 1, TRUE)[k - 1], TRUE)
  BY <1>1, StringLoopKeeps
<1>8. QED
  BY <1>1, <1>5, <1>6, <1>7 DEF Read, t

\* A character that is not U+001F keeps parse_string in step.
LEMMA InStepRound ==
  ASSUME NEW s \in String, utf8_validate(s), NEW k \in 1 .. Len(s), InStep(s, k - 1),
         ValidPlace(s)[k - 1] <= Len(s), At(s, ValidPlace(s)[k - 1]) # 31
  PROVE  InStep(s, k)
<1> DEFINE t == Quoted(s)
           i == ValidPlace(s)[k - 1]
           z == utf8_validate_cz(s, i)
           b == Escaped(s, i).b
           l == Read(s, k - 1)
           m == Len(Emitted(s, k - 1))
           u == CharAt(t, l.pos)
<1>1. k - 1 \in 0 .. Len(s) /\ k \in 0 .. Len(s)
  OBVIOUS
<1>2. i \in 1 .. Len(s) /\ z \in 1 .. 4
  BY <1>1, NeverStuck
<1>3. z # 0
  BY <1>2
<1>4. /\ t \in String /\ k \in 1 .. Len(t) /\ k - 1 \in 0 .. Len(t)
      /\ l \in Cursors /\ Read(s, k) = StringRound(t, l, TRUE)
  <2>1. /\ t \in String /\ Len(t) \in Nat /\ Len(t) > Len(s) /\ Len(s) \in Nat
    BY RoundsOfQuoted, StringLength
  <2>2. k \in 1 .. Len(t) /\ k - 1 \in 0 .. Len(t)
    BY <2>1
  <2>3. QED
    BY <2>1, <2>2, RoundsOfQuoted
<1>5. Holds(t, m + 1, b) /\ Len(Emitted(s, k)) = m + Len(b)
  BY CharInQuoted
<1>6. m \in Nat /\ m + 1 \in Nat \ {0}
  BY <1>1, QuotedIsLong
<1>7. l.pos = m + 1 /\ l.sb.bytes = Taken(s, i)
  BY DEF InStep
<1>8. Len(b) \in 1 .. 6 /\ b \in String
  BY <1>2, <1>3, EscapedBytes
<1>9. CharAt(t, m + 1) = Unit(Len(b), Piece(s, i, z)) /\ At(t, m + 1) # 34
  BY <1>2, <1>3, <1>4, <1>5, <1>6, ReadBack
<1>10. u.n = Len(b) /\ u.b = Piece(s, i, z) /\ At(t, l.pos) # 34
  BY <1>7, <1>9 DEF Unit
<1>11. u.n # 0
  <2>1. Len(b) # 0
    <3>1. PICK x \in 1 .. 6 : x = Len(b)
      BY <1>8
    <3>2. x # 0
      OBVIOUS
    <3>3. QED
      BY <3>1, <3>2
  <2> HIDE DEF u, b
  <2>2. QED
    BY <1>10, <2>1
<1>12. Read(s, k).pos = l.pos + u.n /\ Read(s, k).sb.bytes = l.sb.bytes \o u.b
  <2>1. TRUE \in BOOLEAN
    OBVIOUS
  <2> HIDE DEF t, l
  <2>2. QED
    BY <1>4, <1>10, <1>11, <2>1, StringRoundKeeps
<1>13. ValidPlace(s)[k] = i + z
  <2>1. ValidPlace(s)[k] = PlaceAfter(s, i)
    BY ValidPlaceLoop
  <2>2. Len(s) \in Nat /\ i \in Nat
    BY <1>2, StringLength
  <2>3. QED
    BY <2>1, <2>2 DEF PlaceAfter
<1>14. Taken(s, i) \o Piece(s, i, z) = Taken(s, i + z)
  <2>1. PICK n \in 1 .. 4 : n = z /\ i + n - 1 <= Len(s)
    BY <1>2, <1>3, ValidateCzShape
  <2>2. QED
    BY <1>2, <2>1, TakenNext
<1> HIDE DEF t, i, z, b, l, m, u
<1>15. Read(s, k).pos = Len(Emitted(s, k)) + 1
  <2>1. PICK x \in 1 .. 6 : x = Len(b)
    BY <1>8
  <2>2. QED
    BY <1>5, <1>6, <1>7, <1>10, <1>12, <2>1
<1>16. Read(s, k).sb.bytes = Taken(s, ValidPlace(s)[k])
  BY <1>7, <1>10, <1>12, <1>13, <1>14
<1>17. QED
  BY <1>15, <1>16 DEF InStep
LEMMA InStepUpTo ==
  ASSUME NEW s \in String, utf8_validate(s), NEW n \in 0 .. Len(s),
         \A k \in 0 .. n - 1 : ValidPlace(s)[k] <= Len(s) /\ At(s, ValidPlace(s)[k]) # 31
  PROVE  InStep(s, n)
<1> DEFINE Off == {k \in 0 .. n : ~InStep(s, k)}
<1>1. n \in Nat /\ Len(s) \in Nat
  BY StringLength
<1>2. SUFFICES ASSUME Off # {} PROVE FALSE
  BY <1>1
<1>3. PICK m \in Off : \A l \in Off : m <= l
  <2>1. Off \subseteq Nat
    BY <1>1
  <2> HIDE DEF Off
  <2>2. QED
    BY <1>2, <2>1, LeastNatural
<1>4. m # 0
  BY InStepAtStart
<1>5. m \in 1 .. Len(s) /\ m - 1 \in 0 .. n /\ m - 1 \in 0 .. n - 1 /\ ~(m <= m - 1)
  BY <1>1, <1>4
<1>6. InStep(s, m - 1)
  BY <1>3, <1>5
<1>7. ValidPlace(s)[m - 1] <= Len(s) /\ At(s, ValidPlace(s)[m - 1]) # 31
  BY <1>5
<1>8. InStep(s, m)
  BY <1>5, <1>6, <1>7, InStepRound
<1>9. QED
  BY <1>8

\* Where the loop of parse_string ends, it stays, and parse_string answers.
LEMMA ReadEnds ==
  ASSUME NEW s \in String, utf8_validate(s), NEW k \in 0 .. Len(s),
         AtEnd(Quoted(s), Read(s, k))
  PROVE  parse_string(Quoted(s), 1, TRUE) = StringEnd(Quoted(s), Read(s, k), TRUE)
<1> DEFINE t == Quoted(s)
           n == Len(t)
           f == [m \in 0 .. n |-> Read(s, m)]
<1>1. /\ t \in String /\ n \in Nat /\ n > Len(s) /\ Len(s) \in Nat
      /\ \A m \in 0 .. n : Read(s, m) \in Cursors
      /\ \A m \in 1 .. n : Read(s, m) = StringRound(t, Read(s, m - 1), TRUE)
  BY RoundsOfQuoted, StringLength
<1>2. k \in 0 .. n /\ n \in k .. n /\ n \in 0 .. n
  BY <1>1
<1>3. StringRound(t, Read(s, k), TRUE) = Read(s, k)
  BY DEF StringRound, AtEnd
<1> HIDE DEF n
<1>4. \A m \in 1 .. n : m - 1 \in 0 .. n /\ m \in 0 .. n
  BY <1>1
<1>5. \A m \in 1 .. n : f[m - 1] = f[k] => f[m] = f[k]
  BY <1>1, <1>2, <1>3, <1>4
<1>6. f[n] = f[k]
  <2> HIDE DEF f
  <2>1. \A m \in k .. n : f[m] = f[k]
    BY <1>1, <1>2, <1>5, LoopStops
  <2>2. QED
    BY <1>2, <2>1
<1>7. Read(s, n) = Read(s, k)
  BY <1>2, <1>6
<1>8. At(t, 1) = 34
  <2>1. 0 \in 0 .. Len(s)
    BY <1>1
  <2>2. Begins(Emitted(s, 0), t)
    BY <2>1, QuotedText
  <2>3. Emitted(s, 0) = <<34>>
    BY EmittedStart
  <2> DEFINE q == <<34>>
  <2>4. Len(q) = 1 /\ q[1] = 34
    BY Quote
  <2>5. Begins(q, t)
    BY <2>2, <2>3
  <2> HIDE DEF q, t
  <2>6. 1 <= Len(t) /\ t[1] = 34
    BY <2>4, <2>5 DEF Begins
  <2>7. 1 \in 1 .. Len(t)
    BY <1>1, <2>6 DEF n
  <2>8. QED
    BY <1>1, <2>6, <2>7, ByteInside
<1>9. parse_string(t, 1, TRUE) = StringEnd(t, StringLoop(t, 1, TRUE)[Len(t)], TRUE)
  BY <1>8 DEF parse_string
<1>10. QED
  BY <1>7, <1>9 DEF Read, n

\* The places do not go further than behind the last byte.
LEMMA PlacesInside ==
  ASSUME NEW s \in String, NEW k \in 0 .. Len(s)
  PROVE  ValidPlace(s)[k] \in 1 .. Len(s) + 1
<1> DEFINE n == Len(s)
           at == ValidPlace(s)
           Q == 1 .. n + 1
<1>1. n \in Nat
  BY StringLength
<1>2. at[0] = 1 /\ \A m \in 1 .. n : at[m] = PlaceAfter(s, at[m - 1])
  BY ValidPlaceLoop
<1>3. ASSUME NEW i \in Q PROVE PlaceAfter(s, i) \in Q
  <2>1. CASE i > n \/ utf8_validate_cz(s, i) = 0
    BY <1>1, <2>1 DEF PlaceAfter
  <2>2. CASE ~(i > n) /\ utf8_validate_cz(s, i) # 0
    <3>1. i \in 1 .. Len(s)
      BY <1>1, <2>2
    <3>2. PICK z \in 1 .. 4 : z = utf8_validate_cz(s, i) /\ i + z - 1 <= Len(s)
      BY <2>2, <3>1, ValidateCzShape
    <3>3. PlaceAfter(s, i) = i + z
      BY <2>2, <3>2 DEF PlaceAfter
    <3>4. QED
      BY <1>1, <3>2, <3>3
  <2>3. QED
    BY <2>1, <2>2
<1> HIDE DEF at
<1>4. at[0] \in Q
  BY <1>1, <1>2
<1>5. \A m \in 1 .. n : at[m - 1] \in Q => at[m] \in Q
  BY <1>2, <1>3
<1> HIDE DEF Q, n
<1>6. \A m \in 0 .. n : at[m] \in Q
  BY <1>1, <1>4, <1>5, LoopInvariant
<1>7. QED
  BY <1>6 DEF at, Q, n

\* Behind the last character nothing is written.
LEMMA EmittedEnds ==
  ASSUME NEW s \in String, utf8_validate(s), NEW k \in 0 .. Len(s), ValidPlace(s)[k] > Len(s)
  PROVE  Emitted(s, Len(s)) = Emitted(s, k)
<1> DEFINE n == Len(s)
           at == ValidPlace(s)
           f == [m \in 0 .. n |-> <<at[m], Emitted(s, m)>>]
<1>1. n \in Nat /\ n \in 0 .. n /\ n \in k .. n
  BY StringLength
<1>2. ASSUME NEW m \in 1 .. n, f[m - 1] = f[k] PROVE f[m] = f[k]
  <2>1. m - 1 \in 0 .. n /\ m \in 0 .. n
    BY <1>1
  <2>2. at[m - 1] = at[k] /\ Emitted(s, m - 1) = Emitted(s, k)
    BY <1>2, <2>1
  <2>3. at[m] = PlaceAfter(s, at[m - 1])
    BY ValidPlaceLoop
  <2>4. at[m] = at[k]
    BY <2>2, <2>3 DEF PlaceAfter
  <2>5. Emitted(s, m) = Emitted(s, m - 1)
    BY <2>2, EmittedRound
  <2>6. QED
    BY <2>1, <2>2, <2>4, <2>5
<1>3. f[n] = f[k]
  <2>1. \A m \in 1 .. n : f[m - 1] = f[k] => f[m] = f[k]
    BY <1>2
  <2> HIDE DEF f, n
  <2>2. k \in 0 .. n
    BY DEF n
  <2>3. \A m \in k .. n : f[m] = f[k]
    BY <1>1, <2>1, <2>2, LoopStops
  <2>4. QED
    BY <1>1, <2>3
<1>4. QED
  BY <1>1, <1>3

\* Without U+001F the whole literal is read, and what is read is s.
LEMMA ReadWhole ==
  ASSUME NEW s \in String, utf8_validate(s),
         \A k \in 0 .. Len(s) :
           ValidPlace(s)[k] <= Len(s) => At(s, ValidPlace(s)[k]) # 31
  PROVE  LET p == parse_string(Quoted(s), 1, TRUE)
         IN  p.ok /\ p.val.s = s /\ p.pos = Len(Quoted(s)) + 1
<1> DEFINE t == Quoted(s)
           n == Len(s)
           at == ValidPlace(s)
           Done == {k \in 0 .. n : at[k] > n}
<1>1. n \in Nat /\ n \in 0 .. n /\ \A k \in 0 .. n : at[k] \in Nat
  BY StringLength, PlacesGrow
<1>2. n \in Done
  BY <1>1 DEF utf8_validate
<1>3. PICK k \in Done : \A l \in Done : k <= l
  <2>1. Done \subseteq Nat
    BY <1>1
  <2> HIDE DEF Done
  <2>2. QED
    BY <1>2, <2>1, LeastNatural
<1>4. k \in 0 .. n /\ at[k] > n
  OBVIOUS
<1>5. \A m \in 0 .. k - 1 : at[m] <= n
  <2>1. SUFFICES ASSUME NEW m \in 0 .. k - 1 PROVE at[m] <= n
    OBVIOUS
  <2>2. m \in 0 .. n /\ ~(k <= m)
    BY <1>1, <1>4
  <2>3. at[m] \in Nat /\ ~(at[m] > n)
    BY <1>1, <1>3, <2>2
  <2>4. QED
    BY <1>1, <2>3
<1>6. \A m \in 0 .. k - 1 : m \in 0 .. n
  BY <1>1, <1>4
<1>7. InStep(s, k)
  <2>1. \A m \in 0 .. k - 1 : at[m] <= n /\ At(s, at[m]) # 31
    BY <1>5, <1>6
  <2>2. QED
    BY <1>4, <2>1, InStepUpTo
<1>8. Emitted(s, n) = Emitted(s, k)
  BY <1>4, EmittedEnds
<1> DEFINE l == Read(s, k)
           w == Len(Emitted(s, n))
<1>9. /\ Len(t) = w + 1 /\ At(t, w + 1) = 34 /\ w \in Nat
  <2>1. w \in Nat
    BY <1>1, QuotedIsLong
  <2>2. QED
    BY <2>1, QuotedText
<1>10. l.pos = w + 1 /\ l.sb.bytes = Taken(s, at[k])
  BY <1>7, <1>8 DEF InStep
<1>11. AtEnd(t, l)
  BY <1>9, <1>10 DEF AtEnd
<1>12. parse_string(t, 1, TRUE) = StringEnd(t, l, TRUE)
  BY <1>4, <1>11, ReadEnds
<1>13. at[k] = n + 1
  BY <1>4, PlacesInside
<1>14. Taken(s, n + 1) = s
  <2>1. s \in Seq(Byte) /\ (n + 1) - 1 = n
    BY <1>1 DEF String
  <2>2. SubSeq(s, 1, n) = s
    BY <2>1, SubSeqFull
  <2>3. QED
    BY <2>1, <2>2 DEF Taken
<1> DEFINE p == parse_string(t, 1, TRUE)
<1> HIDE DEF t, l, at, w
<1>15. p = Parsed(l.pos + 1, Value("string", l.sb.bytes), 1, l.sb.over)
  BY <1>9, <1>10, <1>12 DEF StringEnd
<1> HIDE DEF p
<1>16. p.ok = TRUE /\ p.val.s = l.sb.bytes /\ p.pos = l.pos + 1
  BY <1>15 DEF Parsed, Value
<1>17. p.ok /\ p.val.s = s /\ p.pos = Len(t) + 1
  BY <1>9, <1>10, <1>13, <1>14, <1>16
<1>18. QED
  BY <1>17 DEF p, t

\* U+001F is written as it is, and the literal is refused.
LEMMA ReadFails ==
  ASSUME NEW s \in String, utf8_validate(s), NEW k \in 0 .. Len(s),
         ValidPlace(s)[k] <= Len(s), At(s, ValidPlace(s)[k]) = 31,
         \A m \in 0 .. k - 1 : ValidPlace(s)[m] <= Len(s) /\ At(s, ValidPlace(s)[m]) # 31
  PROVE  ~parse_string(Quoted(s), 1, TRUE).ok
<1> DEFINE t == Quoted(s)
           i == ValidPlace(s)[k]
           l == Read(s, k)
           w == Len(Emitted(s, k))
<1>1. InStep(s, k)
  BY InStepUpTo
<1>2. l.pos = w + 1
  BY <1>1 DEF InStep
<1>3. i \in 1 .. Len(s) /\ utf8_validate_cz(s, i) # 0
  <2>1. i \in 1 .. Len(s) /\ utf8_validate_cz(s, i) \in 1 .. 4
    BY NeverStuck
  <2>2. QED
    BY <2>1
<1>4. k + 1 \in 1 .. Len(s) /\ (k + 1) - 1 = k
  <2>1. Len(s) \in Nat /\ Len(s) \in 0 .. Len(s)
    BY StringLength
  <2>2. k # Len(s)
    <3>1. ValidPlace(s)[Len(s)] > Len(s) /\ ValidPlace(s)[Len(s)] \in Nat
      BY <2>1, PlacesGrow DEF utf8_validate
    <3>2. QED
      BY <2>1, <3>1
  <2>3. QED
    BY <2>1, <2>2
<1>5. Holds(t, w + 1, Escaped(s, i).b)
  BY <1>4, CharInQuoted
<1>6. w + 1 \in Nat \ {0} /\ t \in String
  <2>1. w \in Nat
    BY QuotedIsLong
  <2>2. w + 1 \in Nat \ {0}
    BY <2>1
  <2>3. QED
    BY <2>2, QuotedText
<1>7. At(t, l.pos) # 34 /\ CharAt(t, l.pos).n = 0
  <2>1. At(t, w + 1) # 34 /\ CharAt(t, w + 1).n = 0
    BY <1>3, <1>5, <1>6, NotReadBack
  <2>2. QED
    BY <1>2, <2>1
<1>8. parse_string(t, 1, TRUE) = StringEnd(t, l, TRUE)
  BY <1>7, ReadEnds DEF AtEnd
<1> HIDE DEF t, l
<1>9. StringEnd(t, l, TRUE) = Failed(0, l.sb.over)
  BY <1>7 DEF StringEnd
<1> DEFINE p == parse_string(t, 1, TRUE)
<1> HIDE DEF p
<1>10. p = Failed(0, l.sb.over)
  BY <1>8, <1>9 DEF p
<1>11. p.ok = FALSE
  BY <1>10 DEF Failed
<1>12. QED
  BY <1>11 DEF p, t

\* If no character is U+001F no byte is 31.
LEMMA NoSuchByte ==
  ASSUME NEW s \in String, utf8_validate(s),
         \A k \in 0 .. Len(s) :
           ValidPlace(s)[k] <= Len(s) => At(s, ValidPlace(s)[k]) # 31
  PROVE  \A x \in 1 .. Len(s) : At(s, x) # 31
<1> DEFINE n == Len(s)
           at == ValidPlace(s)
           Clean(i) == \A x \in 1 .. i - 1 : At(s, x) # 31
           Off == {k \in 0 .. n : ~Clean(at[k])}
<1>1. n \in Nat /\ n \in 0 .. n
  BY StringLength
<1>2. CASE Off = {}
  <2>1. at[n] = n + 1
    BY <1>1, PlacesInside DEF utf8_validate
  <2>2. Clean(n + 1)
    BY <1>1, <1>2, <2>1
  <2>3. QED
    BY <1>1, <2>2
<1>3. CASE Off # {}
  <2>1. PICK k \in Off : \A m \in Off : k <= m
    <3>1. Off \subseteq Nat
      BY <1>1
    <3> HIDE DEF Off
    <3>2. QED
      BY <1>3, <3>1, LeastNatural
  <2>2. k # 0
    <3>1. at[0] = 1
      BY ValidPlaceLoop
    <3>2. Clean(1)
      OBVIOUS
    <3>3. QED
      BY <3>1, <3>2
  <2>3. k \in 1 .. n /\ k - 1 \in 0 .. n /\ ~(k <= k - 1)
    BY <1>1, <2>2
  <2> DEFINE i == at[k - 1]
  <2>4. Clean(i)
    BY <2>1, <2>3
  <2>5. ~Clean(at[k])
    OBVIOUS
  <2>6. at[k] = PlaceAfter(s, i) /\ i \in 1 .. n + 1
    BY <2>3, ValidPlaceLoop, PlacesInside
  <2>7. i <= n /\ At(s, i) # 31
    <3>1. i <= n
      BY <1>1, <2>4, <2>5, <2>6 DEF PlaceAfter
    <3>2. QED
      BY <2>3, <3>1
  <2>8. i \in 1 .. Len(s) /\ utf8_validate_cz(s, i) \in 1 .. 4
    BY <2>3, <2>7, NeverStuck
  <2>9. utf8_validate_cz(s, i) # 0
    BY <2>8
  <2>10. PICK z \in 1 .. 4 : /\ z = utf8_validate_cz(s, i)
                              /\ \A x \in i + 1 .. i + z - 1 : At(s, x) \in 128 .. 191
    BY <2>8, <2>9, ValidateCzShape
  <2>11. at[k] = i + z
    BY <1>1, <2>6, <2>7, <2>10 DEF PlaceAfter
  <2> HIDE DEF i
  <2>12. ASSUME NEW x \in 1 .. (i + z) - 1 PROVE At(s, x) # 31
    <3>1. CASE x <= i - 1
      <4>1. x \in 1 .. i - 1
        BY <2>8, <3>1
      <4>2. QED
        BY <2>4, <4>1
    <3>2. CASE x = i
      BY <2>7, <3>2
    <3>3. CASE x > i
      <4>1. x \in i + 1 .. i + z - 1
        BY <2>8, <3>3
      <4>2. PICK e \in 128 .. 191 : e = At(s, x)
        BY <2>10, <4>1
      <4>3. e # 31
        OBVIOUS
      <4>4. QED
        BY <4>2, <4>3
    <3>4. QED
      BY <2>8, <3>1, <3>2, <3>3
  <2>13. Clean(i + z)
    BY <2>12
  <2> HIDE DEF Clean
  <2>14. QED
    BY <2>5, <2>11, <2>13
<1>4. QED
  BY <1>2, <1>3
LEMMA PlacesInOrder ==
  ASSUME NEW s \in String, NEW k \in 0 .. Len(s), NEW m \in 0 .. k
  PROVE  ValidPlace(s)[m] <= ValidPlace(s)[k]
<1> DEFINE n == Len(s)
           at == ValidPlace(s)
           Off == {j \in m .. n : ~(at[m] <= at[j])}
<1>1. n \in Nat /\ k \in m .. n /\ m \in 0 .. n
  BY StringLength
<1>2. /\ \A j \in 0 .. n : at[j] \in Nat
      /\ \A j \in 1 .. n : at[j - 1] <= at[j]
  BY PlacesGrow
<1> HIDE DEF n, at
<1>3. CASE Off = {}
  BY <1>1, <1>3 DEF at
<1>4. CASE Off # {}
  <2>1. PICK j \in Off : \A l \in Off : j <= l
    <3>1. Off \subseteq Nat
      BY <1>1
    <3> HIDE DEF Off
    <3>2. QED
      BY <1>4, <3>1, LeastNatural
  <2>2. j # m
    BY <1>1, <1>2
  <2>3. j \in 1 .. n /\ j - 1 \in m .. n /\ j - 1 \in 0 .. n /\ j \in 0 .. n /\ ~(j <= j - 1)
    BY <1>1, <2>2
  <2>4. at[m] <= at[j - 1]
    BY <2>1, <2>3
  <2>5. at[m] <= at[j]
    BY <1>1, <1>2, <2>3, <2>4
  <2>6. QED
    BY <2>5
<1>5. QED
  BY <1>3, <1>4

\* For every text that is UTF-8, of whatever length: the literal that emit_string
\* writes is one that parse_string reads, to its end, as the same text, if and
\* only if there is no U+001F in it, which emit_string writes as it is (line 1180
\* compares with < 0x1F) and parse_string refuses (json.c lines 793-906, 1106-1223).
THEOREM LiteralRoundTrip ==
  ASSUME NEW s \in String, utf8_validate(s)
  PROVE  ReadsBack(s)
<1> DEFINE n == Len(s)
           at == ValidPlace(s)
           t == Quoted(s)
           p == parse_string(t, 1, TRUE)
           Found == {k \in 0 .. n : at[k] <= n /\ At(s, at[k]) = 31}
<1>1. json_encode_string(s).bytes = t
  BY QuotedText
<1>2. n \in Nat /\ DOMAIN s = 1 .. n /\ \A i \in 1 .. n : s[i] = At(s, i)
  BY StringLength, ByteInside
<1>3. SUFFICES (\A i \in 1 .. n : At(s, i) # 31) <=> IsLiteralOf(p, s, Len(t) + 1)
  BY <1>1, <1>2 DEF ReadsBack
<1>4. CASE Found = {}
  <2>1. \A k \in 0 .. n : at[k] <= n => At(s, at[k]) # 31
    BY <1>4
  <2>2. \A i \in 1 .. n : At(s, i) # 31
    BY <2>1, NoSuchByte
  <2>3. p.ok /\ p.val.s = s /\ p.pos = Len(t) + 1
    BY <2>1, ReadWhole
  <2>4. QED
    BY <2>2, <2>3 DEF IsLiteralOf
<1>5. CASE Found # {}
  <2>1. PICK k \in Found : \A m \in Found : k <= m
    <3>1. Found \subseteq Nat
      BY <1>2
    <3> HIDE DEF Found
    <3>2. QED
      BY <1>5, <3>1, LeastNatural
  <2>2. k \in 0 .. n /\ at[k] <= n /\ At(s, at[k]) = 31
    OBVIOUS
  <2>3. at[k] \in 1 .. n
    BY <2>2, NeverStuck
  <2>4. ASSUME NEW m \in 0 .. k - 1 PROVE at[m] <= n /\ At(s, at[m]) # 31
    <3>1. m \in 0 .. n /\ m <= k /\ ~(k <= m)
      BY <1>2, <2>2
    <3>2. at[m] <= at[k]
      BY <2>2, <3>1, PlacesInOrder
    <3>3. at[m] \in Nat
      BY <3>1, PlacesGrow
    <3>4. at[m] <= n
      BY <1>2, <2>3, <3>2, <3>3
    <3>5. m \notin Found
      BY <2>1, <3>1
    <3>6. QED
      BY <3>1, <3>4, <3>5
  <2>5. ~p.ok
    BY <2>2, <2>4, ReadFails
  <2>6. ~(\A i \in 1 .. n : At(s, i) # 31)
    BY <2>2, <2>3
  <2>7. QED
    BY <2>5, <2>6 DEF IsLiteralOf
<1>6. QED
  BY <1>4, <1>5
-----------------------------------------------------------------------------
(* parse_value: scanning. *)

LEMMA BehindAllPlace ==
  ASSUME NEW t \in String, NEW i \in 1 .. Len(t) + 1, NEW cs, 0 \notin cs
  PROVE  LET j == BehindAll(t, i, cs)
         IN  /\ j \in i .. Len(t) + 1 /\ At(t, j) \notin cs
             /\ \A k \in i .. j - 1 : At(t, k) \in cs
<1> DEFINE n == Len(t)
           Outside == {j \in i .. n + 1 : At(t, j) \notin cs}
           P(j) == At(t, j) \notin cs /\ \A k \in i .. j - 1 : At(t, k) \in cs
<1>1. n \in Nat /\ i \in Nat /\ n + 1 \in i .. n + 1 /\ n + 1 \in Int /\ n + 1 \notin 1 .. n
  BY StringLength
<1>2. n + 1 \in Outside
  <2>1. At(t, n + 1) = 0
    BY <1>1, ByteAt
  <2>2. QED
    BY <1>1, <2>1
<1>3. PICK j \in Outside : \A k \in Outside : j <= k
  <2>1. Outside \subseteq Nat
    BY <1>1
  <2> HIDE DEF Outside
  <2>2. QED
    BY <1>2, <2>1, LeastNatural
<1>4. j \in i .. n + 1 /\ At(t, j) \notin cs
  OBVIOUS
<1>5. ASSUME NEW k \in i .. j - 1 PROVE At(t, k) \in cs
  <2>1. k \in i .. n + 1 /\ ~(j <= k)
    BY <1>1, <1>4
  <2>2. QED
    BY <1>3, <2>1
<1>6. P(j)
  BY <1>4, <1>5
<1> DEFINE b == BehindAll(t, i, cs)
<1>7. b \in i .. n + 1 /\ P(b)
  <2>1. b = CHOOSE x \in i .. n + 1 : P(x)
    BY DEF BehindAll
  <2> HIDE DEF P, b, n
  <2>2. QED
    BY <1>4, <1>6, <2>1
<1>8. QED
  BY <1>7

LEMMA SkipSpacePlace ==
  ASSUME NEW t \in String, NEW i \in 1 .. Len(t) + 1
  PROVE  skip_space(t, i) \in i .. Len(t) + 1
<1>1. 0 \notin Space
  BY DEF Space
<1>2. QED
  BY <1>1, BehindAllPlace DEF skip_space

LEMMA DigitsPlace ==
  ASSUME NEW t \in String, NEW i \in 1 .. Len(t) + 1
  PROVE  Digits(t, i) \in i .. Len(t) + 1
<1>1. 0 \notin 48 .. 57
  OBVIOUS
<1>2. QED
  BY <1>1, BehindAllPlace DEF Digits

\* A byte that is not 0 is in the text.
LEMMA NextPlace ==
  ASSUME NEW t \in String, NEW i \in 1 .. Len(t) + 1, At(t, i) # 0
  PROVE  i + 1 \in 1 .. Len(t) + 1
<1>1. i \in Int /\ Len(t) \in Nat
  BY StringLength
<1>2. i \in 1 .. Len(t)
  BY <1>1, ByteAt
<1>3. QED
  BY <1>1, <1>2

LEMMA IntegerEndPlace ==
  ASSUME NEW t \in String, NEW i \in 1 .. Len(t) + 1
  PROVE  IntegerEnd(t, i) \in i .. Len(t) + 1
<1>1. CASE At(t, i) = 48
  <2>1. i + 1 \in 1 .. Len(t) + 1
    <3>1. At(t, i) # 0
      BY <1>1
    <3>2. QED
      BY <3>1, NextPlace
  <2>2. IntegerEnd(t, i) = i + 1
    BY <1>1 DEF IntegerEnd
  <2>3. Len(t) \in Nat
    BY StringLength
  <2>4. QED
    BY <2>1, <2>2, <2>3
<1>2. CASE At(t, i) # 48
  BY <1>2, DigitsPlace DEF IntegerEnd
<1>3. QED
  BY <1>1, <1>2

LEMMA OptionalEndPlace ==
  ASSUME NEW t \in String, NEW i \in 1 .. Len(t) + 1, NEW opens \in BOOLEAN, NEW j,
         opens => j \in i .. Len(t) + 1
  PROVE  OptionalEnd(t, i, opens, j) = 0 \/ OptionalEnd(t, i, opens, j) \in i .. Len(t) + 1
<1>1. Len(t) \in Nat
  BY StringLength
<1>2. CASE ~opens
  BY <1>1, <1>2 DEF OptionalEnd
<1>3. CASE opens
  <2>1. j \in i .. Len(t) + 1 /\ j \in 1 .. Len(t) + 1
    BY <1>1, <1>3
  <2>2. Digits(t, j) \in j .. Len(t) + 1
    BY <2>1, DigitsPlace
  <2>3. Digits(t, j) \in i .. Len(t) + 1
    BY <1>1, <2>1, <2>2
  <2>4. QED
    BY <1>3, <2>3 DEF OptionalEnd
<1>4. QED
  BY <1>2, <1>3

\* A number has a byte at least.
LEMMA NumberPlace ==
  ASSUME NEW t \in String, NEW i \in 1 .. Len(t) + 1
  PROVE  parse_number(t, i) = 0 \/ parse_number(t, i) \in i + 1 .. Len(t) + 1
<1> DEFINE n == Len(t)
           a == IF At(t, i) = 45 THEN i + 1 ELSE i
           b == IntegerEnd(t, a)
           c == OptionalEnd(t, b, At(t, b) = 46, b + 1)
           sign == IF At(t, c + 1) \in {43, 45} THEN 1 ELSE 0
           d == OptionalEnd(t, c, At(t, c) \in {69, 101}, c + 1 + sign)
<1>1. n \in Nat
  BY StringLength
<1>2. a \in i .. n + 1 /\ a \in 1 .. n + 1
  <2>1. CASE At(t, i) = 45
    <3>1. At(t, i) # 0
      BY <2>1
    <3>2. i + 1 \in 1 .. n + 1
      BY <3>1, NextPlace
    <3>3. QED
      BY <1>1, <2>1, <3>2
  <2>2. CASE At(t, i) # 45
    BY <1>1, <2>2
  <2>3. QED
    BY <2>1, <2>2
<1>3. parse_number(t, i) = IF b = a \/ c = 0 THEN 0 ELSE d
  BY DEF parse_number
<1> HIDE DEF a
<1>4. b \in a .. n + 1 /\ b \in 1 .. n + 1
  <2>1. b \in a .. n + 1
    BY <1>2, IntegerEndPlace
  <2> HIDE DEF b
  <2>2. QED
    BY <1>1, <1>2, <2>1
<1> HIDE DEF b
<1>5. c = 0 \/ c \in b .. n + 1
  <2>1. ASSUME At(t, b) = 46 PROVE b + 1 \in b .. n + 1
    <3>1. At(t, b) # 0
      BY <2>1
    <3>2. b + 1 \in 1 .. n + 1
      BY <1>4, <3>1, NextPlace
    <3>3. QED
      BY <1>1, <1>4, <3>2
  <2>2. (At(t, b) = 46) \in BOOLEAN
    OBVIOUS
  <2>3. QED
    BY <1>4, <2>1, <2>2, OptionalEndPlace
<1> HIDE DEF c
<1>6. ASSUME c # 0 PROVE d = 0 \/ d \in c .. n + 1
  <2>1. c \in 1 .. n + 1
    BY <1>1, <1>4, <1>5, <1>6
  <2>2. ASSUME At(t, c) \in {69, 101} PROVE c + 1 + sign \in c .. n + 1
    <3>1. At(t, c) # 0
      BY <2>2
    <3>2. c + 1 \in 1 .. n + 1
      BY <2>1, <3>1, NextPlace
    <3>3. CASE At(t, c + 1) \in {43, 45}
      <4>1. At(t, c + 1) # 0
        BY <3>3
      <4>2. (c + 1) + 1 \in 1 .. n + 1
        BY <3>2, <4>1, NextPlace
      <4>3. sign = 1
        BY <3>3
      <4> HIDE DEF sign
      <4>4. QED
        BY <1>1, <2>1, <4>2, <4>3
    <3>4. CASE At(t, c + 1) \notin {43, 45}
      <4>1. sign = 0
        BY <3>4
      <4> HIDE DEF sign
      <4>2. QED
        BY <1>1, <2>1, <3>2, <4>1
    <3>5. QED
      BY <3>3, <3>4
  <2>3. (At(t, c) \in {69, 101}) \in BOOLEAN
    OBVIOUS
  <2> DEFINE x == c + 1 + sign
  <2> HIDE DEF sign, x
  <2>4. At(t, c) \in {69, 101} => x \in c .. n + 1
    BY <2>2 DEF x
  <2>5. QED
    BY <2>1, <2>3, <2>4, OptionalEndPlace DEF x
<1> HIDE DEF d
<1>7. CASE b = a \/ c = 0
  BY <1>3, <1>7
<1>8. CASE b # a /\ c # 0
  <2>1. parse_number(t, i) = d
    BY <1>3, <1>8
  <2>2. d = 0 \/ d \in c .. n + 1
    BY <1>6, <1>8
  <2>3. c \in b .. n + 1 /\ b \in a + 1 .. n + 1
    BY <1>1, <1>2, <1>4, <1>5, <1>8
  <2>4. QED
    BY <1>1, <1>2, <2>1, <2>2, <2>3
<1>9. QED
  BY <1>7, <1>8
-----------------------------------------------------------------------------
(* parse_value: one round of the loop over a container. *)

\* What a parse function returns for the text from i on: if it fails nothing is
\* left allocated, if it succeeds what json_delete frees with the value, and
\* without `out` nothing is allocated at all.
Sound(t, i, out, p) ==
  /\ p.ok \in BOOLEAN /\ p.over = FALSE /\ p.val.blocks \in Nat
  /\ p.live = IF p.ok /\ out THEN p.val.blocks ELSE 0
  /\ p.ok => p.pos \in i + 1 .. Len(t) + 1

LEMMA FailedSound ==
  ASSUME NEW t, NEW i, NEW out \in BOOLEAN
  PROVE  Sound(t, i, out, Failed(0, FALSE))
<1> DEFINE p == Failed(0, FALSE)
<1>1. p.ok = FALSE /\ p.over = FALSE /\ p.live = 0 /\ p.val = Null
  BY DEF Failed
<1>2. Null.blocks = 1
  BY DEF Null, Value
<1> HIDE DEF p
<1>3. p.val.blocks \in Nat
  BY <1>1, <1>2
<1>4. p.ok \in BOOLEAN /\ ~(p.ok /\ out) /\ ~p.ok
  BY <1>1
<1>5. p.live = IF p.ok /\ out THEN p.val.blocks ELSE 0
  BY <1>1, <1>4
<1>6. Sound(t, i, out, p)
  BY <1>1, <1>3, <1>4, <1>5, Zenon DEF Sound
<1>7. QED
  BY <1>6 DEF p

LEMMA ParsedSound ==
  ASSUME NEW t, NEW i, NEW out \in BOOLEAN, NEW pos \in i + 1 .. Len(t) + 1, NEW v,
         v.blocks \in Nat, NEW live, live = Held(v, out)
  PROVE  Sound(t, i, out, Parsed(pos, v, live, FALSE))
<1> DEFINE p == Parsed(pos, v, live, FALSE)
<1>1. p.ok = TRUE /\ p.over = FALSE /\ p.live = live /\ p.val = v /\ p.pos = pos
  BY DEF Parsed
<1> HIDE DEF p
<1>2. Sound(t, i, out, p)
  BY <1>1 DEF Sound, Held
<1>3. QED
  BY <1>2 DEF p

IsNode(v) == /\ v.blocks \in Nat
             /\ v = [tag |-> v.tag, s |-> v.s, kids |-> v.kids, blocks |-> v.blocks]

LEMMA NewNode ==
  ASSUME NEW tag, NEW s
  PROVE  IsNode(Value(tag, s)) /\ Value(tag, s).blocks = IF tag = "string" THEN 2 ELSE 1
BY DEF Value, IsNode

\* What is in a container is freed with it.
LEMMA ElementIsHeld ==
  ASSUME NEW ret, IsNode(ret), NEW v, v.blocks \in Nat, NEW out \in BOOLEAN
  PROVE  /\ IsNode(WithElement(ret, v, out))
         /\ Held(WithElement(ret, v, out), out) = Held(ret, out) + Held(v, out)
<1>1. CASE out
  <2> DEFINE kids == Append(ret.kids, [key |-> <<>>, val |-> v])
             w == [tag |-> ret.tag, s |-> ret.s, kids |-> kids, blocks |-> ret.blocks + v.blocks]
  <2>1. WithElement(ret, v, out) = w
    BY <1>1 DEF WithElement, IsNode
  <2>2. IsNode(w) /\ w.blocks = ret.blocks + v.blocks
    BY DEF IsNode
  <2>3. QED
    BY <1>1, <2>1, <2>2 DEF Held
<1>2. CASE ~out
  BY <1>2 DEF WithElement, Held
<1>3. QED
  BY <1>1, <1>2

LEMMA MemberIsHeld ==
  ASSUME NEW ret, IsNode(ret), NEW key, NEW v, v.blocks \in Nat, NEW out \in BOOLEAN
  PROVE  /\ IsNode(WithMember(ret, key, v, out))
         /\ Held(WithMember(ret, key, v, out), out)
              = Held(ret, out) + FreedKey(out) + Held(v, out)
<1>1. CASE out
  <2> DEFINE kids == Append(ret.kids, [key |-> key, val |-> v])
             w == [tag |-> ret.tag, s |-> ret.s, kids |-> kids, blocks |-> ret.blocks + v.blocks + 1]
  <2>1. WithMember(ret, key, v, out) = w
    BY <1>1 DEF WithMember, IsNode
  <2>2. IsNode(w) /\ w.blocks = ret.blocks + v.blocks + 1
    BY DEF IsNode
  <2>3. PICK a \in Nat, b \in Nat : a = ret.blocks /\ b = v.blocks
    BY DEF IsNode
  <2> HIDE DEF w
  <2>4. w.blocks = a + 1 + b
    BY <2>2, <2>3
  <2>5. Held(w, out) = w.blocks /\ Held(ret, out) = a /\ FreedKey(out) = 1 /\ Held(v, out) = b
    BY <1>1, <2>3 DEF Held, FreedKey
  <2>6. QED
    BY <2>1, <2>2, <2>4, <2>5
<1>2. CASE ~out
  BY <1>2 DEF WithMember, Held, FreedKey
<1>3. QED
  BY <1>1, <1>2

LEMMA HeldCount ==
  ASSUME NEW v, v.blocks \in Nat, NEW out \in BOOLEAN
  PROVE  Held(v, out) \in Nat /\ FreedKey(out) \in Nat
BY DEF Held, FreedKey

\* The loop over a container that begins at i, after k rounds: it goes on behind
\* what it has parsed, with no more allocated than the container holds, or it has
\* ended with a result.
Filling(t, i, out, k, l) ==
  /\ l.ended \in BOOLEAN
  /\ l.ended  => Sound(t, i, out, l.res)
  /\ ~l.ended => /\ l.over = FALSE /\ IsNode(l.ret) /\ l.live = Held(l.ret, out)
                 /\ l.pos \in i + k + 1 .. Len(t) + 1

LEMMA EndedFilling ==
  ASSUME NEW t, NEW i, NEW out, NEW k, NEW p, Sound(t, i, out, p)
  PROVE  Filling(t, i, out, k, Ended(p))
<1>1. Ended(p).ended = TRUE /\ Ended(p).res = p
  BY DEF Ended
<1>2. QED
  BY <1>1 DEF Filling

LEMMA GoesOnFilling ==
  ASSUME NEW t, NEW i, NEW out, NEW k, NEW ret, IsNode(ret), NEW live, live = Held(ret, out),
         NEW pos \in i + k + 1 .. Len(t) + 1
  PROVE  Filling(t, i, out, k, GoesOn(pos, ret, live, FALSE))
<1> DEFINE l == GoesOn(pos, ret, live, FALSE)
<1>1. l.ended = FALSE /\ l.over = FALSE /\ l.ret = ret /\ l.live = live /\ l.pos = pos
  BY DEF GoesOn
<1> HIDE DEF l
<1>2. Filling(t, i, out, k, l)
  BY <1>1 DEF Filling
<1>3. QED
  BY <1>2 DEF l

LEMMA BehindKeeps ==
  ASSUME NEW t \in String, NEW i \in Nat \ {0}, NEW k \in Nat, NEW pos, pos \in i + k + 1 .. Len(t) + 1,
         NEW close, close # 0, NEW ret, IsNode(ret), NEW live, NEW out \in BOOLEAN,
         live = Held(ret, out)
  PROVE  Filling(t, i, out, k, Behind(t, pos, close, ret, live, out, FALSE))
<1> DEFINE n == Len(t)
           j == skip_space(t, pos)
           m == Behind(t, pos, close, ret, live, out, FALSE)
<1>1. n \in Nat
  BY StringLength
<1>2. j \in pos .. n + 1 /\ j \in 1 .. n + 1
  <2>1. pos \in 1 .. n + 1
    BY <1>1
  <2>2. j \in pos .. n + 1
    BY <2>1, SkipSpacePlace
  <2> HIDE DEF j
  <2>3. QED
    BY <1>1, <2>2
<1>3. m = IF At(t, j) = close THEN Ended(Parsed(j + 1, ret, live, FALSE))
          ELSE IF At(t, j) = 44 THEN GoesOn(skip_space(t, j + 1), ret, live, FALSE)
          ELSE Ended(Failed(live - Held(ret, out), FALSE))
  BY DEF Behind
<1>4. ret.blocks \in Nat /\ live \in Nat /\ live - Held(ret, out) = 0
  <2>1. ret.blocks \in Nat
    BY DEF IsNode
  <2>2. Held(ret, out) \in Nat
    BY <2>1, HeldCount
  <2>3. QED
    BY <2>1, <2>2
<1> HIDE DEF m, j
<1>5. At(t, j) # 0 => j + 1 \in 1 .. n + 1
  BY <1>2, NextPlace
<1>6. CASE At(t, j) = close
  <2>1. j + 1 \in i + 1 .. n + 1
    BY <1>1, <1>2, <1>5, <1>6
  <2> HIDE DEF n
  <2>2. Sound(t, i, out, Parsed(j + 1, ret, live, FALSE))
    BY <1>4, <2>1, ParsedSound DEF n
  <2>3. QED
    BY <1>3, <1>6, <2>2, EndedFilling DEF m
<1>7. CASE At(t, j) # close /\ At(t, j) = 44
  <2>1. j + 1 \in 1 .. n + 1
    BY <1>5, <1>7
  <2>2. skip_space(t, j + 1) \in j + 1 .. n + 1
    BY <2>1, SkipSpacePlace
  <2>3. skip_space(t, j + 1) \in i + k + 1 .. n + 1
    BY <1>1, <1>2, <2>1, <2>2
  <2>4. Filling(t, i, out, k, GoesOn(skip_space(t, j + 1), ret, live, FALSE))
    BY <2>3, GoesOnFilling
  <2>5. QED
    BY <1>3, <1>7, <2>4 DEF m
<1>8. CASE At(t, j) # close /\ At(t, j) # 44
  <2>1. m = Ended(Failed(0, FALSE))
    BY <1>3, <1>4, <1>8
  <2>2. QED
    BY <2>1, FailedSound, EndedFilling DEF m
<1>9. QED
  BY <1>6, <1>7, <1>8

\* What parse_value does at every place.
Table(t, out, inner) == \A i \in 1 .. Len(t) + 1 : Sound(t, i, out, inner[i])

LEMMA ElementKeeps ==
  ASSUME NEW t \in String, NEW i \in Nat \ {0}, NEW k \in Nat, NEW out \in BOOLEAN,
         NEW inner, Table(t, out, inner), NEW l, Filling(t, i, out, k, l)
  PROVE  Filling(t, i, out, k + 1, ElementRound(t, inner, l, out))
<1> DEFINE n == Len(t)
           m == ElementRound(t, inner, l, out)
           e == inner[l.pos]
           more == WithElement(l.ret, e.val, out)
<1>1. n \in Nat
  BY StringLength
<1>2. CASE l.ended
  <2>1. m = l /\ l.ended = TRUE
    BY <1>2 DEF ElementRound, Filling
  <2>2. Sound(t, i, out, l.res)
    BY <1>2 DEF Filling
  <2>3. QED
    BY <2>1, <2>2 DEF Filling
<1>3. CASE ~l.ended
  <2>1. l.over = FALSE /\ IsNode(l.ret) /\ l.live = Held(l.ret, out) /\ l.pos \in i + k + 1 .. n + 1
    BY <1>3 DEF Filling
  <2>2. Sound(t, l.pos, out, e)
    <3>1. l.pos \in 1 .. Len(t) + 1
      BY <1>1, <2>1
    <3>2. QED
      BY <3>1 DEF Table
  <2>3. m = IF ~e.ok THEN Ended(Failed((l.live + e.live) - Held(l.ret, out), l.over \/ e.over))
            ELSE Behind(t, e.pos, 93, more, l.live + e.live, out, l.over \/ e.over)
    BY <1>3, Zenon DEF ElementRound
  <2> HIDE DEF m, e
  <2>4. l.over \/ e.over <=> FALSE
    BY <2>1, <2>2 DEF Sound
  <2>5. (l.over \/ e.over) = FALSE
    BY <2>4
  <2>6. e.val.blocks \in Nat /\ e.live = (IF e.ok THEN Held(e.val, out) ELSE 0)
    BY <2>2 DEF Sound, Held
  <2>7. l.ret.blocks \in Nat /\ Held(l.ret, out) \in Nat /\ Held(e.val, out) \in Nat
    BY <2>1, <2>6, HeldCount DEF IsNode
  <2>8. CASE ~e.ok
    <3>1. (l.live + e.live) - Held(l.ret, out) = 0
      BY <2>1, <2>6, <2>7, <2>8
    <3>2. m = Ended(Failed(0, FALSE))
      BY <2>3, <2>5, <2>8, <3>1
    <3>3. QED
      BY <3>2, FailedSound, EndedFilling DEF m
  <2>9. CASE e.ok
    <3>1. IsNode(more) /\ Held(more, out) = l.live + e.live
      BY <2>1, <2>6, <2>9, ElementIsHeld
    <3>2. e.pos \in l.pos + 1 .. n + 1
      BY <2>2, <2>9 DEF Sound
    <3>3. e.pos \in i + (k + 1) + 1 .. n + 1
      BY <1>1, <2>1, <3>2
    <3> DEFINE live == l.live + e.live
    <3>4. m = Behind(t, e.pos, 93, more, live, out, FALSE)
      BY <2>3, <2>5, <2>9
    <3> HIDE DEF more, live
    <3>5. live = Held(more, out)
      BY <3>1 DEF live
    <3> DEFINE pos == e.pos
               next == k + 1
               close == 93
    <3>6. next \in Nat /\ close # 0 /\ pos \in i + next + 1 .. Len(t) + 1 /\ IsNode(more)
      BY <3>1, <3>3
    <3> HIDE DEF pos, next, close
    <3>7. Filling(t, i, out, next, Behind(t, pos, close, more, live, out, FALSE))
      BY <3>5, <3>6, BehindKeeps
    <3>8. QED
      BY <3>4, <3>7 DEF m, pos, next, close
  <2>10. QED
    BY <2>8, <2>9
<1>4. QED
  BY <1>2, <1>3
\* What parse_string returns: the text it allocates is not yet a node.
LEMMA StringResult ==
  ASSUME NEW t \in String, NEW i \in Nat \ {0}, NEW out \in BOOLEAN
  PROVE  LET p == parse_string(t, i, out)
         IN  /\ p.ok \in BOOLEAN /\ p.over = FALSE
             /\ p.live = IF p.ok THEN FreedKey(out) ELSE 0
             /\ p.ok => p.pos \in i + 1 .. Len(t) + 1 /\ \E s : p.val = Value("string", s)
<1> DEFINE p == parse_string(t, i, out)
           l == StringLoop(t, i, out)[Len(t)]
<1>1. p.ok => p.pos \in i + 2 .. Len(t) + 1
  BY ParseStringKeeps
<1>2. l.sb.over = FALSE
  <2>1. Len(t) \in 0 .. Len(t)
    BY StringLength
  <2>2. l \in Cursors
    BY <2>1, StringLoopKeeps
  <2> HIDE DEF l
  <2>3. QED
    BY <2>2 DEF Cursors, HasRoom, SB
<1>3. p = IF At(t, i) # 34 THEN Failed(0, FALSE) ELSE StringEnd(t, l, out)
  BY DEF parse_string
<1> HIDE DEF l
<1>4. CASE At(t, i) # 34 \/ At(t, l.pos) # 34
  <2>1. p = Failed(0, FALSE)
    <3>1. CASE At(t, i) # 34
      BY <1>3, <3>1
    <3>2. CASE At(t, i) = 34 /\ At(t, l.pos) # 34
      BY <1>2, <1>3, <3>2 DEF StringEnd
    <3>3. QED
      BY <1>4, <3>1, <3>2
  <2> HIDE DEF p
  <2>2. p.ok = FALSE /\ p.over = FALSE /\ p.live = 0
    BY <2>1 DEF Failed
  <2>3. QED
    BY <2>2 DEF p
<1>5. CASE At(t, i) = 34 /\ At(t, l.pos) = 34
  <2> DEFINE v == Value("string", l.sb.bytes)
             live == IF out THEN 1 ELSE 0
  <2>1. p = Parsed(l.pos + 1, v, live, FALSE)
    BY <1>2, <1>3, <1>5 DEF StringEnd
  <2>2. live = FreedKey(out)
    BY DEF FreedKey
  <2>3. \E s : v = Value("string", s)
    OBVIOUS
  <2>4. i + 1 \in Int /\ \A x \in i + 2 .. Len(t) + 1 : x \in i + 1 .. Len(t) + 1
    BY StringLength
  <2> HIDE DEF p, v, live
  <2>5. p.ok = TRUE /\ p.over = FALSE /\ p.live = live /\ p.val = v
    BY <2>1 DEF Parsed
  <2>6. p.pos \in i + 1 .. Len(t) + 1
    BY <1>1, <2>4, <2>5
  <2>7. QED
    BY <2>2, <2>3, <2>5, <2>6 DEF p
<1>6. QED
  BY <1>4, <1>5

LEMMA MemberKeeps ==
  ASSUME NEW t \in String, NEW i \in Nat \ {0}, NEW k \in Nat, NEW out \in BOOLEAN,
         NEW inner, Table(t, out, inner), NEW l, Filling(t, i, out, k, l)
  PROVE  Filling(t, i, out, k + 1, MemberRound(t, inner, l, out))
<1> DEFINE n == Len(t)
           m == MemberRound(t, inner, l, out)
           key == parse_string(t, l.pos, out)
           j == skip_space(t, key.pos)
           at == skip_space(t, j + 1)
           e == inner[at]
           more == WithMember(l.ret, key.val.s, e.val, out)
           held == Held(l.ret, out)
           one == FreedKey(out)
<1>1. n \in Nat
  BY StringLength
<1>2. CASE l.ended
  <2>1. m = l /\ l.ended = TRUE
    BY <1>2 DEF MemberRound, MemberKey, Filling
  <2>2. Sound(t, i, out, l.res)
    BY <1>2 DEF Filling
  <2>3. QED
    BY <2>1, <2>2 DEF Filling
<1>3. CASE ~l.ended
  <2>1. l.over = FALSE /\ IsNode(l.ret) /\ l.live = held /\ l.pos \in i + k + 1 .. n + 1
    BY <1>3 DEF Filling
  <2>2. held \in Nat /\ one \in Nat
    BY <2>1, HeldCount DEF IsNode
  <2>3. /\ key.ok \in BOOLEAN /\ key.over = FALSE
        /\ key.live = (IF key.ok THEN one ELSE 0)
        /\ key.ok => key.pos \in l.pos + 1 .. n + 1
    <3>1. l.pos \in Nat \ {0}
      BY <1>1, <2>1
    <3>2. QED
      BY <3>1, StringResult
  <2>4. m = IF ~key.ok THEN Ended(Failed(l.live + key.live - held, l.over \/ key.over))
            ELSE MemberValue(t, inner, l, key, j, out)
    BY <1>3 DEF MemberRound, MemberKey
  <2>5. MemberValue(t, inner, l, key, j, out)
          = IF At(t, j) # 58
            THEN Ended(Failed(l.live + key.live - one - held, l.over \/ key.over))
            ELSE IF ~e.ok
            THEN Ended(Failed((l.live + key.live + e.live) - one - held,
                              l.over \/ key.over \/ e.over))
            ELSE Behind(t, e.pos, 125, more, l.live + key.live + e.live, out,
                        l.over \/ key.over \/ e.over)
    BY DEF MemberValue
  <2> HIDE DEF m, key, held, one, j, at, e, more
  <2>6. (l.over \/ key.over) = FALSE
    BY <2>1, <2>3
  <2>7. ASSUME m = Ended(Failed(0, FALSE)) PROVE Filling(t, i, out, k + 1, m)
    BY <2>7, FailedSound, EndedFilling
  <2>8. CASE ~key.ok
    <3>1. l.live + key.live - held = 0
      BY <2>1, <2>2, <2>3, <2>8
    <3>2. m = Ended(Failed(0, FALSE))
      BY <2>4, <2>6, <2>8, <3>1
    <3>3. QED
      BY <2>7, <3>2 DEF m
  <2>9. CASE key.ok /\ At(t, j) # 58
    <3>1. l.live + key.live - one - held = 0
      BY <2>1, <2>2, <2>3, <2>9
    <3>2. m = Ended(Failed(0, FALSE))
      BY <2>4, <2>5, <2>6, <2>9, <3>1
    <3>3. QED
      BY <2>7, <3>2 DEF m
  <2>10. CASE key.ok /\ At(t, j) = 58
    <3>1. key.pos \in l.pos + 1 .. n + 1 /\ key.live = one
      BY <2>3, <2>10
    <3>2. j \in key.pos .. n + 1 /\ key.pos \in 1 .. n + 1 /\ j \in 1 .. n + 1
      <4>1. key.pos \in 1 .. n + 1
        BY <1>1, <2>1, <3>1
      <4>2. j \in key.pos .. n + 1
        BY <4>1, SkipSpacePlace DEF j
      <4>3. QED
        BY <1>1, <4>1, <4>2
    <3>3. at \in j + 1 .. n + 1 /\ at \in 1 .. n + 1
      <4>1. At(t, j) # 0
        BY <2>10
      <4>2. j + 1 \in 1 .. n + 1
        BY <3>2, <4>1, NextPlace
      <4>3. at \in j + 1 .. n + 1
        BY <4>2, SkipSpacePlace DEF at
      <4>4. QED
        BY <1>1, <3>2, <4>3
    <3>4. Sound(t, at, out, e)
      BY <3>3 DEF Table, e
    <3>5. /\ e.ok \in BOOLEAN /\ e.over = FALSE /\ e.val.blocks \in Nat
          /\ e.live = (IF e.ok THEN Held(e.val, out) ELSE 0)
          /\ e.ok => e.pos \in at + 1 .. n + 1
      BY <3>4 DEF Sound, Held
    <3>6. Held(e.val, out) \in Nat
      BY <3>5, HeldCount
    <3>7. (l.over \/ key.over \/ e.over) = FALSE
      BY <2>1, <2>3, <3>5
    <3>8. CASE ~e.ok
      <4>1. (l.live + key.live + e.live) - one - held = 0
        BY <2>1, <2>2, <3>1, <3>5, <3>8
      <4>2. m = Ended(Failed(0, FALSE))
        BY <2>4, <2>5, <2>10, <3>7, <3>8, <4>1
      <4>3. QED
        BY <2>7, <4>2 DEF m
    <3>9. CASE e.ok
      <4>1. IsNode(more) /\ Held(more, out) = held + one + Held(e.val, out)
        BY <2>1, <3>5, MemberIsHeld DEF held, one, more
      <4> DEFINE live == l.live + key.live + e.live
                 pos == e.pos
                 next == k + 1
                 close == 125
      <4>2. live = Held(more, out)
        BY <2>1, <3>1, <3>5, <3>9, <4>1
      <4>3. pos \in at + 1 .. n + 1
        BY <3>5, <3>9
      <4>4. next \in Nat /\ close # 0 /\ pos \in i + next + 1 .. n + 1
        BY <1>1, <2>1, <3>1, <3>2, <3>3, <4>3
      <4>5. m = Behind(t, pos, close, more, live, out, FALSE)
        BY <2>4, <2>5, <2>10, <3>7, <3>9
      <4> HIDE DEF live, pos, next, close
      <4>6. Filling(t, i, out, next, Behind(t, pos, close, more, live, out, FALSE))
        BY <4>1, <4>2, <4>4, BehindKeeps
      <4>7. QED
        BY <4>5, <4>6 DEF m, next
    <3>10. QED
      BY <3>5, <3>8, <3>9
  <2>11. QED
    BY <2>3, <2>8, <2>9, <2>10
<1>4. QED
  BY <1>2, <1>3
-----------------------------------------------------------------------------
(* parse_value: its loops and its recursion. *)

\* One turn of a loop over elements, over members, or of the recursion.
Turn(x, l) ==
  IF x.what = "elements" THEN ElementRound(x.t, x.inner, l, x.out)
  ELSE IF x.what = "members" THEN MemberRound(x.t, x.inner, l, x.out)
  ELSE [i \in 1 .. Len(x.t) + 1 |-> ValueAt(x.t, l, i, x.out)]

IsTurns(f, x, a, n) == f = [k \in 0 .. n |-> IF k = 0 THEN a ELSE Turn(x, f[k - 1])]

OverElements(t, inner, out) == [what |-> "elements", t |-> t, inner |-> inner, out |-> out]
OverMembers(t, inner, out) == [what |-> "members", t |-> t, inner |-> inner, out |-> out]
IntoValues(t, out)        == [what |-> "values", t |-> t, inner |-> <<>>, out |-> out]

LEMMA TurnsExist ==
  ASSUME NEW x, NEW a, NEW n \in Nat
  PROVE  \E f : IsTurns(f, x, a, n)
<1> DEFINE T(l) == Turn(x, l)
           Loop(m, f) == f = [k \in 0 .. m |-> IF k = 0 THEN a ELSE T(f[k - 1])]
           Bad == {m \in Nat : ~\E f : Loop(m, f)}
<1> HIDE DEF T
<1>1. Bad = {}
  <2> SUFFICES ASSUME Bad # {} PROVE FALSE
    OBVIOUS
  <2>1. PICK m \in Bad : \A k \in Bad : m <= k
    <3>1. Bad \subseteq Nat
      OBVIOUS
    <3> HIDE DEF Bad
    <3>2. QED
      BY <3>1, LeastNatural
  <2>2. m # 0
    <3> DEFINE f == [k \in 0 .. 0 |-> a]
    <3>1. f = [k \in 0 .. 0 |-> IF k = 0 THEN a ELSE T(f[k - 1])]
      OBVIOUS
    <3>2. QED
      BY <2>1, <3>1
  <2>3. m - 1 \in Nat /\ m - 1 \notin Bad
    <3>1. m \in Nat
      OBVIOUS
    <3> HIDE DEF Bad
    <3>2. QED
      BY <2>1, <2>2, <3>1
  <2>4. PICK f : Loop(m - 1, f)
    BY <2>3
  <2> DEFINE h == [k \in 0 .. m |-> IF k < m THEN f[k] ELSE T(f[m - 1])]
  <2>5. \A k \in 0 .. m - 1 : k \in 0 .. m /\ h[k] = f[k]
    BY <2>3
  <2>6. ASSUME NEW k \in 0 .. m PROVE h[k] = IF k = 0 THEN a ELSE T(h[k - 1])
    <3>1. CASE k = 0
      BY <2>3, <2>4, <2>5, <3>1
    <3>2. CASE k # 0 /\ k < m
      <4>1. k \in 0 .. m - 1 /\ k - 1 \in 0 .. m - 1
        BY <2>3, <3>2
      <4>2. h[k] = f[k] /\ h[k - 1] = f[k - 1]
        BY <2>5, <4>1
      <4>3. f[k] = T(f[k - 1])
        BY <2>4, <3>2, <4>1
      <4>4. QED
        BY <3>2, <4>2, <4>3
    <3>3. CASE k # 0 /\ k = m
      <4>1. m - 1 \in 0 .. m - 1
        BY <2>3
      <4>2. h[m - 1] = f[m - 1]
        BY <2>5, <4>1
      <4>3. h[m] = T(f[m - 1])
        BY <2>3
      <4>4. QED
        BY <3>3, <4>2, <4>3
    <3>4. QED
      BY <2>3, <3>1, <3>2, <3>3
  <2>7. h = [k \in 0 .. m |-> IF k = 0 THEN a ELSE T(h[k - 1])]
    <3>1. h = [k \in 0 .. m |-> h[k]]
      OBVIOUS
    <3> HIDE DEF h
    <3>2. QED
      BY <2>6, <3>1
  <2> HIDE DEF h
  <2>8. QED
    BY <2>1, <2>7
<1>2. QED
  BY <1>1 DEF IsTurns, T

\* What a function of that shape is, turn by turn.
LEMMA TurnByTurn ==
  ASSUME NEW x, NEW a, NEW n \in Nat, NEW f, IsTurns(f, x, a, n)
  PROVE  f[0] = a /\ \A k \in 1 .. n : f[k] = Turn(x, f[k - 1])
<1> DEFINE T(l) == Turn(x, l)
<1> HIDE DEF T
<1>1. f = [k \in 0 .. n |-> IF k = 0 THEN a ELSE T(f[k - 1])]
  BY DEF IsTurns, T
<1>2. f[0] = a /\ \A k \in 1 .. n : f[k] = T(f[k - 1])
  BY <1>1
<1>3. QED
  BY <1>2 DEF T

LEMMA ElementsTurns ==
  ASSUME NEW t \in String, NEW inner, NEW j, NEW ret, NEW out
  PROVE  IsTurns(Elements(t, inner, j, ret, out), OverElements(t, inner, out),
                 Started(t, j, ret, out), Len(t))
<1> DEFINE n == Len(t)
           a == Started(t, j, ret, out)
           x == OverElements(t, inner, out)
           P(f) == f = [k \in 0 .. n |-> IF k = 0 THEN a ELSE ElementRound(t, inner, f[k - 1], out)]
<1>1. \A l : Turn(x, l) = ElementRound(t, inner, l, out)
  BY DEF Turn, OverElements
<1>2. n \in Nat
  BY StringLength
<1>3. Elements(t, inner, j, ret, out) = CHOOSE f : P(f)
  BY DEF Elements
<1> HIDE DEF x, a, n
<1>4. \A f : IsTurns(f, x, a, n) <=> P(f)
  BY <1>1 DEF IsTurns
<1> HIDE DEF P
<1>5. \E f : P(f)
  BY <1>2, <1>4, TurnsExist
<1>6. P(CHOOSE f : P(f))
  BY <1>5
<1>7. IsTurns(Elements(t, inner, j, ret, out), x, a, n)
  BY <1>3, <1>4, <1>6
<1>8. QED
  BY <1>7 DEF x, a, n

LEMMA MembersTurns ==
  ASSUME NEW t \in String, NEW inner, NEW j, NEW ret, NEW out
  PROVE  IsTurns(Members(t, inner, j, ret, out), OverMembers(t, inner, out),
                 Started(t, j, ret, out), Len(t))
<1> DEFINE n == Len(t)
           a == Started(t, j, ret, out)
           x == OverMembers(t, inner, out)
           P(f) == f = [k \in 0 .. n |-> IF k = 0 THEN a ELSE MemberRound(t, inner, f[k - 1], out)]
<1>1. \A l : Turn(x, l) = MemberRound(t, inner, l, out)
  BY DEF Turn, OverMembers
<1>2. n \in Nat
  BY StringLength
<1>3. Members(t, inner, j, ret, out) = CHOOSE f : P(f)
  BY DEF Members
<1> HIDE DEF x, a, n
<1>4. \A f : IsTurns(f, x, a, n) <=> P(f)
  BY <1>1 DEF IsTurns
<1> HIDE DEF P
<1>5. \E f : P(f)
  BY <1>2, <1>4, TurnsExist
<1>6. P(CHOOSE f : P(f))
  BY <1>5
<1>7. IsTurns(Members(t, inner, j, ret, out), x, a, n)
  BY <1>3, <1>4, <1>6
<1>8. QED
  BY <1>7 DEF x, a, n

Nothing(t) == [i \in 1 .. Len(t) + 1 |-> Failed(0, FALSE)]

LEMMA NestedTurns ==
  ASSUME NEW t \in String, NEW out
  PROVE  IsTurns(Nested(t, out), IntoValues(t, out), Nothing(t), Len(t))
<1> DEFINE n == Len(t)
           a == Nothing(t)
           x == IntoValues(t, out)
           V(l) == [i \in 1 .. Len(t) + 1 |-> ValueAt(t, l, i, out)]
           P(f) == f = [k \in 0 .. n |-> IF k = 0 THEN a ELSE V(f[k - 1])]
<1>1. \A l : Turn(x, l) = V(l)
  BY DEF Turn, IntoValues
<1>2. n \in Nat
  BY StringLength
<1>3. Nested(t, out) = CHOOSE f : P(f)
  BY DEF Nested, Nothing
<1> HIDE DEF x, a, n, V
<1>4. \A f : IsTurns(f, x, a, n) <=> P(f)
  BY <1>1 DEF IsTurns
<1> HIDE DEF P
<1>5. \E f : P(f)
  BY <1>2, <1>4, TurnsExist
<1>6. P(CHOOSE f : P(f))
  BY <1>5
<1>7. IsTurns(Nested(t, out), x, a, n)
  BY <1>3, <1>4, <1>6
<1>8. QED
  BY <1>7 DEF x, a, n

\* The invariant of the loop over a container.
LEMMA FillingAll ==
  ASSUME NEW t \in String, NEW i \in Nat \ {0}, NEW out \in BOOLEAN, NEW inner, Table(t, out, inner),
         NEW x, x \in {OverElements(t, inner, out), OverMembers(t, inner, out)},
         NEW a, Filling(t, i, out, 0, a), NEW n \in Nat, NEW f, IsTurns(f, x, a, n)
  PROVE  \A k \in 0 .. n : Filling(t, i, out, k, f[k])
<1>1. f[0] = a /\ \A k \in 1 .. n : f[k] = Turn(x, f[k - 1])
  <2> DEFINE T(l) == Turn(x, l)
  <2> HIDE DEF T
  <2>1. f = [k \in 0 .. n |-> IF k = 0 THEN a ELSE T(f[k - 1])]
    BY DEF IsTurns, T
  <2>2. f[0] = a /\ \A k \in 1 .. n : f[k] = T(f[k - 1])
    BY <2>1
  <2>3. QED
    BY <2>2 DEF T
<1>2. \A k \in Nat : \A l : Filling(t, i, out, k, l) => Filling(t, i, out, k + 1, Turn(x, l))
  <2>1. CASE x = OverElements(t, inner, out)
    <3>1. \A l : Turn(x, l) = ElementRound(t, inner, l, out)
      BY <2>1 DEF Turn, OverElements
    <3>2. QED
      BY <3>1, ElementKeeps
  <2>2. CASE x = OverMembers(t, inner, out)
    <3>1. \A l : Turn(x, l) = MemberRound(t, inner, l, out)
      BY <2>2 DEF Turn, OverMembers
    <3>2. QED
      BY <3>1, MemberKeeps
  <2>3. QED
    BY <2>1, <2>2
<1> DEFINE F(k, l) == Filling(t, i, out, k, l)
           Bad == {k \in 0 .. n : ~F(k, f[k])}
<1>3. SUFFICES ASSUME Bad # {} PROVE FALSE
  OBVIOUS
<1>4. PICK m \in Bad : \A k \in Bad : m <= k
  <2>1. Bad \subseteq Nat
    OBVIOUS
  <2> HIDE DEF Bad
  <2>2. QED
    BY <1>3, <2>1, LeastNatural
<1>5. F(0, f[0])
  BY <1>1
<1> HIDE DEF F
<1>6. m \in 1 .. n /\ m - 1 \in Nat /\ (m - 1) + 1 = m
  BY <1>4, <1>5
<1>7. F(m - 1, f[m - 1])
  BY <1>4, <1>6
<1>8. F((m - 1) + 1, Turn(x, f[m - 1]))
  BY <1>2, <1>6, <1>7 DEF F
<1>9. F(m, f[m])
  BY <1>1, <1>6, <1>8
<1>10. QED
  BY <1>4, <1>9

\* A text has fewer elements or members than bytes, so that the loop has ended
\* after as many rounds.
LEMMA FillingEnds ==
  ASSUME NEW t \in String, NEW i \in Nat \ {0}, NEW out \in BOOLEAN, NEW l,
         Filling(t, i, out, Len(t), l)
  PROVE  l.ended /\ Sound(t, i, out, l.res)
<1>1. Len(t) \in Nat
  BY StringLength
<1>2. l.pos \notin i + Len(t) + 1 .. Len(t) + 1
  BY <1>1
<1>3. QED
  BY <1>2 DEF Filling

LEMMA StartFilling ==
  ASSUME NEW t \in String, NEW i \in Nat \ {0}, NEW out \in BOOLEAN, NEW j \in i + 1 .. Len(t) + 1,
         NEW tag, NEW s
  PROVE  Filling(t, i, out, 0, Started(t, j, Value(tag, s), out))
<1> DEFINE ret == Value(tag, s)
           live == Held(ret, out)
<1>1. IsNode(ret)
  BY NewNode
<1>2. Started(t, j, ret, out) = GoesOn(j, ret, live, FALSE)
  BY DEF Started
<1> DEFINE k == 0
<1>3. j \in i + k + 1 .. Len(t) + 1
  OBVIOUS
<1>4. live = Held(ret, out)
  OBVIOUS
<1> HIDE DEF ret, live, k
<1>5. Filling(t, i, out, k, GoesOn(j, ret, live, FALSE))
  BY <1>1, <1>3, <1>4, GoesOnFilling
<1>6. QED
  BY <1>2, <1>5 DEF ret, k

LEMMA ArraySound ==
  ASSUME NEW t \in String, NEW i \in 1 .. Len(t) + 1, NEW out \in BOOLEAN, At(t, i) = 91,
         NEW inner, Table(t, out, inner)
  PROVE  Sound(t, i, out, parse_array(t, inner, i, out))
<1> DEFINE n == Len(t)
           ret == Value("array", <<>>)
           j == skip_space(t, i + 1)
           f == Elements(t, inner, j, ret, out)
           p == parse_array(t, inner, i, out)
<1>1. n \in Nat /\ i \in Nat \ {0}
  BY StringLength
<1>2. j \in i + 1 .. n + 1 /\ j \in 1 .. n + 1
  <2>1. At(t, i) # 0
    OBVIOUS
  <2>2. i + 1 \in 1 .. n + 1
    BY <2>1, NextPlace
  <2>3. j \in i + 1 .. n + 1
    BY <2>2, SkipSpacePlace
  <2> HIDE DEF j
  <2>4. QED
    BY <1>1, <2>3
<1>3. p = IF At(t, j) = 93 THEN Parsed(j + 1, ret, Held(ret, out), FALSE) ELSE f[n].res
  BY DEF parse_array
<1>4. CASE At(t, j) = 93
  <2>1. ret.blocks \in Nat
    BY NewNode DEF IsNode
  <2> DEFINE pos == j + 1
             live == Held(ret, out)
  <2>2. pos \in i + 1 .. Len(t) + 1
    <3>1. At(t, j) # 0
      BY <1>4
    <3>2. j + 1 \in 1 .. n + 1
      BY <1>2, <3>1, NextPlace
    <3> HIDE DEF j
    <3>3. QED
      BY <1>1, <1>2, <3>2
  <2>3. p = Parsed(pos, ret, live, FALSE)
    BY <1>3, <1>4
  <2>4. live = Held(ret, out)
    OBVIOUS
  <2> HIDE DEF pos, live, ret, p
  <2>5. Sound(t, i, out, Parsed(pos, ret, live, FALSE))
    BY <2>1, <2>2, <2>4, ParsedSound
  <2>6. QED
    BY <2>3, <2>5 DEF p
<1>5. CASE At(t, j) # 93
  <2> DEFINE x == OverElements(t, inner, out)
             a == Started(t, j, ret, out)
  <2>1. IsTurns(f, x, a, n)
    BY ElementsTurns
  <2>2. Filling(t, i, out, 0, a)
    BY <1>1, <1>2, StartFilling
  <2>3. x \in {OverElements(t, inner, out), OverMembers(t, inner, out)}
    OBVIOUS
  <2>4. p = f[n].res
    BY <1>3, <1>5
  <2> HIDE DEF x, a, f, p, j
  <2>5. \A k \in 0 .. n : Filling(t, i, out, k, f[k])
    BY <1>1, <2>1, <2>2, <2>3, FillingAll
  <2>6. Filling(t, i, out, n, f[n])
    BY <1>1, <2>5
  <2>7. QED
    BY <1>1, <2>4, <2>6, FillingEnds DEF p
<1>6. QED
  BY <1>4, <1>5

LEMMA ObjectSound ==
  ASSUME NEW t \in String, NEW i \in 1 .. Len(t) + 1, NEW out \in BOOLEAN, At(t, i) = 123,
         NEW inner, Table(t, out, inner)
  PROVE  Sound(t, i, out, parse_object(t, inner, i, out))
<1> DEFINE n == Len(t)
           ret == Value("object", <<>>)
           j == skip_space(t, i + 1)
           f == Members(t, inner, j, ret, out)
           p == parse_object(t, inner, i, out)
<1>1. n \in Nat /\ i \in Nat \ {0}
  BY StringLength
<1>2. j \in i + 1 .. n + 1 /\ j \in 1 .. n + 1
  <2>1. At(t, i) # 0
    OBVIOUS
  <2>2. i + 1 \in 1 .. n + 1
    BY <2>1, NextPlace
  <2>3. j \in i + 1 .. n + 1
    BY <2>2, SkipSpacePlace
  <2> HIDE DEF j
  <2>4. QED
    BY <1>1, <2>3
<1>3. p = IF At(t, j) = 125 THEN Parsed(j + 1, ret, Held(ret, out), FALSE) ELSE f[n].res
  BY DEF parse_object
<1>4. CASE At(t, j) = 125
  <2>1. ret.blocks \in Nat
    BY NewNode DEF IsNode
  <2> DEFINE pos == j + 1
             live == Held(ret, out)
  <2>2. pos \in i + 1 .. Len(t) + 1
    <3>1. At(t, j) # 0
      BY <1>4
    <3>2. j + 1 \in 1 .. n + 1
      BY <1>2, <3>1, NextPlace
    <3> HIDE DEF j
    <3>3. QED
      BY <1>1, <1>2, <3>2
  <2>3. p = Parsed(pos, ret, live, FALSE)
    BY <1>3, <1>4
  <2>4. live = Held(ret, out)
    OBVIOUS
  <2> HIDE DEF pos, live, ret, p
  <2>5. Sound(t, i, out, Parsed(pos, ret, live, FALSE))
    BY <2>1, <2>2, <2>4, ParsedSound
  <2>6. QED
    BY <2>3, <2>5 DEF p
<1>5. CASE At(t, j) # 125
  <2> DEFINE x == OverMembers(t, inner, out)
             a == Started(t, j, ret, out)
  <2>1. IsTurns(f, x, a, n)
    BY MembersTurns
  <2>2. Filling(t, i, out, 0, a)
    BY <1>1, <1>2, StartFilling
  <2>3. x \in {OverElements(t, inner, out), OverMembers(t, inner, out)}
    OBVIOUS
  <2>4. p = f[n].res
    BY <1>3, <1>5
  <2> HIDE DEF x, a, f, p, j
  <2>5. \A k \in 0 .. n : Filling(t, i, out, k, f[k])
    BY <1>1, <2>1, <2>2, <2>3, FillingAll
  <2>6. Filling(t, i, out, n, f[n])
    BY <1>1, <2>5
  <2>7. QED
    BY <1>1, <2>4, <2>6, FillingEnds DEF p
<1>6. QED
  BY <1>4, <1>5

\* A literal that is there is in the text to its last byte.
LEMMA LiteralInside ==
  ASSUME NEW t \in String, NEW i \in 1 .. Len(t) + 1, NEW w \in {"null", "true", "false"},
         expect_literal(t, i, w)
  PROVE  i + Len(Literal(w)) \in i + 1 .. Len(t) + 1
<1> DEFINE n == Len(t)
           word == Literal(w)
<1>1. n \in Nat
  BY StringLength
<1>2. PICK m \in {4, 5} : /\ Len(word) = m /\ m \in DOMAIN word /\ word[m] # 0
  <2>1. CASE w = "null"
    <3>1. word = <<110, 117, 108, 108>>
      BY <2>1 DEF Literal
    <3>2. QED
      BY <3>1
  <2>2. CASE w = "true"
    <3>1. word = <<116, 114, 117, 101>>
      BY <2>2 DEF Literal
    <3>2. QED
      BY <3>1
  <2>3. CASE w = "false"
    <3>1. word = <<102, 97, 108, 115, 101>>
      BY <2>3 DEF Literal
    <3>2. QED
      BY <3>1
  <2>4. QED
    BY <2>1, <2>2, <2>3
<1>3. At(t, i + m - 1) = word[m]
  BY <1>2 DEF expect_literal
<1> HIDE DEF word
<1> DEFINE k == i + m - 1
<1>4. At(t, k) # 0 /\ k \in Nat \ {0} /\ i + m = k + 1 /\ k >= i
  BY <1>1, <1>2, <1>3
<1> HIDE DEF k
<1>5. k \in 1 .. n
  BY <1>1, <1>4, ByteAt
<1>6. QED
  BY <1>1, <1>2, <1>4, <1>5 DEF word

LEMMA LiteralSound ==
  ASSUME NEW t \in String, NEW i \in 1 .. Len(t) + 1, NEW out \in BOOLEAN,
         NEW w \in {"null", "true", "false"}, NEW v, v.blocks \in Nat
  PROVE  Sound(t, i, out, LiteralValue(t, i, w, v, out))
<1> DEFINE pos == i + Len(Literal(w))
           live == Held(v, out)
           p == LiteralValue(t, i, w, v, out)
<1>1. CASE expect_literal(t, i, w)
  <2>1. pos \in i + 1 .. Len(t) + 1
    BY <1>1, LiteralInside
  <2>2. p = Parsed(pos, v, live, FALSE)
    BY <1>1 DEF LiteralValue
  <2>3. live = Held(v, out)
    OBVIOUS
  <2> HIDE DEF pos, live, p
  <2>4. Sound(t, i, out, Parsed(pos, v, live, FALSE))
    BY <2>1, <2>3, ParsedSound
  <2>5. QED
    BY <2>2, <2>4 DEF p
<1>2. CASE ~expect_literal(t, i, w)
  <2>1. p = Failed(0, FALSE)
    BY <1>2 DEF LiteralValue
  <2> HIDE DEF p
  <2>2. QED
    BY <2>1, FailedSound DEF p
<1>3. QED
  BY <1>1, <1>2

LEMMA StringSound ==
  ASSUME NEW t \in String, NEW i \in 1 .. Len(t) + 1, NEW out \in BOOLEAN
  PROVE  Sound(t, i, out, StringValue(t, i, out))
<1> DEFINE p == parse_string(t, i, out)
           v == StringValue(t, i, out)
           live == p.live + (IF out THEN 1 ELSE 0)
<1>1. /\ p.ok \in BOOLEAN /\ p.over = FALSE
      /\ p.live = IF p.ok THEN FreedKey(out) ELSE 0
      /\ p.ok => p.pos \in i + 1 .. Len(t) + 1 /\ \E s : p.val = Value("string", s)
  <2>1. i \in Nat \ {0}
    BY StringLength
  <2>2. QED
    BY <2>1, StringResult
<1>2. v = IF p.ok THEN Parsed(p.pos, p.val, live, p.over) ELSE p
  BY DEF StringValue, StringNode
<1>3. CASE ~p.ok
  <2>1. p = Failed(0, FALSE)
    <3>1. p = IF At(t, i) # 34 THEN Failed(0, FALSE)
              ELSE StringEnd(t, StringLoop(t, i, out)[Len(t)], out)
      BY DEF parse_string
    <3>2. CASE At(t, i) # 34
      BY <3>1, <3>2
    <3>3. CASE At(t, i) = 34
      <4> DEFINE l == StringLoop(t, i, out)[Len(t)]
                 q == StringEnd(t, l, out)
      <4>1. p = q
        BY <3>1, <3>3
      <4> HIDE DEF p
      <4>2. q = IF At(t, l.pos) = 34
                THEN Parsed(l.pos + 1, Value("string", l.sb.bytes), IF out THEN 1 ELSE 0, l.sb.over)
                ELSE Failed(0, l.sb.over)
        BY DEF StringEnd
      <4> HIDE DEF q
      <4>3. ASSUME At(t, l.pos) = 34 PROVE FALSE
        <5>1. q.ok = TRUE
          BY <4>2, <4>3 DEF Parsed
        <5>2. QED
          BY <1>3, <4>1, <5>1
      <4>4. q = Failed(0, l.sb.over)
        BY <4>2, <4>3
      <4>5. q.over = l.sb.over
        BY <4>4 DEF Failed
      <4>6. q.over = FALSE
        BY <1>1, <4>1
      <4>7. QED
        BY <4>1, <4>4, <4>5, <4>6
    <3>4. QED
      BY <3>2, <3>3
  <2> HIDE DEF p, v
  <2>2. v = Failed(0, FALSE)
    BY <1>2, <1>3, <2>1
  <2>3. QED
    BY <2>2, FailedSound DEF v
<1>4. CASE p.ok
  <2> DEFINE val == p.val
             pos == p.pos
  <2>1. PICK s : val = Value("string", s)
    BY <1>1, <1>4
  <2>2. val.blocks = 2
    BY <2>1, NewNode
  <2>3. live = Held(val, out)
    BY <1>1, <1>4, <2>2 DEF Held, FreedKey
  <2>4. pos \in i + 1 .. Len(t) + 1 /\ val.blocks \in Nat
    BY <1>1, <1>4, <2>2
  <2>5. v = Parsed(pos, val, live, FALSE)
    BY <1>1, <1>2, <1>4
  <2> HIDE DEF v, val, pos, live, p
  <2>6. Sound(t, i, out, Parsed(pos, val, live, FALSE))
    BY <2>3, <2>4, ParsedSound
  <2>7. QED
    BY <2>5, <2>6 DEF v
<1>5. QED
  BY <1>3, <1>4

LEMMA NumberSound ==
  ASSUME NEW t \in String, NEW i \in 1 .. Len(t) + 1, NEW out \in BOOLEAN
  PROVE  Sound(t, i, out, NumberAt(t, i, out))
<1> DEFINE end == parse_number(t, i)
           v == Value("number", Printed(Decimal(t, i, end)))
           live == Held(v, out)
           p == NumberAt(t, i, out)
<1>1. p = IF end = 0 THEN Failed(0, FALSE) ELSE Parsed(end, v, live, FALSE)
  BY DEF NumberAt, NumberUpto
<1>2. v.blocks \in Nat
  BY NewNode DEF IsNode
<1>3. live = Held(v, out)
  OBVIOUS
<1>4. end = 0 \/ end \in i + 1 .. Len(t) + 1
  BY NumberPlace
<1> HIDE DEF end, v, live, p
<1>5. CASE end = 0
  BY <1>1, <1>5, FailedSound DEF p
<1>6. CASE end # 0
  <2>1. end \in i + 1 .. Len(t) + 1
    BY <1>4, <1>6
  <2>2. Sound(t, i, out, Parsed(end, v, live, FALSE))
    BY <1>2, <1>3, <2>1, ParsedSound
  <2>3. QED
    BY <1>1, <1>6, <2>2 DEF p
<1>7. QED
  BY <1>5, <1>6

LEMMA ValueSound ==
  ASSUME NEW t \in String, NEW i \in 1 .. Len(t) + 1, NEW out \in BOOLEAN,
         NEW inner, Table(t, out, inner)
  PROVE  Sound(t, i, out, ValueAt(t, inner, i, out))
<1> DEFINE c == At(t, i)
           p == ValueAt(t, inner, i, out)
           no == Value("bool", <<0>>)
           yes == Value("bool", <<1>>)
<1>1. Null.blocks \in Nat /\ no.blocks \in Nat /\ yes.blocks \in Nat
  BY NewNode DEF IsNode, Null
<1>2. CASE c = 110
  <2>1. p = LiteralValue(t, i, "null", Null, out)
    BY <1>2 DEF ValueAt
  <2> HIDE DEF p
  <2>2. QED
    BY <1>1, <2>1, LiteralSound DEF p
<1>3. CASE c = 102
  <2>1. p = LiteralValue(t, i, "false", no, out)
    BY <1>3 DEF ValueAt
  <2> HIDE DEF p, no
  <2>2. QED
    BY <1>1, <2>1, LiteralSound DEF p
<1>4. CASE c = 116
  <2>1. p = LiteralValue(t, i, "true", yes, out)
    BY <1>4 DEF ValueAt
  <2> HIDE DEF p, yes
  <2>2. QED
    BY <1>1, <2>1, LiteralSound DEF p
<1>5. CASE c = 34
  <2>1. p = StringValue(t, i, out)
    BY <1>5 DEF ValueAt
  <2>2. QED
    BY <2>1, StringSound
<1>6. CASE c = 91
  <2>1. p = parse_array(t, inner, i, out)
    BY <1>6 DEF ValueAt
  <2>2. QED
    BY <1>6, <2>1, ArraySound
<1>7. CASE c = 123
  <2>1. p = parse_object(t, inner, i, out)
    BY <1>7 DEF ValueAt
  <2>2. QED
    BY <1>7, <2>1, ObjectSound
<1>8. CASE c \notin {110, 102, 116, 34, 91, 123}
  <2>1. p = NumberAt(t, i, out)
    BY <1>8 DEF ValueAt
  <2>2. QED
    BY <2>1, NumberSound
<1>9. QED
  BY <1>2, <1>3, <1>4, <1>5, <1>6, <1>7, <1>8

\* What is true of parse_value one container further in is true of it.
LEMMA NestedSound ==
  ASSUME NEW t \in String, NEW out \in BOOLEAN
  PROVE  \A d \in 0 .. Len(t) : Table(t, out, Nested(t, out)[d])
<1> DEFINE n == Len(t)
           f == Nested(t, out)
           x == IntoValues(t, out)
           Good(d) == Table(t, out, f[d])
           Bad == {d \in 0 .. n : ~Good(d)}
<1>1. n \in Nat
  BY StringLength
<1>2. f[0] = Nothing(t) /\ \A d \in 1 .. n : f[d] = Turn(x, f[d - 1])
  BY <1>1, NestedTurns, TurnByTurn
<1>3. \A l : Turn(x, l) = [i \in 1 .. n + 1 |-> ValueAt(t, l, i, out)]
  BY DEF Turn, IntoValues
<1> HIDE DEF f, x
<1>4. Good(0)
  <2>1. \A i \in 1 .. n + 1 : f[0][i] = Failed(0, FALSE)
    BY <1>2 DEF Nothing
  <2>2. QED
    BY <2>1, FailedSound DEF Table
<1>5. ASSUME NEW d \in 1 .. n, Good(d - 1) PROVE Good(d)
  <2>1. \A i \in 1 .. n + 1 : f[d][i] = ValueAt(t, f[d - 1], i, out)
    BY <1>2, <1>3
  <2>2. QED
    BY <1>5, <2>1, ValueSound DEF Table
<1> HIDE DEF Good
<1>6. Bad = {}
  <2> SUFFICES ASSUME Bad # {} PROVE FALSE
    OBVIOUS
  <2>1. PICK m \in Bad : \A k \in Bad : m <= k
    <3>1. Bad \subseteq Nat
      BY <1>1
    <3> HIDE DEF Bad
    <3>2. QED
      BY <3>1, LeastNatural
  <2>2. m \in 1 .. n /\ Good(m - 1)
    BY <1>1, <1>4, <2>1
  <2>3. QED
    BY <1>5, <2>1, <2>2
<1>7. \A d \in 0 .. n : Good(d)
  BY <1>6
<1>8. QED
  BY <1>7 DEF Good, f

\* However much of a text parse_value takes, and wherever it fails: what it has
\* allocated is what json_delete frees with the value, or nothing if it fails or
\* is called without `out`; no buffer has been overrun; and it ends behind where
\* it began and not behind the text (lib/json/json.c:623-791).
THEOREM ParseValueKeeps ==
  ASSUME NEW t \in String, NEW i \in 1 .. Len(t) + 1, NEW out \in BOOLEAN
  PROVE  Sound(t, i, out, parse_value(t, i, out))
<1>1. Len(t) \in 0 .. Len(t)
  BY StringLength
<1>2. Table(t, out, Nested(t, out)[Len(t)])
  BY <1>1, NestedSound
<1>3. QED
  BY <1>2 DEF Table, parse_value

LEMMA AloneKeeps ==
  ASSUME NEW t \in String, NEW i, NEW out \in BOOLEAN, NEW p, Sound(t, i, out, p),
         NEW q, q = Alone(t, p, out)
  PROVE  /\ q.over = FALSE /\ q.ok \in BOOLEAN
         /\ q.live = IF q.ok /\ out THEN q.val.blocks ELSE 0
<1>1. CASE p.ok /\ At(t, skip_space(t, p.pos)) # 0
  <2>1. p.live - Held(p.val, out) = 0
    BY <1>1 DEF Sound, Held
  <2>2. q = Failed(0, FALSE)
    BY <1>1, <2>1 DEF Alone, Sound
  <2>3. q.ok = FALSE /\ q.over = FALSE /\ q.live = 0
    BY <2>2 DEF Failed
  <2>4. QED
    BY <2>3
<1>2. CASE ~(p.ok /\ At(t, skip_space(t, p.pos)) # 0)
  <2>1. q = p
    BY <1>2 DEF Alone
  <2>2. QED
    BY <2>1 DEF Sound
<1>3. QED
  BY <1>1, <1>2

\* json_decode owns exactly the document it returns, nothing if it returns none,
\* and json_validate never owns anything; neither overruns a buffer, on any text
\* (lib/json/json.c:362-380, 433-447).
THEOREM DecodeKeeps ==
  ASSUME NEW t \in String
  PROVE  /\ json_decode(t).over = FALSE
         /\ json_decode(t).live = IF json_decode(t).ok THEN json_decode(t).val.blocks ELSE 0
         /\ json_validate(t).over = FALSE
         /\ json_validate(t).live = 0
<1> DEFINE i == skip_space(t, 1)
           d == json_decode(t)
           v == json_validate(t)
<1>1. i \in 1 .. Len(t) + 1
  <2>1. 1 \in 1 .. Len(t) + 1
    BY StringLength
  <2>2. QED
    BY <2>1, SkipSpacePlace
<1> HIDE DEF i
<1>2. d.over = FALSE /\ d.live = IF d.ok /\ TRUE THEN d.val.blocks ELSE 0
  <2> DEFINE out == TRUE
             p == parse_value(t, i, out)
  <2>1. d = Alone(t, p, out) /\ out \in BOOLEAN /\ out = TRUE
    BY DEF json_decode, i
  <2> HIDE DEF out
  <2>2. Sound(t, i, out, p)
    BY <1>1, <2>1, ParseValueKeeps
  <2> HIDE DEF p, d
  <2>3. d.over = FALSE /\ d.live = IF d.ok /\ out THEN d.val.blocks ELSE 0
    BY <2>1, <2>2, AloneKeeps
  <2>4. QED
    BY <2>1, <2>3
<1>3. v.over = FALSE /\ v.live = IF v.ok /\ FALSE THEN v.val.blocks ELSE 0
  <2> DEFINE out == FALSE
             p == parse_value(t, i, out)
  <2>1. v = Alone(t, p, out) /\ out \in BOOLEAN /\ out = FALSE
    BY DEF json_validate, i
  <2> HIDE DEF out
  <2>2. Sound(t, i, out, p)
    BY <1>1, <2>1, ParseValueKeeps
  <2> HIDE DEF p, v
  <2>3. v.over = FALSE /\ v.live = IF v.ok /\ out THEN v.val.blocks ELSE 0
    BY <2>1, <2>2, AloneKeeps
  <2>4. QED
    BY <2>1, <2>3
<1> HIDE DEF d, v
<1>4. d.over = FALSE /\ (d.live = IF d.ok THEN d.val.blocks ELSE 0) /\ v.over = FALSE /\ v.live = 0
  BY <1>2, <1>3
<1>5. QED
  BY <1>4 DEF d, v
-----------------------------------------------------------------------------
(* Two runs of the parser over one text, with `a` and with `b` for `out`: they *)
(* take the same way through it, and do the same if a and b are the same.      *)

Like(a, b, p, q) == p.ok = q.ok /\ (p.ok => p.pos = q.pos) /\ (a = b => p = q)

LoopLike(a, b, l, m) ==
  /\ l.ended = m.ended /\ (a = b => l = m)
  /\ l.ended  => Like(a, b, l.res, m.res)
  /\ ~l.ended => l.pos = m.pos

LEMMA SameLike ==
  ASSUME NEW a, NEW b, NEW p
  PROVE  Like(a, b, p, p)
BY DEF Like

LEMMA FailedLike ==
  ASSUME NEW a, NEW b, NEW live, NEW over, NEW live2, NEW over2,
         a = b => live = live2 /\ over = over2
  PROVE  Like(a, b, Failed(live, over), Failed(live2, over2))
<1> DEFINE p == Failed(live, over)
           q == Failed(live2, over2)
<1>1. p.ok = FALSE /\ q.ok = FALSE
  BY DEF Failed
<1>2. a = b => p = q
  OBVIOUS
<1> HIDE DEF p, q
<1>3. Like(a, b, p, q)
  BY <1>1, <1>2 DEF Like
<1>4. QED
  BY <1>3 DEF p, q

LEMMA ParsedLike ==
  ASSUME NEW a, NEW b, NEW pos, NEW v, NEW live, NEW over, NEW w, NEW live2, NEW over2,
         a = b => v = w /\ live = live2 /\ over = over2
  PROVE  Like(a, b, Parsed(pos, v, live, over), Parsed(pos, w, live2, over2))
<1> DEFINE p == Parsed(pos, v, live, over)
           q == Parsed(pos, w, live2, over2)
<1>1. p.ok = TRUE /\ q.ok = TRUE /\ p.pos = pos /\ q.pos = pos
  BY DEF Parsed
<1>2. a = b => p = q
  OBVIOUS
<1> HIDE DEF p, q
<1>3. Like(a, b, p, q)
  BY <1>1, <1>2 DEF Like
<1>4. QED
  BY <1>3 DEF p, q

LEMMA EndedLike ==
  ASSUME NEW a, NEW b, NEW p, NEW q, Like(a, b, p, q)
  PROVE  LoopLike(a, b, Ended(p), Ended(q))
<1>1. Ended(p).ended = TRUE /\ Ended(p).res = p /\ Ended(q).ended = TRUE /\ Ended(q).res = q
  BY DEF Ended
<1>2. a = b => Ended(p) = Ended(q)
  BY DEF Like
<1>3. QED
  BY <1>1, <1>2 DEF LoopLike

LEMMA GoesOnLike ==
  ASSUME NEW a, NEW b, NEW pos, NEW ret, NEW live, NEW over, NEW ret2, NEW live2, NEW over2,
         a = b => ret = ret2 /\ live = live2 /\ over = over2
  PROVE  LoopLike(a, b, GoesOn(pos, ret, live, over), GoesOn(pos, ret2, live2, over2))
<1> DEFINE l == GoesOn(pos, ret, live, over)
           m == GoesOn(pos, ret2, live2, over2)
<1>1. l.ended = FALSE /\ m.ended = FALSE /\ l.pos = pos /\ m.pos = pos
  BY DEF GoesOn
<1>2. a = b => l = m
  OBVIOUS
<1> HIDE DEF l, m
<1>3. LoopLike(a, b, l, m)
  BY <1>1, <1>2 DEF LoopLike
<1>4. QED
  BY <1>3 DEF l, m

LEMMA BehindLike ==
  ASSUME NEW t, NEW pos, NEW close, NEW a, NEW b, NEW ret, NEW live, NEW over,
         NEW ret2, NEW live2, NEW over2, a = b => ret = ret2 /\ live = live2 /\ over = over2
  PROVE  LoopLike(a, b, Behind(t, pos, close, ret, live, a, over),
                  Behind(t, pos, close, ret2, live2, b, over2))
<1> DEFINE j == skip_space(t, pos)
           l == Behind(t, pos, close, ret, live, a, over)
           m == Behind(t, pos, close, ret2, live2, b, over2)
<1>1. l = IF At(t, j) = close THEN Ended(Parsed(j + 1, ret, live, over))
          ELSE IF At(t, j) = 44 THEN GoesOn(skip_space(t, j + 1), ret, live, over)
          ELSE Ended(Failed(live - Held(ret, a), over))
  BY DEF Behind
<1>2. m = IF At(t, j) = close THEN Ended(Parsed(j + 1, ret2, live2, over2))
          ELSE IF At(t, j) = 44 THEN GoesOn(skip_space(t, j + 1), ret2, live2, over2)
          ELSE Ended(Failed(live2 - Held(ret2, b), over2))
  BY DEF Behind
<1> HIDE DEF j, l, m
<1>3. CASE At(t, j) = close
  <2>1. Like(a, b, Parsed(j + 1, ret, live, over), Parsed(j + 1, ret2, live2, over2))
    BY ParsedLike
  <2>2. QED
    BY <1>1, <1>2, <1>3, <2>1, EndedLike DEF l, m
<1>4. CASE At(t, j) # close /\ At(t, j) = 44
  <2> DEFINE k == skip_space(t, j + 1)
  <2>1. LoopLike(a, b, GoesOn(k, ret, live, over), GoesOn(k, ret2, live2, over2))
    BY GoesOnLike
  <2>2. QED
    BY <1>1, <1>2, <1>4, <2>1 DEF l, m
<1>5. CASE At(t, j) # close /\ At(t, j) # 44
  <2> DEFINE rest == live - Held(ret, a)
             rest2 == live2 - Held(ret2, b)
  <2>1. a = b => rest = rest2 /\ over = over2
    OBVIOUS
  <2>2. l = Ended(Failed(rest, over)) /\ m = Ended(Failed(rest2, over2))
    BY <1>1, <1>2, <1>5
  <2> HIDE DEF rest, rest2
  <2>3. Like(a, b, Failed(rest, over), Failed(rest2, over2))
    BY <2>1, FailedLike
  <2>4. QED
    BY <2>2, <2>3, EndedLike DEF l, m
<1>6. QED
  BY <1>3, <1>4, <1>5

\* What two runs do behind the place i.
TablesLike(t, i, a, b, inner, inner2) ==
  \A j \in i + 1 .. Len(t) + 1 : Like(a, b, inner[j], inner2[j])

LEMMA ElementLike ==
  ASSUME NEW t \in String, NEW i \in Nat \ {0}, NEW k \in Nat, NEW a, NEW b, NEW inner, NEW inner2,
         TablesLike(t, i, a, b, inner, inner2), NEW l, NEW m, LoopLike(a, b, l, m),
         Filling(t, i, a, k, l)
  PROVE  LoopLike(a, b, ElementRound(t, inner, l, a), ElementRound(t, inner2, m, b))
<1> DEFINE x == ElementRound(t, inner, l, a)
           y == ElementRound(t, inner2, m, b)
<1>1. CASE l.ended
  <2>1. x = l /\ y = m
    BY <1>1 DEF ElementRound, LoopLike
  <2>2. QED
    BY <2>1
<1>2. CASE ~l.ended
  <2> DEFINE e == inner[l.pos]
             f == inner2[m.pos]
             over == l.over \/ e.over
             over2 == m.over \/ f.over
             live == l.live + e.live
             live2 == m.live + f.live
             ret == WithElement(l.ret, e.val, a)
             ret2 == WithElement(m.ret, f.val, b)
             rest == live - Held(l.ret, a)
             rest2 == live2 - Held(m.ret, b)
  <2>1. ~m.ended /\ l.pos = m.pos
    BY <1>2 DEF LoopLike
  <2>2. Like(a, b, e, f)
    <3>1. l.pos \in i + k + 1 .. Len(t) + 1
      BY <1>2 DEF Filling
    <3>2. l.pos \in i + 1 .. Len(t) + 1
      BY <3>1, StringLength
    <3>3. QED
      BY <2>1, <3>2 DEF TablesLike
  <2>3. a = b => l = m /\ e = f
    BY <2>2 DEF Like, LoopLike
  <2>4. x = IF ~e.ok THEN Ended(Failed(rest, over)) ELSE Behind(t, e.pos, 93, ret, live, a, over)
    BY <1>2, Zenon DEF ElementRound
  <2>5. y = IF ~f.ok THEN Ended(Failed(rest2, over2))
            ELSE Behind(t, f.pos, 93, ret2, live2, b, over2)
    BY <2>1, Zenon DEF ElementRound
  <2> HIDE DEF x, y, e, f
  <2>6. a = b => /\ ret = ret2 /\ live = live2 /\ over = over2 /\ rest = rest2
    BY <2>3
  <2> HIDE DEF over, over2, live, live2, ret, ret2, rest, rest2
  <2>7. CASE ~e.ok
    <3>1. Like(a, b, Failed(rest, over), Failed(rest2, over2))
      BY <2>6, FailedLike
    <3>2. ~f.ok
      BY <2>2, <2>7 DEF Like
    <3>3. QED
      BY <2>4, <2>5, <2>7, <3>1, <3>2, EndedLike DEF x, y
  <2>8. CASE e.ok
    <3>1. f.ok /\ e.pos = f.pos
      BY <2>2, <2>8 DEF Like
    <3> DEFINE close == 93
               pos == e.pos
    <3>2. x = Behind(t, pos, close, ret, live, a, over)
          /\ y = Behind(t, pos, close, ret2, live2, b, over2)
      BY <2>4, <2>5, <2>8, <3>1
    <3> HIDE DEF close, pos
    <3>3. LoopLike(a, b, Behind(t, pos, close, ret, live, a, over),
                   Behind(t, pos, close, ret2, live2, b, over2))
      BY <2>6, BehindLike
    <3>4. QED
      BY <3>2, <3>3 DEF x, y
  <2>9. QED
    BY <2>7, <2>8
<1>3. QED
  BY <1>1, <1>2

LEMMA StringLike ==
  ASSUME NEW t \in String, NEW i \in Nat \ {0}, NEW a \in BOOLEAN, NEW b \in BOOLEAN
  PROVE  Like(a, b, parse_string(t, i, a), parse_string(t, i, b))
<1> DEFINE n == Len(t)
           l == StringLoop(t, i, a)[n]
           m == StringLoop(t, i, b)[n]
           p == parse_string(t, i, a)
           q == parse_string(t, i, b)
<1>1. CASE a = b
  BY <1>1, SameLike
<1>2. CASE a # b
  <2>1. l.pos = m.pos
    <3>1. n \in 0 .. n
      BY StringLength
    <3>2. StringLoop(t, i, TRUE)[n].pos = StringLoop(t, i, FALSE)[n].pos
      BY <3>1, SamePlace
    <3>3. CASE a = TRUE /\ b = FALSE
      BY <3>2, <3>3
    <3>4. CASE a = FALSE /\ b = TRUE
      BY <3>2, <3>4
    <3>5. QED
      BY <1>2, <3>3, <3>4
  <2>2. p = IF At(t, i) # 34 THEN Failed(0, FALSE) ELSE StringEnd(t, l, a)
    BY DEF parse_string
  <2>3. q = IF At(t, i) # 34 THEN Failed(0, FALSE) ELSE StringEnd(t, m, b)
    BY DEF parse_string
  <2> HIDE DEF p, q
  <2>4. CASE At(t, i) # 34
    BY <2>2, <2>3, <2>4, SameLike DEF p, q
  <2>5. CASE At(t, i) = 34 /\ At(t, l.pos) = 34
    <3> DEFINE pos == l.pos + 1
               v == Value("string", l.sb.bytes)
               w == Value("string", m.sb.bytes)
               live == IF a THEN 1 ELSE 0
               live2 == IF b THEN 1 ELSE 0
    <3>1. p = Parsed(pos, v, live, l.sb.over) /\ q = Parsed(pos, w, live2, m.sb.over)
      BY <2>1, <2>2, <2>3, <2>5 DEF StringEnd
    <3> HIDE DEF l, m, pos, v, w, live, live2
    <3>2. Like(a, b, Parsed(pos, v, live, l.sb.over), Parsed(pos, w, live2, m.sb.over))
      BY <1>2, ParsedLike
    <3>3. QED
      BY <3>1, <3>2 DEF p, q
  <2>6. CASE At(t, i) = 34 /\ At(t, l.pos) # 34
    <3> DEFINE none == 0
    <3>1. p = Failed(none, l.sb.over) /\ q = Failed(none, m.sb.over)
      BY <2>1, <2>2, <2>3, <2>6 DEF StringEnd
    <3> HIDE DEF l, m, none
    <3>2. Like(a, b, Failed(none, l.sb.over), Failed(none, m.sb.over))
      BY <1>2, FailedLike
    <3>3. QED
      BY <3>1, <3>2 DEF p, q
  <2>7. QED
    BY <2>4, <2>5, <2>6
<1>3. QED
  BY <1>1, <1>2

LEMMA NodeLike ==
  ASSUME NEW a, NEW b, NEW p, NEW q, Like(a, b, p, q)
  PROVE  Like(a, b, StringNode(p, a), StringNode(q, b))
<1> DEFINE x == StringNode(p, a)
           y == StringNode(q, b)
           live == p.live + (IF a THEN 1 ELSE 0)
           live2 == q.live + (IF b THEN 1 ELSE 0)
<1>1. x = IF p.ok THEN Parsed(p.pos, p.val, live, p.over) ELSE p
  BY DEF StringNode
<1>2. y = IF q.ok THEN Parsed(q.pos, q.val, live2, q.over) ELSE q
  BY DEF StringNode
<1>3. a = b => p = q /\ live = live2
  BY DEF Like
<1> HIDE DEF x, y, live, live2
<1>4. CASE p.ok
  <2> DEFINE pos == p.pos
             v == p.val
             w == q.val
             over == p.over
             over2 == q.over
  <2>1. x = Parsed(pos, v, live, over) /\ y = Parsed(pos, w, live2, over2)
    BY <1>1, <1>2, <1>4 DEF Like
  <2>2. a = b => v = w /\ live = live2 /\ over = over2
    BY <1>3
  <2> HIDE DEF pos, v, w, over, over2
  <2>3. Like(a, b, Parsed(pos, v, live, over), Parsed(pos, w, live2, over2))
    BY <2>2, ParsedLike
  <2>4. QED
    BY <2>1, <2>3 DEF x, y
<1>5. CASE ~p.ok
  <2>1. x = p /\ y = q
    BY <1>1, <1>2, <1>5 DEF Like
  <2>2. QED
    BY <2>1 DEF x, y
<1>6. QED
  BY <1>4, <1>5

\* A key is followed by its value in the text.
LEMMA MemberPlaces ==
  ASSUME NEW t \in String, NEW pos \in 1 .. Len(t) + 1, NEW out \in BOOLEAN,
         NEW j, j = skip_space(t, parse_string(t, pos, out).pos),
         parse_string(t, pos, out).ok, At(t, j) = 58
  PROVE  skip_space(t, j + 1) \in pos + 1 .. Len(t) + 1
<1> DEFINE n == Len(t)
           p == parse_string(t, pos, out)
           at == skip_space(t, j + 1)
<1>1. n \in Nat /\ pos \in Nat \ {0}
  BY StringLength
<1>2. p.pos \in pos + 1 .. n + 1
  BY <1>1, StringResult
<1> HIDE DEF p
<1>3. p.pos \in 1 .. n + 1
  BY <1>1, <1>2
<1>4. j \in p.pos .. n + 1
  BY <1>3, SkipSpacePlace DEF p
<1>5. j \in 1 .. n + 1 /\ At(t, j) # 0
  BY <1>1, <1>3, <1>4
<1>6. j + 1 \in 1 .. n + 1
  BY <1>5, NextPlace
<1>7. at \in j + 1 .. n + 1
  BY <1>6, SkipSpacePlace
<1> HIDE DEF at
<1>8. QED
  BY <1>1, <1>2, <1>4, <1>7 DEF at

LEMMA MemberLike ==
  ASSUME NEW t \in String, NEW i \in Nat \ {0}, NEW k \in Nat, NEW a \in BOOLEAN, NEW b \in BOOLEAN,
         NEW inner, NEW inner2, TablesLike(t, i, a, b, inner, inner2),
         NEW l, NEW m, LoopLike(a, b, l, m), Filling(t, i, a, k, l)
  PROVE  LoopLike(a, b, MemberRound(t, inner, l, a), MemberRound(t, inner2, m, b))
<1> DEFINE x == MemberRound(t, inner, l, a)
           y == MemberRound(t, inner2, m, b)
<1>1. CASE l.ended
  <2>1. x = l /\ y = m
    BY <1>1 DEF MemberRound, MemberKey, LoopLike
  <2>2. QED
    BY <2>1
<1>2. CASE ~l.ended
  <2> DEFINE key == parse_string(t, l.pos, a)
             key2 == parse_string(t, m.pos, b)
             j == skip_space(t, key.pos)
             j2 == skip_space(t, key2.pos)
             v == MemberValue(t, inner, l, key, j, a)
             v2 == MemberValue(t, inner2, m, key2, j2, b)
             rest == l.live + key.live - Held(l.ret, a)
             rest2 == m.live + key2.live - Held(m.ret, b)
             over == l.over \/ key.over
             over2 == m.over \/ key2.over
  <2>1. ~m.ended /\ l.pos = m.pos /\ (a = b => l = m)
    BY <1>2 DEF LoopLike
  <2>2. l.pos \in Nat \ {0} /\ l.pos \in 1 .. Len(t) + 1 /\ l.pos >= i + 1
    <3>1. l.pos \in i + k + 1 .. Len(t) + 1
      BY <1>2 DEF Filling
    <3>2. QED
      BY <3>1, StringLength
  <2>3. Like(a, b, key, key2)
    <3>1. Like(a, b, parse_string(t, l.pos, a), parse_string(t, l.pos, b))
      BY <2>2, StringLike
    <3>2. QED
      BY <2>1, <3>1
  <2>4. x = IF ~key.ok THEN Ended(Failed(rest, over)) ELSE v
    BY <1>2, Zenon DEF MemberRound, MemberKey
  <2>5. y = IF ~key2.ok THEN Ended(Failed(rest2, over2)) ELSE v2
    BY <2>1, Zenon DEF MemberRound, MemberKey
  <2>6. a = b => key = key2 /\ l = m
    BY <2>1, <2>3 DEF Like
  <2>7. a = b => rest = rest2 /\ over = over2
    BY <2>6
  <2>8. CASE ~key.ok
    <3>1. ~key2.ok
      BY <2>3, <2>8 DEF Like
    <3> HIDE DEF x, y, v, v2, rest, rest2, over, over2, key, key2
    <3>2. Like(a, b, Failed(rest, over), Failed(rest2, over2))
      BY <2>7, FailedLike
    <3>3. QED
      BY <2>4, <2>5, <2>8, <3>1, <3>2, EndedLike DEF x, y
  <2>9. CASE key.ok
    <3>1. key2.ok /\ key.pos = key2.pos
      BY <2>3, <2>9 DEF Like
    <3>2. j = j2
      BY <3>1
    <3>3. x = v /\ y = v2
      BY <2>4, <2>5, <2>9, <3>1, Zenon
    <3> DEFINE at == skip_space(t, j + 1)
               at2 == skip_space(t, j2 + 1)
               e == inner[at]
               f == inner2[at2]
               all == l.live + key.live + e.live
               all2 == m.live + key2.live + f.live
               off == l.live + key.live - FreedKey(a) - Held(l.ret, a)
               off2 == m.live + key2.live - FreedKey(b) - Held(m.ret, b)
               less == all - FreedKey(a) - Held(l.ret, a)
               less2 == all2 - FreedKey(b) - Held(m.ret, b)
               any == l.over \/ key.over \/ e.over
               any2 == m.over \/ key2.over \/ f.over
               ret == WithMember(l.ret, key.val.s, e.val, a)
               ret2 == WithMember(m.ret, key2.val.s, f.val, b)
    <3>4. v = IF At(t, j) # 58 THEN Ended(Failed(off, over))
              ELSE IF ~e.ok THEN Ended(Failed(less, any))
              ELSE Behind(t, e.pos, 125, ret, all, a, any)
      BY DEF MemberValue
    <3>5. v2 = IF At(t, j2) # 58 THEN Ended(Failed(off2, over2))
               ELSE IF ~f.ok THEN Ended(Failed(less2, any2))
               ELSE Behind(t, f.pos, 125, ret2, all2, b, any2)
      BY DEF MemberValue
    <3>6. at = at2
      BY <3>2
    <3>7. At(t, j) = 58 => Like(a, b, e, f)
      <4> SUFFICES ASSUME At(t, j) = 58 PROVE Like(a, b, e, f)
        OBVIOUS
      <4>1. at \in l.pos + 1 .. Len(t) + 1
        BY <2>2, <2>9, MemberPlaces
      <4> HIDE DEF at
      <4>2. at \in i + 1 .. Len(t) + 1
        BY <2>2, <4>1, StringLength
      <4>3. QED
        BY <3>6, <4>2 DEF TablesLike
    <3>8. a = b => off = off2
      BY <2>6
    <3> HIDE DEF x, y, v, v2, e, f, key, key2, rest, rest2, j, j2, at, at2
    <3>9. a = b /\ e = f => all = all2 /\ less = less2 /\ any = any2 /\ ret = ret2
      BY <2>6
    <3> HIDE DEF over, over2, all, all2, off, off2, less, less2, any, any2, ret, ret2
    <3>10. CASE At(t, j) # 58
      <4>1. Like(a, b, Failed(off, over), Failed(off2, over2))
        BY <2>7, <3>8, FailedLike
      <4>2. x = Ended(Failed(off, over)) /\ y = Ended(Failed(off2, over2))
        BY <3>2, <3>3, <3>4, <3>5, <3>10
      <4>3. QED
        BY <4>1, <4>2, EndedLike DEF x, y
    <3>11. CASE At(t, j) = 58 /\ ~e.ok
      <4>1. ~f.ok /\ (a = b => e = f)
        BY <3>7, <3>11 DEF Like
      <4>2. Like(a, b, Failed(less, any), Failed(less2, any2))
        BY <3>9, <4>1, FailedLike
      <4>3. x = Ended(Failed(less, any)) /\ y = Ended(Failed(less2, any2))
        BY <3>2, <3>3, <3>4, <3>5, <3>11, <4>1
      <4>4. QED
        BY <4>2, <4>3, EndedLike DEF x, y
    <3>12. CASE At(t, j) = 58 /\ e.ok
      <4>1. f.ok /\ e.pos = f.pos /\ (a = b => e = f)
        BY <3>7, <3>12 DEF Like
      <4> DEFINE close == 125
                 pos == e.pos
      <4>2. x = Behind(t, pos, close, ret, all, a, any)
            /\ y = Behind(t, pos, close, ret2, all2, b, any2)
        BY <3>2, <3>3, <3>4, <3>5, <3>12, <4>1
      <4> HIDE DEF close, pos
      <4>3. a = b => ret = ret2 /\ all = all2 /\ any = any2
        BY <3>9, <4>1
      <4>4. LoopLike(a, b, Behind(t, pos, close, ret, all, a, any),
                     Behind(t, pos, close, ret2, all2, b, any2))
        BY <4>3, BehindLike
      <4>5. QED
        BY <4>2, <4>4 DEF x, y
    <3>13. QED
      BY <3>10, <3>11, <3>12
  <2>10. QED
    BY <2>8, <2>9
<1>3. QED
  BY <1>1, <1>2

\* Two runs over one container stay together round by round.
LEMMA TurnsLike ==
  ASSUME NEW t \in String, NEW i \in Nat \ {0}, NEW a \in BOOLEAN, NEW b \in BOOLEAN,
         NEW inner, NEW inner2, Table(t, a, inner), TablesLike(t, i, a, b, inner, inner2),
         NEW x, NEW y,
         \/ x = OverElements(t, inner, a) /\ y = OverElements(t, inner2, b)
         \/ x = OverMembers(t, inner, a) /\ y = OverMembers(t, inner2, b),
         NEW s, Filling(t, i, a, 0, s), NEW u, LoopLike(a, b, s, u),
         NEW n \in Nat, NEW f, IsTurns(f, x, s, n), NEW g, IsTurns(g, y, u, n)
  PROVE  \A k \in 0 .. n : LoopLike(a, b, f[k], g[k])
<1> DEFINE T(l) == Turn(x, l)
           U(l) == Turn(y, l)
           Both(l, m) == LoopLike(a, b, l, m)
           F(k, l) == Filling(t, i, a, k, l)
<1>1. \A k \in Nat : \A l, m : F(k, l) /\ Both(l, m) => Both(T(l), U(m))
  <2>1. CASE x = OverElements(t, inner, a) /\ y = OverElements(t, inner2, b)
    <3>1. /\ \A l : Turn(x, l) = ElementRound(t, inner, l, a)
          /\ \A m : Turn(y, m) = ElementRound(t, inner2, m, b)
      BY <2>1 DEF Turn, OverElements
    <3>2. \A k \in Nat : \A l, m : Filling(t, i, a, k, l) /\ LoopLike(a, b, l, m)
            => LoopLike(a, b, ElementRound(t, inner, l, a), ElementRound(t, inner2, m, b))
      BY ElementLike
    <3>3. QED
      BY <3>1, <3>2
  <2>2. CASE x = OverMembers(t, inner, a) /\ y = OverMembers(t, inner2, b)
    <3>1. /\ \A l : Turn(x, l) = MemberRound(t, inner, l, a)
          /\ \A m : Turn(y, m) = MemberRound(t, inner2, m, b)
      BY <2>2 DEF Turn, OverMembers
    <3>2. \A k \in Nat : \A l, m : Filling(t, i, a, k, l) /\ LoopLike(a, b, l, m)
            => LoopLike(a, b, MemberRound(t, inner, l, a), MemberRound(t, inner2, m, b))
      BY MemberLike
    <3>3. QED
      BY <3>1, <3>2
  <2>3. QED
    BY <2>1, <2>2
<1>2. x \in {OverElements(t, inner, a), OverMembers(t, inner, a)}
  OBVIOUS
<1>3. \A k \in 0 .. n : F(k, f[k])
  BY <1>2, FillingAll
<1>4. /\ f = [k \in 0 .. n |-> IF k = 0 THEN s ELSE T(f[k - 1])]
      /\ g = [k \in 0 .. n |-> IF k = 0 THEN u ELSE U(g[k - 1])]
  BY DEF IsTurns
<1>5. Both(s, u)
  OBVIOUS
<1> HIDE DEF T, U, Both, F
<1>6. f[0] = s /\ g[0] = u
  BY <1>4
<1>7. \A k \in 1 .. n : f[k] = T(f[k - 1]) /\ g[k] = U(g[k - 1])
  BY <1>4
<1> DEFINE Bad == {k \in 0 .. n : ~Both(f[k], g[k])}
<1>8. Bad = {}
  <2> SUFFICES ASSUME Bad # {} PROVE FALSE
    OBVIOUS
  <2>1. PICK m \in Bad : \A k \in Bad : m <= k
    <3>1. Bad \subseteq Nat
      OBVIOUS
    <3> HIDE DEF Bad
    <3>2. QED
      BY <3>1, LeastNatural
  <2>2. m \in 1 .. n /\ m - 1 \in Nat /\ m - 1 \in 0 .. n
    BY <1>5, <1>6, <2>1
  <2>3. Both(f[m - 1], g[m - 1]) /\ F(m - 1, f[m - 1])
    BY <1>3, <2>1, <2>2
  <2>4. Both(T(f[m - 1]), U(g[m - 1]))
    BY <1>1, <2>2, <2>3
  <2>5. Both(f[m], g[m])
    BY <1>7, <2>2, <2>4
  <2>6. QED
    BY <2>1, <2>5
<1>9. \A k \in 0 .. n : Both(f[k], g[k])
  BY <1>8
<1>10. QED
  BY <1>9 DEF Both

LEMMA StartLike ==
  ASSUME NEW t, NEW j, NEW ret, NEW a, NEW b
  PROVE  LoopLike(a, b, Started(t, j, ret, a), Started(t, j, ret, b))
<1> DEFINE live == Held(ret, a)
           live2 == Held(ret, b)
           over == FALSE
<1>1. Started(t, j, ret, a) = GoesOn(j, ret, live, over)
      /\ Started(t, j, ret, b) = GoesOn(j, ret, live2, over)
  BY DEF Started
<1>2. a = b => live = live2
  OBVIOUS
<1> HIDE DEF live, live2, over
<1>3. LoopLike(a, b, GoesOn(j, ret, live, over), GoesOn(j, ret, live2, over))
  BY <1>2, GoesOnLike
<1>4. QED
  BY <1>1, <1>3

\* The place behind the opening of a container and the space there.
LEMMA OpenedPlace ==
  ASSUME NEW t \in String, NEW i \in 1 .. Len(t) + 1, At(t, i) # 0
  PROVE  skip_space(t, i + 1) \in i + 1 .. Len(t) + 1
<1>1. i + 1 \in 1 .. Len(t) + 1
  BY NextPlace
<1>2. QED
  BY <1>1, SkipSpacePlace

LEMMA ArrayLike ==
  ASSUME NEW t \in String, NEW i \in 1 .. Len(t) + 1, NEW a \in BOOLEAN, NEW b \in BOOLEAN,
         NEW inner, NEW inner2, Table(t, a, inner), TablesLike(t, i, a, b, inner, inner2),
         At(t, i) = 91
  PROVE  Like(a, b, parse_array(t, inner, i, a), parse_array(t, inner2, i, b))
<1> DEFINE n == Len(t)
           ret == Value("array", <<>>)
           j == skip_space(t, i + 1)
           f == Elements(t, inner, j, ret, a)
           g == Elements(t, inner2, j, ret, b)
           p == parse_array(t, inner, i, a)
           q == parse_array(t, inner2, i, b)
<1>1. n \in Nat /\ i \in Nat \ {0}
  BY StringLength
<1>2. p = IF At(t, j) = 93 THEN Parsed(j + 1, ret, Held(ret, a), FALSE) ELSE f[n].res
  BY DEF parse_array
<1>3. q = IF At(t, j) = 93 THEN Parsed(j + 1, ret, Held(ret, b), FALSE) ELSE g[n].res
  BY DEF parse_array
<1>4. j \in i + 1 .. n + 1
  <2>1. At(t, i) # 0
    OBVIOUS
  <2>2. QED
    BY <2>1, OpenedPlace
<1>5. CASE At(t, j) = 93
  <2> DEFINE pos == j + 1
             live == Held(ret, a)
             live2 == Held(ret, b)
             over == FALSE
  <2>1. p = Parsed(pos, ret, live, over) /\ q = Parsed(pos, ret, live2, over)
    BY <1>2, <1>3, <1>5
  <2>2. a = b => live = live2
    OBVIOUS
  <2> HIDE DEF p, q, pos, ret, live, live2, over
  <2>3. Like(a, b, Parsed(pos, ret, live, over), Parsed(pos, ret, live2, over))
    BY <2>2, ParsedLike
  <2>4. QED
    BY <2>1, <2>3 DEF p, q
<1>6. CASE At(t, j) # 93
  <2> DEFINE x == OverElements(t, inner, a)
             y == OverElements(t, inner2, b)
             s == Started(t, j, ret, a)
             u == Started(t, j, ret, b)
  <2>1. IsTurns(f, x, s, n) /\ IsTurns(g, y, u, n)
    BY ElementsTurns
  <2>2. Filling(t, i, a, 0, s) /\ LoopLike(a, b, s, u)
    BY <1>1, <1>4, StartFilling, StartLike
  <2>3. /\ \/ x = OverElements(t, inner, a) /\ y = OverElements(t, inner2, b)
           \/ x = OverMembers(t, inner, a) /\ y = OverMembers(t, inner2, b)
        /\ x \in {OverElements(t, inner, a), OverMembers(t, inner, a)}
    OBVIOUS
  <2>4. p = f[n].res /\ q = g[n].res
    BY <1>2, <1>3, <1>6
  <2> HIDE DEF x, y, s, u, f, g, p, q, j
  <2>5. \A k \in 0 .. n : LoopLike(a, b, f[k], g[k])
    BY <1>1, <2>1, <2>2, <2>3, TurnsLike
  <2>6. \A k \in 0 .. n : Filling(t, i, a, k, f[k])
    BY <1>1, <2>1, <2>2, <2>3, FillingAll
  <2>7. LoopLike(a, b, f[n], g[n]) /\ f[n].ended
    BY <1>1, <2>5, <2>6, FillingEnds
  <2>8. QED
    BY <2>4, <2>7 DEF LoopLike, p, q
<1>7. QED
  BY <1>5, <1>6

LEMMA ObjectLike ==
  ASSUME NEW t \in String, NEW i \in 1 .. Len(t) + 1, NEW a \in BOOLEAN, NEW b \in BOOLEAN,
         NEW inner, NEW inner2, Table(t, a, inner), TablesLike(t, i, a, b, inner, inner2),
         At(t, i) = 123
  PROVE  Like(a, b, parse_object(t, inner, i, a), parse_object(t, inner2, i, b))
<1> DEFINE n == Len(t)
           ret == Value("object", <<>>)
           j == skip_space(t, i + 1)
           f == Members(t, inner, j, ret, a)
           g == Members(t, inner2, j, ret, b)
           p == parse_object(t, inner, i, a)
           q == parse_object(t, inner2, i, b)
<1>1. n \in Nat /\ i \in Nat \ {0}
  BY StringLength
<1>2. p = IF At(t, j) = 125 THEN Parsed(j + 1, ret, Held(ret, a), FALSE) ELSE f[n].res
  BY DEF parse_object
<1>3. q = IF At(t, j) = 125 THEN Parsed(j + 1, ret, Held(ret, b), FALSE) ELSE g[n].res
  BY DEF parse_object
<1>4. j \in i + 1 .. n + 1
  <2>1. At(t, i) # 0
    OBVIOUS
  <2>2. QED
    BY <2>1, OpenedPlace
<1>5. CASE At(t, j) = 125
  <2> DEFINE pos == j + 1
             live == Held(ret, a)
             live2 == Held(ret, b)
             over == FALSE
  <2>1. p = Parsed(pos, ret, live, over) /\ q = Parsed(pos, ret, live2, over)
    BY <1>2, <1>3, <1>5
  <2>2. a = b => live = live2
    OBVIOUS
  <2> HIDE DEF p, q, pos, ret, live, live2, over
  <2>3. Like(a, b, Parsed(pos, ret, live, over), Parsed(pos, ret, live2, over))
    BY <2>2, ParsedLike
  <2>4. QED
    BY <2>1, <2>3 DEF p, q
<1>6. CASE At(t, j) # 125
  <2> DEFINE x == OverMembers(t, inner, a)
             y == OverMembers(t, inner2, b)
             s == Started(t, j, ret, a)
             u == Started(t, j, ret, b)
  <2>1. IsTurns(f, x, s, n) /\ IsTurns(g, y, u, n)
    BY MembersTurns
  <2>2. Filling(t, i, a, 0, s) /\ LoopLike(a, b, s, u)
    BY <1>1, <1>4, StartFilling, StartLike
  <2>3. /\ \/ x = OverElements(t, inner, a) /\ y = OverElements(t, inner2, b)
           \/ x = OverMembers(t, inner, a) /\ y = OverMembers(t, inner2, b)
        /\ x \in {OverElements(t, inner, a), OverMembers(t, inner, a)}
    OBVIOUS
  <2>4. p = f[n].res /\ q = g[n].res
    BY <1>2, <1>3, <1>6
  <2> HIDE DEF x, y, s, u, f, g, p, q, j
  <2>5. \A k \in 0 .. n : LoopLike(a, b, f[k], g[k])
    BY <1>1, <2>1, <2>2, <2>3, TurnsLike
  <2>6. \A k \in 0 .. n : Filling(t, i, a, k, f[k])
    BY <1>1, <2>1, <2>2, <2>3, FillingAll
  <2>7. LoopLike(a, b, f[n], g[n]) /\ f[n].ended
    BY <1>1, <2>5, <2>6, FillingEnds
  <2>8. QED
    BY <2>4, <2>7 DEF LoopLike, p, q
<1>7. QED
  BY <1>5, <1>6

LEMMA LiteralLike ==
  ASSUME NEW t, NEW i, NEW w, NEW v, NEW a, NEW b
  PROVE  Like(a, b, LiteralValue(t, i, w, v, a), LiteralValue(t, i, w, v, b))
<1> DEFINE p == LiteralValue(t, i, w, v, a)
           q == LiteralValue(t, i, w, v, b)
           pos == i + Len(Literal(w))
           live == Held(v, a)
           live2 == Held(v, b)
           over == FALSE
<1>1. a = b => live = live2
  OBVIOUS
<1>2. CASE expect_literal(t, i, w)
  <2>1. p = Parsed(pos, v, live, over) /\ q = Parsed(pos, v, live2, over)
    BY <1>2 DEF LiteralValue
  <2> HIDE DEF p, q, pos, live, live2, over
  <2>2. Like(a, b, Parsed(pos, v, live, over), Parsed(pos, v, live2, over))
    BY <1>1, ParsedLike
  <2>3. QED
    BY <2>1, <2>2 DEF p, q
<1>3. CASE ~expect_literal(t, i, w)
  <2>1. p = q
    BY <1>3 DEF LiteralValue
  <2> HIDE DEF p, q
  <2>2. QED
    BY <2>1, SameLike DEF p, q
<1>4. QED
  BY <1>2, <1>3

LEMMA NumberLike ==
  ASSUME NEW t, NEW i, NEW a, NEW b
  PROVE  Like(a, b, NumberAt(t, i, a), NumberAt(t, i, b))
<1> DEFINE end == parse_number(t, i)
           v == Value("number", Printed(Decimal(t, i, end)))
           live == Held(v, a)
           live2 == Held(v, b)
           over == FALSE
           p == NumberAt(t, i, a)
           q == NumberAt(t, i, b)
<1>1. a = b => live = live2
  OBVIOUS
<1>2. p = (IF end = 0 THEN Failed(0, FALSE) ELSE Parsed(end, v, live, over))
      /\ q = (IF end = 0 THEN Failed(0, FALSE) ELSE Parsed(end, v, live2, over))
  BY DEF NumberAt, NumberUpto
<1> HIDE DEF p, q, end, v, live, live2, over
<1>3. Like(a, b, Parsed(end, v, live, over), Parsed(end, v, live2, over))
  BY <1>1, ParsedLike
<1>4. CASE end = 0
  BY <1>2, <1>4, SameLike DEF p, q
<1>5. CASE end # 0
  BY <1>2, <1>3, <1>5 DEF p, q
<1>6. QED
  BY <1>4, <1>5

LEMMA ValueLike ==
  ASSUME NEW t \in String, NEW i \in 1 .. Len(t) + 1, NEW a \in BOOLEAN, NEW b \in BOOLEAN,
         NEW inner, NEW inner2, Table(t, a, inner), TablesLike(t, i, a, b, inner, inner2)
  PROVE  Like(a, b, ValueAt(t, inner, i, a), ValueAt(t, inner2, i, b))
<1> DEFINE c == At(t, i)
           p == ValueAt(t, inner, i, a)
           q == ValueAt(t, inner2, i, b)
           no == Value("bool", <<0>>)
           yes == Value("bool", <<1>>)
<1>1. CASE c = 110
  <2>1. p = LiteralValue(t, i, "null", Null, a) /\ q = LiteralValue(t, i, "null", Null, b)
    BY <1>1 DEF ValueAt
  <2> HIDE DEF p, q
  <2>2. QED
    BY <2>1, LiteralLike DEF p, q
<1>2. CASE c = 102
  <2>1. p = LiteralValue(t, i, "false", no, a) /\ q = LiteralValue(t, i, "false", no, b)
    BY <1>2 DEF ValueAt
  <2> HIDE DEF p, q, no
  <2>2. QED
    BY <2>1, LiteralLike DEF p, q
<1>3. CASE c = 116
  <2>1. p = LiteralValue(t, i, "true", yes, a) /\ q = LiteralValue(t, i, "true", yes, b)
    BY <1>3 DEF ValueAt
  <2> HIDE DEF p, q, yes
  <2>2. QED
    BY <2>1, LiteralLike DEF p, q
<1>4. CASE c = 34
  <2> DEFINE x == parse_string(t, i, a)
             y == parse_string(t, i, b)
  <2>1. p = StringNode(x, a) /\ q = StringNode(y, b)
    BY <1>4 DEF ValueAt, StringValue
  <2>2. Like(a, b, x, y)
    <3>1. i \in Nat \ {0}
      BY StringLength
    <3>2. QED
      BY <3>1, StringLike
  <2> HIDE DEF p, q, x, y
  <2>3. Like(a, b, StringNode(x, a), StringNode(y, b))
    BY <2>2, NodeLike
  <2>4. QED
    BY <2>1, <2>3 DEF p, q
<1>5. CASE c = 91
  <2>1. p = parse_array(t, inner, i, a) /\ q = parse_array(t, inner2, i, b)
    BY <1>5 DEF ValueAt
  <2> HIDE DEF p, q
  <2>2. QED
    BY <1>5, <2>1, ArrayLike DEF p, q
<1>6. CASE c = 123
  <2>1. p = parse_object(t, inner, i, a) /\ q = parse_object(t, inner2, i, b)
    BY <1>6 DEF ValueAt
  <2> HIDE DEF p, q
  <2>2. QED
    BY <1>6, <2>1, ObjectLike DEF p, q
<1>7. CASE c \notin {110, 102, 116, 34, 91, 123}
  <2>1. p = NumberAt(t, i, a) /\ q = NumberAt(t, i, b)
    BY <1>7 DEF ValueAt
  <2> HIDE DEF p, q
  <2>2. QED
    BY <2>1, NumberLike DEF p, q
<1>8. QED
  BY <1>1, <1>2, <1>3, <1>4, <1>5, <1>6, <1>7

\* With and without `out`, parse_value takes the same way through a text.
LEMMA NestedAgree ==
  ASSUME NEW t \in String
  PROVE  \A d \in 0 .. Len(t) : TablesLike(t, 0, TRUE, FALSE, Nested(t, TRUE)[d], Nested(t, FALSE)[d])
<1> DEFINE n == Len(t)
           a == TRUE
           b == FALSE
           f == Nested(t, a)
           g == Nested(t, b)
           x == IntoValues(t, a)
           y == IntoValues(t, b)
           Good(d) == TablesLike(t, 0, a, b, f[d], g[d])
           Bad == {d \in 0 .. n : ~Good(d)}
<1>1. n \in Nat /\ a \in BOOLEAN /\ b \in BOOLEAN
  BY StringLength
<1> HIDE DEF a, b
<1>2. f[0] = Nothing(t) /\ \A d \in 1 .. n : f[d] = Turn(x, f[d - 1])
  <2> DEFINE T(l) == Turn(x, l)
  <2>1. IsTurns(f, x, Nothing(t), n)
    BY NestedTurns
  <2> HIDE DEF f, T
  <2>2. f = [d \in 0 .. n |-> IF d = 0 THEN Nothing(t) ELSE T(f[d - 1])]
    BY <2>1 DEF IsTurns, T
  <2>3. f[0] = Nothing(t) /\ \A d \in 1 .. n : f[d] = T(f[d - 1])
    BY <1>1, <2>2
  <2>4. QED
    BY <2>3 DEF T
<1>3. g[0] = Nothing(t) /\ \A d \in 1 .. n : g[d] = Turn(y, g[d - 1])
  <2> DEFINE T(l) == Turn(y, l)
  <2>1. IsTurns(g, y, Nothing(t), n)
    BY NestedTurns
  <2> HIDE DEF g, T
  <2>2. g = [d \in 0 .. n |-> IF d = 0 THEN Nothing(t) ELSE T(g[d - 1])]
    BY <2>1 DEF IsTurns, T
  <2>3. g[0] = Nothing(t) /\ \A d \in 1 .. n : g[d] = T(g[d - 1])
    BY <1>1, <2>2
  <2>4. QED
    BY <2>3 DEF T
<1>4. /\ \A l : Turn(x, l) = [i \in 1 .. n + 1 |-> ValueAt(t, l, i, a)]
      /\ \A l : Turn(y, l) = [i \in 1 .. n + 1 |-> ValueAt(t, l, i, b)]
  BY DEF Turn, IntoValues
<1>5. \A d \in 0 .. n : Table(t, a, f[d])
  BY <1>1, NestedSound
<1> HIDE DEF f, g, x, y
<1>6. Good(0)
  <2>1. \A i \in 1 .. n + 1 : f[0][i] = Failed(0, FALSE) /\ g[0][i] = Failed(0, FALSE)
    BY <1>2, <1>3 DEF Nothing
  <2>2. \A i \in 0 + 1 .. n + 1 : i \in 1 .. n + 1
    OBVIOUS
  <2>3. \A i \in 0 + 1 .. n + 1 : f[0][i] = g[0][i]
    BY <2>1, <2>2
  <2>4. \A i \in 0 + 1 .. n + 1 : Like(a, b, f[0][i], g[0][i])
    BY <2>3, SameLike
  <2>5. QED
    BY <2>4, Zenon DEF TablesLike
<1>7. ASSUME NEW d \in 1 .. n, Good(d - 1) PROVE Good(d)
  <2>1. \A i \in 1 .. n + 1 : f[d][i] = ValueAt(t, f[d - 1], i, a) /\ g[d][i] = ValueAt(t, g[d - 1], i, b)
    BY <1>2, <1>3, <1>4
  <2>2. Table(t, a, f[d - 1])
    BY <1>1, <1>5
  <2>3. ASSUME NEW i \in 1 .. n + 1 PROVE Like(a, b, f[d][i], g[d][i])
    <3>1. TablesLike(t, i, a, b, f[d - 1], g[d - 1])
      BY <1>1, <1>7 DEF TablesLike
    <3> DEFINE u == f[d - 1]
               v == g[d - 1]
    <3>2. f[d][i] = ValueAt(t, u, i, a) /\ g[d][i] = ValueAt(t, v, i, b)
      BY <2>1
    <3>3. Table(t, a, u) /\ TablesLike(t, i, a, b, u, v)
      BY <2>2, <3>1
    <3> HIDE DEF u, v
    <3>4. Like(a, b, ValueAt(t, u, i, a), ValueAt(t, v, i, b))
      BY <1>1, <3>3, ValueLike
    <3>5. QED
      BY <3>2, <3>4
  <2>4. QED
    BY <2>3 DEF TablesLike
<1> HIDE DEF Good
<1>8. Bad = {}
  <2> SUFFICES ASSUME Bad # {} PROVE FALSE
    OBVIOUS
  <2>1. PICK m \in Bad : \A k \in Bad : m <= k
    <3>1. Bad \subseteq Nat
      BY <1>1
    <3> HIDE DEF Bad
    <3>2. QED
      BY <3>1, LeastNatural
  <2>2. m \in 1 .. n /\ Good(m - 1)
    BY <1>1, <1>6, <2>1
  <2>3. QED
    BY <1>7, <2>1, <2>2
<1>9. \A d \in 0 .. n : Good(d)
  BY <1>8
<1>10. QED
  BY <1>9 DEF Good, f, g, a, b

\* json_validate says of every text whether json_decode would return a document
\* for it (lib/json/json.c:362-380, 433-447; lib/json/json.h).
THEOREM ValidateAgrees ==
  ASSUME NEW t \in String
  PROVE  json_validate(t).ok <=> json_decode(t).ok
<1> DEFINE i == skip_space(t, 1)
           a == TRUE
           b == FALSE
           p == parse_value(t, i, a)
           q == parse_value(t, i, b)
<1>1. i \in 1 .. Len(t) + 1
  <2>1. 1 \in 1 .. Len(t) + 1
    BY StringLength
  <2>2. QED
    BY <2>1, SkipSpacePlace
<1>2. Like(a, b, p, q)
  <2> DEFINE n == Len(t)
  <2>1. n \in Nat /\ n \in 0 .. n
    BY StringLength
  <2>2. TablesLike(t, 0, a, b, Nested(t, a)[n], Nested(t, b)[n])
    BY <2>1, NestedAgree
  <2>3. p = Nested(t, a)[n][i] /\ q = Nested(t, b)[n][i]
    BY DEF parse_value
  <2>4. \A j \in 0 + 1 .. n + 1 : Like(a, b, Nested(t, a)[n][j], Nested(t, b)[n][j])
    BY <2>2, Zenon DEF TablesLike
  <2>5. i \in 0 + 1 .. n + 1
    BY <1>1
  <2> HIDE DEF i, a, b, p, q
  <2>6. QED
    BY <2>3, <2>4, <2>5
<1>3. json_decode(t) = Alone(t, p, a) /\ json_validate(t) = Alone(t, q, b)
  BY DEF json_decode, json_validate
<1>4. p.ok \in BOOLEAN /\ q.ok \in BOOLEAN
  <2>1. a \in BOOLEAN /\ b \in BOOLEAN
    OBVIOUS
  <2> HIDE DEF i, a, b
  <2>2. QED
    BY <1>1, <2>1, ParseValueKeeps DEF Sound
<1>5. p.ok = q.ok /\ (p.ok => p.pos = q.pos)
  BY <1>2 DEF Like
<1> HIDE DEF i, p, q, a, b
<1>6. Alone(t, p, a).ok <=> p.ok /\ At(t, skip_space(t, p.pos)) = 0
  <2>1. CASE p.ok /\ At(t, skip_space(t, p.pos)) # 0
    <3>1. Alone(t, p, a).ok = FALSE
      BY <2>1 DEF Alone, Failed
    <3>2. QED
      BY <2>1, <3>1
  <2>2. CASE ~(p.ok /\ At(t, skip_space(t, p.pos)) # 0)
    <3>1. Alone(t, p, a) = p
      BY <2>2 DEF Alone
    <3>2. QED
      BY <2>2, <3>1
  <2>3. QED
    BY <2>1, <2>2
<1>7. Alone(t, q, b).ok <=> q.ok /\ At(t, skip_space(t, q.pos)) = 0
  <2>1. CASE q.ok /\ At(t, skip_space(t, q.pos)) # 0
    <3>1. Alone(t, q, b).ok = FALSE
      BY <2>1 DEF Alone, Failed
    <3>2. QED
      BY <2>1, <3>1
  <2>2. CASE ~(q.ok /\ At(t, skip_space(t, q.pos)) # 0)
    <3>1. Alone(t, q, b) = q
      BY <2>2 DEF Alone
    <3>2. QED
      BY <2>2, <3>1
  <2>3. QED
    BY <2>1, <2>2
<1>8. QED
  BY <1>3, <1>5, <1>6, <1>7

\* Behind a text there is no value.
LEMMA NoValueBehind ==
  ASSUME NEW t \in String, NEW i, i = Len(t) + 1, NEW out \in BOOLEAN, NEW inner
  PROVE  ValueAt(t, inner, i, out) = Failed(0, FALSE)
<1>1. Len(t) \in Nat /\ i \in Nat \ {0}
  BY StringLength
<1>2. At(t, i) = 0
  BY <1>1, ByteAt
<1>3. Digits(t, i) = i
  <2>1. Digits(t, i) \in i .. Len(t) + 1
    BY <1>1, DigitsPlace
  <2>2. QED
    BY <1>1, <2>1
<1>4. parse_number(t, i) = 0
  BY <1>2, <1>3 DEF parse_number, IntegerEnd
<1>5. ValueAt(t, inner, i, out) = NumberAt(t, i, out)
  BY <1>2 DEF ValueAt
<1>6. NumberAt(t, i, out) = Failed(0, FALSE)
  BY <1>4 DEF NumberAt, NumberUpto
<1>7. QED
  BY <1>5, <1>6

\* The deeper the recursion is unfolded, the farther from the end of the text it
\* is complete.
LEMMA NestedDeep ==
  ASSUME NEW t \in String, NEW out \in BOOLEAN
  PROVE  \A d \in 1 .. Len(t) :
           \A j \in (Len(t) + 2) - d .. Len(t) + 1 : Nested(t, out)[d - 1][j] = Nested(t, out)[d][j]
<1> DEFINE n == Len(t)
           f == Nested(t, out)
           x == IntoValues(t, out)
           Good(d) == \A j \in (n + 2) - d .. n + 1 : f[d - 1][j] = f[d][j]
           Bad == {d \in 1 .. n : ~Good(d)}
<1>1. n \in Nat
  BY StringLength
<1>2. f[0] = Nothing(t) /\ \A d \in 1 .. n : f[d] = Turn(x, f[d - 1])
  BY <1>1, NestedTurns, TurnByTurn
<1>3. \A l : Turn(x, l) = [i \in 1 .. n + 1 |-> ValueAt(t, l, i, out)]
  BY DEF Turn, IntoValues
<1>4. \A d \in 0 .. n : Table(t, out, f[d])
  BY <1>1, NestedSound
<1> HIDE DEF f, x
<1>5. \A d \in 1 .. n, i \in 1 .. n + 1 : f[d][i] = ValueAt(t, f[d - 1], i, out)
  BY <1>2, <1>3
<1>6. ASSUME 1 <= n PROVE Good(1)
  <2> SUFFICES ASSUME NEW j \in (n + 2) - 1 .. n + 1 PROVE f[0][j] = f[1][j]
    BY <1>1
  <2>1. j = n + 1 /\ j \in 1 .. n + 1
    BY <1>1
  <2>2. f[0][j] = Failed(0, FALSE)
    BY <1>2, <2>1 DEF Nothing
  <2>3. f[1][j] = ValueAt(t, f[0], j, out)
    BY <1>1, <1>5, <1>6, <2>1
  <2>4. QED
    BY <2>1, <2>2, <2>3, NoValueBehind
<1>7. ASSUME NEW d \in 2 .. n, Good(d - 1) PROVE Good(d)
  <2> DEFINE u == f[d - 2]
             v == f[d - 1]
  <2>1. (d - 1) - 1 = d - 2 /\ d - 1 \in 1 .. n /\ d - 2 \in 0 .. n /\ d \in 1 .. n
    BY <1>1
  <2>2. \A j \in (n + 2) - (d - 1) .. n + 1 : u[j] = v[j]
    BY <1>7, <2>1
  <2>3. Table(t, out, u)
    BY <1>4, <2>1
  <2>4. \A i \in 1 .. n + 1 : v[i] = ValueAt(t, u, i, out) /\ f[d][i] = ValueAt(t, v, i, out)
    BY <1>5, <2>1
  <2> HIDE DEF u, v
  <2>5. ASSUME NEW j \in (n + 2) - d .. n + 1 PROVE v[j] = f[d][j]
    <3>1. j \in 1 .. n + 1 /\ \A k \in j + 1 .. n + 1 : k \in (n + 2) - (d - 1) .. n + 1
      BY <1>1
    <3>2. TablesLike(t, j, out, out, u, v)
      BY <2>2, <3>1, SameLike DEF TablesLike
    <3>3. Like(out, out, ValueAt(t, u, j, out), ValueAt(t, v, j, out))
      BY <2>3, <3>1, <3>2, ValueLike
    <3>4. QED
      BY <2>4, <3>1, <3>3 DEF Like
  <2>6. QED
    BY <2>5 DEF v
<1> HIDE DEF Good
<1>8. Bad = {}
  <2> SUFFICES ASSUME Bad # {} PROVE FALSE
    OBVIOUS
  <2>1. PICK m \in Bad : \A k \in Bad : m <= k
    <3>1. Bad \subseteq Nat
      BY <1>1
    <3> HIDE DEF Bad
    <3>2. QED
      BY <3>1, LeastNatural
  <2>2. m \in 2 .. n /\ Good(m - 1)
    BY <1>1, <1>6, <2>1
  <2>3. QED
    BY <1>7, <2>1, <2>2
<1>9. \A d \in 1 .. n : Good(d)
  BY <1>8
<1>10. QED
  BY <1>9 DEF Good, f

\* parse_value calls itself, through parse_array and parse_object, on the places
\* behind an opening bracket: unfolding the recursion as often as the text is long
\* leaves nothing out, whatever the text (lib/json/json.c:623-691).
THEOREM ParseValueCallsItself ==
  ASSUME NEW t \in String, NEW i \in 1 .. Len(t) + 1, NEW out \in BOOLEAN
  PROVE  parse_value(t, i, out)
           = ValueAt(t, [j \in 1 .. Len(t) + 1 |-> parse_value(t, j, out)], i, out)
<1> DEFINE n == Len(t)
           f == Nested(t, out)
           x == IntoValues(t, out)
           g == [j \in 1 .. n + 1 |-> parse_value(t, j, out)]
<1>1. n \in Nat /\ n \in 0 .. n
  BY StringLength
<1>2. f[0] = Nothing(t) /\ \A d \in 1 .. n : f[d] = Turn(x, f[d - 1])
  BY <1>1, NestedTurns, TurnByTurn
<1>3. \A l : Turn(x, l) = [j \in 1 .. n + 1 |-> ValueAt(t, l, j, out)]
  BY DEF Turn, IntoValues
<1>4. \A d \in 0 .. n : Table(t, out, f[d])
  BY <1>1, NestedSound
<1>5. \A d \in 1 .. n : \A j \in (n + 2) - d .. n + 1 : f[d - 1][j] = f[d][j]
  BY NestedDeep
<1>6. \A j \in 1 .. n + 1 : parse_value(t, j, out) = f[n][j]
  BY DEF parse_value
<1> HIDE DEF f, x
<1>7. \A j \in 1 .. n + 1 : g[j] = f[n][j]
  BY <1>6
<1> HIDE DEF g
<1>8. CASE n = 0
  <2>1. i = n + 1
    BY <1>8
  <2>2. f[n][i] = Failed(0, FALSE)
    BY <1>2, <1>8, <2>1 DEF Nothing
  <2>3. QED
    BY <1>6, <2>1, <2>2, NoValueBehind DEF g
<1>9. CASE n # 0
  <2> DEFINE u == f[n - 1]
  <2>1. n \in 1 .. n /\ n - 1 \in 0 .. n
    BY <1>1, <1>9
  <2>2. f[n][i] = ValueAt(t, u, i, out)
    BY <1>2, <1>3, <2>1
  <2>3. Table(t, out, u)
    BY <1>4, <2>1
  <2>4. \A j \in i + 1 .. n + 1 : u[j] = g[j]
    <3> TAKE j \in i + 1 .. n + 1
    <3>1. j \in (n + 2) - n .. n + 1 /\ j \in 1 .. n + 1
      BY <1>1
    <3>2. QED
      BY <1>5, <1>7, <2>1, <3>1
  <2> HIDE DEF u
  <2>5. TablesLike(t, i, out, out, u, g)
    BY <2>4, SameLike DEF TablesLike
  <2>6. Like(out, out, ValueAt(t, u, i, out), ValueAt(t, g, i, out))
    BY <2>3, <2>5, ValueLike
  <2>7. parse_value(t, i, out) = ValueAt(t, g, i, out)
    BY <1>6, <2>2, <2>6 DEF Like
  <2>8. QED
    BY <2>7 DEF g
<1>10. QED
  BY <1>8, <1>9
-----------------------------------------------------------------------------
(* What json_delete frees: sums over children, and trees of nodes that count *)
(* right.                                                                    *)

IsSum(f, c, a, n) == f = [k \in 0 .. n |-> IF k = 0 THEN a ELSE f[k - 1] + c[k]]

LEMMA SumExists ==
  ASSUME NEW n \in Nat, NEW c, NEW a
  PROVE  \E f : IsSum(f, c, a, n)
<1> DEFINE Loop(m, f) == f = [k \in 0 .. m |-> IF k = 0 THEN a ELSE f[k - 1] + c[k]]
           Bad == {m \in Nat : ~\E f : Loop(m, f)}
<1>1. Bad = {}
  <2> SUFFICES ASSUME Bad # {} PROVE FALSE
    OBVIOUS
  <2>1. PICK m \in Bad : \A k \in Bad : m <= k
    <3>1. Bad \subseteq Nat
      OBVIOUS
    <3> HIDE DEF Bad
    <3>2. QED
      BY <3>1, LeastNatural
  <2>2. m # 0
    <3> DEFINE f == [k \in 0 .. 0 |-> a]
    <3>1. f = [k \in 0 .. 0 |-> IF k = 0 THEN a ELSE f[k - 1] + c[k]]
      OBVIOUS
    <3>2. QED
      BY <2>1, <3>1
  <2>3. m - 1 \in Nat /\ m - 1 \notin Bad
    <3>1. m \in Nat
      OBVIOUS
    <3> HIDE DEF Bad
    <3>2. QED
      BY <2>1, <2>2, <3>1
  <2>4. PICK f : Loop(m - 1, f)
    BY <2>3
  <2> DEFINE h == [k \in 0 .. m |-> IF k < m THEN f[k] ELSE f[m - 1] + c[m]]
  <2>5. \A k \in 0 .. m - 1 : k \in 0 .. m /\ h[k] = f[k]
    BY <2>3
  <2>6. ASSUME NEW k \in 0 .. m PROVE h[k] = IF k = 0 THEN a ELSE h[k - 1] + c[k]
    <3>1. CASE k = 0
      BY <2>3, <2>4, <2>5, <3>1
    <3>2. CASE k # 0 /\ k < m
      <4>1. k \in 0 .. m - 1 /\ k - 1 \in 0 .. m - 1
        BY <2>3, <3>2
      <4>2. h[k] = f[k] /\ h[k - 1] = f[k - 1]
        BY <2>5, <4>1
      <4>3. f[k] = f[k - 1] + c[k]
        BY <2>4, <3>2, <4>1
      <4>4. QED
        BY <3>2, <4>2, <4>3
    <3>3. CASE k # 0 /\ k = m
      <4>1. m - 1 \in 0 .. m - 1
        BY <2>3
      <4>2. h[m - 1] = f[m - 1]
        BY <2>5, <4>1
      <4>3. h[m] = f[m - 1] + c[m]
        BY <2>3
      <4>4. QED
        BY <3>3, <4>2, <4>3
    <3>4. QED
      BY <2>3, <3>1, <3>2, <3>3
  <2>7. h = [k \in 0 .. m |-> IF k = 0 THEN a ELSE h[k - 1] + c[k]]
    <3>1. h = [k \in 0 .. m |-> h[k]]
      OBVIOUS
    <3> HIDE DEF h
    <3>2. QED
      BY <2>6, <3>1
  <2> HIDE DEF h
  <2>8. QED
    BY <2>1, <2>7
<1>2. QED
  BY <1>1 DEF IsSum

\* Sums of the same numbers are the same, as far as both go.
LEMMA SumsAgree ==
  ASSUME NEW n \in Nat, NEW c, NEW a, NEW f, IsSum(f, c, a, n),
         NEW m \in Nat, n <= m, NEW d, NEW g, IsSum(g, d, a, m), \A k \in 1 .. n : c[k] = d[k]
  PROVE  f[n] = g[n]
<1> DEFINE Off == {k \in 0 .. n : f[k] # g[k]}
<1>1. /\ f[0] = a /\ \A k \in 1 .. n : f[k] = f[k - 1] + c[k]
      /\ g[0] = a /\ \A k \in 1 .. n : g[k] = g[k - 1] + d[k]
  <2>1. f = [k \in 0 .. n |-> IF k = 0 THEN a ELSE f[k - 1] + c[k]]
    BY DEF IsSum
  <2>2. g = [k \in 0 .. m |-> IF k = 0 THEN a ELSE g[k - 1] + d[k]]
    BY DEF IsSum
  <2>3. f[0] = a /\ \A k \in 1 .. n : f[k] = f[k - 1] + c[k]
    BY <2>1
  <2>4. g[0] = a /\ \A k \in 1 .. n : g[k] = g[k - 1] + d[k]
    BY <2>2
  <2>5. QED
    BY <2>3, <2>4
<1>2. Off = {}
  <2> SUFFICES ASSUME Off # {} PROVE FALSE
    OBVIOUS
  <2>1. PICK k \in Off : \A l \in Off : k <= l
    <3>1. Off \subseteq Nat
      OBVIOUS
    <3> HIDE DEF Off
    <3>2. QED
      BY <3>1, LeastNatural
  <2>2. k \in 1 .. n /\ k - 1 \in 0 .. n
    BY <1>1, <2>1
  <2>3. f[k - 1] = g[k - 1]
    BY <2>1, <2>2
  <2>4. f[k] = g[k]
    BY <1>1, <2>2, <2>3
  <2>5. QED
    BY <2>1, <2>4
<1>3. QED
  BY <1>2

\* What each child costs.
Costs(v) == [k \in 1 .. Len(v.kids) |-> v.kids[k].val.blocks + KeyBlocks(v)]

LEMMA DeleteIsSum ==
  ASSUME NEW v, Len(v.kids) \in Nat
  PROVE  IsSum(json_delete(v), Costs(v), OwnBlocks(v), Len(v.kids))
<1> DEFINE n == Len(v.kids)
           a == OwnBlocks(v)
           c == Costs(v)
           cost(k) == v.kids[k].val.blocks + KeyBlocks(v)
           P(f) == f = [k \in 0 .. n |-> IF k = 0 THEN a ELSE f[k - 1] + cost(k)]
<1>1. json_delete(v) = CHOOSE f : P(f)
  BY DEF json_delete
<1>2. \A k \in 1 .. n : c[k] = cost(k)
  BY DEF Costs
<1> HIDE DEF c, cost, a, n
<1>3. ASSUME NEW f PROVE IsSum(f, c, a, n) <=> P(f)
  <2>1. [k \in 0 .. n |-> IF k = 0 THEN a ELSE f[k - 1] + c[k]]
          = [k \in 0 .. n |-> IF k = 0 THEN a ELSE f[k - 1] + cost(k)]
    <3>1. n \in Nat
      BY DEF n
    <3>2. \A k \in 0 .. n : (IF k = 0 THEN a ELSE f[k - 1] + c[k])
                              = (IF k = 0 THEN a ELSE f[k - 1] + cost(k))
      BY <1>2, <3>1
    <3>3. QED
      BY <3>2
  <2>2. QED
    BY <2>1 DEF IsSum
<1> HIDE DEF P
<1>4. \E f : P(f)
  <2>1. n \in Nat
    BY DEF n
  <2>2. QED
    BY <1>3, <2>1, SumExists
<1>5. P(CHOOSE f : P(f))
  BY <1>4
<1>6. IsSum(json_delete(v), c, a, n)
  BY <1>1, <1>3, <1>5
<1>7. QED
  BY <1>6 DEF n, a, c

\* A node whose children are in S, under keys of K, and which counts right.
Node(u, S, K) == IsNode(u) /\ u.kids \in Seq([key : K, val : S]) /\ IsCounted(u)

\* A tree of such nodes.
Tree(v) == \E S, K : v \in S /\ \A u \in S : Node(u, S, K)

LEMMA LeafTree ==
  ASSUME NEW tag, NEW s
  PROVE  Tree(Value(tag, s))
<1> DEFINE v == Value(tag, s)
           S == {v}
           K == {}
<1>1. v.kids = <<>> /\ v.tag = tag /\ v.blocks = IF tag = "string" THEN 2 ELSE 1
  BY DEF Value
<1>2. IsNode(v)
  BY NewNode
<1> HIDE DEF v
<1>3. Len(v.kids) = 0
  BY <1>1
<1>4. v.kids \in Seq([key : K, val : S])
  BY <1>1
<1>5. IsCounted(v)
  <2> DEFINE f == json_delete(v)
             c == Costs(v)
             a == OwnBlocks(v)
             n == Len(v.kids)
  <2>1. IsSum(f, c, a, n) /\ n = 0
    BY <1>3, DeleteIsSum
  <2>2. v.blocks = a
    BY <1>1 DEF OwnBlocks
  <2> HIDE DEF f, c, a, n
  <2>3. f[n] = a
    <3>1. f = [k \in 0 .. n |-> IF k = 0 THEN a ELSE f[k - 1] + c[k]]
      BY <2>1 DEF IsSum
    <3>2. QED
      BY <2>1, <3>1
  <2>4. QED
    BY <2>2, <2>3 DEF IsCounted, f, n
<1>6. \A u \in S : Node(u, S, K)
  <2> HIDE DEF K
  <2>1. Node(v, S, K)
    BY <1>2, <1>4, <1>5 DEF Node
  <2>2. QED
    BY <2>1
<1>7. v \in S
  OBVIOUS
<1> HIDE DEF S, K
<1>8. Tree(v)
  BY <1>6, <1>7 DEF Tree
<1>9. QED
  BY <1>8 DEF v

\* What is added to a container is what json_delete frees in addition.
LEMMA ChildIsCounted ==
  ASSUME NEW ret, NEW S, NEW K, Node(ret, S, K), NEW key, NEW v, v.blocks \in Nat,
         NEW w, w = [tag |-> ret.tag, s |-> ret.s,
                     kids |-> Append(ret.kids, [key |-> key, val |-> v]),
                     blocks |-> ret.blocks + (v.blocks + KeyBlocks(ret))]
  PROVE  IsCounted(w)
<1> DEFINE n == Len(ret.kids)
           m == Len(w.kids)
           c == Costs(ret)
           d == Costs(w)
           e == [key |-> key, val |-> v]
           a == OwnBlocks(ret)
           f == json_delete(ret)
           g == json_delete(w)
<1>1. ret.kids \in Seq([key : K, val : S]) /\ n \in Nat /\ f[n] = ret.blocks
  BY DEF Node, IsCounted
<1>2. w.kids = Append(ret.kids, e) /\ w.blocks = ret.blocks + (v.blocks + KeyBlocks(ret))
      /\ w.tag = ret.tag
  OBVIOUS
<1>3. KeyBlocks(w) = KeyBlocks(ret) /\ OwnBlocks(w) = a
  BY <1>2 DEF KeyBlocks, OwnBlocks
<1>4. m = n + 1 /\ w.kids[n + 1] = e /\ \A k \in 1 .. n : w.kids[k] = ret.kids[k]
  BY <1>1, <1>2
<1>5. d[m] = v.blocks + KeyBlocks(ret)
  <2>1. m \in 1 .. Len(w.kids)
    BY <1>1, <1>4
  <2>2. d[m] = w.kids[m].val.blocks + KeyBlocks(w)
    BY <2>1 DEF Costs
  <2>3. w.kids[m].val = v
    BY <1>4
  <2>4. QED
    BY <1>3, <2>2, <2>3
<1>6. \A k \in 1 .. n : c[k] = d[k]
  <2> TAKE k \in 1 .. n
  <2>1. k \in 1 .. Len(w.kids) /\ k \in 1 .. Len(ret.kids) /\ w.kids[k] = ret.kids[k]
    BY <1>1, <1>4
  <2>2. QED
    BY <1>3, <2>1 DEF Costs
<1>7. IsSum(f, c, a, n) /\ IsSum(g, d, a, m)
  BY <1>1, <1>3, <1>4, DeleteIsSum
<1> HIDE DEF n, m, c, d, a, f, g
<1>8. f[n] = g[n]
  BY <1>1, <1>4, <1>6, <1>7, SumsAgree
<1>9. g[m] = g[n] + d[m]
  <2>1. g = [k \in 0 .. m |-> IF k = 0 THEN a ELSE g[k - 1] + d[k]]
    BY <1>7 DEF IsSum
  <2>2. m \in 0 .. m /\ m # 0 /\ m - 1 = n
    BY <1>1, <1>4
  <2>3. QED
    BY <2>1, <2>2
<1>10. w.blocks = g[m]
  BY <1>1, <1>2, <1>5, <1>8, <1>9
<1>11. QED
  BY <1>10 DEF IsCounted, g, m

LEMMA ChildTree ==
  ASSUME NEW ret, Tree(ret), NEW key, NEW v, Tree(v),
         NEW w, w = [tag |-> ret.tag, s |-> ret.s,
                     kids |-> Append(ret.kids, [key |-> key, val |-> v]),
                     blocks |-> ret.blocks + (v.blocks + KeyBlocks(ret))]
  PROVE  Tree(w)
<1>1. PICK S1, K1 : ret \in S1 /\ \A u \in S1 : Node(u, S1, K1)
  BY DEF Tree
<1>2. PICK S2, K2 : v \in S2 /\ \A u \in S2 : Node(u, S2, K2)
  BY DEF Tree
<1> DEFINE S == S1 \cup S2 \cup {w}
           K == K1 \cup K2 \cup {key}
           e == [key |-> key, val |-> v]
<1>3. Node(ret, S1, K1) /\ Node(v, S2, K2)
  BY <1>1, <1>2
<1>4. v.blocks \in Nat /\ ret.blocks \in Nat
  BY <1>3 DEF Node, IsNode
<1>5. w.blocks \in Nat /\ w.kids = Append(ret.kids, e)
      /\ w = [tag |-> w.tag, s |-> w.s, kids |-> w.kids, blocks |-> w.blocks]
  <2>1. KeyBlocks(ret) \in Nat
    BY DEF KeyBlocks
  <2>2. QED
    BY <1>4, <2>1
<1>6. IsNode(w)
  BY <1>5 DEF IsNode
<1>7. IsCounted(w)
  BY <1>3, <1>4, ChildIsCounted
<1>8. [key : K1, val : S1] \subseteq [key : K, val : S]
      /\ [key : K2, val : S2] \subseteq [key : K, val : S]
      /\ e \in [key : K, val : S]
  BY <1>2
<1> DEFINE R1 == [key : K1, val : S1]
           R2 == [key : K2, val : S2]
           R == [key : K, val : S]
<1>9. R1 \subseteq R /\ R2 \subseteq R /\ e \in R
  BY <1>8
<1>10. ret.kids \in Seq(R1)
  BY <1>3 DEF Node
<1>11. \A u \in S1 : IsNode(u) /\ IsCounted(u) /\ u.kids \in Seq(R1)
  BY <1>1 DEF Node
<1>12. \A u \in S2 : IsNode(u) /\ IsCounted(u) /\ u.kids \in Seq(R2)
  BY <1>2 DEF Node
<1> HIDE DEF R1, R2, R, e
<1>13. Seq(R1) \subseteq Seq(R) /\ Seq(R2) \subseteq Seq(R)
  BY <1>9
<1>14. w.kids \in Seq(R)
  <2>1. ret.kids \in Seq(R)
    BY <1>10, <1>13
  <2>2. QED
    BY <1>5, <1>9, <2>1, AppendProperties
<1>15. ASSUME NEW u \in S PROVE IsNode(u) /\ IsCounted(u) /\ u.kids \in Seq(R)
  <2>1. CASE u \in S1
    BY <1>11, <1>13, <2>1
  <2>2. CASE u \in S2
    BY <1>12, <1>13, <2>2
  <2>3. CASE u = w
    BY <1>6, <1>7, <1>14, <2>3
  <2>4. QED
    BY <2>1, <2>2, <2>3
<1>16. \A u \in S : Node(u, S, K)
  BY <1>15 DEF Node, R
<1>17. w \in S
  OBVIOUS
<1> HIDE DEF S, K
<1>18. QED
  BY <1>16, <1>17 DEF Tree

LEMMA ElementTree ==
  ASSUME NEW ret, Tree(ret), ret.tag = "array", NEW v, Tree(v), NEW out \in BOOLEAN
  PROVE  Tree(WithElement(ret, v, out)) /\ WithElement(ret, v, out).tag = "array"
<1>1. IsNode(ret) /\ IsNode(v)
  BY DEF Tree, Node
<1>2. CASE out
  <2> DEFINE none == <<>>
             kids == Append(ret.kids, [key |-> none, val |-> v])
             w == [tag |-> ret.tag, s |-> ret.s, kids |-> kids,
                   blocks |-> ret.blocks + (v.blocks + KeyBlocks(ret))]
  <2>1. KeyBlocks(ret) = 0
    BY DEF KeyBlocks
  <2>2. v.blocks + KeyBlocks(ret) = v.blocks
    BY <1>1, <2>1 DEF IsNode
  <2>3. WithElement(ret, v, out) = w
    BY <1>1, <1>2, <2>2 DEF WithElement, IsNode
  <2>4. w.tag = "array"
    OBVIOUS
  <2>5. Tree(w)
    <3> HIDE DEF none
    <3>1. w = [tag |-> ret.tag, s |-> ret.s, kids |-> Append(ret.kids, [key |-> none, val |-> v]),
               blocks |-> ret.blocks + (v.blocks + KeyBlocks(ret))]
      OBVIOUS
    <3> HIDE DEF w
    <3>2. QED
      BY <3>1, ChildTree
  <2>6. QED
    BY <2>3, <2>4, <2>5
<1>3. CASE ~out
  BY <1>3 DEF WithElement
<1>4. QED
  BY <1>2, <1>3

LEMMA MemberTree ==
  ASSUME NEW ret, Tree(ret), ret.tag = "object", NEW key, NEW v, Tree(v), NEW out \in BOOLEAN
  PROVE  Tree(WithMember(ret, key, v, out)) /\ WithMember(ret, key, v, out).tag = "object"
<1>1. IsNode(ret) /\ IsNode(v)
  BY DEF Tree, Node
<1>2. CASE out
  <2> DEFINE kids == Append(ret.kids, [key |-> key, val |-> v])
             w == [tag |-> ret.tag, s |-> ret.s, kids |-> kids,
                   blocks |-> ret.blocks + (v.blocks + KeyBlocks(ret))]
  <2>1. KeyBlocks(ret) = 1
    BY DEF KeyBlocks
  <2>2. ret.blocks + (v.blocks + KeyBlocks(ret)) = ret.blocks + v.blocks + 1
    BY <1>1, <2>1 DEF IsNode
  <2>3. WithMember(ret, key, v, out) = w
    BY <1>1, <1>2, <2>2 DEF WithMember, IsNode
  <2>4. w.tag = "object"
    OBVIOUS
  <2>5. Tree(w)
    <3>1. w = [tag |-> ret.tag, s |-> ret.s, kids |-> Append(ret.kids, [key |-> key, val |-> v]),
               blocks |-> ret.blocks + (v.blocks + KeyBlocks(ret))]
      OBVIOUS
    <3> HIDE DEF w
    <3>2. QED
      BY <3>1, ChildTree
  <2>6. QED
    BY <2>3, <2>4, <2>5
<1>3. CASE ~out
  BY <1>3 DEF WithMember
<1>4. QED
  BY <1>2, <1>3

\* What parse_value returns is a tree, and so is what a loop has so far.
TreeIfOk(p) == p.ok => Tree(p.val)

TreeTable(t, inner) == \A i \in 1 .. Len(t) + 1 : TreeIfOk(inner[i])

LoopTree(tag, l) == /\ l.ended  => TreeIfOk(l.res)
                    /\ ~l.ended => Tree(l.ret) /\ l.ret.tag = tag

LEMMA FailedTree ==
  ASSUME NEW live, NEW over
  PROVE  TreeIfOk(Failed(live, over)) /\ \A tag : LoopTree(tag, Ended(Failed(live, over)))
<1> DEFINE p == Failed(live, over)
<1>1. p.ok = FALSE
  BY DEF Failed
<1> HIDE DEF p
<1>2. TreeIfOk(p)
  BY <1>1 DEF TreeIfOk
<1>3. Ended(p).ended = TRUE /\ Ended(p).res = p
  BY DEF Ended
<1>4. \A tag : LoopTree(tag, Ended(p))
  BY <1>2, <1>3 DEF LoopTree
<1>5. QED
  BY <1>2, <1>4 DEF p

LEMMA ParsedTree ==
  ASSUME NEW pos, NEW v, Tree(v), NEW live, NEW over
  PROVE  TreeIfOk(Parsed(pos, v, live, over)) /\ \A tag : LoopTree(tag, Ended(Parsed(pos, v, live, over)))
<1> DEFINE p == Parsed(pos, v, live, over)
<1>1. p.ok = TRUE /\ p.val = v
  BY DEF Parsed
<1> HIDE DEF p
<1>2. TreeIfOk(p)
  BY <1>1 DEF TreeIfOk
<1>3. Ended(p).ended = TRUE /\ Ended(p).res = p
  BY DEF Ended
<1>4. \A tag : LoopTree(tag, Ended(p))
  BY <1>2, <1>3 DEF LoopTree
<1>5. QED
  BY <1>2, <1>4 DEF p

LEMMA GoesOnTree ==
  ASSUME NEW pos, NEW ret, Tree(ret), NEW live, NEW over, NEW tag, ret.tag = tag
  PROVE  LoopTree(tag, GoesOn(pos, ret, live, over))
<1> DEFINE l == GoesOn(pos, ret, live, over)
<1>1. l.ended = FALSE /\ l.ret = ret
  BY DEF GoesOn
<1> HIDE DEF l
<1>2. LoopTree(tag, l)
  BY <1>1 DEF LoopTree
<1>3. QED
  BY <1>2 DEF l

LEMMA BehindTree ==
  ASSUME NEW t, NEW pos, NEW close, NEW ret, Tree(ret), NEW live, NEW out, NEW over,
         NEW tag, ret.tag = tag
  PROVE  LoopTree(tag, Behind(t, pos, close, ret, live, out, over))
<1> DEFINE j == skip_space(t, pos)
           next == skip_space(t, j + 1)
           end == j + 1
           rest == live - Held(ret, out)
           m == Behind(t, pos, close, ret, live, out, over)
<1>1. m = IF At(t, j) = close THEN Ended(Parsed(end, ret, live, over))
          ELSE IF At(t, j) = 44 THEN GoesOn(next, ret, live, over)
          ELSE Ended(Failed(rest, over))
  BY DEF Behind
<1> HIDE DEF m, j, next, end, rest
<1>2. LoopTree(tag, Ended(Parsed(end, ret, live, over)))
  BY ParsedTree
<1>3. LoopTree(tag, GoesOn(next, ret, live, over))
  BY GoesOnTree
<1>4. LoopTree(tag, Ended(Failed(rest, over)))
  BY FailedTree
<1>5. LoopTree(tag, m)
  BY <1>1, <1>2, <1>3, <1>4
<1>6. QED
  BY <1>5 DEF m

LEMMA ElementRoundTree ==
  ASSUME NEW t \in String, NEW i \in Nat \ {0}, NEW k \in Nat, NEW out \in BOOLEAN,
         NEW inner, TreeTable(t, inner), NEW l, Filling(t, i, out, k, l), LoopTree("array", l)
  PROVE  LoopTree("array", ElementRound(t, inner, l, out))
<1> DEFINE m == ElementRound(t, inner, l, out)
<1>1. CASE l.ended
  <2>1. m = l
    BY <1>1 DEF ElementRound
  <2>2. QED
    BY <2>1
<1>2. CASE ~l.ended
  <2> DEFINE e == inner[l.pos]
             ret == WithElement(l.ret, e.val, out)
             live == l.live + e.live
             over == l.over \/ e.over
             rest == live - Held(l.ret, out)
             close == 93
             pos == e.pos
             tag == "array"
  <2>1. m = IF ~e.ok THEN Ended(Failed(rest, over)) ELSE Behind(t, pos, close, ret, live, out, over)
    BY <1>2, Zenon DEF ElementRound
  <2>2. TreeIfOk(e)
    <3>1. l.pos \in i + k + 1 .. Len(t) + 1
      BY <1>2 DEF Filling
    <3>2. l.pos \in 1 .. Len(t) + 1
      BY <3>1, StringLength
    <3>3. QED
      BY <3>2 DEF TreeTable
  <2>3. Tree(l.ret) /\ l.ret.tag = "array"
    BY <1>2 DEF LoopTree
  <2> HIDE DEF m, e
  <2>4. e.ok => Tree(ret) /\ ret.tag = tag
    BY <2>2, <2>3, ElementTree DEF TreeIfOk
  <2> HIDE DEF ret, live, over, rest, close, pos, tag
  <2>5. LoopTree(tag, Ended(Failed(rest, over)))
    BY FailedTree
  <2>6. e.ok => LoopTree(tag, Behind(t, pos, close, ret, live, out, over))
    BY <2>4, BehindTree
  <2>7. LoopTree(tag, m)
    BY <2>1, <2>5, <2>6
  <2>8. QED
    BY <2>7 DEF m, tag
<1>3. QED
  BY <1>1, <1>2

LEMMA MemberRoundTree ==
  ASSUME NEW t \in String, NEW i \in Nat \ {0}, NEW k \in Nat, NEW out \in BOOLEAN,
         NEW inner, TreeTable(t, inner), NEW l, Filling(t, i, out, k, l), LoopTree("object", l)
  PROVE  LoopTree("object", MemberRound(t, inner, l, out))
<1> DEFINE m == MemberRound(t, inner, l, out)
<1>1. CASE l.ended
  <2>1. m = l
    BY <1>1 DEF MemberRound, MemberKey
  <2>2. QED
    BY <2>1
<1>2. CASE ~l.ended
  <2> DEFINE key == parse_string(t, l.pos, out)
             j == skip_space(t, key.pos)
             at == skip_space(t, j + 1)
             e == inner[at]
             name == key.val.s
             ret == WithMember(l.ret, name, e.val, out)
             live == l.live + key.live + e.live
             over == l.over \/ key.over
             any == l.over \/ key.over \/ e.over
             bad == l.live + key.live - Held(l.ret, out)
             off == l.live + key.live - FreedKey(out) - Held(l.ret, out)
             less == live - FreedKey(out) - Held(l.ret, out)
             close == 125
             pos == e.pos
             tag == "object"
             v == MemberValue(t, inner, l, key, j, out)
  <2>1. m = IF ~key.ok THEN Ended(Failed(bad, over)) ELSE v
    BY <1>2, Zenon DEF MemberRound, MemberKey
  <2>2. v = IF At(t, j) # 58 THEN Ended(Failed(off, over))
            ELSE IF ~e.ok THEN Ended(Failed(less, any))
            ELSE Behind(t, pos, close, ret, live, out, any)
    BY DEF MemberValue
  <2>3. key.ok /\ At(t, j) = 58 => TreeIfOk(e)
    <3> SUFFICES ASSUME key.ok, At(t, j) = 58 PROVE TreeIfOk(e)
      OBVIOUS
    <3>1. l.pos \in i + k + 1 .. Len(t) + 1
      BY <1>2 DEF Filling
    <3>2. l.pos \in 1 .. Len(t) + 1
      BY <3>1, StringLength
    <3>3. at \in l.pos + 1 .. Len(t) + 1
      BY <3>2, MemberPlaces
    <3> HIDE DEF at
    <3>4. at \in 1 .. Len(t) + 1
      BY <3>2, <3>3, StringLength
    <3>5. QED
      BY <3>4 DEF TreeTable
  <2>4. Tree(l.ret) /\ l.ret.tag = "object"
    BY <1>2 DEF LoopTree
  <2> HIDE DEF m, v, key, e, j, at, name
  <2>5. key.ok /\ At(t, j) = 58 /\ e.ok => Tree(ret) /\ ret.tag = tag
    BY <2>3, <2>4, MemberTree DEF TreeIfOk
  <2> HIDE DEF ret, live, over, any, bad, off, less, close, pos, tag
  <2>6. /\ LoopTree(tag, Ended(Failed(bad, over))) /\ LoopTree(tag, Ended(Failed(off, over)))
        /\ LoopTree(tag, Ended(Failed(less, any)))
    BY FailedTree
  <2>7. key.ok /\ At(t, j) = 58 /\ e.ok => LoopTree(tag, Behind(t, pos, close, ret, live, out, any))
    BY <2>5, BehindTree
  <2>8. key.ok => LoopTree(tag, v)
    BY <2>2, <2>6, <2>7
  <2>9. LoopTree(tag, m)
    BY <2>1, <2>6, <2>8
  <2>10. QED
    BY <2>9 DEF m, tag
<1>3. QED
  BY <1>1, <1>2

\* The loops over a container, with the tag that it has.
LEMMA TurnsTree ==
  ASSUME NEW t \in String, NEW i \in Nat \ {0}, NEW out \in BOOLEAN, NEW inner,
         Table(t, out, inner), TreeTable(t, inner), NEW x, NEW tag,
         \/ x = OverElements(t, inner, out) /\ tag = "array"
         \/ x = OverMembers(t, inner, out) /\ tag = "object",
         NEW a, Filling(t, i, out, 0, a), LoopTree(tag, a), NEW n \in Nat, NEW f, IsTurns(f, x, a, n)
  PROVE  \A k \in 0 .. n : LoopTree(tag, f[k])
<1> DEFINE T(l) == Turn(x, l)
           F(k, l) == Filling(t, i, out, k, l)
           Good(l) == LoopTree(tag, l)
           Bad == {k \in 0 .. n : ~Good(f[k])}
<1>1. \A k \in Nat : \A l : F(k, l) /\ Good(l) => Good(T(l))
  <2>1. CASE x = OverElements(t, inner, out) /\ tag = "array"
    <3>1. \A l : Turn(x, l) = ElementRound(t, inner, l, out)
      BY <2>1 DEF Turn, OverElements
    <3>2. QED
      BY <2>1, <3>1, ElementRoundTree
  <2>2. CASE x = OverMembers(t, inner, out) /\ tag = "object"
    <3>1. \A l : Turn(x, l) = MemberRound(t, inner, l, out)
      BY <2>2 DEF Turn, OverMembers
    <3>2. QED
      BY <2>2, <3>1, MemberRoundTree
  <2>3. QED
    BY <2>1, <2>2
<1>2. x \in {OverElements(t, inner, out), OverMembers(t, inner, out)}
  OBVIOUS
<1>3. \A k \in 0 .. n : F(k, f[k])
  BY <1>2, FillingAll
<1>4. f = [k \in 0 .. n |-> IF k = 0 THEN a ELSE T(f[k - 1])]
  BY DEF IsTurns
<1>5. Good(a)
  OBVIOUS
<1> HIDE DEF T, F, Good
<1>6. f[0] = a /\ \A k \in 1 .. n : f[k] = T(f[k - 1])
  BY <1>4
<1>7. Bad = {}
  <2> SUFFICES ASSUME Bad # {} PROVE FALSE
    OBVIOUS
  <2>1. PICK m \in Bad : \A k \in Bad : m <= k
    <3>1. Bad \subseteq Nat
      OBVIOUS
    <3> HIDE DEF Bad
    <3>2. QED
      BY <3>1, LeastNatural
  <2>2. m \in 1 .. n /\ m - 1 \in Nat /\ m - 1 \in 0 .. n
    BY <1>5, <1>6, <2>1
  <2>3. Good(f[m - 1]) /\ F(m - 1, f[m - 1])
    BY <1>3, <2>1, <2>2
  <2>4. Good(T(f[m - 1]))
    BY <1>1, <2>2, <2>3
  <2>5. Good(f[m])
    BY <1>6, <2>2, <2>4
  <2>6. QED
    BY <2>1, <2>5
<1>8. \A k \in 0 .. n : Good(f[k])
  BY <1>7
<1>9. QED
  BY <1>8 DEF Good

LEMMA ArrayTree ==
  ASSUME NEW t \in String, NEW i \in 1 .. Len(t) + 1, NEW out \in BOOLEAN, At(t, i) = 91,
         NEW inner, Table(t, out, inner), TreeTable(t, inner)
  PROVE  TreeIfOk(parse_array(t, inner, i, out))
<1> DEFINE n == Len(t)
           tag == "array"
           ret == Value(tag, <<>>)
           j == skip_space(t, i + 1)
           f == Elements(t, inner, j, ret, out)
           x == OverElements(t, inner, out)
           a == Started(t, j, ret, out)
           p == parse_array(t, inner, i, out)
<1>1. n \in Nat /\ i \in Nat \ {0}
  BY StringLength
<1>2. j \in i + 1 .. n + 1
  <2>1. At(t, i) # 0
    OBVIOUS
  <2>2. QED
    BY <2>1, OpenedPlace
<1>3. Tree(ret) /\ ret.tag = tag
  <2>1. Tree(ret)
    BY LeafTree
  <2>2. ret.tag = tag
    BY DEF Value
  <2>3. QED
    BY <2>1, <2>2
<1> DEFINE end == j + 1
           live == Held(ret, out)
           over == FALSE
<1>4. p = IF At(t, j) = 93 THEN Parsed(end, ret, live, over) ELSE f[n].res
  BY DEF parse_array
<1>5. TreeIfOk(Parsed(end, ret, live, over))
  <2> HIDE DEF end, ret, live, over
  <2>1. QED
    BY <1>3, ParsedTree
<1>6. IsTurns(f, x, a, n)
  BY ElementsTurns
<1>7. Filling(t, i, out, 0, a)
  BY <1>1, <1>2, StartFilling
<1>8. a = GoesOn(j, ret, live, over)
  BY DEF Started
<1>9. LoopTree(tag, GoesOn(j, ret, live, over))
  <2> HIDE DEF ret, live, over, j, tag
  <2>1. QED
    BY <1>3, GoesOnTree
<1>10. x = OverElements(t, inner, out) /\ tag = "array"
       /\ x \in {OverElements(t, inner, out), OverMembers(t, inner, out)}
  OBVIOUS
<1> HIDE DEF x, a, f, p, j, tag, ret, end, live, over
<1>11. LoopTree(tag, a)
  BY <1>8, <1>9
<1>12. \A k \in 0 .. n : Filling(t, i, out, k, f[k])
  BY <1>1, <1>6, <1>7, <1>10, FillingAll
<1>13. \A k \in 0 .. n : LoopTree(tag, f[k])
  BY <1>1, <1>6, <1>7, <1>10, <1>11, TurnsTree
<1>14. LoopTree(tag, f[n]) /\ f[n].ended
  BY <1>1, <1>12, <1>13, FillingEnds
<1>15. TreeIfOk(f[n].res)
  BY <1>14 DEF LoopTree
<1>16. TreeIfOk(p)
  BY <1>4, <1>5, <1>15
<1>17. QED
  BY <1>16 DEF p

LEMMA ObjectTree ==
  ASSUME NEW t \in String, NEW i \in 1 .. Len(t) + 1, NEW out \in BOOLEAN, At(t, i) = 123,
         NEW inner, Table(t, out, inner), TreeTable(t, inner)
  PROVE  TreeIfOk(parse_object(t, inner, i, out))
<1> DEFINE n == Len(t)
           tag == "object"
           ret == Value(tag, <<>>)
           j == skip_space(t, i + 1)
           f == Members(t, inner, j, ret, out)
           x == OverMembers(t, inner, out)
           a == Started(t, j, ret, out)
           p == parse_object(t, inner, i, out)
<1>1. n \in Nat /\ i \in Nat \ {0}
  BY StringLength
<1>2. j \in i + 1 .. n + 1
  <2>1. At(t, i) # 0
    OBVIOUS
  <2>2. QED
    BY <2>1, OpenedPlace
<1>3. Tree(ret) /\ ret.tag = tag
  <2>1. Tree(ret)
    BY LeafTree
  <2>2. ret.tag = tag
    BY DEF Value
  <2>3. QED
    BY <2>1, <2>2
<1> DEFINE end == j + 1
           live == Held(ret, out)
           over == FALSE
<1>4. p = IF At(t, j) = 125 THEN Parsed(end, ret, live, over) ELSE f[n].res
  BY DEF parse_object
<1>5. TreeIfOk(Parsed(end, ret, live, over))
  <2> HIDE DEF end, ret, live, over
  <2>1. QED
    BY <1>3, ParsedTree
<1>6. IsTurns(f, x, a, n)
  BY MembersTurns
<1>7. Filling(t, i, out, 0, a)
  BY <1>1, <1>2, StartFilling
<1>8. a = GoesOn(j, ret, live, over)
  BY DEF Started
<1>9. LoopTree(tag, GoesOn(j, ret, live, over))
  <2> HIDE DEF ret, live, over, j, tag
  <2>1. QED
    BY <1>3, GoesOnTree
<1>10. x = OverMembers(t, inner, out) /\ tag = "object"
       /\ x \in {OverElements(t, inner, out), OverMembers(t, inner, out)}
  OBVIOUS
<1> HIDE DEF x, a, f, p, j, tag, ret, end, live, over
<1>11. LoopTree(tag, a)
  BY <1>8, <1>9
<1>12. \A k \in 0 .. n : Filling(t, i, out, k, f[k])
  BY <1>1, <1>6, <1>7, <1>10, FillingAll
<1>13. \A k \in 0 .. n : LoopTree(tag, f[k])
  BY <1>1, <1>6, <1>7, <1>10, <1>11, TurnsTree
<1>14. LoopTree(tag, f[n]) /\ f[n].ended
  BY <1>1, <1>12, <1>13, FillingEnds
<1>15. TreeIfOk(f[n].res)
  BY <1>14 DEF LoopTree
<1>16. TreeIfOk(p)
  BY <1>4, <1>5, <1>15
<1>17. QED
  BY <1>16 DEF p

LEMMA LiteralTree ==
  ASSUME NEW t, NEW i, NEW w, NEW v, Tree(v), NEW out
  PROVE  TreeIfOk(LiteralValue(t, i, w, v, out))
<1> DEFINE pos == i + Len(Literal(w))
           live == Held(v, out)
           over == FALSE
           none == 0
           p == LiteralValue(t, i, w, v, out)
<1>1. p = IF expect_literal(t, i, w) THEN Parsed(pos, v, live, over) ELSE Failed(none, over)
  BY DEF LiteralValue
<1> HIDE DEF pos, live, over, none, p
<1>2. TreeIfOk(Parsed(pos, v, live, over)) /\ TreeIfOk(Failed(none, over))
  BY ParsedTree, FailedTree
<1>3. TreeIfOk(p)
  BY <1>1, <1>2
<1>4. QED
  BY <1>3 DEF p

LEMMA StringTree ==
  ASSUME NEW t \in String, NEW i \in Nat \ {0}, NEW out \in BOOLEAN
  PROVE  TreeIfOk(StringValue(t, i, out))
<1> DEFINE q == parse_string(t, i, out)
           p == StringValue(t, i, out)
           pos == q.pos
           v == q.val
           live == q.live + (IF out THEN 1 ELSE 0)
           over == q.over
<1>1. p = IF q.ok THEN Parsed(pos, v, live, over) ELSE q
  BY DEF StringValue, StringNode
<1>2. q.ok => \E s : v = Value("string", s)
  BY StringResult
<1> HIDE DEF q, p
<1>3. CASE q.ok
  <2>1. Tree(v)
    BY <1>2, <1>3, LeafTree
  <2> HIDE DEF pos, v, live, over
  <2>2. TreeIfOk(Parsed(pos, v, live, over))
    BY <2>1, ParsedTree
  <2>3. QED
    BY <1>1, <1>3, <2>2 DEF p
<1>4. CASE ~q.ok
  <2>1. p = q
    BY <1>1, <1>4
  <2>2. TreeIfOk(p)
    BY <1>4, <2>1 DEF TreeIfOk
  <2>3. QED
    BY <2>2 DEF p
<1>5. QED
  BY <1>3, <1>4

LEMMA NumberTree ==
  ASSUME NEW t, NEW i, NEW out
  PROVE  TreeIfOk(NumberAt(t, i, out))
<1> DEFINE end == parse_number(t, i)
           s == Printed(Decimal(t, i, end))
           v == Value("number", s)
           live == Held(v, out)
           over == FALSE
           none == 0
           p == NumberAt(t, i, out)
<1>1. p = IF end = 0 THEN Failed(none, over) ELSE Parsed(end, v, live, over)
  BY DEF NumberAt, NumberUpto
<1>2. Tree(v)
  <2> HIDE DEF s
  <2>1. QED
    BY LeafTree
<1> HIDE DEF end, s, v, live, over, none, p
<1>3. TreeIfOk(Parsed(end, v, live, over)) /\ TreeIfOk(Failed(none, over))
  BY <1>2, ParsedTree, FailedTree
<1>4. TreeIfOk(p)
  BY <1>1, <1>3
<1>5. QED
  BY <1>4 DEF p

LEMMA ValueTree ==
  ASSUME NEW t \in String, NEW i \in 1 .. Len(t) + 1, NEW out \in BOOLEAN,
         NEW inner, Table(t, out, inner), TreeTable(t, inner)
  PROVE  TreeIfOk(ValueAt(t, inner, i, out))
<1> DEFINE c == At(t, i)
           p == ValueAt(t, inner, i, out)
           no == Value("bool", <<0>>)
           yes == Value("bool", <<1>>)
<1>1. Tree(Null) /\ Tree(no) /\ Tree(yes)
  BY LeafTree DEF Null
<1>2. CASE c = 110
  <2>1. p = LiteralValue(t, i, "null", Null, out)
    BY <1>2 DEF ValueAt
  <2> HIDE DEF p
  <2>2. QED
    BY <1>1, <2>1, LiteralTree DEF p
<1>3. CASE c = 102
  <2>1. p = LiteralValue(t, i, "false", no, out)
    BY <1>3 DEF ValueAt
  <2> HIDE DEF p, no
  <2>2. QED
    BY <1>1, <2>1, LiteralTree DEF p
<1>4. CASE c = 116
  <2>1. p = LiteralValue(t, i, "true", yes, out)
    BY <1>4 DEF ValueAt
  <2> HIDE DEF p, yes
  <2>2. QED
    BY <1>1, <2>1, LiteralTree DEF p
<1>5. CASE c = 34
  <2>1. p = StringValue(t, i, out)
    BY <1>5 DEF ValueAt
  <2>2. i \in Nat \ {0}
    BY StringLength
  <2>3. QED
    BY <2>1, <2>2, StringTree
<1>6. CASE c = 91
  <2>1. p = parse_array(t, inner, i, out)
    BY <1>6 DEF ValueAt
  <2>2. QED
    BY <1>6, <2>1, ArrayTree
<1>7. CASE c = 123
  <2>1. p = parse_object(t, inner, i, out)
    BY <1>7 DEF ValueAt
  <2>2. QED
    BY <1>7, <2>1, ObjectTree
<1>8. CASE c \notin {110, 102, 116, 34, 91, 123}
  <2>1. p = NumberAt(t, i, out)
    BY <1>8 DEF ValueAt
  <2>2. QED
    BY <2>1, NumberTree
<1>9. QED
  BY <1>2, <1>3, <1>4, <1>5, <1>6, <1>7, <1>8

LEMMA NestedTree ==
  ASSUME NEW t \in String, NEW out \in BOOLEAN
  PROVE  \A d \in 0 .. Len(t) : TreeTable(t, Nested(t, out)[d])
<1> DEFINE n == Len(t)
           f == Nested(t, out)
           x == IntoValues(t, out)
           Good(d) == TreeTable(t, f[d])
           Bad == {d \in 0 .. n : ~Good(d)}
<1>1. n \in Nat
  BY StringLength
<1>2. f[0] = Nothing(t) /\ \A d \in 1 .. n : f[d] = Turn(x, f[d - 1])
  BY <1>1, NestedTurns, TurnByTurn
<1>3. \A l : Turn(x, l) = [i \in 1 .. n + 1 |-> ValueAt(t, l, i, out)]
  BY DEF Turn, IntoValues
<1>4. \A d \in 0 .. n : Table(t, out, f[d])
  BY <1>1, NestedSound
<1> HIDE DEF f, x
<1>5. Good(0)
  <2>1. \A i \in 1 .. n + 1 : f[0][i] = Failed(0, FALSE)
    BY <1>2 DEF Nothing
  <2>2. QED
    BY <2>1, FailedTree DEF TreeTable
<1>6. ASSUME NEW d \in 1 .. n, Good(d - 1) PROVE Good(d)
  <2>1. \A i \in 1 .. n + 1 : f[d][i] = ValueAt(t, f[d - 1], i, out)
    BY <1>2, <1>3
  <2>2. Table(t, out, f[d - 1])
    BY <1>1, <1>4
  <2>3. QED
    BY <1>6, <2>1, <2>2, ValueTree DEF TreeTable
<1> HIDE DEF Good
<1>7. Bad = {}
  <2> SUFFICES ASSUME Bad # {} PROVE FALSE
    OBVIOUS
  <2>1. PICK m \in Bad : \A k \in Bad : m <= k
    <3>1. Bad \subseteq Nat
      BY <1>1
    <3> HIDE DEF Bad
    <3>2. QED
      BY <3>1, LeastNatural
  <2>2. m \in 1 .. n /\ Good(m - 1)
    BY <1>1, <1>5, <2>1
  <2>3. QED
    BY <1>6, <2>1, <2>2
<1>8. \A d \in 0 .. n : Good(d)
  BY <1>7
<1>9. QED
  BY <1>8 DEF Good, f

\* All nodes of a tree count right.
LEMMA NodesCounted ==
  ASSUME NEW v, Tree(v), NEW n \in Nat
  PROVE  \A u \in Nodes(v, n) : IsCounted(u)
<1>1. PICK S, K : v \in S /\ \A u \in S : Node(u, S, K)
  BY DEF Tree
<1> DEFINE G(P) == UNION {Kids(u) : u \in P}
           g == [P \in SUBSET S |-> G(P)]
           a == {v}
           X == SUBSET S
<1>2. \A u \in S : Kids(u) \subseteq S
  <2> TAKE u \in S
  <2> DEFINE R == [key : K, val : S]
             kids == u.kids
  <2>1. kids \in Seq(R)
    BY <1>1 DEF Node
  <2>2. ASSUME NEW k \in DOMAIN kids PROVE kids[k].val \in S
    <3>1. kids[k] \in R
      <4> HIDE DEF R, kids
      <4>1. DOMAIN kids = 1 .. Len(kids)
        BY <2>1
      <4>2. QED
        BY <2>1, <4>1
    <3>2. \A r \in R : r.val \in S
      OBVIOUS
    <3> HIDE DEF R, kids
    <3>3. QED
      BY <3>1, <3>2
  <2>3. QED
    BY <2>2 DEF Kids
<1>3. \A P \in X : G(P) \in X
  BY <1>2
<1>4. a \in X
  BY <1>1
<1> HIDE DEF G
<1>5. g \in Rounds(X)
  BY <1>3 DEF Rounds
<1>6. PICK f : IsLoop(f, X, g, a, n)
  <2> HIDE DEF g, X
  <2>1. QED
    BY <1>4, <1>5, LoopExists
<1>7. f \in [0 .. n -> X] /\ f[0] = a /\ \A k \in 1 .. n : f[k] = g[f[k - 1]]
  BY <1>6 DEF IsLoop
<1>8. f = [d \in 0 .. n |-> IF d = 0 THEN a ELSE G(f[d - 1])]
  <2>1. ASSUME NEW k \in 1 .. n PROVE f[k] = G(f[k - 1])
    <3>1. k - 1 \in 0 .. n
      OBVIOUS
    <3>2. f[k - 1] \in X
      <4> HIDE DEF X, g
      <4>1. QED
        BY <1>7, <3>1
    <3>3. g[f[k - 1]] = G(f[k - 1])
      BY <3>2
    <3> HIDE DEF g
    <3>4. QED
      BY <1>7, <3>3
  <2> HIDE DEF X, g
  <2>2. f = [d \in 0 .. n |-> f[d]]
    BY <1>7
  <2>3. \A d \in 0 .. n : f[d] = IF d = 0 THEN a ELSE G(f[d - 1])
    BY <1>7, <2>1
  <2>4. QED
    BY <2>2, <2>3
<1> DEFINE Q(h) == h = [d \in 0 .. n |-> IF d = 0 THEN a ELSE G(h[d - 1])]
           L == Levels(v, n)
<1>9. L = CHOOSE h : Q(h)
  BY DEF Levels, G
<1>10. Q(CHOOSE h : Q(h))
  <2>1. Q(f)
    BY <1>8
  <2> HIDE DEF Q
  <2>2. QED
    BY <2>1
<1>11. L = [d \in 0 .. n |-> IF d = 0 THEN a ELSE G(L[d - 1])]
  BY <1>9, <1>10
<1> HIDE DEF L, a
<1>12. L[0] = a /\ \A k \in 1 .. n : L[k] = G(L[k - 1])
  BY <1>11
<1>13. \A k \in 1 .. n : L[k - 1] \in X => L[k] \in X
  BY <1>3, <1>12
<1>14. \A k \in 0 .. n : L[k] \in X
  <2> HIDE DEF X
  <2>1. L[0] \in X
    BY <1>4, <1>12
  <2>2. QED
    BY <1>13, <2>1, LoopInvariant
<1>15. Nodes(v, n) \subseteq S
  BY <1>14 DEF Nodes, L
<1>16. QED
  BY <1>1, <1>15 DEF Node

\* Of every C string: decoding it leaves allocated what json_delete frees of the
\* document, node by node, or nothing if there is none, validating it nothing;
\* and nothing is written behind a string buffer (lib/json/json.c:362-447, 623-906).
THEOREM MemoryOfEveryText ==
  text \in String => MemoryIsKept
<1> SUFFICES ASSUME text \in String PROVE MemoryIsKept
  OBVIOUS
<1> DEFINE d == json_decode(text)
           v == json_validate(text)
           n == Len(text)
<1>1. n \in Nat /\ n \in 0 .. n
  BY StringLength
<1>2. d.over = FALSE /\ (d.live = IF d.ok THEN d.val.blocks ELSE 0)
      /\ v.over = FALSE /\ v.live = 0
  BY DecodeKeeps
<1>3. d.ok => Tree(d.val)
  <2> DEFINE i == skip_space(text, 1)
             out == TRUE
             p == parse_value(text, i, out)
  <2>1. i \in 1 .. n + 1
    <3>1. 1 \in 1 .. n + 1
      BY <1>1
    <3>2. QED
      BY <3>1, SkipSpacePlace
  <2>2. d = Alone(text, p, out) /\ out \in BOOLEAN
    BY DEF json_decode
  <2> HIDE DEF i, out
  <2>3. p = Nested(text, out)[n][i]
    BY DEF parse_value
  <2>4. TreeTable(text, Nested(text, out)[n])
    BY <1>1, <2>2, NestedTree
  <2>5. TreeIfOk(p)
    BY <2>1, <2>3, <2>4 DEF TreeTable
  <2> HIDE DEF d, p
  <2>6. CASE p.ok /\ At(text, skip_space(text, p.pos)) # 0
    <3>1. d.ok = FALSE
      BY <2>2, <2>6 DEF Alone, Failed
    <3>2. QED
      BY <3>1
  <2>7. CASE ~(p.ok /\ At(text, skip_space(text, p.pos)) # 0)
    <3>1. d = p
      BY <2>2, <2>7 DEF Alone
    <3>2. QED
      BY <2>5, <3>1 DEF TreeIfOk
  <2>8. QED
    BY <2>6, <2>7
<1>4. d.ok => \A u \in Nodes(d.val, n) : IsCounted(u)
  BY <1>1, <1>3, NodesCounted
<1> HIDE DEF d, v
<1>5. ~d.over /\ ~v.over
  BY <1>2
<1>6. QED
  BY <1>2, <1>4, <1>5 DEF MemoryIsKept, OwnsDocument, OwnsNothing, d, v

-----------------------------------------------------------------------------
(* The grammar of JSON: its spans. *)

LEMMA PartBytes ==
  ASSUME NEW t \in String, NEW i \in 1 .. Len(t) + 1, NEW j \in i .. Len(t) + 1
  PROVE  /\ Part(t, i, j) \in String /\ Len(Part(t, i, j)) = j - i
         /\ \A k \in 1 .. j - i : Part(t, i, j)[k] = At(t, i + k - 1)
         /\ \A k \in 1 .. j - i : At(Part(t, i, j), k) = At(t, i + k - 1)
<1> DEFINE n == Len(t)
           c == SubSeq(t, i, j - 1)
<1>1. n \in Nat /\ DOMAIN t = 1 .. n
  BY StringLength
<1>2. c \in String /\ Len(c) = j - i /\ \A k \in 1 .. j - i : c[k] = t[(i - 1) + k]
  <2>1. t \in Seq(Byte)
    BY DEF String
  <2>2. CASE i = j
    BY <1>1, <2>1, <2>2, SubSeqProperties DEF String
  <2>3. CASE i # j
    BY <1>1, <2>1, <2>3, SubSeqProperties DEF String
  <2>4. QED
    BY <2>2, <2>3
<1>3. Part(t, i, j) = c
  BY DEF Part
<1> HIDE DEF c
<1>4. ASSUME NEW k \in 1 .. j - i PROVE c[k] = At(t, i + k - 1) /\ At(c, k) = At(t, i + k - 1)
  <2>1. (i - 1) + k = i + k - 1 /\ i + k - 1 \in 1 .. n
    BY <1>1
  <2>2. c[k] = At(t, i + k - 1)
    BY <1>1, <1>2, <2>1 DEF At
  <2>3. k \in DOMAIN c
    <3>1. DOMAIN c = 1 .. Len(c)
      BY <1>2, StringLength
    <3>2. QED
      BY <1>2, <3>1
  <2>4. QED
    BY <2>2, <2>3 DEF At
<1>5. QED
  BY <1>2, <1>3, <1>4


\* There is nothing in a span that ends where it starts, or in front of it.
LEMMA EmptyPart ==
  ASSUME NEW t \in String, NEW i \in 1 .. Len(t) + 1, NEW j \in 1 .. Len(t) + 1, j <= i
  PROVE  Len(Part(t, i, j)) = 0
<1>1. Len(t) \in Nat /\ t \in Seq(Byte)
  BY StringLength DEF String
<1>2. Part(t, i, j) = <<>>
  BY <1>1 DEF Part
<1>3. QED
  BY <1>2

-----------------------------------------------------------------------------
(* Scanning. *)

\* A place that bytes of cs lead to, and that has none, is where BehindAll ends.
LEMMA RunEnds ==
  ASSUME NEW t \in String, NEW i \in 1 .. Len(t) + 1, NEW j \in i .. Len(t) + 1, NEW cs, 0 \notin cs,
         At(t, j) \notin cs, \A k \in i .. j - 1 : At(t, k) \in cs
  PROVE  BehindAll(t, i, cs) = j
<1>1. PICK e \in i .. Len(t) + 1 : e = BehindAll(t, i, cs)
  BY BehindAllPlace
<1>2. At(t, e) \notin cs /\ \A k \in i .. e - 1 : At(t, k) \in cs
  BY <1>1, BehindAllPlace
<1>3. Len(t) \in Nat
  BY StringLength
<1>4. ~(e < j)
  BY <1>2, <1>3
<1>5. ~(j < e)
  BY <1>2, <1>3
<1>6. QED
  BY <1>1, <1>3, <1>4, <1>5

\* skip_space goes over white space and stops in front of something else.
LEMMA SkipsBlanks ==
  ASSUME NEW t \in String, NEW i \in 1 .. Len(t) + 1
  PROVE  /\ skip_space(t, i) \in i .. Len(t) + 1
         /\ IsBlank(t, i, skip_space(t, i)) /\ At(t, skip_space(t, i)) \notin Space
<1>1. 0 \notin Space
  BY DEF Space
<1>2. QED
  BY <1>1, BehindAllPlace DEF skip_space, IsBlank

\* ... and it is the only place where white space can end.
LEMMA BlanksSkipped ==
  ASSUME NEW t \in String, NEW i \in 1 .. Len(t) + 1, NEW j \in i .. Len(t) + 1,
         IsBlank(t, i, j), At(t, j) \notin Space
  PROVE  skip_space(t, i) = j
<1>1. 0 \notin Space
  BY DEF Space
<1>2. QED
  BY <1>1, RunEnds DEF skip_space, IsBlank

\* IsDigit, of the bytes of a text.
LEMMA DigitBytes ==
  ASSUME NEW t \in String, NEW k \in Int
  PROVE  At(t, k) \in 48 .. 57 <=> IsDigit(At(t, k))
<1>1. PICK b \in 0 .. 255 : b = At(t, k)
  BY ByteAt
<1>2. b \in 48 .. 57 <=> IsDigit(b)
  BY DEF IsDigit
<1>3. QED
  BY <1>1, <1>2

\* Digits ends where the first other byte is.
LEMMA DigitsRun ==
  ASSUME NEW t \in String, NEW i \in 1 .. Len(t) + 1
  PROVE  /\ Digits(t, i) \in i .. Len(t) + 1 /\ ~IsDigit(At(t, Digits(t, i)))
         /\ \A k \in i .. Digits(t, i) - 1 : IsDigit(At(t, k))
<1> DEFINE cs == 48 .. 57
           e == BehindAll(t, i, cs)
<1>1. \A k \in Int : At(t, k) \in cs <=> IsDigit(At(t, k))
  BY DigitBytes
<1>2. Digits(t, i) = e /\ 0 \notin cs
  BY DEF Digits
<1> HIDE DEF cs
<1>3. e \in i .. Len(t) + 1 /\ At(t, e) \notin cs /\ \A k \in i .. e - 1 : At(t, k) \in cs
  BY <1>2, BehindAllPlace
<1>4. Len(t) \in Nat
  BY StringLength
<1> HIDE DEF e
<1>5. ~IsDigit(At(t, e)) /\ \A k \in i .. e - 1 : IsDigit(At(t, k))
  BY <1>1, <1>3, <1>4
<1>6. QED
  BY <1>2, <1>3, <1>5

\* A run of digits is read to its end.
LEMMA DigitsEnd ==
  ASSUME NEW t \in String, NEW i \in 1 .. Len(t) + 1, NEW j \in i .. Len(t) + 1,
         ~IsDigit(At(t, j)), \A k \in i .. j - 1 : IsDigit(At(t, k))
  PROVE  Digits(t, i) = j
<1>1. Len(t) \in Nat
  BY StringLength
<1>2. At(t, j) \notin 48 .. 57 /\ \A k \in i .. j - 1 : At(t, k) \in 48 .. 57
  BY <1>1, DigitBytes
<1>3. 0 \notin 48 .. 57
  OBVIOUS
<1>4. QED
  BY <1>2, <1>3, RunEnds DEF Digits

-----------------------------------------------------------------------------
(* Numbers. *)

\* What is read as the integer part of a number is one.
LEMMA IntegerFound ==
  ASSUME NEW t \in String, NEW a \in 1 .. Len(t) + 1, IntegerEnd(t, a) # a
  PROVE  IsInteger(t, a, IntegerEnd(t, a))
<1>1. Len(t) \in Nat
  BY StringLength
<1>2. CASE At(t, a) = 48
  <2>1. IntegerEnd(t, a) = a + 1
    BY <1>2 DEF IntegerEnd
  <2>2. \A k \in a .. (a + 1) - 1 : k = a
    BY <1>1
  <2>3. IsDigit(At(t, a))
    BY <1>2 DEF IsDigit
  <2>4. \A k \in a .. (a + 1) - 1 : IsDigit(At(t, k))
    BY <2>2, <2>3
  <2>5. QED
    BY <1>1, <2>1, <2>4 DEF IsInteger, AreDigits
<1>3. CASE At(t, a) # 48
  <2>1. PICK b \in a .. Len(t) + 1 : b = Digits(t, a)
    BY DigitsRun
  <2>2. \A k \in a .. b - 1 : IsDigit(At(t, k))
    BY <2>1, DigitsRun
  <2>3. IntegerEnd(t, a) = b /\ a < b
    BY <1>1, <1>3, <2>1 DEF IntegerEnd
  <2>4. QED
    BY <1>3, <2>2, <2>3 DEF IsInteger, AreDigits
<1>4. QED
  BY <1>2, <1>3

\* What an optional part ends at.
LEMMA OptionalFound ==
  ASSUME NEW t \in String, NEW i \in 1 .. Len(t) + 1, NEW opens \in BOOLEAN, NEW j,
         opens => j \in 1 .. Len(t) + 1, OptionalEnd(t, i, opens, j) # 0
  PROVE  /\ ~opens => OptionalEnd(t, i, opens, j) = i
         /\ opens => AreDigits(t, j, OptionalEnd(t, i, opens, j))
<1>1. CASE ~opens
  BY <1>1 DEF OptionalEnd
<1>2. CASE opens
  <2>1. Len(t) \in Nat /\ j \in 1 .. Len(t) + 1
    BY <1>2, StringLength
  <2>2. PICK e \in j .. Len(t) + 1 : e = Digits(t, j)
    BY <2>1, DigitsRun
  <2>3. \A k \in j .. e - 1 : IsDigit(At(t, k))
    BY <2>1, <2>2, DigitsRun
  <2>4. OptionalEnd(t, i, opens, j) = e /\ j < e
    BY <1>2, <2>1, <2>2 DEF OptionalEnd
  <2>5. QED
    BY <1>2, <2>3, <2>4 DEF AreDigits
<1>3. QED
  BY <1>1, <1>2

\* A part of digits that is there is read to its end.
LEMMA OptionalRead ==
  ASSUME NEW t \in String, NEW i, NEW j \in 1 .. Len(t) + 1, NEW e \in j .. Len(t) + 1,
         AreDigits(t, j, e), ~IsDigit(At(t, e))
  PROVE  OptionalEnd(t, i, TRUE, j) = e
<1>1. Len(t) \in Nat
  BY StringLength
<1>2. Digits(t, j) = e /\ j < e
  BY <1>1, DigitsEnd DEF AreDigits
<1>3. QED
  BY <1>1, <1>2 DEF OptionalEnd

\* None of the other bytes of a number is a digit, and a byte that is not NUL is in the text.
LEMMA NoDigit ==
  ASSUME NEW t \in String
  PROVE  /\ ~IsDigit(0) /\ ~IsDigit(45) /\ ~IsDigit(46) /\ ~IsDigit(69) /\ ~IsDigit(101)
         /\ ~IsDigit(43)
         /\ \A i \in Int : At(t, i) # 0 => i \in 1 .. Len(t)
BY ByteAt DEF IsDigit

\* What parse_number accepts is a number.
LEMMA NumberFound ==
  ASSUME NEW t \in String, NEW i \in 1 .. Len(t) + 1, parse_number(t, i) # 0
  PROVE  IsNumber(t, i, parse_number(t, i))
<1> DEFINE a == IF At(t, i) = 45 THEN i + 1 ELSE i
           b == IntegerEnd(t, a)
           dot == At(t, b) = 46
           c == OptionalEnd(t, b, dot, b + 1)
           sign == IF At(t, c + 1) \in {43, 45} THEN 1 ELSE 0
           letter == At(t, c) \in {69, 101}
           d == OptionalEnd(t, c, letter, c + 1 + sign)
<1>1. parse_number(t, i) = d /\ b # a /\ c # 0 /\ d # 0
  BY DEF parse_number
<1>2. Len(t) \in Nat
  BY StringLength
<1>3. a \in {i, i + 1} /\ a \in 1 .. Len(t) + 1 /\ (a = i + 1 => At(t, i) = 45)
  BY <1>2, NoDigit
<1> HIDE DEF a
<1>4. b \in a .. Len(t) + 1 /\ b \in 1 .. Len(t) + 1
  BY <1>2, <1>3, IntegerEndPlace
<1>5. IsInteger(t, a, b)
  BY <1>1, <1>3, IntegerFound
<1> HIDE DEF b
<1>6. dot => b + 1 \in b .. Len(t) + 1 /\ b + 1 \in 1 .. Len(t) + 1
  BY <1>2, <1>4, NoDigit
<1>7. dot \in BOOLEAN
  OBVIOUS
<1> HIDE DEF dot
<1>8. c \in b .. Len(t) + 1 /\ c \in 1 .. Len(t) + 1 /\ (~dot => c = b) /\ (dot => AreDigits(t, b + 1, c))
  BY <1>1, <1>2, <1>4, <1>6, <1>7, OptionalEndPlace, OptionalFound
<1>9. IsFraction(t, b, c)
  BY <1>8 DEF IsFraction, dot
<1> HIDE DEF c
<1>10. letter => c + 1 + sign \in c .. Len(t) + 1 /\ c + 1 + sign \in 1 .. Len(t) + 1
  <2>1. letter => At(t, c) # 0 /\ (sign = 1 => At(t, c + 1) # 0)
    OBVIOUS
  <2>2. sign \in {0, 1}
    OBVIOUS
  <2> HIDE DEF sign, letter
  <2>3. QED
    BY <1>2, <1>8, <2>1, <2>2, NoDigit
<1>11. (~letter => d = c) /\ (letter => AreDigits(t, c + 1 + sign, d))
  <2> HIDE DEF sign
  <2>1. letter \in BOOLEAN
    OBVIOUS
  <2> HIDE DEF letter
  <2>2. QED
    BY <1>1, <1>8, <1>10, <2>1, OptionalFound
<1>12. IsExponent(t, c, d)
  <2>1. CASE ~letter
    BY <1>11, <2>1 DEF IsExponent
  <2>2. CASE letter /\ sign = 0
    BY <1>11, <1>8, <2>2 DEF IsExponent
  <2>3. CASE letter /\ sign = 1
    <3>1. AreDigits(t, c + 2, d)
      <4>1. (c + 1) + 1 = c + 2
        BY <1>2, <1>8
      <4>2. QED
        BY <1>11, <2>3, <4>1
    <3>2. At(t, c + 1) \in {43, 45} /\ At(t, c) \in {69, 101}
      BY <2>3
    <3>3. QED
      BY <3>1, <3>2 DEF IsExponent
  <2>4. QED
    BY <2>1, <2>2, <2>3
<1>13. d \in c .. Len(t) + 1
  <2>1. letter \in BOOLEAN
    OBVIOUS
  <2> HIDE DEF letter, sign
  <2>2. QED
    BY <1>1, <1>8, <1>10, <2>1, OptionalEndPlace
<1> HIDE DEF d
<1>14. b \in a .. d /\ c \in b .. d
  BY <1>2, <1>4, <1>8, <1>13
<1>15. QED
  BY <1>1, <1>3, <1>5, <1>9, <1>12, <1>14 DEF IsNumber

\* The bytes that can follow a value, and those among them that are no space.
Stops  == {0, 44, 58, 93, 125}
Follow == Stops \cup Space

\* A byte that can follow a value cannot continue a number.
LEMMA FollowEndsNumber ==
  ASSUME NEW x, x \in Follow
  PROVE  ~IsDigit(x) /\ x \notin {46, 69, 101}
BY DEF Follow, Stops, Space, IsDigit

\* A number in front of such a byte is read to its end.
LEMMA NumberRead ==
  ASSUME NEW t \in String, NEW i \in 1 .. Len(t) + 1, NEW j \in 1 .. Len(t) + 1, IsNumber(t, i, j),
         At(t, j) \in Follow
  PROVE  parse_number(t, i) = j
<1>1. PICK a \in {i, i + 1} :
        /\ a = i + 1 => At(t, i) = 45
        /\ \E b \in a .. j : IsInteger(t, a, b) /\ \E c \in b .. j : IsFraction(t, b, c) /\ IsExponent(t, c, j)
  BY DEF IsNumber
<1>2. PICK b \in a .. j : IsInteger(t, a, b) /\ \E c \in b .. j : IsFraction(t, b, c) /\ IsExponent(t, c, j)
  BY <1>1
<1>3. PICK c \in b .. j : IsFraction(t, b, c) /\ IsExponent(t, c, j)
  BY <1>2
<1>4. Len(t) \in Nat /\ a \in Int /\ b \in Int /\ c \in Int
  BY StringLength
<1>5. a < b /\ a \in 1 .. Len(t) + 1 /\ b \in a .. Len(t) + 1 /\ b \in 1 .. Len(t) + 1
      /\ c \in b .. Len(t) + 1 /\ c \in 1 .. Len(t) + 1 /\ b <= c /\ c <= j
  BY <1>2, <1>4 DEF IsInteger, AreDigits
<1>6. (\A k \in a .. b - 1 : IsDigit(At(t, k))) /\ (At(t, a) = 48 => b = a + 1)
  BY <1>2 DEF IsInteger, AreDigits
<1>7. a = IF At(t, i) = 45 THEN i + 1 ELSE i
  <2>1. a = i => At(t, i) # 45
    BY <1>4, <1>5, <1>6, NoDigit
  <2>2. QED
    BY <1>1, <1>4, <2>1
<1>8. ~IsDigit(At(t, j)) /\ At(t, j) \notin {46, 69, 101}
  BY FollowEndsNumber
<1>9. ~IsDigit(At(t, c)) /\ At(t, c) # 46
  BY <1>3, <1>8, NoDigit DEF IsExponent
<1>10. ~IsDigit(At(t, b))
  BY <1>3, <1>9, NoDigit DEF IsFraction
<1>11. IntegerEnd(t, a) = b
  BY <1>5, <1>6, <1>10, DigitsEnd DEF IntegerEnd
<1>12. OptionalEnd(t, b, At(t, b) = 46, b + 1) = c
  <2>1. CASE b = c
    BY <1>9, <2>1 DEF OptionalEnd
  <2>2. CASE At(t, b) = 46 /\ AreDigits(t, b + 1, c)
    <3>1. b + 1 \in 1 .. Len(t) + 1 /\ c \in b + 1 .. Len(t) + 1
      BY <1>4, <1>5, <2>2 DEF AreDigits
    <3>2. OptionalEnd(t, b, TRUE, b + 1) = c
      BY <1>9, <2>2, <3>1, OptionalRead
    <3>3. QED
      BY <2>2, <3>2
  <2>3. QED
    BY <1>3, <2>1, <2>2 DEF IsFraction
<1> DEFINE sign == IF At(t, c + 1) \in {43, 45} THEN 1 ELSE 0
<1>13. OptionalEnd(t, c, At(t, c) \in {69, 101}, c + 1 + sign) = j
  <2>1. CASE c = j
    BY <1>8, <2>1 DEF OptionalEnd
  <2>2. ASSUME NEW s \in {0, 1}, s = sign, At(t, c) \in {69, 101}, AreDigits(t, c + 1 + s, j)
        PROVE  OptionalEnd(t, c, At(t, c) \in {69, 101}, c + 1 + sign) = j
    <3> HIDE DEF sign
    <3>1. c + 1 + s \in 1 .. Len(t) + 1 /\ j \in c + 1 + s .. Len(t) + 1
      BY <1>4, <1>5, <2>2 DEF AreDigits
    <3>2. OptionalEnd(t, c, TRUE, c + 1 + s) = j
      <4> DEFINE k == c + 1 + s
      <4>1. k \in 1 .. Len(t) + 1 /\ j \in k .. Len(t) + 1 /\ AreDigits(t, k, j)
        BY <2>2, <3>1
      <4> HIDE DEF k
      <4>2. OptionalEnd(t, c, TRUE, k) = j
        BY <1>8, <4>1, OptionalRead
      <4>3. QED
        BY <4>2 DEF k
    <3>3. QED
      BY <2>2, <3>2
  <2>3. CASE At(t, c) \in {69, 101} /\ AreDigits(t, c + 1, j)
    <3>1. IsDigit(At(t, c + 1))
      BY <1>4, <2>3 DEF AreDigits
    <3>2. sign = 0 /\ c + 1 + 0 = c + 1
      BY <1>4, <3>1, NoDigit
    <3>3. QED
      BY <2>2, <2>3, <3>2
  <2>4. CASE At(t, c) \in {69, 101} /\ At(t, c + 1) \in {43, 45} /\ AreDigits(t, c + 2, j)
    <3>1. sign = 1 /\ c + 1 + 1 = c + 2
      BY <1>4, <2>4
    <3>2. QED
      BY <2>2, <2>4, <3>1
  <2>5. QED
    BY <1>3, <2>1, <2>3, <2>4 DEF IsExponent
<1>14. ~(b = a \/ c = 0)
  BY <1>4, <1>5
<1>15. QED
  BY <1>7, <1>11, <1>12, <1>13, <1>14 DEF parse_number

\* A number starts with a digit or a minus sign.
LEMMA NumberStart ==
  ASSUME NEW t \in String, NEW i \in 1 .. Len(t) + 1, NEW j \in 1 .. Len(t) + 1, IsNumber(t, i, j)
  PROVE  i < j /\ (At(t, i) = 45 \/ IsDigit(At(t, i)))
<1>1. PICK a \in {i, i + 1} : (a = i + 1 => At(t, i) = 45) /\ \E b \in a .. j : IsInteger(t, a, b)
  BY DEF IsNumber
<1>2. PICK b \in a .. j : IsInteger(t, a, b)
  BY <1>1
<1>3. Len(t) \in Nat /\ a \in Int /\ b \in Int
  BY StringLength
<1>4. a < b /\ IsDigit(At(t, a))
  BY <1>2, <1>3 DEF IsInteger, AreDigits
<1>5. QED
  BY <1>1, <1>3, <1>4

-----------------------------------------------------------------------------
(* Literals. *)

\* The three literals, by their first bytes.
LEMMA LiteralBytes ==
  ASSUME NEW w \in {"null", "true", "false"}
  PROVE  /\ Literal(w) \in String /\ Len(Literal(w)) \in {4, 5}
         /\ Literal(w)[1] \in {110, 116, 102} /\ Literal(w)[1] \notin Follow \cup {34, 91, 123}
         /\ DOMAIN Literal(w) = 1 .. Len(Literal(w))
<1>1. \A s \in String : DOMAIN s = 1 .. Len(s)
  BY StringLength
<1>2. Literal(w) \in String /\ Len(Literal(w)) \in {4, 5}
  <2>1. CASE w = "null"
    <3>1. Literal(w) = <<110, 117, 108, 108>>
      BY <2>1 DEF Literal
    <3>2. 110 \in Byte /\ 117 \in Byte /\ 108 \in Byte
      BY DEF Byte
    <3>3. <<110, 117, 108, 108>> \in String /\ Len(<<110, 117, 108, 108>>) = 4
      BY <3>2, BytesOfFour
    <3>4. QED
      BY <3>1, <3>3
  <2>2. CASE w = "true"
    <3>1. Literal(w) = <<116, 114, 117, 101>>
      BY <2>2 DEF Literal
    <3>2. 116 \in Byte /\ 114 \in Byte /\ 117 \in Byte /\ 101 \in Byte
      BY DEF Byte
    <3>3. <<116, 114, 117, 101>> \in String /\ Len(<<116, 114, 117, 101>>) = 4
      BY <3>2, BytesOfFour
    <3>4. QED
      BY <3>1, <3>3
  <2>3. CASE w = "false"
    <3>1. Literal(w) = <<102, 97, 108, 115, 101>>
      BY <2>3 DEF Literal
    <3>2. 102 \in Byte /\ 97 \in Byte /\ 108 \in Byte /\ 115 \in Byte /\ 101 \in Byte
      BY DEF Byte
    <3>3. Len(<<102, 97, 108, 115, 101>>) = 5 /\ <<102, 97, 108, 115, 101>> \in Seq(Byte)
      BY <3>2
    <3>4. QED
      BY <3>1, <3>3 DEF String
  <2>4. QED
    BY <2>1, <2>2, <2>3
<1>3. Literal(w)[1] \in {110, 116, 102}
  BY DEF Literal
<1>4. QED
  BY <1>1, <1>2, <1>3 DEF Follow, Stops, Space

\* A literal that is expected and found is in the text.
LEMMA LiteralFound ==
  ASSUME NEW t \in String, NEW i \in 1 .. Len(t) + 1, NEW w \in {"null", "true", "false"},
         expect_literal(t, i, w)
  PROVE  Part(t, i, i + Len(Literal(w))) = Literal(w)
<1>1. Literal(w) \in String /\ Len(Literal(w)) \in Nat /\ DOMAIN Literal(w) = 1 .. Len(Literal(w))
  BY LiteralBytes
<1> DEFINE l == Literal(w)
           n == Len(l)
           j == i + n
<1>2. Len(t) \in Nat /\ j \in i .. Len(t) + 1
  <2>1. j \in i + 1 .. Len(t) + 1
    BY LiteralInside
  <2>2. QED
    BY <2>1, StringLength
<1>3. \A k \in 1 .. n : At(t, i + k - 1) = l[k]
  BY <1>1 DEF expect_literal
<1> HIDE DEF l
<1>4. j - i = n
  BY <1>1, <1>2 DEF l
<1> HIDE DEF j
<1> HIDE DEF n
<1>5. Part(t, i, j) \in String /\ Len(Part(t, i, j)) = n /\ \A k \in 1 .. n : Part(t, i, j)[k] = l[k]
  <2>1. Part(t, i, j) \in String /\ Len(Part(t, i, j)) = j - i
        /\ \A k \in 1 .. j - i : Part(t, i, j)[k] = At(t, i + k - 1)
    BY <1>2, PartBytes
  <2>2. QED
    BY <1>3, <1>4, <2>1
<1>6. Part(t, i, j) \in Seq(Byte) /\ l \in Seq(Byte) /\ Len(l) = n
  BY <1>1, <1>5 DEF String, l, n
<1>7. Part(t, i, j) = l
  BY <1>5, <1>6, SeqEqual
<1>8. QED
  BY <1>7 DEF j, l, n

\* ... and one that is in the text is found.
LEMMA LiteralRead ==
  ASSUME NEW t \in String, NEW i \in 1 .. Len(t) + 1, NEW j \in 1 .. Len(t) + 1,
         NEW w \in {"null", "true", "false"}, Part(t, i, j) = Literal(w)
  PROVE  expect_literal(t, i, w) /\ j = i + Len(Literal(w)) /\ i < j /\ At(t, i) = Literal(w)[1]
<1> DEFINE l == Literal(w)
           n == Len(l)
<1>1. n \in {4, 5} /\ DOMAIN l = 1 .. n
  BY LiteralBytes
<1>2. Len(t) \in Nat
  BY StringLength
<1>3. i < j
  <2>1. ASSUME j <= i PROVE FALSE
    <3>1. Len(Part(t, i, j)) = 0
      BY <2>1, EmptyPart
    <3>2. QED
      BY <1>1, <3>1
  <2>2. QED
    BY <1>2, <2>1
<1>4. j \in i .. Len(t) + 1
  BY <1>2, <1>3
<1>5. Len(Part(t, i, j)) = j - i /\ \A k \in 1 .. j - i : Part(t, i, j)[k] = At(t, i + k - 1)
  BY <1>4, PartBytes
<1>6. n = j - i
  BY <1>5
<1> HIDE DEF l
<1>7. \A k \in 1 .. n : l[k] = At(t, i + k - 1)
  BY <1>5, <1>6 DEF l
<1>8. j = i + n /\ i + 1 - 1 = i /\ 1 \in 1 .. n
  BY <1>1, <1>2, <1>4, <1>6
<1>9. expect_literal(t, i, w)
  BY <1>1, <1>7 DEF expect_literal, l
<1>10. At(t, i) = l[1]
  BY <1>7, <1>8
<1>11. QED
  BY <1>3, <1>8, <1>9, <1>10 DEF l

-----------------------------------------------------------------------------
(* The characters of a string literal. *)

\* Six bytes that are the escape of a 16-bit number, read in place or cut out.
LEMMA HexEscape ==
  ASSUME NEW s, NEW t \in String, NEW i \in Int, Len(s) = 6, \A k \in 1 .. 6 : s[k] = At(t, i + k - 1)
  PROVE  EscapedUnit(s) <=> At(t, i) = 92 /\ At(t, i + 1) = 117 /\ IsHex16(t, i + 2)
<1>1. s[1] = At(t, i) /\ s[2] = At(t, i + 1)
  <2>1. s[1] = At(t, i + 1 - 1) /\ s[2] = At(t, i + 2 - 1) /\ i + 1 - 1 = i /\ i + 2 - 1 = i + 1
    OBVIOUS
  <2>2. QED
    BY <2>1
<1>2. ASSUME NEW k \in 0 .. 3 PROVE s[k + 3] = At(t, (i + 2) + k)
  <2>1. k + 3 \in 1 .. 6 /\ i + (k + 3) - 1 = (i + 2) + k
    OBVIOUS
  <2>2. QED
    BY <2>1
<1>3. (\A k \in 3 .. 6 : IsHex(s[k])) <=> IsHex16(t, i + 2)
  <2>1. ASSUME \A k \in 3 .. 6 : IsHex(s[k]), NEW k \in 0 .. 3 PROVE IsHex(At(t, (i + 2) + k))
    <3>1. k + 3 \in 3 .. 6
      OBVIOUS
    <3>2. QED
      BY <1>2, <2>1, <3>1
  <2>2. ASSUME IsHex16(t, i + 2), NEW k \in 3 .. 6 PROVE IsHex(s[k])
    <3>1. k - 3 \in 0 .. 3 /\ (k - 3) + 3 = k
      OBVIOUS
    <3>2. s[k] = At(t, (i + 2) + (k - 3)) /\ IsHex(At(t, (i + 2) + (k - 3)))
      BY <1>2, <2>2, <3>1 DEF IsHex16
    <3>3. QED
      BY <3>2
  <2>3. QED
    BY <2>1, <2>2 DEF IsHex16
<1>4. QED
  BY <1>1, <1>3 DEF EscapedUnit

\* The same digits are the same number.
LEMMA HexSame ==
  ASSUME NEW c, NEW m \in Int, NEW t, NEW i \in Int, \A k \in 0 .. 3 : At(c, m + k) = At(t, i + k)
  PROVE  parse_hex16(c, m) = parse_hex16(t, i)
<1>1. m + 0 = m /\ i + 0 = i /\ 0 \in 0 .. 3 /\ 1 \in 0 .. 3 /\ 2 \in 0 .. 3 /\ 3 \in 0 .. 3
  OBVIOUS
<1>2. At(c, m) = At(t, i) /\ At(c, m + 1) = At(t, i + 1) /\ At(c, m + 2) = At(t, i + 2)
      /\ At(c, m + 3) = At(t, i + 3)
  BY <1>1
<1>3. QED
  BY <1>2 DEF parse_hex16

\* A span, seen from its own start.
LEMMA SpanBytes ==
  ASSUME NEW t \in String, NEW i \in 1 .. Len(t) + 1, NEW j \in 1 .. Len(t) + 1, i < j
  PROVE  LET c == Part(t, i, j)
         IN  /\ c \in String /\ Len(c) = j - i /\ c[1] = At(t, i) /\ (i + 1 < j => c[2] = At(t, i + 1))
             /\ \A k \in 1 .. j - i : c[k] = At(t, i + k - 1) /\ At(c, k) = At(t, i + k - 1)
<1>1. Len(t) \in Nat
  BY StringLength
<1>2. j \in i .. Len(t) + 1
  BY <1>1
<1> DEFINE c == Part(t, i, j)
<1>3. /\ c \in String /\ Len(c) = j - i
      /\ \A k \in 1 .. j - i : c[k] = At(t, i + k - 1) /\ At(c, k) = At(t, i + k - 1)
  BY <1>2, PartBytes
<1> HIDE DEF c
<1>4. i + 1 - 1 = i /\ i + 2 - 1 = i + 1 /\ 1 \in 1 .. j - i /\ (i + 1 < j => 2 \in 1 .. j - i)
  BY <1>1, <1>2
<1>5. c[1] = At(t, i + 1 - 1) /\ (i + 1 < j => c[2] = At(t, i + 2 - 1))
  BY <1>3, <1>4
<1>6. c[1] = At(t, i) /\ (i + 1 < j => c[2] = At(t, i + 1))
  BY <1>4, <1>5
<1>7. QED
  BY <1>3, <1>6 DEF c

\* A span of one escape.
LEMMA OneEscape ==
  ASSUME NEW t \in String, NEW i \in 1 .. Len(t) + 1, NEW j \in 1 .. Len(t) + 1, j = i + 6
  PROVE  /\ EscapedUnit(Part(t, i, j)) <=> At(t, i) = 92 /\ At(t, i + 1) = 117 /\ IsHex16(t, i + 2)
         /\ parse_hex16(Part(t, i, j), 3) = parse_hex16(t, i + 2)
<1>1. Len(t) \in Nat /\ i < j /\ j - i = 6
  BY StringLength
<1>2. PICK c : c = Part(t, i, j)
  OBVIOUS
<1>3. Len(c) = 6 /\ \A k \in 1 .. 6 : c[k] = At(t, i + k - 1) /\ At(c, k) = At(t, i + k - 1)
  <2>1. Len(c) = j - i /\ \A k \in 1 .. j - i : c[k] = At(t, i + k - 1) /\ At(c, k) = At(t, i + k - 1)
    BY <1>1, <1>2, SpanBytes
  <2>2. QED
    BY <1>1, <2>1
<1>4. EscapedUnit(c) <=> At(t, i) = 92 /\ At(t, i + 1) = 117 /\ IsHex16(t, i + 2)
  BY <1>1, <1>3, HexEscape
<1>5. ASSUME NEW k \in 0 .. 3 PROVE At(c, 3 + k) = At(t, (i + 2) + k)
  <2>1. 3 + k \in 1 .. 6 /\ i + (3 + k) - 1 = (i + 2) + k
    BY <1>1
  <2>2. QED
    BY <1>3, <2>1
<1>6. parse_hex16(c, 3) = parse_hex16(t, i + 2)
  BY <1>1, <1>5, HexSame
<1>7. QED
  BY <1>2, <1>4, <1>6

\* A span of two.
LEMMA TwoEscapes ==
  ASSUME NEW t \in String, NEW i \in 1 .. Len(t) + 1, NEW j \in 1 .. Len(t) + 1, j = i + 12
  PROVE  LET c == Part(t, i, j)
         IN  /\ EscapedUnit(SubSeq(c, 1, 6))
                  <=> At(t, i) = 92 /\ At(t, i + 1) = 117 /\ IsHex16(t, i + 2)
             /\ EscapedUnit(SubSeq(c, 7, 12))
                  <=> At(t, i + 6) = 92 /\ At(t, i + 7) = 117 /\ IsHex16(t, i + 8)
             /\ parse_hex16(c, 3) = parse_hex16(t, i + 2)
             /\ parse_hex16(c, 9) = parse_hex16(t, i + 8)
<1>1. Len(t) \in Nat /\ i < j /\ j - i = 12
  BY StringLength
<1>2. PICK c : c = Part(t, i, j)
  OBVIOUS
<1>3. c \in String /\ Len(c) = 12
      /\ \A k \in 1 .. 12 : c[k] = At(t, i + k - 1) /\ At(c, k) = At(t, i + k - 1)
  <2>1. c \in String /\ Len(c) = j - i
        /\ \A k \in 1 .. j - i : c[k] = At(t, i + k - 1) /\ At(c, k) = At(t, i + k - 1)
    BY <1>1, <1>2, SpanBytes
  <2>2. QED
    BY <1>1, <2>1
<1>4. \A m \in 1 .. 13 : m \in 1 .. Len(c) + 1
  BY <1>3
<1> DEFINE a == SubSeq(c, 1, 6)
           b == SubSeq(c, 7, 12)
<1>5. a = Part(c, 1, 7) /\ b = Part(c, 7, 13)
  BY DEF Part
<1>6. Len(a) = 6 /\ \A k \in 1 .. 6 : a[k] = At(c, 1 + k - 1)
  <2>1. 1 \in 1 .. Len(c) + 1 /\ 7 \in 1 .. Len(c) + 1 /\ 1 < 7 /\ 7 - 1 = 6
    BY <1>4
  <2> HIDE DEF a, b
  <2>2. Len(a) = 7 - 1 /\ \A k \in 1 .. 7 - 1 : a[k] = At(c, 1 + k - 1)
    BY <1>3, <1>5, <2>1, SpanBytes
  <2>3. QED
    BY <2>1, <2>2
<1>7. Len(b) = 6 /\ \A k \in 1 .. 6 : b[k] = At(c, 7 + k - 1)
  <2>1. 7 \in 1 .. Len(c) + 1 /\ 13 \in 1 .. Len(c) + 1 /\ 7 < 13 /\ 13 - 7 = 6
    BY <1>4
  <2> HIDE DEF a, b
  <2>2. Len(b) = 13 - 7 /\ \A k \in 1 .. 13 - 7 : b[k] = At(c, 7 + k - 1)
    BY <1>3, <1>5, <2>1, SpanBytes
  <2>3. QED
    BY <2>1, <2>2
<1> HIDE DEF a, b
<1>8. \A k \in 1 .. 6 : a[k] = At(t, i + k - 1)
  <2>1. ASSUME NEW k \in 1 .. 6 PROVE a[k] = At(t, i + k - 1)
    <3>1. 1 + k - 1 = k /\ k \in 1 .. 12
      OBVIOUS
    <3>2. QED
      BY <1>3, <1>6, <3>1
  <2>2. QED
    BY <2>1
<1>9. \A k \in 1 .. 6 : b[k] = At(t, (i + 6) + k - 1)
  <2>1. ASSUME NEW k \in 1 .. 6 PROVE b[k] = At(t, (i + 6) + k - 1)
    <3>1. 7 + k - 1 \in 1 .. 12 /\ i + (7 + k - 1) - 1 = (i + 6) + k - 1
      BY <1>1
    <3>2. QED
      BY <1>3, <1>7, <3>1
  <2>2. QED
    BY <2>1
<1>10. EscapedUnit(a) <=> At(t, i) = 92 /\ At(t, i + 1) = 117 /\ IsHex16(t, i + 2)
  <2>1. Len(a) = 6 /\ i \in Int
    BY <1>1, <1>6
  <2>2. QED
    BY <1>8, <2>1, HexEscape
<1>11. EscapedUnit(b) <=> At(t, i + 6) = 92 /\ At(t, i + 7) = 117 /\ IsHex16(t, i + 8)
  <2>1. (i + 6) + 1 = i + 7 /\ (i + 6) + 2 = i + 8
    BY <1>1
  <2>2. EscapedUnit(b) <=> At(t, i + 6) = 92 /\ At(t, (i + 6) + 1) = 117 /\ IsHex16(t, (i + 6) + 2)
    <3>1. Len(b) = 6 /\ i + 6 \in Int
      BY <1>1, <1>7
    <3>2. QED
      BY <1>9, <3>1, HexEscape
  <2>3. QED
    BY <2>1, <2>2
<1>12. ASSUME NEW k \in 0 .. 3
       PROVE  At(c, 3 + k) = At(t, (i + 2) + k) /\ At(c, 9 + k) = At(t, (i + 8) + k)
  <2>1. 3 + k \in 1 .. 12 /\ i + (3 + k) - 1 = (i + 2) + k
        /\ 9 + k \in 1 .. 12 /\ i + (9 + k) - 1 = (i + 8) + k
    BY <1>1
  <2>2. QED
    BY <1>3, <2>1
<1>13. parse_hex16(c, 3) = parse_hex16(t, i + 2)
  BY <1>1, <1>12, HexSame
<1>14. parse_hex16(c, 9) = parse_hex16(t, i + 8)
  BY <1>1, <1>12, HexSame
<1>15. QED
  BY <1>2, <1>10, <1>11, <1>13, <1>14 DEF a, b

\* The code point of a character of UTF-8 tells if it is one byte.
LEMMA OnePayload ==
  ASSUME NEW c \in String, Len(c) \in 1 .. 4, IsUtf8Char(c)
  PROVE  /\ Len(c) = 1 => Payload(c) = c[1] /\ c[1] <= 127
         /\ Len(c) # 1 => Payload(c) \in Nat /\ Payload(c) >= 128 /\ c[1] > 191
<1>1. LeadLength(c[1]) = Len(c) /\ Payload(c) >= Least[Len(c)] /\ Payload(c) \in Nat
  BY DEF IsUtf8Char, IsCodePoint
<1>2. 1 \in 1 .. Len(c)
  OBVIOUS
<1>3. c[1] \in Byte
  BY <1>2, ByteInside
<1>4. CASE Len(c) = 1
  <2>1. c[1] <= 127
    BY <1>1, <1>3, <1>4 DEF LeadLength, Byte
  <2>2. QED
    BY <1>4, <2>1 DEF Payload
<1>5. CASE Len(c) # 1
  <2>1. c[1] > 191
    <3>1. PICK b \in 1 .. 255 : b = c[1]
      BY <1>3 DEF Byte
    <3>2. LeadLength(b) # 1
      BY <1>1, <1>5, <3>1
    <3>3. LeadLength(b) # 0
      BY <1>1, <3>1
    <3>4. b > 191
      BY <3>2, <3>3 DEF LeadLength
    <3>5. QED
      BY <3>1, <3>4
  <2>2. Least[2] = 128 /\ Least[3] = 2048 /\ Least[4] = 65536
    BY DEF Least
  <2>3. Len(c) = 2 \/ Len(c) = 3 \/ Len(c) = 4
    BY <1>5
  <2>4. Payload(c) >= 128
    <3>1. PICK p \in Nat : p = Payload(c)
      BY <1>1
    <3>2. PICK l : l = Least[Len(c)]
      OBVIOUS
    <3>3. l \in {128, 2048, 65536}
      <4>1. CASE Len(c) = 2
        <5>1. Least[Len(c)] = Least[2]
          BY <4>1, Zenon
        <5>2. QED
          BY <2>2, <3>2, <5>1
      <4>2. CASE Len(c) = 3
        <5>1. Least[Len(c)] = Least[3]
          BY <4>2, Zenon
        <5>2. QED
          BY <2>2, <3>2, <5>1
      <4>3. CASE Len(c) = 4
        <5>1. Least[Len(c)] = Least[4]
          BY <4>3, Zenon
        <5>2. QED
          BY <2>2, <3>2, <5>1
      <4>4. QED
        BY <2>3, <4>1, <4>2, <4>3
    <3>4. p >= l
      BY <1>1, <3>1, <3>2
    <3>5. p >= 128
      BY <3>3, <3>4
    <3>6. QED
      BY <3>1, <3>5
  <2>5. QED
    BY <1>1, <1>5, <2>1, <2>4
<1>6. QED
  BY <1>4, <1>5

\* The `u` of an escape is none of the letters of a short one.
LEMMA ShortLetter ==
  /\ 117 \notin DOMAIN Short
  /\ \A d : d \in DOMAIN Short => d # 117
<1>1. 117 \notin DOMAIN Short
  BY DEF Short
<1>2. QED
  BY <1>1

\* A span that the grammar has as a character of a string is one that CharAt reads.
LEMMA UnitRead ==
  ASSUME NEW t \in String, NEW i \in 1 .. Len(t) + 1, NEW j \in 1 .. Len(t) + 1, i < j,
         IsStringUnit(Part(t, i, j))
  PROVE  At(t, i) # 34 /\ CharAt(t, i).n = j - i
<1>1. Len(t) \in Nat /\ i \in 1 .. Len(t)
  BY StringLength
<1>2. PICK c : c = Part(t, i, j)
  OBVIOUS
<1>3. c \in String /\ Len(c) = j - i /\ c[1] = At(t, i) /\ (i + 1 < j => c[2] = At(t, i + 1))
  BY <1>2, SpanBytes
<1>4. CASE IsUtf8Char(c) /\ Payload(c) >= 32 /\ Payload(c) \notin {34, 92}
  <2>1. Len(c) \in 1 .. 4
    BY <1>4 DEF IsUtf8Char
  <2>2. PICK n \in 1 .. 4 : n = j - i
    BY <1>3, <2>1
  <2>3. c = Piece(t, i, n)
    <3>1. j - 1 = i + n - 1
      BY <1>1, <2>2
    <3>2. QED
      BY <1>2, <3>1 DEF Part, Piece
  <2>4. Utf8At(t, i, n)
    <3>1. 1 <= i /\ i + n - 1 <= Len(t)
      BY <1>1, <2>2
    <3>2. QED
      BY <1>4, <2>3, <3>1 DEF Utf8At
  <2>5. utf8_validate_cz(t, i) = n
    BY <1>1, <2>4, CharIsRfc3629
  <2>6. c[1] \notin {34, 92} /\ ~(c[1] <= 31)
    <3>1. Len(c) = 1 => Payload(c) = c[1] /\ c[1] <= 127
      BY <1>3, <1>4, <2>1, OnePayload
    <3>2. Len(c) # 1 => c[1] > 191
      BY <1>3, <1>4, <2>1, OnePayload
    <3>3. PICK b \in 0 .. 255 : b = c[1]
      <4>1. i \in Int
        BY <1>1
      <4>2. PICK b \in 0 .. 255 : b = At(t, i)
        BY <4>1, ByteAt
      <4>3. QED
        BY <1>3, <4>2
    <3>4. QED
      BY <1>4, <3>1, <3>2, <3>3
  <2>7. CharAt(t, i) = Unit(n, SubSeq(t, i, i + n - 1))
    BY <1>3, <2>2, <2>5, <2>6 DEF CharAt
  <2>8. QED
    BY <1>3, <2>2, <2>6, <2>7 DEF Unit
<1>5. CASE Len(c) = 2 /\ c[1] = 92 /\ c[2] \in DOMAIN Short
  <2>1. At(t, i) = 92 /\ At(t, i + 1) \in DOMAIN Short /\ j - i = 2
    <3>1. j - i = 2
      BY <1>3, <1>5, Zenon
    <3>2. j - i = 2 /\ i + 1 < j
      BY <1>1, <3>1
    <3>3. QED
      BY <1>3, <1>5, <3>2
  <2>2. CharAt(t, i) = Unit(2, <<Short[At(t, i + 1)]>>)
    BY <2>1, ShortLetter DEF CharAt
  <2>3. QED
    BY <2>1, <2>2 DEF Unit
<1>6. CASE EscapedUnit(c) /\ LET u == parse_hex16(c, 3) IN u # 0 /\ ~IsSurrogate(u)
  <2>1. j = i + 6
    <3>1. j - i = 6
      BY <1>3, <1>6, Zenon DEF EscapedUnit
    <3>2. QED
      BY <1>1, <3>1
  <2>2. At(t, i) = 92 /\ At(t, i + 1) = 117 /\ IsHex16(t, i + 2)
    BY <1>2, <1>6, <2>1, OneEscape
  <2>3. parse_hex16(t, i + 2) # 0 /\ ~IsSurrogate(parse_hex16(t, i + 2))
    BY <1>2, <1>6, <2>1, OneEscape
  <2>4. CharAt(t, i) = Unit(6, utf8_write_char(parse_hex16(t, i + 2)))
    BY <2>2, <2>3 DEF CharAt, UnicodeEscape
  <2>5. QED
    BY <1>1, <2>1, <2>2, <2>4 DEF Unit
<1>7. CASE /\ Len(c) = 12 /\ EscapedUnit(SubSeq(c, 1, 6)) /\ EscapedUnit(SubSeq(c, 7, 12))
           /\ IsPair(parse_hex16(c, 3), parse_hex16(c, 9))
  <2>1. j = i + 12
    <3>1. j - i = 12
      BY <1>3, <1>7, Zenon
    <3>2. QED
      BY <1>1, <3>1
  <2>2. /\ At(t, i) = 92 /\ At(t, i + 1) = 117 /\ IsHex16(t, i + 2)
        /\ At(t, i + 6) = 92 /\ At(t, i + 7) = 117 /\ IsHex16(t, i + 8)
        /\ IsPair(parse_hex16(t, i + 2), parse_hex16(t, i + 8))
    BY <1>2, <1>7, <2>1, TwoEscapes
  <2>3. parse_hex16(t, i + 2) # 0 /\ IsSurrogate(parse_hex16(t, i + 2))
    <3>1. parse_hex16(t, i + 2) \in Nat
      BY <1>1, <2>2, HexInside
    <3>2. QED
      BY <2>2, <3>1 DEF IsPair, IsSurrogate
  <2>4. CharAt(t, i) = Unit(12, utf8_write_char(from_surrogate_pair(parse_hex16(t, i + 2), parse_hex16(t, i + 8))))
    BY <2>2, <2>3 DEF CharAt, UnicodeEscape
  <2>5. QED
    BY <1>1, <2>1, <2>2, <2>4 DEF Unit
<1>8. QED
  BY <1>2, <1>4, <1>5, <1>6, <1>7 DEF IsStringUnit

\* And what CharAt reads is one.
LEMMA UnitFound ==
  ASSUME NEW t \in String, NEW i \in 1 .. Len(t) + 1, NEW j, j = i + CharAt(t, i).n,
         At(t, i) # 34, CharAt(t, i).n # 0
  PROVE  j \in i + 1 .. Len(t) + 1 /\ IsStringUnit(Part(t, i, j))
<1> DEFINE u == CharAt(t, i)
<1>1. u.n \in 0 .. 12 /\ i + u.n - 1 <= Len(t)
  <2>1. IsUnit(t, i, u)
    BY CharUnit
  <2>2. QED
    BY <2>1 DEF IsUnit
<1>2. Len(t) \in Nat /\ j \in 1 .. Len(t) + 1 /\ i < j /\ j - i = u.n /\ i \in 1 .. Len(t)
  <2>1. PICK n \in 1 .. 12 : n = u.n
    BY <1>1
  <2>2. Len(t) \in Nat /\ j = i + n /\ i + n - 1 <= Len(t)
    BY <1>1, <2>1, StringLength
  <2>3. j \in 1 .. Len(t) + 1 /\ i < j /\ j - i = n /\ i \in 1 .. Len(t)
    BY <2>2
  <2>4. QED
    BY <2>1, <2>2, <2>3
<1> HIDE DEF u
<1>3. PICK c : c = Part(t, i, j)
  OBVIOUS
<1>4. c \in String /\ Len(c) = j - i /\ c[1] = At(t, i) /\ (i + 1 < j => c[2] = At(t, i + 1))
  BY <1>2, <1>3, SpanBytes
<1>5. CASE At(t, i) = 92 /\ At(t, i + 1) = 117
  <2> DEFINE uc == parse_hex16(t, i + 2)
             lc == parse_hex16(t, i + 8)
  <2>1. u = UnicodeEscape(t, i) /\ u # BadUnit
    BY <1>2, <1>5 DEF u, CharAt, BadUnit, Unit
  <2>2. IsHex16(t, i + 2) /\ uc # 0
    BY <2>1 DEF UnicodeEscape
  <2>3. CASE ~IsSurrogate(uc)
    <3>1. u = Unit(6, utf8_write_char(uc))
      BY <2>1, <2>2, <2>3 DEF UnicodeEscape
    <3>2. j = i + 6
      BY <1>2, <3>1 DEF Unit
    <3>3. EscapedUnit(c) /\ parse_hex16(c, 3) = uc
      BY <1>2, <1>3, <1>5, <2>2, <3>2, OneEscape
    <3>4. QED
      BY <2>2, <2>3, <3>3, <1>3, <1>2 DEF IsStringUnit
  <2>4. CASE IsSurrogate(uc)
    <3>1. /\ At(t, i + 6) = 92 /\ At(t, i + 7) = 117 /\ IsHex16(t, i + 8) /\ IsPair(uc, lc)
          /\ u = Unit(12, utf8_write_char(from_surrogate_pair(uc, lc)))
      BY <2>1, <2>2, <2>4 DEF UnicodeEscape
    <3>2. j = i + 12
      BY <1>2, <3>1 DEF Unit
    <3>3. /\ EscapedUnit(SubSeq(c, 1, 6)) /\ EscapedUnit(SubSeq(c, 7, 12))
          /\ parse_hex16(c, 3) = uc /\ parse_hex16(c, 9) = lc
      BY <1>2, <1>3, <1>5, <2>2, <3>1, <3>2, TwoEscapes
    <3>4. Len(c) = 12
      BY <1>2, <1>4, <3>2
    <3>5. QED
      BY <3>1, <3>3, <3>4, <1>3, <1>2 DEF IsStringUnit
  <2>5. QED
    BY <2>3, <2>4
<1>6. CASE At(t, i) = 92 /\ At(t, i + 1) # 117
  <2>1. At(t, i + 1) \in DOMAIN Short
    BY <1>2, <1>6 DEF u, CharAt, BadUnit, Unit
  <2>2. u = Unit(2, <<Short[At(t, i + 1)]>>)
    BY <1>6, <2>1 DEF u, CharAt
  <2>3. j = i + 2
    BY <1>2, <2>2 DEF Unit
  <2>4. Len(c) = 2 /\ c[1] = 92 /\ c[2] \in DOMAIN Short
    BY <1>2, <1>4, <1>6, <2>1, <2>3
  <2>5. QED
    BY <1>2, <1>3, <2>4 DEF IsStringUnit
<1>7. CASE At(t, i) # 92
  <2> DEFINE len == utf8_validate_cz(t, i)
  <2>1. ~(At(t, i) <= 31) /\ len # 0 /\ u = Unit(len, SubSeq(t, i, i + len - 1))
    BY <1>2, <1>7 DEF u, CharAt, BadUnit, Unit
  <2>2. PICK n \in 1 .. 4 : n = len
    BY <1>2, <2>1, ValidateCzLength
  <2>3. n = j - i
    BY <1>2, <2>1, <2>2 DEF Unit
  <2>4. c = Piece(t, i, n)
    <3>1. j - 1 = i + n - 1
      BY <1>2, <2>3
    <3>2. QED
      BY <1>3, <3>1 DEF Part, Piece
  <2>5. Utf8At(t, i, n)
    BY <1>2, <2>2, CharIsRfc3629
  <2>6. IsUtf8Char(c)
    BY <2>4, <2>5 DEF Utf8At
  <2>7. Len(c) = n
    BY <1>4, <2>3
  <2>8. Payload(c) >= 32 /\ Payload(c) \notin {34, 92}
    <3>1. n = 1 => Payload(c) = c[1]
      BY <1>4, <2>6, <2>7, OnePayload
    <3>2. n # 1 => Payload(c) \in Nat /\ Payload(c) >= 128
      BY <1>4, <2>6, <2>7, OnePayload
    <3>3. PICK b \in 0 .. 255 : b = c[1]
      <4>1. i \in Int
        BY <1>2
      <4>2. PICK b \in 0 .. 255 : b = At(t, i)
        BY <4>1, ByteAt
      <4>3. QED
        BY <1>4, <4>2
    <3>4. b >= 32 /\ b # 34 /\ b # 92
      BY <1>4, <1>7, <2>1, <3>3
    <3>5. QED
      BY <3>1, <3>2, <3>3, <3>4
  <2>9. QED
    BY <1>2, <1>3, <2>6, <2>8 DEF IsStringUnit
<1>8. QED
  BY <1>5, <1>6, <1>7

-----------------------------------------------------------------------------
(* Places that spans lead to, one behind the other. *)

\* R has, with a place, each that a step leads to up to j; and the places that are in
\* every such set that has i.
Closed(steps, i, j, R) == \A a \in R, b \in i .. j : <<a, b>> \in steps /\ a < b => b \in R
LeadPlaces(steps, i, j)    ==
  {x \in i .. j : \A R \in SUBSET (i .. j) : i \in R /\ Closed(steps, i, j, R) => x \in R}

\* f collects the places that steps lead to, from the first to the last.
IsReached(f, steps, i, j) ==
  f = [b \in i .. j |->
         IF b = i THEN {i}
         ELSE LET r == f[b - 1]
              IN  IF \E a \in r : <<a, b>> \in steps THEN r \cup {b} ELSE r]

\* Such a place is i, or a step leads there from another.
LEMMA LeadPlacesGrow ==
  ASSUME NEW steps, NEW i \in Int, NEW j \in Int, i <= j
  PROVE  LET M == LeadPlaces(steps, i, j)
         IN  /\ M \subseteq i .. j /\ i \in M
             /\ \A b \in i + 1 .. j : b \in M <=> \E a \in M : a < b /\ <<a, b>> \in steps
<1> DEFINE M == LeadPlaces(steps, i, j)
<1>1. M \subseteq i .. j /\ i \in M
  BY DEF LeadPlaces
<1>2. ASSUME NEW R, R \subseteq i .. j, i \in R, Closed(steps, i, j, R) PROVE M \subseteq R
  BY <1>2 DEF LeadPlaces
<1>3. ASSUME NEW x \in i .. j,
             \A R \in SUBSET (i .. j) : i \in R /\ Closed(steps, i, j, R) => x \in R
      PROVE  x \in M
  BY <1>3 DEF LeadPlaces
<1> HIDE DEF M
<1>4. ASSUME NEW b \in i + 1 .. j, NEW a \in M, a < b, <<a, b>> \in steps PROVE b \in M
  <2>1. b \in i .. j
    OBVIOUS
  <2>2. ASSUME NEW R \in SUBSET (i .. j), i \in R, Closed(steps, i, j, R) PROVE b \in R
    <3>1. a \in R
      BY <1>2, <2>2
    <3>2. QED
      BY <1>4, <2>1, <2>2, <3>1 DEF Closed
  <2>3. QED
    BY <1>3, <2>1, <2>2
<1>5. ASSUME NEW b \in i + 1 .. j, b \in M, ~ \E a \in M : a < b /\ <<a, b>> \in steps PROVE FALSE
  <2> DEFINE R == M \ {b}
  <2>1. R \subseteq i .. j /\ i \in R
    BY <1>1
  <2>2. Closed(steps, i, j, R)
    <3>1. SUFFICES ASSUME NEW a \in R, NEW c \in i .. j, <<a, c>> \in steps, a < c PROVE c \in R
      BY DEF Closed
    <3>2. c # b
      BY <1>5, <3>1
    <3>3. c \in i + 1 .. j
      BY <1>1, <3>1
    <3>4. c \in M
      BY <1>4, <3>1, <3>3
    <3>5. QED
      BY <3>2, <3>4
  <2>3. M \subseteq R
    BY <1>2, <2>1, <2>2
  <2>4. QED
    BY <1>5, <2>3
<1>6. QED
  BY <1>1, <1>4, <1>5 DEF M

\* Reached is that set, as far as each place.
LEMMA LeadPlacesReached ==
  ASSUME NEW steps, NEW i \in Int, NEW j \in Int, i <= j
  PROVE  IsReached([b \in i .. j |-> LeadPlaces(steps, i, j) \cap (i .. b)], steps, i, j)
<1> DEFINE M == LeadPlaces(steps, i, j)
           f == [b \in i .. j |-> M \cap (i .. b)]
           g == [b \in i .. j |->
                   IF b = i THEN {i}
                   ELSE LET r == f[b - 1]
                        IN  IF \E a \in r : <<a, b>> \in steps THEN r \cup {b} ELSE r]
<1>1. /\ M \subseteq i .. j /\ i \in M
      /\ \A b \in i + 1 .. j : b \in M <=> \E a \in M : a < b /\ <<a, b>> \in steps
  BY LeadPlacesGrow
<1> HIDE DEF M
<1>2. f[i] = {i} /\ g[i] = {i}
  BY <1>1
<1>3. ASSUME NEW b \in i + 1 .. j PROVE f[b] = g[b]
  <2> DEFINE r == M \cap (i .. b - 1)
  <2>1. b - 1 \in i .. j /\ b \in i .. j /\ b # i
    OBVIOUS
  <2>2. f[b - 1] = r
    BY <2>1
  <2>3. g[b] = IF \E a \in r : <<a, b>> \in steps THEN r \cup {b} ELSE r
    BY <2>1, <2>2
  <2>4. f[b] = M \cap (i .. b)
    BY <2>1
  <2>5. (\E a \in r : <<a, b>> \in steps) <=> b \in M
    BY <1>1
  <2>6. b \in M => M \cap (i .. b) = r \cup {b}
    BY <1>1
  <2>7. b \notin M => M \cap (i .. b) = r
    BY <1>1
  <2> HIDE DEF f, g, r
  <2>8. QED
    BY <2>3, <2>4, <2>5, <2>6, <2>7
<1>4. \A b \in i .. j : f[b] = g[b]
  <2>1. \A b \in i .. j : b = i \/ b \in i + 1 .. j
    OBVIOUS
  <2> HIDE DEF f, g
  <2>2. QED
    BY <1>2, <1>3, <2>1
<1>5. f = g
  BY <1>4
<1>6. QED
  BY <1>5 DEF IsReached, M

\* The places that steps lead to are the ones Lead speaks of.
LEMMA LeadIsPlace ==
  ASSUME NEW steps, NEW i \in Int, NEW j \in Int, i <= j
  PROVE  Lead(steps, i, j) <=> j \in LeadPlaces(steps, i, j)
<1> DEFINE h == [b \in i .. j |-> LeadPlaces(steps, i, j) \cap (i .. b)]
           f == Reached(steps, i, j)
<1>1. IsReached(h, steps, i, j)
  BY LeadPlacesReached
<1>2. f = CHOOSE e : IsReached(e, steps, i, j)
  BY DEF Reached, IsReached
<1>3. IsReached(f, steps, i, j)
  BY <1>1, <1>2
<1>4. h[j] = LeadPlaces(steps, i, j) \cap (i .. j)
  OBVIOUS
<1> HIDE DEF h, f
<1>5. ASSUME NEW e, IsReached(e, steps, i, j)
      PROVE  /\ e[i] = {i}
             /\ \A b \in i + 1 .. j :
                  e[b] = IF \E a \in e[b - 1] : <<a, b>> \in steps THEN e[b - 1] \cup {b} ELSE e[b - 1]
  <2> DEFINE T(b, r) == IF \E a \in r : <<a, b>> \in steps THEN r \cup {b} ELSE r
  <2>1. e = [b \in i .. j |-> IF b = i THEN {i} ELSE T(b, e[b - 1])]
    BY <1>5 DEF IsReached
  <2> HIDE DEF T
  <2>2. \A b \in i .. j : e[b] = IF b = i THEN {i} ELSE T(b, e[b - 1])
    BY <2>1
  <2>3. e[i] = {i} /\ \A b \in i + 1 .. j : e[b] = T(b, e[b - 1])
    BY <2>2
  <2>4. QED
    BY <2>3 DEF T
<1> DEFINE n == j - i
           p == [k \in 0 .. n |-> <<f[i + k], h[i + k]>>]
           Q == {q \in {p[k] : k \in 0 .. n} : q[1] = q[2]}
<1>6. n \in Nat
  OBVIOUS
<1>7. p[0] \in Q
  <2>1. p[0] = <<f[i], h[i]>> /\ 0 \in 0 .. n
    BY <1>6
  <2>2. f[i] = h[i]
    BY <1>1, <1>3, <1>5
  <2>3. QED
    BY <2>1, <2>2
<1>8. ASSUME NEW k \in 1 .. n, p[k - 1] \in Q PROVE p[k] \in Q
  <2> DEFINE b == i + k
  <2>1. b \in i + 1 .. j /\ b - 1 = i + (k - 1) /\ k \in 0 .. n /\ k - 1 \in 0 .. n
    BY <1>6
  <2>2. f[b - 1] = h[b - 1]
    BY <1>8, <2>1
  <2>3. f[b] = IF \E a \in f[b - 1] : <<a, b>> \in steps THEN f[b - 1] \cup {b} ELSE f[b - 1]
    BY <1>3, <1>5, <2>1
  <2>4. h[b] = IF \E a \in h[b - 1] : <<a, b>> \in steps THEN h[b - 1] \cup {b} ELSE h[b - 1]
    BY <1>1, <1>5, <2>1
  <2>5. f[b] = h[b]
    BY <2>2, <2>3, <2>4
  <2>6. p[k] = <<f[b], h[b]>>
    BY <2>1
  <2>7. QED
    BY <2>1, <2>5, <2>6
<1>9. p[n] \in Q
  <2> HIDE DEF p, Q, n
  <2>1. \A k \in 0 .. n : p[k] \in Q
    BY <1>6, <1>7, <1>8, LoopInvariant
  <2>2. QED
    BY <1>6, <2>1
<1>10. f[j] = h[j]
  <2>1. n \in 0 .. n /\ i + n = j
    BY <1>6
  <2>2. QED
    BY <1>9, <2>1
<1>11. QED
  BY <1>4, <1>10 DEF Lead, f

\* Steps lead only into what is closed under them.
LEMMA LeadClosed ==
  ASSUME NEW steps, NEW i \in Int, NEW j \in Int, i <= j, Lead(steps, i, j),
         NEW R, i \in R, \A a \in R, b \in i + 1 .. j : i <= a /\ a < b /\ <<a, b>> \in steps => b \in R
  PROVE  j \in R
<1> DEFINE S == R \cap (i .. j)
<1>1. S \in SUBSET (i .. j) /\ i \in S
  OBVIOUS
<1>2. Closed(steps, i, j, S)
  BY DEF Closed
<1>3. j \in LeadPlaces(steps, i, j)
  BY LeadIsPlace
<1>4. j \in S
  BY <1>1, <1>2, <1>3 DEF LeadPlaces
<1>5. QED
  BY <1>4

\* No step at all leads to the place itself,
LEMMA LeadStart ==
  ASSUME NEW steps, NEW i \in Int
  PROVE  Lead(steps, i, i)
<1>1. i \in LeadPlaces(steps, i, i)
  BY DEF LeadPlaces
<1>2. QED
  BY <1>1, LeadIsPlace

\* ... and one more step leads on.
LEMMA LeadOn ==
  ASSUME NEW steps, NEW i \in Int, NEW a \in Int, i <= a, Lead(steps, i, a),
         NEW b \in Int, a < b, <<a, b>> \in steps
  PROVE  Lead(steps, i, b)
<1>1. ASSUME NEW R \in SUBSET (i .. b), i \in R, Closed(steps, i, b, R) PROVE b \in R
  <2>1. \A x \in R, y \in i + 1 .. a : i <= x /\ x < y /\ <<x, y>> \in steps => y \in R
    BY <1>1 DEF Closed
  <2>2. a \in R
    BY <1>1, <2>1, LeadClosed
  <2>3. b \in i .. b
    OBVIOUS
  <2>4. QED
    BY <1>1, <2>2, <2>3 DEF Closed
<1>2. i <= b /\ b \in i .. b
  OBVIOUS
<1>3. b \in LeadPlaces(steps, i, b)
  BY <1>1, <1>2 DEF LeadPlaces
<1>4. QED
  BY <1>2, <1>3, LeadIsPlace

\* The first step of a lead.
LEMMA LeadFirst ==
  ASSUME NEW steps, NEW i \in Int, NEW j \in Int, i < j, Lead(steps, i, j)
  PROVE  \E b \in i + 1 .. j : <<i, b>> \in steps /\ Lead(steps, b, j)
<1> DEFINE From(y) == \E b \in i + 1 .. y : <<i, b>> \in steps /\ Lead(steps, b, y)
           R == {y \in i .. j : y = i \/ From(y)}
<1>1. ASSUME NEW a \in R, NEW b \in i + 1 .. j, a < b, <<a, b>> \in steps PROVE From(b)
  <2>1. CASE a = i
    BY <1>1, <2>1, LeadStart
  <2>2. CASE From(a)
    <3>1. PICK c \in i + 1 .. a : <<i, c>> \in steps /\ Lead(steps, c, a)
      BY <2>2
    <3>2. Lead(steps, c, b)
      BY <1>1, <3>1, LeadOn
    <3>3. c \in i + 1 .. b
      BY <1>1, <3>1
    <3>4. QED
      BY <3>1, <3>2, <3>3
  <2>3. QED
    BY <1>1, <2>1, <2>2
<1>2. i \in R /\ \A a \in R, b \in i + 1 .. j : i <= a /\ a < b /\ <<a, b>> \in steps => b \in R
  <2> HIDE DEF From
  <2>1. QED
    BY <1>1
<1>3. j \in R
  <2>1. i <= j
    OBVIOUS
  <2> HIDE DEF R, From
  <2>2. QED
    BY <1>2, <2>1, LeadClosed
<1>4. QED
  BY <1>3

-----------------------------------------------------------------------------
(* Strings. *)

\* The spans in Units are the units of a string.
LEMMA UnitSpans ==
  ASSUME NEW t, NEW a, NEW b
  PROVE  <<a, b>> \in Units(t) <=> a \in 1 .. Len(t) + 1 /\ b \in 1 .. Len(t) + 1 /\ IsStringUnit(Part(t, a, b))
<1> DEFINE S(p) == IsStringUnit(Part(t, p[1], p[2]))
<1>1. Units(t) = {p \in Spans(t) : S(p)}
  BY DEF Units
<1>2. S(<<a, b>>) <=> IsStringUnit(Part(t, a, b))
  OBVIOUS
<1> HIDE DEF S
<1>3. <<a, b>> \in Spans(t) <=> a \in 1 .. Len(t) + 1 /\ b \in 1 .. Len(t) + 1
  BY DEF Spans
<1>4. QED
  BY <1>1, <1>2, <1>3

\* The loop of parse_string goes from character to character.
LEMMA StringFound ==
  ASSUME NEW t \in String, NEW i \in 1 .. Len(t) + 1, NEW out \in BOOLEAN, parse_string(t, i, out).ok
  PROVE  /\ parse_string(t, i, out).pos \in i + 2 .. Len(t) + 1
         /\ IsString(t, i, parse_string(t, i, out).pos)
<1> DEFINE f == StringLoop(t, i, out)
           n == Len(t)
           l == f[n]
           p == parse_string(t, i, out)
           Q == {c \in Cursors : i + 1 <= c.pos /\ c.pos <= n + 1 /\ Lead(Units(t), i + 1, c.pos)}
<1>1. n \in Nat /\ i \in Nat \ {0}
  BY StringLength
<1>2. At(t, i) = 34 /\ p = StringEnd(t, l, out)
  BY DEF parse_string, Failed
<1>3. At(t, l.pos) = 34 /\ p.pos = l.pos + 1
  BY <1>2 DEF StringEnd, Parsed, Failed
<1>4. p.pos \in i + 2 .. n + 1
  BY <1>1, ParseStringKeeps
<1> HIDE DEF p
<1>5. /\ \A k \in 0 .. n : f[k] \in Cursors
      /\ \A k \in 1 .. n : f[k] = StringRound(t, f[k - 1], out)
  BY <1>1, StringLoopKeeps
<1>6. f[0] \in Q
  <2>1. f[0].pos = i + 1 /\ f[0] \in Cursors
    BY <1>1, <1>5, StringLoopStart
  <2>2. i + 1 <= n + 1
    BY <1>1, <1>2, NoDigit
  <2>3. Lead(Units(t), i + 1, i + 1)
    BY <1>1, LeadStart
  <2> HIDE DEF f, n
  <2>4. i + 1 <= i + 1
    BY <1>1
  <2>5. QED
    BY <2>1, <2>2, <2>3, <2>4
<1> HIDE DEF f
<1>7. ASSUME NEW k \in 1 .. n, f[k - 1] \in Q PROVE f[k] \in Q
  <2> DEFINE c == f[k - 1]
             d == f[k]
             u == CharAt(t, c.pos)
  <2>1. c \in Cursors /\ d \in Cursors /\ d = StringRound(t, c, out)
    BY <1>1, <1>5, <1>7
  <2>2. i + 1 <= c.pos /\ c.pos <= n + 1 /\ Lead(Units(t), i + 1, c.pos)
    BY <1>7
  <2>3. c.pos \in Nat \ {0}
    BY <2>1 DEF Cursors
  <2>4. CASE At(t, c.pos) = 34 \/ u.n = 0
    <3>1. d = c
      BY <2>1, <2>4, StringRoundKeeps
    <3>2. QED
      BY <1>7, <3>1
  <2>5. CASE ~(At(t, c.pos) = 34 \/ u.n = 0)
    <3>1. d.pos = c.pos + u.n /\ u.n \in 1 .. 12 /\ d.pos <= n + 1
      <4> HIDE DEF c, d
      <4>1. LET m == StringRound(t, c, out) IN m.pos = c.pos + u.n /\ u.n \in 1 .. 12 /\ m.pos <= n + 1
        BY <2>1, <2>5, StringRoundKeeps
      <4>2. QED
        BY <2>1, <4>1
    <3>2. c.pos \in 1 .. n + 1
      BY <1>1, <2>2, <2>3
    <3> HIDE DEF c, d
    <3>3. d.pos \in c.pos + 1 .. n + 1 /\ IsStringUnit(Part(t, c.pos, d.pos))
      BY <2>5, <3>1, <3>2, UnitFound
    <3>4. d.pos \in 1 .. n + 1 /\ c.pos < d.pos /\ d.pos \in Int /\ i + 1 <= d.pos
      BY <1>1, <2>2, <3>2, <3>3
    <3>5. <<c.pos, d.pos>> \in Units(t)
      BY <3>2, <3>3, <3>4, UnitSpans
    <3>6. Lead(Units(t), i + 1, d.pos)
      BY <1>1, <2>2, <2>3, <3>4, <3>5, LeadOn
    <3>7. d \in Q
      BY <2>1, <3>1, <3>4, <3>6
    <3>8. QED
      BY <3>7 DEF d
  <2>6. QED
    BY <2>4, <2>5
<1>8. l \in Q
  <2> HIDE DEF Q, n
  <2>1. \A k \in 0 .. n : f[k] \in Q
    BY <1>1, <1>6, <1>7, LoopInvariant
  <2>2. QED
    BY <1>1, <2>1
<1>9. i + 1 <= l.pos /\ Lead(Units(t), i + 1, l.pos)
  BY <1>8
<1>10. PICK e \in Int : e = l.pos
  <2>1. l \in Cursors
    BY <1>8
  <2>2. QED
    BY <2>1 DEF Cursors
<1>11. p.pos = e + 1 /\ (e + 1) - 1 = e /\ i + 2 <= e + 1
  BY <1>1, <1>3, <1>9, <1>10
<1>12. IsString(t, i, e + 1)
  BY <1>2, <1>3, <1>9, <1>10, <1>11 DEF IsString, IsEnclosed
<1>13. QED
  BY <1>4, <1>11, <1>12 DEF p

\* A string of the grammar is read, and to its end.
LEMMA StringRead ==
  ASSUME NEW t \in String, NEW i \in 1 .. Len(t) + 1, NEW j \in 1 .. Len(t) + 1, NEW out \in BOOLEAN,
         IsString(t, i, j)
  PROVE  /\ i < j /\ At(t, i) = 34
         /\ parse_string(t, i, out).ok /\ parse_string(t, i, out).pos = j
<1> DEFINE f == StringLoop(t, i, out)
           n == Len(t)
           l == f[n]
           Q == {c \in Cursors : i + 1 <= c.pos /\ c.pos <= j - 1 /\ Lead(Units(t), c.pos, j - 1)}
<1>1. n \in Nat /\ i \in Nat \ {0} /\ j \in Int
  BY StringLength
<1>2. i + 2 <= j /\ At(t, i) = 34 /\ At(t, j - 1) = 34 /\ Lead(Units(t), i + 1, j - 1)
  BY DEF IsString, IsEnclosed
<1>3. /\ \A k \in 0 .. n : f[k] \in Cursors
      /\ \A k \in 1 .. n : f[k] = StringRound(t, f[k - 1], out)
  BY <1>1, StringLoopKeeps
<1>4. f[0] \in Q
  <2>1. f[0].pos = i + 1 /\ f[0] \in Cursors
    BY <1>1, <1>3, StringLoopStart
  <2> HIDE DEF f
  <2>2. i + 1 <= i + 1 /\ i + 1 <= j - 1
    BY <1>1, <1>2
  <2>3. QED
    BY <1>2, <2>1, <2>2
<1>5. AtEnd(t, l)
  BY <1>1, StringLoopEnds
<1> HIDE DEF f
<1>6. ASSUME NEW c \in Q, At(t, c.pos) = 34 \/ CharAt(t, c.pos).n = 0 PROVE c.pos = j - 1
  <2>1. SUFFICES ASSUME c.pos # j - 1 PROVE FALSE
    OBVIOUS
  <2>2. c.pos \in Int /\ c.pos < j - 1 /\ c.pos \in 1 .. Len(t) + 1 /\ Lead(Units(t), c.pos, j - 1)
    BY <1>1, <2>1 DEF Cursors
  <2>3. PICK b \in c.pos + 1 .. j - 1 : <<c.pos, b>> \in Units(t)
    BY <1>1, <2>2, LeadFirst
  <2>4. b \in 1 .. Len(t) + 1 /\ IsStringUnit(Part(t, c.pos, b)) /\ c.pos < b
    BY <2>2, <2>3, UnitSpans
  <2>5. At(t, c.pos) # 34 /\ CharAt(t, c.pos).n = b - c.pos
    BY <2>2, <2>4, UnitRead
  <2>6. b - c.pos # 0
    BY <2>2, <2>3
  <2>7. QED
    BY <1>6, <2>5, <2>6
<1>7. ASSUME NEW k \in 1 .. n, f[k - 1] \in Q PROVE f[k] \in Q
  <2> DEFINE c == f[k - 1]
             d == f[k]
             u == CharAt(t, c.pos)
  <2>1. c \in Cursors /\ d \in Cursors /\ d = StringRound(t, c, out)
    BY <1>1, <1>3, <1>7
  <2>2. CASE At(t, c.pos) = 34 \/ u.n = 0
    <3>1. d = c
      BY <2>1, <2>2, StringRoundKeeps
    <3>2. QED
      BY <1>7, <3>1
  <2>3. CASE ~(At(t, c.pos) = 34 \/ u.n = 0)
    <3>1. d.pos = c.pos + u.n /\ u.n \in 1 .. 12
      <4> HIDE DEF c, d
      <4>1. StringRound(t, c, out).pos = c.pos + u.n /\ u.n \in 1 .. 12
        BY <2>1, <2>3, StringRoundKeeps
      <4>2. QED
        BY <2>1, <4>1
    <3>2. c.pos # j - 1
      BY <1>2, <2>3
    <3>3. i + 1 <= c.pos /\ c.pos <= j - 1 /\ Lead(Units(t), c.pos, j - 1)
      BY <1>7
    <3>4. c.pos \in Int
      BY <2>1 DEF Cursors
    <3> HIDE DEF c, d
    <3>5. c.pos < j - 1 /\ c.pos \in 1 .. Len(t) + 1
      BY <1>1, <3>2, <3>3, <3>4
    <3>6. PICK b \in c.pos + 1 .. j - 1 : <<c.pos, b>> \in Units(t) /\ Lead(Units(t), b, j - 1)
      BY <1>1, <3>3, <3>4, <3>5, LeadFirst
    <3>7. b \in 1 .. Len(t) + 1 /\ IsStringUnit(Part(t, c.pos, b)) /\ c.pos < b
      BY <3>4, <3>6, UnitSpans
    <3>8. u.n = b - c.pos
      BY <3>5, <3>7, UnitRead
    <3>9. d.pos = b
      BY <3>1, <3>4, <3>6, <3>8
    <3>10. i + 1 <= b /\ b <= j - 1
      BY <1>1, <3>3, <3>4, <3>6
    <3>11. d \in Q
      BY <2>1, <3>6, <3>9, <3>10
    <3>12. QED
      BY <3>11 DEF d
  <2>4. QED
    BY <2>2, <2>3
<1>8. l \in Q
  <2> HIDE DEF Q, n
  <2>1. \A k \in 0 .. n : f[k] \in Q
    BY <1>1, <1>4, <1>7, LoopInvariant
  <2>2. QED
    BY <1>1, <2>1
<1> HIDE DEF Q
<1>9. l.pos = j - 1
  BY <1>5, <1>6, <1>8 DEF AtEnd
<1>10. parse_string(t, i, out) = StringEnd(t, l, out)
  BY <1>2 DEF parse_string, f
<1>11. StringEnd(t, l, out).ok /\ StringEnd(t, l, out).pos = (j - 1) + 1
  BY <1>2, <1>9 DEF StringEnd, Parsed
<1>12. (j - 1) + 1 = j /\ i < j
  BY <1>1, <1>2
<1>13. QED
  BY <1>2, <1>10, <1>11, <1>12

-----------------------------------------------------------------------------
(* What a table of results has to do with spans: what it reads is a span, and *)
(* a span in front of a byte that can follow a value is read to its end.      *)

Fits(t, table, spans) ==
  /\ \A i \in 1 .. Len(t) + 1 :
       table[i].ok => table[i].pos \in i + 1 .. Len(t) + 1 /\ <<i, table[i].pos>> \in spans
  /\ \A i, j : <<i, j>> \in spans =>
       /\ i \in 1 .. Len(t) + 1 /\ j \in i + 1 .. Len(t) + 1 /\ At(t, i) \notin Follow
       /\ At(t, j) \in Follow => table[i].ok /\ table[i].pos = j

\* A span with white space around it, in front of a byte that ends an item, is read.
LEMMA PaddedRead ==
  ASSUME NEW t \in String, NEW table, NEW spans, Fits(t, table, spans),
         NEW i \in 1 .. Len(t) + 1, NEW j \in 1 .. Len(t) + 1, Padded(t, spans, i, j), At(t, j) \in Stops
  PROVE  LET a == skip_space(t, i)
         IN  /\ a \in i .. Len(t) + 1 /\ At(t, a) \notin Follow /\ a < j
             /\ table[a].ok /\ skip_space(t, table[a].pos) = j
<1>1. PICK a \in i .. j : IsBlank(t, i, a) /\ \E b \in a .. j : IsBlank(t, b, j) /\ <<a, b>> \in spans
  BY DEF Padded
<1>2. PICK b \in a .. j : IsBlank(t, b, j) /\ <<a, b>> \in spans
  BY <1>1
<1>3. Len(t) \in Nat
  BY StringLength
<1>4. a \in 1 .. Len(t) + 1 /\ b \in a + 1 .. Len(t) + 1 /\ At(t, a) \notin Follow
      /\ (At(t, b) \in Follow => table[a].ok /\ table[a].pos = b)
  BY <1>2 DEF Fits
<1>5. a \in i .. Len(t) + 1 /\ b \in 1 .. Len(t) + 1 /\ j \in b .. Len(t) + 1 /\ a < j
  BY <1>1, <1>2, <1>3, <1>4
<1>6. skip_space(t, i) = a
  BY <1>1, <1>4, <1>5, BlanksSkipped DEF Follow
<1>7. skip_space(t, b) = j
  <2>1. At(t, j) \notin Space
    BY DEF Stops, Space
  <2>2. QED
    BY <1>2, <1>5, <2>1, BlanksSkipped
<1>8. At(t, b) \in Follow
  <2>1. CASE b = j
    BY <2>1 DEF Follow
  <2>2. CASE b # j
    <3>1. b \in b .. j - 1
      BY <1>3, <1>5, <2>2
    <3>2. QED
      BY <1>2, <3>1 DEF IsBlank, Follow
  <2>3. QED
    BY <2>1, <2>2
<1>9. QED
  BY <1>4, <1>5, <1>6, <1>7, <1>8

\* What is read between white space is a span with white space around it.
LEMMA PaddedFound ==
  ASSUME NEW t \in String, NEW table, NEW spans, Fits(t, table, spans),
         NEW i \in 1 .. Len(t) + 1, table[skip_space(t, i)].ok
  PROVE  LET j == skip_space(t, table[skip_space(t, i)].pos)
         IN  j \in i + 1 .. Len(t) + 1 /\ Padded(t, spans, i, j)
<1>1. PICK a \in i .. Len(t) + 1 : a = skip_space(t, i)
  BY SkipsBlanks
<1>2. Len(t) \in Nat /\ a \in 1 .. Len(t) + 1 /\ IsBlank(t, i, a)
  BY <1>1, StringLength, SkipsBlanks
<1>3. PICK b \in a + 1 .. Len(t) + 1 : b = table[a].pos /\ <<a, b>> \in spans
  BY <1>1, <1>2 DEF Fits
<1>4. b \in 1 .. Len(t) + 1
  BY <1>2, <1>3
<1>5. PICK j \in b .. Len(t) + 1 : j = skip_space(t, b)
  BY <1>4, SkipsBlanks
<1>6. IsBlank(t, b, j)
  BY <1>4, <1>5, SkipsBlanks
<1>7. a \in i .. j /\ b \in a .. j /\ j \in i + 1 .. Len(t) + 1
  BY <1>2, <1>3, <1>4, <1>5
<1>8. Padded(t, spans, i, j)
  BY <1>2, <1>3, <1>6, <1>7 DEF Padded
<1>9. QED
  BY <1>1, <1>3, <1>5, <1>7, <1>8

\* What parse_string makes of the text at each place.
StringTable(t, out) == [i \in 1 .. Len(t) + 1 |-> parse_string(t, i, out)]

\* The spans in Strings are the strings.
LEMMA StringSpans ==
  ASSUME NEW t, NEW a, NEW b
  PROVE  <<a, b>> \in Strings(t) <=> a \in 1 .. Len(t) + 1 /\ b \in 1 .. Len(t) + 1 /\ IsString(t, a, b)
<1> DEFINE S(p) == IsString(t, p[1], p[2])
<1>1. Strings(t) = {p \in Spans(t) : S(p)}
  BY DEF Strings
<1>2. S(<<a, b>>) <=> IsString(t, a, b)
  OBVIOUS
<1> HIDE DEF S
<1>3. <<a, b>> \in Spans(t) <=> a \in 1 .. Len(t) + 1 /\ b \in 1 .. Len(t) + 1
  BY DEF Spans
<1>4. QED
  BY <1>1, <1>2, <1>3

\* parse_string reads the strings of the grammar, and no others.
LEMMA StringsFit ==
  ASSUME NEW t \in String, NEW out \in BOOLEAN
  PROVE  Fits(t, StringTable(t, out), Strings(t))
<1> DEFINE T == StringTable(t, out)
<1>1. Len(t) \in Nat
  BY StringLength
<1>2. \A i \in 1 .. Len(t) + 1 : T[i] = parse_string(t, i, out)
  BY DEF StringTable
<1> HIDE DEF T
<1>3. ASSUME NEW i \in 1 .. Len(t) + 1, T[i].ok
      PROVE  T[i].pos \in i + 1 .. Len(t) + 1 /\ <<i, T[i].pos>> \in Strings(t)
  <2>1. PICK e \in i + 2 .. Len(t) + 1 : e = T[i].pos /\ IsString(t, i, e)
    BY <1>2, <1>3, StringFound
  <2>2. e \in i + 1 .. Len(t) + 1 /\ e \in 1 .. Len(t) + 1
    BY <1>1, <2>1
  <2>3. QED
    BY <2>1, <2>2, StringSpans
<1>4. ASSUME NEW i, NEW j, <<i, j>> \in Strings(t)
      PROVE  /\ i \in 1 .. Len(t) + 1 /\ j \in i + 1 .. Len(t) + 1 /\ At(t, i) \notin Follow
             /\ T[i].ok /\ T[i].pos = j
  <2>1. i \in 1 .. Len(t) + 1 /\ j \in 1 .. Len(t) + 1 /\ IsString(t, i, j)
    BY <1>4, StringSpans
  <2>2. i < j /\ At(t, i) = 34 /\ parse_string(t, i, out).ok /\ parse_string(t, i, out).pos = j
    BY <2>1, StringRead
  <2>3. j \in i + 1 .. Len(t) + 1
    BY <1>1, <2>1, <2>2
  <2>4. 34 \notin Follow
    BY DEF Follow, Stops, Space
  <2>5. QED
    BY <1>2, <2>1, <2>2, <2>3, <2>4
<1>5. QED
  BY <1>3, <1>4 DEF Fits, T

-----------------------------------------------------------------------------
(* The loop over the items of a container, elements or members.  An item that *)
(* is read at a place ends at ends[place], or at 0 if it fails.               *)

ItemRound(t, ends, close, l, m) ==
  IF l.ended THEN m = l
  ELSE LET y == ends[l.pos]
       IN  /\ y # 0 /\ At(t, y) = close => m.ended /\ m.res.ok /\ m.res.pos = y + 1
           /\ y # 0 /\ At(t, y) = 44    => ~m.ended /\ m.pos = skip_space(t, y + 1)
           /\ y # 0 /\ At(t, y) \notin {44, close} => m.ended /\ ~m.res.ok
           /\ y = 0 => m.ended /\ ~m.res.ok

\* f are the rounds of the loop of a container that is opened at i.
ItemLoop(t, ends, close, i, f) ==
  /\ ~f[0].ended /\ f[0].pos = skip_space(t, i + 1) /\ f[Len(t)].ended
  /\ \A k \in 1 .. Len(t) : ItemRound(t, ends, close, f[k - 1], f[k])

\* steps[e] are the items between two separators, of which e can be the last.
Separated(t, ends, close, steps) ==
  /\ close \in {93, 125}
  /\ \A x \in 1 .. Len(t) :
       LET y == ends[skip_space(t, x + 1)]
       IN  y # 0 => /\ y \in x + 1 .. Len(t) + 1
                    /\ \A e \in 1 .. Len(t) + 1 : y = e \/ At(t, y) = 44 => <<x, y>> \in steps[e]
  /\ \A e \in 1 .. Len(t) : At(t, e) = close =>
       \A x, y : <<x, y>> \in steps[e] => /\ y = e \/ At(t, y) = 44
                                          /\ ends[skip_space(t, x + 1)] = y

\* A loop that succeeds has found items up to the closing byte.
LEMMA LoopFinds ==
  ASSUME NEW t \in String, NEW ends, NEW close, NEW steps, Separated(t, ends, close, steps),
         NEW i \in 1 .. Len(t), NEW f, ItemLoop(t, ends, close, i, f), f[Len(t)].res.ok
  PROVE  \E y \in i + 1 .. Len(t) :
           f[Len(t)].res.pos = y + 1 /\ At(t, y) = close /\ Lead(steps[y], i, y)
<1> DEFINE n == Len(t)
           Found(l) == \E y \in i + 1 .. n : l.res.pos = y + 1 /\ At(t, y) = close /\ Lead(steps[y], i, y)
           Within(l) == \E x \in i .. n : /\ l.pos = skip_space(t, x + 1)
                                          /\ \A e \in x .. n + 1 : Lead(steps[e], i, x)
           Inv(l) == (l.ended /\ l.res.ok => Found(l)) /\ (~l.ended => Within(l))
           Q == {l \in {f[k] : k \in 0 .. n} : Inv(l)}
<1>1. n \in Nat /\ close \in {93, 125}
  BY StringLength DEF Separated
<1>2. ASSUME NEW x \in 1 .. n, NEW y, y = ends[skip_space(t, x + 1)], y # 0
      PROVE  /\ y \in x + 1 .. n + 1
             /\ \A e \in 1 .. n + 1 : y = e \/ At(t, y) = 44 => <<x, y>> \in steps[e]
  BY <1>2 DEF Separated
<1>3. ~f[0].ended /\ f[0].pos = skip_space(t, i + 1) /\ f[n].ended
  BY DEF ItemLoop
<1>4. Inv(f[0])
  <2>1. \A e \in i .. n + 1 : Lead(steps[e], i, i)
    BY LeadStart
  <2>2. Within(f[0])
    BY <1>1, <1>3, <2>1
  <2>3. QED
    BY <1>3, <2>2
<1>5. ASSUME NEW l, NEW m, Inv(l), ItemRound(t, ends, close, l, m) PROVE Inv(m)
  <2>1. CASE l.ended
    <3>1. m = l
      BY <1>5, <2>1 DEF ItemRound
    <3>2. QED
      BY <1>5, <3>1
  <2>2. CASE ~l.ended
    <3>1. PICK x \in i .. n : l.pos = skip_space(t, x + 1) /\ \A e \in x .. n + 1 : Lead(steps[e], i, x)
      BY <1>5, <2>2
    <3>2. PICK y : y = ends[l.pos]
      OBVIOUS
    <3>3. /\ y # 0 /\ At(t, y) = close => m.ended /\ m.res.ok /\ m.res.pos = y + 1
          /\ y # 0 /\ At(t, y) = 44    => ~m.ended /\ m.pos = skip_space(t, y + 1)
          /\ y # 0 /\ At(t, y) \notin {44, close} => m.ended /\ ~m.res.ok
          /\ y = 0 => m.ended /\ ~m.res.ok
      BY <1>5, <2>2, <3>2 DEF ItemRound
    <3>4. CASE y = 0 \/ At(t, y) \notin {44, close}
      BY <3>3, <3>4
    <3>5. ASSUME y # 0, At(t, y) \in {44, close}
          PROVE  /\ y \in x + 1 .. n + 1 /\ y \in i + 1 .. n /\ y \in 1 .. n + 1
                 /\ \A e \in y .. n + 1 : y = e \/ At(t, y) = 44 => Lead(steps[e], i, y)
      <4>1. x \in 1 .. n
        BY <1>1, <3>1
      <4>2. /\ y \in x + 1 .. n + 1
            /\ \A e \in 1 .. n + 1 : y = e \/ At(t, y) = 44 => <<x, y>> \in steps[e]
        BY <1>2, <3>1, <3>2, <3>5, <4>1
      <4>3. y \in Int /\ At(t, y) # 0
        BY <1>1, <3>5, <4>1, <4>2
      <4>4. y \in 1 .. n
        BY <4>3, NoDigit
      <4>5. y \in i + 1 .. n /\ y \in 1 .. n + 1 /\ x < y /\ x \in Int /\ i <= x
        BY <1>1, <3>1, <4>2, <4>4
      <4>6. ASSUME NEW e \in y .. n + 1, y = e \/ At(t, y) = 44 PROVE Lead(steps[e], i, y)
        <5>1. e \in x .. n + 1 /\ e \in 1 .. n + 1
          BY <1>1, <3>1, <4>5
        <5>2. Lead(steps[e], i, x) /\ <<x, y>> \in steps[e]
          BY <3>1, <4>2, <4>6, <5>1
        <5>3. QED
          BY <4>5, <5>2, LeadOn
      <4>7. QED
        BY <4>2, <4>5, <4>6
    <3>6. CASE y # 0 /\ At(t, y) = close
      <4>1. y \in i + 1 .. n /\ Lead(steps[y], i, y)
        BY <1>1, <3>5, <3>6
      <4>2. m.ended /\ m.res.pos = y + 1
        BY <3>3, <3>6
      <4>3. Found(m)
        BY <3>6, <4>1, <4>2
      <4>4. QED
        BY <4>2, <4>3
    <3>7. CASE y # 0 /\ At(t, y) = 44
      <4>1. y \in i .. n /\ \A e \in y .. n + 1 : Lead(steps[e], i, y)
        BY <1>1, <3>5, <3>7
      <4>2. ~m.ended /\ m.pos = skip_space(t, y + 1)
        BY <3>3, <3>7
      <4>3. Within(m)
        BY <4>1, <4>2
      <4>4. QED
        BY <4>2, <4>3
    <3>8. QED
      BY <3>4, <3>6, <3>7
  <2>3. QED
    BY <2>1, <2>2
<1> HIDE DEF Inv
<1>6. f[0] \in Q
  BY <1>1, <1>4
<1>7. ASSUME NEW k \in 1 .. n, f[k - 1] \in Q PROVE f[k] \in Q
  <2>1. k \in 0 .. n /\ Inv(f[k - 1]) /\ ItemRound(t, ends, close, f[k - 1], f[k])
    BY <1>7 DEF ItemLoop
  <2>2. Inv(f[k])
    BY <1>5, <2>1
  <2>3. QED
    BY <2>1, <2>2
<1>8. Inv(f[n])
  <2>1. \A k \in 0 .. n : f[k] \in Q
    <3> HIDE DEF Q, n
    <3>1. QED
      BY <1>1, <1>6, <1>7, LoopInvariant
  <2>2. n \in 0 .. n
    BY <1>1
  <2>3. QED
    BY <2>1, <2>2
<1>9. QED
  BY <1>3, <1>8 DEF Inv

\* ... and one in front of items up to a closing byte succeeds there.
LEMMA LoopReads ==
  ASSUME NEW t \in String, NEW ends, NEW close, NEW steps, Separated(t, ends, close, steps),
         NEW i \in 1 .. Len(t), NEW f, ItemLoop(t, ends, close, i, f),
         NEW e \in i + 1 .. Len(t), At(t, e) = close, Lead(steps[e], i, e)
  PROVE  f[Len(t)].res.ok /\ f[Len(t)].res.pos = e + 1
<1> DEFINE n == Len(t)
           Within(l) == \E x \in i .. e - 1 : l.pos = skip_space(t, x + 1) /\ Lead(steps[e], x, e)
           Inv(l) == (l.ended => l.res.ok /\ l.res.pos = e + 1) /\ (~l.ended => Within(l))
           Q == {l \in {f[k] : k \in 0 .. n} : Inv(l)}
<1>1. n \in Nat /\ close \in {93, 125} /\ e \in 1 .. n /\ e \in Int
  BY StringLength DEF Separated
<1>2. \A x, y : <<x, y>> \in steps[e] => (y = e \/ At(t, y) = 44) /\ ends[skip_space(t, x + 1)] = y
  BY <1>1 DEF Separated
<1>3. ~f[0].ended /\ f[0].pos = skip_space(t, i + 1) /\ f[n].ended
  BY DEF ItemLoop
<1>4. Inv(f[0])
  <2>1. i \in i .. e - 1
    BY <1>1
  <2>2. QED
    BY <1>3, <2>1
<1>5. ASSUME NEW l, NEW m, Inv(l), ItemRound(t, ends, close, l, m) PROVE Inv(m)
  <2>1. CASE l.ended
    <3>1. m = l
      BY <1>5, <2>1 DEF ItemRound
    <3>2. QED
      BY <1>5, <3>1
  <2>2. CASE ~l.ended
    <3>1. PICK x \in i .. e - 1 : l.pos = skip_space(t, x + 1) /\ Lead(steps[e], x, e)
      BY <1>5, <2>2
    <3>2. x \in Int /\ x < e
      BY <1>1, <3>1
    <3>3. PICK y \in x + 1 .. e : <<x, y>> \in steps[e] /\ Lead(steps[e], y, e)
      BY <1>1, <3>1, <3>2, LeadFirst
    <3>4. ends[l.pos] = y /\ (y = e \/ At(t, y) = 44)
      BY <1>2, <3>1, <3>3
    <3>5. y # 0 /\ y \in i .. e
      BY <1>1, <3>1, <3>3
    <3>6. /\ At(t, y) = close => m.ended /\ m.res.ok /\ m.res.pos = y + 1
          /\ At(t, y) = 44    => ~m.ended /\ m.pos = skip_space(t, y + 1)
      BY <1>5, <2>2, <3>4, <3>5 DEF ItemRound
    <3>7. CASE y = e
      BY <3>6, <3>7
    <3>8. CASE y # e
      <4>1. At(t, y) = 44 /\ y \in i .. e - 1
        BY <1>1, <3>4, <3>5, <3>8
      <4>2. QED
        BY <3>3, <3>6, <4>1
    <3>9. QED
      BY <3>7, <3>8
  <2>3. QED
    BY <2>1, <2>2
<1> HIDE DEF Inv
<1>6. f[0] \in Q
  BY <1>1, <1>4
<1>7. ASSUME NEW k \in 1 .. n, f[k - 1] \in Q PROVE f[k] \in Q
  <2>1. k \in 0 .. n /\ Inv(f[k - 1]) /\ ItemRound(t, ends, close, f[k - 1], f[k])
    BY <1>7 DEF ItemLoop
  <2>2. Inv(f[k])
    BY <1>5, <2>1
  <2>3. QED
    BY <2>1, <2>2
<1>8. Inv(f[n])
  <2>1. \A k \in 0 .. n : f[k] \in Q
    <3>1. n \in Nat
      BY <1>1
    <3> HIDE DEF Q, n
    <3>2. QED
      BY <1>6, <1>7, <3>1, LoopInvariant
  <2>2. n \in 0 .. n
    BY <1>1
  <2>3. QED
    BY <2>1, <2>2
<1>9. QED
  BY <1>3, <1>8 DEF Inv

\* Where an element ends that is read at p, or 0, and a member.
ElementEnds(t, inner) ==
  [p \in 1 .. Len(t) + 1 |-> IF inner[p].ok THEN skip_space(t, inner[p].pos) ELSE 0]
MemberEnds(t, inner, out) ==
  [p \in 1 .. Len(t) + 1 |->
     LET key == parse_string(t, p, out)
         j   == skip_space(t, key.pos)
         e   == inner[skip_space(t, j + 1)]
     IN  IF key.ok /\ At(t, j) = 58 /\ e.ok THEN skip_space(t, e.pos) ELSE 0]

\* How the rounds of a loop end, or go on: with a failure,
LEMMA FailedEnds ==
  ASSUME NEW live, NEW over
  PROVE  Ended(Failed(live, over)).ended /\ ~Ended(Failed(live, over)).res.ok
BY DEF Ended, Failed

\* ... with a container that is complete,
LEMMA ParsedEnds ==
  ASSUME NEW pos, NEW v, NEW live, NEW over
  PROVE  LET m == Ended(Parsed(pos, v, live, over)) IN m.ended /\ m.res.ok /\ m.res.pos = pos
BY DEF Ended, Parsed

\* ... with a place to go on at,
LEMMA GoesOnAt ==
  ASSUME NEW pos, NEW ret, NEW live, NEW over
  PROVE  ~GoesOn(pos, ret, live, over).ended /\ GoesOn(pos, ret, live, over).pos = pos
BY DEF GoesOn

\* ... and with what is behind an item: the closing byte, a comma or neither.
LEMMA BehindEnds ==
  ASSUME NEW t, NEW i, NEW close, close # 44, NEW ret, NEW live, NEW out, NEW over
  PROVE  LET m == Behind(t, i, close, ret, live, out, over)
             y == skip_space(t, i)
         IN  /\ At(t, y) = close => m.ended /\ m.res.ok /\ m.res.pos = y + 1
             /\ At(t, y) = 44    => ~m.ended /\ m.pos = skip_space(t, y + 1)
             /\ At(t, y) \notin {44, close} => m.ended /\ ~m.res.ok
<1> DEFINE y == skip_space(t, i)
           m == Behind(t, i, close, ret, live, out, over)
<1>1. m = IF At(t, y) = close THEN Ended(Parsed(y + 1, ret, live, over))
          ELSE IF At(t, y) = 44 THEN GoesOn(skip_space(t, y + 1), ret, live, over)
          ELSE Ended(Failed(live - Held(ret, out), over))
  BY DEF Behind
<1> HIDE DEF m, y
<1>2. CASE At(t, y) = close
  <2>1. m = Ended(Parsed(y + 1, ret, live, over))
    BY <1>1, <1>2
  <2>2. QED
    <3>1. m.ended /\ m.res.ok /\ m.res.pos = y + 1
      BY <2>1, ParsedEnds
    <3>2. QED
      BY <1>2, <3>1 DEF m, y
<1>3. CASE At(t, y) = 44
  <2>1. m = GoesOn(skip_space(t, y + 1), ret, live, over)
    BY <1>1, <1>3
  <2>2. QED
    <3>1. ~m.ended /\ m.pos = skip_space(t, y + 1)
      BY <2>1, GoesOnAt
    <3>2. QED
      BY <1>3, <3>1 DEF m, y
<1>4. CASE At(t, y) \notin {44, close}
  <2>1. m = Ended(Failed(live - Held(ret, out), over))
    BY <1>1, <1>4
  <2>2. QED
    <3>1. m.ended /\ ~m.res.ok
      BY <2>1, FailedEnds
    <3>2. QED
      BY <1>4, <3>1 DEF m, y
<1>5. QED
  BY <1>2, <1>3, <1>4 DEF m, y

\* A round of parse_array is one of a loop over items.
LEMMA ElementItem ==
  ASSUME NEW t \in String, NEW inner, NEW out, NEW l, l.ended \/ l.pos \in 1 .. Len(t) + 1
  PROVE  ItemRound(t, ElementEnds(t, inner), 93, l, ElementRound(t, inner, l, out))
<1> DEFINE e == inner[l.pos]
           m == ElementRound(t, inner, l, out)
           y == ElementEnds(t, inner)[l.pos]
<1>1. CASE l.ended
  BY <1>1 DEF ItemRound, ElementRound
<1>2. CASE ~l.ended
  <2>1. y = IF e.ok THEN skip_space(t, e.pos) ELSE 0
    BY <1>2 DEF ElementEnds
  <2>2. CASE e.ok
    <3> DEFINE over == l.over \/ e.over
               live == l.live + e.live
               ret  == WithElement(l.ret, e.val, out)
    <3>1. m = Behind(t, e.pos, 93, ret, live, out, over)
      BY <1>2, <2>2 DEF ElementRound
    <3> HIDE DEF over, live, ret, e, m, y
    <3>2. /\ At(t, y) = 93 => m.ended /\ m.res.ok /\ m.res.pos = y + 1
          /\ At(t, y) = 44 => ~m.ended /\ m.pos = skip_space(t, y + 1)
          /\ At(t, y) \notin {44, 93} => m.ended /\ ~m.res.ok
      BY <2>1, <2>2, <3>1, BehindEnds
    <3>3. y # 0 \/ At(t, 0) = 0
      BY NoDigit
    <3>4. CASE y # 0
      BY <1>2, <3>2, <3>4 DEF ItemRound, y, m
    <3>5. CASE y = 0
      BY <1>2, <3>2, <3>3, <3>5 DEF ItemRound, y, m
    <3>6. QED
      BY <3>4, <3>5
  <2>3. CASE ~e.ok
    <3>1. m.ended /\ ~m.res.ok
      BY <1>2, <2>3, FailedEnds DEF ElementRound
    <3>2. y = 0
      BY <2>1, <2>3
    <3> HIDE DEF m
    <3>3. QED
      BY <1>2, <3>1, <3>2 DEF ItemRound, m
  <2>4. QED
    BY <2>2, <2>3
<1>3. QED
  BY <1>1, <1>2

\* ... and so is a round of parse_object.
LEMMA MemberItem ==
  ASSUME NEW t \in String, NEW inner, NEW out, NEW l, l.ended \/ l.pos \in 1 .. Len(t) + 1
  PROVE  ItemRound(t, MemberEnds(t, inner, out), 125, l, MemberRound(t, inner, l, out))
<1> DEFINE key == parse_string(t, l.pos, out)
           j == skip_space(t, key.pos)
           e == inner[skip_space(t, j + 1)]
           m == MemberRound(t, inner, l, out)
           y == MemberEnds(t, inner, out)[l.pos]
<1>1. CASE l.ended
  BY <1>1 DEF ItemRound, MemberRound
<1>2. CASE ~l.ended
  <2>1. y = IF key.ok /\ At(t, j) = 58 /\ e.ok THEN skip_space(t, e.pos) ELSE 0
    BY <1>2 DEF MemberEnds
  <2>2. m = MemberKey(t, inner, l, key, out)
    BY <1>2 DEF MemberRound
  <2>3. key.ok => m = MemberValue(t, inner, l, key, j, out)
    BY <2>2 DEF MemberKey
  <2>4. CASE key.ok /\ At(t, j) = 58 /\ e.ok
    <3> DEFINE over == l.over \/ key.over \/ e.over
               live == l.live + key.live + e.live
               ret  == WithMember(l.ret, key.val.s, e.val, out)
    <3>1. m = Behind(t, e.pos, 125, ret, live, out, over)
      <4> HIDE DEF m, key, j
      <4>1. MemberValue(t, inner, l, key, j, out) = Behind(t, e.pos, 125, ret, live, out, over)
        BY <2>4 DEF MemberValue
      <4>2. QED
        BY <2>3, <2>4, <4>1
    <3> HIDE DEF over, live, ret, e, m, y, j, key
    <3>2. /\ At(t, y) = 125 => m.ended /\ m.res.ok /\ m.res.pos = y + 1
          /\ At(t, y) = 44 => ~m.ended /\ m.pos = skip_space(t, y + 1)
          /\ At(t, y) \notin {44, 125} => m.ended /\ ~m.res.ok
      BY <2>1, <2>4, <3>1, BehindEnds
    <3>3. y # 0 \/ At(t, 0) = 0
      BY NoDigit
    <3>4. CASE y # 0
      BY <1>2, <3>2, <3>4 DEF ItemRound, y, m
    <3>5. CASE y = 0
      BY <1>2, <3>2, <3>3, <3>5 DEF ItemRound, y, m
    <3>6. QED
      BY <3>4, <3>5
  <2>5. CASE ~(key.ok /\ At(t, j) = 58 /\ e.ok)
    <3>1. m.ended /\ ~m.res.ok
      <4>1. CASE ~key.ok
        <5> HIDE DEF key
        <5>1. QED
          BY <2>2, <4>1, FailedEnds DEF MemberKey
      <4>2. CASE key.ok /\ At(t, j) # 58
        <5> HIDE DEF key, j, m
        <5>1. QED
          BY <2>3, <4>2, FailedEnds DEF MemberValue
      <4>3. CASE key.ok /\ At(t, j) = 58 /\ ~e.ok
        <5> HIDE DEF key, j, m
        <5>1. QED
          BY <2>3, <4>3, FailedEnds DEF MemberValue
      <4>4. QED
        BY <2>5, <4>1, <4>2, <4>3
    <3>2. y = 0
      <4> HIDE DEF key, j, e
      <4>1. QED
        BY <2>1, <2>5
    <3> HIDE DEF m
    <3>3. QED
      BY <1>2, <3>1, <3>2 DEF ItemRound, m
  <2>6. QED
    BY <2>4, <2>5
<1>3. QED
  BY <1>1, <1>2

\* The spans in ElementSteps are a separator and an element behind it.
LEMMA ElementStepSpans ==
  ASSUME NEW t, NEW inner, NEW e, NEW a, NEW b
  PROVE  <<a, b>> \in ElementSteps(t, inner, e)
           <=> /\ a \in 1 .. Len(t) + 1 /\ b \in 1 .. Len(t) + 1 /\ (b = e \/ At(t, b) = 44)
               /\ Padded(t, inner, a + 1, b)
<1> DEFINE S(p) == (p[2] = e \/ At(t, p[2]) = 44) /\ Padded(t, inner, p[1] + 1, p[2])
<1>1. ElementSteps(t, inner, e) = {p \in Spans(t) : S(p)}
  BY DEF ElementSteps
<1>2. S(<<a, b>>) <=> (b = e \/ At(t, b) = 44) /\ Padded(t, inner, a + 1, b)
  OBVIOUS
<1> HIDE DEF S
<1>3. <<a, b>> \in Spans(t) <=> a \in 1 .. Len(t) + 1 /\ b \in 1 .. Len(t) + 1
  BY DEF Spans
<1>4. QED
  BY <1>1, <1>2, <1>3

\* ... and in MemberSteps a separator and a member.
LEMMA MemberStepSpans ==
  ASSUME NEW t, NEW inner, NEW e, NEW a, NEW b
  PROVE  <<a, b>> \in MemberSteps(t, inner, e)
           <=> /\ a \in 1 .. Len(t) + 1 /\ b \in 1 .. Len(t) + 1 /\ (b = e \/ At(t, b) = 44)
               /\ IsMember(t, inner, a + 1, b)
<1> DEFINE S(p) == (p[2] = e \/ At(t, p[2]) = 44) /\ IsMember(t, inner, p[1] + 1, p[2])
<1>1. MemberSteps(t, inner, e) = {p \in Spans(t) : S(p)}
  BY DEF MemberSteps
<1>2. S(<<a, b>>) <=> (b = e \/ At(t, b) = 44) /\ IsMember(t, inner, a + 1, b)
  OBVIOUS
<1> HIDE DEF S
<1>3. <<a, b>> \in Spans(t) <=> a \in 1 .. Len(t) + 1 /\ b \in 1 .. Len(t) + 1
  BY DEF Spans
<1>4. QED
  BY <1>1, <1>2, <1>3

\* The items between separators, by the last of them.
ElementStepsUpTo(t, spans) == [e \in 1 .. Len(t) + 1 |-> ElementSteps(t, spans, e)]
MemberStepsUpTo(t, spans)  == [e \in 1 .. Len(t) + 1 |-> MemberSteps(t, spans, e)]

\* A span with white space around it is not empty.
LEMMA PaddedForward ==
  ASSUME NEW t \in String, NEW table, NEW spans, Fits(t, table, spans),
         NEW i \in Int, NEW j \in 1 .. Len(t) + 1, Padded(t, spans, i, j)
  PROVE  i < j
<1>1. PICK a \in i .. j : \E b \in a .. j : <<a, b>> \in spans
  BY DEF Padded
<1>2. PICK b \in a .. j : <<a, b>> \in spans
  BY <1>1
<1>3. Len(t) \in Nat
  BY StringLength
<1>4. b \in a + 1 .. Len(t) + 1
  BY <1>2 DEF Fits
<1>5. QED
  BY <1>1, <1>2, <1>3, <1>4

\* What parse_array takes for an element is one of the grammar, and the other way.
LEMMA ElementsSeparated ==
  ASSUME NEW t \in String, NEW inner, NEW spans, Fits(t, inner, spans)
  PROVE  Separated(t, ElementEnds(t, inner), 93, ElementStepsUpTo(t, spans))
<1> DEFINE n == Len(t)
           ends == ElementEnds(t, inner)
           steps == ElementStepsUpTo(t, spans)
<1>1. n \in Nat
  BY StringLength
<1>2. \A p \in 1 .. n + 1 : ends[p] = IF inner[p].ok THEN skip_space(t, inner[p].pos) ELSE 0
  BY DEF ElementEnds
<1>3. \A e \in 1 .. n + 1 : steps[e] = ElementSteps(t, spans, e)
  BY DEF ElementStepsUpTo
<1> HIDE DEF ends, steps
<1>4. ASSUME NEW x \in 1 .. n, NEW y, y = ends[skip_space(t, x + 1)], y # 0
      PROVE  /\ y \in x + 1 .. n + 1
             /\ \A e \in 1 .. n + 1 : y = e \/ At(t, y) = 44 => <<x, y>> \in steps[e]
  <2>1. x + 1 \in 1 .. n + 1
    BY <1>1
  <2>2. skip_space(t, x + 1) \in 1 .. n + 1
    BY <1>1, <2>1, SkipSpacePlace
  <2>3. inner[skip_space(t, x + 1)].ok /\ y = skip_space(t, inner[skip_space(t, x + 1)].pos)
    BY <1>2, <1>4, <2>2
  <2>4. y \in (x + 1) + 1 .. n + 1 /\ Padded(t, spans, x + 1, y)
    BY <2>1, <2>3, PaddedFound
  <2>5. x \in 1 .. n + 1 /\ y \in 1 .. n + 1 /\ y \in x + 1 .. n + 1
    BY <1>1, <2>4
  <2>6. ASSUME NEW e \in 1 .. n + 1, y = e \/ At(t, y) = 44 PROVE <<x, y>> \in steps[e]
    BY <1>3, <2>4, <2>5, <2>6, ElementStepSpans
  <2>7. QED
    BY <2>5, <2>6
<1>5. ASSUME NEW e \in 1 .. n, At(t, e) = 93, NEW x, NEW y, <<x, y>> \in steps[e]
      PROVE  (y = e \/ At(t, y) = 44) /\ ends[skip_space(t, x + 1)] = y
  <2>1. e \in 1 .. n + 1
    BY <1>1
  <2>2. x \in 1 .. n + 1 /\ y \in 1 .. n + 1 /\ (y = e \/ At(t, y) = 44) /\ Padded(t, spans, x + 1, y)
    BY <1>3, <1>5, <2>1, ElementStepSpans
  <2>3. x + 1 \in 1 .. n + 1
    <3>1. x + 1 \in Int
      BY <1>1, <2>2
    <3>2. x + 1 < y
      BY <2>2, <3>1, PaddedForward
    <3>3. QED
      BY <1>1, <2>2, <3>2
  <2>4. At(t, y) \in Stops
    BY <1>5, <2>2 DEF Stops
  <2>5. /\ inner[skip_space(t, x + 1)].ok /\ skip_space(t, inner[skip_space(t, x + 1)].pos) = y
        /\ skip_space(t, x + 1) \in x + 1 .. n + 1
    BY <2>2, <2>3, <2>4, PaddedRead
  <2>6. skip_space(t, x + 1) \in 1 .. n + 1
    BY <1>1, <2>3, <2>5
  <2>7. QED
    BY <1>2, <2>2, <2>5, <2>6
<1>6. QED
  BY <1>4, <1>5 DEF Separated, ends, steps

\* ... and what parse_object takes for a member.
LEMMA MembersSeparated ==
  ASSUME NEW t \in String, NEW inner, NEW spans, Fits(t, inner, spans), NEW out \in BOOLEAN
  PROVE  Separated(t, MemberEnds(t, inner, out), 125, MemberStepsUpTo(t, spans))
<1> DEFINE n == Len(t)
           keys == StringTable(t, out)
           ends == MemberEnds(t, inner, out)
           steps == MemberStepsUpTo(t, spans)
           Colon(p) == skip_space(t, keys[p].pos)
           From(p) == skip_space(t, Colon(p) + 1)
<1>1. n \in Nat
  BY StringLength
<1>2. ASSUME NEW p \in 1 .. n + 1
      PROVE  ends[p] = IF keys[p].ok /\ At(t, Colon(p)) = 58 /\ inner[From(p)].ok
                       THEN skip_space(t, inner[From(p)].pos) ELSE 0
  BY DEF MemberEnds, StringTable
<1>3. \A e \in 1 .. n + 1 : steps[e] = MemberSteps(t, spans, e)
  BY DEF MemberStepsUpTo
<1>4. Fits(t, keys, Strings(t))
  BY StringsFit
<1> HIDE DEF ends, steps, keys
<1>5. ASSUME NEW x \in 1 .. n, NEW y, y = ends[skip_space(t, x + 1)], y # 0
      PROVE  /\ y \in x + 1 .. n + 1
             /\ \A e \in 1 .. n + 1 : y = e \/ At(t, y) = 44 => <<x, y>> \in steps[e]
  <2>1. x + 1 \in 1 .. n + 1
    BY <1>1
  <2>2. PICK p \in 1 .. n + 1 : p = skip_space(t, x + 1)
    BY <1>1, <2>1, SkipSpacePlace
  <2>3. keys[p].ok /\ At(t, Colon(p)) = 58 /\ inner[From(p)].ok /\ y = skip_space(t, inner[From(p)].pos)
    BY <1>2, <1>5, <2>2
  <2>4. PICK j \in (x + 1) + 1 .. n + 1 : j = Colon(p) /\ Padded(t, Strings(t), x + 1, j)
    BY <1>4, <2>1, <2>2, <2>3, PaddedFound
  <2>5. j \in Int /\ j \in 1 .. n
    BY <1>1, <2>3, <2>4, NoDigit
  <2>6. j + 1 \in 1 .. n + 1
    BY <1>1, <2>5
  <2>7. y \in (j + 1) + 1 .. n + 1 /\ Padded(t, spans, j + 1, y)
    BY <2>3, <2>4, <2>6, PaddedFound
  <2>8. x \in 1 .. n + 1 /\ y \in 1 .. n + 1 /\ y \in x + 1 .. n + 1 /\ j \in x + 1 .. y - 1
    BY <1>1, <2>4, <2>5, <2>7
  <2>9. IsMember(t, spans, x + 1, y)
    BY <2>3, <2>4, <2>7, <2>8 DEF IsMember
  <2>10. ASSUME NEW e \in 1 .. n + 1, y = e \/ At(t, y) = 44 PROVE <<x, y>> \in steps[e]
    BY <1>3, <2>8, <2>9, <2>10, MemberStepSpans
  <2>11. QED
    BY <2>8, <2>10
<1>6. ASSUME NEW e \in 1 .. n, At(t, e) = 125, NEW x, NEW y, <<x, y>> \in steps[e]
      PROVE  (y = e \/ At(t, y) = 44) /\ ends[skip_space(t, x + 1)] = y
  <2>1. e \in 1 .. n + 1
    BY <1>1
  <2>2. x \in 1 .. n + 1 /\ y \in 1 .. n + 1 /\ (y = e \/ At(t, y) = 44) /\ IsMember(t, spans, x + 1, y)
    BY <1>3, <1>6, <2>1, MemberStepSpans
  <2>3. PICK j \in x + 1 .. y - 1 : At(t, j) = 58 /\ Padded(t, Strings(t), x + 1, j) /\ Padded(t, spans, j + 1, y)
    BY <2>2 DEF IsMember
  <2>4. x + 1 \in 1 .. n + 1 /\ j \in 1 .. n + 1 /\ j + 1 \in 1 .. n + 1
    BY <1>1, <2>2, <2>3
  <2>5. At(t, y) \in Stops /\ At(t, j) \in Stops
    BY <1>6, <2>2, <2>3 DEF Stops
  <2>6. PICK p \in x + 1 .. n + 1 : p = skip_space(t, x + 1) /\ keys[p].ok /\ Colon(p) = j
    BY <1>4, <2>3, <2>4, <2>5, PaddedRead
  <2>7. inner[From(p)].ok /\ skip_space(t, inner[From(p)].pos) = y
    BY <2>2, <2>3, <2>4, <2>5, <2>6, PaddedRead
  <2>8. p \in 1 .. n + 1
    BY <1>1, <2>4, <2>6
  <2>9. QED
    BY <1>2, <2>2, <2>3, <2>6, <2>7, <2>8
<1>7. QED
  BY <1>5, <1>6 DEF Separated, ends, steps

\* Arrays.

\* parse_array is a loop over items.
LEMMA ElementsLoop ==
  ASSUME NEW t \in String, NEW i \in 1 .. Len(t) + 1, NEW out \in BOOLEAN, At(t, i) = 91,
         NEW inner, Table(t, out, inner)
  PROVE  ItemLoop(t, ElementEnds(t, inner), 93, i,
                  Elements(t, inner, skip_space(t, i + 1), Value("array", <<>>), out))
<1> DEFINE n == Len(t)
           j == skip_space(t, i + 1)
           a == Started(t, j, Value("array", <<>>), out)
           f == Elements(t, inner, j, Value("array", <<>>), out)
           x == OverElements(t, inner, out)
           ends == ElementEnds(t, inner)
<1>1. n \in Nat /\ i \in Nat \ {0} /\ i \in 1 .. n
  BY StringLength, NoDigit
<1>2. j \in i + 1 .. n + 1
  BY OpenedPlace
<1>3. Filling(t, i, out, 0, a) /\ ~a.ended /\ a.pos = j
  <2>1. Filling(t, i, out, 0, a)
    BY <1>1, <1>2, StartFilling
  <2>2. PICK ret, live : a = GoesOn(j, ret, live, FALSE)
    BY DEF Started
  <2> HIDE DEF a, j
  <2>3. ~a.ended /\ a.pos = j
    BY <2>2 DEF GoesOn
  <2>4. QED
    BY <2>1, <2>3 DEF a
<1>4. IsTurns(f, x, a, n)
  BY ElementsTurns
<1>5. \A l : Turn(x, l) = ElementRound(t, inner, l, out)
  BY DEF Turn, OverElements
<1>6. x \in {OverElements(t, inner, out), OverMembers(t, inner, out)}
  OBVIOUS
<1> HIDE DEF f, a, x, ends
<1>7. f[0] = a /\ \A k \in 1 .. n : f[k] = ElementRound(t, inner, f[k - 1], out)
  BY <1>1, <1>4, <1>5, TurnByTurn
<1>8. \A k \in 0 .. n : Filling(t, i, out, k, f[k])
  BY <1>1, <1>3, <1>4, <1>6, FillingAll
<1>9. f[n].ended
  <2>1. Filling(t, i, out, n, f[n])
    BY <1>1, <1>8
  <2>2. QED
    BY <1>1, <2>1, FillingEnds
<1>10. ASSUME NEW k \in 1 .. n PROVE ItemRound(t, ends, 93, f[k - 1], f[k])
  <2>1. Filling(t, i, out, k - 1, f[k - 1])
    BY <1>1, <1>8
  <2>2. f[k - 1].ended \/ f[k - 1].pos \in i + (k - 1) + 1 .. n + 1
    BY <2>1 DEF Filling
  <2>3. f[k - 1].ended \/ f[k - 1].pos \in 1 .. n + 1
    BY <1>1, <2>2
  <2>4. ItemRound(t, ends, 93, f[k - 1], ElementRound(t, inner, f[k - 1], out))
    BY <2>3, ElementItem DEF ends
  <2>5. QED
    BY <1>7, <2>4
<1>11. QED
  BY <1>3, <1>7, <1>9, <1>10 DEF ItemLoop, f, ends

\* An array that is read is one of the grammar.
LEMMA ArrayFound ==
  ASSUME NEW t \in String, NEW i \in 1 .. Len(t) + 1, NEW out \in BOOLEAN, At(t, i) = 91,
         NEW inner, Table(t, out, inner), NEW spans, Fits(t, inner, spans),
         parse_array(t, inner, i, out).ok
  PROVE  IsArray(t, spans, i, parse_array(t, inner, i, out).pos)
<1> DEFINE n == Len(t)
           p == parse_array(t, inner, i, out)
           f == Elements(t, inner, skip_space(t, i + 1), Value("array", <<>>), out)
<1>1. n \in Nat /\ i \in 1 .. n /\ i + 1 \in 1 .. n + 1
  BY StringLength, NoDigit
<1>2. PICK j \in i + 1 .. n + 1 : j = skip_space(t, i + 1)
  BY OpenedPlace
<1>3. IsBlank(t, i + 1, j)
  BY <1>1, <1>2, SkipsBlanks
<1>4. CASE At(t, j) = 93
  <2>1. p.pos = j + 1
    BY <1>2, <1>4 DEF parse_array, Parsed
  <2>2. (j + 1) - 1 = j /\ i + 2 <= j + 1
    BY <1>1, <1>2
  <2>3. IsArray(t, spans, i, j + 1)
    BY <1>3, <1>4, <2>2 DEF IsArray, IsEnclosed
  <2>4. QED
    BY <2>1, <2>3
<1>5. CASE At(t, j) # 93
  <2>1. p = f[n].res
    BY <1>2, <1>5 DEF parse_array
  <2>2. ItemLoop(t, ElementEnds(t, inner), 93, i, f)
    BY ElementsLoop
  <2>3. Separated(t, ElementEnds(t, inner), 93, ElementStepsUpTo(t, spans))
    BY ElementsSeparated
  <2>4. f[n].res.ok
    BY <2>1
  <2> HIDE DEF f, p
  <2>5. PICK y \in i + 1 .. n : p.pos = y + 1 /\ At(t, y) = 93 /\ Lead(ElementStepsUpTo(t, spans)[y], i, y)
    BY <1>1, <2>1, <2>2, <2>3, <2>4, LoopFinds
  <2>6. ElementStepsUpTo(t, spans)[y] = ElementSteps(t, spans, y)
    <3>1. y \in 1 .. n + 1
      BY <1>1, <2>5
    <3>2. QED
      BY <3>1 DEF ElementStepsUpTo
  <2>7. (y + 1) - 1 = y /\ i + 2 <= y + 1
    BY <1>1, <2>5
  <2>8. IsArray(t, spans, i, y + 1)
    BY <2>5, <2>6, <2>7 DEF IsArray, IsEnclosed
  <2>9. QED
    BY <2>5, <2>8 DEF p
<1>6. QED
  BY <1>4, <1>5

\* An array of the grammar is read, and to its end.
LEMMA ArrayRead ==
  ASSUME NEW t \in String, NEW i \in 1 .. Len(t) + 1, NEW j \in 1 .. Len(t) + 1, NEW out \in BOOLEAN,
         NEW inner, Table(t, out, inner), NEW spans, Fits(t, inner, spans),
         IsArray(t, spans, i, j)
  PROVE  /\ At(t, i) = 91 /\ i < j
         /\ parse_array(t, inner, i, out).ok /\ parse_array(t, inner, i, out).pos = j
<1> DEFINE n == Len(t)
           p == parse_array(t, inner, i, out)
           f == Elements(t, inner, skip_space(t, i + 1), Value("array", <<>>), out)
           e == j - 1
<1>1. At(t, i) = 91 /\ At(t, e) = 93 /\ i + 2 <= j
      /\ (IsBlank(t, i + 1, e) \/ Lead(ElementSteps(t, spans, e), i, e))
  BY DEF IsArray, IsEnclosed
<1>2. n \in Nat /\ i \in 1 .. n /\ e \in i + 1 .. n /\ e \in 1 .. n + 1 /\ i + 1 \in 1 .. n + 1
      /\ i < e /\ e + 1 = j /\ e \in i + 1 .. n + 1
  BY <1>1, StringLength
<1> HIDE DEF e
<1>3. CASE IsBlank(t, i + 1, e)
  <2>1. At(t, e) \notin Space
    BY <1>1 DEF Space
  <2>2. skip_space(t, i + 1) = e
    BY <1>2, <1>3, <2>1, BlanksSkipped
  <2>3. p.ok /\ p.pos = e + 1
    BY <1>1, <2>2 DEF parse_array, Parsed
  <2>4. QED
    BY <1>1, <1>2, <2>3
<1>4. CASE Lead(ElementSteps(t, spans, e), i, e)
  <2>1. Separated(t, ElementEnds(t, inner), 93, ElementStepsUpTo(t, spans))
    BY ElementsSeparated
  <2>2. ElementStepsUpTo(t, spans)[e] = ElementSteps(t, spans, e)
    BY <1>2 DEF ElementStepsUpTo
  <2>3. ItemLoop(t, ElementEnds(t, inner), 93, i, f)
    BY <1>1, ElementsLoop
  <2>4. At(t, skip_space(t, i + 1)) # 93
    <3>1. PICK b \in i + 1 .. e : <<i, b>> \in ElementSteps(t, spans, e)
      BY <1>2, <1>4, LeadFirst
    <3>2. b \in 1 .. n + 1 /\ (b = e \/ At(t, b) = 44) /\ Padded(t, spans, i + 1, b)
      BY <3>1, ElementStepSpans
    <3>3. At(t, b) \in Stops
      BY <1>1, <3>2 DEF Stops
    <3>4. At(t, skip_space(t, i + 1)) \notin Follow
      BY <1>2, <3>2, <3>3, PaddedRead
    <3>5. QED
      BY <3>4 DEF Follow, Stops
  <2>5. p = f[n].res
    BY <2>4 DEF parse_array
  <2> HIDE DEF f, p
  <2>6. f[n].res.ok /\ f[n].res.pos = e + 1
    BY <1>1, <1>2, <1>4, <2>1, <2>2, <2>3, LoopReads
  <2>7. QED
    BY <1>1, <1>2, <2>5, <2>6 DEF p
<1>5. QED
  BY <1>1, <1>3, <1>4

\* Objects.

\* parse_object is a loop over items.
LEMMA MembersLoop ==
  ASSUME NEW t \in String, NEW i \in 1 .. Len(t) + 1, NEW out \in BOOLEAN, At(t, i) = 123,
         NEW inner, Table(t, out, inner)
  PROVE  ItemLoop(t, MemberEnds(t, inner, out), 125, i,
                  Members(t, inner, skip_space(t, i + 1), Value("object", <<>>), out))
<1> DEFINE n == Len(t)
           j == skip_space(t, i + 1)
           a == Started(t, j, Value("object", <<>>), out)
           f == Members(t, inner, j, Value("object", <<>>), out)
           x == OverMembers(t, inner, out)
           ends == MemberEnds(t, inner, out)
<1>1. n \in Nat /\ i \in Nat \ {0} /\ i \in 1 .. n
  BY StringLength, NoDigit
<1>2. j \in i + 1 .. n + 1
  BY OpenedPlace
<1>3. Filling(t, i, out, 0, a) /\ ~a.ended /\ a.pos = j
  <2>1. Filling(t, i, out, 0, a)
    BY <1>1, <1>2, StartFilling
  <2>2. PICK ret, live : a = GoesOn(j, ret, live, FALSE)
    BY DEF Started
  <2> HIDE DEF a, j
  <2>3. ~a.ended /\ a.pos = j
    BY <2>2 DEF GoesOn
  <2>4. QED
    BY <2>1, <2>3 DEF a
<1>4. IsTurns(f, x, a, n)
  BY MembersTurns
<1>5. \A l : Turn(x, l) = MemberRound(t, inner, l, out)
  BY DEF Turn, OverMembers
<1>6. x \in {OverElements(t, inner, out), OverMembers(t, inner, out)}
  OBVIOUS
<1> HIDE DEF f, a, x, ends
<1>7. f[0] = a /\ \A k \in 1 .. n : f[k] = MemberRound(t, inner, f[k - 1], out)
  BY <1>1, <1>4, <1>5, TurnByTurn
<1>8. \A k \in 0 .. n : Filling(t, i, out, k, f[k])
  BY <1>1, <1>3, <1>4, <1>6, FillingAll
<1>9. f[n].ended
  <2>1. Filling(t, i, out, n, f[n])
    BY <1>1, <1>8
  <2>2. QED
    BY <1>1, <2>1, FillingEnds
<1>10. ASSUME NEW k \in 1 .. n PROVE ItemRound(t, ends, 125, f[k - 1], f[k])
  <2>1. Filling(t, i, out, k - 1, f[k - 1])
    BY <1>1, <1>8
  <2>2. f[k - 1].ended \/ f[k - 1].pos \in i + (k - 1) + 1 .. n + 1
    BY <2>1 DEF Filling
  <2>3. f[k - 1].ended \/ f[k - 1].pos \in 1 .. n + 1
    BY <1>1, <2>2
  <2>4. ItemRound(t, ends, 125, f[k - 1], MemberRound(t, inner, f[k - 1], out))
    BY <2>3, MemberItem DEF ends
  <2>5. QED
    BY <1>7, <2>4
<1>11. QED
  BY <1>3, <1>7, <1>9, <1>10 DEF ItemLoop, f, ends

\* An object that is read is one of the grammar.
LEMMA ObjectFound ==
  ASSUME NEW t \in String, NEW i \in 1 .. Len(t) + 1, NEW out \in BOOLEAN, At(t, i) = 123,
         NEW inner, Table(t, out, inner), NEW spans, Fits(t, inner, spans),
         parse_object(t, inner, i, out).ok
  PROVE  IsObject(t, spans, i, parse_object(t, inner, i, out).pos)
<1> DEFINE n == Len(t)
           p == parse_object(t, inner, i, out)
           f == Members(t, inner, skip_space(t, i + 1), Value("object", <<>>), out)
<1>1. n \in Nat /\ i \in 1 .. n /\ i + 1 \in 1 .. n + 1
  BY StringLength, NoDigit
<1>2. PICK j \in i + 1 .. n + 1 : j = skip_space(t, i + 1)
  BY OpenedPlace
<1>3. IsBlank(t, i + 1, j)
  BY <1>1, <1>2, SkipsBlanks
<1>4. CASE At(t, j) = 125
  <2>1. p.pos = j + 1
    BY <1>2, <1>4 DEF parse_object, Parsed
  <2>2. (j + 1) - 1 = j /\ i + 2 <= j + 1
    BY <1>1, <1>2
  <2>3. IsObject(t, spans, i, j + 1)
    BY <1>3, <1>4, <2>2 DEF IsObject, IsEnclosed
  <2>4. QED
    BY <2>1, <2>3
<1>5. CASE At(t, j) # 125
  <2>1. p = f[n].res
    BY <1>2, <1>5 DEF parse_object
  <2>2. ItemLoop(t, MemberEnds(t, inner, out), 125, i, f)
    BY MembersLoop
  <2>3. Separated(t, MemberEnds(t, inner, out), 125, MemberStepsUpTo(t, spans))
    BY MembersSeparated
  <2>4. f[n].res.ok
    BY <2>1
  <2> HIDE DEF f, p
  <2>5. PICK y \in i + 1 .. n : p.pos = y + 1 /\ At(t, y) = 125 /\ Lead(MemberStepsUpTo(t, spans)[y], i, y)
    BY <1>1, <2>1, <2>2, <2>3, <2>4, LoopFinds
  <2>6. MemberStepsUpTo(t, spans)[y] = MemberSteps(t, spans, y)
    <3>1. y \in 1 .. n + 1
      BY <1>1, <2>5
    <3>2. QED
      BY <3>1 DEF MemberStepsUpTo
  <2>7. (y + 1) - 1 = y /\ i + 2 <= y + 1
    BY <1>1, <2>5
  <2>8. IsObject(t, spans, i, y + 1)
    BY <2>5, <2>6, <2>7 DEF IsObject, IsEnclosed
  <2>9. QED
    BY <2>5, <2>8 DEF p
<1>6. QED
  BY <1>4, <1>5

\* An object of the grammar is read, and to its end.
LEMMA ObjectRead ==
  ASSUME NEW t \in String, NEW i \in 1 .. Len(t) + 1, NEW j \in 1 .. Len(t) + 1, NEW out \in BOOLEAN,
         NEW inner, Table(t, out, inner), NEW spans, Fits(t, inner, spans),
         IsObject(t, spans, i, j)
  PROVE  /\ At(t, i) = 123 /\ i < j
         /\ parse_object(t, inner, i, out).ok /\ parse_object(t, inner, i, out).pos = j
<1> DEFINE n == Len(t)
           p == parse_object(t, inner, i, out)
           f == Members(t, inner, skip_space(t, i + 1), Value("object", <<>>), out)
           e == j - 1
<1>1. At(t, i) = 123 /\ At(t, e) = 125 /\ i + 2 <= j
      /\ (IsBlank(t, i + 1, e) \/ Lead(MemberSteps(t, spans, e), i, e))
  BY DEF IsObject, IsEnclosed
<1>2. n \in Nat /\ i \in 1 .. n /\ e \in i + 1 .. n /\ e \in 1 .. n + 1 /\ i + 1 \in 1 .. n + 1
      /\ i < e /\ e + 1 = j /\ e \in i + 1 .. n + 1
  BY <1>1, StringLength
<1> HIDE DEF e
<1>3. CASE IsBlank(t, i + 1, e)
  <2>1. At(t, e) \notin Space
    BY <1>1 DEF Space
  <2>2. skip_space(t, i + 1) = e
    BY <1>2, <1>3, <2>1, BlanksSkipped
  <2>3. p.ok /\ p.pos = e + 1
    BY <1>1, <2>2 DEF parse_object, Parsed
  <2>4. QED
    BY <1>1, <1>2, <2>3
<1>4. CASE Lead(MemberSteps(t, spans, e), i, e)
  <2>1. Separated(t, MemberEnds(t, inner, out), 125, MemberStepsUpTo(t, spans))
    BY MembersSeparated
  <2>2. MemberStepsUpTo(t, spans)[e] = MemberSteps(t, spans, e)
    BY <1>2 DEF MemberStepsUpTo
  <2>3. ItemLoop(t, MemberEnds(t, inner, out), 125, i, f)
    BY <1>1, MembersLoop
  <2>4. At(t, skip_space(t, i + 1)) # 125
    <3>1. PICK b \in i + 1 .. e : <<i, b>> \in MemberSteps(t, spans, e)
      BY <1>2, <1>4, LeadFirst
    <3>2. b \in 1 .. n + 1 /\ IsMember(t, spans, i + 1, b)
      BY <3>1, MemberStepSpans
    <3>3. PICK k \in i + 1 .. b - 1 : At(t, k) = 58 /\ Padded(t, Strings(t), i + 1, k)
      BY <3>2 DEF IsMember
    <3>4. k \in 1 .. n + 1 /\ At(t, k) \in Stops
      BY <1>2, <3>2, <3>3 DEF Stops
    <3>5. At(t, skip_space(t, i + 1)) \notin Follow
      BY <1>2, <3>3, <3>4, StringsFit, PaddedRead
    <3>6. QED
      BY <3>5 DEF Follow, Stops
  <2>5. p = f[n].res
    BY <2>4 DEF parse_object
  <2> HIDE DEF f, p
  <2>6. f[n].res.ok /\ f[n].res.pos = e + 1
    BY <1>1, <1>2, <1>4, <2>1, <2>2, <2>3, LoopReads
  <2>7. QED
    BY <1>1, <1>2, <2>5, <2>6 DEF p
<1>5. QED
  BY <1>1, <1>3, <1>4

-----------------------------------------------------------------------------
(* Values. *)

\* parse_value goes by the first byte.
LEMMA ValueByByte ==
  ASSUME NEW t, NEW inner, NEW i, NEW out
  PROVE  LET c == At(t, i)
             v == ValueAt(t, inner, i, out)
         IN  /\ c = 110 => v = LiteralValue(t, i, "null", Null, out)
             /\ c = 102 => v = LiteralValue(t, i, "false", Value("bool", <<0>>), out)
             /\ c = 116 => v = LiteralValue(t, i, "true", Value("bool", <<1>>), out)
             /\ c = 34  => v = StringValue(t, i, out)
             /\ c = 91  => v = parse_array(t, inner, i, out)
             /\ c = 123 => v = parse_object(t, inner, i, out)
             /\ c \notin {110, 102, 116, 34, 91, 123} => v = NumberAt(t, i, out)
BY DEF ValueAt

\* A literal, a string and a number as values are read as by their own functions.
LEMMA LiteralIs ==
  ASSUME NEW t, NEW i, NEW w, NEW v, NEW out
  PROVE  /\ LiteralValue(t, i, w, v, out).ok <=> expect_literal(t, i, w)
         /\ expect_literal(t, i, w) => LiteralValue(t, i, w, v, out).pos = i + Len(Literal(w))
<1>1. CASE expect_literal(t, i, w)
  <2>1. LiteralValue(t, i, w, v, out) = Parsed(i + Len(Literal(w)), v, Held(v, out), FALSE)
    BY <1>1 DEF LiteralValue
  <2>2. QED
    BY <1>1, <2>1 DEF Parsed
<1>2. CASE ~expect_literal(t, i, w)
  <2>1. LiteralValue(t, i, w, v, out) = Failed(0, FALSE)
    BY <1>2 DEF LiteralValue
  <2>2. QED
    BY <1>2, <2>1 DEF Failed
<1>3. QED
  BY <1>1, <1>2

LEMMA StringIs ==
  ASSUME NEW t, NEW i, NEW out
  PROVE  /\ StringValue(t, i, out).ok <=> parse_string(t, i, out).ok
         /\ parse_string(t, i, out).ok => StringValue(t, i, out).pos = parse_string(t, i, out).pos
<1> DEFINE p == parse_string(t, i, out)
           v == StringValue(t, i, out)
<1>1. v = StringNode(p, out)
  BY DEF StringValue
<1> HIDE DEF v, p
<1>2. CASE p.ok
  BY <1>1, <1>2 DEF StringNode, Parsed, v, p
<1>3. CASE ~p.ok
  BY <1>1, <1>3 DEF StringNode, v, p
<1>4. QED
  BY <1>2, <1>3

LEMMA NumberIs ==
  ASSUME NEW t, NEW i, NEW out
  PROVE  /\ NumberAt(t, i, out).ok <=> parse_number(t, i) # 0
         /\ parse_number(t, i) # 0 => NumberAt(t, i, out).pos = parse_number(t, i)
<1> DEFINE e == parse_number(t, i)
           v == Value("number", Printed(Decimal(t, i, e)))
<1>1. NumberAt(t, i, out) = IF e = 0 THEN Failed(0, FALSE) ELSE Parsed(e, v, Held(v, out), FALSE)
  BY DEF NumberAt, NumberUpto
<1> HIDE DEF e, v
<1>2. CASE e = 0
  <2>1. NumberAt(t, i, out) = Failed(0, FALSE)
    BY <1>1, <1>2
  <2>2. QED
    BY <1>2, <2>1 DEF Failed, e
<1>3. CASE e # 0
  <2>1. NumberAt(t, i, out) = Parsed(e, v, Held(v, out), FALSE)
    BY <1>1, <1>3
  <2>2. QED
    BY <1>3, <2>1 DEF Parsed, e
<1>4. QED
  BY <1>2, <1>3

\* A value that is read is one of the grammar,
LEMMA ValueFound ==
  ASSUME NEW t \in String, NEW i \in 1 .. Len(t) + 1, NEW out \in BOOLEAN,
         NEW inner, Table(t, out, inner), NEW spans, Fits(t, inner, spans),
         ValueAt(t, inner, i, out).ok
  PROVE  IsValue(t, spans, i, ValueAt(t, inner, i, out).pos)
<1> DEFINE v == ValueAt(t, inner, i, out)
           c == At(t, i)
<1>1. ASSUME NEW w \in {"null", "true", "false"}, NEW x, v = LiteralValue(t, i, w, x, out)
      PROVE  IsValue(t, spans, i, v.pos)
  <2> HIDE DEF v
  <2>1. v.ok
    BY DEF v
  <2>2. expect_literal(t, i, w) /\ v.pos = i + Len(Literal(w))
    BY <1>1, <2>1, LiteralIs
  <2>3. Part(t, i, v.pos) = Literal(w)
    BY <2>2, LiteralFound
  <2>4. QED
    BY <2>3 DEF IsValue
<1>2. CASE c = 110
  <2>1. v = LiteralValue(t, i, "null", Null, out)
    BY <1>2, ValueByByte
  <2> HIDE DEF v
  <2>2. QED
    BY <1>1, <2>1 DEF v
<1>3. CASE c = 102
  <2>1. v = LiteralValue(t, i, "false", Value("bool", <<0>>), out)
    BY <1>3, ValueByByte
  <2> HIDE DEF v
  <2>2. QED
    BY <1>1, <2>1 DEF v
<1>4. CASE c = 116
  <2>1. v = LiteralValue(t, i, "true", Value("bool", <<1>>), out)
    BY <1>4, ValueByByte
  <2> HIDE DEF v
  <2>2. QED
    BY <1>1, <2>1 DEF v
<1>5. CASE c = 34
  <2>1. v = StringValue(t, i, out)
    BY <1>5, ValueByByte
  <2> HIDE DEF v
  <2>2. v.ok
    BY DEF v
  <2>3. parse_string(t, i, out).ok /\ v.pos = parse_string(t, i, out).pos
    BY <2>1, <2>2, StringIs
  <2>4. IsString(t, i, v.pos)
    BY <2>3, StringFound
  <2>5. QED
    BY <2>4 DEF IsValue, v
<1>6. CASE c = 91
  <2>1. v = parse_array(t, inner, i, out)
    BY <1>6, ValueByByte
  <2> HIDE DEF v
  <2>2. v.ok
    BY DEF v
  <2>3. IsArray(t, spans, i, v.pos)
    BY <1>6, <2>1, <2>2, ArrayFound
  <2>4. QED
    BY <2>3 DEF IsValue, v
<1>7. CASE c = 123
  <2>1. v = parse_object(t, inner, i, out)
    BY <1>7, ValueByByte
  <2> HIDE DEF v
  <2>2. v.ok
    BY DEF v
  <2>3. IsObject(t, spans, i, v.pos)
    BY <1>7, <2>1, <2>2, ObjectFound
  <2>4. QED
    BY <2>3 DEF IsValue, v
<1>8. CASE c \notin {110, 102, 116, 34, 91, 123}
  <2>1. v = NumberAt(t, i, out)
    BY <1>8, ValueByByte
  <2> HIDE DEF v
  <2>2. v.ok
    BY DEF v
  <2>3. parse_number(t, i) # 0 /\ v.pos = parse_number(t, i)
    BY <2>1, <2>2, NumberIs
  <2>4. IsNumber(t, i, v.pos)
    BY <2>3, NumberFound
  <2>5. QED
    BY <2>4 DEF IsValue, v
<1>9. QED
  BY <1>2, <1>3, <1>4, <1>5, <1>6, <1>7, <1>8

\* ... and a value of the grammar is read, and to its end if something can follow it there.
LEMMA ValueRead ==
  ASSUME NEW t \in String, NEW i \in 1 .. Len(t) + 1, NEW j \in 1 .. Len(t) + 1, NEW out \in BOOLEAN,
         NEW inner, Table(t, out, inner), NEW spans, Fits(t, inner, spans),
         IsValue(t, spans, i, j)
  PROVE  /\ i < j /\ At(t, i) \notin Follow
         /\ At(t, j) \in Follow => ValueAt(t, inner, i, out).ok /\ ValueAt(t, inner, i, out).pos = j
<1> DEFINE v == ValueAt(t, inner, i, out)
           c == At(t, i)
<1>1. ASSUME NEW w \in {"null", "true", "false"}, Part(t, i, j) = Literal(w)
      PROVE  i < j /\ c \notin Follow /\ v.ok /\ v.pos = j
  <2>1. expect_literal(t, i, w) /\ j = i + Len(Literal(w)) /\ i < j /\ c = Literal(w)[1]
    BY <1>1, LiteralRead
  <2>2. Literal(w)[1] \notin Follow
    BY LiteralBytes
  <2>3. \E x : v = LiteralValue(t, i, w, x, out)
    <3>1. CASE w = "null"
      <4>1. c = 110
        BY <2>1, <3>1 DEF Literal
      <4>2. QED
        BY <3>1, <4>1, ValueByByte
    <3>2. CASE w = "true"
      <4>1. c = 116
        BY <2>1, <3>2 DEF Literal
      <4>2. QED
        BY <3>2, <4>1, ValueByByte
    <3>3. CASE w = "false"
      <4>1. c = 102
        BY <2>1, <3>3 DEF Literal
      <4>2. QED
        BY <3>3, <4>1, ValueByByte
    <3>4. QED
      BY <3>1, <3>2, <3>3
  <2>4. PICK x : v = LiteralValue(t, i, w, x, out)
    BY <2>3
  <2> HIDE DEF v
  <2>5. v.ok /\ v.pos = j
    BY <2>1, <2>4, LiteralIs
  <2>6. QED
    BY <2>1, <2>2, <2>5 DEF v
<1>2. CASE Part(t, i, j) \in {Literal("null"), Literal("true"), Literal("false")}
  <2>1. \E w \in {"null", "true", "false"} : Part(t, i, j) = Literal(w)
    BY <1>2
  <2>2. QED
    BY <1>1, <2>1
<1>3. CASE IsNumber(t, i, j)
  <2>1. i < j /\ (c = 45 \/ IsDigit(c))
    BY <1>3, NumberStart
  <2>2. \A b : (b = 45 \/ IsDigit(b)) => b \notin Follow \cup {110, 102, 116, 34, 91, 123}
    BY DEF IsDigit, Follow, Stops, Space
  <2>3. ASSUME At(t, j) \in Follow PROVE v.ok /\ v.pos = j
    <3>1. parse_number(t, i) = j
      BY <1>3, <2>3, NumberRead
    <3>2. j # 0
      OBVIOUS
    <3>3. c \notin {110, 102, 116, 34, 91, 123}
      BY <2>1, <2>2
    <3>4. v = NumberAt(t, i, out)
      BY <3>3, ValueByByte
    <3> HIDE DEF v
    <3>5. QED
      BY <3>1, <3>2, <3>4, NumberIs
  <2>4. QED
    BY <2>1, <2>2, <2>3
<1>4. CASE IsString(t, i, j)
  <2>1. i < j /\ c = 34 /\ parse_string(t, i, out).ok /\ parse_string(t, i, out).pos = j
    BY <1>4, StringRead
  <2>2. 34 \notin Follow
    BY DEF Follow, Stops, Space
  <2>3. v = StringValue(t, i, out)
    BY <2>1, ValueByByte
  <2> HIDE DEF v
  <2>4. v.ok /\ v.pos = j
    BY <2>1, <2>3, StringIs
  <2>5. QED
    BY <2>1, <2>2, <2>4 DEF v
<1>5. CASE IsArray(t, spans, i, j)
  <2>1. i < j /\ c = 91 /\ parse_array(t, inner, i, out).ok /\ parse_array(t, inner, i, out).pos = j
    BY <1>5, ArrayRead
  <2>2. 91 \notin Follow
    BY DEF Follow, Stops, Space
  <2>3. v = parse_array(t, inner, i, out)
    BY <2>1, ValueByByte
  <2>4. QED
    BY <2>1, <2>2, <2>3
<1>6. CASE IsObject(t, spans, i, j)
  <2>1. i < j /\ c = 123 /\ parse_object(t, inner, i, out).ok /\ parse_object(t, inner, i, out).pos = j
    BY <1>6, ObjectRead
  <2>2. 123 \notin Follow
    BY DEF Follow, Stops, Space
  <2>3. v = parse_object(t, inner, i, out)
    BY <2>1, ValueByByte
  <2>4. QED
    BY <2>1, <2>2, <2>3
<1>7. QED
  BY <1>2, <1>3, <1>4, <1>5, <1>6 DEF IsValue

\* The values that are made of the values in V.
ValuesOver(t, V) == {p \in Spans(t) : IsValue(t, V, p[1], p[2])}

\* The spans in ValuesOver are the values.
LEMMA ValueSpans ==
  ASSUME NEW t, NEW V, NEW a, NEW b
  PROVE  <<a, b>> \in ValuesOver(t, V)
           <=> a \in 1 .. Len(t) + 1 /\ b \in 1 .. Len(t) + 1 /\ IsValue(t, V, a, b)
<1> DEFINE S(p) == IsValue(t, V, p[1], p[2])
<1>1. ValuesOver(t, V) = {p \in Spans(t) : S(p)}
  BY DEF ValuesOver
<1>2. S(<<a, b>>) <=> IsValue(t, V, a, b)
  OBVIOUS
<1> HIDE DEF S
<1>3. <<a, b>> \in Spans(t) <=> a \in 1 .. Len(t) + 1 /\ b \in 1 .. Len(t) + 1
  BY DEF Spans
<1>4. QED
  BY <1>1, <1>2, <1>3

\* Each depth of the grammar is made of the one below.
LEMMA ValuesByDepth ==
  ASSUME NEW t \in String
  PROVE  /\ Values(t)[0] = {}
         /\ \A d \in 1 .. Len(t) : Values(t)[d] = ValuesOver(t, Values(t)[d - 1])
<1> DEFINE n == Len(t)
           W(V) == ValuesOver(t, V)
           P(f) == f = [d \in 0 .. n |-> IF d = 0 THEN {} ELSE W(f[d - 1])]
           S == SUBSET Spans(t)
           g == [V \in S |-> W(V)]
<1>1. n \in Nat
  BY StringLength
<1>2. Values(t) = CHOOSE f : P(f)
  BY DEF Values, ValuesOver
<1>3. \A V : W(V) \in S
  BY DEF ValuesOver
<1> HIDE DEF W, S
<1>4. g \in Rounds(S) /\ {} \in S
  <2>1. {} \in S
    BY DEF S
  <2>2. QED
    BY <1>3, <2>1 DEF Rounds
<1>5. PICK f : IsLoop(f, S, g, {}, n)
  <2> HIDE DEF g, n
  <2>1. QED
    BY <1>1, <1>4, LoopExists
<1>6. P(f)
  <2>1. f \in [0 .. n -> S] /\ f[0] = {} /\ \A k \in 1 .. n : f[k] = g[f[k - 1]]
    BY <1>5 DEF IsLoop
  <2>2. ASSUME NEW k \in 1 .. n PROVE f[k] = W(f[k - 1])
    <3>1. f[k - 1] \in S
      BY <1>1, <2>1
    <3>2. QED
      BY <2>1, <3>1
  <2>3. \A k \in 0 .. n : f[k] = IF k = 0 THEN {} ELSE W(f[k - 1])
    <3>1. \A k \in 0 .. n : k # 0 => k \in 1 .. n
      BY <1>1
    <3>2. QED
      BY <2>1, <2>2, <3>1
  <2>4. f = [k \in 0 .. n |-> f[k]]
    BY <2>1
  <2>5. QED
    BY <2>3, <2>4
<1>7. P(Values(t))
  <2> HIDE DEF P
  <2>1. QED
    BY <1>2, <1>6
<1>8. \A d \in 0 .. n : Values(t)[d] = IF d = 0 THEN {} ELSE W(Values(t)[d - 1])
  BY <1>7
<1>9. Values(t)[0] = {} /\ \A d \in 1 .. n : Values(t)[d] = W(Values(t)[d - 1])
  BY <1>1, <1>8
<1>10. QED
  BY <1>9 DEF W

\* Containers that are nested less deep than d are read as the grammar has them.
LEMMA ValuesFit ==
  ASSUME NEW t \in String, NEW out \in BOOLEAN
  PROVE  \A d \in 0 .. Len(t) : Fits(t, Nested(t, out)[d], Values(t)[d])
<1> DEFINE n == Len(t)
           N == Nested(t, out)
           V == Values(t)
           p == [d \in 0 .. n |-> <<N[d], V[d]>>]
           Q == {q \in {p[k] : k \in 0 .. n} : Fits(t, q[1], q[2])}
<1>1. n \in Nat
  BY StringLength
<1>2. N[0] = Nothing(t) /\ \A d \in 1 .. n : N[d] = [i \in 1 .. n + 1 |-> ValueAt(t, N[d - 1], i, out)]
  <2> DEFINE x == IntoValues(t, out)
  <2>1. IsTurns(N, x, Nothing(t), n)
    BY NestedTurns
  <2>2. \A l : Turn(x, l) = [i \in 1 .. n + 1 |-> ValueAt(t, l, i, out)]
    BY DEF Turn, IntoValues
  <2> HIDE DEF x, N
  <2>3. N[0] = Nothing(t) /\ \A k \in 1 .. n : N[k] = Turn(x, N[k - 1])
    <3> DEFINE z == Nothing(t)
    <3>1. IsTurns(N, x, z, n)
      BY <2>1
    <3> HIDE DEF z, n
    <3>2. N[0] = z /\ \A k \in 1 .. n : N[k] = Turn(x, N[k - 1])
      BY <1>1, <3>1, TurnByTurn
    <3>3. QED
      BY <3>2 DEF z
  <2>4. QED
    BY <2>2, <2>3
<1>3. V[0] = {} /\ \A d \in 1 .. n : V[d] = ValuesOver(t, V[d - 1])
  BY ValuesByDepth
<1>4. \A d \in 0 .. n : Table(t, out, N[d])
  BY NestedSound
<1> HIDE DEF N, V
<1>5. Fits(t, N[0], V[0])
  <2>1. \A i \in 1 .. n + 1 : ~N[0][i].ok
    BY <1>2 DEF Nothing, Failed
  <2>2. \A i, j : <<i, j>> \notin V[0]
    BY <1>3
  <2>3. QED
    BY <2>1, <2>2 DEF Fits
<1>6. ASSUME NEW d \in 1 .. n, Fits(t, N[d - 1], V[d - 1]) PROVE Fits(t, N[d], V[d])
  <2> DEFINE inner == N[d - 1]
             spans == V[d - 1]
  <2>1. d - 1 \in 0 .. n
    BY <1>1
  <2>2. Table(t, out, inner) /\ Fits(t, inner, spans)
    BY <1>4, <1>6, <2>1
  <2>3. \A i \in 1 .. n + 1 : N[d][i] = ValueAt(t, inner, i, out)
    BY <1>2
  <2>4. V[d] = ValuesOver(t, spans)
    BY <1>3
  <2> HIDE DEF inner, spans
  <2>5. ASSUME NEW i \in 1 .. n + 1, N[d][i].ok
        PROVE  N[d][i].pos \in i + 1 .. n + 1 /\ <<i, N[d][i].pos>> \in V[d]
    <3> DEFINE v == ValueAt(t, inner, i, out)
    <3>1. N[d][i] = v /\ v.ok
      BY <2>3, <2>5
    <3>2. IsValue(t, spans, i, v.pos)
      BY <2>2, <3>1, ValueFound
    <3>3. Sound(t, i, out, v)
      BY <2>2, ValueSound
    <3> HIDE DEF v
    <3>4. v.pos \in i + 1 .. n + 1
      BY <3>1, <3>3 DEF Sound
    <3>5. v.pos \in 1 .. n + 1
      BY <1>1, <3>4
    <3>6. <<i, v.pos>> \in V[d]
      BY <2>4, <3>2, <3>5, ValueSpans
    <3>7. QED
      BY <3>1, <3>4, <3>6
  <2>6. ASSUME NEW i, NEW j, <<i, j>> \in V[d]
        PROVE  /\ i \in 1 .. n + 1 /\ j \in i + 1 .. n + 1 /\ At(t, i) \notin Follow
               /\ At(t, j) \in Follow => N[d][i].ok /\ N[d][i].pos = j
    <3>1. i \in 1 .. n + 1 /\ j \in 1 .. n + 1 /\ IsValue(t, spans, i, j)
      BY <2>4, <2>6, ValueSpans
    <3>2. /\ i < j /\ At(t, i) \notin Follow
          /\ At(t, j) \in Follow => ValueAt(t, inner, i, out).ok /\ ValueAt(t, inner, i, out).pos = j
      BY <2>2, <3>1, ValueRead
    <3>3. j \in i + 1 .. n + 1
      BY <1>1, <3>1, <3>2
    <3>4. QED
      BY <2>3, <3>1, <3>2, <3>3
  <2>7. QED
    BY <2>5, <2>6 DEF Fits
<1>7. p[0] \in Q
  <2>1. p[0] = <<N[0], V[0]>> /\ 0 \in 0 .. n
    BY <1>1
  <2>2. QED
    BY <1>5, <2>1
<1>8. ASSUME NEW k \in 1 .. n, p[k - 1] \in Q PROVE p[k] \in Q
  <2>1. k \in 0 .. n /\ k - 1 \in 0 .. n
    BY <1>1
  <2>2. p[k] = <<N[k], V[k]>> /\ p[k - 1] = <<N[k - 1], V[k - 1]>>
    BY <2>1
  <2>3. Fits(t, N[k - 1], V[k - 1])
    BY <1>8, <2>2
  <2>4. Fits(t, N[k], V[k])
    BY <1>6, <2>3
  <2>5. QED
    BY <2>1, <2>2, <2>4
<1>9. \A k \in 0 .. n : p[k] \in Q
  <2>1. n \in Nat
    BY <1>1
  <2> HIDE DEF Q, p, n
  <2>2. QED
    BY <1>7, <1>8, <2>1, LoopInvariant
<1>10. ASSUME NEW d \in 0 .. n PROVE Fits(t, N[d], V[d])
  <2>1. p[d] = <<N[d], V[d]>> /\ p[d] \in Q
    BY <1>9
  <2>2. QED
    BY <2>1
<1>11. QED
  BY <1>10 DEF N, V

\* AcceptsJson of every text: json_decode accepts exactly the texts that the
\* grammar of JSON has, however long they are and however deep their arrays and
\* objects are nested, and json_validate those that json_decode accepts.
THEOREM GrammarOfEveryText ==
  text \in String => AcceptsJson
<1>1. SUFFICES ASSUME text \in String PROVE AcceptsJson
  OBVIOUS
<1> DEFINE t == text
           n == Len(t)
           table == Nested(t, TRUE)[n]
           a == skip_space(t, 1)
           p == parse_value(t, a, TRUE)
<1>2. t \in String /\ n \in Nat
  BY <1>1, StringLength
<1>3. Fits(t, table, Values(t)[n])
  <2> DEFINE N == Nested(t, TRUE)
             V == Values(t)
  <2>1. \A d \in 0 .. n : Fits(t, N[d], V[d])
    BY <1>2, ValuesFit
  <2> HIDE DEF N, V
  <2>2. n \in 0 .. n
    BY <1>2
  <2>3. Fits(t, N[n], V[n])
    <3> HIDE DEF n
    <3>1. QED
      BY <2>1, <2>2
  <2>4. QED
    BY <2>3 DEF N, V
<1>4. p = table[a]
  BY DEF parse_value
<1>5. json_decode(t).ok <=> p.ok /\ At(t, skip_space(t, p.pos)) = 0
  <2>1. json_decode(t) = Alone(t, p, TRUE)
    BY DEF json_decode
  <2>2. a \in 1 .. n + 1
    BY <1>2, SkipSpacePlace
  <2> HIDE DEF p
  <2>3. CASE p.ok /\ At(t, skip_space(t, p.pos)) # 0
    <3>1. Alone(t, p, TRUE) = Failed(p.live - Held(p.val, TRUE), p.over)
      BY <2>3 DEF Alone
    <3>2. \A x, y : ~Failed(x, y).ok
      BY DEF Failed
    <3>3. ~json_decode(t).ok
      BY <2>1, <3>1, <3>2
    <3>4. QED
      BY <2>3, <3>3
  <2>4. CASE ~(p.ok /\ At(t, skip_space(t, p.pos)) # 0)
    BY <2>1, <2>4 DEF Alone
  <2>5. QED
    BY <2>3, <2>4
<1> HIDE DEF table, p
<1>6. ASSUME p.ok, At(t, skip_space(t, p.pos)) = 0 PROVE IsJson(t)
  <2>1. 1 \in 1 .. n + 1
    BY <1>2
  <2>2. PICK j \in 1 + 1 .. n + 1 : j = skip_space(t, p.pos) /\ Padded(t, Values(t)[n], 1, j)
    BY <1>2, <1>3, <1>4, <1>6, <2>1, PaddedFound
  <2>3. j = n + 1
    <3>1. At(t, j) = 0 /\ j \in Int
      BY <1>2, <1>6, <2>2
    <3>2. j \notin 1 .. n
      BY <1>2, <3>1, ByteAt
    <3>3. QED
      BY <1>2, <2>2, <3>2
  <2>4. QED
    BY <2>2, <2>3 DEF IsJson
<1>7. ASSUME IsJson(t) PROVE p.ok /\ At(t, skip_space(t, p.pos)) = 0
  <2>1. 1 \in 1 .. n + 1 /\ n + 1 \in 1 .. n + 1 /\ n + 1 \notin 1 .. n /\ n + 1 \in Int
    BY <1>2
  <2>2. At(t, n + 1) = 0
    BY <1>2, <2>1, ByteAt
  <2>3. At(t, n + 1) \in Stops
    BY <2>2 DEF Stops
  <2>4. Padded(t, Values(t)[n], 1, n + 1)
    BY <1>7 DEF IsJson
  <2>5. table[a].ok /\ skip_space(t, table[a].pos) = n + 1
    BY <1>2, <1>3, <2>1, <2>3, <2>4, PaddedRead
  <2>6. QED
    BY <1>4, <2>2, <2>5
<1>8. json_decode(t).ok <=> IsJson(t)
  BY <1>5, <1>6, <1>7
<1>9. json_validate(t).ok <=> json_decode(t).ok
  BY <1>2, ValidateAgrees
<1>10. QED
  BY <1>8, <1>9 DEF AcceptsJson
=============================================================================
