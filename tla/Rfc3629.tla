------------------------------ MODULE Rfc3629 ------------------------------
(***************************************************************************)
(* What the character functions of Utf8 are measured by: UTF-8 as RFC 3629 *)
(* defines it, for the bytes of a text.                                    *)
(***************************************************************************)
EXTENDS Utf8

VARIABLE text               \* the bytes of a C string, without the final 0

LeadLength(b) == IF b <= 127 THEN 1
                 ELSE IF b <= 191 THEN 0
                 ELSE IF b <= 223 THEN 2
                 ELSE IF b <= 239 THEN 3
                 ELSE IF b <= 247 THEN 4 ELSE 0

\* The number in the bits of c that neither announce nor mark a continuation.
Payload(c) ==
  IF Len(c) = 1 THEN c[1]
  ELSE IF Len(c) = 2 THEN 64 * (c[1] - 192) + (c[2] - 128)
  ELSE IF Len(c) = 3 THEN 4096 * (c[1] - 224) + 64 * (c[2] - 128) + (c[3] - 128)
  ELSE 262144 * (c[1] - 240) + 4096 * (c[2] - 128) + 64 * (c[3] - 128) + (c[4] - 128)

Least == <<0, 128, 2048, 65536>>        \* the first number that needs so many bytes

\* A lead byte that announces the continuation bytes, the shortest form, and a
\* code point that is no surrogate.
IsUtf8Char(c) ==
  /\ Len(c) \in 1 .. 4 /\ LeadLength(c[1]) = Len(c)
  /\ \A k \in 2 .. Len(c) : c[k] \in 128 .. 191
  /\ Payload(c) >= Least[Len(c)] /\ IsCodePoint(Payload(c))

Piece(s, i, n)   == SubSeq(s, i, i + n - 1)
Utf8At(s, i, n)  == 1 <= i /\ i + n - 1 <= Len(s) /\ IsUtf8Char(Piece(s, i, n))

\* Every byte belongs to a character.
IsUtf8(s) == \A j \in DOMAIN s : \E n \in 1 .. 4 : \E i \in (j - n + 1) .. j : Utf8At(s, i, n)

\* utf8_validate accepts exactly the UTF-8 of RFC 3629; wherever in a text a
\* character is, utf8_validate_cz returns its length, and utf8_read_char its
\* code point.
Utf8IsRfc3629 ==
  /\ utf8_validate(text) <=> IsUtf8(text)
  /\ \A i \in DOMAIN text, n \in 1 .. 4 :
       IF Utf8At(text, i, n)
       THEN utf8_validate_cz(text, i) = n /\ utf8_read_char(text, i) = Payload(Piece(text, i, n))
       ELSE utf8_validate_cz(text, i) # n
=============================================================================
