-------------------------------- MODULE Utf8 --------------------------------
(***************************************************************************)
(* The character functions of lib/json/json.c: UTF-8, UTF-16 surrogate     *)
(* pairs, four hexadecimal digits.  A string is a sequence of bytes; what  *)
(* lies behind its end reads as the 0 that terminates it.                  *)
(***************************************************************************)
EXTENDS Integers, Sequences

IsSurrogate(u) == 55296 <= u /\ u <= 57343               \* U+D800 .. U+DFFF
IsCodePoint(u) == u \in Nat /\ u <= 1114111 /\ ~IsSurrogate(u)

At(s, i) == IF i \in DOMAIN s THEN s[i] ELSE 0

Continues(b) == 128 <= b /\ b <= 191                     \* (b & 0xC0) == 0x80

\* Mutant: surrogates are let through.
utf8_validate_czSurrogates(s, i) ==
  LET c == At(s, i) c1 == At(s, i + 1) c2 == At(s, i + 2) c3 == At(s, i + 3)
  IN  IF c <= 127 THEN 1
      ELSE IF 194 <= c /\ c <= 223 /\ Continues(c1) THEN 2
      ELSE IF /\ 224 <= c /\ c <= 239 /\ Continues(c1) /\ Continues(c2)
              /\ ~(c = 224 /\ c1 < 160) THEN 3
      ELSE IF /\ 240 <= c /\ c <= 244 /\ Continues(c1) /\ Continues(c2) /\ Continues(c3)
              /\ ~(c = 240 /\ c1 < 144) /\ ~(c = 244 /\ c1 > 143) THEN 4
      ELSE 0

\* The length of the character at i, or 0.
utf8_validate_cz(s, i) ==
  LET c == At(s, i) c1 == At(s, i + 1) c2 == At(s, i + 2) c3 == At(s, i + 3)
  IN  IF c <= 127 THEN 1
      ELSE IF 194 <= c /\ c <= 223 /\ Continues(c1) THEN 2
      ELSE IF /\ 224 <= c /\ c <= 239 /\ Continues(c1) /\ Continues(c2)
              /\ ~(c = 224 /\ c1 < 160) /\ ~(c = 237 /\ c1 > 159) THEN 3
      ELSE IF /\ 240 <= c /\ c <= 244 /\ Continues(c1) /\ Continues(c2) /\ Continues(c3)
              /\ ~(c = 240 /\ c1 < 144) /\ ~(c = 244 /\ c1 > 143) THEN 4
      ELSE 0

\* The place where the loop of utf8_validate is after k characters.
ValidPlace(s) ==
  LET at[k \in 0 .. Len(s)] ==
        IF k = 0 THEN 1
        ELSE LET i == at[k - 1] IN IF i > Len(s) THEN i ELSE i + utf8_validate_cz(s, i)
  IN  at
utf8_validate(s) == ValidPlace(s)[Len(s)] > Len(s)

\* The code point of the character at i, which has to be valid.
utf8_read_char(s, i) ==
  LET c == At(s, i) c1 == At(s, i + 1) % 64 c2 == At(s, i + 2) % 64 c3 == At(s, i + 3) % 64
  IN  IF c <= 127 THEN c
      ELSE IF c <= 223 THEN (c % 32) * 64 + c1
      ELSE IF c <= 239 THEN (c % 16) * 4096 + c1 * 64 + c2
      ELSE (c % 8) * 262144 + c1 * 4096 + c2 * 64 + c3

utf8_write_char(u) ==
  IF u <= 127 THEN <<u>>
  ELSE IF u <= 2047 THEN <<192 + u \div 64, 128 + (u % 64)>>
  ELSE IF u <= 65535 THEN <<224 + u \div 4096, 128 + ((u \div 64) % 64), 128 + (u % 64)>>
  ELSE <<240 + u \div 262144, 128 + ((u \div 4096) % 64), 128 + ((u \div 64) % 64), 128 + (u % 64)>>

IsPair(uc, lc)              == 55296 <= uc /\ uc <= 56319 /\ 56320 <= lc /\ lc <= 57343
from_surrogate_pair(uc, lc) == 65536 + (uc % 1024) * 1024 + (lc % 1024)
to_surrogate_pair(u) ==
  <<55296 + (((u - 65536) \div 1024) % 1024), 56320 + ((u - 65536) % 1024)>>

HexDigit(d) == IF d < 10 THEN 48 + d ELSE 55 + d
IsHex(c)    == c \in (48 .. 57) \cup (65 .. 70) \cup (97 .. 102)
HexValue(c) == IF c <= 57 THEN c - 48 ELSE IF c <= 70 THEN c - 55 ELSE c - 87

write_hex16(v) ==
  <<HexDigit(v \div 4096), HexDigit((v \div 256) % 16), HexDigit((v \div 16) % 16), HexDigit(v % 16)>>

\* The four digits at i, if IsHex16.
IsHex16(s, i)     == \A k \in 0 .. 3 : IsHex(At(s, i + k))
parse_hex16(s, i) ==
  HexValue(At(s, i)) * 4096 + HexValue(At(s, i + 1)) * 256
    + HexValue(At(s, i + 2)) * 16 + HexValue(At(s, i + 3))
=============================================================================
