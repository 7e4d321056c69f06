----------------------------- MODULE PmtBundle -----------------------------
(***************************************************************************)
(* The three 32-bit words of a PMT bundle: what the macros of pkt_utils.h  *)
(* unpack for the monitor, and what packetgenerator.c unpacks for itself.  *)
(*                                                                         *)
(* A word is a natural number below 2^32.  A shift by n bits is a division *)
(* by 2^n, a mask of the n lowest bits the remainder modulo 2^n, and the   *)
(* `|' of numbers without a common bit their sum.                          *)
(***************************************************************************)
EXTENDS Integers

IsWord(w)   == w \in Nat /\ w < 4294967296
IsBundle(a) == IsWord(a[1]) /\ IsWord(a[2]) /\ IsWord(a[3])

--------------------------------------------------------------------------
\* The monitor.

UNPK_CHANNEL_ID(a) == (a[1] \div 65536) % 32
UNPK_BOARD_ID(a)   == (a[1] \div 67108864) % 16
UNPK_CRATE_ID(a)   == (a[1] \div 2097152) % 32

\* parse_xl3's data->pmt
Tube(a) == 512 * UNPK_CRATE_ID(a) + 32 * UNPK_BOARD_ID(a) + UNPK_CHANNEL_ID(a)

\* Twelve bits, of which the highest is inverted.
Charge(h) == IF (h \div 2048) % 2 = 1 THEN h % 2048 ELSE (h % 2048) + 2048

UNPK_QLX(a) == Charge(a[2])
UNPK_QHS(a) == Charge(a[2] \div 65536)
UNPK_QHL(a) == Charge(a[3])

UNPK_FEC_GT24_ID(a) ==
  (a[1] % 65536) + 65536 * (((16 * a[3]) \div 65536) % 16)
    + 1048576 * (((a[3] \div 256) \div 1048576) % 16)

--------------------------------------------------------------------------
\* The generator: pmtbundle_pmtid, pmtbundle_gtid, and the names that main
\* computes itself, with the mask in front of the shift.

get_bits(x, unit, range) == (x \div unit) % range

pmtbundle_pmtid(a) ==
  512 * get_bits(a[1], 2097152, 32) + 32 * get_bits(a[1], 67108864, 16) + get_bits(a[1], 65536, 32)

pmtbundle_gtid(a) ==
  get_bits(a[1], 1, 65536) + 65536 * get_bits(a[3], 4096, 16) + 1048576 * get_bits(a[3], 268435456, 16)

crate(a)   == (a[1] % 67108864) \div 2097152
card(a)    == (a[1] % 1073741824) \div 67108864
channel(a) == (a[1] % 2097152) \div 65536
chan_id(a) == 16 * 32 * crate(a) + 32 * card(a) + channel(a)

=============================================================================
