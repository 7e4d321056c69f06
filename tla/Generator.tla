----------------------------- MODULE Generator -----------------------------
(***************************************************************************)
(* packetgenerator.c: it replays recorded events through the readout of    *)
(* the detector.  Hits go from the event file into the analog memory of    *)
(* their channel, from there, by the sequencer of a card, into the FIFO of *)
(* the card, from there into the memory of the crate's XL3, and from there *)
(* into the packets of the crate's file.  How far each stage gets in one   *)
(* turn of the main loop is random; `done` counts the stages that are      *)
(* drained, 0 to 4.  A step is an iteration of the loop of a stage.        *)
(*                                                                         *)
(* The three memories are rings of which none looks before it overwrites.  *)
(* A bundle is its channel and its gtid, the number of the event; an event *)
(* hits a channel at most once.  One crate: each has arrays of its own.    *)
(***************************************************************************)
EXTENDS Integers, Sequences, FiniteSets

CONSTANTS
  Cards, Chans,     \* cards of the crate, channels of a card
  PER_CHANNEL, PER_FEC, PER_CRATE,    \* sizes of the rings
  MEGASIZE,         \* bundles of a packet
  PER_READ,         \* bundles the XL3 takes from a card at a time
  MaxBurst,         \* events read in a turn, at most
  MaxReads,         \* channels a sequencer looks at in a turn, at most
  MaxSlots,         \* cards an XL3 looks at in a turn, at most
  Files             \* the event files: sequences of sets of <<card, channel>>

ASSUME GeneratorAssumption ==
  /\ {Cards, Chans, PER_CHANNEL, PER_FEC, PER_CRATE, MEGASIZE, PER_READ,
      MaxBurst, MaxReads, MaxSlots} \subseteq Nat \ {0}
  /\ \A f \in Files : f \in Seq(SUBSET ((0 .. Cards - 1) \X (0 .. Chans - 1)))

Card    == 0 .. Cards - 1
Chan    == 0 .. Chans - 1
Channel == Card \X Chan

VARIABLES
  file,        \* the events of INPUT_FILE
  gtid,        \* history: how many of them are read
  channels,    \* the ring of each channel: creadptr, cwriteptr and the bundles
  fecs,        \* the ring of each card
  sequencer,   \* for each card, the channel its sequencer is at
  xl3,         \* the ring of the crate: xwriteptr wraps, xreadptr does not
  current_slot, data_avail,
  packets,     \* the output: a sequence of packets, sequences of bundles
  done,
  stage,       \* the loop the program is in; "crashed" behind the end of xl3
  ifec,        \* the card of the sequencer's loop
  rounds,      \* iterations of the stage's loop so far
  taken,       \* bundles taken from the card the XL3 is at
  overrun      \* history: a write met the read pointer of its ring

vars == <<file, gtid, channels, fecs, sequencer, xl3, current_slot, data_avail, packets,
          done, stage, ifec, rounds, taken, overrun>>

--------------------------------------------------------------------------
\* Rings.

Hit(c, g)       == [channel |-> c, gtid |-> g]
EmptyRing(size) == [read |-> 0, write |-> 0, slots |-> [k \in 0 .. size - 1 |-> Hit(<<0, 0>>, 0)]]
IsDrained(r)    == r.read = r.write
Oldest(r)       == r.slots[r.read]

\* Mutant: the write pointer wraps one slot early.
StoredEarly(r, x, size) ==
  [r EXCEPT !.slots[r.write] = x, !.write = IF @ + 2 = size THEN 0 ELSE @ + 1]

Stored(r, x, size) ==
  [r EXCEPT !.slots[r.write] = x, !.write = IF @ + 1 = size THEN 0 ELSE @ + 1]

Removed(r, size) == [r EXCEPT !.read = IF @ + 1 = size THEN 0 ELSE @ + 1]

\* Mutant: the last channel decides whether the channels are drained.
DrainedLast(rings) == IsDrained(rings[CHOOSE k \in DOMAIN rings : TRUE])

Drained(rings) == \A k \in DOMAIN rings : IsDrained(rings[k])

--------------------------------------------------------------------------
Init ==
  /\ file \in Files /\ gtid = 0
  /\ channels = [c \in Channel |-> EmptyRing(PER_CHANNEL)]
  /\ fecs = [f \in Card |-> EmptyRing(PER_FEC)]
  /\ sequencer = [f \in Card |-> 0]
  /\ xl3 = EmptyRing(PER_CRATE) /\ current_slot = 0 /\ data_avail = {}
  /\ packets = <<>> /\ done = 0 /\ stage = "read"
  /\ ifec = 0 /\ rounds = 0 /\ taken = 0 /\ overrun = FALSE

\* An event goes to the channels it hits; the end of the file is met when it is
\* read past.
ReadEvent ==
  /\ stage = "read" /\ done = 0 /\ rounds < MaxBurst
  /\ rounds' = rounds + 1
  /\ IF gtid = Len(file) THEN done' = 1 /\ UNCHANGED <<gtid, channels, overrun>>
     ELSE /\ gtid' = gtid + 1
          /\ channels' = [c \in Channel |->
               IF c \in file[gtid'] THEN Stored(channels[c], Hit(c, gtid'), PER_CHANNEL)
               ELSE channels[c]]
          /\ overrun' = (overrun \/ \E c \in file[gtid'] : IsDrained(channels'[c]))
          /\ UNCHANGED done
  /\ UNCHANGED <<file, fecs, sequencer, xl3, current_slot, data_avail, packets, stage, ifec, taken>>

EndRead ==
  /\ stage = "read" /\ (rounds > 0 \/ done # 0)
  /\ stage' = "sequence" /\ rounds' = 0
  /\ UNCHANGED <<file, gtid, channels, fecs, sequencer, xl3, current_slot, data_avail, packets,
                 done, ifec, taken, overrun>>

\* Mutant: the sequencer takes what a drained channel holds.
HasDataAlways(r) == TRUE

HasData(r) == ~IsDrained(r)

\* One look of the sequencer of card ifec.
ReadChannel ==
  /\ stage = "sequence" /\ done < 2 /\ rounds < MaxReads
  /\ LET c == <<ifec, sequencer[ifec]>>
     IN  IF HasData(channels[c])
         THEN /\ fecs' = [fecs EXCEPT ![ifec] = Stored(@, Oldest(channels[c]), PER_FEC)]
              /\ channels' = [channels EXCEPT ![c] = Removed(@, PER_CHANNEL)]
              /\ overrun' = (overrun \/ IsDrained(fecs'[ifec]))
         ELSE UNCHANGED <<fecs, channels, overrun>>
  /\ sequencer' = [sequencer EXCEPT ![ifec] = (@ + 1) % Chans]
  /\ rounds' = rounds + 1
  /\ UNCHANGED <<file, gtid, xl3, current_slot, data_avail, packets, done, stage, ifec, taken>>

NextFec ==
  /\ stage = "sequence" /\ done < 2 /\ rounds > 0 /\ ifec + 1 < Cards
  /\ ifec' = ifec + 1 /\ rounds' = 0
  /\ UNCHANGED <<file, gtid, channels, fecs, sequencer, xl3, current_slot, data_avail, packets,
                 done, stage, taken, overrun>>

EndSequence ==
  /\ stage = "sequence" /\ (done >= 2 \/ (rounds > 0 /\ ifec + 1 = Cards))
  /\ done' = IF done = 1 /\ Drained(channels) THEN 2 ELSE done
  /\ stage' = "scan" /\ ifec' = 0 /\ rounds' = 0
  /\ UNCHANGED <<file, gtid, channels, fecs, sequencer, xl3, current_slot, data_avail, packets,
                 taken, overrun>>

\* Mutant: the scan of the memories leaves the first card out.
WithDataAfterFirst == {f \in Card : f > 0 /\ ~IsDrained(fecs[f])}

WithData == {f \in Card : ~IsDrained(fecs[f])}

NextSlot == current_slot' = (current_slot + 1) % Cards /\ rounds' = rounds + 1

\* The XL3 at one card; at the first one it looks again which have data.
ScanSlot ==
  /\ stage = "scan" /\ done < 3 /\ rounds < MaxSlots
  /\ data_avail' = IF current_slot = 0 THEN WithData ELSE data_avail
  /\ IF current_slot \in data_avail' THEN stage' = "take" /\ UNCHANGED <<current_slot, rounds>>
     ELSE NextSlot /\ UNCHANGED stage
  /\ UNCHANGED <<file, gtid, channels, fecs, sequencer, xl3, packets, done, ifec, taken, overrun>>

TakeBundle ==
  /\ stage = "take" /\ taken < PER_READ /\ ~IsDrained(fecs[current_slot])
  /\ xl3' = Stored(xl3, Oldest(fecs[current_slot]), PER_CRATE)
  /\ fecs' = [fecs EXCEPT ![current_slot] = Removed(@, PER_FEC)]
  /\ overrun' = (overrun \/ IsDrained(xl3'))
  /\ taken' = taken + 1
  /\ UNCHANGED <<file, gtid, channels, sequencer, current_slot, data_avail, packets, done, stage,
                 ifec, rounds>>

\* A card that is found empty is not available any more.
EndTake ==
  /\ stage = "take" /\ (taken = PER_READ \/ IsDrained(fecs[current_slot]))
  /\ data_avail' = IF taken < PER_READ THEN data_avail \ {current_slot} ELSE data_avail
  /\ NextSlot /\ stage' = "scan" /\ taken' = 0
  /\ UNCHANGED <<file, gtid, channels, fecs, sequencer, xl3, packets, done, ifec, overrun>>

EndScan ==
  /\ stage = "scan" /\ (rounds > 0 \/ done >= 3)
  /\ done' = IF done = 2 /\ Drained(fecs) THEN 3 ELSE done
  /\ stage' = "write" /\ rounds' = 0
  /\ UNCHANGED <<file, gtid, channels, fecs, sequencer, xl3, current_slot, data_avail, packets,
                 ifec, taken, overrun>>

\* A packet has MEGASIZE bundles, or what is left.
WritePacket ==
  /\ stage = "write" /\ xl3.read < xl3.write
  /\ LET left == xl3.write - xl3.read
         num_bundles == IF left < MEGASIZE THEN left ELSE MEGASIZE
     IN  /\ packets' = Append(packets, [k \in 1 .. num_bundles |-> xl3.slots[xl3.read + k - 1]])
         /\ xl3' = [xl3 EXCEPT !.read = @ + num_bundles]
  /\ UNCHANGED <<file, gtid, channels, fecs, sequencer, current_slot, data_avail, done, stage,
                 ifec, rounds, taken, overrun>>

\* The pointer that reads xl3 does not wrap: when the other one has, it leaves the
\* array.
LeaveArray ==
  /\ stage = "write" /\ xl3.write < xl3.read
  /\ stage' = "crashed"
  /\ UNCHANGED <<file, gtid, channels, fecs, sequencer, xl3, current_slot, data_avail, packets,
                 done, ifec, rounds, taken, overrun>>

EndWrite ==
  /\ stage = "write" /\ IsDrained(xl3)
  /\ done' = IF done = 3 THEN 4 ELSE done
  /\ stage' = IF done = 3 THEN "end" ELSE "read"
  /\ UNCHANGED <<file, gtid, channels, fecs, sequencer, xl3, current_slot, data_avail, packets,
                 ifec, rounds, taken, overrun>>

Next ==
  \/ ReadEvent \/ EndRead
  \/ ReadChannel \/ NextFec \/ EndSequence
  \/ ScanSlot \/ TakeBundle \/ EndTake \/ EndScan
  \/ WritePacket \/ LeaveArray \/ EndWrite

Spec == Init /\ [][Next]_vars /\ WF_vars(Next)

--------------------------------------------------------------------------
\* Properties.

\* What a ring has between its pointers, oldest first.
Fill(r, size) == IF r.read <= r.write THEN r.write - r.read ELSE r.write - r.read + size
Held(r, size) ==
  [k \in 1 .. Fill(r, size) |->
     r.slots[IF r.read + k <= size THEN r.read + k - 1 ELSE r.read + k - 1 - size]]

\* The way of a channel's hits, from the end: the packets and the three memories.
Way(c) ==
  packets \o <<Held(xl3, PER_CRATE), Held(fecs[c[1]], PER_FEC), Held(channels[c], PER_CHANNEL)>>

\* The hits of a sequence, those of a sequence of sequences, and the events of
\* those of channel c.
Elems(s)        == {s[n] : n \in DOMAIN s}
Hits(seqs)      == UNION {Elems(seqs[k]) : k \in DOMAIN seqs}
Events(c, seqs) == {h.gtid : h \in {x \in Hits(seqs) : x.channel = c}}

Recorded(c) == {g \in 1 .. gtid : c \in file[g]}

\* A hit is before another one on the way.
Earlier(k, m, l, n) == k < l \/ (k = l /\ m < n)

\* The bundles of a channel keep the order of their events through all the
\* memories, at whatever pace these are read, and even when a ring is overrun:
\* what the generator's own "out of order" checks look for.
ChannelsInOrder ==
  \A c \in Channel :
    LET way == Way(c)
    IN  \A k, l \in DOMAIN way : \A m \in DOMAIN way[k], n \in DOMAIN way[l] :
          way[k][m].channel = c /\ way[l][n].channel = c /\ Earlier(k, m, l, n)
            => way[k][m].gtid < way[l][n].gtid

\* As long as no ring has been overrun, every hit that was read is somewhere on
\* its way, and nothing else is.
NothingLost == ~overrun => \A c \in Channel : Events(c, Way(c)) = Recorded(c)

\* When the generator ends without an overrun the packets have every hit of the
\* file: `done` does not run ahead of any memory.
DoneMeansWritten ==
  stage = "end" =>
    /\ gtid = Len(file)
    /\ ~overrun => \A c \in Channel : Events(c, packets) = Recorded(c)

\* The XL3's array is only left when the file has at least as many hits as it
\* has room for.
CrashNeedsManyHits ==
  stage = "crashed" =>
    Cardinality({h \in Channel \X (1 .. gtid) : h[1] \in file[h[2]]}) >= PER_CRATE

\* The main loop ends: every memory is drained, however few channels and cards
\* are looked at in a turn.
Terminates == <>(stage \in {"end", "crashed"})
=============================================================================
