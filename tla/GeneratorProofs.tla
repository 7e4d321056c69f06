-------------------------- MODULE GeneratorProofs --------------------------
(***************************************************************************)
(* Proofs about the generator, for memories of any size, any number of     *)
(* cards and channels, any event files and any pace of the stages; and     *)
(* about the words of a PMT bundle, in which it and the monitor read the   *)
(* same numbers.                                                           *)
(***************************************************************************)
EXTENDS Generator, PmtBundle, FiniteSetTheorems, TLAPS

\* The hits of the file, and those that have been read.
HitType       == [channel : Channel, gtid : Nat]
IsRecorded(h) == h.gtid \in 1 .. gtid /\ h.channel \in file[h.gtid]

Ring(size) == [read : 0 .. size - 1, write : 0 .. size - 1, slots : [0 .. size - 1 -> HitType]]

\* Every variable has its type.
TypeOK ==
  /\ file \in Files /\ gtid \in 0 .. Len(file)
  /\ channels \in [Channel -> Ring(PER_CHANNEL)]
  /\ fecs \in [Card -> Ring(PER_FEC)]
  /\ xl3 \in Ring(PER_CRATE)
  /\ sequencer \in [Card -> Chan]
  /\ current_slot \in Card /\ data_avail \in SUBSET Card
  /\ packets \in Seq(Seq(HitType))
  /\ done \in 0 .. 4
  /\ stage \in {"read", "sequence", "scan", "take", "write", "end", "crashed"}
  /\ ifec \in Card
  /\ rounds \in Nat /\ taken \in Nat
  /\ overrun \in BOOLEAN

\* The contents of the memories, and of the packets.
InChannel(c) == Elems(Held(channels[c], PER_CHANNEL))
InFec(f)     == Elems(Held(fecs[f], PER_FEC))
InXl3        == Elems(Held(xl3, PER_CRATE))
InPackets    == Hits(packets)

\* The hits of a channel are in order: in a sequence, and between two sets.
Increasing(s) ==
  \A m, n \in DOMAIN s : m < n /\ s[m].channel = s[n].channel => s[m].gtid < s[n].gtid
Before(A, B) == \A a \in A, b \in B : a.channel = b.channel => a.gtid < b.gtid

\* Each memory is in order.
RingsInOrder ==
  /\ Increasing(Held(xl3, PER_CRATE))
  /\ \A f \in Card : Increasing(Held(fecs[f], PER_FEC))
  /\ \A c \in Channel : Increasing(Held(channels[c], PER_CHANNEL))

\* So are the packets, each of them and one after the other.
PacketsInOrder ==
  /\ \A k \in DOMAIN packets : Increasing(packets[k])
  /\ \A k, l \in DOMAIN packets : k < l => Before(Elems(packets[k]), Elems(packets[l]))

\* What has come further is older.
Ahead(A) ==
  /\ \A f \in Card : Before(A, InFec(f))
  /\ \A c \in Channel : Before(A, InChannel(c))

StagesInOrder ==
  /\ Before(InPackets, InXl3)
  /\ Ahead(InPackets) /\ Ahead(InXl3)
  /\ \A c \in Channel, f \in Card : Before(InFec(f), InChannel(c))

\* A hit is where its channel and its card are, and has been read.
HitsBelong ==
  /\ \A h \in InPackets \cup InXl3 : h \in HitType /\ IsRecorded(h)
  /\ \A f \in Card : \A h \in InFec(f) : h \in HitType /\ IsRecorded(h) /\ h.channel[1] = f
  /\ \A c \in Channel : \A h \in InChannel(c) : h \in HitType /\ IsRecorded(h) /\ h.channel = c

\* Without an overrun every hit that was read is somewhere.
HitsAreKept ==
  ~overrun => \A c \in Channel : \A g \in Recorded(c) :
    Hit(c, g) \in InPackets \cup InXl3 \cup InFec(c[1]) \cup InChannel(c)

\* `done' is right about the memories.
DoneIsRight ==
  /\ done >= 1 => gtid = Len(file)
  /\ done >= 2 => \A c \in Channel : IsDrained(channels[c])
  /\ done >= 3 => \A f \in Card : IsDrained(fecs[f])
  /\ stage = "end" => done = 4 /\ IsDrained(xl3)
  /\ stage # "end" => done <= 3

\* The memory of the XL3 has every hit it was ever given, or there are many.
RecordedHits == {h \in Channel \X (1 .. gtid) : h[1] \in file[h[2]]}
ManyHits     == Cardinality(RecordedHits) >= PER_CRATE

EverInXl3 == [k \in 1 .. xl3.write |-> xl3.slots[k - 1]]

Xl3HasAll ==
  /\ xl3.read <= xl3.write
  /\ Increasing(EverInXl3)
  /\ \A h \in Elems(EverInXl3) : h \in HitType /\ IsRecorded(h)
  /\ Ahead(Elems(EverInXl3))

WrapNeedsManyHits == (Xl3HasAll \/ ManyHits) /\ (stage = "crashed" => ManyHits)

IInv ==
  /\ TypeOK
  /\ RingsInOrder /\ PacketsInOrder /\ StagesInOrder
  /\ HitsBelong /\ HitsAreKept
  /\ DoneIsRight /\ WrapNeedsManyHits

-----------------------------------------------------------------------------
(* Rings. *)

\* The sizes are numbers, and not zero.
LEMMA Sizes ==
  /\ Cards \in Nat \ {0} /\ Chans \in Nat \ {0}
  /\ PER_CHANNEL \in Nat \ {0} /\ PER_FEC \in Nat \ {0} /\ PER_CRATE \in Nat \ {0}
  /\ MEGASIZE \in Nat \ {0}
BY GeneratorAssumption

\* Where things are in a ring.
LEMMA RingFields ==
  ASSUME NEW size \in Nat \ {0}, NEW r \in Ring(size)
  PROVE  /\ r.read \in 0 .. size - 1 /\ r.write \in 0 .. size - 1
         /\ r.slots \in [0 .. size - 1 -> HitType]
         /\ r = [read |-> r.read, write |-> r.write, slots |-> r.slots]
         /\ Fill(r, size) \in 0 .. size - 1
         /\ DOMAIN Held(r, size) = 1 .. Fill(r, size)
         /\ IsDrained(r) <=> Fill(r, size) = 0
<1>1. /\ r.read \in 0 .. size - 1 /\ r.write \in 0 .. size - 1
      /\ r.slots \in [0 .. size - 1 -> HitType]
      /\ r = [read |-> r.read, write |-> r.write, slots |-> r.slots]
  BY DEF Ring
<1>2. Fill(r, size) \in 0 .. size - 1 /\ (IsDrained(r) <=> Fill(r, size) = 0)
  BY <1>1 DEF Fill, IsDrained
<1>3. QED
  BY <1>1, <1>2 DEF Held

\* The slot of the k-th bundle.
LEMMA HeldAt ==
  ASSUME NEW size \in Nat \ {0}, NEW r \in Ring(size), NEW k \in 1 .. Fill(r, size)
  PROVE  /\ Held(r, size)[k] = r.slots[IF r.read + k <= size THEN r.read + k - 1
                                       ELSE r.read + k - 1 - size]
         /\ Held(r, size)[k] \in HitType
<1>1. Held(r, size)[k] = r.slots[IF r.read + k <= size THEN r.read + k - 1
                                 ELSE r.read + k - 1 - size]
  BY DEF Held
<1>2. (IF r.read + k <= size THEN r.read + k - 1 ELSE r.read + k - 1 - size) \in 0 .. size - 1
  BY RingFields
<1>3. QED
  BY <1>1, <1>2, RingFields

\* A bundle that is stored comes last; but a ring that becomes full looks empty.
LEMMA StoredHeld ==
  ASSUME NEW size \in Nat \ {0}, NEW r \in Ring(size), NEW x \in HitType,
         NEW s, s = Stored(r, x, size)
  PROVE  /\ s \in Ring(size) /\ s.read = r.read
         /\ ~IsDrained(s) =>
              /\ Fill(s, size) = Fill(r, size) + 1
              /\ Held(s, size)[Fill(s, size)] = x
              /\ \A k \in 1 .. Fill(r, size) : Held(s, size)[k] = Held(r, size)[k]
<1>1. /\ r.read \in 0 .. size - 1 /\ r.write \in 0 .. size - 1
      /\ r.slots \in [0 .. size - 1 -> HitType]
      /\ r = [read |-> r.read, write |-> r.write, slots |-> r.slots]
      /\ Fill(r, size) \in 0 .. size - 1
  BY RingFields
<1>2. /\ s.read = r.read
      /\ s.write = IF r.write + 1 = size THEN 0 ELSE r.write + 1
      /\ s.slots = [r.slots EXCEPT ![r.write] = x]
      /\ s = [read |-> s.read, write |-> s.write, slots |-> s.slots]
  BY <1>1 DEF Stored
<1>3. s \in Ring(size)
  BY <1>1, <1>2 DEF Ring
<1>4. ASSUME ~IsDrained(s)
      PROVE  /\ Fill(s, size) = Fill(r, size) + 1
             /\ Held(s, size)[Fill(s, size)] = x
             /\ \A k \in 1 .. Fill(r, size) : Held(s, size)[k] = Held(r, size)[k]
  <2>1. Fill(s, size) = Fill(r, size) + 1
    <3>1. r.read # s.write
      BY <1>2, <1>4 DEF IsDrained
    <3>2. CASE r.write + 1 = size
      BY <1>1, <1>2, <3>1, <3>2 DEF Fill
    <3>3. CASE r.write + 1 # size
      <4>1. s.write = r.write + 1 /\ s.read = r.read /\ r.read # r.write + 1
        BY <1>2, <3>1, <3>3
      <4>2. r.read \in Int /\ r.write \in Int
        BY <1>1
      <4>3. CASE r.read <= r.write
        BY <4>1, <4>2, <4>3 DEF Fill
      <4>4. CASE ~(r.read <= r.write)
        BY <4>1, <4>2, <4>4 DEF Fill
      <4>5. QED
        BY <4>3, <4>4
    <3>4. QED
      BY <3>2, <3>3
  <2> DEFINE at(k) == IF r.read + k <= size THEN r.read + k - 1 ELSE r.read + k - 1 - size
  <2>2. \A k \in 1 .. Fill(r, size) : at(k) \in 0 .. size - 1 /\ at(k) # r.write
    BY <1>1 DEF Fill
  <2>3. at(Fill(r, size) + 1) = r.write
    BY <1>1 DEF Fill
  <2>4. ASSUME NEW k \in 1 .. Fill(s, size) PROVE Held(s, size)[k] = s.slots[at(k)]
    <3>1. Held(s, size)[k] = s.slots[IF s.read + k <= size THEN s.read + k - 1
                                     ELSE s.read + k - 1 - size]
      BY <1>3, HeldAt
    <3>2. QED
      BY <1>2, <3>1
  <2>5. \A k \in 1 .. Fill(r, size) : Held(r, size)[k] = r.slots[at(k)]
    BY HeldAt
  <2> HIDE DEF at
  <2>6. Held(s, size)[Fill(s, size)] = x
    BY <1>1, <1>2, <2>1, <2>3, <2>4
  <2>7. ASSUME NEW k \in 1 .. Fill(r, size) PROVE Held(s, size)[k] = Held(r, size)[k]
    <3>1. k \in 1 .. Fill(s, size)
      BY <1>1, <2>1
    <3>2. QED
      BY <1>1, <1>2, <2>2, <2>4, <2>5, <3>1
  <2>8. QED
    BY <2>1, <2>6, <2>7
<1>5. QED
  BY <1>2, <1>3, <1>4

\* The oldest bundle is removed.
LEMMA RemovedHeld ==
  ASSUME NEW size \in Nat \ {0}, NEW r \in Ring(size), ~IsDrained(r),
         NEW s, s = Removed(r, size)
  PROVE  /\ s \in Ring(size)
         /\ Fill(r, size) = Fill(s, size) + 1
         /\ Held(r, size)[1] = Oldest(r) /\ Oldest(r) \in HitType
         /\ \A k \in 1 .. Fill(s, size) : Held(s, size)[k] = Held(r, size)[k + 1]
<1>1. /\ r.read \in 0 .. size - 1 /\ r.write \in 0 .. size - 1
      /\ r.slots \in [0 .. size - 1 -> HitType]
      /\ r = [read |-> r.read, write |-> r.write, slots |-> r.slots]
      /\ Fill(r, size) \in 1 .. size - 1
  BY RingFields
<1>2. /\ s.write = r.write /\ s.slots = r.slots
      /\ s.read = IF r.read + 1 = size THEN 0 ELSE r.read + 1
      /\ s = [read |-> s.read, write |-> s.write, slots |-> s.slots]
  BY <1>1 DEF Removed
<1>3. s \in Ring(size)
  BY <1>1, <1>2 DEF Ring
<1>4. Fill(r, size) = Fill(s, size) + 1
  BY <1>1, <1>2 DEF Fill, IsDrained
<1>5. Held(r, size)[1] = Oldest(r) /\ Oldest(r) \in HitType
  BY <1>1, HeldAt DEF Oldest
<1>6. ASSUME NEW k \in 1 .. Fill(s, size) PROVE Held(s, size)[k] = Held(r, size)[k + 1]
  <2>1. k + 1 \in 1 .. Fill(r, size) /\ k \in Nat /\ 1 <= k /\ k + 1 <= size
    BY <1>1, <1>3, <1>4, RingFields
  <2>2. Held(r, size)[k + 1] = r.slots[IF r.read + (k + 1) <= size THEN r.read + (k + 1) - 1
                                       ELSE r.read + (k + 1) - 1 - size]
    BY <2>1, HeldAt
  <2>3. Held(s, size)[k] = s.slots[IF s.read + k <= size THEN s.read + k - 1
                                   ELSE s.read + k - 1 - size]
    BY <1>3, HeldAt
  <2>4. (IF r.read + (k + 1) <= size THEN r.read + (k + 1) - 1 ELSE r.read + (k + 1) - 1 - size)
          = (IF s.read + k <= size THEN s.read + k - 1 ELSE s.read + k - 1 - size)
    <3>1. CASE r.read + 1 = size
      <4>1. s.read = 0 /\ ~(r.read + (k + 1) <= size) /\ s.read + k <= size
        BY <1>1, <1>2, <2>1, <3>1
      <4>2. r.read + (k + 1) - 1 - size = s.read + k - 1
        BY <1>1, <2>1, <3>1, <4>1
      <4>3. QED
        BY <4>1, <4>2
    <3>2. CASE r.read + 1 # size
      <4>1. s.read = r.read + 1
        BY <1>2, <3>2
      <4>2. QED
        BY <1>1, <2>1, <4>1
    <3>3. QED
      BY <3>1, <3>2
  <2>5. QED
    BY <1>2, <2>2, <2>3, <2>4
<1>7. QED
  BY <1>3, <1>4, <1>5, <1>6

-----------------------------------------------------------------------------
(* Rings as sets that are in order. *)

\* What is in a ring is a hit.
LEMMA HeldElems ==
  ASSUME NEW size \in Nat \ {0}, NEW r \in Ring(size)
  PROVE  /\ Elems(Held(r, size)) = {Held(r, size)[k] : k \in 1 .. Fill(r, size)}
         /\ Elems(Held(r, size)) \subseteq HitType
         /\ IsDrained(r) => Elems(Held(r, size)) = {}
<1>1. Elems(Held(r, size)) = {Held(r, size)[k] : k \in 1 .. Fill(r, size)}
  BY RingFields DEF Elems
<1>2. Elems(Held(r, size)) \subseteq HitType
  BY <1>1, HeldAt
<1>3. ASSUME IsDrained(r) PROVE Elems(Held(r, size)) = {}
  <2>1. 1 .. Fill(r, size) = {}
    BY <1>3, RingFields
  <2>2. QED
    BY <1>1, <2>1
<1>4. QED
  BY <1>1, <1>2, <1>3

\* A newer hit that is stored keeps the order.
LEMMA StoredElems ==
  ASSUME NEW size \in Nat \ {0}, NEW r \in Ring(size), NEW x \in HitType,
         NEW s, s = Stored(r, x, size),
         Increasing(Held(r, size)), Before(Elems(Held(r, size)), {x})
  PROVE  /\ s \in Ring(size) /\ Increasing(Held(s, size))
         /\ Elems(Held(s, size)) \subseteq Elems(Held(r, size)) \cup {x}
         /\ ~IsDrained(s) => Elems(Held(r, size)) \cup {x} \subseteq Elems(Held(s, size))
<1>0. s \in Ring(size)
  BY StoredHeld
<1>1. CASE IsDrained(s)
  <2>1. DOMAIN Held(s, size) = {}
    BY <1>0, <1>1, RingFields
  <2>2. QED
    BY <1>0, <1>1, <2>1, HeldElems DEF Increasing
<1>2. CASE ~IsDrained(s)
  <2>1. /\ Fill(s, size) = Fill(r, size) + 1
        /\ Held(s, size)[Fill(s, size)] = x
        /\ \A k \in 1 .. Fill(r, size) : Held(s, size)[k] = Held(r, size)[k]
    BY <1>2, StoredHeld
  <2>2. /\ Fill(r, size) \in Nat /\ DOMAIN Held(r, size) = 1 .. Fill(r, size)
        /\ DOMAIN Held(s, size) = 1 .. Fill(s, size)
    BY <1>0, RingFields
  <2>3. 1 .. Fill(s, size) = (1 .. Fill(r, size)) \cup {Fill(s, size)}
    BY <2>1, <2>2
  <2>4. Elems(Held(s, size)) = Elems(Held(r, size)) \cup {x}
    BY <1>0, <2>1, <2>3, HeldElems
  <2>5. ASSUME NEW m \in 1 .. Fill(s, size), NEW n \in 1 .. Fill(s, size), m < n,
               Held(s, size)[m].channel = Held(s, size)[n].channel
        PROVE  Held(s, size)[m].gtid < Held(s, size)[n].gtid
    <3>1. m \in 1 .. Fill(r, size)
      BY <2>1, <2>2, <2>5
    <3>2. CASE n \in 1 .. Fill(r, size)
      BY <2>1, <2>2, <2>5, <3>1, <3>2 DEF Increasing
    <3>3. CASE n = Fill(s, size)
      <4>1. Held(r, size)[m] \in Elems(Held(r, size))
        BY <3>1, HeldElems
      <4>2. QED
        BY <2>1, <2>5, <3>1, <3>3, <4>1 DEF Before
    <3>4. QED
      BY <2>3, <3>2, <3>3
  <2>6. Increasing(Held(s, size))
    BY <2>2, <2>5 DEF Increasing
  <2>7. QED
    BY <1>0, <2>4, <2>6
<1>3. QED
  BY <1>1, <1>2

\* What is removed is older than what is left.
LEMMA RemovedElems ==
  ASSUME NEW size \in Nat \ {0}, NEW r \in Ring(size), ~IsDrained(r),
         NEW s, s = Removed(r, size), Increasing(Held(r, size))
  PROVE  /\ s \in Ring(size) /\ Increasing(Held(s, size)) /\ Oldest(r) \in HitType
         /\ Elems(Held(r, size)) = Elems(Held(s, size)) \cup {Oldest(r)}
         /\ Before({Oldest(r)}, Elems(Held(s, size)))
<1>1. /\ s \in Ring(size)
      /\ Fill(r, size) = Fill(s, size) + 1
      /\ Held(r, size)[1] = Oldest(r) /\ Oldest(r) \in HitType
      /\ \A k \in 1 .. Fill(s, size) : Held(s, size)[k] = Held(r, size)[k + 1]
  BY RemovedHeld
<1>2. /\ Fill(s, size) \in Nat /\ DOMAIN Held(r, size) = 1 .. Fill(r, size)
      /\ DOMAIN Held(s, size) = 1 .. Fill(s, size)
  BY <1>1, RingFields
<1>3. Elems(Held(r, size)) = Elems(Held(s, size)) \cup {Oldest(r)}
  <2>1. ASSUME NEW k \in 1 .. Fill(r, size)
        PROVE  Held(r, size)[k] \in Elems(Held(s, size)) \cup {Oldest(r)}
    <3>1. CASE k = 1
      BY <1>1, <3>1
    <3>2. CASE k # 1
      <4>1. k - 1 \in 1 .. Fill(s, size) /\ (k - 1) + 1 = k
        BY <1>1, <1>2, <3>2
      <4>2. QED
        BY <1>1, <4>1, HeldElems
    <3>3. QED
      BY <3>1, <3>2
  <2>2. ASSUME NEW k \in 1 .. Fill(s, size) PROVE Held(s, size)[k] \in Elems(Held(r, size))
    <3>1. k + 1 \in 1 .. Fill(r, size)
      BY <1>1, <1>2
    <3>2. QED
      BY <1>1, <3>1, HeldElems
  <2>3. 1 \in 1 .. Fill(r, size)
    BY <1>1, <1>2
  <2>4. Oldest(r) \in Elems(Held(r, size))
    BY <1>1, <2>3, HeldElems
  <2>5. QED
    BY <1>1, <2>1, <2>2, <2>4, HeldElems
<1>4. ASSUME NEW m \in 1 .. Fill(s, size), NEW n \in 1 .. Fill(s, size), m < n,
             Held(s, size)[m].channel = Held(s, size)[n].channel
      PROVE  Held(s, size)[m].gtid < Held(s, size)[n].gtid
  <2>1. m + 1 \in 1 .. Fill(r, size) /\ n + 1 \in 1 .. Fill(r, size) /\ m + 1 < n + 1
    BY <1>1, <1>2, <1>4
  <2>2. QED
    BY <1>1, <1>2, <1>4, <2>1 DEF Increasing
<1>5. ASSUME NEW n \in 1 .. Fill(s, size), Oldest(r).channel = Held(s, size)[n].channel
      PROVE  Oldest(r).gtid < Held(s, size)[n].gtid
  <2>1. 1 \in 1 .. Fill(r, size) /\ n + 1 \in 1 .. Fill(r, size) /\ 1 < n + 1
    BY <1>1, <1>2
  <2>2. QED
    BY <1>1, <1>2, <1>5, <2>1 DEF Increasing
<1>6. Increasing(Held(s, size))
  BY <1>2, <1>4 DEF Increasing
<1>7. Before({Oldest(r)}, Elems(Held(s, size)))
  BY <1>1, <1>5, HeldElems DEF Before
<1>8. QED
  BY <1>1, <1>3, <1>6, <1>7

\* The bundles of a packet are the first ones of the ring.
LEMMA WrittenElems ==
  ASSUME NEW size \in Nat \ {0}, NEW r \in Ring(size), r.read < r.write,
         NEW num \in 1 .. r.write - r.read, Increasing(Held(r, size)),
         NEW s, s = [read |-> r.read + num, write |-> r.write, slots |-> r.slots],
         NEW q, q = [k \in 1 .. num |-> r.slots[r.read + k - 1]]
  PROVE  /\ s \in Ring(size) /\ q \in Seq(HitType)
         /\ Increasing(Held(s, size)) /\ Increasing(q)
         /\ Elems(Held(r, size)) = Elems(q) \cup Elems(Held(s, size))
         /\ Before(Elems(q), Elems(Held(s, size)))
<1>1. /\ r.read \in 0 .. size - 1 /\ r.write \in 0 .. size - 1
      /\ r.slots \in [0 .. size - 1 -> HitType]
      /\ r = [read |-> r.read, write |-> r.write, slots |-> r.slots]
  BY RingFields
<1>2. s = [read |-> r.read + num, write |-> r.write, slots |-> r.slots]
  OBVIOUS
<1>3. s \in Ring(size) /\ num \in Nat /\ num > 0
  <2>1. num \in Nat /\ num > 0 /\ r.read + num \in 0 .. size - 1
    BY <1>1
  <2>2. QED
    BY <1>1, <1>2, <2>1 DEF Ring
<1>4. /\ Fill(r, size) = r.write - r.read /\ Fill(s, size) = Fill(r, size) - num
      /\ Fill(r, size) \in Nat /\ Fill(s, size) \in Nat
  BY <1>1, <1>2 DEF Fill
<1>5. /\ DOMAIN Held(r, size) = 1 .. Fill(r, size) /\ DOMAIN Held(s, size) = 1 .. Fill(s, size)
      /\ DOMAIN q = 1 .. num
  BY <1>3, RingFields
<1>6. ASSUME NEW k \in 1 .. Fill(r, size) PROVE Held(r, size)[k] = r.slots[r.read + k - 1]
  <2>1. r.read + k <= size
    BY <1>1, <1>4
  <2>2. QED
    BY <2>1, HeldAt
<1>7. ASSUME NEW k \in 1 .. num PROVE k \in 1 .. Fill(r, size) /\ q[k] = Held(r, size)[k]
  <2>1. k \in 1 .. Fill(r, size)
    BY <1>1, <1>4
  <2>2. QED
    BY <1>6, <2>1
<1>8. ASSUME NEW k \in 1 .. Fill(s, size)
      PROVE  num + k \in 1 .. Fill(r, size) /\ Held(s, size)[k] = Held(r, size)[num + k]
  <2>1. num + k \in 1 .. Fill(r, size) /\ s.read + k <= size
    BY <1>1, <1>2, <1>4
  <2>2. Held(s, size)[k] = s.slots[s.read + k - 1]
    BY <1>3, <2>1, HeldAt
  <2>3. s.read + k - 1 = r.read + (num + k) - 1 /\ s.slots = r.slots
    BY <1>1, <1>2
  <2>4. QED
    BY <1>6, <2>1, <2>2, <2>3
<1>9. q \in Seq(HitType)
  <2>1. \A k \in 1 .. num : q[k] \in HitType
    BY <1>7, HeldAt
  <2>2. QED
    BY <1>5, <2>1
<1>10. Elems(q) = {q[k] : k \in 1 .. num}
  BY <1>5 DEF Elems
<1>11. Elems(Held(r, size)) = Elems(q) \cup Elems(Held(s, size))
  <2>1. ASSUME NEW k \in 1 .. Fill(r, size)
        PROVE  Held(r, size)[k] \in Elems(q) \cup Elems(Held(s, size))
    <3>1. CASE k <= num
      <4>1. k \in 1 .. num
        BY <1>3, <1>4, <3>1
      <4>2. QED
        BY <1>7, <1>10, <4>1
    <3>2. CASE k > num
      <4>1. k - num \in 1 .. Fill(s, size) /\ num + (k - num) = k
        BY <1>3, <1>4, <3>2
      <4>2. Held(r, size)[k] = Held(s, size)[k - num]
        BY <1>8, <4>1
      <4>3. QED
        BY <1>3, <4>1, <4>2, HeldElems
    <3>3. QED
      BY <3>1, <3>2
  <2>2. \A k \in 1 .. num : q[k] \in Elems(Held(r, size))
    BY <1>7, HeldElems
  <2>3. \A k \in 1 .. Fill(s, size) : Held(s, size)[k] \in Elems(Held(r, size))
    BY <1>8, HeldElems
  <2>4. Elems(Held(r, size)) \subseteq Elems(q) \cup Elems(Held(s, size))
    <3>1. Elems(Held(r, size)) = {Held(r, size)[k] : k \in 1 .. Fill(r, size)}
      BY HeldElems
    <3>2. QED
      BY <2>1, <3>1
  <2>5. Elems(Held(s, size)) \subseteq Elems(Held(r, size))
    BY <1>3, <2>3, HeldElems
  <2>6. QED
    BY <1>10, <2>2, <2>4, <2>5
<1>12. Increasing(q)
  <2>1. ASSUME NEW m \in 1 .. num, NEW l \in 1 .. num, m < l, q[m].channel = q[l].channel
        PROVE  q[m].gtid < q[l].gtid
    BY <1>5, <1>7, <2>1 DEF Increasing
  <2>2. QED
    BY <1>5, <2>1 DEF Increasing
<1>13. ASSUME NEW m \in 1 .. Fill(s, size), NEW l \in 1 .. Fill(s, size), m < l,
              Held(s, size)[m].channel = Held(s, size)[l].channel
       PROVE  Held(s, size)[m].gtid < Held(s, size)[l].gtid
  <2>1. num + m < num + l
    BY <1>4, <1>13
  <2>2. QED
    BY <1>5, <1>8, <1>13, <2>1 DEF Increasing
<1>14. ASSUME NEW m \in 1 .. num, NEW l \in 1 .. Fill(s, size), q[m].channel = Held(s, size)[l].channel
       PROVE  q[m].gtid < Held(s, size)[l].gtid
  <2>1. m < num + l
    BY <1>3, <1>4
  <2>2. /\ m \in DOMAIN Held(r, size) /\ num + l \in DOMAIN Held(r, size)
        /\ q[m] = Held(r, size)[m] /\ Held(s, size)[l] = Held(r, size)[num + l]
    BY <1>5, <1>7, <1>8
  <2>3. QED
    BY <1>14, <2>1, <2>2 DEF Increasing
<1>15. Increasing(Held(s, size))
  BY <1>5, <1>13 DEF Increasing
<1>16. Before(Elems(q), Elems(Held(s, size)))
  <2>1. ASSUME NEW a \in Elems(q), NEW b \in Elems(Held(s, size)), a.channel = b.channel
        PROVE  a.gtid < b.gtid
    <3>1. PICK m \in 1 .. num : a = q[m]
      BY <1>10
    <3>2. PICK l \in 1 .. Fill(s, size) : b = Held(s, size)[l]
      BY <1>3, HeldElems
    <3>3. QED
      BY <1>14, <2>1, <3>1, <3>2
  <2>2. QED
    BY <2>1 DEF Before
<1>17. QED
  BY <1>3, <1>9, <1>11, <1>12, <1>15, <1>16

-----------------------------------------------------------------------------
(* The invariant. *)

\* What is before a set is before its subsets.
LEMMA BeforeSubset ==
  ASSUME NEW A, NEW B, NEW A2 \in SUBSET A, NEW B2 \in SUBSET B, Before(A, B)
  PROVE  Before(A2, B2)
BY DEF Before

\* What is before two sets is before their union, and so for what comes after.
LEMMA BeforeUnion ==
  ASSUME NEW A, NEW B, NEW C
  PROVE  /\ Before(A, B) /\ Before(A, C) => Before(A, B \cup C)
         /\ Before(B, A) /\ Before(C, A) => Before(B \cup C, A)
BY DEF Before

\* A hit is of its type.
LEMMA HitHasType ==
  ASSUME NEW c \in Channel, NEW g \in Nat
  PROVE  /\ Hit(c, g) \in HitType
         /\ Hit(c, g).channel = c /\ Hit(c, g).gtid = g
         /\ \A h \in HitType : h.channel = c /\ h.gtid = g => h = Hit(c, g)
BY DEF Hit, HitType

\* An empty ring is a ring with nothing in it.
LEMMA EmptyHeld ==
  ASSUME NEW size \in Nat \ {0}
  PROVE  /\ EmptyRing(size) \in Ring(size) /\ IsDrained(EmptyRing(size))
         /\ Increasing(Held(EmptyRing(size), size)) /\ Elems(Held(EmptyRing(size), size)) = {}
<1>1. Hit(<<0, 0>>, 0) \in HitType
  <2>1. <<0, 0>> \in Channel
    BY Sizes DEF Channel, Card, Chan
  <2>2. QED
    BY <2>1, HitHasType
<1>2. EmptyRing(size) \in Ring(size) /\ IsDrained(EmptyRing(size))
  BY <1>1 DEF EmptyRing, Ring, IsDrained
<1>3. DOMAIN Held(EmptyRing(size), size) = {}
  BY <1>2, RingFields
<1>4. QED
  BY <1>2, <1>3 DEF Increasing, Elems

\* At first there is nothing anywhere.
LEMMA InitInvariant == Init => IInv
<1> SUFFICES ASSUME Init PROVE IInv
  OBVIOUS
<1>1. \A c \in Channel : channels[c] = EmptyRing(PER_CHANNEL)
  BY DEF Init
<1>2. \A f \in Card : fecs[f] = EmptyRing(PER_FEC)
  BY DEF Init
<1>3. xl3 = EmptyRing(PER_CRATE) /\ xl3.read = 0 /\ xl3.write = 0
  BY DEF Init, EmptyRing
<1>4. TypeOK
  <2>1. 0 \in Card /\ 0 \in Chan
    BY Sizes DEF Card, Chan
  <2>2. Len(file) \in Nat
    BY GeneratorAssumption DEF Init
  <2>3. /\ channels \in [Channel -> Ring(PER_CHANNEL)] /\ fecs \in [Card -> Ring(PER_FEC)]
        /\ xl3 \in Ring(PER_CRATE)
    BY Sizes, EmptyHeld DEF Init
  <2>4. QED
    BY <2>1, <2>2, <2>3 DEF Init, TypeOK
<1>5. /\ \A c \in Channel : InChannel(c) = {}
      /\ \A f \in Card : InFec(f) = {}
      /\ InXl3 = {} /\ InPackets = {}
  <2>1. InPackets = {}
    BY DEF InPackets, Hits, Init
  <2>2. QED
    BY <1>1, <1>2, <1>3, <2>1, Sizes, EmptyHeld DEF InChannel, InFec, InXl3
<1>6. RingsInOrder
  BY <1>1, <1>2, <1>3, Sizes, EmptyHeld DEF RingsInOrder
<1>7. PacketsInOrder
  BY DEF PacketsInOrder, Init
<1>8. StagesInOrder
  BY <1>5 DEF StagesInOrder, Ahead, Before
<1>9. HitsBelong
  BY <1>5 DEF HitsBelong
<1>10. HitsAreKept
  BY DEF HitsAreKept, Recorded, Init
<1>11. DoneIsRight
  BY DEF DoneIsRight, Init
<1>12. WrapNeedsManyHits
  <2>1. EverInXl3 = <<>> /\ DOMAIN EverInXl3 = {}
    BY <1>3 DEF EverInXl3
  <2>2. Elems(EverInXl3) = {}
    BY <2>1 DEF Elems
  <2>3. QED
    BY <1>3, <2>1, <2>2 DEF WrapNeedsManyHits, Xl3HasAll, Increasing, Ahead, Before, Init
<1>13. QED
  BY <1>4, <1>6, <1>7, <1>8, <1>9, <1>10, <1>11, <1>12 DEF IInv

\* A step that moves no hit keeps what is said of them.
LEMMA QuietKeeps ==
  ASSUME IInv, UNCHANGED <<file, gtid, channels, fecs, xl3, packets, overrun>>,
         TypeOK', DoneIsRight', stage' = "crashed" => stage = "crashed" \/ ManyHits
  PROVE  IInv'
<1>1. /\ \A c : InChannel(c)' = InChannel(c)
      /\ \A f : InFec(f)' = InFec(f)
      /\ InXl3' = InXl3 /\ InPackets' = InPackets /\ EverInXl3' = EverInXl3
      /\ RecordedHits' = RecordedHits
      /\ \A h : IsRecorded(h)' <=> IsRecorded(h)
      /\ \A c : Recorded(c)' = Recorded(c)
  BY DEF InChannel, InFec, InXl3, InPackets, EverInXl3, RecordedHits, IsRecorded, Recorded
<1>2. RingsInOrder' /\ PacketsInOrder'
  BY DEF IInv, RingsInOrder, PacketsInOrder
<1>3. StagesInOrder'
  BY <1>1 DEF IInv, StagesInOrder, Ahead
<1>4. HitsBelong' /\ HitsAreKept'
  BY <1>1 DEF IInv, HitsBelong, HitsAreKept
<1>5. WrapNeedsManyHits'
  BY <1>1 DEF IInv, WrapNeedsManyHits, Xl3HasAll, ManyHits, Ahead
<1>6. QED
  BY <1>2, <1>3, <1>4, <1>5 DEF IInv

\* What is known of each variable that a loop uses.
LEMMA NextOfCard ==
  /\ \A f \in Card : (f + 1) % Cards \in Card
  /\ \A k \in Chan : (k + 1) % Chans \in Chan
  /\ 0 \in Card
BY Sizes DEF Card, Chan

\* The steps between the loops, and those that look at a card without data.
LEMMA QuietSteps ==
  ASSUME IInv,
         \/ EndRead \/ NextFec \/ EndSequence \/ ScanSlot \/ EndTake \/ EndScan
         \/ LeaveArray \/ EndWrite
  PROVE  IInv'
<1>1. TypeOK /\ DoneIsRight /\ WrapNeedsManyHits
  BY DEF IInv
<1>2. CASE EndRead
  <2>1. TypeOK'
    BY <1>1, <1>2 DEF TypeOK, EndRead
  <2>2. DoneIsRight'
    BY <1>1, <1>2 DEF DoneIsRight, EndRead
  <2>3. QED
    BY <1>2, <2>1, <2>2, QuietKeeps DEF EndRead
<1>3. CASE NextFec
  <2>1. ifec + 1 \in Card
    BY <1>1, <1>3, Sizes DEF TypeOK, NextFec, Card
  <2>2. TypeOK'
    BY <1>1, <1>3, <2>1 DEF TypeOK, NextFec
  <2>3. DoneIsRight'
    BY <1>1, <1>3 DEF DoneIsRight, NextFec
  <2>4. QED
    BY <1>3, <2>2, <2>3, QuietKeeps DEF NextFec
<1>4. CASE EndSequence
  <2>1. TypeOK'
    BY <1>1, <1>4, NextOfCard DEF TypeOK, EndSequence
  <2>2. DoneIsRight'
    <3>1. CASE done = 1 /\ Drained(channels)
      <4>1. \A c \in Channel : IsDrained(channels[c])
        BY <1>1, <3>1 DEF TypeOK, Drained
      <4>2. QED
        BY <1>1, <1>4, <3>1, <4>1 DEF DoneIsRight, EndSequence
    <3>2. CASE ~(done = 1 /\ Drained(channels))
      BY <1>1, <1>4, <3>2 DEF DoneIsRight, EndSequence
    <3>3. QED
      BY <3>1, <3>2
  <2>3. QED
    BY <1>4, <2>1, <2>2, QuietKeeps DEF EndSequence
<1>5. CASE ScanSlot
  <2>1. TypeOK'
    BY <1>1, <1>5, NextOfCard DEF TypeOK, ScanSlot, NextSlot, WithData
  <2>2. DoneIsRight'
    BY <1>1, <1>5 DEF DoneIsRight, ScanSlot
  <2>3. QED
    BY <1>5, <2>1, <2>2, QuietKeeps DEF ScanSlot
<1>6. CASE EndTake
  <2>1. TypeOK'
    BY <1>1, <1>6, NextOfCard DEF TypeOK, EndTake, NextSlot
  <2>2. DoneIsRight'
    BY <1>1, <1>6 DEF DoneIsRight, EndTake
  <2>3. QED
    BY <1>6, <2>1, <2>2, QuietKeeps DEF EndTake
<1>7. CASE EndScan
  <2>1. TypeOK'
    BY <1>1, <1>7 DEF TypeOK, EndScan
  <2>2. DoneIsRight'
    <3>1. CASE done = 2 /\ Drained(fecs)
      <4>1. \A f \in Card : IsDrained(fecs[f])
        BY <1>1, <3>1 DEF TypeOK, Drained
      <4>2. QED
        BY <1>1, <1>7, <3>1, <4>1 DEF DoneIsRight, EndScan
    <3>2. CASE ~(done = 2 /\ Drained(fecs))
      BY <1>1, <1>7, <3>2 DEF DoneIsRight, EndScan
    <3>3. QED
      BY <3>1, <3>2
  <2>3. QED
    BY <1>7, <2>1, <2>2, QuietKeeps DEF EndScan
<1>8. CASE LeaveArray
  <2>1. TypeOK'
    BY <1>1, <1>8 DEF TypeOK, LeaveArray
  <2>2. DoneIsRight'
    BY <1>1, <1>8 DEF DoneIsRight, LeaveArray
  <2>3. ManyHits
    <3>1. ~Xl3HasAll
      <4>1. xl3.read \in 0 .. PER_CRATE - 1 /\ xl3.write \in 0 .. PER_CRATE - 1
        BY <1>1 DEF TypeOK, Ring
      <4>2. QED
        BY <1>8, <4>1, Sizes DEF Xl3HasAll, LeaveArray
    <3>2. QED
      BY <1>1, <3>1 DEF WrapNeedsManyHits
  <2>4. QED
    BY <1>8, <2>1, <2>2, <2>3, QuietKeeps DEF LeaveArray
<1>9. CASE EndWrite
  <2>1. TypeOK'
    BY <1>1, <1>9 DEF TypeOK, EndWrite
  <2>2. DoneIsRight'
    BY <1>1, <1>9 DEF DoneIsRight, EndWrite, TypeOK, IsDrained
  <2>3. QED
    BY <1>9, <2>1, <2>2, QuietKeeps DEF EndWrite
<1>10. QED
  BY <1>2, <1>3, <1>4, <1>5, <1>6, <1>7, <1>8, <1>9

\* One look of a sequencer: a hit goes from its channel to its card.
LEMMA ReadChannelKeeps ==
  ASSUME IInv, ReadChannel
  PROVE  IInv'
<1>0. /\ TypeOK /\ RingsInOrder /\ StagesInOrder /\ HitsBelong /\ HitsAreKept /\ DoneIsRight
      /\ PacketsInOrder /\ WrapNeedsManyHits
  BY DEF IInv
<1>f. PICK f \in Card : f = ifec
  BY <1>0 DEF TypeOK
<1>c. PICK c \in Channel : c = <<f, sequencer[f]>>
  BY <1>0 DEF TypeOK, Channel
<1>h. PICK h : h = Oldest(channels[c])
  OBVIOUS
<1>1. f \in Card /\ c \in Channel /\ c[1] = f
  BY <1>c
<1>2. CASE ~HasData(channels[c])
  <2>1. UNCHANGED <<file, gtid, channels, fecs, xl3, packets, overrun, done, stage>>
    BY <1>f, <1>c, <1>2 DEF ReadChannel
  <2>2. TypeOK'
    BY <1>0, <1>f, <1>c, <1>2, NextOfCard DEF TypeOK, ReadChannel
  <2>3. DoneIsRight'
    BY <1>0, <2>1 DEF DoneIsRight
  <2>4. QED
    BY <2>1, <2>2, <2>3, QuietKeeps
<1>3. CASE HasData(channels[c])
  <2>1. /\ fecs' = [fecs EXCEPT ![f] = Stored(fecs[f], h, PER_FEC)]
        /\ channels' = [channels EXCEPT ![c] = Removed(channels[c], PER_CHANNEL)]
        /\ overrun' = (overrun \/ IsDrained(fecs'[f]))
        /\ sequencer' = [sequencer EXCEPT ![f] = (sequencer[f] + 1) % Chans]
        /\ rounds' = rounds + 1 /\ done < 2 /\ stage = "sequence"
        /\ UNCHANGED <<file, gtid, xl3, current_slot, data_avail, packets, done, stage, ifec, taken>>
    BY <1>f, <1>c, <1>h, <1>3 DEF ReadChannel
  <2>2. ~IsDrained(channels[c])
    BY <1>3 DEF HasData
  <2>3. /\ fecs'[f] = Stored(fecs[f], h, PER_FEC)
        /\ \A g \in Card : g # f => fecs'[g] = fecs[g]
        /\ channels'[c] = Removed(channels[c], PER_CHANNEL)
        /\ \A d \in Channel : d # c => channels'[d] = channels[d]
        /\ fecs[f] \in Ring(PER_FEC) /\ channels[c] \in Ring(PER_CHANNEL)
    BY <1>0, <1>1, <2>1 DEF TypeOK
  <2>4. /\ channels'[c] \in Ring(PER_CHANNEL) /\ h \in HitType
        /\ Increasing(Held(channels'[c], PER_CHANNEL))
        /\ InChannel(c) = InChannel(c)' \cup {h} /\ Before({h}, InChannel(c)')
    BY <1>0, <1>h, <2>2, <2>3, Sizes, RemovedElems DEF RingsInOrder, InChannel
  <2>5. Before(InFec(f), {h})
    BY <1>0, <1>1, <2>4, BeforeSubset DEF StagesInOrder
  <2>6. /\ fecs'[f] \in Ring(PER_FEC)
        /\ Increasing(Held(fecs'[f], PER_FEC))
        /\ InFec(f)' \subseteq InFec(f) \cup {h}
        /\ ~IsDrained(fecs'[f]) => InFec(f) \cup {h} \subseteq InFec(f)'
    BY <1>0, <1>1, <2>3, <2>4, <2>5, Sizes, StoredElems DEF RingsInOrder, InFec
  <2>7. /\ \A d \in Channel : d # c => InChannel(d)' = InChannel(d)
        /\ \A g \in Card : g # f => InFec(g)' = InFec(g)
        /\ InXl3' = InXl3 /\ InPackets' = InPackets /\ EverInXl3' = EverInXl3
    BY <2>1, <2>3 DEF InChannel, InFec, InXl3, InPackets, EverInXl3
  <2>8. /\ RecordedHits' = RecordedHits /\ \A x : IsRecorded(x)' <=> IsRecorded(x)
        /\ \A d : Recorded(d)' = Recorded(d)
    BY <2>1 DEF RecordedHits, IsRecorded, Recorded
  <2>9. h \in InChannel(c) /\ h.channel = c /\ IsRecorded(h)
    BY <1>0, <1>1, <2>4 DEF HitsBelong
  <2>10. TypeOK'
    <3>1. channels' \in [Channel -> Ring(PER_CHANNEL)] /\ fecs' \in [Card -> Ring(PER_FEC)]
      BY <1>0, <2>1, <2>3, <2>4, <2>6 DEF TypeOK
    <3>2. sequencer' \in [Card -> Chan]
      BY <1>0, <1>1, <2>1, NextOfCard DEF TypeOK
    <3>3. QED
      BY <1>0, <2>1, <3>1, <3>2 DEF TypeOK
  <2>11. RingsInOrder'
    BY <1>0, <2>1, <2>3, <2>4, <2>6 DEF RingsInOrder
  <2>12. PacketsInOrder'
    BY <1>0, <2>1 DEF PacketsInOrder
  <2>13. ASSUME NEW A, Ahead(A)
         PROVE  /\ \A g \in Card : Before(A, InFec(g)')
                /\ \A d \in Channel : Before(A, InChannel(d)')
    <3>1. Before(A, InFec(f)) /\ Before(A, InChannel(c))
      BY <1>1, <2>13 DEF Ahead
    <3>2. Before(A, InFec(f) \cup {h})
      BY <2>4, <3>1 DEF Before
    <3>3. Before(A, InFec(f)') /\ Before(A, InChannel(c)')
      BY <2>4, <2>6, <3>1, <3>2, BeforeSubset
    <3>4. QED
      BY <2>7, <2>13, <3>3 DEF Ahead
  <2>14. Ahead(InPackets)' /\ Ahead(InXl3)'
    BY <1>0, <2>7, <2>13 DEF StagesInOrder, Ahead
  <2>15. ASSUME NEW d \in Channel, NEW g \in Card PROVE Before(InFec(g)', InChannel(d)')
    <3>1. InChannel(d)' \subseteq InChannel(d)
      BY <2>4, <2>7
    <3>2. Before(InFec(g), InChannel(d)')
      BY <1>0, <3>1, BeforeSubset DEF StagesInOrder
    <3>3. CASE g # f
      BY <2>7, <3>2, <3>3
    <3>4. CASE g = f
      <4>1. Before({h}, InChannel(d)')
        <5>1. CASE d = c
          BY <2>4, <5>1
        <5>2. CASE d # c
          <6>1. \A b \in InChannel(d)' : b.channel = d
            BY <1>0, <3>1 DEF HitsBelong
          <6>2. QED
            BY <2>9, <5>2, <6>1 DEF Before
        <5>3. QED
          BY <5>1, <5>2
      <4>2. Before(InFec(f) \cup {h}, InChannel(d)')
        BY <3>2, <3>4, <4>1, BeforeUnion
      <4>3. QED
        BY <2>6, <3>4, <4>2, BeforeSubset
    <3>5. QED
      BY <3>3, <3>4
  <2>16. StagesInOrder'
    BY <1>0, <2>7, <2>14, <2>15 DEF StagesInOrder
  <2>17. HitsBelong'
    <3>1. ASSUME NEW g \in Card, NEW x \in InFec(g)'
          PROVE  x \in HitType /\ IsRecorded(x)' /\ x.channel[1] = g
      BY <1>0, <1>1, <2>4, <2>6, <2>7, <2>8, <2>9 DEF HitsBelong
    <3>2. ASSUME NEW d \in Channel, NEW x \in InChannel(d)'
          PROVE  x \in HitType /\ IsRecorded(x)' /\ x.channel = d
      BY <1>0, <2>4, <2>7, <2>8 DEF HitsBelong
    <3>3. QED
      BY <1>0, <2>7, <2>8, <3>1, <3>2 DEF HitsBelong
  <2>18. HitsAreKept'
    <3> SUFFICES ASSUME ~overrun', NEW d \in Channel, NEW g \in Recorded(d)
                 PROVE  Hit(d, g) \in InPackets' \cup InXl3' \cup InFec(d[1])' \cup InChannel(d)'
      BY <2>8 DEF HitsAreKept
    <3>1. ~overrun /\ ~IsDrained(fecs'[f])
      BY <2>1
    <3>2. Hit(d, g) \in InPackets \cup InXl3 \cup InFec(d[1]) \cup InChannel(d)
      BY <1>0, <3>1 DEF HitsAreKept
    <3>3. d[1] \in Card
      BY DEF Channel
    <3>4. InFec(d[1]) \subseteq InFec(d[1])'
      BY <2>6, <2>7, <3>1, <3>3
    <3>5. InChannel(d) \subseteq InFec(d[1])' \cup InChannel(d)'
      <4>1. CASE d = c
        BY <1>1, <2>4, <2>6, <3>1, <4>1
      <4>2. CASE d # c
        BY <2>7, <4>2
      <4>3. QED
        BY <4>1, <4>2
    <3>6. QED
      BY <2>7, <3>2, <3>4, <3>5
  <2>19. DoneIsRight'
    BY <1>0, <2>1 DEF DoneIsRight, TypeOK
  <2>20. WrapNeedsManyHits'
    <3>1. ManyHits' <=> ManyHits
      BY <2>8 DEF ManyHits
    <3>2. ASSUME Xl3HasAll PROVE Xl3HasAll'
      <4>1. Ahead(Elems(EverInXl3))'
        BY <2>7, <2>13, <3>2 DEF Ahead, Xl3HasAll
      <4>2. QED
        BY <2>1, <2>7, <2>8, <3>2, <4>1 DEF Xl3HasAll
    <3>3. QED
      BY <1>0, <2>1, <3>1, <3>2 DEF WrapNeedsManyHits
  <2>21. QED
    BY <2>10, <2>11, <2>12, <2>16, <2>17, <2>18, <2>19, <2>20 DEF IInv
<1>4. QED
  BY <1>2, <1>3

\* The hits of finitely many events are finitely many.
LEMMA HitsAreFinite ==
  ASSUME NEW n \in Nat, NEW S \in SUBSET (Channel \X (1 .. n))
  PROVE  IsFiniteSet(S)
<1>1. IsFiniteSet(Card) /\ IsFiniteSet(Chan)
  BY Sizes, FS_Interval DEF Card, Chan
<1>2. IsFiniteSet(Channel)
  BY <1>1, FS_Product DEF Channel
<1>3. IsFiniteSet(1 .. n)
  BY FS_Interval
<1>4. IsFiniteSet(Channel \X (1 .. n))
  BY <1>2, <1>3, FS_Product
<1>5. QED
  BY <1>4, FS_Subset

\* An array full of different hits has as many as were read, or fewer.
LEMMA FullNeedsMany ==
  ASSUME TypeOK, NEW E, DOMAIN E = 1 .. PER_CRATE, Increasing(E),
         \A k \in 1 .. PER_CRATE : E[k] \in HitType /\ IsRecorded(E[k])
  PROVE  ManyHits
<1> DEFINE F == [k \in 1 .. PER_CRATE |-> <<E[k].channel, E[k].gtid>>]
<1>1. \A k \in 1 .. PER_CRATE : F[k] \in RecordedHits
  BY DEF HitType, IsRecorded, RecordedHits
<1>2. ASSUME NEW k \in 1 .. PER_CRATE, NEW l \in 1 .. PER_CRATE, F[k] = F[l]
      PROVE  k = l
  <2>1. E[k].channel = E[l].channel /\ E[k].gtid = E[l].gtid /\ E[k].gtid \in Nat
    BY <1>2 DEF HitType
  <2>2. ~(k < l)
    BY <2>1 DEF Increasing
  <2>3. ~(l < k)
    BY <2>1 DEF Increasing
  <2>4. QED
    BY <2>2, <2>3
<1>3. F \in Injection(1 .. PER_CRATE, RecordedHits)
  BY <1>1, <1>2 DEF Injection, IsInjective
<1>4. Cardinality(1 .. PER_CRATE) = PER_CRATE
  BY Sizes, FS_Interval
<1>5. IsFiniteSet(RecordedHits)
  <2>1. gtid \in Nat
    BY GeneratorAssumption DEF TypeOK
  <2>2. RecordedHits \in SUBSET (Channel \X (1 .. gtid))
    BY DEF RecordedHits
  <2>3. QED
    BY <2>1, <2>2, HitsAreFinite
<1>6. Cardinality(1 .. PER_CRATE) <= Cardinality(RecordedHits)
  BY <1>3, <1>5, FS_Injection
<1>7. QED
  BY <1>4, <1>6 DEF ManyHits

\* What the XL3 is given is its last, until the array is full.
LEMMA EverGrows ==
  ASSUME NEW h \in HitType, xl3 \in Ring(PER_CRATE), Increasing(EverInXl3),
         Before(Elems(EverInXl3), {h}),
         NEW x, x = Stored(xl3, h, PER_CRATE),
         NEW E, E = [k \in 1 .. xl3.write + 1 |-> x.slots[k - 1]]
  PROVE  Increasing(E) /\ Elems(E) = Elems(EverInXl3) \cup {h}
<1>1. /\ xl3.write \in 0 .. PER_CRATE - 1 /\ xl3.slots \in [0 .. PER_CRATE - 1 -> HitType]
  BY DEF Ring
<1>2. x.slots = [xl3.slots EXCEPT ![xl3.write] = h]
  BY DEF Stored, Ring
<1>3. /\ DOMAIN EverInXl3 = 1 .. xl3.write /\ DOMAIN E = 1 .. xl3.write + 1
      /\ 1 .. xl3.write + 1 = (1 .. xl3.write) \cup {xl3.write + 1}
  BY <1>1 DEF EverInXl3
<1>4. E[xl3.write + 1] = h
  <2>1. xl3.write + 1 \in 1 .. xl3.write + 1 /\ (xl3.write + 1) - 1 = xl3.write
    BY <1>1
  <2>2. QED
    BY <1>1, <1>2, <2>1
<1>5. ASSUME NEW k \in 1 .. xl3.write PROVE E[k] = EverInXl3[k]
  <2>1. k \in 1 .. xl3.write + 1 /\ k - 1 \in 0 .. PER_CRATE - 1 /\ k - 1 # xl3.write
    BY <1>1, Sizes
  <2>2. QED
    BY <1>1, <1>2, <2>1 DEF EverInXl3
<1>6. Elems(E) = Elems(EverInXl3) \cup {h}
  <2>1. Elems(E) = {E[k] : k \in 1 .. xl3.write} \cup {h}
    BY <1>3, <1>4 DEF Elems
  <2>2. Elems(EverInXl3) = {E[k] : k \in 1 .. xl3.write}
    BY <1>3, <1>5 DEF Elems
  <2>3. QED
    BY <2>1, <2>2
<1>7. ASSUME NEW m \in 1 .. xl3.write + 1, NEW n \in 1 .. xl3.write + 1, m < n,
             E[m].channel = E[n].channel
      PROVE  E[m].gtid < E[n].gtid
  <2>1. m \in 1 .. xl3.write
    BY <1>1, <1>7
  <2>2. CASE n \in 1 .. xl3.write
    BY <1>3, <1>5, <1>7, <2>1, <2>2 DEF Increasing
  <2>3. CASE n = xl3.write + 1
    <3>1. EverInXl3[m] \in Elems(EverInXl3)
      BY <1>3, <2>1 DEF Elems
    <3>2. QED
      BY <1>4, <1>5, <1>7, <2>1, <2>3, <3>1 DEF Before
  <2>4. QED
    BY <1>3, <2>2, <2>3
<1>8. Increasing(E)
  BY <1>3, <1>7 DEF Increasing
<1>9. QED
  BY <1>6, <1>8

\* The XL3 takes a bundle of a card.
LEMMA TakeBundleKeeps ==
  ASSUME IInv, TakeBundle
  PROVE  IInv'
<1>0. /\ TypeOK /\ RingsInOrder /\ StagesInOrder /\ HitsBelong /\ HitsAreKept /\ DoneIsRight
      /\ PacketsInOrder /\ WrapNeedsManyHits
  BY DEF IInv
<1>f. PICK f \in Card : f = current_slot
  BY <1>0 DEF TypeOK
<1>h. PICK h : h = Oldest(fecs[f])
  OBVIOUS
<1>1. /\ fecs' = [fecs EXCEPT ![f] = Removed(fecs[f], PER_FEC)]
      /\ xl3' = Stored(xl3, h, PER_CRATE)
      /\ overrun' = (overrun \/ IsDrained(xl3'))
      /\ taken' = taken + 1 /\ stage = "take" /\ ~IsDrained(fecs[f])
      /\ UNCHANGED <<file, gtid, channels, sequencer, current_slot, data_avail, packets, done, stage,
                     ifec, rounds>>
  BY <1>f, <1>h DEF TakeBundle
<1>2. /\ fecs'[f] = Removed(fecs[f], PER_FEC)
      /\ \A g \in Card : g # f => fecs'[g] = fecs[g]
      /\ fecs[f] \in Ring(PER_FEC) /\ xl3 \in Ring(PER_CRATE)
  BY <1>0, <1>1 DEF TypeOK
<1>3. /\ fecs'[f] \in Ring(PER_FEC) /\ h \in HitType
      /\ Increasing(Held(fecs'[f], PER_FEC))
      /\ InFec(f) = InFec(f)' \cup {h} /\ Before({h}, InFec(f)')
  BY <1>0, <1>h, <1>1, <1>2, Sizes, RemovedElems DEF RingsInOrder, InFec
<1>4. \A A : Ahead(A) => Before(A, {h})
  BY <1>3 DEF Ahead, Before
<1>5. /\ xl3' \in Ring(PER_CRATE)
      /\ Increasing(Held(xl3', PER_CRATE))
      /\ InXl3' \subseteq InXl3 \cup {h}
      /\ ~IsDrained(xl3') => InXl3 \cup {h} \subseteq InXl3'
  <2>1. Before(InXl3, {h})
    BY <1>0, <1>4 DEF StagesInOrder
  <2>2. QED
    BY <1>0, <1>1, <1>2, <1>3, <2>1, Sizes, StoredElems DEF RingsInOrder, InXl3
<1>6. /\ \A g \in Card : g # f => InFec(g)' = InFec(g)
      /\ \A g \in Card : InFec(g)' \subseteq InFec(g)
      /\ \A c : InChannel(c)' = InChannel(c)
      /\ InPackets' = InPackets
  BY <1>1, <1>2, <1>3 DEF InChannel, InFec, InPackets
<1>7. /\ RecordedHits' = RecordedHits /\ \A x : IsRecorded(x)' <=> IsRecorded(x)
      /\ \A d : Recorded(d)' = Recorded(d)
  BY <1>1 DEF RecordedHits, IsRecorded, Recorded
<1>8. h \in InFec(f) /\ h.channel[1] = f /\ IsRecorded(h)
  BY <1>0, <1>3 DEF HitsBelong
<1>9. TypeOK'
  <2>1. fecs' \in [Card -> Ring(PER_FEC)]
    BY <1>0, <1>1, <1>2, <1>3 DEF TypeOK
  <2>2. QED
    BY <1>0, <1>1, <1>5, <2>1 DEF TypeOK
<1>10. RingsInOrder'
  BY <1>0, <1>1, <1>2, <1>3, <1>5 DEF RingsInOrder
<1>11. PacketsInOrder'
  BY <1>0, <1>1 DEF PacketsInOrder
<1>12. ASSUME NEW A, Ahead(A)
       PROVE  /\ \A g \in Card : Before(A, InFec(g)')
              /\ \A d \in Channel : Before(A, InChannel(d)')
  BY <1>6, <1>12, BeforeSubset DEF Ahead
<1>13. /\ \A g \in Card : Before({h}, InFec(g)')
       /\ \A d \in Channel : Before({h}, InChannel(d)')
  <2>1. ASSUME NEW g \in Card, g # f PROVE Before({h}, InFec(g)')
    <3>1. \A b \in InFec(g)' : b.channel[1] = g
      BY <1>0, <1>6 DEF HitsBelong
    <3>2. QED
      BY <1>8, <2>1, <3>1 DEF Before
  <2>2. ASSUME NEW d \in Channel PROVE Before({h}, InChannel(d)')
    BY <1>0, <1>6, <1>8 DEF StagesInOrder, Before
  <2>3. QED
    BY <1>3, <2>1, <2>2
<1>14. ASSUME NEW A, NEW B, Ahead(A), B \subseteq A \cup {h}
       PROVE  /\ \A g \in Card : Before(B, InFec(g)')
              /\ \A d \in Channel : Before(B, InChannel(d)')
  BY <1>12, <1>13, <1>14 DEF Before
<1>15. StagesInOrder'
  <2>1. Before(InPackets, InXl3)'
    BY <1>0, <1>4, <1>5, <1>6 DEF StagesInOrder, Before
  <2>2. Ahead(InPackets)' /\ Ahead(InXl3)'
    BY <1>0, <1>5, <1>6, <1>12, <1>14 DEF StagesInOrder, Ahead
  <2>3. ASSUME NEW d \in Channel, NEW g \in Card PROVE Before(InFec(g)', InChannel(d)')
    BY <1>0, <1>6, BeforeSubset DEF StagesInOrder
  <2>4. QED
    BY <2>1, <2>2, <2>3 DEF StagesInOrder
<1>16. HitsBelong'
  BY <1>0, <1>3, <1>5, <1>6, <1>7, <1>8 DEF HitsBelong
<1>17. HitsAreKept'
  <2> SUFFICES ASSUME ~overrun', NEW d \in Channel, NEW g \in Recorded(d)
               PROVE  Hit(d, g) \in InPackets' \cup InXl3' \cup InFec(d[1])' \cup InChannel(d)'
    BY <1>7 DEF HitsAreKept
  <2>1. ~overrun /\ ~IsDrained(xl3')
    BY <1>1
  <2>2. Hit(d, g) \in InPackets \cup InXl3 \cup InFec(d[1]) \cup InChannel(d)
    BY <1>0, <2>1 DEF HitsAreKept
  <2>3. d[1] \in Card
    BY DEF Channel
  <2>4. InFec(d[1]) \subseteq InFec(d[1])' \cup {h}
    BY <1>3, <1>6, <2>3
  <2>5. QED
    BY <1>5, <1>6, <2>1, <2>2, <2>4
<1>18. DoneIsRight'
  BY <1>0, <1>1, <1>f DEF DoneIsRight, TypeOK
<1>19. WrapNeedsManyHits'
  <2>1. ManyHits' <=> ManyHits
    BY <1>7 DEF ManyHits
  <2>2. ASSUME Xl3HasAll PROVE Xl3HasAll' \/ ManyHits
    <3> DEFINE E == [k \in 1 .. xl3.write + 1 |-> xl3'.slots[k - 1]]
    <3>1. Increasing(E) /\ Elems(E) = Elems(EverInXl3) \cup {h}
      BY <1>1, <1>2, <1>3, <1>4, <2>2, EverGrows DEF Xl3HasAll
    <3>2. \A b \in Elems(E) : b \in HitType /\ IsRecorded(b)
      BY <1>3, <1>8, <2>2, <3>1 DEF Xl3HasAll
    <3>3. /\ xl3.read \in 0 .. PER_CRATE - 1 /\ xl3.write \in 0 .. PER_CRATE - 1
          /\ xl3'.read = xl3.read
          /\ xl3'.write = IF xl3.write + 1 = PER_CRATE THEN 0 ELSE xl3.write + 1
      BY <1>1, <1>2 DEF Ring, Stored
    <3>4. DOMAIN E = 1 .. xl3.write + 1
      OBVIOUS
    <3>5. CASE xl3.write + 1 = PER_CRATE
      <4>1. DOMAIN E = 1 .. PER_CRATE
        BY <3>4, <3>5
      <4>2. \A k \in 1 .. PER_CRATE : E[k] \in HitType /\ IsRecorded(E[k])
        BY <3>2, <4>1 DEF Elems
      <4> HIDE DEF E
      <4>3. QED
        BY <1>0, <3>1, <4>1, <4>2, FullNeedsMany
    <3>6. CASE xl3.write + 1 # PER_CRATE
      <4>1. EverInXl3' = E
        BY <3>3, <3>6 DEF EverInXl3
      <4>2. xl3'.read <= xl3'.write
        BY <2>2, <3>3, <3>6 DEF Xl3HasAll
      <4> HIDE DEF E
      <4>3. Ahead(Elems(EverInXl3))'
        BY <1>14, <2>2, <3>1, <4>1 DEF Xl3HasAll, Ahead
      <4>4. QED
        BY <1>7, <3>1, <3>2, <4>1, <4>2, <4>3 DEF Xl3HasAll
    <3>7. QED
      BY <3>5, <3>6
  <2>3. QED
    BY <1>0, <1>1, <2>1, <2>2 DEF WrapNeedsManyHits
<1>20. QED
  BY <1>9, <1>10, <1>11, <1>15, <1>16, <1>17, <1>18, <1>19 DEF IInv

\* A packet is written.
LEMMA WritePacketKeeps ==
  ASSUME IInv, WritePacket
  PROVE  IInv'
<1>0. /\ TypeOK /\ RingsInOrder /\ StagesInOrder /\ HitsBelong /\ HitsAreKept /\ DoneIsRight
      /\ PacketsInOrder /\ WrapNeedsManyHits
  BY DEF IInv
<1>1. /\ xl3 \in Ring(PER_CRATE) /\ packets \in Seq(Seq(HitType))
      /\ xl3.read \in 0 .. PER_CRATE - 1 /\ xl3.write \in 0 .. PER_CRATE - 1
      /\ xl3.read < xl3.write
  BY <1>0 DEF TypeOK, Ring, WritePacket
<1>n. PICK num \in 1 .. xl3.write - xl3.read :
        num = IF xl3.write - xl3.read < MEGASIZE THEN xl3.write - xl3.read ELSE MEGASIZE
  BY <1>1, Sizes
<1>q. PICK q : q = [k \in 1 .. num |-> xl3.slots[xl3.read + k - 1]]
  OBVIOUS
<1>2. /\ packets' = Append(packets, q) /\ xl3' = [xl3 EXCEPT !.read = @ + num]
      /\ UNCHANGED <<file, gtid, channels, fecs, sequencer, current_slot, data_avail, done, stage,
                     ifec, rounds, taken, overrun>>
      /\ stage = "write"
  BY <1>n, <1>q DEF WritePacket
<1>3. /\ xl3' \in Ring(PER_CRATE) /\ q \in Seq(HitType)
      /\ Increasing(Held(xl3', PER_CRATE)) /\ Increasing(q)
      /\ InXl3 = Elems(q) \cup InXl3'
      /\ Before(Elems(q), InXl3')
  <2>1. Increasing(Held(xl3, PER_CRATE)) /\ PER_CRATE \in Nat \ {0}
    BY <1>0, Sizes DEF RingsInOrder
  <2>2. PICK s : s = xl3' /\ s = [read |-> xl3.read + num, write |-> xl3.write, slots |-> xl3.slots]
    BY <1>1, <1>2 DEF Ring
  <2>3. /\ s \in Ring(PER_CRATE) /\ q \in Seq(HitType)
        /\ Increasing(Held(s, PER_CRATE)) /\ Increasing(q)
        /\ Elems(Held(xl3, PER_CRATE)) = Elems(q) \cup Elems(Held(s, PER_CRATE))
        /\ Before(Elems(q), Elems(Held(s, PER_CRATE)))
    BY <1>1, <1>q, <2>1, <2>2, WrittenElems
  <2>4. QED
    BY <2>2, <2>3 DEF InXl3
<1>4. /\ Len(packets) \in Nat /\ DOMAIN packets = 1 .. Len(packets)
      /\ DOMAIN packets' = 1 .. Len(packets) + 1
      /\ packets'[Len(packets) + 1] = q
      /\ \A k \in 1 .. Len(packets) : packets'[k] = packets[k]
      /\ packets' \in Seq(Seq(HitType))
  BY <1>1, <1>2, <1>3
<1>5. 1 .. Len(packets) + 1 = (1 .. Len(packets)) \cup {Len(packets) + 1}
  BY <1>4
<1>6. InPackets' = InPackets \cup Elems(q)
  <2>1. InPackets' = UNION {Elems(packets'[k]) : k \in 1 .. Len(packets) + 1}
    BY <1>4 DEF InPackets, Hits
  <2>2. InPackets = UNION {Elems(packets[k]) : k \in 1 .. Len(packets)}
    BY <1>4 DEF InPackets, Hits
  <2>3. QED
    BY <1>4, <1>5, <2>1, <2>2
<1>7. /\ \A c : InChannel(c)' = InChannel(c)
      /\ \A f : InFec(f)' = InFec(f)
      /\ RecordedHits' = RecordedHits
      /\ \A h : IsRecorded(h)' <=> IsRecorded(h)
      /\ \A c : Recorded(c)' = Recorded(c)
  BY <1>2 DEF InChannel, InFec, RecordedHits, IsRecorded, Recorded
<1>8. TypeOK'
  BY <1>0, <1>2, <1>3, <1>4 DEF TypeOK
<1>9. RingsInOrder'
  BY <1>0, <1>2, <1>3 DEF RingsInOrder
<1>10. PacketsInOrder'
  <2>1. ASSUME NEW k \in 1 .. Len(packets) PROVE Before(Elems(packets[k]), Elems(q))
    <3>1. Elems(packets[k]) \subseteq InPackets
      BY <1>4 DEF InPackets, Hits
    <3>2. QED
      BY <1>0, <1>3, <3>1, BeforeSubset DEF StagesInOrder
  <2>2. ASSUME NEW k \in 1 .. Len(packets) + 1 PROVE Increasing(packets'[k])
    BY <1>0, <1>3, <1>4, <1>5 DEF PacketsInOrder
  <2>3. ASSUME NEW k \in 1 .. Len(packets) + 1, NEW l \in 1 .. Len(packets) + 1, k < l
        PROVE  Before(Elems(packets'[k]), Elems(packets'[l]))
    <3>1. k \in 1 .. Len(packets)
      BY <1>4, <2>3
    <3>2. CASE l = Len(packets) + 1
      BY <1>4, <2>1, <3>1, <3>2
    <3>3. CASE l \in 1 .. Len(packets)
      BY <1>0, <1>4, <2>3, <3>1, <3>3 DEF PacketsInOrder
    <3>4. QED
      BY <1>5, <3>2, <3>3
  <2>4. QED
    BY <1>4, <2>2, <2>3 DEF PacketsInOrder
<1>11. StagesInOrder'
  <2>1. Before(InPackets, InXl3)'
    BY <1>0, <1>3, <1>6 DEF StagesInOrder, Before
  <2>2. Ahead(InPackets)'
    BY <1>0, <1>3, <1>6, <1>7 DEF StagesInOrder, Ahead, Before
  <2>3. Ahead(InXl3)'
    BY <1>0, <1>3, <1>7 DEF StagesInOrder, Ahead, Before
  <2>4. QED
    BY <1>0, <1>7, <2>1, <2>2, <2>3 DEF StagesInOrder
<1>12. HitsBelong'
  BY <1>0, <1>3, <1>6, <1>7 DEF HitsBelong
<1>13. HitsAreKept'
  <2>1. InPackets \cup InXl3 = InPackets' \cup InXl3'
    BY <1>3, <1>6
  <2>2. QED
    BY <1>0, <1>2, <1>7, <2>1 DEF HitsAreKept
<1>14. DoneIsRight'
  BY <1>0, <1>2 DEF DoneIsRight
<1>15. WrapNeedsManyHits'
  <2>1. xl3'.read = xl3.read + num /\ xl3'.write = xl3.write /\ xl3'.slots = xl3.slots
    BY <1>1, <1>2 DEF Ring
  <2>2. EverInXl3' = EverInXl3 /\ xl3'.read <= xl3'.write
    BY <1>1, <2>1 DEF EverInXl3
  <2>3. QED
    BY <1>0, <1>2, <1>7, <2>2 DEF WrapNeedsManyHits, Xl3HasAll, ManyHits, Ahead
<1>16. QED
  BY <1>8, <1>9, <1>10, <1>11, <1>12, <1>13, <1>14, <1>15 DEF IInv

\* An event is read: its hits are newer than all others.
LEMMA ReadEventKeeps ==
  ASSUME IInv, ReadEvent
  PROVE  IInv'
<1>0. /\ TypeOK /\ RingsInOrder /\ StagesInOrder /\ HitsBelong /\ HitsAreKept /\ DoneIsRight
      /\ PacketsInOrder /\ WrapNeedsManyHits
  BY DEF IInv
<1>1. CASE gtid = Len(file)
  <2>1. TypeOK'
    BY <1>0, <1>1 DEF TypeOK, ReadEvent
  <2>2. DoneIsRight'
    BY <1>0, <1>1 DEF DoneIsRight, ReadEvent
  <2>3. QED
    BY <1>1, <2>1, <2>2, QuietKeeps DEF ReadEvent
<1>2. CASE gtid # Len(file)
  <2>1. Len(file) \in Nat /\ gtid \in Nat /\ gtid + 1 \in 1 .. Len(file)
    BY <1>0, <1>2, GeneratorAssumption DEF TypeOK
  <2>g. PICK g \in Nat : g = gtid + 1
    BY <2>1
  <2>2. file[g] \subseteq Channel
    <3>1. file \in Seq(SUBSET Channel)
      BY <1>0, GeneratorAssumption DEF TypeOK, Channel, Card, Chan
    <3>2. QED
      BY <2>1, <2>g, <3>1
  <2>3. /\ gtid' = g
        /\ channels' = [c \in Channel |->
             IF c \in file[g] THEN Stored(channels[c], Hit(c, g), PER_CHANNEL) ELSE channels[c]]
        /\ overrun' = (overrun \/ \E c \in file[g] : IsDrained(channels'[c]))
        /\ rounds' = rounds + 1 /\ stage = "read" /\ done = 0
        /\ UNCHANGED <<file, fecs, sequencer, xl3, current_slot, data_avail, packets, done, stage,
                       ifec, taken>>
    BY <1>2, <2>g DEF ReadEvent
  <2>4. ASSUME NEW h, IsRecorded(h) PROVE IsRecorded(h)' /\ h.gtid < g
    BY <2>1, <2>g, <2>3, <2>4 DEF IsRecorded
  <2>5. ASSUME NEW c \in Channel
        PROVE  /\ channels'[c] \in Ring(PER_CHANNEL)
               /\ Increasing(Held(channels'[c], PER_CHANNEL))
               /\ InChannel(c)' \subseteq InChannel(c) \cup (IF c \in file[g] THEN {Hit(c, g)} ELSE {})
               /\ ~overrun' =>
                    InChannel(c) \cup (IF c \in file[g] THEN {Hit(c, g)} ELSE {}) \subseteq InChannel(c)'
    <3>1. channels[c] \in Ring(PER_CHANNEL) /\ Increasing(Held(channels[c], PER_CHANNEL))
      BY <1>0 DEF TypeOK, RingsInOrder
    <3>2. CASE c \in file[g]
      <4>1. channels'[c] = Stored(channels[c], Hit(c, g), PER_CHANNEL)
        BY <2>3, <3>2
      <4>2. Before(InChannel(c), {Hit(c, g)})
        BY <1>0, <2>4, HitHasType DEF HitsBelong, Before
      <4>3. ~overrun' => ~IsDrained(channels'[c])
        BY <2>3, <3>2
      <4>4. QED
        BY <3>1, <3>2, <4>1, <4>2, <4>3, Sizes, HitHasType, StoredElems DEF InChannel
    <3>3. CASE c \notin file[g]
      BY <2>3, <3>1, <3>3 DEF InChannel
    <3>4. QED
      BY <3>2, <3>3
  <2>6. /\ \A f : InFec(f)' = InFec(f)
        /\ InXl3' = InXl3 /\ InPackets' = InPackets /\ EverInXl3' = EverInXl3
    BY <2>3 DEF InFec, InXl3, InPackets, EverInXl3
  <2>7. TypeOK'
    <3>1. channels' \in [Channel -> Ring(PER_CHANNEL)]
      BY <2>3, <2>5
    <3>2. QED
      BY <1>0, <2>1, <2>g, <2>3, <3>1 DEF TypeOK
  <2>8. RingsInOrder'
    BY <1>0, <2>3, <2>5 DEF RingsInOrder
  <2>9. PacketsInOrder'
    BY <1>0, <2>3 DEF PacketsInOrder
  <2>10. ASSUME NEW A, NEW c \in Channel, Before(A, InChannel(c)), \A h \in A : IsRecorded(h)
         PROVE  Before(A, InChannel(c)')
    <3>1. Before(A, {Hit(c, g)})
      BY <2>4, <2>10, HitHasType DEF Before
    <3>2. Before(A, InChannel(c) \cup {Hit(c, g)})
      BY <2>10, <3>1, BeforeUnion
    <3>3. InChannel(c)' \subseteq InChannel(c) \cup {Hit(c, g)}
      BY <2>5
    <3>4. QED
      BY <3>2, <3>3, BeforeSubset
  <2>11. StagesInOrder'
    <3>1. Ahead(InPackets)' /\ Ahead(InXl3)'
      BY <1>0, <2>6, <2>10 DEF StagesInOrder, HitsBelong, Ahead
    <3>2. ASSUME NEW c \in Channel, NEW f \in Card PROVE Before(InFec(f), InChannel(c)')
      BY <1>0, <2>10 DEF StagesInOrder, HitsBelong
    <3>3. QED
      BY <1>0, <2>6, <3>1, <3>2 DEF StagesInOrder
  <2>12. HitsBelong'
    <3>1. ASSUME NEW c \in Channel, NEW h \in InChannel(c)'
          PROVE  h \in HitType /\ IsRecorded(h)' /\ h.channel = c
      <4>1. CASE h \in InChannel(c)
        BY <1>0, <2>4, <4>1 DEF HitsBelong
      <4>2. CASE c \in file[g] /\ h = Hit(c, g)
        BY <2>1, <2>g, <2>3, <4>2, HitHasType DEF IsRecorded
      <4>3. QED
        BY <2>5, <4>1, <4>2
    <3>2. QED
      BY <1>0, <2>4, <2>6, <3>1 DEF HitsBelong
  <2>13. HitsAreKept'
    <3> SUFFICES ASSUME ~overrun', NEW c \in Channel, NEW e \in Recorded(c)'
                 PROVE  Hit(c, e) \in InPackets' \cup InXl3' \cup InFec(c[1])' \cup InChannel(c)'
      BY DEF HitsAreKept
    <3>1. CASE e = g
      <4>1. c \in file[g]
        BY <2>3, <3>1 DEF Recorded
      <4>2. QED
        BY <2>5, <3>1, <4>1
    <3>2. CASE e # g
      <4>1. e \in Recorded(c)
        BY <2>1, <2>g, <2>3, <3>2 DEF Recorded
      <4>2. ~overrun
        BY <2>3
      <4>3. Hit(c, e) \in InPackets \cup InXl3 \cup InFec(c[1]) \cup InChannel(c)
        BY <1>0, <4>1, <4>2 DEF HitsAreKept
      <4>4. QED
        BY <2>5, <2>6, <4>3
    <3>3. QED
      BY <3>1, <3>2
  <2>14. DoneIsRight'
    BY <1>0, <2>3 DEF DoneIsRight
  <2>15. WrapNeedsManyHits'
    <3>1. ASSUME ManyHits PROVE ManyHits'
      <4>1. IsFiniteSet(RecordedHits) /\ IsFiniteSet(RecordedHits')
        <5>1. RecordedHits \in SUBSET (Channel \X (1 .. gtid))
          BY DEF RecordedHits
        <5>2. RecordedHits' \in SUBSET (Channel \X (1 .. g))
          BY <2>3 DEF RecordedHits
        <5>3. QED
          BY <2>1, <5>1, <5>2, HitsAreFinite
      <4>2. RecordedHits \in SUBSET (RecordedHits')
        BY <2>1, <2>g, <2>3 DEF RecordedHits
      <4>3. Cardinality(RecordedHits) <= Cardinality(RecordedHits')
        BY <4>1, <4>2, FS_Subset
      <4>4. Cardinality(RecordedHits) \in Nat /\ Cardinality(RecordedHits') \in Nat
        BY <4>1, FS_CardinalityType
      <4>5. QED
        BY <3>1, <4>3, <4>4, Sizes DEF ManyHits
    <3>2. ASSUME Xl3HasAll PROVE Xl3HasAll'
      <4>1. Ahead(Elems(EverInXl3))'
        BY <2>6, <2>10, <3>2 DEF Xl3HasAll, Ahead
      <4>2. QED
        BY <2>3, <2>4, <2>6, <3>2, <4>1 DEF Xl3HasAll
    <3>3. QED
      BY <1>0, <2>3, <3>1, <3>2 DEF WrapNeedsManyHits
  <2>16. QED
    BY <2>7, <2>8, <2>9, <2>11, <2>12, <2>13, <2>14, <2>15 DEF IInv
<1>3. QED
  BY <1>1, <1>2

\* Every step keeps the invariant.
LEMMA NextInvariant == IInv /\ [Next]_vars => IInv'
<1> SUFFICES ASSUME IInv, [Next]_vars PROVE IInv'
  OBVIOUS
<1>1. CASE UNCHANGED vars
  BY <1>1, QuietKeeps DEF vars, IInv, TypeOK, DoneIsRight
<1>2. CASE Next
  BY <1>2, QuietSteps, ReadEventKeeps, ReadChannelKeeps, TakeBundleKeeps, WritePacketKeeps DEF Next
<1>3. QED
  BY <1>1, <1>2

\* The inductive invariant: types, order, whereabouts of every hit, and what
\* `done' and the read pointer of the XL3 rely on.
THEOREM GeneratorInvariant == Spec => []IInv
BY InitInvariant, NextInvariant, PTL DEF Spec

-----------------------------------------------------------------------------
(* The properties. *)

\* The parts of the way of a channel's hits.
LEMMA WayParts ==
  ASSUME TypeOK, NEW c \in Channel
  PROVE  /\ Len(packets) \in Nat /\ DOMAIN Way(c) = 1 .. Len(packets) + 3
         /\ \A k \in 1 .. Len(packets) : Way(c)[k] = packets[k]
         /\ Way(c)[Len(packets) + 1] = Held(xl3, PER_CRATE)
         /\ Way(c)[Len(packets) + 2] = Held(fecs[c[1]], PER_FEC)
         /\ Way(c)[Len(packets) + 3] = Held(channels[c], PER_CHANNEL)
         /\ c[1] \in Card
<1>1. packets \in Seq(Seq(HitType)) /\ c[1] \in Card
  BY DEF TypeOK, Channel
<1> DEFINE X == Held(xl3, PER_CRATE)
           F == Held(fecs[c[1]], PER_FEC)
           C == Held(channels[c], PER_CHANNEL)
<1>2. Way(c) = packets \o <<X, F, C>>
  BY DEF Way
<1> HIDE DEF X, F, C
<1>3. Len(packets) \in Nat /\ DOMAIN packets = 1 .. Len(packets) /\ Len(<<X, F, C>>) = 3
  BY <1>1
<1>4. Way(c) = [k \in 1 .. Len(packets) + 3 |->
                  IF k <= Len(packets) THEN packets[k] ELSE <<X, F, C>>[k - Len(packets)]]
  BY <1>2, <1>3
<1>5. \A k \in 1 .. Len(packets) : Way(c)[k] = packets[k]
  BY <1>3, <1>4
<1>6. /\ Way(c)[Len(packets) + 1] = X
      /\ Way(c)[Len(packets) + 2] = F
      /\ Way(c)[Len(packets) + 3] = C
  BY <1>3, <1>4
<1>7. QED
  BY <1>1, <1>3, <1>4, <1>5, <1>6 DEF X, F, C

\* Each part is in order, and before what follows.
LEMMA WayInOrder ==
  ASSUME IInv, NEW c \in Channel
  PROVE  /\ \A k \in DOMAIN Way(c) : Increasing(Way(c)[k])
         /\ \A k, l \in DOMAIN Way(c) : k < l => Before(Elems(Way(c)[k]), Elems(Way(c)[l]))
<1>0. TypeOK /\ RingsInOrder /\ StagesInOrder /\ PacketsInOrder
  BY DEF IInv
<1> DEFINE L == Len(packets)
<1>1. /\ L \in Nat /\ DOMAIN Way(c) = 1 .. L + 3
      /\ \A k \in 1 .. L : Way(c)[k] = packets[k]
      /\ Way(c)[L + 1] = Held(xl3, PER_CRATE)
      /\ Way(c)[L + 2] = Held(fecs[c[1]], PER_FEC)
      /\ Way(c)[L + 3] = Held(channels[c], PER_CHANNEL)
      /\ c[1] \in Card
  BY <1>0, WayParts
<1>2. DOMAIN packets = 1 .. L
  BY <1>0 DEF TypeOK
<1> HIDE DEF L
<1>3. \A k \in DOMAIN Way(c) : k \in 1 .. L \/ k = L + 1 \/ k = L + 2 \/ k = L + 3
  BY <1>1
<1>4. ASSUME NEW k \in DOMAIN Way(c) PROVE Increasing(Way(c)[k])
  BY <1>0, <1>1, <1>2, <1>3 DEF RingsInOrder, PacketsInOrder
<1>5. ASSUME NEW k \in 1 .. L PROVE Elems(Way(c)[k]) \subseteq InPackets
  BY <1>1, <1>2 DEF InPackets, Hits
<1>6. /\ Elems(Way(c)[L + 1]) = InXl3 /\ Elems(Way(c)[L + 2]) = InFec(c[1])
      /\ Elems(Way(c)[L + 3]) = InChannel(c)
  BY <1>1 DEF InXl3, InFec, InChannel
<1>7. ASSUME NEW k \in DOMAIN Way(c), NEW l \in DOMAIN Way(c), k < l
      PROVE  Before(Elems(Way(c)[k]), Elems(Way(c)[l]))
  <2>1. CASE l \in 1 .. L
    <3>1. k \in 1 .. L
      BY <1>1, <1>7, <2>1
    <3>2. QED
      BY <1>0, <1>1, <1>2, <1>7, <2>1, <3>1 DEF PacketsInOrder
  <2>2. CASE k \in 1 .. L /\ l \notin 1 .. L
    <3>1. Before(InPackets, Elems(Way(c)[l]))
      BY <1>0, <1>1, <1>3, <1>6, <2>2 DEF StagesInOrder, Ahead
    <3>2. QED
      BY <1>5, <2>2, <3>1, BeforeSubset
  <2>3. CASE k = L + 1
    <3>1. l = L + 2 \/ l = L + 3
      BY <1>1, <1>3, <1>7, <2>3
    <3>2. QED
      BY <1>0, <1>1, <1>6, <2>3, <3>1 DEF StagesInOrder, Ahead
  <2>4. CASE k = L + 2
    <3>1. l = L + 3
      BY <1>1, <1>3, <1>7, <2>4
    <3>2. QED
      BY <1>0, <1>1, <1>6, <2>4, <3>1 DEF StagesInOrder
  <2>5. CASE k = L + 3
    BY <1>1, <1>7, <2>5
  <2>6. QED
    BY <1>3, <2>1, <2>2, <2>3, <2>4, <2>5
<1>8. QED
  BY <1>4, <1>7

\* The bundles of a channel keep their order through memories of any size, at any
\* pace, and also when these are overrun.
THEOREM GeneratorInOrder == Spec => []ChannelsInOrder
<1>1. IInv => ChannelsInOrder
  <2> SUFFICES ASSUME IInv, NEW c \in Channel,
                      NEW k \in DOMAIN Way(c), NEW l \in DOMAIN Way(c),
                      NEW m \in DOMAIN Way(c)[k], NEW n \in DOMAIN Way(c)[l],
                      Way(c)[k][m].channel = c, Way(c)[l][n].channel = c, Earlier(k, m, l, n)
               PROVE  Way(c)[k][m].gtid < Way(c)[l][n].gtid
    BY DEF ChannelsInOrder
  <2>1. CASE k < l
    <3>1. Way(c)[k][m] \in Elems(Way(c)[k]) /\ Way(c)[l][n] \in Elems(Way(c)[l])
      BY DEF Elems
    <3>2. QED
      BY <2>1, <3>1, WayInOrder DEF Before
  <2>2. CASE k = l /\ m < n
    BY <2>2, WayInOrder DEF Increasing
  <2>3. QED
    BY <2>1, <2>2 DEF Earlier
<1>2. QED
  BY <1>1, GeneratorInvariant, PTL

\* What is on the way.
LEMMA WayHits ==
  ASSUME TypeOK, NEW c \in Channel
  PROVE  Hits(Way(c)) = InPackets \cup InXl3 \cup InFec(c[1]) \cup InChannel(c)
<1> DEFINE L == Len(packets)
           way == Way(c)
<1>1. /\ L \in Nat /\ DOMAIN way = 1 .. L + 3
      /\ \A k \in 1 .. L : way[k] = packets[k]
      /\ way[L + 1] = Held(xl3, PER_CRATE)
      /\ way[L + 2] = Held(fecs[c[1]], PER_FEC)
      /\ way[L + 3] = Held(channels[c], PER_CHANNEL)
  BY WayParts
<1>2. DOMAIN packets = 1 .. L
  BY DEF TypeOK
<1> HIDE DEF L, way
<1>3. /\ Elems(way[L + 1]) = InXl3 /\ Elems(way[L + 2]) = InFec(c[1])
      /\ Elems(way[L + 3]) = InChannel(c)
  BY <1>1 DEF InXl3, InFec, InChannel
<1>4. \A k \in DOMAIN way : k \in 1 .. L \/ k = L + 1 \/ k = L + 2 \/ k = L + 3
  BY <1>1
<1>5. ASSUME NEW h \in Hits(way) PROVE h \in InPackets \cup InXl3 \cup InFec(c[1]) \cup InChannel(c)
  <2>1. PICK k \in DOMAIN way : h \in Elems(way[k])
    BY DEF Hits
  <2>2. CASE k \in 1 .. L
    <3>1. k \in DOMAIN packets /\ h \in Elems(packets[k])
      BY <1>1, <1>2, <2>1, <2>2
    <3>2. QED
      BY <3>1 DEF InPackets, Hits
  <2>3. QED
    BY <1>3, <1>4, <2>1, <2>2
<1>6. InPackets \subseteq Hits(way)
  <2>1. ASSUME NEW k \in DOMAIN packets PROVE Elems(packets[k]) \subseteq Hits(way)
    <3>1. k \in DOMAIN way /\ way[k] = packets[k]
      BY <1>1, <1>2
    <3>2. QED
      BY <3>1 DEF Hits
  <2>2. QED
    BY <2>1 DEF InPackets, Hits
<1>7. InXl3 \subseteq Hits(way) /\ InFec(c[1]) \subseteq Hits(way) /\ InChannel(c) \subseteq Hits(way)
  <2>1. L + 1 \in DOMAIN way /\ L + 2 \in DOMAIN way /\ L + 3 \in DOMAIN way
    BY <1>1
  <2>2. QED
    BY <1>3, <2>1 DEF Hits
<1>8. Hits(way) = InPackets \cup InXl3 \cup InFec(c[1]) \cup InChannel(c)
  BY <1>5, <1>6, <1>7
<1>9. QED
  BY <1>8 DEF way

\* Until a ring is overrun every hit that was read is on its way.
THEOREM GeneratorLosesNothing == Spec => []NothingLost
<1>1. IInv => NothingLost
  <2> SUFFICES ASSUME IInv, ~overrun, NEW c \in Channel
               PROVE  Events(c, Way(c)) = Recorded(c)
    BY DEF NothingLost
  <2>0. TypeOK /\ HitsBelong /\ HitsAreKept /\ c[1] \in Card
    BY DEF IInv, Channel
  <2>1. Hits(Way(c)) = InPackets \cup InXl3 \cup InFec(c[1]) \cup InChannel(c)
    BY <2>0, WayHits
  <2>2. ASSUME NEW h \in Hits(Way(c)), h.channel = c PROVE h.gtid \in Recorded(c)
    BY <2>0, <2>1, <2>2 DEF HitsBelong, IsRecorded, Recorded
  <2>3. ASSUME NEW g \in Recorded(c) PROVE g \in Events(c, Way(c))
    <3>1. Hit(c, g) \in Hits(Way(c))
      BY <2>0, <2>1 DEF HitsAreKept
    <3>2. Hit(c, g).channel = c /\ Hit(c, g).gtid = g
      BY DEF Hit
    <3>3. QED
      BY <3>1, <3>2 DEF Events
  <2>4. Events(c, Way(c)) \subseteq Recorded(c)
    BY <2>2 DEF Events
  <2>5. QED
    BY <2>3, <2>4
<1>2. QED
  BY <1>1, GeneratorInvariant, PTL

\* When the generator ends, all of the file has been read, and without an overrun
\* it is in the packets.
THEOREM GeneratorEndsWritten == Spec => []DoneMeansWritten
<1>1. IInv => DoneMeansWritten
  <2> SUFFICES ASSUME IInv, stage = "end" PROVE
               /\ gtid = Len(file)
               /\ ~overrun => \A c \in Channel : Events(c, packets) = Recorded(c)
    BY DEF DoneMeansWritten
  <2>0. TypeOK /\ HitsBelong /\ HitsAreKept /\ DoneIsRight
    BY DEF IInv
  <2>1. /\ gtid = Len(file) /\ IsDrained(xl3)
        /\ \A c \in Channel : IsDrained(channels[c])
        /\ \A f \in Card : IsDrained(fecs[f])
    BY <2>0 DEF DoneIsRight
  <2>2. ASSUME ~overrun, NEW c \in Channel PROVE Events(c, packets) = Recorded(c)
    <3>1. InXl3 = {} /\ InFec(c[1]) = {} /\ InChannel(c) = {}
      <4>1. c[1] \in Card
        BY DEF Channel
      <4>2. QED
        BY <2>0, <2>1, <4>1, Sizes, HeldElems DEF InXl3, InFec, InChannel, TypeOK
    <3>2. ASSUME NEW h \in Hits(packets), h.channel = c PROVE h.gtid \in Recorded(c)
      BY <2>0, <3>2 DEF HitsBelong, InPackets, IsRecorded, Recorded
    <3>3. ASSUME NEW g \in Recorded(c) PROVE g \in Events(c, packets)
      <4>1. Hit(c, g) \in Hits(packets)
        BY <2>0, <2>2, <3>1 DEF HitsAreKept, InPackets
      <4>2. Hit(c, g).channel = c /\ Hit(c, g).gtid = g
        BY DEF Hit
      <4>3. QED
        BY <4>1, <4>2 DEF Events
    <3>4. Events(c, packets) \subseteq Recorded(c)
      BY <3>2 DEF Events
    <3>5. QED
      BY <3>3, <3>4
  <2>3. QED
    BY <2>1, <2>2
<1>2. QED
  BY <1>1, GeneratorInvariant, PTL

\* The array of the XL3 is left only if the hits that were read would fill it.
THEOREM GeneratorCrashNeedsManyHits == Spec => []CrashNeedsManyHits
<1>1. IInv => CrashNeedsManyHits
  BY DEF IInv, WrapNeedsManyHits, ManyHits, RecordedHits, CrashNeedsManyHits
<1>2. QED
  BY <1>1, GeneratorInvariant, PTL

-----------------------------------------------------------------------------
(* The bundle. *)

\* A field of a word is the same whether the word is shifted or masked first.
LEMMA MaskThenShift ==
  ASSUME NEW x \in Nat
  PROVE  /\ (x % 67108864) \div 2097152 = (x \div 2097152) % 32
         /\ (x % 1073741824) \div 67108864 = (x \div 67108864) % 16
         /\ (x % 2097152) \div 65536 = (x \div 65536) % 32
BY SMT

\* Monitor and generator name the same tube and the same event in a bundle, so
\* that what the monitor averages is what the generator was given.
THEOREM SameNames ==
  ASSUME NEW a, IsBundle(a)
  PROVE  /\ pmtbundle_pmtid(a) = Tube(a)
         /\ chan_id(a) = Tube(a)
         /\ UNPK_FEC_GT24_ID(a) = pmtbundle_gtid(a)
<1>1. a[1] \in Nat /\ a[3] \in Nat
  BY DEF IsBundle, IsWord
<1>2. pmtbundle_pmtid(a) = Tube(a)
  BY DEF pmtbundle_pmtid, get_bits, Tube, UNPK_CRATE_ID, UNPK_BOARD_ID, UNPK_CHANNEL_ID
<1>3. chan_id(a) = Tube(a)
  <2>1. crate(a) = UNPK_CRATE_ID(a) /\ card(a) = UNPK_BOARD_ID(a) /\ channel(a) = UNPK_CHANNEL_ID(a)
    BY <1>1, MaskThenShift DEF crate, card, channel, UNPK_CRATE_ID, UNPK_BOARD_ID, UNPK_CHANNEL_ID
  <2>2. 16 * 32 = 512
    OBVIOUS
  <2> QED BY <2>1, <2>2 DEF chan_id, Tube
<1>4. UNPK_FEC_GT24_ID(a) = pmtbundle_gtid(a)
  <2> DEFINE x == a[1]  y == a[3]
  <2>1. x \div 1 = x
    BY <1>1, SMT
  <2>2. (16 * y) \div 65536 = y \div 4096
    BY <1>1, SMT
  <2>3. (y \div 256) \div 1048576 = y \div 268435456
    BY <1>1, SMT
  <2>4. UNPK_FEC_GT24_ID(a) = (x % 65536) + 65536 * ((y \div 4096) % 16)
                                + 1048576 * ((y \div 268435456) % 16)
    BY <2>2, <2>3 DEF UNPK_FEC_GT24_ID
  <2>5. pmtbundle_gtid(a) = ((x \div 1) % 65536) + 65536 * ((y \div 4096) % 16)
                                + 1048576 * ((y \div 268435456) % 16)
    BY DEF pmtbundle_gtid, get_bits
  <2> QED BY <2>1, <2>4, <2>5
<1> QED BY <1>2, <1>3, <1>4

\* The fields that make a tube's number.
LEMMA TubeFields ==
  ASSUME NEW a, IsBundle(a)
  PROVE  /\ UNPK_CRATE_ID(a) \in Nat /\ UNPK_CRATE_ID(a) < 32
         /\ UNPK_BOARD_ID(a) \in Nat /\ UNPK_BOARD_ID(a) < 16
         /\ UNPK_CHANNEL_ID(a) \in Nat /\ UNPK_CHANNEL_ID(a) < 32
<1> DEFINE x == a[1]
<1>1. x \in Nat
  BY DEF IsBundle, IsWord
<1> HIDE DEF x
<1>2. /\ (x \div 2097152) % 32 \in Nat /\ (x \div 2097152) % 32 < 32
      /\ (x \div 67108864) % 16 \in Nat /\ (x \div 67108864) % 16 < 16
      /\ (x \div 65536) % 32 \in Nat /\ (x \div 65536) % 32 < 32
  BY <1>1, SMT
<1> QED BY <1>2 DEF UNPK_CRATE_ID, UNPK_BOARD_ID, UNPK_CHANNEL_ID, x

\* upload_xl3 uses the number of the tube as an index of an array of 19 * 16 * 32
\* sums without looking at it.  It lies inside exactly if the bundle names one
\* of the nineteen crates; the 5 bits of the field reach further.
THEOREM TubeInArray ==
  ASSUME NEW a, IsBundle(a)
  PROVE  /\ Tube(a) \in Nat /\ Tube(a) <= 16383
         /\ Tube(a) < 19 * 16 * 32 <=> UNPK_CRATE_ID(a) < 19
<1> DEFINE c == UNPK_CRATE_ID(a)  b == UNPK_BOARD_ID(a)  h == UNPK_CHANNEL_ID(a)
<1>1. c \in Nat /\ c < 32 /\ b \in Nat /\ b < 16 /\ h \in Nat /\ h < 32
  BY TubeFields
<1>2. Tube(a) = 512 * c + 32 * b + h
  BY DEF Tube
<1> HIDE DEF c, b, h
<1>3. 512 * c + 32 * b + h \in Nat /\ 512 * c + 32 * b + h <= 16383
      /\ (512 * c + 32 * b + h < 19 * 16 * 32 <=> c < 19)
  BY <1>1, SMT
<1> QED BY <1>2, <1>3 DEF c

\* Two channels of the detector are never added up as one tube.
THEOREM TubeNamesChannel ==
  ASSUME NEW a, IsBundle(a), NEW b, IsBundle(b), Tube(a) = Tube(b)
  PROVE  /\ UNPK_CRATE_ID(a) = UNPK_CRATE_ID(b)
         /\ UNPK_BOARD_ID(a) = UNPK_BOARD_ID(b)
         /\ UNPK_CHANNEL_ID(a) = UNPK_CHANNEL_ID(b)
<1>1. ASSUME NEW c \in Nat, NEW k \in Nat, NEW h \in Nat, c < 32, k < 16, h < 32,
             NEW c2 \in Nat, NEW k2 \in Nat, NEW h2 \in Nat, c2 < 32, k2 < 16, h2 < 32,
             512 * c + 32 * k + h = 512 * c2 + 32 * k2 + h2
      PROVE  c = c2 /\ k = k2 /\ h = h2
  BY <1>1, SMT
<1> DEFINE c(x) == UNPK_CRATE_ID(x)  k(x) == UNPK_BOARD_ID(x)  h(x) == UNPK_CHANNEL_ID(x)
<1>2. /\ c(a) \in Nat /\ c(a) < 32 /\ k(a) \in Nat /\ k(a) < 16 /\ h(a) \in Nat /\ h(a) < 32
      /\ c(b) \in Nat /\ c(b) < 32 /\ k(b) \in Nat /\ k(b) < 16 /\ h(b) \in Nat /\ h(b) < 32
  BY TubeFields
<1>3. 512 * c(a) + 32 * k(a) + h(a) = 512 * c(b) + 32 * k(b) + h(b)
  BY DEF Tube
<1> HIDE DEF c, k, h
<1>4. c(a) = c(b) /\ k(a) = k(b) /\ h(a) = h(b)
  BY <1>1, <1>2, <1>3
<1> QED BY <1>4 DEF c, k, h

\* The three charges have twelve bits, which is what the sums of a document
\* are wide enough for, and different field values are different charges.
THEOREM ChargeIsTwelveBits ==
  ASSUME NEW h \in Nat, NEW k \in Nat
  PROVE  /\ Charge(h) \in Nat /\ Charge(h) <= 4095
         /\ Charge(h) = Charge(k) => h % 4096 = k % 4096
<1>1. ASSUME NEW x \in Nat
      PROVE  /\ x % 2048 \in Nat /\ x % 2048 < 2048
             /\ (x \div 2048) % 2 = 1 \/ (x \div 2048) % 2 = 0
             /\ x % 4096 = 2048 * ((x \div 2048) % 2) + (x % 2048)
  BY SMT
<1> DEFINE m(x) == x % 2048  t(x) == (x \div 2048) % 2  f(x) == x % 4096
<1>2. \A x \in Nat : /\ m(x) \in Nat /\ m(x) < 2048 /\ (t(x) = 1 \/ t(x) = 0)
                     /\ f(x) = 2048 * t(x) + m(x)
                     /\ Charge(x) = IF t(x) = 1 THEN m(x) ELSE m(x) + 2048
  BY <1>1 DEF Charge
<1>3. f(h) = h % 4096 /\ f(k) = k % 4096
  OBVIOUS
<1> HIDE DEF m, t, f
<1>4. Charge(h) \in Nat /\ Charge(h) <= 4095
  BY <1>2, SMT
<1>5. Charge(h) = Charge(k) => f(h) = f(k)
  BY <1>2, SMT
<1> QED BY <1>3, <1>4, <1>5
=============================================================================
