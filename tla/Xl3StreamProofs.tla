--------------------------- MODULE Xl3StreamProofs ---------------------------
(***************************************************************************)
(* Proofs about the data path, for rings, packets and detectors of any     *)
(* size.                                                                   *)
(***************************************************************************)
EXTENDS Xl3Stream, TLAPS

\* A ring that is only pushed and copied: its unread keys start at slot 0.
OkRing(rb) ==
  /\ rb \in RingbufOf(Sample, N)
  /\ rb.read = 0 /\ rb.fill <= N
  /\ rb.write = IF rb.fill = N THEN 0 ELSE rb.fill
  /\ \A j \in 0 .. rb.fill - 1 : rb.keys[j] # NULL

\* A copy of it that is being popped: it has NULL keys only if the ring was
\* full, and its positions never wrap.
OkCopy(t) ==
  /\ t.write \in 1 .. N
  /\ t \in RingbufOf(Sample, t.write + 1)
  /\ t.fill = t.write - t.read
  /\ t.write < N => \A j \in t.read .. t.write - 1 : t.keys[j] # NULL

-----------------------------------------------------------------------------
(* The operations of the ring on such rings. *)

\* The fields of a ring record.
LEMMA RingFields ==
  ASSUME NEW rb, NEW n \in Nat \ {0}, rb \in RingbufOf(Sample, n)
  PROVE  /\ rb.num_keys = n /\ rb.read \in 0 .. n-1 /\ rb.write \in 0 .. n-1
         /\ rb.fill \in 0 .. Word-1
         /\ rb.keys \in [0 .. n-1 -> Sample \cup {NULL}]
         /\ rb = [write |-> rb.write, read |-> rb.read, num_keys |-> n,
                  keys |-> rb.keys, fill |-> rb.fill]
BY WordAssumption DEF RingbufOf

\* What OkRing says of the fields, as numbers.
LEMMA OkFields ==
  ASSUME NEW rb, OkRing(rb)
  PROVE  /\ N \in Nat \ {0} /\ rb.num_keys = N /\ rb.read = 0
         /\ rb.write \in 0 .. N-1 /\ rb.fill \in 0 .. N
         /\ rb.write = IF rb.fill = N THEN 0 ELSE rb.fill
         /\ rb.keys \in [0 .. N-1 -> Sample \cup {NULL}]
         /\ \A j \in 0 .. rb.fill - 1 : rb.keys[j] # NULL
         /\ rb = [write |-> rb.write, read |-> 0, num_keys |-> N,
                  keys |-> rb.keys, fill |-> rb.fill]
         /\ IsFull(rb) <=> rb.fill = N
         /\ IsEmpty(rb) <=> rb.fill = 0
<1>1. N \in Nat \ {0}
  BY RingAssumption
<1>2. /\ rb.num_keys = N /\ rb.write \in 0 .. N-1 /\ rb.fill \in 0 .. Word-1
      /\ rb.keys \in [0 .. N-1 -> Sample \cup {NULL}]
      /\ rb = [write |-> rb.write, read |-> rb.read, num_keys |-> N,
               keys |-> rb.keys, fill |-> rb.fill]
  BY <1>1, RingFields DEF OkRing
<1>3. /\ rb.read = 0 /\ rb.fill <= N
      /\ rb.write = IF rb.fill = N THEN 0 ELSE rb.fill
      /\ \A j \in 0 .. rb.fill - 1 : rb.keys[j] # NULL
  BY DEF OkRing
<1>4. rb.fill \in 0 .. N
  BY <1>1, <1>2, <1>3, WordAssumption
<1>5. (IsFull(rb) <=> rb.fill = N) /\ (IsEmpty(rb) <=> rb.fill = 0)
  BY <1>1, <1>3, <1>4 DEF IsFull, IsEmpty
<1>6. QED
  BY <1>1, <1>2, <1>3, <1>4, <1>5

\* A push keeps it so: full rings stay, others get one more key.
LEMMA PushOk ==
  ASSUME NEW rb, OkRing(rb), NEW s \in Sample
  PROVE  OkRing(RingbufPush(rb, s))
<1>1. CASE IsFull(rb)
  BY <1>1 DEF RingbufPush
<1>2. CASE ~IsFull(rb)
  <2>1. rb.fill \in 0 .. N-1 /\ rb.write = rb.fill /\ N \in Nat \ {0}
    BY <1>2, OkFields
  <2>2. /\ (rb.write + 1) % N = IF rb.fill + 1 = N THEN 0 ELSE rb.fill + 1
        /\ (rb.fill + 1) % Word = rb.fill + 1
    <3>1. CASE rb.fill + 1 = N
      BY <2>1, <3>1, RingAssumption, WordAssumption
    <3>2. CASE rb.fill + 1 # N
      BY <2>1, <3>2, RingAssumption, WordAssumption
    <3>3. QED
      BY <3>1, <3>2
  <2> DEFINE k == [rb.keys EXCEPT ![rb.write] = s]
             w == IF rb.fill + 1 = N THEN 0 ELSE rb.fill + 1
  <2>3. /\ RingbufPush(rb, s).read = 0 /\ RingbufPush(rb, s).num_keys = N
        /\ RingbufPush(rb, s).keys = k
        /\ RingbufPush(rb, s).write = w /\ RingbufPush(rb, s).fill = rb.fill + 1
        /\ RingbufPush(rb, s) = [write |-> w, read |-> 0, num_keys |-> N,
                                 keys |-> k, fill |-> rb.fill + 1]
    <3>1. RingbufPush(rb, s) = [rb EXCEPT !.keys = k, !.write = (rb.write + 1) % N,
                                          !.fill = (rb.fill + 1) % Word]
      BY <1>2, OkFields DEF RingbufPush
    <3>2. RingbufPush(rb, s) = [write |-> w, read |-> 0, num_keys |-> N,
                                keys |-> k, fill |-> rb.fill + 1]
      BY <2>1, <2>2, <3>1, OkFields
    <3>3. QED
      BY <3>2
  <2>4. k \in [0 .. N-1 -> Sample \cup {NULL}] /\ \A j \in 0 .. rb.fill : k[j] # NULL
    BY <2>1, OkFields, NullAssumption
  <2>5. w \in 0 .. N-1 /\ 0 \in 0 .. N-1 /\ rb.fill + 1 \in 0 .. Word-1
    BY <2>1, RingAssumption, WordAssumption
  <2>6. RingbufPush(rb, s) \in RingbufOf(Sample, N)
    BY <2>3, <2>4, <2>5, SMT DEF RingbufOf
  <2>7. (rb.fill + 1) - 1 = rb.fill /\ rb.fill + 1 <= N
    BY <2>1
  <2>8. QED
    BY <2>3, <2>4, <2>6, <2>7 DEF OkRing
<1>3. QED
  BY <1>1, <1>2

\* There is memory for the copy of every fill up to N.
LEMMA SizeOfCopy ==
  ASSUME NEW rb, rb.fill \in 0 .. N
  PROVE  CopySize(rb) = rb.fill + 1
<1>1. rb.fill + 1 \in Nat /\ rb.fill + 1 < Word /\ Word \in Nat
  BY RingAssumption, WordAssumption
<1>2. \A x \in Nat : x < Word => x % Word = x
  BY WordAssumption
<1>3. QED
  BY <1>1, <1>2 DEF CopySize

\* ringbuf_copy stays inside the array it allocates.
LEMMA CopySafe ==
  ASSUME NEW rb, OkRing(rb)
  PROVE  ~CopyOverruns(rb) /\ CopiedPositions(rb) = 0 .. rb.write - 1
<1>1. CopiedPositions(rb) = 0 .. rb.write - 1
  BY OkFields DEF CopiedPositions
<1>2. CopySize(rb) = rb.fill + 1 /\ rb.fill \in 0 .. N
  BY OkFields, SizeOfCopy
<1>3. ~(CopySize(rb) > MaxKeys)
  BY <1>2, RingAssumption, WordAssumption
<1>3a. \A i \in 0 .. rb.write - 1 : i - rb.read \in 0 .. CopySize(rb) - 1
  BY <1>2, OkFields
<1>4. QED
  BY <1>1, <1>3, <1>3a DEF CopyOverruns

\* The fields of a copy that is being popped.
LEMMA CopyFields ==
  ASSUME NEW t, OkCopy(t)
  PROVE  /\ t.write \in 1 .. N /\ t.read \in 0 .. t.write /\ t.num_keys = t.write + 1
         /\ t.fill = t.write - t.read
         /\ t.keys \in [0 .. t.write -> Sample \cup {NULL}]
         /\ t.write < N => \A j \in t.read .. t.write - 1 : t.keys[j] # NULL
         /\ t = [write |-> t.write, read |-> t.read, num_keys |-> t.write + 1,
                 keys |-> t.keys, fill |-> t.fill]
         /\ IsEmpty(t) <=> t.read = t.write
<1>1. t.write \in 1 .. N /\ N \in Nat
  BY RingAssumption DEF OkCopy
<1>2. t.write + 1 \in Nat \ {0} /\ (t.write + 1) - 1 = t.write
  BY <1>1
<1>3. t \in RingbufOf(Sample, t.write + 1)
  BY DEF OkCopy
<1>4. /\ t.num_keys = t.write + 1 /\ t.read \in 0 .. (t.write + 1) - 1
      /\ t.keys \in [0 .. (t.write + 1) - 1 -> Sample \cup {NULL}]
      /\ t = [write |-> t.write, read |-> t.read, num_keys |-> t.write + 1,
              keys |-> t.keys, fill |-> t.fill]
  BY <1>2, <1>3, RingFields
<1>5. /\ t.read \in 0 .. t.write
      /\ t.keys \in [0 .. t.write -> Sample \cup {NULL}]
  BY <1>2, <1>4
<1>6. t.fill = t.write - t.read
  BY DEF OkCopy
<1>7. IsEmpty(t) <=> t.read = t.write
  BY <1>1, <1>5, <1>6 DEF IsEmpty
<1>8. QED
  BY <1>1, <1>4, <1>5, <1>6, <1>7 DEF OkCopy

\* The copy of a ring with samples can be popped as far as it was not full.
LEMMA CopyOk ==
  ASSUME NEW rb, OkRing(rb), ~IsEmpty(rb)
  PROVE  OkCopy(RingbufCopy(rb)) /\ RingbufCopy(rb).read = 0
<1> DEFINE f == rb.fill
           k == [j \in 0 .. f |-> IF j + rb.read \in CopiedPositions(rb)
                                  THEN rb.keys[j + rb.read] ELSE NULL]
<1>1. f \in 1 .. N /\ N \in Nat /\ rb.read = 0 /\ rb.write \in 0 .. N-1
  BY OkFields
<1>2. RingbufCopy(rb) = [write |-> f, read |-> 0, num_keys |-> f + 1,
                         keys |-> k, fill |-> f]
  <2>1. CopySize(rb) = f + 1 /\ (f + 1) - 1 = f
    BY <1>1, SizeOfCopy
  <2>2. QED
    BY <2>1 DEF RingbufCopy
<1>3. CopiedPositions(rb) = 0 .. rb.write - 1
  BY CopySafe
<1>4. k \in [0 .. f -> Sample \cup {NULL}]
  <2> SUFFICES ASSUME NEW j \in 0 .. f
               PROVE  k[j] \in Sample \cup {NULL}
    OBVIOUS
  <2>1. CASE j \in 0 .. rb.write - 1
    BY <1>1, <1>3, <2>1, OkFields
  <2>2. CASE j \notin 0 .. rb.write - 1
    BY <1>1, <1>3, <2>2
  <2>3. QED
    BY <2>1, <2>2
<1>5. f < N => \A j \in 0 .. f - 1 : k[j] # NULL
  <2> SUFFICES ASSUME f < N, NEW j \in 0 .. f - 1
               PROVE  k[j] # NULL
    OBVIOUS
  <2>1. rb.write = f /\ rb.keys[j] # NULL
    BY <1>1, OkFields
  <2>2. QED
    BY <1>1, <1>3, <2>1
<1> HIDE DEF k
<1>6. /\ f \in 0 .. (f + 1) - 1 /\ 0 \in 0 .. (f + 1) - 1 /\ f \in 0 .. Word-1
      /\ k \in [0 .. (f + 1) - 1 -> Sample \cup {NULL}] /\ f = f - 0
  BY <1>1, <1>4, RingAssumption, WordAssumption
<1>7. RingbufCopy(rb) \in RingbufOf(Sample, f + 1)
  BY <1>2, <1>6, SMT DEF RingbufOf
<1>8. /\ RingbufCopy(rb).write = f /\ RingbufCopy(rb).read = 0
      /\ RingbufCopy(rb).fill = f /\ RingbufCopy(rb).keys = k
  BY <1>2
<1>9. QED
  BY <1>1, <1>5, <1>6, <1>7, <1>8 DEF OkCopy

\* A copied ring is empty, with its positions at the start again.
LEMMA CopiedOk ==
  ASSUME NEW rb, OkRing(rb)
  PROVE  OkRing(RingbufCopied(rb))
<1> DEFINE k == [i \in 0 .. N-1 |-> IF i \in CopiedPositions(rb) THEN NULL ELSE rb.keys[i]]
<1>1. DOMAIN rb.keys = 0 .. N-1 /\ N \in Nat \ {0}
  BY OkFields
<1>2. RingbufCopied(rb) = [write |-> 0, read |-> 0, num_keys |-> N, keys |-> k, fill |-> 0]
  BY <1>1, OkFields DEF RingbufCopied
<1>3. k \in [0 .. N-1 -> Sample \cup {NULL}]
  BY OkFields
<1> HIDE DEF k
<1>5. 0 \in 0 .. N-1 /\ 0 \in 0 .. Word-1
  BY <1>1, WordAssumption
<1>6. RingbufCopied(rb) \in RingbufOf(Sample, N)
  BY <1>3, <1>2, <1>5, SMT DEF RingbufOf
<1>7. /\ RingbufCopied(rb).read = 0 /\ RingbufCopied(rb).write = 0
      /\ RingbufCopied(rb).fill = 0
  BY <1>2
<1>8. QED
  BY <1>1, <1>6, <1>7 DEF OkRing

\* A pop moves read on by one; it delivers NULL only if the copied ring was full.
LEMMA PopOk ==
  ASSUME NEW t, OkCopy(t), ~IsEmpty(t)
  PROVE  /\ OkCopy(RingbufPop(t))
         /\ RingbufPop(t).read = t.read + 1 /\ RingbufPop(t).write = t.write
         /\ t.read \in 0 .. N-1
         /\ PoppedKey(t) \in Sample \cup {NULL}
         /\ PoppedKey(t) = NULL => t.write = N
<1> DEFINE k == [t.keys EXCEPT ![t.read] = NULL]
<1>1. /\ t.write \in 1 .. N /\ N \in Nat \ {0} /\ t.read \in 0 .. t.write - 1
      /\ t.fill = t.write - t.read /\ t.num_keys = t.write + 1
  BY CopyFields, RingAssumption
<1>2. (t.read + 1) % (t.write + 1) = t.read + 1
  BY <1>1
<1>3. (t.fill - 1) % Word = t.write - (t.read + 1)
  <2>1. t.fill - 1 = t.write - (t.read + 1) /\ t.fill - 1 \in Nat /\ t.fill - 1 < Word
    BY <1>1, RingAssumption, WordAssumption
  <2>2. \A x \in Nat : x < Word => x % Word = x
    BY WordAssumption
  <2>3. QED
    BY <2>1, <2>2
<1>4. RingbufPop(t) = [t EXCEPT !.keys = k, !.read = (t.read + 1) % (t.write + 1),
                                !.fill = (t.fill - 1) % Word]
  BY CopyFields DEF RingbufPop
<1>5. RingbufPop(t) = [write |-> t.write, read |-> t.read + 1, num_keys |-> t.write + 1,
                       keys |-> k, fill |-> t.write - (t.read + 1)]
  BY <1>2, <1>3, <1>4, CopyFields
<1>6. /\ RingbufPop(t).write = t.write /\ RingbufPop(t).read = t.read + 1
      /\ RingbufPop(t).keys = k /\ RingbufPop(t).fill = t.write - (t.read + 1)
  BY <1>5
<1>7. k \in [0 .. t.write -> Sample \cup {NULL}]
  BY CopyFields
<1>8. t.write < N => \A j \in t.read + 1 .. t.write - 1 : k[j] # NULL
  BY <1>1, CopyFields
<1> HIDE DEF k
<1>9. /\ t.write \in 0 .. (t.write + 1) - 1 /\ t.read + 1 \in 0 .. (t.write + 1) - 1
      /\ t.write - (t.read + 1) \in 0 .. Word-1
      /\ k \in [0 .. (t.write + 1) - 1 -> Sample \cup {NULL}]
  BY <1>1, <1>7, RingAssumption, WordAssumption
<1>10. RingbufPop(t) \in RingbufOf(Sample, t.write + 1)
  BY <1>5, <1>9, SMT DEF RingbufOf
<1>11. OkCopy(RingbufPop(t))
  BY <1>1, <1>6, <1>8, <1>10 DEF OkCopy
<1>12. PoppedKey(t) \in Sample \cup {NULL} /\ (PoppedKey(t) = NULL => t.write = N)
  BY <1>1, CopyFields DEF PoppedKey
<1>13. QED
  BY <1>1, <1>6, <1>11, <1>12

-----------------------------------------------------------------------------
(* The invariant. *)

\* The variables that are not rings.
Typed ==
  /\ phase \in {"loop", "read", "upload", "crashed"}
  /\ con \in Con \cup {NULL} /\ (phase = "read" <=> con # NULL)
  /\ input \in [Con -> Nat]
  /\ todo \in 0 .. MaxBundles
  /\ pmts \in [Pmt -> Total] /\ batch \in [Pmt -> Total]

\* Whole packets are only in the buffer that is being read.
Waits ==
  \A c \in Xl3Con \cup OtherCon : input[c] >= PktSize => phase = "read" /\ con = c

\* A sum has at most MaxCharge of every sample popped so far.
Uploading ==
  /\ phase = "upload" =>
       OkCopy(tmpbuf) /\ \A p \in Pmt : pmts[p].sum <= tmpbuf.read * MaxCharge
  /\ phase \in {"loop", "read"} => tmpbuf = NULL /\ pmts = Zero

IInv == Typed /\ Waits /\ OkRing(xl3_buf) /\ Uploading

\* A copy is not the null pointer.
LEMMA CopyNotNull ==
  ASSUME NEW t, OkCopy(t)
  PROVE  t # NULL
<1>1. t.write + 1 \in 1 .. N+1 /\ t \in RingbufOf(Sample, t.write + 1)
  BY RingAssumption DEF OkCopy
<1>2. QED
  BY <1>1, NullAssumption

\* The invariant implies the properties.
LEMMA IInvImplies ==
  ASSUME IInv
  PROVE  TypeOK /\ NoPacketWaits /\ CopyIsSafe /\ SumsHaveRoom
<1>1. TypeOK
  <2>1. xl3_buf \in RingbufOf(Sample, N)
    BY DEF IInv, OkRing
  <2>2. phase = "upload" => tmpbuf # NULL
    BY CopyNotNull DEF IInv, Uploading
  <2>3. QED
    BY <2>1, <2>2 DEF IInv, Typed, Uploading, TypeOK
<1>2. NoPacketWaits
  BY SizesAssumption DEF IInv, Typed, Waits, NoPacketWaits, Con
<1>3. CopyIsSafe
  BY CopySafe DEF IInv, CopyIsSafe
<1>4. SumsHaveRoom
  <2> SUFFICES ASSUME phase = "upload", ~IsEmpty(tmpbuf), PoppedKey(tmpbuf) # NULL
               PROVE  pmts[PoppedKey(tmpbuf).pmt].sum + PoppedKey(tmpbuf).charge < SumWord
    BY DEF SumsHaveRoom
  <2> DEFINE s == PoppedKey(tmpbuf)
             r == tmpbuf.read
  <2>1. s \in Sample /\ r \in 0 .. N-1
    BY PopOk DEF IInv, Uploading
  <2>2. s.pmt \in Pmt /\ s.charge \in 0 .. MaxCharge
    BY <2>1 DEF Sample, Charge
  <2>3. pmts[s.pmt].sum \in Nat /\ pmts[s.pmt].sum <= r * MaxCharge
    BY <2>2 DEF IInv, Uploading, Typed, Total
  <2> HIDE DEF s, r
  <2>4. (r + 1) * MaxCharge <= N * MaxCharge
    BY <2>1, RingAssumption, ChargeAssumption
  <2>5. r * MaxCharge \in Nat /\ (r + 1) * MaxCharge = r * MaxCharge + MaxCharge
    BY <2>1, RingAssumption, ChargeAssumption
  <2>6. N * MaxCharge \in Nat /\ MaxCharge \in Nat /\ SumWord \in Nat /\ N * MaxCharge < SumWord
    BY RingAssumption, ChargeAssumption
  <2>7. pmts[s.pmt].sum + s.charge < SumWord
    BY <2>2, <2>3, <2>4, <2>5, <2>6
  <2>8. QED
    BY <2>7 DEF s
<1>5. QED
  BY <1>1, <1>2, <1>3, <1>4

\* It holds initially.
LEMMA InitIInv == Init => IInv
<1> SUFFICES ASSUME Init PROVE IInv
  OBVIOUS
<1>1. Zero \in [Pmt -> Total]
  BY DEF Zero, Total
<1>2. Typed
  BY <1>1, SizesAssumption DEF Init, Typed
<1>3. Waits
  BY SizesAssumption DEF Init, Waits, Con
<1>4. OkRing(xl3_buf)
  <2>1. xl3_buf = [write |-> 0, read |-> 0, num_keys |-> N,
                   keys |-> [i \in 0 .. N-1 |-> NULL], fill |-> 0]
    BY DEF Init, RingbufInit
  <2>2. 0 \in 0 .. N-1 /\ 0 \in 0 .. Word-1 /\ N \in Nat \ {0}
    BY RingAssumption, WordAssumption
  <2>3. xl3_buf \in RingbufOf(Sample, N)
    BY <2>1, <2>2 DEF RingbufOf
  <2>4. QED
    BY <2>1, <2>2, <2>3 DEF OkRing
<1>5. Uploading
  BY DEF Init, Uploading
<1>6. QED
  BY <1>2, <1>3, <1>4, <1>5 DEF IInv

\* The steps of data_read_cb preserve it.
LEMMA ReadIInv ==
  ASSUME IInv,
         \/ \E c \in Con, n \in 1 .. MaxRead : Receive(c, n)
         \/ \E c \in Con : Close(c)
         \/ ReadStep
  PROVE  IInv'
<1> USE DEF IInv
<1>1. ASSUME NEW c \in Con, NEW n \in 1 .. MaxRead, Receive(c, n) PROVE IInv'
  <2>1. n \in Nat /\ MaxRead \in Nat /\ PktSize \in Nat \ {0}
    BY SizesAssumption
  <2>2. Typed'
    BY <1>1, <2>1, NullAssumption DEF Receive, Typed
  <2>3. Waits'
    BY <1>1, <2>1, ConAssumption DEF Receive, Typed, Waits, Con
  <2>4. OkRing(xl3_buf)' /\ Uploading'
    BY <1>1 DEF Receive, Uploading
  <2>5. QED
    BY <2>2, <2>3, <2>4
<1>2. ASSUME NEW c \in Con, Close(c) PROVE IInv'
  <2>1. Typed' /\ Waits'
    BY <1>2, SizesAssumption DEF Close, Typed, Waits, Con
  <2>2. OkRing(xl3_buf)' /\ Uploading'
    BY <1>2 DEF Close, Uploading
  <2>3. QED
    BY <2>1, <2>2
<1>3. ASSUME TakePacket PROVE IInv'
  <2>1. Typed'
    <3>1. con \in Con /\ input[con] \in Nat /\ input[con] - PktSize \in Nat
      BY <1>3, SizesAssumption DEF TakePacket, Typed
    <3>2. input' \in [Con -> Nat]
      BY <1>3, <3>1 DEF TakePacket, Typed
    <3>3. QED
      BY <1>3, <3>2 DEF TakePacket, Typed
  <2>2. Waits'
    BY <1>3 DEF TakePacket, Typed, Waits, Con
  <2>3. OkRing(xl3_buf)' /\ Uploading'
    BY <1>3 DEF TakePacket, Uploading
  <2>4. QED
    BY <2>1, <2>2, <2>3
<1>4. ASSUME NEW s \in Sample, PushBundle(s) PROVE IInv'
  <2>1. Typed'
    <3>1. s.pmt \in Pmt /\ s.charge \in Nat
      BY ChargeAssumption DEF Sample, Charge
    <3>2. todo' \in 0 .. MaxBundles
      BY <1>4, SizesAssumption DEF PushBundle, Typed
    <3>3. batch' \in [Pmt -> Total]
      BY <1>4, <3>1 DEF PushBundle, Typed, Total
    <3>4. QED
      BY <1>4, <3>2, <3>3 DEF PushBundle, Typed
  <2>2. Waits' /\ Uploading'
    BY <1>4 DEF PushBundle, Waits, Uploading
  <2>3. OkRing(RingbufPush(xl3_buf, s))
    BY PushOk
  <2>4. QED
    BY <1>4, <2>1, <2>2, <2>3 DEF PushBundle
<1>5. ASSUME EndRead PROVE IInv'
  <2>1. Typed' /\ Uploading' /\ OkRing(xl3_buf)'
    BY <1>5, NullAssumption DEF EndRead, Typed, Uploading
  <2>2. Waits'
    BY <1>5, SizesAssumption DEF EndRead, Typed, Waits, Con
  <2>3. QED
    BY <2>1, <2>2
<1>6. QED
  BY <1>1, <1>2, <1>3, <1>4, <1>5 DEF ReadStep

\* The steps of xl3_watcher_cb preserve it.
LEMMA UploadIInv ==
  ASSUME IInv, Watch \/ UploadStep
  PROVE  IInv'
<1> USE DEF IInv
<1>1. ASSUME Watch PROVE IInv'
  <2>1. /\ phase' = "upload"
        /\ tmpbuf' = RingbufCopy(xl3_buf) /\ xl3_buf' = RingbufCopied(xl3_buf)
    BY <1>1, CopySafe DEF Watch
  <2>2. OkRing(xl3_buf')
    BY <2>1, CopiedOk
  <2>3. OkCopy(tmpbuf') /\ tmpbuf'.read = 0
    BY <1>1, <2>1, CopyOk DEF Watch
  <2>4. \A p \in Pmt : pmts'[p].sum <= 0 * MaxCharge
    BY <1>1, ChargeAssumption DEF Watch, Uploading, Zero
  <2>5. Uploading'
    BY <2>1, <2>3, <2>4 DEF Uploading
  <2>6. Typed' /\ Waits'
    BY <1>1, <2>1 DEF Watch, Typed, Waits, Con
  <2>7. QED
    BY <2>2, <2>5, <2>6
<1>2. ASSUME PopSample PROVE IInv'
  <2> DEFINE s == PoppedKey(tmpbuf)
             r == tmpbuf.read
  <2>1. /\ OkCopy(tmpbuf') /\ tmpbuf'.read = r + 1 /\ r \in 0 .. N-1
        /\ s \in Sample \cup {NULL} /\ tmpbuf' = RingbufPop(tmpbuf)
    BY <1>2, PopOk DEF PopSample, Uploading
  <2>2. OkRing(xl3_buf')
    BY <1>2 DEF PopSample
  <2>3. CASE s = NULL
    <3>1. phase' = "crashed" /\ UNCHANGED <<pmts, con, input, todo, batch>>
      BY <1>2, <2>3 DEF PopSample
    <3>2. Typed' /\ Waits' /\ Uploading'
      BY <1>2, <3>1 DEF PopSample, Typed, Waits, Uploading
    <3>3. QED
      BY <2>2, <3>2
  <2>4. CASE s # NULL
    <3> DEFINE q == s.pmt
    <3>1. /\ phase' = phase /\ UNCHANGED <<con, input, todo, batch>>
          /\ pmts' = AddSample(pmts, s)
      BY <1>2, <2>4 DEF PopSample
    <3>2. q \in Pmt /\ s.charge \in 0 .. MaxCharge
      BY <2>1, <2>4 DEF Sample, Charge
    <3>3. pmts[q] \in Total /\ pmts[q].sum <= r * MaxCharge
      BY <1>2, <3>2 DEF PopSample, Uploading, Typed
    <3>4. pmts[q].sum + s.charge < SumWord
      BY <1>2, <2>4, IInvImplies DEF PopSample, SumsHaveRoom
    <3>5. (pmts[q].sum + s.charge) % SumWord = pmts[q].sum + s.charge
      <4>1. pmts[q].sum + s.charge \in Nat
        BY <3>2, <3>3, ChargeAssumption DEF Total
      <4>2. \A x \in Nat : x < SumWord => x % SumWord = x
        BY ChargeAssumption
      <4>3. QED
        BY <3>4, <4>1, <4>2
    <3>6. pmts' = [pmts EXCEPT ![q] = [sum |-> pmts[q].sum + s.charge,
                                       count |-> pmts[q].count + 1]]
      BY <3>1, <3>2, <3>5 DEF AddSample, Typed
    <3>7. [sum |-> pmts[q].sum + s.charge, count |-> pmts[q].count + 1] \in Total
      BY <3>2, <3>3, ChargeAssumption DEF Total
    <3>8. pmts' \in [Pmt -> Total]
      BY <3>2, <3>6, <3>7 DEF Typed
    <3>9. \A p \in Pmt : pmts'[p].sum <= (r + 1) * MaxCharge
      <4>1. (r + 1) * MaxCharge = r * MaxCharge + MaxCharge /\ r * MaxCharge \in Nat
        BY <2>1, RingAssumption, ChargeAssumption
      <4> SUFFICES ASSUME NEW p \in Pmt PROVE pmts'[p].sum <= (r + 1) * MaxCharge
        OBVIOUS
      <4>2. pmts[p].sum \in Nat /\ pmts[p].sum <= r * MaxCharge /\ MaxCharge \in Nat
        BY <1>2, ChargeAssumption DEF PopSample, Uploading, Typed, Total
      <4>3. CASE p = q
        <5>1. pmts'[p].sum = pmts[q].sum + s.charge
          BY <3>2, <3>6, <4>3 DEF Typed
        <5> HIDE DEF s, r, q
        <5>2. QED
          BY <3>2, <4>1, <4>2, <4>3, <5>1
      <4>4. CASE p # q
        <5>1. pmts'[p].sum = pmts[p].sum
          BY <3>6, <4>4 DEF Typed
        <5> HIDE DEF s, r, q
        <5>2. QED
          BY <4>1, <4>2, <5>1
      <4>5. QED
        BY <4>3, <4>4
    <3>10. Typed' /\ Waits'
      BY <3>1, <3>8 DEF Typed, Waits
    <3>11. Uploading'
      BY <1>2, <2>1, <3>1, <3>9 DEF PopSample, Uploading
    <3>12. QED
      BY <2>2, <3>10, <3>11
  <2>5. QED
    BY <2>3, <2>4
<1>3. ASSUME Upload PROVE IInv'
  <2>1. Zero \in [Pmt -> Total]
    BY DEF Zero, Total
  <2>2. Typed' /\ Waits' /\ OkRing(xl3_buf')
    BY <1>3, <2>1 DEF Upload, Typed, Waits
  <2>3. Uploading'
    BY <1>3 DEF Upload, Uploading
  <2>4. QED
    BY <2>2, <2>3
<1>4. QED
  BY <1>1, <1>2, <1>3 DEF UploadStep

\* Every step preserves it.
LEMMA StepIInv == IInv /\ [Next]_vars => IInv'
<1> SUFFICES ASSUME IInv, [Next]_vars PROVE IInv'
  OBVIOUS
<1>1. CASE Next
  BY <1>1, ReadIInv, UploadIInv DEF Next
<1>2. CASE UNCHANGED vars
  BY <1>2 DEF vars, IInv, Typed, Waits, Uploading
<1>3. QED
  BY <1>1, <1>2

-----------------------------------------------------------------------------
(* The theorems. *)

\* The invariant holds in every reachable state.
THEOREM StreamInvariant == Spec => []IInv
BY InitIInv, StepIInv, PTL DEF Spec

\* The variables of the data path keep their types: the positions of xl3_buf
\* stay in its array whatever the packets bring.
THEOREM StreamTypeOK == Spec => []TypeOK
BY StreamInvariant, IInvImplies, PTL

\* data_read_cb leaves no whole packet behind.
THEOREM StreamNoPacketWaits == Spec => []NoPacketWaits
BY StreamInvariant, IInvImplies, PTL

\* ringbuf_copy never meets a ring on which it writes out of bounds.
THEOREM StreamCopyIsSafe == Spec => []CopyIsSafe
BY StreamInvariant, IInvImplies, PTL

\* A ring of N samples of at most MaxCharge cannot overflow a sum: for the
\* million samples of 12 bits of the monitor, N * MaxCharge is below 2^32.
THEOREM StreamSumsHaveRoom == Spec => []SumsHaveRoom
BY StreamInvariant, IInvImplies, PTL

\* upload_xl3 meets a NULL key only in the copy of a full ring.
THEOREM StreamCrashOnlyAfterFull == Spec => CrashOnlyAfterFull
<1>1. IInv /\ [Next]_vars => [phase' = "crashed" => tmpbuf # NULL /\ tmpbuf.write = N]_vars
  <2> SUFFICES ASSUME IInv, Next, phase' = "crashed"
               PROVE  tmpbuf # NULL /\ tmpbuf.write = N
    OBVIOUS
  <2>1. CASE PopSample
    <3>1. OkCopy(tmpbuf) /\ PoppedKey(tmpbuf) = NULL
      BY <2>1 DEF PopSample, IInv, Uploading
    <3>2. QED
      BY <2>1, <3>1, CopyNotNull, PopOk DEF PopSample
  <2>2. CASE Watch
    BY <2>2, CopySafe DEF Watch, IInv
  <2>3. CASE ~(PopSample \/ Watch)
    BY <2>3 DEF Next, Receive, Close, ReadStep, TakePacket, PushBundle, EndRead,
                UploadStep, Upload
  <2>4. QED
    BY <2>1, <2>2, <2>3
<1>2. QED
  BY <1>1, StreamInvariant, PTL DEF Spec, CrashOnlyAfterFull

-----------------------------------------------------------------------------
(* What a document adds up.  A sum over the keys of a ring is said to exist, by  *)
(* the row of its partial sums: a push puts one behind it, a pop goes on to the  *)
(* next, and nothing has to be computed by recursion.                            *)

\* A sample added, with sums of any size.
Counted(totals, s) ==
  [totals EXCEPT ![s.pmt] = [sum |-> @.sum + s.charge, count |-> @.count + 1]]

\* The keys from slot lo to hi - 1 make `to' of `from'.
AddsUp(keys, lo, hi, from, to) ==
  \E T \in [Nat -> [Pmt -> Total]] :
    /\ T[lo] = from /\ T[hi] = to
    /\ \A j \in lo .. hi - 1 : T[j + 1] = Counted(T[j], keys[j])

\* What is accepted and not in a document yet is in the ring or, while the watcher
\* runs, in its copy and the sums so far; or the copy has nothing to pop but NULL.
Accounted ==
  /\ phase \in {"loop", "read"} => AddsUp(xl3_buf.keys, 0, xl3_buf.fill, Zero, batch)
  /\ phase = "upload" =>
       /\ xl3_buf.fill = 0
       /\ IF tmpbuf.write = N THEN tmpbuf.read = 0 /\ tmpbuf.keys[0] = NULL
          ELSE AddsUp(tmpbuf.keys, tmpbuf.read, tmpbuf.write, pmts, batch)
  /\ phase # "loop" => doc = NULL

\* Nothing makes nothing.
LEMMA NothingAddsUp ==
  ASSUME NEW keys, NEW n \in Nat, NEW z \in [Pmt -> Total]
  PROVE  AddsUp(keys, n, n, z, z)
<1> DEFINE T == [i \in Nat |-> z]
<1>1. T \in [Nat -> [Pmt -> Total]] /\ T[n] = z /\ \A j \in n .. n - 1 : FALSE
  OBVIOUS
<1> HIDE DEF T
<1>2. QED
  BY <1>1 DEF AddsUp

\* What a sample is counted into stays a table of totals.
LEMMA CountedType ==
  ASSUME NEW z \in [Pmt -> Total], NEW s \in Sample
  PROVE  Counted(z, s) \in [Pmt -> Total]
<1>1. s.pmt \in Pmt /\ s.charge \in Nat
  BY ChargeAssumption DEF Sample, Charge
<1>2. z[s.pmt].sum \in Nat /\ z[s.pmt].count \in Nat
  BY <1>1 DEF Total
<1>3. [sum |-> z[s.pmt].sum + s.charge, count |-> z[s.pmt].count + 1] \in Total
  BY <1>1, <1>2 DEF Total
<1>4. QED
  BY <1>1, <1>3 DEF Counted

\* One key more.
LEMMA PushAddsUp ==
  ASSUME NEW keys, NEW keys2, NEW n \in Nat, NEW s \in Sample, NEW z, NEW b \in [Pmt -> Total],
         AddsUp(keys, 0, n, z, b), keys2[n] = s, \A j \in 0 .. n - 1 : keys2[j] = keys[j]
  PROVE  AddsUp(keys2, 0, n + 1, z, Counted(b, s))
<1>1. PICK T \in [Nat -> [Pmt -> Total]] :
        /\ T[0] = z /\ T[n] = b
        /\ \A j \in 0 .. n - 1 : T[j + 1] = Counted(T[j], keys[j])
  BY DEF AddsUp
<1>c. PICK x \in [Pmt -> Total] : x = Counted(b, s)
  BY CountedType
<1> DEFINE U == [T EXCEPT ![n + 1] = x]
<1>2. /\ U \in [Nat -> [Pmt -> Total]] /\ U[n + 1] = x
      /\ \A j \in 0 .. n : U[j] = T[j]
  BY <1>1
<1> HIDE DEF U
<1>3. U[0] = z
  BY <1>1, <1>2
<1>4. ASSUME NEW j \in 0 .. (n + 1) - 1 PROVE U[j + 1] = Counted(U[j], keys2[j])
  <2>1. CASE j = n
    BY <1>1, <1>2, <1>c, <2>1
  <2>2. CASE j # n
    <3>1. j \in 0 .. n - 1 /\ j + 1 \in 0 .. n /\ j \in 0 .. n
      BY <2>2
    <3>2. QED
      BY <1>1, <1>2, <3>1
  <2>3. QED
    BY <2>1, <2>2
<1>5. U[n + 1] = Counted(b, s)
  BY <1>2, <1>c
<1>6. QED
  BY <1>2, <1>3, <1>4, <1>5 DEF AddsUp

\* The first key taken away, and counted.
LEMMA PopAddsUp ==
  ASSUME NEW keys, NEW keys2, NEW lo \in Nat, NEW hi \in Nat, lo < hi, NEW z, NEW b,
         AddsUp(keys, lo, hi, z, b), \A j \in lo + 1 .. hi - 1 : keys2[j] = keys[j]
  PROVE  AddsUp(keys2, lo + 1, hi, Counted(z, keys[lo]), b)
<1>1. PICK T \in [Nat -> [Pmt -> Total]] :
        /\ T[lo] = z /\ T[hi] = b
        /\ \A j \in lo .. hi - 1 : T[j + 1] = Counted(T[j], keys[j])
  BY DEF AddsUp
<1>2. T[lo + 1] = Counted(z, keys[lo])
  BY <1>1
<1>3. \A j \in lo + 1 .. hi - 1 : T[j + 1] = Counted(T[j], keys2[j])
  BY <1>1
<1>4. QED
  BY <1>1, <1>2, <1>3 DEF AddsUp

LEMMA SameAddsUp ==
  ASSUME NEW keys, NEW keys2, NEW lo, NEW hi, NEW z, NEW b,
         AddsUp(keys, lo, hi, z, b), \A j \in lo .. hi - 1 : keys2[j] = keys[j]
  PROVE  AddsUp(keys2, lo, hi, z, b)
<1>1. PICK T \in [Nat -> [Pmt -> Total]] :
        /\ T[lo] = z /\ T[hi] = b
        /\ \A j \in lo .. hi - 1 : T[j + 1] = Counted(T[j], keys[j])
  BY DEF AddsUp
<1>2. \A j \in lo .. hi - 1 : T[j + 1] = Counted(T[j], keys2[j])
  BY <1>1
<1>3. QED
  BY <1>1, <1>2 DEF AddsUp

LEMMA InitAccounted == Init => Accounted
<1> SUFFICES ASSUME Init PROVE Accounted
  OBVIOUS
<1>1. Zero \in [Pmt -> Total]
  BY DEF Zero, Total
<1>2. AddsUp(xl3_buf.keys, 0, 0, Zero, Zero)
  BY <1>1, NothingAddsUp
<1>3. QED
  BY <1>2 DEF Init, RingbufInit, Accounted

LEMMA PushAccounted ==
  ASSUME IInv, Accounted, NEW s \in Sample, PushBundle(s)
  PROVE  Accounted'
<1>1. phase = "read" /\ phase' = "read" /\ doc' = doc /\ xl3_buf' = RingbufPush(xl3_buf, s)
  BY DEF PushBundle
<1>2. /\ OkRing(xl3_buf) /\ AddsUp(xl3_buf.keys, 0, xl3_buf.fill, Zero, batch) /\ doc = NULL
      /\ batch \in [Pmt -> Total]
  BY <1>1 DEF IInv, Accounted, Typed
<1>3. CASE IsFull(xl3_buf)
  BY <1>1, <1>2, <1>3 DEF PushBundle, RingbufPush, Accounted
<1>4. CASE ~IsFull(xl3_buf)
  <2>1. PICK n \in 0 .. N - 1 : n = xl3_buf.fill /\ xl3_buf.write = n
    BY <1>2, <1>4, OkFields
  <2>2. xl3_buf.keys \in [0 .. N-1 -> Sample \cup {NULL}] /\ N \in Nat \ {0}
    BY <1>2, OkFields
  <2>3. /\ xl3_buf'.keys = [xl3_buf.keys EXCEPT ![n] = s]
        /\ xl3_buf'.fill = n + 1
    <3>1. (n + 1) % Word = n + 1
      BY <2>1, RingAssumption, WordAssumption
    <3>2. QED
      BY <1>1, <1>2, <1>4, <2>1, <3>1, OkFields DEF RingbufPush
  <2>4. xl3_buf'.keys[n] = s /\ \A j \in 0 .. n - 1 : xl3_buf'.keys[j] = xl3_buf.keys[j]
    BY <2>1, <2>2, <2>3
  <2>5. AddsUp(xl3_buf'.keys, 0, n + 1, Zero, Counted(batch, s))
    BY <1>2, <2>1, <2>4, PushAddsUp
  <2>6. batch' = Counted(batch, s)
    BY <1>4 DEF PushBundle, Counted
  <2>7. QED
    BY <1>1, <1>2, <2>3, <2>5, <2>6 DEF Accounted
<1>5. QED
  BY <1>3, <1>4

LEMMA WatchAccounted ==
  ASSUME IInv, Accounted, Watch
  PROVE  Accounted'
<1>1. OkRing(xl3_buf)
  BY DEF IInv
<1>2. /\ phase = "loop" /\ phase' = "upload" /\ ~IsEmpty(xl3_buf)
      /\ tmpbuf' = RingbufCopy(xl3_buf) /\ xl3_buf' = RingbufCopied(xl3_buf)
      /\ doc' = NULL /\ pmts' = pmts /\ batch' = batch
  BY <1>1, CopySafe DEF Watch
<1>3. PICK n \in 0 .. N : n = xl3_buf.fill
  BY <1>1, OkFields
<1>4. N \in Nat \ {0} /\ xl3_buf.read = 0 /\ xl3_buf.write = IF n = N THEN 0 ELSE n
  BY <1>1, <1>3, OkFields
<1>5. pmts = Zero /\ AddsUp(xl3_buf.keys, 0, n, Zero, batch)
  BY <1>2, <1>3 DEF IInv, Uploading, Accounted
<1>6. CopiedPositions(xl3_buf) = 0 .. xl3_buf.write - 1
  BY <1>1, CopySafe
<1>7. /\ tmpbuf'.write = n /\ tmpbuf'.read = 0 /\ xl3_buf'.fill = 0
      /\ \A j \in 0 .. n : tmpbuf'.keys[j] = IF j \in 0 .. xl3_buf.write - 1
                                              THEN xl3_buf.keys[j] ELSE NULL
  <2>1. CopySize(xl3_buf) = n + 1 /\ (n + 1) - 1 = n
    BY <1>3, SizeOfCopy
  <2>2. QED
    BY <1>2, <1>3, <1>4, <1>6, <2>1 DEF RingbufCopy, RingbufCopied
<1>8. CASE n = N
  <2>1. tmpbuf'.keys[0] = NULL
    BY <1>4, <1>7, <1>8
  <2>2. QED
    BY <1>2, <1>7, <1>8, <2>1 DEF Accounted
<1>9. CASE n # N
  <2>1. \A j \in 0 .. n - 1 : tmpbuf'.keys[j] = xl3_buf.keys[j]
    BY <1>4, <1>7, <1>9
  <2>2. AddsUp(tmpbuf'.keys, 0, n, Zero, batch)
    BY <1>5, <2>1, SameAddsUp
  <2>3. QED
    BY <1>2, <1>5, <1>7, <1>9, <2>2 DEF Accounted
<1>10. QED
  BY <1>8, <1>9

LEMMA PopAccounted ==
  ASSUME IInv, Accounted, PopSample
  PROVE  Accounted'
<1>1. /\ phase = "upload" /\ ~IsEmpty(tmpbuf) /\ doc' = doc /\ xl3_buf' = xl3_buf
      /\ batch' = batch /\ tmpbuf' = RingbufPop(tmpbuf)
  BY DEF PopSample
<1>2. OkCopy(tmpbuf) /\ doc = NULL /\ xl3_buf.fill = 0
  BY <1>1 DEF IInv, Uploading, Accounted
<1>3. CASE PoppedKey(tmpbuf) = NULL
  BY <1>1, <1>2, <1>3 DEF PopSample, Accounted
<1>4. CASE PoppedKey(tmpbuf) # NULL
  <2>1. phase' = "upload" /\ pmts' = AddSample(pmts, PoppedKey(tmpbuf))
    BY <1>1, <1>4 DEF PopSample
  <2>2. tmpbuf.write # N
    BY <1>1, <1>4 DEF Accounted, PoppedKey
  <2>3. AddsUp(tmpbuf.keys, tmpbuf.read, tmpbuf.write, pmts, batch)
    BY <1>1, <2>2 DEF Accounted
  <2>4. PICK lo \in Nat : lo = tmpbuf.read /\ lo < tmpbuf.write
    BY <1>1, <1>2, CopyFields, RingAssumption
  <2>5. PICK hi \in Nat : hi = tmpbuf.write /\ hi \in 1 .. N
    BY <1>2, CopyFields, RingAssumption
  <2>6. tmpbuf'.read = lo + 1 /\ tmpbuf'.write = hi
    BY <1>1, <1>2, <2>4, <2>5, PopOk
  <2>7. tmpbuf.keys \in [0 .. hi -> Sample \cup {NULL}]
    BY <1>2, <2>5, CopyFields
  <2>8. tmpbuf'.keys = [tmpbuf.keys EXCEPT ![lo] = NULL]
    BY <1>1, <1>2, <2>4, CopyFields DEF RingbufPop
  <2>9. \A j \in lo + 1 .. hi - 1 : tmpbuf'.keys[j] = tmpbuf.keys[j]
    BY <2>4, <2>5, <2>7, <2>8
  <2>10. AddsUp(tmpbuf'.keys, lo + 1, hi, Counted(pmts, tmpbuf.keys[lo]), batch)
    BY <2>3, <2>4, <2>5, <2>9, PopAddsUp
  <2>11. pmts' = Counted(pmts, tmpbuf.keys[lo])
    <3> DEFINE s == PoppedKey(tmpbuf)
    <3>1. s \in Sample /\ s = tmpbuf.keys[lo]
      BY <1>1, <1>2, <1>4, <2>4, PopOk DEF PoppedKey
    <3>2. s.pmt \in Pmt /\ s.charge \in Nat
      BY <3>1, ChargeAssumption DEF Sample, Charge
    <3>3. pmts \in [Pmt -> Total] /\ pmts[s.pmt].sum \in Nat
      BY <3>2 DEF IInv, Typed, Total
    <3>4. pmts[s.pmt].sum + s.charge < SumWord
      BY <1>1, <1>4, IInvImplies DEF SumsHaveRoom
    <3>5. (pmts[s.pmt].sum + s.charge) % SumWord = pmts[s.pmt].sum + s.charge
      <4>1. pmts[s.pmt].sum + s.charge \in Nat
        BY <3>2, <3>3
      <4>2. \A x \in Nat : x < SumWord => x % SumWord = x
        BY ChargeAssumption
      <4>3. QED
        BY <3>4, <4>1, <4>2
    <3>6. pmts' = [pmts EXCEPT ![s.pmt] = [sum |-> pmts[s.pmt].sum + s.charge,
                                           count |-> pmts[s.pmt].count + 1]]
      BY <2>1, <3>2, <3>3, <3>5 DEF AddSample
    <3>7. QED
      BY <3>1, <3>2, <3>3, <3>6 DEF Counted
  <2>12. QED
    BY <1>1, <1>2, <2>1, <2>2, <2>5, <2>6, <2>10, <2>11 DEF Accounted
<1>5. QED
  BY <1>3, <1>4

LEMMA UploadAccounted ==
  ASSUME IInv, Accounted, Upload
  PROVE  /\ Accounted'
         /\ pmts = batch
<1>1. /\ phase = "upload" /\ IsEmpty(tmpbuf) /\ phase' = "loop" /\ xl3_buf' = xl3_buf
      /\ batch' = Zero
  BY DEF Upload
<1>2. OkCopy(tmpbuf) /\ xl3_buf.fill = 0
  BY <1>1 DEF IInv, Uploading, Accounted
<1>3. tmpbuf.read = tmpbuf.write /\ tmpbuf.write \in 1 .. N
  BY <1>1, <1>2, CopyFields
<1>4. AddsUp(tmpbuf.keys, tmpbuf.read, tmpbuf.write, pmts, batch)
  BY <1>1, <1>3, RingAssumption DEF Accounted
<1>5. pmts = batch
  BY <1>3, <1>4 DEF AddsUp
<1>6. Zero \in [Pmt -> Total]
  BY DEF Zero, Total
<1>7. AddsUp(xl3_buf.keys, 0, 0, Zero, Zero)
  BY <1>6, NothingAddsUp
<1>8. QED
  BY <1>1, <1>2, <1>5, <1>7 DEF Accounted

\* Steps that touch neither ring nor sums.
LEMMA OthersAccounted ==
  ASSUME Accounted, UNCHANGED <<xl3_buf, tmpbuf, pmts, batch>>,
         phase \in {"loop", "read"}, phase' \in {"loop", "read"}, phase' # "loop" => doc' = NULL
  PROVE  Accounted'
BY DEF Accounted

LEMMA AccountedHolds == Spec => []Accounted
<1>1. IInv /\ Accounted /\ [Next]_vars => Accounted'
  <2> SUFFICES ASSUME IInv, Accounted, [Next]_vars PROVE Accounted'
    OBVIOUS
  <2>1. CASE UNCHANGED vars
    BY <2>1 DEF vars, Accounted
  <2>2. ASSUME NEW c \in Con, NEW n \in 1 .. MaxRead, Receive(c, n) PROVE Accounted'
    BY <2>2, OthersAccounted DEF Receive
  <2>3. ASSUME NEW c \in Con, Close(c) PROVE Accounted'
    BY <2>3, OthersAccounted DEF Close
  <2>4. CASE TakePacket
    BY <2>4, OthersAccounted DEF TakePacket, Accounted
  <2>5. CASE EndRead
    BY <2>5, OthersAccounted DEF EndRead
  <2>6. QED
    BY <2>1, <2>2, <2>3, <2>4, <2>5, PushAccounted, WatchAccounted, PopAccounted, UploadAccounted
    DEF Next, ReadStep, UploadStep
<1>2. QED
  BY <1>1, InitAccounted, StreamInvariant, PTL DEF Spec

\* The document has the sum and number of exactly the samples accepted since the
\* last one, for rings of any size and samples in any order: the sums of the array
\* are those of the ring, and no sum is reduced.
THEOREM StreamDocumentIsBatch == Spec => DocumentIsBatch
<1> DEFINE A == doc' # NULL =>
             \A p \in Pmt : /\ doc'[p].sum = batch[p].sum
                            /\ doc'[p].count = IF batch[p].count = 0 THEN 1 ELSE batch[p].count
<1>1. IInv /\ Accounted /\ [Next]_vars => [A]_vars
  <2> SUFFICES ASSUME IInv, Accounted, Next, doc' # NULL
               PROVE  \A p \in Pmt : /\ doc'[p].sum = batch[p].sum
                                     /\ doc'[p].count = IF batch[p].count = 0 THEN 1
                                                        ELSE batch[p].count
    OBVIOUS
  <2>1. CASE Upload
    BY <2>1, UploadAccounted DEF Upload, Document
  <2>2. CASE ~Upload
    BY <2>2 DEF Next, Receive, Close, ReadStep, TakePacket, PushBundle, EndRead, Watch,
                UploadStep, PopSample, Accounted
  <2>3. QED
    BY <2>1, <2>2
<1>2. QED
  BY <1>1, StreamInvariant, AccountedHolds, PTL DEF Spec, DocumentIsBatch
=============================================================================
