--------------------------- MODULE RingQueueProofs ---------------------------
(***************************************************************************)
(* Proofs about the ring buffer, for every N and Addr: as a queue, and     *)
(* with every operation of the library.                                    *)
(***************************************************************************)
EXTENDS RingQueue, SequenceTheorems, TLAPS

\* A cleared ring has nothing in it, so ringbuf_init loses no object.
ClearedIsEmpty == ~alive => ring.fill = 0

IInv == TypeOK /\ WindowHoldsKeys /\ OneOwner /\ ClearedIsEmpty

\* How many places slot i comes after slot r.
Dist(r, i) == IF r <= i THEN i - r ELSE i - r + N

-----------------------------------------------------------------------------
(* Arithmetic. *)

\* Moving one slot on, modulo the length of the ring.
LEMMA NextSlot ==
  ASSUME NEW n \in Nat \ {0}, NEW w \in 0 .. n-1
  PROVE  (w + 1) % n = IF w + 1 = n THEN 0 ELSE w + 1
<1>1. CASE w + 1 = n  BY <1>1, SMT
<1>2. CASE w + 1 # n  BY <1>2, SMT
<1>3. QED  BY <1>1, <1>2

\* A count below Word is not changed by the width of uint64_t.
LEMMA InWord ==
  ASSUME NEW f \in 0 .. N
  PROVE  f % Word = f
BY SizeAssumption, WordAssumption, SMT

\* Slot and Dist are inverse to one another.
LEMMA SlotDist ==
  ASSUME NEW r \in 0 .. N-1
  PROVE  /\ \A j \in 0 .. N-1 : Slot(r, j) \in 0 .. N-1 /\ Dist(r, Slot(r, j)) = j
         /\ \A i \in 0 .. N-1 : Dist(r, i) \in 0 .. N-1 /\ Slot(r, Dist(r, i)) = i
BY SizeAssumption DEF Slot, Dist

\* The slot after the one j places on, and the one j places after the next.
LEMMA SlotNext ==
  ASSUME NEW r \in 0 .. N-1, NEW j \in 0 .. N-1
  PROVE  /\ (IF Slot(r, j) + 1 = N THEN 0 ELSE Slot(r, j) + 1)
              = IF j + 1 = N THEN r ELSE Slot(r, j + 1)
         /\ Slot(IF r + 1 = N THEN 0 ELSE r + 1, j)
              = IF j = N-1 THEN r ELSE Slot(r, j + 1)
<1>1. N \in Nat \ {0} /\ r \in Int /\ j \in Int /\ 0 <= r /\ r < N /\ 0 <= j /\ j < N
  BY SizeAssumption
<1>2. CASE r + j + 1 < N  BY <1>1, <1>2 DEF Slot
<1>3. CASE r + j + 1 = N  BY <1>1, <1>3 DEF Slot
<1>4. CASE r + j + 1 > N  BY <1>1, <1>4 DEF Slot
<1>5. QED  BY <1>1, <1>2, <1>3, <1>4

\* The fields of the ring.
LEMMA RingFields ==
  ASSUME TypeOK
  PROVE  /\ N \in Nat \ {0} /\ ring.num_keys = N
         /\ ring.read \in 0 .. N-1 /\ ring.write \in 0 .. N-1 /\ ring.fill \in 0 .. N
         /\ ring.keys \in [0 .. N-1 -> Addr \cup {NULL}]
         /\ ring = [write |-> ring.write, read |-> ring.read, num_keys |-> N,
                    keys |-> ring.keys, fill |-> ring.fill]
BY SizeAssumption, WordAssumption DEF TypeOK, RingbufOf

-----------------------------------------------------------------------------
(* What a push and a pop do to the fields of a ring. *)

\* The write position is the first slot after the unread keys, and the ring
\* is full or empty exactly when its fill is N or 0.
LEMMA RingState ==
  ASSUME TypeOK, WindowHoldsKeys
  PROVE  /\ IsFull(ring) <=> ring.fill = N
         /\ IsEmpty(ring) <=> ring.fill = 0
         /\ ring.fill < N => ring.write = Slot(ring.read, ring.fill)
BY RingFields DEF WindowHoldsKeys, IsFull, IsEmpty, Slot

\* A push into a ring with room.
LEMMA PushEffect ==
  ASSUME TypeOK, WindowHoldsKeys, ~IsFull(ring), NEW key \in Addr,
         ring' = RingbufPush(ring, key)
  PROVE  /\ ring.fill < N
         /\ ring'.read = ring.read
         /\ ring'.fill = ring.fill + 1
         /\ ring'.write = IF ring.write + 1 = N THEN 0 ELSE ring.write + 1
         /\ ring'.keys = [ring.keys EXCEPT ![ring.write] = key]
         /\ ring'.num_keys = N
         /\ ring' \in RingbufOf(Addr, N)
<1> DEFINE W == IF ring.write + 1 = N THEN 0 ELSE ring.write + 1
<1>1. ring.fill < N
  BY RingFields, RingState
<1>2. (ring.write + 1) % N = W
  BY RingFields, NextSlot
<1>3. (ring.fill + 1) % Word = ring.fill + 1
  BY <1>1, InWord, RingFields
<1>4. ring' = [ring EXCEPT !.keys = [ring.keys EXCEPT ![ring.write] = key],
                           !.write = (ring.write + 1) % N,
                           !.fill  = (ring.fill + 1) % Word]
  BY RingFields DEF RingbufPush
<1>5. ring' = [write |-> W, read |-> ring.read, num_keys |-> N,
               keys |-> [ring.keys EXCEPT ![ring.write] = key],
               fill |-> ring.fill + 1]
  BY <1>2, <1>3, <1>4, RingFields
<1>6. ring' \in RingbufOf(Addr, N)
  <2>1. W \in 0 .. N-1 /\ ring.read \in 0 .. N-1
    BY RingFields
  <2>2. ring.fill + 1 \in 0 .. Word-1
    BY <1>1, RingFields, SizeAssumption, WordAssumption
  <2>3. [ring.keys EXCEPT ![ring.write] = key] \in [0 .. N-1 -> Addr \cup {NULL}]
    BY RingFields
  <2>4. QED
    BY <1>5, <2>1, <2>2, <2>3, SMT DEF RingbufOf
<1>7. QED
  BY <1>1, <1>5, <1>6

\* A pop from a ring that is not empty.
LEMMA PopEffect ==
  ASSUME TypeOK, WindowHoldsKeys, ~IsEmpty(ring), ring' = RingbufPop(ring)
  PROVE  /\ ring.fill > 0
         /\ PoppedKey(ring) = ring.keys[ring.read]
         /\ PoppedKey(ring) \in Addr
         /\ ring'.read = IF ring.read + 1 = N THEN 0 ELSE ring.read + 1
         /\ ring'.fill = ring.fill - 1
         /\ ring'.write = ring.write
         /\ ring'.keys = [ring.keys EXCEPT ![ring.read] = NULL]
         /\ ring'.num_keys = N
         /\ ring' \in RingbufOf(Addr, N)
<1> DEFINE R == IF ring.read + 1 = N THEN 0 ELSE ring.read + 1
<1>1. ring.fill > 0
  BY RingFields, RingState
<1>2. (ring.read + 1) % N = R
  BY RingFields, NextSlot
<1>3. (ring.fill - 1) % Word = ring.fill - 1
  BY <1>1, InWord, RingFields
<1>4. ring' = [ring EXCEPT !.keys = [ring.keys EXCEPT ![ring.read] = NULL],
                           !.read = (ring.read + 1) % N,
                           !.fill = (ring.fill - 1) % Word]
  BY RingFields DEF RingbufPop
<1>5. ring' = [write |-> ring.write, read |-> R, num_keys |-> N,
               keys |-> [ring.keys EXCEPT ![ring.read] = NULL],
               fill |-> ring.fill - 1]
  BY <1>2, <1>3, <1>4, RingFields
<1>6. ring' \in RingbufOf(Addr, N)
  <2>1. R \in 0 .. N-1 /\ ring.write \in 0 .. N-1
    BY RingFields
  <2>2. ring.fill - 1 \in 0 .. Word-1
    BY <1>1, RingFields, SizeAssumption, WordAssumption
  <2>3. [ring.keys EXCEPT ![ring.read] = NULL] \in [0 .. N-1 -> Addr \cup {NULL}]
    BY RingFields
  <2>4. QED
    BY <1>5, <2>1, <2>2, <2>3, SMT DEF RingbufOf
<1>7. ring.keys[ring.read] \in Addr
  <2>1. Slot(ring.read, 0) = ring.read
    BY RingFields DEF Slot
  <2>2. ring.keys[Slot(ring.read, 0)] # NULL
    BY <1>1, RingFields DEF WindowHoldsKeys
  <2>3. QED
    BY <2>1, <2>2, RingFields
<1>8. QED
  BY <1>1, <1>5, <1>6, <1>7 DEF PoppedKey

-----------------------------------------------------------------------------
(* They preserve the window. *)

\* The key pushed is the new last one of the window.
LEMMA PushWindow ==
  ASSUME TypeOK, WindowHoldsKeys, ~IsFull(ring), NEW key \in Addr,
         ring' = RingbufPush(ring, key)
  PROVE  WindowHoldsKeys'
<1> DEFINE S(j) == Slot(ring.read, j)
<1>0. /\ ring.fill < N
      /\ ring'.read = ring.read
      /\ ring'.fill = ring.fill + 1
      /\ ring'.write = IF ring.write + 1 = N THEN 0 ELSE ring.write + 1
      /\ ring'.keys = [ring.keys EXCEPT ![ring.write] = key]
  BY PushEffect
<1>1. ring.write = S(ring.fill) /\ ring.fill \in 0 .. N-1
  BY RingState, <1>0, RingFields
<1>2. ring'.write = IF ring'.fill = N THEN ring.read ELSE S(ring.fill + 1)
  BY <1>0, <1>1, SlotNext, RingFields
<1>3. ASSUME NEW j \in 0 .. N-1
      PROVE  ring'.keys[S(j)] # NULL <=> j < ring'.fill
  <2> HIDE DEF S
  <2>1. CASE j = ring.fill
    <3>1. ring'.keys[S(j)] = key
      BY <1>1, <2>1, <1>0, RingFields
    <3>2. QED
      BY <2>1, <3>1, <1>0, RingFields, NullAssumption
  <2>2. CASE j # ring.fill
    <3>1. S(j) # ring.write /\ S(j) \in 0 .. N-1
      BY <1>1, <2>2, SlotDist, RingFields DEF S
    <3>2. ring'.keys[S(j)] = ring.keys[S(j)]
      BY <3>1, <1>0, RingFields
    <3>3. ring.keys[S(j)] # NULL <=> j < ring.fill
      BY DEF WindowHoldsKeys, S
    <3>4. QED
      BY <2>2, <3>2, <3>3, <1>0, RingFields
  <2>3. QED
    BY <2>1, <2>2
<1>4. QED
  BY <1>0, <1>2, <1>3 DEF WindowHoldsKeys

\* The key popped was the first one of the window.
LEMMA PopWindow ==
  ASSUME TypeOK, WindowHoldsKeys, ~IsEmpty(ring), ring' = RingbufPop(ring)
  PROVE  WindowHoldsKeys'
<1> DEFINE S(j) == Slot(ring.read, j)
           T(j) == Slot(ring'.read, j)
<1>0. /\ ring.fill > 0
      /\ ring'.read = IF ring.read + 1 = N THEN 0 ELSE ring.read + 1
      /\ ring'.fill = ring.fill - 1
      /\ ring'.write = ring.write
      /\ ring'.keys = [ring.keys EXCEPT ![ring.read] = NULL]
  BY PopEffect
<1>1. \A j \in 0 .. N-1 : T(j) = IF j = N-1 THEN ring.read ELSE S(j + 1)
  BY <1>0, SlotNext, RingFields
<1>2. ring'.fill \in 0 .. N-1
  BY <1>0, RingFields
<1>3. ring'.write = T(ring'.fill)
  <2>1. ring.write = IF ring.fill = N THEN ring.read ELSE S(ring.fill)
    BY DEF WindowHoldsKeys
  <2>2. QED
    BY <1>1, <1>2, <2>1, <1>0, RingFields
<1>4. ASSUME NEW j \in 0 .. N-1
      PROVE  ring'.keys[T(j)] # NULL <=> j < ring'.fill
  <2>1. CASE j = N-1
    <3>1. ring'.keys[T(j)] = NULL
      BY <1>1, <2>1, <1>0, RingFields
    <3>2. QED
      BY <2>1, <3>1, <1>0, RingFields
  <2>2. CASE j # N-1
    <3> HIDE DEF S
    <3>1. S(j + 1) # ring.read /\ S(j + 1) \in 0 .. N-1
      BY <2>2, RingFields DEF S, Slot
    <3>2. ring'.keys[T(j)] = ring.keys[S(j + 1)]
      BY <1>1, <2>2, <3>1, <1>0, RingFields
    <3>3. ring.keys[S(j + 1)] # NULL <=> j + 1 < ring.fill
      BY <2>2, RingFields DEF WindowHoldsKeys, S
    <3>4. QED
      BY <3>2, <3>3, <1>0, RingFields
  <2>3. QED
    BY <2>1, <2>2
<1>5. QED
  BY <1>2, <1>3, <1>4 DEF WindowHoldsKeys

-----------------------------------------------------------------------------
(* What they do to the set of keys. *)

\* No object is in two slots of an array of keys.
Distinct(keys) == \A i, j \in 0 .. N-1 : keys[i] # NULL /\ keys[i] = keys[j] => i = j

\* The keys of a ring of N slots.
LEMMA KeysIn ==
  ASSUME TypeOK
  PROVE  KeysOf(ring) = {ring.keys[i] : i \in 0 .. N-1} \ {NULL}
BY RingFields DEF KeysOf

\* A push adds one key, in a slot that was free.
LEMMA PushKeys ==
  ASSUME TypeOK, WindowHoldsKeys, ~IsFull(ring), NEW key \in Addr,
         ring' = RingbufPush(ring, key)
  PROVE  /\ KeysOf(ring)' = KeysOf(ring) \cup {key}
         /\ Distinct(ring.keys) /\ key \notin KeysOf(ring) => Distinct(ring'.keys)
<1> DEFINE w == ring.write
<1>1. /\ ring'.keys = [ring.keys EXCEPT ![w] = key]
      /\ ring.fill \in 0 .. N-1
  BY PushEffect, RingFields
<1>2. w \in 0 .. N-1 /\ ring.keys[w] = NULL
  <2>1. w = Slot(ring.read, ring.fill) /\ ring.fill \in 0 .. N-1
    BY <1>1, RingState, RingFields
  <2>2. QED
    BY <2>1, RingFields DEF WindowHoldsKeys
<1>3. /\ DOMAIN ring.keys = 0 .. N-1 /\ DOMAIN ring'.keys = 0 .. N-1
      /\ \A i \in 0 .. N-1 : ring'.keys[i] = IF i = w THEN key ELSE ring.keys[i]
  BY <1>1, RingFields
<1> HIDE DEF w
<1>4. KeysOf(ring') = KeysOf(ring) \cup {key}
  BY <1>2, <1>3, NullAssumption DEF KeysOf
<1>5. Distinct(ring.keys) /\ key \notin KeysOf(ring) => Distinct(ring'.keys)
  BY <1>2, <1>3, NullAssumption DEF KeysOf, Distinct
<1>6. QED
  BY <1>4, <1>5

\* A pop removes the popped key, which no other slot holds.
LEMMA PopKeys ==
  ASSUME TypeOK, WindowHoldsKeys, ~IsEmpty(ring), ring' = RingbufPop(ring),
         Distinct(ring.keys)
  PROVE  /\ PoppedKey(ring) \in KeysOf(ring)
         /\ KeysOf(ring)' = KeysOf(ring) \ {PoppedKey(ring)}
         /\ Distinct(ring'.keys)
<1> DEFINE r == ring.read
           p == PoppedKey(ring)
<1>1. /\ ring'.keys = [ring.keys EXCEPT ![r] = NULL]
      /\ p = ring.keys[r] /\ p \in Addr
  BY PopEffect
<1>2. r \in 0 .. N-1
  BY RingFields
<1>3. /\ DOMAIN ring.keys = 0 .. N-1 /\ DOMAIN ring'.keys = 0 .. N-1
      /\ \A i \in 0 .. N-1 : ring'.keys[i] = IF i = r THEN NULL ELSE ring.keys[i]
  BY <1>1, RingFields
<1> HIDE DEF r, p
<1>4. p \in KeysOf(ring) /\ KeysOf(ring') = KeysOf(ring) \ {p}
  <2>1. p # NULL /\ ring.keys[r] = p
    BY <1>1, NullAssumption DEF r
  <2>2. \A i \in 0 .. N-1 : ring.keys[i] = p <=> i = r
    BY <1>2, <2>1 DEF Distinct
  <2>3. p \in KeysOf(ring)
    BY <1>2, <1>3, <2>1 DEF KeysOf
  <2>4. \A k : k \in KeysOf(ring') <=> k \in KeysOf(ring) \ {p}
    BY <1>3, <2>1, <2>2 DEF KeysOf
  <2>5. QED
    BY <2>3, <2>4
<1>5. Distinct(ring'.keys)
  BY <1>3 DEF Distinct
<1>6. QED
  BY <1>4, <1>5 DEF p

\* An empty ring has no keys.
LEMMA EmptyKeys ==
  ASSUME TypeOK, WindowHoldsKeys, ring.fill = 0
  PROVE  KeysOf(ring) = {}
<1>1. \A i \in 0 .. N-1 : ring.keys[i] = NULL
  <2>1. \A i \in 0 .. N-1 : Dist(ring.read, i) \in 0 .. N-1
                            /\ Slot(ring.read, Dist(ring.read, i)) = i
    BY SlotDist, RingFields
  <2>2. \A j \in 0 .. N-1 : ring.keys[Slot(ring.read, j)] = NULL
    BY DEF WindowHoldsKeys
  <2>3. QED
    BY <2>1, <2>2
<1>2. QED
  BY <1>1, KeysIn

\* The ring ringbuf_init makes, which is what ringbuf_clear leaves too.
LEMMA FreshRing ==
  /\ RingbufInit(N) \in RingbufOf(Addr, N)
  /\ RingbufInit(N).fill = 0
  /\ KeysOf(RingbufInit(N)) = {}
  /\ TypeOK => RingbufClear(ring) = RingbufInit(N)
<1>1. RingbufInit(N) \in RingbufOf(Addr, N)
  BY SizeAssumption, WordAssumption DEF RingbufInit, RingbufOf
<1>2. RingbufInit(N).fill = 0 /\ KeysOf(RingbufInit(N)) = {}
  BY DEF RingbufInit, KeysOf
<1>3. ASSUME TypeOK PROVE RingbufClear(ring) = RingbufInit(N)
  <2>1. DOMAIN ring.keys = 0 .. N-1
    BY <1>3, RingFields
  <2>2. RingbufClear(ring) = [ring EXCEPT !.keys = [i \in 0 .. N-1 |-> NULL],
                                          !.write = 0, !.read = 0, !.fill = 0]
    BY <2>1 DEF RingbufClear
  <2>3. QED
    BY <1>3, <2>2, RingFields DEF RingbufInit
<1>4. QED
  BY <1>1, <1>2, <1>3

\* It satisfies what is said of the window and of the keys.
LEMMA FreshWindow ==
  ASSUME ring' = RingbufInit(N)
  PROVE  /\ WindowHoldsKeys'
         /\ Distinct(ring'.keys)
         /\ ring' \in RingbufOf(Addr, N) /\ ring'.fill = 0 /\ KeysOf(ring)' = {}
<1>1. /\ ring'.read = 0 /\ ring'.write = 0 /\ ring'.fill = 0
      /\ ring'.keys = [i \in 0 .. N-1 |-> NULL]
  BY DEF RingbufInit
<1>2. WindowHoldsKeys'
  BY <1>1, SizeAssumption DEF WindowHoldsKeys, Slot
<1>3. Distinct(ring'.keys)
  BY <1>1 DEF Distinct
<1>4. QED
  BY <1>2, <1>3, FreshRing

-----------------------------------------------------------------------------
(* The invariant. *)

\* OneOwner in terms of Distinct.
LEMMA OwnerDistinct ==
  OneOwner <=> /\ Live = held \cup KeysOf(ring)
               /\ held \cap KeysOf(ring) = {}
               /\ Distinct(ring.keys)
BY DEF OneOwner, Distinct

\* What allocating and freeing do to the live objects.
LEMMA LiveSized ==
  ASSUME NEW S, NEW n \in {0, ObjSize}, size \in [Addr -> {0, ObjSize}],
         size' = Sized(S, n)
  PROVE  /\ size' \in [Addr -> {0, ObjSize}]
         /\ n = 0 => Live' = Live \ S
         /\ n = ObjSize => Live' = Live \cup (S \cap Addr)
BY ObjAssumption DEF Live, Sized

\* The initial state.
LEMMA InitIInv == Init => IInv
<1> SUFFICES ASSUME Init PROVE IInv
  OBVIOUS
<1>1. ring = RingbufInit(N) /\ ring.fill = 0 /\ KeysOf(ring) = {} /\ ring \in RingbufOf(Addr, N)
  BY FreshRing DEF Init
<1>2. TypeOK
  BY <1>1, SizeAssumption, ObjAssumption DEF Init, TypeOK
<1>3. ring.read = 0 /\ ring.write = 0 /\ ring.keys = [i \in 0 .. N-1 |-> NULL]
  BY <1>1 DEF RingbufInit
<1>4. WindowHoldsKeys
  BY <1>1, <1>3, SizeAssumption DEF WindowHoldsKeys, Slot
<1>5. OneOwner
  BY <1>1, <1>3 DEF OneOwner, Init, Live
<1>6. QED
  BY <1>1, <1>2, <1>4, <1>5 DEF IInv, ClearedIsEmpty

\* Every call of the queue preserves the invariant.
LEMMA QueueStep == IInv /\ [QueueNext]_vars => IInv'
<1> SUFFICES ASSUME IInv, [QueueNext]_vars PROVE IInv'
  OBVIOUS
<1>i. TypeOK /\ WindowHoldsKeys /\ OneOwner /\ ClearedIsEmpty
  BY DEF IInv
<1>o. /\ Live = held \cup KeysOf(ring)
      /\ held \cap KeysOf(ring) = {}
      /\ Distinct(ring.keys)
  BY <1>i, OwnerDistinct
<1>t. /\ size \in [Addr -> {0, ObjSize}] /\ held \subseteq Addr
      /\ got \in Addr \cup {NULL} /\ alive \in BOOLEAN /\ out = NULL /\ overrun = FALSE
      /\ ring \in RingbufOf(Addr, N) /\ ring.fill \in 0 .. N
  BY <1>i, RingFields DEF TypeOK
\* What it takes to show the invariant again.
<1>s. SUFFICES /\ ring' \in RingbufOf(Addr, N) /\ ring'.fill <= N
               /\ alive' \in BOOLEAN /\ out' = NULL /\ overrun' = FALSE
               /\ size' \in [Addr -> {0, ObjSize}] /\ held' \subseteq Addr
               /\ got' \in Addr \cup {NULL}
               /\ WindowHoldsKeys'
               /\ Live' = held' \cup KeysOf(ring)'
               /\ held' \cap KeysOf(ring)' = {}
               /\ Distinct(ring'.keys)
               /\ ~alive' => ring'.fill = 0
  BY DEF IInv, TypeOK, OneOwner, ClearedIsEmpty, Distinct
\* A step that leaves the ring alone.
<1>r. ASSUME UNCHANGED ring
      PROVE  /\ ring' \in RingbufOf(Addr, N) /\ ring'.fill <= N
             /\ WindowHoldsKeys' /\ Distinct(ring'.keys) /\ KeysOf(ring)' = KeysOf(ring)
  BY <1>r, <1>i, <1>o, <1>t DEF TypeOK, WindowHoldsKeys
\* A push of an object that is not in the ring yet.
<1>p. ASSUME NEW key \in Addr, key \notin KeysOf(ring), ~IsFull(ring),
             ring' = RingbufPush(ring, key)
      PROVE  /\ ring' \in RingbufOf(Addr, N) /\ ring'.fill <= N
             /\ WindowHoldsKeys' /\ Distinct(ring'.keys)
             /\ KeysOf(ring)' = KeysOf(ring) \cup {key}
  <2>1. ring'.fill = ring.fill + 1 /\ ring.fill < N /\ ring' \in RingbufOf(Addr, N)
    BY <1>p, <1>i, PushEffect
  <2>2. WindowHoldsKeys'
    BY <1>p, <1>i, PushWindow
  <2>3. KeysOf(ring)' = KeysOf(ring) \cup {key} /\ Distinct(ring'.keys)
    BY <1>p, <1>i, <1>o, PushKeys
  <2>4. ring'.fill <= N
    BY <2>1, <1>t, SizeAssumption
  <2>5. QED
    BY <2>1, <2>2, <2>3, <2>4
<1>1. CASE \E a \in Addr : Malloc(a)
  <2>1. PICK a \in Addr : Malloc(a)
    BY <1>1
  <2>2. UNCHANGED <<ring, alive, out, got, overrun>> /\ held' = held \cup {a} /\ a \notin Live
    BY <2>1 DEF Malloc
  <2>3. Live' = Live \cup {a} /\ size' \in [Addr -> {0, ObjSize}]
    BY <2>1, <1>t, LiveSized DEF Malloc
  <2>4. QED
    BY <2>2, <2>3, <1>o, <1>r, <1>t, <1>i DEF ClearedIsEmpty
<1>2. CASE \E a \in Addr : Free(a)
  <2>1. PICK a \in Addr : Free(a)
    BY <1>2
  <2>2. UNCHANGED <<ring, alive, out, got, overrun>> /\ held' = held \ {a} /\ a \in held
    BY <2>1 DEF Free
  <2>3. Live' = Live \ {a} /\ size' \in [Addr -> {0, ObjSize}]
    BY <2>1, <1>t, LiveSized DEF Free
  <2>4. QED
    BY <2>2, <2>3, <1>o, <1>r, <1>t, <1>i DEF ClearedIsEmpty
<1>3. CASE \E a \in Addr : Push(a)
  <2>1. PICK a \in Addr : Push(a)
    BY <1>3
  <2>2. /\ UNCHANGED <<alive, out, size, got, overrun>> /\ alive /\ a \in held
        /\ ring' = RingbufPush(ring, a)
        /\ held' = IF IsFull(ring) THEN held ELSE held \ {a}
    BY <2>1 DEF Push
  <2>3. Live' = Live
    BY <2>2 DEF Live
  <2>4. CASE IsFull(ring)
    <3>1. UNCHANGED ring /\ held' = held
      BY <2>2, <2>4 DEF RingbufPush
    <3>2. QED
      BY <2>2, <2>3, <3>1, <1>o, <1>r, <1>t
  <2>5. CASE ~IsFull(ring)
    BY <2>2, <2>3, <2>5, <1>o, <1>p, <1>t
  <2>6. QED
    BY <2>4, <2>5
<1>4. CASE \E a, c \in Addr : PushCp(a, c)
  <2>1. PICK a \in Addr, c \in Addr : PushCp(a, c)
    BY <1>4
  <2>2. /\ UNCHANGED <<alive, out, held, got, overrun>> /\ alive /\ a \in held
        /\ c \notin Live /\ ring' = RingbufPush(ring, c)
        /\ size' = IF IsFull(ring) THEN size ELSE Sized({c}, size[a])
    BY <2>1 DEF PushCp
  <2>3. CASE IsFull(ring)
    <3>1. UNCHANGED ring /\ size' = size /\ Live' = Live
      BY <2>2, <2>3 DEF RingbufPush, Live
    <3>2. QED
      BY <2>2, <3>1, <1>o, <1>r, <1>t
  <2>4. CASE ~IsFull(ring)
    <3>1. size[a] = ObjSize
      BY <2>2, <1>o, <1>t DEF Live
    <3>2. size' = Sized({c}, ObjSize)
      BY <2>2, <2>4, <3>1
    <3>3. Live' = Live \cup {c} /\ size' \in [Addr -> {0, ObjSize}]
      BY <3>2, <1>t, LiveSized
    <3>4. QED
      BY <2>2, <2>4, <3>3, <1>o, <1>p, <1>t
  <2>5. QED
    BY <2>3, <2>4
<1>5. CASE Pop
  <2>1. /\ UNCHANGED <<alive, out, size, overrun>> /\ alive /\ ~IsEmpty(ring)
        /\ got' = PoppedKey(ring) /\ held' = held \cup ({PoppedKey(ring)} \ {NULL})
        /\ ring' = RingbufPop(ring)
    BY <1>5 DEF Pop
  <2>2. /\ PoppedKey(ring) \in Addr /\ ring' \in RingbufOf(Addr, N)
        /\ ring'.fill = ring.fill - 1
    BY <2>1, <1>i, PopEffect
  <2>3. /\ PoppedKey(ring) \in KeysOf(ring)
        /\ KeysOf(ring)' = KeysOf(ring) \ {PoppedKey(ring)}
        /\ Distinct(ring'.keys)
    BY <2>1, <1>i, <1>o, PopKeys
  <2>4. WindowHoldsKeys'
    BY <2>1, <1>i, PopWindow
  <2>5. Live' = Live
    BY <2>1 DEF Live
  <2>6. held' = held \cup {PoppedKey(ring)}
    BY <2>1, <2>2, NullAssumption
  <2>7. ring'.fill <= N
    BY <2>2, <1>t, SizeAssumption
  <2> HIDE <1>i
  <2>8. QED
    BY <2>1, <2>2, <2>3, <2>4, <2>5, <2>6, <2>7, <1>o, <1>t
<1>6. CASE Clear
  <2>1. /\ UNCHANGED <<out, held, got, overrun>> /\ size' = Sized(KeysOf(ring), 0)
        /\ ring' = RingbufClear(ring) /\ alive' = FALSE
    BY <1>6 DEF Clear
  <2>2. ring' = RingbufInit(N)
    BY <2>1, <1>i, FreshRing
  <2>3. Live' = Live \ KeysOf(ring) /\ size' \in [Addr -> {0, ObjSize}]
    BY <2>1, <1>t, LiveSized
  <2>4. /\ WindowHoldsKeys' /\ Distinct(ring'.keys)
        /\ ring' \in RingbufOf(Addr, N) /\ ring'.fill = 0 /\ KeysOf(ring)' = {}
    BY <2>2, FreshWindow
  <2>5. ring'.fill <= N
    BY <2>4, SizeAssumption
  <2>6. QED
    BY <2>1, <2>3, <2>4, <2>5, <1>o, <1>t
<1>7. CASE Reinit
  <2>1. /\ UNCHANGED <<out, size, held, got, overrun>> /\ ~alive
        /\ ring' = RingbufInit(N) /\ alive' = TRUE
    BY <1>7 DEF Reinit
  <2>2. KeysOf(ring) = {}
    BY <2>1, <1>i, EmptyKeys DEF ClearedIsEmpty
  <2>3. /\ WindowHoldsKeys' /\ Distinct(ring'.keys)
        /\ ring' \in RingbufOf(Addr, N) /\ ring'.fill = 0 /\ KeysOf(ring)' = {}
    BY <2>1, FreshWindow
  <2>4. Live' = Live /\ ring'.fill <= N
    BY <2>1, <2>3, SizeAssumption DEF Live
  <2>5. QED
    BY <2>1, <2>2, <2>3, <2>4, <1>o, <1>t
<1>8. CASE UNCHANGED vars
  <2>1. UNCHANGED <<ring, alive, out, size, held, got, overrun>> /\ Live' = Live
    BY <1>8 DEF vars, Live
  <2>2. QED
    BY <2>1, <1>i, <1>o, <1>r, <1>t DEF ClearedIsEmpty
<1>9. QED
  BY <1>1, <1>2, <1>3, <1>4, <1>5, <1>6, <1>7, <1>8 DEF QueueNext

\* The inductive invariant holds in every state of a ring used as a queue.
THEOREM QueueInvariant == QueueSpec => []IInv
<1>1. QED
  BY InitIInv, QueueStep, PTL DEF QueueSpec

\* Type correctness: the positions stay inside the array of keys and fill
\* never exceeds num_keys, whatever the calls of the client.
THEOREM QueueTypeOK == QueueSpec => []TypeOK
<1>1. IInv => TypeOK
  BY DEF IInv
<1>2. QED
  BY <1>1, QueueInvariant, PTL

\* The slots with an object are those from read to write, in a ring of any
\* length: push and pop never see a hole, and never overwrite an unread key.
THEOREM QueueWindow == QueueSpec => []WindowHoldsKeys
<1>1. IInv => WindowHoldsKeys
  BY DEF IInv
<1>2. QED
  BY <1>1, QueueInvariant, PTL

\* Exactly one owner for every object: no leak, no double free.
THEOREM QueueOneOwner == QueueSpec => []OneOwner
<1>1. IInv => OneOwner
  BY DEF IInv
<1>2. QED
  BY <1>1, QueueInvariant, PTL

-----------------------------------------------------------------------------
(* The ring implements a bounded first-in first-out queue. *)

\* A function on 1 .. n is a sequence of length n.
LEMMA FunctionIsSeq ==
  ASSUME NEW S, NEW n \in Nat, NEW f \in [1 .. n -> S]
  PROVE  f \in Seq(S) /\ Len(f) = n
<1>1. f \in Seq(S)
  BY SeqDef
<1>2. Len(f) \in Nat /\ DOMAIN f = 1 .. Len(f)
  BY <1>1, LenProperties
<1>3. QED
  BY <1>1, <1>2

\* The unread keys are a sequence of fill addresses.
LEMMA ContentsSeq ==
  ASSUME TypeOK, WindowHoldsKeys
  PROVE  /\ Contents \in Seq(Addr)
         /\ Len(Contents) = ring.fill
         /\ \A j \in 1 .. ring.fill : Contents[j] = ring.keys[Slot(ring.read, j - 1)]
<1>1. \A j \in 1 .. ring.fill : ring.keys[Slot(ring.read, j - 1)] \in Addr
  <2>1. SUFFICES ASSUME NEW j \in 1 .. ring.fill
                 PROVE  ring.keys[Slot(ring.read, j - 1)] \in Addr
    OBVIOUS
  <2>2. j - 1 \in 0 .. N-1 /\ j - 1 < ring.fill
    BY RingFields
  <2>3. ring.keys[Slot(ring.read, j - 1)] # NULL
    BY <2>2 DEF WindowHoldsKeys
  <2>4. Slot(ring.read, j - 1) \in 0 .. N-1
    BY <2>2, SlotDist, RingFields
  <2>5. QED
    BY <2>3, <2>4, RingFields
<1>2. Contents \in [1 .. ring.fill -> Addr] /\ ring.fill \in Nat
  BY <1>1, RingFields DEF Contents
<1>3. Contents \in Seq(Addr) /\ Len(Contents) = ring.fill
  BY <1>2, FunctionIsSeq
<1>4. QED
  BY <1>3 DEF Contents

\* A push appends to it.
LEMMA PushContents ==
  ASSUME TypeOK, WindowHoldsKeys, ~IsFull(ring), NEW key \in Addr,
         ring' = RingbufPush(ring, key)
  PROVE  Contents' = Append(Contents, key) /\ Len(Contents) < N
<1>0. /\ ring.fill < N
      /\ ring'.read = ring.read
      /\ ring'.fill = ring.fill + 1
      /\ ring'.keys = [ring.keys EXCEPT ![ring.write] = key]
  BY PushEffect
<1>1. ring.write = Slot(ring.read, ring.fill) /\ ring.fill \in 0 .. N-1
  BY <1>0, RingState, RingFields
<1>2. Contents' = [j \in 1 .. ring.fill + 1 |-> ring'.keys[Slot(ring.read, j - 1)]]
  BY <1>0 DEF Contents
<1>3. ring'.keys[Slot(ring.read, ring.fill)] = key
  BY <1>0, <1>1, RingFields
<1>4. ASSUME NEW j \in 1 .. ring.fill
      PROVE  ring'.keys[Slot(ring.read, j - 1)] = Contents[j]
  <2>1. j - 1 \in 0 .. N-1 /\ j - 1 # ring.fill
    BY <1>0, RingFields
  <2>2. Slot(ring.read, j - 1) # ring.write /\ Slot(ring.read, j - 1) \in 0 .. N-1
    BY <1>1, <2>1, SlotDist, RingFields
  <2>3. QED
    BY <1>0, <2>2, ContentsSeq, RingFields
<1>5. /\ Contents \in Seq(Addr) /\ Len(Contents) = ring.fill
      /\ \A j \in 1 .. ring.fill : Contents[j] \in Addr
  BY ContentsSeq, ElementOfSeq
<1>6. \A j \in 1 .. ring.fill + 1 :
        Contents'[j] = IF j = ring.fill + 1 THEN key ELSE Contents[j]
  <2>1. SUFFICES ASSUME NEW j \in 1 .. ring.fill + 1
                 PROVE  Contents'[j] = IF j = ring.fill + 1 THEN key ELSE Contents[j]
    OBVIOUS
  <2>2. Contents'[j] = ring'.keys[Slot(ring.read, j - 1)]
    BY <1>2
  <2>3. CASE j = ring.fill + 1
    <3>1. j - 1 = ring.fill
      BY <2>3, RingFields
    <3>2. QED
      BY <1>3, <2>2, <2>3, <3>1
  <2>4. CASE j # ring.fill + 1
    <3>1. j \in 1 .. ring.fill
      BY <2>4, RingFields
    <3>2. QED
      BY <1>4, <2>2, <2>4, <3>1
  <2>5. QED
    BY <2>3, <2>4
<1>7. Contents' \in Seq(Addr) /\ Len(Contents') = ring.fill + 1
  <2>1. ring.fill + 1 \in Nat
    BY RingFields
  <2>2. \A j \in 1 .. ring.fill + 1 : j = ring.fill + 1 \/ j \in 1 .. ring.fill
    BY RingFields
  <2>3. \A j \in 1 .. ring.fill + 1 : Contents'[j] \in Addr
    BY <1>5, <1>6, <2>2
  <2>4. Contents' \in [1 .. ring.fill + 1 -> Addr]
    BY <1>2, <2>3
  <2>5. QED
    BY <2>1, <2>4, FunctionIsSeq
<1>8. /\ Append(Contents, key) \in Seq(Addr)
      /\ Len(Append(Contents, key)) = ring.fill + 1
      /\ \A j \in 1 .. ring.fill : Append(Contents, key)[j] = Contents[j]
      /\ Append(Contents, key)[ring.fill + 1] = key
  BY <1>5, AppendProperties
<1>9. \A j \in 1 .. ring.fill + 1 : Contents'[j] = Append(Contents, key)[j]
  BY <1>6, <1>8, RingFields
<1>10. Contents' = Append(Contents, key)
  BY <1>7, <1>8, <1>9, SeqEqual
<1>11. QED
  BY <1>0, <1>5, <1>10

\* A pop delivers its head and leaves its tail.
LEMMA PopContents ==
  ASSUME TypeOK, WindowHoldsKeys, ~IsEmpty(ring), ring' = RingbufPop(ring)
  PROVE  Contents # << >> /\ PoppedKey(ring) = Head(Contents) /\ Contents' = Tail(Contents)
<1>0. /\ ring.fill > 0
      /\ PoppedKey(ring) = ring.keys[ring.read]
      /\ ring'.read = IF ring.read + 1 = N THEN 0 ELSE ring.read + 1
      /\ ring'.fill = ring.fill - 1
      /\ ring'.keys = [ring.keys EXCEPT ![ring.read] = NULL]
  BY PopEffect
<1>1. Contents \in Seq(Addr) /\ Len(Contents) = ring.fill /\ Contents # << >>
  BY <1>0, ContentsSeq
<1>2. PoppedKey(ring) = Head(Contents)
  <2>1. Contents[1] = ring.keys[Slot(ring.read, 0)]
    <3>1. 1 \in 1 .. ring.fill /\ 1 - 1 = 0
      BY <1>0, RingFields
    <3>2. Contents[1] = ring.keys[Slot(ring.read, 1 - 1)]
      BY <3>1, ContentsSeq
    <3>3. QED
      BY <3>1, <3>2
  <2>2. Slot(ring.read, 0) = ring.read
    BY RingFields DEF Slot
  <2>3. QED
    BY <1>0, <1>1, <2>1, <2>2
<1>3. ASSUME NEW j \in 1 .. ring.fill - 1
      PROVE  ring'.keys[Slot(ring'.read, j - 1)] = Contents[j + 1]
  <2>1. j - 1 \in 0 .. N-1 /\ j - 1 # N-1 /\ j \in 0 .. N-1 /\ j + 1 \in 1 .. ring.fill
    BY RingFields
  <2>2. Slot(ring'.read, j - 1) = Slot(ring.read, j)
    BY <1>0, <2>1, SlotNext, RingFields
  <2>3. Slot(ring.read, j) # ring.read /\ Slot(ring.read, j) \in 0 .. N-1
    BY <2>1, RingFields DEF Slot
  <2>4. Contents[j + 1] = ring.keys[Slot(ring.read, j)]
    BY <2>1, ContentsSeq
  <2>5. QED
    BY <1>0, <2>2, <2>3, <2>4, RingFields
<1>4. Contents' = [j \in 1 .. ring.fill - 1 |-> Contents[j + 1]]
  BY <1>0, <1>3 DEF Contents
<1>5. /\ Tail(Contents) \in Seq(Addr)
      /\ Len(Tail(Contents)) = ring.fill - 1
      /\ \A j \in 1 .. ring.fill - 1 : Tail(Contents)[j] = Contents[j + 1]
  BY <1>1, HeadTailProperties
<1>6. Contents' \in Seq(Addr) /\ Len(Contents') = ring.fill - 1
  <2>1. ring.fill - 1 \in Nat
    BY <1>0, RingFields
  <2>2. \A j \in 1 .. ring.fill - 1 : j + 1 \in 1 .. ring.fill
    BY RingFields
  <2>3. \A j \in 1 .. ring.fill - 1 : Contents[j + 1] \in Addr
    BY <1>1, <2>2, ElementOfSeq
  <2>4. Contents' \in [1 .. ring.fill - 1 -> Addr]
    BY <1>4, <2>3
  <2>5. QED
    BY <2>1, <2>4, FunctionIsSeq
<1>7. Contents' = Tail(Contents)
  <2>1. \A j \in 1 .. ring.fill - 1 : Contents'[j] = Tail(Contents)[j]
    BY <1>4, <1>5
  <2>2. QED
    BY <1>5, <1>6, <2>1, SeqEqual
<1>8. QED
  BY <1>1, <1>2, <1>7

\* A fresh ring is an empty queue.
LEMMA FreshContents ==
  ASSUME TypeOK, WindowHoldsKeys, ring.fill = 0
  PROVE  Contents = << >>
BY ContentsSeq

\* Every call maps to a Put, a Take, a Flush or a stutter of the queue.
LEMMA FifoStep == IInv /\ IInv' /\ [QueueNext]_vars => [Fifo!Next]_(Fifo!vars)
<1> SUFFICES ASSUME IInv, IInv', [QueueNext]_vars
             PROVE  [Fifo!Next]_(Fifo!vars)
  OBVIOUS
<1>i. TypeOK /\ WindowHoldsKeys
  BY DEF IInv
<1>s. ASSUME UNCHANGED <<ring, got>> PROVE UNCHANGED <<Contents, got>>
  BY <1>s DEF Contents
<1>p. ASSUME NEW key \in Addr, ring' = RingbufPush(ring, key), UNCHANGED got
      PROVE  Fifo!Put \/ UNCHANGED <<Contents, got>>
  <2>1. CASE IsFull(ring)
    BY <2>1, <1>p, <1>s DEF RingbufPush
  <2>2. CASE ~IsFull(ring)
    <3>1. Contents' = Append(Contents, key) /\ Len(Contents) < N
      BY <2>2, <1>p, <1>i, PushContents
    <3>2. QED
      BY <3>1, <1>p DEF Fifo!Put
  <2>3. QED
    BY <2>1, <2>2
<1>1. CASE \E a \in Addr : Malloc(a) \/ Free(a)
  BY <1>1, <1>s DEF Malloc, Free, Fifo!vars
<1>2. CASE \E a \in Addr : Push(a)
  BY <1>2, <1>p DEF Push, Fifo!vars, Fifo!Next
<1>3. CASE \E a, c \in Addr : PushCp(a, c)
  BY <1>3, <1>p DEF PushCp, Fifo!vars, Fifo!Next
<1>4. CASE Pop
  <2>1. ~IsEmpty(ring) /\ ring' = RingbufPop(ring) /\ got' = PoppedKey(ring)
    BY <1>4 DEF Pop
  <2>2. Contents # << >> /\ PoppedKey(ring) = Head(Contents) /\ Contents' = Tail(Contents)
    BY <2>1, <1>i, PopContents
  <2>3. QED
    BY <2>1, <2>2 DEF Fifo!Take, Fifo!Next
<1>5. CASE Clear \/ Reinit
  <2>1. ring' = RingbufInit(N) /\ UNCHANGED got
    BY <1>5, <1>i, FreshRing DEF Clear, Reinit
  <2>2. ring'.fill = 0
    BY <2>1, FreshRing
  <2>3. Contents' = << >>
    BY <2>2 DEF Contents
  <2>4. QED
    BY <2>1, <2>3 DEF Fifo!Flush, Fifo!Next
<1>6. CASE UNCHANGED vars
  BY <1>6, <1>s DEF vars, Fifo!vars
<1>7. QED
  BY <1>1, <1>2, <1>3, <1>4, <1>5, <1>6 DEF QueueNext

\* A ring of any length N is a queue of at most N objects: they come out in
\* the order they went in, and none of them twice or never.
THEOREM QueueIsFifo == QueueSpec => FifoSpec
<1>1. Init => Fifo!Init
  <2> SUFFICES ASSUME Init PROVE Fifo!Init
    OBVIOUS
  <2>1. ring.fill = 0 /\ got = NULL
    BY FreshRing DEF Init
  <2>2. TypeOK /\ WindowHoldsKeys
    BY InitIInv DEF IInv
  <2>3. Contents = << >>
    BY <2>1, <2>2, FreshContents
  <2>4. QED
    BY <2>1, <2>3 DEF Fifo!Init
<1>2. QED
  BY <1>1, FifoStep, QueueInvariant, PTL DEF QueueSpec, FifoSpec, Fifo!Spec

-----------------------------------------------------------------------------
(* Every operation, in any order: nothing has two owners.  WindowHoldsKeys *)
(* is false here, so these facts say nothing of positions and fill but     *)
(* that they are in range.                                                 *)

IsRing(rb) == rb.num_keys \in Nat \ {0} /\ rb \in RingbufOf(Addr, rb.num_keys)

\* The copy made with a fill of Word - 1.
NoRing(rb) == rb.num_keys = 0 /\ KeysOf(rb) = {}

Unshared(rb) ==
  \A i, j \in DOMAIN rb.keys : rb.keys[i] # NULL /\ rb.keys[i] = rb.keys[j] => i = j

\* NoDoubleOwner is inductive with the types: no position has to agree with fill.
AnyOrderInv ==
  /\ IsRing(ring) /\ ring.num_keys = N
  /\ out # NULL => IsRing(out) \/ NoRing(out)
  /\ size \in [Addr -> Nat] /\ held \subseteq Addr
  /\ NoDoubleOwner

\* The fields of a ring, and the objects in it.
Fields(rb) ==
  /\ rb.num_keys \in Nat \ {0} /\ rb.fill \in 0 .. Word-1
  /\ rb.read \in 0 .. rb.num_keys-1 /\ rb.write \in 0 .. rb.num_keys-1
  /\ rb.keys \in [0 .. rb.num_keys-1 -> Addr \cup {NULL}]
  /\ DOMAIN rb.keys = 0 .. rb.num_keys-1
  /\ rb = [write |-> rb.write, read |-> rb.read, num_keys |-> rb.num_keys,
           keys |-> rb.keys, fill |-> rb.fill]
  /\ KeysOf(rb) \subseteq Addr
  /\ \A k : k \in KeysOf(rb) <=> k # NULL /\ \E i \in 0 .. rb.num_keys-1 : rb.keys[i] = k

LEMMA AnyRing ==
  ASSUME NEW rb, IsRing(rb)
  PROVE  Fields(rb)
<1>1. rb \in RingbufOf(Addr, rb.num_keys) /\ rb.num_keys \in Nat \ {0}
  BY DEF IsRing
<1>2. /\ rb.fill \in 0 .. Word-1
      /\ rb.read \in 0 .. rb.num_keys-1 /\ rb.write \in 0 .. rb.num_keys-1
      /\ rb.keys \in [0 .. rb.num_keys-1 -> Addr \cup {NULL}]
      /\ rb = [write |-> rb.write, read |-> rb.read, num_keys |-> rb.num_keys,
               keys |-> rb.keys, fill |-> rb.fill]
  BY <1>1 DEF RingbufOf
<1>3. DOMAIN rb.keys = 0 .. rb.num_keys-1
  BY <1>2
<1>4. \A k : k \in KeysOf(rb) <=> k # NULL /\ \E i \in 0 .. rb.num_keys-1 : rb.keys[i] = k
  BY <1>3 DEF KeysOf
<1>5. QED
  BY <1>1, <1>2, <1>3, <1>4 DEF Fields

\* A record of the fields of a ring is one.
LEMMA MakeRing ==
  ASSUME NEW n \in Nat \ {0}, NEW w \in 0 .. n-1, NEW r \in 0 .. n-1,
         NEW f \in 0 .. Word-1, NEW k \in [0 .. n-1 -> Addr \cup {NULL}],
         NEW rb, rb = [write |-> w, read |-> r, num_keys |-> n, keys |-> k, fill |-> f]
  PROVE  IsRing(rb) /\ rb.num_keys = n /\ rb.keys = k
BY DEF IsRing, RingbufOf

\* Moving a position or the fill on keeps it in its range.
LEMMA InRange ==
  ASSUME NEW n \in Nat \ {0}, NEW i \in Int
  PROVE  i % n \in 0 .. n-1
OBVIOUS

LEMMA PushAny ==
  ASSUME NEW rb, IsRing(rb), Unshared(rb), NEW key \in Addr, key \notin KeysOf(rb),
         NEW new, new = RingbufPush(rb, key)
  PROVE  /\ IsRing(new) /\ Unshared(new) /\ new.num_keys = rb.num_keys
         /\ KeysOf(new) \subseteq KeysOf(rb) \cup (IF IsFull(rb) THEN {} ELSE {key})
<1>F. Fields(rb)
  BY AnyRing
<1>1. CASE IsFull(rb)
  BY <1>1 DEF RingbufPush
<1>2. CASE ~IsFull(rb)
  <2> DEFINE k == [rb.keys EXCEPT ![rb.write] = key]
  <2>0. Word \in Nat \ {0}
    BY WordAssumption
  <2>1. new = [write |-> (rb.write + 1) % rb.num_keys, read |-> rb.read,
               num_keys |-> rb.num_keys, keys |-> k, fill |-> (rb.fill + 1) % Word]
    BY <1>2, <1>F DEF RingbufPush, Fields
  <2>2. k \in [0 .. rb.num_keys-1 -> Addr \cup {NULL}]
    BY <1>F DEF Fields
  <2>3. (rb.write + 1) % rb.num_keys \in 0 .. rb.num_keys-1 /\ (rb.fill + 1) % Word \in 0 .. Word-1
    BY <2>0, <1>F, InRange DEF Fields
  <2>4. \A i \in 0 .. rb.num_keys-1 : k[i] = IF i = rb.write THEN key ELSE rb.keys[i]
    BY <1>F DEF Fields
  <2> HIDE DEF k
  <2>5. IsRing(new) /\ Fields(new) /\ new.num_keys = rb.num_keys /\ new.keys = k
    <3>1. IsRing(new) /\ new.num_keys = rb.num_keys /\ new.keys = k
      BY <2>1, <2>2, <2>3, <1>F, MakeRing DEF Fields
    <3>2. QED
      BY <3>1, AnyRing
  <2>6. Unshared(new)
    BY <2>4, <2>5, <1>F DEF Unshared, Fields
  <2>7. KeysOf(new) \subseteq KeysOf(rb) \cup {key}
    BY <2>4, <2>5, <1>F DEF Fields
  <2>8. QED
    BY <1>2, <2>5, <2>6, <2>7
<1>3. QED
  BY <1>1, <1>2

LEMMA PopAny ==
  ASSUME NEW rb, IsRing(rb), Unshared(rb), NEW new, new = RingbufPop(rb)
  PROVE  /\ IsRing(new) /\ Unshared(new) /\ new.num_keys = rb.num_keys
         /\ KeysOf(new) \subseteq KeysOf(rb) \ {PoppedKey(rb)}
         /\ PoppedKey(rb) \in KeysOf(rb) \cup {NULL}
<1>F. Fields(rb)
  BY AnyRing
<1> DEFINE k == [rb.keys EXCEPT ![rb.read] = NULL]
<1>0. Word \in Nat \ {0}
  BY WordAssumption
<1>1. new = [write |-> rb.write, read |-> (rb.read + 1) % rb.num_keys,
             num_keys |-> rb.num_keys, keys |-> k, fill |-> (rb.fill - 1) % Word]
  BY <1>F DEF RingbufPop, Fields
<1>2. k \in [0 .. rb.num_keys-1 -> Addr \cup {NULL}]
  BY <1>F DEF Fields
<1>3. (rb.read + 1) % rb.num_keys \in 0 .. rb.num_keys-1 /\ (rb.fill - 1) % Word \in 0 .. Word-1
  BY <1>0, <1>F, InRange DEF Fields
<1>4. \A i \in 0 .. rb.num_keys-1 : k[i] = IF i = rb.read THEN NULL ELSE rb.keys[i]
  BY <1>F DEF Fields
<1> HIDE DEF k
<1>5. IsRing(new) /\ Fields(new) /\ new.num_keys = rb.num_keys /\ new.keys = k
  <2>1. IsRing(new) /\ new.num_keys = rb.num_keys /\ new.keys = k
    BY <1>1, <1>2, <1>3, <1>F, MakeRing DEF Fields
  <2>2. QED
    BY <2>1, AnyRing
<1>6. Unshared(new)
  BY <1>4, <1>5, <1>F DEF Unshared, Fields
<1>7. KeysOf(new) \subseteq KeysOf(rb) \ {PoppedKey(rb)}
  <2>1. SUFFICES ASSUME NEW x \in KeysOf(new) PROVE x \in KeysOf(rb) /\ x # rb.keys[rb.read]
    BY DEF PoppedKey
  <2>2. PICK i \in 0 .. rb.num_keys-1 : k[i] = x /\ x # NULL
    BY <1>5, <1>F DEF Fields
  <2>3. i # rb.read /\ rb.keys[i] = x
    BY <1>4, <2>2
  <2>4. QED
    BY <2>2, <2>3, <1>F DEF Unshared, Fields
<1>8. PoppedKey(rb) \in KeysOf(rb) \cup {NULL}
  BY <1>F DEF PoppedKey, Fields
<1>9. QED
  BY <1>5, <1>6, <1>7, <1>8

\* ringbuf_clear, and ringbuf_init.
LEMMA ClearAny ==
  ASSUME NEW rb, IsRing(rb), NEW new,
         \/ new = RingbufClear(rb)
         \/ new = RingbufInit(rb.num_keys)
  PROVE  /\ IsRing(new) /\ Unshared(new) /\ new.num_keys = rb.num_keys
         /\ KeysOf(new) = {}
<1>F. Fields(rb)
  BY AnyRing
<1> DEFINE k == [i \in 0 .. rb.num_keys-1 |-> NULL]
<1>0. 0 \in 0 .. Word-1 /\ 0 \in 0 .. rb.num_keys-1
  BY WordAssumption, <1>F DEF Fields
<1>1. new = [write |-> 0, read |-> 0, num_keys |-> rb.num_keys, keys |-> k, fill |-> 0]
  <2>1. CASE new = RingbufClear(rb)
    BY <2>1, <1>F DEF RingbufClear, Fields
  <2>2. CASE new = RingbufInit(rb.num_keys)
    BY <2>2 DEF RingbufInit
  <2>3. QED
    BY <2>1, <2>2
<1>2. k \in [0 .. rb.num_keys-1 -> Addr \cup {NULL}]
  OBVIOUS
<1>3. IsRing(new) /\ Fields(new) /\ new.num_keys = rb.num_keys /\ new.keys = k
  <2>1. IsRing(new) /\ new.num_keys = rb.num_keys /\ new.keys = k
    BY <1>0, <1>1, <1>2, <1>F, MakeRing DEF Fields
  <2>2. QED
    BY <2>1, AnyRing
<1>4. KeysOf(new) = {}
  BY <1>3, <1>F DEF Fields
<1>5. Unshared(new)
  BY <1>3, <1>F DEF Unshared, Fields
<1>6. QED
  BY <1>3, <1>4, <1>5

\* ringbuf_copy takes the keys it copies away from its argument, even where
\* it writes outside the new array.
LEMMA CopyAny ==
  ASSUME NEW rb, IsRing(rb), Unshared(rb),
         NEW new, new = RingbufCopy(rb), NEW old, old = RingbufCopied(rb)
  PROVE  /\ IsRing(new) \/ NoRing(new)
         /\ Unshared(new) /\ KeysOf(new) \subseteq KeysOf(rb)
         /\ IsRing(old) /\ Unshared(old) /\ KeysOf(old) \subseteq KeysOf(rb)
         /\ old.num_keys = rb.num_keys /\ KeysOf(old) \cap KeysOf(new) = {}
<1>F. Fields(rb)
  BY AnyRing
<1> DEFINE P  == CopiedPositions(rb)
           n  == CopySize(rb)
           kn == [j \in 0 .. n - 1 |-> IF j + rb.read \in P THEN rb.keys[j + rb.read] ELSE NULL]
           ko == [i \in 0 .. rb.num_keys-1 |-> IF i \in P THEN NULL ELSE rb.keys[i]]
<1>0. /\ rb.fill \in Nat /\ rb.fill \in 0 .. Word-1 /\ rb.read \in Nat
      /\ 0 \in 0 .. Word-1 /\ 0 \in 0 .. rb.num_keys-1 /\ rb.num_keys \in Nat \ {0}
      /\ n \in Nat /\ (n = 0 \/ n = rb.fill + 1)
  <2>1. /\ rb.fill \in 0 .. Word-1 /\ Word \in Nat \ {0} /\ rb.read \in Nat
        /\ 0 \in 0 .. rb.num_keys-1 /\ rb.num_keys \in Nat \ {0}
    BY WordAssumption, <1>F DEF Fields
  <2>2. (rb.fill + 1) % Word = IF rb.fill + 1 = Word THEN 0 ELSE rb.fill + 1
    BY <2>1, NextSlot
  <2>3. QED
    BY <2>1, <2>2 DEF CopySize
<1>1. P \subseteq 0 .. rb.num_keys-1
  BY <1>F DEF CopiedPositions, Fields
<1>2. \A i \in P : rb.keys[i] \in Addr \cup {NULL}
  BY <1>1, <1>F DEF Fields
<1>1a. CopiedPositions(rb) = P /\ CopySize(rb) = n
  OBVIOUS
<1> HIDE DEF P, n
<1>3. kn \in [0 .. n - 1 -> Addr \cup {NULL}] /\ ko \in [0 .. rb.num_keys-1 -> Addr \cup {NULL}]
  BY <1>2, <1>F DEF Fields
<1>4. new = [write |-> rb.fill, read |-> 0, num_keys |-> n, keys |-> kn, fill |-> rb.fill]
  BY <1>1a DEF RingbufCopy
<1>5. old = [write |-> 0, read |-> 0, num_keys |-> rb.num_keys, keys |-> ko, fill |-> 0]
  BY <1>F DEF RingbufCopied, P, Fields
<1>6. /\ \A j \in 0 .. n - 1 : kn[j] = IF j + rb.read \in P THEN rb.keys[j + rb.read] ELSE NULL
      /\ \A i \in 0 .. rb.num_keys-1 : ko[i] = IF i \in P THEN NULL ELSE rb.keys[i]
  OBVIOUS
<1> HIDE DEF kn, ko
<1>7. /\ new.num_keys = n /\ new.keys = kn /\ DOMAIN new.keys = 0 .. n - 1
      /\ \A x : x \in KeysOf(new) <=> x # NULL /\ \E j \in 0 .. n - 1 : kn[j] = x
  <2>1. new.num_keys = n /\ new.keys = kn
    BY <1>4
  <2>2. DOMAIN new.keys = 0 .. n - 1
    BY <1>3, <2>1
  <2>3. QED
    BY <2>1, <2>2 DEF KeysOf
<1>7a. IsRing(new) \/ NoRing(new)
  <2>1. CASE n = 0
    BY <1>7, <2>1 DEF NoRing
  <2>2. CASE n # 0
    <3>1. n \in Nat \ {0} /\ rb.fill \in 0 .. n-1 /\ 0 \in 0 .. n-1
      BY <1>0, <2>2
    <3>2. QED
      BY <1>0, <1>3, <1>4, <3>1, MakeRing
  <2>3. QED
    BY <2>1, <2>2
<1>8. IsRing(old) /\ Fields(old) /\ old.num_keys = rb.num_keys /\ old.keys = ko
  <2>1. IsRing(old) /\ old.num_keys = rb.num_keys /\ old.keys = ko
    BY <1>0, <1>3, <1>5, MakeRing
  <2>2. QED
    BY <2>1, AnyRing
<1>9. \A x \in KeysOf(new) : \E i \in P : rb.keys[i] = x /\ x # NULL
  <2>1. SUFFICES ASSUME NEW x \in KeysOf(new) PROVE \E i \in P : rb.keys[i] = x /\ x # NULL
    OBVIOUS
  <2>2. PICK j \in 0 .. n - 1 : kn[j] = x /\ x # NULL
    BY <1>7, <2>1
  <2>3. QED
    BY <1>6, <2>2
<1>10. \A x \in KeysOf(old) : \E i \in (0 .. rb.num_keys-1) \ P : rb.keys[i] = x /\ x # NULL
  BY <1>6, <1>8, <1>F DEF Fields
<1>11. KeysOf(new) \subseteq KeysOf(rb) /\ KeysOf(old) \subseteq KeysOf(rb)
  BY <1>1, <1>9, <1>10, <1>F DEF Fields
<1>12. KeysOf(old) \cap KeysOf(new) = {}
  BY <1>1, <1>9, <1>10, <1>F DEF Unshared, Fields
<1>13. Unshared(old)
  BY <1>6, <1>8, <1>F DEF Unshared, Fields
<1>14. Unshared(new)
  <2>1. SUFFICES ASSUME NEW i \in 0 .. n - 1, NEW j \in 0 .. n - 1, kn[i] # NULL, kn[i] = kn[j]
                 PROVE  i = j
    BY <1>7 DEF Unshared
  <2>2. /\ i + rb.read \in P /\ j + rb.read \in P
        /\ rb.keys[i + rb.read] = rb.keys[j + rb.read] /\ rb.keys[i + rb.read] # NULL
    BY <1>6, <2>1
  <2>3. i + rb.read = j + rb.read
    BY <1>1, <2>2, <1>F DEF Unshared, Fields
  <2>4. QED
    BY <1>0, <2>3
<1>15. QED
  BY <1>7a, <1>8, <1>11, <1>12, <1>13, <1>14

LEMMA DupAny ==
  ASSUME NEW rb, IsRing(rb), Unshared(rb), NEW S \in SUBSET Addr,
         NEW copy \in Injection(KeysOf(rb), S), NEW new, new = RingbufDup(rb, copy)
  PROVE  IsRing(new) /\ Unshared(new) /\ KeysOf(new) \subseteq Range(copy)
<1>F. Fields(rb)
  BY AnyRing
<1> DEFINE k == [i \in 0 .. rb.num_keys-1 |-> IF rb.keys[i] = NULL THEN NULL ELSE copy[rb.keys[i]]]
<1>1. /\ copy \in [KeysOf(rb) -> S]
      /\ \A a, b \in KeysOf(rb) : copy[a] = copy[b] => a = b
  BY DEF Injection, IsInjective
<1>2. \A i \in 0 .. rb.num_keys-1 : rb.keys[i] # NULL => rb.keys[i] \in KeysOf(rb)
  BY <1>F DEF Fields
<1>3. k \in [0 .. rb.num_keys-1 -> Addr \cup {NULL}]
  BY <1>1, <1>2
<1>4. new = [write |-> rb.write, read |-> rb.read, num_keys |-> rb.num_keys,
             keys |-> k, fill |-> rb.fill]
  BY <1>F DEF RingbufDup, Fields
<1>5. \A i \in 0 .. rb.num_keys-1 : k[i] = IF rb.keys[i] = NULL THEN NULL ELSE copy[rb.keys[i]]
  OBVIOUS
<1> HIDE DEF k
<1>6. IsRing(new) /\ Fields(new) /\ new.num_keys = rb.num_keys /\ new.keys = k
  <2>1. IsRing(new) /\ new.num_keys = rb.num_keys /\ new.keys = k
    BY <1>3, <1>4, <1>F, MakeRing DEF Fields
  <2>2. QED
    BY <2>1, AnyRing
<1>7. Unshared(new)
  <2>1. SUFFICES ASSUME NEW i \in 0 .. rb.num_keys-1, NEW j \in 0 .. rb.num_keys-1,
                        k[i] # NULL, k[i] = k[j]
                 PROVE  i = j
    BY <1>6, <1>F DEF Unshared, Fields
  <2>2. rb.keys[i] \in KeysOf(rb) /\ rb.keys[j] \in KeysOf(rb)
    BY <1>2, <1>5, <2>1
  <2>3. rb.keys[i] # NULL /\ rb.keys[i] = rb.keys[j]
    BY <1>1, <1>5, <2>1, <2>2
  <2>4. QED
    BY <2>3, <1>F DEF Unshared, Fields
<1>8. KeysOf(new) \subseteq Range(copy)
  BY <1>1, <1>2, <1>5, <1>6, <1>F DEF Range, Fields
<1>9. QED
  BY <1>6, <1>7, <1>8

LEMMA InsertAny ==
  ASSUME NEW rb, IsRing(rb), Unshared(rb), NEW elem \in Nat,
         NEW key \in Addr, key \notin KeysOf(rb), NEW new, new = RingbufInsert(rb, elem, key)
  PROVE  /\ IsRing(new) /\ Unshared(new) /\ new.num_keys = rb.num_keys
         /\ KeysOf(new) \subseteq (KeysOf(rb) \ {RingbufGet(rb, elem)}) \cup {key}
         /\ RingbufGet(rb, elem) \in KeysOf(rb) \cup {NULL}
<1>F. Fields(rb)
  BY AnyRing
<1> DEFINE loc == elem % rb.num_keys
           k == [rb.keys EXCEPT ![loc] = key]
           f == IF rb.keys[loc] = NULL THEN (rb.fill + 1) % Word ELSE rb.fill
<1>0. Word \in Nat \ {0}
  BY WordAssumption
<1>1. loc \in 0 .. rb.num_keys-1
  BY <1>F, InRange DEF Fields
<1>2. new = [write |-> rb.write, read |-> rb.read, num_keys |-> rb.num_keys, keys |-> k, fill |-> f]
  BY <1>F DEF RingbufInsert, Location, Fields
<1>3. RingbufGet(rb, elem) = rb.keys[loc]
  BY DEF RingbufGet, Location
<1> HIDE DEF loc
<1>4. k \in [0 .. rb.num_keys-1 -> Addr \cup {NULL}]
  BY <1>F DEF Fields
<1>5. f \in 0 .. Word-1
  BY <1>0, <1>F, InRange DEF Fields
<1>6. \A i \in 0 .. rb.num_keys-1 : k[i] = IF i = loc THEN key ELSE rb.keys[i]
  BY <1>F DEF Fields
<1> HIDE DEF k, f
<1>7. IsRing(new) /\ Fields(new) /\ new.num_keys = rb.num_keys /\ new.keys = k
  <2>1. IsRing(new) /\ new.num_keys = rb.num_keys /\ new.keys = k
    BY <1>2, <1>4, <1>5, <1>F, MakeRing DEF Fields
  <2>2. QED
    BY <2>1, AnyRing
<1>8. Unshared(new)
  BY <1>6, <1>7, <1>F DEF Unshared, Fields
<1>9. KeysOf(new) \subseteq (KeysOf(rb) \ {rb.keys[loc]}) \cup {key}
  <2>1. SUFFICES ASSUME NEW x \in KeysOf(new), x # key PROVE x \in KeysOf(rb) /\ x # rb.keys[loc]
    OBVIOUS
  <2>2. PICK i \in 0 .. rb.num_keys-1 : k[i] = x /\ x # NULL
    BY <1>7, <1>F DEF Fields
  <2>3. i # loc /\ rb.keys[i] = x
    BY <1>6, <2>1, <2>2
  <2>4. QED
    BY <1>1, <2>2, <2>3, <1>F DEF Unshared, Fields
<1>10. rb.keys[loc] \in KeysOf(rb) \cup {NULL}
  BY <1>1, <1>F DEF Fields
<1>11. QED
  BY <1>3, <1>7, <1>8, <1>9, <1>10

-----------------------------------------------------------------------------
(* The steps, in terms of who owns what. *)

Owned(K, O, h, l) == h \cup K \cup O \subseteq l /\ h \cap (K \cup O) = {} /\ K \cap O = {}

\* What the invariant says, ring by ring.
LEMMA Owners ==
  AnyOrderInv <=>
    /\ IsRing(ring) /\ ring.num_keys = N /\ Unshared(ring)
    /\ out # NULL => (IsRing(out) \/ NoRing(out)) /\ Unshared(out)
    /\ size \in [Addr -> Nat] /\ held \subseteq Addr
    /\ Owned(KeysOf(ring), OutKeys, held, Live)
BY DEF AnyOrderInv, NoDoubleOwner, Unshared, Owned

\* Allocating and freeing a set of addresses.
LEMMA AnySized ==
  ASSUME size \in [Addr -> Nat], NEW S, NEW n \in Nat, size' = Sized(S, n)
  PROVE  /\ size' \in [Addr -> Nat]
         /\ n = 0 => Live' = Live \ S
         /\ n # 0 => Live' = Live \cup (S \cap Addr)
<1>1. size' \in [Addr -> Nat]
  BY DEF Sized
<1>2. \A a \in Addr : size'[a] = IF a \in S THEN n ELSE size[a]
  BY DEF Sized
<1>3. QED
  BY <1>1, <1>2 DEF Live

LEMMA InitOwned == Init => AnyOrderInv
<1> SUFFICES ASSUME Init PROVE AnyOrderInv
  OBVIOUS
<1>1. IsRing(RingbufInit(N)) /\ Unshared(RingbufInit(N)) /\ KeysOf(RingbufInit(N)) = {}
  <2> DEFINE k == [i \in 0 .. N-1 |-> NULL]
  <2>1. N \in Nat \ {0} /\ 0 \in 0 .. N-1 /\ 0 \in 0 .. Word-1
    BY SizeAssumption, WordAssumption
  <2>2. RingbufInit(N) = [write |-> 0, read |-> 0, num_keys |-> N, keys |-> k, fill |-> 0]
    BY DEF RingbufInit
  <2>3. k \in [0 .. N-1 -> Addr \cup {NULL}] /\ \A i \in 0 .. N-1 : k[i] = NULL
    OBVIOUS
  <2> HIDE DEF k
  <2>4. IsRing(RingbufInit(N)) /\ RingbufInit(N).keys = k
    BY <2>1, <2>2, <2>3, MakeRing
  <2>5. DOMAIN RingbufInit(N).keys = 0 .. N-1
    BY <2>3, <2>4
  <2>6. QED
    BY <2>3, <2>4, <2>5 DEF Unshared, KeysOf
<1>2. ring.num_keys = N
  BY DEF Init, RingbufInit
<1>3. out = NULL /\ OutKeys = {} /\ held = {} /\ size \in [Addr -> Nat]
  BY DEF Init, OutKeys
<1>4. QED
  BY <1>1, <1>2, <1>3, Owners DEF Init, Owned

LEMMA AnyOrderStep == AnyOrderInv /\ [Next]_vars => AnyOrderInv'
<1> SUFFICES ASSUME AnyOrderInv, [Next]_vars PROVE AnyOrderInv'
  OBVIOUS
<1> DEFINE K == KeysOf(ring)
           O == OutKeys
<1>0. /\ IsRing(ring) /\ ring.num_keys = N /\ Unshared(ring)
      /\ out # NULL => (IsRing(out) \/ NoRing(out)) /\ Unshared(out)
      /\ size \in [Addr -> Nat] /\ held \subseteq Addr
      /\ Owned(K, O, held, Live)
  BY Owners
<1>f. K \subseteq Addr /\ NULL \notin K /\ NULL \notin O /\ Live \subseteq Addr
  <2>1. K \subseteq Addr
    BY <1>0, AnyRing DEF Fields
  <2>2. NULL \notin K /\ NULL \notin O /\ Live \subseteq Addr
    BY DEF KeysOf, OutKeys, Live
  <2>3. QED
    BY <2>1, <2>2
<1>o. out' = out => O' = O
  BY DEF OutKeys
<1>l. size' = size => Live' = Live
  BY DEF Live
\* Whatever a step did, these facts about the new state are enough.
<1>q. ASSUME IsRing(ring'), ring'.num_keys = N, Unshared(ring'),
             out' # NULL => (IsRing(out') \/ NoRing(out')) /\ Unshared(out'),
             size' \in [Addr -> Nat], held' \subseteq Addr,
             Owned(KeysOf(ring'), O', held', Live')
      PROVE  AnyOrderInv'
  BY <1>q DEF AnyOrderInv, NoDoubleOwner, Unshared, Owned
<1> HIDE DEF K, O
<1>k. K = KeysOf(ring)
  BY DEF K
<1>1. CASE UNCHANGED vars
  BY <1>0, <1>k, <1>o, <1>l, <1>1, <1>q DEF vars
<1>2. ASSUME NEW a \in Addr, Malloc(a) PROVE AnyOrderInv'
  <2>1. size' \in [Addr -> Nat] /\ Live' = Live \cup {a}
    BY <1>0, <1>2, ObjAssumption, AnySized DEF Malloc
  <2>2. QED
    BY <1>0, <1>k, <1>o, <1>2, <2>1, <1>q DEF Malloc, Owned
<1>3. ASSUME NEW a \in Addr, Free(a) PROVE AnyOrderInv'
  <2>1. size' \in [Addr -> Nat] /\ Live' = Live \ {a}
    BY <1>0, <1>3, AnySized DEF Free
  <2>2. QED
    BY <1>0, <1>k, <1>o, <1>3, <2>1, <1>q DEF Free, Owned
<1>4. ASSUME NEW a \in Addr, Push(a) PROVE AnyOrderInv'
  <2>1. a \notin K
    BY <1>0, <1>4 DEF Push, Owned
  <2>2. /\ IsRing(ring') /\ Unshared(ring') /\ ring'.num_keys = N
        /\ KeysOf(ring') \subseteq K \cup (IF IsFull(ring) THEN {} ELSE {a})
    BY <1>0, <1>k, <1>4, <2>1, PushAny DEF Push
  <2>3. QED
    BY <1>0, <1>o, <1>l, <1>4, <2>2, <1>q DEF Push, Owned
<1>5. ASSUME NEW a \in Addr, NEW c \in Addr, PushCp(a, c) PROVE AnyOrderInv'
  <2>1. c \notin K /\ c \notin O /\ c \notin held /\ size[a] \in Nat \ {0}
    BY <1>0, <1>5 DEF PushCp, Owned, Live
  <2>2. /\ IsRing(ring') /\ Unshared(ring') /\ ring'.num_keys = N
        /\ KeysOf(ring') \subseteq K \cup (IF IsFull(ring) THEN {} ELSE {c})
    BY <1>0, <1>k, <1>5, <2>1, PushAny DEF PushCp
  <2>3. size' \in [Addr -> Nat] /\ Live' = IF IsFull(ring) THEN Live ELSE Live \cup {c}
    BY <1>0, <1>l, <1>5, <2>1, AnySized DEF PushCp
  <2>4. QED
    BY <1>0, <1>o, <1>5, <2>1, <2>2, <2>3, <1>q DEF PushCp, Owned
<1>6. CASE Pop
  <2>1. /\ IsRing(ring') /\ Unshared(ring') /\ ring'.num_keys = N
        /\ KeysOf(ring') \subseteq K \ {PoppedKey(ring)} /\ PoppedKey(ring) \in K \cup {NULL}
    BY <1>0, <1>k, <1>6, PopAny DEF Pop
  <2>2. QED
    BY <1>0, <1>f, <1>o, <1>l, <1>6, <2>1, <1>q DEF Pop, Owned
<1>7. CASE Clear
  <2>1. IsRing(ring') /\ Unshared(ring') /\ ring'.num_keys = N /\ KeysOf(ring') = {}
    BY <1>0, <1>7, ClearAny DEF Clear
  <2>2. size' \in [Addr -> Nat] /\ Live' = Live \ K
    BY <1>0, <1>k, <1>7, AnySized DEF Clear
  <2>3. QED
    BY <1>0, <1>o, <1>7, <2>1, <2>2, <1>q DEF Clear, Owned
<1>8. CASE Reinit
  <2>1. IsRing(ring') /\ Unshared(ring') /\ ring'.num_keys = N /\ KeysOf(ring') = {}
    BY <1>0, <1>8, ClearAny DEF Reinit
  <2>2. QED
    BY <1>0, <1>o, <1>l, <1>8, <2>1, <1>q DEF Reinit, Owned
<1>9. CASE Copy
  <2>1. /\ IsRing(out') \/ NoRing(out')
        /\ Unshared(out') /\ KeysOf(out') \subseteq K
        /\ IsRing(ring') /\ Unshared(ring') /\ KeysOf(ring') \subseteq K
        /\ ring'.num_keys = N /\ KeysOf(ring') \cap KeysOf(out') = {}
    BY <1>0, <1>k, <1>9, CopyAny DEF Copy
  <2>2. O' \subseteq KeysOf(out')
    BY DEF O, OutKeys
  <2>3. QED
    BY <1>0, <1>l, <1>9, <2>1, <2>2, <1>q DEF Copy, Owned
<1>10. CASE Dup
  <2>1. PICK copy \in Injection(KeysOf(ring), Addr \ Live) :
          out' = RingbufDup(ring, copy) /\ size' = Sized(Range(copy), DupSize)
    BY <1>10 DEF Dup
  <2>2. IsRing(out') /\ Unshared(out') /\ KeysOf(out') \subseteq Range(copy)
    BY <1>0, <2>1, DupAny
  <2>3. Range(copy) \subseteq Addr \ Live
    BY <2>1 DEF Range, Injection
  <2>4. size' \in [Addr -> Nat] /\ Live' = Live \cup Range(copy)
    BY <1>0, <2>1, <2>3, AnySized DEF DupSize
  <2>5. O' \subseteq KeysOf(out')
    BY DEF O, OutKeys
  <2>6. QED
    BY <1>0, <1>k, <1>10, <2>2, <2>3, <2>4, <2>5, <1>q DEF Dup, Owned
<1>11. CASE PopOut
  <2>1. O = KeysOf(out) /\ IsRing(out) /\ Unshared(out)
    BY <1>0, <1>11 DEF PopOut, O, OutKeys, NoRing
  <2>2. /\ IsRing(out') /\ Unshared(out')
        /\ KeysOf(out') \subseteq O \ {PoppedKey(out)} /\ PoppedKey(out) \in O \cup {NULL}
    BY <1>11, <2>1, PopAny DEF PopOut
  <2>3. O' \subseteq KeysOf(out')
    BY DEF O, OutKeys
  <2>4. O \subseteq Addr
    BY <2>1, AnyRing DEF Fields
  <2>5. QED
    BY <1>0, <1>f, <1>k, <1>l, <1>11, <2>2, <2>3, <2>4, <1>q DEF PopOut, Owned
<1>11a. CASE PopNothing
  BY <1>0, <1>k, <1>o, <1>l, <1>11a, <1>q DEF PopNothing
<1>12. CASE ClearOut
  <2>1. O' = {} /\ out' = NULL
    BY <1>12 DEF ClearOut, O, OutKeys
  <2>2. size' \in [Addr -> Nat] /\ Live' = Live \ O
    BY <1>0, <1>12, AnySized DEF ClearOut, O
  <2>3. QED
    BY <1>0, <1>k, <1>12, <2>1, <2>2, <1>q DEF ClearOut, Owned
<1>13. ASSUME NEW a \in Addr, NEW elem \in 0 .. N, NEW overwrite \in BOOLEAN,
              Insert(a, elem, overwrite)
       PROVE  AnyOrderInv'
  <2> DEFINE g == RingbufGet(ring, elem)
  <2>1. a \notin K /\ elem \in Nat
    BY <1>0, <1>13, SizeAssumption DEF Insert, Owned
  <2>2. /\ IsRing(ring') /\ Unshared(ring') /\ ring'.num_keys = N
        /\ KeysOf(ring') \subseteq (K \ {g}) \cup {a} /\ g \in K \cup {NULL}
    BY <1>0, <1>k, <1>13, <2>1, InsertAny DEF Insert
  <2>3. size' \in [Addr -> Nat] /\ Live' = Live \ {g}
    BY <1>0, <1>13, AnySized DEF Insert
  <2> HIDE DEF g
  <2>4. QED
    <3>1. a \in held /\ out' = out /\ held' = held \ {a}
      BY <1>13 DEF Insert
    <3>2. O' = O /\ g \notin held /\ g \notin O
      BY <1>0, <1>f, <1>o, <2>2, <3>1, NullAssumption DEF Owned
    <3>3. Owned(KeysOf(ring'), O', held', Live')
      BY <1>0, <2>1, <2>2, <2>3, <3>1, <3>2 DEF Owned
    <3>4. QED
      BY <1>0, <2>2, <2>3, <3>1, <3>3, <1>q
<1>14. QED
  BY <1>1, <1>2, <1>3, <1>4, <1>5, <1>6, <1>7, <1>8, <1>9, <1>10, <1>11, <1>11a, <1>12, <1>13
     DEF Next, QueueNext, SharedNext

LEMMA AnyOrderHolds == Spec => []AnyOrderInv
BY InitOwned, AnyOrderStep, PTL DEF Spec

\* Whatever is called in whatever order, insert, copy and dup included, no
\* object has two owners, and what has an owner is allocated.
THEOREM OwnersHold == Spec => []NoDoubleOwner
<1>1. AnyOrderInv => NoDoubleOwner
  BY DEF AnyOrderInv
<1>2. QED
  BY <1>1, AnyOrderHolds, PTL
=============================================================================
