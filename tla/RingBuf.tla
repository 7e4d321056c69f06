------------------------------- MODULE RingBuf -------------------------------
(***************************************************************************)
(* The functions of lib/ringbuf/ringbuf.c as operators on the Ringbuf      *)
(* struct.  A key is the address of an object, or NULL.  Positions and     *)
(* counts are uint64_t in the code; only fill, and what ringbuf_copy makes *)
(* of it, can leave 0 .. num_keys, and they alone are kept modulo Word.    *)
(***************************************************************************)
EXTENDS Integers

CONSTANTS
  NULL,    \* C's null pointer
  Word,    \* 2^64 in the code
  MaxKeys  \* the most keys ringbuf_init can set up; it counts them with an int

ASSUME WordAssumption == Word \in Nat \ {0} /\ MaxKeys \in Nat /\ MaxKeys < Word

\* typedef struct { write, read, num_keys, keys, fill } Ringbuf;
RingbufOf(Key, n) ==
  [write : 0 .. n-1, read : 0 .. n-1, num_keys : {n},
   keys : [0 .. n-1 -> Key \cup {NULL}], fill : 0 .. Word-1]

\* The objects a ring points to.
KeysOf(rb) == {rb.keys[i] : i \in DOMAIN rb.keys} \ {NULL}

RingbufInit(n) ==
  [write |-> 0, read |-> 0, num_keys |-> n,
   keys |-> [i \in 0 .. n-1 |-> NULL], fill |-> 0]

\* Mutant: full one key too late.
IsFullLate(rb) == rb.fill > rb.num_keys

IsFull(rb)  == rb.write = rb.read /\ rb.fill # 0
\* Mutant: a full ring is taken for an empty one.
IsEmptyOrFull(rb) == rb.write = rb.read

IsEmpty(rb) == rb.write = rb.read /\ rb.fill = 0

\* The ring after ringbuf_push(rb, key): unchanged when it was full.
RingbufPush(rb, key) ==
  IF IsFull(rb) THEN rb
  ELSE [rb EXCEPT !.keys[rb.write] = key,
                  !.write = (@ + 1) % rb.num_keys,
                  !.fill  = (@ + 1) % Word]

\* Mutant: the newest key is popped.
PoppedKeyNewest(rb) == rb.keys[(rb.write - 1) % rb.num_keys]

\* Mutant: the popped key stays in its slot.
RingbufPopKeeps(rb) ==
  [rb EXCEPT !.read = (@ + 1) % rb.num_keys,
             !.fill = (@ - 1) % Word]

\* What ringbuf_pop stores in *dest, and the ring it leaves (rb not empty).
PoppedKey(rb) == rb.keys[rb.read]

RingbufPop(rb) ==
  [rb EXCEPT !.keys[rb.read] = NULL,
             !.read = (@ + 1) % rb.num_keys,
             !.fill = (@ - 1) % Word]

\* ringbuf_clear empties the ring; the objects KeysOf(rb) are freed with it.
RingbufClear(rb) ==
  [rb EXCEPT !.keys = [i \in DOMAIN rb.keys |-> NULL],
             !.write = 0, !.read = 0, !.fill = 0]

(***************************************************************************)
(* ringbuf_copy.  The loop runs i from read to write, modulo num_keys, and *)
(* stores key i of rb at position i - read of a new array of fill + 1      *)
(* keys.  When the unread keys wrap around the end of the old array, the   *)
(* positions of the wrapped ones are negative, outside the new one; when   *)
(* fill is less than their number, the new array is too small; and a fill  *)
(* that has wrapped around below zero asks for more keys than ringbuf_init *)
(* can set up, or, at Word - 1, for none.                                  *)
(***************************************************************************)
CopiedPositions(rb) ==
  IF rb.read <= rb.write THEN rb.read .. rb.write - 1
  ELSE (rb.read .. rb.num_keys - 1) \cup (0 .. rb.write - 1)

CopySize(rb) == (rb.fill + 1) % Word

CopyOverruns(rb) ==
  \/ CopySize(rb) > MaxKeys
  \/ \E i \in CopiedPositions(rb) : i - rb.read \notin 0 .. CopySize(rb) - 1

\* Mutant: one key less is allocated.
RingbufCopyTight(rb) ==
  [write |-> rb.fill, read |-> 0, num_keys |-> rb.fill,
   keys |-> [j \in 0 .. rb.fill - 1 |->
               IF j + rb.read \in CopiedPositions(rb)
               THEN rb.keys[j + rb.read] ELSE NULL],
   fill |-> rb.fill]

\* The new ring.
RingbufCopy(rb) ==
  [write |-> rb.fill, read |-> 0, num_keys |-> CopySize(rb),
   keys |-> [j \in 0 .. CopySize(rb) - 1 |->
               IF j + rb.read \in CopiedPositions(rb)
               THEN rb.keys[j + rb.read] ELSE NULL],
   fill |-> rb.fill]

\* Mutant: the argument keeps the keys it handed over.
RingbufCopiedKeeps(rb) == [rb EXCEPT !.write = 0, !.read = 0, !.fill = 0]

\* Mutant: the argument is drained where it stands.
RingbufCopiedInPlace(rb) ==
  [rb EXCEPT !.keys = [i \in DOMAIN rb.keys |->
                         IF i \in CopiedPositions(rb) THEN NULL ELSE @[i]],
             !.read = rb.write, !.fill = 0]

\* The argument, after its keys were handed over.
RingbufCopied(rb) ==
  [write |-> 0, read |-> 0, num_keys |-> rb.num_keys,
   keys |-> [i \in DOMAIN rb.keys |->
               IF i \in CopiedPositions(rb) THEN NULL ELSE rb.keys[i]],
   fill |-> 0]

\* ringbuf_dup, where copy[k] is the address of the copy made of object k.
RingbufDup(rb, copy) ==
  [rb EXCEPT !.keys = [i \in DOMAIN rb.keys |->
                         IF @[i] = NULL THEN NULL ELSE copy[@[i]]]]

\* ringbuf_insert: the position, whether it stores the key, and the result.
Location(rb, elem) == elem % rb.num_keys

Inserts(rb, elem, overwrite) ==
  overwrite \/ rb.keys[Location(rb, elem)] = NULL

RingbufInsert(rb, elem, key) ==
  LET loc == Location(rb, elem) IN
  [rb EXCEPT !.keys[loc] = key,
             !.fill = IF rb.keys[loc] = NULL THEN (@ + 1) % Word ELSE @]

\* What ringbuf_get stores in *dest.
RingbufGet(rb, elem) == rb.keys[Location(rb, elem)]
=============================================================================
