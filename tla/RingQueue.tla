------------------------------ MODULE RingQueue ------------------------------
(***************************************************************************)
(* One ring buffer and a client that owns the objects it stores: it        *)
(* allocates them, pushes them, pops them and frees what it got back.  The *)
(* code is single-threaded, so each call of the library is one step.       *)
(*                                                                         *)
(* QueueSpec is the ring used as a queue (push, pushcp, pop, clear); Spec  *)
(* adds ringbuf_copy, ringbuf_dup and ringbuf_insert, which hand keys to a *)
(* second ring `out` or put them at arbitrary places.                      *)
(***************************************************************************)
EXTENDS RingBuf, Sequences, Functions

CONSTANTS
  Addr,     \* the addresses malloc may return
  N,        \* num_keys of the ring
  ObjSize   \* the size in bytes of the objects the client stores

ASSUME SizeAssumption == N \in Nat \ {0} /\ N <= MaxKeys
ASSUME ObjAssumption  == ObjSize \in Nat \ {0, 1}
ASSUME NullAssumption == NULL \notin Addr

VARIABLES
  ring,    \* the Ringbuf
  alive,   \* its keys array is allocated (FALSE after ringbuf_clear)
  out,     \* the Ringbuf that ringbuf_copy or ringbuf_dup made, or NULL
  size,    \* the bytes allocated at each address, 0 when it is free
  held,    \* the addresses the client is responsible for
  got,     \* the key the last pop of ring delivered
  overrun  \* a keys array was accessed outside its bounds

vars == <<ring, alive, out, size, held, got, overrun>>

Init ==
  /\ ring = RingbufInit(N) /\ alive = TRUE
  /\ out = NULL
  /\ size = [a \in Addr |-> 0] /\ held = {}
  /\ got = NULL
  /\ overrun = FALSE

Live    == {a \in Addr : size[a] # 0}
OutKeys == IF out = NULL THEN {} ELSE KeysOf(out)

\* The heap after allocating n bytes at every address of S (0: freeing S).
Sized(S, n) == [a \in Addr |-> IF a \in S THEN n ELSE size[a]]

-----------------------------------------------------------------------------
(* The client's own steps. *)

\* The client allocates an object.
Malloc(a) ==
  /\ a \notin Live
  /\ size' = Sized({a}, ObjSize)
  /\ held' = held \cup {a}
  /\ UNCHANGED <<ring, alive, out, got, overrun>>

\* The client frees an object that is its own again.
Free(a) ==
  /\ a \in held
  /\ size' = Sized({a}, 0)
  /\ held' = held \ {a}
  /\ UNCHANGED <<ring, alive, out, got, overrun>>

-----------------------------------------------------------------------------
(* The ring as a queue. *)

\* ringbuf_push: the ring takes the object over, unless it is full.
Push(a) ==
  /\ alive /\ a \in held
  /\ ring' = RingbufPush(ring, a)
  /\ held' = IF IsFull(ring) THEN held ELSE held \ {a}
  /\ UNCHANGED <<alive, out, size, got, overrun>>

\* ringbuf_pushcp: the ring stores a fresh copy c of the whole object a.
PushCp(a, c) ==
  /\ alive /\ a \in held /\ c \notin Live
  /\ ring' = RingbufPush(ring, c)
  /\ size' = IF IsFull(ring) THEN size ELSE Sized({c}, size[a])
  /\ UNCHANGED <<alive, out, held, got, overrun>>

\* ringbuf_pop on a ring that is not empty gives the key to the client.
Pop ==
  /\ alive /\ ~IsEmpty(ring)
  /\ got' = PoppedKey(ring)
  /\ held' = held \cup ({PoppedKey(ring)} \ {NULL})
  /\ ring' = RingbufPop(ring)
  /\ UNCHANGED <<alive, out, size, overrun>>

\* ringbuf_clear frees the objects and then the array of keys.
Clear ==
  /\ alive
  /\ size' = Sized(KeysOf(ring), 0)
  /\ ring' = RingbufClear(ring)
  /\ alive' = FALSE
  /\ UNCHANGED <<out, held, got, overrun>>

\* After ringbuf_clear only a new ringbuf_init makes the ring usable.
Reinit ==
  /\ ~alive
  /\ ring' = RingbufInit(N)
  /\ alive' = TRUE
  /\ UNCHANGED <<out, size, held, got, overrun>>

QueueNext ==
  \/ \E a \in Addr : Malloc(a) \/ Free(a) \/ Push(a)
  \/ \E a, c \in Addr : PushCp(a, c)
  \/ Pop \/ Clear \/ Reinit

QueueSpec == Init /\ [][QueueNext]_vars

-----------------------------------------------------------------------------
(* The operations that reach into the ring.  After an access outside an    *)
(* array the program has no defined behaviour and the model stops.         *)

\* ringbuf_copy hands the unread keys to a new ring.
Copy ==
  /\ alive /\ out = NULL
  /\ out' = RingbufCopy(ring)
  /\ ring' = RingbufCopied(ring)
  /\ overrun' = CopyOverruns(ring)
  /\ UNCHANGED <<alive, size, held, got>>

\* ringbuf_dup copies sizeof(*(rb->keys[i])) bytes of every object: keys is
\* a void **, so that is sizeof(void), which the GNU compilers take as 1.
DupSize == 1

Dup ==
  /\ alive /\ out = NULL
  /\ \E copy \in Injection(KeysOf(ring), Addr \ Live) :
       /\ out' = RingbufDup(ring, copy)
       /\ size' = Sized(Range(copy), DupSize)
  /\ UNCHANGED <<ring, alive, held, got, overrun>>

\* Pops the second ring.
PopOut ==
  /\ out # NULL /\ ~IsEmpty(out) /\ out.num_keys > 0
  /\ held' = held \cup ({PoppedKey(out)} \ {NULL})
  /\ out' = RingbufPop(out)
  /\ UNCHANGED <<ring, alive, size, got, overrun>>

\* The same on a copy made with a fill of Word - 1: it has no keys, and is not
\* empty, so the pop reads outside its array.
PopNothing ==
  /\ out # NULL /\ ~IsEmpty(out) /\ out.num_keys = 0
  /\ overrun' = TRUE
  /\ UNCHANGED <<ring, alive, out, size, held, got>>

\* Clears and frees the second ring.
ClearOut ==
  /\ out # NULL
  /\ size' = Sized(OutKeys, 0)
  /\ out' = NULL
  /\ UNCHANGED <<ring, alive, held, got, overrun>>

\* ringbuf_insert; a key that was there is freed when it is overwritten.
Insert(a, elem, overwrite) ==
  /\ alive /\ a \in held
  /\ Inserts(ring, elem, overwrite)
  /\ ring' = RingbufInsert(ring, elem, a)
  /\ size' = Sized({RingbufGet(ring, elem)}, 0)
  /\ held' = held \ {a}
  /\ UNCHANGED <<alive, out, got, overrun>>

SharedNext == Copy \/ Dup \/ PopOut \/ PopNothing \/ ClearOut

Next ==
  /\ ~overrun
  /\ \/ QueueNext
     \/ SharedNext
     \/ \E a \in Addr, elem \in 0 .. N, overwrite \in BOOLEAN :
          Insert(a, elem, overwrite)

Spec == Init /\ [][Next]_vars

-----------------------------------------------------------------------------
(* The ring as a queue keeps its promises. *)

\* The slot j places after slot r.
Slot(r, j) == IF r + j < N THEN r + j ELSE r + j - N

\* The unread keys, oldest first.
Contents == [j \in 1 .. ring.fill |-> ring.keys[Slot(ring.read, j - 1)]]

\* The types of the variables while the ring is only used as a queue.
TypeOK ==
  /\ ring \in RingbufOf(Addr, N) /\ ring.fill <= N
  /\ alive \in BOOLEAN
  /\ out = NULL
  /\ size \in [Addr -> {0, ObjSize}]
  /\ held \subseteq Addr
  /\ got \in Addr \cup {NULL}
  /\ overrun = FALSE

\* The three positions agree (write is fill slots after read), and the slots
\* with an object are exactly the fill slots from read on.  So a full ring
\* and an empty one are told apart, and no pop of a queue delivers NULL,
\* which ringbuf.c:135 warns of.
WindowHoldsKeys ==
  /\ ring.write = IF ring.fill = N THEN ring.read ELSE Slot(ring.read, ring.fill)
  /\ \A j \in 0 .. N-1 : ring.keys[Slot(ring.read, j)] # NULL <=> j < ring.fill

\* Every object allocated and not freed belongs to exactly one of the client
\* and one slot of the ring: push, pushcp, pop and clear neither leak an
\* object nor leave two owners who would both free it.
OneOwner ==
  /\ Live = held \cup KeysOf(ring)
  /\ held \cap KeysOf(ring) = {}
  /\ \A i, j \in 0 .. N-1 : ring.keys[i] # NULL /\ ring.keys[i] = ring.keys[j] => i = j

\* The ring implements a bounded first-in first-out queue of N objects.
Fifo == INSTANCE BoundedFifo WITH
          Item <- Addr, Capacity <- N, None <- NULL, queue <- Contents, got <- got

FifoSpec == Fifo!Spec

-----------------------------------------------------------------------------
(* What is left of that when every operation may be called. *)

\* Whatever the order of the calls, no object has two owners among the
\* client, the ring and its copy, and what has an owner is still allocated:
\* nothing is freed twice.  (Objects may leak: the copy of a full ring
\* takes no key, and a ring that was copied forgets what it still holds.)
NoDoubleOwner ==
  /\ held \cup KeysOf(ring) \cup OutKeys \subseteq Live
  /\ held \cap (KeysOf(ring) \cup OutKeys) = {}
  /\ KeysOf(ring) \cap OutKeys = {}
  /\ \A i, j \in DOMAIN ring.keys : ring.keys[i] # NULL /\ ring.keys[i] = ring.keys[j] => i = j
  /\ out # NULL => \A i, j \in DOMAIN out.keys : 
                     out.keys[i] # NULL /\ out.keys[i] = out.keys[j] => i = j
=============================================================================
