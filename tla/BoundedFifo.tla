----------------------------- MODULE BoundedFifo -----------------------------
(***************************************************************************)
(* What a ring buffer promises its client: a queue of at most Capacity     *)
(* items that hands them out in the order they were put in.                *)
(***************************************************************************)
EXTENDS Naturals, Sequences

CONSTANTS
  Item,      \* what the queue may hold
  Capacity,  \* the most it holds at a time
  None       \* what `got` shows before the first Take

VARIABLES
  queue,  \* the items put in and not yet taken, oldest first
  got     \* the item the last Take handed out

vars == <<queue, got>>

Init == queue = << >> /\ got = None

\* A new item goes to the end, if there is room for it.
Put ==
  /\ Len(queue) < Capacity
  /\ \E x \in Item : queue' = Append(queue, x)
  /\ UNCHANGED got

\* The oldest item comes out.
Take ==
  /\ queue # << >>
  /\ got' = Head(queue)
  /\ queue' = Tail(queue)

\* Everything that waits is thrown away.
Flush == queue' = << >> /\ UNCHANGED got

Next == Put \/ Take \/ Flush

Spec == Init /\ [][Next]_vars
=============================================================================
