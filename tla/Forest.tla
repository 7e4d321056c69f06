------------------------------- MODULE Forest -------------------------------
(***************************************************************************)
(* What the tree operations of lib/json promise: an ordered forest.  Each  *)
(* node has a sequence of children; a node is attached to one parent at    *)
(* most, as its first or last child, taken out again, and dropped when it  *)
(* is a root without children.                                             *)
(***************************************************************************)
EXTENDS Integers, Sequences

CONSTANT Node
VARIABLES nodes, kids

fvars == <<nodes, kids>>

Elements(s) == {s[i] : i \in DOMAIN s}
Roots       == {n \in nodes : \A p \in nodes : n \notin Elements(kids[p])}

Init == nodes = {} /\ kids = [n \in Node |-> << >>]

Make(n) == n \notin nodes /\ nodes' = nodes \cup {n} /\ UNCHANGED kids

AttachLast(p, c) ==
  /\ p # c /\ {p, c} \subseteq nodes /\ UNCHANGED nodes
  /\ kids' = [kids EXCEPT ![p] = Append(@, c)]
  /\ c \in Roots

AttachFirst(p, c) ==
  /\ p # c /\ {p, c} \subseteq nodes /\ UNCHANGED nodes
  /\ kids' = [kids EXCEPT ![p] = <<c>> \o @]
  /\ c \in Roots

Detach(c) ==
  /\ c \in nodes /\ UNCHANGED nodes
  /\ \E p \in nodes : \E i \in DOMAIN kids[p] :
       /\ kids[p][i] = c
       /\ kids' = [kids EXCEPT ![p] = SubSeq(@, 1, i - 1) \o SubSeq(@, i + 1, Len(@))]

Drop(n) ==
  /\ n \in nodes /\ nodes' = nodes \ {n} /\ UNCHANGED kids
  /\ kids[n] = << >> /\ n \in Roots

Next ==
  \/ \E n \in Node : Make(n) \/ Detach(n) \/ Drop(n)
  \/ \E p, c \in Node : AttachLast(p, c) \/ AttachFirst(p, c)

Spec == Init /\ [][Next]_fvars
=============================================================================
