--------------------------- MODULE JsonTreeProofs ---------------------------
(***************************************************************************)
(* Proofs about the pointers of JSON nodes, and about the trees that they  *)
(* make, for heaps, names and trees of any size: the links agree, what     *)
(* json_delete frees, that iterating forwards and backwards meets the same *)
(* children, and that the pointers implement an ordered forest.            *)
(*                                                                         *)
(* Linked is not inductive by itself: it would let a ring of siblings      *)
(* point to a parent whose list they are not in, and json_delete would     *)
(* free that parent.  NoRing excludes it, without numbers: every set of    *)
(* nodes has one whose elder sibling is not in the set.                    *)
(***************************************************************************)
EXTENDS JsonTree, SequenceTheorems, TLAPS

NoRing == \A X \in SUBSET live : X # {} => \E n \in X : prev[n] \notin X

\* json_mkcopy: the copies of the calls in progress are roots, and all callers
\* have a child in hand.
CopyingIsSafe ==
  mode = "copy" =>
    /\ \A i \in DOMAIN stack : stack[i].node \in live /\ parent[stack[i].node] = NULL
    /\ \A i, j \in DOMAIN stack : stack[i].node = stack[j].node => i = j
    /\ \A i \in DOMAIN stack : i < Len(stack) => stack[i].child # NULL

\* Between calls there is no frame, within them there is one.
Busy == mode \in {"delete", "copy"} => stack # << >>

IInv == TypeOK /\ Linked /\ NoRing /\ DeleteIsSafe /\ CopyingIsSafe /\ Busy

-----------------------------------------------------------------------------
(* The pointers. *)

Pointers ==
  /\ live \subseteq Node
  /\ parent \in [Node -> Ptr] /\ prev \in [Node -> Ptr] /\ next \in [Node -> Ptr]
  /\ head \in [Node -> Ptr] /\ tail \in [Node -> Ptr]

\* NULL has no children and no siblings: a root is in no list.
LEMMA RootIsAlone ==
  ASSUME Pointers, Linked, NEW c \in live, parent[c] = NULL
  PROVE  /\ prev[c] = NULL /\ next[c] = NULL
         /\ \A m \in live : prev[m] # c /\ next[m] # c /\ head[m] # c /\ tail[m] # c
<1>0. NULL \notin Node /\ c \in Node
  BY NullAssumption DEF Pointers
<1>1. prev[c] = NULL /\ next[c] = NULL
  BY DEF Linked
<1>2. ASSUME NEW m \in live PROVE prev[m] # c /\ next[m] # c /\ head[m] # c /\ tail[m] # c
  <2>0. m \in Node /\ m # NULL
    BY <1>0 DEF Pointers
  <2>1. prev[m] = c => next[c] = m
    BY <1>0 DEF Linked
  <2>2. next[m] = c => prev[c] = m
    BY <1>0 DEF Linked
  <2>3. head[m] = c => parent[c] = m
    BY <1>0 DEF Linked
  <2>4. tail[m] = c => parent[c] = m
    BY <1>0 DEF Linked
  <2>5. QED
    BY <1>1, <2>0, <2>1, <2>2, <2>3, <2>4
<1>3. QED
  BY <1>1, <1>2

\* A live node without a first child is nobody's parent.
LEMMA NoHeadNoChild ==
  ASSUME Pointers, Linked, NoRing, NEW n \in live, head[n] = NULL
  PROVE  \A m \in live : parent[m] # n
<1>1. SUFFICES ASSUME NEW k \in live, parent[k] = n PROVE FALSE
  OBVIOUS
<1> DEFINE X == {m \in live : parent[m] = n}
<1>2. PICK m \in X : prev[m] \notin X
  BY <1>1 DEF NoRing
<1>3. n # NULL
  BY NullAssumption DEF Pointers
<1>4. prev[m] = NULL
  BY <1>2, <1>3 DEF Linked
<1>5. head[n] = m
  BY <1>2, <1>3, <1>4 DEF Linked
<1>6. QED
  BY <1>2, <1>5, NullAssumption DEF Pointers

-----------------------------------------------------------------------------
(* What the steps do to the pointers. *)

\* Set changes one entry.
LEMMA SetEntries ==
  ASSUME NEW f, NEW p, NEW v
  PROVE  /\ \A n \in Node : Set(f, p, v)[n] = IF n = p THEN v ELSE f[n]
         /\ f \in [Node -> Ptr] /\ v \in Ptr => Set(f, p, v) \in [Node -> Ptr]
BY DEF Set, Ptr

\* mknode: a node that was not there.
LEMMA MakeLinks ==
  ASSUME Pointers, Linked, NoRing, NEW c, NEW t, NEW k, mknode(c, t, k)
  PROVE  Pointers' /\ Linked' /\ NoRing'
<1>0. NULL \notin Node /\ c \in Node /\ c \notin live /\ live' = live \cup {c}
  BY NullAssumption DEF mknode, Pointers
<1>1. \A m \in Node :
        /\ parent'[m] = IF m = c THEN NULL ELSE parent[m]
        /\ prev'[m] = IF m = c THEN NULL ELSE prev[m]
        /\ next'[m] = IF m = c THEN NULL ELSE next[m]
        /\ head'[m] = IF m = c THEN NULL ELSE head[m]
        /\ tail'[m] = IF m = c THEN NULL ELSE tail[m]
  BY DEF mknode, Pointers
<1>2. Pointers'
  BY <1>0 DEF mknode, Pointers, Ptr
<1>3. Linked'
  <2>1. SUFFICES ASSUME NEW n \in live'
                 PROVE  Linked!(n)'
    BY DEF Linked
  <2>2. CASE n = c
    BY <1>0, <1>1, <2>2
  <2>3. CASE n # c
    <3>1. n \in live /\ n \in Node
      BY <1>0, <2>3 DEF Pointers
    <3>2. Linked!(n)
      BY <3>1 DEF Linked
    <3>3. QED
      BY <1>0, <1>1, <2>3, <3>1, <3>2 DEF Pointers
  <2>4. QED
    BY <2>2, <2>3
<1>4. NoRing'
  <2>1. SUFFICES ASSUME NEW X \in SUBSET live', X # {} PROVE \E n \in X : prev'[n] \notin X
    BY DEF NoRing
  <2>2. CASE c \in X
    <3>1. NULL \notin X
      BY <1>0 DEF Pointers
    <3>2. QED
      BY <1>0, <1>1, <2>2, <3>1
  <2>3. CASE c \notin X
    <3>1. X \in SUBSET live
      BY <1>0, <2>3
    <3>2. QED
      BY <1>1, <2>1, <2>3, <3>1 DEF NoRing, Pointers
  <2>4. QED
    BY <2>2, <2>3
<1>5. QED
  BY <1>2, <1>3, <1>4

\* append_node: a root becomes the last child.
LEMMA AppendLinks ==
  ASSUME Pointers, Linked, NoRing, live' = live,
         NEW p \in live, NEW c \in live, parent[c] = NULL, append_node(p, c)
  PROVE  Pointers' /\ Linked' /\ NoRing'
<1>0. NULL \notin Node /\ c \in Node /\ p \in Node /\ c # NULL /\ p # NULL
  BY NullAssumption DEF Pointers
<1>1. \A m \in Node :
        /\ parent'[m] = IF m = c THEN p ELSE parent[m]
        /\ prev'[m] = IF m = c THEN tail[p] ELSE prev[m]
        /\ next'[m] = IF m = tail[p] THEN c ELSE IF m = c THEN NULL ELSE next[m]
        /\ head'[m] = IF m = p /\ tail[p] = NULL THEN c ELSE head[m]
        /\ tail'[m] = IF m = p THEN c ELSE tail[m]
  BY <1>0 DEF append_node, Set, Pointers
<1>2. Pointers'
  <2>1. head[p] \in Ptr /\ tail[p] \in Ptr /\ c \in Ptr /\ p \in Ptr /\ NULL \in Ptr
    BY <1>0 DEF Pointers, Ptr
  <2>2. QED
    BY <2>1, SetEntries DEF append_node, Pointers
<1>3. /\ prev[c] = NULL /\ next[c] = NULL
      /\ \A m \in live : prev[m] # c /\ next[m] # c /\ head[m] # c /\ tail[m] # c
  BY RootIsAlone
<1>4. /\ tail[p] = NULL => head[p] = NULL /\ \A m \in live : parent[m] # p
      /\ tail[p] # NULL => /\ tail[p] \in live /\ tail[p] # c
                           /\ parent[tail[p]] = p /\ next[tail[p]] = NULL
  BY <1>0, <1>3, NoHeadNoChild DEF Linked
<1>5. Linked'
  <2>1. SUFFICES ASSUME NEW n \in live'
                 PROVE  Linked!(n)'
    BY DEF Linked
  <2>2. n \in live /\ n \in Node /\ n # NULL /\ live \subseteq Node
    BY <1>0 DEF Pointers
  <2>3. \A m \in live : Linked!(m)
    BY DEF Linked
  <2>4. parent'[n] = NULL => prev'[n] = NULL /\ next'[n] = NULL
    BY <1>0, <1>1, <1>3, <1>4, <2>2, <2>3
  <2>5. parent'[n] # NULL => /\ parent'[n] \in live'
                             /\ prev'[n] = NULL <=> head'[parent'[n]] = n
                             /\ next'[n] = NULL <=> tail'[parent'[n]] = n
    BY <1>0, <1>1, <1>3, <1>4, <2>2, <2>3
  <2>6. prev'[n] # NULL =>
          prev'[n] \in live' /\ next'[prev'[n]] = n /\ parent'[prev'[n]] = parent'[n]
    BY <1>0, <1>1, <1>3, <1>4, <2>2, <2>3
  <2>7. next'[n] # NULL =>
          next'[n] \in live' /\ prev'[next'[n]] = n /\ parent'[next'[n]] = parent'[n]
    BY <1>0, <1>1, <1>3, <1>4, <2>2, <2>3
  <2>8. /\ head'[n] # NULL => head'[n] \in live' /\ parent'[head'[n]] = n
        /\ tail'[n] # NULL => tail'[n] \in live' /\ parent'[tail'[n]] = n
        /\ head'[n] = NULL <=> tail'[n] = NULL
    BY <1>0, <1>1, <1>3, <1>4, <2>2, <2>3
  <2>9. QED
    BY <2>4, <2>5, <2>6, <2>7, <2>8
<1>6. NoRing'
  <2>1. SUFFICES ASSUME NEW X \in SUBSET live, X # {} PROVE \E n \in X : prev'[n] \notin X
    BY DEF NoRing
  <2>2. NULL \notin X /\ X \subseteq Node
    BY <1>0 DEF Pointers
  <2>3. CASE X \subseteq {c}
    BY <1>1, <1>4, <2>1, <2>2, <2>3
  <2>4. CASE ~ (X \subseteq {c})
    <3>1. PICK n \in X \ {c} : prev[n] \notin X \ {c}
      BY <2>4 DEF NoRing
    <3>2. QED
      BY <1>0, <1>1, <1>3, <1>4, <2>2, <3>1
  <2>5. QED
    BY <2>3, <2>4
<1>7. QED
  BY <1>2, <1>5, <1>6


\* prepend_node: a root becomes the first child.
LEMMA PrependLinks ==
  ASSUME Pointers, Linked, NoRing, live' = live,
         NEW p \in live, NEW c \in live, parent[c] = NULL, prepend_node(p, c)
  PROVE  Pointers' /\ Linked' /\ NoRing'
<1>0. NULL \notin Node /\ c \in Node /\ p \in Node /\ c # NULL /\ p # NULL
  BY NullAssumption DEF Pointers
<1>1. \A m \in Node :
        /\ parent'[m] = IF m = c THEN p ELSE parent[m]
        /\ prev'[m] = IF m = head[p] THEN c ELSE IF m = c THEN NULL ELSE prev[m]
        /\ next'[m] = IF m = c THEN head[p] ELSE next[m]
        /\ head'[m] = IF m = p THEN c ELSE head[m]
        /\ tail'[m] = IF m = p /\ head[p] = NULL THEN c ELSE tail[m]
  BY <1>0 DEF prepend_node, Set, Pointers
<1>2. Pointers'
  <2>1. head[p] \in Ptr /\ tail[p] \in Ptr /\ c \in Ptr /\ p \in Ptr /\ NULL \in Ptr
    BY <1>0 DEF Pointers, Ptr
  <2>2. QED
    BY <2>1, SetEntries DEF prepend_node, Pointers
<1>3. /\ prev[c] = NULL /\ next[c] = NULL
      /\ \A m \in live : prev[m] # c /\ next[m] # c /\ head[m] # c /\ tail[m] # c
  BY RootIsAlone
<1>4. /\ head[p] = NULL => tail[p] = NULL /\ \A m \in live : parent[m] # p
      /\ head[p] # NULL => /\ head[p] \in live /\ head[p] # c
                           /\ parent[head[p]] = p /\ prev[head[p]] = NULL
  BY <1>0, <1>3, NoHeadNoChild DEF Linked
<1>5. Linked'
  <2>1. SUFFICES ASSUME NEW n \in live'
                 PROVE  Linked!(n)'
    BY DEF Linked
  <2>2. n \in live /\ n \in Node /\ n # NULL /\ live \subseteq Node
    BY <1>0 DEF Pointers
  <2>3. \A m \in live : Linked!(m)
    BY DEF Linked
  <2>4. parent'[n] = NULL => prev'[n] = NULL /\ next'[n] = NULL
    BY <1>0, <1>1, <1>3, <1>4, <2>2, <2>3
  <2>5. parent'[n] # NULL => /\ parent'[n] \in live'
                             /\ prev'[n] = NULL <=> head'[parent'[n]] = n
                             /\ next'[n] = NULL <=> tail'[parent'[n]] = n
    BY <1>0, <1>1, <1>3, <1>4, <2>2, <2>3
  <2>6. prev'[n] # NULL =>
          prev'[n] \in live' /\ next'[prev'[n]] = n /\ parent'[prev'[n]] = parent'[n]
    BY <1>0, <1>1, <1>3, <1>4, <2>2, <2>3
  <2>7. next'[n] # NULL =>
          next'[n] \in live' /\ prev'[next'[n]] = n /\ parent'[next'[n]] = parent'[n]
    BY <1>0, <1>1, <1>3, <1>4, <2>2, <2>3
  <2>8. /\ head'[n] # NULL => head'[n] \in live' /\ parent'[head'[n]] = n
        /\ tail'[n] # NULL => tail'[n] \in live' /\ parent'[tail'[n]] = n
        /\ head'[n] = NULL <=> tail'[n] = NULL
    BY <1>0, <1>1, <1>3, <1>4, <2>2, <2>3
  <2>9. QED
    BY <2>4, <2>5, <2>6, <2>7, <2>8
<1>6. NoRing'
  <2>1. SUFFICES ASSUME NEW X \in SUBSET live, X # {} PROVE \E n \in X : prev'[n] \notin X
    BY DEF NoRing
  <2>2. NULL \notin X /\ X \subseteq Node
    BY <1>0 DEF Pointers
  <2>3. CASE X \subseteq {c}
    BY <1>1, <1>4, <2>1, <2>2, <2>3
  <2>4. CASE ~ (X \subseteq {c})
    <3>1. PICK n \in X \ {c} : prev[n] \notin X \ {c}
      BY <2>4 DEF NoRing
    <3>2. QED
      BY <1>0, <1>1, <1>3, <1>4, <2>2, <3>1
  <2>5. QED
    BY <2>3, <2>4
<1>7. QED
  BY <1>2, <1>5, <1>6

\* json_remove_from_parent: its siblings and its parent forget n, which becomes
\* a root; only p's list changes.
LEMMA UnlinkLinks ==
  ASSUME Pointers, Linked, NoRing, live' = live,
         NEW n \in live, parent[n] # NULL, Unlink(n)
  PROVE  /\ Pointers' /\ Linked' /\ NoRing'
         /\ \A m \in Node : parent'[m] = IF m = n THEN NULL ELSE parent[m]
         /\ \A m \in Node : head'[m] =
               IF m = parent[n] /\ prev[n] = NULL THEN next[n] ELSE head[m]
<1> DEFINE p == parent[n]
<1>0. NULL \notin Node /\ n \in Node /\ p \in Node /\ n # NULL /\ p # NULL /\ p \in live
  BY NullAssumption DEF Pointers, Linked, Ptr
<1>1. \A m \in Node :
        /\ parent'[m] = IF m = n THEN NULL ELSE parent[m]
        /\ prev'[m] = IF m = n THEN NULL ELSE IF m = next[n] THEN prev[n] ELSE prev[m]
        /\ next'[m] = IF m = n THEN NULL ELSE IF m = prev[n] THEN next[n] ELSE next[m]
        /\ head'[m] = IF m = p /\ prev[n] = NULL THEN next[n] ELSE head[m]
        /\ tail'[m] = IF m = p /\ next[n] = NULL THEN prev[n] ELSE tail[m]
  BY <1>0 DEF Unlink, Set, Pointers
<1>2. Pointers'
  <2>1. next[n] \in Ptr /\ prev[n] \in Ptr /\ NULL \in Ptr
    BY <1>0 DEF Pointers, Ptr
  <2>2. QED
    BY <2>1, SetEntries DEF Unlink, Pointers
<1>3. \A m \in live : Linked!(m)
  BY DEF Linked
<1>4. live \subseteq Node
  BY DEF Pointers
<1> HIDE DEF p
<1>5. p = parent[n]
  BY DEF p
<1>6. \A m \in live : /\ next[m] = n => prev[n] = m
                      /\ prev[m] = n => next[n] = m
                      /\ head[m] = n => m = p /\ prev[n] = NULL
                      /\ tail[m] = n => m = p /\ next[n] = NULL
  BY <1>0, <1>3, <1>4, <1>5
<1>7. Linked'
  <2>1. SUFFICES ASSUME NEW k \in live'
                 PROVE  Linked!(k)'
    BY DEF Linked
  <2>2. k \in live /\ k \in Node /\ k # NULL
    BY <1>0, <1>4
  <2>3. parent'[k] = NULL => prev'[k] = NULL /\ next'[k] = NULL
    BY <1>0, <1>1, <1>3, <1>4, <1>5, <1>6, <2>2
  <2>4. parent'[k] # NULL => /\ parent'[k] \in live'
                             /\ prev'[k] = NULL <=> head'[parent'[k]] = k
                             /\ next'[k] = NULL <=> tail'[parent'[k]] = k
    BY <1>0, <1>1, <1>3, <1>4, <1>5, <1>6, <2>2
  <2>5. prev'[k] # NULL =>
          prev'[k] \in live' /\ next'[prev'[k]] = k /\ parent'[prev'[k]] = parent'[k]
    BY <1>0, <1>1, <1>3, <1>4, <1>5, <1>6, <2>2
  <2>6. next'[k] # NULL =>
          next'[k] \in live' /\ prev'[next'[k]] = k /\ parent'[next'[k]] = parent'[k]
    BY <1>0, <1>1, <1>3, <1>4, <1>5, <1>6, <2>2
  <2>7. /\ head'[k] # NULL => head'[k] \in live' /\ parent'[head'[k]] = k
        /\ tail'[k] # NULL => tail'[k] \in live' /\ parent'[tail'[k]] = k
        /\ head'[k] = NULL <=> tail'[k] = NULL
    BY <1>0, <1>1, <1>3, <1>4, <1>5, <1>6, <2>2
  <2>8. QED
    BY <2>3, <2>4, <2>5, <2>6, <2>7
<1>8. NoRing'
  <2>1. SUFFICES ASSUME NEW X \in SUBSET live, X # {} PROVE \E k \in X : prev'[k] \notin X
    BY DEF NoRing
  <2>2. NULL \notin X /\ X \subseteq Node
    BY <1>0, <1>4
  <2>3. CASE n \in X
    BY <1>1, <2>2, <2>3
  <2>4. CASE n \notin X
    <3>1. PICK k \in X : prev[k] \notin X
      BY <2>1 DEF NoRing
    <3>2. CASE k # next[n]
      BY <1>1, <2>2, <2>4, <3>1, <3>2
    <3>3. CASE k = next[n]
      <4>1. PICK j \in X \cup {n} : prev[j] \notin X \cup {n}
        BY DEF NoRing
      <4>2. prev[k] = n
        BY <1>0, <1>3, <2>2, <3>3
      <4>3. CASE j = n
        BY <1>1, <2>2, <2>4, <3>3, <4>1, <4>3
      <4>4. CASE j # n
        BY <1>1, <2>2, <2>4, <3>3, <4>1, <4>2, <4>4
      <4>5. QED
        BY <4>3, <4>4
    <3>4. QED
      BY <3>2, <3>3
  <2>5. QED
    BY <2>3, <2>4
<1>9. QED
  BY <1>1, <1>2, <1>5, <1>7, <1>8

\* The same whether the node has a parent or not.
LEMMA RemoveLinks ==
  ASSUME Pointers, Linked, NoRing, live' = live, NEW n \in live, json_remove_from_parent(n)
  PROVE  /\ Pointers' /\ Linked' /\ NoRing'
         /\ \A m \in Node : parent'[m] = IF m = n THEN NULL ELSE parent[m]
         /\ \A m \in Node : head'[m] =
               IF parent[n] # NULL /\ m = parent[n] /\ prev[n] = NULL THEN next[n] ELSE head[m]
<1>1. CASE parent[n] # NULL
  BY <1>1, UnlinkLinks DEF json_remove_from_parent
<1>2. CASE parent[n] = NULL
  <2>1. UNCHANGED <<parent, prev, next, head, tail>>
    BY <1>2 DEF json_remove_from_parent, links
  <2>2. Pointers' /\ Linked' /\ NoRing'
    BY <2>1 DEF Pointers, Linked, NoRing
  <2>3. QED
    BY <1>2, <2>1, <2>2
<1>3. QED
  BY <1>1, <1>2

\* free: a root without children.
LEMMA FreeLinks ==
  ASSUME Pointers, Linked, NoRing, UNCHANGED links,
         NEW n \in live, parent[n] = NULL, head[n] = NULL, live' = live \ {n}
  PROVE  Pointers' /\ Linked' /\ NoRing'
<1>1. UNCHANGED <<parent, prev, next, head, tail>> /\ live' \subseteq live
  BY DEF links
<1>2. \A m \in live : prev[m] # n /\ next[m] # n /\ head[m] # n /\ tail[m] # n
  BY RootIsAlone
<1>3. \A m \in live : parent[m] # n
  BY NoHeadNoChild
<1>4. Pointers' /\ NoRing'
  BY <1>1 DEF Pointers, NoRing
<1>5. Linked'
  <2>1. SUFFICES ASSUME NEW m \in live' PROVE Linked!(m)'
    BY DEF Linked
  <2>2. Linked!(m)
    BY <1>1 DEF Linked
  <2>3. QED
    BY <1>1, <1>2, <1>3, <2>2
<1>6. QED
  BY <1>4, <1>5

-----------------------------------------------------------------------------
(* The calls. *)

Call == [node : Node, child : Ptr]
Data ==
  /\ tag \in [Node -> {"scalar", "array", "object"}]
  /\ key \in [Node -> Name \cup {NULL}]
  /\ arg \in Ptr /\ subject \subseteq Node /\ copies \subseteq Node
Calls == stack \in Seq(Call) /\ mode \in {"idle", "delete", "copy", "exited"}

LEMMA TypeParts == TypeOK <=> Pointers /\ Data /\ Calls
BY DEF TypeOK, Pointers, Data, Calls, Call

LEMMA TypePartsNext == TypeOK' <=> Pointers' /\ Data' /\ Calls'
BY DEF TypeOK, Pointers, Data, Calls, Call

\* A frame on top of others.
LEMMA Pushed ==
  ASSUME NEW s \in Seq(Call), NEW f \in Call
  PROVE  /\ Append(s, f) \in Seq(Call) /\ Append(s, f) # << >>
         /\ Len(Append(s, f)) = Len(s) + 1 /\ DOMAIN Append(s, f) = 1 .. Len(s) + 1
         /\ \A i \in 1 .. Len(s) : Append(s, f)[i] = s[i]
         /\ Append(s, f)[Len(s) + 1] = f
OBVIOUS

\* The top frame is another.
LEMMA Replaced ==
  ASSUME NEW s \in Seq(Call), s # << >>, NEW f \in Call
  PROVE  LET t == [s EXCEPT ![Len(s)] = f] IN
         /\ t \in Seq(Call) /\ t # << >> /\ Len(t) = Len(s) /\ DOMAIN t = 1 .. Len(s)
         /\ \A i \in 1 .. Len(s) : t[i] = IF i = Len(s) THEN f ELSE s[i]
<1>1. Len(s) \in Nat /\ DOMAIN s = 1 .. Len(s)
  OBVIOUS
<1> DEFINE t == [s EXCEPT ![Len(s)] = f]
<1>2. \A i \in 1 .. Len(s) : t[i] = IF i = Len(s) THEN f ELSE s[i]
  BY <1>1
<1>3. t \in [1 .. Len(s) -> Call]
  BY <1>1, <1>2
<1>4. t \in Seq(Call)
  BY <1>1, <1>3
<1>5. Len(t) = Len(s) /\ DOMAIN t = 1 .. Len(s)
  BY <1>1, <1>3, <1>4
<1>6. t # << >>
  BY <1>5
<1>7. QED
  BY <1>2, <1>4, <1>5, <1>6

\* The frames below the top.
LEMMA Popped ==
  ASSUME NEW s \in Seq(Call), s # << >>
  PROVE  LET t == SubSeq(s, 1, Len(s) - 1) IN
         /\ t \in Seq(Call) /\ Len(t) = Len(s) - 1 /\ DOMAIN t = 1 .. Len(s) - 1
         /\ \A i \in 1 .. Len(s) - 1 : t[i] = s[i]
<1>1. Len(s) \in Nat \ {0} /\ DOMAIN s = 1 .. Len(s)
  OBVIOUS
<1>2. QED
  BY <1>1, SubSeqProperties

LEMMA TopIsCall ==
  ASSUME stack \in Seq(Call), stack # << >>
  PROVE  Top \in Call /\ Top = stack[Len(stack)] /\ Len(stack) \in DOMAIN stack
<1>1. Len(stack) \in Nat \ {0} /\ DOMAIN stack = 1 .. Len(stack)
  OBVIOUS
<1>2. QED
  BY <1>1 DEF Top

LEMMA InitInv == Init => IInv
<1> SUFFICES ASSUME Init PROVE IInv
  OBVIOUS
<1>1. TypeOK
  BY DEF Init, TypeOK, Ptr
<1>2. Linked /\ NoRing /\ DeleteIsSafe /\ CopyingIsSafe /\ Busy
  BY DEF Init, Linked, NoRing, DeleteIsSafe, CopyingIsSafe, Busy
<1>3. QED
  BY <1>1, <1>2 DEF IInv

\* Between calls only the pointers matter.
LEMMA IdleInv ==
  ASSUME Pointers', Linked', NoRing', Data', Calls', mode' = "idle"
  PROVE  IInv'
BY TypePartsNext DEF IInv, DeleteIsSafe, CopyingIsSafe, Busy

LEMMA MakeStep == IInv /\ Make => IInv'
<1> SUFFICES ASSUME IInv, Make PROVE IInv'
  OBVIOUS
<1>1. Pointers /\ Linked /\ NoRing /\ Data /\ Calls
  BY TypeParts DEF IInv
<1>2. PICK n \in Node, t \in {"scalar", "array", "object"} : mknode(n, t, NULL)
  BY DEF Make
<1>3. Pointers' /\ Linked' /\ NoRing'
  BY <1>1, <1>2, MakeLinks
<1>4. Data' /\ Calls' /\ mode' = "idle"
  BY <1>1, <1>2 DEF Make, Building, mknode, Data, Calls, hist
<1>5. QED
  BY <1>3, <1>4, IdleInv

LEMMA AttachStep ==
  ASSUME IInv, NEW p \in Node, NEW c \in Node,
         \/ json_append_element(p, c) \/ json_prepend_element(p, c)
         \/ \E k \in Name : json_append_member(p, k, c) \/ json_prepend_member(p, k, c)
  PROVE  IInv'
<1>1. Pointers /\ Linked /\ NoRing /\ Data /\ Calls
  BY TypeParts DEF IInv
<1>2. /\ p \in live /\ c \in live /\ parent[c] = NULL /\ live' = live
      /\ append_node(p, c) \/ prepend_node(p, c)
  BY DEF json_append_element, json_prepend_element, json_append_member, json_prepend_member,
         CanAttach
<1>3. Pointers' /\ Linked' /\ NoRing'
  BY <1>1, <1>2, AppendLinks, PrependLinks
<1>4. mode' = "idle" /\ UNCHANGED <<tag, stack, arg, subject, copies>>
  BY DEF json_append_element, json_prepend_element, json_append_member, json_prepend_member,
         CanAttach, Building, hist
<1>5. key' = key \/ \E k \in Name : key' = Set(key, c, k)
  BY DEF json_append_element, json_prepend_element, json_append_member, json_prepend_member
<1>6. key' \in [Node -> Name \cup {NULL}]
  BY <1>1, <1>5 DEF Set, Data
<1>7. Data' /\ Calls'
  BY <1>1, <1>4, <1>6 DEF Data, Calls
<1>8. QED
  BY <1>3, <1>4, <1>7, IdleInv

\* Taking a node out leaves the types of the keys.
LEMMA RemoveKeys ==
  ASSUME Data, NEW n, json_remove_from_parent(n)
  PROVE  key' \in [Node -> Name \cup {NULL}]
<1>1. key' = key \/ key' = Set(key, n, NULL)
  BY DEF json_remove_from_parent, Unlink
<1>2. QED
  BY <1>1 DEF Set, Data

LEMMA RemoveStep ==
  ASSUME IInv, NEW n \in Node, RemoveNode(n)
  PROVE  IInv'
<1>1. Pointers /\ Linked /\ NoRing /\ Data /\ Calls
  BY TypeParts DEF IInv
<1>2. n \in live /\ live' = live /\ json_remove_from_parent(n) /\ mode' = "idle"
  BY DEF RemoveNode, Building
<1>3. Pointers' /\ Linked' /\ NoRing'
  BY <1>1, <1>2, RemoveLinks
<1>4. Data' /\ Calls'
  BY <1>1, <1>2, RemoveKeys DEF RemoveNode, Data, Calls, hist
<1>5. QED
  BY <1>2, <1>3, <1>4, IdleInv

-----------------------------------------------------------------------------
(* json_delete. *)

LEMMA DeleteStep ==
  ASSUME IInv, NEW n \in Node, json_delete(n)
  PROVE  IInv'
<1>1. Pointers /\ Linked /\ NoRing /\ Data
  BY TypeParts DEF IInv
<1>2. n \in live /\ live' = live /\ json_remove_from_parent(n) /\ mode' = "delete"
  BY DEF json_delete, Begin
<1>3. /\ Pointers' /\ Linked' /\ NoRing'
      /\ \A m \in Node : parent'[m] = IF m = n THEN NULL ELSE parent[m]
      /\ \A m \in Node : head'[m] =
            IF parent[n] # NULL /\ m = parent[n] /\ prev[n] = NULL THEN next[n] ELSE head[m]
  BY <1>1, <1>2, RemoveLinks
<1>4. Data'
  <2>1. arg' = n /\ subject' \subseteq live /\ UNCHANGED <<tag, copies>>
    BY DEF json_delete, Begin
  <2>2. QED
    BY <1>1, <1>2, <2>1, RemoveKeys DEF Data, Pointers, Ptr
<1>5. stack' = <<[node |-> n, child |-> head'[n]]>>
  BY DEF json_delete, Frame
<1>6. /\ stack' \in Seq(Call) /\ stack' # << >> /\ DOMAIN stack' = {1}
      /\ stack'[1] = [node |-> n, child |-> head'[n]]
  <2>1. [node |-> n, child |-> head'[n]] \in Call
    BY <1>3 DEF Call, Pointers
  <2>2. QED
    BY <1>5, <2>1
<1>7. DeleteIsSafe'
  BY <1>2, <1>3, <1>6 DEF DeleteIsSafe
<1>8. Calls' /\ CopyingIsSafe' /\ Busy'
  BY <1>2, <1>6 DEF Calls, CopyingIsSafe, Busy
<1>9. QED
  BY <1>3, <1>4, <1>7, <1>8, TypePartsNext DEF IInv

\* The child is the first of the list: the call gets what the list has next.
LEMMA DeleteChildStep == IInv /\ DeleteChild => IInv'
<1> SUFFICES ASSUME IInv, DeleteChild PROVE IInv'
  OBVIOUS
<1>1. Pointers /\ Linked /\ NoRing /\ Data /\ Calls /\ DeleteIsSafe
  BY TypeParts DEF IInv
<1>2. mode = "delete" /\ mode' = "delete" /\ live' = live
  BY DEF DeleteChild
<1>3. stack \in Seq(Call) /\ stack # << >>
  BY <1>1, <1>2 DEF IInv, Busy, Calls
<1>4. Top = stack[Len(stack)] /\ Len(stack) \in DOMAIN stack
  BY <1>3, TopIsCall
<1> DEFINE p == Top.node
           n == Top.child
<1>5. p \in live /\ parent[p] = NULL /\ n = head[p] /\ n # NULL
  BY <1>1, <1>2, <1>4 DEF DeleteIsSafe, DeleteChild
<1>6. json_remove_from_parent(n)
  BY DEF DeleteChild
<1>7. stack' = Append([stack EXCEPT ![Len(stack)] = [node |-> p, child |-> next[n]]],
                      [node |-> n, child |-> head'[n]])
  BY DEF DeleteChild, Ahead, Frame
<1>8. UNCHANGED <<tag, arg, subject, copies>>
  BY DEF DeleteChild, hist
<1> HIDE DEF p, n
<1>9. n \in live /\ parent[n] = p /\ p # NULL /\ prev[n] = NULL
  <2>1. NULL \notin live
    BY <1>1, NullAssumption DEF Pointers
  <2>2. n \in live /\ parent[n] = p
    BY <1>1, <1>5 DEF Linked
  <2>3. QED
    BY <1>1, <1>5, <2>1, <2>2 DEF Linked
<1>10. /\ Pointers' /\ Linked' /\ NoRing'
       /\ \A m \in Node : parent'[m] = IF m = n THEN NULL ELSE parent[m]
       /\ \A m \in Node : head'[m] =
             IF parent[n] # NULL /\ m = parent[n] /\ prev[n] = NULL THEN next[n] ELSE head[m]
  BY <1>1, <1>2, <1>6, <1>9, RemoveLinks
<1>11. p \in Node /\ n \in Node /\ next[n] \in Ptr /\ head'[n] \in Ptr
  BY <1>1, <1>5, <1>9, <1>10 DEF Pointers
<1>12. [node |-> p, child |-> next[n]] \in Call /\ [node |-> n, child |-> head'[n]] \in Call
  BY <1>11 DEF Call
<1> DEFINE t == [stack EXCEPT ![Len(stack)] = [node |-> p, child |-> next[n]]]
<1>13. /\ t \in Seq(Call) /\ Len(t) = Len(stack)
       /\ \A i \in 1 .. Len(stack) :
            t[i] = IF i = Len(stack) THEN [node |-> p, child |-> next[n]] ELSE stack[i]
  BY <1>3, <1>12, Replaced
<1>14. stack' = Append(t, [node |-> n, child |-> head'[n]])
  BY <1>7
<1> HIDE DEF t
<1>15. /\ stack' \in Seq(Call) /\ stack' # << >>
       /\ DOMAIN stack' = 1 .. Len(stack) + 1
       /\ stack'[Len(stack) + 1] = [node |-> n, child |-> head'[n]]
       /\ \A i \in 1 .. Len(stack) :
            stack'[i] = IF i = Len(stack) THEN [node |-> p, child |-> next[n]] ELSE stack[i]
  BY <1>12, <1>13, <1>14, Pushed
<1>16. Len(stack) \in Nat /\ DOMAIN stack = 1 .. Len(stack)
  BY <1>3
<1>17. \A i \in 1 .. Len(stack) :
         /\ stack'[i].node = stack[i].node /\ stack[i].node \in live
         /\ parent[stack[i].node] = NULL
         /\ stack'[i].node = p => i = Len(stack)
  <2>1. p = stack[Len(stack)].node
    BY <1>4 DEF p
  <2>2. \A i \in 1 .. Len(stack) : stack'[i].node = stack[i].node
    BY <1>15, <2>1
  <2>3. \A i \in 1 .. Len(stack) :
          stack[i].node \in live /\ parent[stack[i].node] = NULL
    BY <1>1, <1>2, <1>16 DEF DeleteIsSafe
  <2>4. \A i \in 1 .. Len(stack) : stack[i].node = p => i = Len(stack)
    BY <1>1, <1>2, <1>4, <1>16, <2>1 DEF DeleteIsSafe
  <2>5. QED
    BY <2>2, <2>3, <2>4
<1>18. \A i \in 1 .. Len(stack) : stack'[i].child = head'[stack'[i].node]
  <2>1. SUFFICES ASSUME NEW i \in 1 .. Len(stack)
                 PROVE  stack'[i].child = head'[stack'[i].node]
    OBVIOUS
  <2>2. CASE i = Len(stack)
    BY <1>9, <1>10, <1>11, <1>15, <2>2
  <2>3. CASE i # Len(stack)
    <3>1. stack'[i] = stack[i] /\ stack[i].node # p
      BY <1>15, <1>17, <2>3
    <3>2. stack[i].child = head[stack[i].node] /\ stack[i].node \in Node
      BY <1>1, <1>2, <1>16, <1>17 DEF DeleteIsSafe, Pointers
    <3>3. QED
      BY <1>9, <1>10, <3>1, <3>2
  <2>4. QED
    BY <2>2, <2>3
<1>range. \A k \in DOMAIN stack' : k \in 1 .. Len(stack) \/ k = Len(stack) + 1
  <2>1. \A L \in Nat : \A k \in 1 .. L + 1 : k \in 1 .. L \/ k = L + 1
    OBVIOUS
  <2>2. DOMAIN stack' = 1 .. Len(stack) + 1 /\ Len(stack) \in Nat
    BY <1>15, <1>16
  <2>3. QED
    BY <2>1, <2>2
<1>19. DeleteIsSafe'
  <2>1. ASSUME NEW i \in DOMAIN stack'
        PROVE  /\ stack'[i].node \in live' /\ parent'[stack'[i].node] = NULL
               /\ stack'[i].child = head'[stack'[i].node]
    <3>1. CASE i = Len(stack) + 1
      BY <1>2, <1>9, <1>10, <1>11, <1>15, <3>1
    <3>2. CASE i # Len(stack) + 1
      <4>1. i \in 1 .. Len(stack)
        BY <1>range, <2>1, <3>2
      <4>2. stack'[i].node \in live /\ stack'[i].node \in Node /\ parent[stack'[i].node] = NULL
        BY <1>1, <1>17, <4>1 DEF Pointers
      <4>3. QED
        BY <1>2, <1>10, <1>18, <4>1, <4>2
    <3>3. QED
      BY <3>1, <3>2
  <2>2. ASSUME NEW i \in DOMAIN stack', NEW j \in DOMAIN stack',
               stack'[i].node = stack'[j].node
        PROVE  i = j
    <3>1. \A k \in 1 .. Len(stack) : stack'[k].node # n
      BY <1>5, <1>9, <1>17
    <3>2. \A k \in DOMAIN stack' : k \in 1 .. Len(stack) \/ k = Len(stack) + 1
      BY <1>range
    <3>3. stack'[Len(stack) + 1].node = n
      BY <1>15
    <3>4. CASE i \in 1 .. Len(stack) /\ j \in 1 .. Len(stack)
      BY <1>1, <1>2, <1>16, <1>17, <2>2, <3>4 DEF DeleteIsSafe
    <3>5. QED
      BY <2>2, <3>1, <3>2, <3>3, <3>4
  <2>3. QED
    BY <2>1, <2>2 DEF DeleteIsSafe
<1>20. Data' /\ Calls'
  BY <1>1, <1>2, <1>6, <1>8, <1>15, RemoveKeys DEF Data, Calls
<1>21. CopyingIsSafe' /\ Busy'
  BY <1>2, <1>15 DEF CopyingIsSafe, Busy
<1>22. QED
  BY <1>10, <1>19, <1>20, <1>21, TypePartsNext DEF IInv

\* free: the node of the call has lost its children and its parent.
LEMMA DeleteFreeStep == IInv /\ DeleteFree => IInv'
<1> SUFFICES ASSUME IInv, DeleteFree PROVE IInv'
  OBVIOUS
<1>1. Pointers /\ Linked /\ NoRing /\ Data /\ Calls /\ DeleteIsSafe /\ mode = "delete"
  BY TypeParts DEF IInv, DeleteFree
<1>2. stack \in Seq(Call) /\ stack # << >>
  BY <1>1 DEF IInv, Busy, Calls
<1>3. Top = stack[Len(stack)] /\ Len(stack) \in DOMAIN stack
  BY <1>2, TopIsCall
<1> DEFINE n == Top.node
<1>4. n \in live /\ parent[n] = NULL /\ head[n] = NULL
  BY <1>1, <1>3 DEF DeleteIsSafe, DeleteFree
<1>5. live' = live \ {n} /\ UNCHANGED <<parent, prev, next, head, tail>>
  BY DEF DeleteFree, Free, links
<1>6. Pointers' /\ Linked' /\ NoRing'
  BY <1>1, <1>4, <1>5, FreeLinks DEF links
<1>7. Data'
  <2>1. NULL \in Ptr
    BY DEF Ptr
  <2>2. /\ tag' = Set(tag, n, "scalar") /\ key' = Set(key, n, NULL) /\ copies' \subseteq copies
        /\ arg' = arg \/ arg' = NULL
        /\ subject' = subject \/ subject' = {}
    BY DEF DeleteFree, Free, Return
  <2>3. tag' \in [Node -> {"scalar", "array", "object"}] /\ key' \in [Node -> Name \cup {NULL}]
    BY <1>1, <2>2 DEF Data, Set
  <2>4. QED
    BY <1>1, <2>1, <2>2, <2>3 DEF Data
<1>8. CASE Len(stack) = 1
  <2>1. mode' = "idle" /\ stack' = << >>
    BY <1>8 DEF DeleteFree, Return
  <2>2. Calls'
    BY <2>1 DEF Calls
  <2>3. QED
    BY <1>6, <1>7, <2>1, <2>2, IdleInv
<1>9. CASE Len(stack) # 1
  <2>1. mode' = "delete" /\ stack' = SubSeq(stack, 1, Len(stack) - 1)
    BY <1>1, <1>9 DEF DeleteFree, Callers
  <2>2. /\ stack' \in Seq(Call) /\ Len(stack') = Len(stack) - 1
        /\ DOMAIN stack' = 1 .. Len(stack) - 1
        /\ \A i \in 1 .. Len(stack) - 1 : stack'[i] = stack[i]
    BY <1>2, <2>1, Popped
  <2>3. Len(stack) \in Nat \ {0} /\ DOMAIN stack = 1 .. Len(stack)
    BY <1>2
  <2>4. stack' # << >>
    BY <1>9, <2>2, <2>3
  <2>5. ASSUME NEW i \in DOMAIN stack'
        PROVE  stack'[i] = stack[i] /\ i \in DOMAIN stack /\ i # Len(stack)
    BY <2>2, <2>3
  <2>6. \A i \in DOMAIN stack : stack[i].node = n => i = Len(stack)
    BY <1>1, <1>3 DEF DeleteIsSafe
  <2>7. ASSUME NEW i \in DOMAIN stack'
        PROVE  /\ stack'[i].node \in live' /\ parent'[stack'[i].node] = NULL
               /\ stack'[i].child = head'[stack'[i].node]
    BY <1>1, <1>5, <2>5, <2>6, <2>7 DEF DeleteIsSafe
  <2>8. \A i, j \in DOMAIN stack' : stack'[i].node = stack'[j].node => i = j
    BY <1>1, <2>5 DEF DeleteIsSafe
  <2>9. DeleteIsSafe'
    BY <2>7, <2>8 DEF DeleteIsSafe
  <2>10. Calls' /\ CopyingIsSafe' /\ Busy'
    BY <2>1, <2>2, <2>4 DEF Calls, CopyingIsSafe, Busy
  <2>11. QED
    BY <1>6, <1>7, <2>9, <2>10, TypePartsNext DEF IInv
<1>10. QED
  BY <1>8, <1>9

-----------------------------------------------------------------------------
(* json_mkcopy. *)

LEMMA CopyStep ==
  ASSUME IInv, NEW h \in Node, json_mkcopy(h)
  PROVE  IInv'
<1>1. Pointers /\ Linked /\ NoRing /\ Data
  BY TypeParts DEF IInv
<1>2. PICK c \in Node : /\ mknode(c, tag[h], key[h])
                        /\ stack' = <<Frame(c, head[h])>>
                        /\ copies' = copies \cup {c}
  BY DEF json_mkcopy
<1>3. h \in live /\ mode' = "copy" /\ arg' = h /\ subject' \subseteq live
  BY DEF json_mkcopy, Begin
<1>4. Pointers' /\ Linked' /\ NoRing'
  BY <1>1, <1>2, MakeLinks
<1>5. c \in live' /\ parent'[c] = NULL
  BY <1>1, <1>2 DEF mknode, Pointers
<1>6. Data'
  <2>1. tag[h] \in {"scalar", "array", "object"} /\ key[h] \in Name \cup {NULL}
    BY <1>1 DEF Data
  <2>2. tag' \in [Node -> {"scalar", "array", "object"}] /\ key' \in [Node -> Name \cup {NULL}]
    BY <1>1, <1>2, <2>1 DEF Data, mknode
  <2>3. QED
    BY <1>1, <1>2, <1>3, <2>2 DEF Data, Pointers, Ptr
<1>7. /\ stack' \in Seq(Call) /\ stack' # << >> /\ DOMAIN stack' = {1} /\ Len(stack') = 1
      /\ stack'[1] = [node |-> c, child |-> head[h]]
  <2>1. [node |-> c, child |-> head[h]] \in Call
    BY <1>1 DEF Call, Pointers
  <2>2. stack' = <<[node |-> c, child |-> head[h]]>>
    BY <1>2 DEF Frame
  <2>3. QED
    BY <2>1, <2>2
<1>8. CopyingIsSafe'
  BY <1>5, <1>7 DEF CopyingIsSafe
<1>9. Calls' /\ DeleteIsSafe' /\ Busy'
  BY <1>3, <1>7 DEF Calls, DeleteIsSafe, Busy
<1>10. QED
  BY <1>4, <1>6, <1>8, <1>9, TypePartsNext DEF IInv

\* The copy of the next child is new, and a root so far.
LEMMA CopyChildStep == IInv /\ CopyChild => IInv'
<1> SUFFICES ASSUME IInv, CopyChild PROVE IInv'
  OBVIOUS
<1>1. Pointers /\ Linked /\ NoRing /\ Data /\ Calls /\ CopyingIsSafe
  BY TypeParts DEF IInv
<1>2. mode = "copy" /\ mode' = "copy" /\ UNCHANGED <<arg, subject>> /\ Top.child # NULL
  BY DEF CopyChild
<1>3. stack \in Seq(Call) /\ stack # << >>
  BY <1>1, <1>2 DEF IInv, Busy, Calls
<1>4. Top \in Call /\ Top = stack[Len(stack)] /\ Len(stack) \in DOMAIN stack
  BY <1>3, TopIsCall
<1>5. Top.child \in Node
  BY <1>2, <1>4 DEF Call, Ptr
<1>6. PICK c \in Node : /\ mknode(c, tag[Top.child], key[Top.child])
                        /\ stack' = Append(stack, Frame(c, head[Top.child]))
                        /\ copies' = copies \/ copies' = copies \cup {c}
  BY DEF CopyChild
<1>7. Pointers' /\ Linked' /\ NoRing'
  BY <1>1, <1>6, MakeLinks
<1>8. /\ c \notin live /\ live' = live \cup {c}
      /\ \A m \in Node : parent'[m] = IF m = c THEN NULL ELSE parent[m]
  BY <1>1, <1>6 DEF mknode, Pointers
<1>9. Data'
  <2>1. tag[Top.child] \in {"scalar", "array", "object"} /\ key[Top.child] \in Name \cup {NULL}
    BY <1>1, <1>5 DEF Data
  <2>2. tag' \in [Node -> {"scalar", "array", "object"}] /\ key' \in [Node -> Name \cup {NULL}]
    BY <1>1, <1>6, <2>1 DEF Data, mknode
  <2>3. QED
    BY <1>1, <1>2, <1>6, <2>2 DEF Data
<1>10. [node |-> c, child |-> head[Top.child]] \in Call
  BY <1>1, <1>5 DEF Call, Pointers
<1>11. stack' = Append(stack, [node |-> c, child |-> head[Top.child]])
  BY <1>6 DEF Frame
<1>12. /\ stack' \in Seq(Call) /\ stack' # << >>
       /\ Len(stack') = Len(stack) + 1 /\ DOMAIN stack' = 1 .. Len(stack) + 1
       /\ \A i \in 1 .. Len(stack) : stack'[i] = stack[i]
       /\ stack'[Len(stack) + 1].node = c
  BY <1>3, <1>10, <1>11, Pushed
<1>13. Len(stack) \in Nat /\ DOMAIN stack = 1 .. Len(stack)
  BY <1>3
<1>14. \A k \in DOMAIN stack' : k \in DOMAIN stack \/ k = Len(stack) + 1
  <2>1. \A L \in Nat : \A k \in 1 .. L + 1 : k \in 1 .. L \/ k = L + 1
    OBVIOUS
  <2>2. DOMAIN stack' = 1 .. Len(stack) + 1
    BY <1>12
  <2>3. QED
    BY <1>13, <2>1, <2>2
<1>15. \A i \in DOMAIN stack : /\ stack'[i] = stack[i] /\ stack[i].node \in live
                              /\ stack[i].node \in Node /\ parent[stack[i].node] = NULL
  BY <1>1, <1>2, <1>12, <1>13 DEF CopyingIsSafe, Pointers
<1>16. \A i \in DOMAIN stack : stack[i].child # NULL
  <2>1. \A i \in DOMAIN stack : i < Len(stack) => stack[i].child # NULL
    BY <1>1, <1>2 DEF CopyingIsSafe
  <2>2. \A i \in DOMAIN stack : i < Len(stack) \/ i = Len(stack)
    BY <1>13
  <2>3. QED
    BY <1>2, <1>4, <2>1, <2>2
<1>17. CopyingIsSafe'
  <2>1. ASSUME NEW i \in DOMAIN stack'
        PROVE  stack'[i].node \in live' /\ parent'[stack'[i].node] = NULL
    BY <1>8, <1>12, <1>14, <1>15, <2>1
  <2>2. ASSUME NEW i \in DOMAIN stack', NEW j \in DOMAIN stack',
               stack'[i].node = stack'[j].node
        PROVE  i = j
    <3>1. \A k \in DOMAIN stack : stack'[k].node # c
      BY <1>8, <1>15
    <3>2. CASE i \in DOMAIN stack /\ j \in DOMAIN stack
      BY <1>1, <1>2, <1>15, <2>2, <3>2 DEF CopyingIsSafe
    <3>3. QED
      BY <1>12, <1>14, <2>2, <3>1, <3>2
  <2>3. ASSUME NEW i \in DOMAIN stack', i < Len(stack')
        PROVE  stack'[i].child # NULL
    <3>1. i # Len(stack) + 1
      BY <1>12, <1>13, <2>3
    <3>2. QED
      BY <1>14, <1>15, <1>16, <2>3, <3>1
  <2>4. QED
    BY <2>1, <2>2, <2>3 DEF CopyingIsSafe
<1>18. Calls' /\ DeleteIsSafe' /\ Busy'
  BY <1>2, <1>12 DEF Calls, DeleteIsSafe, Busy
<1>19. QED
  BY <1>7, <1>9, <1>17, <1>18, TypePartsNext DEF IInv

\* The copy of a child, a root of its own, is appended to that of its parent.
LEMMA CopyReturnStep == IInv /\ CopyReturn => IInv'
<1> SUFFICES ASSUME IInv, CopyReturn PROVE IInv'
  OBVIOUS
<1>1. Pointers /\ Linked /\ NoRing /\ Data /\ Calls /\ CopyingIsSafe
  BY TypeParts DEF IInv
<1>2. /\ mode = "copy" /\ mode' = "copy" /\ Len(stack) > 1
      /\ UNCHANGED <<live, tag, key, arg, subject, copies>>
  BY DEF CopyReturn, hist
<1>3. stack \in Seq(Call) /\ stack # << >>
  BY <1>1, <1>2 DEF IInv, Busy, Calls
<1>4. Top = stack[Len(stack)] /\ Len(stack) \in DOMAIN stack
  BY <1>3, TopIsCall
<1>5. PICK l \in Nat : l = Len(stack) - 1 /\ l >= 1 /\ Len(stack) = l + 1 /\ DOMAIN stack = 1 .. l + 1
  BY <1>2, <1>3
<1>6. Below = stack[l] /\ l \in DOMAIN stack /\ Below \in Call
  BY <1>3, <1>5 DEF Below
<1> DEFINE c == Top.node
           p == Below.node
<1>7. /\ c \in live /\ p \in live /\ parent[c] = NULL /\ parent[p] = NULL /\ c # p
      /\ Below.child # NULL
  <2>1. c \in live /\ p \in live /\ parent[c] = NULL /\ parent[p] = NULL
    BY <1>1, <1>2, <1>4, <1>6 DEF CopyingIsSafe
  <2>2. c # p
    <3>1. c = p => Len(stack) = l
      BY <1>1, <1>2, <1>4, <1>6 DEF CopyingIsSafe
    <3>2. QED
      BY <1>5, <3>1
  <2>3. Below.child # NULL
    <3>1. l < Len(stack)
      BY <1>5
    <3>2. QED
      BY <1>1, <1>2, <1>6, <3>1 DEF CopyingIsSafe
  <2>4. QED
    BY <2>1, <2>2, <2>3
<1>8. Pointers' /\ Linked' /\ NoRing'
  BY <1>1, <1>2, <1>7, AppendLinks DEF CopyReturn
<1>9. \A m \in Node : parent'[m] = IF m = c THEN p ELSE parent[m]
  BY <1>1 DEF CopyReturn, append_node, Set, Pointers
<1>10. Data'
  BY <1>1, <1>2 DEF Data
<1> DEFINE f == [node |-> p, child |-> next[Below.child]]
           t == SubSeq(stack, 1, Len(stack) - 1)
<1>11. f \in Call
  BY <1>1, <1>6, <1>7 DEF Call, Pointers, Ptr
<1>12. t \in Seq(Call) /\ Len(t) = l /\ t # << >> /\ \A i \in 1 .. l : t[i] = stack[i]
  <2>1. /\ t \in Seq(Call) /\ Len(t) = Len(stack) - 1
        /\ \A i \in 1 .. Len(stack) - 1 : t[i] = stack[i]
    BY <1>3, Popped
  <2>2. l = Len(stack) - 1 /\ l >= 1 /\ l \in Nat
    BY <1>5
  <2> HIDE DEF t
  <2>3. QED
    BY <2>1, <2>2
<1>13. stack' = [t EXCEPT ![l] = f]
  BY <1>5 DEF CopyReturn, Callers, Frame
<1> HIDE DEF t, f
<1>14. /\ stack' \in Seq(Call) /\ stack' # << >> /\ Len(stack') = l /\ DOMAIN stack' = 1 .. l
       /\ \A i \in 1 .. l : stack'[i] = IF i = l THEN f ELSE stack[i]
  <2>1. /\ stack' \in Seq(Call) /\ stack' # << >> /\ Len(stack') = Len(t)
        /\ DOMAIN stack' = 1 .. Len(t)
        /\ \A i \in 1 .. Len(t) : stack'[i] = IF i = Len(t) THEN f ELSE t[i]
    BY <1>11, <1>12, <1>13, Replaced
  <2>2. QED
    BY <1>12, <2>1
<1>15. \A i \in 1 .. l : /\ i \in DOMAIN stack /\ i # Len(stack)
                         /\ stack'[i].node = stack[i].node
                         /\ i < l => stack'[i] = stack[i] /\ i < Len(stack)
  <2>1. \A i \in 1 .. l : i \in DOMAIN stack /\ i # Len(stack) /\ (i < l => i < Len(stack) /\ i # l)
    BY <1>5
  <2>2. f.node = stack[l].node
    BY <1>6 DEF f
  <2>3. QED
    BY <1>14, <2>1, <2>2
<1>16. \A i \in 1 .. l : stack[i].node \in live /\ parent[stack[i].node] = NULL /\ stack[i].node # c
  BY <1>1, <1>2, <1>4, <1>15 DEF CopyingIsSafe
<1>17. CopyingIsSafe'
  <2>1. ASSUME NEW i \in DOMAIN stack'
        PROVE  stack'[i].node \in live' /\ parent'[stack'[i].node] = NULL
    <3>1. i \in 1 .. l
      BY <1>14
    <3>2. stack[i].node \in Node
      BY <1>1, <1>16, <3>1 DEF Pointers
    <3>3. QED
      BY <1>2, <1>9, <1>15, <1>16, <3>1, <3>2
  <2>2. \A i, j \in DOMAIN stack' : stack'[i].node = stack'[j].node => i = j
    BY <1>1, <1>2, <1>14, <1>15 DEF CopyingIsSafe
  <2>3. \A i \in DOMAIN stack' : i < Len(stack') => stack'[i].child # NULL
    BY <1>1, <1>2, <1>14, <1>15 DEF CopyingIsSafe
  <2>4. QED
    BY <2>1, <2>2, <2>3 DEF CopyingIsSafe
<1>18. Calls' /\ DeleteIsSafe' /\ Busy'
  BY <1>2, <1>14 DEF Calls, DeleteIsSafe, Busy
<1>19. QED
  BY <1>8, <1>10, <1>17, <1>18, TypePartsNext DEF IInv

\* The last return, or the end of the program.
LEMMA CopyEndStep == IInv /\ (CopyEnd \/ CopyExits) => IInv'
<1> SUFFICES ASSUME IInv, CopyEnd \/ CopyExits PROVE IInv'
  OBVIOUS
<1>1. Pointers /\ Linked /\ NoRing /\ Data /\ Calls
  BY TypeParts DEF IInv
<1>2. UNCHANGED <<live, tag, key, parent, prev, next, head, tail, copies>>
  BY DEF CopyEnd, CopyExits, links, hist
<1>3. Pointers' /\ Linked' /\ NoRing'
  BY <1>1, <1>2 DEF Pointers, Linked, NoRing
<1>4. \/ mode' = "idle" /\ stack' = << >> /\ arg' = NULL /\ subject' = {}
      \/ mode' = "exited" /\ UNCHANGED <<stack, arg, subject>>
  BY DEF CopyEnd, CopyExits, Return, hist
<1>5. Data' /\ Calls'
  <2>1. Data'
    BY <1>1, <1>2, <1>4 DEF Data, Ptr
  <2>2. stack' \in Seq(Call)
    <3>1. << >> \in Seq(Call) /\ stack \in Seq(Call)
      BY <1>1 DEF Calls
    <3>2. stack' = << >> \/ stack' = stack
      BY <1>4
    <3>3. QED
      BY <3>1, <3>2
  <2>3. mode' \in {"idle", "exited"}
    BY <1>4
  <2>4. QED
    BY <2>1, <2>2, <2>3 DEF Calls
<1>6. DeleteIsSafe' /\ CopyingIsSafe' /\ Busy'
  BY <1>4 DEF DeleteIsSafe, CopyingIsSafe, Busy
<1>7. QED
  BY <1>3, <1>5, <1>6, TypePartsNext DEF IInv

-----------------------------------------------------------------------------
(* The theorems. *)

LEMMA NextInv == IInv /\ [Next]_vars => IInv'
<1> SUFFICES ASSUME IInv, [Next]_vars PROVE IInv'
  OBVIOUS
<1>1. CASE Make
  BY <1>1, MakeStep
<1>2. CASE \E p, c \in Node : json_append_element(p, c) \/ json_prepend_element(p, c)
  BY <1>2, AttachStep
<1>3. CASE \E p, c \in Node, k \in Name : json_append_member(p, k, c) \/ json_prepend_member(p, k, c)
  BY <1>3, AttachStep
<1>4. CASE \E n \in Node : RemoveNode(n) \/ json_delete(n) \/ json_mkcopy(n)
  BY <1>4, RemoveStep, DeleteStep, CopyStep
<1>5. CASE DeleteChild \/ DeleteFree
  BY <1>5, DeleteChildStep, DeleteFreeStep
<1>6. CASE CopyChild \/ CopyReturn \/ CopyEnd \/ CopyExits
  BY <1>6, CopyChildStep, CopyReturnStep, CopyEndStep
<1>7. CASE UNCHANGED vars
  BY <1>7 DEF vars, links, hist, IInv, TypeOK, Linked, NoRing, DeleteIsSafe, CopyingIsSafe, Busy
<1>8. QED
  BY <1>1, <1>2, <1>3, <1>4, <1>5, <1>6, <1>7 DEF Next

LEMMA InvHolds == Spec => []IInv
BY InitInv, NextInv, PTL DEF Spec

\* The types of the nodes' fields and of the calls in progress.
THEOREM TreeTypeOK == Spec => []TypeOK
<1>1. IInv => TypeOK
  BY DEF IInv
<1>2. QED
  BY <1>1, InvHolds, PTL

\* Attaching, removing, copying and deleting keep the pointers of the live nodes
\* in agreement, in every iteration of the recursive functions: nothing points
\* to freed memory.
THEOREM LinkedHolds == Spec => []Linked
<1>1. IInv => Linked
  BY DEF IInv
<1>2. QED
  BY <1>1, InvHolds, PTL

\* json_delete's pointer to the next child survives the recursion, and no node
\* is freed twice, however deep and wide the tree.
THEOREM DeleteHolds == Spec => []DeleteIsSafe
<1>1. IInv => DeleteIsSafe
  BY DEF IInv
<1>2. QED
  BY <1>1, InvHolds, PTL

\* No set of siblings points around in a ring.
THEOREM NoRingHolds == Spec => []NoRing
<1>1. IInv => NoRing
  BY DEF IInv
<1>2. QED
  BY <1>1, InvHolds, PTL

-----------------------------------------------------------------------------
(* What a step does to the pointers.  Five operations cover all actions.   *)

Makes(c) == \E t, k : mknode(c, t, k)

Attaches(p, c) == {p, c} \subseteq live /\ live' = live /\ parent[c] = NULL /\ c \notin Above(p)

Appends(p, c)  == Attaches(p, c) /\ append_node(p, c)
Prepends(p, c) == Attaches(p, c) /\ prepend_node(p, c)

Unlinks(n) == n \in live /\ live' = live /\ parent[n] # NULL /\ Unlink(n)

Frees(n) ==
  n \in live /\ live' = live \ {n} /\ parent[n] = NULL /\ head[n] = NULL /\ UNCHANGED links

Rests == UNCHANGED <<live, links>>

\* The pointers of each node after a step.
LEMMA MakesEffect ==
  ASSUME Pointers, NEW c, Makes(c)
  PROVE  /\ c \in Node /\ c \notin live /\ live' = live \cup {c}
         /\ \A m \in Node :
              /\ parent'[m] = IF m = c THEN NULL ELSE parent[m]
              /\ prev'[m] = IF m = c THEN NULL ELSE prev[m]
              /\ next'[m] = IF m = c THEN NULL ELSE next[m]
              /\ head'[m] = IF m = c THEN NULL ELSE head[m]
              /\ tail'[m] = IF m = c THEN NULL ELSE tail[m]
BY DEF Makes, mknode, Pointers

LEMMA AppendsEffect ==
  ASSUME Pointers, NEW p, NEW c, Appends(p, c)
  PROVE  /\ p \in live /\ c \in live /\ live' = live /\ parent[c] = NULL /\ c \notin Above(p)
         /\ \A m \in Node :
              /\ parent'[m] = IF m = c THEN p ELSE parent[m]
              /\ prev'[m] = IF m = c THEN tail[p] ELSE prev[m]
              /\ next'[m] = IF m = tail[p] THEN c ELSE IF m = c THEN NULL ELSE next[m]
              /\ head'[m] = IF m = p /\ tail[p] = NULL THEN c ELSE head[m]
              /\ tail'[m] = IF m = p THEN c ELSE tail[m]
<1>1. p \in live /\ c \in live /\ live' = live /\ parent[c] = NULL /\ c \notin Above(p)
  BY DEF Appends, Attaches
<1>2. p \in Node /\ c \in Node
  BY <1>1 DEF Pointers
<1>3. append_node(p, c)
  BY DEF Appends
<1>4. QED
  BY <1>1, <1>2, <1>3 DEF append_node, Set, Pointers

LEMMA PrependsEffect ==
  ASSUME Pointers, NEW p, NEW c, Prepends(p, c)
  PROVE  /\ p \in live /\ c \in live /\ live' = live /\ parent[c] = NULL /\ c \notin Above(p)
         /\ \A m \in Node :
              /\ parent'[m] = IF m = c THEN p ELSE parent[m]
              /\ prev'[m] = IF m = head[p] THEN c ELSE IF m = c THEN NULL ELSE prev[m]
              /\ next'[m] = IF m = c THEN head[p] ELSE next[m]
              /\ head'[m] = IF m = p THEN c ELSE head[m]
              /\ tail'[m] = IF m = p /\ head[p] = NULL THEN c ELSE tail[m]
<1>1. p \in live /\ c \in live /\ live' = live /\ parent[c] = NULL /\ c \notin Above(p)
  BY DEF Prepends, Attaches
<1>2. p \in Node /\ c \in Node
  BY <1>1 DEF Pointers
<1>3. prepend_node(p, c)
  BY DEF Prepends
<1>4. QED
  BY <1>1, <1>2, <1>3 DEF prepend_node, Set, Pointers

LEMMA UnlinksEffect ==
  ASSUME Pointers, NEW n, Unlinks(n)
  PROVE  /\ n \in live /\ live' = live /\ parent[n] # NULL
         /\ \A m \in Node :
              /\ parent'[m] = IF m = n THEN NULL ELSE parent[m]
              /\ prev'[m] = IF m = n THEN NULL ELSE IF m = next[n] THEN prev[n] ELSE prev[m]
              /\ next'[m] = IF m = n THEN NULL ELSE IF m = prev[n] THEN next[n] ELSE next[m]
              /\ head'[m] = IF m = parent[n] /\ prev[n] = NULL THEN next[n] ELSE head[m]
              /\ tail'[m] = IF m = parent[n] /\ next[n] = NULL THEN prev[n] ELSE tail[m]
<1>1. n \in live /\ live' = live /\ parent[n] # NULL /\ Unlink(n)
  BY DEF Unlinks
<1>2. n \in Node
  BY <1>1 DEF Pointers
<1>3. QED
  BY <1>1, <1>2 DEF Unlink, Set, Pointers

-----------------------------------------------------------------------------
(* Ancestors. *)

\* What is not allocated points nowhere, and nobody is his own ancestor: every
\* set of live nodes has one whose parent is not in the set.
Blank ==
  \A n \in Node \ live :
    /\ parent[n] = NULL /\ prev[n] = NULL /\ next[n] = NULL
    /\ head[n] = NULL /\ tail[n] = NULL

NoCycle == \A X \in SUBSET live : X # {} => \E n \in X : parent[n] \notin X

TreeInv == Blank /\ NoCycle

AboveFacts ==
  /\ \A n \in Node : /\ n \in Above(n)
                     /\ parent[n] = NULL => Above(n) = {n}
                     /\ parent[n] # NULL => Above(n) = {n} \cup Above(parent[n])
  /\ \A n \in Node : \A a \in Above(n) :
       a \in Node /\ (parent[a] # NULL => parent[a] \in Above(n))

\* Above is a recursive function; the set of what is in every set that has n and
\* the parents of its members shows that there is one.
LEMMA AboveIsClosed == IInv /\ TreeInv => AboveFacts
<1> SUFFICES ASSUME IInv, TreeInv PROVE AboveFacts
  OBVIOUS
<1>0. /\ parent \in [Node -> Ptr] /\ NULL \notin Node /\ live \subseteq Node
      /\ \A m \in Node : parent[m] # NULL => parent[m] \in Node
  BY NullAssumption, TypeParts DEF IInv, Pointers, Ptr
<1> DEFINE Closed(S) == \A x \in S : parent[x] # NULL => parent[x] \in S
           A(m) == {a \in Node : \A S \in SUBSET Node : m \in S /\ Closed(S) => a \in S}
           Is(f) == f = [m \in Node |-> {m} \cup IF parent[m] = NULL THEN {} ELSE f[parent[m]]]
           f == CHOOSE f : Is(f)
<1>1. \A m \in Node : A(m) = {m} \cup IF parent[m] = NULL THEN {} ELSE A(parent[m])
  <2>1. SUFFICES ASSUME NEW m \in Node
                 PROVE  A(m) = {m} \cup IF parent[m] = NULL THEN {} ELSE A(parent[m])
    OBVIOUS
  <2>2. m \in A(m)
    OBVIOUS
  <2>3. CASE parent[m] = NULL
    <3>1. {m} \in SUBSET Node /\ Closed({m})
      BY <2>3
    <3>2. A(m) \subseteq {m}
      BY <3>1
    <3>3. QED
      BY <2>2, <2>3, <3>2
  <2>4. CASE parent[m] # NULL
    <3> DEFINE q == parent[m]
               S0 == {m} \cup A(q)
    <3>1. q \in Node /\ q \in A(q)
      BY <1>0, <2>4
    <3>2. A(q) \subseteq A(m)
      <4>1. \A S \in SUBSET Node : m \in S /\ Closed(S) => q \in S
        BY <2>4
      <4>2. QED
        BY <4>1
    <3>3. S0 \in SUBSET Node /\ Closed(S0)
      <4>1. \A x \in A(q) : parent[x] # NULL => parent[x] \in A(q)
        <5>1. SUFFICES ASSUME NEW x \in A(q), parent[x] # NULL,
                              NEW S \in SUBSET Node, q \in S, Closed(S)
                       PROVE  parent[x] \in S
          BY <1>0
        <5>2. QED
          BY <5>1
      <4>2. QED
        BY <3>1, <4>1
    <3>4. A(m) \subseteq S0
      BY <3>3
    <3>5. QED
      BY <2>2, <2>4, <3>2, <3>4
  <2>5. QED
    BY <2>3, <2>4
<1>2. Is([m \in Node |-> A(m)])
  <2> DEFINE a == [m \in Node |-> A(m)]
  <2>1. \A m \in Node : a[m] = A(m)
    OBVIOUS
  <2> HIDE DEF A
  <2>2. \A m \in Node : a[m] = {m} \cup IF parent[m] = NULL THEN {} ELSE a[parent[m]]
    BY <1>0, <1>1, <2>1
  <2>3. QED
    BY <2>2
<1>3. Is(f)
  BY <1>2
<1>4. \A m \in Node : Above(m) = f[m]
  BY DEF Above
<1> HIDE DEF f, A
<1>5. \A m \in Node : f[m] = {m} \cup IF parent[m] = NULL THEN {} ELSE f[parent[m]]
  BY <1>3
<1>6. \A X \in SUBSET Node : X # {} => \E n \in X : parent[n] \notin X
  <2>1. SUFFICES ASSUME NEW X \in SUBSET Node, X # {} PROVE \E n \in X : parent[n] \notin X
    OBVIOUS
  <2>2. CASE X \subseteq live
    BY <2>1, <2>2 DEF TreeInv, NoCycle
  <2>3. CASE ~ (X \subseteq live)
    BY <1>0, <2>1, <2>3 DEF TreeInv, Blank
  <2>4. QED
    BY <2>2, <2>3
<1>7. \A n \in Node : \A a \in f[n] : a \in Node /\ (parent[a] # NULL => parent[a] \in f[n])
  <2> DEFINE Good(n) == \A a \in f[n] : a \in Node /\ (parent[a] # NULL => parent[a] \in f[n])
             X == {n \in Node : ~ Good(n)}
  <2>1. SUFFICES ASSUME X # {} PROVE FALSE
    OBVIOUS
  <2>2. PICK n \in X : parent[n] \notin X
    BY <1>6, <2>1
  <2>3. CASE parent[n] = NULL
    BY <1>5, <2>2, <2>3
  <2>4. CASE parent[n] # NULL
    <3>1. parent[n] \in Node /\ Good(parent[n])
      BY <1>0, <2>2, <2>4
    <3>2. f[n] = {n} \cup f[parent[n]] /\ parent[n] \in f[parent[n]]
      BY <1>5, <2>2, <2>4, <3>1
    <3>3. Good(n)
      BY <2>2, <3>1, <3>2
    <3>4. QED
      BY <2>2, <3>3
  <2>5. QED
    BY <2>3, <2>4
<1>8. QED
  BY <1>4, <1>5, <1>7, <1>0 DEF AboveFacts

\* Every step is one of the five operations, or leaves the pointers alone.
LinkStep ==
  \/ Rests
  \/ \E c \in Node : Makes(c)
  \/ \E p, c \in Node : Appends(p, c) \/ Prepends(p, c)
  \/ \E n \in Node : Unlinks(n) \/ Frees(n)

\* json_remove_from_parent does nothing to a root.
LEMMA RemoveIsLinkStep ==
  ASSUME live \subseteq Node, NEW n \in live, live' = live, json_remove_from_parent(n)
  PROVE  LinkStep
<1>1. CASE parent[n] # NULL
  BY <1>1 DEF json_remove_from_parent, LinkStep, Unlinks
<1>2. CASE parent[n] = NULL
  BY <1>2 DEF json_remove_from_parent, LinkStep, Rests
<1>3. QED
  BY <1>1, <1>2

\* The frames of the calls of json_delete and json_mkcopy on top of the stack.
LEMMA TopFrame ==
  ASSUME IInv, mode \in {"delete", "copy"}
  PROVE  /\ stack \in Seq(Call) /\ stack # << >>
         /\ Top \in Call /\ Top = stack[Len(stack)] /\ Len(stack) \in DOMAIN stack
         /\ Top.node \in live /\ Top.node \in Node /\ parent[Top.node] = NULL
         /\ mode = "delete" => Top.child = head[Top.node]
<1>1. stack \in Seq(Call) /\ stack # << >>
  BY TypeParts DEF IInv, Busy, Calls
<1>2. Top \in Call /\ Top = stack[Len(stack)] /\ Len(stack) \in DOMAIN stack
  BY <1>1, TopIsCall
<1>3. /\ Top.node \in live /\ parent[Top.node] = NULL
      /\ mode = "delete" => Top.child = head[Top.node]
  BY <1>2 DEF IInv, DeleteIsSafe, CopyingIsSafe
<1>4. QED
  BY <1>1, <1>2, <1>3, TypeParts DEF IInv, Pointers

\* The same for the frame below it, the caller's.
LEMMA BelowFrame ==
  ASSUME IInv, mode = "copy", Len(stack) > 1
  PROVE  /\ Below \in Call /\ Below = stack[Len(stack) - 1] /\ Len(stack) - 1 \in DOMAIN stack
         /\ Below.node \in live /\ Below.node \in Node /\ parent[Below.node] = NULL
         /\ Below.child # NULL /\ Below.child \in Node /\ Below.node # Top.node
<1>1. stack \in Seq(Call) /\ Top = stack[Len(stack)] /\ Len(stack) \in DOMAIN stack
  BY TopFrame
<1>2. Len(stack) \in Nat /\ DOMAIN stack = 1 .. Len(stack)
  BY <1>1
<1>3. Len(stack) - 1 \in DOMAIN stack /\ Len(stack) - 1 < Len(stack)
  BY <1>2
<1>4. Below = stack[Len(stack) - 1] /\ Below \in Call
  BY <1>1, <1>3 DEF Below
<1>5. Below.node \in live /\ parent[Below.node] = NULL /\ Below.child # NULL
  BY <1>3, <1>4 DEF IInv, CopyingIsSafe
<1>6. Below.node # Top.node
  <2>1. Below.node = Top.node => Len(stack) - 1 = Len(stack)
    BY <1>1, <1>3, <1>4 DEF IInv, CopyingIsSafe
  <2>2. \A k \in Nat : k - 1 # k
    OBVIOUS
  <2>3. QED
    BY <1>2, <2>1, <2>2
<1>7. Below.child \in Node
  BY <1>4, <1>5 DEF Call, Ptr
<1>8. QED
  BY <1>3, <1>4, <1>5, <1>6, <1>7, TypeParts DEF IInv, Pointers

LEMMA NextIsLinkStep == IInv /\ TreeInv /\ [Next]_vars => LinkStep
<1> SUFFICES ASSUME IInv, TreeInv, [Next]_vars PROVE LinkStep
  OBVIOUS
<1>0. live \subseteq Node /\ AboveFacts
  BY TypeParts, AboveIsClosed DEF IInv, Pointers
<1>1. CASE Make
  BY <1>1 DEF Make, LinkStep, Makes
<1>2. ASSUME NEW p \in Node, NEW c \in Node,
             \/ json_append_element(p, c) \/ json_prepend_element(p, c)
             \/ \E k \in Name : json_append_member(p, k, c) \/ json_prepend_member(p, k, c)
      PROVE  LinkStep
  <2>1. Attaches(p, c) /\ (append_node(p, c) \/ prepend_node(p, c))
    BY <1>2 DEF json_append_element, json_prepend_element, json_append_member,
                json_prepend_member, CanAttach, Attaches
  <2>2. QED
    BY <2>1 DEF LinkStep, Appends, Prepends
<1>3. ASSUME NEW n \in Node, RemoveNode(n) \/ json_delete(n) PROVE LinkStep
  BY <1>0, <1>3, RemoveIsLinkStep DEF RemoveNode, json_delete, Begin
<1>4. ASSUME NEW n \in Node, json_mkcopy(n) PROVE LinkStep
  BY <1>4 DEF json_mkcopy, LinkStep, Makes
<1>5. CASE DeleteChild
  <2>1. Top.child = head[Top.node] /\ Top.node \in live /\ Top.child # NULL
    BY <1>5, TopFrame DEF DeleteChild
  <2>2. Top.child \in live
    BY <2>1 DEF IInv, Linked
  <2>3. QED
    BY <1>0, <1>5, <2>2, RemoveIsLinkStep DEF DeleteChild
<1>6. CASE DeleteFree
  <2>1. Top.node \in live /\ Top.node \in Node /\ parent[Top.node] = NULL /\ head[Top.node] = NULL
    BY <1>6, TopFrame DEF DeleteFree
  <2>2. Frees(Top.node)
    BY <1>6, <2>1 DEF DeleteFree, Free, Frees
  <2>3. QED
    BY <2>1, <2>2 DEF LinkStep
<1>7. CASE CopyChild
  BY <1>7 DEF CopyChild, LinkStep, Makes
<1>8. CASE CopyReturn
  <2>1. /\ Top.node \in live /\ Top.node \in Node /\ parent[Top.node] = NULL
        /\ Below.node \in live /\ Below.node \in Node /\ parent[Below.node] = NULL
        /\ Below.node # Top.node
    BY <1>8, TopFrame, BelowFrame DEF CopyReturn
  <2>2. Top.node \notin Above(Below.node)
    BY <1>0, <2>1 DEF AboveFacts
  <2>3. Appends(Below.node, Top.node)
    BY <1>8, <2>1, <2>2 DEF CopyReturn, Appends, Attaches
  <2>4. QED
    BY <2>1, <2>3 DEF LinkStep
<1>9. CASE CopyEnd \/ CopyExits
  BY <1>9 DEF CopyEnd, CopyExits, LinkStep, Rests
<1>10. CASE UNCHANGED vars
  BY <1>10 DEF vars, LinkStep, Rests
<1>11. QED
  BY <1>1, <1>2, <1>3, <1>4, <1>5, <1>6, <1>7, <1>8, <1>9, <1>10 DEF Next

-----------------------------------------------------------------------------
(* TreeInv is inductive. *)

LEMMA BlankStep == IInv /\ TreeInv /\ LinkStep => Blank'
<1> SUFFICES ASSUME IInv, TreeInv, LinkStep, NEW n \in Node \ live'
             PROVE  /\ parent'[n] = NULL /\ prev'[n] = NULL /\ next'[n] = NULL
                    /\ head'[n] = NULL /\ tail'[n] = NULL
  BY DEF Blank
<1>0. Pointers /\ Linked /\ live \subseteq Node /\ NULL \notin Node
  BY TypeParts, NullAssumption DEF IInv, Pointers
<1>b. n \notin live => /\ parent[n] = NULL /\ prev[n] = NULL /\ next[n] = NULL
                       /\ head[n] = NULL /\ tail[n] = NULL
  BY DEF TreeInv, Blank
<1>1. CASE Rests
  BY <1>1, <1>b DEF Rests, links
<1>2. ASSUME NEW c \in Node, Makes(c) PROVE Blank!(n)'
  BY <1>0, <1>2, <1>b, MakesEffect
<1>3. ASSUME NEW p \in Node, NEW c \in Node, Appends(p, c) PROVE Blank!(n)'
  <2>1. n # c /\ n # p /\ n \notin live
    BY <1>0, <1>3, AppendsEffect
  <2>2. n # tail[p]
    BY <1>0, <1>3, <2>1, AppendsEffect DEF Linked
  <2>3. QED
    BY <1>0, <1>3, <1>b, <2>1, <2>2, AppendsEffect
<1>4. ASSUME NEW p \in Node, NEW c \in Node, Prepends(p, c) PROVE Blank!(n)'
  <2>1. n # c /\ n # p /\ n \notin live
    BY <1>0, <1>4, PrependsEffect
  <2>2. n # head[p]
    BY <1>0, <1>4, <2>1, PrependsEffect DEF Linked
  <2>3. QED
    BY <1>0, <1>4, <1>b, <2>1, <2>2, PrependsEffect
<1>5. ASSUME NEW k \in Node, Unlinks(k) PROVE Blank!(n)'
  <2>1. n # k /\ n \notin live /\ k \in live /\ parent[k] # NULL
    BY <1>0, <1>5, UnlinksEffect
  <2>2. n # parent[k] /\ n # next[k] /\ n # prev[k]
    BY <1>0, <2>1 DEF Linked
  <2>3. QED
    BY <1>0, <1>5, <1>b, <2>1, <2>2, UnlinksEffect
<1>6. ASSUME NEW k \in Node, Frees(k) PROVE Blank!(n)'
  <2>1. UNCHANGED <<parent, prev, next, head, tail>> /\ n \in Node /\ (n \notin live \/ n = k)
    BY <1>6 DEF Frees, links
  <2>2. k \in live /\ parent[k] = NULL /\ head[k] = NULL
    BY <1>6 DEF Frees
  <2>3. prev[k] = NULL /\ next[k] = NULL /\ tail[k] = NULL
    BY <1>0, <2>2 DEF Linked
  <2>4. QED
    BY <1>b, <2>1, <2>2, <2>3
<1>7. QED
  BY <1>1, <1>2, <1>3, <1>4, <1>5, <1>6 DEF LinkStep

\* A node is attached to one that it is not an ancestor of: a set of nodes without
\* those above the parent has a node whose parent is outside, or is all above it.
LEMMA NoCycleStep == IInv /\ TreeInv /\ LinkStep => NoCycle'
<1> SUFFICES ASSUME IInv, TreeInv, LinkStep, NEW X \in SUBSET live', X # {}
             PROVE  \E n \in X : parent'[n] \notin X
  BY DEF NoCycle
<1>0. Pointers /\ Linked /\ live \subseteq Node /\ NULL \notin Node /\ AboveFacts
  BY TypeParts, NullAssumption, AboveIsClosed DEF IInv, Pointers
<1>c. \A Y \in SUBSET live : Y # {} => \E n \in Y : parent[n] \notin Y
  BY DEF TreeInv, NoCycle
<1>1. CASE Rests
  BY <1>1, <1>c DEF Rests, links
<1>2. ASSUME NEW c \in Node, Makes(c) PROVE \E n \in X : parent'[n] \notin X
  <2>1. CASE c \in X
    <3>1. parent'[c] = NULL /\ NULL \notin X
      BY <1>0, <1>2, MakesEffect
    <3>2. QED
      BY <2>1, <3>1
  <2>2. CASE c \notin X
    <3>1. X \in SUBSET live
      BY <1>0, <1>2, <2>2, MakesEffect
    <3>2. PICK n \in X : parent[n] \notin X
      BY <1>c, <3>1
    <3>3. parent'[n] = parent[n]
      BY <1>0, <1>2, <2>2, <3>1, MakesEffect
    <3>4. QED
      BY <3>2, <3>3
  <2>3. QED
    BY <2>1, <2>2
<1>3. ASSUME NEW p \in Node, NEW c \in Node, Appends(p, c) \/ Prepends(p, c)
      PROVE  \E n \in X : parent'[n] \notin X
  <2>1. /\ live' = live /\ c \notin Above(p)
        /\ \A m \in Node : parent'[m] = IF m = c THEN p ELSE parent[m]
    BY <1>0, <1>3, AppendsEffect, PrependsEffect
  <2>2. X \in SUBSET live /\ X \subseteq Node
    BY <1>0, <2>1
  <2>3. CASE c \notin X
    BY <1>c, <2>1, <2>2, <2>3
  <2>4. CASE c \in X /\ p \notin X
    BY <2>1, <2>2, <2>4
  <2>5. CASE c \in X /\ p \in X
    <3> DEFINE Y == X \cap Above(p)
    <3>1. p \in Y /\ Y \in SUBSET live
      BY <1>0, <2>2, <2>5 DEF AboveFacts
    <3>2. PICK n \in Y : parent[n] \notin Y
      BY <1>c, <3>1
    <3>3. n # c /\ n \in Node
      BY <2>1, <2>2, <3>2
    <3>4. parent[n] \notin X
      <4>1. parent[n] # NULL => parent[n] \in Above(p)
        BY <1>0, <3>2 DEF AboveFacts
      <4>2. NULL \notin X
        BY <1>0, <2>2
      <4>3. QED
        BY <3>2, <4>1, <4>2
    <3>5. QED
      BY <2>1, <3>2, <3>3, <3>4
  <2>6. QED
    BY <2>3, <2>4, <2>5
<1>4. ASSUME NEW k \in Node, Unlinks(k) PROVE \E n \in X : parent'[n] \notin X
  <2>1. /\ live' = live
        /\ \A m \in Node : parent'[m] = IF m = k THEN NULL ELSE parent[m]
    BY <1>0, <1>4, UnlinksEffect
  <2>2. PICK n \in X : parent[n] \notin X
    BY <1>c, <2>1
  <2>3. n \in Node /\ NULL \notin X
    BY <1>0, <2>1
  <2>4. QED
    BY <2>1, <2>2, <2>3
<1>5. ASSUME NEW k \in Node, Frees(k) PROVE \E n \in X : parent'[n] \notin X
  BY <1>5, <1>c DEF Frees, links
<1>6. QED
  BY <1>1, <1>2, <1>3, <1>4, <1>5 DEF LinkStep

LEMMA TreeInvHolds == Spec => []TreeInv
<1>1. Init => TreeInv
  BY DEF Init, TreeInv, Blank, NoCycle
<1>2. IInv /\ TreeInv /\ [Next]_vars => TreeInv'
  BY NextIsLinkStep, BlankStep, NoCycleStep DEF TreeInv
<1>3. QED
  BY <1>1, <1>2, InvHolds, PTL DEF Spec

-----------------------------------------------------------------------------
(* json_delete frees the tree below its argument, and only that. *)

\* What is left of the tree: what hangs on a node of it is of it, and so is the
\* parent of a node of it; its roots are the nodes of the calls.
Doomed ==
  mode = "delete" =>
    /\ \A i \in DOMAIN stack : stack[i].node \in subject
    /\ \A s \in live : parent[s] # NULL => (parent[s] \in subject <=> s \in subject)
    /\ \A s \in live : s \in subject /\ parent[s] = NULL => \E i \in DOMAIN stack : stack[i].node = s

LEMMA DoomedStep == IInv /\ TreeInv /\ Doomed /\ [Next]_vars => Doomed'
<1> SUFFICES ASSUME IInv, TreeInv, Doomed, [Next]_vars, mode' = "delete"
             PROVE  /\ \A i \in DOMAIN stack' : stack'[i].node \in subject'
                    /\ \A s \in live' : parent'[s] # NULL => (parent'[s] \in subject' <=> s \in subject')
                    /\ \A s \in live' : s \in subject' /\ parent'[s] = NULL =>
                         \E i \in DOMAIN stack' : stack'[i].node = s
  BY DEF Doomed
<1>0. Pointers /\ Linked /\ NoRing /\ live \subseteq Node /\ NULL \notin Node /\ AboveFacts
  BY TypeParts, NullAssumption, AboveIsClosed DEF IInv, Pointers
<1>1. ASSUME NEW n \in Node, json_delete(n) PROVE Doomed'
  <2>1. /\ n \in live /\ live' = live /\ subject' = {s \in live : n \in Above(s)}
        /\ json_remove_from_parent(n)
    BY <1>1 DEF json_delete, Begin
  <2>2. \A m \in Node : parent'[m] = IF m = n THEN NULL ELSE parent[m]
    BY <1>0, <2>1, RemoveLinks
  <2>3. DOMAIN stack' = {1} /\ stack'[1].node = n
    BY <1>1 DEF json_delete, Frame
  <2>4. n \in subject'
    BY <1>0, <2>1 DEF AboveFacts
  <2>5. ASSUME NEW s \in live, parent'[s] # NULL PROVE parent'[s] \in subject' <=> s \in subject'
    <3>1. s \in Node /\ s # n /\ parent'[s] = parent[s]
      BY <1>0, <2>2, <2>5
    <3>2. parent[s] \in live /\ Above(s) = {s} \cup Above(parent[s])
      BY <1>0, <2>5, <3>1 DEF Linked, AboveFacts
    <3>3. QED
      BY <2>1, <3>1, <3>2
  <2>6. ASSUME NEW s \in live, s \in subject', parent'[s] = NULL PROVE s = n
    <3>1. s # n => parent[s] = NULL
      BY <1>0, <2>2, <2>6
    <3>2. QED
      BY <1>0, <2>1, <2>6, <3>1 DEF AboveFacts
  <2>7. QED
    BY <2>1, <2>3, <2>4, <2>5, <2>6 DEF Doomed
<1>2. CASE DeleteChild
  <2> DEFINE n == Top.child
             p == Top.node
  <2>1. mode = "delete" /\ n = head[p] /\ n # NULL /\ p \in live /\ p \in subject
    BY <1>2, TopFrame DEF DeleteChild, Doomed
  <2>2. n \in live /\ n \in Node /\ parent[n] = p /\ p # NULL
    BY <1>0, <2>1 DEF Linked
  <2>3. n \in subject
    BY <2>1, <2>2 DEF Doomed
  <2>4. live' = live /\ subject' = subject /\ json_remove_from_parent(n)
    BY <1>2 DEF DeleteChild, hist
  <2>5. \A m \in Node : parent'[m] = IF m = n THEN NULL ELSE parent[m]
    BY <1>0, <2>2, <2>4, RemoveLinks
  <2>6. /\ \A i \in DOMAIN stack : i \in DOMAIN stack' /\ stack'[i].node = stack[i].node
        /\ \A i \in DOMAIN stack' : i \in DOMAIN stack \/ stack'[i].node = n
        /\ \E i \in DOMAIN stack' : stack'[i].node = n
    <3> DEFINE f == [node |-> p, child |-> next[n]]
               g == [node |-> n, child |-> head'[n]]
               t == [stack EXCEPT ![Len(stack)] = f]
    <3>1. stack \in Seq(Call) /\ stack # << >> /\ p = stack[Len(stack)].node /\ p \in Node
      BY <1>0, <2>1, TopFrame
    <3>2. f \in Call /\ g \in Call
      <4>1. Pointers'
        BY <1>0, <2>2, <2>4, RemoveLinks
      <4>2. next[n] \in Ptr /\ head'[n] \in Ptr
        BY <1>0, <2>2, <4>1 DEF Pointers
      <4>3. QED
        BY <2>2, <3>1, <4>2 DEF Call
    <3>3. /\ t \in Seq(Call) /\ Len(t) = Len(stack)
          /\ \A i \in 1 .. Len(stack) : t[i] = IF i = Len(stack) THEN f ELSE stack[i]
      BY <3>1, <3>2, Replaced
    <3>4. stack' = Append(t, g)
      BY <1>2 DEF DeleteChild, Ahead, Frame
    <3>5. f.node = p /\ g.node = n
      OBVIOUS
    <3> HIDE DEF f, g, t
    <3>6. /\ DOMAIN stack' = 1 .. Len(stack) + 1
          /\ \A i \in 1 .. Len(stack) : stack'[i] = t[i]
          /\ stack'[Len(stack) + 1] = g
      BY <3>2, <3>3, <3>4, Pushed
    <3>7. Len(stack) \in Nat /\ DOMAIN stack = 1 .. Len(stack)
      BY <3>1
    <3>8. \A l \in Nat : l + 1 \in 1 .. l + 1 /\ \A k \in 1 .. l + 1 : k \in 1 .. l \/ k = l + 1
      OBVIOUS
    <3>9. \A l \in Nat : \A k \in 1 .. l : k \in 1 .. l + 1
      OBVIOUS
    <3>10. \A i \in 1 .. Len(stack) : stack'[i].node = stack[i].node
      BY <3>1, <3>3, <3>5, <3>6
    <3>11. QED
      BY <3>5, <3>6, <3>7, <3>8, <3>9, <3>10
  <2> HIDE DEF n, p
  <2>7. \A i \in DOMAIN stack' : stack'[i].node \in subject
    BY <2>1, <2>3, <2>6 DEF Doomed
  <2>8. ASSUME NEW s \in live, parent'[s] # NULL PROVE parent'[s] \in subject <=> s \in subject
    BY <1>0, <2>1, <2>5, <2>8 DEF Doomed
  <2>9. ASSUME NEW s \in live, s \in subject, parent'[s] = NULL
        PROVE  \E i \in DOMAIN stack' : stack'[i].node = s
    <3>1. CASE s = n
      BY <2>6, <3>1
    <3>2. CASE s # n
      <4>1. parent[s] = NULL
        BY <1>0, <2>5, <2>9, <3>2
      <4>2. QED
        BY <2>1, <2>6, <2>9, <4>1 DEF Doomed
    <3>3. QED
      BY <3>1, <3>2
  <2>10. QED
    BY <2>4, <2>7, <2>8, <2>9 DEF Doomed
<1>3. CASE DeleteFree
  <2> DEFINE n == Top.node
  <2>1. mode = "delete" /\ live' = live \ {n} /\ parent' = parent
    BY <1>3 DEF DeleteFree, Free, links
  <2>2. Len(stack) # 1 /\ stack' = SubSeq(stack, 1, Len(stack) - 1) /\ subject' = subject
    BY <1>3 DEF DeleteFree, Return, Callers
  <2>3. /\ stack \in Seq(Call) /\ stack # << >>
        /\ n = stack[Len(stack)].node
    BY <2>1, TopFrame
  <2>4. /\ DOMAIN stack' = 1 .. Len(stack) - 1
        /\ \A i \in 1 .. Len(stack) - 1 : stack'[i] = stack[i]
    BY <2>2, <2>3, Popped
  <2>5. Len(stack) \in Nat /\ DOMAIN stack = 1 .. Len(stack)
    BY <2>3
  <2>6. \A l \in Nat : \A i \in 1 .. l : i \in 1 .. l - 1 \/ i = l
    OBVIOUS
  <2>7. \A l \in Nat : \A i \in 1 .. l - 1 : i \in 1 .. l
    OBVIOUS
  <2>8. /\ \A i \in DOMAIN stack' : i \in DOMAIN stack /\ stack'[i] = stack[i]
        /\ \A i \in DOMAIN stack : i \in DOMAIN stack' \/ stack[i].node = n
    BY <2>3, <2>4, <2>5, <2>6, <2>7
  <2> HIDE DEF n
  <2>9. \A i \in DOMAIN stack' : stack'[i].node \in subject
    BY <2>1, <2>8 DEF Doomed
  <2>10. \A s \in live' : parent[s] # NULL => (parent[s] \in subject <=> s \in subject)
    BY <2>1 DEF Doomed
  <2>11. ASSUME NEW s \in live', s \in subject, parent[s] = NULL
         PROVE  \E i \in DOMAIN stack' : stack'[i].node = s
    <3>1. PICK i \in DOMAIN stack : stack[i].node = s
      BY <2>1, <2>11 DEF Doomed
    <3>2. i \in DOMAIN stack'
      BY <2>1, <2>8, <3>1
    <3>3. QED
      BY <2>8, <3>1, <3>2
  <2>12. QED
    BY <2>1, <2>2, <2>9, <2>10, <2>11 DEF Doomed
<1>4. CASE UNCHANGED vars
  BY <1>4 DEF vars, links, hist, Doomed
<1>5. ASSUME ~(UNCHANGED vars), ~DeleteChild, ~DeleteFree, \A n \in Node : ~json_delete(n)
      PROVE  FALSE
  <2>1. mode' # "delete"
    BY <1>5 DEF Next, Make, json_append_element, json_prepend_element, json_append_member,
      json_prepend_member, CanAttach, RemoveNode, Building, json_mkcopy, Begin,
      CopyChild, CopyReturn, CopyEnd, CopyExits, Return
  <2>2. QED
    BY <2>1
<1>6. QED
  BY <1>1, <1>2, <1>3, <1>4, <1>5 DEF Doomed

\* The last free leaves nothing of the tree: a set of live nodes of it would
\* have one without a parent in it, and the only root was freed.
LEMMA LastFree ==
  ASSUME IInv, TreeInv, Doomed, DeleteFree, Len(stack) = 1
  PROVE  live' \cap subject = {}
<1>0. Pointers /\ Linked /\ NoRing /\ live \subseteq Node /\ NULL \notin Node
  BY TypeParts, NullAssumption DEF IInv, Pointers
<1> DEFINE n == Top.node
           X == live' \cap subject
<1>1. mode = "delete" /\ live' = live \ {n} /\ head[n] = NULL /\ n \in live
  BY TopFrame DEF DeleteFree, Free
<1>2. \A i \in DOMAIN stack : stack[i].node = n
  <2>1. stack \in Seq(Call) /\ Top = stack[Len(stack)]
    BY <1>1, TopFrame
  <2>2. DOMAIN stack = 1 .. 1
    BY <2>1
  <2>3. QED
    BY <2>1, <2>2
<1> HIDE DEF n
<1>3. SUFFICES ASSUME X # {} PROVE FALSE
  OBVIOUS
<1>4. PICK s \in X : parent[s] \notin X
  BY <1>1, <1>3 DEF TreeInv, NoCycle
<1>5. CASE parent[s] = NULL
  BY <1>1, <1>2, <1>4, <1>5 DEF Doomed
<1>6. CASE parent[s] # NULL
  <2>0. s \in live /\ s \in subject
    BY <1>1, <1>4
  <2>1. parent[s] \in live /\ parent[s] \in subject
    BY <1>0, <1>1, <1>6, <2>0 DEF Linked, Doomed
  <2>2. parent[s] = n
    BY <1>1, <1>4, <2>1
  <2>3. QED
    BY <1>0, <1>1, <2>0, <2>2, NoHeadNoChild
<1>7. QED
  BY <1>5, <1>6

\* json_delete frees every node of the tree below its argument, however it is
\* built, and no other.
THEOREM DeletesTreeHolds == Spec => DeletesTree
<1>1. IInv /\ TreeInv /\ Doomed /\ [Next]_vars =>
        [mode = "delete" => /\ live \ live' \subseteq subject
                            /\ mode' = "idle" => live' \cap subject = {}]_vars
  <2> SUFFICES ASSUME IInv, TreeInv, Doomed, [Next]_vars, mode = "delete", ~(UNCHANGED vars)
               PROVE  /\ live \ live' \subseteq subject
                      /\ mode' = "idle" => live' \cap subject = {}
    OBVIOUS
  <2>1. DeleteChild \/ DeleteFree
    BY DEF Next, Make, json_append_element, json_prepend_element, json_append_member,
      json_prepend_member, CanAttach, RemoveNode, Building, json_delete, json_mkcopy, Begin,
      CopyChild, CopyReturn, CopyEnd, CopyExits
  <2>2. CASE DeleteChild
    BY <2>2 DEF DeleteChild
  <2>3. CASE DeleteFree
    <3>1. live' = live \ {Top.node}
      BY <2>3 DEF DeleteFree, Free
    <3>2. Top.node \in subject
      BY TopFrame DEF Doomed
    <3>3. mode' = "idle" => Len(stack) = 1
      BY <2>3 DEF DeleteFree
    <3>4. QED
      BY <2>3, <3>1, <3>2, <3>3, LastFree
  <2>4. QED
    BY <2>1, <2>2, <2>3
<1>2. Init => Doomed
  BY DEF Init, Doomed
<1>3. QED
  BY <1>1, <1>2, DoomedStep, InvHolds, TreeInvHolds, PTL DEF Spec, DeletesTree

-----------------------------------------------------------------------------
(* Lists of siblings.  Each of both directions along a list has an end.    *)

Ends(s) == \A X \in SUBSET Node : X # {} => \E n \in X : s[n] \notin X

LEMMA PrevEnds == IInv /\ TreeInv => Ends(prev)
<1> SUFFICES ASSUME IInv, TreeInv, NEW X \in SUBSET Node, X # {}
             PROVE  \E n \in X : prev[n] \notin X
  BY DEF Ends
<1>1. NULL \notin X
  BY NullAssumption
<1>2. CASE X \subseteq live
  BY <1>2 DEF IInv, NoRing
<1>3. CASE ~ (X \subseteq live)
  BY <1>1, <1>3 DEF TreeInv, Blank
<1>4. QED
  BY <1>2, <1>3

\* If X is closed under next, so is the set B of what is before X or in it.  The
\* first child of the parent is in B, then, and the last is not, so there is a
\* first one that is not; but what is before it is in B or is nothing.
LEMMA NextEnds == IInv /\ TreeInv => Ends(next)
<1> SUFFICES ASSUME IInv, TreeInv, NEW X \in SUBSET Node, X # {}, \A n \in X : next[n] \in X
             PROVE  FALSE
  BY DEF Ends
<1>0. Pointers /\ Linked /\ NoRing /\ live \subseteq Node /\ NULL \notin Node
  BY TypeParts, NullAssumption DEF IInv, Pointers
<1>1. X \subseteq live
  BY <1>0 DEF TreeInv, Blank
<1> DEFINE Closed(S) == \A s \in S : prev[s] # NULL => prev[s] \in S
           B == {b \in live : \A S \in SUBSET live : X \subseteq S /\ Closed(S) => b \in S}
<1>2. X \subseteq B
  BY <1>1
<1>3. Closed(B)
  <2>1. SUFFICES ASSUME NEW b \in B, prev[b] # NULL,
                        NEW S \in SUBSET live, X \subseteq S, Closed(S)
                 PROVE  prev[b] \in live /\ prev[b] \in S
    BY <1>0 DEF Linked
  <2>2. b \in S
    BY <2>1
  <2>3. QED
    BY <2>1, <2>2
<1>4. \A b \in B : next[b] \in B
  <2> DEFINE S == {b \in B : next[b] \in B}
  <2>1. X \subseteq S
    BY <1>2
  <2>2. Closed(S)
    <3>1. SUFFICES ASSUME NEW b \in S, prev[b] # NULL PROVE prev[b] \in S
      OBVIOUS
    <3>2. prev[b] \in B /\ next[prev[b]] = b
      BY <1>0, <1>3, <3>1 DEF Linked
    <3>3. QED
      BY <3>2
  <2>3. S \in SUBSET live
    OBVIOUS
  <2>4. B \subseteq S
    BY <2>1, <2>2, <2>3
  <2>5. QED
    BY <2>4
<1>5. B \subseteq live
  OBVIOUS
<1> HIDE DEF B
<1>6. PICK x \in B : TRUE
  BY <1>2
<1> DEFINE W == {w \in live : parent[w] = parent[x]}
<1>7. x \in live /\ x \in Node /\ parent[x] # NULL /\ parent[x] \in live
  <2>1. x \in live /\ x \in Node
    BY <1>0, <1>5, <1>6
  <2>2. next[x] # NULL
    BY <1>0, <1>4, <1>5, <1>6
  <2>3. QED
    BY <1>0, <2>1, <2>2 DEF Linked
<1>8. PICK b \in W \cap B : prev[b] \notin W \cap B
  <2>1. x \in W \cap B /\ W \cap B \in SUBSET live
    BY <1>6, <1>7
  <2>2. QED
    BY <1>0, <2>1 DEF NoRing
<1>9. head[parent[x]] = b
  <2>1. prev[b] = NULL
    BY <1>0, <1>3, <1>8 DEF Linked
  <2>2. QED
    BY <1>0, <1>7, <1>8, <2>1 DEF Linked
<1>10. tail[parent[x]] \in W \ B
  <2>1. head[parent[x]] # NULL
    BY <1>0, <1>8, <1>9
  <2>2. tail[parent[x]] # NULL
    BY <1>0, <1>7, <2>1 DEF Linked
  <2>3. tail[parent[x]] \in W
    BY <1>0, <1>7, <2>2 DEF Linked
  <2>4. next[tail[parent[x]]] = NULL
    BY <1>0, <1>7, <2>3 DEF Linked
  <2>5. QED
    BY <1>0, <1>4, <1>5, <2>3, <2>4
<1>11. PICK w \in W \ B : prev[w] \notin W \ B
  BY <1>0, <1>10 DEF NoRing
<1>12. prev[w] # NULL => prev[w] \in B /\ next[prev[w]] = w
  BY <1>0, <1>11 DEF Linked
<1>13. prev[w] = NULL
  BY <1>4, <1>11, <1>12
<1>14. head[parent[x]] = w
  BY <1>0, <1>7, <1>11, <1>13 DEF Linked
<1>15. QED
  BY <1>8, <1>9, <1>11, <1>14

\* f has the result e at the end, and c of a node and the result for the next one.
Recurs(f, R, e, c, s) ==
  f \in [Ptr -> R] /\ f[NULL] = e /\ \A m \in Node : f[m] = c[<<m, f[s[m]]>>]

\* A recursive function along pointers that come to an end exists: the least set
\* of arguments with results has one result for each argument.
LEMMA RecursionAlong ==
  ASSUME NEW R, NEW e \in R, NEW c \in [Node \X R -> R],
         NEW s \in [Node -> Ptr], Ends(s)
  PROVE  \E f : Recurs(f, R, e, c, s)
<1> DEFINE Closed(S) == /\ <<NULL, e>> \in S
                        /\ \A m \in Node, r \in R : <<s[m], r>> \in S => <<m, c[<<m, r>>]>> \in S
           G == {x \in Ptr \X R : \A S \in SUBSET (Ptr \X R) : Closed(S) => x \in S}
<1>0. NULL \notin Node /\ Ptr = Node \cup {NULL} /\ \A m \in Node : s[m] \in Ptr
  BY NullAssumption DEF Ptr
<1>1. \A m \in Node, r \in R : c[<<m, r>>] \in R
  OBVIOUS
<1>2. Closed(G)
  <2>1. <<NULL, e>> \in G
    BY <1>0
  <2>2. ASSUME NEW m \in Node, NEW r \in R, <<s[m], r>> \in G PROVE <<m, c[<<m, r>>]>> \in G
    <3>1. <<m, c[<<m, r>>]>> \in Ptr \X R
      BY <1>0, <1>1
    <3>2. ASSUME NEW S \in SUBSET (Ptr \X R), Closed(S) PROVE <<m, c[<<m, r>>]>> \in S
      <4>1. <<s[m], r>> \in S
        BY <2>2, <3>2
      <4>2. QED
        BY <3>2, <4>1
    <3>3. QED
      BY <3>1, <3>2
  <2>3. QED
    BY <2>1, <2>2
<1>3. \A S \in SUBSET (Ptr \X R) : Closed(S) => G \subseteq S
  OBVIOUS
<1>4. G \subseteq Ptr \X R
  OBVIOUS
<1> HIDE DEF G
<1>5. \A r \in R : <<NULL, r>> \in G => r = e
  <2> DEFINE S == {x \in G : x[1] = NULL => x[2] = e}
  <2>1. <<NULL, e>> \in S
    BY <1>2
  <2>2. ASSUME NEW m \in Node, NEW r \in R, <<s[m], r>> \in S PROVE <<m, c[<<m, r>>]>> \in S
    BY <1>0, <1>2, <2>2
  <2>3. G \subseteq S
    BY <1>3, <1>4, <2>1, <2>2
  <2>4. QED
    BY <2>3
<1>6. \A m \in Node : \A q \in R :
        <<s[m], q>> \in G /\ (\A r \in R : <<s[m], r>> \in G => r = q) =>
          \A r \in R : <<m, r>> \in G => r = c[<<m, q>>]
  <2> SUFFICES ASSUME NEW m \in Node, NEW q \in R, <<s[m], q>> \in G,
                      \A r \in R : <<s[m], r>> \in G => r = q
               PROVE  \A r \in R : <<m, r>> \in G => r = c[<<m, q>>]
    OBVIOUS
  <2> DEFINE S == {x \in G : x[1] = m => x[2] = c[<<m, q>>]}
  <2>1. <<NULL, e>> \in S
    BY <1>0, <1>2
  <2>2. ASSUME NEW k \in Node, NEW r \in R, <<s[k], r>> \in S PROVE <<k, c[<<k, r>>]>> \in S
    <3>1. <<s[k], r>> \in G /\ <<k, c[<<k, r>>]>> \in G
      BY <1>2, <2>2
    <3>2. k = m => r = q
      BY <3>1
    <3>3. QED
      BY <3>1, <3>2
  <2>3. G \subseteq S
    BY <1>3, <1>4, <2>1, <2>2
  <2>4. QED
    BY <2>3
<1> DEFINE One(m) == \E q \in R : <<m, q>> \in G /\ \A r \in R : <<m, r>> \in G => r = q
<1>7. One(NULL)
  BY <1>2, <1>5
<1>8. \A m \in Node : One(s[m]) => One(m)
  <2> SUFFICES ASSUME NEW m \in Node, One(s[m]) PROVE One(m)
    OBVIOUS
  <2>1. PICK q \in R : <<s[m], q>> \in G /\ \A r \in R : <<s[m], r>> \in G => r = q
    OBVIOUS
  <2>2. c[<<m, q>>] \in R /\ <<m, c[<<m, q>>]>> \in G
    BY <1>1, <1>2, <2>1
  <2>3. \A r \in R : <<m, r>> \in G => r = c[<<m, q>>]
    BY <1>6, <2>1
  <2>4. QED
    BY <2>2, <2>3
<1>9. \A m \in Ptr : One(m)
  <2> DEFINE X == {m \in Node : ~One(m)}
  <2>1. SUFFICES ASSUME X # {} PROVE FALSE
    BY <1>0, <1>7
  <2>2. PICK n \in X : s[n] \notin X
    BY <2>1 DEF Ends
  <2>3. One(s[n])
    BY <1>0, <1>7, <2>2
  <2>4. QED
    BY <1>8, <2>2, <2>3
<1> DEFINE f == [m \in Ptr |-> CHOOSE q \in R : <<m, q>> \in G]
<1>10. \A m \in Ptr : f[m] \in R /\ <<m, f[m]>> \in G
  BY <1>9
<1>11. f[NULL] = e
  BY <1>0, <1>5, <1>10
<1>12. \A m \in Node : f[m] = c[<<m, f[s[m]]>>]
  <2> SUFFICES ASSUME NEW m \in Node PROVE f[m] = c[<<m, f[s[m]]>>]
    OBVIOUS
  <2>1. m \in Ptr /\ s[m] \in Ptr
    BY <1>0
  <2>2. f[s[m]] \in R /\ <<s[m], f[s[m]]>> \in G /\ f[m] \in R /\ <<m, f[m]>> \in G
    BY <1>10, <2>1
  <2> HIDE DEF f
  <2>3. \A r \in R : <<s[m], r>> \in G => r = f[s[m]]
    BY <1>9, <2>1, <2>2
  <2>4. QED
    BY <1>6, <2>2, <2>3
<1>13. f \in [Ptr -> R]
  BY <1>10
<1> HIDE DEF f
<1>14. QED
  BY <1>11, <1>12, <1>13 DEF Recurs

\* What the loops meet from a node on, and up to it.
Fwd[m \in Ptr] == IF m = NULL THEN << >> ELSE <<m>> \o Fwd[next[m]]
Bwd[m \in Ptr] == IF m = NULL THEN << >> ELSE Bwd[prev[m]] \o <<m>>

\* The children of a node, in order.
Kids(n) == Fwd[head[n]]

FwdFacts ==
  /\ Fwd[NULL] = << >>
  /\ \A m \in Node : Fwd[m] \in Seq(Node) /\ Fwd[m] = <<m>> \o Fwd[next[m]]

BwdFacts ==
  /\ Bwd[NULL] = << >>
  /\ \A m \in Node : Bwd[m] \in Seq(Node) /\ Bwd[m] = Bwd[prev[m]] \o <<m>>

LEMMA FwdIsList == IInv /\ TreeInv => FwdFacts
<1> SUFFICES ASSUME IInv, TreeInv PROVE FwdFacts
  OBVIOUS
<1>0. /\ next \in [Node -> Ptr] /\ NULL \notin Node /\ Ptr = Node \cup {NULL} /\ Ends(next)
      /\ \A m \in Node : next[m] \in Ptr
  BY NullAssumption, TypeParts, NextEnds DEF IInv, Pointers, Ptr
<1> DEFINE c == [x \in Node \X Seq(Node) |-> <<x[1]>> \o x[2]]
           Is(f) == f = [m \in Ptr |-> IF m = NULL THEN << >> ELSE <<m>> \o f[next[m]]]
<1>1. << >> \in Seq(Node) /\ c \in [Node \X Seq(Node) -> Seq(Node)]
  OBVIOUS
<1>2. \A m \in Node, r \in Seq(Node) : c[<<m, r>>] = <<m>> \o r
  OBVIOUS
<1> HIDE DEF c
<1>3. PICK f \in [Ptr -> Seq(Node)] : f[NULL] = << >> /\ \A m \in Node : f[m] = c[<<m, f[next[m]]>>]
  <2> DEFINE R == Seq(Node)
             e == << >>
  <2>1. e \in R /\ c \in [Node \X R -> R]
    BY <1>1
  <2> HIDE DEF R, e
  <2>2. PICK f : Recurs(f, R, e, c, next)
    BY <1>0, <2>1, RecursionAlong
  <2>3. QED
    BY <2>2 DEF R, e, Recurs
<1>4. \A m \in Node : f[m] = <<m>> \o f[next[m]]
  BY <1>0, <1>2, <1>3
<1>5. Is(f)
  BY <1>0, <1>3, <1>4
<1>6. Is(Fwd)
  BY <1>5 DEF Fwd
<1> HIDE DEF Fwd
<1>7. Fwd[NULL] = << >> /\ \A m \in Node : Fwd[m] = <<m>> \o Fwd[next[m]]
  BY <1>0, <1>6
<1>8. \A m \in Node : Fwd[m] \in Seq(Node)
  <2> DEFINE X == {m \in Node : Fwd[m] \notin Seq(Node)}
  <2>1. SUFFICES ASSUME X # {} PROVE FALSE
    OBVIOUS
  <2>2. PICK n \in X : next[n] \notin X
    BY <1>0, <2>1 DEF Ends
  <2>3. Fwd[next[n]] \in Seq(Node)
    BY <1>0, <1>1, <1>7, <2>2
  <2>4. <<n>> \o Fwd[next[n]] \in Seq(Node)
    BY <2>2, <2>3
  <2>5. QED
    BY <1>7, <2>2, <2>4
<1>9. QED
  BY <1>7, <1>8 DEF FwdFacts

LEMMA BwdIsList == IInv /\ TreeInv => BwdFacts
<1> SUFFICES ASSUME IInv, TreeInv PROVE BwdFacts
  OBVIOUS
<1>0. /\ prev \in [Node -> Ptr] /\ NULL \notin Node /\ Ptr = Node \cup {NULL} /\ Ends(prev)
      /\ \A m \in Node : prev[m] \in Ptr
  BY NullAssumption, TypeParts, PrevEnds DEF IInv, Pointers, Ptr
<1> DEFINE c == [x \in Node \X Seq(Node) |-> x[2] \o <<x[1]>>]
           Is(f) == f = [m \in Ptr |-> IF m = NULL THEN << >> ELSE f[prev[m]] \o <<m>>]
<1>1. << >> \in Seq(Node) /\ c \in [Node \X Seq(Node) -> Seq(Node)]
  OBVIOUS
<1>2. \A m \in Node, r \in Seq(Node) : c[<<m, r>>] = r \o <<m>>
  OBVIOUS
<1> HIDE DEF c
<1>3. PICK f \in [Ptr -> Seq(Node)] : f[NULL] = << >> /\ \A m \in Node : f[m] = c[<<m, f[prev[m]]>>]
  <2> DEFINE R == Seq(Node)
             e == << >>
  <2>1. e \in R /\ c \in [Node \X R -> R]
    BY <1>1
  <2> HIDE DEF R, e
  <2>2. PICK f : Recurs(f, R, e, c, prev)
    BY <1>0, <2>1, RecursionAlong
  <2>3. QED
    BY <2>2 DEF R, e, Recurs
<1>4. \A m \in Node : f[m] = f[prev[m]] \o <<m>>
  BY <1>0, <1>2, <1>3
<1>5. Is(f)
  BY <1>0, <1>3, <1>4
<1>6. Is(Bwd)
  BY <1>5 DEF Bwd
<1> HIDE DEF Bwd
<1>7. Bwd[NULL] = << >> /\ \A m \in Node : Bwd[m] = Bwd[prev[m]] \o <<m>>
  BY <1>0, <1>6
<1>8. \A m \in Node : Bwd[m] \in Seq(Node)
  <2> DEFINE X == {m \in Node : Bwd[m] \notin Seq(Node)}
  <2>1. SUFFICES ASSUME X # {} PROVE FALSE
    OBVIOUS
  <2>2. PICK n \in X : prev[n] \notin X
    BY <1>0, <2>1 DEF Ends
  <2>3. Bwd[prev[n]] \in Seq(Node)
    BY <1>0, <1>1, <1>7, <2>2
  <2>4. Bwd[prev[n]] \o <<n>> \in Seq(Node)
    BY <2>2, <2>3
  <2>5. QED
    BY <1>7, <2>2, <2>4
<1>9. QED
  BY <1>7, <1>8 DEF BwdFacts

\* Where an element is in a sequence built around it.
LEMMA HoldsAt ==
  ASSUME NEW s \in Seq(Node), NEW m \in Node, NEW u \in Seq(Node)
  PROVE  LET t == s \o (<<m>> \o u) IN
         /\ Len(s) + 1 \in DOMAIN t /\ t[Len(s) + 1] = m
         /\ SubSeq(t, 1, Len(s)) = s /\ SubSeq(t, Len(s) + 2, Len(t)) = u
<1> DEFINE t == s \o (<<m>> \o u)
           r == <<m>> \o u
<1>1. Len(s) \in Nat /\ Len(u) \in Nat
  OBVIOUS
<1>2. r \in Seq(Node) /\ Len(r) = Len(u) + 1 /\ r[1] = m /\ \A i \in 1 .. Len(u) : r[i + 1] = u[i]
  OBVIOUS
<1>3. /\ t \in Seq(Node) /\ Len(t) = Len(s) + Len(r)
      /\ \A i \in 1 .. Len(s) + Len(r) : t[i] = IF i <= Len(s) THEN s[i] ELSE r[i - Len(s)]
  BY <1>2, ConcatProperties
<1> HIDE DEF r, t
<1>4. Len(s) + 1 \in DOMAIN t /\ t[Len(s) + 1] = m
  BY <1>1, <1>2, <1>3
<1>5. SubSeq(t, 1, Len(s)) = s
  <2>1. /\ SubSeq(t, 1, Len(s)) \in Seq(Node) /\ Len(SubSeq(t, 1, Len(s))) = Len(s)
        /\ \A i \in 1 .. Len(s) : SubSeq(t, 1, Len(s))[i] = t[i]
    BY <1>1, <1>2, <1>3
  <2>2. \A i \in 1 .. Len(s) : SubSeq(t, 1, Len(s))[i] = s[i]
    BY <1>1, <1>2, <1>3, <2>1
  <2>3. QED
    BY <2>1, <2>2
<1>6. SubSeq(t, Len(s) + 2, Len(t)) = u
  <2>1. Len(t) = Len(s) + Len(u) + 1
    BY <1>1, <1>2, <1>3
  <2>2. /\ SubSeq(t, Len(s) + 2, Len(t)) \in Seq(Node) /\ Len(SubSeq(t, Len(s) + 2, Len(t))) = Len(u)
        /\ \A i \in 1 .. Len(u) : SubSeq(t, Len(s) + 2, Len(t))[i] = t[Len(s) + 2 + i - 1]
    BY <1>1, <1>3, <2>1
  <2>3. ASSUME NEW i \in 1 .. Len(u) PROVE t[Len(s) + 2 + i - 1] = u[i]
    <3>1. t[Len(s) + 1 + i] = r[i + 1]
      BY <1>1, <1>2, <1>3
    <3>2. QED
      BY <1>1, <1>2, <3>1
  <2>4. \A a, b \in Seq(Node) : Len(a) = Len(b) /\ (\A i \in 1 .. Len(b) : a[i] = b[i]) => a = b
    OBVIOUS
  <2>5. \A i \in 1 .. Len(u) : SubSeq(t, Len(s) + 2, Len(t))[i] = u[i]
    BY <2>2, <2>3
  <2>6. QED
    BY <2>2, <2>4, <2>5
<1>7. QED
  BY <1>4, <1>5, <1>6 DEF t, r

LEMMA AfterFirst ==
  ASSUME NEW m \in Node, NEW u \in Seq(Node)
  PROVE  \A i \in DOMAIN (<<m>> \o u) :
           (<<m>> \o u)[i] = m \/ \E j \in DOMAIN u : (<<m>> \o u)[i] = u[j]
<1>1. Len(u) \in Nat /\ DOMAIN u = 1 .. Len(u) /\ DOMAIN (<<m>> \o u) = 1 .. Len(u) + 1
  OBVIOUS
<1>2. (<<m>> \o u)[1] = m /\ \A i \in 2 .. Len(u) + 1 : (<<m>> \o u)[i] = u[i - 1]
  OBVIOUS
<1>3. \A i \in 2 .. Len(u) + 1 : i - 1 \in DOMAIN u
  BY <1>1
<1>4. \A i \in 1 .. Len(u) + 1 : i = 1 \/ i \in 2 .. Len(u) + 1
  BY <1>1
<1>5. QED
  BY <1>1, <1>2, <1>3, <1>4

\* The list of children is what is before a child, and what is from it on; it is
\* the same from both ends; and it has the children, and only them.
ListFacts ==
  /\ FwdFacts /\ BwdFacts
  /\ \A n \in Node : Kids(n) \in Seq(Node) /\ Kids(n) = Bwd[tail[n]]
  /\ \A m \in live : parent[m] # NULL =>
       /\ Kids(parent[m]) = Bwd[prev[m]] \o Fwd[m]
       /\ m \in Range(Kids(parent[m]))
  /\ \A n \in Node : \A i \in DOMAIN Kids(n) : Kids(n)[i] \in live /\ parent[Kids(n)[i]] = n

LEMMA ListsHold == IInv /\ TreeInv => ListFacts
<1> SUFFICES ASSUME IInv, TreeInv PROVE ListFacts
  OBVIOUS
<1>0. /\ Pointers /\ Linked /\ live \subseteq Node /\ NULL \notin Node /\ Ptr = Node \cup {NULL}
      /\ FwdFacts /\ BwdFacts /\ Ends(prev) /\ Ends(next)
  BY NullAssumption, TypeParts, PrevEnds, NextEnds, FwdIsList, BwdIsList DEF IInv, Pointers, Ptr
<1>e. << >> \in Seq(Node)
  OBVIOUS
<1>1. \A m \in Ptr : Fwd[m] \in Seq(Node) /\ Bwd[m] \in Seq(Node)
  BY <1>0, <1>e DEF FwdFacts, BwdFacts
<1>b. \A m \in Node \ live : parent[m] = NULL /\ head[m] = NULL /\ tail[m] = NULL /\ next[m] = NULL
  BY DEF TreeInv, Blank
<1>p. \A m \in Node : prev[m] \in Ptr /\ next[m] \in Ptr /\ head[m] \in Ptr /\ tail[m] \in Ptr
  BY <1>0 DEF Pointers
<1>2. \A m \in live : parent[m] # NULL => Kids(parent[m]) = Bwd[prev[m]] \o Fwd[m]
  <2> DEFINE X == {m \in live : parent[m] # NULL /\ Kids(parent[m]) # Bwd[prev[m]] \o Fwd[m]}
  <2>1. SUFFICES ASSUME X # {} PROVE FALSE
    OBVIOUS
  <2>2. PICK m \in X : prev[m] \notin X
    BY <1>0, <2>1 DEF Ends
  <2>3. m \in live /\ m \in Node /\ parent[m] # NULL /\ Kids(parent[m]) # Bwd[prev[m]] \o Fwd[m]
    BY <1>0, <2>2
  <2>4. CASE prev[m] = NULL
    <3>1. Kids(parent[m]) = Fwd[m]
      BY <1>0, <2>3, <2>4 DEF Linked, Kids
    <3>2. Bwd[prev[m]] \o Fwd[m] = Fwd[m]
      BY <1>0, <1>1, <2>3, <2>4, ConcatEmptySeq DEF BwdFacts, FwdFacts
    <3>3. QED
      BY <2>3, <3>1, <3>2
  <2>5. CASE prev[m] # NULL
    <3> DEFINE q == prev[m]
    <3>1. q \in live /\ q \in Node /\ next[q] = m /\ parent[q] = parent[m]
      BY <1>0, <2>3, <2>5 DEF Linked
    <3>2. Kids(parent[m]) = Bwd[prev[q]] \o Fwd[q]
      BY <2>2, <2>3, <3>1
    <3>3. Fwd[q] = <<q>> \o Fwd[m] /\ Bwd[q] = Bwd[prev[q]] \o <<q>>
      BY <1>0, <3>1 DEF FwdFacts, BwdFacts
    <3>4. Bwd[prev[q]] \in Seq(Node) /\ <<q>> \in Seq(Node) /\ Fwd[m] \in Seq(Node)
      BY <1>0, <1>1, <1>p, <2>3, <3>1 DEF FwdFacts
    <3>5. (Bwd[prev[q]] \o <<q>>) \o Fwd[m] = Bwd[prev[q]] \o (<<q>> \o Fwd[m])
      <4>1. \A a, b, d \in Seq(Node) : (a \o b) \o d = a \o (b \o d)
        BY ConcatAssociative
      <4>2. QED
        BY <3>4, <4>1
    <3>6. QED
      BY <2>3, <3>2, <3>3, <3>5
  <2>6. QED
    BY <2>4, <2>5
<1>3. \A n \in Node : Kids(n) \in Seq(Node) /\ Kids(n) = Bwd[tail[n]]
  <2> SUFFICES ASSUME NEW n \in Node PROVE Kids(n) \in Seq(Node) /\ Kids(n) = Bwd[tail[n]]
    OBVIOUS
  <2>1. Kids(n) \in Seq(Node)
    BY <1>1, <1>p DEF Kids
  <2>2. CASE tail[n] = NULL
    <3>1. head[n] = NULL
      BY <1>0, <1>b, <2>2 DEF Linked
    <3>2. QED
      BY <1>0, <2>1, <2>2, <3>1 DEF Kids, FwdFacts, BwdFacts
  <2>3. CASE tail[n] # NULL
    <3> DEFINE q == tail[n]
    <3>1. n \in live
      BY <1>b, <2>3
    <3>2. q \in live /\ q \in Node /\ parent[q] = n /\ n # NULL
      BY <1>0, <2>3, <3>1 DEF Linked
    <3>3. next[q] = NULL
      BY <1>0, <3>2 DEF Linked
    <3>4. Fwd[q] = <<q>> \o << >>
      BY <1>0, <3>2, <3>3 DEF FwdFacts
    <3>5. Fwd[q] = <<q>>
      <4>1. \A x \in Node : <<x>> \o << >> = <<x>>
        BY ConcatEmptySeq
      <4>2. QED
        BY <3>2, <3>4, <4>1
    <3>6. Kids(n) = Bwd[prev[q]] \o <<q>>
      BY <1>2, <3>2, <3>5
    <3>7. QED
      BY <1>0, <2>1, <3>2, <3>6 DEF BwdFacts
  <2>4. QED
    BY <2>2, <2>3
<1>4. \A m \in live : parent[m] # NULL => m \in Range(Kids(parent[m]))
  <2> SUFFICES ASSUME NEW m \in live, parent[m] # NULL PROVE m \in Range(Kids(parent[m]))
    OBVIOUS
  <2> DEFINE s == Bwd[prev[m]]
             u == Fwd[next[m]]
  <2>1. m \in Node /\ s \in Seq(Node) /\ u \in Seq(Node) /\ Fwd[m] = <<m>> \o u
    BY <1>0, <1>1, <1>p DEF FwdFacts
  <2>2. Kids(parent[m]) = s \o (<<m>> \o u)
    BY <1>2, <2>1
  <2> HIDE DEF s, u
  <2>3. Len(s) + 1 \in DOMAIN (s \o (<<m>> \o u)) /\ (s \o (<<m>> \o u))[Len(s) + 1] = m
    BY <2>1, HoldsAt
  <2>4. QED
    BY <2>2, <2>3 DEF Range
<1>5. \A m \in Node : \A i \in DOMAIN Fwd[m] : Fwd[m][i] \in Node /\ parent[Fwd[m][i]] = parent[m]
  <2> DEFINE Same(m) == \A i \in DOMAIN Fwd[m] : Fwd[m][i] \in Node /\ parent[Fwd[m][i]] = parent[m]
             X == {m \in Node : ~ Same(m)}
  <2>1. SUFFICES ASSUME X # {} PROVE FALSE
    OBVIOUS
  <2>2. PICK m \in X : next[m] \notin X
    BY <1>0, <2>1 DEF Ends
  <2>3. m \in Node /\ Fwd[m] = <<m>> \o Fwd[next[m]] /\ Fwd[next[m]] \in Seq(Node)
    BY <1>0, <1>1, <1>p, <2>2 DEF FwdFacts
  <2>4. \A i \in DOMAIN Fwd[next[m]] :
          Fwd[next[m]][i] \in Node /\ parent[Fwd[next[m]][i]] = parent[m]
    <3>1. CASE next[m] = NULL
      BY <1>0, <3>1 DEF FwdFacts
    <3>2. CASE next[m] # NULL
      <4>1. next[m] \in Node /\ parent[next[m]] = parent[m]
        BY <1>0, <1>b, <2>3, <3>2 DEF Linked
      <4>2. QED
        BY <2>2, <4>1
    <3>3. QED
      BY <3>1, <3>2
  <2>5. \A i \in DOMAIN (<<m>> \o Fwd[next[m]]) :
          (<<m>> \o Fwd[next[m]])[i] = m \/ \E j \in DOMAIN Fwd[next[m]] : (<<m>> \o Fwd[next[m]])[i] = Fwd[next[m]][j]
    BY <2>3, AfterFirst
  <2>6. Same(m)
    BY <2>3, <2>4, <2>5
  <2>7. QED
    BY <2>2, <2>6
<1>6. \A n \in Node : \A i \in DOMAIN Kids(n) : Kids(n)[i] \in live /\ parent[Kids(n)[i]] = n
  <2> SUFFICES ASSUME NEW n \in Node, NEW i \in DOMAIN Kids(n)
               PROVE  Kids(n)[i] \in live /\ parent[Kids(n)[i]] = n
    OBVIOUS
  <2>1. head[n] # NULL
    BY <1>0 DEF Kids, FwdFacts
  <2>2. n \in live
    BY <1>b, <2>1
  <2>3. head[n] \in Node /\ parent[head[n]] = n /\ n # NULL
    BY <1>0, <2>1, <2>2 DEF Linked
  <2>4. Kids(n)[i] \in Node /\ parent[Kids(n)[i]] = n
    BY <1>5, <2>3 DEF Kids
  <2>5. QED
    BY <1>b, <2>3, <2>4
<1>7. QED
  BY <1>0, <1>2, <1>3, <1>4, <1>6 DEF ListFacts

-----------------------------------------------------------------------------
(* Keys.  json_mkcopy gives a copy the key of its original before it gives it a *)
(* parent, or none: json_check misses the key of a member of an object never,   *)
(* and meets a key in an array at copies only.                                  *)

\* What the i-th call of json_mkcopy copies.
Original(i) == IF i = 1 THEN arg ELSE stack[i - 1].child

KeysFit ==
  \A c \in live : parent[c] # NULL =>
    /\ tag[parent[c]] = "array" /\ key[c] # NULL => c \in copies
    /\ tag[parent[c]] = "object" => key[c] # NULL

\* A root with a key is a copy, or will be returned to the caller that appends it.
RootKeys ==
  mode # "exited" => \A c \in live :
    parent[c] = NULL /\ key[c] # NULL =>
      c \in copies \/ (mode = "copy" /\ \E i \in DOMAIN stack : stack[i].node = c)

CopyFrames ==
  mode = "copy" =>
    /\ stack[1].node \in copies
    /\ \A i \in DOMAIN stack :
         /\ Original(i) \in live
         /\ tag[stack[i].node] = tag[Original(i)] /\ key[stack[i].node] = key[Original(i)]
         /\ Original(i) \in copies => stack[i].node \in copies
         /\ stack[i].child # NULL =>
              stack[i].child \in live /\ parent[stack[i].child] = Original(i)

KeyInv == KeysFit /\ RootKeys /\ CopyFrames

\* Outside json_mkcopy the frames say nothing, and a root with a key is a copy.
LEMMA KeysOfOthers ==
  ASSUME KeyInv, mode \in {"idle", "delete"}, mode' \in {"idle", "delete"},
         \A c \in live' : parent'[c] # NULL =>
           \/ /\ c \in live /\ parent[c] = parent'[c]
              /\ key'[c] = key[c] /\ tag'[parent[c]] = tag[parent[c]]
           \/ /\ c \in live /\ parent[c] = NULL
              /\ tag'[parent'[c]] = "array" => key'[c] = key[c]
              /\ tag'[parent'[c]] = "object" => key'[c] # NULL,
         \A c \in live' : parent'[c] = NULL =>
           key'[c] = NULL \/ (c \in live /\ parent[c] = NULL /\ key'[c] = key[c]),
         \A c \in live' : c \in copies => c \in copies'
  PROVE  KeyInv'
<1>0. \A c \in live : parent[c] = NULL /\ key[c] # NULL => c \in copies
  <2>1. mode # "copy" /\ mode # "exited"
    OBVIOUS
  <2>2. QED
    BY <2>1 DEF KeyInv, RootKeys
<1>1. KeysFit'
  <2> SUFFICES ASSUME NEW c \in live', parent'[c] # NULL
               PROVE  /\ tag'[parent'[c]] = "array" /\ key'[c] # NULL => c \in copies'
                      /\ tag'[parent'[c]] = "object" => key'[c] # NULL
    BY DEF KeysFit
  <2>1. CASE /\ c \in live /\ parent[c] = parent'[c]
             /\ key'[c] = key[c] /\ tag'[parent[c]] = tag[parent[c]]
    BY <2>1 DEF KeyInv, KeysFit
  <2>2. CASE /\ c \in live /\ parent[c] = NULL
             /\ tag'[parent'[c]] = "array" => key'[c] = key[c]
             /\ tag'[parent'[c]] = "object" => key'[c] # NULL
    BY <1>0, <2>2
  <2>3. QED
    BY <2>1, <2>2
<1>2. RootKeys'
  <2>1. SUFFICES ASSUME NEW c \in live', parent'[c] = NULL, key'[c] # NULL PROVE c \in copies'
    BY DEF RootKeys
  <2>2. c \in live /\ parent[c] = NULL /\ key'[c] = key[c]
    BY <2>1
  <2>3. QED
    BY <1>0, <2>1, <2>2
<1>3. CopyFrames'
  <2>1. mode' # "copy"
    OBVIOUS
  <2>2. QED
    BY <2>1 DEF CopyFrames
<1>4. QED
  BY <1>1, <1>2, <1>3 DEF KeyInv

\* The steps of other functions than json_mkcopy.
LEMMA OtherKeysStep ==
  ASSUME IInv, TreeInv, KeyInv, mode # "copy", mode' # "copy", Next
  PROVE  KeyInv'
<1>0. /\ Pointers /\ Linked /\ NoRing /\ live \subseteq Node /\ NULL \notin Node /\ NULL \notin Name
      /\ tag \in [Node -> {"scalar", "array", "object"}] /\ key \in [Node -> Name \cup {NULL}]
  BY TypeParts, NullAssumption DEF IInv, Pointers, Data
<1>p. \A m \in live : parent[m] # NULL => parent[m] \in live
  BY <1>0 DEF Linked
<1>1. CASE Make
  <2>1. PICK n \in Node, k \in {"scalar", "array", "object"} : mknode(n, k, NULL)
    BY <1>1 DEF Make
  <2>2. /\ n \notin live /\ live' = live \cup {n}
        /\ \A m \in Node : /\ parent'[m] = IF m = n THEN NULL ELSE parent[m]
                           /\ key'[m] = IF m = n THEN NULL ELSE key[m]
                           /\ m # n => tag'[m] = tag[m]
    BY <1>0, <2>1 DEF mknode, Pointers
  <2>3. mode = "idle" /\ mode' = "idle" /\ copies' = copies
    BY <1>1 DEF Make, Building, hist
  <2>4. \A c \in live' : parent'[c] # NULL =>
          /\ c \in live /\ parent[c] = parent'[c]
          /\ key'[c] = key[c] /\ tag'[parent[c]] = tag[parent[c]]
    BY <1>0, <1>p, <2>2
  <2>5. ASSUME NEW c \in live', parent'[c] = NULL
        PROVE  key'[c] = NULL \/ (c \in live /\ parent[c] = NULL /\ key'[c] = key[c])
    BY <1>0, <2>2, <2>5
  <2>6. QED
    BY <2>3, <2>4, <2>5, KeysOfOthers
<1>2. ASSUME NEW p \in Node, NEW c \in Node, json_append_element(p, c) \/ json_prepend_element(p, c)
      PROVE  KeyInv'
  <2>1. /\ mode = "idle" /\ mode' = "idle" /\ copies' = copies /\ live' = live /\ tag' = tag /\ key' = key
        /\ Attaches(p, c) /\ (append_node(p, c) \/ prepend_node(p, c)) /\ tag[p] = "array"
    BY <1>2 DEF json_append_element, json_prepend_element, CanAttach, Attaches, Building, hist
  <2>2. parent[c] = NULL /\ \A m \in Node : parent'[m] = IF m = c THEN p ELSE parent[m]
    BY <1>0, <2>1, AppendsEffect, PrependsEffect DEF Appends, Prepends
  <2>3. \A m \in live' : parent'[m] # NULL =>
           \/ /\ m \in live /\ parent[m] = parent'[m]
              /\ key'[m] = key[m] /\ tag'[parent[m]] = tag[parent[m]]
           \/ /\ m \in live /\ parent[m] = NULL
              /\ tag'[parent'[m]] = "array" => key'[m] = key[m]
              /\ tag'[parent'[m]] = "object" => key'[m] # NULL
    BY <1>0, <2>1, <2>2
  <2>4. \A m \in live' : parent'[m] = NULL =>
           key'[m] = NULL \/ (m \in live /\ parent[m] = NULL /\ key'[m] = key[m])
    BY <1>0, <2>1, <2>2
  <2>5. QED
    BY <2>1, <2>3, <2>4, KeysOfOthers
<1>3. ASSUME NEW p \in Node, NEW c \in Node, NEW k \in Name,
             json_append_member(p, k, c) \/ json_prepend_member(p, k, c)
      PROVE  KeyInv'
  <2>1. /\ mode = "idle" /\ mode' = "idle" /\ copies' = copies /\ live' = live /\ tag' = tag
        /\ key' = Set(key, c, k)
        /\ Attaches(p, c) /\ (append_node(p, c) \/ prepend_node(p, c)) /\ tag[p] = "object"
    BY <1>3 DEF json_append_member, json_prepend_member, CanAttach, Attaches, Building, hist
  <2>2. parent[c] = NULL /\ \A m \in Node : parent'[m] = IF m = c THEN p ELSE parent[m]
    BY <1>0, <2>1, AppendsEffect, PrependsEffect DEF Appends, Prepends
  <2>3. \A m \in Node : key'[m] = IF m = c THEN k ELSE key[m]
    BY <2>1 DEF Set
  <2>4. k # NULL /\ tag[p] # "array"
    BY <1>0, <2>1
  <2>5. \A m \in live' : parent'[m] # NULL =>
           \/ /\ m \in live /\ parent[m] = parent'[m]
              /\ key'[m] = key[m] /\ tag'[parent[m]] = tag[parent[m]]
           \/ /\ m \in live /\ parent[m] = NULL
              /\ tag'[parent'[m]] = "array" => key'[m] = key[m]
              /\ tag'[parent'[m]] = "object" => key'[m] # NULL
    BY <1>0, <2>1, <2>2, <2>3, <2>4
  <2>6. \A m \in live' : parent'[m] = NULL =>
           key'[m] = NULL \/ (m \in live /\ parent[m] = NULL /\ key'[m] = key[m])
    BY <1>0, <2>1, <2>2, <2>3
  <2>7. QED
    BY <2>1, <2>5, <2>6, KeysOfOthers
<1>4. ASSUME NEW n \in live, json_remove_from_parent(n), live' = live, tag' = tag, copies' = copies,
             mode \in {"idle", "delete"}, mode' \in {"idle", "delete"}
      PROVE  KeyInv'
  <2>1. \A m \in Node : parent'[m] = IF m = n THEN NULL ELSE parent[m]
    BY <1>0, <1>4, RemoveLinks
  <2>2. \A m \in Node : key'[m] = IF m = n /\ parent[n] # NULL THEN NULL ELSE key[m]
    BY <1>0, <1>4 DEF json_remove_from_parent, Unlink, Set
  <2>3. \A m \in live' : parent'[m] # NULL =>
          /\ m \in live /\ parent[m] = parent'[m]
          /\ key'[m] = key[m] /\ tag'[parent[m]] = tag[parent[m]]
    BY <1>0, <1>4, <2>1, <2>2
  <2>4. ASSUME NEW m \in live', parent'[m] = NULL
        PROVE  key'[m] = NULL \/ (m \in live /\ parent[m] = NULL /\ key'[m] = key[m])
    BY <1>0, <1>4, <2>1, <2>2, <2>4
  <2>5. QED
    BY <1>4, <2>3, <2>4, KeysOfOthers
<1>5. ASSUME NEW n \in Node, RemoveNode(n) \/ json_delete(n) PROVE KeyInv'
  BY <1>4, <1>5 DEF RemoveNode, Building, json_delete, Begin, hist
<1>6. CASE DeleteChild
  <2>1. Top.child = head[Top.node] /\ Top.node \in live /\ Top.child # NULL /\ mode = "delete"
    BY <1>6, TopFrame DEF DeleteChild
  <2>2. Top.child \in live
    BY <1>0, <2>1 DEF Linked
  <2>3. QED
    BY <1>4, <1>6, <2>1, <2>2 DEF DeleteChild, hist
<1>7. CASE DeleteFree
  <2> DEFINE n == Top.node
  <2>1. mode = "delete" /\ n \in live /\ n \in Node /\ head[n] = NULL /\ mode' \in {"idle", "delete"}
    BY <1>7, TopFrame DEF DeleteFree, Return
  <2>2. live' = live \ {n} /\ copies' = copies \ {n} /\ parent' = parent
    BY <1>7 DEF DeleteFree, Free, links
  <2>3. \A m \in Node : key'[m] = (IF m = n THEN NULL ELSE key[m]) /\ (m # n => tag'[m] = tag[m])
    BY <1>7 DEF DeleteFree, Free, Set
  <2> HIDE DEF n
  <2>4. \A m \in live : parent[m] # n
    BY <1>0, <2>1, NoHeadNoChild
  <2>5. \A m \in live' : parent'[m] # NULL =>
          /\ m \in live /\ parent[m] = parent'[m]
          /\ key'[m] = key[m] /\ tag'[parent[m]] = tag[parent[m]]
    BY <1>0, <1>p, <2>2, <2>3, <2>4
  <2>6. \A m \in live' : parent'[m] = NULL =>
           key'[m] = NULL \/ (m \in live /\ parent[m] = NULL /\ key'[m] = key[m])
    BY <1>0, <2>2, <2>3
  <2>7. QED
    BY <2>1, <2>2, <2>5, <2>6, KeysOfOthers
<1>8. ASSUME NEW n \in Node, json_mkcopy(n) PROVE FALSE
  BY <1>8 DEF json_mkcopy, Begin
<1>9. CASE CopyChild \/ CopyReturn \/ CopyEnd \/ CopyExits
  BY <1>9 DEF CopyChild, CopyReturn, CopyEnd, CopyExits
<1>10. QED
  BY <1>1, <1>2, <1>3, <1>5, <1>6, <1>7, <1>8, <1>9 DEF Next

\* The frames that a step of json_mkcopy leaves.
Grown(c) ==
  /\ mode = "copy" /\ mode' = "copy" /\ UNCHANGED <<arg, subject>>
  /\ Top.child # NULL /\ Top.child \in Node /\ Top = stack[Len(stack)]
  /\ Len(stack) \in Nat \ {0} /\ DOMAIN stack = 1 .. Len(stack)
  /\ mknode(c, tag[Top.child], key[Top.child])
  /\ copies' = IF Top.child \in copies THEN copies \cup {c} ELSE copies
  /\ DOMAIN stack' = 1 .. Len(stack) + 1
  /\ \A i \in 1 .. Len(stack) : stack'[i] = stack[i]
  /\ stack'[Len(stack) + 1].node = c /\ stack'[Len(stack) + 1].child = head[Top.child]

LEMMA CopyChildGrows == IInv /\ CopyChild => \E c \in Node : Grown(c)
<1> SUFFICES ASSUME IInv, CopyChild PROVE \E c \in Node : Grown(c)
  OBVIOUS
<1>1. Pointers /\ mode = "copy" /\ mode' = "copy" /\ UNCHANGED <<arg, subject>> /\ Top.child # NULL
  BY TypeParts DEF IInv, CopyChild
<1>2. stack \in Seq(Call) /\ stack # << >> /\ Top \in Call /\ Top = stack[Len(stack)]
  BY <1>1, TopFrame
<1>3. Len(stack) \in Nat \ {0} /\ DOMAIN stack = 1 .. Len(stack)
  BY <1>2
<1>4. Top.child \in Node
  BY <1>1, <1>2 DEF Call, Ptr
<1>5. PICK c \in Node :
        /\ mknode(c, tag[Top.child], key[Top.child])
        /\ stack' = Append(stack, Frame(c, head[Top.child]))
        /\ copies' = IF Top.child \in copies THEN copies \cup {c} ELSE copies
  BY DEF CopyChild
<1> DEFINE f == [node |-> c, child |-> head[Top.child]]
<1>6. f \in Call /\ f.node = c /\ f.child = head[Top.child]
  BY <1>1, <1>4 DEF Call, Pointers
<1>7. stack' = Append(stack, f)
  BY <1>5 DEF Frame
<1> HIDE DEF f
<1>8. /\ DOMAIN stack' = 1 .. Len(stack) + 1
      /\ \A i \in 1 .. Len(stack) : stack'[i] = stack[i]
      /\ stack'[Len(stack) + 1] = f
  BY <1>2, <1>6, <1>7, Pushed
<1>9. Grown(c)
  BY <1>1, <1>2, <1>3, <1>4, <1>5, <1>6, <1>8 DEF Grown
<1>10. QED
  BY <1>9

Shrunk(l) ==
  /\ mode = "copy" /\ mode' = "copy" /\ UNCHANGED <<live, tag, key, arg, subject, copies>>
  /\ l \in Nat \ {0} /\ l + 1 = Len(stack) /\ DOMAIN stack = 1 .. l + 1 /\ DOMAIN stack' = 1 .. l
  /\ Top = stack[l + 1] /\ Below = stack[l] /\ Top.child = NULL
  /\ Below.child # NULL /\ Below.child \in Node
  /\ \A i \in 1 .. l : stack'[i].node = stack[i].node
  /\ \A i \in 1 .. l - 1 : stack'[i] = stack[i]
  /\ stack'[l].child = next[Below.child]
  /\ Appends(Below.node, Top.node)

LEMMA CopyReturnShrinks == IInv /\ TreeInv /\ CopyReturn => \E l \in Nat : Shrunk(l)
<1> SUFFICES ASSUME IInv, TreeInv, CopyReturn PROVE \E l \in Nat : Shrunk(l)
  OBVIOUS
<1>1. /\ Pointers /\ mode = "copy" /\ mode' = "copy" /\ Len(stack) > 1 /\ Top.child = NULL
      /\ UNCHANGED <<live, tag, key, arg, subject, copies>> /\ AboveFacts
  BY TypeParts, AboveIsClosed DEF IInv, CopyReturn, hist
<1>2. /\ stack \in Seq(Call) /\ stack # << >> /\ Top \in Call /\ Top = stack[Len(stack)]
      /\ Top.node \in live /\ Top.node \in Node /\ parent[Top.node] = NULL
  BY <1>1, TopFrame
<1>3. PICK l \in Nat : l = Len(stack) - 1 /\ l >= 1 /\ Len(stack) = l + 1 /\ DOMAIN stack = 1 .. l + 1
  BY <1>1, <1>2
<1>4. /\ Below \in Call /\ Below = stack[l] /\ Below.node \in live /\ Below.node \in Node
      /\ parent[Below.node] = NULL /\ Below.child # NULL /\ Below.child \in Node
      /\ Below.node # Top.node
  BY <1>1, <1>3, BelowFrame
<1> DEFINE f == [node |-> Below.node, child |-> next[Below.child]]
           t == SubSeq(stack, 1, Len(stack) - 1)
<1>5. f \in Call /\ f.node = stack[l].node /\ f.child = next[Below.child]
  BY <1>1, <1>4 DEF Call, Pointers
<1>6. t \in Seq(Call) /\ Len(t) = l /\ t # << >> /\ \A i \in 1 .. l : t[i] = stack[i]
  <2>1. /\ t \in Seq(Call) /\ Len(t) = Len(stack) - 1
        /\ \A i \in 1 .. Len(stack) - 1 : t[i] = stack[i]
    BY <1>2, Popped
  <2> HIDE DEF t
  <2>2. QED
    BY <1>3, <2>1
<1>7. stack' = [t EXCEPT ![l] = f]
  BY <1>3 DEF CopyReturn, Callers, Frame
<1> HIDE DEF t, f
<1>8. DOMAIN stack' = 1 .. l /\ \A i \in 1 .. l : stack'[i] = IF i = l THEN f ELSE stack[i]
  <2>1. /\ DOMAIN stack' = 1 .. Len(t)
        /\ \A i \in 1 .. Len(t) : stack'[i] = IF i = Len(t) THEN f ELSE t[i]
    BY <1>5, <1>6, <1>7, Replaced
  <2>2. QED
    BY <1>6, <2>1
<1>9. /\ \A i \in 1 .. l : stack'[i].node = stack[i].node
      /\ \A i \in 1 .. l - 1 : stack'[i] = stack[i]
      /\ stack'[l].child = next[Below.child]
  <2>1. \A i \in 1 .. l - 1 : i \in 1 .. l /\ i # l
    BY <1>3
  <2>2. l \in 1 .. l
    BY <1>3
  <2>3. QED
    BY <1>5, <1>8, <2>1, <2>2
<1>10. Top.node \notin Above(Below.node)
  BY <1>1, <1>2, <1>4 DEF AboveFacts
<1>11. Appends(Below.node, Top.node)
  BY <1>1, <1>2, <1>4, <1>10 DEF CopyReturn, Appends, Attaches
<1>12. Shrunk(l)
  BY <1>1, <1>2, <1>3, <1>4, <1>8, <1>9, <1>11 DEF Shrunk
<1>13. QED
  BY <1>12

\* The steps of json_mkcopy.
LEMMA CopyKeysStart ==
  ASSUME IInv, KeyInv, NEW h \in Node, json_mkcopy(h)
  PROVE  KeyInv'
<1>0. Pointers /\ Linked /\ live \subseteq Node /\ NULL \notin Node
  BY TypeParts, NullAssumption DEF IInv, Pointers
<1>1. h \in live /\ mode = "idle" /\ mode' = "copy" /\ arg' = h
  BY DEF json_mkcopy, Begin
<1>2. PICK c \in Node : /\ mknode(c, tag[h], key[h])
                        /\ stack' = <<Frame(c, head[h])>>
                        /\ copies' = copies \cup {c}
  BY DEF json_mkcopy
<1>3. /\ c \notin live /\ live' = live \cup {c} /\ c # h
      /\ \A m \in Node : /\ parent'[m] = IF m = c THEN NULL ELSE parent[m]
                         /\ key'[m] = IF m = c THEN key[h] ELSE key[m]
                         /\ tag'[m] = IF m = c THEN tag[h] ELSE tag[m]
  <2>1. tag' = [tag EXCEPT ![c] = tag[h]] /\ key' = [key EXCEPT ![c] = key[h]]
    BY <1>2 DEF mknode
  <2>2. DOMAIN tag = Node /\ DOMAIN key = Node
    BY TypeParts DEF IInv, Data
  <2>3. QED
    BY <1>0, <1>1, <1>2, <2>1, <2>2 DEF mknode, Pointers
<1>4. DOMAIN stack' = {1} /\ stack'[1].node = c /\ stack'[1].child = head[h]
  BY <1>2 DEF Frame
<1>p. \A m \in live : parent[m] # NULL => parent[m] \in live
  BY <1>0 DEF Linked
<1>5. KeysFit'
  BY <1>0, <1>2, <1>3, <1>p DEF KeyInv, KeysFit
<1>6. RootKeys'
  <2>1. SUFFICES ASSUME NEW m \in live', parent'[m] = NULL, key'[m] # NULL PROVE m \in copies'
    BY DEF RootKeys
  <2>2. CASE m = c
    BY <1>2, <2>2
  <2>3. CASE m # c
    <3>1. m \in live /\ parent[m] = NULL /\ key[m] # NULL
      BY <1>0, <1>3, <2>1, <2>3
    <3>2. m \in copies
      BY <1>1, <3>1 DEF KeyInv, RootKeys
    <3>3. QED
      BY <1>2, <3>2
  <2>4. QED
    BY <2>2, <2>3
<1>7. CopyFrames'
  <2>1. head[h] # NULL => head[h] \in live /\ parent[head[h]] = h
    BY <1>0, <1>1 DEF Linked
  <2>2. head[h] # NULL => head[h] \in live' /\ parent'[head[h]] = h
    BY <1>0, <1>3, <2>1
  <2>3. Original(1)' = h
    BY <1>1 DEF Original
  <2>4. \A i \in DOMAIN stack' : i = 1
    BY <1>4
  <2>5. /\ h \in live' /\ tag'[c] = tag'[h] /\ key'[c] = key'[h] /\ c \in copies'
    BY <1>0, <1>1, <1>2, <1>3
  <2>6. QED
    BY <1>4, <2>2, <2>3, <2>4, <2>5 DEF CopyFrames
<1>8. QED
  BY <1>5, <1>6, <1>7 DEF KeyInv

LEMMA CopyKeysChild == IInv /\ KeyInv /\ CopyChild => KeyInv'
<1> SUFFICES ASSUME IInv, KeyInv, CopyChild PROVE KeyInv'
  OBVIOUS
<1>0. Pointers /\ Linked /\ live \subseteq Node /\ NULL \notin Node
  BY TypeParts, NullAssumption DEF IInv, Pointers
<1>1. PICK c \in Node : Grown(c)
  BY CopyChildGrows
<1>l. PICK L \in Nat \ {0} : L = Len(stack)
  BY <1>1 DEF Grown
<1>h. PICK h \in Node : h = Top.child
  BY <1>1 DEF Grown
<1>2. /\ mode = "copy" /\ mode' = "copy" /\ arg' = arg /\ h # NULL /\ h \in Node /\ h = stack[L].child
      /\ L \in Nat \ {0} /\ DOMAIN stack = 1 .. L
      /\ mknode(c, tag[h], key[h])
      /\ copies' = IF h \in copies THEN copies \cup {c} ELSE copies
      /\ DOMAIN stack' = 1 .. L + 1
      /\ \A i \in 1 .. L : stack'[i] = stack[i]
      /\ stack'[L + 1].node = c /\ stack'[L + 1].child = head[h]
  BY <1>1, <1>l, <1>h DEF Grown
<1>3. /\ c \notin live /\ live' = live \cup {c}
      /\ \A m \in Node : /\ parent'[m] = IF m = c THEN NULL ELSE parent[m]
                         /\ key'[m] = IF m = c THEN key[h] ELSE key[m]
                         /\ tag'[m] = IF m = c THEN tag[h] ELSE tag[m]
  <2>1. tag' = [tag EXCEPT ![c] = tag[h]] /\ key' = [key EXCEPT ![c] = key[h]]
    BY <1>2 DEF mknode
  <2>2. DOMAIN tag = Node /\ DOMAIN key = Node
    BY TypeParts DEF IInv, Data
  <2>3. QED
    BY <1>0, <1>2, <2>1, <2>2 DEF mknode, Pointers
<1>4. \A i \in 1 .. L + 1 : i \in 1 .. L \/ i = L + 1
  BY <1>2
<1>5. \A i \in 1 .. L : i \in 1 .. L + 1 /\ i # L + 1 /\ (i # 1 => i - 1 \in 1 .. L)
  BY <1>2
<1>6. L \in 1 .. L /\ L + 1 # 1 /\ L + 1 - 1 = L /\ L + 1 \in 1 .. L + 1 /\ 1 \in 1 .. L
  BY <1>2
<1>7. \A i \in 1 .. L : Original(i)' = Original(i)
  BY <1>2, <1>5 DEF Original
<1>8. Original(L + 1)' = h
  BY <1>2, <1>6 DEF Original
<1>p. \A m \in live : parent[m] # NULL => parent[m] \in live
  BY <1>0 DEF Linked
<1>9. KeysFit'
  BY <1>0, <1>2, <1>3, <1>p DEF KeyInv, KeysFit
<1>10. RootKeys'
  <2>1. SUFFICES ASSUME NEW m \in live', parent'[m] = NULL, key'[m] # NULL
                 PROVE  m \in copies' \/ \E i \in DOMAIN stack' : stack'[i].node = m
    BY <1>2 DEF RootKeys
  <2>2. CASE m = c
    BY <1>2, <1>6, <2>2
  <2>3. CASE m # c
    <3>1. m \in live /\ parent[m] = NULL /\ key[m] # NULL
      BY <1>0, <1>3, <2>1, <2>3
    <3>2. m \in copies \/ \E i \in DOMAIN stack : stack[i].node = m
      BY <1>2, <3>1 DEF KeyInv, RootKeys
    <3>3. QED
      BY <1>2, <1>5, <3>2
  <2>4. QED
    BY <2>2, <2>3
<1>11. CopyFrames'
  <2>1. /\ stack[1].node \in copies
        /\ \A i \in 1 .. L :
             /\ Original(i) \in live
             /\ tag[stack[i].node] = tag[Original(i)] /\ key[stack[i].node] = key[Original(i)]
             /\ Original(i) \in copies => stack[i].node \in copies
             /\ stack[i].child # NULL =>
                  stack[i].child \in live /\ parent[stack[i].child] = Original(i)
    BY <1>2 DEF KeyInv, CopyFrames
  <2>2. \A i \in 1 .. L : stack[i].node \in live
    BY <1>2 DEF IInv, CopyingIsSafe
  <2>3. stack'[1].node \in copies'
    BY <1>2, <1>6, <2>1
  <2>4. h \in live
    BY <1>2, <1>6, <2>1
  <2>5. head[h] # NULL => head[h] \in live /\ parent[head[h]] = h
    BY <1>0, <2>4 DEF Linked
  <2>6. ASSUME NEW i \in 1 .. L
        PROVE  /\ Original(i)' \in live'
               /\ tag'[stack'[i].node] = tag'[Original(i)'] /\ key'[stack'[i].node] = key'[Original(i)']
               /\ Original(i)' \in copies' => stack'[i].node \in copies'
               /\ stack'[i].child # NULL =>
                    stack'[i].child \in live' /\ parent'[stack'[i].child] = Original(i)'
    <3>1. stack'[i] = stack[i] /\ Original(i)' = Original(i)
      BY <1>2, <1>7
    <3>2. Original(i) \in live /\ stack[i].node \in live /\ Original(i) # c /\ stack[i].node # c
      BY <1>3, <2>1, <2>2
    <3>3. stack[i].child # NULL => stack[i].child \in Node /\ stack[i].child # c
      BY <1>0, <1>3, <2>1
    <3>4. QED
      BY <1>0, <1>2, <1>3, <2>1, <3>1, <3>2, <3>3
  <2>7. /\ h \in live' /\ tag'[c] = tag'[h] /\ key'[c] = key'[h] /\ (h \in copies' => c \in copies')
        /\ head[h] # NULL => head[h] \in live' /\ parent'[head[h]] = h
    BY <1>0, <1>2, <1>3, <2>4, <2>5
  <2>8. QED
    BY <1>2, <1>4, <1>8, <2>3, <2>6, <2>7 DEF CopyFrames
<1>12. QED
  BY <1>9, <1>10, <1>11 DEF KeyInv

\* The caller's node has the tag of the parent of the original.
LEMMA CopyKeysReturn == IInv /\ TreeInv /\ KeyInv /\ CopyReturn => KeyInv'
<1> SUFFICES ASSUME IInv, TreeInv, KeyInv, CopyReturn PROVE KeyInv'
  OBVIOUS
<1>0. Pointers /\ Linked /\ live \subseteq Node /\ NULL \notin Node
  BY TypeParts, NullAssumption DEF IInv, Pointers
<1>1. PICK l \in Nat : Shrunk(l)
  BY CopyReturnShrinks
<1> DEFINE c == Top.node
           p == Below.node
           h == Below.child
<1>2. /\ mode = "copy" /\ mode' = "copy"
      /\ live' = live /\ tag' = tag /\ key' = key /\ arg' = arg /\ copies' = copies
      /\ l \in Nat \ {0} /\ DOMAIN stack = 1 .. l + 1 /\ DOMAIN stack' = 1 .. l
      /\ c = stack[l + 1].node /\ p = stack[l].node /\ h = stack[l].child
      /\ h # NULL /\ h \in Node
      /\ \A i \in 1 .. l : stack'[i].node = stack[i].node
      /\ \A i \in 1 .. l - 1 : stack'[i] = stack[i]
      /\ stack'[l].child = next[h]
      /\ Appends(p, c)
  BY <1>1 DEF Shrunk
<1> HIDE DEF c, p, h
<1>3. /\ p \in live /\ c \in live /\ parent[c] = NULL
      /\ \A m \in Node : parent'[m] = IF m = c THEN p ELSE parent[m]
  BY <1>0, <1>2, AppendsEffect
<1>4. l \in 1 .. l /\ l \in 1 .. l + 1 /\ l + 1 \in 1 .. l + 1 /\ l + 1 # 1 /\ l + 1 - 1 = l
  BY <1>2
<1>5. \A i \in 1 .. l : i \in 1 .. l + 1 /\ (i = l \/ i \in 1 .. l - 1) /\ (i # 1 => i - 1 \in 1 .. l - 1)
  BY <1>2
<1>6. \A i \in 1 .. l : Original(i)' = Original(i)
  BY <1>2, <1>5 DEF Original
<1>7. Original(l + 1) = h
  BY <1>2, <1>4 DEF Original
<1>8. /\ stack[1].node \in copies
      /\ \A i \in 1 .. l + 1 :
           /\ Original(i) \in live
           /\ tag[stack[i].node] = tag[Original(i)] /\ key[stack[i].node] = key[Original(i)]
           /\ Original(i) \in copies => stack[i].node \in copies
           /\ stack[i].child # NULL =>
                stack[i].child \in live /\ parent[stack[i].child] = Original(i)
  BY <1>2 DEF KeyInv, CopyFrames
<1>9. h \in live /\ parent[h] # NULL /\ tag[p] = tag[parent[h]] /\ key[c] = key[h]
      /\ (h \in copies => c \in copies)
  BY <1>0, <1>2, <1>4, <1>7, <1>8
<1>10. KeysFit'
  <2> SUFFICES ASSUME NEW m \in live, parent'[m] # NULL
               PROVE  /\ tag[parent'[m]] = "array" /\ key[m] # NULL => m \in copies
                      /\ tag[parent'[m]] = "object" => key[m] # NULL
    BY <1>2 DEF KeysFit
  <2>1. CASE m = c
    BY <1>0, <1>3, <1>9, <2>1 DEF KeyInv, KeysFit
  <2>2. CASE m # c
    BY <1>0, <1>3, <2>2 DEF KeyInv, KeysFit
  <2>3. QED
    BY <2>1, <2>2
<1>11. RootKeys'
  <2>1. SUFFICES ASSUME NEW m \in live, parent'[m] = NULL, key[m] # NULL
                 PROVE  m \in copies \/ \E i \in DOMAIN stack' : stack'[i].node = m
    BY <1>2 DEF RootKeys
  <2>2. m # c /\ parent[m] = NULL
    BY <1>0, <1>3, <2>1
  <2>3. m \in copies \/ \E i \in DOMAIN stack : stack[i].node = m
    BY <1>2, <2>1, <2>2 DEF KeyInv, RootKeys
  <2>4. \A i \in 1 .. l + 1 : i \in 1 .. l \/ i = l + 1
    BY <1>2
  <2>5. QED
    BY <1>2, <2>2, <2>3, <2>4
<1>12. CopyFrames'
  <2>1. stack'[1].node \in copies'
    BY <1>2, <1>8
  <2>2. next[h] # NULL => next[h] \in live /\ parent[next[h]] = parent[h]
    BY <1>0, <1>9 DEF Linked
  <2>3. parent[h] = Original(l)
    BY <1>2, <1>4, <1>8
  <2>4. ASSUME NEW i \in 1 .. l
        PROVE  /\ Original(i)' \in live'
               /\ tag'[stack'[i].node] = tag'[Original(i)'] /\ key'[stack'[i].node] = key'[Original(i)']
               /\ Original(i)' \in copies' => stack'[i].node \in copies'
    BY <1>2, <1>5, <1>6, <1>8
  <2>5. ASSUME NEW i \in 1 .. l, stack'[i].child # NULL
        PROVE  stack'[i].child \in live' /\ parent'[stack'[i].child] = Original(i)'
    <3>1. stack'[i].child \in live /\ parent[stack'[i].child] = Original(i) /\ Original(i) \in live
      <4>1. CASE i = l
        BY <1>2, <1>4, <1>8, <2>2, <2>3, <2>5, <4>1
      <4>2. CASE i \in 1 .. l - 1
        BY <1>2, <1>5, <1>8, <2>5, <4>2
      <4>3. QED
        BY <1>5, <4>1, <4>2
    <3>2. stack'[i].child # c /\ stack'[i].child \in Node
      BY <1>0, <1>3, <3>1
    <3>3. QED
      BY <1>2, <1>3, <1>6, <3>1, <3>2
  <2>6. QED
    BY <1>2, <2>1, <2>4, <2>5 DEF CopyFrames
<1>13. QED
  BY <1>10, <1>11, <1>12 DEF KeyInv

LEMMA CopyKeysEnd == IInv /\ KeyInv /\ (CopyEnd \/ CopyExits) => KeyInv'
<1> SUFFICES ASSUME IInv, KeyInv, CopyEnd \/ CopyExits PROVE KeyInv'
  OBVIOUS
<1>1. UNCHANGED <<live, tag, key, parent, copies>> /\ mode = "copy" /\ mode' # "copy"
  BY DEF CopyEnd, CopyExits, Return, links, hist
<1>2. KeysFit' /\ CopyFrames'
  BY <1>1 DEF KeyInv, KeysFit, CopyFrames
<1>3. RootKeys'
  <2>1. CASE CopyExits
    BY <2>1 DEF CopyExits, RootKeys
  <2>2. CASE CopyEnd
    <3>1. stack \in Seq(Call) /\ Len(stack) = 1
      BY <1>1, <2>2, TopFrame DEF CopyEnd
    <3>2. DOMAIN stack = 1 .. 1
      BY <3>1
    <3>3. \A i \in DOMAIN stack : stack[i].node \in copies
      BY <1>1, <3>2 DEF KeyInv, CopyFrames
    <3>4. QED
      BY <1>1, <3>3 DEF KeyInv, RootKeys
  <2>3. QED
    BY <2>1, <2>2
<1>4. QED
  BY <1>2, <1>3 DEF KeyInv

LEMMA KeyInvHolds == Spec => []KeyInv
<1>1. Init => KeyInv
  BY DEF Init, KeyInv, KeysFit, RootKeys, CopyFrames
<1>2. IInv /\ TreeInv /\ KeyInv /\ [Next]_vars => KeyInv'
  <2> SUFFICES ASSUME IInv, TreeInv, KeyInv, [Next]_vars PROVE KeyInv'
    OBVIOUS
  <2>1. CASE UNCHANGED vars
    BY <2>1 DEF vars, links, hist, KeyInv, KeysFit, RootKeys, CopyFrames, Original
  <2>2. CASE Next /\ mode # "copy" /\ mode' # "copy"
    BY <2>2, OtherKeysStep
  <2>3. CASE Next /\ (mode = "copy" \/ mode' = "copy")
    <3>1. (\E h \in Node : json_mkcopy(h)) \/ CopyChild \/ CopyReturn \/ CopyEnd \/ CopyExits
      BY <2>3 DEF Next, Make, json_append_element, json_prepend_element, json_append_member,
        json_prepend_member, CanAttach, RemoveNode, Building, json_delete, Begin, DeleteChild,
        DeleteFree, Return
    <3>2. QED
      BY <3>1, CopyKeysStart, CopyKeysChild, CopyKeysReturn, CopyKeysEnd
  <2>4. QED
    BY <2>1, <2>2, <2>3
<1>3. QED
  BY <1>1, <1>2, InvHolds, TreeInvHolds, PTL DEF Spec

\* json_check accepts every node between two calls, however the tree came about:
\* iterating forwards and backwards meets the same children, they know their
\* parent, and a key is where one belongs, but for the copies in arrays.
THEOREM JsonCheckHolds == Spec => []JsonCheck
<1>1. IInv /\ TreeInv /\ KeyInv => JsonCheck
  <2> SUFFICES ASSUME IInv, TreeInv, KeyInv, NEW n \in live
               PROVE  /\ Forward(n) = Backward(n)
                      /\ \A i \in DOMAIN Forward(n) :
                           LET c == Forward(n)[i] IN
                           /\ c # n /\ parent[c] = n
                           /\ tag[n] = "array" /\ key[c] # NULL => c \in copies
                           /\ tag[n] = "object" => key[c] # NULL
    BY DEF JsonCheck
  <2>1. n \in Node /\ n # NULL
    BY TypeParts, NullAssumption DEF IInv, Pointers
  <2>2. ListFacts
    BY ListsHold
  <2>3. Forward(n) = Kids(n)
    BY DEF Forward, Kids, Fwd
  <2>4. Backward(n) = Bwd[tail[n]]
    BY DEF Backward, Bwd
  <2>5. Forward(n) = Backward(n)
    BY <2>1, <2>2, <2>3, <2>4 DEF ListFacts
  <2>6. ASSUME NEW c \in live, parent[c] = n
        PROVE  /\ c # n
               /\ tag[n] = "array" /\ key[c] # NULL => c \in copies
               /\ tag[n] = "object" => key[c] # NULL
    <3>1. c # n
      <4>1. SUFFICES ASSUME c = n PROVE FALSE
        OBVIOUS
      <4>2. {n} \in SUBSET live /\ {n} # {} /\ \A m \in {n} : parent[m] \in {n}
        BY <2>6, <4>1
      <4>3. QED
        BY <4>2 DEF TreeInv, NoCycle
    <3>2. QED
      BY <2>1, <2>6, <3>1 DEF KeyInv, KeysFit
  <2>7. \A i \in DOMAIN Forward(n) : Forward(n)[i] \in live /\ parent[Forward(n)[i]] = n
    BY <2>1, <2>2, <2>3 DEF ListFacts
  <2>8. QED
    BY <2>5, <2>6, <2>7
<1>2. QED
  BY <1>1, InvHolds, TreeInvHolds, KeyInvHolds, PTL

-----------------------------------------------------------------------------
(* The ordered forest. *)

ChildrenAreKids == Children = [n \in Node |-> Kids(n)]

LEMMA ChildrenHold == IInv /\ TreeInv => ChildrenAreKids
<1> SUFFICES ASSUME IInv, TreeInv PROVE ChildrenAreKids
  OBVIOUS
<1>1. ASSUME NEW n \in Node PROVE (IF n \in live THEN Forward(n) ELSE << >>) = Kids(n)
  <2>1. CASE n \in live
    <3>1. Forward(n) = Kids(n)
      BY DEF Forward, Kids, Fwd
    <3>2. QED
      BY <2>1, <3>1
  <2>2. CASE n \notin live
    <3>1. head[n] = NULL
      BY <2>2 DEF TreeInv, Blank
    <3>2. Kids(n) = << >>
      BY <3>1, FwdIsList DEF FwdFacts, Kids
    <3>3. QED
      BY <2>2, <3>2
  <2>3. QED
    BY <2>1, <2>2
<1>2. QED
  BY <1>1 DEF ChildrenAreKids, Children

\* A set of nodes with the next ones: if these pointers do not change, nor do the
\* lists from there on.
LEMMA FwdAgrees ==
  ASSUME IInv, TreeInv, FwdFacts', NEW Z \in SUBSET Node,
         \A m \in Z : next'[m] = next[m] /\ (next[m] = NULL \/ next[m] \in Z)
  PROVE  \A m \in Z : Fwd'[m] = Fwd[m]
<1> DEFINE X == {m \in Z : Fwd'[m] # Fwd[m]}
<1>1. SUFFICES ASSUME X # {} PROVE FALSE
  OBVIOUS
<1>2. PICK m \in X : next[m] \notin X
  BY <1>1, NextEnds DEF Ends
<1>3. m \in Node /\ Fwd[m] = <<m>> \o Fwd[next[m]]
  BY <1>2, FwdIsList DEF FwdFacts
<1>4. Fwd'[m] = <<m>> \o Fwd'[next'[m]]
  BY <1>3 DEF FwdFacts
<1>5. Fwd'[NULL] = << >> /\ Fwd[NULL] = << >>
  BY FwdIsList DEF FwdFacts
<1>6. Fwd'[next[m]] = Fwd[next[m]]
  BY <1>2, <1>5
<1>7. QED
  BY <1>2, <1>3, <1>4, <1>6

LEMMA BwdAgrees ==
  ASSUME IInv, TreeInv, BwdFacts', NEW Z \in SUBSET Node,
         \A m \in Z : prev'[m] = prev[m] /\ (prev[m] = NULL \/ prev[m] \in Z)
  PROVE  \A m \in Z : Bwd'[m] = Bwd[m]
<1> DEFINE X == {m \in Z : Bwd'[m] # Bwd[m]}
<1>1. SUFFICES ASSUME X # {} PROVE FALSE
  OBVIOUS
<1>2. PICK m \in X : prev[m] \notin X
  BY <1>1, PrevEnds DEF Ends
<1>3. m \in Node /\ Bwd[m] = Bwd[prev[m]] \o <<m>>
  BY <1>2, BwdIsList DEF BwdFacts
<1>4. Bwd'[m] = Bwd'[prev'[m]] \o <<m>>
  BY <1>3 DEF BwdFacts
<1>5. Bwd'[NULL] = << >> /\ Bwd[NULL] = << >>
  BY BwdIsList DEF BwdFacts
<1>6. Bwd'[prev[m]] = Bwd[prev[m]]
  BY <1>2, <1>5
<1>7. QED
  BY <1>2, <1>3, <1>4, <1>6

\* Nobody points to a node that is not allocated or has no parent.
LEMMA Unpointed ==
  ASSUME IInv, TreeInv, NEW c \in Node, parent[c] = NULL
  PROVE  \A m \in Node : prev[m] # c /\ next[m] # c /\ head[m] # c /\ tail[m] # c
<1>0. Pointers /\ Linked /\ live \subseteq Node /\ NULL \notin Node
  BY TypeParts, NullAssumption DEF IInv, Pointers
<1>1. ASSUME NEW m \in Node \ live PROVE prev[m] # c /\ next[m] # c /\ head[m] # c /\ tail[m] # c
  BY <1>0 DEF TreeInv, Blank
<1>2. ASSUME NEW m \in live PROVE prev[m] # c /\ next[m] # c /\ head[m] # c /\ tail[m] # c
  <2>1. CASE c \in live
    BY <1>0, <2>1, RootIsAlone
  <2>2. CASE c \notin live
    BY <1>0, <2>2 DEF Linked
  <2>3. QED
    BY <2>1, <2>2
<1>3. QED
  BY <1>1, <1>2

\* The lists of children after each of the five operations.
LEMMA MakeKids ==
  ASSUME IInv, TreeInv, ListFacts', NEW c \in Node, Makes(c)
  PROVE  \A n \in Node : Kids(n)' = Kids(n)
<1>0. Pointers /\ NULL \notin Node /\ Ptr = Node \cup {NULL}
  BY TypeParts, NullAssumption DEF IInv, Pointers, Ptr
<1>1. /\ c \notin live
      /\ \A m \in Node : /\ next'[m] = IF m = c THEN NULL ELSE next[m]
                         /\ head'[m] = IF m = c THEN NULL ELSE head[m]
  BY <1>0, MakesEffect
<1>2. parent[c] = NULL /\ head[c] = NULL
  BY <1>1 DEF TreeInv, Blank
<1>3. \A m \in Node : next[m] # c /\ head[m] # c /\ next[m] \in Ptr /\ head[m] \in Ptr
  BY <1>0, <1>2, Unpointed DEF Pointers
<1> DEFINE Z == Node \ {c}
<1>4. \A m \in Z : next'[m] = next[m] /\ (next[m] = NULL \/ next[m] \in Z)
  BY <1>0, <1>1, <1>3
<1>5. \A m \in Z : Fwd'[m] = Fwd[m]
  BY <1>4, FwdAgrees DEF ListFacts
<1>6. Fwd'[NULL] = Fwd[NULL]
  BY FwdIsList DEF ListFacts, FwdFacts
<1>7. ASSUME NEW n \in Node PROVE Fwd'[head'[n]] = Fwd[head[n]]
  <2>1. head'[n] = head[n]
    BY <1>1, <1>2
  <2>2. head[n] = NULL \/ head[n] \in Z
    BY <1>0, <1>3
  <2>3. QED
    BY <1>5, <1>6, <2>1, <2>2
<1>8. QED
  BY <1>7 DEF Kids

LEMMA SameKids ==
  ASSUME IInv, TreeInv, ListFacts', UNCHANGED links
  PROVE  \A n \in Node : Kids(n)' = Kids(n)
<1>0. Pointers /\ NULL \notin Node /\ Ptr = Node \cup {NULL}
  BY TypeParts, NullAssumption DEF IInv, Pointers, Ptr
<1>1. next' = next /\ head' = head
  BY DEF links
<1>2. \A m \in Node : next[m] \in Ptr /\ head[m] \in Ptr
  BY <1>0 DEF Pointers
<1>3. \A m \in Node : next'[m] = next[m] /\ (next[m] = NULL \/ next[m] \in Node)
  BY <1>0, <1>1, <1>2
<1>4. \A m \in Node : Fwd'[m] = Fwd[m]
  BY <1>3, FwdAgrees DEF ListFacts
<1>5. Fwd'[NULL] = Fwd[NULL]
  BY FwdIsList DEF ListFacts, FwdFacts
<1>6. ASSUME NEW n \in Node PROVE Fwd'[head'[n]] = Fwd[head[n]]
  BY <1>0, <1>1, <1>2, <1>4, <1>5
<1>7. QED
  BY <1>6 DEF Kids

\* The lists up to a node do not change but for the new last one.
LEMMA AppendKids ==
  ASSUME IInv, TreeInv, ListFacts', NEW p \in Node, NEW c \in Node, Appends(p, c)
  PROVE  \A n \in Node : Kids(n)' = IF n = p THEN Append(Kids(n), c) ELSE Kids(n)
<1>0. Pointers /\ live \subseteq Node /\ NULL \notin Node /\ Ptr = Node \cup {NULL} /\ ListFacts
  BY TypeParts, NullAssumption, ListsHold DEF IInv, Pointers, Ptr
<1>1. /\ parent[c] = NULL
      /\ \A m \in Node : /\ prev'[m] = IF m = c THEN tail[p] ELSE prev[m]
                         /\ tail'[m] = IF m = p THEN c ELSE tail[m]
  BY <1>0, AppendsEffect
<1>2. \A m \in Node : prev[m] # c /\ tail[m] # c /\ prev[m] \in Ptr /\ tail[m] \in Ptr
  BY <1>0, <1>1, Unpointed DEF Pointers
<1> DEFINE Z == Node \ {c}
<1>3. \A m \in Z : prev'[m] = prev[m] /\ (prev[m] = NULL \/ prev[m] \in Z)
  BY <1>0, <1>1, <1>2
<1>4. \A m \in Z : Bwd'[m] = Bwd[m]
  BY <1>3, BwdAgrees DEF ListFacts
<1>5. Bwd'[NULL] = Bwd[NULL]
  BY <1>0 DEF ListFacts, BwdFacts
<1>6. \A n \in Node : Bwd'[tail[n]] = Bwd[tail[n]]
  BY <1>0, <1>2, <1>4, <1>5
<1>7. \A n \in Node : Kids(n) = Bwd[tail[n]] /\ Kids(n) \in Seq(Node)
  BY <1>0 DEF ListFacts
<1>8. \A n \in Node : Kids(n)' = Bwd'[tail'[n]]
  BY DEF ListFacts
<1>9. ASSUME NEW n \in Node, n # p PROVE Kids(n)' = Kids(n)
  BY <1>1, <1>6, <1>7, <1>8, <1>9
<1>10. Kids(p)' = Append(Kids(p), c)
  <2>1. Bwd'[c] = Bwd'[prev'[c]] \o <<c>>
    BY DEF ListFacts, BwdFacts
  <2>2. Bwd'[c] = Kids(p) \o <<c>>
    BY <1>1, <1>6, <1>7, <2>1
  <2>3. \A s \in Seq(Node) : s \o <<c>> = Append(s, c)
    BY AppendIsConcat
  <2>4. Bwd'[tail'[p]] = Append(Kids(p), c)
    BY <1>1, <1>7, <2>2, <2>3
  <2>5. \A n \in Node : n = p => Kids(n)' = Append(Kids(n), c)
    BY <1>8, <2>4
  <2>6. QED
    BY <2>5
<1>11. QED
  BY <1>9, <1>10

\* The lists from a node on do not change but for the new first one.
LEMMA PrependKids ==
  ASSUME IInv, TreeInv, ListFacts', NEW p \in Node, NEW c \in Node, Prepends(p, c)
  PROVE  \A n \in Node : Kids(n)' = IF n = p THEN <<c>> \o Kids(n) ELSE Kids(n)
<1>0. Pointers /\ live \subseteq Node /\ NULL \notin Node /\ Ptr = Node \cup {NULL} /\ ListFacts
  BY TypeParts, NullAssumption, ListsHold DEF IInv, Pointers, Ptr
<1>1. /\ parent[c] = NULL
      /\ \A m \in Node : /\ next'[m] = IF m = c THEN head[p] ELSE next[m]
                         /\ head'[m] = IF m = p THEN c ELSE head[m]
  BY <1>0, PrependsEffect
<1>2. \A m \in Node : next[m] # c /\ head[m] # c /\ next[m] \in Ptr /\ head[m] \in Ptr
  BY <1>0, <1>1, Unpointed DEF Pointers
<1> DEFINE Z == Node \ {c}
<1>3. \A m \in Z : next'[m] = next[m] /\ (next[m] = NULL \/ next[m] \in Z)
  BY <1>0, <1>1, <1>2
<1>4. \A m \in Z : Fwd'[m] = Fwd[m]
  BY <1>3, FwdAgrees DEF ListFacts
<1>5. Fwd'[NULL] = Fwd[NULL]
  BY <1>0 DEF ListFacts, FwdFacts
<1>6. \A n \in Node : Fwd'[head[n]] = Fwd[head[n]]
  BY <1>0, <1>2, <1>4, <1>5
<1>7. Fwd'[c] = <<c>> \o Fwd'[next'[c]]
  BY DEF ListFacts, FwdFacts
<1>8. ASSUME NEW n \in Node
      PROVE  Fwd'[head'[n]] = IF n = p THEN <<c>> \o Fwd[head[n]] ELSE Fwd[head[n]]
  BY <1>1, <1>6, <1>7
<1>9. QED
  BY <1>8 DEF Kids

\* Where a child is taken out, the list up to the elder sibling and that from the
\* next one on are what they were: A is the child and what follows it.
LEMMA UnlinkKids ==
  ASSUME IInv, TreeInv, ListFacts', NEW c \in Node, Unlinks(c)
  PROVE  LET s == Bwd[prev[c]]
             u == Fwd[next[c]]
         IN  /\ s \in Seq(Node) /\ u \in Seq(Node) /\ Kids(parent[c]) = s \o (<<c>> \o u)
             /\ \A n \in Node : Kids(n)' = IF n = parent[c] THEN s \o u ELSE Kids(n)
<1>0. /\ Pointers /\ Linked /\ live \subseteq Node /\ NULL \notin Node /\ Ptr = Node \cup {NULL}
      /\ ListFacts
  BY TypeParts, NullAssumption, ListsHold DEF IInv, Pointers, Ptr
<1>1. /\ c \in live /\ live' = live /\ parent[c] # NULL
      /\ \A m \in Node :
           /\ parent'[m] = IF m = c THEN NULL ELSE parent[m]
           /\ prev'[m] = IF m = c THEN NULL ELSE IF m = next[c] THEN prev[c] ELSE prev[m]
           /\ next'[m] = IF m = c THEN NULL ELSE IF m = prev[c] THEN next[c] ELSE next[m]
           /\ head'[m] = IF m = parent[c] /\ prev[c] = NULL THEN next[c] ELSE head[m]
           /\ tail'[m] = IF m = parent[c] /\ next[c] = NULL THEN prev[c] ELSE tail[m]
  BY <1>0, UnlinksEffect
<1>b. \A m \in Node \ live : parent[m] = NULL /\ prev[m] = NULL /\ next[m] = NULL /\ head[m] = NULL
  BY DEF TreeInv, Blank
<1>p. \A m \in Node : prev[m] \in Ptr /\ next[m] \in Ptr /\ head[m] \in Ptr
  BY <1>0 DEF Pointers
<1>2. PICK p \in Node : p = parent[c]
  BY <1>0, <1>1 DEF Linked
<1>3. PICK q \in Ptr : q = prev[c]
  BY <1>p
<1>4. PICK x \in Ptr : x = next[c]
  BY <1>p
<1>5. /\ \A m \in Node : next[m] # NULL => next[m] \in live /\ prev[next[m]] = m /\ parent[next[m]] = parent[m]
      /\ \A m \in Node : prev[m] # NULL => prev[m] \in live /\ next[prev[m]] = m /\ parent[prev[m]] = parent[m]
  BY <1>0, <1>b DEF Linked
<1> DEFINE Closed(S) == \A m \in S : next[m] # NULL => next[m] \in S
           A == {m \in Node : \A S \in SUBSET Node : c \in S /\ Closed(S) => m \in S}
<1>6. c \in A
  OBVIOUS
<1>7. Closed(A)
  <2>1. SUFFICES ASSUME NEW m \in A, next[m] # NULL,
                        NEW S \in SUBSET Node, c \in S, Closed(S)
                 PROVE  next[m] \in Node /\ next[m] \in S
    BY <1>0, <1>5
  <2>2. m \in S
    BY <2>1
  <2>3. QED
    BY <2>1, <2>2
<1>8. \A S \in SUBSET Node : c \in S /\ Closed(S) => A \subseteq S
  OBVIOUS
<1>9. A \in SUBSET Node
  OBVIOUS
<1> HIDE DEF A
<1>10. \A m \in A : m # c => prev[m] \in A
  <2> DEFINE S == {m \in A : m # c => prev[m] \in A}
  <2>1. c \in S /\ S \in SUBSET Node
    BY <1>6, <1>9
  <2>2. Closed(S)
    <3>1. SUFFICES ASSUME NEW m \in A, next[m] # NULL PROVE next[m] \in S
      OBVIOUS
    <3>2. next[m] \in A /\ prev[next[m]] = m
      BY <1>5, <1>7, <1>9, <3>1
    <3>3. QED
      BY <3>2
  <2>3. A \subseteq S
    BY <1>8, <2>1, <2>2
  <2>4. QED
    BY <2>3
<1>11. q \notin A
  <2>1. PICK m \in A : prev[m] \notin A
    BY <1>6, <1>9, PrevEnds DEF Ends
  <2>2. QED
    BY <1>3, <1>10, <2>1
<1>12. \A m \in A : next[m] # c
  BY <1>0, <1>3, <1>5, <1>9, <1>11
<1>13. \A m \in Node \ A : prev'[m] = prev[m] /\ (prev[m] = NULL \/ prev[m] \in Node \ A)
  <2> SUFFICES ASSUME NEW m \in Node, m \notin A
               PROVE  prev'[m] = prev[m] /\ (prev[m] = NULL \/ prev[m] \in Node \ A)
    OBVIOUS
  <2>1. m # c
    BY <1>6
  <2>2. m # next[c]
    BY <1>0, <1>6, <1>7
  <2>3. prev[m] # NULL => prev[m] \in Node /\ prev[m] \notin A
    BY <1>0, <1>5, <1>7
  <2>4. QED
    BY <1>1, <2>1, <2>2, <2>3
<1>14. Bwd'[q] = Bwd[q]
  <2>1. \A m \in Node \ A : Bwd'[m] = Bwd[m]
    BY <1>13, BwdAgrees DEF ListFacts
  <2>2. Bwd'[NULL] = Bwd[NULL]
    BY <1>0 DEF ListFacts, BwdFacts
  <2>3. QED
    BY <1>0, <1>11, <2>1, <2>2
<1>15. \A m \in A \ {c} : next'[m] = next[m] /\ (next[m] = NULL \/ next[m] \in A \ {c})
  BY <1>1, <1>3, <1>7, <1>9, <1>11, <1>12
<1>16. Fwd'[x] = Fwd[x]
  <2>1. \A m \in A \ {c} : Fwd'[m] = Fwd[m]
    BY <1>9, <1>15, FwdAgrees DEF ListFacts
  <2>2. Fwd'[NULL] = Fwd[NULL]
    BY <1>0 DEF ListFacts, FwdFacts
  <2>3. x # NULL => x \in A \ {c}
    BY <1>4, <1>6, <1>7, <1>12
  <2>4. QED
    BY <2>1, <2>2, <2>3
<1>17. Bwd[q] \in Seq(Node) /\ Fwd[x] \in Seq(Node)
  <2>1. << >> \in Seq(Node)
    OBVIOUS
  <2>2. QED
    BY <1>0, <2>1 DEF ListFacts, FwdFacts, BwdFacts
<1>18. Kids(p) = Bwd[q] \o (<<c>> \o Fwd[x])
  <2>1. Kids(parent[c]) = Bwd[prev[c]] \o Fwd[c]
    BY <1>0, <1>1 DEF ListFacts
  <2>2. Fwd[c] = <<c>> \o Fwd[next[c]]
    BY <1>0 DEF ListFacts, FwdFacts
  <2>3. QED
    BY <1>2, <1>3, <1>4, <2>1, <2>2
<1>19. Kids(p)' = Bwd[q] \o Fwd[x]
  <2>1. CASE x = NULL
    <3>1. tail'[p] = q
      BY <1>1, <1>2, <1>3, <1>4, <2>1
    <3>2. Kids(p)' = Bwd'[tail'[p]]
      BY DEF ListFacts
    <3>3. Fwd[x] = << >>
      BY <1>0, <2>1 DEF ListFacts, FwdFacts
    <3>4. \A a \in Seq(Node) : a \o << >> = a
      BY ConcatEmptySeq
    <3>5. QED
      BY <1>14, <1>17, <3>1, <3>2, <3>3, <3>4
  <2>2. CASE x # NULL
    <3>1. x \in live /\ x \in Node /\ x # c
      BY <1>0, <1>4, <1>5, <1>6, <1>12, <2>2
    <3>2. x \in live' /\ parent'[x] = p /\ prev'[x] = q
      BY <1>1, <1>2, <1>3, <1>4, <1>5, <2>2, <3>1
    <3>3. Fwd'[head'[parent'[x]]] = Bwd'[prev'[x]] \o Fwd'[x]
      <4>1. \A m \in live' : parent'[m] # NULL =>
              Fwd'[head'[parent'[m]]] = Bwd'[prev'[m]] \o Fwd'[m]
        BY DEF ListFacts, Kids
      <4>2. parent'[x] # NULL
        BY <1>0, <1>2, <3>2
      <4>3. QED
        BY <3>2, <4>1, <4>2
    <3>4. Fwd'[head'[p]] = Bwd[q] \o Fwd[x]
      BY <1>14, <1>16, <3>2, <3>3
    <3>5. QED
      BY <3>4 DEF Kids
  <2>3. QED
    BY <2>1, <2>2
<1>20. ASSUME NEW n \in Node, n # p PROVE Kids(n)' = Kids(n)
  <2> DEFINE Z == {m \in Node : parent[m] # p}
  <2>1. ASSUME NEW m \in Z PROVE next'[m] = next[m] /\ (next[m] = NULL \/ next[m] \in Z)
    <3>1. m # c /\ (prev[c] # NULL => m # prev[c]) /\ m # NULL
      BY <1>0, <1>2, <1>5
    <3>2. next[m] # NULL => next[m] \in Z
      BY <1>0, <1>5
    <3>3. QED
      BY <1>1, <3>1, <3>2
  <2>2. \A m \in Z : Fwd'[m] = Fwd[m]
    BY <2>1, FwdAgrees DEF ListFacts
  <2>3. Fwd'[NULL] = Fwd[NULL]
    BY <1>0 DEF ListFacts, FwdFacts
  <2>4. head[n] = NULL \/ head[n] \in Z
    BY <1>0, <1>b, <1>20 DEF Linked
  <2>5. head'[n] = head[n]
    BY <1>1, <1>2, <1>20
  <2>6. Fwd'[head'[n]] = Fwd[head[n]]
    BY <2>2, <2>3, <2>4, <2>5
  <2>7. QED
    BY <2>6 DEF Kids
<1>21. QED
  BY <1>2, <1>3, <1>4, <1>17, <1>18, <1>19, <1>20

\* A node without a parent is in no list.
LEMMA RootsAreRoots ==
  ASSUME IInv, TreeInv, NEW c \in live, parent[c] = NULL
  PROVE  c \in ForestSpec!Roots
<1>1. live \subseteq Node /\ NULL \notin Node /\ ListFacts /\ ChildrenAreKids
  BY TypeParts, NullAssumption, ListsHold, ChildrenHold DEF IInv, Pointers
<1>2. ASSUME NEW p \in live, NEW i \in DOMAIN Children[p] PROVE Children[p][i] # c
  <2>1. p \in Node /\ Children[p] = Kids(p)
    BY <1>1 DEF ChildrenAreKids
  <2>2. parent[Kids(p)[i]] = p
    BY <1>1, <1>2, <2>1 DEF ListFacts
  <2>3. QED
    BY <1>1, <2>1, <2>2
<1>3. QED
  BY <1>2 DEF ForestSpec!Roots, ForestSpec!Elements

\* Every step is a step of the forest, or leaves it alone.
LEMMA ForestStep ==
  IInv /\ TreeInv /\ IInv' /\ TreeInv' /\ LinkStep => [ForestSpec!Next]_(ForestSpec!fvars)
<1> SUFFICES ASSUME IInv, TreeInv, IInv', TreeInv', LinkStep
             PROVE  [ForestSpec!Next]_(ForestSpec!fvars)
  OBVIOUS
<1>0. Pointers /\ live \subseteq Node /\ NULL \notin Node /\ ListFacts
  BY TypeParts, NullAssumption, ListsHold DEF IInv, Pointers
<1>1. ListFacts' /\ ChildrenAreKids' /\ ChildrenAreKids
  BY ListsHold, ChildrenHold, PTL
<1>2. /\ Children = [n \in Node |-> Kids(n)] /\ Children' = [n \in Node |-> Kids(n)']
  BY <1>1 DEF ChildrenAreKids
<1>s. (\A n \in Node : Kids(n)' = Kids(n)) => Children' = Children
  BY <1>2
<1>3. CASE Rests
  <2>1. live' = live /\ UNCHANGED links
    BY <1>3 DEF Rests
  <2>2. Children' = Children
    BY <1>1, <1>s, <2>1, SameKids
  <2>3. QED
    BY <2>1, <2>2 DEF ForestSpec!fvars
<1>4. ASSUME NEW c \in Node, Makes(c) PROVE ForestSpec!Make(c)
  <2>1. Children' = Children
    BY <1>1, <1>4, <1>s, MakeKids
  <2>2. QED
    BY <1>0, <1>4, <2>1, MakesEffect DEF ForestSpec!Make
<1>5. ASSUME NEW p \in Node, NEW c \in Node, Appends(p, c) PROVE ForestSpec!AttachLast(p, c)
  <2>1. p \in live /\ c \in live /\ live' = live /\ parent[c] = NULL /\ p # c
    BY <1>0, <1>5, AppendsEffect, AboveIsClosed DEF AboveFacts
  <2>2. \A n \in Node : Kids(n)' = IF n = p THEN Append(Kids(n), c) ELSE Kids(n)
    BY <1>1, <1>5, AppendKids
  <2>3. Children' = [Children EXCEPT ![p] = Append(@, c)]
    BY <1>2, <2>2
  <2>4. QED
    BY <2>1, <2>3, RootsAreRoots DEF ForestSpec!AttachLast
<1>6. ASSUME NEW p \in Node, NEW c \in Node, Prepends(p, c) PROVE ForestSpec!AttachFirst(p, c)
  <2>1. p \in live /\ c \in live /\ live' = live /\ parent[c] = NULL /\ p # c
    BY <1>0, <1>6, PrependsEffect, AboveIsClosed DEF AboveFacts
  <2>2. \A n \in Node : Kids(n)' = IF n = p THEN <<c>> \o Kids(n) ELSE Kids(n)
    BY <1>1, <1>6, PrependKids
  <2>3. Children' = [Children EXCEPT ![p] = <<c>> \o @]
    BY <1>2, <2>2
  <2>4. QED
    BY <2>1, <2>3, RootsAreRoots DEF ForestSpec!AttachFirst
<1>7. ASSUME NEW c \in Node, Unlinks(c) PROVE ForestSpec!Detach(c)
  <2> DEFINE p == parent[c]
             s == Bwd[prev[c]]
             u == Fwd[next[c]]
             i == Len(s) + 1
  <2>1. c \in live /\ live' = live /\ p \in live /\ p \in Node
    <3>1. c \in live /\ live' = live /\ p # NULL
      BY <1>0, <1>7, UnlinksEffect
    <3>2. QED
      BY <1>0, <3>1 DEF IInv, Linked
  <2>2. /\ s \in Seq(Node) /\ u \in Seq(Node) /\ Kids(p) = s \o (<<c>> \o u)
        /\ \A n \in Node : Kids(n)' = IF n = p THEN s \o u ELSE Kids(n)
    BY <1>1, <1>7, UnlinkKids
  <2>3. Children[p] = Kids(p) /\ Children' = [Children EXCEPT ![p] = s \o u]
    BY <1>2, <2>1, <2>2
  <2> HIDE DEF p, s, u
  <2>4. /\ i \in DOMAIN Kids(p) /\ Kids(p)[i] = c
        /\ SubSeq(Kids(p), 1, i - 1) = s /\ SubSeq(Kids(p), i + 1, Len(Kids(p))) = u
    <3>1. Len(s) + 1 - 1 = Len(s) /\ Len(s) + 1 + 1 = Len(s) + 2
      BY <2>2
    <3>2. QED
      BY <2>2, <3>1, HoldsAt
  <2> HIDE DEF i
  <2>5. Children' = [Children EXCEPT ![p] = SubSeq(@, 1, i - 1) \o SubSeq(@, i + 1, Len(@))]
    BY <1>2, <2>1, <2>3, <2>4
  <2>6. QED
    BY <2>1, <2>3, <2>4, <2>5 DEF ForestSpec!Detach
<1>8. ASSUME NEW n \in Node, Frees(n) PROVE ForestSpec!Drop(n)
  <2>1. n \in live /\ live' = live \ {n} /\ parent[n] = NULL /\ head[n] = NULL /\ UNCHANGED links
    BY <1>8 DEF Frees
  <2>2. Children' = Children
    BY <1>1, <1>s, <2>1, SameKids
  <2>3. Children[n] = << >>
    BY <1>0, <1>2, <2>1 DEF Kids, ListFacts, FwdFacts
  <2>4. QED
    BY <2>1, <2>2, <2>3, RootsAreRoots DEF ForestSpec!Drop
<1>9. QED
  BY <1>3, <1>4, <1>5, <1>6, <1>7, <1>8 DEF LinkStep, ForestSpec!Next

\* The pointers implement an ordered forest: every function attaches one root as
\* the first or the last child of a node, takes one child out of the sequence it
\* is in, makes or frees one root without children, or changes no list at all.
THEOREM TreeImplementsForest == Spec => ImplementsForest
<1>1. Init => ForestSpec!Init
  BY DEF Init, ForestSpec!Init, Children
<1>2. IInv /\ TreeInv /\ IInv' /\ TreeInv' /\ [Next]_vars => [ForestSpec!Next]_(ForestSpec!fvars)
  BY NextIsLinkStep, ForestStep
<1>3. QED
  BY <1>1, <1>2, InvHolds, TreeInvHolds, PTL DEF Spec, ImplementsForest, ForestSpec!Spec

-----------------------------------------------------------------------------
(* json_mkcopy. *)

\* Every set of nodes has one with no child in it.
NoDescent == \A X \in SUBSET live : X # {} => \E n \in X : \A m \in X : parent[m] # n

LEMMA NoDescentStep == IInv /\ TreeInv /\ NoDescent /\ LinkStep => NoDescent'
<1> SUFFICES ASSUME IInv, TreeInv, NoDescent, LinkStep, NEW X \in SUBSET live', X # {}
             PROVE  \E n \in X : \A m \in X : parent'[m] # n
  BY DEF NoDescent
<1>0. Pointers /\ Linked /\ live \subseteq Node /\ NULL \notin Node /\ AboveFacts
  BY TypeParts, NullAssumption, AboveIsClosed DEF IInv, Pointers
<1>d. \A Y \in SUBSET live : Y # {} => \E n \in Y : \A m \in Y : parent[m] # n
  BY DEF NoDescent
<1>1. CASE Rests
  BY <1>1, <1>d DEF Rests, links
<1>2. ASSUME NEW c \in Node, Makes(c) PROVE \E n \in X : \A m \in X : parent'[m] # n
  <2>1. /\ c \notin live /\ live' = live \cup {c}
        /\ \A m \in Node : parent'[m] = IF m = c THEN NULL ELSE parent[m]
    BY <1>0, <1>2, MakesEffect
  <2>2. CASE c \in X
    <3>1. \A m \in X : parent'[m] # c
      BY <1>0, <2>1 DEF Linked
    <3>2. QED
      BY <2>2, <3>1
  <2>3. CASE c \notin X
    <3>1. X \in SUBSET live /\ \A m \in X : parent'[m] = parent[m]
      BY <1>0, <2>1, <2>3
    <3>2. QED
      BY <1>d, <3>1
  <2>4. QED
    BY <2>2, <2>3
<1>3. ASSUME NEW p \in Node, NEW c \in Node, Appends(p, c) \/ Prepends(p, c)
      PROVE  \E n \in X : \A m \in X : parent'[m] # n
  <2>1. /\ live' = live /\ c \in live /\ c \notin Above(p)
        /\ \A m \in Node : parent'[m] = IF m = c THEN p ELSE parent[m]
    BY <1>0, <1>3, AppendsEffect, PrependsEffect
  <2>2. CASE c \notin X
    <3>1. X \in SUBSET live /\ \A m \in X : parent'[m] = parent[m]
      BY <1>0, <2>1, <2>2
    <3>2. QED
      BY <1>d, <3>1
  <2>3. CASE c \in X
    <3> DEFINE Y == {m \in X : c \in Above(m)}
    <3>1. c \in Y /\ Y \in SUBSET live
      BY <1>0, <2>1, <2>3 DEF AboveFacts
    <3>2. PICK n \in Y : \A m \in Y : parent[m] # n
      BY <1>d, <3>1
    <3>3. ASSUME NEW m \in X, parent'[m] = n PROVE FALSE
      <4>1. m \in Node /\ n \in Node /\ n # NULL /\ n # p
        BY <1>0, <2>1, <3>2
      <4>2. parent[m] = n
        BY <2>1, <3>3, <4>1
      <4>3. c \in Above(m)
        BY <1>0, <3>2, <4>1, <4>2 DEF AboveFacts
      <4>4. QED
        BY <3>2, <4>2, <4>3
    <3>4. QED
      BY <3>2, <3>3
  <2>4. QED
    BY <2>2, <2>3
<1>4. ASSUME NEW c \in Node, Unlinks(c) PROVE \E n \in X : \A m \in X : parent'[m] # n
  <2>1. /\ live' = live
        /\ \A m \in Node : parent'[m] = IF m = c THEN NULL ELSE parent[m]
    BY <1>0, <1>4, UnlinksEffect
  <2>2. PICK n \in X : \A m \in X : parent[m] # n
    BY <1>d, <2>1
  <2>3. n # NULL /\ \A m \in X : m \in Node
    BY <1>0, <2>1
  <2>4. QED
    BY <2>1, <2>2, <2>3
<1>5. ASSUME NEW c \in Node, Frees(c) PROVE \E n \in X : \A m \in X : parent'[m] # n
  <2>1. X \in SUBSET live /\ parent' = parent
    BY <1>5 DEF Frees, links
  <2>2. QED
    BY <1>d, <2>1
<1>6. QED
  BY <1>1, <1>2, <1>3, <1>4, <1>5 DEF LinkStep

LEMMA NoDescentHolds == Spec => []NoDescent
<1>1. Init => NoDescent
  BY DEF Init, NoDescent
<1>2. IInv /\ TreeInv /\ NoDescent /\ [Next]_vars => NoDescent'
  BY NextIsLinkStep, NoDescentStep
<1>3. QED
  BY <1>1, <1>2, InvHolds, TreeInvHolds, PTL DEF Spec

\* What is seen of a node from outside, by tags, keys and order of the children.
Tree[p \in Node] ==
  <<tag[p], key[p], [i \in DOMAIN Forward(p) |-> Tree[Forward(p)[i]]]>>

TreeFacts ==
  \A p \in Node : Tree[p] = <<tag[p], key[p], [i \in DOMAIN Kids(p) |-> Tree[Kids(p)[i]]]>>

LowEnds == \A X \in SUBSET Node : X # {} => \E n \in X : \A i \in DOMAIN Kids(n) : Kids(n)[i] \notin X

LEMMA LowEndsHold == IInv /\ TreeInv /\ NoDescent => LowEnds
<1> SUFFICES ASSUME IInv, TreeInv, NoDescent, NEW X \in SUBSET Node, X # {}
             PROVE  \E n \in X : \A i \in DOMAIN Kids(n) : Kids(n)[i] \notin X
  BY DEF LowEnds
<1>0. ListFacts
  BY ListsHold
<1> DEFINE Y == X \cap live
<1>1. \A n \in Node : \A i \in DOMAIN Kids(n) : Kids(n)[i] \in live /\ parent[Kids(n)[i]] = n
  BY <1>0 DEF ListFacts
<1>2. CASE Y = {}
  BY <1>1, <1>2
<1>3. CASE Y # {}
  <2>1. PICK n \in Y : \A m \in Y : parent[m] # n
    BY <1>3 DEF NoDescent
  <2>2. QED
    BY <1>1, <2>1
<1>4. QED
  BY <1>2, <1>3

\* There is such a function: two partial ones agree where both are defined, so all
\* make one, and a least node that none has could be added to it.
LEMMA TreeHolds == IInv /\ TreeInv /\ NoDescent => TreeFacts
<1> SUFFICES ASSUME IInv, TreeInv, NoDescent PROVE TreeFacts
  OBVIOUS
<1> DEFINE Shape(g, p) == <<tag[p], key[p], [i \in DOMAIN Kids(p) |-> g[Kids(p)[i]]]>>
           Part(g, S) == \A p \in S : g[p] = Shape(g, p) /\ \A i \in DOMAIN Kids(p) : Kids(p)[i] \in S
           D == {p \in Node : \E S \in SUBSET Node : \E g : p \in S /\ Part(g, S)}
           Is(v, p) == \E S \in SUBSET Node : \E g : p \in S /\ Part(g, S) /\ v = g[p]
           V(p) == CHOOSE v : Is(v, p)
<1>0. ListFacts /\ LowEnds
  BY ListsHold, LowEndsHold
<1>k. \A p \in Node : \A i \in DOMAIN Kids(p) : Kids(p)[i] \in Node
  <2>1. live \subseteq Node
    BY TypeParts DEF IInv, Pointers
  <2>2. QED
    BY <1>0, <2>1 DEF ListFacts
<1>s. \A g, h, p : (\A i \in DOMAIN Kids(p) : g[Kids(p)[i]] = h[Kids(p)[i]]) => Shape(g, p) = Shape(h, p)
  OBVIOUS
<1> HIDE DEF Shape
<1>1. ASSUME NEW S \in SUBSET Node, NEW T \in SUBSET Node, NEW g, NEW h, Part(g, S), Part(h, T)
      PROVE  \A p \in S \cap T : g[p] = h[p]
  <2> DEFINE X == {p \in S \cap T : g[p] # h[p]}
  <2>1. SUFFICES ASSUME X # {} PROVE FALSE
    OBVIOUS
  <2>2. PICK p \in X : \A i \in DOMAIN Kids(p) : Kids(p)[i] \notin X
    BY <1>0, <2>1 DEF LowEnds
  <2>3. \A i \in DOMAIN Kids(p) : g[Kids(p)[i]] = h[Kids(p)[i]]
    BY <1>1, <2>2
  <2>4. Shape(g, p) = Shape(h, p)
    BY <1>s, <2>3
  <2>5. QED
    BY <1>1, <2>2, <2>4
<1>2. ASSUME NEW S \in SUBSET Node, NEW g, Part(g, S), NEW p \in S PROVE V(p) = g[p]
  <2>1. Is(g[p], p)
    BY <1>2
  <2>2. Is(V(p), p)
    BY <2>1
  <2> HIDE DEF V
  <2>3. PICK T \in SUBSET Node : \E h : p \in T /\ Part(h, T) /\ V(p) = h[p]
    BY <2>2
  <2>4. PICK h : p \in T /\ Part(h, T) /\ V(p) = h[p]
    BY <2>3
  <2> HIDE DEF Part
  <2>5. g[p] = h[p]
    BY <1>1, <1>2, <2>4
  <2>6. QED
    BY <2>4, <2>5
<1> DEFINE w == [p \in Node |-> V(p)]
<1>3. Part(w, D)
  <2>1. SUFFICES ASSUME NEW p \in D
                 PROVE  w[p] = Shape(w, p) /\ \A i \in DOMAIN Kids(p) : Kids(p)[i] \in D
    OBVIOUS
  <2>2. PICK S \in SUBSET Node : \E g : p \in S /\ Part(g, S)
    OBVIOUS
  <2>3. PICK g : p \in S /\ Part(g, S)
    BY <2>2
  <2>4. \A q \in S : q \in D
    BY <2>3
  <2> HIDE DEF D
  <2>5. \A q \in S : w[q] = V(q)
    OBVIOUS
  <2> HIDE DEF w, V
  <2>6. \A q \in S : V(q) = g[q]
    BY <1>2, <2>3
  <2>7. \A i \in DOMAIN Kids(p) : Kids(p)[i] \in S
    BY <2>3
  <2>8. Shape(w, p) = Shape(g, p)
    BY <1>s, <2>5, <2>6, <2>7
  <2>9. QED
    BY <2>3, <2>4, <2>5, <2>6, <2>7, <2>8
<1>4. \A S \in SUBSET Node : \A g : Part(g, S) => S \subseteq D
  OBVIOUS
<1>5. D \subseteq Node
  OBVIOUS
<1> HIDE DEF w, V, D
<1>6. D = Node
  <2> DEFINE X == Node \ D
  <2>1. SUFFICES ASSUME X # {} PROVE FALSE
    BY <1>5
  <2>2. PICK n \in X : \A i \in DOMAIN Kids(n) : Kids(n)[i] \notin X
    BY <1>0, <2>1 DEF LowEnds
  <2> DEFINE h == [p \in Node |-> IF p = n THEN Shape(w, n) ELSE w[p]]
             S == D \cup {n}
  <2>3. n \notin D /\ \A i \in DOMAIN Kids(n) : Kids(n)[i] \in D
    BY <1>k, <2>2
  <2>4. \A p \in D : h[p] = w[p]
    BY <1>5, <2>3
  <2>5. h[n] = Shape(w, n)
    OBVIOUS
  <2> HIDE DEF h
  <2>6. ASSUME NEW p \in S
        PROVE  h[p] = Shape(h, p) /\ \A i \in DOMAIN Kids(p) : Kids(p)[i] \in S
    <3>1. \A i \in DOMAIN Kids(p) : Kids(p)[i] \in D
      BY <1>3, <2>3
    <3>2. Shape(h, p) = Shape(w, p)
      BY <1>s, <2>4, <3>1
    <3>3. h[p] = Shape(w, p)
      BY <1>3, <2>4, <2>5
    <3>4. QED
      BY <3>1, <3>2, <3>3
  <2>7. S \subseteq D
    BY <1>4, <1>5, <2>6
  <2>8. QED
    BY <2>3, <2>7
<1>7. \A p \in Node : w[p] = Shape(w, p)
  BY <1>3, <1>6
<1>8. \A p \in Node : Forward(p) = Kids(p)
  BY DEF Forward, Kids, Fwd
<1> DEFINE Solves(f) == f = [p \in Node |-> <<tag[p], key[p], [i \in DOMAIN Forward(p) |-> f[Forward(p)[i]]]>>]
<1>9. Solves(w)
  <2>1. w = [p \in Node |-> w[p]]
    BY DEF w
  <2>2. \A p \in Node : w[p] = <<tag[p], key[p], [i \in DOMAIN Forward(p) |-> w[Forward(p)[i]]]>>
    BY <1>7, <1>8 DEF Shape
  <2>3. QED
    BY <2>1, <2>2
<1>10. Solves(Tree)
  BY <1>9 DEF Tree
<1>11. \A p \in Node : Tree[p] = <<tag[p], key[p], [i \in DOMAIN Forward(p) |-> Tree[Forward(p)[i]]]>>
  BY <1>10
<1>12. QED
  BY <1>8, <1>11 DEF TreeFacts

\* What is seen of a node does not change if nothing below it does.
LEMMA TreeAgrees ==
  ASSUME IInv, TreeInv, NoDescent, TreeFacts', NEW Z \in SUBSET Node,
         \A m \in Z : /\ tag'[m] = tag[m] /\ key'[m] = key[m] /\ Kids(m)' = Kids(m)
                      /\ \A i \in DOMAIN Kids(m) : Kids(m)[i] \in Z
  PROVE  \A m \in Z : Tree'[m] = Tree[m]
<1> DEFINE X == {m \in Z : Tree'[m] # Tree[m]}
<1>1. SUFFICES ASSUME X # {} PROVE FALSE
  OBVIOUS
<1>2. PICK m \in X : \A i \in DOMAIN Kids(m) : Kids(m)[i] \notin X
  BY <1>1, LowEndsHold DEF LowEnds
<1>3. m \in Z /\ m \in Node /\ Tree'[m] # Tree[m]
  BY <1>2
<1>4. Tree[m] = <<tag[m], key[m], [i \in DOMAIN Kids(m) |-> Tree[Kids(m)[i]]]>>
  BY <1>3, TreeHolds DEF TreeFacts
<1>5. \A p \in Node : Tree'[p] = <<tag'[p], key'[p], [i \in DOMAIN Kids(p)' |-> Tree'[Kids(p)'[i]]]>>
  BY DEF TreeFacts
<1>6. Tree'[m] = <<tag'[m], key'[m], [i \in DOMAIN Kids(m)' |-> Tree'[Kids(m)'[i]]]>>
  BY <1>3, <1>5
<1>7. tag'[m] = tag[m] /\ key'[m] = key[m] /\ Kids(m)' = Kids(m)
  BY <1>3
<1>8. \A i \in DOMAIN Kids(m) : Tree'[Kids(m)[i]] = Tree[Kids(m)[i]]
  BY <1>2, <1>3
<1>9. Tree'[m] = <<tag[m], key[m], [i \in DOMAIN Kids(m) |-> Tree'[Kids(m)[i]]]>>
  BY <1>6, <1>7
<1>10. [i \in DOMAIN Kids(m) |-> Tree'[Kids(m)[i]]] = [i \in DOMAIN Kids(m) |-> Tree[Kids(m)[i]]]
  BY <1>8
<1>11. QED
  BY <1>3, <1>4, <1>9, <1>10

\* What stays when a node is made, and when a root is appended to another.
LEMMA MakeKeeps ==
  ASSUME IInv, TreeInv, NoDescent, ListFacts', TreeFacts', NEW c \in Node, Makes(c),
         \A m \in Node \ {c} : tag'[m] = tag[m] /\ key'[m] = key[m]
  PROVE  /\ \A n \in Node : Kids(n)' = Kids(n)
         /\ Kids(c) = << >>
         /\ \A m \in Node \ {c} : Tree'[m] = Tree[m]
         /\ \A m \in Node \ {c} : prev'[m] = prev[m] /\ Bwd'[prev[m]] = Bwd[prev[m]]
<1>0. /\ Pointers /\ live \subseteq Node /\ NULL \notin Node /\ Ptr = Node \cup {NULL}
      /\ ListFacts
  BY TypeParts, NullAssumption, ListsHold DEF IInv, Pointers, Ptr
<1>1. /\ c \notin live
      /\ \A m \in Node : prev'[m] = IF m = c THEN NULL ELSE prev[m]
  BY <1>0, MakesEffect
<1>2. parent[c] = NULL /\ head[c] = NULL
  BY <1>1 DEF TreeInv, Blank
<1>3. \A n \in Node : Kids(n)' = Kids(n)
  BY MakeKids
<1>4. Kids(c) = << >>
  BY <1>0, <1>2 DEF Kids, ListFacts, FwdFacts
<1> DEFINE Z == Node \ {c}
<1>5. \A m \in Z : \A i \in DOMAIN Kids(m) : Kids(m)[i] \in Z
  BY <1>0, <1>1 DEF ListFacts
<1>6. \A m \in Z : Tree'[m] = Tree[m]
  BY <1>3, <1>5, TreeAgrees
<1>7. \A m \in Node : prev[m] # c /\ prev[m] \in Ptr
  BY <1>0, <1>2, Unpointed DEF Pointers
<1>8. \A m \in Z : prev'[m] = prev[m] /\ (prev[m] = NULL \/ prev[m] \in Z)
  BY <1>0, <1>1, <1>7
<1>9. \A m \in Z : Bwd'[m] = Bwd[m]
  BY <1>8, BwdAgrees DEF ListFacts
<1>10. Bwd'[NULL] = Bwd[NULL]
  BY <1>0 DEF ListFacts, BwdFacts
<1>11. \A m \in Z : prev'[m] = prev[m] /\ Bwd'[prev[m]] = Bwd[prev[m]]
  BY <1>8, <1>9, <1>10
<1>12. QED
  BY <1>3, <1>4, <1>6, <1>11

LEMMA AppendKeeps ==
  ASSUME IInv, TreeInv, NoDescent, ListFacts', TreeFacts', NEW p \in Node, NEW c \in Node,
         Appends(p, c), parent[p] = NULL, tag' = tag, key' = key
  PROVE  /\ \A n \in Node : Kids(n)' = IF n = p THEN Append(Kids(n), c) ELSE Kids(n)
         /\ \A m \in Node \ {p} : Tree'[m] = Tree[m]
         /\ \A m \in Node \ {c} : /\ prev'[m] = prev[m]
                                  /\ Bwd'[prev[m]] = Bwd[prev[m]] /\ Bwd'[m] = Bwd[m]
<1>0. /\ Pointers /\ live \subseteq Node /\ NULL \notin Node /\ Ptr = Node \cup {NULL}
      /\ ListFacts
  BY TypeParts, NullAssumption, ListsHold DEF IInv, Pointers, Ptr
<1>1. /\ parent[c] = NULL
      /\ \A m \in Node : prev'[m] = IF m = c THEN tail[p] ELSE prev[m]
  BY <1>0, AppendsEffect
<1>2. \A n \in Node : Kids(n)' = IF n = p THEN Append(Kids(n), c) ELSE Kids(n)
  BY AppendKids
<1> DEFINE Y == Node \ {p}
           Z == Node \ {c}
<1>3. \A m \in Y : \A i \in DOMAIN Kids(m) : Kids(m)[i] \in Y
  BY <1>0 DEF ListFacts
<1>4. \A m \in Y : Tree'[m] = Tree[m]
  BY <1>2, <1>3, TreeAgrees
<1>5. \A m \in Node : prev[m] # c /\ prev[m] \in Ptr
  BY <1>0, <1>1, Unpointed DEF Pointers
<1>6. \A m \in Z : prev'[m] = prev[m] /\ (prev[m] = NULL \/ prev[m] \in Z)
  BY <1>0, <1>1, <1>5
<1>7. \A m \in Z : Bwd'[m] = Bwd[m]
  BY <1>6, BwdAgrees DEF ListFacts
<1>8. Bwd'[NULL] = Bwd[NULL]
  BY <1>0 DEF ListFacts, BwdFacts
<1>9. \A m \in Z : prev'[m] = prev[m] /\ Bwd'[prev[m]] = Bwd[prev[m]] /\ Bwd'[m] = Bwd[m]
  BY <1>6, <1>7, <1>8
<1>10. QED
  BY <1>2, <1>4, <1>9

\* The children of an original that are copied already.
Done(i) ==
  IF stack[i].child = NULL THEN Kids(Original(i)) ELSE Bwd[prev[stack[i].child]]

\* The copy of a call has as many children as it has copied, and they look like
\* them; and no call copies into what it copies from.
Copied ==
  mode = "copy" =>
    \A i \in DOMAIN stack :
      /\ stack[i].node # arg
      /\ Len(Kids(stack[i].node)) = Len(Done(i))
      /\ \A k \in 1 .. Len(Done(i)) : Tree[Kids(stack[i].node)[k]] = Tree[Done(i)[k]]

CopyInv == IInv /\ TreeInv /\ KeyInv /\ NoDescent /\ Copied

LEMMA FrameFacts ==
  ASSUME CopyInv, mode = "copy", NEW i \in DOMAIN stack
  PROVE  /\ stack[i].node \in live /\ parent[stack[i].node] = NULL
         /\ Original(i) \in live
         /\ stack[i].child # NULL => /\ stack[i].child \in live /\ stack[i].child \in Node
                                     /\ parent[stack[i].child] = Original(i)
         /\ Done(i) \in Seq(Node)
         /\ \A k \in 1 .. Len(Done(i)) : Done(i)[k] \in live /\ parent[Done(i)[k]] # NULL
         /\ \A k \in 1 .. Len(Done(i)) : /\ Kids(stack[i].node)[k] \in live
                                         /\ parent[Kids(stack[i].node)[k]] # NULL
<1>0. /\ Pointers /\ live \subseteq Node /\ NULL \notin Node /\ Ptr = Node \cup {NULL}
      /\ ListFacts
  BY TypeParts, NullAssumption, ListsHold DEF CopyInv, IInv, Pointers, Ptr
<1>1. /\ stack[i].node \in live /\ parent[stack[i].node] = NULL
      /\ Original(i) \in live
      /\ stack[i].child # NULL => stack[i].child \in live /\ parent[stack[i].child] = Original(i)
  BY DEF CopyInv, IInv, CopyingIsSafe, KeyInv, CopyFrames
<1>2. PICK o \in live : o = Original(i)
  BY <1>1
<1>3. PICK n \in live : n = stack[i].node
  BY <1>1
<1>4. \A m \in Node : /\ Kids(m) \in Seq(Node)
                      /\ \A k \in DOMAIN Kids(m) : Kids(m)[k] \in live /\ parent[Kids(m)[k]] = m
  BY <1>0 DEF ListFacts
<1>5. \A s \in Seq(Node) : Len(s) \in Nat /\ DOMAIN s = 1 .. Len(s)
  OBVIOUS
<1>6. /\ Done(i) \in Seq(Node)
      /\ \A k \in 1 .. Len(Done(i)) : Done(i)[k] \in live /\ parent[Done(i)[k]] = o
  <2>1. CASE stack[i].child = NULL
    <3>1. Done(i) = Kids(o)
      BY <1>2, <2>1 DEF Done
    <3>2. QED
      BY <1>0, <1>4, <1>5, <3>1
  <2>2. CASE stack[i].child # NULL
    <3>1. PICK h \in live : h = stack[i].child
      BY <1>1, <2>2
    <3>2. PICK s : s = Bwd[prev[h]]
      OBVIOUS
    <3>3. Kids(o) = s \o Fwd[h] /\ Done(i) = s
      BY <1>0, <1>1, <1>2, <2>2, <3>1, <3>2 DEF ListFacts, Done
    <3>4. s \in Seq(Node) /\ Fwd[h] \in Seq(Node)
      <4>1. << >> \in Seq(Node) /\ prev[h] \in Ptr /\ h \in Node
        BY <1>0 DEF Pointers
      <4>2. QED
        BY <1>0, <3>2, <4>1 DEF ListFacts, FwdFacts, BwdFacts
    <3>5. \A a, b \in Seq(Node) : \A k \in 1 .. Len(a) : k \in DOMAIN (a \o b) /\ (a \o b)[k] = a[k]
      OBVIOUS
    <3>6. \A k \in 1 .. Len(s) : k \in DOMAIN Kids(o) /\ Kids(o)[k] = s[k]
      BY <3>3, <3>4, <3>5
    <3>7. QED
      BY <1>0, <1>4, <3>3, <3>4, <3>6
  <2>3. QED
    BY <2>1, <2>2
<1>7. Len(Kids(n)) = Len(Done(i))
  BY <1>3 DEF CopyInv, Copied
<1>8. \A k \in 1 .. Len(Done(i)) : Kids(n)[k] \in live /\ parent[Kids(n)[k]] = n
  BY <1>0, <1>4, <1>5, <1>7
<1>9. QED
  BY <1>0, <1>1, <1>2, <1>3, <1>6, <1>8
\* A call that begins has copied nothing, and its copy has no children.
LEMMA NothingDone ==
  ASSUME CopyInv, ListFacts', TreeFacts', NEW h \in live, NEW c \in Node, Makes(c),
         \A m \in Node \ {c} : tag'[m] = tag[m] /\ key'[m] = key[m]
  PROVE  /\ Kids(c)' = << >>
         /\ head[h] = NULL => Kids(h)' = << >>
         /\ head[h] # NULL => Bwd'[prev'[head[h]]] = << >>
<1>0. Pointers /\ Linked /\ live \subseteq Node /\ NULL \notin Node /\ ListFacts
  BY TypeParts, NullAssumption, ListsHold DEF CopyInv, IInv, Pointers
<1>1. c \notin live /\ h \in Node
  BY <1>0, MakesEffect
<1>2. /\ \A n \in Node : Kids(n)' = Kids(n)
      /\ Kids(c) = << >>
      /\ \A m \in Node \ {c} : prev'[m] = prev[m] /\ Bwd'[prev[m]] = Bwd[prev[m]]
  BY MakeKeeps DEF CopyInv
<1>3. Kids(c)' = << >>
  BY <1>2
<1>4. ASSUME head[h] = NULL PROVE Kids(h)' = << >>
  <2>1. Kids(h) = << >>
    BY <1>0, <1>4 DEF Kids, ListFacts, FwdFacts
  <2>2. QED
    BY <1>1, <1>2, <2>1
<1>5. ASSUME head[h] # NULL PROVE Bwd'[prev'[head[h]]] = << >>
  <2>1. head[h] \in live /\ prev[head[h]] = NULL
    BY <1>0, <1>1, <1>5 DEF Linked
  <2>2. prev'[head[h]] = NULL /\ Bwd'[NULL] = Bwd[NULL]
    BY <1>0, <1>1, <1>2, <2>1
  <2>3. QED
    BY <1>0, <2>2 DEF ListFacts, BwdFacts
<1>6. QED
  BY <1>3, <1>4, <1>5

LEMMA CopiedStart ==
  ASSUME CopyInv, ListFacts', TreeFacts', NEW h \in Node, json_mkcopy(h)
  PROVE  Copied'
<1>0. Pointers /\ NULL \notin Node /\ live \subseteq Node
  BY TypeParts, NullAssumption DEF CopyInv, IInv, Pointers
<1>1. h \in live /\ arg' = h
  BY DEF json_mkcopy, Begin
<1>2. PICK c \in Node : mknode(c, tag[h], key[h]) /\ stack' = <<Frame(c, head[h])>>
  BY DEF json_mkcopy
<1>3. Makes(c) /\ c # h
  BY <1>1, <1>2 DEF Makes, mknode
<1>4. \A m \in Node \ {c} : tag'[m] = tag[m] /\ key'[m] = key[m]
  BY <1>2, TypeParts DEF mknode, CopyInv, IInv, Data
<1>5. /\ Kids(c)' = << >>
      /\ head[h] = NULL => Kids(h)' = << >>
      /\ head[h] # NULL => Bwd'[prev'[head[h]]] = << >>
  BY <1>1, <1>3, <1>4, NothingDone
<1>6. /\ \A i \in DOMAIN stack' : i = 1
      /\ stack'[1].node = c /\ stack'[1].child = head[h]
  BY <1>2 DEF Frame
<1>7. Original(1)' = h
  BY <1>1 DEF Original
<1>8. Done(1)' = << >>
  BY <1>5, <1>6, <1>7 DEF Done, Kids
<1>9. Kids(stack[1].node)' = << >>
  BY <1>5, <1>6 DEF Kids
<1>10. QED
  BY <1>1, <1>3, <1>6, <1>8, <1>9 DEF Copied

\* A frame that a step leaves alone is as good as before, if the step keeps the
\* lists it is about and what is seen of their nodes.
LEMMA FrameKept ==
  ASSUME CopyInv, mode = "copy", NEW i \in DOMAIN stack, i \in DOMAIN stack',
         stack'[i] = stack[i], Original(i)' = Original(i),
         Kids(Original(i))' = Kids(Original(i)), Kids(stack[i].node)' = Kids(stack[i].node),
         stack[i].child # NULL => Bwd'[prev'[stack[i].child]] = Bwd[prev[stack[i].child]],
         \A m \in live : parent[m] # NULL => Tree'[m] = Tree[m]
  PROVE  /\ Len(Kids(stack[i].node)') = Len(Done(i)')
         /\ \A k \in 1 .. Len(Done(i)') : Tree'[Kids(stack[i].node)'[k]] = Tree'[Done(i)'[k]]
<1>1. Done(i)' = Done(i)
  <2>1. CASE stack[i].child = NULL
    BY <2>1 DEF Done
  <2>2. CASE stack[i].child # NULL
    BY <2>2 DEF Done
  <2>3. QED
    BY <2>1, <2>2
<1>2. Kids(stack[i].node)' = Kids(stack[i].node)
  BY DEF Kids
<1>3. /\ Len(Kids(stack[i].node)) = Len(Done(i))
      /\ \A k \in 1 .. Len(Done(i)) : Tree[Kids(stack[i].node)[k]] = Tree[Done(i)[k]]
  BY DEF CopyInv, Copied
<1>4. /\ \A k \in 1 .. Len(Done(i)) : Done(i)[k] \in live /\ parent[Done(i)[k]] # NULL
      /\ \A k \in 1 .. Len(Done(i)) : /\ Kids(stack[i].node)[k] \in live
                                      /\ parent[Kids(stack[i].node)[k]] # NULL
  BY FrameFacts
<1>5. QED
  BY <1>1, <1>2, <1>3, <1>4

LEMMA CopiedChild ==
  ASSUME CopyInv, ListFacts', TreeFacts', CopyChild
  PROVE  Copied'
<1>0. Pointers /\ NULL \notin Node /\ live \subseteq Node /\ ListFacts
  BY TypeParts, NullAssumption, ListsHold DEF CopyInv, IInv, Pointers
<1>1. PICK c \in Node : Grown(c)
  BY CopyChildGrows DEF CopyInv
<1>l. PICK L \in Nat \ {0} : L = Len(stack)
  BY <1>1 DEF Grown
<1>h. PICK h \in Node : h = Top.child
  BY <1>1 DEF Grown
<1>2. /\ mode = "copy" /\ arg' = arg
      /\ h # NULL /\ h = stack[L].child /\ DOMAIN stack = 1 .. L
      /\ mknode(c, tag[h], key[h])
      /\ DOMAIN stack' = 1 .. L + 1
      /\ \A i \in 1 .. L : stack'[i] = stack[i]
      /\ stack'[L + 1].node = c /\ stack'[L + 1].child = head[h]
  BY <1>1, <1>l, <1>h DEF Grown
<1>3. /\ Makes(c) /\ c \notin live
      /\ \A m \in Node \ {c} : tag'[m] = tag[m] /\ key'[m] = key[m]
  BY <1>2, TypeParts DEF Makes, mknode, CopyInv, IInv, Data
<1>4. L \in 1 .. L /\ 1 \in 1 .. L /\ L + 1 # 1 /\ L + 1 - 1 = L
  BY <1>l
<1>5. h \in live
  BY <1>2, <1>4, FrameFacts
<1>6. arg \in live
  BY <1>2, <1>4, FrameFacts DEF Original
<1>7. /\ \A n \in Node : Kids(n)' = Kids(n)
      /\ \A m \in Node \ {c} : Tree'[m] = Tree[m]
      /\ \A m \in Node \ {c} : prev'[m] = prev[m] /\ Bwd'[prev[m]] = Bwd[prev[m]]
  BY <1>3, MakeKeeps DEF CopyInv
<1>8. /\ Kids(c)' = << >>
      /\ head[h] = NULL => Kids(h)' = << >>
      /\ head[h] # NULL => Bwd'[prev'[head[h]]] = << >>
  BY <1>3, <1>5, NothingDone
<1>9. ASSUME NEW i \in 1 .. L
      PROVE  /\ stack'[i].node # arg'
             /\ Len(Kids(stack[i].node)') = Len(Done(i)')
             /\ \A k \in 1 .. Len(Done(i)') : Tree'[Kids(stack[i].node)'[k]] = Tree'[Done(i)'[k]]
  <2>1. i \in DOMAIN stack /\ i \in DOMAIN stack' /\ stack'[i] = stack[i] /\ (i # 1 => i - 1 \in 1 .. L)
    BY <1>l, <1>2
  <2>2. Original(i)' = Original(i)
    BY <1>2, <2>1 DEF Original
  <2>3. /\ stack[i].node \in live /\ Original(i) \in live
        /\ stack[i].child # NULL => stack[i].child \in live
    BY <1>2, <2>1, FrameFacts
  <2>4. Kids(Original(i))' = Kids(Original(i))
    <3>1. PICK o \in Node : o = Original(i)
      BY <1>0, <2>3
    <3>2. Kids(Original(i))' = Kids(o)'
      BY <2>2, <3>1 DEF Kids
    <3>3. QED
      BY <1>7, <3>1, <3>2
  <2>5. Kids(stack[i].node)' = Kids(stack[i].node)
    <3>1. PICK n \in Node : n = stack[i].node
      BY <1>0, <2>3
    <3>2. Kids(stack[i].node)' = Kids(n)'
      BY <2>1, <3>1 DEF Kids
    <3>3. QED
      BY <1>7, <3>1, <3>2
  <2>6. stack[i].child # NULL => Bwd'[prev'[stack[i].child]] = Bwd[prev[stack[i].child]]
    BY <1>0, <1>3, <1>7, <2>3
  <2>7. \A m \in live : parent[m] # NULL => Tree'[m] = Tree[m]
    BY <1>0, <1>3, <1>7
  <2>8. /\ Len(Kids(stack[i].node)') = Len(Done(i)')
        /\ \A k \in 1 .. Len(Done(i)') : Tree'[Kids(stack[i].node)'[k]] = Tree'[Done(i)'[k]]
    BY <1>2, <2>1, <2>2, <2>4, <2>5, <2>6, <2>7, FrameKept
  <2>9. stack'[i].node # arg'
    BY <1>2, <2>1 DEF CopyInv, Copied
  <2>10. QED
    BY <2>8, <2>9
<1>10. stack'[L + 1].node # arg' /\ Kids(stack[L + 1].node)' = << >> /\ Done(L + 1)' = << >>
  <2>1. Original(L + 1)' = h
    BY <1>2, <1>4 DEF Original
  <2>2. Done(L + 1)' = << >>
    BY <1>2, <1>8, <2>1 DEF Done, Kids
  <2>3. Kids(stack[L + 1].node)' = << >>
    BY <1>2, <1>8 DEF Kids
  <2>4. QED
    BY <1>2, <1>3, <1>6, <2>2, <2>3
<1>11. \A i \in DOMAIN stack' : i \in 1 .. L \/ i = L + 1
  BY <1>2, <1>l
<1>12. QED
  BY <1>9, <1>10, <1>11 DEF Copied

\* No call copies from a node that another builds.
LEMMA OriginalsApart ==
  ASSUME CopyInv, mode = "copy", NEW i \in DOMAIN stack, NEW j \in DOMAIN stack
  PROVE  Original(i) # stack[j].node
<1>1. CASE i = 1
  BY <1>1 DEF Original, CopyInv, Copied
<1>2. CASE i # 1
  <2>1. stack \in Seq(Call) /\ DOMAIN stack = 1 .. Len(stack) /\ Len(stack) \in Nat
    BY TypeParts DEF CopyInv, IInv, Calls
  <2>2. i - 1 \in DOMAIN stack /\ i - 1 < Len(stack)
    BY <1>2, <2>1
  <2>3. stack[i - 1].child # NULL
    BY <2>2 DEF CopyInv, IInv, CopyingIsSafe
  <2>4. /\ parent[stack[i - 1].child] = Original(i - 1) /\ Original(i - 1) \in live
        /\ parent[stack[j].node] = NULL
    BY <2>2, <2>3, FrameFacts
  <2>5. NULL \notin live
    BY TypeParts, NullAssumption DEF CopyInv, IInv, Pointers
  <2>6. Original(i) = stack[i - 1].child
    BY <1>2 DEF Original
  <2>7. QED
    BY <2>4, <2>5, <2>6
<1>3. QED
  BY <1>1, <1>2

\* When a call is through, its copy looks like its original.
LEMMA CopyLooksAlike ==
  ASSUME CopyInv, mode = "copy", NEW i \in DOMAIN stack, stack[i].child = NULL
  PROVE  Tree[stack[i].node] = Tree[Original(i)]
<1>0. live \subseteq Node /\ ListFacts /\ TreeFacts
  BY TypeParts, ListsHold, TreeHolds DEF CopyInv, IInv, Pointers
<1>1. PICK c \in Node : c = stack[i].node
  BY <1>0, FrameFacts
<1>2. PICK h \in Node : h = Original(i)
  BY <1>0, FrameFacts
<1>3. tag[c] = tag[h] /\ key[c] = key[h]
  BY <1>1, <1>2 DEF CopyInv, KeyInv, CopyFrames
<1>4. Done(i) = Kids(h)
  BY <1>2 DEF Done
<1>5. /\ Len(Kids(c)) = Len(Kids(h))
      /\ \A k \in 1 .. Len(Kids(h)) : Tree[Kids(c)[k]] = Tree[Kids(h)[k]]
  BY <1>1, <1>4 DEF CopyInv, Copied
<1>6. Kids(c) \in Seq(Node) /\ Kids(h) \in Seq(Node)
  BY <1>0 DEF ListFacts
<1>7. DOMAIN Kids(c) = 1 .. Len(Kids(h)) /\ DOMAIN Kids(h) = 1 .. Len(Kids(h))
  BY <1>5, <1>6
<1>8. [k \in DOMAIN Kids(c) |-> Tree[Kids(c)[k]]] = [k \in DOMAIN Kids(h) |-> Tree[Kids(h)[k]]]
  BY <1>5, <1>7
<1>9. /\ Tree[c] = <<tag[c], key[c], [k \in DOMAIN Kids(c) |-> Tree[Kids(c)[k]]]>>
      /\ Tree[h] = <<tag[h], key[h], [k \in DOMAIN Kids(h) |-> Tree[Kids(h)[k]]]>>
  BY <1>0 DEF TreeFacts
<1>10. Tree[c] = Tree[h]
  BY <1>3, <1>8, <1>9
<1>11. QED
  BY <1>1, <1>2, <1>10

LEMMA CopiedReturn ==
  ASSUME CopyInv, ListFacts', TreeFacts', CopyReturn
  PROVE  Copied'
<1>0. Pointers /\ Linked /\ NULL \notin Node /\ live \subseteq Node /\ ListFacts
  BY TypeParts, NullAssumption, ListsHold DEF CopyInv, IInv, Pointers
<1>1. PICK l \in Nat : Shrunk(l)
  BY CopyReturnShrinks DEF CopyInv
<1>c. PICK c : c = Top.node
  OBVIOUS
<1>p. PICK p : p = Below.node
  OBVIOUS
<1>h. PICK h : h = Below.child
  OBVIOUS
<1>2. /\ mode = "copy" /\ tag' = tag /\ key' = key /\ arg' = arg
      /\ l \in Nat \ {0} /\ DOMAIN stack = 1 .. l + 1 /\ DOMAIN stack' = 1 .. l
      /\ c = stack[l + 1].node /\ stack[l + 1].child = NULL
      /\ p = stack[l].node /\ h = stack[l].child /\ h # NULL /\ h \in Node
      /\ \A i \in 1 .. l : stack'[i].node = stack[i].node
      /\ \A i \in 1 .. l - 1 : stack'[i] = stack[i]
      /\ stack'[l].child = next[h]
      /\ Appends(p, c)
  BY <1>1, <1>c, <1>p, <1>h DEF Shrunk
<1>3. l \in 1 .. l + 1 /\ l + 1 \in 1 .. l + 1 /\ l + 1 # 1 /\ l + 1 - 1 = l
  BY <1>2
<1>4. \A i \in 1 .. l : i \in 1 .. l + 1 /\ (i = l \/ i \in 1 .. l - 1) /\ (i # 1 => i - 1 \in 1 .. l - 1)
  BY <1>2
<1>5. /\ p \in live /\ p \in Node /\ parent[p] = NULL
      /\ c \in live /\ c \in Node /\ parent[c] = NULL /\ c # p
  <2>1. /\ p \in live /\ parent[p] = NULL /\ c \in live /\ parent[c] = NULL
    BY <1>2, <1>3, FrameFacts
  <2>2. c # p
    BY <1>2, <1>3 DEF CopyInv, IInv, CopyingIsSafe
  <2>3. QED
    BY <1>0, <2>1, <2>2
<1>6. PICK o \in live : o = Original(l) /\ o # p /\ parent[h] = o /\ h \in live
  BY <1>2, <1>3, FrameFacts, OriginalsApart
<1>7. Tree[c] = Tree[h]
  <2>1. Original(l + 1) = h
    BY <1>2, <1>3 DEF Original
  <2>2. QED
    BY <1>2, <1>3, <2>1, CopyLooksAlike
<1>8. /\ \A n \in Node : Kids(n)' = IF n = p THEN Append(Kids(n), c) ELSE Kids(n)
      /\ \A m \in Node \ {p} : Tree'[m] = Tree[m]
      /\ \A m \in Node \ {c} : /\ prev'[m] = prev[m]
                               /\ Bwd'[prev[m]] = Bwd[prev[m]] /\ Bwd'[m] = Bwd[m]
  BY <1>2, <1>5, AppendKeeps DEF CopyInv
<1>9. \A i \in 1 .. l : Original(i)' = Original(i) /\ stack'[i].node # arg'
  <2>1. \A i \in 1 .. l : Original(i)' = Original(i)
    BY <1>2, <1>4 DEF Original
  <2>2. QED
    BY <1>2, <1>4, <2>1 DEF CopyInv, Copied
<1>10. \A m \in live : parent[m] # NULL => m # p /\ m # c /\ m \in Node /\ Tree'[m] = Tree[m]
  BY <1>0, <1>5, <1>8
<1>11. ASSUME NEW i \in 1 .. l - 1
       PROVE  /\ Len(Kids(stack[i].node)') = Len(Done(i)')
              /\ \A k \in 1 .. Len(Done(i)') : Tree'[Kids(stack[i].node)'[k]] = Tree'[Done(i)'[k]]
  <2>1. i \in 1 .. l /\ i \in DOMAIN stack /\ i \in DOMAIN stack' /\ stack'[i] = stack[i] /\ i # l
    BY <1>2, <1>3
  <2>2. Original(i)' = Original(i)
    BY <1>9, <2>1
  <2>3. Kids(Original(i))' = Kids(Original(i))
    <3>1. PICK q \in Node : q = Original(i)
      BY <1>0, <1>2, <2>1, FrameFacts
    <3>2. q # p
      BY <1>2, <1>3, <2>1, <3>1, OriginalsApart
    <3>3. Kids(Original(i))' = Kids(q)'
      BY <2>2, <3>1 DEF Kids
    <3>4. QED
      BY <1>8, <3>1, <3>2, <3>3
  <2>4. Kids(stack[i].node)' = Kids(stack[i].node)
    <3>1. PICK n \in Node : n = stack[i].node
      BY <1>0, <1>2, <2>1, FrameFacts
    <3>2. n # p
      BY <1>2, <1>3, <2>1, <3>1 DEF CopyInv, IInv, CopyingIsSafe
    <3>3. Kids(stack[i].node)' = Kids(n)'
      BY <2>1, <3>1 DEF Kids
    <3>4. QED
      BY <1>8, <3>1, <3>2, <3>3
  <2>5. stack[i].child # NULL => Bwd'[prev'[stack[i].child]] = Bwd[prev[stack[i].child]]
    <3>1. SUFFICES ASSUME stack[i].child # NULL
                   PROVE  Bwd'[prev'[stack[i].child]] = Bwd[prev[stack[i].child]]
      OBVIOUS
    <3>2. /\ stack[i].child \in live /\ parent[stack[i].child] = Original(i)
          /\ Original(i) \in live
      BY <1>2, <2>1, <3>1, FrameFacts
    <3>3. stack[i].child \in Node \ {c}
      BY <1>0, <1>5, <3>2
    <3>4. QED
      BY <1>8, <3>3
  <2>6. QED
    BY <1>2, <1>10, <2>1, <2>2, <2>3, <2>4, <2>5, FrameKept
<1> DEFINE D == Bwd[prev[h]]
<1>12. Done(l) = D /\ D \in Seq(Node)
  <2>1. Done(l) = D
    BY <1>2 DEF Done
  <2>2. QED
    BY <1>2, <1>3, <2>1, FrameFacts
<1>d. PICK d \in Seq(Node) : d = D
  BY <1>12
<1> HIDE DEF D
<1>13. Bwd[h] = d \o <<h>>
  BY <1>0, <1>2, <1>d DEF ListFacts, BwdFacts, D
<1>14. Done(l)' = d \o <<h>>
  <2>1. CASE next[h] = NULL
    <3>1. Done(l)' = Kids(o)'
      BY <1>2, <1>4, <1>6, <1>9, <2>1 DEF Done, Kids
    <3>2. Kids(o)' = Kids(o)
      BY <1>0, <1>6, <1>8
    <3>3. tail[o] = h
      BY <1>0, <1>6, <2>1 DEF Linked
    <3>4. Kids(o) = Bwd[h]
      BY <1>0, <1>6, <3>3 DEF ListFacts
    <3>5. QED
      BY <1>13, <3>1, <3>2, <3>4
  <2>2. CASE next[h] # NULL
    <3>1. Done(l)' = Bwd'[prev'[next[h]]]
      BY <1>2, <2>2 DEF Done
    <3>2. next[h] \in live /\ prev[next[h]] = h /\ parent[next[h]] = o
      BY <1>0, <1>6, <2>2 DEF Linked
    <3>3. prev'[next[h]] = h
      BY <1>0, <1>6, <1>8, <1>10, <3>2
    <3>4. Bwd'[h] = Bwd[h]
      BY <1>0, <1>6, <1>8, <1>10
    <3>5. QED
      BY <1>13, <3>1, <3>3, <3>4
  <2>3. QED
    BY <2>1, <2>2
<1>15. Kids(stack[l].node)' = Append(Kids(p), c)
  <2>1. l \in 1 .. l
    BY <1>2
  <2>2. Kids(stack[l].node)' = Kids(p)'
    BY <1>2, <2>1 DEF Kids
  <2>3. QED
    BY <1>5, <1>8, <2>2
<1>16. PICK K \in Seq(Node) : K = Kids(p)
  BY <1>0, <1>5 DEF ListFacts
<1>17. /\ Len(K) = Len(d)
       /\ \A k \in 1 .. Len(d) : Tree'[K[k]] = Tree'[d[k]]
  <2>1. /\ Len(K) = Len(d)
        /\ \A k \in 1 .. Len(d) : Tree[K[k]] = Tree[d[k]]
    BY <1>2, <1>3, <1>12, <1>d, <1>16 DEF CopyInv, Copied
  <2>2. /\ \A k \in 1 .. Len(d) : d[k] \in live /\ parent[d[k]] # NULL
        /\ \A k \in 1 .. Len(d) : K[k] \in live /\ parent[K[k]] # NULL
    BY <1>2, <1>3, <1>12, <1>d, <1>16, FrameFacts
  <2>3. QED
    BY <1>10, <2>1, <2>2
<1>18. Tree'[c] = Tree'[h]
  BY <1>0, <1>5, <1>6, <1>7, <1>8, <1>10
<1>19. /\ Len(Append(K, c)) = Len(d \o <<h>>)
       /\ \A k \in 1 .. Len(d \o <<h>>) : Tree'[Append(K, c)[k]] = Tree'[(d \o <<h>>)[k]]
  <2>1. /\ Len(Append(K, c)) = Len(d) + 1 /\ Len(d \o <<h>>) = Len(d) + 1 /\ Len(d) \in Nat
        /\ \A k \in 1 .. Len(d) : Append(K, c)[k] = K[k] /\ (d \o <<h>>)[k] = d[k]
        /\ Append(K, c)[Len(d) + 1] = c /\ (d \o <<h>>)[Len(d) + 1] = h
    BY <1>2, <1>5, <1>17
  <2>2. \A k \in 1 .. Len(d) + 1 : k \in 1 .. Len(d) \/ k = Len(d) + 1
    BY <2>1
  <2>3. QED
    BY <1>17, <1>18, <2>1, <2>2
<1>20. /\ Len(Kids(stack[l].node)') = Len(Done(l)')
       /\ \A k \in 1 .. Len(Done(l)') : Tree'[Kids(stack[l].node)'[k]] = Tree'[Done(l)'[k]]
  BY <1>14, <1>15, <1>16, <1>19
<1>21. QED
  BY <1>2, <1>4, <1>9, <1>11, <1>20 DEF Copied

LEMMA CopyInvHolds == Spec => []CopyInv
<1> DEFINE J == IInv /\ TreeInv /\ KeyInv /\ NoDescent
<1>1. Init => Copied
  BY DEF Init, Copied
<1>2. J /\ Copied /\ J' /\ [Next]_vars => Copied'
  <2> SUFFICES ASSUME J, Copied, J', [Next]_vars PROVE Copied'
    OBVIOUS
  <2>1. CopyInv
    BY DEF CopyInv
  <2>2. ListFacts'
    <3>1. IInv' /\ TreeInv'
      OBVIOUS
    <3>2. IInv' /\ TreeInv' => ListFacts'
      BY ListsHold, PTL
    <3>3. QED
      BY <3>1, <3>2
  <2>3. TreeFacts'
    <3>1. IInv' /\ TreeInv' /\ NoDescent'
      OBVIOUS
    <3>2. IInv' /\ TreeInv' /\ NoDescent' => TreeFacts'
      BY TreeHolds, PTL
    <3>3. QED
      BY <3>1, <3>2
  <2>4. CASE UNCHANGED vars
    <3>1. /\ UNCHANGED <<mode, stack, arg, tag, key, prev, next, head>>
      BY <2>4 DEF vars, links, hist
    <3>2. Fwd' = Fwd /\ Bwd' = Bwd /\ Tree' = Tree
      BY <3>1 DEF Fwd, Bwd, Tree, Forward
    <3>3. QED
      BY <3>1, <3>2 DEF Copied, Done, Original, Kids
  <2>5. CASE Next /\ mode' = "copy"
    <3>1. (\E h \in Node : json_mkcopy(h)) \/ CopyChild \/ CopyReturn
      BY <2>5 DEF Next, Make, json_append_element, json_prepend_element, json_append_member,
        json_prepend_member, CanAttach, RemoveNode, Building, json_delete, Begin, DeleteChild,
        DeleteFree, Return, CopyEnd, CopyExits
    <3>2. QED
      BY <2>1, <2>2, <2>3, <3>1, CopiedStart, CopiedChild, CopiedReturn
  <2>6. CASE mode' # "copy"
    BY <2>6 DEF Copied
  <2>7. QED
    BY <2>4, <2>5, <2>6
<1>3. Spec => []J
  BY InvHolds, TreeInvHolds, KeyInvHolds, NoDescentHolds, PTL
<1> HIDE DEF J
<1>4. Spec => []Copied
  BY <1>1, <1>2, <1>3, PTL DEF Spec
<1>5. J /\ Copied => CopyInv
  BY DEF J, CopyInv
<1>6. QED
  BY <1>3, <1>4, <1>5, PTL

\* json_mkcopy makes an equal tree, of whatever shape, while other trees are
\* around it: same tags, keys and order of the children at every depth.
THEOREM CopyIsEqualHolds == Spec => []CopyIsEqual
<1>1. CopyInv => CopyIsEqual
  <2> SUFFICES ASSUME CopyInv, mode = "copy", Len(stack) = 1, Top.child = NULL
               PROVE  Equal(arg, Top.node)
    BY DEF CopyIsEqual
  <2>1. stack \in Seq(Call) /\ Top = stack[1] /\ 1 \in DOMAIN stack
    BY TypeParts DEF CopyInv, IInv, Calls, Top
  <2>2. Tree[stack[1].node] = Tree[Original(1)]
    BY <2>1, CopyLooksAlike
  <2>3. Tree[arg] = Tree[Top.node]
    BY <2>1, <2>2 DEF Original
  <2>4. QED
    BY <2>3 DEF Equal, Tree
<1>2. QED
  BY <1>1, CopyInvHolds, PTL

=============================================================================
