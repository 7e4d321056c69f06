------------------------------ MODULE JsonTree ------------------------------
(***************************************************************************)
(* The nodes of lib/json on the heap: making them, attaching them to       *)
(* arrays and objects, taking them out, json_delete and json_mkcopy.       *)
(*                                                                         *)
(* The two recursive functions are unrolled: a step is one iteration of    *)
(* their loop over the children, and `stack` holds the calls in progress.  *)
(* A client passes live nodes, of the tags and without the parents that    *)
(* the functions assert, and never a node to one of its own descendants.   *)
(***************************************************************************)
EXTENDS Integers, Sequences, FiniteSets

CONSTANTS
  Node,  \* addresses of JsonNode structs
  Name,  \* keys of members
  NULL,
  MaxBuilt,  \* bound: with more live nodes than these a client only deletes
  MaxCopied  \* bound: with more live nodes than these it does not copy

ASSUME NullAssumption == NULL \notin Node /\ NULL \notin Name

VARIABLES
  live,                           \* the allocated nodes
  tag,                            \* "scalar", "array", "object"
  key,                            \* a name or NULL
  parent, prev, next, head, tail, \* the pointers of a node
  mode,    \* "idle", "delete", "copy", or "exited" by out_of_memory
  stack,   \* calls of json_delete (json_mkcopy): the node to free (the copy),
           \* and `child`, the next child to delete (to copy)
  arg,     \* history: the argument of the call in progress
  subject, \* history: the nodes at and below it when the call began
  copies   \* history: the live nodes that json_mkcopy has returned, and copies of them

links == <<parent, prev, next, head, tail>>
hist  == <<arg, subject, copies>>
vars  == <<live, tag, key, links, mode, stack, hist>>

Ptr == Node \cup {NULL}

Init ==
  /\ live = {} /\ tag = [n \in Node |-> "scalar"] /\ key = [n \in Node |-> NULL]
  /\ parent = [n \in Node |-> NULL]
  /\ prev = [n \in Node |-> NULL] /\ next = [n \in Node |-> NULL]
  /\ head = [n \in Node |-> NULL] /\ tail = [n \in Node |-> NULL]
  /\ mode = "idle" /\ stack = << >>
  /\ arg = NULL /\ subject = {} /\ copies = {}

\* n and what is above it.
Above(n) ==
  LET f[m \in Node] == {m} \cup IF parent[m] = NULL THEN {} ELSE f[parent[m]]
  IN  f[n]

-----------------------------------------------------------------------------
(* Nodes and links. *)

\* calloc: all pointers are NULL.
mknode(n, t, k) ==
  /\ n \in Node \ live
  /\ live' = live \cup {n}
  /\ tag' = [tag EXCEPT ![n] = t]
  /\ key' = [key EXCEPT ![n] = k]
  /\ parent' = [parent EXCEPT ![n] = NULL]
  /\ prev' = [prev EXCEPT ![n] = NULL] /\ next' = [next EXCEPT ![n] = NULL]
  /\ head' = [head EXCEPT ![n] = NULL] /\ tail' = [tail EXCEPT ![n] = NULL]

\* p->x = v, if p is not NULL.
Set(f, p, v) == [n \in Node |-> IF n = p THEN v ELSE f[n]]

\* Mutant: the old last child does not learn of the new one.
append_nodeAlone(p, c) ==
  /\ parent' = Set(parent, c, p)
  /\ prev' = Set(prev, c, tail[p])
  /\ next' = Set(next, c, NULL)
  /\ head' = IF tail[p] = NULL THEN Set(head, p, c) ELSE head
  /\ tail' = Set(tail, p, c)

append_node(p, c) ==
  /\ parent' = Set(parent, c, p)
  /\ prev' = Set(prev, c, tail[p])
  /\ next' = Set(Set(next, c, NULL), tail[p], c)
  /\ head' = IF tail[p] = NULL THEN Set(head, p, c) ELSE head
  /\ tail' = Set(tail, p, c)

\* Mutant: the new first child does not learn of the old one.
prepend_nodeAlone(p, c) ==
  /\ parent' = Set(parent, c, p)
  /\ prev' = Set(Set(prev, c, NULL), head[p], c)
  /\ next' = Set(next, c, NULL)
  /\ tail' = IF head[p] = NULL THEN Set(tail, p, c) ELSE tail
  /\ head' = Set(head, p, c)

prepend_node(p, c) ==
  /\ parent' = Set(parent, c, p)
  /\ prev' = Set(Set(prev, c, NULL), head[p], c)
  /\ next' = Set(next, c, head[p])
  /\ tail' = IF head[p] = NULL THEN Set(tail, p, c) ELSE tail
  /\ head' = Set(head, p, c)

\* Mutant: tail stays when the last child goes.
UnlinkKeepsTail(n) ==
  LET p == parent[n] IN
  /\ next' = Set(Set(next, prev[n], next[n]), n, NULL)
  /\ prev' = Set(Set(prev, next[n], prev[n]), n, NULL)
  /\ head' = IF prev[n] = NULL THEN Set(head, p, next[n]) ELSE head
  /\ tail' = tail
  /\ parent' = Set(parent, n, NULL)
  /\ key' = Set(key, n, NULL)

\* json_remove_from_parent for a node with a parent.
Unlink(n) ==
  LET p == parent[n] IN
  /\ next' = Set(Set(next, prev[n], next[n]), n, NULL)
  /\ prev' = Set(Set(prev, next[n], prev[n]), n, NULL)
  /\ head' = IF prev[n] = NULL THEN Set(head, p, next[n]) ELSE head
  /\ tail' = IF next[n] = NULL THEN Set(tail, p, prev[n]) ELSE tail
  /\ parent' = Set(parent, n, NULL)
  /\ key' = Set(key, n, NULL)

json_remove_from_parent(n) ==
  IF parent[n] # NULL THEN Unlink(n) ELSE UNCHANGED <<links, key>>

-----------------------------------------------------------------------------
(* Calls that are one step. *)

Building == mode = "idle" /\ Cardinality(live) <= MaxBuilt

\* json_mknull ... json_mkobject
Make ==
  /\ Building /\ Cardinality(live) < MaxBuilt
  /\ \E n \in Node, t \in {"scalar", "array", "object"} : mknode(n, t, NULL)
  /\ UNCHANGED <<mode, stack, hist>>

CanAttach(p, c, t) ==
  Building /\ {p, c} \subseteq live /\ tag[p] = t /\ parent[c] = NULL /\ c \notin Above(p)

json_append_element(a, e) ==
  /\ CanAttach(a, e, "array")
  /\ append_node(a, e)
  /\ UNCHANGED <<live, tag, key, mode, stack, hist>>

json_prepend_element(a, e) ==
  /\ CanAttach(a, e, "array")
  /\ prepend_node(a, e)
  /\ UNCHANGED <<live, tag, key, mode, stack, hist>>

json_append_member(o, k, v) ==
  /\ CanAttach(o, v, "object")
  /\ key' = Set(key, v, k)
  /\ append_node(o, v)
  /\ UNCHANGED <<live, tag, mode, stack, hist>>

json_prepend_member(o, k, v) ==
  /\ CanAttach(o, v, "object")
  /\ key' = Set(key, v, k)
  /\ prepend_node(o, v)
  /\ UNCHANGED <<live, tag, mode, stack, hist>>

RemoveNode(n) ==
  /\ Building /\ n \in live
  /\ json_remove_from_parent(n)
  /\ UNCHANGED <<live, tag, mode, stack, hist>>

-----------------------------------------------------------------------------
(* json_delete and json_mkcopy. *)

Frame(n, c) == [node |-> n, child |-> c]
Top         == stack[Len(stack)]
Callers     == SubSeq(stack, 1, Len(stack) - 1)
Below       == stack[Len(stack) - 1]
Ahead(c)    == [stack EXCEPT ![Len(stack)] = Frame(Top.node, next[c])]

Begin(m, n) ==
  /\ mode = "idle" /\ n \in live /\ mode' = m
  /\ arg' = n /\ subject' = {s \in live : n \in Above(s)}

json_delete(n) ==
  /\ Begin("delete", n)
  /\ json_remove_from_parent(n)
  /\ stack' = <<Frame(n, head'[n])>>
  /\ UNCHANGED <<live, tag, copies>>

\* Mutant: the child is deleted where it hangs.
DeleteChildAttached ==
  /\ mode = "delete" /\ Top.child # NULL
  /\ stack' = Append(Ahead(Top.child), Frame(Top.child, head[Top.child]))
  /\ UNCHANGED <<live, tag, key, links, mode, hist>>

\* The loop: next = child->next; json_delete(child).
DeleteChild ==
  /\ mode = "delete" /\ Top.child # NULL
  /\ json_remove_from_parent(Top.child)
  /\ stack' = Append(Ahead(Top.child), Frame(Top.child, head'[Top.child]))
  /\ UNCHANGED <<live, tag, mode, hist>>

\* The first call returns; the histories are not needed any more.
Return == mode' = "idle" /\ stack' = << >> /\ arg' = NULL /\ subject' = {}

\* free(n); what the memory holds then means nothing.
Free(n) ==
  /\ live' = live \ {n} /\ copies' = copies \ {n}
  /\ tag' = Set(tag, n, "scalar") /\ key' = Set(key, n, NULL)

\* Mutant: the struct of an array is not freed.
DeleteFreeLeaves ==
  /\ mode = "delete" /\ Top.child = NULL
  /\ IF tag[Top.node] = "array" THEN UNCHANGED <<live, copies, tag, key>> ELSE Free(Top.node)
  /\ IF Len(stack) = 1 THEN Return ELSE stack' = Callers /\ UNCHANGED <<mode, arg, subject>>
  /\ UNCHANGED links

\* After the loop: free(node), and back to the caller.
DeleteFree ==
  /\ mode = "delete" /\ Top.child = NULL
  /\ Free(Top.node)
  /\ IF Len(stack) = 1 THEN Return ELSE stack' = Callers /\ UNCHANGED <<mode, arg, subject>>
  /\ UNCHANGED links

\* A copy has the key of its original, whether it gets a parent or not.
json_mkcopy(h) ==
  /\ Cardinality(live) <= MaxCopied
  /\ Begin("copy", h)
  /\ \E c \in Node :
       /\ mknode(c, tag[h], key[h])
       /\ stack' = <<Frame(c, head[h])>>
       /\ copies' = copies \cup {c}

\* The loop calls json_mkcopy for the next child.
CopyChild ==
  /\ mode = "copy" /\ Top.child # NULL
  /\ \E c \in Node :
       /\ mknode(c, tag[Top.child], key[Top.child])
       /\ stack' = Append(stack, Frame(c, head[Top.child]))
       /\ copies' = IF Top.child \in copies THEN copies \cup {c} ELSE copies
  /\ UNCHANGED <<mode, arg, subject>>

\* Mutant: the copies are prepended.
CopyReturnFirst ==
  /\ mode = "copy" /\ Top.child = NULL /\ Len(stack) > 1
  /\ prepend_node(Below.node, Top.node)
  /\ stack' = [Callers EXCEPT ![Len(stack) - 1] = Frame(Below.node, next[Below.child])]
  /\ UNCHANGED <<live, tag, key, mode, hist>>

\* The call returns, and the caller appends the copy.
CopyReturn ==
  /\ mode = "copy" /\ Top.child = NULL /\ Len(stack) > 1
  /\ append_node(Below.node, Top.node)
  /\ stack' = [Callers EXCEPT ![Len(stack) - 1] = Frame(Below.node, next[Below.child])]
  /\ UNCHANGED <<live, tag, key, mode, hist>>

CopyEnd ==
  /\ mode = "copy" /\ Top.child = NULL /\ Len(stack) = 1
  /\ Return
  /\ UNCHANGED <<live, tag, key, links, copies>>

\* mknode gets no memory in the loop, whatever is free: out_of_memory exits.
CopyExits ==
  /\ mode = "copy" /\ Top.child # NULL
  /\ mode' = "exited"
  /\ UNCHANGED <<live, tag, key, links, stack, hist>>

Next ==
  \/ Make
  \/ \E p, c \in Node : json_append_element(p, c) \/ json_prepend_element(p, c)
  \/ \E p, c \in Node, k \in Name : json_append_member(p, k, c) \/ json_prepend_member(p, k, c)
  \/ \E n \in Node : RemoveNode(n) \/ json_delete(n) \/ json_mkcopy(n)
  \/ DeleteChild \/ DeleteFree \/ CopyChild \/ CopyReturn \/ CopyEnd \/ CopyExits

Spec == Init /\ [][Next]_vars

-----------------------------------------------------------------------------
(* Iteration. *)

\* What the loops over head and next, or tail and prev, meet.
Forward(n) ==
  LET f[m \in Ptr] == IF m = NULL THEN << >> ELSE <<m>> \o f[next[m]]
  IN  f[head[n]]

Backward(n) ==
  LET f[m \in Ptr] == IF m = NULL THEN << >> ELSE f[prev[m]] \o <<m>>
  IN  f[tail[n]]

-----------------------------------------------------------------------------
(* Properties. *)

TypeOK ==
  /\ live \subseteq Node /\ tag \in [Node -> {"scalar", "array", "object"}]
  /\ key \in [Node -> Name \cup {NULL}]
  /\ {parent, prev, next, head, tail} \subseteq [Node -> Ptr]
  /\ mode \in {"idle", "delete", "copy", "exited"}
  /\ stack \in Seq([node : Node, child : Ptr])
  /\ arg \in Ptr /\ subject \subseteq Node /\ copies \subseteq Node

\* The pointers of a live node lead to live nodes and agree with the pointers
\* back, between calls and inside them: nothing points to freed memory.
Linked ==
  \A n \in live :
    /\ parent[n] = NULL => prev[n] = NULL /\ next[n] = NULL
    /\ parent[n] # NULL => /\ parent[n] \in live
                           /\ prev[n] = NULL <=> head[parent[n]] = n
                           /\ next[n] = NULL <=> tail[parent[n]] = n
    /\ prev[n] # NULL => prev[n] \in live /\ next[prev[n]] = n /\ parent[prev[n]] = parent[n]
    /\ next[n] # NULL => next[n] \in live /\ prev[next[n]] = n /\ parent[next[n]] = parent[n]
    /\ head[n] # NULL => head[n] \in live /\ parent[head[n]] = n
    /\ tail[n] # NULL => tail[n] \in live /\ parent[tail[n]] = n
    /\ head[n] = NULL <=> tail[n] = NULL

\* In json_delete the node of a call is a root by now, and the saved pointer to
\* the next child is what the node has as its first child: the calls below the
\* loop have left nothing dangling, and free no node twice.
DeleteIsSafe ==
  mode = "delete" =>
    /\ \A i \in DOMAIN stack :
         /\ stack[i].node \in live /\ parent[stack[i].node] = NULL
         /\ stack[i].child = head[stack[i].node]
    /\ \A i, j \in DOMAIN stack : stack[i].node = stack[j].node => i = j

\* json_check (json.c:1335-1376) accepts every node between two calls, but for
\* the key of a node that json_mkcopy has returned.
JsonCheck ==
  mode = "idle" => \A n \in live :
    /\ Forward(n) = Backward(n)
    /\ \A i \in DOMAIN Forward(n) :
         LET c == Forward(n)[i] IN
         /\ c # n /\ parent[c] = n
         /\ tag[n] = "array" /\ key[c] # NULL => c \in copies
         /\ tag[n] = "object" => key[c] # NULL

\* The pointers implement an ordered forest.
Children   == [n \in Node |-> IF n \in live THEN Forward(n) ELSE << >>]
ForestSpec == INSTANCE Forest WITH nodes <- live, kids <- Children
ImplementsForest == ForestSpec!Spec

\* json_delete frees the whole tree below its argument and nothing else.
DeletesTree ==
  [][mode = "delete" => /\ live \ live' \subseteq subject
                        /\ mode' = "idle" => live' \cap subject = {}]_vars

\* json_mkcopy makes an equal tree.
Equal(m, n) ==
  LET f[p \in Node] == <<tag[p], key[p], [i \in DOMAIN Forward(p) |-> f[Forward(p)[i]]]>>
  IN  f[m] = f[n]
CopyIsEqual ==
  mode = "copy" /\ Len(stack) = 1 /\ Top.child = NULL => Equal(arg, Top.node)
=============================================================================
