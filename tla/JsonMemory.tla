----------------------------- MODULE JsonMemory -----------------------------
(***************************************************************************)
(* What json_delete frees of a document, and whether json_decode and       *)
(* json_validate keep the memory of a text.                                *)
(***************************************************************************)
EXTENDS JsonParse, Rfc3629

\* json_delete frees a node, its text, and for every child what it frees of the
\* child, and the key.
OwnBlocks(v) == IF v.tag = "string" THEN 2 ELSE 1
KeyBlocks(v) == IF v.tag = "object" THEN 1 ELSE 0

json_delete(v) ==
  LET freed[k \in 0 .. Len(v.kids)] ==
        IF k = 0 THEN OwnBlocks(v) ELSE freed[k - 1] + (v.kids[k].val.blocks + KeyBlocks(v))
  IN  freed

IsCounted(v) == v.blocks = json_delete(v)[Len(v.kids)]

\* The nodes of the tree v down to the depth n.
Kids(v) == {v.kids[k].val : k \in DOMAIN v.kids}
Levels(v, n) ==
  LET level[d \in 0 .. n] == IF d = 0 THEN {v} ELSE UNION {Kids(u) : u \in level[d - 1]}
  IN  level
Nodes(v, n) == UNION {Levels(v, n)[d] : d \in 0 .. n}

\* It owns the blocks that json_delete frees with the document, or none if it
\* returns no document.  (A tree is no deeper than its text is long.)
OwnsDocument(p) ==
  /\ ~p.over /\ p.live = IF p.ok THEN p.val.blocks ELSE 0
  /\ p.ok => \A u \in Nodes(p.val, Len(text)) : IsCounted(u)

OwnsNothing(p) == ~p.over /\ p.live = 0

\* What json_decode has allocated is what json_delete frees with the document: at
\* whatever depth it fails, no node, key or text stays allocated.  json_validate
\* allocates nothing.  And nothing is written behind a string buffer: the four
\* bytes that are made sure of in advance are enough for every character.
MemoryIsKept == OwnsDocument(json_decode(text)) /\ OwnsNothing(json_validate(text))
=============================================================================
