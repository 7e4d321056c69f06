----------------------------- MODULE MCJsonText -----------------------------
(***************************************************************************)
(* Texts for JsonText, typed piece by piece, and what the functions are    *)
(* measured against: the grammar of JSON, the definition of UTF-8 and the  *)
(* allocations of a call.  A text belongs to one of five kinds, each with  *)
(* the pieces that its part of the code tells apart.                       *)
(***************************************************************************)
EXTENDS JsonText, JsonMemory, JsonGrammar

CONSTANT MaxPieces          \* kind -> how many pieces a text has at most

Bytes == {1, 127, 128, 143, 144, 159, 160, 191, 192, 193, 194, 223, 224, 237, 239, 240, 244, 245, 255}

Pieces ==
  [bytes   |-> {<<b>> : b \in Bytes},
   number  |-> {<<45>>, <<43>>, <<46>>, <<101>>, <<48>>, <<49>>, <<57, 57>>, <<57, 57, 57>>, <<32>>,
                <<110, 117, 108, 108>>},
   string  |-> {<<34>>, <<92>>, <<92, 117>>, <<110>>, <<65>>, <<49, 70>>, <<48, 48>>, <<31>>,
                <<92, 117, 68, 56, 51, 52>>, <<92, 117, 68, 68, 49, 69>>, <<195, 169>>, <<195>>},
   literal |-> {<<34>>, <<1>>, <<31>>, <<92>>, <<10>>, <<240, 157, 132, 158>>},
   value   |-> {<<91>>, <<93>>, <<123>>, <<125>>, <<44>>, <<58>>, <<34, 107, 34>>, <<32, 49, 9>>}]

VARIABLES kind, pieces     \* with the text of Rfc3629
vars == <<kind, text, pieces>>

Init == /\ kind \in DOMAIN Pieces
        /\ pieces = 0
        /\ text = IF kind = "string" THEN <<34>> ELSE <<>>

Type == /\ pieces < MaxPieces[kind]
        /\ pieces' = pieces + 1
        /\ \E p \in Pieces[kind] : text' = text \o p
        /\ UNCHANGED kind

Next == Type
Spec == Init /\ [][Next]_vars

--------------------------------------------------------------------------
RECURSIVE IsPrintable(_)
IsPrintable(v) ==          \* emit_* writes something that is read back as v
  /\ v.tag = "number" => number_is_valid(v.s)
  /\ v.tag = "string" => \A i \in DOMAIN v.s : v.s[i] # 31
  /\ \A i \in DOMAIN v.kids : IsPrintable(v.kids[i].val)

Tab == <<9>>

ReadsAs(p, v)      == p.ok /\ p.val = v
IsReadBack(v)      == \A s \in {json_encode(v).bytes, json_stringify(v, Tab).bytes} :
                        IsPrintable(v) <=> ReadsAs(json_decode(s), v)
RoomForValue(v)    == ~json_encode(v).over /\ ~json_stringify(v, Tab).over
PrintsValue(p)     == p.ok => RoomForValue(p.val) /\ IsReadBack(p.val)

\* What is printed, on one line or indented, is JSON with the value that was
\* printed, and nothing is written behind the buffer; json_encode_string writes a
\* literal that parse_string reads back as the same string: but for U+001F, which
\* emit_string writes as it is and parse_string refuses, and for numbers that are
\* too large for a double.
PrintsWhatItRead ==
  /\ PrintsValue(json_decode(text))
  /\ kind = "literal" => ReadsBack(text) /\ ~json_encode_string(text).over

MCMaxPieces == [bytes |-> 4, number |-> 5, string |-> 4, literal |-> 6, value |-> 6]
=============================================================================
