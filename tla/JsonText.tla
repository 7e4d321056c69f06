------------------------------ MODULE JsonText ------------------------------
(***************************************************************************)
(* The two printers of lib/json/json.c: json_encode on one line, and       *)
(* json_stringify with an indentation.                                     *)
(***************************************************************************)
EXTENDS JsonParse

--------------------------------------------------------------------------
\* Printing.

emit_number(sb, n) == sb_put(sb, IF number_is_valid(n) THEN n ELSE Literal("null"))

EmitScalar(sb, v) ==
  CASE v.tag = "null"   -> sb_put(sb, Literal("null"))
    [] v.tag = "bool"   -> sb_put(sb, Literal(IF v.s = <<1>> THEN "true" ELSE "false"))
    [] v.tag = "string" -> emit_string(sb, v.s)
    [] v.tag = "number" -> emit_number(sb, v.s)

RECURSIVE emit_value(_, _)

Comma(sb, k, v) == IF k < Len(v.kids) THEN sb_put(sb, <<44>>) ELSE sb

emit_array(sb, v) ==
  LET f[k \in 0 .. Len(v.kids)] ==
        IF k = 0 THEN sb_put(sb, <<91>>) ELSE Comma(emit_value(f[k - 1], v.kids[k].val), k, v)
  IN  sb_put(f[Len(v.kids)], <<93>>)

emit_object(sb, v) ==
  LET Key(b, k) == sb_put(emit_string(b, v.kids[k].key), <<58>>)
      f[k \in 0 .. Len(v.kids)] ==
        IF k = 0 THEN sb_put(sb, <<123>>)
        ELSE Comma(emit_value(Key(f[k - 1], k), v.kids[k].val), k, v)
  IN  sb_put(f[Len(v.kids)], <<125>>)

emit_value(sb, v) ==
  CASE v.tag = "array"  -> emit_array(sb, v)
    [] v.tag = "object" -> emit_object(sb, v)
    [] OTHER            -> EmitScalar(sb, v)

RECURSIVE Indent(_, _, _)
Indent(sb, space, level) == IF level = 0 THEN sb ELSE Indent(sb_put(sb, space), space, level - 1)

RECURSIVE emit_value_indented(_, _, _, _)

Line(sb, k, v) == sb_put(sb, IF k < Len(v.kids) THEN <<44, 10>> ELSE <<10>>)

emit_array_indented(sb, v, space, level) ==
  LET f[k \in 0 .. Len(v.kids)] ==
        IF k = 0 THEN sb_put(sb, <<91, 10>>)
        ELSE Line(emit_value_indented(Indent(f[k - 1], space, level + 1), v.kids[k].val,
                                      space, level + 1), k, v)
  IN  IF v.kids = <<>> THEN sb_put(sb, <<91, 93>>)
      ELSE sb_put(Indent(f[Len(v.kids)], space, level), <<93>>)

emit_object_indented(sb, v, space, level) ==
  LET Key(b, k) == sb_put(emit_string(Indent(b, space, level + 1), v.kids[k].key), <<58, 32>>)
      f[k \in 0 .. Len(v.kids)] ==
        IF k = 0 THEN sb_put(sb, <<123, 10>>)
        ELSE Line(emit_value_indented(Key(f[k - 1], k), v.kids[k].val, space, level + 1), k, v)
  IN  IF v.kids = <<>> THEN sb_put(sb, <<123, 125>>)
      ELSE sb_put(Indent(f[Len(v.kids)], space, level), <<125>>)

emit_value_indented(sb, v, space, level) ==
  CASE v.tag = "array"  -> emit_array_indented(sb, v, space, level)
    [] v.tag = "object" -> emit_object_indented(sb, v, space, level)
    [] OTHER            -> EmitScalar(sb, v)

json_encode(v)           == emit_value(sb_init, v)
json_stringify(v, space) == emit_value_indented(sb_init, v, space, 0)
=============================================================================
