----------------------------- MODULE MCJsonTree -----------------------------
(***************************************************************************)
(* JsonTree for TLC.  calloc may give any free address, and nothing orders *)
(* them, so permuting the addresses is a symmetry.                         *)
(***************************************************************************)
EXTENDS JsonTree, TLC

Symmetry == Permutations(Node)
=============================================================================
