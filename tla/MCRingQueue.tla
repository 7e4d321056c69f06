----------------------------- MODULE MCRingQueue -----------------------------
(***************************************************************************)
(* RingQueue for TLC.  The addresses are interchangeable: no definition    *)
(* compares or orders them, so permuting them is a symmetry.               *)
(***************************************************************************)
EXTENDS RingQueue, TLC

Symmetry == Permutations(Addr)
=============================================================================
