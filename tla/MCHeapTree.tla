----------------------------- MODULE MCHeapTree -----------------------------
(***************************************************************************)
(* HeapTree for TLC.  Chunks are told apart by their sizes and places only. *)
(***************************************************************************)
EXTENDS HeapTree, TLC

Symmetry == Permutations(Chunk)
=============================================================================
