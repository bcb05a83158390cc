----------------------------- MODULE MCMemories -----------------------------
(* Memories for TLC: workers are interchangeable where only safety is      *)
(* checked.                                                                *)
EXTENDS Memories, TLC

Symmetry == Permutations(Workers)
=============================================================================
