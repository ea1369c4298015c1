----------------------------- MODULE MC_Caches -----------------------------
(***************************************************************************)
(* A small instance of SourceCaches.                                       *)
(***************************************************************************)
EXTENDS SourceCaches, TLC

Symmetry == Permutations(Caller)
=============================================================================
