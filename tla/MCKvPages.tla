----------------------------- MODULE MCKvPages -----------------------------
(***************************************************************************)
(* Small instances of KvPages.                                              *)
(***************************************************************************)
EXTENDS KvPages, TLC

PageSymmetry == Permutations(Caches) \cup Permutations(Values)
=============================================================================
