-------------------------- MODULE MCKnowledgeBase --------------------------
(***************************************************************************)
(* KnowledgeBase for TLC: the constants are given in the .cfg files; the   *)
(* members of each set are interchangeable.                                *)
(***************************************************************************)
EXTENDS KnowledgeBase, TLC

Symmetry == Permutations(SqlKb) \cup Permutations(ExternalKb)
              \cup Permutations(Gen) \cup Permutations(Task)
              \cup Permutations(Thread)
=============================================================================
