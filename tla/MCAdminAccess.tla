--------------------------- MODULE MCAdminAccess ---------------------------
(***************************************************************************)
(* AdminAccess for TLC: the constants are given in the .cfg file; admins,  *)
(* pairs and threads are interchangeable.                                  *)
(***************************************************************************)
EXTENDS AdminAccess, TLC

Symmetry == Permutations(Admin) \cup Permutations(Pair)
              \cup Permutations(Proc)
=============================================================================
