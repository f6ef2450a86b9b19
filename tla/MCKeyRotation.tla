--------------------------- MODULE MCKeyRotation ---------------------------
(***************************************************************************)
(* KeyRotation for TLC: the constants are given in the .cfg file; keys,    *)
(* connections and threads are interchangeable.                            *)
(***************************************************************************)
EXTENDS KeyRotation, TLC

Symmetry == Permutations(Key) \cup Permutations(Conn) \cup Permutations(Worker)
=============================================================================
