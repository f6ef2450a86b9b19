------------------------------- MODULE MCEdge -------------------------------
(***************************************************************************)
(* Edge for TLC: one gateway and Redis, one pass per key and window, and   *)
(* interchangeable requests and threads.                                   *)
(***************************************************************************)
EXTENDS Edge, TLC

MCBudget == [general |-> 1, auth |-> 1]

Symmetry == Permutations(Req) \cup Permutations(Worker)
=============================================================================
