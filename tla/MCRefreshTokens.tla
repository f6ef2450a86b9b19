--------------------------- MODULE MCRefreshTokens ---------------------------
(* TLC instances of RefreshTokens. *)
EXTENDS RefreshTokens, TLC

\* Tokens, families and threads are interchangeable: nothing orders them.
Symmetry == Permutations(Token) \cup Permutations(Family) \cup Permutations(Proc)
=============================================================================
