------------------------------ MODULE MCBilling ------------------------------
(***************************************************************************)
(* Billing for TLC: the constants are given in the .cfg files; lines,      *)
(* attempts, Stripe ids and user threads are interchangeable.              *)
(***************************************************************************)
EXTENDS Billing, TLC

Symmetry == Permutations(Line) \cup Permutations(Attempt)
              \cup Permutations(StripeId) \cup Permutations(User)
=============================================================================
