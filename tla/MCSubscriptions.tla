-------------------------- MODULE MCSubscriptions --------------------------
(***************************************************************************)
(* Subscriptions for TLC: one default plan, bodies that between them name  *)
(* and leave out every field, and interchangeable plans and requests.      *)
(***************************************************************************)
EXTENDS Subscriptions, TLC

CONSTANTS starter, gold, basic, extra

MCDefaults == {[name |-> starter, stacks |-> {basic}, cap |-> 1]}

MCPatches ==
  {[name |-> gold, stacks |-> {basic, extra}, cap |-> Unlimited],
   [name |-> gold, stacks |-> Keep, cap |-> Keep],
   [name |-> Keep, stacks |-> {extra}, cap |-> Keep],
   [name |-> Keep, stacks |-> {basic}, cap |-> 1]}

Symmetry == Permutations(Plan) \cup Permutations(Admin) \cup Permutations(Reader)
=============================================================================
