----------------------------- MODULE MCAccounts -----------------------------
(***************************************************************************)
(* Accounts for TLC: the constants are given in the .cfg file; accounts,   *)
(* request threads, passwords and links are interchangeable.               *)
(***************************************************************************)
EXTENDS Accounts, TLC

Symmetry == Permutations(Account) \cup Permutations(Client)
              \cup Permutations(Password) \cup Permutations(Link)
=============================================================================
