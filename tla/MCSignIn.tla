------------------------------ MODULE MCSignIn ------------------------------
(***************************************************************************)
(* SignIn for TLC: the constants are given in the .cfg file.               *)
(***************************************************************************)
EXTENDS SignIn
=============================================================================
