------------------------------ MODULE MCSignIn ------------------------------
(***************************************************************************)
(* SignIn for TLC.  The names of addresses, keys and answers in flight     *)
(* mean nothing to the code.                                               *)
(***************************************************************************)
EXTENDS SignIn, TLC

Symmetric == Permutations(Email) \cup Permutations(Try) \cup Permutations(Key)
               \cup Permutations(Request)
=============================================================================
