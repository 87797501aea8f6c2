-------------------------- MODULE MCSecondFactor ---------------------------
(***************************************************************************)
(* A small instance of SecondFactor: two secrets, two mintings of one      *)
(* recovery code, two sign-ins under way at the one half-finished sign-in, *)
(* two requests under way at the console.                                  *)
(***************************************************************************)
EXTENDS SecondFactor, TLC

Symmetric == Permutations(Secret) \cup Permutations(Batch) \cup Permutations(Slot)
             \cup Permutations(Challenge) \cup Permutations(Request) \cup Permutations(Desk)
=============================================================================
