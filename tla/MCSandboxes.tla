---------------------------- MODULE MCSandboxes ----------------------------
(***************************************************************************)
(* Small instances of Sandboxes.  Identities are interchangeable, and so   *)
(* are requests.                                                           *)
(***************************************************************************)
EXTENDS Sandboxes, TLC

Symmetry == Permutations(Box) \cup Permutations(Request)
=============================================================================
