------------------------------- MODULE MCCard -------------------------------
(***************************************************************************)
(* Three jobs: one leaves something in the caches, one fails or is killed   *)
(* on it, one inherits what is left.  Two slots tell an adapter of the      *)
(* job's own from a leftover; two shots tell the IP-Adapter of one shot     *)
(* from the next one's.                                                     *)
(***************************************************************************)
EXTENDS Card, TLC

Symmetry == Permutations(Job) \cup Permutations(Slot)
=============================================================================
