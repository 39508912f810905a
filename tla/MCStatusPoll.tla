---------------------------- MODULE MCStatusPoll ----------------------------
(***************************************************************************)
(* Two pollers, as when the studio and an operator watch the same job: one  *)
(* can be told something while the other is between two reads.              *)
(***************************************************************************)
EXTENDS StatusPoll, TLC

Symmetry == Permutations(Poller)
=============================================================================
