------------------------------- MODULE MCDoor -------------------------------
(***************************************************************************)
(* Two shots whose names slug to one key, each of them well-formed or not.  *)
(* Three ids let one POST be made twice and both rendered.                  *)
(***************************************************************************)
EXTENDS Door

OneKey == [s \in Shot |-> "key"]
=============================================================================
