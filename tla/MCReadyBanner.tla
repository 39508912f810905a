---------------------------- MODULE MCReadyBanner ----------------------------
(***************************************************************************)
(* Two upsets: one to leave something behind on the volume, one more while  *)
(* the stack is coming back.  Seven numbers cover the tokens and addresses  *)
(* of three generations of server and tunnel, and one to spare.             *)
(***************************************************************************)
EXTENDS ReadyBanner
=============================================================================
