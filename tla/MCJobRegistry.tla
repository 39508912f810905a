--------------------------- MODULE MCJobRegistry ---------------------------
(***************************************************************************)
(* Instances of JobRegistry for TLC.  The set of ids is the bound on how    *)
(* many jobs are ever submitted; nothing else is unbounded.                 *)
(***************************************************************************)
EXTENDS JobRegistry
=============================================================================
