----------------------------- MODULE MCJobAudit -----------------------------
(***************************************************************************)
(* Instances of JobAudit for TLC: three jobs over two retained, so that a  *)
(* job settled twice meets an eviction while another waits.                *)
(***************************************************************************)
EXTENDS JobAudit

\* Ids are interchangeable: no liveness property is checked here.
Symmetry == Permutations(Job)
=============================================================================
