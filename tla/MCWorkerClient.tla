--------------------------- MODULE MCWorkerClient ---------------------------
(***************************************************************************)
(* Instances of WorkerClient for TLC.  Two jobs show a respawn and a reuse, *)
(* and what one worker leaves behind for the job after.                     *)
(***************************************************************************)
EXTENDS WorkerClient

\* Jobs are interchangeable: sound where no liveness property is checked.
Symmetry == Permutations(Job)
=============================================================================
