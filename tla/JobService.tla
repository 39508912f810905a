----------------------------- MODULE JobService -----------------------------
(***************************************************************************)
(* What core/jobs.py promises to whoever polls it, with no queue, thread or *)
(* lock: the RunPod-compatible life of a job.  An id is accepted once,      *)
(* waits, runs alone on the card, settles, and may be forgotten some time   *)
(* after it settled (a 404 from then on), never before.                     *)
(***************************************************************************)
CONSTANT Job

VARIABLE phase  \* what GET /status/<id> answers; "gone" is a 404 after the fact

Over  == {"COMPLETED", "FAILED"}
Phase == {"unborn", "IN_QUEUE", "IN_PROGRESS", "gone"} \cup Over

Init == phase = [j \in Job |-> "unborn"]

Accept(j) ==
  /\ phase[j] = "unborn"
  /\ phase' = [phase EXCEPT ![j] = "IN_QUEUE"]

\* The card holds one job.
Start(j) ==
  /\ phase[j] = "IN_QUEUE"
  /\ \A k \in Job : phase[k] # "IN_PROGRESS"
  /\ phase' = [phase EXCEPT ![j] = "IN_PROGRESS"]

\* A settling job may push settled ones, itself included, out of the table.
Settle(j, outcome) ==
  /\ \/ phase[j] = "IN_PROGRESS"
     \/ phase[j] = "IN_QUEUE" /\ outcome = "FAILED"
  /\ \E forgotten \in SUBSET ({j} \cup {k \in Job : phase[k] \in Over}) :
       phase' = [k \in Job |-> IF k \in forgotten THEN "gone"
                               ELSE IF k = j THEN outcome ELSE phase[k]]

SettleEither(j) == \E outcome \in Over : Settle(j, outcome)

Next == \E j \in Job : Accept(j) \/ Start(j) \/ SettleEither(j)

Spec == Init /\ [][Next]_phase

\* A waiting job gets its turn however many others keep arriving (a job that can
\* start again and again does), and a running one settles.
Fairness ==
  /\ \A j \in Job : SF_phase(Start(j) \/ (phase[j] = "IN_QUEUE" /\ SettleEither(j)))
  /\ \A j \in Job : WF_phase(phase[j] = "IN_PROGRESS" /\ SettleEither(j))

=============================================================================
