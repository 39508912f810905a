------------------------------ MODULE JobAudit ------------------------------
(***************************************************************************)
(* The lines core/jobs.py prints, and what they do to the registry when the *)
(* stream they go to is gone (its reader has left, or the disk is full):    *)
(* print(flush=True) then raises.  _run_loop prints at four places, none of *)
(* them under the lock and not all of them inside its try.  JobRegistry is  *)
(* this module with streams that work.                                      *)
(*                                                                          *)
(* The audit lines of submit() and cancel() are printed by the handler      *)
(* after its section: a raise there costs the caller its answer and changes *)
(* nothing here.                                                            *)
(***************************************************************************)
EXTENDS JobRegistry

CONSTANT LogJobs   \* is LOG_JOBS=1?

ASSUME LogJobsIsBoolean == LogJobs \in BOOLEAN

VARIABLES
  stdout, stderr,  \* do the two streams still take a line?
  owed             \* the audit line the worker thread is about to print: {} or
                   \* one <<job, event>>

streams   == <<stdout, stderr>>
auditVars == <<vars, streams, owed>>

AuditInit == Init /\ stdout = TRUE /\ stderr = TRUE /\ owed = {}

\* print() returns: with LOG_JOBS unset there is no line.
AuditPasses == LogJobs => stdout

-----------------------------------------------------------------------------
\* The reader of a stream leaves.
StreamBreaks ==
  /\ \/ stdout /\ stdout' = FALSE /\ UNCHANGED stderr
     \/ stderr /\ stderr' = FALSE /\ UNCHANGED stdout
  /\ UNCHANGED <<vars, owed>>

Handler(j) == Submit(j) \/ CancelQueued(j) \/ CancelRunning(j)

\* The thread comes to its loop head only when it has no line to print.
LoopHead == owed = {} /\ RunLoop

\* run_fn returned: the section, then the line, still inside the try.
AuditComplete(j) ==
  /\ Complete(j)
  /\ owed' = {<<j, "COMPLETED">>}
  /\ UNCHANGED streams

\* run_fn raised Cancelled: the section, then the line, in the except clause.
AuditAbort(j) ==
  /\ Abort(j)
  /\ owed' = {<<j, "FAILED">>}
  /\ UNCHANGED streams

\* run_fn raised anything else: a line on stderr, the section, the audit line.
AuditRaise(j) ==
  /\ stderr
  /\ Raise(j)
  /\ owed' = {<<j, "FAILED">>}
  /\ UNCHANGED streams

\* An exception leaves _run_loop: the thread is on its way out, though for a moment
\* still is_alive().
ThreadDies == worker' = "returning" /\ current' = {} /\ owed' = {}

RaiseSkipsTheSection(j) ==
  /\ worker = "running" /\ j \in current
  /\ ThreadDies
  /\ UNCHANGED <<fields, table, queue, stop, arrival, streams>>

\* ... but that line raised, and the section was never reached.
RaiseUnreported(j) ==
  /\ worker = "running" /\ j \in current
  /\ ~stderr
  /\ ThreadDies
  /\ UNCHANGED <<fields, table, queue, stop, arrival, streams>>

LinePrinted ==
  /\ owed # {} /\ AuditPasses
  /\ owed' = {}
  /\ UNCHANGED <<vars, streams>>

FlipWhateverTheLine(j) ==
  /\ <<j, "COMPLETED">> \in owed
  /\ stderr
  /\ Fail(j, "exception")
  /\ owed' = {<<j, "FAILED">>}
  /\ UNCHANGED <<output, cancelled, queue, worker, current, stop, arrival, streams>>

\* The line of a COMPLETED job raised inside the try: the except clause settles the
\* job a second time, as FAILED, and retains it a second time.
Flip(j) ==
  /\ <<j, "COMPLETED">> \in owed
  /\ ~AuditPasses /\ stderr
  /\ Fail(j, "exception")
  /\ owed' = {<<j, "FAILED">>}
  /\ UNCHANGED <<output, cancelled, queue, worker, current, stop, arrival, streams>>

\* The line of a FAILED job raised, or that of a COMPLETED one and then the report on
\* stderr: outside the try.
LineKillsThread ==
  /\ \E j \in Job : <<j, "FAILED">> \in owed \/ (<<j, "COMPLETED">> \in owed /\ ~stderr)
  /\ ~AuditPasses
  /\ ThreadDies
  /\ UNCHANGED <<fields, table, queue, stop, arrival, streams>>

Prints ==
  \/ LinePrinted \/ LineKillsThread
  \/ \E j \in Job : Flip(j) \/ RaiseUnreported(j)

AuditNext ==
  \/ (LoopHead \/ Shutdown \/ \E j \in Job : Handler(j)) /\ UNCHANGED <<streams, owed>>
  \/ \E j \in Job : AuditComplete(j) \/ AuditAbort(j) \/ AuditRaise(j)
  \/ Prints
  \/ StreamBreaks

AuditSpec == AuditInit /\ [][AuditNext]_auditVars

-----------------------------------------------------------------------------
(* Properties. *)

\* While both streams work the prints are invisible: every step is one of the
\* registry's own or changes nothing of it, so all that holds of JobRegistry holds.
SilentWhileIntact == [][stdout /\ stderr => [Next]_vars]_auditVars

\* Jobs no thread will ever finish.
Stranded == {j \in Job : status[j] = "IN_PROGRESS"} \ current

\* What a broken stream can do is this and no more.  A job is stranded IN_PROGRESS
\* only by a lost stderr; a job has both an output and a failure only by a lost
\* stdout under LOG_JOBS; at most one job is on the card all the same; and a queue
\* without a thread is the work of either, or of a shutdown.
DamageHasACause ==
  /\ Stranded # {} => ~stderr
  /\ (\E j \in Job : output[j] /\ status[j] = "FAILED") => LogJobs /\ ~stdout
  /\ \A j, k \in current : j = k
  /\ worker = "running" <=> current # {}
  /\ queue # <<>> /\ worker \in {"returning", "dead"} => stop \/ ~stderr \/ ~AuditPasses

\* Settling a job twice spends a place of the retention on it, but never costs the
\* table a live job, nor more than MaxCompleted settled ones.
LiveJobsAreKept ==
  /\ Live \subseteq jobs
  /\ {j \in jobs : Settled(j)} \subseteq ToSet(completed_order)
  /\ Len(completed_order) <= MaxCompleted

-----------------------------------------------------------------------------
(* What the repository says and the code does not do. *)

\* jobs.py: "a render failure is DATA: record it, keep serving".
KeepsServing == queue # <<>> /\ ~stop => worker # "dead"

=============================================================================
