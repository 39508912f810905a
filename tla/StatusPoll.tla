----------------------------- MODULE StatusPoll -----------------------------
(***************************************************************************)
(* GET /status/<id> against a job that is settling.  route() looks the job  *)
(* up under the registry's lock and then builds the envelope without it:    *)
(* Job.status_dict reads status, output and error one attribute at a time   *)
(* while the worker thread or a cancel writes them one at a time.  A step   *)
(* here is one attribute access; JobRegistry is the same code at the grain  *)
(* of the lock.  One Job object, any number of pollers.                     *)
(***************************************************************************)
EXTENDS Naturals

CONSTANT Poller

VARIABLES
  held,     \* is the registry's lock inside a writer's section?
  status,   \* Job.status
  output,   \* is Job.output set?
  error,    \* is Job.error set?
  known,    \* is the id in _jobs?
  writer,   \* what the holder of the lock does next
  reader,   \* where each poller is in status_dict()
  draft,    \* the envelope it is building
  answer,   \* the last envelope it was sent
  floor     \* history: what all pollers had been told when its request took the lock

job  == <<status, output, error, known>>
poll == <<reader, draft, answer, floor>>
vars == <<held, job, writer, poll>>

Over     == {"COMPLETED", "FAILED"}
Status   == {"IN_QUEUE", "IN_PROGRESS"} \cup Over
Told     == Status \cup {"nothing", "404"}
Envelope == [status : Told, output : BOOLEAN, error : BOOLEAN]
Bare(s)  == [status |-> s, output |-> FALSE, error |-> FALSE]

Init ==
  /\ held = FALSE
  /\ status = "IN_QUEUE" /\ output = FALSE /\ error = FALSE /\ known = TRUE
  /\ writer = "none"
  /\ reader = [p \in Poller |-> "idle"]
  /\ draft = [p \in Poller |-> Bare("nothing")]
  /\ answer = [p \in Poller |-> Bare("nothing")]
  /\ floor = [p \in Poller |-> {}]

-----------------------------------------------------------------------------
(* The writers: the worker thread and the cancel handler, inside the lock.  *)

\* _run_loop takes the job: one assignment, so the section is one step.
Start ==
  /\ ~held /\ status = "IN_QUEUE"
  /\ status' = "IN_PROGRESS"
  /\ UNCHANGED <<held, output, error, known, writer, poll>>

\* run_fn returned and the lock is taken to record its output.
CompleteBegins ==
  /\ ~held /\ status = "IN_PROGRESS"
  /\ held' = TRUE
  /\ writer' = "set output"
  /\ UNCHANGED <<job, poll>>

\* The same for a failure: of the running job, or of a queued one by cancel().
FailBegins ==
  /\ ~held /\ status \notin Over
  /\ held' = TRUE
  /\ writer' = "set failed"
  /\ UNCHANGED <<job, poll>>

StatusBeforeOutput ==
  /\ writer = "set output"
  /\ status' = "COMPLETED"
  /\ writer' = "set completed"
  /\ UNCHANGED <<held, output, error, known, poll>>

SetOutput ==
  /\ writer = "set output"
  /\ output' = TRUE
  /\ writer' = "set completed"
  /\ UNCHANGED <<held, status, error, known, poll>>

SetCompleted ==
  /\ writer = "set completed"
  /\ status' = "COMPLETED"
  /\ writer' = "retain"
  /\ UNCHANGED <<held, output, error, known, poll>>

SetFailedAndRelease ==
  /\ writer = "set failed"
  /\ status' = "FAILED"
  /\ writer' = "set error"
  /\ held' = FALSE
  /\ UNCHANGED <<output, error, known, poll>>

SetFailed ==
  /\ writer = "set failed"
  /\ status' = "FAILED"
  /\ writer' = "set error"
  /\ UNCHANGED <<held, output, error, known, poll>>

SetError ==
  /\ writer = "set error"
  /\ error' = TRUE
  /\ writer' = "retain"
  /\ UNCHANGED <<held, status, output, known, poll>>

\* _retain_locked, which may evict this very job, and the lock is released.
Retain ==
  /\ writer = "retain"
  /\ known' \in BOOLEAN
  /\ held' = FALSE
  /\ writer' = "none"
  /\ UNCHANGED <<status, output, error, poll>>

\* Another job settles and pushes this one, if it is over, out of the table.
Evict ==
  /\ ~held /\ known /\ status \in Over
  /\ known' = FALSE
  /\ UNCHANGED <<held, status, output, error, writer, poll>>

Writer ==
  \/ Start \/ CompleteBegins \/ FailBegins \/ SetOutput \/ SetCompleted
  \/ SetFailed \/ SetError \/ Retain \/ Evict

-----------------------------------------------------------------------------
(* The pollers. *)

Reply(p, envelope) ==
  /\ answer' = [answer EXCEPT ![p] = envelope]
  /\ reader' = [reader EXCEPT ![p] = "idle"]

\* registry.get: wait for the lock, then a reference to the Job or a 404.
Get(p) ==
  /\ reader[p] = "idle" /\ ~held
  /\ floor' = [floor EXCEPT ![p] = {answer[q].status : q \in Poller}]
  /\ IF known
     THEN reader' = [reader EXCEPT ![p] = "status"] /\ UNCHANGED answer
     ELSE Reply(p, Bare("404"))
  /\ UNCHANGED <<held, job, writer, draft>>

ReadCachedStatus(p) ==
  /\ reader[p] = "status"
  /\ draft' = [draft EXCEPT ![p] = IF @.status = "nothing" THEN Bare(status) ELSE @]
  /\ reader' = [reader EXCEPT ![p] = "completed?"]
  /\ UNCHANGED <<held, job, writer, answer, floor>>

\* d = {"status": self.status.value}
ReadStatus(p) ==
  /\ reader[p] = "status"
  /\ draft' = [draft EXCEPT ![p] = Bare(status)]
  /\ reader' = [reader EXCEPT ![p] = "completed?"]
  /\ UNCHANGED <<held, job, writer, answer, floor>>

\* self.status is read again before the output is looked at ...
ReadCompleted(p) ==
  /\ reader[p] = "completed?"
  /\ reader' = [reader EXCEPT ![p] = IF status = "COMPLETED" THEN "output" ELSE "failed?"]
  /\ UNCHANGED <<held, job, writer, draft, answer, floor>>

ReadOutput(p) ==
  /\ reader[p] = "output"
  /\ draft' = [draft EXCEPT ![p].output = output]
  /\ reader' = [reader EXCEPT ![p] = "failed?"]
  /\ UNCHANGED <<held, job, writer, answer, floor>>

\* ... and a third time before the error is.
ReadFailed(p) ==
  /\ reader[p] = "failed?"
  /\ IF status = "FAILED"
     THEN reader' = [reader EXCEPT ![p] = "error"] /\ UNCHANGED answer
     ELSE Reply(p, draft[p])
  /\ UNCHANGED <<held, job, writer, draft, floor>>

ReadError(p) ==
  /\ reader[p] = "error"
  /\ Reply(p, [draft[p] EXCEPT !.error = error])
  /\ UNCHANGED <<held, job, writer, draft, floor>>

Next ==
  \/ Writer
  \/ \E p \in Poller : \/ Get(p) \/ ReadStatus(p) \/ ReadCompleted(p) \/ ReadOutput(p)
                       \/ ReadFailed(p) \/ ReadError(p)

Spec == Init /\ [][Next]_vars

-----------------------------------------------------------------------------
(* Properties. *)

\* The state has its types, and the lock is held exactly while a writer is writing.
TypeOK ==
  /\ held \in BOOLEAN /\ output \in BOOLEAN /\ error \in BOOLEAN /\ known \in BOOLEAN
  /\ status \in Status
  /\ writer \in {"none", "set output", "set completed", "set failed", "set error", "retain"}
  /\ held <=> writer # "none"
  /\ reader \in [Poller -> {"idle", "status", "completed?", "output", "failed?", "error"}]
  /\ draft \in [Poller -> Envelope]
  /\ answer \in [Poller -> Envelope]
  /\ floor \in [Poller -> SUBSET Told]

\* Answers are true although the reads are torn: one that says COMPLETED carries the
\* output (which is assigned before the status), an output or an error belongs to a job
\* that ended that way, all pollers are told the one ending there is, and a 404 of an
\* accepted job means that it has one.
AnswersAreTrue ==
  \A p \in Poller :
    LET a == answer[p] IN
    /\ a.status = "COMPLETED" => a.output
    /\ a.output => status = "COMPLETED"
    /\ a.error => status = "FAILED"
    /\ a.status \in Over => a.status = status
    /\ a.status = "404" => status \in Over

\* How far along its life an answer puts the job.
Rank(s) == CASE s = "nothing" -> 0 [] s = "IN_QUEUE" -> 1 [] s = "IN_PROGRESS" -> 2
             [] s \in Over -> 3 [] s = "404" -> 4

\* Polling never goes back in time, across pollers too: an answer is at least as far
\* along as every answer given before its request was looked up.
AnswersNeverGoBack ==
  \A p \in Poller : reader[p] = "idle" =>
    \A told \in floor[p] : Rank(told) <= Rank(answer[p].status)

\* FAILED is assigned before the reason, so an answer may lack it, but never two in a
\* row: the next request waits for the lock, by when the reason is there.
ReasonComesNext ==
  [][\A p \in Poller :
       /\ answer[p].status = "FAILED" /\ ~answer[p].error
       /\ reader[p] # "idle" /\ reader'[p] = "idle"
       => answer'[p].error]_vars
=============================================================================
