---------------------------- MODULE JobRegistry ----------------------------
(***************************************************************************)
(* core/jobs.py: the in-process job registry of the always-on server.      *)
(* HTTP handler threads call submit, cancel and (at exit) shutdown; one    *)
(* daemon thread runs _run_loop.  All of them serialise on one             *)
(* threading.Lock, so a step of this module is one critical section of     *)
(* that lock; what happens between two sections (the render, the audit     *)
(* line) is the gap between two steps.  get() and the cancel of an unknown *)
(* or settled job change nothing: they are the stuttering steps.           *)
(* Lock-free reads of a Job are the subject of StatusPoll.                 *)
(***************************************************************************)
EXTENDS Naturals, Sequences, SequencesExt

CONSTANTS Job,           \* the ids uuid4() will hand out: never the same twice
          MaxCompleted   \* max_completed: how many settled jobs the table keeps

ASSUME MaxCompletedIsNat == MaxCompleted \in Nat

VARIABLES
  jobs,             \* the keys of _jobs
  status,           \* Job.status of every Job object ever made, "unborn" before
  output,           \* has Job.output been assigned?
  error,            \* Job.error, its text reduced to who wrote it
  cancelled,        \* Job._cancel
  queue,            \* _queue
  completed_order,  \* _completed_order
  worker,           \* where the worker thread is; "dead" also when there is none
  current,          \* the ids the thread is running: {} or a singleton
  stop,             \* _stop
  arrival,          \* history: the ids in the order submit() accepted them
  settled           \* history: the ids in the order their jobs settled

fields == <<status, output, error, cancelled>>
table  == <<jobs, completed_order, settled>>
vars   == <<fields, table, queue, worker, current, stop, arrival>>

Terminal == {"COMPLETED", "FAILED"}
Status   == {"unborn", "IN_QUEUE", "IN_PROGRESS"} \cup Terminal
Reason   == {"none", "canceled before start", "canceled", "exception"}
Place    == {"dead", "ready", "waiting", "running", "returning"}

Settled(j) == status[j] \in Terminal
Live       == {j \in Job : status[j] \in {"IN_QUEUE", "IN_PROGRESS"}}

Init ==
  /\ jobs = {}
  /\ status = [j \in Job |-> "unborn"]
  /\ output = [j \in Job |-> FALSE]
  /\ error = [j \in Job |-> "none"]
  /\ cancelled = [j \in Job |-> FALSE]
  /\ queue = <<>>
  /\ completed_order = <<>>
  /\ worker = "dead"
  /\ current = {}
  /\ stop = FALSE
  /\ arrival = <<>>
  /\ settled = <<>>

-----------------------------------------------------------------------------
(* Helpers shared by the critical sections. *)

\* The entries popleft() takes off _completed_order, as a count.
Excess(order) == IF Len(order) > MaxCompleted THEN Len(order) - MaxCompleted ELSE 0

RetainOverfull(j) ==
  LET order == Append(completed_order, j)
      n     == IF Excess(order) > 0 THEN Excess(order) - 1 ELSE 0
  IN  /\ completed_order' = SubSeq(order, n + 1, Len(order))
      /\ jobs' = jobs \ {order[i] : i \in 1..n}
      /\ settled' = Append(settled, j)

Retain(j) ==
  LET order == Append(completed_order, j)
      n     == Excess(order)
  IN  /\ completed_order' = SubSeq(order, n + 1, Len(order))
      /\ jobs' = jobs \ {order[i] : i \in 1..n}
      /\ settled' = Append(settled, j)

\* The job settles as FAILED for the reason given.
Fail(j, reason) ==
  /\ status' = [status EXCEPT ![j] = "FAILED"]
  /\ error' = [error EXCEPT ![j] = reason]
  /\ Retain(j)

\* _ensure_worker_locked() then _wake.notify(): a thread that is not alive is
\* replaced; one asleep on the condition goes back to its loop head.  A thread
\* that has returned but still is_alive() is neither.
NoNotify(w) == IF w = "dead" THEN "ready" ELSE w
AlwaysRestart(w) == IF w \in {"dead", "waiting", "running"} THEN "ready" ELSE w
Roused(w) == IF w \in {"dead", "waiting"} THEN "ready" ELSE w

-----------------------------------------------------------------------------
(* Handler threads. *)

SubmitJumpsQueue(j) ==
  /\ status[j] = "unborn"
  /\ status' = [status EXCEPT ![j] = "IN_QUEUE"]
  /\ jobs' = jobs \cup {j}
  /\ queue' = <<j>> \o queue
  /\ worker' = Roused(worker)
  /\ arrival' = Append(arrival, j)
  /\ UNCHANGED <<output, error, cancelled, completed_order, settled, current, stop>>

Submit(j) ==
  /\ status[j] = "unborn"
  /\ status' = [status EXCEPT ![j] = "IN_QUEUE"]
  /\ jobs' = jobs \cup {j}
  /\ queue' = Append(queue, j)
  /\ worker' = Roused(worker)
  /\ arrival' = Append(arrival, j)
  /\ UNCHANGED <<output, error, cancelled, completed_order, settled, current, stop>>

CancelQueuedKeepsEntry(j) ==
  /\ j \in jobs
  /\ status[j] = "IN_QUEUE"
  /\ Fail(j, "canceled before start")
  /\ UNCHANGED <<output, cancelled, queue, worker, current, stop, arrival>>

\* cancel() of a queued job: remove() its first entry, settle it at once.
CancelQueued(j) ==
  /\ j \in jobs
  /\ status[j] = "IN_QUEUE"
  /\ \E i \in DOMAIN queue :
        /\ queue[i] = j
        /\ \A k \in 1..(i - 1) : queue[k] # j
        /\ queue' = RemoveAt(queue, i)
  /\ Fail(j, "canceled before start")
  /\ UNCHANGED <<output, cancelled, worker, current, stop, arrival>>

\* cancel() of the running job: only the flag; the render aborts by itself.
CancelRunning(j) ==
  /\ j \in jobs
  /\ status[j] = "IN_PROGRESS"
  /\ ~cancelled[j]
  /\ cancelled' = [cancelled EXCEPT ![j] = TRUE]
  /\ UNCHANGED <<status, output, error, table, queue, worker, current, stop, arrival>>

\* shutdown(): set _stop and notify_all(); it neither clears the queue nor joins.
Shutdown ==
  /\ ~stop
  /\ stop' = TRUE
  /\ worker' = IF worker = "waiting" THEN "ready" ELSE worker
  /\ UNCHANGED <<fields, table, queue, current, arrival>>

-----------------------------------------------------------------------------
(* The worker thread, _run_loop. *)

\* Nothing queued: release the lock and sleep on the condition, in one step.
Sleep ==
  /\ worker = "ready"
  /\ queue = <<>>
  /\ ~stop
  /\ worker' = "waiting"
  /\ UNCHANGED <<fields, table, queue, current, stop, arrival>>

\* Told to stop and nothing queued: return, still is_alive() for a moment.
Return ==
  /\ worker = "ready"
  /\ queue = <<>>
  /\ stop
  /\ worker' = "returning"
  /\ UNCHANGED <<fields, table, queue, current, stop, arrival>>

Die ==
  /\ worker = "returning"
  /\ worker' = "dead"
  /\ UNCHANGED <<fields, table, queue, current, stop, arrival>>

\* popleft(), then the three ways the section ends: an entry that is not a
\* queued job of the table is skipped, one flagged by cancel() is dropped, any
\* other starts and its render begins once the lock is released.
Stale(j) == j \notin jobs \/ status[j] # "IN_QUEUE"

Take ==
  /\ worker = "ready"
  /\ queue # <<>>
  /\ queue' = Tail(queue)
  /\ LET j == Head(queue) IN
       IF Stale(j) THEN UNCHANGED <<status, error, table, worker, current>>
       ELSE IF cancelled[j]
       THEN Fail(j, "canceled before start") /\ UNCHANGED <<worker, current>>
       ELSE /\ status' = [status EXCEPT ![j] = "IN_PROGRESS"]
            /\ current' = {j}
            /\ worker' = "running"
            /\ UNCHANGED <<error, table>>
  /\ UNCHANGED <<output, cancelled, stop, arrival>>

\* run_fn is over, by any of the three ways out of the try block.
Finished(j) ==
  /\ worker = "running"
  /\ j \in current
  /\ worker' = "ready"
  /\ current' = {}

CompleteKeepsStatus(j) ==
  /\ Finished(j)
  /\ output' = [output EXCEPT ![j] = TRUE]
  /\ status' = status
  /\ Retain(j)
  /\ UNCHANGED <<error, cancelled, queue, stop, arrival>>

\* run_fn returned: a cancel() that came too late for run_fn to see is ignored.
Complete(j) ==
  /\ Finished(j)
  /\ output' = [output EXCEPT ![j] = TRUE]
  /\ status' = [status EXCEPT ![j] = "COMPLETED"]
  /\ Retain(j)
  /\ UNCHANGED <<error, cancelled, queue, stop, arrival>>

AbortUnasked(j) ==
  /\ Finished(j)
  /\ Fail(j, "canceled")
  /\ UNCHANGED <<output, cancelled, queue, stop, arrival>>

\* run_fn raised Cancelled: it does so only after should_cancel() was TRUE.
Abort(j) ==
  /\ cancelled[j]
  /\ Finished(j)
  /\ Fail(j, "canceled")
  /\ UNCHANGED <<output, cancelled, queue, stop, arrival>>

\* run_fn raised anything else: the failure is recorded and the loop goes on.
Raise(j) ==
  /\ Finished(j)
  /\ Fail(j, "exception")
  /\ UNCHANGED <<output, cancelled, queue, stop, arrival>>

RunEnds(j) == Complete(j) \/ Abort(j) \/ Raise(j)

RunLoop == Sleep \/ Return \/ Die \/ Take

Next ==
  \/ \E j \in Job : Submit(j) \/ CancelQueued(j) \/ CancelRunning(j) \/ RunEnds(j)
  \/ RunLoop
  \/ Shutdown

Spec == Init /\ [][Next]_vars

(***************************************************************************)
(* Fairness, of a server nobody has told to stop.  The thread is scheduled  *)
(* (RunLoop), and a render somebody cancels ends: the client terminates the *)
(* subprocess, so run_fn is over within poll_interval + 2 * term_grace      *)
(* whatever the models do.  Nothing in the code bounds any other render:    *)
(* that they end is RendersEnd, the premise of the properties that need it. *)
(* Once stop is set nothing is owed: serve() closes the client, whose       *)
(* shutdown is bounded, and exits, and the loop is a daemon thread, which   *)
(* vanishes where it stands.  How far it gets is any prefix of its work.    *)
(***************************************************************************)
LiveSpec ==
  /\ Spec
  /\ WF_vars(~stop /\ RunLoop)
  /\ \A j \in Job : WF_vars(~stop /\ cancelled[j] /\ RunEnds(j))

RendersEnd == \A j \in Job : WF_vars(~stop /\ RunEnds(j))

-----------------------------------------------------------------------------
(* Properties. *)

\* The state has its types.
TypeOK ==
  /\ jobs \subseteq Job
  /\ status \in [Job -> Status]
  /\ output \in [Job -> BOOLEAN]
  /\ error \in [Job -> Reason]
  /\ cancelled \in [Job -> BOOLEAN]
  /\ queue \in Seq(Job)
  /\ completed_order \in Seq(Job)
  /\ worker \in Place
  /\ current \subseteq Job
  /\ stop \in BOOLEAN
  /\ arrival \in Seq(Job)
  /\ settled \in Seq(Job)

\* The deque, the table and the status fields tell one story: the deque holds
\* exactly the queued jobs, each once, and every one of them is in the table.
\* So the `job is None or not IN_QUEUE` and `job._cancel` branches of _run_loop
\* never run: cancel() has already taken such a job out.
QueueMatchesTable ==
  /\ IsInjective(queue)
  /\ ToSet(queue) = {j \in Job : status[j] = "IN_QUEUE"}
  /\ \A j \in ToSet(queue) : j \in jobs /\ ~cancelled[j]

\* "A consumer card runs ONE job at a time": a job is IN_PROGRESS exactly while
\* the one worker thread is inside run_fn for it, and never two of them.
OneJobOnTheCard ==
  /\ {j \in Job : status[j] = "IN_PROGRESS"} = current
  /\ \A j, k \in current : j = k
  /\ worker = "running" <=> current # {}

\* _retain_locked: the table is the live jobs and the MaxCompleted most recently
\* settled ones, nothing else; a live job is never evicted and the table is bounded.
TableIsLiveOrRecent ==
  jobs = Live \cup {settled[i] : i \in (Excess(settled) + 1)..Len(settled)}

\* No lost wakeup: a worker asleep on the condition has nothing to do, and a
\* queued job has a worker that will come to it, except in the exit window of a
\* stopped server.
QueuedJobHasWorker ==
  /\ worker = "waiting" => queue = <<>> /\ ~stop
  /\ queue # <<>> /\ worker \notin {"ready", "running"} => stop /\ worker \in {"returning", "dead"}

\* First come, first served: while a job waits, nothing accepted after it has
\* been started.
NoOvertaking ==
  \A m, n \in DOMAIN arrival :
    m < n /\ status[arrival[m]] = "IN_QUEUE" =>
      \/ status[arrival[n]] = "IN_QUEUE"
      \/ error[arrival[n]] = "canceled before start"

\* What a settled job says of itself is what happened to it: an output if and
\* only if COMPLETED, a reason if and only if FAILED, and "canceled" only for a
\* job somebody asked to cancel while it ran.
EnvelopeMatchesFate ==
  \A j \in Job :
    /\ status[j] = "COMPLETED" <=> output[j]
    /\ status[j] = "FAILED" <=> error[j] # "none"
    /\ error[j] = "canceled" => cancelled[j]
    /\ error[j] = "canceled before start" => ~cancelled[j]

\* A job settles once: its status, output and reason then never change, and an
\* evicted id never comes back to the table.
SettledForGood ==
  [][\A j \in Job : Settled(j) =>
        /\ status'[j] = status[j]
        /\ output'[j] = output[j]
        /\ error'[j] = error[j]
        /\ j \notin jobs => j \notin jobs']_vars

\* A cancel of a running job takes effect with no help from the models: the job
\* settles, if only as COMPLETED when the result had already come, unless the server is
\* told to stop first: the process may then exit with the render under way.
CancelSettles ==
  \A j \in Job : cancelled[j] ~> Settled(j) \/ stop

\* If renders end, every job accepted by a server nobody stops settles, through any
\* cancels and failures of its own and of those before it.  A shutdown takes the promise
\* back: the loop drains its queue only for as long as the process lives.
QueuedJobSettles ==
  RendersEnd => \A j \in Job : status[j] = "IN_QUEUE" ~> Settled(j) \/ stop

-----------------------------------------------------------------------------
(* Refinement: what a poller sees of the registry is a JobService. *)

Seen == [j \in Job |-> IF status[j] # "unborn" /\ j \notin jobs THEN "gone" ELSE status[j]]

Service == INSTANCE JobService WITH phase <- Seen

\* Whatever the handlers and the thread do, the polled statuses only move the way
\* the abstract service lets them: one job at a time, forgotten only when over.
ImplementsService == Service!Spec

\* If renders end and nobody stops the server, the promise includes progress: every
\* waiting job gets its turn and every running one settles.
ServesFairly == RendersEnd /\ []~stop => Service!Fairness

=============================================================================
