---------------------------- MODULE WorkerClient ----------------------------
(***************************************************************************)
(* core/worker_client.py (RenderWorkerClient) with the far end of its two   *)
(* pipes, core/render_worker.py, and the shutdown sequence of serve().      *)
(*                                                                          *)
(* Three kinds of process run here.  The render thread (the registry's      *)
(* worker thread) calls render() for one job after another and holds        *)
(* _render_lock while it does.  The main thread, on SIGTERM, calls          *)
(* shutdown() and then leaves, which ends the whole parent process.  Each   *)
(* worker is an operating-system process: it may crash, hang, or take its   *)
(* time to die, and it holds VRAM until it has exited.                      *)
(*                                                                          *)
(* A render spawns at most one worker, so the worker spawned for job j is   *)
(* called j.  The stdout pipe, the reader thread and its queue are one      *)
(* FIFO; the reader adds the end-of-file sentinel.                          *)
(***************************************************************************)
EXTENDS Naturals, Sequences, SequencesExt

CONSTANTS Job,      \* render calls, and the names of the workers they spawn
          Cancellable, \* the jobs somebody may cancel
          None,     \* Python's None
          Backlog,  \* bound: lines a worker may have unread before it adds noise
          Impatient \* may SIGTERM be sent again before the parent has left?

ASSUME NoneIsNoJob == None \notin Job
ASSUME CancellableAreJobs == Cancellable \subseteq Job
ASSUME BacklogIsNat == Backlog \in Nat
ASSUME ImpatientIsBoolean == Impatient \in BOOLEAN

VARIABLES
  \* the client object
  cproc,      \* self._proc
  cqueue,     \* self._queue, named by its worker
  lock,       \* self._render_lock: "free", "render" or "shutdown"
  \* the render thread
  rpc,        \* where it is in render()
  rjob,       \* the job it renders: {} or a singleton
  rproc,      \* its local proc
  rqueue,     \* its local q
  \* the workers
  life,       \* "none", "up", "dying" (poll() is still None), "exited"
  pipes,      \* does the parent still hold its ends of the two pipes?
  inbox,      \* commands not yet read from stdin
  doing,      \* the job the worker renders: {} or a singleton
  lines,      \* what the client's queue will yield, in order
  ended,      \* has the reader queued its end-of-file sentinel?
  \* jobs
  outcome,    \* how render() ended for the job
  answer,     \* the jobs whose result event render() returned for this one
  cancelled,  \* what should_cancel() answers
  clips,      \* the jobs whose clip is in R2
  \* the main thread
  spc,        \* where it is in shutdown()
  sproc,      \* its local proc
  parent      \* is the parent process there?

client  == <<cproc, cqueue, lock>>
renders == <<rpc, rjob, rproc, rqueue>>
workers == <<life, pipes, inbox, doing, lines, ended>>
results == <<outcome, answer, cancelled, clips>>
main    == <<spc, sproc, parent>>
vars    == <<client, renders, workers, results, main>>

Proc == Job \cup {None}
Up   == {p \in Job : life[p] = "up"}

Result(j) == <<"result", j>>
Error     == <<"error">>
Noise     == <<"noise">>   \* ready, progress, blank or stray lines
Eof       == <<"eof">>
Line      == {Result(j) : j \in Job} \cup {Error, Noise, Eof}
StopCmd   == "shutdown"

ASSUME StopIsNoJob == StopCmd \notin Job

Init ==
  /\ cproc = None /\ cqueue = None /\ lock = "free"
  /\ rpc = "idle" /\ rjob = {} /\ rproc = None /\ rqueue = None
  /\ life = [p \in Job |-> "none"]
  /\ pipes = [p \in Job |-> FALSE]
  /\ inbox = [p \in Job |-> <<>>]
  /\ doing = [p \in Job |-> {}]
  /\ lines = [p \in Job |-> <<>>]
  /\ ended = [p \in Job |-> FALSE]
  /\ outcome = [j \in Job |-> "pending"]
  /\ answer = [j \in Job |-> {}]
  /\ cancelled = [j \in Job |-> FALSE]
  /\ clips = {}
  /\ spc = "off" /\ sproc = None /\ parent = "up"

-----------------------------------------------------------------------------
(* The parts both threads share. *)

Alive(p) == p # None /\ life[p] \in {"up", "dying"}   \* poll() is None

ReapAnyones(p) ==
  /\ pipes' = IF p = None THEN pipes ELSE [pipes EXCEPT ![p] = FALSE]
  /\ cproc' = None
  /\ cqueue' = None

\* Close the worker's pipes and drop it, with its queue, if it is the current one.
Reap(p) ==
  /\ pipes' = IF p = None THEN pipes ELSE [pipes EXCEPT ![p] = FALSE]
  /\ cproc' = IF p = cproc THEN None ELSE cproc
  /\ cqueue' = IF p = cproc THEN None ELSE cqueue

\* terminate(): SIGTERM is not handled by the worker, so it is on its way out.
Signal(p) == life' = IF life[p] = "up" THEN [life EXCEPT ![p] = "dying"] ELSE life

\* render() is left, by return or raise: the lock goes with it.
Leave(j, how) ==
  /\ outcome' = [outcome EXCEPT ![j] = how]
  /\ lock' = "free"
  /\ rpc' = "idle" /\ rjob' = {} /\ rproc' = None /\ rqueue' = None

-----------------------------------------------------------------------------
(* The render thread. *)

\* The registry starts a job: render() is entered and waits for the lock.
Begin(j) ==
  /\ parent = "up" /\ rpc = "idle" /\ outcome[j] = "pending"
  /\ rjob' = {j}
  /\ rpc' = "lock"
  /\ UNCHANGED <<client, rproc, rqueue, workers, results, main>>

Acquire ==
  /\ rpc = "lock" /\ lock = "free"
  /\ lock' = "render"
  /\ rpc' = "ensure"
  /\ UNCHANGED <<cproc, cqueue, rjob, rproc, rqueue, workers, results, main>>

\* _ensure_worker: the current worker is alive as far as poll() knows.
Reuse ==
  /\ rpc = "ensure" /\ Alive(cproc)
  /\ rproc' = cproc
  /\ rpc' = "fetch"
  /\ UNCHANGED <<client, rjob, rqueue, workers, results, main>>

\* _ensure_worker: none alive, so reap the dead handle and Popen a fresh one.
Spawn(j) ==
  /\ rpc = "ensure" /\ rjob = {j} /\ ~Alive(cproc)
  /\ cproc' = None /\ cqueue' = None
  /\ pipes' = [p \in Job |-> IF p = j THEN TRUE ELSE pipes[p] /\ p # cproc]
  /\ life' = [life EXCEPT ![j] = "up"]
  /\ rproc' = j
  /\ rpc' = "publish"
  /\ UNCHANGED <<lock, rjob, rqueue, inbox, doing, lines, ended, results, main>>

\* Popen raised: nothing was spawned and the job fails.
SpawnFails(j) ==
  /\ rpc = "ensure" /\ rjob = {j} /\ ~Alive(cproc)
  /\ Reap(cproc)
  /\ Leave(j, "raised")
  /\ UNCHANGED <<life, inbox, doing, lines, ended, answer, cancelled, clips, main>>

\* The new worker becomes self._proc, with a queue of its own.
Publish ==
  /\ rpc = "publish"
  /\ cproc' = rproc /\ cqueue' = rproc
  /\ rpc' = "fetch"
  /\ UNCHANGED <<lock, rjob, rproc, rqueue, workers, results, main>>

\* q = self._queue, read after _ensure_worker returned.
Fetch ==
  /\ rpc = "fetch"
  /\ rqueue' = cqueue
  /\ rpc' = "write"
  /\ UNCHANGED <<client, rjob, rproc, workers, results, main>>

\* The command line goes down stdin; nobody has to be reading at the far end.
Write(j) ==
  /\ rpc = "write" /\ rjob = {j} /\ pipes[rproc] /\ life[rproc] \in {"up", "dying"}
  /\ inbox' = [inbox EXCEPT ![rproc] = Append(@, j)]
  /\ rpc' = "check"
  /\ UNCHANGED <<client, rjob, rproc, rqueue, life, pipes, doing, lines, ended, results, main>>

\* Broken pipe: the worker is gone before the job started.
WriteFails(j) ==
  /\ rpc = "write" /\ rjob = {j} /\ pipes[rproc] /\ life[rproc] \in {"dying", "exited"}
  /\ Reap(rproc)
  /\ Leave(j, "died")
  /\ UNCHANGED <<life, inbox, doing, lines, ended, answer, cancelled, clips, main>>

\* shutdown() closed the pipe meanwhile: a ValueError, which is not caught here.
WriteClosed(j) ==
  /\ rpc = "write" /\ rjob = {j} /\ ~pipes[rproc]
  /\ Leave(j, "raised")
  /\ UNCHANGED <<cproc, cqueue, workers, answer, cancelled, clips, main>>

CheckBlindly ==
  /\ rpc = "check"
  /\ rpc' = "terminate"
  /\ UNCHANGED <<client, rjob, rproc, rqueue, workers, results, main>>

CheckNever ==
  /\ rpc = "check"
  /\ rpc' = "get"
  /\ UNCHANGED <<client, rjob, rproc, rqueue, workers, results, main>>

\* Top of the read loop: should_cancel() is asked before every read.
Check ==
  /\ rpc = "check"
  /\ rpc' = IF \E j \in rjob : cancelled[j] THEN "terminate" ELSE "get"
  /\ UNCHANGED <<client, rjob, rproc, rqueue, workers, results, main>>

\* queue.Empty after poll_interval.
GetNothing ==
  /\ rpc = "get" /\ rqueue # None /\ lines[rqueue] = <<>>
  /\ rpc' = "check"
  /\ UNCHANGED <<client, rjob, rproc, rqueue, workers, results, main>>

\* shutdown() had already dropped the queue when render() read self._queue.
GetFromNone(j) ==
  /\ rpc = "get" /\ rjob = {j} /\ rqueue = None
  /\ Leave(j, "raised")
  /\ UNCHANGED <<cproc, cqueue, workers, answer, cancelled, clips, main>>

Take(line) ==
  /\ rpc = "get" /\ rqueue # None /\ lines[rqueue] # <<>>
  /\ Head(lines[rqueue]) = line
  /\ lines' = [lines EXCEPT ![rqueue] = Tail(@)]

\* Not JSON, a progress event, ready, or a verb of the future: skipped.
GetNoise ==
  /\ Take(Noise)
  /\ rpc' = "check"
  /\ UNCHANGED <<client, rjob, rproc, rqueue, life, pipes, inbox, doing, ended, results, main>>

\* A result ends the render, whatever job id the event carries.
GetResult(j, k) ==
  /\ rjob = {j}
  /\ Take(Result(k))
  /\ answer' = [answer EXCEPT ![j] = {k}]
  /\ Leave(j, "returned")
  /\ UNCHANGED <<cproc, cqueue, life, pipes, inbox, doing, ended, cancelled, clips, main>>

GetError(j) ==
  /\ rjob = {j}
  /\ Take(Error)
  /\ Leave(j, "raised")
  /\ UNCHANGED <<cproc, cqueue, life, pipes, inbox, doing, ended, answer, cancelled, clips, main>>

GetEofAsNoise(j) ==
  /\ rjob = {j}
  /\ Take(Eof)
  /\ rpc' = "check"
  /\ UNCHANGED <<client, rjob, rproc, rqueue, life, pipes, inbox, doing, ended, results, main>>

\* End of file: drop the worker without waiting for it to have exited.
GetEof(j) ==
  /\ rjob = {j}
  /\ Take(Eof)
  /\ Reap(rproc)
  /\ Leave(j, "died")
  /\ UNCHANGED <<life, inbox, doing, ended, answer, cancelled, clips, main>>

TerminateNobody ==
  /\ rpc = "terminate"
  /\ \E j \in rjob : Leave(j, "cancelled")
  /\ UNCHANGED <<cproc, cqueue, workers, answer, cancelled, clips, main>>

\* Cancel: SIGTERM first ...
Terminate ==
  /\ rpc = "terminate"
  /\ Signal(rproc)
  /\ rpc' = "confirm"
  /\ UNCHANGED <<client, rjob, rproc, rqueue, pipes, inbox, doing, lines, ended, results, main>>

\* ... then wait for the exit, or for two graces to pass with SIGKILL in between;
\* either way the handle is reaped and Cancelled raised.
Abandon(j) ==
  /\ rpc = "confirm" /\ rjob = {j} /\ life[rproc] \in {"dying", "exited"}
  /\ Reap(rproc)
  /\ Leave(j, "cancelled")
  /\ UNCHANGED <<life, inbox, doing, lines, ended, answer, cancelled, clips, main>>

RenderStep ==
  \/ Acquire \/ Reuse \/ Publish \/ Fetch \/ Check \/ GetNothing \/ GetNoise \/ Terminate
  \/ \E j \in Job : \/ Spawn(j) \/ SpawnFails(j)
                    \/ Write(j) \/ WriteFails(j) \/ WriteClosed(j)
                    \/ GetFromNone(j) \/ GetError(j) \/ GetEof(j) \/ Abandon(j)
                    \/ \E k \in Job : GetResult(j, k)

RenderThread == parent = "up" /\ RenderStep

\* POST /cancel of the running job: the registry's flag, set at any moment.
Cancel(j) ==
  /\ parent = "up" /\ j \in Cancellable /\ rjob = {j} /\ ~cancelled[j]
  /\ cancelled' = [cancelled EXCEPT ![j] = TRUE]
  /\ UNCHANGED <<client, renders, workers, outcome, answer, clips, main>>

-----------------------------------------------------------------------------
(* The main thread, after SIGTERM broke serve_forever.  registry.shutdown() *)
(* has set a flag and joined nothing: the render thread keeps going.        *)

\* proc = self._proc, without the lock.
StopBegin ==
  /\ parent = "up" /\ spc = "off"
  /\ sproc' = cproc
  /\ spc' = IF cproc = None THEN "done" ELSE "lock"
  /\ UNCHANGED <<client, renders, workers, results, parent>>

StopLockPatiently ==
  /\ spc = "lock" /\ lock = "free"
  /\ lock' = "shutdown"
  /\ spc' = "graceful"
  /\ UNCHANGED <<cproc, cqueue, renders, workers, results, sproc, parent>>

StopLockGivesUp ==
  /\ spc = "lock"
  /\ \/ lock = "free" /\ lock' = "shutdown" /\ spc' = "graceful"
     \/ lock = "render" /\ spc' = "reap" /\ UNCHANGED lock
  /\ UNCHANGED <<cproc, cqueue, renders, workers, results, sproc, parent>>

\* The lock within half a second, or not at all when a render is in flight.
StopLock ==
  /\ spc = "lock"
  /\ \/ lock = "free" /\ lock' = "shutdown" /\ spc' = "graceful"
     \/ lock = "render" /\ spc' = "terminate" /\ UNCHANGED lock
  /\ UNCHANGED <<cproc, cqueue, renders, workers, results, sproc, parent>>

\* Idle worker: ask it to leave.  The bounded wait that follows is the time that
\* passes before StopTerminate.
StopAsk ==
  /\ spc = "graceful"
  /\ inbox' = IF Alive(sproc) /\ pipes[sproc]
              THEN [inbox EXCEPT ![sproc] = Append(@, StopCmd)] ELSE inbox
  /\ spc' = "terminate"
  /\ UNCHANGED <<client, renders, life, pipes, doing, lines, ended, results, sproc, parent>>

StopTerminate ==
  /\ spc = "terminate"
  /\ Signal(sproc)
  /\ spc' = "confirm"
  /\ UNCHANGED <<client, renders, pipes, inbox, doing, lines, ended, results, sproc, parent>>

\* Exited, or given up on after both graces; the lock is released if it was got.
StopConfirm ==
  /\ spc = "confirm" /\ life[sproc] \in {"dying", "exited"}
  /\ lock' = IF lock = "shutdown" THEN "free" ELSE lock
  /\ spc' = "reap"
  /\ UNCHANGED <<cproc, cqueue, renders, workers, results, sproc, parent>>

StopReap ==
  /\ spc = "reap"
  /\ Reap(sproc)
  /\ spc' = "done"
  /\ UNCHANGED <<lock, renders, life, inbox, doing, lines, ended, results, sproc, parent>>

\* SIGTERM again, or twice at once: SystemExit wherever shutdown() is, whose own
\* `finally` gives back the lock it had, and nothing after it is done.
SignalAgain ==
  /\ Impatient /\ parent = "up" /\ spc # "done"
  /\ lock' = IF lock = "shutdown" THEN "free" ELSE lock
  /\ spc' = "done" /\ sproc' = None
  /\ UNCHANGED <<cproc, cqueue, renders, workers, results, parent>>

\* serve() returns and the interpreter exits: daemon threads vanish where they
\* stand, with what the process held in memory, and its pipe ends are closed.
Exit ==
  /\ parent = "up" /\ spc = "done"
  /\ parent' = "gone"
  /\ cproc' = None /\ cqueue' = None /\ lock' = "free"
  /\ rpc' = "idle" /\ rproc' = None /\ rqueue' = None /\ sproc' = None
  /\ lines' = [p \in Job |-> <<>>]
  /\ pipes' = [p \in Job |-> FALSE]
  /\ UNCHANGED <<rjob, life, inbox, doing, ended, results, spc>>

MainThread ==
  parent = "up" /\ (StopLock \/ StopAsk \/ StopTerminate \/ StopConfirm \/ StopReap \/ Exit)

-----------------------------------------------------------------------------
(* The worker processes, serve_loop. *)

\* readline() yields a command: a render, or shutdown, which ends the loop.
WorkerReads(p) ==
  /\ life[p] = "up" /\ doing[p] = {} /\ inbox[p] # <<>>
  /\ inbox' = [inbox EXCEPT ![p] = Tail(@)]
  /\ IF Head(inbox[p]) = StopCmd
     THEN life' = [life EXCEPT ![p] = "dying"] /\ UNCHANGED doing
     ELSE doing' = [doing EXCEPT ![p] = {Head(inbox[p])}] /\ UNCHANGED life
  /\ UNCHANGED <<client, renders, pipes, lines, ended, results, main>>

WorkerWaitsForever(p) ==
  /\ life[p] = "up" /\ doing[p] = {} /\ inbox[p] = <<>> /\ ~pipes[p] /\ parent = "up"
  /\ life' = [life EXCEPT ![p] = "dying"]
  /\ UNCHANGED <<client, renders, pipes, inbox, doing, lines, ended, results, main>>

\* readline() yields end of file: the parent closed stdin, so leave.
WorkerSeesEof(p) ==
  /\ life[p] = "up" /\ doing[p] = {} /\ inbox[p] = <<>> /\ ~pipes[p]
  /\ life' = [life EXCEPT ![p] = "dying"]
  /\ UNCHANGED <<client, renders, pipes, inbox, doing, lines, ended, results, main>>

\* ready, progress, or something that slipped past the fd redirect.
WorkerChats(p) ==
  /\ life[p] = "up" /\ pipes[p] /\ Len(lines[p]) < Backlog
  /\ lines' = [lines EXCEPT ![p] = Append(@, Noise)]
  /\ UNCHANGED <<client, renders, life, pipes, inbox, doing, ended, results, main>>

\* put_file: the clip is in R2 before the result event is written.
WorkerUploads(p) ==
  /\ life[p] = "up" /\ doing[p] # {}
  /\ ~(doing[p] \subseteq clips)
  /\ clips' = clips \cup doing[p]
  /\ UNCHANGED <<client, renders, workers, outcome, answer, cancelled, main>>

\* One terminal event per command; with the parent's end closed the write raises,
\* so does the error event that follows it, and the process leaves.
Emit(p, event) ==
  IF pipes[p]
  THEN lines' = [lines EXCEPT ![p] = Append(@, event)] /\ UNCHANGED life
  ELSE life' = [life EXCEPT ![p] = "dying"] /\ UNCHANGED lines

WorkerResults(p, j) ==
  /\ life[p] = "up" /\ doing[p] = {j} /\ j \in clips
  /\ Emit(p, Result(j))
  /\ doing' = [doing EXCEPT ![p] = {}]
  /\ UNCHANGED <<client, renders, pipes, inbox, ended, results, main>>

WorkerErrsSilently(p) ==
  /\ life[p] = "up" /\ doing[p] # {}
  /\ doing' = [doing EXCEPT ![p] = {}]
  /\ UNCHANGED <<client, renders, life, pipes, inbox, lines, ended, results, main>>

\* run_fn raised, after the upload too (a put whose answer was lost).
WorkerErrs(p) ==
  /\ life[p] = "up" /\ doing[p] # {}
  /\ Emit(p, Error)
  /\ doing' = [doing EXCEPT ![p] = {}]
  /\ UNCHANGED <<client, renders, pipes, inbox, ended, results, main>>

\* OOM kill, segmentation fault, failed import.
WorkerCrashes(p) ==
  /\ life[p] = "up"
  /\ life' = [life EXCEPT ![p] = "dying"]
  /\ UNCHANGED <<client, renders, pipes, inbox, doing, lines, ended, results, main>>

\* The kernel is done with the process: VRAM is free, poll() says so, and what it
\* had not read is lost.
WorkerExits(p) ==
  /\ life[p] = "dying"
  /\ life' = [life EXCEPT ![p] = "exited"]
  /\ inbox' = [inbox EXCEPT ![p] = <<>>]
  /\ doing' = [doing EXCEPT ![p] = {}]
  /\ UNCHANGED <<client, renders, pipes, lines, ended, results, main>>

\* The reader thread reaches the end of stdout, which the kernel closes while the
\* process is still dying.  (In a queue nobody holds any more it makes no difference.)
ReaderEnds(p) ==
  /\ parent = "up" /\ p \in {cqueue, rqueue}
  /\ life[p] \in {"dying", "exited"} /\ ~ended[p]
  /\ ended' = [ended EXCEPT ![p] = TRUE]
  /\ lines' = [lines EXCEPT ![p] = Append(@, Eof)]
  /\ UNCHANGED <<client, renders, life, pipes, inbox, doing, results, main>>

WorkerRuns(p) ==
  \/ WorkerReads(p) \/ WorkerSeesEof(p) \/ WorkerUploads(p) \/ WorkerErrs(p)
  \/ \E j \in Job : WorkerResults(p, j)

Next ==
  \/ RenderThread
  \/ MainThread \/ StopBegin \/ SignalAgain
  \/ \E j \in Job : Begin(j) \/ Cancel(j)
  \/ \E p \in Job : \/ WorkerRuns(p) \/ WorkerChats(p) \/ WorkerCrashes(p)
                    \/ WorkerExits(p) \/ ReaderEnds(p)

Spec == Init /\ [][Next]_vars

(***************************************************************************)
(* Fairness.  The two threads are scheduled, the kernel finishes killing a  *)
(* process, and the reader thread reads.  Nothing is assumed of a worker    *)
(* that renders: it may hang in a CUDA call.  That it does not, but reads   *)
(* its commands and finishes what it does, is WorkersMove, the premise of   *)
(* the properties that need it.                                             *)
(***************************************************************************)
LiveSpec ==
  /\ Spec
  /\ WF_vars(RenderThread)
  /\ WF_vars(MainThread)
  /\ \A p \in Job : WF_vars(WorkerExits(p)) /\ WF_vars(ReaderEnds(p))

WorkersMove == \A p \in Job : WF_vars(WorkerRuns(p))

-----------------------------------------------------------------------------
(* Properties. *)

\* The state has its types.
TypeOK ==
  /\ cproc \in Proc /\ cqueue \in Proc /\ lock \in {"free", "render", "shutdown"}
  /\ rpc \in {"idle", "lock", "ensure", "publish", "fetch", "write", "check", "get",
              "terminate", "confirm"}
  /\ rjob \subseteq Job /\ rproc \in Proc /\ rqueue \in Proc
  /\ life \in [Job -> {"none", "up", "dying", "exited"}]
  /\ pipes \in [Job -> BOOLEAN]
  /\ inbox \in [Job -> Seq(Job \cup {StopCmd})]
  /\ doing \in [Job -> SUBSET Job]
  /\ lines \in [Job -> Seq(Line)]
  /\ ended \in [Job -> BOOLEAN]
  /\ outcome \in [Job -> {"pending", "returned", "raised", "died", "cancelled"}]
  /\ answer \in [Job -> SUBSET Job]
  /\ cancelled \in [Job -> BOOLEAN]
  /\ clips \subseteq Job
  /\ spc \in {"off", "lock", "graceful", "terminate", "confirm", "reap", "done"}
  /\ sproc \in Proc /\ parent \in {"up", "gone"}

\* The client never looks at an event's job id, yet a render only ever returns its
\* own job's result: what a cancelled or dead job left behind goes with its queue.
ResultIsOwn == \A j \in Job : outcome[j] = "returned" => answer[j] = {j} /\ j \in clips

\* "A single worker is kept warm and reused": however renders, cancels, crashes and a
\* shutdown interleave, at most one worker is running, and it is the one the client
\* knows or is about to publish.
OneWorkerRuns ==
  /\ \A p, q \in Up : p = q
  /\ parent = "up" => \A p \in Up : p = cproc \/ (p = rproc /\ rpc = "publish")

\* Terminating is final: when render() raised Cancelled nothing renders that job any
\* more, and once shutdown() is through, the worker it took on is not running.
TerminatedIsDown ==
  /\ \A j, p \in Job : outcome[j] = "cancelled" /\ doing[p] = {j} => life[p] # "up"
  /\ spc \in {"reap", "done"} /\ sproc # None => life[sproc] # "up"

\* Cancel works on a hung worker: the flag always ends the render, without the
\* worker's help, unless the whole process leaves first.
CancelEndsTheRender ==
  \A j \in Job : cancelled[j] ~> (outcome[j] # "pending" \/ parent = "gone")

\* "Worker death ... surfaces as an honest job failure -- never a hang."
DeathEndsTheRender ==
  \A p \in Job :
    (rproc = p /\ life[p] = "dying") ~> (rproc # p \/ parent = "gone")

\* While workers do not hang, every render ends, a shutdown in the middle included.
RenderEnds ==
  WorkersMove => \A j \in Job : (rjob = {j}) ~> (outcome[j] # "pending" \/ parent = "gone")

\* "EOF: the parent closed our stdin -- exit, don't orphan": a worker that outlives
\* the parent leaves as soon as it has nothing to do, if it does not hang, even where a
\* second SIGTERM cut the shutdown short.
OrphansLeave ==
  WorkersMove => (parent = "gone") ~> (\A p \in Job : life[p] \notin {"up", "dying"})

\* SIGTERM always gets the parent out, once or twice: shutdown() waits for nothing
\* unbounded.
ShutdownTerminates == (spc # "off") ~> (parent = "gone")

-----------------------------------------------------------------------------
(* Refinement: render() is a run_fn. *)

CallOf(j) ==
  IF j \in rjob THEN "running"
  ELSE CASE outcome[j] = "pending" -> "not yet"
         [] outcome[j] = "died" -> "raised"
         [] OTHER -> outcome[j]

AsRunFn == INSTANCE RunFn WITH call <- [j \in Job |-> CallOf(j)], asked <- cancelled

\* render() keeps the promise JobRegistry relies on: one call at a time, one ending,
\* Cancelled only when asked.
RenderIsARunFn == AsRunFn!Spec

-----------------------------------------------------------------------------
(* What the repository says and the code does not do. *)

\* server.py: "send shutdown + bounded terminate; never orphan a worker".
NeverOrphanAWorker == parent = "gone" => Up = {}

=============================================================================
