# vivijure-local-12gb, verified

TLA+ models of the always-on GPU door (`src/src/vivijure_local`), the TLC runs that check them on
small instances, and TLAPS proofs of what matters most for every size. Lines below are lines of
the repository; `PROJECT.json` maps every definition to the code it stands for.

## 1. Inventory

The server process is a `ThreadingHTTPServer` that accepts render jobs, queues them for the one
card, and hands each to a long-lived render subprocess. Next to it Docker Compose runs a tunnel
and a `ready` service that shows the operator an address and a token.

| component | state it keeps | operations | talks to | correct when |
|---|---|---|---|---|
| job registry, `core/jobs.py` | `_jobs`, `_queue`, `_completed_order`, one worker thread, `_stop`, each `Job`'s fields | `submit`, `get`, `cancel`, `shutdown`, `_run_loop` | HTTP handlers (call it), `run_fn` (it calls) | one job on the card, first come first served, a job settles once, and every accepted one does unless the server is stopped; only settled jobs are forgotten |
| status reads, `Job.status_dict` and `route` | none; reads a `Job` without the lock | `GET /status` | registry | an answer is about one moment, or errs harmlessly |
| worker client, `core/worker_client.py` | `_proc`, `_queue`, `_render_lock` | `render`, `shutdown`, reader thread | registry (is its `run_fn`), worker (two pipes), SIGTERM | it is a proper `run_fn`; a cancel, a death and a shutdown all end; no two workers at work |
| worker process, `core/render_worker.py` | the command it runs | `serve_loop` | client, R2 | one terminal event a command; leaves when its parent does |
| i2v engine, `i2v_ltx.py`, `door.py` | `_PIPE_CACHE` | `animate`, `unload_all`, `_evict_pipe` | diffusers | a shape the model accepts; no broken pipe survives |
| tiers and request config, `config.py` | none | `from_request` | engine | a request narrows a tier, never widens it |
| preview, `preview_sdxl.py` | `_PIPE`, `_PIPE_MODEL`, adapters and encoder in it | `render_preview`, `unload_preview` | diffusers, R2, bundle | the pipe holds what the shot needs; results are whole |
| LoRA training, `train_lora_job.py`, `lora_train.py` | modules of the slot at work | `run_train_lora`, `train_slot` | R2, bundle | alone on the card; every adapter it names exists |
| HTTP door, `core/server.py` | none of its own | `route`, `serve` | everything above, a caller behind a tunnel | what the caller concludes is so; the order of shutdown |
| job contract, `core/contract.py` | none | validation, R2 keys | door, worker | what is declared is drawn, but for sides that are no multiple of 8 |
| bundle, `core/bundle.py` | files on disk | extraction, prompts | | |
| ready banner, `core/announce.py`, `docker-compose.yml` | the shared volume: `token`, `cf.log` | start, publish, poll, print; crash, reboot, update | the three containers | the banner comes, and shows the running door |
| VRAM cap, vGPU warning, R2, scripts | none that outlives a call | | | |

What is hard here:

- **Threads.** Any number of HTTP handlers, the registry's daemon thread, the reader threads and the
  main thread in `shutdown`. The registry serialises on one lock; `status_dict` and `shutdown` of
  the client read without one.
- **Processes.** A worker may crash, hang in a CUDA call, answer late, or take its time to die; the
  parent may be told to stop at any moment.
- **What outlives a job.** The caches on the card survive a failed job, and the next may want another stage, tier,
  model or cast. Any call may raise.
- **What outlives a container.** A volume survives the processes that wrote to it; the registry does not
  survive a restart, and its callers do.
- **Streams.** `print` may raise, and `_run_loop` prints inside its error handling.
- **Numbers.** A request's numbers pass a check at the door, a clamp and a snap, written apart.

## 2. Modules

| module | models | state and steps |
|---|---|---|
| `JobService` | what the registry promises a poller | `phase` of each id: accepted, started alone, settled, maybe forgotten |
| `JobRegistry` | `core/jobs.py` | a step is one critical section of the lock. `Submit`, `CancelQueued`, `CancelRunning`, `Shutdown` are the handlers; `Sleep`, `Return`, `Die`, `Take` and `Complete`/`Abort`/`Raise` are the sections of `_run_loop`; `Retain` is the eviction each settling includes. `arrival` and `settled` are history |
| `JobAudit` | the same with the lines it prints | `JobRegistry` with two streams that may break for good, and between a section and its audit line a step of its own (`owed`): what follows when the print raises, by the `except` it lands in |
| `Door` | `route`, a caller, the store, a restart | `JobRegistry` behind a tunnel: a POST is answered, refused, late or lost; the caller posts again, polls and takes a 404 for a loss; a clip lands under a key that two shots may share |
| `StatusPoll` | `get`, `status_dict`, and the writers inside the lock | a step is one attribute access, so it shows what `JobRegistry`'s grain hides |
| `RunFn` | what the registry expects of `run_fn` | one call at a time, one ending, `Cancelled` only when asked |
| `WorkerClient` | `worker_client.py`, `serve_loop`, `serve`'s end | the render thread's place in `render` (`rpc`), the main thread's in `shutdown` (`spc`), each worker's life, its pipes, inbox and output lines; a second SIGTERM |
| `Card` | what the worker keeps between jobs, and the three job bodies as sequences of calls that may raise | `stage` is the place in the body; `i2v`, `sdxl`, `distill`, `ip`, `loaded`, `training` are what is on the card, `dirs` what is on the disk |
| `ClipShape` | `from_request` and the arithmetic of `animate` | `Ask`; `FromRequest` and `Animate`, or the raise of either |
| `JobShape` | the numbers of a preview and a training: the contract's check, the clamps, the pipeline calls, the optimizer's steps | extends `ClipShape`; one request a behaviour, with what is refused, what raises at the door and what fails |
| `ReadyBanner` | `announce.main` and the compose file | the containers' stages, the volume, `Crash`, `Reboot`, `Update` |

`JobRegistryProofs`, `JobAuditProofs`, `DoorProofs`, `StatusPollProofs`, `WorkerClientProofs`,
`CardProofs`, `JobShapeProofs` and `ReadyBannerProofs` hold the theorems.
`MC*` modules add only symmetry and the values TLC needs. Operators that stand next to an action and differ
from it by one slip (`StopLockPatiently`, `RetainOverfull`, ...) are no part of `Next`: each is a
plausible mistake in that code, named in `PROJECT.json` with the property that would catch it.

The modules meet at their interfaces: `JobRegistry` assumes of a render what `RunFn` says
(`Complete`, `Abort` after a cancel, `Raise`): it is proved to call a `RunFn`, and `WorkerClient` to implement one;
`JobRegistry` is proved to implement `JobService`; `JobAudit` with working streams is proved to be
`JobRegistry`; `Door` composes `JobRegistry` with its callers; `Card` is the inside of what `WorkerClient`
calls a worker that renders, with its `Killed` the client's terminate.

Modelled from their use and marked external: the kernel (a process dies some time after it is
told to, its pipe's output end is closed by then), the calling module (it posts until it is answered,
polls, and takes a 404 for a loss), and Docker Compose (`up` starts containers in
`depends_on` order, runs the exited `init-shared` again and leaves unchanged containers alone; a
restart policy does neither).

Data is reduced to what the properties distinguish. A render's output is a Boolean, an error its
author, a worker's line its kind (with a result's job id), a request of the card its action, tier,
model and slots, a token or an address the number of its issue. Frames, sides, seeds and rates are
integers as Python's are, without a width; those of a preview, where a fraction decides what is drawn, are
counted in tenths; what is no number is one of `Absent`, `Malformed`, `Infinite`,
`Huge`, by what the code does with it.

## 3. Runs

| run | what it asks | instance |
|---|---|---|
| `registry` | do table, deque, thread and envelopes agree through every interleaving, is no wakeup lost, does it implement `JobService`, do a cancel and a queued job settle and is the service fair, of a server nobody stops? | 3 jobs, 1 retained |
| `audit` | what can a lost stream do, and no more? | 3 jobs, 2 retained, `LOG_JOBS` set, symmetric |
| `keep_serving` | violated: a failing report ends the loop with jobs queued | 2 jobs, 1 retained, `LOG_JOBS` unset |
| `door` | is what a caller concludes so, and does every caller conclude? | 2 shots of one key, 3 ids, 1 retained, 1 timeout, 1 restart |
| `status_poll` | what can a poll between two assignments see? | 2 pollers |
| `client_safety` | whose result is it, how many workers run, does a cancel stop the render, does `shutdown` stop its worker, is `render` a `RunFn`? | 2 jobs and 2 workers, one line of backlog, symmetric |
| `client_live` | do cancel, death and one or two SIGTERMs end things although workers may hang? Do renders end and orphans leave when they do not? | the same, one job cancellable, no backlog |
| `orphan` | violated: a worker outlives the parent | 2 jobs, one SIGTERM |
| `card` | one stage on the card, no broken pipe, a pipe that suits the shot, unexplained leftovers, results whole and written | 3 jobs, 2 slots, 2 shots |
| `foreign_identity` | violated: adapters of a failed job | 2 jobs, 1 shot |
| `shapes` | clips decodable, within the tier, as close as can be; previews that never exceed what was asked, drawn in full if declared and of whole eights; trainings that learn | some 800 clips, 350 previews, 570 trainings |
| `banner` | first banner right, old addresses gone, a banner comes | 2 upsets, 7 numbers |

**Bounds.** Ids are used once, so the set of jobs is the bound on submissions; three jobs over one
retained reach every length of queue against a full table, an eviction while another waits and runs,
and a submission in each window of the thread's life; `audit` keeps two, so that a job settled twice meets an
eviction. In `door` three ids let one POST be rendered twice beside another shot's; one timeout and one
restart may fall anywhere. In `WorkerClient` a render spawns at most one
worker, so two jobs give a reuse, a respawn beside a dying worker, and what the first leaves for the
second; `Backlog` is how many lines a worker may leave unread before it adds noise (a line of noise
only sends the read loop back to its cancel check, as an empty queue does, so the liveness run leaves it out).
Two pollers let one be told something between two reads of the other. In `Card` one job leaves
something, one fails on it, one inherits; two slots tell a job's own adapter from a leftover; two
shots tell one shot's encoder from the next one's. `JobShape` runs one request at a time over values
below, at and above every boundary of the arithmetic, one axis at a time where axes do not meet; the
declared seeds are scaled to 15 and torch's to 31, which keeps their order. In `ReadyBanner` one upset leaves
something on the volume and one more comes while the stack is on its way back. For every safety property the
theorems remove the bound.

**Deadlock** is not checked where the system may really stop: the ids are used up, the server has
been shut down, the one request is answered, or the bound on upsets is reached. `status_poll` checks it.

**Fairness.** `JobRegistry!LiveSpec`, until `stop`: the thread is scheduled, and a cancelled render ends, since
the client terminates the process after `poll_interval` and two graces. Nothing bounds any other
render, so that they end is the premise `RendersEnd` of the properties that need it. From `stop` on nothing is
owed, because `serve` goes on to close the client and exit, and the loop is a daemon thread (jobs.py:147): the
drain of the queue is what the loop may do, and any prefix of it is a behaviour. So `QueuedJobSettles` and
`CancelSettles` promise until the server is stopped, and `ServesFairly` of a server nobody stops; what a
shutdown does with a render in flight is asked of `WorkerClient`, which models the exit.
`DoorSpec`: the server's loop, renders that end, and a caller that keeps posting and polling over a tunnel that
times out finitely often. `WorkerClient!LiveSpec`: the two threads, the reader and the kernel's reaping; a
worker may hang for ever unless the property says `WorkersMove`. `ReadyBanner!LiveSpec`: only `ready`'s own
deadlines; server and tunnel need never come up. No property needs strong fairness of the code;
`JobService` states it (a waiting job that can be started again and again is), and the registry
gets it from its queue.

## 4. Proofs

Every safety property and every refinement of the passing runs is proved, for all values of the constants.
Each module states an invariant that is inductive (TLC checked it first), then one lemma an action and one step a
conjunct.

- **Registry** (`JobRegistryProofs`): `TypeCorrect`, `QueueIsTheQueuedJobs`,
  `CardRunsOneJob`, `RetentionIsExact`, `EnvelopeIsHonest`, `FirstComeFirstServed`; `RegistryImplementsService`,
  `SettledOnce`, `NoLostWakeup`, `RegistryCallsRunFn`. The invariant adds: `arrival` holds every id ever accepted, once, and the queue
  is a subsequence of it (why nobody is overtaken, `QueueInOrder`); `settled` holds the settled ids once, and
  `completed_order` is its last part (why eviction takes the oldest and never a live job, `SettledInOrder`); a
  cancel flag is only ever raised on a job that has started. The refinement maps the table to `phase` by `Seen`;
  `RegistryCallsRunFn` maps it to `RunFn` by `Call`, the interface at which the worker client's proof meets this one.
  A consequence: the branches of `_run_loop` for stale and flagged entries (jobs.py:158-165) are dead code.
- **Streams** (`JobAuditProofs`): `IntactIsSilent`, so all that holds of the registry holds of one that logs;
  `DamageIsExplained`, `EvictionIsSafe`. The registry's own invariant breaks here, since a job may be settled
  twice; what is kept is weaker: the card and the deque (`CardAndLine`), who may be stranded (`Strands`), who may be
  settled again and by which line (`Resettle`), why a thread may leave work (`Leaving`), and that every
  settled job of the table is in `completed_order` (`Kept`).
- **Door** (`DoorProofs`): `VerdictsHold`, `StoreNeverGoesBack`. A restart empties the table and leaves the `Job` objects
  nobody will touch again as they were, so the registry's own invariant (the table is the live and the recent jobs)
  does not survive it, and neither does its theorem for `[Next]_vars`. `DoorInv` keeps what does: the order of arrival (`AcceptedOnce`),
  a deque in that order behind the running job (`InLine`), one end a job (`Ended`), and that what is
  not in the table was lost to a restart or to `MaxCompleted` others (`Kept`). It adds that clips are uploaded in the order
  of arrival, so that a key never goes back to an older one (`Stored`), that a caller polls a job of its own
  shot (`Called`), and what each verdict rests on (`Concluded`). `Moves` is all the door needs of a step of the
  registry: ids keep their places, newcomers come last, only a queued job starts, what has happened has happened.
- **Torn reads** (`StatusPollProofs`): `TypeCorrect`, `TornReadsAreTrue`, `PollingIsMonotone`, `ReasonIsInTheNext`.
  `SectionOK` says which field is written when, inside the writer's section; `PollerOK` says of each poller that its
  draft so far is behind the job (`DraftOK`) and not behind what was told before it began (`FloorOK`).
- **Worker client** (`WorkerClientProofs`): `TypeCorrect`, `OneWorker`, `ResultsAreTheCallers`, `TerminatingIsFinal`,
  `RenderImplementsRunFn`. The client reads no job id; what stands in for it is an account of each worker in use
  (`WorkOK`): of an unread command, a job under way and an unread verdict there is at most one, it is the current
  render's, and there is none between renders. `Thread` ties `rpc` to the handles (`_proc`, its queue, the locals),
  `Stopping` does it for `shutdown`, `Born` says who spawned whom, `LinesAreTrue` that what is in a queue happened.
- **Card** (`CardProofs`): `TypeCorrect`, `StagesAlternate`, `PipesAreSound`, `PipeIsFit`, `LeftoversAreExplained`,
  `WorkIsWhole`. The invariant ties `stage` to what is on the card and to how much of the job is written by then.
- **Shapes** (`JobShapeProofs`): for every request, number of shots and tier table whose tiers are decodable
  (`FitAssumption`, which TLC evaluates on the code's table).
  `TierIsACeiling`, `ShapeIsDecodable`, `RequestIsHonoured`, and `ClipsAmongOthers` for a server that also draws and
  trains. `animate` snaps frames *up*, and against the model's ceiling and not the tier's; that this never passes the
  tier needs the tier's own length to be 8k+1 (`SnapFramesMonotone`), and that the floor of 32 never lifts a side past the
  tier needs its sides to be positive multiples of 32 (`SnapDimMonotone`).
  `PicturesNeverOvershoot`, `ContractFailsBySidesAlone`, `TrainingAddsUp`: `JobInv` types the stages (`Where`), gives each picture of a preview by its
  request and its place alone (`Drawn`: why seeds are distinct, no shot is left out, and a preview with a side that is no multiple of 8 draws
  none), and counts at each micro-step what the
  optimizer has taken and which checkpoints it has left (`Trained`). The number of checkpoints is that of the *clamped*
  interval: for a `save_every` past its limit it is not what was asked, so `TrainingLearns` says so of
  intervals within the limits only. That the training's knobs are numbers past zero wherever it starts, and so the
  division behind an accumulation is sound, is a lemma of the same module.
- **Banner** (`ReadyBannerProofs`): `TypeCorrect`, `FirstBanner`, `OldAddresses`. Numbers only grow, so an `up`
  that empties the log leaves nothing that could be old (`LogIsRecent`); before any upset the volume and what `ready`
  has read are the running daemons' (`Undisturbed`).

Assumptions are those the modules name: `None`, the stop command and the jobs are distinct, bounds are natural
numbers, a bundle has a shot.

Only model-checked: liveness, whose fairness needs ENABLED. In `registry` that is `QueuedJobSettles`, `CancelSettles` and
`ServesFairly`; in `client_live` all five properties; `EveryCallerConcludes` of `door` and `BannerComes` of `banner`.
The three violations are counterexamples of TLC. No module declares a recursive operator.

## 5. Known disagreements of code and docs

Found while modelling. The first three have a run that exhibits them.

1. `orphan`: `registry.shutdown()` joins nothing and the loop drains its queue, so a render may spawn
   a worker after `client.shutdown()` looked at `_proc`; it is up when the parent exits. It leaves
   on EOF when it does not hang (`OrphansLeave`). A second SIGTERM has the same effect: it raises inside the
   `finally` (server.py:554) and the rest of the shutdown is not done.
2. `keep_serving`: a failed render is reported on stderr before it is recorded; when stderr is gone the job stays
   IN_PROGRESS for ever and the thread dies with jobs queued, until the next `submit` starts another. jobs.py:189 says
   "record it, keep serving".
3. `foreign_identity`: adapters are deleted after the last shot only. A preview that raises
   after binding leaves them active for the next preview in the same worker.
4. With `LOG_JOBS=1` and a lost stdout, the audit line raises inside the `try`: a COMPLETED job turns FAILED with its
   output kept, and takes two places of the retention (`JobAudit`; `DamageHasACause` says what it cannot do).
5. The SDXL pipe is reused by model alone, so a full-step job may draw with Hyper-SD active, or a few-step job
   without it. A Hyper-SD load that fails says "full-step only" (preview_sdxl.py:228) and keeps the few-step numbers.
6. `init-shared` clears `cf.log` on `up` only. After a reboot `ready` finds the dead address at once.
7. A cancel that arrives between a clip's upload and its result event settles the job as canceled
   with its clip in R2; jobs.py:12-13 calls that honest because "the clip was not produced". A request posted
   twice may do the same later.
8. After an end of file, a broken pipe, or a give-up on both graces, the client respawns beside a
   process that may still hold VRAM; worker_client.py:57-58 says "if none is alive". What does hold
   is `OneWorkerRuns`: the old one is at least on its way out.
9. `FAILED` is assigned before the reason, so one poll may miss the reason; tests/test_jobs.py:37
   reads it right after. `ReasonComesNext` is what holds.
10. The i2v cache is keyed by model, engine, offload and tiling and evicts nothing, so a standard
    clip followed by a final one leaves two pipelines; i2v_ltx.py:119-120 says the card cannot fit them.
11. Every negative seed becomes 0 (i2v_ltx.py:227); docs/CONFIGURATION.md:151 says "-1 (random)".
12. `flow_shift` is parsed (config.py:216) and never read.
13. `int()` of an infinite number raises `OverflowError`, which `_coerce_int` (config.py:235-241) does not
    catch: a clip or a training fails (`FromRequestRaises`, `TrainRaises`) where tests/test_config.py:89 promises the
    default.
14. `float()` of a huge integer raises in `validate` (contract.py:254), which promises a reason string and "never
    raise" (contract.py:106): the request is not answered (`Overflows`).
15. The limits of `_KEYFRAME_OVERRIDE_LIMITS` (contract.py:31-37) are names only at the door: a side, a step count and
    a guidance out of them are clamped later, a seed out of them is used.
16. `_KEYFRAME_OVERRIDE_LIMITS` declares every side from 256 to 1344 (contract.py:31-37) and the clamp keeps each of
    them (preview_sdxl.py:107-135), but SDXL takes multiples of 8 only: a declared width of 260 passes both and fails
    the job. `OnlySidesFailDeclared` says that this is the one way a declared request of a listed model fails.
17. The door takes fractions (contract.py:254) and `int()` cuts them after the clamp (preview_sdxl.py:123): 49.9 steps
    are 49, a width of 700.9 is 700. It never rounds up, which `KnobsNeverOvershoot` says.
18. "style=anime wins" (preview_sdxl.py:57) only where no keyframe object is sent: an object hides what is beside
    it, and `style` or `base_model` inside it is refused at the door (contract.py:249-250).
19. A job killed with its worker leaves its temporary directory, which nothing sweeps.
20. `ready` reads `/shared/token` once, and the file of the last run is never removed: a `ready`
    that is faster than a recreated server shows the old token (announce.py:6-7 says "not a race").
21. An `up` that leaves the tunnel running unlinks the log it writes to, and the banner then has no address.

## 6. Not modelled

- The bundle: extraction of a tar file and prompt text, sequential code that is over before anything
  reads its result. The presence checks and string patterns of the contract: one choice, refused or not.
- Token checks, `/health`, the self-test; VRAM cap, vGPU warning, scripts: no state a later step reads.
- Numerics of training and diffusion; the upsampler (no tier sets one); a named tunnel, which logs no address.
- An exception in the reader thread (worker_client.py:114-117), which would end the queue with the worker alive: the
  worker writes ASCII JSON on a descriptor of its own, so `ReaderEnds` is of a worker that is going or gone.
- A worker that outlives the server in `Door`: `Restart` ends the render. In the container the server is the one
  process started and its exit takes the worker along; outside Docker an orphan could still upload its clip.
- Digits of a preview's number past the first decimal: `int()` cuts them like the first, and a guidance keeps them.
- The size of a command against the pipe's buffer: a write is one step (worker_client.py:176 may block on a worker
  that hangs, beyond the reach of a cancel).

## 7. What is left

1. The safety half of the liveness properties: for each, that a step of the fair action is possible where it is owed and
   that no other step takes it away.
2. A command as several writes into a bounded pipe, for the hazard at worker_client.py:176.
3. The bundle's extraction as a small module: which members of an archive end up where.
