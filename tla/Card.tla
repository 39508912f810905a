-------------------------------- MODULE Card --------------------------------
(***************************************************************************)
(* What the render worker keeps on the card between jobs, and what each of  *)
(* its three jobs does with it: i2v_clip (server.py, i2v_ltx.py), preview   *)
(* (preview_sdxl.py) and train_lora (train_lora_job.py, lora_train.py).     *)
(* The worker is sequential; what makes it hard is that the caches outlive  *)
(* the job, that every call into a pipeline, the disk or R2 may raise, and  *)
(* that the client may kill the process anywhere.  Inside the worker        *)
(* should_cancel() is always False (render_worker.py), so no job is         *)
(* cancelled cooperatively.                                                 *)
(***************************************************************************)
EXTENDS Naturals

CONSTANTS Job,    \* render commands, each read once
          Slot,   \* cast slots, as in an adapter's name char_<slot>
          Shots   \* how many shots a preview draws

ASSUME ShotsPositive == Shots \in Nat \ {0}

VARIABLES
  i2v,      \* the keys of _PIPE_CACHE
  broken,   \* history: keys whose generate raised since their pipe was built
  sdxl,     \* _PIPE_MODEL, the base model of the cached _PIPE, or "none"
  distill,  \* Hyper-SD in that pipe: "absent", "active", or "raised" when its load did
  ip,       \* _vj_ip_loaded of that pipe
  loaded,   \* its character adapters, each with the job that loaded it
  builder,  \* history: the job that built it
  training, \* are the modules of train_slot on the card?
  stage,    \* where the current job is
  job,      \* the current job: {} or a singleton
  dirs,     \* the jobs whose mkdtemp directory is on the disk
  req,      \* its request
  todo,     \* the slots it has still to bind or train
  bound,    \* lora_names, as slots
  shot,     \* the shot it is at
  wants,    \* how many reference images that shot is drawn with: 0 or 1
  outcome,  \* how each job ended
  r2,       \* who wrote each key last
  points    \* the keys each job's result points to

pipe    == <<sdxl, distill, ip, loaded, builder>>
card    == <<i2v, broken, pipe, training>>
locals  == <<req, todo, bound, shot, wants>>
results == <<outcome, r2, points>>
now     == <<job, dirs>>
vars    == <<card, stage, now, locals, results>>

\* The tiers' (model, engine, offload, tiling) keys: draft and standard share one.
Tiers  == {"base 2B", "13B distilled"}
Models == {"photoreal", "anime"}

NoRequest == [action |-> "none"]
Request ==
  [action : {"i2v_clip"}, key : Tiers]
    \cup [action : {"preview"}, few_step : BOOLEAN, model : Models, loras : SUBSET Slot]
    \cup [action : {"train_lora"}, slots : SUBSET Slot \ {{}}]

Keyframe(n) == <<"keyframe", n>>
Clip        == <<"clip", 1>>
Lora(s)     == <<"lora", s>>
Key == {Keyframe(n) : n \in 1..Shots} \cup {Clip} \cup {Lora(s) : s \in Slot}

Init ==
  /\ i2v = {} /\ broken = {}
  /\ sdxl = "none" /\ distill = "absent" /\ ip = 0 /\ loaded = {} /\ builder = {}
  /\ training = FALSE
  /\ stage = "idle" /\ job = {} /\ dirs = {} /\ req = NoRequest
  /\ todo = {} /\ bound = {} /\ shot = 0 /\ wants = 0
  /\ outcome = [j \in Job |-> "pending"]
  /\ r2 = [k \in Key |-> {}]
  /\ points = [j \in Job |-> {}]

-----------------------------------------------------------------------------
(* What the three jobs share. *)

At(place) == stage = place
Go(place) == stage' = place

\* unload_preview(); _reset_pipe_fail_closed() is the same thing.
UnloadPreview == sdxl' = "none" /\ distill' = "absent" /\ ip' = 0 /\ loaded' = {} /\ builder' = {}

\* unload_i2v() of the door is unload_all() of the engine.  No tier sets an
\* upsampler, so its cache is never filled.
UnloadI2V == i2v' = {} /\ broken' = {}

\* build_run_fn picks the body, which makes a directory and knows the request.
Begin(j, r) ==
  /\ At("idle") /\ outcome[j] = "pending"
  /\ job' = {j} /\ dirs' = dirs \cup {j} /\ req' = r
  /\ UNCHANGED <<todo, bound, shot, wants, results>>

\* The locals of the job are gone; the caches are whatever it left.
Over(how) ==
  /\ \E j \in job : outcome' = [outcome EXCEPT ![j] = how]
  /\ stage' = "idle" /\ job' = {} /\ req' = NoRequest
  /\ todo' = {} /\ bound' = {} /\ shot' = 0 /\ wants' = 0

EndKeepsDirOnFailure(how) ==
  /\ Over(how)
  /\ dirs' = IF how = "failed" THEN dirs ELSE dirs \ job

\* run returned or raised: `finally` removes the directory.
End(how) == Over(how) /\ dirs' = dirs \ job

PutLater(key) ==
  /\ r2' = r2
  /\ \E j \in job : points' = [points EXCEPT ![j] = @ \cup {key}]

\* put_file, and the key goes into the result.
Put(key) ==
  /\ r2' = [r2 EXCEPT ![key] = job]
  /\ \E j \in job : points' = [points EXCEPT ![j] = @ \cup {key}]

\* A fetch, an export, a draw, an upload or a training step raises: nothing cached
\* is dropped.
Raises ==
  /\ stage \in {"fetch keyframe", "export", "fetch bundle", "draw", "fetch cast", "train"}
  /\ End("failed")
  /\ training' = FALSE
  /\ UNCHANGED <<i2v, broken, pipe, r2, points>>

\* The client kills the worker, or it crashes: no `finally` runs (SIGTERM has its
\* default action there), and a fresh process has nothing cached.
Killed ==
  /\ ~At("idle")
  /\ UnloadI2V /\ UnloadPreview /\ training' = FALSE
  /\ Over("killed")
  /\ UNCHANGED <<dirs, r2, points>>

-----------------------------------------------------------------------------
(* i2v_clip: build_i2v_run_fn and animate. *)

\* Preview and i2v share one card: drop SDXL first.
BeginI2V(j, r) ==
  /\ r.action = "i2v_clip"
  /\ Begin(j, r) /\ Go("fetch keyframe")
  /\ UnloadPreview
  /\ UNCHANGED <<i2v, broken, training>>

FetchKeyframe ==
  /\ At("fetch keyframe") /\ Go("generate")
  /\ UNCHANGED <<card, now, locals, results>>

\* _get_pipe and the pipeline call: the pipe of this key is built once and kept.
Generate ==
  /\ At("generate") /\ Go("export")
  /\ i2v' = i2v \cup {req.key}
  /\ broken' = IF req.key \in i2v THEN broken ELSE broken \ {req.key}
  /\ UNCHANGED <<pipe, training, now, locals, results>>

GenerateRaisesKeepingPipe ==
  /\ At("generate")
  /\ broken' = broken \cup {req.key}
  /\ End("failed")
  /\ UNCHANGED <<i2v, pipe, training, r2, points>>

\* Either of them raised: _evict_pipe, and the error goes on.
GenerateRaises ==
  /\ At("generate")
  /\ i2v' = i2v \ {req.key}
  /\ broken' = broken \cup {req.key}
  /\ End("failed")
  /\ UNCHANGED <<pipe, training, r2, points>>

\* export_to_video, then the upload, then the pointer.
ExportAndPut ==
  /\ At("export")
  /\ Put(Clip)
  /\ End("returned")
  /\ UNCHANGED card

-----------------------------------------------------------------------------
(* preview: render_preview. *)

BeginPreviewBesideI2V(j, r) ==
  /\ r.action = "preview"
  /\ Begin(j, r) /\ Go("fetch bundle")
  /\ UNCHANGED card

BeginPreview(j, r) ==
  /\ r.action = "preview"
  /\ Begin(j, r) /\ Go("fetch bundle")
  /\ UnloadI2V
  /\ UNCHANGED <<pipe, training>>

\* Bundle, plan, model, staged adapters: the anime base takes no adapters.
FetchBundle ==
  /\ At("fetch bundle") /\ Go("get pipe")
  /\ todo' = IF req.model = "anime" THEN {} ELSE req.loras
  /\ UNCHANGED <<card, now, req, bound, shot, wants, results>>

\* _get_pipe: the cached pipe if its model matches, whatever few_step says ...
ReusePipe ==
  /\ At("get pipe") /\ Go("bind")
  /\ sdxl = req.model
  /\ UNCHANGED <<card, now, locals, results>>

\* ... or a new one, with Hyper-SD when few_step asks for it and it loads.
BuildPipe ==
  /\ At("get pipe") /\ Go("bind")
  /\ sdxl # req.model
  /\ sdxl' = req.model /\ ip' = 0 /\ loaded' = {} /\ builder' = job
  /\ distill' \in IF req.few_step THEN {"active", "raised"} ELSE {"absent"}
  /\ UNCHANGED <<i2v, broken, training, now, locals, results>>

\* from_pretrained raised, after a pipe of another model was dropped.
BuildRaises ==
  /\ At("get pipe")
  /\ sdxl # req.model
  /\ UnloadPreview
  /\ End("failed")
  /\ UNCHANGED <<i2v, broken, training, r2, points>>

\* load_lora_weights under the name char_<slot>, which must be free.
Bind(s) ==
  /\ At("bind") /\ s \in todo
  /\ \A a \in loaded : a[1] # s
  /\ loaded' = loaded \cup ({s} \X job)
  /\ bound' = bound \cup {s}
  /\ todo' = todo \ {s}
  /\ UNCHANGED <<i2v, broken, sdxl, distill, ip, builder, training, stage, now, req, shot, wants, results>>

\* A load or set_adapters raised, for a taken name or another reason: drop the pipe.
BindRaises ==
  /\ At("bind") /\ todo \cup bound # {}
  /\ UnloadPreview
  /\ End("failed")
  /\ UNCHANGED <<i2v, broken, training, r2, points>>

\* set_adapters: the job's adapters join whatever was active.
Bound ==
  /\ At("bind") /\ todo = {} /\ Go("shot")
  /\ shot' = 1
  /\ UNCHANGED <<card, now, req, todo, bound, wants, results>>

NextShotSkipsLast == IF shot + 1 < Shots THEN shot' = shot + 1 /\ Go("shot") ELSE shot' = 0 /\ Go("clean up")

\* The loop over the shots, and what follows it.
NextShot == IF shot < Shots THEN shot' = shot + 1 /\ Go("shot") ELSE shot' = 0 /\ Go("clean up")

\* A shot with a start image is copied through without the pipe.
CopyShot ==
  /\ At("shot")
  /\ Put(Keyframe(shot))
  /\ NextShot
  /\ UNCHANGED <<card, now, req, todo, bound, wants, outcome>>

EnsureIpOnlyLoads(n) ==
  /\ At("shot") /\ Go("draw")
  /\ wants' = n
  /\ ip' = IF n = 1 THEN 1 ELSE ip
  /\ UNCHANGED <<i2v, broken, sdxl, distill, loaded, builder, training, now, req, todo, bound, shot, results>>

\* _ensure_ip_adapter: exactly n encoders, n being whether the shot has a usable
\* reference image.
EnsureIp(n) ==
  /\ At("shot") /\ Go("draw")
  /\ wants' = n
  /\ ip' = n
  /\ UNCHANGED <<i2v, broken, sdxl, distill, loaded, builder, training, now, req, todo, bound, shot, results>>

\* Loading or unloading it raised: drop the pipe.
EnsureIpRaises(n) ==
  /\ At("shot") /\ ip # n
  /\ UnloadPreview
  /\ End("failed")
  /\ UNCHANGED <<i2v, broken, training, r2, points>>

\* The pipeline call, the save and the upload.
Draw ==
  /\ At("draw")
  /\ Put(Keyframe(shot))
  /\ NextShot
  /\ wants' = 0
  /\ UNCHANGED <<card, now, req, todo, bound, outcome>>

CleanUpNothing ==
  /\ At("clean up")
  /\ End("returned")
  /\ UNCHANGED <<card, r2, points>>

\* delete_adapters of the names it bound.
CleanUp ==
  /\ At("clean up")
  /\ loaded' = {a \in loaded : a[1] \notin bound}
  /\ End("returned")
  /\ UNCHANGED <<i2v, broken, sdxl, distill, ip, builder, training, r2, points>>

\* delete_adapters raised, which is swallowed: the job succeeds all the same.
CleanUpRaises ==
  /\ At("clean up") /\ bound # {}
  /\ End("undeleted")
  /\ UNCHANGED <<card, r2, points>>

-----------------------------------------------------------------------------
(* train_lora: run_train_lora and train_slot. *)

\* _unload_card: both caches.
BeginTrain(j, r) ==
  /\ r.action = "train_lora"
  /\ Begin(j, r) /\ Go("fetch cast")
  /\ UnloadPreview /\ UnloadI2V
  /\ UNCHANGED training

\* A slot trains if the bundle has reference images for it; none at all is an error.
FetchCast ==
  /\ At("fetch cast") /\ Go("train")
  /\ todo' = req.slots
  /\ training' = TRUE
  /\ UNCHANGED <<i2v, broken, pipe, now, req, bound, shot, wants, results>>

\* One slot: trained, released, uploaded, pointed to; then the next or the result.
TrainSlot(s) ==
  /\ At("train") /\ s \in todo
  /\ Put(Lora(s))
  /\ IF todo = {s}
     THEN End("returned") /\ training' = FALSE
     ELSE todo' = todo \ {s}
          /\ UNCHANGED <<training, stage, now, req, bound, shot, wants, outcome>>
  /\ UNCHANGED <<i2v, broken, pipe>>

-----------------------------------------------------------------------------

I2V     == FetchKeyframe \/ Generate \/ GenerateRaises \/ ExportAndPut
Preview ==
  \/ FetchBundle \/ ReusePipe \/ BuildPipe \/ BuildRaises
  \/ \E s \in Slot : Bind(s)
  \/ BindRaises \/ Bound \/ CopyShot
  \/ \E n \in {0, 1} : EnsureIp(n) \/ EnsureIpRaises(n)
  \/ Draw \/ CleanUp \/ CleanUpRaises
Train   == FetchCast \/ \E s \in Slot : TrainSlot(s)

Next ==
  \/ \E j \in Job, r \in Request : BeginI2V(j, r) \/ BeginPreview(j, r) \/ BeginTrain(j, r)
  \/ I2V \/ Preview \/ Train
  \/ Raises \/ Killed

Spec == Init /\ [][Next]_vars

-----------------------------------------------------------------------------
(* Properties. *)

\* The state has its types.
TypeOK ==
  /\ i2v \subseteq Tiers /\ broken \subseteq Tiers
  /\ sdxl \in Models \cup {"none"} /\ builder \subseteq Job /\ distill \in {"absent", "active", "raised"}
  /\ ip \in {0, 1} /\ loaded \subseteq Slot \X Job /\ training \in BOOLEAN
  /\ stage \in {"idle", "fetch keyframe", "generate", "export", "fetch bundle", "get pipe",
                "bind", "shot", "draw", "clean up", "fetch cast", "train"}
  /\ job \subseteq Job /\ dirs \subseteq Job /\ req \in Request \cup {NoRequest}
  /\ todo \subseteq Slot /\ bound \subseteq Slot
  /\ shot \in 0..Shots /\ wants \in {0, 1}
  /\ outcome \in [Job -> {"pending", "returned", "undeleted", "failed", "killed"}]
  /\ r2 \in [Key -> SUBSET Job]
  /\ points \in [Job -> SUBSET Key]

\* "A single consumer card can host both stages serially": whatever failed before, at
\* most one of LTX, SDXL and a training run has its weights loaded.
OneStageOnTheCard ==
  /\ i2v # {} => sdxl = "none" /\ ~training
  /\ sdxl # "none" => ~training

\* "A poisoned pipe never carries into the next job": no cached i2v pipe is one on
\* which a generate has raised.
NoBrokenPipeCached == i2v \cap broken = {}

\* The shared pipe suits the shot it draws, whatever the shot or job before it needed:
\* the job's base model, an IP-Adapter exactly for a shot with a reference image, and
\* Hyper-SD as few_step asks when this job built it.  Only an inherited pipe can be
\* wrong on the last count, since _get_pipe compares nothing but the model, and only a
\* load of Hyper-SD that raised can leave few steps without it.
PipeSuitsTheShot ==
  At("draw") =>
    /\ sdxl = req.model
    /\ ip = wants
    /\ builder = job => IF req.few_step THEN distill # "absent" ELSE distill = "absent"

\* What outlives its job is the trace of a failure.  An adapter left in the shared pipe
\* was loaded by a job that raised before its clean-up or in it; a directory left on the
\* disk, which nothing ever removes, is that of a job killed with its worker.
LeftoversComeFromFailures ==
  /\ \A a \in loaded : {a[2]} = job \/ outcome[a[2]] \in {"failed", "undeleted"}
  /\ \A j \in dirs \ job : outcome[j] = "killed"

\* "A producer stage never fakes output": a returned job points to its whole work (each
\* shot of a preview, the clip, or each slot trained), and each pointer leads to an
\* object in R2 that this very job wrote.
Complete(r) ==
  CASE r.action = "i2v_clip" -> {Clip}
    [] r.action = "preview" -> {Keyframe(n) : n \in 1..Shots}
    [] r.action = "train_lora" -> {Lora(s) : s \in r.slots}

ResultsAreWhole ==
  [][\A j \in job : outcome'[j] \in {"returned", "undeleted"} =>
         points'[j] = Complete(req) /\ \A k \in points'[j] : r2'[k] = {j}]_vars

-----------------------------------------------------------------------------
(* What the repository says and the code does not do. *)

\* preview_sdxl.py: "drop character adapters so the next job starts clean".
DrawsOwnIdentity == At("draw") => \A a \in loaded : {a[2]} = job
=============================================================================
