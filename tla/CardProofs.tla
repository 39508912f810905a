------------------------------ MODULE CardProofs ------------------------------
(***************************************************************************)
(* What the worker's caches may hold, for any number of jobs, any set of    *)
(* cast slots and any number of shots.  The caches say nothing of what the  *)
(* job is at and the job's place in its body nothing of the caches; the     *)
(* invariant ties the two together.                                         *)
(***************************************************************************)
EXTENDS Card, TLAPS

I2VStages     == {"fetch keyframe", "generate", "export"}
PreviewStages == {"fetch bundle", "get pipe", "bind", "shot", "draw", "clean up"}
TrainStages   == {"fetch cast", "train"}
WithPipe      == {"bind", "shot", "draw", "clean up"}

\* A job runs a request of its own action, and only from begin to end.
JobFits ==
  /\ stage = "idle" => job = {}
  /\ stage # "idle" => \E j \in Job : job = {j} /\ outcome[j] = "pending"
  /\ stage \in I2VStages => req \in [action : {"i2v_clip"}, key : Tiers]
  /\ stage \in PreviewStages =>
       req \in [action : {"preview"}, few_step : BOOLEAN, model : Models, loras : SUBSET Slot]
  /\ stage \in TrainStages => req \in [action : {"train_lora"}, slots : SUBSET Slot \ {{}}]
  /\ stage \in {"shot", "draw"} => shot \in 1..Shots

\* The other stages' weights are gone while a job of one stage runs.
CardFits ==
  /\ stage \in I2VStages => sdxl = "none"
  /\ stage \in PreviewStages => i2v = {}
  /\ stage \in TrainStages => i2v = {} /\ sdxl = "none"
  /\ i2v # {} => sdxl = "none"
  /\ training => stage = "train"
  /\ i2v \cap broken = {}

\* What is in the cached pipe, and by whom.
PipeFits ==
  /\ sdxl = "none" => loaded = {} /\ builder = {}
  /\ \A k \in builder : k \in job \/ outcome[k] # "pending"
  /\ stage \in {"fetch bundle", "get pipe"} => builder # job
  /\ stage \in WithPipe =>
       /\ sdxl = req.model
       /\ builder = job => IF req.few_step THEN distill # "absent" ELSE distill = "absent"
  /\ stage = "draw" => ip = wants

\* Whose traces there are: of the job at work, where it says so, and of failures.
TracesFit ==
  /\ \A a \in loaded : a[2] \in job \/ outcome[a[2]] \in {"failed", "undeleted"}
  /\ \A a \in loaded : a[2] \in job => stage \in WithPipe /\ a[1] \in bound
  /\ \A k \in dirs \ job : outcome[k] = "killed"

\* What the job at work has uploaded and points to, by where it is.
Before == {"fetch keyframe", "generate", "export", "fetch bundle", "get pipe", "bind", "fetch cast"}

WorkFits ==
  /\ \A k \in Job \ job : outcome[k] = "pending" => points[k] = {}
  /\ \A k \in job :
       /\ stage \in Before => points[k] = {}
       /\ stage \in {"shot", "draw"} => points[k] = {Keyframe(n) : n \in 1..(shot - 1)}
       /\ stage = "clean up" => points[k] = {Keyframe(n) : n \in 1..Shots}
       /\ stage = "train" => points[k] = {Lora(s) : s \in req.slots \ todo}
       /\ \A key \in points[k] : r2[key] = job
  /\ stage = "train" => todo \subseteq req.slots

IInv == TypeOK /\ JobFits /\ CardFits /\ PipeFits /\ TracesFit /\ WorkFits

-----------------------------------------------------------------------------
\* A job that is over leaves the stage with its one outcome, and no other's is touched.
LEMMA OverFacts ==
  ASSUME TypeOK, JobFits, stage # "idle",
         NEW how \in {"returned", "undeleted", "failed", "killed"}, Over(how)
  PROVE  /\ stage' = "idle" /\ job' = {} /\ req' = NoRequest
         /\ todo' = {} /\ bound' = {} /\ shot' = 0 /\ wants' = 0
         /\ outcome' \in [Job -> {"pending", "returned", "undeleted", "failed", "killed"}]
         /\ \A k \in Job : outcome'[k] = IF k \in job THEN how ELSE outcome[k]
<1>1. PICK j \in Job : job = {j}
  BY DEF JobFits
<1>2. outcome' = [outcome EXCEPT ![j] = how]
  BY <1>1 DEF Over
<1>3. outcome \in [Job -> {"pending", "returned", "undeleted", "failed", "killed"}]
  BY DEF TypeOK
<1>4. \A k \in Job : outcome'[k] = IF k = j THEN how ELSE outcome[k]
  BY <1>2, <1>3
<1>5. \A k \in Job : k \in job <=> k = j
  BY <1>1
<1> QED
  BY <1>2, <1>3, <1>4, <1>5 DEF Over

\* An upload writes for the job and points to it.
LEMMA PutFacts ==
  ASSUME TypeOK, JobFits, stage # "idle", NEW key \in Key, Put(key)
  PROVE  /\ r2' \in [Key -> SUBSET Job] /\ points' \in [Job -> SUBSET Key]
         /\ \A k \in Job : points'[k] = IF k \in job THEN points[k] \cup {key} ELSE points[k]
         /\ \A k \in Key : r2'[k] = IF k = key THEN job ELSE r2[k]
<1>1. PICK j \in Job : job = {j}
  BY DEF JobFits
<1>2. points' = [points EXCEPT ![j] = @ \cup {key}] /\ r2' = [r2 EXCEPT ![key] = {j}]
  BY <1>1 DEF Put
<1>3. points \in [Job -> SUBSET Key] /\ r2 \in [Key -> SUBSET Job]
  BY DEF TypeOK
<1>4. \A k \in Job : points'[k] = IF k = j THEN points[k] \cup {key} ELSE points[k]
  BY <1>2, <1>3
<1>5. \A k \in Key : r2'[k] = IF k = key THEN {j} ELSE r2[k]
  BY <1>2, <1>3
<1> QED
  BY <1>1, <1>2, <1>3, <1>4, <1>5

LEMMA KeysAreKeys ==
  /\ Clip \in Key
  /\ \A n \in 1..Shots : Keyframe(n) \in Key
  /\ \A s \in Slot : Lora(s) \in Key
BY DEF Key, Keyframe, Lora

LEMMA ShotRange == Shots \in Nat /\ 0 \in 0..Shots /\ 1 \in 1..Shots /\ 1..Shots \subseteq 0..Shots
BY ShotsPositive

LEMMA NextShotFacts ==
  ASSUME shot \in 1..Shots, NextShot
  PROVE  \/ stage' = "shot" /\ shot' \in 1..Shots /\ shot' = shot + 1
         \/ stage' = "clean up" /\ shot' = 0 /\ shot = Shots
<1>1. CASE shot < Shots
  <2>1. shot + 1 \in 1..Shots
    BY <1>1, ShotRange
  <2> QED
    BY <1>1, <2>1 DEF NextShot, Go
<1>2. CASE ~(shot < Shots)
  <2>1. shot = Shots
    BY <1>2, ShotRange
  <2> QED
    BY <1>2, <2>1 DEF NextShot, Go
<1> QED
  BY <1>1, <1>2

\* One more keyframe, and all of them.
LEMMA KeyframesGrow ==
  ASSUME NEW n \in 1..Shots
  PROVE  {Keyframe(m) : m \in 1..(n - 1)} \cup {Keyframe(n)} = {Keyframe(m) : m \in 1..n}
<1>1. 1..n = (1..(n - 1)) \cup {n}
  BY ShotRange
<1> QED
  BY <1>1

\* A keyframe more, drawn or copied.
LEMMA KeyframeWork ==
  ASSUME TypeOK, JobFits, WorkFits, stage \in {"shot", "draw"}, NextShot, Put(Keyframe(shot)),
         job' = job, outcome' = outcome
  PROVE  WorkFits'
<1>1. shot \in 1..Shots
  BY DEF JobFits
<1>2. /\ points' \in [Job -> SUBSET Key]
      /\ \A k \in Job : points'[k] = IF k \in job THEN points[k] \cup {Keyframe(shot)} ELSE points[k]
      /\ \A k \in Key : r2'[k] = IF k = Keyframe(shot) THEN job ELSE r2[k]
  BY <1>1, PutFacts, KeysAreKeys
<1>3. job \subseteq Job
  BY DEF TypeOK
<1>4. \A k \in job : points'[k] = {Keyframe(n) : n \in 1..shot}
  BY <1>1, <1>2, <1>3, KeyframesGrow DEF WorkFits
<1>5. \A k \in job : \A key \in points'[k] : r2'[key] = job
  <2> TAKE k \in job
  <2> TAKE key \in points'[k]
  <2>1. k \in Job /\ key \in Key
    BY <1>2, <1>3
  <2>2. key = Keyframe(shot) \/ key \in points[k]
    BY <1>2, <2>1
  <2> QED
    BY <1>2, <2>1, <2>2 DEF WorkFits
<1>6. \A k \in Job \ job : outcome[k] = "pending" => points'[k] = {}
  BY <1>2 DEF WorkFits
<1>7. CASE stage' = "shot" /\ shot' = shot + 1
  <2>1. shot' - 1 = shot
    BY <1>1, <1>7
  <2> QED
    BY <1>4, <1>5, <1>6, <1>7, <2>1 DEF WorkFits, Before
<1>8. CASE stage' = "clean up" /\ shot = Shots
  BY <1>4, <1>5, <1>6, <1>8 DEF WorkFits, Before
<1> QED
  BY <1>1, <1>7, <1>8, NextShotFacts

\* Whose adapters and directories there can be.
LEMMA TracesHaveJobs ==
  ASSUME TypeOK
  PROVE  (\A a \in loaded : a[2] \in Job) /\ (\A k \in dirs : k \in Job)
BY DEF TypeOK

LEMMA InitInv == Init => IInv
<1> SUFFICES ASSUME Init PROVE IInv
  OBVIOUS
<1>1. r2 \in [Key -> SUBSET Job] /\ points \in [Job -> SUBSET Key]
  BY DEF Init
<1>2. outcome \in [Job -> {"pending", "returned", "undeleted", "failed", "killed"}]
  BY DEF Init
<1>3. loaded \subseteq Slot \X Job /\ shot \in 0..Shots /\ req \in Request \cup {NoRequest}
  BY ShotRange DEF Init
<1>4. TypeOK
  BY <1>1, <1>2, <1>3 DEF Init, TypeOK
<1>5. JobFits /\ CardFits /\ PipeFits /\ TracesFit /\ WorkFits
  BY DEF Init, JobFits, CardFits, PipeFits, TracesFit, WorkFits, I2VStages, PreviewStages,
         TrainStages, WithPipe
<1> QED
  BY <1>4, <1>5 DEF IInv

\* Every action preserves the invariant: one lemma an action, one step a conjunct.

LEMMA BeginI2VInv ==
  ASSUME IInv, NEW j \in Job, NEW r \in Request, BeginI2V(j, r)
  PROVE  IInv'
<1>1. TypeOK'
  BY DEF IInv, TypeOK, BeginI2V, Go, Begin, UnloadPreview, results
<1>2. JobFits'
  BY DEF JobFits, Request, BeginI2V, Go, Begin, results, PreviewStages, TrainStages
<1>3. CardFits'
  BY DEF IInv, CardFits, BeginI2V, At, Go, Begin, UnloadPreview, PreviewStages, TrainStages
<1>4. PipeFits'
  BY DEF PipeFits, BeginI2V, Go, UnloadPreview, WithPipe
<1>5. TracesFit'
  BY DEF IInv, JobFits, TracesFit, BeginI2V, At, Begin, UnloadPreview, results, I2VStages,
         PreviewStages, TrainStages, WithPipe
<1>6. WorkFits'
  BY DEF IInv, JobFits, WorkFits, BeginI2V, At, Go, Begin, results, I2VStages, PreviewStages,
         TrainStages
<1> QED
  BY <1>1, <1>2, <1>3, <1>4, <1>5, <1>6 DEF IInv

LEMMA BeginPreviewInv ==
  ASSUME IInv, NEW j \in Job, NEW r \in Request, BeginPreview(j, r)
  PROVE  IInv'
<1>1. TypeOK'
  BY DEF IInv, TypeOK, BeginPreview, Go, Begin, UnloadI2V, pipe, results
<1>2. JobFits'
  BY DEF JobFits, Request, BeginPreview, Go, Begin, results, I2VStages, TrainStages
<1>3. CardFits'
  BY DEF IInv, CardFits, BeginPreview, At, Go, Begin, UnloadI2V, I2VStages, PreviewStages,
         TrainStages
<1>4. PipeFits'
  BY DEF IInv, JobFits, PipeFits, BeginPreview, At, Go, Begin, pipe, results, I2VStages,
         PreviewStages, TrainStages, WithPipe
<1>5. TracesFit'
  BY DEF IInv, JobFits, TracesFit, BeginPreview, At, Begin, pipe, results
<1>6. WorkFits'
  BY DEF IInv, JobFits, WorkFits, BeginPreview, At, Go, Begin, results, I2VStages, PreviewStages,
         TrainStages
<1> QED
  BY <1>1, <1>2, <1>3, <1>4, <1>5, <1>6 DEF IInv

LEMMA BeginTrainInv ==
  ASSUME IInv, NEW j \in Job, NEW r \in Request, BeginTrain(j, r)
  PROVE  IInv'
<1>1. TypeOK'
  BY DEF IInv, TypeOK, BeginTrain, Go, Begin, UnloadPreview, UnloadI2V, results
<1>2. JobFits'
  BY DEF JobFits, Request, BeginTrain, Go, Begin, results, I2VStages, PreviewStages
<1>3. CardFits'
  BY DEF IInv, CardFits, BeginTrain, At, Begin, UnloadPreview, UnloadI2V
<1>4. PipeFits'
  BY DEF PipeFits, BeginTrain, Go, UnloadPreview, TrainStages, WithPipe
<1>5. TracesFit'
  BY DEF IInv, JobFits, TracesFit, BeginTrain, At, Begin, UnloadPreview, results, I2VStages,
         PreviewStages, TrainStages, WithPipe
<1>6. WorkFits'
  BY DEF IInv, JobFits, WorkFits, BeginTrain, At, Go, Begin, results, I2VStages, PreviewStages,
         TrainStages
<1> QED
  BY <1>1, <1>2, <1>3, <1>4, <1>5, <1>6 DEF IInv

LEMMA FetchKeyframeInv ==
  ASSUME IInv, FetchKeyframe
  PROVE  IInv'
<1>1. TypeOK'
  BY DEF IInv, TypeOK, FetchKeyframe, Go, card, pipe, now, locals, results, I2VStages,
         PreviewStages, TrainStages
<1>2. JobFits'
  BY DEF IInv, JobFits, FetchKeyframe, At, Go, now, locals, results, I2VStages, PreviewStages,
         TrainStages
<1>3. CardFits'
  BY DEF IInv, CardFits, FetchKeyframe, At, Go, card, pipe, I2VStages, PreviewStages, TrainStages
<1>4. PipeFits'
  BY DEF IInv, PipeFits, FetchKeyframe, Go, card, pipe, now, locals, results, I2VStages,
         PreviewStages, TrainStages, WithPipe
<1>5. TracesFit'
  BY DEF IInv, TracesFit, FetchKeyframe, At, card, pipe, now, results, I2VStages, PreviewStages,
         TrainStages, WithPipe
<1>6. WorkFits'
  BY DEF IInv, WorkFits, Before, FetchKeyframe, At, Go, now, results, I2VStages, PreviewStages,
         TrainStages
<1> QED
  BY <1>1, <1>2, <1>3, <1>4, <1>5, <1>6 DEF IInv

LEMMA GenerateInv ==
  ASSUME IInv, Generate
  PROVE  IInv'
<1>1. TypeOK'
  BY DEF IInv, TypeOK, JobFits, Generate, At, Go, pipe, now, locals, results, I2VStages,
         PreviewStages, TrainStages
<1>2. JobFits'
  BY DEF IInv, JobFits, Generate, At, Go, now, locals, results, I2VStages, PreviewStages,
         TrainStages
<1>3. CardFits'
  BY DEF IInv, CardFits, Generate, At, Go, pipe, I2VStages, PreviewStages, TrainStages
<1>4. PipeFits'
  BY DEF IInv, PipeFits, Generate, Go, pipe, now, results, I2VStages, PreviewStages, TrainStages,
         WithPipe
<1>5. TracesFit'
  BY DEF IInv, TracesFit, Generate, At, pipe, now, results, I2VStages, PreviewStages, TrainStages,
         WithPipe
<1>6. WorkFits'
  BY DEF IInv, WorkFits, Before, Generate, At, Go, now, results, I2VStages, PreviewStages,
         TrainStages
<1> QED
  BY <1>1, <1>2, <1>3, <1>4, <1>5, <1>6 DEF IInv

LEMMA GenerateRaisesInv ==
  ASSUME IInv, GenerateRaises
  PROVE  IInv'
<1>1. req.key \in Tiers
  BY DEF IInv, JobFits, GenerateRaises, At, I2VStages
<1>2. /\ stage' = "idle" /\ job' = {} /\ req' = NoRequest
      /\ todo' = {} /\ bound' = {} /\ shot' = 0 /\ wants' = 0
      /\ outcome' \in [Job -> {"pending", "returned", "undeleted", "failed", "killed"}]
      /\ \A k \in Job : outcome'[k] = IF k \in job THEN "failed" ELSE outcome[k]
  BY OverFacts DEF IInv, GenerateRaises, End, At
<1>3. TypeOK'
  BY ShotRange, <1>1, <1>2 DEF IInv, TypeOK, GenerateRaises, End, pipe
<1>4. JobFits'
  BY <1>2 DEF JobFits, I2VStages, PreviewStages, TrainStages
<1>5. CardFits'
  BY <1>2 DEF IInv, CardFits, GenerateRaises, At, pipe, I2VStages, PreviewStages, TrainStages
<1>6. PipeFits'
  BY <1>2
  DEF IInv, CardFits, PipeFits, GenerateRaises, At, pipe, I2VStages, PreviewStages, TrainStages,
      WithPipe
<1>7. TracesFit'
  BY <1>2 DEF IInv, TypeOK, TracesFit, GenerateRaises, End, pipe
<1>8. WorkFits'
  BY <1>2 DEF IInv, WorkFits, GenerateRaises
<1> QED
  BY <1>3, <1>4, <1>5, <1>6, <1>7, <1>8 DEF IInv

LEMMA ExportAndPutInv ==
  ASSUME IInv, ExportAndPut
  PROVE  IInv'
<1>1. /\ stage' = "idle" /\ job' = {} /\ req' = NoRequest
      /\ todo' = {} /\ bound' = {} /\ shot' = 0 /\ wants' = 0
      /\ outcome' \in [Job -> {"pending", "returned", "undeleted", "failed", "killed"}]
      /\ \A k \in Job : outcome'[k] = IF k \in job THEN "returned" ELSE outcome[k]
  BY OverFacts DEF IInv, ExportAndPut, End, At
<1>2. /\ r2' \in [Key -> SUBSET Job] /\ points' \in [Job -> SUBSET Key]
      /\ \A k \in Job : points'[k] = IF k \in job THEN points[k] \cup {Clip} ELSE points[k]
      /\ \A k \in Key : r2'[k] = IF k = Clip THEN job ELSE r2[k]
  BY PutFacts, KeysAreKeys DEF IInv, ExportAndPut, At
<1>3. TypeOK'
  BY ShotRange, <1>1, <1>2 DEF IInv, TypeOK, ExportAndPut, End, card, pipe
<1>4. JobFits'
  BY <1>1 DEF JobFits, I2VStages, PreviewStages, TrainStages
<1>5. CardFits'
  BY <1>1 DEF IInv, CardFits, ExportAndPut, At, card, pipe, I2VStages, PreviewStages, TrainStages
<1>6. PipeFits'
  BY <1>1 DEF IInv, CardFits, PipeFits, ExportAndPut, At, card, pipe, I2VStages, WithPipe
<1>7. TracesFit'
  BY <1>1
  DEF IInv, TypeOK, TracesFit, ExportAndPut, At, End, card, pipe, I2VStages, PreviewStages,
      TrainStages, WithPipe
<1>8. WorkFits'
  BY <1>1, <1>2 DEF IInv, WorkFits
<1> QED
  BY <1>3, <1>4, <1>5, <1>6, <1>7, <1>8 DEF IInv

LEMMA FetchBundleInv ==
  ASSUME IInv, FetchBundle
  PROVE  IInv'
<1>1. TypeOK'
  BY DEF IInv, TypeOK, JobFits, FetchBundle, At, Go, card, pipe, now, results, I2VStages,
         PreviewStages, TrainStages
<1>2. JobFits'
  BY DEF IInv, JobFits, FetchBundle, At, Go, now, results, I2VStages, PreviewStages, TrainStages
<1>3. CardFits'
  BY DEF IInv, CardFits, FetchBundle, At, Go, card, I2VStages, PreviewStages, TrainStages
<1>4. PipeFits'
  BY DEF IInv, PipeFits, FetchBundle, At, Go, card, pipe, now, results, I2VStages, PreviewStages,
         TrainStages, WithPipe
<1>5. TracesFit'
  BY DEF IInv, TracesFit, FetchBundle, At, card, pipe, now, results, I2VStages, PreviewStages,
         TrainStages, WithPipe
<1>6. WorkFits'
  BY DEF IInv, WorkFits, Before, FetchBundle, At, Go, now, results, I2VStages, PreviewStages,
         TrainStages
<1> QED
  BY <1>1, <1>2, <1>3, <1>4, <1>5, <1>6 DEF IInv

LEMMA ReusePipeInv ==
  ASSUME IInv, ReusePipe
  PROVE  IInv'
<1>1. TypeOK'
  BY DEF IInv, TypeOK, ReusePipe, Go, card, pipe, now, locals, results, I2VStages, PreviewStages,
         TrainStages
<1>2. JobFits'
  BY DEF IInv, JobFits, ReusePipe, At, Go, now, locals, results, I2VStages, PreviewStages,
         TrainStages
<1>3. CardFits'
  BY DEF IInv, CardFits, ReusePipe, At, Go, card, I2VStages, PreviewStages, TrainStages
<1>4. PipeFits'
  BY DEF IInv, PipeFits, ReusePipe, At, Go, card, pipe, now, locals, results, I2VStages,
         PreviewStages, TrainStages, WithPipe
<1>5. TracesFit'
  BY DEF IInv, TracesFit, ReusePipe, Go, card, pipe, now, locals, results, I2VStages,
         PreviewStages, TrainStages, WithPipe
<1>6. WorkFits'
  BY DEF IInv, WorkFits, Before, ReusePipe, At, Go, now, results, I2VStages, PreviewStages,
         TrainStages
<1> QED
  BY <1>1, <1>2, <1>3, <1>4, <1>5, <1>6 DEF IInv

LEMMA BuildPipeInv ==
  ASSUME IInv, BuildPipe
  PROVE  IInv'
<1>1. req.model # "none"
  BY DEF IInv, JobFits, PreviewStages, Models, BuildPipe, At
<1>2. TypeOK'
  BY DEF IInv, TypeOK, JobFits, BuildPipe, At, Go, now, locals, results, I2VStages, PreviewStages,
         TrainStages
<1>3. JobFits'
  BY DEF IInv, JobFits, BuildPipe, At, Go, now, locals, results, I2VStages, PreviewStages,
         TrainStages
<1>4. CardFits'
  BY DEF IInv, CardFits, BuildPipe, At, Go, I2VStages, PreviewStages, TrainStages
<1>5. PipeFits'
  BY <1>1 DEF PipeFits, BuildPipe, Go, now, locals
<1>6. TracesFit'
  BY DEF IInv, TracesFit, BuildPipe, now, results
<1>7. WorkFits'
  BY DEF IInv, WorkFits, Before, BuildPipe, At, Go, now, results, I2VStages, PreviewStages,
         TrainStages
<1> QED
  BY <1>2, <1>3, <1>4, <1>5, <1>6, <1>7 DEF IInv

LEMMA BuildRaisesInv ==
  ASSUME IInv, BuildRaises
  PROVE  IInv'
<1>1. /\ stage' = "idle" /\ job' = {} /\ req' = NoRequest
      /\ todo' = {} /\ bound' = {} /\ shot' = 0 /\ wants' = 0
      /\ outcome' \in [Job -> {"pending", "returned", "undeleted", "failed", "killed"}]
      /\ \A k \in Job : outcome'[k] = IF k \in job THEN "failed" ELSE outcome[k]
  BY OverFacts DEF IInv, BuildRaises, End, At
<1>2. TypeOK'
  BY ShotRange, <1>1 DEF IInv, TypeOK, BuildRaises, End, UnloadPreview
<1>3. JobFits'
  BY <1>1 DEF JobFits, I2VStages, PreviewStages, TrainStages
<1>4. CardFits'
  BY DEF IInv, CardFits, BuildRaises, At, UnloadPreview, PreviewStages
<1>5. PipeFits'
  BY <1>1 DEF PipeFits, BuildRaises, UnloadPreview, WithPipe
<1>6. TracesFit'
  BY <1>1
  DEF IInv, TypeOK, TracesFit, BuildRaises, End, UnloadPreview, I2VStages, PreviewStages,
      TrainStages, WithPipe
<1>7. WorkFits'
  BY <1>1 DEF IInv, WorkFits, BuildRaises
<1> QED
  BY <1>2, <1>3, <1>4, <1>5, <1>6, <1>7 DEF IInv

LEMMA BindInv ==
  ASSUME IInv, NEW s \in Slot, Bind(s)
  PROVE  IInv'
<1>1. req.model # "none"
  BY DEF IInv, JobFits, PreviewStages, Models, Bind, At
<1>2. TypeOK'
  BY DEF IInv, TypeOK, Bind, now, results
<1>3. JobFits'
  BY DEF IInv, JobFits, Bind, now, results
<1>4. CardFits'
  BY DEF IInv, CardFits, Bind
<1>5. PipeFits'
  BY <1>1 DEF IInv, PipeFits, Bind, At, now, results, TrainStages, WithPipe
<1>6. TracesFit'
  BY DEF IInv, TracesFit, Bind, At, now, results, WithPipe
<1>7. WorkFits'
  BY DEF IInv, WorkFits, Bind, At, now, results
<1> QED
  BY <1>2, <1>3, <1>4, <1>5, <1>6, <1>7 DEF IInv

LEMMA BindRaisesInv ==
  ASSUME IInv, BindRaises
  PROVE  IInv'
<1>1. /\ stage' = "idle" /\ job' = {} /\ req' = NoRequest
      /\ todo' = {} /\ bound' = {} /\ shot' = 0 /\ wants' = 0
      /\ outcome' \in [Job -> {"pending", "returned", "undeleted", "failed", "killed"}]
      /\ \A k \in Job : outcome'[k] = IF k \in job THEN "failed" ELSE outcome[k]
  BY OverFacts DEF IInv, BindRaises, End, At
<1>2. TypeOK'
  BY ShotRange, <1>1 DEF IInv, TypeOK, BindRaises, End, UnloadPreview
<1>3. JobFits'
  BY <1>1 DEF JobFits, I2VStages, PreviewStages, TrainStages
<1>4. CardFits'
  BY DEF IInv, CardFits, BindRaises, At, UnloadPreview, PreviewStages
<1>5. PipeFits'
  BY <1>1 DEF PipeFits, BindRaises, UnloadPreview, WithPipe
<1>6. TracesFit'
  BY <1>1
  DEF IInv, TypeOK, TracesFit, BindRaises, End, UnloadPreview, I2VStages, PreviewStages,
      TrainStages, WithPipe
<1>7. WorkFits'
  BY <1>1 DEF IInv, WorkFits, BindRaises
<1> QED
  BY <1>2, <1>3, <1>4, <1>5, <1>6, <1>7 DEF IInv

LEMMA BoundInv ==
  ASSUME IInv, Bound
  PROVE  IInv'
<1>1. TypeOK'
  BY ShotRange DEF IInv, TypeOK, Bound, Go, card, pipe, now, results
<1>2. JobFits'
  BY ShotRange
  DEF IInv, JobFits, Bound, At, Go, now, results, I2VStages, PreviewStages, TrainStages
<1>3. CardFits'
  BY DEF IInv, CardFits, Bound, At, Go, card, I2VStages, PreviewStages, TrainStages
<1>4. PipeFits'
  BY DEF IInv, PipeFits, Bound, At, Go, card, pipe, now, results, I2VStages, PreviewStages,
         TrainStages, WithPipe
<1>5. TracesFit'
  BY DEF IInv, TracesFit, Bound, Go, card, pipe, now, results, I2VStages, PreviewStages,
         TrainStages, WithPipe
<1>6. WorkFits'
  BY DEF IInv, WorkFits, Before, Bound, At, Go, now, results, I2VStages, PreviewStages,
         TrainStages
<1> QED
  BY <1>1, <1>2, <1>3, <1>4, <1>5, <1>6 DEF IInv

LEMMA CopyShotInv ==
  ASSUME IInv, CopyShot
  PROVE  IInv'
<1>1. shot \in 1..Shots /\ NextShot
  BY DEF IInv, JobFits, CopyShot, At
<1>2. \/ stage' = "shot" /\ shot' \in 1..Shots /\ shot' = shot + 1
      \/ stage' = "clean up" /\ shot' = 0 /\ shot = Shots
  BY <1>1, NextShotFacts
<1>3. /\ r2' \in [Key -> SUBSET Job] /\ points' \in [Job -> SUBSET Key]
      /\ \A k \in Job : points'[k] = IF k \in job THEN points[k] \cup {Keyframe(shot)} ELSE points[k]
      /\ \A k \in Key : r2'[k] = IF k = Keyframe(shot) THEN job ELSE r2[k]
  BY PutFacts, KeysAreKeys DEF IInv, JobFits, CopyShot, At
<1>4. TypeOK'
  BY ShotRange, <1>2, <1>3 DEF IInv, TypeOK, CopyShot, card, pipe, now
<1>5. JobFits'
  BY <1>2 DEF IInv, JobFits, CopyShot, At, now, I2VStages, PreviewStages, TrainStages
<1>6. CardFits'
  BY <1>2 DEF IInv, CardFits, CopyShot, At, card, I2VStages, PreviewStages, TrainStages
<1>7. PipeFits'
  BY <1>2
  DEF IInv, PipeFits, CopyShot, At, card, pipe, now, I2VStages, PreviewStages, TrainStages,
      WithPipe
<1>8. TracesFit'
  BY <1>2
  DEF IInv, TracesFit, CopyShot, card, pipe, now, I2VStages, PreviewStages, TrainStages, WithPipe
<1>9. WorkFits'
  BY KeyframeWork DEF IInv, CopyShot, At, now
<1> QED
  BY <1>4, <1>5, <1>6, <1>7, <1>8, <1>9 DEF IInv

LEMMA EnsureIpInv ==
  ASSUME IInv, NEW n \in {0, 1}, EnsureIp(n)
  PROVE  IInv'
<1>1. TypeOK'
  BY DEF IInv, TypeOK, EnsureIp, Go, now, results
<1>2. JobFits'
  BY DEF IInv, JobFits, EnsureIp, At, Go, now, results, I2VStages, PreviewStages, TrainStages
<1>3. CardFits'
  BY DEF IInv, CardFits, EnsureIp, At, Go, I2VStages, PreviewStages, TrainStages
<1>4. PipeFits'
  BY DEF IInv, PipeFits, EnsureIp, At, Go, now, results, TrainStages, WithPipe
<1>5. TracesFit'
  BY DEF IInv, TracesFit, EnsureIp, Go, now, results, WithPipe
<1>6. WorkFits'
  BY DEF IInv, WorkFits, Before, EnsureIp, At, Go, now, results
<1> QED
  BY <1>1, <1>2, <1>3, <1>4, <1>5, <1>6 DEF IInv

LEMMA EnsureIpRaisesInv ==
  ASSUME IInv, NEW n \in {0, 1}, EnsureIpRaises(n)
  PROVE  IInv'
<1>1. /\ stage' = "idle" /\ job' = {} /\ req' = NoRequest
      /\ todo' = {} /\ bound' = {} /\ shot' = 0 /\ wants' = 0
      /\ outcome' \in [Job -> {"pending", "returned", "undeleted", "failed", "killed"}]
      /\ \A k \in Job : outcome'[k] = IF k \in job THEN "failed" ELSE outcome[k]
  BY OverFacts DEF IInv, EnsureIpRaises, End, At
<1>2. TypeOK'
  BY ShotRange, <1>1 DEF IInv, TypeOK, EnsureIpRaises, End, UnloadPreview
<1>3. JobFits'
  BY <1>1 DEF JobFits, I2VStages, PreviewStages, TrainStages
<1>4. CardFits'
  BY DEF IInv, CardFits, EnsureIpRaises, At, UnloadPreview, PreviewStages
<1>5. PipeFits'
  BY <1>1 DEF PipeFits, EnsureIpRaises, UnloadPreview, WithPipe
<1>6. TracesFit'
  BY <1>1
  DEF IInv, TypeOK, TracesFit, EnsureIpRaises, End, UnloadPreview, I2VStages, PreviewStages,
      TrainStages, WithPipe
<1>7. WorkFits'
  BY <1>1 DEF IInv, WorkFits, EnsureIpRaises
<1> QED
  BY <1>2, <1>3, <1>4, <1>5, <1>6, <1>7 DEF IInv

LEMMA DrawInv ==
  ASSUME IInv, Draw
  PROVE  IInv'
<1>1. shot \in 1..Shots /\ NextShot
  BY DEF IInv, JobFits, Draw, At
<1>2. \/ stage' = "shot" /\ shot' \in 1..Shots /\ shot' = shot + 1
      \/ stage' = "clean up" /\ shot' = 0 /\ shot = Shots
  BY <1>1, NextShotFacts
<1>3. /\ r2' \in [Key -> SUBSET Job] /\ points' \in [Job -> SUBSET Key]
      /\ \A k \in Job : points'[k] = IF k \in job THEN points[k] \cup {Keyframe(shot)} ELSE points[k]
      /\ \A k \in Key : r2'[k] = IF k = Keyframe(shot) THEN job ELSE r2[k]
  BY PutFacts, KeysAreKeys DEF IInv, JobFits, Draw, At
<1>4. TypeOK'
  BY ShotRange, <1>2, <1>3 DEF IInv, TypeOK, Draw, card, pipe, now
<1>5. JobFits'
  BY <1>2 DEF IInv, JobFits, Draw, At, now, I2VStages, PreviewStages, TrainStages
<1>6. CardFits'
  BY <1>2 DEF IInv, CardFits, Draw, At, card, I2VStages, PreviewStages, TrainStages
<1>7. PipeFits'
  BY <1>2
  DEF IInv, PipeFits, Draw, At, card, pipe, now, I2VStages, PreviewStages, TrainStages, WithPipe
<1>8. TracesFit'
  BY <1>2
  DEF IInv, TracesFit, Draw, card, pipe, now, I2VStages, PreviewStages, TrainStages, WithPipe
<1>9. WorkFits'
  BY KeyframeWork DEF IInv, Draw, At, now
<1> QED
  BY <1>4, <1>5, <1>6, <1>7, <1>8, <1>9 DEF IInv

LEMMA CleanUpInv ==
  ASSUME IInv, CleanUp
  PROVE  IInv'
<1>1. /\ stage' = "idle" /\ job' = {} /\ req' = NoRequest
      /\ todo' = {} /\ bound' = {} /\ shot' = 0 /\ wants' = 0
      /\ outcome' \in [Job -> {"pending", "returned", "undeleted", "failed", "killed"}]
      /\ \A k \in Job : outcome'[k] = IF k \in job THEN "returned" ELSE outcome[k]
  BY OverFacts DEF IInv, CleanUp, End, At
<1>2. TypeOK'
  BY ShotRange, <1>1 DEF IInv, TypeOK, CleanUp, End
<1>3. JobFits'
  BY <1>1 DEF JobFits, I2VStages, PreviewStages, TrainStages
<1>4. CardFits'
  BY <1>1 DEF IInv, CardFits, CleanUp, At, I2VStages, PreviewStages, TrainStages
<1>5. PipeFits'
  BY <1>1 DEF IInv, TypeOK, PipeFits, CleanUp, WithPipe
<1>6. TracesFit'
  BY <1>1 DEF IInv, TypeOK, TracesFit, CleanUp, End
<1>7. WorkFits'
  BY <1>1 DEF IInv, WorkFits, CleanUp
<1> QED
  BY <1>2, <1>3, <1>4, <1>5, <1>6, <1>7 DEF IInv

LEMMA CleanUpRaisesInv ==
  ASSUME IInv, CleanUpRaises
  PROVE  IInv'
<1>1. /\ stage' = "idle" /\ job' = {} /\ req' = NoRequest
      /\ todo' = {} /\ bound' = {} /\ shot' = 0 /\ wants' = 0
      /\ outcome' \in [Job -> {"pending", "returned", "undeleted", "failed", "killed"}]
      /\ \A k \in Job : outcome'[k] = IF k \in job THEN "undeleted" ELSE outcome[k]
  BY OverFacts DEF IInv, CleanUpRaises, End, At
<1>2. TypeOK'
  BY ShotRange, <1>1 DEF IInv, TypeOK, CleanUpRaises, End, card, pipe
<1>3. JobFits'
  BY <1>1 DEF JobFits, I2VStages, PreviewStages, TrainStages
<1>4. CardFits'
  BY <1>1 DEF IInv, CardFits, CleanUpRaises, At, card, I2VStages, PreviewStages, TrainStages
<1>5. PipeFits'
  BY <1>1
  DEF IInv, TypeOK, PipeFits, CleanUpRaises, card, pipe, I2VStages, PreviewStages, TrainStages,
      WithPipe
<1>6. TracesFit'
  BY <1>1 DEF IInv, TypeOK, TracesFit, CleanUpRaises, End, card, pipe
<1>7. WorkFits'
  BY <1>1 DEF IInv, WorkFits, CleanUpRaises
<1> QED
  BY <1>2, <1>3, <1>4, <1>5, <1>6, <1>7 DEF IInv

LEMMA FetchCastInv ==
  ASSUME IInv, FetchCast
  PROVE  IInv'
<1>1. {Lora(s) : s \in req'.slots \ todo'} = {}
  BY DEF FetchCast
<1>2. TypeOK'
  BY DEF IInv, TypeOK, JobFits, FetchCast, At, Go, pipe, now, results, I2VStages, PreviewStages,
         TrainStages
<1>3. JobFits'
  BY DEF IInv, JobFits, FetchCast, At, Go, now, results, I2VStages, PreviewStages, TrainStages
<1>4. CardFits'
  BY DEF IInv, CardFits, FetchCast, At, Go, pipe, PreviewStages, TrainStages
<1>5. PipeFits'
  BY DEF IInv, PipeFits, FetchCast, Go, pipe, now, results, I2VStages, PreviewStages, TrainStages,
         WithPipe
<1>6. TracesFit'
  BY DEF IInv, TracesFit, FetchCast, At, pipe, now, results, I2VStages, PreviewStages,
         TrainStages, WithPipe
<1>7. WorkFits'
  BY DEF IInv, WorkFits, Before, FetchCast, At, Go, now, results
<1> QED
  BY <1>2, <1>3, <1>4, <1>5, <1>6, <1>7 DEF IInv

LEMMA TrainSlotInv ==
  ASSUME IInv, NEW s \in Slot, TrainSlot(s)
  PROVE  IInv'
<1>1. /\ r2' \in [Key -> SUBSET Job] /\ points' \in [Job -> SUBSET Key]
      /\ \A k \in Job : points'[k] = IF k \in job THEN points[k] \cup {Lora(s)} ELSE points[k]
      /\ \A k \in Key : r2'[k] = IF k = Lora(s) THEN job ELSE r2[k]
  BY PutFacts, KeysAreKeys DEF IInv, TrainSlot, At
<1>2. CASE todo = {s}
  <2>1. /\ stage' = "idle" /\ job' = {} /\ req' = NoRequest
        /\ todo' = {} /\ bound' = {} /\ shot' = 0 /\ wants' = 0
        /\ outcome' \in [Job -> {"pending", "returned", "undeleted", "failed", "killed"}]
        /\ \A k \in Job : outcome'[k] = IF k \in job THEN "returned" ELSE outcome[k]
    BY <1>2, OverFacts DEF IInv, TrainSlot, End, At
  <2>2. TypeOK'
    BY <1>1, <2>1, ShotRange
    DEF IInv, TypeOK, TrainSlot, At, End, pipe, I2VStages, PreviewStages, TrainStages
  <2>3. JobFits'
    BY <2>1 DEF JobFits, I2VStages, PreviewStages, TrainStages
  <2>4. CardFits'
    BY DEF IInv, CardFits, TrainSlot, At, pipe, TrainStages
  <2>5. PipeFits'
    BY <2>1
    DEF IInv, CardFits, PipeFits, TrainSlot, At, pipe, I2VStages, PreviewStages, TrainStages,
        WithPipe
  <2>6. TracesFit'
    BY <2>1
    DEF IInv, TypeOK, TracesFit, TrainSlot, At, End, pipe, PreviewStages, TrainStages, WithPipe
  <2>7. WorkFits'
    BY <1>1, <2>1 DEF IInv, WorkFits
  <2> QED
    BY <2>2, <2>3, <2>4, <2>5, <2>6, <2>7 DEF IInv
<1>3. CASE todo # {s}
  <2>1. TypeOK'
    BY <1>1, <1>3 DEF IInv, TypeOK, TrainSlot, now, pipe
  <2>2. JobFits'
    BY <1>3 DEF IInv, JobFits, TrainSlot, now
  <2>3. CardFits'
    BY DEF IInv, CardFits, TrainSlot, At, pipe, TrainStages
  <2>4. PipeFits'
    BY <1>3
    DEF IInv, PipeFits, TrainSlot, now, pipe, I2VStages, PreviewStages, TrainStages, WithPipe
  <2>5. TracesFit'
    BY <1>3 DEF IInv, TracesFit, TrainSlot, now, pipe
  <2>6. WorkFits'
    BY <1>1, <1>3 DEF IInv, JobFits, WorkFits, Before, TrainSlot, At, now
  <2> QED
    BY <2>1, <2>2, <2>3, <2>4, <2>5, <2>6 DEF IInv
<1> QED
  BY <1>2, <1>3

LEMMA RaisesInv ==
  ASSUME IInv, Raises
  PROVE  IInv'
<1>1. /\ stage' = "idle" /\ job' = {} /\ req' = NoRequest
      /\ todo' = {} /\ bound' = {} /\ shot' = 0 /\ wants' = 0
      /\ outcome' \in [Job -> {"pending", "returned", "undeleted", "failed", "killed"}]
      /\ \A k \in Job : outcome'[k] = IF k \in job THEN "failed" ELSE outcome[k]
  BY OverFacts DEF IInv, Raises, End
<1>2. TypeOK'
  BY ShotRange, <1>1 DEF IInv, TypeOK, Raises, End, pipe
<1>3. JobFits'
  BY <1>1 DEF JobFits, I2VStages, PreviewStages, TrainStages
<1>4. CardFits'
  BY <1>1 DEF IInv, CardFits, Raises, pipe, I2VStages, PreviewStages, TrainStages
<1>5. PipeFits'
  BY <1>1 DEF IInv, TypeOK, PipeFits, Raises, pipe, TrainStages, WithPipe
<1>6. TracesFit'
  BY <1>1 DEF IInv, TypeOK, TracesFit, Raises, End, pipe
<1>7. WorkFits'
  BY ShotRange, <1>1 DEF IInv, WorkFits, Raises
<1> QED
  BY <1>2, <1>3, <1>4, <1>5, <1>6, <1>7 DEF IInv

LEMMA KilledInv ==
  ASSUME IInv, Killed
  PROVE  IInv'
<1>1. /\ stage' = "idle" /\ job' = {} /\ req' = NoRequest
      /\ todo' = {} /\ bound' = {} /\ shot' = 0 /\ wants' = 0
      /\ outcome' \in [Job -> {"pending", "returned", "undeleted", "failed", "killed"}]
      /\ \A k \in Job : outcome'[k] = IF k \in job THEN "killed" ELSE outcome[k]
  BY OverFacts DEF IInv, Killed, At
<1>2. TypeOK'
  BY ShotRange, <1>1 DEF IInv, TypeOK, Killed, UnloadI2V, UnloadPreview
<1>3. JobFits'
  BY <1>1 DEF JobFits, I2VStages, PreviewStages, TrainStages
<1>4. CardFits'
  BY DEF CardFits, Killed, UnloadI2V, UnloadPreview
<1>5. PipeFits'
  BY <1>1 DEF PipeFits, Killed, UnloadPreview, WithPipe
<1>6. TracesFit'
  BY <1>1, TracesHaveJobs DEF IInv, TracesFit, Killed, UnloadPreview
<1>7. WorkFits'
  BY ShotRange, <1>1 DEF IInv, WorkFits, Killed
<1> QED
  BY <1>2, <1>3, <1>4, <1>5, <1>6, <1>7 DEF IInv

LEMMA StutterInv == IInv /\ UNCHANGED vars => IInv'
<1> SUFFICES ASSUME IInv, UNCHANGED vars PROVE IInv'
  OBVIOUS
<1>1. TypeOK'
  BY DEF IInv, TypeOK, vars, card, pipe, now, locals, results
<1>2. JobFits'
  BY DEF IInv, JobFits, vars, now, locals, results
<1>3. CardFits' /\ PipeFits'
  BY DEF IInv, CardFits, PipeFits, vars, card, pipe, now, locals, results
<1>4. TracesFit' /\ WorkFits'
  BY DEF IInv, TracesFit, WorkFits, vars, card, pipe, now, locals, results
<1> QED
  BY <1>1, <1>2, <1>3, <1>4 DEF IInv

LEMMA NextInv == IInv /\ [Next]_vars => IInv'
<1> SUFFICES ASSUME IInv, [Next]_vars PROVE IInv'
  OBVIOUS
<1>1. CASE \E j \in Job, r \in Request : BeginI2V(j, r) \/ BeginPreview(j, r) \/ BeginTrain(j, r)
  BY <1>1, BeginI2VInv, BeginPreviewInv, BeginTrainInv
<1>2. CASE I2V
  BY <1>2, FetchKeyframeInv, GenerateInv, GenerateRaisesInv, ExportAndPutInv DEF I2V
<1>3. CASE Preview
  BY <1>3, FetchBundleInv, ReusePipeInv, BuildPipeInv, BuildRaisesInv, BindInv, BindRaisesInv,
     BoundInv, CopyShotInv, EnsureIpInv, EnsureIpRaisesInv, DrawInv, CleanUpInv, CleanUpRaisesInv
     DEF Preview
<1>4. CASE Train
  BY <1>4, FetchCastInv, TrainSlotInv DEF Train
<1>5. CASE Raises \/ Killed
  BY <1>5, RaisesInv, KilledInv
<1>6. CASE UNCHANGED vars
  BY <1>6, StutterInv
<1> QED
  BY <1>1, <1>2, <1>3, <1>4, <1>5, <1>6 DEF Next

\* The last step of each body makes the work whole.
LEMMA ExportWhole ==
  ASSUME IInv, NEW j \in Job, job = {j}, ExportAndPut
  PROVE  points'[j] = Complete(req) /\ \A k \in points'[j] : r2'[k] = {j}
<1>1. /\ points'[j] = points[j] \cup {Clip}
      /\ r2'[Clip] = job
  BY PutFacts, KeysAreKeys DEF IInv, ExportAndPut, At
<1>2. points[j] = {} /\ req.action = "i2v_clip"
  BY DEF IInv, JobFits, WorkFits, Before, I2VStages, ExportAndPut, At
<1> QED
  BY <1>1, <1>2 DEF Complete

LEMMA CleanUpWhole ==
  ASSUME IInv, NEW j \in Job, job = {j}, CleanUp \/ CleanUpRaises
  PROVE  points'[j] = Complete(req) /\ \A k \in points'[j] : r2'[k] = {j}
<1>1. points' = points /\ r2' = r2 /\ stage = "clean up"
  BY DEF CleanUp, CleanUpRaises, At
<1>2. points[j] = {Keyframe(n) : n \in 1..Shots} /\ req.action = "preview"
  BY <1>1 DEF IInv, JobFits, WorkFits, PreviewStages
<1> QED
  BY <1>1, <1>2 DEF Complete, IInv, WorkFits

LEMMA TrainWhole ==
  ASSUME IInv, NEW j \in Job, job = {j}, outcome[j] = "pending",
         NEW s \in Slot, TrainSlot(s), outcome'[j] \in {"returned", "undeleted"}
  PROVE  points'[j] = Complete(req) /\ \A k \in points'[j] : r2'[k] = {j}
<1>1. /\ points' \in [Job -> SUBSET Key]
      /\ points'[j] = points[j] \cup {Lora(s)}
      /\ \A k \in Key : r2'[k] = IF k = Lora(s) THEN job ELSE r2[k]
  BY PutFacts, KeysAreKeys DEF IInv, TrainSlot, At
<1>2. todo = {s}
  BY DEF TrainSlot
<1>3. /\ points[j] = {Lora(t) : t \in req.slots \ {s}} /\ s \in req.slots
      /\ req.action = "train_lora"
  BY DEF IInv, JobFits, WorkFits, TrainStages, TrainSlot, At
<1>4. points'[j] = {Lora(t) : t \in req.slots}
  BY <1>1, <1>3
<1> QED
  BY <1>1, <1>3, <1>4 DEF Complete, IInv, WorkFits

LEMMA Invariance == Spec => []IInv
BY InitInv, NextInv, PTL DEF Spec

-----------------------------------------------------------------------------
(* What follows, for any jobs, slots and shots. *)

\* The worker's state has its types.
THEOREM TypeCorrect == Spec => []TypeOK
<1>1. IInv => TypeOK
  BY DEF IInv
<1> QED
  BY <1>1, Invariance, PTL

\* At most one of LTX, SDXL and a training run has its weights on the card (the unload
\* calls at the head of the three job bodies).
THEOREM StagesAlternate == Spec => []OneStageOnTheCard
<1>1. IInv => OneStageOnTheCard
  BY DEF IInv, TypeOK, CardFits, TrainStages, OneStageOnTheCard
<1> QED
  BY <1>1, Invariance, PTL

\* No pipe on which a generate raised is cached (_evict_pipe).
THEOREM PipesAreSound == Spec => []NoBrokenPipeCached
<1>1. IInv => NoBrokenPipeCached
  BY DEF IInv, CardFits, NoBrokenPipeCached
<1> QED
  BY <1>1, Invariance, PTL

\* The pipe suits the shot it draws (_get_pipe, _ensure_ip_adapter).
THEOREM PipeIsFit == Spec => []PipeSuitsTheShot
<1>1. IInv => PipeSuitsTheShot
  BY DEF IInv, PipeFits, WithPipe, PipeSuitsTheShot, At
<1> QED
  BY <1>1, Invariance, PTL

\* Adapters and directories outlive only jobs that failed or were killed (the clean-up of
\* render_preview and the `finally` of the job bodies).
THEOREM LeftoversAreExplained == Spec => []LeftoversComeFromFailures
<1>1. IInv => LeftoversComeFromFailures
  <2> SUFFICES ASSUME IInv PROVE LeftoversComeFromFailures
    OBVIOUS
  <2>1. \A a \in loaded : a[2] \in job => {a[2]} = job
    BY DEF IInv, JobFits
  <2> QED
    BY <2>1 DEF IInv, TracesFit, LeftoversComeFromFailures
<1> QED
  BY <1>1, Invariance, PTL

\* A job that returned points to its whole work, and wrote all of it (the results the
\* three job bodies build next to their uploads).
THEOREM WorkIsWhole == Spec => ResultsAreWhole
<1>1. ASSUME IInv, [Next]_vars
      PROVE  \A j \in job : outcome'[j] \in {"returned", "undeleted"} =>
               points'[j] = Complete(req) /\ \A k \in points'[j] : r2'[k] = {j}
  <2> SUFFICES ASSUME NEW j \in job, outcome'[j] \in {"returned", "undeleted"}
               PROVE  points'[j] = Complete(req) /\ \A k \in points'[j] : r2'[k] = {j}
    OBVIOUS
  <2>1. j \in Job /\ job = {j} /\ outcome[j] = "pending" /\ stage # "idle"
    BY <1>1 DEF IInv, JobFits, TypeOK
  <2>2. CASE ExportAndPut
    BY <2>1, <2>2, ExportWhole, <1>1
  <2>3. CASE CleanUp \/ CleanUpRaises
    BY <2>1, <2>3, CleanUpWhole, <1>1
  <2>4. CASE \E s \in Slot : TrainSlot(s)
    BY <2>1, <2>4, TrainWhole, <1>1
  <2>5. CASE GenerateRaises \/ BuildRaises \/ BindRaises \/ (\E n \in {0, 1} : EnsureIpRaises(n))
             \/ Raises \/ Killed
    <3>1. Over("failed") \/ Over("killed")
      BY <2>5 DEF GenerateRaises, BuildRaises, BindRaises, EnsureIpRaises, Raises, Killed, End
    <3>2. outcome'[j] \in {"failed", "killed"}
      BY <1>1, <2>1, <3>1, OverFacts DEF IInv
    <3> QED
      BY <3>2
  <2>6. CASE outcome' = outcome
    BY <2>1, <2>6
  <2>7. ASSUME NEW i \in Job, NEW r \in Request,
               BeginI2V(i, r) \/ BeginPreview(i, r) \/ BeginTrain(i, r)
        PROVE  FALSE
    BY <2>1, <2>7 DEF BeginI2V, BeginPreview, BeginTrain, Begin, At
  <2>8. FetchKeyframe \/ Generate \/ FetchBundle \/ ReusePipe \/ BuildPipe \/ (\E s \in Slot : Bind(s))
        \/ Bound \/ CopyShot \/ (\E n \in {0, 1} : EnsureIp(n)) \/ Draw \/ FetchCast \/ UNCHANGED vars
        => outcome' = outcome
    BY DEF FetchKeyframe, Generate, FetchBundle, ReusePipe, BuildPipe, Bind, Bound, CopyShot,
       EnsureIp, Draw, FetchCast, vars, results
  <2> QED
    BY <1>1, <2>2, <2>3, <2>4, <2>5, <2>6, <2>7, <2>8 DEF Next, I2V, Preview, Train
<1> QED
  BY <1>1, Invariance, PTL DEF Spec, ResultsAreWhole
===============================================================================
