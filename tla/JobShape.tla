------------------------------ MODULE JobShape ------------------------------
(***************************************************************************)
(* The numbers of the other two actions, beside those of a clip: from the   *)
(* render_overrides of a preview to the calls of the SDXL pipeline, and     *)
(* from those of a train_lora to the steps of its training loop.  What may  *)
(* be asked is declared in core/contract.py, checked at the door and again  *)
(* in the worker, and clamped in preview_sdxl.py and lora_train.py; the     *)
(* three do not agree on everything.                                        *)
(* A behaviour follows one request, of one action.  Fetches, weights and    *)
(* uploads, which fail for reasons of their own, are in Card.               *)
(***************************************************************************)
EXTENDS ClipShape, FiniteSets

CONSTANTS
  Huge,           \* an integer no float can hold
  Malformed,      \* what is not a finite number: null, a string, a boolean, NaN, infinity
  DeclaredSeeds,  \* contract.py's upper limit of a seed, 2^32 - 1
  Shots,          \* how many shots the bundle of a preview has
  Previews,       \* the preview requests made
  Trainings       \* the training requests made

\* A number of a preview may have a fraction; it is counted here in tenths, and what
\* follows the first decimal is left out.
Knob == {"width", "height", "steps", "guidance_scale", "seed"}
KnobValue == Int \cup {Absent, Malformed, Huge}

\* What resolve_keyframe_model reads, at either of the two places it looks.
Look == [style : {"none", "anime"}, base_model : {"none", "photoreal", "anime", "unlisted"}]

PreviewAsk ==
  [quality : Tier \cup {"other"},
   keyframe : SUBSET [Knob -> KnobValue],   \* {} or a singleton
   extra : BOOLEAN,    \* is keyframe no object, or has it a key that is no knob?
   look : Look]        \* beside keyframe, not in it

TrainAsk ==
  [max_steps : Value, accumulation : Value, save_every : Value,
   refs : Nat \ {0},   \* reference images of the slot
   keyframe : SUBSET Look, look : Look]

ASSUME SeedsAssumption ==
  /\ DeclaredSeeds \in Nat /\ DeclaredSeeds + Shots <= TorchSeeds
  /\ Shots \in Nat \ {0}
ASSUME KnobAssumption ==
  /\ Huge \notin Int \cup {Absent, Malformed} /\ Malformed \notin Int \cup {Absent}
ASSUME JobsAssumption ==
  /\ Previews \subseteq PreviewAsk /\ Trainings \subseteq TrainAsk
  /\ \A r \in Previews : \A kf, kg \in r.keyframe : kf = kg

VARIABLES
  preview,   \* the preview asked: {} or a singleton
  training,  \* the training asked: {} or a singleton
  verdict,   \* "none", "refused" (400), "unanswered", "failed" or "done"
  pictures,  \* the pipeline calls of the preview, in order
  step,      \* the micro-steps the training has done
  taken,     \* its optimizer steps
  saved      \* the steps it left a checkpoint at

more      == <<preview, training, verdict, pictures, step, taken, saved>>
shapeVars == <<vars, more>>

ShapeInit ==
  /\ Init
  /\ preview = {} /\ training = {} /\ verdict = "none"
  /\ pictures = <<>> /\ step = 0 /\ taken = 0 /\ saved = {}

ClampFromBelow(v, limits) == AtLeast(v, limits[1])
Clamp(v, limits) == AtMost(AtLeast(v, limits[1]), limits[2])
Settle(v) == stage' = "answered" /\ verdict' = v

\* style=anime wins; else an allowlisted base_model; else the default.  The keyframe
\* object, where there is one, hides what stands beside it.
ReadLook(inner, outer) ==
  LET look == IF inner # {} THEN inner ELSE {outer} IN
  CHOOSE m \in {"anime", "photoreal", "unlisted"} :
    \E l \in look : m = IF l.style = "anime" THEN "anime"
                        ELSE IF l.base_model = "none" THEN "photoreal" ELSE l.base_model

-----------------------------------------------------------------------------
(* preview. *)

\* As the engine is given them: guidance_scale in tenths, the others whole.
PreviewFit ==
  [draft    |-> [steps |-> 4,  guidance_scale |-> 10, width |-> 1024, height |-> 576],
   standard |-> [steps |-> 8,  guidance_scale |-> 10, width |-> 1344, height |-> 768],
   final    |-> [steps |-> 30, guidance_scale |-> 65, width |-> 1344, height |-> 768]]

\* Unlike a clip's, an unknown tier is the final one.
PreviewTier(q) == IF q \in Tier THEN q ELSE "final"

PreviewLimits ==
  [width |-> <<256, 1344>>, height |-> <<256, 1344>>, steps |-> <<1, 50>>,
   guidance_scale |-> <<0, 150>>]

AskPreview(r) ==
  /\ stage = "idle" /\ rendered = <<>>
  /\ stage' = "posted" /\ preview' = {r}
  /\ UNCHANGED <<asked, config, rendered, training, verdict, pictures, step, taken, saved>>

KnobsButSeed == Knob \ {"seed"}
\* The keys _validate_render_overrides lets through.
AllowedKnobs == Knob

\* It reads the keys in the order the caller wrote them and stops at the first it
\* refuses, or raises at: float() of a huge integer does.
Refuses(r) ==
  \/ r.extra /\ r.keyframe # {}
  \/ \E kf \in r.keyframe, k \in Knob :
       kf[k] = Malformed \/ (k \notin AllowedKnobs /\ kf[k] # Absent)
Overflows(r) == \E kf \in r.keyframe : \E k \in AllowedKnobs : kf[k] = Huge

Validate ==
  /\ stage = "posted"
  /\ \E r \in preview :
       \/ Refuses(r) /\ Settle("refused")
       \/ Overflows(r) /\ Settle("unanswered")
       \/ ~Refuses(r) /\ ~Overflows(r) /\ stage' = "drawing" /\ UNCHANGED verdict
  /\ UNCHANGED <<asked, config, rendered, preview, training, pictures, step, taken, saved>>

\* How many tenths an engine's unit of a knob has: pixels and steps are whole.
Unit(k) == IF k = "guidance_scale" THEN 1 ELSE 10
LimitsInTenths(k) == <<Unit(k) * PreviewLimits[k][1], Unit(k) * PreviewLimits[k][2]>>

\* tier_params: clamped as a float, then cut to a whole number by int() where one is due.
TierParam(r, k) ==
  LET base == PreviewFit[PreviewTier(r.quality)][k] IN
  IF \E kf \in r.keyframe : kf[k] # Absent
  THEN Clamp((CHOOSE kf \in r.keyframe : TRUE)[k], LimitsInTenths(k)) \div Unit(k)
  ELSE base

\* int() of it; nothing limits it from above.
Seed(r) == IF \E kf \in r.keyframe : kf["seed"] # Absent /\ kf["seed"] >= 0
           THEN (CHOOSE kf \in r.keyframe : TRUE)["seed"] \div 10 ELSE 0

\* A validated keyframe object has no style and no base_model.
PreviewLook(r) ==
  ReadLook({[style |-> "none", base_model |-> "none"] : kf \in r.keyframe}, r.look)

\* What diffusers and torch raise at.
Undrawable(r, i) ==
  \/ \E k \in {"width", "height"} : TierParam(r, k) % 8 # 0
  \/ Seed(r) + i > TorchSeeds

\* resolve_keyframe_model, manual_seed or the pipeline raised.
DrawRaises ==
  /\ stage = "drawing"
  /\ \E r \in preview : PreviewLook(r) = "unlisted" \/ Undrawable(r, Len(pictures))
  /\ Settle("failed")
  /\ UNCHANGED <<asked, config, rendered, preview, training, pictures, step, taken, saved>>

DrawShot ==
  /\ stage = "drawing"
  /\ \E r \in preview :
       /\ PreviewLook(r) # "unlisted" /\ ~Undrawable(r, Len(pictures))
       /\ pictures' = Append(pictures,
            [model |-> PreviewLook(r), seed |-> Seed(r) + Len(pictures),
             width |-> TierParam(r, "width"), height |-> TierParam(r, "height"),
             steps |-> TierParam(r, "steps"),
             guidance_scale |-> TierParam(r, "guidance_scale")])
  /\ IF Len(pictures') = Shots THEN Settle("done") ELSE UNCHANGED <<stage, verdict>>
  /\ UNCHANGED <<asked, config, rendered, preview, training, step, taken, saved>>

-----------------------------------------------------------------------------
(* train_lora, of one slot. *)

LooserTrainLimits == [max_steps |-> <<1, 5000>>, accumulation |-> <<1, 64>>,
                      save_every |-> <<0, 5000>>]
TrainLimits       == [max_steps |-> <<1, 5000>>, accumulation |-> <<1, 32>>,
                      save_every |-> <<0, 5000>>]
TrainDefault      == [max_steps |-> 1000, accumulation |-> 1, save_every |-> 0]
TrainKnob         == DOMAIN TrainDefault

AskTraining(r) ==
  /\ stage = "idle" /\ rendered = <<>>
  /\ stage' = "training" /\ training' = {r}
  /\ UNCHANGED <<asked, config, rendered, preview, verdict, pictures, step, taken, saved>>

\* config_from_overrides, of a value int() does not raise at.
TrainParam(r, k) ==
  IF r[k] = Absent THEN TrainDefault[k] ELSE Clamp(r[k], TrainLimits[k])

EffectiveSteps(r) == AtLeast((TrainParam(r, "max_steps") * r.refs) \div 5, 50)

\* The door has not looked at a lora section; int() of an infinity or a NaN raises.
Untrainable(r) ==
  (\E k \in TrainKnob : r[k] = Infinite) \/ ReadLook(r.keyframe, r.look) = "unlisted"

TrainRaises ==
  /\ stage = "training" /\ \E r \in training : Untrainable(r)
  /\ Settle("failed")
  /\ UNCHANGED <<asked, config, rendered, preview, training, pictures, step, taken, saved>>

\* One turn of the loop of train_slot; after the last, the adapter itself is saved.
TrainStep ==
  /\ stage = "training"
  /\ step' = step + 1
  /\ \E r \in training :
       /\ ~Untrainable(r)
       /\ taken' = IF step' % TrainParam(r, "accumulation") = 0 THEN taken + 1 ELSE taken
       /\ LET every == TrainParam(r, "save_every") IN
          saved' = IF every # 0 /\ step' % every = 0 /\ step' < EffectiveSteps(r)
                   THEN saved \cup {step'} ELSE saved
       /\ IF step' = EffectiveSteps(r) THEN Settle("done") ELSE UNCHANGED <<stage, verdict>>
  /\ UNCHANGED <<asked, config, rendered, preview, training, pictures>>

-----------------------------------------------------------------------------
ShapeNext ==
  \/ Next /\ UNCHANGED more
  \/ (\E r \in Previews : AskPreview(r)) \/ Validate \/ DrawRaises \/ DrawShot
  \/ (\E r \in Trainings : AskTraining(r)) \/ TrainRaises \/ TrainStep

ShapeSpec == ShapeInit /\ [][ShapeNext]_shapeVars

-----------------------------------------------------------------------------
(* Properties. *)

Within(limits) == limits[1]..limits[2]

\* "validate preview knobs before tier_params clamps them to the local-card ceiling": a
\* picture is drawn with the greatest number the card takes that is not above the one
\* asked for (the card's least where all are above it), so that neither the clamp nor the
\* cut to a whole number ever costs more pixels or steps than were asked; with its tier's
\* where none was; and with a seed of its own: two shots of a preview never share one.
KnobsNeverOvershoot ==
  \A i \in 1..Len(pictures), r \in preview :
    /\ \A k \in Knob \ {"seed"} :
         /\ pictures[i][k] \in Within(PreviewLimits[k])
         /\ \A kf \in r.keyframe : kf[k] # Absent =>
              /\ Unit(k) * pictures[i][k] <= kf[k] \/ pictures[i][k] = PreviewLimits[k][1]
              /\ \A other \in Within(PreviewLimits[k]) :
                   Unit(k) * other <= kf[k] => other <= pictures[i][k]
         /\ (\A kf \in r.keyframe : kf[k] = Absent) =>
              pictures[i][k] = PreviewFit[PreviewTier(r.quality)][k]
    /\ \A j \in 1..(i - 1) : pictures[i].seed # pictures[j].seed

\* Within the limits contract.py declares: _KEYFRAME_OVERRIDE_LIMITS, no more.
Declared(kf) ==
  /\ \A k \in Knob \ {"seed"} : kf[k] \in {Absent} \cup Within(LimitsInTenths(k))
  /\ kf["seed"] \in {Absent} \cup 0..(10 * DeclaredSeeds)

AsDeclared(r) ==
  /\ \A kf \in r.keyframe : Declared(kf)
  /\ ~r.extra /\ r.look.base_model # "unlisted"

\* Is a side asked for whose pixels are no multiple of 8?
HasOddSide(r) ==
  \E kf \in r.keyframe, k \in {"width", "height"} : kf[k] # Absent /\ (kf[k] \div 10) % 8 # 0

\* What becomes of a request within the declared limits, of a listed model.  It is never
\* refused nor left unanswered, and one thing alone makes it fail: a side SDXL cannot
\* draw, which the contract declares and the clamp keeps.  It then fails before its first
\* shot, so that no picture is drawn of a preview that does not end.  Any other, with
\* either tier's numbers or its own, has every one of its shots drawn.
OnlySidesFailDeclared ==
  \A r \in preview :
    AsDeclared(r) =>
      IF HasOddSide(r) THEN verdict \in {"none", "failed"} /\ pictures = <<>>
      ELSE verdict \in {"none", "done"} /\ (verdict = "done" => Len(pictures) = Shots)

\* A training that ends has learned: whatever accumulation, length and reference images
\* were asked for, the optimizer stepped, fewer than one accumulation of gradients is
\* lost at the end, the length grows with the images from a floor of 50, no checkpoint is
\* the adapter itself, and there are as many as an interval within its limits asks for.
TrainingLearns ==
  \A r \in training :
    verdict = "done" =>
      LET every == TrainParam(r, "accumulation") IN
      /\ taken > 0 /\ step - taken * every \in 0..(every - 1)
      /\ step >= 50 /\ 5 * step + 4 >= r.refs * TrainParam(r, "max_steps")
      /\ \A c \in saved : c < step
      /\ r.save_every \in 1..TrainLimits["save_every"][2] =>
           Cardinality(saved) = (step - 1) \div r.save_every
=============================================================================
