------------------------------ MODULE ClipShape ------------------------------
(***************************************************************************)
(* From the config of an i2v_clip request to the call of the LTX pipeline:  *)
(* I2VConfig.from_request clamps what was asked to the quality tier         *)
(* (config.py), then animate snaps the result to what the model accepts     *)
(* (i2v_ltx.py).  The tier is the honest fit of the card, so the two steps  *)
(* together must never hand the pipeline more than the tier, nor a shape    *)
(* it cannot decode, whatever was asked.                                    *)
(* A value of the request is Absent (missing, null, a boolean, a NaN or a   *)
(* string that is no number), Infinite (JSON's Infinity, or 1e999), or what *)
(* int() makes of it.                                                       *)
(***************************************************************************)
EXTENDS Integers, Sequences

CONSTANTS
  Fit,             \* the tier table: what each tier may be asked for at most
  Absent, Infinite,
  TorchSeeds,      \* the largest seed manual_seed() takes, 2^64 - 1
  Asks,            \* the requests made: a record of values each
  Clips            \* how many clips are rendered

Tier == {"draft", "standard", "final"}

TemporalStride  == 8
SpatialMultiple == 32
MaxFrames       == 257

Shape == [frames : Nat, width : Nat, height : Nat]
Value == Int \cup {Absent, Infinite}
Numeric == {"frames", "width", "height", "seed", "fps"}
Request == [quality : Tier \cup {"other"}, frames : Value, width : Value,
            height : Value, seed : Value, fps : Value]

\* A tier is itself a shape the model can decode.
ASSUME FitAssumption ==
  /\ Fit \in [Tier -> Shape]
  /\ \A t \in Tier :
       /\ Fit[t].frames \in 1..MaxFrames /\ (Fit[t].frames - 1) % TemporalStride = 0
       /\ Fit[t].width > 0 /\ Fit[t].width % SpatialMultiple = 0
       /\ Fit[t].height > 0 /\ Fit[t].height % SpatialMultiple = 0

ASSUME ValueAssumption == Absent \notin Int /\ Infinite \notin Int /\ Absent # Infinite
ASSUME AsksAssumption == Asks \subseteq Request
ASSUME ClipsAssumption == Clips \in Nat /\ TorchSeeds \in Nat

VARIABLES
  stage,    \* "idle", "asked", "configured" or "failed"
  asked,    \* the request in hand: {} or a singleton
  config,   \* the I2VConfig made of it: {} or a singleton
  rendered  \* every call of the pipeline so far, with the request it was for

vars == <<stage, asked, config, rendered>>

-----------------------------------------------------------------------------
(* The arithmetic.                                                         *)

AtMost(n, top) == IF n > top THEN top ELSE n
AtLeast(n, bottom) == IF n < bottom THEN bottom ELSE n

\* Never reached with Infinite: int() raises on it.
CoerceInt(v, default) == IF v \in Int THEN v ELSE default

\* An unknown quality is the standard tier.
ParseTier(q) == IF q \in Tier THEN q ELSE "standard"

NumFrames(v, ceiling) == AtMost(AtLeast(CoerceInt(v, ceiling), 1), ceiling)

NarrowedUnclamped(v, top) == LET n == CoerceInt(v, top) IN IF n = 0 THEN top ELSE n
\* A zero counts as missing; a negative number goes through.
Narrowed(v, top) ==
  LET n == CoerceInt(v, top) IN AtMost(IF n = 0 THEN top ELSE n, top)

SnapFramesDown(n) == AtLeast(n, 1) - ((AtLeast(n, 1) - 1) % TemporalStride)

\* The next 8k+1, or the largest one below the ceiling.
SnapFrames(n) ==
  LET m       == AtLeast(n, 1)
      rem     == (m - 1) % TemporalStride
      snapped == IF rem = 0 THEN m ELSE m + (TemporalStride - rem)
  IN IF snapped <= MaxFrames THEN snapped
     ELSE AtLeast(MaxFrames - ((MaxFrames - 1) % TemporalStride), 1)

SnapDimNoFloor(px) == (px \div SpatialMultiple) * SpatialMultiple
SnapDim(px) == AtLeast((px \div SpatialMultiple) * SpatialMultiple, SpatialMultiple)

-----------------------------------------------------------------------------
Init == stage = "idle" /\ asked = {} /\ config = {} /\ rendered = <<>>

\* build_i2v_run_fn has a request and its keyframe, whatever became of the last one.
Ask(r) ==
  /\ stage \in {"idle", "failed"} /\ Len(rendered) < Clips
  /\ stage' = "asked" /\ asked' = {r}
  /\ UNCHANGED <<config, rendered>>

Crashes(r) == \E f \in Numeric : r[f] = Infinite

FromRequest ==
  /\ stage = "asked"
  /\ \E r \in asked :
       LET t == Fit[ParseTier(r.quality)] IN
       /\ ~Crashes(r)
       /\ config' = {[frames |-> NumFrames(r.frames, t.frames),
                      width  |-> Narrowed(r.width, t.width),
                      height |-> Narrowed(r.height, t.height),
                      seed   |-> CoerceInt(r.seed, -1),
                      fps    |-> AtMost(AtLeast(CoerceInt(r.fps, 24), 8), 30)]}
  /\ stage' = "configured"
  /\ UNCHANGED <<asked, rendered>>

\* int() of an infinite float raises OverflowError, which _coerce_int does not catch:
\* the job fails.
FromRequestRaises ==
  /\ stage = "asked" /\ \E r \in asked : Crashes(r)
  /\ stage' = "failed" /\ asked' = {}
  /\ UNCHANGED <<config, rendered>>

\* Every negative seed, the default -1 included, becomes 0.
ClipSeed(c) == AtLeast(c.seed, 0)

\* manual_seed() raises at a seed past torch's: the job fails.
AnimateRaises ==
  /\ stage = "configured" /\ \E c \in config : ClipSeed(c) > TorchSeeds
  /\ stage' = "failed" /\ asked' = {} /\ config' = {}
  /\ UNCHANGED rendered

\* resolve_engine_dims and the pipeline call.
Animate ==
  /\ stage = "configured"
  /\ \E r \in asked, c \in config :
       /\ ClipSeed(c) <= TorchSeeds
       /\ rendered' = Append(rendered,
            [asked |-> r,
             fed   |-> [frames |-> SnapFrames(c.frames),
                        width  |-> SnapDim(c.width),
                        height |-> SnapDim(c.height),
                        seed   |-> ClipSeed(c),
                        fps    |-> c.fps]])
  /\ stage' = "idle" /\ asked' = {} /\ config' = {}

Next == (\E r \in Asks : Ask(r)) \/ FromRequest \/ FromRequestRaises \/ Animate \/ AnimateRaises

Spec == Init /\ [][Next]_vars

-----------------------------------------------------------------------------
Config == [frames : Nat \ {0}, width : Int, height : Int, seed : Int, fps : 8..30]
Call == [frames : Nat, width : Nat, height : Nat, seed : Nat, fps : 8..30]

\* from_request makes a config with at least one frame and a playable rate, and the
\* pipeline is called with whole, non-negative numbers.
TypeOK ==
  /\ asked \subseteq Request
  /\ config \subseteq Config
  /\ rendered \in Seq([asked : Request, fed : Call])

TierOf(clip) == Fit[ParseTier(clip.asked.quality)]

\* A request may narrow a tier, never widen it: no call exceeds the tier on any axis,
\* though animate snaps frames UP and against the model's ceiling, not the tier's.
NeverPastTheTier ==
  \A i \in 1..Len(rendered) :
    LET fed == rendered[i].fed  t == TierOf(rendered[i]) IN
    fed.frames <= t.frames /\ fed.width <= t.width /\ fed.height <= t.height

\* Every call is one LTX's VAE can decode: 8k+1 frames, both sides a positive
\* multiple of 32, whatever the request said.
DecodableShape ==
  \A i \in 1..Len(rendered) :
    LET fed == rendered[i].fed IN
    /\ fed.frames \in 1..MaxFrames /\ (fed.frames - 1) % TemporalStride = 0
    /\ \A side \in {fed.width, fed.height} : side > 0 /\ side % SpatialMultiple = 0

\* Clamping and snapping together cost as little as they can: a length within the tier
\* is met and exceeded by less than a stride, a side within the tier is undercut by
\* less than 32; a seed that is one, and a rate a player can show, come through both
\* steps unchanged.
AskedIsHonoured ==
  \A i \in 1..Len(rendered) :
    LET r == rendered[i].asked  fed == rendered[i].fed  t == TierOf(rendered[i]) IN
    /\ r.frames \in 1..t.frames =>
         r.frames <= fed.frames /\ fed.frames < r.frames + TemporalStride
    /\ \A side \in {"width", "height"} :
         r[side] \in SpatialMultiple..t[side] =>
           fed[side] <= r[side] /\ r[side] < fed[side] + SpatialMultiple
    /\ r.seed \in Nat => fed.seed = r.seed
    /\ r.fps \in 8..30 => fed.fps = r.fps
=============================================================================
