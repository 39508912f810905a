---------------------------- MODULE JobShapeProofs ----------------------------
(***************************************************************************)
(* For every request, every tier table whose tiers are themselves           *)
(* decodable, and any number of shots and reference images:                 *)
(*   - what reaches the clip pipeline is decodable, within the tier and as  *)
(*     close to what was asked as the model allows;                         *)
(*   - a preview draws the greatest numbers the card takes that are not     *)
(*     above those asked for, and every shot of what the contract declares, *)
(*     unless a side asked for is no multiple of 8;                         *)
(*   - a training that ends has learned.                                    *)
(* The clip's invariant is proved first, step by step of ClipShape, so that *)
(* it holds both of a server that only makes clips and beside the others.   *)
(***************************************************************************)
EXTENDS JobShape, FiniteSetTheorems, TLAPS

-----------------------------------------------------------------------------
(* The arithmetic, for every integer.                                      *)

\* What snap_frames returns has 8k+1 frames, at least one and at most the model's 257.
LEMMA SnapFramesDecodable ==
  ASSUME NEW n \in Int
  PROVE  SnapFrames(n) \in 1..MaxFrames /\ (SnapFrames(n) - 1) % TemporalStride = 0
BY DEF SnapFrames, AtLeast, MaxFrames, TemporalStride

\* It rounds up by less than a stride: 257 is itself 8k+1, so the step down at the
\* ceiling never undercuts a length within it.
LEMMA SnapFramesRoundsUp ==
  ASSUME NEW n \in 1..MaxFrames
  PROVE  n <= SnapFrames(n) /\ SnapFrames(n) < n + TemporalStride
BY DEF SnapFrames, AtLeast, MaxFrames, TemporalStride

\* Rounding up stays below every 8k+1 the length stays below.
LEMMA SnapFramesMonotone ==
  ASSUME NEW top \in 1..MaxFrames, (top - 1) % TemporalStride = 0, NEW n \in 1..top
  PROVE  SnapFrames(n) <= top
BY DEF SnapFrames, AtLeast, MaxFrames, TemporalStride

\* snap_dim returns a positive multiple of 32.
LEMMA SnapDimDecodable ==
  ASSUME NEW px \in Int
  PROVE  SnapDim(px) \in Nat /\ SnapDim(px) > 0 /\ SnapDim(px) % SpatialMultiple = 0
BY DEF SnapDim, AtLeast, SpatialMultiple

\* It rounds down by less than 32, once there are 32.
LEMMA SnapDimRoundsDown ==
  ASSUME NEW px \in Int, px >= SpatialMultiple
  PROVE  SnapDim(px) <= px /\ px < SnapDim(px) + SpatialMultiple
BY DEF SnapDim, AtLeast, SpatialMultiple

\* The floor of 32 does not lift a side past a multiple of 32 it was below.
LEMMA SnapDimMonotone ==
  ASSUME NEW top \in Nat, top > 0, top % SpatialMultiple = 0, NEW px \in Int, px <= top
  PROVE  SnapDim(px) <= top
BY DEF SnapDim, AtLeast, SpatialMultiple
-----------------------------------------------------------------------------
(* The invariant: a config is within its tier and says what the request did *)
(* wherever the request was within the tier; a call keeps both.             *)

WithinTier(c, t) == c.frames \in 1..t.frames /\ c.width <= t.width /\ c.height <= t.height

Meets(c, r, t) ==
  /\ r.frames \in 1..t.frames => c.frames = r.frames
  /\ r.width \in SpatialMultiple..t.width => c.width = r.width
  /\ r.height \in SpatialMultiple..t.height => c.height = r.height
  /\ r.seed \in Nat => c.seed = r.seed
  /\ r.fps \in 8..30 => c.fps = r.fps

ConfigInv ==
  /\ \A r, s \in asked : r = s
  /\ stage # "configured" => config = {}
  /\ \A r \in asked, c \in config :
       LET t == Fit[ParseTier(r.quality)] IN WithinTier(c, t) /\ Meets(c, r, t)

Decodable(fed) ==
  /\ fed.frames \in 1..MaxFrames /\ (fed.frames - 1) % TemporalStride = 0
  /\ fed.width > 0 /\ fed.width % SpatialMultiple = 0
  /\ fed.height > 0 /\ fed.height % SpatialMultiple = 0

PastNothing(fed, t) == fed.frames <= t.frames /\ fed.width <= t.width /\ fed.height <= t.height

Honours(fed, r, t) ==
  /\ r.frames \in 1..t.frames => r.frames <= fed.frames /\ fed.frames < r.frames + TemporalStride
  /\ r.width \in SpatialMultiple..t.width => fed.width <= r.width /\ r.width < fed.width + SpatialMultiple
  /\ r.height \in SpatialMultiple..t.height => fed.height <= r.height /\ r.height < fed.height + SpatialMultiple
  /\ r.seed \in Nat => fed.seed = r.seed
  /\ r.fps \in 8..30 => fed.fps = r.fps

GoodCall(clip) ==
  /\ Decodable(clip.fed)
  /\ PastNothing(clip.fed, TierOf(clip))
  /\ Honours(clip.fed, clip.asked, TierOf(clip))

ClipInv == TypeOK /\ ConfigInv /\ \A i \in 1..Len(rendered) : GoodCall(rendered[i])

\* What every tier of the table is.
LEMMA TierIsDecodable ==
  ASSUME NEW q \in Tier \cup {"other"}
  PROVE  LET t == Fit[ParseTier(q)] IN
         /\ t.frames \in Nat /\ t.width \in Nat /\ t.height \in Nat
         /\ t.frames \in 1..MaxFrames /\ (t.frames - 1) % TemporalStride = 0
         /\ t.width > 0 /\ t.width % SpatialMultiple = 0
         /\ t.height > 0 /\ t.height % SpatialMultiple = 0
<1> DEFINE t == Fit[ParseTier(q)]
<1>1. ParseTier(q) \in Tier
  BY DEF ParseTier, Tier
<1>2. t \in Shape
  BY <1>1, FitAssumption
<1>3. t.frames \in Nat /\ t.width \in Nat /\ t.height \in Nat
  BY <1>2 DEF Shape
<1> QED
  BY <1>1, <1>3, FitAssumption

\* from_request clamps a side to the tier, and leaves alone one already within it.
LEMMA NarrowedWithin ==
  ASSUME NEW v \in Value, v # Infinite, NEW top \in Nat
  PROVE  /\ Narrowed(v, top) \in Int /\ Narrowed(v, top) <= top
         /\ v \in SpatialMultiple..top => Narrowed(v, top) = v
BY ValueAssumption DEF Narrowed, CoerceInt, AtMost, Value, SpatialMultiple

\* The same of the frame count, which is at least one.
LEMMA NumFramesWithin ==
  ASSUME NEW v \in Value, v # Infinite, NEW top \in Nat, top > 0
  PROVE  /\ NumFrames(v, top) \in 1..top
         /\ v \in 1..top => NumFrames(v, top) = v
BY ValueAssumption DEF NumFrames, CoerceInt, AtMost, AtLeast, Value
-----------------------------------------------------------------------------
LEMMA ClipInit == Init => ClipInv
BY ClipsAssumption DEF Init, ClipInv, TypeOK, ConfigInv

LEMMA AskInv ==
  ASSUME ClipInv, NEW r \in Asks, Ask(r)
  PROVE  ClipInv'
<1>1. r \in Request
  BY AsksAssumption
<1>2. config = {}
  BY DEF Ask, ClipInv, ConfigInv
<1>3. TypeOK'
  BY <1>1 DEF Ask, ClipInv, TypeOK
<1>4. ConfigInv'
  BY <1>2 DEF Ask, ConfigInv
<1>5. (\A i \in 1..Len(rendered) : GoodCall(rendered[i]))'
  BY DEF Ask, ClipInv, GoodCall, TierOf
<1> QED
  BY <1>3, <1>4, <1>5 DEF ClipInv

LEMMA FromRequestInv ==
  ASSUME ClipInv, FromRequest
  PROVE  ClipInv'
<1> DEFINE t(r) == Fit[ParseTier(r.quality)]
           c(r) == [frames |-> NumFrames(r.frames, t(r).frames),
                    width  |-> Narrowed(r.width, t(r).width),
                    height |-> Narrowed(r.height, t(r).height),
                    seed   |-> CoerceInt(r.seed, -1),
                    fps    |-> AtMost(AtLeast(CoerceInt(r.fps, 24), 8), 30)]
<1>1. PICK r \in asked : ~Crashes(r) /\ config' = {c(r)}
  BY DEF FromRequest
<1>2. r \in Request
  BY DEF ClipInv, TypeOK
<1>3. /\ r.quality \in Tier \cup {"other"}
      /\ r.frames \in Value /\ r.width \in Value /\ r.height \in Value
      /\ r.seed \in Value /\ r.fps \in Value
  BY <1>2 DEF Request
<1>4. /\ r.frames # Infinite /\ r.width # Infinite /\ r.height # Infinite
      /\ r.seed # Infinite /\ r.fps # Infinite
  BY <1>1 DEF Crashes, Numeric
<1>5. /\ t(r).frames \in Nat /\ t(r).width \in Nat /\ t(r).height \in Nat
      /\ t(r).frames > 0
  BY <1>3, TierIsDecodable
<1>6. /\ c(r).frames \in 1..t(r).frames
      /\ r.frames \in 1..t(r).frames => c(r).frames = r.frames
  BY <1>3, <1>4, <1>5, NumFramesWithin
<1>7. /\ c(r).width \in Int /\ c(r).width <= t(r).width
      /\ r.width \in SpatialMultiple..t(r).width => c(r).width = r.width
  BY <1>3, <1>4, <1>5, NarrowedWithin
<1>8. /\ c(r).height \in Int /\ c(r).height <= t(r).height
      /\ r.height \in SpatialMultiple..t(r).height => c(r).height = r.height
  BY <1>3, <1>4, <1>5, NarrowedWithin
<1>9. /\ c(r).seed \in Int /\ c(r).fps \in 8..30
      /\ r.seed \in Nat => c(r).seed = r.seed
      /\ r.fps \in 8..30 => c(r).fps = r.fps
  BY <1>3, <1>4 DEF CoerceInt, AtMost, AtLeast, Value
<1>11. c(r).frames \in Nat \ {0}
  BY <1>5, <1>6
<1>12. c(r) \in Config
  <2> HIDE DEF t
  <2> QED BY <1>7, <1>8, <1>9, <1>11 DEF Config
<1>13. WithinTier(c(r), t(r)) /\ Meets(c(r), r, t(r))
  BY <1>6, <1>7, <1>8, <1>9 DEF WithinTier, Meets
<1> HIDE DEF c, t
<1>14. TypeOK'
  BY <1>1, <1>12 DEF ClipInv, TypeOK, FromRequest
<1>15. ConfigInv'
  <2>1. stage' = "configured" /\ asked' = asked
    BY DEF FromRequest
  <2>2. \A q, s \in asked : q = s
    BY DEF ClipInv, ConfigInv
  <2>3. \A q \in asked', d \in config' : WithinTier(d, t(q)) /\ Meets(d, q, t(q))
    BY <1>1, <1>13, <2>1, <2>2
  <2> QED
    BY <2>1, <2>2, <2>3 DEF ConfigInv, t
<1>16. (\A i \in 1..Len(rendered) : GoodCall(rendered[i]))'
  BY DEF ClipInv, GoodCall, TierOf, FromRequest
<1> QED
  BY <1>14, <1>15, <1>16 DEF ClipInv

LEMMA FromRequestRaisesInv ==
  ASSUME ClipInv, FromRequestRaises
  PROVE  ClipInv'
BY DEF ClipInv, TypeOK, ConfigInv, GoodCall, TierOf, FromRequestRaises

\* Snapping keeps a config within its tier, and makes it decodable.
LEMMA SnappedIsGood ==
  ASSUME NEW q \in Tier \cup {"other"}, NEW c \in Config, NEW r \in Request, r.quality = q,
         WithinTier(c, Fit[ParseTier(q)]), Meets(c, r, Fit[ParseTier(q)]),
         NEW fed, fed.frames = SnapFrames(c.frames),
         fed.width = SnapDim(c.width), fed.height = SnapDim(c.height),
         fed.seed = AtLeast(c.seed, 0), fed.fps = c.fps
  PROVE  /\ Decodable(fed)
         /\ PastNothing(fed, Fit[ParseTier(q)])
         /\ Honours(fed, r, Fit[ParseTier(q)])
<1> DEFINE t == Fit[ParseTier(q)]
<1>1. /\ t.frames \in 1..MaxFrames /\ (t.frames - 1) % TemporalStride = 0
      /\ t.width \in Nat /\ t.width > 0 /\ t.width % SpatialMultiple = 0
      /\ t.height \in Nat /\ t.height > 0 /\ t.height % SpatialMultiple = 0
  BY TierIsDecodable
<1>2. /\ c.frames \in 1..t.frames /\ c.width \in Int /\ c.height \in Int
      /\ c.width <= t.width /\ c.height <= t.height
  BY DEF WithinTier, Config
<1>3. Meets(c, r, t)
  OBVIOUS
<1> HIDE DEF t
<1>4. c.frames \in 1..MaxFrames
  BY <1>1, <1>2 DEF MaxFrames
<1>5. Decodable(fed)
  BY <1>2, <1>4, SnapFramesDecodable, SnapDimDecodable DEF Decodable, MaxFrames
<1>6. PastNothing(fed, t)
  BY <1>1, <1>2, SnapFramesMonotone, SnapDimMonotone DEF PastNothing
<1>7. r.frames \in 1..t.frames => r.frames <= fed.frames /\ fed.frames < r.frames + TemporalStride
  BY <1>3, <1>4, SnapFramesRoundsUp DEF Meets
<1>8. r.width \in SpatialMultiple..t.width
        => fed.width <= r.width /\ r.width < fed.width + SpatialMultiple
  BY <1>2, <1>3, SnapDimRoundsDown DEF Meets, SpatialMultiple
<1>9. r.height \in SpatialMultiple..t.height
        => fed.height <= r.height /\ r.height < fed.height + SpatialMultiple
  BY <1>2, <1>3, SnapDimRoundsDown DEF Meets, SpatialMultiple
<1>10. (r.seed \in Nat => fed.seed = r.seed) /\ (r.fps \in 8..30 => fed.fps = r.fps)
  BY <1>3 DEF Meets, AtLeast
<1> QED
  BY <1>5, <1>6, <1>7, <1>8, <1>9, <1>10 DEF Honours, t

LEMMA AnimateInv ==
  ASSUME ClipInv, Animate
  PROVE  ClipInv'
<1> DEFINE fed(c) == [frames |-> SnapFrames(c.frames),
                      width  |-> SnapDim(c.width),
                      height |-> SnapDim(c.height),
                      seed   |-> AtLeast(c.seed, 0),
                      fps    |-> c.fps]
           clip(r, c) == [asked |-> r, fed |-> fed(c)]
<1>1. PICK r \in asked, c \in config : rendered' = Append(rendered, clip(r, c))
  BY DEF Animate, ClipSeed
<1>2. r \in Request /\ c \in Config
  BY DEF ClipInv, TypeOK
<1>3. r.quality \in Tier \cup {"other"}
  BY <1>2 DEF Request
<1>4. WithinTier(c, Fit[ParseTier(r.quality)]) /\ Meets(c, r, Fit[ParseTier(r.quality)])
  BY DEF ClipInv, ConfigInv
<1>5. /\ c.frames \in Int /\ c.width \in Int /\ c.height \in Int
      /\ c.seed \in Int /\ c.fps \in 8..30
  BY <1>2 DEF Config
<1>6. fed(c) \in Call
  <2>1. SnapFrames(c.frames) \in Nat
    BY <1>5, SnapFramesDecodable DEF MaxFrames
  <2>2. SnapDim(c.width) \in Nat /\ SnapDim(c.height) \in Nat
    BY <1>5, SnapDimDecodable
  <2>3. AtLeast(c.seed, 0) \in Nat
    BY <1>5 DEF AtLeast
  <2> QED
    BY <1>5, <2>1, <2>2, <2>3 DEF Call, Value
<1>7. GoodCall(clip(r, c))
  <2>1. /\ fed(c).frames = SnapFrames(c.frames)
        /\ fed(c).width = SnapDim(c.width) /\ fed(c).height = SnapDim(c.height)
        /\ fed(c).seed = AtLeast(c.seed, 0) /\ fed(c).fps = c.fps
    OBVIOUS
  <2>2. clip(r, c).fed = fed(c) /\ clip(r, c).asked = r
    OBVIOUS
  <2>3. TierOf(clip(r, c)) = Fit[ParseTier(r.quality)]
    BY <2>2 DEF TierOf
  <2> HIDE DEF fed, clip
  <2>4. /\ Decodable(fed(c)) /\ PastNothing(fed(c), Fit[ParseTier(r.quality)])
        /\ Honours(fed(c), r, Fit[ParseTier(r.quality)])
    BY <1>2, <1>3, <1>4, <2>1, SnappedIsGood
  <2> QED
    BY <2>2, <2>3, <2>4 DEF GoodCall
<1>8. clip(r, c) \in [asked : Request, fed : Call]
  BY <1>2, <1>6
<1> HIDE DEF clip, fed
<1>9. rendered \in Seq([asked : Request, fed : Call])
  BY DEF ClipInv, TypeOK
<1>10. TypeOK'
  <2>1. rendered' \in Seq([asked : Request, fed : Call])
    BY <1>1, <1>8, <1>9
  <2> QED
    BY <2>1 DEF Animate, TypeOK
<1>11. ConfigInv'
  BY DEF Animate, ConfigInv
<1>12. \A i \in 1..Len(rendered') : GoodCall(rendered'[i])
  <2> TAKE i \in 1..Len(rendered')
  <2>1. CASE i \in 1..Len(rendered)
    <3>1. rendered'[i] = rendered[i]
      BY <1>1, <1>8, <1>9, <2>1
    <3> QED
      BY <2>1, <3>1 DEF ClipInv
  <2>2. CASE i \notin 1..Len(rendered)
    <3>1. rendered'[i] = clip(r, c)
      BY <1>1, <1>8, <1>9, <2>2
    <3> QED
      BY <1>7, <3>1
  <2> QED
    BY <2>1, <2>2
<1>13. (\A i \in 1..Len(rendered) : GoodCall(rendered[i]))'
  BY <1>12 DEF GoodCall, TierOf
<1> QED
  BY <1>10, <1>11, <1>13 DEF ClipInv

LEMMA AnimateRaisesInv ==
  ASSUME ClipInv, AnimateRaises
  PROVE  ClipInv'
BY DEF ClipInv, TypeOK, ConfigInv, GoodCall, TierOf, AnimateRaises

LEMMA ClipStep == ClipInv /\ [Next]_vars => ClipInv'
<1> SUFFICES ASSUME ClipInv, [Next]_vars PROVE ClipInv'
  OBVIOUS
<1>1. CASE \E r \in Asks : Ask(r)
  BY <1>1, AskInv
<1>2. CASE FromRequest
  BY <1>2, FromRequestInv
<1>3. CASE FromRequestRaises
  BY <1>3, FromRequestRaisesInv
<1>4. CASE Animate
  BY <1>4, AnimateInv
<1>5. CASE AnimateRaises
  BY <1>5, AnimateRaisesInv
<1>6. CASE UNCHANGED vars
  BY <1>6 DEF vars, ClipInv, TypeOK, ConfigInv, GoodCall, TierOf
<1> QED
  BY <1>1, <1>2, <1>3, <1>4, <1>5, <1>6 DEF Next


\* What reaches the pipeline is within the tier, for every request and every tier table
\* (I2VConfig.from_request, then resolve_engine_dims).
THEOREM TierIsACeiling == Spec => []NeverPastTheTier
<1>1. ClipInv => NeverPastTheTier
  BY DEF ClipInv, GoodCall, PastNothing, NeverPastTheTier
<1> QED
  BY <1>1, ClipInit, ClipStep, PTL DEF Spec

\* It is a shape LTX's VAE can decode, for every request (snap_frames, snap_dim).
THEOREM ShapeIsDecodable == Spec => []DecodableShape
<1>1. ClipInv => DecodableShape
  BY DEF ClipInv, GoodCall, Decodable, DecodableShape
<1> QED
  BY <1>1, ClipInit, ClipStep, PTL DEF Spec

\* It is as close to what was asked as the model and the tier allow.
THEOREM RequestIsHonoured == Spec => []AskedIsHonoured
<1>1. ClipInv => AskedIsHonoured
  BY DEF ClipInv, GoodCall, Honours, AskedIsHonoured, TypeOK
<1> QED
  BY <1>1, ClipInit, ClipStep, PTL DEF Spec
-----------------------------------------------------------------------------
(* Clamping, and what the other two actions read from a request.           *)

\* A clamp returns a value of the interval, and leaves alone one that is.
LEMMA ClampWithin ==
  ASSUME NEW v \in Int, NEW limits, limits[1] \in Int, limits[2] \in Int,
         limits[1] <= limits[2]
  PROVE  /\ Clamp(v, limits) \in Within(limits)
         /\ v \in Within(limits) => Clamp(v, limits) = v
BY DEF Clamp, AtMost, AtLeast, Within

\* Every tier of the preview table is within the limits, and divisible by 8.
LEMMA PreviewFitWithin ==
  ASSUME NEW t \in Tier, NEW k \in KnobsButSeed
  PROVE  /\ PreviewLimits[k][1] \in Int /\ PreviewLimits[k][2] \in Int
         /\ PreviewLimits[k][1] <= PreviewLimits[k][2]
         /\ PreviewFit[t][k] \in Within(PreviewLimits[k])
         /\ k \in {"width", "height"} => PreviewFit[t][k] % 8 = 0
<1>1. CASE k = "width"
  BY <1>1 DEF Tier, PreviewLimits, PreviewFit, Within
<1>2. CASE k = "height"
  BY <1>2 DEF Tier, PreviewLimits, PreviewFit, Within
<1>3. CASE k = "steps"
  BY <1>3 DEF Tier, PreviewLimits, PreviewFit, Within
<1>4. CASE k = "guidance_scale"
  BY <1>4 DEF Tier, PreviewLimits, PreviewFit, Within
<1> QED
  BY <1>1, <1>2, <1>3, <1>4 DEF KnobsButSeed, Knob

Validated(r) == ~Refuses(r) /\ ~Overflows(r)

\* What validation lets through is a number, or is not there.
LEMMA ValidatedIsNumber ==
  ASSUME NEW r \in Previews, Validated(r), NEW kf \in r.keyframe, NEW k \in Knob
  PROVE  kf[k] \in Int \cup {Absent} /\ (CHOOSE kg \in r.keyframe : TRUE) = kf
<1>1. r \in PreviewAsk /\ \A kg, kh \in r.keyframe : kg = kh
  BY JobsAssumption
<1>2. kf \in [Knob -> KnobValue]
  BY <1>1 DEF PreviewAsk
<1>3. kf[k] # Malformed /\ kf[k] # Huge
  BY DEF Validated, Refuses, Overflows, AllowedKnobs
<1>4. kf[k] \in Int \cup {Absent}
  BY <1>2, <1>3 DEF KnobValue
<1>5. (CHOOSE kg \in r.keyframe : TRUE) = kf
  BY <1>1
<1> QED
  BY <1>4, <1>5

\* tier_params: each number is within its limits, the greatest that is not above the one
\* asked for or the least, and the tier's where none was.
LEMMA TierParamNeverOvershoots ==
  ASSUME NEW r \in Previews, Validated(r), NEW k \in KnobsButSeed
  PROVE  /\ TierParam(r, k) \in Within(PreviewLimits[k])
         /\ \A kf \in r.keyframe : kf[k] # Absent =>
              /\ Unit(k) * TierParam(r, k) <= kf[k] \/ TierParam(r, k) = PreviewLimits[k][1]
              /\ \A other \in Within(PreviewLimits[k]) :
                   Unit(k) * other <= kf[k] => other <= TierParam(r, k)
              /\ kf[k] \in Within(LimitsInTenths(k)) => TierParam(r, k) = kf[k] \div Unit(k)
         /\ (\A kf \in r.keyframe : kf[k] = Absent) =>
              TierParam(r, k) = PreviewFit[PreviewTier(r.quality)][k]
<1>1. PreviewTier(r.quality) \in Tier
  BY DEF PreviewTier, Tier
<1>2. /\ PreviewLimits[k][1] \in Int /\ PreviewLimits[k][2] \in Int
      /\ PreviewLimits[k][1] <= PreviewLimits[k][2]
      /\ PreviewFit[PreviewTier(r.quality)][k] \in Within(PreviewLimits[k])
  BY <1>1, PreviewFitWithin
<1>3. CASE \A kf \in r.keyframe : kf[k] = Absent
  BY <1>2, <1>3 DEF TierParam
<1>4. CASE \E kf \in r.keyframe : kf[k] # Absent
  <2>1. PICK kf \in r.keyframe : kf[k] # Absent
    BY <1>4
  <2>2. /\ kf[k] \in Int /\ (CHOOSE kg \in r.keyframe : TRUE) = kf
        /\ \A kg \in r.keyframe : kg = kf
    BY <2>1, ValidatedIsNumber, JobsAssumption DEF KnobsButSeed
  <2> DEFINE drawn == TierParam(r, k)  wanted == kf[k]  u == Unit(k)
             least == PreviewLimits[k][1]  most == PreviewLimits[k][2]
  <2>3. drawn = Clamp(wanted, <<u * least, u * most>>) \div u
    BY <2>1, <2>2 DEF TierParam, LimitsInTenths
  <2>4. u \in {1, 10}
    BY DEF Unit
  <2>5. wanted \in Int /\ least \in Int /\ most \in Int /\ least <= most
    BY <1>2, <2>2
  <2>6. /\ Within(PreviewLimits[k]) = least..most
        /\ Within(LimitsInTenths(k)) = (u * least)..(u * most)
    BY DEF Within, LimitsInTenths
  <2> HIDE DEF drawn, wanted, u, least, most
  <2>7. /\ drawn \in least..most
        /\ u * drawn <= wanted \/ drawn = least
        /\ \A other \in least..most : u * other <= wanted => other <= drawn
        /\ wanted \in (u * least)..(u * most) => drawn = wanted \div u
    <3>1. CASE u = 1
      BY <2>3, <2>5, <3>1 DEF Clamp, AtMost, AtLeast
    <3>2. CASE u = 10
      BY <2>3, <2>5, <3>2 DEF Clamp, AtMost, AtLeast
    <3> QED
      BY <2>4, <3>1, <3>2
  <2> QED
    BY <2>1, <2>2, <2>6, <2>7 DEF drawn, wanted, u, least
<1> QED
  BY <1>3, <1>4

\* The seed of a preview is the whole part of one that was asked for, or 0.
LEMMA SeedAsked ==
  ASSUME NEW r \in Previews, Validated(r)
  PROVE  \/ Seed(r) = 0
         \/ \E kf \in r.keyframe : Seed(r) = kf["seed"] \div 10 /\ kf["seed"] \in Nat
<1>1. CASE \E kf \in r.keyframe : kf["seed"] # Absent /\ kf["seed"] >= 0
  <2>1. PICK kf \in r.keyframe : kf["seed"] # Absent /\ kf["seed"] >= 0
    BY <1>1
  <2>2. kf["seed"] \in Int /\ (CHOOSE kg \in r.keyframe : TRUE) = kf
    BY <2>1, ValidatedIsNumber DEF Knob
  <2>3. Seed(r) = (CHOOSE kg \in r.keyframe : TRUE)["seed"] \div 10
    BY <1>1 DEF Seed
  <2>4. Seed(r) = kf["seed"] \div 10
    BY <2>2, <2>3
  <2> QED
    BY <2>1, <2>2, <2>4
<1>2. CASE ~\E kf \in r.keyframe : kf["seed"] # Absent /\ kf["seed"] >= 0
  BY <1>2 DEF Seed
<1> QED
  BY <1>1, <1>2

\* A request the contract declares is validated and of a listed model, and its shots are ones
\* diffusers or torch raise at if and only if a side of it is no multiple of 8.
LEMMA DeclaredIsDrawable ==
  ASSUME NEW r \in Previews, AsDeclared(r)
  PROVE  /\ Validated(r)
         /\ PreviewLook(r) # "unlisted"
         /\ \A i \in 0..(Shots - 1) : Undrawable(r, i) <=> HasOddSide(r)
<1>1. r \in PreviewAsk
  BY JobsAssumption
<1>2. ASSUME NEW kf \in r.keyframe, NEW k \in Knob
      PROVE  kf[k] # Malformed /\ kf[k] # Huge
  <2>1. CASE k = "seed"
    BY <2>1, SeedsAssumption, KnobAssumption DEF AsDeclared, Declared
  <2>2. CASE k \in KnobsButSeed
    <3>1. PreviewLimits[k][1] \in Int /\ PreviewLimits[k][2] \in Int /\ Unit(k) \in Int
      BY <2>2, PreviewFitWithin DEF Tier, Unit
    <3>2. kf[k] \in {Absent} \cup Within(LimitsInTenths(k))
      BY <2>2 DEF AsDeclared, Declared, KnobsButSeed
    <3> QED
      BY <3>1, <3>2, KnobAssumption DEF Within, LimitsInTenths
  <2> QED
    BY <2>1, <2>2 DEF KnobsButSeed
<1>3. Validated(r)
  BY <1>2 DEF Validated, Refuses, Overflows, AllowedKnobs, AsDeclared
<1>4. PreviewLook(r) # "unlisted"
  <2> DEFINE inner == {[style |-> "none", base_model |-> "none"] : kf \in r.keyframe}
             look == IF inner # {} THEN inner ELSE {r.look}
             Read(l) == IF l.style = "anime" THEN "anime"
                        ELSE IF l.base_model = "none" THEN "photoreal" ELSE l.base_model
  <2>1. PICK l \in look : \A m \in look : m = l
    <3>1. CASE inner = {}
      BY <3>1
    <3>2. CASE inner # {}
      BY <3>2
    <3> QED
      BY <3>1, <3>2
  <2>2. l = r.look \/ l = [style |-> "none", base_model |-> "none"]
    OBVIOUS
  <2>3. r.look \in Look /\ r.look.base_model # "unlisted"
    BY <1>1 DEF PreviewAsk, AsDeclared
  <2>4. Read(l) \in {"anime", "photoreal"}
    BY <2>2, <2>3 DEF Look
  <2>5. PreviewLook(r) = CHOOSE m \in {"anime", "photoreal", "unlisted"} :
                           \E x \in look : m = Read(x)
    BY DEF PreviewLook, ReadLook
  <2> HIDE DEF look, Read
  <2> QED
    BY <2>1, <2>4, <2>5
<1>5. Seed(r) \in Nat /\ Seed(r) <= DeclaredSeeds
  <2>1. CASE Seed(r) = 0
    BY <2>1, SeedsAssumption
  <2>2. CASE \E kf \in r.keyframe : Seed(r) = kf["seed"] \div 10 /\ kf["seed"] \in Nat
    <3>1. PICK kf \in r.keyframe : Seed(r) = kf["seed"] \div 10 /\ kf["seed"] \in Nat
      BY <2>2
    <3>2. kf["seed"] <= 10 * DeclaredSeeds
      BY <3>1, SeedsAssumption, ValueAssumption DEF AsDeclared, Declared
    <3> QED
      BY <3>1, <3>2, SeedsAssumption
  <2> QED
    BY <1>3, <2>1, <2>2, SeedAsked
<1>6. ASSUME NEW k \in {"width", "height"}
      PROVE  TierParam(r, k) % 8 # 0 <=>
               \E kf \in r.keyframe : kf[k] # Absent /\ (kf[k] \div 10) % 8 # 0
  <2>1. k \in KnobsButSeed /\ Unit(k) = 10
    BY DEF KnobsButSeed, Knob, Unit
  <2>2. CASE \A kf \in r.keyframe : kf[k] = Absent
    BY <1>3, <2>1, <2>2, TierParamNeverOvershoots, PreviewFitWithin DEF PreviewTier, Tier
  <2>3. CASE \E kf \in r.keyframe : kf[k] # Absent
    <3>1. PICK kf \in r.keyframe : kf[k] # Absent
      BY <2>3
    <3>2. kf[k] \in Within(LimitsInTenths(k)) /\ \A kg \in r.keyframe : kg = kf
      BY <2>1, <3>1, JobsAssumption DEF AsDeclared, Declared, KnobsButSeed
    <3>3. TierParam(r, k) = kf[k] \div 10
      BY <1>3, <2>1, <3>1, <3>2, TierParamNeverOvershoots
    <3> QED
      BY <3>1, <3>2, <3>3
  <2> QED
    BY <2>2, <2>3
<1>7. (\E k \in {"width", "height"} : TierParam(r, k) % 8 # 0) <=> HasOddSide(r)
  BY <1>6 DEF HasOddSide
<1>8. \A i \in 0..(Shots - 1) : Undrawable(r, i) <=> HasOddSide(r)
  BY <1>5, <1>7, SeedsAssumption, ClipsAssumption DEF Undrawable
<1> QED
  BY <1>3, <1>4, <1>8
-----------------------------------------------------------------------------
(* Counting by division, for the checkpoints and the optimizer steps.      *)

\* Quotient and remainder are what they are by the only way to write the number.
LEMMA Division ==
  ASSUME NEW n \in Nat, NEW d \in Nat \ {0}, NEW q \in Nat, NEW rem \in 0..(d - 1), n = q * d + rem
  PROVE  n \div d = q /\ n % d = rem
OBVIOUS

\* One more is either the next multiple or leaves the quotient alone.
LEMMA NextQuotient ==
  ASSUME NEW n \in Nat, NEW d \in Nat \ {0}
  PROVE  /\ (n + 1) % d = 0 => (n + 1) \div d = (n \div d) + 1
         /\ (n + 1) % d # 0 => (n + 1) \div d = n \div d
         /\ n \div d \in Nat
<1> DEFINE q == n \div d  rem == n % d
<1>1. q \in Nat /\ rem \in 0..(d - 1) /\ n = q * d + rem
  OBVIOUS
<1>2. CASE rem + 1 = d
  <2>1. (q + 1) * d = q * d + d
    BY <1>1
  <2>2. n + 1 = (q + 1) * d + 0
    BY <1>1, <1>2, <2>1
  <2> HIDE DEF q, rem
  <2>3. (n + 1) \div d = q + 1 /\ (n + 1) % d = 0
    BY <1>1, <2>2, Division
  <2> QED
    BY <1>1, <2>3 DEF q
<1>3. CASE rem + 1 # d
  <2> DEFINE m == n + 1  e == rem + 1
  <2>1. m \in Nat /\ m = q * d + e /\ e \in 0..(d - 1) /\ e # 0
    BY <1>1, <1>3
  <2> HIDE DEF q, rem, e, m
  <2>2. m \div d = q /\ m % d = e
    BY <1>1, <2>1, Division
  <2> QED
    BY <1>1, <2>1, <2>2 DEF q, m
<1> QED
  BY <1>2, <1>3
\* config_from_overrides: what is asked of a training and can be read at all is clamped,
\* and an interval within its limits is kept.
LEMMA TrainParamWithin ==
  ASSUME NEW r \in Trainings, ~Untrainable(r)
  PROVE  /\ TrainParam(r, "max_steps") \in Nat
         /\ TrainParam(r, "accumulation") \in Nat \ {0} /\ TrainParam(r, "accumulation") <= 32
         /\ TrainParam(r, "save_every") \in Nat
         /\ r.save_every \in 1..TrainLimits["save_every"][2] =>
              TrainParam(r, "save_every") = r.save_every
<1>1. r \in TrainAsk
  BY JobsAssumption
<1>2. r.max_steps # Infinite /\ r.accumulation # Infinite /\ r.save_every # Infinite
  BY DEF Untrainable, TrainKnob, TrainDefault
<1>3. /\ r.max_steps \in Int \cup {Absent} /\ r.accumulation \in Int \cup {Absent}
      /\ r.save_every \in Int \cup {Absent}
  BY <1>1, <1>2 DEF TrainAsk, Value
<1>4. ASSUME NEW k \in TrainKnob
      PROVE  /\ TrainDefault[k] \in Within(TrainLimits[k])
             /\ TrainLimits[k][1] \in Int /\ TrainLimits[k][2] \in Int
             /\ TrainLimits[k][1] <= TrainLimits[k][2]
  <2>1. CASE k = "max_steps"
    BY <2>1 DEF TrainDefault, TrainLimits, Within
  <2>2. CASE k = "accumulation"
    BY <2>2 DEF TrainDefault, TrainLimits, Within
  <2>3. CASE k = "save_every"
    BY <2>3 DEF TrainDefault, TrainLimits, Within
  <2> QED
    BY <2>1, <2>2, <2>3 DEF TrainKnob, TrainDefault
<1>5. ASSUME NEW k \in TrainKnob
      PROVE  /\ TrainParam(r, k) \in Within(TrainLimits[k])
             /\ r[k] \in Within(TrainLimits[k]) => TrainParam(r, k) = r[k]
  <2>1. r[k] \in Int \cup {Absent}
    BY <1>3 DEF TrainKnob, TrainDefault
  <2>2. CASE r[k] = Absent
    BY <1>4, <2>2, ValueAssumption DEF TrainParam, Within
  <2>3. CASE r[k] # Absent
    <3>1. r[k] \in Int /\ TrainParam(r, k) = Clamp(r[k], TrainLimits[k])
      BY <2>1, <2>3 DEF TrainParam
    <3> QED
      BY <1>4, <3>1, ClampWithin
  <2> QED
    BY <2>2, <2>3
<1>6. ASSUME NEW k \in TrainKnob
      PROVE  /\ TrainParam(r, k) \in Int
             /\ TrainLimits[k][1] <= TrainParam(r, k) /\ TrainParam(r, k) <= TrainLimits[k][2]
  BY <1>4, <1>5 DEF Within
<1>7. TrainParam(r, "max_steps") \in Nat
  BY <1>6 DEF TrainKnob, TrainDefault, TrainLimits
<1>8. TrainParam(r, "accumulation") \in Nat \ {0} /\ TrainParam(r, "accumulation") <= 32
  BY <1>6 DEF TrainKnob, TrainDefault, TrainLimits
<1>9. TrainParam(r, "save_every") \in Nat
  BY <1>6 DEF TrainKnob, TrainDefault, TrainLimits
<1>10. r.save_every \in 1..TrainLimits["save_every"][2] => TrainParam(r, "save_every") = r.save_every
  <2>1. "save_every" \in TrainKnob /\ TrainLimits["save_every"][1] = 0
    BY DEF TrainKnob, TrainDefault, TrainLimits
  <2> QED
    BY <1>4, <1>5, <2>1 DEF Within
<1> QED
  BY <1>7, <1>8, <1>9, <1>10

\* effective_steps: a fifth of the length per reference image, from a floor of 50.
LEMMA EffectiveStepsGrow ==
  ASSUME NEW r \in Trainings, ~Untrainable(r)
  PROVE  /\ EffectiveSteps(r) \in Nat /\ EffectiveSteps(r) >= 50
         /\ 5 * EffectiveSteps(r) + 4 >= r.refs * TrainParam(r, "max_steps")
<1>1. r.refs \in Nat /\ TrainParam(r, "max_steps") \in Nat
  <2>1. r \in TrainAsk
    BY JobsAssumption
  <2>2. TrainParam(r, "max_steps") \in Nat
    BY TrainParamWithin
  <2> QED
    BY <2>1, <2>2 DEF TrainAsk
<1> DEFINE asks == TrainParam(r, "max_steps") * r.refs
<1>2. asks \in Nat /\ asks = r.refs * TrainParam(r, "max_steps")
  BY <1>1
<1>3. EffectiveSteps(r) = AtLeast(asks \div 5, 50)
  BY DEF EffectiveSteps
<1> HIDE DEF asks
<1>4. asks \div 5 \in Nat /\ 5 * (asks \div 5) + 4 >= asks
  BY <1>2
<1> QED
  BY <1>2, <1>3, <1>4 DEF AtLeast

-----------------------------------------------------------------------------
(* The invariant.  One request is under way at a time, and it is the one    *)
(* the stage says; a preview's pictures are the calls its numbers make, in  *)
(* order; a training's counts are quotients of the steps done.              *)

Where ==
  /\ stage \in {"idle", "asked", "configured", "failed", "posted",
                "drawing", "training", "answered"}
  /\ preview \subseteq Previews /\ \A r, s \in preview : r = s
  /\ training \subseteq Trainings /\ \A r, s \in training : r = s
  /\ preview # {} => stage \in {"posted", "drawing", "answered"}
  /\ training # {} => stage \in {"training", "answered"}
  /\ stage \in {"posted", "drawing"} => training = {}
  /\ stage = "training" => preview = {}
  /\ stage # "answered" => verdict = "none"

PictureOf(r, i) ==
  [model |-> PreviewLook(r), seed |-> Seed(r) + (i - 1),
   width |-> TierParam(r, "width"), height |-> TierParam(r, "height"),
   steps |-> TierParam(r, "steps"), guidance_scale |-> TierParam(r, "guidance_scale")]

PicturesOf(r) == {PictureOf(r, i) : i \in Nat}

DrawnFor(r, calls, at, answer) ==
  /\ calls \in Seq(PicturesOf(r))
  /\ \A i \in 1..Len(calls) : calls[i] = PictureOf(r, i)
  /\ at = "posted" => calls = <<>>
  /\ at = "drawing" => Len(calls) < Shots
  /\ (at = "drawing" \/ calls # <<>>) => Validated(r)
  /\ answer = "done" => Len(calls) = Shots
  /\ AsDeclared(r) =>
       IF HasOddSide(r) THEN answer \in {"none", "failed"} /\ calls = <<>>
       ELSE answer \in {"none", "done"}

Drawn ==
  /\ preview = {} => pictures = <<>>
  /\ \A r \in preview : DrawnFor(r, pictures, stage, verdict)

Checkpoints(r, done) ==
  IF TrainParam(r, "save_every") = 0 THEN 0 ELSE done \div TrainParam(r, "save_every")

TrainedFor(r, done, stepped, kept, at, answer) ==
  /\ Untrainable(r) => done = 0 /\ answer # "done"
  /\ ~Untrainable(r) =>
       /\ done - stepped * TrainParam(r, "accumulation") \in 0..(TrainParam(r, "accumulation") - 1)
       /\ \A c \in kept : c <= done /\ c < EffectiveSteps(r)
       /\ \/ /\ at = "training" /\ done < EffectiveSteps(r)
             /\ Cardinality(kept) = Checkpoints(r, done)
          \/ /\ at = "answered" /\ answer = "done" /\ done = EffectiveSteps(r)
             /\ Cardinality(kept) = Checkpoints(r, done - 1)

Trained ==
  /\ step \in Nat /\ taken \in Nat /\ saved \subseteq Nat /\ IsFiniteSet(saved)
  /\ training = {} => step = 0 /\ taken = 0 /\ saved = {}
  /\ \A r \in training : TrainedFor(r, step, taken, saved, stage, verdict)

JobInv == Where /\ Drawn /\ Trained

LEMMA JobInit == ShapeInit => JobInv
<1> SUFFICES ASSUME ShapeInit PROVE JobInv
  OBVIOUS
<1>1. Where /\ Drawn
  BY DEF ShapeInit, Init, Where, Drawn
<1>2. Trained
  BY FS_EmptySet DEF ShapeInit, Trained
<1> QED
  BY <1>1, <1>2 DEF JobInv

\* A clip is made while no other request is under way.
LEMMA ClipKeepsJobs ==
  ASSUME JobInv, Next, UNCHANGED more
  PROVE  JobInv'
<1>1. preview = {} /\ training = {} /\ verdict = "none"
  BY DEF JobInv, Where, Next, Ask, FromRequest, FromRequestRaises, Animate, AnimateRaises
<1>2. stage' \in {"idle", "asked", "configured", "failed"}
  BY DEF Next, Ask, FromRequest, FromRequestRaises, Animate, AnimateRaises
<1>3. Where' /\ Drawn'
  BY <1>1, <1>2 DEF JobInv, Where, Drawn, more
<1>4. Trained'
  BY <1>1 DEF JobInv, Trained, more
<1> QED
  BY <1>3, <1>4 DEF JobInv

LEMMA AskPreviewInv ==
  ASSUME JobInv, NEW r \in Previews, AskPreview(r)
  PROVE  JobInv'
<1>1. training = {} /\ preview = {} /\ verdict = "none"
  BY DEF JobInv, Where, AskPreview
<1>2. pictures = <<>>
  BY <1>1 DEF JobInv, Drawn
<1>3. Where'
  BY <1>1 DEF JobInv, Where, AskPreview
<1>4. Drawn'
  <2>1. preview' = {r} /\ stage' = "posted" /\ pictures' = <<>> /\ verdict' = "none"
    BY <1>1, <1>2 DEF AskPreview
  <2>2. DrawnFor(r, pictures', stage', verdict')
    BY <2>1 DEF DrawnFor
  <2> QED
    BY <2>1, <2>2 DEF Drawn
<1>5. Trained'
  BY <1>1 DEF JobInv, Trained, AskPreview
<1> QED
  BY <1>3, <1>4, <1>5 DEF JobInv

LEMMA ValidateInv ==
  ASSUME JobInv, Validate
  PROVE  JobInv'
<1>1. PICK r \in preview :
        \/ Refuses(r) /\ Settle("refused")
        \/ Overflows(r) /\ Settle("unanswered")
        \/ ~Refuses(r) /\ ~Overflows(r) /\ stage' = "drawing" /\ UNCHANGED verdict
  BY DEF Validate
<1>2. /\ preview = {r} /\ r \in Previews /\ stage = "posted" /\ training = {}
      /\ verdict = "none" /\ pictures = <<>> /\ DrawnFor(r, pictures, stage, verdict)
  BY DEF JobInv, Where, Drawn, DrawnFor, Validate
<1>3. preview' = preview /\ training' = training /\ pictures' = pictures
  BY DEF Validate
<1>4. Where'
  BY <1>1, <1>2, <1>3 DEF JobInv, Where, Settle
<1>5. Drawn'
  <2>1. AsDeclared(r) => Validated(r)
    BY <1>2, DeclaredIsDrawable
  <2>2. DrawnFor(r, pictures', stage', verdict')
    BY <1>1, <1>2, <1>3, <2>1, SeedsAssumption DEF DrawnFor, Validated, Settle
  <2> QED
    BY <1>2, <1>3, <2>2 DEF Drawn
<1>6. Trained'
  BY <1>2, <1>3 DEF JobInv, Trained, Validate
<1> QED
  BY <1>4, <1>5, <1>6 DEF JobInv

LEMMA DrawRaisesInv ==
  ASSUME JobInv, DrawRaises
  PROVE  JobInv'
<1>1. PICK r \in preview : PreviewLook(r) = "unlisted" \/ Undrawable(r, Len(pictures))
  BY DEF DrawRaises
<1>2. /\ preview = {r} /\ r \in Previews /\ training = {}
      /\ stage = "drawing" /\ DrawnFor(r, pictures, stage, verdict)
  BY DEF JobInv, Where, Drawn, DrawRaises
<1>3. /\ preview' = preview /\ training' = training /\ pictures' = pictures
      /\ stage' = "answered" /\ verdict' = "failed"
  BY DEF DrawRaises, Settle
<1>4. Where'
  BY <1>2, <1>3 DEF JobInv, Where
<1>5. Drawn'
  <2>1. Len(pictures) \in 0..(Shots - 1) /\ Validated(r)
    BY <1>2, SeedsAssumption DEF DrawnFor
  <2>2. AsDeclared(r) => HasOddSide(r) /\ pictures = <<>>
    <3>1. AsDeclared(r) => HasOddSide(r)
      BY <1>1, <1>2, <2>1, DeclaredIsDrawable
    <3> QED
      BY <1>2, <3>1 DEF DrawnFor
  <2>3. DrawnFor(r, pictures', stage', verdict')
    BY <1>2, <1>3, <2>1, <2>2 DEF DrawnFor
  <2> QED
    BY <1>2, <1>3, <2>3 DEF Drawn
<1>6. Trained'
  BY <1>2, <1>3 DEF JobInv, Trained, DrawRaises
<1> QED
  BY <1>4, <1>5, <1>6 DEF JobInv

LEMMA DrawShotInv ==
  ASSUME JobInv, DrawShot
  PROVE  JobInv'
<1>1. PICK r \in preview : pictures' = Append(pictures, PictureOf(r, Len(pictures) + 1))
  <2>1. PICK r \in preview : pictures' = Append(pictures,
            [model |-> PreviewLook(r), seed |-> Seed(r) + Len(pictures),
             width |-> TierParam(r, "width"), height |-> TierParam(r, "height"),
             steps |-> TierParam(r, "steps"),
             guidance_scale |-> TierParam(r, "guidance_scale")])
    BY DEF DrawShot
  <2>2. pictures \in Seq(PicturesOf(r))
    BY DEF JobInv, Drawn, DrawnFor
  <2>3. (Len(pictures) + 1) - 1 = Len(pictures)
    BY <2>2
  <2> QED
    BY <2>1, <2>3 DEF PictureOf
<1>2. /\ preview = {r} /\ r \in Previews /\ training = {} /\ verdict = "none"
      /\ stage = "drawing" /\ DrawnFor(r, pictures, stage, verdict)
  BY DEF JobInv, Where, Drawn, DrawShot
<1>3. preview' = preview /\ training' = training
  BY DEF DrawShot
<1>4. \/ Len(pictures') = Shots /\ stage' = "answered" /\ verdict' = "done"
      \/ Len(pictures') # Shots /\ stage' = "drawing" /\ verdict' = "none"
  BY <1>2 DEF DrawShot, Settle
<1>5. Where'
  BY <1>2, <1>3, <1>4 DEF JobInv, Where
<1>6. Drawn'
  <2> DEFINE new == PictureOf(r, Len(pictures) + 1)
  <2>1. /\ pictures \in Seq(PicturesOf(r)) /\ Len(pictures) < Shots /\ Validated(r)
        /\ \A i \in 1..Len(pictures) : pictures[i] = PictureOf(r, i)
    BY <1>2 DEF DrawnFor
  <2>2. new \in PicturesOf(r)
    <3>1. Len(pictures) + 1 \in Nat
      BY <2>1
    <3> QED
      BY <3>1 DEF PicturesOf
  <2>3. /\ pictures' \in Seq(PicturesOf(r)) /\ Len(pictures') = Len(pictures) + 1
        /\ \A i \in 1..Len(pictures) : pictures'[i] = pictures[i]
        /\ pictures'[Len(pictures) + 1] = new
    <3> HIDE DEF new
    <3> QED
      BY <1>1, <2>1, <2>2 DEF new
  <2>4. \A i \in 1..Len(pictures') : pictures'[i] = PictureOf(r, i)
    BY <2>1, <2>3
  <2>5. Len(pictures') # Shots => Len(pictures') < Shots
    BY <2>1, <2>3, SeedsAssumption
  <2>6. DrawnFor(r, pictures', stage', verdict')
    <3>1. stage' # "posted" /\ verdict' \in {"none", "done"}
      BY <1>4
    <3>2. AsDeclared(r) => ~HasOddSide(r)
      <4>1. ~Undrawable(r, Len(pictures))
        BY <1>2 DEF DrawShot
      <4>2. Len(pictures) \in 0..(Shots - 1)
        BY <2>1, SeedsAssumption
      <4> QED
        BY <1>2, <4>1, <4>2, DeclaredIsDrawable
    <3> QED
      BY <1>4, <2>1, <2>4, <2>3, <2>5, <3>1, <3>2 DEF DrawnFor
  <2> QED
    BY <1>2, <1>3, <2>6 DEF Drawn
<1>7. Trained'
  BY <1>2, <1>3 DEF JobInv, Trained, DrawShot
<1> QED
  BY <1>5, <1>6, <1>7 DEF JobInv

LEMMA AskTrainingInv ==
  ASSUME JobInv, NEW r \in Trainings, AskTraining(r)
  PROVE  JobInv'
<1>1. /\ training = {} /\ preview = {} /\ verdict = "none"
      /\ step = 0 /\ taken = 0 /\ saved = {}
  BY DEF JobInv, Where, Trained, AskTraining
<1>2. /\ training' = {r} /\ preview' = preview /\ stage' = "training" /\ verdict' = "none"
      /\ step' = 0 /\ taken' = 0 /\ saved' = {} /\ pictures' = pictures
  BY <1>1 DEF AskTraining
<1>3. Where'
  BY <1>1, <1>2 DEF JobInv, Where
<1>4. Drawn'
  BY <1>1, <1>2 DEF JobInv, Drawn
<1>5. Trained'
  <2>1. TrainedFor(r, 0, 0, {}, "training", "none")
    <3>1. CASE Untrainable(r)
      BY <3>1 DEF TrainedFor
    <3>2. CASE ~Untrainable(r)
      <4>1. /\ TrainParam(r, "accumulation") \in Nat \ {0}
            /\ EffectiveSteps(r) \in Nat /\ EffectiveSteps(r) >= 50
        BY <3>2, TrainParamWithin, EffectiveStepsGrow
      <4>2. Checkpoints(r, 0) = 0
        <5>1. TrainParam(r, "save_every") \in Nat
          BY <3>2, TrainParamWithin
        <5> QED
          BY <5>1 DEF Checkpoints
      <4>3. Cardinality({}) = 0
        BY FS_EmptySet
      <4> QED
        BY <3>2, <4>1, <4>2, <4>3 DEF TrainedFor
    <3> QED
      BY <3>1, <3>2
  <2> QED
    BY <1>2, <2>1, FS_EmptySet DEF Trained
<1> QED
  BY <1>3, <1>4, <1>5 DEF JobInv

LEMMA TrainRaisesInv ==
  ASSUME JobInv, TrainRaises
  PROVE  JobInv'
<1>1. PICK r \in training : Untrainable(r)
  BY DEF TrainRaises
<1>2. /\ training = {r} /\ preview = {} /\ stage = "training"
      /\ TrainedFor(r, step, taken, saved, stage, verdict)
  BY DEF JobInv, Where, Trained, TrainRaises
<1>3. /\ training' = training /\ preview' = preview /\ pictures' = pictures
      /\ stage' = "answered" /\ verdict' = "failed"
      /\ step' = step /\ taken' = taken /\ saved' = saved
  BY DEF TrainRaises, Settle
<1>4. Where'
  BY <1>2, <1>3 DEF JobInv, Where
<1>5. Drawn'
  BY <1>2, <1>3 DEF JobInv, Drawn
<1>6. TrainedFor(r, step, taken, saved, "answered", "failed")
  BY <1>1, <1>2 DEF TrainedFor
<1>7. Trained'
  BY <1>2, <1>3, <1>6 DEF JobInv, Trained
<1> QED
  BY <1>4, <1>5, <1>7 DEF JobInv

\* The optimizer steps every accumulation-th micro-step, so that what is left over stays
\* below one accumulation.
LEMMA OptimizerKeepsUp ==
  ASSUME NEW s \in Nat, NEW t \in Nat, NEW a \in Nat \ {0}, s - t * a \in 0..(a - 1),
         NEW u, u = IF (s + 1) % a = 0 THEN t + 1 ELSE t
  PROVE  u \in Nat /\ (s + 1) - u * a \in 0..(a - 1)
<1> DEFINE rem == s - t * a
<1>1. rem \in 0..(a - 1) /\ s = t * a + rem
  OBVIOUS
<1>2. CASE rem + 1 = a
  <2>1. (t + 1) * a = t * a + a
    OBVIOUS
  <2> DEFINE m == s + 1  q == t + 1
  <2>2. m = q * a + 0
    BY <1>1, <1>2, <2>1
  <2> HIDE DEF m, q
  <2>3. m \in Nat /\ q \in Nat
    BY DEF m, q
  <2>4. m % a = 0
    BY <2>2, <2>3, Division
  <2> QED
    BY <2>1, <2>2, <2>4 DEF m, q
<1>3. CASE rem + 1 # a
  <2> DEFINE m == s + 1  e == rem + 1
  <2>1. m \in Nat /\ m = t * a + e /\ e \in 0..(a - 1) /\ e # 0
    BY <1>1, <1>3
  <2> HIDE DEF rem, m, e
  <2>2. m % a = e
    BY <2>1, Division
  <2> QED
    BY <2>1, <2>2 DEF m
<1> QED
  BY <1>2, <1>3

\* A checkpoint is a step not saved before, so each turn of the loop adds to their number
\* what it adds to the quotient.
LEMMA CheckpointsCounted ==
  ASSUME NEW r \in Trainings, ~Untrainable(r), NEW s \in Nat, NEW kept \in SUBSET Nat,
         IsFiniteSet(kept), \A c \in kept : c <= s,
         Cardinality(kept) = Checkpoints(r, s), NEW new,
         new = IF /\ TrainParam(r, "save_every") # 0
                  /\ (s + 1) % TrainParam(r, "save_every") = 0
                  /\ s + 1 < EffectiveSteps(r)
               THEN kept \cup {s + 1} ELSE kept
  PROVE  /\ new \in SUBSET Nat /\ IsFiniteSet(new) /\ \A c \in new : c <= s + 1
         /\ s + 1 < EffectiveSteps(r) => Cardinality(new) = Checkpoints(r, s + 1)
         /\ s + 1 = EffectiveSteps(r) => Cardinality(new) = Checkpoints(r, s)
<1> DEFINE every == TrainParam(r, "save_every")
<1>1. every \in Nat /\ EffectiveSteps(r) \in Nat
  <2>1. every \in Nat
    BY TrainParamWithin
  <2>2. EffectiveSteps(r) \in Nat
    BY EffectiveStepsGrow
  <2> QED
    BY <2>1, <2>2
<1>2. s + 1 \notin kept
  OBVIOUS
<1>3. IsFiniteSet(kept \cup {s + 1}) /\ Cardinality(kept \cup {s + 1}) = Cardinality(kept) + 1
  BY <1>2, FS_AddElement
<1>4. IsFiniteSet(new) /\ new \in SUBSET Nat /\ \A c \in new : c <= s + 1
  BY <1>3
<1>5. ASSUME s + 1 < EffectiveSteps(r)
      PROVE  Cardinality(new) = Checkpoints(r, s + 1)
  <2>1. CASE every = 0
    BY <2>1 DEF Checkpoints
  <2>2. CASE every # 0
    <3>1. every \in Nat \ {0}
      BY <1>1, <2>2
    <3>2. Checkpoints(r, s) = s \div every /\ Checkpoints(r, s + 1) = (s + 1) \div every
      BY <2>2 DEF Checkpoints
    <3> HIDE DEF every
    <3>3. /\ (s + 1) % every = 0 => (s + 1) \div every = (s \div every) + 1
          /\ (s + 1) % every # 0 => (s + 1) \div every = s \div every
      BY <3>1, NextQuotient
    <3>4. CASE (s + 1) % every = 0
      <4>1. new = kept \cup {s + 1}
        BY <1>5, <2>2, <3>4 DEF every
      <4> QED
        BY <1>3, <3>2, <3>3, <3>4, <4>1
    <3>5. CASE (s + 1) % every # 0
      <4>1. new = kept
        BY <3>5 DEF every
      <4> QED
        BY <3>2, <3>3, <3>5, <4>1
    <3> QED
      BY <3>4, <3>5
  <2> QED
    BY <2>1, <2>2
<1>6. s + 1 = EffectiveSteps(r) => Cardinality(new) = Checkpoints(r, s)
  BY <1>1
<1> QED
  BY <1>4, <1>5, <1>6

LEMMA TrainStepInv ==
  ASSUME JobInv, TrainStep
  PROVE  JobInv'
<1> DEFINE a(r) == TrainParam(r, "accumulation")
           every(r) == TrainParam(r, "save_every")
<1>1. PICK r \in training :
        /\ ~Untrainable(r)
        /\ taken' = IF step' % a(r) = 0 THEN taken + 1 ELSE taken
        /\ saved' = IF every(r) # 0 /\ step' % every(r) = 0 /\ step' < EffectiveSteps(r)
                    THEN saved \cup {step'} ELSE saved
        /\ IF step' = EffectiveSteps(r) THEN Settle("done") ELSE UNCHANGED <<stage, verdict>>
  BY DEF TrainStep
<1>2. /\ training = {r} /\ r \in Trainings /\ preview = {}
      /\ stage = "training" /\ verdict = "none"
      /\ TrainedFor(r, step, taken, saved, stage, verdict)
      /\ step \in Nat /\ taken \in Nat /\ saved \in SUBSET Nat /\ IsFiniteSet(saved)
  BY DEF JobInv, Where, Trained, TrainStep
<1>3. training' = training /\ preview' = preview /\ pictures' = pictures /\ step' = step + 1
  BY DEF TrainStep
<1>4. \/ step' = EffectiveSteps(r) /\ stage' = "answered" /\ verdict' = "done"
      \/ step' # EffectiveSteps(r) /\ stage' = "training" /\ verdict' = "none"
  BY <1>1, <1>2 DEF Settle
<1>5. Where'
  BY <1>2, <1>3, <1>4 DEF JobInv, Where
<1>6. Drawn'
  BY <1>2, <1>3 DEF JobInv, Drawn
<1>7. /\ step - taken * a(r) \in 0..(a(r) - 1)
      /\ \A c \in saved : c <= step /\ c < EffectiveSteps(r)
      /\ step < EffectiveSteps(r) /\ Cardinality(saved) = Checkpoints(r, step)
  BY <1>1, <1>2 DEF TrainedFor
<1>8. a(r) \in Nat \ {0} /\ EffectiveSteps(r) \in Nat
  BY <1>1, <1>2, TrainParamWithin, EffectiveStepsGrow
<1> HIDE DEF a
<1>9. taken' \in Nat /\ (step + 1) - taken' * a(r) \in 0..(a(r) - 1)
  BY <1>1, <1>2, <1>3, <1>7, <1>8, OptimizerKeepsUp
<1>10. /\ saved' \in SUBSET Nat /\ IsFiniteSet(saved') /\ \A c \in saved' : c <= step + 1
       /\ step + 1 < EffectiveSteps(r) => Cardinality(saved') = Checkpoints(r, step + 1)
       /\ step + 1 = EffectiveSteps(r) => Cardinality(saved') = Checkpoints(r, step)
  BY <1>1, <1>2, <1>3, <1>7, CheckpointsCounted
<1>11. \A c \in saved' : c < EffectiveSteps(r)
  BY <1>1, <1>7
<1>12. TrainedFor(r, step', taken', saved', stage', verdict')
  <2>1. step' - 1 = step /\ (step' # EffectiveSteps(r) => step' < EffectiveSteps(r))
    BY <1>2, <1>3, <1>7, <1>8
  <2>2. ~Untrainable(r) /\ (step' = EffectiveSteps(r) => verdict' = "done")
    BY <1>1, <1>4
  <2>3. step' - taken' * a(r) \in 0..(a(r) - 1)
    BY <1>3, <1>9
  <2>4. \A c \in saved' : c <= step' /\ c < EffectiveSteps(r)
    BY <1>3, <1>10, <1>11
  <2>5. \/ stage' = "training" /\ step' < EffectiveSteps(r)
           /\ Cardinality(saved') = Checkpoints(r, step')
        \/ stage' = "answered" /\ verdict' = "done" /\ step' = EffectiveSteps(r)
           /\ Cardinality(saved') = Checkpoints(r, step' - 1)
    BY <1>3, <1>4, <1>10, <2>1
  <2> QED
    BY <2>2, <2>3, <2>4, <2>5 DEF TrainedFor, a
<1>13. Trained'
  BY <1>2, <1>3, <1>9, <1>10, <1>12 DEF Trained
<1> QED
  BY <1>5, <1>6, <1>13 DEF JobInv

-----------------------------------------------------------------------------
(* The specification.                                                      *)

\* No step of another action touches a clip, or leaves one half made.
LEMMA AsideKeepsClips ==
  ASSUME ClipInv, stage # "configured", UNCHANGED <<asked, config, rendered>>
  PROVE  ClipInv'
BY DEF ClipInv, TypeOK, ConfigInv, GoodCall, TierOf

LEMMA ShapeStep == ClipInv /\ JobInv /\ [ShapeNext]_shapeVars => ClipInv' /\ JobInv'
<1> SUFFICES ASSUME ClipInv, JobInv, [ShapeNext]_shapeVars PROVE ClipInv' /\ JobInv'
  OBVIOUS
<1>1. CASE Next /\ UNCHANGED more
  BY <1>1, ClipStep, ClipKeepsJobs
<1>2. CASE \E r \in Previews : AskPreview(r)
  <2>1. PICK r \in Previews : AskPreview(r)
    BY <1>2
  <2> QED
    BY <2>1, AskPreviewInv, AsideKeepsClips DEF AskPreview
<1>3. CASE Validate
  BY <1>3, ValidateInv, AsideKeepsClips DEF Validate
<1>4. CASE DrawRaises
  BY <1>4, DrawRaisesInv, AsideKeepsClips DEF DrawRaises
<1>5. CASE DrawShot
  BY <1>5, DrawShotInv, AsideKeepsClips DEF DrawShot
<1>6. CASE \E r \in Trainings : AskTraining(r)
  <2>1. PICK r \in Trainings : AskTraining(r)
    BY <1>6
  <2> QED
    BY <2>1, AskTrainingInv, AsideKeepsClips DEF AskTraining
<1>7. CASE TrainRaises
  BY <1>7, TrainRaisesInv, AsideKeepsClips DEF TrainRaises
<1>8. CASE TrainStep
  BY <1>8, TrainStepInv, AsideKeepsClips DEF TrainStep
<1>9. CASE UNCHANGED shapeVars
  <2>1. ClipInv'
    BY <1>9 DEF shapeVars, vars, ClipInv, TypeOK, ConfigInv, GoodCall, TierOf
  <2>2. JobInv'
    BY <1>9 DEF shapeVars, vars, more, JobInv, Where, Drawn, Trained
  <2> QED
    BY <2>1, <2>2
<1> QED
  BY <1>1, <1>2, <1>3, <1>4, <1>5, <1>6, <1>7, <1>8, <1>9 DEF ShapeNext

LEMMA ShapeInvariance == ShapeSpec => [](ClipInv /\ JobInv)
<1>1. ShapeInit => ClipInv /\ JobInv
  BY ClipInit, JobInit DEF ShapeInit
<1> QED
  BY <1>1, ShapeStep, PTL DEF ShapeSpec

\* What reaches the clip pipeline stays so on a server that also draws previews and
\* trains: their states never leave a clip's config behind, nor run between its steps.
THEOREM ClipsAmongOthers ==
  ShapeSpec => [](NeverPastTheTier /\ DecodableShape /\ AskedIsHonoured)
<1>1. ClipInv => NeverPastTheTier /\ DecodableShape /\ AskedIsHonoured
  BY DEF ClipInv, GoodCall, PastNothing, Decodable, Honours,
         NeverPastTheTier, DecodableShape, AskedIsHonoured, TypeOK
<1> QED
  BY <1>1, ShapeInvariance, PTL

\* tier_params and the seeds of render_preview: for every request, of whole numbers or
\* not, and any number of shots, each picture is drawn with the greatest numbers the card
\* takes that are not above those asked for, and with a seed no other picture has.
THEOREM PicturesNeverOvershoot == ShapeSpec => []KnobsNeverOvershoot
<1>1. JobInv => KnobsNeverOvershoot
  <2> SUFFICES ASSUME JobInv, NEW i \in 1..Len(pictures), NEW r \in preview
               PROVE  /\ \A k \in KnobsButSeed :
                           /\ pictures[i][k] \in Within(PreviewLimits[k])
                           /\ \A kf \in r.keyframe : kf[k] # Absent =>
                                /\ \/ Unit(k) * pictures[i][k] <= kf[k]
                                   \/ pictures[i][k] = PreviewLimits[k][1]
                                /\ \A other \in Within(PreviewLimits[k]) :
                                     Unit(k) * other <= kf[k] => other <= pictures[i][k]
                           /\ (\A kf \in r.keyframe : kf[k] = Absent) =>
                                pictures[i][k] = PreviewFit[PreviewTier(r.quality)][k]
                      /\ \A j \in 1..(i - 1) : pictures[i].seed # pictures[j].seed
    BY DEF KnobsNeverOvershoot, KnobsButSeed
  <2>1. /\ r \in Previews /\ Len(pictures) \in Nat /\ pictures # <<>>
        /\ \A j \in 1..Len(pictures) : pictures[j] = PictureOf(r, j)
    BY DEF JobInv, Where, Drawn, DrawnFor
  <2>2. Validated(r)
    BY <2>1 DEF JobInv, Drawn, DrawnFor
  <2>3. ASSUME NEW k \in KnobsButSeed
        PROVE  pictures[i][k] = TierParam(r, k)
    <3>0. pictures[i] = PictureOf(r, i)
      BY <2>1
    <3>1. CASE k = "width"
      BY <3>0, <3>1 DEF PictureOf
    <3>2. CASE k = "height"
      BY <3>0, <3>2 DEF PictureOf
    <3>3. CASE k = "steps"
      BY <3>0, <3>3 DEF PictureOf
    <3>4. CASE k = "guidance_scale"
      BY <3>0, <3>4 DEF PictureOf
    <3> QED
      BY <3>1, <3>2, <3>3, <3>4 DEF KnobsButSeed, Knob
  <2>4. ASSUME NEW j \in 1..(i - 1)
        PROVE  pictures[i].seed # pictures[j].seed
    <3>1. Seed(r) \in Nat
      BY <2>1, <2>2, SeedAsked
    <3>2. pictures[i] = PictureOf(r, i) /\ pictures[j] = PictureOf(r, j)
      BY <2>1
    <3>3. pictures[i].seed = Seed(r) + (i - 1) /\ pictures[j].seed = Seed(r) + (j - 1)
      BY <3>2 DEF PictureOf
    <3> QED
      BY <2>1, <3>1, <3>3
  <2> QED
    BY <2>1, <2>2, <2>3, <2>4, TierParamNeverOvershoots
<1> QED
  BY <1>1, ShapeInvariance, PTL

\* What contract.py declares and what preview_sdxl.py can draw differ in the sides alone:
\* for every number of shots and every range of seeds that leaves room for them, a request
\* within the contract fails if one of its sides is no multiple of 8, with nothing drawn,
\* and ends with all of its shots drawn if not.
THEOREM ContractFailsBySidesAlone == ShapeSpec => []OnlySidesFailDeclared
<1>1. JobInv => OnlySidesFailDeclared
  BY DEF JobInv, Drawn, DrawnFor, OnlySidesFailDeclared
<1> QED
  BY <1>1, ShapeInvariance, PTL

\* effective_steps and the loop of train_slot: whatever accumulation, length, interval
\* and number of reference images, what a training leaves behind adds up.
THEOREM TrainingAddsUp == ShapeSpec => []TrainingLearns
<1>1. JobInv => TrainingLearns
  <2> SUFFICES ASSUME JobInv, NEW r \in training, verdict = "done"
               PROVE  LET every == TrainParam(r, "accumulation") IN
                      /\ taken > 0 /\ step - taken * every \in 0..(every - 1)
                      /\ step >= 50 /\ 5 * step + 4 >= r.refs * TrainParam(r, "max_steps")
                      /\ \A c \in saved : c < step
                      /\ r.save_every \in 1..TrainLimits["save_every"][2] =>
                           Cardinality(saved) = (step - 1) \div r.save_every
    BY DEF TrainingLearns
  <2> DEFINE a == TrainParam(r, "accumulation")
  <2>1. /\ r \in Trainings /\ step \in Nat /\ taken \in Nat /\ stage = "answered"
        /\ TrainedFor(r, step, taken, saved, stage, verdict)
    BY DEF JobInv, Where, Trained
  <2>2. ~Untrainable(r)
    BY <2>1 DEF TrainedFor
  <2>3. /\ step = EffectiveSteps(r) /\ step - taken * a \in 0..(a - 1)
        /\ \A c \in saved : c < EffectiveSteps(r)
        /\ Cardinality(saved) = Checkpoints(r, step - 1)
    BY <2>1, <2>2 DEF TrainedFor
  <2>4. a \in Nat \ {0} /\ a <= 32
    BY <2>1, <2>2, TrainParamWithin
  <2>5. step >= 50 /\ 5 * step + 4 >= r.refs * TrainParam(r, "max_steps")
    BY <2>1, <2>2, <2>3, EffectiveStepsGrow
  <2> HIDE DEF a
  <2>6. taken > 0
    <3>1. taken = 0 => taken * a = 0
      BY <2>4
    <3> QED
      BY <2>1, <2>3, <2>4, <2>5, <3>1
  <2>7. ASSUME r.save_every \in 1..TrainLimits["save_every"][2]
        PROVE  Cardinality(saved) = (step - 1) \div r.save_every
    <3>1. TrainParam(r, "save_every") = r.save_every
      BY <2>1, <2>2, <2>7, TrainParamWithin
    <3>2. r.save_every # 0
      BY <2>7 DEF TrainLimits
    <3> QED
      BY <2>3, <3>1, <3>2 DEF Checkpoints
  <2> QED
    BY <2>3, <2>5, <2>6, <2>7 DEF a
<1> QED
  BY <1>1, ShapeInvariance, PTL
=============================================================================
