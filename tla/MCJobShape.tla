----------------------------- MODULE MCJobShape -----------------------------
(***************************************************************************)
(* Clips on both sides of every boundary of the arithmetic (below, at and   *)
(* above 0, 1, 32, the stride, each tier's ceiling and the model's),        *)
(* previews on both sides of each limit, of the multiple of 8 and of a      *)
(* whole number, and trainings whose accumulation, length and checkpoints   *)
(* do and do not divide one another.  Seeds are scaled down: 15 is the      *)
(* declared top, 31 is torch's.                                             *)
(***************************************************************************)
EXTENDS JobShape

\* The tier table of the 12GB door.
LTX12GB ==
  [draft    |-> [frames |-> 97,  width |-> 512, height |-> 320],
   standard |-> [frames |-> 121, width |-> 704, height |-> 512],
   final    |-> [frames |-> 121, width |-> 768, height |-> 512]]

Qualities == Tier \cup {"other"}

\* Every length against every tier, then every size, then every seed and rate.
Lengths ==
  [quality : Qualities,
   frames : {Absent, Infinite, -8, 0, 1, 2, 8, 9, 10, 48, 49, 96, 97, 98, 113, 114, 120,
             121, 122, 129, 256, 257, 258, 9999},
   width : {Absent}, height : {Absent}, seed : {Absent}, fps : {Absent}]
Sizes ==
  [quality : Qualities, frames : {Absent},
   width : {Absent, Infinite, -65, -1, 0, 1, 31, 32, 33, 500, 512, 513, 703, 704, 4096},
   height : {Absent, Infinite, -1, 0, 31, 319, 320, 511, 512, 513},
   seed : {Absent}, fps : {Absent}]
Rates ==
  [quality : {"draft"}, frames : {Absent, 49}, width : {Absent}, height : {Absent},
   seed : {Absent, Infinite, -2, -1, 0, 31, 32}, fps : {Absent, Infinite, 0, 7, 8, 24, 30, 31}]

ClipAsks == Lengths \cup Sizes \cup Rates

Plain == [style |-> "none", base_model |-> "none"]
NoKnobs == [k \in Knob |-> Absent]
Asking(q, kf, extra, look) == [quality |-> q, keyframe |-> kf, extra |-> extra, look |-> look]

\* Each tier bare; each pair of sides; each other knob by itself; each look.  In tenths.
Sides == {Absent, Malformed, Huge, -80, 0, 2559, 2560, 2600, 2647, 7009, 7680, 13439,
          13440, 13441, 13450, 90000}
PreviewAsks ==
  {Asking(q, kf, FALSE, Plain) : q \in Tier \cup {"other"}, kf \in {{}, {NoKnobs}}}
  \cup {Asking("draft", {[NoKnobs EXCEPT !["width"] = w, !["height"] = h]}, FALSE, Plain) :
          w, h \in Sides}
  \cup {Asking("final", {[NoKnobs EXCEPT ![k] = v]}, x, Plain) :
          k \in {"steps", "guidance_scale"}, x \in BOOLEAN,
          v \in {Malformed, Huge, -1, 0, 1, 9, 10, 19, 149, 150, 151, 499, 500, 501, 510}}
  \cup {Asking("final", {[NoKnobs EXCEPT !["seed"] = v]}, FALSE, Plain) :
          v \in {Malformed, Huge, -5, 0, 9, 145, 150, 160, 295, 300, 309, 310, 320}}
  \cup {Asking("standard", kf, FALSE, look) : kf \in {{}, {NoKnobs}}, look \in Look}

TrainAsks ==
  [max_steps : {Absent, Infinite, -1, 1, 255, 260}, accumulation : {Absent, Infinite, 0, 7, 32, 33, 64},
   save_every : {Absent, Infinite, -1, 25, 50, 52}, refs : {1, 5}, keyframe : {{}}, look : {Plain}]
  \cup [max_steps : {1}, accumulation : {Absent}, save_every : {Absent}, refs : {1},
        keyframe : {{}} \cup {{l} : l \in Look}, look : Look]
=============================================================================
