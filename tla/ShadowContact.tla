---------------------------- MODULE ShadowContact ----------------------------
(***************************************************************************)
(* The shadow channel of perception (shadow_contact.cpp): contact guessed  *)
(* from the gap between the fingertip and the tip of its shadow.  A frame  *)
(* is reduced to the dark blobs OpenCV finds near the fingertip, each with *)
(* its area, its side of the finger and its distance, and to how bright    *)
(* the surroundings are.                                                   *)
(***************************************************************************)
EXTENDS Integers, Sequences

CONSTANTS
  Size, Radius,               \* columns and rows of the image; roi_radius_px
  GapOn, GapOff, MinArea,     \* thresholds, in pixels
  AmbientMin, LumaRef,        \* ambient_luma_min, conf_luma_ref
  ShadowMin,                  \* the engine's shadow_conf_min, in units of 1 / (10 LumaRef)
  Tips, Blobs, Lumas,         \* what frames are made of
  MaxMeasured                 \* bound: frames measured

GapMax == 2 * Radius
NotFound == GapMax + 1

ASSUME ShadowAssumption ==
  /\ Size \in Nat \X Nat /\ Radius \in Nat \ {0} /\ Tips \subseteq Int \X Int
  /\ GapOn \in Nat /\ GapOff \in GapOn .. GapMax
  /\ Blobs \subseteq [area : Nat, shadowSide : BOOLEAN, gap : 0 .. GapMax]
  /\ MinArea \in Nat /\ AmbientMin \in Nat /\ LumaRef \in Nat \ {0} /\ Lumas \subseteq Nat
  /\ ShadowMin \in Nat /\ 3 * LumaRef < ShadowMin /\ MaxMeasured \in Nat

Engine == INSTANCE ContactFusion WITH PinchOn <- 0, PinchOff <- 0

VARIABLES
  latch,     \* engaged_
  report,    \* the last ShadowResult
  roi,       \* the rectangle it looked at, <<>> if none
  luma,      \* the brightness it saw
  gaps       \* history: the gap of each frame that was measured, NotFound without a shadow

shadowVars == <<latch, report, roi, luma, gaps>>

Nothing == [engaged |-> FALSE, confidence |-> 0, gap |-> NotFound]

\* The rectangle cut out of the frame is one of the image; OpenCV throws otherwise.
RoiInImage == \A axis \in {1, 2} : /\ 0 <= roi[axis][1] /\ roi[axis][2] <= Size[axis]
                                   /\ roi[axis][1] < roi[axis][2]

ShadowTypeOK ==
  /\ latch \in BOOLEAN /\ luma \in Lumas \cup {0}
  /\ report \in [engaged : BOOLEAN, confidence : 0 .. 10 * LumaRef, gap : 0 .. NotFound]
  /\ gaps \in Seq(0 .. NotFound) /\ Len(gaps) <= MaxMeasured
  /\ roi # <<>> => RoiInImage

ShadowInit == latch = FALSE /\ report = Nothing /\ roi = <<>> /\ luma = 0 /\ gaps = <<>>

\* Fault: not clamped on the far side.
SpanUnclamped(at, size) == <<IF at > Radius THEN at - Radius ELSE 0, at + Radius>>

\* The clamped interval around a coordinate.
Span(at, size) == <<IF at > Radius THEN at - Radius ELSE 0,
                    IF at + Radius < size THEN at + Radius ELSE size>>

Roi(tip) == <<Span(tip[1], Size[1]), Span(tip[2], Size[2])>>

Usable(rect) == \A axis \in {1, 2} : rect[axis][2] - rect[axis][1] >= 3

Eligible(blobs) == {b \in blobs : b.area >= MinArea /\ b.area > 0 /\ b.shadowSide}

Gap(blobs) == LET near == {b.gap : b \in Eligible(blobs)}
              IN IF near = {} THEN NotFound ELSE CHOOSE g \in near : \A h \in near : g <= h

\* Fault: a shadow that is gone does not release.
LatchKept(gap) == IF gap = NotFound THEN latch
                  ELSE IF latch THEN gap <= GapOff ELSE gap < GapOn

Latch(gap) == IF gap = NotFound THEN FALSE
              ELSE IF latch THEN gap <= GapOff ELSE gap < GapOn

Confidence(l) == (IF l < AmbientMin THEN 3 ELSE 10) * (IF l < LumaRef THEN l ELSE LumaRef)

\* A frame that is empty or of another type, or a fingertip out of sight.
Skip(readable, tip) ==
  /\ ~readable \/ ~Usable(Roi(tip))
  /\ report' = Nothing /\ roi' = <<>>
  /\ UNCHANGED <<latch, luma, gaps>>

Measure(tip, blobs, l) ==
  /\ Usable(Roi(tip)) /\ Len(gaps) < MaxMeasured
  /\ LET gap == Gap(blobs) IN
     /\ latch' = Latch(gap)
     /\ report' = IF gap = NotFound THEN Nothing
                  ELSE [engaged |-> latch', confidence |-> Confidence(l), gap |-> gap]
     /\ gaps' = Append(gaps, gap)
  /\ roi' = Roi(tip) /\ luma' = l

ShadowNext ==
  \E tip \in Tips : \/ \E readable \in BOOLEAN : Skip(readable, tip)
                    \/ \E blobs \in SUBSET Blobs, l \in Lumas : Measure(tip, blobs, l)

ShadowSpec == ShadowInit /\ [][ShadowNext]_shadowVars

-----------------------------------------------------------------------------
\* The latch is the hysteresis over the frames measured: set exactly if the gap was
\* once below GapOn and a shadow was within GapOff ever since; and the engine acts on
\* a report for no other reason, and never on dark content, although its idea of
\* confidence is another process's (shadow_contact.cpp:66-87, contact_fusion.hpp:49-51).
LatchTellsTruth ==
  /\ latch <=> \E i \in DOMAIN gaps : /\ gaps[i] < GapOn
                                      /\ \A j \in i .. Len(gaps) : gaps[j] <= GapOff
  /\ Engine!ShadowTouch(report) => latch /\ luma >= AmbientMin
==============================================================================
