-------------------------- MODULE PinchCalibration --------------------------
(***************************************************************************)
(* How the two thresholds of a pinch are derived from labelled samples of  *)
(* hands (tools/calibration/calibrate_pinch.py), and what the engine's     *)
(* ContactFusion makes of them.  Ratios are whole numbers; thresholds are  *)
(* counted in twentieths, in which midpoints and a tenth of one are whole  *)
(* too, until they are rounded to the places that are written out.         *)
(***************************************************************************)
EXTENDS Integers, Sequences, FiniteSets

CONSTANTS
  Ratios,      \* pinch ratios that occur
  Step,        \* thresholds are written as multiples of it, the fourth decimal
  MaxSamples   \* bound: samples recorded

ASSUME CalibrationAssumption == Ratios \subseteq Nat /\ Step \in Nat \ {0} /\ MaxSamples \in Nat

Contact(on, off) == INSTANCE ContactFusion WITH PinchOn <- on, PinchOff <- off, ShadowMin <- 0

VARIABLE samples   \* the dataset recorded so far

Labels == {"pinch", "release"}

RecordSample(ratio, label) == Len(samples) < MaxSamples
                              /\ samples' = Append(samples, [ratio |-> ratio, label |-> label])

SamplesTypeOK == samples \in Seq([ratio : Ratios, label : Labels]) /\ Len(samples) <= MaxSamples

SamplesInit == samples = <<>>

SamplesNext == \E r \in Ratios, l \in Labels : RecordSample(r, l)

SamplesSpec == SamplesInit /\ [][SamplesNext]_samples

-----------------------------------------------------------------------------
RatiosOf(s, labels) == {s[i].ratio : i \in {j \in DOMAIN s : s[j].label \in labels}}

Least(set) == CHOOSE x \in set : \A y \in set : x <= y
Greatest(set) == CHOOSE x \in set : \A y \in set : x >= y

\* How many samples of a label are above, or below, a threshold.
Count(s, label, below, thr) ==
  Cardinality({i \in DOMAIN s : s[i].label = label /\ (below <=> 20 * s[i].ratio < thr)})

Total(s, label) == Cardinality({i \in DOMAIN s : s[i].label = label})

\* Fault: the rates are not balanced.
AccuracyUnbalanced(s, thr) == Count(s, "pinch", TRUE, thr) + Count(s, "release", FALSE, thr)

\* Balanced accuracy, over the common denominator of the two rates.
Accuracy(s, thr) ==
  LET atLeastOne(n) == IF n = 0 THEN 1 ELSE n
  IN Count(s, "pinch", TRUE, thr) * atLeastOne(Total(s, "release"))
       + Count(s, "release", FALSE, thr) * atLeastOne(Total(s, "pinch"))

\* Midpoints of neighbouring ratios, or the only ratio.
Candidates(s) ==
  LET all == RatiosOf(s, Labels)
      next(r) == Least({q \in all : q > r})
  IN IF Cardinality(all) = 1 THEN {20 * r : r \in all}
     ELSE {10 * (r + next(r)) : r \in all \ {Greatest(all)}}

\* Python's max answers the first of the best.
Best(s) == Least({t \in Candidates(s) : \A u \in Candidates(s) : Accuracy(s, t) >= Accuracy(s, u)})

Margin(s) ==
  LET pinch == RatiosOf(s, {"pinch"})
      release == RatiosOf(s, {"release"})
      gap == 20 * (Least(release) - Greatest(pinch))
  IN IF pinch # {} /\ release # {} /\ gap > 0 THEN gap ELSE 0

\* The hysteresis: the gap, or by default a tenth of the threshold.
Room(s) == IF Margin(s) > 0 THEN Margin(s) ELSE Best(s) \div 10

\* round(): to the nearest multiple of Step, and to the even one in the middle.
Rounded(t) ==
  LET below == t \div Step
      rest == t % Step
  IN IF 2 * rest < Step \/ (2 * rest = Step /\ below % 2 = 0) THEN below * Step
     ELSE (below + 1) * Step

\* What is written: pinch_on_ratio and pinch_off_ratio.
On(s) == Rounded(Best(s))
Off(s) == Rounded(Best(s) + Room(s))

-----------------------------------------------------------------------------
\* Whether the engine, with the thresholds of the samples, takes one of them for a
\* pinch when it took the hand for one before, or did not.
Taken(i, before) == Contact(On(samples), Off(samples))!Pinched(before, 20 * samples[i].ratio)

\* What the thresholds of a dataset are good for: rounding never puts the release
\* threshold below the other one.  There is room between them, "a usable hysteresis"
\* (test_calibrate_pinch.py:42), if the gap between the labels, or a tenth of the threshold
\* where the labels overlap, is wider than what rounding moves; samples closer than that,
\* or all at ratio 0, may have none.  With such a gap the engine engages on the samples
\* labelled pinch and on no others when it comes from an open hand, and lets go of none of
\* them.  How often a label was recorded does not move the thresholds
\* (calibrate_pinch.py:39-52, 68-84, contact_fusion.hpp:16-17).
UsableThresholds ==
  LET again == {-i : i \in {j \in DOMAIN samples : samples[j].label = "release"}}
      twice == [i \in DOMAIN samples \cup again |-> IF i < 0 THEN samples[-i] ELSE samples[i]]
  IN samples # <<>> =>
       /\ Off(samples) >= On(samples)
       /\ Room(samples) > Step => Off(samples) > On(samples)
       /\ Margin(samples) > Step =>
            \A i \in DOMAIN samples :
              /\ Taken(i, FALSE) <=> samples[i].label = "pinch"
              /\ samples[i].label = "pinch" => Taken(i, TRUE)
       /\ On(twice) = On(samples) /\ Off(twice) = Off(samples)
==============================================================================
