------------------------------- MODULE OneEuro -------------------------------
(***************************************************************************)
(* One axis of the 1 euro filter (include/engine/filter_1euro.hpp).  After *)
(* a positive step the smoothing factor lies strictly between 0 and 1      *)
(* whatever the cutoff, so the filtered value is some value between the    *)
(* last one and the sample; which one is left open.  The filter answers    *)
(* its first sample directly and the low-pass inside it sees, and answers, *)
(* only the second.                                                        *)
(***************************************************************************)
EXTENDS Integers

CONSTANT Coord   \* what a filtered coordinate may be

\* seen: has_prev_;  primed: xf_.has_prev_;  last: xf_.prev_
Axis == [seen : BOOLEAN, primed : BOOLEAN, last : Coord]

FilterReset == [seen |-> FALSE, primed |-> FALSE, last |-> 0]

Between(a, b) == {x \in a .. b : a <= b} \cup {x \in b .. a : b <= a}

\* The step the filter counts with, when t - prev_t_ is dt.
StepOf(dt) == IF dt <= 0 THEN 1 ELSE dt

\* What filter(x, t) may answer: anything, had it to divide by a step that is not positive.
Answers(axis, x, dt) ==
  IF ~axis.primed THEN {x}
  ELSE IF StepOf(dt) > 0 THEN Between(axis.last, x) ELSE Coord

\* The filter after it answered y.
Filtered(axis, y) ==
  IF axis.seen THEN [seen |-> TRUE, primed |-> TRUE, last |-> y]
  ELSE [axis EXCEPT !.seen = TRUE]
==============================================================================
