----------------------------- MODULE Homography -----------------------------
(***************************************************************************)
(* The calibration of the engine: how its file is loaded (load_homography, *)
(* main.cpp:26-32, 39-46), entry by entry into the matrix that is already  *)
(* in use, and how the matrix maps the camera to the surface               *)
(* (homography_map.hpp).  Entries are whole numbers, coordinates and       *)
(* answers whole numbers of Units, the clamp to [0, 1] one to [0, Units].  *)
(***************************************************************************)
EXTENDS Integers, Sequences

CONSTANTS
  Values,   \* numbers in a calibration file
  Units     \* the length of a side, of the camera's view and of the surface

ASSUME HomographyAssumption == {0, 1} \subseteq Values /\ Values \subseteq Int /\ Units \in Nat \ {0}

VARIABLES
  h,        \* Homography::h, row by row, in place from the start
  status,   \* what has become of the file
  file      \* history: the numbers read from it

loadVars == <<h, status, file>>

Identity == <<1, 0, 0, 0, 1, 0, 0, 0, 1>>

LoadInit == h = Identity /\ status = "unset" /\ file = <<>>

\* NUI_CALIB names a file, which may not be there.
OpenFile == /\ status = "unset"
            /\ status' \in {"reading", "failed"}
            /\ UNCHANGED <<h, file>>

\* The entry the i-th number of the file is for.
Entry(i) == i

ReadEntry(v) == /\ status = "reading"
                /\ h' = [h EXCEPT ![Entry(Len(file) + 1)] = v]
                /\ file' = Append(file, v)
                /\ status' = IF Len(file) + 1 = 9 THEN "loaded" ELSE "reading"

\* What is no number is stored as zero; at the end of the file nothing is stored.
ReadFails == /\ status = "reading"
             /\ h' \in {h, [h EXCEPT ![Entry(Len(file) + 1)] = 0]}
             /\ status' = "failed"
             /\ file' = file

LoadNext == OpenFile \/ ReadFails \/ \E v \in Values : ReadEntry(v)

LoadSpec == LoadInit /\ [][LoadNext]_loadVars

-----------------------------------------------------------------------------
Clamped(n) == IF n > Units THEN Units ELSE IF n < 0 THEN 0 ELSE n

Row(m, r, x, y) == m[r] * x + m[r + 1] * y + m[r + 2] * Units

\* Fault: everything behind the horizon counts as on it.
QuotientInFront(n, dz) == IF dz <= 0 THEN IF n > 0 THEN Units ELSE 0
                          ELSE Clamped((n * Units) \div dz)

\* On the horizon the denominator becomes tiny and positive: only the sign counts.
Quotient(n, dz) == IF dz = 0 THEN IF n > 0 THEN Units ELSE 0
                   ELSE LET sign == IF dz < 0 THEN -1 ELSE 1
                        IN Clamped((sign * n * Units) \div (sign * dz))

Map(m, x, y) == LET dz == Row(m, 7, x, y)
                IN <<Quotient(Row(m, 1, x, y), dz), Quotient(Row(m, 4, x, y), dz)>>

-----------------------------------------------------------------------------
View == 0 .. Units

\* The type invariant: every point of the view falls on the surface, whatever part of
\* a file is loaded (homography_map.hpp:15-23).
LoadTypeOK ==
  /\ h \in [1 .. 9 -> Values] /\ file \in Seq(Values) /\ Len(file) <= 9
  /\ status \in {"unset", "reading", "loaded", "failed"}
  /\ \A x, y \in View : Map(h, x, y) \in View \X View

\* A homography has no scale: a file that is reported as loaded maps each point that
\* is not on the horizon to the same place as the numbers written in it, multiplied
\* by any number but zero, a negative one too (main.cpp:26-32, homography_map.hpp:17-20).
ScaleFree ==
  status = "loaded" =>
    \A k \in {-1, 1, 2} : \A x, y \in View :
      LET multiple == [i \in 1 .. 9 |-> k * file[i]]
      IN Row(h, 7, x, y) # 0 => Map(multiple, x, y) = Map(h, x, y)
==============================================================================
