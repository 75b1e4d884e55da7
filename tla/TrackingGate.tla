---------------------------- MODULE TrackingGate ----------------------------
(***************************************************************************)
(* When perception runs palm detection (perception/tracking_gate.hpp): on  *)
(* frames without a tracked hand, and now and then although one is         *)
(* tracked.  The caller asks at the start of a frame and tells the result  *)
(* of its landmarks at the end, unless it drops the frame.                 *)
(***************************************************************************)
EXTENDS Integers, Sequences

CONSTANTS
  Redetect,    \* redetect_interval, 0 for never
  MaxFrames    \* bound: frames begun

ASSUME GateAssumption == Redetect \in Nat /\ MaxFrames \in Nat

VARIABLES
  tracking, since,  \* tracking_, frames_since_detect_
  ran,              \* history: for each frame, the answer of begin_frame
  told              \* history: for each frame, "hand", "none", or "dropped" if nothing was told

gateVars == <<tracking, since, ran, told>>

GateTypeOK == /\ tracking \in BOOLEAN /\ since \in 0 .. MaxFrames
              /\ ran \in Seq(BOOLEAN) /\ told \in Seq({"hand", "none", "dropped"})
              /\ Len(ran) <= MaxFrames /\ Len(told) = Len(ran)

GateInit == tracking = FALSE /\ since = 0 /\ ran = <<>> /\ told = <<>>

Due == ~tracking \/ (Redetect > 0 /\ since >= Redetect)

\* Fault: only the frames of the interval are counted anew, not those of a new hand.
CountedOn == IF tracking /\ Due THEN 0 ELSE since + 1

Counted == IF Due THEN 0 ELSE since + 1

BeginFrame ==
  /\ Len(ran) < MaxFrames
  /\ since' = Counted
  /\ ran' = Append(ran, Due) /\ told' = Append(told, "dropped")
  /\ UNCHANGED tracking

\* Once per frame.  A presence below presence_min is no presence.
Observe(valid, present) ==
  /\ told # <<>> /\ told[Len(told)] = "dropped"
  /\ tracking' = (valid /\ present)
  /\ told' = [told EXCEPT ![Len(told)] = IF valid /\ present THEN "hand" ELSE "none"]
  /\ UNCHANGED <<since, ran>>

GateNext == BeginFrame \/ \E valid, present \in BOOLEAN : Observe(valid, present)

GateSpec == GateInit /\ [][GateNext]_gateVars

-----------------------------------------------------------------------------
\* The last frame before the k-th that told anything told of a hand.
HandBefore(k) == \E j \in 1 .. k - 1 : /\ told[j] = "hand"
                                       /\ \A i \in j + 1 .. k - 1 : told[i] = "dropped"

\* Palm detection runs where it must and nowhere else, whatever frames are dropped and
\* hands lost in between: it is skipped for a hand that the last frame that told anything
\* told of, and for Redetect frames after it ran, not one more or less.  Each (Redetect +
\* 1)-th frame of a hand that stays runs it, where tracking_gate.hpp:18 has "every N
\* frames" (tracking_gate.hpp:26-37).
DetectsInTime ==
  \A k \in DOMAIN ran :
    ran[k] <=> \/ ~HandBefore(k)
               \/ /\ Redetect > 0 /\ k > Redetect
                  /\ \A j \in k - Redetect .. k - 1 : ~ran[j]
=============================================================================
