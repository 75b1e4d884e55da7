---------------------------- MODULE ContactFusion ----------------------------
(***************************************************************************)
(* The engage decision N4 (include/engine/contact_fusion.hpp): pinch with  *)
(* hysteresis first, the shadow channel as a fallback when it is confident *)
(* enough.                                                                 *)
(***************************************************************************)
EXTENDS Integers

CONSTANTS PinchOn, PinchOff, ShadowMin   \* the three thresholds of ContactConfig

ASSUME HysteresisAssumption ==
  PinchOn \in Nat /\ PinchOff \in Nat /\ ShadowMin \in Nat /\ PinchOn <= PinchOff

\* A null shadow pointer decides as a shadow that is not engaged.
NoShadow == [engaged |-> FALSE, confidence |-> 0]

Pinched(was, ratio) == IF was THEN ratio <= PinchOff ELSE ratio < PinchOn

ShadowTouch(shadow) == shadow.engaged /\ shadow.confidence >= ShadowMin

Engages(pinched, shadow) == pinched \/ ShadowTouch(shadow)
==============================================================================
