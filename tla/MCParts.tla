------------------------------- MODULE MCParts -------------------------------
(***************************************************************************)
(* The parts of the system that keep their own state and share none of it, *)
(* in one instance: in a behaviour only one of them runs, so that their    *)
(* state spaces add up and do not multiply.                                *)
(***************************************************************************)
EXTENDS TrackingGate, ShadowContact, PerfProbe, HefIntegrity,
        UiLink, Wire, Homography, PinchCalibration, Supervisor

VARIABLE part   \* the part that runs

helpers == <<gateVars, shadowVars, probeVars, hashVars>>
bus == <<linkVars, wireVars>>
rest == <<loadVars, samples, superVars>>
partsVars == <<part, helpers, bus, rest>>

\* The type invariant of each part, with the rectangle of the shadow channel inside the
\* image and the homography's answers on the surface.
PartsTypeOK == /\ GateTypeOK /\ ShadowTypeOK /\ ProbeTypeOK /\ HashTypeOK
               /\ LinkTypeOK /\ WireTypeOK /\ LoadTypeOK /\ SamplesTypeOK /\ SuperTypeOK

PartsInit ==
  /\ part \in {"gate", "shadow", "probe", "hash", "link", "wire", "load", "pinch", "super"}
  /\ GateInit /\ ShadowInit /\ ProbeInit /\ HashInit
  /\ LinkInit /\ WireInit /\ (part # "wire" => receiver = "engine") /\ LoadInit /\ SamplesInit /\ SuperInit

PartsNext ==
  /\ \/ /\ part = "gate" /\ GateNext
        /\ UNCHANGED <<shadowVars, probeVars, hashVars, bus, rest>>
     \/ /\ part = "shadow" /\ ShadowNext
        /\ UNCHANGED <<gateVars, probeVars, hashVars, bus, rest>>
     \/ /\ part = "probe" /\ ProbeNext
        /\ UNCHANGED <<gateVars, shadowVars, hashVars, bus, rest>>
     \/ /\ part = "hash" /\ HashNext
        /\ UNCHANGED <<gateVars, shadowVars, probeVars, bus, rest>>
     \/ /\ part = "link" /\ LinkNext
        /\ UNCHANGED <<helpers, wireVars, rest>>
     \/ /\ part = "wire" /\ WireNext
        /\ UNCHANGED <<helpers, linkVars, rest>>
     \/ /\ part = "load" /\ LoadNext
        /\ UNCHANGED <<helpers, bus, samples, superVars>>
     \/ /\ part = "pinch" /\ SamplesNext
        /\ UNCHANGED <<helpers, bus, loadVars, superVars>>
     \/ /\ part = "super" /\ SuperNext
        /\ UNCHANGED <<helpers, bus, loadVars, samples>>
  /\ UNCHANGED part

PartsSpec == PartsInit /\ [][PartsNext]_partsVars

-----------------------------------------------------------------------------
\* Fingertips within, at the border of and outside an image of 12 by 8; blobs too small,
\* on the wrong side, touching, between the thresholds and far.
MCSize == <<12, 8>>
MCTips == {<<-6, 4>>, <<0, 0>>, <<6, 4>>, <<11, 7>>, <<20, 4>>}
Blob(area, side, gap) == [area |-> area, shadowSide |-> side, gap |-> gap]
MCBlobs == {Blob(1, TRUE, 0), Blob(3, FALSE, 0), Blob(3, TRUE, 1), Blob(2, TRUE, 2), Blob(3, TRUE, 4)}

\* Entries of all signs, over a view of three by three points.
MCValues == -1 .. 1
==============================================================================
