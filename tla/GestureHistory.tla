---------------------------- MODULE GestureHistory ----------------------------
(***************************************************************************)
(* GestureFsm observed by history variables that follow the hand and the   *)
(* events without looking at the recogniser's state.  They say what the    *)
(* hand really did before an event was reported, so that the properties    *)
(* below relate an event to the frames that led to it.                     *)
(***************************************************************************)
EXTENDS GestureFsm

VARIABLES
  busy,      \* busy[q]: last time the hand was absent, in contact or away from q
  strayed,   \* strayed[q]: last time the hand was absent or beyond DragEps of q
  holding,   \* time of the first frame of the unbroken contact going on
  longed,    \* was a LONG_PRESS reported in the contact going on?
  lastOut    \* time of the last event

history == <<busy, strayed, holding, longed, lastOut>>

Near(p, q, radius) == Dist[<<p, q>>] <= radius

Reports(type) == out' # <<>> /\ out'[1].type = type

Observe ==
  /\ busy' = [q \in Pos |-> IF /\ frame'.present /\ ~frame'.engaged
                               /\ Near(frame'.pos, q, DwellMove)
                            THEN busy[q] ELSE now']
  /\ strayed' = [q \in Pos |-> IF frame'.present /\ Near(frame'.pos, q, DragEps)
                               THEN strayed[q] ELSE now']
  /\ holding' = IF frame.engaged THEN holding ELSE now'
  /\ longed' = (frame'.engaged /\ (longed \/ Reports("LONG_PRESS")))
  /\ lastOut' = IF out' = <<>> THEN lastOut ELSE now'

HInit == /\ Init
         /\ busy = [q \in Pos |-> 0] /\ strayed = [q \in Pos |-> 0]
         /\ holding = 0 /\ longed = FALSE /\ lastOut = 0

HNext == Next /\ Observe

hvars == <<vars, history>>

HSpec == HInit /\ [][HNext]_hvars

-----------------------------------------------------------------------------
Times == 0 .. now

\* What the anchors of the recogniser stand for, in terms of the hand: since the
\* dwell anchor was set the hand has stayed near it, free of contact, and since
\* contact was anchored it has not been broken nor strayed from the anchor;
\* in both cases nothing has been reported (gesture_fsm.cpp:31-88).
AnchorsTellTruth ==
  /\ busy \in [Pos -> Times] /\ strayed \in [Pos -> Times]
  /\ holding \in Times /\ longed \in BOOLEAN /\ lastOut \in Times
  /\ state = "Tracking" => busy[dwell.pos] <= dwell.at /\ lastOut <= dwell.at
  /\ state = "Engaged" => /\ frame.engaged /\ holding <= engage.at
                          /\ strayed[engage.pos] <= engage.at
                          /\ lastOut <= engage.at

\* A DWELL_SELECT is reported only after the hand has stayed, free of contact,
\* around one point for more than TDwell, whatever the recogniser went through
\* before (gesture_fsm.cpp:44-49 and the anchor resets on lines 33, 60, 67, 76, 86).
DwellEarned ==
  [][Reports("DWELL_SELECT") =>
       \E q \in Pos : Near(frame'.pos, q, DwellMove) /\ now' - busy'[q] > TDwell]_hvars

\* A LONG_PRESS is reported only after more than TLong of unbroken contact
\* within DragEps of the reported point (gesture_fsm.cpp:53, 61-65).
LongEarned ==
  [][Reports("LONG_PRESS") => /\ now' - holding' > TLong
                              /\ now' - strayed'[out'[1].pos] > TLong]_hvars

\* The timed gestures never fire in bursts: a DWELL_SELECT comes more than
\* TDwell, a LONG_PRESS more than TLong, after the event before it, whatever
\* that was (the anchors are "consumed", gesture_fsm.cpp:48 and 66-67).
TimedEventsSpaced ==
  [][/\ Reports("DWELL_SELECT") => now' - lastOut > TDwell
     /\ Reports("LONG_PRESS") => now' - lastOut > TLong]_hvars

\* A long press uses its contact up ("consume", gesture_fsm.cpp:66; and TAP is a
\* "quick release", docs/ARCHITECTURE.md:69): the contact it was reported for
\* does not end in a TAP as well.  The code breaks it: LONG_PRESS returns to
\* Tracking, the next frame engages afresh although contact never ended, and a
\* release soon after is a TAP.
LongPressConsumed == [][Reports("TAP") => ~longed]_hvars
==============================================================================
