---------------------------- MODULE EngineHistory ----------------------------
(***************************************************************************)
(* EngineCore observed by history variables about the hand itself: what    *)
(* perception reported since the hand appeared, and since when it has held *)
(* a shape.                                                                *)
(***************************************************************************)
EXTENDS EngineCore

VARIABLES
  appeared,   \* time of the first frame of the hand in sight
  tips,       \* index tips reported since then
  gripped,    \* has this hand closed a pinch since then?
  notOpen,    \* last time the hand was not an open palm, or HOME was reported
  notFist,    \* last time the hand was not a fist, or BACK was reported
  shown       \* position of the last pointer event

noted == <<appeared, tips, gripped, notOpen, notFist, shown>>

Sent(type) == \E i \in DOMAIN gestures' : gestures'[i].type = type

NoteNoHand == /\ tips' = {} /\ gripped' = FALSE
              /\ notOpen' = now' /\ notFist' = now'
              /\ UNCHANGED <<appeared, shown>>

NoteHand(h) ==
  /\ appeared' = IF frame.present THEN appeared ELSE now'
  /\ tips' = tips \cup {h.tip} /\ gripped' = (gripped \/ h.ratio < PinchOn)
  /\ notOpen' = IF IsOpen(h) /\ ~Sent("HOME") THEN notOpen ELSE now'
  /\ notFist' = IF IsFist(h) /\ ~Sent("BACK") THEN notFist ELSE now'
  /\ shown' = pointer'[1]

NInit == /\ CoreInit
         /\ appeared = 0 /\ tips = {} /\ gripped = FALSE
         /\ notOpen = 0 /\ notFist = 0 /\ shown = Origin

NNext ==
  \E d \in MinStep .. MaxStep :
    /\ now + d <= MaxTime
    /\ now' = now + d
    /\ \/ HandGone(now + d) /\ NoteNoHand
       \/ \E h \in Hands, s \in Shadows : HandSeen(h, s, now + d) /\ NoteHand(h)

nvars == <<allVars, noted>>

NSpec == NInit /\ [][NNext]_nvars

-----------------------------------------------------------------------------
\* The pair of coordinates lies in the box spanned by the tips.
InBox(c) ==
  /\ \E a, b \in tips : a[1] <= c[1] /\ c[1] <= b[1]
  /\ \E a, b \in tips : a[2] <= c[2] /\ c[2] <= b[2]

\* "A hand reappearing elsewhere does not inherit a stale filtered position or
\* engage state" (engine_core.cpp:24-25): the pointer lies among the positions
\* of the hand in sight, however close its frames, a pinch was closed by this
\* hand, and no clock that can still fire was started before the hand appeared.
NothingInherited ==
  frame.present =>
    /\ \E c \in Coord \X Coord : InBox(c) /\ pointer = <<Surface[c]>>
    /\ pinched => gripped
    /\ open.active => open.since >= appeared
    /\ fist.active => fist.since >= appeared
    /\ state = "Tracking" => dwell.at >= appeared
    /\ state = "Engaged" => engage.at >= appeared

\* HOME is reported only after the palm has been open for more than THome in
\* every frame, none of them before the last HOME; BACK likewise for the fist
\* (engine_core.cpp:52-75).
ShapesEarned ==
  [][/\ Sent("HOME") => now' - notOpen > THome
     /\ Sent("BACK") => now' - notFist > TBack]_nvars

\* A drag ends where the pointer was last shown, also when the hand is lost
\* (engine_core.cpp:20-21, 81-86).
DragEndsWhereShown ==
  [][\A i \in DOMAIN gestures' :
       gestures'[i].type = "DRAG_END" => gestures'[i].pos = shown']_nvars
==============================================================================
