--------------------------- MODULE GestureProtocol ---------------------------
(***************************************************************************)
(* What the gesture recogniser promises to whoever consumes its events:    *)
(* the grammar of the stream of GestureEvent types, frame by frame.  A     *)
(* drag is a bracket DRAG_BEGIN ... DRAG_END.  Inside it no other pointer  *)
(* gesture is reported; outside it at most one is reported per frame.  The *)
(* two whole-hand shapes HOME and BACK are detected independently, so one  *)
(* of them may precede the pointer gesture of the frame, also while a drag *)
(* is open.                                                                *)
(***************************************************************************)
EXTENDS Sequences

VARIABLES
  dragging,   \* is a drag bracket open?
  pointing,   \* did the last frame show a hand, hence a pointer?
  events      \* the event types reported by the last frame, oldest first

pvars == <<dragging, pointing, events>>

\* Pointer gestures complete in one event (the drag pair is treated apart).
Clicks == {"TAP", "LONG_PRESS", "DWELL_SELECT", "SWIPE"}

\* What may precede the pointer gesture of a frame.
Shapes == {<<>>, <<"HOME">>, <<"BACK">>}

PInit == dragging = FALSE /\ pointing \in BOOLEAN /\ events = <<>>

\* No pointer gesture is complete, nor begun.
Silence == \E s \in Shapes : events' = s /\ UNCHANGED dragging

\* A complete pointer gesture, only while no drag is open.
Click == /\ ~dragging
         /\ \E s \in Shapes, c \in Clicks : events' = Append(s, c)
         /\ UNCHANGED dragging

OpenDrag == /\ ~dragging
            /\ \E s \in Shapes : events' = Append(s, "DRAG_BEGIN")
            /\ dragging' = TRUE

CloseDrag == /\ dragging
             /\ \E s \in Shapes : events' = Append(s, "DRAG_END")
             /\ dragging' = FALSE

HandInSight == pointing' = TRUE /\ (Silence \/ Click \/ OpenDrag \/ CloseDrag)

\* A frame without a hand closes an open drag and reports nothing else.
NoHand == /\ pointing' = FALSE
          /\ events' = IF dragging THEN <<"DRAG_END">> ELSE <<>>
          /\ dragging' = FALSE

PNext == HandInSight \/ NoHand

PSpec == PInit /\ [][PNext]_pvars
==============================================================================
