------------------------------ MODULE GestureFsm ------------------------------
(***************************************************************************)
(* The gesture recogniser of the engine, class GestureFsm                  *)
(* (services/engine/src/gesture_fsm.cpp).  One call of update() consumes    *)
(* one frame of the hand stream; each branch of its switch is one action   *)
(* here.  Positions are abstract points of the projected surface with a    *)
(* distance between them; time is counted in whole ticks; the speed of the *)
(* hand is abstracted to the three classes the code tells apart.           *)
(***************************************************************************)
EXTENDS Integers, Sequences

CONSTANTS
  Pos,         \* points of the surface
  Origin,      \* the point (0,0), where every anchor starts
  Dist,        \* Dist[<<p, q>>]: distance between two points
  TDwell,      \* t_dwell_s
  TLong,       \* t_long_s
  TapMax,      \* tap_max_s
  TapMove,     \* tap_move
  DragEps,     \* drag_eps
  DwellMove,   \* dwell_move
  MinStep, MaxStep,  \* bounds: ticks between two frames
  MaxTime      \* bound: ticks explored

ASSUME PosAssumption ==
  /\ Origin \in Pos
  /\ Dist \in [Pos \X Pos -> Nat]
  /\ \A p \in Pos : Dist[<<p, p>>] = 0

ASSUME ThresholdAssumption ==
  /\ TDwell \in Nat /\ TLong \in Nat /\ TapMax \in Nat
  /\ TapMove \in Nat /\ DragEps \in Nat /\ DwellMove \in Nat

ASSUME BoundAssumption == MinStep \in Nat /\ MaxStep \in Nat /\ MaxTime \in Nat

States == {"Idle", "Tracking", "Engaged", "Dragging", "Swipe"}

\* settled: speed < swipe_speed * 0.5;  fast: speed > swipe_speed.
Paces == {"settled", "moving", "fast"}

Types == {"TAP", "DWELL_SELECT", "LONG_PRESS", "DRAG_BEGIN", "DRAG_END", "SWIPE"}

\* The arguments of one call of update(), but for the time.
Frame == [present : BOOLEAN, pos : Pos, pace : Paces, engaged : BOOLEAN]

Stamp == [pos : Pos, at : 0 .. MaxTime]

\* A gesture event: type, position, and the point its param0 (the direction
\* of a swipe) is measured from; from = pos stands for param0 = 0.
Gesture == [type : Types, pos : Pos, from : Pos]

VARIABLES
  state,    \* state_
  engage,   \* engage_u_, engage_v_, engage_t_
  dwell,    \* dwell_u_, dwell_v_, dwell_t_
  swipe,    \* swipe_u_, swipe_v_
  frame,    \* the arguments of the last call
  now,      \* the time of the last call
  out       \* the events the last call appended

fsmVars == <<state, engage, dwell, swipe>>
vars == <<state, engage, dwell, swipe, frame, now, out>>

TypeOK ==
  /\ state \in States
  /\ engage \in Stamp /\ dwell \in Stamp
  /\ swipe \in Pos
  /\ frame \in Frame
  /\ now \in 0 .. MaxTime
  /\ out \in {<<>>} \cup {<<g>> : g \in Gesture}

-----------------------------------------------------------------------------
mk(type, p, from) == [type |-> type, pos |-> p, from |-> from]

Quiet == out' = <<>>
\* Fault: events of the call before are not cleared.
EmitKept(type, p) == out' = Append(out, mk(type, p, p))
Emit(type, p) == out' = <<mk(type, p, p)>>

Anchor(p, t) == [pos |-> p, at |-> t]

\* Fault: the dwell anchor is never reset.
RestKeepingAnchor(f, t) == state' = "Tracking" /\ UNCHANGED <<engage, dwell, swipe>>

\* Back to (or still in) Tracking, where dwell counting starts over.
Rest(f, t) == /\ state' = "Tracking"
              /\ dwell' = Anchor(f.pos, t)
              /\ UNCHANGED <<engage, swipe>>

Moved(f, stamp) == Dist[<<f.pos, stamp.pos>>]

\* Fault: a lost hand does not close its drag.
LostDropsDrag(f, t) ==
  ~f.present /\ Quiet /\ state' = "Idle" /\ UNCHANGED <<engage, dwell, swipe>>

\* The hand is not seen in the frame: close an open drag, forget the rest.
Lost(f, t) == /\ ~f.present
              /\ IF state = "Dragging" THEN Emit("DRAG_END", f.pos) ELSE Quiet
              /\ state' = "Idle"
              /\ UNCHANGED <<engage, dwell, swipe>>

Acquire(f, t) == f.present /\ state = "Idle" /\ Quiet /\ Rest(f, t)

\* Fault: the time of contact is not recorded.
PressKeepsTime(f, t) ==
  /\ f.present /\ state = "Tracking" /\ f.engaged
  /\ state' = "Engaged" /\ engage' = [engage EXCEPT !.pos = f.pos]
  /\ Quiet /\ UNCHANGED <<dwell, swipe>>

\* Contact begins.
Press(f, t) == /\ f.present /\ state = "Tracking" /\ f.engaged
               /\ state' = "Engaged" /\ engage' = Anchor(f.pos, t)
               /\ Quiet /\ UNCHANGED <<dwell, swipe>>

StartSwipe(f, t) == /\ f.present /\ state = "Tracking" /\ ~f.engaged /\ f.pace = "fast"
                    /\ state' = "Swipe" /\ swipe' = f.pos
                    /\ Quiet /\ UNCHANGED <<engage, dwell>>

Hovering(f) == f.present /\ state = "Tracking" /\ ~f.engaged /\ f.pace # "fast"

\* The hand left the neighbourhood of the dwell anchor: the anchor follows.
Wander(f, t) == Hovering(f) /\ Moved(f, dwell) > DwellMove /\ Quiet /\ Rest(f, t)

\* Fault: a dwell is not consumed.
DwellSelectRepeats(f, t) ==
  /\ Hovering(f) /\ Moved(f, dwell) <= DwellMove /\ t - dwell.at > TDwell
  /\ Emit("DWELL_SELECT", f.pos) /\ state' = "Tracking" /\ UNCHANGED <<engage, dwell, swipe>>

DwellSelect(f, t) == /\ Hovering(f) /\ Moved(f, dwell) <= DwellMove
                     /\ t - dwell.at > TDwell
                     /\ Emit("DWELL_SELECT", f.pos) /\ Rest(f, t)

\* Fault: the dwell anchor survives contact.
ReleaseKeepsAnchor(f, t) ==
  /\ f.present /\ state = "Engaged" /\ ~f.engaged
  /\ IF t - engage.at <= TapMax /\ Moved(f, engage) <= TapMove
     THEN Emit("TAP", engage.pos) ELSE Quiet
  /\ state' = "Tracking" /\ UNCHANGED <<engage, dwell, swipe>>

\* Contact ends without a drag: a tap if it was short and still.
Release(f, t) == /\ f.present /\ state = "Engaged" /\ ~f.engaged
                 /\ IF t - engage.at <= TapMax /\ Moved(f, engage) <= TapMove
                    THEN Emit("TAP", engage.pos) ELSE Quiet
                 /\ Rest(f, t)

Pressing(f) == f.present /\ state = "Engaged" /\ f.engaged

DragBegin(f, t) == /\ Pressing(f) /\ Moved(f, engage) > DragEps
                   /\ Emit("DRAG_BEGIN", engage.pos)
                   /\ state' = "Dragging" /\ UNCHANGED <<engage, dwell, swipe>>

LongPress(f, t) == /\ Pressing(f) /\ Moved(f, engage) <= DragEps
                   /\ t - engage.at > TLong
                   /\ Emit("LONG_PRESS", engage.pos) /\ Rest(f, t)

DragEnd(f, t) == /\ f.present /\ state = "Dragging" /\ ~f.engaged
                 /\ Emit("DRAG_END", f.pos) /\ Rest(f, t)

SwipeSettle(f, t) == /\ f.present /\ state = "Swipe" /\ f.pace = "settled"
                     /\ out' = <<mk("SWIPE", f.pos, swipe)>> /\ Rest(f, t)

\* A frame with a hand that changes nothing.
Wait(f, t) ==
  /\ \/ Hovering(f) /\ Moved(f, dwell) <= DwellMove /\ t - dwell.at <= TDwell
     \/ Pressing(f) /\ Moved(f, engage) <= DragEps /\ t - engage.at <= TLong
     \/ f.present /\ state = "Dragging" /\ f.engaged
     \/ f.present /\ state = "Swipe" /\ f.pace # "settled"
  /\ Quiet /\ UNCHANGED fsmVars

\* One call of update(present, u, v, speed, engaged, t, out).
Update(f, t) ==
  \/ Lost(f, t) \/ Acquire(f, t) \/ Press(f, t) \/ StartSwipe(f, t)
  \/ Wander(f, t) \/ DwellSelect(f, t)
  \/ Release(f, t) \/ DragBegin(f, t) \/ LongPress(f, t)
  \/ DragEnd(f, t) \/ SwipeSettle(f, t) \/ Wait(f, t)

FsmInit ==
  /\ state = "Idle"
  /\ engage = Anchor(Origin, 0) /\ dwell = Anchor(Origin, 0) /\ swipe = Origin
  /\ out = <<>>

-----------------------------------------------------------------------------
(***************************************************************************)
(* The caller (EngineCore::update): times never go back, and a frame       *)
(* without a hand repeats the position of the frame before, with no speed  *)
(* and no contact.                                                         *)
(***************************************************************************)
Absent(p) == [present |-> FALSE, pos |-> p, pace |-> "settled", engaged |-> FALSE]

Inputs == {f \in Frame : f.present} \cup {Absent(frame.pos)}

Init == FsmInit /\ frame = Absent(Origin) /\ now = 0

Next ==
  \E f \in Inputs, d \in MinStep .. MaxStep :
    /\ now + d <= MaxTime
    /\ now' = now + d
    /\ frame' = f
    /\ Update(f, now + d)

Spec == Init /\ [][Next]_vars

-----------------------------------------------------------------------------
\* While the hand hovers, no dwell is overdue: after every frame the hand is
\* within DwellMove of the anchor and the anchor is at most TDwell old
\* (gesture_fsm.cpp:44-49, and every path back into Tracking).
DwellPending ==
  state = "Tracking" => /\ now - dwell.at <= TDwell
                        /\ Moved(frame, dwell) <= DwellMove

\* While contact lasts, neither a drag nor a long press is overdue: after every
\* frame the hand is within DragEps of the point of contact and the contact is
\* at most TLong old (gesture_fsm.cpp:61-68).
PressPending ==
  state = "Engaged" => /\ now - engage.at <= TLong
                       /\ Moved(frame, engage) <= DragEps

\* Nothing the recogniser waits for is overdue after a frame, whatever the times
\* between frames (gesture_fsm.cpp:39-84).
NeverOverdue == DwellPending /\ PressPending

Protocol == INSTANCE GestureProtocol
  WITH dragging <- state = "Dragging", pointing <- frame.present,
       events <- [i \in DOMAIN out |-> out[i].type]

\* The event stream follows the grammar of GestureProtocol: every DRAG_BEGIN is
\* closed by a DRAG_END, on release or when the hand is lost, and no other
\* pointer gesture is reported in between (gesture_fsm.cpp:23-28, 61-79).
GrammarKept == Protocol!PSpec
==============================================================================
