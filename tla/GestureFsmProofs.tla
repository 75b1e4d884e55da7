--------------------------- MODULE GestureFsmProofs ---------------------------
(***************************************************************************)
(* Proofs about GestureFsm for every set of points, distance, threshold    *)
(* and bound.                                                              *)
(***************************************************************************)
EXTENDS GestureHistory, TLAPS

USE DEF Anchor, Moved, mk, Quiet, Emit

\* One call of update() with an input the caller may give, at a later time.
Call(f, t) ==
  /\ f \in Frame
  /\ t \in Nat /\ now <= t /\ t <= MaxTime
  /\ now' = t /\ frame' = f
  /\ Update(f, t)

\* Every step of Next is a call with well-formed arguments.
LEMMA NextIsCall ==
  ASSUME TypeOK, Next
  PROVE  \E f \in Frame, t \in Nat : Call(f, t)
<1>1. PICK f \in Inputs, d \in MinStep .. MaxStep :
        now + d <= MaxTime /\ now' = now + d /\ frame' = f /\ Update(f, now + d)
  BY DEF Next
<1>2. f \in Frame
  <2>1. frame.pos \in Pos
    BY DEF TypeOK, Frame
  <2>2. Absent(frame.pos) \in Frame
    BY <2>1 DEF Absent, Frame, Paces
  <2> QED
    BY <2>2 DEF Inputs
<1>3. now + d \in Nat /\ now <= now + d
  BY BoundAssumption DEF TypeOK
<1> QED
  BY <1>1, <1>2, <1>3 DEF Call

\* A gesture event made of known points is well-formed.
LEMMA EventType ==
  ASSUME NEW type \in Types, NEW p \in Pos, NEW q \in Pos
  PROVE  <<[type |-> type, pos |-> p, from |-> q]>> \in {<<g>> : g \in Gesture}
BY DEF Gesture

\* update() keeps every field of the recogniser of its type.
LEMMA CallKeepsType ==
  ASSUME TypeOK, NEW f, NEW t, Call(f, t)
  PROVE  TypeOK'
<1> USE DEF Frame, Stamp
<1>1. f \in Frame /\ t \in 0 .. MaxTime /\ now' \in 0 .. MaxTime /\ frame' \in Frame
  BY BoundAssumption DEF Call
<1>2. /\ state \in States /\ engage \in Stamp /\ dwell \in Stamp /\ swipe \in Pos
      /\ engage.pos \in Pos /\ f.pos \in Pos /\ [pos |-> f.pos, at |-> t] \in Stamp
  BY <1>1 DEF TypeOK
<1>3. /\ state' \in States /\ engage' \in Stamp /\ dwell' \in Stamp /\ swipe' \in Pos
  <2>1. Update(f, t)
    BY DEF Call
  <2> QED
    BY <1>2, <2>1 DEF Update, Lost, Acquire, Press, StartSwipe, Wander, DwellSelect,
       Release, DragBegin, LongPress, DragEnd, SwipeSettle, Wait, Rest, fsmVars, States
<1>4. out' \in {<<>>} \cup {<<g>> : g \in Gesture}
  <2>1. Update(f, t)
    BY DEF Call
  <2> QED
    BY <1>2, <2>1, EventType DEF Update, Lost, Acquire, Press, StartSwipe, Wander,
       DwellSelect, Release, DragBegin, LongPress, DragEnd, SwipeSettle, Wait, Rest, Types
<1> QED
  BY <1>1, <1>3, <1>4 DEF TypeOK

\* Every state of the recogniser is well-typed, for every value of the constants.
THEOREM TypeCorrect == Spec => []TypeOK
<1>1. Init => TypeOK
  BY PosAssumption, BoundAssumption
     DEF Init, FsmInit, TypeOK, States, Stamp, Frame, Absent, Paces
<1>2. TypeOK /\ [Next]_vars => TypeOK'
  <2>1. CASE Next
    BY <2>1, NextIsCall, CallKeepsType
  <2>2. CASE UNCHANGED vars
    BY <2>2 DEF vars, TypeOK
  <2> QED
    BY <2>1, <2>2
<1> QED
  BY <1>1, <1>2, PTL DEF Spec

-----------------------------------------------------------------------------
\* After any call the hand is not overdue for a dwell, a drag or a long press:
\* what update() leaves behind does not depend on what it found.
LEMMA CallMeetsDeadlines ==
  ASSUME TypeOK, NEW f, NEW t, Call(f, t)
  PROVE  DwellPending' /\ PressPending'
<1>1. /\ f.pos \in Pos /\ f.present \in BOOLEAN /\ t \in Nat
      /\ now' = t /\ frame' = f
  BY DEF Call, Frame
<1>2. Dist[<<f.pos, f.pos>>] = 0
  BY <1>1, PosAssumption
<1>3. TDwell \in Nat /\ TLong \in Nat /\ DragEps \in Nat /\ DwellMove \in Nat
  BY ThresholdAssumption
<1>4. Update(f, t) /\ state \in States
  BY DEF Call, TypeOK
<1>5. ASSUME Rest(f, t) PROVE DwellPending' /\ PressPending'
  BY <1>1, <1>2, <1>3, <1>5 DEF Rest, DwellPending, PressPending
<1>6. CASE Press(f, t)
  BY <1>1, <1>2, <1>3, <1>6 DEF Press, DwellPending, PressPending
<1>7. CASE Lost(f, t) \/ StartSwipe(f, t) \/ DragBegin(f, t)
  BY <1>7 DEF Lost, StartSwipe, DragBegin, DwellPending, PressPending
<1>8. CASE Wait(f, t)
  BY <1>1, <1>8 DEF Wait, Hovering, Pressing, fsmVars, DwellPending, PressPending
<1> QED
  BY <1>4, <1>5, <1>6, <1>7, <1>8 DEF Update, Acquire, Wander, DwellSelect, Release,
     LongPress, DragEnd, SwipeSettle

\* No dwell, drag or long press is ever overdue after a frame.
THEOREM NothingOverdue == Spec => []NeverOverdue
<1>1. Init => DwellPending /\ PressPending
  BY DEF Init, FsmInit, DwellPending, PressPending
<1>2. /\ TypeOK /\ DwellPending /\ PressPending /\ [Next]_vars
      => DwellPending' /\ PressPending'
  <2> SUFFICES ASSUME TypeOK, DwellPending, PressPending, [Next]_vars
               PROVE  DwellPending' /\ PressPending'
    OBVIOUS
  <2>1. CASE Next
    BY <2>1, NextIsCall, CallMeetsDeadlines
  <2>2. CASE UNCHANGED vars
    BY <2>2 DEF vars, DwellPending, PressPending
  <2> QED
    BY <2>1, <2>2
<1>3. DwellPending /\ PressPending => NeverOverdue
  BY DEF NeverOverdue
<1> QED
  BY <1>1, <1>2, <1>3, TypeCorrect, PTL DEF Spec

-----------------------------------------------------------------------------
\* A call reports nothing, or one complete gesture outside a drag, or opens or
\* closes a drag: one step of the abstract protocol.
LEMMA CallFollowsGrammar ==
  ASSUME TypeOK, NEW f, NEW t, Call(f, t)
  PROVE  Protocol!PNext
<1> DEFINE Names(s) == [i \in DOMAIN s |-> s[i].type]
<1>1. Update(f, t) /\ state \in States /\ frame'.present = f.present /\ f.present \in BOOLEAN
  BY DEF Call, TypeOK, Frame
<1>2. Names(<<>>) = <<>>
  BY DEF Names
<1>3. ASSUME NEW g, NEW n, g.type = n
      PROVE  Names(<<g>>) = Append(<<>>, n) /\ Names(<<g>>) = <<n>>
  BY <1>3
<1>4. ASSUME f.present, out' = <<>>, (state = "Dragging") = (state' = "Dragging")
      PROVE  Protocol!PNext
  <2>1. Protocol!Silence
    BY <1>2, <1>4 DEF Protocol!Silence, Protocol!Shapes
  <2> QED
    BY <1>1, <1>4, <2>1 DEF Protocol!PNext, Protocol!HandInSight
<1>5. ASSUME f.present, NEW n \in Protocol!Clicks, NEW g, g.type = n, out' = <<g>>,
             state # "Dragging", state' # "Dragging"
      PROVE  Protocol!PNext
  <2>1. Names(out') = Append(<<>>, n)
    BY <1>3, <1>5
  <2>2. Protocol!Click
    BY <1>5, <2>1 DEF Protocol!Click, Protocol!Shapes
  <2> QED
    BY <1>1, <1>5, <2>2 DEF Protocol!PNext, Protocol!HandInSight
<1>6. CASE Lost(f, t)
  <2>1. Names(out') = IF state = "Dragging" THEN <<"DRAG_END">> ELSE <<>>
    BY <1>2, <1>3, <1>6 DEF Lost
  <2>2. Protocol!NoHand
    BY <1>1, <1>6, <2>1 DEF Lost, Protocol!NoHand
  <2> QED
    BY <2>2 DEF Protocol!PNext
<1>7. CASE Acquire(f, t) \/ Press(f, t) \/ StartSwipe(f, t) \/ Wander(f, t) \/ Wait(f, t)
  BY <1>4, <1>7 DEF Acquire, Press, StartSwipe, Wander, Hovering, Pressing, Wait, Rest, fsmVars
<1>8. CASE DwellSelect(f, t)
  BY <1>5, <1>8 DEF DwellSelect, Hovering, Rest, Protocol!Clicks
<1>9. CASE Release(f, t)
  BY <1>4, <1>5, <1>9 DEF Release, Rest, Protocol!Clicks
<1>10. CASE LongPress(f, t)
  BY <1>5, <1>10 DEF LongPress, Pressing, Rest, Protocol!Clicks
<1>11. CASE SwipeSettle(f, t)
  BY <1>5, <1>11 DEF SwipeSettle, Rest, Protocol!Clicks
<1>12. CASE DragBegin(f, t)
  <2>1. Names(out') = Append(<<>>, "DRAG_BEGIN")
    BY <1>3, <1>12 DEF DragBegin
  <2>2. Protocol!OpenDrag
    BY <1>12, <2>1 DEF DragBegin, Pressing, Protocol!OpenDrag, Protocol!Shapes
  <2> QED
    BY <1>1, <1>12, <2>2 DEF DragBegin, Pressing, Protocol!PNext, Protocol!HandInSight
<1>13. CASE DragEnd(f, t)
  <2>1. Names(out') = Append(<<>>, "DRAG_END")
    BY <1>3, <1>13 DEF DragEnd
  <2>2. Protocol!CloseDrag
    BY <1>13, <2>1 DEF DragEnd, Rest, Protocol!CloseDrag, Protocol!Shapes
  <2> QED
    BY <1>1, <1>13, <2>2 DEF DragEnd, Protocol!PNext, Protocol!HandInSight
<1> QED
  BY <1>1, <1>6, <1>7, <1>8, <1>9, <1>10, <1>11, <1>12, <1>13 DEF Update

\* GestureFsm implements GestureProtocol: drags are brackets, and nothing else
\* is reported inside one.
THEOREM ImplementsProtocol == Spec => GrammarKept
<1>1. Init => Protocol!PInit
  BY DEF Init, FsmInit, Absent, Protocol!PInit
<1>2. TypeOK /\ [Next]_vars => [Protocol!PNext]_(Protocol!pvars)
  <2> SUFFICES ASSUME TypeOK, [Next]_vars
               PROVE  [Protocol!PNext]_(Protocol!pvars)
    OBVIOUS
  <2>1. CASE Next
    BY <2>1, NextIsCall, CallFollowsGrammar
  <2>2. CASE UNCHANGED vars
    BY <2>2 DEF vars, Protocol!pvars
  <2> QED
    BY <2>1, <2>2
<1> QED
  BY <1>1, <1>2, TypeCorrect, PTL DEF Spec, GrammarKept, Protocol!PSpec

-----------------------------------------------------------------------------
\* What one call does to the history variables, and to the claim that the
\* anchors make about them.
LEMMA CallKeepsAnchorsTrue ==
  ASSUME TypeOK, AnchorsTellTruth, NEW f, NEW t, Call(f, t), Observe
  PROVE  AnchorsTellTruth'
<1>1. /\ f \in Frame /\ f.pos \in Pos /\ f.engaged \in BOOLEAN /\ f.present \in BOOLEAN
      /\ t \in Nat /\ now' = t /\ frame' = f /\ now \in Nat /\ now <= t
  BY BoundAssumption DEF Call, Frame, TypeOK
<1>2. /\ state \in States /\ engage.pos \in Pos /\ engage.at \in Nat
      /\ dwell.pos \in Pos /\ dwell.at \in Nat
  BY BoundAssumption DEF TypeOK, Stamp
<1>3. /\ busy' \in [Pos -> Times'] /\ strayed' \in [Pos -> Times']
      /\ holding' \in Times' /\ longed' \in BOOLEAN /\ lastOut' \in Times'
  <2>1. \A x \in Times : x \in Times'
    BY <1>1 DEF Times
  <2>2. now' \in Times'
    BY <1>1 DEF Times
  <2>3. busy' \in [Pos -> Times'] /\ strayed' \in [Pos -> Times']
    BY <2>1, <2>2 DEF Observe, AnchorsTellTruth
  <2>4. longed' \in BOOLEAN
    BY DEF Observe
  <2> QED
    BY <2>1, <2>2, <2>3, <2>4 DEF Observe, AnchorsTellTruth
<1>4. lastOut' <= t /\ lastOut <= t /\ holding' <= t
      /\ (\A q \in Pos : busy'[q] <= t /\ strayed'[q] <= t)
  BY <1>1, <1>3 DEF Times, AnchorsTellTruth
<1> DEFINE Resting == state' = "Tracking" => busy'[dwell'.pos] <= dwell'.at
                                             /\ lastOut' <= dwell'.at
           Touching == state' = "Engaged" => /\ f.engaged /\ holding' <= engage'.at
                                             /\ strayed'[engage'.pos] <= engage'.at
                                             /\ lastOut' <= engage'.at
<1>5. ASSUME Rest(f, t) PROVE Resting /\ Touching
  BY <1>1, <1>4, <1>5 DEF Rest
<1>6. ASSUME Press(f, t) PROVE Resting /\ Touching
  BY <1>1, <1>4, <1>6 DEF Press
<1>7. ASSUME Lost(f, t) \/ StartSwipe(f, t) \/ DragBegin(f, t)
      PROVE  Resting /\ Touching
  BY <1>7 DEF Lost, StartSwipe, DragBegin
<1>8. ASSUME Wait(f, t) PROVE Resting /\ Touching
  <2>1. out' = <<>> /\ lastOut' = lastOut /\ UNCHANGED fsmVars
    BY <1>8 DEF Wait, Observe
  <2>2. CASE state = "Tracking"
    <3>1. Hovering(f) /\ Near(f.pos, dwell.pos, DwellMove)
      BY <1>8, <2>2 DEF Wait, Pressing, Near
    <3>2. busy'[dwell.pos] = busy[dwell.pos]
      BY <1>1, <1>2, <3>1 DEF Observe, Hovering
    <3> QED
      BY <2>1, <2>2, <3>2 DEF AnchorsTellTruth, fsmVars
  <2>3. CASE state = "Engaged"
    <3>1. Pressing(f) /\ Near(f.pos, engage.pos, DragEps)
      BY <1>8, <2>3 DEF Wait, Hovering, Near
    <3>2. strayed'[engage.pos] = strayed[engage.pos]
      BY <1>1, <1>2, <3>1 DEF Observe, Pressing
    <3>3. holding' = holding
      BY <2>3 DEF Observe, AnchorsTellTruth
    <3> QED
      BY <2>1, <2>3, <3>1, <3>2, <3>3 DEF AnchorsTellTruth, Pressing, fsmVars
  <2> QED
    BY <2>1, <2>2, <2>3 DEF fsmVars
<1>9. Resting /\ Touching
  <2>1. Update(f, t)
    BY DEF Call
  <2> QED
    BY <2>1, <1>5, <1>6, <1>7, <1>8 DEF Update, Acquire, Wander, DwellSelect, Release,
       LongPress, DragEnd, SwipeSettle
<1> QED
  BY <1>1, <1>3, <1>9 DEF AnchorsTellTruth

\* The anchors' claim holds in every reachable state.
THEOREM AnchorsTrue == HSpec => [](TypeOK /\ AnchorsTellTruth)
<1>1. HInit => TypeOK /\ AnchorsTellTruth
  <2> SUFFICES ASSUME HInit PROVE TypeOK /\ AnchorsTellTruth
    OBVIOUS
  <2>1. TypeOK
    BY PosAssumption, BoundAssumption
       DEF HInit, Init, FsmInit, TypeOK, States, Stamp, Frame, Absent, Paces
  <2>2. AnchorsTellTruth
    <3>1. now = 0 /\ 0 \in Times /\ state = "Idle"
      BY DEF HInit, Init, FsmInit, Times
    <3> QED
      BY <3>1 DEF HInit, AnchorsTellTruth
  <2> QED
    BY <2>1, <2>2
<1>2. TypeOK /\ AnchorsTellTruth /\ [HNext]_hvars => TypeOK' /\ AnchorsTellTruth'
  <2> SUFFICES ASSUME TypeOK, AnchorsTellTruth, [HNext]_hvars
               PROVE  TypeOK' /\ AnchorsTellTruth'
    OBVIOUS
  <2>1. CASE HNext
    BY <2>1, NextIsCall, CallKeepsType, CallKeepsAnchorsTrue DEF HNext
  <2>2. CASE UNCHANGED hvars
    BY <2>2 DEF hvars, vars, history, TypeOK, AnchorsTellTruth, Times
  <2> QED
    BY <2>1, <2>2
<1> QED
  BY <1>1, <1>2, PTL DEF HSpec

-----------------------------------------------------------------------------
\* Only one branch of update() reports each of the two timed gestures.
LEMMA DwellCall ==
  ASSUME NEW f, NEW t, Call(f, t), Reports("DWELL_SELECT")
  PROVE  DwellSelect(f, t)
BY DEF Call, Update, Reports, Lost, Acquire, Press, StartSwipe, Wander, Release,
   DragBegin, LongPress, DragEnd, SwipeSettle, Wait

\* A call that reports a long press ends a contact at its place (gesture_fsm.cpp:64-68).
LEMMA LongPressCall ==
  ASSUME NEW f, NEW t, Call(f, t), Reports("LONG_PRESS")
  PROVE  LongPress(f, t) /\ out'[1].pos = engage.pos
BY DEF Call, Update, Reports, Lost, Acquire, Press, StartSwipe, Wander, Release,
   DwellSelect, DragBegin, LongPress, DragEnd, SwipeSettle, Wait

\* A dwell is earned by rest, a long press by unbroken contact, and neither
\* comes sooner after the event before than its threshold.
THEOREM TimedGesturesEarned ==
  HSpec => DwellEarned /\ LongEarned /\ TimedEventsSpaced
<1>1. ASSUME TypeOK, AnchorsTellTruth, HNext, Reports("DWELL_SELECT")
      PROVE  /\ \E q \in Pos : Near(frame'.pos, q, DwellMove) /\ now' - busy'[q] > TDwell
             /\ now' - lastOut > TDwell
  <2>1. PICK f \in Frame, t \in Nat : Call(f, t)
    BY <1>1, NextIsCall DEF HNext
  <2>2. /\ Hovering(f) /\ Near(f.pos, dwell.pos, DwellMove) /\ t - dwell.at > TDwell
        /\ now' = t /\ frame' = f /\ dwell.pos \in Pos /\ dwell.at \in Nat
    BY <1>1, <2>1, DwellCall, BoundAssumption
       DEF DwellSelect, Call, TypeOK, Stamp, Near
  <2>3. busy'[dwell.pos] = busy[dwell.pos]
    BY <1>1, <2>2 DEF HNext, Observe, Hovering
  <2>4. /\ busy[dwell.pos] \in Nat /\ busy[dwell.pos] <= dwell.at
        /\ lastOut \in Nat /\ lastOut <= dwell.at
    BY <1>1, <2>2, BoundAssumption DEF AnchorsTellTruth, Hovering, Times, TypeOK
  <2> QED
    BY <2>2, <2>3, <2>4, ThresholdAssumption
<1>2. ASSUME TypeOK, AnchorsTellTruth, HNext, Reports("LONG_PRESS")
      PROVE  /\ now' - holding' > TLong /\ now' - strayed'[out'[1].pos] > TLong
             /\ now' - lastOut > TLong
  <2>1. PICK f \in Frame, t \in Nat : Call(f, t)
    BY <1>2, NextIsCall DEF HNext
  <2>2. /\ Pressing(f) /\ Near(f.pos, engage.pos, DragEps) /\ t - engage.at > TLong
        /\ now' = t /\ frame' = f /\ engage.pos \in Pos /\ engage.at \in Nat
        /\ out'[1].pos = engage.pos
    BY <1>2, <2>1, LongPressCall, BoundAssumption
       DEF LongPress, Call, TypeOK, Stamp, Near
  <2>3. strayed'[engage.pos] = strayed[engage.pos] /\ holding' = holding
    BY <1>2, <2>2 DEF HNext, Observe, Pressing, AnchorsTellTruth
  <2>4. /\ strayed[engage.pos] \in Nat /\ strayed[engage.pos] <= engage.at
        /\ holding \in Nat /\ holding <= engage.at
        /\ lastOut \in Nat /\ lastOut <= engage.at
    BY <1>2, <2>2, BoundAssumption DEF AnchorsTellTruth, Pressing, Times, TypeOK
  <2> QED
    BY <2>2, <2>3, <2>4, ThresholdAssumption
<1>3. TypeOK /\ AnchorsTellTruth /\ [HNext]_hvars =>
        /\ [Reports("DWELL_SELECT") =>
              \E q \in Pos : Near(frame'.pos, q, DwellMove) /\ now' - busy'[q] > TDwell]_hvars
        /\ [Reports("LONG_PRESS") => /\ now' - holding' > TLong
                                     /\ now' - strayed'[out'[1].pos] > TLong]_hvars
        /\ [/\ Reports("DWELL_SELECT") => now' - lastOut > TDwell
            /\ Reports("LONG_PRESS") => now' - lastOut > TLong]_hvars
  <2> SUFFICES ASSUME TypeOK, AnchorsTellTruth, HNext
               PROVE
        /\ Reports("DWELL_SELECT") =>
              \E q \in Pos : Near(frame'.pos, q, DwellMove) /\ now' - busy'[q] > TDwell
        /\ Reports("LONG_PRESS") => /\ now' - holding' > TLong
                                    /\ now' - strayed'[out'[1].pos] > TLong
        /\ /\ Reports("DWELL_SELECT") => now' - lastOut > TDwell
           /\ Reports("LONG_PRESS") => now' - lastOut > TLong
    OBVIOUS
  <2> QED
    BY <1>1, <1>2
<1> QED
  BY <1>3, AnchorsTrue, PTL DEF HSpec, DwellEarned, LongEarned, TimedEventsSpaced
==============================================================================
