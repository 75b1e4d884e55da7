--------------------------- MODULE EngineCoreProofs ---------------------------
(***************************************************************************)
(* Proofs about EngineCore for every surface, filter answer, threshold and *)
(* bound.  What GestureFsmProofs proves of the recogniser carries over,    *)
(* once the engine is shown to drive it as it is specified for.  And about *)
(* EngineHistory: what the engine reports was earned by the hand in sight, *)
(* and nothing is inherited from the hand before.                          *)
(***************************************************************************)
EXTENDS EngineHistory, GestureFsmProofs, SequenceTheorems

\* What EngineCore itself keeps, and its agreement with the last frame.
KeptState ==
  /\ now \in 0 .. MaxTime
  /\ fx \in Axis /\ fy \in Axis
  /\ pinched \in BOOLEAN /\ havePrev \in BOOLEAN
  /\ prev \in Stamp /\ prev.pos = frame.pos
  /\ open \in Timer /\ fist \in Timer
  /\ pointer \in {<<>>} \cup {<<p>> : p \in Pos}

\* A filter answers a coordinate, and stays well-formed when it does.
LEMMA FilterStays ==
  ASSUME NEW axis \in Axis, NEW x \in Coord, NEW dt \in Int, NEW y \in Answers(axis, x, dt)
  PROVE  y \in Coord /\ Filtered(axis, y) \in Axis
<1>1. axis.last \in Coord /\ axis.seen \in BOOLEAN /\ axis.primed \in BOOLEAN
  BY DEF Axis
<1>2. y \in Coord
  BY <1>1, CoreAssumption DEF Answers, StepOf
<1>3. CASE axis.seen
  BY <1>2, <1>3 DEF Filtered, Axis
<1>4. CASE ~axis.seen
  BY <1>2, <1>4 DEF Filtered, Axis
<1> QED
  BY <1>2, <1>3, <1>4

\* A shape timer stays well-formed.
LEMMA TimerStays ==
  ASSUME NEW timer \in Timer, NEW held \in BOOLEAN, NEW limit, NEW t \in 0 .. MaxTime
  PROVE  Timed(timer, held, limit, t) \in Timer /\ TimerOff(timer) \in Timer
BY DEF Timed, TimerOff, Timer

\* The frame the engine makes of a hand is one the recogniser may be given.
LEMMA SeenFrame ==
  ASSUME KeptState, NEW h \in Hands, NEW x, NEW y, NEW s \in Shadows, NEW t \in Int,
         x \in Answers(fx, h.tip[1], t - prev.at), y \in Answers(fy, h.tip[2], t - prev.at),
         pinched' = Pinched(pinched, h.ratio)
  PROVE  /\ x \in Coord /\ y \in Coord
         /\ Filtered(fx, x) \in Axis /\ Filtered(fy, y) \in Axis
         /\ Surface[<<x, y>>] \in Pos
         /\ pinched' \in BOOLEAN
         /\ [present |-> TRUE, pos |-> Surface[<<x, y>>],
             pace |-> PaceAt(Surface[<<x, y>>], t),
             engaged |-> Engages(pinched', s)] \in Inputs
<1>1. h.tip \in Coord \X Coord
  BY CoreAssumption DEF Hands
<1>2. /\ x \in Coord /\ y \in Coord
      /\ Filtered(fx, x) \in Axis /\ Filtered(fy, y) \in Axis
  <2>1. t - prev.at \in Int
    BY DEF KeptState, Stamp
  <2> QED
    BY <1>1, <2>1, FilterStays DEF KeptState
<1>3. Surface[<<x, y>>] \in Pos
  BY <1>2, CoreAssumption
<1>4. pinched' \in BOOLEAN
  <2>1. h.ratio \in Nat
    BY CoreAssumption DEF Hands
  <2>2. (h.ratio <= PinchOff) \in BOOLEAN /\ (h.ratio < PinchOn) \in BOOLEAN
    BY <2>1, HysteresisAssumption
  <2> QED
    BY <2>2, Zenon DEF Pinched
<1>5. Engages(pinched', s) \in BOOLEAN
  BY <1>4 DEF Engages, ShadowTouch
<1>6. PaceAt(Surface[<<x, y>>], t) \in Paces
  BY DEF PaceAt, Paces
<1> QED
  BY <1>2, <1>3, <1>4, <1>5, <1>6 DEF Inputs, Frame

\* One frame of the engine keeps its own state, and is one call of the
\* recogniser with an input it may be given.
LEMMA FrameIsCall ==
  ASSUME KeptState, CoreNext
  PROVE  KeptState' /\ Next
<1>1. PICK d \in MinStep .. MaxStep :
        /\ now + d <= MaxTime /\ now' = now + d
        /\ \/ HandGone(now + d)
           \/ \E h \in Hands, s \in Shadows : HandSeen(h, s, now + d)
  BY DEF CoreNext
<1>2. now + d \in 0 .. MaxTime
  BY <1>1, BoundAssumption DEF KeptState
<1>3. CASE HandGone(now + d)
  <2>1. frame' \in Inputs /\ frame'.pos = prev.pos
    BY <1>3 DEF HandGone, KeptState, Inputs, Absent
  <2>2. Next
    BY <1>1, <1>3, <2>1 DEF Next, HandGone
  <2>3. FilterReset \in Axis
    BY CoreAssumption DEF FilterReset, Axis
  <2>4. TimerOff(open) \in Timer /\ TimerOff(fist) \in Timer
    BY DEF KeptState, TimerOff, Timer
  <2> QED
    BY <1>1, <1>2, <1>3, <2>1, <2>2, <2>3, <2>4 DEF HandGone, KeptState
<1>4. CASE \E h \in Hands, s \in Shadows : HandSeen(h, s, now + d)
  <2> DEFINE t == now + d
  <2>0. t \in 0 .. MaxTime /\ now' = t /\ t \in Int
    BY <1>1, <1>2, BoundAssumption
  <2> HIDE DEF t
  <2>1. PICK h \in Hands, s \in Shadows : HandSeen(h, s, t)
    BY <1>4 DEF t
  <2>2. PICK x \in Answers(fx, h.tip[1], t - prev.at),
             y \in Answers(fy, h.tip[2], t - prev.at) :
          LET p == Surface[<<x, y>>] IN
          /\ fx' = Filtered(fx, x) /\ fy' = Filtered(fy, y)
          /\ pinched' = Pinched(pinched, h.ratio)
          /\ open' = Timed(open, IsOpen(h), THome, t)
          /\ fist' = Timed(fist, IsFist(h), TBack, t)
          /\ frame' = [present |-> TRUE, pos |-> p, pace |-> PaceAt(p, t),
                       engaged |-> Engages(pinched', s)]
          /\ Update(frame', t)
          /\ pointer' = <<p>>
          /\ prev' = Anchor(p, t) /\ havePrev' = TRUE
    BY <2>1 DEF HandSeen
  <2> DEFINE p == Surface[<<x, y>>]
  <2>3. /\ fx' \in Axis /\ fy' \in Axis /\ p \in Pos
        /\ pinched' \in BOOLEAN /\ frame' \in Inputs
    BY <2>0, <2>2, SeenFrame
  <2>4. Next
    BY <1>1, <2>2, <2>3 DEF Next, t
  <2>5. open' \in Timer /\ fist' \in Timer
    <3>1. h.fingers \in 0 .. 4
      BY CoreAssumption DEF Hands
    <3>2. IsOpen(h) \in BOOLEAN /\ IsFist(h) \in BOOLEAN
      BY <3>1 DEF IsOpen, IsFist
    <3> QED
      BY <2>0, <2>2, <3>2, TimerStays DEF KeptState
  <2>6. prev' \in Stamp /\ prev'.pos = frame'.pos
    BY <2>0, <2>2, <2>3 DEF Stamp, Anchor
  <2> QED
    BY <2>0, <2>2, <2>3, <2>4, <2>5, <2>6 DEF KeptState
<1> QED
  BY <1>1, <1>3, <1>4

\* The engine starts with its own state in order.
LEMMA KeptAtFirst == CoreInit => KeptState
<1>1. 0 \in 0 .. MaxTime
  BY BoundAssumption
<1>2. FilterReset \in Axis
  BY CoreAssumption DEF FilterReset, Axis
<1>3. Anchor(Origin, 0) \in Stamp /\ Anchor(Origin, 0).pos = Origin
  BY <1>1, PosAssumption DEF Anchor, Stamp
<1>4. [active |-> FALSE, since |-> 0] \in Timer
  BY <1>1 DEF Timer
<1>5. Absent(Origin).pos = Origin
  BY DEF Absent
<1> QED
  BY <1>1, <1>2, <1>3, <1>4, <1>5 DEF CoreInit, Init, KeptState

\* The engine's own state holds in every reachable state.
LEMMA KeptAlways == CoreSpec => []KeptState
<1>1. CoreInit => KeptState
  BY KeptAtFirst
<1>2. KeptState /\ [CoreNext]_allVars => KeptState'
  BY FrameIsCall DEF allVars, vars, coreVars, KeptState
<1> QED
  BY <1>1, <1>2, PTL DEF CoreSpec

\* EngineCore drives the recogniser as it is specified for, so that everything
\* proved of the recogniser holds of it inside the engine.
THEOREM CoreDrivesRecogniser == CoreSpec => DrivesRecogniser
<1>1. CoreInit => Init
  BY DEF CoreInit
<1>2. KeptState /\ [CoreNext]_allVars => [Next]_vars
  BY FrameIsCall DEF allVars
<1> QED
  BY <1>1, <1>2, KeptAlways, PTL DEF CoreSpec, DrivesRecogniser, Spec

-----------------------------------------------------------------------------
\* The gestures of a frame are the recogniser's, after at most one shape event.
Merged == \E s \in ShapeEvents : gestures = s \o out

\* A palm is not open and a fist at the same time, so at most one shape fires.
LEMMA OneShape ==
  ASSUME NEW h \in Hands, NEW p \in Pos, NEW t
  PROVE  ShapesAt(h, p, t) \in ShapeEvents
<1>1. h.fingers \in 0 .. 4
  BY CoreAssumption DEF Hands
<1>2. ~(IsOpen(h) /\ IsFist(h))
  BY <1>1 DEF IsOpen, IsFist
<1>3. CASE Fires(open, IsOpen(h), THome, t)
  <2>1. ~Fires(fist, IsFist(h), TBack, t)
    BY <1>2, <1>3 DEF Fires
  <2>2. ShapesAt(h, p, t) = <<mk("HOME", p, p)>>
    BY <1>3, <2>1 DEF ShapesAt
  <2> QED
    BY <2>2 DEF ShapeEvents
<1>4. CASE ~Fires(open, IsOpen(h), THome, t) /\ Fires(fist, IsFist(h), TBack, t)
  <2>1. ShapesAt(h, p, t) = <<mk("BACK", p, p)>>
    BY <1>4 DEF ShapesAt
  <2> QED
    BY <2>1 DEF ShapeEvents
<1>5. CASE ~Fires(open, IsOpen(h), THome, t) /\ ~Fires(fist, IsFist(h), TBack, t)
  <2>1. ShapesAt(h, p, t) = <<>>
    BY <1>5 DEF ShapesAt
  <2> QED
    BY <2>1 DEF ShapeEvents
<1> QED
  BY <1>3, <1>4, <1>5

\* What a frame sends: without a hand exactly what the recogniser says, with a
\* hand that after at most one shape event, and a pointer event.
LEMMA FrameSends ==
  ASSUME KeptState, CoreNext, TypeOK'
  PROVE  \/ ~frame'.present /\ pointer' = <<>> /\ gestures' = out'
         \/ /\ frame'.present /\ pointer' # <<>>
            /\ \E s \in ShapeEvents : gestures' = s \o out'
<1>1. PICK t \in Nat :
        HandGone(t) \/ \E h \in Hands, s \in Shadows : HandSeen(h, s, t)
  <2>1. \A d \in MinStep .. MaxStep : now + d \in Nat
    BY BoundAssumption DEF KeptState
  <2> QED
    BY <2>1 DEF CoreNext
<1>2. CASE HandGone(t)
  BY <1>2 DEF HandGone, Absent
<1>3. CASE \E h \in Hands, s \in Shadows : HandSeen(h, s, t)
  <2>1. PICK h \in Hands, s \in Shadows : HandSeen(h, s, t)
    BY <1>3
  <2>2. PICK x \in Answers(fx, h.tip[1], t - prev.at), y \in Answers(fy, h.tip[2], t - prev.at) :
          LET p == Surface[<<x, y>>] IN
          /\ pinched' = Pinched(pinched, h.ratio)
          /\ frame' = [present |-> TRUE, pos |-> p, pace |-> PaceAt(p, t),
                       engaged |-> Engages(pinched', s)]
          /\ pointer' = <<p>>
          /\ gestures' = ShapesAt(h, p, t) \o out'
    BY <2>1 DEF HandSeen
  <2>3. Surface[<<x, y>>] \in Pos
    BY <2>2, SeenFrame
  <2>4. ShapesAt(h, Surface[<<x, y>>], t) \in ShapeEvents
    BY <2>3, OneShape
  <2> QED
    BY <2>2, <2>4
<1> QED
  BY <1>1, <1>2, <1>3

\* Every state of the engine is well-typed.
THEOREM CoreTypeCorrect == CoreSpec => []CoreTypeOK
<1>1. CoreInit => Merged
  <2>1. <<>> \in ShapeEvents /\ <<>> = <<>> \o <<>>
    BY DEF ShapeEvents
  <2> QED
    BY <2>1 DEF CoreInit, Init, FsmInit, Merged
<1>2. TypeOK' /\ KeptState /\ Merged /\ [CoreNext]_allVars => Merged'
  <2> SUFFICES ASSUME TypeOK', KeptState, Merged, [CoreNext]_allVars PROVE Merged'
    OBVIOUS
  <2>1. CASE CoreNext
    <3>1. <<>> \in ShapeEvents /\ out' = <<>> \o out'
      BY DEF ShapeEvents, TypeOK
    <3> QED
      BY <2>1, <3>1, FrameSends DEF Merged
  <2>2. CASE UNCHANGED allVars
    BY <2>2 DEF allVars, vars, coreVars, Merged
  <2> QED
    BY <2>1, <2>2
<1>3. TypeOK /\ KeptState /\ Merged => CoreTypeOK
  BY DEF KeptState, Merged, CoreTypeOK
<1> QED
  BY <1>1, <1>2, <1>3, KeptAlways, CoreDrivesRecogniser, TypeCorrect, PTL
     DEF CoreSpec, DrivesRecogniser

-----------------------------------------------------------------------------
\* The types of a sequence of gestures.
TypesOf(s) == [i \in DOMAIN s |-> s[i].type]

\* Two ways to make a pair.
LEMMA MakingPairs ==
  ASSUME NEW a, NEW b
  PROVE  <<a>> \o <<b>> = <<a, b>> /\ Append(<<a>>, b) = <<a, b>>
<1> DEFINE S == {a, b}
<1>1. <<a>> \in Seq(S) /\ <<b>> \in Seq(S) /\ b \in S /\ Len(<<a>>) = 1 /\ Len(<<b>>) = 1
  OBVIOUS
<1> HIDE DEF S
<1> DEFINE c == <<a>> \o <<b>>
           d == Append(<<a>>, b)
<1>2. c \in Seq(S) /\ Len(c) = 2 /\ c[1] = a /\ c[2] = b
  BY <1>1, ConcatProperties
<1>3. d \in Seq(S) /\ Len(d) = 2 /\ d[1] = a /\ d[2] = b
  BY <1>1, AppendProperties
<1> HIDE DEF c, d
<1>4. c = <<a, b>> /\ d = <<a, b>>
  BY <1>2, <1>3
<1> QED
  BY <1>4 DEF c, d

\* Putting a shape event before the recogniser's puts its type before the type.
LEMMA TypesOfMerged ==
  ASSUME NEW s \in ShapeEvents
  PROVE  \E k \in Stream!Shapes : /\ TypesOf(s \o <<>>) = k
                                  /\ \A g : TypesOf(s \o <<g>>) = Append(k, g.type)
<1>1. CASE s = <<>>
  <2>1. TypesOf(s \o <<>>) = <<>>
    BY <1>1 DEF TypesOf
  <2>2. ASSUME NEW g PROVE TypesOf(s \o <<g>>) = Append(<<>>, g.type)
    BY <1>1 DEF TypesOf
  <2> QED
    BY <2>1, <2>2 DEF Stream!Shapes
<1>2. ASSUME NEW n \in {"HOME", "BACK"}, NEW q \in Pos, s = <<mk(n, q, q)>>
      PROVE  /\ TypesOf(s \o <<>>) = <<n>>
             /\ \A g : TypesOf(s \o <<g>>) = Append(<<n>>, g.type)
  <2>1. TypesOf(s \o <<>>) = <<n>>
    BY <1>2 DEF TypesOf, mk
  <2>2. ASSUME NEW g PROVE TypesOf(s \o <<g>>) = Append(<<n>>, g.type)
    <3>1. s \o <<g>> = <<mk(n, q, q), g>>
      BY <1>2, MakingPairs
    <3>2. mk(n, q, q).type = n
      BY DEF mk
    <3>3. TypesOf(<<mk(n, q, q), g>>) = <<n, g.type>>
      BY <3>2 DEF TypesOf
    <3>4. Append(<<n>>, g.type) = <<n, g.type>>
      BY MakingPairs
    <3> QED
      BY <3>1, <3>3, <3>4
  <2> QED
    BY <2>1, <2>2
<1> QED
  BY <1>1, <1>2 DEF ShapeEvents, Stream!Shapes

\* A sequence of one type that is a shape and a type more has no shape in it.
LEMMA OneTypeIsLast ==
  ASSUME NEW q \in Protocol!Shapes, NEW e
  PROVE  Append(q, e) # <<>> /\ \A n : <<n>> = Append(q, e) => n = e
<1>1. CASE q = <<>>
  <2>1. Append(q, e) = <<e>>
    BY <1>1
  <2>2. \A n : <<n>>[1] = n /\ <<n>> # <<>>
    OBVIOUS
  <2> QED
    BY <2>1, <2>2
<1>2. ASSUME NEW a, q = <<a>>
      PROVE  Append(q, e) # <<>> /\ \A n : <<n>> # Append(q, e)
  <2>1. Append(q, e) = <<a, e>>
    BY <1>2, MakingPairs
  <2>2. Len(<<a, e>>) = 2 /\ Len(<<>>) = 0 /\ \A n : Len(<<n>>) = 1
    OBVIOUS
  <2> QED
    BY <2>1, <2>2
<1> QED
  BY <1>1, <1>2 DEF Protocol!Shapes

\* A step of the recogniser's protocol, with a shape event put before what it
\* reports, is a step of the same protocol.
LEMMA ShapesFitIn ==
  ASSUME TypeOK', Protocol!HandInSight, pointer' # <<>>,
         NEW s \in ShapeEvents, gestures' = s \o out'
  PROVE  Stream!PNext
<1>1. PICK k \in Stream!Shapes : /\ TypesOf(s \o <<>>) = k
                                /\ \A g : TypesOf(s \o <<g>>) = Append(k, g.type)
  BY TypesOfMerged
<1>2. \/ out' = <<>> /\ TypesOf(gestures') = k /\ TypesOf(out') = <<>>
      \/ \E g \in Gesture : /\ out' = <<g>> /\ TypesOf(gestures') = Append(k, g.type)
                            /\ TypesOf(out') = <<g.type>>
  <2>1. TypesOf(<<>>) = <<>> /\ \A g : TypesOf(<<g>>) = <<g.type>>
    BY DEF TypesOf
  <2> QED
    BY <1>1, <2>1 DEF TypeOK
<1>3. ASSUME NEW g \in Gesture
      PROVE  g.type \in Types /\ g.type # "HOME" /\ g.type # "BACK"
  BY <1>3 DEF Gesture, Types
<1>4. ASSUME NEW e, NEW q \in Protocol!Shapes, TypesOf(out') = Append(q, e)
      PROVE  TypesOf(gestures') = Append(k, e)
  <2>1. PICK g \in Gesture : /\ TypesOf(gestures') = Append(k, g.type)
                             /\ TypesOf(out') = <<g.type>>
    BY <1>2, <1>4, OneTypeIsLast
  <2>2. g.type = e
    BY <1>4, <2>1, OneTypeIsLast
  <2> QED
    BY <2>1, <2>2
<1>5. ASSUME TypesOf(out') \in Protocol!Shapes
      PROVE  TypesOf(gestures') = k
  <2>1. ASSUME NEW g \in Gesture PROVE <<g.type>> \notin Protocol!Shapes
    <3>1. <<g.type>>[1] = g.type /\ <<"HOME">>[1] = "HOME" /\ <<"BACK">>[1] = "BACK"
          /\ <<g.type>> # <<>>
      OBVIOUS
    <3> QED
      BY <1>3, <3>1 DEF Protocol!Shapes
  <2> QED
    BY <1>2, <1>5, <2>1
<1>6. CASE Protocol!Silence
  BY <1>5, <1>6 DEF Protocol!Silence, Stream!Silence, Stream!PNext, Stream!HandInSight, TypesOf
<1>7. CASE Protocol!Click
  BY <1>4, <1>7 DEF Protocol!Click, Protocol!Clicks, Stream!Click, Stream!Clicks,
     Stream!PNext, Stream!HandInSight, TypesOf
<1>8. CASE Protocol!OpenDrag
  BY <1>4, <1>8 DEF Protocol!OpenDrag, Stream!OpenDrag, Stream!PNext, Stream!HandInSight, TypesOf
<1>9. CASE Protocol!CloseDrag
  BY <1>4, <1>9 DEF Protocol!CloseDrag, Stream!CloseDrag, Stream!PNext, Stream!HandInSight, TypesOf
<1> QED
  BY <1>6, <1>7, <1>8, <1>9 DEF Protocol!HandInSight

\* What the engine sends follows the grammar, HOME and BACK included.
THEOREM CoreImplementsProtocol == CoreSpec => StreamGrammarKept
<1>1. CoreInit => Stream!PInit
  BY DEF CoreInit, Init, FsmInit, Stream!PInit
<1>2. /\ TypeOK /\ TypeOK' /\ KeptState /\ [CoreNext]_allVars
      => [Stream!PNext]_(Stream!pvars)
  <2> SUFFICES ASSUME TypeOK, TypeOK', KeptState, [CoreNext]_allVars
               PROVE  [Stream!PNext]_(Stream!pvars)
    OBVIOUS
  <2>1. CASE CoreNext
    <3>1. Protocol!PNext
      BY <2>1, FrameIsCall, NextIsCall, CallFollowsGrammar
    <3>2. CASE Protocol!HandInSight
      BY <2>1, <3>2, FrameSends, ShapesFitIn DEF Protocol!HandInSight
    <3>3. CASE Protocol!NoHand
      <4>1. pointer' = <<>> /\ gestures' = out'
        BY <2>1, <3>3, FrameSends DEF Protocol!NoHand
      <4> QED
        BY <3>3, <4>1 DEF Protocol!NoHand, Stream!NoHand, Stream!PNext
    <3> QED
      BY <3>1, <3>2, <3>3 DEF Protocol!PNext
  <2>2. CASE UNCHANGED allVars
    BY <2>2 DEF allVars, vars, coreVars, Stream!pvars
  <2> QED
    BY <2>1, <2>2
<1> QED
  BY <1>1, <1>2, KeptAlways, CoreDrivesRecogniser, TypeCorrect, PTL
     DEF CoreSpec, DrivesRecogniser, StreamGrammarKept, Stream!PSpec

-----------------------------------------------------------------------------
(* The engine observed by EngineHistory *)

\* A frame, observed: its time and what it does.
Observed(t) ==
  /\ t \in 0 .. MaxTime /\ now \in 0 .. MaxTime /\ now <= t /\ now' = t
  /\ \/ HandGone(t) /\ NoteNoHand
     \/ \E h \in Hands, s \in Shadows : HandSeen(h, s, t) /\ NoteHand(h)

\* A step with history variables is a step of the engine, seen with its time.
LEMMA StepIsObserved ==
  ASSUME KeptState, NNext
  PROVE  (\E t : Observed(t)) /\ CoreNext
<1>1. PICK d \in MinStep .. MaxStep :
        /\ now + d <= MaxTime
        /\ now' = now + d
        /\ \/ HandGone(now + d) /\ NoteNoHand
           \/ \E h \in Hands, s \in Shadows : HandSeen(h, s, now + d) /\ NoteHand(h)
  BY DEF NNext
<1>2. now + d \in 0 .. MaxTime /\ now <= now + d
  BY <1>1, BoundAssumption DEF KeptState
<1>3. Observed(now + d)
  BY <1>1, <1>2 DEF Observed, KeptState
<1>4. CoreNext
  BY <1>1 DEF CoreNext
<1> QED
  BY <1>3, <1>4

\* History variables do not change what the engine does.
LEMMA HistoryIsHarmless == NSpec => CoreSpec /\ []KeptState /\ []CoreTypeOK
<1>1. NInit => CoreInit
  BY DEF NInit
<1>2. KeptState /\ [NNext]_nvars => [CoreNext]_allVars /\ KeptState'
  <2>1. KeptState /\ NNext => CoreNext /\ KeptState'
    BY StepIsObserved, FrameIsCall
  <2>2. KeptState /\ UNCHANGED nvars => UNCHANGED allVars /\ KeptState'
    BY DEF nvars, allVars, vars, coreVars, KeptState
  <2> QED
    BY <2>1, <2>2
<1>3. CoreInit => KeptState
  BY KeptAtFirst
<1> QED
  BY <1>1, <1>2, <1>3, CoreTypeCorrect, PTL DEF NSpec, CoreSpec

-----------------------------------------------------------------------------
\* Every gesture of a frame is the shape event or the recogniser's.
LEMMA GesturesOfFrame ==
  ASSUME TypeOK', NEW s \in ShapeEvents, NEW i \in DOMAIN (s \o out')
  PROVE  \/ s # <<>> /\ (s \o out')[i] = s[1]
         \/ out' # <<>> /\ (s \o out')[i] = out'[1]
<1>1. CASE s = <<>>
  <2>1. s \o out' = out'
    BY <1>1 DEF TypeOK
  <2> QED
    BY <2>1 DEF TypeOK
<1>2. ASSUME NEW a, s = <<a>>
      PROVE  \/ s # <<>> /\ (s \o out')[i] = s[1]
             \/ out' # <<>> /\ (s \o out')[i] = out'[1]
  <2>1. CASE out' = <<>>
    <3>1. s \o out' = s
      BY <1>2, <2>1
    <3> QED
      BY <1>2, <3>1
  <2>2. ASSUME NEW g, out' = <<g>>
        PROVE  \/ s # <<>> /\ (s \o out')[i] = s[1]
               \/ out' # <<>> /\ (s \o out')[i] = out'[1]
    <3>1. s \o out' = <<a, g>>
      BY <1>2, <2>2, MakingPairs
    <3>2. i \in {1, 2}
      BY <3>1
    <3> QED
      BY <1>2, <2>2, <3>1, <3>2
  <2> QED
    BY <2>1, <2>2 DEF TypeOK
<1> QED
  BY <1>1, <1>2 DEF ShapeEvents

\* HOME and BACK are sent only when their timers fire.
LEMMA SentShapesFire ==
  ASSUME TypeOK', NEW h \in Hands, NEW p \in Pos, NEW t,
         gestures' = ShapesAt(h, p, t) \o out'
  PROVE  /\ Sent("HOME") => Fires(open, IsOpen(h), THome, t)
         /\ Sent("BACK") => Fires(fist, IsFist(h), TBack, t)
<1> DEFINE s == ShapesAt(h, p, t)
<1>1. s \in ShapeEvents
  BY OneShape
<1>2. out' # <<>> => out'[1].type \in Types
  BY DEF TypeOK, Gesture
<1>3. ASSUME NEW n \in {"HOME", "BACK"}, Sent(n)
      PROVE  s # <<>> /\ s[1].type = n
  <2>1. PICK i \in DOMAIN (s \o out') : (s \o out')[i].type = n
    BY <1>3 DEF Sent
  <2> HIDE DEF s
  <2>2. out' # <<>> => out'[1].type # n
    BY <1>2, <1>3 DEF Types
  <2> QED
    BY <1>1, <2>1, <2>2, GesturesOfFrame
<1>4. ASSUME Sent("HOME"), ~Fires(open, IsOpen(h), THome, t) PROVE FALSE
  <2>1. s \in {<<>>, <<mk("BACK", p, p)>>}
    BY <1>4 DEF ShapesAt
  <2>2. s[1].type = "HOME" /\ s # <<>>
    BY <1>3, <1>4
  <2> HIDE DEF s
  <2> QED
    BY <2>1, <2>2 DEF mk
<1>5. ASSUME Sent("BACK"), ~Fires(fist, IsFist(h), TBack, t) PROVE FALSE
  <2>1. s \in {<<>>, <<mk("HOME", p, p)>>}
    BY <1>5 DEF ShapesAt
  <2>2. s[1].type = "BACK" /\ s # <<>>
    BY <1>3, <1>5
  <2> HIDE DEF s
  <2> QED
    BY <2>1, <2>2 DEF mk
<1> QED
  BY <1>4, <1>5

-----------------------------------------------------------------------------
\* What one call does to the anchors, and where it reports the end of a drag.
LEMMA CallMovesAnchors ==
  ASSUME NEW f, NEW t, Update(f, t)
  PROVE  /\ state' = "Tracking" => dwell'.at = t \/ (state = "Tracking" /\ dwell' = dwell)
         /\ state' = "Engaged" => engage'.at = t \/ (state = "Engaged" /\ engage' = engage)
         /\ ~f.present => state' = "Idle"
         /\ out' # <<>> /\ out'[1].type = "DRAG_END" => out'[1].pos = f.pos
<1> DEFINE Kept == state' = state /\ dwell' = dwell /\ engage' = engage
           Ends == out' # <<>> /\ out'[1].type = "DRAG_END" => out'[1].pos = f.pos
<1>1. CASE Lost(f, t)
  BY <1>1 DEF Lost, Emit, Quiet, mk
<1>2. ASSUME Rest(f, t), f.present PROVE state' = "Tracking" /\ dwell'.at = t
  BY <1>2 DEF Rest, Anchor
<1>3. CASE Acquire(f, t) \/ Wander(f, t)
  BY <1>2, <1>3 DEF Acquire, Wander, Hovering, Quiet
<1>4. CASE DwellSelect(f, t) \/ Release(f, t) \/ LongPress(f, t)
  <2>1. f.present /\ Rest(f, t)
    BY <1>4 DEF DwellSelect, Release, LongPress, Hovering, Pressing
  <2>2. Ends
    BY <1>4 DEF DwellSelect, Release, LongPress, Emit, Quiet, mk
  <2> QED
    BY <1>2, <2>1, <2>2
<1>5. CASE DragEnd(f, t) \/ SwipeSettle(f, t)
  <2>1. f.present /\ Rest(f, t)
    BY <1>5 DEF DragEnd, SwipeSettle
  <2>2. Ends
    BY <1>5 DEF DragEnd, SwipeSettle, Emit, mk
  <2> QED
    BY <1>2, <2>1, <2>2
<1>6. CASE Press(f, t)
  BY <1>6 DEF Press, Anchor, Quiet
<1>7. CASE StartSwipe(f, t) \/ DragBegin(f, t)
  BY <1>7 DEF StartSwipe, DragBegin, Pressing, Emit, Quiet, mk
<1>8. CASE Wait(f, t)
  BY <1>8 DEF Wait, Hovering, Pressing, Quiet, fsmVars
<1> QED
  BY <1>1, <1>3, <1>4, <1>5, <1>6, <1>7, <1>8 DEF Update

\* The parts of a frame with a hand.
LEMMA PartsOfSeen ==
  ASSUME KeptState, NEW h \in Hands, NEW s \in Shadows, NEW t \in Nat, HandSeen(h, s, t)
  PROVE  \E dt \in Int :
         \E x \in Answers(fx, h.tip[1], dt), y \in Answers(fy, h.tip[2], dt), p \in Pos :
           /\ p = Surface[<<x, y>>] /\ x \in Coord /\ y \in Coord
           /\ fx' = Filtered(fx, x) /\ fy' = Filtered(fy, y)
           /\ pinched' = Pinched(pinched, h.ratio)
           /\ open' = Timed(open, IsOpen(h), THome, t)
           /\ fist' = Timed(fist, IsFist(h), TBack, t)
           /\ frame'.present /\ frame'.pos = p /\ Update(frame', t)
           /\ pointer' = <<p>> /\ gestures' = ShapesAt(h, p, t) \o out'
           /\ prev' = Anchor(p, t)
<1>1. PICK x \in Answers(fx, h.tip[1], t - prev.at), y \in Answers(fy, h.tip[2], t - prev.at) :
        LET p == Surface[<<x, y>>] IN
        /\ fx' = Filtered(fx, x) /\ fy' = Filtered(fy, y)
        /\ pinched' = Pinched(pinched, h.ratio)
        /\ open' = Timed(open, IsOpen(h), THome, t)
        /\ fist' = Timed(fist, IsFist(h), TBack, t)
        /\ frame' = [present |-> TRUE, pos |-> p, pace |-> PaceAt(p, t),
                     engaged |-> Engages(pinched', s)]
        /\ Update(frame', t)
        /\ pointer' = <<p>> /\ gestures' = ShapesAt(h, p, t) \o out'
        /\ prev' = Anchor(p, t)
  BY DEF HandSeen
<1>2. x \in Coord /\ y \in Coord /\ Surface[<<x, y>>] \in Pos
  BY <1>1, SeenFrame
<1>3. t - prev.at \in Int
  BY DEF KeptState, Stamp
<1> QED
  BY <1>1, <1>2, <1>3

-----------------------------------------------------------------------------
\* The history variables keep step with the engine: a running timer was started
\* after the hand last was not in its shape, and the pointer was last shown at
\* the engine's previous position.
InStep ==
  /\ notOpen \in Nat /\ notFist \in Nat /\ notOpen <= now /\ notFist <= now
  /\ open.active => notOpen <= open.since
  /\ fist.active => notFist <= fist.since
  /\ shown = prev.pos

\* What a frame does to engine and history keeps the two in step.
LEMMA FrameKeepsStep ==
  ASSUME KeptState, TypeOK', InStep, NEW t, Observed(t)
  PROVE  /\ InStep'
         /\ Sent("HOME") => now' - notOpen > THome
         /\ Sent("BACK") => now' - notFist > TBack
         /\ \A i \in DOMAIN gestures' :
              gestures'[i].type = "DRAG_END" => gestures'[i].pos = shown'
<1>1. /\ t \in Nat /\ now \in Nat /\ now <= t /\ now' = t
      /\ open.since \in Nat /\ fist.since \in Nat /\ prev.pos \in Pos
      /\ open.active \in BOOLEAN /\ fist.active \in BOOLEAN
  BY BoundAssumption DEF Observed, KeptState, Timer, Stamp
<1>2. out' # <<>> => out'[1].type \in Types
  BY DEF TypeOK, Gesture
<1>3. CASE HandGone(t) /\ NoteNoHand
  <2>1. /\ open' = TimerOff(open) /\ fist' = TimerOff(fist) /\ prev' = prev
        /\ gestures' = out' /\ frame' = Absent(prev.pos) /\ Update(frame', t)
    BY <1>3 DEF HandGone
  <2>2. open'.active = FALSE /\ fist'.active = FALSE
    BY <2>1 DEF TimerOff, KeptState, Timer
  <2>3. InStep'
    BY <1>1, <1>3, <2>1, <2>2 DEF InStep, NoteNoHand
  <2>4. ASSUME NEW i \in DOMAIN out' PROVE out'[i] = out'[1] /\ out' # <<>>
    BY DEF TypeOK
  <2>5. ~Sent("HOME") /\ ~Sent("BACK")
    BY <1>2, <2>1, <2>4 DEF Sent, Types
  <2>6. frame'.pos = shown'
    BY <1>3, <2>1 DEF Absent, NoteNoHand, InStep
  <2>7. out' # <<>> /\ out'[1].type = "DRAG_END" => out'[1].pos = shown'
    BY <2>1, <2>6, CallMovesAnchors
  <2> QED
    BY <2>1, <2>3, <2>4, <2>5, <2>7
<1>4. CASE \E h \in Hands, s \in Shadows : HandSeen(h, s, t) /\ NoteHand(h)
  <2>1. PICK h \in Hands, s \in Shadows : HandSeen(h, s, t) /\ NoteHand(h)
    BY <1>4
  <2>2. PICK p \in Pos :
          /\ open' = Timed(open, IsOpen(h), THome, t)
          /\ fist' = Timed(fist, IsFist(h), TBack, t)
          /\ frame'.pos = p /\ Update(frame', t)
          /\ pointer' = <<p>> /\ gestures' = ShapesAt(h, p, t) \o out'
          /\ prev' = Anchor(p, t)
    BY <1>1, <2>1, PartsOfSeen
  <2>3. /\ Sent("HOME") => Fires(open, IsOpen(h), THome, t)
        /\ Sent("BACK") => Fires(fist, IsFist(h), TBack, t)
    BY <2>2, SentShapesFire
  <2>4. /\ Sent("HOME") => now' - notOpen > THome
        /\ Sent("BACK") => now' - notFist > TBack
    BY <1>1, <2>3, CoreAssumption DEF Fires, InStep
  <2>5. /\ notOpen' = IF IsOpen(h) /\ ~Sent("HOME") THEN notOpen ELSE t
        /\ notFist' = IF IsFist(h) /\ ~Sent("BACK") THEN notFist ELSE t
        /\ shown' = p
    BY <1>1, <2>1, <2>2 DEF NoteHand
  <2>6. /\ notOpen' \in Nat /\ notOpen' <= t
        /\ notFist' \in Nat /\ notFist' <= t
    BY <1>1, <2>5 DEF InStep
  <2>7. open'.active => notOpen' <= open'.since
    <3>1. CASE ~IsOpen(h) \/ Fires(open, IsOpen(h), THome, t)
      BY <2>2, <3>1 DEF Timed, TimerOff, KeptState, Timer
    <3>2. CASE IsOpen(h) /\ ~Fires(open, IsOpen(h), THome, t) /\ open.active
      <4>1. open' = open /\ notOpen' = notOpen
        BY <2>2, <2>3, <2>5, <3>2 DEF Timed
      <4> QED
        BY <4>1 DEF InStep
    <3>3. CASE IsOpen(h) /\ ~Fires(open, IsOpen(h), THome, t) /\ ~open.active
      BY <2>2, <2>6, <3>3 DEF Timed
    <3> QED
      BY <3>1, <3>2, <3>3
  <2>8. fist'.active => notFist' <= fist'.since
    <3>1. CASE ~IsFist(h) \/ Fires(fist, IsFist(h), TBack, t)
      BY <2>2, <3>1 DEF Timed, TimerOff, KeptState, Timer
    <3>2. CASE IsFist(h) /\ ~Fires(fist, IsFist(h), TBack, t) /\ fist.active
      <4>1. fist' = fist /\ notFist' = notFist
        BY <2>2, <2>3, <2>5, <3>2 DEF Timed
      <4> QED
        BY <4>1 DEF InStep
    <3>3. CASE IsFist(h) /\ ~Fires(fist, IsFist(h), TBack, t) /\ ~fist.active
      BY <2>2, <2>6, <3>3 DEF Timed
    <3> QED
      BY <3>1, <3>2, <3>3
  <2>9. InStep'
    BY <1>1, <2>2, <2>5, <2>6, <2>7, <2>8 DEF InStep, Anchor
  <2>10. ASSUME NEW i \in DOMAIN gestures', gestures'[i].type = "DRAG_END"
         PROVE  gestures'[i].pos = shown'
    <3> DEFINE e == ShapesAt(h, p, t)
    <3>1. e \in ShapeEvents
      BY OneShape
    <3>2. e # <<>> => e[1].type # "DRAG_END"
      BY <3>1 DEF ShapeEvents, mk
    <3> HIDE DEF e
    <3>3. out' # <<>> /\ gestures'[i] = out'[1]
      BY <2>2, <2>10, <3>1, <3>2, GesturesOfFrame DEF e
    <3> QED
      BY <2>2, <2>5, <2>10, <3>3, CallMovesAnchors
  <2> QED
    BY <2>4, <2>9, <2>10
<1> QED
  BY <1>3, <1>4 DEF Observed

\* HOME and BACK are earned by the hand, and a drag ends where the pointer was
\* last shown, for every value of the constants.
THEOREM ReportsAreTrue == NSpec => ShapesEarned /\ DragEndsWhereShown
<1> DEFINE Earned == /\ Sent("HOME") => now' - notOpen > THome
                     /\ Sent("BACK") => now' - notFist > TBack
           Ends == \A i \in DOMAIN gestures' :
                     gestures'[i].type = "DRAG_END" => gestures'[i].pos = shown'
<1>1. NInit => InStep
  BY BoundAssumption DEF NInit, CoreInit, Init, InStep, Anchor
<1>2. KeptState /\ CoreTypeOK' /\ InStep /\ NNext => InStep' /\ Earned /\ Ends
  BY StepIsObserved, FrameKeepsStep DEF CoreTypeOK
<1>3. InStep /\ UNCHANGED nvars => InStep'
  BY DEF InStep, nvars, noted, allVars, vars, coreVars
<1> HIDE DEF Earned, Ends
<1>4. KeptState /\ CoreTypeOK' /\ InStep /\ [NNext]_nvars => InStep' /\ [Earned]_nvars /\ [Ends]_nvars
  BY <1>2, <1>3
<1>5. NSpec => [][Earned]_nvars /\ [][Ends]_nvars
  BY <1>1, <1>4, HistoryIsHarmless, PTL DEF NSpec
<1> QED
  BY <1>5 DEF Earned, Ends, ShapesEarned, DragEndsWhereShown

-----------------------------------------------------------------------------
\* The last value of a filter that has one lies among the tips of the hand, on
\* axis n.
Spanned(axis, n) ==
  axis.primed => \E a, b \in tips : a[n] <= axis.last /\ axis.last <= b[n]

\* Why nothing is inherited: without a hand everything is as new, and with one
\* what the filters hold was reported for it.
NewOrOwn ==
  /\ appeared \in Nat /\ appeared <= now /\ tips \subseteq Samples
  /\ IF frame.present
     THEN Spanned(fx, 1) /\ Spanned(fy, 2)
     ELSE /\ fx = FilterReset /\ fy = FilterReset /\ ~pinched
          /\ ~open.active /\ ~fist.active /\ state = "Idle"

\* What a filter answers lies among the tips, this one included, and so does
\* what it holds from then on.
LEMMA AnswerSpanned ==
  ASSUME NEW axis \in Axis, NEW n \in {1, 2}, NEW tip \in Samples,
         NEW dt \in Int, NEW y \in Answers(axis, tip[n], dt), tips \subseteq Samples,
         Spanned(axis, n), tips' = tips \cup {tip}
  PROVE  /\ \E a, b \in tips' : a[n] <= y /\ y <= b[n]
         /\ Filtered(axis, y).primed =>
              \E a, b \in tips' : a[n] <= Filtered(axis, y).last
                                /\ Filtered(axis, y).last <= b[n]
<1>1. \A a \in Samples : a[n] \in Int
  BY CoreAssumption
<1>2. axis.last \in Int /\ axis.primed \in BOOLEAN /\ axis.seen \in BOOLEAN
  BY CoreAssumption DEF Axis
<1>3. CASE ~axis.primed
  <2>1. y = tip[n]
    BY <1>3 DEF Answers
  <2>2. \E a, b \in tips' : a[n] <= y /\ y <= b[n]
    BY <1>1, <2>1
  <2>3. Filtered(axis, y).primed => Filtered(axis, y).last = y
    BY <1>3 DEF Filtered, Axis
  <2> QED
    BY <2>2, <2>3
<1>4. CASE axis.primed
  <2>1. PICK a, b \in tips : a[n] <= axis.last /\ axis.last <= b[n]
    BY <1>4 DEF Spanned
  <2>2. /\ y \in Int
        /\ \/ axis.last <= y /\ y <= tip[n]
           \/ tip[n] <= y /\ y <= axis.last
    <3>1. y \in Between(axis.last, tip[n])
      BY <1>4 DEF Answers, StepOf
    <3> QED
      BY <1>1, <1>2, <3>1 DEF Between
  <2>3. a[n] \in Int /\ b[n] \in Int /\ tip[n] \in Int
    BY <1>1
  <2>4. \E c, d \in tips' : c[n] <= y /\ y <= d[n]
    BY <2>1, <2>2, <2>3, <1>2
  <2>5. Filtered(axis, y).last \in {axis.last, y}
    BY DEF Filtered, Axis
  <2> QED
    BY <2>1, <2>4, <2>5
<1> QED
  BY <1>2, <1>3, <1>4

\* A running timer was started in this frame or before it.
LEMMA TimerSince ==
  ASSUME NEW timer \in Timer, NEW held, NEW limit, NEW t
  PROVE  Timed(timer, held, limit, t).active =>
           \/ Timed(timer, held, limit, t).since = t
           \/ timer.active /\ Timed(timer, held, limit, t).since = timer.since
BY DEF Timed, TimerOff, Timer

\* A frame brings in nothing of the hand before (engine_core.cpp:19-30).
LEMMA FrameInheritsNothing ==
  ASSUME KeptState, CoreTypeOK, NewOrOwn, NothingInherited, NEW t, Observed(t)
  PROVE  NewOrOwn' /\ NothingInherited'
<1>1. t \in Nat /\ now \in Nat /\ now <= t /\ now' = t /\ appeared \in Nat /\ appeared <= now
  BY BoundAssumption DEF Observed, NewOrOwn
<1>2. CASE HandGone(t) /\ NoteNoHand
  <2>1. /\ frame' = Absent(prev.pos) /\ Update(frame', t)
        /\ fx' = FilterReset /\ fy' = FilterReset /\ ~pinched'
        /\ open' = TimerOff(open) /\ fist' = TimerOff(fist)
    BY <1>2 DEF HandGone
  <2>2. ~frame'.present /\ state' = "Idle"
    BY <2>1, CallMovesAnchors DEF Absent
  <2>3. ~open'.active /\ ~fist'.active
    BY <2>1 DEF TimerOff, KeptState, Timer
  <2> QED
    BY <1>1, <1>2, <2>1, <2>2, <2>3 DEF NewOrOwn, NothingInherited, NoteNoHand
<1>3. CASE \E h \in Hands, s \in Shadows : HandSeen(h, s, t) /\ NoteHand(h)
  <2>1. PICK h \in Hands, s \in Shadows : HandSeen(h, s, t) /\ NoteHand(h)
    BY <1>3
  <2>0. PICK dt \in Int :
          \E x \in Answers(fx, h.tip[1], dt), y \in Answers(fy, h.tip[2], dt), p \in Pos :
            /\ p = Surface[<<x, y>>] /\ x \in Coord /\ y \in Coord
            /\ fx' = Filtered(fx, x) /\ fy' = Filtered(fy, y)
            /\ pinched' = Pinched(pinched, h.ratio)
            /\ open' = Timed(open, IsOpen(h), THome, t)
            /\ fist' = Timed(fist, IsFist(h), TBack, t)
            /\ frame'.present /\ frame'.pos = p /\ Update(frame', t)
            /\ pointer' = <<p>> /\ gestures' = ShapesAt(h, p, t) \o out'
            /\ prev' = Anchor(p, t)
    BY <1>1, <2>1, PartsOfSeen
  <2>2. PICK x \in Answers(fx, h.tip[1], dt), y \in Answers(fy, h.tip[2], dt), p \in Pos :
          /\ p = Surface[<<x, y>>] /\ x \in Coord /\ y \in Coord
          /\ fx' = Filtered(fx, x) /\ fy' = Filtered(fy, y)
          /\ pinched' = Pinched(pinched, h.ratio)
          /\ open' = Timed(open, IsOpen(h), THome, t)
          /\ fist' = Timed(fist, IsFist(h), TBack, t)
          /\ frame'.present /\ Update(frame', t) /\ pointer' = <<p>>
    BY <2>0
  <2>3. /\ appeared' = IF frame.present THEN appeared ELSE t
        /\ tips' = tips \cup {h.tip} /\ gripped' = (gripped \/ h.ratio < PinchOn)
    BY <1>1, <2>1 DEF NoteHand
  <2>4. h.tip \in Samples /\ tips \subseteq Samples
    BY DEF Hands, NewOrOwn
  <2>5. Spanned(fx, 1) /\ Spanned(fy, 2)
    BY DEF NewOrOwn, Spanned, FilterReset
  <2>6. /\ \E a, b \in tips' : a[1] <= x /\ x <= b[1]
        /\ fx'.primed => \E a, b \in tips' : a[1] <= fx'.last /\ fx'.last <= b[1]
    BY <2>2, <2>3, <2>4, <2>5, AnswerSpanned DEF KeptState
  <2>7. /\ \E a, b \in tips' : a[2] <= y /\ y <= b[2]
        /\ fy'.primed => \E a, b \in tips' : a[2] <= fy'.last /\ fy'.last <= b[2]
    BY <2>2, <2>3, <2>4, <2>5, AnswerSpanned DEF KeptState
  <2>8. appeared' \in Nat /\ appeared' <= t
    BY <1>1, <2>3
  <2>9. NewOrOwn'
    BY <1>1, <2>2, <2>3, <2>4, <2>6, <2>7, <2>8 DEF NewOrOwn, Spanned
  <2>10. \E c \in Coord \X Coord : InBox(c)' /\ pointer' = <<Surface[c]>>
    <3>1. InBox(<<x, y>>)'
      BY <2>6, <2>7 DEF InBox
    <3> QED
      BY <2>2, <3>1
  <2>11. pinched' => gripped'
    <3>1. CASE pinched
      BY <2>3, <3>1 DEF NewOrOwn, NothingInherited
    <3>2. CASE ~pinched
      BY <2>2, <2>3, <3>2 DEF Pinched
    <3> QED
      BY <3>1, <3>2
  <2>12. /\ open'.active => open'.since >= appeared'
         /\ fist'.active => fist'.since >= appeared'
    <3>1. open \in Timer /\ fist \in Timer
      BY DEF KeptState
    <3>2. frame.present \/ (~open.active /\ ~fist.active)
      BY DEF NewOrOwn
    <3> QED
      BY <1>1, <2>2, <2>3, <2>8, <3>1, <3>2, TimerSince DEF NothingInherited
  <2>13. /\ state' = "Tracking" => dwell'.at >= appeared'
         /\ state' = "Engaged" => engage'.at >= appeared'
    <3>1. frame.present \/ state = "Idle"
      BY DEF NewOrOwn
    <3> QED
      BY <1>1, <2>2, <2>3, <2>8, <3>1, CallMovesAnchors DEF NothingInherited
  <2> QED
    BY <2>9, <2>10, <2>11, <2>12, <2>13 DEF NothingInherited
<1> QED
  BY <1>2, <1>3 DEF Observed

\* A hand that appears inherits nothing from the hand before, for every value of
\* the constants.
THEOREM InheritsNothing == NSpec => []NothingInherited
<1>1. NInit => NewOrOwn /\ NothingInherited
  BY BoundAssumption DEF NInit, CoreInit, Init, FsmInit, Absent, NewOrOwn, NothingInherited
<1>2. KeptState /\ CoreTypeOK /\ NewOrOwn /\ NothingInherited /\ [NNext]_nvars
      => NewOrOwn' /\ NothingInherited'
  <2>1. ASSUME KeptState, CoreTypeOK, NewOrOwn, NothingInherited, NNext
        PROVE  NewOrOwn' /\ NothingInherited'
    BY <2>1, StepIsObserved, FrameInheritsNothing
  <2>2. ASSUME NewOrOwn, NothingInherited, UNCHANGED nvars
        PROVE  NewOrOwn' /\ NothingInherited'
    BY <2>2 DEF NewOrOwn, Spanned, NothingInherited, InBox, nvars, noted, allVars, vars, coreVars
  <2> QED
    BY <2>1, <2>2
<1> QED
  BY <1>1, <1>2, HistoryIsHarmless, PTL DEF NSpec
==============================================================================
