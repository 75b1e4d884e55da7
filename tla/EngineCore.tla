------------------------------ MODULE EngineCore ------------------------------
(***************************************************************************)
(* EngineCore::update (services/engine/src/engine_core.cpp): one frame of  *)
(* the hand stream through filter (N2), homography (N3), contact fusion    *)
(* (N4), the HOME and BACK timers, the gesture recogniser (N5, extended    *)
(* here) and the pointer event (N6).                                       *)
(***************************************************************************)
EXTENDS GestureFsm, OneEuro, ContactFusion

CONSTANTS
  Samples,       \* the index tips perception may report, pairs of coordinates
  Surface,       \* the homography with its clamp: pair of coordinates -> point
  Ratios,        \* pinch ratios perception may report
  Fingers,       \* counts of extended fingers perception may report
  Shadows,       \* shadow channel states perception may report
  SwipeSpeed,    \* swipe_speed, distance per tick
  THome, TBack   \* t_home_s, t_back_s

ASSUME CoreAssumption ==
  /\ 0 \in Coord /\ Samples \subseteq Coord \X Coord
  /\ \A a, b \in Coord : Between(a, b) \subseteq Coord
  /\ Coord \subseteq Int
  /\ Surface \in [Coord \X Coord -> Pos]
  /\ Ratios \subseteq Nat /\ Fingers \subseteq 0 .. 4
  /\ NoShadow \in Shadows
  /\ Shadows \subseteq [engaged : BOOLEAN, confidence : Nat]
  /\ SwipeSpeed \in Nat \ {0} /\ THome \in Nat /\ TBack \in Nat

\* What a HandState with present = 1 says, as far as the engine uses it.
Hands == [tip : Samples, ratio : Ratios, fingers : Fingers]

Timer == [active : BOOLEAN, since : 0 .. MaxTime]

VARIABLES
  fx, fy,      \* fx_, fy_
  pinched,     \* fusion_.pinch_engaged_
  havePrev,    \* have_prev_
  prev,        \* prev_u_, prev_v_, prev_t_
  open,        \* open_active_, open_since_
  fist,        \* fist_active_, fist_since_
  pointer,     \* the position of the pointer event of the last frame, if any
  gestures     \* the gestures of the last frame

coreVars == <<fx, fy, pinched, havePrev, prev, open, fist, pointer, gestures>>
allVars == <<vars, coreVars>>

ShapeEvents == {<<>>} \cup {<<mk(n, p, p)>> : n \in {"HOME", "BACK"}, p \in Pos}

CoreTypeOK ==
  /\ TypeOK
  /\ fx \in Axis /\ fy \in Axis
  /\ pinched \in BOOLEAN /\ havePrev \in BOOLEAN
  /\ prev \in Stamp
  /\ open \in Timer /\ fist \in Timer
  /\ pointer \in {<<>>} \cup {<<p>> : p \in Pos}
  /\ \E s \in ShapeEvents : gestures = s \o out

-----------------------------------------------------------------------------
TimerOff(timer) == [timer EXCEPT !.active = FALSE]

\* A shape held longer than the limit fires once and is timed anew.
Fires(timer, held, limit, t) == held /\ timer.active /\ t - timer.since > limit

\* Fault: the timer is not consumed when it fires.
TimedWithoutRestart(timer, held, limit, t) ==
  IF ~held THEN TimerOff(timer)
  ELSE IF timer.active THEN timer ELSE [active |-> TRUE, since |-> t]

Timed(timer, held, limit, t) ==
  IF ~held \/ Fires(timer, held, limit, t) THEN TimerOff(timer)
  ELSE IF timer.active THEN timer
  ELSE [active |-> TRUE, since |-> t]

IsOpen(h) == h.fingers >= 4
IsFist(h) == h.fingers = 0

\* The speed of the hand, as the class the recogniser tells apart.
PaceAt(p, t) ==
  LET way == Dist[<<p, prev.pos>>]
      dt == t - prev.at
  IN IF ~havePrev \/ dt <= 0 \/ 2 * way < SwipeSpeed * dt THEN "settled"
     ELSE IF way > SwipeSpeed * dt THEN "fast" ELSE "moving"

\* Fault: the filters are not reset.
HandGoneKeepsFilter(t) ==
  /\ frame' = Absent(prev.pos) /\ Update(frame', t)
  /\ havePrev' = FALSE /\ open' = TimerOff(open) /\ fist' = TimerOff(fist)
  /\ pinched' = FALSE /\ pointer' = <<>> /\ gestures' = out'
  /\ UNCHANGED <<prev, fx, fy>>

\* Fault: the recogniser is told a wrong position.
HandGoneAtOrigin(t) ==
  /\ frame' = Absent(Origin) /\ Update(frame', t)
  /\ havePrev' = FALSE /\ UNCHANGED prev
  /\ open' = TimerOff(open) /\ fist' = TimerOff(fist)
  /\ fx' = FilterReset /\ fy' = FilterReset /\ pinched' = FALSE
  /\ pointer' = <<>> /\ gestures' = out'

\* Fault: the recogniser is not told.
HandGoneReturnsEarly(t) ==
  /\ frame' = Absent(prev.pos) /\ Quiet /\ UNCHANGED fsmVars
  /\ havePrev' = FALSE /\ UNCHANGED prev
  /\ open' = TimerOff(open) /\ fist' = TimerOff(fist)
  /\ fx' = FilterReset /\ fy' = FilterReset /\ pinched' = FALSE
  /\ pointer' = <<>> /\ gestures' = <<>>

\* A frame without a hand.
HandGone(t) ==
  /\ frame' = Absent(prev.pos)
  /\ Update(frame', t)
  /\ havePrev' = FALSE /\ UNCHANGED prev
  /\ open' = TimerOff(open) /\ fist' = TimerOff(fist)
  /\ fx' = FilterReset /\ fy' = FilterReset /\ pinched' = FALSE
  /\ pointer' = <<>> /\ gestures' = out'

\* The shape event of a frame whose pointer is at p.
ShapesAt(h, p, t) ==
  (IF Fires(open, IsOpen(h), THome, t) THEN <<mk("HOME", p, p)>> ELSE <<>>) \o
  (IF Fires(fist, IsFist(h), TBack, t) THEN <<mk("BACK", p, p)>> ELSE <<>>)

\* A frame with hand h and shadow channel s.  While a hand is in sight the filters' last
\* sample is that of the frame before, at prev.at.
HandSeen(h, s, t) ==
  \E x \in Answers(fx, h.tip[1], t - prev.at), y \in Answers(fy, h.tip[2], t - prev.at) :
    LET p == Surface[<<x, y>>] IN
    /\ fx' = Filtered(fx, x) /\ fy' = Filtered(fy, y)
    /\ pinched' = Pinched(pinched, h.ratio)
    /\ open' = Timed(open, IsOpen(h), THome, t)
    /\ fist' = Timed(fist, IsFist(h), TBack, t)
    /\ frame' = [present |-> TRUE, pos |-> p, pace |-> PaceAt(p, t),
                 engaged |-> Engages(pinched', s)]
    /\ Update(frame', t)
    /\ pointer' = <<p>>
    /\ gestures' = ShapesAt(h, p, t) \o out'
    /\ prev' = Anchor(p, t) /\ havePrev' = TRUE

CoreInit ==
  /\ Init
  /\ fx = FilterReset /\ fy = FilterReset
  /\ pinched = FALSE /\ havePrev = FALSE /\ prev = Anchor(Origin, 0)
  /\ open = [active |-> FALSE, since |-> 0] /\ fist = [active |-> FALSE, since |-> 0]
  /\ pointer = <<>> /\ gestures = <<>>

CoreNext ==
  \E d \in MinStep .. MaxStep :
    /\ now + d <= MaxTime
    /\ now' = now + d
    /\ \/ HandGone(now + d)
       \/ \E h \in Hands, s \in Shadows : HandSeen(h, s, now + d)

CoreSpec == CoreInit /\ [][CoreNext]_allVars

-----------------------------------------------------------------------------
\* Every frame of the engine is a call the recogniser is specified for: times
\* never go back, and a lost hand is reported at the position it was last seen
\* (engine_core.cpp:21, 78).
DrivesRecogniser == Spec

Stream == INSTANCE GestureProtocol
  WITH dragging <- state = "Dragging", pointing <- pointer # <<>>,
       events <- [i \in DOMAIN gestures |-> gestures[i].type]

\* What the engine sends follows the grammar of GestureProtocol also with HOME
\* and BACK mixed in: at most one of them per frame, ahead of the recogniser's
\* event, a pointer event with every frame that shows a hand, and nothing but
\* the end of a drag with the others (engine_core.cpp:19-30, 52-84).
StreamGrammarKept == Stream!PSpec
==============================================================================
