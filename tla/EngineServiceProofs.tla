------------------------- MODULE EngineServiceProofs -------------------------
(***************************************************************************)
(* Theorems about EngineService: the receive loop implements EngineCore,   *)
(* for every capacity of the socket and however long frames wait in it, so *)
(* that what EngineCoreProofs proves of the core holds in the service.     *)
(***************************************************************************)
EXTENDS EngineService, EngineCoreProofs

Stamps == 0 .. MaxTime
HandMsgs == [kind : {"hand"}, hand : Hands, stamp : Stamps]
NoHandMsgs == [kind : {"nohand"}, stamp : Stamps]
ContactMsgs == [kind : {"contact"}, shadow : Shadows]
InMsgs == HandMsgs \cup NoHandMsgs \cup ContactMsgs \cup {Malformed}

\* Messages that are frames of the hand stream, and so carry a time.
Frames == HandMsgs \cup NoHandMsgs

\* The clock is ahead of the core, and the shadow channel says what perception may say.
ClockOK == /\ clock \in 1 .. MaxTime /\ now \in 0 .. clock
           /\ inbox \in Seq(InMsgs) /\ shadow \in Shadows

\* The frames that wait carry no time, or times of capture: in their order, none before
\* the frame the core saw last and none ahead of the clock.
StampsInOrder ==
  /\ \A i \in DOMAIN inbox : inbox[i] \in Frames =>
       IF stamped THEN inbox[i].stamp # 0 /\ now <= inbox[i].stamp /\ inbox[i].stamp <= clock
                  ELSE inbox[i].stamp = 0
  /\ stamped => \A i, j \in DOMAIN inbox :
       i < j /\ inbox[i] \in Frames /\ inbox[j] \in Frames => inbox[i].stamp <= inbox[j].stamp

ServiceInv == ClockOK /\ StampsInOrder

-----------------------------------------------------------------------------
\* A frame at a time that is not before the last one is a step of the core.
LEMMA FrameIsStep ==
  ASSUME NEW t, now \in Nat, t \in 0 .. MaxTime, now <= t, now' = t,
         HandGone(t) \/ \E h \in Hands, s \in Shadows : HandSeen(h, s, t)
  PROVE  CoreNext
<1>1. t - now \in MinStep .. MaxStep /\ now + (t - now) = t
  BY BoundAssumption, ServiceAssumption
<1>2. \E d \in MinStep .. MaxStep : now + d = t
  BY <1>1
<1>3. PICK d \in MinStep .. MaxStep : now + d = t
  BY <1>2
<1>4. t <= MaxTime
  OBVIOUS
<1> QED
  BY <1>3, <1>4 DEF CoreNext

\* The message at the head of the socket, and what is left behind it.
LEMMA HeadAndRest ==
  ASSUME ServiceInv, inbox # <<>>
  PROVE  LET n == Len(inbox) IN
         /\ n \in Nat \ {0} /\ DOMAIN inbox = 1 .. n
         /\ inbox[1] = Head(inbox) /\ Head(inbox) \in InMsgs
         /\ Tail(inbox) \in Seq(InMsgs) /\ DOMAIN Tail(inbox) = 1 .. n - 1
         /\ \A i \in 1 .. n - 1 : Tail(inbox)[i] = inbox[i + 1]
<1>1. inbox \in Seq(InMsgs)
  BY DEF ServiceInv, ClockOK
<1>2. Len(inbox) \in Nat \ {0} /\ DOMAIN inbox = 1 .. Len(inbox)
  BY <1>1, EmptySeq, LenProperties
<1>3. /\ Head(inbox) \in InMsgs /\ Tail(inbox) \in Seq(InMsgs)
      /\ Len(Tail(inbox)) = Len(inbox) - 1
      /\ \A i \in 1 .. Len(Tail(inbox)) : Tail(inbox)[i] = inbox[i + 1]
  BY <1>1, HeadTailProperties
<1>4. DOMAIN Tail(inbox) = 1 .. Len(inbox) - 1
  BY <1>3, LenProperties
<1>5. inbox[1] = Head(inbox)
  BY <1>1, <1>2
<1> QED
  BY <1>2, <1>3, <1>4, <1>5

\* Taking a message keeps times in order: a frame is given a time that is not before
\* the last one, and none of those that wait is behind it (main.cpp:68-104).
LEMMA TakingKeepsOrder ==
  ASSUME ServiceInv, inbox # <<>>, inbox' = Tail(inbox), UNCHANGED <<stamped, clock>>,
         shadow' \in Shadows,
         now' = IF Head(inbox) \in Frames THEN TimeOf(Head(inbox)) ELSE now
  PROVE  ServiceInv' /\ now <= now' /\ now' \in 0 .. MaxTime
<1> DEFINE n == Len(inbox)
<1>1. /\ n \in Nat \ {0} /\ DOMAIN inbox = 1 .. n /\ inbox[1] = Head(inbox)
      /\ inbox' \in Seq(InMsgs) /\ DOMAIN inbox' = 1 .. n - 1
      /\ \A i \in 1 .. n - 1 : inbox'[i] = inbox[i + 1]
  BY HeadAndRest, Zenon
<1>2. \A i \in 1 .. n - 1 : i + 1 \in 1 .. n /\ 1 < i + 1
  BY <1>1
<1>3. clock \in 1 .. MaxTime /\ now \in 0 .. clock /\ MaxTime \in Nat
  BY BoundAssumption DEF ServiceInv, ClockOK
<1>4. \A i \in 1 .. n : inbox[i] \in Frames => inbox[i].stamp \in Nat
  BY BoundAssumption DEF Frames, HandMsgs, NoHandMsgs, Stamps
<1> DEFINE InTime(i, t) == IF stamped THEN /\ inbox[i].stamp # 0
                                           /\ t <= inbox[i].stamp /\ inbox[i].stamp <= clock
                                      ELSE inbox[i].stamp = 0
<1>5. \A i \in 1 .. n : inbox[i] \in Frames => InTime(i, now)
  BY <1>1, Zenon DEF ServiceInv, StampsInOrder
<1>6. now' \in 0 .. clock /\ now <= now'
  <2>1. CASE Head(inbox) \in Frames
    <3>1. 1 \in 1 .. n /\ inbox[1] \in Frames
      BY <1>1, <2>1
    <3>2. now' = IF inbox[1].stamp # 0 THEN inbox[1].stamp ELSE clock
      BY <1>1, <2>1 DEF TimeOf
    <3> QED
      BY <1>3, <1>4, <1>5, <3>1, <3>2
  <2>2. CASE Head(inbox) \notin Frames
    BY <1>3, <2>2
  <2> QED
    BY <2>1, <2>2
<1>7. ClockOK'
  BY <1>1, <1>3, <1>6 DEF ClockOK
<1>8. ASSUME NEW i \in 1 .. n - 1, inbox'[i] \in Frames
      PROVE  IF stamped THEN inbox'[i].stamp # 0 /\ now' <= inbox'[i].stamp /\ inbox'[i].stamp <= clock
                        ELSE inbox'[i].stamp = 0
  <2>1. i + 1 \in 1 .. n /\ 1 < i + 1 /\ inbox'[i] = inbox[i + 1] /\ inbox[i + 1] \in Frames
    BY <1>1, <1>2, <1>8
  <2>2. InTime(i + 1, now) /\ inbox[i + 1].stamp \in Nat
    BY <1>4, <1>5, <2>1
  <2>3. CASE ~stamped
    BY <2>1, <2>2, <2>3
  <2>4. CASE stamped /\ Head(inbox) \notin Frames
    BY <2>1, <2>2, <2>4
  <2>5. CASE stamped /\ Head(inbox) \in Frames
    <3>1. 1 \in 1 .. n /\ inbox[1] \in Frames
      BY <1>1, <2>5
    <3>2. inbox[1].stamp <= inbox[i + 1].stamp
      BY <1>1, <2>1, <2>5, <3>1 DEF ServiceInv, StampsInOrder
    <3>3. now' = inbox[1].stamp
      BY <1>1, <1>5, <2>5, <3>1 DEF TimeOf
    <3> QED
      BY <2>1, <2>2, <2>5, <3>2, <3>3
  <2> QED
    BY <2>3, <2>4, <2>5
<1>9. ASSUME stamped, NEW i \in 1 .. n - 1, NEW j \in 1 .. n - 1, i < j,
             inbox'[i] \in Frames, inbox'[j] \in Frames
      PROVE  inbox'[i].stamp <= inbox'[j].stamp
  <2>1. i + 1 \in 1 .. n /\ j + 1 \in 1 .. n /\ i + 1 < j + 1
    BY <1>1, <1>9
  <2> QED
    BY <1>1, <1>9, <2>1 DEF ServiceInv, StampsInOrder
<1>10. StampsInOrder'
  BY <1>1, <1>8, <1>9, Zenon DEF StampsInOrder
<1> QED
  BY <1>3, <1>6, <1>7, <1>10 DEF ServiceInv

\* A message sent is the last, with the time of the clock if it carries one.
LEMMA SendingKeepsOrder ==
  ASSUME ServiceInv, PerceptionSends PROVE ServiceInv'
<1> DEFINE n == Len(inbox)
<1>1. PICK m : /\ m \in {HandMsg(h) : h \in Hands} \cup {ContactMsg(s) : s \in Shadows}
                          \cup {NoHandMsg, Malformed}
               /\ inbox' = Append(inbox, m)
  BY DEF PerceptionSends
<1>2. UNCHANGED <<stamped, clock, now, shadow>>
  BY DEF PerceptionSends, allVars, vars, loopVars
<1>3. /\ clock \in 1 .. MaxTime /\ now \in 0 .. clock /\ inbox \in Seq(InMsgs) /\ MaxTime \in Nat
      /\ shadow \in Shadows
  BY BoundAssumption DEF ServiceInv, ClockOK
<1>4. /\ m \in InMsgs
      /\ m \in Frames => m.stamp = IF stamped THEN clock ELSE 0
  BY <1>1, <1>3 DEF HandMsg, NoHandMsg, ContactMsg, Malformed, InMsgs, HandMsgs, NoHandMsgs,
                    ContactMsgs, Frames, Stamps
<1>5. n \in Nat /\ DOMAIN inbox = 1 .. n
  BY <1>3, LenProperties
<1>6. /\ inbox' \in Seq(InMsgs) /\ Len(inbox') = n + 1
      /\ \A i \in 1 .. n : inbox'[i] = inbox[i]
      /\ inbox'[n + 1] = m
  BY <1>1, <1>3, <1>4, AppendProperties
<1>7. DOMAIN inbox' = 1 .. n + 1
  BY <1>6, LenProperties
<1>8. ClockOK'
  BY <1>2, <1>3, <1>6 DEF ClockOK
<1>9. ASSUME NEW i \in 1 .. n + 1, inbox'[i] \in Frames
      PROVE  IF stamped THEN inbox'[i].stamp # 0 /\ now <= inbox'[i].stamp /\ inbox'[i].stamp <= clock
                        ELSE inbox'[i].stamp = 0
  <2>1. CASE i = n + 1
    BY <1>3, <1>4, <1>6, <1>9, <2>1
  <2>2. CASE i # n + 1
    BY <1>5, <1>6, <1>9, <2>2 DEF ServiceInv, StampsInOrder
  <2> QED
    BY <2>1, <2>2
<1>10. ASSUME stamped, NEW i \in 1 .. n + 1, NEW j \in 1 .. n + 1, i < j,
              inbox'[i] \in Frames, inbox'[j] \in Frames
       PROVE  inbox'[i].stamp <= inbox'[j].stamp
  <2>1. i \in 1 .. n
    BY <1>5, <1>10
  <2>2. CASE j = n + 1
    BY <1>4, <1>6, <1>9, <1>10, <2>2
  <2>3. CASE j # n + 1
    BY <1>5, <1>6, <1>10, <2>1, <2>3 DEF ServiceInv, StampsInOrder
  <2> QED
    BY <2>2, <2>3
<1>11. StampsInOrder'
  BY <1>2, <1>7, <1>9, <1>10, Zenon DEF StampsInOrder
<1> QED
  BY <1>8, <1>11 DEF ServiceInv

-----------------------------------------------------------------------------
\* The service starts with the core at time 0 and nothing to take.
LEMMA ServiceStarts == ServiceInit => CoreInit /\ ServiceInv
<1> SUFFICES ASSUME ServiceInit PROVE CoreInit /\ ServiceInv
  OBVIOUS
<1>1. CoreInit /\ now = 0 /\ clock = 1 /\ shadow \in Shadows
  BY CoreAssumption DEF ServiceInit, CoreInit, Init
<1>2. inbox = <<>> /\ inbox \in Seq(InMsgs) /\ DOMAIN inbox = {}
  BY EmptySeq DEF ServiceInit
<1>3. ClockOK
  BY <1>1, <1>2, ServiceAssumption, BoundAssumption DEF ClockOK
<1>4. StampsInOrder
  BY <1>2 DEF StampsInOrder
<1> QED
  BY <1>1, <1>3, <1>4 DEF ServiceInv

\* A turn of the loop that takes a frame is a step of the core; every other step of the
\* service leaves the core alone (main.cpp:68-104).
LEMMA ServiceSteps ==
  ServiceInv /\ [ServiceNext]_serviceVars => [CoreNext]_allVars /\ ServiceInv'
<1> SUFFICES ASSUME ServiceInv, [ServiceNext]_serviceVars
             PROVE  [CoreNext]_allVars /\ ServiceInv'
  OBVIOUS
<1>1. /\ clock \in 1 .. MaxTime /\ now \in 0 .. clock /\ inbox \in Seq(InMsgs)
      /\ shadow \in Shadows /\ NoShadow \in Shadows /\ MaxTime \in Nat
  BY BoundAssumption, CoreAssumption DEF ServiceInv, ClockOK
<1>2. inbox # <<>> => Head(inbox) \in InMsgs
  BY HeadAndRest, Zenon
<1>3. ASSUME UNCHANGED <<now, inbox, stamped, shadow>>, clock' \in clock .. MaxTime
      PROVE  ServiceInv'
  <2>1. ClockOK'
    BY <1>1, <1>3 DEF ClockOK
  <2>2. \A i \in DOMAIN inbox : inbox[i] \in Frames => inbox[i].stamp \in Nat
    BY BoundAssumption DEF Frames, HandMsgs, NoHandMsgs, Stamps
  <2>3. StampsInOrder'
    BY <1>1, <1>3, <2>2 DEF ServiceInv, StampsInOrder
  <2> QED
    BY <2>1, <2>3 DEF ServiceInv
<1>4. CASE Tick
  <2>1. UNCHANGED allVars /\ UNCHANGED <<now, inbox, stamped, shadow>> /\ clock' \in clock .. MaxTime
    BY <1>1, <1>4 DEF Tick, allVars, vars, loopVars
  <2> QED
    BY <1>3, <2>1
<1>5. CASE PerceptionSends
  BY <1>5, SendingKeepsOrder DEF PerceptionSends
<1>6. CASE PerceptionGone \/ EndSession \/ UNCHANGED serviceVars
  <2>1. UNCHANGED allVars /\ UNCHANGED <<now, inbox, stamped, shadow>> /\ clock' \in clock .. MaxTime
    BY <1>1, <1>6 DEF PerceptionGone, EndSession, serviceVars, allVars, vars, loopVars
  <2> QED
    BY <1>3, <2>1
<1>7. CASE TakeContact
  <2>1. /\ inbox # <<>> /\ Head(inbox).kind = "contact" /\ inbox' = Tail(inbox)
        /\ UNCHANGED <<stamped, clock>> /\ shadow' = Head(inbox).shadow /\ UNCHANGED allVars
    BY <1>7 DEF TakeContact, Taken
  <2>2. Head(inbox) \in ContactMsgs /\ Head(inbox) \notin Frames
    BY <1>2, <2>1 DEF InMsgs, HandMsgs, NoHandMsgs, Malformed, Frames
  <2>3. shadow' \in Shadows /\ now' = now
    BY <2>1, <2>2 DEF ContactMsgs, allVars, vars
  <2> QED
    BY <2>1, <2>2, <2>3, TakingKeepsOrder
<1>8. CASE DropMalformed
  <2>1. /\ inbox # <<>> /\ Head(inbox).kind = "malformed" /\ inbox' = Tail(inbox)
        /\ UNCHANGED <<stamped, clock, shadow>> /\ UNCHANGED allVars
    BY <1>8 DEF DropMalformed, Taken
  <2>2. Head(inbox) \notin Frames
    BY <2>1 DEF HandMsgs, NoHandMsgs, Frames
  <2>3. now' = now
    BY <2>1 DEF allVars, vars
  <2> QED
    BY <1>1, <2>1, <2>2, <2>3, TakingKeepsOrder
<1>9. CASE TakeNoHand
  <2>1. /\ inbox # <<>> /\ Head(inbox).kind = "nohand" /\ inbox' = Tail(inbox)
        /\ UNCHANGED <<stamped, clock, shadow>> /\ now' = TimeOf(Head(inbox)) /\ HandGone(now')
    BY <1>9 DEF TakeNoHand, Taken
  <2>2. Head(inbox) \in Frames
    BY <1>2, <2>1 DEF InMsgs, HandMsgs, ContactMsgs, Malformed, Frames
  <2>3. ServiceInv' /\ now <= now' /\ now' \in 0 .. MaxTime
    BY <1>1, <2>1, <2>2, TakingKeepsOrder
  <2>4. CoreNext
    BY <1>1, <2>1, <2>3, FrameIsStep
  <2> QED
    BY <2>3, <2>4
<1>10. CASE TakeHand
  <2>1. /\ inbox # <<>> /\ Head(inbox).kind = "hand" /\ inbox' = Tail(inbox)
        /\ UNCHANGED <<stamped, clock, shadow>> /\ now' = TimeOf(Head(inbox))
        /\ HandSeen(Head(inbox).hand, IF haveShadow THEN shadow ELSE NoShadow, now')
    BY <1>10 DEF TakeHand, Taken
  <2>2. Head(inbox) \in HandMsgs /\ Head(inbox) \in Frames
    BY <1>2, <2>1 DEF InMsgs, NoHandMsgs, ContactMsgs, Malformed, Frames
  <2>3. ServiceInv' /\ now <= now' /\ now' \in 0 .. MaxTime
    BY <1>1, <2>1, <2>2, TakingKeepsOrder
  <2>4. /\ Head(inbox).hand \in Hands
        /\ (IF haveShadow THEN shadow ELSE NoShadow) \in Shadows
    BY <1>1, <2>2 DEF HandMsgs
  <2>5. \E h \in Hands, s \in Shadows : HandSeen(h, s, now')
    BY <2>1, <2>4
  <2>6. CoreNext
    BY <1>1, <2>3, <2>5, FrameIsStep
  <2> QED
    BY <2>3, <2>6
<1> QED
  BY <1>4, <1>5, <1>6, <1>7, <1>8, <1>9, <1>10 DEF ServiceNext, Turn

\* The receive loop implements the core: one update per frame, none for anything else,
\* and times that never go back, whether frames carry their time of capture or not and
\* however long they waited (main.cpp:68-104, engine_core.hpp:35).
THEOREM ServiceImplementsCore == ServiceSpec => ServiceDrivesCore
<1> QED
  BY ServiceStarts, ServiceSteps, PTL DEF ServiceSpec, ServiceDrivesCore, CoreSpec

\* So what is proved of the core holds in the service: its state keeps its types, the
\* recogniser is driven as it is specified for, and what is sent to the user interface
\* follows the grammar of gestures (main.cpp:68-104, engine_core.cpp:19-122).
THEOREM ServiceKeepsGrammar ==
  ServiceSpec => []CoreTypeOK /\ DrivesRecogniser /\ StreamGrammarKept
<1> QED
  BY ServiceImplementsCore, CoreTypeCorrect, CoreDrivesRecogniser, CoreImplementsProtocol, PTL
     DEF ServiceDrivesCore
==============================================================================
