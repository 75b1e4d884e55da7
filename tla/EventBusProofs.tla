---------------------------- MODULE EventBusProofs ----------------------------
(***************************************************************************)
(* Theorems about EventBus, for every capacity of the socket: sequence     *)
(* numbers tell the receiver exactly what was given up, and the stream it  *)
(* sees follows the grammar of the stream the engine sends.                *)
(***************************************************************************)
EXTENDS EventBus, SequenceTheorems, TLAPS

\* The numbers from the last one received to the next one to give belong, each
\* to one message, to those in the socket and those given up.
Numbering ==
  /\ outSeq + Len(outbox) < LastSeq
  /\ lastSeq < outSeq
  /\ \A i \in DOMAIN queue : /\ lastSeq < queue[i].seq /\ queue[i].seq < outSeq
                             /\ queue[i].seq \notin dropped
  /\ \A i, j \in DOMAIN queue : i < j => queue[i].seq < queue[j].seq
  /\ \A s \in dropped : s < outSeq
  /\ ui = "up" => \A s \in lastSeq + 1 .. outSeq - 1 :
                    s \in dropped \/ \E i \in DOMAIN queue : queue[i].seq = s

\* What a message asks of the bracket before it, and makes of it.
Grammatical(before, name, after) ==
  /\ name \in Clicks \cup {"DRAG_BEGIN"} => ~before
  /\ name = "DRAG_END" => before
  /\ after <=> name = "DRAG_BEGIN" \/ (before /\ name # "DRAG_END")

\* The messages on their way are a sentence of the grammar, from what the receiver
\* knows of the bracket to what the engine does.  Open: the numbers before which
\* the bracket is open.
Sentence(Open) ==
  /\ outSeq + Len(outbox) \in Open <=> dragging
  /\ \A j \in DOMAIN outbox :
       Grammatical(outSeq + j - 1 \in Open, outbox[j], outSeq + j \in Open)
  /\ \A i \in DOMAIN queue :
       /\ Grammatical(queue[i].seq \in Open, queue[i].name, queue[i].seq + 1 \in Open)
       /\ i > 1 => (queue[i].seq \in Open <=> queue[i - 1].seq + 1 \in Open)
  /\ queue = <<>> => (outSeq \in Open <=> uiDragging)
  /\ queue # <<>> => /\ queue[1].seq \in Open <=> uiDragging
                     /\ outSeq \in Open <=> queue[Len(queue)].seq + 1 \in Open

BusInv == BusTypeOK /\ Numbering
Bracketed == ui = "up" => \E Open \in SUBSET (0 .. LastSeq) : Sentence(Open)

-----------------------------------------------------------------------------
\* What a frame of the engine adds, message by message: everything but the last
\* message leaves the bracket as it found it.
FrameSentence ==
  /\ dragging' \in BOOLEAN /\ pointing' \in BOOLEAN
  /\ events' \in Seq(Gestures) /\ Len(events') <= 2
  /\ \A i \in 1 .. Len(events') - 1 : Grammatical(dragging, events'[i], dragging)
  /\ events' # <<>> => Grammatical(dragging, events'[Len(events')], dragging')
  /\ events' = <<>> => (dragging' <=> dragging)

\* A shape comes first, if at all (engine_core.cpp:52-84).
LEMMA ShapeFirst ==
  ASSUME NEW s \in Shapes, NEW e \in Gestures
  PROVE  /\ Append(s, e) \in Seq(Gestures) /\ Len(Append(s, e)) \in 1 .. 2
         /\ \A i \in 1 .. Len(Append(s, e)) - 1 : Append(s, e)[i] \in {"HOME", "BACK"}
         /\ Append(s, e)[Len(Append(s, e))] = e
<1>1. s \in Seq({"HOME", "BACK"}) /\ Len(s) <= 1
  <2>1. CASE s = <<>>
    BY <2>1
  <2>2. CASE s = <<"HOME">>
    BY <2>2
  <2>3. CASE s = <<"BACK">>
    BY <2>3
  <2> QED
    BY <2>1, <2>2, <2>3 DEF Shapes
<1>2. s \in Seq(Gestures)
  BY <1>1 DEF Gestures
<1> QED
  BY <1>1, <1>2

\* GestureProtocol's grammar, read message by message (engine_core.cpp:52-122).
LEMMA FramesAreSentences ==
  ASSUME dragging \in BOOLEAN, PNext PROVE FrameSentence
<1>1. pointing' \in BOOLEAN
  BY Zenon DEF PNext, HandInSight, NoHand
<1>2. CASE HandInSight /\ Silence
  <2>1. dragging' = dragging
    BY <1>2 DEF Silence
  <2>2. PICK s \in Shapes : events' = s
    BY <1>2 DEF Silence
  <2>3. CASE events' = <<>>
    BY <1>1, <2>1, <2>3 DEF FrameSentence
  <2>4. ASSUME NEW x \in {"HOME", "BACK"}, events' = <<x>> PROVE FrameSentence
    BY <1>1, <2>1, <2>4 DEF FrameSentence, Grammatical, Gestures, Clicks
  <2> QED
    BY <2>2, <2>3, <2>4 DEF Shapes
<1>3. ASSUME NEW e \in Clicks \cup {"DRAG_BEGIN", "DRAG_END"}, NEW s \in Shapes,
             events' = Append(s, e), dragging' \in BOOLEAN,
             Grammatical(dragging, e, dragging')
      PROVE  FrameSentence
  <2>1. e \in Gestures
    BY DEF Gestures
  <2>2. \A x \in {"HOME", "BACK"} : Grammatical(dragging, x, dragging)
    BY DEF Grammatical, Clicks
  <2>3. events' # <<>>
    BY <1>3, <2>1, ShapeFirst
  <2> QED
    BY <1>1, <1>3, <2>1, <2>2, <2>3, ShapeFirst DEF FrameSentence
<1>4. CASE HandInSight /\ Click
  BY <1>3, <1>4 DEF Click, Clicks, Grammatical
<1>5. CASE HandInSight /\ OpenDrag
  <2>1. Grammatical(dragging, "DRAG_BEGIN", dragging') /\ dragging' \in BOOLEAN
    BY <1>5, Zenon DEF OpenDrag, Clicks, Grammatical
  <2> QED
    BY <1>3, <1>5, <2>1 DEF OpenDrag
<1>6. CASE HandInSight /\ CloseDrag
  <2>1. Grammatical(dragging, "DRAG_END", dragging') /\ dragging' \in BOOLEAN
    BY <1>6, Zenon DEF CloseDrag, Clicks, Grammatical
  <2> QED
    BY <1>3, <1>6, <2>1 DEF CloseDrag
<1>7. CASE NoHand
  <2>1. dragging' = FALSE /\ dragging' \in BOOLEAN
    BY <1>7, Zenon DEF NoHand
  <2>2. CASE dragging
    <3>1. events' = <<"DRAG_END">>
      BY <1>7, <2>2 DEF NoHand
    <3>2. Grammatical(dragging, "DRAG_END", dragging')
      BY <2>1, <2>2, Zenon DEF Grammatical, Clicks
    <3>3. "DRAG_END" \in Gestures
      BY DEF Gestures
    <3> QED
      BY <1>1, <2>1, <3>1, <3>2, <3>3 DEF FrameSentence
  <2>3. CASE ~dragging
    <3>1. events' = <<>>
      BY <1>7, <2>3 DEF NoHand
    <3> QED
      BY <1>1, <2>1, <2>3, <3>1 DEF FrameSentence
  <2> QED
    BY <2>2, <2>3
<1> QED
  BY <1>2, <1>4, <1>5, <1>6, <1>7 DEF PNext, HandInSight

\* Bus type and numbering hold at the start.
LEMMA BusStarts == BusInit => BusInv /\ Bracketed
<1> SUFFICES ASSUME BusInit PROVE BusInv /\ Bracketed
  OBVIOUS
<1> USE BusAssumption DEF BusInit, PInit
<1>1. BusTypeOK
  <2>1. 0 \in 0 .. LastSeq /\ -1 \in -1 .. LastSeq
    BY DEF LastSeq
  <2>2. /\ outbox \in Seq(Names) /\ Len(outbox) <= 3
        /\ queue \in Seq([seq : 0 .. LastSeq, name : Names]) /\ Len(queue) <= Capacity
    BY EmptySeq
  <2>3. /\ events \in Seq(Gestures) /\ Len(events) <= 2
        /\ uiEvents \in Seq(Gestures) /\ Len(uiEvents) <= 1
    BY EmptySeq
  <2> QED
    BY <2>1, <2>2, <2>3, Zenon DEF BusTypeOK
<1>2. Numbering
  BY DEF Numbering, LastSeq
<1>3. Sentence({})
  BY DEF Sentence
<1> QED
  BY <1>1, <1>2, <1>3 DEF BusInv, Bracketed

\* The outbox of a frame: a pointer event, if there is a hand, then the rest.
LEMMA FrameFillsOutbox ==
  ASSUME BusTypeOK, Frame
  PROVE  /\ dragging' \in BOOLEAN /\ pointing' \in BOOLEAN
         /\ events' \in Seq(Gestures) /\ Len(events') <= 2
         /\ outbox' \in Seq(Names) /\ Len(outbox') <= 3
         /\ \A j \in 1 .. Len(outbox') - 1 : Grammatical(dragging, outbox'[j], dragging)
         /\ Len(outbox') > 0 => Grammatical(dragging, outbox'[Len(outbox')], dragging')
         /\ Len(outbox') = 0 => (dragging' <=> dragging)
<1>1. FrameSentence
  BY FramesAreSentences, Zenon DEF Frame, BusTypeOK
<1>2. /\ events' \in Seq(Names) /\ events' \in Seq(Gestures)
  BY <1>1 DEF FrameSentence, Names
<1>3. Grammatical(dragging, "POINTER", dragging)
  BY DEF Grammatical, Clicks
<1>4. CASE pointing'
  <2>1. outbox' = <<"POINTER">> \o events'
    BY <1>4 DEF Frame
  <2>2. /\ outbox' \in Seq(Names) /\ Len(outbox') = Len(events') + 1
        /\ outbox'[1] = "POINTER" /\ \A j \in 2 .. Len(outbox') : outbox'[j] = events'[j - 1]
    BY <1>2, <2>1 DEF Names
  <2>3. \A j \in 1 .. Len(outbox') - 1 : Grammatical(dragging, outbox'[j], dragging)
    <3> TAKE j \in 1 .. Len(outbox') - 1
    <3>1. CASE j = 1
      BY <1>3, <2>2, <3>1
    <3>2. CASE j # 1
      BY <1>1, <1>2, <2>2, <3>2 DEF FrameSentence
    <3> QED
      BY <3>1, <3>2
  <2>4. Grammatical(dragging, outbox'[Len(outbox')], dragging')
    <3>1. CASE events' = <<>>
      <4>1. Grammatical(dragging, "POINTER", dragging')
        BY <1>1, <1>3, <3>1, Zenon DEF FrameSentence, Grammatical
      <4> QED
        BY <2>2, <3>1, <4>1
    <3>2. CASE events' # <<>>
      BY <1>1, <1>2, <2>2, <3>2 DEF FrameSentence
    <3> QED
      BY <3>1, <3>2
  <2> QED
    BY <1>1, <2>2, <2>3, <2>4 DEF FrameSentence
<1>5. CASE ~pointing'
  <2>1. outbox' = events'
    BY <1>1, <1>2, <1>5 DEF Frame, FrameSentence
  <2>2. events' = <<>> <=> Len(events') = 0
    BY <1>2
  <2> QED
    BY <1>1, <1>2, <2>1, <2>2 DEF FrameSentence
<1> QED
  BY <1>4, <1>5

\* The types, message by message.
LEMMA BusTypes ==
  ASSUME BusTypeOK
  PROVE  /\ outSeq \in Int /\ lastSeq \in Int /\ LastSeq \in Int /\ dropped \subseteq Int
         /\ queue \in Seq([seq : 0 .. LastSeq, name : Names])
         /\ DOMAIN queue = 1 .. Len(queue) /\ Len(queue) \in Nat
         /\ \A i \in DOMAIN queue : queue[i].seq \in Int /\ queue[i].name \in Names
<1>1. LastSeq \in Int
  BY BusAssumption DEF LastSeq
<1>2. queue \in Seq([seq : 0 .. LastSeq, name : Names])
  BY DEF BusTypeOK
<1>3. \A i \in DOMAIN queue : queue[i].seq \in Int /\ queue[i].name \in Names
  <2> TAKE i \in DOMAIN queue
  <2>1. queue[i] \in [seq : 0 .. LastSeq, name : Names]
    BY <1>2, ElementOfSeq, LenProperties
  <2> QED
    BY <1>1, <2>1
<1> QED
  BY <1>1, <1>2, <1>3 DEF BusTypeOK

\* The numbers stay in bounds because no frame is processed after MaxSeq.
LEMMA BusKeepsType == BusInv /\ [BusNext]_busVars => BusTypeOK'
<1> SUFFICES ASSUME BusInv, [BusNext]_busVars PROVE BusTypeOK'
  OBVIOUS
<1> USE BusAssumption DEF BusInv, BusTypeOK
<1>1. CASE Frame
  BY <1>1, FrameFillsOutbox DEF Frame
<1>2. outbox # <<>> => /\ Head(outbox) \in Names /\ Tail(outbox) \in Seq(Names)
                       /\ Len(Tail(outbox)) <= 3
                       /\ outSeq \in 0 .. LastSeq /\ outSeq + 1 \in 0 .. LastSeq
  BY DEF Numbering, LastSeq
<1>3. CASE SendOk
  <2>1. /\ queue' \in Seq([seq : 0 .. LastSeq, name : Names])
        /\ Len(queue') <= Capacity
    BY <1>2, <1>3 DEF SendOk, SendReturns, HasRoom
  <2> QED
    BY <1>2, <1>3, <2>1 DEF SendOk, SendReturns, pvars
<1>4. CASE DropPointer
  BY <1>2, <1>4 DEF DropPointer, SendReturns, pvars
<1>5. CASE SendFails
  BY <1>2, <1>5 DEF SendFails, SendReturns, pvars
<1>6. CASE UiReceives
  <2>1. /\ Head(queue) \in [seq : 0 .. LastSeq, name : Names]
        /\ queue' \in Seq([seq : 0 .. LastSeq, name : Names]) /\ Len(queue') = Len(queue) - 1
    BY <1>6, HeadTailProperties, Zenon DEF UiReceives
  <2>2. lastSeq' \in -1 .. LastSeq
    BY <1>6, <2>1 DEF UiReceives
  <2>3. uiEvents' \in Seq(Gestures) /\ Len(uiEvents') <= 1
    BY <1>6, <2>1 DEF UiReceives, Names
  <2>4. uiDragging' \in BOOLEAN
    BY <1>6, Zenon DEF UiReceives
  <2> QED
    BY <1>6, <2>1, <2>2, <2>3, <2>4 DEF UiReceives, pvars
<1>7. CASE UiGone
  <2>1. queue' \in Seq([seq : 0 .. LastSeq, name : Names]) /\ Len(queue') <= Capacity
    BY <1>7, EmptySeq DEF UiGone
  <2> QED
    BY <1>7, <2>1 DEF UiGone, pvars
<1>8. CASE UNCHANGED busVars
  BY <1>8 DEF busVars, pvars
<1> QED
  BY <1>1, <1>3, <1>4, <1>5, <1>6, <1>7, <1>8 DEF BusNext, Send

\* A number is given to one message, and never given again (main.cpp:84-98).
LEMMA BusKeepsNumbers == BusInv /\ [BusNext]_busVars => Numbering'
<1> SUFFICES ASSUME BusInv, [BusNext]_busVars PROVE Numbering'
  OBVIOUS
<1> USE BusAssumption DEF BusInv, Numbering
<1>1. CASE Frame
  <2>1. outSeq < MaxSeq /\ outSeq' = outSeq /\ Len(outbox') \in Nat /\ Len(outbox') <= 3
    BY <1>1, FrameFillsOutbox DEF Frame, Ready
  <2>2. outSeq' + Len(outbox') < LastSeq'
    BY <2>1 DEF LastSeq, BusTypeOK
  <2> QED
    BY <1>1, <2>1, <2>2 DEF Frame
<1>2. ASSUME outbox # <<>>, SendReturns
      PROVE  outSeq' = outSeq + 1 /\ outSeq' + Len(outbox') < LastSeq'
  BY <1>2 DEF SendReturns, BusTypeOK, LastSeq
<1>3. CASE SendOk
  <2> DEFINE m == [seq |-> outSeq, name |-> Head(outbox)]
  <2>1. /\ queue \in Seq([seq : 0 .. LastSeq, name : Names])
        /\ m \in [seq : 0 .. LastSeq, name : Names] /\ m.seq = outSeq
        /\ queue' = Append(queue, m)
    BY <1>3 DEF SendOk, BusTypeOK
  <2> HIDE DEF m
  <2>2. /\ DOMAIN queue' = 1 .. Len(queue) + 1 /\ DOMAIN queue = 1 .. Len(queue)
        /\ Len(queue) \in Nat
        /\ queue'[Len(queue) + 1].seq = outSeq
        /\ \A i \in DOMAIN queue : queue'[i] = queue[i]
    BY <2>1
  <2>3. /\ outSeq \in Int /\ lastSeq \in Int /\ outSeq' = outSeq + 1
        /\ lastSeq' = lastSeq /\ ui' = ui /\ ui = "up" /\ dropped' = dropped
        /\ \A i \in DOMAIN queue : queue[i].seq \in Int
    BY <1>3, BusTypes DEF SendOk, SendReturns
  <2>4. \A s \in lastSeq' + 1 .. outSeq' - 1 :
          s \in dropped' \/ \E i \in DOMAIN queue' : queue'[i].seq = s
    <3> TAKE s \in lastSeq' + 1 .. outSeq' - 1
    <3>1. CASE s = outSeq
      BY <2>2, <3>1
    <3>2. CASE s # outSeq
      BY <2>2, <2>3, <3>2
    <3> QED
      BY <3>1, <3>2
  <2>5. \A i, j \in DOMAIN queue' : i < j => queue'[i].seq < queue'[j].seq
    BY <2>2, <2>3
  <2>6. \A i \in DOMAIN queue' : /\ lastSeq' < queue'[i].seq /\ queue'[i].seq < outSeq'
                                /\ queue'[i].seq \notin dropped'
    BY <2>2, <2>3
  <2>7. \A s \in dropped' : s < outSeq'
    BY <2>3 DEF BusTypeOK
  <2>8. outSeq' + Len(outbox') < LastSeq'
    BY <1>2, <1>3 DEF SendOk
  <2> QED
    BY <2>3, <2>4, <2>5, <2>6, <2>7, <2>8
<1>4. CASE DropPointer
  <2>1. /\ dropped' = dropped \cup {outSeq} /\ outSeq' = outSeq + 1 /\ queue' = queue
        /\ lastSeq' = lastSeq /\ ui' = ui
    BY <1>4, <1>2 DEF DropPointer, SendReturns
  <2>2. /\ outSeq \in Int /\ lastSeq \in Int /\ dropped \subseteq Int
        /\ \A i \in DOMAIN queue : queue[i].seq \in Int
    BY BusTypes
  <2>3. outSeq' + Len(outbox') < LastSeq'
    BY <1>2, <1>4 DEF DropPointer
  <2> QED
    BY <2>1, <2>2, <2>3
<1>5. CASE SendFails
  <2>1. /\ dropped' = dropped /\ outSeq' = outSeq + 1 /\ queue' = queue
        /\ lastSeq' = lastSeq /\ ui' = "gone" /\ outSeq \in Int /\ lastSeq \in Int
        /\ \A i \in DOMAIN queue : queue[i].seq \in Int
    BY <1>5, <1>2, BusTypes DEF SendFails, SendReturns
  <2>2. outSeq' + Len(outbox') < LastSeq'
    BY <1>2, <1>5 DEF SendFails
  <2> QED
    BY <2>1, <2>2 DEF BusTypeOK
<1>6. CASE UiReceives
  <2>1. /\ queue \in Seq([seq : 0 .. LastSeq, name : Names]) /\ queue # <<>>
        /\ queue' = Tail(queue) /\ lastSeq' = queue[1].seq
        /\ UNCHANGED <<outbox, outSeq, ui, dropped>>
    BY <1>6 DEF UiReceives, BusTypeOK
  <2>2. /\ Len(queue) \in Nat \ {0} /\ 1 \in DOMAIN queue
        /\ DOMAIN queue' = 1 .. Len(queue) - 1 /\ DOMAIN queue = 1 .. Len(queue)
        /\ \A i \in DOMAIN queue' : queue'[i] = queue[i + 1]
        /\ \A i \in DOMAIN queue : queue[i].seq \in Int
    BY <2>1, HeadTailProperties, BusTypes
  <2>3. outSeq \in Int /\ lastSeq \in Int /\ lastSeq < lastSeq' /\ dropped \subseteq Int
    BY <2>1, <2>2, BusTypes
  <2>4. \A i \in DOMAIN queue' : lastSeq' < queue'[i].seq
    <3> TAKE i \in DOMAIN queue'
    <3>1. i + 1 \in DOMAIN queue /\ 1 < i + 1 /\ queue'[i] = queue[i + 1]
      BY <2>2
    <3> QED
      BY <2>1, <2>2, <3>1
  <2>5. \A s \in lastSeq' + 1 .. outSeq' - 1 :
          s \in dropped' \/ \E i \in DOMAIN queue' : queue'[i].seq = s
    <3> TAKE s \in lastSeq' + 1 .. outSeq' - 1
    <3>1. ui = "up"
      BY <1>6 DEF UiReceives
    <3>2. CASE s \in dropped
      BY <2>1, <3>2
    <3>3. ASSUME NEW i \in DOMAIN queue, queue[i].seq = s
          PROVE  \E k \in DOMAIN queue' : queue'[k].seq = s
      <4>1. i # 1
        BY <2>1, <2>2, <2>3, <3>3
      <4>2. i - 1 \in DOMAIN queue' /\ queue'[i - 1] = queue[i]
        BY <2>2, <4>1
      <4> QED
        BY <3>3, <4>2
    <3> QED
      BY <2>1, <2>2, <2>3, <3>1, <3>2, <3>3
  <2>6. \A i \in DOMAIN queue' : queue'[i].seq < outSeq' /\ queue'[i].seq \notin dropped'
    BY <2>1, <2>2
  <2>8. ASSUME NEW i \in DOMAIN queue', NEW j \in DOMAIN queue', i < j
        PROVE  queue'[i].seq < queue'[j].seq
    <3>1. i + 1 \in DOMAIN queue /\ j + 1 \in DOMAIN queue /\ i + 1 < j + 1
      BY <2>2, <2>8
    <3> QED
      BY <2>2, <3>1
  <2>7. lastSeq' < outSeq'
    BY <2>1, <2>2
  <2> QED
    BY <2>1, <2>3, <2>4, <2>5, <2>6, <2>7, <2>8 DEF LastSeq
<1>7. CASE UiGone
  BY <1>7 DEF UiGone, LastSeq
<1>8. CASE UNCHANGED busVars
  BY <1>8 DEF busVars, LastSeq
<1> QED
  BY <1>1, <1>3, <1>4, <1>5, <1>6, <1>7, <1>8 DEF BusNext, Send

\* The inductive invariant holds in every state.
LEMMA BusInvHolds == BusSpec => []BusInv
<1>1. BusInv /\ [BusNext]_busVars => BusInv'
  BY BusKeepsType, BusKeepsNumbers DEF BusInv
<1> QED
  BY <1>1, BusStarts, PTL DEF BusSpec

\* The state of the link keeps its types: the socket never holds more than it may,
\* and the counters stay in their bounds (uds.cpp:67-83, EventClient.cpp:63-87).
THEOREM BusTypeCorrect == BusSpec => []BusTypeOK
  BY BusInvHolds, PTL DEF BusInv

\* The numbers strictly between two, if all of them are in a set.
LEMMA Between ==
  ASSUME NEW a \in Int, NEW b \in Int, NEW D \in SUBSET Int,
         \A s \in (a + 1) .. (b - 1) : s \in D
  PROVE  (a + 1) .. (b - 1) = {s \in D : a < s /\ s < b}
<1>1. \A s \in (a + 1) .. (b - 1) : a < s /\ s < b
  OBVIOUS
<1>2. \A s \in Int : a < s /\ s < b => s \in (a + 1) .. (b - 1)
  OBVIOUS
<1> QED
  BY <1>1, <1>2, Zenon

\* What the receiver sees of a step: numbers grow, and those it misses are exactly
\* the numbers of dropped messages.
LEMMA ReceivingShowsLoss ==
  BusInv /\ [BusNext]_busVars =>
    (lastSeq' # lastSeq =>
       /\ lastSeq' > lastSeq
       /\ (lastSeq + 1) .. (lastSeq' - 1) = {s \in dropped : lastSeq < s /\ s < lastSeq'}
       /\ lastSeq' \notin dropped)
<1> SUFFICES ASSUME BusInv, [BusNext]_busVars, lastSeq' # lastSeq
             PROVE  /\ lastSeq' > lastSeq
                    /\ (lastSeq + 1) .. (lastSeq' - 1)
                         = {s \in dropped : lastSeq < s /\ s < lastSeq'}
                    /\ lastSeq' \notin dropped
  OBVIOUS
<1>1. UiReceives
  BY DEF BusNext, Frame, Send, SendOk, DropPointer, SendFails, SendReturns, UiGone, busVars
<1>2. /\ BusTypeOK /\ Numbering /\ queue # <<>> /\ lastSeq' = Head(queue).seq /\ ui = "up"
  BY <1>1 DEF UiReceives, BusInv
<1>3. Head(queue) = queue[1] /\ 1 \in DOMAIN queue
  BY <1>2, BusTypes
<1>4. /\ lastSeq' > lastSeq /\ lastSeq' \notin dropped /\ lastSeq' < outSeq /\ lastSeq' \in Int
      /\ lastSeq \in Int /\ outSeq \in Int /\ dropped \subseteq Int
  BY <1>2, <1>3, BusTypes DEF Numbering
<1>5. ASSUME NEW s \in (lastSeq + 1) .. (lastSeq' - 1) PROVE s \in dropped
  <2>1. s \in dropped \/ \E i \in DOMAIN queue : queue[i].seq = s
    BY <1>2, <1>4 DEF Numbering
  <2>2. \A i \in DOMAIN queue : queue[i].seq >= queue[1].seq
    <3> TAKE i \in DOMAIN queue
    <3>1. i = 1 \/ 1 < i
      BY <1>2, BusTypes
    <3> QED
      BY <1>2, <1>3, <3>1, BusTypes DEF Numbering
  <2> QED
    BY <1>2, <1>3, <1>4, <2>1, <2>2
<1>6. (lastSeq + 1) .. (lastSeq' - 1) = {s \in dropped : lastSeq < s /\ s < lastSeq'}
  BY <1>4, <1>5, Between, Zenon
<1> QED
  BY <1>4, <1>6

\* Sequence numbers let the receiver tell order and loss, however often the socket
\* was full (nui_events.h:57, uds.cpp:67-83).
THEOREM NumbersShowLoss == BusSpec => SequenceShowsLoss
  BY BusInvHolds, ReceivingShowsLoss, PTL DEF SequenceShowsLoss, BusSpec

-----------------------------------------------------------------------------
\* A frame is processed when the outbox is empty: its messages go on where the
\* sentence ended.
LEMMA FrameContinues ==
  ASSUME BusInv, Frame, NEW Open \in SUBSET (0 .. LastSeq), Sentence(Open)
  PROVE  \E After \in SUBSET (0 .. LastSeq) : Sentence(After)'
<1> DEFINE n == Len(outbox')
<1>1. /\ outSeq' = outSeq /\ queue' = queue /\ uiDragging' = uiDragging
      /\ outSeq < MaxSeq /\ Len(outbox) = 0
  BY DEF Frame, Ready
<1>2. /\ n \in Nat /\ n <= 3 /\ outSeq + n \in 0 .. LastSeq /\ outSeq \in 0 .. LastSeq
      /\ DOMAIN outbox' = 1 .. n /\ LastSeq \in Int /\ outSeq \in Int
  BY <1>1, FrameFillsOutbox, BusAssumption DEF BusInv, BusTypeOK, LastSeq
<1>3. outSeq \in Open <=> dragging
  BY <1>1, <1>2 DEF Sentence
<1>4. n = 0 => (dragging' <=> dragging)
  BY FrameFillsOutbox DEF BusInv
<1> HIDE DEF n
<1>5. \E After \in SUBSET (0 .. LastSeq) :
        /\ \A s \in 0 .. outSeq : s \in After <=> s \in Open
        /\ \A s \in outSeq .. outSeq + n - 1 : s \in After <=> dragging
        /\ outSeq + n \in After <=> dragging'
  <2> DEFINE within == IF dragging THEN outSeq + 1 .. outSeq + n - 1 ELSE {}
             final == IF dragging' THEN {outSeq + n} ELSE {}
             A == {s \in Open : s <= outSeq} \cup within \cup final
  <2>1. /\ \A s : s \in within <=> dragging /\ s \in outSeq + 1 .. outSeq + n - 1
        /\ \A s : s \in final <=> dragging' /\ s = outSeq + n
    OBVIOUS
  <2> HIDE DEF within, final
  <2>2. ASSUME NEW s \in 0 .. outSeq PROVE s \in A <=> s \in Open
    <3>1. s \notin outSeq + 1 .. outSeq + n - 1 /\ (s = outSeq + n => n = 0 /\ s = outSeq)
      BY <1>2
    <3> QED
      BY <1>2, <1>3, <1>4, <2>1, <3>1
  <2>3. ASSUME NEW s \in outSeq .. outSeq + n - 1 PROVE s \in A <=> dragging
    <3>1. s # outSeq + n /\ (s = outSeq \/ (~(s <= outSeq) /\ s \in outSeq + 1 .. outSeq + n - 1))
      BY <1>2
    <3> QED
      BY <1>2, <1>3, <2>1, <2>2, <3>1
  <2>4. outSeq + n \in A <=> dragging'
    <3>1. CASE n = 0
      BY <1>2, <1>3, <1>4, <2>1, <2>2, <3>1
    <3>2. CASE n # 0
      <4>1. ~(outSeq + n <= outSeq) /\ outSeq + n \notin outSeq + 1 .. outSeq + n - 1
        BY <1>2, <3>2
      <4> QED
        BY <2>1, <4>1
    <3> QED
      BY <3>1, <3>2
  <2>5. A \subseteq 0 .. LastSeq
    <3>1. \A s \in outSeq + 1 .. outSeq + n - 1 : s \in 0 .. LastSeq
      BY <1>2
    <3>2. outSeq + n \in 0 .. LastSeq
      BY <1>2
    <3>3. \A s \in A : s \in Open \/ s \in within \/ s \in final
      OBVIOUS
    <3>4. \A s \in Open : s \in 0 .. LastSeq
      OBVIOUS
    <3>5. \A s \in within : s \in 0 .. LastSeq
      BY <2>1, <3>1, Zenon
    <3>6. \A s \in final : s \in 0 .. LastSeq
      BY <2>1, <3>2
    <3> HIDE DEF A
    <3> QED
      BY <3>3, <3>4, <3>5, <3>6, Zenon
  <2> HIDE DEF A
  <2> QED
    BY <2>2, <2>3, <2>4, <2>5, Zenon
<1>6. PICK After \in SUBSET (0 .. LastSeq) :
        /\ \A s \in 0 .. outSeq : s \in After <=> s \in Open
        /\ \A s \in outSeq .. outSeq + n - 1 : s \in After <=> dragging
        /\ outSeq + n \in After <=> dragging'
  BY <1>5
<1>7. ASSUME NEW j \in DOMAIN outbox'
      PROVE  Grammatical(outSeq + j - 1 \in After, outbox'[j], outSeq + j \in After)
  <2>1. j \in 1 .. n /\ (outSeq + j - 1 \in After <=> dragging)
    BY <1>2, <1>6
  <2>2. CASE j = n
    <3>1. Grammatical(dragging, outbox'[j], dragging')
      BY <1>2, <2>1, <2>2, FrameFillsOutbox DEF n, BusInv
    <3> QED
      BY <1>6, <2>1, <2>2, <3>1 DEF Grammatical
  <2>3. CASE j # n
    <3>1. Grammatical(dragging, outbox'[j], dragging)
      <4>1. j \in 1 .. n - 1
        BY <1>2, <2>1, <2>3
      <4> QED
        BY <4>1, FrameFillsOutbox, Zenon DEF n, BusInv
    <3>2. outSeq + j \in After <=> dragging
      BY <1>2, <1>6, <2>1, <2>3
    <3> QED
      BY <2>1, <3>1, <3>2 DEF Grammatical
  <2> QED
    BY <2>2, <2>3
<1>8. \A i \in DOMAIN queue : /\ queue[i].seq \in After <=> queue[i].seq \in Open
                              /\ queue[i].seq + 1 \in After <=> queue[i].seq + 1 \in Open
  <2> TAKE i \in DOMAIN queue
  <2>1. queue[i].seq \in 0 .. outSeq /\ queue[i].seq + 1 \in 0 .. outSeq
    <3>1. queue[i].seq < outSeq /\ lastSeq < queue[i].seq /\ lastSeq >= -1
      BY BusTypes DEF BusInv, Numbering, BusTypeOK
    <3> QED
      BY <1>2, <3>1, BusTypes DEF BusInv
  <2> QED
    BY <1>6, <2>1
<1>9. Sentence(After)'
  <2>1. /\ outSeq \in After <=> outSeq \in Open
        /\ queue # <<>> => 1 \in DOMAIN queue /\ Len(queue) \in DOMAIN queue
        /\ \A i \in DOMAIN queue : i > 1 => i - 1 \in DOMAIN queue
    BY <1>2, <1>6, BusTypes DEF BusInv
  <2>2. \A i \in DOMAIN queue :
          /\ Grammatical(queue[i].seq \in After, queue[i].name, queue[i].seq + 1 \in After)
          /\ i > 1 => (queue[i].seq \in After <=> queue[i - 1].seq + 1 \in After)
    <3> TAKE i \in DOMAIN queue
    <3>1. Grammatical(queue[i].seq \in Open, queue[i].name, queue[i].seq + 1 \in Open)
      BY DEF Sentence
    <3>2. i > 1 => (queue[i].seq \in Open <=> queue[i - 1].seq + 1 \in Open)
      BY DEF Sentence
    <3>3. Grammatical(queue[i].seq \in After, queue[i].name, queue[i].seq + 1 \in After)
      BY <1>8, <3>1, Zenon DEF Grammatical
    <3>4. i > 1 => (queue[i].seq \in After <=> queue[i - 1].seq + 1 \in After)
      BY <1>8, <2>1, <3>2, Zenon
    <3> QED
      BY <3>3, <3>4
  <2>3. /\ queue = <<>> => (outSeq \in After <=> uiDragging)
        /\ queue # <<>> => /\ queue[1].seq \in After <=> uiDragging
                           /\ outSeq \in After <=> queue[Len(queue)].seq + 1 \in After
    BY <1>8, <2>1, Zenon DEF Sentence
  <2> QED
    BY <1>1, <1>6, <1>7, <2>2, <2>3, Zenon DEF Sentence, n
<1> QED
  BY <1>9, Zenon DEF LastSeq

\* A message given to the socket is still the next one to come.
LEMMA SendingKeepsSentence ==
  ASSUME BusInv, SendOk, NEW Open, Sentence(Open)
  PROVE  Sentence(Open)'
<1> DEFINE m == [seq |-> outSeq, name |-> Head(outbox)]
<1>1. /\ outSeq \in Int /\ outSeq' = outSeq + 1 /\ uiDragging' = uiDragging /\ dragging' = dragging
      /\ outbox \in Seq(Names) /\ outbox # <<>> /\ outbox' = Tail(outbox)
      /\ queue' = Append(queue, m) /\ m \in [seq : 0 .. LastSeq, name : Names]
      /\ m.seq = outSeq /\ m.name = outbox[1]
  BY DEF SendOk, SendReturns, pvars, BusInv, BusTypeOK
<1> HIDE DEF m
<1>2. /\ DOMAIN queue' = 1 .. Len(queue) + 1 /\ Len(queue') = Len(queue) + 1
      /\ DOMAIN queue = 1 .. Len(queue) /\ Len(queue) \in Nat
      /\ queue'[Len(queue) + 1] = m
      /\ \A i \in DOMAIN queue : queue'[i] = queue[i]
  BY <1>1, BusTypes DEF BusInv
<1>3. /\ Len(outbox) \in Nat \ {0} /\ Len(outbox') = Len(outbox) - 1
      /\ DOMAIN outbox = 1 .. Len(outbox) /\ DOMAIN outbox' = 1 .. Len(outbox) - 1
      /\ \A j \in DOMAIN outbox' : outbox'[j] = outbox[j + 1]
  BY <1>1, HeadTailProperties
<1>4. outSeq' + Len(outbox') \in Open <=> dragging'
  <2>1. outSeq' + Len(outbox') = outSeq + Len(outbox)
    BY <1>1, <1>3
  <2> QED
    BY <1>1, <2>1 DEF Sentence
<1>5. \A j \in DOMAIN outbox' :
        Grammatical(outSeq' + j - 1 \in Open, outbox'[j], outSeq' + j \in Open)
  <2> TAKE j \in DOMAIN outbox'
  <2>1. /\ j + 1 \in DOMAIN outbox /\ outSeq' + j - 1 = outSeq + (j + 1) - 1
        /\ outSeq' + j = outSeq + (j + 1)
    BY <1>1, <1>3
  <2> QED
    BY <1>3, <2>1 DEF Sentence
<1>6. Grammatical(outSeq \in Open, m.name, outSeq + 1 \in Open)
  <2>1. 1 \in DOMAIN outbox /\ outSeq + 1 - 1 = outSeq
    BY <1>1, <1>3
  <2> QED
    BY <1>1, <2>1 DEF Sentence
<1>7. outSeq \in Open <=> IF queue = <<>> THEN uiDragging ELSE queue[Len(queue)].seq + 1 \in Open
  BY DEF Sentence
<1>8. \A i \in DOMAIN queue' :
        /\ Grammatical(queue'[i].seq \in Open, queue'[i].name, queue'[i].seq + 1 \in Open)
        /\ i > 1 => (queue'[i].seq \in Open <=> queue'[i - 1].seq + 1 \in Open)
  <2> TAKE i \in DOMAIN queue'
  <2>1. CASE i \in DOMAIN queue
    <3>1. i > 1 => i - 1 \in DOMAIN queue
      BY <1>2, <2>1
    <3> QED
      BY <1>2, <2>1, <3>1 DEF Sentence
  <2>2. CASE i = Len(queue) + 1
    <3>1. i > 1 => i - 1 = Len(queue) /\ Len(queue) \in DOMAIN queue /\ queue # <<>>
      BY <1>2, <2>2
    <3> QED
      BY <1>1, <1>2, <1>6, <1>7, <2>2, <3>1
  <2> QED
    BY <1>2, <2>1, <2>2
<1>9. /\ queue'[1].seq \in Open <=> uiDragging'
      /\ outSeq' \in Open <=> queue'[Len(queue')].seq + 1 \in Open
  <2>1. CASE queue = <<>>
    BY <1>1, <1>2, <1>7, <2>1
  <2>2. CASE queue # <<>>
    <3>1. 1 \in DOMAIN queue
      BY <2>2, BusTypes DEF BusInv
    <3> QED
      BY <1>1, <1>2, <2>2, <3>1 DEF Sentence
  <2> QED
    BY <2>1, <2>2
<1>10. queue' # <<>>
  BY <1>2
<1> QED
  BY <1>4, <1>5, <1>8, <1>9, <1>10 DEF Sentence

\* A pointer event, given up or not, leaves the bracket alone.
LEMMA DroppingKeepsSentence ==
  ASSUME BusInv, DropPointer, NEW Open, Sentence(Open)
  PROVE  Sentence(Open)'
<1>1. /\ outSeq \in Int /\ outSeq' = outSeq + 1 /\ uiDragging' = uiDragging /\ dragging' = dragging
      /\ outbox \in Seq(Names) /\ outbox # <<>> /\ outbox' = Tail(outbox)
      /\ queue' = queue /\ outbox[1] = "POINTER"
  BY DEF DropPointer, SendReturns, pvars, BusInv, BusTypeOK
<1>2. queue # <<>>
  BY BusAssumption, EmptySeq DEF DropPointer, HasRoom
<1>3. /\ Len(outbox) \in Nat \ {0} /\ Len(outbox') = Len(outbox) - 1
      /\ DOMAIN outbox = 1 .. Len(outbox) /\ DOMAIN outbox' = 1 .. Len(outbox) - 1
      /\ \A j \in DOMAIN outbox' : outbox'[j] = outbox[j + 1]
  BY <1>1, HeadTailProperties
<1>4. outSeq' + Len(outbox') \in Open <=> dragging'
  <2>1. outSeq' + Len(outbox') = outSeq + Len(outbox)
    BY <1>1, <1>3
  <2> QED
    BY <1>1, <2>1 DEF Sentence
<1>5. \A j \in DOMAIN outbox' :
        Grammatical(outSeq' + j - 1 \in Open, outbox'[j], outSeq' + j \in Open)
  <2> TAKE j \in DOMAIN outbox'
  <2>1. /\ j + 1 \in DOMAIN outbox /\ outSeq' + j - 1 = outSeq + (j + 1) - 1
        /\ outSeq' + j = outSeq + (j + 1)
    BY <1>1, <1>3
  <2> QED
    BY <1>3, <2>1 DEF Sentence
<1>6. outSeq + 1 \in Open <=> outSeq \in Open
  <2>1. 1 \in DOMAIN outbox /\ outSeq + 1 - 1 = outSeq
    BY <1>1, <1>3
  <2> QED
    BY <1>1, <2>1 DEF Sentence, Grammatical
<1> QED
  BY <1>1, <1>2, <1>4, <1>5, <1>6 DEF Sentence

\* The message received takes the receiver's bracket where the sentence says.
LEMMA ReceivingKeepsSentence ==
  ASSUME BusInv, UiReceives, NEW Open, Sentence(Open)
  PROVE  /\ Sentence(Open)'
         /\ Grammatical(uiDragging, Head(queue).name, uiDragging')
<1>1. /\ queue \in Seq([seq : 0 .. LastSeq, name : Names]) /\ queue # <<>>
      /\ queue' = Tail(queue) /\ Head(queue) = queue[1]
      /\ outSeq' = outSeq /\ outbox' = outbox /\ dragging' = dragging
      /\ uiDragging' = (Head(queue).name = "DRAG_BEGIN"
                          \/ (uiDragging /\ Head(queue).name # "DRAG_END"))
  BY DEF UiReceives, pvars, BusInv, BusTypeOK
<1>2. /\ Len(queue) \in Nat \ {0} /\ 1 \in DOMAIN queue
      /\ DOMAIN queue' = 1 .. Len(queue) - 1 /\ DOMAIN queue = 1 .. Len(queue)
      /\ Len(queue') = Len(queue) - 1
      /\ \A i \in DOMAIN queue' : queue'[i] = queue[i + 1]
  BY <1>1, HeadTailProperties
<1>3. /\ queue[1].seq \in Open <=> uiDragging
      /\ Grammatical(queue[1].seq \in Open, queue[1].name, queue[1].seq + 1 \in Open)
  BY <1>1, <1>2 DEF Sentence
<1>4. /\ Grammatical(uiDragging, Head(queue).name, uiDragging')
      /\ uiDragging' <=> queue[1].seq + 1 \in Open
  BY <1>1, <1>3, Zenon DEF Grammatical
<1>5. \A i \in DOMAIN queue' :
        /\ Grammatical(queue'[i].seq \in Open, queue'[i].name, queue'[i].seq + 1 \in Open)
        /\ i > 1 => (queue'[i].seq \in Open <=> queue'[i - 1].seq + 1 \in Open)
  <2> TAKE i \in DOMAIN queue'
  <2>1. /\ i + 1 \in DOMAIN queue /\ queue'[i] = queue[i + 1]
        /\ i > 1 => /\ i - 1 \in DOMAIN queue' /\ queue'[i - 1] = queue[i]
                    /\ i + 1 > 1 /\ (i + 1) - 1 = i
    BY <1>2
  <2> QED
    BY <2>1 DEF Sentence
<1>6. queue' = <<>> => (outSeq' \in Open <=> uiDragging')
  <2>1. queue' = <<>> => Len(queue) = 1
    <3> HAVE queue' = <<>>
    <3>1. Len(queue') = 0
      BY EmptySeq
    <3> QED
      BY <1>2, <3>1
  <2> QED
    BY <1>1, <1>4, <2>1 DEF Sentence
<1>7. queue' # <<>> => /\ queue'[1].seq \in Open <=> uiDragging'
                       /\ outSeq' \in Open <=> queue'[Len(queue')].seq + 1 \in Open
  <2> HAVE queue' # <<>>
  <2>1. /\ Len(queue) > 1 /\ 2 \in DOMAIN queue /\ queue'[1] = queue[2] /\ 2 - 1 = 1
        /\ queue'[Len(queue')] = queue[Len(queue)]
    BY <1>1, <1>2, EmptySeq
  <2>2. queue[2].seq \in Open <=> queue[1].seq + 1 \in Open
    BY <2>1 DEF Sentence
  <2> QED
    BY <1>1, <1>4, <2>1, <2>2 DEF Sentence
<1> QED
  BY <1>1, <1>4, <1>5, <1>6, <1>7 DEF Sentence

\* While the user interface is there, the messages on their way stay a sentence.
LEMMA BusKeepsSentence == BusInv /\ Bracketed /\ [BusNext]_busVars => Bracketed'
<1> SUFFICES ASSUME BusInv, Bracketed, [BusNext]_busVars, ui' = "up"
             PROVE  \E After \in SUBSET (0 .. LastSeq) : Sentence(After)'
  BY DEF Bracketed, LastSeq
<1>1. ui = "up" /\ ~UiGone /\ ~SendFails
  BY DEF BusNext, Frame, Send, SendOk, DropPointer, SendFails, SendReturns, UiReceives, UiGone, busVars
<1>2. PICK Open \in SUBSET (0 .. LastSeq) : Sentence(Open)
  BY <1>1 DEF Bracketed
<1>3. CASE Frame
  BY <1>2, <1>3, FrameContinues
<1>4. CASE SendOk
  BY <1>2, <1>4, SendingKeepsSentence
<1>5. CASE DropPointer
  BY <1>2, <1>5, DroppingKeepsSentence
<1>6. CASE UiReceives
  BY <1>2, <1>6, ReceivingKeepsSentence
<1>7. CASE UNCHANGED busVars
  <2>1. Sentence(Open)'
    BY <1>2, <1>7 DEF Sentence, busVars, pvars
  <2> QED
    BY <2>1
<1> QED
  BY <1>1, <1>3, <1>4, <1>5, <1>6, <1>7 DEF BusNext, Send

\* What is grammatical for the receiver is a step of the abstract grammar.
LEMMA GrammaticalIsAStep ==
  ASSUME BusInv, UiReceives, Grammatical(uiDragging, Head(queue).name, uiDragging')
  PROVE  UiView!PNext
<1> DEFINE name == Head(queue).name
<1>1. name \in Names
  <2>1. queue # <<>> /\ Head(queue) = queue[1]
    BY BusTypes DEF UiReceives, BusInv
  <2>2. 1 \in DOMAIN queue
    BY <2>1, BusTypes DEF BusInv
  <2> QED
    BY <2>1, <2>2, BusTypes DEF BusInv
<1>2. uiEvents' = IF name = "POINTER" THEN <<>> ELSE <<name>>
  BY DEF UiReceives
<1>3. uiDragging \in BOOLEAN /\ uiDragging' \in BOOLEAN
  BY Zenon DEF UiReceives, BusInv, BusTypeOK
<1>4. Grammatical(uiDragging, name, uiDragging')
  OBVIOUS
<1> HIDE DEF name
<1> USE <1>2, <1>3 DEF UiView!PNext, UiView!HandInSight, UiView!Shapes
<1>5. CASE name \in {"POINTER", "HOME", "BACK"}
  <2>1. uiDragging' = uiDragging
    BY <1>4, <1>5, Zenon DEF Grammatical
  <2>2. uiEvents' \in UiView!Shapes
    BY <1>5
  <2> QED
    BY <2>1, <2>2, Zenon DEF UiView!Silence
<1>6. CASE name \in Clicks
  <2>1. ~uiDragging /\ uiDragging' = uiDragging
    BY <1>4, <1>6 DEF Grammatical, Clicks
  <2>2. uiEvents' = Append(<<>>, name) /\ name \in UiView!Clicks
    BY <1>6 DEF Clicks, UiView!Clicks
  <2> QED
    BY <2>1, <2>2, Zenon DEF UiView!Click
<1>7. CASE name = "DRAG_BEGIN"
  <2>1. ~uiDragging /\ uiDragging' = TRUE
    BY <1>4, <1>7, Zenon DEF Grammatical
  <2>2. uiEvents' = Append(<<>>, "DRAG_BEGIN")
    BY <1>7
  <2> QED
    BY <2>1, <2>2, Zenon DEF UiView!OpenDrag
<1>8. CASE name = "DRAG_END"
  <2>1. uiDragging /\ uiDragging' = FALSE
    BY <1>4, <1>8, Zenon DEF Grammatical
  <2>2. uiEvents' = Append(<<>>, "DRAG_END")
    BY <1>8
  <2> QED
    BY <2>1, <2>2, Zenon DEF UiView!CloseDrag
<1> QED
  BY <1>1, <1>5, <1>6, <1>7, <1>8 DEF Names, Gestures

\* A full socket breaks no bracket: the gestures the user interface receives follow
\* the grammar the engine's do (uds.cpp:67-83, uds.hpp:8).
THEOREM ReceiverSeesGrammar == BusSpec => UiSeesGrammar
<1>1. BusInit => UiView!PInit
  BY DEF BusInit, UiView!PInit
<1>2. BusInv /\ Bracketed /\ [BusNext]_busVars => [UiView!PNext]_(UiView!pvars)
  <2> SUFFICES ASSUME BusInv, Bracketed, [BusNext]_busVars
               PROVE  [UiView!PNext]_(UiView!pvars)
    OBVIOUS
  <2>1. CASE UiReceives
    <3>1. PICK Open \in SUBSET (0 .. LastSeq) : Sentence(Open)
      BY <2>1 DEF UiReceives, Bracketed
    <3> QED
      BY <2>1, <3>1, ReceivingKeepsSentence, GrammaticalIsAStep
  <2>2. CASE ~UiReceives
    BY <2>2 DEF BusNext, Frame, Send, SendOk, DropPointer, SendFails, SendReturns, UiGone,
                busVars, UiView!pvars
  <2> QED
    BY <2>1, <2>2
<1>3. Bracketed /\ BusInv /\ [BusNext]_busVars => Bracketed'
  BY BusKeepsSentence
<1> QED
  BY <1>1, <1>2, <1>3, BusStarts, BusInvHolds, PTL DEF BusSpec, UiSeesGrammar, UiView!PSpec
==============================================================================
