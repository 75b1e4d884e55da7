---------------------------- MODULE UiShellProofs ----------------------------
(***************************************************************************)
(* Theorems about UiShell, for every layout of the pages, every capacity   *)
(* of the socket and every size of the ring.                               *)
(***************************************************************************)
EXTENDS UiShell, SequenceTheorems, TLAPS

Gestures == Clicks \cup {"HOME", "BACK", "DRAG_BEGIN", "DRAG_END"}
Names == {"POINTER"} \cup Gestures
Messages == [name : Names, at : Spots, seen : Pages, late : BOOLEAN]

GrammarOK == dragging \in BOOLEAN /\ pointing \in BOOLEAN /\ events \in Seq(Gestures)

QueueOK == queue \in Seq(Messages)

\* A click is the last message of its frame, and the messages of later frames find it
\* still there.
ClicksComeLast ==
  \A i, j \in DOMAIN queue : i < j /\ queue[i].name \in Clicks => queue[j].late

\* Until its first click a frame that found the socket empty finds the page it was made
\* for, or the home page.
PageAsSeen ==
  page = "keyboard" => \A i \in DOMAIN queue : queue[i].late \/ queue[i].seen = "keyboard"

\* Clicks are of different frames: what was typed is no more than the frames before the
\* first of them.  of: the frame a message is of.
ClicksCounted ==
  \E of \in [1 .. Capacity -> 0 .. MaxFrames] :
    \A i \in DOMAIN queue : queue[i].name \in Clicks =>
      /\ typed < of[i] /\ of[i] <= frames
      /\ \A j \in DOMAIN queue : i < j /\ queue[j].name \in Clicks => of[i] < of[j]

\* The ring's progress is earned by as many ticks.
ProgressEarned ==
  /\ progress <= Len(trail)
  /\ \A i \in DOMAIN trail : i > Len(trail) - progress => ~Far(trail[i], last)

ShellInv == /\ ShellTypeOK /\ GrammarOK /\ QueueOK
            /\ ClicksComeLast /\ PageAsSeen /\ ClicksCounted /\ typed <= frames
            /\ trail \in Seq(Spots) /\ ProgressEarned

-----------------------------------------------------------------------------
(* Frames and messages *)

\* A function on the first numbers is a sequence.
LEMMA FunctionIsSeq ==
  ASSUME NEW S, NEW n \in Nat, NEW f \in [1 .. n -> S]
  PROVE  f \in Seq(S) /\ Len(f) = n
<1>1. f \in Seq(S)
  BY SeqDef
<1>2. Len(f) \in Nat /\ DOMAIN f = 1 .. Len(f) /\ DOMAIN f = 1 .. n
  BY <1>1, LenProperties
<1> QED
  BY <1>1, <1>2

\* One message in front of the others.
LEMMA InFront ==
  ASSUME NEW S, NEW x \in S, NEW t \in Seq(S)
  PROVE  /\ <<x>> \o t \in Seq(S) /\ Len(<<x>> \o t) = Len(t) + 1
         /\ (<<x>> \o t)[1] = x
         /\ \A i \in 2 .. Len(t) + 1 : (<<x>> \o t)[i] = t[i - 1]
<1> DEFINE one == <<x>>
<1>1. one \in Seq(S) /\ Len(one) = 1 /\ one[1] = x
  OBVIOUS
<1> HIDE DEF one
<1>2. Len(t) \in Nat
  BY LenProperties
<1>3. /\ one \o t \in Seq(S) /\ Len(one \o t) = Len(one) + Len(t)
      /\ \A i \in 1 .. Len(one) + Len(t) :
           (one \o t)[i] = IF i <= Len(one) THEN one[i] ELSE t[i - Len(one)]
  BY <1>1, ConcatProperties, Zenon
<1>4. (one \o t)[1] = x /\ \A i \in 2 .. Len(t) + 1 : (one \o t)[i] = t[i - 1]
  BY <1>1, <1>2, <1>3
<1>5. one \o t \in Seq(S) /\ Len(one \o t) = Len(t) + 1
  BY <1>1, <1>2, <1>3
<1> QED
  BY <1>4, <1>5 DEF one

\* A shape comes first, if at all (engine_core.cpp:52-84).
LEMMA ShapeFirst ==
  ASSUME NEW s \in Shapes
  PROVE  s \in Seq({"HOME", "BACK"}) /\ Len(s) <= 1
<1>1. CASE s = <<>>
  BY <1>1
<1>2. CASE s = <<"HOME">>
  BY <1>2
<1>3. CASE s = <<"BACK">>
  BY <1>3
<1> QED
  BY <1>1, <1>2, <1>3 DEF Shapes

\* The grammar of a frame, as far as the shell depends on it: a click comes last.
LEMMA ClickEndsFrame ==
  ASSUME GrammarOK, PNext
  PROVE  /\ GrammarOK'
         /\ Len(events') \in Nat
         /\ \A i \in 1 .. Len(events') - 1 : events'[i] \notin Clicks
<1>1. dragging' \in BOOLEAN /\ pointing' \in BOOLEAN
  BY Zenon DEF GrammarOK, PNext, HandInSight, NoHand, Silence, Click, OpenDrag, CloseDrag
<1>2. ASSUME NEW s \in Shapes, events' = s
      PROVE  events' \in Seq(Gestures) /\ \A i \in 1 .. Len(events') - 1 : events'[i] \notin Clicks
  BY <1>2, ShapeFirst DEF Gestures, Clicks
<1>3. ASSUME NEW s \in Shapes, NEW e \in Gestures, events' = Append(s, e)
      PROVE  events' \in Seq(Gestures) /\ \A i \in 1 .. Len(events') - 1 : events'[i] \notin Clicks
  <2>1. s \in Seq({"HOME", "BACK"})
    BY ShapeFirst
  <2>2. s \in Seq(Gestures)
    BY <2>1 DEF Gestures
  <2>3. \A i \in 1 .. Len(s) : s[i] \notin Clicks
    BY <2>1 DEF Clicks
  <2>4. events' \in Seq(Gestures) /\ Len(events') = Len(s) + 1 /\ Len(s) \in Nat
    BY <1>3, <2>2
  <2> QED
    BY <1>3, <2>2, <2>3, <2>4
<1>4. events' \in Seq(Gestures) /\ \A i \in 1 .. Len(events') - 1 : events'[i] \notin Clicks
  <2>1. CASE HandInSight
    <3>1. /\ \A e \in Clicks : e \in Gestures
          /\ "DRAG_BEGIN" \in Gestures /\ "DRAG_END" \in Gestures
      BY DEF Gestures
    <3> QED
      BY <1>2, <1>3, <2>1, <3>1, Zenon DEF HandInSight, Silence, Click, OpenDrag, CloseDrag
  <2>2. CASE NoHand
    <3>1. CASE events' = <<>>
      BY <3>1
    <3>2. CASE events' = <<"DRAG_END">>
      BY <3>2 DEF Gestures
    <3> QED
      BY <2>2, <3>1, <3>2 DEF NoHand
  <2> QED
    BY <2>1, <2>2 DEF PNext
<1> QED
  BY <1>1, <1>4, LenProperties DEF GrammarOK

\* What a frame adds to the queue: messages of the page it sees, late if the queue
\* was not empty, with a click last.
LEMMA FrameAdds ==
  ASSUME ShellInv, NEW at \in Spots, Frame(at)
  PROVE  \E new \in Seq(Messages) :
           /\ queue' = queue \o new
           /\ \A i \in 1 .. Len(new) : new[i].seen = page /\ (queue # <<>> => new[i].late)
           /\ \A i \in 1 .. Len(new) - 1 : new[i].name \notin Clicks
<1> DEFINE names == (IF pointing' THEN <<"POINTER">> ELSE <<>>) \o events'
           new == [i \in DOMAIN names |-> Message(names[i], at)]
<1>1. /\ events' \in Seq(Gestures) /\ Len(events') \in Nat
      /\ \A i \in 1 .. Len(events') - 1 : events'[i] \notin Clicks
  BY ClickEndsFrame DEF Frame, ShellInv, GrammarOK
<1>2. events' \in Seq(Names)
  BY <1>1 DEF Names
<1>3. /\ names \in Seq(Names) /\ Len(names) \in Nat /\ DOMAIN names = 1 .. Len(names)
      /\ \A i \in 1 .. Len(names) - 1 : names[i] \notin Clicks
  <2>1. CASE pointing'
    <3>1. names = <<"POINTER">> \o events'
      BY <2>1
    <3>2. /\ names \in Seq(Names) /\ Len(names) = Len(events') + 1
          /\ names[1] = "POINTER" /\ \A i \in 2 .. Len(names) : names[i] = events'[i - 1]
      <4>1. "POINTER" \in Names
        BY DEF Names
      <4> HIDE DEF names
      <4>2. Len(events') + 1 \in Nat
        BY <1>1
      <4> QED
        BY <1>2, <3>1, <4>1, <4>2, InFront
    <3>3. "POINTER" \notin Clicks
      BY DEF Clicks
    <3> HIDE DEF names
    <3>4. ASSUME NEW i \in 1 .. Len(names) - 1 PROVE names[i] \notin Clicks
      <4>1. CASE i = 1
        BY <3>2, <3>3, <4>1
      <4>2. CASE i # 1
        BY <1>1, <3>2, <4>2
      <4> QED
        BY <4>1, <4>2
    <3> QED
      BY <3>2, <3>4, LenProperties
  <2>2. CASE ~pointing'
    <3>1. names = events'
      BY <1>2, <2>2, ConcatEmptySeq
    <3> QED
      BY <1>1, <1>2, <3>1, LenProperties
  <2> QED
    BY <2>1, <2>2
<1>4. queue' = queue \o new
  BY DEF Frame
<1> HIDE DEF names
<1>5. \A i \in 1 .. Len(names) :
        LET msg == Message(names[i], at) IN
        msg \in Messages /\ msg.name = names[i] /\ msg.seen = page /\ (queue # <<>> => msg.late)
  <2>1. page \in Pages
    BY DEF ShellInv, ShellTypeOK
  <2>2. \A i \in 1 .. Len(names) : names[i] \in Names
    BY <1>3, ElementOfSeq
  <2> QED
    BY <2>1, <2>2 DEF Message, Messages
<1>6. new \in Seq(Messages) /\ Len(new) = Len(names)
  <2>1. new \in [1 .. Len(names) -> Messages]
    BY <1>3, <1>5
  <2> HIDE DEF new
  <2> QED
    BY <1>3, <2>1, FunctionIsSeq
<1>7. \A i \in 1 .. Len(names) : new[i] = Message(names[i], at)
  BY <1>3
<1> HIDE DEF new
<1>8. /\ \A i \in 1 .. Len(new) : new[i].seen = page /\ (queue # <<>> => new[i].late)
      /\ \A i \in 1 .. Len(new) - 1 : new[i].name \notin Clicks
  BY <1>3, <1>5, <1>6, <1>7
<1> QED
  BY <1>4, <1>6, <1>8

\* What the invariant says of the types, for the steps that need no more.
LEMMA ShellTypes ==
  ASSUME ShellInv
  PROVE  /\ queue \in Seq(Messages) /\ Len(queue) \in Nat /\ DOMAIN queue = 1 .. Len(queue)
         /\ trail \in Seq(Spots) /\ Len(trail) \in Nat /\ DOMAIN trail = 1 .. Len(trail)
         /\ frames \in Nat /\ typed \in Nat /\ progress \in Nat /\ page \in Pages
         /\ Len(queue) <= Capacity /\ Len(trail) <= FillTicks
<1>1. /\ queue \in Seq(Messages) /\ trail \in Seq(Spots) /\ page \in Pages
      /\ Len(queue) <= Capacity /\ Len(trail) <= FillTicks
      /\ frames \in 0 .. MaxFrames /\ typed \in 0 .. MaxFrames /\ progress \in 0 .. FillTicks
  BY DEF ShellInv, ShellTypeOK, QueueOK
<1> QED
  BY <1>1, LenProperties, ShellAssumption

\* A type invariant again, from its parts.
LEMMA MessagesAtSpots ==
  ASSUME NEW q \in Seq(Messages) PROVE \A i \in DOMAIN q : q[i].at \in Spots
<1> SUFFICES ASSUME NEW i \in DOMAIN q PROVE q[i].at \in Spots
  OBVIOUS
<1>1. q[i] \in Messages
  BY LenProperties, ElementOfSeq
<1> QED
  BY <1>1 DEF Messages

-----------------------------------------------------------------------------
(* The invariant, action by action *)

\* The user interface starts with an empty socket, on the home page.
LEMMA ShellStarts == ShellInit => ShellInv
<1> SUFFICES ASSUME ShellInit PROVE ShellInv
  OBVIOUS
<1>1. queue = <<>> /\ trail = <<>> /\ queue \in Seq(Messages) /\ trail \in Seq(Spots)
  BY EmptySeq DEF ShellInit
<1>2. Len(queue) = 0 /\ Len(trail) = 0 /\ DOMAIN queue = {} /\ DOMAIN trail = {}
  BY <1>1
<1>3. ShellTypeOK
  BY <1>2, ShellAssumption DEF ShellInit, ShellTypeOK, Pages
<1>4. GrammarOK
  <2>1. events \in Seq(Gestures)
    BY EmptySeq DEF ShellInit, PInit
  <2>2. dragging \in BOOLEAN /\ pointing \in BOOLEAN
    BY Zenon DEF ShellInit, PInit
  <2> QED
    BY <2>1, <2>2 DEF GrammarOK
<1>5. ClicksCounted
  <2> DEFINE of == [k \in 1 .. Capacity |-> 0]
  <2>1. of \in [1 .. Capacity -> 0 .. MaxFrames]
    BY ShellAssumption
  <2> QED
    BY <1>2, <2>1, Zenon DEF ClicksCounted
<1>6. ClicksComeLast /\ PageAsSeen
  BY <1>2 DEF ClicksComeLast, PageAsSeen
<1>7. typed <= frames /\ ProgressEarned
  BY <1>2 DEF ShellInit, ProgressEarned
<1> QED
  BY <1>1, <1>3, <1>4, <1>5, <1>6, <1>7 DEF ShellInv, QueueOK

\* A frame of the engine keeps the invariant: its click is its last message, and it
\* is of a frame later than those of the clicks before it.
LEMMA FrameKeeps ==
  ASSUME ShellInv, NEW at \in Spots, Frame(at) PROVE ShellInv'
<1>1. PICK new \in Seq(Messages) :
        /\ queue' = queue \o new
        /\ \A i \in 1 .. Len(new) : new[i].seen = page /\ (queue # <<>> => new[i].late)
        /\ \A i \in 1 .. Len(new) - 1 : new[i].name \notin Clicks
  BY FrameAdds
<1> DEFINE n == Len(queue)  m == Len(new)
<1>2. n \in Nat /\ m \in Nat /\ queue \in Seq(Messages) /\ DOMAIN queue = 1 .. n
  BY ShellTypes, LenProperties
<1>3. /\ queue' \in Seq(Messages) /\ Len(queue') = n + m
      /\ \A i \in 1 .. n + m : queue'[i] = IF i <= n THEN queue[i] ELSE new[i - n]
  <2>1. /\ queue \o new \in Seq(Messages) /\ Len(queue \o new) = Len(queue) + Len(new)
        /\ \A i \in 1 .. Len(queue) + Len(new) :
             (queue \o new)[i] = IF i <= Len(queue) THEN queue[i] ELSE new[i - Len(queue)]
    BY <1>2, ConcatProperties, Zenon
  <2> QED
    BY <1>1, <2>1
<1>4. DOMAIN queue' = 1 .. n + m
  BY <1>3, LenProperties, Zenon
<1>5. \A i \in 1 .. n : queue'[i] = queue[i]
  BY <1>2, <1>3
<1>6. \A i \in n + 1 .. n + m : queue'[i] = new[i - n] /\ i - n \in 1 .. m
  BY <1>2, <1>3
<1>7. \A i \in n + 1 .. n + m :
        /\ queue'[i].seen = page
        /\ queue # <<>> => queue'[i].late
        /\ i < n + m => queue'[i].name \notin Clicks
  BY <1>1, <1>2, <1>6
<1>8. /\ frames < MaxFrames /\ frames' = frames + 1 /\ n + m <= Capacity
      /\ UNCHANGED <<link, shown, page, typed, progress, last, trail>>
  BY <1>3 DEF Frame, pageVars, ringVars
<1>9. ShellTypeOK'
  <2>1. frames \in 0 .. MaxFrames
    BY DEF ShellInv, ShellTypeOK
  <2>2. frames' \in 0 .. MaxFrames /\ Len(queue') <= Capacity
    BY <1>3, <1>8, <2>1, ShellAssumption
  <2>3. \A i \in DOMAIN queue' : queue'[i].at \in Spots
    BY <1>3, MessagesAtSpots, Zenon
  <2> QED
    BY <1>8, <2>2, <2>3 DEF ShellInv, ShellTypeOK
<1>10. GrammarOK'
  BY ClickEndsFrame DEF Frame, ShellInv
<1>11. ClicksComeLast'
  <2> SUFFICES ASSUME NEW i \in 1 .. n + m, NEW j \in 1 .. n + m, i < j,
                      queue'[i].name \in Clicks
               PROVE  queue'[j].late
    BY <1>4, Zenon DEF ClicksComeLast
  <2>1. CASE j <= n
    BY <1>2, <1>5, <2>1 DEF ShellInv, ClicksComeLast
  <2>2. CASE ~(j <= n) /\ i <= n
    <3>1. queue # <<>>
      BY <1>2, <2>2, EmptySeq
    <3>2. j \in n + 1 .. n + m
      BY <1>2, <2>2
    <3> QED
      BY <1>7, <3>1, <3>2, Zenon
  <2>3. CASE ~(i <= n)
    <3>1. i \in n + 1 .. n + m /\ i < n + m
      BY <1>2, <2>3
    <3> QED
      BY <1>7, <3>1, Zenon
  <2> QED
    BY <1>2, <2>1, <2>2, <2>3
<1>12. PageAsSeen'
  <2> SUFFICES ASSUME page = "keyboard", NEW i \in 1 .. n + m
               PROVE  queue'[i].late \/ queue'[i].seen = "keyboard"
    BY <1>4, <1>8, Zenon DEF PageAsSeen
  <2>1. CASE i <= n
    BY <1>2, <1>5, <2>1 DEF ShellInv, PageAsSeen
  <2>2. CASE ~(i <= n)
    <3>1. i \in n + 1 .. n + m
      BY <1>2, <2>2
    <3> QED
      BY <1>7, <3>1, Zenon
  <2> QED
    BY <2>1, <2>2
<1>13. ClicksCounted' /\ typed' <= frames'
  <2>1. frames \in Nat /\ typed \in Nat /\ typed <= frames
    BY ShellTypes DEF ShellInv
  <2>2. PICK of \in [1 .. Capacity -> 0 .. MaxFrames] :
          \A i \in 1 .. n : queue[i].name \in Clicks =>
            /\ typed < of[i] /\ of[i] <= frames
            /\ \A j \in 1 .. n : i < j /\ queue[j].name \in Clicks => of[i] < of[j]
    BY <1>2, Zenon DEF ShellInv, ClicksCounted
  <2> DEFINE of2 == [k \in 1 .. Capacity |-> IF k <= n THEN of[k] ELSE frames + 1]
  <2>3. of2 \in [1 .. Capacity -> 0 .. MaxFrames]
    BY <1>2, <1>8, <2>1, ShellAssumption
  <2>4. \A i \in 1 .. n : of2[i] = of[i] /\ of[i] \in Nat
    BY <1>2, <1>8, ShellAssumption
  <2>5. \A i \in n + 1 .. n + m : of2[i] = frames + 1
    BY <1>2, <1>8, ShellAssumption
  <2> HIDE DEF of2
  <2>6. ASSUME NEW i \in 1 .. n + m, queue'[i].name \in Clicks
        PROVE  /\ typed < of2[i] /\ of2[i] <= frames + 1
               /\ \A j \in 1 .. n + m : i < j /\ queue'[j].name \in Clicks => of2[i] < of2[j]
    <3>1. CASE i <= n
      <4>1. i \in 1 .. n /\ queue[i].name \in Clicks
        BY <1>2, <1>5, <2>6, <3>1
      <4>2. typed < of2[i] /\ of2[i] <= frames /\ of2[i] \in Nat
        BY <2>2, <2>4, <4>1
      <4>3. ASSUME NEW j \in 1 .. n + m, i < j, queue'[j].name \in Clicks
            PROVE  of2[i] < of2[j]
        <5>1. CASE j <= n
          BY <1>2, <1>5, <2>2, <2>4, <4>1, <4>3, <5>1
        <5>2. CASE ~(j <= n)
          BY <1>2, <2>1, <2>5, <4>2, <5>2
        <5> QED
          BY <5>1, <5>2
      <4> QED
        BY <2>1, <4>2, <4>3
    <3>2. CASE ~(i <= n)
      <4>0. i \in n + 1 .. n + m
        BY <1>2, <3>2
      <4>1. of2[i] = frames + 1 /\ ~(i < n + m)
        BY <1>7, <2>5, <2>6, <4>0, Zenon
      <4> QED
        BY <1>2, <2>1, <4>0, <4>1
    <3> QED
      BY <3>1, <3>2
  <2>7. \E f \in [1 .. Capacity -> 0 .. MaxFrames] :
          \A i \in 1 .. n + m : queue'[i].name \in Clicks =>
            /\ typed < f[i] /\ f[i] <= frames + 1
            /\ \A j \in 1 .. n + m : i < j /\ queue'[j].name \in Clicks => f[i] < f[j]
    BY <2>3, <2>6, Zenon
  <2>8. ClicksCounted'
    BY <1>4, <1>8, <2>7, Zenon DEF ClicksCounted
  <2> QED
    BY <1>8, <2>1, <2>8
<1>14. (trail \in Seq(Spots) /\ ProgressEarned)'
  BY <1>8 DEF ShellInv, ProgressEarned, Far
<1> QED
  BY <1>3, <1>9, <1>10, <1>11, <1>12, <1>13, <1>14 DEF ShellInv, QueueOK

\* What a message does to the page: a page is opened, and a key typed, by a click
\* only; a key only on the page that has keys (Main.qml:21-60).
LEMMA ReceiveActs ==
  ASSUME ShellInv, Receive
  PROVE  /\ queue # <<>> /\ queue' = Tail(queue) /\ queue[1] = Head(queue) /\ queue[1] \in Messages
         /\ page' \in Pages /\ typed' \in Nat /\ shown' \in Spots
         /\ page' = "home" => typed' = 0
         /\ page' = "keyboard" => page = "keyboard" \/ queue[1].name \in Clicks
         /\ typed' <= typed \/ (typed' = typed + 1 /\ page = "keyboard" /\ queue[1].name \in Clicks)
         /\ UNCHANGED <<frames, link, dragging, pointing, events, progress, last, trail>>
<1>1. queue # <<>> /\ queue' = Tail(queue)
  BY DEF Receive
<1>2. Len(queue) \in Nat \ {0}
  BY <1>1, ShellTypes, EmptySeq
<1>3. queue[1] = Head(queue) /\ queue[1] \in Messages
  BY <1>2, ShellTypes, ElementOfSeq
<1>4. /\ queue[1].at \in Spots /\ queue[1].name \in Names /\ page \in Pages /\ typed \in Nat
      /\ page = "home" => typed = 0
      /\ shown \in Spots
  BY <1>3, ShellTypes DEF Messages, ShellInv, ShellTypeOK
<1>5. UNCHANGED <<frames, link, dragging, pointing, events, progress, last, trail>>
  BY DEF Receive, pvars, ringVars
<1> DEFINE Acts == /\ page' \in Pages /\ typed' \in Nat /\ shown' \in Spots
                   /\ page' = "home" => typed' = 0
                   /\ page' = "keyboard" => page = "keyboard" \/ queue[1].name \in Clicks
                   /\ \/ typed' <= typed
                      \/ typed' = typed + 1 /\ page = "keyboard" /\ queue[1].name \in Clicks
<1> SUFFICES Acts
  BY <1>1, <1>3, <1>5
<1>6. CASE queue[1].name = "POINTER"
  BY <1>3, <1>4, <1>6 DEF Receive, pageVars
<1>7. CASE queue[1].name # "POINTER"
  <2> DEFINE name == queue[1].name
             target == Layout[page][queue[1].at]
  <2>1. HandleGesture(name, queue[1].at) /\ shown' = shown
    BY <1>3, <1>7 DEF Receive
  <2>2. ASSUME NEW p \in Pages, GoTo(p)
        PROVE  page' = p /\ typed' \in Nat /\ typed' <= typed /\ (p = "home" => typed' = 0)
    BY <1>4, <2>2 DEF GoTo
  <2>3. CASE name \in {"TAP", "DWELL_SELECT"}
    <3>1. name \in Clicks
      BY <2>3 DEF Clicks
    <3>2. Activate(target)
      BY <2>1, <2>3 DEF HandleGesture
    <3>3. CASE target = "Clavier"
      BY <1>4, <2>1, <2>2, <3>1, <3>2, <3>3 DEF Activate, Pages
    <3>4. CASE target = "Fermer"
      BY <1>4, <2>1, <2>2, <3>1, <3>2, <3>4 DEF Activate, Pages
    <3>5. CASE target = "key"
      <4>1. typed' = typed + 1 /\ page' = page
        BY <3>2, <3>5 DEF Activate
      <4>2. page = "keyboard"
        BY <1>4, <3>5, ShellAssumption DEF Pages
      <4> QED
        BY <1>4, <2>1, <3>1, <4>1, <4>2
    <3>6. CASE target \notin {"Clavier", "Fermer", "key"}
      BY <1>4, <2>1, <3>2, <3>6 DEF Activate, pageVars
    <3> QED
      BY <3>3, <3>4, <3>5, <3>6
  <2>4. CASE name \in {"HOME", "BACK"}
    <3>1. GoTo("home")
      BY <2>1, <2>4 DEF HandleGesture
    <3> QED
      BY <1>4, <2>1, <2>2, <3>1 DEF Pages
  <2>5. CASE name \notin {"TAP", "DWELL_SELECT", "HOME", "BACK"}
    BY <1>4, <2>1, <2>5 DEF HandleGesture, pageVars
  <2> QED
    BY <2>3, <2>4, <2>5
<1> QED
  BY <1>6, <1>7

\* A message received keeps the invariant: if it opens the keyboard, it is a click, and
\* what was behind it had seen it waiting.
LEMMA ReceiveKeeps ==
  ASSUME ShellInv, Receive PROVE ShellInv'
<1> DEFINE n == Len(queue)
<1>1. /\ n \in Nat \ {0} /\ queue' \in Seq(Messages) /\ Len(queue') = n - 1
      /\ DOMAIN queue = 1 .. n /\ DOMAIN queue' = 1 .. n - 1
      /\ \A i \in 1 .. n - 1 : queue'[i] = queue[i + 1]
  <2>1. /\ queue \in Seq(Messages) /\ queue # <<>> /\ DOMAIN queue = 1 .. n
        /\ n \in Nat \ {0} /\ queue' = Tail(queue)
    BY ReceiveActs, ShellTypes, EmptySeq
  <2>2. /\ queue' \in Seq(Messages) /\ Len(queue') = n - 1
        /\ \A i \in 1 .. n - 1 : queue'[i] = queue[i + 1]
    BY <2>1, HeadTailProperties
  <2> QED
    BY <2>1, <2>2, LenProperties
<1>2. \A i \in 1 .. n - 1 : i + 1 \in 1 .. n /\ 1 < i + 1
  BY <1>1
<1>3. typed \in Nat /\ frames \in Nat /\ typed <= frames /\ frames <= MaxFrames /\ frames' = frames
  BY ShellTypes, ReceiveActs DEF ShellInv, ShellTypeOK
<1>4. ClicksComeLast'
  <2> SUFFICES ASSUME NEW i \in 1 .. n - 1, NEW j \in 1 .. n - 1, i < j,
                      queue'[i].name \in Clicks
               PROVE  queue'[j].late
    BY <1>1, Zenon DEF ClicksComeLast
  <2>1. i + 1 < j + 1 /\ queue[i + 1].name \in Clicks
    BY <1>1
  <2> QED
    BY <1>1, <1>2, <2>1 DEF ShellInv, ClicksComeLast
<1>5. PageAsSeen'
  <2> SUFFICES ASSUME page' = "keyboard", NEW i \in 1 .. n - 1
               PROVE  queue'[i].late \/ queue'[i].seen = "keyboard"
    BY <1>1, Zenon DEF PageAsSeen
  <2>1. CASE page = "keyboard"
    BY <1>1, <1>2, <2>1 DEF ShellInv, PageAsSeen
  <2>2. CASE queue[1].name \in Clicks
    <3>1. 1 \in 1 .. n
      BY <1>1
    <3> QED
      BY <1>1, <1>2, <2>2, <3>1 DEF ShellInv, ClicksComeLast
  <2> QED
    BY <2>1, <2>2, ReceiveActs
<1>6. ClicksCounted' /\ typed' <= frames'
  <2>1. PICK of \in [1 .. Capacity -> 0 .. MaxFrames] :
          \A i \in 1 .. n : queue[i].name \in Clicks =>
            /\ typed < of[i] /\ of[i] <= frames
            /\ \A j \in 1 .. n : i < j /\ queue[j].name \in Clicks => of[i] < of[j]
    BY <1>1, Zenon DEF ShellInv, ClicksCounted
  <2> DEFINE of2 == [k \in 1 .. Capacity |-> IF k < Capacity THEN of[k + 1] ELSE 0]
  <2>2. n <= Capacity
    BY ShellTypes
  <2>3. of2 \in [1 .. Capacity -> 0 .. MaxFrames]
    BY ShellAssumption
  <2>4. \A i \in 1 .. n - 1 : of2[i] = of[i + 1]
    BY <1>1, <2>2, ShellAssumption
  <2>5. \A i \in 1 .. n : of[i] \in Nat
    BY <1>1, <2>2, ShellAssumption
  <2> HIDE DEF of2
  <2>6. /\ typed' \in Nat
        /\ typed' <= typed \/ (typed' = typed + 1 /\ queue[1].name \in Clicks)
    BY ReceiveActs
  <2>7. 1 \in 1 .. n
    BY <1>1
  <2>8. ASSUME NEW i \in 1 .. n - 1, queue'[i].name \in Clicks
        PROVE  /\ typed' < of2[i] /\ of2[i] <= frames'
               /\ \A j \in 1 .. n - 1 : i < j /\ queue'[j].name \in Clicks => of2[i] < of2[j]
    <3>1. i + 1 \in 1 .. n /\ queue[i + 1].name \in Clicks /\ of2[i] = of[i + 1] /\ 1 < i + 1
      BY <1>1, <1>2, <2>4, <2>8
    <3>2. typed < of2[i] /\ of2[i] <= frames' /\ of2[i] \in Nat
      BY <1>3, <2>1, <2>5, <3>1
    <3>3. typed' < of2[i]
      <4>1. CASE typed' <= typed
        BY <1>3, <2>6, <3>2, <4>1
      <4>2. CASE typed' = typed + 1 /\ queue[1].name \in Clicks
        <5>1. typed < of[1] /\ of[1] < of[i + 1] /\ of[1] \in Nat
          BY <2>1, <2>5, <2>7, <3>1, <4>2
        <5> QED
          BY <1>3, <3>1, <3>2, <4>2, <5>1
      <4> QED
        BY <2>6, <4>1, <4>2
    <3>4. ASSUME NEW j \in 1 .. n - 1, i < j, queue'[j].name \in Clicks
          PROVE  of2[i] < of2[j]
      <4>1. j + 1 \in 1 .. n /\ queue[j + 1].name \in Clicks /\ i + 1 < j + 1
        BY <1>1, <1>2, <3>4
      <4> QED
        BY <2>1, <2>4, <3>1, <4>1
    <3> QED
      BY <3>2, <3>3, <3>4
  <2>9. \E f \in [1 .. Capacity -> 0 .. MaxFrames] :
          \A i \in 1 .. n - 1 : queue'[i].name \in Clicks =>
            /\ typed' < f[i] /\ f[i] <= frames'
            /\ \A j \in 1 .. n - 1 : i < j /\ queue'[j].name \in Clicks => f[i] < f[j]
    BY <2>3, <2>8, Zenon
  <2>10. ClicksCounted'
    BY <1>1, <2>9, Zenon DEF ClicksCounted
  <2>11. typed' <= frames'
    <3>1. CASE typed' <= typed
      BY <1>3, <2>6, <3>1
    <3>2. CASE typed' = typed + 1 /\ queue[1].name \in Clicks
      <4>1. typed < of[1] /\ of[1] <= frames /\ of[1] \in Nat
        BY <2>1, <2>5, <2>7, <3>2
      <4> QED
        BY <1>3, <3>2, <4>1
    <3> QED
      BY <2>6, <3>1, <3>2
  <2> QED
    BY <2>10, <2>11
<1>7. ShellTypeOK'
  <2>1. Len(queue') <= Capacity
    BY <1>1, ShellTypes, ShellAssumption
  <2>2. \A i \in DOMAIN queue' : queue'[i].at \in Spots
    BY <1>1, MessagesAtSpots, Zenon
  <2>3. typed' \in 0 .. MaxFrames
    BY <1>3, <1>6, ReceiveActs, ShellAssumption
  <2> QED
    BY <2>1, <2>2, <2>3, ReceiveActs DEF ShellInv, ShellTypeOK
<1>8. GrammarOK'
  BY ReceiveActs DEF ShellInv, GrammarOK
<1>9. (trail \in Seq(Spots) /\ ProgressEarned)'
  BY ReceiveActs DEF ShellInv, ProgressEarned, Far
<1> QED
  BY <1>1, <1>4, <1>5, <1>6, <1>7, <1>8, <1>9 DEF ShellInv, QueueOK

\* A tick of the ring's timer keeps the invariant: the ring fills by one tick at a time,
\* and starts anew when the pointer left the point it was at (DwellRing.qml:41-52).
LEMMA RingKeeps ==
  ASSUME ShellInv, RingTick PROVE ShellInv'
<1> DEFINE n == Len(trail)
           m == Len(trail')
<1>1. /\ shown \in Spots /\ last \in Spots /\ trail \in Seq(Spots) /\ n \in Nat
      /\ n <= FillTicks /\ progress \in 0 .. FillTicks /\ progress <= n
      /\ FillTicks \in Nat \ {0}
      /\ \A i \in 1 .. n : i > n - progress => ~Far(trail[i], last)
  BY ShellTypes, ShellAssumption DEF ShellInv, ShellTypeOK, ProgressEarned
<1>2. UNCHANGED <<dragging, pointing, events, frames, queue, link, shown, page, typed>>
  BY DEF RingTick, pvars, linkVars, pageVars
<1>3. /\ trail' \in Seq(Spots) /\ m <= FillTicks /\ m \in Nat
      /\ trail'[m] = shown /\ m >= 1
      /\ n < FillTicks => m = n + 1 /\ \A i \in 1 .. m - 1 : trail'[i] = trail[i]
      /\ n = FillTicks => m = n /\ \A i \in 1 .. m - 1 : trail'[i] = trail[i + 1]
  <2>1. CASE n < FillTicks
    <3>1. trail' = Append(trail, shown)
      BY <2>1 DEF RingTick
    <3> QED
      BY <1>1, <2>1, <3>1, AppendProperties
  <2>2. CASE n = FillTicks
    <3>1. trail' = Append(Tail(trail), shown) /\ trail # <<>>
      BY <1>1, <2>2, EmptySeq DEF RingTick
    <3>2. /\ Tail(trail) \in Seq(Spots) /\ Len(Tail(trail)) = n - 1
          /\ \A i \in 1 .. n - 1 : Tail(trail)[i] = trail[i + 1]
      BY <1>1, <3>1, HeadTailProperties
    <3>3. /\ trail' \in Seq(Spots) /\ m = n /\ trail'[n] = shown
          /\ \A i \in 1 .. n - 1 : trail'[i] = Tail(trail)[i]
      BY <1>1, <3>1, <3>2, AppendProperties
    <3> QED
      BY <1>1, <2>2, <3>2, <3>3
  <2> QED
    BY <1>1, <2>1, <2>2
<1>4. DOMAIN trail' = 1 .. m
  BY <1>3, LenProperties
<1>5. /\ progress' \in 0 .. FillTicks /\ progress' <= m /\ last' \in Spots
      /\ \A i \in 1 .. m : i > m - progress' => ~Far(trail'[i], last')
  <2>1. CASE Far(shown, last)
    <3>1. progress' = 0 /\ last' = shown
      BY <2>1 DEF RingTick, Ring
    <3> QED
      BY <1>1, <1>2, <1>3, <3>1
  <2>2. CASE ~Far(shown, last)
    <3>1. last' = last /\ progress' = IF progress < FillTicks THEN progress + 1 ELSE FillTicks
      BY <2>2 DEF RingTick, Ring
    <3>2. progress' \in 0 .. FillTicks /\ progress' <= progress + 1
      BY <1>1, <3>1
    <3>3. CASE n < FillTicks
      <4>1. m = n + 1 /\ \A i \in 1 .. m - 1 : trail'[i] = trail[i]
        BY <1>3, <3>3
      <4>2. ASSUME NEW i \in 1 .. m, i > m - progress' PROVE ~Far(trail'[i], last)
        <5>1. CASE i = m
          BY <1>3, <2>2, <5>1
        <5>2. CASE i # m
          <6>1. i \in 1 .. n /\ i > n - progress /\ trail'[i] = trail[i]
            BY <1>1, <3>2, <4>1, <4>2, <5>2
          <6> QED
            BY <1>1, <6>1
        <5> QED
          BY <5>1, <5>2
      <4>3. progress' <= m
        BY <1>1, <3>2, <4>1
      <4> QED
        BY <1>1, <3>1, <3>2, <4>2, <4>3
    <3>4. CASE n = FillTicks
      <4>1. m = n /\ \A i \in 1 .. m - 1 : trail'[i] = trail[i + 1]
        BY <1>3, <3>4
      <4>2. ASSUME NEW i \in 1 .. m, i > m - progress' PROVE ~Far(trail'[i], last)
        <5>1. CASE i = m
          BY <1>3, <2>2, <5>1
        <5>2. CASE i # m
          <6>1. i + 1 \in 1 .. n /\ i + 1 > n - progress /\ trail'[i] = trail[i + 1]
            BY <1>1, <3>2, <4>1, <4>2, <5>2
          <6> QED
            BY <1>1, <6>1
        <5> QED
          BY <5>1, <5>2
      <4>3. progress' <= m
        BY <1>1, <3>2, <3>4, <4>1
      <4> QED
        BY <1>1, <3>1, <3>2, <4>2, <4>3
    <3> QED
      BY <1>1, <3>3, <3>4
  <2> QED
    BY <2>1, <2>2
<1>6. ProgressEarned'
  BY <1>4, <1>5, Zenon DEF ProgressEarned
<1>7. \A i \in DOMAIN trail' : trail'[i] \in Spots
  BY <1>3, <1>4, ElementOfSeq
<1>8. ShellTypeOK'
  BY <1>2, <1>3, <1>5, <1>7 DEF ShellInv, ShellTypeOK
<1>9. (GrammarOK /\ QueueOK /\ ClicksComeLast /\ PageAsSeen /\ typed <= frames)'
  BY <1>2 DEF ShellInv, GrammarOK, QueueOK, ClicksComeLast, PageAsSeen
<1>10. ClicksCounted'
  BY <1>2 DEF ShellInv, ClicksCounted
<1> QED
  BY <1>3, <1>6, <1>8, <1>9, <1>10 DEF ShellInv

\* The steps that touch neither the pages nor the queue nor the ring.
LEMMA LinkKeeps ==
  ASSUME ShellInv, GrammarOK', link' \in {"up", "closed", "down"},
         UNCHANGED <<frames, queue, shown, pageVars, ringVars>>
  PROVE  ShellInv'
<1>1. UNCHANGED <<frames, queue, shown, page, typed, progress, last, trail>>
  BY DEF pageVars, ringVars
<1>2. ShellTypeOK'
  BY <1>1 DEF ShellInv, ShellTypeOK
<1>3. (QueueOK /\ ClicksComeLast /\ PageAsSeen /\ typed <= frames)'
  BY <1>1 DEF ShellInv, QueueOK, ClicksComeLast, PageAsSeen
<1>4. ClicksCounted'
  BY <1>1 DEF ShellInv, ClicksCounted
<1>5. (trail \in Seq(Spots) /\ ProgressEarned)'
  BY <1>1 DEF ShellInv, ProgressEarned, Far
<1> QED
  BY <1>2, <1>3, <1>4, <1>5 DEF ShellInv

\* Every step of engine and user interface keeps the invariant.
LEMMA ShellKeeps == ShellInv /\ [ShellNext]_shellVars => ShellInv'
<1> SUFFICES ASSUME ShellInv, [ShellNext]_shellVars PROVE ShellInv'
  OBVIOUS
<1>1. ASSUME NEW at \in Spots, Frame(at) PROVE ShellInv'
  BY <1>1, FrameKeeps
<1>2. CASE Receive
  BY <1>2, ReceiveKeeps
<1>3. CASE RingTick
  BY <1>3, RingKeeps
<1>4. ASSUME UNCHANGED pvars PROVE GrammarOK'
  BY <1>4 DEF ShellInv, GrammarOK, pvars
<1>5. CASE EngineEnds
  BY <1>4, <1>5, LinkKeeps DEF EngineEnds
<1>6. CASE Teardown
  BY <1>4, <1>6, LinkKeeps DEF Teardown
<1>7. CASE Reconnect
  <2>1. events' \in Seq(Gestures)
    BY <1>7, EmptySeq DEF Reconnect
  <2>2. dragging' \in BOOLEAN /\ pointing' \in BOOLEAN
    BY <1>7, Zenon DEF Reconnect
  <2>3. GrammarOK'
    BY <2>1, <2>2 DEF GrammarOK
  <2> QED
    BY <1>7, <2>3, LinkKeeps DEF Reconnect
<1>8. CASE UNCHANGED shellVars
  <2>1. UNCHANGED <<pvars, frames, queue, link, shown, pageVars, ringVars>>
    BY <1>8 DEF shellVars, linkVars
  <2>2. link' \in {"up", "closed", "down"}
    BY <2>1 DEF ShellInv, ShellTypeOK
  <2> QED
    BY <1>4, <2>1, <2>2, LinkKeeps
<1> QED
  BY <1>1, <1>2, <1>3, <1>5, <1>6, <1>7, <1>8 DEF ShellNext

\* The invariant holds whatever the engine, the user and the timers do.
LEMMA ShellInvHolds == ShellSpec => []ShellInv
<1> QED
  BY ShellStarts, ShellKeeps, PTL DEF ShellSpec

-----------------------------------------------------------------------------
\* The socket, the pages and the ring stay within their bounds: no more messages wait
\* than the socket holds, nothing is typed on the home page, the ring is never more than
\* full (EventClient.cpp:37-61, Main.qml:21-60, DwellRing.qml:41-52).
THEOREM ShellTypeCorrect == ShellSpec => []ShellTypeOK
<1>1. ShellInv => ShellTypeOK
  BY DEF ShellInv
<1> QED
  BY <1>1, ShellInvHolds, PTL

\* A full ring tells the truth, for every moveTol, dwell time and path of the pointer: at
\* each of the ticks that filled it the pointer was within moveTol of one point
\* (DwellRing.qml:3-6, 41-52).
THEOREM FullRingIsEarned == ShellSpec => []RingEarned
<1>1. ShellInv => RingEarned
  <2> SUFFICES ASSUME ShellInv, progress = FillTicks PROVE RingEarned
    BY DEF RingEarned
  <2>1. Len(trail) \in Nat /\ Len(trail) <= FillTicks /\ progress <= Len(trail)
    BY ShellTypes DEF ShellInv, ProgressEarned
  <2>2. Len(trail) = FillTicks
    BY <2>1, ShellAssumption
  <2>3. DOMAIN trail = 1 .. FillTicks
    BY <2>2, ShellTypes
  <2> QED
    BY <2>2, <2>3, ShellAssumption DEF ShellInv, ProgressEarned, RingEarned
<1> QED
  BY <1>1, ShellInvHolds, PTL

\* A key is typed only by a gesture made for the keyboard, or made while an older message
\* was on its way, whatever the pages show where, however many messages the socket holds
\* and whenever sessions end (Main.qml:21-60, engine_core.cpp:52-84).
THEOREM KeysAreSeen == ShellSpec => TypedWhereSeen
<1>1. ASSUME ShellInv, [ShellNext]_shellVars, typed' > typed
      PROVE  Head(queue).seen = "keyboard" \/ Head(queue).late
  <2>1. typed \in Nat
    BY <1>1, ShellTypes
  <2>2. CASE Receive
    <3>1. page = "keyboard" /\ queue # <<>> /\ queue[1] = Head(queue)
      BY <1>1, <2>1, <2>2, ReceiveActs
    <3>2. 1 \in DOMAIN queue
      BY <1>1, <3>1, ShellTypes, EmptySeq
    <3> QED
      BY <1>1, <3>1, <3>2 DEF ShellInv, PageAsSeen
  <2>3. CASE ~Receive
    <3>1. typed' = typed
      BY <1>1, <2>3 DEF ShellNext, Frame, EngineEnds, Teardown, Reconnect, RingTick,
                        shellVars, pageVars
    <3> QED
      BY <1>1, <2>1, <3>1
  <2> QED
    BY <2>2, <2>3
<1>2. ShellInv /\ [ShellNext]_shellVars
      => [typed' > typed => Head(queue).seen = "keyboard" \/ Head(queue).late]_shellVars
  BY <1>1
<1> QED
  BY <1>2, ShellInvHolds, PTL DEF ShellSpec, TypedWhereSeen
==============================================================================
