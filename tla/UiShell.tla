------------------------------- MODULE UiShell -------------------------------
(***************************************************************************)
(* The user interface (services/ui): what EventClient and the QML shell do *)
(* with the messages of an engine session, also with those on their way    *)
(* when it ends, and the ring that shows the progress of a dwell.  The     *)
(* engine is represented by GestureProtocol; how its messages get through  *)
(* a full socket is EventBus's subject, how a session is set up Session's. *)
(***************************************************************************)
EXTENDS GestureProtocol, Integers

CONSTANTS
  Spots,       \* where the pointer may be, pixels along a line
  Layout,      \* page -> spot -> what a hit test finds there
  RingTol,     \* moveTol
  FillTicks,   \* timer ticks until the ring is full
  Capacity,    \* messages that may wait in the socket
  MaxFrames    \* bound: frames processed by all engine sessions together

Pages == {"home", "keyboard"}
Targets == {"nothing", "tile", "Clavier", "key", "Fermer"}

ASSUME ShellAssumption ==
  /\ Spots \subseteq Int /\ Spots # {} /\ Layout \in [Pages -> [Spots -> Targets]]
  /\ \A s \in Spots : Layout["home"][s] # "key"
  /\ RingTol \in Nat /\ FillTicks \in Nat \ {0}
  /\ Capacity \in Nat /\ MaxFrames \in Nat

VARIABLES
  frames,      \* frames processed so far
  queue,       \* messages in the socket, oldest first
  link,        \* "up", "closed" by the engine, or "down" once noticed
  shown,       \* pointerX, pointerY
  page, typed, \* root.page; length of typed.text, 0 without a keyboard page
  progress, last,  \* of DwellRing; last is lastX, lastY
  trail        \* history: where the last ticks of the ring's timer saw the pointer

pageVars == <<page, typed>>
ringVars == <<progress, last, trail>>
linkVars == <<frames, queue, link>>
shellVars == <<pvars, linkVars, shown, pageVars, ringVars>>

ShellTypeOK ==
  /\ frames \in 0 .. MaxFrames /\ link \in {"up", "closed", "down"}
  /\ Len(queue) <= Capacity /\ \A i \in DOMAIN queue : queue[i].at \in Spots
  /\ shown \in Spots
  /\ page \in Pages /\ typed \in 0 .. MaxFrames /\ (page = "home" => typed = 0)
  /\ progress \in 0 .. FillTicks /\ last \in Spots
  /\ Len(trail) <= FillTicks /\ \A i \in DOMAIN trail : trail[i] \in Spots

ShellInit ==
  /\ PInit /\ pointing = FALSE
  /\ frames = 0 /\ queue = <<>> /\ link = "up"
  /\ shown \in Spots /\ page = "home" /\ typed = 0
  /\ progress = 0 /\ last = shown /\ trail = <<>>

-----------------------------------------------------------------------------
(* The engine's end *)

\* The messages of a frame at a spot.  History: the page on the surface when the
\* frame was seen, and whether older messages were still on their way.
Message(name, at) ==
  [name |-> name, at |-> at, seen |-> page, late |-> queue # <<>>]

Frame(at) ==
  /\ link = "up" /\ frames < MaxFrames /\ PNext
  /\ LET names == (IF pointing' THEN <<"POINTER">> ELSE <<>>) \o events'
     IN queue' = queue \o [i \in DOMAIN names |-> Message(names[i], at)]
  /\ Len(queue') <= Capacity
  /\ frames' = frames + 1
  /\ UNCHANGED <<link, shown, pageVars, ringVars>>

\* The loop of the engine ends, in whatever state its gestures are.
EngineEnds == /\ link = "up" /\ link' = "closed"
              /\ UNCHANGED <<pvars, frames, queue, shown, pageVars, ringVars>>

-----------------------------------------------------------------------------
(* EventClient and the shell *)

\* Loading a page anew forgets what was typed on the one before.
GoTo(p) == page' = p /\ typed' = IF p = page THEN typed ELSE 0

\* TAP and DWELL_SELECT act on what the page shows at the spot.
Activate(target) ==
  CASE target = "Clavier" -> GoTo("keyboard")
    [] target = "Fermer"  -> GoTo("home")
    [] target = "key"     -> typed' = typed + 1 /\ UNCHANGED page
    [] OTHER              -> UNCHANGED pageVars

\* Fault: BACK toggles between the pages.
HandleGestureToggles(name, at) ==
  CASE name \in {"TAP", "DWELL_SELECT"} -> Activate(Layout[page][at])
    [] name = "HOME" -> GoTo("home")
    [] name = "BACK" -> GoTo(IF page = "home" THEN "keyboard" ELSE "home")
    [] OTHER -> UNCHANGED pageVars

\* Fault: HOME is not handled.
HandleGestureNoHome(name, at) ==
  CASE name \in {"TAP", "DWELL_SELECT"} -> Activate(Layout[page][at])
    [] name = "BACK" -> GoTo("home")
    [] OTHER -> UNCHANGED pageVars

HandleGesture(name, at) ==
  CASE name \in {"TAP", "DWELL_SELECT"} -> Activate(Layout[page][at])
    [] name \in {"HOME", "BACK"} -> GoTo("home")
    [] OTHER -> UNCHANGED pageVars

\* One message of the loop in onReadable.
Receive ==
  /\ link # "down" /\ queue # <<>> /\ queue' = Tail(queue)
  /\ LET m == Head(queue) IN
     IF m.name = "POINTER" THEN shown' = m.at /\ UNCHANGED pageVars
                          ELSE HandleGesture(m.name, m.at) /\ UNCHANGED shown
  /\ UNCHANGED <<pvars, frames, link, ringVars>>

\* What the engine had sent is read before the close is seen.
Teardown == /\ link = "closed" /\ queue = <<>> /\ link' = "down"
            /\ UNCHANGED <<pvars, frames, queue, shown, pageVars, ringVars>>

\* The timer found a new engine, whose gestures begin anew.
Reconnect == /\ link = "down" /\ link' = "up"
             /\ dragging' = FALSE /\ pointing' = FALSE /\ events' = <<>>
             /\ UNCHANGED <<frames, queue, shown, pageVars, ringVars>>

Far(a, b) == a - b > RingTol \/ b - a > RingTol

\* Fault: a full ring goes on filling.
RingOverfills ==
  IF Far(shown, last) THEN last' = shown /\ progress' = 0
  ELSE progress' = progress + 1 /\ UNCHANGED last

\* Fault: the ring follows a slow pointer.
RingFollows ==
  /\ last' = shown
  /\ progress' = IF Far(shown, last) THEN 0
                 ELSE IF progress < FillTicks THEN progress + 1 ELSE FillTicks

Ring ==
  IF Far(shown, last) THEN last' = shown /\ progress' = 0
  ELSE /\ progress' = IF progress < FillTicks THEN progress + 1 ELSE FillTicks
       /\ UNCHANGED last

RingTick ==
  /\ Ring
  /\ trail' = Append(IF Len(trail) < FillTicks THEN trail ELSE Tail(trail), shown)
  /\ UNCHANGED <<pvars, linkVars, shown, pageVars>>

ShellNext == \/ \E at \in Spots : Frame(at)
             \/ EngineEnds \/ Receive \/ Teardown \/ Reconnect \/ RingTick

\* The event loop keeps turning; nothing is assumed of the engine.
ShellSpec == ShellInit /\ [][ShellNext]_shellVars /\ WF_shellVars(Receive) /\ WF_shellVars(Teardown)

-----------------------------------------------------------------------------
\* A key is typed only by a gesture made when the keyboard was on the surface, or
\* made while an older message, which may have changed the page, was on its way:
\* HOME or BACK in the same frame never turns a gesture on the home page
\* into a key (Main.qml:21-60, engine_core.cpp:52-84).
TypedWhereSeen ==
  [][typed' > typed => Head(queue).seen = "keyboard" \/ Head(queue).late]_shellVars

\* A full ring tells the truth: at each of the ticks that filled it the pointer
\* was within moveTol of one point, although it may creep and jump between ticks
\* (DwellRing.qml:3-6, 41-52).
RingEarned ==
  progress = FillTicks =>
    Len(trail) = FillTicks /\ \A i \in DOMAIN trail : ~Far(trail[i], last)

\* A HOME gesture on its way takes the user home, through a session that ends
\* meanwhile too (Main.qml:53-56, EventClient.cpp:37-61).
HomeArrives == (\E i \in DOMAIN queue : queue[i].name = "HOME") ~> page = "home"
==============================================================================
