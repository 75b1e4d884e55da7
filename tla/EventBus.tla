------------------------------- MODULE EventBus -------------------------------
(***************************************************************************)
(* The link from the engine to the user interface: the send loop of the    *)
(* engine's main(), UdsConn::send_msg with its two policies for a full     *)
(* socket, and EventClient::onReadable at the other end.  The engine is    *)
(* represented by what EngineCore promises, GestureProtocol.  A connection *)
(* is made once and may be lost (making it is Session's subject).          *)
(***************************************************************************)
EXTENDS GestureProtocol, Integers

CONSTANTS
  Capacity,   \* messages the socket holds before send() says EAGAIN
  MaxSeq      \* bound: no frame is processed once this many messages were sent

ASSUME BusAssumption == Capacity \in Nat \ {0} /\ MaxSeq \in Nat

VARIABLES
  outbox,     \* messages of the current frame not yet sent, by name
  outSeq,     \* out_seq
  queue,      \* messages in the socket
  ui,         \* "up", or "gone" once the user interface closed its end
  lastSeq,    \* sequence number of the last message received, -1 for none
  uiDragging, \* what the events received say of the drag bracket
  uiEvents,   \* the gesture received last, none after a pointer event
  dropped     \* history: sequence numbers given to messages that were dropped

busVars == <<pvars, outbox, outSeq, queue, ui, lastSeq, uiDragging, uiEvents, dropped>>

Gestures == Clicks \cup {"HOME", "BACK", "DRAG_BEGIN", "DRAG_END"}
Names == {"POINTER"} \cup Gestures
LastSeq == MaxSeq + 3

BusTypeOK ==
  /\ dragging \in BOOLEAN /\ pointing \in BOOLEAN /\ uiDragging \in BOOLEAN
  /\ events \in Seq(Gestures) /\ Len(events) <= 2
  /\ outbox \in Seq(Names) /\ Len(outbox) <= 3
  /\ outSeq \in 0 .. LastSeq /\ lastSeq \in -1 .. LastSeq
  /\ queue \in Seq([seq : 0 .. LastSeq, name : Names]) /\ Len(queue) <= Capacity
  /\ ui \in {"up", "gone"}
  /\ uiEvents \in Seq(Gestures) /\ Len(uiEvents) <= 1
  /\ dropped \subseteq 0 .. LastSeq

BusInit ==
  /\ PInit /\ pointing = FALSE
  /\ outbox = <<>> /\ outSeq = 0 /\ queue = <<>> /\ ui = "up"
  /\ lastSeq = -1 /\ uiDragging = FALSE /\ uiEvents = <<>> /\ dropped = {}

-----------------------------------------------------------------------------
\* A frame is taken from perception only after all messages of the one before
\* have been sent.
Ready == outbox = <<>> /\ outSeq < MaxSeq

Frame == /\ Ready /\ PNext
         /\ outbox' = (IF pointing' THEN <<"POINTER">> ELSE <<>>) \o events'
         /\ UNCHANGED <<outSeq, queue, ui, lastSeq, uiDragging, uiEvents, dropped>>

\* send_msg returns, with whatever result; main() ignores it.
SendReturns == /\ outbox' = Tail(outbox) /\ outSeq' = outSeq + 1
         /\ UNCHANGED <<pvars, ui, lastSeq, uiDragging, uiEvents>>

\* Fault: off by one.
HasRoomForOneMore == Len(queue) <= Capacity

HasRoom == Len(queue) < Capacity

SendOk == /\ outbox # <<>> /\ ui = "up" /\ HasRoom
          /\ queue' = Append(queue, [seq |-> outSeq, name |-> Head(outbox)])
          /\ SendReturns /\ UNCHANGED dropped

\* Fault: gestures are given up like pointer events.
DropAnything == /\ outbox # <<>> /\ ui = "up" /\ ~HasRoom
                /\ dropped' = dropped \cup {outSeq}
                /\ SendReturns /\ UNCHANGED queue

\* Fault: a dropped event takes no sequence number.
DropUnnumbered == /\ outbox # <<>> /\ ui = "up" /\ ~HasRoom /\ Head(outbox) = "POINTER"
                  /\ dropped' = dropped \cup {outSeq} /\ outbox' = Tail(outbox)
                  /\ UNCHANGED <<pvars, outSeq, ui, lastSeq, uiDragging, uiEvents, queue>>

\* A pointer event that finds the socket full is given up; a gesture waits for
\* room in select(), which no action describes.
DropPointer == /\ outbox # <<>> /\ ui = "up" /\ ~HasRoom /\ Head(outbox) = "POINTER"
               /\ dropped' = dropped \cup {outSeq}
               /\ SendReturns /\ UNCHANGED queue

\* The peer closed: send() fails, a wait in select() ends and fails.
SendFails == /\ outbox # <<>> /\ ui = "gone"
             /\ SendReturns /\ UNCHANGED <<queue, dropped>>

Send == SendOk \/ DropPointer \/ SendFails

\* One turn of the loop in onReadable.
UiReceives ==
  /\ ui = "up" /\ queue # <<>>
  /\ LET m == Head(queue) IN
     /\ lastSeq' = m.seq
     /\ uiEvents' = IF m.name = "POINTER" THEN <<>> ELSE <<m.name>>
     /\ uiDragging' = (m.name = "DRAG_BEGIN" \/ (uiDragging /\ m.name # "DRAG_END"))
  /\ queue' = Tail(queue)
  /\ UNCHANGED <<pvars, outbox, outSeq, ui, dropped>>

UiGone == /\ ui = "up" /\ ui' = "gone" /\ queue' = <<>>
          /\ UNCHANGED <<pvars, outbox, outSeq, lastSeq, uiDragging, uiEvents, dropped>>

BusNext == Frame \/ Send \/ UiReceives \/ UiGone

\* The engine's loop and the user interface's event loop keep turning.
BusSpec == /\ BusInit /\ [][BusNext]_busVars
           /\ WF_busVars(Send) /\ WF_busVars(UiReceives)

-----------------------------------------------------------------------------
UiView == INSTANCE GestureProtocol
  WITH dragging <- uiDragging, pointing <- TRUE, events <- uiEvents

\* The user interface sees a stream of gestures that follows the grammar too,
\* although messages are dropped on the way: no bracket is broken by a full
\* socket (uds.cpp:67-83, uds.hpp:8).
UiSeesGrammar == UiView!PSpec

\* Sequence numbers let the receiver tell order and loss (nui_events.h:57): they
\* grow, and the numbers it misses are exactly those of dropped pointer events.
SequenceShowsLoss ==
  [][lastSeq' # lastSeq =>
       /\ lastSeq' > lastSeq
       /\ (lastSeq + 1) .. (lastSeq' - 1) = {s \in dropped : lastSeq < s /\ s < lastSeq'}
       /\ lastSeq' \notin dropped]_busVars

\* A gesture the engine recognised reaches the user interface, however full the
\* socket was, unless the user interface goes away (uds.hpp:8).
GesturesArrive ==
  \A s \in 0 .. LastSeq :
    (outbox # <<>> /\ Head(outbox) \in Gestures /\ outSeq = s)
      ~> (ui = "gone" \/ (lastSeq >= s /\ s \notin dropped))

\* The policy for continuous streams as documented, "drop-oldest (latest-wins)"
\* (docs/ARCHITECTURE.md:45-46, docs/adr/0001-ipc.md, uds.hpp:6-7): a pointer
\* event is not given up while an older one is kept for delivery.  The code
\* gives up the one it was asked to send, the newest.
LatestWins ==
  [][dropped' # dropped => \A i \in DOMAIN queue : queue[i].name # "POINTER"]_busVars
==============================================================================
