--------------------------------- MODULE Wire ---------------------------------
(***************************************************************************)
(* Frames on the bus: the layout of the messages (nui_events.h), the       *)
(* header (codec.hpp), how send_msg puts a frame together and how          *)
(* recv_msg_ex and the loop of its caller take it apart (uds.cpp,          *)
(* main.cpp, EventClient.cpp).  Not every datagram comes from send_msg:    *)
(* the repository's own tests send others.  The caller's payload buffer    *)
(* outlives a message, so each of its bytes knows which one wrote it.      *)
(***************************************************************************)
EXTENDS Integers, Sequences

CONSTANTS
  Lengths,           \* lengths of datagrams that were not made by send_msg
  PayloadLens,       \* what their headers say
  MaxSent, WireCap   \* bounds: datagrams sent; datagrams waiting in the socket

ASSUME WireAssumption ==
  /\ Lengths \subseteq Nat /\ PayloadLens \subseteq Nat /\ MaxSent \in Nat /\ WireCap \in Nat

VARIABLES
  receiver,  \* "engine" or "ui"
  wire,      \* datagrams in the socket, each with its number
  sent,      \* how many were sent
  payload,   \* the buffer: which datagram wrote the bytes up to each cut
  running,   \* is the connection in use?
  open,      \* has the sender its end open?
  due,       \* history: the numbers of the frames the receiver has to take
  taken      \* history: what it took, with the datagrams its bytes are from

wireVars == <<receiver, wire, sent, payload, running, open, due, taken>>

\* Structures are packed: a size is the sum of the widths of the fields.
kLandmark == 4 + 4 + 4 + 4
kHeader == 4 + 2 + 2 + 4 + 8 + 8

Payload == [hand |-> 1 + 1 + 2 + 4 + 21 * kLandmark, contact |-> 1 + 1 + 2 + 4,
            pointer |-> 4 + 4 + 4, gesture |-> 2 + 2 + 4 + 4 + 4 + 4]

kMaxPayload == Payload["hand"]
kMaxMessage == kHeader + kMaxPayload

Handled == IF receiver = "engine" THEN {"hand", "contact"} ELSE {"pointer", "gesture"}

\* genuine: magic and version are those of the protocol.
Datagrams == [length : Lengths, genuine : BOOLEAN,
              type : Handled \cup {"unknown"}, payload_len : PayloadLens]

\* The parts the buffer is seen in.
Cuts == ({Payload[k] : k \in DOMAIN Payload} \cup PayloadLens) \cap 1 .. kMaxPayload

WireInit == /\ receiver \in {"engine", "ui"} /\ wire = <<>> /\ sent = 0 /\ payload = [c \in Cuts |-> 0]
            /\ running = TRUE /\ open = TRUE /\ due = {} /\ taken = <<>>

-----------------------------------------------------------------------------
\* What the layout asks of a frame.
Conforms(d) == /\ d.genuine /\ d.type \in Handled
               /\ d.payload_len = Payload[d.type] /\ d.length = kHeader + d.payload_len

Enter(d) ==
  /\ open /\ sent < MaxSent /\ Len(wire) < WireCap
  /\ sent' = sent + 1
  /\ wire' = Append(wire, [d |-> d, id |-> sent + 1])
  /\ due' = IF Conforms(d) THEN due \cup {sent + 1} ELSE due
  /\ UNCHANGED <<payload, running, open, taken>>

\* make_header
Framed(kind) == [length |-> kHeader + Payload[kind], genuine |-> TRUE,
                 type |-> kind, payload_len |-> Payload[kind]]

SendMsg(kind) == Payload[kind] <= kMaxPayload /\ Enter(Framed(kind))

SendOther == \E d \in Datagrams : Enter(d)

Close == /\ open /\ open' = FALSE
         /\ UNCHANGED <<wire, sent, payload, running, due, taken>>

-----------------------------------------------------------------------------
Valid(d) == d.genuine /\ d.payload_len <= kMaxPayload

\* recv cuts a datagram down to the size of the buffer it is given.
Received(d) == IF d.length > kMaxMessage THEN kMaxMessage ELSE d.length

Ok(d) == /\ Received(d) >= kHeader
         /\ Valid(d)
         /\ Received(d) = kHeader + d.payload_len

\* Fault: the caller looks at the type only.
TakesType(d) == d.type \in Handled

Takes(d) == d.type \in Handled /\ d.payload_len = Payload[d.type]

Written(d, id) == [c \in Cuts |-> IF c <= d.payload_len THEN id ELSE payload[c]]

Copied(d, id) == {Written(d, id)[c] : c \in {b \in Cuts : b <= Payload[d.type]}}

TakeOk(d, id) ==
  /\ Ok(d)
  /\ payload' = Written(d, id)
  /\ taken' = IF Takes(d) THEN Append(taken, [id |-> id, from |-> Copied(d, id), as |-> d])
              ELSE taken
  /\ UNCHANGED running

\* The engine drops what is malformed, the user interface gives its connection up.
TakeMalformed(d) == /\ d.length # 0 /\ ~Ok(d)
                    /\ running' = (receiver = "engine")
                    /\ UNCHANGED <<payload, taken>>

\* A length of zero stands for the end of the connection.
TakeEmpty(d) == /\ d.length = 0
                /\ running' = FALSE
                /\ UNCHANGED <<payload, taken>>

Receive == /\ running /\ wire # <<>>
           /\ wire' = Tail(wire)
           /\ LET d == Head(wire).d
              IN TakeOk(d, Head(wire).id) \/ TakeMalformed(d) \/ TakeEmpty(d)
           /\ UNCHANGED <<sent, open, due>>

SeeClosed == /\ running /\ wire = <<>> /\ ~open
             /\ running' = FALSE
             /\ UNCHANGED <<wire, sent, payload, open, due, taken>>

WireNext == /\ (\E k \in Handled : SendMsg(k)) \/ SendOther \/ Close \/ Receive \/ SeeClosed
            /\ UNCHANGED receiver

WireSpec == WireInit /\ [][WireNext]_wireVars

-----------------------------------------------------------------------------
Numbers == 0 .. MaxSent

\* The type invariant; the sizes are those the Python mirror expects
\* (proto/nui_events.py, EXPECTED_SIZES).
WireTypeOK ==
  /\ receiver \in {"engine", "ui"}
  /\ sent \in Numbers /\ Len(wire) <= WireCap /\ payload \in [Cuts -> Numbers]
  /\ running \in BOOLEAN /\ open \in BOOLEAN
  /\ \A i \in DOMAIN wire : wire[i].id \in 1 .. sent
  /\ kHeader = 28
  /\ Payload = [hand |-> 344, contact |-> 8, pointer |-> 12, gesture |-> 20]

\* Every frame that is sent as it should be, the largest one too, is taken once and in
\* order, whatever malformed or unknown datagrams come between; the connection is given
\* up only when it was closed or something irregular came; and a handler reads no byte
\* of an earlier message out of the buffer that outlives them all, whatever lengths
\* datagrams and headers have (main.cpp:64-93, EventClient.cpp:37-61, uds.cpp:102-108).
FramesArriveWhole ==
  LET regular == {taken[i].id : i \in {j \in DOMAIN taken : Conforms(taken[j].as)}}
      waiting == {wire[i].id : i \in {j \in DOMAIN wire : Conforms(wire[j].d)}}
  IN /\ due = regular \cup waiting
     /\ running \/ (wire = <<>> /\ ~open) \/ due # 1 .. sent
     /\ \A i \in DOMAIN taken :
          /\ taken[i].from = {taken[i].id}
          /\ \A j \in 1 .. i - 1 : taken[j].id < taken[i].id
          /\ \A j \in DOMAIN wire : taken[i].id < wire[j].id
==============================================================================
