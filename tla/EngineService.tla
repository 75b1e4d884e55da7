---------------------------- MODULE EngineService ----------------------------
(***************************************************************************)
(* The receive loop of nui-engine (services/engine/src/main.cpp) around    *)
(* EngineCore: messages of perception wait in the socket, are taken one    *)
(* per turn of the loop, and carry the time of capture; CONTACT_STATE is   *)
(* remembered for the frames to come.  Perception is external (only its    *)
(* parts are in the repository): it sends when it likes, gives up a        *)
(* message that finds the socket full, and may go away.                    *)
(***************************************************************************)
EXTENDS EngineCore

CONSTANT
  InCap       \* messages the socket from perception holds

\* Frames may come as close together and as far apart as time goes.
ASSUME ServiceAssumption ==
  InCap \in Nat \ {0} /\ MinStep = 0 /\ MaxStep >= MaxTime /\ MaxTime >= 1

VARIABLES
  stamped,     \* does this perception put the capture time in the header?
  clock,       \* CLOCK_MONOTONIC, one for all processes
  inbox,       \* messages waiting in the socket, each with its kind
  connected,   \* has perception its end open?
  shadow,      \* shadow
  haveShadow,  \* have_shadow
  running,     \* is the engine in its loop?
  heard        \* history: has a CONTACT_STATE been taken for the hand in sight?

loopVars == <<stamped, connected, shadow, haveShadow, running, heard>>
serviceVars == <<allVars, clock, inbox, loopVars>>

HandMsg(h) == [kind |-> "hand", hand |-> h, stamp |-> IF stamped THEN clock ELSE 0]
NoHandMsg == [kind |-> "nohand", stamp |-> IF stamped THEN clock ELSE 0]
ContactMsg(s) == [kind |-> "contact", shadow |-> s]
Malformed == [kind |-> "malformed"]

ServiceInit ==
  /\ CoreInit
  /\ stamped \in BOOLEAN /\ clock = 1 /\ inbox = <<>> /\ connected = TRUE
  /\ shadow = NoShadow /\ haveShadow = FALSE
  /\ running = TRUE /\ heard = FALSE

-----------------------------------------------------------------------------
Tick == /\ clock < MaxTime /\ clock' = clock + 1
        /\ UNCHANGED <<allVars, inbox, loopVars>>

\* A message sent on a full socket is dropped, which changes nothing.
PerceptionSends ==
  /\ connected /\ Len(inbox) < InCap
  /\ \E m \in {HandMsg(h) : h \in Hands} \cup {ContactMsg(s) : s \in Shadows}
                \cup {NoHandMsg, Malformed} : inbox' = Append(inbox, m)
  /\ UNCHANGED <<allVars, clock, loopVars>>

PerceptionGone == /\ connected /\ connected' = FALSE
                  /\ UNCHANGED <<allVars, clock, inbox, stamped, shadow, haveShadow, running, heard>>

Taken(kind) == /\ running /\ inbox # <<>> /\ Head(inbox).kind = kind
               /\ inbox' = Tail(inbox)
               /\ UNCHANGED <<stamped, clock, connected, running>>

\* The time of a frame: its time of capture, or now if the header has none.
TimeOf(m) == IF m.stamp # 0 THEN m.stamp ELSE clock

TakeContact == /\ Taken("contact")
               /\ shadow' = Head(inbox).shadow /\ haveShadow' = TRUE
               /\ heard' = TRUE
               /\ UNCHANGED allVars

TakeHand == /\ Taken("hand")
            /\ now' = TimeOf(Head(inbox))
            /\ HandSeen(Head(inbox).hand, IF haveShadow THEN shadow ELSE NoShadow, now')
            /\ UNCHANGED <<shadow, haveShadow, heard>>

\* Fault: a frame without a hand is given no time.
TakeNoHandUntimed ==
  /\ Taken("nohand") /\ now' = 0 /\ HandGone(now')
  /\ heard' = FALSE /\ UNCHANGED <<shadow, haveShadow>>

TakeNoHand == /\ Taken("nohand")
              /\ now' = TimeOf(Head(inbox))
              /\ HandGone(now')
              /\ heard' = FALSE
              /\ UNCHANGED <<shadow, haveShadow>>

\* A frame that fails validation is dropped.
DropMalformed == Taken("malformed") /\ UNCHANGED <<allVars, shadow, haveShadow, heard>>

\* Fault: the loop goes on when the peer closed.
IgnoreClosed == /\ running /\ ~connected /\ inbox = <<>> /\ UNCHANGED serviceVars

\* The peer closed and everything it sent has been taken: the loop ends.
EndSession == /\ running /\ ~connected /\ inbox = <<>>
              /\ running' = FALSE
              /\ UNCHANGED <<allVars, stamped, clock, inbox, connected, shadow, haveShadow, heard>>

Turn == TakeContact \/ TakeHand \/ TakeNoHand \/ DropMalformed \/ EndSession

ServiceNext == Tick \/ PerceptionSends \/ PerceptionGone \/ Turn

\* The engine's loop keeps turning.
ServiceSpec == ServiceInit /\ [][ServiceNext]_serviceVars /\ WF_serviceVars(Turn)

-----------------------------------------------------------------------------
\* The loop feeds EngineCore as it is specified for: one update per HAND_STATE,
\* none for anything else, and times that never go back, however long frames
\* waited in the socket (main.cpp:68-104; "t in seconds (monotonic)",
\* engine_core.hpp:35).
ServiceDrivesCore == CoreSpec

\* When perception goes away the engine leaves its loop, after it has taken all
\* that perception had sent (main.cpp:74; uds.cpp:102).
EndsWithPerception == ~connected ~> (~running /\ inbox = <<>>)

\* A hand that reappears does not inherit engage state (engine_core.cpp:24-25)
\* and a shadow channel silent in the frame counts for nothing
\* (contact_fusion.hpp:33): contact without a pinch is due to a CONTACT_STATE
\* taken since a hand was last missing.  The code breaks it: main() keeps the last
\* CONTACT_STATE for ever.
ShadowOfThisHand ==
  [][frame'.engaged /\ ~pinched' => heard]_serviceVars
==============================================================================
