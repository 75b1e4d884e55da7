# Verification of the projected touch interface (NUI)

TLA+ models, TLC runs and TLAPS proofs for the code in `src/`: a hand seen by a
camera over a projected surface is turned into pointer and gesture events for a
user interface. Perception sends the state of the hand to the engine, the engine
recognises gestures and sends events to the user interface; three processes, two
Unix sockets.

```
 perception ---HAND_STATE, CONTACT_STATE---> engine ---POINTER, GESTURE events---> user interface
 (external)        SOCK_SEQPACKET           main.cpp        SOCK_SEQPACKET           EventClient
                                               |                                        |
                                  EngineCore: filter, homography,                   QML shell
                                  contact fusion, shape timers,
                                  GestureFsm
             supervisor: starts the three processes, restarts each one that ends
```

## 1. Inventory

| Part | State it keeps | Operations | Interacts through | What makes it correct |
|---|---|---|---|---|
| Gesture recogniser, `gesture_fsm.cpp` | one of five states, anchors of contact, dwell and swipe | `update`, once per frame | called by EngineCore; appends events | drags are brackets, timed gestures are earned by the hand and never overdue, one event per frame |
| Contact fusion, `contact_fusion.hpp`, `hand_shape.hpp` | pinch latch | `update`, `reset` | called by EngineCore | hysteresis; shadow only when confident; nothing survives a lost hand |
| 1 euro filter, `filter_1euro.hpp` | two low-pass values, last sample | `filter`, `reset` | called by EngineCore, one per axis | answers between the last value and the sample; nothing survives a lost hand |
| Homography, `homography_map.hpp` | nine numbers | `map` | called by EngineCore, loaded by main | stays on the surface |
| Engine core, `engine_core.cpp` | previous position, HOME and BACK timers | `update` | called by the engine's loop | drives the recogniser as it expects, shape gestures earned, merged stream well formed |
| Engine service, `main.cpp` | the two connections, last CONTACT_STATE, output sequence number | accept twice, receive loop, send loop | sockets | one update per hand message, times in order, session ends with perception |
| UDS transport, `uds.cpp` | a descriptor | `connect`, `send_msg`, `recv_msg_ex`, `accept_one` | kernel queues | gestures never dropped, loss visible in sequence numbers |
| UI link, `EventClient.cpp` | connection, notifier, timer, last pointer | `tryConnect`, `onReadable`, `teardown` | socket, Qt event loop, QML signals | reconnects, delivers in order |
| UI shell, `qml/` | page stack, reticle, dwell ring | `handleGesture`, hit tests, timers | signals of EventClient | a gesture acts on what is shown |
| Supervisor, `main.rs` | backoff of each service | `supervise`, one thread each | processes | the session settles after crashes |
| Message layout, `nui_events.h`, `codec.hpp` | - | make and check a header | both ends of each socket | every regular frame is taken, nothing else is read |
| Tracking gate, `tracking_gate.hpp` | is a hand tracked, frames since detection | `begin_frame`, `observe` | perception process (not in the repository) | detection runs in time, and only then |
| Shadow contact, `shadow_contact.cpp` | latch | `estimate` | perception process, its result is a CONTACT_STATE | looks inside the image, hysteresis of what it measured |
| Performance probe, `perf_probe.cpp` | window of the last frames, time of the last report | `record`, `stats` | perception process | the window is recent, percentiles are those of real latencies |
| Model integrity, `hef_integrity.cpp` | block buffer of a hash | `sha256_file`, `verify_hef` | perception process, before it loads a model | the hash is that of the file, however it is read |
| Calibration tools | data sets, thresholds, matrix | offline | the files the engine loads | derived thresholds separate the classes |
| systemd units, tuning file | files | restarts | processes | the session settles without the supervisor |

Hard behaviours. Frames come at any distance in time and the hand may vanish in
any state. Anchors and latches of one hand may leak to the next. Messages wait in
sockets while time goes on. A full socket drops some messages and blocks for
others. Each process may end and be restarted while the others hold its
connections, and the engine accepts each client only once. `PROJECT.json` lists
each hazard at its line with the properties that would catch it.

## 2. Modules

| Module | Models | Actions correspond to |
|---|---|---|
| `GestureProtocol` | abstract: the grammar of the event stream, frame by frame | what consumers of the events may rely on |
| `GestureFsm` | `GestureFsm::update` | one action per branch of its switch: `Lost`, `Acquire`, `Press`, `StartSwipe`, `Wander`, `DwellSelect`, `Release`, `DragBegin`, `LongPress`, `DragEnd`, `SwipeSettle`, and `Wait` for frames that change nothing |
| `GestureHistory` | the same, with history variables that follow the hand and the events without reading the recogniser's state | - |
| `GestureFsmProofs` | theorems about the two modules above | - |
| `OneEuro`, `ContactFusion` | the filter of one axis; the engage decision | operators used by EngineCore |
| `EngineCore` | `EngineCore::update`, extends the three component modules | `HandGone` for the early return, `HandSeen` for the rest |
| `EngineHistory` | the same with history variables about the hand in sight | - |
| `EngineCoreProofs` | theorems about the two modules above | - |
| `EngineService` | the receive loop of `main()` around EngineCore, and perception at the other end | one action per message kind taken, one for the end of the session |
| `EngineServiceProofs` | theorems about `EngineService` | - |
| `EventBus` | the send loop of `main()`, `send_msg`, the socket, `onReadable` | `Frame`, `SendOk`, `DropPointer`, `SendFails`, `UiReceives`, `UiGone` |
| `EventBusProofs` | theorems about `EventBus` | - |
| `Session` | the three processes' lives, listeners, backlog, blocking `connect`, under the supervisor or under the units of `deploy/systemd` | starts, accepts, closes, crashes, connects, teardown; `SupervisorStarts` and `UnitStarts` for what restarts a client, `Restarted` for when the engine is |
| `SessionProofs` | theorems about `Session` | - |
| `UiShell` | `EventClient`'s signals, `Main.qml`, `ProjectedKeyboard.qml`, `DwellRing.qml`; the engine is GestureProtocol | `Receive` for one message with all that QML does with it, `RingTick` for the timer, frames, end of a session, `Teardown`, the next session |
| `UiShellProofs` | theorems about `UiShell` | - |
| `UiLink` | `EventClient` and `UdsConn`: who owns which descriptor | the steps of `tryConnect` and `teardown` between which the engine may act; the rest of the process opens and closes descriptors |
| `Wire` | layout, `make_header`, `valid_header`, `recv_msg_ex` and the loops that call it | datagrams sent by `send_msg` and by others, one receive, close |
| `Homography` | `load_homography` and `Homography::map` | open, read an entry, fail |
| `Supervisor` | one thread of `supervise` | tick of a run, end of the child, tick of the sleep, restart |
| `TrackingGate` | both calls | `BeginFrame`, `Observe`; a dropped frame is one without `Observe` |
| `ShadowContact` | `estimate` | one action per return of the function |
| `PerfProbe` | `record`, `stats` | one frame recorded |
| `HefIntegrity` | `sha256_file`, `Sha256`, `verify_hef` | open, read a chunk, fill the buffer, pad, finish |
| `PinchCalibration` | the thresholds of `calibrate_pinch.py` | one sample recorded |
| `PerceptionProofs` | theorems about `TrackingGate`, `ShadowContact`, `PerfProbe` and `HefIntegrity` | - |
| `MCParts` | the nine modules from `UiLink` to `PinchCalibration`, in one instance: a behaviour chooses one of them and the others stand still, since they share no state | - |
| `PartsProofs` | theorems about `UiLink`, `Wire`, `Homography`, `Supervisor`, `PinchCalibration` and `MCParts` | - |
| other `MC*` | instances for TLC | - |

How they compose: `EngineCore` EXTENDS `GestureFsm`, calls its `Update` as the
code calls `fsm_.update`, and is shown to implement `GestureFsm!Spec`
(`DrivesRecogniser`). `EngineService` calls `HandSeen` and `HandGone` and is shown
to implement `CoreSpec` (`ServiceDrivesCore`). Both the recogniser and the core
implement `GestureProtocol` (`GrammarKept`, `StreamGrammarKept`), which then
stands for the engine in `EventBus`, whose other end is again shown to implement
it (`UiSeesGrammar`). `UiShell` EXTENDS `GestureProtocol` too, so what is shown of it holds for any engine
that keeps the grammar; its socket has room for a few messages, and a frame waits
until what it sends fits. `Session` is about connections only. `ShadowContact` and
`PinchCalibration` take `ContactFusion` as an INSTANCE, to say what the engine does
with a confidence or a threshold. `UiLink`, `Wire`, `Homography`, `Supervisor` and
the helpers of perception stand alone; `MCParts` puts them in one instance in which
their state spaces add up.

Abstractions.
* Positions are points with a table of distances, thresholds are whole numbers
  of the same units, time is whole ticks. Speed is one of three classes, the
  ones that the comparisons in `gesture_fsm.cpp:40,82` tell apart.
* The direction of a swipe is the point it is measured from.
* The filter answers any value between its last one and the sample: its smoothing
  factor is in (0, 1] for every cutoff and every positive step. It is exact on the
  first two samples, where the code's nested `has_prev_` flags answer the sample. A
  step that is not positive is replaced as in the code (`StepOf`); the model answers
  anything at all to one that is not, so that what is shown depends on the replacement.
* The homography is any function from filtered coordinates to points, the clamp
  included. Landmarks reduce to index tip, pinch ratio and number of extended fingers.
* A HAND_STATE or CONTACT_STATE of wrong size, bad magic or bad version is one
  message `Malformed`; the pointer's confidence is left out.
* `EngineService` leaves out that `send_msg` may block the loop; `EventBus`, which
  models exactly that, shows that it goes on when the user interface reads or
  leaves. Failures of `socket`, `bind`, `listen` and `accept` are left out: `main()`
  then exits, which for `Session` is a crash (`EngineCrash`).
* `UiShell`: places are spots on a line with a table of what each page shows there;
  the text typed is its length. The pointer's confidence, animations, colours and the
  HUD are left out.
* `UiLink`: a descriptor is its number; `Lowest` is the kernel's choice of a new one.
* `Wire`: a message is its size, the sum of the widths of its fields. Of a datagram the
  model keeps its length, the length in its header, whether
  magic and version are genuine, and its type. The caller's buffer is kept in cuts:
  a receive overwrites its front and leaves the rest, which is what matters for stale
  bytes. The engine or the user interface receives. An empty datagram, which `recv`
  cannot tell from a close and which no process of the repository sends, ends the
  connection in the model too.
* `Session`, under the units: the delay of a restart (`RestartSec`) is long against the reactions of
  an engine that has something to react to, so a client unit starts after them.
* `ShadowContact`: a frame is any set of dark blobs with area, side and gap, and a
  brightness; what OpenCV makes of pixels is left out. Confidence is a whole number
  of units in which both factors of the code are exact.
* `PerfProbe`: times are unsigned numbers of a small width, subtraction wraps around; the
  three times of a frame come in any order, as `record` takes them;
  the latency at place k of the sorted ones is the least that k of the frames do not exceed.
* `HefIntegrity`: a byte of the file is its position, and compression is appending the
  block to what was compressed before: bytes lost, doubled or swapped are told
  apart. The length field is the number it encodes.
* `PinchCalibration`: ratios are whole numbers, thresholds are counted in twentieths,
  where midpoints and a tenth of one are whole. Both thresholds are then rounded to a
  multiple of `Step`, the fourth decimal, ties to the even one as Python's `round` does;
  that a decimal fraction is not exact in binary is left out. Ratio 0 is a ratio.
* `Homography`: entries are whole numbers, the answer is rounded to units of the surface.

Some modules hold definitions whose comment starts with "Fault:". They are
plausible slips in the definition they stand next to (a reset forgotten, a guard
off by one), used as mutants: with one of them in place of the original, the
property named in `PROJECT.json` is violated. No specification uses them.

## 3. Runs

| Run | Shows |
|---|---|
| `gesture_fsm` | type invariant; `NeverOverdue`: nothing the code times or measures, neither dwell nor drag nor long press, is overdue after a frame; `GrammarKept` |
| `gesture_history` | `DwellEarned`, `LongEarned`: a timed gesture only after the hand did what it stands for, for long enough; `TimedEventsSpaced`: no bursts; `AnchorsTellTruth`, the invariant behind them |
| `engine_core` | `DrivesRecogniser`, `StreamGrammarKept` with HOME and BACK mixed in, `NothingInherited` from an earlier hand, `ShapesEarned`, `DragEndsWhereShown` |
| `engine_service` | `ServiceDrivesCore`, also for messages that waited and malformed ones; `EndsWithPerception` (liveness) |
| `event_bus` | `UiSeesGrammar`, `SequenceShowsLoss`, `GesturesArrive` (liveness) over a socket that fills up and a user interface that may leave |
| `session` | `HarmedByCrashesOnly`: what leaves a client blocked or unserved is crashes and nothing else; under the supervisor `SettlesServing` and `EngineRestartHeals`, under the systemd units `UnitsSettle` (liveness): with crashes of all three processes, the ways a session settles |
| `ui_shell` | `TypedWhereSeen`: a key is typed only where a keyboard was shown at the place of the gesture; `HomeArrives` (liveness): HOME takes the user home, through the end of a session too; `RingEarned`: a full ring saw the pointer rest |
| `parts`: `UiLink` | `HoldsItsOwn`: no descriptor leaks, is closed twice or is taken from others, even when numbers are reused; `NeverStranded`: connection or timer, always |
| `parts`: `Wire` | `FramesArriveWhole`: every regular frame is taken, in order, among malformed ones, no byte of an earlier message is read, and a receiver that stops has taken all that came before |
| `parts`: `Homography` | `ScaleFree`: what is loaded is the file, and a matrix and its multiples are the same map |
| `parts`: `Supervisor` | `WaitIsEarned`: the backoff follows from the failures in a row |
| `parts`: `TrackingGate` | `DetectsInTime`: palm detection runs on exactly the frames that the answers and results before it call for, whatever frames are dropped and hands lost |
| `parts`: `ShadowContact` | `LatchTellsTruth`: the latch is the hysteresis over all gaps measured, and the engine does not act on dark content |
| `parts`: `PerfProbe` | `ReportsOnTime`; `StatsAreReal`: each recent frame with its stages in order counts once and nothing else does, percentiles lie among the latencies, balanced |
| `parts`: `HefIntegrity` | `AcceptsOwnHash`: a file is accepted for the hash of what was read of it, in whatever pieces, and no other |
| `parts`: `PinchCalibration` | `UsableThresholds`: thresholds in order after rounding; room between them, and samples that engage as labelled, when the labels are further apart than rounding moves; classes count alike however many samples each has |
| `parts`: all | `PartsTypeOK`: types, with the rectangle of the shadow channel inside the image, the homography's answers on the surface and the sizes of the Python mirror |
| `gesture_consume`, `shadow_stale`, `bus_latest`, `session_ui_lost` | the disagreements below |

Disagreements between the code and what it or its documents say, each the
counterexample of a run:

1. `LongPressConsumed`: after LONG_PRESS the same contact engages again in the
   next frame, and its release can be a TAP (`gesture_fsm.cpp:66` says "consume").
2. `ShadowOfThisHand`: the last CONTACT_STATE is kept for ever and engages hands it
   was not about (`main.cpp:96`, against `engine_core.cpp:24-25`, `contact_fusion.hpp:33`).
3. `LatestWins`: a full socket drops the newest pointer event, documented as
   "drop-oldest (latest-wins)" (`uds.cpp:74`, `docs/ARCHITECTURE.md:45-46`).
4. `ConnectedIsServed`, under the supervisor with a crash of the user interface: the engine accepts it once
   (`main.cpp:55`, against `main.rs:122-123`); `EngineRestartHeals` shows what ends it.

Further observations met while modelling, which no run claims; the models do what
the code does:

* The engine ends well when perception closes, and `Restart=on-failure`
  (`nui-engine.service:15`) does not start it again, where the supervisor would;
  `main.rs:9-11` calls the two equivalent. `UnitsSettle` has this as one of its outcomes.
* A session that ends in a drag never closes it (`main.cpp:74`, `docs/ARCHITECTURE.md:71`).
* The reticle keeps the confidence of the last pointer event when the hand is lost
  and when the session ends (`EventClient.cpp:19-24`, `Reticle.qml:3-4`).
* Palm detection of a tracked hand runs every N + 1 frames, since the counter is set
  to 0 by the frame that runs it (`tracking_gate.hpp:29`, against its line 18, "every N
  frames", and `tracking_gate_test.cpp:58`, "re-anchor at 30, 60, 90", where it is 31, 62,
  93). `DetectsInTime` has the number as the code has it, and holds for no other.
* An early return of the shadow channel keeps its latch, where a missing shadow
  clears it (`shadow_contact.cpp:15, 23, 68`).
* A read error is taken for the end of the file (`hef_integrity.cpp:96`, against
  `hef_integrity.hpp:31`). `AcceptsOwnHash` shows that nothing is accepted for it
  but what has the expected hash.
* The derived release threshold may lie beyond samples labelled release, since the
  whole gap is added to its middle (`calibrate_pinch.py:81`, its lines 4-9).
* Labels closer to each other than the fourth decimal, and samples that are all at ratio
  0, get one number for both thresholds, and so no hysteresis (`calibrate_pinch.py:81-84`,
  against "a usable hysteresis" in `test_calibrate_pinch.py:42`). A sample may then fail
  to engage as it was labelled; `UsableThresholds` says from which distance on it does not.
* After a failed load the matrix is not the identity (`main.cpp:30`, the warning in
  `main.cpp:45`).
* A datagram longer than the buffer is cut down before its length is compared
  (`uds.cpp:96`, `docs/SECURITY.md:17`).

Bounds, and why they are enough.
* `gesture_fsm`: four points on a line, so that each threshold has distances on
  both sides; thresholds 1 to 3; frames 0 to 2 ticks apart (same-time frames
  included); 5 ticks, longer than the longest timer plus the frames around it. The
  state machine resets all its clocks on the way back to Tracking, so longer
  histories repeat these. The proofs cover all values.
* `gesture_history`: three points, 8 ticks one apart: room for a timed gesture, its
  consumption and a second one.
* `engine_core`: camera coordinates 0..2 with samples at both ends, so that the
  filter can answer in between; the surface doubles them, so that the hand can be
  settled, moving and fast; ratios on both sides of the threshold and at it; an open hand
  and a fist; frames at the same time or a tick apart, so that the step of the filter is 0
  as well; 3 ticks, in which any number of frames may lie: enough for HOME to fire (1), a
  hand to be lost and another to appear. The hold of BACK is 0, where a fist fires each frame.
* `engine_service`: one point, one pinch-free hand, two shadow states; a socket of
  two messages, so that a message can wait behind another one; 4 ticks of clock.
* `event_bus`: a socket of two messages; frames until five messages are out, so that
  a drag, a full socket and several losses in a row fit.
* `session`: backlog 1 as in `uds.cpp:126`, which holds two connections; three crashes
  of perception, four of the user interface and two of the engine. Four crashes fill
  the backlog with dead sockets and block `connect`. In `session_ui_lost` one crash of
  the user interface.
* `ui_shell`: three spots, which show a tile, the key to the keyboard and nothing, or
  keys and the one that closes; a socket of three messages, which one frame may
  fill; three frames, in one session or several, and any number of timer ticks between;
  each frame carries up to two gestures and a pointer event, so that HOME and
  DWELL_SELECT, and a press after a change of page, occur.
* `parts`, `UiLink`: four descriptors: one for the connection, one for the one being made,
  and some for others; `PartsProofs` covers every number.
* `Wire`: three datagrams, two waiting; lengths none, below a header, of the smallest and
  of the largest frame and beyond the buffer; headers that agree, say less, more or
  too much. Three suffice for a message that comes after a longer one and a shorter one.
* `Homography`: entries -1 to 1, all 9-tuples that can be written, read to any
  point of failure; a view of three by three points.
* `Supervisor`: backoff 1, doubled to a cap of 6 that is no power of two; 5 waits
  reach it twice.
* `TrackingGate`: an interval of 2 and eight frames: a hand is found, lost or dropped
  in all orders, and one that stays is detected anew twice.
* `ShadowContact`: an image of 12 by 8 with fingertips inside, at corners and outside
  on two sides; blobs too small, on the wrong side, touching, between the thresholds
  and far; four brightnesses; three frames measured.
* `PerfProbe`: a window of three, four frames, every fill of the window and one frame
  dropped from it; three times, each of which may be any of the three of a frame: a stage
  measured in between, one given as its neighbour, stages out of order; four bits, so that a
  difference out of order wraps around.
* `HefIntegrity`: blocks of 8 bytes with a length of 2, chunks of 9, files of up to 20
  bytes: chunks that leave every remainder in the buffer, and padding that fits and
  that needs another block.
* `PinchCalibration`: five samples of four ratios; three of one class and two of the
  other are enough for rates that differ from counts. One ratio is 0; the step of rounding
  is twice the least distance of two ratios and half the next one, so that a gap may be narrower
  than it or wider, and a threshold may lie below, above or in the middle between two steps.
Deadlock is checked in `gesture_fsm`, in which frames at the last tick go on. Elsewhere
the bound on time, sequence numbers, frames, samples or crashes ends the exploration,
the call modelled returns, or every process waits for another as it should.

Fairness. `EngineService`: weak fairness of the engine's turn, a loop around
`select` with no other wait than the one discussed above. `EventBus`: weak fairness
of the send loop and of the user interface's event loop; a user interface that hangs for ever
would block the engine, and `GesturesArrive` is claimed under the assumption that
it does not. `Session`: weak fairness of each process: a loop, a timer of half a
second that repeats until it connects (`EventClient.cpp:11-12, 29`), and a
supervisor thread per process that always restarts it (`main.rs:46-75`).
The units restart what failed
after a second, as their `Restart=` and `RestartSec=` say, so a client's next step is fair under
them too. systemd gives a unit up that starts more than five times in ten seconds, its default, since
the units set no limit; the model leaves that out: `UnitsSettle` is about crashes that are
further apart. `UiShell`: weak fairness of
the event loop that receives, and that notices a close.
Crashes have no fairness and are bounded in number, which is the meaning of "once crashes
stop". Perception sends and leaves without fairness. For `Session` perception is
taken to reconnect as the user interface does, as `main.rs:122` says.

## 4. Proofs

`GestureFsmProofs` proves, for every set of points, every table of distances, all
thresholds and all distances between frames (assumptions `PosAssumption`,
`ThresholdAssumption`, `BoundAssumption`, evaluated by the runs):

* `TypeCorrect`: `Spec => []TypeOK`.
* `NothingOverdue`: `Spec => []NeverOverdue`, that is `DwellPending /\ PressPending`, inductive together with
  `TypeOK`: each action that leads to Tracking resets the dwell anchor to the
  frame, and `Wait` keeps it only if nothing is due.
* `ImplementsProtocol`: `Spec => GrammarKept`, the refinement of `GestureProtocol`, one
  step per action. The refinement maps an open drag to the state Dragging.
* `AnchorsTrue`: `HSpec => [](TypeOK /\ AnchorsTellTruth)`. The properties about what the hand
  did are not inductive: an event says nothing of the frames before it.
  `AnchorsTellTruth` links them, by stating what the anchors stand for: since the dwell
  anchor was set the hand was near it, free of contact; since contact was
  anchored, it was neither broken nor far; and no event came in between.
* `TimedGesturesEarned`: `HSpec => DwellEarned /\ LongEarned /\ TimedEventsSpaced`, from that
  invariant and the guards of the two actions.

The argument does not use the triangle inequality or symmetry of distances, only
that a point is at distance zero from itself.

`EngineCoreProofs` does the same for the engine, for every
surface, filter answer, pinch ratio, shadow channel and threshold (in addition
`CoreAssumption` and `HysteresisAssumption`):

* `CoreDrivesRecogniser`: `CoreSpec => DrivesRecogniser`. The invariant `KeptState` says that
  the previous position is that of the last frame, which is what a frame without a
  hand repeats, and that filters stay within the coordinates. By this theorem all
  that is proved of the recogniser holds inside the engine.
* `CoreTypeCorrect`: `CoreSpec => []CoreTypeOK`, from the type correctness of the recogniser.
* `CoreImplementsProtocol`: `CoreSpec => StreamGrammarKept`. Each frame is a step of the
  grammar by the recogniser's refinement; a shape event put before it is again one
  (`ShapesFitIn`), and HOME and BACK exclude each other (`OneShape`).
* `ReportsAreTrue`: `NSpec => ShapesEarned /\ DragEndsWhereShown`. The invariant `InStep` says
  that a running timer was started after the hand last was not in its shape, and
  that the previous position is the one last shown.
* `InheritsNothing`: `NSpec => []NothingInherited`. The strengthening `NewOrOwn` says that
  without a hand everything is as new, and that what the filters hold lies among
  the tips reported for this hand; the step for the filters is `AnswerSpanned`.

`EngineServiceProofs`, for every capacity of the socket and however long messages wait
(`ServiceAssumption`: the core's frames may be as close and as far apart as the clock allows):

* `ServiceImplementsCore`: `ServiceSpec => ServiceDrivesCore`. Each step of the loop is one
  update of the core at a time that is not before the last one, or leaves the core alone.
  The invariant `StampsInOrder` is about the frames that still wait: their times of
  capture follow one another, none is before what the core saw nor ahead of the clock.
* `ServiceKeepsGrammar`: with the theorems above, what perception's messages become in the
  socket to the user interface follows the grammar.

`EventBusProofs`, for every capacity (`BusAssumption`):

* `BusTypeCorrect`, and `NumbersShowLoss`: `BusSpec => SequenceShowsLoss`. `Numbering` says that each
  number between the last one received and the next one to send belongs to a message
  that waits or to one given up, and that those that wait are in order.
* `ReceiverSeesGrammar`: `BusSpec => UiSeesGrammar`. The receiver may be behind in the middle of
  a drag. `Bracketed` says that what waits and what is not yet sent, put after what was received,
  is a sentence of the grammar: there is a set `Open` of numbers before which the bracket is
  open, and each message takes one number of it to the next. Dropping a pointer event
  leaves the bracket as it is.

`SessionProofs`, for every backlog and number of crashes (`SessionAssumption`):

* `SessionTypeCorrect`: the queues keep within `Backlog + 1`, and there is a fresh socket for
  each connection, since those that wait, the client's and the engine's are fewer than there are.
* `CrashesAloneHarm`: `SessionSpec => []HarmedByCrashesOnly`. The invariant `CrashInv` counts: the
  sockets of a client at the engine, in the queue or accepted, are at most its crashes,
  and one more if the one it has is among them; and the engine has accepted what
  its place in `main()` says.

`UiShellProofs`, for every layout of the pages, capacity, ring and number of frames
(`ShellAssumption`: the home page shows no keys):

* `ShellTypeCorrect`, `FullRingIsEarned` and `KeysAreSeen`: `ShellSpec => []ShellTypeOK`,
  `[]RingEarned` and `TypedWhereSeen`. In `ShellInv`, `PageAsSeen` says that while the page is the
  keyboard each message that waits was made for it or is late, `ClicksComeLast` that a click
  makes all behind it late, `ClicksCounted` that there are no more clicks than frames, which bounds
  the text typed, and `ProgressEarned` that the ring's ticks are the last of the trail.

`PerceptionProofs`, for all sizes, thresholds, intervals and widths (`GateAssumption`,
`ShadowAssumption`, `ProbeAssumption`, `HashAssumption`):

* `DetectionIsInTime`: `GateSpec => [](GateTypeOK /\ DetectsInTime)`. The history holds the answers and
  the results as a caller sees them, neither variable of the code; the invariant says what the two variables stand
  for in it: the last result told was of a hand, and the answers that came
  since the last detection were all no.
* `LatchIsHysteresis`: `ShadowSpec => [](ShadowTypeOK /\ LatchTellsTruth)`, with the rectangle inside the
  image (`RoiIsCut`) and the report that of the latch (`ReportOfLatch`).
* `ReportsAreOnTime`: `ProbeSpec => [](ProbeTypeOK /\ ReportsOnTime)`. `WindowKept`: the records kept are the last
  ones; `IntervalsKept`: the last report follows from the first record and the reports.
* `StatisticsAreReal`: `ProbeSpec => []StatsAreReal`. The k-th latency exists and belongs to a frame of the
  window, and each frame in order has its place (`LatenciesAreReal`); the window is the last frames of
  all, in the same order (`Shifted`, `RecentAreKept`); percentiles are computed in whole hundredths between two
  neighbours (`RankOf`, `BetweenNeighbours`), hence in order (`PercentilesInOrder`) and balanced
  (`PercentileMirrored`).
* `HashIsOwn`: `HashSpec => [](HashTypeOK /\ AcceptsOwnHash)`. `FedRight` says that what was compressed,
  the buffer and what is still to be copied are, put together, the message so far, with no more
  zeros than the standard asks for; when padding ends its length is a multiple of the block
  (`ZerosFit`), and different lengths have different paddings (`PaddedTells`).

`PartsProofs`, for every number of descriptors, capacity, matrix, backoff and data set
(`LinkAssumption`, `WireAssumption`, `HomographyAssumption`, `SupervisorAssumption`, `CalibrationAssumption`):

* `LinkTypeCorrect` and `OwnsWhatItHolds`: `LinkSpec => [](HoldsItsOwn /\ NeverStranded)`.
  The invariant `LinkInv` adds to the types that the table of descriptors agrees with what
  the others opened (`TableTells`), and what each handle may hold between the steps of a
  handler (`Holding`): in the middle of a move two handles must not name one socket, which
  the properties alone do not say.
* `WaitsAreEarned`: `SuperSpec => [](SuperTypeOK /\ WaitIsEarned)`, with the library's fact on the subsets of
  a set for the powers of two (`PowerDoubles`).
* `CalibrationIsSafe`: `LoadSpec => [](LoadTypeOK /\ ScaleFree /\ ScaleFreeForAll)`: what was written is what was
  read (`LoadInv`), rows are linear and a quotient has no scale, so all multiples but zero are one map;
  the run tries three.
* `FramesAreTakenWhole`: `WireSpec => [](WireTypeOK /\ FramesArriveWhole)`. `WireInv`: the datagrams that wait are
  the last ones sent (`InARow`), what was taken came before them (`TakenBefore`), and every regular frame is
  among either (`NoneLost`).
* `DatasetTypeCorrect` and `ThresholdsAreUsable`: `SamplesSpec => []UsableThresholds`. The best candidate exists, as one of
  finitely many (`BestIs`); separable labels have a candidate without an error and the middle of
  a gap lies strictly between its ends (`SeparatesAll`, `BestInMiddle`). Rounding moves a number by half a step at most
  and keeps the order (`RoundedIs`, `RoundedInOrder`), so a gap wider than a step keeps the threshold in it
  (`TakenAsLabelled`) and room above it (`RoomIsLeft`). With every release sample doubled each rate is the same
  (`CountsTwice`, `BestTwice`).
* `PartsTypeCorrect`: `PartsSpec => []PartsTypeOK`: a behaviour of the composition is one of a part with the others
  standing still (`EachPartRuns`).

Where an argument would be an induction over data, the proofs take the least counterexample
instead (`LeastOf`, from the well-foundedness of the natural numbers); division and remainder
are used through lemmas of their own (`DivisionIs`, `BlocksAndRest`, `RemainderOfSum`), since the solver
knows neither for divisors that are not literals.

Every safety property of a run, the refinements included, is stated by a theorem.
Only model-checked: liveness under fairness, which is out of the prover's reach
(`EndsWithPerception`, `GesturesArrive`, `HomeArrives`, `SettlesServing`, `EngineRestartHeals`, `UnitsSettle`), and the
violations, which are counterexamples. What a RECURSIVE operator computes does not occur: none is used.

## 5. Not modelled

* Arithmetic of the filter, landmark geometry, NaN inputs, the angle of a swipe.
* The perception process and its pipeline: only helpers and a pipeline description
  for external software are in the repository.
* SHA-256's compression, OpenCV, Qt and systemd themselves.
* The pointer's confidence and the brightness of the reticle.
* The probe's mean, frame rate and CSV file: sums and formatting of the same window.
* Failures of `socket`, `bind`, `listen` and `accept`, and paths too long for a socket.
* The tools that call OpenCV or a camera, installation and provisioning scripts, the
  hardening of the units: configuration, or calls of external code.
* `config/gestures.yaml`: nothing in the repository reads it; thresholds are parameters.

## 6. Plan

Done: the recogniser with its grammar, the engine around it and the service around both; the
link to the user interface and its shell; frames on the wire; the session under the
supervisor and under systemd; the helpers of perception; the calibration; and a theorem for each
safety property of the runs.

Next, proofs:
1. The safety parts behind the liveness properties: in `EventBus` that the message at the head of the
   outbox is received, waits or is a pointer event given up; in `EngineService` that the loop has an enabled
   step whenever something waits.
2. `EngineHistory`'s facts about the hand, lifted to the service: history variables beside `EngineService`.
3. `EventBus` behind `EngineCore`: the composition of both refinements, from a frame to what the
   user interface receives.
