------------------------------- MODULE Session -------------------------------
(***************************************************************************)
(* The life of the three processes and of the two connections between      *)
(* them: the engine's main() that accepts perception and then the user     *)
(* interface once each (services/engine/src/main.cpp), UdsListener with    *)
(* its backlog and UdsConn::connect (libs/nui_protocol/src/uds.cpp), the   *)
(* user interface's EventClient that reconnects.  Processes that end are   *)
(* restarted by the supervisor (supervisor/src/main.rs) in any case, or by *)
(* the systemd units (deploy/systemd) if they failed.  Perception is       *)
(* external; the supervisor counts on it to reconnect like the user        *)
(* interface.                                                              *)
(***************************************************************************)
EXTENDS Integers, Sequences, FiniteSets, Functions

CONSTANTS
  Backlog,          \* the argument of listen()
  MaxCrashes,       \* bound: crashes of each client, a function
  MaxEngineCrashes  \* bound: crashes of the engine

Clients == {"perception", "ui"}

ASSUME SessionAssumption ==
  /\ Backlog \in Nat
  /\ MaxCrashes \in [Clients -> Nat] /\ MaxEngineCrashes \in Nat

VARIABLES
  manager,   \* what restarts processes, "supervisor" or "units"
  engine,    \* where the engine's main() is
  exit,      \* how the engine ended, "no" until it did
  proc,      \* state of each client process; hung: blocked in connect()
  conn,      \* the socket each client holds, 0 for none
  backlog,   \* sockets waiting to be accepted, per listener
  peer,      \* the socket the engine accepted from each client, 0 for none
  crashes,   \* crashes of each client so far
  engineCrashes

ends == <<conn, backlog, peer>>
counts == <<crashes, engineCrashes>>
engineVars == <<engine, exit>>
sessionVars == <<manager, engineVars, proc, ends, counts>>

Sockets == 1 .. Backlog + 3

SessionTypeOK ==
  /\ manager \in {"supervisor", "units"} /\ exit \in {"no", "clean", "failed"}
  /\ engine \in {"down", "accept perception", "accept ui", "loop"}
  /\ proc \in [Clients -> {"down", "up", "hung"}]
  /\ conn \in [Clients -> Sockets \cup {0}] /\ peer \in [Clients -> Sockets \cup {0}]
  /\ \A c \in Clients : backlog[c] \in Seq(Sockets) /\ Len(backlog[c]) <= Backlog + 1
  /\ \A c \in Clients : crashes[c] \in 0 .. MaxCrashes[c]
  /\ engineCrashes \in 0 .. MaxEngineCrashes

\* Nothing runs; everything is about to be started.
SessionInit ==
  /\ manager \in {"supervisor", "units"}
  /\ engine = "down" /\ exit = "no" /\ engineCrashes = 0
  /\ proc = [c \in Clients |-> "down"] /\ crashes = [c \in Clients |-> 0]
  /\ conn = [c \in Clients |-> 0] /\ peer = [c \in Clients |-> 0]
  /\ backlog = [c \in Clients |-> <<>>]

Waiting(c) == Range(backlog[c])

Unused(c) == Sockets \ (Waiting(c) \cup {conn[c], peer[c]})

-----------------------------------------------------------------------------
(* The engine *)

\* Fault: a unit that failed stays down.
RestartedNever == manager = "units" => exit = "no"

\* The unit says Restart=on-failure.
Restarted == manager = "units" => exit # "clean"

\* Both listeners are created before anything is accepted.
EngineStart == /\ engine = "down" /\ Restarted
               /\ engine' = "accept perception" /\ exit' = "no"
               /\ UNCHANGED <<proc, ends, counts>>

\* accept_one takes the oldest connection, be its client alive or not.
Accept(c, where, next) ==
  /\ engine = where /\ backlog[c] # <<>>
  /\ peer' = [peer EXCEPT ![c] = Head(backlog[c])]
  /\ backlog' = [backlog EXCEPT ![c] = Tail(backlog[c])]
  /\ engine' = next
  /\ UNCHANGED <<exit, proc, conn, counts>>

AcceptPerception == Accept("perception", "accept perception", "accept ui")
AcceptUi == Accept("ui", "accept ui", "loop")

\* Fault: a listener stays open.
EngineStopsUnclosed == /\ engine' = "down" /\ peer' = [c \in Clients |-> 0]
                       /\ UNCHANGED <<backlog, proc, conn>>

\* The process ends: its connections and listeners are closed with it.
EngineStops == /\ engine' = "down"
               /\ peer' = [c \in Clients |-> 0]
               /\ backlog' = [c \in Clients |-> <<>>]
               /\ UNCHANGED <<proc, conn>>

\* Fault: the loop goes on when perception closed.
PerceptionClosedIgnored == /\ engine = "loop" /\ peer["perception"] # conn["perception"]
                           /\ UNCHANGED sessionVars

\* The loop watches perception only; main() returns 0.
PerceptionClosed == /\ engine = "loop" /\ peer["perception"] # conn["perception"]
                    /\ EngineStops /\ exit' = "clean" /\ UNCHANGED counts

EngineCrash == /\ engine # "down" /\ engineCrashes < MaxEngineCrashes
               /\ engineCrashes' = engineCrashes + 1
               /\ EngineStops /\ exit' = "failed" /\ UNCHANGED crashes

-----------------------------------------------------------------------------
(* The clients *)

Listening == engine # "down"

\* Fault: off by one.
HasOnePlaceMore(c) == Len(backlog[c]) <= Backlog + 1

HasPlace(c) == Len(backlog[c]) <= Backlog

\* connect() succeeds as soon as the listener's queue has a place for it.
Enqueue(c) ==
  /\ Listening /\ HasPlace(c)
  /\ LET s == CHOOSE s \in Unused(c) : \A r \in Unused(c) : s <= r
     IN /\ conn' = [conn EXCEPT ![c] = s]
        /\ backlog' = [backlog EXCEPT ![c] = Append(@, s)]
  /\ proc' = [proc EXCEPT ![c] = "up"]
  /\ UNCHANGED <<engineVars, peer, counts>>

Connect(c) == proc[c] = "up" /\ conn[c] = 0 /\ Enqueue(c)

\* The socket is still a blocking one: without a place, connect() waits.
ConnectBlocks(c) == /\ proc[c] = "up" /\ conn[c] = 0 /\ Listening /\ ~HasPlace(c)
                    /\ proc' = [proc EXCEPT ![c] = "hung"]
                    /\ UNCHANGED <<engineVars, ends, counts>>

ConnectReturns(c) ==
  /\ proc[c] = "hung"
  /\ \/ Enqueue(c)
     \/ /\ ~Listening
        /\ proc' = [proc EXCEPT ![c] = "up"]
        /\ UNCHANGED <<engineVars, ends, counts>>

\* Fault: a connection that is not accepted yet is given up.
TeardownUnaccepted(c) == /\ proc[c] = "up" /\ conn[c] \notin {0, peer[c]}
                         /\ conn' = [conn EXCEPT ![c] = 0]
                         /\ UNCHANGED <<engineVars, proc, backlog, peer, counts>>

\* The engine closed its end: teardown, and connect again later.
Teardown(c) == /\ proc[c] = "up" /\ conn[c] \notin {0, peer[c]} \cup Waiting(c)
               /\ conn' = [conn EXCEPT ![c] = 0]
               /\ UNCHANGED <<engineVars, proc, backlog, peer, counts>>

ClientCrash(c) == /\ proc[c] # "down" /\ crashes[c] < MaxCrashes[c]
                  /\ crashes' = [crashes EXCEPT ![c] = @ + 1]
                  /\ proc' = [proc EXCEPT ![c] = "down"]
                  /\ conn' = [conn EXCEPT ![c] = 0]
                  /\ UNCHANGED <<engineVars, backlog, peer, engineCrashes>>

SupervisorStarts(c) == /\ manager = "supervisor" /\ proc[c] = "down"
                       /\ proc' = [proc EXCEPT ![c] = "up"]
                       /\ UNCHANGED <<engineVars, ends, counts>>

\* RestartSec is long against the engine's reactions to what waits for it.
EngineReacted ==
  /\ engine = "loop" => peer["perception"] = conn["perception"]
  /\ engine = "accept perception" => backlog["perception"] = <<>>
  /\ engine = "accept ui" => backlog["ui"] = <<>>

\* Wants=nui-engine.service: a start of the client starts an engine that is down.
UnitStarts(c) ==
  /\ manager = "units" /\ proc[c] = "down" /\ EngineReacted
  /\ proc' = [proc EXCEPT ![c] = "up"]
  /\ IF engine = "down" THEN engine' = "accept perception" /\ exit' = "no"
                        ELSE UNCHANGED engineVars
  /\ UNCHANGED <<ends, counts>>

EngineSteps == EngineStart \/ AcceptPerception \/ AcceptUi \/ PerceptionClosed

ClientSteps(c) == \/ Connect(c) \/ ConnectBlocks(c) \/ ConnectReturns(c)
                  \/ Teardown(c) \/ SupervisorStarts(c) \/ UnitStarts(c)

SessionNext == /\ \/ EngineSteps \/ EngineCrash
                  \/ \E c \in Clients : ClientSteps(c) \/ ClientCrash(c)
               /\ UNCHANGED manager

\* Every process takes its next step; what has to be restarted is restarted.
SessionSpec == /\ SessionInit /\ [][SessionNext]_sessionVars
               /\ WF_sessionVars(EngineSteps /\ UNCHANGED manager)
               /\ \A c \in Clients : WF_sessionVars(ClientSteps(c) /\ UNCHANGED manager)

-----------------------------------------------------------------------------
Served(c) == conn[c] # 0 /\ peer[c] = conn[c]

Serving == engine = "loop" /\ \A c \in Clients : Served(c)

UiCrashed == crashes["ui"] > 0

\* What the processes leave each other is the doing of crashes alone, however starts,
\* restarts and reconnections follow one another: a client is blocked in connect() only
\* after more crashes of its own than the backlog takes, and one that never crashed is
\* served whenever the engine is in its loop (uds.cpp:43-54, 101-135, main.cpp:50-74).
HarmedByCrashesOnly ==
  \A c \in Clients : /\ proc[c] = "hung" => crashes[c] > Backlog
                     /\ engine = "loop" /\ crashes[c] = 0 => Served(c)

\* Once processes stop crashing, the engine is in its loop with both clients for
\* good, unless the user interface was among those that crashed: restarts and
\* reconnections do not chase one another for ever (main.cpp:50-74,
\* EventClient.cpp:19-35, main.rs:46-75).
SettlesServing == manager = "supervisor" => <>[]Serving \/ <>UiCrashed

\* "perception/ui are clients that reconnect on their own" (main.rs:122-123):
\* under the supervisor a client that got a connection is served on it, or loses it.
\* The code breaks it: the engine accepts the user interface once, and leaves one
\* that crashed and came back in the backlog for ever.
ConnectedIsServed ==
  manager = "supervisor" => \A c \in Clients : conn[c] # 0 ~> (Served(c) \/ conn[c] = 0)

\* A restart of the engine heals what crashes of the user interface left behind,
\* sockets of dead processes in the backlog and a client blocked in connect():
\* if the user interface crashes no more, all are served again for good
\* (main.cpp:50-74, uds.cpp:43-54, 132-135).
EngineRestartHeals ==
  [](manager = "supervisor" /\ engine = "down" /\ crashes["ui"] = MaxCrashes["ui"] => <>[]Serving)

EngineGone == engine = "down" /\ exit = "clean"
UiForgotten == engine = "loop" /\ ~Served("ui")

\* The supervisor "duplicates what systemd Restart= already provides" (main.rs:9-11), but
\* for an engine that ends well.  Under the units, when crashes are over, all are served,
\* or the engine ended well with nobody to start it again, or the user interface crashed
\* and is not accepted any more; there is no other way to settle, and none not to
\* (main.cpp:50-74, nui-engine.service:15).
UnitsSettle ==
  manager = "units" => <>[]Serving \/ <>[]EngineGone \/ (<>[]UiForgotten /\ <>UiCrashed)
==============================================================================
