------------------------------- MODULE UiLink -------------------------------
(***************************************************************************)
(* Who owns which file descriptor in the user interface: EventClient with  *)
(* its connection, notifier and timer, and UdsConn, which closes what it   *)
(* owns when it is assigned to or destroyed (EventClient.cpp, uds.cpp).    *)
(* The rest of the process opens and closes descriptors too, and a number  *)
(* that was closed is given out again.  Handlers run one at a time; they   *)
(* are taken apart into their steps, between which only the engine acts.   *)
(***************************************************************************)
EXTENDS Integers

CONSTANT MaxFd   \* bound: descriptors are 0 .. MaxFd

ASSUME LinkAssumption == MaxFd \in Nat

Invalid == -1
Fds == 0 .. MaxFd

VARIABLES
  table,     \* what each descriptor is: "free", "socket" of the client, or of "others"
  conn, c,   \* fd_ of conn_, and of the local c of tryConnect
  notifier,  \* the descriptor it watches, Invalid for none
  reconnect, \* is the timer running?
  at,        \* between which steps of a handler
  engine,    \* "listening", "serving" this client, or "gone"
  others     \* history: the descriptors the rest of the process opened and did not close

linkVars == <<table, conn, c, notifier, reconnect, at, engine, others>>

LinkTypeOK ==
  /\ table \in [Fds -> {"free", "socket", "others"}]
  /\ {conn, c, notifier} \subseteq Fds \cup {Invalid} /\ reconnect \in BOOLEAN
  /\ at \in {"event loop", "connected", "moved", "teardown", "start"}
  /\ engine \in {"listening", "serving", "gone"} /\ others \subseteq Fds

LinkInit ==
  /\ table = [fd \in Fds |-> "free"] /\ conn = Invalid /\ c = Invalid
  /\ notifier = Invalid /\ reconnect = FALSE /\ at = "start"
  /\ engine = "gone" /\ others = {}

Closed(fd) == IF fd = Invalid THEN table ELSE [table EXCEPT ![fd] = "free"]

Lowest(fd) == table[fd] = "free" /\ \A e \in Fds : e < fd => table[e] # "free"

Begins == at = "start" \/ (at = "event loop" /\ reconnect)

\* Fault: the timer is only started by a teardown.
ConnectFailsQuietly == /\ Begins /\ notifier = Invalid /\ at' = "event loop"
                       /\ UNCHANGED <<table, conn, c, notifier, reconnect, engine, others>>

\* Nobody listens, or no descriptor is left; connect() closes what it opened.
ConnectFails == /\ Begins /\ notifier = Invalid /\ at' = "event loop" /\ reconnect' = TRUE
                /\ UNCHANGED <<table, conn, c, notifier, engine, others>>

Connects(fd) ==
  /\ Begins /\ notifier = Invalid /\ engine = "listening" /\ Lowest(fd)
  /\ table' = [table EXCEPT ![fd] = "socket"] /\ c' = fd
  /\ engine' = "serving" /\ at' = "connected"
  /\ UNCHANGED <<conn, notifier, reconnect, others>>

\* conn_ = std::move(c)
Move == /\ at = "connected" /\ at' = "moved"
        /\ table' = Closed(conn) /\ conn' = c /\ c' = Invalid
        /\ UNCHANGED <<notifier, reconnect, engine, others>>

\* The notifier is made, the timer stopped, c destroyed.
Watch == /\ at = "moved" /\ at' = "event loop"
         /\ notifier' = conn /\ reconnect' = FALSE
         /\ table' = Closed(c) /\ c' = Invalid
         /\ UNCHANGED <<conn, engine, others>>

\* onReadable after the engine closed or sent something malformed; the messages before
\* are no matter of descriptors.
Readable == /\ at = "event loop" /\ notifier # Invalid /\ engine # "serving"
            /\ notifier' = Invalid /\ at' = "teardown"
            /\ UNCHANGED <<table, conn, c, reconnect, engine, others>>

\* Fault: the descriptor is forgotten and not closed.
DropLeaks == /\ at = "teardown" /\ at' = "event loop"
             /\ conn' = Invalid /\ reconnect' = TRUE
             /\ UNCHANGED <<table, c, notifier, engine, others>>

\* The rest of teardown: conn_ = UdsConn()
Drop == /\ at = "teardown" /\ at' = "event loop"
        /\ table' = Closed(conn) /\ conn' = Invalid /\ reconnect' = TRUE
        /\ UNCHANGED <<c, notifier, engine, others>>

EngineComesAndGoes == /\ engine' \in {"listening", "gone"} \ {engine}
                      /\ UNCHANGED <<table, conn, c, notifier, reconnect, at, others>>

OthersOpen(fd) == /\ at = "event loop" /\ Lowest(fd)
                  /\ table' = [table EXCEPT ![fd] = "others"] /\ others' = others \cup {fd}
                  /\ UNCHANGED <<conn, c, notifier, reconnect, at, engine>>

OthersClose(fd) == /\ at = "event loop" /\ fd \in others
                   /\ table' = Closed(fd) /\ others' = others \ {fd}
                   /\ UNCHANGED <<conn, c, notifier, reconnect, at, engine>>

LinkSteps == \/ ConnectFails \/ Move \/ Watch \/ Readable \/ Drop
             \/ \E fd \in Fds : Connects(fd)

LinkNext == \/ LinkSteps \/ EngineComesAndGoes
            \/ \E fd \in Fds : OthersOpen(fd) \/ OthersClose(fd)

LinkSpec == LinkInit /\ [][LinkNext]_linkVars

-----------------------------------------------------------------------------
OneOwner == {fd \in Fds : table[fd] = "socket"} = {conn, c} \ {Invalid}
OthersUntouched == {fd \in Fds : table[fd] = "others"} = others
WatchesOwnSocket == notifier # Invalid => notifier = conn /\ table[notifier] = "socket"

\* Every socket that is open has one owner and every owner an open socket: none leaks,
\* none is closed twice.  The client never closes a descriptor that others were given
\* meanwhile, and the notifier watches the socket of the connection and none that was
\* closed or given to others since (uds.cpp:30-41, uds.hpp:26-30, EventClient.cpp:19-35).
HoldsItsOwn == OneOwner /\ OthersUntouched /\ WatchesOwnSocket

\* The client is never stranded: in the event loop it waits for its connection or for
\* its timer, and not for both (EventClient.cpp:23, 27-33).
NeverStranded == at = "event loop" => (notifier = Invalid <=> reconnect)
==============================================================================
