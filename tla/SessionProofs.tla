---------------------------- MODULE SessionProofs ----------------------------
(***************************************************************************)
(* Theorems about Session, for every backlog and every number of crashes.  *)
(***************************************************************************)
EXTENDS Session, FiniteSetTheorems, SequenceTheorems, WellFoundedInduction, TLAPS

EngineStates == {"down", "accept perception", "accept ui", "loop"}

\* The listeners' queues, as functions.
QueuesOK == backlog \in [Clients -> Seq(Sockets)] /\ crashes \in [Clients -> Nat]

SessionInv == SessionTypeOK /\ QueuesOK

-----------------------------------------------------------------------------
\* A non-empty set of natural numbers has a least element.
LEMMA LeastNatural ==
  ASSUME NEW T \in SUBSET Nat, T # {}
  PROVE  \E n \in T : \A m \in T : n <= m
<1> DEFINE R == {ss \in Nat \X Nat : ss[1] < ss[2]}
<1>1. IsWellFoundedOn(R, Nat)
  BY NatLessThanWellFounded, Zenon DEF OpToRel
<1>2. PICK n \in T : \A m \in T : <<m, n>> \notin R
  <2> HIDE DEF R
  <2> QED
    BY <1>1, WFMin, Zenon
<1>3. \A m \in T : ~(m < n)
  BY <1>2
<1> QED
  BY <1>3

\* A sequence shows at most as many values as it is long.
LEMMA FewInQueue ==
  ASSUME NEW S, NEW q \in Seq(S)
  PROVE  IsFiniteSet(Range(q)) /\ Cardinality(Range(q)) <= Len(q)
<1>1. /\ Len(q) \in Nat /\ DOMAIN q = 1 .. Len(q)
  BY LenProperties
<1>2. IsFiniteSet(1 .. Len(q)) /\ Cardinality(1 .. Len(q)) = Len(q)
  BY <1>1, FS_Interval
<1>3. q \in Surjection(1 .. Len(q), Range(q))
  BY <1>1, LenProperties DEF Surjection, Range
<1> QED
  BY <1>2, <1>3, FS_Surjection

\* One element more.
LEMMA AtMostOneMore ==
  ASSUME NEW S, NEW x, IsFiniteSet(S)
  PROVE  /\ IsFiniteSet(S \cup {x}) /\ Cardinality(S \cup {x}) \in Nat
         /\ Cardinality(S \cup {x}) <= Cardinality(S) + 1
<1>1. Cardinality(S) \in Nat
  BY FS_CardinalityType
<1>2. /\ IsFiniteSet(S \cup {x})
      /\ Cardinality(S \cup {x}) = IF x \in S THEN Cardinality(S) ELSE Cardinality(S) + 1
  BY FS_AddElement, Zenon
<1> QED
  BY <1>1, <1>2

\* There is always a socket to connect with while the queue has a place: those that
\* wait, the client's and the engine's are fewer than there are, and the least of the
\* others is chosen.
LEMMA UnusedThere ==
  ASSUME SessionInv, NEW k \in Clients, HasPlace(k)
  PROVE  (CHOOSE s \in Unused(k) : \A r \in Unused(k) : s <= r) \in Unused(k)
<1> DEFINE used == Waiting(k) \cup {conn[k], peer[k]}
<1>1. /\ IsFiniteSet(Waiting(k)) /\ Cardinality(Waiting(k)) <= Backlog
      /\ Cardinality(Waiting(k)) \in Nat /\ Backlog \in Nat
  <2>1. backlog[k] \in Seq(Sockets) /\ Len(backlog[k]) <= Backlog /\ Len(backlog[k]) \in Nat
    BY LenProperties DEF SessionInv, SessionTypeOK, HasPlace
  <2>2. /\ IsFiniteSet(Waiting(k)) /\ Cardinality(Waiting(k)) <= Len(backlog[k])
    BY <2>1, FewInQueue DEF Waiting
  <2> QED
    BY <2>1, <2>2, FS_CardinalityType, SessionAssumption
<1>2. IsFiniteSet(used) /\ Cardinality(used) <= Backlog + 2 /\ Cardinality(used) \in Nat
  <2>1. used = (Waiting(k) \cup {conn[k]}) \cup {peer[k]}
    OBVIOUS
  <2> DEFINE two == Waiting(k) \cup {conn[k]}
  <2>2. IsFiniteSet(two) /\ Cardinality(two) \in Nat /\ Cardinality(two) <= Cardinality(Waiting(k)) + 1
    BY <1>1, AtMostOneMore, Zenon
  <2> HIDE DEF two
  <2>3. /\ IsFiniteSet(two \cup {peer[k]}) /\ Cardinality(two \cup {peer[k]}) \in Nat
        /\ Cardinality(two \cup {peer[k]}) <= Cardinality(two) + 1
    BY <2>2, AtMostOneMore, Zenon
  <2>4. used = two \cup {peer[k]}
    BY <2>1, Zenon DEF two
  <2> HIDE DEF used
  <2> QED
    BY <1>1, <2>2, <2>3, <2>4
<1>3. IsFiniteSet(Sockets) /\ Cardinality(Sockets) = Backlog + 3
  BY <1>1, FS_Interval DEF Sockets
<1>4. Unused(k) # {}
  <2> SUFFICES ASSUME Sockets \subseteq used PROVE FALSE
    BY DEF Unused
  <2> HIDE DEF used
  <2>1. Cardinality(Sockets) <= Cardinality(used)
    BY <1>2, FS_Subset
  <2> QED
    BY <1>1, <1>2, <1>3, <2>1
<1>5. Unused(k) \in SUBSET Nat
  BY <1>1 DEF Unused, Sockets
<1>6. \E s \in Unused(k) : \A r \in Unused(k) : s <= r
  BY <1>4, <1>5, LeastNatural
<1> QED
  BY <1>6

\* The three services start with nothing open.
LEMMA SessionStarts == SessionInit => SessionInv
<1> SUFFICES ASSUME SessionInit PROVE SessionInv
  OBVIOUS
<1>1. \A k \in Clients : /\ backlog[k] = <<>> /\ backlog[k] \in Seq(Sockets) /\ Len(backlog[k]) = 0
                        /\ crashes[k] = 0 /\ MaxCrashes[k] \in Nat
  BY EmptySeq, SessionAssumption DEF SessionInit
<1>2. QueuesOK
  BY EmptySeq DEF SessionInit, QueuesOK
<1>3. SessionTypeOK
  BY <1>1, SessionAssumption DEF SessionInit, SessionTypeOK
<1> QED
  BY <1>2, <1>3 DEF SessionInv

\* A connection is made with a fresh socket, at the end of a queue that had a place.
LEMMA EnqueueKeepsType ==
  ASSUME SessionInv, NEW k \in Clients, Enqueue(k), UNCHANGED manager
  PROVE  SessionInv'
<1> DEFINE s == CHOOSE s \in Unused(k) : \A r \in Unused(k) : s <= r
<1>1. s \in Sockets
  BY UnusedThere DEF Enqueue, Unused
<1>2. /\ conn' = [conn EXCEPT ![k] = s] /\ backlog' = [backlog EXCEPT ![k] = Append(@, s)]
      /\ proc' = [proc EXCEPT ![k] = "up"] /\ Len(backlog[k]) <= Backlog
      /\ UNCHANGED <<engine, exit, peer, crashes, engineCrashes, manager>>
  BY DEF Enqueue, HasPlace, engineVars, counts
<1> HIDE DEF s
<1>3. backlog' \in [Clients -> Seq(Sockets)]
  BY <1>1, <1>2 DEF SessionInv, QueuesOK
<1>4. \A c \in Clients : backlog'[c] \in Seq(Sockets) /\ Len(backlog'[c]) <= Backlog + 1
  <2> TAKE c \in Clients
  <2>1. backlog[c] \in Seq(Sockets) /\ Len(backlog[c]) <= Backlog + 1
    BY DEF SessionInv, SessionTypeOK
  <2>2. CASE c = k
    <3>1. backlog'[c] = Append(backlog[c], s)
      BY <1>2, <2>2 DEF SessionInv, QueuesOK
    <3> QED
      BY <1>1, <1>2, <2>1, <2>2, <3>1, SessionAssumption
  <2>3. CASE c # k
    BY <1>2, <2>1, <2>3 DEF SessionInv, QueuesOK
  <2> QED
    BY <2>2, <2>3
<1> QED
  BY <1>1, <1>2, <1>3, <1>4 DEF SessionInv, SessionTypeOK, QueuesOK

\* The queue of one client gets shorter when the engine accepts.
LEMMA AcceptKeepsType ==
  ASSUME SessionInv, NEW k \in Clients, NEW where, NEW next \in EngineStates,
         Accept(k, where, next), UNCHANGED manager
  PROVE  SessionInv'
<1>1. /\ peer' = [peer EXCEPT ![k] = Head(backlog[k])]
      /\ backlog' = [backlog EXCEPT ![k] = Tail(backlog[k])]
      /\ engine' = next /\ UNCHANGED <<exit, proc, conn, crashes, engineCrashes, manager>>
  BY DEF Accept, counts
<1>2. /\ Head(backlog[k]) \in Sockets /\ Tail(backlog[k]) \in Seq(Sockets)
      /\ Len(Tail(backlog[k])) <= Backlog + 1
  <2>1. backlog[k] \in Seq(Sockets) /\ backlog[k] # <<>> /\ Len(backlog[k]) <= Backlog + 1
    BY DEF Accept, SessionInv, SessionTypeOK
  <2>2. /\ Head(backlog[k]) \in Sockets /\ Tail(backlog[k]) \in Seq(Sockets)
        /\ Len(Tail(backlog[k])) = Len(backlog[k]) - 1 /\ Len(backlog[k]) \in Nat
    BY <2>1, HeadTailProperties, LenProperties, Zenon
  <2> QED
    BY <2>1, <2>2, SessionAssumption
<1>3. backlog' \in [Clients -> Seq(Sockets)] /\ peer' \in [Clients -> Sockets \cup {0}]
  BY <1>1, <1>2 DEF SessionInv, SessionTypeOK, QueuesOK
<1>4. \A c \in Clients : backlog'[c] \in Seq(Sockets) /\ Len(backlog'[c]) <= Backlog + 1
  BY <1>1, <1>2 DEF SessionInv, SessionTypeOK, QueuesOK
<1> QED
  BY <1>1, <1>3, <1>4, Zenon DEF SessionInv, SessionTypeOK, QueuesOK, EngineStates

\* An engine that leaves its loop, by itself or by a signal, closes what it has open.
LEMMA EngineStopsKeepsType ==
  ASSUME SessionInv, EngineStops, exit' \in {"clean", "failed"},
         engineCrashes' \in 0 .. MaxEngineCrashes, UNCHANGED <<crashes, manager>>
  PROVE  SessionInv'
<1>1. /\ peer' \in [Clients -> Sockets \cup {0}] /\ backlog' = [c \in Clients |-> <<>>]
      /\ engine' = "down" /\ UNCHANGED <<proc, conn>>
  BY DEF EngineStops
<1>2. \A c \in Clients : backlog'[c] \in Seq(Sockets) /\ Len(backlog'[c]) <= Backlog + 1
  BY <1>1, EmptySeq, SessionAssumption
<1>3. backlog' \in [Clients -> Seq(Sockets)]
  BY <1>1, EmptySeq
<1> QED
  BY <1>1, <1>2, <1>3 DEF SessionInv, SessionTypeOK, QueuesOK

\* The steps of the engine keep the invariant (main.cpp:50-104).
LEMMA EngineKeepsType ==
  ASSUME SessionInv, EngineSteps \/ EngineCrash, UNCHANGED manager
  PROVE  SessionInv'
<1>1. CASE EngineStart
  BY <1>1 DEF EngineStart, ends, counts, SessionInv, SessionTypeOK, QueuesOK
<1>2. CASE AcceptPerception
  BY <1>2, AcceptKeepsType DEF AcceptPerception, Clients, EngineStates
<1>3. CASE AcceptUi
  BY <1>3, AcceptKeepsType DEF AcceptUi, Clients, EngineStates
<1>4. CASE PerceptionClosed
  BY <1>4, EngineStopsKeepsType DEF PerceptionClosed, counts, SessionInv, SessionTypeOK
<1>5. CASE EngineCrash
  <2>1. engineCrashes' \in 0 .. MaxEngineCrashes
    <3>1. /\ engineCrashes < MaxEngineCrashes /\ engineCrashes' = engineCrashes + 1
          /\ engineCrashes \in 0 .. MaxEngineCrashes
      BY <1>5 DEF EngineCrash, SessionInv, SessionTypeOK
    <3> QED
      BY <3>1, SessionAssumption
  <2> QED
    BY <1>5, <2>1, EngineStopsKeepsType DEF EngineCrash
<1> QED
  BY <1>1, <1>2, <1>3, <1>4, <1>5 DEF EngineSteps

\* The crash of a client is counted, once.
LEMMA CrashesCounted ==
  ASSUME SessionInv, NEW k \in Clients, ClientCrash(k)
  PROVE  crashes' \in [Clients -> Nat] /\ \A c \in Clients : crashes'[c] \in 0 .. MaxCrashes[c]
<1>1. /\ crashes' = [crashes EXCEPT ![k] = crashes[k] + 1] /\ crashes[k] < MaxCrashes[k]
      /\ crashes \in [Clients -> Nat] /\ MaxCrashes \in [Clients -> Nat]
  BY SessionAssumption DEF ClientCrash, SessionInv, QueuesOK
<1>2. \A c \in Clients : crashes[c] \in 0 .. MaxCrashes[c]
  BY Zenon DEF SessionInv, SessionTypeOK
<1> QED
  BY <1>1, <1>2

\* The steps of a client, perception or user interface, keep the invariant.
LEMMA ClientKeepsType ==
  ASSUME SessionInv, NEW k \in Clients, ClientSteps(k) \/ ClientCrash(k), UNCHANGED manager
  PROVE  SessionInv'
<1> USE DEF SessionInv, SessionTypeOK, QueuesOK, ends, counts, engineVars
<1>1. CASE Connect(k)
  BY <1>1, EnqueueKeepsType DEF Connect
<1>2. CASE ConnectBlocks(k)
  BY <1>2 DEF ConnectBlocks
<1>3. CASE ConnectReturns(k)
  <2>1. CASE Enqueue(k)
    BY <2>1, EnqueueKeepsType
  <2>2. CASE ~Enqueue(k)
    BY <1>3, <2>2 DEF ConnectReturns
  <2> QED
    BY <2>1, <2>2
<1>4. CASE Teardown(k)
  BY <1>4 DEF Teardown
<1>5. CASE ClientCrash(k)
  BY <1>5, CrashesCounted, Zenon DEF ClientCrash
<1>6. CASE SupervisorStarts(k)
  BY <1>6 DEF SupervisorStarts
<1>7. CASE UnitStarts(k)
  BY <1>7 DEF UnitStarts
<1> QED
  BY <1>1, <1>2, <1>3, <1>4, <1>5, <1>6, <1>7 DEF ClientSteps

\* Every step keeps the invariant.
LEMMA SessionKeepsType == SessionInv /\ [SessionNext]_sessionVars => SessionInv'
<1> SUFFICES ASSUME SessionInv, [SessionNext]_sessionVars PROVE SessionInv'
  OBVIOUS
<1>1. CASE SessionNext
  BY <1>1, EngineKeepsType, ClientKeepsType DEF SessionNext
<1>2. CASE UNCHANGED sessionVars
  BY <1>2 DEF sessionVars, engineVars, ends, counts, SessionInv, SessionTypeOK, QueuesOK
<1> QED
  BY <1>1, <1>2

\* The processes keep their types through every crash and restart: a listener never
\* holds more than Backlog + 1 connections, and there is a fresh socket for every
\* connection that is made (uds.cpp:43-54, 101-135, main.cpp:50-74).
THEOREM SessionTypeCorrect == SessionSpec => []SessionTypeOK
<1>1. SessionInv => SessionTypeOK
  BY DEF SessionInv
<1> QED
  BY <1>1, SessionKeepsType, SessionStarts, PTL DEF SessionSpec

-----------------------------------------------------------------------------
(* What crashes leave behind *)

\* The engine has accepted a client exactly if it is past the place where it does.
Accepted(k) == engine = "loop" \/ (engine = "accept ui" /\ k = "perception")
Places == \A k \in Clients : peer[k] # 0 <=> Accepted(k)

\* Sockets of a client at the engine, beyond those in the queue; and whether the one the
\* client has is among all of them.
Held(k) == IF peer[k] # 0 THEN 1 ELSE 0
Live(k) == IF conn[k] # 0 /\ conn[k] \in Waiting(k) \cup {peer[k]} THEN 1 ELSE 0

\* Each socket at the engine but the live one was left by a crash.
Counted(k) == /\ Len(backlog[k]) + Held(k) <= crashes[k] + Live(k)
              /\ proc[k] = "hung" => conn[k] = 0 /\ crashes[k] > Backlog

CrashInv == SessionInv /\ Places /\ \A k \in Clients : Counted(k)

\* What one client's part of the state is.
LEMMA PartTypes ==
  ASSUME SessionInv, NEW k \in Clients
  PROVE  /\ backlog[k] \in Seq(Sockets) /\ Len(backlog[k]) \in Nat /\ crashes[k] \in Nat
         /\ conn[k] \in Sockets \cup {0} /\ peer[k] \in Sockets \cup {0} /\ 0 \notin Sockets
         /\ Held(k) \in 0 .. 1 /\ Live(k) \in 0 .. 1
<1>1. backlog[k] \in Seq(Sockets) /\ crashes[k] \in Nat
  BY DEF SessionInv, QueuesOK
<1>2. conn[k] \in Sockets \cup {0} /\ peer[k] \in Sockets \cup {0}
  BY Zenon DEF SessionInv, SessionTypeOK
<1>3. 0 \notin Sockets
  BY SessionAssumption DEF Sockets
<1> QED
  BY <1>1, <1>2, <1>3, LenProperties DEF Held, Live

\* Nothing changes for a client whose part of the state stays as it is.
LEMMA OthersCounted ==
  ASSUME NEW k, Counted(k), conn'[k] = conn[k], backlog'[k] = backlog[k], peer'[k] = peer[k],
         proc'[k] = proc[k], crashes'[k] = crashes[k]
  PROVE  Counted(k)'
BY DEF Counted, Held, Live, Waiting

\* Accepting moves a socket from the queue to the engine.
LEMMA AcceptCounted ==
  ASSUME CrashInv, NEW k \in Clients, NEW where, NEW next, Accept(k, where, next), peer[k] = 0
  PROVE  peer'[k] # 0 /\ \A j \in Clients : Counted(j)' /\ (j # k => peer'[j] = peer[j])
<1> DEFINE q == backlog[k]
<1>1. /\ peer' = [peer EXCEPT ![k] = Head(q)] /\ backlog' = [backlog EXCEPT ![k] = Tail(q)]
      /\ q # <<>> /\ UNCHANGED <<exit, proc, conn, crashes>>
  BY DEF Accept, counts
<1>2. q \in Seq(Sockets) /\ 0 \notin Sockets /\ SessionInv
  BY PartTypes DEF CrashInv
<1>3. /\ Head(q) \in Sockets /\ Len(Tail(q)) = Len(q) - 1 /\ Len(q) \in Nat
      /\ Range(q) = Range(Tail(q)) \cup {Head(q)}
  <2>1. /\ Head(q) \in Sockets /\ Tail(q) \in Seq(Sockets)
        /\ Len(Tail(q)) = Len(q) - 1 /\ Len(q) \in Nat /\ Len(q) # 0
    BY <1>1, <1>2, HeadTailProperties, LenProperties, EmptySeq
  <2>2. /\ DOMAIN q = 1 .. Len(q) /\ DOMAIN Tail(q) = 1 .. Len(q) - 1 /\ Head(q) = q[1]
        /\ \A i \in 1 .. Len(q) - 1 : Tail(q)[i] = q[i + 1]
    BY <1>1, <1>2, <2>1, HeadTailProperties, LenProperties
  <2>3. ASSUME NEW x \in Range(q) PROVE x \in Range(Tail(q)) \cup {Head(q)}
    <3>1. PICK i \in 1 .. Len(q) : x = q[i]
      BY <2>2, <2>3 DEF Range
    <3>2. i = 1 \/ (i - 1 \in 1 .. Len(q) - 1 /\ (i - 1) + 1 = i)
      BY <2>1
    <3> QED
      BY <2>2, <3>1, <3>2 DEF Range
  <2>4. ASSUME NEW i \in 1 .. Len(q) - 1 PROVE q[i + 1] \in Range(q)
    BY <2>1, <2>2 DEF Range
  <2>5. Head(q) \in Range(q)
    BY <2>1, <2>2 DEF Range
  <2>6. Range(Tail(q)) \subseteq Range(q)
    BY <2>2, <2>4 DEF Range
  <2> QED
    BY <2>1, <2>3, <2>5, <2>6
<1>4. /\ peer'[k] = Head(q) /\ backlog'[k] = Tail(q)
      /\ \A j \in Clients : j # k => peer'[j] = peer[j] /\ backlog'[j] = backlog[j]
  BY <1>1, <1>2, Zenon DEF SessionInv, SessionTypeOK, QueuesOK
<1>5. Counted(k)'
  <2>1. Live(k)' = Live(k)
    <3>1. Waiting(k)' \cup {peer'[k]} = Waiting(k)
      BY <1>3, <1>4 DEF Waiting
    <3>2. conn'[k] = conn[k] /\ peer[k] = 0
      BY <1>1
    <3> QED
      BY <3>1, <3>2 DEF Live
  <2>2. Held(k)' = 1 /\ Held(k) = 0
    BY <1>2, <1>3, <1>4 DEF Held
  <2>3. /\ Len(q) + Held(k) <= crashes[k] + Live(k) /\ crashes[k] \in Nat /\ Live(k) \in 0 .. 1
        /\ (proc[k] = "hung" => conn[k] = 0 /\ crashes[k] > Backlog)
    BY <1>2, PartTypes DEF CrashInv, Counted
  <2>4. Len(backlog[k])' = Len(q) - 1 /\ crashes'[k] = crashes[k]
    BY <1>1, <1>3, <1>4
  <2>5. Len(backlog[k])' + Held(k)' <= crashes'[k] + Live(k)'
    BY <1>3, <2>1, <2>2, <2>3, <2>4
  <2> QED
    BY <1>1, <2>3, <2>5 DEF Counted
<1>6. ASSUME NEW j \in Clients, j # k PROVE Counted(j)'
  BY <1>1, <1>4, <1>6, OthersCounted DEF CrashInv
<1> QED
  BY <1>2, <1>3, <1>4, <1>5, <1>6

\* The engine that ends leaves nothing of its connections.
LEMMA StopsCounted ==
  ASSUME CrashInv, EngineStops, UNCHANGED crashes
  PROVE  engine' = "down" /\ \A k \in Clients : peer'[k] = 0 /\ Counted(k)'
<1> SUFFICES ASSUME NEW k \in Clients PROVE engine' = "down" /\ peer'[k] = 0 /\ Counted(k)'
  BY DEF EngineStops
<1>1. /\ engine' = "down" /\ peer'[k] = 0 /\ backlog'[k] = <<>>
      /\ UNCHANGED <<proc, conn, crashes>>
  BY DEF EngineStops
<1>2. Len(backlog[k])' = 0 /\ Held(k)' = 0 /\ Live(k)' \in 0 .. 1 /\ crashes'[k] \in Nat
  BY <1>1, PartTypes, EmptySeq DEF Held, Live, CrashInv
<1>3. proc[k] = "hung" => conn[k] = 0 /\ crashes[k] > Backlog
  BY DEF CrashInv, Counted
<1>4. Len(backlog[k])' + Held(k)' <= crashes'[k] + Live(k)'
  BY <1>2
<1> QED
  BY <1>1, <1>3, <1>4 DEF Counted

\* A client without a connection gets a live one.
LEMMA EnqueueCounted ==
  ASSUME CrashInv, NEW k \in Clients, Enqueue(k), conn[k] = 0
  PROVE  \A j \in Clients : Counted(j)'
<1> DEFINE s == CHOOSE s \in Unused(k) : \A r \in Unused(k) : s <= r
           q == backlog[k]
<1>1. s \in Sockets
  BY UnusedThere DEF Enqueue, Unused, CrashInv
<1>2. /\ conn' = [conn EXCEPT ![k] = s] /\ backlog' = [backlog EXCEPT ![k] = Append(q, s)]
      /\ proc' = [proc EXCEPT ![k] = "up"] /\ UNCHANGED <<peer, crashes>>
  BY DEF Enqueue, counts
<1> HIDE DEF s
<1>3. /\ conn'[k] = s /\ backlog'[k] = Append(q, s) /\ proc'[k] = "up"
      /\ peer'[k] = peer[k] /\ crashes'[k] = crashes[k]
      /\ \A j \in Clients : j # k => /\ conn'[j] = conn[j] /\ backlog'[j] = backlog[j]
                                     /\ proc'[j] = proc[j]
  BY <1>2, Zenon DEF CrashInv, SessionInv, SessionTypeOK, QueuesOK
<1>4. /\ q \in Seq(Sockets) /\ Len(q) \in Nat /\ 0 \notin Sockets /\ crashes[k] \in Nat
      /\ Len(q) + Held(k) <= crashes[k] + Live(k) /\ Held(k) \in 0 .. 1
  BY PartTypes DEF CrashInv, Counted
<1>5. Len(Append(q, s)) = Len(q) + 1 /\ s \in Range(Append(q, s))
  <2>1. /\ Append(q, s) \in Seq(Sockets) /\ Len(Append(q, s)) = Len(q) + 1
        /\ Append(q, s)[Len(q) + 1] = s
    BY <1>1, <1>4, AppendProperties, LenProperties
  <2>2. Len(q) + 1 \in DOMAIN Append(q, s)
    BY <1>4, <2>1, LenProperties
  <2> QED
    BY <2>1, <2>2 DEF Range
<1>6. Counted(k)'
  <2>1. Live(k)' = 1 /\ Live(k) = 0
    BY <1>1, <1>3, <1>4, <1>5 DEF Live, Waiting
  <2>2. Held(k)' = Held(k)
    BY <1>3 DEF Held
  <2>3. Len(backlog[k])' = Len(q) + 1
    BY <1>3, <1>5
  <2>4. Len(backlog[k])' + Held(k)' <= crashes'[k] + Live(k)'
    BY <1>3, <1>4, <2>1, <2>2, <2>3
  <2> QED
    BY <1>3, <2>4 DEF Counted
<1>7. ASSUME NEW j \in Clients, j # k PROVE Counted(j)'
  BY <1>2, <1>3, <1>7, OthersCounted DEF CrashInv
<1> QED
  BY <1>6, <1>7

\* Whatever a client does, only its crash leaves a socket at the engine.
LEMMA ClientCounted ==
  ASSUME CrashInv, NEW k \in Clients, ClientSteps(k) \/ ClientCrash(k)
  PROVE  \A j \in Clients : Counted(j)'
<1>1. /\ proc \in [Clients -> {"down", "up", "hung"}] /\ conn \in [Clients -> Sockets \cup {0}]
      /\ crashes \in [Clients -> Nat]
  BY Zenon DEF CrashInv, SessionInv, SessionTypeOK, QueuesOK
<1>2. \A j \in Clients : Counted(j)
  BY DEF CrashInv
<1>3. /\ Len(backlog[k]) \in Nat /\ crashes[k] \in Nat /\ Held(k) \in 0 .. 1 /\ Live(k) \in 0 .. 1
  BY PartTypes DEF CrashInv
<1>4. CASE Connect(k)
  BY <1>4, EnqueueCounted DEF Connect
<1>5. CASE ConnectReturns(k) /\ Enqueue(k)
  BY <1>2, <1>5, EnqueueCounted DEF ConnectReturns, Counted
<1>6. CASE ConnectBlocks(k)
  <2>1. /\ conn[k] = 0 /\ ~(Len(backlog[k]) <= Backlog) /\ proc' = [proc EXCEPT ![k] = "hung"]
        /\ UNCHANGED <<conn, backlog, peer, crashes>>
    BY <1>6 DEF ConnectBlocks, HasPlace, ends, counts
  <2>2. Live(k) = 0
    BY <2>1 DEF Live
  <2>3. crashes[k] > Backlog
    BY <1>2, <1>3, <2>1, <2>2, SessionAssumption DEF Counted
  <2>4. Counted(k)'
    BY <1>2, <2>1, <2>3 DEF Counted, Held, Live, Waiting
  <2> QED
    BY <1>1, <1>2, <2>1, <2>4, OthersCounted
<1>7. CASE /\ UNCHANGED <<conn, backlog, peer, crashes>>
           /\ proc' = [proc EXCEPT ![k] = "up"]
  <2>1. Counted(k)'
    BY <1>1, <1>2, <1>7 DEF Counted, Held, Live, Waiting
  <2> QED
    BY <1>1, <1>2, <1>7, <2>1, OthersCounted
<1>8. CASE Teardown(k)
  <2>1. /\ conn' = [conn EXCEPT ![k] = 0] /\ conn[k] \notin Waiting(k) \cup {peer[k]}
        /\ proc[k] = "up" /\ UNCHANGED <<proc, backlog, peer, crashes>>
    BY <1>8 DEF Teardown, counts
  <2>2. Live(k) = 0 /\ Live(k)' = 0 /\ Held(k)' = Held(k) /\ conn'[k] = 0
    BY <1>1, <2>1 DEF Live, Held
  <2>3. Counted(k)'
    BY <1>2, <2>1, <2>2 DEF Counted
  <2> QED
    BY <1>1, <1>2, <2>1, <2>3, OthersCounted
<1>9. CASE ClientCrash(k)
  <2>1. /\ conn' = [conn EXCEPT ![k] = 0] /\ crashes' = [crashes EXCEPT ![k] = crashes[k] + 1]
        /\ proc' = [proc EXCEPT ![k] = "down"] /\ UNCHANGED <<backlog, peer>>
    BY <1>9 DEF ClientCrash
  <2>2. /\ Live(k)' = 0 /\ Held(k)' = Held(k) /\ crashes'[k] = crashes[k] + 1
        /\ proc'[k] = "down" /\ Len(backlog[k])' = Len(backlog[k])
    BY <1>1, <2>1 DEF Live, Held
  <2>3. Len(backlog[k]) + Held(k) <= crashes[k] + Live(k)
    BY <1>2 DEF Counted
  <2>4. Len(backlog[k])' + Held(k)' <= crashes'[k] + Live(k)'
    BY <1>3, <2>2, <2>3
  <2>5. Counted(k)'
    BY <2>2, <2>4 DEF Counted
  <2> QED
    BY <1>1, <1>2, <2>1, <2>5, OthersCounted
<1>10. CASE ConnectReturns(k) /\ ~Enqueue(k)
  BY <1>7, <1>10 DEF ConnectReturns, ends, counts
<1>11. CASE SupervisorStarts(k) \/ UnitStarts(k)
  BY <1>7, <1>11 DEF SupervisorStarts, UnitStarts, ends, counts
<1> QED
  BY <1>4, <1>5, <1>6, <1>8, <1>9, <1>10, <1>11 DEF ClientSteps

\* A client step leaves the engine where it was, or starts it with nothing accepted.
LEMMA ClientPlaces ==
  ASSUME CrashInv, NEW k \in Clients, ClientSteps(k) \/ ClientCrash(k)
  PROVE  Places'
<1>1. UNCHANGED peer
  BY DEF ClientSteps, Connect, ConnectBlocks, ConnectReturns, Enqueue, Teardown, SupervisorStarts,
         UnitStarts, ClientCrash, ends
<1>2. UNCHANGED engine \/ (engine = "down" /\ engine' = "accept perception")
  BY DEF ClientSteps, Connect, ConnectBlocks, ConnectReturns, Enqueue, Teardown, SupervisorStarts,
         UnitStarts, ClientCrash, engineVars
<1> QED
  BY <1>1, <1>2 DEF CrashInv, Places, Accepted

\* The steps of the engine.
LEMMA EngineCounted ==
  ASSUME CrashInv, EngineSteps \/ EngineCrash
  PROVE  Places' /\ \A k \in Clients : Counted(k)'
<1>1. CASE EngineStart
  <2>1. engine = "down" /\ engine' = "accept perception" /\ UNCHANGED <<peer, proc, conn, backlog, crashes>>
    BY <1>1 DEF EngineStart, ends, counts
  <2> QED
    BY <2>1, OthersCounted DEF CrashInv, Places, Accepted
<1>2. CASE AcceptPerception
  <2>1. /\ engine = "accept perception" /\ engine' = "accept ui" /\ "perception" \in Clients
        /\ Accept("perception", "accept perception", "accept ui")
    BY <1>2 DEF AcceptPerception, Accept, Clients
  <2>2. \A k \in Clients : peer[k] = 0
    BY <2>1 DEF CrashInv, Places, Accepted
  <2>3. peer'["perception"] # 0 /\ \A j \in Clients : Counted(j)' /\ (j # "perception" => peer'[j] = peer[j])
    BY <2>1, <2>2, AcceptCounted
  <2> QED
    BY <2>1, <2>2, <2>3 DEF Places, Accepted
<1>3. CASE AcceptUi
  <2>1. /\ engine = "accept ui" /\ engine' = "loop" /\ "ui" \in Clients
        /\ Accept("ui", "accept ui", "loop")
    BY <1>3 DEF AcceptUi, Accept, Clients
  <2>2. peer["ui"] = 0 /\ \A k \in Clients : k # "ui" => peer[k] # 0
    BY <2>1 DEF CrashInv, Places, Accepted, Clients
  <2>3. peer'["ui"] # 0 /\ \A j \in Clients : Counted(j)' /\ (j # "ui" => peer'[j] = peer[j])
    BY <2>1, <2>2, AcceptCounted
  <2> QED
    BY <2>1, <2>2, <2>3 DEF Places, Accepted
<1>4. CASE PerceptionClosed \/ EngineCrash
  <2>1. EngineStops /\ UNCHANGED crashes
    BY <1>4 DEF PerceptionClosed, EngineCrash, counts
  <2> QED
    BY <2>1, StopsCounted DEF Places, Accepted
<1> QED
  BY <1>1, <1>2, <1>3, <1>4 DEF EngineSteps

\* Blocked by more crashes of its own than the backlog takes, or not at all; and a client
\* that never crashed is served by an engine in its loop, for every backlog, every number
\* of crashes of the others and either manager (uds.cpp:43-54, 101-135, main.cpp:50-74).
THEOREM CrashesAloneHarm == SessionSpec => []HarmedByCrashesOnly
<1>1. SessionInit => CrashInv
  <2> SUFFICES ASSUME SessionInit PROVE CrashInv
    OBVIOUS
  <2>1. SessionInv
    BY SessionStarts
  <2>2. Places
    BY DEF SessionInit, Places, Accepted
  <2>3. ASSUME NEW k \in Clients PROVE Counted(k)
    <3>1. backlog[k] = <<>> /\ conn[k] = 0 /\ peer[k] = 0 /\ crashes[k] = 0 /\ proc[k] = "down"
      BY DEF SessionInit
    <3>2. Len(backlog[k]) = 0 /\ Held(k) = 0 /\ Live(k) = 0
      BY <3>1, EmptySeq DEF Held, Live
    <3> QED
      BY <3>1, <3>2 DEF Counted
  <2> QED
    BY <2>1, <2>2, <2>3 DEF CrashInv
<1>2. CrashInv /\ [SessionNext]_sessionVars => CrashInv'
  <2> SUFFICES ASSUME CrashInv, [SessionNext]_sessionVars PROVE CrashInv'
    OBVIOUS
  <2>1. SessionInv'
    BY SessionKeepsType DEF CrashInv
  <2>2. CASE EngineSteps \/ EngineCrash
    BY <2>1, <2>2, EngineCounted DEF CrashInv
  <2>3. ASSUME NEW k \in Clients, ClientSteps(k) \/ ClientCrash(k) PROVE CrashInv'
    BY <2>1, <2>3, ClientCounted, ClientPlaces DEF CrashInv
  <2>4. CASE UNCHANGED sessionVars
    <3>1. UNCHANGED <<engine, peer, proc, conn, backlog, crashes>>
      BY <2>4 DEF sessionVars, engineVars, ends, counts
    <3> QED
      BY <2>1, <3>1, OthersCounted DEF CrashInv, Places, Accepted
  <2> QED
    BY <2>2, <2>3, <2>4 DEF SessionNext
<1>3. CrashInv => HarmedByCrashesOnly
  <2> SUFFICES ASSUME CrashInv, NEW k \in Clients
               PROVE  /\ proc[k] = "hung" => crashes[k] > Backlog
                      /\ engine = "loop" /\ crashes[k] = 0 => Served(k)
    BY DEF HarmedByCrashesOnly
  <2>1. Counted(k) /\ (peer[k] # 0 <=> Accepted(k))
    BY DEF CrashInv, Places
  <2>2. ASSUME engine = "loop", crashes[k] = 0 PROVE Served(k)
    <3>1. peer[k] # 0 /\ Held(k) = 1
      BY <2>1, <2>2 DEF Accepted, Held
    <3>2. backlog[k] \in Seq(Sockets) /\ Len(backlog[k]) \in Nat /\ Live(k) \in 0 .. 1
      BY PartTypes DEF CrashInv
    <3>3. Len(backlog[k]) = 0 /\ Live(k) = 1
      BY <2>1, <2>2, <3>1, <3>2 DEF Counted
    <3>4. Waiting(k) = {}
      BY <3>2, <3>3, EmptySeq DEF Waiting, Range
    <3> QED
      BY <3>1, <3>3, <3>4 DEF Live, Served
  <2> QED
    BY <2>1, <2>2 DEF Counted
<1> QED
  BY <1>1, <1>2, <1>3, PTL DEF SessionSpec
==============================================================================
