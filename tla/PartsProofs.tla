------------------------------ MODULE PartsProofs ------------------------------
(***************************************************************************)
(* Theorems about the parts that keep their own state, each for every      *)
(* value of its constants: the descriptors of the user interface, the      *)
(* frames on the bus, the calibration of the engine, the supervisor, and   *)
(* the composition of them all.                                            *)
(***************************************************************************)
EXTENDS MCParts, PerceptionProofs

(* UiLink: whatever the engine and the rest of the process do, and whichever descriptors
   the kernel gives out again, the client closes what it owns, once. *)

\* The table read descriptor by descriptor.
TableTells == \A fd \in Fds : /\ table[fd] = "socket" <=> fd = conn \/ fd = c
                              /\ table[fd] = "others" <=> fd \in others

\* Who holds what between the steps of a handler.
Holding ==
  /\ at = "start" => conn = Invalid /\ c = Invalid /\ notifier = Invalid
  /\ at = "connected" => conn = Invalid /\ c # Invalid /\ notifier = Invalid
  /\ at \in {"moved", "teardown"} => conn # Invalid /\ c = Invalid /\ notifier = Invalid
  /\ at = "event loop" => c = Invalid /\ notifier = conn /\ (notifier = Invalid <=> reconnect)

LinkInv == LinkTypeOK /\ TableTells /\ Holding

-----------------------------------------------------------------------------
\* The mark of a member without a descriptor is no descriptor.
LEMMA InvalidIsNone == Invalid \notin Fds
  BY LinkAssumption DEF Invalid, Fds

\* The client starts without a connection.
LEMMA LinkStarts == LinkInit => LinkInv
<1> SUFFICES ASSUME LinkInit PROVE LinkInv
  OBVIOUS
<1>1. LinkTypeOK
  BY Zenon DEF LinkInit, LinkTypeOK
<1>2. TableTells
  BY InvalidIsNone DEF LinkInit, TableTells
<1>3. Holding
  BY DEF LinkInit, Holding
<1> QED
  BY <1>1, <1>2, <1>3 DEF LinkInv

\* Closing a descriptor frees that one.
LEMMA ClosedFrees ==
  ASSUME table \in [Fds -> {"free", "socket", "others"}], NEW fd \in Fds \cup {Invalid}
  PROVE  /\ Closed(fd) \in [Fds -> {"free", "socket", "others"}]
         /\ \A e \in Fds : Closed(fd)[e] = IF e = fd THEN "free" ELSE table[e]
  BY InvalidIsNone, Zenon DEF Closed

\* Every step of the client keeps its types.
LEMMA LinkKeepsType == LinkTypeOK /\ [LinkNext]_linkVars => LinkTypeOK'
<1> SUFFICES ASSUME LinkTypeOK, [LinkNext]_linkVars PROVE LinkTypeOK'
  OBVIOUS
<1> USE DEF LinkTypeOK
<1>1. CASE ConnectFails
  BY <1>1, Zenon DEF ConnectFails
<1>2. CASE Move
  BY <1>2, ClosedFrees, Zenon DEF Move
<1>3. CASE Watch
  BY <1>3, ClosedFrees, Zenon DEF Watch
<1>4. CASE Readable
  BY <1>4, Zenon DEF Readable
<1>5. CASE Drop
  BY <1>5, ClosedFrees, Zenon DEF Drop
<1>6. ASSUME NEW fd \in Fds, Connects(fd) PROVE LinkTypeOK'
  BY <1>6, Zenon DEF Connects
<1>7. CASE EngineComesAndGoes
  BY <1>7, Zenon DEF EngineComesAndGoes
<1>8. ASSUME NEW fd \in Fds, OthersOpen(fd) PROVE LinkTypeOK'
  BY <1>8, Zenon DEF OthersOpen
<1>9. ASSUME NEW fd \in Fds, OthersClose(fd) PROVE LinkTypeOK'
  BY <1>9, ClosedFrees, Zenon DEF OthersClose
<1>10. CASE UNCHANGED linkVars
  BY <1>10, Zenon DEF linkVars
<1> QED
  BY <1>1, <1>2, <1>3, <1>4, <1>5, <1>6, <1>7, <1>8, <1>9, <1>10 DEF LinkNext, LinkSteps

\* The handlers keep what is held between them, and nobody else disturbs it.
LEMMA LinkKeepsHolding == LinkInv /\ [LinkNext]_linkVars => Holding'
<1> SUFFICES ASSUME LinkInv, [LinkNext]_linkVars PROVE Holding'
  OBVIOUS
<1> USE InvalidIsNone DEF LinkInv, LinkTypeOK, Holding
<1>1. CASE ConnectFails
  <2>1. conn = Invalid /\ c = Invalid
    BY <1>1 DEF ConnectFails, Begins
  <2> QED
    BY <1>1, <2>1 DEF ConnectFails
<1>2. CASE Move
  BY <1>2 DEF Move
<1>3. CASE Watch
  BY <1>3 DEF Watch
<1>4. CASE Readable
  BY <1>4 DEF Readable
<1>5. CASE Drop
  BY <1>5 DEF Drop
<1>6. ASSUME NEW fd \in Fds, Connects(fd) PROVE Holding'
  <2>1. conn = Invalid
    BY <1>6 DEF Connects, Begins
  <2> QED
    BY <1>6, <2>1 DEF Connects
<1>7. CASE EngineComesAndGoes
  BY <1>7 DEF EngineComesAndGoes
<1>8. ASSUME NEW fd \in Fds, OthersOpen(fd) PROVE Holding'
  BY <1>8 DEF OthersOpen
<1>9. ASSUME NEW fd \in Fds, OthersClose(fd) PROVE Holding'
  BY <1>9 DEF OthersClose
<1>10. CASE UNCHANGED linkVars
  BY <1>10 DEF linkVars
<1> QED
  BY <1>1, <1>2, <1>3, <1>4, <1>5, <1>6, <1>7, <1>8, <1>9, <1>10 DEF LinkNext, LinkSteps

\* A number is given out only while it is free, and closed only by whoever holds it.
LEMMA LinkKeepsTable == LinkInv /\ [LinkNext]_linkVars => TableTells'
<1> SUFFICES ASSUME LinkInv, [LinkNext]_linkVars PROVE TableTells'
  OBVIOUS
<1> USE InvalidIsNone DEF LinkInv, LinkTypeOK, Holding, TableTells
<1>1. CASE ConnectFails
  BY <1>1 DEF ConnectFails
<1>2. CASE Move
  BY <1>2 DEF Move, Closed
<1>3. CASE Watch
  BY <1>3 DEF Watch, Closed
<1>4. CASE Readable
  BY <1>4 DEF Readable
<1>5. CASE Drop
  <2>1. table' = [table EXCEPT ![conn] = "free"] /\ conn \in Fds
    BY <1>5 DEF Drop, Closed
  <2> QED
    BY <1>5, <2>1 DEF Drop
<1>6. ASSUME NEW fd \in Fds, Connects(fd) PROVE TableTells'
  <2>1. conn = Invalid /\ c = Invalid
    BY <1>6 DEF Connects, Begins
  <2> QED
    BY <1>6, <2>1 DEF Connects, Lowest
<1>7. CASE EngineComesAndGoes
  BY <1>7 DEF EngineComesAndGoes
<1>8. ASSUME NEW fd \in Fds, OthersOpen(fd) PROVE TableTells'
  BY <1>8 DEF OthersOpen, Lowest
<1>9. ASSUME NEW fd \in Fds, OthersClose(fd) PROVE TableTells'
  BY <1>9 DEF OthersClose, Closed
<1>10. CASE UNCHANGED linkVars
  BY <1>10 DEF linkVars
<1> QED
  BY <1>1, <1>2, <1>3, <1>4, <1>5, <1>6, <1>7, <1>8, <1>9, <1>10 DEF LinkNext, LinkSteps

\* The type invariant of the user interface's link, for any number of descriptors.
THEOREM LinkTypeCorrect == LinkSpec => []LinkTypeOK
<1>1. LinkInit => LinkTypeOK
  BY LinkStarts DEF LinkInv
<1> QED
  BY <1>1, LinkKeepsType, PTL DEF LinkSpec

\* No socket leaks or is closed twice, no descriptor of others is touched, the notifier
\* watches the connection's own socket, and the client always waits for something
\* that will come (EventClient.cpp:9-35, 58-60, uds.cpp:30-54).
THEOREM OwnsWhatItHolds ==
  LinkSpec => [](HoldsItsOwn /\ NeverStranded)
<1>1. LinkInv /\ [LinkNext]_linkVars => LinkInv'
  BY LinkKeepsType, LinkKeepsTable, LinkKeepsHolding DEF LinkInv
<1>2. LinkInv => HoldsItsOwn /\ NeverStranded
  <2> SUFFICES ASSUME LinkInv
               PROVE  HoldsItsOwn /\ NeverStranded
    OBVIOUS
  <2> USE InvalidIsNone DEF LinkInv, LinkTypeOK, TableTells, Holding
  <2>1. OneOwner
    BY DEF OneOwner
  <2>2. OthersUntouched
    BY DEF OthersUntouched
  <2>3. WatchesOwnSocket
    BY DEF WatchesOwnSocket
  <2>4. NeverStranded
    BY DEF NeverStranded
  <2> QED
    BY <2>1, <2>2, <2>3, <2>4 DEF HoldsItsOwn
<1> QED
  BY LinkStarts, <1>1, <1>2, PTL DEF LinkSpec

-----------------------------------------------------------------------------
(* Supervisor *)

\* One wait more doubles what is earned.
LEMMA PowerDoubles ==
  ASSUME NEW n \in Nat
  PROVE  2 ^ (n + 1) = 2 * 2 ^ n
<1> DEFINE A == SUBSET (1 .. n)
           With(t) == t \cup {n + 1}
           B == {With(t) : t \in A}
           f == [t \in A |-> With(t)]
<1>1. /\ IsFiniteSet(A) /\ Cardinality(A) = 2 ^ n
      /\ IsFiniteSet(SUBSET (1 .. n + 1)) /\ Cardinality(SUBSET (1 .. n + 1)) = 2 ^ (n + 1)
  <2>1. /\ IsFiniteSet(1 .. n) /\ Cardinality(1 .. n) = n
        /\ IsFiniteSet(1 .. n + 1) /\ Cardinality(1 .. n + 1) = n + 1
    BY FS_Interval
  <2> QED
    BY <2>1, FS_SUBSET
<1>2. n + 1 \notin 1 .. n /\ 1 .. n + 1 = (1 .. n) \cup {n + 1}
  OBVIOUS
<1>3. SUBSET (1 .. n + 1) = A \cup B
  <2>1. ASSUME NEW t \in SUBSET (1 .. n + 1) PROVE t \in A \cup B
    <3>1. CASE n + 1 \in t
      <4>1. t \ {n + 1} \in A /\ t = With(t \ {n + 1})
        BY <1>2, <3>1
      <4> QED
        BY <4>1
    <3>2. CASE n + 1 \notin t
      BY <1>2, <3>2
    <3> QED
      BY <3>1, <3>2
  <2>2. ASSUME NEW t \in A \cup B PROVE t \in SUBSET (1 .. n + 1)
    BY <1>2, <2>2
  <2> QED
    BY <2>1, <2>2
<1>4. A \cap B = {}
  BY <1>2
<1>5. f \in Bijection(A, B)
  <2>1. f \in [A -> B] /\ \A b \in B : \E t \in A : f[t] = b
    OBVIOUS
  <2>2. \A t, u \in A : f[t] = f[u] => t = u
    <3> SUFFICES ASSUME NEW t \in A, NEW u \in A, f[t] = f[u] PROVE t = u
      OBVIOUS
    <3>1. t \cup {n + 1} = u \cup {n + 1}
      OBVIOUS
    <3>2. n + 1 \notin t /\ n + 1 \notin u
      BY <1>2
    <3> QED
      BY <3>1, <3>2
  <2> HIDE DEF f
  <2> QED
    BY <2>1, <2>2 DEF Bijection, Injection, Surjection, IsInjective
<1> HIDE DEF A, B, f
<1>6. IsFiniteSet(B) /\ Cardinality(B) = Cardinality(A)
  BY <1>1, <1>5, FS_Bijection, Zenon DEF ExistsBijection
<1>7. Cardinality(A \cup B) = Cardinality(A) + Cardinality(B) - Cardinality({})
  BY <1>1, <1>4, <1>6, FS_Union
<1>8. 2 ^ n \in Nat
  BY PowerIsPositive
<1>9. Cardinality(A) + Cardinality(B) - 0 = 2 * 2 ^ n
  BY <1>1, <1>6, <1>8
<1> QED
  BY <1>1, <1>3, <1>7, <1>9, FS_EmptySet, Zenon

\* Nothing waited for yet earns the initial backoff.
LEMMA PowerOfNone == 2 ^ 0 = 1
<1>1. IsFiniteSet(1 .. 0) /\ Cardinality(1 .. 0) = 0
  BY FS_Interval
<1>2. Cardinality(SUBSET (1 .. 0)) = 2 ^ 0
  BY <1>1, FS_SUBSET
<1>3. SUBSET (1 .. 0) = {{}}
  OBVIOUS
<1> QED
  BY <1>2, <1>3, FS_Singleton

\* What a number of waits has earned, up to the longest backoff.
Earned(n) == IF Initial * 2 ^ n > MaxBackoff THEN MaxBackoff ELSE Initial * 2 ^ n

SuperInv == /\ SuperTypeOK /\ backoff = Earned(waits)
            /\ child = "running" => slept = 0

\* The step from one wait to the next, and the last one counted.
LEMMA EarnedSteps ==
  ASSUME NEW n \in 0 .. MaxWaits, backoff = Earned(n)
  PROVE  Doubled = Earned(IF n < MaxWaits THEN n + 1 ELSE n)
<1> DEFINE e == Initial * 2 ^ n
<1>1. /\ Initial \in Nat \ {0} /\ MaxBackoff \in Nat /\ Initial <= MaxBackoff /\ MaxWaits \in Nat
      /\ Initial * 2 ^ MaxWaits >= MaxBackoff
  BY SupervisorAssumption
<1>2. e \in Nat /\ Initial * 2 ^ (n + 1) = 2 * e
  <2> DEFINE p == 2 ^ n
  <2>1. p \in Nat /\ 2 ^ (n + 1) = 2 * p
    BY <1>1, PowerIsPositive, PowerDoubles
  <2> HIDE DEF p
  <2>2. Initial * p \in Nat /\ Initial * (2 * p) = 2 * (Initial * p)
    BY <1>1, <2>1
  <2> QED
    BY <2>1, <2>2 DEF p
<1>3. backoff = IF e > MaxBackoff THEN MaxBackoff ELSE e
  BY DEF Earned
<1>4. CASE n < MaxWaits
  <2>1. Earned(n + 1) = IF 2 * e > MaxBackoff THEN MaxBackoff ELSE 2 * e
    BY <1>2 DEF Earned
  <2> HIDE DEF e
  <2> QED
    BY <1>1, <1>2, <1>3, <1>4, <2>1 DEF Doubled
<1>5. CASE ~(n < MaxWaits)
  <2>1. n = MaxWaits
    BY <1>1, <1>5
  <2>2. e >= MaxBackoff
    BY <1>1, <2>1
  <2> HIDE DEF e
  <2>3. backoff = MaxBackoff
    BY <1>1, <1>2, <1>3, <2>2
  <2>4. Doubled = MaxBackoff
    BY <1>1, <2>3 DEF Doubled
  <2> QED
    BY <1>5, <2>3, <2>4
<1> QED
  BY <1>4, <1>5

\* For every initial and longest backoff: a service is kept waiting for exactly as long as
\* the number of its ends since its last long run has earned, whichever of the two comes
\* first in the loop, the reset or the doubling (supervisor/src/main.rs:65-74).
THEOREM WaitsAreEarned == SuperSpec => [](SuperTypeOK /\ WaitIsEarned)
<1>1. /\ Initial \in Nat \ {0} /\ MaxBackoff \in Nat /\ Initial <= MaxBackoff
      /\ MaxWaits \in Nat /\ ResetAfter \in Nat
  BY SupervisorAssumption
<1>2. Initial = Earned(0)
  BY <1>1, PowerOfNone DEF Earned
<1>3. SuperInit => SuperInv
  BY <1>1, <1>2 DEF SuperInit, SuperInv, SuperTypeOK
<1>4. SuperInv /\ [SuperNext]_superVars => SuperInv'
  <2> SUFFICES ASSUME SuperInv, [SuperNext]_superVars PROVE SuperInv'
    OBVIOUS
  <2>1. SuperTypeOK /\ backoff = Earned(waits)
    BY DEF SuperInv
  <2>2. CASE RunTick
    BY <1>1, <2>1, <2>2 DEF RunTick, SuperInv, SuperTypeOK, Earned
  <2>3. CASE Ends
    <3>1. CASE LongRun
      <4>1. backoff' = Initial /\ waits' = 0
        BY <2>3, <3>1 DEF Ends, Current
      <4>2. slept = 0
        BY <2>3 DEF Ends, SuperInv
      <4>3. SuperTypeOK'
        BY <1>1, <2>1, <2>3, <4>1, <4>2 DEF Ends, SuperTypeOK
      <4> QED
        BY <1>2, <2>3, <4>1, <4>3 DEF Ends, SuperInv, Earned
    <3>2. CASE ~LongRun
      <4>1. backoff' = backoff /\ waits' = waits
        BY <2>3, <3>2 DEF Ends, Current
      <4>2. SuperTypeOK'
        BY <1>1, <2>1, <2>3, <4>1 DEF Ends, SuperTypeOK
      <4> QED
        BY <2>1, <2>3, <4>1, <4>2 DEF Ends, SuperInv, Earned
    <3> QED
      BY <3>1, <3>2
  <2>4. CASE SleepTick
    BY <1>1, <2>1, <2>4 DEF SleepTick, SuperInv, SuperTypeOK, Earned
  <2>5. CASE Restart
    <3>1. backoff' = Doubled /\ waits' = IF waits < MaxWaits THEN waits + 1 ELSE waits
      BY <2>5 DEF Restart
    <3>2. SuperTypeOK'
      BY <1>1, <2>1, <2>5, <3>1 DEF Restart, SuperTypeOK, Doubled
    <3>3. Doubled = Earned(IF waits < MaxWaits THEN waits + 1 ELSE waits)
      BY <2>1, EarnedSteps DEF SuperTypeOK
    <3> QED
      BY <2>5, <3>1, <3>2, <3>3 DEF Restart, SuperInv, Earned
  <2>6. CASE UNCHANGED superVars
    BY <2>1, <2>6 DEF superVars, SuperInv, SuperTypeOK, Earned
  <2> QED
    BY <2>2, <2>3, <2>4, <2>5, <2>6 DEF SuperNext
<1>5. SuperInv => SuperTypeOK /\ WaitIsEarned
  BY DEF SuperInv, Earned, WaitIsEarned
<1> QED
  BY <1>3, <1>4, <1>5, PTL DEF SuperSpec

-----------------------------------------------------------------------------
(* Homography *)

\* The file's numbers are in their places, and after the ninth nothing is read.
LoadInv ==
  /\ h \in [1 .. 9 -> Values] /\ file \in Seq(Values) /\ Len(file) <= 9
  /\ status \in {"unset", "reading", "loaded", "failed"}
  /\ status \in {"unset", "reading"} => Len(file) < 9
  /\ status = "loaded" => Len(file) = 9
  /\ \A i \in 1 .. Len(file) : h[i] = file[i]

\* A quotient does not change when both numbers are multiplied.
LEMMA DivisionHasNoScale ==
  ASSUME NEW a \in Int, NEW b \in Nat \ {0}, NEW m \in Nat \ {0}
  PROVE  (m * a) \div (m * b) = a \div b
<1> DEFINE q == a \div b
<1>1. q \in Int /\ q * b <= a /\ a < (q + 1) * b
  BY DivisionIs
<1>2. m * a \in Int /\ m * b \in Nat \ {0} /\ q * b \in Int /\ (q + 1) * b \in Int
  BY <1>1
<1> HIDE DEF q
<1>3. ASSUME NEW x \in Int, NEW y \in Int, x <= y PROVE m * x <= m * y
  BY <1>3
<1>4. ASSUME NEW x \in Int, NEW y \in Int, x < y PROVE m * x < m * y
  BY <1>4
<1>5. m * (q * b) = q * (m * b) /\ m * ((q + 1) * b) = (q + 1) * (m * b)
  BY <1>1
<1>6. q * (m * b) <= m * a /\ m * a < (q + 1) * (m * b)
  BY <1>1, <1>2, <1>3, <1>4, <1>5
<1>7. q = (m * a) \div (m * b)
  BY <1>1, <1>2, <1>6, DivisionIs
<1> QED
  BY <1>7 DEF q

\* The clamp of the answer (homography_map.hpp:21-22).
LEMMA ClampedInView ==
  ASSUME NEW n \in Int
  PROVE  Clamped(n) \in View
  BY HomographyAssumption DEF Clamped, View

\* An answer is on the surface, whatever the numbers.
LEMMA QuotientInView ==
  ASSUME NEW n \in Int, NEW dz \in Int
  PROVE  Quotient(n, dz) \in View
<1>1. Units \in Nat \ {0}
  BY HomographyAssumption
<1>2. CASE dz = 0
  BY <1>1, <1>2 DEF Quotient, View
<1>3. CASE dz # 0
  <2> DEFINE sign == IF dz < 0 THEN -1 ELSE 1
  <2>1. sign \in Int /\ sign * dz \in Nat \ {0}
    BY <1>3
  <2> HIDE DEF sign
  <2>2. sign * n * Units \in Int
    BY <1>1, <2>1
  <2>3. (sign * n * Units) \div (sign * dz) \in Int
    BY <2>1, <2>2, DivisionIs
  <2> QED
    BY <1>3, <2>3, ClampedInView DEF Quotient, sign
<1> QED
  BY <1>2, <1>3

\* An answer does not change when numerator and denominator are multiplied, by a negative
\* number either (homography_map.hpp:17-20).
LEMMA QuotientHasNoScale ==
  ASSUME NEW n \in Int, NEW dz \in Int, dz # 0, NEW k \in Int, k # 0
  PROVE  Quotient(k * n, k * dz) = Quotient(n, dz)
<1> DEFINE sign(d) == IF d < 0 THEN -1 ELSE 1
           m == sign(k) * k
           a == sign(dz) * n * Units
           b == sign(dz) * dz
<1>1. Units \in Int
  BY HomographyAssumption
<1>2. m \in Nat \ {0} /\ b \in Nat \ {0} /\ a \in Int
  BY <1>1
<1>3. k * dz # 0 /\ sign(k * dz) = sign(k) * sign(dz)
  <2>1. CASE k > 0 /\ dz > 0
    BY <2>1
  <2>2. CASE k > 0 /\ dz < 0
    BY <2>2
  <2>3. CASE k < 0 /\ dz > 0
    BY <2>3
  <2>4. CASE k < 0 /\ dz < 0
    BY <2>4
  <2> QED
    BY <2>1, <2>2, <2>3, <2>4
<1>4. sign(k * dz) * (k * n) * Units = m * a
  <2>1. sign(k) \in Int /\ sign(dz) \in Int
    OBVIOUS
  <2> HIDE DEF sign
  <2> QED
    BY <1>1, <1>3, <2>1
<1>5. sign(k * dz) * (k * dz) = m * b
  <2>1. sign(k) \in Int /\ sign(dz) \in Int
    OBVIOUS
  <2> HIDE DEF sign
  <2> QED
    BY <1>3, <2>1
<1>6. Quotient(k * n, k * dz) = Clamped((m * a) \div (m * b))
  <2>1. Quotient(k * n, k * dz) = Clamped((sign(k * dz) * (k * n) * Units) \div (sign(k * dz) * (k * dz)))
    BY <1>3 DEF Quotient
  <2> HIDE DEF sign, m, a, b
  <2> QED
    BY <1>4, <1>5, <2>1
<1>7. Quotient(n, dz) = Clamped(a \div b)
  BY DEF Quotient
<1> HIDE DEF sign, m, a, b
<1> QED
  BY <1>2, <1>6, <1>7, DivisionHasNoScale

\* A row multiplied.
LEMMA RowIsLinear ==
  ASSUME NEW m \in [1 .. 9 -> Int], NEW k \in Int, NEW r \in {1, 4, 7}, NEW x \in Int, NEW y \in Int
  PROVE  /\ Row(m, r, x, y) \in Int
         /\ Row([i \in 1 .. 9 |-> k * m[i]], r, x, y) = k * Row(m, r, x, y)
<1> DEFINE n == [i \in 1 .. 9 |-> k * m[i]]
<1>1. /\ r \in 1 .. 9 /\ r + 1 \in 1 .. 9 /\ r + 2 \in 1 .. 9 /\ Units \in Int
      /\ n[r] = k * m[r] /\ n[r + 1] = k * m[r + 1] /\ n[r + 2] = k * m[r + 2]
  BY HomographyAssumption
<1>2. m[r] \in Int /\ m[r + 1] \in Int /\ m[r + 2] \in Int
  BY <1>1
<1> HIDE DEF n
<1>3. Row(n, r, x, y) = k * Row(m, r, x, y) /\ Row(m, r, x, y) \in Int
  <2> DEFINE a == m[r]
             b == m[r + 1]
             c0 == m[r + 2]
  <2>1. Row(n, r, x, y) = (k * a) * x + (k * b) * y + (k * c0) * Units
    BY <1>1, Zenon DEF Row
  <2>2. Row(m, r, x, y) = a * x + b * y + c0 * Units
    BY Zenon DEF Row
  <2>3. a \in Int /\ b \in Int /\ c0 \in Int
    BY <1>2
  <2> HIDE DEF a, b, c0
  <2>4. /\ a * x + b * y + c0 * Units \in Int
        /\ (k * a) * x + (k * b) * y + (k * c0) * Units = k * (a * x + b * y + c0 * Units)
    BY <1>1, <2>3
  <2> QED
    BY <2>1, <2>2, <2>4, Zenon
<1> QED
  BY <1>3 DEF n

\* The file is read number by number into the places they are for.
LEMMA LoadInvHolds == LoadSpec => []LoadInv
<1>1. {0, 1} \subseteq Values
  BY HomographyAssumption
<1>2. LoadInit => LoadInv
  <2> SUFFICES ASSUME LoadInit PROVE LoadInv
    OBVIOUS
  <2>1. h \in [1 .. 9 -> Values]
    BY <1>1 DEF LoadInit, Identity
  <2>2. file = <<>> /\ file \in Seq(Values) /\ Len(file) = 0 /\ status = "unset"
    BY EmptySeq DEF LoadInit
  <2> QED
    BY <2>1, <2>2 DEF LoadInv
<1>3. LoadInv /\ [LoadNext]_loadVars => LoadInv'
  <2> SUFFICES ASSUME LoadInv, [LoadNext]_loadVars PROVE LoadInv'
    OBVIOUS
  <2> DEFINE n == Len(file)
  <2>1. h \in [1 .. 9 -> Values] /\ file \in Seq(Values) /\ n \in Nat /\ n <= 9 /\ \A i \in 1 .. n : h[i] = file[i]
    BY LenProperties DEF LoadInv
  <2>2. CASE OpenFile
    BY <2>1, <2>2 DEF OpenFile, LoadInv
  <2>3. ASSUME NEW v \in Values, ReadEntry(v) PROVE LoadInv'
    <3>1. n < 9 /\ n + 1 \in 1 .. 9
      BY <2>1, <2>3 DEF ReadEntry, LoadInv
    <3>2. h' \in [1 .. 9 -> Values] /\ h'[n + 1] = v /\ \A i \in 1 .. 9 : i # n + 1 => h'[i] = h[i]
      BY <2>1, <2>3, <3>1 DEF ReadEntry, Entry
    <3>3. /\ file' \in Seq(Values) /\ Len(file') = n + 1 /\ file'[n + 1] = v
          /\ \A i \in 1 .. n : file'[i] = file[i]
      BY <2>1, <2>3, AppendProperties DEF ReadEntry
    <3>4. \A i \in 1 .. n + 1 : h'[i] = file'[i]
      BY <2>1, <3>1, <3>2, <3>3
    <3>5. status' = IF n + 1 = 9 THEN "loaded" ELSE "reading"
      BY <2>3 DEF ReadEntry
    <3> QED
      BY <2>1, <3>1, <3>2, <3>3, <3>4, <3>5 DEF LoadInv
  <2>4. CASE ReadFails
    <3>1. n < 9 /\ n + 1 \in 1 .. 9
      BY <2>1, <2>4 DEF ReadFails, LoadInv
    <3>2. h' \in [1 .. 9 -> Values] /\ \A i \in 1 .. 9 : i # n + 1 => h'[i] = h[i]
      BY <1>1, <2>1, <2>4, <3>1 DEF ReadFails, Entry
    <3>3. file' = file /\ status' = "failed"
      BY <2>4 DEF ReadFails
    <3> QED
      BY <2>1, <3>1, <3>2, <3>3 DEF LoadInv
  <2>5. CASE UNCHANGED loadVars
    BY <2>5 DEF loadVars, LoadInv
  <2> QED
    BY <2>2, <2>3, <2>4, <2>5 DEF LoadNext
<1> QED
  BY <1>2, <1>3, PTL DEF LoadSpec

\* A file that was loaded maps each point off the horizon as its multiples do, by every
\* number but zero.
ScaleFreeForAll ==
  status = "loaded" =>
    \A k \in Int \ {0} : \A x, y \in View :
      LET multiple == [i \in 1 .. 9 |-> k * file[i]]
      IN Row(h, 7, x, y) # 0 => Map(multiple, x, y) = Map(h, x, y)

\* For every calibration file, read to its end or not, every point is mapped onto the
\* surface; and the multiples of a loaded file are no different from it (main.cpp:26-32,
\* homography_map.hpp:15-23).
THEOREM CalibrationIsSafe == LoadSpec => [](LoadTypeOK /\ ScaleFree /\ ScaleFreeForAll)
<1>1. LoadInv => LoadTypeOK /\ ScaleFree /\ ScaleFreeForAll
  <2> SUFFICES ASSUME LoadInv PROVE LoadTypeOK /\ ScaleFree /\ ScaleFreeForAll
    OBVIOUS
  <2>1. h \in [1 .. 9 -> Int] /\ View \subseteq Int
    <3>1. Values \subseteq Int /\ h \in [1 .. 9 -> Values]
      BY HomographyAssumption DEF LoadInv
    <3>2. \A i \in 1 .. 9 : h[i] \in Int
      BY <3>1
    <3> QED
      BY <3>1, <3>2 DEF View
  <2>2. ASSUME NEW x \in View, NEW y \in View PROVE Map(h, x, y) \in View \X View
    <3>1. \A r \in {1, 4, 7} : Row(h, r, x, y) \in Int
      BY <2>1, RowIsLinear
    <3> QED
      BY <3>1, QuotientInView DEF Map
  <2>3. LoadTypeOK
    BY <2>2 DEF LoadInv, LoadTypeOK
  <2>4. ScaleFreeForAll
    <3> SUFFICES ASSUME status = "loaded", NEW k \in Int \ {0}, NEW x \in View, NEW y \in View,
                        Row(h, 7, x, y) # 0
                 PROVE  Map([i \in 1 .. 9 |-> k * file[i]], x, y) = Map(h, x, y)
      BY DEF ScaleFreeForAll
    <3>1. [i \in 1 .. 9 |-> k * file[i]] = [i \in 1 .. 9 |-> k * h[i]]
      BY DEF LoadInv
    <3> DEFINE multiple == [i \in 1 .. 9 |-> k * h[i]]
    <3>2. \A r \in {1, 4, 7} : Row(h, r, x, y) \in Int /\ Row(multiple, r, x, y) = k * Row(h, r, x, y)
      BY <2>1, RowIsLinear
    <3> HIDE DEF multiple
    <3>3. \A r \in {1, 4} : Quotient(Row(multiple, r, x, y), Row(multiple, 7, x, y))
                              = Quotient(Row(h, r, x, y), Row(h, 7, x, y))
      BY <3>2, QuotientHasNoScale
    <3>4. Map(multiple, x, y) = Map(h, x, y)
      BY <3>3, Zenon DEF Map
    <3> QED
      BY <3>1, <3>4 DEF multiple
  <2>5. ScaleFree
    BY <2>4, {-1, 1, 2} \subseteq Int \ {0} DEF ScaleFree, ScaleFreeForAll
  <2> QED
    BY <2>3, <2>4, <2>5
<1> QED
  BY <1>1, LoadInvHolds, PTL

-----------------------------------------------------------------------------
(* Wire *)

Frames == [length : Nat, genuine : BOOLEAN, type : Handled \cup {"unknown"}, payload_len : Nat]
Posted == [d : Frames, id : Nat]
TakenTypes == [id : Nat, from : SUBSET Nat, as : Frames]

\* The frames taken, and waiting, that are as they should be.
RegularIn(t) == {t[i].id : i \in {j \in 1 .. Len(t) : Conforms(t[j].as)}}
WaitingIn(w) == {w[i].id : i \in {j \in 1 .. Len(w) : Conforms(w[j].d)}}

WireTypes ==
  /\ receiver \in {"engine", "ui"} /\ sent \in 0 .. MaxSent /\ running \in BOOLEAN /\ open \in BOOLEAN
  /\ wire \in Seq(Posted) /\ Len(wire) <= WireCap /\ Len(wire) <= sent
  /\ payload \in [Cuts -> 0 .. MaxSent] /\ taken \in Seq(TakenTypes) /\ due \subseteq 1 .. sent

\* Datagrams wait in the order of their numbers, without a gap up to the last one sent.
InARow == \A i \in 1 .. Len(wire) : wire[i].id = sent - Len(wire) + i

\* What was taken is of a number before those, and whole.
TakenBefore ==
  \A i \in 1 .. Len(taken) :
    /\ taken[i].id <= sent - Len(wire) /\ taken[i].from = {taken[i].id}
    /\ \A j \in 1 .. i - 1 : taken[j].id < taken[i].id

NoneLost == /\ due = RegularIn(taken) \cup WaitingIn(wire)
            /\ running \/ (wire = <<>> /\ ~open) \/ due # 1 .. sent

WireInv == WireTypes /\ InARow /\ TakenBefore /\ NoneLost

\* The sizes of the messages are those of the Python mirror (proto/nui_events.py).
LEMMA Sizes ==
  /\ kHeader = 28 /\ kMaxPayload = 344 /\ kMaxMessage = 372
  /\ Payload = [hand |-> 344, contact |-> 8, pointer |-> 12, gesture |-> 20]
<1>1. kLandmark = 16
  BY DEF kLandmark
<1>2. 1 + 1 + 2 + 4 + 21 * kLandmark = 344
  BY <1>1
<1>3. /\ 1 + 1 + 2 + 4 = 8 /\ 4 + 4 + 4 = 12 /\ 2 + 2 + 4 + 4 + 4 + 4 = 20
      /\ 4 + 2 + 2 + 4 + 8 + 8 = 28 /\ 28 + 344 = 372
  OBVIOUS
<1>4. Payload = [hand |-> 344, contact |-> 8, pointer |-> 12, gesture |-> 20]
  BY <1>2, <1>3, Zenon DEF Payload
<1>5. kMaxPayload = 344
  BY <1>4 DEF kMaxPayload
<1>6. kHeader = 28
  BY DEF kHeader
<1> QED
  BY <1>4, <1>5, <1>6 DEF kMaxMessage

\* Every type has a size, that of a hand the largest.
LEMMA SizeOfHandled ==
  ASSUME receiver \in {"engine", "ui"}, NEW k \in Handled
  PROVE  Payload[k] \in 1 .. kMaxPayload /\ Payload[k] \in Cuts
<1>1. k \in {"hand", "contact", "pointer", "gesture"}
  BY DEF Handled
<1>2. Payload[k] \in 1 .. kMaxPayload
  BY <1>1, Sizes
<1>3. k \in DOMAIN Payload
  BY <1>1 DEF Payload
<1> QED
  BY <1>2, <1>3, Zenon DEF Cuts

\* A frame that is as it should be passes every check on its way (uds.cpp:92-111).
LEMMA RegularFramesPass ==
  ASSUME receiver \in {"engine", "ui"}, NEW d \in Frames, Conforms(d)
  PROVE  Ok(d) /\ Takes(d) /\ d.length # 0
<1>1. /\ d.genuine /\ d.type \in Handled /\ d.payload_len = Payload[d.type]
      /\ d.length = kHeader + d.payload_len
  BY DEF Conforms
<1>2. Payload[d.type] \in 1 .. 344 /\ kHeader = 28 /\ kMaxMessage = 372 /\ kMaxPayload = 344
  BY <1>1, SizeOfHandled, Sizes
<1>3. Received(d) = d.length
  BY <1>1, <1>2 DEF Received
<1> QED
  BY <1>1, <1>2, <1>3 DEF Ok, Takes, Valid

\* A handler that looks at the length as well as the type reads only bytes of its own
\* datagram (main.cpp:84-93).
LEMMA ReadsItsOwn ==
  ASSUME receiver \in {"engine", "ui"}, NEW d \in Frames, Takes(d), NEW id \in Nat
  PROVE  Copied(d, id) = {id}
<1>1. d.payload_len = Payload[d.type] /\ Payload[d.type] \in 1 .. kMaxPayload /\ Payload[d.type] \in Cuts
  BY SizeOfHandled DEF Takes
<1>2. \A e \in Cuts : e <= Payload[d.type] => Written(d, id)[e] = id
  BY <1>1 DEF Written
<1>3. Payload[d.type] <= Payload[d.type]
  BY <1>1, Sizes
<1> QED
  BY <1>1, <1>2, <1>3 DEF Copied

\* What was taken has a number before those that wait.
LEMMA TakenNumber ==
  ASSUME WireInv, NEW i \in 1 .. Len(taken)
  PROVE  taken[i].id \in Nat /\ taken[i].id <= sent - Len(wire)
<1>1. taken \in Seq(TakenTypes)
  BY DEF WireInv, WireTypes
<1>2. taken[i] \in TakenTypes
  BY <1>1, ElementOfSeq
<1> QED
  BY <1>2 DEF WireInv, TakenBefore, TakenTypes

\* What a step that leaves the datagrams alone keeps.
LEMMA DatagramsAlone ==
  ASSUME WireInv, UNCHANGED <<receiver, wire, sent, payload, due, taken>>,
         open' \in BOOLEAN, running' \in BOOLEAN
  PROVE  /\ WireTypes' /\ InARow' /\ TakenBefore'
         /\ RegularIn(taken)' = RegularIn(taken) /\ WaitingIn(wire)' = WaitingIn(wire)
<1>1. /\ receiver' = receiver /\ wire' = wire /\ sent' = sent /\ payload' = payload
      /\ due' = due /\ taken' = taken
  OBVIOUS
<1>2. Handled' = Handled
  BY <1>1, Zenon DEF Handled
<1>3. WireTypes'
  BY <1>1, <1>2, Zenon DEF WireInv, WireTypes, Frames, Posted, TakenTypes, Cuts
<1>4. InARow' /\ TakenBefore'
  BY <1>1, Zenon DEF WireInv, InARow, TakenBefore
<1>5. RegularIn(taken)' = RegularIn(taken) /\ WaitingIn(wire)' = WaitingIn(wire)
  BY <1>1, <1>2, Zenon DEF RegularIn, WaitingIn, Conforms
<1> QED
  BY <1>3, <1>4, <1>5

\* The socket starts empty.
LEMMA WireStarts == WireInit => WireInv
<1> SUFFICES ASSUME WireInit PROVE WireInv
  OBVIOUS
<1>1. /\ wire = <<>> /\ taken = <<>> /\ Len(wire) = 0 /\ Len(taken) = 0 /\ sent = 0 /\ due = {}
      /\ running = TRUE /\ open = TRUE /\ receiver \in {"engine", "ui"}
      /\ wire \in Seq(Posted) /\ taken \in Seq(TakenTypes) /\ payload = [e \in Cuts |-> 0]
  BY EmptySeq DEF WireInit
<1>2. MaxSent \in Nat /\ WireCap \in Nat
  BY WireAssumption
<1>3. payload \in [Cuts -> 0 .. MaxSent]
  BY <1>1, <1>2
<1>4. WireTypes
  BY <1>1, <1>2, <1>3 DEF WireTypes
<1>5. InARow /\ TakenBefore
  BY <1>1 DEF InARow, TakenBefore
<1>6. RegularIn(taken) = {} /\ WaitingIn(wire) = {}
  BY <1>1 DEF RegularIn, WaitingIn
<1> QED
  BY <1>1, <1>4, <1>5, <1>6, Zenon DEF WireInv, NoneLost

\* A datagram sent, regular or not, waits behind the others.
LEMMA EnterKeeps ==
  ASSUME WireInv, NEW d \in Frames, Enter(d), UNCHANGED receiver PROVE WireInv'
<1> DEFINE n == Len(wire)
           post == [d |-> d, id |-> sent + 1]
<1>1. /\ sent \in Nat /\ n \in Nat /\ n <= sent /\ MaxSent \in Nat /\ sent < MaxSent /\ n < WireCap
      /\ wire \in Seq(Posted) /\ WireCap \in Nat /\ due \subseteq 1 .. sent /\ open
  BY LenProperties, WireAssumption DEF WireInv, WireTypes, Enter
<1>2. /\ sent' = sent + 1 /\ wire' = Append(wire, post) /\ UNCHANGED <<payload, running, open, taken>>
      /\ due' = IF Conforms(d) THEN due \cup {sent + 1} ELSE due
  BY DEF Enter
<1>3. post \in Posted /\ post.id = sent + 1 /\ post.d = d
  BY <1>1 DEF Posted
<1> HIDE DEF post
<1>4. /\ wire' \in Seq(Posted) /\ Len(wire') = n + 1 /\ wire'[n + 1] = post /\ wire' # <<>>
      /\ \A i \in 1 .. n : wire'[i] = wire[i]
  BY <1>1, <1>2, <1>3, AppendProperties
<1>5. Handled' = Handled
  BY DEF Handled
<1>6. Frames' = Frames /\ Posted' = Posted /\ TakenTypes' = TakenTypes /\ Cuts' = Cuts
  BY <1>5, Zenon DEF Frames, Posted, TakenTypes, Cuts
<1>7. due' \subseteq 1 .. sent'
  BY <1>1, <1>2
<1>8. WireTypes'
  BY <1>1, <1>2, <1>4, <1>6, <1>7 DEF WireInv, WireTypes
<1>9. InARow'
  <2> SUFFICES ASSUME NEW i \in 1 .. n + 1 PROVE wire'[i].id = (sent + 1) - (n + 1) + i
    BY <1>2, <1>4 DEF InARow
  <2>1. CASE i = n + 1
    BY <1>1, <1>3, <1>4, <2>1
  <2>2. CASE i # n + 1
    <3>1. i \in 1 .. n
      BY <1>1, <2>2
    <3>2. wire'[i].id = sent - n + i
      BY <1>4, <3>1 DEF WireInv, InARow
    <3> QED
      BY <1>1, <3>1, <3>2
  <2> QED
    BY <2>1, <2>2
<1>10. TakenBefore'
  <2>1. sent' - Len(wire') = sent - Len(wire)
    BY <1>1, <1>2, <1>4
  <2> QED
    BY <1>2, <2>1 DEF WireInv, TakenBefore
<1>11. \A f \in Frames : Conforms(f)' <=> Conforms(f)
  BY <1>5 DEF Conforms
<1>12. RegularIn(taken)' = RegularIn(taken)
  BY <1>2, <1>5, Zenon DEF RegularIn, Conforms
<1>13. WaitingIn(wire)' = WaitingIn(wire) \cup (IF Conforms(d) THEN {sent + 1} ELSE {})
  <2>1. WaitingIn(wire)' = {wire'[i].id : i \in {j \in 1 .. Len(wire') : Conforms(wire'[j].d)}}
    BY <1>5, Zenon DEF WaitingIn, Conforms
  <2>2. 1 .. n + 1 = (1 .. n) \cup {n + 1} /\ n + 1 \notin 1 .. n
    BY <1>1
  <2>3. /\ \A i \in 1 .. n : wire'[i].id = wire[i].id /\ wire'[i].d = wire[i].d
        /\ wire'[n + 1].id = sent + 1 /\ wire'[n + 1].d = d
    BY <1>3, <1>4
  <2>4. ASSUME NEW x \in WaitingIn(wire)' PROVE x \in WaitingIn(wire) \cup (IF Conforms(d) THEN {sent + 1} ELSE {})
    <3>1. PICK i \in 1 .. n + 1 : Conforms(wire'[i].d) /\ x = wire'[i].id
      BY <1>4, <2>1, <2>4
    <3>2. CASE i = n + 1
      BY <2>3, <3>1, <3>2
    <3>3. CASE i # n + 1
      <4>1. i \in 1 .. n
        BY <2>2, <3>3
      <4>2. Conforms(wire[i].d) /\ x = wire[i].id
        BY <2>3, <3>1, <4>1, Zenon
      <4> QED
        BY <4>1, <4>2 DEF WaitingIn
    <3> QED
      BY <3>2, <3>3
  <2>5. ASSUME NEW x \in WaitingIn(wire) PROVE x \in WaitingIn(wire)'
    <3>1. PICK i \in 1 .. n : Conforms(wire[i].d) /\ x = wire[i].id
      BY <2>5 DEF WaitingIn
    <3>2. i \in 1 .. n + 1 /\ Conforms(wire'[i].d) /\ x = wire'[i].id
      BY <2>2, <2>3, <3>1, Zenon
    <3> QED
      BY <1>4, <2>1, <3>2
  <2>6. ASSUME Conforms(d) PROVE sent + 1 \in WaitingIn(wire)'
    <3>1. n + 1 \in 1 .. n + 1 /\ Conforms(wire'[n + 1].d) /\ sent + 1 = wire'[n + 1].id
      BY <2>2, <2>3, <2>6, Zenon
    <3> QED
      BY <1>4, <2>1, <3>1
  <2> QED
    BY <2>4, <2>5, <2>6
<1>14. NoneLost'
  <2>1. due' = RegularIn(taken)' \cup WaitingIn(wire)'
    BY <1>2, <1>12, <1>13 DEF WireInv, NoneLost
  <2>2. CASE running
    BY <1>2, <2>2, <2>1 DEF NoneLost
  <2>3. CASE ~running
    <3>1. due # 1 .. sent
      BY <1>1, <2>3 DEF WireInv, NoneLost
    <3>2. PICK i \in 1 .. sent : i \notin due
      BY <1>1, <3>1
    <3>3. i \notin due' /\ i \in 1 .. sent'
      BY <1>1, <1>2, <3>2
    <3> QED
      BY <1>2, <2>3, <2>1, <3>3 DEF NoneLost
  <2> QED
    BY <2>2, <2>3
<1> QED
  BY <1>8, <1>9, <1>10, <1>14 DEF WireInv

\* A datagram received was the first of those waiting; a regular one is taken, whole, and an
\* irregular one is none that was due (uds.cpp:92-111, main.cpp:73-103, EventClient.cpp:37-61).
LEMMA ReceiveKeeps ==
  ASSUME WireInv, Receive, UNCHANGED receiver PROVE WireInv'
<1> DEFINE n == Len(wire)
           m == Len(taken)
           d == Head(wire).d
           id == Head(wire).id
           took == [id |-> id, from |-> Copied(d, id), as |-> d]
<1>1. /\ sent \in 0 .. MaxSent /\ n \in Nat \ {0} /\ n <= sent /\ MaxSent \in Nat /\ m \in Nat
      /\ wire \in Seq(Posted) /\ wire # <<>> /\ WireCap \in Nat /\ n <= WireCap
      /\ taken \in Seq(TakenTypes) /\ due \subseteq 1 .. sent
      /\ running = TRUE /\ receiver \in {"engine", "ui"} /\ payload \in [Cuts -> 0 .. MaxSent]
  <2>1. running = TRUE /\ wire # <<>>
    BY DEF Receive, WireInv, WireTypes
  <2> QED
    BY <2>1, EmptySeq, LenProperties, WireAssumption DEF WireInv, WireTypes
<1>2. UNCHANGED <<sent, open, due>> /\ wire' = Tail(wire)
  BY DEF Receive
<1>3. TakeOk(d, id) \/ TakeMalformed(d) \/ TakeEmpty(d)
  BY DEF Receive
<1>4. wire[1] \in Posted /\ Head(wire) = wire[1]
  BY <1>1, ElementOfSeq
<1>5. d \in Frames /\ id = sent - n + 1 /\ id \in 1 .. sent
  <2>1. wire[1].id = sent - n + 1
    BY <1>1 DEF WireInv, InARow
  <2> QED
    BY <1>1, <1>4, <2>1 DEF Posted
<1>6. /\ wire' \in Seq(Posted) /\ Len(wire') = n - 1
      /\ \A i \in 1 .. n - 1 : wire'[i] = wire[i + 1]
  BY <1>1, <1>2, HeadTailProperties
<1>7. \A i \in 1 .. n : wire[i].id = sent - n + i
  BY DEF WireInv, InARow
<1>8. wire[1].d = d /\ wire[1].id = id
  BY <1>4
<1> HIDE DEF d, id
<1>9. /\ Handled' = Handled /\ Frames' = Frames /\ Posted' = Posted /\ TakenTypes' = TakenTypes
      /\ Cuts' = Cuts
  <2>1. Handled' = Handled
    BY DEF Handled
  <2> QED
    BY <2>1, Zenon DEF Frames, Posted, TakenTypes, Cuts
<1>10. ASSUME running' \in BOOLEAN, payload' \in [Cuts -> 0 .. MaxSent], taken' \in Seq(TakenTypes)
       PROVE  WireTypes'
  <2>1. Len(wire') <= WireCap /\ Len(wire') <= sent
    BY <1>1, <1>6
  <2>2. receiver' = receiver /\ sent' = sent /\ open' = open /\ due' = due
    BY <1>2
  <2>3. open \in BOOLEAN
    BY DEF WireInv, WireTypes
  <2> QED
    BY <1>1, <1>6, <1>9, <1>10, <2>1, <2>2, <2>3, Zenon DEF WireTypes
<1>11. WaitingIn(wire)' = {wire'[i].id : i \in {j \in 1 .. n - 1 : Conforms(wire'[j].d)}}
  BY <1>6, <1>9, Zenon DEF WaitingIn, Conforms
<1>12. InARow'
  <2> SUFFICES ASSUME NEW i \in 1 .. n - 1 PROVE wire'[i].id = sent - (n - 1) + i
    BY <1>2, <1>6 DEF InARow
  <2>1. i + 1 \in 1 .. n /\ sent - n + (i + 1) = sent - (n - 1) + i
    BY <1>1
  <2>2. wire[i + 1].id = sent - n + (i + 1)
    BY <1>7, <2>1
  <2> QED
    BY <1>6, <2>1, <2>2
<1>13. WaitingIn(wire) = WaitingIn(wire)' \cup (IF Conforms(d) THEN {id} ELSE {})
  <2>1. WaitingIn(wire)' = {wire'[i].id : i \in {j \in 1 .. n - 1 : Conforms(wire'[j].d)}}
    BY <1>11
  <2>2. ASSUME NEW x \in WaitingIn(wire)
        PROVE  x \in WaitingIn(wire)' \cup (IF Conforms(d) THEN {id} ELSE {})
    <3>1. PICK i \in 1 .. n : Conforms(wire[i].d) /\ x = wire[i].id
      BY <2>2 DEF WaitingIn
    <3>2. CASE i = 1
      BY <1>8, <3>1, <3>2
    <3>3. CASE i # 1
      <4>1. i - 1 \in 1 .. n - 1 /\ (i - 1) + 1 = i
        BY <1>1, <3>3
      <4>2. wire'[i - 1] = wire[i]
        BY <1>6, <4>1
      <4> QED
        BY <2>1, <3>1, <4>1, <4>2, Zenon
    <3> QED
      BY <3>2, <3>3
  <2>3. ASSUME NEW x \in WaitingIn(wire)' PROVE x \in WaitingIn(wire)
    <3>1. PICK i \in 1 .. n - 1 : Conforms(wire'[i].d) /\ x = wire'[i].id
      BY <2>1, <2>3
    <3>2. i + 1 \in 1 .. n /\ wire'[i] = wire[i + 1]
      BY <1>1, <1>6
    <3> QED
      BY <3>1, <3>2, Zenon DEF WaitingIn
  <2>4. ASSUME Conforms(d) PROVE id \in WaitingIn(wire)
    <3>1. 1 \in 1 .. n /\ Conforms(wire[1].d) /\ wire[1].id = id
      BY <1>1, <1>8, <2>4
    <3> QED
      BY <3>1, Zenon DEF WaitingIn
  <2> QED
    BY <2>2, <2>3, <2>4
<1>14. due = RegularIn(taken) \cup WaitingIn(wire)
  BY <1>1 DEF WireInv, NoneLost
<1>15. ASSUME NEW x \in WaitingIn(wire)' PROVE x > id
  <2>1. PICK i \in 1 .. n - 1 : x = wire'[i].id
    BY <1>15, <1>11
  <2>2. wire'[i].id = sent - (n - 1) + i
    BY <1>2, <1>6, <1>12 DEF InARow
  <2> QED
    BY <1>1, <1>5, <2>1, <2>2
<1>16. ASSUME NEW x \in RegularIn(taken) PROVE x < id
  <2>1. PICK i \in 1 .. m : x = taken[i].id
    BY <1>16 DEF RegularIn
  <2>2. taken[i].id <= sent - n /\ taken[i].id \in Nat
    BY TakenNumber
  <2> QED
    BY <1>1, <1>5, <2>1, <2>2
<1>17. ASSUME ~Conforms(d), UNCHANGED <<payload, taken>>, running' \in BOOLEAN PROVE WireInv'
  <2>1. WireTypes'
    <3>1. payload' = payload /\ taken' = taken
      BY <1>17
    <3> QED
      BY <1>1, <1>17, <1>10, <3>1, Zenon
  <2>2. TakenBefore'
    <3> SUFFICES ASSUME NEW i \in 1 .. m PROVE taken[i].id <= sent - (n - 1)
      BY <1>2, <1>6, <1>17 DEF WireInv, TakenBefore
    <3>1. taken[i].id <= sent - n /\ taken[i].id \in Nat
      BY TakenNumber
    <3> QED
      BY <1>1, <3>1
  <2>3. NoneLost'
    <3>1. RegularIn(taken)' = RegularIn(taken)
      BY <1>9, <1>17, Zenon DEF RegularIn, Conforms
    <3>2. due' = RegularIn(taken)' \cup WaitingIn(wire)'
      BY <1>2, <1>13, <1>14, <1>17, <3>1
    <3>3. id \notin due
      BY <1>2, <1>5, <1>15, <1>16, <3>1, <3>2
    <3>4. due' # 1 .. sent'
      BY <1>2, <1>5, <3>3
    <3> QED
      BY <3>2, <3>4, Zenon DEF NoneLost
  <2> QED
    BY <1>12, <2>1, <2>2, <2>3 DEF WireInv
<1>18. CASE TakeMalformed(d) \/ TakeEmpty(d)
  <2>1. ~Conforms(d)
    BY <1>1, <1>5, <1>18, RegularFramesPass DEF TakeMalformed, TakeEmpty
  <2>2. UNCHANGED <<payload, taken>> /\ running' \in BOOLEAN
    BY <1>18, Zenon DEF TakeMalformed, TakeEmpty
  <2> QED
    BY <1>17, <2>1, <2>2
<1>19. CASE TakeOk(d, id)
  <2>1. running' = TRUE
    BY <1>1, <1>19 DEF TakeOk
  <2>2. payload' \in [Cuts -> 0 .. MaxSent]
    <3>1. payload' = Written(d, id) /\ id \in 0 .. MaxSent
      BY <1>1, <1>5, <1>19 DEF TakeOk
    <3> QED
      BY <1>1, <3>1 DEF Written
  <2>3. CASE Takes(d)
    <3>1. taken' = Append(taken, took)
      BY <1>19, <2>3 DEF TakeOk
    <3>2. took \in TakenTypes /\ took.id = id /\ took.from = {id} /\ took.as = d
      BY <1>1, <1>5, <2>3, ReadsItsOwn DEF TakenTypes
    <3> HIDE DEF took
    <3>3. /\ taken' \in Seq(TakenTypes) /\ Len(taken') = m + 1 /\ taken'[m + 1] = took
          /\ \A i \in 1 .. m : taken'[i] = taken[i]
      BY <1>1, <3>1, <3>2, AppendProperties
    <3>4. WireTypes'
      BY <1>10, <2>1, <2>2, <3>3
    <3>5. TakenBefore'
      <4> SUFFICES ASSUME NEW i \in 1 .. m + 1
                   PROVE  /\ taken'[i].id <= sent - (n - 1) /\ taken'[i].from = {taken'[i].id}
                          /\ \A j \in 1 .. i - 1 : taken'[j].id < taken'[i].id
        BY <1>2, <1>6, <3>3 DEF TakenBefore
      <4>1. ASSUME NEW j \in 1 .. m PROVE taken[j].id <= sent - n /\ taken[j].id \in Nat
        BY <4>1, TakenNumber
      <4>2. CASE i = m + 1
        <5>1. \A j \in 1 .. i - 1 : j \in 1 .. m
          BY <1>1, <4>2
        <5>2. \A j \in 1 .. i - 1 : taken'[j].id < id
          BY <1>1, <1>5, <3>3, <4>1, <5>1
        <5> QED
          BY <1>1, <1>5, <3>2, <3>3, <4>2, <5>2
      <4>3. CASE i # m + 1
        <5>1. i \in 1 .. m /\ \A j \in 1 .. i - 1 : j \in 1 .. m
          BY <1>1, <4>3
        <5>2. taken[i].from = {taken[i].id} /\ \A j \in 1 .. i - 1 : taken[j].id < taken[i].id
          BY <5>1 DEF WireInv, TakenBefore
        <5>3. taken[i].id <= sent - (n - 1)
          BY <1>1, <4>1, <5>1
        <5> QED
          BY <3>3, <5>1, <5>2, <5>3
      <4> QED
        BY <4>2, <4>3
    <3>6. RegularIn(taken)' = RegularIn(taken) \cup (IF Conforms(d) THEN {id} ELSE {})
      <4>1. RegularIn(taken)' = {taken'[i].id : i \in {j \in 1 .. m + 1 : Conforms(taken'[j].as)}}
        BY <1>9, <3>3, Zenon DEF RegularIn, Conforms
      <4>2. 1 .. m + 1 = (1 .. m) \cup {m + 1}
        BY <1>1
      <4>3. ASSUME NEW x \in RegularIn(taken)'
            PROVE  x \in RegularIn(taken) \cup (IF Conforms(d) THEN {id} ELSE {})
        <5>1. PICK i \in 1 .. m + 1 : Conforms(taken'[i].as) /\ x = taken'[i].id
          BY <4>1, <4>3
        <5>2. CASE i = m + 1
          BY <3>2, <3>3, <5>1, <5>2
        <5>3. CASE i \in 1 .. m
          <6>1. Conforms(taken[i].as) /\ x = taken[i].id
            BY <3>3, <5>1, <5>3, Zenon
          <6> QED
            BY <5>3, <6>1 DEF RegularIn
        <5> QED
          BY <4>2, <5>2, <5>3
      <4>4. ASSUME NEW x \in RegularIn(taken) PROVE x \in RegularIn(taken)'
        <5>1. PICK i \in 1 .. m : Conforms(taken[i].as) /\ x = taken[i].id
          BY <4>4 DEF RegularIn
        <5>2. i \in 1 .. m + 1 /\ Conforms(taken'[i].as) /\ x = taken'[i].id
          BY <3>3, <4>2, <5>1, Zenon
        <5> QED
          BY <4>1, <5>2
      <4>5. ASSUME Conforms(d) PROVE id \in RegularIn(taken)'
        <5>1. m + 1 \in 1 .. m + 1 /\ Conforms(taken'[m + 1].as) /\ id = taken'[m + 1].id
          BY <3>2, <3>3, <4>2, <4>5, Zenon
        <5> QED
          BY <4>1, <5>1
      <4> QED
        BY <4>3, <4>4, <4>5
    <3>7. NoneLost'
      BY <1>2, <1>13, <1>14, <2>1, <3>6 DEF NoneLost
    <3> QED
      BY <1>12, <3>4, <3>5, <3>7 DEF WireInv
  <2>4. CASE ~Takes(d)
    <3>1. ~Conforms(d)
      BY <1>1, <1>5, <2>4, RegularFramesPass
    <3>2. taken' = taken
      BY <1>19, <2>4 DEF TakeOk
    <3>3. WireTypes'
      BY <1>1, <1>10, <2>1, <2>2, <3>2, Zenon
    <3>4. TakenBefore'
      <4> SUFFICES ASSUME NEW i \in 1 .. m PROVE taken[i].id <= sent - (n - 1)
        BY <1>2, <1>6, <3>2 DEF WireInv, TakenBefore
      <4>1. taken[i].id <= sent - n /\ taken[i].id \in Nat
        BY TakenNumber
      <4> QED
        BY <1>1, <4>1
    <3>5. RegularIn(taken)' = RegularIn(taken)
      BY <1>9, <3>2, Zenon DEF RegularIn, Conforms
    <3>6. NoneLost'
      BY <1>2, <1>13, <1>14, <2>1, <3>1, <3>5 DEF NoneLost
    <3> QED
      BY <1>12, <3>3, <3>4, <3>6 DEF WireInv
  <2> QED
    BY <2>3, <2>4
<1> QED
  BY <1>3, <1>18, <1>19

\* Everything on the wire is a frame of some length and header.
LEMMA WireInvHolds == WireSpec => []WireInv
<1>1. WireInv /\ [WireNext]_wireVars => WireInv'
  <2> SUFFICES ASSUME WireInv, [WireNext]_wireVars PROVE WireInv'
    OBVIOUS
  <2>1. receiver \in {"engine", "ui"}
    BY DEF WireInv, WireTypes
  <2>2. CASE UNCHANGED receiver /\ \E k \in Handled : SendMsg(k)
    <3>1. PICK k \in Handled : SendMsg(k)
      BY <2>2
    <3>2. Payload[k] \in Nat /\ kHeader \in Nat
      BY <2>1, SizeOfHandled, Sizes
    <3>3. Framed(k) \in Frames
      BY <3>2 DEF Framed, Frames
    <3> QED
      BY <2>2, <3>1, <3>3, EnterKeeps DEF SendMsg
  <2>3. CASE UNCHANGED receiver /\ SendOther
    <3>1. PICK d \in Datagrams : Enter(d)
      BY <2>3 DEF SendOther
    <3>2. d \in Frames
      BY WireAssumption DEF Datagrams, Frames
    <3> QED
      BY <2>3, <3>1, <3>2, EnterKeeps
  <2>4. CASE UNCHANGED receiver /\ Close
    <3>1. UNCHANGED <<receiver, wire, sent, payload, due, taken>> /\ open' = FALSE /\ running' = running
      BY <2>4 DEF Close
    <3>2. open' \in BOOLEAN /\ running' \in BOOLEAN
      BY <3>1 DEF WireInv, WireTypes
    <3> QED
      BY <3>1, <3>2, DatagramsAlone DEF WireInv, NoneLost
  <2>5. CASE UNCHANGED receiver /\ Receive
    BY <2>5, ReceiveKeeps
  <2>6. CASE UNCHANGED receiver /\ SeeClosed
    <3>1. UNCHANGED <<receiver, wire, sent, payload, due, taken>> /\ running' = FALSE /\ open' = open /\ wire = <<>> /\ ~open
      BY <2>6 DEF SeeClosed
    <3>2. open' \in BOOLEAN /\ running' \in BOOLEAN
      BY <3>1 DEF WireInv, WireTypes
    <3> QED
      BY <3>1, <3>2, DatagramsAlone DEF WireInv, NoneLost
  <2>7. CASE UNCHANGED wireVars
    <3>1. UNCHANGED <<receiver, wire, sent, payload, due, taken>> /\ open' = open /\ running' = running
      BY <2>7 DEF wireVars
    <3>2. open' \in BOOLEAN /\ running' \in BOOLEAN
      BY <3>1 DEF WireInv, WireTypes
    <3> QED
      BY <3>1, <3>2, DatagramsAlone DEF WireInv, NoneLost
  <2> QED
    BY <2>2, <2>3, <2>4, <2>5, <2>6, <2>7 DEF WireNext
<1> QED
  BY <1>1, WireStarts, PTL DEF WireSpec

\* For any number of datagrams of any lengths: every regular frame is taken once, in order
\* and whole, and a connection is given up only when it was closed or something irregular
\* came (uds.cpp:92-111, main.cpp:64-103, EventClient.cpp:37-61).
THEOREM FramesAreTakenWhole == WireSpec => [](WireTypeOK /\ FramesArriveWhole)
<1>1. WireInv => WireTypeOK /\ FramesArriveWhole
  <2> SUFFICES ASSUME WireInv PROVE WireTypeOK /\ FramesArriveWhole
    OBVIOUS
  <2>1. /\ sent \in Nat /\ Len(wire) \in Nat /\ Len(taken) \in Nat
        /\ DOMAIN wire = 1 .. Len(wire) /\ DOMAIN taken = 1 .. Len(taken)
        /\ Len(wire) <= sent
    BY LenProperties, WireAssumption DEF WireInv, WireTypes
  <2>2. \A i \in 1 .. Len(wire) : wire[i].id \in 1 .. sent
    <3> TAKE i \in 1 .. Len(wire)
    <3>1. wire[i].id = sent - Len(wire) + i
      BY DEF WireInv, InARow
    <3> QED
      BY <2>1, <3>1
  <2>3. WireTypeOK
    BY <2>1, <2>2, Sizes DEF WireTypeOK, WireInv, WireTypes, Numbers
  <2>4. ASSUME NEW i \in 1 .. Len(taken), NEW j \in 1 .. Len(wire) PROVE taken[i].id < wire[j].id
    <3>1. taken[i].id \in Nat /\ taken[i].id <= sent - Len(wire)
      BY TakenNumber
    <3>2. wire[j].id = sent - Len(wire) + j
      BY DEF WireInv, InARow
    <3> QED
      BY <2>1, <3>1, <3>2
  <2>5. /\ RegularIn(taken) = {taken[i].id : i \in {j \in DOMAIN taken : Conforms(taken[j].as)}}
        /\ WaitingIn(wire) = {wire[i].id : i \in {j \in DOMAIN wire : Conforms(wire[j].d)}}
    BY <2>1, Zenon DEF RegularIn, WaitingIn
  <2>6. FramesArriveWhole
    BY <2>1, <2>4, <2>5, Zenon DEF WireInv, TakenBefore, NoneLost, FramesArriveWhole
  <2> QED
    BY <2>3, <2>6
<1> QED
  BY <1>1, WireInvHolds, PTL

-----------------------------------------------------------------------------
(* PinchCalibration *)

\* A dataset is a sequence of labelled ratios.
THEOREM DatasetTypeCorrect == SamplesSpec => []SamplesTypeOK
<1>1. MaxSamples \in Nat
  BY CalibrationAssumption
<1>2. SamplesInit => SamplesTypeOK
  BY <1>1, EmptySeq DEF SamplesInit, SamplesTypeOK
<1>3. SamplesTypeOK /\ [SamplesNext]_samples => SamplesTypeOK'
  <2> SUFFICES ASSUME SamplesTypeOK, [SamplesNext]_samples PROVE SamplesTypeOK'
    OBVIOUS
  <2>1. ASSUME NEW r \in Ratios, NEW l \in Labels, RecordSample(r, l) PROVE SamplesTypeOK'
    <3> DEFINE one == [ratio |-> r, label |-> l]
               Samples == [ratio : Ratios, label : Labels]
    <3>1. one \in Samples /\ samples \in Seq(Samples)
      BY DEF SamplesTypeOK
    <3>2. samples' = Append(samples, one) /\ Len(samples) < MaxSamples
      BY <2>1 DEF RecordSample
    <3> HIDE DEF one, Samples
    <3>3. samples' \in Seq(Samples) /\ Len(samples') = Len(samples) + 1 /\ Len(samples) \in Nat
      BY <3>1, <3>2, AppendProperties, LenProperties
    <3> QED
      BY <1>1, <3>2, <3>3 DEF SamplesTypeOK, Samples
  <2>2. CASE UNCHANGED samples
    BY <2>2 DEF SamplesTypeOK
  <2> QED
    BY <2>1, <2>2 DEF SamplesNext
<1> QED
  BY <1>2, <1>3, PTL DEF SamplesSpec

\* Labelled ratios, finitely many and at least one, under any names.
Dataset(s) == /\ s \in [DOMAIN s -> [ratio : Ratios, label : Labels]]
              /\ IsFiniteSet(DOMAIN s) /\ DOMAIN s # {}

\* The CHOOSE of Least and of Greatest finds something (calibrate_pinch.py:60, 77).
LEMMA LeastIs ==
  ASSUME NEW T \in SUBSET Nat, T # {}
  PROVE  Least(T) \in T /\ \A x \in T : Least(T) <= x
<1>1. \E n \in T : \A m \in T : n <= m
  BY LeastOf
<1> QED
  BY <1>1, Zenon DEF Least

\* The ratios under some labels are numbers; if there are any, one is the greatest.
LEMMA RatiosAre ==
  ASSUME NEW s, Dataset(s), NEW labels \in SUBSET Labels
  PROVE  /\ RatiosOf(s, labels) \in SUBSET Nat
         /\ RatiosOf(s, labels) # {} =>
              /\ Greatest(RatiosOf(s, labels)) \in RatiosOf(s, labels)
              /\ \A x \in RatiosOf(s, labels) : Greatest(RatiosOf(s, labels)) >= x
<1> DEFINE own == {j \in DOMAIN s : s[j].label \in labels}
           f == [i \in own |-> s[i].ratio]
           R == RatiosOf(s, labels)
<1>1. \A i \in DOMAIN s : s[i].ratio \in Nat
  BY CalibrationAssumption DEF Dataset
<1>2. R = {f[i] : i \in own} /\ f \in [own -> Int] /\ R \in SUBSET Nat
  <2>1. R = {s[i].ratio : i \in own}
    BY Zenon DEF RatiosOf
  <2>2. \A i \in own : s[i].ratio \in Nat
    BY <1>1
  <2> HIDE DEF own, R
  <2> QED
    BY <2>1, <2>2
<1>3. IsFiniteSet(own)
  BY FS_Subset DEF Dataset
<1>4. ASSUME R # {} PROVE \E x \in R : \A y \in R : x >= y
  <2>1. own # {}
    BY <1>2, <1>4
  <2> HIDE DEF own, f
  <2>2. PICK i \in own : \A j \in own : f[j] <= f[i]
    BY <1>2, <1>3, <2>1, GreatestAt, Zenon
  <2> QED
    BY <1>2, <2>2
<1> HIDE DEF R
<1> QED
  BY <1>2, <1>4 DEF Greatest, R

\* How often a label was recorded, and how often above or below a threshold, is a number.
LEMMA CountsAre ==
  ASSUME NEW s, Dataset(s), NEW label, NEW below, NEW thr
  PROVE  /\ Count(s, label, below, thr) \in Nat /\ Total(s, label) \in Nat
         /\ Count(s, label, below, thr) <= Total(s, label)
         /\ Count(s, label, below, thr) = Total(s, label) =>
              \A i \in DOMAIN s : s[i].label = label => (below <=> 20 * s[i].ratio < thr)
         /\ Total(s, label) = 0 <=> \A i \in DOMAIN s : s[i].label # label
<1> DEFINE A == {i \in DOMAIN s : s[i].label = label /\ (below <=> 20 * s[i].ratio < thr)}
           B == {i \in DOMAIN s : s[i].label = label}
<1>1. A \in SUBSET B /\ B \in SUBSET DOMAIN s
  OBVIOUS
<1>2. IsFiniteSet(B)
  BY <1>1, FS_Subset DEF Dataset
<1>3. IsFiniteSet(A) /\ Cardinality(A) <= Cardinality(B) /\ (Cardinality(B) = Cardinality(A) => B = A)
  BY <1>1, <1>2, FS_Subset
<1>4. Cardinality(A) \in Nat /\ Cardinality(B) \in Nat
  BY <1>2, <1>3, FS_CardinalityType
<1>5. Cardinality(B) = 0 <=> B = {}
  BY <1>2, FS_EmptySet
<1>6. Count(s, label, below, thr) = Cardinality(A) /\ Total(s, label) = Cardinality(B)
  BY Zenon DEF Count, Total
<1>7. B = A => \A i \in DOMAIN s : s[i].label = label => (below <=> 20 * s[i].ratio < thr)
  OBVIOUS
<1>8. B = {} <=> \A i \in DOMAIN s : s[i].label # label
  OBVIOUS
<1> HIDE DEF A, B
<1> QED
  BY <1>3, <1>4, <1>5, <1>6, <1>7, <1>8

\* So balanced accuracy is a number, too.
LEMMA AccuracyIs ==
  ASSUME NEW s, Dataset(s), NEW thr
  PROVE  /\ Accuracy(s, thr) \in Nat
         /\ Accuracy(s, thr) =
              Count(s, "pinch", TRUE, thr) * (IF Total(s, "release") = 0 THEN 1 ELSE Total(s, "release"))
              + Count(s, "release", FALSE, thr) * (IF Total(s, "pinch") = 0 THEN 1 ELSE Total(s, "pinch"))
<1>1. /\ Count(s, "pinch", TRUE, thr) \in Nat /\ Count(s, "release", FALSE, thr) \in Nat
      /\ Total(s, "pinch") \in Nat /\ Total(s, "release") \in Nat
  BY CountsAre
<1> DEFINE cp == Count(s, "pinch", TRUE, thr)
           cr == Count(s, "release", FALSE, thr)
           tp == Total(s, "pinch")
           tr == Total(s, "release")
<1>2. Accuracy(s, thr) = cp * (IF tr = 0 THEN 1 ELSE tr) + cr * (IF tp = 0 THEN 1 ELSE tp)
  BY Zenon DEF Accuracy
<1> HIDE DEF cp, cr, tp, tr
<1>3. ASSUME NEW x \in Nat, NEW y \in Nat, NEW u \in Nat, NEW v \in Nat PROVE x * u + y * v \in Nat
  OBVIOUS
<1>4. (IF tr = 0 THEN 1 ELSE tr) \in Nat /\ (IF tp = 0 THEN 1 ELSE tp) \in Nat
  BY <1>1 DEF tp, tr
<1>5. cp \in Nat /\ cr \in Nat
  BY <1>1 DEF cp, cr
<1>6. Accuracy(s, thr) \in Nat
  BY <1>2, <1>3, <1>4, <1>5
<1> QED
  BY <1>2, <1>6, Zenon DEF cp, cr, tp, tr

\* There are candidates, one for each of some of the samples (calibrate_pinch.py:60-67).
LEMMA CandidatesAre ==
  ASSUME NEW s, Dataset(s)
  PROVE  \E own \in SUBSET DOMAIN s : \E cut \in [own -> Nat] :
           own # {} /\ Candidates(s) = {cut[i] : i \in own}
<1> DEFINE R == RatiosOf(s, Labels)
           next(r) == Least({q \in R : q > r})
           g == Greatest(R)
<1>1. R = {s[i].ratio : i \in DOMAIN s} /\ R # {}
  BY DEF RatiosOf, Dataset
<1>2. R \in SUBSET Nat /\ g \in R /\ \A x \in R : g >= x
  BY <1>1, RatiosAre, Zenon
<1>3. \A i \in DOMAIN s : s[i].ratio \in R
  BY <1>1
<1>4. Candidates(s) = IF Cardinality(R) = 1 THEN {20 * r : r \in R}
                      ELSE {10 * (r + next(r)) : r \in R \ {g}}
  BY DEF Candidates
<1>5. CASE Cardinality(R) = 1
  <2> DEFINE cut == [i \in DOMAIN s |-> 20 * s[i].ratio]
  <2>1. cut \in [DOMAIN s -> Nat]
    <3>1. \A i \in DOMAIN s : s[i].ratio \in Nat
      BY <1>2, <1>3, Zenon
    <3> QED
      BY <3>1
  <2>2. Candidates(s) = {cut[i] : i \in DOMAIN s}
    BY <1>1, <1>4, <1>5
  <2> HIDE DEF cut
  <2> QED
    BY <2>1, <2>2 DEF Dataset
<1>6. CASE Cardinality(R) # 1
  <2> DEFINE own == {i \in DOMAIN s : s[i].ratio # g}
             cut == [i \in own |-> 10 * (s[i].ratio + next(s[i].ratio))]
  <2>1. own # {}
    <3>1. R # {g}
      BY <1>6, FS_Singleton
    <3>2. PICK x \in R : x # g
      BY <1>2, <3>1
    <3> HIDE DEF g
    <3> QED
      BY <1>1, <3>2
  <2>2. ASSUME NEW r \in R \ {g} PROVE r \in Nat /\ next(r) \in Nat /\ next(r) > r
    <3> DEFINE above == {q \in R : q > r}
    <3> HIDE DEF R, g
    <3>1. above \in SUBSET Nat /\ g \in above
      <4>1. R \in SUBSET Nat /\ g \in R /\ g >= r /\ g # r /\ r \in R
        BY <1>2
      <4>2. g \in Nat /\ r \in Nat
        BY <4>1, Zenon
      <4>3. g > r
        BY <4>1, <4>2
      <4> QED
        BY <4>1, <4>3, Zenon
    <3>2. Least(above) \in above
      BY <3>1, LeastIs
    <3> QED
      BY <1>2, <3>2
  <2>3. \A i \in own : s[i].ratio \in R \ {g}
    BY <1>3
  <2>4. Candidates(s) = {cut[i] : i \in own}
    <3>1. R \ {g} = {s[i].ratio : i \in own}
      <4> HIDE DEF g
      <4> QED
        BY <1>1
    <3>2. Candidates(s) = {10 * (r + next(r)) : r \in R \ {g}}
      BY <1>4, <1>6
    <3> HIDE DEF R, g, next
    <3> QED
      BY <3>1, <3>2
  <2>5. cut \in [own -> Nat]
    <3> HIDE DEF R, g, next, own
    <3>1. ASSUME NEW i \in own PROVE 10 * (s[i].ratio + next(s[i].ratio)) \in Nat
      <4>1. s[i].ratio \in Nat /\ next(s[i].ratio) \in Nat
        BY <2>2, <2>3
      <4> QED
        BY <4>1
    <3> QED
      BY <3>1
  <2>6. own \in SUBSET DOMAIN s
    OBVIOUS
  <2> HIDE DEF own, cut
  <2> QED
    BY <2>1, <2>4, <2>5, <2>6
<1> QED
  BY <1>5, <1>6

\* The threshold found is a candidate, and no other is more accurate (calibrate_pinch.py:68).
LEMMA BestIs ==
  ASSUME NEW s, Dataset(s)
  PROVE  /\ Best(s) \in Candidates(s) /\ Best(s) \in Nat
         /\ \A u \in Candidates(s) : Accuracy(s, Best(s)) >= Accuracy(s, u)
<1> DEFINE best == {t \in Candidates(s) : \A u \in Candidates(s) : Accuracy(s, t) >= Accuracy(s, u)}
<1>1. PICK own \in SUBSET DOMAIN s : \E cut \in [own -> Nat] :
        own # {} /\ Candidates(s) = {cut[i] : i \in own}
  BY CandidatesAre
<1>2. PICK cut \in [own -> Nat] :
        own # {} /\ Candidates(s) = {cut[i] : i \in own}
  BY <1>1
<1> DEFINE f == [i \in own |-> Accuracy(s, cut[i])]
<1>3. IsFiniteSet(own)
  BY FS_Subset DEF Dataset
<1>4. f \in [own -> Int] /\ \A i \in own : Accuracy(s, cut[i]) \in Int
  <2>1. \A i \in own : Accuracy(s, cut[i]) \in Nat
    BY AccuracyIs, Zenon
  <2> QED
    BY <2>1
<1>5. PICK i \in own : \A j \in own : f[j] <= f[i]
  <2> HIDE DEF f
  <2> QED
    BY <1>2, <1>3, <1>4, GreatestAt, Zenon
<1>6. \A j \in own : Accuracy(s, cut[i]) >= Accuracy(s, cut[j])
  BY <1>4, <1>5
<1>7. cut[i] \in best
  BY <1>2, <1>6
<1>8. best \in SUBSET Nat
  BY <1>2
<1> HIDE DEF best
<1>9. Least(best) \in best
  BY <1>7, <1>8, LeastIs
<1>10. Best(s) = Least(best)
  BY DEF Best, best
<1>11. Best(s) \in best
  BY <1>9, <1>10
<1>12. /\ Best(s) \in Candidates(s)
       /\ \A u \in Candidates(s) : Accuracy(s, Best(s)) >= Accuracy(s, u)
  BY <1>11, Zenon DEF best
<1>13. Best(s) \in Nat
  BY <1>2, <1>12
<1> QED
  BY <1>12, <1>13

\* The gap between the labels, if they can be separated (calibrate_pinch.py:71-78).
LEMMA MarginIs ==
  ASSUME NEW s, Dataset(s)
  PROVE  /\ Margin(s) \in Nat /\ Room(s) \in Nat
         /\ Margin(s) > 0 =>
              /\ Margin(s) = 20 * (Least(RatiosOf(s, {"release"})) - Greatest(RatiosOf(s, {"pinch"})))
              /\ RatiosOf(s, {"pinch"}) # {} /\ RatiosOf(s, {"release"}) # {}
              /\ Greatest(RatiosOf(s, {"pinch"})) < Least(RatiosOf(s, {"release"}))
<1> DEFINE P == RatiosOf(s, {"pinch"})
           R == RatiosOf(s, {"release"})
           gap == 20 * (Least(R) - Greatest(P))
<1>1. {"pinch"} \in SUBSET Labels /\ {"release"} \in SUBSET Labels
  BY DEF Labels
<1>2. R \in SUBSET Nat /\ P \in SUBSET Nat /\ (P # {} => Greatest(P) \in P)
  BY <1>1, RatiosAre, Zenon
<1>3. Margin(s) = IF P # {} /\ R # {} /\ gap > 0 THEN gap ELSE 0
  BY Zenon DEF Margin
<1> HIDE DEF P, R
<1>4. ASSUME P # {}, R # {} PROVE Least(R) \in Nat /\ Greatest(P) \in Nat
  <2>1. R \in SUBSET Nat
    BY <1>2
  <2>2. Least(R) \in R
    BY <1>4, <2>1, LeastIs
  <2> QED
    BY <1>2, <1>4, <2>1, <2>2
<1>5. Margin(s) \in Nat => Room(s) \in Nat
  <2>1. Best(s) \in Nat
    BY BestIs
  <2> DEFINE b == Best(s)
             m == Margin(s)
  <2>2. Room(s) = IF m > 0 THEN m ELSE b \div 10
    BY Zenon DEF Room
  <2>3. b \in Nat
    BY <2>1
  <2> HIDE DEF b, m
  <2>4. b \div 10 \in Nat
    BY <2>3
  <2>5. m \in Nat => Room(s) \in Nat
    BY <2>2, <2>4
  <2> QED
    BY <2>5 DEF m
<1>6. CASE P # {} /\ R # {} /\ gap > 0
  <2>1. Margin(s) = gap /\ gap \in Nat
    BY <1>3, <1>4, <1>6
  <2> QED
    BY <1>4, <1>6, <1>5, <2>1 DEF P, R
<1>7. CASE ~(P # {} /\ R # {} /\ gap > 0)
  <2>1. Margin(s) = 0
    BY <1>3, <1>7
  <2> QED
    BY <1>5, <2>1
<1> QED
  BY <1>6, <1>7

\* When the labels can be separated the middle of the gap is a candidate, and no other one
\* lies in the gap (calibrate_pinch.py:62-63).
LEMMA MiddleIs ==
  ASSUME NEW s, Dataset(s), Margin(s) > 0
  PROVE  \E p, r \in Nat :
           /\ p < r /\ Margin(s) = 20 * (r - p) /\ 10 * (p + r) \in Candidates(s)
           /\ \A i \in DOMAIN s : /\ s[i].label = "pinch" => s[i].ratio <= p
                                  /\ s[i].label = "release" => s[i].ratio >= r
           /\ \E i \in DOMAIN s : s[i].label = "pinch" /\ s[i].ratio = p
           /\ \E i \in DOMAIN s : s[i].label = "release" /\ s[i].ratio = r
           /\ \A t \in Candidates(s) : 20 * p < t /\ t <= 20 * r => t = 10 * (p + r)
<1> DEFINE P == RatiosOf(s, {"pinch"})
           R == RatiosOf(s, {"release"})
           seen == RatiosOf(s, Labels)
           p == Greatest(P)
           r == Least(R)
           g == Greatest(seen)
           above == {q \in seen : q > p}
           mid == 10 * (p + r)
<1>1. {"pinch"} \in SUBSET Labels /\ {"release"} \in SUBSET Labels /\ Labels = {"pinch", "release"}
  BY DEF Labels
<1>2. R \in SUBSET Nat /\ P \in SUBSET Nat /\ seen \in SUBSET Nat
  BY <1>1, RatiosAre
<1>3. P # {} /\ R # {} /\ p < r /\ Margin(s) = 20 * (r - p)
  BY MarginIs
<1>4. seen = P \cup R /\ seen # {}
  BY <1>1, <1>3 DEF RatiosOf
<1>5. p \in P /\ \A x \in P : p >= x
  BY <1>1, <1>3, RatiosAre, Zenon
<1>6. g \in seen /\ \A x \in seen : g >= x
  BY <1>1, <1>4, RatiosAre, Zenon
<1>7. r \in R /\ \A x \in R : r <= x
  BY <1>2, <1>3, LeastIs, Zenon
<1>8. /\ \A i \in DOMAIN s : s[i].label = "pinch" => s[i].ratio \in P
      /\ \A i \in DOMAIN s : s[i].label = "release" => s[i].ratio \in R
      /\ \A x \in P : \E i \in DOMAIN s : s[i].label = "pinch" /\ s[i].ratio = x
      /\ \A x \in R : \E i \in DOMAIN s : s[i].label = "release" /\ s[i].ratio = x
  BY DEF RatiosOf
<1>9. Candidates(s) = IF Cardinality(seen) = 1 THEN {20 * x : x \in seen}
                      ELSE {10 * (x + Least({q \in seen : q > x})) : x \in seen \ {g}}
  BY DEF Candidates
<1> HIDE DEF P, R, seen
<1>10. p \in Nat /\ r \in Nat /\ g \in Nat
  BY <1>2, <1>5, <1>6, <1>7
<1> HIDE DEF p, r, g
<1>11. p # g /\ p \in seen /\ r \in seen /\ p # r
  BY <1>3, <1>4, <1>5, <1>6, <1>7, <1>10
<1>12. Cardinality(seen) # 1
  <2>1. ASSUME Cardinality(seen) = 1 PROVE FALSE
    <3>1. IsFiniteSet(seen)
      <4>1. seen \in SUBSET (0 .. g)
        BY <1>2, <1>6, <1>10
      <4>2. IsFiniteSet(0 .. g)
        BY <1>10, FS_Interval
      <4> QED
        BY <4>1, <4>2, FS_Subset
    <3>2. \E x : seen = {x}
      BY <2>1, <3>1, FS_Singleton
    <3> QED
      BY <1>11, <3>2
  <2> QED
    BY <2>1
<1>13. Least(above) = r
  <2>1. r \in above /\ above \in SUBSET Nat
    BY <1>2, <1>3, <1>10, <1>11
  <2>2. Least(above) \in above /\ \A x \in above : Least(above) <= x
    BY <2>1, LeastIs
  <2>3. ASSUME NEW x \in above PROVE r <= x
    <3>1. x \in seen /\ x > p /\ x \in Nat
      BY <1>2
    <3>2. x \notin P
      BY <1>5, <1>10, <3>1
    <3> QED
      BY <1>4, <1>7, <3>1, <3>2
  <2>4. Least(above) <= r /\ r <= Least(above) /\ Least(above) \in Nat
    BY <2>1, <2>2, <2>3
  <2> HIDE DEF above
  <2> QED
    BY <1>10, <2>4
<1>14. mid \in Candidates(s)
  <2>1. mid = 10 * (p + Least({q \in seen : q > p}))
    BY <1>13
  <2>2. Candidates(s) = {10 * (x + Least({q \in seen : q > x})) : x \in seen \ {g}}
    BY <1>9, <1>12
  <2>3. p \in seen \ {g}
    BY <1>11
  <2> HIDE DEF mid
  <2> QED
    BY <2>1, <2>2, <2>3
<1>15. ASSUME NEW i \in DOMAIN s
       PROVE  /\ s[i].label = "pinch" => s[i].ratio <= p
              /\ s[i].label = "release" => s[i].ratio >= r
  <2>1. \A x \in P : x <= p
    BY <1>2, <1>5, <1>10
  <2>2. \A x \in R : x >= r
    BY <1>2, <1>7, <1>10
  <2> QED
    BY <1>8, <2>1, <2>2
<1>16. ASSUME NEW t \in Candidates(s), 20 * p < t, t <= 20 * r PROVE t = mid
  <2>1. PICK x \in seen \ {g} : t = 10 * (x + Least({q \in seen : q > x}))
    BY <1>9, <1>12
  <2> DEFINE over == {q \in seen : q > x}
             next == Least(over)
  <2>2. x \in Nat /\ x < g /\ g \in over /\ over \in SUBSET Nat
    <3>1. x \in Nat /\ x <= g /\ x # g /\ x \in seen
      BY <1>2, <1>6, <1>10
    <3>2. x < g
      BY <1>10, <3>1
    <3> QED
      BY <1>2, <1>6, <3>1, <3>2
  <2>3. next \in over /\ \A y \in over : next <= y
    BY <2>2, LeastIs
  <2>4. next \in Nat /\ next > x /\ next \in seen
    BY <2>2, <2>3
  <2>5. t = 10 * (x + next)
    BY <2>1
  <2>6. p \in seen
    BY <1>11
  <2> HIDE DEF next
  <2>7. ~(x < p)
    <3>1. ASSUME x < p PROVE FALSE
      <4>1. p \in over
        BY <2>6, <3>1
      <4>2. next <= p
        BY <2>3, <4>1
      <4> HIDE DEF over
      <4> QED
        BY <1>10, <1>16, <2>2, <2>4, <2>5, <3>1, <4>2
    <3> QED
      BY <3>1
  <2>8. ~(x > p)
    <3>1. ASSUME x > p PROVE FALSE
      <4>1. x \notin P
        BY <1>5, <1>10, <2>2, <3>1
      <4>2. x \in R
        BY <1>4, <4>1
      <4>3. r <= x
        BY <1>7, <4>2
      <4> HIDE DEF over
      <4> QED
        BY <1>10, <1>16, <2>2, <2>4, <2>5, <4>3
    <3> QED
      BY <3>1
  <2>9. x = p
    BY <1>10, <2>2, <2>7, <2>8
  <2> QED
    BY <1>13, <2>5, <2>9 DEF next
<1> QED
  BY <1>3, <1>5, <1>7, <1>8, <1>10, <1>14, <1>15, <1>16

\* And the threshold found is as good as the middle, so it separates them too.
LEMMA SeparatesAll ==
  ASSUME NEW s, Dataset(s), Margin(s) > 0
  PROVE  \A i \in DOMAIN s : 20 * s[i].ratio < Best(s) <=> s[i].label = "pinch"
<1> DEFINE on == Best(s)
           tp == Total(s, "pinch")
           tr == Total(s, "release")
           cp == Count(s, "pinch", TRUE, on)
           cr == Count(s, "release", FALSE, on)
<1>1. PICK mid \in Candidates(s) :
        \A i \in DOMAIN s : /\ s[i].label = "pinch" => (TRUE <=> 20 * s[i].ratio < mid)
                            /\ s[i].label = "release" => (FALSE <=> 20 * s[i].ratio < mid)
  <2>1. PICK p \in Nat, r \in Nat :
          /\ p < r /\ 10 * (p + r) \in Candidates(s)
          /\ \A i \in DOMAIN s : /\ s[i].label = "pinch" => s[i].ratio <= p
                                 /\ s[i].label = "release" => s[i].ratio >= r
    BY MiddleIs, Zenon
  <2>2. \A i \in DOMAIN s : s[i].ratio \in Nat
    BY CalibrationAssumption DEF Dataset
  <2>3. ASSUME NEW x \in Nat
        PROVE  /\ x <= p => 20 * x < 10 * (p + r)
               /\ x >= r => ~(20 * x < 10 * (p + r))
    BY <2>1
  <2> QED
    BY <2>1, <2>2, <2>3
<1>2. Accuracy(s, on) >= Accuracy(s, mid)
  BY BestIs
<1>3. Count(s, "pinch", TRUE, mid) = tp /\ Count(s, "release", FALSE, mid) = tr
  <2>1. /\ {i \in DOMAIN s : s[i].label = "pinch" /\ (TRUE <=> 20 * s[i].ratio < mid)}
             = {i \in DOMAIN s : s[i].label = "pinch"}
        /\ {i \in DOMAIN s : s[i].label = "release" /\ (FALSE <=> 20 * s[i].ratio < mid)}
             = {i \in DOMAIN s : s[i].label = "release"}
    BY <1>1
  <2> QED
    BY <2>1, Zenon DEF Count, Total
<1>4. /\ tp \in Nat /\ tr \in Nat /\ cp \in Nat /\ cr \in Nat /\ cp <= tp /\ cr <= tr
      /\ cp = tp => \A i \in DOMAIN s : s[i].label = "pinch" => (TRUE <=> 20 * s[i].ratio < on)
      /\ cr = tr => \A i \in DOMAIN s : s[i].label = "release" => (FALSE <=> 20 * s[i].ratio < on)
  BY CountsAre, Zenon
<1>5. tp # 0 /\ tr # 0
  <2>1. RatiosOf(s, {"pinch"}) # {} /\ RatiosOf(s, {"release"}) # {}
    BY MarginIs
  <2>2. /\ \E i \in DOMAIN s : s[i].label = "pinch"
        /\ \E i \in DOMAIN s : s[i].label = "release"
    BY <2>1 DEF RatiosOf
  <2> QED
    BY <2>2, CountsAre, Zenon
<1>6. Accuracy(s, on) = cp * tr + cr * tp /\ Accuracy(s, mid) = tp * tr + tr * tp
  <2>1. /\ Accuracy(s, on) = cp * (IF tr = 0 THEN 1 ELSE tr) + cr * (IF tp = 0 THEN 1 ELSE tp)
        /\ Accuracy(s, mid) = Count(s, "pinch", TRUE, mid) * (IF tr = 0 THEN 1 ELSE tr)
                              + Count(s, "release", FALSE, mid) * (IF tp = 0 THEN 1 ELSE tp)
    BY AccuracyIs, Zenon
  <2> QED
    BY <1>3, <1>5, <2>1, Zenon
<1>7. \A i \in DOMAIN s : s[i].label = "pinch" \/ s[i].label = "release"
  BY DEF Dataset, Labels
<1>8. "pinch" # "release"
  OBVIOUS
<1>9. cp = tp /\ cr = tr
  <2> HIDE DEF cp, cr, tp, tr
  <2>1. cp * tr + cr * tp >= tp * tr + tr * tp
    BY <1>2, <1>6
  <2>2. cp * tr <= tp * tr /\ cr * tp <= tr * tp
    <3>1. 0 <= (tp - cp) * tr /\ (tp - cp) * tr = tp * tr - cp * tr
      BY <1>4
    <3>2. 0 <= (tr - cr) * tp /\ (tr - cr) * tp = tr * tp - cr * tp
      BY <1>4
    <3>3. cp * tr \in Int /\ tp * tr \in Int /\ cr * tp \in Int /\ tr * tp \in Int
      BY <1>4
    <3> QED
      BY <3>1, <3>2, <3>3
  <2>3. cp * tr = tp * tr /\ cr * tp = tr * tp
    <3>1. cp * tr \in Int /\ tp * tr \in Int /\ cr * tp \in Int /\ tr * tp \in Int
      BY <1>4
    <3> QED
      BY <2>1, <2>2, <3>1
  <2>4. ASSUME NEW x \in Nat, NEW y \in Nat, NEW z \in Nat, z # 0, x * z = y * z PROVE x = y
    BY <2>4
  <2> QED
    BY <1>4, <1>5, <2>3, <2>4
<1> QED
  BY <1>4, <1>7, <1>8, <1>9, Zenon

\* It is the middle of the gap itself, so no sample is closer to it than half the gap.
LEMMA BestInMiddle ==
  ASSUME NEW s, Dataset(s), Margin(s) > 0
  PROVE  \A i \in DOMAIN s :
           /\ s[i].label = "pinch" => 2 * (Best(s) - 20 * s[i].ratio) >= Margin(s)
           /\ s[i].label = "release" => 2 * (20 * s[i].ratio - Best(s)) >= Margin(s)
<1>1. PICK p \in Nat, r \in Nat :
        /\ p < r /\ Margin(s) = 20 * (r - p) /\ 10 * (p + r) \in Candidates(s)
        /\ \A i \in DOMAIN s : /\ s[i].label = "pinch" => s[i].ratio <= p
                               /\ s[i].label = "release" => s[i].ratio >= r
        /\ \E i \in DOMAIN s : s[i].label = "pinch" /\ s[i].ratio = p
        /\ \E i \in DOMAIN s : s[i].label = "release" /\ s[i].ratio = r
        /\ \A t \in Candidates(s) : 20 * p < t /\ t <= 20 * r => t = 10 * (p + r)
  BY MiddleIs, Zenon
<1>2. Best(s) \in Candidates(s) /\ Best(s) \in Nat
  BY BestIs
<1>3. 20 * p < Best(s) /\ Best(s) <= 20 * r
  <2>1. PICK i \in DOMAIN s : s[i].label = "pinch" /\ s[i].ratio = p
    BY <1>1
  <2>2. PICK j \in DOMAIN s : s[j].label = "release" /\ s[j].ratio = r
    BY <1>1
  <2>3. 20 * s[i].ratio < Best(s) /\ ~(20 * s[j].ratio < Best(s))
    BY <2>1, <2>2, SeparatesAll
  <2> DEFINE b == Best(s)
  <2>4. b \in Nat /\ 20 * p < b /\ ~(20 * r < b)
    BY <1>2, <2>1, <2>2, <2>3
  <2> HIDE DEF b
  <2>5. 20 * p < b /\ b <= 20 * r
    BY <2>4
  <2> QED
    BY <2>5 DEF b
<1>4. Best(s) = 10 * (p + r)
  BY <1>1, <1>2, <1>3
<1>5. ASSUME NEW x \in Nat
      PROVE  /\ x <= p => 2 * (10 * (p + r) - 20 * x) >= 20 * (r - p)
             /\ x >= r => 2 * (20 * x - 10 * (p + r)) >= 20 * (r - p)
  BY <1>1
<1>6. \A i \in DOMAIN s : s[i].ratio \in Nat
  BY CalibrationAssumption DEF Dataset
<1> QED
  BY <1>1, <1>4, <1>5, <1>6

\* Numbers and their opposites, twice as many.
LEMMA Mirrored ==
  ASSUME NEW A \in SUBSET (Nat \ {0}), IsFiniteSet(A)
  PROVE  /\ IsFiniteSet({-i : i \in A}) /\ IsFiniteSet(A \cup {-i : i \in A})
         /\ Cardinality(A \cup {-i : i \in A}) = 2 * Cardinality(A)
<1> DEFINE B == {-i : i \in A}
           f == [i \in A |-> -i]
<1>1. f \in [A -> B] /\ \A a, b \in A : f[a] = f[b] => a = b
  OBVIOUS
<1>2. \A t \in B : \E i \in A : f[i] = t
  OBVIOUS
<1>3. f \in Bijection(A, B)
  <2> HIDE DEF f, B
  <2> QED
    BY <1>1, <1>2, Fun_IsBij, Zenon
<1>4. ExistsBijection(A, B)
  <2> HIDE DEF f, B
  <2> QED
    BY <1>3, Fun_ExistsBij, Zenon
<1>5. IsFiniteSet(B) /\ Cardinality(B) = Cardinality(A)
  <2> HIDE DEF B
  <2> QED
    BY <1>4, FS_Bijection, Zenon
<1>6. A \cap B = {}
  OBVIOUS
<1> HIDE DEF B
<1>7. IsFiniteSet(A \cup B) /\ Cardinality(A \cup B) = Cardinality(A) + Cardinality(B) - Cardinality(A \cap B)
  BY <1>5, FS_Union
<1>8. Cardinality(A) \in Nat /\ Cardinality(A \cap B) = 0
  BY <1>6, FS_CardinalityType, FS_EmptySet
<1>9. Cardinality(A \cup B) = 2 * Cardinality(A)
  BY <1>5, <1>7, <1>8
<1> QED
  BY <1>5, <1>7, <1>9 DEF B

\* Samples recorded, and the same with every sample of an open hand once more.
Again == {-i : i \in {j \in DOMAIN samples : samples[j].label = "release"}}
Twice == [i \in DOMAIN samples \cup Again |-> IF i < 0 THEN samples[-i] ELSE samples[i]]

LEMMA TwiceIs ==
  ASSUME SamplesTypeOK, samples # <<>>
  PROVE  /\ Dataset(samples) /\ Dataset(Twice) /\ DOMAIN samples \in SUBSET (Nat \ {0})
         /\ DOMAIN Twice = DOMAIN samples \cup Again
         /\ \A i \in DOMAIN samples : Twice[i] = samples[i]
         /\ \A i \in DOMAIN samples : -i \in Again => Twice[-i] = samples[i] /\ samples[i].label = "release"
         /\ \A i \in DOMAIN samples : samples[i].label = "release" => -i \in Again
         /\ \A x \in Again : \E i \in DOMAIN samples : x = -i /\ samples[i].label = "release"
<1> DEFINE D == DOMAIN samples
           A == {j \in D : samples[j].label = "release"}
           R == [ratio : Ratios, label : Labels]
           n == Len(samples)
<1>1. samples \in Seq(R)
  BY DEF SamplesTypeOK
<1>2. n \in Nat /\ D = 1 .. n /\ samples \in [D -> R] /\ n # 0
  <2> HIDE DEF R
  <2> QED
    BY <1>1, LenProperties, EmptySeq
<1>3. D \in SUBSET (Nat \ {0}) /\ IsFiniteSet(D) /\ D # {}
  <2> HIDE DEF D, n
  <2>1. D \in SUBSET (Nat \ {0}) /\ D # {}
    <3>1. n \in Nat /\ n # 0
      BY <1>2, Zenon
    <3>2. 1 .. n \in SUBSET (Nat \ {0}) /\ 1 \in 1 .. n
      BY <3>1
    <3> QED
      BY <1>2, <3>2, Zenon
  <2>2. IsFiniteSet(1 .. n)
    BY <1>2, FS_Interval
  <2> QED
    BY <1>2, <2>1, <2>2
<1>4. A \in SUBSET D /\ A \in SUBSET (Nat \ {0}) /\ IsFiniteSet(A)
  BY <1>3, FS_Subset
<1>5. Again = {-i : i \in A}
  BY DEF Again
<1>6. IsFiniteSet(D \cup Again)
  <2> HIDE DEF A
  <2>1. IsFiniteSet(Again)
    BY <1>4, <1>5, Mirrored
  <2> HIDE DEF D
  <2> QED
    BY <1>3, <2>1, FS_Union
<1>7. DOMAIN Twice = D \cup Again
  BY DEF Twice
<1>8. \A i \in D : Twice[i] = samples[i]
  <2> TAKE i \in D
  <2>1. ~(i < 0)
    BY <1>3
  <2> QED
    BY <2>1 DEF Twice
<1>9. \A i \in A : -i \in Again /\ Twice[-i] = samples[i]
  <2> TAKE i \in A
  <2>1. -i \in Again /\ -i < 0 /\ -(-i) = i
    BY <1>4, <1>5
  <2> QED
    BY <2>1 DEF Twice
<1>10. \A i \in D : -i \in Again => i \in A
  <2> SUFFICES ASSUME NEW i \in D, -i \in Again PROVE i \in A
    OBVIOUS
  <2>1. PICK j \in A : -i = -j
    BY <1>5
  <2>2. i = j
    BY <1>3, <1>4, <2>1
  <2> QED
    BY <2>1, <2>2
<1>11. Twice \in [D \cup Again -> R]
  <2>1. \A i \in D \cup Again : Twice[i] \in R
    <3>1. \A i \in D : samples[i] \in R
      BY <1>2
    <3> QED
      BY <1>4, <1>5, <1>8, <1>9, <3>1
  <2>2. Twice = [i \in D \cup Again |-> Twice[i]]
    BY <1>7 DEF Twice
  <2> HIDE DEF R, D
  <2> QED
    BY <2>1, <2>2
<1>12. Dataset(samples)
  BY <1>2, <1>3, Zenon DEF Dataset
<1>13. Dataset(Twice)
  <2>1. D \cup Again # {}
    BY <1>3
  <2> QED
    BY <1>6, <1>7, <1>11, <2>1, Zenon DEF Dataset
<1>14. \A x \in Again : \E i \in D : x = -i /\ samples[i].label = "release"
  BY <1>5
<1> QED
  BY <1>3, <1>7, <1>8, <1>9, <1>10, <1>12, <1>13, <1>14

\* How often a label is counted among them.
LEMMA CountsTwice ==
  ASSUME SamplesTypeOK, samples # <<>>, NEW below, NEW thr
  PROVE  /\ Count(Twice, "pinch", below, thr) = Count(samples, "pinch", below, thr)
         /\ Total(Twice, "pinch") = Total(samples, "pinch")
         /\ Count(Twice, "release", below, thr) = 2 * Count(samples, "release", below, thr)
         /\ Total(Twice, "release") = 2 * Total(samples, "release")
<1> DEFINE D == DOMAIN samples
           In(s, label) == {i \in DOMAIN s : s[i].label = label}
           Side(s, label) == {i \in DOMAIN s : s[i].label = label /\ (below <=> 20 * s[i].ratio < thr)}
<1>1. /\ Dataset(samples) /\ D \in SUBSET (Nat \ {0})
      /\ DOMAIN Twice = D \cup Again
      /\ \A i \in D : Twice[i] = samples[i]
      /\ \A i \in D : -i \in Again => Twice[-i] = samples[i] /\ samples[i].label = "release"
      /\ \A i \in D : samples[i].label = "release" => -i \in Again
      /\ \A x \in Again : \E i \in D : x = -i /\ samples[i].label = "release"
  BY TwiceIs
<1>2. /\ \A s, label : Count(s, label, below, thr) = Cardinality(Side(s, label))
      /\ \A s, label : Total(s, label) = Cardinality(In(s, label))
  BY Zenon DEF Count, Total
<1>3. \A x \in Again : x \in DOMAIN Twice /\ Twice[x].label = "release"
  BY <1>1
<1>4. In(Twice, "pinch") = In(samples, "pinch") /\ Side(Twice, "pinch") = Side(samples, "pinch")
  BY <1>1, <1>3
<1>5. ASSUME NEW S, NEW T, S \in SUBSET D, \A i \in S : samples[i].label = "release",
             T \in SUBSET DOMAIN Twice, \A i \in T : Twice[i].label = "release",
             \A i \in D : i \in T <=> i \in S,
             \A i \in D : -i \in Again => (-i \in T <=> i \in S)
      PROVE  Cardinality(T) = 2 * Cardinality(S)
  <2>1. T = S \cup {-i : i \in S}
    <3>1. ASSUME NEW x \in T PROVE x \in S \cup {-i : i \in S}
      <4>1. CASE x \in D
        BY <1>5, <4>1
      <4>2. CASE x \in Again
        <5>1. PICK i \in D : x = -i
          BY <1>1, <4>2
        <5> QED
          BY <1>5, <4>2, <5>1
      <4> QED
        BY <1>1, <1>5, <4>1, <4>2
    <3>2. ASSUME NEW i \in S PROVE i \in T /\ -i \in T
      BY <1>1, <1>5
    <3> QED
      BY <3>1, <3>2
  <2>2. S \in SUBSET (Nat \ {0}) /\ IsFiniteSet(S)
    <3>1. IsFiniteSet(D)
      BY <1>1 DEF Dataset
    <3> QED
      BY <1>1, <1>5, <3>1, FS_Subset
  <2> QED
    BY <2>1, <2>2, Mirrored
<1>6. Cardinality(In(Twice, "release")) = 2 * Cardinality(In(samples, "release"))
  <2> DEFINE S == In(samples, "release")
             T == In(Twice, "release")
  <2>1. /\ S \in SUBSET D /\ (\A i \in S : samples[i].label = "release")
        /\ T \in SUBSET DOMAIN Twice /\ (\A i \in T : Twice[i].label = "release")
    OBVIOUS
  <2>2. /\ \A i \in D : i \in T <=> i \in S
        /\ \A i \in D : -i \in Again => (-i \in T <=> i \in S)
    BY <1>1
  <2> HIDE DEF S, T, D
  <2>3. Cardinality(T) = 2 * Cardinality(S)
    BY <1>5, <2>1, <2>2, Zenon
  <2> QED
    BY <2>3 DEF S, T
<1>7. Cardinality(Side(Twice, "release")) = 2 * Cardinality(Side(samples, "release"))
  <2> DEFINE S == Side(samples, "release")
             T == Side(Twice, "release")
  <2>1. /\ S \in SUBSET D /\ (\A i \in S : samples[i].label = "release")
        /\ T \in SUBSET DOMAIN Twice /\ (\A i \in T : Twice[i].label = "release")
    OBVIOUS
  <2>2. /\ \A i \in D : i \in T <=> i \in S
        /\ \A i \in D : -i \in Again => (-i \in T <=> i \in S)
    BY <1>1
  <2> HIDE DEF S, T, D
  <2>3. Cardinality(T) = 2 * Cardinality(S)
    BY <1>5, <2>1, <2>2, Zenon
  <2> QED
    BY <2>3 DEF S, T
<1> HIDE DEF In, Side
<1> QED
  BY <1>2, <1>4, <1>6, <1>7

\* So no threshold gains or loses against another (calibrate_pinch.py:39-52, 60-68).
LEMMA BestTwice ==
  ASSUME SamplesTypeOK, samples # <<>>
  PROVE  Best(Twice) = Best(samples) /\ Room(Twice) = Room(samples)
<1>1. Dataset(samples) /\ Dataset(Twice)
  BY TwiceIs
<1>2. ASSUME NEW labels PROVE RatiosOf(Twice, labels) = RatiosOf(samples, labels)
  <2>1. ASSUME NEW i \in DOMAIN Twice PROVE \E j \in DOMAIN samples : Twice[i] = samples[j]
    BY TwiceIs
  <2>2. ASSUME NEW j \in DOMAIN samples PROVE j \in DOMAIN Twice /\ Twice[j] = samples[j]
    BY TwiceIs
  <2> QED
    BY <2>1, <2>2 DEF RatiosOf
<1>3. Candidates(Twice) = Candidates(samples)
  <2>1. RatiosOf(Twice, Labels) = RatiosOf(samples, Labels)
    BY <1>2, Zenon
  <2> QED
    BY <2>1, Zenon DEF Candidates
<1>4. ASSUME NEW t, NEW u
      PROVE  Accuracy(Twice, t) >= Accuracy(Twice, u) <=> Accuracy(samples, t) >= Accuracy(samples, u)
  <2> DEFINE tp == Total(samples, "pinch")
             tr == Total(samples, "release")
             P == IF tp = 0 THEN 1 ELSE tp
             R == IF tr = 0 THEN 1 ELSE tr
             R2 == IF 2 * tr = 0 THEN 1 ELSE 2 * tr
  <2>1. tp \in Nat /\ tr \in Nat
    BY <1>1, CountsAre
  <2>2. ASSUME NEW v
        PROVE  \E x, y \in Nat :
                 /\ Accuracy(samples, v) = x * R + y * P
                 /\ Accuracy(Twice, v) = x * R2 + (2 * y) * P
                 /\ y <= tr
    <3> DEFINE x == Count(samples, "pinch", TRUE, v)
               y == Count(samples, "release", FALSE, v)
    <3>1. x \in Nat /\ y \in Nat /\ y <= tr
      BY <1>1, CountsAre
    <3>2. Accuracy(samples, v) = x * R + y * P
      BY <1>1, AccuracyIs, Zenon
    <3>3. /\ Count(Twice, "pinch", TRUE, v) = x /\ Count(Twice, "release", FALSE, v) = 2 * y
          /\ Total(Twice, "pinch") = tp /\ Total(Twice, "release") = 2 * tr
      BY CountsTwice, Zenon
    <3>4. Accuracy(Twice, v) = Count(Twice, "pinch", TRUE, v)
                                 * (IF Total(Twice, "release") = 0 THEN 1 ELSE Total(Twice, "release"))
                               + Count(Twice, "release", FALSE, v)
                                 * (IF Total(Twice, "pinch") = 0 THEN 1 ELSE Total(Twice, "pinch"))
      BY <1>1, AccuracyIs, Zenon
    <3>5. Accuracy(Twice, v) = x * R2 + (2 * y) * P
      BY <3>3, <3>4, Zenon
    <3> HIDE DEF x, y, P, R, R2
    <3> QED
      BY <3>1, <3>2, <3>5, Zenon
  <2>3. PICK x \in Nat, y \in Nat :
          /\ Accuracy(samples, t) = x * R + y * P /\ Accuracy(Twice, t) = x * R2 + (2 * y) * P
          /\ y <= tr
    BY <2>2, Zenon
  <2>4. PICK a \in Nat, b \in Nat :
          /\ Accuracy(samples, u) = a * R + b * P /\ Accuracy(Twice, u) = a * R2 + (2 * b) * P
          /\ b <= tr
    BY <2>2, Zenon
  <2>5. P \in Nat /\ R \in Nat
    BY <2>1
  <2>6. CASE tr = 0
    <3>1. R = 1 /\ R2 = 1 /\ y = 0 /\ b = 0
      BY <2>3, <2>4, <2>6
    <3> HIDE DEF P, R, R2
    <3>2. Accuracy(samples, t) = x /\ Accuracy(Twice, t) = x
      BY <2>3, <2>5, <3>1
    <3>3. Accuracy(samples, u) = a /\ Accuracy(Twice, u) = a
      BY <2>4, <2>5, <3>1
    <3> QED
      BY <3>2, <3>3
  <2>7. CASE tr # 0
    <3>1. R = tr /\ R2 = 2 * R
      BY <2>1, <2>7
    <3> HIDE DEF P, R, R2
    <3>2. ASSUME NEW v \in Nat, NEW k \in Nat PROVE v * (2 * R) + (2 * k) * P = 2 * (v * R + k * P) /\ v * R + k * P \in Nat
      BY <2>5
    <3>3. Accuracy(Twice, t) = 2 * Accuracy(samples, t) /\ Accuracy(samples, t) \in Nat
      BY <2>3, <3>1, <3>2
    <3>4. Accuracy(Twice, u) = 2 * Accuracy(samples, u) /\ Accuracy(samples, u) \in Nat
      BY <2>4, <3>1, <3>2
    <3> QED
      BY <3>3, <3>4
  <2> QED
    BY <2>6, <2>7
<1>5. {t \in Candidates(Twice) : \A u \in Candidates(Twice) : Accuracy(Twice, t) >= Accuracy(Twice, u)}
      = {t \in Candidates(samples) : \A u \in Candidates(samples) : Accuracy(samples, t) >= Accuracy(samples, u)}
  BY <1>3, <1>4
<1>6. Best(Twice) = Best(samples)
  BY <1>5, Zenon DEF Best
<1>7. Margin(Twice) = Margin(samples)
  <2>1. /\ RatiosOf(Twice, {"pinch"}) = RatiosOf(samples, {"pinch"})
        /\ RatiosOf(Twice, {"release"}) = RatiosOf(samples, {"release"})
    BY <1>2, Zenon
  <2> QED
    BY <2>1, Zenon DEF Margin
<1> QED
  BY <1>6, <1>7, Zenon DEF Room

\* Rounding moves a threshold by half a step at most, and keeps the order of two
\* (calibrate_pinch.py:83-84).
LEMMA RoundedIs ==
  ASSUME NEW t \in Nat
  PROVE  /\ \E k \in Int : Rounded(t) = k * Step
         /\ Rounded(t) \in Int /\ 2 * Rounded(t) <= 2 * t + Step /\ 2 * t <= 2 * Rounded(t) + Step
<1> DEFINE S == Step
           q == t \div S
           over == t % S
<1>1. S \in Nat \ {0}
  BY CalibrationAssumption
<1>2. q \in Int /\ over \in 0 .. S - 1 /\ t = q * S + over
  BY <1>1
<1>3. /\ Rounded(t) \in {q * S, (q + 1) * S}
      /\ Rounded(t) = q * S => 2 * over <= S
      /\ Rounded(t) # q * S => 2 * over >= S
  <2>1. Rounded(t) = IF 2 * over < S \/ (2 * over = S /\ q % 2 = 0) THEN q * S ELSE (q + 1) * S
    BY Zenon DEF Rounded
  <2>2. (q + 1) * S = q * S + S /\ q * S \in Int
    BY <1>1, <1>2
  <2> HIDE DEF S, q, over
  <2> QED
    BY <1>1, <1>2, <2>1, <2>2
<1>4. (q + 1) * S = q * S + S /\ q * S \in Int /\ q + 1 \in Int
  BY <1>1, <1>2
<1> HIDE DEF q, over
<1>5. \E k \in Int : Rounded(t) = k * S
  BY <1>2, <1>3, <1>4
<1>6. /\ Rounded(t) \in Int /\ 2 * Rounded(t) <= 2 * t + S /\ 2 * t <= 2 * Rounded(t) + S
  <2> DEFINE a == q * S
             R == Rounded(t)
  <2>1. /\ a \in Int /\ t = a + over /\ R \in {a, a + S}
        /\ R = a => 2 * over <= S
        /\ R # a => 2 * over >= S
    BY <1>2, <1>3, <1>4
  <2> HIDE DEF a, R, S
  <2>2. R \in Int /\ 2 * R <= 2 * t + S /\ 2 * t <= 2 * R + S
    BY <1>1, <1>2, <2>1
  <2> QED
    BY <2>2 DEF R
<1> QED
  BY <1>5, <1>6 DEF S

LEMMA RoundedInOrder ==
  ASSUME NEW t \in Nat, NEW u \in Nat, t <= u
  PROVE  Rounded(t) <= Rounded(u)
<1>1. Step \in Nat \ {0}
  BY CalibrationAssumption
<1>2. PICK k \in Int : Rounded(t) = k * Step
  BY RoundedIs
<1>3. PICK m \in Int : Rounded(u) = m * Step
  BY RoundedIs
<1>4. /\ Rounded(t) \in Int /\ 2 * Rounded(t) <= 2 * t + Step
      /\ Rounded(u) \in Int /\ 2 * u <= 2 * Rounded(u) + Step
  BY RoundedIs
<1>5. ASSUME Rounded(u) < Rounded(t) PROVE FALSE
  <2>1. m < k
    <3>1. ASSUME k <= m PROVE FALSE
      <4>1. m - k \in Nat /\ (m - k) * Step \in Nat /\ (m - k) * Step = m * Step - k * Step
        BY <1>1, <3>1
      <4> QED
        BY <1>1, <1>2, <1>3, <1>5, <4>1
    <3> QED
      BY <3>1
  <2>2. (k - m - 1) * Step \in Nat /\ (k - m - 1) * Step = k * Step - m * Step - Step
    BY <1>1, <2>1
  <2> DEFINE a == Rounded(t)
             b == Rounded(u)
  <2>3. a >= b + Step
    BY <1>1, <1>2, <1>3, <2>2
  <2>4. t # u
    BY <1>4, <1>5
  <2> HIDE DEF a, b
  <2>5. a \in Int /\ b \in Int /\ 2 * a <= 2 * t + Step /\ 2 * u <= 2 * b + Step
    BY <1>4 DEF a, b
  <2> QED
    BY <1>1, <2>3, <2>4, <2>5
<1> QED
  BY <1>4, <1>5

\* The thresholds in order, and apart when the room is wider than what rounding moves
\* (calibrate_pinch.py:79-84).
LEMMA RoomIsLeft ==
  ASSUME NEW s, Dataset(s)
  PROVE  /\ On(s) \in Int /\ Off(s) \in Int /\ Off(s) >= On(s) /\ (Room(s) > Step => Off(s) > On(s))
         /\ 2 * On(s) <= 2 * Best(s) + Step /\ 2 * Best(s) <= 2 * On(s) + Step
<1>1. Best(s) \in Nat /\ Room(s) \in Nat /\ Step \in Nat
  BY BestIs, MarginIs, CalibrationAssumption
<1> DEFINE b == Best(s)
           m == Room(s)
<1>2. On(s) = Rounded(b) /\ Off(s) = Rounded(b + m)
  BY DEF On, Off
<1>3. b \in Nat /\ b + m \in Nat /\ b <= b + m /\ m \in Nat
  BY <1>1
<1> HIDE DEF b, m
<1>4. Rounded(b) <= Rounded(b + m)
  BY <1>3, RoundedInOrder
<1>5. /\ Rounded(b) \in Int /\ 2 * Rounded(b) <= 2 * b + Step /\ 2 * b <= 2 * Rounded(b) + Step
      /\ Rounded(b + m) \in Int /\ 2 * (b + m) <= 2 * Rounded(b + m) + Step
  BY <1>3, RoundedIs
<1>6. m > Step => Rounded(b + m) > Rounded(b)
  BY <1>1, <1>3, <1>5
<1> QED
  BY <1>2, <1>4, <1>5, <1>6 DEF b, m

\* With a gap wider than what rounding moves the engine takes every sample as labelled.
LEMMA TakenAsLabelled ==
  ASSUME SamplesTypeOK, samples # <<>>, Margin(samples) > Step, NEW i \in DOMAIN samples
  PROVE  /\ Taken(i, FALSE) <=> samples[i].label = "pinch"
         /\ samples[i].label = "pinch" => Taken(i, TRUE)
<1> DEFINE on == On(samples)
           off == Off(samples)
           best == Best(samples)
           m == Margin(samples)
           x == 20 * samples[i].ratio
<1>1. Dataset(samples)
  BY TwiceIs
<1>2. samples[i].ratio \in Nat /\ samples[i].label \in {"pinch", "release"}
  BY <1>1, CalibrationAssumption DEF Dataset, Labels
<1>3. Step \in Nat /\ best \in Nat /\ m \in Nat
  BY <1>1, BestIs, MarginIs, CalibrationAssumption
<1>4. /\ on \in Int /\ off \in Int /\ off >= on
      /\ 2 * on <= 2 * best + Step /\ 2 * best <= 2 * on + Step
  BY <1>1, RoomIsLeft
<1>5. m > 0
  BY <1>3
<1>6. /\ samples[i].label = "pinch" => 2 * (best - x) >= m
      /\ samples[i].label = "release" => 2 * (x - best) >= m
  BY <1>1, <1>5, BestInMiddle
<1>7. Taken(i, FALSE) <=> x < on
  BY Zenon DEF Taken, Contact!Pinched
<1>8. Taken(i, TRUE) <=> x <= off
  BY Zenon DEF Taken, Contact!Pinched
<1>9. x \in Nat /\ m > Step
  BY <1>2
<1> HIDE DEF on, off, best, m, x
<1>10. CASE samples[i].label = "pinch"
  <2>1. x < on /\ x <= off
    BY <1>3, <1>4, <1>6, <1>9, <1>10
  <2> QED
    BY <1>7, <1>8, <1>10, <2>1
<1>11. CASE samples[i].label = "release"
  <2>1. ~(x < on)
    BY <1>3, <1>4, <1>6, <1>9, <1>11
  <2> QED
    BY <1>7, <1>11, <2>1
<1> QED
  BY <1>2, <1>10, <1>11

\* For every set of ratios, 0 among them, every step of rounding and any number of samples
\* the thresholds are usable: never in the wrong order, and with room between them when
\* there is more of it than rounding moves; samples further apart than that are taken as
\* labelled; and it does not matter how often a label was recorded
\* (calibrate_pinch.py:39-84, contact_fusion.hpp:16-17).
THEOREM ThresholdsAreUsable == SamplesSpec => []UsableThresholds
<1>1. SamplesTypeOK => UsableThresholds
  <2> SUFFICES ASSUME SamplesTypeOK, samples # <<>>
               PROVE  /\ Off(samples) >= On(samples)
                      /\ Room(samples) > Step => Off(samples) > On(samples)
                      /\ Margin(samples) > Step =>
                           \A i \in DOMAIN samples :
                             /\ Taken(i, FALSE) <=> samples[i].label = "pinch"
                             /\ samples[i].label = "pinch" => Taken(i, TRUE)
                      /\ On(Twice) = On(samples) /\ Off(Twice) = Off(samples)
    BY Zenon DEF UsableThresholds, Twice, Again
  <2>1. Dataset(samples)
    BY TwiceIs
  <2>2. Off(samples) >= On(samples) /\ (Room(samples) > Step => Off(samples) > On(samples))
    BY <2>1, RoomIsLeft
  <2>3. On(Twice) = On(samples) /\ Off(Twice) = Off(samples)
    BY BestTwice, Zenon DEF On, Off
  <2> QED
    BY <2>2, <2>3, TakenAsLabelled
<1> QED
  BY <1>1, DatasetTypeCorrect, PTL

-----------------------------------------------------------------------------
(* The parts together *)

\* A behaviour of the parts is a behaviour of each of them.
LEMMA EachPartRuns ==
  PartsSpec => /\ GateSpec /\ ShadowSpec /\ ProbeSpec /\ HashSpec
               /\ LinkSpec /\ WireSpec /\ LoadSpec /\ SamplesSpec /\ SuperSpec
<1>1. PartsInit => /\ GateInit /\ ShadowInit /\ ProbeInit /\ HashInit
                   /\ LinkInit /\ WireInit /\ LoadInit /\ SamplesInit /\ SuperInit
  BY Zenon DEF PartsInit
<1>2. [PartsNext]_partsVars => [GateNext]_gateVars
  BY Zenon DEF PartsNext, partsVars, helpers, bus, rest
<1>3. [PartsNext]_partsVars => [ShadowNext]_shadowVars
  BY Zenon DEF PartsNext, partsVars, helpers, bus, rest
<1>4. [PartsNext]_partsVars => [ProbeNext]_probeVars
  BY Zenon DEF PartsNext, partsVars, helpers, bus, rest
<1>5. [PartsNext]_partsVars => [HashNext]_hashVars
  BY Zenon DEF PartsNext, partsVars, helpers, bus, rest
<1>6. [PartsNext]_partsVars => [LinkNext]_linkVars
  BY Zenon DEF PartsNext, partsVars, helpers, bus, rest
<1>7. [PartsNext]_partsVars => [WireNext]_wireVars
  BY Zenon DEF PartsNext, partsVars, helpers, bus, rest
<1>8. [PartsNext]_partsVars => [LoadNext]_loadVars
  BY Zenon DEF PartsNext, partsVars, helpers, bus, rest
<1>9. [PartsNext]_partsVars => [SamplesNext]_samples
  BY Zenon DEF PartsNext, partsVars, helpers, bus, rest
<1>10. [PartsNext]_partsVars => [SuperNext]_superVars
  BY Zenon DEF PartsNext, partsVars, helpers, bus, rest
<1> QED
  BY <1>1, <1>2, <1>3, <1>4, <1>5, <1>6, <1>7, <1>8, <1>9, <1>10, PTL
  DEF PartsSpec, GateSpec, ShadowSpec, ProbeSpec, HashSpec, LinkSpec, WireSpec, LoadSpec,
      SamplesSpec, SuperSpec

\* For every value of the constants every part keeps its types, whichever of them runs.
THEOREM PartsTypeCorrect == PartsSpec => []PartsTypeOK
<1>1. /\ GateTypeOK /\ ShadowTypeOK /\ ProbeTypeOK /\ HashTypeOK
      /\ LinkTypeOK /\ WireTypeOK /\ LoadTypeOK /\ SamplesTypeOK /\ SuperTypeOK
      => PartsTypeOK
  BY DEF PartsTypeOK
<1> QED
  BY <1>1, EachPartRuns, DetectionIsInTime, LatchIsHysteresis, ReportsAreOnTime, HashIsOwn,
     LinkTypeCorrect, FramesAreTakenWhole, CalibrationIsSafe, DatasetTypeCorrect, WaitsAreEarned, PTL
================================================================================
