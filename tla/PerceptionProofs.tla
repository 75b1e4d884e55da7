--------------------------- MODULE PerceptionProofs ---------------------------
(***************************************************************************)
(* Theorems about the helpers of perception, each for every value of its   *)
(* constants: the tracking gate, the shadow channel, the latency probe and *)
(* the integrity check.                                                    *)
(***************************************************************************)
EXTENDS TrackingGate, ShadowContact, PerfProbe, HefIntegrity,
        FiniteSetTheorems, FunctionTheorems, SequenceTheorems, WellFoundedInduction, TLAPS

(* Arithmetic *)

\* Of the numbers in a set that is not empty one is the least.
LEMMA LeastOf ==
  ASSUME NEW T \in SUBSET Nat, T # {}
  PROVE  \E n \in T : \A m \in T : n <= m
<1> DEFINE R == {ss \in Nat \X Nat : ss[1] < ss[2]}
<1>1. IsWellFoundedOn(R, Nat)
  BY NatLessThanWellFounded, Zenon DEF OpToRel
<1>2. PICK n \in T : \A m \in T : <<m, n>> \notin R
  <2> HIDE DEF R
  <2> QED
    BY <1>1, WFMin, Zenon
<1>3. \A m \in T : ~(m < n)
  BY <1>2
<1> QED
  BY <1>3

\* A power of two is a positive number.
LEMMA PowerIsPositive ==
  ASSUME NEW n \in Nat
  PROVE  2 ^ n \in Nat \ {0}
<1>1. IsFiniteSet(1 .. n) /\ Cardinality(1 .. n) = n
  BY FS_Interval
<1>2. IsFiniteSet(SUBSET (1 .. n)) /\ Cardinality(SUBSET (1 .. n)) = 2 ^ n
  BY <1>1, FS_SUBSET
<1>3. SUBSET (1 .. n) # {}
  OBVIOUS
<1> QED
  BY <1>2, <1>3, FS_CardinalityType, FS_EmptySet

\* What division answers, said by multiplication.
LEMMA DivisionIs ==
  ASSUME NEW a \in Int, NEW b \in Nat \ {0}
  PROVE  /\ a \div b \in Int /\ (a \div b) * b <= a /\ a < (a \div b + 1) * b
         /\ \A q \in Int : q * b <= a /\ a < (q + 1) * b => q = a \div b
<1>1. a \div b \in Int /\ (a \div b) * b <= a /\ a < (a \div b + 1) * b
  OBVIOUS
<1>2. ASSUME NEW q \in Int, NEW r \in Int, q < r, a < (q + 1) * b, r * b <= a
      PROVE  FALSE
  <2>1. (q + 1) * b <= r * b
    <3>1. q + 1 <= r
      BY <1>2
    <3> QED
      BY <3>1
  <2> QED
    BY <1>2, <2>1
<1> QED
  BY <1>1, <1>2

\* A remainder, by what is left of whole blocks.
LEMMA RemainderIs ==
  ASSUME NEW q \in Int, NEW r \in Nat, NEW b \in Nat \ {0}, r < b
  PROVE  (q * b + r) % b = r
<1> DEFINE a == q * b + r
<1>1. a \in Int /\ q * b <= a /\ a < (q + 1) * b
  OBVIOUS
<1>2. q = a \div b
  BY <1>1, DivisionIs
<1>3. a = b * (a \div b) + (a % b)
  BY <1>1
<1> QED
  BY <1>1, <1>2, <1>3

\* Every number is whole blocks and a remainder.
LEMMA BlocksAndRest ==
  ASSUME NEW a \in Int, NEW b \in Nat \ {0}
  PROVE  \E q \in Int : a = q * b + (a % b) /\ a % b \in 0 .. b - 1
<1>1. a \div b \in Int /\ a = (a \div b) * b + (a % b) /\ a % b \in 0 .. b - 1
  OBVIOUS
<1> QED
  BY <1>1

\* The remainder of a sum needs that of its first part only.
LEMMA RemainderOfSum ==
  ASSUME NEW a \in Int, NEW d \in Int, NEW b \in Nat \ {0}
  PROVE  (a + d) % b = ((a % b) + d) % b
<1> DEFINE r == a % b
           c == r + d
           s == c % b
<1>1. PICK q \in Int : a = q * b + r /\ r \in 0 .. b - 1
  BY BlocksAndRest
<1> HIDE DEF r
<1>2. c \in Int
  BY <1>1
<1> HIDE DEF c
<1>3. PICK p \in Int : c = p * b + s /\ s \in 0 .. b - 1
  BY <1>2, BlocksAndRest
<1> HIDE DEF s
<1>4. a + d = (q + p) * b + s
  <2>1. (q + p) * b = q * b + p * b /\ q * b \in Int /\ p * b \in Int
    BY <1>1, <1>3
  <2> QED
    BY <1>1, <1>2, <1>3, <2>1 DEF c
<1>5. ((q + p) * b + s) % b = s
  <2>1. q + p \in Int /\ s \in Nat /\ s < b
    BY <1>1, <1>3
  <2> QED
    BY <2>1, RemainderIs
<1>6. s = ((a % b) + d) % b
  BY DEF s, c, r
<1> QED
  BY <1>4, <1>5, <1>6

(* Finite sets *)

\* A finite set has an element at which a function is greatest: the one that the fewest
\* others exceed.
LEMMA GreatestAt ==
  ASSUME NEW S, IsFiniteSet(S), S # {}, NEW f \in [S -> Int]
  PROVE  \E x \in S : \A y \in S : f[y] <= f[x]
<1> DEFINE Above(x) == {y \in S : f[y] > f[x]}
           T == {Cardinality(Above(x)) : x \in S}
<1>1. \A x \in S : IsFiniteSet(Above(x)) /\ Cardinality(Above(x)) \in Nat
  <2> TAKE x \in S
  <2>1. Above(x) \in SUBSET S
    OBVIOUS
  <2>2. IsFiniteSet(Above(x))
    BY <2>1, FS_Subset
  <2> QED
    BY <2>2, FS_CardinalityType
<1>2. T \in SUBSET Nat /\ T # {}
  BY <1>1
<1>3. PICK n \in T : \A m \in T : n <= m
  BY <1>2, LeastOf
<1>4. PICK x \in S : n = Cardinality(Above(x))
  BY <1>3
<1>5. ASSUME NEW y \in S, ~(f[y] <= f[x]) PROVE FALSE
  <2>1. y \in Above(x) /\ y \notin Above(y)
    BY <1>5
  <2>2. Above(y) \in SUBSET Above(x)
    BY <1>5
  <2>3. Cardinality(Above(y)) <= Cardinality(Above(x)) /\ Above(x) # Above(y)
    BY <1>1, <2>1, <2>2, FS_Subset
  <2>4. Cardinality(Above(x)) # Cardinality(Above(y))
    BY <1>1, <2>2, <2>3, FS_Subset
  <2>5. Cardinality(Above(y)) \in T /\ Cardinality(Above(y)) \in Nat /\ Cardinality(Above(x)) \in Nat
    BY <1>1
  <2>6. Cardinality(Above(x)) <= Cardinality(Above(y))
    BY <1>3, <1>4, <2>5
  <2> HIDE DEF Above
  <2> QED
    BY <2>3, <2>4, <2>5, <2>6
<1> QED
  BY <1>4, <1>5

\* And one at which it is least.
LEMMA LeastAt ==
  ASSUME NEW S, IsFiniteSet(S), S # {}, NEW f \in [S -> Int]
  PROVE  \E x \in S : \A y \in S : f[x] <= f[y]
<1> DEFINE g == [x \in S |-> 0 - f[x]]
<1>1. g \in [S -> Int]
  OBVIOUS
<1>2. PICK x \in S : \A y \in S : g[y] <= g[x]
  BY <1>1, GreatestAt, Zenon
<1>3. \A y \in S : f[x] <= f[y]
  BY <1>2
<1> QED
  BY <1>3

\* Numbers moved along the line, as many as before.
LEMMA Shifted ==
  ASSUME NEW A \in SUBSET Int, NEW d \in Int, IsFiniteSet(A)
  PROVE  Cardinality({i + d : i \in A}) = Cardinality(A)
<1> DEFINE B == {i + d : i \in A}
           f == [i \in A |-> i + d]
<1>1. f \in [A -> B] /\ \A a, b \in A : f[a] = f[b] => a = b
  OBVIOUS
<1>2. \A t \in B : \E i \in A : f[i] = t
  OBVIOUS
<1> HIDE DEF f, B
<1>3. ExistsBijection(A, B)
  BY <1>1, <1>2, Fun_IsBij, Fun_ExistsBij, Zenon
<1>4. Cardinality(B) = Cardinality(A)
  BY <1>3, FS_Bijection, Zenon
<1> QED
  BY <1>4 DEF B

(* Sequences *)

\* One element in front of the others.
LEMMA InFront ==
  ASSUME NEW S, NEW x \in S, NEW t \in Seq(S)
  PROVE  /\ <<x>> \o t \in Seq(S) /\ Len(<<x>> \o t) = Len(t) + 1
         /\ (<<x>> \o t)[1] = x
         /\ \A i \in 2 .. Len(t) + 1 : (<<x>> \o t)[i] = t[i - 1]
<1> DEFINE one == <<x>>
<1>1. one \in Seq(S) /\ Len(one) = 1 /\ one[1] = x
  OBVIOUS
<1> HIDE DEF one
<1>2. Len(t) \in Nat
  BY LenProperties
<1>3. /\ one \o t \in Seq(S) /\ Len(one \o t) = Len(one) + Len(t)
      /\ \A i \in 1 .. Len(one) + Len(t) :
           (one \o t)[i] = IF i <= Len(one) THEN one[i] ELSE t[i - Len(one)]
  BY <1>1, ConcatProperties, Zenon
<1>4. (one \o t)[1] = x /\ \A i \in 2 .. Len(t) + 1 : (one \o t)[i] = t[i - 1]
  BY <1>1, <1>2, <1>3
<1> QED
  BY <1>1, <1>2, <1>3, <1>4 DEF one

-----------------------------------------------------------------------------
(* TrackingGate *)

\* HandBefore and the frames that call for a detection, of any traces.
Follows(t, k) == \E j \in 1 .. k - 1 : /\ t[j] = "hand"
                                       /\ \A i \in j + 1 .. k - 1 : t[i] = "dropped"
Calls(r, t, k) == \/ ~Follows(t, k)
                  \/ /\ Redetect > 0 /\ k > Redetect
                     /\ \A j \in k - Redetect .. k - 1 : ~r[j]
Traced(r, t) == \A k \in DOMAIN r : r[k] <=> Calls(r, t, k)

\* The last m of n answers are without a detection, and the one before them is one.
TailIs(r, n, m) == /\ m <= n /\ \A j \in n - m + 1 .. n : ~r[j]
                   /\ m < n => r[n - m]

\* The state of the gate agrees with the traces, which makes the property inductive: the
\* counter is that of the frames since detection last ran.
GateInv == /\ GateTypeOK
           /\ Traced(ran, told)
           /\ TailIs(ran, Len(ran), since)
           /\ tracking <=> Follows(told, Len(ran) + 1)

\* The traces are those the property is about.
LEMMA TracedIsInTime == Traced(ran, told) <=> DetectsInTime
BY Zenon DEF Traced, Calls, Follows, DetectsInTime, HandBefore

\* Which hand a frame follows depends on what was told before it.
LEMMA FollowsStays ==
  ASSUME NEW t, NEW u, NEW k \in Nat, \A j \in 1 .. k - 1 : u[j] = t[j]
  PROVE  Follows(u, k) <=> Follows(t, k)
<1>1. \A j \in 1 .. k - 1 : \A i \in j + 1 .. k - 1 : i \in 1 .. k - 1
  OBVIOUS
<1> QED
  BY <1>1, Zenon DEF Follows

\* A frame that told nothing passes on the hand before it, and one that told something
\* decides.
LEMMA FollowsNext ==
  ASSUME NEW t, NEW n \in Nat \ {0}
  PROVE  /\ t[n] = "dropped" => (Follows(t, n + 1) <=> Follows(t, n))
         /\ t[n] = "hand" => Follows(t, n + 1)
         /\ t[n] = "none" => ~Follows(t, n + 1)
<1>1. n + 1 - 1 = n
  OBVIOUS
<1>2. ASSUME t[n] = "dropped", Follows(t, n) PROVE Follows(t, n + 1)
  <2>1. PICK j \in 1 .. n - 1 : t[j] = "hand" /\ \A i \in j + 1 .. n - 1 : t[i] = "dropped"
    BY <1>2 DEF Follows
  <2>2. j \in 1 .. n /\ \A i \in j + 1 .. n : i = n \/ i \in j + 1 .. n - 1
    OBVIOUS
  <2>3. \A i \in j + 1 .. n : t[i] = "dropped"
    BY <1>2, <2>1, <2>2
  <2> QED
    BY <1>1, <2>1, <2>2, <2>3 DEF Follows
<1>3. ASSUME Follows(t, n + 1)
      PROVE  t[n] = "hand" \/ (t[n] = "dropped" /\ Follows(t, n))
  <2>1. PICK j \in 1 .. n : t[j] = "hand" /\ \A i \in j + 1 .. n : t[i] = "dropped"
    BY <1>1, <1>3 DEF Follows
  <2>2. CASE j = n
    BY <2>1, <2>2
  <2>3. CASE j # n
    <3>1. /\ j \in 1 .. n - 1 /\ n \in j + 1 .. n
          /\ \A i \in j + 1 .. n - 1 : i \in j + 1 .. n
      BY <2>3
    <3> QED
      BY <2>1, <3>1 DEF Follows
  <2> QED
    BY <2>2, <2>3
<1>4. ASSUME t[n] = "hand" PROVE Follows(t, n + 1)
  <2>1. n \in 1 .. n /\ \A i \in n + 1 .. n : t[i] = "dropped"
    OBVIOUS
  <2> QED
    BY <1>1, <1>4, <2>1 DEF Follows
<1> QED
  BY <1>2, <1>3, <1>4

\* The counter has reached the interval when no frame of the interval ran detection.
LEMMA TailReaches ==
  ASSUME NEW r, NEW n \in Nat, NEW m \in Nat, NEW N \in Nat, TailIs(r, n, m)
  PROVE  m >= N <=> n + 1 > N /\ \A j \in n + 1 - N .. n : ~r[j]
<1>1. ASSUME m >= N PROVE n + 1 > N /\ \A j \in n + 1 - N .. n : ~r[j]
  <2>1. n + 1 > N /\ \A j \in n + 1 - N .. n : j \in n - m + 1 .. n
    BY <1>1 DEF TailIs
  <2>2. \A j \in n - m + 1 .. n : ~r[j]
    BY Zenon DEF TailIs
  <2> QED
    BY <2>1, <2>2, Zenon
<1>2. ASSUME m < N, n + 1 > N PROVE \E j \in n + 1 - N .. n : r[j]
  <2>1. n - m \in n + 1 - N .. n /\ m < n
    BY <1>2
  <2>2. m < n => r[n - m]
    BY Zenon DEF TailIs
  <2> QED
    BY <2>1, <2>2, Zenon
<1>3. m < N \/ m >= N
  OBVIOUS
<1>4. m >= N => ~(m < N)
  OBVIOUS
<1> QED
  BY <1>1, <1>2, <1>3, <1>4, Zenon

\* A detection is due when the traces call for one.
LEMMA DueIsCalled ==
  ASSUME GateInv
  PROVE  Due <=> Calls(ran, told, Len(ran) + 1)
<1>1. Len(ran) \in Nat /\ since \in Nat /\ Redetect \in Nat
  BY GateAssumption DEF GateInv, GateTypeOK
<1>2. since >= Redetect <=> /\ Len(ran) + 1 > Redetect
                            /\ \A j \in Len(ran) + 1 - Redetect .. Len(ran) : ~ran[j]
  BY <1>1, TailReaches DEF GateInv
<1>3. (Len(ran) + 1) - Redetect .. (Len(ran) + 1) - 1 = Len(ran) + 1 - Redetect .. Len(ran)
  BY <1>1
<1>4. tracking <=> Follows(told, Len(ran) + 1)
  BY DEF GateInv
<1>5. (\A j \in (Len(ran) + 1) - Redetect .. (Len(ran) + 1) - 1 : ~ran[j])
        <=> (\A j \in Len(ran) + 1 - Redetect .. Len(ran) : ~ran[j])
  BY <1>3, Zenon
<1> QED
  BY <1>2, <1>4, <1>5, Zenon DEF Due, Calls

\* Beginning a frame keeps the agreement (tracking_gate.hpp:26-31).
LEMMA BeginKeepsGate ==
  ASSUME GateInv, BeginFrame
  PROVE  GateInv'
<1> DEFINE n == Len(ran)
<1>1. /\ n \in Nat /\ n < MaxFrames /\ MaxFrames \in Nat /\ since \in Nat /\ since <= n
      /\ tracking \in BOOLEAN /\ tracking' = tracking
  BY GateAssumption DEF GateInv, GateTypeOK, BeginFrame, TailIs
<1>2. /\ Due \in BOOLEAN /\ ran \in Seq(BOOLEAN)
      /\ told \in Seq({"hand", "none", "dropped"}) /\ Len(told) = n
  BY <1>1 DEF Due, GateInv, GateTypeOK
<1>3. /\ ran' \in Seq(BOOLEAN) /\ Len(ran') = n + 1 /\ ran'[n + 1] = Due
      /\ \A j \in 1 .. n : ran'[j] = ran[j]
  BY <1>2 DEF BeginFrame
<1>4. /\ told' \in Seq({"hand", "none", "dropped"}) /\ Len(told') = n + 1
      /\ told'[n + 1] = "dropped" /\ \A j \in 1 .. n : told'[j] = told[j]
  BY <1>2 DEF BeginFrame
<1>5. since' = IF Due THEN 0 ELSE since + 1
  BY DEF BeginFrame, Counted
<1>6. GateTypeOK'
  BY <1>1, <1>3, <1>4, <1>5 DEF GateTypeOK
<1>7. TailIs(ran', n + 1, since')
  <2>1. CASE Due
    <3>1. since' = 0 /\ (n + 1) - 0 = n + 1 /\ 0 <= n + 1
      BY <1>1, <1>5, <2>1
    <3>2. \A j \in (n + 1) - 0 + 1 .. n + 1 : FALSE
      BY <1>1
    <3>3. ran'[n + 1]
      BY <1>3, <2>1, Zenon
    <3>4. TailIs(ran', n + 1, 0)
      BY <3>1, <3>2, <3>3, Zenon DEF TailIs
    <3> QED
      BY <3>1, <3>4
  <2>2. CASE ~Due
    <3>1. /\ since' = since + 1 /\ (n + 1) - (since + 1) = n - since
          /\ since + 1 <= n + 1
          /\ since + 1 < n + 1 => since < n
      BY <1>1, <1>5, <2>2
    <3>2. \A j \in n - since + 1 .. n + 1 : ~ran'[j]
      <4>1. \A j \in n - since + 1 .. n : ~ran[j]
        BY Zenon DEF GateInv, TailIs
      <4>2. ~ran'[n + 1]
        BY <1>3, <2>2, Zenon
      <4> TAKE j \in n - since + 1 .. n + 1
      <4>3. j = n + 1 \/ (j \in 1 .. n /\ j \in n - since + 1 .. n)
        BY <1>1
      <4> QED
        BY <1>3, <4>1, <4>2, <4>3, Zenon
    <3>3. since < n => ran'[n - since]
      <4>1. since < n => ran[n - since]
        BY Zenon DEF GateInv, TailIs
      <4>2. since < n => n - since \in 1 .. n
        BY <1>1
      <4> QED
        BY <1>3, <4>1, <4>2, Zenon
    <3>4. /\ \A j \in (n + 1) - (since + 1) + 1 .. n + 1 : ~ran'[j]
          /\ since + 1 < n + 1 => ran'[(n + 1) - (since + 1)]
      BY <3>1, <3>2, <3>3
    <3>5. TailIs(ran', n + 1, since + 1)
      BY <3>1, <3>4, Zenon DEF TailIs
    <3> QED
      BY <3>1, <3>5
  <2> QED
    BY <2>1, <2>2
<1>8. Traced(ran', told')
  <2>1. ASSUME NEW k \in 1 .. n + 1
        PROVE  Calls(ran', told', k) <=> Calls(ran, told, k)
    <3>1. Redetect > 0 /\ k > Redetect =>
            \A j \in k - Redetect .. k - 1 : j \in 1 .. n
      BY <1>1, GateAssumption
    <3>2. Redetect > 0 /\ k > Redetect =>
            \A j \in k - Redetect .. k - 1 : ran'[j] = ran[j]
      BY <1>3, <3>1, Zenon
    <3>3. k \in Nat /\ \A j \in 1 .. k - 1 : told'[j] = told[j]
      BY <1>1, <1>4
    <3>4. Follows(told', k) <=> Follows(told, k)
      BY <3>3, FollowsStays
    <3> QED
      BY <3>2, <3>4, Zenon DEF Calls
  <2>2. DOMAIN ran = 1 .. n /\ DOMAIN ran' = 1 .. n + 1
    BY <1>1, <1>2, <1>3
  <2>3. ASSUME NEW k \in 1 .. n + 1 PROVE ran'[k] <=> Calls(ran', told', k)
    <3>1. k = n + 1 \/ k \in 1 .. n
      BY <1>1
    <3>2. CASE k = n + 1
      BY <1>3, <2>1, <3>2, DueIsCalled, Zenon
    <3>3. CASE k \in 1 .. n
      <4>1. ran[k] <=> Calls(ran, told, k)
        BY <2>2, <3>3, Zenon DEF GateInv, Traced
      <4> QED
        BY <1>3, <2>1, <3>3, <4>1, Zenon
    <3> QED
      BY <3>1, <3>2, <3>3
  <2> QED
    BY <2>2, <2>3, Zenon DEF Traced
<1>9. tracking' <=> Follows(told', n + 2)
  <2>1. n + 1 \in Nat \ {0} /\ (n + 1) + 1 = n + 2 /\ \A j \in 1 .. (n + 1) - 1 : told'[j] = told[j]
    BY <1>1, <1>4
  <2>2. Follows(told', n + 2) <=> Follows(told', n + 1)
    BY <1>4, <2>1, FollowsNext
  <2>3. Follows(told', n + 1) <=> Follows(told, n + 1)
    BY <2>1, FollowsStays
  <2> QED
    BY <1>1, <2>2, <2>3, Zenon DEF GateInv
<1>10. Len(ran') + 1 = n + 2
  BY <1>1, <1>3
<1> HIDE DEF n
<1> QED
  BY <1>3, <1>6, <1>7, <1>8, <1>9, <1>10, Zenon DEF GateInv

\* So does telling the result of a frame (tracking_gate.hpp:33-37).
LEMMA ObserveKeepsGate ==
  ASSUME GateInv, NEW valid \in BOOLEAN, NEW present \in BOOLEAN, Observe(valid, present)
  PROVE  GateInv'
<1> DEFINE n == Len(ran)
<1>1. /\ n \in Nat \ {0} /\ told \in Seq({"hand", "none", "dropped"}) /\ Len(told) = n
      /\ DOMAIN ran = 1 .. n
  BY DEF GateInv, GateTypeOK, Observe
<1>2. /\ told' \in Seq({"hand", "none", "dropped"}) /\ Len(told') = n
      /\ told'[n] = (IF valid /\ present THEN "hand" ELSE "none")
      /\ \A j \in 1 .. n - 1 : told'[j] = told[j]
  BY <1>1 DEF Observe
<1>3. ran' = ran /\ since' = since /\ tracking' = (valid /\ present)
  BY DEF Observe
<1>4. GateTypeOK'
  BY <1>2, <1>3 DEF GateInv, GateTypeOK
<1>5. Traced(ran, told')
  <2>1. ASSUME NEW k \in 1 .. n PROVE Calls(ran, told', k) <=> Calls(ran, told, k)
    <3>1. k \in Nat /\ \A j \in 1 .. k - 1 : told'[j] = told[j]
      BY <1>1, <1>2
    <3>2. Follows(told', k) <=> Follows(told, k)
      BY <3>1, FollowsStays
    <3> QED
      BY <3>2, Zenon DEF Calls
  <2> QED
    BY <1>1, <2>1, Zenon DEF GateInv, Traced
<1>6. (valid /\ present) <=> Follows(told', n + 1)
  BY <1>1, <1>2, FollowsNext
<1> QED
  BY <1>3, <1>4, <1>5, <1>6, Zenon DEF GateInv

\* For every interval and every order of dropped frames and lost hands, palm detection
\* runs exactly where the trace calls for it.
THEOREM DetectionIsInTime == GateSpec => [](GateTypeOK /\ DetectsInTime)
<1>1. GateInit => GateInv
  <2> SUFFICES ASSUME GateInit PROVE GateInv
    OBVIOUS
  <2>1. /\ ran = <<>> /\ told = <<>> /\ Len(ran) = 0 /\ DOMAIN ran = {}
        /\ tracking = FALSE /\ since = 0
    BY DEF GateInit
  <2>2. GateTypeOK
    <3>1. since \in 0 .. MaxFrames /\ Len(ran) <= MaxFrames /\ Len(told) = Len(ran)
      BY <2>1, GateAssumption
    <3>2. ran \in Seq(BOOLEAN) /\ told \in Seq({"hand", "none", "dropped"})
      BY <2>1, EmptySeq
    <3> QED
      BY <2>1, <3>1, <3>2, Zenon DEF GateTypeOK
  <2>3. TailIs(ran, Len(ran), since)
    BY <2>1 DEF TailIs
  <2>4. ~Follows(told, Len(ran) + 1)
    BY <2>1 DEF Follows
  <2> QED
    BY <2>1, <2>2, <2>3, <2>4, Zenon DEF GateInv, Traced
<1>2. GateInv /\ [GateNext]_gateVars => GateInv'
  <2> SUFFICES ASSUME GateInv, [GateNext]_gateVars PROVE GateInv'
    OBVIOUS
  <2>1. CASE BeginFrame
    BY <2>1, BeginKeepsGate
  <2>2. CASE \E valid, present \in BOOLEAN : Observe(valid, present)
    BY <2>2, ObserveKeepsGate
  <2>3. CASE UNCHANGED gateVars
    BY <2>3 DEF gateVars, GateInv, GateTypeOK
  <2> QED
    BY <2>1, <2>2, <2>3 DEF GateNext
<1>3. GateInv => GateTypeOK /\ DetectsInTime
  BY TracedIsInTime DEF GateInv
<1> QED
  BY <1>1, <1>2, <1>3, PTL DEF GateSpec

-----------------------------------------------------------------------------
(* ShadowContact *)

\* The history of the gaps decides the latch, by hysteresis.
Touched(g) == \E i \in 1 .. Len(g) : g[i] < GapOn /\ \A j \in i .. Len(g) : g[j] <= GapOff

\* A report of contact is that of the latch, with the confidence of the brightness seen.
ReportOfLatch == report.engaged => latch /\ report.confidence = Confidence(luma)

ShadowInv == ShadowTypeOK /\ (latch <=> Touched(gaps)) /\ ReportOfLatch

\* The gap is one of the image, or the mark that there is none.
LEMMA GapInRange ==
  ASSUME NEW blobs \in SUBSET Blobs
  PROVE  Gap(blobs) \in 0 .. NotFound
<1> DEFINE near == {b.gap : b \in Eligible(blobs)}
<1>1. GapMax \in Nat /\ NotFound = GapMax + 1
  BY ShadowAssumption DEF GapMax, NotFound
<1>2. near \subseteq 0 .. GapMax
  <2>1. \A b \in Blobs : b.gap \in 0 .. GapMax
    BY ShadowAssumption
  <2> QED
    BY <2>1 DEF Eligible
<1>3. CASE near = {}
  BY <1>1, <1>3 DEF Gap
<1>4. CASE near # {}
  <2>1. Gap(blobs) = CHOOSE g \in near : \A h \in near : g <= h
    BY <1>4 DEF Gap
  <2> HIDE DEF near
  <2>2. near \in SUBSET Nat
    BY <1>1, <1>2
  <2>3. \E g \in near : \A h \in near : g <= h
    BY <1>4, <2>2, LeastOf, Zenon
  <2>4. Gap(blobs) \in near
    BY <2>1, <2>3
  <2>5. Gap(blobs) \in 0 .. GapMax
    BY <1>2, <2>4, Zenon
  <2> QED
    BY <1>1, <2>5
<1> QED
  BY <1>3, <1>4

\* The rectangle around a fingertip is cut to the image, where there is enough of it
\* (shadow_contact.cpp:30-42).
LEMMA RoiIsCut ==
  ASSUME NEW tip \in Tips, Usable(Roi(tip)), roi' = Roi(tip)
  PROVE  RoiInImage'
<1>1. ASSUME NEW at \in Int, NEW size \in Nat, Span(at, size)[2] - Span(at, size)[1] >= 3
      PROVE  /\ 0 <= Span(at, size)[1] /\ Span(at, size)[2] <= size
             /\ Span(at, size)[1] < Span(at, size)[2]
  BY <1>1, ShadowAssumption DEF Span
<1>2. /\ tip[1] \in Int /\ tip[2] \in Int /\ Size[1] \in Nat /\ Size[2] \in Nat
      /\ roi'[1] = Span(tip[1], Size[1]) /\ roi'[2] = Span(tip[2], Size[2])
  BY ShadowAssumption DEF Roi
<1>3. /\ roi'[1][2] - roi'[1][1] >= 3
      /\ roi'[2][2] - roi'[2][1] >= 3
  BY DEF Usable
<1>4. \A axis \in {1, 2} : /\ 0 <= roi'[axis][1] /\ roi'[axis][2] <= Size[axis]
                           /\ roi'[axis][1] < roi'[axis][2]
  BY <1>1, <1>2, <1>3
<1> QED
  BY <1>4 DEF RoiInImage

\* A measurement moves the latch as its history does (shadow_contact.cpp:66-76).
LEMMA LatchFollows ==
  ASSUME NEW g \in Seq(0 .. NotFound), NEW gap \in 0 .. NotFound, latch <=> Touched(g)
  PROVE  Latch(gap) <=> Touched(Append(g, gap))
<1> DEFINE n == Len(g)
           h == Append(g, gap)
<1>1. /\ GapOn \in Nat /\ GapOff \in Nat /\ GapOn <= GapOff /\ GapOff < NotFound /\ NotFound \in Nat
  BY ShadowAssumption DEF GapMax, NotFound
<1>2. /\ n \in Nat /\ Len(h) = n + 1 /\ h[n + 1] = gap
      /\ \A i \in 1 .. n : h[i] = g[i]
  BY AppendProperties, LenProperties
<1> HIDE DEF h
<1>3. ASSUME gap < GapOn PROVE Touched(h)
  <2>1. /\ n + 1 \in 1 .. Len(h) /\ h[n + 1] < GapOn
        /\ \A j \in n + 1 .. Len(h) : h[j] <= GapOff
    BY <1>1, <1>2, <1>3
  <2> QED
    BY <2>1 DEF Touched
<1>4. ASSUME Touched(g), gap <= GapOff PROVE Touched(h)
  <2>1. PICK i \in 1 .. n : g[i] < GapOn /\ \A j \in i .. n : g[j] <= GapOff
    BY <1>4 DEF Touched
  <2>2. i \in 1 .. Len(h) /\ h[i] < GapOn
    BY <1>2, <2>1
  <2>3. \A j \in i .. Len(h) : h[j] <= GapOff
    BY <1>2, <1>4, <2>1
  <2> QED
    BY <2>2, <2>3 DEF Touched
<1>5. ASSUME Touched(h) PROVE gap <= GapOff /\ (gap < GapOn \/ Touched(g))
  <2>1. PICK i \in 1 .. n + 1 : h[i] < GapOn /\ \A j \in i .. n + 1 : h[j] <= GapOff
    BY <1>2, <1>5 DEF Touched
  <2>2. gap <= GapOff
    BY <1>2, <2>1
  <2>3. CASE i = n + 1
    BY <1>2, <2>1, <2>2, <2>3
  <2>4. CASE i # n + 1
    <3>1. i \in 1 .. n /\ g[i] < GapOn /\ \A j \in i .. n : g[j] <= GapOff
      BY <1>2, <2>1, <2>4
    <3> QED
      BY <2>2, <3>1 DEF Touched
  <2> QED
    BY <2>3, <2>4
<1>6. CASE gap = NotFound
  BY <1>1, <1>5, <1>6 DEF Latch, h
<1>7. CASE gap # NotFound /\ latch
  <2>1. Latch(gap) <=> gap <= GapOff
    BY <1>7 DEF Latch
  <2> QED
    BY <1>4, <1>5, <1>7, <2>1 DEF h
<1>8. CASE gap # NotFound /\ ~latch
  <2>1. Latch(gap) <=> gap < GapOn
    BY <1>8 DEF Latch
  <2> QED
    BY <1>3, <1>5, <1>8, <2>1 DEF h
<1> QED
  BY <1>6, <1>7, <1>8

\* The report of a frame without a shadow is a report.
LEMMA NothingIsReport ==
  Nothing \in [engaged : BOOLEAN, confidence : 0 .. 10 * LumaRef, gap : 0 .. NotFound]
<1>1. 0 \in 0 .. 10 * LumaRef /\ NotFound \in 0 .. NotFound /\ FALSE \in BOOLEAN
  BY ShadowAssumption DEF NotFound, GapMax
<1> QED
  BY <1>1, Zenon DEF Nothing

\* A frame that is measured keeps the invariant (shadow_contact.cpp:43-90).
LEMMA MeasureKeeps ==
  ASSUME ShadowInv, NEW tip \in Tips, NEW blobs \in SUBSET Blobs, NEW l \in Lumas,
         Measure(tip, blobs, l)
  PROVE  ShadowInv'
<1> DEFINE gap == Gap(blobs)
<1>1. gap \in 0 .. NotFound
  BY GapInRange
<1> HIDE DEF gap
<1>2. /\ Usable(Roi(tip)) /\ Len(gaps) < MaxMeasured /\ latch' = Latch(gap)
      /\ report' = IF gap = NotFound THEN Nothing
                   ELSE [engaged |-> latch', confidence |-> Confidence(l), gap |-> gap]
      /\ gaps' = Append(gaps, gap) /\ roi' = Roi(tip) /\ luma' = l
  BY DEF Measure, gap
<1>3. gaps \in Seq(0 .. NotFound)
  BY DEF ShadowInv, ShadowTypeOK
<1>4. latch' <=> Touched(gaps')
  BY <1>1, <1>2, <1>3, LatchFollows, Zenon DEF ShadowInv
<1>5. latch' \in BOOLEAN
  <2>1. (gap <= GapOff) \in BOOLEAN /\ (gap < GapOn) \in BOOLEAN
    OBVIOUS
  <2> QED
    BY <1>2, <2>1, Zenon DEF Latch
<1>6. Confidence(l) \in 0 .. 10 * LumaRef
  <2>1. l \in Nat /\ LumaRef \in Nat
    BY ShadowAssumption
  <2> QED
    BY <2>1 DEF Confidence
<1>7. report' \in [engaged : BOOLEAN, confidence : 0 .. 10 * LumaRef, gap : 0 .. NotFound]
  <2>1. CASE gap = NotFound
    BY <1>2, <2>1, NothingIsReport
  <2>2. CASE gap # NotFound
    <3>1. report' = [engaged |-> latch', confidence |-> Confidence(l), gap |-> gap]
      BY <1>2, <2>2
    <3> QED
      BY <1>1, <1>5, <1>6, <3>1, Zenon
  <2> QED
    BY <2>1, <2>2
<1>8. ReportOfLatch'
  <2> SUFFICES ASSUME report'.engaged
               PROVE  latch' /\ report'.confidence = Confidence(luma')
    BY DEF ReportOfLatch, Confidence
  <2>1. gap # NotFound
    BY <1>2 DEF Nothing
  <2> QED
    BY <1>2, <2>1
<1>9. gaps' \in Seq(0 .. NotFound) /\ Len(gaps') <= MaxMeasured
  <2>1. Len(gaps) \in Nat /\ MaxMeasured \in Nat
    BY <1>3, LenProperties, ShadowAssumption
  <2> QED
    BY <1>1, <1>2, <1>3, <2>1, AppendProperties
<1>10. RoiInImage'
  BY <1>2, RoiIsCut
<1>11. ShadowTypeOK'
  BY <1>2, <1>5, <1>7, <1>9, <1>10 DEF ShadowTypeOK
<1> QED
  BY <1>4, <1>8, <1>11 DEF ShadowInv

\* The channel starts with nothing seen, and every frame keeps the invariant.
LEMMA ShadowInvHolds == ShadowSpec => []ShadowInv
<1>1. ShadowInit => ShadowInv
  <2> SUFFICES ASSUME ShadowInit PROVE ShadowInv
    OBVIOUS
  <2>1. gaps = <<>> /\ gaps \in Seq(0 .. NotFound) /\ Len(gaps) = 0
    BY EmptySeq DEF ShadowInit
  <2>2. ~latch /\ latch \in BOOLEAN /\ roi = <<>> /\ luma \in Lumas \cup {0} /\ report = Nothing
    BY Zenon DEF ShadowInit
  <2>3. ShadowTypeOK
    BY <2>1, <2>2, NothingIsReport, ShadowAssumption DEF ShadowTypeOK
  <2>4. ~Touched(gaps) /\ ReportOfLatch
    BY <2>1, <2>2 DEF Touched, ReportOfLatch, Nothing
  <2> QED
    BY <2>2, <2>3, <2>4 DEF ShadowInv
<1>2. ShadowInv /\ [ShadowNext]_shadowVars => ShadowInv'
  <2> SUFFICES ASSUME ShadowInv, [ShadowNext]_shadowVars PROVE ShadowInv'
    OBVIOUS
  <2>1. ASSUME NEW tip \in Tips, NEW readable \in BOOLEAN, Skip(readable, tip) PROVE ShadowInv'
    <3>1. report' = Nothing /\ roi' = <<>> /\ UNCHANGED <<latch, luma, gaps>>
      BY <2>1 DEF Skip
    <3>2. ShadowTypeOK'
      BY <3>1, NothingIsReport DEF ShadowInv, ShadowTypeOK
    <3>3. ReportOfLatch'
      BY <3>1 DEF ReportOfLatch, Nothing
    <3>4. latch' <=> Touched(gaps')
      BY <3>1 DEF ShadowInv
    <3> QED
      BY <3>2, <3>3, <3>4 DEF ShadowInv
  <2>2. CASE UNCHANGED shadowVars
    BY <2>2 DEF shadowVars, ShadowInv, ShadowTypeOK, RoiInImage, Touched, ReportOfLatch, Confidence
  <2> QED
    BY <2>1, <2>2, MeasureKeeps DEF ShadowNext
<1> QED
  BY <1>1, <1>2, PTL DEF ShadowSpec

\* For every image, every set of blobs and every threshold the rectangle looked at lies in
\* the image, the latch is the hysteresis over the frames measured, and the engine acts on
\* a report for no other reason and never on dark content (shadow_contact.cpp:30-90,
\* contact_fusion.hpp:49-51).
THEOREM LatchIsHysteresis == ShadowSpec => [](ShadowTypeOK /\ LatchTellsTruth)
<1>1. ShadowInv => ShadowTypeOK /\ LatchTellsTruth
  <2> SUFFICES ASSUME ShadowInv PROVE LatchTellsTruth
    BY DEF ShadowInv
  <2>1. DOMAIN gaps = 1 .. Len(gaps)
    BY LenProperties DEF ShadowInv, ShadowTypeOK
  <2>2. latch <=> \E i \in DOMAIN gaps : /\ gaps[i] < GapOn
                                         /\ \A j \in i .. Len(gaps) : gaps[j] <= GapOff
    BY <2>1, Zenon DEF ShadowInv, Touched
  <2>3. ASSUME Engine!ShadowTouch(report) PROVE latch /\ luma >= AmbientMin
    <3>1. latch /\ report.confidence = Confidence(luma) /\ report.confidence >= ShadowMin
      BY <2>3 DEF Engine!ShadowTouch, ShadowInv, ReportOfLatch
    <3>2. luma \in Nat
      BY ShadowAssumption DEF ShadowInv, ShadowTypeOK
    <3> QED
      BY <3>1, <3>2, ShadowAssumption DEF Confidence
  <2> QED
    BY <2>2, <2>3 DEF LatchTellsTruth
<1> QED
  BY <1>1, ShadowInvHolds, PTL

-----------------------------------------------------------------------------
(* PerfProbe *)

\* The beginning of the interval that runs is the last report, or the first frame.
IntervalsKept ==
  /\ all = <<>> => last_report = 0 /\ reports = <<>>
  /\ all # <<>> =>
       /\ last_report = IF reports = <<>> THEN all[1].pub ELSE reports[Len(reports)]
       /\ reports # <<>> => reports[1] - all[1].pub >= ReportInterval
       /\ \A i \in 1 .. Len(reports) - 1 : reports[i + 1] - reports[i] >= ReportInterval
       /\ last_report <= all[Len(all)].pub
       /\ all[Len(all)].pub - last_report < ReportInterval

\* The window holds the last frames of all.
WindowKept == LET older == Len(all) - Len(recs) IN
              /\ older >= 0 /\ (older > 0 => Len(recs) = Window)
              /\ \A i \in 1 .. Len(recs) : recs[i] = all[older + i]

ProbeInv == ProbeTypeOK /\ WindowKept /\ (ReportInterval > 0 => IntervalsKept)

\* The types, for the steps that need no more.
LEMMA ProbeTypes ==
  ASSUME ProbeInv
  PROVE  /\ recs \in Seq(Records) /\ all \in Seq(Records) /\ reports \in Seq(Times)
         /\ Len(recs) \in Nat /\ Len(all) \in Nat /\ Len(reports) \in Nat
         /\ Len(recs) <= Window /\ Len(all) <= MaxRecords
         /\ DOMAIN all = 1 .. Len(all) /\ DOMAIN recs = 1 .. Len(recs)
         /\ last_report \in Times \cup {0}
BY LenProperties DEF ProbeInv, ProbeTypeOK

\* Times are numbers, and never the 0 that stands for none.
LEMMA TimesAreNumbers == Times \subseteq Nat \ {0}
<1> DEFINE M == 2 ^ Width
<1>1. M \in Nat \ {0} /\ Times \subseteq 1 .. M - 1
  BY PowerIsPositive, ProbeAssumption
<1> HIDE DEF M
<1> QED
  BY <1>1

\* The frames of a sequence are published at times.
LEMMA PublishedAtTimes ==
  ASSUME NEW s \in Seq(Records), NEW i \in 1 .. Len(s)
  PROVE  s[i].pub \in Times
<1>1. s[i] \in Records
  BY ElementOfSeq
<1> QED
  BY <1>1 DEF Records

\* Times that are in order have the difference they should have.
LEMMA InOrderNoWrap ==
  ASSUME NEW a \in Times, NEW b \in Times, b <= a
  PROVE  Minus(a, b) = a - b
<1> DEFINE M == 2 ^ Width
<1>1. M \in Nat \ {0}
  BY PowerIsPositive, ProbeAssumption
<1>2. a \in 1 .. M - 1 /\ b \in 1 .. M - 1
  BY ProbeAssumption
<1>3. Minus(a, b) = (a - b) % M
  BY DEF Minus
<1> HIDE DEF M
<1>4. a - b \in Nat /\ a - b < M
  BY <1>1, <1>2
<1>5. ASSUME NEW d \in Nat, d < M PROVE d % M = d
  BY <1>1, <1>5
<1> QED
  BY <1>2, <1>3, <1>4, <1>5

\* The window after one more frame (perf_probe.cpp:35-36).
LEMMA PushKeepsWindow ==
  ASSUME ProbeInv, NEW rec \in Records, recs' = Pushed(rec), all' = Append(all, rec)
  PROVE  /\ recs' \in Seq(Records) /\ Len(recs') <= Window
         /\ WindowKept'
<1> DEFINE longer == Append(recs, rec)
           n == Len(recs)
           m == Len(all)
<1>1. /\ recs \in Seq(Records) /\ all \in Seq(Records) /\ n \in Nat /\ m \in Nat /\ n <= Window
      /\ Window \in Nat
  BY ProbeTypes, ProbeAssumption
<1>2. /\ m - n >= 0 /\ (m - n > 0 => n = Window)
      /\ \A i \in 1 .. n : recs[i] = all[m - n + i]
  BY DEF ProbeInv, WindowKept
<1>3. /\ all' \in Seq(Records) /\ Len(all') = m + 1 /\ all'[m + 1] = rec
      /\ \A i \in 1 .. m : all'[i] = all[i]
  BY <1>1, AppendProperties
<1>4. /\ longer \in Seq(Records) /\ longer # <<>> /\ Len(longer) = n + 1 /\ longer[n + 1] = rec
      /\ \A i \in 1 .. n : longer[i] = recs[i]
  BY <1>1, AppendProperties
<1>5. recs' = IF Len(longer) > Window THEN Tail(longer) ELSE longer
  BY DEF Pushed
<1> HIDE DEF longer
<1>6. \A i \in 1 .. n + 1 : longer[i] = all'[m - n + i]
  <2> TAKE i \in 1 .. n + 1
  <2>1. CASE i = n + 1
    BY <1>1, <1>3, <1>4, <2>1
  <2>2. CASE i # n + 1
    <3>1. i \in 1 .. n /\ m - n + i \in 1 .. m
      BY <1>1, <1>2, <2>2
    <3> QED
      BY <1>2, <1>3, <1>4, <3>1
  <2> QED
    BY <2>1, <2>2
<1>7. CASE n + 1 > Window
  <2>1. recs' = Tail(longer)
    BY <1>4, <1>5, <1>7
  <2>2. /\ recs' \in Seq(Records) /\ Len(recs') = n
        /\ \A i \in 1 .. n : recs'[i] = longer[i + 1]
    BY <1>1, <1>4, <2>1, HeadTailProperties
  <2>3. n = Window
    BY <1>1, <1>7
  <2>4. Len(all') - Len(recs') = (m - n) + 1 /\ (m - n) + 1 >= 0
    BY <1>1, <1>2, <1>3, <2>2
  <2>5. ASSUME NEW i \in 1 .. Len(recs') PROVE recs'[i] = all'[(Len(all') - Len(recs')) + i]
    <3>1. i \in 1 .. n /\ i + 1 \in 1 .. n + 1 /\ (m - n) + (i + 1) = (m - n) + 1 + i
      BY <1>1, <2>2
    <3> QED
      BY <1>6, <2>2, <2>4, <3>1
  <2> QED
    BY <1>1, <2>2, <2>3, <2>4, <2>5 DEF WindowKept
<1>8. CASE ~(n + 1 > Window)
  <2>1. recs' = longer
    BY <1>4, <1>5, <1>8
  <2>2. m = n
    BY <1>1, <1>2, <1>8
  <2>3. Len(all') - Len(recs') = 0 /\ Len(recs') = n + 1 /\ n + 1 <= Window
    BY <1>1, <1>3, <1>4, <1>8, <2>1, <2>2
  <2>4. \A i \in 1 .. Len(recs') : recs'[i] = all'[(Len(all') - Len(recs')) + i]
    BY <1>1, <1>6, <2>1, <2>2, <2>3
  <2>5. WindowKept'
    <3>1. Len(all') - Len(recs') >= 0 /\ ~(Len(all') - Len(recs') > 0)
      BY <2>3
    <3> QED
      BY <2>4, <3>1, Zenon DEF WindowKept
  <2> QED
    BY <1>1, <1>4, <2>1, <2>3, <2>5
<1> QED
  BY <1>7, <1>8

\* A frame recorded keeps the invariant: a report begins an interval, at a distance from
\* the one before (perf_probe.cpp:47-53).
LEMMA RecordKeeps ==
  ASSUME ProbeInv, NEW rec \in Records, RecordFrame(rec) PROVE ProbeInv'
<1> DEFINE pub == rec.pub
           m == Len(all)
           k == Len(reports)
           due == ReportInterval > 0 /\ Minus(pub, Since(pub)) >= ReportInterval
<1>1. /\ recs \in Seq(Records) /\ all \in Seq(Records) /\ reports \in Seq(Times)
      /\ m \in Nat /\ k \in Nat /\ last_report \in Times \cup {0} /\ pub \in Times
      /\ \A i \in 1 .. m : all[i].pub \in Times
      /\ \A i \in 1 .. k : reports[i] \in Times
      /\ ReportInterval \in Nat /\ MaxRecords \in Nat
  <2>1. all \in Seq(Records) /\ reports \in Seq(Times)
    BY ProbeTypes
  <2>2. /\ \A i \in 1 .. m : all[i].pub \in Times
        /\ \A i \in 1 .. k : reports[i] \in Times
    BY <2>1, PublishedAtTimes, ElementOfSeq
  <2>3. pub \in Times
    BY DEF Records
  <2> QED
    BY <2>2, <2>3, ProbeTypes, ProbeAssumption
<1>2. /\ m < MaxRecords /\ (m # 0 => all[m].pub <= pub)
      /\ recs' = Pushed(rec) /\ all' = Append(all, rec)
      /\ last_report' = IF ReportInterval = 0 THEN last_report ELSE IF due THEN pub ELSE Since(pub)
      /\ reports' = IF due THEN Append(reports, pub) ELSE reports
  BY <1>1, EmptySeq DEF RecordFrame
<1>3. /\ all' \in Seq(Records) /\ Len(all') = m + 1 /\ all'[m + 1] = rec /\ all' # <<>>
      /\ \A i \in 1 .. m : all'[i] = all[i]
  BY <1>1, <1>2, AppendProperties
<1>4. recs' \in Seq(Records) /\ Len(recs') <= Window /\ WindowKept'
  BY <1>2, PushKeepsWindow
<1>5. Since(pub) \in Times
  BY <1>1 DEF Since
<1>6. /\ reports' \in Seq(Times)
      /\ due => Len(reports') = k + 1 /\ reports'[k + 1] = pub /\ \A i \in 1 .. k : reports'[i] = reports[i]
      /\ ~due => reports' = reports
  <2>1. CASE due
    BY <1>1, <1>2, <2>1, AppendProperties
  <2>2. CASE ~due
    BY <1>1, <1>2, <2>2
  <2> QED
    BY <2>1, <2>2
<1>7. ProbeTypeOK'
  BY <1>1, <1>2, <1>3, <1>4, <1>5, <1>6 DEF ProbeTypeOK
<1>8. ASSUME ReportInterval > 0 PROVE IntervalsKept'
  <2>1. /\ pub \in Nat \ {0} /\ last_report \in Nat
        /\ \A i \in 1 .. m : all[i].pub \in Nat \ {0}
        /\ \A i \in 1 .. k : reports[i] \in Nat \ {0}
    <3>1. ASSUME NEW t \in Times PROVE t \in Nat \ {0}
      BY TimesAreNumbers, Zenon
    <3>2. pub \in Nat \ {0}
      BY <1>1, <3>1, Zenon
    <3>3. last_report \in Nat
      BY <1>1, <3>1
    <3>4. \A i \in 1 .. m : all[i].pub \in Nat \ {0}
      BY <1>1, <3>1, Zenon
    <3>5. \A i \in 1 .. k : reports[i] \in Nat \ {0}
      BY <1>1, <3>1, Zenon
    <3> QED
      BY <3>2, <3>3, <3>4, <3>5
  <2>2. last_report' = IF due THEN pub ELSE Since(pub)
    BY <1>1, <1>2, <1>8
  <2>3. CASE m = 0
    <3>1. all = <<>> /\ last_report = 0 /\ reports = <<>> /\ k = 0
      BY <1>1, <1>8, <2>3, EmptySeq DEF ProbeInv, IntervalsKept
    <3>2. Since(pub) = pub
      BY <3>1 DEF Since
    <3>3. pub <= pub /\ pub - pub = 0
      BY <2>1
    <3>4. ~due
      BY <1>1, <1>8, <3>2, <3>3, InOrderNoWrap
    <3>5. reports' = <<>> /\ last_report' = pub /\ Len(reports') = 0
      BY <1>6, <2>2, <3>1, <3>2, <3>4
    <3>6. Len(all') = 1 /\ all'[1].pub = pub
      BY <1>3, <2>3
    <3> QED
      BY <1>1, <1>3, <1>8, <2>1, <3>3, <3>5, <3>6 DEF IntervalsKept
  <2>4. CASE m # 0
    <3>1. all # <<>> /\ m \in 1 .. m /\ 1 \in 1 .. m
      BY <1>1, <2>4, EmptySeq
    <3>2. /\ last_report = IF reports = <<>> THEN all[1].pub ELSE reports[k]
          /\ reports # <<>> => reports[1] - all[1].pub >= ReportInterval
          /\ \A i \in 1 .. k - 1 : reports[i + 1] - reports[i] >= ReportInterval
          /\ last_report <= all[m].pub
      BY <1>8, <3>1 DEF ProbeInv, IntervalsKept
    <3>3. reports # <<>> => k \in 1 .. k /\ k # 0
      BY <1>1, EmptySeq
    <3>4. last_report \in Times /\ last_report # 0
      BY <1>1, <2>1, <3>1, <3>2, <3>3
    <3>5. last_report <= pub
      <4>1. all[m].pub \in Nat \ {0}
        BY <2>1, <3>1, Zenon
      <4>2. last_report <= all[m].pub /\ all[m].pub <= pub
        BY <1>2, <2>4, <3>2
      <4> QED
        BY <2>1, <4>1, <4>2
    <3>6. Since(pub) = last_report /\ Minus(pub, Since(pub)) = pub - last_report
      BY <1>1, <3>4, <3>5, InOrderNoWrap DEF Since
    <3>7. Len(all') = m + 1 /\ all'[1] = all[1] /\ all'[m + 1].pub = pub
      BY <1>3, <3>1
    <3>8. CASE due
      <4>1. pub - last_report >= ReportInterval /\ last_report' = pub
        BY <2>2, <3>6, <3>8
      <4>2. /\ Len(reports') = k + 1 /\ reports'[k + 1] = pub
            /\ \A i \in 1 .. k : reports'[i] = reports[i]
        BY <1>6, <3>8
      <4>3. reports' # <<>>
        BY <1>1, <4>2
      <4>4. reports'[1] - all'[1].pub >= ReportInterval
        <5>1. CASE reports = <<>>
          <6>1. k = 0
            BY <5>1
          <6> QED
            BY <3>2, <3>7, <4>1, <4>2, <5>1, <6>1
        <5>2. CASE reports # <<>>
          <6>1. reports'[1] = reports[1]
            BY <1>1, <3>3, <4>2, <5>2
          <6> QED
            BY <3>2, <3>7, <5>2, <6>1
        <5> QED
          BY <5>1, <5>2
      <4>5. ASSUME NEW i \in 1 .. Len(reports') - 1
            PROVE  reports'[i + 1] - reports'[i] >= ReportInterval
        <5>1. CASE i = k
          <6>1. reports # <<>> /\ reports'[i] = reports[k]
            BY <1>1, <4>2, <5>1
          <6> QED
            BY <3>2, <4>1, <4>2, <5>1, <6>1
        <5>2. CASE i # k
          <6>1. i \in 1 .. k - 1 /\ reports'[i + 1] = reports[i + 1] /\ reports'[i] = reports[i]
            BY <1>1, <4>2, <5>2
          <6> QED
            BY <3>2, <6>1
        <5> QED
          BY <5>1, <5>2
      <4>6. last_report' <= all'[Len(all')].pub /\ all'[Len(all')].pub - last_report' < ReportInterval
        BY <1>1, <1>8, <2>1, <3>7, <4>1
      <4> QED
        BY <1>3, <4>1, <4>2, <4>3, <4>4, <4>5, <4>6 DEF IntervalsKept
    <3>9. CASE ~due
      <4>1. reports' = reports /\ last_report' = last_report
        BY <1>6, <2>2, <3>6, <3>9
      <4>2. pub - last_report < ReportInterval
        BY <1>1, <1>8, <2>1, <3>4, <3>6, <3>9
      <4> QED
        BY <1>3, <3>2, <3>5, <3>7, <4>1, <4>2 DEF IntervalsKept
    <3> QED
      BY <3>8, <3>9
  <2> QED
    BY <2>3, <2>4
<1> QED
  BY <1>4, <1>7, <1>8 DEF ProbeInv

\* The probe starts with an empty window, and every frame keeps the invariant.
LEMMA ProbeInvHolds == ProbeSpec => []ProbeInv
<1>1. ProbeInit => ProbeInv
  <2> SUFFICES ASSUME ProbeInit PROVE ProbeInv
    OBVIOUS
  <2>1. /\ recs = <<>> /\ all = <<>> /\ reports = <<>> /\ last_report = 0
        /\ recs \in Seq(Records) /\ all \in Seq(Records) /\ reports \in Seq(Times)
    BY EmptySeq DEF ProbeInit
  <2>2. Len(recs) = 0 /\ Len(all) = 0
    BY <2>1
  <2>3. ProbeTypeOK
    BY <2>1, <2>2, ProbeAssumption DEF ProbeTypeOK
  <2>4. WindowKept /\ IntervalsKept
    BY <2>1, <2>2 DEF WindowKept, IntervalsKept
  <2> QED
    BY <2>3, <2>4 DEF ProbeInv
<1>2. ProbeInv /\ [ProbeNext]_probeVars => ProbeInv'
  <2> SUFFICES ASSUME ProbeInv, [ProbeNext]_probeVars PROVE ProbeInv'
    OBVIOUS
  <2>1. ASSUME NEW cap \in Times, NEW pub \in Times, NEW inf \in Times,
               RecordFrame([cap |-> cap, inf |-> inf, pub |-> pub])
        PROVE  ProbeInv'
    <3>1. [cap |-> cap, inf |-> inf, pub |-> pub] \in Records
      BY DEF Records
    <3> QED
      BY <2>1, <3>1, RecordKeeps
  <2>2. CASE UNCHANGED probeVars
    BY <2>2 DEF probeVars, ProbeInv, ProbeTypeOK, WindowKept, IntervalsKept
  <2> QED
    BY <2>1, <2>2 DEF ProbeNext
<1> QED
  BY <1>1, <1>2, PTL DEF ProbeSpec

\* For every window, interval and width of the clock the window is never overfull, reports
\* are at least an interval apart, and none is overdue after a frame (perf_probe.hpp:28,
\* perf_probe.cpp:35-53).
THEOREM ReportsAreOnTime == ProbeSpec => [](ProbeTypeOK /\ ReportsOnTime)
<1>1. ProbeInv => ProbeTypeOK /\ ReportsOnTime
  <2> SUFFICES ASSUME ProbeInv, ReportInterval > 0, all # <<>> PROVE ReportsOnTime
    BY DEF ProbeInv, ReportsOnTime
  <2> DEFINE times == <<all[1].pub>> \o reports
             k == Len(reports)
  <2>1. IntervalsKept /\ reports \in Seq(Times) /\ k \in Nat
    BY ProbeTypes DEF ProbeInv
  <2>2. all[1].pub \in Times
    <3>1. all \in Seq(Records) /\ 1 \in 1 .. Len(all)
      BY ProbeTypes, EmptySeq
    <3> QED
      BY <3>1, PublishedAtTimes
  <2>3. Len(times) = k + 1 /\ times[1] = all[1].pub /\ \A i \in 2 .. k + 1 : times[i] = reports[i - 1]
    BY <2>1, <2>2, InFront
  <2> HIDE DEF times
  <2>4. ASSUME NEW i \in 1 .. Len(times) - 1 PROVE times[i + 1] - times[i] >= ReportInterval
    <3>1. times[i + 1] = reports[i] /\ k # 0 /\ i \in 1 .. k
      BY <2>1, <2>3
    <3>2. CASE i = 1
      <4>1. reports # <<>>
        BY <2>1, <3>1
      <4> QED
        BY <2>1, <2>3, <3>1, <3>2, <4>1 DEF IntervalsKept
    <3>3. CASE i # 1
      <4>1. times[i] = reports[i - 1] /\ i - 1 \in 1 .. k - 1 /\ (i - 1) + 1 = i
        BY <2>1, <2>3, <3>1, <3>3
      <4>2. reports[(i - 1) + 1] - reports[i - 1] >= ReportInterval
        BY <2>1, <4>1 DEF IntervalsKept
      <4> QED
        BY <3>1, <4>1, <4>2
    <3> QED
      BY <3>2, <3>3
  <2>5. times[Len(times)] = last_report
    <3>1. CASE reports = <<>>
      <4>1. k = 0
        BY <3>1
      <4> QED
        BY <2>1, <2>3, <3>1, <4>1 DEF IntervalsKept
    <3>2. CASE reports # <<>>
      <4>1. k + 1 \in 2 .. k + 1 /\ (k + 1) - 1 = k
        BY <2>1, <3>2, EmptySeq
      <4> QED
        BY <2>1, <2>3, <3>2, <4>1 DEF IntervalsKept
    <3> QED
      BY <3>1, <3>2
  <2>6. all[Len(all)].pub - times[Len(times)] < ReportInterval
    BY <2>1, <2>5 DEF IntervalsKept
  <2> QED
    BY <2>4, <2>6 DEF ReportsOnTime, times
<1> QED
  BY <1>1, ProbeInvHolds, PTL

-----------------------------------------------------------------------------
(* PerfProbe, statistics *)

\* Samples in order of size.
Ordered(s) == \A i, j \in 1 .. Len(s) : i <= j => s[i] <= s[j]

\* The rank of a percentile, in hundredths: a place and a part of the gap behind it
\* (perf_probe.cpp:14-18).
Percents == 0 .. 100
Parts == 0 .. 99
RankIs(n, p, lo, part) == p * (n - 1) = lo * 100 + part
Interpolated(s, lo, part) ==
  IF lo + 1 < Len(s) THEN 100 * s[lo + 1] + part * (s[lo + 2] - s[lo + 1]) ELSE 100 * s[lo + 1]

\* Where the rank of a percentile falls: between two neighbours, at a part of a hundred of
\* the gap (perf_probe.cpp:14-18).
LEMMA PercentileIs ==
  ASSUME NEW s \in Seq(Int), s # <<>>, NEW p \in Percents, NEW lo \in Int, NEW part \in Parts,
         RankIs(Len(s), p, lo, part)
  PROVE  Percentile(s, p) = Interpolated(s, lo, part)
<1> DEFINE n == Len(s)
           a == p * (n - 1)
<1>1. n \in Nat
  BY LenProperties
<1>2. a \in Int /\ a = lo * 100 + part /\ part \in 0 .. 99
  BY <1>1 DEF RankIs, Percents, Parts
<1> HIDE DEF a
<1>3. lo * 100 <= a /\ a < (lo + 1) * 100
  BY <1>2
<1>4. a \div 100 = lo
  BY <1>2, <1>3, DivisionIs
<1>5. a % 100 = part
  BY <1>2, RemainderIs
<1> QED
  BY <1>4, <1>5 DEF a, Percentile, Interpolated

\* The rank of every percentile is a place and a part of a hundred, and falls on a place
\* that exists.
LEMMA RankOf ==
  ASSUME NEW n \in Nat, n > 0, NEW p \in Percents
  PROVE  \E lo \in 0 .. n - 1, part \in Parts : RankIs(n, p, lo, part) /\ (lo = n - 1 => part = 0)
<1> USE DEF Percents
<1> DEFINE a == p * (n - 1)
<1>1. a \in Int /\ 0 <= a /\ a <= 100 * (n - 1)
  <2>1. n - 1 \in Nat /\ 100 - p \in Nat
    OBVIOUS
  <2>2. (100 - p) * (n - 1) >= 0 /\ p * (n - 1) >= 0
    BY <2>1
  <2>3. (100 - p) * (n - 1) = 100 * (n - 1) - p * (n - 1) /\ p * (n - 1) \in Int
    OBVIOUS
  <2> QED
    BY <2>2, <2>3
<1> HIDE DEF a
<1>2. PICK lo \in Int : a = lo * 100 + (a % 100) /\ a % 100 \in 0 .. 99
  <2>1. a \in Int /\ 100 \in Nat \ {0} /\ 100 - 1 = 99
    BY <1>1
  <2>2. \E lo \in Int : a = lo * 100 + (a % 100) /\ a % 100 \in 0 .. 100 - 1
    <3> DEFINE b == 100
    <3>1. a \in Int /\ b \in Nat \ {0}
      BY <2>1
    <3> HIDE DEF b
    <3>2. \E lo \in Int : a = lo * b + (a % b) /\ a % b \in 0 .. b - 1
      BY <3>1, BlocksAndRest, Zenon
    <3> QED
      BY <3>2 DEF b
  <2> QED
    BY <2>1, <2>2
<1>3. lo \in 0 .. n - 1 /\ (lo = n - 1 => a % 100 = 0)
  BY <1>1, <1>2
<1> QED
  BY <1>2, <1>3 DEF a, RankIs, Parts

\* A part of a gap grows with the part, and is no more than the gap.
LEMMA PartOfGap ==
  ASSUME NEW gap \in Nat, NEW q \in 0 .. 99, NEW r \in 0 .. q
  PROVE  0 <= r * gap /\ r * gap <= q * gap /\ q * gap <= 100 * gap
         /\ r * gap \in Int /\ q * gap \in Int
<1>1. 0 <= (q - r) * gap /\ (q - r) * gap = q * gap - r * gap
  BY q - r \in Nat
<1>2. 0 <= (100 - q) * gap /\ (100 - q) * gap = 100 * gap - q * gap
  BY 100 - q \in Nat
<1>3. 0 <= r * gap /\ r * gap \in Int /\ q * gap \in Int
  OBVIOUS
<1> QED
  BY <1>1, <1>2, <1>3

\* A percentile lies between the samples next to its rank.
LEMMA BetweenNeighbours ==
  ASSUME NEW s \in Seq(Int), s # <<>>, Ordered(s), NEW p \in Percents,
         NEW lo \in 0 .. Len(s) - 1, NEW part \in Parts, RankIs(Len(s), p, lo, part)
  PROVE  /\ Percentile(s, p) \in Int /\ 100 * s[lo + 1] <= Percentile(s, p)
         /\ lo + 1 < Len(s) => Percentile(s, p) <= 100 * s[lo + 2]
         /\ ~(lo + 1 < Len(s)) => Percentile(s, p) <= 100 * s[lo + 1]
<1> DEFINE n == Len(s)
<1>1. n \in Nat /\ \A i \in 1 .. n : s[i] \in Int
  BY LenProperties, ElementOfSeq
<1>2. Percentile(s, p) = IF lo + 1 < n THEN 100 * s[lo + 1] + part * (s[lo + 2] - s[lo + 1])
                         ELSE 100 * s[lo + 1]
  <2>1. lo \in Int
    BY <1>1
  <2>2. Percentile(s, p) = Interpolated(s, lo, part)
    BY <2>1, PercentileIs, Zenon
  <2> QED
    BY <2>2, Zenon DEF Interpolated
<1>3. s[lo + 1] \in Int
  BY <1>1
<1>4. CASE lo + 1 < n
  <2>1. s[lo + 2] \in Int /\ s[lo + 1] <= s[lo + 2]
    BY <1>1, <1>4 DEF Ordered
  <2> DEFINE a == s[lo + 1]
             b == s[lo + 2]
             gap == b - a
  <2>2. a \in Int /\ b \in Int /\ gap \in Nat /\ gap = b - a
    BY <1>3, <2>1
  <2>3. Percentile(s, p) = 100 * a + part * gap
    BY <1>2, <1>4
  <2> HIDE DEF gap, a, b
  <2>4. part \in 0 .. part /\ part \in 0 .. 99
    BY DEF Parts
  <2>5. 0 <= part * gap /\ part * gap <= 100 * gap /\ part * gap \in Int
    BY <2>2, <2>4, PartOfGap
  <2>6. Percentile(s, p) \in Int /\ 100 * a <= Percentile(s, p) /\ Percentile(s, p) <= 100 * b
    BY <2>2, <2>3, <2>5
  <2> QED
    BY <1>4, <2>6 DEF a, b
<1>5. CASE ~(lo + 1 < n)
  BY <1>2, <1>3, <1>5
<1> QED
  BY <1>4, <1>5

\* Percentiles lie between the least sample and the greatest, in order (perf_probe.cpp:11-19).
LEMMA PercentilesInOrder ==
  ASSUME NEW s \in Seq(Int), s # <<>>, Ordered(s), NEW p \in Percents, NEW q \in Percents, p <= q
  PROVE  /\ Percentile(s, p) \in Int /\ Percentile(s, q) \in Int
         /\ 100 * s[1] <= Percentile(s, p) /\ Percentile(s, p) <= Percentile(s, q)
         /\ Percentile(s, q) <= 100 * s[Len(s)]
<1> DEFINE n == Len(s)
<1>1. n \in Nat /\ n > 0 /\ \A i \in 1 .. n : s[i] \in Int
  BY LenProperties, ElementOfSeq, EmptySeq
<1>2. PICK lo \in 0 .. n - 1, part \in Parts : RankIs(n, p, lo, part) /\ (lo = n - 1 => part = 0)
  <2> HIDE DEF n
  <2> QED
    BY <1>1, RankOf, Zenon
<1>3. PICK hi \in 0 .. n - 1, rest \in Parts : RankIs(n, q, hi, rest) /\ (hi = n - 1 => rest = 0)
  <2> HIDE DEF n
  <2> QED
    BY <1>1, RankOf, Zenon
<1>4. Percentile(s, p) = IF lo + 1 < n THEN 100 * s[lo + 1] + part * (s[lo + 2] - s[lo + 1])
                          ELSE 100 * s[lo + 1]
  <2>1. lo \in Int
    BY <1>1
  <2> QED
    BY <1>2, <2>1, PercentileIs, Zenon DEF Interpolated
<1>5. Percentile(s, q) = IF hi + 1 < n THEN 100 * s[hi + 1] + rest * (s[hi + 2] - s[hi + 1])
                          ELSE 100 * s[hi + 1]
  <2>1. hi \in Int
    BY <1>1
  <2> QED
    BY <1>3, <2>1, PercentileIs, Zenon DEF Interpolated
<1>6. /\ Percentile(s, p) \in Int /\ 100 * s[lo + 1] <= Percentile(s, p)
      /\ lo + 1 < n => Percentile(s, p) <= 100 * s[lo + 2]
      /\ ~(lo + 1 < n) => Percentile(s, p) <= 100 * s[lo + 1]
  BY <1>2, BetweenNeighbours
<1>7. /\ Percentile(s, q) \in Int /\ 100 * s[hi + 1] <= Percentile(s, q)
      /\ hi + 1 < n => Percentile(s, q) <= 100 * s[hi + 2]
      /\ ~(hi + 1 < n) => Percentile(s, q) <= 100 * s[hi + 1]
  BY <1>3, BetweenNeighbours
<1>8. lo * 100 + part <= hi * 100 + rest
  <2>1. 0 <= (q - p) * (n - 1) /\ (q - p) * (n - 1) = q * (n - 1) - p * (n - 1)
    <3> DEFINE k == n - 1
               d == q - p
    <3>1. k \in Nat /\ d \in Nat /\ d = q - p
      BY <1>1 DEF Percents
    <3> HIDE DEF k, d
    <3>2. 0 <= d * k /\ d * k = q * k - p * k
      BY <3>1 DEF Percents
    <3> QED
      BY <3>2 DEF k, d
  <2>2. p * (n - 1) \in Int /\ q * (n - 1) \in Int
    BY <1>1 DEF Percents
  <2> QED
    BY <1>2, <1>3, <2>1, <2>2 DEF RankIs
<1>9. lo < hi \/ (lo = hi /\ part <= rest)
  BY <1>8 DEF Parts
<1>10. 100 * s[1] <= Percentile(s, p)
  <2>1. s[1] <= s[lo + 1] /\ s[1] \in Int /\ s[lo + 1] \in Int
    BY <1>1 DEF Ordered
  <2> QED
    BY <1>6, <2>1
<1>11. Percentile(s, q) <= 100 * s[n]
  <2>1. CASE hi + 1 < n
    <3>1. s[hi + 2] <= s[n] /\ s[hi + 2] \in Int /\ s[n] \in Int
      BY <1>1, <2>1 DEF Ordered
    <3> QED
      BY <1>7, <2>1, <3>1
  <2>2. CASE ~(hi + 1 < n)
    <3>1. hi + 1 = n
      BY <1>1, <2>2
    <3> QED
      BY <1>7, <2>2, <3>1
  <2> QED
    BY <2>1, <2>2
<1>12. Percentile(s, p) <= Percentile(s, q)
  <2>1. CASE lo < hi
    <3>1. lo + 1 < n /\ s[lo + 2] <= s[hi + 1] /\ s[lo + 2] \in Int /\ s[hi + 1] \in Int
      BY <1>1, <2>1 DEF Ordered
    <3> QED
      BY <1>6, <1>7, <3>1
  <2>2. CASE lo = hi /\ part <= rest /\ lo + 1 < n
    <3> DEFINE a == s[lo + 1]
               gap == s[lo + 2] - s[lo + 1]
    <3>1. s[lo + 1] <= s[lo + 2] /\ s[lo + 1] \in Int /\ s[lo + 2] \in Int
      BY <1>1, <2>2 DEF Ordered
    <3>2. a \in Int /\ gap \in Nat
      BY <3>1
    <3>3. Percentile(s, p) = 100 * a + part * gap /\ Percentile(s, q) = 100 * a + rest * gap
      BY <1>4, <1>5, <2>2, Zenon
    <3> HIDE DEF a, gap
    <3>4. part \in 0 .. rest /\ rest \in 0 .. 99
      BY <2>2 DEF Parts
    <3>5. part * gap <= rest * gap /\ part * gap \in Int /\ rest * gap \in Int
      BY <3>2, <3>4, PartOfGap
    <3> QED
      BY <3>2, <3>3, <3>5
  <2>3. CASE lo = hi /\ ~(lo + 1 < n)
    BY <1>6, <1>7, <2>3, <1>1
  <2> QED
    BY <1>9, <2>1, <2>2, <2>3
<1> QED
  BY <1>6, <1>7, <1>10, <1>11, <1>12

UpsideDown(s, top) == [i \in 1 .. Len(s) |-> top - s[Len(s) + 1 - i]]

\* Samples turned upside down have the percentile from the other side: what is above is
\* treated as what is below (perf_probe.cpp:14-18).
LEMMA PercentileMirrored ==
  ASSUME NEW s \in Seq(Int), s # <<>>, NEW top \in Int, NEW p \in Percents
  PROVE  Percentile(UpsideDown(s, top), 100 - p) = 100 * top - Percentile(s, p)
<1> DEFINE n == Len(s)
           q == 100 - p
           t == UpsideDown(s, top)
<1>1. n \in Nat /\ n > 0 /\ \A i \in 1 .. n : s[i] \in Int
  BY LenProperties, ElementOfSeq, EmptySeq
<1>2. t \in Seq(Int) /\ Len(t) = n /\ \A i \in 1 .. n : t[i] = top - s[n + 1 - i]
  <2>1. \A i \in 1 .. n : n + 1 - i \in 1 .. n
    BY <1>1
  <2>2. t \in [1 .. n -> Int] /\ \A i \in 1 .. n : t[i] = top - s[n + 1 - i]
    BY <1>1, <2>1 DEF UpsideDown
  <2>3. t \in Seq(Int) /\ DOMAIN t = 1 .. n
    <3> HIDE DEF t, n
    <3> QED
      BY <1>1, <2>2, SeqDef
  <2>4. Len(t) = n
    BY <1>1, <2>3, LenProperties
  <2> QED
    BY <2>2, <2>3, <2>4
<1> SUFFICES Percentile(t, q) = 100 * top - Percentile(s, p)
  OBVIOUS
<1> HIDE DEF t
<1>3. PICK lo \in 0 .. n - 1, part \in Parts : RankIs(n, p, lo, part) /\ (lo = n - 1 => part = 0)
  <2> HIDE DEF n
  <2> QED
    BY <1>1, RankOf, Zenon
<1>4. Percentile(s, p) = IF lo + 1 < n THEN 100 * s[lo + 1] + part * (s[lo + 2] - s[lo + 1])
                         ELSE 100 * s[lo + 1]
  <2>1. lo \in Int
    BY <1>1
  <2> QED
    BY <1>3, <2>1, PercentileIs, Zenon DEF Interpolated
<1>5. t # <<>> /\ q \in Percents /\ t \in Seq(Int)
  BY <1>2, <1>1, EmptySeq DEF Percents
<1>6. q * (n - 1) = (n - 1 - lo) * 100 - part
  <2> DEFINE k == n - 1
  <2>1. k \in Int
    BY <1>1
  <2>2. p * k = lo * 100 + part /\ p \in 0 .. 100 /\ part \in 0 .. 99
    BY <1>3 DEF RankIs, Percents, Parts
  <2> HIDE DEF k
  <2>3. (100 - p) * k = 100 * k - p * k
    BY <2>1, <2>2
  <2>4. (100 - p) * k = (k - lo) * 100 - part
    BY <2>1, <2>2, <2>3
  <2> QED
    BY <2>4 DEF k
<1>7. CASE part = 0
  <2> DEFINE hi == n - 1 - lo
  <2>1. hi \in 0 .. n - 1 /\ 0 \in 0 .. 99 /\ q * (n - 1) = hi * 100 + 0
    BY <1>1, <1>6, <1>7
  <2>2. Percentile(t, q) = IF hi + 1 < n THEN 100 * t[hi + 1] + 0 * (t[hi + 2] - t[hi + 1])
                           ELSE 100 * t[hi + 1]
    <3> DEFINE none == 0
    <3>1. hi \in Int /\ none \in Parts /\ RankIs(Len(t), q, hi, none)
      BY <1>2, <1>1, <2>1 DEF RankIs, Parts
    <3> HIDE DEF hi, q, none
    <3>2. Percentile(t, q) = Interpolated(t, hi, none)
      BY <1>5, <3>1, PercentileIs, Zenon
    <3> QED
      BY <1>2, <3>2, Zenon DEF none, Interpolated
  <2>3. n + 1 - (hi + 1) = lo + 1 /\ hi + 1 \in 1 .. n
    BY <1>1
  <2>4. t[hi + 1] = top - s[lo + 1]
    BY <1>2, <2>3
  <2>5. s[lo + 1] \in Int /\ t[hi + 1] \in Int
    BY <1>1, <2>4
  <2>6. Percentile(t, q) = 100 * t[hi + 1]
    <3> DEFINE u == t[hi + 1]
               v == t[hi + 2]
    <3>1. u \in Int /\ (hi + 1 < n => v \in Int)
      BY <1>2, <1>1, <2>1, <2>5, ElementOfSeq
    <3>2. Percentile(t, q) = IF hi + 1 < n THEN 100 * u + 0 * (v - u) ELSE 100 * u
      BY <2>2, Zenon
    <3> HIDE DEF u, v, hi, q
    <3>3. Percentile(t, q) = 100 * u
      BY <3>1, <3>2
    <3> QED
      BY <3>3 DEF u
  <2>7. Percentile(s, p) = 100 * s[lo + 1]
    <3> DEFINE u == s[lo + 1]
               v == s[lo + 2]
    <3>1. u \in Int /\ (lo + 1 < n => v \in Int)
      BY <1>1, <2>5
    <3>2. Percentile(s, p) = IF lo + 1 < n THEN 100 * u + 0 * (v - u) ELSE 100 * u
      BY <1>4, <1>7, Zenon
    <3> HIDE DEF u, v
    <3>3. Percentile(s, p) = 100 * u
      BY <3>1, <3>2
    <3> QED
      BY <3>3 DEF u
  <2> QED
    BY <2>4, <2>5, <2>6, <2>7
<1>8. CASE part # 0
  <2> DEFINE hi == n - 2 - lo
             a == s[lo + 1]
             b == s[lo + 2]
  <2>1. lo + 1 < n
    BY <1>1, <1>3, <1>8
  <2>2. hi \in 0 .. n - 1 /\ hi + 1 < n /\ 100 - part \in 0 .. 99
        /\ q * (n - 1) = hi * 100 + (100 - part)
    BY <1>1, <1>6, <1>8, <2>1 DEF Parts
  <2>3. Percentile(t, q) = 100 * t[hi + 1] + (100 - part) * (t[hi + 2] - t[hi + 1])
    <3> DEFINE left == 100 - part
    <3>1. /\ hi \in Int /\ left \in Parts /\ RankIs(Len(t), q, hi, left) /\ hi + 1 < Len(t)
      BY <1>2, <1>1, <2>2 DEF RankIs, Parts
    <3> HIDE DEF hi, q, left
    <3>2. Percentile(t, q) = Interpolated(t, hi, left)
      BY <1>5, <3>1, PercentileIs, Zenon
    <3> QED
      BY <3>1, <3>2, Zenon DEF Interpolated, left
  <2>4. t[hi + 1] = top - b
    <3>1. n + 1 - (hi + 1) = lo + 2 /\ hi + 1 \in 1 .. n
      BY <1>1, <2>1
    <3> QED
      BY <1>2, <3>1
  <2>5. t[hi + 2] = top - a
    <3>1. n + 1 - (hi + 2) = lo + 1 /\ hi + 2 \in 1 .. n
      BY <1>1, <2>1
    <3> QED
      BY <1>2, <3>1
  <2>6. a \in Int /\ b \in Int
    BY <1>1, <2>1
  <2>7. Percentile(s, p) = 100 * a + part * (b - a)
    BY <1>4, <2>1
  <2> HIDE DEF a, b
  <2>8. (100 - part) * (b - a) = 100 * (b - a) - part * (b - a) /\ part * (b - a) \in Int
    BY <2>6 DEF Parts
  <2>9. (top - a) - (top - b) = b - a
    BY <2>6
  <2> QED
    BY <2>3, <2>4, <2>5, <2>6, <2>7, <2>8, <2>9
<1> QED
  BY <1>7, <1>8

\* The latencies of the window: in order of size, one for each frame whose times are in
\* order, and each of them that of such a frame (perf_probe.cpp:61-76).
LEMMA LatenciesAreReal ==
  ASSUME ProbeInv, NEW from \in {"cap", "inf"}, NEW to \in {"inf", "pub"}
  PROVE  /\ Latencies(from, to) \in Seq(Int) /\ Ordered(Latencies(from, to))
         /\ \A k \in 1 .. Len(Latencies(from, to)) : \E i \in 1 .. Len(recs) :
              recs[i][from] + Latencies(from, to)[k] = recs[i][to]
         /\ \A i \in 1 .. Len(recs) : recs[i][from] <= recs[i][to] =>
              \E k \in 1 .. Len(Latencies(from, to)) :
                recs[i][from] + Latencies(from, to)[k] = recs[i][to]
         /\ Len(Latencies(from, to))
              = Cardinality({i \in 1 .. Len(recs) : recs[i][from] <= recs[i][to]})
<1> DEFINE n == Len(recs)
           frames == {i \in DOMAIN recs : recs[i][to] >= recs[i][from]}
           took == [i \in frames |-> Minus(recs[i][to], recs[i][from])]
           upTo(i) == {j \in frames : took[j] <= took[i]}
           reaching(k) == {i \in frames : Cardinality(upTo(i)) >= k}
           first(k) == CHOOSE i \in reaching(k) : \A j \in reaching(k) : took[i] <= took[j]
           c == Cardinality(frames)
           l == Latencies(from, to)
<1>1. n \in Nat /\ DOMAIN recs = 1 .. n /\ \A i \in 1 .. n : recs[i][from] \in Times /\ recs[i][to] \in Times
  <2>1. n \in Nat /\ DOMAIN recs = 1 .. n /\ recs \in Seq(Records)
    BY ProbeTypes
  <2>2. ASSUME NEW i \in 1 .. n PROVE recs[i][from] \in Times /\ recs[i][to] \in Times
    <3>1. recs[i] \in Records
      BY <2>1, ElementOfSeq
    <3> QED
      BY <3>1 DEF Records
  <2> QED
    BY <2>1, <2>2
<1>2. frames \in SUBSET (1 .. n) /\ IsFiniteSet(frames) /\ c \in Nat
  <2>1. frames \in SUBSET (1 .. n)
    BY <1>1
  <2>2. IsFiniteSet(1 .. n)
    BY <1>1, FS_Interval
  <2>3. IsFiniteSet(frames)
    BY <2>1, <2>2, FS_Subset
  <2> QED
    BY <2>1, <2>3, FS_CardinalityType
<1>3. took \in [frames -> Int] /\ \A i \in frames : recs[i][from] + took[i] = recs[i][to]
  <2>1. ASSUME NEW i \in frames PROVE took[i] \in Int /\ recs[i][from] + took[i] = recs[i][to]
    <3>1. recs[i][from] \in Times /\ recs[i][to] \in Times /\ recs[i][from] <= recs[i][to]
      BY <1>1, <1>2, TimesAreNumbers
    <3> DEFINE a == recs[i][from]
               b == recs[i][to]
    <3>2. took[i] = b - a
      BY <3>1, InOrderNoWrap
    <3>3. a \in Nat /\ b \in Nat
      BY <3>1, TimesAreNumbers, Zenon
    <3> HIDE DEF a, b, took
    <3>4. took[i] \in Int /\ a + took[i] = b
      BY <3>2, <3>3
    <3> QED
      BY <3>4 DEF a, b
  <2> QED
    BY <2>1
<1>4. l = [k \in 1 .. c |-> took[first(k)]]
  BY DEF Latencies
<1> HIDE DEF frames, took, l
<1>5. ASSUME NEW k \in 1 .. c PROVE reaching(k) # {}
  <2>1. frames # {}
    BY <1>2, <1>5, FS_EmptySet
  <2>2. PICK x \in frames : \A y \in frames : took[y] <= took[x]
    BY <1>2, <1>3, <2>1, GreatestAt, Zenon
  <2>3. upTo(x) = frames
    BY <2>2
  <2>4. Cardinality(upTo(x)) >= k
    <3>1. Cardinality(upTo(x)) = c
      BY <2>3, Zenon
    <3> HIDE DEF c, upTo
    <3> QED
      BY <1>2, <3>1
  <2> HIDE DEF upTo
  <2> QED
    BY <2>2, <2>4
<1>6. ASSUME NEW k \in 1 .. c
      PROVE  first(k) \in reaching(k) /\ \A j \in reaching(k) : took[first(k)] <= took[j]
  <2> DEFINE R == reaching(k)
             f == [i \in R |-> took[i]]
  <2>1. R \in SUBSET frames /\ R # {}
    BY <1>5
  <2>2. IsFiniteSet(R) /\ f \in [R -> Int]
    BY <1>2, <1>3, <2>1, FS_Subset
  <2>3. PICK i \in R : \A j \in R : f[i] <= f[j]
    <3> HIDE DEF R, f
    <3> QED
      BY <2>1, <2>2, LeastAt, Zenon
  <2>4. \E x \in R : \A j \in R : took[x] <= took[j]
    BY <2>3
  <2> HIDE DEF R
  <2> QED
    BY <2>4, Zenon DEF R
<1>7. ASSUME NEW i \in 1 .. c, NEW j \in 1 .. c, i <= j PROVE l[i] <= l[j]
  <2>1. first(j) \in reaching(j)
    BY <1>6
  <2>2. IsFiniteSet(upTo(first(j)))
    BY <1>2, FS_Subset
  <2>3. Cardinality(upTo(first(j))) \in Nat
    BY <2>2, FS_CardinalityType
  <2>4. first(j) \in reaching(i)
    <3> HIDE DEF first, upTo
    <3> QED
      BY <1>2, <1>7, <2>1, <2>3
  <2> HIDE DEF first, reaching
  <2> QED
    BY <1>4, <1>6, <2>4
<1>8. \A k \in 1 .. c : first(k) \in frames /\ l[k] = took[first(k)]
  <2> TAKE k \in 1 .. c
  <2>1. first(k) \in reaching(k)
    BY <1>6
  <2> HIDE DEF first
  <2> QED
    BY <1>4, <2>1
<1> HIDE DEF first
<1>9. l \in Seq(Int) /\ Len(l) = c
  <2>1. l \in [1 .. c -> Int]
    BY <1>3, <1>4, <1>8
  <2> QED
    BY <1>2, <2>1, SeqDef
<1>10. \A k \in 1 .. Len(l) : \E i \in 1 .. n : recs[i][from] + l[k] = recs[i][to]
  BY <1>2, <1>3, <1>8, <1>9
<1>11. Ordered(l)
  BY <1>7, <1>9 DEF Ordered
<1>12. ASSUME NEW i \in frames PROVE \E k \in 1 .. c : l[k] = took[i]
  <2> DEFINE k == Cardinality(upTo(i))
  <2>1. upTo(i) \in SUBSET frames /\ i \in upTo(i) /\ took[i] \in Int
    BY <1>3
  <2>2. IsFiniteSet(upTo(i)) /\ Cardinality(upTo(i)) <= c /\ Cardinality(upTo(i)) \in Nat
    BY <1>2, <2>1, FS_Subset, FS_CardinalityType
  <2>3. Cardinality(upTo(i)) # 0
    BY <2>1, <2>2, FS_EmptySet
  <2>4. k \in 1 .. c
    BY <1>2, <2>2, <2>3
  <2>5. i \in reaching(k)
    BY <2>2
  <2> HIDE DEF k
  <2>6. /\ first(k) \in reaching(k) /\ first(k) \in frames
        /\ took[first(k)] <= took[i] /\ took[first(k)] \in Int
    BY <1>3, <1>6, <1>8, <2>4, <2>5
  <2> DEFINE x == first(k)
  <2> HIDE DEF x
  <2>7. /\ x \in frames /\ took[x] <= took[i] /\ took[x] \in Int
        /\ Cardinality(upTo(x)) >= k
    BY <2>6 DEF x
  <2>8. ASSUME took[x] < took[i] PROVE FALSE
    <3>1. upTo(x) \in SUBSET upTo(i) /\ i \notin upTo(x)
      BY <1>3, <2>1, <2>7, <2>8
    <3>2. upTo(x) # upTo(i)
      BY <2>1, <3>1
    <3>3. /\ IsFiniteSet(upTo(x)) /\ Cardinality(upTo(x)) \in Nat
          /\ Cardinality(upTo(x)) <= Cardinality(upTo(i))
          /\ Cardinality(upTo(x)) # Cardinality(upTo(i))
      <4> HIDE DEF upTo
      <4> QED
        BY <2>2, <3>1, <3>2, FS_Subset, FS_CardinalityType
    <3> HIDE DEF upTo
    <3> QED
      BY <2>2, <2>7, <3>3 DEF k
  <2>9. took[x] = took[i]
    BY <2>1, <2>7, <2>8
  <2> QED
    BY <1>8, <2>4, <2>9 DEF x
<1>13. frames = {i \in 1 .. n : recs[i][from] <= recs[i][to]}
  <2>1. \A i \in 1 .. n : recs[i][from] \in Nat /\ recs[i][to] \in Nat
    BY <1>1, TimesAreNumbers
  <2> QED
    BY <1>1, <2>1 DEF frames
<1>14. \A i \in 1 .. n : recs[i][from] <= recs[i][to] =>
         \E k \in 1 .. Len(l) : recs[i][from] + l[k] = recs[i][to]
  BY <1>3, <1>9, <1>12, <1>13
<1>15. Len(l) = Cardinality({i \in 1 .. n : recs[i][from] <= recs[i][to]})
  BY <1>9, <1>13
<1> QED
  BY <1>9, <1>10, <1>11, <1>14, <1>15 DEF l

\* The frames recorded last are those of the window.
LEMMA RecentAreKept ==
  ASSUME ProbeInv
  PROVE  LET older == Len(all) - Len(recs)
             recent == {j \in DOMAIN all : j + Window > Len(all)}
         IN /\ older \in Int /\ recent = {i + older : i \in 1 .. Len(recs)}
            /\ \A i \in 1 .. Len(recs) : recs[i] = all[i + older]
<1> DEFINE older == Len(all) - Len(recs)
           recent == {j \in DOMAIN all : j + Window > Len(all)}
<1>1. /\ Len(recs) \in Nat /\ Len(all) \in Nat /\ DOMAIN all = 1 .. Len(all)
      /\ Len(recs) <= Window /\ Window \in Nat
  BY ProbeTypes, ProbeAssumption
<1>2. older >= 0 /\ (older > 0 => Len(recs) = Window) /\ older \in Int
  BY <1>1 DEF ProbeInv, WindowKept
<1>3. \A i \in 1 .. Len(recs) : recs[i] = all[i + older]
  <2> TAKE i \in 1 .. Len(recs)
  <2>1. i + older = older + i
    BY <1>1
  <2>2. recs[i] = all[older + i]
    BY DEF ProbeInv, WindowKept
  <2> QED
    BY <2>1, <2>2
<1>4. ASSUME NEW i \in 1 .. Len(recs) PROVE i + older \in recent
  BY <1>1, <1>2
<1>5. ASSUME NEW j \in recent PROVE j - older \in 1 .. Len(recs) /\ (j - older) + older = j
  <2>1. j \in 1 .. Len(all) /\ j + Window > Len(all)
    BY <1>1
  <2>2. CASE older = 0
    BY <1>1, <2>1, <2>2
  <2>3. CASE older > 0
    BY <1>1, <1>2, <2>1, <2>3
  <2> QED
    BY <1>2, <2>2, <2>3
<1>6. recent = {i + older : i \in 1 .. Len(recs)}
  <2> HIDE DEF older, recent
  <2> QED
    BY <1>4, <1>5
<1> QED
  BY <1>2, <1>3, <1>6

\* For every window and width of the clock the statistics are of frames that are in the
\* window, in order, and as fair to what is above as to what is below (perf_probe.cpp:11-19,
\* 35-36, 56-86).
THEOREM StatisticsAreReal == ProbeSpec => []StatsAreReal
<1>1. ProbeInv => StatsAreReal
  <2> SUFFICES ASSUME ProbeInv, NEW s \in Stages
               PROVE
        LET l == Latencies(s[1], s[2])
            n == Len(l)
            upsideDown == [i \in 1 .. n |-> 2 ^ Width - l[n + 1 - i]]
            recent == {j \in DOMAIN all : j + Window > Len(all)}
            inOrder == {j \in recent : all[j][s[1]] <= all[j][s[2]]}
        IN /\ \A i \in 1 .. n : \E j \in recent : all[j][s[1]] + l[i] = all[j][s[2]]
           /\ \A j \in inOrder : \E i \in 1 .. n : all[j][s[1]] + l[i] = all[j][s[2]]
           /\ n = Cardinality(inOrder)
           /\ l # <<>> =>
                /\ 100 * l[1] <= Percentile(l, 50) /\ Percentile(l, 50) <= Percentile(l, 95)
                /\ Percentile(l, 95) <= Percentile(l, 99) /\ Percentile(l, 99) <= 100 * l[n]
                /\ \A p \in {50, 95, 99} :
                     Percentile(upsideDown, 100 - p) = 100 * 2 ^ Width - Percentile(l, p)
    BY Zenon DEF StatsAreReal
  <2> DEFINE l == Latencies(s[1], s[2])
             n == Len(l)
             top == 2 ^ Width
             t == [i \in 1 .. n |-> top - l[n + 1 - i]]
             recent == {j \in DOMAIN all : j + Window > Len(all)}
             inOrder == {j \in recent : all[j][s[1]] <= all[j][s[2]]}
             older == Len(all) - Len(recs)
             kept == 1 .. Len(recs)
             keptInOrder == {i \in kept : recs[i][s[1]] <= recs[i][s[2]]}
  <2>1. s[1] \in {"cap", "inf"} /\ s[2] \in {"inf", "pub"}
    BY DEF Stages
  <2>2. /\ l \in Seq(Int) /\ Ordered(l)
        /\ \A k \in 1 .. n : \E i \in kept : recs[i][s[1]] + l[k] = recs[i][s[2]]
        /\ \A i \in kept : recs[i][s[1]] <= recs[i][s[2]] =>
              \E k \in 1 .. n : recs[i][s[1]] + l[k] = recs[i][s[2]]
        /\ n = Cardinality(keptInOrder)
    BY <2>1, LatenciesAreReal, Zenon
  <2> HIDE DEF l
  <2>3. top \in Int
    BY PowerIsPositive, ProbeAssumption
  <2>4. DOMAIN l = 1 .. n /\ n \in Nat
    BY <2>2, LenProperties
  <2>5. /\ \A i \in 1 .. n : \E j \in recent : all[j][s[1]] + l[i] = all[j][s[2]]
        /\ \A j \in inOrder : \E i \in 1 .. n : all[j][s[1]] + l[i] = all[j][s[2]]
        /\ n = Cardinality(inOrder)
    <3>1. /\ older \in Int /\ recent = {i + older : i \in kept}
          /\ \A i \in kept : recs[i] = all[i + older]
      BY RecentAreKept, Zenon
    <3>2. Len(recs) \in Nat /\ kept \in SUBSET Int /\ IsFiniteSet(kept)
      BY ProbeTypes, FS_Interval
    <3> HIDE DEF older, recent, kept
    <3>3. inOrder = {i + older : i \in keptInOrder}
      BY <3>1
    <3>4. keptInOrder \in SUBSET Int /\ IsFiniteSet(keptInOrder)
      BY <3>2, FS_Subset
    <3>5. Cardinality(inOrder) = Cardinality(keptInOrder)
      <4> HIDE DEF inOrder, keptInOrder
      <4> QED
        BY <3>1, <3>3, <3>4, Shifted
    <3>6. \A i \in 1 .. n : \E j \in recent : all[j][s[1]] + l[i] = all[j][s[2]]
      BY <2>2, <3>1
    <3>7. ASSUME NEW j \in inOrder
          PROVE  \E i \in 1 .. n : all[j][s[1]] + l[i] = all[j][s[2]]
      <4>1. PICK i \in kept : j = i + older
        BY <3>1
      <4>2. recs[i] = all[j] /\ all[j][s[1]] <= all[j][s[2]]
        BY <3>1, <4>1
      <4>3. \E k \in 1 .. n : recs[i][s[1]] + l[k] = recs[i][s[2]]
        BY <2>2, <4>2
      <4> QED
        BY <4>2, <4>3
    <3> QED
      BY <2>2, <3>5, <3>6, <3>7
  <2>6. ASSUME l # <<>>
        PROVE  /\ 100 * l[1] <= Percentile(l, 50) /\ Percentile(l, 50) <= Percentile(l, 95)
               /\ Percentile(l, 95) <= Percentile(l, 99) /\ Percentile(l, 99) <= 100 * l[n]
    <3>1. 50 \in Percents /\ 95 \in Percents /\ 99 \in Percents /\ 50 <= 95 /\ 95 <= 99
      BY DEF Percents
    <3> QED
      BY <2>2, <2>6, <3>1, PercentilesInOrder
  <2>7. ASSUME l # <<>>, NEW p \in Percents
        PROVE  Percentile(UpsideDown(l, top), 100 - p) = 100 * top - Percentile(l, p)
    <3> HIDE DEF top
    <3>1. l \in Seq(Int) /\ top \in Int
      BY <2>2, <2>3
    <3> HIDE DEF l
    <3> QED
      BY <2>7, <3>1, PercentileMirrored
  <2>8. l # <<>> => \A p \in {50, 95, 99} : Percentile(t, 100 - p) = 100 * top - Percentile(l, p)
    <3>1. t = UpsideDown(l, top)
      BY Zenon DEF UpsideDown
    <3> HIDE DEF l, t, top
    <3>2. 50 \in Percents /\ 95 \in Percents /\ 99 \in Percents
      BY DEF Percents
    <3> QED
      BY <2>7, <3>1, <3>2, Zenon
  <2> QED
    BY <2>5, <2>6, <2>8, Zenon DEF l
<1> QED
  BY <1>1, ProbeInvHolds, PTL

-----------------------------------------------------------------------------
(* HefIntegrity *)

\* The zeros of the standard's padding, counted.
ZerosAfter(n) == CHOOSE k \in 0 .. BlockSize - 1 : (n + 1 + k + LengthSize) % BlockSize = 0
ZerosOf(k) == [i \in 1 .. k |-> <<"zero">>]
Message(n, k) == Bytes(1, n) \o <<<<"pad">>>> \o ZerosOf(k)

\* For every length there is one number of zeros that fills the last block.
LEMMA ZerosFit ==
  ASSUME NEW n \in Nat
  PROVE  /\ ZerosAfter(n) \in 0 .. BlockSize - 1
         /\ (n + 1 + ZerosAfter(n) + LengthSize) % BlockSize = 0
         /\ \A k \in 0 .. BlockSize - 1 :
              (n + 1 + k + LengthSize) % BlockSize = 0 => k = ZerosAfter(n)
<1> DEFINE B == BlockSize
           t == n + 1 + LengthSize
           fits(k) == (t + k) % B = 0
<1>1. B \in Nat \ {0} /\ t \in Int /\ LengthSize \in Nat
  BY HashAssumption
<1>2. \E k \in 0 .. B - 1 : fits(k)
  <2> DEFINE m == -t
             k == m % B
  <2> HIDE DEF m
  <2>1. m \in Int /\ m = -t
    BY <1>1 DEF m
  <2>2. PICK q \in Int : m = q * B + k /\ k \in 0 .. B - 1
    BY <1>1, <2>1, BlocksAndRest
  <2> DEFINE p == -q
  <2> HIDE DEF k
  <2>3. t + k = p * B + 0
    <3>1. p * B = -(q * B) /\ q * B \in Int
      BY <1>1, <2>2
    <3> QED
      BY <1>1, <2>1, <2>2, <3>1
  <2>4. p \in Int
    BY <2>2
  <2> HIDE DEF p
  <2>5. (p * B + 0) % B = 0
    BY <1>1, <2>4, RemainderIs
  <2> QED
    BY <2>2, <2>3, <2>5
<1>3. \A k, l \in 0 .. B - 1 : fits(k) /\ fits(l) => ~(k < l)
  <2> SUFFICES ASSUME NEW k \in 0 .. B - 1, NEW l \in 0 .. B - 1, fits(k), fits(l), k < l PROVE FALSE
    OBVIOUS
  <2>1. t + k \in Int /\ l - k \in Int /\ (t + k) + (l - k) = t + l /\ l - k \in 1 .. B - 1
    BY <1>1
  <2> DEFINE c == t + k
             d == l - k
  <2>2. (c + d) % B = ((c % B) + d) % B
    BY <1>1, <2>1, RemainderOfSum
  <2>3. (c % B) + d = d
    BY <2>1
  <2>4. (0 * B + d) % B = d
    BY <1>1, <2>1, RemainderIs
  <2>5. 0 * B + d = d
    BY <1>1, <2>1
  <2> QED
    BY <2>1, <2>2, <2>3, <2>4, <2>5
<1>4. \A k \in 0 .. B - 1 : n + 1 + k + LengthSize = t + k
  BY <1>1
<1>5. ZerosAfter(n) = CHOOSE k \in 0 .. B - 1 : fits(k)
  BY <1>4, Zenon DEF ZerosAfter
<1> HIDE DEF B, t
<1> DEFINE z == CHOOSE k \in 0 .. B - 1 : fits(k)
<1>6. z \in 0 .. B - 1 /\ fits(z)
  BY <1>2, Zenon
<1> HIDE DEF z, fits
<1>7. \A k \in 0 .. B - 1 : fits(k) => k = z
  <2> SUFFICES ASSUME NEW k \in 0 .. B - 1, fits(k) PROVE k = z
    OBVIOUS
  <2>1. ~(k < z) /\ ~(z < k)
    BY <1>3, <1>6
  <2> QED
    BY <1>1, <1>6, <2>1
<1>8. ZerosAfter(n) = z
  BY <1>5 DEF z
<1> QED
  BY <1>4, <1>6, <1>7, <1>8 DEF B, fits

\* The pieces of a message are tokens, and of their lengths.
LEMMA BytesAre ==
  ASSUME NEW a \in Nat, NEW b \in Nat, a >= 1, b <= MaxLength, a <= b + 1
  PROVE  /\ Bytes(a, b) \in Seq(Tokens) /\ Len(Bytes(a, b)) = b - a + 1
         /\ \A i \in 1 .. b - a + 1 : Bytes(a, b)[i] = <<"byte", a + i - 1>>
<1>1. \A i \in 1 .. b - a + 1 : a + i - 1 \in 1 .. MaxLength
  BY HashAssumption
<1>2. \A i \in 1 .. b - a + 1 : <<"byte", a + i - 1>> \in Tokens
  BY <1>1 DEF Tokens
<1>3. b - a + 1 \in Nat
  OBVIOUS
<1> QED
  BY <1>2, <1>3 DEF Bytes

\* The mark of the end.
LEMMA PadIs == <<<<"pad">>>> \in Seq(Tokens) /\ Len(<<<<"pad">>>>) = 1
<1>1. <<"pad">> \in Tokens
  BY DEF Tokens
<1> QED
  BY <1>1

\* One zero.
LEMMA ZeroIs == /\ <<<<"zero">>>> \in Seq(Tokens) /\ Len(<<<<"zero">>>>) = 1
                /\ <<<<"zero">>>>[1] = <<"zero">>
<1>1. <<"zero">> \in Tokens
  BY DEF Tokens
<1> QED
  BY <1>1

\* Zeros.
LEMMA ZerosAre ==
  ASSUME NEW k \in Nat
  PROVE  /\ ZerosOf(k) \in Seq(Tokens) /\ Len(ZerosOf(k)) = k
         /\ \A i \in 1 .. k : ZerosOf(k)[i] = <<"zero">>
<1>1. <<"zero">> \in Tokens
  BY DEF Tokens
<1> QED
  BY <1>1 DEF ZerosOf

\* The length at the end tells lengths apart.
LEMMA LengthIs ==
  ASSUME NEW n \in 0 .. MaxLength
  PROVE  /\ LengthField(n) \in Seq(Tokens) /\ Len(LengthField(n)) = LengthSize
         /\ LengthField(n)[LengthSize] = <<"length", n, LengthSize>>
<1>1. n \in 0 .. MaxLength + BlockSize /\ LengthSize \in 1 .. LengthSize /\ LengthSize \in Nat
  BY HashAssumption
<1>2. \A i \in 1 .. LengthSize : <<"length", n, i>> \in Tokens
  BY <1>1 DEF Tokens
<1> QED
  BY <1>1, <1>2 DEF LengthField

\* Bytes read in two pieces are the bytes.
LEMMA BytesJoin ==
  ASSUME NEW a \in Nat, NEW b \in a .. MaxLength
  PROVE  Bytes(1, a) \o Bytes(a + 1, b) = Bytes(1, b)
<1> DEFINE s == Bytes(1, a)
           t == Bytes(a + 1, b)
           u == Bytes(1, b)
<1>1. MaxLength \in Nat /\ b \in Nat /\ a <= b /\ b <= MaxLength
  BY HashAssumption
<1>2. /\ s \in Seq(Tokens) /\ t \in Seq(Tokens) /\ u \in Seq(Tokens)
      /\ Len(s) = a /\ Len(t) = b - a /\ Len(u) = b
  <2>1. s \in Seq(Tokens) /\ Len(s) = a - 1 + 1
    BY <1>1, BytesAre
  <2>2. t \in Seq(Tokens) /\ Len(t) = b - (a + 1) + 1
    BY <1>1, BytesAre
  <2>3. u \in Seq(Tokens) /\ Len(u) = b - 1 + 1
    BY <1>1, BytesAre
  <2> HIDE DEF s, t, u
  <2> QED
    BY <1>1, <2>1, <2>2, <2>3
<1>3. /\ \A i \in 1 .. a : s[i] = <<"byte", i>>
      /\ \A i \in 1 .. b - a : t[i] = <<"byte", a + i>>
      /\ \A i \in 1 .. b : u[i] = <<"byte", i>>
  BY <1>1 DEF Bytes
<1> HIDE DEF s, t, u
<1>4. /\ s \o t \in Seq(Tokens) /\ Len(s \o t) = b
      /\ \A i \in 1 .. b : (s \o t)[i] = IF i <= a THEN s[i] ELSE t[i - a]
  <2>1. /\ s \o t \in Seq(Tokens) /\ Len(s \o t) = Len(s) + Len(t)
        /\ \A i \in 1 .. Len(s) + Len(t) : (s \o t)[i] = IF i <= Len(s) THEN s[i] ELSE t[i - Len(s)]
    BY <1>2, ConcatProperties, Zenon
  <2>2. Len(s) + Len(t) = b
    BY <1>1, <1>2
  <2> QED
    BY <1>2, <2>1, <2>2, Zenon
<1>5. ASSUME NEW i \in 1 .. b PROVE (s \o t)[i] = u[i]
  <2>1. CASE i <= a
    <3>1. i \in 1 .. a
      BY <1>1, <2>1
    <3> QED
      BY <1>3, <1>4, <2>1, <3>1
  <2>2. CASE ~(i <= a)
    <3>1. i - a \in 1 .. b - a /\ a + (i - a) = i
      BY <1>1, <2>2
    <3> QED
      BY <1>3, <1>4, <2>2, <3>1
  <2> QED
    BY <2>1, <2>2
<1>6. s \o t = u
  BY <1>2, <1>4, <1>5, SeqEqual
<1> QED
  BY <1>6 DEF s, t, u

\* The message with one more zero (hef_integrity.cpp:69-71).
LEMMA MessageGrows ==
  ASSUME NEW n \in 0 .. MaxLength, NEW k \in Nat
  PROVE  /\ Message(n, k) \in Seq(Tokens) /\ Len(Message(n, k)) = n + 1 + k
         /\ Message(n, 0) = Bytes(1, n) \o <<<<"pad">>>>
         /\ Message(n, k + 1) = Message(n, k) \o <<<<"zero">>>>
<1> DEFINE s == Bytes(1, n) \o <<<<"pad">>>>
           o == <<<<"zero">>>>
<1>1. n \in Nat /\ n <= MaxLength
  BY HashAssumption
<1>2. Bytes(1, n) \in Seq(Tokens) /\ Len(Bytes(1, n)) = n
  BY <1>1, BytesAre
<1>3. s \in Seq(Tokens) /\ Len(s) = n + 1
  BY <1>2, PadIs, ConcatProperties
<1>4. /\ o \in Seq(Tokens) /\ Len(o) = 1 /\ o[1] = <<"zero">>
      /\ ZerosOf(k) \in Seq(Tokens) /\ Len(ZerosOf(k)) = k
      /\ ZerosOf(k + 1) \in Seq(Tokens) /\ Len(ZerosOf(k + 1)) = k + 1
      /\ \A i \in 1 .. k : ZerosOf(k)[i] = <<"zero">>
      /\ \A i \in 1 .. k + 1 : ZerosOf(k + 1)[i] = <<"zero">>
  <2>1. k + 1 \in Nat
    OBVIOUS
  <2> QED
    BY <2>1, ZeroIs, ZerosAre
<1>5. \A j : Message(n, j) = s \o ZerosOf(j)
  BY DEF Message
<1> HIDE DEF s, o
<1>6. Message(n, k) \in Seq(Tokens) /\ Len(Message(n, k)) = n + 1 + k
  <2>1. s \o ZerosOf(k) \in Seq(Tokens) /\ Len(s \o ZerosOf(k)) = Len(s) + Len(ZerosOf(k))
    BY <1>3, <1>4, ConcatProperties, Zenon
  <2> QED
    BY <1>1, <1>3, <1>4, <1>5, <2>1
<1>7. ZerosOf(k) \o o = ZerosOf(k + 1)
  <2> DEFINE z == ZerosOf(k)
             y == ZerosOf(k + 1)
  <2> HIDE DEF z, y
  <2>1. /\ z \o o \in Seq(Tokens) /\ Len(z \o o) = Len(z) + Len(o)
        /\ \A i \in 1 .. Len(z) + Len(o) : (z \o o)[i] = IF i <= Len(z) THEN z[i] ELSE o[i - Len(z)]
    BY <1>4, ConcatProperties, Zenon DEF z
  <2>2. Len(z) = k /\ Len(z) + Len(o) = k + 1
    BY <1>4 DEF z
  <2>3. ASSUME NEW i \in 1 .. k + 1 PROVE (z \o o)[i] = y[i]
    <3>1. CASE i <= k
      <4>1. i \in 1 .. k
        BY <3>1
      <4>2. (z \o o)[i] = z[i]
        BY <2>1, <2>2, <3>1
      <4> QED
        BY <1>4, <4>1, <4>2 DEF z, y
    <3>2. CASE ~(i <= k)
      <4>1. i - k = 1
        BY <3>2
      <4>2. (z \o o)[i] = o[i - k]
        BY <2>1, <2>2, <3>2
      <4> QED
        BY <1>4, <4>1, <4>2 DEF z, y
    <3> QED
      BY <3>1, <3>2
  <2>4. z \o o = y
    BY <1>4, <2>1, <2>2, <2>3, SeqEqual DEF y
  <2> QED
    BY <2>4 DEF z, y
<1>8. Message(n, k + 1) = Message(n, k) \o o
  <2>1. (s \o ZerosOf(k)) \o o = s \o (ZerosOf(k) \o o)
    <3>1. s \in Seq(Tokens) /\ ZerosOf(k) \in Seq(Tokens) /\ o \in Seq(Tokens)
      BY <1>3, <1>4
    <3> QED
      BY <3>1, ConcatAssociative
  <2> QED
    BY <1>5, <1>7, <2>1, Zenon
<1>9. Message(n, 0) = s
  <2>1. ZerosOf(0) \in Seq(Tokens) /\ Len(ZerosOf(0)) = 0
    BY ZerosAre
  <2>2. ZerosOf(0) = <<>>
    BY <2>1
  <2> QED
    BY <1>3, <1>5, <2>2, ConcatEmptySeq
<1> QED
  BY <1>6, <1>8, <1>9 DEF s, o

\* The padded message ends with its length, which tells it from every other.
LEMMA PaddedTells ==
  ASSUME NEW n \in 0 .. MaxLength
  PROVE  /\ Padded(n) = Message(n, ZerosAfter(n)) \o LengthField(n)
         /\ Padded(n) \in Seq(Tokens) /\ Padded(n) # <<>>
         /\ Padded(n)[Len(Padded(n))] = <<"length", n, LengthSize>>
<1> DEFINE s == Message(n, ZerosAfter(n))
           t == LengthField(n)
<1>1. n \in Nat /\ LengthSize \in Nat \ {0} /\ BlockSize \in Nat
  BY HashAssumption
<1>2. ZerosAfter(n) \in Nat
  BY <1>1, ZerosFit
<1>3. Padded(n) = s \o t
  BY Zenon DEF Padded, ZerosAfter, Message, ZerosOf
<1>4. s \in Seq(Tokens) /\ Len(s) \in Nat
  <2> DEFINE k == ZerosAfter(n)
  <2> HIDE DEF k
  <2>1. k \in Nat
    BY <1>2 DEF k
  <2>2. Message(n, k) \in Seq(Tokens) /\ Len(Message(n, k)) = n + 1 + k
    BY <2>1, MessageGrows
  <2>3. s = Message(n, k)
    BY DEF k
  <2> HIDE DEF s
  <2> QED
    BY <1>1, <2>1, <2>2, <2>3
<1>5. t \in Seq(Tokens) /\ Len(t) = LengthSize /\ t[LengthSize] = <<"length", n, LengthSize>>
  BY LengthIs
<1> HIDE DEF s, t
<1>6. /\ s \o t \in Seq(Tokens) /\ Len(s \o t) = Len(s) + Len(t)
      /\ \A i \in 1 .. Len(s) + Len(t) : (s \o t)[i] = IF i <= Len(s) THEN s[i] ELSE t[i - Len(s)]
  BY <1>4, <1>5, ConcatProperties, Zenon
<1>7. Len(s \o t) = Len(s) + LengthSize /\ Len(s) + LengthSize # 0
  BY <1>1, <1>4, <1>5, <1>6
<1>8. (s \o t)[Len(s) + LengthSize] = t[LengthSize]
  <2>1. /\ Len(s) + LengthSize \in 1 .. Len(s) + Len(t) /\ ~(Len(s) + LengthSize <= Len(s))
        /\ (Len(s) + LengthSize) - Len(s) = LengthSize
    BY <1>1, <1>4, <1>5
  <2> QED
    BY <1>6, <2>1
<1>9. s \o t # <<>>
  BY <1>7
<1> QED
  BY <1>3, <1>5, <1>6, <1>7, <1>8, <1>9, Zenon DEF s, t

\* Everything the hash was given so far, wherever it is.
Fed == (eaten \o buf) \o data

HashTypes ==
  /\ length \in 0 .. MaxLength /\ pos \in 0 .. length
  /\ data \in Seq(Tokens) /\ buf \in Seq(Tokens) /\ eaten \in Seq(Tokens)
  /\ Len(buf) < BlockSize /\ Len(eaten) % BlockSize = 0
  /\ phase \in {"closed", "reading", "padding", "done", "failed"} /\ result \in Seq(Tokens)

\* Nothing is lost, doubled or swapped on its way through the buffer, and there are never
\* more zeros than the standard asks for.
FedRight ==
  /\ phase \in {"closed", "reading", "failed"} =>
       Fed = Bytes(1, pos) /\ total = pos /\ bits = 0 /\ result = <<>>
  /\ phase = "closed" => pos = 0
  /\ phase = "padding" =>
       \E k \in 0 .. ZerosAfter(pos) :
         Fed = Message(pos, k) /\ total = pos + 1 + k /\ bits = pos /\ result = <<>>
  /\ phase = "done" =>
       /\ data = <<>> /\ result = Padded(pos) /\ bits = pos
       /\ total \in bits + 1 .. bits + BlockSize

HashInv == HashTypes /\ FedRight

\* The numbers and sequences of a state.
LEMMA HashFacts ==
  ASSUME HashInv
  PROVE  /\ MaxLength \in Nat /\ BlockSize \in Nat \ {0} /\ LengthSize \in Nat \ {0}
         /\ LengthSize < BlockSize /\ length \in Nat /\ length <= MaxLength /\ pos \in 0 .. MaxLength
         /\ data \in Seq(Tokens) /\ buf \in Seq(Tokens) /\ eaten \in Seq(Tokens)
         /\ Len(data) \in Nat /\ Len(buf) \in Nat /\ Len(eaten) \in Nat /\ Len(buf) < BlockSize
         /\ eaten \o buf \in Seq(Tokens) /\ Len(eaten \o buf) = Len(eaten) + Len(buf)
         /\ Idle(phase) => Fed = eaten \o buf
<1>1. /\ MaxLength \in Nat /\ BlockSize \in Nat \ {0} /\ LengthSize \in Nat \ {0}
      /\ LengthSize < BlockSize
  BY HashAssumption
<1>2. /\ length \in Nat /\ length <= MaxLength /\ pos \in 0 .. MaxLength
      /\ data \in Seq(Tokens) /\ buf \in Seq(Tokens) /\ eaten \in Seq(Tokens)
      /\ Len(buf) < BlockSize
  BY <1>1 DEF HashInv, HashTypes
<1>3. Len(data) \in Nat /\ Len(buf) \in Nat /\ Len(eaten) \in Nat
  BY <1>2, LenProperties
<1>4. eaten \o buf \in Seq(Tokens) /\ Len(eaten \o buf) = Len(eaten) + Len(buf)
  BY <1>2, ConcatProperties, Zenon
<1>5. Idle(phase) => Fed = eaten \o buf
  BY <1>4, ConcatEmptySeq DEF Idle, Fed
<1> QED
  BY <1>1, <1>2, <1>3, <1>4, <1>5

\* A block that is full is compressed at once, and the order of the bytes stays.
LEMMA CopyKeeps == ASSUME HashInv, Copy PROVE HashInv'
<1> DEFINE room == BlockSize - Len(buf)
           n == IF Len(data) < room THEN Len(data) ELSE room
           first == SubSeq(data, 1, n)
           rest == SubSeq(data, n + 1, Len(data))
           full == buf \o first
<1>1. /\ data # <<>> /\ data' = rest /\ Compressed(full)
      /\ UNCHANGED <<length, pos, total, bits, phase, result>>
  BY DEF Copy
<1>2. /\ BlockSize \in Nat \ {0} /\ Len(data) \in Nat /\ Len(buf) \in Nat /\ Len(buf) < BlockSize
      /\ data \in Seq(Tokens) /\ buf \in Seq(Tokens) /\ eaten \in Seq(Tokens)
      /\ Len(eaten) \in Nat /\ eaten \o buf \in Seq(Tokens)
  BY HashFacts
<1>3. n \in Nat /\ n <= Len(data) /\ Len(buf) + n <= BlockSize
  BY <1>2
<1> HIDE DEF n
<1>4. \A i \in 1 .. Len(data) : data[i] \in Tokens
  BY <1>2, ElementOfSeq
<1>5. first \in Seq(Tokens) /\ Len(first) = n
  <2>1. \A i \in 1 .. n : data[i] \in Tokens
    BY <1>2, <1>3, <1>4
  <2>2. first \in Seq(Tokens) /\ Len(first) = IF 1 <= n THEN n - 1 + 1 ELSE 0
    BY <1>3, <2>1, SubSeqProperties
  <2> HIDE DEF first
  <2> QED
    BY <1>3, <2>2
<1>6. rest \in Seq(Tokens)
  <2>1. \A i \in n + 1 .. Len(data) : data[i] \in Tokens
    BY <1>2, <1>3, <1>4
  <2> QED
    BY <1>2, <1>3, <2>1, SubSeqProperties
<1>7. first \o rest = data
  <2>1. 1 \in 1 .. Len(data) + 1 /\ n \in 1 - 1 .. Len(data) /\ Len(data) \in n .. Len(data)
    BY <1>2, <1>3
  <2>2. first \o rest = SubSeq(data, 1, Len(data))
    BY <1>2, <2>1, ConcatAdjacentSubSeq
  <2> QED
    BY <1>2, <2>2, SubSeqFull
<1> HIDE DEF first, rest
<1>8. full \in Seq(Tokens) /\ Len(full) = Len(buf) + n
  <2>1. buf \o first \in Seq(Tokens) /\ Len(buf \o first) = Len(buf) + Len(first)
    BY <1>2, <1>5, ConcatProperties, Zenon
  <2> QED
    BY <1>5, <2>1
<1>9. (eaten \o full) \o rest = Fed
  <2>1. eaten \o (buf \o first) = (eaten \o buf) \o first
    <3>1. eaten \in Seq(Tokens) /\ buf \in Seq(Tokens) /\ first \in Seq(Tokens)
      BY <1>2, <1>5
    <3> QED
      BY <3>1, ConcatAssociative
  <2>2. ((eaten \o buf) \o first) \o rest = (eaten \o buf) \o (first \o rest)
    <3> DEFINE eb == eaten \o buf
    <3>1. eb \in Seq(Tokens) /\ first \in Seq(Tokens) /\ rest \in Seq(Tokens)
      BY <1>2, <1>5, <1>6
    <3> HIDE DEF eb
    <3>2. (eb \o first) \o rest = eb \o (first \o rest)
      BY <3>1, ConcatAssociative
    <3> QED
      BY <3>2 DEF eb
  <2> QED
    BY <1>7, <2>1, <2>2 DEF Fed
<1> HIDE DEF full
<1>10. /\ eaten' \in Seq(Tokens) /\ buf' \in Seq(Tokens) /\ Len(buf') < BlockSize
       /\ Len(eaten') % BlockSize = 0 /\ eaten' \o buf' = eaten \o full
  <2>1. Len(eaten) % BlockSize = 0
    BY DEF HashInv, HashTypes
  <2>2. /\ eaten \o full \in Seq(Tokens) /\ Len(eaten \o full) = Len(eaten) + Len(full)
        /\ (eaten \o full) \o <<>> = eaten \o full
    <3>1. /\ eaten \o full \in Seq(Tokens)
          /\ Len(eaten \o full) = Len(eaten) + Len(full)
      BY <1>2, <1>8, ConcatProperties, Zenon
    <3> QED
      BY <3>1, ConcatEmptySeq
  <2>3. CASE Len(full) = BlockSize
    <3>1. buf' = <<>> /\ eaten' = eaten \o full
      BY <1>1, <2>3 DEF Compressed
    <3>2. (Len(eaten) + BlockSize) % BlockSize = ((Len(eaten) % BlockSize) + BlockSize) % BlockSize
      <4>1. Len(eaten) \in Int /\ BlockSize \in Int
        BY <1>2
      <4> QED
        BY <1>2, <4>1, RemainderOfSum
    <3>3. (1 * BlockSize + 0) % BlockSize = 0
      BY <1>2, RemainderIs
    <3>4. (Len(eaten) % BlockSize) + BlockSize = 1 * BlockSize + 0
      BY <1>2, <2>1
    <3>5. Len(eaten') % BlockSize = 0
      BY <2>2, <2>3, <3>1, <3>2, <3>3, <3>4
    <3> QED
      BY <1>2, <2>2, <3>1, <3>5, EmptySeq
  <2>4. CASE Len(full) # BlockSize
    <3>1. buf' = full /\ eaten' = eaten
      BY <1>1, <2>4 DEF Compressed
    <3> QED
      <4>1. Len(full) < BlockSize
        BY <1>2, <1>3, <1>8, <2>4
      <4> QED
        BY <1>2, <1>8, <2>1, <3>1, <4>1, Zenon
  <2> QED
    BY <2>3, <2>4
<1>11. Fed' = Fed
  BY <1>1, <1>9, <1>10 DEF Fed
<1>12. HashTypes'
  BY <1>1, <1>6, <1>10 DEF HashInv, HashTypes
<1>13. phase # "done"
  BY <1>1 DEF HashInv, FedRight
<1>14. FedRight'
  BY <1>1, <1>11, <1>13, Zenon DEF HashInv, FedRight
<1> QED
  BY <1>12, <1>14 DEF HashInv

\* A chunk of any size goes behind what was read before (hef_integrity.cpp:102-106).
LEMMA ReadKeeps == ASSUME HashInv, Read PROVE HashInv'
<1> DEFINE chunk == Bytes(pos + 1, pos')
<1>1. /\ phase = "reading" /\ data = <<>> /\ pos < length /\ pos' \in pos + 1 .. length
      /\ data' = chunk /\ total' = total + pos' - pos
      /\ UNCHANGED <<length, buf, eaten, bits, phase, result>>
  BY DEF Read, Idle
<1> HIDE DEF chunk
<1>2. Fed = eaten \o buf
  BY <1>1, HashFacts DEF Idle
<1>3. /\ MaxLength \in Nat /\ length \in Nat /\ length <= MaxLength /\ pos \in Nat
      /\ pos' \in Nat /\ pos' >= pos + 1 /\ pos' <= MaxLength /\ pos' \in 0 .. length
  <2>1. MaxLength \in Nat /\ length \in Nat /\ length <= MaxLength /\ pos \in 0 .. MaxLength
    BY HashFacts
  <2>2. pos' \in pos + 1 .. length
    BY <1>1
  <2> QED
    BY <2>1, <2>2
<1> DEFINE a == pos
<1>4. PICK b \in Nat : b = pos'
  BY <1>3
<1>5. a \in Nat /\ b \in Nat /\ b >= a + 1 /\ b <= MaxLength /\ MaxLength \in Nat
  BY <1>3, <1>4, Zenon
<1> HIDE DEF a
<1>6. chunk \in Seq(Tokens) /\ Bytes(1, pos) \o chunk = Bytes(1, pos')
  <2>1. /\ a + 1 \in Nat /\ a + 1 >= 1 /\ a + 1 <= b + 1 /\ b \in a .. MaxLength
    BY <1>5
  <2>2. Bytes(a + 1, b) \in Seq(Tokens)
    BY <1>4, <1>5, <2>1, BytesAre
  <2>3. Bytes(1, a) \o Bytes(a + 1, b) = Bytes(1, b)
    BY <1>5, <2>1, BytesJoin
  <2> QED
    BY <1>4, <2>2, <2>3 DEF a, chunk
<1>7. /\ Fed = Bytes(1, pos) /\ total = pos /\ bits = 0 /\ result = <<>>
  BY <1>1 DEF HashInv, FedRight
<1>8. Fed' = Bytes(1, pos')
  BY <1>1, <1>2, <1>6, <1>7, Zenon DEF Fed
<1>9. total' = pos'
  <2>1. total' = a + b - a
    BY <1>1, <1>4, <1>7, Zenon DEF a
  <2>2. a + b - a = b
    BY <1>5
  <2> QED
    BY <1>4, <2>1, <2>2, Zenon
<1>10. HashTypes'
  BY <1>1, <1>3, <1>6 DEF HashInv, HashTypes
<1>11. FedRight'
  BY <1>1, <1>7, <1>8, <1>9 DEF FedRight
<1> QED
  BY <1>10, <1>11 DEF HashInv

\* What the next byte of padding does to all that was given.
LEMMA FedGrows ==
  ASSUME HashInv, Idle(phase), NEW t \in Seq(Tokens), data' = t, UNCHANGED <<eaten, buf>>
  PROVE  Fed' = Fed \o t
<1>1. Fed = eaten \o buf
  BY HashFacts
<1> QED
  BY <1>1, Zenon DEF Fed

\* The padding begins with its mark (hef_integrity.cpp:67-69).
LEMMA ReadsNothingKeeps == ASSUME HashInv, ReadsNothing PROVE HashInv'
<1>1. /\ phase = "reading" /\ Idle(phase) /\ phase' = "padding" /\ bits' = total
      /\ data' = <<<<"pad">>>> /\ total' = total + 1
      /\ UNCHANGED <<length, pos, buf, eaten, result>>
  BY DEF ReadsNothing, Idle
<1>2. pos \in 0 .. MaxLength /\ pos \in Nat
  BY HashFacts
<1>3. Fed = Bytes(1, pos) /\ total = pos /\ bits = 0 /\ result = <<>>
  BY <1>1 DEF HashInv, FedRight
<1>4. Fed' = Message(pos, 0)
  <2>1. Fed' = Fed \o <<<<"pad">>>>
    BY <1>1, PadIs, FedGrows
  <2>2. Message(pos, 0) = Bytes(1, pos) \o <<<<"pad">>>>
    BY <1>2, MessageGrows
  <2> QED
    BY <1>3, <2>1, <2>2
<1>5. 0 \in 0 .. ZerosAfter(pos)
  <2>1. ZerosAfter(pos) \in 0 .. BlockSize - 1
    BY <1>2, ZerosFit
  <2> QED
    BY <2>1, HashAssumption
<1>6. total' = pos + 1 + 0 /\ bits' = pos
  BY <1>1, <1>2, <1>3
<1>7. FedRight'
  <2>1. pos' = pos /\ result' = <<>>
    BY <1>1, <1>3
  <2>2. Fed' = Message(pos', 0) /\ total' = pos' + 1 + 0 /\ bits' = pos' /\ 0 \in 0 .. ZerosAfter(pos')
    BY <1>4, <1>5, <1>6, <2>1
  <2> QED
    BY <1>1, <2>1, <2>2 DEF FedRight
<1>8. HashTypes'
  BY <1>1, PadIs DEF HashInv, HashTypes
<1> QED
  BY <1>7, <1>8 DEF HashInv

\* The buffer is ready for the length exactly when the standard's zeros are all there.
LEMMA ReadyWhenPadded ==
  ASSUME HashInv, Idle("padding"), NEW k \in Nat, k <= ZerosAfter(pos), Fed = Message(pos, k)
  PROVE  Len(buf) = BlockSize - LengthSize <=> k = ZerosAfter(pos)
<1> DEFINE B == BlockSize
           e == Len(eaten)
           f == Len(buf)
           z == ZerosAfter(pos)
<1>1. /\ pos \in Nat /\ pos \in 0 .. MaxLength /\ B \in Nat \ {0} /\ LengthSize \in Nat \ {0}
      /\ LengthSize < B /\ e \in Nat /\ f \in Nat /\ f < B
      /\ Fed = eaten \o buf /\ Len(eaten \o buf) = e + f
  BY HashFacts DEF Idle
<1>2. Len(Message(pos, k)) = pos + 1 + k
  BY <1>1, MessageGrows
<1>3. e + f = pos + 1 + k
  BY <1>1, <1>2
<1>4. e % B = 0
  BY DEF HashInv, HashTypes
<1>5. /\ z \in 0 .. B - 1 /\ (pos + 1 + z + LengthSize) % B = 0
      /\ \A j \in 0 .. B - 1 : (pos + 1 + j + LengthSize) % B = 0 => j = z
  BY <1>1, ZerosFit
<1> HIDE DEF B, e, f, z
<1>6. (pos + 1 + k + LengthSize) % B = (f + LengthSize) % B
  <2>1. pos + 1 + k + LengthSize = e + (f + LengthSize)
    BY <1>1, <1>3
  <2> DEFINE d == f + LengthSize
  <2>2. e \in Int /\ d \in Int
    BY <1>1
  <2> HIDE DEF d
  <2>3. (e + d) % B = ((e % B) + d) % B
    BY <1>1, <2>2, RemainderOfSum
  <2>4. (e % B) + d = d
    BY <1>4, <2>2
  <2> QED
    BY <2>1, <2>3, <2>4 DEF d
<1>7. k \in 0 .. B - 1
  BY <1>1, <1>5 DEF z
<1>8. ASSUME f = B - LengthSize PROVE k = z
  <2>1. f + LengthSize = 1 * B + 0
    BY <1>1, <1>8
  <2>2. (1 * B + 0) % B = 0
    BY <1>1, RemainderIs
  <2> QED
    BY <1>5, <1>6, <1>7, <2>1, <2>2
<1>9. ASSUME k = z PROVE f = B - LengthSize
  <2>1. (f + LengthSize) % B = 0
    BY <1>5, <1>6, <1>9
  <2>2. CASE f + LengthSize < B
    <3>1. (0 * B + (f + LengthSize)) % B = f + LengthSize
      <4>1. f + LengthSize \in Nat
        BY <1>1
      <4> QED
        BY <1>1, <2>2, <4>1, 0 \in Int, RemainderIs, Zenon
    <3>2. 0 * B + (f + LengthSize) = f + LengthSize
      BY <1>1
    <3> QED
      BY <1>1, <2>1, <3>1, <3>2
  <2>3. CASE f + LengthSize > B
    <3> DEFINE r == f + LengthSize - B
    <3>1. r \in Nat /\ r < B /\ r # 0 /\ f + LengthSize = 1 * B + r
      BY <1>1, <2>3
    <3> HIDE DEF r
    <3>2. (1 * B + r) % B = r
      BY <1>1, <3>1, RemainderIs
    <3> QED
      BY <2>1, <3>1, <3>2
  <2> QED
    BY <1>1, <2>2, <2>3
<1> QED
  BY <1>8, <1>9 DEF B, f, z

\* A zero is added only where the standard has one.
LEMMA PadKeeps == ASSUME HashInv, Pad PROVE HashInv'
<1>1. /\ phase = "padding" /\ Idle(phase) /\ Len(buf) # BlockSize - LengthSize
      /\ data' = <<<<"zero">>>> /\ total' = total + 1
      /\ UNCHANGED <<length, pos, buf, eaten, bits, phase, result>>
  BY DEF Pad, Idle
<1>2. pos \in 0 .. MaxLength /\ pos \in Nat
  BY HashFacts
<1>3. PICK k \in 0 .. ZerosAfter(pos) :
        Fed = Message(pos, k) /\ total = pos + 1 + k /\ bits = pos /\ result = <<>>
  BY <1>1 DEF HashInv, FedRight
<1>4. ZerosAfter(pos) \in Nat
  BY <1>2, ZerosFit, HashAssumption
<1>5. k \in Nat /\ k <= ZerosAfter(pos) /\ k # ZerosAfter(pos)
  <2>1. k \in Nat /\ k <= ZerosAfter(pos)
    BY <1>3, <1>4
  <2> QED
    BY <1>1, <1>3, <2>1, ReadyWhenPadded
<1>6. k + 1 \in 0 .. ZerosAfter(pos)
  BY <1>4, <1>5
<1>7. Fed' = Message(pos, k + 1)
  <2>1. Fed' = Fed \o <<<<"zero">>>>
    BY <1>1, ZeroIs, FedGrows
  <2>2. Message(pos, k + 1) = Message(pos, k) \o <<<<"zero">>>>
    BY <1>2, <1>5, MessageGrows
  <2> QED
    BY <1>3, <2>1, <2>2
<1>8. total' = pos + 1 + (k + 1)
  BY <1>1, <1>2, <1>3, <1>5
<1>9. FedRight'
  <2>1. pos' = pos /\ result' = <<>> /\ bits' = pos'
    BY <1>1, <1>3
  <2>2. Fed' = Message(pos', k + 1) /\ total' = pos' + 1 + (k + 1) /\ k + 1 \in 0 .. ZerosAfter(pos')
    BY <1>6, <1>7, <1>8, <2>1
  <2> QED
    BY <1>1, <2>1, <2>2, Zenon DEF FedRight
<1>10. HashTypes'
  BY <1>1, ZeroIs DEF HashInv, HashTypes
<1> QED
  BY <1>9, <1>10 DEF HashInv

\* What is hashed in the end is the message as the standard pads it (hef_integrity.cpp:72-79).
LEMMA FinishKeeps == ASSUME HashInv, Finish PROVE HashInv'
<1> DEFINE field == LengthField(bits)
<1>1. /\ phase = "padding" /\ Idle(phase) /\ data = <<>> /\ Len(buf) = BlockSize - LengthSize
      /\ eaten' = (eaten \o buf) \o field /\ buf' = <<>> /\ result' = eaten' /\ phase' = "done"
      /\ UNCHANGED <<length, pos, data, total, bits>>
  BY DEF Finish, Idle
<1>2. /\ pos \in 0 .. MaxLength /\ pos \in Nat /\ BlockSize \in Nat \ {0} /\ LengthSize \in Nat
      /\ Fed = eaten \o buf /\ eaten \o buf \in Seq(Tokens) /\ Len(eaten) \in Nat
      /\ Len(eaten \o buf) = Len(eaten) + Len(buf)
  BY <1>1, HashFacts
<1>3. PICK k \in 0 .. ZerosAfter(pos) :
        Fed = Message(pos, k) /\ total = pos + 1 + k /\ bits = pos /\ result = <<>>
  BY <1>1 DEF HashInv, FedRight
<1>4. ZerosAfter(pos) \in 0 .. BlockSize - 1
  BY <1>2, ZerosFit
<1>5. k \in Nat /\ k = ZerosAfter(pos)
  <2>1. k \in Nat /\ k <= ZerosAfter(pos)
    BY <1>2, <1>3, <1>4
  <2> QED
    BY <1>1, <1>3, <2>1, ReadyWhenPadded
<1>6. eaten' = Padded(pos) /\ Padded(pos) \in Seq(Tokens)
  BY <1>1, <1>2, <1>3, <1>5, PaddedTells
<1>7. Len(eaten') % BlockSize = 0
  <2>1. field \in Seq(Tokens) /\ Len(field) = LengthSize
    BY <1>2, <1>3, LengthIs
  <2> HIDE DEF field
  <2>2. Len((eaten \o buf) \o field) = Len(eaten \o buf) + Len(field)
    BY <1>2, <2>1, ConcatProperties, Zenon
  <2>3. Len(eaten') = Len(eaten) + BlockSize
    BY <1>1, <1>2, <2>1, <2>2
  <2>4. (Len(eaten) + BlockSize) % BlockSize = ((Len(eaten) % BlockSize) + BlockSize) % BlockSize
    <3>1. Len(eaten) \in Int /\ BlockSize \in Int
      BY <1>2
    <3> QED
      BY <1>2, <3>1, RemainderOfSum
  <2>5. (1 * BlockSize + 0) % BlockSize = 0
    BY <1>2, RemainderIs
  <2>6. (Len(eaten) % BlockSize) + BlockSize = 1 * BlockSize + 0
    BY <1>2 DEF HashInv, HashTypes
  <2> QED
    BY <2>3, <2>4, <2>5, <2>6
<1>8. total \in bits + 1 .. bits + BlockSize
  BY <1>2, <1>3, <1>4, <1>5
<1>9. HashTypes'
  <2>1. <<>> \in Seq(Tokens) /\ Len(<<>>) = 0
    BY EmptySeq
  <2> QED
    BY <1>1, <1>2, <1>6, <1>7, <2>1 DEF HashInv, HashTypes
<1>10. FedRight'
  BY <1>1, <1>3, <1>6, <1>8 DEF FedRight
<1> QED
  BY <1>9, <1>10 DEF HashInv

\* Nothing is read before the file is open.
LEMMA HashInvHolds == HashSpec => []HashInv
<1>1. HashInit => HashInv
  <2> SUFFICES ASSUME HashInit PROVE HashInv
    OBVIOUS
  <2>1. /\ length = 0 /\ pos = 0 /\ data = <<>> /\ buf = <<>> /\ eaten = <<>> /\ total = 0 /\ bits = 0
        /\ phase = "closed" /\ result = <<>> /\ <<>> \in Seq(Tokens) /\ Len(<<>>) = 0
    BY EmptySeq DEF HashInit
  <2>2. MaxLength \in Nat /\ BlockSize \in Nat \ {0}
    BY HashAssumption
  <2>3. 0 % BlockSize = 0
    <3>1. (0 * BlockSize + 0) % BlockSize = 0
      BY <2>2, RemainderIs
    <3>2. 0 * BlockSize + 0 = 0
      BY <2>2
    <3> QED
      BY <3>1, <3>2
  <2>4. HashTypes
    BY <2>1, <2>2, <2>3 DEF HashTypes
  <2>5. Fed = <<>>
    <3>1. (<<>> \o <<>>) \o <<>> = <<>>
      BY <2>1, ConcatEmptySeq
    <3> QED
      BY <2>1, <3>1 DEF Fed
  <2>6. Bytes(1, 0) = <<>>
    <3>1. Bytes(1, 0) \in Seq(Tokens) /\ Len(Bytes(1, 0)) = 0 - 1 + 1
      BY <2>2, BytesAre
    <3> QED
      BY <3>1, EmptySeq
  <2>7. FedRight
    BY <2>1, <2>5, <2>6 DEF FedRight
  <2> QED
    BY <2>4, <2>7 DEF HashInv
<1>2. HashInv /\ [HashNext]_hashVars => HashInv'
  <2> SUFFICES ASSUME HashInv, [HashNext]_hashVars PROVE HashInv'
    OBVIOUS
  <2>1. CASE Open
    <3>1. /\ phase = "closed" /\ pos = 0 /\ Fed = Bytes(1, pos) /\ total = pos
          /\ bits = 0 /\ result = <<>>
      BY <2>1 DEF Open, HashInv, FedRight
    <3>2. UNCHANGED <<pos, data, buf, eaten, total, bits, result>> /\ length' \in 0 .. MaxLength
          /\ phase' \in {"reading", "failed"}
      BY <2>1 DEF Open
    <3>3. pos' \in 0 .. length'
      BY <3>1, <3>2, HashAssumption
    <3>4. HashTypes'
      BY <3>2, <3>3 DEF HashInv, HashTypes
    <3>5. Fed' = Fed
      BY <3>2 DEF Fed
    <3>6. FedRight'
      BY <3>1, <3>2, <3>5 DEF FedRight
    <3> QED
      BY <3>4, <3>6 DEF HashInv
  <2>2. CASE Copy
    BY <2>2, CopyKeeps
  <2>3. CASE Read
    BY <2>3, ReadKeeps
  <2>4. CASE ReadsNothing
    BY <2>4, ReadsNothingKeeps
  <2>5. CASE Pad
    BY <2>5, PadKeeps
  <2>6. CASE Finish
    BY <2>6, FinishKeeps
  <2>7. CASE UNCHANGED hashVars
    BY <2>7, Zenon DEF hashVars, HashInv, HashTypes, FedRight, Fed
  <2> QED
    BY <2>1, <2>2, <2>3, <2>4, <2>5, <2>6, <2>7 DEF HashNext
<1> QED
  BY <1>1, <1>2, PTL DEF HashSpec

\* The counts of bytes stay within a block of the file's length.
LEMMA HashTypesHold == HashInv => HashTypeOK
<1> SUFFICES ASSUME HashInv PROVE HashTypeOK
  OBVIOUS
<1>1. MaxLength \in Nat /\ BlockSize \in Nat \ {0} /\ pos \in 0 .. MaxLength
  BY HashFacts
<1>2. bits \in 0 .. MaxLength /\ total \in 0 .. MaxLength + BlockSize
  <2>1. CASE phase \in {"closed", "reading", "failed"}
    <3>1. total = pos /\ bits = 0
      BY <2>1 DEF HashInv, FedRight
    <3> QED
      BY <1>1, <3>1
  <2>2. CASE phase = "padding"
    <3>1. PICK k \in 0 .. ZerosAfter(pos) : total = pos + 1 + k /\ bits = pos
      BY <2>2 DEF HashInv, FedRight
    <3>2. ZerosAfter(pos) \in 0 .. BlockSize - 1
      BY <1>1, ZerosFit
    <3> QED
      BY <1>1, <3>1, <3>2
  <2>3. CASE phase = "done"
    <3>1. bits = pos /\ total \in bits + 1 .. bits + BlockSize
      BY <2>3 DEF HashInv, FedRight
    <3> QED
      BY <1>1, <3>1
  <2> QED
    BY <2>1, <2>2, <2>3 DEF HashInv, HashTypes
<1> QED
  BY <1>2 DEF HashInv, HashTypes, HashTypeOK

\* A file has one hash, and no hash stands for two lengths read of it.
LEMMA OwnHashOnly ==
  ASSUME HashInv, phase \in {"done", "failed"}, NEW n \in 0 .. MaxLength
  PROVE  VerifyHef(Padded(n)) <=> phase = "done" /\ n = pos
<1>1. pos \in 0 .. MaxLength
  BY HashFacts
<1>2. CASE phase = "failed"
  <2>1. result = <<>>
    BY <1>2 DEF HashInv, FedRight
  <2> QED
    BY <1>2, <2>1 DEF VerifyHef
<1>3. CASE phase = "done"
  <2>1. result = Padded(pos) /\ result # <<>>
    BY <1>1, <1>3, PaddedTells DEF HashInv, FedRight
  <2>2. ASSUME Padded(pos) = Padded(n) PROVE n = pos
    <3>1. <<"length", n, LengthSize>> = <<"length", pos, LengthSize>>
      <4>1. Padded(n)[Len(Padded(n))] = <<"length", n, LengthSize>>
        BY PaddedTells
      <4>2. Padded(pos)[Len(Padded(pos))] = <<"length", pos, LengthSize>>
        BY <1>1, PaddedTells
      <4> QED
        BY <2>2, <4>1, <4>2, Zenon
    <3> QED
      BY <3>1
  <2> QED
    BY <1>3, <2>1, <2>2, Zenon DEF VerifyHef
<1> QED
  BY <1>2, <1>3

\* For every size of blocks, lengths and chunks and every file: what the reader of the file
\* computes is the hash of what it read, padded as the standard says, and no other
\* (hef_integrity.cpp:67-79, 102-110).
THEOREM HashIsOwn == HashSpec => [](HashTypeOK /\ AcceptsOwnHash)
<1>1. HashInv => AcceptsOwnHash
  <2> SUFFICES ASSUME HashInv PROVE AcceptsOwnHash
    OBVIOUS
  <2>1. ASSUME phase \in {"done", "failed"}
        PROVE  /\ \A n \in 0 .. MaxLength : VerifyHef(Padded(n)) <=> phase = "done" /\ n = pos
               /\ ~VerifyHef(<<>>)
    BY <2>1, OwnHashOnly, Zenon DEF VerifyHef
  <2>2. ASSUME phase \in {"padding", "done"} PROVE total - bits <= BlockSize
    <3>1. BlockSize \in Nat \ {0} /\ pos \in 0 .. MaxLength
      BY HashFacts
    <3>2. CASE phase = "padding"
      <4>1. PICK k \in 0 .. ZerosAfter(pos) : total = pos + 1 + k /\ bits = pos
        BY <3>2 DEF HashInv, FedRight
      <4>2. ZerosAfter(pos) \in 0 .. BlockSize - 1
        BY <3>1, ZerosFit
      <4> QED
        BY <3>1, <4>1, <4>2
    <3>3. CASE phase = "done"
      <4>1. bits = pos /\ total \in bits + 1 .. bits + BlockSize
        BY <3>3 DEF HashInv, FedRight
      <4> QED
        BY <3>1, <4>1
    <3> QED
      BY <2>2, <3>2, <3>3
  <2> QED
    BY <2>1, <2>2 DEF AcceptsOwnHash
<1> QED
  BY <1>1, HashTypesHold, HashInvHolds, PTL
================================================================================
