------------------------------ MODULE PerfProbe ------------------------------
(***************************************************************************)
(* The latency probe of perception (perf_probe.cpp): a window of the last  *)
(* frames, each with the times of its capture, inference and publication,  *)
(* a report now and then, and the statistics it is made of.                *)
(***************************************************************************)
EXTENDS Integers, Sequences, FiniteSets

CONSTANTS
  Window, ReportInterval,  \* window; interval_ns_, 0 for no reports
  Width,                   \* times are unsigned numbers of that many bits
  Times,                   \* times of capture, inference and publication
  MaxRecords               \* bound: frames recorded

ASSUME ProbeAssumption ==
  /\ Window \in Nat /\ ReportInterval \in Nat /\ Width \in Nat /\ MaxRecords \in Nat
  /\ Times \subseteq 1 .. 2 ^ Width - 1

VARIABLES
  recs,         \* recs_, oldest first
  last_report,
  all,          \* history: everything recorded
  reports       \* history: the times of the reports

probeVars == <<recs, last_report, all, reports>>

Records == [cap : Times, inf : Times, pub : Times]

ProbeTypeOK ==
  /\ recs \in Seq(Records) /\ Len(recs) <= Window /\ last_report \in Times \cup {0}
  /\ all \in Seq(Records) /\ Len(all) <= MaxRecords /\ reports \in Seq(Times)

ProbeInit == recs = <<>> /\ last_report = 0 /\ all = <<>> /\ reports = <<>>

\* Subtraction of unsigned numbers wraps around.
Minus(a, b) == (a - b) % 2 ^ Width

Pushed(rec) == LET longer == Append(recs, rec)
               IN IF Len(longer) > Window THEN Tail(longer) ELSE longer

\* Fault: every frame begins an interval.
SinceNow(pub) == pub

\* The beginning of the current interval; nothing was reported yet at 0.
Since(pub) == IF last_report = 0 THEN pub ELSE last_report

\* Publications come in order of time; the stages of one frame need not.
RecordFrame(rec) ==
  /\ Len(all) < MaxRecords
  /\ all # <<>> => all[Len(all)].pub <= rec.pub
  /\ recs' = Pushed(rec) /\ all' = Append(all, rec)
  /\ LET due == ReportInterval > 0 /\ Minus(rec.pub, Since(rec.pub)) >= ReportInterval IN
     /\ last_report' = IF ReportInterval = 0 THEN last_report
                       ELSE IF due THEN rec.pub ELSE Since(rec.pub)
     /\ reports' = IF due THEN Append(reports, rec.pub) ELSE reports

\* The three times in any order: as they should be, a stage that is not measured given as
\* one of the others, or out of order.
ProbeNext == \E cap, inf, pub \in Times : RecordFrame([cap |-> cap, inf |-> inf, pub |-> pub])

ProbeSpec == ProbeInit /\ [][ProbeNext]_probeVars

-----------------------------------------------------------------------------
(* stats() *)

\* How long the frames of the window took between two stages, in order of size: at each
\* place the least latency that so many of the frames do not exceed.
Latencies(from, to) ==
  LET frames == {i \in DOMAIN recs : recs[i][to] >= recs[i][from]}
      took == [i \in frames |-> Minus(recs[i][to], recs[i][from])]
      reaching(k) == {i \in frames : Cardinality({j \in frames : took[j] <= took[i]}) >= k}
  IN [k \in 1 .. Cardinality(frames) |->
        took[CHOOSE i \in reaching(k) : \A j \in reaching(k) : took[i] <= took[j]]]

\* Fault: the rank runs over all samples, not over the gaps between them.
PercentileOfCount(s, p) ==
  LET lo == (p * Len(s)) \div 100
      frac == (p * Len(s)) % 100
  IN IF s = <<>> THEN 0
     ELSE IF lo + 1 < Len(s) THEN 100 * s[lo + 1] + frac * (s[lo + 2] - s[lo + 1])
     ELSE 100 * s[Len(s)]

\* A hundred times the p-th percentile, interpolated between two samples.
Percentile(s, p) ==
  LET lo == (p * (Len(s) - 1)) \div 100
      frac == (p * (Len(s) - 1)) % 100
  IN IF s = <<>> THEN 0
     ELSE IF lo + 1 < Len(s) THEN 100 * s[lo + 1] + frac * (s[lo + 2] - s[lo + 1])
     ELSE 100 * s[lo + 1]

-----------------------------------------------------------------------------
Stages == {<<"cap", "pub">>, <<"cap", "inf">>, <<"inf", "pub">>}

\* Reports are at least ReportInterval apart, and none is overdue after a frame
\* (perf_probe.hpp:28, perf_probe.cpp:47-53).
ReportsOnTime ==
  ReportInterval > 0 /\ all # <<>> =>
    LET times == <<all[1].pub>> \o reports IN
    /\ \A i \in 1 .. Len(times) - 1 : times[i + 1] - times[i] >= ReportInterval
    /\ all[Len(all)].pub - times[Len(times)] < ReportInterval

\* stats() tells of real frames: each latency is that of a frame among the last Window
\* ones, although a difference of times out of order wraps around to an enormous one; each
\* of these frames that has the two stages in order counts, once; percentiles lie in order
\* between the smallest and the largest latency, and treat what is above them as what is
\* below, turned upside down, at windows of every fill (perf_probe.cpp:11-19, 35-36, 56-86).
StatsAreReal ==
  \A s \in Stages :
    LET l == Latencies(s[1], s[2])
        n == Len(l)
        upsideDown == [i \in 1 .. n |-> 2 ^ Width - l[n + 1 - i]]
        recent == {j \in DOMAIN all : j + Window > Len(all)}
        inOrder == {j \in recent : all[j][s[1]] <= all[j][s[2]]}
    IN /\ \A i \in 1 .. n : \E j \in recent : all[j][s[1]] + l[i] = all[j][s[2]]
       /\ \A j \in inOrder : \E i \in 1 .. n : all[j][s[1]] + l[i] = all[j][s[2]]
       /\ n = Cardinality(inOrder)
       /\ l # <<>> =>
            /\ 100 * l[1] <= Percentile(l, 50) /\ Percentile(l, 50) <= Percentile(l, 95)
            /\ Percentile(l, 95) <= Percentile(l, 99) /\ Percentile(l, 99) <= 100 * l[n]
            /\ \A p \in {50, 95, 99} :
                 Percentile(upsideDown, 100 - p) = 100 * 2 ^ Width - Percentile(l, p)
==============================================================================
