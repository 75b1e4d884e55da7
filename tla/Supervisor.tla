----------------------------- MODULE Supervisor -----------------------------
(***************************************************************************)
(* The loop that keeps one service running (supervisor/src/main.rs): start *)
(* it, wait for its end, wait longer each time it ended early, start it    *)
(* again.  What the services do meanwhile is Session's subject.            *)
(***************************************************************************)
EXTENDS Integers

CONSTANTS
  Initial, MaxBackoff, ResetAfter,  \* initial, max_backoff, reset_after in ticks
  MaxWaits                          \* bound: waits counted

ASSUME SupervisorAssumption ==
  /\ Initial \in Nat \ {0} /\ MaxBackoff \in Nat /\ Initial <= MaxBackoff
  /\ ResetAfter \in Nat /\ MaxWaits \in Nat /\ Initial * 2 ^ MaxWaits >= MaxBackoff

VARIABLES
  child,     \* "running", or "none" while the thread sleeps
  elapsed,   \* started.elapsed(), counted up to ResetAfter
  backoff,
  slept,     \* ticks of the sleep
  waits      \* history: sleeps since the first start, or since the last long run

superVars == <<child, elapsed, backoff, slept, waits>>

SuperTypeOK ==
  /\ child \in {"running", "none"} /\ elapsed \in 0 .. ResetAfter
  /\ backoff \in Initial .. MaxBackoff /\ slept \in 0 .. backoff /\ waits \in 0 .. MaxWaits

SuperInit == child = "running" /\ elapsed = 0 /\ backoff = Initial /\ slept = 0 /\ waits = 0

RunTick == /\ child = "running" /\ elapsed < ResetAfter /\ elapsed' = elapsed + 1
           /\ UNCHANGED <<child, backoff, slept, waits>>

LongRun == elapsed >= ResetAfter

\* Fault: a long run does not count.
Kept == backoff

\* The backoff to sleep, reset by a long enough run.
Current == IF LongRun THEN Initial ELSE backoff

\* The child exits or crashes, or could not be started at all.
Ends == /\ child = "running" /\ child' = "none"
        /\ backoff' = Current
        /\ waits' = IF LongRun THEN 0 ELSE waits
        /\ UNCHANGED <<elapsed, slept>>

SleepTick == /\ child = "none" /\ slept < backoff /\ slept' = slept + 1
             /\ UNCHANGED <<child, elapsed, backoff, waits>>

Doubled == IF 2 * backoff > MaxBackoff THEN MaxBackoff ELSE 2 * backoff

Restart ==
  /\ child = "none" /\ slept = backoff
  /\ child' = "running" /\ elapsed' = 0 /\ backoff' = Doubled /\ slept' = 0
  /\ waits' = IF waits < MaxWaits THEN waits + 1 ELSE waits

SuperNext == RunTick \/ Ends \/ SleepTick \/ Restart

SuperSpec == SuperInit /\ [][SuperNext]_superVars

-----------------------------------------------------------------------------
\* "restarting each on exit with exponential backoff" (main.rs:4): the wait follows
\* from how often the service was waited for since its last long run, although the
\* reset comes before the sleep and the doubling after it (main.rs:65-74).
WaitIsEarned ==
  LET earned == Initial * 2 ^ waits
  IN child = "none" => backoff = IF earned > MaxBackoff THEN MaxBackoff ELSE earned
==============================================================================
