------------------------------- MODULE Benchmark -------------------------------
(***************************************************************************)
(* include/benchmark.hpp: run() calls a function WARMUP_RUNS times, then   *)
(* BENCH_RUNS times between two readings of the clock, and the statistics  *)
(* are taken from the durations.  Time is a number of ticks.               *)
(***************************************************************************)
EXTENDS Integers, SequencesExt, FiniteSetsExt

CONSTANTS
  WARMUP_RUNS, BENCH_RUNS,   \* include/constants.hpp
  MAX_TIME                   \* a bound on the clock

VARIABLES
  loop,         \* the loop of run(): "warmup", "bench", or "done"
  i,            \* its index
  calling,      \* is func() running?
  start_time,
  times,
  now           \* clock::now()

vars == <<loop, i, calling, start_time, times, now>>

Runs == IF loop = "warmup" THEN WARMUP_RUNS ELSE BENCH_RUNS

TypeOK ==
  /\ loop \in {"warmup", "bench", "done"}
  /\ i \in 0 .. Max({WARMUP_RUNS, BENCH_RUNS})
  /\ calling \in BOOLEAN
  /\ {start_time, now} \subseteq 0 .. MAX_TIME
  /\ times \in Seq(0 .. MAX_TIME)

Init ==
  /\ loop = "warmup"
  /\ i = 0
  /\ calling = FALSE
  /\ start_time = 0
  /\ times = << >>
  /\ now = 0

Tick ==
  /\ now < MAX_TIME
  /\ now' = now + 1
  /\ UNCHANGED <<loop, i, calling, start_time, times>>

IsMissingRun == i < Runs

Started == IF loop = "bench" THEN now ELSE start_time

\* The warm-up calls are not between start() and stop().
Call ==
  /\ loop # "done"
  /\ ~ calling
  /\ IsMissingRun
  /\ calling' = TRUE
  /\ start_time' = Started
  /\ UNCHANGED <<loop, i, times, now>>

Return ==
  /\ calling
  /\ calling' = FALSE
  /\ i' = i + 1
  /\ times' = IF loop = "bench" THEN Append(times, now - start_time) ELSE times
  /\ UNCHANGED <<loop, start_time, now>>

\* times.clear() between the loops.
EndLoop ==
  /\ loop # "done"
  /\ ~ calling
  /\ i = Runs
  /\ loop' = IF loop = "warmup" THEN "bench" ELSE "done"
  /\ i' = 0
  /\ times' = IF loop = "warmup" THEN << >> ELSE times
  /\ UNCHANGED <<calling, start_time, now>>

Next == Tick \/ Call \/ Return \/ EndLoop

-------------------------------------------------------------------------------
(* The statistics that are more than one call of the library.              *)

\* A permutation that puts the durations in order, and the durations so ordered.
order ==
  CHOOSE p \in Bijection(DOMAIN times, DOMAIN times) :
    \A j, k \in DOMAIN times : j < k => times[p[j]] <= times[p[k]]

sorted == [j \in DOMAIN times |-> times[order[j]]]
n == Len(times)

\* A slip: no mean of the two in the middle.
UpperMedian == IF n = 0 THEN 0 ELSE 2 * sorted[n \div 2 + 1]

\* Twice the median.
median2 ==
  IF n = 0 THEN 0
  ELSE IF n % 2 = 0 THEN sorted[n \div 2] + sorted[n \div 2 + 1]
  ELSE 2 * sorted[n \div 2 + 1]

-------------------------------------------------------------------------------
(* Properties.                                                             *)

\* The median halves the durations, said without sorting: half of them, rounded down,
\* are not above it and the rest not below, and it is the smallest of the rest or,
\* for an even number, the mean of the two next to the cut (benchmark.hpp:60-70).
MedianIsCentral ==
  n > 0 =>
    \E low \in kSubset(n \div 2, DOMAIN times) :
      LET lower == {times[j] : j \in low}
          upper == {times[j] : j \in DOMAIN times \ low}
      IN  /\ \A t \in lower, u \in upper : t <= u
          /\ median2 = Min(upper) + IF n % 2 = 0 THEN Max(lower) ELSE Min(upper)

===============================================================================
