----------------------------- MODULE MCDriverParts -----------------------------
(***************************************************************************)
(* The parts of the two drivers in one run, of which a behaviour takes     *)
(* one: the verdict of src/kmeans/test.cpp on every pair of clusterings;   *)
(* the reading, in both drivers, of every input of up to MAX_TOKENS        *)
(* tokens, with names and, as constants.hpp has it, without; and the       *)
(* benchmarks of src/kmeans/main.cpp for every sequence of random numbers. *)
(***************************************************************************)
EXTENDS Comparison

CONSTANTS
  CLUSTERS,
  POINTS_READ, TOTAL_VALUES, Number, Word, Uninitialized, MAX_TOKENS,
  MAIN_POINTS, MAIN_CLUSTERS, WARMUP_RUNS, BENCH_RUNS, MAX_TIME, RAND_LENGTH

VARIABLES
  part,   \* "verdict", "named", "unnamed" or "main"
  input, taken, fail, values, point_name, points,
  benchmark, loop, run, calling, start_time, times, now, rand, drawn, main_points,
  points_copy, clusters, first_members

readVars == <<input, taken, fail, values, point_name, points>>
mainVars == <<benchmark, loop, run, calling, start_time, times, now, rand, drawn,
              main_points, points_copy, clusters, first_members>>

ASSUME ReadAssumption == {POINTS_READ, TOTAL_VALUES} \subseteq Nat

ASSUME MainAssumption ==
  {MAIN_POINTS, MAIN_CLUSTERS, WARMUP_RUNS, BENCH_RUNS, MAX_TIME, RAND_LENGTH} \subseteq Nat

Named   == INSTANCE ReadPoints WITH TOTAL_POINTS <- POINTS_READ, HAS_NAME <- TRUE
Unnamed == INSTANCE ReadPoints WITH TOTAL_POINTS <- POINTS_READ, HAS_NAME <- FALSE
Main    == INSTANCE KMeansMain WITH
             TOTAL_POINTS <- MAIN_POINTS, CLUSTERS <- MAIN_CLUSTERS,
             i <- run, points <- main_points

MCCluster == 0 .. CLUSTERS - 1

NothingCompared ==
  /\ serial_cluster = [p \in Point |-> 0] /\ parallel_cluster = serial_cluster
  /\ StartLoop

NothingRead == input = << >> /\ Named!Init

NothingRun == rand = << >> /\ Main!Start

MCInit ==
  \/ part = "verdict" /\ Init /\ NothingRead /\ NothingRun
  \/ part \in {"named", "unnamed"} /\ NothingCompared /\ Named!Init /\ NothingRun
  \/ part = "main" /\ NothingCompared /\ NothingRead /\ Main!Init

MCNext ==
  \/ part = "verdict" /\ Next         /\ UNCHANGED <<part, readVars, mainVars>>
  \/ part = "named"   /\ Named!Next   /\ UNCHANGED <<part, vars, mainVars>>
  \/ part = "unnamed" /\ Unnamed!Next /\ UNCHANGED <<part, vars, mainVars>>
  \/ part = "main"    /\ Main!Next    /\ UNCHANGED <<part, vars, readVars>>

MCSpec == MCInit /\ [][MCNext]_<<part, vars, readVars, mainVars>>

\* See ReadPoints: what an unchecked input leaves in the values and in the names.
Spoilt ==
  IF part = "unnamed" THEN Unnamed!SpoiltFromFirstBadToken ELSE Named!SpoiltFromFirstBadToken
Stale == part = "named" => Named!StaleNames

\* See KMeansMain: no run sees what those before it have left, and both benchmarks time
\* the same work.
RunsStartFresh   == part = "main" => Main!RunsStartFresh
SameFirstMembers == part = "main" => Main!SameFirstMembers

\* See Benchmark: the median that is printed for either program is one.
MedianIsCentral  == part = "main" => Main!B!MedianIsCentral

===============================================================================
