------------------------------ MODULE KMeansMain -------------------------------
(***************************************************************************)
(* src/kmeans/main.cpp: two benchmarks, each of which runs one k-means     *)
(* program several times, on a copy of the points and with an object of    *)
(* its own.  The random numbers are started over between the benchmarks    *)
(* but not between the runs of one: a run draws on where the one before    *)
(* has stopped.                                                            *)
(*                                                                         *)
(* Of a run only the draw of the first members is a sequence of steps: the *)
(* rest leaves some clustering in the copy (see SerialKMeans and           *)
(* ParallelKMeans).  Benchmark is composed in, with its clock.             *)
(***************************************************************************)
EXTENDS Integers, SequencesExt, FiniteSetsExt

CONSTANTS
  TOTAL_POINTS, CLUSTERS,              \* include/constants.hpp
  WARMUP_RUNS, BENCH_RUNS, MAX_TIME,   \* see Benchmark
  RAND_LENGTH                          \* a bound on the random numbers drawn

VARIABLES
  benchmark,       \* which of the two is running: "serial", "parallel", or "end"
  loop, i, calling, start_time, times, now,   \* the Benchmark object
  rand,            \* the points that rand() hits after srand(RAND_SEED), in order
  drawn,           \* how many random numbers have been used since
  points,          \* id_cluster of each of main's points
  points_copy,     \* and of those of the copy
  clusters,        \* the first members of the clusters of the object in use
  first_members    \* history: per benchmark, the first members in each finished run

benchVars == <<loop, i, calling, start_time, times, now>>
vars == <<benchmark, benchVars, rand, drawn, points, points_copy, clusters, first_members>>

B == INSTANCE Benchmark

Point   == 0 .. TOTAL_POINTS - 1
ClusterId == 0 .. CLUSTERS - 1
NoCluster == -1

Unassigned == [p \in Point |-> NoCluster]

TooManyClusters == CLUSTERS > TOTAL_POINTS

Start ==
  /\ benchmark = "serial"
  /\ B!Init
  /\ drawn = 0
  /\ points = Unassigned
  /\ points_copy = Unassigned
  /\ clusters = << >>
  /\ first_members = [b \in {"serial", "parallel"} |-> << >>]

\* srand may start any sequence.
Init == Start /\ rand \in [1 .. RAND_LENGTH -> Point]

-------------------------------------------------------------------------------

NewObject == << >>

\* A call of the lambda: the points are copied, the object is constructed.
StartRun ==
  /\ benchmark # "end"
  /\ B!Call
  /\ points_copy' = points
  /\ clusters' = NewObject
  /\ UNCHANGED <<benchmark, rand, drawn, points, first_members>>

\* A random number is used: its point becomes a first member, unless it is one.
Draw ==
  LET p == rand[drawn + 1]
  IN  /\ calling
      /\ ~ TooManyClusters
      /\ Len(clusters) < CLUSTERS
      /\ drawn < RAND_LENGTH
      /\ drawn' = drawn + 1
      /\ IF p \in Range(clusters)
         THEN UNCHANGED <<points_copy, clusters>>
         ELSE /\ points_copy' = [points_copy EXCEPT ![p] = Len(clusters)]
              /\ clusters' = Append(clusters, p)
      /\ UNCHANGED <<benchmark, benchVars, rand, points, first_members>>

\* A slip: the lambda works on main's points themselves.
PointsByReference(clustering) == clustering

PointsAfter(clustering) == points

\* The rest of run(), and the end of the lambda.
FinishRun ==
  /\ B!Return
  /\ IF TooManyClusters THEN UNCHANGED points_copy
     ELSE Len(clusters) = CLUSTERS /\ points_copy' \in [Point -> ClusterId]
  /\ points' = PointsAfter(points_copy')
  /\ first_members' = [first_members EXCEPT ![benchmark] = Append(@, clusters)]
  /\ UNCHANGED <<benchmark, rand, drawn, clusters>>

EndLoop ==
  /\ B!EndLoop
  /\ UNCHANGED <<benchmark, rand, drawn, points, points_copy, clusters, first_members>>

Tick ==
  /\ benchmark # "end"
  /\ B!Tick
  /\ UNCHANGED <<benchmark, rand, drawn, points, points_copy, clusters, first_members>>

\* A slip: the random numbers go on.
DrawnSoFar == drawn

Reseeded == 0

\* The results are printed, srand starts the random numbers over, and there is a
\* Benchmark object for the parallel program; or main() ends.
NextBenchmark ==
  /\ loop = "done" /\ benchmark # "end"
  /\ IF benchmark = "serial"
     THEN /\ benchmark' = "parallel"
          /\ drawn' = Reseeded
          /\ loop' = "warmup" /\ i' = 0 /\ times' = << >>
          /\ UNCHANGED <<calling, start_time, now>>
     ELSE /\ benchmark' = "end"
          /\ UNCHANGED <<drawn, benchVars>>
  /\ UNCHANGED <<rand, points, points_copy, clusters, first_members>>

Next == StartRun \/ Draw \/ FinishRun \/ EndLoop \/ Tick \/ NextBenchmark

Spec == Init /\ [][Next]_vars

-------------------------------------------------------------------------------
(* Properties.                                                             *)

TypeOK ==
  /\ B!TypeOK
  /\ drawn \in 0 .. RAND_LENGTH
  /\ points \in [Point -> ClusterId \cup {NoCluster}]
  /\ points_copy \in [Point -> ClusterId \cup {NoCluster}]
  /\ clusters \in Seq(Point) /\ Len(clusters) <= CLUSTERS
  /\ \A b \in DOMAIN first_members : Len(first_members[b]) <= WARMUP_RUNS + BENCH_RUNS

\* While a run draws, exactly the members it has drawn itself are in clusters, each in
\* its own, whatever the runs before it have left behind: run() appends to the
\* clusters of its object and never looks at what the points were (parallel.hpp:143).
RunsStartFresh ==
  /\ TypeOK
  /\ calling =>
       \A p \in Point, c \in ClusterId :
         points_copy[p] = c <=> c < Len(clusters) /\ clusters[c + 1] = p

\* The two benchmarks time the same work: the parallel program starts each of its runs
\* with the first members that the serial program had in the same run.
SameFirstMembers ==
  \A r \in 1 .. Min({Len(first_members["serial"]), Len(first_members["parallel"])}) :
    first_members["serial"][r] = first_members["parallel"][r]

===============================================================================
