------------------------------ MODULE KMeansTest -------------------------------
(***************************************************************************)
(* src/kmeans/test.cpp: the serial run and the parallel run on copies of   *)
(* one data set, with the random numbers seeded alike, and the comparison  *)
(* of their results.  Composes SerialKMeans, ParallelKMeans and            *)
(* Comparison; each program has its own way to compute a distance.         *)
(***************************************************************************)
EXTENDS Integers, Sequences, FiniteSets, FiniteSetsExt, Functions

CONSTANTS
  TOTAL_POINTS, CLUSTERS, MAX_ITERATIONS, Value, Center, Inputs, CenterAt(_), MeanOf(_),
  SerialDist(_, _),     \* the squared distance as the serial program computes it
  ParallelDist(_, _)    \* and as the parallel program does

VARIABLES
  values,               \* the data set, read once and copied for each run
  draws,                \* the points rand() hits after srand(RAND_SEED), repeats left out
  stage,                \* what main() is doing
  s_id_cluster, s_prohibited_indexes, s_central_values, s_cluster_points, s_iter, s_done,
  s_phase, s_i,
  p_id_cluster, p_prohibited_indexes, p_central_values, p_cluster_points, p_iter, p_done,
  p_phase, p_task, p_nearest, p_remove_vec, p_add_point_to_cluster, p_adjusting,
  p_unscanned, p_new_points, p_recentred,
  c_i, c_logical_clusters, c_results_match, c_differences

serialVars == <<s_id_cluster, s_prohibited_indexes, s_central_values, s_cluster_points,
                s_iter, s_done, s_phase, s_i>>
parallelVars == <<p_id_cluster, p_prohibited_indexes, p_central_values, p_cluster_points,
                  p_iter, p_done, p_phase, p_task, p_nearest, p_remove_vec,
                  p_add_point_to_cluster, p_adjusting, p_unscanned, p_new_points,
                  p_recentred>>
comparisonVars == <<c_i, c_logical_clusters, c_results_match, c_differences>>
vars == <<values, draws, stage, serialVars, parallelVars, comparisonVars>>

S == INSTANCE SerialKMeans WITH
       DistSq <- SerialDist,
       id_cluster <- s_id_cluster, prohibited_indexes <- s_prohibited_indexes,
       central_values <- s_central_values, cluster_points <- s_cluster_points,
       iter <- s_iter, done <- s_done, phase <- s_phase, i <- s_i

P == INSTANCE ParallelKMeans WITH
       DistSq <- ParallelDist,
       id_cluster <- p_id_cluster, prohibited_indexes <- p_prohibited_indexes,
       central_values <- p_central_values, cluster_points <- p_cluster_points,
       iter <- p_iter, done <- p_done, phase <- p_phase, task <- p_task,
       nearest <- p_nearest, remove_vec <- p_remove_vec,
       add_point_to_cluster <- p_add_point_to_cluster, adjusting <- p_adjusting,
       unscanned <- p_unscanned, new_points <- p_new_points, recentred <- p_recentred

C == INSTANCE Comparison WITH
       Cluster <- -1 .. CLUSTERS - 1,
       serial_cluster <- s_id_cluster, parallel_cluster <- p_id_cluster,
       i <- c_i, logical_clusters <- c_logical_clusters,
       results_match <- c_results_match, differences <- c_differences

ASSUME SizesAssumption == S!SizesAssumption
ASSUME ArithmeticAssumption == S!ArithmeticAssumption /\ P!ArithmeticAssumption

\* What makes arithmetic exact as far as the test can tell: the mean of a cluster does
\* not depend on the order in which its points are added up, and both programs compute
\* the same distances.
MeansIgnoreOrder ==
  \A v \in Inputs, points \in SUBSET S!Point :
    \A s, t \in S!L!Enumerations(points) :
      points # {} => MeanOf(S!ValuesOf(v, s)) = MeanOf(S!ValuesOf(v, t))

DistancesAgree ==
  \A c \in Center, v \in Value : SerialDist(c, v) = ParallelDist(c, v)

-------------------------------------------------------------------------------

Init ==
  /\ S!Init /\ P!Init /\ C!StartLoop
  /\ draws \in Injection(1 .. Min({CLUSTERS, TOTAL_POINTS}), 0 .. TOTAL_POINTS - 1)
  /\ stage = "serial"

\* A slip: the random numbers are not started over for the second run.
FollowsNothing(prohibited_indexes) == TRUE

\* A run draws its next first member from the random numbers.
FollowsDraws(prohibited_indexes) ==
  prohibited_indexes = SubSeq(draws, 1, Len(prohibited_indexes))

SerialRun ==
  /\ stage = "serial"
  /\ S!Next
  /\ FollowsDraws(s_prohibited_indexes')
  /\ UNCHANGED <<draws, stage, parallelVars, comparisonVars>>

\* serial_kmeans.run has returned; srand starts the random numbers over.
StartParallel ==
  /\ stage = "serial"
  /\ s_phase = "done"
  /\ stage' = "parallel"
  /\ UNCHANGED <<values, draws, serialVars, parallelVars, comparisonVars>>

ParallelRun ==
  /\ stage = "parallel"
  /\ P!Next
  /\ FollowsDraws(p_prohibited_indexes')
  /\ UNCHANGED <<draws, stage, serialVars, comparisonVars>>

StartComparison ==
  /\ stage = "parallel"
  /\ p_phase = "done"
  /\ stage' = "compare"
  /\ UNCHANGED <<values, draws, serialVars, parallelVars, comparisonVars>>

Compare ==
  /\ stage = "compare"
  /\ C!Next
  /\ UNCHANGED <<values, draws, stage, serialVars, parallelVars>>

PrintVerdict ==
  /\ stage = "compare"
  /\ C!Finished
  /\ stage' = "printed"
  /\ UNCHANGED <<values, draws, serialVars, parallelVars, comparisonVars>>

Next ==
  SerialRun \/ StartParallel \/ ParallelRun \/ StartComparison \/ Compare \/ PrintVerdict

\* main() goes on as long as it can, through both runs, and rand() sooner or later
\* hits a point that is not taken.
Spec == Init /\ [][Next]_vars /\ WF_vars(Next)

-------------------------------------------------------------------------------

\* The concurrency of the parallel run never shows in its result: with the same
\* first members both programs end after the same number of iterations, with every
\* point in the same cluster and every center in the same place.
SameResult ==
  stage \in {"compare", "printed"} =>
    /\ p_iter = s_iter
    /\ p_id_cluster = s_id_cluster
    /\ p_central_values = s_central_values

\* The test passes.
TestPasses == stage = "printed" => c_results_match

\* The test comes to its verdict, with fewer points than clusters too: each run
\* returns before it draws first members from points it does not have
\* (parallel.hpp:128, serial.hpp:123).
TestEnds == <>(stage = "printed")

===============================================================================
