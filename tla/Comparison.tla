------------------------------ MODULE Comparison -------------------------------
(***************************************************************************)
(* The verdict of src/kmeans/test.cpp on two clusterings: one pass over    *)
(* the points that builds a map from the cluster ids of the serial run to  *)
(* those of the parallel run.                                              *)
(***************************************************************************)
EXTENDS Integers, FiniteSets, TLC

CONSTANTS
  TOTAL_POINTS,   \* serial_points.size()
  Cluster         \* the ids a point's getCluster() may return

ASSUME ComparisonAssumption == TOTAL_POINTS \in Nat

Point == 0 .. TOTAL_POINTS - 1

VARIABLES
  serial_cluster,     \* serial_points[p].getCluster()
  parallel_cluster,   \* parallel_points[p].getCluster()
  i,                  \* the point the loop is at
  logical_clusters,   \* serial cluster id -> parallel cluster id
  results_match,
  differences

loopVars == <<i, logical_clusters, results_match, differences>>
vars == <<serial_cluster, parallel_cluster, loopVars>>

TypeOK ==
  /\ serial_cluster \in [Point -> Cluster]
  /\ parallel_cluster \in [Point -> Cluster]
  /\ i \in 0 .. TOTAL_POINTS
  /\ DOMAIN logical_clusters \subseteq Cluster
  /\ \A k \in DOMAIN logical_clusters : logical_clusters[k] \in Cluster
  /\ results_match \in BOOLEAN
  /\ differences \in 0 .. TOTAL_POINTS

StartLoop ==
  /\ i = 0
  /\ logical_clusters = [k \in {} |-> k]
  /\ results_match = TRUE
  /\ differences = 0

\* The loop is given any two clusterings.
Init ==
  /\ serial_cluster \in [Point -> Cluster]
  /\ parallel_cluster \in [Point -> Cluster]
  /\ StartLoop

\* The first point of its serial cluster: its parallel cluster is recorded.
InsertPair ==
  /\ i \in Point
  /\ serial_cluster[i] \notin DOMAIN logical_clusters
  /\ logical_clusters' =
       [k \in DOMAIN logical_clusters \cup {serial_cluster[i]} |->
          IF k = serial_cluster[i] THEN parallel_cluster[i] ELSE logical_clusters[k]]
  /\ i' = i + 1
  /\ UNCHANGED <<serial_cluster, parallel_cluster, results_match, differences>>

\* A slip: the difference is counted and the verdict left alone.
CountOnly ==
  /\ i \in Point
  /\ serial_cluster[i] \in DOMAIN logical_clusters
  /\ differences' = IF logical_clusters[serial_cluster[i]] # parallel_cluster[i]
                    THEN differences + 1
                    ELSE differences
  /\ i' = i + 1
  /\ UNCHANGED <<serial_cluster, parallel_cluster, logical_clusters, results_match>>

\* A slip: the record follows the last point seen.
RecordLast ==
  /\ i \in Point
  /\ serial_cluster[i] \in DOMAIN logical_clusters
  /\ IF logical_clusters[serial_cluster[i]] # parallel_cluster[i]
     THEN results_match' = FALSE /\ differences' = differences + 1
     ELSE UNCHANGED <<results_match, differences>>
  /\ logical_clusters' = [logical_clusters EXCEPT ![serial_cluster[i]] = parallel_cluster[i]]
  /\ i' = i + 1
  /\ UNCHANGED <<serial_cluster, parallel_cluster>>

\* The serial cluster is known: the parallel cluster has to be the recorded one.
CheckPair ==
  /\ i \in Point
  /\ serial_cluster[i] \in DOMAIN logical_clusters
  /\ IF logical_clusters[serial_cluster[i]] # parallel_cluster[i]
     THEN results_match' = FALSE /\ differences' = differences + 1
     ELSE UNCHANGED <<results_match, differences>>
  /\ i' = i + 1
  /\ UNCHANGED <<serial_cluster, parallel_cluster, logical_clusters>>

Next == InsertPair \/ CheckPair

Spec == Init /\ [][Next]_vars /\ WF_vars(Next)

-------------------------------------------------------------------------------
(* What the verdict means.                                                 *)

Finished == i = TOTAL_POINTS

Together(clustering, p, q) == clustering[p] = clustering[q]

\* The two clusterings have the same collections of points, cluster ids aside.
SameCollections ==
  \A p, q \in Point : Together(serial_cluster, p, q) <=> Together(parallel_cluster, p, q)

\* PASSED is printed exactly when points that are together in the serial
\* clustering are together in the parallel one.  So a correct program always
\* passes: there is no false alarm, whatever the ids.
PassesIffCoarser ==
  Finished =>
    (results_match <=> \A p, q \in Point : Together(serial_cluster, p, q)
                                             => Together(parallel_cluster, p, q))

\* The number that is printed after FAILED is a number of points outside the
\* collection the first point of their serial cluster is in.
DifferencesAreMisplaced ==
  /\ TypeOK
  /\ Finished =>
       differences = Cardinality({p \in Point : \E q \in 0 .. p - 1 :
                       /\ Together(serial_cluster, p, q)
                       /\ ~ Together(parallel_cluster, p, q)
                       /\ \A r \in 0 .. q - 1 : ~ Together(serial_cluster, r, q)})

\* What the comment above the loop asks for: the collections must be the same.
PassedMeansSame == Finished /\ results_match => SameCollections

===============================================================================
