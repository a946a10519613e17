-------------------------------- MODULE Lloyd ---------------------------------
(***************************************************************************)
(* What k-means promises, whoever computes it: Lloyd's iteration, with a   *)
(* whole pass over the points, and a whole pass over the clusters, as one  *)
(* step each.  SerialKMeans and ParallelKMeans are shown to implement it.  *)
(*                                                                         *)
(* A cluster is the set of points assigned to it.  In which order a        *)
(* program adds up its members is left open: a center may be MeanOf any    *)
(* enumeration of them.                                                    *)
(***************************************************************************)
EXTENDS KMeansBase

VARIABLES
  values,       \* the data set, one value per point; never changes
  assignment,   \* the cluster of each point, or NoCluster
  centers,      \* the center of each cluster; empty until they are chosen
  stable,       \* did the last pass over the points change no assignment?
  iter,         \* number of the current iteration, from 1
  stage         \* the step that is due

vars == <<values, assignment, centers, stable, iter, stage>>

Init ==
  /\ values \in Inputs
  /\ assignment = [p \in Point |-> NoCluster]
  /\ centers = [k \in {} |-> k]
  /\ stable = TRUE
  /\ iter = 1
  /\ stage = FirstPhase

-------------------------------------------------------------------------------

\* CLUSTERS different points become the first members and centers.
Seed ==
  /\ stage = "seed"
  /\ \E seed \in Injection(Cluster, Point) :
       /\ centers' = [k \in Cluster |-> CenterAt(values[seed[k]])]
       /\ assignment' = [p \in Point |->
                           IF \E k \in Cluster : seed[k] = p
                           THEN CHOOSE k \in Cluster : seed[k] = p
                           ELSE NoCluster]
  /\ stage' = "top"
  /\ UNCHANGED <<values, stable, iter>>

\* Every point goes to the nearest of the centers as they are now.
Assign ==
  /\ stage = "top"
  /\ assignment' = [p \in Point |-> getIDNearestCenter(centers, values[p])]
  /\ stable' = (assignment' = assignment)
  /\ stage' = "assigned"
  /\ UNCHANGED <<values, centers, iter>>

Members(k) == {p \in Point : assignment[p] = k}

\* The sequences that list every element of S exactly once.
Enumerations(S) == Injection(1 .. Cardinality(S), S)

\* Where cluster k may move its center: to the mean of its members, or, when it
\* has none, nowhere.
NextCenters(k) ==
  IF Members(k) = {}
  THEN {centers[k]}
  ELSE {MeanOf(ValuesOf(values, s)) : s \in Enumerations(Members(k))}

Recenter ==
  /\ stage = "assigned"
  /\ \E mean \in [Cluster -> UNION {NextCenters(k) : k \in Cluster}] :
       /\ \A k \in Cluster : mean[k] \in NextCenters(k)
       /\ centers' = mean
  /\ stage' = "recentred"
  /\ UNCHANGED <<values, assignment, stable, iter>>

LimitReached == iter >= MAX_ITERATIONS

Stop ==
  /\ stage = "recentred"
  /\ stable \/ LimitReached
  /\ stage' = "done"
  /\ UNCHANGED <<values, assignment, centers, stable, iter>>

Repeat ==
  /\ stage = "recentred"
  /\ ~ stable
  /\ ~ LimitReached
  /\ iter' = iter + 1
  /\ stage' = "top"
  /\ UNCHANGED <<values, assignment, centers, stable>>

Next == Seed \/ Assign \/ Recenter \/ Stop \/ Repeat

Spec == Init /\ [][Next]_vars /\ WF_vars(Next)

(***************************************************************************)
(* Properties.                                                             *)
(***************************************************************************)

AllAssigned == stage # "seed" /\ \A p \in Point : assignment[p] # NoCluster

Cost == CostOf(values, centers, assignment)

\* Once every point is in a cluster, no pass makes the clustering worse: moving
\* points to a nearer center and moving a center to the mean of its points both
\* lower the cost or keep it, ties and empty clusters included.
CostNeverIncreases == [][AllAssigned => Cost' <= Cost]_vars

===============================================================================
