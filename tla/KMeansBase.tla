------------------------------ MODULE KMeansBase ------------------------------
(***************************************************************************)
(* What the serial and the parallel k-means (include/kmeans/serial.hpp and *)
(* parallel.hpp) have in common: the sizes of include/constants.hpp, the   *)
(* arithmetic on feature vectors, and the scan for the nearest center.     *)
(*                                                                         *)
(* The arithmetic is a parameter.  A value is what a Point carries in its  *)
(* `values', a center what a Cluster carries in its `central_values'.      *)
(* Squared distances are only ever compared, and non-negative doubles are  *)
(* ordered like a set of naturals, so they are naturals here.              *)
(***************************************************************************)
EXTENDS Integers, Sequences, FiniteSets, Functions

CONSTANTS
  TOTAL_POINTS,     \* number of points
  CLUSTERS,         \* number of clusters
  MAX_ITERATIONS,   \* bound on the number of iterations
  Value,            \* the feature vectors a point can have
  Center,           \* the feature vectors a cluster center can have
  Inputs,           \* the data sets the program may be given on its input
  CenterAt(_),      \* the center a Cluster takes from its first point
  DistSq(_, _),     \* squared distance between a center and a value
  MeanOf(_)         \* the center computed from a non-empty sequence of values

Point   == 0 .. TOTAL_POINTS - 1
Cluster == 0 .. CLUSTERS - 1
NoCluster == -1     \* id_cluster of a point that belongs to no cluster yet

\* With no cluster at all the code would index an empty vector.
ASSUME SizesAssumption ==
  /\ TOTAL_POINTS \in Nat
  /\ CLUSTERS \in Nat \ {0}
  /\ MAX_ITERATIONS \in Nat
  /\ Inputs \subseteq [Point -> Value]

ASSUME ArithmeticAssumption ==
  /\ \A v \in Value : CenterAt(v) \in Center
  /\ \A c \in Center, v \in Value : DistSq(c, v) \in Nat
  /\ \A n \in 1 .. TOTAL_POINTS : \A s \in [1 .. n -> Value] : MeanOf(s) \in Center

\* The mean of a single point is the center a cluster takes from it.
MeanOfOne == \A v \in Value : MeanOf(<<v>>) = CenterAt(v)

\* No center is nearer to the points of a list with values in V, all of them together,
\* than their mean.
MeanIsCentral(V) ==
  \A n \in 1 .. TOTAL_POINTS : \A s \in [1 .. n -> V], c \in Center :
    SumFunction([j \in 1 .. n |-> DistSq(MeanOf(s), s[j])])
      <= SumFunction([j \in 1 .. n |-> DistSq(c, s[j])])

-------------------------------------------------------------------------------

\* A slip: the sizes are not looked at.
NeverTooMany == FALSE

\* When run() returns at once: there are not enough points to draw from.
TooManyClusters == CLUSTERS > TOTAL_POINTS

\* Where run() is after its first check: at its end, or about to draw first members.
FirstPhase == IF TooManyClusters THEN "done" ELSE "seed"

(***************************************************************************)
(* getIDNearestCenter: scan the clusters in order and move to cluster k    *)
(* only when it is strictly closer than the best of those before it.       *)
(***************************************************************************)
\* A slip: every cluster is compared with cluster 0 only.
NearestOfPairs(centers, v) ==
  LET best[k \in Cluster] ==
        IF k = 0 THEN 0
        ELSE IF DistSq(centers[k], v) < DistSq(centers[0], v) THEN k ELSE best[k - 1]
  IN  best[CLUSTERS - 1]

\* A slip: the comparison is the wrong way round.
FarthestCenter(centers, v) ==
  LET best[k \in Cluster] ==
        IF k = 0 THEN 0
        ELSE IF DistSq(centers[k], v) > DistSq(centers[best[k - 1]], v)
             THEN k
             ELSE best[k - 1]
  IN  best[CLUSTERS - 1]

getIDNearestCenter(centers, v) ==
  LET best[k \in Cluster] ==
        IF k = 0 THEN 0
        ELSE IF DistSq(centers[k], v) < DistSq(centers[best[k - 1]], v)
             THEN k
             ELSE best[k - 1]
  IN  best[CLUSTERS - 1]

\* The same cluster, said without a loop: the first of the clusters at minimal
\* distance.
IsFirstNearest(k, centers, v) ==
  /\ \A j \in Cluster : DistSq(centers[k], v) <= DistSq(centers[j], v)
  /\ \A j \in 0 .. k - 1 : DistSq(centers[k], v) < DistSq(centers[j], v)

\* The values of the points in a cluster's list, in the order of the list.
ValuesOf(values, points) == [i \in DOMAIN points |-> values[points[i]]]

\* What k-means makes small: the squared distances of all points to the centers of their
\* clusters.
CostOf(values, centers, assignment) ==
  SumFunction([p \in Point |-> DistSq(centers[assignment[p]], values[p])])

===============================================================================
