----------------------------- MODULE SerialKMeans -----------------------------
(***************************************************************************)
(* serial::KMeans::run of include/kmeans/serial.hpp: the reference the     *)
(* parallel program is measured against.  One thread; a step is one turn   *)
(* of a loop of run().                                                     *)
(*                                                                         *)
(* A Point is its index, as in ParallelKMeans: values never change, and    *)
(* the copies that clusters hold are only asked for id and values.         *)
(***************************************************************************)
EXTENDS KMeansBase, SequencesExt

VARIABLES
  values,               \* points[i].values
  id_cluster,           \* points[i].id_cluster
  prohibited_indexes,   \* the points drawn as first members, in order
  central_values,       \* clusters[k].central_values
  cluster_points,       \* clusters[k].points
  iter,
  done,
  phase,                \* the loop that is running
  i                     \* its index

vars == <<values, id_cluster, prohibited_indexes, central_values, cluster_points,
          iter, done, phase, i>>

\* The clusters that exist: all of them once the first members are drawn.
Built == 0 .. Len(prohibited_indexes) - 1

TypeOK ==
  /\ values \in [Point -> Value]
  /\ id_cluster \in [Point -> Cluster \cup {NoCluster}]
  /\ prohibited_indexes \in Seq(Point)
  /\ Len(prohibited_indexes) <= CLUSTERS
  /\ central_values \in [Built -> Center]
  /\ cluster_points \in [Built -> Seq(Point)]
  /\ iter \in {1} \cup 1 .. MAX_ITERATIONS
  /\ done \in BOOLEAN
  /\ phase \in {"seed", "top", "assign", "recalculate", "done"}
  /\ i \in 0 .. TOTAL_POINTS

Init ==
  /\ values \in Inputs
  /\ id_cluster = [p \in Point |-> NoCluster]
  /\ prohibited_indexes = << >>
  /\ central_values = [k \in {} |-> k]
  /\ cluster_points = [k \in {} |-> k]
  /\ iter = 1
  /\ done = TRUE
  /\ phase = FirstPhase
  /\ i = 0

-------------------------------------------------------------------------------

Taken(p) == p \in Range(prohibited_indexes)

\* rand() hits point p, which no cluster has taken.  A draw that hits a taken
\* point only repeats the loop: a stuttering step.
SeedCluster(p) ==
  LET k == Len(prohibited_indexes)
  IN  /\ phase = "seed"
      /\ ~ Taken(p)
      /\ prohibited_indexes' = Append(prohibited_indexes, p)
      /\ id_cluster' = [id_cluster EXCEPT ![p] = k]
      /\ central_values' =
           [j \in 0 .. k |-> IF j = k THEN CenterAt(values[p]) ELSE central_values[j]]
      /\ cluster_points' = [j \in 0 .. k |-> IF j = k THEN <<p>> ELSE cluster_points[j]]
      /\ phase' = IF k + 1 = CLUSTERS THEN "top" ELSE "seed"
      /\ UNCHANGED <<values, iter, done, i>>

StartIteration ==
  /\ phase = "top"
  /\ done' = TRUE
  /\ i' = 0
  /\ phase' = "assign"
  /\ UNCHANGED <<values, id_cluster, prohibited_indexes, central_values, cluster_points,
                 iter>>

\* Point i is already where it belongs.
StayInCluster ==
  /\ phase = "assign"
  /\ i \in Point
  /\ id_cluster[i] = getIDNearestCenter(central_values, values[i])
  /\ i' = i + 1
  /\ UNCHANGED <<values, id_cluster, prohibited_indexes, central_values, cluster_points,
                 iter, done, phase>>

\* A slip: no point has the id, and the result that says so is ignored.
NotFound(points, p) == points

\* Erase the first point with the given id and keep the others in order.
removePoint(points, p) == RemoveFirst(points, p)

\* Point i leaves its cluster, if it has one, and is added to the nearest.
MoveToNearest ==
  LET old     == id_cluster[i]
      nearest == getIDNearestCenter(central_values, values[i])
      removed == IF old = NoCluster
                 THEN cluster_points
                 ELSE [cluster_points EXCEPT ![old] = removePoint(@, i)]
  IN  /\ phase = "assign"
      /\ i \in Point
      /\ old # nearest
      /\ cluster_points' = [removed EXCEPT ![nearest] = Append(@, i)]
      /\ id_cluster' = [id_cluster EXCEPT ![i] = nearest]
      /\ done' = FALSE
      /\ i' = i + 1
      /\ UNCHANGED <<values, prohibited_indexes, central_values, iter, phase>>

EndAssign ==
  /\ phase = "assign"
  /\ i = TOTAL_POINTS
  /\ i' = 0
  /\ phase' = "recalculate"
  /\ UNCHANGED <<values, id_cluster, prohibited_indexes, central_values, cluster_points,
                 iter, done>>

\* An empty cluster keeps its center.
RecalculateCenter ==
  /\ phase = "recalculate"
  /\ i \in Cluster
  /\ central_values' = IF Len(cluster_points[i]) > 0
                       THEN [central_values EXCEPT
                               ![i] = MeanOf(ValuesOf(values, cluster_points[i]))]
                       ELSE central_values
  /\ i' = i + 1
  /\ UNCHANGED <<values, id_cluster, prohibited_indexes, cluster_points, iter, done, phase>>

LimitReached == iter >= MAX_ITERATIONS

Break ==
  /\ phase = "recalculate"
  /\ i = CLUSTERS
  /\ done \/ LimitReached
  /\ phase' = "done"
  /\ UNCHANGED <<values, id_cluster, prohibited_indexes, central_values, cluster_points,
                 iter, done, i>>

NextIteration ==
  /\ phase = "recalculate"
  /\ i = CLUSTERS
  /\ ~ done
  /\ ~ LimitReached
  /\ iter' = iter + 1
  /\ phase' = "top"
  /\ UNCHANGED <<values, id_cluster, prohibited_indexes, central_values, cluster_points,
                 done, i>>

Next ==
  \/ \E p \in Point : SeedCluster(p)
  \/ StartIteration
  \/ StayInCluster \/ MoveToNearest \/ EndAssign
  \/ RecalculateCenter
  \/ Break \/ NextIteration

\* The only thread is scheduled, and rand() sooner or later draws a point that
\* is not taken.
Spec == Init /\ [][Next]_vars /\ WF_vars(Next)

(***************************************************************************)
(* Properties.                                                             *)
(***************************************************************************)

\* At every step of the loops the lists of the clusters partition the points
\* that have a cluster, each list in agreement with id_cluster: removePoint,
\* whose result run() ignores, always finds the point it is asked to remove.
PointsMatchClusters ==
  \A k \in Built :
    /\ IsInjective(cluster_points[k])
    /\ Range(cluster_points[k]) = {p \in Point : id_cluster[p] = k}

\* Where the loops are: nothing runs without points enough, all clusters exist once the
\* first members are drawn, until then only drawn points have a cluster, a point that has
\* one has one that exists, and no index leaves its loop.
LoopsInv ==
  /\ phase # "done" => ~ TooManyClusters
  /\ phase = "seed" =>
       /\ Len(prohibited_indexes) < CLUSTERS
       /\ \A p \in Point : id_cluster[p] # NoCluster => p \in Range(prohibited_indexes)
  /\ phase \notin {"seed", "done"} => Len(prohibited_indexes) = CLUSTERS
  /\ \A p \in Point : id_cluster[p] \in Built \cup {NoCluster}
  /\ phase = "recalculate" => i <= CLUSTERS

\* PointsMatchClusters and what it takes to be preserved by every step.
IInv == TypeOK /\ LoopsInv /\ PointsMatchClusters

-------------------------------------------------------------------------------
(***************************************************************************)
(* Refinement of Lloyd, which assigns all points when the loop over the    *)
(* points is entered and moves all centers when the loop over the clusters *)
(* is: what the rest of each loop will do is settled by then.              *)
(***************************************************************************)

AbstractAssignment ==
  [p \in Point |->
     IF phase = "assign" /\ p >= i
     THEN getIDNearestCenter(central_values, values[p])
     ELSE IF phase = "seed" THEN NoCluster ELSE id_cluster[p]]

AbstractCenters ==
  IF Built # Cluster THEN [k \in {} |-> k]
  ELSE [k \in Cluster |->
          IF phase = "recalculate" /\ k >= i /\ Len(cluster_points[k]) > 0
          THEN MeanOf(ValuesOf(values, cluster_points[k]))
          ELSE central_values[k]]

L == INSTANCE Lloyd WITH
       assignment <- AbstractAssignment,
       centers    <- AbstractCenters,
       stable     <- IF phase = "assign"
                     THEN done /\ \A p \in i .. TOTAL_POINTS - 1 :
                                    id_cluster[p] = AbstractAssignment[p]
                     ELSE done,
       stage      <- CASE phase = "assign"      -> "assigned"
                       [] phase = "recalculate" -> "recentred"
                       [] OTHER                 -> phase

\* Another iteration would change nothing: every point is in the first cluster whose
\* center is nearest, and every center with points is their mean.
FixedPoint ==
  /\ \A p \in Point : IsFirstNearest(id_cluster[p], central_values, values[p])
  /\ \A k \in Cluster : central_values[k] \in L!NextCenters(k)

\* With room enough the iteration stops because nothing moves any more, it never cycles
\* between clusterings; and then it stops at a fixed point (serial.hpp:199).
StopsAtFixedPoint ==
  phase = "done" /\ ~ TooManyClusters => done /\ FixedPoint

\* No pass of the loops makes the clustering worse, once every point is in a cluster.
CostNeverIncreases == L!CostNeverIncreases

\* The serial program computes what Lloyd's iteration computes, and stops.
ImplementsLloyd == L!Spec

===============================================================================
