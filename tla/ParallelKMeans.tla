---------------------------- MODULE ParallelKMeans ----------------------------
(***************************************************************************)
(* parallel::KMeans::run of include/kmeans/parallel.hpp.                   *)
(*                                                                         *)
(* The main thread chooses the first clusters and then repeats an          *)
(* iteration of three tbb::parallel_for loops.  Each loop is a set of      *)
(* tasks that run concurrently in any order, and a join: parallel_for      *)
(* returns when all of them have finished.  TBB runs the indices of a      *)
(* chunk one after the other on one thread; here every index is a task of  *)
(* its own, which allows those schedules and all others.  A push_back on a *)
(* tbb::concurrent_vector is one step.  Every step of a task touches at    *)
(* most one object that other tasks may touch.                             *)
(*                                                                         *)
(* A Point is its index: values never change, and the copies of a Point    *)
(* that the clusters and vectors hold are only asked for id and values.    *)
(***************************************************************************)
EXTENDS KMeansBase, Functions

VARIABLES
  values,                 \* points[i].values
  id_cluster,             \* points[i].id_cluster
  prohibited_indexes,     \* the points drawn as first members, in order
  central_values,         \* clusters[k].central_values
  cluster_points,         \* clusters[k].points, the order of the vector kept
  iter,
  done,                   \* written by many tasks of the first loop
  phase,                  \* where the main thread is
  task,                   \* first loop: where the task of each point is
  nearest,                \* first loop: id_nearest_center of a running task
  remove_vec,             \* per cluster, the points to remove
  add_point_to_cluster,   \* per cluster, the points to add
  adjusting,              \* second loop: where the task of each cluster is
  unscanned,              \* removePoints: positions its inner loop has not run
  new_points,             \* removePoints: the points kept so far
  recentred               \* third loop: the clusters whose task has finished

seedVars   == <<prohibited_indexes>>
assignVars == <<task, nearest, remove_vec, add_point_to_cluster>>
adjustVars == <<adjusting, unscanned, new_points>>
vars == <<values, id_cluster, central_values, cluster_points, iter, done, phase,
          seedVars, assignVars, adjustVars, recentred>>

\* The clusters that exist: all of them once the first members are drawn.
Built == 0 .. Len(prohibited_indexes) - 1

TypeOK ==
  /\ values \in [Point -> Value]
  /\ id_cluster \in [Point -> Cluster \cup {NoCluster}]
  /\ prohibited_indexes \in Seq(Point)
  /\ Len(prohibited_indexes) <= CLUSTERS
  /\ central_values \in [Built -> Center]
  /\ cluster_points \in [Built -> Seq(Point)]
  /\ iter \in {1} \cup 1 .. MAX_ITERATIONS
  /\ done \in BOOLEAN
  /\ phase \in {"seed", "top", "assign", "adjust", "recalculate", "done"}
  /\ task \in [Point -> {"ready", "moving", "flagging", "finished"}]
  /\ nearest \in [Point -> Cluster \cup {NoCluster}]
  /\ remove_vec \in [Cluster -> Seq(Point)]
  /\ add_point_to_cluster \in [Cluster -> Seq(Point)]
  /\ adjusting \in [Cluster -> {"ready", "removing", "finished"}]
  /\ unscanned \in [Cluster -> SUBSET (Nat \ {0})]
  /\ new_points \in [Cluster -> Seq(Point)]
  /\ recentred \in SUBSET Cluster

Init ==
  /\ values \in Inputs
  /\ id_cluster = [p \in Point |-> NoCluster]
  /\ prohibited_indexes = << >>
  /\ central_values = [k \in {} |-> k]
  /\ cluster_points = [k \in {} |-> k]
  /\ iter = 1
  /\ done = TRUE
  /\ phase = FirstPhase
  /\ task = [p \in Point |-> "ready"]
  /\ nearest = [p \in Point |-> NoCluster]
  /\ remove_vec = [k \in Cluster |-> << >>]
  /\ add_point_to_cluster = [k \in Cluster |-> << >>]
  /\ adjusting = [k \in Cluster |-> "ready"]
  /\ unscanned = [k \in Cluster |-> {}]
  /\ new_points = [k \in Cluster |-> << >>]
  /\ recentred = {}

-------------------------------------------------------------------------------
(* The main thread draws the first members.                                *)

\* A slip: points are told apart by their values.
SameValueTaken(p) == \E q \in Range(prohibited_indexes) : values[q] = values[p]

Taken(p) == p \in Range(prohibited_indexes)

\* rand() hits point p, which no cluster has taken.  A draw that hits a taken
\* point only repeats the loop: a stuttering step.
SeedCluster(p) ==
  LET i == Len(prohibited_indexes)
  IN  /\ phase = "seed"
      /\ ~ Taken(p)
      /\ prohibited_indexes' = Append(prohibited_indexes, p)
      /\ id_cluster' = [id_cluster EXCEPT ![p] = i]
      /\ central_values' =
           [k \in 0 .. i |-> IF k = i THEN CenterAt(values[p]) ELSE central_values[k]]
      /\ cluster_points' =
           [k \in 0 .. i |-> IF k = i THEN <<p>> ELSE cluster_points[k]]
      /\ phase' = IF i + 1 = CLUSTERS THEN "top" ELSE "seed"
      /\ UNCHANGED <<values, iter, done, assignVars, adjustVars, recentred>>

\* The top of the loop: a fresh flag and fresh vectors, and the first loop's tasks.
StartIteration ==
  /\ phase = "top"
  /\ done' = TRUE
  /\ remove_vec' = [k \in Cluster |-> << >>]
  /\ add_point_to_cluster' = [k \in Cluster |-> << >>]
  /\ task' = [p \in Point |-> "ready"]
  /\ phase' = "assign"
  /\ UNCHANGED <<values, id_cluster, seedVars, central_values, cluster_points, iter,
                 nearest, adjustVars, recentred>>

-------------------------------------------------------------------------------
(* First loop: one task per point.                                         *)

\* A slip: every task writes its own finding to the flag.
StayAndSetDone(p) ==
  /\ phase = "assign"
  /\ task[p] = "ready"
  /\ id_cluster[p] = getIDNearestCenter(central_values, values[p])
  /\ done' = TRUE
  /\ task' = [task EXCEPT ![p] = "finished"]
  /\ UNCHANGED <<values, id_cluster, seedVars, central_values, cluster_points, iter, phase,
                 nearest, remove_vec, add_point_to_cluster, adjustVars, recentred>>

\* The nearest center is that of the point's own cluster: nothing to do.
StayInCluster(p) ==
  /\ phase = "assign"
  /\ task[p] = "ready"
  /\ id_cluster[p] = getIDNearestCenter(central_values, values[p])
  /\ task' = [task EXCEPT ![p] = "finished"]
  /\ UNCHANGED <<values, id_cluster, seedVars, central_values, cluster_points, iter, done,
                 phase, nearest, remove_vec, add_point_to_cluster, adjustVars, recentred>>

\* A slip: point_cache is static, and another task fills it with its own point q.
LeaveWithSharedCache(p) ==
  \E q \in Point :
    LET id_nearest_center == getIDNearestCenter(central_values, values[q])
    IN  /\ phase = "assign"
        /\ task[p] = "ready" /\ task[q] = "ready"
        /\ id_cluster[p] # id_nearest_center
        /\ nearest' = [nearest EXCEPT ![p] = id_nearest_center]
        /\ remove_vec' = IF id_cluster[p] = NoCluster
                         THEN remove_vec
                         ELSE [remove_vec EXCEPT ![id_cluster[p]] = Append(@, p)]
        /\ task' = [task EXCEPT ![p] = "moving"]
        /\ UNCHANGED <<values, id_cluster, seedVars, central_values, cluster_points, iter,
                       done, phase, add_point_to_cluster, adjustVars, recentred>>

\* Another center is nearer: the old cluster, if there is one, is to drop the point.
LeaveCluster(p) ==
  LET id_old_cluster    == id_cluster[p]
      id_nearest_center == getIDNearestCenter(central_values, values[p])
  IN  /\ phase = "assign"
      /\ task[p] = "ready"
      /\ id_old_cluster # id_nearest_center
      /\ nearest' = [nearest EXCEPT ![p] = id_nearest_center]
      /\ remove_vec' = IF id_old_cluster = NoCluster
                       THEN remove_vec
                       ELSE [remove_vec EXCEPT ![id_old_cluster] = Append(@, p)]
      /\ task' = [task EXCEPT ![p] = "moving"]
      /\ UNCHANGED <<values, id_cluster, seedVars, central_values, cluster_points, iter,
                     done, phase, add_point_to_cluster, adjustVars, recentred>>

JoinCluster(p) ==
  /\ phase = "assign"
  /\ task[p] = "moving"
  /\ id_cluster' = [id_cluster EXCEPT ![p] = nearest[p]]
  /\ add_point_to_cluster' = [add_point_to_cluster EXCEPT ![nearest[p]] = Append(@, p)]
  /\ nearest' = [nearest EXCEPT ![p] = NoCluster]
  /\ task' = [task EXCEPT ![p] = "flagging"]
  /\ UNCHANGED <<values, seedVars, central_values, cluster_points, iter, done, phase,
                 remove_vec, adjustVars, recentred>>

\* Several tasks may write the flag at once, a data race on a bool that is not
\* atomic.  They all write the same value and nobody reads it before the join.
ClearDone(p) ==
  /\ phase = "assign"
  /\ task[p] = "flagging"
  /\ done' = FALSE
  /\ task' = [task EXCEPT ![p] = "finished"]
  /\ UNCHANGED <<values, id_cluster, seedVars, central_values, cluster_points, iter, phase,
                 nearest, remove_vec, add_point_to_cluster, adjustVars, recentred>>

AssignJoin ==
  /\ phase = "assign"
  /\ \A p \in Point : task[p] = "finished"
  /\ adjusting' = [k \in Cluster |-> "ready"]
  /\ phase' = "adjust"
  /\ UNCHANGED <<values, id_cluster, seedVars, central_values, cluster_points, iter, done,
                 assignVars, unscanned, new_points, recentred>>

-------------------------------------------------------------------------------
(* Second loop: one task per cluster.  removePoints copies the points to   *)
(* keep with a parallel_for of its own, so they may change their order.    *)

\* A slip: the two arrays of vectors are confused.
JoiningSet(k) == Range(add_point_to_cluster[k])

RemoveSet(k) == Range(remove_vec[k])

BeginRemovePoints(k) ==
  /\ phase = "adjust"
  /\ adjusting[k] = "ready"
  /\ unscanned' = [unscanned EXCEPT ![k] = DOMAIN cluster_points[k]]
  /\ adjusting' = [adjusting EXCEPT ![k] = "removing"]
  /\ UNCHANGED <<values, id_cluster, seedVars, central_values, cluster_points, iter, done,
                 phase, assignVars, new_points, recentred>>

ScanPoint(k, i) ==
  LET p == cluster_points[k][i]
  IN  /\ phase = "adjust"
      /\ adjusting[k] = "removing"
      /\ i \in unscanned[k]
      /\ unscanned' = [unscanned EXCEPT ![k] = @ \ {i}]
      /\ new_points' = IF p \in RemoveSet(k)
                       THEN new_points
                       ELSE [new_points EXCEPT ![k] = Append(@, p)]
      /\ UNCHANGED <<values, id_cluster, seedVars, central_values, cluster_points, iter,
                     done, phase, assignVars, adjusting, recentred>>

\* The inner loop has joined; the kept points replace the old ones, and the
\* task goes on to add the new ones.
FinishAdjust(k) ==
  /\ phase = "adjust"
  /\ adjusting[k] = "removing"
  /\ unscanned[k] = {}
  /\ cluster_points' =
       [cluster_points EXCEPT ![k] = new_points[k] \o add_point_to_cluster[k]]
  /\ new_points' = [new_points EXCEPT ![k] = << >>]
  /\ adjusting' = [adjusting EXCEPT ![k] = "finished"]
  /\ UNCHANGED <<values, id_cluster, seedVars, central_values, iter, done, phase,
                 assignVars, unscanned, recentred>>

AdjustJoin ==
  /\ phase = "adjust"
  /\ \A k \in Cluster : adjusting[k] = "finished"
  /\ recentred' = {}
  /\ phase' = "recalculate"
  /\ UNCHANGED <<values, id_cluster, seedVars, central_values, cluster_points, iter, done,
                 assignVars, adjustVars>>

-------------------------------------------------------------------------------
(* Third loop: one task per cluster; and the end of the iteration.         *)

\* An empty cluster keeps its center: no division by its zero points.
RecalculateCenter(k) ==
  /\ phase = "recalculate"
  /\ k \notin recentred
  /\ central_values' = IF Len(cluster_points[k]) > 0
                       THEN [central_values EXCEPT
                               ![k] = MeanOf(ValuesOf(values, cluster_points[k]))]
                       ELSE central_values
  /\ recentred' = recentred \cup {k}
  /\ UNCHANGED <<values, id_cluster, seedVars, cluster_points, iter, done, phase,
                 assignVars, adjustVars>>

LimitReached == iter >= MAX_ITERATIONS

Break ==
  /\ phase = "recalculate"
  /\ recentred = Cluster
  /\ done \/ LimitReached
  /\ phase' = "done"
  /\ UNCHANGED <<values, id_cluster, seedVars, central_values, cluster_points, iter, done,
                 assignVars, adjustVars, recentred>>

NextIteration ==
  /\ phase = "recalculate"
  /\ recentred = Cluster
  /\ ~ done
  /\ ~ LimitReached
  /\ iter' = iter + 1
  /\ phase' = "top"
  /\ UNCHANGED <<values, id_cluster, seedVars, central_values, cluster_points, done,
                 assignVars, adjustVars, recentred>>

-------------------------------------------------------------------------------

PointTask(p) == StayInCluster(p) \/ LeaveCluster(p) \/ JoinCluster(p) \/ ClearDone(p)

ClusterTask(k) ==
  \/ BeginRemovePoints(k)
  \/ \E i \in unscanned[k] : ScanPoint(k, i)
  \/ FinishAdjust(k)
  \/ RecalculateCenter(k)

Main ==
  \/ \E p \in Point : SeedCluster(p)
  \/ StartIteration \/ AssignJoin \/ AdjustJoin \/ Break \/ NextIteration

Next ==
  \/ Main
  \/ \E p \in Point : PointTask(p)
  \/ \E k \in Cluster : ClusterTask(k)

\* The main thread is scheduled, a parallel_for runs every index of its range,
\* and rand() sooner or later draws a point that is not taken.
Fairness ==
  /\ WF_vars(Main)
  /\ \A p \in Point : WF_vars(PointTask(p))
  /\ \A k \in Cluster : WF_vars(ClusterTask(k))

Spec == Init /\ [][Next]_vars /\ Fairness

(***************************************************************************)
(* Properties.                                                             *)
(***************************************************************************)

Home(k)    == {p \in Point : id_cluster[p] = k}
Held(k)    == Range(cluster_points[k])
Leaving(k) == Range(remove_vec[k])
Joining(k) == Range(add_point_to_cluster[k])

\* Whenever no task is moving points, the two places that record where a point
\* belongs agree: the list of cluster k holds exactly the points whose
\* id_cluster is k, each once.  No point is lost, kept twice, or left in its old
\* cluster, whatever the order of the concurrent removals and additions.
PointsMatchClusters ==
  phase \in {"seed", "top", "recalculate", "done"} =>
    \A k \in Built :
      /\ IsInjective(cluster_points[k])
      /\ Held(k) = Home(k)

\* The flag that decides whether to stop is exact when it is read: it is set iff
\* no point changed its cluster in this iteration, though many tasks write it.
DoneIsExact ==
  phase \in {"adjust", "recalculate"} =>
    (done <=> \A k \in Cluster : add_point_to_cluster[k] = << >>)

\* The nearest center a task has found is not stale when the task acts on it: a
\* point of the loop only ever moves to the center that is nearest at that
\* moment, although the task computed it before it wrote to the shared vectors.
MovesToNearest ==
  [][\A p \in Point :
       phase # "seed" /\ id_cluster'[p] # id_cluster[p] =>
         id_cluster'[p] = getIDNearestCenter(central_values, values[p])]_vars

\* The run ends.
Termination == <>(phase = "done")

-------------------------------------------------------------------------------
(***************************************************************************)
(* The inductive invariant behind PointsMatchClusters: what the lists and  *)
(* vectors say about each point while the tasks of a loop are half done.   *)
(***************************************************************************)

\* While the first members are drawn, only drawn points have a cluster; the
\* loops begin when all are drawn.
SeedInv ==
  /\ phase = "seed" => Len(prohibited_indexes) < CLUSTERS
  /\ phase \notin {"seed", "done"} => Len(prohibited_indexes) = CLUSTERS
  /\ phase = "seed" =>
       \A p \in Point : id_cluster[p] # NoCluster =>
         /\ p \in Range(prohibited_indexes)
         /\ id_cluster[p] \in Built

\* A point whose task has not moved it yet is in the list of its own cluster only,
\* is to leave that cluster if its task is on the way, and is to join none.
NotMoved(p) ==
  \A k \in Cluster :
    /\ p \in Held(k) <=> id_cluster[p] = k
    /\ p \in Leaving(k) <=> task[p] = "moving" /\ id_cluster[p] = k
    /\ p \notin Joining(k)

\* A point whose task is through with the vectors will be in the list of its own
\* cluster, once, and in no other, when the second loop has used the vectors.
Moved(p) ==
  \A k \in Cluster :
    /\ id_cluster[p] = k <=> (p \in Held(k) /\ p \notin Leaving(k)) \/ p \in Joining(k)
    /\ p \in Held(k) => p \notin Joining(k)

AssignInv ==
  phase = "assign" =>
    /\ \A p \in Point :
         /\ task[p] \in {"ready", "moving"} => NotMoved(p)
         /\ task[p] = "moving" =>
              /\ nearest[p] = getIDNearestCenter(central_values, values[p])
              /\ nearest[p] # id_cluster[p]
         /\ task[p] \in {"flagging", "finished"} => Moved(p)
    /\ \A k \in Cluster : IsInjective(cluster_points[k])

\* The vectors are usable lists: no point is twice in one of them.
VectorsInv == \A k \in Cluster : IsInjective(add_point_to_cluster[k])

\* A task that is through has cleared the flag if it has moved its point, one that
\* is about to clear it has; and the flag is not clear for nothing.
DoneInv ==
  phase = "assign" =>
    /\ \A p \in Point, k \in Cluster : task[p] = "finished" /\ p \in Joining(k) => ~ done
    /\ \A p \in Point : task[p] = "flagging" => \E k \in Cluster : p \in Joining(k)
    /\ ~ done => \E k \in Cluster : add_point_to_cluster[k] # << >>

\* What the inner loop of removePoints has kept of the positions it has run.
Kept(k) ==
  {cluster_points[k][i] : i \in (DOMAIN cluster_points[k]) \ unscanned[k]} \ Leaving(k)

AdjustInv ==
  phase = "adjust" =>
    \A k \in Cluster :
      /\ IsInjective(cluster_points[k])
      /\ adjusting[k] = "finished" => Held(k) = Home(k)
      /\ adjusting[k] # "finished" => /\ Home(k) = (Held(k) \ Leaving(k)) \cup Joining(k)
                                      /\ Held(k) \cap Joining(k) = {}
      /\ adjusting[k] = "removing" => /\ Range(new_points[k]) = Kept(k)
                                      /\ IsInjective(new_points[k])
                                      /\ unscanned[k] \subseteq DOMAIN cluster_points[k]

\* removePoints starts from an empty vector.
NewPointsInv ==
  \A k \in Cluster :
    ~ (phase = "adjust" /\ adjusting[k] = "removing") => new_points[k] = << >>

IInv ==
  /\ TypeOK
  /\ SeedInv /\ VectorsInv /\ AssignInv /\ DoneInv /\ AdjustInv /\ NewPointsInv
  /\ PointsMatchClusters /\ DoneIsExact

-------------------------------------------------------------------------------
(***************************************************************************)
(* Refinement of Lloyd.  Lloyd assigns all points when the first loop is   *)
(* entered: from then on the centers are fixed, so where a task that has   *)
(* not moved its point will take it is known.  Lloyd moves all centers     *)
(* when the third loop is entered.                                         *)
(***************************************************************************)

AbstractAssignment ==
  [p \in Point |->
     IF phase = "assign" /\ task[p] \in {"ready", "moving"}
     THEN getIDNearestCenter(central_values, values[p])
     ELSE id_cluster[p]]

AbstractCenters ==
  IF Built # Cluster THEN [k \in {} |-> k]
  ELSE [k \in Cluster |->
          IF phase = "recalculate" /\ Len(cluster_points[k]) > 0
          THEN MeanOf(ValuesOf(values, cluster_points[k]))
          ELSE central_values[k]]

AbstractStable ==
  IF phase = "assign"
  THEN /\ done
       /\ \A p \in Point : task[p] # "finished" => id_cluster[p] = AbstractAssignment[p]
       /\ \A p \in Point : task[p] # "flagging"
  ELSE done

AbstractStage ==
  CASE phase \in {"assign", "adjust"} -> "assigned"
    [] phase = "recalculate"          -> "recentred"
    [] OTHER                          -> phase

L == INSTANCE Lloyd WITH
       assignment <- IF phase = "seed" THEN [p \in Point |-> NoCluster]
                     ELSE AbstractAssignment,
       centers    <- AbstractCenters,
       stable     <- AbstractStable,
       stage      <- AbstractStage

\* The concurrent program computes what Lloyd's iteration computes.
ImplementsLloyd == L!Spec

===============================================================================
