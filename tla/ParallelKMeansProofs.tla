------------------------- MODULE ParallelKMeansProofs --------------------------
(***************************************************************************)
(* ParallelKMeans for every number of points and clusters, every data set  *)
(* and every arithmetic: IInv is an inductive invariant, the lists of the  *)
(* clusters agree with the points, and each step of the concurrent program *)
(* is a step of Lloyd's iteration or a stuttering step.                    *)
(***************************************************************************)
EXTENDS ParallelKMeans, CommonProofs

-------------------------------------------------------------------------------

\* The loop's bounds: at least one cluster, numbered from 0.
LEMMA ClusterBounds ==
  /\ CLUSTERS \in Nat \ {0}
  /\ CLUSTERS - 1 \in Cluster
  /\ Cluster \subseteq Nat
BY SizesAssumption DEF Cluster

\* getIDNearestCenter returns the first of the clusters whose center is at minimal
\* distance: ties go to the lower cluster id.
THEOREM NearestIsFirstNearest ==
  ASSUME NEW centers \in [Cluster -> Center], NEW v \in Value
  PROVE  LET k == getIDNearestCenter(centers, v)
         IN  k \in Cluster /\ IsFirstNearest(k, centers, v)
<1> DEFINE last == CLUSTERS - 1
           d == [k \in 0 .. last |-> DistSq(centers[k], v)]
           Turns(f) == [k \in Cluster |->
              IF k = 0 THEN 0
              ELSE IF DistSq(centers[k], v) < DistSq(centers[f[k - 1]], v)
                   THEN k
                   ELSE f[k - 1]]
           best == CHOOSE f : f = Turns(f)
<1>1. last \in Nat /\ Cluster = 0 .. last
  BY ClusterBounds DEF Cluster
<1>2. d \in [0 .. last -> Nat]
  BY <1>1, ArithmeticAssumption
<1>3. PICK f \in [0 .. last -> 0 .. last] : IsScan(f, last, d)
  BY <1>1, ScanExists
<1>4. f = Turns(f)
  <2>1. ASSUME NEW k \in 0 .. last
        PROVE  f[k] = IF k = 0 THEN 0
                      ELSE IF DistSq(centers[k], v) < DistSq(centers[f[k - 1]], v)
                           THEN k
                           ELSE f[k - 1]
    <3>1. k # 0 => f[k - 1] \in 0 .. last
      BY <1>1, <1>3
    <3>2. QED
      BY <1>3, <3>1 DEF IsScan, ScanTurn
  <2>2. QED
    BY <1>1, <1>3, <2>1
<1>5. best = Turns(best)
  BY <1>4
<1>6. getIDNearestCenter(centers, v) = best[last]
  BY DEF getIDNearestCenter
<1> HIDE DEF best
<1>7. FirstLeast(best[last], last, d)
  <2>1. best[0] = 0
    BY <1>1, <1>5
  <2>2. ASSUME NEW k \in 1 .. last, best[k - 1] \in 0 .. k - 1
        PROVE  best[k] = ScanTurn(best, k, d)
    BY <1>1, <1>5, <2>2 DEF ScanTurn
  <2>3. QED
    BY <1>1, <1>2, <2>1, <2>2, ScanFindsFirst
<1>8. best[last] \in 0 .. last /\ \A j \in 0 .. last : d[j] = DistSq(centers[j], v)
  BY <1>7 DEF FirstLeast
<1> HIDE DEF d
<1>9. IsFirstNearest(best[last], centers, v)
  BY <1>1, <1>7, <1>8 DEF FirstLeast, IsFirstNearest
<1>10. QED
  BY <1>1, <1>6, <1>8, <1>9

\* The mean of the points of a non-empty list without duplicates is a center.
LEMMA MeanIsCenter ==
  ASSUME NEW vals \in [Point -> Value],
         NEW s \in Seq(Point), IsInjective(s), Len(s) > 0
  PROVE  MeanOf(ValuesOf(vals, s)) \in Center
<1>1. IsFiniteSet(Point) /\ Cardinality(Point) = TOTAL_POINTS
  BY SizesAssumption, FS_Interval DEF Point
<1>2. Len(s) \in 1 .. TOTAL_POINTS
  BY <1>1, InjectiveListIsShort
<1>3. s \in [1 .. Len(s) -> Point] /\ DOMAIN s = 1 .. Len(s)
  BY LenProperties
<1>4. ValuesOf(vals, s) \in [1 .. Len(s) -> Value]
  BY <1>3 DEF ValuesOf
<1>5. QED
  BY <1>2, <1>4, ArithmeticAssumption

USE DEF seedVars, assignVars, adjustVars

\* While the loops run, every cluster exists.
LEMMA BuiltIsCluster ==
  ASSUME IInv, phase \notin {"seed", "done"}
  PROVE  Built = Cluster /\ Len(prohibited_indexes) = CLUSTERS
<1>1. Len(prohibited_indexes) \in Nat
  BY DEF IInv, TypeOK
<1>2. Len(prohibited_indexes) = CLUSTERS
  BY <1>1, ClusterBounds DEF IInv, TypeOK, SeedInv
<1>3. QED
  BY <1>2 DEF Built, Cluster

\* The initial states satisfy the invariant.
LEMMA InitInv == Init => IInv
<1> SUFFICES ASSUME Init
             PROVE  IInv
  OBVIOUS
<1>1. /\ Len(prohibited_indexes) = 0 /\ Built = {}
      /\ phase \in {"seed", "done"}
  BY DEF Init, FirstPhase, Built
<1>2. TypeOK
  BY <1>1, ClusterBounds, SizesAssumption DEF Init, TypeOK
<1>3. SeedInv
  BY <1>1, ClusterBounds DEF Init, SeedInv
<1>4. VectorsInv
  BY DEF Init, VectorsInv, IsInjective
<1>5. AssignInv /\ DoneInv /\ AdjustInv /\ NewPointsInv /\ DoneIsExact
  BY <1>1 DEF Init, AssignInv, DoneInv, AdjustInv, NewPointsInv, DoneIsExact
<1>6. PointsMatchClusters
  BY <1>1 DEF PointsMatchClusters
<1>7. QED
  BY <1>2, <1>3, <1>4, <1>5, <1>6 DEF IInv

-------------------------------------------------------------------------------
(* One lemma per action: it preserves IInv.                                *)

\* SeedCluster keeps the invariant.
LEMMA SeedClusterInv ==
  ASSUME IInv, NEW p \in Point, SeedCluster(p)
  PROVE  IInv'
<1> DEFINE i == Len(prohibited_indexes)
<1> USE DEF SeedCluster, Taken
<1>1. /\ i \in Nat /\ i < CLUSTERS /\ CLUSTERS \in Nat
      /\ Built = 0 .. i - 1
      /\ i \in Cluster /\ i \notin Built
  BY ClusterBounds DEF IInv, TypeOK, SeedInv, Built, Cluster
<1>2. /\ prohibited_indexes' \in Seq(Point)
      /\ Len(prohibited_indexes') = i + 1
      /\ Range(prohibited_indexes') = Range(prohibited_indexes) \cup {p}
  BY AppendPoints, AppendProperties DEF IInv, TypeOK
<1>3. Built' = 0 .. i /\ Built' = Built \cup {i}
  BY <1>1, <1>2 DEF Built
<1>4. <<p>> \in Seq(Point) /\ Range(<<p>>) = {p} /\ IsInjective(<<p>>)
  BY DEF Range, IsInjective
<1>5. TypeOK'
  <2>1. values[p] \in Value /\ CenterAt(values[p]) \in Center
    BY ArithmeticAssumption DEF IInv, TypeOK
  <2>2. central_values' \in [Built' -> Center]
    BY <1>1, <1>3, <2>1 DEF IInv, TypeOK
  <2>3. cluster_points' \in [Built' -> Seq(Point)]
    BY <1>1, <1>3, <1>4 DEF IInv, TypeOK
  <2>4. id_cluster' \in [Point -> Cluster \cup {NoCluster}]
    BY <1>1 DEF IInv, TypeOK
  <2>5. Len(prohibited_indexes') <= CLUSTERS
    BY <1>1, <1>2
  <2>6. QED
    BY <1>2, <2>2, <2>3, <2>4, <2>5 DEF IInv, TypeOK
<1>6. SeedInv'
  <2>1. /\ phase' = "seed" => Len(prohibited_indexes') < CLUSTERS
        /\ phase' \notin {"seed", "done"} => Len(prohibited_indexes') = CLUSTERS
    BY <1>1, <1>2
  <2>2. ASSUME NEW q \in Point, id_cluster'[q] # NoCluster
        PROVE  q \in Range(prohibited_indexes') /\ id_cluster'[q] \in Built'
    <3>1. CASE q = p
      BY <1>2, <1>3, <3>1 DEF IInv, TypeOK
    <3>2. CASE q # p
      BY <1>2, <1>3, <2>2, <3>2 DEF IInv, TypeOK, SeedInv
    <3>3. QED
      BY <3>1, <3>2
  <2>3. QED
    BY <2>1, <2>2 DEF SeedInv
<1>7. /\ VectorsInv' /\ AssignInv' /\ DoneInv' /\ AdjustInv' /\ NewPointsInv'
      /\ DoneIsExact'
  BY DEF IInv, VectorsInv, AssignInv, DoneInv, AdjustInv, NewPointsInv, DoneIsExact
<1>8. PointsMatchClusters'
  <2>1. \A q \in Point : id_cluster[q] # i
    BY <1>1 DEF IInv, SeedInv, Built, NoCluster
  <2>2. id_cluster[p] = NoCluster /\ NoCluster \notin Built'
    BY <1>1, <1>3 DEF IInv, SeedInv, NoCluster
  <2>3. ASSUME NEW k \in Built'
        PROVE  IsInjective(cluster_points'[k]) /\ Held(k)' = Home(k)'
    <3>1. CASE k = i
      <4>1. cluster_points'[k] = <<p>>
        BY <1>3, <3>1
      <4>2. Home(k)' = {p}
        BY <2>1, <3>1 DEF Home, IInv, TypeOK
      <4>3. QED
        BY <1>4, <4>1, <4>2 DEF Held
    <3>2. CASE k \in Built
      <4>1. cluster_points'[k] = cluster_points[k]
        BY <1>1, <1>3, <3>2
      <4>2. IsInjective(cluster_points[k]) /\ Held(k) = Home(k)
        BY <3>2 DEF IInv, PointsMatchClusters
      <4>3. Home(k)' = Home(k)
        BY <1>1, <2>2, <2>3, <3>2 DEF Home, IInv, TypeOK
      <4>4. QED
        BY <4>1, <4>2, <4>3 DEF Held
    <3>3. QED
      BY <1>3, <2>3, <3>1, <3>2
  <2>4. QED
    BY <2>3 DEF PointsMatchClusters
<1>9. QED
  BY <1>5, <1>6, <1>7, <1>8 DEF IInv

\* StartIteration keeps the invariant.
LEMMA StartIterationInv == ASSUME IInv, StartIteration PROVE IInv'
<1> USE DEF StartIteration
<1>1. Built = Cluster
  BY BuiltIsCluster
<1>2. TypeOK'
  BY DEF IInv, TypeOK, Built
<1>3. SeedInv'
  BY DEF IInv, SeedInv
<1>4. VectorsInv'
  BY DEF VectorsInv, IsInjective
<1>5. AssignInv'
  <2>1. ASSUME NEW p \in Point, NEW k \in Cluster
        PROVE  /\ p \in Held(k)' <=> id_cluster'[p] = k
               /\ p \notin Leaving(k)'
               /\ p \notin Joining(k)'
    BY <1>1 DEF IInv, PointsMatchClusters, Held, Home, Leaving, Joining, Range
  <2>2. \A k \in Cluster : IsInjective(cluster_points'[k])
    BY <1>1 DEF IInv, PointsMatchClusters
  <2>3. QED
    BY <2>1, <2>2 DEF AssignInv, NotMoved
<1>6. AdjustInv' /\ NewPointsInv' /\ PointsMatchClusters' /\ DoneIsExact'
  BY DEF IInv, AdjustInv, NewPointsInv, PointsMatchClusters, DoneIsExact
<1>7. DoneInv'
  BY DEF IInv, DoneInv, Joining, Range
<1>8. QED
  BY <1>2, <1>3, <1>4, <1>5, <1>6, <1>7 DEF IInv

\* The points of a move list are points; the list of a cluster holds points.
LEMMA ListsHoldPoints ==
  ASSUME IInv, NEW k \in Cluster
  PROVE  /\ Leaving(k) \subseteq Point /\ Joining(k) \subseteq Point
         /\ k \in Built => Held(k) \subseteq Point
BY RangeOfSeq DEF IInv, TypeOK, Leaving, Joining, Held

\* The scan returns a cluster.
LEMMA NearestIsCluster ==
  ASSUME IInv, phase \notin {"seed", "done"}, NEW p \in Point
  PROVE  getIDNearestCenter(central_values, values[p]) \in Cluster
<1>1. central_values \in [Cluster -> Center] /\ values[p] \in Value
  BY BuiltIsCluster DEF IInv, TypeOK
<1>2. QED
  BY <1>1, NearestIsFirstNearest

\* StayInCluster keeps the invariant.
LEMMA StayInClusterInv ==
  ASSUME IInv, NEW p \in Point, StayInCluster(p)
  PROVE  IInv'
<1> USE DEF StayInCluster
<1>1. TypeOK'
  BY DEF IInv, TypeOK, Built
<1>2. SeedInv' /\ VectorsInv' /\ AdjustInv' /\ NewPointsInv' /\ PointsMatchClusters'
      /\ DoneIsExact'
  BY DEF IInv, SeedInv, Built, VectorsInv, AdjustInv, NewPointsInv, PointsMatchClusters,
         DoneIsExact
<1>3. AssignInv'
  <2>1. NotMoved(p) => Moved(p)'
    BY DEF NotMoved, Moved, Held, Leaving, Joining
  <2>2. \A q \in Point \ {p} : task'[q] = task[q]
    BY DEF IInv, TypeOK
  <2>3. task'[p] = "finished"
    BY DEF IInv, TypeOK
  <2>4. \A q \in Point \ {p} : /\ NotMoved(q) => NotMoved(q)'
                               /\ Moved(q) => Moved(q)'
    BY <2>2 DEF NotMoved, Moved, Held, Leaving, Joining
  <2>5. QED
    BY <2>1, <2>2, <2>3, <2>4 DEF IInv, AssignInv
<1>4. DoneInv'
  <2>1. \A k \in Cluster : p \notin Joining(k)
    BY DEF IInv, AssignInv, NotMoved
  <2>2. \A q \in Point : task'[q] = IF q = p THEN "finished" ELSE task[q]
    BY DEF IInv, TypeOK
  <2>3. QED
    BY <2>1, <2>2 DEF IInv, DoneInv, Joining
<1>5. QED
  BY <1>1, <1>2, <1>3, <1>4 DEF IInv

\* LeaveCluster keeps the invariant.
LEMMA LeaveClusterInv ==
  ASSUME IInv, NEW p \in Point, LeaveCluster(p)
  PROVE  IInv'
<1> USE DEF LeaveCluster
<1> DEFINE old == id_cluster[p]
<1>1. getIDNearestCenter(central_values, values[p]) \in Cluster
  BY NearestIsCluster
<1>2. /\ old # NoCluster => old \in Cluster
      /\ NoCluster \notin Cluster
  BY DEF IInv, TypeOK, NoCluster, Cluster
<1>3. ASSUME NEW k \in Cluster
      PROVE  /\ remove_vec'[k] \in Seq(Point)
             /\ Leaving(k)' = IF k = old THEN Leaving(k) \cup {p} ELSE Leaving(k)
  <2>1. remove_vec[k] \in Seq(Point)
    BY DEF IInv, TypeOK
  <2>2. CASE k = old
    BY <1>2, <2>1, <2>2, AppendPoints DEF Leaving, IInv, TypeOK
  <2>3. CASE k # old
    BY <1>2, <2>1, <2>3 DEF Leaving, IInv, TypeOK
  <2>4. QED
    BY <2>2, <2>3
<1>4. TypeOK'
  <2>1. remove_vec' \in [Cluster -> Seq(Point)]
    BY <1>2, <1>3 DEF IInv, TypeOK
  <2>2. QED
    BY <1>1, <2>1 DEF IInv, TypeOK, Built
<1>5. SeedInv' /\ VectorsInv' /\ AdjustInv' /\ NewPointsInv' /\ PointsMatchClusters'
      /\ DoneIsExact'
  BY DEF IInv, SeedInv, Built, VectorsInv, AdjustInv, NewPointsInv, PointsMatchClusters,
         DoneIsExact
<1>6. AssignInv'
  <2>1. \A q \in Point : task'[q] = IF q = p THEN "moving" ELSE task[q]
    BY DEF IInv, TypeOK
  <2>2. NotMoved(p)'
    <3>1. \A k \in Cluster : /\ p \in Held(k) <=> old = k
                             /\ p \notin Leaving(k)
                             /\ p \notin Joining(k)
      BY DEF IInv, AssignInv, NotMoved
    <3>2. QED
      BY <1>3, <2>1, <3>1 DEF NotMoved, Held, Joining
  <2>3. /\ nearest'[p] = getIDNearestCenter(central_values', values'[p])
        /\ nearest'[p] # id_cluster'[p]
    BY DEF IInv, TypeOK
  <2>4. ASSUME NEW q \in Point, q # p
        PROVE  /\ NotMoved(q) => NotMoved(q)'
               /\ Moved(q) => Moved(q)'
               /\ nearest'[q] = nearest[q]
    <3>1. \A k \in Cluster : q \in Leaving(k)' <=> q \in Leaving(k)
      BY <1>3, <2>4
    <3>2. QED
      BY <2>1, <2>4, <3>1 DEF NotMoved, Moved, Held, Joining, IInv, TypeOK
  <2>5. QED
    BY <2>1, <2>2, <2>3, <2>4 DEF IInv, AssignInv
<1>7. DoneInv'
  <2>1. \A q \in Point : task'[q] = IF q = p THEN "moving" ELSE task[q]
    BY DEF IInv, TypeOK
  <2>2. QED
    BY <2>1 DEF IInv, DoneInv, Joining
<1>8. QED
  BY <1>4, <1>5, <1>6, <1>7 DEF IInv

\* JoinCluster keeps the invariant.
LEMMA JoinClusterInv ==
  ASSUME IInv, NEW p \in Point, JoinCluster(p)
  PROVE  IInv'
<1> USE DEF JoinCluster
<1> DEFINE new == nearest[p]
<1>1. /\ NotMoved(p)
      /\ new \in Cluster /\ new # id_cluster[p]
  BY NearestIsCluster DEF IInv, AssignInv
<1>2. ASSUME NEW k \in Cluster
      PROVE  /\ add_point_to_cluster'[k] \in Seq(Point)
             /\ IsInjective(add_point_to_cluster'[k])
             /\ Joining(k)' = IF k = new THEN Joining(k) \cup {p} ELSE Joining(k)
  <2>1. add_point_to_cluster[k] \in Seq(Point) /\ IsInjective(add_point_to_cluster[k])
    BY DEF IInv, TypeOK, VectorsInv
  <2>2. CASE k = new
    <3>1. p \notin Range(add_point_to_cluster[k])
      BY <1>1 DEF NotMoved, Joining
    <3>2. add_point_to_cluster'[k] = Append(add_point_to_cluster[k], p)
      BY <2>2 DEF IInv, TypeOK
    <3>3. QED
      BY <2>1, <2>2, <3>1, <3>2, AppendPoints DEF Joining
  <2>3. CASE k # new
    BY <2>1, <2>3 DEF Joining, IInv, TypeOK
  <2>4. QED
    BY <2>2, <2>3
<1>3. TypeOK'
  <2>1. add_point_to_cluster' \in [Cluster -> Seq(Point)]
    BY <1>1, <1>2 DEF IInv, TypeOK
  <2>2. QED
    BY <1>1, <2>1 DEF IInv, TypeOK, Built
<1>4. VectorsInv'
  BY <1>2 DEF VectorsInv
<1>5. SeedInv' /\ AdjustInv' /\ NewPointsInv' /\ PointsMatchClusters'
      /\ DoneIsExact'
  BY DEF IInv, SeedInv, Built, AdjustInv, NewPointsInv, PointsMatchClusters,
         DoneIsExact
<1>6. AssignInv'
  <2>1. /\ \A q \in Point : task'[q] = IF q = p THEN "flagging" ELSE task[q]
        /\ \A q \in Point : id_cluster'[q] = IF q = p THEN new ELSE id_cluster[q]
        /\ \A q \in Point \ {p} : nearest'[q] = nearest[q]
    BY DEF IInv, TypeOK
  <2>2. Moved(p)'
    <3>1. \A k \in Cluster : /\ p \in Held(k) <=> id_cluster[p] = k
                             /\ p \in Leaving(k) <=> id_cluster[p] = k
                             /\ p \notin Joining(k)
      BY <1>1 DEF NotMoved
    <3>2. QED
      BY <1>1, <1>2, <2>1, <3>1 DEF Moved, Held, Leaving
  <2>3. ASSUME NEW q \in Point, q # p
        PROVE  /\ NotMoved(q) => NotMoved(q)'
               /\ Moved(q) => Moved(q)'
    <3>1. \A k \in Cluster : q \in Joining(k)' <=> q \in Joining(k)
      BY <1>2, <2>3
    <3>2. QED
      BY <2>1, <2>3, <3>1 DEF NotMoved, Moved, Held, Leaving
  <2>4. QED
    BY <2>1, <2>2, <2>3 DEF IInv, AssignInv
<1>7. DoneInv'
  <2>1. \A q \in Point : task'[q] = IF q = p THEN "flagging" ELSE task[q]
    BY DEF IInv, TypeOK
  <2>2. ASSUME NEW q \in Point, NEW k \in Cluster, task'[q] = "finished", q \in Joining(k)'
        PROVE  ~ done'
    BY <1>2, <2>1, <2>2 DEF IInv, DoneInv
  <2>3. ASSUME NEW q \in Point, task'[q] = "flagging"
        PROVE  \E k \in Cluster : q \in Joining(k)'
    <3>1. CASE q = p
      BY <1>1, <1>2, <3>1
    <3>2. CASE q # p
      BY <1>2, <2>1, <2>3, <3>2 DEF IInv, DoneInv
    <3>3. QED
      BY <3>1, <3>2
  <2>4. \E k \in Cluster : add_point_to_cluster'[k] # << >>
    <3>1. ASSUME NEW k \in Cluster, k = new
          PROVE  add_point_to_cluster'[k] # << >>
      <4>1. p \in Joining(k)'
        BY <1>2, <3>1
      <4>2. QED
        BY <4>1 DEF Joining, Range
    <3>2. QED
      BY <1>1, <3>1
  <2>5. QED
    BY <2>2, <2>3, <2>4 DEF DoneInv
<1>8. QED
  BY <1>3, <1>4, <1>5, <1>6, <1>7 DEF IInv

\* ClearDone keeps the invariant.
LEMMA ClearDoneInv ==
  ASSUME IInv, NEW p \in Point, ClearDone(p)
  PROVE  IInv'
<1> USE DEF ClearDone
<1>1. TypeOK'
  BY DEF IInv, TypeOK, Built
<1>2. SeedInv' /\ VectorsInv' /\ AdjustInv' /\ NewPointsInv' /\ PointsMatchClusters'
      /\ DoneIsExact'
  BY DEF IInv, SeedInv, Built, VectorsInv, AdjustInv, NewPointsInv, PointsMatchClusters,
         DoneIsExact
<1>3. AssignInv'
  <2>1. \A q \in Point : task'[q] = IF q = p THEN "finished" ELSE task[q]
    BY DEF IInv, TypeOK
  <2>2. \A q \in Point : /\ q # p /\ NotMoved(q) => NotMoved(q)'
                         /\ Moved(q) => Moved(q)'
    BY <2>1 DEF NotMoved, Moved, Held, Leaving, Joining
  <2>3. QED
    BY <2>1, <2>2 DEF IInv, AssignInv
<1>4. DoneInv'
  <2>1. \A q \in Point : task'[q] = IF q = p THEN "finished" ELSE task[q]
    BY DEF IInv, TypeOK
  <2>2. PICK k \in Cluster : p \in Joining(k)
    BY DEF IInv, DoneInv
  <2>3. add_point_to_cluster'[k] # << >>
    BY <2>2 DEF Joining, Range
  <2>4. QED
    BY <2>1, <2>3 DEF IInv, DoneInv, Joining
<1>5. QED
  BY <1>1, <1>2, <1>3, <1>4 DEF IInv

\* AssignJoin keeps the invariant.
LEMMA AssignJoinInv == ASSUME IInv, AssignJoin PROVE IInv'
<1> USE DEF AssignJoin
<1>1. TypeOK'
  BY DEF IInv, TypeOK, Built
<1>2. SeedInv' /\ VectorsInv' /\ AssignInv' /\ NewPointsInv' /\ PointsMatchClusters'
      /\ DoneInv'
  BY DEF IInv, SeedInv, Built, VectorsInv, AssignInv, NewPointsInv, PointsMatchClusters,
         DoneInv
<1>3. AdjustInv'
  <2>1. ASSUME NEW k \in Cluster
        PROVE  /\ Home(k) = (Held(k) \ Leaving(k)) \cup Joining(k)
               /\ Held(k) \cap Joining(k) = {}
    <3>1. \A p \in Point : Moved(p)
      BY DEF IInv, AssignInv
    <3>2. Held(k) \subseteq Point /\ Joining(k) \subseteq Point
      BY ListsHoldPoints, BuiltIsCluster
    <3>3. QED
      BY <3>1, <3>2 DEF Moved, Home
  <2>2. \A k \in Cluster : IsInjective(cluster_points'[k]) /\ adjusting'[k] = "ready"
    BY DEF IInv, AssignInv
  <2>3. QED
    BY <2>1, <2>2 DEF AdjustInv, Home, Held, Leaving, Joining
<1>4. DoneIsExact'
  <2>1. ASSUME NEW k \in Cluster, add_point_to_cluster[k] # << >>
        PROVE  ~ done
    <3>1. add_point_to_cluster[k] \in Seq(Point)
      BY DEF IInv, TypeOK
    <3>2. 1 \in DOMAIN add_point_to_cluster[k] /\ add_point_to_cluster[k][1] \in Point
      BY <2>1, <3>1, EmptySeq, LenProperties
    <3>3. add_point_to_cluster[k][1] \in Joining(k)
      BY <3>2 DEF Joining, Range
    <3>4. QED
      BY <3>2, <3>3 DEF IInv, DoneInv
  <2>2. ~ done => \E k \in Cluster : add_point_to_cluster[k] # << >>
    BY DEF IInv, DoneInv
  <2>3. done' = done /\ add_point_to_cluster' = add_point_to_cluster
    OBVIOUS
  <2>4. QED
    BY <2>1, <2>2, <2>3 DEF DoneIsExact
<1>5. QED
  BY <1>1, <1>2, <1>3, <1>4 DEF IInv

\* BeginRemovePoints keeps the invariant.
LEMMA BeginRemovePointsInv ==
  ASSUME IInv, NEW k \in Cluster, BeginRemovePoints(k)
  PROVE  IInv'
<1> USE DEF BeginRemovePoints
<1>1. \A j \in Cluster : /\ cluster_points[j] \in Seq(Point)
                         /\ DOMAIN cluster_points[j] \subseteq Nat \ {0}
  <2>1. \A j \in Cluster : cluster_points[j] \in Seq(Point)
    BY BuiltIsCluster DEF IInv, TypeOK
  <2>2. QED
    BY <2>1, LenProperties
<1>2. TypeOK'
  BY <1>1 DEF IInv, TypeOK, Built
<1>3. /\ SeedInv' /\ VectorsInv' /\ AssignInv' /\ DoneInv' /\ NewPointsInv'
      /\ PointsMatchClusters' /\ DoneIsExact'
  BY DEF IInv, TypeOK, SeedInv, Built, VectorsInv, AssignInv, DoneInv, NewPointsInv,
         PointsMatchClusters, DoneIsExact
<1>4. AdjustInv'
  <2>1. \A j \in Cluster : /\ adjusting'[j] = IF j = k THEN "removing" ELSE adjusting[j]
                           /\ unscanned'[j] = IF j = k THEN DOMAIN cluster_points[k]
                                                       ELSE unscanned[j]
    BY DEF IInv, TypeOK
  <2>2. new_points[k] = << >>
    BY DEF IInv, NewPointsInv
  <2>3. /\ Range(new_points'[k]) = Kept(k)'
        /\ IsInjective(new_points'[k])
        /\ unscanned'[k] \subseteq DOMAIN cluster_points'[k]
    BY <2>1, <2>2 DEF Kept, Range, IsInjective
  <2>4. \A j \in Cluster \ {k} : Kept(j)' = Kept(j)
    BY <2>1 DEF Kept, Leaving
  <2>5. QED
    BY <2>1, <2>3, <2>4 DEF IInv, AdjustInv, Home, Held, Leaving, Joining
<1>5. QED
  BY <1>2, <1>3, <1>4 DEF IInv

\* ScanPoint keeps the invariant.
LEMMA ScanPointInv ==
  ASSUME IInv, NEW k \in Cluster, NEW i \in unscanned[k], ScanPoint(k, i)
  PROVE  IInv'
<1> USE DEF ScanPoint, RemoveSet
<1> DEFINE p == cluster_points[k][i]
<1>1. /\ unscanned[k] \subseteq DOMAIN cluster_points[k]
      /\ Range(new_points[k]) = Kept(k)
      /\ IsInjective(new_points[k])
      /\ IsInjective(cluster_points[k])
  BY DEF IInv, AdjustInv
<1>2. cluster_points[k] \in Seq(Point) /\ new_points[k] \in Seq(Point)
  BY BuiltIsCluster DEF IInv, TypeOK
<1>3. p \in Point
  BY <1>1, <1>2, LenProperties
<1>4. p \notin Range(new_points[k])
  BY <1>1 DEF Kept, IsInjective
<1>5. /\ new_points'[k] \in Seq(Point)
      /\ Range(new_points'[k]) = Kept(k)'
      /\ IsInjective(new_points'[k])
  <2>1. Kept(k)' = Kept(k) \cup ({p} \ Leaving(k))
    <3>1. unscanned'[k] = unscanned[k] \ {i} /\ i \in DOMAIN cluster_points[k]
      BY <1>1 DEF IInv, TypeOK
    <3>2. (DOMAIN cluster_points[k]) \ unscanned'[k]
            = ((DOMAIN cluster_points[k]) \ unscanned[k]) \cup {i}
      BY <3>1
    <3>3. QED
      BY <3>2 DEF Kept, Leaving
  <2>2. CASE p \in Leaving(k)
    <3>1. new_points'[k] = new_points[k]
      BY <2>2 DEF Leaving
    <3>2. QED
      BY <1>1, <1>2, <2>1, <2>2, <3>1
  <2>3. CASE p \notin Leaving(k)
    <3>1. new_points'[k] = Append(new_points[k], p)
      BY <2>3 DEF Leaving, IInv, TypeOK
    <3>2. QED
      BY <1>1, <1>2, <1>3, <1>4, <2>1, <2>3, <3>1, AppendPoints
  <2>4. QED
    BY <2>2, <2>3
<1>6. \A j \in Cluster \ {k} : /\ new_points'[j] = new_points[j]
                               /\ unscanned'[j] = unscanned[j]
  BY DEF IInv, TypeOK
<1>7. TypeOK'
  <2>1. new_points' \in [Cluster -> Seq(Point)]
    BY <1>5, <1>6 DEF IInv, TypeOK
  <2>2. unscanned' \in [Cluster -> SUBSET (Nat \ {0})]
    BY DEF IInv, TypeOK
  <2>3. QED
    BY <2>1, <2>2 DEF IInv, TypeOK, Built
<1>8. /\ SeedInv' /\ VectorsInv' /\ AssignInv' /\ DoneInv'
      /\ PointsMatchClusters' /\ DoneIsExact'
  BY DEF IInv, SeedInv, Built, VectorsInv, AssignInv, DoneInv, PointsMatchClusters,
         DoneIsExact
<1>9. NewPointsInv'
  BY <1>6 DEF IInv, NewPointsInv
<1>10. AdjustInv'
  <2>1. unscanned'[k] \subseteq DOMAIN cluster_points'[k]
    BY <1>1 DEF IInv, TypeOK
  <2>2. \A j \in Cluster \ {k} : Kept(j)' = Kept(j)
    BY <1>6 DEF Kept, Leaving
  <2>3. QED
    BY <1>1, <1>5, <1>6, <2>1, <2>2 DEF IInv, AdjustInv, Home, Held, Leaving, Joining
<1>11. QED
  BY <1>7, <1>8, <1>9, <1>10 DEF IInv

\* FinishAdjust keeps the invariant.
LEMMA FinishAdjustInv ==
  ASSUME IInv, NEW k \in Cluster, FinishAdjust(k)
  PROVE  IInv'
<1> USE DEF FinishAdjust
<1>1. /\ Range(new_points[k]) = Kept(k)
      /\ IsInjective(new_points[k])
      /\ Home(k) = (Held(k) \ Leaving(k)) \cup Joining(k)
      /\ Held(k) \cap Joining(k) = {}
  BY DEF IInv, AdjustInv
<1>2. /\ new_points[k] \in Seq(Point)
      /\ add_point_to_cluster[k] \in Seq(Point)
      /\ IsInjective(add_point_to_cluster[k])
  BY DEF IInv, TypeOK, VectorsInv
<1>3. Range(new_points[k]) = Held(k) \ Leaving(k)
  BY <1>1 DEF Kept, Held, Range
<1>4. Built = Cluster
  BY BuiltIsCluster
<1>5. /\ cluster_points'[k] \in Seq(Point)
      /\ Held(k)' = Home(k)
      /\ IsInjective(cluster_points'[k])
  <2>1. cluster_points'[k] = new_points[k] \o add_point_to_cluster[k]
    BY <1>4 DEF IInv, TypeOK
  <2>2. Range(new_points[k]) \cap Range(add_point_to_cluster[k]) = {}
    BY <1>1, <1>3 DEF Joining
  <2> DEFINE s == new_points[k]
             t == add_point_to_cluster[k]
  <2>3. /\ cluster_points'[k] \in Seq(Point)
        /\ Range(cluster_points'[k]) = Range(s) \cup Range(t)
        /\ IsInjective(cluster_points'[k])
    <3>1. s \in Seq(Point) /\ t \in Seq(Point) /\ IsInjective(s) /\ IsInjective(t)
            /\ Range(s) \cap Range(t) = {}
      BY <1>1, <1>2, <2>2
    <3>2. cluster_points'[k] = s \o t
      BY <2>1
    <3> HIDE DEF s, t, FinishAdjust
    <3>3. /\ s \o t \in Seq(Point)
          /\ Range(s \o t) = Range(s) \cup Range(t)
          /\ IsInjective(s \o t)
      BY <3>1, ConcatPoints
    <3>4. QED
      BY <3>2, <3>3
  <2>4. Held(k)' = Range(cluster_points'[k]) /\ Home(k)' = Home(k)
    BY DEF Held, Home
  <2>5. Held(k)' = Home(k)
    BY <1>1, <1>3, <2>3, <2>4 DEF Joining
  <2>6. QED
    BY <2>3, <2>5
<1>6. \A j \in Cluster \ {k} : /\ cluster_points'[j] = cluster_points[j]
                               /\ new_points'[j] = new_points[j]
                               /\ adjusting'[j] = adjusting[j]
  BY <1>4 DEF IInv, TypeOK
<1>7. adjusting'[k] = "finished" /\ new_points'[k] = << >>
  BY DEF IInv, TypeOK
<1>8. TypeOK'
  <2>1. cluster_points' \in [Built' -> Seq(Point)]
    BY <1>4, <1>5, <1>6 DEF IInv, TypeOK, Built
  <2>2. QED
    BY <1>6, <1>7, <2>1 DEF IInv, TypeOK, Built
<1>9. /\ SeedInv' /\ VectorsInv' /\ AssignInv' /\ DoneInv'
      /\ PointsMatchClusters' /\ DoneIsExact'
  BY DEF IInv, SeedInv, Built, VectorsInv, AssignInv, DoneInv, PointsMatchClusters,
         DoneIsExact
<1>10. NewPointsInv'
  BY <1>6, <1>7 DEF IInv, NewPointsInv
<1>11. AdjustInv'
  <2>1. \A j \in Cluster \ {k} : /\ Kept(j)' = Kept(j)
                                 /\ Held(j)' = Held(j)
    BY <1>6 DEF Kept, Held, Leaving
  <2>2. \A j \in Cluster : Home(j)' = Home(j) /\ Leaving(j)' = Leaving(j)
                             /\ Joining(j)' = Joining(j)
    BY DEF Home, Leaving, Joining
  <2>3. QED
    BY <1>5, <1>6, <1>7, <2>1, <2>2 DEF IInv, AdjustInv
<1>12. QED
  BY <1>8, <1>9, <1>10, <1>11 DEF IInv

\* AdjustJoin keeps the invariant.
LEMMA AdjustJoinInv == ASSUME IInv, AdjustJoin PROVE IInv'
<1> USE DEF AdjustJoin
<1>1. TypeOK'
  BY DEF IInv, TypeOK, Built
<1>2. /\ SeedInv' /\ VectorsInv' /\ AssignInv' /\ DoneInv' /\ AdjustInv' /\ DoneIsExact'
  BY DEF IInv, SeedInv, Built, VectorsInv, AssignInv, DoneInv, AdjustInv, DoneIsExact
<1>3. NewPointsInv'
  BY DEF IInv, NewPointsInv
<1>4. PointsMatchClusters'
  BY BuiltIsCluster DEF IInv, AdjustInv, PointsMatchClusters, Built, Held, Home
<1>5. QED
  BY <1>1, <1>2, <1>3, <1>4 DEF IInv

\* RecalculateCenter keeps the invariant.
LEMMA RecalculateCenterInv ==
  ASSUME IInv, NEW k \in Cluster, RecalculateCenter(k)
  PROVE  IInv'
<1> USE DEF RecalculateCenter
<1>1. Built = Cluster
  BY BuiltIsCluster
<1>2. cluster_points[k] \in Seq(Point) /\ IsInjective(cluster_points[k])
  BY <1>1 DEF IInv, TypeOK, PointsMatchClusters
<1>3. Len(cluster_points[k]) > 0 => MeanOf(ValuesOf(values, cluster_points[k])) \in Center
  BY <1>2, MeanIsCenter DEF IInv, TypeOK
<1>4. TypeOK'
  BY <1>1, <1>3 DEF IInv, TypeOK, Built
<1>5. /\ SeedInv' /\ VectorsInv' /\ AssignInv' /\ DoneInv' /\ AdjustInv' /\ NewPointsInv'
      /\ PointsMatchClusters' /\ DoneIsExact'
  BY DEF IInv, SeedInv, Built, VectorsInv, AssignInv, DoneInv, AdjustInv, NewPointsInv,
         PointsMatchClusters, DoneIsExact, Held, Home
<1>6. QED
  BY <1>4, <1>5 DEF IInv

\* Break keeps the invariant.
LEMMA BreakInv == ASSUME IInv, Break PROVE IInv'
<1> USE DEF Break, LimitReached
<1>1. TypeOK'
  BY DEF IInv, TypeOK, Built
<1>2. /\ SeedInv' /\ VectorsInv' /\ AssignInv' /\ DoneInv' /\ AdjustInv' /\ NewPointsInv'
      /\ PointsMatchClusters' /\ DoneIsExact'
  BY DEF IInv, SeedInv, Built, VectorsInv, AssignInv, DoneInv, AdjustInv, NewPointsInv,
         PointsMatchClusters, DoneIsExact, Held, Home
<1>3. QED
  BY <1>1, <1>2 DEF IInv

\* NextIteration keeps the invariant.
LEMMA NextIterationInv == ASSUME IInv, NextIteration PROVE IInv'
<1> USE DEF NextIteration, LimitReached
<1>1. TypeOK'
  BY SizesAssumption DEF IInv, TypeOK, Built
<1>2. /\ SeedInv' /\ VectorsInv' /\ AssignInv' /\ DoneInv' /\ AdjustInv' /\ NewPointsInv'
      /\ PointsMatchClusters' /\ DoneIsExact'
  BY DEF IInv, SeedInv, Built, VectorsInv, AssignInv, DoneInv, AdjustInv, NewPointsInv,
         PointsMatchClusters, DoneIsExact, Held, Home
<1>3. QED
  BY <1>1, <1>2 DEF IInv

\* So does a step that changes nothing.
LEMMA StutterInv == ASSUME IInv, UNCHANGED vars PROVE IInv'
<1>1. TypeOK' /\ SeedInv' /\ VectorsInv' /\ NewPointsInv' /\ DoneIsExact'
  BY DEF vars, IInv, TypeOK, SeedInv, VectorsInv, NewPointsInv, DoneIsExact, Built
<1>2. AssignInv' /\ DoneInv'
  BY DEF vars, IInv, AssignInv, DoneInv, NotMoved, Moved, Held, Leaving, Joining
<1>3. AdjustInv' /\ PointsMatchClusters'
  BY DEF vars, IInv, AdjustInv, PointsMatchClusters, Kept, Home, Held, Leaving, Joining,
         Built
<1>4. QED
  BY <1>1, <1>2, <1>3 DEF IInv

\* Every step keeps the invariant.
LEMMA NextInv == IInv /\ [Next]_vars => IInv'
<1> SUFFICES ASSUME IInv, [Next]_vars
             PROVE  IInv'
  OBVIOUS
<1>1. CASE Main
  BY <1>1, SeedClusterInv, StartIterationInv, AssignJoinInv,
     AdjustJoinInv, BreakInv, NextIterationInv DEF Main
<1>2. ASSUME NEW p \in Point, PointTask(p)
      PROVE  IInv'
  BY <1>2, StayInClusterInv, LeaveClusterInv, JoinClusterInv, ClearDoneInv DEF PointTask
<1>3. ASSUME NEW k \in Cluster, ClusterTask(k)
      PROVE  IInv'
  BY <1>3, BeginRemovePointsInv, ScanPointInv, FinishAdjustInv, RecalculateCenterInv
     DEF ClusterTask
<1>4. CASE UNCHANGED vars
  BY <1>4, StutterInv
<1>5. QED
  BY <1>1, <1>2, <1>3, <1>4 DEF Next

-------------------------------------------------------------------------------

\* The inductive invariant holds in every reachable state, for any number of
\* points, clusters and iterations and any arithmetic.
THEOREM Invariant == Spec => []IInv
BY InitInv, NextInv, PTL DEF Spec

\* Type correctness: in particular no task indexes a cluster that does not exist
\* and no center is computed from more points than there are.
THEOREM TypeCorrect == Spec => []TypeOK
<1>1. IInv => TypeOK
  BY DEF IInv
<1>2. QED
  BY <1>1, Invariant, PTL

\* The concurrent removals and additions lose, duplicate and misplace no point.
THEOREM PointsAreConsistent == Spec => []PointsMatchClusters
<1>1. IInv => PointsMatchClusters
  BY DEF IInv
<1>2. QED
  BY <1>1, Invariant, PTL

\* The racy flag is exact whenever it is read.
THEOREM DoneFlagIsExact == Spec => []DoneIsExact
<1>1. IInv => DoneIsExact
  BY DEF IInv
<1>2. QED
  BY <1>1, Invariant, PTL

\* A task never moves its point to a center that is no longer, or never was, the
\* nearest one.
THEOREM NoStaleMove == Spec => MovesToNearest
<1> DEFINE Step == \A p \in Point :
              phase # "seed" /\ id_cluster'[p] # id_cluster[p] =>
                id_cluster'[p] = getIDNearestCenter(central_values, values[p])
<1>1. IInv /\ [Next]_vars => [Step]_vars
  <2> SUFFICES ASSUME IInv, Next
               PROVE  Step
    OBVIOUS
  <2>1. CASE phase = "seed" \/ UNCHANGED id_cluster
    BY <2>1
  <2>2. ASSUME NEW p \in Point, JoinCluster(p)
        PROVE  Step
    <3>1. nearest[p] = getIDNearestCenter(central_values, values[p])
      BY <2>2 DEF JoinCluster, IInv, AssignInv
    <3>2. \A q \in Point : id_cluster'[q] = IF q = p THEN nearest[p] ELSE id_cluster[q]
      BY <2>2 DEF JoinCluster, IInv, TypeOK
    <3>3. QED
      BY <3>1, <3>2
  <2>3. QED
    BY <2>1, <2>2
       DEF Next, Main, PointTask, ClusterTask, SeedCluster,
           StartIteration, AssignJoin, AdjustJoin, Break, NextIteration, StayInCluster, LeaveCluster, ClearDone,
           BeginRemovePoints, ScanPoint, FinishAdjust, RecalculateCenter
<1>2. QED
  BY <1>1, Invariant, PTL DEF Spec, MovesToNearest

-------------------------------------------------------------------------------
(* The refinement.  IInv says where the points are; the mapping also needs  *)
(* to know what the centers are while the first members are drawn and      *)
(* while the third loop is half done, which is SettledInv.                 *)


\* While the first members are drawn, cluster k has its center at the k-th of them.
DrawnInv ==
  phase = "seed" =>
    /\ IsInjective(prohibited_indexes)
    /\ \A k \in Built :
         /\ central_values[k] = CenterAt(values[prohibited_indexes[k + 1]])
         /\ id_cluster[prohibited_indexes[k + 1]] = k

\* A task of the third loop that has finished has left the mean behind.
RecentredInv ==
  phase = "recalculate" =>
    \A k \in recentred :
      Len(cluster_points[k]) > 0 =>
        central_values[k] = MeanOf(ValuesOf(values, cluster_points[k]))

SettledInv == DrawnInv /\ RecentredInv

-------------------------------------------------------------------------------

\* The invariant of the centers holds at the start.
LEMMA InitSettled == Init => SettledInv
<1> SUFFICES ASSUME Init
             PROVE  SettledInv
  OBVIOUS
<1>1. Built = {} /\ IsInjective(prohibited_indexes)
  BY DEF Init, Built, IsInjective
<1>2. QED
  BY <1>1 DEF Init, SettledInv, DrawnInv, RecentredInv

\* The draw of one more first member.
LEMMA SeedClusterSettled ==
  ASSUME IInv, SettledInv, NEW p \in Point, SeedCluster(p)
  PROVE  /\ SettledInv'
         /\ IsInjective(prohibited_indexes') /\ prohibited_indexes' \in Seq(Point)
         /\ Len(prohibited_indexes') = Len(prohibited_indexes) + 1
         /\ Built' = 0 .. Len(prohibited_indexes)
         /\ \A k \in Built' :
              /\ central_values'[k] = CenterAt(values[prohibited_indexes'[k + 1]])
              /\ id_cluster'[prohibited_indexes'[k + 1]] = k
<1> DEFINE i == Len(prohibited_indexes)
<1>1. /\ i \in Nat /\ Built = 0 .. i - 1
      /\ prohibited_indexes \in Seq(Point)
      /\ DOMAIN prohibited_indexes = 1 .. i
  BY LenProperties DEF IInv, TypeOK, Built
<1>2. /\ phase = "seed"
      /\ p \notin Range(prohibited_indexes)
      /\ prohibited_indexes' = Append(prohibited_indexes, p)
      /\ values' = values /\ recentred' = recentred
      /\ phase' \in {"seed", "top"}
  BY DEF SeedCluster, Taken
<1>3. /\ IsInjective(prohibited_indexes') /\ prohibited_indexes' \in Seq(Point)
      /\ Len(prohibited_indexes') = i + 1
      /\ prohibited_indexes'[i + 1] = p
      /\ \A j \in 1 .. i : prohibited_indexes'[j] = prohibited_indexes[j]
  BY <1>1, <1>2, AppendPoints, AppendProperties DEF SettledInv, DrawnInv
<1>4. Built' = 0 .. i
  BY <1>1, <1>3 DEF Built
<1>5. /\ central_values' =
           [j \in 0 .. i |-> IF j = i THEN CenterAt(values[p]) ELSE central_values[j]]
      /\ \A q \in Point : id_cluster'[q] = IF q = p THEN i ELSE id_cluster[q]
  BY DEF SeedCluster, IInv, TypeOK
<1>6. \A k \in 0 .. i - 1 :
        /\ prohibited_indexes[k + 1] \in Point /\ prohibited_indexes[k + 1] # p
        /\ central_values[k] = CenterAt(values[prohibited_indexes[k + 1]])
        /\ id_cluster[prohibited_indexes[k + 1]] = k
  <2>1. \A j \in 1 .. i : prohibited_indexes[j] \in Point /\ prohibited_indexes[j] # p
    BY <1>1, <1>2 DEF Range
  <2>2. QED
    BY <1>1, <1>2, <2>1 DEF SettledInv, DrawnInv
<1>7. ASSUME NEW k \in Built'
      PROVE  /\ central_values'[k] = CenterAt(values[prohibited_indexes'[k + 1]])
             /\ id_cluster'[prohibited_indexes'[k + 1]] = k
  <2> HIDE DEF i
  <2>1. i \in Nat /\ k \in 0 .. i
    BY <1>1, <1>4, <1>7
  <2>2. CASE k = i
    BY <1>3, <1>5, <2>1, <2>2
  <2>3. CASE k # i
    <3>1. k \in 0 .. i - 1 /\ k + 1 \in 1 .. i
      BY <2>1, <2>3
    <3>2. QED
      BY <1>3, <1>5, <1>6, <2>1, <2>3, <3>1
  <2>4. QED
    BY <2>2, <2>3
<1>8. SettledInv'
  BY <1>2, <1>3, <1>7 DEF SettledInv, DrawnInv, RecentredInv
<1>9. QED
  BY <1>3, <1>4, <1>7, <1>8

\* RecalculateCenter keeps it.
LEMMA RecalculateSettled ==
  ASSUME IInv, SettledInv, NEW k \in Cluster, RecalculateCenter(k)
  PROVE  SettledInv'
<1> USE DEF RecalculateCenter
<1>1. central_values \in [Cluster -> Center]
  BY BuiltIsCluster DEF IInv, TypeOK
<1>2. recentred \subseteq Cluster
  BY DEF IInv, TypeOK
<1>3. ASSUME NEW j \in recentred', Len(cluster_points'[j]) > 0
      PROVE  central_values'[j] = MeanOf(ValuesOf(values', cluster_points'[j]))
  <2>1. CASE j = k
    BY <1>1, <1>3, <2>1
  <2>2. CASE j # k
    BY <1>1, <1>2, <1>3, <2>2 DEF SettledInv, RecentredInv
  <2>3. QED
    BY <2>1, <2>2
<1>4. QED
  BY <1>3 DEF SettledInv, DrawnInv, RecentredInv

\* Every step keeps it.
LEMMA NextSettled == IInv /\ SettledInv /\ [Next]_vars => SettledInv'
<1> SUFFICES ASSUME IInv, SettledInv, [Next]_vars
             PROVE  SettledInv'
  OBVIOUS
<1> USE DEF SettledInv, DrawnInv, RecentredInv, Built
<1>1. CASE Main
  <2>1. ASSUME NEW p \in Point, SeedCluster(p)
        PROVE  SettledInv'
    BY <2>1, SeedClusterSettled
  <2>2. CASE StartIteration \/ AssignJoin \/ AdjustJoin \/ Break
               \/ NextIteration
    BY <2>2 DEF StartIteration, AssignJoin, AdjustJoin, Break, NextIteration
  <2>3. QED
    BY <1>1, <2>1, <2>2 DEF Main
<1>2. ASSUME NEW p \in Point, PointTask(p)
      PROVE  SettledInv'
  BY <1>2 DEF PointTask, StayInCluster, LeaveCluster, JoinCluster, ClearDone
<1>3. ASSUME NEW k \in Cluster, ClusterTask(k)
      PROVE  SettledInv'
  <2>1. CASE RecalculateCenter(k)
    BY <2>1, RecalculateSettled
  <2>2. CASE ~ RecalculateCenter(k)
    BY <1>3, <2>2 DEF ClusterTask, BeginRemovePoints, ScanPoint, FinishAdjust
  <2>3. QED
    BY <2>1, <2>2
<1>4. CASE UNCHANGED vars
  BY <1>4 DEF vars, ValuesOf
<1>5. QED
  BY <1>1, <1>2, <1>3, <1>4 DEF Next

-------------------------------------------------------------------------------
(* The mapping.                                                            *)

\* Lloyd's variable assignment, as L instantiates it.
assignment ==
  IF phase = "seed" THEN [p \in Point |-> NoCluster] ELSE AbstractAssignment

\* Lloyd and the program share their definitions.
LEMMA SharedDefinitions ==
  /\ L!Point = Point /\ L!Cluster = Cluster /\ L!NoCluster = NoCluster
  /\ L!FirstPhase = FirstPhase
  /\ \A c, v : L!getIDNearestCenter(c, v) = getIDNearestCenter(c, v)
  /\ \A v, s : L!ValuesOf(v, s) = ValuesOf(v, s)
  /\ \A S, T : L!Injection(S, T) = Injection(S, T)
  /\ \A S : L!Cardinality(S) = Cardinality(S)
<1>1. L!Point = Point /\ L!Cluster = Cluster /\ L!NoCluster = NoCluster
  BY DEF L!Point, Point, L!Cluster, Cluster, L!NoCluster, NoCluster
<1>2. L!FirstPhase = FirstPhase
  BY DEF L!FirstPhase, FirstPhase, L!TooManyClusters, TooManyClusters
<1>3. \A c, v : L!getIDNearestCenter(c, v) = getIDNearestCenter(c, v)
  BY <1>1 DEF L!getIDNearestCenter, getIDNearestCenter
<1>4. \A v, s : L!ValuesOf(v, s) = ValuesOf(v, s)
  BY DEF L!ValuesOf, ValuesOf
<1>5. \A S, T : L!Injection(S, T) = Injection(S, T)
  BY DEF L!Injection, Injection, L!IsInjective, IsInjective
<1>6. \A S : L!Cardinality(S) = Cardinality(S)
  BY DEF L!Cardinality, Cardinality
<1>7. QED
  BY <1>1, <1>2, <1>3, <1>4, <1>5, <1>6

\* A step that changes nothing that Lloyd sees.
LEMMA StutterMaps ==
  ASSUME UNCHANGED <<values, iter, assignment, AbstractCenters, AbstractStable,
                     AbstractStage>>
  PROVE  UNCHANGED L!vars
BY DEF L!vars, assignment

\* Between the first loops of two iterations Lloyd's assignment is id_cluster.
LEMMA AssignmentIsStored ==
  ASSUME IInv, phase \notin {"seed", "assign"}
  PROVE  assignment = id_cluster /\ AbstractStable = done
BY DEF IInv, TypeOK, assignment, AbstractAssignment, AbstractStable

\* The initial states are those of the abstract specification.
LEMMA InitMaps == Init => L!Init
<1> SUFFICES ASSUME Init
             PROVE  L!Init
  OBVIOUS
<1>1. phase \in {"seed", "done"} /\ phase = FirstPhase
  BY DEF Init, FirstPhase
<1>2. assignment = [p \in Point |-> NoCluster]
  BY <1>1 DEF Init, assignment, AbstractAssignment
<1>3. AbstractCenters = [k \in {} |-> k]
  <2>1. Built # Cluster
    BY ClusterBounds DEF Init, Built
  <2>2. QED
    BY <2>1 DEF AbstractCenters
<1>4. AbstractStable = TRUE /\ AbstractStage = phase
  BY <1>1 DEF Init, AbstractStable, AbstractStage
<1>5. QED
  BY <1>1, <1>2, <1>3, <1>4, SharedDefinitions DEF Init, L!Init, assignment

\* What makes a step Lloyd's Seed.
LEMMA SeedMaps ==
  ASSUME NEW s \in Injection(Cluster, Point),
         AbstractStage = "seed", AbstractStage' = "top",
         UNCHANGED <<values, AbstractStable, iter>>,
         AbstractCenters' = [k \in Cluster |-> CenterAt(values[s[k]])],
         assignment' = [q \in Point |-> IF \E k \in Cluster : s[k] = q
                                        THEN CHOOSE k \in Cluster : s[k] = q
                                        ELSE NoCluster]
  PROVE  L!Seed
<1>1. s \in L!Injection(L!Cluster, L!Point)
  BY SharedDefinitions
<1>2. /\ AbstractCenters' = [k \in L!Cluster |-> CenterAt(values[s[k]])]
      /\ assignment' = [q \in L!Point |-> IF \E k \in L!Cluster : s[k] = q
                                         THEN CHOOSE k \in L!Cluster : s[k] = q
                                         ELSE L!NoCluster]
  BY Zenon DEF L!Point, Point, L!Cluster, Cluster, L!NoCluster, NoCluster
<1>3. QED
  BY <1>1, <1>2, Zenon DEF L!Seed, assignment

\* The last draw is Lloyd's Seed; the others choose nothing that Lloyd sees.
LEMMA SeedClusterMaps ==
  ASSUME IInv, SettledInv, NEW p \in Point, SeedCluster(p)
  PROVE  L!Seed \/ UNCHANGED L!vars
<1> DEFINE drawn == prohibited_indexes'
           seed == [k \in Cluster |-> drawn[k + 1]]
<1>1. /\ IsInjective(drawn) /\ drawn \in Seq(Point)
      /\ Len(drawn) = Len(prohibited_indexes) + 1
      /\ Built' = 0 .. Len(drawn) - 1
      /\ \A k \in Built' : /\ central_values'[k] = CenterAt(values[drawn[k + 1]])
                           /\ id_cluster'[drawn[k + 1]] = k
  <2>1. Len(prohibited_indexes) \in Nat
    BY DEF IInv, TypeOK
  <2>2. QED
    BY <2>1, SeedClusterSettled
<1>2. /\ phase = "seed" /\ phase' = IF Len(drawn) = CLUSTERS THEN "top" ELSE "seed"
      /\ values' = values /\ iter' = iter /\ done' = done
  BY <1>1 DEF SeedCluster
<1>3. Len(prohibited_indexes) \in Nat /\ Len(prohibited_indexes) < CLUSTERS
  BY <1>2 DEF IInv, TypeOK, SeedInv
<1>4. /\ AbstractCenters = [k \in {} |-> k]
      /\ AbstractStable = done /\ AbstractStage = "seed"
      /\ assignment = [q \in Point |-> NoCluster]
  <2>1. Built # Cluster
    BY <1>3, ClusterBounds DEF Built, Cluster
  <2>2. QED
    BY <1>2, <2>1 DEF AbstractCenters, AbstractStable, AbstractStage, assignment
<1>5. AbstractStable' = done' /\ AbstractStage' = phase'
  BY <1>2 DEF AbstractStable, AbstractStage
<1>6. CASE Len(drawn) # CLUSTERS
  <2>1. Built' # Cluster
    BY <1>1, <1>3, <1>6, ClusterBounds DEF Cluster
  <2>2. AbstractCenters' = [k \in {} |-> k]
    BY <2>1 DEF AbstractCenters
  <2>3. assignment' = [q \in Point |-> NoCluster]
    BY <1>2, <1>6 DEF assignment
  <2>4. QED
    BY <1>2, <1>4, <1>5, <1>6, <2>2, <2>3, StutterMaps
<1>7. CASE Len(drawn) = CLUSTERS
  <2>1. Built' = Cluster
    BY <1>1, <1>7 DEF Cluster
  <2>2. phase' = "top"
    BY <1>2, <1>7
  <2>3. /\ DOMAIN drawn = 1 .. CLUSTERS
        /\ \A k \in Cluster : k + 1 \in 1 .. CLUSTERS /\ drawn[k + 1] \in Point
    BY <1>1, <1>7, ClusterBounds, LenProperties DEF Cluster
  <2>4. seed \in Injection(Cluster, Point)
    <3>1. seed \in [Cluster -> Point]
      BY <2>3
    <3>2. ASSUME NEW a \in Cluster, NEW b \in Cluster, seed[a] = seed[b]
          PROVE  a = b
      <4>1. a + 1 = b + 1
        BY <1>1, <2>3, <3>2 DEF IsInjective
      <4>2. QED
        BY <4>1, ClusterBounds
    <3>3. QED
      BY <3>1, <3>2 DEF Injection, IsInjective
  <2>5. AbstractCenters' = [k \in Cluster |-> CenterAt(values[seed[k]])]
    <3>1. AbstractCenters' = [k \in Cluster |-> central_values'[k]]
      BY <2>1, <2>2 DEF AbstractCenters
    <3>2. \A k \in Cluster : central_values'[k] = CenterAt(values[seed[k]])
      BY <1>1, <2>1
    <3>3. QED
      BY <3>1, <3>2
  <2>6. assignment' = [q \in Point |->
                         IF \E k \in Cluster : seed[k] = q
                         THEN CHOOSE k \in Cluster : seed[k] = q
                         ELSE NoCluster]
    <3>1. assignment' = [q \in Point |-> id_cluster'[q]]
      BY <2>2 DEF assignment, AbstractAssignment
    <3>2. \A k \in Cluster : id_cluster'[seed[k]] = k
      BY <1>1, <2>1
    <3>3. ASSUME NEW q \in Point
          PROVE  id_cluster'[q] = IF \E k \in Cluster : seed[k] = q
                                  THEN CHOOSE k \in Cluster : seed[k] = q
                                  ELSE NoCluster
      <4>1. CASE \E k \in Cluster : seed[k] = q
        BY <3>2, <4>1
      <4>2. CASE ~ \E k \in Cluster : seed[k] = q
        <5>1. q \notin Range(drawn)
          <6>1. ASSUME NEW j \in 1 .. CLUSTERS, drawn[j] = q
                PROVE  FALSE
            <7>1. j - 1 \in Cluster /\ (j - 1) + 1 = j
              BY ClusterBounds DEF Cluster
            <7>2. seed[j - 1] = q
              BY <6>1, <7>1
            <7>3. QED
              BY <4>2, <7>1, <7>2
          <6>2. QED
            BY <2>3, <6>1 DEF Range
        <5>2. Range(drawn) = Range(prohibited_indexes) \cup {p}
          BY AppendPoints DEF SeedCluster, IInv, TypeOK
        <5>3. q # p /\ id_cluster[q] = NoCluster
          BY <1>2, <5>1, <5>2 DEF IInv, SeedInv
        <5>4. id_cluster'[q] = id_cluster[q]
          BY <5>3 DEF SeedCluster, IInv, TypeOK
        <5>5. QED
          BY <4>2, <5>3, <5>4
      <4>3. QED
        BY <4>1, <4>2
    <3> HIDE DEF seed
    <3>4. QED
      BY <3>1, <3>3
  <2> HIDE DEF seed
  <2>7. UNCHANGED <<values, AbstractStable, iter>>
    BY <1>2, <1>4, <1>5
  <2>8. QED
    BY <1>4, <1>5, <2>2, <2>4, <2>5, <2>6, <2>7, SeedMaps
<1>8. QED
  BY <1>6, <1>7

\* Until the third loop the centers are what the program has stored.
LEMMA CentersAreStored ==
  ASSUME IInv, phase \in {"top", "assign", "adjust"}
  PROVE  AbstractCenters = central_values
<1>1. Built = Cluster
  BY BuiltIsCluster
<1>2. central_values \in [Cluster -> Center]
  BY <1>1 DEF IInv, TypeOK
<1>3. QED
  BY <1>1, <1>2 DEF AbstractCenters

\* The tasks of the first loop start: from here it is known where they will end.
LEMMA StartIterationMaps == ASSUME IInv, StartIteration PROVE L!Assign
<1> DEFINE near == [p \in Point |-> getIDNearestCenter(central_values, values[p])]
<1>1. /\ phase = "top" /\ phase' = "assign" /\ done' = TRUE
      /\ UNCHANGED <<values, id_cluster, prohibited_indexes, central_values, iter>>
      /\ \A p \in Point : task'[p] = "ready"
  BY DEF StartIteration
<1>2. AbstractCenters = central_values /\ AbstractCenters' = central_values
  <2>1. AbstractCenters = central_values
    BY <1>1, CentersAreStored
  <2>2. AbstractCenters' = AbstractCenters
    BY <1>1 DEF AbstractCenters, Built
  <2>3. QED
    BY <2>1, <2>2
<1>3. assignment = id_cluster
  BY <1>1, AssignmentIsStored
<1>4. AbstractAssignment' = near /\ assignment' = near
  BY <1>1 DEF AbstractAssignment, assignment
<1>5. AbstractStable' = (near = id_cluster)
  <2>1. AbstractStable' <=> \A p \in Point : id_cluster[p] = near[p]
    BY <1>1, <1>4 DEF AbstractStable
  <2>2. near = id_cluster <=> \A p \in Point : id_cluster[p] = near[p]
    <3>1. id_cluster \in [Point -> Cluster \cup {NoCluster}]
      BY DEF IInv, TypeOK
    <3>2. QED
      BY <3>1
  <2>3. AbstractStable' \in BOOLEAN
    BY <1>1 DEF AbstractStable
  <2>4. QED
    BY <2>1, <2>2, <2>3
<1>6. AbstractStage = "top" /\ AbstractStage' = "assigned"
  BY <1>1 DEF AbstractStage
<1>7. near = [p \in L!Point |-> L!getIDNearestCenter(AbstractCenters, values[p])]
  BY <1>2, SharedDefinitions
<1> HIDE DEF near
<1>8. QED
  BY <1>1, <1>2, <1>3, <1>4, <1>5, <1>6, <1>7 DEF L!Assign, assignment

\* While the tasks of a loop run nothing moves the centers that Lloyd sees.
LEMMA TaskKeepsCenters ==
  ASSUME phase \in {"assign", "adjust"}, phase' \in {"assign", "adjust"},
         UNCHANGED <<values, prohibited_indexes, central_values>>
  PROVE  AbstractCenters' = AbstractCenters /\ AbstractStage' = AbstractStage
BY DEF AbstractCenters, AbstractStage, Built

\* A step of a point's task is invisible to Lloyd's iteration.
LEMMA PointTaskMaps ==
  ASSUME IInv, NEW p \in Point, PointTask(p)
  PROVE  UNCHANGED L!vars
<1> USE DEF StayInCluster, LeaveCluster, JoinCluster, ClearDone
<1> DEFINE near(q) == getIDNearestCenter(central_values, values[q])
<1>1. /\ phase = "assign" /\ phase' = "assign"
      /\ UNCHANGED <<values, prohibited_indexes, central_values, iter>>
  BY DEF PointTask
<1>2. /\ \A q \in Point \ {p} : task'[q] = task[q] /\ id_cluster'[q] = id_cluster[q]
      /\ done \in BOOLEAN
  BY DEF PointTask, IInv, TypeOK
<1>3. AbstractCenters' = AbstractCenters /\ AbstractStage' = AbstractStage
  BY <1>1, TaskKeepsCenters
<1>4. /\ AbstractAssignment =
           [q \in Point |-> IF task[q] \in {"ready", "moving"} THEN near(q) ELSE id_cluster[q]]
      /\ AbstractAssignment' =
           [q \in Point |-> IF task'[q] \in {"ready", "moving"} THEN near(q) ELSE id_cluster'[q]]
  BY <1>1 DEF AbstractAssignment
<1>5. AbstractStable \in BOOLEAN /\ AbstractStable' \in BOOLEAN
  BY <1>1 DEF AbstractStable
<1>6. task \in [Point -> {"ready", "moving", "flagging", "finished"}]
      /\ id_cluster \in [Point -> Cluster \cup {NoCluster}]
  BY DEF IInv, TypeOK
<1>7. CASE StayInCluster(p)
  <2>1. /\ task[p] = "ready" /\ task'[p] = "finished" /\ done' = done
        /\ id_cluster[p] = near(p) /\ id_cluster' = id_cluster
    BY <1>6, <1>7
  <2> HIDE DEF near
  <2>2. AbstractAssignment' = AbstractAssignment
    BY <1>2, <1>4, <2>1
  <2>3. AbstractStable' <=> AbstractStable
    BY <1>1, <1>2, <1>4, <2>1, <2>2 DEF AbstractStable
  <2>4. QED
    BY <1>1, <1>3, <1>5, <2>2, <2>3, StutterMaps DEF assignment
<1>8. CASE LeaveCluster(p)
  <2>1. /\ task[p] = "ready" /\ task'[p] = "moving" /\ done' = done
        /\ id_cluster' = id_cluster
    BY <1>6, <1>8
  <2> HIDE DEF near
  <2>2. AbstractAssignment' = AbstractAssignment
    BY <1>2, <1>4, <2>1
  <2>3. AbstractStable' <=> AbstractStable
    BY <1>1, <1>2, <2>1, <2>2 DEF AbstractStable
  <2>4. QED
    BY <1>1, <1>3, <1>5, <2>2, <2>3, StutterMaps DEF assignment
<1>9. CASE JoinCluster(p)
  <2>1. /\ task[p] = "moving" /\ task'[p] = "flagging"
        /\ id_cluster'[p] = nearest[p]
        /\ nearest[p] = near(p) /\ nearest[p] # id_cluster[p]
    BY <1>6, <1>9 DEF IInv, AssignInv
  <2> HIDE DEF near
  <2>2. AbstractAssignment' = AbstractAssignment
    BY <1>2, <1>4, <2>1
  <2>3. ~ AbstractStable /\ ~ AbstractStable'
    BY <1>1, <1>4, <2>1 DEF AbstractStable
  <2>4. QED
    BY <1>1, <1>3, <1>5, <2>2, <2>3, StutterMaps DEF assignment
<1>10. CASE ClearDone(p)
  <2>1. /\ task[p] = "flagging" /\ task'[p] = "finished" /\ done' = FALSE
        /\ id_cluster' = id_cluster
    BY <1>6, <1>10
  <2> HIDE DEF near
  <2>2. AbstractAssignment' = AbstractAssignment
    BY <1>2, <1>4, <2>1
  <2>3. ~ AbstractStable /\ ~ AbstractStable'
    BY <1>1, <2>1 DEF AbstractStable
  <2>4. QED
    BY <1>1, <1>3, <1>5, <2>2, <2>3, StutterMaps DEF assignment
<1>11. QED
  BY <1>7, <1>8, <1>9, <1>10 DEF PointTask

\* The end of the first loop is invisible.
LEMMA AssignJoinMaps == ASSUME IInv, AssignJoin PROVE UNCHANGED L!vars
<1>1. /\ phase = "assign" /\ phase' = "adjust"
      /\ UNCHANGED <<values, id_cluster, prohibited_indexes, central_values, iter, done>>
      /\ \A p \in Point : task[p] = "finished"
  BY DEF AssignJoin
<1>2. AbstractCenters' = AbstractCenters /\ AbstractStage' = AbstractStage
  BY <1>1, TaskKeepsCenters
<1>3. assignment' = assignment
  BY <1>1 DEF assignment, AbstractAssignment
<1>4. AbstractStable' = AbstractStable
  <2>1. AbstractStable' = done /\ done \in BOOLEAN
    BY <1>1 DEF AbstractStable, IInv, TypeOK
  <2>2. AbstractStable <=> done
    BY <1>1 DEF AbstractStable
  <2>3. AbstractStable \in BOOLEAN
    BY <1>1 DEF AbstractStable
  <2>4. QED
    BY <2>1, <2>2, <2>3
<1>5. QED
  BY <1>1, <1>2, <1>3, <1>4, StutterMaps

\* A step of a cluster's task is invisible.
LEMMA AdjustTaskMaps ==
  ASSUME IInv, NEW k \in Cluster,
         \/ BeginRemovePoints(k)
         \/ \E i \in unscanned[k] : ScanPoint(k, i)
         \/ FinishAdjust(k)
  PROVE  UNCHANGED L!vars
<1>1. /\ phase = "adjust" /\ phase' = "adjust"
      /\ UNCHANGED <<values, id_cluster, prohibited_indexes, central_values, iter, done>>
  BY DEF BeginRemovePoints, ScanPoint, FinishAdjust
<1>2. AbstractCenters' = AbstractCenters /\ AbstractStage' = AbstractStage
  BY <1>1, TaskKeepsCenters
<1>3. assignment' = assignment /\ AbstractStable' = AbstractStable
  BY <1>1 DEF assignment, AbstractAssignment, AbstractStable
<1>4. QED
  BY <1>1, <1>2, <1>3, StutterMaps

\* Every list of the third loop is an enumeration of the members Lloyd sees, so
\* the mean of it is one of those that Lloyd allows.
LEMMA MeanIsNext ==
  ASSUME IInv, NEW k \in Cluster, phase = "adjust", adjusting[k] = "finished"
  PROVE  (IF Len(cluster_points[k]) > 0
          THEN MeanOf(ValuesOf(values, cluster_points[k]))
          ELSE central_values[k]) \in L!NextCenters(k)
<1> DEFINE s == cluster_points[k]
<1>1. s \in Seq(Point) /\ IsInjective(s)
  BY BuiltIsCluster DEF IInv, TypeOK, AdjustInv
<1>2. L!Members(k) = Range(s)
  <2>1. L!Members(k) = {p \in Point : assignment[p] = k}
    BY SharedDefinitions DEF L!Members, assignment
  <2>2. Home(k) = Range(s)
    BY DEF IInv, AdjustInv, Held
  <2>3. QED
    BY <2>1, <2>2, AssignmentIsStored DEF Home
<1>3. AbstractCenters = central_values
  BY CentersAreStored
<1>4. CASE Len(s) > 0
  <2>1. Range(s) # {}
    <3> HIDE DEF s
    <3>1. Len(s) \in Nat /\ DOMAIN s = 1 .. Len(s)
      BY <1>1, LenProperties
    <3>2. 1 \in DOMAIN s
      BY <1>4, <3>1
    <3>3. s[1] \in Range(s)
      BY <3>2 DEF Range
    <3>4. QED
      BY <3>3
  <2>2. s \in Injection(1 .. Cardinality(Range(s)), Range(s))
    BY <1>1, InjectiveListEnumerates
  <2>3. s \in L!Enumerations(L!Members(k))
    BY <1>2, <2>2, SharedDefinitions DEF L!Enumerations
  <2>4. MeanOf(ValuesOf(values, s)) \in
          {MeanOf(L!ValuesOf(values, t)) : t \in L!Enumerations(L!Members(k))}
    BY <2>3, SharedDefinitions
  <2>5. QED
    BY <1>2, <1>4, <2>1, <2>4 DEF L!NextCenters
<1>5. CASE ~ Len(s) > 0
  <2>1. Range(s) = {}
    BY <1>1, <1>5, LenProperties DEF Range
  <2>2. QED
    BY <1>2, <1>3, <1>5, <2>1 DEF L!NextCenters
<1>6. QED
  BY <1>4, <1>5

\* The end of the second loop is where Lloyd moves all centers.
LEMMA AdjustJoinMaps == ASSUME IInv, AdjustJoin PROVE L!Recenter
<1> DEFINE mean == [k \in Cluster |->
                      IF Len(cluster_points[k]) > 0
                      THEN MeanOf(ValuesOf(values, cluster_points[k]))
                      ELSE central_values[k]]
<1>1. /\ phase = "adjust" /\ phase' = "recalculate"
      /\ \A k \in Cluster : adjusting[k] = "finished"
      /\ UNCHANGED <<values, id_cluster, prohibited_indexes, central_values,
                     cluster_points, iter, done>>
  BY DEF AdjustJoin
<1>2. AbstractStage = "assigned" /\ AbstractStage' = "recentred"
  BY <1>1 DEF AbstractStage
<1>3. assignment' = assignment /\ AbstractStable' = AbstractStable
  BY <1>1 DEF assignment, AbstractAssignment, AbstractStable
<1>4. AbstractCenters' = mean
  <2>1. Built = Cluster
    BY <1>1, BuiltIsCluster
  <2>2. QED
    BY <1>1, <2>1 DEF AbstractCenters, Built, ValuesOf
<1>5. \A k \in Cluster : mean[k] \in L!NextCenters(k)
  BY <1>1, MeanIsNext
<1>6. mean \in [L!Cluster -> UNION {L!NextCenters(k) : k \in L!Cluster}]
  BY <1>5, SharedDefinitions
<1> HIDE DEF mean
<1>7. QED
  BY <1>1, <1>2, <1>3, <1>4, <1>5, <1>6, SharedDefinitions DEF L!Recenter, assignment

\* While its tasks run the third loop only brings the centers where Lloyd has put
\* them already.
LEMMA RecalculateCenterMaps ==
  ASSUME IInv, NEW k \in Cluster, RecalculateCenter(k)
  PROVE  UNCHANGED L!vars
<1>1. /\ phase = "recalculate" /\ phase' = "recalculate"
      /\ UNCHANGED <<values, id_cluster, prohibited_indexes, cluster_points, iter, done>>
      /\ central_values' = IF Len(cluster_points[k]) > 0
                           THEN [central_values EXCEPT
                                   ![k] = MeanOf(ValuesOf(values, cluster_points[k]))]
                           ELSE central_values
  BY DEF RecalculateCenter
<1>2. Built = Cluster /\ Built' = Built
  BY <1>1, BuiltIsCluster DEF Built
<1>3. central_values \in [Cluster -> Center]
  BY <1>2 DEF IInv, TypeOK
<1>4. \A j \in Cluster : j # k => central_values'[j] = central_values[j]
  BY <1>1, <1>3
<1>5. Len(cluster_points[k]) > 0 \/ central_values'[k] = central_values[k]
  BY <1>1
<1>6. AbstractCenters' = AbstractCenters
  <2> DEFINE at(c, j) == IF Len(cluster_points[j]) > 0
                         THEN MeanOf(ValuesOf(values, cluster_points[j]))
                         ELSE c[j]
  <2>1. \A j \in Cluster : at(central_values', j) = at(central_values, j)
    BY <1>4, <1>5
  <2>2. /\ AbstractCenters = [j \in Cluster |-> at(central_values, j)]
        /\ AbstractCenters' = [j \in Cluster |-> at(central_values', j)]
    BY <1>1, <1>2 DEF AbstractCenters, ValuesOf
  <2> HIDE DEF at
  <2>3. QED
    BY <2>1, <2>2
<1>7. /\ assignment' = assignment /\ AbstractStable' = AbstractStable
      /\ AbstractStage' = AbstractStage
  BY <1>1 DEF assignment, AbstractAssignment, AbstractStable, AbstractStage
<1>8. QED
  BY <1>1, <1>6, <1>7, StutterMaps

\* When all tasks of the third loop have finished they have.
LEMMA RecalculateJoins ==
  ASSUME IInv, SettledInv, phase = "recalculate", recentred = Cluster,
         phase' \in {"top", "done"},
         UNCHANGED <<values, id_cluster, prohibited_indexes, central_values,
                     cluster_points, done>>
  PROVE  /\ AbstractCenters' = AbstractCenters
         /\ AbstractStable = done /\ AbstractStable' = AbstractStable
         /\ assignment' = assignment
         /\ AbstractStage = "recentred" /\ AbstractStage' = phase'
<1>1. Built = Cluster /\ Built' = Built
  BY BuiltIsCluster DEF Built
<1>2. \A k \in Cluster :
        Len(cluster_points[k]) > 0 =>
          central_values[k] = MeanOf(ValuesOf(values, cluster_points[k]))
  BY DEF SettledInv, RecentredInv
<1>3. AbstractCenters' = AbstractCenters
  BY <1>1, <1>2 DEF AbstractCenters
<1>4. /\ AbstractStable = done /\ AbstractStable' = AbstractStable
      /\ assignment' = assignment
      /\ AbstractStage = "recentred" /\ AbstractStage' = phase'
  BY DEF assignment, AbstractAssignment, AbstractStable, AbstractStage
<1>5. QED
  BY <1>3, <1>4

\* Stopping is Lloyd's Stop,
LEMMA BreakMaps == ASSUME IInv, SettledInv, Break PROVE L!Stop
<1>1. /\ phase = "recalculate" /\ phase' = "done" /\ recentred = Cluster
      /\ done \/ LimitReached
      /\ UNCHANGED <<values, id_cluster, prohibited_indexes, central_values,
                     cluster_points, iter, done>>
  BY DEF Break
<1>2. /\ AbstractCenters' = AbstractCenters
      /\ AbstractStable = done /\ AbstractStable' = AbstractStable
      /\ assignment' = assignment
      /\ AbstractStage = "recentred" /\ AbstractStage' = "done"
  BY <1>1, RecalculateJoins
<1>3. QED
  BY <1>1, <1>2 DEF L!Stop, L!LimitReached, LimitReached, assignment

\* going on is Lloyd's Repeat,
LEMMA NextIterationMaps == ASSUME IInv, SettledInv, NextIteration PROVE L!Repeat
<1>1. /\ phase = "recalculate" /\ phase' = "top" /\ recentred = Cluster
      /\ ~ done /\ ~ LimitReached /\ iter' = iter + 1
      /\ UNCHANGED <<values, id_cluster, prohibited_indexes, central_values,
                     cluster_points, done>>
  BY DEF NextIteration
<1>2. /\ AbstractCenters' = AbstractCenters
      /\ AbstractStable = done /\ AbstractStable' = AbstractStable
      /\ assignment' = assignment
      /\ AbstractStage = "recentred" /\ AbstractStage' = "top"
  BY <1>1, RecalculateJoins
<1>3. QED
  BY <1>1, <1>2 DEF L!Repeat, L!LimitReached, LimitReached, assignment

\* and a step that changes nothing is none.
LEMMA StutterStepMaps == ASSUME UNCHANGED vars PROVE UNCHANGED L!vars
BY StutterMaps DEF vars, assignment, AbstractAssignment, AbstractCenters, AbstractStable,
   AbstractStage, Built, ValuesOf

\* Every step is a step of the abstract specification or invisible to it.
LEMMA NextMaps == IInv /\ SettledInv /\ [Next]_vars => [L!Next]_(L!vars)
<1> SUFFICES ASSUME IInv, SettledInv, [Next]_vars
             PROVE  L!Next \/ UNCHANGED L!vars
  OBVIOUS
<1>1. CASE Main
  BY <1>1, SeedClusterMaps, StartIterationMaps, AssignJoinMaps, AdjustJoinMaps, BreakMaps,
     NextIterationMaps DEF Main, L!Next
<1>2. ASSUME NEW p \in Point, PointTask(p)
      PROVE  UNCHANGED L!vars
  BY <1>2, PointTaskMaps
<1>3. ASSUME NEW k \in Cluster, ClusterTask(k)
      PROVE  UNCHANGED L!vars
  BY <1>3, AdjustTaskMaps, RecalculateCenterMaps DEF ClusterTask
<1>4. CASE UNCHANGED vars
  BY <1>4, StutterStepMaps
<1>5. QED
  BY <1>1, <1>2, <1>3, <1>4 DEF Next

-------------------------------------------------------------------------------

\* What the mapping needs to know of the centers holds throughout.
THEOREM CentersSettle == Spec => []SettledInv
BY InitInv, InitSettled, NextInv, NextSettled, PTL DEF Spec

\* The concurrent program computes what Lloyd's iteration computes: it starts as
\* Lloyd does, and every step of the main thread or a task is one whole step of
\* Lloyd or is invisible to it, in whatever order the tasks run.
THEOREM ParallelImplementsLloyd == Spec => L!Init /\ [][L!Next]_(L!vars)
BY Invariant, CentersSettle, InitMaps, NextMaps, PTL DEF Spec

-------------------------------------------------------------------------------
(* What the serial program computes with, the parallel one does: the       *)
(* lemmas on clusterings and their costs are those of SerialKMeansProofs.  *)

SP == INSTANCE SerialKMeansProofs WITH i <- 0

\* Both programs share their definitions and their assumptions.
LEMMA SerialDataShared ==
  /\ SP!SizesAssumption /\ SP!ArithmeticAssumption
  /\ SP!Point = Point /\ SP!Cluster = Cluster
  /\ SP!TooManyClusters = TooManyClusters
  /\ \A c, v : SP!getIDNearestCenter(c, v) = getIDNearestCenter(c, v)
  /\ \A v, s : SP!ValuesOf(v, s) = ValuesOf(v, s)
  /\ \A S, T : SP!Injection(S, T) = Injection(S, T)
  /\ \A S : SP!Cardinality(S) = Cardinality(S)
  /\ \A f, S : SP!SumFunctionOnSet(f, S) = SumFunctionOnSet(f, S)
<1>1. SP!Point = Point /\ SP!Cluster = Cluster
  BY DEF SP!Point, Point, SP!Cluster, Cluster
<1>2. SP!SizesAssumption /\ SP!ArithmeticAssumption
  BY <1>1, SizesAssumption, ArithmeticAssumption
     DEF SP!SizesAssumption, SizesAssumption, SP!ArithmeticAssumption, ArithmeticAssumption
<1>3. SP!TooManyClusters = TooManyClusters
  BY DEF SP!TooManyClusters, TooManyClusters
<1>4. \A c, v : SP!getIDNearestCenter(c, v) = getIDNearestCenter(c, v)
  BY <1>1 DEF SP!getIDNearestCenter, getIDNearestCenter
<1>5. \A v, s : SP!ValuesOf(v, s) = ValuesOf(v, s)
  BY DEF SP!ValuesOf, ValuesOf
<1>6. \A S, T : SP!Injection(S, T) = Injection(S, T)
  BY DEF SP!Injection, Injection, SP!IsInjective, IsInjective
<1>7. \A S : SP!Cardinality(S) = Cardinality(S)
  BY DEF SP!Cardinality, Cardinality
<1>8. \A f, S : SP!SumFunctionOnSet(f, S) = SumFunctionOnSet(f, S)
  BY DEF SP!SumFunctionOnSet, SumFunctionOnSet, SP!FoldFunctionOnSet, FoldFunctionOnSet,
         SP!MapThenFoldSet, MapThenFoldSet
<1>9. QED
  BY <1>1, <1>2, <1>3, <1>4, <1>5, <1>6, <1>7, <1>8

\* Lloyd, too, means the same cost, and the same by a central mean.
LEMMA CostShared ==
  /\ \A v, c, a : L!CostOf(v, c, a) = SP!CostOf(v, c, a)
  /\ MeanIsCentral(Value) => SP!MeanIsCentral(Value)
<1>1. \A f, S : L!SumFunctionOnSet(f, S) = SP!SumFunctionOnSet(f, S)
  BY DEF L!SumFunctionOnSet, SP!SumFunctionOnSet, L!FoldFunctionOnSet,
         SP!FoldFunctionOnSet, L!MapThenFoldSet, SP!MapThenFoldSet
<1>2. L!Point = SP!Point
  BY SharedDefinitions, SerialDataShared
<1>3. \A v, c, a : L!CostOf(v, c, a) = SP!CostOf(v, c, a)
  BY <1>1, <1>2 DEF L!CostOf, SP!CostOf, L!SumFunction, SP!SumFunction
<1>4. \A f : SP!SumFunction(f) = SumFunction(f)
  BY SerialDataShared DEF SP!SumFunction, SumFunction
<1>5. MeanIsCentral(Value) => SP!MeanIsCentral(Value)
  BY <1>4 DEF MeanIsCentral, SP!MeanIsCentral
<1>6. QED
  BY <1>3, <1>5

\* What Lloyd sees of the loops is a clustering.
LEMMA LloydTypes ==
  ASSUME IInv, phase \notin {"seed", "done"}
  PROVE  /\ values \in [SP!Point -> Value]
         /\ AbstractCenters \in [SP!Cluster -> Center]
         /\ assignment \in [SP!Point -> SP!Cluster \cup {NoCluster}]
<1>1. Built = Cluster
  BY BuiltIsCluster
<1>2. /\ values \in [Point -> Value]
      /\ central_values \in [Cluster -> Center]
      /\ id_cluster \in [Point -> Cluster \cup {NoCluster}]
      /\ cluster_points \in [Cluster -> Seq(Point)]
  BY <1>1 DEF IInv, TypeOK
<1>3. \A p \in Point : getIDNearestCenter(central_values, values[p]) \in Cluster
  BY <1>2, NearestIsFirstNearest
<1>4. ASSUME phase = "recalculate", NEW k \in Cluster, Len(cluster_points[k]) > 0
      PROVE  MeanOf(ValuesOf(values, cluster_points[k])) \in Center
  <2>1. IsInjective(cluster_points[k])
    BY <1>1, <1>4 DEF IInv, PointsMatchClusters
  <2>2. QED
    BY <1>2, <1>4, <2>1, MeanIsCenter
<1>5. AbstractCenters \in [Cluster -> Center]
  BY <1>1, <1>2, <1>4 DEF AbstractCenters
<1>6. assignment \in [Point -> Cluster \cup {NoCluster}]
  BY <1>2, <1>3 DEF assignment, AbstractAssignment
<1>7. QED
  BY <1>2, <1>5, <1>6, SerialDataShared

\* Where Lloyd is, and where the loops are.
LEMMA LloydStages ==
  ASSUME IInv
  PROVE  /\ AbstractStage \in {"top", "assigned", "recentred"} <=> phase \notin {"seed", "done"}
         /\ AbstractStage = "seed" <=> phase = "seed"
         /\ AbstractStage = "done" <=> phase = "done"
BY DEF IInv, TypeOK, AbstractStage

\* Where Lloyd moves its centers.
LEMMA LloydRecenters ==
  ASSUME L!Recenter
  PROVE  /\ AbstractCenters' = [k \in SP!Cluster |-> AbstractCenters'[k]]
         /\ SP!Recentred(values, assignment, AbstractCenters, AbstractCenters')
<1>1. PICK mean \in [L!Cluster -> UNION {L!NextCenters(k) : k \in L!Cluster}] :
        /\ \A k \in L!Cluster : mean[k] \in L!NextCenters(k)
        /\ AbstractCenters' = mean
  BY DEF L!Recenter
<1>2. ASSUME NEW k \in SP!Cluster
      PROVE  AbstractCenters'[k] \in
               LET S == {p \in SP!Point : assignment[p] = k}
               IN  IF S = {} THEN {AbstractCenters[k]}
                   ELSE {MeanOf(SP!ValuesOf(values, s)) :
                           s \in SP!Injection(1 .. SP!Cardinality(S), S)}
  <2> DEFINE S == {p \in SP!Point : assignment[p] = k}
  <2>1. L!Members(k) = S
    BY SharedDefinitions, SerialDataShared DEF L!Members, assignment
  <2> HIDE DEF S
  <2>2. L!Enumerations(S) = SP!Injection(1 .. SP!Cardinality(S), S)
    BY SharedDefinitions, SerialDataShared DEF L!Enumerations
  <2>3. AbstractCenters'[k] \in L!NextCenters(k)
    BY <1>1, SharedDefinitions, SerialDataShared
  <2>4. AbstractCenters'[k] \in
          IF S = {} THEN {AbstractCenters[k]}
          ELSE {MeanOf(L!ValuesOf(values, s)) : s \in L!Enumerations(S)}
    BY <2>1, <2>3 DEF L!NextCenters
  <2>5. QED
    BY <2>2, <2>4, SharedDefinitions, SerialDataShared DEF S
<1>3. AbstractCenters' = [k \in SP!Cluster |-> AbstractCenters'[k]]
  BY <1>1, SharedDefinitions, SerialDataShared
<1>4. QED
  BY <1>2, <1>3 DEF SP!Recentred

\* Once every point is in a cluster no step of the main thread or a task makes the
\* clustering worse, in whatever order the tasks run, for every arithmetic in which the
\* mean of a list is its most central center.
THEOREM CostFalls ==
  ASSUME MeanIsCentral(Value)
  PROVE  Spec => L!CostNeverIncreases
<1>1. ASSUME IInv, SettledInv, [Next]_vars
      PROVE  [L!AllAssigned => L!Cost' <= L!Cost]_(L!vars)
  <2>1. CASE UNCHANGED L!vars
    BY <2>1
  <2>2. CASE L!Next /\ L!AllAssigned
    <3>1. AbstractStage \in {"top", "assigned", "recentred"}
      BY <2>2 DEF L!Next, L!Seed, L!Assign, L!Recenter, L!Stop, L!Repeat, L!AllAssigned
    <3>2. /\ values \in [SP!Point -> Value]
          /\ AbstractCenters \in [SP!Cluster -> Center]
          /\ assignment \in [SP!Point -> SP!Cluster]
      <4>1. \A p \in SP!Point : assignment[p] # NoCluster
        BY <2>2, SharedDefinitions, SerialDataShared DEF L!AllAssigned, assignment
      <4>2. QED
        BY <1>1, <3>1, <4>1, LloydStages, LloydTypes
    <3>3. /\ L!Cost = SP!CostOf(values, AbstractCenters, assignment)
          /\ L!Cost' = SP!CostOf(values', AbstractCenters', assignment')
          /\ SP!CostOf(values, AbstractCenters, assignment) \in Nat
      <4>1. SP!CostOf(values, AbstractCenters, assignment) \in Nat
        BY <3>2, SerialDataShared, SP!CostIsNatural
      <4>2. QED
        BY <4>1, CostShared DEF L!Cost, assignment
    <3>4. CASE L!Assign
      <4>1. /\ UNCHANGED <<values, AbstractCenters>>
            /\ assignment'
                 = [p \in SP!Point |-> SP!getIDNearestCenter(AbstractCenters, values[p])]
        BY <3>4, SharedDefinitions, SerialDataShared DEF L!Assign, assignment
      <4>2. SP!CostOf(values, AbstractCenters, assignment')
              <= SP!CostOf(values, AbstractCenters, assignment)
        BY <3>2, <4>1, SerialDataShared, SP!AssignLowersCost
      <4>3. QED
        BY <3>3, <4>1, <4>2
    <3>5. CASE L!Recenter
      <4>1. UNCHANGED <<values, assignment>>
        BY <3>5 DEF L!Recenter, assignment
      <4>2. /\ AbstractCenters' = [k \in SP!Cluster |-> AbstractCenters'[k]]
            /\ SP!Recentred(values, assignment, AbstractCenters, AbstractCenters')
        BY <3>5, LloydRecenters
      <4>3. SP!IsOptimal(values, AbstractCenters', assignment)
        BY <3>2, <4>2, CostShared, SerialDataShared, SP!RecenterIsOptimal
      <4>4. SP!CostOf(values, AbstractCenters', assignment)
              <= SP!CostOf(values, AbstractCenters, assignment)
        BY <3>2, <4>3 DEF SP!IsOptimal
      <4>5. QED
        BY <3>3, <4>1, <4>4
    <3>6. CASE L!Seed \/ L!Stop \/ L!Repeat
      <4>1. UNCHANGED <<values, AbstractCenters, assignment>>
        BY <3>1, <3>6 DEF L!Seed, L!Stop, L!Repeat, assignment
      <4>2. QED
        BY <3>3, <4>1
    <3>7. QED
      BY <2>2, <3>4, <3>5, <3>6 DEF L!Next
  <2>3. QED
    BY <1>1, <2>1, <2>2, NextMaps
<1>2. QED
  BY <1>1, Invariant, CentersSettle, PTL DEF Spec, L!CostNeverIncreases

-------------------------------------------------------------------------------
(* The iteration never cycles.                                             *)

\* Where the parallel run is on its way through the clusterings.
DescendsInv ==
  SP!Descends(values, AbstractCenters, assignment, iter, AbstractStable, AbstractStage)

\* It starts at the top.
LEMMA InitDescends == Init => DescendsInv
<1> SUFFICES ASSUME Init
             PROVE  DescendsInv
  OBVIOUS
<1>1. iter = 1 /\ phase = FirstPhase /\ AbstractStage = phase
  BY DEF Init, FirstPhase, AbstractStage
<1>2. QED
  BY <1>1, SerialDataShared DEF DescendsInv, SP!Descends, FirstPhase

\* Every step keeps it going.
LEMMA NextDescends ==
  ASSUME MeanIsCentral(Value), IInv, SettledInv, DescendsInv, [Next]_vars
  PROVE  DescendsInv'
<1> DEFINE At(v, c, a, number, settled, where) == SP!Descends(v, c, a, number, settled, where)
<1>1. At(values, AbstractCenters, assignment, iter, AbstractStable, AbstractStage)
  BY DEF DescendsInv
<1>2. iter \in Nat \ {0} /\ AbstractStable \in BOOLEAN
  <2>1. iter \in Nat \ {0} /\ done \in BOOLEAN
    BY SizesAssumption DEF IInv, TypeOK
  <2>2. QED
    BY <2>1 DEF AbstractStable
<1>3. SUFFICES At(values', AbstractCenters', assignment', iter', AbstractStable', AbstractStage')
  BY DEF DescendsInv
<1>4. CASE L!Seed
  <2>1. AbstractStage = "seed" /\ AbstractStage' = "top" /\ iter' = iter
    BY <1>4 DEF L!Seed
  <2>2. QED
    BY <1>1, <2>1 DEF SP!Descends
<1>5. CASE L!Assign
  <2>1. /\ AbstractStage = "top" /\ AbstractStage' = "assigned"
        /\ UNCHANGED <<values, AbstractCenters, iter>>
        /\ assignment' = [p \in SP!Point |-> SP!getIDNearestCenter(AbstractCenters, values[p])]
        /\ AbstractStable' = (assignment' = assignment)
    BY <1>5, SharedDefinitions, SerialDataShared DEF L!Assign, assignment
  <2>2. values \in [SP!Point -> Value] /\ AbstractCenters \in [SP!Cluster -> Center]
    BY <2>1, LloydStages, LloydTypes
  <2> HIDE DEF At
  <2>3. At(values, AbstractCenters, assignment, iter, AbstractStable, "top")
    BY <1>1, <2>1
  <2>4. At(values, AbstractCenters, assignment', iter, assignment' = assignment, "assigned")
    BY <1>2, <2>1, <2>2, <2>3, SerialDataShared, SP!AssignDescends DEF At
  <2>5. QED
    BY <2>1, <2>4
<1>6. CASE L!Recenter
  <2>1. /\ AbstractStage = "assigned" /\ AbstractStage' = "recentred"
        /\ UNCHANGED <<values, assignment, iter, AbstractStable>>
    BY <1>6 DEF L!Recenter, assignment
  <2>2. /\ AbstractCenters' = [k \in SP!Cluster |-> AbstractCenters'[k]]
        /\ SP!Recentred(values, assignment, AbstractCenters, AbstractCenters')
    BY <1>6, LloydRecenters
  <2>3. values \in [SP!Point -> Value] /\ AbstractCenters \in [SP!Cluster -> Center]
    BY <2>1, LloydStages, LloydTypes
  <2> HIDE DEF At
  <2>4. At(values, AbstractCenters, assignment, iter, AbstractStable, "assigned")
    BY <1>1, <2>1
  <2>5. At(values, AbstractCenters', assignment, iter, AbstractStable, "recentred")
    BY <2>2, <2>3, <2>4, CostShared, SerialDataShared, SP!RecenterDescends DEF At
  <2>6. QED
    BY <2>1, <2>5
<1>7. CASE L!Stop
  <2>1. /\ AbstractStage = "recentred" /\ AbstractStage' = "done"
        /\ AbstractStable \/ iter >= MAX_ITERATIONS
        /\ UNCHANGED <<values, assignment, AbstractCenters, iter, AbstractStable>>
    BY <1>7 DEF L!Stop, L!LimitReached, assignment
  <2> HIDE DEF At
  <2>2. At(values, AbstractCenters, assignment, iter, AbstractStable, "done")
    BY <1>1, <1>2, <2>1, SerialDataShared, SP!EndDescends DEF At
  <2>3. QED
    BY <2>1, <2>2
<1>8. CASE L!Repeat
  <2>1. /\ AbstractStage = "recentred" /\ AbstractStage' = "top"
        /\ ~ AbstractStable /\ iter' = iter + 1
        /\ UNCHANGED <<values, assignment, AbstractCenters, AbstractStable>>
    BY <1>8 DEF L!Repeat, assignment
  <2> HIDE DEF At
  <2>2. At(values, AbstractCenters, assignment, iter + 1, AbstractStable, "top")
    BY <1>1, <1>2, <2>1, SerialDataShared, SP!EndDescends DEF At
  <2>3. QED
    BY <2>1, <2>2
<1>9. CASE UNCHANGED L!vars
  <2>1. UNCHANGED <<values, assignment, AbstractCenters, iter, AbstractStable, AbstractStage>>
    BY <1>9 DEF L!vars, assignment
  <2> HIDE DEF At
  <2>2. QED
    BY <1>1, <2>1
<1>10. QED
  BY <1>4, <1>5, <1>6, <1>7, <1>8, <1>9, NextMaps DEF L!Next

\* The way through the clusterings, at every moment of a run.
LEMMA Descent ==
  ASSUME MeanIsCentral(Value)
  PROVE  Spec => [](IInv /\ DescendsInv)
<1>1. IInv /\ SettledInv /\ DescendsInv /\ [Next]_vars => DescendsInv'
  BY NextDescends
<1>2. QED
  BY <1>1, Invariant, CentersSettle, InitDescends, PTL DEF Spec

\* No run of the parallel program has more iterations than there are clusterings, and one,
\* whatever the order in which the tasks run and however MAX_ITERATIONS is set.
THEOREM IterationsAreBounded ==
  ASSUME MeanIsCentral(Value)
  PROVE  Spec => [](iter <= Cardinality([Point -> Cluster]) + 1)
<1>1. IInv /\ DescendsInv => iter <= Cardinality([Point -> Cluster]) + 1
  <2> SUFFICES ASSUME IInv, DescendsInv
               PROVE  iter <= SP!Clusterings + 1
    BY SerialDataShared DEF SP!Clusterings
  <2>1. /\ iter \in Nat /\ done \in BOOLEAN
        /\ phase \in {"seed", "top", "assign", "adjust", "recalculate", "done"}
    BY SizesAssumption DEF IInv, TypeOK
  <2>2. /\ AbstractStable \in BOOLEAN
        /\ AbstractStage \in {"seed", "top", "assigned", "recentred", "done"}
    BY <2>1 DEF AbstractStable, AbstractStage
  <2>3. QED
    BY <2>1, <2>2, SerialDataShared, SP!DescentIsBounded DEF DescendsInv
<1>2. QED
  BY <1>1, Descent, PTL

===============================================================================
