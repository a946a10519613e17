-------------------------- MODULE SerialKMeansProofs ---------------------------
(***************************************************************************)
(* Safety of SerialKMeans for every number of points and clusters, every   *)
(* data set and every arithmetic: IInv is an inductive invariant.  The     *)
(* heart of it is that removePoint always finds its point.                 *)
(***************************************************************************)
EXTENDS SerialKMeans, CommonProofs

-------------------------------------------------------------------------------

\* The loop's bounds: at least one cluster, numbered from 0.
LEMMA ClusterBounds ==
  /\ CLUSTERS \in Nat \ {0}
  /\ CLUSTERS - 1 \in Cluster
  /\ Cluster \subseteq Nat
BY SizesAssumption DEF Cluster

\* getIDNearestCenter returns the first of the clusters whose center is at minimal
\* distance: ties go to the lower cluster id.
THEOREM NearestIsFirstNearest ==
  ASSUME NEW centers \in [Cluster -> Center], NEW v \in Value
  PROVE  LET k == getIDNearestCenter(centers, v)
         IN  k \in Cluster /\ IsFirstNearest(k, centers, v)
<1> DEFINE last == CLUSTERS - 1
           d == [k \in 0 .. last |-> DistSq(centers[k], v)]
           Turns(f) == [k \in Cluster |->
              IF k = 0 THEN 0
              ELSE IF DistSq(centers[k], v) < DistSq(centers[f[k - 1]], v)
                   THEN k
                   ELSE f[k - 1]]
           best == CHOOSE f : f = Turns(f)
<1>1. last \in Nat /\ Cluster = 0 .. last
  BY ClusterBounds DEF Cluster
<1>2. d \in [0 .. last -> Nat]
  BY <1>1, ArithmeticAssumption
<1>3. PICK f \in [0 .. last -> 0 .. last] : IsScan(f, last, d)
  BY <1>1, ScanExists
<1>4. f = Turns(f)
  <2>1. ASSUME NEW k \in 0 .. last
        PROVE  f[k] = IF k = 0 THEN 0
                      ELSE IF DistSq(centers[k], v) < DistSq(centers[f[k - 1]], v)
                           THEN k
                           ELSE f[k - 1]
    <3>1. k # 0 => f[k - 1] \in 0 .. last
      BY <1>1, <1>3
    <3>2. QED
      BY <1>3, <3>1 DEF IsScan, ScanTurn
  <2>2. QED
    BY <1>1, <1>3, <2>1
<1>5. best = Turns(best)
  BY <1>4
<1>6. getIDNearestCenter(centers, v) = best[last]
  BY DEF getIDNearestCenter
<1> HIDE DEF best
<1>7. FirstLeast(best[last], last, d)
  <2>1. best[0] = 0
    BY <1>1, <1>5
  <2>2. ASSUME NEW k \in 1 .. last, best[k - 1] \in 0 .. k - 1
        PROVE  best[k] = ScanTurn(best, k, d)
    BY <1>1, <1>5, <2>2 DEF ScanTurn
  <2>3. QED
    BY <1>1, <1>2, <2>1, <2>2, ScanFindsFirst
<1>8. best[last] \in 0 .. last /\ \A j \in 0 .. last : d[j] = DistSq(centers[j], v)
  BY <1>7 DEF FirstLeast
<1> HIDE DEF d
<1>9. IsFirstNearest(best[last], centers, v)
  BY <1>1, <1>7, <1>8 DEF FirstLeast, IsFirstNearest
<1>10. QED
  BY <1>1, <1>6, <1>8, <1>9

\* The mean of the points of a non-empty list without duplicates is a center.
LEMMA MeanIsCenter ==
  ASSUME NEW vals \in [Point -> Value],
         NEW s \in Seq(Point), IsInjective(s), Len(s) > 0
  PROVE  MeanOf(ValuesOf(vals, s)) \in Center
<1>1. IsFiniteSet(Point) /\ Cardinality(Point) = TOTAL_POINTS
  BY SizesAssumption, FS_Interval DEF Point
<1>2. Len(s) \in 1 .. TOTAL_POINTS
  BY <1>1, InjectiveListIsShort
<1>3. s \in [1 .. Len(s) -> Point] /\ DOMAIN s = 1 .. Len(s)
  BY LenProperties
<1>4. ValuesOf(vals, s) \in [1 .. Len(s) -> Value]
  BY <1>3 DEF ValuesOf
<1>5. QED
  BY <1>2, <1>4, ArithmeticAssumption

\* removePoint takes the point out of a list that holds it once, and nothing else.
LEMMA RemovePoint ==
  ASSUME NEW S, NEW s \in Seq(S), IsInjective(s), NEW e \in Range(s)
  PROVE  /\ removePoint(s, e) \in Seq(S)
         /\ Range(removePoint(s, e)) = Range(s) \ {e}
         /\ IsInjective(removePoint(s, e))
<1>1. Len(s) \in Nat /\ DOMAIN s = 1 .. Len(s) /\ \A j \in 1 .. Len(s) : s[j] \in S
  BY LenProperties, ElementOfSeq
<1>2. PICK j \in 1 .. Len(s) : s[j] = e
  BY <1>1 DEF Range
<1>3. {k \in 1 .. Len(s) : s[k] = e} = {j}
  BY <1>1, <1>2 DEF IsInjective
<1>4. Min({j}) = j
  BY <1>1 DEF Min
<1> DEFINE a == SubSeq(s, 1, j - 1)
           b == SubSeq(s, j + 1, Len(s))
<1>5. removePoint(s, e) = a \o b
  BY <1>2, <1>3, <1>4 DEF removePoint, RemoveFirst, RemoveAt, SelectInSeq
<1>6. /\ a \in Seq(S) /\ Len(a) = j - 1
      /\ \A k \in 1 .. j - 1 : a[k] = s[k]
  <2>1. \A k \in 1 .. j - 1 : s[k] \in S
    BY <1>1
  <2>2. /\ a \in Seq(S) /\ Len(a) = IF 1 <= j - 1 THEN (j - 1) - 1 + 1 ELSE 0
        /\ \A k \in 1 .. (j - 1) - 1 + 1 : a[k] = s[1 + k - 1]
    BY <1>1, <2>1, SubSeqProperties
  <2> HIDE DEF a
  <2>3. QED
    BY <1>1, <2>2
<1>7. /\ b \in Seq(S) /\ Len(b) = Len(s) - j
      /\ \A k \in 1 .. Len(s) - j : b[k] = s[j + k]
  <2> DEFINE m == j + 1
  <2>1. j \in Int /\ 1 <= j /\ j <= Len(s) /\ Len(s) \in Int
    BY <1>1
  <2>2. m \in Int /\ m = j + 1 /\ \A k \in m .. Len(s) : s[k] \in S
    BY <1>1
  <2>3. b = SubSeq(s, m, Len(s))
    OBVIOUS
  <2> HIDE DEF b, m
  <2>4. /\ b \in Seq(S) /\ Len(b) = IF m <= Len(s) THEN Len(s) - m + 1 ELSE 0
        /\ \A k \in 1 .. Len(s) - m + 1 : b[k] = s[m + k - 1]
    BY <1>1, <2>2, <2>3, SubSeqProperties
  <2>5. Len(b) = Len(s) - j
    BY <2>1, <2>2, <2>4
  <2>6. \A k \in 1 .. Len(s) - j : k \in 1 .. Len(s) - m + 1 /\ m + k - 1 = j + k
    BY <1>1, <2>2
  <2>7. QED
    BY <2>4, <2>5, <2>6
<1> HIDE DEF a, b
<1>8. DOMAIN a = 1 .. j - 1 /\ DOMAIN b = 1 .. Len(s) - j
  BY <1>6, <1>7, LenProperties
<1>9. /\ Range(a) = {s[k] : k \in 1 .. j - 1}
      /\ Range(b) = {s[k] : k \in j + 1 .. Len(s)}
  <2>1. Range(a) = {s[k] : k \in 1 .. j - 1}
    BY <1>6, <1>8 DEF Range
  <2>2. Range(b) = {s[j + k] : k \in 1 .. Len(s) - j}
    BY <1>7, <1>8 DEF Range
  <2>3. \A k \in 1 .. Len(s) - j : j + k \in j + 1 .. Len(s)
    BY <1>1
  <2>4. \A k \in j + 1 .. Len(s) : k - j \in 1 .. Len(s) - j /\ j + (k - j) = k
    BY <1>1
  <2>5. QED
    BY <2>1, <2>2, <2>3, <2>4
<1>10. IsInjective(a) /\ IsInjective(b)
  <2>1. IsInjective(a)
    BY <1>1, <1>6, <1>8 DEF IsInjective
  <2>2. ASSUME NEW x \in 1 .. Len(s) - j, NEW y \in 1 .. Len(s) - j, b[x] = b[y]
        PROVE  x = y
    <3>1. j + x \in 1 .. Len(s) /\ j + y \in 1 .. Len(s) /\ s[j + x] = s[j + y]
      BY <1>1, <1>7, <2>2
    <3>2. j + x = j + y
      BY <1>1, <3>1 DEF IsInjective
    <3>3. QED
      BY <1>1, <3>2
  <2>3. QED
    BY <1>8, <2>1, <2>2 DEF IsInjective
<1>11. Range(a) \cap Range(b) = {} /\ Range(a) \cup Range(b) = Range(s) \ {e}
  <2>1. \A x, y \in 1 .. Len(s) : s[x] = s[y] => x = y
    BY <1>1 DEF IsInjective
  <2>2. Range(s) = {s[k] : k \in 1 .. Len(s)}
    BY <1>1 DEF Range
  <2>3. \A k \in 1 .. Len(s) : k \in 1 .. j - 1 \/ k = j \/ k \in j + 1 .. Len(s)
    BY <1>1
  <2>4. 1 .. j - 1 \subseteq (1 .. Len(s)) \ {j} /\ j + 1 .. Len(s) \subseteq (1 .. Len(s)) \ {j}
    BY <1>1
  <2>5. Range(a) \cap Range(b) = {}
    BY <1>1, <1>9, <2>1, <2>4
  <2>6. Range(a) \cup Range(b) = Range(s) \ {e}
    BY <1>2, <1>9, <2>1, <2>2, <2>3, <2>4
  <2>7. QED
    BY <2>5, <2>6
<1>12. QED
  BY <1>5, <1>6, <1>7, <1>10, <1>11, ConcatPoints

-------------------------------------------------------------------------------
(* One lemma per action: it preserves IInv.                                *)

\* The bounds of the loops, once all the centers are drawn.
LEMMA Bounds ==
  ASSUME IInv, phase \notin {"seed", "done"}
  PROVE  /\ Built = Cluster /\ CLUSTERS <= TOTAL_POINTS
         /\ CLUSTERS \in Nat /\ TOTAL_POINTS \in Nat /\ i \in Nat
BY SizesAssumption DEF IInv, TypeOK, LoopsInv, Built, Cluster, TooManyClusters

\* The initial states satisfy the invariant.
LEMMA InitInv == Init => IInv
<1> SUFFICES ASSUME Init
             PROVE  IInv
  OBVIOUS
<1>1. /\ Len(prohibited_indexes) = 0 /\ Built = {}
      /\ phase \in {"seed", "done"} /\ (phase = "seed" => ~ TooManyClusters)
  BY DEF Init, FirstPhase, Built
<1>2. TypeOK
  BY <1>1, ClusterBounds, SizesAssumption DEF Init, TypeOK
<1>3. LoopsInv
  BY <1>1, ClusterBounds DEF Init, LoopsInv
<1>4. PointsMatchClusters
  BY <1>1 DEF PointsMatchClusters
<1>5. QED
  BY <1>2, <1>3, <1>4 DEF IInv

\* SeedCluster keeps the invariant.
LEMMA SeedClusterInv ==
  ASSUME IInv, NEW p \in Point, SeedCluster(p)
  PROVE  IInv'
<1> DEFINE k == Len(prohibited_indexes)
<1> USE DEF SeedCluster, Taken
<1>1. /\ k \in Nat /\ k < CLUSTERS /\ CLUSTERS \in Nat
      /\ Built = 0 .. k - 1
      /\ k \in Cluster /\ k \notin Built /\ k # NoCluster
  BY ClusterBounds DEF IInv, TypeOK, LoopsInv, Built, Cluster, NoCluster
<1>2. prohibited_indexes' \in Seq(Point) /\ Len(prohibited_indexes') = k + 1
  BY AppendProperties DEF IInv, TypeOK
<1>3. Built' = Built \cup {k} /\ Built' = 0 .. k
  BY <1>1, <1>2 DEF Built
<1>4. values[p] \in Value /\ CenterAt(values[p]) \in Center
  BY ArithmeticAssumption DEF IInv, TypeOK
<1>5. /\ id_cluster' \in [Point -> Cluster \cup {NoCluster}]
      /\ \A q \in Point : id_cluster'[q] = IF q = p THEN k ELSE id_cluster[q]
  BY <1>1 DEF IInv, TypeOK
<1>6. /\ central_values' \in [Built' -> Center]
      /\ cluster_points' \in [Built' -> Seq(Point)]
      /\ cluster_points'[k] = <<p>>
      /\ \A j \in Built : cluster_points'[j] = cluster_points[j]
  <2> HIDE DEF k
  <2>1. central_values \in [Built -> Center] /\ cluster_points \in [Built -> Seq(Point)]
    BY DEF IInv, TypeOK
  <2>2. /\ central_values' =
             [j \in 0 .. k |-> IF j = k THEN CenterAt(values[p]) ELSE central_values[j]]
        /\ cluster_points' = [j \in 0 .. k |-> IF j = k THEN <<p>> ELSE cluster_points[j]]
    BY DEF k
  <2>3. \A j \in Built' : j = k \/ j \in Built
    BY <1>3
  <2>4. <<p>> \in Seq(Point)
    OBVIOUS
  <2>5. QED
    BY <1>1, <1>3, <1>4, <2>1, <2>2, <2>3, <2>4
<1>7. phase' \in {"seed", "top"} /\ (phase' = "seed" <=> k + 1 # CLUSTERS)
  OBVIOUS
<1>8. TypeOK'
  BY <1>1, <1>2, <1>5, <1>6, <1>7 DEF IInv, TypeOK
<1>9. LoopsInv'
  <2>1. \A q \in Point : id_cluster'[q] \in Built' \cup {NoCluster}
    BY <1>3, <1>5 DEF IInv, LoopsInv
  <2>2. Range(prohibited_indexes') = Range(prohibited_indexes) \cup {p}
    BY AppendPoints DEF IInv, TypeOK
  <2>3. \A q \in Point : id_cluster'[q] # NoCluster => q \in Range(prohibited_indexes')
    BY <1>5, <2>2 DEF IInv, LoopsInv
  <2>4. QED
    BY <1>1, <1>2, <1>7, <2>1, <2>3 DEF IInv, LoopsInv, TooManyClusters
<1>10. PointsMatchClusters'
  <2> HIDE DEF k
  <2>1. \A q \in Point : id_cluster[q] \in Built \cup {NoCluster}
    BY DEF IInv, LoopsInv
  <2>2. id_cluster[p] = NoCluster
    BY DEF IInv, LoopsInv
  <2>3. \A j \in Built : j # k /\ j # NoCluster
    BY <1>1 DEF Built, NoCluster
  <2>4. Range(<<p>>) = {p} /\ IsInjective(<<p>>)
    BY DEF Range, IsInjective
  <2>5. ASSUME NEW j \in Built'
        PROVE  /\ IsInjective(cluster_points'[j])
               /\ Range(cluster_points'[j]) = {q \in Point : id_cluster'[q] = j}
    <3>1. CASE j = k
      BY <1>1, <1>5, <1>6, <2>1, <2>4, <3>1
    <3>2. CASE j # k
      <4>1. j \in Built
        BY <1>3, <3>2
      <4>2. QED
        BY <1>5, <1>6, <2>2, <2>3, <4>1 DEF IInv, PointsMatchClusters
    <3>3. QED
      BY <3>1, <3>2
  <2>6. QED
    BY <2>5 DEF PointsMatchClusters
<1>11. QED
  BY <1>8, <1>9, <1>10 DEF IInv

\* StartIteration keeps the invariant.
LEMMA StartIterationInv == ASSUME IInv, StartIteration PROVE IInv'
<1> USE DEF StartIteration
<1>1. TypeOK'
  BY SizesAssumption DEF IInv, TypeOK, Built
<1>2. LoopsInv' /\ PointsMatchClusters'
  BY DEF IInv, LoopsInv, PointsMatchClusters, Built
<1>3. QED
  BY <1>1, <1>2 DEF IInv

\* StayInCluster keeps the invariant.
LEMMA StayInClusterInv == ASSUME IInv, StayInCluster PROVE IInv'
<1> USE DEF StayInCluster
<1>1. TypeOK'
  BY SizesAssumption DEF IInv, TypeOK, Built, Point
<1>2. LoopsInv' /\ PointsMatchClusters'
  BY DEF IInv, LoopsInv, PointsMatchClusters, Built
<1>3. QED
  BY <1>1, <1>2 DEF IInv

\* Point i leaves the one list that holds it and joins another.
LEMMA MoveToNearestInv == ASSUME IInv, MoveToNearest PROVE IInv'
<1> DEFINE old     == id_cluster[i]
           nearest == getIDNearestCenter(central_values, values[i])
           removed == IF old = NoCluster
                      THEN cluster_points
                      ELSE [cluster_points EXCEPT ![old] = removePoint(@, i)]
<1>1. /\ phase = "assign" /\ i \in Point /\ old # nearest
      /\ cluster_points' = [removed EXCEPT ![nearest] = Append(@, i)]
      /\ id_cluster' = [id_cluster EXCEPT ![i] = nearest]
      /\ done' = FALSE /\ i' = i + 1
      /\ UNCHANGED <<values, prohibited_indexes, central_values, iter, phase>>
  BY DEF MoveToNearest
<1>2. Built = Cluster /\ Built' = Cluster
  BY <1>1, Bounds DEF Built
<1>3. /\ cluster_points \in [Cluster -> Seq(Point)]
      /\ id_cluster \in [Point -> Cluster \cup {NoCluster}]
      /\ central_values \in [Cluster -> Center] /\ values[i] \in Value
  BY <1>1, <1>2 DEF IInv, TypeOK
<1>4. nearest \in Cluster /\ NoCluster \notin Cluster
  BY <1>3, NearestIsFirstNearest DEF Cluster, NoCluster
<1>5. /\ id_cluster' \in [Point -> Cluster \cup {NoCluster}]
      /\ id_cluster'[i] = nearest
      /\ \A q \in Point : q # i => id_cluster'[q] = id_cluster[q]
  <2> HIDE DEF nearest
  <2>1. QED
    BY <1>1, <1>3, <1>4
<1>6. \A k \in Cluster :
        /\ IsInjective(cluster_points[k])
        /\ Range(cluster_points[k]) = {q \in Point : id_cluster[q] = k}
  BY <1>2 DEF IInv, PointsMatchClusters
<1>7. /\ removed \in [Cluster -> Seq(Point)]
      /\ \A k \in Cluster :
           /\ IsInjective(removed[k])
           /\ Range(removed[k]) = {q \in Point : id_cluster[q] = k} \ {i}
  <2>1. CASE old = NoCluster
    <3>1. removed = cluster_points
      BY <2>1
    <3>2. \A k \in Cluster : i \notin Range(cluster_points[k])
      BY <1>4, <1>6, <2>1
    <3>3. QED
      BY <1>3, <1>6, <3>1, <3>2
  <2>2. CASE old # NoCluster
    <3>1. old \in Cluster /\ i \in Range(cluster_points[old])
      BY <1>1, <1>3, <1>6, <2>2
    <3>2. /\ removePoint(cluster_points[old], i) \in Seq(Point)
          /\ Range(removePoint(cluster_points[old], i)) = Range(cluster_points[old]) \ {i}
          /\ IsInjective(removePoint(cluster_points[old], i))
      BY <1>3, <1>6, <3>1, RemovePoint
    <3>3. /\ removed \in [Cluster -> Seq(Point)]
          /\ removed[old] = removePoint(cluster_points[old], i)
          /\ \A k \in Cluster : k # old => removed[k] = cluster_points[k]
      BY <1>3, <2>2, <3>1, <3>2
    <3>4. \A k \in Cluster : k # old => i \notin Range(cluster_points[k])
      BY <1>6
    <3> HIDE DEF removed
    <3>5. QED
      BY <1>6, <3>1, <3>2, <3>3, <3>4
  <2>3. QED
    BY <2>1, <2>2
<1> HIDE DEF removed
<1>8. /\ Append(removed[nearest], i) \in Seq(Point)
      /\ Range(Append(removed[nearest], i)) = Range(removed[nearest]) \cup {i}
      /\ IsInjective(Append(removed[nearest], i))
  <2>1. removed[nearest] \in Seq(Point) /\ i \notin Range(removed[nearest])
    BY <1>4, <1>7
  <2>2. QED
    BY <1>1, <1>4, <1>7, <2>1, AppendPoints
<1>9. /\ cluster_points' \in [Cluster -> Seq(Point)]
      /\ cluster_points'[nearest] = Append(removed[nearest], i)
      /\ \A k \in Cluster : k # nearest => cluster_points'[k] = removed[k]
  <2> HIDE DEF nearest
  <2>1. QED
    BY <1>1, <1>4, <1>7, <1>8
<1> HIDE DEF nearest
<1>10. TypeOK'
  <2>1. i' \in 0 .. TOTAL_POINTS
    BY <1>1, SizesAssumption DEF Point
  <2>2. /\ Built = Cluster /\ Built' = Cluster /\ UNCHANGED <<values, prohibited_indexes>>
        /\ UNCHANGED <<central_values, iter, phase>> /\ done' = FALSE
    BY <1>1, <1>2
  <2>3. QED
    BY <1>5, <1>9, <2>1, <2>2 DEF IInv, TypeOK
<1>11. LoopsInv'
  BY <1>1, <1>2, <1>5 DEF IInv, LoopsInv
<1>12. PointsMatchClusters'
  <2>1. ASSUME NEW k \in Cluster
        PROVE  /\ IsInjective(cluster_points'[k])
               /\ Range(cluster_points'[k]) = {q \in Point : id_cluster'[q] = k}
    <3>1. CASE k = nearest
      BY <1>1, <1>5, <1>7, <1>8, <1>9, <3>1
    <3>2. CASE k # nearest
      BY <1>1, <1>5, <1>7, <1>9, <3>2
    <3>3. QED
      BY <3>1, <3>2
  <2>2. QED
    BY <1>2, <2>1 DEF PointsMatchClusters
<1>13. QED
  BY <1>10, <1>11, <1>12 DEF IInv

\* EndAssign keeps the invariant.
LEMMA EndAssignInv == ASSUME IInv, EndAssign PROVE IInv'
<1> USE DEF EndAssign
<1>1. TypeOK'
  BY SizesAssumption DEF IInv, TypeOK, Built
<1>2. LoopsInv' /\ PointsMatchClusters'
  BY SizesAssumption DEF IInv, LoopsInv, PointsMatchClusters, Built
<1>3. QED
  BY <1>1, <1>2 DEF IInv

\* RecalculateCenter keeps the invariant.
LEMMA RecalculateCenterInv == ASSUME IInv, RecalculateCenter PROVE IInv'
<1> USE DEF RecalculateCenter
<1>1. Built = Cluster /\ CLUSTERS <= TOTAL_POINTS /\ CLUSTERS \in Nat /\ i \in Nat
      /\ TOTAL_POINTS \in Nat
  BY Bounds
<1>2. cluster_points[i] \in Seq(Point) /\ IsInjective(cluster_points[i])
  BY <1>1 DEF IInv, TypeOK, PointsMatchClusters
<1>3. Len(cluster_points[i]) > 0 => MeanOf(ValuesOf(values, cluster_points[i])) \in Center
  BY <1>2, MeanIsCenter DEF IInv, TypeOK
<1>4. i < CLUSTERS
  BY <1>1 DEF Cluster
<1>5. TypeOK'
  BY <1>1, <1>3, <1>4 DEF IInv, TypeOK, Built
<1>6. LoopsInv' /\ PointsMatchClusters'
  BY <1>1, <1>4 DEF IInv, LoopsInv, PointsMatchClusters, Built
<1>7. QED
  BY <1>5, <1>6 DEF IInv

\* Break keeps the invariant.
LEMMA BreakInv == ASSUME IInv, Break PROVE IInv'
<1> USE DEF Break
<1>1. TypeOK' /\ LoopsInv' /\ PointsMatchClusters'
  BY DEF IInv, TypeOK, LoopsInv, PointsMatchClusters, Built
<1>2. QED
  BY <1>1 DEF IInv

\* NextIteration keeps the invariant.
LEMMA NextIterationInv == ASSUME IInv, NextIteration PROVE IInv'
<1> USE DEF NextIteration, LimitReached
<1>1. TypeOK'
  BY SizesAssumption DEF IInv, TypeOK, Built
<1>2. LoopsInv' /\ PointsMatchClusters'
  BY DEF IInv, LoopsInv, PointsMatchClusters, Built
<1>3. QED
  BY <1>1, <1>2 DEF IInv

\* Every step keeps the invariant.
LEMMA NextInv == IInv /\ [Next]_vars => IInv'
<1> SUFFICES ASSUME IInv, [Next]_vars
             PROVE  IInv'
  OBVIOUS
<1>1. CASE UNCHANGED vars
  BY <1>1 DEF vars, IInv, TypeOK, LoopsInv, PointsMatchClusters, Built
<1>2. CASE Next
  BY <1>2, SeedClusterInv, StartIterationInv, StayInClusterInv, MoveToNearestInv,
     EndAssignInv, RecalculateCenterInv, BreakInv, NextIterationInv DEF Next
<1>3. QED
  BY <1>1, <1>2

\* At every step the lists partition the points that have a cluster, in agreement with
\* id_cluster, and no loop leaves its bounds.
THEOREM Invariant == Spec => []IInv
BY InitInv, NextInv, PTL DEF Spec

-------------------------------------------------------------------------------
(* The mapping to Lloyd, which also needs to know where the first members  *)
(* and centers are while they are drawn.                                   *)

DrawnInv ==
  phase = "seed" =>
    /\ IsInjective(prohibited_indexes)
    /\ \A k \in Built :
         /\ central_values[k] = CenterAt(values[prohibited_indexes[k + 1]])
         /\ id_cluster[prohibited_indexes[k + 1]] = k

\* Lloyd's variables as L instantiates them.
stable ==
  IF phase = "assign"
  THEN done /\ \A p \in i .. TOTAL_POINTS - 1 : id_cluster[p] = AbstractAssignment[p]
  ELSE done

stage ==
  CASE phase = "assign"      -> "assigned"
    [] phase = "recalculate" -> "recentred"
    [] OTHER                 -> phase

\* The drawn centers are in place at the start.
LEMMA InitDrawn == Init => DrawnInv
<1> SUFFICES ASSUME Init
             PROVE  DrawnInv
  OBVIOUS
<1>1. Built = {} /\ IsInjective(prohibited_indexes)
  BY DEF Init, Built, IsInjective
<1>2. QED
  BY <1>1 DEF Init, DrawnInv

\* The draw of one more first member.
LEMMA SeedClusterDrawn ==
  ASSUME IInv, DrawnInv, NEW p \in Point, SeedCluster(p)
  PROVE  /\ DrawnInv'
         /\ IsInjective(prohibited_indexes') /\ prohibited_indexes' \in Seq(Point)
         /\ Len(prohibited_indexes') = Len(prohibited_indexes) + 1
         /\ Built' = 0 .. Len(prohibited_indexes)
         /\ \A k \in Built' :
              /\ central_values'[k] = CenterAt(values[prohibited_indexes'[k + 1]])
              /\ id_cluster'[prohibited_indexes'[k + 1]] = k
<1> DEFINE m == Len(prohibited_indexes)
<1>1. /\ m \in Nat /\ Built = 0 .. m - 1
      /\ prohibited_indexes \in Seq(Point)
      /\ DOMAIN prohibited_indexes = 1 .. m
  BY LenProperties DEF IInv, TypeOK, Built
<1>2. /\ phase = "seed"
      /\ p \notin Range(prohibited_indexes)
      /\ prohibited_indexes' = Append(prohibited_indexes, p)
      /\ values' = values
      /\ phase' \in {"seed", "top"}
  BY DEF SeedCluster, Taken
<1>3. /\ IsInjective(prohibited_indexes') /\ prohibited_indexes' \in Seq(Point)
      /\ Len(prohibited_indexes') = m + 1
      /\ prohibited_indexes'[m + 1] = p
      /\ \A j \in 1 .. m : prohibited_indexes'[j] = prohibited_indexes[j]
  BY <1>1, <1>2, AppendPoints, AppendProperties DEF DrawnInv
<1>4. Built' = 0 .. m
  BY <1>1, <1>3 DEF Built
<1>5. /\ central_values' =
           [j \in 0 .. m |-> IF j = m THEN CenterAt(values[p]) ELSE central_values[j]]
      /\ \A q \in Point : id_cluster'[q] = IF q = p THEN m ELSE id_cluster[q]
  BY DEF SeedCluster, IInv, TypeOK
<1>6. \A k \in 0 .. m - 1 :
        /\ prohibited_indexes[k + 1] \in Point /\ prohibited_indexes[k + 1] # p
        /\ central_values[k] = CenterAt(values[prohibited_indexes[k + 1]])
        /\ id_cluster[prohibited_indexes[k + 1]] = k
  <2>1. \A j \in 1 .. m : prohibited_indexes[j] \in Point /\ prohibited_indexes[j] # p
    BY <1>1, <1>2 DEF Range
  <2>2. QED
    BY <1>1, <1>2, <2>1 DEF DrawnInv
<1>7. ASSUME NEW k \in Built'
      PROVE  /\ central_values'[k] = CenterAt(values[prohibited_indexes'[k + 1]])
             /\ id_cluster'[prohibited_indexes'[k + 1]] = k
  <2> HIDE DEF m
  <2>1. m \in Nat /\ k \in 0 .. m
    BY <1>1, <1>4, <1>7
  <2>2. CASE k = m
    BY <1>3, <1>5, <2>1, <2>2
  <2>3. CASE k # m
    <3>1. k \in 0 .. m - 1 /\ k + 1 \in 1 .. m
      BY <2>1, <2>3
    <3>2. QED
      BY <1>3, <1>5, <1>6, <2>1, <2>3, <3>1
  <2>4. QED
    BY <2>2, <2>3
<1>8. DrawnInv'
  BY <1>2, <1>3, <1>7 DEF DrawnInv
<1>9. QED
  BY <1>3, <1>4, <1>7, <1>8

\* Every step keeps them in place.
LEMMA NextDrawn == IInv /\ DrawnInv /\ [Next]_vars => DrawnInv'
<1> SUFFICES ASSUME IInv, DrawnInv, [Next]_vars
             PROVE  DrawnInv'
  OBVIOUS
<1>1. ASSUME NEW p \in Point, SeedCluster(p)
      PROVE  DrawnInv'
  BY <1>1, SeedClusterDrawn
<1>2. CASE StartIteration \/ StayInCluster \/ MoveToNearest \/ EndAssign
             \/ RecalculateCenter \/ Break \/ NextIteration
  BY <1>2 DEF StartIteration, StayInCluster, MoveToNearest, EndAssign, RecalculateCenter,
              Break, NextIteration, DrawnInv
<1>3. CASE UNCHANGED vars
  BY <1>3 DEF vars, DrawnInv, Built
<1>4. QED
  BY <1>1, <1>2, <1>3 DEF Next

\* Lloyd and the program share their definitions.
LEMMA SharedDefinitions ==
  /\ L!Point = Point /\ L!Cluster = Cluster /\ L!NoCluster = NoCluster
  /\ L!FirstPhase = FirstPhase
  /\ \A c, v : L!getIDNearestCenter(c, v) = getIDNearestCenter(c, v)
  /\ \A v, s : L!ValuesOf(v, s) = ValuesOf(v, s)
  /\ \A S, T : L!Injection(S, T) = Injection(S, T)
  /\ \A S : L!Cardinality(S) = Cardinality(S)
<1>1. L!Point = Point /\ L!Cluster = Cluster /\ L!NoCluster = NoCluster
  BY DEF L!Point, Point, L!Cluster, Cluster, L!NoCluster, NoCluster
<1>2. L!FirstPhase = FirstPhase
  BY DEF L!FirstPhase, FirstPhase, L!TooManyClusters, TooManyClusters
<1>3. \A c, v : L!getIDNearestCenter(c, v) = getIDNearestCenter(c, v)
  BY <1>1 DEF L!getIDNearestCenter, getIDNearestCenter
<1>4. \A v, s : L!ValuesOf(v, s) = ValuesOf(v, s)
  BY DEF L!ValuesOf, ValuesOf
<1>5. \A S, T : L!Injection(S, T) = Injection(S, T)
  BY DEF L!Injection, Injection, L!IsInjective, IsInjective
<1>6. \A S : L!Cardinality(S) = Cardinality(S)
  BY DEF L!Cardinality, Cardinality
<1>7. QED
  BY <1>1, <1>2, <1>3, <1>4, <1>5, <1>6

\* A step that changes nothing that Lloyd sees.
LEMMA StutterMaps ==
  ASSUME UNCHANGED <<values, iter, AbstractAssignment, AbstractCenters, stable, stage>>
  PROVE  UNCHANGED L!vars
BY DEF L!vars, stable, stage

\* The initial states are those of the abstract specification.
LEMMA InitMaps == Init => L!Init
<1> SUFFICES ASSUME Init
             PROVE  L!Init
  OBVIOUS
<1>1. phase \in {"seed", "done"} /\ phase = FirstPhase
  BY DEF Init, FirstPhase
<1>2. AbstractAssignment = [p \in Point |-> NoCluster]
  BY <1>1 DEF Init, AbstractAssignment
<1>3. AbstractCenters = [k \in {} |-> k]
  <2>1. Built # Cluster
    BY ClusterBounds DEF Init, Built
  <2>2. QED
    BY <2>1 DEF AbstractCenters
<1>4. stable = TRUE /\ stage = phase
  BY <1>1 DEF Init, stable, stage
<1>5. QED
  BY <1>1, <1>2, <1>3, <1>4, SharedDefinitions DEF Init, L!Init, stable, stage

\* What makes a step Lloyd's Seed.
LEMMA SeedMaps ==
  ASSUME NEW s \in Injection(Cluster, Point),
         stage = "seed", stage' = "top",
         UNCHANGED <<values, stable, iter>>,
         AbstractCenters' = [k \in Cluster |-> CenterAt(values[s[k]])],
         AbstractAssignment' = [q \in Point |-> IF \E k \in Cluster : s[k] = q
                                        THEN CHOOSE k \in Cluster : s[k] = q
                                        ELSE NoCluster]
  PROVE  L!Seed
<1>1. s \in L!Injection(L!Cluster, L!Point)
  BY SharedDefinitions
<1>2. /\ AbstractCenters' = [k \in L!Cluster |-> CenterAt(values[s[k]])]
      /\ AbstractAssignment' = [q \in L!Point |-> IF \E k \in L!Cluster : s[k] = q
                                         THEN CHOOSE k \in L!Cluster : s[k] = q
                                         ELSE L!NoCluster]
  BY Zenon DEF L!Point, Point, L!Cluster, Cluster, L!NoCluster, NoCluster
<1>3. QED
  BY <1>1, <1>2, Zenon DEF L!Seed, stable, stage

\* The last draw is Lloyd's Seed; the others choose nothing that Lloyd sees.
LEMMA SeedClusterMaps ==
  ASSUME IInv, DrawnInv, NEW p \in Point, SeedCluster(p)
  PROVE  L!Seed \/ UNCHANGED L!vars
<1> DEFINE drawn == prohibited_indexes'
           seed == [k \in Cluster |-> drawn[k + 1]]
<1>1. /\ IsInjective(drawn) /\ drawn \in Seq(Point)
      /\ Len(drawn) = Len(prohibited_indexes) + 1
      /\ Built' = 0 .. Len(drawn) - 1
      /\ \A k \in Built' : /\ central_values'[k] = CenterAt(values[drawn[k + 1]])
                           /\ id_cluster'[drawn[k + 1]] = k
  <2>1. Len(prohibited_indexes) \in Nat
    BY DEF IInv, TypeOK
  <2>2. QED
    BY <2>1, SeedClusterDrawn
<1>2. /\ phase = "seed" /\ phase' = IF Len(drawn) = CLUSTERS THEN "top" ELSE "seed"
      /\ values' = values /\ iter' = iter /\ done' = done
  BY <1>1 DEF SeedCluster
<1>3. Len(prohibited_indexes) \in Nat /\ Len(prohibited_indexes) < CLUSTERS
  BY <1>2 DEF IInv, TypeOK, LoopsInv
<1>4. /\ AbstractCenters = [k \in {} |-> k]
      /\ stable = done /\ stage = "seed"
      /\ AbstractAssignment = [q \in Point |-> NoCluster]
  <2>1. Built # Cluster
    BY <1>3, ClusterBounds DEF Built, Cluster
  <2>2. QED
    BY <1>2, <2>1 DEF AbstractCenters, stable, stage, AbstractAssignment
<1>5. stable' = done' /\ stage' = phase'
  BY <1>2 DEF stable, stage
<1>6. CASE Len(drawn) # CLUSTERS
  <2>1. Built' # Cluster
    BY <1>1, <1>3, <1>6, ClusterBounds DEF Cluster
  <2>2. AbstractCenters' = [k \in {} |-> k]
    BY <2>1 DEF AbstractCenters
  <2>3. AbstractAssignment' = [q \in Point |-> NoCluster]
    BY <1>2, <1>6 DEF AbstractAssignment
  <2>4. QED
    BY <1>2, <1>4, <1>5, <1>6, <2>2, <2>3, StutterMaps
<1>7. CASE Len(drawn) = CLUSTERS
  <2>1. Built' = Cluster
    BY <1>1, <1>7 DEF Cluster
  <2>2. phase' = "top"
    BY <1>2, <1>7
  <2>3. /\ DOMAIN drawn = 1 .. CLUSTERS
        /\ \A k \in Cluster : k + 1 \in 1 .. CLUSTERS /\ drawn[k + 1] \in Point
    BY <1>1, <1>7, ClusterBounds, LenProperties DEF Cluster
  <2>4. seed \in Injection(Cluster, Point)
    <3>1. seed \in [Cluster -> Point]
      BY <2>3
    <3>2. ASSUME NEW a \in Cluster, NEW b \in Cluster, seed[a] = seed[b]
          PROVE  a = b
      <4>1. a + 1 = b + 1
        BY <1>1, <2>3, <3>2 DEF IsInjective
      <4>2. QED
        BY <4>1, ClusterBounds
    <3>3. QED
      BY <3>1, <3>2 DEF Injection, IsInjective
  <2>5. AbstractCenters' = [k \in Cluster |-> CenterAt(values[seed[k]])]
    <3>1. AbstractCenters' = [k \in Cluster |-> central_values'[k]]
      BY <2>1, <2>2 DEF AbstractCenters
    <3>2. \A k \in Cluster : central_values'[k] = CenterAt(values[seed[k]])
      BY <1>1, <2>1
    <3>3. QED
      BY <3>1, <3>2
  <2>6. AbstractAssignment' = [q \in Point |->
                         IF \E k \in Cluster : seed[k] = q
                         THEN CHOOSE k \in Cluster : seed[k] = q
                         ELSE NoCluster]
    <3>1. AbstractAssignment' = [q \in Point |-> id_cluster'[q]]
      BY <2>2 DEF AbstractAssignment
    <3>2. \A k \in Cluster : id_cluster'[seed[k]] = k
      BY <1>1, <2>1
    <3>3. ASSUME NEW q \in Point
          PROVE  id_cluster'[q] = IF \E k \in Cluster : seed[k] = q
                                  THEN CHOOSE k \in Cluster : seed[k] = q
                                  ELSE NoCluster
      <4>1. CASE \E k \in Cluster : seed[k] = q
        BY <3>2, <4>1
      <4>2. CASE ~ \E k \in Cluster : seed[k] = q
        <5>1. q \notin Range(drawn)
          <6>1. ASSUME NEW j \in 1 .. CLUSTERS, drawn[j] = q
                PROVE  FALSE
            <7>1. j - 1 \in Cluster /\ (j - 1) + 1 = j
              BY ClusterBounds DEF Cluster
            <7>2. seed[j - 1] = q
              BY <6>1, <7>1
            <7>3. QED
              BY <4>2, <7>1, <7>2
          <6>2. QED
            BY <2>3, <6>1 DEF Range
        <5>2. Range(drawn) = Range(prohibited_indexes) \cup {p}
          BY AppendPoints DEF SeedCluster, IInv, TypeOK
        <5>3. q # p /\ id_cluster[q] = NoCluster
          BY <1>2, <5>1, <5>2 DEF IInv, LoopsInv
        <5>4. id_cluster'[q] = id_cluster[q]
          BY <5>3 DEF SeedCluster, IInv, TypeOK
        <5>5. QED
          BY <4>2, <5>3, <5>4
      <4>3. QED
        BY <4>1, <4>2
    <3> HIDE DEF seed
    <3>4. QED
      BY <3>1, <3>3
  <2> HIDE DEF seed
  <2>7. UNCHANGED <<values, stable, iter>>
    BY <1>2, <1>4, <1>5
  <2>8. QED
    BY <1>4, <1>5, <2>2, <2>4, <2>5, <2>6, <2>7, SeedMaps
<1>8. QED
  BY <1>6, <1>7

\* During the loop over the points the centers are what the program has stored.
LEMMA AssignCenters ==
  ASSUME IInv, phase \in {"top", "assign"}
  PROVE  AbstractCenters = central_values
<1>1. Built = Cluster
  BY Bounds
<1>2. central_values \in [Cluster -> Center]
  BY <1>1 DEF IInv, TypeOK
<1>3. QED
  BY <1>1, <1>2 DEF AbstractCenters

\* The loop over the points starts: from here it is known where they will end.
LEMMA StartIterationMaps == ASSUME IInv, StartIteration PROVE L!Assign
<1> DEFINE near == [p \in Point |-> getIDNearestCenter(central_values, values[p])]
<1>1. /\ phase = "top" /\ phase' = "assign" /\ done' = TRUE /\ i' = 0
      /\ UNCHANGED <<values, id_cluster, prohibited_indexes, central_values, iter>>
  BY DEF StartIteration
<1>2. AbstractCenters = central_values /\ AbstractCenters' = central_values
  <2>1. AbstractCenters = central_values
    BY <1>1, AssignCenters
  <2>2. AbstractCenters' = AbstractCenters
    BY <1>1 DEF AbstractCenters, Built
  <2>3. QED
    BY <2>1, <2>2
<1>3. AbstractAssignment = id_cluster
  BY <1>1 DEF IInv, TypeOK, AbstractAssignment
<1>4. AbstractAssignment' = near
  BY <1>1, SizesAssumption DEF AbstractAssignment, Point
<1>5. stable' = (near = id_cluster)
  <2>1. stable' <=> \A p \in Point : id_cluster[p] = near[p]
    <3> HIDE DEF near
    <3>1. i' .. TOTAL_POINTS - 1 = Point
      BY <1>1 DEF Point
    <3>2. QED
      BY <1>1, <1>4, <3>1 DEF stable
  <2>2. near = id_cluster <=> \A p \in Point : id_cluster[p] = near[p]
    <3>1. id_cluster \in [Point -> Cluster \cup {NoCluster}]
      BY DEF IInv, TypeOK
    <3>2. QED
      BY <3>1
  <2>3. stable' \in BOOLEAN
    BY <1>1 DEF stable
  <2>4. QED
    BY <2>1, <2>2, <2>3
<1>6. stage = "top" /\ stage' = "assigned"
  BY <1>1 DEF stage
<1>7. near = [p \in L!Point |-> L!getIDNearestCenter(AbstractCenters, values[p])]
  BY <1>2, SharedDefinitions
<1> HIDE DEF near
<1>8. QED
  BY <1>1, <1>2, <1>3, <1>4, <1>5, <1>6, <1>7 DEF L!Assign, stable, stage

\* A turn of that loop is invisible: it does to point i what is known already.
LEMMA PointTurnMaps ==
  ASSUME IInv, StayInCluster \/ MoveToNearest
  PROVE  UNCHANGED L!vars
<1> DEFINE near(q) == getIDNearestCenter(central_values, values[q])
<1>1. /\ phase = "assign" /\ phase' = "assign" /\ i \in Point /\ i' = i + 1
      /\ UNCHANGED <<values, prohibited_indexes, central_values, iter>>
      /\ id_cluster'[i] = near(i)
      /\ \A q \in Point \ {i} : id_cluster'[q] = id_cluster[q]
      /\ done \in BOOLEAN /\ done' \in BOOLEAN
  BY DEF StayInCluster, MoveToNearest, IInv, TypeOK
<1>2. AbstractCenters' = AbstractCenters /\ stage' = stage
  BY <1>1 DEF AbstractCenters, Built, stage
<1>3. i \in Int /\ TOTAL_POINTS \in Int /\ \A q \in Point : q \in Int
  BY <1>1, SizesAssumption DEF Point
<1>4. /\ AbstractAssignment = [q \in Point |-> IF q >= i THEN near(q) ELSE id_cluster[q]]
      /\ AbstractAssignment' = [q \in Point |-> IF q >= i + 1 THEN near(q) ELSE id_cluster'[q]]
  BY <1>1 DEF AbstractAssignment
<1>5. AbstractAssignment' = AbstractAssignment
  <2> HIDE DEF near
  <2>1. \A q \in Point : (IF q >= i + 1 THEN near(q) ELSE id_cluster'[q])
                           = (IF q >= i THEN near(q) ELSE id_cluster[q])
    <3>1. \A q \in Point : IF q >= i THEN q = i \/ q >= i + 1 ELSE ~ q >= i + 1 /\ q # i
      BY <1>3
    <3>2. QED
      BY <1>1, <1>3, <3>1
  <2>2. QED
    BY <1>4, <2>1
<1>6. stable \in BOOLEAN /\ stable' \in BOOLEAN
  BY <1>1 DEF stable
<1>7. i .. TOTAL_POINTS - 1 = {i} \cup (i + 1 .. TOTAL_POINTS - 1)
      /\ i + 1 .. TOTAL_POINTS - 1 \subseteq Point \ {i}
  BY <1>1, <1>3 DEF Point
<1>8. AbstractAssignment[i] = near(i)
  BY <1>1, <1>3, <1>4
<1>9. stable' <=> stable
  <2> HIDE DEF near
  <2>1. CASE StayInCluster
    <3>1. done' = done /\ id_cluster' = id_cluster /\ id_cluster[i] = near(i)
      BY <2>1 DEF StayInCluster, near
    <3>2. QED
      BY <1>1, <1>5, <1>7, <1>8, <3>1 DEF stable
  <2>2. CASE MoveToNearest
    <3>1. done' = FALSE /\ id_cluster[i] # near(i)
      BY <2>2 DEF MoveToNearest, near
    <3>2. ~ stable'
      BY <1>1, <3>1 DEF stable
    <3>3. ~ stable
      BY <1>1, <1>7, <1>8, <3>1 DEF stable
    <3>4. QED
      BY <3>2, <3>3
  <2>3. QED
    BY <2>1, <2>2
<1>10. QED
  BY <1>1, <1>2, <1>5, <1>6, <1>9, StutterMaps

\* Every list is an enumeration of the members Lloyd sees, so the mean of it is one of
\* those that Lloyd allows.
LEMMA MeanOfListIsNext ==
  ASSUME IInv, Built = Cluster, NEW k \in Cluster,
         \A p \in Point : AbstractAssignment[p] = id_cluster[p],
         AbstractCenters = central_values
  PROVE  (IF Len(cluster_points[k]) > 0
          THEN MeanOf(ValuesOf(values, cluster_points[k]))
          ELSE central_values[k]) \in L!NextCenters(k)
<1> DEFINE s == cluster_points[k]
<1>1. k \in Built /\ s \in Seq(Point) /\ IsInjective(s)
  BY DEF IInv, TypeOK, PointsMatchClusters
<1>2. L!Members(k) = Range(s)
  <2>1. L!Members(k) = {p \in Point : AbstractAssignment[p] = k}
    BY SharedDefinitions DEF L!Members
  <2>2. Range(s) = {p \in Point : id_cluster[p] = k}
    BY <1>1 DEF IInv, PointsMatchClusters
  <2>3. QED
    BY <2>1, <2>2
<1>3. CASE Len(s) > 0
  <2>1. Range(s) # {}
    <3> HIDE DEF s
    <3>1. Len(s) \in Nat /\ DOMAIN s = 1 .. Len(s)
      BY <1>1, LenProperties
    <3>2. 1 \in DOMAIN s
      BY <1>3, <3>1
    <3>3. s[1] \in Range(s)
      BY <3>2 DEF Range
    <3>4. QED
      BY <3>3
  <2>2. s \in Injection(1 .. Cardinality(Range(s)), Range(s))
    BY <1>1, InjectiveListEnumerates
  <2>3. s \in L!Enumerations(L!Members(k))
    BY <1>2, <2>2, SharedDefinitions DEF L!Enumerations
  <2>4. MeanOf(ValuesOf(values, s)) \in
          {MeanOf(L!ValuesOf(values, t)) : t \in L!Enumerations(L!Members(k))}
    BY <2>3, SharedDefinitions
  <2>5. QED
    BY <1>2, <1>3, <2>1, <2>4 DEF L!NextCenters
<1>4. CASE ~ Len(s) > 0
  <2>1. Range(s) = {}
    BY <1>1, <1>4, LenProperties DEF Range
  <2>2. QED
    BY <1>2, <1>4, <2>1 DEF L!NextCenters
<1>5. QED
  BY <1>3, <1>4

\* So it is when the loop over the points has ended.
LEMMA MeanIsNext ==
  ASSUME IInv, NEW k \in Cluster, phase = "assign", i = TOTAL_POINTS
  PROVE  (IF Len(cluster_points[k]) > 0
          THEN MeanOf(ValuesOf(values, cluster_points[k]))
          ELSE central_values[k]) \in L!NextCenters(k)
<1>1. \A p \in Point : AbstractAssignment[p] = id_cluster[p]
  BY SizesAssumption DEF AbstractAssignment, Point
<1>2. Built = Cluster /\ AbstractCenters = central_values
  BY Bounds, AssignCenters
<1>3. QED
  BY <1>1, <1>2, MeanOfListIsNext

\* The end of the loop over the points is where Lloyd moves all centers.
LEMMA EndAssignMaps == ASSUME IInv, EndAssign PROVE L!Recenter
<1> DEFINE mean == [k \in Cluster |->
                      IF Len(cluster_points[k]) > 0
                      THEN MeanOf(ValuesOf(values, cluster_points[k]))
                      ELSE central_values[k]]
<1>1. /\ phase = "assign" /\ phase' = "recalculate" /\ i = TOTAL_POINTS /\ i' = 0
      /\ UNCHANGED <<values, id_cluster, prohibited_indexes, central_values,
                     cluster_points, iter, done>>
  BY DEF EndAssign
<1>2. stage = "assigned" /\ stage' = "recentred"
  BY <1>1 DEF stage
<1>3. AbstractAssignment' = AbstractAssignment
  <2>1. \A p \in Point : ~ p >= i
    BY <1>1, SizesAssumption DEF Point
  <2>2. QED
    BY <1>1, <2>1 DEF AbstractAssignment
<1>4. stable' = stable
  <2>1. i .. TOTAL_POINTS - 1 = {}
    BY <1>1, SizesAssumption
  <2>2. stable <=> done
    BY <1>1, <2>1 DEF stable
  <2>3. stable \in BOOLEAN /\ done \in BOOLEAN /\ stable' = done
    BY <1>1 DEF stable, IInv, TypeOK
  <2>4. QED
    BY <2>2, <2>3
<1>5. AbstractCenters' = mean
  <2>1. Built = Cluster
    BY <1>1, Bounds
  <2>2. \A k \in Cluster : k >= i'
    BY <1>1, ClusterBounds DEF Cluster
  <2>3. QED
    BY <1>1, <2>1, <2>2 DEF AbstractCenters, Built, ValuesOf
<1>6. \A k \in Cluster : mean[k] \in L!NextCenters(k)
  BY <1>1, MeanIsNext
<1>7. mean \in [L!Cluster -> UNION {L!NextCenters(k) : k \in L!Cluster}]
  BY <1>6, SharedDefinitions
<1> HIDE DEF mean
<1>8. QED
  BY <1>1, <1>2, <1>3, <1>4, <1>5, <1>6, <1>7, SharedDefinitions DEF L!Recenter, stable, stage

\* A turn of the loop over the clusters brings a center where Lloyd has put it already.
LEMMA ClusterTurnMaps == ASSUME IInv, RecalculateCenter PROVE UNCHANGED L!vars
<1>1. /\ phase = "recalculate" /\ phase' = "recalculate" /\ i \in Cluster /\ i' = i + 1
      /\ UNCHANGED <<values, id_cluster, prohibited_indexes, cluster_points, iter, done>>
      /\ central_values' = IF Len(cluster_points[i]) > 0
                           THEN [central_values EXCEPT
                                   ![i] = MeanOf(ValuesOf(values, cluster_points[i]))]
                           ELSE central_values
  BY DEF RecalculateCenter
<1>2. Built = Cluster /\ Built' = Cluster
  BY <1>1, Bounds DEF Built
<1>3. central_values \in [Cluster -> Center]
  BY <1>2 DEF IInv, TypeOK
<1>4. \A k \in Cluster :
        central_values'[k] = IF k = i /\ Len(cluster_points[k]) > 0
                             THEN MeanOf(ValuesOf(values, cluster_points[k]))
                             ELSE central_values[k]
  BY <1>1, <1>3
<1>5. AbstractCenters' = AbstractCenters
  <2> DEFINE at(c, b, k) == IF k >= b /\ Len(cluster_points[k]) > 0
                            THEN MeanOf(ValuesOf(values, cluster_points[k]))
                            ELSE c[k]
  <2>1. \A k \in Cluster : k >= i <=> k = i \/ k >= i + 1
    BY <1>1 DEF Cluster
  <2>2. \A k \in Cluster : at(central_values', i + 1, k) = at(central_values, i, k)
    BY <1>1, <1>4, <2>1
  <2>3. /\ AbstractCenters = [k \in Cluster |-> at(central_values, i, k)]
        /\ AbstractCenters' = [k \in Cluster |-> at(central_values', i + 1, k)]
    BY <1>1, <1>2 DEF AbstractCenters, ValuesOf
  <2> HIDE DEF at
  <2>4. QED
    BY <2>2, <2>3
<1>6. /\ AbstractAssignment' = AbstractAssignment /\ stable' = stable /\ stage' = stage
  BY <1>1 DEF AbstractAssignment, stable, stage
<1>7. QED
  BY <1>1, <1>5, <1>6, StutterMaps

\* When the loop over the clusters has ended all centers are where Lloyd has put them.
LEMMA LoopsEnd ==
  ASSUME IInv, phase = "recalculate", i = CLUSTERS, phase' \in {"top", "done"},
         UNCHANGED <<values, id_cluster, prohibited_indexes, central_values,
                     cluster_points, done>>
  PROVE  /\ AbstractCenters' = AbstractCenters
         /\ stable = done /\ stable' = stable
         /\ AbstractAssignment' = AbstractAssignment
         /\ stage = "recentred" /\ stage' = phase'
<1>1. Built = Cluster /\ Built' = Built
  BY Bounds DEF Built
<1>2. \A k \in Cluster : ~ k >= i
  BY ClusterBounds DEF Cluster
<1>3. AbstractCenters' = AbstractCenters
  BY <1>1, <1>2 DEF AbstractCenters
<1>4. /\ stable = done /\ stable' = stable /\ stage = "recentred" /\ stage' = phase'
      /\ AbstractAssignment' = AbstractAssignment
  BY DEF AbstractAssignment, stable, stage
<1>5. QED
  BY <1>3, <1>4

\* Stopping is Lloyd's Stop,
LEMMA BreakMaps == ASSUME IInv, Break PROVE L!Stop
<1>1. /\ phase = "recalculate" /\ phase' = "done" /\ i = CLUSTERS
      /\ done \/ LimitReached
      /\ UNCHANGED <<values, id_cluster, prohibited_indexes, central_values,
                     cluster_points, iter, done>>
  BY DEF Break
<1>2. /\ AbstractCenters' = AbstractCenters
      /\ stable = done /\ stable' = stable
      /\ AbstractAssignment' = AbstractAssignment
      /\ stage = "recentred" /\ stage' = "done"
  BY <1>1, LoopsEnd
<1>3. QED
  BY <1>1, <1>2 DEF L!Stop, L!LimitReached, LimitReached, stable, stage

\* and going on is Lloyd's Repeat.
LEMMA NextIterationMaps == ASSUME IInv, NextIteration PROVE L!Repeat
<1>1. /\ phase = "recalculate" /\ phase' = "top" /\ i = CLUSTERS
      /\ ~ done /\ ~ LimitReached /\ iter' = iter + 1
      /\ UNCHANGED <<values, id_cluster, prohibited_indexes, central_values,
                     cluster_points, done>>
  BY DEF NextIteration
<1>2. /\ AbstractCenters' = AbstractCenters
      /\ stable = done /\ stable' = stable
      /\ AbstractAssignment' = AbstractAssignment
      /\ stage = "recentred" /\ stage' = "top"
  BY <1>1, LoopsEnd
<1>3. QED
  BY <1>1, <1>2 DEF L!Repeat, L!LimitReached, LimitReached, stable, stage

\* Every step is a step of the abstract specification or invisible to it.
LEMMA NextMaps == IInv /\ DrawnInv /\ [Next]_vars => [L!Next]_(L!vars)
<1> SUFFICES ASSUME IInv, DrawnInv, [Next]_vars
             PROVE  L!Next \/ UNCHANGED L!vars
  OBVIOUS
<1>1. CASE Next
  BY <1>1, SeedClusterMaps, StartIterationMaps, PointTurnMaps, EndAssignMaps,
     ClusterTurnMaps, BreakMaps, NextIterationMaps DEF Next, L!Next
<1>2. CASE UNCHANGED vars
  BY <1>2, StutterMaps DEF vars, AbstractAssignment, AbstractCenters, stable, stage, Built,
                           ValuesOf
<1>3. QED
  BY <1>1, <1>2

\* What the mapping needs to know of the first centers holds while they are drawn.
THEOREM FirstCentersAreDrawn == Spec => []DrawnInv
BY InitInv, InitDrawn, NextInv, NextDrawn, PTL DEF Spec

\* The serial program computes what Lloyd's iteration computes: it starts as Lloyd does,
\* and every turn of its loops is a whole step of Lloyd or is invisible to it.
THEOREM SerialImplementsLloyd == Spec => L!Init /\ [][L!Next]_(L!vars)
BY Invariant, FirstCentersAreDrawn, InitMaps, NextMaps, PTL DEF Spec

-------------------------------------------------------------------------------
(* Where the iteration stops when nothing moves.                           *)

\* While nothing has moved since the centers were found, every center with points is
\* the mean of their list; so is each that is recalculated.
MeansInv ==
  \A k \in Built :
    /\ Len(cluster_points[k]) > 0
    /\ phase \in {"seed", "top"} \/ done \/ (phase = "recalculate" /\ k < i)
    => central_values[k] = MeanOf(ValuesOf(values, cluster_points[k]))

\* While nothing has moved, the points the loop has seen are where they belong.
NearestInv ==
  /\ phase = "assign" /\ done =>
       \A p \in Point : p < i =>
         id_cluster[p] = getIDNearestCenter(central_values, values[p])
  /\ phase \in {"recalculate", "done"} /\ done /\ ~ TooManyClusters =>
       /\ Built = Cluster
       /\ \A p \in Point : id_cluster[p] = getIDNearestCenter(central_values, values[p])

StableInv == MeansInv /\ NearestInv

\* What the serial run relies on to stop holds at the start.
LEMMA InitStable == Init => StableInv
BY DEF Init, FirstPhase, Built, StableInv, MeansInv, NearestInv

\* Every step keeps it, when the mean of one point is the point.
LEMMA NextStable ==
  ASSUME MeanOfOne, IInv, IInv', StableInv, [Next]_vars
  PROVE  StableInv'
<1>1. ASSUME NEW p \in Point, SeedCluster(p)
      PROVE  StableInv'
  <2> DEFINE m == Len(prohibited_indexes)
  <2>1. /\ phase = "seed" /\ phase' \in {"seed", "top"}
        /\ values' = values
        /\ central_values' =
             [j \in 0 .. m |-> IF j = m THEN CenterAt(values[p]) ELSE central_values[j]]
        /\ cluster_points' = [j \in 0 .. m |-> IF j = m THEN <<p>> ELSE cluster_points[j]]
        /\ prohibited_indexes' = Append(prohibited_indexes, p)
    BY <1>1 DEF SeedCluster
  <2>2. /\ prohibited_indexes \in Seq(Point) /\ m \in Nat
        /\ values \in [Point -> Value]
    BY DEF IInv, TypeOK
  <2>3. Len(prohibited_indexes') = m + 1
    BY <2>1, <2>2
  <2>4. Built' = 0 .. m /\ Built = 0 .. m - 1
    BY <2>2, <2>3 DEF Built
  <2>5. ASSUME NEW k \in Built', Len(cluster_points'[k]) > 0
        PROVE  central_values'[k] = MeanOf(ValuesOf(values', cluster_points'[k]))
    <3>1. CASE k = m
      <4>1. ValuesOf(values, <<p>>) = <<values[p]>>
        BY DEF ValuesOf
      <4>2. MeanOf(<<values[p]>>) = CenterAt(values[p])
        BY <2>2 DEF MeanOfOne
      <4>3. cluster_points'[k] = <<p>> /\ central_values'[k] = CenterAt(values[p])
        BY <2>1, <2>4, <3>1
      <4>4. QED
        BY <2>1, <4>1, <4>2, <4>3
    <3>2. CASE k # m
      <4>1. /\ k \in Built
            /\ cluster_points'[k] = cluster_points[k]
            /\ central_values'[k] = central_values[k]
        BY <2>1, <2>2, <2>4, <3>2
      <4>2. QED
        BY <2>1, <2>5, <4>1 DEF StableInv, MeansInv
    <3>3. QED
      BY <3>1, <3>2
  <2>6. QED
    BY <2>1, <2>5 DEF StableInv, MeansInv, NearestInv
<1>2. CASE StartIteration
  <2>1. \A p \in Point : ~ p < i'
    BY <1>2 DEF StartIteration, Point
  <2>2. QED
    BY <1>2, <2>1 DEF StartIteration, StableInv, MeansInv, NearestInv, Built
<1>3. CASE StayInCluster
  <2>1. \A p \in Point : p < i' => p < i \/ p = i
    BY <1>3 DEF StayInCluster, Point
  <2>2. QED
    BY <1>3, <2>1 DEF StayInCluster, StableInv, MeansInv, NearestInv, Built
<1>4. CASE MoveToNearest
  BY <1>4 DEF MoveToNearest, StableInv, MeansInv, NearestInv
<1>5. CASE EndAssign
  <2>1. \A p \in Point : p < i
    BY <1>5, SizesAssumption DEF EndAssign, Point
  <2>2. \A k \in Built : ~ k < i'
    BY <1>5 DEF EndAssign, Built
  <2>3. Built = Cluster
    BY <1>5, Bounds DEF EndAssign
  <2>4. UNCHANGED <<Built, done, values, id_cluster, central_values, cluster_points>>
    BY <1>5 DEF EndAssign, Built
  <2>5. phase = "assign" /\ phase' = "recalculate"
    BY <1>5 DEF EndAssign
  <2>6. MeansInv'
    BY <2>2, <2>4, <2>5 DEF StableInv, MeansInv
  <2>7. NearestInv'
    BY <2>1, <2>3, <2>4, <2>5 DEF StableInv, NearestInv
  <2>8. QED
    BY <2>6, <2>7 DEF StableInv
<1>6. CASE RecalculateCenter
  <2>1. /\ phase = "recalculate" /\ phase' = "recalculate" /\ i \in Cluster /\ i' = i + 1
        /\ UNCHANGED <<values, id_cluster, cluster_points, done>>
        /\ central_values' = IF Len(cluster_points[i]) > 0
                             THEN [central_values EXCEPT
                                     ![i] = MeanOf(ValuesOf(values, cluster_points[i]))]
                             ELSE central_values
    BY <1>6 DEF RecalculateCenter
  <2>2. Built = Cluster /\ Built' = Built
    BY <1>6, <2>1, Bounds DEF Built, RecalculateCenter
  <2>3. central_values \in [Cluster -> Center]
    BY <2>2 DEF IInv, TypeOK
  <2>4. MeansInv'
    <3>1. ASSUME NEW k \in Cluster, Len(cluster_points[k]) > 0, done \/ k < i + 1
          PROVE  central_values'[k] = MeanOf(ValuesOf(values, cluster_points[k]))
      <4>1. CASE k = i
        BY <2>1, <2>3, <3>1, <4>1
      <4>2. CASE k # i
        <5>1. central_values'[k] = central_values[k] /\ (done \/ k < i)
          BY <2>1, <2>3, <3>1, <4>2 DEF Cluster
        <5>2. QED
          BY <2>1, <2>2, <3>1, <5>1 DEF StableInv, MeansInv
      <4>3. QED
        BY <4>1, <4>2
    <3>2. QED
      BY <2>1, <2>2, <3>1 DEF MeansInv
  <2>5. NearestInv'
    <3> SUFFICES ASSUME done, ~ TooManyClusters
                 PROVE  NearestInv'
      BY <2>1 DEF NearestInv, TooManyClusters
    <3>1. central_values' = central_values
      <4>1. Len(cluster_points[i]) > 0 =>
              central_values[i] = MeanOf(ValuesOf(values, cluster_points[i]))
        BY <2>1, <2>2 DEF StableInv, MeansInv
      <4>2. QED
        BY <2>1, <2>3, <4>1
    <3>2. QED
      BY <2>1, <2>2, <3>1 DEF StableInv, NearestInv
  <2>6. QED
    BY <2>4, <2>5 DEF StableInv
<1>7. CASE Break
  <2>1. UNCHANGED <<Built, done, values, id_cluster, central_values, cluster_points>>
    BY <1>7 DEF Break, Built
  <2>2. phase = "recalculate" /\ phase' = "done"
    BY <1>7 DEF Break
  <2>3. QED
    BY <2>1, <2>2 DEF StableInv, MeansInv, NearestInv
<1>8. CASE NextIteration
  <2>1. UNCHANGED <<Built, done, values, id_cluster, central_values, cluster_points>>
    BY <1>8 DEF NextIteration, Built
  <2>2. phase = "recalculate" /\ phase' = "top" /\ i = CLUSTERS
    BY <1>8 DEF NextIteration
  <2>3. \A k \in Built : k < i
    BY <2>2, Bounds DEF Cluster
  <2>4. QED
    BY <2>1, <2>2, <2>3 DEF StableInv, MeansInv, NearestInv
<1>9. CASE UNCHANGED vars
  BY <1>9 DEF vars, StableInv, MeansInv, NearestInv, Built
<1>10. QED
  BY <1>1, <1>2, <1>3, <1>4, <1>5, <1>6, <1>7, <1>8, <1>9 DEF Next

\* A run that stops because nothing has moved stops at a fixed point: one more pass over
\* the points, or over the clusters, would change nothing.
THEOREM StopsWhenSettled ==
  ASSUME MeanOfOne
  PROVE  Spec => [](phase = "done" /\ done /\ ~ TooManyClusters => FixedPoint)
<1>1. IInv /\ StableInv =>
        (phase = "done" /\ done /\ ~ TooManyClusters => FixedPoint)
  <2> SUFFICES ASSUME IInv, StableInv, phase = "done", done, ~ TooManyClusters
               PROVE  FixedPoint
    OBVIOUS
  <2>1. /\ Built = Cluster
        /\ \A p \in Point : id_cluster[p] = getIDNearestCenter(central_values, values[p])
    BY DEF StableInv, NearestInv
  <2>2. central_values \in [Cluster -> Center] /\ values \in [Point -> Value]
    BY <2>1 DEF IInv, TypeOK
  <2>3. \A p \in Point : IsFirstNearest(id_cluster[p], central_values, values[p])
    BY <2>1, <2>2, NearestIsFirstNearest
  <2>4. ASSUME NEW k \in Cluster
        PROVE  central_values[k] \in L!NextCenters(k)
    <3>1. \A p \in Point : AbstractAssignment[p] = id_cluster[p]
      BY DEF AbstractAssignment
    <3>2. AbstractCenters = central_values
      BY <2>1, <2>2 DEF AbstractCenters
    <3>3. Len(cluster_points[k]) > 0 =>
            central_values[k] = MeanOf(ValuesOf(values, cluster_points[k]))
      BY <2>1 DEF StableInv, MeansInv
    <3>4. QED
      BY <2>1, <3>1, <3>2, <3>3, MeanOfListIsNext
  <2>5. QED
    BY <2>3, <2>4 DEF FixedPoint
<1>2. IInv /\ StableInv /\ [Next]_vars => (IInv /\ StableInv)'
  BY NextInv, NextStable
<1>3. Spec => [](IInv /\ StableInv)
  BY <1>2, InitInv, InitStable, PTL DEF Spec
<1>4. QED
  BY <1>1, <1>3, PTL

-------------------------------------------------------------------------------
(* The cost of a clustering never rises.                                   *)

\* There are finitely many points.
LEMMA PointsAreFinite == IsFiniteSet(Point)
BY SizesAssumption, FS_Interval DEF Point

\* The terms of the cost.
Distances(v, c, a) == [p \in Point |-> DistSq(c[a[p]], v[p])]

\* The cost is their sum, a natural number.
LEMMA CostIsNatural ==
  ASSUME NEW v \in [Point -> Value], NEW c \in [Cluster -> Center],
         NEW a \in [Point -> Cluster]
  PROVE  /\ CostOf(v, c, a) = SumFunctionOnSet(Distances(v, c, a), Point)
         /\ \A p \in Point : Distances(v, c, a)[p] = DistSq(c[a[p]], v[p])
         /\ \A p \in Point : Distances(v, c, a)[p] \in Nat
         /\ CostOf(v, c, a) \in Nat
<1>1. \A p \in Point : Distances(v, c, a)[p] = DistSq(c[a[p]], v[p])
  BY DEF Distances
<1>2. \A p \in Point : Distances(v, c, a)[p] \in Nat
  BY <1>1, ArithmeticAssumption
<1>3. CostOf(v, c, a) = SumFunctionOnSet(Distances(v, c, a), Point)
  BY DEF CostOf, SumFunction, Distances
<1>4. QED
  BY <1>1, <1>2, <1>3, PointsAreFinite, SumIsNatural

\* Moving every point to its nearest center does not raise the cost.
LEMMA AssignLowersCost ==
  ASSUME NEW v \in [Point -> Value], NEW c \in [Cluster -> Center],
         NEW a \in [Point -> Cluster],
         NEW b, b = [p \in Point |-> getIDNearestCenter(c, v[p])]
  PROVE  b \in [Point -> Cluster] /\ CostOf(v, c, b) <= CostOf(v, c, a)
<1>1. \A p \in Point : b[p] \in Cluster /\ IsFirstNearest(b[p], c, v[p])
  BY NearestIsFirstNearest
<1>2. b \in [Point -> Cluster]
  BY <1>1
<1>3. \A p \in Point : /\ Distances(v, c, b)[p] \in Int /\ Distances(v, c, a)[p] \in Int
                       /\ Distances(v, c, b)[p] <= Distances(v, c, a)[p]
  <2>1. \A p \in Point : /\ Distances(v, c, b)[p] = DistSq(c[b[p]], v[p])
                         /\ Distances(v, c, a)[p] = DistSq(c[a[p]], v[p])
                         /\ Distances(v, c, b)[p] \in Nat /\ Distances(v, c, a)[p] \in Nat
    BY <1>2, CostIsNatural
  <2>2. QED
    BY <1>1, <2>1 DEF IsFirstNearest
<1>4. CostOf(v, c, b) <= CostOf(v, c, a)
  BY <1>2, <1>3, CostIsNatural, PointsAreFinite, SumIsMonotonic
<1>5. QED
  BY <1>2, <1>4

\* The mean of the points of a cluster, listed in any order, is no farther from them, all
\* of them together, than any other center.
LEMMA MeanOfSetIsCentral ==
  ASSUME MeanIsCentral(Value), NEW v \in [Point -> Value],
         NEW S \in SUBSET Point, S # {},
         NEW s \in Injection(1 .. Cardinality(S), S), NEW d \in Center
  PROVE  /\ MeanOf(ValuesOf(v, s)) \in Center
         /\ SumFunctionOnSet([p \in S |-> DistSq(MeanOf(ValuesOf(v, s)), v[p])], S)
              <= SumFunctionOnSet([p \in S |-> DistSq(d, v[p])], S)
<1> DEFINE n == Cardinality(S)
           t == ValuesOf(v, s)
           m == MeanOf(t)
<1>1. IsFiniteSet(S) /\ n \in 1 .. TOTAL_POINTS
  <2>1. IsFiniteSet(Point) /\ Cardinality(Point) = TOTAL_POINTS
    BY SizesAssumption, FS_Interval DEF Point
  <2>2. IsFiniteSet(S) /\ n \in Nat /\ n <= TOTAL_POINTS
    BY <2>1, FS_Subset, FS_CardinalityType
  <2>3. n # 0
    BY <2>2, FS_EmptySet
  <2>4. QED
    BY <2>2, <2>3, SizesAssumption
<1> HIDE DEF n
<1>2. s \in [1 .. n -> S] /\ DOMAIN s = 1 .. n
  BY DEF Injection, n
<1>3. s \in Bijection(1 .. n, S)
  <2>1. IsFiniteSet(1 .. n) /\ Cardinality(1 .. n) = Cardinality(S)
    BY <1>1, FS_Interval DEF n
  <2>2. s \in Injection(1 .. n, S)
    BY DEF n
  <2>3. s \in Surjection(1 .. n, S)
    BY <1>1, <2>1, <2>2, FS_Injection
  <2>4. QED
    BY <2>2, <2>3 DEF Bijection
<1>4. t \in [1 .. n -> Value] /\ \A j \in 1 .. n : t[j] = v[s[j]] /\ s[j] \in S
  BY <1>2 DEF ValuesOf
<1> HIDE DEF t
<1>5. m \in Center
  BY <1>1, <1>4, ArithmeticAssumption
<1>6. ASSUME NEW c \in Center
      PROVE  SumFunctionOnSet([p \in S |-> DistSq(c, v[p])], S)
               = SumFunction([j \in 1 .. n |-> DistSq(c, t[j])])
  <2> DEFINE f == [p \in S |-> DistSq(c, v[p])]
             g == [j \in 1 .. n |-> DistSq(c, t[j])]
  <2>1. \A p \in S : f[p] \in Int
    BY <1>6, ArithmeticAssumption
  <2>2. \A j \in 1 .. n : g[j] = f[s[j]]
    BY <1>4
  <2>3. IsFiniteSet(1 .. n)
    BY <1>1, FS_Interval
  <2>4. SumFunction(g) = SumFunctionOnSet(g, 1 .. n)
    BY DEF SumFunction
  <2> DEFINE T == 1 .. n
  <2>5. s \in Bijection(T, S) /\ IsFiniteSet(T) /\ \A j \in T : g[j] = f[s[j]]
    BY <1>3, <2>2, <2>3
  <2> HIDE DEF f, g, T
  <2>6. SumFunctionOnSet(g, T) = SumFunctionOnSet(f, S)
    BY <2>1, <2>5, SumRenamed
  <2>7. QED
    BY <2>4, <2>6 DEF f, g, T
<1>7. SumFunction([j \in 1 .. n |-> DistSq(MeanOf(t), t[j])])
        <= SumFunction([j \in 1 .. n |-> DistSq(d, t[j])])
  BY <1>1, <1>4 DEF MeanIsCentral
<1>8. QED
  BY <1>5, <1>6, <1>7 DEF t

\* Centers that lie, each, where Lloyd may move it.
Recentred(v, a, c, e) ==
  \A k \in Cluster :
    LET S == {p \in Point : a[p] = k}
    IN  e[k] \in IF S = {} THEN {c[k]}
                 ELSE {MeanOf(ValuesOf(v, s)) : s \in Injection(1 .. Cardinality(S), S)}

\* Centers with which a clustering has the least cost of all.
IsOptimal(v, c, a) == \A d \in [Cluster -> Center] : CostOf(v, c, a) <= CostOf(v, d, a)

\* Moving the centers to the means of their clusters brings the cost to its least.
LEMMA RecenterIsOptimal ==
  ASSUME MeanIsCentral(Value), NEW v \in [Point -> Value], NEW a \in [Point -> Cluster],
         NEW c \in [Cluster -> Center], NEW e, e = [k \in Cluster |-> e[k]],
         Recentred(v, a, c, e)
  PROVE  e \in [Cluster -> Center] /\ IsOptimal(v, e, a)
<1> DEFINE S(k) == {p \in Point : a[p] = k}
<1>1. ASSUME NEW k \in Cluster, NEW d \in Center
      PROVE  /\ e[k] \in Center
             /\ SumFunctionOnSet([p \in S(k) |-> DistSq(e[k], v[p])], S(k))
                  <= SumFunctionOnSet([p \in S(k) |-> DistSq(d, v[p])], S(k))
  <2>1. CASE S(k) = {}
    <3>1. e[k] = c[k]
      BY <2>1 DEF Recentred
    <3>2. \A f : SumFunctionOnSet(f, {}) = 0
      <4>1. IsFiniteSet({})
        BY FS_EmptySet
      <4>2. QED
        BY <4>1, SumStep
    <3>3. QED
      BY <2>1, <3>1, <3>2
  <2>2. CASE S(k) # {}
    <3>1. PICK s \in Injection(1 .. Cardinality(S(k)), S(k)) : e[k] = MeanOf(ValuesOf(v, s))
      BY <2>2 DEF Recentred
    <3>2. S(k) \in SUBSET Point
      OBVIOUS
    <3> HIDE DEF S
    <3>3. QED
      BY <2>2, <3>1, <3>2, MeanOfSetIsCentral
  <2>3. QED
    BY <2>1, <2>2
<1>2. e \in [Cluster -> Center]
  <2>1. PICK d \in Center : TRUE
    BY ClusterBounds
  <2>2. QED
    BY <1>1, <2>1
<1>3. ASSUME NEW d \in [Cluster -> Center]
      PROVE  CostOf(v, e, a) <= CostOf(v, d, a)
  <2> DEFINE f == Distances(v, e, a)
             g == Distances(v, d, a)
  <2>1. \A p \in Point : f[p] \in Int /\ g[p] \in Int
    BY <1>2, CostIsNatural
  <2>2. ASSUME NEW k \in Cluster, NEW b \in [Cluster -> Center]
        PROVE  SumFunctionOnSet(Distances(v, b, a), S(k))
                 = SumFunctionOnSet([p \in S(k) |-> DistSq(b[k], v[p])], S(k))
    <3> DEFINE h == [p \in S(k) |-> DistSq(b[k], v[p])]
    <3>1. \A p \in S(k) : Distances(v, b, a)[p] = h[p] /\ h[p] \in Int
      <4>1. \A p \in S(k) : p \in Point /\ a[p] = k /\ h[p] = DistSq(b[k], v[p])
        OBVIOUS
      <4>2. \A p \in Point : Distances(v, b, a)[p] = DistSq(b[a[p]], v[p])
                             /\ Distances(v, b, a)[p] \in Nat
        BY CostIsNatural
      <4> HIDE DEF S, h
      <4>3. QED
        BY <4>1, <4>2
    <3>2. IsFiniteSet(S(k))
      BY PointsAreFinite, FS_Subset
    <3> HIDE DEF S, h
    <3>3. SumFunctionOnSet(Distances(v, b, a), S(k)) = SumFunctionOnSet(h, S(k))
      BY <3>1, <3>2, SumsAgree
    <3>4. QED
      BY <3>3 DEF h
  <2>3. \A k \in Cluster : SumFunctionOnSet(f, S(k)) <= SumFunctionOnSet(g, S(k))
    <3> SUFFICES ASSUME NEW k \in Cluster
                 PROVE  SumFunctionOnSet(f, S(k)) <= SumFunctionOnSet(g, S(k))
      OBVIOUS
    <3>1. d[k] \in Center
      OBVIOUS
    <3> HIDE DEF S
    <3>2. QED
      BY <1>1, <1>2, <2>2, <3>1
  <2>4. a \in [Point -> 0 .. CLUSTERS - 1] /\ CLUSTERS \in Nat
    BY ClusterBounds DEF Cluster
  <2>5. \A k \in 0 .. CLUSTERS - 1 :
          SumFunctionOnSet(f, {p \in Point : a[p] = k})
            <= SumFunctionOnSet(g, {p \in Point : a[p] = k})
    BY <2>3 DEF Cluster
  <2> HIDE DEF f, g
  <2>6. SumFunctionOnSet(f, Point) <= SumFunctionOnSet(g, Point)
    BY <2>1, <2>4, <2>5, PointsAreFinite, SumByParts
  <2>7. QED
    BY <1>2, <2>6, CostIsNatural DEF f, g
<1>4. QED
  BY <1>2, <1>3 DEF IsOptimal

\* Lloyd and the program mean the same cost.
LEMMA SharedCost == \A v, c, a : L!CostOf(v, c, a) = CostOf(v, c, a)
<1>1. L!Point = Point
  BY SharedDefinitions
<1>2. \A f, S : L!SumFunctionOnSet(f, S) = SumFunctionOnSet(f, S)
  BY DEF L!SumFunctionOnSet, SumFunctionOnSet, L!FoldFunctionOnSet, FoldFunctionOnSet,
         L!MapThenFoldSet, MapThenFoldSet
<1>3. QED
  BY <1>1, <1>2 DEF L!CostOf, CostOf, L!SumFunction, SumFunction

\* What Lloyd sees of the loops is a clustering.
LEMMA LloydTypes ==
  ASSUME IInv, phase \notin {"seed", "done"}
  PROVE  /\ values \in [Point -> Value]
         /\ AbstractCenters \in [Cluster -> Center]
         /\ AbstractAssignment \in [Point -> Cluster \cup {NoCluster}]
<1>1. Built = Cluster
  BY Bounds
<1>2. /\ values \in [Point -> Value]
      /\ central_values \in [Cluster -> Center]
      /\ id_cluster \in [Point -> Cluster \cup {NoCluster}]
      /\ cluster_points \in [Cluster -> Seq(Point)]
      /\ \A k \in Cluster : IsInjective(cluster_points[k])
  BY <1>1 DEF IInv, TypeOK, PointsMatchClusters
<1>3. \A p \in Point : getIDNearestCenter(central_values, values[p]) \in Cluster
  BY <1>2, NearestIsFirstNearest
<1>4. \A k \in Cluster : Len(cluster_points[k]) > 0 =>
                           MeanOf(ValuesOf(values, cluster_points[k])) \in Center
  BY <1>2, MeanIsCenter
<1>5. AbstractCenters \in [Cluster -> Center]
  BY <1>1, <1>2, <1>4 DEF AbstractCenters
<1>6. AbstractAssignment \in [Point -> Cluster \cup {NoCluster}]
  BY <1>2, <1>3 DEF AbstractAssignment
<1>7. QED
  BY <1>2, <1>5, <1>6

\* Where Lloyd is, and where the loops are.
LEMMA LloydStages ==
  ASSUME IInv
  PROVE  /\ stage \in {"top", "assigned", "recentred"} <=> phase \notin {"seed", "done"}
         /\ stage = "seed" <=> phase = "seed"
         /\ stage = "done" <=> phase = "done"
BY DEF IInv, TypeOK, stage

\* Where Lloyd moves its centers.
LEMMA LloydRecenters ==
  ASSUME L!Recenter
  PROVE  /\ AbstractCenters' = [k \in Cluster |-> AbstractCenters'[k]]
         /\ Recentred(values, AbstractAssignment, AbstractCenters, AbstractCenters')
<1>1. PICK mean \in [L!Cluster -> UNION {L!NextCenters(k) : k \in L!Cluster}] :
        /\ \A k \in L!Cluster : mean[k] \in L!NextCenters(k)
        /\ AbstractCenters' = mean
  BY DEF L!Recenter
<1>2. ASSUME NEW k \in Cluster
      PROVE  AbstractCenters'[k] \in
               LET S == {p \in Point : AbstractAssignment[p] = k}
               IN  IF S = {} THEN {AbstractCenters[k]}
                   ELSE {MeanOf(ValuesOf(values, s)) :
                           s \in Injection(1 .. Cardinality(S), S)}
  <2> DEFINE S == {p \in Point : AbstractAssignment[p] = k}
  <2>1. L!Members(k) = S
    BY SharedDefinitions DEF L!Members
  <2> HIDE DEF S
  <2>2. L!Enumerations(S) = Injection(1 .. Cardinality(S), S)
    BY SharedDefinitions DEF L!Enumerations
  <2>3. AbstractCenters'[k] \in L!NextCenters(k)
    BY <1>1, SharedDefinitions
  <2>4. AbstractCenters'[k] \in
          IF S = {} THEN {AbstractCenters[k]}
          ELSE {MeanOf(L!ValuesOf(values, s)) : s \in L!Enumerations(S)}
    BY <2>1, <2>3 DEF L!NextCenters
  <2>5. QED
    BY <2>2, <2>4, SharedDefinitions DEF S
<1>3. AbstractCenters' = [k \in Cluster |-> AbstractCenters'[k]]
  BY <1>1, SharedDefinitions
<1>4. QED
  BY <1>2, <1>3 DEF Recentred

\* Once every point is in a cluster no pass makes the clustering worse, for every
\* arithmetic in which the mean of a list is its most central center.
THEOREM CostFalls ==
  ASSUME MeanIsCentral(Value)
  PROVE  Spec => CostNeverIncreases
<1>1. ASSUME IInv, DrawnInv, [Next]_vars
      PROVE  [L!AllAssigned => L!Cost' <= L!Cost]_(L!vars)
  <2>1. CASE UNCHANGED L!vars
    BY <2>1
  <2>2. CASE L!Next /\ L!AllAssigned
    <3>1. stage \in {"top", "assigned", "recentred"}
      BY <2>2 DEF L!Next, L!Seed, L!Assign, L!Recenter, L!Stop, L!Repeat, L!AllAssigned,
                  stage
    <3>2. /\ values \in [Point -> Value]
          /\ AbstractCenters \in [Cluster -> Center]
          /\ AbstractAssignment \in [Point -> Cluster]
      <4>1. \A p \in Point : AbstractAssignment[p] # NoCluster
        BY <2>2, SharedDefinitions DEF L!AllAssigned
      <4>2. QED
        BY <1>1, <3>1, <4>1, LloydStages, LloydTypes
    <3>3. /\ L!Cost = CostOf(values, AbstractCenters, AbstractAssignment)
          /\ L!Cost' = CostOf(values', AbstractCenters', AbstractAssignment')
          /\ CostOf(values, AbstractCenters, AbstractAssignment) \in Nat
      BY <3>2, SharedCost, CostIsNatural DEF L!Cost
    <3>4. CASE L!Assign
      <4>1. /\ UNCHANGED <<values, AbstractCenters>>
            /\ AbstractAssignment'
                 = [p \in Point |-> getIDNearestCenter(AbstractCenters, values[p])]
        BY <3>4, SharedDefinitions DEF L!Assign
      <4>2. CostOf(values, AbstractCenters, AbstractAssignment')
              <= CostOf(values, AbstractCenters, AbstractAssignment)
        BY <3>2, <4>1, AssignLowersCost
      <4>3. QED
        BY <3>3, <4>1, <4>2
    <3>5. CASE L!Recenter
      <4>1. UNCHANGED <<values, AbstractAssignment>>
        BY <3>5 DEF L!Recenter
      <4>2. /\ AbstractCenters' = [k \in Cluster |-> AbstractCenters'[k]]
            /\ Recentred(values, AbstractAssignment, AbstractCenters, AbstractCenters')
        BY <3>5, LloydRecenters
      <4>3. CostOf(values, AbstractCenters', AbstractAssignment)
              <= CostOf(values, AbstractCenters, AbstractAssignment)
        BY <3>2, <4>2, RecenterIsOptimal DEF IsOptimal
      <4>4. QED
        BY <3>3, <4>1, <4>3
    <3>6. CASE L!Seed \/ L!Stop \/ L!Repeat
      <4>1. UNCHANGED <<values, AbstractCenters, AbstractAssignment>>
        BY <3>1, <3>6 DEF L!Seed, L!Stop, L!Repeat, stage
      <4>2. QED
        BY <3>3, <4>1
    <3>7. QED
      BY <2>2, <3>4, <3>5, <3>6 DEF L!Next
  <2>3. QED
    BY <1>1, <2>1, <2>2, NextMaps
<1>2. QED
  BY <1>1, Invariant, FirstCentersAreDrawn, PTL
     DEF Spec, CostNeverIncreases, L!CostNeverIncreases

-------------------------------------------------------------------------------
(* The iteration never cycles.                                             *)

\* What a clustering can cost, and the least of it.
Costs(v, a) == {CostOf(v, c, a) : c \in [Cluster -> Center]}
LeastCost(v, a) == CHOOSE least \in Costs(v, a) : \A cost \in Costs(v, a) : least <= cost

\* The order in which the clusterings of a run come: a better one costs less, or as much
\* with its points in lower clusters.
Better(v, b, a) ==
  \/ LeastCost(v, b) < LeastCost(v, a)
  \/ /\ LeastCost(v, b) = LeastCost(v, a)
     /\ SumFunctionOnSet(b, Point) < SumFunctionOnSet(a, Point)

BetterThan(v, a) == {b \in [Point -> Cluster] : Better(v, b, a)}

Clusterings == Cardinality([Point -> Cluster])

\* The least cost of a clustering is a number, reached by centers that are optimal.
LEMMA LeastCostIsLeast ==
  ASSUME NEW v \in [Point -> Value], NEW a \in [Point -> Cluster],
         NEW c \in [Cluster -> Center]
  PROVE  /\ LeastCost(v, a) \in Nat
         /\ LeastCost(v, a) <= CostOf(v, c, a)
         /\ IsOptimal(v, c, a) => LeastCost(v, a) = CostOf(v, c, a)
<1>1. Costs(v, a) \in SUBSET Nat /\ CostOf(v, c, a) \in Costs(v, a)
  BY CostIsNatural DEF Costs
<1>2. \E least \in Costs(v, a) : \A cost \in Costs(v, a) : least <= cost
  BY <1>1, LeastElement
<1>3. LeastCost(v, a) \in Costs(v, a) /\ \A cost \in Costs(v, a) : LeastCost(v, a) <= cost
  BY <1>2 DEF LeastCost
<1>4. IsOptimal(v, c, a) => CostOf(v, c, a) <= LeastCost(v, a)
  BY <1>3 DEF IsOptimal, Costs
<1>5. QED
  BY <1>1, <1>3, <1>4

\* The sum of the cluster numbers of a clustering is a number.
LEMMA NumbersAddUp ==
  ASSUME NEW a \in [Point -> Cluster]
  PROVE  SumFunctionOnSet(a, Point) \in Nat
<1>1. \A p \in Point : a[p] \in Nat
  BY ClusterBounds
<1>2. QED
  BY <1>1, PointsAreFinite, SumIsNatural

\* A pass over the points that moves one, from where the centers are optimal, finds a
\* better clustering: cheaper, or equally cheap with points in lower clusters.
LEMMA MovingIsBetter ==
  ASSUME NEW v \in [Point -> Value], NEW c \in [Cluster -> Center],
         NEW a \in [Point -> Cluster], IsOptimal(v, c, a),
         NEW b, b = [p \in Point |-> getIDNearestCenter(c, v[p])], b # a
  PROVE  b \in [Point -> Cluster] /\ Better(v, b, a)
<1>1. \A p \in Point : b[p] \in Cluster /\ IsFirstNearest(b[p], c, v[p])
  BY NearestIsFirstNearest
<1>2. b \in [Point -> Cluster] /\ CostOf(v, c, b) <= CostOf(v, c, a)
  BY AssignLowersCost
<1>3. /\ LeastCost(v, b) \in Nat /\ LeastCost(v, b) <= CostOf(v, c, b)
      /\ LeastCost(v, a) \in Nat /\ LeastCost(v, a) = CostOf(v, c, a)
      /\ CostOf(v, c, b) \in Nat
  BY <1>2, LeastCostIsLeast, CostIsNatural
<1>4. CASE CostOf(v, c, b) < CostOf(v, c, a)
  BY <1>2, <1>3, <1>4 DEF Better
<1>5. CASE CostOf(v, c, b) = CostOf(v, c, a)
  <2>1. \A p \in Point : /\ Distances(v, c, b)[p] = DistSq(c[b[p]], v[p])
                         /\ Distances(v, c, a)[p] = DistSq(c[a[p]], v[p])
                         /\ Distances(v, c, b)[p] \in Nat /\ Distances(v, c, a)[p] \in Nat
    BY <1>2, CostIsNatural
  <2>2. \A p \in Point : Distances(v, c, b)[p] <= Distances(v, c, a)[p]
    BY <1>1, <2>1 DEF IsFirstNearest
  <2>3. /\ SumFunctionOnSet(Distances(v, c, b), Point)
             = SumFunctionOnSet(Distances(v, c, a), Point)
        /\ SumFunctionOnSet(Distances(v, c, b), Point) \in Nat
    BY <1>2, <1>3, <1>5, CostIsNatural
  <2>4. \A p \in Point : Distances(v, c, b)[p] = Distances(v, c, a)[p]
    <3> SUFFICES ASSUME NEW p \in Point,
                        Distances(v, c, b)[p] < Distances(v, c, a)[p]
                 PROVE  FALSE
      BY <2>1, <2>2
    <3>1. SumFunctionOnSet(Distances(v, c, b), Point)
            < SumFunctionOnSet(Distances(v, c, a), Point)
      BY <2>1, <2>2, PointsAreFinite, SumIsStrict
    <3>2. QED
      BY <2>3, <3>1
  <2>5. \A p \in Point : /\ a[p] \in Int /\ b[p] \in Int
                         /\ b[p] <= a[p]
    <3> SUFFICES ASSUME NEW p \in Point
                 PROVE  a[p] \in Int /\ b[p] \in Int /\ b[p] <= a[p]
      OBVIOUS
    <3>1. a[p] \in Nat /\ b[p] \in Nat /\ a[p] \in Cluster
      BY <1>1, ClusterBounds
    <3>2. ~ DistSq(c[b[p]], v[p]) < DistSq(c[a[p]], v[p])
      BY <2>1, <2>4
    <3>3. a[p] \notin 0 .. b[p] - 1
      BY <1>1, <3>2 DEF IsFirstNearest
    <3>4. QED
      BY <3>1, <3>3
  <2>6. PICK p \in Point : b[p] # a[p]
    BY <1>2
  <2>7. b[p] < a[p]
    BY <2>5, <2>6
  <2>8. SumFunctionOnSet(b, Point) < SumFunctionOnSet(a, Point)
    BY <2>5, <2>7, PointsAreFinite, SumIsStrict
  <2>9. QED
    BY <1>2, <1>3, <1>5, <2>8 DEF Better
<1>6. QED
  BY <1>2, <1>3, <1>4, <1>5

\* There are finitely many clusterings.
LEMMA BetterIsFinite ==
  /\ IsFiniteSet([Point -> Cluster]) /\ Clusterings \in Nat
  /\ \A v, a : IsFiniteSet(BetterThan(v, a)) /\ Cardinality(BetterThan(v, a)) \in Nat
<1>1. IsFiniteSet(Cluster)
  BY ClusterBounds, FS_Interval DEF Cluster
<1>2. IsFiniteSet([Point -> Cluster])
  BY <1>1, PointsAreFinite, FunctionsAreFinite
<1>3. ASSUME NEW v, NEW a
      PROVE  IsFiniteSet(BetterThan(v, a))
  BY <1>2, FS_Subset DEF BetterThan
<1>4. QED
  BY <1>2, <1>3, FS_CardinalityType DEF Clusterings

\* No clustering is better than itself, and a better one has fewer that are better.
LEMMA BetterShrinks ==
  ASSUME NEW v \in [Point -> Value], NEW a \in [Point -> Cluster],
         NEW c \in [Cluster -> Center]
  PROVE  /\ Cardinality(BetterThan(v, a)) + 1 <= Clusterings
         /\ \A b \in [Point -> Cluster] : Better(v, b, a) =>
              Cardinality(BetterThan(v, b)) + 1 <= Cardinality(BetterThan(v, a))
<1>1. \A b \in [Point -> Cluster] :
        LeastCost(v, b) \in Nat /\ SumFunctionOnSet(b, Point) \in Nat
  BY LeastCostIsLeast, NumbersAddUp
<1>2. \A b \in [Point -> Cluster] : ~ Better(v, b, b)
  BY <1>1 DEF Better
<1>3. ASSUME NEW S, IsFiniteSet(S), NEW T \in SUBSET S, NEW b \in S, b \notin T
      PROVE  Cardinality(T) + 1 <= Cardinality(S)
  <2>1. IsFiniteSet(S \ {b}) /\ Cardinality(S \ {b}) = Cardinality(S) - 1
    BY <1>3, FS_RemoveElement
  <2>2. IsFiniteSet(T) /\ Cardinality(T) <= Cardinality(S \ {b})
    BY <1>3, <2>1, FS_Subset
  <2>3. Cardinality(S) \in Nat /\ Cardinality(T) \in Nat
    BY <1>3, <2>2, FS_CardinalityType
  <2>4. QED
    BY <2>1, <2>2, <2>3
<1>4. Cardinality(BetterThan(v, a)) + 1 <= Clusterings
  <2>1. BetterThan(v, a) \in SUBSET [Point -> Cluster] /\ a \notin BetterThan(v, a)
    BY <1>2 DEF BetterThan
  <2>2. QED
    BY <1>3, <2>1, BetterIsFinite DEF Clusterings
<1>5. ASSUME NEW b \in [Point -> Cluster], Better(v, b, a)
      PROVE  Cardinality(BetterThan(v, b)) + 1 <= Cardinality(BetterThan(v, a))
  <2>1. \A d \in [Point -> Cluster] : Better(v, d, b) => Better(v, d, a)
    BY <1>1, <1>5 DEF Better
  <2>2. /\ BetterThan(v, b) \in SUBSET BetterThan(v, a)
        /\ b \in BetterThan(v, a) /\ b \notin BetterThan(v, b)
    BY <1>2, <1>5, <2>1 DEF BetterThan
  <2>3. QED
    BY <1>3, <2>2, BetterIsFinite
<1>6. QED
  BY <1>4, <1>5

\* The number of a pass that ended with a clustering, and the clusterings that are still
\* better, fit together in all there are; one pass that moves nothing may come on top.
Passes(number, settled, v, a) ==
  /\ a \in [Point -> Cluster]
  /\ number + Cardinality(BetterThan(v, a)) <= Clusterings + IF settled THEN 1 ELSE 0

\* Where the iteration is on its way through the clusterings.
Descends(v, c, a, number, settled, where) ==
  /\ where = "seed" => number = 1
  /\ where = "top" => \/ number = 1
                      \/ Passes(number - 1, FALSE, v, a) /\ IsOptimal(v, c, a)
  /\ where \in {"assigned", "recentred"} => Passes(number, settled, v, a)
  /\ where = "recentred" => IsOptimal(v, c, a)
  /\ where = "done" =>
       \/ TooManyClusters /\ number = 1
       \/ /\ number <= Clusterings + IF settled THEN 1 ELSE 0
          /\ settled \/ number >= MAX_ITERATIONS

\* A pass over the points goes on to a better clustering, or settles.
LEMMA AssignDescends ==
  ASSUME NEW v \in [Point -> Value], NEW c \in [Cluster -> Center], NEW a,
         NEW number \in Nat, NEW settled, Descends(v, c, a, number, settled, "top"),
         NEW b, b = [p \in Point |-> getIDNearestCenter(c, v[p])]
  PROVE  Descends(v, c, b, number, b = a, "assigned")
<1>1. b \in [Point -> Cluster]
  BY NearestIsFirstNearest
<1>2. /\ Clusterings \in Nat
      /\ Cardinality(BetterThan(v, a)) \in Nat /\ Cardinality(BetterThan(v, b)) \in Nat
  BY BetterIsFinite
<1>3. number + Cardinality(BetterThan(v, b)) <= Clusterings + IF b = a THEN 1 ELSE 0
  <2>1. CASE number = 1
    <3>1. Cardinality(BetterThan(v, b)) + 1 <= Clusterings
      BY <1>1, BetterShrinks
    <3>2. QED
      BY <1>2, <2>1, <3>1
  <2>2. CASE Passes(number - 1, FALSE, v, a) /\ IsOptimal(v, c, a)
    <3>1. a \in [Point -> Cluster]
          /\ number - 1 + Cardinality(BetterThan(v, a)) <= Clusterings
      BY <1>2, <2>2 DEF Passes
    <3>2. CASE b = a
      BY <1>2, <3>1, <3>2
    <3>3. CASE b # a
      <4>1. Better(v, b, a)
        BY <2>2, <3>1, <3>3, MovingIsBetter
      <4>2. Cardinality(BetterThan(v, b)) + 1 <= Cardinality(BetterThan(v, a))
        BY <1>1, <3>1, <4>1, BetterShrinks
      <4>3. QED
        BY <1>2, <3>1, <3>3, <4>2
    <3>4. QED
      BY <3>2, <3>3
  <2>3. QED
    BY <2>1, <2>2 DEF Descends
<1>4. QED
  BY <1>1, <1>3 DEF Descends, Passes

\* A pass over the clusters makes the centers optimal.
LEMMA RecenterDescends ==
  ASSUME MeanIsCentral(Value), NEW v \in [Point -> Value], NEW c \in [Cluster -> Center], NEW a,
         NEW number, NEW settled, Descends(v, c, a, number, settled, "assigned"),
         NEW e, e = [k \in Cluster |-> e[k]], Recentred(v, a, c, e)
  PROVE  Descends(v, e, a, number, settled, "recentred")
<1>1. Passes(number, settled, v, a) /\ a \in [Point -> Cluster]
  BY DEF Descends, Passes
<1>2. IsOptimal(v, e, a)
  BY <1>1, RecenterIsOptimal
<1>3. QED
  BY <1>1, <1>2 DEF Descends

\* The end of an iteration.
LEMMA EndDescends ==
  ASSUME NEW v, NEW c, NEW a, NEW number \in Nat, NEW settled \in BOOLEAN,
         Descends(v, c, a, number, settled, "recentred")
  PROVE  /\ settled \/ number >= MAX_ITERATIONS =>
              Descends(v, c, a, number, settled, "done")
         /\ ~ settled => Descends(v, c, a, number + 1, settled, "top")
<1>1. Passes(number, settled, v, a) /\ IsOptimal(v, c, a)
  BY DEF Descends
<1>2. Clusterings \in Nat /\ Cardinality(BetterThan(v, a)) \in Nat
  BY BetterIsFinite
<1>3. number <= Clusterings + IF settled THEN 1 ELSE 0
  BY <1>1, <1>2 DEF Passes
<1>4. ~ settled => Passes(number + 1 - 1, FALSE, v, a)
  BY <1>1 DEF Passes
<1>5. settled \/ number >= MAX_ITERATIONS => Descends(v, c, a, number, settled, "done")
  BY <1>3 DEF Descends
<1>6. ~ settled => Descends(v, c, a, number + 1, settled, "top")
  BY <1>1, <1>4 DEF Descends, Passes
<1>7. QED
  BY <1>5, <1>6

\* The bound that goes with every state.
LEMMA DescentIsBounded ==
  ASSUME NEW v, NEW c, NEW a, NEW number \in Nat, NEW settled \in BOOLEAN,
         NEW where \in {"seed", "top", "assigned", "recentred", "done"},
         Descends(v, c, a, number, settled, where)
  PROVE  number <= Clusterings + 1
<1>1. Clusterings \in Nat /\ Cardinality(BetterThan(v, a)) \in Nat
  BY BetterIsFinite
<1>2. QED
  BY <1>1 DEF Descends, Passes

\* Where the serial run is on its way.
DescendsInv == Descends(values, AbstractCenters, AbstractAssignment, iter, stable, stage)

\* It starts at the top.
LEMMA InitDescends == Init => DescendsInv
<1> SUFFICES ASSUME Init
             PROVE  DescendsInv
  OBVIOUS
<1>1. iter = 1 /\ phase = FirstPhase /\ stage = phase
  BY DEF Init, FirstPhase, stage
<1>2. QED
  BY <1>1 DEF DescendsInv, Descends, FirstPhase

\* Every step keeps it going.
LEMMA NextDescends ==
  ASSUME MeanIsCentral(Value), IInv, DrawnInv, DescendsInv, [Next]_vars
  PROVE  DescendsInv'
<1> DEFINE At(v, c, a, number, settled, where) == Descends(v, c, a, number, settled, where)
<1>1. At(values, AbstractCenters, AbstractAssignment, iter, stable, stage)
  BY DEF DescendsInv
<1>2. iter \in Nat \ {0} /\ stable \in BOOLEAN
  <2>1. iter \in Nat \ {0} /\ done \in BOOLEAN
    BY SizesAssumption DEF IInv, TypeOK
  <2>2. QED
    BY <2>1 DEF stable
<1>3. SUFFICES At(values', AbstractCenters', AbstractAssignment', iter', stable', stage')
  BY DEF DescendsInv
<1>4. CASE L!Seed
  <2>1. stage = "seed" /\ stage' = "top" /\ iter' = iter
    BY <1>4 DEF L!Seed, stage
  <2>2. QED
    BY <1>1, <2>1 DEF Descends
<1>5. CASE L!Assign
  <2>1. /\ stage = "top" /\ stage' = "assigned"
        /\ UNCHANGED <<values, AbstractCenters, iter>>
        /\ AbstractAssignment' = [p \in Point |-> getIDNearestCenter(AbstractCenters, values[p])]
        /\ stable' = (AbstractAssignment' = AbstractAssignment)
    BY <1>5, SharedDefinitions DEF L!Assign, stage, stable
  <2>2. values \in [Point -> Value] /\ AbstractCenters \in [Cluster -> Center]
    BY <2>1, LloydStages, LloydTypes
  <2> HIDE DEF At
  <2>3. At(values, AbstractCenters, AbstractAssignment, iter, stable, "top")
    BY <1>1, <2>1
  <2>4. At(values, AbstractCenters, AbstractAssignment', iter,
           AbstractAssignment' = AbstractAssignment, "assigned")
    BY <1>2, <2>1, <2>2, <2>3, AssignDescends DEF At
  <2>5. QED
    BY <2>1, <2>4
<1>6. CASE L!Recenter
  <2>1. /\ stage = "assigned" /\ stage' = "recentred"
        /\ UNCHANGED <<values, AbstractAssignment, iter, stable>>
    BY <1>6 DEF L!Recenter, stage, stable
  <2>2. /\ AbstractCenters' = [k \in Cluster |-> AbstractCenters'[k]]
        /\ Recentred(values, AbstractAssignment, AbstractCenters, AbstractCenters')
    BY <1>6, LloydRecenters
  <2>3. values \in [Point -> Value] /\ AbstractCenters \in [Cluster -> Center]
    BY <2>1, LloydStages, LloydTypes
  <2> HIDE DEF At
  <2>4. At(values, AbstractCenters, AbstractAssignment, iter, stable, "assigned")
    BY <1>1, <2>1
  <2>5. At(values, AbstractCenters', AbstractAssignment, iter, stable, "recentred")
    BY <2>2, <2>3, <2>4, RecenterDescends DEF At
  <2>6. QED
    BY <2>1, <2>5
<1>7. CASE L!Stop
  <2>1. /\ stage = "recentred" /\ stage' = "done"
        /\ stable \/ iter >= MAX_ITERATIONS
        /\ UNCHANGED <<values, AbstractAssignment, AbstractCenters, iter, stable>>
    BY <1>7 DEF L!Stop, L!LimitReached, stage, stable
  <2> HIDE DEF At
  <2>2. At(values, AbstractCenters, AbstractAssignment, iter, stable, "done")
    BY <1>1, <1>2, <2>1, EndDescends DEF At
  <2>3. QED
    BY <2>1, <2>2
<1>8. CASE L!Repeat
  <2>1. /\ stage = "recentred" /\ stage' = "top"
        /\ ~ stable /\ iter' = iter + 1
        /\ UNCHANGED <<values, AbstractAssignment, AbstractCenters, stable>>
    BY <1>8 DEF L!Repeat, stage, stable
  <2> HIDE DEF At
  <2>2. At(values, AbstractCenters, AbstractAssignment, iter + 1, stable, "top")
    BY <1>1, <1>2, <2>1, EndDescends DEF At
  <2>3. QED
    BY <2>1, <2>2
<1>9. CASE UNCHANGED L!vars
  <2>1. UNCHANGED <<values, AbstractAssignment, AbstractCenters, iter, stable, stage>>
    BY <1>9 DEF L!vars, stable, stage
  <2> HIDE DEF At
  <2>2. QED
    BY <1>1, <2>1
<1>10. QED
  BY <1>4, <1>5, <1>6, <1>7, <1>8, <1>9, NextMaps DEF L!Next

\* The way through the clusterings, at every moment of a run.
LEMMA Descent ==
  ASSUME MeanIsCentral(Value)
  PROVE  Spec => [](IInv /\ DescendsInv)
<1>1. IInv /\ DrawnInv /\ DescendsInv /\ [Next]_vars => DescendsInv'
  BY NextDescends
<1>2. QED
  BY <1>1, Invariant, FirstCentersAreDrawn, InitDescends, PTL DEF Spec

\* The iteration never cycles between clusterings: no run has more iterations than there
\* are clusterings, and one, however the bound MAX_ITERATIONS is set (for every arithmetic
\* in which the mean of a list is its most central center).
THEOREM IterationsAreBounded ==
  ASSUME MeanIsCentral(Value)
  PROVE  Spec => [](iter <= Cardinality([Point -> Cluster]) + 1)
<1>1. IInv /\ DescendsInv => iter <= Cardinality([Point -> Cluster]) + 1
  <2> SUFFICES ASSUME IInv, DescendsInv
               PROVE  iter <= Clusterings + 1
    BY DEF Clusterings
  <2>1. /\ iter \in Nat /\ done \in BOOLEAN
        /\ phase \in {"seed", "top", "assign", "recalculate", "done"}
    BY SizesAssumption DEF IInv, TypeOK
  <2>2. stable \in BOOLEAN /\ stage \in {"seed", "top", "assigned", "recentred", "done"}
    BY <2>1 DEF stable, stage
  <2>3. QED
    BY <2>1, <2>2, DescentIsBounded DEF DescendsInv
<1>2. QED
  BY <1>1, Descent, PTL

===============================================================================
