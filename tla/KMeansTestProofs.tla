--------------------------- MODULE KMeansTestProofs ---------------------------
(***************************************************************************)
(* The test program passes, for every number of points and clusters, every *)
(* limit of iterations, every data set, every draw of the first members    *)
(* and every schedule of the parallel run, when arithmetic is exact.       *)
(*                                                                         *)
(* Both programs are Lloyd's iteration from the same first members, so     *)
(* both follow one course of centers and end where it ends; the comparison *)
(* then finds the two clusterings equal.                                   *)
(***************************************************************************)
EXTENDS KMeansTest, TLAPS

\* The theorems about each program, for the variables it has in the test.
SP == INSTANCE SerialKMeansProofs WITH
        DistSq <- SerialDist,
        id_cluster <- s_id_cluster, prohibited_indexes <- s_prohibited_indexes,
        central_values <- s_central_values, cluster_points <- s_cluster_points,
        iter <- s_iter, done <- s_done, phase <- s_phase, i <- s_i

PP == INSTANCE ParallelKMeansProofs WITH
        DistSq <- ParallelDist,
        id_cluster <- p_id_cluster, prohibited_indexes <- p_prohibited_indexes,
        central_values <- p_central_values, cluster_points <- p_cluster_points,
        iter <- p_iter, done <- p_done, phase <- p_phase, task <- p_task,
        nearest <- p_nearest, remove_vec <- p_remove_vec,
        add_point_to_cluster <- p_add_point_to_cluster, adjusting <- p_adjusting,
        unscanned <- p_unscanned, new_points <- p_new_points, recentred <- p_recentred

Point     == 0 .. TOTAL_POINTS - 1
Cluster   == 0 .. CLUSTERS - 1
NoCluster == -1

-------------------------------------------------------------------------------
(* The test runs the programs that those theorems are about.               *)

\* The serial program of the test has the definitions its proof module has.
LEMMA SerialShares ==
  /\ SP!SizesAssumption /\ SP!ArithmeticAssumption
  /\ SP!Point = Point /\ SP!Cluster = Cluster /\ SP!NoCluster = NoCluster
  /\ S!Point = Point /\ S!Cluster = Cluster /\ S!NoCluster = NoCluster
  /\ \A c, v : S!getIDNearestCenter(c, v) = SP!getIDNearestCenter(c, v)
  /\ \A v, s : S!ValuesOf(v, s) = SP!ValuesOf(v, s)
  /\ \A s, p : S!removePoint(s, p) = SP!removePoint(s, p)
<1>1. /\ SP!Point = Point /\ SP!Cluster = Cluster /\ SP!NoCluster = NoCluster
      /\ S!Point = Point /\ S!Cluster = Cluster /\ S!NoCluster = NoCluster
  BY DEF SP!Point, S!Point, Point, SP!Cluster, S!Cluster, Cluster, SP!NoCluster,
         S!NoCluster, NoCluster
<1>2. \A c, v : S!getIDNearestCenter(c, v) = SP!getIDNearestCenter(c, v)
  BY <1>1 DEF S!getIDNearestCenter, SP!getIDNearestCenter
<1>3. \A v, s : S!ValuesOf(v, s) = SP!ValuesOf(v, s)
  BY DEF S!ValuesOf, SP!ValuesOf
<1>4. \A s, p : S!removePoint(s, p) = SP!removePoint(s, p)
  BY DEF S!removePoint, SP!removePoint, S!RemoveFirst, SP!RemoveFirst, S!RemoveAt,
         SP!RemoveAt, S!SelectInSeq, SP!SelectInSeq, S!Min, SP!Min
<1>5. SP!SizesAssumption
  BY <1>1, SizesAssumption DEF S!SizesAssumption, SP!SizesAssumption
<1>6. SP!ArithmeticAssumption
  BY ArithmeticAssumption DEF S!ArithmeticAssumption, SP!ArithmeticAssumption
<1>7. QED
  BY <1>1, <1>2, <1>3, <1>4, <1>5, <1>6

\* It starts where the serial program of its proof module starts,
LEMMA SerialInitIs == S!Init => SP!Init
BY SerialShares DEF S!Init, SP!Init, S!FirstPhase, SP!FirstPhase, S!TooManyClusters,
   SP!TooManyClusters

\* and each of its steps is one of the steps proved about.
LEMMA SerialNextIs == S!Next => SP!Next
<1>1. ASSUME NEW p \in Point
      PROVE  S!SeedCluster(p) => SP!SeedCluster(p)
  BY DEF S!SeedCluster, SP!SeedCluster, S!Taken, SP!Taken, S!Range, SP!Range
<1>2. S!StartIteration => SP!StartIteration
  BY DEF S!StartIteration, SP!StartIteration
<1>3. S!StayInCluster => SP!StayInCluster
  BY SerialShares DEF S!StayInCluster, SP!StayInCluster
<1>4. S!MoveToNearest => SP!MoveToNearest
  BY SerialShares DEF S!MoveToNearest, SP!MoveToNearest
<1>5. S!EndAssign => SP!EndAssign
  BY DEF S!EndAssign, SP!EndAssign
<1>6. S!RecalculateCenter => SP!RecalculateCenter
  BY SerialShares DEF S!RecalculateCenter, SP!RecalculateCenter
<1>7. S!Break => SP!Break
  BY DEF S!Break, SP!Break, S!LimitReached, SP!LimitReached
<1>8. S!NextIteration => SP!NextIteration
  BY DEF S!NextIteration, SP!NextIteration, S!LimitReached, SP!LimitReached
<1>9. QED
  BY <1>1, <1>2, <1>3, <1>4, <1>5, <1>6, <1>7, <1>8, SerialShares DEF S!Next, SP!Next

\* The same of the parallel program: its definitions,
LEMMA ParallelShares ==
  /\ PP!SizesAssumption /\ PP!ArithmeticAssumption
  /\ PP!Point = Point /\ PP!Cluster = Cluster /\ PP!NoCluster = NoCluster
  /\ P!Point = Point /\ P!Cluster = Cluster /\ P!NoCluster = NoCluster
  /\ \A c, v : P!getIDNearestCenter(c, v) = PP!getIDNearestCenter(c, v)
  /\ \A v, s : P!ValuesOf(v, s) = PP!ValuesOf(v, s)
  /\ \A f : P!Range(f) = PP!Range(f)
<1>1. /\ PP!Point = Point /\ PP!Cluster = Cluster /\ PP!NoCluster = NoCluster
      /\ P!Point = Point /\ P!Cluster = Cluster /\ P!NoCluster = NoCluster
  BY DEF PP!Point, P!Point, Point, PP!Cluster, P!Cluster, Cluster, PP!NoCluster,
         P!NoCluster, NoCluster
<1>2. \A c, v : P!getIDNearestCenter(c, v) = PP!getIDNearestCenter(c, v)
  BY <1>1 DEF P!getIDNearestCenter, PP!getIDNearestCenter
<1>3. /\ \A v, s : P!ValuesOf(v, s) = PP!ValuesOf(v, s)
      /\ \A f : P!Range(f) = PP!Range(f)
  BY DEF P!ValuesOf, PP!ValuesOf, P!Range, PP!Range
<1>4. S!Point = Point
  BY DEF S!Point, Point
<1>5. PP!SizesAssumption
  BY <1>1, <1>4, SizesAssumption DEF S!SizesAssumption, PP!SizesAssumption
<1>6. PP!ArithmeticAssumption
  BY ArithmeticAssumption DEF P!ArithmeticAssumption, PP!ArithmeticAssumption
<1>7. QED
  BY <1>1, <1>2, <1>3, <1>5, <1>6

\* where it starts,
LEMMA ParallelInitIs == P!Init => PP!Init
BY ParallelShares DEF P!Init, PP!Init, P!FirstPhase, PP!FirstPhase, P!TooManyClusters,
   PP!TooManyClusters

\* and each of its steps.
LEMMA ParallelNextIs == P!Next => PP!Next
<1> USE DEF P!seedVars, PP!seedVars, P!assignVars, PP!assignVars, P!adjustVars,
            PP!adjustVars
<1>1. P!Main => PP!Main
  <2>1. ASSUME NEW p \in Point
        PROVE  P!SeedCluster(p) => PP!SeedCluster(p)
    BY ParallelShares DEF P!SeedCluster, PP!SeedCluster, P!Taken, PP!Taken
  <2>2. P!StartIteration => PP!StartIteration
    BY ParallelShares DEF P!StartIteration, PP!StartIteration
  <2>3. P!AssignJoin => PP!AssignJoin
    BY ParallelShares DEF P!AssignJoin, PP!AssignJoin
  <2>4. P!AdjustJoin => PP!AdjustJoin
    BY ParallelShares DEF P!AdjustJoin, PP!AdjustJoin
  <2>5. P!Break => PP!Break
    BY ParallelShares DEF P!Break, PP!Break, P!LimitReached, PP!LimitReached
  <2>6. P!NextIteration => PP!NextIteration
    BY ParallelShares DEF P!NextIteration, PP!NextIteration, P!LimitReached,
       PP!LimitReached
  <2>7. QED
    BY <2>1, <2>2, <2>3, <2>4, <2>5, <2>6, ParallelShares DEF P!Main, PP!Main
<1>2. ASSUME NEW p \in Point
      PROVE  P!PointTask(p) => PP!PointTask(p)
  <2>1. P!StayInCluster(p) => PP!StayInCluster(p)
    BY ParallelShares DEF P!StayInCluster, PP!StayInCluster
  <2>2. P!LeaveCluster(p) => PP!LeaveCluster(p)
    BY ParallelShares DEF P!LeaveCluster, PP!LeaveCluster
  <2>3. P!JoinCluster(p) => PP!JoinCluster(p)
    BY ParallelShares DEF P!JoinCluster, PP!JoinCluster
  <2>4. P!ClearDone(p) => PP!ClearDone(p)
    BY DEF P!ClearDone, PP!ClearDone
  <2>5. QED
    BY <2>1, <2>2, <2>3, <2>4 DEF P!PointTask, PP!PointTask
<1>3. ASSUME NEW k \in Cluster
      PROVE  P!ClusterTask(k) => PP!ClusterTask(k)
  <2>1. P!BeginRemovePoints(k) => PP!BeginRemovePoints(k)
    BY DEF P!BeginRemovePoints, PP!BeginRemovePoints
  <2>2. ASSUME NEW i
        PROVE  P!ScanPoint(k, i) => PP!ScanPoint(k, i)
    BY ParallelShares DEF P!ScanPoint, PP!ScanPoint, P!RemoveSet, PP!RemoveSet
  <2>3. P!FinishAdjust(k) => PP!FinishAdjust(k)
    BY DEF P!FinishAdjust, PP!FinishAdjust
  <2>4. P!RecalculateCenter(k) => PP!RecalculateCenter(k)
    BY ParallelShares DEF P!RecalculateCenter, PP!RecalculateCenter
  <2>5. QED
    BY <2>1, <2>2, <2>3, <2>4 DEF P!ClusterTask, PP!ClusterTask
<1>4. QED
  BY <1>1, <1>2, <1>3, ParallelShares DEF P!Next, PP!Next

-------------------------------------------------------------------------------
(* The course of Lloyd's iteration from given first members: c[m] are the   *)
(* centers that iteration m finds.  Either program, seen as Lloyd's         *)
(* iteration, is at a place of one course.                                  *)

\* Every point of the data set v goes to the nearest of the centers.
AssignBy(v, centers) == [p \in Point |-> SP!getIDNearestCenter(centers, v[p])]

Members(a, k) == {p \in Point : a[p] = k}

\* The mean of a set of points, whose order does not matter.
MeanOfPoints(v, points) ==
  MeanOf(S!ValuesOf(v, CHOOSE s \in S!L!Enumerations(points) : TRUE))

Recenter(v, centers, a) ==
  [k \in Cluster |->
     IF Members(a, k) = {} THEN centers[k] ELSE MeanOfPoints(v, Members(a, k))]

\* What the draws d make of the data set v.
FirstCenters(v, d) == [k \in Cluster |-> CenterAt(v[d[k + 1]])]

FirstAssignment(d) ==
  [p \in Point |-> IF \E k \in Cluster : d[k + 1] = p
                   THEN CHOOSE k \in Cluster : d[k + 1] = p
                   ELSE NoCluster]

\* The assignment that iteration m finds.
Before(v, d, c, m) == IF m = 1 THEN FirstAssignment(d) ELSE AssignBy(v, c[m - 1])

StableAt(v, d, c, m) == AssignBy(v, c[m]) = Before(v, d, c, m)

LastAt(v, d, c, m) == StableAt(v, d, c, m) \/ m >= MAX_ITERATIONS

IsCourse(v, d, c, n) ==
  /\ n \in Nat \ {0}
  /\ c[1] = FirstCenters(v, d)
  /\ \A m \in 1 .. n - 1 : /\ ~ LastAt(v, d, c, m)
                           /\ c[m + 1] = Recenter(v, c[m], AssignBy(v, c[m]))

\* Lloyd's variables assignment a, centers x, stable s, iter m and stage g are those of
\* a run that is in iteration m of the course c.
IsAt(v, d, c, a, x, s, m, g) ==
  /\ g \in {"top", "assigned", "recentred", "done"}
  /\ m \in Nat \ {0}
  /\ g = "top" => a = Before(v, d, c, m) /\ x = c[m]
  /\ g = "assigned" => a = AssignBy(v, c[m]) /\ x = c[m]
  /\ g \in {"recentred", "done"} =>
       a = AssignBy(v, c[m]) /\ x = Recenter(v, c[m], AssignBy(v, c[m]))
  /\ g # "top" => s = StableAt(v, d, c, m)
  /\ g = "done" => LastAt(v, d, c, m)

\* A step of Lloyd's iteration after the first members are drawn, when means ignore order.
LloydStep(v, a, x, s, m, g, a1, x1, s1, m1, g1) ==
  \/ a1 = a /\ x1 = x /\ s1 = s /\ m1 = m /\ g1 = g
  \/ /\ g = "top" /\ g1 = "assigned"
     /\ a1 = AssignBy(v, x) /\ s1 = (a1 = a)
     /\ x1 = x /\ m1 = m
  \/ /\ g = "assigned" /\ g1 = "recentred"
     /\ x1 = Recenter(v, x, a)
     /\ a1 = a /\ s1 = s /\ m1 = m
  \/ /\ g = "recentred" /\ g1 = "done"
     /\ s \/ m >= MAX_ITERATIONS
     /\ a1 = a /\ x1 = x /\ s1 = s /\ m1 = m
  \/ /\ g = "recentred" /\ g1 = "top"
     /\ ~ s /\ ~ (m >= MAX_ITERATIONS)
     /\ m1 = m + 1
     /\ a1 = a /\ x1 = x /\ s1 = s

\* A run that has a course to follow follows it to its end.
LEMMA CourseIsFollowed ==
  ASSUME NEW v, NEW d, NEW c, NEW n,
         NEW a, NEW x, NEW s, NEW m, NEW g, NEW a1, NEW x1, NEW s1, NEW m1, NEW g1,
         IsCourse(v, d, c, n), LastAt(v, d, c, n), m <= n,
         IsAt(v, d, c, a, x, s, m, g),
         LloydStep(v, a, x, s, m, g, a1, x1, s1, m1, g1)
  PROVE  IsAt(v, d, c, a1, x1, s1, m1, g1) /\ m1 <= n
<1>1. n \in Nat \ {0} /\ m \in Nat \ {0}
  BY DEF IsCourse, IsAt
<1>2. CASE a1 = a /\ x1 = x /\ s1 = s /\ m1 = m /\ g1 = g
  BY <1>2
<1>3. CASE /\ g = "top" /\ g1 = "assigned"
           /\ a1 = AssignBy(v, x) /\ s1 = (a1 = a)
           /\ x1 = x /\ m1 = m
  BY <1>3 DEF IsAt, StableAt
<1>4. CASE /\ g = "assigned" /\ g1 = "recentred"
           /\ x1 = Recenter(v, x, a)
           /\ a1 = a /\ s1 = s /\ m1 = m
  BY <1>4 DEF IsAt
<1>5. CASE /\ g = "recentred" /\ g1 = "done"
           /\ s \/ m >= MAX_ITERATIONS
           /\ a1 = a /\ x1 = x /\ s1 = s /\ m1 = m
  BY <1>5 DEF IsAt, LastAt
<1>6. CASE /\ g = "recentred" /\ g1 = "top"
           /\ ~ s /\ ~ (m >= MAX_ITERATIONS)
           /\ m1 = m + 1
           /\ a1 = a /\ x1 = x /\ s1 = s
  <2>1. ~ LastAt(v, d, c, m)
    BY <1>6 DEF IsAt, LastAt
  <2>2. m # n
    BY <2>1
  <2>3. m \in 1 .. n - 1 /\ m1 \in Nat \ {0, 1} /\ m1 - 1 = m /\ m1 <= n
    BY <1>1, <1>6, <2>2
  <2>4. c[m + 1] = Recenter(v, c[m], AssignBy(v, c[m]))
    BY <2>3 DEF IsCourse
  <2>5. Before(v, d, c, m1) = AssignBy(v, c[m])
    BY <2>3 DEF Before
  <2>6. QED
    BY <1>6, <2>3, <2>4, <2>5 DEF IsAt
<1>7. QED
  BY <1>2, <1>3, <1>4, <1>5, <1>6 DEF LloydStep

\* Courses that agree up to iteration m have the same assignment there.
LEMMA SameCourse ==
  ASSUME NEW v, NEW d, NEW c, NEW h, NEW n, IsCourse(v, d, c, n),
         \A m \in 1 .. n : h[m] = c[m]
  PROVE  /\ IsCourse(v, d, h, n)
         /\ \A m \in 1 .. n : /\ Before(v, d, h, m) = Before(v, d, c, m)
                              /\ LastAt(v, d, h, m) <=> LastAt(v, d, c, m)
<1>1. n \in Nat \ {0}
  BY DEF IsCourse
<1>2. ASSUME NEW m \in 1 .. n
      PROVE  /\ Before(v, d, h, m) = Before(v, d, c, m)
             /\ LastAt(v, d, h, m) <=> LastAt(v, d, c, m)
  <2>1. m # 1 => h[m - 1] = c[m - 1]
    BY <1>1
  <2>2. QED
    BY <2>1 DEF Before, StableAt, LastAt
<1>3. \A m \in 1 .. n - 1 : m \in 1 .. n /\ m + 1 \in 1 .. n
  BY <1>1
<1>4. IsCourse(v, d, h, n)
  BY <1>1, <1>2, <1>3 DEF IsCourse
<1>5. QED
  BY <1>2, <1>4

\* A run that is at the end of its course so far makes the course longer.
LEMMA CourseGrows ==
  ASSUME NEW v, NEW d, NEW c,
         NEW a, NEW x, NEW s, NEW m, NEW g, NEW a1, NEW x1, NEW s1, NEW m1, NEW g1,
         IsCourse(v, d, c, m),
         IsAt(v, d, c, a, x, s, m, g),
         LloydStep(v, a, x, s, m, g, a1, x1, s1, m1, g1)
  PROVE  \E h : IsCourse(v, d, h, m1) /\ IsAt(v, d, h, a1, x1, s1, m1, g1)
<1>1. m \in Nat \ {0}
  BY DEF IsAt
<1>2. CASE LastAt(v, d, c, m) \/ g # "recentred" \/ g1 # "top"
  <2>1. CASE LastAt(v, d, c, m)
    <3>1. IsAt(v, d, c, a1, x1, s1, m1, g1) /\ m1 <= m
      BY <1>1, <2>1, CourseIsFollowed
    <3>2. m1 = m
      BY <1>1, <3>1 DEF LloydStep
    <3>3. QED
      BY <3>1, <3>2
  <2>2. CASE g # "recentred" \/ g1 # "top"
    <3>1. m1 = m
      BY <2>2 DEF LloydStep
    <3>2. g1 = "top" => g = "top"
      BY <2>2 DEF LloydStep
    <3>3. IsAt(v, d, c, a1, x1, s1, m1, g1)
      BY <3>2 DEF LloydStep, IsAt, StableAt, LastAt
    <3>4. QED
      BY <3>1, <3>3
  <2>3. QED
    BY <1>2, <2>1, <2>2
<1>3. CASE ~ LastAt(v, d, c, m) /\ g = "recentred" /\ g1 = "top"
  <2> DEFINE h == [k \in 1 .. m + 1 |-> IF k = m + 1 THEN x ELSE c[k]]
  <2>1. /\ m1 = m + 1 /\ a1 = a /\ x1 = x
        /\ a = AssignBy(v, c[m]) /\ x = Recenter(v, c[m], AssignBy(v, c[m]))
    BY <1>3 DEF LloydStep, IsAt
  <2>2. h[m + 1] = x /\ \A k \in 1 .. m : h[k] = c[k]
    BY <1>1
  <2> HIDE DEF h
  <2>3. /\ IsCourse(v, d, h, m)
        /\ \A k \in 1 .. m : LastAt(v, d, h, k) <=> LastAt(v, d, c, k)
    <3>1. \A k \in 1 .. m : h[k] = c[k]
      BY <2>2
    <3>2. QED
      BY <3>1, SameCourse
  <2>4. m \in 1 .. m /\ m1 - 1 = m /\ m1 \in Nat \ {0, 1} /\ h[m] = c[m]
    BY <1>1, <2>1, <2>2
  <2>5. \A k \in 1 .. m1 - 1 : /\ ~ LastAt(v, d, h, k)
                               /\ h[k + 1] = Recenter(v, h[k], AssignBy(v, h[k]))
    <3> SUFFICES ASSUME NEW k \in 1 .. m1 - 1
                 PROVE  /\ ~ LastAt(v, d, h, k)
                        /\ h[k + 1] = Recenter(v, h[k], AssignBy(v, h[k]))
      OBVIOUS
    <3>1. CASE k = m
      BY <1>3, <2>1, <2>2, <2>3, <2>4, <3>1
    <3>2. CASE k # m
      <4>1. k \in 1 .. m - 1
        BY <2>4, <3>2
      <4>2. QED
        BY <2>3, <4>1 DEF IsCourse
    <3>3. QED
      BY <3>1, <3>2
  <2>6. IsCourse(v, d, h, m1)
    BY <2>3, <2>4, <2>5 DEF IsCourse
  <2>7. Before(v, d, h, m1) = AssignBy(v, h[m])
    BY <2>4 DEF Before
  <2>8. IsAt(v, d, h, a1, x1, s1, m1, g1)
    BY <1>3, <2>1, <2>2, <2>4, <2>7 DEF IsAt
  <2>9. QED
    BY <2>6, <2>8
<1>4. QED
  BY <1>2, <1>3

-------------------------------------------------------------------------------
(* The steps of either program are steps of that iteration.                *)

\* Both programs find the same nearest center.
LEMMA NearestAgree ==
  ASSUME DistancesAgree, NEW c \in [Cluster -> Center], NEW v \in Value
  PROVE  PP!getIDNearestCenter(c, v) = SP!getIDNearestCenter(c, v)
<1> DEFINE k == SP!getIDNearestCenter(c, v)
           j == PP!getIDNearestCenter(c, v)
<1>1. k \in Cluster /\ SP!IsFirstNearest(k, c, v)
  BY SerialShares, SP!NearestIsFirstNearest
<1>2. j \in Cluster /\ PP!IsFirstNearest(j, c, v)
  BY ParallelShares, PP!NearestIsFirstNearest
<1>3. \A i \in Cluster : SerialDist(c[i], v) = ParallelDist(c[i], v)
                         /\ SerialDist(c[i], v) \in Nat
  BY SerialShares DEF DistancesAgree, SP!ArithmeticAssumption
<1> HIDE DEF k, j
<1>4. /\ \A i \in Cluster : SerialDist(c[k], v) <= SerialDist(c[i], v)
      /\ \A i \in 0 .. k - 1 : SerialDist(c[k], v) < SerialDist(c[i], v)
      /\ \A i \in Cluster : ParallelDist(c[j], v) <= ParallelDist(c[i], v)
      /\ \A i \in 0 .. j - 1 : ParallelDist(c[j], v) < ParallelDist(c[i], v)
  BY <1>1, <1>2, SerialShares, ParallelShares DEF SP!IsFirstNearest, PP!IsFirstNearest
<1>5. k \in Nat /\ j \in Nat /\ (k < j => k \in 0 .. j - 1) /\ (j < k => j \in 0 .. k - 1)
  BY <1>1, <1>2 DEF Cluster
<1>6. ~ (k < j) /\ ~ (j < k)
  BY <1>1, <1>2, <1>3, <1>4, <1>5
<1>7. k = j
  BY <1>5, <1>6
<1>8. QED
  BY <1>7 DEF k, j

\* The mean of a set of points is the mean of any list of them.
LEMMA MeansAgree ==
  ASSUME MeansIgnoreOrder, NEW v \in Inputs, NEW points \in SUBSET Point, points # {},
         NEW s \in S!L!Enumerations(points)
  PROVE  MeanOf(S!ValuesOf(v, s)) = MeanOfPoints(v, points)
BY SerialShares DEF MeansIgnoreOrder, MeanOfPoints

\* What a step of Lloyd's iteration is, apart from that of the first members.
LEMMA SerialLloydSteps ==
  ASSUME MeansIgnoreOrder, values \in Inputs, [SP!L!Next]_(SP!L!vars), s_phase # "seed"
  PROVE  LloydStep(values,
           SP!AbstractAssignment, SP!AbstractCenters, SP!stable, s_iter, SP!stage,
           SP!AbstractAssignment', SP!AbstractCenters', SP!stable', s_iter', SP!stage')
<1> DEFINE a == SP!AbstractAssignment
           x == SP!AbstractCenters
<1>1. SP!stage # "seed"
  BY DEF SP!stage
<1>2. CASE UNCHANGED SP!L!vars
  <2>1. /\ a' = a /\ x' = x /\ s_iter' = s_iter
        /\ SP!stable' = SP!stable /\ SP!stage' = SP!stage
    BY <1>2 DEF SP!L!vars, SP!stable, SP!stage
  <2>2. QED
    BY <2>1 DEF LloydStep
<1>3. CASE SP!L!Seed
  BY <1>1, <1>3 DEF SP!L!Seed, SP!stage
<1>4. CASE SP!L!Assign
  <2>1. /\ SP!stage = "top" /\ SP!stage' = "assigned"
        /\ a' = [p \in SP!L!Point |-> SP!L!getIDNearestCenter(x, values[p])]
        /\ SP!stable' = (a' = a)
        /\ x' = x /\ s_iter' = s_iter
    BY <1>4 DEF SP!L!Assign, SP!stable, SP!stage
  <2>2. a' = AssignBy(values, x)
    BY <2>1, SP!SharedDefinitions, SerialShares DEF AssignBy
  <2>3. QED
    BY <2>1, <2>2 DEF LloydStep
<1>5. CASE SP!L!Recenter
  <2>1. /\ SP!stage = "assigned" /\ SP!stage' = "recentred"
        /\ x' \in [Cluster -> UNION {SP!L!NextCenters(k) : k \in Cluster}]
        /\ \A k \in Cluster : x'[k] \in SP!L!NextCenters(k)
        /\ SP!stable' = SP!stable /\ a' = a /\ s_iter' = s_iter
    BY <1>5, SP!SharedDefinitions, SerialShares DEF SP!L!Recenter, SP!stable, SP!stage
  <2>2. ASSUME NEW k \in Cluster
        PROVE  x'[k] = Recenter(values, x, a)[k]
    <3>1. SP!L!Members(k) = Members(a, k)
      BY SP!SharedDefinitions, SerialShares DEF SP!L!Members, Members
    <3>2. \A points : SP!L!Enumerations(points) = S!L!Enumerations(points)
      BY DEF SP!L!Enumerations, S!L!Enumerations, SP!L!Injection, S!L!Injection,
             SP!L!IsInjective, S!L!IsInjective, SP!L!Cardinality, S!L!Cardinality
    <3>3. CASE Members(a, k) = {}
      BY <2>1, <3>1, <3>3 DEF SP!L!NextCenters, Recenter
    <3>4. CASE Members(a, k) # {}
      <4>1. PICK t \in S!L!Enumerations(Members(a, k)) :
              x'[k] = MeanOf(SP!L!ValuesOf(values, t))
        BY <2>1, <3>1, <3>2, <3>4 DEF SP!L!NextCenters
      <4>2. SP!L!ValuesOf(values, t) = S!ValuesOf(values, t)
        BY SP!SharedDefinitions, SerialShares
      <4>3. Members(a, k) \in SUBSET Point
        BY DEF Members
      <4>4. x'[k] = MeanOfPoints(values, Members(a, k))
        BY <3>4, <4>1, <4>2, <4>3, MeansAgree
      <4>5. QED
        BY <3>4, <4>4 DEF Recenter
    <3>5. QED
      BY <3>3, <3>4
  <2>3. x' = Recenter(values, x, a)
    BY <2>1, <2>2 DEF Recenter
  <2>4. QED
    BY <2>1, <2>3 DEF LloydStep
<1>6. CASE SP!L!Stop
  <2>1. /\ SP!stage = "recentred" /\ SP!stage' = "done"
        /\ SP!stable \/ s_iter >= MAX_ITERATIONS
        /\ a' = a /\ x' = x /\ SP!stable' = SP!stable /\ s_iter' = s_iter
    BY <1>6 DEF SP!L!Stop, SP!L!LimitReached, SP!stable, SP!stage
  <2>2. QED
    BY <2>1 DEF LloydStep
<1>7. CASE SP!L!Repeat
  <2>1. /\ SP!stage = "recentred" /\ SP!stage' = "top"
        /\ ~ SP!stable /\ ~ (s_iter >= MAX_ITERATIONS) /\ s_iter' = s_iter + 1
        /\ a' = a /\ x' = x /\ SP!stable' = SP!stable
    BY <1>7 DEF SP!L!Repeat, SP!L!LimitReached, SP!stable, SP!stage
  <2>2. QED
    BY <2>1 DEF LloydStep
<1>8. QED
  BY <1>2, <1>3, <1>4, <1>5, <1>6, <1>7 DEF SP!L!Next

\* A step of the parallel run after seeding is a step of Lloyd's iteration, or none.
LEMMA ParallelLloydSteps ==
  ASSUME PP!IInv, DistancesAgree, MeansIgnoreOrder, values \in Inputs,
         [PP!L!Next]_(PP!L!vars), p_phase # "seed"
  PROVE  LloydStep(values,
           PP!assignment, PP!AbstractCenters, PP!AbstractStable,
           p_iter, PP!AbstractStage,
           PP!assignment', PP!AbstractCenters', PP!AbstractStable',
           p_iter', PP!AbstractStage')
<1> DEFINE a == PP!assignment
           x == PP!AbstractCenters
<1>1. PP!AbstractStage # "seed"
  BY DEF PP!AbstractStage
<1>2. CASE UNCHANGED PP!L!vars
  <2>1. /\ a' = a /\ x' = x /\ p_iter' = p_iter
        /\ PP!AbstractStable' = PP!AbstractStable /\ PP!AbstractStage' = PP!AbstractStage
    BY <1>2 DEF PP!L!vars, PP!assignment
  <2>2. QED
    BY <2>1 DEF LloydStep
<1>3. CASE PP!L!Seed
  BY <1>1, <1>3 DEF PP!L!Seed
<1>4. CASE PP!L!Assign
  <2>1. /\ PP!AbstractStage = "top" /\ PP!AbstractStage' = "assigned"
        /\ a' = [p \in PP!L!Point |-> PP!L!getIDNearestCenter(x, values[p])]
        /\ PP!AbstractStable' = (a' = a)
        /\ x' = x /\ p_iter' = p_iter
    BY <1>4 DEF PP!L!Assign, PP!assignment
  <2>2. x \in [Cluster -> Center] /\ values \in [Point -> Value]
    <3>1. p_phase = "top"
      BY <2>1 DEF PP!AbstractStage
    <3>2. PP!Built = Cluster /\ PP!AbstractCenters = p_central_values
      BY <3>1, ParallelShares, PP!CentersAreStored, PP!BuiltIsCluster
    <3>3. QED
      BY <3>2, ParallelShares DEF PP!IInv, PP!TypeOK
  <2>3. a' = AssignBy(values, x)
    BY <2>1, <2>2, NearestAgree, PP!SharedDefinitions, ParallelShares DEF AssignBy
  <2>4. QED
    BY <2>1, <2>3 DEF LloydStep
<1>5. CASE PP!L!Recenter
  <2>1. /\ PP!AbstractStage = "assigned" /\ PP!AbstractStage' = "recentred"
        /\ x' \in [Cluster -> UNION {PP!L!NextCenters(k) : k \in Cluster}]
        /\ \A k \in Cluster : x'[k] \in PP!L!NextCenters(k)
        /\ PP!AbstractStable' = PP!AbstractStable /\ a' = a /\ p_iter' = p_iter
    BY <1>5, PP!SharedDefinitions, ParallelShares DEF PP!L!Recenter, PP!assignment
  <2>2. ASSUME NEW k \in Cluster
        PROVE  x'[k] = Recenter(values, x, a)[k]
    <3>1. PP!L!Members(k) = Members(a, k)
      BY PP!SharedDefinitions, ParallelShares DEF PP!L!Members, PP!assignment, Members
    <3>2. \A points : PP!L!Enumerations(points) = S!L!Enumerations(points)
      BY DEF PP!L!Enumerations, S!L!Enumerations, PP!L!Injection, S!L!Injection,
             PP!L!IsInjective, S!L!IsInjective, PP!L!Cardinality, S!L!Cardinality
    <3>3. CASE Members(a, k) = {}
      BY <2>1, <3>1, <3>3 DEF PP!L!NextCenters, Recenter
    <3>4. CASE Members(a, k) # {}
      <4>1. PICK t \in S!L!Enumerations(Members(a, k)) :
              x'[k] = MeanOf(PP!L!ValuesOf(values, t))
        BY <2>1, <3>1, <3>2, <3>4 DEF PP!L!NextCenters
      <4>2. PP!L!ValuesOf(values, t) = S!ValuesOf(values, t)
        BY DEF PP!L!ValuesOf, S!ValuesOf
      <4>3. Members(a, k) \in SUBSET Point
        BY DEF Members
      <4>4. x'[k] = MeanOfPoints(values, Members(a, k))
        BY <3>4, <4>1, <4>2, <4>3, MeansAgree
      <4>5. QED
        BY <3>4, <4>4 DEF Recenter
    <3>5. QED
      BY <3>3, <3>4
  <2>3. x' = Recenter(values, x, a)
    BY <2>1, <2>2 DEF Recenter
  <2>4. QED
    BY <2>1, <2>3 DEF LloydStep
<1>6. CASE PP!L!Stop
  <2>1. /\ PP!AbstractStage = "recentred" /\ PP!AbstractStage' = "done"
        /\ PP!AbstractStable \/ p_iter >= MAX_ITERATIONS
        /\ a' = a /\ x' = x /\ PP!AbstractStable' = PP!AbstractStable /\ p_iter' = p_iter
    BY <1>6 DEF PP!L!Stop, PP!L!LimitReached, PP!assignment
  <2>2. QED
    BY <2>1 DEF LloydStep
<1>7. CASE PP!L!Repeat
  <2>1. /\ PP!AbstractStage = "recentred" /\ PP!AbstractStage' = "top"
        /\ ~ PP!AbstractStable /\ ~ (p_iter >= MAX_ITERATIONS) /\ p_iter' = p_iter + 1
        /\ a' = a /\ x' = x /\ PP!AbstractStable' = PP!AbstractStable
    BY <1>7 DEF PP!L!Repeat, PP!L!LimitReached, PP!assignment
  <2>2. QED
    BY <2>1 DEF LloydStep
<1>8. QED
  BY <1>2, <1>3, <1>4, <1>5, <1>6, <1>7 DEF PP!L!Next

-------------------------------------------------------------------------------
(* The first members.                                                      *)

\* A run at its first members is at the start of a course of its own.
LEMMA CourseStarts ==
  ASSUME NEW v, NEW d, NEW s
  PROVE  \E c : /\ IsCourse(v, d, c, 1)
                /\ IsAt(v, d, c, FirstAssignment(d), FirstCenters(v, d), s, 1, "top")
<1> DEFINE c == [m \in {1} |-> FirstCenters(v, d)]
<1>1. IsCourse(v, d, c, 1)
  BY DEF IsCourse
<1>2. IsAt(v, d, c, FirstAssignment(d), FirstCenters(v, d), s, 1, "top")
  BY DEF IsAt, Before
<1>3. QED
  BY <1>1, <1>2

\* What follows the draws and has one first member per cluster has the first members
\* of the draws.
LEMMA AllDrawn ==
  ASSUME draws \in Seq(Point), Len(draws) = CLUSTERS,
         NEW drawn \in Seq(Point), FollowsDraws(drawn), Len(drawn) = CLUSTERS
  PROVE  drawn = draws
BY DEF FollowsDraws

\* An assignment of the drawn points only is the first assignment.
LEMMA FirstAssignmentIs ==
  ASSUME NEW d \in Seq(Point), Len(d) = CLUSTERS,
         NEW a \in [Point -> Cluster \cup {NoCluster}],
         \A k \in Cluster : a[d[k + 1]] = k,
         \A p \in Point : a[p] # NoCluster => \E m \in 1 .. CLUSTERS : p = d[m]
  PROVE  a = FirstAssignment(d)
<1>0. CLUSTERS \in Nat
  BY SizesAssumption DEF S!SizesAssumption
<1>1. ASSUME NEW p \in Point
      PROVE  a[p] = FirstAssignment(d)[p]
  <2>1. CASE \E k \in Cluster : d[k + 1] = p
    <3>1. \A k \in Cluster : d[k + 1] = p => a[p] = k
      OBVIOUS
    <3>2. FirstAssignment(d)[p] = CHOOSE k \in Cluster : d[k + 1] = p
      BY <2>1 DEF FirstAssignment
    <3>3. QED
      BY <2>1, <3>1, <3>2
  <2>2. CASE ~ \E k \in Cluster : d[k + 1] = p
    <3>1. \A m \in 1 .. CLUSTERS : m - 1 \in Cluster /\ (m - 1) + 1 = m
      BY <1>0 DEF Cluster
    <3>2. a[p] = NoCluster
      BY <2>2, <3>1
    <3>3. QED
      BY <2>2, <3>2 DEF FirstAssignment
  <2>3. QED
    BY <2>1, <2>2
<1>2. QED
  BY <1>1 DEF FirstAssignment

\* When the serial run has drawn its last first member it is at the start of the course.
LEMMA SerialStarts ==
  ASSUME SP!IInv, SP!DrawnInv, NEW p \in Point, SP!SeedCluster(p), SP!IInv',
         draws \in Seq(Point), Len(draws) = CLUSTERS,
         FollowsDraws(s_prohibited_indexes'), s_phase' # "seed"
  PROVE  /\ SP!AbstractAssignment' = FirstAssignment(draws)
         /\ SP!AbstractCenters' = FirstCenters(values, draws)
         /\ SP!stage' = "top"
<1>0. CLUSTERS \in Nat
  BY SizesAssumption DEF S!SizesAssumption
<1>1. /\ s_phase = "seed" /\ s_phase' = "top" /\ values' = values
      /\ s_prohibited_indexes' = Append(s_prohibited_indexes, p)
      /\ s_id_cluster' = [s_id_cluster EXCEPT ![p] = Len(s_prohibited_indexes)]
      /\ Len(s_prohibited_indexes) + 1 = CLUSTERS
  BY DEF SP!SeedCluster
<1>2. /\ s_prohibited_indexes' \in Seq(Point) /\ Len(s_prohibited_indexes') = CLUSTERS
      /\ SP!Built' = Cluster
      /\ \A k \in Cluster :
           /\ s_central_values'[k] = CenterAt(values[s_prohibited_indexes'[k + 1]])
           /\ s_id_cluster'[s_prohibited_indexes'[k + 1]] = k
  <2>1. SP!Built' = Cluster
    BY <1>0, <1>1, SP!SeedClusterDrawn, SerialShares DEF Cluster
  <2>2. QED
    BY <1>1, <2>1, SP!SeedClusterDrawn, SerialShares
<1>3. s_prohibited_indexes' = draws
  BY <1>2, AllDrawn
<1>4. /\ s_id_cluster' \in [Point -> Cluster \cup {NoCluster}]
      /\ s_central_values' \in [Cluster -> Center]
  BY <1>2, SerialShares DEF SP!IInv, SP!TypeOK
<1>5. ASSUME NEW q \in Point, s_id_cluster'[q] # NoCluster
      PROVE  \E m \in 1 .. CLUSTERS : q = draws[m]
  <2>1. /\ s_prohibited_indexes \in Seq(Point)
        /\ s_id_cluster \in [Point -> Cluster \cup {NoCluster}]
    BY SerialShares DEF SP!IInv, SP!TypeOK
  <2> DEFINE n == Len(s_prohibited_indexes)
  <2>2. /\ n \in Nat /\ n + 1 = CLUSTERS
        /\ draws = Append(s_prohibited_indexes, p)
    BY <1>1, <1>3, <2>1
  <2>3. draws[n + 1] = p /\ \A m \in 1 .. n : draws[m] = s_prohibited_indexes[m]
    BY <2>1, <2>2
  <2>4. CASE q = p
    <3>1. draws[CLUSTERS] = p /\ CLUSTERS \in 1 .. CLUSTERS
      BY <2>2, <2>3
    <3>2. QED
      BY <2>4, <3>1
  <2>5. CASE q # p
    <3>1. s_id_cluster[q] # NoCluster
      BY <1>1, <1>5, <2>1, <2>5
    <3>2. q \in SP!Range(s_prohibited_indexes)
      BY <1>1, <3>1, SerialShares DEF SP!IInv, SP!LoopsInv
    <3>3. PICK m \in 1 .. Len(s_prohibited_indexes) : q = s_prohibited_indexes[m]
      BY <2>1, <3>2 DEF SP!Range
    <3>4. m \in 1 .. CLUSTERS /\ draws[m] = q
      BY <2>2, <2>3, <3>3
    <3>5. QED
      BY <3>4
  <2>6. QED
    BY <2>4, <2>5
<1>6. s_id_cluster' = FirstAssignment(draws)
  BY <1>2, <1>3, <1>4, <1>5, FirstAssignmentIs
<1>7. SP!AbstractAssignment' = s_id_cluster'
  BY <1>1, <1>4, SerialShares DEF SP!AbstractAssignment
<1>8. SP!AbstractCenters' = s_central_values'
  BY <1>1, <1>2, <1>4, SerialShares DEF SP!AbstractCenters
<1>9. s_central_values' = FirstCenters(values, draws)
  BY <1>2, <1>3, <1>4 DEF FirstCenters
<1>10. QED
  BY <1>1, <1>6, <1>7, <1>8, <1>9 DEF SP!stage

\* When the parallel run has drawn its last first member it is at the start of the course.
LEMMA ParallelStarts ==
  ASSUME PP!IInv, PP!SettledInv, NEW p \in Point, PP!SeedCluster(p), PP!IInv',
         draws \in Seq(Point), Len(draws) = CLUSTERS,
         FollowsDraws(p_prohibited_indexes'), p_phase' # "seed"
  PROVE  /\ PP!assignment' = FirstAssignment(draws)
         /\ PP!AbstractCenters' = FirstCenters(values, draws)
         /\ PP!AbstractStage' = "top"
<1>0. CLUSTERS \in Nat
  BY SizesAssumption DEF S!SizesAssumption
<1>1. /\ p_phase = "seed" /\ p_phase' = "top" /\ values' = values
      /\ p_prohibited_indexes' = Append(p_prohibited_indexes, p)
      /\ p_id_cluster' = [p_id_cluster EXCEPT ![p] = Len(p_prohibited_indexes)]
      /\ Len(p_prohibited_indexes) + 1 = CLUSTERS
  BY DEF PP!SeedCluster
<1>2. /\ p_prohibited_indexes' \in Seq(Point) /\ Len(p_prohibited_indexes') = CLUSTERS
      /\ PP!Built' = Cluster
      /\ \A k \in Cluster :
           /\ p_central_values'[k] = CenterAt(values[p_prohibited_indexes'[k + 1]])
           /\ p_id_cluster'[p_prohibited_indexes'[k + 1]] = k
  <2>1. PP!Built' = Cluster
    BY <1>0, <1>1, PP!SeedClusterSettled, ParallelShares DEF Cluster
  <2>2. QED
    BY <1>1, <2>1, PP!SeedClusterSettled, ParallelShares
<1>3. p_prohibited_indexes' = draws
  BY <1>2, AllDrawn
<1>4. /\ p_id_cluster' \in [Point -> Cluster \cup {NoCluster}]
      /\ p_central_values' \in [Cluster -> Center]
  BY <1>2, ParallelShares DEF PP!IInv, PP!TypeOK
<1>5. ASSUME NEW q \in Point, p_id_cluster'[q] # NoCluster
      PROVE  \E m \in 1 .. CLUSTERS : q = draws[m]
  <2>1. /\ p_prohibited_indexes \in Seq(Point)
        /\ p_id_cluster \in [Point -> Cluster \cup {NoCluster}]
    BY ParallelShares DEF PP!IInv, PP!TypeOK
  <2> DEFINE n == Len(p_prohibited_indexes)
  <2>2. /\ n \in Nat /\ n + 1 = CLUSTERS
        /\ draws = Append(p_prohibited_indexes, p)
    BY <1>1, <1>3, <2>1
  <2>3. draws[n + 1] = p /\ \A m \in 1 .. n : draws[m] = p_prohibited_indexes[m]
    BY <2>1, <2>2
  <2>4. CASE q = p
    <3>1. draws[CLUSTERS] = p /\ CLUSTERS \in 1 .. CLUSTERS
      BY <2>2, <2>3
    <3>2. QED
      BY <2>4, <3>1
  <2>5. CASE q # p
    <3>1. p_id_cluster[q] # NoCluster
      BY <1>1, <1>5, <2>1, <2>5
    <3>2. q \in PP!Range(p_prohibited_indexes)
      BY <1>1, <3>1, ParallelShares DEF PP!IInv, PP!SeedInv
    <3>3. PICK m \in 1 .. Len(p_prohibited_indexes) : q = p_prohibited_indexes[m]
      BY <2>1, <3>2 DEF PP!Range
    <3>4. m \in 1 .. CLUSTERS /\ draws[m] = q
      BY <2>2, <2>3, <3>3
    <3>5. QED
      BY <3>4
  <2>6. QED
    BY <2>4, <2>5
<1>6. p_id_cluster' = FirstAssignment(draws)
  BY <1>2, <1>3, <1>4, <1>5, FirstAssignmentIs
<1>7. PP!assignment' = p_id_cluster'
  BY <1>1, <1>4, ParallelShares DEF PP!assignment, PP!AbstractAssignment
<1>8. PP!AbstractCenters' = p_central_values'
  BY <1>1, <1>2, <1>4, ParallelShares DEF PP!AbstractCenters
<1>9. p_central_values' = FirstCenters(values, draws)
  BY <1>2, <1>3, <1>4 DEF FirstCenters
<1>10. QED
  BY <1>1, <1>6, <1>7, <1>8, <1>9 DEF PP!AbstractStage

-------------------------------------------------------------------------------
(* The invariant of the test program.                                      *)

ProgramsInv == SP!IInv /\ SP!DrawnInv /\ PP!IInv /\ PP!SettledInv

Crowded == CLUSTERS > TOTAL_POINTS

\* The data set and the draws are usable.
InputInv ==
  /\ values \in Inputs
  /\ draws \in Seq(Point)
  /\ ~ Crowded => Len(draws) = CLUSTERS

\* Where main() is, and that no run has begun its iterations before it has its first
\* members, or at all when there are too few points.
StagesInv ==
  /\ stage \in {"serial", "parallel", "compare", "printed"}
  /\ stage = "serial" /\ ~ Crowded => p_phase = "seed"
  /\ stage # "serial" => s_phase = "done"
  /\ stage \in {"compare", "printed"} => p_phase = "done"
  /\ s_phase = "seed" => s_iter = 1
  /\ p_phase = "seed" => p_iter = 1
  /\ Crowded => /\ s_phase = "done" /\ p_phase = "done"
                /\ s_iter = p_iter /\ s_id_cluster = p_id_cluster
                /\ s_central_values = p_central_values

SerialIsAt(c) ==
  IsAt(values, draws, c,
       SP!AbstractAssignment, SP!AbstractCenters, SP!stable, s_iter, SP!stage)

ParallelIsAt(c) ==
  IsAt(values, draws, c,
       PP!assignment, PP!AbstractCenters, PP!AbstractStable, p_iter, PP!AbstractStage)

\* The serial run makes a course, and the parallel run follows it.
CourseInv ==
  ~ Crowded =>
    \E c : /\ s_phase # "seed" => IsCourse(values, draws, c, s_iter) /\ SerialIsAt(c)
           /\ p_phase # "seed" => ParallelIsAt(c) /\ p_iter <= s_iter

\* As long as the two clusterings are the same the comparison maps every id to itself.
ComparisonInv ==
  /\ c_results_match
  /\ \A k \in DOMAIN c_logical_clusters : c_logical_clusters[k] = k

TestInv == ProgramsInv /\ InputInv /\ StagesInv /\ CourseInv /\ ComparisonInv

-------------------------------------------------------------------------------

\* Neither program changes the data set, or does anything without points enough.
LEMMA SerialKeeps ==
  SP!Next => /\ values' = values /\ s_phase # "done"
             /\ s_phase # "seed" => s_phase' # "seed"
BY DEF SP!Next, SP!SeedCluster, SP!StartIteration, SP!StayInCluster, SP!MoveToNearest,
   SP!EndAssign, SP!RecalculateCenter, SP!Break, SP!NextIteration

\* A parallel step changes no point, leaves no finished run and never seeds again.
LEMMA ParallelKeeps ==
  PP!Next => /\ values' = values /\ p_phase # "done"
             /\ p_phase # "seed" => p_phase' # "seed"
BY DEF PP!Next, PP!Main, PP!PointTask, PP!ClusterTask, PP!SeedCluster, PP!StartIteration,
   PP!AssignJoin, PP!AdjustJoin, PP!Break, PP!NextIteration, PP!StayInCluster,
   PP!LeaveCluster, PP!JoinCluster, PP!ClearDone, PP!BeginRemovePoints, PP!ScanPoint,
   PP!FinishAdjust, PP!RecalculateCenter

\* A step of the test is a step of one program or none.
LEMMA StepsOfPrograms ==
  ASSUME [Next]_vars
  PROVE  /\ [SP!Next]_(SP!vars) /\ [PP!Next]_(PP!vars)
         /\ UNCHANGED <<values, draws>>
<1>1. CASE SerialRun
  BY <1>1, SerialNextIs, SerialKeeps DEF SerialRun, parallelVars, PP!vars, PP!seedVars,
     PP!assignVars, PP!adjustVars
<1>2. CASE ParallelRun
  BY <1>2, ParallelNextIs, ParallelKeeps DEF ParallelRun, serialVars, SP!vars
<1>3. CASE UNCHANGED <<values, draws, serialVars, parallelVars>>
  BY <1>3 DEF serialVars, parallelVars, SP!vars, PP!vars, PP!seedVars, PP!assignVars,
     PP!adjustVars
<1>4. QED
  BY <1>1, <1>2, <1>3
     DEF Next, StartParallel, StartComparison, Compare, PrintVerdict, vars

\* What is proved of each program alone holds in the test.
LEMMA NextPrograms == ASSUME ProgramsInv, [Next]_vars PROVE ProgramsInv'
<1>1. [SP!Next]_(SP!vars) /\ [PP!Next]_(PP!vars)
  BY StepsOfPrograms
<1>2. SP!IInv' /\ SP!DrawnInv'
  BY <1>1, SerialShares, SP!NextInv, SP!NextDrawn DEF ProgramsInv
<1>3. PP!IInv' /\ PP!SettledInv'
  BY <1>1, ParallelShares, PP!NextInv, PP!NextSettled DEF ProgramsInv
<1>4. QED
  BY <1>2, <1>3 DEF ProgramsInv

\* Both programs refuse the same inputs: more clusters than points.
LEMMA NotCrowded ==
  /\ CLUSTERS \in Nat \ {0} /\ TOTAL_POINTS \in Nat
  /\ Crowded <=> S!TooManyClusters
  /\ Crowded <=> P!TooManyClusters
  /\ Crowded <=> SP!TooManyClusters
  /\ Crowded <=> PP!TooManyClusters
BY SizesAssumption DEF S!SizesAssumption, Crowded, S!TooManyClusters, P!TooManyClusters,
   SP!TooManyClusters, PP!TooManyClusters

\* The test starts in its invariant.
LEMMA InitTest == Init => TestInv
<1> SUFFICES ASSUME Init
             PROVE  TestInv
  OBVIOUS
<1>1. ProgramsInv
  BY SerialInitIs, ParallelInitIs, SerialShares, ParallelShares, SP!InitInv, SP!InitDrawn,
     PP!InitInv, PP!InitSettled DEF Init, ProgramsInv
<1>2. InputInv
  <2>1. values \in Inputs
    BY DEF Init, S!Init
  <2> DEFINE n == Min({CLUSTERS, TOTAL_POINTS})
  <2>2. n \in Nat /\ (~ Crowded => n = CLUSTERS)
    BY NotCrowded DEF Min, Crowded
  <2>3. draws \in [1 .. n -> Point]
    BY DEF Init, Injection, Point
  <2> HIDE DEF n
  <2>4. draws \in Seq(Point) /\ Len(draws) = n
    BY <2>2, <2>3
  <2>5. QED
    BY <2>1, <2>2, <2>4 DEF InputInv
<1>3. StagesInv
  <2>1. /\ s_iter = 1 /\ p_iter = 1 /\ stage = "serial"
        /\ s_phase = S!FirstPhase /\ p_phase = P!FirstPhase
        /\ s_id_cluster = [q \in Point |-> NoCluster]
        /\ p_id_cluster = [q \in Point |-> NoCluster]
        /\ s_central_values = [k \in {} |-> k]
        /\ p_central_values = [k \in {} |-> k]
    BY SerialShares, ParallelShares DEF Init, S!Init, P!Init
  <2>2. QED
    BY <2>1, NotCrowded DEF StagesInv, S!FirstPhase, P!FirstPhase
<1>4. CourseInv
  BY NotCrowded DEF Init, S!Init, P!Init, S!FirstPhase, P!FirstPhase, CourseInv
<1>5. ComparisonInv
  BY DEF Init, C!StartLoop, ComparisonInv
<1>6. QED
  BY <1>1, <1>2, <1>3, <1>4, <1>5 DEF TestInv

\* The programs run one after the other.
LEMMA NextStages == ASSUME StagesInv, [Next]_vars PROVE StagesInv'
<1>1. CASE SerialRun
  <2>1. stage = "serial" /\ stage' = stage /\ UNCHANGED parallelVars /\ SP!Next
    BY <1>1, SerialNextIs DEF SerialRun
  <2>2. s_phase # "done" /\ ~ Crowded
    BY <2>1, SerialKeeps DEF StagesInv
  <2>3. s_phase' = "seed" => s_iter' = 1
    BY <2>1, SerialKeeps
       DEF StagesInv, SP!Next, SP!SeedCluster, SP!StartIteration, SP!StayInCluster,
           SP!MoveToNearest, SP!EndAssign, SP!RecalculateCenter, SP!Break,
           SP!NextIteration
  <2>4. QED
    BY <2>1, <2>2, <2>3 DEF StagesInv, parallelVars
<1>2. CASE ParallelRun
  <2>1. stage = "parallel" /\ stage' = stage /\ UNCHANGED serialVars /\ PP!Next
    BY <1>2, ParallelNextIs DEF ParallelRun
  <2>2. p_phase # "done" /\ ~ Crowded
    BY <2>1, ParallelKeeps DEF StagesInv
  <2>3. p_phase' = "seed" => p_iter' = 1
    <3> SUFFICES ASSUME p_phase' = "seed"
                 PROVE  p_iter' = 1
      OBVIOUS
    <3>1. p_phase = "seed"
      BY <2>1, ParallelKeeps
    <3>2. PICK q \in PP!Point : PP!SeedCluster(q)
      BY <2>1, <3>1
         DEF PP!Next, PP!Main, PP!PointTask, PP!ClusterTask, PP!StartIteration,
             PP!AssignJoin, PP!AdjustJoin, PP!Break, PP!NextIteration, PP!StayInCluster,
             PP!LeaveCluster, PP!JoinCluster, PP!ClearDone, PP!BeginRemovePoints,
             PP!ScanPoint, PP!FinishAdjust, PP!RecalculateCenter
    <3>3. QED
      BY <3>1, <3>2 DEF StagesInv, PP!SeedCluster
  <2>4. QED
    BY <2>1, <2>2, <2>3 DEF StagesInv, serialVars
<1>3. CASE UNCHANGED <<serialVars, parallelVars>> /\ ~ SerialRun /\ ~ ParallelRun
  BY <1>3 DEF Next, StartParallel, StartComparison, Compare, PrintVerdict, vars, serialVars,
     parallelVars, StagesInv
<1>4. QED
  BY <1>1, <1>2, <1>3
     DEF Next, StartParallel, StartComparison, Compare, PrintVerdict, vars

\* A step of the serial run makes the course or makes it longer.
LEMMA SerialRunCourse ==
  ASSUME MeansIgnoreOrder, TestInv, SerialRun, ProgramsInv'
  PROVE  CourseInv'
<1> SUFFICES ASSUME ~ Crowded
             PROVE  CourseInv'
  BY DEF CourseInv, Crowded
<1>1. /\ SP!Next /\ FollowsDraws(s_prohibited_indexes')
      /\ p_phase = "seed" /\ p_phase' = "seed"
      /\ values' = values /\ draws' = draws
  BY SerialNextIs, SerialKeeps DEF SerialRun, TestInv, StagesInv, parallelVars
<1>2. CASE s_phase' = "seed"
  BY <1>1, <1>2 DEF CourseInv
<1>3. ASSUME NEW p \in Point, SP!SeedCluster(p), s_phase' # "seed"
      PROVE  CourseInv'
  <2>1. /\ SP!AbstractAssignment' = FirstAssignment(draws)
        /\ SP!AbstractCenters' = FirstCenters(values, draws)
        /\ SP!stage' = "top"
    BY <1>1, <1>3, SerialStarts DEF TestInv, InputInv, ProgramsInv
  <2>2. s_iter' = 1
    BY <1>3 DEF SP!SeedCluster, TestInv, StagesInv
  <2>3. PICK c : /\ IsCourse(values, draws, c, 1)
                 /\ IsAt(values, draws, c, FirstAssignment(draws),
                         FirstCenters(values, draws), SP!stable', 1, "top")
    BY CourseStarts
  <2>4. IsCourse(values', draws', c, s_iter') /\ SerialIsAt(c)'
    BY <1>1, <2>1, <2>2, <2>3 DEF SerialIsAt
  <2>5. QED
    BY <1>1, <2>4 DEF CourseInv
<1>4. CASE s_phase # "seed"
  <2>1. PICK c : IsCourse(values, draws, c, s_iter) /\ SerialIsAt(c)
    BY <1>4 DEF TestInv, CourseInv
  <2>2. LloydStep(values,
          SP!AbstractAssignment, SP!AbstractCenters, SP!stable, s_iter, SP!stage,
          SP!AbstractAssignment', SP!AbstractCenters', SP!stable', s_iter', SP!stage')
    BY <1>1, <1>4, SerialShares, SP!NextMaps, SerialLloydSteps
       DEF TestInv, ProgramsInv, InputInv
  <2>3. PICK h : /\ IsCourse(values, draws, h, s_iter')
                 /\ IsAt(values, draws, h, SP!AbstractAssignment', SP!AbstractCenters',
                         SP!stable', s_iter', SP!stage')
    BY <2>1, <2>2, CourseGrows DEF SerialIsAt
  <2>4. IsCourse(values', draws', h, s_iter') /\ SerialIsAt(h)'
    BY <1>1, <2>3 DEF SerialIsAt
  <2>5. QED
    BY <1>1, <2>4 DEF CourseInv
<1>5. CASE s_phase = "seed" /\ s_phase' # "seed"
  <2>1. PICK p \in Point : SP!SeedCluster(p)
    BY <1>1, <1>5, SerialShares
       DEF SP!Next, SP!StartIteration, SP!StayInCluster,
           SP!MoveToNearest, SP!EndAssign, SP!RecalculateCenter, SP!Break,
           SP!NextIteration
  <2>2. QED
    BY <1>3, <1>5, <2>1
<1>6. QED
  BY <1>2, <1>4, <1>5

\* What the mapping makes of a program that does not move does not move either.
LEMMA SerialRests ==
  ASSUME UNCHANGED <<values, draws, serialVars>>
  PROVE  \A c : SerialIsAt(c)' <=> SerialIsAt(c)
<1>1. /\ SP!AbstractAssignment' = SP!AbstractAssignment
      /\ SP!AbstractCenters' = SP!AbstractCenters
      /\ SP!stage' = SP!stage
  BY DEF serialVars, SP!AbstractAssignment, SP!AbstractCenters, SP!stage, SP!Built,
     SP!ValuesOf
<1>2. SP!stable' = SP!stable
  BY <1>1 DEF serialVars, SP!stable
<1>3. QED
  BY <1>1, <1>2 DEF SerialIsAt, serialVars

\* A step that leaves the parallel run alone leaves it where it is on the course.
LEMMA ParallelRests ==
  ASSUME UNCHANGED <<values, draws, parallelVars>>
  PROVE  \A c : ParallelIsAt(c)' <=> ParallelIsAt(c)
<1>1. /\ PP!assignment' = PP!assignment
      /\ PP!AbstractCenters' = PP!AbstractCenters
      /\ PP!AbstractStage' = PP!AbstractStage
  BY DEF parallelVars, PP!assignment, PP!AbstractAssignment, PP!AbstractCenters,
     PP!AbstractStage, PP!Built, PP!ValuesOf
<1>2. PP!AbstractStable' = PP!AbstractStable
  BY DEF parallelVars, PP!AbstractStable, PP!AbstractAssignment
<1>3. QED
  BY <1>1, <1>2 DEF ParallelIsAt, parallelVars

\* A step of the parallel run is a step along the course of the serial run.
LEMMA ParallelRunCourse ==
  ASSUME MeansIgnoreOrder, DistancesAgree, TestInv, ParallelRun, ProgramsInv'
  PROVE  CourseInv'
<1> SUFFICES ASSUME ~ Crowded
             PROVE  CourseInv'
  BY DEF CourseInv, Crowded
<1>1. /\ PP!Next /\ FollowsDraws(p_prohibited_indexes')
      /\ s_phase = "done"
      /\ values' = values /\ draws' = draws /\ UNCHANGED serialVars
  BY ParallelNextIs, ParallelKeeps DEF ParallelRun, TestInv, StagesInv
<1>2. PICK c : /\ IsCourse(values, draws, c, s_iter) /\ SerialIsAt(c)
               /\ p_phase # "seed" => ParallelIsAt(c) /\ p_iter <= s_iter
  BY <1>1 DEF TestInv, CourseInv
<1>3. /\ IsCourse(values', draws', c, s_iter') /\ SerialIsAt(c)'
      /\ s_iter' = s_iter
  BY <1>1, <1>2, SerialRests DEF serialVars
<1>4. s_iter \in Nat \ {0} /\ LastAt(values, draws, c, s_iter)
  <2>1. SP!stage = "done"
    BY <1>1 DEF SP!stage
  <2>2. QED
    BY <1>2, <2>1 DEF SerialIsAt, IsAt
<1>5. CASE p_phase' = "seed"
  BY <1>3, <1>5 DEF CourseInv
<1>6. ASSUME NEW p \in Point, PP!SeedCluster(p), p_phase' # "seed"
      PROVE  ParallelIsAt(c)' /\ p_iter' <= s_iter'
  <2>1. /\ PP!assignment' = FirstAssignment(draws)
        /\ PP!AbstractCenters' = FirstCenters(values, draws)
        /\ PP!AbstractStage' = "top"
    BY <1>1, <1>6, ParallelStarts DEF TestInv, InputInv, ProgramsInv
  <2>2. p_iter' = 1
    BY <1>6 DEF PP!SeedCluster, TestInv, StagesInv
  <2>3. /\ c[1] = FirstCenters(values, draws)
        /\ Before(values, draws, c, 1) = FirstAssignment(draws)
    BY <1>2 DEF IsCourse, Before
  <2>4. IsAt(values, draws, c, PP!assignment', PP!AbstractCenters', PP!AbstractStable', 1,
             "top")
    BY <2>1, <2>3 DEF IsAt
  <2>5. QED
    BY <1>1, <1>3, <1>4, <2>1, <2>2, <2>4 DEF ParallelIsAt
<1>7. CASE p_phase # "seed"
  <2>1. LloydStep(values,
          PP!assignment, PP!AbstractCenters, PP!AbstractStable, p_iter, PP!AbstractStage,
          PP!assignment', PP!AbstractCenters', PP!AbstractStable', p_iter',
          PP!AbstractStage')
    BY <1>1, <1>7, ParallelShares, PP!NextMaps, ParallelLloydSteps
       DEF TestInv, ProgramsInv, InputInv
  <2>2. /\ IsAt(values, draws, c, PP!assignment', PP!AbstractCenters', PP!AbstractStable',
                p_iter', PP!AbstractStage')
        /\ p_iter' <= s_iter
    BY <1>2, <1>4, <1>7, <2>1, CourseIsFollowed DEF ParallelIsAt
  <2>3. ParallelIsAt(c)'
    BY <1>1, <2>2 DEF ParallelIsAt
  <2>4. QED
    BY <1>3, <2>2, <2>3 DEF CourseInv
<1>8. CASE p_phase = "seed" /\ p_phase' # "seed"
  <2>1. PICK p \in Point : PP!SeedCluster(p)
    BY <1>1, <1>8, ParallelShares
       DEF PP!Next, PP!Main, PP!PointTask, PP!ClusterTask, PP!StartIteration,
           PP!AssignJoin, PP!AdjustJoin, PP!Break, PP!NextIteration, PP!StayInCluster,
           PP!LeaveCluster, PP!JoinCluster, PP!ClearDone, PP!BeginRemovePoints,
           PP!ScanPoint, PP!FinishAdjust, PP!RecalculateCenter
  <2>2. QED
    BY <1>3, <1>6, <1>8, <2>1 DEF CourseInv
<1>9. QED
  BY <1>5, <1>7, <1>8

\* Both runs end where the course ends.
LEMMA EndsAgree ==
  ASSUME TestInv, s_phase = "done", p_phase = "done"
  PROVE  /\ p_iter = s_iter
         /\ p_id_cluster = s_id_cluster
         /\ p_central_values = s_central_values
<1>1. CASE Crowded
  BY <1>1 DEF TestInv, StagesInv
<1>2. CASE ~ Crowded
  <2>1. PICK c : /\ IsCourse(values, draws, c, s_iter)
                 /\ SerialIsAt(c) /\ ParallelIsAt(c) /\ p_iter <= s_iter
    BY <1>2 DEF TestInv, CourseInv
  <2>2. SP!stage = "done" /\ PP!AbstractStage = "done"
    BY DEF SP!stage, PP!AbstractStage
  <2>3. /\ s_iter \in Nat \ {0} /\ p_iter \in Nat \ {0}
        /\ LastAt(values, draws, c, p_iter)
    BY <2>1, <2>2 DEF SerialIsAt, ParallelIsAt, IsAt
  <2>4. p_iter = s_iter
    <3>1. p_iter \notin 1 .. s_iter - 1
      BY <2>1, <2>3 DEF IsCourse
    <3>2. QED
      BY <2>1, <2>3, <3>1
  <2>5. /\ SP!AbstractAssignment = PP!assignment
        /\ SP!AbstractCenters = PP!AbstractCenters
        /\ DOMAIN SP!AbstractCenters = Cluster
    BY <2>1, <2>2, <2>4 DEF SerialIsAt, ParallelIsAt, IsAt, Recenter
  <2>6. SP!AbstractAssignment = s_id_cluster /\ PP!assignment = p_id_cluster
    <3>1. s_id_cluster \in [Point -> Cluster \cup {NoCluster}]
      BY SerialShares DEF TestInv, ProgramsInv, SP!IInv, SP!TypeOK
    <3>2. p_id_cluster \in [Point -> Cluster \cup {NoCluster}]
      BY ParallelShares DEF TestInv, ProgramsInv, PP!IInv, PP!TypeOK
    <3>3. QED
      BY <3>1, <3>2, SerialShares, ParallelShares
         DEF SP!AbstractAssignment, PP!assignment, PP!AbstractAssignment
  <2>7. 0 \in Cluster
    BY NotCrowded DEF Cluster
  <2>8. SP!AbstractCenters = s_central_values
    <3>1. SP!Built = Cluster
      BY <2>5, <2>7, SerialShares DEF SP!AbstractCenters
    <3>2. s_central_values \in [Cluster -> Center]
      BY <3>1 DEF TestInv, ProgramsInv, SP!IInv, SP!TypeOK
    <3>3. QED
      BY <3>1, <3>2, SerialShares DEF SP!AbstractCenters
  <2>9. PP!AbstractCenters = p_central_values
    <3>1. PP!Built = Cluster
      BY <2>5, <2>7, ParallelShares DEF PP!AbstractCenters
    <3>2. p_central_values \in [Cluster -> Center]
      BY <3>1 DEF TestInv, ProgramsInv, PP!IInv, PP!TypeOK
    <3>3. QED
      BY <3>1, <3>2, ParallelShares DEF PP!AbstractCenters
  <2>10. QED
    BY <2>4, <2>5, <2>6, <2>8, <2>9
<1>3. QED
  BY <1>1, <1>2

\* The comparison of two equal clusterings finds no difference.
LEMMA NextComparison == ASSUME TestInv, [Next]_vars PROVE ComparisonInv'
<1>1. CASE Compare
  <2>1. C!Next /\ p_id_cluster = s_id_cluster
    BY <1>1, EndsAgree DEF Compare, TestInv, StagesInv
  <2>2. CASE C!InsertPair
    BY <2>1, <2>2 DEF C!InsertPair, TestInv, ComparisonInv
  <2>3. CASE C!CheckPair
    BY <2>1, <2>3 DEF C!CheckPair, TestInv, ComparisonInv
  <2>4. QED
    BY <2>1, <2>2, <2>3 DEF C!Next
<1>2. CASE UNCHANGED comparisonVars
  BY <1>2 DEF comparisonVars, TestInv, ComparisonInv
<1>3. QED
  BY <1>1, <1>2
     DEF Next, SerialRun, StartParallel, ParallelRun, StartComparison, PrintVerdict, vars

\* Every step of the test keeps its invariant.
LEMMA NextTest ==
  ASSUME MeansIgnoreOrder, DistancesAgree
  PROVE  TestInv /\ [Next]_vars => TestInv'
<1> SUFFICES ASSUME TestInv, [Next]_vars
             PROVE  TestInv'
  OBVIOUS
<1>1. ProgramsInv'
  BY NextPrograms DEF TestInv
<1>2. InputInv'
  BY StepsOfPrograms DEF TestInv, InputInv, Crowded
<1>3. StagesInv'
  BY NextStages DEF TestInv
<1>4. CourseInv'
  <2>1. CASE SerialRun \/ ParallelRun
    BY <1>1, <2>1, SerialRunCourse, ParallelRunCourse
  <2>2. CASE UNCHANGED <<values, draws, serialVars, parallelVars>>
    <3>1. \A c : /\ SerialIsAt(c)' <=> SerialIsAt(c)
                 /\ ParallelIsAt(c)' <=> ParallelIsAt(c)
      BY <2>2, SerialRests, ParallelRests
    <3>2. QED
      BY <2>2, <3>1 DEF TestInv, CourseInv, Crowded, serialVars, parallelVars
  <2>3. QED
    BY <2>1, <2>2 DEF Next, StartParallel, StartComparison, Compare, PrintVerdict, vars
<1>5. ComparisonInv'
  BY NextComparison
<1>6. QED
  BY <1>1, <1>2, <1>3, <1>4, <1>5 DEF TestInv

-------------------------------------------------------------------------------
(* The comparison in the test, whatever the arithmetic.                    *)

\* The theorems about the loop of the comparison.  Their module is also about the reading
\* of the data set and about the other driver, which take no part here.
CP == INSTANCE DriverPartsProofs WITH
        Cluster <- -1 .. CLUSTERS - 1,
        serial_cluster <- s_id_cluster, parallel_cluster <- p_id_cluster,
        i <- c_i, logical_clusters <- c_logical_clusters,
        results_match <- c_results_match, differences <- c_differences,
        POINTS_READ <- 0, TOTAL_VALUES <- 0, Number <- {}, Word <- 0, Uninitialized <- 0,
        MAX_TOKENS <- 0,
        part <- "verdict", input <- << >>, taken <- 0, fail <- FALSE, values <- << >>,
        point_name <- 0, points <- << >>,
        MAIN_POINTS <- 0, MAIN_CLUSTERS <- 0, WARMUP_RUNS <- 0, BENCH_RUNS <- 0,
        MAX_TIME <- 0, RAND_LENGTH <- 0,
        benchmark <- "end", loop <- "done", run <- 0, calling <- FALSE, start_time <- 0,
        times <- << >>, now <- 0, rand <- << >>, drawn <- 0, main_points <- << >>,
        points_copy <- << >>, clusters <- << >>, first_members <- << >>

LoopInv == CP!LoopInv

\* What is proved of the loop is true of the loop in the test.
LEMMA LoopOfTest ==
  /\ C!Init => LoopInv
  /\ LoopInv /\ [C!Next]_(C!vars) => LoopInv'
  /\ LoopInv => C!PassesIffCoarser /\ C!DifferencesAreMisplaced
<1>1. CP!ComparisonAssumption /\ CP!ReadAssumption /\ CP!MainAssumption
  BY SizesAssumption DEF S!SizesAssumption, CP!ComparisonAssumption, CP!ReadAssumption,
                         CP!MainAssumption
<1>2. C!Point = CP!Point /\ C!vars = CP!vars /\ C!vars' = CP!vars'
  BY DEF C!Point, CP!Point, C!vars, CP!vars, C!loopVars, CP!loopVars
<1>3. C!Init => CP!Init
  BY <1>2 DEF C!Init, CP!Init, C!StartLoop, CP!StartLoop
<1>4. C!Next => CP!Next
  BY <1>2 DEF C!Next, CP!Next, C!InsertPair, CP!InsertPair, C!CheckPair, CP!CheckPair
<1>5. CP!PassesIffCoarser => C!PassesIffCoarser
  BY <1>2 DEF C!PassesIffCoarser, CP!PassesIffCoarser, C!Finished, CP!Finished, C!Together,
     CP!Together
<1>6. CP!DifferencesAreMisplaced => C!DifferencesAreMisplaced
  <2>1. CP!TypeOK => C!TypeOK
    BY <1>2 DEF C!TypeOK, CP!TypeOK
  <2>2. QED
    BY <1>2, <2>1
       DEF C!DifferencesAreMisplaced, CP!DifferencesAreMisplaced, C!Finished, CP!Finished,
           C!Together, CP!Together, C!Cardinality, CP!Cardinality
<1>7. CP!Init => CP!LoopInv
  BY <1>1, CP!InitLoop
<1>8. CP!LoopInv /\ [CP!Next]_(CP!vars) => CP!LoopInv'
  BY <1>1, CP!NextLoop
<1>9. CP!LoopInv => CP!PassesIffCoarser /\ CP!DifferencesAreMisplaced
  BY <1>1, CP!LoopMeansCoarser, CP!LoopCountsMisplaced
<1>10. QED
  BY <1>2, <1>3, <1>4, <1>5, <1>6, <1>7, <1>8, <1>9 DEF LoopInv

\* The loop has not begun, or it compares what the two runs have left.
ComparedInv ==
  /\ IF stage \in {"compare", "printed"} THEN LoopInv ELSE C!StartLoop
  /\ stage = "printed" => C!Finished

\* The test has not compared anything when it starts,
LEMMA InitCompared == Init => ComparedInv
BY DEF Init, ComparedInv

\* and compares only when both runs have ended.
LEMMA NextCompared ==
  ASSUME ProgramsInv, ComparedInv, [Next]_vars
  PROVE  ComparedInv'
<1>1. CASE UNCHANGED <<stage, comparisonVars>> /\ stage \notin {"compare", "printed"}
  BY <1>1 DEF ComparedInv, comparisonVars, C!StartLoop
<1>2. CASE StartParallel
  BY <1>2 DEF StartParallel, ComparedInv, comparisonVars, C!StartLoop
<1>3. CASE StartComparison
  <2>1. C!Init
    <3>1. /\ s_id_cluster \in [Point -> Cluster \cup {NoCluster}]
          /\ p_id_cluster \in [Point -> Cluster \cup {NoCluster}]
      BY SerialShares, ParallelShares
         DEF ProgramsInv, SP!IInv, SP!TypeOK, PP!IInv, PP!TypeOK
    <3>2. Cluster \cup {NoCluster} \subseteq -1 .. CLUSTERS - 1
      BY NotCrowded DEF Cluster, NoCluster
    <3>3. C!StartLoop
      BY <1>3 DEF StartComparison, ComparedInv
    <3>4. QED
      BY <3>1, <3>2, <3>3 DEF C!Init, C!Point, Point
  <2>2. UNCHANGED C!vars /\ stage' = "compare"
    BY <1>3 DEF StartComparison, C!vars, C!loopVars, comparisonVars, serialVars,
       parallelVars
  <2>3. LoopInv'
    BY <2>1, <2>2, LoopOfTest
  <2>4. QED
    BY <2>2, <2>3 DEF ComparedInv
<1>4. CASE Compare
  <2>1. C!Next /\ stage = "compare" /\ stage' = "compare"
    BY <1>4 DEF Compare
  <2>2. QED
    BY <2>1, LoopOfTest DEF ComparedInv
<1>5. CASE PrintVerdict \/ (UNCHANGED vars /\ stage \in {"compare", "printed"})
  <2>1. UNCHANGED C!vars /\ stage \in {"compare", "printed"}
    BY <1>5 DEF PrintVerdict, vars, C!vars, C!loopVars, comparisonVars, serialVars,
       parallelVars
  <2>2. LoopInv'
    BY <2>1, LoopOfTest DEF ComparedInv
  <2>3. C!Finished' <=> C!Finished
    BY <2>1 DEF C!vars, C!loopVars, C!Finished
  <2>4. stage' \in {"compare", "printed"} /\ (stage' = "printed" => C!Finished)
    BY <1>5 DEF PrintVerdict, vars, ComparedInv
  <2>5. QED
    BY <2>2, <2>3, <2>4 DEF ComparedInv
<1>6. QED
  BY <1>1, <1>2, <1>3, <1>4, <1>5 DEF Next, SerialRun, ParallelRun, vars

-------------------------------------------------------------------------------
(* The theorems.  Arithmetic is exact enough when a mean does not depend   *)
(* on the order of the points and both programs compute the same           *)
(* distances; with floating-point numbers the test can fail, and a run     *)
(* shows how.                                                              *)

\* The parallel run is at every moment at a place of the course of the serial run.
THEOREM SameCourseThroughout ==
  ASSUME MeansIgnoreOrder, DistancesAgree
  PROVE  Spec => []TestInv
BY InitTest, NextTest, PTL DEF Spec

\* The concurrency of the parallel run does not show in its result.
THEOREM ConcurrencyDoesNotShow ==
  ASSUME MeansIgnoreOrder, DistancesAgree
  PROVE  Spec => []SameResult
<1>1. TestInv => SameResult
  BY EndsAgree DEF TestInv, StagesInv, SameResult
<1>2. QED
  BY <1>1, SameCourseThroughout, PTL

\* The test prints PASSED.
THEOREM TheTestPasses ==
  ASSUME MeansIgnoreOrder, DistancesAgree
  PROVE  Spec => []TestPasses
<1>1. TestInv => TestPasses
  BY DEF TestInv, ComparisonInv, TestPasses
<1>2. QED
  BY <1>1, SameCourseThroughout, PTL

\* Whatever the arithmetic, what the test prints is about the clusterings the two runs
\* have left: PASSED means that points the serial run puts together are together in the
\* parallel one, and the number after FAILED is that of misplaced points.
THEOREM VerdictIsOfTheResults ==
  Spec => [](stage = "printed" =>
               C!Finished /\ C!PassesIffCoarser /\ C!DifferencesAreMisplaced)
<1>1. Init => ProgramsInv /\ ComparedInv
  BY InitTest, InitCompared DEF TestInv
<1>2. ProgramsInv /\ ComparedInv /\ [Next]_vars => (ProgramsInv /\ ComparedInv)'
  BY NextPrograms, NextCompared
<1>3. ProgramsInv /\ ComparedInv =>
        (stage = "printed" => C!Finished /\ C!PassesIffCoarser /\ C!DifferencesAreMisplaced)
  BY LoopOfTest DEF ComparedInv
<1>4. QED
  BY <1>1, <1>2, <1>3, PTL DEF Spec

===============================================================================
