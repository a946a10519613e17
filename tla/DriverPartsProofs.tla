--------------------------- MODULE DriverPartsProofs ---------------------------
(***************************************************************************)
(* The parts of the two drivers for all constants: what the verdict of     *)
(* src/kmeans/test.cpp means, for any two clusterings, and what reading    *)
(* leaves of an input that nobody checks, with names and without; and      *)
(* that no run of src/kmeans/main.cpp sees those before it, that both of   *)
(* its benchmarks time the same work, and that its median is one.          *)
(***************************************************************************)
EXTENDS MCDriverParts, CommonProofs

-------------------------------------------------------------------------------
(* The verdict.                                                            *)

Seen == 0 .. i - 1

\* The points whose parallel cluster is not the one their serial cluster has recorded.
Differing == {p \in Seen : parallel_cluster[p] # logical_clusters[serial_cluster[p]]}

\* The map holds, for every serial cluster seen so far, the parallel cluster of the
\* first of its points.
MapInv ==
  /\ DOMAIN logical_clusters = {serial_cluster[p] : p \in Seen}
  /\ \A k \in DOMAIN logical_clusters : \E p \in Seen :
       /\ serial_cluster[p] = k
       /\ parallel_cluster[p] = logical_clusters[k]
       /\ \A r \in 0 .. p - 1 : serial_cluster[r] # k

\* The verdict and the count say how the points seen so far compare with the map.
VerdictInv ==
  /\ results_match <=> Differing = {}
  /\ differences = Cardinality(Differing)

LoopInv == TypeOK /\ MapInv /\ VerdictInv

-------------------------------------------------------------------------------

\* The points seen, and those that differ, are finitely many.
LEMMA SeenIsFinite ==
  ASSUME i \in 0 .. TOTAL_POINTS
  PROVE  /\ Seen \subseteq Point /\ IsFiniteSet(Differing)
         /\ Cardinality(Differing) \in 0 .. i
<1>1. TOTAL_POINTS \in Nat /\ i \in Nat
  BY ComparisonAssumption
<1>2. IsFiniteSet(Seen) /\ Cardinality(Seen) = i
  BY <1>1, FS_Interval DEF Seen
<1>3. /\ IsFiniteSet(Differing) /\ Cardinality(Differing) \in Nat
      /\ Cardinality(Differing) <= Cardinality(Seen)
  <2>1. Differing \subseteq Seen
    BY DEF Differing
  <2>2. QED
    BY <1>2, <2>1, FS_Subset, FS_CardinalityType
<1>4. QED
  BY <1>1, <1>2, <1>3 DEF Seen, Point

\* The loop starts in its invariant.
LEMMA InitLoop == Init => LoopInv
<1> SUFFICES ASSUME Init
             PROVE  LoopInv
  OBVIOUS
<1>1. Seen = {} /\ Differing = {}
  BY DEF Init, StartLoop, Seen, Differing
<1>2. TypeOK
  BY ComparisonAssumption DEF Init, StartLoop, TypeOK
<1>3. MapInv
  BY <1>1 DEF Init, StartLoop, MapInv
<1>4. VerdictInv
  BY <1>1, FS_EmptySet DEF Init, StartLoop, VerdictInv
<1>5. QED
  BY <1>2, <1>3, <1>4 DEF LoopInv

\* The turn of the loop for point i, whichever of its branches runs.
LEMMA TurnSeesPoint ==
  ASSUME LoopInv, Next
  PROVE  /\ i \in Nat /\ i \in Point /\ i' = i + 1 /\ i' \in 0 .. TOTAL_POINTS
         /\ Seen' = Seen \cup {i} /\ i \notin Seen
         /\ Seen \subseteq Point
         /\ UNCHANGED <<serial_cluster, parallel_cluster>>
<1>1. i \in Point /\ i' = i + 1 /\ UNCHANGED <<serial_cluster, parallel_cluster>>
  BY DEF Next, InsertPair, CheckPair
<1>2. QED
  BY <1>1, ComparisonAssumption DEF Point, Seen

\* Recording a new pair keeps it,
LEMMA InsertPairLoop == ASSUME LoopInv, InsertPair PROVE LoopInv'
<1> DEFINE k == serial_cluster[i]
<1>1. /\ i \in Nat /\ i \in Point /\ i' = i + 1 /\ i' \in 0 .. TOTAL_POINTS
      /\ Seen' = Seen \cup {i} /\ i \notin Seen
      /\ Seen \subseteq Point
      /\ UNCHANGED <<serial_cluster, parallel_cluster>>
  BY TurnSeesPoint DEF Next
<1>2. /\ k \notin DOMAIN logical_clusters
      /\ DOMAIN logical_clusters' = DOMAIN logical_clusters \cup {k}
      /\ logical_clusters'[k] = parallel_cluster[i]
      /\ \A c \in DOMAIN logical_clusters : logical_clusters'[c] = logical_clusters[c]
      /\ UNCHANGED <<results_match, differences>>
  BY DEF InsertPair
<1>3. serial_cluster \in [Point -> Cluster] /\ parallel_cluster \in [Point -> Cluster]
  BY DEF LoopInv, TypeOK
<1>4. \A p \in Seen : serial_cluster[p] \in DOMAIN logical_clusters /\ serial_cluster[p] # k
  BY <1>2 DEF LoopInv, MapInv
<1>5. Differing' = Differing
  BY <1>1, <1>2, <1>4 DEF Differing
<1>6. TypeOK'
  BY <1>1, <1>2, <1>3 DEF LoopInv, TypeOK
<1>7. MapInv'
  <2>1. DOMAIN logical_clusters' = {serial_cluster'[p] : p \in Seen'}
    <3>1. {serial_cluster[p] : p \in Seen \cup {i}}
            = {serial_cluster[p] : p \in Seen} \cup {serial_cluster[i]}
      OBVIOUS
    <3>2. QED
      BY <1>1, <1>2, <3>1 DEF LoopInv, MapInv
  <2>2. ASSUME NEW c \in DOMAIN logical_clusters'
        PROVE  \E p \in Seen' :
                 /\ serial_cluster'[p] = c
                 /\ parallel_cluster'[p] = logical_clusters'[c]
                 /\ \A r \in 0 .. p - 1 : serial_cluster'[r] # c
    <3>1. CASE c = k
      <4>1. \A r \in 0 .. i - 1 : serial_cluster[r] # k
        BY <1>4 DEF Seen
      <4>2. QED
        BY <1>1, <1>2, <3>1, <4>1
    <3>2. CASE c # k
      <4>1. c \in DOMAIN logical_clusters
        BY <1>2, <3>2
      <4>2. QED
        BY <1>1, <1>2, <4>1 DEF LoopInv, MapInv
    <3>3. QED
      BY <3>1, <3>2
  <2>3. QED
    BY <2>1, <2>2 DEF MapInv
<1>8. VerdictInv'
  BY <1>2, <1>5 DEF LoopInv, VerdictInv
<1>9. QED
  BY <1>6, <1>7, <1>8 DEF LoopInv

\* checking a recorded pair keeps it,
LEMMA CheckPairLoop == ASSUME LoopInv, CheckPair PROVE LoopInv'
<1> DEFINE same == logical_clusters[serial_cluster[i]] = parallel_cluster[i]
<1>1. /\ i \in Nat /\ i \in Point /\ i' = i + 1 /\ i' \in 0 .. TOTAL_POINTS
      /\ Seen' = Seen \cup {i} /\ i \notin Seen
      /\ Seen \subseteq Point
      /\ UNCHANGED <<serial_cluster, parallel_cluster>>
  BY TurnSeesPoint DEF Next
<1>2. /\ serial_cluster[i] \in DOMAIN logical_clusters
      /\ logical_clusters' = logical_clusters
      /\ same => UNCHANGED <<results_match, differences>>
      /\ ~ same => results_match' = FALSE /\ differences' = differences + 1
  BY DEF CheckPair
<1>3. Differing' = IF same THEN Differing ELSE Differing \cup {i}
  BY <1>1, <1>2 DEF Differing
<1>4. MapInv'
  BY <1>1, <1>2 DEF LoopInv, MapInv
<1>5. VerdictInv'
  <2>1. IsFiniteSet(Differing) /\ i \notin Differing
    BY <1>1, SeenIsFinite DEF LoopInv, TypeOK, Differing
  <2> HIDE DEF same
  <2>2. CASE same
    BY <1>2, <1>3, <2>2 DEF LoopInv, VerdictInv
  <2>3. CASE ~ same
    <3>1. Cardinality(Differing \cup {i}) = Cardinality(Differing) + 1
      BY <2>1, FS_AddElement
    <3>2. QED
      BY <1>2, <1>3, <2>3, <3>1 DEF LoopInv, VerdictInv
  <2>4. QED
    BY <2>2, <2>3
<1>6. TypeOK'
  <2>1. differences' \in 0 .. TOTAL_POINTS
    <3>1. Cardinality(Differing) \in 0 .. i /\ differences = Cardinality(Differing)
      BY SeenIsFinite DEF LoopInv, TypeOK, VerdictInv
    <3>2. QED
      BY <1>1, <1>2, <3>1, ComparisonAssumption
  <2>2. results_match' \in BOOLEAN
    BY <1>2 DEF LoopInv, TypeOK
  <2>3. QED
    BY <1>1, <1>2, <2>1, <2>2 DEF LoopInv, TypeOK
<1>7. QED
  BY <1>4, <1>5, <1>6 DEF LoopInv

\* and so does every step of the loop.
LEMMA NextLoop == LoopInv /\ [Next]_vars => LoopInv'
<1> SUFFICES ASSUME LoopInv, [Next]_vars
             PROVE  LoopInv'
  OBVIOUS
<1>1. CASE UNCHANGED vars
  BY <1>1 DEF vars, loopVars, LoopInv, TypeOK, MapInv, VerdictInv, Seen, Differing
<1>2. CASE Next
  BY <1>2, InsertPairLoop, CheckPairLoop DEF Next
<1>3. QED
  BY <1>1, <1>2

\* The map, the verdict and the count are right after every turn of the loop.
THEOREM LoopIsRight == Spec => []LoopInv
BY InitLoop, NextLoop, PTL DEF Spec

-------------------------------------------------------------------------------

\* What the verdict says at the end of the loop.
LEMMA LoopMeansCoarser == LoopInv => PassesIffCoarser
<1> SUFFICES ASSUME LoopInv, Finished
             PROVE  results_match <=> \A p, q \in Point :
                      Together(serial_cluster, p, q) => Together(parallel_cluster, p, q)
  BY DEF PassesIffCoarser
<1> DEFINE recorded(p) == logical_clusters[serial_cluster[p]]
<1>1. Seen = Point
  BY DEF Seen, Point, Finished
<1>2. results_match <=> \A p \in Point : parallel_cluster[p] = recorded(p)
  BY <1>1 DEF LoopInv, VerdictInv, Differing
<1>3. ASSUME NEW p \in Point
      PROVE  \E q \in Point : /\ serial_cluster[q] = serial_cluster[p]
                              /\ parallel_cluster[q] = recorded(p)
  BY <1>1 DEF LoopInv, MapInv
<1>4. QED
  BY <1>2, <1>3 DEF Together

\* PASSED is printed exactly when points that the serial program puts together are
\* together in the parallel clustering, whatever the cluster ids are.
THEOREM VerdictIsCoarser == Spec => []PassesIffCoarser
BY LoopIsRight, LoopMeansCoarser, PTL

\* What the count says at the end of the loop.
LEMMA LoopCountsMisplaced == LoopInv => DifferencesAreMisplaced
<1> SUFFICES ASSUME LoopInv, Finished
             PROVE  Differing = {p \in Point : \E q \in 0 .. p - 1 :
                      /\ Together(serial_cluster, p, q)
                      /\ ~ Together(parallel_cluster, p, q)
                      /\ \A r \in 0 .. q - 1 : ~ Together(serial_cluster, r, q)}
  BY DEF DifferencesAreMisplaced, LoopInv, VerdictInv
<1>1. Seen = Point /\ Point \subseteq Nat
  BY DEF Seen, Point, Finished
<1> DEFINE IsFirst(q, p) == /\ serial_cluster[q] = serial_cluster[p]
                            /\ \A r \in 0 .. q - 1 : serial_cluster[r] # serial_cluster[q]
<1>2. ASSUME NEW p \in Point
      PROVE  \E q \in Point : /\ q <= p
                              /\ IsFirst(q, p)
                              /\ parallel_cluster[q] = logical_clusters[serial_cluster[p]]
  <2>1. PICK q \in Point :
          /\ serial_cluster[q] = serial_cluster[p]
          /\ parallel_cluster[q] = logical_clusters[serial_cluster[p]]
          /\ \A r \in 0 .. q - 1 : serial_cluster[r] # serial_cluster[p]
    BY <1>1 DEF LoopInv, MapInv
  <2>2. q \in Nat /\ p \in Nat /\ (p < q => p \in 0 .. q - 1)
    BY <1>1
  <2>3. q <= p
    BY <2>1, <2>2
  <2>4. QED
    BY <2>1, <2>3
<1>3. ASSUME NEW p \in Point, NEW q \in Point, NEW u \in Point,
             IsFirst(q, p), IsFirst(u, p)
      PROVE  q = u
  BY <1>1, <1>3
<1>4. ASSUME NEW p \in Point
      PROVE  p \in Differing <=>
               \E q \in 0 .. p - 1 : IsFirst(q, p) /\ parallel_cluster[q] # parallel_cluster[p]
  <2>1. PICK q \in Point : /\ q <= p
                           /\ IsFirst(q, p)
                           /\ parallel_cluster[q] = logical_clusters[serial_cluster[p]]
    BY <1>2
  <2>2. 0 .. p - 1 \subseteq Point
    BY ComparisonAssumption DEF Point
  <2> HIDE DEF IsFirst
  <2>3. p \in Differing <=> parallel_cluster[q] # parallel_cluster[p]
    BY <1>1, <2>1 DEF Differing
  <2>4. parallel_cluster[q] # parallel_cluster[p] => q \in 0 .. p - 1
    BY <1>1, <2>1
  <2>5. \A u \in 0 .. p - 1 : IsFirst(u, p) => u = q
    BY <1>3, <2>1, <2>2
  <2>6. QED
    BY <2>1, <2>3, <2>4, <2>5
<1>5. Differing \subseteq Point
  BY <1>1 DEF Differing
<1>6. ASSUME NEW p \in Point
      PROVE  (\E q \in 0 .. p - 1 : IsFirst(q, p) /\ parallel_cluster[q] # parallel_cluster[p])
               <=> \E q \in 0 .. p - 1 :
                     /\ Together(serial_cluster, p, q)
                     /\ ~ Together(parallel_cluster, p, q)
                     /\ \A r \in 0 .. q - 1 : ~ Together(serial_cluster, r, q)
  BY DEF Together
<1> HIDE DEF IsFirst
<1>7. QED
  BY <1>4, <1>5, <1>6

\* The number after FAILED counts points outside the collection that the first point
\* of their serial cluster is in.
THEOREM CountIsOfMisplaced == Spec => []DifferencesAreMisplaced
BY LoopIsRight, LoopCountsMisplaced, PTL

-------------------------------------------------------------------------------
(* The reading.  With names and without the loops differ in one step, so   *)
(* most of what follows is said for either value of `named'.               *)

Token  == Number \cup {Word}
NoName == 0
Read   == Number \cup {0, Uninitialized}

\* The number of tokens of a point, and the number read if all of them were there.
Width(named)    == TOTAL_VALUES + IF named THEN 1 ELSE 0
Position(named) == Len(points) * Width(named) + Len(values)

\* The places of the input where the loop does not find what it expects.
BadPlaces(named) ==
  {k \in 1 .. Len(input) : input[k] = Word /\ (named => k % Width(named) # 0)}
    \cup {Len(input) + 1}

\* bad is the first of them.
IsFirstBad(bad, named) == bad \in BadPlaces(named) /\ \A k \in BadPlaces(named) : bad <= k

\* What a value is that is read from place k.
ValueAt(k, bad) == CASE k < bad                    -> input[k]
                     [] k = bad /\ bad <= Len(input) -> 0
                     [] OTHER                      -> Uninitialized

ReadTypeOK ==
  /\ Len(input) \in Nat
  /\ input \in [1 .. Len(input) -> Token]
  /\ taken \in 0 .. Len(input)
  /\ fail \in BOOLEAN
  /\ values \in Seq(Read) /\ Len(values) <= TOTAL_VALUES
  /\ point_name \in Token \cup {NoName}
  /\ points \in Seq([id : Nat, values : Seq(Read), name : Token \cup {NoName}])
  /\ Len(points) <= POINTS_READ

\* The stream has failed when the loop is past the first bad place; until then it has
\* taken a token for each value and name.
StreamInv(bad, named) ==
  /\ ~ fail => taken = Position(named) /\ taken < bad
  /\ fail   => bad <= Position(named)

\* The values and the names read so far.
ValuesInv(bad, named) ==
  /\ \A j \in 1 .. Len(values) :
       values[j] = ValueAt(Len(points) * Width(named) + j, bad)
  /\ \A p \in 1 .. Len(points) :
       /\ points[p].id = p - 1
       /\ Len(points[p].values) = TOTAL_VALUES
       /\ \A j \in 1 .. TOTAL_VALUES :
            points[p].values[j] = ValueAt((p - 1) * Width(named) + j, bad)

NamesInv(bad, named) ==
  named =>
    /\ point_name = IF Len(points) = 0 THEN NoName ELSE points[Len(points)].name
    /\ \A p \in 1 .. Len(points) :
         points[p].name = IF p * Width(named) < bad THEN input[p * Width(named)]
                          ELSE IF p = 1 THEN NoName ELSE points[p - 1].name

ReadInv(named) ==
  /\ ReadTypeOK
  /\ \A bad \in Nat : IsFirstBad(bad, named) =>
       StreamInv(bad, named) /\ ValuesInv(bad, named) /\ NamesInv(bad, named)

-------------------------------------------------------------------------------

\* There is a first bad place, and it is what the properties call FirstBad.
LEMMA FirstBadPlace ==
  ASSUME ReadTypeOK
  PROVE  /\ IsFirstBad(Named!FirstBad, TRUE) /\ Named!FirstBad \in Nat
         /\ IsFirstBad(Unnamed!FirstBad, FALSE) /\ Unnamed!FirstBad \in Nat
<1>1. ASSUME NEW M \in SUBSET Nat, M # {}
      PROVE  /\ Named!Min(M) \in M /\ \A k \in M : Named!Min(M) <= k
             /\ Unnamed!Min(M) \in M /\ \A k \in M : Unnamed!Min(M) <= k
  <2>1. PICK least \in M : \A m \in M : least <= m
    BY <1>1, LeastElement
  <2>2. QED
    BY <2>1 DEF Named!Min, Unnamed!Min
<1>2. \A named : BadPlaces(named) \in SUBSET Nat /\ BadPlaces(named) # {}
  BY DEF ReadTypeOK, BadPlaces
<1>3. Named!FirstBad = Named!Min(BadPlaces(TRUE))
  BY DEF Named!FirstBad, BadPlaces, Named!Width, Width
<1>4. Unnamed!FirstBad = Unnamed!Min(BadPlaces(FALSE))
  BY DEF Unnamed!FirstBad, BadPlaces, Unnamed!Width, Width
<1>5. QED
  BY <1>1, <1>2, <1>3, <1>4 DEF IsFirstBad

\* Where the next value is expected no name is: place q * Width + j, j from 1 to
\* TOTAL_VALUES, is no multiple of Width, and q * Width is.
LEMMA NamePlaces ==
  ASSUME NEW q \in Nat, NEW named \in BOOLEAN
  PROVE  /\ Width(named) \in Nat /\ q * Width(named) \in Nat
         /\ (q + 1) * Width(named) = q * Width(named) + Width(named)
         /\ \A j \in 1 .. TOTAL_VALUES : named => (q * Width(named) + j) % Width(named) # 0
         /\ named => (q * Width(named)) % Width(named) = 0
<1>1. TOTAL_VALUES \in Nat
  BY ReadAssumption
<1> DEFINE w == Width(named)
<1>2. w \in Nat /\ w = IF named THEN TOTAL_VALUES + 1 ELSE TOTAL_VALUES
  BY <1>1 DEF Width
<1> HIDE DEF w
<1>3. q * w \in Nat /\ (q + 1) * w = q * w + w /\ q * w = w * q
  BY <1>2
<1>4. ASSUME NEW j \in 1 .. TOTAL_VALUES, named
      PROVE  (q * w + j) % w # 0
  <2>1. w \in Nat \ {0} /\ j \in Nat /\ j < w /\ j # 0 /\ q * w + j \in Nat
    BY <1>1, <1>2, <1>3, <1>4
  <2>2. (q * w + j) % w = j
    BY <1>3, <2>1, QuotientUnique
  <2>3. QED
    BY <2>1, <2>2
<1>5. ASSUME named
      PROVE  (q * w) % w = 0
  <2>1. w \in Nat \ {0} /\ q * w + 0 = q * w
    BY <1>1, <1>2, <1>3, <1>5
  <2>2. QED
    BY <1>3, <2>1, QuotientUnique
<1>6. QED
  BY <1>2, <1>3, <1>4, <1>5 DEF w

-------------------------------------------------------------------------------
(* The steps of either loop.                                               *)

Usable == ~ fail /\ taken < Len(input)

ReadValue ==
  /\ Len(points) < POINTS_READ /\ Len(values) < TOTAL_VALUES
  /\ values' = Append(values, IF Usable
                              THEN IF input[taken + 1] = Word THEN 0 ELSE input[taken + 1]
                              ELSE Uninitialized)
  /\ fail' = (~ Usable \/ input[taken + 1] = Word)
  /\ taken' = IF Usable /\ input[taken + 1] # Word THEN taken + 1 ELSE taken
  /\ UNCHANGED <<input, point_name, points>>

AddPoint(named) ==
  /\ Len(points) < POINTS_READ /\ ~ (Len(values) < TOTAL_VALUES)
  /\ point_name' = IF named /\ Usable THEN input[taken + 1] ELSE point_name
  /\ fail' = (fail \/ (named /\ ~ Usable))
  /\ taken' = IF named /\ Usable THEN taken + 1 ELSE taken
  /\ points' = Append(points, [id |-> Len(points), values |-> values, name |-> point_name'])
  /\ values' = << >>
  /\ UNCHANGED input

\* The steps of the two loops are those above.
LEMMA StepsOfReading ==
  /\ Named!Next => ReadValue \/ AddPoint(TRUE)
  /\ Unnamed!Next => ReadValue \/ AddPoint(FALSE)
<1>1. Named!Next => ReadValue \/ AddPoint(TRUE)
  BY DEF Named!Next, Named!ReadValue, ReadValue, Named!AddPoint, AddPoint, Named!MissesPoint,
         Named!MissesValue, Named!ReadDouble, Named!ReadName, Named!Usable, Usable,
         Named!Upcoming
<1>2. Unnamed!Next => ReadValue \/ AddPoint(FALSE)
  BY DEF Unnamed!Next, Unnamed!ReadValue, ReadValue, Unnamed!AddPoint, AddPoint,
         Unnamed!MissesPoint, Unnamed!MissesValue, Unnamed!ReadDouble, Unnamed!ReadName,
         Unnamed!Usable, Usable, Unnamed!Upcoming
<1>3. QED
  BY <1>1, <1>2

\* The place that a step reads is past the first bad one, or the first, or before it.
LEMMA NextPlace ==
  ASSUME ReadTypeOK, NEW named \in BOOLEAN, NEW bad \in Nat, IsFirstBad(bad, named),
         StreamInv(bad, named)
  PROVE  LET k == Position(named) + 1
         IN  /\ k \in Nat \ {0} /\ bad \in 1 .. Len(input) + 1
             /\ Usable => k <= bad /\ k <= Len(input) /\ taken + 1 = k
             /\ ~ Usable => bad < k \/ (bad = k /\ bad = Len(input) + 1)
             /\ Position(named) = k - 1
<1>1. Len(points) \in Nat /\ Len(values) \in Nat /\ Len(input) \in Nat
  BY LenProperties DEF ReadTypeOK
<1>2. Position(named) \in Nat
  <2>1. Len(points) * Width(named) \in Nat
    BY <1>1, NamePlaces
  <2>2. QED
    BY <1>1, <2>1 DEF Position
<1> DEFINE k == Position(named) + 1
<1>3. k \in Nat \ {0} /\ Position(named) = k - 1
  BY <1>2
<1> HIDE DEF k
<1>4. bad \in 1 .. Len(input) + 1 /\ bad <= Len(input) + 1
  BY <1>1 DEF IsFirstBad, BadPlaces
<1>5. QED
  BY <1>1, <1>3, <1>4 DEF StreamInv, Usable, ReadTypeOK, k

\* Reading a value keeps the invariant.
LEMMA ReadValueInv ==
  ASSUME NEW named \in BOOLEAN, ReadInv(named), ReadValue
  PROVE  ReadInv(named)'
<1> DEFINE k     == Position(named) + 1
           start == Len(points) * Width(named)
           new   == IF Usable
                    THEN IF input[taken + 1] = Word THEN 0 ELSE input[taken + 1]
                    ELSE Uninitialized
<1>1. /\ Len(points) \in Nat /\ Len(values) \in Nat /\ Len(input) \in Nat
      /\ values \in Seq(Read) /\ Len(values) + 1 \in 1 .. TOTAL_VALUES
      /\ TOTAL_VALUES \in Nat
  BY LenProperties, ReadAssumption DEF ReadInv, ReadTypeOK, ReadValue
<1>2. Usable => input[taken + 1] \in Token /\ taken + 1 \in 0 .. Len(input)
  BY DEF ReadInv, ReadTypeOK, Usable
<1>3. new \in Read
  BY <1>2 DEF Read, Token
<1>4. /\ values' = Append(values, new) /\ values' \in Seq(Read)
      /\ Len(values') = Len(values) + 1
      /\ \A j \in 1 .. Len(values) : values'[j] = values[j]
      /\ values'[Len(values) + 1] = new
  BY <1>1, <1>3, AppendProperties DEF ReadValue
<1>5. ReadTypeOK'
  <2>1. fail' \in BOOLEAN /\ taken' \in 0 .. Len(input) /\ Len(values') <= TOTAL_VALUES
    BY <1>1, <1>2, <1>4 DEF ReadValue, ReadInv, ReadTypeOK
  <2>2. QED
    BY <1>4, <2>1 DEF ReadValue, ReadInv, ReadTypeOK
<1>6. ASSUME NEW bad \in Nat, IsFirstBad(bad, named)'
      PROVE  StreamInv(bad, named)' /\ ValuesInv(bad, named)' /\ NamesInv(bad, named)'
  <2>1. IsFirstBad(bad, named)
    BY <1>6 DEF IsFirstBad, BadPlaces, Width, ReadValue
  <2>2. StreamInv(bad, named) /\ ValuesInv(bad, named) /\ NamesInv(bad, named)
    BY <2>1 DEF ReadInv
  <2>3. /\ k \in Nat \ {0} /\ bad \in 1 .. Len(input) + 1
        /\ Usable => k <= bad /\ k <= Len(input) /\ taken + 1 = k
        /\ ~ Usable => bad < k \/ (bad = k /\ bad = Len(input) + 1)
    BY <2>1, <2>2, NextPlace DEF ReadInv
  <2>4. start \in Nat /\ k = start + (Len(values) + 1) /\ Position(named)' = k
    <3>1. start \in Nat
      BY <1>1, NamePlaces
    <3>2. Position(named) = start + Len(values)
      BY DEF Position
    <3>3. Position(named)' = start + Len(values')
      BY DEF Position, Width, ReadValue
    <3> HIDE DEF start
    <3>4. QED
      BY <1>1, <1>4, <3>1, <3>2, <3>3
  <2>5. named => k % Width(named) # 0
    <3>1. \A j \in 1 .. TOTAL_VALUES : named => (start + j) % Width(named) # 0
      BY <1>1, NamePlaces
    <3> HIDE DEF k, start
    <3>2. QED
      BY <1>1, <2>4, <3>1
  <2> HIDE DEF k, start
  <2>6. Usable /\ input[k] = Word => bad = k /\ bad <= Len(input)
    <3>1. Usable /\ input[k] = Word => k \in BadPlaces(named)
      BY <2>3, <2>5 DEF BadPlaces
    <3>2. QED
      BY <2>1, <2>3, <3>1 DEF IsFirstBad
  <2>7. Usable /\ input[k] # Word => k < bad
    <3>1. bad <= Len(input) => input[bad] = Word
      BY <1>1, <2>1 DEF IsFirstBad, BadPlaces
    <3>2. QED
      BY <1>1, <2>3, <3>1
  <2>8. new = ValueAt(k, bad)
    BY <1>1, <2>3, <2>6, <2>7 DEF ValueAt
  <2> HIDE DEF new
  <2>9. StreamInv(bad, named)'
    <3>1. CASE Usable /\ input[k] # Word
      BY <2>3, <2>4, <2>7, <3>1 DEF StreamInv, ReadValue
    <3>2. CASE ~ (Usable /\ input[k] # Word)
      <4>1. fail'
        BY <2>3, <3>2 DEF ReadValue
      <4>2. bad <= k
        BY <2>3, <2>6, <3>2
      <4>3. QED
        BY <2>4, <4>1, <4>2 DEF StreamInv
    <3>3. QED
      BY <3>1, <3>2
  <2>10. ValuesInv(bad, named)'
    <3>1. /\ points' = points /\ Width(named)' = Width(named)
          /\ \A n : ValueAt(n, bad)' = ValueAt(n, bad)
      BY DEF ReadValue, Width, ValueAt
    <3>2. ASSUME NEW j \in 1 .. Len(values')
          PROVE  values'[j] = ValueAt(Len(points) * Width(named) + j, bad)
      <4>1. CASE j = Len(values) + 1
        BY <1>4, <2>4, <2>8, <4>1 DEF start
      <4>2. CASE j \in 1 .. Len(values)
        BY <1>4, <2>2, <4>2 DEF ValuesInv
      <4>3. QED
        BY <1>1, <1>4, <4>1, <4>2
    <3>3. QED
      BY <2>2, <3>1, <3>2 DEF ValuesInv
  <2>11. NamesInv(bad, named)'
    BY <2>2 DEF NamesInv, ReadValue, Width
  <2>12. QED
    BY <2>9, <2>10, <2>11
<1>7. QED
  BY <1>5, <1>6 DEF ReadInv

\* Adding a point keeps it, whether its name is read or not.
LEMMA AddPointInv ==
  ASSUME NEW named \in BOOLEAN, ReadInv(named), AddPoint(named)
  PROVE  ReadInv(named)'
<1> DEFINE n     == Len(points)
           k     == Position(named) + 1
           start == n * Width(named)
           end   == (n + 1) * Width(named)
           point == [id |-> n, values |-> values, name |-> point_name']
<1>1. /\ n \in Nat /\ n + 1 <= POINTS_READ /\ Len(values) = TOTAL_VALUES
      /\ Len(input) \in Nat /\ POINTS_READ \in Nat
      /\ values \in Seq(Read) /\ TOTAL_VALUES \in Nat
      /\ points \in Seq([id : Nat, values : Seq(Read), name : Token \cup {NoName}])
  BY LenProperties, ReadAssumption DEF ReadInv, ReadTypeOK, AddPoint
<1>2. Usable => input[taken + 1] \in Token /\ taken + 1 \in 0 .. Len(input)
  BY DEF ReadInv, ReadTypeOK, Usable
<1>3. point_name' \in Token \cup {NoName}
  BY <1>2 DEF AddPoint, ReadInv, ReadTypeOK
<1>4. point \in [id : Nat, values : Seq(Read), name : Token \cup {NoName}]
  BY <1>1, <1>3
<1>5. /\ points' = Append(points, point)
      /\ points' \in Seq([id : Nat, values : Seq(Read), name : Token \cup {NoName}])
      /\ Len(points') = n + 1
      /\ \A p \in 1 .. n : points'[p] = points[p]
      /\ points'[n + 1] = point
  BY <1>1, <1>4, AppendProperties DEF AddPoint
<1> HIDE DEF point
<1>6. values' = << >> /\ Len(values') = 0 /\ values' \in Seq(Read)
  BY DEF AddPoint
<1>7. ReadTypeOK'
  <2>1. fail' \in BOOLEAN /\ taken' \in 0 .. Len(input)
    BY <1>1, <1>2 DEF AddPoint, ReadInv, ReadTypeOK
  <2>2. QED
    BY <1>1, <1>3, <1>5, <1>6, <2>1 DEF AddPoint, ReadInv, ReadTypeOK
<1>8. ASSUME NEW bad \in Nat, IsFirstBad(bad, named)'
      PROVE  StreamInv(bad, named)' /\ ValuesInv(bad, named)' /\ NamesInv(bad, named)'
  <2>1. IsFirstBad(bad, named)
    BY <1>8 DEF IsFirstBad, BadPlaces, Width, AddPoint
  <2>2. StreamInv(bad, named) /\ ValuesInv(bad, named) /\ NamesInv(bad, named)
    BY <2>1 DEF ReadInv
  <2>3. /\ k \in Nat \ {0} /\ bad \in 1 .. Len(input) + 1
        /\ Usable => k <= bad /\ k <= Len(input) /\ taken + 1 = k
        /\ ~ Usable => bad < k \/ (bad = k /\ bad = Len(input) + 1)
        /\ Position(named) = k - 1
    BY <2>1, <2>2, NextPlace DEF ReadInv
  <2>4. start \in Nat /\ end \in Nat /\ end = start + Width(named)
    <3>1. n + 1 \in Nat
      BY <1>1
    <3>2. QED
      BY <1>1, <3>1, NamePlaces
  <2>5. /\ named   => end = k /\ Position(named)' = k
        /\ ~ named => Position(named)' = Position(named)
    <3>1. /\ named   => Width(named) = TOTAL_VALUES + 1
          /\ ~ named => Width(named) = TOTAL_VALUES
      BY <1>1 DEF Width
    <3>2. Position(named) = start + TOTAL_VALUES
      BY <1>1 DEF Position
    <3>3. Position(named)' = end + 0
      BY <1>5, <1>6 DEF Position, Width
    <3> HIDE DEF start, end
    <3>4. QED
      BY <1>1, <2>4, <3>1, <3>2, <3>3
  <2>6. named => k % Width(named) = 0
    <3>1. n + 1 \in Nat
      BY <1>1
    <3>2. named => end % Width(named) = 0
      BY <3>1, NamePlaces
    <3> HIDE DEF k, end
    <3>3. QED
      BY <2>5, <3>2
  <2> HIDE DEF k, start, end
  <2>8. named /\ Usable => k < bad
    <3>1. ASSUME bad # Len(input) + 1, named
          PROVE  bad % Width(named) # 0
      BY <2>1, <3>1 DEF IsFirstBad, BadPlaces
    <3>2. Usable => k # Len(input) + 1
      BY <1>1, <2>3
    <3>3. Usable => k <= bad
      BY <2>3
    <3>4. named /\ Usable => k # bad
      BY <2>6, <3>1, <3>2
    <3>5. QED
      BY <2>3, <3>3, <3>4
  <2>9. StreamInv(bad, named)'
    <3>1. CASE named /\ Usable
      BY <2>3, <2>5, <2>8, <3>1 DEF StreamInv, AddPoint, Usable
    <3>2. CASE named /\ ~ Usable
      <4>1. fail'
        BY <3>2 DEF AddPoint
      <4>2. bad <= k
        BY <2>3, <3>2
      <4>3. QED
        BY <2>5, <3>2, <4>1, <4>2 DEF StreamInv
    <3>3. CASE ~ named
      BY <2>2, <2>5, <3>3 DEF StreamInv, AddPoint
    <3>4. QED
      BY <3>1, <3>2, <3>3
  <2>10. ValuesInv(bad, named)'
    <3>1. /\ Width(named)' = Width(named)
          /\ \A m : ValueAt(m, bad)' = ValueAt(m, bad)
      BY DEF AddPoint, Width, ValueAt
    <3>2. ASSUME NEW p \in 1 .. n + 1
          PROVE  /\ points'[p].id = p - 1
                 /\ Len(points'[p].values) = TOTAL_VALUES
                 /\ \A j \in 1 .. TOTAL_VALUES :
                      points'[p].values[j] = ValueAt((p - 1) * Width(named) + j, bad)
      <4>1. CASE p = n + 1
        <5>1. points'[p].id = n /\ points'[p].values = values /\ p - 1 = n
          BY <1>1, <1>5, <4>1 DEF point
        <5>2. QED
          BY <1>1, <2>2, <5>1 DEF ValuesInv
      <4>2. CASE p \in 1 .. n
        BY <1>5, <2>2, <4>2 DEF ValuesInv
      <4>3. QED
        BY <1>1, <4>1, <4>2
    <3>3. 1 .. Len(points') = 1 .. n + 1 /\ 1 .. Len(values') = {}
      BY <1>1, <1>5, <1>6
    <3>4. QED
      BY <3>1, <3>2, <3>3 DEF ValuesInv
  <2>11. ASSUME named
         PROVE  NamesInv(bad, named)'
    <3>1. Width(named)' = Width(named) /\ input' = input
      BY DEF AddPoint, Width
    <3>2. points'[n + 1].name = point_name'
      BY <1>5 DEF point
    <3>3. ASSUME NEW p \in 1 .. n + 1
          PROVE  points'[p].name = IF p * Width(named) < bad THEN input[p * Width(named)]
                                   ELSE IF p = 1 THEN NoName ELSE points'[p - 1].name
      <4>1. CASE p \in 1 .. n
        <5>1. p # 1 => p - 1 \in 1 .. n
          BY <1>1, <4>1
        <5>2. QED
          BY <1>5, <2>2, <2>11, <4>1, <5>1 DEF NamesInv
      <4>2. CASE p = n + 1 /\ Usable
        <5>1. p * Width(named) = k /\ k < bad /\ point_name' = input[k]
          BY <2>3, <2>5, <2>8, <2>11, <4>2 DEF AddPoint, end
        <5>2. QED
          BY <3>2, <4>2, <5>1
      <4>3. CASE p = n + 1 /\ ~ Usable
        <5>1. p * Width(named) = k /\ point_name' = point_name
          BY <2>5, <2>11, <4>3 DEF AddPoint, end
        <5>2. ~ (k < bad)
          BY <2>3, <4>3
        <5>3. /\ p # 1 <=> n # 0
              /\ n # 0 => n \in 1 .. n /\ p - 1 = n
          BY <1>1, <4>3
        <5>4. point_name = IF n = 0 THEN NoName ELSE points[n].name
          BY <2>2, <2>11 DEF NamesInv
        <5>5. QED
          BY <1>5, <3>2, <4>3, <5>1, <5>2, <5>3, <5>4
      <4>4. QED
        BY <1>1, <4>1, <4>2, <4>3
    <3>4. 1 .. Len(points') = 1 .. n + 1 /\ Len(points') = n + 1 /\ n + 1 # 0
      BY <1>1, <1>5
    <3>5. QED
      BY <3>1, <3>2, <3>3, <3>4 DEF NamesInv
  <2>12. ~ named => NamesInv(bad, named)'
    BY DEF NamesInv
  <2>13. QED
    BY <2>9, <2>10, <2>11, <2>12
<1>9. QED
  BY <1>7, <1>8 DEF ReadInv

-------------------------------------------------------------------------------

\* The part of the test that has been chosen, and what is true of its reading.
PartsInv ==
  /\ part \in {"verdict", "named", "unnamed", "main"}
  /\ ReadInv(part # "unnamed")

\* Nothing has been read.
LEMMA InitReading == Named!Init => \A named \in BOOLEAN : ReadInv(named)
<1> SUFFICES ASSUME Named!Init, NEW named \in BOOLEAN
             PROVE  ReadInv(named)
  OBVIOUS
<1>1. PICK length \in 0 .. MAX_TOKENS : input \in [1 .. length -> Token]
  BY DEF Named!Init, Named!Token, Token
<1>2. length \in Nat /\ Len(input) = length
  BY <1>1, LenProperties
<1>3. /\ taken = 0 /\ fail = FALSE /\ values = << >> /\ point_name = NoName /\ points = << >>
      /\ Len(points) = 0 /\ Len(values) = 0
  BY DEF Named!Init, Named!NoName, NoName
<1>4. ReadTypeOK
  <2>1. {POINTS_READ, TOTAL_VALUES} \subseteq Nat
    BY ReadAssumption
  <2>2. /\ << >> \in Seq(Read)
        /\ << >> \in Seq([id : Nat, values : Seq(Read), name : Token \cup {NoName}])
    OBVIOUS
  <2>3. 0 \in 0 .. Len(input) /\ 0 <= POINTS_READ /\ 0 <= TOTAL_VALUES
    BY <1>2, <2>1
  <2>4. QED
    BY <1>1, <1>2, <1>3, <2>2, <2>3 DEF ReadTypeOK
<1>5. ASSUME NEW bad \in Nat, IsFirstBad(bad, named)
      PROVE  StreamInv(bad, named) /\ ValuesInv(bad, named) /\ NamesInv(bad, named)
  <2>1. 0 * Width(named) = 0
    <3>1. Width(named) \in Nat
      BY NamePlaces
    <3>2. QED
      BY <3>1
  <2>2. Position(named) = 0
    BY <1>3, <2>1 DEF Position
  <2>3. bad \in 1 .. Len(input) + 1
    BY <1>2, <1>5 DEF IsFirstBad, BadPlaces
  <2>4. StreamInv(bad, named)
    BY <1>3, <2>2, <2>3 DEF StreamInv
  <2>5. ValuesInv(bad, named) /\ NamesInv(bad, named)
    BY <1>3 DEF ValuesInv, NamesInv
  <2>6. QED
    BY <2>4, <2>5
<1>6. QED
  BY <1>4, <1>5 DEF ReadInv

\* Every part of the test keeps the invariant of its reading.
LEMMA NextParts ==
  ASSUME PartsInv, [MCNext]_<<part, vars, readVars, mainVars>>
  PROVE  PartsInv'
<1>1. CASE UNCHANGED <<part, readVars>>
  BY <1>1 DEF PartsInv, readVars, ReadInv, ReadTypeOK, IsFirstBad, BadPlaces, Width,
              StreamInv, Position, ValuesInv, ValueAt, NamesInv
<1>2. CASE part = "named" /\ Named!Next /\ UNCHANGED <<part, vars>>
  <2>1. ReadInv(TRUE) /\ (ReadValue \/ AddPoint(TRUE))
    BY <1>2, StepsOfReading DEF PartsInv
  <2>2. ReadInv(TRUE)'
    BY <2>1, ReadValueInv, AddPointInv
  <2>3. QED
    BY <1>2, <2>2 DEF PartsInv
<1>3. CASE part = "unnamed" /\ Unnamed!Next /\ UNCHANGED <<part, vars>>
  <2>1. ReadInv(FALSE) /\ (ReadValue \/ AddPoint(FALSE))
    BY <1>3, StepsOfReading DEF PartsInv
  <2>2. ReadInv(FALSE)'
    BY <2>1, ReadValueInv, AddPointInv
  <2>3. QED
    BY <1>3, <2>2 DEF PartsInv
<1>4. QED
  BY <1>1, <1>2, <1>3 DEF MCNext

\* Every input, however long or malformed, is read as ReadInv says.
THEOREM ReadingIsRight == MCSpec => []PartsInv
<1>1. MCInit => PartsInv
  <2>1. MCInit => part \in {"verdict", "named", "unnamed", "main"} /\ Named!Init
    BY DEF MCInit, NothingRead
  <2>2. (part # "unnamed") \in BOOLEAN
    OBVIOUS
  <2>3. QED
    BY <2>1, <2>2, InitReading DEF PartsInv
<1>2. PartsInv /\ [MCNext]_<<part, vars, readVars, mainVars>> => PartsInv'
  BY NextParts
<1>3. QED
  BY <1>1, <1>2, PTL DEF MCSpec

\* The invariant means what the properties say, with names and without.
LEMMA ReadingMeans ==
  /\ ReadInv(TRUE)  => Named!SpoiltFromFirstBadToken /\ Named!StaleNames
  /\ ReadInv(FALSE) => Unnamed!SpoiltFromFirstBadToken
<1>1. ASSUME ReadInv(TRUE)
      PROVE  Named!SpoiltFromFirstBadToken /\ Named!StaleNames
  <2> DEFINE bad == Named!FirstBad
  <2>1. bad \in Nat /\ ValuesInv(bad, TRUE) /\ NamesInv(bad, TRUE) /\ ReadTypeOK
    BY <1>1, FirstBadPlace DEF ReadInv
  <2>2. Named!Width = Width(TRUE) /\ DOMAIN points = 1 .. Len(points)
    BY <2>1, LenProperties DEF Named!Width, Width, ReadTypeOK
  <2> HIDE DEF bad
  <2>3. Named!TypeOK
    BY <2>1, <2>2 DEF Named!TypeOK, ReadTypeOK, ValuesInv, Read, Named!Token, Token,
                      Named!NoName, NoName
  <2>4. ASSUME NEW p \in DOMAIN points, NEW j \in 1 .. TOTAL_VALUES
        PROVE  points[p].values[j] = ValueAt(Named!TokenOf(p, j), bad)
    BY <2>1, <2>2 DEF ValuesInv, Named!TokenOf
  <2>5. Named!SpoiltFromFirstBadToken
    BY <2>3, <2>4 DEF Named!SpoiltFromFirstBadToken, ValueAt, bad
  <2>6. Named!StaleNames
    BY <2>1, <2>2 DEF Named!StaleNames, NamesInv, Named!NameOf, Named!NoName, NoName, bad
  <2>7. QED
    BY <2>5, <2>6
<1>2. ASSUME ReadInv(FALSE)
      PROVE  Unnamed!SpoiltFromFirstBadToken
  <2> DEFINE bad == Unnamed!FirstBad
  <2>1. bad \in Nat /\ ValuesInv(bad, FALSE) /\ ReadTypeOK
    BY <1>2, FirstBadPlace DEF ReadInv
  <2>2. Unnamed!Width = Width(FALSE) /\ DOMAIN points = 1 .. Len(points)
    BY <2>1, LenProperties DEF Unnamed!Width, Width, ReadTypeOK
  <2> HIDE DEF bad
  <2>3. Unnamed!TypeOK
    BY <2>1, <2>2 DEF Unnamed!TypeOK, ReadTypeOK, ValuesInv, Read, Unnamed!Token, Token,
                      Unnamed!NoName, NoName
  <2>4. ASSUME NEW p \in DOMAIN points, NEW j \in 1 .. TOTAL_VALUES
        PROVE  points[p].values[j] = ValueAt(Unnamed!TokenOf(p, j), bad)
    BY <2>1, <2>2 DEF ValuesInv, Unnamed!TokenOf
  <2>5. QED
    BY <2>3, <2>4 DEF Unnamed!SpoiltFromFirstBadToken, ValueAt, bad
<1>3. QED
  BY <1>1, <1>2

\* The values before the first bad token are those of the input, each in its point and
\* at its place, a bad token is 0, and nothing after it is read, for every number of
\* points and values and every input.
THEOREM ValuesAreSpoilt == MCSpec => []Spoilt
<1>1. PartsInv => Spoilt
  BY ReadingMeans DEF PartsInv, Spoilt
<1>2. QED
  BY <1>1, ReadingIsRight, PTL

\* A point whose name is missing bears the last name there was.
THEOREM NamesAreStale == MCSpec => []Stale
<1>1. PartsInv => Stale
  BY ReadingMeans DEF PartsInv, Stale
<1>2. QED
  BY <1>1, ReadingIsRight, PTL

-------------------------------------------------------------------------------
(* The benchmarks.                                                         *)

Program == {"serial", "parallel"}

\* The runs of the benchmark in progress that are over.
RunsOver == CASE loop = "warmup" -> run
              [] loop = "bench"  -> WARMUP_RUNS + run
              [] OTHER           -> WARMUP_RUNS + BENCH_RUNS

MainTypes ==
  /\ benchmark \in Program \cup {"end"}
  /\ loop \in {"warmup", "bench", "done"}
  /\ run \in 0 .. Main!B!Runs
  /\ calling \in BOOLEAN
  /\ start_time \in 0 .. now /\ now \in 0 .. MAX_TIME
  /\ times \in Seq(0 .. MAX_TIME)
  /\ rand \in [1 .. RAND_LENGTH -> Main!Point]
  /\ drawn \in 0 .. RAND_LENGTH
  /\ main_points = Main!Unassigned
  /\ points_copy \in [Main!Point -> Main!ClusterId \cup {Main!NoCluster}]
  /\ clusters \in Seq(Main!Point) /\ Len(clusters) <= MAIN_CLUSTERS
  /\ first_members \in [Program -> Seq(Seq(Main!Point))]

\* A function is called in a run that the loop still misses, and each benchmark has
\* recorded the runs that are over.
StagesInv ==
  /\ calling => benchmark # "end" /\ loop # "done" /\ run < Main!B!Runs
  /\ benchmark = "end" => loop = "done"
  /\ Len(first_members["serial"]) =
       IF benchmark = "serial" THEN RunsOver ELSE WARMUP_RUNS + BENCH_RUNS
  /\ Len(first_members["parallel"]) =
       CASE benchmark = "serial"   -> 0
         [] benchmark = "parallel" -> RunsOver
         [] OTHER                  -> WARMUP_RUNS + BENCH_RUNS

FreshInv ==
  calling =>
    \A p \in Main!Point, c \in Main!ClusterId :
      points_copy[p] = c <=> c < Len(clusters) /\ clusters[c + 1] = p

-------------------------------------------------------------------------------
(* What the random numbers make of the runs does not depend on which       *)
(* program draws them.                                                     *)

\* Can first members be drawn at all?
CanDraw == MAIN_CLUSTERS # 0 /\ ~ Main!TooManyClusters

IsComplete(list) == Len(list) = MAIN_CLUSTERS

\* The lists of first members, one list per run, after one more number, which hits p: it
\* begins a new list when the last one is complete.
AfterDraw(lists, p) ==
  LET last == lists[Len(lists)] IN
  IF lists = << >> THEN << <<p>> >>
  ELSE IF IsComplete(last) THEN Append(lists, <<p>>)
  ELSE IF p \in {last[j] : j \in 1 .. Len(last)} THEN lists
  ELSE [lists EXCEPT ![Len(lists)] = Append(last, p)]

\* The lists after each of the numbers.
IsCourse(C) ==
  /\ C \in [0 .. RAND_LENGTH -> Seq(Seq(Main!Point))]
  /\ C[0] = << >>
  /\ \A d \in 1 .. RAND_LENGTH : C[d] = AfterDraw(C[d - 1], rand[d])

Course == CHOOSE C : IsCourse(C)

\* The lists of the benchmark in progress, with the one that is being drawn.
Lists ==
  IF calling /\ clusters # << >> THEN Append(first_members[benchmark], clusters)
  ELSE first_members[benchmark]

\* They are where the course is, and each benchmark has recorded complete lists of it.
DrawsInv ==
  IF CanDraw
  THEN /\ benchmark # "end" => Lists = Course[drawn]
       /\ \A b \in Program :
            /\ \A r \in 1 .. Len(first_members[b]) : IsComplete(first_members[b][r])
            /\ \E d \in 0 .. RAND_LENGTH :
                 /\ Len(first_members[b]) <= Len(Course[d])
                 /\ \A r \in 1 .. Len(first_members[b]) : first_members[b][r] = Course[d][r]
  ELSE /\ clusters = << >>
       /\ \A b \in Program : \A r \in 1 .. Len(first_members[b]) : first_members[b][r] = << >>

MainInv == MainTypes /\ StagesInv /\ FreshInv /\ DrawsInv

-------------------------------------------------------------------------------

\* One more number gives lists again, and leaves those that are complete.
LEMMA DrawKeepsComplete ==
  ASSUME NEW lists \in Seq(Seq(Main!Point)), NEW p \in Main!Point
  PROVE  /\ AfterDraw(lists, p) \in Seq(Seq(Main!Point))
         /\ Len(lists) <= Len(AfterDraw(lists, p))
         /\ \A r \in 1 .. Len(lists) : IsComplete(lists[r]) => AfterDraw(lists, p)[r] = lists[r]
<1> DEFINE S    == Seq(Main!Point)
           last == lists[Len(lists)]
<1>1. <<p>> \in S /\ Len(lists) \in Nat
  BY LenProperties
<1>2. CASE lists = << >>
  <2>1. AfterDraw(lists, p) = << <<p>> >> /\ << <<p>> >> \in Seq(S) /\ Len(lists) = 0
    BY <1>1, <1>2 DEF AfterDraw
  <2>2. Len(AfterDraw(lists, p)) \in Nat
    BY <2>1, LenProperties
  <2>3. QED
    BY <2>1, <2>2
<1>3. CASE lists # << >>
  <2>1. Len(lists) \in 1 .. Len(lists) /\ last \in S
    BY <1>3, LenProperties, ElementOfSeq, EmptySeq
  <2>2. Append(last, p) \in S
    BY <2>1, AppendProperties
  <2> DEFINE begun == Append(lists, <<p>>)
             grown == [lists EXCEPT ![Len(lists)] = Append(last, p)]
  <2>3. /\ begun \in Seq(S) /\ Len(begun) = Len(lists) + 1
        /\ \A r \in 1 .. Len(lists) : begun[r] = lists[r]
    BY <1>1, AppendProperties
  <2>4. /\ grown \in Seq(S) /\ Len(grown) = Len(lists)
        /\ \A r \in 1 .. Len(lists) : r # Len(lists) => grown[r] = lists[r]
    BY <2>1, <2>2, ExceptSeq
  <2> HIDE DEF begun, grown, last, S
  <2>5. /\ IsComplete(last) => AfterDraw(lists, p) = begun
        /\ ~ IsComplete(last) => AfterDraw(lists, p) \in {lists, grown}
    BY <1>3 DEF AfterDraw, begun, grown, last
  <2>6. lists \in Seq(S)
    BY DEF S
  <2>7. AfterDraw(lists, p) \in Seq(S) /\ Len(lists) <= Len(AfterDraw(lists, p))
    BY <1>1, <2>3, <2>4, <2>5, <2>6
  <2>8. ASSUME NEW r \in 1 .. Len(lists), IsComplete(lists[r])
        PROVE  AfterDraw(lists, p)[r] = lists[r]
    <3>1. CASE IsComplete(last)
      BY <2>3, <2>5, <3>1
    <3>2. CASE ~ IsComplete(last)
      BY <2>4, <2>5, <2>8, <3>2 DEF last
    <3>3. QED
      BY <3>1, <3>2
  <2>9. QED
    BY <2>7, <2>8 DEF S
<1>4. QED
  BY <1>2, <1>3

\* The course is defined, number by number,
LEMMA CourseExists == MainTypes => IsCourse(Course)
<1> SUFFICES ASSUME MainTypes
             PROVE  \E C : IsCourse(C)
  BY DEF Course
<1> DEFINE S == Seq(Seq(Main!Point))
           Partial(C, m) == /\ C \in [0 .. m -> S]
                            /\ C[0] = << >>
                            /\ \A d \in 1 .. m : C[d] = AfterDraw(C[d - 1], rand[d])
           Bad == {m \in Nat : m <= RAND_LENGTH /\ ~ \E C : Partial(C, m)}
<1>1. RAND_LENGTH \in Nat /\ \A d \in 1 .. RAND_LENGTH : rand[d] \in Main!Point
  BY MainAssumption DEF MainTypes
<1>2. \A lists \in S, p \in Main!Point : AfterDraw(lists, p) \in S
  BY DrawKeepsComplete
<1>3. << >> \in S
  OBVIOUS
<1> HIDE DEF S
<1>4. Partial([d \in 0 .. 0 |-> << >>], 0)
  BY <1>3
<1>5. ASSUME NEW m \in Nat, m < RAND_LENGTH, NEW C, Partial(C, m)
      PROVE  \E E : Partial(E, m + 1)
  <2> DEFINE next == AfterDraw(C[m], rand[m + 1])
             E == [d \in 0 .. m + 1 |-> IF d = m + 1 THEN next ELSE C[d]]
  <2>1. next \in S
    BY <1>1, <1>2, <1>5
  <2> HIDE DEF next
  <2>2. E \in [0 .. m + 1 -> S] /\ E[m + 1] = next /\ \A d \in 0 .. m : E[d] = C[d]
    BY <1>5, <2>1
  <2> HIDE DEF E
  <2>3. E[0] = << >>
    BY <1>5, <2>2
  <2>4. ASSUME NEW d \in 1 .. m + 1
        PROVE  E[d] = AfterDraw(E[d - 1], rand[d])
    <3>1. CASE d = m + 1
      BY <2>2, <3>1 DEF next
    <3>2. CASE d \in 1 .. m
      BY <1>5, <2>2, <3>2
    <3>3. QED
      BY <3>1, <3>2
  <2>5. QED
    BY <2>2, <2>3, <2>4
<1> HIDE DEF Partial
<1>6. Bad = {}
  <2> SUFFICES ASSUME Bad # {}
               PROVE  FALSE
    OBVIOUS
  <2>1. PICK m \in Bad : \A k \in Bad : m <= k
    BY LeastElement
  <2>2. m \in Nat /\ m <= RAND_LENGTH /\ m # 0
    BY <1>4, <2>1
  <2>3. m - 1 \in Nat /\ m - 1 < RAND_LENGTH /\ m - 1 \notin Bad /\ (m - 1) + 1 = m
    BY <1>1, <2>1, <2>2
  <2>4. PICK C : Partial(C, m - 1)
    BY <1>1, <2>3
  <2>5. \E E : Partial(E, (m - 1) + 1)
    BY <1>5, <2>3, <2>4
  <2>6. QED
    BY <2>1, <2>3, <2>5
<1>7. PICK C : Partial(C, RAND_LENGTH)
  BY <1>1, <1>6
<1>8. QED
  BY <1>7 DEF Partial, IsCourse, S

\* and what is complete in it stays.
LEMMA CourseKeepsComplete ==
  ASSUME MainTypes, NEW d \in 0 .. RAND_LENGTH, NEW e \in 0 .. RAND_LENGTH, d <= e,
         NEW r \in 1 .. Len(Course[d]), IsComplete(Course[d][r])
  PROVE  r \in 1 .. Len(Course[e]) /\ Course[e][r] = Course[d][r]
<1> DEFINE Keeps(x) == r \in 1 .. Len(Course[x]) /\ Course[x][r] = Course[d][r]
           Bad == {x \in Nat : d <= x /\ x <= e /\ ~ Keeps(x)}
<1>1. /\ RAND_LENGTH \in Nat
      /\ \A x \in 0 .. RAND_LENGTH : Course[x] \in Seq(Seq(Main!Point))
      /\ \A x \in 1 .. RAND_LENGTH : Course[x] = AfterDraw(Course[x - 1], rand[x])
      /\ \A x \in 1 .. RAND_LENGTH : rand[x] \in Main!Point
  BY CourseExists, MainAssumption DEF IsCourse, MainTypes
<1>2. Keeps(d)
  OBVIOUS
<1>3. ASSUME NEW x \in 1 .. RAND_LENGTH, Keeps(x - 1)
      PROVE  Keeps(x)
  <2> DEFINE lists == Course[x - 1]
  <2>1. /\ lists \in Seq(Seq(Main!Point)) /\ rand[x] \in Main!Point
        /\ Course[x] = AfterDraw(lists, rand[x])
    BY <1>1
  <2>2. r \in 1 .. Len(lists) /\ IsComplete(lists[r]) /\ lists[r] = Course[d][r]
    BY <1>3
  <2> HIDE DEF lists
  <2>3. Len(lists) <= Len(Course[x]) /\ Course[x][r] = lists[r]
    BY <2>1, <2>2, DrawKeepsComplete
  <2>4. Len(lists) \in Nat /\ Len(Course[x]) \in Nat
    BY <1>1, <2>1, LenProperties
  <2>5. QED
    BY <2>2, <2>3, <2>4
<1> HIDE DEF Keeps
<1>4. Bad = {}
  <2> SUFFICES ASSUME Bad # {}
               PROVE  FALSE
    OBVIOUS
  <2>1. PICK x \in Bad : \A y \in Bad : x <= y
    BY LeastElement
  <2>2. x \in Nat /\ d <= x /\ x <= e /\ x # d /\ d \in Nat /\ e \in Nat /\ e <= RAND_LENGTH
    BY <1>1, <1>2, <2>1
  <2>3. x \in 1 .. RAND_LENGTH /\ x - 1 \in Nat /\ d <= x - 1 /\ x - 1 <= e /\ ~ (x <= x - 1)
    BY <1>1, <2>2
  <2>4. Keeps(x - 1)
    BY <2>1, <2>3
  <2>5. Keeps(x)
    BY <1>3, <2>3, <2>4
  <2>6. QED
    BY <2>1, <2>5
<1>5. e \in Nat /\ e <= e
  BY <1>1
<1>6. Keeps(e)
  BY <1>4, <1>5
<1>7. QED
  BY <1>6 DEF Keeps

-------------------------------------------------------------------------------

\* The course before the first number, and one number further.
LEMMA CourseSteps ==
  ASSUME MainTypes
  PROVE  /\ Course[0] = << >> /\ 0 \in 0 .. RAND_LENGTH
         /\ \A d \in 0 .. RAND_LENGTH : Course[d] \in Seq(Seq(Main!Point))
         /\ drawn < RAND_LENGTH =>
              /\ drawn + 1 \in 1 .. RAND_LENGTH /\ rand[drawn + 1] \in Main!Point
              /\ Course[drawn + 1] = AfterDraw(Course[drawn], rand[drawn + 1])
<1>1. RAND_LENGTH \in Nat /\ drawn \in 0 .. RAND_LENGTH
  BY MainAssumption DEF MainTypes
<1>2. drawn < RAND_LENGTH => drawn + 1 \in 1 .. RAND_LENGTH /\ (drawn + 1) - 1 = drawn
  BY <1>1
<1> DEFINE C == Course
           S == Seq(Seq(Main!Point))
<1>3. /\ C[0] = << >> /\ C \in [0 .. RAND_LENGTH -> S]
      /\ \A d \in 1 .. RAND_LENGTH : C[d] = AfterDraw(C[d - 1], rand[d])
      /\ rand \in [1 .. RAND_LENGTH -> Main!Point]
  BY CourseExists DEF IsCourse, MainTypes
<1> HIDE DEF C, S
<1>4. 0 \in 0 .. RAND_LENGTH /\ \A d \in 0 .. RAND_LENGTH : C[d] \in S
  BY <1>1, <1>3
<1>5. ASSUME drawn < RAND_LENGTH
      PROVE  /\ drawn + 1 \in 1 .. RAND_LENGTH /\ rand[drawn + 1] \in Main!Point
             /\ C[drawn + 1] = AfterDraw(C[drawn], rand[drawn + 1])
  <2>1. drawn + 1 \in 1 .. RAND_LENGTH /\ (drawn + 1) - 1 = drawn
    BY <1>2, <1>5
  <2>2. rand[drawn + 1] \in Main!Point
    BY <1>3, <2>1
  <2>3. C[drawn + 1] = AfterDraw(C[(drawn + 1) - 1], rand[drawn + 1])
    BY <1>3, <2>1
  <2>4. QED
    BY <2>1, <2>2, <2>3
<1>6. QED
  BY <1>3, <1>4, <1>5 DEF C, S

\* The course is the same as long as the numbers are.
LEMMA SameCourse == ASSUME rand' = rand PROVE Course' = Course
BY DEF Course, IsCourse, AfterDraw, IsComplete

\* The benchmarks start in their invariant.
LEMMA InitMain == ASSUME Main!Init PROVE MainInv
<1>1. {MAIN_POINTS, MAIN_CLUSTERS, WARMUP_RUNS, BENCH_RUNS, MAX_TIME, RAND_LENGTH} \subseteq Nat
  BY MainAssumption
<1>2. /\ benchmark = "serial" /\ loop = "warmup" /\ run = 0 /\ calling = FALSE
      /\ start_time = 0 /\ times = << >> /\ now = 0 /\ drawn = 0 /\ clusters = << >>
      /\ main_points = Main!Unassigned /\ points_copy = Main!Unassigned
      /\ first_members = [b \in Program |-> << >>]
      /\ rand \in [1 .. RAND_LENGTH -> Main!Point]
  BY DEF Main!Init, Main!Start, Main!B!Init, Program
<1>3. first_members["serial"] = << >> /\ first_members["parallel"] = << >>
  BY <1>2 DEF Program
<1>4. Len(<< >>) = 0 /\ \A S : << >> \in Seq(S)
  OBVIOUS
<1>5. MainTypes
  <2>1. Main!Unassigned \in [Main!Point -> Main!ClusterId \cup {Main!NoCluster}]
    BY DEF Main!Unassigned
  <2>2. first_members \in [Program -> Seq(Seq(Main!Point))]
    BY <1>2, <1>4
  <2>3. 0 \in 0 .. Main!B!Runs /\ 0 \in 0 .. 0 /\ 0 \in 0 .. MAX_TIME /\ 0 \in 0 .. RAND_LENGTH
        /\ 0 <= MAIN_CLUSTERS
    BY <1>1 DEF Main!B!Runs
  <2>4. QED
    BY <1>2, <1>4, <2>1, <2>2, <2>3 DEF MainTypes, Program
<1>6. StagesInv
  BY <1>2, <1>3, <1>4 DEF StagesInv, RunsOver
<1>7. FreshInv
  BY <1>2 DEF FreshInv
<1>8. DrawsInv
  <2>1. Course[0] = << >> /\ 0 \in 0 .. RAND_LENGTH
    BY <1>5, CourseSteps
  <2>2. \A b \in Program : first_members[b] = << >> /\ 1 .. Len(first_members[b]) = {}
    BY <1>2, <1>4
  <2>3. Lists = << >>
    BY <1>2, <1>3 DEF Lists
  <2>4. QED
    BY <1>2, <1>4, <2>1, <2>2, <2>3 DEF DrawsInv
<1>9. QED
  BY <1>5, <1>6, <1>7, <1>8 DEF MainInv

\* A step that draws nothing and ends no run leaves the lists.
LEMMA DrawsStay ==
  ASSUME DrawsInv, Lists' = Lists, benchmark' = benchmark,
         UNCHANGED <<drawn, rand, first_members>>, clusters' = clusters \/ clusters' = << >>
  PROVE  DrawsInv'
<1>1. Course' = Course
  BY SameCourse
<1>2. CanDraw' = CanDraw
  BY DEF CanDraw, Main!TooManyClusters
<1>3. CASE CanDraw
  BY <1>1, <1>2, <1>3 DEF DrawsInv, IsComplete
<1>4. CASE ~ CanDraw
  BY <1>2, <1>4 DEF DrawsInv
<1>5. QED
  BY <1>3, <1>4

\* A call keeps the invariant: its object is new and its points are main's.
LEMMA StartRunInv == ASSUME MainInv, Main!StartRun PROVE MainInv'
<1>1. /\ benchmark # "end" /\ loop # "done" /\ ~ calling /\ run < Main!B!Runs
      /\ calling' = TRUE /\ start_time' \in {now, start_time}
      /\ points_copy' = main_points /\ clusters' = << >>
      /\ UNCHANGED <<benchmark, loop, run, times, now, rand, drawn, main_points, first_members>>
  BY DEF Main!StartRun, Main!B!Call, Main!B!IsMissingRun, Main!B!Started, Main!NewObject
<1>2. MainTypes'
  <2>1. main_points \in [Main!Point -> Main!ClusterId \cup {Main!NoCluster}]
    BY DEF MainInv, MainTypes, Main!Unassigned
  <2>2. start_time' \in 0 .. now
    BY <1>1, MainAssumption DEF MainInv, MainTypes
  <2>3. << >> \in Seq(Main!Point) /\ Len(<< >>) <= MAIN_CLUSTERS
    BY MainAssumption
  <2>4. QED
    BY <1>1, <2>1, <2>2, <2>3 DEF MainInv, MainTypes, Main!Unassigned, Main!Point, Main!ClusterId,
       Main!NoCluster, Main!B!Runs
<1>3. StagesInv'
  BY <1>1 DEF MainInv, StagesInv, RunsOver, Main!B!Runs
<1>4. FreshInv'
  <2>1. \A p \in Main!Point, c \in Main!ClusterId : main_points[p] # c /\ ~ (c < Len(<< >>))
    BY MainAssumption DEF MainInv, MainTypes, Main!Unassigned, Main!NoCluster, Main!ClusterId
  <2>2. QED
    BY <1>1, <2>1 DEF FreshInv, Main!Point, Main!ClusterId
<1>5. DrawsInv'
  <2>1. Lists' = Lists
    BY <1>1 DEF Lists
  <2>2. QED
    BY <1>1, <2>1, DrawsStay DEF MainInv
<1>6. QED
  BY <1>2, <1>3, <1>4, <1>5 DEF MainInv

\* A random number keeps it: a point that is drawn first is where its list says, and the
\* list is the next of the course.
LEMMA DrawInv == ASSUME MainInv, Main!Draw PROVE MainInv'
<1> DEFINE p == rand[drawn + 1]
<1>1. /\ calling /\ ~ Main!TooManyClusters /\ Len(clusters) < MAIN_CLUSTERS
      /\ drawn < RAND_LENGTH /\ drawn' = drawn + 1
      /\ UNCHANGED <<benchmark, loop, run, calling, start_time, times, now, rand, main_points,
                     first_members>>
      /\ p \in Main!Range(clusters) => UNCHANGED <<points_copy, clusters>>
      /\ p \notin Main!Range(clusters) =>
           /\ points_copy' = [points_copy EXCEPT ![p] = Len(clusters)]
           /\ clusters' = Append(clusters, p)
  BY DEF Main!Draw, Main!benchVars
<1>2. /\ clusters \in Seq(Main!Point) /\ Len(clusters) \in Nat
      /\ DOMAIN clusters = 1 .. Len(clusters)
      /\ MAIN_CLUSTERS \in Nat
  BY MainAssumption, LenProperties DEF MainInv, MainTypes
<1>3. /\ p \in Main!Point /\ drawn' \in 0 .. RAND_LENGTH
      /\ Course[drawn'] = AfterDraw(Course[drawn], p)
  BY <1>1, CourseSteps, MainAssumption DEF MainInv, MainTypes
<1> HIDE DEF p
<1>4. /\ Append(clusters, p) \in Seq(Main!Point)
      /\ Len(Append(clusters, p)) = Len(clusters) + 1
      /\ \A j \in 1 .. Len(clusters) : Append(clusters, p)[j] = clusters[j]
      /\ Append(clusters, p)[Len(clusters) + 1] = p
  BY <1>2, <1>3, AppendProperties
<1>5. p \in Main!Range(clusters) <=> \E j \in 1 .. Len(clusters) : clusters[j] = p
  BY <1>2 DEF Main!Range
<1>6. Len(clusters) \in Main!ClusterId
  BY <1>1, <1>2 DEF Main!ClusterId
<1>7. MainTypes'
  <2>1. clusters' \in Seq(Main!Point)
    BY <1>1, <1>2, <1>4
  <2>2. Len(clusters') <= MAIN_CLUSTERS
    BY <1>1, <1>2, <1>4
  <2>3. points_copy' \in [Main!Point -> Main!ClusterId \cup {Main!NoCluster}]
    <3>1. points_copy \in [Main!Point -> Main!ClusterId \cup {Main!NoCluster}]
      BY DEF MainInv, MainTypes
    <3>2. QED
      BY <1>1, <1>3, <1>6, <3>1
  <2>4. QED
    BY <1>1, <1>3, <2>1, <2>2, <2>3 DEF MainInv, MainTypes, Main!Unassigned, Main!Point,
       Main!ClusterId, Main!NoCluster, Main!B!Runs
<1>8. StagesInv'
  BY <1>1 DEF MainInv, StagesInv, RunsOver, Main!B!Runs
<1>9. FreshInv'
  <2>1. CASE p \in Main!Range(clusters)
    BY <1>1, <2>1 DEF MainInv, FreshInv, Main!Point, Main!ClusterId
  <2>2. CASE p \notin Main!Range(clusters)
    <3>1. \A j \in 1 .. Len(clusters) : clusters[j] # p
      BY <1>5, <2>2, Zenon
    <3>2. ASSUME NEW q \in Main!Point, NEW c \in Main!ClusterId
          PROVE  points_copy'[q] = c <=> c < Len(clusters') /\ clusters'[c + 1] = q
      <4>1. points_copy \in [Main!Point -> Main!ClusterId \cup {Main!NoCluster}]
        BY DEF MainInv, MainTypes
      <4>2. c \in Nat
        BY <1>2 DEF Main!ClusterId
      <4>3. points_copy[q] = c <=> c < Len(clusters) /\ clusters[c + 1] = q
        BY <1>1, ZenonT(40) DEF MainInv, FreshInv
      <4>4. /\ c < Len(clusters) => c + 1 \in 1 .. Len(clusters)
            /\ c < Len(clusters) + 1 <=> c < Len(clusters) \/ c = Len(clusters)
            /\ ~ Len(clusters) < Len(clusters)
        <5>1. \A j, k \in Nat : /\ j < k => j + 1 \in 1 .. k
                                /\ j < k + 1 <=> j < k \/ j = k
                                /\ ~ k < k
          OBVIOUS
        <5>2. QED
          BY <1>2, <4>2, <5>1
      <4>5. points_copy'[q] = IF q = p THEN Len(clusters) ELSE points_copy[q]
        BY <1>1, <1>3, <2>2, <4>1
      <4>6. clusters' = Append(clusters, p)
        BY <1>1, <2>2
      <4> DEFINE k == Len(clusters)
                 longer == Append(clusters, p)
      <4>7. /\ Len(longer) = k + 1 /\ longer[k + 1] = p
            /\ \A j \in 1 .. k : longer[j] = clusters[j]
        BY <1>4
      <4>8. /\ points_copy'[q] = IF q = p THEN k ELSE points_copy[q]
            /\ clusters' = longer
        BY <4>5, <4>6
      <4> HIDE DEF k, longer
      <4>9. CASE c = k
        <5>1. c < k + 1 /\ ~ c < k
          BY <4>4, <4>9 DEF k
        <5>2. points_copy'[q] = c <=> q = p
          BY <4>3, <4>8, <4>9, <5>1 DEF k
        <5>3. QED
          BY <4>7, <4>8, <4>9, <5>1, <5>2
      <4>10. CASE c # k
        <5>1. c < k + 1 <=> c < k
          BY <4>4, <4>10 DEF k
        <5>2. c < k => longer[c + 1] = clusters[c + 1] /\ clusters[c + 1] # p
          BY <3>1, <4>4, <4>7 DEF k
        <5>3. points_copy'[q] = c <=> c < k /\ clusters[c + 1] = q
          <6>1. CASE q = p
            BY <4>8, <4>10, <5>2, <6>1
          <6>2. CASE q # p
            BY <4>3, <4>8, <6>2 DEF k
          <6>3. QED
            BY <6>1, <6>2
        <5>4. QED
          BY <4>7, <4>8, <5>1, <5>2, <5>3
      <4>11. QED
        BY <4>9, <4>10, Zenon
    <3>3. QED
      BY <3>2 DEF FreshInv, Main!Point, Main!ClusterId
  <2>3. QED
    BY <2>1, <2>2
<1>10. DrawsInv'
  <2> DEFINE over == first_members[benchmark]
  <2>1. CanDraw /\ CanDraw'
    BY <1>1, <1>2 DEF CanDraw, Main!TooManyClusters
  <2>2. /\ benchmark # "end" /\ benchmark \in Program
        /\ Lists = Course[drawn] /\ over \in Seq(Seq(Main!Point))
        /\ \A r \in 1 .. Len(over) : IsComplete(over[r])
    BY <1>1, <2>1 DEF MainInv, MainTypes, StagesInv, DrawsInv
  <2>3. /\ Lists  = IF clusters # << >> THEN Append(over, clusters) ELSE over
        /\ Lists' = IF clusters' # << >> THEN Append(over, clusters') ELSE over
    BY <1>1 DEF Lists
  <2> HIDE DEF over
  <2>4. Lists' = AfterDraw(Lists, p)
    <3>1. CASE clusters = << >>
      <4>1. clusters' = <<p>> /\ clusters' # << >> /\ Lists = over /\ Lists' = Append(over, <<p>>)
        <5>1. p \notin Main!Range(clusters) /\ Append(<< >>, p) = <<p>> /\ <<p>> # << >>
          BY <1>5, <3>1
        <5>2. QED
          BY <1>1, <2>3, <3>1, <5>1
      <4>2. CASE over = << >>
        <5>1. Append(over, <<p>>) = << <<p>> >>
          BY <4>2
        <5>2. QED
          BY <4>1, <4>2, <5>1 DEF AfterDraw
      <4>3. CASE over # << >>
        <5>1. Len(over) \in 1 .. Len(over)
          BY <2>2, <4>3, LenProperties, EmptySeq
        <5>2. QED
          BY <2>2, <4>1, <4>3, <5>1 DEF AfterDraw
      <4>4. QED
        BY <4>2, <4>3
    <3>2. CASE clusters # << >>
      <4>1. /\ Lists \in Seq(Seq(Main!Point)) /\ Lists = Append(over, clusters)
            /\ Len(Lists) = Len(over) + 1 /\ Len(over) \in Nat
            /\ Lists[Len(Lists)] = clusters
            /\ \A r \in 1 .. Len(over) : Lists[r] = over[r]
        <5>1. Lists = Append(over, clusters)
          BY <2>3, <3>2
        <5> DEFINE S == Seq(Main!Point)
        <5>2. clusters \in S /\ over \in Seq(S)
          BY <1>2, <2>2
        <5> HIDE DEF S
        <5>3. /\ Lists \in Seq(S) /\ Len(Lists) = Len(over) + 1 /\ Len(over) \in Nat
              /\ Lists[Len(over) + 1] = clusters
              /\ \A r \in 1 .. Len(over) : Lists[r] = over[r]
          BY <5>1, <5>2, AppendProperties, LenProperties
        <5>4. QED
          BY <5>1, <5>3 DEF S
      <4>2. Lists # << >> /\ ~ IsComplete(clusters)
        <5>1. Len(Lists) # 0 /\ Len(<< >>) = 0
          <6>1. \A j \in Nat : j + 1 # 0
            OBVIOUS
          <6>2. Len(Lists) # 0
            BY <4>1, <6>1, ZenonT(40)
          <6>3. QED
            BY <6>2
        <5>2. Len(clusters) # MAIN_CLUSTERS
          <6>1. \A j, k \in Nat : j < k => j # k
            OBVIOUS
          <6>2. QED
            BY <1>1, <1>2, <6>1
        <5>3. QED
          BY <5>1, <5>2 DEF IsComplete
      <4>3. CASE p \in Main!Range(clusters)
        <5>1. Lists' = Lists
          BY <1>1, <2>3, <3>2, <4>3
        <5>2. QED
          BY <1>5, <4>1, <4>2, <4>3, <5>1 DEF AfterDraw
      <4>4. CASE p \notin Main!Range(clusters)
        <5>1. clusters' = Append(clusters, p) /\ Lists' = Append(over, Append(clusters, p))
          <6>1. Append(clusters, p) # << >>
            BY <1>2, <1>4
          <6>2. QED
            BY <1>1, <2>3, <4>4, <6>1
        <5>2. Append(over, Append(clusters, p))
                = [Lists EXCEPT ![Len(Lists)] = Append(clusters, p)]
          <6> DEFINE new == Append(clusters, p)
                     A   == Append(over, new)
                     E   == [Lists EXCEPT ![Len(Lists)] = new]
          <6>1. /\ A \in Seq(Seq(Main!Point)) /\ Len(A) = Len(over) + 1
                /\ A[Len(over) + 1] = new /\ \A r \in 1 .. Len(over) : A[r] = over[r]
            BY <1>4, <2>2, AppendProperties
          <6>2. /\ E \in Seq(Seq(Main!Point)) /\ Len(E) = Len(Lists)
                /\ \A r \in 1 .. Len(Lists) : E[r] = IF r = Len(Lists) THEN new ELSE Lists[r]
            <7> DEFINE S == Seq(Main!Point)
            <7>1. Len(Lists) \in 1 .. Len(Lists) /\ new \in S /\ Lists \in Seq(S)
              BY <1>4, <4>1
            <7> HIDE DEF new, S
            <7>2. /\ E \in Seq(S) /\ Len(E) = Len(Lists)
                  /\ \A r \in 1 .. Len(Lists) : E[r] = IF r = Len(Lists) THEN new ELSE Lists[r]
              BY <7>1, ExceptSeq
            <7>3. QED
              BY <7>2 DEF S
          <6> HIDE DEF new, A, E
          <6>3. ASSUME NEW r \in 1 .. Len(over) + 1
                PROVE  A[r] = E[r]
            <7>1. CASE r = Len(over) + 1
              BY <4>1, <6>1, <6>2, <7>1
            <7>2. CASE r \in 1 .. Len(over)
              <8>1. r # Len(Lists) /\ r \in 1 .. Len(Lists)
                BY <4>1, <7>2
              <8>2. QED
                BY <4>1, <6>1, <6>2, <7>2, <8>1
            <7>3. QED
              BY <4>1, <7>1, <7>2
          <6>4. A = E
            BY <4>1, <6>1, <6>2, <6>3, SeqEqual
          <6>5. QED
            BY <6>4 DEF A, E, new
        <5>3. QED
          BY <1>5, <4>1, <4>2, <4>4, <5>1, <5>2 DEF AfterDraw
      <4>5. QED
        BY <4>3, <4>4
    <3>3. QED
      BY <3>1, <3>2
  <2>5. Course' = Course
    BY <1>1, SameCourse
  <2>6. Lists' = Course'[drawn']
    BY <1>3, <2>2, <2>4, <2>5
  <2>7. QED
    BY <1>1, <2>1, <2>5, <2>6 DEF MainInv, DrawsInv, IsComplete
<1>11. QED
  BY <1>7, <1>8, <1>9, <1>10 DEF MainInv

\* The end of a run keeps it: the list is complete, and main's points are untouched.
LEMMA FinishRunInv == ASSUME MainInv, Main!FinishRun PROVE MainInv'
<1> DEFINE over == first_members[benchmark]
<1>1. /\ calling /\ calling' = FALSE /\ run' = run + 1
      /\ times' \in {times, Append(times, now - start_time)}
      /\ main_points' = main_points
      /\ first_members' = [first_members EXCEPT ![benchmark] = Append(over, clusters)]
      /\ UNCHANGED <<benchmark, loop, start_time, now, rand, drawn, clusters>>
      /\ points_copy' \in {points_copy} \cup [Main!Point -> Main!ClusterId]
      /\ ~ Main!TooManyClusters => Len(clusters) = MAIN_CLUSTERS
  BY DEF Main!FinishRun, Main!B!Return, Main!PointsAfter
<1>2. /\ benchmark \in Program /\ benchmark # "end" /\ loop # "done" /\ run < Main!B!Runs
      /\ clusters \in Seq(Main!Point) /\ over \in Seq(Seq(Main!Point))
      /\ first_members \in [Program -> Seq(Seq(Main!Point))]
      /\ {MAIN_POINTS, MAIN_CLUSTERS, WARMUP_RUNS, BENCH_RUNS, MAX_TIME, RAND_LENGTH} \subseteq Nat
  BY <1>1, MainAssumption DEF MainInv, MainTypes, StagesInv
<1>3. /\ Append(over, clusters) \in Seq(Seq(Main!Point))
      /\ Len(Append(over, clusters)) = Len(over) + 1 /\ Len(over) \in Nat
      /\ \A r \in 1 .. Len(over) : Append(over, clusters)[r] = over[r]
      /\ Append(over, clusters)[Len(over) + 1] = clusters
  <2> DEFINE S == Seq(Main!Point)
  <2>1. clusters \in S /\ over \in Seq(S)
    BY <1>2
  <2> HIDE DEF S, over
  <2>2. /\ Append(over, clusters) \in Seq(S)
        /\ Len(Append(over, clusters)) = Len(over) + 1 /\ Len(over) \in Nat
        /\ \A r \in 1 .. Len(over) : Append(over, clusters)[r] = over[r]
        /\ Append(over, clusters)[Len(over) + 1] = clusters
    BY <2>1, AppendProperties, LenProperties
  <2>3. QED
    BY <2>2 DEF S
<1>4. /\ first_members'[benchmark] = Append(over, clusters)
      /\ \A b \in Program \ {benchmark} : first_members'[b] = first_members[b]
      /\ first_members' \in [Program -> Seq(Seq(Main!Point))]
  <2> HIDE DEF over
  <2>1. QED
    BY <1>1, <1>2, <1>3
<1> DEFINE new == Append(over, clusters)
<1> HIDE DEF over
<1>5. MainTypes'
  <2>1. times' \in Seq(0 .. MAX_TIME)
    <3> DEFINE Time == 0 .. MAX_TIME
    <3>1. now - start_time \in Time /\ times \in Seq(Time)
      BY <1>2 DEF MainInv, MainTypes
    <3> HIDE DEF Time
    <3>2. Append(times, now - start_time) \in Seq(Time)
      BY <3>1, AppendProperties
    <3>3. QED
      BY <1>1, <3>1, <3>2 DEF Time
  <2>2. run' \in 0 .. Main!B!Runs /\ Main!B!Runs' = Main!B!Runs
    BY <1>1, <1>2 DEF MainInv, MainTypes, Main!B!Runs
  <2>3. points_copy' \in [Main!Point -> Main!ClusterId \cup {Main!NoCluster}]
    BY <1>1 DEF MainInv, MainTypes
  <2>4. /\ Main!Point' = Main!Point /\ Main!ClusterId' = Main!ClusterId
        /\ Main!NoCluster' = Main!NoCluster /\ Main!Unassigned' = Main!Unassigned
    BY DEF Main!Unassigned, Main!Point, Main!ClusterId, Main!NoCluster
  <2>5. QED
    BY <1>1, <1>4, <2>1, <2>2, <2>3, <2>4 DEF MainInv, MainTypes
<1>6. StagesInv'
  <2>1. RunsOver' = RunsOver + 1
    <3>1. run \in Nat /\ loop \in {"warmup", "bench"}
      BY <1>2 DEF MainInv, MainTypes, Main!B!Runs
    <3>2. WARMUP_RUNS \in Nat /\ run' = run + 1 /\ loop' = loop
      BY <1>1, <1>2
    <3>3. QED
      BY <3>1, <3>2 DEF RunsOver
  <2>2. Len(over) = RunsOver /\ (benchmark = "serial" => Len(first_members["parallel"]) = 0)
        /\ (benchmark = "parallel" => Len(first_members["serial"]) = WARMUP_RUNS + BENCH_RUNS)
    BY <1>2 DEF MainInv, StagesInv, Program, over
  <2>3. QED
    BY <1>1, <1>2, <1>3, <1>4, <2>1, <2>2 DEF StagesInv, Program
<1>7. FreshInv'
  BY <1>1 DEF FreshInv
<1>8. DrawsInv'
  <2>1. Course' = Course /\ CanDraw' = CanDraw
    BY <1>1, SameCourse DEF CanDraw, Main!TooManyClusters
  <2>2. Lists' = new
    BY <1>1, <1>4 DEF Lists
  <2>3. CASE CanDraw
    <3>1. IsComplete(clusters) /\ clusters # << >>
      <4>1. Len(clusters) = MAIN_CLUSTERS /\ MAIN_CLUSTERS # 0
        BY <1>1, <2>3 DEF CanDraw
      <4>2. QED
        BY <4>1 DEF IsComplete
    <3>2. new = Course[drawn]
      BY <1>1, <1>2, <2>3, <3>1 DEF MainInv, DrawsInv, Lists, over
    <3>3. \A r \in 1 .. Len(over) : IsComplete(over[r])
      BY <1>2, <2>3 DEF MainInv, DrawsInv, over
    <3>4. \A r \in 1 .. Len(new) : IsComplete(new[r])
      BY <1>3, <3>1, <3>3
    <3>5. Len(new) <= Len(Course[drawn]) /\ drawn \in 0 .. RAND_LENGTH
      BY <1>3, <3>2 DEF MainInv, MainTypes
    <3>6. ASSUME NEW b \in Program
          PROVE  /\ \A r \in 1 .. Len(first_members'[b]) : IsComplete(first_members'[b][r])
                 /\ \E d \in 0 .. RAND_LENGTH :
                      /\ Len(first_members'[b]) <= Len(Course[d])
                      /\ \A r \in 1 .. Len(first_members'[b]) :
                           first_members'[b][r] = Course[d][r]
      <4>1. CASE b = benchmark
        BY <1>4, <3>2, <3>4, <3>5, <4>1
      <4>2. CASE b # benchmark
        <5>1. first_members'[b] = first_members[b]
          BY <1>4, <4>2
        <5>2. QED
          BY <2>3, <5>1 DEF MainInv, DrawsInv
      <4>3. QED
        BY <4>1, <4>2
    <3>7. Lists' = Course'[drawn']
      BY <1>1, <2>1, <2>2, <3>2
    <3>8. QED
      BY <2>1, <2>3, <3>6, <3>7 DEF DrawsInv, IsComplete
  <2>4. CASE ~ CanDraw
    <3>1. clusters = << >> /\ \A r \in 1 .. Len(over) : over[r] = << >>
      BY <1>2, <2>4 DEF MainInv, DrawsInv, over
    <3>2. \A r \in 1 .. Len(new) : new[r] = << >>
      BY <1>3, <3>1
    <3>3. \A b \in Program : \A r \in 1 .. Len(first_members'[b]) : first_members'[b][r] = << >>
      BY <1>4, <2>4, <3>2 DEF MainInv, DrawsInv
    <3>4. QED
      BY <1>1, <2>1, <2>4, <3>1, <3>3 DEF DrawsInv
  <2>5. QED
    BY <2>3, <2>4
<1>9. QED
  BY <1>5, <1>6, <1>7, <1>8 DEF MainInv

\* The end of a loop and the clock are no part of the draws, and srand starts the course
\* over for the parallel program.
LEMMA EndLoopInv == ASSUME MainInv, Main!EndLoop PROVE MainInv'
<1>1. /\ loop # "done" /\ ~ calling /\ run = Main!B!Runs /\ run' = 0
      /\ loop' = IF loop = "warmup" THEN "bench" ELSE "done"
      /\ times' \in {<< >>, times}
      /\ UNCHANGED <<benchmark, calling, start_time, now, rand, drawn, main_points, points_copy,
                     clusters, first_members>>
  BY DEF Main!EndLoop, Main!B!EndLoop
<1>2. /\ MainTypes /\ StagesInv /\ FreshInv /\ DrawsInv
      /\ WARMUP_RUNS \in Nat /\ BENCH_RUNS \in Nat
  BY MainAssumption DEF MainInv
<1>3. loop' \in {"bench", "done"} /\ (loop = "bench" <=> loop' = "done")
  BY <1>1, <1>2 DEF MainTypes
<1>4. MainTypes'
  <2>1. run' \in 0 .. Main!B!Runs' /\ << >> \in Seq(0 .. MAX_TIME)
    BY <1>1, <1>2 DEF Main!B!Runs
  <2>2. QED
    BY <1>1, <1>2, <1>3, <2>1 DEF MainTypes, Main!Unassigned, Main!Point, Main!ClusterId,
       Main!NoCluster
<1>5. StagesInv'
  <2>1. RunsOver' = RunsOver
    <3>1. loop \in {"warmup", "bench"}
      BY <1>1, <1>2 DEF MainTypes
    <3>2. QED
      BY <1>1, <1>2, <3>1 DEF RunsOver, Main!B!Runs
  <2>2. benchmark # "end"
    BY <1>1, <1>2 DEF StagesInv
  <2>3. QED
    BY <1>1, <1>2, <2>1, <2>2 DEF StagesInv
<1>6. FreshInv'
  BY <1>1 DEF FreshInv
<1>7. DrawsInv'
  <2>1. Lists' = Lists
    BY <1>1 DEF Lists
  <2>2. QED
    BY <1>1, <1>2, <2>1, DrawsStay
<1>8. QED
  BY <1>4, <1>5, <1>6, <1>7 DEF MainInv

\* (The clock goes on.)
LEMMA TickInv == ASSUME MainInv, Main!Tick PROVE MainInv'
<1>1. /\ now < MAX_TIME /\ now' = now + 1
      /\ UNCHANGED <<benchmark, loop, run, calling, start_time, times, rand, drawn, main_points,
                     points_copy, clusters, first_members>>
  BY DEF Main!Tick, Main!B!Tick
<1>2. MainTypes /\ StagesInv /\ FreshInv /\ DrawsInv /\ MAX_TIME \in Nat
  BY MainAssumption DEF MainInv
<1>3. MainTypes'
  <2>1. now' \in 0 .. MAX_TIME /\ start_time' \in 0 .. now'
    BY <1>1, <1>2 DEF MainTypes
  <2>2. QED
    BY <1>1, <1>2, <2>1 DEF MainTypes, Main!Unassigned, Main!Point, Main!ClusterId,
       Main!NoCluster, Main!B!Runs
<1>4. StagesInv' /\ FreshInv'
  BY <1>1, <1>2 DEF StagesInv, RunsOver, Main!B!Runs, FreshInv, Main!Point, Main!ClusterId
<1>5. DrawsInv'
  <2>1. Lists' = Lists
    BY <1>1 DEF Lists
  <2>2. QED
    BY <1>1, <1>2, <2>1, DrawsStay
<1>6. QED
  BY <1>3, <1>4, <1>5 DEF MainInv

\* (The next benchmark begins, or main() ends.)
LEMMA NextBenchmarkInv == ASSUME MainInv, Main!NextBenchmark PROVE MainInv'
<1>1. /\ loop = "done" /\ benchmark # "end"
      /\ UNCHANGED <<calling, start_time, now, rand, main_points, points_copy, clusters,
                     first_members>>
      /\ benchmark = "serial" =>
           /\ benchmark' = "parallel" /\ drawn' = 0 /\ loop' = "warmup" /\ run' = 0
           /\ times' = << >>
      /\ benchmark # "serial" => benchmark' = "end" /\ UNCHANGED <<drawn, loop, run, times>>
  BY DEF Main!NextBenchmark, Main!Reseeded, Main!benchVars
<1>2. /\ MainTypes /\ StagesInv /\ FreshInv /\ DrawsInv /\ ~ calling
      /\ {MAIN_POINTS, MAIN_CLUSTERS, WARMUP_RUNS, BENCH_RUNS, MAX_TIME, RAND_LENGTH} \subseteq Nat
  BY <1>1, MainAssumption DEF MainInv, StagesInv
<1>3. benchmark \in Program
  BY <1>1, <1>2 DEF MainTypes
<1>4. MainTypes'
  <2>1. /\ Main!Point' = Main!Point /\ Main!ClusterId' = Main!ClusterId
        /\ Main!NoCluster' = Main!NoCluster /\ Main!Unassigned' = Main!Unassigned
    BY DEF Main!Unassigned, Main!Point, Main!ClusterId, Main!NoCluster
  <2>2. benchmark = "serial" => run' \in 0 .. Main!B!Runs' /\ drawn' \in 0 .. RAND_LENGTH
                                /\ times' \in Seq(0 .. MAX_TIME)
    BY <1>1, <1>2 DEF Main!B!Runs
  <2>3. benchmark # "serial" => run' \in 0 .. Main!B!Runs'
    BY <1>1, <1>2 DEF Main!B!Runs, MainTypes
  <2>4. QED
    BY <1>1, <1>2, <2>1, <2>2, <2>3 DEF MainTypes, Program
<1>5. StagesInv'
  <2>1. RunsOver = WARMUP_RUNS + BENCH_RUNS
    BY <1>1 DEF RunsOver
  <2>2. benchmark = "serial" => RunsOver' = 0
    BY <1>1 DEF RunsOver
  <2>3. QED
    BY <1>1, <1>2, <1>3, <2>1, <2>2 DEF StagesInv, Program
<1>6. FreshInv'
  BY <1>1, <1>2 DEF FreshInv
<1>7. DrawsInv'
  <2>1. Course' = Course /\ CanDraw' = CanDraw
    BY <1>1, SameCourse DEF CanDraw, Main!TooManyClusters
  <2>2. CASE CanDraw
    <3>1. benchmark' # "end" => Lists' = Course'[drawn']
      <4>1. ASSUME benchmark' # "end"
            PROVE  Lists' = Course'[drawn']
        <5>1. benchmark = "serial" /\ benchmark' = "parallel" /\ drawn' = 0
          BY <1>1, <4>1
        <5>2. /\ first_members["parallel"] \in Seq(Seq(Main!Point))
              /\ Len(first_members["parallel"]) = 0
          BY <1>2, <5>1 DEF StagesInv, MainTypes, Program
        <5>3. first_members["parallel"] = << >>
          BY <5>2, EmptySeq
        <5>4. Lists' = << >>
          BY <1>1, <1>2, <5>1, <5>3 DEF Lists
        <5>5. QED
          BY <1>2, <2>1, <5>1, <5>4, CourseSteps
      <4>2. QED
        BY <4>1
    <3>2. QED
      BY <1>1, <1>2, <2>1, <2>2, <3>1 DEF DrawsInv, IsComplete
  <2>3. CASE ~ CanDraw
    BY <1>1, <1>2, <2>1, <2>3 DEF DrawsInv
  <2>4. QED
    BY <2>2, <2>3
<1>8. QED
  BY <1>4, <1>5, <1>6, <1>7 DEF MainInv

-------------------------------------------------------------------------------

\* The benchmarks are right whenever they are the part of a behaviour.
PartMainInv == part = "main" => MainInv

THEOREM BenchmarksAreRight == MCSpec => []PartMainInv
<1>1. MCInit => PartMainInv
  BY InitMain DEF MCInit, PartMainInv
<1>2. PartMainInv /\ [MCNext]_<<part, vars, readVars, mainVars>> => PartMainInv'
  <2> SUFFICES ASSUME PartMainInv, [MCNext]_<<part, vars, readVars, mainVars>>, part' = "main"
               PROVE  MainInv'
    BY DEF PartMainInv
  <2>1. part = "main" /\ MainInv
    BY DEF MCNext, PartMainInv
  <2>2. CASE UNCHANGED <<part, vars, readVars, mainVars>>
    <3>1. UNCHANGED <<benchmark, loop, run, calling, start_time, times, now, rand, drawn,
                      main_points, points_copy, clusters, first_members>>
      BY <2>2 DEF mainVars
    <3>2. Course' = Course /\ Lists' = Lists
      BY <3>1, SameCourse DEF Lists
    <3>3. MainTypes' /\ StagesInv' /\ FreshInv'
      BY <2>1, <3>1 DEF MainInv, MainTypes, StagesInv, RunsOver, FreshInv, Main!Unassigned,
         Main!Point, Main!ClusterId, Main!NoCluster, Main!B!Runs
    <3>4. DrawsInv'
      BY <2>1, <3>1, <3>2, DrawsStay DEF MainInv
    <3>5. QED
      BY <3>3, <3>4 DEF MainInv
  <2>3. CASE Main!Next
    BY <2>1, <2>3, StartRunInv, DrawInv, FinishRunInv, EndLoopInv, TickInv, NextBenchmarkInv
       DEF Main!Next
  <2>4. QED
    BY <2>1, <2>2, <2>3 DEF MCNext
<1>3. QED
  BY <1>1, <1>2, PTL DEF MCSpec

\* No run sees what those before it have left: while it draws, its copy of the points and
\* its clusters hold the members it has drawn itself and nothing else (run() in serial.hpp
\* and parallel.hpp, called from main.cpp), for every sequence of random numbers.
THEOREM RunsAreFresh == MCSpec => []RunsStartFresh
<1>1. ASSUME MainInv
      PROVE  Main!RunsStartFresh
  <2>1. MainTypes /\ StagesInv /\ FreshInv /\ {WARMUP_RUNS, BENCH_RUNS, MAX_TIME} \subseteq Nat
    BY <1>1, MainAssumption DEF MainInv
  <2>2. RunsOver <= WARMUP_RUNS + BENCH_RUNS
    BY <2>1 DEF RunsOver, MainTypes, Main!B!Runs
  <2>3. \A b \in Program : Len(first_members[b]) <= WARMUP_RUNS + BENCH_RUNS
    BY <2>1, <2>2 DEF StagesInv, Program
  <2>4. Main!B!TypeOK
    <3>1. run \in 0 .. Main!B!Max({WARMUP_RUNS, BENCH_RUNS})
      <4>1. \E m \in {WARMUP_RUNS, BENCH_RUNS} : \A k \in {WARMUP_RUNS, BENCH_RUNS} : m >= k
        BY <2>1
      <4>2. /\ Main!B!Max({WARMUP_RUNS, BENCH_RUNS}) \in {WARMUP_RUNS, BENCH_RUNS}
            /\ \A k \in {WARMUP_RUNS, BENCH_RUNS} : Main!B!Max({WARMUP_RUNS, BENCH_RUNS}) >= k
        BY <4>1 DEF Main!B!Max
      <4>3. QED
        BY <2>1, <4>2 DEF MainTypes, Main!B!Runs
    <3>2. {start_time, now} \subseteq 0 .. MAX_TIME
      BY <2>1 DEF MainTypes
    <3>3. QED
      BY <2>1, <3>1, <3>2 DEF MainTypes, Main!B!TypeOK
  <2>5. Main!TypeOK
    BY <2>1, <2>3, <2>4 DEF MainTypes, Main!TypeOK, Main!Unassigned
  <2>6. QED
    BY <2>1, <2>5 DEF FreshInv, Main!RunsStartFresh
<1>2. PartMainInv => RunsStartFresh
  BY <1>1 DEF PartMainInv, RunsStartFresh
<1>3. QED
  BY <1>2, BenchmarksAreRight, PTL

\* The two benchmarks time the same work: the parallel program starts each of its runs
\* with the first members that the serial program had in the same run, because srand is
\* called between them (main.cpp:57), for every number of runs, points and clusters.
THEOREM BenchmarksStartAlike == MCSpec => []SameFirstMembers
<1>1. ASSUME MainInv
      PROVE  Main!SameFirstMembers
  <2> DEFINE s == first_members["serial"]
             q == first_members["parallel"]
  <2>1. /\ MainTypes /\ DrawsInv
        /\ s \in Seq(Seq(Main!Point)) /\ q \in Seq(Seq(Main!Point))
        /\ Len(s) \in Nat /\ Len(q) \in Nat
    BY <1>1, LenProperties DEF MainInv, MainTypes, Program
  <2> HIDE DEF s, q
  <2>2. \A r \in 1 .. Main!Min({Len(s), Len(q)}) : r \in 1 .. Len(s) /\ r \in 1 .. Len(q)
    <3>1. \E m \in {Len(s), Len(q)} : \A k \in {Len(s), Len(q)} : m <= k
      BY <2>1
    <3>2. /\ Main!Min({Len(s), Len(q)}) \in {Len(s), Len(q)}
          /\ \A k \in {Len(s), Len(q)} : Main!Min({Len(s), Len(q)}) <= k
      BY <3>1 DEF Main!Min
    <3>3. QED
      BY <2>1, <3>2
  <2>3. ASSUME NEW r \in 1 .. Len(s), r \in 1 .. Len(q)
        PROVE  s[r] = q[r]
    <3>1. CASE CanDraw
      <4>1. IsComplete(s[r]) /\ IsComplete(q[r])
        BY <2>1, <2>3, <3>1 DEF DrawsInv, Program, s, q
      <4>2. PICK d \in 0 .. RAND_LENGTH :
              Len(s) <= Len(Course[d]) /\ \A k \in 1 .. Len(s) : s[k] = Course[d][k]
        BY <2>1, <3>1 DEF DrawsInv, Program, s
      <4>3. PICK e \in 0 .. RAND_LENGTH :
              Len(q) <= Len(Course[e]) /\ \A k \in 1 .. Len(q) : q[k] = Course[e][k]
        BY <2>1, <3>1 DEF DrawsInv, Program, q
      <4>4. Len(Course[d]) \in Nat /\ Len(Course[e]) \in Nat
        BY <2>1, CourseSteps, LenProperties
      <4>5. r \in 1 .. Len(Course[d]) /\ r \in 1 .. Len(Course[e])
        BY <2>1, <2>3, <4>2, <4>3, <4>4
      <4>6. d <= e \/ e <= d
        BY MainAssumption
      <4>7. Course[d][r] = Course[e][r]
        BY <2>1, <2>3, <4>1, <4>2, <4>3, <4>5, <4>6, CourseKeepsComplete
      <4>8. QED
        BY <2>3, <4>2, <4>3, <4>7
    <3>2. CASE ~ CanDraw
      BY <2>1, <2>3, <3>2 DEF DrawsInv, Program, s, q
    <3>3. QED
      BY <3>1, <3>2
  <2>4. QED
    BY <2>2, <2>3 DEF Main!SameFirstMembers, s, q
<1>2. PartMainInv => SameFirstMembers
  BY <1>1 DEF PartMainInv, SameFirstMembers
<1>3. QED
  BY <1>2, BenchmarksAreRight, PTL

\* The median that is printed halves the durations, for any durations.
THEOREM MedianIsRight == MCSpec => []MedianIsCentral
<1>1. ASSUME MainInv
      PROVE  Main!B!MedianIsCentral
  <2> SUFFICES ASSUME Main!B!n > 0
               PROVE  \E low \in Main!B!kSubset(Main!B!n \div 2, DOMAIN times) :
                        LET lower == {times[j] : j \in low}
                            upper == {times[j] : j \in DOMAIN times \ low}
                        IN  /\ \A t \in lower, u \in upper : t <= u
                            /\ Main!B!median2
                                 = Main!B!Min(upper) + IF Main!B!n % 2 = 0 THEN Main!B!Max(lower)
                                                       ELSE Main!B!Min(upper)
    BY DEF Main!B!MedianIsCentral
  <2> DEFINE n == Len(times)
             h == n \div 2
  <2>1. /\ DOMAIN times = 1 .. n /\ Main!B!n = n /\ n \in Nat \ {0}
        /\ \A j \in 1 .. n : times[j] \in Nat
    <3> DEFINE Time == 0 .. MAX_TIME
    <3>1. times \in Seq(Time) /\ Time \subseteq Nat
      BY <1>1 DEF MainInv, MainTypes
    <3> HIDE DEF Time
    <3>2. n \in Nat /\ times \in [1 .. n -> Time] /\ Main!B!n = n
      BY <3>1, LenProperties DEF Main!B!n
    <3>3. n # 0
      BY <3>2
    <3>4. \A j \in 1 .. n : times[j] \in Nat
      BY <3>1, <3>2
    <3> HIDE DEF n
    <3>5. QED
      BY <3>2, <3>3, <3>4
  <2>2. Sorts(Main!B!order, times, n)
    <3>1. \E p : Sorts(p, times, n)
      BY <2>1, SortingExists
    <3>2. \A p : Sorts(p, times, n) <=>
            /\ p \in Main!B!Bijection(DOMAIN times, DOMAIN times)
            /\ \A j, k \in DOMAIN times : j < k => times[p[j]] <= times[p[k]]
      BY <2>1 DEF Sorts, Bijection, Main!B!Bijection, Injection, Main!B!Injection, Surjection,
         Main!B!Surjection, IsInjective, Main!B!IsInjective
    <3>3. QED
      BY <3>1, <3>2 DEF Main!B!order
  <2>3. h \in Nat /\ h < n /\ h + 1 \in 1 .. n /\ (n % 2 = 0 => h > 0 /\ h \in 1 .. n)
    BY <2>1
  <2> HIDE DEF n, h
  <2> DEFINE p == Main!B!order
  <2> HIDE DEF p
  <2>4. PICK low \in SUBSET (1 .. n) :
          LET lower == {times[j] : j \in low}
              upper == {times[j] : j \in (1 .. n) \ low}
          IN  /\ Cardinality(low) = h
              /\ \A t \in lower, u \in upper : t <= u
              /\ lower \subseteq Nat /\ upper \subseteq Nat
              /\ times[p[h + 1]] \in upper /\ \A u \in upper : times[p[h + 1]] <= u
              /\ h > 0 => times[p[h]] \in lower /\ \A t \in lower : times[p[h]] >= t
    BY <2>1, <2>2, <2>3, SortedHalves DEF p
  <2> DEFINE lower == {times[j] : j \in low}
             upper == {times[j] : j \in (1 .. n) \ low}
  <2>5. /\ Cardinality(low) = h
        /\ \A t \in lower, u \in upper : t <= u
        /\ lower \subseteq Nat /\ upper \subseteq Nat
        /\ times[p[h + 1]] \in upper /\ \A u \in upper : times[p[h + 1]] <= u
        /\ h > 0 => times[p[h]] \in lower /\ \A t \in lower : times[p[h]] >= t
    BY <2>4
  <2>6. low \in Main!B!kSubset(h, DOMAIN times)
    <3>1. Main!B!Cardinality(low) = Cardinality(low)
      BY DEF Cardinality, Main!B!Cardinality
    <3>2. QED
      BY <2>1, <2>5, <3>1 DEF Main!B!kSubset
  <2> HIDE DEF lower, upper
  <2>7. Main!B!Min(upper) = times[p[h + 1]]
    <3>1. \A x, y \in upper : x <= y /\ y <= x => x = y
      BY <2>5
    <3>2. /\ Main!B!Min(upper) \in upper
          /\ \A u \in upper : Main!B!Min(upper) <= u
      BY <2>5 DEF Main!B!Min
    <3>3. QED
      BY <2>5, <3>1, <3>2
  <2>8. h > 0 => Main!B!Max(lower) = times[p[h]]
    <3> SUFFICES ASSUME h > 0
                 PROVE  Main!B!Max(lower) = times[p[h]]
      OBVIOUS
    <3>1. \A x, y \in lower : x >= y /\ y >= x => x = y
      BY <2>5
    <3>2. /\ Main!B!Max(lower) \in lower
          /\ \A t \in lower : Main!B!Max(lower) >= t
      BY <2>5 DEF Main!B!Max
    <3>3. QED
      BY <2>5, <3>1, <3>2
  <2>9. /\ Main!B!sorted[h + 1] = times[p[h + 1]]
        /\ n % 2 = 0 => Main!B!sorted[h] = times[p[h]]
    BY <2>1, <2>3 DEF Main!B!sorted, p
  <2>10. Main!B!median2 = Main!B!Min(upper) + IF n % 2 = 0 THEN Main!B!Max(lower)
                                              ELSE Main!B!Min(upper)
    <3>1. times[p[h + 1]] \in Nat /\ (n % 2 = 0 => times[p[h]] \in Nat)
      BY <2>3, <2>5
    <3>2. Main!B!median2 = IF n % 2 = 0 THEN times[p[h]] + times[p[h + 1]]
                           ELSE 2 * times[p[h + 1]]
      <4>1. Main!B!n = n /\ n # 0 /\ n \div 2 = h
        BY <2>1 DEF h
      <4>2. QED
        BY <2>9, <4>1 DEF Main!B!median2
    <3>3. QED
      BY <2>3, <2>7, <2>8, <3>1, <3>2
  <2>11. QED
    BY <2>1, <2>5, <2>6, <2>10 DEF lower, upper, h
<1>2. PartMainInv => MedianIsCentral
  BY <1>1 DEF PartMainInv, MedianIsCentral
<1>3. QED
  BY <1>2, BenchmarksAreRight, PTL

===============================================================================
