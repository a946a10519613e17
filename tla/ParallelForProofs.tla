--------------------------- MODULE ParallelForProofs ---------------------------
(***************************************************************************)
(* Safety of tbb::parallel_for for every size of the range, both           *)
(* partitioners and every value of their constants, with and without a     *)
(* body that throws: the inductive invariant IInv, what follows from it,   *)
(* and that the tasks implement ParallelLoop.                              *)
(***************************************************************************)
EXTENDS ParallelFor, CommonProofs, TLAPS

-------------------------------------------------------------------------------
(* The pool of a task.                                                     *)

\* What is assumed of the constants, fact by fact.
LEMMA Constants ==
  /\ N \in Nat
  /\ PARTITIONER = "auto" \/ PARTITIONER = "affinity"
  /\ MAX_CONCURRENCY \in Nat \ {0} /\ FACTOR \in Nat \ {0} /\ INITIAL_CHUNKS \in Nat \ {0}
  /\ DEMAND_DEPTH_ADD \in Nat \ {0} /\ INIT_DEPTH \in Nat \ {0} /\ POOL_CAPACITY \in Nat \ {0}
  /\ PARTITIONER = "auto" => FACTOR = 1
  /\ PARTITIONER = "affinity" => FACTOR > 1
BY ParallelForAssumption

Held(q) == UNION {Elements(q[k].range) : k \in 1 .. Len(q)}

\* An index is in a pool when it is in one of its ranges.
LEMMA HeldMember ==
  ASSUME NEW q, NEW x
  PROVE  x \in Held(q) <=> \E k \in 1 .. Len(q) : x \in Elements(q[k].range)
BY DEF Held

\* The elements of a range.
LEMMA ElementsMember ==
  ASSUME NEW r \in (0 .. N) \X (0 .. N), NEW x
  PROVE  x \in Elements(r) <=> x \in Int /\ r[1] <= x /\ x < r[2]
BY Constants DEF Elements

\* The number of splits is bounded by the room in the pool and the depth allowed,
\* and every one of them splits at least two elements.
LEMMA SplitsBounded ==
  ASSUME NEW q \in Seq(Item), q # <<>>, Len(q) <= POOL_CAPACITY, NEW d \in Nat
  PROVE  LET back == q[Len(q)]
             size == back.range[2] - back.range[1]
             k    == Splits(q, d)
         IN  /\ k \in Nat /\ Len(q) + k <= POOL_CAPACITY
             /\ k > 0 => back.depth + k <= d /\ size \div 2^(k - 1) > 1
<1> DEFINE back == q[Len(q)]
           size == back.range[2] - back.range[1]
           Fits(k) == back.depth + k <= d /\ size \div 2^(k - 1) > 1
           C == {k \in 1 .. POOL_CAPACITY - Len(q) : Fits(k)}
           S == {0} \cup C
<1>1. POOL_CAPACITY - Len(q) \in Nat
  BY Constants
<1>2. S \in SUBSET Nat /\ S # {} /\ \A k \in S : k <= POOL_CAPACITY - Len(q)
  BY <1>1
<1>3. \E m \in S : \A k \in S : k <= m
  BY <1>1, <1>2, LargestElement
<1>4. Splits(q, d) = CHOOSE m \in S : \A k \in S : m >= k
  BY DEF Splits, Max, Last
<1> HIDE DEF Fits
<1>5. Splits(q, d) \in S
  <2>1. \E m \in S : \A k \in S : m >= k
    BY <1>2, <1>3
  <2> HIDE DEF S
  <2>2. QED
    BY <1>4, <2>1
<1>6. Splits(q, d) \in Nat /\ Splits(q, d) <= POOL_CAPACITY - Len(q)
      /\ (Splits(q, d) > 0 => Fits(Splits(q, d)))
  BY <1>2, <1>5
<1>7. Len(q) + Splits(q, d) <= POOL_CAPACITY
  BY <1>6, Constants
<1>8. QED
  BY <1>6, <1>7 DEF Fits

\* What split_to_fill leaves in the pool, element by element.
LEMMA SplitToFillElements ==
  ASSUME NEW q \in Seq(Item), q # <<>>, Len(q) <= POOL_CAPACITY, NEW d \in Nat
  PROVE  LET back  == q[Len(q)]
             first == back.range[1]
             size  == back.range[2] - first
             k     == Splits(q, d)
             f     == split_to_fill(q, d)
         IN  /\ Len(f) = Len(q) + k
             /\ DOMAIN f = 1 .. Len(f)
             /\ f = [i \in 1 .. Len(f) |-> f[i]]
             /\ \A i \in 1 .. Len(q) - 1 : f[i] = q[i]
             /\ \A i \in 1 .. k :
                  f[Len(q) - 1 + i] =
                    [range |-> <<first + size \div 2^i, first + size \div 2^(i - 1)>>,
                     depth |-> back.depth + i]
             /\ f[Len(q) + k] = [range |-> <<first, first + size \div 2^k>>,
                                 depth |-> back.depth + k]
<1> DEFINE back == q[Len(q)]
           first == back.range[1]
           size == back.range[2] - first
           k == Splits(q, d)
           piece(i) == [range |-> <<first + size \div 2^i, first + size \div 2^(i - 1)>>,
                        depth |-> back.depth + i]
           rest == [range |-> <<first, first + size \div 2^k>>, depth |-> back.depth + k]
           middle == [i \in 1 .. k |-> piece(i)]
           front == SubSeq(q, 1, Len(q) - 1)
<1>1. split_to_fill(q, d) = (front \o middle) \o <<rest>>
  BY DEF split_to_fill, Last, Front
<1>2. k \in Nat
  BY SplitsBounded
<1>3. Len(q) \in Nat \ {0}
  OBVIOUS
<1> HIDE DEF piece, rest, k
<1>4. /\ front \in Seq(Item) /\ Len(front) = Len(q) - 1
      /\ \A i \in 1 .. Len(q) - 1 : front[i] = q[i]
  <2>1. Len(q) - 1 \in 0 .. Len(q)
    BY <1>3
  <2>2. front \in Seq(Item)
    BY <2>1, SubSeqProperties
  <2>3. Len(front) = Len(q) - 1
    <3>1. \A i \in 1 .. Len(q) - 1 : q[i] \in Item
      BY <2>1
    <3>2. Len(front) = IF 1 <= Len(q) - 1 THEN (Len(q) - 1) - 1 + 1 ELSE 0
      BY <1>3, <3>1, SubSeqProperties
    <3>3. \A n \in Nat \ {0} : (IF 1 <= n - 1 THEN (n - 1) - 1 + 1 ELSE 0) = n - 1
      OBVIOUS
    <3>4. (IF 1 <= Len(q) - 1 THEN (Len(q) - 1) - 1 + 1 ELSE 0) = Len(q) - 1
      BY <1>3, <3>3
    <3> HIDE DEF front
    <3>5. QED
      BY <3>2, <3>4
  <2>4. \A i \in 1 .. Len(q) - 1 : front[i] = q[1 + i - 1]
    BY <2>1, <1>3
  <2>5. QED
    BY <2>2, <2>3, <2>4
<1>5. middle \in Seq({piece(i) : i \in 1 .. k}) /\ Len(middle) = k
      /\ \A i \in 1 .. k : middle[i] = piece(i)
  BY <1>2
<1> HIDE DEF front, middle
<1> DEFINE T == Item \cup {piece(i) : i \in 1 .. k} \cup {rest}
           g == front \o middle
<1>6. front \in Seq(T) /\ middle \in Seq(T) /\ <<rest>> \in Seq(T)
  <2>1. \A i \in 1 .. Len(front) : front[i] \in T
    BY <1>4
  <2>2. \A i \in 1 .. Len(middle) : middle[i] \in T
    BY <1>5
  <2>3. rest \in T
    OBVIOUS
  <2> HIDE DEF T
  <2>4. QED
    BY <1>4, <1>5, <2>1, <2>2, <2>3
<1> HIDE DEF T
<1>7. /\ g \in Seq(T) /\ Len(g) = Len(q) - 1 + k
      /\ \A i \in 1 .. Len(q) - 1 : g[i] = q[i]
      /\ \A i \in 1 .. k : g[Len(q) - 1 + i] = piece(i)
  <2>1. g \in Seq(T) /\ Len(g) = Len(front) + Len(middle)
    BY <1>6
  <2>2. \A i \in 1 .. Len(g) : g[i] = IF i <= Len(front) THEN front[i] ELSE middle[i - Len(front)]
    BY <1>6
  <2> HIDE DEF g
  <2>3. \A i \in 1 .. Len(q) - 1 : g[i] = q[i]
    BY <1>2, <1>3, <1>4, <1>5, <2>1, <2>2
  <2>4. \A i \in 1 .. k : g[Len(q) - 1 + i] = piece(i)
    <3> SUFFICES ASSUME NEW i \in 1 .. k
                 PROVE  g[Len(q) - 1 + i] = piece(i)
      OBVIOUS
    <3>1. Len(q) - 1 + i \in 1 .. Len(g) /\ ~ (Len(q) - 1 + i <= Len(front))
      BY <1>2, <1>3, <1>4, <1>5, <2>1
    <3>2. (Len(q) - 1 + i) - Len(front) = i
      BY <1>2, <1>3, <1>4
    <3>3. QED
      BY <1>5, <2>2, <3>1, <3>2
  <2>5. QED
    BY <1>2, <1>3, <1>4, <1>5, <2>1, <2>3, <2>4
<1> DEFINE f == g \o <<rest>>
<1> HIDE DEF g
<1>8. f \in Seq(T) /\ Len(f) = Len(q) + k
      /\ \A i \in 1 .. Len(f) : f[i] = IF i <= Len(g) THEN g[i] ELSE rest
  <2>1. Len(<<rest>>) = 1 /\ <<rest>>[1] = rest
    OBVIOUS
  <2>2. f \in Seq(T) /\ Len(f) = Len(g) + 1
    BY <1>6, <1>7, <2>1
  <2>3. \A i \in 1 .. Len(f) : f[i] = IF i <= Len(g) THEN g[i] ELSE <<rest>>[i - Len(g)]
    BY <1>6, <1>7, <2>1
  <2>4. \A i \in 1 .. Len(f) : ~ (i <= Len(g)) => i - Len(g) = 1
    BY <1>2, <1>3, <1>7, <2>2
  <2>5. Len(f) = Len(q) + k
    BY <1>2, <1>3, <1>7, <2>2
  <2>6. QED
    BY <2>1, <2>2, <2>3, <2>4, <2>5
<1>9. split_to_fill(q, d) = f
  BY <1>1 DEF g
<1> HIDE DEF f
<1>10. DOMAIN f = 1 .. Len(f) /\ f = [i \in 1 .. Len(f) |-> f[i]]
  BY <1>8
<1>11. /\ \A i \in 1 .. Len(q) - 1 : f[i] = q[i]
       /\ \A i \in 1 .. k : f[Len(q) - 1 + i] = piece(i)
       /\ f[Len(q) + k] = rest
  <2>1. \A i \in 1 .. Len(q) - 1 : i \in 1 .. Len(f) /\ i <= Len(g)
    BY <1>2, <1>3, <1>7, <1>8
  <2>2. \A i \in 1 .. k : Len(q) - 1 + i \in 1 .. Len(f) /\ Len(q) - 1 + i <= Len(g)
    BY <1>2, <1>3, <1>7, <1>8
  <2>3. Len(q) + k \in 1 .. Len(f) /\ ~ (Len(q) + k <= Len(g))
    BY <1>2, <1>3, <1>7, <1>8
  <2>4. QED
    BY <1>7, <1>8, <2>1, <2>2, <2>3
<1>12. QED
  BY <1>8, <1>9, <1>10, <1>11 DEF piece, rest, k

\* Halves of a back range that may be split k times are smaller each time and
\* never empty.
LEMMA HalvesOfBack ==
  ASSUME NEW size \in Nat \ {0}, NEW k \in Nat, k > 0 => size \div 2^(k - 1) > 1
  PROVE  /\ size \div 2^0 = size
         /\ \A i \in 0 .. k : size \div 2^i \in Nat \ {0}
         /\ \A i \in 1 .. k : size \div 2^i < size \div 2^(i - 1)
         /\ \A i, j \in 0 .. k : i <= j => size \div 2^j <= size \div 2^i
         /\ \A i \in 0 .. k : size \div 2^i <= size
<1> DEFINE H(i) == size \div 2^i
<1>1. H(0) = size /\ \A i \in Nat : H(i) \in Nat /\ H(i + 1) = H(i) \div 2
  BY Halving
<1>2. \A i, j \in Nat : i <= j => H(j) <= H(i)
  BY HalvesDecrease
<1>3. k > 0 => H(k - 1) > 1
  OBVIOUS
<1> HIDE DEF H
<1>4. \A i \in 1 .. k : H(i - 1) > 1 /\ H(i) = H(i - 1) \div 2 /\ H(i) > 0 /\ H(i) < H(i - 1)
  <2> SUFFICES ASSUME NEW i \in 1 .. k
               PROVE  H(i - 1) > 1 /\ H(i) = H(i - 1) \div 2 /\ H(i) > 0 /\ H(i) < H(i - 1)
    OBVIOUS
  <2>1. i - 1 \in Nat /\ k - 1 \in Nat /\ i - 1 <= k - 1 /\ (i - 1) + 1 = i /\ k > 0
    OBVIOUS
  <2>2. H(i - 1) \in Nat /\ H(k - 1) \in Nat /\ H(k - 1) <= H(i - 1)
    BY <1>1, <1>2, <2>1
  <2>3. H(i - 1) > 1 /\ H(i) = H(i - 1) \div 2
    BY <1>1, <1>3, <2>1, <2>2
  <2>4. QED
    BY <2>2, <2>3
<1>5. \A i \in 0 .. k : H(i) \in Nat \ {0}
  <2> TAKE i \in 0 .. k
  <2>1. CASE i = 0
    BY <1>1, <2>1
  <2>2. CASE i # 0
    BY <1>1, <1>4, <2>2
  <2>3. QED
    BY <2>1, <2>2
<1>6. \A i \in 0 .. k : H(i) <= H(0)
  BY <1>2
<1>7. QED
  BY <1>1, <1>2, <1>4, <1>5, <1>6 DEF H

\* split_to_fill cuts up the back range and loses nothing of it.
LEMMA SplitToFill ==
  ASSUME NEW low \in Int, NEW d \in Nat, NEW q, q # <<>>, GoodPool(q, low, d)
  PROVE  LET f == split_to_fill(q, d) IN
         f # <<>> /\ GoodPool(f, low, d) /\ Held(f) = Held(q)
<1> DEFINE back == q[Len(q)]
           first == back.range[1]
           size == back.range[2] - first
           k == Splits(q, d)
           f == split_to_fill(q, d)
           n == Len(q)
           H(i) == size \div 2^i
<1>1. /\ q \in Seq(Item) /\ n \in Nat \ {0} /\ n <= POOL_CAPACITY
      /\ \A i \in 1 .. n :
           /\ q[i] \in Item
           /\ low <= q[i].range[1] /\ q[i].range[1] < q[i].range[2] /\ q[i].depth <= d
      /\ \A i, j \in 1 .. n : i < j => q[j].range[2] <= q[i].range[1]
  BY DEF GoodPool
<1>2. /\ back \in Item /\ first \in 0 .. N /\ back.range[2] \in 0 .. N /\ back.depth \in Nat
      /\ low <= first /\ first < back.range[2] /\ back.depth <= d
  BY <1>1 DEF Item
<1>3. size \in Nat \ {0} /\ back.range[2] = first + size
  BY <1>2, Constants
<1>4. k \in Nat /\ n + k <= POOL_CAPACITY /\ (k > 0 => back.depth + k <= d /\ H(k - 1) > 1)
  BY <1>1, SplitsBounded
<1>5. /\ H(0) = size
      /\ \A i \in 0 .. k : H(i) \in Nat \ {0}
      /\ \A i \in 1 .. k : H(i) < H(i - 1)
      /\ \A i, j \in 0 .. k : i <= j => H(j) <= H(i)
      /\ \A i \in 0 .. k : H(i) <= size
  BY <1>3, <1>4, HalvesOfBack
<1>6. /\ Len(f) = n + k /\ DOMAIN f = 1 .. Len(f) /\ f = [i \in 1 .. Len(f) |-> f[i]]
      /\ \A i \in 1 .. n - 1 : f[i] = q[i]
      /\ \A i \in 1 .. k : f[n - 1 + i] = [range |-> <<first + H(i), first + H(i - 1)>>,
                                           depth |-> back.depth + i]
      /\ f[n + k] = [range |-> <<first, first + H(k)>>, depth |-> back.depth + k]
  BY <1>1, SplitToFillElements
<1> HIDE DEF f, k, H, size
<1> DEFINE Old(i) == i \in 1 .. n - 1
           Cut(i) == i \in n .. n + k - 1
<1>7. \A i \in 1 .. n + k : Old(i) \/ Cut(i) \/ i = n + k
  BY <1>1, <1>4
<1>8. \A i : Cut(i) => /\ f[i].range = <<first + H(i - n + 1), first + H(i - n)>>
                       /\ f[i].range[1] = first + H(i - n + 1)
                       /\ f[i].range[2] = first + H(i - n)
                       /\ f[i].depth = back.depth + (i - n + 1)
                       /\ f[i] = [range |-> f[i].range, depth |-> f[i].depth]
                       /\ i - n + 1 \in 1 .. k /\ i - n \in 0 .. k
  <2> SUFFICES ASSUME NEW i, Cut(i)
               PROVE  /\ f[i].range = <<first + H(i - n + 1), first + H(i - n)>>
                      /\ f[i].range[1] = first + H(i - n + 1)
                      /\ f[i].range[2] = first + H(i - n)
                      /\ f[i].depth = back.depth + (i - n + 1)
                      /\ f[i] = [range |-> f[i].range, depth |-> f[i].depth]
                      /\ i - n + 1 \in 1 .. k /\ i - n \in 0 .. k
    OBVIOUS
  <2>1. i - n + 1 \in 1 .. k /\ i - n \in 0 .. k /\ n - 1 + (i - n + 1) = i /\ (i - n + 1) - 1 = i - n
    BY <1>1, <1>4
  <2>2. f[n - 1 + (i - n + 1)] = [range |-> <<first + H(i - n + 1), first + H((i - n + 1) - 1)>>,
                                  depth |-> back.depth + (i - n + 1)]
    BY <1>6, <2>1
  <2>3. QED
    BY <2>1, <2>2
<1> HIDE DEF back, first
<1>9. \A i \in 1 .. n + k :
        /\ f[i] \in Item
        /\ low <= f[i].range[1] /\ f[i].range[1] < f[i].range[2] /\ f[i].depth <= d
  <2> SUFFICES ASSUME NEW i \in 1 .. n + k
               PROVE  /\ f[i] \in Item
                      /\ low <= f[i].range[1] /\ f[i].range[1] < f[i].range[2] /\ f[i].depth <= d
    OBVIOUS
  <2>1. CASE Old(i)
    BY <1>1, <1>6, <2>1
  <2>2. CASE Cut(i)
    <3> DEFINE j == i - n + 1
               a == first + H(j)
               b == first + H(j - 1)
    <3>1. j \in 1 .. k /\ j \in 0 .. k /\ j - 1 \in 0 .. k /\ j - 1 = i - n /\ k > 0
      BY <1>4, <1>8, <2>2, <1>1
    <3>2. f[i].range = <<a, b>> /\ f[i].depth = back.depth + j /\ f[i] = [range |-> f[i].range, depth |-> f[i].depth]
      BY <1>8, <2>2, <3>1
    <3> HIDE DEF j
    <3>3. H(j) \in Nat /\ H(j - 1) \in Nat /\ H(j) < H(j - 1) /\ H(j - 1) <= size
      BY <1>5, <3>1
    <3>4. a \in 0 .. N /\ b \in 0 .. N /\ a < b /\ low <= a
      BY <1>2, <1>3, <3>3, Constants
    <3>5. back.depth + j \in Nat /\ back.depth + j <= d
      BY <1>2, <1>4, <3>1
    <3> HIDE DEF a, b
    <3>6. QED
      BY <3>2, <3>4, <3>5 DEF Item
  <2>3. CASE i = n + k
    <3>1. f[i].range = <<first, first + H(k)>> /\ f[i].depth = back.depth + k
          /\ f[i] = [range |-> f[i].range, depth |-> f[i].depth]
      BY <1>6, <2>3
    <3>2. H(k) \in Nat \ {0} /\ H(k) <= size
      BY <1>4, <1>5
    <3>3. first + H(k) \in 0 .. N /\ first < first + H(k) /\ low <= first
      BY <1>2, <1>3, <3>2, Constants
    <3>4. back.depth + k \in Nat /\ back.depth + k <= d
      BY <1>2, <1>4
    <3>5. QED
      BY <1>2, <3>1, <3>3, <3>4 DEF Item
  <2>4. QED
    BY <1>7, <2>1, <2>2, <2>3
<1>10. \A i, j \in 1 .. n + k : i < j => f[j].range[2] <= f[i].range[1]
  <2> SUFFICES ASSUME NEW i \in 1 .. n + k, NEW j \in 1 .. n + k, i < j
               PROVE  f[j].range[2] <= f[i].range[1]
    OBVIOUS
  <2>1. Old(i) \/ Cut(i)
    BY <1>1, <1>4
  <2>2. CASE Old(i)
    <3>1. CASE Old(j)
      BY <1>1, <1>6, <2>2, <3>1
    <3>2. CASE ~ Old(j)
      <4>1. f[i] = q[i] /\ back.range[2] <= q[i].range[1] /\ q[i].range[1] \in Int
        <5>1. i \in 1 .. n /\ n \in 1 .. n /\ i < n
          BY <1>1, <2>2
        <5>2. q[n].range[2] <= q[i].range[1] /\ q[i].range[1] \in Int
          BY <1>1, <5>1 DEF Item
        <5>3. QED
          BY <1>6, <2>2, <5>2 DEF back
      <4>2. f[j].range[2] <= first + size
        <5>1. CASE Cut(j)
          <6>1. f[j].range[2] = first + H(j - n) /\ j - n \in 0 .. k
            BY <1>8, <5>1
          <6>2. H(j - n) \in Nat /\ H(j - n) <= size
            BY <1>5, <6>1
          <6>3. QED
            BY <1>2, <1>3, <6>1, <6>2
        <5>2. CASE j = n + k
          <6>1. f[j].range[2] = first + H(k) /\ H(k) \in Nat /\ H(k) <= size
            BY <1>4, <1>5, <1>6, <5>2
          <6>2. QED
            BY <1>2, <1>3, <6>1
        <5>3. QED
          BY <1>7, <3>2, <5>1, <5>2
      <4>3. f[j].range[2] \in Int
        BY <1>9 DEF Item
      <4>4. QED
        BY <1>2, <1>3, <4>1, <4>2, <4>3
    <3>3. QED
      BY <3>1, <3>2
  <2>3. CASE Cut(i)
    <3>1. f[i].range[1] = first + H(i - n + 1) /\ i - n + 1 \in 1 .. k
      BY <1>8, <2>3
    <3>2. CASE Cut(j)
      <4>1. f[j].range[2] = first + H(j - n) /\ j - n \in 0 .. k
        BY <1>8, <3>2
      <4>2. i - n + 1 \in 0 .. k /\ i - n + 1 <= j - n
        BY <1>1, <3>1
      <4>3. H(j - n) <= H(i - n + 1) /\ H(j - n) \in Nat /\ H(i - n + 1) \in Nat
        BY <1>5, <4>1, <4>2
      <4>4. QED
        BY <1>2, <3>1, <4>1, <4>3
    <3>3. CASE j = n + k
      <4>1. f[j].range[2] = first + H(k)
        BY <1>6, <3>3
      <4>2. i - n + 1 \in 0 .. k /\ i - n + 1 <= k /\ k \in 0 .. k
        BY <1>4, <3>1
      <4>3. H(k) <= H(i - n + 1) /\ H(k) \in Nat /\ H(i - n + 1) \in Nat
        BY <1>5, <4>2
      <4>4. QED
        BY <1>2, <3>1, <4>1, <4>3
    <3>4. CASE Old(j)
      BY <2>3, <3>4, <1>1
    <3>5. QED
      BY <1>7, <3>2, <3>3, <3>4
  <2>4. QED
    BY <2>1, <2>2, <2>3
<1>11. f # <<>> /\ GoodPool(f, low, d)
  <2>1. Len(f) \in Nat \ {0} /\ Len(f) <= POOL_CAPACITY
    BY <1>1, <1>4, <1>6
  <2>2. f \in Seq(Item)
    <3>1. [i \in 1 .. Len(f) |-> f[i]] \in Seq(Item)
      BY <1>6, <1>9, <2>1
    <3>2. QED
      BY <1>6, <3>1
  <2>3. QED
    BY <1>6, <1>9, <1>10, <2>1, <2>2 DEF GoodPool
<1>12. \A x : x \in Elements(back.range) <=>
               \E i \in 1 .. n + k : ~ Old(i) /\ x \in Elements(f[i].range)
  <2>1. \A x : x \in Elements(back.range) <=> x \in Int /\ first <= x /\ x < first + size
    <3>1. back.range \in (0 .. N) \X (0 .. N)
      BY <1>2 DEF Item
    <3>2. QED
      BY <1>3, <3>1, ElementsMember DEF first
  <2>2. \A i \in 1 .. n + k : \A x : x \in Elements(f[i].range) <=>
                                       x \in Int /\ f[i].range[1] <= x /\ x < f[i].range[2]
    <3>1. \A i \in 1 .. n + k : f[i].range \in (0 .. N) \X (0 .. N)
      BY <1>9 DEF Item
    <3>2. QED
      BY <3>1, ElementsMember
  <2>3. ASSUME NEW x \in Elements(back.range)
        PROVE  \E i \in 1 .. n + k : ~ Old(i) /\ x \in Elements(f[i].range)
    <3>1. x \in Int /\ first <= x /\ x < first + size
      BY <2>1, <2>3
    <3> DEFINE M == {i \in 0 .. k : first + H(i) <= x}
    <3>2. CASE M = {}
      <4>1. ~ (first + H(k) <= x) /\ H(k) \in Nat
        BY <1>4, <1>5, <3>2
      <4>2. f[n + k].range[1] = first /\ f[n + k].range[2] = first + H(k)
        BY <1>6
      <4>3. n + k \in 1 .. n + k /\ ~ Old(n + k)
        BY <1>1, <1>4
      <4>6. first <= x /\ x < first + H(k)
        BY <1>2, <3>1, <4>1
      <4>4. x \in Elements(f[n + k].range)
        BY <2>2, <3>1, <4>2, <4>3, <4>6
      <4>5. QED
        BY <4>3, <4>4
    <3>3. CASE M # {}
      <4>1. PICK i \in M : \A m \in M : i <= m
        <5>1. M \in SUBSET Nat
          BY <1>4
        <5> HIDE DEF M
        <5>2. QED
          BY <3>3, <5>1, LeastElement
      <4>2. i # 0
        <5>1. ~ (first + H(0) <= x)
          BY <1>2, <1>3, <1>5, <3>1
        <5>2. QED
          BY <4>1, <5>1
      <4>3. i \in 1 .. k /\ i - 1 \in 0 .. k /\ i - 1 \notin M
        BY <1>4, <4>1, <4>2
      <4>4. first + H(i) <= x /\ x < first + H(i - 1)
        <5>1. H(i - 1) \in Nat /\ first + H(i) <= x /\ ~ (first + H(i - 1) <= x)
          BY <1>5, <4>1, <4>3
        <5>2. QED
          BY <1>2, <3>1, <5>1
      <4> DEFINE j == n - 1 + i
      <4>5. Cut(j) /\ j \in 1 .. n + k /\ ~ Old(j) /\ j - n + 1 = i /\ j - n = i - 1
        BY <1>1, <1>4, <4>3
      <4>6. f[j].range = <<first + H(j - n + 1), first + H(j - n)>>
        BY <1>8, <4>5
      <4>7. f[j].range[1] = first + H(i) /\ f[j].range[2] = first + H(i - 1)
        BY <4>5, <4>6
      <4> HIDE DEF j
      <4>8. x \in Elements(f[j].range)
        BY <1>2, <2>2, <3>1, <4>4, <4>5, <4>7
      <4>9. QED
        BY <4>5, <4>8
    <3>4. QED
      BY <3>2, <3>3
  <2>4. ASSUME NEW x, NEW i \in 1 .. n + k, ~ Old(i), x \in Elements(f[i].range)
        PROVE  x \in Elements(back.range)
    <3>1. x \in Int /\ f[i].range[1] <= x /\ x < f[i].range[2]
      BY <2>2, <2>4
    <3>2. CASE Cut(i)
      <4>1. f[i].range[1] = first + H(i - n + 1) /\ f[i].range[2] = first + H(i - n)
            /\ i - n + 1 \in 0 .. k /\ i - n \in 0 .. k
        <5>1. i - n + 1 \in 0 .. k /\ i - n \in 0 .. k
          BY <1>1, <1>4, <3>2
        <5>2. f[i].range[1] = first + H(i - n + 1) /\ f[i].range[2] = first + H(i - n)
          BY <1>8, <3>2
        <5>3. QED
          BY <5>1, <5>2
      <4>2. H(i - n + 1) \in Nat /\ H(i - n) \in Nat /\ H(i - n) <= size
        BY <1>5, <4>1
      <4>3. PICK a, b : a = H(i - n + 1) /\ b = H(i - n)
        OBVIOUS
      <4>4. first + a <= x /\ x < first + b /\ a \in Nat /\ b \in Nat /\ b <= size
        BY <3>1, <4>1, <4>2, <4>3
      <4>5. first <= x /\ x < first + size
        BY <1>2, <1>3, <3>1, <4>4
      <4>6. QED
        BY <2>1, <3>1, <4>5
    <3>3. CASE i = n + k
      <4>1. f[i].range[1] = first /\ f[i].range[2] = first + H(k) /\ H(k) \in Nat /\ H(k) <= size
        BY <1>4, <1>5, <1>6, <3>3
      <4>2. QED
        BY <1>2, <1>3, <2>1, <3>1, <4>1
    <3>4. QED
      BY <1>7, <2>4, <3>2, <3>3
  <2>5. QED
    BY <2>3, <2>4
<1>13. Held(f) = Held(q)
  <2>1. ASSUME NEW x \in Held(q)
        PROVE  x \in Held(f)
    <3>1. PICK i \in 1 .. n : x \in Elements(q[i].range)
      BY <2>1, HeldMember
    <3>2. CASE i = n
      BY <1>6, <1>12, <3>1, <3>2, HeldMember DEF back
    <3>3. CASE i # n
      <4>1. Old(i) /\ i \in 1 .. n + k
        BY <1>1, <1>4, <3>3
      <4>2. QED
        BY <1>6, <3>1, <4>1, HeldMember
    <3>4. QED
      BY <3>2, <3>3
  <2>2. ASSUME NEW x \in Held(f)
        PROVE  x \in Held(q)
    <3>1. PICK i \in 1 .. n + k : x \in Elements(f[i].range)
      BY <1>6, <2>2, HeldMember
    <3>2. CASE Old(i)
      <4>1. i \in 1 .. n /\ f[i] = q[i]
        BY <1>1, <1>6, <3>2
      <4>2. QED
        BY <3>1, <4>1, HeldMember
    <3>3. CASE ~ Old(i)
      <4>1. x \in Elements(q[n].range) /\ n \in 1 .. n
        BY <1>1, <1>12, <3>1, <3>3 DEF back
      <4>2. QED
        BY <4>1, HeldMember
    <3>4. QED
      BY <3>2, <3>3
  <2>3. QED
    BY <2>1, <2>2
<1>14. QED
  BY <1>11, <1>13 DEF f

\* Taking the front range out of a pool, or the back one.
LEMMA PopFront ==
  ASSUME NEW low \in Int, NEW d, NEW q, q # <<>>, GoodPool(q, low, d)
  PROVE  /\ GoodPool(Tail(q), low, d)
         /\ Tail(q) = <<>> <=> Len(q) = 1
         /\ Held(q) = Elements(Head(q).range) \cup Held(Tail(q))
         /\ Elements(Head(q).range) \cap Held(Tail(q)) = {}
<1> DEFINE p == Tail(q)
<1>1. /\ q \in Seq(Item) /\ Len(q) \in Nat \ {0} /\ Len(q) <= POOL_CAPACITY
      /\ p \in Seq(Item) /\ Len(p) = Len(q) - 1 /\ Head(q) = q[1]
      /\ \A k \in 1 .. Len(p) : p[k] = q[k + 1]
  BY DEF GoodPool
<1>2. /\ \A k \in 1 .. Len(q) : /\ low <= q[k].range[1] /\ q[k].range[1] < q[k].range[2]
                                /\ q[k].depth <= d
      /\ \A j, k \in 1 .. Len(q) : j < k => q[k].range[2] <= q[j].range[1]
      /\ \A k \in 1 .. Len(q) : q[k] \in Item /\ q[k].range \in (0 .. N) \X (0 .. N)
  <2>1. \A k \in 1 .. Len(q) : q[k] \in Item
    BY <1>1
  <2>2. \A k \in 1 .. Len(q) : q[k].range \in (0 .. N) \X (0 .. N)
    BY <2>1 DEF Item
  <2>3. QED
    BY <1>1, <2>1, <2>2 DEF GoodPool
<1>3. p = <<>> <=> Len(q) = 1
  <2>1. p = <<>> <=> Len(p) = 0
    BY <1>1, EmptySeq
  <2>2. QED
    BY <1>1, <2>1
<1> HIDE DEF p
<1>4. \A k \in 1 .. Len(p) : k + 1 \in 1 .. Len(q)
  BY <1>1
<1>5. \A j, k \in 1 .. Len(p) : j < k => p[k].range[2] <= p[j].range[1]
  <2> TAKE j, k \in 1 .. Len(p)
  <2>1. j + 1 \in 1 .. Len(q) /\ k + 1 \in 1 .. Len(q) /\ (j < k => j + 1 < k + 1)
    BY <1>1
  <2>2. QED
    BY <1>1, <1>2, <2>1
<1>6. GoodPool(p, low, d)
  <2>1. \A k \in 1 .. Len(p) : /\ low <= p[k].range[1] /\ p[k].range[1] < p[k].range[2]
                               /\ p[k].depth <= d
    BY <1>1, <1>2, <1>4
  <2>2. Len(p) <= POOL_CAPACITY
    BY <1>1, Constants
  <2>3. QED
    BY <1>1, <1>5, <2>1, <2>2 DEF GoodPool
<1>7. \A k \in 1 .. Len(q) : k = 1 \/ (k - 1 \in 1 .. Len(p) /\ (k - 1) + 1 = k)
  BY <1>1
<1>8. Held(q) = Elements(q[1].range) \cup Held(p)
  <2>1. ASSUME NEW x \in Held(q)
        PROVE  x \in Elements(q[1].range) \cup Held(p)
    <3>1. PICK k \in 1 .. Len(q) : x \in Elements(q[k].range)
      BY <2>1, HeldMember
    <3>2. k = 1 \/ p[k - 1] = q[k]
      BY <1>1, <1>7
    <3>3. QED
      BY <1>7, <3>1, <3>2, HeldMember
  <2>2. ASSUME NEW x \in Held(p)
        PROVE  x \in Held(q)
    <3>1. PICK k \in 1 .. Len(p) : x \in Elements(p[k].range)
      BY <2>2, HeldMember
    <3>2. QED
      BY <1>1, <1>4, <3>1, HeldMember
  <2>3. Elements(q[1].range) \subseteq Held(q)
    <3>1. 1 \in 1 .. Len(q)
      BY <1>1
    <3>2. QED
      BY <3>1, HeldMember
  <2>4. QED
    BY <2>1, <2>2, <2>3
<1>9. Elements(q[1].range) \cap Held(p) = {}
  <2> SUFFICES ASSUME NEW x \in Elements(q[1].range), x \in Held(p)
               PROVE  FALSE
    OBVIOUS
  <2>1. PICK k \in 1 .. Len(p) : x \in Elements(p[k].range)
    BY HeldMember
  <2>2. 1 \in 1 .. Len(q) /\ k + 1 \in 1 .. Len(q) /\ 1 < k + 1
    BY <1>1
  <2>3. q[k + 1].range[2] <= q[1].range[1] /\ p[k] = q[k + 1]
    BY <1>1, <1>2, <2>2
  <2>4. q[1].range \in (0 .. N) \X (0 .. N) /\ q[k + 1].range \in (0 .. N) \X (0 .. N)
    BY <1>2, <2>2
  <2>5. x \in Int /\ q[1].range[1] <= x
    BY <2>4, ElementsMember
  <2>6. x < q[k + 1].range[2]
    BY <2>1, <2>3, <2>4, ElementsMember
  <2>7. q[1].range[1] \in Int /\ q[k + 1].range[2] \in Int
    BY <2>4
  <2>8. QED
    BY <2>3, <2>5, <2>6, <2>7
<1>10. QED
  BY <1>1, <1>3, <1>6, <1>8, <1>9 DEF p

\* A pool without its last range.
LEMMA FrontOfPool ==
  ASSUME NEW q \in Seq(Item), q # <<>>
  PROVE  /\ Front(q) \in Seq(Item) /\ Len(Front(q)) = Len(q) - 1
         /\ \A k \in 1 .. Len(q) - 1 : Front(q)[k] = q[k]
<1>1. Len(q) \in Nat \ {0}
  OBVIOUS
<1>2. \A i \in 1 .. Len(q) - 1 : q[i] \in Item
  BY <1>1
<1>3. /\ Front(q) \in Seq(Item)
      /\ Len(Front(q)) = IF 1 <= Len(q) - 1 THEN (Len(q) - 1) - 1 + 1 ELSE 0
      /\ \A i \in 1 .. (Len(q) - 1) - 1 + 1 : Front(q)[i] = q[1 + i - 1]
  BY <1>1, <1>2, SubSeqProperties DEF Front
<1>4. \A n \in Nat \ {0} : /\ (IF 1 <= n - 1 THEN (n - 1) - 1 + 1 ELSE 0) = n - 1
                           /\ (n - 1) - 1 + 1 = n - 1
  OBVIOUS
<1>5. /\ (IF 1 <= Len(q) - 1 THEN (Len(q) - 1) - 1 + 1 ELSE 0) = Len(q) - 1
      /\ (Len(q) - 1) - 1 + 1 = Len(q) - 1
  BY <1>1, <1>4
<1>6. \A i \in 1 .. Len(q) - 1 : 1 + i - 1 = i
  OBVIOUS
<1>7. QED
  BY <1>3, <1>5, <1>6

\* That is a pool again, and what was at the back is nowhere else in it.
LEMMA PopBack ==
  ASSUME NEW low \in Int, NEW d, NEW q, q # <<>>, GoodPool(q, low, d)
  PROVE  /\ GoodPool(Front(q), low, d)
         /\ Held(Front(q)) = UNION {Elements(q[k].range) : k \in 1 .. Len(q) - 1}
         /\ Held(q) = Held(Front(q)) \cup Elements(q[Len(q)].range)
         /\ Held(Front(q)) \cap Elements(q[Len(q)].range) = {}
         /\ Elements(q[Len(q)].range) # {}
<1> DEFINE p == Front(q)
           n == Len(q)
<1>1. q \in Seq(Item) /\ n \in Nat \ {0} /\ n <= POOL_CAPACITY
  BY DEF GoodPool
<1>2. p \in Seq(Item) /\ Len(p) = n - 1 /\ \A k \in 1 .. n - 1 : p[k] = q[k]
  BY <1>1, FrontOfPool
<1>3. /\ \A k \in 1 .. n : /\ low <= q[k].range[1] /\ q[k].range[1] < q[k].range[2]
                           /\ q[k].depth <= d
      /\ \A j, k \in 1 .. n : j < k => q[k].range[2] <= q[j].range[1]
      /\ \A k \in 1 .. n : q[k] \in Item /\ q[k].range \in (0 .. N) \X (0 .. N)
  <2>1. \A k \in 1 .. n : q[k] \in Item
    BY <1>1
  <2>2. \A k \in 1 .. n : q[k].range \in (0 .. N) \X (0 .. N)
    BY <2>1 DEF Item
  <2>3. QED
    BY <1>1, <2>1, <2>2 DEF GoodPool
<1> HIDE DEF p, n
<1>4. \A k \in 1 .. n - 1 : k \in 1 .. n /\ k < n
  BY <1>1
<1>5. GoodPool(p, low, d)
  <2>1. Len(p) <= POOL_CAPACITY
    BY <1>1, <1>2, Constants
  <2>2. QED
    BY <1>2, <1>3, <1>4, <2>1 DEF GoodPool
<1>6. Held(p) = UNION {Elements(q[k].range) : k \in 1 .. n - 1}
  BY <1>2 DEF Held
<1>7. Held(q) = Held(p) \cup Elements(q[n].range)
  <2>1. ASSUME NEW x \in Held(q)
        PROVE  x \in Held(p) \cup Elements(q[n].range)
    <3>1. PICK k \in 1 .. n : x \in Elements(q[k].range)
      BY <2>1, HeldMember DEF n
    <3>2. k = n \/ k \in 1 .. n - 1
      BY <1>1
    <3>3. QED
      BY <1>2, <3>1, <3>2, HeldMember
  <2>2. ASSUME NEW x \in Held(p)
        PROVE  x \in Held(q)
    <3>1. PICK k \in 1 .. n - 1 : x \in Elements(p[k].range)
      BY <1>2, <2>2, HeldMember
    <3>2. QED
      BY <1>2, <1>4, <3>1, HeldMember DEF n
  <2>3. Elements(q[n].range) \subseteq Held(q)
    <3>1. n \in 1 .. n
      BY <1>1
    <3>2. QED
      BY <3>1, HeldMember DEF n
  <2>4. QED
    BY <2>1, <2>2, <2>3
<1>8. Held(p) \cap Elements(q[n].range) = {}
  <2> SUFFICES ASSUME NEW x \in Elements(q[n].range), x \in Held(p)
               PROVE  FALSE
    OBVIOUS
  <2>1. PICK k \in 1 .. n - 1 : x \in Elements(p[k].range)
    BY <1>2, HeldMember
  <2>2. k \in 1 .. n /\ n \in 1 .. n /\ k < n
    BY <1>1, <1>4
  <2>3. q[n].range[2] <= q[k].range[1] /\ p[k] = q[k]
    BY <1>2, <1>3, <2>2
  <2>4. q[k].range \in (0 .. N) \X (0 .. N) /\ q[n].range \in (0 .. N) \X (0 .. N)
    BY <1>3, <2>2
  <2>5. x \in Int /\ x < q[n].range[2]
    BY <2>4, ElementsMember
  <2>6. q[k].range[1] <= x
    BY <2>1, <2>3, <2>4, ElementsMember
  <2>7. q[k].range[1] \in Int /\ q[n].range[2] \in Int
    BY <2>4
  <2>8. QED
    BY <2>3, <2>5, <2>6, <2>7
<1>9. Elements(q[n].range) # {}
  <2>1. n \in 1 .. n
    BY <1>1
  <2>2. q[n].range \in (0 .. N) \X (0 .. N) /\ q[n].range[1] < q[n].range[2]
    BY <1>3, <2>1
  <2>3. q[n].range[1] \in Elements(q[n].range)
    BY <2>2, ElementsMember
  <2>4. QED
    BY <2>3
<1>10. QED
  BY <1>5, <1>6, <1>7, <1>8, <1>9 DEF p, n

\* A pool of several ranges offers one that begins behind its task.
LEMMA FrontIsFurther ==
  ASSUME NEW low \in Int, NEW d, NEW q, GoodPool(q, low, d), Len(q) > 1
  PROVE  /\ Head(q) = q[1] /\ q[1] \in Item /\ q[1].range \in (0 .. N) \X (0 .. N)
         /\ low < q[1].range[1] /\ q[1].range[1] < q[1].range[2]
         /\ q[1].depth \in Nat /\ q[1].depth <= d
<1>1. q \in Seq(Item) /\ Len(q) \in Nat /\ 1 \in 1 .. Len(q) /\ 2 \in 1 .. Len(q) /\ 1 < 2
  BY DEF GoodPool
<1>2. /\ q[1] \in Item /\ q[2] \in Item
      /\ q[1].range[1] < q[1].range[2] /\ q[1].depth <= d
      /\ low <= q[2].range[1] /\ q[2].range[1] < q[2].range[2]
      /\ q[2].range[2] <= q[1].range[1]
  BY <1>1 DEF GoodPool
<1>3. q[1].range \in (0 .. N) \X (0 .. N) /\ q[2].range \in (0 .. N) \X (0 .. N) /\ q[1].depth \in Nat
  BY <1>2 DEF Item
<1>4. q[1].range[1] \in Int /\ q[2].range[1] \in Int /\ q[2].range[2] \in Int
  BY <1>3
<1>5. low < q[1].range[1]
  BY <1>2, <1>4
<1>6. QED
  BY <1>1, <1>2, <1>3, <1>5

-------------------------------------------------------------------------------
(* Splitting a range.                                                      *)

\* split cuts a divisible range inside (blocked_range.h, do_split).
LEMMA MiddleInside ==
  ASSUME NEW r \in (0 .. N) \X (0 .. N), is_divisible(r)
  PROVE  Middle(r) \in 0 .. N /\ r[1] < Middle(r) /\ Middle(r) < r[2]
<1>1. r[1] \in Nat /\ r[2] \in Nat /\ r[2] <= N /\ r[2] - r[1] > 1
  BY Constants DEF is_divisible
<1> DEFINE s == r[2] - r[1]
<1>2. s \in Nat /\ s > 1 /\ s \div 2 >= 1 /\ s \div 2 < s /\ s \div 2 \in Nat /\ r[2] = r[1] + s
  BY <1>1
<1> HIDE DEF s
<1>3. Middle(r) = r[1] + s \div 2
  BY DEF Middle, s
<1>4. QED
  BY <1>1, <1>2, <1>3, Constants

\* A task of at least two times FACTOR slots keeps and gives away whole multiples of it.
LEMMA WholePositive ==
  ASSUME NEW d \in Nat, Whole(d), d > FACTOR
  PROVE  \E m \in Nat : m > 1 /\ d = m * FACTOR
<1>1. PICK m \in 0 .. d : d = m * FACTOR
  BY DEF Whole
<1>2. m # 0 /\ m # 1
  BY <1>1, Constants
<1>3. QED
  BY <1>1, <1>2

\* proportional_split cuts a divisible range inside: neither part is empty, for
\* any number of slots that is a multiple of the factor (blocked_range.h, do_split).
LEMMA ProportionalMiddleInside ==
  ASSUME NEW r \in (0 .. N) \X (0 .. N), is_divisible(r),
         NEW d \in Nat, Whole(d), d > FACTOR
  PROVE  ProportionalMiddle(r, d) \in 0 .. N
         /\ r[1] < ProportionalMiddle(r, d) /\ ProportionalMiddle(r, d) < r[2]
<1>1. r[1] \in Nat /\ r[2] \in Nat /\ r[2] <= N /\ r[2] - r[1] > 1
  BY Constants DEF is_divisible
<1>2. PICK m \in Nat : m > 1 /\ d = m * FACTOR
  BY WholePositive
<1> DEFINE s == r[2] - r[1]
           right == m \div 2
           left == m - right
           p == 2 * s * right + m
<1>3. d \div FACTOR = m
  <2>1. d = FACTOR * m + 0 /\ 0 < FACTOR
    BY <1>2, Constants
  <2>2. QED
    BY <1>2, <2>1, QuotientUnique, Constants
<1>4. s \in Nat /\ s > 1 /\ r[2] = r[1] + s
  BY <1>1
<1>5. right \in Nat /\ right >= 1 /\ 2 * right <= m /\ 2 * right + 1 >= m
  BY <1>2
<1>6. ProportionalMiddle(r, d) = r[2] - RightPart(r, m - right, right)
  BY <1>3 DEF ProportionalMiddle
<1>7. (m - right) + right = m
  BY <1>2, <1>5
<1>8. RightPart(r, m - right, right) = p \div (2 * m)
  BY <1>7 DEF RightPart
<1> HIDE DEF s, right
<1>9. p \in Nat /\ 2 * m <= p /\ p < (2 * m) * s
  <2>1. s * right \in Nat
    BY <1>4, <1>5
  <2>2. 2 * s * right = 2 * (s * right)
    BY <1>4, <1>5
  <2>3. 2 * right <= s * right
    BY <1>4, <1>5
  <2>4. 2 * (s * right) <= s * m
    <3>1. s * (2 * right) <= s * m
      BY <1>2, <1>4, <1>5
    <3>2. s * (2 * right) = 2 * (s * right)
      BY <1>4, <1>5
    <3>3. QED
      BY <3>1, <3>2
  <2>5. m < s * m /\ s * m \in Nat /\ (2 * m) * s = 2 * (s * m)
    BY <1>2, <1>4
  <2>6. QED
    BY <1>2, <1>5, <2>1, <2>2, <2>3, <2>4, <2>5
<1> HIDE DEF p
<1> DEFINE q == p \div (2 * m)
<1>10. q \in Nat /\ p % (2 * m) \in Nat /\ p % (2 * m) < 2 * m
       /\ p = (2 * m) * q + (p % (2 * m))
  <2>1. 2 * m \in Nat \ {0}
    BY <1>2
  <2>2. QED
    BY <1>9, <2>1, Division
<1> HIDE DEF q
<1>11. q >= 1
  <2>1. q # 0
    BY <1>2, <1>9, <1>10
  <2>2. QED
    BY <1>10, <2>1
<1>12. q < s
  <2>1. SUFFICES ASSUME s <= q
                 PROVE  FALSE
    BY <1>4, <1>10
  <2>2. (2 * m) * s <= (2 * m) * q
    BY <1>2, <1>4, <1>10, <2>1
  <2>3. (2 * m) * s \in Nat /\ (2 * m) * q \in Nat
    BY <1>2, <1>4, <1>10
  <2>4. QED
    BY <1>9, <1>10, <2>2, <2>3
<1>13. ProportionalMiddle(r, d) = r[2] - q
  BY <1>6, <1>8 DEF q
<1>14. QED
  BY <1>1, <1>4, <1>10, <1>11, <1>12, <1>13, Constants

\* What is given away in a proportional split, and what is kept.
LEMMA ProportionalParts ==
  ASSUME NEW p \in Partition, Whole(p.divisor), p.divisor > FACTOR
  PROVE  LET d == ProportionalDivisor(p) IN
         /\ d \in Nat /\ FACTOR <= d /\ d + FACTOR <= p.divisor
         /\ Whole(d) /\ Whole(p.divisor - d)
<1>1. p.divisor \in Nat
  BY DEF Partition
<1>2. PICK m \in Nat : m > 1 /\ p.divisor = m * FACTOR
  BY <1>1, WholePositive
<1> DEFINE h == m \div 2
           f == FACTOR \div 2
<1>3. p.divisor \div FACTOR = m
  <2>1. p.divisor = FACTOR * m + 0 /\ 0 < FACTOR
    BY <1>2, Constants
  <2>2. QED
    BY <1>1, <1>2, <2>1, QuotientUnique, Constants
<1>4. h \in Nat /\ h >= 1 /\ h + 1 <= m
  BY <1>2
<1>5. f \in Nat /\ f < FACTOR
  BY Constants
<1> DEFINE portion == h * FACTOR + f
<1>6. ProportionalDivisor(p) = portion - (portion % FACTOR)
  BY <1>3 DEF ProportionalDivisor
<1> HIDE DEF h, f
<1>7. portion % FACTOR = f
  <2>1. portion = FACTOR * h + f /\ portion \in Nat
    BY <1>4, <1>5, Constants
  <2>2. QED
    BY <1>4, <1>5, <2>1, QuotientUnique, Constants
<1>8. ProportionalDivisor(p) = h * FACTOR
  <2>1. h * FACTOR \in Nat
    BY <1>4, Constants
  <2>2. QED
    BY <1>5, <1>6, <1>7, <2>1
<1>9. FACTOR <= h * FACTOR /\ h <= h * FACTOR /\ h * FACTOR \in Nat
  BY <1>4, Constants
<1>10. p.divisor - h * FACTOR = (m - h) * FACTOR /\ m - h \in Nat /\ m - h >= 1
  BY <1>2, <1>4, Constants
<1>11. m - h <= (m - h) * FACTOR /\ FACTOR <= (m - h) * FACTOR /\ (m - h) * FACTOR \in Nat
  BY <1>10, Constants
<1>12. Whole(h * FACTOR)
  <2>1. h \in 0 .. h * FACTOR
    BY <1>4, <1>9
  <2>2. QED
    BY <2>1 DEF Whole
<1>13. Whole((m - h) * FACTOR)
  <2>1. m - h \in 0 .. (m - h) * FACTOR
    BY <1>10, <1>11
  <2>2. QED
    BY <2>1 DEF Whole
<1>14. h * FACTOR + FACTOR <= p.divisor
  BY <1>1, <1>9, <1>10, <1>11, Constants
<1>15. QED
  BY <1>8, <1>9, <1>10, <1>12, <1>13, <1>14

-------------------------------------------------------------------------------
(* What a task holds.                                                      *)

\* The types of what belongs to one task.
LEMMA TypeOf ==
  ASSUME TypeOK, NEW t \in Task
  PROVE  /\ state[t] \in State /\ range[t] \in (0 .. N) \X (0 .. N)
         /\ range[t][1] \in 0 .. N /\ range[t][2] \in 0 .. N
         /\ partition[t] \in Partition
         /\ partition[t].divisor \in Nat /\ partition[t].max_depth \in Nat
         /\ partition[t].delay \in {"begin", "pass"} /\ partition[t].head \in 0 .. Slots - 1
         /\ pool[t] \in Seq(Item) /\ Len(pool[t]) \in Nat /\ DOMAIN pool[t] = 1 .. Len(pool[t])
         /\ parent[t] \in Node /\ folding[t] \in Node /\ t \in Nat /\ t < N
         /\ ref_count[t] \in 0 .. 2 /\ above[t] \in Node
<1>1. range[t] \in (0 .. N) \X (0 .. N) /\ partition[t] \in Partition /\ pool[t] \in Seq(Item)
  BY DEF TypeOK
<1>2. range[t][1] \in 0 .. N /\ range[t][2] \in 0 .. N
  BY <1>1
<1>3. /\ partition[t].divisor \in Nat /\ partition[t].max_depth \in Nat
      /\ partition[t].delay \in {"begin", "pass"} /\ partition[t].head \in 0 .. Slots - 1
  BY <1>1 DEF Partition
<1>4. Len(pool[t]) \in Nat /\ DOMAIN pool[t] = 1 .. Len(pool[t])
  BY <1>1
<1>5. t \in Nat /\ t < N
  BY Constants DEF Task, Index
<1>6. state[t] \in State /\ parent[t] \in Node /\ folding[t] \in Node
  BY DEF TypeOK
<1>7. ref_count[t] \in 0 .. 2 /\ above[t] \in Node
  BY DEF TypeOK, Task, Node
<1>8. QED
  BY <1>1, <1>2, <1>3, <1>4, <1>5, <1>6, <1>7

\* What a task holds and runs, by the state it is in.
LEMMA PendingIs ==
  ASSUME TypeOK, RangeInv, NEW t \in Task
  PROVE  /\ state[t] \in {"spawned", "splitting"} => Pending(t) = Elements(range[t])
         /\ state[t] \in {"balancing", "continuing"} => Pending(t) = Held(pool[t])
         /\ state[t] = "body" =>
              Pending(t) = IF pool[t] = <<>> THEN {} ELSE Held(Front(pool[t]))
         /\ state[t] \in {"none", "thrown", "folding", "dead"} => Pending(t) = {}
         /\ pool[t] # <<>> => Chunk(t) = Elements(pool[t][Len(pool[t])].range)
         /\ pool[t] = <<>> => Chunk(t) = Elements(range[t])
<1>1. GoodPool(pool[t], t, partition[t].max_depth) /\ t \in Int
  BY DEF RangeInv, Task, Index
<1>2. state[t] \in {"spawned", "splitting"} => Pending(t) = Elements(range[t])
  BY DEF Pending
<1>3. ASSUME state[t] \in {"balancing", "continuing"}
      PROVE  Pending(t) = Held(pool[t])
  <2>1. DOMAIN pool[t] = 1 .. Len(pool[t])
    BY TypeOf
  <2>2. Pending(t) = UNION {Elements(pool[t][k].range) : k \in DOMAIN pool[t]}
    BY <1>3 DEF Pending
  <2>3. QED
    BY <2>1, <2>2 DEF Held
<1>4. ASSUME state[t] = "body"
      PROVE  Pending(t) = IF pool[t] = <<>> THEN {} ELSE Held(Front(pool[t]))
  <2>1. Pending(t) = UNION {Elements(pool[t][k].range) : k \in 1 .. Len(pool[t]) - 1}
    BY <1>4 DEF Pending
  <2>2. CASE pool[t] = <<>>
    <3>1. Len(pool[t]) = 0
      BY <2>2, EmptySeq
    <3>2. 1 .. Len(pool[t]) - 1 = {}
      BY <3>1
    <3>3. QED
      BY <2>1, <2>2, <3>2
  <2>3. CASE pool[t] # <<>>
    BY <1>1, <2>1, <2>3, PopBack
  <2>4. QED
    BY <2>2, <2>3
<1>5. state[t] \in {"none", "thrown", "folding", "dead"} => Pending(t) = {}
  BY DEF Pending
<1>6. /\ pool[t] # <<>> => Chunk(t) = Elements(pool[t][Len(pool[t])].range)
      /\ pool[t] = <<>> => Chunk(t) = Elements(range[t])
  BY DEF Chunk, Last
<1>7. QED
  BY <1>2, <1>3, <1>4, <1>5, <1>6

\* A task holds indices that it begins at or that follow.
LEMMA PendingRange ==
  ASSUME TypeOK, RangeInv, NEW t \in Task, NEW x \in Pending(t)
  PROVE  x \in Index /\ t <= x /\ state[t] # "none"
<1>1. GoodPool(pool[t], t, partition[t].max_depth) /\ t \in Nat /\ range[t][1] = t
  BY TypeOf DEF RangeInv
<1>2. state[t] \in State
  BY TypeOf
<1>3. ASSUME NEW r \in (0 .. N) \X (0 .. N), x \in Elements(r), t <= r[1]
      PROVE  x \in Index /\ t <= x
  <2>1. x \in Int /\ r[1] <= x /\ x < r[2] /\ r[1] \in Nat /\ r[2] \in Nat /\ r[2] <= N
    BY <1>3, ElementsMember
  <2>2. QED
    BY <1>1, <1>3, <2>1, Constants DEF Index
<1>4. ASSUME NEW q, GoodPool(q, t, partition[t].max_depth), x \in Held(q)
      PROVE  x \in Index /\ t <= x
  <2>1. PICK k \in 1 .. Len(q) : x \in Elements(q[k].range)
    BY <1>4, HeldMember
  <2>2. q[k] \in Item /\ t <= q[k].range[1]
    BY <1>4 DEF GoodPool
  <2>3. q[k].range \in (0 .. N) \X (0 .. N)
    BY <2>2 DEF Item
  <2>4. QED
    BY <1>3, <2>1, <2>2, <2>3
<1>5. CASE state[t] \in {"spawned", "splitting"}
  <2>1. x \in Elements(range[t])
    BY <1>5, PendingIs
  <2>2. range[t] \in (0 .. N) \X (0 .. N) /\ t <= range[t][1]
    BY <1>1, TypeOf
  <2>3. QED
    BY <1>3, <1>5, <2>1, <2>2
<1>6. CASE state[t] \in {"balancing", "continuing"}
  BY <1>1, <1>4, <1>6, PendingIs
<1>7. CASE state[t] = "body"
  <2>1. pool[t] # <<>> /\ x \in Held(Front(pool[t]))
    BY <1>7, PendingIs
  <2>2. GoodPool(Front(pool[t]), t, partition[t].max_depth)
    BY <1>1, <2>1, PopBack
  <2>3. QED
    BY <1>4, <1>7, <2>1, <2>2
<1>8. QED
  BY <1>2, <1>5, <1>6, <1>7, PendingIs DEF State

\* A task whose state, range and pool stay holds and runs what it did.
LEMMA OthersSame ==
  ASSUME NEW u, state'[u] = state[u], range'[u] = range[u], pool'[u] = pool[u]
  PROVE  Pending(u)' = Pending(u) /\ Chunk(u)' = Chunk(u)
<1>1. Pending(u)' = Pending(u)
  BY DEF Pending, Elements
<1>2. Chunk(u)' = Chunk(u)
  BY DEF Chunk, Elements, Last
<1>3. QED
  BY <1>1, <1>2

-------------------------------------------------------------------------------
(* The two kinds of step, as far as the indices are concerned.             *)

\* A step of t that makes no task: it keeps what it holds, gives it up in a
\* cancelled group, or begins a body on a part of it.
Works(t) ==
  /\ \A u \in Task : u # t =>
       state'[u] = state[u] /\ Pending(u)' = Pending(u) /\ Chunk(u)' = Chunk(u)
  /\ state[t] # "none" /\ state'[t] # "none"
  /\ cancelled => cancelled'
  /\ \/ /\ state'[t] # "body"
        /\ begun' = begun
        /\ Pending(t)' \subseteq Pending(t)
        /\ cancelled' \/ Pending(t)' = Pending(t)
     \/ /\ state[t] # "body" /\ state'[t] = "body"
        /\ begun' = begun \cup Chunk(t)'
        /\ Pending(t) = Pending(t)' \cup Chunk(t)'
        /\ Pending(t)' \cap Chunk(t)' = {}
        /\ Chunk(t)' # {}
        /\ cancelled' = cancelled

\* Where a task is after it has offered a part of what it holds.
After(t) == IF state[t] = "splitting" THEN "splitting" ELSE "continuing"

\* A step of t that makes the task c of a part of what t holds.
Shares(t, c) ==
  /\ c # t /\ c \in Pending(t)
  /\ Offer(t, c, After(t))
  /\ state[t] \in {"splitting", "balancing"}
  /\ \A u \in Task : u # t /\ u # c =>
       Pending(u)' = Pending(u) /\ Chunk(u)' = Chunk(u)
  /\ Pending(t) = Pending(t)' \cup Pending(c)'
  /\ Pending(t)' \cap Pending(c)' = {}
  /\ c \in Pending(c)' /\ t \notin Pending(c)'
  /\ begun' = begun /\ cancelled' = cancelled

\* The new task is named by an index of which none was made before.
LEMMA SharesIsFresh ==
  ASSUME TypeOK, RangeInv, FreshInv, NEW t \in Task, NEW c, Shares(t, c)
  PROVE  /\ c \in Task /\ state[c] = "none" /\ Pending(c) = {}
         /\ state'[c] = "spawned" /\ state'[t] = After(t)
         /\ \A u \in Task : u # c /\ u # t => state'[u] = state[u]
<1>1. c \in Task
  BY PendingRange DEF Shares, Task
<1>2. state[c] = "none"
  BY DEF Shares, FreshInv
<1>3. Pending(c) = {}
  BY <1>1, <1>2, PendingIs
<1>4. /\ state' = [state EXCEPT ![c] = "spawned", ![t] = After(t)]
      /\ state \in [Task -> State] /\ c # t
  BY DEF Shares, Offer, TypeOK
<1>5. QED
  BY <1>1, <1>2, <1>3, <1>4

\* A step that makes no task keeps the indices apart.
LEMMA WorksKeeps ==
  ASSUME TypeOK, RangeInv, FreshInv, ChunkInv, IndicesAreHeldOnce,
         NEW t \in Task, Works(t)
  PROVE  FreshInv' /\ ChunkInv' /\ IndicesAreHeldOnce'
<1>1. /\ \A u \in Task : u # t =>
           state'[u] = state[u] /\ Pending(u)' = Pending(u) /\ Chunk(u)' = Chunk(u)
      /\ state[t] # "none" /\ state'[t] # "none"
      /\ cancelled => cancelled'
      /\ Pending(t)' \subseteq Pending(t)
  BY DEF Works
<1>2. \A u \in Task : Pending(u)' \subseteq Pending(u)
  BY <1>1
<1>3. \A u \in Task : \A x : x \in Pending(u) => x \in Task
  BY PendingRange DEF Task
<1>4. FreshInv'
  <2> SUFFICES ASSUME NEW u \in Task, NEW x \in Pending(u)', x # u
               PROVE  state'[x] = "none"
    BY DEF FreshInv
  <2>1. x \in Pending(u) /\ x \in Task /\ state[x] = "none"
    BY <1>2, <1>3 DEF FreshInv
  <2>2. QED
    BY <1>1, <2>1
<1>5. \A u \in Task : state[u] = "body" => Chunk(u) \subseteq begun
  BY DEF ChunkInv
<1>6. /\ \A u \in Task : Pending(u) \cap begun = {}
      /\ \A u, v \in Task : u # v => Pending(u) \cap Pending(v) = {}
  BY DEF IndicesAreHeldOnce
<1>7. ChunkInv'
  <2>1. CASE state'[t] # "body" /\ begun' = begun
    <3>1. \A u \in Task : state'[u] = "body" => u # t /\ state[u] = "body" /\ Chunk(u)' = Chunk(u)
      BY <1>1, <2>1
    <3>2. QED
      BY <1>5, <2>1, <3>1 DEF ChunkInv
  <2>2. CASE /\ begun' = begun \cup Chunk(t)'
             /\ Pending(t) = Pending(t)' \cup Chunk(t)'
    <3>1. \A u \in Task : state'[u] = "body" /\ u # t =>
            Chunk(u)' \subseteq begun /\ Chunk(u)' \cap Chunk(t)' = {}
      BY <1>1, <1>5, <1>6, <2>2
    <3>2. \A u, v \in Task :
            state'[u] = "body" /\ state'[v] = "body" /\ u # v => Chunk(u)' \cap Chunk(v)' = {}
      <4> SUFFICES ASSUME NEW u \in Task, NEW v \in Task,
                          state'[u] = "body", state'[v] = "body", u # v
                   PROVE  Chunk(u)' \cap Chunk(v)' = {}
        OBVIOUS
      <4>1. CASE u = t \/ v = t
        BY <3>1, <4>1
      <4>2. CASE u # t /\ v # t
        BY <1>1, <4>2 DEF ChunkInv
      <4>3. QED
        BY <4>1, <4>2
    <3>3. \A u \in Task : state'[u] = "body" => Chunk(u)' \subseteq begun'
      BY <2>2, <3>1
    <3>4. QED
      BY <3>2, <3>3 DEF ChunkInv
  <2>3. QED
    BY <2>1, <2>2 DEF Works
<1>8. IndicesAreHeldOnce'
  <2>1. \A u \in Task : Pending(u)' \cap begun' = {}
    <3>1. CASE begun' = begun
      BY <1>2, <1>6, <3>1
    <3>2. CASE /\ begun' = begun \cup Chunk(t)'
               /\ Pending(t) = Pending(t)' \cup Chunk(t)'
               /\ Pending(t)' \cap Chunk(t)' = {}
      <4> TAKE u \in Task
      <4>1. CASE u = t
        BY <1>6, <3>2, <4>1
      <4>2. CASE u # t
        BY <1>1, <1>6, <3>2, <4>2
      <4>3. QED
        BY <4>1, <4>2
    <3>3. QED
      BY <3>1, <3>2 DEF Works
  <2>2. \A u, v \in Task : u # v => Pending(u)' \cap Pending(v)' = {}
    BY <1>2, <1>6
  <2>3. cancelled' \/ begun' \cup UNION {Pending(u)' : u \in Task} = Index
    <3>1. SUFFICES ASSUME ~ cancelled'
                   PROVE  begun' \cup UNION {Pending(u)' : u \in Task} = Index
      OBVIOUS
    <3>2. begun \cup UNION {Pending(u) : u \in Task} = Index
      BY <1>1, <3>1 DEF IndicesAreHeldOnce
    <3>3. \/ begun' = begun /\ Pending(t)' = Pending(t)
          \/ begun' = begun \cup Chunk(t)' /\ Pending(t) = Pending(t)' \cup Chunk(t)'
      BY <3>1 DEF Works
    <3>4. ASSUME NEW x \in begun \cup UNION {Pending(u) : u \in Task}
          PROVE  x \in begun' \cup UNION {Pending(u)' : u \in Task}
      <4>1. CASE x \in begun
        BY <3>3, <4>1
      <4>2. CASE x \notin begun
        <5>1. PICK u \in Task : x \in Pending(u)
          BY <3>4, <4>2
        <5>2. x \in Pending(u)' \/ x \in begun'
          BY <1>1, <3>3, <5>1
        <5>3. QED
          BY <5>2
      <4>3. QED
        BY <4>1, <4>2
    <3>5. ASSUME NEW x \in begun' \cup UNION {Pending(u)' : u \in Task}
          PROVE  x \in begun \cup UNION {Pending(u) : u \in Task}
      <4>1. CASE x \in begun'
        <5>1. x \in begun \/ x \in Pending(t)
          BY <3>3, <4>1
        <5>2. QED
          BY <5>1
      <4>2. CASE x \notin begun'
        <5>1. PICK u \in Task : x \in Pending(u)'
          BY <3>5, <4>2
        <5>2. QED
          BY <1>2, <5>1
      <4>3. QED
        BY <4>1, <4>2
    <3>6. QED
      BY <3>2, <3>4, <3>5
  <2>4. QED
    BY <2>1, <2>2, <2>3 DEF IndicesAreHeldOnce
<1>9. QED
  BY <1>4, <1>7, <1>8

\* A step that makes one keeps them apart.
LEMMA SharesKeeps ==
  ASSUME TypeOK, RangeInv, FreshInv, ChunkInv, IndicesAreHeldOnce,
         NEW t \in Task, NEW c, Shares(t, c)
  PROVE  FreshInv' /\ ChunkInv' /\ IndicesAreHeldOnce'
<1>1. /\ c \in Task /\ state[c] = "none" /\ Pending(c) = {}
      /\ state'[c] = "spawned" /\ state'[t] \in {"splitting", "continuing"}
      /\ \A u \in Task : u # c /\ u # t => state'[u] = state[u]
  BY SharesIsFresh DEF After
<1>2. /\ c # t /\ c \in Pending(t)
      /\ state[t] \in {"splitting", "balancing"}
      /\ \A u \in Task : u # t /\ u # c =>
           Pending(u)' = Pending(u) /\ Chunk(u)' = Chunk(u)
      /\ Pending(t) = Pending(t)' \cup Pending(c)'
      /\ Pending(t)' \cap Pending(c)' = {}
      /\ c \in Pending(c)' /\ t \notin Pending(c)'
      /\ begun' = begun /\ cancelled' = cancelled
  BY DEF Shares
<1>3. \A u \in Task : \A x : x \in Pending(u) => x \in Task
  BY PendingRange DEF Task
<1>4. /\ \A u \in Task : Pending(u) \cap begun = {}
      /\ \A u, v \in Task : u # v => Pending(u) \cap Pending(v) = {}
      /\ cancelled \/ begun \cup UNION {Pending(u) : u \in Task} = Index
  BY DEF IndicesAreHeldOnce
<1>5. FreshInv'
  <2> SUFFICES ASSUME NEW u \in Task, NEW x \in Pending(u)', x # u
               PROVE  state'[x] = "none"
    BY DEF FreshInv
  <2>1. CASE u = c
    <3>1. x \in Pending(t) /\ x \in Task /\ x # c
      BY <1>2, <1>3, <2>1
    <3>2. x # t
      BY <1>2, <2>1
    <3>3. QED
      BY <1>1, <3>1, <3>2 DEF FreshInv
  <2>2. CASE u # c
    <3>1. x \in Pending(u)
      BY <1>2, <2>2
    <3>2. x # c
      <4>1. CASE u = t
        BY <1>2, <4>1
      <4>2. CASE u # t
        BY <1>2, <1>4, <3>1, <4>2
      <4>3. QED
        BY <4>1, <4>2
    <3>3. x \in Task /\ state[x] = "none"
      BY <1>3, <2>2, <3>1 DEF FreshInv
    <3>4. QED
      BY <1>1, <1>2, <3>2, <3>3
  <2>3. QED
    BY <2>1, <2>2
<1>6. ChunkInv'
  <2>1. \A u \in Task : state'[u] = "body" => u # t /\ u # c /\ state[u] = "body" /\ Chunk(u)' = Chunk(u)
    BY <1>1, <1>2
  <2>2. QED
    BY <1>2, <2>1 DEF ChunkInv
<1>7. IndicesAreHeldOnce'
  <2>1. \A u \in Task : Pending(u)' \subseteq Pending(u) \/ (u = c /\ Pending(u)' \subseteq Pending(t))
    BY <1>2
  <2>2. \A u \in Task : Pending(u)' \cap begun' = {}
    BY <1>2, <1>4, <2>1
  <2>3. \A u \in Task : u # t /\ u # c =>
          Pending(u)' \cap Pending(t)' = {} /\ Pending(u)' \cap Pending(c)' = {}
    BY <1>2, <1>4
  <2>4. \A u, v \in Task : u # v => Pending(u)' \cap Pending(v)' = {}
    <3> SUFFICES ASSUME NEW u \in Task, NEW v \in Task, u # v
                 PROVE  Pending(u)' \cap Pending(v)' = {}
      OBVIOUS
    <3>1. CASE u = t \/ u = c
      BY <1>2, <2>3, <3>1
    <3>2. CASE v = t \/ v = c
      BY <1>2, <2>3, <3>2
    <3>3. CASE u # t /\ u # c /\ v # t /\ v # c
      BY <1>2, <1>4, <3>3
    <3>4. QED
      BY <3>1, <3>2, <3>3
  <2>5. UNION {Pending(u)' : u \in Task} = UNION {Pending(u) : u \in Task}
    <3>1. ASSUME NEW u \in Task, NEW x \in Pending(u)
          PROVE  \E v \in Task : x \in Pending(v)'
      <4>1. CASE u = t
        BY <1>1, <1>2, <3>1, <4>1
      <4>2. CASE u # t
        <5>1. u # c
          BY <1>1, <3>1
        <5>2. QED
          BY <1>2, <3>1, <4>2, <5>1
      <4>3. QED
        BY <4>1, <4>2
    <3>2. ASSUME NEW u \in Task, NEW x \in Pending(u)'
          PROVE  \E v \in Task : x \in Pending(v)
      BY <2>1, <3>2
    <3>3. QED
      BY <3>1, <3>2
  <2>6. QED
    BY <1>2, <1>4, <2>2, <2>4, <2>5 DEF IndicesAreHeldOnce
<1>8. QED
  BY <1>5, <1>6, <1>7

-------------------------------------------------------------------------------
(* What the steps do to partition objects.                                 *)

\* The affinity array is not empty.
LEMMA SlotsPositive == Slots \in Nat \ {0}
<1>1. MAX_CONCURRENCY * FACTOR \in Nat \ {0}
  BY Constants
<1>2. QED
  BY <1>1 DEF Slots

\* The head of a partition object stays in the array.
LEMMA SlotOf ==
  ASSUME NEW i \in Int
  PROVE  i % Slots \in 0 .. Slots - 1
<1>1. Slots \in Nat \ {0}
  BY SlotsPositive
<1>2. QED
  BY <1>1

\* A record of parts in range is a partition object.
LEMMA PartitionRecord ==
  ASSUME NEW d \in Nat, NEW m \in Nat, NEW e \in {"begin", "pass"}, NEW h \in 0 .. Slots - 1
  PROVE  [divisor |-> d, max_depth |-> m, delay |-> e, head |-> h] \in Partition
BY DEF Partition

\* The two partition objects after split (partitioner.h, the splitting constructors).
LEMMA SplitParts ==
  ASSUME NEW p \in Partition
  PROVE  /\ SplitSource(p) \in Partition /\ SplitChild(p) \in Partition
         /\ HalfDivisor(p) \in Nat /\ 2 * HalfDivisor(p) <= p.divisor
         /\ SplitSource(p).divisor = HalfDivisor(p) /\ SplitChild(p).divisor = HalfDivisor(p)
         /\ SplitSource(p).max_depth = p.max_depth /\ SplitChild(p).max_depth = p.max_depth
         /\ SplitSource(p).head = p.head
         /\ SplitChild(p).head = (p.head + HalfDivisor(p)) % Slots
<1>1. p.divisor \in Nat /\ p.max_depth \in Nat /\ p.head \in 0 .. Slots - 1
      /\ p.delay \in {"begin", "pass"}
  BY DEF Partition
<1>2. HalfDivisor(p) \in Nat /\ 2 * HalfDivisor(p) <= p.divisor
  BY <1>1 DEF HalfDivisor
<1>3. p.head + HalfDivisor(p) \in Int
  BY <1>1, <1>2, SlotsPositive
<1>4. (p.head + HalfDivisor(p)) % Slots \in 0 .. Slots - 1
  BY <1>3, SlotOf
<1> HIDE DEF HalfDivisor
<1>5. SplitSource(p) = [divisor |-> HalfDivisor(p), max_depth |-> p.max_depth,
                        delay |-> p.delay, head |-> p.head]
  BY DEF SplitSource, Partition
<1>6. SplitChild(p) = [divisor |-> HalfDivisor(p), max_depth |-> p.max_depth,
                       delay |-> "pass", head |-> (p.head + HalfDivisor(p)) % Slots]
  <2> DEFINE h == (p.head + HalfDivisor(p)) % Slots
  <2>1. SplitChild(p) = [p EXCEPT !.divisor = HalfDivisor(p), !.delay = "pass", !.head = h]
    BY DEF SplitChild
  <2> HIDE DEF h
  <2>2. QED
    BY <2>1 DEF Partition, h
<1>7. SplitSource(p) \in Partition
  BY <1>1, <1>2, <1>5, PartitionRecord
<1>8. SplitChild(p) \in Partition
  BY <1>1, <1>2, <1>4, <1>6, PartitionRecord
<1>9. QED
  BY <1>2, <1>5, <1>6, <1>7, <1>8

\* The two partition objects after a proportional split.
LEMMA ProportionalSplitParts ==
  ASSUME NEW p \in Partition, Whole(p.divisor), p.divisor > FACTOR
  PROVE  LET d == ProportionalDivisor(p) IN
         /\ ProportionalSource(p) \in Partition /\ ProportionalChild(p) \in Partition
         /\ ProportionalSource(p).divisor = p.divisor - d /\ ProportionalChild(p).divisor = d
         /\ ProportionalSource(p).max_depth = p.max_depth
         /\ ProportionalChild(p).max_depth = p.max_depth
         /\ ProportionalSource(p).head = p.head
         /\ ProportionalChild(p).head = (p.head + p.divisor - d) % Slots
<1> DEFINE d == ProportionalDivisor(p)
<1>1. p.divisor \in Nat /\ p.max_depth \in Nat /\ p.head \in 0 .. Slots - 1
      /\ p.delay \in {"begin", "pass"}
  BY DEF Partition
<1>2. d \in Nat /\ d + FACTOR <= p.divisor
  BY ProportionalParts
<1> HIDE DEF d
<1>3. p.divisor - d \in Nat /\ p.head + p.divisor - d \in Int
  BY <1>1, <1>2, Constants, SlotsPositive
<1>4. (p.head + p.divisor - d) % Slots \in 0 .. Slots - 1
  BY <1>3, SlotOf
<1>5. ProportionalSource(p) = [divisor |-> p.divisor - d, max_depth |-> p.max_depth,
                               delay |-> p.delay, head |-> p.head]
  BY DEF ProportionalSource, Partition, d
<1>6. ProportionalChild(p) = [divisor |-> d, max_depth |-> p.max_depth,
                              delay |-> "begin", head |-> (p.head + p.divisor - d) % Slots]
  <2> DEFINE h == (p.head + p.divisor - d) % Slots
  <2>1. ProportionalChild(p) = [p EXCEPT !.divisor = d, !.delay = "begin", !.head = h]
    BY DEF ProportionalChild, d
  <2> HIDE DEF h
  <2>2. QED
    BY <2>1 DEF Partition, h
<1>7. ProportionalSource(p) \in Partition
  BY <1>1, <1>3, <1>5, PartitionRecord
<1>8. ProportionalChild(p) \in Partition
  BY <1>1, <1>2, <1>4, <1>6, PartitionRecord
<1>9. QED
  BY <1>5, <1>6, <1>7, <1>8 DEF d

\* The partition object after check_being_stolen.
LEMMA StolenParts ==
  ASSUME NEW p \in Partition, NEW marks \in BOOLEAN
  PROVE  /\ AfterBeingStolen(p, marks) \in Partition
         /\ AfterBeingStolen(p, marks).divisor =
              IF p.divisor \div FACTOR = 0 THEN 1 ELSE p.divisor
         /\ AfterBeingStolen(p, marks).max_depth >= p.max_depth
         /\ AfterBeingStolen(p, marks).head = p.head
<1>1. p.divisor \in Nat /\ p.max_depth \in Nat /\ p.head \in 0 .. Slots - 1
      /\ p.delay \in {"begin", "pass"}
  BY DEF Partition
<1> DEFINE e == IF p.divisor \div FACTOR = 0 THEN 1 ELSE p.divisor
           m == IF marks THEN (IF p.max_depth = 0 THEN 1 ELSE p.max_depth) + DEMAND_DEPTH_ADD
                         ELSE p.max_depth
<1>2. e \in Nat /\ m \in Nat /\ m >= p.max_depth
  BY <1>1, Constants
<1>3. AfterBeingStolen(p, marks) = [divisor |-> e, max_depth |-> m, delay |-> p.delay, head |-> p.head]
  <2>1. AfterBeingStolen(p, marks) = [p EXCEPT !.divisor = e, !.max_depth = m]
    BY DEF AfterBeingStolen
  <2> HIDE DEF m, e
  <2>2. QED
    BY <2>1 DEF Partition
<1> HIDE DEF m, e
<1>4. AfterBeingStolen(p, marks) \in Partition
  BY <1>1, <1>2, <1>3, PartitionRecord
<1>5. QED
  BY <1>2, <1>3, <1>4 DEF e

\* A split of an auto partition object takes one of its depth when it has one slot.
LEMMA DivisibleParts ==
  ASSUME NEW p \in Partition, PartitionDivisible(p)
  PROVE  /\ AfterIsDivisible(p) \in Partition
         /\ AfterIsDivisible(p).head = p.head
         /\ PARTITIONER = "affinity" => AfterIsDivisible(p) = p
<1>1. p.divisor \in Nat /\ p.max_depth \in Nat /\ p.head \in 0 .. Slots - 1
      /\ p.delay \in {"begin", "pass"}
  BY DEF Partition
<1>2. CASE PARTITIONER = "auto" /\ p.divisor = 1
  <2>1. p.max_depth - 1 \in Nat
    BY <1>1, <1>2 DEF PartitionDivisible
  <2>2. AfterIsDivisible(p) = [divisor |-> 0, max_depth |-> p.max_depth - 1, delay |-> p.delay,
                               head |-> p.head]
    BY <1>2 DEF AfterIsDivisible, Partition
  <2>3. AfterIsDivisible(p) \in Partition
    BY <1>1, <2>1, <2>2, PartitionRecord
  <2>4. QED
    BY <1>2, <2>2, <2>3
<1>3. CASE ~ (PARTITIONER = "auto" /\ p.divisor = 1)
  BY <1>3 DEF AfterIsDivisible
<1>4. QED
  BY <1>2, <1>3

\* The partition object after check_for_demand: no slot and no depth is gained or lost
\* but that a single slot is given up.
LEMMA DemandParts ==
  ASSUME TypeOK, NEW t \in Task
  PROVE  LET p == AfterDemand(t) IN
         /\ p \in Partition /\ p.max_depth >= partition[t].max_depth
         /\ p.head = partition[t].head
         /\ p.divisor = partition[t].divisor \/ (partition[t].divisor = 1 /\ p.divisor = 0)
         /\ ~ (partition[t].delay = "begin" /\ partition[t].divisor = 1 /\ p.divisor = 0)
<1> DEFINE p == partition[t]
<1>1. p \in Partition /\ p.divisor \in Nat /\ p.max_depth \in Nat /\ p.head \in 0 .. Slots - 1
      /\ p.delay \in {"begin", "pass"}
  BY TypeOf
<1>2. CASE AsksPeer(p) /\ InDemand(t)
  <2>1. p.max_depth + DEMAND_DEPTH_ADD \in Nat /\ p.max_depth + DEMAND_DEPTH_ADD >= p.max_depth
    BY <1>1, Constants
  <2>2. AfterDemand(t) = [divisor |-> p.divisor, max_depth |-> p.max_depth + DEMAND_DEPTH_ADD,
                          delay |-> p.delay, head |-> p.head]
    BY <1>1, <1>2 DEF AfterDemand, Partition
  <2>3. AfterDemand(t) \in Partition
    BY <1>1, <2>1, <2>2, PartitionRecord
  <2>4. QED
    BY <1>1, <2>1, <2>2, <2>3
<1>3. CASE AsksPeer(p) /\ ~ InDemand(t)
  <2>1. AfterDemand(t) = p
    BY <1>3 DEF AfterDemand
  <2>2. QED
    BY <1>1, <2>1
<1>4. CASE ~ AsksPeer(p) /\ p.delay = "begin"
  <2>1. AfterDemand(t) = [p EXCEPT !.delay = "pass"]
    BY <1>4 DEF AfterDemand
  <2>2. AfterDemand(t) = [divisor |-> p.divisor, max_depth |-> p.max_depth,
                          delay |-> "pass", head |-> p.head]
    BY <1>1, <2>1 DEF Partition
  <2>3. AfterDemand(t) \in Partition
    BY <1>1, <2>2, PartitionRecord
  <2>4. QED
    BY <1>1, <2>2, <2>3
<1>5. CASE ~ AsksPeer(p) /\ p.delay # "begin"
  <2>1. AfterDemand(t) = IF p.divisor = 1 THEN [p EXCEPT !.divisor = 0] ELSE p
    BY <1>5 DEF AfterDemand
  <2>2. CASE p.divisor = 1
    <3>1. AfterDemand(t) = [divisor |-> 0, max_depth |-> p.max_depth,
                            delay |-> p.delay, head |-> p.head]
      BY <1>1, <2>1, <2>2 DEF Partition
    <3>2. AfterDemand(t) \in Partition
      BY <1>1, <3>1, PartitionRecord
    <3>3. QED
      BY <1>1, <1>5, <2>2, <3>1, <3>2
  <2>3. CASE p.divisor # 1
    BY <1>1, <2>1, <2>3
  <2>4. QED
    BY <2>2, <2>3
<1>6. QED
  BY <1>2, <1>3, <1>4, <1>5

-------------------------------------------------------------------------------
(* What the steps do to the indices.                                       *)

\* PendingIs for the state after a step.
LEMMA PendingPrime ==
  ASSUME NEW t, pool'[t] \in Seq(Item)
  PROVE  /\ state'[t] \in {"spawned", "splitting"} => Pending(t)' = Elements(range'[t])
         /\ state'[t] \in {"balancing", "continuing"} => Pending(t)' = Held(pool'[t])
         /\ state'[t] = "body" =>
              Pending(t)' = IF pool'[t] = <<>> THEN {} ELSE Held(Front(pool'[t]))
         /\ state'[t] \in {"none", "thrown", "folding", "dead"} => Pending(t)' = {}
         /\ pool'[t] # <<>> => Chunk(t)' = Elements(pool'[t][Len(pool'[t])].range)
         /\ pool'[t] = <<>> => Chunk(t)' = Elements(range'[t])
<1> DEFINE q == pool'[t]
<1>1. state'[t] \in {"spawned", "splitting"} => Pending(t)' = Elements(range'[t])
  BY DEF Pending, Elements
<1>2. ASSUME state'[t] \in {"balancing", "continuing"}
      PROVE  Pending(t)' = Held(q)
  <2>1. DOMAIN q = 1 .. Len(q)
    OBVIOUS
  <2>2. Pending(t)' = UNION {Elements(q[k].range) : k \in DOMAIN q}
    BY <1>2 DEF Pending, Elements
  <2>3. QED
    BY <2>1, <2>2 DEF Held
<1>3. ASSUME state'[t] = "body"
      PROVE  Pending(t)' = IF q = <<>> THEN {} ELSE Held(Front(q))
  <2>1. Pending(t)' = UNION {Elements(q[k].range) : k \in 1 .. Len(q) - 1}
    BY <1>3 DEF Pending, Elements
  <2>2. CASE q = <<>>
    <3>1. Len(q) = 0
      BY <2>2, EmptySeq
    <3>2. 1 .. Len(q) - 1 = {}
      BY <3>1
    <3>3. QED
      BY <2>1, <2>2, <3>2
  <2>3. CASE q # <<>>
    <3>1. Len(Front(q)) = Len(q) - 1 /\ \A k \in 1 .. Len(q) - 1 : Front(q)[k] = q[k]
      BY <2>3, FrontOfPool
    <3>2. Held(Front(q)) = UNION {Elements(q[k].range) : k \in 1 .. Len(q) - 1}
      BY <3>1 DEF Held
    <3>3. QED
      BY <2>1, <2>3, <3>2
  <2>4. QED
    BY <2>2, <2>3
<1>4. state'[t] \in {"none", "thrown", "folding", "dead"} => Pending(t)' = {}
  BY DEF Pending
<1>5. /\ q # <<>> => Chunk(t)' = Elements(q[Len(q)].range)
      /\ q = <<>> => Chunk(t)' = Elements(range'[t])
  BY DEF Chunk, Last, Elements
<1>6. QED
  BY <1>1, <1>2, <1>3, <1>4, <1>5

\* Only the variables of t change.
Alone(t) ==
  \A u \in Task : u # t =>
    /\ state'[u] = state[u] /\ range'[u] = range[u] /\ pool'[u] = pool[u]
    /\ partition'[u] = partition[u]

\* A step of t alone that leaves its range and makes a good pool keeps RangeInv.
LEMMA AloneRange ==
  ASSUME RangeInv, NEW t \in Task, Alone(t),
         range'[t] = range[t], state[t] # "none", state'[t] # "none",
         state'[t] \in {"spawned", "splitting"} => pool'[t] = <<>>,
         state'[t] \in {"balancing", "continuing"} => pool'[t] # <<>>,
         GoodPool(pool'[t], t, partition'[t].max_depth)
  PROVE  RangeInv'
<1> SUFFICES ASSUME NEW u \in Task
             PROVE  /\ range'[u][1] = u
                    /\ state'[u] # "none" => u < range'[u][2]
                    /\ state'[u] \in {"none", "spawned", "splitting"} => pool'[u] = <<>>
                    /\ state'[u] \in {"balancing", "continuing"} => pool'[u] # <<>>
                    /\ GoodPool(pool'[u], u, partition'[u].max_depth)
  BY DEF RangeInv, GoodPool
<1>1. /\ range[u][1] = u
      /\ state[u] # "none" => u < range[u][2]
      /\ state[u] \in {"none", "spawned", "splitting"} => pool[u] = <<>>
      /\ state[u] \in {"balancing", "continuing"} => pool[u] # <<>>
      /\ GoodPool(pool[u], u, partition[u].max_depth)
  BY DEF RangeInv
<1>2. CASE u = t
  BY <1>1, <1>2
<1>3. CASE u # t
  BY <1>1, <1>3 DEF Alone
<1>4. QED
  BY <1>2, <1>3

\* What the others hold and run after such a step.
LEMMA AloneOthers ==
  ASSUME NEW t \in Task, Alone(t)
  PROVE  \A u \in Task : u # t =>
           state'[u] = state[u] /\ Pending(u)' = Pending(u) /\ Chunk(u)' = Chunk(u)
BY OthersSame DEF Alone

\* The empty pool is a pool of any task.
LEMMA EmptyPoolIsGood ==
  ASSUME NEW low, NEW d
  PROVE  GoodPool(<<>>, low, d) /\ Len(<<>>) = 0 /\ <<>> \in Seq(Item) /\ Held(<<>>) = {}
<1>1. Len(<<>>) = 0 /\ <<>> \in Seq(Item)
  BY EmptySeq
<1>2. 1 .. Len(<<>>) = {}
  BY <1>1
<1>3. QED
  BY <1>1, <1>2, Constants DEF GoodPool, Held

\* A pool stays one when its task may split deeper.
LEMMA GoodPoolDeeper ==
  ASSUME NEW q, NEW low, NEW d \in Nat, NEW e \in Nat, d <= e, GoodPool(q, low, d)
  PROVE  GoodPool(q, low, e)
<1>1. \A k \in 1 .. Len(q) : q[k] \in Item
  BY DEF GoodPool
<1>2. \A k \in 1 .. Len(q) : q[k].depth \in Nat
  BY <1>1 DEF Item
<1>3. \A k \in 1 .. Len(q) : q[k].depth <= e
  BY <1>2 DEF GoodPool
<1>4. QED
  BY <1>3 DEF GoodPool

\* The pools after a step that gives t a good one.
LEMMA PoolTypes ==
  ASSUME TypeOK, NEW t \in Task, NEW q, NEW d, GoodPool(q, t, d),
         pool' = [pool EXCEPT ![t] = q]
  PROVE  pool' \in [Task -> Seq(Item)] /\ \A u \in Task : Len(pool'[u]) <= POOL_CAPACITY
<1>1. q \in Seq(Item) /\ Len(q) <= POOL_CAPACITY
  BY DEF GoodPool
<1>2. pool \in [Task -> Seq(Item)] /\ \A u \in Task : Len(pool[u]) <= POOL_CAPACITY
  BY DEF TypeOK
<1>3. \A u \in Task : pool'[u] = IF u = t THEN q ELSE pool[u]
  BY <1>2
<1>4. QED
  BY <1>1, <1>2, <1>3

\* execute up to the splitting loop makes no task and moves no index.
LEMMA ExecuteWorks ==
  ASSUME TypeOK, RangeInv, NEW t \in Task, Execute(t)
  PROVE  TypeOK' /\ RangeInv' /\ Works(t)
<1>1. PICK stolen \in BOOLEAN :
        /\ partition' = [partition EXCEPT ![t] = AfterBeingStolen(@, MarksStolen(t, stolen))]
        /\ child_stolen' = [child_stolen EXCEPT ![parent[t]] = @ \/ MarksStolen(t, stolen)]
  BY DEF Execute
<1>2. /\ state[t] = "spawned" /\ state' = [state EXCEPT ![t] = "splitting"]
      /\ note_affinity(t) \/ UNCHANGED my_array
      /\ UNCHANGED <<range, pool, parent, above, ref_count, folding, m_wait, begun,
                     cancelled, returned>>
  BY DEF Execute
<1> DEFINE marks == MarksStolen(t, stolen)
           p == AfterBeingStolen(partition[t], marks)
<1>3. marks \in BOOLEAN
  BY DEF MarksStolen
<1> HIDE DEF marks
<1>4. partition[t] \in Partition /\ partition[t].max_depth \in Nat /\ parent[t] \in Node /\ pool[t] \in Seq(Item)
  BY TypeOf
<1>5. p \in Partition /\ p.max_depth >= partition[t].max_depth
  BY <1>3, <1>4, StolenParts
<1>6. p.max_depth \in Nat
  BY <1>5 DEF Partition
<1>7. partition' = [partition EXCEPT ![t] = p] /\ child_stolen' = [child_stolen EXCEPT ![parent[t]] = @ \/ marks]
  BY <1>1 DEF marks
<1> HIDE DEF p
<1>8. /\ state'[t] = "splitting" /\ partition'[t] = p /\ pool'[t] = pool[t] /\ range'[t] = range[t]
      /\ Alone(t)
  BY <1>2, <1>7 DEF TypeOK, Alone
<1>9. TypeOK'
  <2>1. state' \in [Task -> State]
    BY <1>2 DEF TypeOK, State
  <2>2. partition' \in [Task -> Partition]
    BY <1>5, <1>7 DEF TypeOK
  <2>3. child_stolen' \in [Node -> BOOLEAN]
    BY <1>3, <1>4, <1>7 DEF TypeOK
  <2>4. my_array' \in [0 .. Slots - 1 -> Task \cup {NoTask}]
    BY <1>2 DEF TypeOK, note_affinity
  <2>5. QED
    BY <1>2, <2>1, <2>2, <2>3, <2>4 DEF TypeOK
<1>10. pool[t] = <<>> /\ GoodPool(pool[t], t, partition[t].max_depth)
  BY <1>2 DEF RangeInv
<1>11. GoodPool(pool'[t], t, partition'[t].max_depth)
  BY <1>4, <1>5, <1>6, <1>8, <1>10, GoodPoolDeeper
<1>12. RangeInv'
  BY <1>2, <1>8, <1>10, <1>11, AloneRange
<1>13. Pending(t)' = Pending(t)
  BY <1>2, <1>4, <1>8, PendingIs, PendingPrime
<1>14. Works(t)
  BY <1>2, <1>8, <1>13, AloneOthers DEF Works
<1>15. QED
  BY <1>9, <1>12, <1>14

\* A body that begins on the whole range of its task takes what the task held.
LEMMA RunWholeWorks ==
  ASSUME TypeOK, RangeInv, NEW t \in Task, RunWhole(t)
  PROVE  TypeOK' /\ RangeInv' /\ Works(t)
<1>1. /\ state[t] = "splitting" /\ state' = [state EXCEPT ![t] = "body"]
      /\ begun' = begun \cup Elements(range[t])
      /\ UNCHANGED <<range, partition, pool, parent, above, ref_count, child_stolen,
                     folding, my_array, m_wait, cancelled, returned>>
  BY DEF RunWhole
<1>2. /\ range[t] \in (0 .. N) \X (0 .. N) /\ range[t][1] = t /\ t < range[t][2] /\ pool[t] = <<>>
      /\ GoodPool(pool[t], t, partition[t].max_depth) /\ pool[t] \in Seq(Item)
  BY <1>1, TypeOf DEF RangeInv
<1>3. /\ state'[t] = "body" /\ pool'[t] = pool[t] /\ range'[t] = range[t]
      /\ partition'[t] = partition[t] /\ Alone(t)
  BY <1>1 DEF TypeOK, Alone
<1>4. Pending(t) = Elements(range[t]) /\ Pending(t)' = {} /\ Chunk(t)' = Elements(range[t])
  BY <1>1, <1>2, <1>3, PendingIs, PendingPrime
<1>5. t \in Elements(range[t])
  <2>1. t \in Int /\ range[t][1] <= t
    BY <1>2, TypeOf
  <2>2. QED
    BY <1>2, <2>1, ElementsMember
<1>6. Elements(range[t]) \subseteq Index
  BY <1>1, <1>4, PendingRange
<1>7. TypeOK'
  <2>1. state' \in [Task -> State]
    BY <1>1 DEF TypeOK, State
  <2>2. begun' \subseteq Index
    BY <1>1, <1>6 DEF TypeOK
  <2>3. QED
    BY <1>1, <2>1, <2>2 DEF TypeOK
<1>8. RangeInv'
  BY <1>1, <1>2, <1>3, AloneRange
<1>9. Works(t)
  BY <1>1, <1>3, <1>4, <1>5, AloneOthers DEF Works
<1>10. QED
  BY <1>7, <1>8, <1>9

\* The pool of a task begins as its range.
LEMMA FillPoolWorks ==
  ASSUME TypeOK, RangeInv, NEW t \in Task, FillPool(t)
  PROVE  TypeOK' /\ RangeInv' /\ Works(t)
<1> DEFINE item == [range |-> range[t], depth |-> 0]
           q == <<item>>
<1>1. /\ state[t] = "splitting" /\ state' = [state EXCEPT ![t] = "balancing"]
      /\ pool' = [pool EXCEPT ![t] = q]
      /\ UNCHANGED <<range, partition, parent, above, ref_count, child_stolen, folding,
                     my_array, m_wait, begun, cancelled, returned>>
  BY DEF FillPool
<1>2. /\ range[t] \in (0 .. N) \X (0 .. N) /\ range[t][1] = t /\ t < range[t][2]
      /\ partition[t].max_depth \in Nat /\ t \in Int
  BY <1>1, TypeOf DEF RangeInv
<1>3. item \in Item /\ item.range = range[t] /\ item.depth = 0
  BY <1>2 DEF Item
<1> HIDE DEF item
<1>4. q \in Seq(Item) /\ Len(q) = 1 /\ q[1] = item /\ q # <<>>
  BY <1>3
<1> HIDE DEF q
<1>5. GoodPool(q, t, partition[t].max_depth)
  BY <1>2, <1>3, <1>4, Constants DEF GoodPool
<1>6. Held(q) = Elements(range[t])
  <2>1. \A k : k \in 1 .. Len(q) <=> k = 1
    BY <1>4
  <2>2. \A x : x \in Held(q) <=> x \in Elements(range[t])
    BY <1>3, <1>4, <2>1, HeldMember
  <2>3. QED
    BY <2>2
<1>7. /\ state'[t] = "balancing" /\ pool'[t] = q /\ range'[t] = range[t]
      /\ partition'[t] = partition[t] /\ Alone(t)
  BY <1>1 DEF TypeOK, Alone
<1>8. TypeOK'
  <2>1. state' \in [Task -> State]
    BY <1>1 DEF TypeOK, State
  <2>2. pool' \in [Task -> Seq(Item)] /\ \A u \in Task : Len(pool'[u]) <= POOL_CAPACITY
    BY <1>1, <1>5, PoolTypes
  <2>3. QED
    BY <1>1, <2>1, <2>2 DEF TypeOK
<1>9. RangeInv'
  BY <1>1, <1>4, <1>5, <1>7, AloneRange
<1>10. Pending(t)' = Pending(t)
  BY <1>1, <1>4, <1>6, <1>7, PendingIs, PendingPrime
<1>11. Works(t)
  BY <1>1, <1>7, <1>10, AloneOthers DEF Works
<1>12. QED
  BY <1>8, <1>9, <1>11

\* When the body returns its range leaves the pool, and all others are kept or, in a
\* cancelled group, given up.
LEMMA EndBodyWorks ==
  ASSUME TypeOK, RangeInv, NEW t \in Task, EndBody(t)
  PROVE  TypeOK' /\ RangeInv' /\ Works(t)
<1> DEFINE q == Rest(t)
           next == IF q = <<>> THEN "folding" ELSE "balancing"
<1>1. /\ state[t] = "body" /\ pool' = [pool EXCEPT ![t] = q]
      /\ state' = [state EXCEPT ![t] = next]
      /\ folding' = [folding EXCEPT ![t] = IF q = <<>> THEN parent[t] ELSE @]
      /\ UNCHANGED <<range, partition, parent, above, ref_count, child_stolen, my_array,
                     m_wait, begun, cancelled, returned>>
  BY DEF EndBody
<1>2. GoodPool(pool[t], t, partition[t].max_depth) /\ t \in Int /\ pool[t] \in Seq(Item)
  BY TypeOf DEF RangeInv
<1>3. GoodPool(q, t, partition[t].max_depth)
  <2>1. CASE pool[t] = <<>> \/ cancelled
    BY <2>1, EmptyPoolIsGood DEF Rest
  <2>2. CASE ~ (pool[t] = <<>> \/ cancelled)
    BY <1>2, <2>2, PopBack DEF Rest
  <2>3. QED
    BY <2>1, <2>2
<1>4. Pending(t) = IF pool[t] = <<>> THEN {} ELSE Held(Front(pool[t]))
  BY <1>1, PendingIs
<1>5. Held(q) \subseteq Pending(t) /\ (cancelled \/ Held(q) = Pending(t))
  <2>1. CASE pool[t] = <<>> \/ cancelled
    <3>1. Held(q) = {}
      BY <2>1, EmptyPoolIsGood DEF Rest
    <3>2. QED
      BY <1>4, <2>1, <3>1
  <2>2. CASE ~ (pool[t] = <<>> \/ cancelled)
    BY <1>4, <2>2 DEF Rest
  <2>3. QED
    BY <2>1, <2>2
<1> HIDE DEF q
<1>6. /\ state'[t] = next /\ pool'[t] = q /\ range'[t] = range[t]
      /\ partition'[t] = partition[t] /\ Alone(t)
  BY <1>1 DEF TypeOK, Alone
<1>7. TypeOK'
  <2>1. state' \in [Task -> State]
    BY <1>1 DEF TypeOK, State
  <2>2. pool' \in [Task -> Seq(Item)] /\ \A u \in Task : Len(pool'[u]) <= POOL_CAPACITY
    BY <1>1, <1>3, PoolTypes
  <2>3. folding' \in [Task -> Node]
    BY <1>1, TypeOf DEF TypeOK
  <2>4. QED
    BY <1>1, <2>1, <2>2, <2>3 DEF TypeOK
<1>8. RangeInv'
  BY <1>1, <1>3, <1>6, AloneRange
<1>9. Pending(t)' = Held(q)
  <2>1. q \in Seq(Item)
    BY <1>3 DEF GoodPool
  <2>2. CASE q = <<>>
    BY <1>6, <2>1, <2>2, PendingPrime, EmptyPoolIsGood
  <2>3. CASE q # <<>>
    BY <1>6, <2>1, <2>3, PendingPrime
  <2>4. QED
    BY <2>2, <2>3
<1>10. next # "body" /\ next # "none"
  OBVIOUS
<1>11. Works(t)
  BY <1>1, <1>5, <1>6, <1>9, <1>10, AloneOthers DEF Works
<1>12. QED
  BY <1>7, <1>8, <1>11

\* The loop goes on with its pool, or gives it up in a cancelled group.
LEMMA ContinueWorks ==
  ASSUME TypeOK, RangeInv, NEW t \in Task, Continue(t)
  PROVE  TypeOK' /\ RangeInv' /\ Works(t)
<1> DEFINE q == IF cancelled THEN <<>> ELSE pool[t]
           next == IF cancelled THEN "folding" ELSE "balancing"
<1>1. /\ state[t] = "continuing" /\ pool' = [pool EXCEPT ![t] = q]
      /\ state' = [state EXCEPT ![t] = next]
      /\ folding' = [folding EXCEPT ![t] = IF cancelled THEN parent[t] ELSE @]
      /\ UNCHANGED <<range, partition, parent, above, ref_count, child_stolen, my_array,
                     m_wait, begun, cancelled, returned>>
  BY DEF Continue, TypeOK
<1>2. /\ GoodPool(pool[t], t, partition[t].max_depth) /\ pool[t] # <<>>
      /\ pool[t] \in Seq(Item)
  BY <1>1, TypeOf DEF RangeInv
<1>3. GoodPool(q, t, partition[t].max_depth) /\ (next = "balancing" => q # <<>>)
  BY <1>2, EmptyPoolIsGood
<1>4. Held(q) \subseteq Pending(t) /\ (cancelled \/ Held(q) = Pending(t))
  BY <1>1, PendingIs, EmptyPoolIsGood
<1>5. next = "folding" => q = <<>>
  OBVIOUS
<1>6. next \in {"folding", "balancing"}
  OBVIOUS
<1> HIDE DEF q, next
<1>7. /\ state'[t] = next /\ pool'[t] = q /\ range'[t] = range[t]
      /\ partition'[t] = partition[t] /\ Alone(t)
  BY <1>1 DEF TypeOK, Alone
<1>8. TypeOK'
  <2>1. state' \in [Task -> State]
    BY <1>1, <1>6 DEF TypeOK, State
  <2>2. pool' \in [Task -> Seq(Item)] /\ \A u \in Task : Len(pool'[u]) <= POOL_CAPACITY
    BY <1>1, <1>3, PoolTypes
  <2>3. folding' \in [Task -> Node]
    BY <1>1, TypeOf DEF TypeOK
  <2>4. QED
    BY <1>1, <2>1, <2>2, <2>3 DEF TypeOK
<1>9. RangeInv'
  BY <1>1, <1>3, <1>6, <1>7, AloneRange
<1>10. Pending(t)' = Held(q)
  BY <1>3, <1>5, <1>6, <1>7, PendingPrime, EmptyPoolIsGood DEF GoodPool
<1>11. Works(t)
  BY <1>1, <1>4, <1>6, <1>7, <1>10, AloneOthers DEF Works
<1>12. QED
  BY <1>8, <1>9, <1>11

\* A body that throws gives up what its task held, and cancels the group.
LEMMA ThrowWorks ==
  ASSUME TypeOK, RangeInv, NEW t \in Task, Throw(t)
  PROVE  TypeOK' /\ RangeInv' /\ Works(t)
<1>1. /\ state[t] = "body" /\ state' = [state EXCEPT ![t] = "thrown"]
      /\ pool' = [pool EXCEPT ![t] = <<>>] /\ cancelled' = TRUE
      /\ UNCHANGED <<range, partition, parent, above, ref_count, child_stolen, folding,
                     my_array, m_wait, begun, returned>>
  BY DEF Throw
<1>2. GoodPool(<<>>, t, partition[t].max_depth) /\ <<>> \in Seq(Item)
  BY EmptyPoolIsGood
<1>3. /\ state'[t] = "thrown" /\ pool'[t] = <<>> /\ range'[t] = range[t]
      /\ partition'[t] = partition[t] /\ Alone(t)
  BY <1>1 DEF TypeOK, Alone
<1>4. TypeOK'
  <2>1. state' \in [Task -> State]
    BY <1>1 DEF TypeOK, State
  <2>2. pool' \in [Task -> Seq(Item)] /\ \A u \in Task : Len(pool'[u]) <= POOL_CAPACITY
    BY <1>1, <1>2, PoolTypes
  <2>3. QED
    BY <1>1, <2>1, <2>2 DEF TypeOK
<1>5. RangeInv'
  BY <1>1, <1>2, <1>3, AloneRange
<1>6. Pending(t)' = {}
  BY <1>2, <1>3, PendingPrime
<1>7. Works(t)
  BY <1>1, <1>3, <1>6, AloneOthers DEF Works
<1>8. QED
  BY <1>4, <1>5, <1>7

\* A cancelled task gives up what it held.
LEMMA CancelWorks ==
  ASSUME TypeOK, RangeInv, NEW t \in Task, Cancel(t)
  PROVE  TypeOK' /\ RangeInv' /\ Works(t)
<1>1. /\ state[t] \in {"spawned", "thrown"} /\ state' = [state EXCEPT ![t] = "folding"] /\ cancelled
      /\ folding' = [folding EXCEPT ![t] = parent[t]]
      /\ UNCHANGED <<range, partition, pool, parent, above, ref_count, child_stolen,
                     my_array, m_wait, begun, cancelled, returned>>
  BY DEF Cancel
<1>2. GoodPool(pool[t], t, partition[t].max_depth) /\ pool[t] \in Seq(Item)
  BY TypeOf DEF RangeInv
<1>3. /\ state'[t] = "folding" /\ pool'[t] = pool[t] /\ range'[t] = range[t]
      /\ partition'[t] = partition[t] /\ Alone(t)
  BY <1>1 DEF TypeOK, Alone
<1>4. TypeOK'
  <2>1. state' \in [Task -> State]
    BY <1>1 DEF TypeOK, State
  <2>2. folding' \in [Task -> Node]
    BY <1>1, TypeOf DEF TypeOK
  <2>3. QED
    BY <1>1, <2>1, <2>2 DEF TypeOK
<1>5. RangeInv'
  BY <1>1, <1>2, <1>3, AloneRange
<1>6. Pending(t)' = {}
  BY <1>2, <1>3, PendingPrime
<1>7. Works(t)
  BY <1>1, <1>3, <1>6, AloneOthers DEF Works
<1>8. QED
  BY <1>4, <1>5, <1>7

\* A task that folds holds nothing.
LEMMA FoldWorks ==
  ASSUME TypeOK, RangeInv, NEW t \in Task, Fold(t)
  PROVE  RangeInv' /\ Works(t)
<1> DEFINE next == IF GoesOn(t) THEN "folding" ELSE "dead"
<1>1. /\ state[t] = "folding" /\ state' = [state EXCEPT ![t] = next]
      /\ UNCHANGED <<range, partition, pool, parent, above, child_stolen, my_array,
                     begun, cancelled, returned>>
  BY DEF Fold
<1>2. GoodPool(pool[t], t, partition[t].max_depth) /\ pool[t] \in Seq(Item)
  BY TypeOf DEF RangeInv
<1>3. /\ state'[t] = next /\ pool'[t] = pool[t] /\ range'[t] = range[t]
      /\ partition'[t] = partition[t] /\ Alone(t)
  BY <1>1 DEF TypeOK, Alone
<1>4. next \in {"folding", "dead"}
  OBVIOUS
<1> HIDE DEF next
<1>5. RangeInv'
  BY <1>1, <1>2, <1>3, <1>4, AloneRange
<1>6. Pending(t)' = {} /\ Pending(t) = {}
  BY <1>1, <1>2, <1>3, <1>4, PendingPrime, PendingIs
<1>7. Works(t)
  BY <1>1, <1>3, <1>4, <1>6, AloneOthers DEF Works
<1>8. QED
  BY <1>5, <1>7

\* The pool of a balancing task after split_to_fill.
Filled(t) == split_to_fill(pool[t], partition[t].max_depth)

Offering(t) == InDemand(t) /\ Len(Filled(t)) > 1

\* split_to_fill keeps what a balancing task holds.
LEMMA FilledIsGood ==
  ASSUME TypeOK, RangeInv, NEW t \in Task, state[t] = "balancing"
  PROVE  /\ Filled(t) # <<>> /\ GoodPool(Filled(t), t, partition[t].max_depth)
         /\ Filled(t) \in Seq(Item) /\ Len(Filled(t)) \in Nat \ {0}
         /\ Pending(t) = Held(Filled(t))
<1>1. pool[t] # <<>> /\ GoodPool(pool[t], t, partition[t].max_depth)
  BY DEF RangeInv
<1>2. partition[t].max_depth \in Nat /\ t \in Int
  BY TypeOf
<1>3. /\ Filled(t) # <<>> /\ GoodPool(Filled(t), t, partition[t].max_depth)
      /\ Held(Filled(t)) = Held(pool[t])
  BY <1>1, <1>2, SplitToFill DEF Filled
<1>4. Filled(t) \in Seq(Item)
  BY <1>3 DEF GoodPool
<1>5. Len(Filled(t)) \in Nat \ {0}
  BY <1>3, <1>4
<1>6. QED
  BY <1>3, <1>4, <1>5, PendingIs

\* The two outcomes of a turn of the loop over the pool.
LEMMA BalanceCases ==
  ASSUME NEW t \in Task, Balance(t)
  PROVE  LET f == Filled(t)
             p == AfterDemand(t)
             c == Head(f).range[1]
         IN
         /\ state[t] = "balancing"
         /\ UNCHANGED <<child_stolen, folding, my_array, m_wait, cancelled, returned>>
         /\ \/ /\ Offering(t)
               /\ Offer(t, c, "continuing")
               /\ range' = [range EXCEPT ![c] = Head(f).range]
               /\ partition' = [partition EXCEPT ![t] = SplitSource(p),
                                  ![c] = [SplitChild(p) EXCEPT !.max_depth = @ - Head(f).depth]]
               /\ pool' = [pool EXCEPT ![t] = Tail(f)]
               /\ begun' = begun
            \/ /\ ~ Offering(t)
               /\ partition' = [partition EXCEPT ![t] = p]
               /\ pool' = [pool EXCEPT ![t] = f]
               /\ \/ /\ state' = [state EXCEPT ![t] = "continuing"]
                     /\ begun' = begun
                  \/ /\ state' = [state EXCEPT ![t] = "body"]
                     /\ begun' = begun \cup Elements(Last(f).range)
               /\ UNCHANGED <<range, parent, above, ref_count>>
BY DEF Balance, Offering, Filled, pop_front

\* A turn of the pool's loop without an offer keeps what the task holds, or begins the
\* body on the range at the back.
LEMMA BalanceWorks ==
  ASSUME TypeOK, RangeInv, NEW t \in Task, Balance(t), ~ Offering(t)
  PROVE  TypeOK' /\ RangeInv' /\ Works(t)
<1> DEFINE f == Filled(t)
           p == AfterDemand(t)
<1>1. /\ state[t] = "balancing"
      /\ UNCHANGED <<child_stolen, folding, my_array, m_wait, cancelled, returned,
                     range, parent, above, ref_count>>
      /\ partition' = [partition EXCEPT ![t] = p]
      /\ pool' = [pool EXCEPT ![t] = f]
      /\ \/ /\ state' = [state EXCEPT ![t] = "continuing"]
            /\ begun' = begun
         \/ /\ state' = [state EXCEPT ![t] = "body"]
            /\ begun' = begun \cup Elements(Last(f).range)
  BY BalanceCases
<1>2. /\ f # <<>> /\ GoodPool(f, t, partition[t].max_depth)
      /\ f \in Seq(Item) /\ Len(f) \in Nat \ {0} /\ Pending(t) = Held(f)
  BY <1>1, FilledIsGood
<1>3. p \in Partition /\ p.max_depth >= partition[t].max_depth
  BY DemandParts
<1>4. p.max_depth \in Nat /\ partition[t].max_depth \in Nat /\ t \in Int
  BY <1>3, TypeOf DEF Partition
<1> HIDE DEF f, p
<1>5. GoodPool(f, t, p.max_depth)
  BY <1>2, <1>3, <1>4, GoodPoolDeeper
<1>6. pool'[t] = f /\ range'[t] = range[t] /\ partition'[t] = p /\ Alone(t)
  BY <1>1 DEF TypeOK, Alone
<1>7. /\ Held(f) = Held(Front(f)) \cup Elements(f[Len(f)].range)
      /\ Held(Front(f)) \cap Elements(f[Len(f)].range) = {}
      /\ Elements(f[Len(f)].range) # {}
  BY <1>2, <1>4, PopBack
<1>8. Chunk(t)' = Elements(f[Len(f)].range) /\ Last(f) = f[Len(f)]
  BY <1>2, <1>6, PendingPrime DEF Last
<1>9. CASE /\ state' = [state EXCEPT ![t] = "continuing"]
           /\ begun' = begun
  <2>1. state'[t] = "continuing"
    BY <1>9 DEF TypeOK
  <2>2. TypeOK'
    <3>1. state' \in [Task -> State]
      BY <1>9 DEF TypeOK, State
    <3>2. pool' \in [Task -> Seq(Item)] /\ \A u \in Task : Len(pool'[u]) <= POOL_CAPACITY
      BY <1>1, <1>2, PoolTypes
    <3>3. partition' \in [Task -> Partition]
      BY <1>1, <1>3 DEF TypeOK
    <3>4. QED
      BY <1>1, <1>9, <3>1, <3>2, <3>3 DEF TypeOK
  <2>3. RangeInv'
    BY <1>1, <1>2, <1>5, <1>6, <2>1, AloneRange
  <2>4. Pending(t)' = Pending(t)
    BY <1>2, <1>6, <2>1, PendingPrime
  <2>5. Works(t)
    BY <1>1, <1>6, <1>9, <2>1, <2>4, AloneOthers DEF Works
  <2>6. QED
    BY <2>2, <2>3, <2>5
<1>10. CASE /\ state' = [state EXCEPT ![t] = "body"]
            /\ begun' = begun \cup Elements(Last(f).range)
  <2>1. state'[t] = "body"
    BY <1>10 DEF TypeOK
  <2>2. Pending(t)' = Held(Front(f))
    BY <1>2, <1>6, <2>1, PendingPrime
  <2>3. TypeOK'
    <3>1. state' \in [Task -> State]
      BY <1>10 DEF TypeOK, State
    <3>2. pool' \in [Task -> Seq(Item)] /\ \A u \in Task : Len(pool'[u]) <= POOL_CAPACITY
      BY <1>1, <1>2, PoolTypes
    <3>3. partition' \in [Task -> Partition]
      BY <1>1, <1>3 DEF TypeOK
    <3>4. begun' \subseteq Index
      <4>1. \A x \in Pending(t) : x \in Index
        BY PendingRange
      <4>2. QED
        BY <1>2, <1>7, <1>8, <1>10, <4>1 DEF TypeOK
    <3>5. QED
      BY <1>1, <3>1, <3>2, <3>3, <3>4 DEF TypeOK
  <2>4. RangeInv'
    BY <1>1, <1>2, <1>5, <1>6, <2>1, AloneRange
  <2>5. Works(t)
    <3>1. begun' = begun \cup Chunk(t)' /\ Pending(t) = Pending(t)' \cup Chunk(t)'
          /\ Pending(t)' \cap Chunk(t)' = {} /\ Chunk(t)' # {}
      BY <1>2, <1>7, <1>8, <1>10, <2>2
    <3>2. QED
      BY <1>1, <1>6, <2>1, <3>1, AloneOthers DEF Works
  <2>6. QED
    BY <2>3, <2>4, <2>5
<1>11. QED
  BY <1>1, <1>9, <1>10

\* Where the splitting loop cuts the range of t, and what becomes of its partition object.
SplitAt(t) ==
  IF PARTITIONER = "auto" THEN Middle(range[t])
                          ELSE ProportionalMiddle(range[t], AfterIsDivisible(partition[t]).divisor)

Kept(t) ==
  LET p == AfterIsDivisible(partition[t])
  IN  IF PARTITIONER = "auto" THEN SplitSource(p) ELSE ProportionalSource(p)

Given(t) ==
  LET p == AfterIsDivisible(partition[t])
  IN  IF PARTITIONER = "auto" THEN SplitChild(p) ELSE ProportionalChild(p)

\* A task of the affinity partitioner that splits has at least two times FACTOR slots.
LEMMA SplitIsWhole ==
  ASSUME TypeOK, PartitionInv, NEW t \in Task, CanSplit(t), PARTITIONER = "affinity"
  PROVE  /\ AfterIsDivisible(partition[t]) = partition[t]
         /\ Whole(partition[t].divisor) /\ partition[t].divisor > FACTOR
<1>1. partition[t].divisor > FACTOR /\ AfterIsDivisible(partition[t]) = partition[t]
  BY DEF CanSplit, PartitionDivisible, AfterIsDivisible
<1>2. Whole(partition[t].divisor) \/ partition[t].divisor < FACTOR
  BY DEF PartitionInv
<1>3. partition[t].divisor \in Nat
  BY TypeOf
<1>4. QED
  BY <1>1, <1>2, <1>3, Constants

\* The splitting loop cuts inside the range and makes two partition objects.
LEMMA SplitValues ==
  ASSUME TypeOK, PartitionInv, NEW t \in Task, CanSplit(t)
  PROVE  /\ Kept(t) \in Partition /\ Given(t) \in Partition
         /\ SplitAt(t) \in 0 .. N
         /\ range[t][1] < SplitAt(t) /\ SplitAt(t) < range[t][2]
<1>1. partition[t] \in Partition /\ range[t] \in (0 .. N) \X (0 .. N)
  BY TypeOf
<1>2. is_divisible(range[t]) /\ PartitionDivisible(partition[t])
  BY DEF CanSplit
<1>3. CASE PARTITIONER = "auto"
  <2>1. AfterIsDivisible(partition[t]) \in Partition
    BY <1>1, <1>2, DivisibleParts
  <2>2. Kept(t) \in Partition /\ Given(t) \in Partition
    BY <1>3, <2>1, SplitParts DEF Kept, Given
  <2>3. SplitAt(t) = Middle(range[t])
    BY <1>3 DEF SplitAt
  <2>4. QED
    BY <1>1, <1>2, <2>2, <2>3, MiddleInside
<1>4. CASE PARTITIONER = "affinity"
  <2>1. /\ AfterIsDivisible(partition[t]) = partition[t]
        /\ Whole(partition[t].divisor) /\ partition[t].divisor > FACTOR
        /\ partition[t].divisor \in Nat
    BY <1>4, SplitIsWhole, TypeOf
  <2>2. Kept(t) = ProportionalSource(partition[t]) /\ Given(t) = ProportionalChild(partition[t])
        /\ SplitAt(t) = ProportionalMiddle(range[t], partition[t].divisor)
    BY <1>4, <2>1 DEF Kept, Given, SplitAt
  <2>3. Kept(t) \in Partition /\ Given(t) \in Partition
    BY <1>1, <2>1, <2>2, ProportionalSplitParts
  <2>4. QED
    BY <1>1, <1>2, <2>1, <2>2, <2>3, ProportionalMiddleInside
<1>5. QED
  BY <1>3, <1>4, Constants

\* The types of what offer_work changes.
LEMMA OfferTypes ==
  ASSUME TypeOK, NEW t \in Task, NEW c \in Task, c # t,
         NEW next \in {"splitting", "continuing"}, Offer(t, c, next)
  PROVE  /\ state' \in [Task -> State] /\ above' \in [Node -> Node]
         /\ ref_count' \in [Node -> 0 .. 2] /\ parent' \in [Task -> Node]
         /\ state'[c] = "spawned" /\ state'[t] = next
         /\ \A u \in Task : u # c /\ u # t => state'[u] = state[u]
<1>1. state' \in [Task -> State]
  BY DEF Offer, TypeOK, State
<1>2. above' \in [Node -> Node]
  BY DEF Offer, TypeOK, Task, Node
<1>3. ref_count' \in [Node -> 0 .. 2]
  <2>1. ref_count' = [ref_count EXCEPT ![c] = 2] /\ ref_count \in [Node -> 0 .. 2]
    BY DEF Offer, TypeOK, tree_node_ref_count
  <2>2. 2 \in 0 .. 2
    OBVIOUS
  <2>3. QED
    BY <2>1, <2>2, Zenon
<1>4. parent' \in [Task -> Node]
  BY DEF Offer, TypeOK, Task, Node
<1>5. /\ state'[c] = "spawned" /\ state'[t] = next
      /\ \A u \in Task : u # c /\ u # t => state'[u] = state[u]
  BY DEF Offer, TypeOK
<1>6. QED
  BY <1>1, <1>2, <1>3, <1>4, <1>5

\* A turn of the splitting loop makes a task of the right part of the range.
LEMMA SplitRangeShares ==
  ASSUME TypeOK, RangeInv, FreshInv, PartitionInv, NEW t \in Task, SplitRange(t)
  PROVE  /\ TypeOK' /\ RangeInv' /\ state[t] = "splitting" /\ CanSplit(t) /\ pool' = pool
         /\ UNCHANGED <<child_stolen, folding, my_array, m_wait, returned>>
         /\ \E c \in Task :
              /\ Shares(t, c)
              /\ partition' = [partition EXCEPT ![t] = Kept(t), ![c] = Given(t)]
<1>0. PICK c : c = SplitAt(t)
  OBVIOUS
<1>1. /\ state[t] = "splitting" /\ CanSplit(t)
      /\ Offer(t, c, "splitting")
      /\ range' = [range EXCEPT ![t] = <<@[1], c>>, ![c] = <<c, range[t][2]>>]
      /\ partition' = [partition EXCEPT ![t] = Kept(t), ![c] = Given(t)]
      /\ UNCHANGED <<pool, child_stolen, folding, my_array, m_wait, begun, cancelled, returned>>
  BY <1>0 DEF SplitRange, SplitAt, Kept, Given
<1>2. /\ Kept(t) \in Partition /\ Given(t) \in Partition
      /\ c \in 0 .. N /\ range[t][1] < c /\ c < range[t][2]
  BY <1>0, <1>1, SplitValues
<1>3. /\ range[t] \in (0 .. N) \X (0 .. N) /\ range[t][1] = t /\ range[t][2] \in 0 .. N
      /\ t \in Int /\ pool[t] = <<>> /\ GoodPool(pool[t], t, partition[t].max_depth)
  BY <1>1, TypeOf DEF RangeInv
<1>4. c \in Task /\ t < c /\ c # t
  BY <1>2, <1>3, Constants DEF Task, Index
<1>5. Pending(t) = Elements(range[t])
  BY <1>1, PendingIs
<1>6. c \in Pending(t)
  BY <1>2, <1>3, <1>5, ElementsMember
<1>7. state[c] = "none"
  BY <1>4, <1>6 DEF FreshInv
<1>8. pool[c] = <<>>
  BY <1>4, <1>7 DEF RangeInv
<1>9. /\ state'[c] = "spawned" /\ state'[t] = "splitting"
      /\ \A u \in Task : u # c /\ u # t => state'[u] = state[u]
      /\ state' \in [Task -> State] /\ above' \in [Node -> Node]
      /\ ref_count' \in [Node -> 0 .. 2] /\ parent' \in [Task -> Node]
  BY <1>1, <1>4, OfferTypes
<1>10. /\ range'[t] = <<t, c>> /\ range'[c] = <<c, range[t][2]>>
       /\ \A u \in Task : u # t /\ u # c => range'[u] = range[u]
  BY <1>1, <1>3, <1>4 DEF TypeOK
<1>11. \A u \in Task : u # t /\ u # c => partition'[u] = partition[u]
  BY <1>1, <1>4 DEF TypeOK
<1>12. <<t, c>> \in (0 .. N) \X (0 .. N) /\ <<c, range[t][2]>> \in (0 .. N) \X (0 .. N)
  BY <1>2, <1>3, TypeOf
<1>13. TypeOK'
  <2>1. range' \in [Task -> (0 .. N) \X (0 .. N)]
    BY <1>1, <1>3, <1>12 DEF TypeOK
  <2>2. partition' \in [Task -> Partition]
    BY <1>1, <1>2 DEF TypeOK
  <2>3. QED
    BY <1>1, <1>9, <2>1, <2>2 DEF TypeOK
<1>14. RangeInv'
  <2> SUFFICES ASSUME NEW u \in Task
               PROVE  /\ range'[u][1] = u
                      /\ state'[u] # "none" => u < range'[u][2]
                      /\ state'[u] \in {"none", "spawned", "splitting"} => pool'[u] = <<>>
                      /\ state'[u] \in {"balancing", "continuing"} => pool'[u] # <<>>
                      /\ GoodPool(pool'[u], u, partition'[u].max_depth)
    BY DEF RangeInv, GoodPool
  <2>1. CASE u = t
    <3>1. GoodPool(pool'[u], u, partition'[u].max_depth)
      BY <1>1, <1>3, <2>1, EmptyPoolIsGood
    <3>2. range'[u][1] = t /\ range'[u][2] = c
      BY <1>10, <2>1
    <3>3. state'[u] = "splitting" /\ pool'[u] = <<>>
      BY <1>1, <1>3, <1>4, <1>9, <2>1
    <3>4. QED
      BY <1>4, <2>1, <3>1, <3>2, <3>3
  <2>2. CASE u = c
    <3>1. GoodPool(pool'[u], u, partition'[u].max_depth)
      BY <1>1, <1>8, <2>2, EmptyPoolIsGood
    <3>2. range'[u][1] = c /\ range'[u][2] = range[t][2]
      BY <1>10, <2>2
    <3>3. state'[u] = "spawned" /\ pool'[u] = <<>>
      BY <1>1, <1>4, <1>8, <1>9, <2>2
    <3>4. QED
      BY <1>2, <2>2, <3>1, <3>2, <3>3
  <2>3. CASE u # t /\ u # c
    BY <1>1, <1>9, <1>10, <1>11, <2>3 DEF RangeInv
  <2>4. QED
    BY <2>1, <2>2, <2>3
<1>15. Pending(t)' = Elements(<<t, c>>) /\ Pending(c)' = Elements(<<c, range[t][2]>>)
  <2> DEFINE a == <<t, c>>
             b == <<c, range[t][2]>>
  <2>0. range'[t] = a /\ range'[c] = b
    BY <1>10
  <2> HIDE DEF a, b
  <2>1. pool'[t] \in Seq(Item) /\ pool'[c] \in Seq(Item)
    BY <1>1, <1>3, <1>8, EmptyPoolIsGood
  <2>2. state'[t] = "splitting" /\ state'[c] = "spawned"
    BY <1>1, <1>4, <1>9
  <2>3. Pending(t)' = Elements(range'[t])
    BY <2>1, <2>2, PendingPrime
  <2>4. Pending(c)' = Elements(range'[c])
    BY <2>1, <2>2, PendingPrime
  <2>5. Pending(t)' = Elements(a) /\ Pending(c)' = Elements(b)
    BY <2>0, <2>3, <2>4
  <2>6. QED
    BY <2>5 DEF a, b
<1>16. \A u \in Task : u # t /\ u # c => Pending(u)' = Pending(u) /\ Chunk(u)' = Chunk(u)
  BY <1>1, <1>9, <1>10, OthersSame
<1>17. \A x : /\ x \in Pending(t) <=> x \in Int /\ t <= x /\ x < range[t][2]
              /\ x \in Pending(t)' <=> x \in Int /\ t <= x /\ x < c
              /\ x \in Pending(c)' <=> x \in Int /\ c <= x /\ x < range[t][2]
  BY <1>3, <1>5, <1>12, <1>15, ElementsMember
<1>18. Shares(t, c)
  <2>1. Pending(t) = Pending(t)' \cup Pending(c)'
    <3>1. c \in Int /\ range[t][2] \in Int /\ t \in Int
      BY <1>2, <1>3
    <3>2. \A x \in Int : /\ (t <= x /\ x < range[t][2]) <=>
                            ((t <= x /\ x < c) \/ (c <= x /\ x < range[t][2]))
      BY <1>2, <1>3, <3>1
    <3>3. QED
      BY <1>17, <3>2
  <2>2. Pending(t)' \cap Pending(c)' = {}
    BY <1>2, <1>17
  <2>3. c \in Pending(c)' /\ t \notin Pending(c)'
    BY <1>2, <1>3, <1>4, <1>17
  <2>4. QED
    BY <1>1, <1>4, <1>6, <1>16, <2>1, <2>2, <2>3 DEF Shares, After
<1>19. QED
  BY <1>1, <1>4, <1>13, <1>14, <1>18

\* What the balancing task keeps of its partition object, and what it gives with the front range.
OfferKept(t)  == SplitSource(AfterDemand(t))
OfferGiven(t) == [SplitChild(AfterDemand(t)) EXCEPT !.max_depth = @ - Head(Filled(t)).depth]
OfferAt(t)    == Head(Filled(t)).range[1]

\* The partition objects after an offer: the depth the front range already has is taken
\* from the child's, which has at least as much (partitioner.h, align_depth).
LEMMA OfferParts ==
  ASSUME TypeOK, RangeInv, NEW t \in Task, state[t] = "balancing", Len(Filled(t)) > 1
  PROVE  LET p == AfterDemand(t) IN
         /\ OfferKept(t) \in Partition /\ OfferGiven(t) \in Partition
         /\ OfferKept(t).divisor = HalfDivisor(p) /\ OfferGiven(t).divisor = HalfDivisor(p)
         /\ OfferKept(t).max_depth >= partition[t].max_depth
         /\ OfferKept(t).head = partition[t].head
         /\ OfferGiven(t).head = (partition[t].head + HalfDivisor(p)) % Slots
<1> DEFINE p == AfterDemand(t)
           f == Filled(t)
           e == Head(f).depth
           g == SplitChild(p)
<1>1. p \in Partition /\ p.max_depth >= partition[t].max_depth /\ p.head = partition[t].head
  BY DemandParts
<1>2. GoodPool(f, t, partition[t].max_depth) /\ t \in Int /\ partition[t].max_depth \in Nat
  BY FilledIsGood, TypeOf
<1>3. e \in Nat /\ e <= partition[t].max_depth
  BY <1>2, FrontIsFurther
<1>4. p.max_depth - e \in Nat
  BY <1>1, <1>2, <1>3 DEF Partition
<1> HIDE DEF p, f
<1>5. /\ SplitSource(p) \in Partition /\ g \in Partition
      /\ SplitSource(p).divisor = HalfDivisor(p) /\ g.divisor = HalfDivisor(p)
      /\ SplitSource(p).max_depth = p.max_depth /\ g.max_depth = p.max_depth
      /\ SplitSource(p).head = p.head /\ g.head = (p.head + HalfDivisor(p)) % Slots
  BY <1>1, SplitParts
<1>6. OfferKept(t) = SplitSource(p) /\ OfferGiven(t) = [g EXCEPT !.max_depth = g.max_depth - e]
  BY DEF OfferKept, OfferGiven, p, f
<1> HIDE DEF g, e
<1>7. g.divisor \in Nat /\ g.delay \in {"begin", "pass"} /\ g.head \in 0 .. Slots - 1
  BY <1>5 DEF Partition
<1>8. OfferGiven(t) = [divisor |-> g.divisor, max_depth |-> p.max_depth - e,
                       delay |-> g.delay, head |-> g.head]
  BY <1>5, <1>6 DEF Partition
<1>9. OfferGiven(t) \in Partition
  BY <1>4, <1>7, <1>8, PartitionRecord
<1>10. QED
  BY <1>1, <1>5, <1>6, <1>8, <1>9 DEF p

\* An offer makes a task of the range at the front of the pool.
LEMMA BalanceShares ==
  ASSUME TypeOK, RangeInv, FreshInv, NEW t \in Task, Balance(t), Offering(t)
  PROVE  /\ TypeOK' /\ RangeInv' /\ state[t] = "balancing" /\ Len(Filled(t)) > 1
         /\ pool' = [pool EXCEPT ![t] = Tail(Filled(t))]
         /\ UNCHANGED <<child_stolen, folding, my_array, m_wait, returned>>
         /\ \E c \in Task :
              /\ Shares(t, c)
              /\ partition' = [partition EXCEPT ![t] = OfferKept(t), ![c] = OfferGiven(t)]
<1>0. PICK c : c = OfferAt(t)
  OBVIOUS
<1> DEFINE f == Filled(t)
           q == Tail(f)
           r == f[1].range
<1>1. /\ state[t] = "balancing" /\ Len(f) > 1
      /\ Offer(t, c, "continuing")
      /\ range' = [range EXCEPT ![c] = Head(f).range]
      /\ partition' = [partition EXCEPT ![t] = OfferKept(t), ![c] = OfferGiven(t)]
      /\ pool' = [pool EXCEPT ![t] = q]
      /\ UNCHANGED <<child_stolen, folding, my_array, m_wait, begun, cancelled, returned>>
  BY <1>0, BalanceCases DEF Offering, OfferAt, OfferKept, OfferGiven
<1>2. /\ f # <<>> /\ GoodPool(f, t, partition[t].max_depth)
      /\ f \in Seq(Item) /\ Len(f) \in Nat \ {0} /\ Pending(t) = Held(f)
  BY <1>1, FilledIsGood
<1>3. /\ t \in Int /\ t \in Nat /\ partition[t].max_depth \in Nat /\ range[t][1] = t /\ t < range[t][2]
      /\ range[t] \in (0 .. N) \X (0 .. N)
  BY <1>1, TypeOf DEF RangeInv
<1>4. /\ Head(f) = f[1] /\ f[1] \in Item /\ r \in (0 .. N) \X (0 .. N)
      /\ t < r[1] /\ r[1] < r[2]
  BY <1>1, <1>2, <1>3, FrontIsFurther
<1>5. c = r[1]
  BY <1>0, <1>4 DEF OfferAt
<1>6. /\ GoodPool(q, t, partition[t].max_depth) /\ q # <<>>
      /\ Held(f) = Elements(r) \cup Held(q)
      /\ Elements(r) \cap Held(q) = {}
  <2> DEFINE h == Head(f)
  <2>1. Len(f) # 1 /\ h.range = r
    BY <1>1, <1>2, <1>4
  <2> HIDE DEF f, r
  <2>2. /\ GoodPool(q, t, partition[t].max_depth) /\ (q = <<>> <=> Len(f) = 1)
        /\ Held(f) = Elements(h.range) \cup Held(q)
        /\ Elements(h.range) \cap Held(q) = {}
    BY <1>2, <1>3, PopFront
  <2> HIDE DEF h, q
  <2>3. QED
    BY <2>1, <2>2
<1>7. /\ OfferKept(t) \in Partition /\ OfferGiven(t) \in Partition
      /\ OfferKept(t).max_depth >= partition[t].max_depth /\ OfferKept(t).max_depth \in Nat
  BY <1>1, OfferParts DEF Partition
<1> HIDE DEF f, q, r
<1>8. c \in Task /\ t < c /\ c # t
  <2>1. r[1] \in Int /\ r[2] \in Int /\ r[2] <= N
    BY <1>4, Constants
  <2>2. QED
    BY <1>3, <1>4, <1>5, <2>1, Constants DEF Task, Index
<1>9. c \in Elements(r) /\ t \notin Elements(r)
  BY <1>3, <1>4, <1>5, ElementsMember
<1>10. c \in Pending(t)
  BY <1>2, <1>6, <1>9
<1>11. state[c] = "none"
  BY <1>8, <1>10 DEF FreshInv
<1>12. pool[c] = <<>>
  BY <1>8, <1>11 DEF RangeInv
<1>13. /\ state'[c] = "spawned" /\ state'[t] = "continuing"
       /\ \A u \in Task : u # c /\ u # t => state'[u] = state[u]
       /\ state' \in [Task -> State] /\ above' \in [Node -> Node]
       /\ ref_count' \in [Node -> 0 .. 2] /\ parent' \in [Task -> Node]
  BY <1>1, <1>8, OfferTypes
<1>14. /\ range'[c] = r /\ \A u \in Task : u # c => range'[u] = range[u]
  BY <1>1, <1>4, <1>8 DEF TypeOK, r
<1>15. /\ partition'[t] = OfferKept(t) /\ \A u \in Task : u # t /\ u # c => partition'[u] = partition[u]
  BY <1>1, <1>8 DEF TypeOK
<1>16. pool'[t] = q /\ \A u \in Task : u # t => pool'[u] = pool[u]
  BY <1>1 DEF TypeOK
<1>17. TypeOK'
  <2>1. range' \in [Task -> (0 .. N) \X (0 .. N)]
    BY <1>1, <1>4 DEF TypeOK, r
  <2>2. partition' \in [Task -> Partition]
    BY <1>1, <1>7 DEF TypeOK
  <2>3. pool' \in [Task -> Seq(Item)] /\ \A u \in Task : Len(pool'[u]) <= POOL_CAPACITY
    BY <1>1, <1>6, PoolTypes
  <2>4. QED
    BY <1>1, <1>13, <2>1, <2>2, <2>3 DEF TypeOK
<1>18. RangeInv'
  <2> SUFFICES ASSUME NEW u \in Task
               PROVE  /\ range'[u][1] = u
                      /\ state'[u] # "none" => u < range'[u][2]
                      /\ state'[u] \in {"none", "spawned", "splitting"} => pool'[u] = <<>>
                      /\ state'[u] \in {"balancing", "continuing"} => pool'[u] # <<>>
                      /\ GoodPool(pool'[u], u, partition'[u].max_depth)
    BY DEF RangeInv, GoodPool
  <2>1. CASE u = t
    <3>1. GoodPool(q, t, OfferKept(t).max_depth)
      BY <1>3, <1>6, <1>7, GoodPoolDeeper
    <3>2. QED
      BY <1>1, <1>3, <1>6, <1>8, <1>13, <1>14, <1>15, <1>16, <2>1, <3>1
  <2>2. CASE u = c
    <3>1. GoodPool(pool'[u], u, partition'[u].max_depth)
      BY <1>8, <1>12, <1>16, <2>2, EmptyPoolIsGood
    <3>2. QED
      BY <1>4, <1>5, <1>8, <1>12, <1>13, <1>14, <1>16, <2>2, <3>1
  <2>3. CASE u # t /\ u # c
    BY <1>13, <1>14, <1>15, <1>16, <2>3 DEF RangeInv
  <2>4. QED
    BY <2>1, <2>2, <2>3
<1>19. Pending(t)' = Held(q) /\ Pending(c)' = Elements(r)
  <2>1. pool'[t] \in Seq(Item) /\ pool'[c] \in Seq(Item)
    BY <1>6, <1>8, <1>12, <1>16, EmptyPoolIsGood DEF GoodPool
  <2>2. state'[t] = "continuing" /\ state'[c] = "spawned"
    BY <1>13
  <2>3. Pending(t)' = Held(pool'[t])
    BY <2>1, <2>2, PendingPrime
  <2>4. Pending(c)' = Elements(range'[c])
    BY <2>1, <2>2, PendingPrime
  <2>5. QED
    BY <1>14, <1>16, <2>3, <2>4
<1>20. \A u \in Task : u # t /\ u # c => Pending(u)' = Pending(u) /\ Chunk(u)' = Chunk(u)
  BY <1>13, <1>14, <1>16, OthersSame
<1>21. Shares(t, c)
  <2>1. Pending(t) = Pending(t)' \cup Pending(c)' /\ Pending(t)' \cap Pending(c)' = {}
    BY <1>2, <1>6, <1>19
  <2>2. c \in Pending(c)' /\ t \notin Pending(c)'
    BY <1>9, <1>19
  <2>3. QED
    BY <1>1, <1>8, <1>10, <1>20, <2>1, <2>2 DEF Shares, After
<1>22. QED
  BY <1>1, <1>8, <1>17, <1>18, <1>21 DEF f, q

-------------------------------------------------------------------------------
(* The tree of nodes and its counts.                                       *)

\* The node that a task has a reference to, and who has one to a node.
At(t) == IF state[t] = "folding" THEN folding[t] ELSE parent[t]

Holders(n) == {t \in Task : Live(t) /\ n = At(t)}

Below(n) == {e \in Node \ {WaitNode} : ref_count[e] > 0 /\ above[e] = n}

\* CountsAreReferences in the terms of these proofs ...
LEMMA CountsMeaning ==
  CountsAreReferences <=>
    \A n \in Node : ref_count[n] = Cardinality(Holders(n)) + Cardinality(Below(n))
BY DEF CountsAreReferences, Holders, Below, At

\* ... and after a step.
LEMMA CountsMeaningPrime ==
  CountsAreReferences' <=>
    \A n \in Node : ref_count'[n] = Cardinality(Holders(n)') + Cardinality(Below(n)')
BY DEF CountsAreReferences, Holders, Below, At, Live

\* Sets of tasks are finite.
LEMMA SubsetOfTasks ==
  ASSUME NEW S, S \subseteq Task
  PROVE  IsFiniteSet(S) /\ Cardinality(S) \in Nat /\ (Cardinality(S) = 0 <=> S = {})
<1>1. IsFiniteSet(Task)
  BY Constants, FS_Interval DEF Task, Index
<1>2. IsFiniteSet(S)
  BY <1>1, FS_Subset
<1>3. QED
  BY <1>2, FS_CardinalityType, FS_EmptySet

\* Who holds a node with none, one or more references.
LEMMA HoldersAndBelow ==
  ASSUME TypeOK, CountsAreReferences, NEW n \in Node
  PROVE  /\ Holders(n) \subseteq Task /\ Below(n) \subseteq Task
         /\ Cardinality(Holders(n)) \in Nat /\ Cardinality(Below(n)) \in Nat
         /\ ref_count[n] = Cardinality(Holders(n)) + Cardinality(Below(n))
         /\ ref_count[n] = 0 => Holders(n) = {} /\ Below(n) = {}
         /\ ref_count[n] = 1 => \/ Cardinality(Holders(n)) = 1 /\ Below(n) = {}
                                \/ Holders(n) = {} /\ Cardinality(Below(n)) = 1
<1>1. Holders(n) \subseteq Task /\ Below(n) \subseteq Task
  BY DEF Holders, Below, Task, Node
<1>2. /\ Cardinality(Holders(n)) \in Nat /\ Cardinality(Below(n)) \in Nat
      /\ Cardinality(Holders(n)) = 0 <=> Holders(n) = {}
      /\ Cardinality(Below(n)) = 0 <=> Below(n) = {}
  BY <1>1, SubsetOfTasks
<1>3. ref_count[n] = Cardinality(Holders(n)) + Cardinality(Below(n))
  BY CountsMeaning
<1>4. QED
  BY <1>1, <1>2, <1>3

\* A task that is not done holds a node that exists.
LEMMA LiveIsHeld ==
  ASSUME TypeOK, CountsAreReferences, NEW t \in Task, Live(t)
  PROVE  At(t) \in Node /\ t \in Holders(At(t)) /\ ref_count[At(t)] > 0
<1>1. At(t) \in Node
  BY TypeOf DEF At
<1>2. t \in Holders(At(t))
  BY DEF Holders
<1>3. ref_count[At(t)] # 0
  BY <1>1, <1>2, HoldersAndBelow
<1>4. ref_count[At(t)] \in 0 .. 2
  BY <1>1 DEF TypeOK
<1>5. QED
  BY <1>1, <1>2, <1>3, <1>4

\* One more holder ...
LEMMA AddOne ==
  ASSUME NEW S, S \subseteq Task, NEW x \in Task, x \notin S
  PROVE  Cardinality(S \cup {x}) = Cardinality(S) + 1
<1>1. IsFiniteSet(S)
  BY SubsetOfTasks
<1>2. QED
  BY <1>1, FS_AddElement

\* ... and one less.
LEMMA TakeOne ==
  ASSUME NEW S, S \subseteq Task, NEW x \in S
  PROVE  Cardinality(S \ {x}) = Cardinality(S) - 1
<1>1. IsFiniteSet(S)
  BY SubsetOfTasks
<1>2. QED
  BY <1>1, FS_RemoveElement

\* A step that leaves the references alone.
Still ==
  /\ \A u \in Task : (Live(u)' <=> Live(u)) /\ At(u)' = At(u)
  /\ UNCHANGED <<ref_count, above, m_wait>>
  /\ \A u \in Task : state[u] # "none" => state'[u] # "none"

\* A step that moves no reference keeps the tree.
LEMMA StillKeeps ==
  ASSUME TypeOK, CountsAreReferences, NodeInv, Still, returned' = returned
  PROVE  CountsAreReferences' /\ NodeInv'
<1>1. \A n \in Node : Holders(n)' = Holders(n) /\ Below(n)' = Below(n)
  BY DEF Still, Holders, Below
<1>2. CountsAreReferences'
  BY <1>1, CountsMeaning, CountsMeaningPrime DEF Still
<1>3. TreeNodes' = TreeNodes
  BY DEF Still, TreeNodes
<1>4. NodeInv'
  BY <1>3 DEF NodeInv, Still, TreeNodes, Task, Node
<1>5. QED
  BY <1>2, <1>4

\* offer_work: the reference of t moves to the new node, which takes its place below
\* what was the parent of t.
LEMMA OfferKeepsTree ==
  ASSUME TypeOK, CountsAreReferences, NodeInv, NEW t \in Task, NEW c \in Task, c # t,
         state[t] \in {"splitting", "balancing"}, state[c] = "none", c # WaitNode,
         Offer(t, c, After(t)), UNCHANGED <<folding, m_wait, returned>>
  PROVE  CountsAreReferences' /\ NodeInv'
<1> DEFINE p == parent[t]
<1>1. /\ state' = [state EXCEPT ![c] = "spawned", ![t] = After(t)]
      /\ above' = [above EXCEPT ![c] = p]
      /\ ref_count' = [ref_count EXCEPT ![c] = 2]
      /\ parent' = [parent EXCEPT ![c] = c, ![t] = c]
      /\ UNCHANGED <<folding, m_wait, returned>>
  BY DEF Offer, tree_node_ref_count
<1>2. /\ state'[c] = "spawned" /\ parent'[c] = c /\ parent'[t] = c
      /\ state'[t] \in {"splitting", "continuing"}
      /\ \A u \in Task : u # c /\ u # t => state'[u] = state[u] /\ parent'[u] = parent[u]
  BY <1>1 DEF TypeOK, After
<1>3. /\ c \in Node /\ p \in Node
      /\ above'[c] = p /\ ref_count'[c] = 2
      /\ \A d \in Node : d # c => above'[d] = above[d] /\ ref_count'[d] = ref_count[d]
  BY <1>1, TypeOf DEF TypeOK, Task, Node
<1>4. ref_count[c] = 0
  <2>1. c \notin TreeNodes
    BY DEF NodeInv
  <2>2. ref_count[c] \in 0 .. 2
    BY <1>3 DEF TypeOK
  <2>3. QED
    BY <1>3, <2>1, <2>2 DEF TreeNodes
<1>5. Holders(c) = {} /\ Below(c) = {}
  BY <1>3, <1>4, HoldersAndBelow
<1>6. Live(t) /\ At(t) = p
  BY DEF Live, At
<1>7. t \in Holders(p) /\ ref_count[p] > 0
  BY <1>6, LiveIsHeld
<1>8. p # c
  BY <1>4, <1>7
<1> HIDE DEF p
<1>9. /\ Live(t)' /\ At(t)' = c /\ Live(c)' /\ At(c)' = c
      /\ \A u \in Task : u # t /\ u # c => (Live(u)' <=> Live(u)) /\ At(u)' = At(u)
      /\ ~ Live(c)
  BY <1>1, <1>2 DEF Live, At
<1>10. CountsAreReferences'
  <2> SUFFICES ASSUME NEW n \in Node
               PROVE  ref_count'[n] = Cardinality(Holders(n)') + Cardinality(Below(n)')
    BY CountsMeaningPrime
  <2>0. ref_count[n] = Cardinality(Holders(n)) + Cardinality(Below(n))
        /\ Cardinality(Holders(n)) \in Nat /\ Cardinality(Below(n)) \in Nat
        /\ Holders(n) \subseteq Task /\ Below(n) \subseteq Task
    BY HoldersAndBelow
  <2>1. CASE n = c
    <3>1. Holders(n)' = {t, c}
      <4>1. \A u \in Task : u # t /\ u # c => ~ (Live(u) /\ c = At(u))
        BY <1>5 DEF Holders
      <4>2. QED
        BY <1>9, <2>1, <4>1 DEF Holders
    <3>2. Below(n)' = {}
      <4>1. \A e \in Node \ {WaitNode} : e # c => ~ (ref_count[e] > 0 /\ above[e] = c)
        BY <1>5 DEF Below
      <4>2. QED
        BY <1>3, <1>8, <2>1, <4>1 DEF Below
    <3>3. Cardinality({t, c}) = 2
      <4>1. Cardinality({t}) = 1 /\ {t, c} = {t} \cup {c}
        BY FS_Singleton
      <4>2. Cardinality({t} \cup {c}) = Cardinality({t}) + 1
        BY AddOne
      <4>3. QED
        BY <4>1, <4>2
    <3>4. Cardinality({}) = 0
      BY FS_EmptySet
    <3>5. QED
      BY <1>3, <2>1, <3>1, <3>2, <3>3, <3>4
  <2>2. CASE n = p
    <3>1. Holders(n)' = Holders(n) \ {t}
      BY <1>8, <1>9, <2>2 DEF Holders
    <3>2. Below(n)' = Below(n) \cup {c} /\ c \notin Below(n)
      <4>1. c \notin Below(n)
        BY <1>4 DEF Below
      <4>2. c \in Node \ {WaitNode} /\ ref_count'[c] > 0
        BY <1>3
      <4>3. QED
        BY <1>3, <2>2, <4>1, <4>2 DEF Below
    <3>3. Cardinality(Holders(n) \ {t}) = Cardinality(Holders(n)) - 1
      BY <1>7, <2>0, <2>2, TakeOne
    <3>4. Cardinality(Below(n) \cup {c}) = Cardinality(Below(n)) + 1
      BY <2>0, <3>2, AddOne
    <3>5. ref_count'[n] = ref_count[n]
      BY <1>3, <1>8, <2>2
    <3>6. QED
      BY <2>0, <3>1, <3>2, <3>3, <3>4, <3>5
  <2>3. CASE n # c /\ n # p
    <3>1. Holders(n)' = Holders(n)
      BY <1>6, <1>9, <2>3 DEF Holders
    <3>2. Below(n)' = Below(n)
      <4>1. \A e \in Node : e # c => (ref_count'[e] > 0 /\ above'[e] = n <=> ref_count[e] > 0 /\ above[e] = n)
        BY <1>3
      <4>2. ~ (ref_count'[c] > 0 /\ above'[c] = n) /\ ~ (ref_count[c] > 0 /\ above[c] = n)
        BY <1>3, <1>4, <2>3
      <4>3. QED
        BY <4>1, <4>2 DEF Below
    <3>3. QED
      BY <1>3, <2>0, <2>3, <3>1, <3>2
  <2>4. QED
    BY <2>1, <2>2, <2>3
<1>11. TreeNodes' = TreeNodes \cup {c}
  <2>1. c \in Node \ {WaitNode} /\ ref_count'[c] > 0
    BY <1>3
  <2>2. QED
    BY <1>3, <2>1 DEF TreeNodes
<1>12. \A S \in SUBSET (TreeNodes') : S # {} => \E d \in S : above'[d] \notin S
  <2> SUFFICES ASSUME NEW S \in SUBSET (TreeNodes'), S # {}
               PROVE  \E d \in S : above'[d] \notin S
    OBVIOUS
  <2>1. CASE S = {c}
    BY <1>3, <1>8, <2>1
  <2>2. CASE S # {c}
    <3> DEFINE R == S \ {c}
    <3>1. R \in SUBSET TreeNodes /\ R # {}
      BY <1>11, <2>2
    <3>2. PICK d \in R : above[d] \notin R
      BY <3>1 DEF NodeInv
    <3>3. d \in Node \ {WaitNode} /\ ref_count[d] > 0 /\ d # c
      BY <3>1 DEF TreeNodes
    <3>4. above[d] # c
      BY <1>5, <3>3 DEF Below
    <3>5. above'[d] \notin S
      BY <1>3, <3>2, <3>3, <3>4
    <3>6. QED
      BY <3>5
  <2>3. QED
    BY <2>1, <2>2
<1>13. NodeInv'
  <2>1. \A d \in TreeNodes' : state'[d] # "none"
    BY <1>2, <1>11 DEF NodeInv, TreeNodes, Task, Node
  <2>2. m_wait' = IF N > 0 THEN ref_count'[WaitNode] ELSE 0
    <3>1. WaitNode \in Node => ref_count'[WaitNode] = ref_count[WaitNode]
      BY <1>3
    <3>2. N > 0 => WaitNode \in Node
      BY Constants DEF WaitNode, Node, Index
    <3>3. QED
      BY <1>1, <3>1, <3>2 DEF NodeInv
  <2>3. returned' => m_wait' = 0
    BY <1>1 DEF NodeInv
  <2>4. QED
    BY <1>12, <2>1, <2>2, <2>3 DEF NodeInv
<1>14. QED
  BY <1>10, <1>13

\* A turn of fold_tree: the reference of t goes, or moves up with the node it was the last of.
LEMMA FoldKeepsTree ==
  ASSUME TypeOK, CountsAreReferences, NodeInv, NEW t \in Task, Fold(t)
  PROVE  TypeOK' /\ CountsAreReferences' /\ NodeInv'
<1>0. PICK n, m : n = folding[t] /\ m = above[n]
  OBVIOUS
<1>1. /\ state[t] = "folding"
      /\ ref_count' = [ref_count EXCEPT ![n] = @ - 1]
      /\ state' = [state EXCEPT ![t] = IF ref_count[n] = 1 /\ n # WaitNode THEN "folding" ELSE "dead"]
      /\ folding' = [folding EXCEPT ![t] = IF ref_count[n] = 1 THEN m ELSE @]
      /\ m_wait' = IF ref_count[n] = 1 /\ n = WaitNode THEN m_wait - 1 ELSE m_wait
      /\ UNCHANGED <<range, partition, pool, parent, above, child_stolen, my_array,
                     begun, cancelled, returned>>
  <2>1. state[t] = "folding"
    BY DEF Fold
  <2>2. state' = [state EXCEPT ![t] = IF ref_count[n] = 1 /\ n # WaitNode THEN "folding" ELSE "dead"]
    BY <1>0, <2>1 DEF Fold, GoesOn
  <2>3. QED
    BY <1>0, <2>1, <2>2 DEF Fold
<1>2. Live(t) /\ At(t) = n
  BY <1>0, <1>1 DEF Live, At
<1>3. n \in Node /\ t \in Holders(n) /\ ref_count[n] > 0
  BY <1>2, LiveIsHeld
<1>4. m \in Node /\ ref_count[n] \in 0 .. 2
  BY <1>0, <1>3 DEF TypeOK
<1>5. /\ ref_count'[n] = ref_count[n] - 1
      /\ \A d \in Node : d # n => ref_count'[d] = ref_count[d]
      /\ above' = above
      /\ \A u \in Task : u # t => state'[u] = state[u] /\ folding'[u] = folding[u]
      /\ parent' = parent
  BY <1>1, <1>3 DEF TypeOK
<1>6. N > 0 /\ WaitNode \in Node
  BY <1>3, Constants DEF Node, Index, WaitNode
<1>7. m_wait = ref_count[WaitNode] /\ m_wait \in {0, 1}
  BY <1>6 DEF NodeInv, TypeOK
<1>8. m_wait' = ref_count'[WaitNode] /\ m_wait' \in {0, 1}
  <2>1. CASE n = WaitNode
    <3>1. ref_count[n] = 1
      BY <1>3, <1>7, <2>1
    <3>2. m_wait' = m_wait - 1
      BY <1>1, <2>1, <3>1
    <3>3. QED
      BY <1>5, <1>7, <2>1, <3>1, <3>2
  <2>2. CASE n # WaitNode
    BY <1>1, <1>5, <1>6, <1>7, <2>2
  <2>3. QED
    BY <2>1, <2>2
<1>9. TypeOK'
  <2>1. state' \in [Task -> State]
    BY <1>1 DEF TypeOK, State
  <2>2. ref_count' \in [Node -> 0 .. 2]
    <3>1. ref_count[n] - 1 \in 0 .. 2
      BY <1>3, <1>4
    <3>2. ref_count' = [ref_count EXCEPT ![n] = ref_count[n] - 1] /\ ref_count \in [Node -> 0 .. 2]
      BY <1>1 DEF TypeOK
    <3>3. QED
      BY <3>1, <3>2, Zenon
  <2>3. folding' \in [Task -> Node]
    BY <1>1, <1>4, TypeOf DEF TypeOK
  <2>4. QED
    BY <1>1, <1>8, <2>1, <2>2, <2>3 DEF TypeOK
<1>10. \A u \in Task : u # t => (Live(u)' <=> Live(u)) /\ At(u)' = At(u)
  BY <1>5 DEF Live, At
<1>11. TreeNodes' \subseteq TreeNodes
  <2>1. \A d \in Node : ref_count'[d] > 0 => ref_count[d] > 0
    BY <1>3, <1>5
  <2>2. QED
    BY <2>1 DEF TreeNodes
<1>12. NodeInv'
  <2>1. \A d \in TreeNodes' : state'[d] # "none"
    <3>1. \A d \in Task : state[d] # "none" => state'[d] # "none"
      <4>1. state'[t] # "none"
        BY <1>1 DEF TypeOK
      <4>2. QED
        BY <1>5, <4>1
    <3>2. QED
      BY <1>11, <3>1 DEF NodeInv, TreeNodes, Task, Node
  <2>2. \A S \in SUBSET (TreeNodes') : S # {} => \E d \in S : above'[d] \notin S
    BY <1>5, <1>11 DEF NodeInv
  <2>3. returned' => m_wait' = 0
    <3>1. returned' = returned /\ m_wait # 0 => m_wait = 1
      BY <1>7
    <3>2. returned => m_wait = 0
      BY DEF NodeInv
    <3>3. m_wait = 0 => n # WaitNode
      <4>1. n = WaitNode => m_wait > 0
        BY <1>3, <1>7
      <4>2. QED
        BY <1>7, <4>1
    <3>4. QED
      BY <1>1, <3>2, <3>3
  <2>4. QED
    BY <1>6, <1>8, <2>1, <2>2, <2>3 DEF NodeInv
<1>13. /\ ref_count[n] = Cardinality(Holders(n)) + Cardinality(Below(n))
       /\ Cardinality(Holders(n)) \in Nat /\ Cardinality(Below(n)) \in Nat
       /\ Holders(n) \subseteq Task /\ Below(n) \subseteq Task
       /\ ref_count[n] = 1 => Cardinality(Holders(n)) = 1 /\ Below(n) = {}
  BY <1>3, HoldersAndBelow
<1>14. CASE ref_count[n] # 1 \/ n = WaitNode
  <2>1. ~ Live(t)'
    BY <1>1, <1>14 DEF Live, TypeOK
  <2>2. \A k \in Node : Holders(k)' = IF k = n THEN Holders(k) \ {t} ELSE Holders(k)
    BY <1>2, <1>10, <2>1 DEF Holders
  <2>3. \A k \in Node : Below(k)' = Below(k)
    <3>1. \A e \in Node \ {WaitNode} : ref_count'[e] > 0 <=> ref_count[e] > 0
      BY <1>3, <1>4, <1>5, <1>14
    <3>2. QED
      BY <1>5, <3>1 DEF Below
  <2>4. CountsAreReferences'
    <3> SUFFICES ASSUME NEW k \in Node
                 PROVE  ref_count'[k] = Cardinality(Holders(k)') + Cardinality(Below(k)')
      BY CountsMeaningPrime
    <3>1. CASE k = n
      <4>1. Cardinality(Holders(n) \ {t}) = Cardinality(Holders(n)) - 1
        BY <1>3, <1>13, TakeOne
      <4>2. Holders(k)' = Holders(n) \ {t} /\ Below(k)' = Below(n)
        BY <2>2, <2>3, <3>1
      <4>3. QED
        BY <1>5, <1>13, <3>1, <4>1, <4>2
    <3>2. CASE k # n
      BY <1>5, <2>2, <2>3, <3>2, HoldersAndBelow
    <3>3. QED
      BY <3>1, <3>2
  <2>5. QED
    BY <1>9, <1>12, <2>4
<1>15. CASE ref_count[n] = 1 /\ n # WaitNode
  <2>1. Live(t)' /\ At(t)' = m
    BY <1>1, <1>15 DEF Live, At, TypeOK
  <2>2. n \in TreeNodes
    BY <1>3, <1>15 DEF TreeNodes
  <2>3. m # n
    <3>1. {n} \in SUBSET TreeNodes /\ {n} # {}
      BY <2>2
    <3>2. \E d \in {n} : above[d] \notin {n}
      BY <3>1 DEF NodeInv
    <3>3. QED
      BY <1>0, <3>2
  <2>4. ref_count'[n] = 0
    BY <1>5, <1>15
  <2>5. /\ Holders(n)' = Holders(n) \ {t}
        /\ Holders(m)' = Holders(m) \cup {t} /\ t \notin Holders(m)
        /\ \A k \in Node : k # n /\ k # m => Holders(k)' = Holders(k)
    <3>1. Holders(n)' = Holders(n) \ {t}
      BY <1>2, <1>10, <2>1, <2>3 DEF Holders
    <3>2. Holders(m)' = Holders(m) \cup {t} /\ t \notin Holders(m)
      <4>1. t \notin Holders(m)
        BY <1>2, <2>3 DEF Holders
      <4>2. Holders(m)' = Holders(m) \cup {t}
        BY <1>2, <1>10, <2>1, <2>3 DEF Holders
      <4>3. QED
        BY <4>1, <4>2
    <3>3. \A k \in Node : k # n /\ k # m => Holders(k)' = Holders(k)
      BY <1>2, <1>10, <2>1 DEF Holders
    <3>4. QED
      BY <3>1, <3>2, <3>3
  <2>6. /\ Below(n)' = Below(n)
        /\ n \in Below(m) /\ Below(m)' = Below(m) \ {n}
        /\ \A k \in Node : k # n /\ k # m => Below(k)' = Below(k)
    <3>1. \A e \in Node \ {WaitNode} : e # n => (ref_count'[e] > 0 <=> ref_count[e] > 0)
      BY <1>5
    <3>2. n \in Node \ {WaitNode} /\ ref_count[n] > 0 /\ above[n] = m /\ ~ (ref_count'[n] > 0)
      BY <1>0, <1>3, <1>15, <2>4
    <3>3. Below(n)' = Below(n)
      BY <1>5, <2>3, <3>1, <3>2 DEF Below
    <3>4. n \in Below(m) /\ Below(m)' = Below(m) \ {n}
      BY <1>5, <3>1, <3>2 DEF Below
    <3>5. \A k \in Node : k # n /\ k # m => Below(k)' = Below(k)
      BY <1>5, <3>1, <3>2 DEF Below
    <3>6. QED
      BY <3>3, <3>4, <3>5
  <2>7. CountsAreReferences'
    <3> SUFFICES ASSUME NEW k \in Node
                 PROVE  ref_count'[k] = Cardinality(Holders(k)') + Cardinality(Below(k)')
      BY CountsMeaningPrime
    <3>1. CASE k = n
      <4>1. Cardinality(Holders(n) \ {t}) = Cardinality(Holders(n)) - 1
        BY <1>3, <1>13, TakeOne
      <4>2. Cardinality(Below(n)) = 0
        BY <1>13, <1>15, FS_EmptySet
      <4>3. Holders(k)' = Holders(n) \ {t} /\ Below(k)' = Below(n)
        BY <2>5, <2>6, <3>1
      <4>4. QED
        BY <1>13, <1>15, <2>4, <3>1, <4>1, <4>2, <4>3
    <3>2. CASE k = m
      <4>1. /\ ref_count[m] = Cardinality(Holders(m)) + Cardinality(Below(m))
            /\ Cardinality(Holders(m)) \in Nat /\ Cardinality(Below(m)) \in Nat
            /\ Holders(m) \subseteq Task /\ Below(m) \subseteq Task
        BY <1>4, HoldersAndBelow
      <4>2. Cardinality(Holders(m) \cup {t}) = Cardinality(Holders(m)) + 1
        BY <2>5, <4>1, AddOne
      <4>3. Cardinality(Below(m) \ {n}) = Cardinality(Below(m)) - 1
        BY <2>6, <4>1, TakeOne
      <4>4. ref_count'[m] = ref_count[m]
        BY <1>4, <1>5, <2>3
      <4>5. Holders(k)' = Holders(m) \cup {t} /\ Below(k)' = Below(m) \ {n}
        BY <2>5, <2>6, <3>2
      <4>6. QED
        BY <3>2, <4>1, <4>2, <4>3, <4>4, <4>5
    <3>3. CASE k # n /\ k # m
      BY <1>5, <2>5, <2>6, <3>3, HoldersAndBelow
    <3>4. QED
      BY <3>1, <3>2, <3>3
  <2>8. QED
    BY <1>9, <1>12, <2>7
<1>16. QED
  BY <1>14, <1>15

\* The steps that neither make a task nor fold leave the tree alone.
LEMMA StillSteps ==
  ASSUME TypeOK, NEW t \in Task,
         \/ Execute(t) \/ RunWhole(t) \/ FillPool(t) \/ (Balance(t) /\ ~ Offering(t))
         \/ Continue(t) \/ EndBody(t) \/ Throw(t) \/ Cancel(t)
  PROVE  Still /\ parent' = parent /\ returned' = returned
<1> DEFINE Moves(s) == state' = [state EXCEPT ![t] = s] /\ s \in State \ {"none", "dead"}
<1>1. ASSUME UNCHANGED <<parent, folding, above, ref_count, m_wait>>,
             NEW s, Moves(s), s # "folding", Live(t), state[t] # "folding"
      PROVE  Still
  <2>1. \A u \in Task : state'[u] = IF u = t THEN s ELSE state[u]
    BY <1>1 DEF TypeOK
  <2>2. \A u \in Task : (Live(u)' <=> Live(u)) /\ At(u)' = At(u)
    BY <1>1, <2>1 DEF Live, At
  <2>3. \A u \in Task : state[u] # "none" => state'[u] # "none"
    BY <1>1, <2>1
  <2>4. QED
    BY <1>1, <2>2, <2>3 DEF Still
<1>2. ASSUME UNCHANGED <<parent, above, ref_count, m_wait>>,
             folding' = [folding EXCEPT ![t] = parent[t]],
             Moves("folding"), Live(t), state[t] # "folding"
      PROVE  Still
  <2>1. \A u \in Task : state'[u] = IF u = t THEN "folding" ELSE state[u]
    BY <1>2 DEF TypeOK
  <2>2. \A u \in Task : folding'[u] = IF u = t THEN parent[t] ELSE folding[u]
    BY <1>2 DEF TypeOK
  <2>3. \A u \in Task : (Live(u)' <=> Live(u)) /\ At(u)' = At(u)
    BY <1>2, <2>1, <2>2 DEF Live, At
  <2>4. \A u \in Task : state[u] # "none" => state'[u] # "none"
    BY <1>2, <2>1
  <2>5. QED
    BY <1>2, <2>3, <2>4 DEF Still
<1>3. CASE Execute(t)
  <2>1. /\ UNCHANGED <<parent, folding, above, ref_count, m_wait, returned>>
        /\ state[t] = "spawned" /\ state' = [state EXCEPT ![t] = "splitting"]
    BY <1>3 DEF Execute
  <2>2. Live(t) /\ Moves("splitting")
    BY <2>1 DEF Live, State
  <2>3. QED
    BY <1>1, <2>1, <2>2
<1>4. CASE RunWhole(t)
  <2>1. /\ UNCHANGED <<parent, folding, above, ref_count, m_wait, returned>>
        /\ state[t] = "splitting" /\ state' = [state EXCEPT ![t] = "body"]
    BY <1>4 DEF RunWhole
  <2>2. Live(t) /\ Moves("body")
    BY <2>1 DEF Live, State
  <2>3. QED
    BY <1>1, <2>1, <2>2
<1>5. CASE FillPool(t)
  <2>1. /\ UNCHANGED <<parent, folding, above, ref_count, m_wait, returned>>
        /\ state[t] = "splitting" /\ state' = [state EXCEPT ![t] = "balancing"]
    BY <1>5 DEF FillPool
  <2>2. Live(t) /\ Moves("balancing")
    BY <2>1 DEF Live, State
  <2>3. QED
    BY <1>1, <2>1, <2>2
<1>6. CASE Balance(t) /\ ~ Offering(t)
  <2>1. /\ UNCHANGED <<parent, folding, above, ref_count, m_wait, returned>>
        /\ state[t] = "balancing"
        /\ state' = [state EXCEPT ![t] = "continuing"] \/ state' = [state EXCEPT ![t] = "body"]
    BY <1>6, BalanceCases
  <2>2. Live(t)
    BY <2>1 DEF Live
  <2>3. CASE state' = [state EXCEPT ![t] = "continuing"]
    <3>1. Moves("continuing")
      BY <2>3 DEF State
    <3>2. QED
      BY <1>1, <2>1, <2>2, <3>1
  <2>4. CASE state' = [state EXCEPT ![t] = "body"]
    <3>1. Moves("body")
      BY <2>4 DEF State
    <3>2. QED
      BY <1>1, <2>1, <2>2, <3>1
  <2>5. QED
    BY <2>1, <2>3, <2>4
<1>10. CASE Continue(t)
  <2>1. /\ UNCHANGED <<parent, above, ref_count, m_wait, returned>>
        /\ state[t] = "continuing"
        /\ state' = [state EXCEPT ![t] = IF cancelled THEN "folding" ELSE "balancing"]
        /\ folding' = [folding EXCEPT ![t] = IF cancelled THEN parent[t] ELSE @]
    BY <1>10 DEF Continue
  <2>2. Live(t)
    BY <2>1 DEF Live
  <2>3. CASE cancelled
    <3>1. Moves("folding") /\ folding' = [folding EXCEPT ![t] = parent[t]]
      BY <2>1, <2>3 DEF State
    <3>2. QED
      BY <1>2, <2>1, <2>2, <3>1
  <2>4. CASE ~ cancelled
    <3>1. Moves("balancing") /\ folding' = folding
      BY <2>1, <2>4 DEF State, TypeOK
    <3>2. QED
      BY <1>1, <2>1, <2>2, <3>1
  <2>5. QED
    BY <2>3, <2>4
<1>7. CASE EndBody(t)
  <2>1. /\ UNCHANGED <<parent, above, ref_count, m_wait, returned>>
        /\ state[t] = "body"
        /\ state' = [state EXCEPT ![t] = IF Rest(t) = <<>> THEN "folding" ELSE "balancing"]
        /\ folding' = [folding EXCEPT ![t] = IF Rest(t) = <<>> THEN parent[t] ELSE @]
    BY <1>7 DEF EndBody
  <2>2. Live(t)
    BY <2>1 DEF Live
  <2>3. CASE Rest(t) = <<>>
    <3>1. Moves("folding") /\ folding' = [folding EXCEPT ![t] = parent[t]]
      BY <2>1, <2>3 DEF State
    <3>2. QED
      BY <1>2, <2>1, <2>2, <3>1
  <2>4. CASE Rest(t) # <<>>
    <3>1. Moves("balancing") /\ folding' = folding
      BY <2>1, <2>4 DEF State, TypeOK
    <3>2. QED
      BY <1>1, <2>1, <2>2, <3>1
  <2>5. QED
    BY <2>3, <2>4
<1>8. CASE Throw(t)
  <2>1. /\ UNCHANGED <<parent, folding, above, ref_count, m_wait, returned>>
        /\ state[t] = "body" /\ state' = [state EXCEPT ![t] = "thrown"]
    BY <1>8 DEF Throw
  <2>2. Live(t) /\ Moves("thrown")
    BY <2>1 DEF Live, State
  <2>3. QED
    BY <1>1, <2>1, <2>2
<1>9. CASE Cancel(t)
  <2>1. /\ UNCHANGED <<parent, above, ref_count, m_wait, returned>>
        /\ state[t] \in {"spawned", "thrown"} /\ state' = [state EXCEPT ![t] = "folding"]
        /\ folding' = [folding EXCEPT ![t] = parent[t]]
    BY <1>9 DEF Cancel
  <2>2. Live(t) /\ Moves("folding")
    BY <2>1 DEF Live, State
  <2>3. QED
    BY <1>2, <2>1, <2>2
<1>11. QED
  BY <1>3, <1>4, <1>5, <1>6, <1>7, <1>8, <1>9, <1>10

-------------------------------------------------------------------------------
(* The partition objects.                                                  *)

\* What PartitionInv says of one task.
PartitionOf(s, p, q, top) ==
  /\ PARTITIONER = "affinity" =>
       /\ Whole(p.divisor) \/ p.divisor < FACTOR
       /\ q # <<>> => p.divisor <= FACTOR
  /\ top =>
       /\ p.divisor >= FACTOR
       /\ PARTITIONER = "auto" =>
            /\ p.max_depth > 0
            /\ s \notin {"balancing", "continuing"}
            /\ s = "body" => q = <<>>

\* PartitionInv task by task, before and after a step.
LEMMA PartitionMeaning ==
  /\ PartitionInv <=>
       \A t \in Task : PartitionOf(state[t], partition[t], pool[t], parent[t] = WaitNode)
  /\ PartitionInv' <=>
       \A t \in Task : PartitionOf(state'[t], partition'[t], pool'[t], parent'[t] = WaitNode)
BY DEF PartitionInv, PartitionOf, Whole

\* A step of t alone that leaves it a right partition object keeps PartitionInv.
LEMMA AlonePartition ==
  ASSUME PartitionInv, NEW t \in Task, Alone(t), parent' = parent,
         PartitionOf(state'[t], partition'[t], pool'[t], parent[t] = WaitNode)
  PROVE  PartitionInv'
<1>1. \A u \in Task : PartitionOf(state[u], partition[u], pool[u], parent[u] = WaitNode)
  BY PartitionMeaning
<1>2. \A u \in Task : PartitionOf(state'[u], partition'[u], pool'[u], parent'[u] = WaitNode)
  <2> TAKE u \in Task
  <2>1. CASE u = t
    BY <2>1
  <2>2. CASE u # t
    <3>1. state'[u] = state[u] /\ partition'[u] = partition[u] /\ pool'[u] = pool[u]
      BY <2>2 DEF Alone
    <3>2. QED
      BY <1>1, <3>1
  <2>3. QED
    BY <2>1, <2>2
<1>3. QED
  BY <1>2, PartitionMeaning

\* "divisor / factor == 0" says that there are fewer slots than factor.
LEMMA FewSlots ==
  ASSUME NEW d \in Nat
  PROVE  d \div FACTOR = 0 <=> d < FACTOR
<1>1. FACTOR \in Nat \ {0}
  BY Constants
<1> DEFINE q == d \div FACTOR
           r == d % FACTOR
<1>2. q \in Nat /\ r \in Nat /\ r < FACTOR /\ d = FACTOR * q + r
  BY <1>1, Division
<1> HIDE DEF q, r
<1>3. q = 0 => d < FACTOR
  BY <1>1, <1>2
<1>4. q # 0 => d >= FACTOR
  <2> SUFFICES ASSUME q >= 1
               PROVE  d >= FACTOR
    BY <1>2
  <2>1. FACTOR * q >= FACTOR /\ FACTOR * q \in Nat
    BY <1>1, <1>2
  <2>2. QED
    BY <1>1, <1>2, <2>1
<1>5. QED
  BY <1>1, <1>2, <1>3, <1>4 DEF q

\* The steps that offer nothing keep PartitionInv.
LEMMA PartitionKeeps ==
  ASSUME TypeOK, RangeInv, PartitionInv, NEW t \in Task,
         \/ Execute(t) \/ RunWhole(t) \/ FillPool(t) \/ (Balance(t) /\ ~ Offering(t))
         \/ Continue(t) \/ EndBody(t) \/ Throw(t) \/ Cancel(t) \/ Fold(t)
  PROVE  PartitionInv'
<1> DEFINE p == partition[t]
           top == parent[t] = WaitNode
<1>1. PartitionOf(state[t], p, pool[t], top)
  BY PartitionMeaning
<1>2. p \in Partition /\ p.divisor \in Nat /\ p.max_depth \in Nat
  BY TypeOf
<1>3. /\ state[t] \in {"none", "spawned", "splitting"} => pool[t] = <<>>
      /\ state[t] \in {"balancing", "continuing"} => pool[t] # <<>>
  BY DEF RangeInv
<1> HIDE DEF p
<1>4. ASSUME NEW s, NEW q, state' = [state EXCEPT ![t] = s], pool' = [pool EXCEPT ![t] = q],
             UNCHANGED <<range, partition, parent>>,
             s \notin {"balancing", "continuing", "body"}, q # <<>> => pool[t] # <<>>
      PROVE  PartitionInv'
  <2>1. Alone(t) /\ state'[t] = s /\ pool'[t] = q /\ partition'[t] = p
    BY <1>4 DEF Alone, TypeOK, p
  <2>2. PartitionOf(s, p, q, top)
    BY <1>1, <1>4 DEF PartitionOf
  <2>3. QED
    BY <1>4, <2>1, <2>2, AlonePartition
<1>5. CASE Execute(t)
  <2>1. PICK stolen \in BOOLEAN :
          partition' = [partition EXCEPT ![t] = AfterBeingStolen(@, MarksStolen(t, stolen))]
    BY <1>5 DEF Execute
  <2>2. /\ state[t] = "spawned" /\ state' = [state EXCEPT ![t] = "splitting"]
        /\ UNCHANGED <<range, pool, parent>>
    BY <1>5 DEF Execute
  <2> DEFINE marks == MarksStolen(t, stolen)
             e == AfterBeingStolen(p, marks)
  <2>3. marks \in BOOLEAN
    BY DEF MarksStolen
  <2>4. /\ e \in Partition /\ e.max_depth >= p.max_depth
        /\ e.divisor = IF p.divisor \div FACTOR = 0 THEN 1 ELSE p.divisor
    BY <1>2, <2>3, StolenParts
  <2>5. Alone(t) /\ state'[t] = "splitting" /\ pool'[t] = pool[t] /\ partition'[t] = e
    BY <2>1, <2>2 DEF Alone, TypeOK, p
  <2> HIDE DEF e
  <2>6. e.max_depth \in Nat /\ e.divisor \in Nat
    BY <2>4 DEF Partition
  <2>7. e.divisor = IF p.divisor < FACTOR THEN 1 ELSE p.divisor
    BY <1>2, <2>4, FewSlots
  <2>8. pool[t] = <<>>
    BY <1>3, <2>2
  <2>9. PARTITIONER = "affinity" => Whole(e.divisor) \/ e.divisor < FACTOR
    <3>1. CASE p.divisor < FACTOR
      BY <2>7, <3>1, Constants
    <3>2. CASE ~ (p.divisor < FACTOR)
      BY <1>1, <2>7, <3>2 DEF PartitionOf
    <3>3. QED
      BY <3>1, <3>2
  <2>10. top => e.divisor >= FACTOR /\ (PARTITIONER = "auto" => e.max_depth > 0)
    <3>1. top => p.divisor >= FACTOR /\ (PARTITIONER = "auto" => p.max_depth > 0)
      BY <1>1 DEF PartitionOf
    <3>2. top => e.divisor = p.divisor
      BY <1>2, <2>7, <3>1, Constants
    <3>3. PARTITIONER = "auto" /\ p.max_depth > 0 => e.max_depth > 0
      BY <1>2, <2>4, <2>6
    <3>4. QED
      BY <3>1, <3>2, <3>3
  <2>11. PartitionOf("splitting", e, pool[t], top)
    BY <2>8, <2>9, <2>10 DEF PartitionOf
  <2>12. QED
    BY <2>2, <2>5, <2>11, AlonePartition
<1>6. CASE RunWhole(t)
  <2>1. /\ state[t] = "splitting" /\ state' = [state EXCEPT ![t] = "body"]
        /\ UNCHANGED <<range, pool, partition, parent>>
    BY <1>6 DEF RunWhole
  <2>2. Alone(t) /\ state'[t] = "body" /\ pool'[t] = pool[t] /\ partition'[t] = p
    BY <2>1 DEF Alone, TypeOK, p
  <2>3. PartitionOf("body", p, pool[t], top)
    BY <1>1, <1>3, <2>1 DEF PartitionOf
  <2>4. QED
    BY <2>1, <2>2, <2>3, AlonePartition
<1>7. CASE FillPool(t)
  <2>1. /\ state[t] = "splitting" /\ state' = [state EXCEPT ![t] = "balancing"]
        /\ UNCHANGED <<range, partition, parent>>
        /\ ~ CanSplit(t) /\ is_divisible(range[t])
    BY <1>7 DEF FillPool
  <2>2. Alone(t) /\ state'[t] = "balancing" /\ partition'[t] = p
    BY <1>7, <2>1 DEF Alone, TypeOK, p, FillPool
  <2>3. ~ PartitionDivisible(p)
    BY <2>1 DEF CanSplit, p
  <2>4. PARTITIONER = "affinity" => p.divisor <= FACTOR
    BY <1>2, <2>3, Constants DEF PartitionDivisible
  <2>5. PARTITIONER = "auto" => ~ top
    <3>1. SUFFICES ASSUME PARTITIONER = "auto", top
                   PROVE  FALSE
      OBVIOUS
    <3>2. p.divisor >= FACTOR /\ p.max_depth > 0
      BY <1>1, <3>1 DEF PartitionOf
    <3>3. ~ (p.divisor > 1) /\ p.divisor # 1
      BY <2>3, <3>1, <3>2 DEF PartitionDivisible
    <3>4. FACTOR = 1
      BY <3>1, Constants
    <3>5. QED
      BY <1>2, <3>2, <3>3, <3>4
  <2>6. PartitionOf("balancing", p, pool'[t], top)
    BY <1>1, <2>4, <2>5 DEF PartitionOf
  <2>7. QED
    BY <2>1, <2>2, <2>6, AlonePartition
<1>8. CASE Balance(t) /\ ~ Offering(t)
  <2> DEFINE e == AfterDemand(t)
             f == Filled(t)
  <2>1. /\ state[t] = "balancing"
        /\ state' = [state EXCEPT ![t] = "continuing"] \/ state' = [state EXCEPT ![t] = "body"]
        /\ partition' = [partition EXCEPT ![t] = e] /\ pool' = [pool EXCEPT ![t] = f]
        /\ UNCHANGED <<range, parent>>
    BY <1>8, BalanceCases
  <2>2. /\ e \in Partition
        /\ e.divisor = p.divisor \/ (p.divisor = 1 /\ e.divisor = 0)
    BY DemandParts DEF p
  <2> HIDE DEF e, f
  <2>3. Alone(t) /\ pool'[t] = f /\ partition'[t] = e
    BY <2>1 DEF Alone, TypeOK
  <2>4. PARTITIONER = "auto" => ~ top
    BY <1>1, <2>1 DEF PartitionOf
  <2>5. PARTITIONER = "affinity" => p.divisor <= FACTOR /\ (Whole(p.divisor) \/ p.divisor < FACTOR)
    BY <1>1, <1>3, <2>1 DEF PartitionOf
  <2>6. e.divisor \in Nat
    BY <2>2 DEF Partition
  <2>7. PARTITIONER = "affinity" => e.divisor <= FACTOR /\ (Whole(e.divisor) \/ e.divisor < FACTOR)
    <3>1. CASE e.divisor = p.divisor
      BY <2>5, <3>1
    <3>2. CASE e.divisor = 0
      BY <3>2, Constants
    <3>3. QED
      BY <2>2, <3>1, <3>2
  <2>8. top => e.divisor >= FACTOR
    <3>1. top => p.divisor >= FACTOR /\ FACTOR > 1
      BY <1>1, <2>4, Constants DEF PartitionOf
    <3>2. QED
      BY <1>2, <2>2, <3>1, Constants
  <2>9. PartitionOf(state'[t], e, f, top)
    BY <2>4, <2>7, <2>8, Constants DEF PartitionOf
  <2>10. QED
    BY <2>1, <2>3, <2>9, AlonePartition
<1>9. CASE EndBody(t)
  <2> DEFINE q == Rest(t)
  <2>1. /\ state[t] = "body"
        /\ state' = [state EXCEPT ![t] = IF q = <<>> THEN "folding" ELSE "balancing"]
        /\ pool' = [pool EXCEPT ![t] = q]
        /\ UNCHANGED <<range, partition, parent>>
    BY <1>9 DEF EndBody
  <2>2. q # <<>> => pool[t] # <<>>
    BY DEF Rest
  <2> HIDE DEF q
  <2>3. CASE q = <<>>
    <3> DEFINE s == "folding"
    <3>1. state' = [state EXCEPT ![t] = s] /\ s \notin {"balancing", "continuing", "body"}
      BY <2>1, <2>3
    <3> HIDE DEF s
    <3>2. QED
      BY <1>4, <2>1, <2>2, <3>1
  <2>4. CASE q # <<>>
    <3>1. Alone(t) /\ state'[t] = "balancing" /\ pool'[t] = q /\ partition'[t] = p
      BY <2>1, <2>4 DEF Alone, TypeOK, p
    <3>2. PartitionOf("balancing", p, q, top)
      BY <1>1, <2>1, <2>2, <2>4 DEF PartitionOf
    <3>3. QED
      BY <2>1, <3>1, <3>2, AlonePartition
  <2>5. QED
    BY <2>3, <2>4
<1>13. CASE Continue(t)
  <2> DEFINE q == IF cancelled THEN <<>> ELSE pool[t]
  <2>1. /\ state[t] = "continuing"
        /\ state' = [state EXCEPT ![t] = IF cancelled THEN "folding" ELSE "balancing"]
        /\ pool' = [pool EXCEPT ![t] = q]
        /\ UNCHANGED <<range, partition, parent>>
    BY <1>13 DEF Continue
  <2>2. q # <<>> => pool[t] # <<>>
    OBVIOUS
  <2> HIDE DEF q
  <2>3. CASE cancelled
    <3> DEFINE s == "folding"
    <3>1. state' = [state EXCEPT ![t] = s] /\ s \notin {"balancing", "continuing", "body"}
      BY <2>1, <2>3
    <3> HIDE DEF s
    <3>2. QED
      BY <1>4, <2>1, <2>2, <3>1
  <2>4. CASE ~ cancelled
    <3>1. Alone(t) /\ state'[t] = "balancing" /\ pool'[t] = q /\ partition'[t] = p
      BY <2>1, <2>4 DEF Alone, TypeOK, p
    <3>2. PartitionOf("balancing", p, q, top)
      BY <1>1, <2>1, <2>2 DEF PartitionOf
    <3>3. QED
      BY <2>1, <3>1, <3>2, AlonePartition
  <2>5. QED
    BY <2>3, <2>4
<1>10. CASE Throw(t)
  <2> DEFINE s == "thrown"
             q == <<>>
  <2>1. /\ state' = [state EXCEPT ![t] = s] /\ pool' = [pool EXCEPT ![t] = q]
        /\ UNCHANGED <<range, partition, parent>>
        /\ s \notin {"balancing", "continuing", "body"} /\ (q # <<>> => pool[t] # <<>>)
    BY <1>10 DEF Throw
  <2> HIDE DEF s, q
  <2>2. QED
    BY <1>4, <2>1
<1>11. CASE Cancel(t)
  <2> DEFINE s == "folding"
  <2>1. /\ state' = [state EXCEPT ![t] = s] /\ pool' = [pool EXCEPT ![t] = pool[t]]
        /\ UNCHANGED <<range, partition, parent>>
        /\ s \notin {"balancing", "continuing", "body"}
    BY <1>11 DEF Cancel, TypeOK
  <2> HIDE DEF s
  <2>2. QED
    BY <1>4, <2>1
<1>12. CASE Fold(t)
  <2> DEFINE s == IF GoesOn(t) THEN "folding" ELSE "dead"
  <2>1. /\ state' = [state EXCEPT ![t] = s] /\ pool' = [pool EXCEPT ![t] = pool[t]]
        /\ UNCHANGED <<range, partition, parent>>
    BY <1>12 DEF Fold, TypeOK
  <2>2. s \notin {"balancing", "continuing", "body"}
    OBVIOUS
  <2> HIDE DEF s
  <2>3. QED
    BY <1>4, <2>1, <2>2
<1>14. QED
  BY <1>5, <1>6, <1>7, <1>8, <1>9, <1>10, <1>11, <1>12, <1>13

\* The partition objects of the two tasks after an offer.
LEMMA SharesPartition ==
  ASSUME TypeOK, RangeInv, FreshInv, PartitionInv, RangeInv', NEW t \in Task, NEW c \in Task,
         Shares(t, c), NEW kept \in Partition, NEW given \in Partition,
         partition' = [partition EXCEPT ![t] = kept, ![c] = given],
         \A u \in Task : u # t => pool'[u] = pool[u],
         PARTITIONER = "affinity" =>
           /\ Whole(kept.divisor) \/ kept.divisor < FACTOR
           /\ Whole(given.divisor) \/ given.divisor < FACTOR
           /\ pool'[t] # <<>> => kept.divisor <= FACTOR
  PROVE  PartitionInv'
<1>1. /\ state[c] = "none" /\ state'[c] = "spawned"
      /\ \A u \in Task : u # c /\ u # t => state'[u] = state[u]
  BY SharesIsFresh
<1>2. /\ c # t /\ c \in Pending(t)
      /\ parent' = [parent EXCEPT ![c] = c, ![t] = c]
  BY DEF Shares, Offer
<1>3. c # WaitNode
  <2>1. t <= c /\ t \in Nat /\ c \in Nat
    BY <1>2, PendingRange DEF Task, Index
  <2>2. QED
    BY <1>2, <2>1 DEF WaitNode
<1>4. /\ parent'[c] = c /\ parent'[t] = c
      /\ \A u \in Task : u # c /\ u # t => parent'[u] = parent[u]
  BY <1>2 DEF TypeOK
<1>5. /\ partition'[t] = kept /\ partition'[c] = given
      /\ \A u \in Task : u # c /\ u # t => partition'[u] = partition[u]
  BY <1>2 DEF TypeOK
<1>6. pool'[c] = <<>>
  BY <1>1 DEF RangeInv
<1>7. \A u \in Task : PartitionOf(state'[u], partition'[u], pool'[u], parent'[u] = WaitNode)
  <2> TAKE u \in Task
  <2>1. CASE u = t
    <3>1. PartitionOf(state'[u], kept, pool'[t], FALSE)
      BY DEF PartitionOf
    <3>2. QED
      BY <1>3, <1>4, <1>5, <2>1, <3>1
  <2>2. CASE u = c
    <3>1. PartitionOf(state'[u], given, <<>>, FALSE)
      BY DEF PartitionOf
    <3>2. QED
      BY <1>3, <1>4, <1>5, <1>6, <2>2, <3>1
  <2>3. CASE u # t /\ u # c
    BY <1>1, <1>4, <1>5, <2>3, PartitionMeaning
  <2>4. QED
    BY <2>1, <2>2, <2>3
<1>8. QED
  BY <1>7, PartitionMeaning

-------------------------------------------------------------------------------
(* The slots of the affinity array.                                        *)

\* Two steps around the array are one of both lengths.
LEMMA SlotShift ==
  ASSUME NEW h \in Nat, NEW a \in Nat, NEW b \in Nat
  PROVE  (((h + a) % Slots) + b) % Slots = (h + (a + b)) % Slots
<1> DEFINE S == Slots
           q == (h + a) \div S
           r == (h + a) % S
           v == (r + b) \div S
           w == (r + b) % S
<1>1. S \in Nat \ {0}
  BY SlotsPositive
<1> HIDE DEF S
<1>2. q \in Nat /\ r \in Nat /\ r < S /\ h + a = S * q + r
  <2>1. h + a \in Nat
    OBVIOUS
  <2>2. QED
    BY <1>1, <2>1, Division
<1> HIDE DEF q, r
<1>3. v \in Nat /\ w \in Nat /\ w < S /\ r + b = S * v + w
  <2>1. r + b \in Nat
    BY <1>2
  <2>2. QED
    BY <1>1, <2>1, Division
<1> HIDE DEF v, w
<1>4. h + (a + b) = S * (q + v) + w
  <2>1. S * (q + v) = S * q + S * v /\ S * q \in Nat /\ S * v \in Nat
    BY <1>1, <1>2, <1>3
  <2>2. QED
    BY <1>2, <1>3, <2>1
<1>5. (h + (a + b)) % S = w
  <2>1. h + (a + b) \in Nat /\ q + v \in Nat
    BY <1>2, <1>3
  <2>2. QED
    BY <1>1, <1>3, <1>4, <2>1, QuotientUnique
<1>6. QED
  BY <1>5 DEF S, r, w

\* Fewer steps than the array is long lead to different slots.
LEMMA SlotsDiffer ==
  ASSUME NEW h \in Nat, NEW i \in 0 .. Slots - 1, NEW j \in 0 .. Slots - 1, i # j
  PROVE  (h + i) % Slots # (h + j) % Slots
<1> DEFINE S == Slots
           q == (h + i) \div S
           r == (h + i) % S
           v == (h + j) \div S
           w == (h + j) % S
<1>1. S \in Nat \ {0}
  BY SlotsPositive
<1>2. i \in Nat /\ j \in Nat /\ i < S /\ j < S /\ h + i \in Nat /\ h + j \in Nat
  BY <1>1
<1> HIDE DEF S
<1>3. q \in Nat /\ r \in Nat /\ r < S /\ h + i = S * q + r
  BY <1>1, <1>2, Division
<1>4. v \in Nat /\ w \in Nat /\ w < S /\ h + j = S * v + w
  BY <1>1, <1>2, Division
<1> HIDE DEF q, r, v, w
<1>5. SUFFICES ASSUME r = w
               PROVE  FALSE
  BY DEF r, w, S
<1>6. i - j = S * q - S * v /\ S * q \in Nat /\ S * v \in Nat
  <2>1. S * q \in Nat /\ S * v \in Nat
    BY <1>1, <1>3, <1>4
  <2>2. QED
    BY <1>2, <1>3, <1>4, <1>5, <2>1
<1>7. CASE q = v
  BY <1>2, <1>6, <1>7
<1>8. CASE q < v
  <2>1. S * q + S <= S * v
    <3>1. S * (q + 1) <= S * v /\ S * (q + 1) = S * q + S
      BY <1>1, <1>3, <1>4, <1>8
    <3>2. QED
      BY <3>1
  <2>2. QED
    BY <1>1, <1>2, <1>6, <2>1
<1>9. CASE v < q
  <2>1. S * v + S <= S * q
    <3>1. S * (v + 1) <= S * q /\ S * (v + 1) = S * v + S
      BY <1>1, <1>3, <1>4, <1>9
    <3>2. QED
      BY <3>1
  <2>2. QED
    BY <1>1, <1>2, <1>6, <2>1
<1>10. QED
  BY <1>3, <1>4, <1>7, <1>8, <1>9

\* The slots that a task with this partition object has from the i-th on.
From(p, i) == {Slot(p, j) : j \in i .. p.divisor - 1}

\* The slots a task may still note or give away, before and after a step.
LEMMA GivingMeaning ==
  ASSUME NEW t
  PROVE  /\ Giving(t) = From(partition[t], IF state[t] = "spawned" THEN 0 ELSE 1)
         /\ Giving(t)' = From(partition'[t], IF state'[t] = "spawned" THEN 0 ELSE 1)
BY DEF Giving, From, Slot

\* With fewer slots left, or beginning further on, a task has no others.
LEMMA FromShrinks ==
  ASSUME NEW p, NEW q, p.head = q.head, p.divisor \in Nat, q.divisor \in Nat,
         q.divisor <= p.divisor, NEW i \in Nat, NEW j \in Nat, i <= j
  PROVE  From(q, j) \subseteq From(p, i)
<1>1. \A k \in j .. q.divisor - 1 : k \in i .. p.divisor - 1
  OBVIOUS
<1>2. \A k : Slot(q, k) = Slot(p, k)
  BY DEF Slot
<1>3. QED
  BY <1>1, <1>2 DEF From

\* What SlotInv says when the state is known to use the affinity partitioner.
LEMMA SlotMeaning ==
  ASSUME PARTITIONER = "affinity"
  PROVE  /\ SlotInv <=>
              /\ \A t \in Task : partition[t].divisor <= Slots
              /\ \A t \in Task : state[t] # "none" => \A s \in Giving(t) : my_array[s] = NoTask
              /\ \A t, u \in Task : t # u /\ state[t] # "none" /\ state[u] # "none" =>
                                      Giving(t) \cap Giving(u) = {}
         /\ SlotInv' <=>
              /\ \A t \in Task : partition'[t].divisor <= Slots
              /\ \A t \in Task : state'[t] # "none" => \A s \in Giving(t)' : my_array'[s] = NoTask
              /\ \A t, u \in Task : t # u /\ state'[t] # "none" /\ state'[u] # "none" =>
                                      Giving(t)' \cap Giving(u)' = {}
BY DEF SlotInv

\* A step after which nobody has more slots, and those that are left are not noted.
LEMMA SlotsShrink ==
  ASSUME SlotInv, PARTITIONER = "affinity",
         \A u \in Task : /\ partition'[u].divisor <= Slots
                         /\ state'[u] # "none" => state[u] # "none" /\ Giving(u)' \subseteq Giving(u),
         \A u \in Task : state'[u] # "none" => \A s \in Giving(u)' : my_array'[s] = my_array[s]
  PROVE  SlotInv'
<1>1. /\ \A t \in Task : state[t] # "none" => \A s \in Giving(t) : my_array[s] = NoTask
      /\ \A t, u \in Task : t # u /\ state[t] # "none" /\ state[u] # "none" =>
                              Giving(t) \cap Giving(u) = {}
  BY SlotMeaning
<1>2. \A t \in Task : state'[t] # "none" => \A s \in Giving(t)' : my_array'[s] = NoTask
  BY <1>1
<1>3. \A t, u \in Task : t # u /\ state'[t] # "none" /\ state'[u] # "none" =>
                           Giving(t)' \cap Giving(u)' = {}
  <2> SUFFICES ASSUME NEW t \in Task, NEW u \in Task, t # u, state'[t] # "none", state'[u] # "none"
               PROVE  Giving(t)' \cap Giving(u)' = {}
    OBVIOUS
  <2>1. Giving(t) \cap Giving(u) = {} /\ Giving(t)' \subseteq Giving(t) /\ Giving(u)' \subseteq Giving(u)
    BY <1>1
  <2>2. QED
    BY <2>1
<1>4. QED
  BY <1>2, <1>3, SlotMeaning

\* A step of t alone that gains it no slot keeps SlotInv.
LEMMA AloneSlots ==
  ASSUME TypeOK, SlotInv, PARTITIONER = "affinity", NEW t \in Task, Alone(t),
         UNCHANGED my_array, state[t] # "none", state'[t] # "spawned",
         partition'[t].head = partition[t].head, partition'[t].divisor \in Nat,
         partition'[t].divisor <= partition[t].divisor
  PROVE  SlotInv'
<1>1. \A u \in Task : partition[u].divisor <= Slots
  BY SlotMeaning
<1>2. partition[t].divisor \in Nat /\ Slots \in Nat
  BY TypeOf, SlotsPositive
<1>3. ASSUME NEW u \in Task
      PROVE  /\ partition'[u].divisor <= Slots
             /\ state'[u] # "none" => state[u] # "none" /\ Giving(u)' \subseteq Giving(u)
  <2>1. CASE u = t
    <3>1. Giving(t)' = From(partition'[t], 1)
          /\ Giving(t) = From(partition[t], IF state[t] = "spawned" THEN 0 ELSE 1)
      BY GivingMeaning
    <3>2. From(partition'[t], 1) \subseteq From(partition[t], 0)
          /\ From(partition'[t], 1) \subseteq From(partition[t], 1)
      BY <1>2, FromShrinks
    <3>3. Giving(t)' \subseteq Giving(t)
      BY <3>1, <3>2
    <3>4. partition'[t].divisor <= Slots
      BY <1>1, <1>2
    <3>5. QED
      BY <2>1, <3>3, <3>4
  <2>2. CASE u # t
    <3>1. state'[u] = state[u] /\ partition'[u] = partition[u]
      BY <2>2 DEF Alone
    <3>2. Giving(u)' = Giving(u)
      BY <3>1, GivingMeaning
    <3>3. QED
      BY <1>1, <3>1, <3>2
  <2>3. QED
    BY <2>1, <2>2
<1>4. QED
  BY <1>3, SlotsShrink

\* The slots of a task are slots of the array.
LEMMA GivingInArray ==
  ASSUME TypeOK, NEW t \in Task, NEW s \in Giving(t)
  PROVE  s \in 0 .. Slots - 1
<1>1. PICK j \in (IF state[t] = "spawned" THEN 0 ELSE 1) .. partition[t].divisor - 1 :
        s = (partition[t].head + j) % Slots
  BY DEF Giving, Slot
<1>2. partition[t].head + j \in Int
  BY <1>1, TypeOf, SlotsPositive
<1>3. QED
  BY <1>1, <1>2, SlotOf

\* A task that notes its affinity does so in the first of its slots, which it gives
\* to nobody afterwards.
LEMMA ExecuteSlots ==
  ASSUME TypeOK, SlotInv, PARTITIONER = "affinity", NEW t \in Task, Execute(t)
  PROVE  /\ SlotInv'
         /\ \A s \in 0 .. Slots - 1 : my_array[s] # NoTask => my_array'[s] = my_array[s]
<1> DEFINE p == partition[t]
<1>1. PICK stolen \in BOOLEAN :
        partition' = [partition EXCEPT ![t] = AfterBeingStolen(@, MarksStolen(t, stolen))]
  BY DEF Execute
<1>2. /\ state[t] = "spawned" /\ state' = [state EXCEPT ![t] = "splitting"]
      /\ note_affinity(t) \/ UNCHANGED my_array
  BY DEF Execute
<1> DEFINE marks == MarksStolen(t, stolen)
           e == AfterBeingStolen(p, marks)
<1>3. p \in Partition /\ p.divisor \in Nat /\ p.head \in Nat /\ p.head < Slots /\ Slots \in Nat \ {0}
  BY TypeOf, SlotsPositive
<1>4. marks \in BOOLEAN
  BY DEF MarksStolen
<1>5. /\ e.head = p.head
      /\ e.divisor = IF p.divisor < FACTOR THEN 1 ELSE p.divisor
  BY <1>3, <1>4, StolenParts, FewSlots
<1>6. partition'[t] = e /\ \A u \in Task : u # t => partition'[u] = partition[u]
  BY <1>1 DEF TypeOK
<1>7. state'[t] = "splitting" /\ \A u \in Task : u # t => state'[u] = state[u]
  BY <1>2 DEF TypeOK
<1> HIDE DEF p, e
<1>8. Giving(t) = From(p, 0) /\ Giving(t)' = From(e, 1)
  BY <1>2, <1>6, <1>7, GivingMeaning DEF p
<1>9. \A u \in Task : u # t => Giving(u)' = Giving(u)
  BY <1>6, <1>7, GivingMeaning
<1>10. /\ \A u \in Task : partition[u].divisor <= Slots
       /\ \A u \in Task : state[u] # "none" => \A s \in Giving(u) : my_array[s] = NoTask
       /\ \A u, v \in Task : u # v /\ state[u] # "none" /\ state[v] # "none" =>
                               Giving(u) \cap Giving(v) = {}
  BY SlotMeaning
<1>11. From(e, 1) \subseteq From(p, 1)
  <2>1. CASE p.divisor < FACTOR
    <3>1. e.divisor = 1
      BY <1>5, <2>1
    <3>2. 1 .. e.divisor - 1 = {}
      BY <3>1
    <3>3. QED
      BY <3>2 DEF From
  <2>2. CASE ~ (p.divisor < FACTOR)
    <3>1. e.divisor = p.divisor
      BY <1>5, <2>2
    <3>2. QED
      BY <1>3, <1>5, <3>1, FromShrinks
  <2>3. QED
    BY <2>1, <2>2
<1>12. From(p, 1) \subseteq From(p, 0)
  BY <1>3, FromShrinks
<1>13. ASSUME NEW u \in Task
       PROVE  /\ partition'[u].divisor <= Slots
              /\ state'[u] # "none" => state[u] # "none" /\ Giving(u)' \subseteq Giving(u)
  <2>1. e.divisor <= Slots
    BY <1>3, <1>5, <1>10 DEF p
  <2>2. CASE u = t
    BY <1>2, <1>6, <1>8, <1>11, <1>12, <2>1, <2>2
  <2>3. CASE u # t
    BY <1>6, <1>7, <1>9, <1>10, <2>3
  <2>4. QED
    BY <2>2, <2>3
<1>14. CASE UNCHANGED my_array
  BY <1>13, <1>14, SlotsShrink
<1>15. CASE my_array' # my_array
  <2>1. p.divisor > 0 /\ my_array' = [my_array EXCEPT ![p.head] = t]
    BY <1>2, <1>3, <1>15 DEF note_affinity, p
  <2>2. p.head = Slot(p, 0)
    <3>1. p.head = Slots * 0 + p.head
      BY <1>3
    <3>2. p.head % Slots = p.head
      BY <1>3, <3>1, QuotientUnique
    <3>3. p.head + 0 = p.head
      BY <1>3
    <3>4. QED
      BY <3>2, <3>3 DEF Slot
  <2>3. p.head \in Giving(t)
    <3>1. 0 \in 0 .. p.divisor - 1
      BY <1>3, <2>1
    <3>2. Slot(p, 0) \in From(p, 0)
      BY <3>1 DEF From
    <3>3. QED
      BY <1>8, <2>2, <3>2
  <2>4. p.head \notin From(p, 1)
    <3>1. p.divisor <= Slots
      BY <1>10 DEF p
    <3>2. \A j \in 1 .. p.divisor - 1 : j \in 0 .. Slots - 1 /\ 0 \in 0 .. Slots - 1 /\ j # 0
      BY <1>3, <3>1
    <3>3. \A j \in 1 .. p.divisor - 1 : (p.head + 0) % Slots # (p.head + j) % Slots
      BY <1>3, <3>2, SlotsDiffer
    <3>4. \A j \in 1 .. p.divisor - 1 : Slot(p, j) # Slot(p, 0)
      BY <3>3 DEF Slot
    <3>5. QED
      BY <2>2, <3>4 DEF From
  <2>5. my_array[p.head] = NoTask
    BY <1>2, <1>10, <2>3
  <2>6. \A s \in 0 .. Slots - 1 : s # p.head => my_array'[s] = my_array[s]
    BY <2>1 DEF TypeOK
  <2>7. \A u \in Task : state'[u] # "none" => \A s \in Giving(u)' : my_array'[s] = my_array[s]
    <3> SUFFICES ASSUME NEW u \in Task, state'[u] # "none", NEW s \in Giving(u)'
                 PROVE  my_array'[s] = my_array[s]
      OBVIOUS
    <3>1. s \in Giving(u) /\ state[u] # "none"
      BY <1>13
    <3>2. s \in 0 .. Slots - 1
      BY <3>1, GivingInArray
    <3>3. s # p.head
      <4>1. CASE u = t
        BY <1>8, <1>11, <2>4, <4>1
      <4>2. CASE u # t
        <5>1. Giving(u) \cap Giving(t) = {}
          BY <1>2, <1>10, <3>1, <4>2
        <5>2. QED
          BY <2>3, <3>1, <5>1
      <4>3. QED
        BY <4>1, <4>2
    <3>4. QED
      BY <2>6, <3>2, <3>3
  <2>8. SlotInv'
    BY <1>13, <2>7, SlotsShrink
  <2>9. QED
    BY <2>5, <2>6, <2>8
<1>16. QED
  BY <1>14, <1>15

\* The slots of the new task are those behind the ones that t keeps.
LEMMA SharesSlots ==
  ASSUME TypeOK, SlotInv, PARTITIONER = "affinity", NEW t \in Task, NEW c \in Task, c # t,
         state[t] # "none", state[t] # "spawned", state[c] = "none", UNCHANGED my_array,
         state'[c] = "spawned", state'[t] \notin {"none", "spawned"},
         \A u \in Task : u # c /\ u # t => state'[u] = state[u],
         NEW kept \in Partition, NEW given \in Partition,
         partition' = [partition EXCEPT ![t] = kept, ![c] = given],
         kept.head = partition[t].head,
         given.head = (partition[t].head + kept.divisor) % Slots,
         kept.divisor + given.divisor <= partition[t].divisor,
         given.divisor = 0 \/ kept.divisor >= 1
  PROVE  SlotInv'
<1> DEFINE p == partition[t]
           h == p.head
           a == kept.divisor
           b == given.divisor
<1>1. /\ p.divisor \in Nat /\ h \in Nat /\ h < Slots /\ Slots \in Nat \ {0}
      /\ a \in Nat /\ b \in Nat
  BY TypeOf, SlotsPositive DEF Partition
<1>2. /\ partition'[t] = kept /\ partition'[c] = given
      /\ \A u \in Task : u # t /\ u # c => partition'[u] = partition[u]
  BY DEF TypeOK
<1>3. /\ Giving(t) = From(p, 1) /\ Giving(t)' = From(kept, 1) /\ Giving(c)' = From(given, 0)
      /\ \A u \in Task : u # t /\ u # c => Giving(u)' = Giving(u)
  <2>1. state'[t] # "spawned" /\ state'[c] = "spawned"
    OBVIOUS
  <2>2. Giving(t) = From(p, 1)
    BY GivingMeaning
  <2>3. Giving(t)' = From(kept, 1) /\ Giving(c)' = From(given, 0)
    <3>1. Giving(t)' = From(partition'[t], 1) /\ Giving(c)' = From(partition'[c], 0)
      BY <2>1, GivingMeaning
    <3>2. QED
      BY <1>2, <3>1
  <2>4. \A u \in Task : u # t /\ u # c => Giving(u)' = Giving(u)
    <3> TAKE u \in Task
    <3> HAVE u # t /\ u # c
    <3>1. state'[u] = state[u] /\ partition'[u] = partition[u]
      BY <1>2
    <3>2. /\ Giving(u) = From(partition[u], IF state[u] = "spawned" THEN 0 ELSE 1)
          /\ Giving(u)' = From(partition'[u], IF state'[u] = "spawned" THEN 0 ELSE 1)
      BY GivingMeaning
    <3>3. (IF state'[u] = "spawned" THEN 0 ELSE 1) = (IF state[u] = "spawned" THEN 0 ELSE 1)
      BY <3>1
    <3>4. QED
      BY <3>1, <3>2, <3>3
  <2>5. QED
    BY <2>2, <2>3, <2>4
<1>4. /\ \A u \in Task : partition[u].divisor <= Slots
      /\ \A u \in Task : state[u] # "none" => \A s \in Giving(u) : my_array[s] = NoTask
      /\ \A u, v \in Task : u # v /\ state[u] # "none" /\ state[v] # "none" =>
                              Giving(u) \cap Giving(v) = {}
  BY SlotMeaning
<1>5. p.divisor <= Slots /\ a + b <= p.divisor /\ (b = 0 \/ a >= 1)
      /\ kept.head = h /\ given.head = (h + a) % Slots
  BY <1>4
<1> HIDE DEF p, h, a, b
<1>6. \A s \in From(kept, 1) : \E j \in 1 .. a - 1 : s = (h + j) % Slots
  BY <1>5 DEF From, Slot, a
<1>7. \A s \in From(given, 0) : \E j \in a .. a + b - 1 : j >= 1 /\ s = (h + j) % Slots
  <2> SUFFICES ASSUME NEW s \in From(given, 0)
               PROVE  \E j \in a .. a + b - 1 : j >= 1 /\ s = (h + j) % Slots
    OBVIOUS
  <2>1. PICK i \in 0 .. b - 1 : s = (given.head + i) % Slots
    BY DEF From, Slot, b
  <2>2. i \in Nat /\ b # 0
    BY <1>1, <2>1
  <2>3. s = (h + (a + i)) % Slots
    BY <1>1, <1>5, <2>1, <2>2, SlotShift
  <2>4. a + i \in a .. a + b - 1 /\ a + i >= 1
    BY <1>1, <1>5, <2>1, <2>2
  <2>5. QED
    BY <2>3, <2>4
<1>8. \A j \in 1 .. p.divisor - 1 : (h + j) % Slots \in From(p, 1)
  BY DEF From, Slot, h
<1>9. From(kept, 1) \subseteq From(p, 1) /\ From(given, 0) \subseteq From(p, 1)
  <2>1. \A j \in 1 .. a - 1 : j \in 1 .. p.divisor - 1
    BY <1>1, <1>5
  <2>2. \A j \in a .. a + b - 1 : j >= 1 => j \in 1 .. p.divisor - 1
    BY <1>1, <1>5
  <2>3. QED
    BY <1>6, <1>7, <1>8, <2>1, <2>2
<1>10. From(kept, 1) \cap From(given, 0) = {}
  <2> SUFFICES ASSUME NEW s \in From(kept, 1), s \in From(given, 0)
               PROVE  FALSE
    OBVIOUS
  <2>1. PICK j \in 1 .. a - 1 : s = (h + j) % Slots
    BY <1>6
  <2>2. PICK i \in a .. a + b - 1 : s = (h + i) % Slots
    BY <1>7
  <2>3. j \in 0 .. Slots - 1 /\ i \in 0 .. Slots - 1 /\ i # j
    BY <1>1, <1>5, <2>1, <2>2
  <2>4. QED
    BY <1>1, <2>1, <2>2, <2>3, SlotsDiffer
<1>11. \A u \in Task : partition'[u].divisor <= Slots
  <2>1. a <= Slots /\ b <= Slots
    BY <1>1, <1>5
  <2>2. QED
    BY <1>2, <1>4, <2>1 DEF a, b
<1>12. \A u \in Task : state'[u] # "none" => \A s \in Giving(u)' : my_array'[s] = NoTask
  <2> SUFFICES ASSUME NEW u \in Task, state'[u] # "none", NEW s \in Giving(u)'
               PROVE  my_array[s] = NoTask
    OBVIOUS
  <2>1. CASE u = t \/ u = c
    <3>1. s \in Giving(t)
      BY <1>3, <1>9, <2>1
    <3>2. QED
      BY <1>4, <3>1
  <2>2. CASE u # t /\ u # c
    BY <1>3, <1>4, <2>2
  <2>3. QED
    BY <2>1, <2>2
<1>13. \A u, v \in Task : u # v /\ state'[u] # "none" /\ state'[v] # "none" =>
                            Giving(u)' \cap Giving(v)' = {}
  <2> SUFFICES ASSUME NEW u \in Task, NEW v \in Task, u # v, state'[u] # "none", state'[v] # "none"
               PROVE  Giving(u)' \cap Giving(v)' = {}
    OBVIOUS
  <2>1. Giving(t)' \cap Giving(c)' = {}
    BY <1>3, <1>10
  <2>2. \A w \in Task : w # t /\ w # c /\ state'[w] # "none" =>
          Giving(w)' \cap Giving(t)' = {} /\ Giving(w)' \cap Giving(c)' = {}
    <3> SUFFICES ASSUME NEW w \in Task, w # t, w # c, state'[w] # "none"
                 PROVE  Giving(w)' \cap Giving(t)' = {} /\ Giving(w)' \cap Giving(c)' = {}
      OBVIOUS
    <3>1. Giving(w)' = Giving(w) /\ Giving(w) \cap Giving(t) = {}
      BY <1>3, <1>4
    <3>2. QED
      BY <1>3, <1>9, <3>1
  <2>3. CASE u = t \/ u = c
    BY <2>1, <2>2, <2>3
  <2>4. CASE v = t \/ v = c
    BY <2>1, <2>2, <2>4
  <2>5. CASE u # t /\ u # c /\ v # t /\ v # c
    BY <1>3, <1>4, <2>5
  <2>6. QED
    BY <2>3, <2>4, <2>5
<1>14. QED
  BY <1>11, <1>12, <1>13, SlotMeaning

\* The steps that offer nothing, but for execute, note nothing and give up slots at most.
LEMMA SlotsKeep ==
  ASSUME TypeOK, RangeInv, SlotInv, NEW t \in Task,
         \/ RunWhole(t) \/ FillPool(t) \/ (Balance(t) /\ ~ Offering(t))
         \/ Continue(t) \/ EndBody(t) \/ Throw(t) \/ Cancel(t) \/ Fold(t)
  PROVE  SlotInv' /\ my_array' = my_array
<1> DEFINE p == partition[t]
<1>1. p \in Partition /\ p.divisor \in Nat
  BY TypeOf
<1>2. ASSUME NEW s, state' = [state EXCEPT ![t] = s], s # "spawned", state[t] # "none",
             NEW q, pool' = [pool EXCEPT ![t] = q], UNCHANGED <<range, my_array>>,
             NEW e, partition' = [partition EXCEPT ![t] = e], e.head = p.head,
             e.divisor \in Nat, e.divisor <= p.divisor
      PROVE  SlotInv' /\ my_array' = my_array
  <2>1. Alone(t) /\ state'[t] = s /\ partition'[t] = e
    BY <1>2 DEF Alone, TypeOK
  <2>2. CASE PARTITIONER = "affinity"
    BY <1>2, <2>1, <2>2, AloneSlots
  <2>3. CASE PARTITIONER # "affinity"
    BY <1>2, <2>3 DEF SlotInv
  <2>4. QED
    BY <2>2, <2>3
<1>3. partition = [partition EXCEPT ![t] = p] /\ pool = [pool EXCEPT ![t] = pool[t]]
  BY DEF TypeOK
<1>4. ASSUME NEW s, state' = [state EXCEPT ![t] = s], s # "spawned", state[t] # "none",
             NEW q, pool' = [pool EXCEPT ![t] = q], UNCHANGED <<range, my_array, partition>>
      PROVE  SlotInv' /\ my_array' = my_array
  <2>1. partition' = [partition EXCEPT ![t] = p] /\ p.head = p.head /\ p.divisor <= p.divisor
    BY <1>1, <1>3, <1>4
  <2> HIDE DEF p
  <2>2. QED
    BY <1>1, <1>2, <1>4, <2>1
<1> HIDE DEF p
<1>5. CASE RunWhole(t)
  <2> DEFINE s == "body"
  <2>1. /\ state[t] # "none" /\ state' = [state EXCEPT ![t] = s] /\ s # "spawned"
        /\ pool' = [pool EXCEPT ![t] = pool[t]] /\ UNCHANGED <<range, my_array, partition>>
    BY <1>3, <1>5 DEF RunWhole
  <2> HIDE DEF s
  <2>2. QED
    BY <1>4, <2>1
<1>6. CASE FillPool(t)
  <2> DEFINE s == "balancing"
             q == <<[range |-> range[t], depth |-> 0]>>
  <2>1. /\ state[t] # "none" /\ state' = [state EXCEPT ![t] = s] /\ s # "spawned"
        /\ pool' = [pool EXCEPT ![t] = q] /\ UNCHANGED <<range, my_array, partition>>
    BY <1>6 DEF FillPool
  <2> HIDE DEF s, q
  <2>2. QED
    BY <1>4, <2>1
<1>7. CASE Balance(t) /\ ~ Offering(t)
  <2> DEFINE e == AfterDemand(t)
             f == Filled(t)
  <2>1. /\ state[t] = "balancing"
        /\ state' = [state EXCEPT ![t] = "continuing"] \/ state' = [state EXCEPT ![t] = "body"]
        /\ partition' = [partition EXCEPT ![t] = e] /\ pool' = [pool EXCEPT ![t] = f]
        /\ UNCHANGED <<range, my_array>>
    BY <1>7, BalanceCases
  <2>2. /\ e \in Partition /\ e.head = p.head
        /\ e.divisor = p.divisor \/ (p.divisor = 1 /\ e.divisor = 0)
    BY DemandParts DEF p
  <2> HIDE DEF e, f
  <2>3. e.divisor \in Nat /\ e.divisor <= p.divisor
    BY <1>1, <2>2 DEF Partition
  <2>4. PICK s : state' = [state EXCEPT ![t] = s] /\ s # "spawned"
    <3>1. CASE state' = [state EXCEPT ![t] = "continuing"]
      <4> DEFINE s == "continuing"
      <4>1. state' = [state EXCEPT ![t] = s] /\ s # "spawned"
        BY <3>1
      <4> HIDE DEF s
      <4>2. QED
        BY <4>1
    <3>2. CASE state' = [state EXCEPT ![t] = "body"]
      <4> DEFINE s == "body"
      <4>1. state' = [state EXCEPT ![t] = s] /\ s # "spawned"
        BY <3>2
      <4> HIDE DEF s
      <4>2. QED
        BY <4>1
    <3>3. QED
      BY <2>1, <3>1, <3>2
  <2>5. state[t] # "none"
    BY <2>1
  <2>6. QED
    BY <1>2, <2>1, <2>2, <2>3, <2>4, <2>5
<1>12. CASE Continue(t)
  <2> DEFINE s == IF cancelled THEN "folding" ELSE "balancing"
             q == IF cancelled THEN <<>> ELSE pool[t]
  <2>1. /\ state[t] # "none" /\ state' = [state EXCEPT ![t] = s]
        /\ pool' = [pool EXCEPT ![t] = q] /\ UNCHANGED <<range, my_array, partition>>
    BY <1>12 DEF Continue
  <2>2. s # "spawned"
    OBVIOUS
  <2> HIDE DEF s, q
  <2>3. QED
    BY <1>4, <2>1, <2>2
<1>8. CASE EndBody(t)
  <2> DEFINE s == IF Rest(t) = <<>> THEN "folding" ELSE "balancing"
             q == Rest(t)
  <2>1. /\ state[t] # "none" /\ state' = [state EXCEPT ![t] = s]
        /\ pool' = [pool EXCEPT ![t] = q] /\ UNCHANGED <<range, my_array, partition>>
    BY <1>8 DEF EndBody
  <2>2. s # "spawned"
    OBVIOUS
  <2> HIDE DEF s, q
  <2>3. QED
    BY <1>4, <2>1, <2>2
<1>9. CASE Throw(t)
  <2> DEFINE s == "thrown"
             q == <<>>
  <2>1. /\ state[t] # "none" /\ state' = [state EXCEPT ![t] = s] /\ s # "spawned"
        /\ pool' = [pool EXCEPT ![t] = q] /\ UNCHANGED <<range, my_array, partition>>
    BY <1>9 DEF Throw
  <2> HIDE DEF s, q
  <2>2. QED
    BY <1>4, <2>1
<1>10. CASE Cancel(t)
  <2> DEFINE s == "folding"
  <2>1. /\ state[t] # "none" /\ state' = [state EXCEPT ![t] = s] /\ s # "spawned"
        /\ pool' = [pool EXCEPT ![t] = pool[t]] /\ UNCHANGED <<range, my_array, partition>>
    BY <1>3, <1>10 DEF Cancel
  <2> HIDE DEF s
  <2>2. QED
    BY <1>4, <2>1
<1>11. CASE Fold(t)
  <2> DEFINE s == IF GoesOn(t) THEN "folding" ELSE "dead"
  <2>1. /\ state[t] # "none" /\ state' = [state EXCEPT ![t] = s]
        /\ pool' = [pool EXCEPT ![t] = pool[t]] /\ UNCHANGED <<range, my_array, partition>>
    BY <1>3, <1>11 DEF Fold
  <2>2. s # "spawned"
    OBVIOUS
  <2> HIDE DEF s
  <2>3. QED
    BY <1>4, <2>1, <2>2
<1>13. QED
  BY <1>5, <1>6, <1>7, <1>8, <1>9, <1>10, <1>11, <1>12

\* A turn of the splitting loop gives away the last of the slots.
LEMMA SplitRangeSlots ==
  ASSUME TypeOK, RangeInv, FreshInv, PartitionInv, SlotInv, NEW t \in Task, SplitRange(t)
  PROVE  PartitionInv' /\ SlotInv'
<1> DEFINE k == Kept(t)
           g == Given(t)
           p == partition[t]
<1>1. /\ RangeInv' /\ state[t] = "splitting" /\ CanSplit(t) /\ pool' = pool
      /\ UNCHANGED my_array
  BY SplitRangeShares
<1>2. PICK c \in Task : Shares(t, c) /\ partition' = [partition EXCEPT ![t] = k, ![c] = g]
  BY SplitRangeShares
<1>3. k \in Partition /\ g \in Partition
  BY <1>1, SplitValues
<1>4. pool'[t] = <<>>
  BY <1>1 DEF RangeInv
<1>5. /\ c # t /\ state[c] = "none"
      /\ state'[c] = "spawned" /\ state'[t] \notin {"none", "spawned"}
      /\ \A u \in Task : u # c /\ u # t => state'[u] = state[u]
  BY <1>1, <1>2, SharesIsFresh DEF Shares, After
<1>6. CASE PARTITIONER = "affinity"
  <2> DEFINE d == ProportionalDivisor(p)
  <2>1. /\ AfterIsDivisible(p) = p /\ Whole(p.divisor) /\ p.divisor > FACTOR
        /\ p \in Partition /\ p.divisor \in Nat /\ p.head \in Nat
    BY <1>1, <1>6, SplitIsWhole, TypeOf
  <2>2. k = ProportionalSource(p) /\ g = ProportionalChild(p)
    BY <1>6, <2>1 DEF Kept, Given
  <2>3. /\ k.divisor = p.divisor - d /\ g.divisor = d
        /\ k.head = p.head /\ g.head = (p.head + p.divisor - d) % Slots
    BY <2>1, <2>2, ProportionalSplitParts
  <2>4. d \in Nat /\ FACTOR <= d /\ d + FACTOR <= p.divisor /\ Whole(d) /\ Whole(p.divisor - d)
    BY <2>1, ProportionalParts
  <2> HIDE DEF d, k, g, p
  <2>5. PartitionInv'
    BY <1>1, <1>2, <1>3, <1>4, <2>3, <2>4, SharesPartition
  <2>6. /\ p.head + p.divisor - d = p.head + k.divisor
        /\ k.divisor + g.divisor <= p.divisor /\ k.divisor >= 1
    BY <2>1, <2>3, <2>4, Constants
  <2>7. g.head = (p.head + k.divisor) % Slots
    BY <2>3, <2>6
  <2>8. state[t] # "none" /\ state[t] # "spawned"
    BY <1>1
  <2>9. SlotInv'
    BY <1>1, <1>2, <1>3, <1>5, <1>6, <2>3, <2>6, <2>7, <2>8, SharesSlots DEF p
  <2>10. QED
    BY <2>5, <2>9
<1>7. CASE PARTITIONER # "affinity"
  <2> HIDE DEF k, g
  <2>1. PartitionInv'
    BY <1>1, <1>2, <1>3, <1>7, SharesPartition
  <2>2. QED
    BY <1>7, <2>1 DEF SlotInv
<1>8. QED
  BY <1>6, <1>7

\* An offer from the pool halves the slots.
LEMMA OfferSlots ==
  ASSUME TypeOK, RangeInv, FreshInv, PartitionInv, SlotInv, NEW t \in Task,
         Balance(t), Offering(t)
  PROVE  PartitionInv' /\ SlotInv'
<1> DEFINE k == OfferKept(t)
           g == OfferGiven(t)
           p == partition[t]
           e == AfterDemand(t)
           d == HalfDivisor(e)
<1>1. /\ RangeInv' /\ state[t] = "balancing" /\ Len(Filled(t)) > 1
      /\ pool' = [pool EXCEPT ![t] = Tail(Filled(t))] /\ UNCHANGED my_array
  BY BalanceShares
<1>2. PICK c \in Task : Shares(t, c) /\ partition' = [partition EXCEPT ![t] = k, ![c] = g]
  BY BalanceShares
<1>3. /\ k \in Partition /\ g \in Partition /\ k.divisor = d /\ g.divisor = d
      /\ k.head = p.head /\ g.head = (p.head + d) % Slots
  BY <1>1, OfferParts
<1>4. /\ e \in Partition /\ p \in Partition /\ p.divisor \in Nat
      /\ e.divisor = p.divisor \/ (p.divisor = 1 /\ e.divisor = 0)
  BY DemandParts, TypeOf
<1>5. d \in Nat /\ 2 * d <= e.divisor /\ e.divisor \in Nat
  BY <1>4, SplitParts DEF Partition
<1>6. /\ c # t /\ state[c] = "none"
      /\ state'[c] = "spawned" /\ state'[t] \notin {"none", "spawned"}
      /\ \A u \in Task : u # c /\ u # t => state'[u] = state[u]
  BY <1>2, SharesIsFresh DEF Shares, After
<1>7. \A u \in Task : u # t => pool'[u] = pool[u]
  BY <1>1 DEF TypeOK
<1>8. pool[t] # <<>>
  BY <1>1 DEF RangeInv
<1>9. CASE PARTITIONER = "affinity"
  <2>1. p.divisor <= FACTOR /\ FACTOR > 1 /\ FACTOR \in Nat
    BY <1>8, <1>9, Constants DEF PartitionInv
  <2> HIDE DEF k, g, p, e, d
  <2>2. k.divisor < FACTOR /\ g.divisor < FACTOR
    BY <1>3, <1>4, <1>5, <2>1
  <2>3. k.divisor <= FACTOR
    BY <1>3, <1>5, <2>1, <2>2
  <2>4. PartitionInv'
    BY <1>1, <1>2, <1>3, <1>7, <2>2, <2>3, SharesPartition
  <2>5. k.divisor + g.divisor <= p.divisor /\ (g.divisor = 0 \/ k.divisor >= 1)
    BY <1>3, <1>4, <1>5
  <2>6. state[t] # "none" /\ state[t] # "spawned"
    BY <1>1
  <2>7. g.head = (p.head + k.divisor) % Slots
    BY <1>3
  <2>8. SlotInv'
    BY <1>1, <1>2, <1>3, <1>6, <1>9, <2>5, <2>6, <2>7, SharesSlots DEF p
  <2>9. QED
    BY <2>4, <2>8
<1>10. CASE PARTITIONER # "affinity"
  <2> HIDE DEF k, g
  <2>1. PartitionInv'
    BY <1>1, <1>2, <1>3, <1>7, <1>10, SharesPartition
  <2>2. QED
    BY <1>10, <2>1 DEF SlotInv
<1>11. QED
  BY <1>9, <1>10

-------------------------------------------------------------------------------
(* The invariant.                                                          *)

\* What a step that makes no task keeps.
LEMMA WorkStep ==
  ASSUME IInv, NEW t \in Task,
         \/ Execute(t) \/ RunWhole(t) \/ FillPool(t) \/ (Balance(t) /\ ~ Offering(t))
         \/ Continue(t) \/ EndBody(t) \/ Throw(t) \/ Cancel(t) \/ Fold(t)
  PROVE  IInv' /\ Works(t)
<1>1. /\ TypeOK /\ RangeInv /\ FreshInv /\ ChunkInv /\ IndicesAreHeldOnce
      /\ CountsAreReferences /\ NodeInv /\ PartitionInv /\ SlotInv
  BY DEF IInv
<1>2. CASE Fold(t)
  <2>1. TypeOK' /\ CountsAreReferences' /\ NodeInv'
    BY <1>1, <1>2, FoldKeepsTree
  <2>2. RangeInv' /\ Works(t)
    BY <1>1, <1>2, FoldWorks
  <2>3. FreshInv' /\ ChunkInv' /\ IndicesAreHeldOnce'
    BY <1>1, <2>2, WorksKeeps
  <2>4. PartitionInv' /\ SlotInv'
    BY <1>1, <1>2, PartitionKeeps, SlotsKeep
  <2>5. QED
    BY <2>1, <2>2, <2>3, <2>4 DEF IInv
<1>3. CASE \/ Execute(t) \/ RunWhole(t) \/ FillPool(t) \/ (Balance(t) /\ ~ Offering(t))
           \/ Continue(t) \/ EndBody(t) \/ Throw(t) \/ Cancel(t)
  <2>1. TypeOK' /\ RangeInv' /\ Works(t)
    BY <1>1, <1>3, ExecuteWorks, RunWholeWorks, FillPoolWorks, BalanceWorks,
       ContinueWorks, EndBodyWorks, ThrowWorks, CancelWorks
  <2>2. FreshInv' /\ ChunkInv' /\ IndicesAreHeldOnce'
    BY <1>1, <2>1, WorksKeeps
  <2>3. CountsAreReferences' /\ NodeInv'
    <3>1. Still /\ returned' = returned
      BY <1>1, <1>3, StillSteps
    <3>2. QED
      BY <1>1, <3>1, StillKeeps
  <2>4. PartitionInv'
    BY <1>1, <1>3, PartitionKeeps
  <2>5. SlotInv'
    <3>1. CASE Execute(t)
      <4>1. CASE PARTITIONER = "affinity"
        BY <1>1, <3>1, <4>1, ExecuteSlots
      <4>2. CASE PARTITIONER # "affinity"
        BY <4>2 DEF SlotInv
      <4>3. QED
        BY <4>1, <4>2
    <3>2. CASE ~ Execute(t)
      BY <1>1, <1>3, <3>2, SlotsKeep
    <3>3. QED
      BY <3>1, <3>2
  <2>6. QED
    BY <2>1, <2>2, <2>3, <2>4, <2>5 DEF IInv
<1>4. QED
  BY <1>2, <1>3

\* What a step that makes one keeps.
LEMMA ShareStep ==
  ASSUME IInv, NEW t \in Task, SplitRange(t) \/ (Balance(t) /\ Offering(t))
  PROVE  /\ IInv' /\ UNCHANGED <<my_array, returned>>
         /\ state[t] \in {"splitting", "balancing"} /\ \E c \in Task : Shares(t, c)
<1>1. /\ TypeOK /\ RangeInv /\ FreshInv /\ ChunkInv /\ IndicesAreHeldOnce
      /\ CountsAreReferences /\ NodeInv /\ PartitionInv /\ SlotInv
  BY DEF IInv
<1>2. /\ TypeOK' /\ RangeInv' /\ state[t] \in {"splitting", "balancing"}
      /\ UNCHANGED <<folding, my_array, m_wait, returned>>
      /\ \E c \in Task : Shares(t, c)
  <2>1. CASE SplitRange(t)
    BY <1>1, <2>1, SplitRangeShares
  <2>2. CASE Balance(t) /\ Offering(t)
    BY <1>1, <2>2, BalanceShares
  <2>3. QED
    BY <2>1, <2>2
<1>3. PICK c \in Task : Shares(t, c)
  BY <1>2
<1>4. FreshInv' /\ ChunkInv' /\ IndicesAreHeldOnce'
  BY <1>1, <1>3, SharesKeeps
<1>5. PartitionInv' /\ SlotInv'
  BY <1>1, SplitRangeSlots, OfferSlots
<1>6. CountsAreReferences' /\ NodeInv'
  <2>1. c # t /\ c \in Pending(t) /\ Offer(t, c, After(t)) /\ state[c] = "none"
    BY <1>1, <1>3, SharesIsFresh DEF Shares
  <2>2. t \in Nat /\ c \in Int /\ t <= c
    <3>1. t <= c
      BY <1>1, <2>1, PendingRange
    <3>2. QED
      BY <3>1 DEF Task, Index
  <2>3. c # WaitNode
    BY <2>1, <2>2 DEF WaitNode
  <2>4. QED
    BY <1>1, <1>2, <2>1, <2>3, OfferKeepsTree
<1>7. QED
  BY <1>1, <1>2, <1>3, <1>4, <1>5, <1>6 DEF IInv

\* The steps, by whether they make a task.
LEMMA StepCases ==
  ASSUME NEW t \in Task, Step(t)
  PROVE  \/ SplitRange(t) \/ (Balance(t) /\ Offering(t))
         \/ Execute(t) \/ RunWhole(t) \/ FillPool(t) \/ (Balance(t) /\ ~ Offering(t))
         \/ Continue(t) \/ EndBody(t) \/ Throw(t) \/ Cancel(t) \/ Fold(t)
BY DEF Step

\* Every step keeps the inductive invariant.
LEMMA ForStep == IInv /\ [Next]_vars => IInv'
<1> SUFFICES ASSUME IInv, [Next]_vars
             PROVE  IInv'
  OBVIOUS
<1>1. CASE \E t \in Task : Step(t)
  <2>1. PICK t \in Task : Step(t)
    BY <1>1
  <2>2. QED
    BY <2>1, StepCases, WorkStep, ShareStep
<1>2. ASSUME UNCHANGED <<state, range, partition, pool, parent, above, ref_count,
                         child_stolen, folding, my_array, m_wait, begun, cancelled>>,
             returned' \in BOOLEAN, returned' => m_wait = 0
      PROVE  IInv'
  <2>1. TypeOK'
    BY <1>2 DEF IInv, TypeOK
  <2>2. RangeInv'
    BY <1>2 DEF IInv, RangeInv, GoodPool
  <2>3. \A t : Pending(t)' = Pending(t) /\ Chunk(t)' = Chunk(t)
    BY <1>2, OthersSame
  <2>4. FreshInv' /\ IndicesAreHeldOnce' /\ ChunkInv'
    BY <1>2, <2>3 DEF IInv, FreshInv, IndicesAreHeldOnce, ChunkInv
  <2>5. CountsAreReferences'
    BY <1>2 DEF IInv, CountsAreReferences, Live
  <2>6. NodeInv'
    BY <1>2 DEF IInv, NodeInv, TreeNodes
  <2>7. PartitionInv'
    BY <1>2 DEF IInv, PartitionInv, Whole
  <2>8. SlotInv'
    BY <1>2 DEF IInv, SlotInv, Giving, Slot
  <2>9. QED
    BY <2>1, <2>2, <2>4, <2>5, <2>6, <2>7, <2>8 DEF IInv
<1>3. CASE Return
  BY <1>2, <1>3 DEF Return
<1>4. CASE UNCHANGED vars
  BY <1>2, <1>4 DEF vars, IInv, TypeOK, NodeInv
<1>5. QED
  BY <1>1, <1>3, <1>4 DEF Next

\* The caller begins in it, also with an empty range.
LEMMA ForInit == Init => IInv
<1> SUFFICES ASSUME Init
             PROVE  IInv
  OBVIOUS
<1> DEFINE chunks == IF PARTITIONER = "auto" THEN INITIAL_CHUNKS ELSE FACTOR
           d == MAX_CONCURRENCY * chunks
<1>1. PICK head \in 0 .. MAX_CONCURRENCY - 1 :
        /\ PARTITIONER = "auto" => head = 0
        /\ partition = [t \in Task |-> InitialPartition(head)]
  BY DEF Init
<1>2. /\ state = [t \in Task |-> IF t = Root THEN "spawned" ELSE "none"]
      /\ range = [t \in Task |-> IF t = Root THEN <<0, N>> ELSE <<t, t>>]
      /\ pool = [t \in Task |-> <<>>]
      /\ parent = [t \in Task |-> WaitNode]
      /\ above = [e \in Node |-> WaitNode]
      /\ ref_count = [e \in Node |-> IF e = WaitNode THEN 1 ELSE 0]
      /\ child_stolen = [e \in Node |-> FALSE]
      /\ folding = [t \in Task |-> WaitNode]
      /\ my_array = [s \in 0 .. Slots - 1 |-> NoTask]
      /\ m_wait = (IF N > 0 THEN 1 ELSE 0)
      /\ begun = {} /\ cancelled = FALSE /\ returned = FALSE
  BY DEF Init
<1>3. /\ MAX_CONCURRENCY \in Nat /\ MAX_CONCURRENCY >= 1 /\ chunks \in Nat /\ chunks >= 1
      /\ FACTOR \in Nat /\ FACTOR >= 1 /\ N \in Nat /\ INIT_DEPTH \in Nat /\ INIT_DEPTH >= 1
      /\ POOL_CAPACITY \in Nat
  BY Constants
<1>4. d \in Nat /\ d >= chunks /\ d >= MAX_CONCURRENCY
  <2>1. d \in Nat
    BY <1>3
  <2>2. d >= chunks
    BY <1>3
  <2>3. d >= MAX_CONCURRENCY
    BY <1>3
  <2>4. QED
    BY <2>1, <2>2, <2>3
<1>5. PARTITIONER = "affinity" => Slots = d /\ chunks = FACTOR
  BY DEF Slots
<1>6. head \in 0 .. Slots - 1
  <2>1. CASE PARTITIONER = "auto"
    <3>1. head = 0 /\ Slots = 1
      BY <1>1, <2>1 DEF Slots
    <3>2. QED
      BY <3>1
  <2>2. CASE PARTITIONER = "affinity"
    BY <1>3, <1>4, <1>5, <2>2
  <2>3. QED
    BY <2>1, <2>2, Constants
<1> DEFINE first == InitialPartition(head)
<1>7. first = [divisor |-> d, max_depth |-> INIT_DEPTH, delay |-> "begin", head |-> head]
  BY DEF InitialPartition
<1> HIDE DEF chunks, d, first
<1>8. first \in Partition
  BY <1>3, <1>4, <1>6, <1>7, PartitionRecord
<1>9. /\ first.divisor = d /\ first.max_depth = INIT_DEPTH /\ first.head = head
      /\ \A t \in Task : partition[t] = first
  BY <1>1, <1>7 DEF first
<1>10. /\ \A t \in Task : t # Root => state[t] = "none"
       /\ \A t \in Task : t = Root => state[t] = "spawned" /\ range[t] = <<0, N>>
       /\ \A t \in Task : t # Root => range[t] = <<t, t>>
       /\ \A t \in Task : pool[t] = <<>> /\ parent[t] = WaitNode
  BY <1>2
<1>11. \A t \in Task : t \in Nat /\ t < N /\ t \in 0 .. N
  BY <1>3 DEF Task, Index
<1>12. N > 0 => Root \in Task /\ WaitNode \in Node
  BY <1>3 DEF Root, WaitNode, Task, Node, Index
<1>13. TypeOK
  <2>1. state \in [Task -> State] /\ parent \in [Task -> Node] /\ folding \in [Task -> Node]
        /\ above \in [Node -> Node]
    <3>1. \A x \in Node : WaitNode \in Node
      BY <1>3 DEF WaitNode, Node, Index
    <3>2. \A x \in Task : WaitNode \in Node
      BY <3>1 DEF Task, Node
    <3>3. QED
      BY <1>2, <3>1, <3>2 DEF State
  <2>2. range \in [Task -> (0 .. N) \X (0 .. N)]
    <3>1. \A t \in Task : (IF t = Root THEN <<0, N>> ELSE <<t, t>>) \in (0 .. N) \X (0 .. N)
      BY <1>3, <1>11
    <3>2. QED
      BY <1>2, <3>1
  <2>3. partition \in [Task -> Partition]
    BY <1>1, <1>8 DEF first
  <2>4. pool \in [Task -> Seq(Item)] /\ \A t \in Task : Len(pool[t]) <= POOL_CAPACITY
    <3>1. <<>> \in Seq(Item) /\ Len(<<>>) = 0
      BY EmptyPoolIsGood
    <3>2. QED
      BY <1>2, <1>3, <1>10, <3>1
  <2>5. ref_count \in [Node -> 0 .. 2] /\ child_stolen \in [Node -> BOOLEAN]
    BY <1>2
  <2>6. my_array \in [0 .. Slots - 1 -> Task \cup {NoTask}]
    BY <1>2
  <2>7. m_wait \in {0, 1} /\ begun \subseteq Index /\ cancelled \in BOOLEAN /\ returned \in BOOLEAN
    BY <1>2
  <2>8. QED
    BY <2>1, <2>2, <2>3, <2>4, <2>5, <2>6, <2>7 DEF TypeOK
<1>14. RangeInv
  <2> SUFFICES ASSUME NEW t \in Task
               PROVE  /\ range[t][1] = t
                      /\ state[t] # "none" => t < range[t][2]
                      /\ pool[t] = <<>> /\ state[t] \notin {"balancing", "continuing"}
                      /\ GoodPool(pool[t], t, partition[t].max_depth)
    BY DEF RangeInv
  <2>1. pool[t] = <<>> /\ GoodPool(pool[t], t, partition[t].max_depth)
    BY <1>10, EmptyPoolIsGood
  <2>2. CASE t = Root
    BY <1>10, <1>11, <2>1, <2>2 DEF Root
  <2>3. CASE t # Root
    BY <1>10, <1>11, <2>1, <2>3
  <2>4. QED
    BY <2>2, <2>3
<1>15. /\ \A t \in Task : t # Root => Pending(t) = {}
       /\ \A t \in Task : t = Root => Pending(t) = Index
  <2>1. \A t \in Task : t # Root => Pending(t) = {}
    BY <1>10, <1>13, <1>14, PendingIs
  <2>2. ASSUME NEW t \in Task, t = Root
        PROVE  Pending(t) = Index
    <3>1. Pending(t) = Elements(range[t]) /\ range[t] = <<0, N>>
      BY <1>10, <1>13, <1>14, <2>2, PendingIs
    <3>2. QED
      BY <3>1 DEF Elements, Index
  <2>3. QED
    BY <2>1, <2>2
<1>16. FreshInv
  BY <1>10, <1>15, <1>2 DEF FreshInv, Index, Task
<1>17. ChunkInv
  BY <1>10 DEF ChunkInv
<1>18. IndicesAreHeldOnce
  <2>1. \A t \in Task : Pending(t) \cap begun = {}
    BY <1>2
  <2>2. \A t, u \in Task : t # u => Pending(t) \cap Pending(u) = {}
    BY <1>15
  <2>3. begun \cup UNION {Pending(t) : t \in Task} = Index
    <3>1. \A t \in Task : Pending(t) \subseteq Index
      BY <1>15
    <3>2. \A x \in Index : Root \in Task
      BY <1>3 DEF Root, Task, Index
    <3>3. \A x \in Index : x \in Pending(Root) /\ Root \in Task
      BY <1>15, <3>2
    <3>4. QED
      BY <1>2, <3>1, <3>3
  <2>4. QED
    BY <2>1, <2>2, <2>3 DEF IndicesAreHeldOnce
<1>19. CountsAreReferences
  <2> SUFFICES ASSUME NEW n \in Node
               PROVE  ref_count[n] = Cardinality(Holders(n)) + Cardinality(Below(n))
    BY CountsMeaning
  <2>1. Below(n) = {}
    BY <1>2 DEF Below
  <2>2. Cardinality({}) = 0 /\ Root \in Task
    BY <1>11, <1>12, <1>3, FS_EmptySet DEF Node, Task, Index
  <2>3. \A t \in Task : At(t) = WaitNode
    BY <1>10 DEF At
  <2>4. \A t \in Task : Live(t) <=> t = Root
    BY <1>10 DEF Live
  <2>5. CASE n = WaitNode
    <3>1. Holders(n) = {Root}
      BY <2>2, <2>3, <2>4, <2>5 DEF Holders
    <3>2. Cardinality({Root}) = 1
      BY FS_Singleton
    <3>3. ref_count[n] = 1
      BY <1>2, <2>5
    <3>4. QED
      BY <2>1, <2>2, <3>1, <3>2, <3>3
  <2>6. CASE n # WaitNode
    <3>1. Holders(n) = {}
      BY <2>3, <2>6 DEF Holders
    <3>2. ref_count[n] = 0
      BY <1>2, <2>6
    <3>3. QED
      BY <2>1, <2>2, <3>1, <3>2
  <2>7. QED
    BY <2>5, <2>6
<1>20. NodeInv
  <2>1. TreeNodes = {}
    BY <1>2 DEF TreeNodes
  <2>2. m_wait = IF N > 0 THEN ref_count[WaitNode] ELSE 0
    BY <1>2, <1>12
  <2>3. QED
    BY <1>2, <2>1, <2>2 DEF NodeInv
<1>21. PartitionInv
  <2> SUFFICES ASSUME NEW t \in Task
               PROVE  /\ PARTITIONER = "affinity" => Whole(first.divisor)
                      /\ first.divisor >= FACTOR /\ first.max_depth > 0
                      /\ state[t] \notin {"balancing", "continuing", "body"}
    BY <1>9, <1>10 DEF PartitionInv
  <2>1. PARTITIONER = "affinity" => Whole(d)
    <3>1. PARTITIONER = "affinity" => d = MAX_CONCURRENCY * FACTOR
      BY <1>5 DEF d
    <3>2. MAX_CONCURRENCY \in 0 .. d
      BY <1>3, <1>4
    <3>3. QED
      BY <3>1, <3>2 DEF Whole
  <2>2. d >= FACTOR
    BY <1>3, <1>4, <1>5, Constants
  <2>3. state[t] \notin {"balancing", "continuing", "body"}
    BY <1>10
  <2>4. QED
    BY <1>3, <1>9, <2>1, <2>2, <2>3
<1>22. SlotInv
  <2>1. \A t \in Task : PARTITIONER = "affinity" => partition[t].divisor <= Slots
    BY <1>4, <1>5, <1>9
  <2>2. \A t \in Task : \A s \in Giving(t) : my_array[s] = NoTask
    BY <1>2, <1>13, GivingInArray
  <2>3. \A t, u \in Task : t # u /\ state[t] # "none" /\ state[u] # "none" =>
                             Giving(t) \cap Giving(u) = {}
    BY <1>10
  <2>4. QED
    BY <2>1, <2>2, <2>3 DEF SlotInv
<1>23. QED
  BY <1>13, <1>14, <1>16, <1>17, <1>18, <1>19, <1>20, <1>21, <1>22 DEF IInv

\* Every state of the loop satisfies the inductive invariant, those of a cancelled group
\* included, where tasks give up their pools at the condition of the loop over them
\* (partitioner.h:445-452) and are dropped before they are run (parallel_for.h:176-181).
THEOREM ForInvariant == Spec => []IInv
BY ForInit, ForStep, PTL DEF Spec

-------------------------------------------------------------------------------
(* What follows from it.                                                   *)

\* The count of a tree node is the number of tasks and nodes that still have it
\* (parallel_for.h:147-157, partitioner.h:161-182).
THEOREM CountsAreExact == Spec => []CountsAreReferences
<1>1. IInv => CountsAreReferences
  BY DEF IInv
<1>2. QED
  BY <1>1, ForInvariant, PTL

\* Between them the tasks hold every index the body has not been given, each once.
THEOREM EachIndexOnce == Spec => []IndicesAreHeldOnce
<1>1. IInv => IndicesAreHeldOnce
  BY DEF IInv
<1>2. QED
  BY <1>1, ForInvariant, PTL

\* A count of zero at the wait_node leaves no node, because every node is below one
\* that exists, and no task, because every task that is not done holds one.
LEMMA Quiet == IInv => ReleasedMeansQuiet
<1> SUFFICES ASSUME IInv, m_wait = 0, NEW t \in Task
             PROVE  ~ Live(t) /\ ref_count[t] = 0
  BY DEF ReleasedMeansQuiet
<1>1. TypeOK /\ CountsAreReferences /\ NodeInv
  BY DEF IInv
<1>2. N > 0 /\ WaitNode \in Node /\ ref_count[WaitNode] = 0
  <2>1. N > 0
    BY TypeOf, <1>1, Constants
  <2>2. QED
    BY <1>1, <2>1, Constants DEF NodeInv, WaitNode, Node, Index
<1>3. TreeNodes = {}
  <2> SUFFICES ASSUME TreeNodes # {}
               PROVE  FALSE
    OBVIOUS
  <2>1. PICK d \in TreeNodes : above[d] \notin TreeNodes
    BY <1>1 DEF NodeInv
  <2>2. d \in Node \ {WaitNode} /\ ref_count[d] > 0 /\ above[d] \in Node
    BY <1>1, <2>1 DEF TreeNodes, TypeOK
  <2>3. d \in Below(above[d])
    BY <2>2 DEF Below
  <2>4. ref_count[above[d]] # 0
    BY <1>1, <2>2, <2>3, HoldersAndBelow
  <2>5. ref_count[above[d]] \in 0 .. 2
    BY <1>1, <2>2 DEF TypeOK
  <2>6. ref_count[above[d]] > 0
    BY <2>4, <2>5
  <2>7. above[d] # WaitNode
    BY <1>2, <2>4
  <2>8. QED
    BY <2>1, <2>2, <2>6, <2>7 DEF TreeNodes
<1>4. \A n \in Node : ref_count[n] = 0
  <2> TAKE n \in Node
  <2>1. ref_count[n] \in 0 .. 2
    BY <1>1 DEF TypeOK
  <2>2. n = WaitNode \/ ~ (ref_count[n] > 0)
    BY <1>3 DEF TreeNodes
  <2>3. QED
    BY <1>2, <2>1, <2>2
<1>5. ~ Live(t)
  BY <1>1, <1>4, LiveIsHeld
<1>6. QED
  BY <1>4, <1>5 DEF Task, Node

\* When the caller is let go no task and no tree node is left that could reach the
\* wait_node on its stack (parallel_for.h:89-97), also after a body has thrown while other
\* tasks were offering work.
THEOREM ReleasedIsQuiet == Spec => []ReleasedMeansQuiet
BY Quiet, ForInvariant, PTL

\* The parent that is_peer_stolen casts to tree_node is one, and no range in a pool is
\* deeper than its task may split, so that align_depth cannot wrap around
\* (partitioner.h:412-418 and 428-431).
THEOREM CastsAreSafe == Spec => []CastsAndDepthsAreValid
<1>1. IInv => CastsAndDepthsAreValid
  <2> SUFFICES ASSUME IInv
               PROVE  CastsAndDepthsAreValid
    OBVIOUS
  <2>1. TypeOK /\ RangeInv /\ PartitionInv
    BY DEF IInv
  <2>2. ASSUME NEW t \in Task, state[t] = "balancing", AsksPeer(partition[t])
        PROVE  parent[t] # WaitNode
    <3> SUFFICES ASSUME parent[t] = WaitNode
                 PROVE  FALSE
      OBVIOUS
    <3>1. partition[t].divisor >= FACTOR /\ PARTITIONER # "auto"
      BY <2>1, <2>2 DEF PartitionInv
    <3>2. FACTOR > 1 /\ FACTOR \in Nat
      BY <3>1, Constants
    <3>3. partition[t].divisor = 0 \/ partition[t].divisor = 1
      BY <2>2, <3>1 DEF AsksPeer
    <3>4. QED
      BY <3>1, <3>2, <3>3
  <2>3. ASSUME NEW t \in Task
        PROVE  /\ partition[t].max_depth >= 0
               /\ \A k \in DOMAIN pool[t] : pool[t][k].depth <= partition[t].max_depth
    <3>1. partition[t].max_depth \in Nat /\ DOMAIN pool[t] = 1 .. Len(pool[t])
      BY <2>1, TypeOf
    <3>2. GoodPool(pool[t], t, partition[t].max_depth)
      BY <2>1 DEF RangeInv
    <3>3. QED
      BY <3>1, <3>2 DEF GoodPool
  <2>4. QED
    BY <2>1, <2>2, <2>3 DEF CastsAndDepthsAreValid
<1>2. QED
  BY <1>1, ForInvariant, PTL

\* The slots of the tasks of one loop do not overlap: what one has noted no other
\* overwrites (partitioner.h:297-300).
THEOREM SlotsAreNotedOnce == Spec => SlotIsNotedOnce
<1> DEFINE Stays == \A s \in DOMAIN my_array : my_array[s] # NoTask => my_array'[s] = my_array[s]
<1>1. IInv /\ [Next]_vars => [Stays]_vars
  <2> SUFFICES ASSUME IInv, Next
               PROVE  Stays
    OBVIOUS
  <2>1. CASE Return
    BY <2>1 DEF Return
  <2>2. CASE \E t \in Task : Step(t)
    <3>1. PICK t \in Task : Step(t)
      BY <2>2
    <3>2. CASE SplitRange(t) \/ (Balance(t) /\ Offering(t))
      BY <3>2, ShareStep
    <3>3. CASE Execute(t)
      <4>1. CASE PARTITIONER = "affinity"
        <5>1. DOMAIN my_array = 0 .. Slots - 1
          BY DEF IInv, TypeOK
        <5>2. QED
          BY <3>3, <4>1, <5>1, ExecuteSlots DEF IInv
      <4>2. CASE PARTITIONER # "affinity"
        BY <3>3, <4>2 DEF Execute, note_affinity
      <4>3. QED
        BY <4>1, <4>2
    <3>4. CASE \/ RunWhole(t) \/ FillPool(t) \/ (Balance(t) /\ ~ Offering(t))
               \/ Continue(t) \/ EndBody(t) \/ Throw(t) \/ Cancel(t) \/ Fold(t)
      BY <3>4, SlotsKeep DEF IInv
    <3>5. QED
      BY <3>1, <3>2, <3>3, <3>4, StepCases
  <2>3. QED
    BY <2>1, <2>2 DEF Next
<1>2. QED
  BY <1>1, ForInvariant, PTL DEF Spec, SlotIsNotedOnce

-------------------------------------------------------------------------------
(* The tasks implement ParallelLoop.                                       *)

\* The indices on which bodies run, before and after a step.
LEMMA RunningMember ==
  ASSUME NEW x
  PROVE  /\ x \in Running <=> \E u \in Task : state[u] = "body" /\ x \in Chunk(u)
         /\ x \in Running' <=> \E u \in Task : state'[u] = "body" /\ x \in Chunk(u)'
BY DEF Running

\* The body runs on something.
LEMMA ChunkIsNotEmpty ==
  ASSUME TypeOK, RangeInv, NEW t \in Task, state[t] = "body"
  PROVE  Chunk(t) # {}
<1>1. /\ range[t][1] = t /\ t < range[t][2] /\ t \in Nat /\ range[t][2] \in 0 .. N
      /\ GoodPool(pool[t], t, partition[t].max_depth) /\ Len(pool[t]) \in Nat
  BY TypeOf DEF RangeInv
<1>2. CASE pool[t] = <<>>
  <2>1. t \in range[t][1] .. range[t][2] - 1
    BY <1>1
  <2>2. QED
    BY <1>2, <2>1, PendingIs DEF Elements
<1>3. CASE pool[t] # <<>>
  <2> DEFINE r == pool[t][Len(pool[t])]
  <2>1. Len(pool[t]) \in 1 .. Len(pool[t])
    BY <1>1, <1>3, EmptySeq, TypeOf
  <2>2. r \in Item /\ r.range[1] < r.range[2]
    BY <1>1, <2>1 DEF GoodPool
  <2>3. r.range \in (0 .. N) \X (0 .. N)
    BY <2>2 DEF Item
  <2>4. r.range[1] \in Int /\ r.range[2] \in Int
    BY <2>3, Constants
  <2> HIDE DEF r
  <2>5. r.range[1] \in Elements(r.range)
    BY <2>2, <2>4 DEF Elements
  <2>6. QED
    BY <1>3, <2>5, PendingIs DEF r
<1>4. QED
  BY <1>2, <1>3

\* A task that holds something keeps the caller waiting.
LEMMA HeldMeansWaiting ==
  ASSUME IInv, NEW t \in Task, state[t] \notin {"none", "dead"}
  PROVE  ~ returned
<1>1. Live(t)
  BY DEF Live
<1>2. m_wait # 0
  BY <1>1, Quiet DEF ReleasedMeansQuiet
<1>3. QED
  BY <1>2 DEF IInv, NodeInv

\* Only a body that throws cancels the group.
LEMMA OnlyThrowCancels ==
  ASSUME NEW t \in Task, Step(t)
  PROVE  /\ returned' = returned
         /\ cancelled' = cancelled \/ (cancelled' = TRUE /\ state[t] = "body")
<1>1. CASE Throw(t)
  BY <1>1 DEF Throw
<1>2. CASE Balance(t)
  BY <1>2, BalanceCases
<1>3. CASE Execute(t) \/ SplitRange(t) \/ RunWhole(t) \/ FillPool(t)
  BY <1>3 DEF Execute, SplitRange, RunWhole, FillPool
<1>4. CASE Continue(t) \/ EndBody(t) \/ Cancel(t) \/ Fold(t)
  BY <1>4 DEF Continue, EndBody, Cancel, Fold
<1>5. QED
  BY <1>1, <1>2, <1>3, <1>4 DEF Step

\* A step that makes no task begins a body, ends one, or changes nothing that the
\* loop promises.
LEMMA WorkMaps ==
  ASSUME IInv, NEW t \in Task, Step(t), Works(t), IInv'
  PROVE  Loop!Next \/ UNCHANGED Loop!vars
<1>1. /\ TypeOK /\ RangeInv /\ ChunkInv /\ IndicesAreHeldOnce
      /\ TypeOK' /\ RangeInv' /\ ChunkInv'
  BY DEF IInv
<1>2. /\ \A u \in Task : u # t => state'[u] = state[u] /\ Chunk(u)' = Chunk(u)
      /\ cancelled => cancelled'
  BY DEF Works
<1>3. returned' = returned /\ (cancelled' = cancelled \/ (cancelled' = TRUE /\ state[t] = "body"))
  BY OnlyThrowCancels
<1>4. CASE state'[t] # "body" /\ state[t] # "body"
  <2>1. begun' = begun
    BY <1>4 DEF Works
  <2>2. \A x : x \in Running' <=> x \in Running
    BY <1>2, <1>4, RunningMember
  <2>3. Running' = Running
    BY <2>2 DEF Running
  <2>4. QED
    BY <1>3, <1>4, <2>1, <2>3 DEF Loop!vars
<1>5. CASE state'[t] # "body" /\ state[t] = "body"
  <2>1. begun' = begun
    BY <1>5 DEF Works
  <2>2. \A x : x \in Running' => x \in Running
    BY <1>2, <1>5, RunningMember
  <2>3. PICK x : x \in Chunk(t)
    BY <1>1, <1>5, ChunkIsNotEmpty
  <2>4. x \in Running
    BY <1>5, <2>3, RunningMember
  <2>5. x \notin Running'
    <3> SUFFICES ASSUME x \in Running'
                 PROVE  FALSE
      OBVIOUS
    <3>1. PICK u \in Task : state'[u] = "body" /\ x \in Chunk(u)'
      BY RunningMember
    <3>2. u # t /\ state[u] = "body" /\ x \in Chunk(u)
      BY <1>2, <1>5, <3>1
    <3>3. Chunk(u) \cap Chunk(t) = {}
      BY <1>1, <1>5, <3>2 DEF ChunkInv
    <3>4. QED
      BY <2>3, <3>2, <3>3
  <2>6. Running' \subseteq Running /\ Running' # Running
    BY <2>2, <2>4, <2>5
  <2>7. cancelled' \in {cancelled, TRUE}
    BY <1>3
  <2>8. Loop!End
    BY <1>3, <2>1, <2>6, <2>7 DEF Loop!End
  <2>9. QED
    BY <2>8 DEF Loop!Next
<1>6. CASE state'[t] = "body"
  <2>1. /\ state[t] # "body" /\ begun' = begun \cup Chunk(t)' /\ cancelled' = cancelled
        /\ Pending(t) = Pending(t)' \cup Chunk(t)' /\ Chunk(t)' # {}
    BY <1>6 DEF Works
  <2>2. Chunk(t)' \subseteq Pending(t) /\ Pending(t) \cap begun = {}
    BY <1>1, <2>1 DEF IndicesAreHeldOnce
  <2>3. begun' \ begun = Chunk(t)' /\ begun' # begun /\ begun \subseteq begun'
    BY <2>1, <2>2
  <2>4. state[t] \notin {"none", "dead"}
    BY <1>1, <2>1, <2>2, PendingIs
  <2>5. ~ returned
    BY <2>4, HeldMeansWaiting
  <2>6. begun' \in SUBSET (0 .. N - 1)
    BY <1>1 DEF TypeOK, Index
  <2>7. \A x : x \in Running' <=> x \in Running \/ x \in Chunk(t)'
    BY <1>2, <1>6, <2>1, RunningMember
  <2>8. Running' = Running \cup (begun' \ begun)
    BY <2>3, <2>7
  <2>9. Loop!Begin
    BY <1>3, <2>1, <2>3, <2>5, <2>6, <2>8 DEF Loop!Begin, Loop!Index
  <2>10. QED
    BY <2>9 DEF Loop!Next
<1>7. QED
  BY <1>4, <1>5, <1>6

\* What the loop promises does not depend on who holds which indices.
LEMMA ShareMaps ==
  ASSUME IInv, NEW t \in Task, SplitRange(t) \/ (Balance(t) /\ Offering(t))
  PROVE  UNCHANGED Loop!vars
<1>1. /\ TypeOK /\ RangeInv /\ FreshInv
      /\ returned' = returned /\ state[t] \in {"splitting", "balancing"}
  BY ShareStep DEF IInv
<1>2. PICK c \in Task : Shares(t, c)
  BY ShareStep
<1>3. /\ state[c] = "none" /\ state'[c] = "spawned" /\ state'[t] # "body"
      /\ \A u \in Task : u # c /\ u # t => state'[u] = state[u]
  BY <1>1, <1>2, SharesIsFresh DEF After
<1>4. /\ \A u \in Task : u # t /\ u # c => Chunk(u)' = Chunk(u)
      /\ begun' = begun /\ cancelled' = cancelled
  BY <1>2 DEF Shares
<1>5. \A x : x \in Running' <=> x \in Running
  <2> TAKE x
  <2>1. \A u \in Task : state'[u] = "body" <=> state[u] = "body"
    BY <1>1, <1>3
  <2>2. \A u \in Task : state[u] = "body" => u # t /\ u # c
    BY <1>1, <1>3
  <2>3. QED
    BY <1>4, <2>1, <2>2, RunningMember
<1>6. Running' = Running
  BY <1>5 DEF Running
<1>7. QED
  BY <1>1, <1>4, <1>6 DEF Loop!vars

\* The caller goes on when every index has been given to the body, unless one threw.
LEMMA ReturnMaps ==
  ASSUME IInv, Return
  PROVE  Loop!Next
<1>1. /\ ~ returned /\ returned' = TRUE /\ m_wait = 0
      /\ begun' = begun /\ cancelled' = cancelled
      /\ UNCHANGED <<state, range, pool>>
  BY DEF Return
<1>2. \A t \in Task : state[t] \in {"none", "dead"}
  BY <1>1, Quiet DEF ReleasedMeansQuiet, Live
<1>3. Running = {} /\ Running' = {}
  BY <1>1, <1>2 DEF Running
<1>4. \A t \in Task : Pending(t) = {}
  BY <1>2, PendingIs DEF IInv
<1>5. begun = 0 .. N - 1 \/ cancelled
  <2>1. UNION {Pending(t) : t \in Task} = {}
    BY <1>4
  <2>2. cancelled \/ begun \cup UNION {Pending(t) : t \in Task} = Index
    BY DEF IInv, IndicesAreHeldOnce
  <2>3. QED
    BY <2>1, <2>2 DEF Index
<1>6. Loop!Return
  BY <1>1, <1>3, <1>5 DEF Loop!Return, Loop!Index
<1>7. QED
  BY <1>6 DEF Loop!Next

\* Every step of the tasks is a step of ParallelLoop or invisible to it: the body is
\* given nonempty sets of indices, each index once, and the caller continues when no
\* body runs and all indices have been given out or one has thrown.  This is the
\* safety part of ImplementsParallelLoop.
THEOREM TasksImplementLoop == Spec => Loop!Init /\ [][Loop!Next]_(Loop!vars)
<1>1. Init => Loop!Init
  <2> SUFFICES ASSUME Init
               PROVE  Loop!Init
    OBVIOUS
  <2>1. begun = {} /\ cancelled = FALSE /\ returned = FALSE
    BY DEF Init
  <2>2. \A t \in Task : state[t] # "body"
    BY DEF Init
  <2>3. Running = {}
    BY <2>2 DEF Running
  <2>4. QED
    BY <2>1, <2>3 DEF Loop!Init
<1>2. IInv /\ [Next]_vars => [Loop!Next]_(Loop!vars)
  <2> SUFFICES ASSUME IInv, [Next]_vars
               PROVE  Loop!Next \/ UNCHANGED Loop!vars
    OBVIOUS
  <2>1. CASE \E t \in Task : Step(t)
    <3>1. PICK t \in Task : Step(t)
      BY <2>1
    <3>2. CASE SplitRange(t) \/ (Balance(t) /\ Offering(t))
      BY <3>2, ShareMaps
    <3>3. CASE ~ (SplitRange(t) \/ (Balance(t) /\ Offering(t)))
      <4>1. IInv' /\ Works(t)
        BY <3>1, <3>3, StepCases, WorkStep
      <4>2. QED
        BY <3>1, <4>1, WorkMaps
    <3>4. QED
      BY <3>2, <3>3
  <2>2. CASE Return
    BY <2>2, ReturnMaps
  <2>3. CASE UNCHANGED vars
    <3>1. \A t \in Task : Chunk(t)' = Chunk(t) /\ state'[t] = state[t]
      BY <2>3, OthersSame DEF vars
    <3>2. \A x : x \in Running' <=> x \in Running
      BY <3>1, RunningMember
    <3>3. Running' = Running
      BY <3>2 DEF Running
    <3>4. QED
      BY <2>3, <3>3 DEF vars, Loop!vars
  <2>4. QED
    BY <2>1, <2>2, <2>3 DEF Next
<1>3. QED
  BY <1>1, <1>2, ForInvariant, PTL DEF Spec

===============================================================================
