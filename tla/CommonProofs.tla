----------------------------- MODULE CommonProofs ------------------------------
(***************************************************************************)
(* Lemmas on data that several proofs cite: the least and the largest      *)
(* element of a set of numbers, powers of two, division, the scan of a     *)
(* sequence of numbers for the first of the least, what appending and      *)
(* concatenating do to a list without repetitions, and sums over finite    *)
(* sets.                                                                   *)
(***************************************************************************)
EXTENDS Integers, Sequences, FiniteSets, Functions, SequenceTheorems, FiniteSetTheorems,
        WellFoundedInduction, TLAPS

\* Every non-empty set of naturals has a least element.
LEMMA LeastElement ==
  ASSUME NEW M \in SUBSET Nat, M # {}
  PROVE  \E least \in M : \A m \in M : least <= m
<1> DEFINE R == {pair \in Nat \X Nat : pair[1] < pair[2]}
<1>1. IsWellFoundedOn(R, Nat)
  BY NatLessThanWellFounded DEF OpToRel
<1> HIDE DEF R
<1>2. PICK least \in M : \A m \in M : ~ (<<m, least>> \in R)
  BY <1>1, WFMin
<1>3. \A m \in M : ~ (m < least)
  BY <1>2 DEF R
<1>4. QED
  BY <1>3

\* A bounded set of natural numbers has a largest element.
LEMMA LargestElement ==
  ASSUME NEW M \in SUBSET Nat, M # {}, NEW bound \in Nat, \A m \in M : m <= bound
  PROVE  \E largest \in M : \A m \in M : m <= largest
<1> DEFINE Gaps == {bound - m : m \in M}
<1>1. Gaps \in SUBSET Nat /\ Gaps # {}
  <2>1. \A m \in M : bound - m \in Nat
    OBVIOUS
  <2>2. QED
    BY <2>1
<1>2. PICK least \in Gaps : \A gap \in Gaps : least <= gap
  BY <1>1, LeastElement
<1>3. PICK largest \in M : least = bound - largest
  BY <1>2
<1>4. \A m \in M : bound - largest <= bound - m
  BY <1>2, <1>3
<1>5. QED
  BY <1>3, <1>4

\* Powers of two, of which the provers know nothing: they count subsets.
LEMMA PowerOfTwo ==
  ASSUME NEW k \in Nat
  PROVE  2^k \in Nat /\ 2^k > 0 /\ 2^(k + 1) = 2 * 2^k
<1> DEFINE S == 1 .. k
           Without == SUBSET S
           With    == {A \cup {k + 1} : A \in SUBSET S}
           f == [A \in Without |-> A \cup {k + 1}]
<1>1. IsFiniteSet(S) /\ Cardinality(S) = k /\ k + 1 \notin S
  BY FS_Interval
<1>2. IsFiniteSet(Without) /\ Cardinality(Without) = 2^k
  BY <1>1, FS_SUBSET
<1>3. Cardinality(SUBSET (1 .. k + 1)) = 2^(k + 1)
  <2>1. IsFiniteSet(1 .. k + 1) /\ Cardinality(1 .. k + 1) = k + 1
    BY FS_Interval
  <2>2. QED
    BY <2>1, FS_SUBSET
<1>4. 1 .. k + 1 = S \cup {k + 1}
  OBVIOUS
<1> HIDE DEF S
<1>5. SUBSET (S \cup {k + 1}) = Without \cup With /\ Without \cap With = {}
  <2>1. ASSUME NEW A \in SUBSET (S \cup {k + 1}), A \notin Without
        PROVE  A \in With
    <3>1. A = (A \ {k + 1}) \cup {k + 1} /\ A \ {k + 1} \in SUBSET S
      BY <2>1
    <3>2. QED
      BY <3>1
  <2>2. QED
    BY <1>1, <2>1
<1>6. f \in Bijection(Without, With)
  <2>1. \A A, B \in Without : A \cup {k + 1} = B \cup {k + 1} => A = B
    <3> SUFFICES ASSUME NEW A \in Without, NEW B \in Without, A \cup {k + 1} = B \cup {k + 1}
                 PROVE  A = B
      OBVIOUS
    <3>1. \A x : x \in A <=> x \in B
      BY <1>1
    <3>2. QED
      BY <3>1
  <2>2. f \in [Without -> With] /\ \A B \in With : \E A \in Without : f[A] = B
    OBVIOUS
  <2>3. \A A, B \in Without : f[A] = f[B] => A = B
    BY <2>1
  <2> HIDE DEF f, Without, With
  <2>4. QED
    BY <2>2, <2>3 DEF Bijection, Injection, Surjection, IsInjective
<1> HIDE DEF f, Without, With
<1>7. IsFiniteSet(With) /\ Cardinality(With) = 2^k
  BY <1>2, <1>6, FS_Bijection DEF ExistsBijection
<1>8. 2^(k + 1) = 2^k + 2^k - Cardinality({})
  BY <1>2, <1>3, <1>4, <1>5, <1>7, FS_Union
<1>9. 2^k \in Nat /\ 2^k # 0
  <2>1. {} \in Without
    BY DEF Without
  <2>2. QED
    BY <1>2, <2>1, FS_EmptySet, FS_CardinalityType
<1>10. QED
  BY <1>8, <1>9, FS_EmptySet

\* Two to the power of zero.
LEMMA PowerZero == 2^0 = 1
<1>1. IsFiniteSet({}) /\ Cardinality({}) = 0
  BY FS_EmptySet
<1>2. Cardinality(SUBSET {}) = 2^0
  BY <1>1, FS_SUBSET
<1>3. SUBSET {} = {{}}
  OBVIOUS
<1>4. Cardinality({{}}) = 1
  BY FS_Singleton
<1>5. QED
  BY <1>2, <1>3, <1>4

\* A larger exponent gives at least twice the power.
LEMMA PowersIncrease ==
  ASSUME NEW k \in Nat, NEW m \in Nat, k < m
  PROVE  2 * 2^k <= 2^m
<1> DEFINE Bad == {d \in Nat : ~ (2 * 2^k <= 2^(k + d + 1))}
<1>1. SUFFICES Bad = {}
  <2>1. m - k - 1 \in Nat /\ m = k + (m - k - 1) + 1
    OBVIOUS
  <2>2. QED
    BY <1>1, <2>1
<1>2. SUFFICES ASSUME Bad # {}
               PROVE  FALSE
  OBVIOUS
<1>3. PICK d \in Bad : \A c \in Bad : d <= c
  BY <1>2, LeastElement
<1>4. d # 0
  BY <1>3, PowerOfTwo
<1>5. d - 1 \in Nat /\ d - 1 \notin Bad
  BY <1>3, <1>4
<1>6. 2 * 2^k <= 2^(k + (d - 1) + 1)
  BY <1>5
<1>7. k + (d - 1) + 1 = k + d /\ k + d \in Nat
  BY <1>3
<1>8. 2^(k + d + 1) = 2 * 2^(k + d) /\ 2^(k + d) \in Nat /\ 2^k \in Nat
  BY <1>7, PowerOfTwo
<1>9. QED
  BY <1>3, <1>6, <1>7, <1>8

\* A number is less than the power of two with that exponent.
LEMMA PowerIsLarger ==
  ASSUME NEW k \in Nat
  PROVE  k < 2^k
<1> DEFINE Bad == {m \in Nat : ~ (m < 2^m)}
<1>1. SUFFICES ASSUME Bad # {}
               PROVE  FALSE
  OBVIOUS
<1>2. PICK m \in Bad : \A c \in Bad : m <= c
  BY <1>1, LeastElement
<1>3. m # 0
  BY <1>2, PowerOfTwo
<1>4. m - 1 \in Nat /\ m - 1 \notin Bad
  BY <1>2, <1>3
<1>5. m - 1 < 2^(m - 1)
  BY <1>4
<1>6. (m - 1) + 1 = m
  BY <1>2
<1>7. 2^(m - 1) \in Nat /\ 2^m = 2 * 2^(m - 1)
  BY <1>4, <1>6, PowerOfTwo
<1>8. m < 2 * 2^(m - 1)
  BY <1>2, <1>3, <1>5, <1>7
<1>9. QED
  BY <1>2, <1>7, <1>8

-------------------------------------------------------------------------------
(* Dividing.                                                               *)

\* Quotient and remainder are determined by what they add up to.
LEMMA QuotientUnique ==
  ASSUME NEW a \in Nat, NEW d \in Nat \ {0}, NEW q \in Nat, NEW r \in Nat,
         a = d * q + r, r < d
  PROVE  a \div d = q /\ a % d = r
<1>1. a \div d \in Int /\ a % d \in 0 .. d - 1 /\ a = d * (a \div d) + (a % d)
  OBVIOUS
<1> DEFINE p == a \div d
           s == a % d
<1>2. p \in Int /\ s \in Int /\ 0 <= s /\ s < d /\ d * p + s = d * q + r
  BY <1>1
<1> HIDE DEF p, s
<1>3. ~ (p < q)
  <2>1. SUFFICES ASSUME p + 1 <= q
                 PROVE  FALSE
    BY <1>2
  <2>2. d * (p + 1) <= d * q /\ d * (p + 1) = d * p + d
    BY <1>2, <2>1
  <2>3. QED
    BY <1>2, <2>2
<1>4. ~ (q < p)
  <2>1. SUFFICES ASSUME q + 1 <= p
                 PROVE  FALSE
    BY <1>2
  <2>2. d * (q + 1) <= d * p /\ d * (q + 1) = d * q + d
    BY <1>2, <2>1
  <2>3. QED
    BY <1>2, <2>2
<1>5. p = q
  BY <1>2, <1>3, <1>4
<1>6. s = r
  BY <1>2, <1>5
<1>7. QED
  BY <1>5, <1>6 DEF p, s

\* What dividing natural numbers gives.
LEMMA Division ==
  ASSUME NEW a \in Nat, NEW d \in Nat \ {0}
  PROVE  /\ a \div d \in Nat /\ a % d \in Nat /\ a % d < d
         /\ a = d * (a \div d) + (a % d)
<1>1. a \div d \in Int /\ a % d \in 0 .. d - 1 /\ a = d * (a \div d) + (a % d)
  OBVIOUS
<1> DEFINE p == a \div d
           s == a % d
<1>2. p \in Int /\ s \in Nat /\ s < d /\ a = d * p + s
  BY <1>1
<1> HIDE DEF p, s
<1>3. ~ (p < 0)
  <2>1. SUFFICES ASSUME p + 1 <= 0
                 PROVE  FALSE
    BY <1>2
  <2>2. d * (p + 1) <= 0 /\ d * (p + 1) = d * p + d
    BY <1>2, <2>1
  <2>3. QED
    BY <1>2, <2>2
<1>4. QED
  BY <1>2, <1>3 DEF p, s

\* Halving again and again is dividing by powers of two.
LEMMA Halving ==
  ASSUME NEW a \in Nat, NEW i \in Nat
  PROVE  /\ a \div 2^i \in Nat
         /\ a \div 2^0 = a
         /\ a \div 2^(i + 1) = (a \div 2^i) \div 2
<1>1. 2^i \in Nat \ {0} /\ 2^(i + 1) = 2 * 2^i
  BY PowerOfTwo
<1> DEFINE d == 2^i
           q == a \div d
           r == a % d
           h == q \div 2
           b == q % 2
<1>2. d \in Nat \ {0} /\ q \in Nat /\ r \in Nat /\ r < d /\ a = d * q + r
  BY <1>1, Division
<1> HIDE DEF d, q, r
<1>3. h \in Nat /\ b \in Nat /\ b < 2 /\ q = 2 * h + b
  BY <1>2
<1> HIDE DEF h, b
<1>4. a = (2 * d) * h + (d * b + r)
  BY <1>2, <1>3
<1>5. d * b + r \in Nat /\ d * b + r < 2 * d
  <2>1. b = 0 \/ b = 1
    BY <1>3
  <2>2. QED
    BY <1>2, <2>1
<1>6. 2 * d \in Nat \ {0}
  BY <1>2
<1>7. a \div (2 * d) = h
  BY <1>2, <1>3, <1>4, <1>5, <1>6, QuotientUnique
<1>8. a \div 1 = a
  OBVIOUS
<1>9. QED
  BY <1>1, <1>2, <1>7, <1>8, PowerZero DEF d, q, h

\* Dividing by a higher power leaves no more.
LEMMA HalvesDecrease ==
  ASSUME NEW a \in Nat, NEW i \in Nat, NEW j \in Nat, i <= j
  PROVE  a \div 2^j <= a \div 2^i
<1> DEFINE H(m) == a \div 2^m
           Bad == {d \in Nat : ~ (H(i + d) <= H(i))}
<1>1. \A m \in Nat : H(m) \in Nat /\ H(m + 1) <= H(m)
  <2> SUFFICES ASSUME NEW m \in Nat
               PROVE  H(m) \in Nat /\ H(m + 1) <= H(m)
    OBVIOUS
  <2>1. H(m) \in Nat /\ H(m + 1) = H(m) \div 2
    BY Halving
  <2> HIDE DEF H
  <2>2. QED
    BY <2>1
<1> HIDE DEF H
<1>2. Bad = {}
  <2> SUFFICES ASSUME Bad # {}
               PROVE  FALSE
    OBVIOUS
  <2>1. PICK d \in Bad : \A c \in Bad : d <= c
    BY LeastElement
  <2>2. d # 0
    BY <1>1, <2>1
  <2>3. d - 1 \in Nat /\ d - 1 \notin Bad
    BY <2>1, <2>2
  <2>4. H(i + (d - 1)) <= H(i) /\ i + (d - 1) \in Nat /\ (i + (d - 1)) + 1 = i + d
    BY <2>3
  <2>5. H(i + d) <= H(i + (d - 1))
    BY <1>1, <2>4
  <2>6. QED
    BY <1>1, <2>1, <2>4, <2>5
<1>3. j - i \in Nat /\ i + (j - i) = j
  OBVIOUS
<1>4. H(j) <= H(i)
  BY <1>2, <1>3
<1>5. QED
  BY <1>4 DEF H

-------------------------------------------------------------------------------
(* Scanning the numbers d[0] .. d[m] for the first of the least.           *)

\* One turn of the scan: f[k - 1] is the place of the best of the numbers before d[k].
ScanTurn(f, k, d) ==
  IF k = 0 THEN 0 ELSE IF d[k] < d[f[k - 1]] THEN k ELSE f[k - 1]

\* The scan of d[0] .. d[m] as a function.
IsScan(f, m, d) == \A k \in 0 .. m : f[k] = ScanTurn(f, k, d)

\* The scan exists, whatever is scanned: extend the scan of the numbers before the
\* last one by one turn.
LEMMA ScanExists ==
  ASSUME NEW last \in Nat, NEW d
  PROVE  \E f \in [0 .. last -> 0 .. last] : IsScan(f, last, d)
<1> DEFINE Scannable(m) == \E f \in [0 .. m -> 0 .. m] : IsScan(f, m, d)
           Bad == {m \in Nat : ~ Scannable(m)}
<1>1. Scannable(0)
  <2>1. [k \in 0 .. 0 |-> 0] \in [0 .. 0 -> 0 .. 0]
    OBVIOUS
  <2>2. IsScan([k \in 0 .. 0 |-> 0], 0, d)
    BY DEF IsScan, ScanTurn
  <2>3. QED
    BY <2>1, <2>2
<1>2. ASSUME NEW m \in Nat, Scannable(m)
      PROVE  Scannable(m + 1)
  <2>1. PICK f \in [0 .. m -> 0 .. m] : IsScan(f, m, d)
    BY <1>2
  <2> DEFINE new == ScanTurn(f, m + 1, d)
             g == [k \in 0 .. m + 1 |-> IF k = m + 1 THEN new ELSE f[k]]
  <2>2. new \in 0 .. m + 1
    BY DEF ScanTurn
  <2>3. g \in [0 .. m + 1 -> 0 .. m + 1]
    BY <2>2
  <2>4. ASSUME NEW k \in 0 .. m + 1
        PROVE  g[k] = ScanTurn(g, k, d)
    <3>1. CASE k = m + 1
      <4>1. g[m] = f[m]
        OBVIOUS
      <4>2. QED
        BY <3>1, <4>1 DEF ScanTurn
    <3>2. CASE k \in 0 .. m
      <4>1. g[k] = f[k] /\ f[k] = ScanTurn(f, k, d)
        BY <2>1, <3>2 DEF IsScan
      <4>2. k # 0 => g[k - 1] = f[k - 1]
        BY <3>2
      <4>3. QED
        BY <4>1, <4>2 DEF ScanTurn
    <3>3. QED
      BY <3>1, <3>2
  <2>5. QED
    BY <2>3, <2>4 DEF IsScan
<1> HIDE DEF Scannable
<1>3. Bad = {}
  <2> SUFFICES ASSUME Bad # {}
               PROVE  FALSE
    OBVIOUS
  <2>1. PICK m \in Bad : \A n \in Bad : m <= n
    BY LeastElement
  <2>2. m \in Nat \ {0} /\ ~ Scannable(m)
    BY <1>1, <2>1
  <2>3. m - 1 \in Nat /\ Scannable(m - 1)
    BY <2>1, <2>2
  <2>4. Scannable(m)
    BY <1>2, <2>2, <2>3
  <2>5. QED
    BY <2>2, <2>4
<1>4. QED
  BY <1>3 DEF Scannable

\* Place k has the first of the least of d[0] .. d[m].
FirstLeast(k, m, d) ==
  /\ k \in 0 .. m
  /\ \A j \in 0 .. m : d[k] <= d[j]
  /\ \A j \in 0 .. k - 1 : d[k] < d[j]

\* The scan ends at the first of the least.
LEMMA ScanFindsFirst ==
  ASSUME NEW last \in Nat, NEW d \in [0 .. last -> Nat], NEW best,
         best[0] = 0,
         \A k \in 1 .. last : best[k - 1] \in 0 .. k - 1 => best[k] = ScanTurn(best, k, d)
  PROVE  FirstLeast(best[last], last, d)
<1> DEFINE Bad == {m \in 0 .. last : ~ FirstLeast(best[m], m, d)}
<1>1. FirstLeast(best[0], 0, d)
  BY DEF FirstLeast
<1>2. ASSUME NEW m \in 0 .. last, m # 0, FirstLeast(best[m - 1], m - 1, d)
      PROVE  FirstLeast(best[m], m, d)
  <2> DEFINE b == best[m - 1]
  <2>1. m - 1 \in Nat /\ \A j \in 0 .. m : d[j] \in Nat
    BY <1>2
  <2>2. /\ b \in 0 .. m - 1
        /\ \A j \in 0 .. m - 1 : d[b] <= d[j]
        /\ \A j \in 0 .. b - 1 : d[b] < d[j]
    BY <1>2 DEF FirstLeast
  <2>3. best[m] = IF d[m] < d[b] THEN m ELSE b
    BY <1>2, <2>2 DEF ScanTurn
  <2> HIDE DEF b
  <2>4. d[b] \in Nat /\ d[m] \in Nat
    BY <1>2, <2>1, <2>2
  <2>5. CASE d[m] < d[b]
    <3>1. \A j \in 0 .. m - 1 : d[m] < d[j]
      BY <2>1, <2>2, <2>4, <2>5
    <3>2. QED
      BY <1>2, <2>1, <2>3, <2>5, <3>1 DEF FirstLeast
  <2>6. CASE ~ (d[m] < d[b])
    <3>1. \A j \in 0 .. m : d[b] <= d[j]
      BY <1>2, <2>1, <2>2, <2>4, <2>6
    <3>2. QED
      BY <1>2, <2>1, <2>2, <2>3, <2>6, <3>1 DEF FirstLeast
  <2>7. QED
    BY <2>5, <2>6
<1>3. Bad = {}
  <2> SUFFICES ASSUME Bad # {}
               PROVE  FALSE
    OBVIOUS
  <2>1. Bad \in SUBSET Nat
    OBVIOUS
  <2>2. PICK m \in Bad : \A n \in Bad : m <= n
    BY <2>1, LeastElement
  <2>3. m \in 0 .. last /\ m # 0 /\ m - 1 \in 0 .. last
    BY <1>1, <2>2
  <2>4. FirstLeast(best[m - 1], m - 1, d)
    BY <2>1, <2>2, <2>3
  <2>5. QED
    BY <1>2, <2>2, <2>3, <2>4
<1>4. QED
  BY <1>3

-------------------------------------------------------------------------------
(* Lists: what appending and concatenating do to the set of their items,   *)
(* and to their having no item twice.                                      *)

\* push_back adds one item to the set of a list's items.
LEMMA AppendPoints ==
  ASSUME NEW S, NEW s \in Seq(S), NEW e \in S
  PROVE  /\ Append(s, e) \in Seq(S)
         /\ Range(Append(s, e)) = Range(s) \cup {e}
         /\ IsInjective(s) /\ e \notin Range(s) => IsInjective(Append(s, e))
<1>1. /\ Append(s, e) \in Seq(S)
      /\ Len(Append(s, e)) = Len(s) + 1
      /\ \A i \in 1 .. Len(s) : Append(s, e)[i] = s[i]
      /\ Append(s, e)[Len(s) + 1] = e
  BY AppendProperties
<1>2. DOMAIN s = 1 .. Len(s) /\ DOMAIN Append(s, e) = 1 .. Len(s) + 1 /\ Len(s) \in Nat
  BY <1>1, LenProperties
<1>3. Range(Append(s, e)) = Range(s) \cup {e}
  BY <1>1, <1>2 DEF Range
<1>4. ASSUME IsInjective(s), e \notin Range(s)
      PROVE  IsInjective(Append(s, e))
  BY <1>1, <1>2, <1>4 DEF IsInjective, Range
<1>5. QED
  BY <1>1, <1>3, <1>4

\* Concatenation joins the sets; it makes no duplicate of two disjoint lists.
LEMMA ConcatPoints ==
  ASSUME NEW S, NEW s \in Seq(S), NEW t \in Seq(S)
  PROVE  /\ s \o t \in Seq(S)
         /\ Range(s \o t) = Range(s) \cup Range(t)
         /\ IsInjective(s) /\ IsInjective(t) /\ Range(s) \cap Range(t) = {}
              => IsInjective(s \o t)
<1>1. /\ s \o t \in Seq(S)
      /\ Len(s \o t) = Len(s) + Len(t)
      /\ \A i \in 1 .. Len(s) + Len(t) :
           (s \o t)[i] = IF i <= Len(s) THEN s[i] ELSE t[i - Len(s)]
  BY ConcatProperties
<1>2. /\ Len(s) \in Nat /\ Len(t) \in Nat
      /\ DOMAIN s = 1 .. Len(s) /\ DOMAIN t = 1 .. Len(t)
      /\ DOMAIN (s \o t) = 1 .. Len(s) + Len(t)
  BY <1>1, LenProperties
<1>3. Range(s) \cup Range(t) \subseteq Range(s \o t)
  <2>1. ASSUME NEW i \in 1 .. Len(s)
        PROVE  s[i] \in Range(s \o t)
    <3>1. (s \o t)[i] = s[i] /\ i \in DOMAIN (s \o t)
      BY <1>1, <1>2
    <3>2. QED
      BY <3>1 DEF Range
  <2>2. ASSUME NEW i \in 1 .. Len(t)
        PROVE  t[i] \in Range(s \o t)
    <3>1. (s \o t)[i + Len(s)] = t[i] /\ i + Len(s) \in DOMAIN (s \o t)
      BY <1>1, <1>2
    <3>2. QED
      BY <3>1 DEF Range
  <2>3. QED
    BY <1>2, <2>1, <2>2 DEF Range
<1>4. Range(s \o t) \subseteq Range(s) \cup Range(t)
  <2>1. ASSUME NEW i \in 1 .. Len(s) + Len(t)
        PROVE  (s \o t)[i] \in Range(s) \cup Range(t)
    <3>1. CASE i <= Len(s)
      BY <1>1, <1>2, <3>1 DEF Range
    <3>2. CASE ~ (i <= Len(s))
      <4>1. i - Len(s) \in DOMAIN t /\ (s \o t)[i] = t[i - Len(s)]
        BY <1>1, <1>2, <3>2
      <4>2. QED
        BY <4>1 DEF Range
    <3>3. QED
      BY <3>1, <3>2
  <2>2. QED
    BY <1>2, <2>1 DEF Range
<1>5. ASSUME IsInjective(s), IsInjective(t), Range(s) \cap Range(t) = {}
      PROVE  IsInjective(s \o t)
  <2>1. SUFFICES ASSUME NEW i \in 1 .. Len(s) + Len(t), NEW j \in 1 .. Len(s) + Len(t),
                        (s \o t)[i] = (s \o t)[j]
                 PROVE  i = j
    BY <1>2 DEF IsInjective
  <2>2. \A a \in 1 .. Len(s), b \in 1 .. Len(t) : s[a] # t[b]
    BY <1>2, <1>5 DEF Range
  <2>3. \A a, b \in 1 .. Len(s) : s[a] = s[b] => a = b
    BY <1>2, <1>5 DEF IsInjective
  <2>4. \A a, b \in 1 .. Len(t) : t[a] = t[b] => a = b
    BY <1>2, <1>5 DEF IsInjective
  <2>5. CASE i <= Len(s) /\ j <= Len(s)
    BY <1>1, <1>2, <2>1, <2>3, <2>5
  <2>6. CASE ~ (i <= Len(s)) /\ ~ (j <= Len(s))
    <3>1. t[i - Len(s)] = t[j - Len(s)] /\ i - Len(s) \in 1 .. Len(t)
            /\ j - Len(s) \in 1 .. Len(t)
      BY <1>1, <1>2, <2>1, <2>6
    <3>2. i - Len(s) = j - Len(s)
      BY <2>4, <3>1
    <3>3. QED
      BY <1>2, <3>2
  <2>7. CASE (i <= Len(s)) # (j <= Len(s))
    <3>1. \A a, b \in 1 .. Len(s) + Len(t) :
            a <= Len(s) /\ ~ (b <= Len(s)) => (s \o t)[a] # (s \o t)[b]
      <4>1. SUFFICES ASSUME NEW a \in 1 .. Len(s) + Len(t), NEW b \in 1 .. Len(s) + Len(t),
                            a <= Len(s), ~ (b <= Len(s))
                     PROVE  (s \o t)[a] # (s \o t)[b]
        OBVIOUS
      <4>2. /\ (s \o t)[a] = s[a] /\ a \in 1 .. Len(s)
            /\ (s \o t)[b] = t[b - Len(s)] /\ b - Len(s) \in 1 .. Len(t)
        BY <1>1, <1>2, <4>1
      <4>3. QED
        BY <2>2, <4>2
    <3>2. QED
      BY <2>1, <2>7, <3>1
  <2>8. QED
    BY <2>5, <2>6, <2>7
<1>6. QED
  BY <1>1, <1>3, <1>4, <1>5

\* A list that holds no item twice is no longer than there are items.
LEMMA InjectiveListIsShort ==
  ASSUME NEW S, IsFiniteSet(S), NEW s \in Seq(S), IsInjective(s)
  PROVE  Len(s) \in 0 .. Cardinality(S)
<1>1. Len(s) \in Nat /\ s \in [1 .. Len(s) -> S] /\ DOMAIN s = 1 .. Len(s)
  BY LenProperties
<1>2. s \in Injection(1 .. Len(s), S)
  BY <1>1 DEF Injection
<1>3. Cardinality(1 .. Len(s)) <= Cardinality(S) /\ Cardinality(S) \in Nat
  BY <1>2, FS_Injection, FS_CardinalityType
<1>4. Cardinality(1 .. Len(s)) = Len(s)
  BY <1>1, FS_Interval
<1>5. QED
  BY <1>1, <1>3, <1>4

\* A list that holds no item twice is an enumeration of the set of its items.
LEMMA InjectiveListEnumerates ==
  ASSUME NEW S, NEW s \in Seq(S), IsInjective(s)
  PROVE  s \in Injection(1 .. Cardinality(Range(s)), Range(s))
<1>1. Len(s) \in Nat /\ s \in [1 .. Len(s) -> Range(s)] /\ DOMAIN s = 1 .. Len(s)
  BY LenProperties DEF Range
<1>2. s \in Injection(1 .. Len(s), Range(s))
  BY <1>1 DEF Injection
<1>3. s \in Bijection(1 .. Len(s), Range(s))
  BY <1>1, <1>2 DEF Bijection, Surjection, Range
<1>4. Cardinality(Range(s)) = Len(s)
  BY <1>1, <1>3, FS_CountingElements DEF ExistsBijection
<1>5. QED
  BY <1>2, <1>4

-------------------------------------------------------------------------------
(* Sums of a function of numbers over a finite set.                        *)

\* Of the subsets of a finite set that have a property, one has it alone among those
\* that lack one element of it.
LEMMA SmallestSubset ==
  ASSUME NEW S, IsFiniteSet(S), NEW M \in SUBSET (SUBSET S), M # {}
  PROVE  \E T \in M : \A x \in T : T \ {x} \notin M
<1> DEFINE Sizes == {Cardinality(T) : T \in M}
<1>1. \A T \in M : IsFiniteSet(T) /\ Cardinality(T) \in Nat
  BY FS_Subset, FS_CardinalityType
<1>2. Sizes \in SUBSET Nat /\ Sizes # {}
  BY <1>1
<1>3. PICK least \in Sizes : \A m \in Sizes : least <= m
  BY <1>2, LeastElement
<1>4. PICK T \in M : Cardinality(T) = least
  BY <1>3
<1>5. \A x \in T : Cardinality(T \ {x}) = least - 1
  BY <1>1, <1>4, FS_RemoveElement
<1>6. \A x \in T : T \ {x} \notin M
  <2> SUFFICES ASSUME NEW x \in T, T \ {x} \in M
               PROVE  FALSE
    OBVIOUS
  <2>1. Cardinality(T \ {x}) \in Sizes
    OBVIOUS
  <2>2. least <= Cardinality(T \ {x})
    BY <1>3, <2>1
  <2>3. QED
    BY <1>1, <1>4, <1>5, <2>2
<1>7. QED
  BY <1>4, <1>6

\* The equation of SumFunctionOnSet.
Chosen(T) == CHOOSE x \in T : TRUE
SumTurn(g, f, T) == IF T = {} THEN 0 ELSE f[Chosen(T)] + g[T \ {Chosen(T)}]
IsSum(g, f, S) == g \in [SUBSET S -> Int] /\ \A T \in SUBSET S : g[T] = SumTurn(g, f, T)

\* A function that satisfies it exists: one that does on the sets of at most n elements
\* gives one that does on those of at most n + 1.
LEMMA SumExists ==
  ASSUME NEW S, IsFiniteSet(S), NEW f, \A x \in S : f[x] \in Int
  PROVE  \E g : IsSum(g, f, S)
<1> DEFINE Holds(g, n) == \A T \in SUBSET S : Cardinality(T) <= n => g[T] = SumTurn(g, f, T)
           Bad == {n \in Nat : ~ \E g \in [SUBSET S -> Int] : Holds(g, n)}
<1>1. \A T \in SUBSET S : /\ IsFiniteSet(T) /\ Cardinality(T) \in Nat
                          /\ Cardinality(T) <= Cardinality(S)
                          /\ T # {} => /\ Chosen(T) \in T /\ T \ {Chosen(T)} \in SUBSET S
                                       /\ Cardinality(T \ {Chosen(T)}) = Cardinality(T) - 1
  BY FS_Subset, FS_CardinalityType, FS_RemoveElement DEF Chosen
<1>2. 0 \notin Bad
  <2>1. \A T \in SUBSET S : Cardinality(T) <= 0 => T = {}
    <3> SUFFICES ASSUME NEW T \in SUBSET S, Cardinality(T) <= 0
                 PROVE  T = {}
      OBVIOUS
    <3>1. IsFiniteSet(T) /\ Cardinality(T) = 0
      <4>1. IsFiniteSet(T) /\ Cardinality(T) \in Nat
        BY <1>1
      <4>2. QED
        BY <4>1
    <3>2. QED
      BY <3>1, FS_EmptySet
  <2>2. Holds([T \in SUBSET S |-> 0], 0)
    BY <2>1 DEF SumTurn
  <2>3. [T \in SUBSET S |-> 0] \in [SUBSET S -> Int]
    OBVIOUS
  <2> HIDE DEF Holds
  <2>4. QED
    BY <2>2, <2>3
<1>3. ASSUME NEW n \in Nat, NEW g \in [SUBSET S -> Int], Holds(g, n)
      PROVE  n + 1 \notin Bad
  <2> DEFINE h == [T \in SUBSET S |-> SumTurn(g, f, T)]
  <2>1. h \in [SUBSET S -> Int]
    <3>1. \A T \in SUBSET S : SumTurn(g, f, T) \in Int
      <4> SUFFICES ASSUME NEW T \in SUBSET S, T # {}
                   PROVE  f[Chosen(T)] + g[T \ {Chosen(T)}] \in Int
        BY DEF SumTurn
      <4>1. Chosen(T) \in S /\ T \ {Chosen(T)} \in SUBSET S
        BY <1>1
      <4>2. f[Chosen(T)] \in Int /\ g[T \ {Chosen(T)}] \in Int
        BY <4>1
      <4>3. QED
        BY <4>2
    <3>2. QED
      BY <3>1
  <2>2. \A T \in SUBSET S : Cardinality(T) <= n => h[T] = g[T]
    BY <1>3
  <2>3. \A T \in SUBSET S : Cardinality(T) <= n + 1 => SumTurn(g, f, T) = SumTurn(h, f, T)
    <3> HIDE DEF h
    <3> QED
      BY <1>1, <2>2 DEF SumTurn
  <2>4. Holds(h, n + 1)
    BY <2>3
  <2> HIDE DEF Holds, h
  <2>5. QED
    BY <2>1, <2>4
<1>4. Bad = {}
  <2> SUFFICES ASSUME Bad # {}
               PROVE  FALSE
    OBVIOUS
  <2>1. PICK least \in Bad : \A n \in Bad : least <= n
    BY LeastElement
  <2> HIDE DEF Holds
  <2>a. Bad \in SUBSET Nat
    OBVIOUS
  <2>b. \A n \in Nat \ Bad : \E g \in [SUBSET S -> Int] : Holds(g, n)
    OBVIOUS
  <2> HIDE DEF Bad
  <2>2. least # 0 /\ least - 1 \in Nat /\ least - 1 \notin Bad
    BY <1>2, <2>1, <2>a
  <2>3. PICK g \in [SUBSET S -> Int] : Holds(g, least - 1)
    BY <2>2, <2>b
  <2>4. (least - 1) + 1 \notin Bad
    BY <1>3, <2>2, <2>3
  <2>5. QED
    BY <2>1, <2>4, <2>a
<1>5. PICK g \in [SUBSET S -> Int] : Holds(g, Cardinality(S))
  <2> HIDE DEF Holds
  <2> QED
    BY <1>1, <1>4
<1>6. IsSum(g, f, S)
  BY <1>1, <1>5 DEF IsSum
<1>7. QED
  BY <1>6

\* So SumFunctionOnSet satisfies it.
LEMMA SumEquation ==
  ASSUME NEW S, IsFiniteSet(S), NEW f, \A x \in S : f[x] \in Int
  PROVE  \E g : IsSum(g, f, S) /\ SumFunctionOnSet(f, S) = g[S]
<1>1. PICK g : IsSum(g, f, S)
  BY SumExists
<1> DEFINE IsIter(it) ==
             it = [s \in SUBSET S |->
                     IF s = {} THEN 0
                     ELSE f[CHOOSE x \in s : TRUE] + it[s \ {CHOOSE x \in s : TRUE}]]
           iter == CHOOSE it : IsIter(it)
<1>2. IsIter(g)
  BY <1>1 DEF IsSum, SumTurn, Chosen
<1>3. IsIter(iter)
  BY <1>2
<1>4. SumFunctionOnSet(f, S) = iter[S]
  BY DEF SumFunctionOnSet, FoldFunctionOnSet, MapThenFoldSet
<1>5. \A T \in SUBSET S : iter[T] = SumTurn(iter, f, T)
  <2> HIDE DEF iter
  <2> SUFFICES ASSUME NEW T \in SUBSET S
               PROVE  iter[T] = SumTurn(iter, f, T)
    OBVIOUS
  <2>1. iter[T] = [s \in SUBSET S |->
                     IF s = {} THEN 0
                     ELSE f[CHOOSE x \in s : TRUE] + iter[s \ {CHOOSE x \in s : TRUE}]][T]
    BY <1>3
  <2>2. QED
    BY <2>1 DEF SumTurn, Chosen
<1>6. iter = [s \in SUBSET S |-> iter[s]]
  <2> HIDE DEF iter
  <2> QED
    BY <1>3
<1> HIDE DEF iter
<1>7. \A T \in SUBSET S : iter[T] \in Int
  <2> DEFINE M == {T \in SUBSET S : iter[T] \notin Int}
  <2> SUFFICES ASSUME M # {}
               PROVE  FALSE
    OBVIOUS
  <2>1. PICK T \in M : \A x \in T : T \ {x} \notin M
    BY SmallestSubset
  <2>2. T # {} => Chosen(T) \in T /\ T \ {Chosen(T)} \in SUBSET S
    BY <2>1 DEF Chosen
  <2>3. T # {} => iter[T \ {Chosen(T)}] \in Int /\ f[Chosen(T)] \in Int
    BY <2>1, <2>2
  <2>4. iter[T] = IF T = {} THEN 0 ELSE f[Chosen(T)] + iter[T \ {Chosen(T)}]
    BY <1>5, <2>1 DEF SumTurn
  <2>5. iter[T] \in Int
    BY <2>3, <2>4
  <2>6. QED
    BY <2>1, <2>5
<1>8. iter \in [SUBSET S -> Int]
  BY <1>6, <1>7
<1>9. IsSum(iter, f, S)
  BY <1>5, <1>8 DEF IsSum
<1>10. QED
  BY <1>4, <1>9

\* Any element may be added last.
LEMMA SumStep ==
  ASSUME NEW S, IsFiniteSet(S), NEW f, \A x \in S : f[x] \in Int
  PROVE  /\ SumFunctionOnSet(f, S) \in Int
         /\ SumFunctionOnSet(f, {}) = 0
         /\ \A x \in S : SumFunctionOnSet(f, S) = f[x] + SumFunctionOnSet(f, S \ {x})
<1>1. ASSUME NEW A, NEW B, IsFiniteSet(A), IsFiniteSet(B),
             NEW g, IsSum(g, f, A), NEW h, IsSum(h, f, B)
      PROVE  \A T \in SUBSET (A \cap B) : g[T] = h[T]
  <2> DEFINE M == {T \in SUBSET (A \cap B) : g[T] # h[T]}
  <2> SUFFICES ASSUME M # {}
               PROVE  FALSE
    OBVIOUS
  <2>1. IsFiniteSet(A \cap B)
    BY <1>1, FS_Intersection
  <2>2. PICK T \in M : \A x \in T : T \ {x} \notin M
    BY <2>1, SmallestSubset
  <2>3. T \in SUBSET A /\ T \in SUBSET B /\ (T # {} => Chosen(T) \in T)
    BY <2>2 DEF Chosen
  <2>4. T # {} => g[T \ {Chosen(T)}] = h[T \ {Chosen(T)}]
    BY <2>2, <2>3
  <2>5. QED
    BY <1>1, <2>2, <2>3, <2>4 DEF IsSum, SumTurn
<1>2. PICK g : IsSum(g, f, S) /\ SumFunctionOnSet(f, S) = g[S]
  BY SumEquation
<1>3. ASSUME NEW T \in SUBSET S
      PROVE  SumFunctionOnSet(f, T) = g[T]
  <2>1. IsFiniteSet(T)
    BY FS_Subset
  <2>2. PICK h : IsSum(h, f, T) /\ SumFunctionOnSet(f, T) = h[T]
    BY <2>1, SumEquation
  <2>3. T \in SUBSET (T \cap S)
    OBVIOUS
  <2>4. \A U \in SUBSET (T \cap S) : h[U] = g[U]
    BY <1>1, <1>2, <2>1, <2>2
  <2>5. QED
    BY <2>2, <2>3, <2>4
<1>4. \A T \in SUBSET S : \A x \in T : g[T] = f[x] + g[T \ {x}]
  <2> DEFINE M == {T \in SUBSET S : ~ \A x \in T : g[T] = f[x] + g[T \ {x}]}
  <2> SUFFICES ASSUME M # {}
               PROVE  FALSE
    OBVIOUS
  <2>1. PICK T \in M : \A x \in T : T \ {x} \notin M
    BY SmallestSubset
  <2>2. PICK x \in T : g[T] # f[x] + g[T \ {x}]
    BY <2>1
  <2> DEFINE c == Chosen(T)
  <2>3. c \in T
    BY <2>2 DEF Chosen
  <2>4. g[T] = f[c] + g[T \ {c}]
    BY <1>2, <2>2 DEF IsSum, SumTurn
  <2> HIDE DEF c
  <2>5. x # c
    BY <2>2, <2>4
  <2>6. x \in T \ {c} /\ c \in T \ {x} /\ (T \ {c}) \ {x} = (T \ {x}) \ {c}
    BY <2>2, <2>3, <2>5
  <2>7. /\ g[T \ {c}] = f[x] + g[(T \ {c}) \ {x}]
        /\ g[T \ {x}] = f[c] + g[(T \ {x}) \ {c}]
    BY <2>1, <2>2, <2>3, <2>6
  <2>8. f[x] \in Int /\ f[c] \in Int /\ g[(T \ {x}) \ {c}] \in Int
    BY <1>2, <2>2, <2>3 DEF IsSum
  <2> DEFINE rest == g[(T \ {x}) \ {c}]
  <2>9. /\ g[T] = f[c] + (f[x] + rest)
        /\ g[T \ {x}] = f[c] + rest
    BY <2>4, <2>6, <2>7
  <2>10. f[x] + g[T \ {x}] = f[x] + (f[c] + rest)
    BY <2>9
  <2> HIDE DEF rest
  <2>11. f[c] + (f[x] + rest) = f[x] + (f[c] + rest)
    BY <2>8 DEF rest
  <2>12. QED
    BY <2>2, <2>9, <2>10, <2>11
<1>5. {} \in SUBSET S /\ S \in SUBSET S
  OBVIOUS
<1>6. g[{}] = 0
  BY <1>2 DEF IsSum, SumTurn
<1>7. g[S] \in Int
  BY <1>2, <1>5 DEF IsSum
<1>8. QED
  BY <1>2, <1>3, <1>4, <1>5, <1>6, <1>7

\* Functions that agree on a set have the same sum over it.
LEMMA SumsAgree ==
  ASSUME NEW S, IsFiniteSet(S), NEW f, NEW g, \A x \in S : f[x] \in Int /\ g[x] = f[x]
  PROVE  SumFunctionOnSet(g, S) = SumFunctionOnSet(f, S)
<1> DEFINE M == {T \in SUBSET S : SumFunctionOnSet(g, T) # SumFunctionOnSet(f, T)}
<1> SUFFICES ASSUME M # {}
             PROVE  FALSE
  <2>1. S \in SUBSET S
    OBVIOUS
  <2>2. QED
    BY <2>1
<1>1. PICK T \in M : \A x \in T : T \ {x} \notin M
  BY SmallestSubset
<1>2. T \in SUBSET S /\ IsFiniteSet(T) /\ \A x \in T : f[x] \in Int /\ g[x] \in Int /\ g[x] = f[x]
  BY <1>1, FS_Subset
<1>3. T # {}
  BY <1>1, <1>2, SumStep
<1>4. PICK x \in T : TRUE
  BY <1>3
<1>5. SumFunctionOnSet(g, T \ {x}) = SumFunctionOnSet(f, T \ {x})
  BY <1>1, <1>2, <1>4
<1>6. /\ SumFunctionOnSet(f, T) = f[x] + SumFunctionOnSet(f, T \ {x})
      /\ SumFunctionOnSet(g, T) = g[x] + SumFunctionOnSet(g, T \ {x})
  BY <1>2, <1>4, SumStep
<1>7. QED
  BY <1>1, <1>2, <1>4, <1>5, <1>6

\* A sum of natural numbers is one.
LEMMA SumIsNatural ==
  ASSUME NEW S, IsFiniteSet(S), NEW f, \A x \in S : f[x] \in Nat
  PROVE  SumFunctionOnSet(f, S) \in Nat
<1> DEFINE M == {T \in SUBSET S : SumFunctionOnSet(f, T) \notin Nat}
<1> SUFFICES ASSUME M # {}
             PROVE  FALSE
  <2>1. S \in SUBSET S
    OBVIOUS
  <2>2. QED
    BY <2>1
<1>1. PICK T \in M : \A x \in T : T \ {x} \notin M
  BY SmallestSubset
<1>2. T \in SUBSET S /\ IsFiniteSet(T) /\ \A x \in T : f[x] \in Int /\ f[x] \in Nat
  BY <1>1, FS_Subset
<1>3. T # {}
  <2>1. SumFunctionOnSet(f, {}) = 0
    BY <1>2, SumStep
  <2>2. QED
    BY <1>1, <2>1
<1>4. PICK x \in T : TRUE
  BY <1>3
<1>5. SumFunctionOnSet(f, T \ {x}) \in Nat
  BY <1>1, <1>2, <1>4
<1>6. SumFunctionOnSet(f, T) = f[x] + SumFunctionOnSet(f, T \ {x})
  BY <1>2, <1>4, SumStep
<1>7. QED
  BY <1>1, <1>2, <1>4, <1>5, <1>6

\* The sum over two sets that have nothing in common.
LEMMA SumUnion ==
  ASSUME NEW S, IsFiniteSet(S), NEW R, IsFiniteSet(R), S \cap R = {},
         NEW f, \A x \in S \cup R : f[x] \in Int
  PROVE  SumFunctionOnSet(f, S \cup R) = SumFunctionOnSet(f, S) + SumFunctionOnSet(f, R)
<1> DEFINE Bad(T) == SumFunctionOnSet(f, T \cup R)
                     # SumFunctionOnSet(f, T) + SumFunctionOnSet(f, R)
           M == {T \in SUBSET S : Bad(T)}
<1> SUFFICES ASSUME M # {}
             PROVE  FALSE
  <2>1. S \in SUBSET S
    OBVIOUS
  <2>2. QED
    BY <2>1
<1>1. PICK T \in M : \A x \in T : T \ {x} \notin M
  BY SmallestSubset
<1>2. /\ T \in SUBSET S /\ IsFiniteSet(T) /\ IsFiniteSet(T \cup R) /\ Bad(T)
      /\ \A x \in T : T \ {x} \in SUBSET S /\ IsFiniteSet(T \ {x})
      /\ \A x \in T \cup R : f[x] \in Int
  BY <1>1, FS_Subset, FS_Union
<1>3. SumFunctionOnSet(f, R) \in Int /\ SumFunctionOnSet(f, {}) = 0
  BY SumStep
<1>4. T # {}
  BY <1>2, <1>3
<1>5. PICK x \in T : TRUE
  BY <1>4
<1>6. SumFunctionOnSet(f, (T \ {x}) \cup R)
        = SumFunctionOnSet(f, T \ {x}) + SumFunctionOnSet(f, R)
  BY <1>1, <1>2, <1>5
<1>7. /\ SumFunctionOnSet(f, T) = f[x] + SumFunctionOnSet(f, T \ {x})
      /\ SumFunctionOnSet(f, T \cup R) = f[x] + SumFunctionOnSet(f, (T \cup R) \ {x})
  BY <1>2, <1>5, SumStep
<1>8. (T \cup R) \ {x} = (T \ {x}) \cup R
  BY <1>2, <1>5
<1>9. f[x] \in Int /\ SumFunctionOnSet(f, T \ {x}) \in Int
  BY <1>2, <1>5, SumStep
<1>10. Bad(T)
  BY <1>2
<1>11. SumFunctionOnSet(f, T \cup R) = f[x] + (SumFunctionOnSet(f, T \ {x})
                                               + SumFunctionOnSet(f, R))
  BY <1>6, <1>7, <1>8
<1>12. QED
  BY <1>3, <1>7, <1>9, <1>10, <1>11

\* The sum over a part, and the rest.
LEMMA SumOfPart ==
  ASSUME NEW S, IsFiniteSet(S), NEW T \in SUBSET S, NEW f, \A x \in S : f[x] \in Int
  PROVE  /\ SumFunctionOnSet(f, S) = SumFunctionOnSet(f, T) + SumFunctionOnSet(f, S \ T)
         /\ SumFunctionOnSet(f, T) \in Int /\ SumFunctionOnSet(f, S \ T) \in Int
<1>1. IsFiniteSet(T) /\ IsFiniteSet(S \ T)
  BY FS_Subset
<1>2. T \cup (S \ T) = S /\ T \cap (S \ T) = {}
  OBVIOUS
<1>3. QED
  BY <1>1, <1>2, SumUnion, SumStep

\* Smaller terms, smaller sum.
LEMMA SumIsMonotonic ==
  ASSUME NEW S, IsFiniteSet(S), NEW f, NEW g,
         \A x \in S : f[x] \in Int /\ g[x] \in Int /\ f[x] <= g[x]
  PROVE  SumFunctionOnSet(f, S) <= SumFunctionOnSet(g, S)
<1> DEFINE M == {T \in SUBSET S : ~ (SumFunctionOnSet(f, T) <= SumFunctionOnSet(g, T))}
<1> SUFFICES ASSUME M # {}
             PROVE  FALSE
  <2>1. S \in SUBSET S
    OBVIOUS
  <2>2. QED
    BY <2>1
<1>1. PICK T \in M : \A x \in T : T \ {x} \notin M
  BY SmallestSubset
<1>2. /\ T \in SUBSET S /\ IsFiniteSet(T)
      /\ \A x \in T : f[x] \in Int /\ g[x] \in Int /\ f[x] <= g[x]
      /\ ~ (SumFunctionOnSet(f, T) <= SumFunctionOnSet(g, T))
  BY <1>1, FS_Subset
<1>3. T # {}
  <2>1. SumFunctionOnSet(f, {}) = 0 /\ SumFunctionOnSet(g, {}) = 0
    BY <1>2, SumStep
  <2>2. QED
    BY <1>2, <2>1
<1>4. PICK x \in T : TRUE
  BY <1>3
<1>5. SumFunctionOnSet(f, T \ {x}) <= SumFunctionOnSet(g, T \ {x})
  BY <1>1, <1>2, <1>4
<1>6. /\ SumFunctionOnSet(f, T) = f[x] + SumFunctionOnSet(f, T \ {x})
      /\ SumFunctionOnSet(g, T) = g[x] + SumFunctionOnSet(g, T \ {x})
  BY <1>2, <1>4, SumStep
<1>7. IsFiniteSet(T \ {x})
  BY <1>2, FS_Subset
<1>8. SumFunctionOnSet(f, T \ {x}) \in Int /\ SumFunctionOnSet(g, T \ {x}) \in Int
  BY <1>2, <1>7, SumStep
<1>9. f[x] \in Int /\ g[x] \in Int /\ f[x] <= g[x]
  BY <1>2, <1>4
<1>10. QED
  BY <1>2, <1>5, <1>6, <1>8, <1>9

\* One smaller term among terms that are not larger makes a smaller sum.
LEMMA SumIsStrict ==
  ASSUME NEW S, IsFiniteSet(S), NEW f, NEW g,
         \A x \in S : f[x] \in Int /\ g[x] \in Int /\ f[x] <= g[x],
         NEW x \in S, f[x] < g[x]
  PROVE  SumFunctionOnSet(f, S) < SumFunctionOnSet(g, S)
<1>1. IsFiniteSet(S \ {x})
  BY FS_Subset
<1>2. SumFunctionOnSet(f, S \ {x}) <= SumFunctionOnSet(g, S \ {x})
  BY <1>1, SumIsMonotonic
<1>3. SumFunctionOnSet(f, S \ {x}) \in Int /\ SumFunctionOnSet(g, S \ {x}) \in Int
  BY <1>1, SumStep
<1>4. /\ SumFunctionOnSet(f, S) = f[x] + SumFunctionOnSet(f, S \ {x})
      /\ SumFunctionOnSet(g, S) = g[x] + SumFunctionOnSet(g, S \ {x})
  BY SumStep
<1>5. QED
  BY <1>2, <1>3, <1>4

\* What holds of the sums over the parts of a partition holds of the whole.
LEMMA SumByParts ==
  ASSUME NEW S, IsFiniteSet(S), NEW n \in Nat, NEW a \in [S -> 0 .. n - 1], NEW f, NEW g,
         \A x \in S : f[x] \in Int /\ g[x] \in Int,
         \A k \in 0 .. n - 1 : SumFunctionOnSet(f, {x \in S : a[x] = k})
                                 <= SumFunctionOnSet(g, {x \in S : a[x] = k})
  PROVE  SumFunctionOnSet(f, S) <= SumFunctionOnSet(g, S)
<1> DEFINE Low(k) == {x \in S : a[x] < k}
           Part(k) == {x \in S : a[x] = k}
           Bad == {k \in Nat : k <= n /\ ~ (SumFunctionOnSet(f, Low(k))
                                              <= SumFunctionOnSet(g, Low(k)))}
<1>1. \A k : IsFiniteSet(Low(k)) /\ IsFiniteSet(Part(k))
  BY FS_Subset
<1>2. Low(0) = {} /\ Low(n) = S
  OBVIOUS
<1>3. \A k \in 0 .. n - 1 : Low(k + 1) = Low(k) \cup Part(k) /\ Low(k) \cap Part(k) = {}
  OBVIOUS
<1>4. SumFunctionOnSet(f, {}) = 0 /\ SumFunctionOnSet(g, {}) = 0
  BY SumStep
<1>5. \A k : /\ SumFunctionOnSet(f, Low(k)) \in Int /\ SumFunctionOnSet(g, Low(k)) \in Int
             /\ SumFunctionOnSet(f, Part(k)) \in Int /\ SumFunctionOnSet(g, Part(k)) \in Int
  <2> SUFFICES ASSUME NEW k
               PROVE  /\ SumFunctionOnSet(f, Low(k)) \in Int
                      /\ SumFunctionOnSet(g, Low(k)) \in Int
                      /\ SumFunctionOnSet(f, Part(k)) \in Int
                      /\ SumFunctionOnSet(g, Part(k)) \in Int
    OBVIOUS
  <2>1. /\ IsFiniteSet(Low(k)) /\ IsFiniteSet(Part(k))
        /\ \A x \in Low(k) : f[x] \in Int /\ g[x] \in Int
        /\ \A x \in Part(k) : f[x] \in Int /\ g[x] \in Int
    BY <1>1
  <2> HIDE DEF Low, Part
  <2>2. QED
    BY <2>1, SumStep
<1>6. ASSUME NEW k \in 0 .. n - 1
      PROVE  /\ SumFunctionOnSet(f, Low(k + 1))
                  = SumFunctionOnSet(f, Low(k)) + SumFunctionOnSet(f, Part(k))
             /\ SumFunctionOnSet(g, Low(k + 1))
                  = SumFunctionOnSet(g, Low(k)) + SumFunctionOnSet(g, Part(k))
  <2>1. \A x \in Low(k) \cup Part(k) : f[x] \in Int /\ g[x] \in Int
    OBVIOUS
  <2>2. /\ IsFiniteSet(Low(k)) /\ IsFiniteSet(Part(k)) /\ Low(k) \cap Part(k) = {}
        /\ Low(k + 1) = Low(k) \cup Part(k)
    BY <1>1, <1>3
  <2> HIDE DEF Low, Part
  <2>3. QED
    BY <2>1, <2>2, SumUnion
<1>7. \A k \in 0 .. n - 1 : SumFunctionOnSet(f, Part(k)) <= SumFunctionOnSet(g, Part(k))
  OBVIOUS
<1> HIDE DEF Low, Part
<1>8. Bad = {}
  <2> SUFFICES ASSUME Bad # {}
               PROVE  FALSE
    OBVIOUS
  <2>1. PICK k \in Bad : \A m \in Bad : k <= m
    BY LeastElement
  <2>2. k # 0
    BY <1>2, <1>4, <2>1
  <2>3. k - 1 \in 0 .. n - 1 /\ (k - 1) + 1 = k
    BY <2>1, <2>2
  <2>4. k - 1 \notin Bad
    BY <2>1, <2>3
  <2>5. SumFunctionOnSet(f, Low(k - 1)) <= SumFunctionOnSet(g, Low(k - 1))
    BY <2>3, <2>4
  <2>6. ~ (SumFunctionOnSet(f, Low(k)) <= SumFunctionOnSet(g, Low(k)))
    BY <2>1
  <2> HIDE DEF Bad
  <2>7. QED
    BY <1>5, <1>6, <1>7, <2>3, <2>5, <2>6
<1>9. QED
  BY <1>2, <1>8

\* The terms of a sum may be listed under other names.
LEMMA SumRenamed ==
  ASSUME NEW S, NEW T, IsFiniteSet(T), NEW h \in Bijection(T, S),
         NEW f, \A x \in S : f[x] \in Int, NEW g, \A t \in T : g[t] = f[h[t]]
  PROVE  SumFunctionOnSet(g, T) = SumFunctionOnSet(f, S)
<1> DEFINE Image(U) == {h[t] : t \in U}
           Bad(U) == SumFunctionOnSet(g, U) # SumFunctionOnSet(f, Image(U))
           M == {U \in SUBSET T : Bad(U)}
<1>1. h \in [T -> S] /\ DOMAIN h = T /\ \A t, u \in T : h[t] = h[u] => t = u
  BY DEF Bijection, Injection, IsInjective
<1>2. Image(T) = S
  BY <1>1 DEF Bijection, Surjection
<1>3. IsFiniteSet(S)
  <2>1. ExistsBijection(T, S)
    BY DEF ExistsBijection
  <2>2. QED
    BY <2>1, FS_Bijection
<1> SUFFICES ASSUME M # {}
             PROVE  FALSE
  <2>1. T \in SUBSET T
    OBVIOUS
  <2>2. ~ Bad(T)
    BY <2>1
  <2>3. QED
    BY <1>2, <2>2
<1>4. PICK U \in M : \A t \in U : U \ {t} \notin M
  BY SmallestSubset
<1>5. /\ U \in SUBSET T /\ IsFiniteSet(U) /\ Bad(U)
      /\ \A t \in U : U \ {t} \in SUBSET T
      /\ Image(U) \in SUBSET S /\ IsFiniteSet(Image(U))
  <2>1. U \in SUBSET T /\ IsFiniteSet(U) /\ Bad(U) /\ Image(U) \in SUBSET S
    BY <1>1, <1>4, FS_Subset
  <2>2. IsFiniteSet(Image(U))
    BY <1>3, <2>1, FS_Subset
  <2>3. QED
    BY <2>1, <2>2
<1>6. U # {}
  <2>1. SumFunctionOnSet(g, {}) = 0 /\ SumFunctionOnSet(f, {}) = 0
    BY SumStep, FS_EmptySet
  <2>2. U = {} => Image(U) = {}
    OBVIOUS
  <2>3. QED
    BY <1>5, <2>1, <2>2
<1>7. PICK t \in U : TRUE
  BY <1>6
<1>8. SumFunctionOnSet(g, U \ {t}) = SumFunctionOnSet(f, Image(U \ {t}))
  BY <1>4, <1>5, <1>7
<1>9. Image(U \ {t}) = Image(U) \ {h[t]} /\ h[t] \in Image(U)
  BY <1>1, <1>5, <1>7
<1>10. SumFunctionOnSet(g, U) = g[t] + SumFunctionOnSet(g, U \ {t})
  <2>1. \A x \in U : g[x] \in Int
    BY <1>1, <1>5
  <2>2. QED
    BY <1>5, <1>7, <2>1, SumStep
<1>11. SumFunctionOnSet(f, Image(U)) = f[h[t]] + SumFunctionOnSet(f, Image(U) \ {h[t]})
  <2>1. \A x \in Image(U) : f[x] \in Int
    BY <1>5
  <2> HIDE DEF Image
  <2>2. QED
    BY <1>5, <1>9, <2>1, SumStep
<1>12. g[t] = f[h[t]]
  BY <1>5, <1>7
<1>13. QED
  BY <1>5, <1>8, <1>9, <1>10, <1>11, <1>12

\* There are finitely many functions from a finite set to a finite set: their graphs are
\* sets of pairs.
LEMMA FunctionsAreFinite ==
  ASSUME NEW S, NEW T, IsFiniteSet(S), IsFiniteSet(T)
  PROVE  IsFiniteSet([S -> T])
<1> DEFINE graph == [f \in [S -> T] |-> {<<x, f[x]>> : x \in S}]
<1>1. IsFiniteSet(SUBSET (S \X T))
  BY FS_Product, FS_SUBSET
<1>2. graph \in [[S -> T] -> SUBSET (S \X T)]
  OBVIOUS
<1>3. ASSUME NEW f \in [S -> T], NEW g \in [S -> T], graph[f] = graph[g]
      PROVE  f = g
  <2>1. \A x \in S : <<x, f[x]>> \in graph[g]
    BY <1>3
  <2>2. \A x \in S : f[x] = g[x]
    BY <2>1
  <2>3. QED
    BY <2>2
<1>4. graph \in Injection([S -> T], SUBSET (S \X T))
  <2>1. DOMAIN graph = [S -> T]
    OBVIOUS
  <2> HIDE DEF graph
  <2>2. QED
    BY <1>2, <1>3, <2>1 DEF Injection, IsInjective
<1>5. QED
  BY <1>1, <1>4, FS_Injection

-------------------------------------------------------------------------------
(* Sorting.                                                                *)

\* A permutation of n places that brings the numbers there into order.
Sorts(p, s, n) ==
  /\ p \in Bijection(1 .. n, 1 .. n)
  /\ \A j, k \in 1 .. n : j < k => s[p[j]] <= s[p[k]]

\* There is one for all numbers: a place with the least of the numbers that are left comes
\* next.
LEMMA SortingExists ==
  ASSUME NEW n \in Nat, NEW s, \A j \in 1 .. n : s[j] \in Nat
  PROVE  \E p : Sorts(p, s, n)
<1> DEFINE Left(p, m) == (1 .. n) \ {p[j] : j \in 1 .. m}
           Sorted(p, m) == /\ p \in Injection(1 .. m, 1 .. n)
                           /\ \A j, k \in 1 .. m : j < k => s[p[j]] <= s[p[k]]
                           /\ \A j \in 1 .. m, k \in Left(p, m) : s[p[j]] <= s[k]
           Bad == {m \in Nat : m <= n /\ ~ \E p : Sorted(p, m)}
<1>1. ASSUME NEW m \in Nat, m < n, NEW p, Sorted(p, m)
      PROVE  \E q : Sorted(q, m + 1)
  <2>1. /\ p \in [1 .. m -> 1 .. n]
        /\ \A j, k \in 1 .. m : p[j] = p[k] => j = k
    BY <1>1 DEF Injection, IsInjective
  <2>2. Left(p, m) # {}
    <3> SUFFICES ASSUME Left(p, m) = {}
                 PROVE  FALSE
      OBVIOUS
    <3>1. p \in Surjection(1 .. m, 1 .. n)
      <4>1. \A l \in 1 .. n : \E j \in 1 .. m : p[j] = l
        OBVIOUS
      <4>2. QED
        BY <2>1, <4>1 DEF Surjection
    <3>2. p \in Injection(1 .. m, 1 .. n)
      BY <1>1
    <3>3. /\ IsFiniteSet(1 .. n) /\ Cardinality(1 .. n) = n
          /\ Cardinality(1 .. m) = m
      BY FS_Interval
    <3>4. Cardinality(1 .. m) = Cardinality(1 .. n)
      BY <3>1, <3>2, <3>3, FS_Injection
    <3>5. QED
      BY <1>1, <3>3, <3>4
  <2>3. PICK k \in Left(p, m) : \A j \in Left(p, m) : s[k] <= s[j]
    <3> DEFINE M == {s[j] : j \in Left(p, m)}
    <3>1. M \in SUBSET Nat /\ M # {}
      BY <2>2
    <3>2. PICK least \in M : \A v \in M : least <= v
      BY <3>1, LeastElement
    <3>3. QED
      BY <3>2
  <2>4. k \in 1 .. n /\ \A j \in 1 .. m : p[j] # k
    BY <2>3
  <2> DEFINE q == [j \in 1 .. m + 1 |-> IF j = m + 1 THEN k ELSE p[j]]
  <2>5. /\ q[m + 1] = k /\ \A j \in 1 .. m : q[j] = p[j]
        /\ 1 .. m + 1 = (1 .. m) \cup {m + 1}
        /\ q \in [1 .. m + 1 -> 1 .. n]
    BY <2>1, <2>4
  <2> HIDE DEF q
  <2>6. q \in Injection(1 .. m + 1, 1 .. n)
    <3>1. \A i, j \in 1 .. m + 1 : q[i] = q[j] => i = j
      BY <2>1, <2>4, <2>5
    <3>2. QED
      BY <2>5, <3>1 DEF Injection, IsInjective
  <2>7. \A i, j \in 1 .. m + 1 : i < j => s[q[i]] <= s[q[j]]
    <3> SUFFICES ASSUME NEW i \in 1 .. m + 1, NEW j \in 1 .. m + 1, i < j
                 PROVE  s[q[i]] <= s[q[j]]
      OBVIOUS
    <3>1. i \in 1 .. m /\ q[i] = p[i]
      BY <2>5
    <3>2. CASE j \in 1 .. m
      BY <1>1, <2>5, <3>1, <3>2
    <3>3. CASE j = m + 1
      BY <1>1, <2>3, <2>5, <3>1, <3>3
    <3>4. QED
      BY <2>5, <3>2, <3>3
  <2>8. Left(q, m + 1) = Left(p, m) \ {k}
    BY <2>5
  <2>9. \A j \in 1 .. m + 1, l \in Left(q, m + 1) : s[q[j]] <= s[l]
    <3> SUFFICES ASSUME NEW j \in 1 .. m + 1, NEW l \in Left(q, m + 1)
                 PROVE  s[q[j]] <= s[l]
      OBVIOUS
    <3>1. l \in Left(p, m)
      BY <2>8
    <3>2. CASE j \in 1 .. m
      BY <1>1, <2>5, <3>1, <3>2
    <3>3. CASE j = m + 1
      BY <2>3, <2>5, <3>1, <3>3
    <3>4. QED
      BY <2>5, <3>2, <3>3
  <2>10. QED
    BY <2>6, <2>7, <2>9
<1>2. Sorted([j \in {} |-> j], 0)
  BY DEF Injection, IsInjective
<1> HIDE DEF Sorted
<1>3. Bad = {}
  <2> SUFFICES ASSUME Bad # {}
               PROVE  FALSE
    OBVIOUS
  <2>1. PICK m \in Bad : \A k \in Bad : m <= k
    BY LeastElement
  <2>2. m \in Nat /\ m <= n /\ m # 0
    BY <1>2, <2>1
  <2>3. m - 1 \in Nat /\ m - 1 < n /\ m - 1 \notin Bad /\ (m - 1) + 1 = m
    BY <2>1, <2>2
  <2>4. PICK p : Sorted(p, m - 1)
    BY <2>3
  <2>5. \E q : Sorted(q, (m - 1) + 1)
    BY <1>1, <2>3, <2>4
  <2>6. QED
    BY <2>1, <2>3, <2>5
<1>4. PICK p : Sorted(p, n)
  BY <1>3
<1>5. p \in Injection(1 .. n, 1 .. n) /\ \A j, k \in 1 .. n : j < k => s[p[j]] <= s[p[k]]
  BY <1>4 DEF Sorted
<1>6. p \in Surjection(1 .. n, 1 .. n)
  BY <1>5, FS_Interval, FS_Injection
<1>7. QED
  BY <1>5, <1>6 DEF Sorts, Bijection

\* The first half of the places in order holds the lower half of the numbers, the next
\* place the least of the rest, and the last place of the first half the largest of it.
LEMMA SortedHalves ==
  ASSUME NEW n \in Nat \ {0}, NEW s, \A j \in 1 .. n : s[j] \in Nat,
         NEW p, Sorts(p, s, n), NEW h \in Nat, h < n
  PROVE  \E low \in SUBSET (1 .. n) :
           LET lower == {s[j] : j \in low}
               upper == {s[j] : j \in (1 .. n) \ low}
           IN  /\ Cardinality(low) = h
               /\ \A t \in lower, u \in upper : t <= u
               /\ lower \subseteq Nat /\ upper \subseteq Nat
               /\ s[p[h + 1]] \in upper /\ \A u \in upper : s[p[h + 1]] <= u
               /\ h > 0 => s[p[h]] \in lower /\ \A t \in lower : s[p[h]] >= t
<1> DEFINE low == {p[j] : j \in 1 .. h}
<1>1. /\ p \in [1 .. n -> 1 .. n]
      /\ \A j, k \in 1 .. n : p[j] = p[k] => j = k
      /\ \A l \in 1 .. n : \E j \in 1 .. n : p[j] = l
      /\ \A j, k \in 1 .. n : j < k => s[p[j]] <= s[p[k]]
  BY DEF Sorts, Bijection, Injection, Surjection, IsInjective
<1>2. 1 .. h \subseteq 1 .. n
  OBVIOUS
<1>3. low \in SUBSET (1 .. n)
  BY <1>1, <1>2
<1>4. Cardinality(low) = h
  <2> DEFINE f == [j \in 1 .. h |-> p[j]]
  <2>1. f \in Bijection(1 .. h, low)
    <3>1. f \in [1 .. h -> low]
      OBVIOUS
    <3>2. \A j, k \in 1 .. h : f[j] = f[k] => j = k
      BY <1>1, <1>2
    <3>3. \A l \in low : \E j \in 1 .. h : f[j] = l
      OBVIOUS
    <3> HIDE DEF f, low
    <3>4. QED
      BY <3>1, <3>2, <3>3 DEF Bijection, Injection, Surjection, IsInjective
  <2>2. ExistsBijection(1 .. h, low)
    BY <2>1 DEF ExistsBijection
  <2>3. IsFiniteSet(1 .. h) /\ Cardinality(1 .. h) = h
    BY FS_Interval
  <2> HIDE DEF f, low
  <2>4. QED
    BY <2>2, <2>3, FS_Bijection
<1>5. \A l \in (1 .. n) \ low : \E k \in h + 1 .. n : p[k] = l
  BY <1>1
<1>6. \A k \in h + 1 .. n : k \in 1 .. n /\ p[k] \in (1 .. n) \ low
  <2> SUFFICES ASSUME NEW k \in h + 1 .. n
               PROVE  k \in 1 .. n /\ p[k] \in (1 .. n) \ low
    OBVIOUS
  <2>1. k \in 1 .. n /\ \A j \in 1 .. h : j # k
    OBVIOUS
  <2>2. \A j \in 1 .. h : p[j] # p[k]
    BY <1>1, <1>2, <2>1
  <2>3. QED
    BY <1>1, <2>1, <2>2
<1> DEFINE inOrder == [j \in 1 .. n |-> s[p[j]]]
<1>7. inOrder \in [1 .. n -> Nat] /\ \A j \in 1 .. n : inOrder[j] = s[p[j]]
  BY <1>1
<1>8. \A j, k \in 1 .. n : j < k => inOrder[j] <= inOrder[k]
  BY <1>1, <1>7
<1> HIDE DEF inOrder
<1>9. h + 1 \in 1 .. n /\ (h > 0 => h \in 1 .. n)
  OBVIOUS
<1>10. \A j \in 1 .. h, k \in h + 1 .. n : s[p[j]] <= s[p[k]]
  <2> SUFFICES ASSUME NEW j \in 1 .. h, NEW k \in h + 1 .. n
               PROVE  inOrder[j] <= inOrder[k]
    BY <1>2, <1>6, <1>7
  <2>1. j \in 1 .. n /\ k \in 1 .. n /\ j < k
    OBVIOUS
  <2>2. QED
    BY <1>8, <2>1
<1>11. \A k \in h + 1 .. n : s[p[h + 1]] <= s[p[k]]
  <2> SUFFICES ASSUME NEW k \in h + 1 .. n
               PROVE  inOrder[h + 1] <= inOrder[k]
    BY <1>6, <1>7, <1>9
  <2>1. k \in 1 .. n /\ (h + 1 < k \/ h + 1 = k)
    OBVIOUS
  <2>2. QED
    BY <1>7, <1>8, <1>9, <2>1
<1>12. \A j \in 1 .. h : s[p[h]] >= s[p[j]]
  <2> SUFFICES ASSUME NEW j \in 1 .. h
               PROVE  inOrder[j] <= inOrder[h]
    BY <1>2, <1>7, <1>9
  <2>1. j \in 1 .. n /\ (j < h \/ j = h) /\ h \in 1 .. n
    OBVIOUS
  <2>2. QED
    BY <1>7, <1>8, <2>1
<1>13. \A l \in low : \E j \in 1 .. h : p[j] = l
  OBVIOUS
<1>14. h + 1 \in h + 1 .. n /\ (h > 0 => h \in 1 .. h)
  OBVIOUS
<1>15. h > 0 => p[h] \in low
  OBVIOUS
<1> HIDE DEF low
<1>16. \A l \in 1 .. n : s[l] \in Nat
  OBVIOUS
<1>17. QED
  <2> DEFINE lower == {s[j] : j \in low}
             upper == {s[j] : j \in (1 .. n) \ low}
  <2>1. \A t \in lower : \E j \in 1 .. h : t = s[p[j]]
    BY <1>13
  <2>2. \A u \in upper : \E k \in h + 1 .. n : u = s[p[k]]
    BY <1>5
  <2>3. lower \subseteq Nat /\ upper \subseteq Nat
    BY <1>3, <1>16
  <2>4. s[p[h + 1]] \in upper
    BY <1>6, <1>14
  <2>5. h > 0 => s[p[h]] \in lower
    BY <1>15
  <2> HIDE DEF lower, upper
  <2>6. \A t \in lower, u \in upper : t <= u
    BY <1>10, <2>1, <2>2
  <2>7. \A u \in upper : s[p[h + 1]] <= u
    BY <1>11, <2>2
  <2>8. \A t \in lower : s[p[h]] >= t
    BY <1>12, <2>1
  <2>9. QED
    BY <1>3, <1>4, <2>3, <2>4, <2>5, <2>6, <2>7, <2>8 DEF lower, upper

===============================================================================
