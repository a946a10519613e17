----------------------------- MODULE PrimesProofs ------------------------------
(***************************************************************************)
(* Safety of the prime counters for every number of threads, every N and   *)
(* every width of int and long: the inductive invariants IInv of           *)
(* PrimeDynamic, PrimeStatic, PrimeTbb and PrimeTest, what follows from    *)
(* them, and that each of the three counters implements PrimeCount.        *)
(***************************************************************************)
EXTENDS MCPrimes, CommonProofs, TLAPS

-------------------------------------------------------------------------------
(* Widths.                                                                 *)

\* The bounds of int and long.
LEMMA Widths ==
  /\ 2^(INT_BITS - 1) \in Nat /\ 2^(INT_BITS - 1) >= 2
  /\ INT_BITS # 2 => \E h \in Nat : 2^(INT_BITS - 1) = 2 * h /\ h >= 2
  /\ 2^(LONG_BITS - 1) \in Nat /\ 2^(LONG_BITS - 1) > 0
  /\ 2^LONG_BITS = 2 * 2^(LONG_BITS - 1)
<1>1. INT_BITS \in Nat /\ INT_BITS >= 2 /\ LONG_BITS \in Nat /\ LONG_BITS >= 2
  BY WidthsAssumption
<1>2. /\ INT_BITS - 2 \in Nat /\ LONG_BITS - 1 \in Nat
      /\ (INT_BITS - 2) + 1 = INT_BITS - 1 /\ (LONG_BITS - 1) + 1 = LONG_BITS
  BY <1>1
<1>3. /\ 2^(INT_BITS - 2) \in Nat /\ 2^(INT_BITS - 2) > 0
      /\ 2^((INT_BITS - 2) + 1) = 2 * 2^(INT_BITS - 2)
  BY <1>2, PowerOfTwo
<1>4. INT_BITS # 2 => 2^(INT_BITS - 2) >= 2
  <2> SUFFICES ASSUME INT_BITS # 2
               PROVE  2^(INT_BITS - 2) >= 2
    OBVIOUS
  <2>1. INT_BITS - 3 \in Nat /\ (INT_BITS - 3) + 1 = INT_BITS - 2
    BY <1>1
  <2>2. /\ 2^(INT_BITS - 3) \in Nat /\ 2^(INT_BITS - 3) > 0
        /\ 2^((INT_BITS - 3) + 1) = 2 * 2^(INT_BITS - 3)
    BY <2>1, PowerOfTwo
  <2>3. QED
    BY <2>1, <2>2
<1>5. /\ 2^(LONG_BITS - 1) \in Nat /\ 2^(LONG_BITS - 1) > 0
      /\ 2^((LONG_BITS - 1) + 1) = 2 * 2^(LONG_BITS - 1)
  BY <1>2, PowerOfTwo
<1>6. QED
  BY <1>2, <1>3, <1>4, <1>5

-------------------------------------------------------------------------------
(* The dynamic count: sizes.                                               *)

\* The vector holds n numbers, or none.
LEMMA SizeIsN ==
  ASSUME n \in Int, nums = setup_dynamic(n)
  PROVE  /\ Size = IF n > 0 THEN n ELSE 0
         /\ Size \in Nat
         /\ \A j \in Position : nums[j + 1] = n - j
<1> DEFINE size == IF n > 0 THEN n ELSE 0
<1>1. size \in Nat /\ 1 .. n = 1 .. size
  OBVIOUS
<1>2. Size = size
  <2>1. nums = [j \in 1 .. size |-> n - j + 1]
    BY <1>1 DEF setup_dynamic
  <2> HIDE DEF size
  <2>2. QED
    BY <1>1, <2>1 DEF Size
<1>3. QED
  BY <1>1, <1>2 DEF Position, setup_dynamic

\* The argument is a number.
LEMMA InputsAreInts == TypeOK => n \in Int
BY WidthsAssumption DEF TypeOK

\* As many threads as NUM_THREADS.
LEMMA ThreadIsFinite == IsFiniteSet(Thread) /\ Cardinality(Thread) = NUM_THREADS
<1>1. NUM_THREADS \in Nat /\ NUM_THREADS > 0
  BY ThreadsAssumption
<1>2. QED
  BY <1>1, FS_Interval DEF Thread

\* The threads in one state, and those past testing, are finitely many.
LEMMA ThreadsAreFinite ==
  ASSUME NEW s
  PROVE  /\ IsFiniteSet(Threads(s)) /\ Cardinality(Threads(s)) \in Nat
         /\ IsFiniteSet(Past) /\ Cardinality(Past) \in Nat
         /\ Cardinality(Past) <= NUM_THREADS
<1>1. Threads(s) \in SUBSET Thread /\ Past \in SUBSET Thread
  BY DEF Threads, Past
<1>2. IsFiniteSet(Threads(s)) /\ IsFiniteSet(Past) /\ Cardinality(Past) <= NUM_THREADS
  BY <1>1, ThreadIsFinite, FS_Subset
<1>3. QED
  BY <1>2, FS_CardinalityType

\* The primes among the tested numbers are finitely many.
LEMMA PrimesAreFinite ==
  ASSUME TypeOK, NEW T
  PROVE  IsFiniteSet(PrimesOf(T)) /\ Cardinality(PrimesOf(T)) \in Nat
<1>1. IsFiniteSet(Position)
  <2>1. Size - 1 \in Int
    BY SizeIsN, InputsAreInts DEF TypeOK
  <2>2. QED
    BY <2>1, FS_Interval DEF Position
<1>2. PrimesOf(T) \in SUBSET Position
  BY DEF PrimesOf
<1>3. IsFiniteSet(PrimesOf(T))
  BY <1>1, <1>2, FS_Subset
<1>4. QED
  BY <1>3, FS_CardinalityType

-------------------------------------------------------------------------------

\* The initial states satisfy the invariant.
LEMMA InitInv == Init => IInv
<1> SUFFICES ASSUME Init
             PROVE  IInv
  OBVIOUS
<1>1. NUM_THREADS \in Nat /\ NUM_THREADS > 0
  BY ThreadsAssumption
<1>2. n \in Int /\ Size \in Nat
  BY SizeIsN, WidthsAssumption DEF Init
<1>3. TypeOK
  BY <1>1 DEF Init, TypeOK, Thread
<1>4. Threads("finished") = {} /\ Past = {} /\ Threads("testing") = {}
  BY DEF Init, Threads, Past
<1>5. \A T : Nobody \notin T => PrimesOf(T) = {}
  BY DEF Init, PrimesOf
<1>6. Nobody \notin {} /\ \A t \in Thread : Nobody \notin {t}
  BY <1>1 DEF Nobody, Thread
<1>7. CountInv
  BY <1>4, <1>5, <1>6, FS_EmptySet DEF Init, CountInv
<1>8. IndexInv
  BY <1>4 DEF Init, IndexInv, Position
<1>9. PastInv
  BY <1>2, <1>4, FS_EmptySet DEF Init, PastInv
<1>10. OrderInv
  BY <1>1 DEF Init, OrderInv, Thread
<1>11. QED
  BY <1>3, <1>7, <1>8, <1>9, <1>10 DEF IInv

-------------------------------------------------------------------------------
(* One lemma per action: it preserves IInv.                                *)

\* StartThread keeps the invariant.
LEMMA StartThreadInv ==
  ASSUME IInv, StartThread
  PROVE  IInv'
<1> USE DEF StartThread
<1>1. NUM_THREADS \in Nat /\ started \in Thread /\ state[started] = "unborn"
  BY ThreadsAssumption DEF IInv, TypeOK, OrderInv, Thread
<1>2. TypeOK'
  BY <1>1 DEF IInv, TypeOK, Position, Size
<1>3. /\ Threads("testing")' = Threads("testing")
      /\ Threads("finished")' = Threads("finished")
      /\ Past' = Past
  BY <1>1 DEF IInv, TypeOK, Threads, Past
<1>4. IndexInv'
  BY <1>3 DEF IInv, IndexInv, Position, Size
<1>5. PastInv'
  BY <1>3 DEF IInv, PastInv, Size
<1>6. CountInv'
  BY <1>3 DEF IInv, CountInv, PrimesOf, Position, Size
<1>7. OrderInv'
  BY <1>1 DEF IInv, TypeOK, OrderInv, Thread
<1>8. QED
  BY <1>2, <1>4, <1>5, <1>6, <1>7 DEF IInv

\* FetchIndex keeps the invariant.
LEMMA FetchIndexInv ==
  ASSUME IInv, NEW t \in Thread, FetchIndex(t)
  PROVE  IInv'
<1> USE DEF FetchIndex
<1>1. Size \in Nat /\ Size' = Size /\ Position' = Position /\ next_index \in Nat
  BY SizeIsN, InputsAreInts DEF IInv, TypeOK, Size, Position
<1>2. TypeOK'
  BY <1>1 DEF IInv, TypeOK
<1>3. Threads("finished")' = Threads("finished")
  BY DEF IInv, TypeOK, Threads
<1>4. CountInv'
  BY <1>1, <1>3 DEF IInv, CountInv, PrimesOf
<1>5. OrderInv'
  BY DEF IInv, TypeOK, OrderInv
<1>6. CASE next_index >= Size
  <2>1. Threads("testing")' = Threads("testing") /\ Past' = Past \cup {t} /\ t \notin Past
    BY <1>6 DEF IInv, TypeOK, Threads, Past
  <2>2. \A u \in Threads("testing") : index'[u] = index[u]
    BY DEF IInv, TypeOK, Threads
  <2>3. Cardinality(Past') = Cardinality(Past) + 1 /\ Cardinality(Past) \in Nat
    BY <2>1, ThreadsAreFinite, FS_AddElement
  <2>4. PastInv'
    BY <1>1, <1>6, <2>3 DEF IInv, PastInv
  <2>5. IndexInv'
    <3>1. \A u \in Threads("testing") : index[u] \in Nat
      BY DEF IInv, TypeOK, Threads
    <3>2. \A j \in Position : j < next_index /\ j < next_index + 1 /\ j \in Int
      BY <1>1, <1>6 DEF Position
    <3>3. \A u \in Threads("testing") : index[u] < next_index + 1
      BY <1>1, <3>1 DEF IInv, IndexInv
    <3>4. QED
      BY <1>1, <2>1, <2>2, <3>2, <3>3 DEF IInv, IndexInv
  <2>6. QED
    BY <1>2, <1>4, <1>5, <2>4, <2>5 DEF IInv
<1>7. CASE next_index < Size
  <2>1. /\ Threads("testing")' = Threads("testing") \cup {t} /\ t \notin Threads("testing")
        /\ Past' = Past
    BY <1>1, <1>7 DEF IInv, TypeOK, Threads, Past
  <2>2. /\ \A u \in Threads("testing") : index'[u] = index[u] /\ index[u] \in Nat
        /\ index'[t] = next_index
    BY DEF IInv, TypeOK, Threads
  <2>3. PastInv'
    BY <1>1, <1>7, <2>1, ThreadsAreFinite DEF IInv, PastInv
  <2>4. next_index \in Position /\ tested_by[next_index] = Nobody
    BY <1>1, <1>7 DEF IInv, IndexInv, Position
  <2>5. IndexInv'
    <3>1. \A u \in Threads("testing") : index[u] < next_index /\ index[u] < next_index + 1
      BY <1>1, <2>2 DEF IInv, IndexInv
    <3>2. ASSUME NEW j \in Position
          PROVE  /\ j >= next_index + 1 => tested_by[j] = Nobody
                 /\ j < next_index + 1 =>
                      \/ tested_by[j] # Nobody
                      \/ \E u \in Threads("testing")' : index'[u] = j
      <4>1. j \in Int
        BY <1>1 DEF Position
      <4>2. CASE j = next_index
        BY <1>1, <2>1, <2>2, <4>2
      <4>3. CASE j # next_index
        <5>1. j < next_index + 1 => j < next_index
          BY <1>1, <4>1, <4>3
        <5>2. j >= next_index + 1 => j >= next_index
          BY <1>1, <4>1
        <5>3. QED
          BY <2>1, <2>2, <5>1, <5>2 DEF IInv, IndexInv
      <4>4. QED
        BY <4>2, <4>3
    <3>3. \A u \in Threads("testing")' :
            /\ index'[u] \in Position
            /\ index'[u] < next_index + 1
            /\ tested_by[index'[u]] = Nobody
      BY <1>1, <2>1, <2>2, <2>4, <3>1 DEF IInv, IndexInv
    <3>4. \A u, v \in Threads("testing")' : u # v => index'[u] # index'[v]
      BY <1>1, <2>1, <2>2, <3>1 DEF IInv, IndexInv
    <3>5. QED
      BY <1>1, <3>2, <3>3, <3>4 DEF IndexInv
  <2>6. QED
    BY <1>2, <1>4, <1>5, <2>3, <2>5 DEF IInv
<1>8. QED
  BY <1>1, <1>6, <1>7

\* TestNumber keeps the invariant.
LEMMA TestNumberInv ==
  ASSUME IInv, NEW t \in Thread, TestNumber(t)
  PROVE  IInv'
<1> DEFINE i == index[t]
<1> USE DEF TestNumber
<1>1. Size \in Nat /\ Size' = Size /\ Position' = Position /\ next_index \in Nat
  BY SizeIsN, InputsAreInts DEF IInv, TypeOK, Size, Position
<1>2. t \in Threads("testing") /\ i \in Position /\ tested_by[i] = Nobody
  BY DEF IInv, IndexInv, Threads
<1>3. /\ tested_by' \in [Position -> Thread \cup {Nobody}]
      /\ tested_by'[i] = t
      /\ \A j \in Position : j # i => tested_by'[j] = tested_by[j]
  BY <1>2 DEF IInv, TypeOK
<1>4. t # Nobody
  BY ThreadsAssumption DEF Thread, Nobody
<1>5. TypeOK'
  BY <1>1, <1>3 DEF IInv, TypeOK
<1>6. /\ Threads("testing")' = Threads("testing") \ {t}
      /\ Threads("finished")' = Threads("finished")
      /\ Past' = Past
      /\ t \notin Threads("finished")
  BY DEF IInv, TypeOK, Threads, Past
<1>7. IndexInv'
  <2>1. ASSUME NEW u \in Threads("testing") \ {t}
        PROVE  /\ index'[u] \in Position
               /\ index'[u] < next_index
               /\ tested_by'[index'[u]] = Nobody
    <3>1. index[u] # i
      BY <1>2 DEF IInv, IndexInv
    <3>2. QED
      BY <1>3, <3>1 DEF IInv, IndexInv
  <2>2. \A u, v \in Threads("testing") \ {t} : u # v => index'[u] # index'[v]
    BY DEF IInv, IndexInv
  <2>3. ASSUME NEW j \in Position
        PROVE  /\ j >= next_index => tested_by'[j] = Nobody
               /\ j < next_index => \/ tested_by'[j] # Nobody
                                    \/ \E u \in Threads("testing") \ {t} : index'[u] = j
    <3>1. CASE j = i
      <4>1. i < next_index /\ i \in Nat
        BY <1>2 DEF IInv, TypeOK, IndexInv
      <4>2. QED
        BY <1>1, <1>3, <1>4, <3>1, <4>1
    <3>2. CASE j # i
      BY <1>3, <3>2 DEF IInv, IndexInv
    <3>3. QED
      BY <3>1, <3>2
  <2>4. QED
    BY <1>1, <1>6, <2>1, <2>2, <2>3 DEF IndexInv
<1>8. PastInv'
  BY <1>1, <1>6 DEF IInv, PastInv
<1>9. OrderInv'
  BY DEF IInv, TypeOK, OrderInv
<1>10. ASSUME NEW T, t \notin T, Nobody \notin T
       PROVE  PrimesOf(T)' = PrimesOf(T)
  BY <1>1, <1>2, <1>3, <1>10 DEF PrimesOf
<1>11. PrimesOf({t})' = IF is_prime(nums[i + 1])
                        THEN PrimesOf({t}) \cup {i}
                        ELSE PrimesOf({t})
  BY <1>1, <1>2, <1>3, <1>4 DEF PrimesOf
<1>12. i \notin PrimesOf({t})
  BY <1>2, <1>4 DEF PrimesOf
<1>13. local_count'[t] = Cardinality(PrimesOf({t}))'
  <2>1. IsFiniteSet(PrimesOf({t})) /\ local_count[t] = Cardinality(PrimesOf({t}))
    BY PrimesAreFinite DEF IInv, CountInv
  <2>2. local_count'[t] = IF is_prime(nums[i + 1]) THEN local_count[t] + 1
                                                  ELSE local_count[t]
    BY DEF IInv, TypeOK
  <2> HIDE DEF i
  <2>3. CASE is_prime(nums[i + 1])
    <3>1. Cardinality(PrimesOf({t}) \cup {i}) = Cardinality(PrimesOf({t})) + 1
      BY <1>12, <2>1, FS_AddElement
    <3>2. QED
      BY <1>11, <2>1, <2>2, <2>3, <3>1
  <2>4. CASE ~ is_prime(nums[i + 1])
    BY <1>11, <2>1, <2>2, <2>4
  <2>5. QED
    BY <2>3, <2>4
<1>14. \A u \in Thread : Nobody # u
  BY ThreadsAssumption DEF Thread, Nobody
<1>15. \A u \in Thread \ {t} : local_count'[u] = Cardinality(PrimesOf({u}))'
  <2> SUFFICES ASSUME NEW u \in Thread \ {t}
               PROVE  local_count'[u] = Cardinality(PrimesOf({u}))'
    OBVIOUS
  <2>1. PrimesOf({u})' = PrimesOf({u})
    BY <1>10, <1>14
  <2>2. QED
    BY <2>1 DEF IInv, TypeOK, CountInv
<1>16. prime_count' = Cardinality(PrimesOf(Threads("finished")))'
  <2>1. Nobody \notin Threads("finished")
    BY <1>14 DEF Threads
  <2>2. PrimesOf(Threads("finished"))' = PrimesOf(Threads("finished"))
    BY <1>1, <1>2, <1>3, <1>6, <2>1 DEF PrimesOf
  <2>3. QED
    BY <2>2 DEF IInv, CountInv
<1>17. CountInv'
  BY <1>13, <1>15, <1>16 DEF CountInv
<1>18. QED
  BY <1>5, <1>7, <1>8, <1>9, <1>17 DEF IInv

\* AddLocalCount keeps the invariant.
LEMMA AddLocalCountInv ==
  ASSUME IInv, NEW t \in Thread, AddLocalCount(t)
  PROVE  IInv'
<1> DEFINE F == Threads("finished")
<1> USE DEF AddLocalCount
<1>1. Size' = Size /\ Position' = Position
  BY DEF Size, Position
<1>2. TypeOK'
  BY <1>1 DEF IInv, TypeOK
<1>3. /\ Threads("testing")' = Threads("testing")
      /\ F' = F \cup {t}
      /\ t \notin F
      /\ Past' = Past
  BY DEF IInv, TypeOK, Threads, Past
<1>4. IndexInv'
  BY <1>1, <1>3 DEF IInv, IndexInv
<1>5. PastInv'
  BY <1>1, <1>3 DEF IInv, PastInv
<1>6. OrderInv'
  BY DEF IInv, TypeOK, OrderInv
<1>7. \A u \in Thread : PrimesOf({u})' = PrimesOf({u})
  BY <1>1 DEF PrimesOf
<1>8. PrimesOf(F)' = PrimesOf(F) \cup PrimesOf({t}) /\ PrimesOf(F) \cap PrimesOf({t}) = {}
  BY <1>1, <1>3 DEF PrimesOf
<1>9. Cardinality(PrimesOf(F) \cup PrimesOf({t}))
        = Cardinality(PrimesOf(F)) + Cardinality(PrimesOf({t}))
  <2> HIDE DEF F
  <2>1. /\ IsFiniteSet(PrimesOf(F)) /\ Cardinality(PrimesOf(F)) \in Nat
        /\ IsFiniteSet(PrimesOf({t})) /\ Cardinality(PrimesOf({t})) \in Nat
    BY PrimesAreFinite DEF IInv
  <2>2. Cardinality(PrimesOf(F) \cup PrimesOf({t}))
          = Cardinality(PrimesOf(F)) + Cardinality(PrimesOf({t})) - Cardinality({})
    BY <1>8, <2>1, FS_Union
  <2>3. QED
    BY <2>1, <2>2, FS_EmptySet
<1>10. CountInv'
  BY <1>7, <1>8, <1>9 DEF IInv, CountInv
<1>11. QED
  BY <1>2, <1>4, <1>5, <1>6, <1>10 DEF IInv

\* JoinThread keeps the invariant.
LEMMA JoinThreadInv ==
  ASSUME IInv, JoinThread
  PROVE  IInv'
<1> USE DEF JoinThread
<1>1. /\ Size' = Size /\ Position' = Position /\ Past' = Past
      /\ \A s : Threads(s)' = Threads(s)
  BY DEF Size, Position, Threads, Past
<1>2. TypeOK'
  BY <1>1, ThreadsAssumption DEF IInv, TypeOK
<1>3. IndexInv' /\ PastInv' /\ CountInv'
  <2>1. IndexInv'
    BY <1>1 DEF IInv, IndexInv
  <2>2. PastInv'
    BY <1>1 DEF IInv, PastInv
  <2>3. /\ \A u \in Thread : PrimesOf({u})' = PrimesOf({u})
        /\ PrimesOf(Threads("finished"))' = PrimesOf(Threads("finished"))
    BY <1>1 DEF PrimesOf
  <2>4. CountInv'
    BY <2>3 DEF IInv, CountInv
  <2>5. QED
    BY <2>1, <2>2, <2>4
<1>4. OrderInv'
  BY ThreadsAssumption DEF IInv, TypeOK, OrderInv, Thread
<1>5. QED
  BY <1>2, <1>3, <1>4 DEF IInv

\* Every step keeps the invariant.
LEMMA NextInv == IInv /\ [Next]_vars => IInv'
<1> SUFFICES ASSUME IInv, [Next]_vars
             PROVE  IInv'
  OBVIOUS
<1>1. CASE UNCHANGED vars
  BY <1>1 DEF vars, IInv, TypeOK, IndexInv, PastInv, CountInv, OrderInv, Past, Threads,
              PrimesOf, Position, Size
<1>2. CASE Next
  BY <1>2, StartThreadInv, FetchIndexInv, TestNumberInv, AddLocalCountInv, JoinThreadInv
     DEF Next, Run
<1>3. QED
  BY <1>1, <1>2

\* IInv holds in every state of every run.
THEOREM Invariant == Spec => []IInv
BY InitInv, NextInv, PTL DEF Spec

\* No variable leaves its type.
THEOREM TypeCorrect == Spec => []TypeOK
<1>1. IInv => TypeOK
  BY DEF IInv
<1>2. QED
  BY <1>1, Invariant, PTL

\* No two threads ever test the same number, and no number is tested twice.
THEOREM NoNumberTwice == Spec => []EachNumberOnce
<1>1. IInv => EachNumberOnce
  BY DEF IInv, IndexInv, EachNumberOnce, Threads
<1>2. QED
  BY <1>1, Invariant, PTL

\* The shared index never exceeds the size of the vector by more than the number of
\* threads.
THEOREM BoundedOvershoot == Spec => []OvershootIsBounded
<1>1. IInv => OvershootIsBounded
  <2> SUFFICES ASSUME IInv
               PROVE  next_index <= Size + NUM_THREADS
    BY DEF OvershootIsBounded
  <2>1. Size \in Nat /\ next_index \in Nat /\ NUM_THREADS \in Nat
    BY SizeIsN, InputsAreInts, ThreadsAssumption DEF IInv, TypeOK
  <2>2. Cardinality(Past) \in Nat /\ Cardinality(Past) <= NUM_THREADS
    BY ThreadsAreFinite
  <2>3. QED
    BY <2>1, <2>2 DEF IInv, PastInv
<1>2. QED
  BY <1>1, Invariant, PTL

-------------------------------------------------------------------------------

\* There are as many prime positions as there are primes up to n: position j holds
\* the number n - j.
LEMMA PrimePositions ==
  ASSUME n \in Int, nums = setup_dynamic(n)
  PROVE  Cardinality({j \in Position : is_prime(nums[j + 1])}) = find_primes_serial(n)
<1> DEFINE P == {j \in Position : is_prime(nums[j + 1])}
           Q == {i \in 1 .. n : is_prime(i)}
           f == [i \in Q |-> n - i]
<1>1. Position = {j \in Nat : j < n} /\ \A j \in Position : nums[j + 1] = n - j
  BY SizeIsN DEF Position
<1>2. \A i \in Q : n - i \in P
  BY <1>1
<1>3. \A j \in P : n - j \in Q /\ n - (n - j) = j
  BY <1>1
<1>4. f \in [Q -> P]
  BY <1>2
<1>5. \A i, k \in Q : f[i] = f[k] => i = k
  OBVIOUS
<1>6. \A j \in P : \E i \in Q : f[i] = j
  BY <1>3
<1>7. IsFiniteSet(Q)
  <2>1. IsFiniteSet(1 .. n)
    BY FS_Interval
  <2>2. QED
    BY <2>1, FS_Subset
<1>8. ExistsBijection(Q, P)
  <2> HIDE DEF f, P, Q
  <2>1. f \in Bijection(Q, P)
    BY <1>4, <1>5, <1>6 DEF Bijection, Injection, Surjection, IsInjective
  <2>2. QED
    BY <2>1 DEF ExistsBijection
<1>9. Cardinality(P) = Cardinality(Q)
  <2> HIDE DEF P, Q
  <2>1. QED
    BY <1>7, <1>8, FS_Bijection
<1>10. QED
  BY <1>9 DEF find_primes_serial

\* When find_primes_dynamic returns, whatever the interleaving of its threads, it
\* returns what find_primes_serial returns.
THEOREM CountIsExact == Spec => []ResultIsExact
<1>1. IInv => ResultIsExact
  <2> SUFFICES ASSUME IInv, Returned
               PROVE  prime_count = find_primes_serial(n)
    BY DEF ResultIsExact
  <2>1. NUM_THREADS \in Nat /\ NUM_THREADS > 0 /\ 0 \in Thread
    BY ThreadsAssumption DEF Thread
  <2>2. \A t \in Thread : state[t] = "finished"
    BY <2>1 DEF IInv, OrderInv, Returned, Thread
  <2>3. Threads("testing") = {} /\ Threads("finished") = Thread /\ Past # {}
    BY <2>1, <2>2 DEF Threads, Past
  <2>4. next_index >= Size /\ Size \in Nat /\ next_index \in Nat
    BY <2>3, SizeIsN, InputsAreInts DEF IInv, TypeOK, PastInv
  <2>5. \A j \in Position : tested_by[j] \in Thread
    BY <2>3, <2>4 DEF IInv, TypeOK, IndexInv, Position
  <2>6. PrimesOf(Thread) = {j \in Position : is_prime(nums[j + 1])}
    BY <2>5 DEF PrimesOf
  <2>7. QED
    BY <2>3, <2>6, PrimePositions, InputsAreInts DEF IInv, TypeOK, CountInv
<1>2. QED
  BY <1>1, Invariant, PTL

-------------------------------------------------------------------------------
(* PrimeDynamic implements PrimeCount: only the addition of a thread's     *)
(* count to the total, and the last join, are steps that it sees.          *)

D == INSTANCE PrimeCount WITH
        left <- NotAdded, count <- prime_count, returned <- Returned

\* PrimeCount and the program share their definitions.
LEMMA SharedDefinitions ==
  /\ \A m : D!is_prime(m) = is_prime(m)
  /\ \A S : D!Cardinality(S) = Cardinality(S)
<1>1. \A m : D!is_prime(m) = is_prime(m)
  BY DEF D!is_prime, is_prime
<1>2. \A S : D!Cardinality(S) = Cardinality(S)
  BY DEF D!Cardinality, Cardinality
<1>3. QED
  BY <1>1, <1>2

\* The numbers at the positions are those from 1 to n, each at one position.
LEMMA NumbersOfPositions ==
  ASSUME n \in Int, nums = setup_dynamic(n)
  PROVE  /\ \A j \in Position : nums[j + 1] \in 1 .. n /\ nums[j + 1] = n - j /\ j \in Nat
         /\ \A m \in 1 .. n : n - m \in Position /\ nums[(n - m) + 1] = m
<1>1. Position = {j \in Nat : j < n} /\ \A j \in Position : nums[j + 1] = n - j
  BY SizeIsN DEF Position
<1>2. \A m \in 1 .. n : n - m \in Nat /\ n - m < n /\ n - (n - m) = m
  OBVIOUS
<1>3. \A j \in Position : n - j \in 1 .. n
  BY <1>1
<1>4. QED
  BY <1>1, <1>2, <1>3

\* What is left is what the unfinished threads and nobody have tested.
LEMMA LeftInNumbers ==
  ASSUME n \in Int, nums = setup_dynamic(n), NEW m
  PROVE  m \in NotAdded <=>
           m \in 1 .. n /\ n - m \in Position /\ tested_by[n - m] \notin Threads("finished")
<1>1. /\ \A j \in Position : nums[j + 1] \in 1 .. n /\ nums[j + 1] = n - j /\ j \in Nat
      /\ \A k \in 1 .. n : n - k \in Position /\ nums[(n - k) + 1] = k
  BY NumbersOfPositions
<1>2. ASSUME m \in NotAdded
      PROVE  m \in 1 .. n /\ n - m \in Position /\ tested_by[n - m] \notin Threads("finished")
  <2>1. PICK j \in Position : tested_by[j] \notin Threads("finished") /\ m = nums[j + 1]
    BY <1>2 DEF NotAdded
  <2>2. n - m = j
    BY <1>1, <2>1
  <2>3. QED
    BY <1>1, <2>1, <2>2
<1>3. ASSUME m \in 1 .. n, n - m \in Position, tested_by[n - m] \notin Threads("finished")
      PROVE  m \in NotAdded
  <2>1. nums[(n - m) + 1] = m
    BY <1>1, <1>3
  <2>2. QED
    BY <1>3, <2>1 DEF NotAdded
<1>4. QED
  BY <1>2, <1>3

\* The initial states are those of the abstract specification.
LEMMA InitMaps == Init => D!Init
<1> SUFFICES ASSUME Init
             PROVE  D!Init
  OBVIOUS
<1>1. NUM_THREADS \in Nat \ {0} /\ n \in Int /\ nums = setup_dynamic(n)
  BY ThreadsAssumption, WidthsAssumption DEF Init
<1>2. Threads("finished") = {} /\ Returned = FALSE
  BY <1>1 DEF Init, Threads, Returned
<1>3. NotAdded = 1 .. n
  BY <1>1, <1>2, LeftInNumbers, NumbersOfPositions
<1>4. QED
  BY <1>2, <1>3 DEF Init, D!Init

\* A step that adds nothing and does not return.
LEMMA StutterMaps ==
  ASSUME UNCHANGED <<n, NotAdded, prime_count, Returned>>
  PROVE  UNCHANGED D!vars
BY DEF D!vars

\* Starting a thread, taking a position and testing a number are invisible.
LEMMA PrivateStepMaps ==
  ASSUME IInv, \/ StartThread
               \/ \E t \in Thread : FetchIndex(t) \/ TestNumber(t)
  PROVE  UNCHANGED D!vars
<1>1. UNCHANGED <<n, nums, prime_count, joined>> /\ Position' = Position
  BY DEF StartThread, FetchIndex, TestNumber, Position, Size
<1>2. Threads("finished")' = Threads("finished")
  <2>1. CASE StartThread
    <3>1. started \in Thread /\ state[started] = "unborn"
      BY <2>1, ThreadsAssumption DEF StartThread, IInv, TypeOK, OrderInv, Thread
    <3>2. QED
      BY <2>1, <3>1 DEF StartThread, IInv, TypeOK, Threads
  <2>2. ASSUME NEW t \in Thread, FetchIndex(t) \/ TestNumber(t)
        PROVE  Threads("finished")' = Threads("finished")
    BY <2>2 DEF FetchIndex, TestNumber, IInv, TypeOK, Threads
  <2>3. QED
    BY <2>1, <2>2
<1>3. \A j \in Position : tested_by'[j] \in Threads("finished")
                            <=> tested_by[j] \in Threads("finished")
  <2>1. CASE UNCHANGED tested_by
    BY <2>1
  <2>2. ASSUME NEW t \in Thread, TestNumber(t)
        PROVE  \A j \in Position : tested_by'[j] \in Threads("finished")
                                     <=> tested_by[j] \in Threads("finished")
    <3>1. t \notin Threads("finished") /\ Nobody \notin Threads("finished")
      BY <2>2, ThreadsAssumption DEF TestNumber, Threads, Thread, Nobody
    <3>2. tested_by[index[t]] = Nobody
      BY <2>2 DEF TestNumber, IInv, IndexInv, Threads
    <3>3. QED
      BY <2>2, <3>1, <3>2 DEF TestNumber, IInv, TypeOK
  <2>3. QED
    BY <2>1, <2>2 DEF StartThread, FetchIndex
<1>4. NotAdded' = NotAdded
  BY <1>1, <1>2, <1>3 DEF NotAdded
<1>5. QED
  BY <1>1, <1>4, StutterMaps DEF Returned

\* A thread's count enters the total, and the numbers it has tested leave what is left.
LEMMA AddLocalCountMaps ==
  ASSUME IInv, NEW t \in Thread, AddLocalCount(t)
  PROVE  D!AddSome
<1> DEFINE F == Threads("finished")
           added == {m \in NotAdded \ NotAdded' : is_prime(m)}
           f == [j \in PrimesOf({t}) |-> n - j]
<1>1. /\ state[t] = "adding" /\ prime_count' = prime_count + local_count[t]
      /\ state' = [state EXCEPT ![t] = "finished"]
      /\ UNCHANGED <<n, nums, joined, tested_by>>
      /\ Position' = Position
  BY DEF AddLocalCount, Position, Size
<1>2. n \in Int /\ nums = setup_dynamic(n) /\ n' = n /\ nums' = setup_dynamic(n')
  BY <1>1, InputsAreInts DEF IInv, TypeOK
<1>3. F' = F \cup {t} /\ t \notin F
  BY <1>1 DEF IInv, TypeOK, Threads
<1>4. Returned = FALSE /\ Returned' = FALSE
  <2>1. joined # NUM_THREADS
    <3>1. ~ t < joined
      BY <1>1 DEF IInv, OrderInv
    <3>2. QED
      BY <3>1, ThreadsAssumption DEF Thread
  <2>2. QED
    BY <1>1, <2>1 DEF Returned
<1>5. /\ \A j \in Position : nums[j + 1] \in 1 .. n /\ nums[j + 1] = n - j /\ j \in Nat
      /\ \A m \in 1 .. n : n - m \in Position /\ nums[(n - m) + 1] = m
  BY <1>2, NumbersOfPositions
<1>6. \A m : m \in NotAdded <=> m \in 1 .. n /\ n - m \in Position /\ tested_by[n - m] \notin F
  BY <1>2, LeftInNumbers
<1>7. \A m : m \in NotAdded' <=>
               m \in 1 .. n /\ n - m \in Position /\ tested_by[n - m] \notin F \cup {t}
  <2>1. NotAdded' = {nums[j + 1] : j \in {k \in Position : tested_by[k] \notin F \cup {t}}}
    BY <1>1, <1>3 DEF NotAdded
  <2> HIDE DEF F
  <2>2. ASSUME NEW m, m \in NotAdded'
        PROVE  m \in 1 .. n /\ n - m \in Position /\ tested_by[n - m] \notin F \cup {t}
    <3>1. PICK j \in Position : tested_by[j] \notin F \cup {t} /\ m = nums[j + 1]
      BY <2>1, <2>2
    <3>2. n - m = j
      BY <1>2, <1>5, <3>1
    <3>3. QED
      BY <1>5, <3>1, <3>2
  <2>3. ASSUME NEW m \in 1 .. n, n - m \in Position, tested_by[n - m] \notin F \cup {t}
        PROVE  m \in NotAdded'
    <3>1. nums[(n - m) + 1] = m
      BY <1>5
    <3>2. QED
      BY <2>1, <2>3, <3>1
  <2>4. QED
    BY <2>2, <2>3
<1>8. NotAdded' \subseteq NotAdded
  BY <1>6, <1>7
<1>9. \A m : m \in added <=> m \in 1 .. n /\ n - m \in Position /\ tested_by[n - m] = t
                               /\ is_prime(m)
  BY <1>3, <1>6, <1>7
<1>10. \A j \in PrimesOf({t}) : n - j \in added /\ n - (n - j) = j
  <2>1. ASSUME NEW j \in PrimesOf({t})
        PROVE  n - j \in added /\ n - (n - j) = j
    <3>1. j \in Position /\ tested_by[j] = t /\ is_prime(nums[j + 1])
      BY DEF PrimesOf
    <3>2. nums[j + 1] \in 1 .. n /\ nums[j + 1] = n - j /\ n - (n - j) = j
      BY <1>2, <1>5, <3>1
    <3> HIDE DEF added
    <3>3. QED
      BY <1>9, <3>1, <3>2
  <2>2. QED
    BY <2>1
<1>11. \A m \in added : n - m \in PrimesOf({t}) /\ n - (n - m) = m
  <2> HIDE DEF added
  <2>1. ASSUME NEW m \in added
        PROVE  n - m \in PrimesOf({t}) /\ n - (n - m) = m
    <3>1. /\ m \in 1 .. n /\ n - m \in Position /\ tested_by[n - m] = t /\ is_prime(m)
          /\ nums[(n - m) + 1] = m
      BY <1>5, <1>9
    <3>2. QED
      BY <1>2, <3>1 DEF PrimesOf
  <2>2. QED
    BY <2>1
<1>12. f \in Bijection(PrimesOf({t}), added)
  <2> HIDE DEF added
  <2>1. f \in [PrimesOf({t}) -> added]
    BY <1>10
  <2>2. \A j, k \in PrimesOf({t}) : f[j] = f[k] => j = k
    BY <1>10
  <2>3. \A m \in added : \E j \in PrimesOf({t}) : f[j] = m
    BY <1>11
  <2> HIDE DEF f
  <2>4. QED
    BY <2>1, <2>2, <2>3 DEF Bijection, Injection, Surjection, IsInjective
<1> HIDE DEF added, f
<1>13. Cardinality(added) = Cardinality(PrimesOf({t}))
  <2>1. IsFiniteSet(PrimesOf({t}))
    BY PrimesAreFinite DEF IInv
  <2>2. QED
    BY <1>12, <2>1, FS_Bijection DEF ExistsBijection
<1>14. prime_count' = prime_count + Cardinality(added)
  BY <1>1, <1>13 DEF IInv, CountInv
<1>15. added = {m \in NotAdded \ NotAdded' : D!is_prime(m)}
  BY SharedDefinitions DEF added
<1>16. prime_count' =
         prime_count + D!Cardinality({m \in NotAdded \ NotAdded' : D!is_prime(m)})
  BY <1>14, <1>15, SharedDefinitions
<1>17. QED
  BY <1>1, <1>4, <1>8, <1>16 DEF D!AddSome

\* The join of the last thread is the return: then nothing is left.
LEMMA JoinThreadMaps ==
  ASSUME IInv, JoinThread
  PROVE  D!Return \/ UNCHANGED D!vars
<1>1. /\ joined < NUM_THREADS /\ state[joined] = "finished" /\ joined' = joined + 1
      /\ UNCHANGED <<n, nums, prime_count, state, tested_by>>
  BY DEF JoinThread
<1>2. NUM_THREADS \in Nat \ {0} /\ joined \in Nat
  BY ThreadsAssumption DEF IInv, TypeOK
<1>3. NotAdded' = NotAdded
  BY <1>1 DEF NotAdded, Position, Size, Threads
<1>4. Returned = FALSE /\ Returned' = (joined + 1 = NUM_THREADS)
  BY <1>1, <1>2 DEF Returned
<1>5. CASE joined + 1 # NUM_THREADS
  BY <1>1, <1>3, <1>4, <1>5, StutterMaps
<1>6. CASE joined + 1 = NUM_THREADS
  <2>1. \A t \in Thread : state[t] = "finished"
    <3>1. \A t \in Thread : t < joined \/ t = joined
      BY <1>2, <1>6 DEF Thread
    <3>2. QED
      BY <1>1, <3>1 DEF IInv, OrderInv
  <2>2. Threads("testing") = {} /\ Threads("finished") = Thread /\ Past # {}
    BY <1>2, <2>1 DEF Threads, Past, Thread
  <2>3. next_index >= Size /\ Size \in Nat /\ next_index \in Nat
    BY <2>2, SizeIsN, InputsAreInts DEF IInv, TypeOK, PastInv
  <2>4. \A j \in Position : tested_by[j] \in Thread
    BY <2>2, <2>3 DEF IInv, TypeOK, IndexInv, Position
  <2>5. NotAdded = {}
    BY <2>2, <2>4 DEF NotAdded
  <2>6. QED
    BY <1>1, <1>3, <1>4, <1>6, <2>5 DEF D!Return
<1>7. QED
  BY <1>5, <1>6

\* Every step is a step of the abstract specification or invisible to it.
LEMMA NextMaps == IInv /\ [Next]_vars => [D!Next]_(D!vars)
<1> SUFFICES ASSUME IInv, [Next]_vars
             PROVE  D!Next \/ UNCHANGED D!vars
  OBVIOUS
<1>1. CASE StartThread \/ \E t \in Thread : FetchIndex(t) \/ TestNumber(t)
  BY <1>1, PrivateStepMaps
<1>2. ASSUME NEW t \in Thread, AddLocalCount(t)
      PROVE  D!Next
  BY <1>2, AddLocalCountMaps DEF D!Next
<1>3. CASE JoinThread
  BY <1>3, JoinThreadMaps DEF D!Next
<1>4. CASE UNCHANGED vars
  BY <1>4, StutterMaps DEF vars, NotAdded, Position, Size, Threads, Returned
<1>5. QED
  BY <1>1, <1>2, <1>3, <1>4 DEF Next, Run

\* Whatever the interleaving of its threads, find_primes_dynamic adds every number's
\* primes to the total once, and returns only when no number is left.
THEOREM DynamicImplementsPrimeCount == Spec => D!Init /\ [][D!Next]_(D!vars)
BY Invariant, InitMaps, NextMaps, PTL DEF Spec

-------------------------------------------------------------------------------
(* The static count: the numbers are dealt.                                *)

\* With n and the shares that the naive setup computes: they are not longer than n in all.
LEMMA StaticTypes ==
  ASSUME n \in Inputs
  PROVE  /\ n \in Int /\ NUM_THREADS \in Nat \ {0}
         /\ Stat!Thread = 0 .. NUM_THREADS - 1 /\ Stat!LastThread = NUM_THREADS - 1
         /\ Stat!LastThread \in Stat!Thread
         /\ Stat!nums_per_thread \in Int
         /\ n >= 0 => /\ Stat!nums_per_thread >= 0
                      /\ NUM_THREADS * Stat!nums_per_thread <= n
                      /\ n < NUM_THREADS * (Stat!nums_per_thread + 1)
         /\ n < 0 => /\ Stat!nums_per_thread <= 0
                     /\ n < Stat!LastThread * Stat!nums_per_thread
<1> DEFINE N == NUM_THREADS
           q == Stat!nums_per_thread
<1>1. n \in Int /\ N \in Nat \ {0}
  BY WidthsAssumption, ThreadsAssumption
<1>2. q = IF n >= 0 THEN n \div N ELSE - ((- n) \div N)
  BY DEF Stat!nums_per_thread, Stat!Quotient
<1> HIDE DEF N, q
<1>3. \A m \in Nat : /\ m \div N \in Nat
                     /\ N * (m \div N) <= m
                     /\ m < N * (m \div N) + N
  BY <1>1
<1>4. CASE n >= 0
  <2>1. q \in Nat /\ N * q <= n /\ n < N * q + N
    BY <1>1, <1>2, <1>3, <1>4
  <2>2. N * (q + 1) = N * q + N
    BY <1>1, <2>1
  <2>3. QED
    BY <1>1, <1>4, <2>1, <2>2 DEF N, q, Stat!Thread, Stat!LastThread
<1>5. CASE n < 0
  <2> DEFINE p == (- n) \div N
  <2>1. p \in Nat /\ N * p <= - n /\ q = - p
    BY <1>1, <1>2, <1>3, <1>5
  <2> HIDE DEF p
  <2>2. (N - 1) * (- p) = p - N * p
    BY <1>1, <2>1
  <2>3. n < (N - 1) * (- p)
    <3>1. CASE p > 0
      BY <1>1, <2>1, <2>2, <3>1
    <3>2. CASE p = 0
      BY <1>1, <1>5, <2>1, <2>2, <3>2
    <3>3. QED
      BY <2>1, <3>1, <3>2
  <2>4. QED
    BY <1>1, <1>5, <2>1, <2>3 DEF N, q, Stat!Thread, Stat!LastThread
<1>6. QED
  BY <1>1, <1>4, <1>5

\* A run of consecutive numbers.
LEMMA RunOfNumbers ==
  ASSUME NEW a \in Int, NEW b \in Int
  PROVE  /\ DOMAIN Stat!FromTo(a, b) = 1 .. b - a + 1
         /\ \A j \in 1 .. b - a + 1 : Stat!FromTo(a, b)[j] = a + j - 1
         /\ a >= 0 \/ b < a => Stat!FromTo(a, b) \in Seq(Nat)
         /\ \A m \in a .. b : m \in Stat!Range(Stat!FromTo(a, b))
<1> DEFINE s == Stat!FromTo(a, b)
<1>1. s = [j \in 1 .. b - a + 1 |-> a + j - 1]
  BY DEF Stat!FromTo
<1>2. DOMAIN s = 1 .. b - a + 1 /\ \A j \in 1 .. b - a + 1 : s[j] = a + j - 1
  BY <1>1
<1>3. ASSUME a >= 0 \/ b < a
      PROVE  s \in Seq(Nat)
  <2>1. CASE b < a
    <3>1. 1 .. b - a + 1 = 1 .. 0 /\ \A j \in 1 .. 0 : a + j - 1 \in Nat
      BY <2>1
    <3>2. s \in [1 .. 0 -> Nat]
      BY <1>1, <3>1
    <3>3. QED
      BY <3>2
  <2>2. CASE a >= 0 /\ b >= a
    <3>1. b - a + 1 \in Nat /\ \A j \in 1 .. b - a + 1 : a + j - 1 \in Nat
      BY <2>2
    <3>2. s \in [1 .. b - a + 1 -> Nat]
      BY <1>1, <3>1
    <3>3. QED
      BY <3>1, <3>2
  <2>3. QED
    BY <1>3, <2>1, <2>2
<1>4. ASSUME NEW m \in a .. b
      PROVE  m \in Stat!Range(s)
  <2>1. m - a + 1 \in 1 .. b - a + 1 /\ a + (m - a + 1) - 1 = m
    OBVIOUS
  <2> HIDE DEF s
  <2>2. s[m - a + 1] = m
    BY <1>2, <2>1
  <2>3. QED
    BY <1>2, <2>1, <2>2 DEF Stat!Range
<1>5. QED
  BY <1>2, <1>3, <1>4

\* The runs of the naive setup follow each other.
LEMMA NaiveRuns ==
  ASSUME n \in Inputs, NEW u \in Stat!Thread
  PROVE  LET q == Stat!nums_per_thread
             first == u * q
             last == IF u = Stat!LastThread THEN n ELSE u * q + q - 1
         IN  /\ first \in Int /\ last \in Int
             /\ Stat!NaiveRun(u) = Stat!FromTo(first, last)
             /\ n < 0 => last < first
             /\ n >= 0 => first >= 0 /\ last <= n
             /\ n >= 0 => \A v \in Stat!Thread : u < v => last < v * q
             /\ Stat!NaiveRun(u) \in Seq(Nat)
<1> DEFINE q == Stat!nums_per_thread
           L == Stat!LastThread
           first == u * q
           last == IF u = L THEN n ELSE u * q + q - 1
<1>1. /\ n \in Int /\ q \in Int /\ NUM_THREADS \in Nat \ {0} /\ L = NUM_THREADS - 1
      /\ u \in Nat /\ u <= L
      /\ n >= 0 => q >= 0 /\ NUM_THREADS * q <= n
      /\ n < 0 => q <= 0 /\ n < L * q
  BY StaticTypes
<1>2. Stat!NaiveRun(u) = Stat!FromTo(first, last)
  BY DEF Stat!NaiveRun
<1> HIDE DEF q, L
<1>3. first \in Int /\ last \in Int
  BY <1>1
<1>4. n < 0 => last < first
  BY <1>1
<1>5. ASSUME n >= 0
      PROVE  first >= 0 /\ last <= n
  <2>1. u * q >= 0
    BY <1>1, <1>5
  <2>2. CASE u = L
    BY <1>1, <2>1, <2>2
  <2>3. CASE u # L
    <3>1. (NUM_THREADS - u - 1) * q >= 0
      BY <1>1, <1>5
    <3>2. (NUM_THREADS - u - 1) * q = NUM_THREADS * q - u * q - q
      BY <1>1
    <3>3. u * q + q <= NUM_THREADS * q
      BY <1>1, <3>1, <3>2
    <3>4. QED
      BY <1>1, <1>5, <2>1, <2>3, <3>3
  <2>4. QED
    BY <2>2, <2>3
<1>6. ASSUME n >= 0, NEW v \in Stat!Thread, u < v
      PROVE  last < v * q
  <2>1. v \in Nat /\ v <= L /\ u # L
    BY <1>1, <1>6, StaticTypes DEF L
  <2>2. (v - u - 1) * q >= 0
    BY <1>1, <1>6, <2>1
  <2>3. (v - u - 1) * q = v * q - u * q - q
    BY <1>1, <2>1
  <2>4. QED
    BY <1>1, <2>1, <2>2, <2>3
<1> HIDE DEF first, last
<1>7. Stat!NaiveRun(u) \in Seq(Nat)
  <2>1. first >= 0 \/ last < first
    BY <1>1, <1>4, <1>5
  <2>2. QED
    BY <1>2, <1>3, <2>1, RunOfNumbers
<1>8. QED
  BY <1>2, <1>3, <1>4, <1>5, <1>6, <1>7 DEF first, last, q, L

\* The static count starts in its invariant.
LEMMA StaticInit == Stat!Init => Stat!IInv
<1> SUFFICES ASSUME Stat!Init
             PROVE  Stat!IInv
  OBVIOUS
<1>1. /\ n \in Inputs /\ s_phase \in {"naive", "greedy"}
      /\ thread_assignments = [u \in Stat!Thread |-> << >>]
      /\ s_t = 0 /\ numbers = 1 .. n /\ unseen = numbers /\ assigned_work = 0
      /\ next_number = 0 /\ s_started = 0 /\ s_joined = 0 /\ s_prime_count = 0
      /\ s_state = [u \in Stat!Thread |-> "unborn"]
  BY DEF Stat!Init
<1>2. /\ n \in Int /\ NUM_THREADS \in Nat \ {0} /\ Stat!Thread = 0 .. NUM_THREADS - 1
      /\ Stat!nums_per_thread \in Int /\ 0 \in Stat!Thread
      /\ Stat!LastThread = NUM_THREADS - 1
  BY <1>1, StaticTypes
<1>3. 0 \in Stat!LONG_MIN .. Stat!LONG_MAX
  BY Widths DEF Stat!LONG_MIN, Stat!LONG_MAX
<1>4. Stat!TypeOK
  <2>1. << >> \in Seq(Nat)
    OBVIOUS
  <2>2. thread_assignments \in [Stat!Thread -> Seq(Nat)]
    BY <1>1, <2>1
  <2>3. 0 \in 0 .. NUM_THREADS
    BY <1>2
  <2>4. QED
    BY <1>1, <1>3, <2>2, <2>3 DEF Stat!TypeOK
<1>5. Stat!NaiveInv
  <2>1. \A u \in Stat!Thread : ~ u < 0
    BY <1>2
  <2>2. 0 = 0 * Stat!nums_per_thread
    BY <1>2
  <2>3. QED
    BY <1>1, <1>2, <2>1, <2>2 DEF Stat!NaiveInv
<1>6. Stat!GreedyInv
  <2>1. \A u \in Stat!Thread : thread_assignments[u] = << >>
    BY <1>1
  <2>2. DOMAIN << >> = {} /\ Stat!Range(<< >>) = {}
    BY DEF Stat!Range
  <2>3. (1 .. n) \ numbers = {} /\ numbers \ unseen = {}
    BY <1>1
  <2>4. QED
    BY <1>1, <1>2, <2>1, <2>2, <2>3 DEF Stat!GreedyInv, Stat!DealtOnce
<1>7. Stat!CountInv
  <2>1. \A u \in Stat!Thread : s_state[u] = "unborn" /\ u >= 0 /\ ~ u < 0
    BY <1>1, <1>2
  <2>2. Stat!Added = {}
    BY <2>1 DEF Stat!Added
  <2>3. {m \in Stat!Added : Stat!is_prime(m)} = {}
    BY <2>2
  <2>4. QED
    BY <1>1, <2>1, <2>3, FS_EmptySet DEF Stat!CountInv, Stat!Cardinality, Cardinality
<1>8. QED
  BY <1>1, <1>4, <1>5, <1>6, <1>7 DEF Stat!IInv, Stat!DealtInv

\* The dealing leaves the threads alone, which have not been started.
LEMMA DealingKeepsCount ==
  ASSUME Stat!IInv, s_phase # "count", UNCHANGED Stat!countVars, n' = n
  PROVE  Stat!CountInv'
<1>1. /\ s_started = 0 /\ \A u \in Stat!Thread : s_state[u] = "unborn"
      /\ s_prime_count = Cardinality({m \in Stat!Added : is_prime(m)})
  <2>1. Stat!Thread = 0 .. NUM_THREADS - 1 /\ NUM_THREADS \in Nat
    BY StaticTypes DEF Stat!IInv, Stat!TypeOK
  <2>2. {m \in Stat!Added : Stat!is_prime(m)} = {m \in Stat!Added : is_prime(m)}
    BY DEF Stat!is_prime, is_prime
  <2>3. s_started = 0 /\ \A u \in Stat!Thread : u >= 0
    BY <2>1 DEF Stat!IInv, Stat!CountInv
  <2>4. \A u \in Stat!Thread : s_state[u] = "unborn"
    BY <2>3 DEF Stat!IInv, Stat!CountInv
  <2>5. s_prime_count = Cardinality({m \in Stat!Added : is_prime(m)})
    BY <2>2 DEF Stat!IInv, Stat!CountInv, Stat!Cardinality, Cardinality
  <2>6. QED
    BY <2>3, <2>4, <2>5
<1>2. Stat!Added = {} /\ Stat!Added' = {}
  <2>1. Stat!Thread' = Stat!Thread /\ s_state' = s_state
    BY DEF Stat!countVars, Stat!Thread
  <2>2. QED
    BY <1>1, <2>1 DEF Stat!Added
<1>3. {m \in Stat!Added' : Stat!is_prime(m)} = {} /\ {m \in Stat!Added : is_prime(m)} = {}
  BY <1>2
<1>4. QED
  BY <1>1, <1>3 DEF Stat!IInv, Stat!CountInv, Stat!countVars, Stat!Thread, Stat!Cardinality,
                    Cardinality

\* DealRun keeps the invariant.
LEMMA DealRunInv ==
  ASSUME Stat!IInv, Stat!DealRun
  PROVE  Stat!IInv'
<1> DEFINE q == Stat!nums_per_thread
           L == Stat!LastThread
<1>1. /\ s_phase = "naive" /\ s_t < L
      /\ thread_assignments' =
           [thread_assignments EXCEPT ![s_t] = Stat!FromTo(next_number, next_number + q - 1)]
      /\ next_number' = next_number + q /\ s_t' = s_t + 1
      /\ UNCHANGED <<n, s_phase, numbers, unseen, assigned_work>> /\ UNCHANGED Stat!countVars
  BY DEF Stat!DealRun
<1>2. /\ n \in Inputs /\ n \in Int /\ q \in Int /\ NUM_THREADS \in Nat \ {0}
      /\ Stat!Thread = 0 .. NUM_THREADS - 1 /\ L = NUM_THREADS - 1
  BY StaticTypes DEF Stat!IInv, Stat!TypeOK
<1>3. /\ s_t \in Stat!Thread /\ next_number = s_t * q
      /\ \A u \in Stat!Thread :
           thread_assignments[u] = IF u < s_t THEN Stat!NaiveRun(u) ELSE << >>
  BY <1>1 DEF Stat!IInv, Stat!NaiveInv
<1>4. q' = q /\ L' = L /\ Stat!Thread' = Stat!Thread
  BY <1>1 DEF Stat!nums_per_thread, Stat!Quotient, Stat!LastThread, Stat!Thread
<1>5. Stat!NaiveRun(s_t) = Stat!FromTo(next_number, next_number + q - 1)
      /\ Stat!NaiveRun(s_t) \in Seq(Nat)
  <2>1. s_t # L
    BY <1>1, <1>2, <1>3
  <2>2. QED
    BY <1>2, <1>3, <2>1, NaiveRuns DEF Stat!NaiveRun
<1>6. \A u \in Stat!Thread : Stat!NaiveRun(u)' = Stat!NaiveRun(u)
  BY <1>1, <1>4 DEF Stat!NaiveRun, Stat!FromTo
<1> HIDE DEF q, L
<1>7. /\ s_t' \in Stat!Thread
      /\ next_number' = s_t' * q
  <2>1. (s_t + 1) * q = s_t * q + q
    BY <1>2, <1>3
  <2>2. QED
    BY <1>1, <1>2, <1>3, <2>1
<1>8. Stat!TypeOK'
  <2>1. thread_assignments' \in [Stat!Thread -> Seq(Nat)]
    BY <1>1, <1>3, <1>5 DEF Stat!IInv, Stat!TypeOK
  <2>2. s_t' \in 0 .. NUM_THREADS /\ next_number' \in Int
    BY <1>1, <1>2, <1>3, <1>7
  <2>3. QED
    BY <1>1, <1>4, <2>1, <2>2
       DEF Stat!IInv, Stat!TypeOK, Stat!countVars, Stat!LONG_MIN, Stat!LONG_MAX
<1>9. Stat!NaiveInv'
  <2>1. \A u \in Stat!Thread : u < s_t' <=> u < s_t \/ u = s_t
    BY <1>1, <1>2, <1>3
  <2>2. \A u \in Stat!Thread :
          thread_assignments'[u] = IF u < s_t' THEN Stat!NaiveRun(u) ELSE << >>
    BY <1>1, <1>3, <1>5, <2>1 DEF Stat!IInv, Stat!TypeOK
  <2>3. QED
    BY <1>4, <1>6, <1>7, <2>2 DEF Stat!NaiveInv, q
<1>10. Stat!CountInv'
  BY <1>1, DealingKeepsCount
<1>11. QED
  BY <1>1, <1>8, <1>9, <1>10 DEF Stat!IInv, Stat!GreedyInv, Stat!DealtInv

\* Every number is in one of the runs of the naive setup.
LEMMA NaiveRunsCover ==
  ASSUME n \in Inputs, NEW m \in 1 .. n
  PROVE  \E u \in Stat!Thread : m \in Stat!Range(Stat!NaiveRun(u))
<1> DEFINE q == Stat!nums_per_thread
           L == Stat!LastThread
<1>1. /\ n \in Int /\ m \in Nat /\ q \in Nat /\ NUM_THREADS \in Nat \ {0}
      /\ Stat!Thread = 0 .. NUM_THREADS - 1 /\ L = NUM_THREADS - 1 /\ L \in Stat!Thread
      /\ Stat!nums_per_thread = q
  BY StaticTypes
<1>2. ASSUME NEW u \in Stat!Thread,
             u * q <= m, m <= IF u = L THEN n ELSE u * q + q - 1
      PROVE  m \in Stat!Range(Stat!NaiveRun(u))
  <2> DEFINE first == u * q
             last == IF u = L THEN n ELSE u * q + q - 1
  <2>1. first \in Int /\ last \in Int /\ Stat!NaiveRun(u) = Stat!FromTo(first, last)
    BY <1>1, NaiveRuns
  <2>2. m \in first .. last
    BY <1>1, <1>2, <2>1
  <2> HIDE DEF first, last
  <2>3. QED
    BY <2>1, <2>2, RunOfNumbers
<1> HIDE DEF q, L
<1>3. CASE L * q <= m
  BY <1>1, <1>2, <1>3
<1>4. CASE m < L * q
  <2> DEFINE u == m \div q
  <2>1. q > 0
    BY <1>1, <1>4
  <2>2. u \in Nat /\ q * u <= m /\ m < q * u + q
    BY <1>1, <2>1
  <2> HIDE DEF u
  <2>3. u * q = q * u /\ L * q = q * L
    BY <1>1, <2>2
  <2>4. u < L
    <3> SUFFICES ASSUME u >= L
                 PROVE  FALSE
      BY <1>1, <2>2
    <3>1. q * u >= q * L
      BY <1>1, <2>1, <2>2
    <3>2. q * u \in Nat /\ q * L \in Nat
      BY <1>1, <2>2
    <3>3. QED
      BY <1>1, <1>4, <2>2, <2>3, <3>1, <3>2
  <2>5. u \in Stat!Thread /\ u # L
    BY <1>1, <2>2, <2>4
  <2>6. u * q \in Nat
    BY <1>1, <2>2
  <2>7. u * q <= m /\ m <= u * q + q - 1
    BY <1>1, <2>2, <2>3, <2>6
  <2>8. QED
    BY <1>2, <2>5, <2>7
<1>5. QED
  BY <1>1, <1>3, <1>4

\* DealRest keeps the invariant.
LEMMA DealRestInv ==
  ASSUME Stat!IInv, Stat!DealRest
  PROVE  Stat!IInv'
<1> DEFINE q == Stat!nums_per_thread
           L == Stat!LastThread
           first(u) == u * q
           last(u) == IF u = L THEN n ELSE u * q + q - 1
<1>1. /\ s_phase = "naive" /\ s_t = L
      /\ thread_assignments' =
           [thread_assignments EXCEPT ![s_t] = Stat!FromTo(next_number, n)]
      /\ s_phase' = "count"
      /\ UNCHANGED <<n, s_t, numbers, unseen, assigned_work, next_number>>
      /\ UNCHANGED Stat!countVars
  BY DEF Stat!DealRest
<1>2. /\ n \in Inputs /\ n \in Int /\ q \in Int /\ NUM_THREADS \in Nat \ {0}
      /\ Stat!Thread = 0 .. NUM_THREADS - 1 /\ L = NUM_THREADS - 1 /\ L \in Stat!Thread
  BY StaticTypes DEF Stat!IInv, Stat!TypeOK
<1>3. /\ next_number = s_t * q
      /\ \A u \in Stat!Thread :
           thread_assignments[u] = IF u < s_t THEN Stat!NaiveRun(u) ELSE << >>
  BY <1>1 DEF Stat!IInv, Stat!NaiveInv
<1>4. Stat!Thread' = Stat!Thread
  BY DEF Stat!Thread
<1>5. Stat!NaiveRun(L) = Stat!FromTo(next_number, n)
  BY <1>1, <1>3 DEF Stat!NaiveRun
<1>6. \A u \in Stat!Thread : thread_assignments'[u] = Stat!NaiveRun(u)
  <2>1. \A u \in Stat!Thread : u # L => u < L
    BY <1>2
  <2>2. QED
    BY <1>1, <1>3, <1>5, <2>1 DEF Stat!IInv, Stat!TypeOK
<1>7. ASSUME NEW u \in Stat!Thread
      PROVE  /\ thread_assignments'[u] \in Seq(Nat)
             /\ first(u) \in Int /\ last(u) \in Int
             /\ n < 0 => last(u) < first(u)
             /\ n >= 0 => first(u) >= 0 /\ last(u) <= n
             /\ n >= 0 => \A v \in Stat!Thread : u < v => last(u) < first(v)
             /\ DOMAIN thread_assignments'[u] = 1 .. last(u) - first(u) + 1
             /\ \A j \in DOMAIN thread_assignments'[u] :
                  thread_assignments'[u][j] = first(u) + j - 1
  <2>1. /\ first(u) \in Int /\ last(u) \in Int
        /\ Stat!NaiveRun(u) = Stat!FromTo(first(u), last(u))
        /\ n < 0 => last(u) < first(u)
        /\ n >= 0 => first(u) >= 0 /\ last(u) <= n
        /\ n >= 0 => \A v \in Stat!Thread : u < v => last(u) < first(v)
        /\ Stat!NaiveRun(u) \in Seq(Nat)
    BY <1>2, NaiveRuns
  <2> HIDE DEF first, last, q, L
  <2>2. /\ DOMAIN Stat!FromTo(first(u), last(u)) = 1 .. last(u) - first(u) + 1
        /\ \A j \in 1 .. last(u) - first(u) + 1 :
             Stat!FromTo(first(u), last(u))[j] = first(u) + j - 1
    BY <2>1, RunOfNumbers
  <2>3. QED
    BY <1>6, <2>1, <2>2
<1> HIDE DEF q, L, first, last
<1>8. Stat!TypeOK'
  <2>1. thread_assignments' \in [Stat!Thread -> Seq(Nat)]
    <3>1. DOMAIN thread_assignments' = Stat!Thread
      BY <1>1 DEF Stat!IInv, Stat!TypeOK
    <3>2. thread_assignments' = [u \in Stat!Thread |-> thread_assignments'[u]]
      BY <1>1, <3>1
    <3>3. QED
      BY <1>7, <3>2
  <2>2. QED
    BY <1>1, <1>4, <2>1
       DEF Stat!IInv, Stat!TypeOK, Stat!countVars, Stat!LONG_MIN, Stat!LONG_MAX
<1>9. Stat!DealtInv'
  <2>1. ASSUME NEW u \in Stat!Thread, NEW j \in DOMAIN thread_assignments'[u]
        PROVE  /\ n >= 0 /\ j \in Nat /\ first(u) \in Int
               /\ thread_assignments'[u][j] = first(u) + j - 1
               /\ thread_assignments'[u][j] >= first(u)
               /\ thread_assignments'[u][j] <= last(u)
               /\ thread_assignments'[u][j] \in 0 .. n /\ j <= n + 1
    <3>1. /\ first(u) \in Int /\ last(u) \in Int /\ j \in 1 .. last(u) - first(u) + 1
          /\ thread_assignments'[u][j] = first(u) + j - 1
          /\ n < 0 => last(u) < first(u)
          /\ n >= 0 => first(u) >= 0 /\ last(u) <= n
      BY <1>7
    <3>2. QED
      BY <1>2, <3>1
  <2>2. ASSUME NEW u \in Stat!Thread, NEW v \in Stat!Thread,
               NEW j \in DOMAIN thread_assignments'[u], NEW k \in DOMAIN thread_assignments'[v],
               thread_assignments'[u][j] = thread_assignments'[v][k]
        PROVE  u = v /\ j = k
    <3>1. /\ n >= 0 /\ j \in Nat /\ k \in Nat /\ first(u) \in Int /\ first(v) \in Int
          /\ thread_assignments'[u][j] = first(u) + j - 1
          /\ thread_assignments'[v][k] = first(v) + k - 1
          /\ thread_assignments'[u][j] >= first(u) /\ thread_assignments'[u][j] <= last(u)
          /\ thread_assignments'[v][k] >= first(v) /\ thread_assignments'[v][k] <= last(v)
      BY <2>1
    <3>2. /\ last(u) \in Int /\ last(v) \in Int
          /\ u < v => last(u) < first(v)
          /\ v < u => last(v) < first(u)
      BY <1>7, <3>1
    <3>3. ~ u < v /\ ~ v < u
      BY <2>2, <3>1, <3>2
    <3>4. u = v
      BY <1>2, <3>3
    <3>5. first(u) + j - 1 = first(v) + k - 1 /\ first(u) = first(v)
      BY <2>2, <3>1, <3>4
    <3>6. j = k
      BY <3>1, <3>5
    <3>7. QED
      BY <3>4, <3>6
  <2>3. ASSUME NEW m \in 1 .. n
        PROVE  Stat!IsDealt(m)'
    <3>1. PICK u \in Stat!Thread : m \in Stat!Range(thread_assignments'[u])
      BY <1>2, <1>6, NaiveRunsCover
    <3>2. QED
      BY <1>4, <3>1 DEF Stat!IsDealt, Stat!Range
  <2>4. QED
    BY <1>1, <1>4, <2>1, <2>2, <2>3 DEF Stat!DealtInv, Stat!DealtOnce
<1>10. Stat!CountInv'
  BY <1>1, DealingKeepsCount
<1>11. QED
  BY <1>1, <1>8, <1>9, <1>10 DEF Stat!IInv, Stat!GreedyInv, Stat!NaiveInv

-------------------------------------------------------------------------------
(* The greedy setup.                                                       *)

\* The number that setup_static looks at next is the largest that is left.
LEMMA NumberIsLargest ==
  ASSUME Stat!TypeOK, unseen # {}
  PROVE  Stat!number \in unseen /\ Stat!number \in 1 .. n /\ \A m \in unseen : m <= Stat!number
<1> DEFINE M == {n - m : m \in unseen}
<1>1. n \in Int /\ unseen \subseteq 1 .. n
  BY StaticTypes DEF Stat!TypeOK
<1>2. M \in SUBSET Nat /\ M # {}
  <2>1. \A m \in unseen : n - m \in Nat
    BY <1>1
  <2>2. QED
    BY <2>1
<1>3. PICK least \in M : \A m \in M : least <= m
  BY <1>2, LeastElement
<1>4. PICK largest \in unseen : least = n - largest
  BY <1>3
<1>5. \A m \in unseen : largest >= m
  BY <1>1, <1>3, <1>4
<1>6. \E x \in unseen : \A y \in unseen : x >= y
  BY <1>4, <1>5
<1>7. Stat!number \in unseen /\ \A y \in unseen : Stat!number >= y
  BY <1>6 DEF Stat!number, Stat!Max
<1>8. QED
  BY <1>1, <1>7

\* The types of the greedy setup.
LEMMA GreedyTypes ==
  ASSUME Stat!IInv
  PROVE  /\ n \in Inputs /\ n \in Int /\ NUM_THREADS \in Nat \ {0}
         /\ Stat!Thread = 0 .. NUM_THREADS - 1 /\ Stat!LastThread = NUM_THREADS - 1
         /\ unseen \subseteq numbers /\ numbers \subseteq 1 .. n
         /\ \A u \in Stat!Thread :
              /\ thread_assignments[u] \in Seq(Nat)
              /\ DOMAIN thread_assignments[u] = 1 .. Len(thread_assignments[u])
              /\ Len(thread_assignments[u]) \in Nat
BY StaticTypes DEF Stat!IInv, Stat!TypeOK

\* What is kept in a long is in its range.
LEMMA LongsAreLongs ==
  ASSUME NEW x \in Int
  PROVE  Stat!ToLong(x) \in Stat!LONG_MIN .. Stat!LONG_MAX
<1> DEFINE half == 2^(LONG_BITS - 1)
<1>1. half \in Nat /\ half > 0 /\ 2^LONG_BITS = 2 * half
  BY Widths
<1>2. /\ Stat!LONG_MIN = - half /\ Stat!LONG_MAX = half - 1
      /\ Stat!ToLong(x) = ((x - Stat!LONG_MIN) % (2 * half)) + Stat!LONG_MIN
  BY <1>1 DEF Stat!LONG_MIN, Stat!LONG_MAX, Stat!ToLong
<1> HIDE DEF half
<1>3. (x + half) % (2 * half) \in 0 .. 2 * half - 1
  BY <1>1
<1>4. x - Stat!LONG_MIN = x + half
  BY <1>1, <1>2
<1>5. QED
  BY <1>1, <1>2, <1>3, <1>4

\* TakeNumber keeps the invariant.
LEMMA TakeNumberInv ==
  ASSUME Stat!IInv, Stat!TakeNumber
  PROVE  Stat!IInv'
<1> DEFINE x == Stat!number
           mine == thread_assignments[s_t]
           L == Len(mine)
<1>1. /\ s_phase = "greedy" /\ unseen # {}
      /\ thread_assignments' = [thread_assignments EXCEPT ![s_t] = Append(@, x)]
      /\ assigned_work' = Stat!ToLong(assigned_work + Stat!Work(x))
      /\ unseen' = unseen \ {x}
      /\ UNCHANGED <<n, s_phase, s_t, numbers, next_number>> /\ UNCHANGED Stat!countVars
  BY DEF Stat!TakeNumber
<1>2. /\ n \in Inputs /\ n \in Int /\ NUM_THREADS \in Nat \ {0}
      /\ Stat!Thread = 0 .. NUM_THREADS - 1 /\ Stat!LastThread = NUM_THREADS - 1
      /\ unseen \subseteq numbers /\ numbers \subseteq 1 .. n
      /\ \A u \in Stat!Thread : /\ thread_assignments[u] \in Seq(Nat)
                                /\ DOMAIN thread_assignments[u] = 1 .. Len(thread_assignments[u])
                                /\ Len(thread_assignments[u]) \in Nat
  BY GreedyTypes
<1>3. /\ s_t \in Stat!Thread
      /\ \A u, v \in Stat!Thread :
           \A j \in DOMAIN thread_assignments[u], k \in DOMAIN thread_assignments[v] :
             thread_assignments[u][j] = thread_assignments[v][k] => u = v /\ j = k
      /\ \A u \in Stat!Thread :
           /\ u > s_t => thread_assignments[u] = << >>
           /\ \A j \in DOMAIN thread_assignments[u] :
                /\ thread_assignments[u][j] \in 1 .. n - j + 1
                /\ thread_assignments[u][j] \in numbers <=> u = s_t
      /\ \A j \in DOMAIN mine, m \in unseen : mine[j] > m
      /\ \A m \in (1 .. n) \ numbers : Stat!IsDealt(m)
      /\ s_t = Stat!LastThread => \A m \in numbers \ unseen : Stat!IsDealt(m)
  BY <1>1 DEF Stat!IInv, Stat!GreedyInv, Stat!DealtOnce
<1>4. x \in unseen /\ x \in 1 .. n /\ x \in Nat /\ \A m \in unseen : m <= x
  BY <1>1, <1>2, NumberIsLargest DEF Stat!IInv
<1>5. Stat!Thread' = Stat!Thread /\ Stat!LastThread' = Stat!LastThread
  BY DEF Stat!Thread, Stat!LastThread
<1> HIDE DEF x
<1>6. /\ mine \in Seq(Nat) /\ DOMAIN mine = 1 .. L /\ L \in Nat
      /\ thread_assignments'[s_t] = Append(mine, x)
      /\ \A u \in Stat!Thread : u # s_t => thread_assignments'[u] = thread_assignments[u]
  BY <1>1, <1>2, <1>3 DEF Stat!IInv, Stat!TypeOK
<1>7. /\ Append(mine, x) \in Seq(Nat) /\ DOMAIN Append(mine, x) = 1 .. L + 1
      /\ Append(mine, x)[L + 1] = x /\ \A j \in 1 .. L : Append(mine, x)[j] = mine[j]
  BY <1>4, <1>6
\* The places after the step: those before it, and one for x.
<1>8. ASSUME NEW u \in Stat!Thread
      PROVE  /\ \A j \in DOMAIN thread_assignments'[u] :
                  \/ u = s_t /\ j = L + 1 /\ thread_assignments'[u][j] = x
                  \/ /\ j \in DOMAIN thread_assignments[u]
                     /\ thread_assignments'[u][j] = thread_assignments[u][j]
             /\ \A j \in DOMAIN thread_assignments[u] :
                  /\ j \in DOMAIN thread_assignments'[u]
                  /\ thread_assignments'[u][j] = thread_assignments[u][j]
  <2>1. CASE u # s_t
    BY <1>6, <2>1
  <2>2. CASE u = s_t
    <3> HIDE DEF L
    <3>1. \A j \in 1 .. L + 1 : j = L + 1 \/ j \in 1 .. L
      BY <1>6
    <3>2. thread_assignments[u] = mine /\ thread_assignments'[u] = Append(mine, x)
      BY <1>6, <2>2
    <3> HIDE DEF mine
    <3>3. \A j \in 1 .. L : j \in 1 .. L + 1
      BY <1>6
    <3>4. QED
      BY <1>6, <1>7, <2>2, <3>1, <3>2, <3>3
  <2>3. QED
    BY <2>1, <2>2
<1>9. \A u \in Stat!Thread : \A j \in DOMAIN thread_assignments[u] :
        j \in DOMAIN thread_assignments'[u] /\ thread_assignments'[u][j] = thread_assignments[u][j]
  BY <1>8
<1>10. \A u \in Stat!Thread : \A j \in DOMAIN thread_assignments[u] :
         thread_assignments[u][j] # x
  <2>1. \A j \in DOMAIN mine : mine[j] # x
    BY <1>2, <1>3, <1>4
  <2>2. QED
    BY <1>2, <1>3, <1>4, <2>1
<1> HIDE DEF mine, L
<1>11. Stat!TypeOK'
  <2>1. thread_assignments' \in [Stat!Thread -> Seq(Nat)]
    BY <1>1, <1>3, <1>6, <1>7 DEF Stat!IInv, Stat!TypeOK, mine
  <2>2. assigned_work + Stat!Work(x) \in Int
    <3>1. assigned_work \in Int
      BY Widths DEF Stat!IInv, Stat!TypeOK, Stat!LONG_MIN, Stat!LONG_MAX
    <3>2. QED
      BY <1>4, <3>1 DEF Stat!Work
  <2>3. assigned_work' \in Stat!LONG_MIN .. Stat!LONG_MAX
    BY <1>1, <2>2, LongsAreLongs
  <2>4. QED
    BY <1>1, <1>5, <2>1, <2>3
       DEF Stat!IInv, Stat!TypeOK, Stat!countVars, Stat!LONG_MIN, Stat!LONG_MAX
<1>12. Stat!DealtOnce'
  BY <1>3, <1>5, <1>8, <1>10 DEF Stat!DealtOnce
<1>13. \A m : (Stat!IsDealt(m) \/ m = x) => Stat!IsDealt(m)'
  <2>1. ASSUME NEW m, m = x
        PROVE  Stat!IsDealt(m)'
    <3>1. L + 1 \in DOMAIN thread_assignments'[s_t] /\ thread_assignments'[s_t][L + 1] = m
      BY <1>6, <1>7, <2>1
    <3>2. QED
      BY <1>3, <1>5, <3>1 DEF Stat!IsDealt
  <2>2. \A m : Stat!IsDealt(m) => Stat!IsDealt(m)'
    BY <1>5, <1>9 DEF Stat!IsDealt
  <2>3. QED
    BY <2>1, <2>2
<1>14. x <= n - L
  <2>1. CASE L = 0
    BY <1>2, <1>4, <2>1
  <2>2. CASE L # 0
    <3>1. L \in DOMAIN mine
      BY <1>6, <2>2
    <3>2. mine[L] \in 1 .. n - L + 1 /\ mine[L] > x
      BY <1>3, <1>4, <3>1 DEF mine
    <3>3. QED
      BY <1>2, <1>4, <1>6, <3>2
  <2>3. QED
    BY <2>1, <2>2
<1>15. \A u \in Stat!Thread : \A j \in DOMAIN thread_assignments'[u] :
         /\ thread_assignments'[u][j] \in 1 .. n - j + 1
         /\ thread_assignments'[u][j] \in numbers <=> u = s_t
  <2>1. x \in 1 .. n - (L + 1) + 1
    BY <1>2, <1>4, <1>6, <1>14
  <2>2. ASSUME NEW u \in Stat!Thread, NEW j \in DOMAIN thread_assignments'[u]
        PROVE  /\ thread_assignments'[u][j] \in 1 .. n - j + 1
               /\ thread_assignments'[u][j] \in numbers <=> u = s_t
    <3>1. CASE u = s_t /\ j = L + 1 /\ thread_assignments'[u][j] = x
      BY <1>2, <1>4, <2>1, <3>1
    <3>2. CASE j \in DOMAIN thread_assignments[u]
               /\ thread_assignments'[u][j] = thread_assignments[u][j]
      BY <1>3, <3>2
    <3>3. QED
      BY <1>8, <3>1, <3>2
  <2>3. QED
    BY <2>2
<1>16. Stat!GreedyInv'
  <2>1. \A u \in Stat!Thread : u > s_t => thread_assignments'[u] = << >>
    BY <1>2, <1>3, <1>6
  <2>2. \A j \in DOMAIN thread_assignments'[s_t], m \in unseen' : thread_assignments'[s_t][j] > m
    <3>1. \A m \in unseen' : m \in unseen /\ x > m
      BY <1>1, <1>2, <1>4
    <3>2. QED
      BY <1>3, <1>8, <3>1 DEF mine
  <2>3. \A m \in (1 .. n) \ numbers : Stat!IsDealt(m)'
    BY <1>3, <1>13
  <2>4. s_t = Stat!LastThread => \A m \in numbers \ unseen' : Stat!IsDealt(m)'
    BY <1>1, <1>3, <1>13
  <2>5. QED
    BY <1>1, <1>3, <1>5, <1>12, <1>15, <2>1, <2>2, <2>3, <2>4 DEF Stat!GreedyInv
<1>17. Stat!CountInv'
  BY <1>1, DealingKeepsCount
<1>18. QED
  BY <1>1, <1>11, <1>16, <1>17 DEF Stat!IInv, Stat!NaiveInv, Stat!DealtInv

\* SkipNumber keeps the invariant.
LEMMA SkipNumberInv ==
  ASSUME Stat!IInv, Stat!SkipNumber
  PROVE  Stat!IInv'
<1>1. /\ s_phase = "greedy" /\ ~ Stat!Fits /\ unseen' = unseen \ {Stat!number}
      /\ UNCHANGED <<n, s_phase, thread_assignments, s_t, numbers, assigned_work, next_number>>
      /\ UNCHANGED Stat!countVars
  BY DEF Stat!SkipNumber
<1>2. s_t # Stat!LastThread
  BY <1>1 DEF Stat!Fits
<1>3. Stat!TypeOK'
  BY <1>1 DEF Stat!IInv, Stat!TypeOK, Stat!countVars, Stat!Thread, Stat!LONG_MIN, Stat!LONG_MAX
<1>4. Stat!GreedyInv'
  <2>1. /\ Stat!Thread' = Stat!Thread /\ Stat!LastThread' = Stat!LastThread
        /\ Stat!DealtOnce' = Stat!DealtOnce /\ \A m : Stat!IsDealt(m)' = Stat!IsDealt(m)
    BY <1>1 DEF Stat!Thread, Stat!LastThread, Stat!DealtOnce, Stat!IsDealt
  <2>2. unseen' \subseteq unseen
    BY <1>1
  <2>3. QED
    BY <1>1, <1>2, <2>1, <2>2 DEF Stat!IInv, Stat!GreedyInv
<1>5. Stat!CountInv'
  BY <1>1, DealingKeepsCount
<1>6. QED
  BY <1>1, <1>3, <1>4, <1>5 DEF Stat!IInv, Stat!NaiveInv, Stat!DealtInv

\* NextThread keeps the invariant.
LEMMA NextThreadInv ==
  ASSUME Stat!IInv, Stat!NextThread
  PROVE  Stat!IInv'
<1> DEFINE mine == thread_assignments[s_t]
           L == Stat!LastThread
<1>1. /\ s_phase = "greedy" /\ unseen = {}
      /\ numbers' = numbers \ Stat!Range(mine) /\ unseen' = numbers'
      /\ assigned_work' = 0 /\ s_t' = s_t + 1
      /\ s_phase' = IF s_t = L THEN "count" ELSE s_phase
      /\ UNCHANGED <<n, thread_assignments, next_number>> /\ UNCHANGED Stat!countVars
  BY DEF Stat!NextThread, Stat!Trimmed
<1>2. /\ n \in Int /\ NUM_THREADS \in Nat \ {0}
      /\ Stat!Thread = 0 .. NUM_THREADS - 1 /\ L = NUM_THREADS - 1
      /\ numbers \subseteq 1 .. n
      /\ \A u \in Stat!Thread : DOMAIN thread_assignments[u] = 1 .. Len(thread_assignments[u])
  BY GreedyTypes
<1>3. /\ s_t \in Stat!Thread /\ Stat!DealtOnce
      /\ \A u \in Stat!Thread :
           /\ u > s_t => thread_assignments[u] = << >>
           /\ \A j \in DOMAIN thread_assignments[u] :
                /\ thread_assignments[u][j] \in 1 .. n - j + 1
                /\ thread_assignments[u][j] \in numbers <=> u = s_t
      /\ \A m \in (1 .. n) \ numbers : Stat!IsDealt(m)
      /\ s_t = L => \A m \in numbers : Stat!IsDealt(m)
  BY <1>1 DEF Stat!IInv, Stat!GreedyInv
<1>4. /\ Stat!Thread' = Stat!Thread /\ Stat!LastThread' = Stat!LastThread
      /\ Stat!DealtOnce' = Stat!DealtOnce /\ \A m : Stat!IsDealt(m)' = Stat!IsDealt(m)
  BY <1>1 DEF Stat!Thread, Stat!LastThread, Stat!DealtOnce, Stat!IsDealt
<1>5. \A m : m \in Stat!Range(mine) <=> \E j \in DOMAIN mine : mine[j] = m
  BY DEF Stat!Range
<1> HIDE DEF L
<1>6. Stat!TypeOK'
  <2>1. 0 \in Stat!LONG_MIN .. Stat!LONG_MAX
    BY Widths DEF Stat!LONG_MIN, Stat!LONG_MAX
  <2>2. s_t' \in 0 .. NUM_THREADS
    BY <1>1, <1>2, <1>3
  <2>3. s_phase' \in {"naive", "greedy", "count"}
    BY <1>1
  <2>4. QED
    BY <1>1, <1>2, <1>4, <2>1, <2>2, <2>3
       DEF Stat!IInv, Stat!TypeOK, Stat!countVars, Stat!LONG_MIN, Stat!LONG_MAX
<1>7. CASE s_t # L
  <2>1. s_phase' = "greedy" /\ s_t' \in Stat!Thread /\ s_t + 1 > s_t
    <3>1. s_phase' = "greedy"
      BY <1>1, <1>7
    <3>2. s_t \in 0 .. NUM_THREADS - 1 /\ s_t # NUM_THREADS - 1 /\ s_t' = s_t + 1
      BY <1>1, <1>2, <1>3, <1>7
    <3>3. s_t' \in 0 .. NUM_THREADS - 1 /\ s_t + 1 > s_t
      BY <1>2, <3>2
    <3>4. QED
      BY <1>2, <3>1, <3>3
  <2>2. ASSUME NEW u \in Stat!Thread, NEW j \in DOMAIN thread_assignments[u]
        PROVE  thread_assignments[u][j] \in numbers' <=> u = s_t'
    <3>1. u # s_t'
      <4>1. u = s_t + 1 => DOMAIN thread_assignments[u] = {}
        BY <1>3, <2>1
      <4>2. QED
        BY <1>1, <2>2, <4>1
    <3>2. u = s_t => thread_assignments[u][j] \in Stat!Range(mine)
      BY <1>5, <2>2
    <3>3. thread_assignments[u][j] \notin numbers'
      BY <1>1, <1>3, <3>2
    <3>4. QED
      BY <3>1, <3>3
  <2>3. ASSUME NEW m \in (1 .. n) \ numbers'
        PROVE  Stat!IsDealt(m)
    <3>1. CASE m \notin numbers
      BY <1>3, <3>1
    <3>2. CASE m \in numbers
      <4>1. PICK j \in DOMAIN mine : mine[j] = m
        BY <1>1, <1>5, <2>3, <3>2
      <4>2. QED
        BY <1>3, <4>1 DEF Stat!IsDealt
    <3>3. QED
      BY <3>1, <3>2
  <2>4. \A j \in DOMAIN thread_assignments[s_t'] : FALSE
    BY <1>1, <1>3, <2>1
  <2>5. \A u \in Stat!Thread : u > s_t' => thread_assignments[u] = << >>
    BY <1>1, <1>2, <1>3
  <2>6. Stat!GreedyInv'
    BY <1>1, <1>3, <1>4, <2>1, <2>2, <2>3, <2>4, <2>5 DEF Stat!GreedyInv
  <2>7. Stat!CountInv'
    BY <1>1, DealingKeepsCount
  <2>8. QED
    BY <1>6, <2>1, <2>6, <2>7 DEF Stat!IInv, Stat!NaiveInv, Stat!DealtInv
<1>8. CASE s_t = L
  <2>1. s_phase' = "count"
    BY <1>1, <1>8
  <2>2. \A m \in 1 .. n : Stat!IsDealt(m)
    BY <1>3, <1>8
  <2>3. ASSUME NEW u \in Stat!Thread, NEW j \in DOMAIN thread_assignments[u]
        PROVE  thread_assignments[u][j] \in 0 .. n /\ j <= n + 1
    <3>1. j \in Nat /\ j >= 1 /\ thread_assignments[u][j] \in 1 .. n - j + 1
      BY <1>2, <1>3, <2>3
    <3>2. QED
      BY <1>2, <3>1
  <2>4. Stat!DealtInv'
    BY <1>1, <1>3, <1>4, <2>2, <2>3 DEF Stat!DealtInv
  <2>5. Stat!CountInv'
    BY <1>1, DealingKeepsCount
  <2>6. QED
    BY <1>6, <2>1, <2>4, <2>5 DEF Stat!IInv, Stat!NaiveInv, Stat!GreedyInv
<1>9. QED
  BY <1>7, <1>8

-------------------------------------------------------------------------------
(* The numbers are counted.                                                *)

\* A thread's share does not change, once it is dealt.
LEMMA CountingKeepsDeals ==
  ASSUME Stat!IInv, UNCHANGED <<n, s_phase>>, UNCHANGED Stat!dealVars
  PROVE  Stat!NaiveInv' /\ Stat!GreedyInv' /\ Stat!DealtInv'
<1>1. UNCHANGED <<thread_assignments, s_t, numbers, unseen, assigned_work, next_number>>
  BY DEF Stat!dealVars
<1>2. /\ Stat!Thread' = Stat!Thread /\ Stat!LastThread' = Stat!LastThread
      /\ Stat!nums_per_thread' = Stat!nums_per_thread
      /\ Stat!DealtOnce' = Stat!DealtOnce /\ \A m : Stat!IsDealt(m)' = Stat!IsDealt(m)
  BY <1>1 DEF Stat!Thread, Stat!LastThread, Stat!DealtOnce, Stat!IsDealt, Stat!nums_per_thread,
              Stat!Quotient
<1>3. \A u \in Stat!Thread : Stat!NaiveRun(u)' = Stat!NaiveRun(u)
  BY <1>2 DEF Stat!NaiveRun, Stat!FromTo
<1>4. Stat!NaiveInv'
  BY <1>1, <1>2, <1>3 DEF Stat!IInv, Stat!NaiveInv
<1>5. Stat!GreedyInv'
  BY <1>1, <1>2 DEF Stat!IInv, Stat!GreedyInv
<1>6. Stat!DealtInv'
  BY <1>1, <1>2 DEF Stat!IInv, Stat!DealtInv
<1>7. QED
  BY <1>4, <1>5, <1>6

\* A thread was started, so the numbers are dealt.
LEMMA StartedMeansDealt ==
  ASSUME Stat!IInv, NEW u \in Stat!Thread, s_state[u] # "unborn"
  PROVE  s_phase = "count" /\ u < s_started
<1>1. Stat!Thread = 0 .. NUM_THREADS - 1 /\ NUM_THREADS \in Nat /\ s_started \in Nat
  BY GreedyTypes DEF Stat!IInv, Stat!TypeOK
<1>2. ~ u >= s_started
  BY DEF Stat!IInv, Stat!CountInv
<1>3. s_started # 0
  BY <1>1, <1>2
<1>4. QED
  BY <1>1, <1>2, <1>3 DEF Stat!IInv, Stat!CountInv

\* StaticStartThread keeps the invariant.
LEMMA StaticStartThreadInv ==
  ASSUME Stat!IInv, Stat!StartThread
  PROVE  Stat!IInv' /\ Stat!NotAdded' = Stat!NotAdded
<1>1. /\ s_phase = "count" /\ s_started < NUM_THREADS
      /\ s_state' = [s_state EXCEPT ![s_started] = "adding"] /\ s_started' = s_started + 1
      /\ UNCHANGED <<n, s_phase, s_joined, s_prime_count>> /\ UNCHANGED Stat!dealVars
  BY DEF Stat!StartThread
<1>2. /\ NUM_THREADS \in Nat \ {0} /\ Stat!Thread = 0 .. NUM_THREADS - 1
      /\ s_started \in Stat!Thread /\ Stat!Thread' = Stat!Thread
      /\ UNCHANGED <<thread_assignments, s_t, numbers, unseen, assigned_work, next_number>>
  BY <1>1, GreedyTypes DEF Stat!IInv, Stat!TypeOK, Stat!Thread, Stat!dealVars
<1>3. /\ s_state'[s_started] = "adding"
      /\ \A u \in Stat!Thread : u # s_started => s_state'[u] = s_state[u]
      /\ s_state' \in [Stat!Thread -> {"unborn", "adding", "finished"}]
  BY <1>1, <1>2 DEF Stat!IInv, Stat!TypeOK
<1>4. s_state[s_started] = "unborn" /\ ~ s_started < s_joined
  BY <1>2 DEF Stat!IInv, Stat!CountInv
<1>5. Stat!TypeOK'
  <2>1. s_started' \in 0 .. NUM_THREADS
    BY <1>1, <1>2
  <2>2. QED
    BY <1>1, <1>2, <1>3, <2>1 DEF Stat!IInv, Stat!TypeOK, Stat!LONG_MIN, Stat!LONG_MAX
<1>6. \A u \in Stat!Thread : s_state'[u] = "finished" <=> s_state[u] = "finished"
  BY <1>3, <1>4
<1>7. Stat!Added' = Stat!Added /\ Stat!NotAdded' = Stat!NotAdded
  BY <1>1, <1>2, <1>6 DEF Stat!Added, Stat!NotAdded, Stat!Range
<1>8. Stat!CountInv'
  <2>1. ASSUME NEW u \in Stat!Thread
        PROVE  /\ s_state'[u] = "unborn" <=> u >= s_started'
               /\ u < s_joined => s_state'[u] = "finished"
    <3>1. s_state[u] = "unborn" <=> u >= s_started
      BY DEF Stat!IInv, Stat!CountInv
    <3>2. u < s_joined => s_state[u] = "finished"
      BY DEF Stat!IInv, Stat!CountInv
    <3>3. CASE u = s_started
      BY <1>1, <1>2, <1>3, <1>4, <3>3
    <3>4. CASE u # s_started
      <4>1. u >= s_started <=> u >= s_started + 1
        BY <1>2, <3>4
      <4>2. QED
        BY <1>1, <1>3, <3>1, <3>2, <3>4, <4>1
    <3>5. QED
      BY <3>3, <3>4
  <2>2. s_prime_count' = Stat!Cardinality({m \in Stat!Added' : Stat!is_prime(m)})
    BY <1>1, <1>7 DEF Stat!IInv, Stat!CountInv
  <2>3. QED
    BY <1>1, <1>2, <2>1, <2>2 DEF Stat!CountInv
<1>9. QED
  BY <1>1, <1>5, <1>7, <1>8, CountingKeepsDeals DEF Stat!IInv

\* A thread counts each prime of its share once.
LEMMA CountOfShare ==
  ASSUME Stat!IInv, s_phase = "count", NEW u \in Stat!Thread
  PROVE  Stat!local_count(u)
           = Cardinality({m \in 1 .. n : m \in Stat!Range(thread_assignments[u]) /\ is_prime(m)})
<1> DEFINE mine == thread_assignments[u]
           places == {j \in DOMAIN mine : is_prime(mine[j])}
           primes == {m \in 1 .. n : m \in Stat!Range(mine) /\ is_prime(m)}
           f == [j \in places |-> mine[j]]
<1>1. /\ n \in Int
      /\ DOMAIN mine = 1 .. Len(mine) /\ Len(mine) \in Nat
      /\ \A j \in DOMAIN mine : mine[j] \in 0 .. n
      /\ \A j, k \in DOMAIN mine : mine[j] = mine[k] => j = k
  BY GreedyTypes DEF Stat!IInv, Stat!DealtInv, Stat!DealtOnce
<1>2. \A m : m \in Stat!Range(mine) <=> \E j \in DOMAIN mine : mine[j] = m
  BY DEF Stat!Range
<1>3. ~ is_prime(0)
  BY DEF is_prime
<1>4. \A j \in places : mine[j] \in primes
  BY <1>1, <1>2, <1>3
<1>5. \A m \in primes : \E j \in places : mine[j] = m
  BY <1>2
<1>6. IsFiniteSet(places)
  <2>1. IsFiniteSet(DOMAIN mine)
    BY <1>1, FS_Interval
  <2>2. places \subseteq DOMAIN mine
    OBVIOUS
  <2>3. QED
    BY <2>1, <2>2, FS_Subset
<1>7. f \in Bijection(places, primes)
  <2>1. f \in [places -> primes]
    BY <1>4
  <2>2. \A j, k \in places : f[j] = f[k] => j = k
    BY <1>1
  <2>3. \A m \in primes : \E j \in places : f[j] = m
    BY <1>5
  <2> HIDE DEF f, places, primes
  <2>4. QED
    BY <2>1, <2>2, <2>3 DEF Bijection, Injection, Surjection, IsInjective
<1>8. Stat!local_count(u) = Cardinality(places)
  <2>1. places = {j \in DOMAIN mine : Stat!is_prime(mine[j])}
    BY DEF is_prime, Stat!is_prime
  <2>2. QED
    BY <2>1 DEF Stat!local_count, Stat!Cardinality, Cardinality
<1> HIDE DEF f, places, primes
<1>9. Cardinality(places) = Cardinality(primes)
  BY <1>6, <1>7, FS_Bijection DEF ExistsBijection
<1>10. QED
  BY <1>8, <1>9 DEF primes

\* The primes of a thread's share enter the total, and the share leaves what is left.
LEMMA StaticAddLocalCountInv ==
  ASSUME Stat!IInv, NEW u \in Stat!Thread, Stat!AddLocalCount(u)
  PROVE  /\ Stat!IInv'
         /\ s_joined # NUM_THREADS
         /\ Stat!NotAdded' \subseteq Stat!NotAdded
         /\ Stat!local_count(u)
              = Cardinality({m \in Stat!NotAdded \ Stat!NotAdded' : is_prime(m)})
<1> DEFINE share == {m \in 1 .. n : m \in Stat!Range(thread_assignments[u])}
           own == {m \in share : is_prime(m)}
           before == {m \in Stat!Added : is_prime(m)}
           after == {m \in Stat!Added' : is_prime(m)}
<1>1. /\ s_state[u] = "adding" /\ s_prime_count' = s_prime_count + Stat!local_count(u)
      /\ s_state' = [s_state EXCEPT ![u] = "finished"]
      /\ UNCHANGED <<n, s_phase, s_started, s_joined>> /\ UNCHANGED Stat!dealVars
  BY DEF Stat!AddLocalCount
<1>2. /\ s_phase = "count" /\ n \in Int /\ NUM_THREADS \in Nat \ {0}
      /\ Stat!Thread = 0 .. NUM_THREADS - 1 /\ Stat!Thread' = Stat!Thread
      /\ thread_assignments' = thread_assignments
  BY <1>1, GreedyTypes, StartedMeansDealt DEF Stat!Thread, Stat!dealVars
<1>3. /\ s_state'[u] = "finished"
      /\ \A v \in Stat!Thread : v # u => s_state'[v] = s_state[v]
      /\ s_state' \in [Stat!Thread -> {"unborn", "adding", "finished"}]
  BY <1>1 DEF Stat!IInv, Stat!TypeOK
<1>4. /\ \A m \in 1 .. n : Stat!IsDealt(m)
      /\ \A v, w \in Stat!Thread :
           \A j \in DOMAIN thread_assignments[v], k \in DOMAIN thread_assignments[w] :
             thread_assignments[v][j] = thread_assignments[w][k] => v = w /\ j = k
  BY <1>2 DEF Stat!IInv, Stat!DealtInv, Stat!DealtOnce
<1>5. \A v \in Stat!Thread : \A m :
        m \in Stat!Range(thread_assignments[v])
          <=> \E j \in DOMAIN thread_assignments[v] : thread_assignments[v][j] = m
  BY DEF Stat!Range
<1>6. \A v \in Stat!Thread : \A m :
        m \in Stat!Range(thread_assignments[u]) /\ m \in Stat!Range(thread_assignments[v])
          => v = u
  BY <1>4, <1>5
<1>7. /\ \A m : m \in Stat!Added <=>
                  m \in 1 .. n /\ \E v \in Stat!Thread :
                    s_state[v] = "finished" /\ m \in Stat!Range(thread_assignments[v])
      /\ \A m : m \in Stat!Added' <=>
                  m \in 1 .. n /\ \E v \in Stat!Thread :
                    s_state'[v] = "finished" /\ m \in Stat!Range(thread_assignments[v])
  BY <1>1, <1>2 DEF Stat!Added, Stat!Range
<1>8. /\ \A m : m \in Stat!NotAdded <=>
                  m \in 1 .. n /\ \E v \in Stat!Thread :
                    s_state[v] # "finished" /\ m \in Stat!Range(thread_assignments[v])
      /\ \A m : m \in Stat!NotAdded' <=>
                  m \in 1 .. n /\ \E v \in Stat!Thread :
                    s_state'[v] # "finished" /\ m \in Stat!Range(thread_assignments[v])
  BY <1>1, <1>2 DEF Stat!NotAdded, Stat!Range
<1>9. \A m : m \in Stat!Added' <=> m \in Stat!Added \/ m \in share
  BY <1>1, <1>3, <1>7
<1>10. share \cap Stat!Added = {}
  BY <1>1, <1>6, <1>7
<1>11. /\ Stat!NotAdded' \subseteq Stat!NotAdded
       /\ \A m : m \in Stat!NotAdded \ Stat!NotAdded' <=> m \in share
  <2>1. \A m : m \in Stat!NotAdded' => m \in Stat!NotAdded
    BY <1>1, <1>3, <1>8
  <2>2. \A m : m \in share => m \in Stat!NotAdded /\ m \notin Stat!NotAdded'
    BY <1>1, <1>3, <1>6, <1>8
  <2>3. \A m : m \in Stat!NotAdded /\ m \notin Stat!NotAdded' => m \in share
    BY <1>1, <1>3, <1>8
  <2>4. QED
    BY <2>1, <2>2, <2>3
<1>12. own = {m \in Stat!NotAdded \ Stat!NotAdded' : is_prime(m)}
  BY <1>11
<1>13. Stat!local_count(u) = Cardinality(own)
  <2>1. own = {m \in 1 .. n : m \in Stat!Range(thread_assignments[u]) /\ is_prime(m)}
    OBVIOUS
  <2>2. QED
    BY <1>2, <2>1, CountOfShare
<1>14. IsFiniteSet(before) /\ IsFiniteSet(own)
  <2>1. IsFiniteSet(1 .. n)
    BY <1>2, FS_Interval
  <2>2. before \subseteq 1 .. n /\ own \subseteq 1 .. n
    BY DEF Stat!Added
  <2>3. QED
    BY <2>1, <2>2, FS_Subset
<1>15. after = before \cup own /\ before \cap own = {}
  BY <1>9, <1>10
<1>16. /\ s_prime_count = Cardinality(before)
       /\ Cardinality(after) = Stat!Cardinality({m \in Stat!Added' : Stat!is_prime(m)})
  <2>1. before = {m \in Stat!Added : Stat!is_prime(m)}
    BY DEF Stat!is_prime, is_prime
  <2>2. after = {m \in Stat!Added' : Stat!is_prime(m)}
    BY DEF Stat!is_prime, is_prime
  <2>3. QED
    BY <2>1, <2>2 DEF Stat!IInv, Stat!CountInv, Stat!Cardinality, Cardinality
<1>17. Cardinality(before) \in Nat /\ Cardinality(own) \in Nat
       /\ Cardinality(after) = Cardinality(before) + Cardinality(own)
  <2> HIDE DEF before, own, after
  <2>1. Cardinality(after) = Cardinality(before) + Cardinality(own) - Cardinality({})
    BY <1>14, <1>15, FS_Union
  <2>2. Cardinality(before) \in Nat /\ Cardinality(own) \in Nat
    BY <1>14, FS_CardinalityType
  <2>3. QED
    BY <2>1, <2>2, FS_EmptySet
<1> HIDE DEF share, own, before, after
<1>18. Stat!CountInv'
  <2>1. s_prime_count' = Stat!Cardinality({m \in Stat!Added' : Stat!is_prime(m)})
    BY <1>1, <1>13, <1>16, <1>17
  <2>2. \A v \in Stat!Thread : /\ s_state'[v] = "unborn" <=> v >= s_started
                               /\ v < s_joined => s_state'[v] = "finished"
    BY <1>1, <1>3 DEF Stat!IInv, Stat!CountInv
  <2>3. QED
    BY <1>1, <1>2, <2>1, <2>2 DEF Stat!CountInv
<1>19. Stat!TypeOK'
  <2>1. s_prime_count' \in Nat
    BY <1>1, <1>13, <1>17 DEF Stat!IInv, Stat!TypeOK
  <2>2. QED
    BY <1>1, <1>2, <1>3, <2>1
       DEF Stat!IInv, Stat!TypeOK, Stat!dealVars, Stat!LONG_MIN, Stat!LONG_MAX
<1>20. s_joined # NUM_THREADS
  <2>1. ~ u < s_joined
    BY <1>1 DEF Stat!IInv, Stat!CountInv
  <2>2. QED
    BY <1>2, <2>1
<1>21. QED
  BY <1>1, <1>11, <1>12, <1>13, <1>18, <1>19, <1>20, CountingKeepsDeals DEF Stat!IInv

\* StaticJoinThread keeps the invariant.
LEMMA StaticJoinThreadInv ==
  ASSUME Stat!IInv, Stat!JoinThread
  PROVE  Stat!IInv' /\ Stat!NotAdded' = Stat!NotAdded
<1>1. /\ s_phase = "count" /\ s_joined < NUM_THREADS /\ s_state[s_joined] = "finished"
      /\ s_joined' = s_joined + 1
      /\ UNCHANGED <<n, s_phase, s_started, s_state, s_prime_count>>
      /\ UNCHANGED Stat!dealVars
  BY DEF Stat!JoinThread
<1>2. /\ NUM_THREADS \in Nat \ {0} /\ Stat!Thread = 0 .. NUM_THREADS - 1
      /\ s_joined \in Stat!Thread /\ Stat!Thread' = Stat!Thread
      /\ UNCHANGED <<thread_assignments, s_t, numbers, unseen, assigned_work, next_number>>
  BY <1>1, GreedyTypes DEF Stat!IInv, Stat!TypeOK, Stat!Thread, Stat!dealVars
<1>3. Stat!TypeOK'
  <2>1. s_joined' \in 0 .. NUM_THREADS
    BY <1>1, <1>2
  <2>2. QED
    BY <1>1, <1>2, <2>1 DEF Stat!IInv, Stat!TypeOK, Stat!LONG_MIN, Stat!LONG_MAX
<1>4. Stat!Added' = Stat!Added /\ Stat!NotAdded' = Stat!NotAdded
  BY <1>1, <1>2 DEF Stat!Added, Stat!NotAdded, Stat!Range
<1>5. Stat!CountInv'
  <2>1. \A u \in Stat!Thread : u < s_joined + 1 => u < s_joined \/ u = s_joined
    BY <1>2
  <2>2. \A u \in Stat!Thread : u < s_joined' => s_state[u] = "finished"
    BY <1>1, <2>1 DEF Stat!IInv, Stat!CountInv
  <2>3. QED
    BY <1>1, <1>2, <1>4, <2>2 DEF Stat!IInv, Stat!CountInv
<1>6. QED
  BY <1>1, <1>3, <1>4, <1>5, CountingKeepsDeals DEF Stat!IInv

\* Every step of the static count keeps its invariant.
LEMMA StaticNext == Stat!IInv /\ [Stat!Next]_(Stat!vars) => Stat!IInv'
<1> SUFFICES ASSUME Stat!IInv, [Stat!Next]_(Stat!vars)
             PROVE  Stat!IInv'
  OBVIOUS
<1>1. CASE UNCHANGED Stat!vars
  <2>1. /\ UNCHANGED <<n, s_phase>> /\ UNCHANGED Stat!dealVars
        /\ UNCHANGED <<s_started, s_state, s_joined, s_prime_count>>
        /\ UNCHANGED <<thread_assignments, s_t, numbers, unseen, assigned_work, next_number>>
    BY <1>1 DEF Stat!vars, Stat!dealVars, Stat!countVars
  <2>2. Stat!Thread' = Stat!Thread /\ Stat!Added' = Stat!Added
    BY <2>1 DEF Stat!Thread, Stat!Added, Stat!Range
  <2>3. Stat!TypeOK'
    BY <2>1, <2>2 DEF Stat!IInv, Stat!TypeOK, Stat!LONG_MIN, Stat!LONG_MAX
  <2>4. Stat!CountInv'
    BY <2>1, <2>2 DEF Stat!IInv, Stat!CountInv
  <2>5. QED
    BY <2>1, <2>3, <2>4, CountingKeepsDeals DEF Stat!IInv
<1>2. CASE Stat!Main
  BY <1>2, DealRunInv, DealRestInv, TakeNumberInv, SkipNumberInv, NextThreadInv,
     StaticStartThreadInv, StaticJoinThreadInv DEF Stat!Main
<1>3. CASE \E u \in Stat!Thread : Stat!AddLocalCount(u)
  BY <1>3, StaticAddLocalCountInv
<1>4. QED
  BY <1>1, <1>2, <1>3 DEF Stat!Next

\* So it always holds.
LEMMA StaticInvariant == Stat!Spec => []Stat!IInv
BY StaticInit, StaticNext, PTL DEF Stat!Spec

\* Both setups of the static count deal every number from 1 to N to exactly one thread,
\* and nothing else but the 0, for every number of threads and also when the total work
\* overflows a long.
THEOREM EveryNumberIsDealt == Stat!Spec => []NumbersAreDealt
<1>1. Stat!IInv => NumbersAreDealt
  <2> SUFFICES ASSUME Stat!IInv, s_phase = "count"
               PROVE  /\ \A m \in 1 .. n : Stat!Dealt(m) = 1
                      /\ \A u \in Stat!Thread :
                           Stat!Range(thread_assignments[u]) \subseteq 0 .. n
    BY DEF NumbersAreDealt, Stat!NumbersAreDealt
  <2>1. /\ n \in Int
        /\ \A u \in Stat!Thread : /\ DOMAIN thread_assignments[u] = 1 .. Len(thread_assignments[u])
                                  /\ Len(thread_assignments[u]) \in Nat
    BY GreedyTypes
  <2>2. /\ \A u, v \in Stat!Thread :
             \A j \in DOMAIN thread_assignments[u], k \in DOMAIN thread_assignments[v] :
               thread_assignments[u][j] = thread_assignments[v][k] => u = v /\ j = k
        /\ \A u \in Stat!Thread : \A j \in DOMAIN thread_assignments[u] :
             thread_assignments[u][j] \in 0 .. n /\ j <= n + 1
        /\ \A m \in 1 .. n : \E u \in Stat!Thread : \E j \in DOMAIN thread_assignments[u] :
             thread_assignments[u][j] = m
    BY DEF Stat!IInv, Stat!DealtInv, Stat!DealtOnce, Stat!IsDealt
  <2>3. \A u \in Stat!Thread : Stat!Range(thread_assignments[u]) \subseteq 0 .. n
    BY <2>2 DEF Stat!Range
  <2>4. ASSUME NEW m \in 1 .. n
        PROVE  Stat!Dealt(m) = 1
    <3> DEFINE places == {place \in Stat!Thread \X (1 .. n + 1) :
                            LET mine == thread_assignments[place[1]]
                            IN  place[2] \in DOMAIN mine /\ mine[place[2]] = m}
    <3>8. PICK u \in Stat!Thread : \E j \in DOMAIN thread_assignments[u] :
                 thread_assignments[u][j] = m
      BY <2>2
    <3>1. PICK j \in DOMAIN thread_assignments[u] : thread_assignments[u][j] = m
      BY <3>8
    <3>2. j \in 1 .. n + 1
      BY <2>1, <2>2, <3>1
    <3>3. <<u, j>> \in places
      BY <3>1, <3>2
    <3>4. \A place \in places : place = <<u, j>>
      <4>1. ASSUME NEW place \in places
            PROVE  place = <<u, j>>
        <5>1. /\ place[1] \in Stat!Thread /\ place = <<place[1], place[2]>>
              /\ place[2] \in DOMAIN thread_assignments[place[1]]
              /\ thread_assignments[place[1]][place[2]] = m
          OBVIOUS
        <5> HIDE DEF places
        <5>2. place[1] = u /\ place[2] = j
          BY <2>2, <3>1, <5>1
        <5>3. QED
          BY <5>1, <5>2
      <4>2. QED
        BY <4>1
    <3>5. places = {<<u, j>>}
      BY <3>3, <3>4
    <3>6. Stat!Dealt(m) = Cardinality(places)
      BY DEF Stat!Dealt, Stat!Cardinality, Cardinality
    <3> HIDE DEF places
    <3>7. QED
      BY <3>5, <3>6, FS_Singleton
  <2>5. QED
    BY <2>3, <2>4
<1>2. QED
  BY <1>1, StaticInvariant, PTL

-------------------------------------------------------------------------------
(* What the last thread is given by the greedy setup.                      *)

WorkOf   == [m \in Nat |-> m + 10]
Given(u) == Stat!Range(thread_assignments[u])
Share(u) == SumFunctionOnSet(WorkOf, Given(u))

\* If a long can hold the total work, assigned_work is what thread s_t was given so far,
\* and no more than its share; the numbers it was not given, and those that no earlier
\* thread was given, were too much for it.  When all is dealt this is so of the numbers
\* of the last thread and any other.
SharesInv ==
  Stat!all_work <= Stat!LONG_MAX =>
    /\ s_phase = "greedy" =>
         /\ \A u \in Stat!Thread : u < s_t =>
              \A m \in numbers : Share(u) + m + 10 > Stat!work_per_thread
         /\ s_t < Stat!LastThread =>
              /\ assigned_work = Share(s_t)
              /\ assigned_work <= Stat!work_per_thread
              /\ \A m \in numbers \ unseen :
                   m \in Given(s_t) \/ Share(s_t) + m + 10 > Stat!work_per_thread
    /\ s_phase = "count" /\ s_t = NUM_THREADS =>
         \A u \in Stat!Thread :
           /\ Given(u) \subseteq 1 .. n
           /\ u < Stat!LastThread =>
                \A m \in Given(Stat!LastThread) : Share(u) + m + 10 > Stat!work_per_thread

\* A sum of PrimeStatic is a sum of this module.
LEMMA StaticSums ==
  ASSUME NEW f, NEW S
  PROVE  Stat!SumFunctionOnSet(f, S) = SumFunctionOnSet(f, S)
BY DEF Stat!SumFunctionOnSet, Stat!FoldFunctionOnSet, Stat!MapThenFoldSet,
       SumFunctionOnSet, FoldFunctionOnSet, MapThenFoldSet

\* The work of a finite set of numbers.
LEMMA WorkOfNumbers ==
  ASSUME NEW S \in SUBSET Nat, IsFiniteSet(S)
  PROVE  /\ Stat!SumFunction([m \in S |-> Stat!Work(m)]) = SumFunctionOnSet(WorkOf, S)
         /\ SumFunctionOnSet(WorkOf, S) \in Nat
<1> DEFINE f == [m \in S |-> Stat!Work(m)]
<1>1. \A m \in S : WorkOf[m] \in Nat /\ WorkOf[m] \in Int /\ f[m] = WorkOf[m]
  BY DEF WorkOf, Stat!Work
<1>2. Stat!SumFunction(f) = SumFunctionOnSet(f, S)
  <2>1. DOMAIN f = S
    OBVIOUS
  <2> HIDE DEF f
  <2>2. QED
    BY <2>1, StaticSums DEF Stat!SumFunction
<1> HIDE DEF f
<1>3. SumFunctionOnSet(f, S) = SumFunctionOnSet(WorkOf, S)
  BY <1>1, SumsAgree
<1>4. SumFunctionOnSet(WorkOf, S) \in Nat
  BY <1>1, SumIsNatural
<1>5. QED
  BY <1>2, <1>3, <1>4 DEF f

\* A number that fits a long is kept as it is.
LEMMA LongsAreKept ==
  ASSUME NEW x \in Nat, x <= Stat!LONG_MAX
  PROVE  Stat!ToLong(x) = x
<1> DEFINE half == 2^(LONG_BITS - 1)
<1>1. half \in Nat /\ half > 0 /\ 2^LONG_BITS = 2 * half
  BY Widths
<1>2. /\ Stat!LONG_MIN = - half /\ Stat!LONG_MAX = half - 1
      /\ Stat!ToLong(x) = ((x - Stat!LONG_MIN) % (2 * half)) + Stat!LONG_MIN
  BY <1>1 DEF Stat!LONG_MIN, Stat!LONG_MAX, Stat!ToLong
<1> HIDE DEF half
<1>3. x - Stat!LONG_MIN = x + half /\ x + half \in 0 .. 2 * half - 1
  BY <1>1, <1>2
<1>4. (x + half) % (2 * half) = x + half
  <2> DEFINE k == 2 * half
             y == x + half
  <2>1. k \in Nat /\ k > 0 /\ y \in 0 .. k - 1
    BY <1>1, <1>3
  <2> HIDE DEF k, y
  <2>2. y % k = y
    BY <2>1
  <2>3. QED
    BY <2>2 DEF k, y
<1>5. QED
  BY <1>1, <1>2, <1>3, <1>4

\* The total and the share of a thread, if a long can hold the total.
LEMMA FittingTotal ==
  ASSUME n \in Inputs, Stat!all_work <= Stat!LONG_MAX
  PROVE  /\ Stat!all_work = SumFunctionOnSet(WorkOf, 2 .. n)
         /\ Stat!all_work \in Nat
         /\ Stat!total_work = Stat!all_work
         /\ Stat!work_per_thread \in Nat /\ Stat!work_per_thread <= Stat!LONG_MAX
         /\ Stat!LONG_MAX \in Nat
         /\ Stat!all_work = NUM_THREADS * Stat!work_per_thread + (Stat!total_work % NUM_THREADS)
         /\ Stat!total_work % NUM_THREADS \in Nat
<1> DEFINE W == Stat!all_work
           N == NUM_THREADS
<1>1. n \in Int /\ N \in Nat \ {0}
  BY StaticTypes
<1>2. 2 .. n \in SUBSET Nat /\ IsFiniteSet(2 .. n)
  BY <1>1, FS_Interval
<1>3. W = SumFunctionOnSet(WorkOf, 2 .. n) /\ W \in Nat
  BY <1>2, WorkOfNumbers DEF Stat!all_work
<1>4. Stat!LONG_MAX \in Nat
  BY Widths DEF Stat!LONG_MAX
<1> HIDE DEF W, N
<1>5. Stat!total_work = W
  BY <1>3, LongsAreKept DEF Stat!total_work, W
<1>6. Stat!work_per_thread = W \div N
  BY <1>3, <1>5 DEF Stat!work_per_thread, Stat!Quotient, N
<1>7. W \div N \in Nat /\ W = N * (W \div N) + (W % N) /\ W % N \in Nat
  BY <1>1, <1>3
<1>8. W \div N <= W
  <2> DEFINE d == W \div N
             r == W % N
  <2>1. d \in Nat /\ r \in Nat /\ W = N * d + r
    BY <1>7
  <2> HIDE DEF d, r
  <2>2. N * d >= d
    BY <1>1, <2>1
  <2>3. W \in Nat /\ N * d \in Nat
    BY <1>1, <1>3, <2>1
  <2>4. QED
    BY <2>1, <2>2, <2>3 DEF d
<1>9. QED
  BY <1>3, <1>4, <1>5, <1>6, <1>7, <1>8 DEF W, N

\* What a thread was given is a finite set of numbers.
LEMMA SharesAreSums ==
  ASSUME Stat!IInv, NEW u \in Stat!Thread
  PROVE  /\ Given(u) \in SUBSET Nat /\ IsFiniteSet(Given(u)) /\ Share(u) \in Nat
         /\ \A m : m \in Given(u) <=>
                     \E j \in DOMAIN thread_assignments[u] : thread_assignments[u][j] = m
<1>1. /\ thread_assignments[u] \in Seq(Nat) /\ Len(thread_assignments[u]) \in Nat
      /\ DOMAIN thread_assignments[u] = 1 .. Len(thread_assignments[u])
  BY GreedyTypes
<1>2. Given(u) = {thread_assignments[u][j] : j \in DOMAIN thread_assignments[u]}
  BY DEF Given, Stat!Range
<1>3. IsFiniteSet(DOMAIN thread_assignments[u])
  BY <1>1, FS_Interval
<1>4. IsFiniteSet(Given(u))
  <2> DEFINE f == thread_assignments[u]
             places == DOMAIN f
  <2>1. f \in [places -> Given(u)] /\ Given(u) = {f[j] : j \in places}
    BY <1>1, <1>2
  <2> HIDE DEF f
  <2>2. f \in Surjection(places, Given(u))
    BY <2>1 DEF Surjection
  <2>3. QED
    BY <1>3, <2>2, FS_Surjection DEF f
<1>5. Given(u) \in SUBSET Nat
  BY <1>1, <1>2
<1>6. QED
  BY <1>2, <1>4, <1>5, WorkOfNumbers DEF Share

\* A step changes neither the total nor the threads.
LEMMA TotalIsKept ==
  ASSUME n' = n
  PROVE  /\ Stat!all_work' = Stat!all_work /\ Stat!work_per_thread' = Stat!work_per_thread
         /\ Stat!LONG_MAX' = Stat!LONG_MAX
         /\ Stat!Thread' = Stat!Thread /\ Stat!LastThread' = Stat!LastThread
<1>1. Stat!all_work' = Stat!all_work
  BY DEF Stat!all_work
<1>2. QED
  BY <1>1 DEF Stat!work_per_thread, Stat!total_work, Stat!Quotient, Stat!ToLong, Stat!LONG_MAX,
              Stat!LONG_MIN, Stat!Thread, Stat!LastThread

\* Nor does it change the share of a thread that is given nothing.
LEMMA ShareIsKept ==
  ASSUME NEW u, thread_assignments'[u] = thread_assignments[u]
  PROVE  Given(u)' = Given(u) /\ Share(u)' = Share(u)
BY DEF Given, Share, Stat!Range

\* While nothing is given.
LEMMA NothingIsGiven ==
  ASSUME NEW u, thread_assignments[u] = << >>
  PROVE  Given(u) = {} /\ Share(u) = 0
<1>1. Given(u) = {}
  BY DEF Given, Stat!Range
<1>2. SumFunctionOnSet(WorkOf, {}) = 0
  BY FS_EmptySet, SumStep
<1>3. QED
  BY <1>1, <1>2 DEF Share

\* At first nothing is given.
LEMMA SharesInit == Stat!Init => SharesInv
<1> SUFFICES ASSUME Stat!Init, Stat!all_work <= Stat!LONG_MAX
             PROVE  SharesInv
  BY DEF SharesInv
<1>1. /\ n \in Inputs /\ s_phase \in {"naive", "greedy"} /\ s_t = 0
      /\ unseen = numbers /\ assigned_work = 0
      /\ thread_assignments = [u \in Stat!Thread |-> << >>]
  BY DEF Stat!Init
<1>2. /\ Stat!Thread = 0 .. NUM_THREADS - 1 /\ 0 \in Stat!Thread
      /\ \A u \in Stat!Thread : ~ u < 0
  BY <1>1, StaticTypes
<1>3. Share(0) = 0
  BY <1>1, <1>2, NothingIsGiven
<1>4. Stat!work_per_thread \in Nat
  BY <1>1, FittingTotal
<1>5. QED
  BY <1>1, <1>2, <1>3, <1>4 DEF SharesInv

\* The types that the steps below need.
LEMMA SharesTypes ==
  ASSUME Stat!IInv, s_phase = "greedy"
  PROVE  /\ n \in Inputs /\ n \in Int /\ NUM_THREADS \in Nat \ {0}
         /\ Stat!Thread = 0 .. NUM_THREADS - 1 /\ Stat!LastThread = NUM_THREADS - 1
         /\ s_t \in Stat!Thread /\ s_t \in Nat /\ assigned_work \in Int
         /\ unseen \subseteq numbers /\ numbers \subseteq 1 .. n
         /\ \A u \in Stat!Thread : u > s_t => thread_assignments[u] = << >>
         /\ \A u \in Stat!Thread : /\ Given(u) \subseteq 1 .. n
                                   /\ \A m \in Given(u) : m \in numbers <=> u = s_t
         /\ \A m \in Given(s_t) : \A k \in unseen : m > k
<1>1. /\ n \in Inputs /\ n \in Int /\ NUM_THREADS \in Nat \ {0}
      /\ Stat!Thread = 0 .. NUM_THREADS - 1 /\ Stat!LastThread = NUM_THREADS - 1
      /\ unseen \subseteq numbers /\ numbers \subseteq 1 .. n
      /\ \A u \in Stat!Thread : /\ DOMAIN thread_assignments[u] = 1 .. Len(thread_assignments[u])
                                /\ Len(thread_assignments[u]) \in Nat
  BY GreedyTypes
<1>2. /\ s_t \in Stat!Thread
      /\ \A u \in Stat!Thread :
           /\ u > s_t => thread_assignments[u] = << >>
           /\ \A j \in DOMAIN thread_assignments[u] :
                /\ thread_assignments[u][j] \in 1 .. n - j + 1
                /\ thread_assignments[u][j] \in numbers <=> u = s_t
      /\ \A j \in DOMAIN thread_assignments[s_t], m \in unseen : thread_assignments[s_t][j] > m
  BY DEF Stat!IInv, Stat!GreedyInv
<1>3. s_t \in Nat /\ assigned_work \in Int
  BY <1>1, <1>2, Widths DEF Stat!IInv, Stat!TypeOK, Stat!LONG_MIN, Stat!LONG_MAX
<1>4. \A u \in Stat!Thread : \A m \in Given(u) :
        \E j \in DOMAIN thread_assignments[u] : thread_assignments[u][j] = m
  BY SharesAreSums
<1>5. \A u \in Stat!Thread : /\ Given(u) \subseteq 1 .. n
                             /\ \A m \in Given(u) : m \in numbers <=> u = s_t
  <2>1. \A j \in Nat : j >= 1 => 1 .. n - j + 1 \subseteq 1 .. n
    BY <1>1
  <2>2. \A u \in Stat!Thread : \A j \in DOMAIN thread_assignments[u] : j \in Nat /\ j >= 1
    BY <1>1
  <2>3. QED
    BY <1>2, <1>4, <2>1, <2>2
<1>6. \A m \in Given(s_t) : \A k \in unseen : m > k
  BY <1>2, <1>4
<1>7. QED
  BY <1>1, <1>2, <1>3, <1>5, <1>6

\* A number is given to the thread: its share grows by the work of that number.
LEMMA TakeNumberShares ==
  ASSUME Stat!IInv, SharesInv, Stat!TakeNumber
  PROVE  SharesInv'
<1> DEFINE x == Stat!number
           w == Stat!work_per_thread
           T == s_t
<1>1. /\ s_phase = "greedy" /\ unseen # {} /\ Stat!Fits
      /\ thread_assignments' = [thread_assignments EXCEPT ![T] = Append(@, x)]
      /\ assigned_work' = Stat!ToLong(assigned_work + Stat!Work(x))
      /\ unseen' = unseen \ {x}
      /\ UNCHANGED <<n, s_phase, s_t, numbers, next_number>>
  BY DEF Stat!TakeNumber
<1>2. /\ n \in Inputs /\ n \in Int /\ NUM_THREADS \in Nat \ {0}
      /\ Stat!Thread = 0 .. NUM_THREADS - 1 /\ Stat!LastThread = NUM_THREADS - 1
      /\ T \in Stat!Thread /\ T \in Nat /\ assigned_work \in Int
      /\ numbers \subseteq 1 .. n
      /\ \A m \in Given(T) : \A k \in unseen : m > k
  BY <1>1, SharesTypes
<1>3. x \in unseen /\ x \in 1 .. n /\ x \in Nat
  BY <1>1, <1>2, NumberIsLargest DEF Stat!IInv
<1>4. /\ Stat!all_work' = Stat!all_work /\ w' = w /\ Stat!LONG_MAX' = Stat!LONG_MAX
      /\ Stat!Thread' = Stat!Thread /\ Stat!LastThread' = Stat!LastThread
  BY <1>1, TotalIsKept
<1> SUFFICES ASSUME Stat!all_work <= Stat!LONG_MAX
             PROVE  SharesInv'
  BY <1>4 DEF SharesInv
<1>5. w \in Nat /\ w <= Stat!LONG_MAX /\ Stat!LONG_MAX \in Nat
  BY <1>2, FittingTotal
<1>6. /\ \A u \in Stat!Thread : u < T => \A m \in numbers : Share(u) + m + 10 > w
      /\ T < Stat!LastThread =>
           /\ assigned_work = Share(T) /\ assigned_work <= w
           /\ \A m \in numbers \ unseen : m \in Given(T) \/ Share(T) + m + 10 > w
  BY <1>1 DEF SharesInv
<1>7. /\ Given(T) \in SUBSET Nat /\ IsFiniteSet(Given(T)) /\ Share(T) \in Nat
  BY <1>2, SharesAreSums
<1>8. \A u \in Stat!Thread : u # T => Share(u)' = Share(u)
  <2>1. \A u \in Stat!Thread : u # T => thread_assignments'[u] = thread_assignments[u]
    BY <1>1 DEF Stat!IInv, Stat!TypeOK
  <2>2. QED
    BY <2>1, ShareIsKept
<1> HIDE DEF x, w
<1>9. Given(T)' = Given(T) \cup {x}
  <2> DEFINE mine == thread_assignments[T]
             L == Len(mine)
  <2>1. mine \in Seq(Nat) /\ DOMAIN mine = 1 .. L /\ L \in Nat
    BY <1>2, GreedyTypes
  <2>2. thread_assignments'[T] = Append(mine, x)
    BY <1>1, <1>2 DEF Stat!IInv, Stat!TypeOK
  <2>3. /\ DOMAIN Append(mine, x) = 1 .. L + 1
        /\ Append(mine, x)[L + 1] = x /\ \A j \in 1 .. L : Append(mine, x)[j] = mine[j]
    BY <1>3, <2>1
  <2> HIDE DEF mine, L
  <2>4. Given(T) = {mine[j] : j \in 1 .. L}
    BY <2>1 DEF Given, Stat!Range, mine
  <2>5. Given(T)' = {Append(mine, x)[j] : j \in 1 .. L + 1}
    <3>1. T' = T
      BY <1>1
    <3>2. QED
      BY <2>2, <2>3, <3>1 DEF Given, Stat!Range
  <2>6. 1 .. L + 1 = (1 .. L) \cup {L + 1}
    BY <2>1
  <2>7. QED
    BY <2>3, <2>4, <2>5, <2>6
<1>10. x \notin Given(T)
  BY <1>2, <1>3
<1>11. Share(T)' = Share(T) + x + 10
  <2> DEFINE G == Given(T)
             H == G \cup {x}
  <2>1. IsFiniteSet(H) /\ \A m \in H : WorkOf[m] \in Int
    BY <1>3, <1>7, FS_AddElement DEF WorkOf
  <2>2. x \in H /\ H \ {x} = G /\ WorkOf[x] = x + 10
    BY <1>3, <1>10 DEF WorkOf
  <2> HIDE DEF G, H
  <2>3. SumFunctionOnSet(WorkOf, H) = WorkOf[x] + SumFunctionOnSet(WorkOf, G)
    BY <2>1, <2>2, SumStep
  <2>4. Share(T) = SumFunctionOnSet(WorkOf, G) /\ Share(T)' = SumFunctionOnSet(WorkOf, H)
    BY <1>1, <1>9 DEF Share, G, H, WorkOf
  <2>5. QED
    BY <1>3, <1>7, <2>2, <2>3, <2>4
<1>12. \A u \in Stat!Thread : u < T => Share(u)' = Share(u)
  BY <1>2, <1>8
<1>13. ASSUME T < Stat!LastThread
       PROVE  /\ assigned_work' = Share(T)' /\ assigned_work' <= w
              /\ \A m \in numbers \ unseen' : m \in Given(T)' \/ Share(T)' + m + 10 > w
  <2>1. assigned_work = Share(T) /\ assigned_work <= w
    BY <1>6, <1>13
  <2>2. w - assigned_work \in Nat /\ w - assigned_work <= Stat!LONG_MAX
    BY <1>5, <1>7, <2>1
  <2>3. x + 10 <= w - assigned_work
    <3>1. Stat!ToLong(w - assigned_work) = w - assigned_work
      BY <2>2, LongsAreKept
    <3>2. T # Stat!LastThread
      BY <1>2, <1>13
    <3>3. QED
      BY <1>1, <3>1, <3>2 DEF Stat!Fits, Stat!Work, x, w
  <2>4. assigned_work + x + 10 \in Nat /\ assigned_work + x + 10 <= w
    BY <1>3, <1>5, <1>7, <2>1, <2>3
  <2>5. assigned_work' = assigned_work + x + 10
    <3>1. Stat!ToLong(assigned_work + x + 10) = assigned_work + x + 10
      BY <1>5, <2>4, LongsAreKept
    <3>2. assigned_work + Stat!Work(x) = assigned_work + x + 10
      BY <1>3, <1>7, <2>1 DEF Stat!Work
    <3>3. QED
      BY <1>1, <3>1, <3>2 DEF x
  <2>6. ASSUME NEW m \in numbers \ unseen'
        PROVE  m \in Given(T)' \/ Share(T)' + m + 10 > w
    <3>1. CASE m = x
      BY <1>9, <3>1
    <3>2. CASE m # x
      <4>1. m \in numbers \ unseen /\ m \in Nat
        BY <1>1, <1>2, <3>2 DEF x
      <4>2. m \in Given(T) \/ Share(T) + m + 10 > w
        BY <1>6, <1>13, <4>1
      <4>3. Share(T) + m + 10 > w => Share(T)' + m + 10 > w
        BY <1>3, <1>5, <1>7, <1>11, <4>1
      <4>4. QED
        BY <1>9, <4>2, <4>3
    <3>3. QED
      BY <3>1, <3>2
  <2>7. assigned_work' = Share(T)' /\ assigned_work' <= w
    BY <1>11, <2>1, <2>4, <2>5
  <2>8. QED
    BY <2>6, <2>7
<1>14. QED
  BY <1>1, <1>4, <1>6, <1>12, <1>13 DEF SharesInv, w

\* A number is too much for the thread.
LEMMA SkipNumberShares ==
  ASSUME Stat!IInv, SharesInv, Stat!SkipNumber
  PROVE  SharesInv'
<1> DEFINE x == Stat!number
           w == Stat!work_per_thread
           T == s_t
<1>1. /\ s_phase = "greedy" /\ unseen # {} /\ ~ Stat!Fits /\ unseen' = unseen \ {x}
      /\ UNCHANGED <<n, s_phase, thread_assignments, s_t, numbers, assigned_work, next_number>>
  BY DEF Stat!SkipNumber
<1>2. /\ n \in Inputs /\ n \in Int /\ T \in Stat!Thread /\ numbers \subseteq 1 .. n
  BY <1>1, SharesTypes
<1>3. x \in unseen /\ x \in 1 .. n /\ x \in Nat
  BY <1>1, <1>2, NumberIsLargest DEF Stat!IInv
<1>4. /\ Stat!all_work' = Stat!all_work /\ w' = w /\ Stat!LONG_MAX' = Stat!LONG_MAX
      /\ Stat!Thread' = Stat!Thread /\ Stat!LastThread' = Stat!LastThread
  BY <1>1, TotalIsKept
<1> SUFFICES ASSUME Stat!all_work <= Stat!LONG_MAX
             PROVE  SharesInv'
  BY <1>4 DEF SharesInv
<1>5. w \in Nat /\ w <= Stat!LONG_MAX
  BY <1>2, FittingTotal
<1>6. /\ \A u \in Stat!Thread : u < T => \A m \in numbers : Share(u) + m + 10 > w
      /\ T < Stat!LastThread =>
           /\ assigned_work = Share(T) /\ assigned_work <= w
           /\ \A m \in numbers \ unseen : m \in Given(T) \/ Share(T) + m + 10 > w
  BY <1>1 DEF SharesInv
<1>7. Share(T) \in Nat
  BY <1>2, SharesAreSums
<1>8. \A u \in Stat!Thread : Given(u)' = Given(u) /\ Share(u)' = Share(u)
  <2>1. \A u \in Stat!Thread : thread_assignments'[u] = thread_assignments[u]
    BY <1>1
  <2>2. QED
    BY <2>1, ShareIsKept
<1>9. T < Stat!LastThread => Share(T) + x + 10 > w
  <2> SUFFICES ASSUME T < Stat!LastThread
               PROVE  Share(T) + x + 10 > w
    OBVIOUS
  <2>1. assigned_work = Share(T) /\ assigned_work <= w
    BY <1>6
  <2> HIDE DEF w, x
  <2>2. w - assigned_work \in Nat /\ w - assigned_work <= Stat!LONG_MAX
    BY <1>5, <1>7, <2>1, Widths DEF Stat!LONG_MAX
  <2>3. Stat!ToLong(w - assigned_work) = w - assigned_work
    BY <2>2, LongsAreKept
  <2>4. ~ (x + 10 <= w - assigned_work)
    BY <1>1, <2>3 DEF Stat!Fits, Stat!Work, x, w
  <2>5. QED
    BY <1>3, <1>5, <1>7, <2>1, <2>4
<1> HIDE DEF x, w
<1>10. T < Stat!LastThread =>
         \A m \in numbers \ unseen' : m \in Given(T) \/ Share(T) + m + 10 > w
  BY <1>1, <1>6, <1>9
<1>11. QED
  BY <1>1, <1>2, <1>4, <1>6, <1>8, <1>10 DEF SharesInv, w

\* The next thread chooses from what this one was not given.
LEMMA NextThreadShares ==
  ASSUME Stat!IInv, SharesInv, Stat!NextThread
  PROVE  SharesInv'
<1> DEFINE w == Stat!work_per_thread
           T == s_t
           L == Stat!LastThread
<1>1. /\ s_phase = "greedy" /\ unseen = {}
      /\ numbers' = numbers \ Given(T) /\ unseen' = numbers'
      /\ assigned_work' = 0 /\ s_t' = T + 1
      /\ s_phase' = IF T = L THEN "count" ELSE s_phase
      /\ UNCHANGED <<n, thread_assignments, next_number>>
  BY DEF Stat!NextThread, Stat!Trimmed, Given
<1>2. /\ n \in Inputs /\ n \in Int /\ NUM_THREADS \in Nat \ {0}
      /\ Stat!Thread = 0 .. NUM_THREADS - 1 /\ L = NUM_THREADS - 1
      /\ T \in Stat!Thread /\ T \in Nat
      /\ \A u \in Stat!Thread : u > T => thread_assignments[u] = << >>
      /\ \A u \in Stat!Thread : /\ Given(u) \subseteq 1 .. n
                                /\ \A m \in Given(u) : m \in numbers <=> u = T
  BY <1>1, SharesTypes
<1>3. /\ Stat!all_work' = Stat!all_work /\ w' = w /\ Stat!LONG_MAX' = Stat!LONG_MAX
      /\ Stat!Thread' = Stat!Thread /\ L' = L
  BY <1>1, TotalIsKept
<1> SUFFICES ASSUME Stat!all_work <= Stat!LONG_MAX
             PROVE  SharesInv'
  BY <1>3 DEF SharesInv
<1>4. w \in Nat
  BY <1>2, FittingTotal
<1>5. /\ \A u \in Stat!Thread : u < T => \A m \in numbers : Share(u) + m + 10 > w
      /\ T < L => \A m \in numbers : m \in Given(T) \/ Share(T) + m + 10 > w
  BY <1>1 DEF SharesInv
<1>6. \A u \in Stat!Thread : Given(u)' = Given(u) /\ Share(u)' = Share(u)
  <2>1. \A u \in Stat!Thread : thread_assignments'[u] = thread_assignments[u]
    BY <1>1
  <2>2. QED
    BY <2>1, ShareIsKept
<1> HIDE DEF w
<1>7. CASE T = L
  <2>1. s_phase' = "count" /\ \A m \in Given(L) : m \in numbers
    BY <1>1, <1>2, <1>7
  <2>2. \A u \in Stat!Thread : u < L => \A m \in Given(L) : Share(u) + m + 10 > w
    BY <1>5, <1>7, <2>1
  <2>3. L \in Stat!Thread
    BY <1>2, <1>7
  <2>4. QED
    BY <1>1, <1>2, <1>3, <1>6, <2>1, <2>2, <2>3 DEF SharesInv, w
<1>8. CASE T # L
  <2>1. T < L /\ T + 1 \in Stat!Thread /\ T + 1 > T
    BY <1>2, <1>8
  <2>2. \A u \in Stat!Thread : u < T + 1 => u < T \/ u = T
    BY <1>2
  <2>3. \A u \in Stat!Thread : u < T + 1 => \A m \in numbers' : Share(u) + m + 10 > w
    BY <1>1, <1>5, <2>1, <2>2
  <2>4. Share(T + 1) = 0
    BY <1>2, <2>1, NothingIsGiven
  <2>5. s_phase' = "greedy"
    BY <1>1, <1>8
  <2>6. Share(s_t)' = Share(T + 1)
    BY <1>1, <1>6, <2>1 DEF Share, Given, Stat!Range
  <2>7. numbers' \ unseen' = {}
    BY <1>1
  <2>8. QED
    BY <1>1, <1>3, <1>4, <1>6, <2>1, <2>3, <2>4, <2>5, <2>6, <2>7 DEF SharesInv, w
<1>9. QED
  BY <1>7, <1>8

\* The other steps deal nothing, or deal in the other way.
LEMMA OtherStepsShares ==
  ASSUME Stat!IInv, SharesInv,
         \/ Stat!DealRun \/ Stat!DealRest
         \/ Stat!StartThread \/ Stat!JoinThread \/ \E u \in Stat!Thread : Stat!AddLocalCount(u)
         \/ UNCHANGED Stat!vars
  PROVE  SharesInv'
<1>1. CASE Stat!DealRun
  BY <1>1, TotalIsKept DEF SharesInv, Stat!DealRun
<1>2. CASE Stat!DealRest
  <2>1. s_t' = NUM_THREADS - 1 /\ s_phase' = "count" /\ NUM_THREADS \in Nat
    BY <1>2, ThreadsAssumption DEF Stat!DealRest, Stat!LastThread
  <2>2. s_t' # NUM_THREADS
    BY <2>1
  <2>3. QED
    BY <2>1, <2>2 DEF SharesInv
<1>3. CASE \/ Stat!StartThread \/ Stat!JoinThread
           \/ \E u \in Stat!Thread : Stat!AddLocalCount(u)
           \/ UNCHANGED Stat!vars
  <2>1. UNCHANGED <<n, s_phase, thread_assignments, s_t, numbers, unseen, assigned_work>>
    BY <1>3 DEF Stat!StartThread, Stat!JoinThread, Stat!AddLocalCount, Stat!vars, Stat!dealVars
  <2>2. \A u : Given(u)' = Given(u) /\ Share(u)' = Share(u)
    BY <2>1 DEF Given, Share, Stat!Range
  <2>3. Given(s_t)' = Given(s_t) /\ Share(s_t)' = Share(s_t)
    BY <2>1 DEF Given, Share, Stat!Range
  <2>4. Given(Stat!LastThread)' = Given(Stat!LastThread)
    BY <2>1 DEF Given, Share, Stat!Range, Stat!LastThread
  <2>5. /\ Stat!all_work' = Stat!all_work /\ Stat!work_per_thread' = Stat!work_per_thread
        /\ Stat!LONG_MAX' = Stat!LONG_MAX
        /\ Stat!Thread' = Stat!Thread /\ Stat!LastThread' = Stat!LastThread
    BY <2>1, TotalIsKept
  <2>6. QED
    BY <2>1, <2>2, <2>3, <2>4, <2>5 DEF SharesInv
<1>4. QED
  BY <1>1, <1>2, <1>3

\* So it always holds.
LEMMA SharesInvariant == Stat!Spec => [](Stat!IInv /\ SharesInv)
<1>1. Stat!IInv /\ SharesInv /\ [Stat!Next]_(Stat!vars) => SharesInv'
  BY TakeNumberShares, SkipNumberShares, NextThreadShares, OtherStepsShares
     DEF Stat!Next, Stat!Main
<1>2. QED
  BY <1>1, StaticInit, StaticNext, SharesInit, PTL DEF Stat!Spec

\* The greedy setup leaves the last thread no more than its own share, what the rounding
\* left, the work of number 1, and for every other thread less than the smallest number
\* the last thread has: for every number of threads, N and width of a long that can hold
\* the total work.
THEOREM LastShare == Stat!Spec => []LastShareIsBounded
<1> DEFINE L == Stat!LastThread
           w == Stat!work_per_thread
           last == Given(L)
           low == Stat!Min(last)
<1>1. ASSUME Stat!IInv, SharesInv, s_phase = "count", s_t = NUM_THREADS, last # {},
             Stat!all_work <= Stat!LONG_MAX
      PROVE  Stat!SumFunction([m \in last |-> Stat!Work(m)])
               <= w + (Stat!total_work % NUM_THREADS) + Stat!Work(1)
                  + L * (Stat!Work(low) - 1)
  <2> DEFINE r == Stat!total_work % NUM_THREADS
             c == w - low - 9
             Sum(S) == SumFunctionOnSet(WorkOf, S)
             Below(k) == {m \in 1 .. n : \E u \in Stat!Thread : u < k /\ m \in Given(u)}
  <2>1. /\ n \in Inputs /\ n \in Int /\ NUM_THREADS \in Nat \ {0}
        /\ Stat!Thread = 0 .. NUM_THREADS - 1 /\ L = NUM_THREADS - 1 /\ L \in Stat!Thread
    BY <1>1, GreedyTypes, StaticTypes
  <2>2. /\ \A u \in Stat!Thread : Given(u) \subseteq 1 .. n
        /\ \A u \in Stat!Thread : u < L => \A m \in last : Share(u) + m + 10 > w
    BY <1>1 DEF SharesInv
  <2>3. \A u, v \in Stat!Thread : u # v => Given(u) \cap Given(v) = {}
    <3>1. \A u \in Stat!Thread : \A m \in Given(u) :
            \E j \in DOMAIN thread_assignments[u] : thread_assignments[u][j] = m
      BY <1>1, SharesAreSums
    <3>2. \A u, v \in Stat!Thread :
            \A j \in DOMAIN thread_assignments[u], k \in DOMAIN thread_assignments[v] :
              thread_assignments[u][j] = thread_assignments[v][k] => u = v
      BY <1>1 DEF Stat!IInv, Stat!DealtInv, Stat!DealtOnce
    <3>3. QED
      BY <3>1, <3>2
  <2>4. \A S \in SUBSET (1 .. n) : IsFiniteSet(S) /\ S \in SUBSET Nat
    <3>1. IsFiniteSet(1 .. n)
      BY <2>1, FS_Interval
    <3>2. \A S \in SUBSET (1 .. n) : IsFiniteSet(S)
      BY <3>1, FS_Subset
    <3>3. 1 .. n \in SUBSET Nat
      BY <2>1
    <3>4. QED
      BY <3>2, <3>3
  <2>5. \A S \in SUBSET (1 .. n) : Sum(S) \in Nat
    BY <2>4, WorkOfNumbers
  <2>6. low \in last /\ low \in 1 .. n
    <3>1. last \in SUBSET Nat
      BY <1>1, <2>1, SharesAreSums
    <3>2. \E x \in last : \A y \in last : x <= y
      BY <1>1, <3>1, LeastElement
    <3>3. low \in last
      BY <3>2 DEF Stat!Min
    <3>4. QED
      BY <2>1, <2>2, <3>3
  <2>7. /\ Stat!all_work = Sum(2 .. n) /\ w \in Nat /\ r \in Nat
        /\ Stat!all_work = NUM_THREADS * w + r
    BY <1>1, <2>1, FittingTotal
  <2>8. \A u \in Stat!Thread : u < L => Share(u) \in Nat /\ Share(u) >= c
    <3>1. \A u \in Stat!Thread : u < L => Share(u) \in Nat /\ Share(u) + low + 10 > w
      BY <1>1, <2>2, <2>6, SharesAreSums
    <3> HIDE DEF low, w
    <3>2. QED
      BY <2>6, <2>7, <3>1
  <2> HIDE DEF L, w, last, low, r, Sum
  <2>9. \A k \in 0 .. L : Sum(Below(k)) >= k * c
    <3> DEFINE Bad == {k \in Nat : k <= L /\ ~ (Sum(Below(k)) >= k * c)}
    <3> SUFFICES ASSUME Bad # {}
                 PROVE  FALSE
      <4>1. \A k \in 0 .. L : k \in Nat /\ k <= L
        BY <2>1
      <4> HIDE DEF Below, c
      <4>2. QED
        BY <4>1
    <3>1. PICK k \in Bad : \A i \in Bad : k <= i
      BY LeastElement
    <3>2. k # 0
      <4>1. \A u \in Stat!Thread : ~ (u < 0)
        BY <2>1
      <4>2. Below(0) = {}
        BY <4>1
      <4>3. Sum({}) = 0
        BY FS_EmptySet, SumStep DEF Sum
      <4>4. c \in Int
        BY <2>6, <2>7
      <4> HIDE DEF Below, c
      <4>5. 0 * c = 0
        BY <4>4
      <4>6. QED
        BY <4>2, <4>3, <4>5
    <3>3. k - 1 \in Nat /\ k - 1 \notin Bad /\ k - 1 < L /\ k - 1 \in Stat!Thread
      BY <2>1, <3>1, <3>2
    <3> DEFINE i == k - 1
    <3>4. Sum(Below(i)) >= i * c
      <4> HIDE DEF Below, c
      <4>1. i \in Nat /\ i <= L
        BY <2>1, <3>3
      <4>2. QED
        BY <3>3, <4>1
    <3>5. Below(k) = Below(i) \cup Given(i) /\ Below(i) \cap Given(i) = {}
      <4>1. \A u \in Stat!Thread : u < k <=> u < i \/ u = i
        BY <2>1, <3>3
      <4>2. \A u \in Stat!Thread : u < i => u # i
        BY <2>1
      <4> HIDE DEF i
      <4>3. i \in Stat!Thread
        BY <3>3 DEF i
      <4>4. QED
        BY <2>2, <2>3, <4>1, <4>2, <4>3
    <3>6. Sum(Below(k)) = Sum(Below(i)) + Share(i)
      <4>1. /\ Below(i) \in SUBSET (1 .. n) /\ Given(i) \in SUBSET (1 .. n)
        BY <2>2, <3>3
      <4> HIDE DEF Below, i
      <4>2. \A m \in Below(i) \cup Given(i) : WorkOf[m] \in Int
        BY <2>4, <4>1 DEF WorkOf
      <4>3. IsFiniteSet(Below(i)) /\ IsFiniteSet(Given(i))
        BY <2>4, <4>1
      <4>4. Sum(Below(i) \cup Given(i)) = Sum(Below(i)) + Sum(Given(i))
        BY <3>5, <4>2, <4>3, SumUnion DEF Sum
      <4>5. QED
        BY <3>5, <4>4 DEF Share, Sum
    <3>7. Share(i) \in Nat /\ Share(i) >= c
      BY <2>8, <3>3
    <3>8. k * c = i * c + c
      <4>1. c \in Int
        BY <2>6, <2>7
      <4> HIDE DEF c
      <4>2. QED
        BY <3>3, <4>1
    <3>9. Sum(Below(i)) \in Nat /\ i * c \in Int /\ c \in Int
      <4>1. c \in Int
        BY <2>6, <2>7
      <4> HIDE DEF c
      <4>2. Below(i) \in SUBSET (1 .. n)
        OBVIOUS
      <4>3. QED
        BY <2>5, <3>3, <4>1, <4>2
    <3> HIDE DEF c, Below, i
    <3>10. Sum(Below(k)) >= k * c
      BY <3>4, <3>6, <3>7, <3>8, <3>9
    <3>11. QED
      BY <3>1, <3>10
  <2>10. Sum(Below(L)) >= L * c
    BY <2>1, <2>9
  <2>11. Sum(last) + Sum(Below(L)) <= Sum(1 .. n)
    <3> DEFINE B == Below(L)
               A == 1 .. n
    <3>1. last \in SUBSET A /\ B \in SUBSET A
      BY <2>1, <2>2 DEF last
    <3>2. last \cap B = {}
      BY <2>1, <2>3 DEF last
    <3>3. IsFiniteSet(A) /\ \A m \in A : WorkOf[m] \in Int
      BY <2>1, FS_Interval DEF WorkOf
    <3> HIDE DEF B, A
    <3>4. last \in SUBSET (A \ B)
      BY <3>1, <3>2
    <3>5. IsFiniteSet(A \ B)
      BY <3>3, FS_Subset
    <3>6. Sum(A) = Sum(B) + Sum(A \ B)
      BY <3>1, <3>3, SumOfPart DEF Sum
    <3>7. Sum(A \ B) = Sum(last) + Sum((A \ B) \ last)
      BY <3>3, <3>4, <3>5, SumOfPart DEF Sum
    <3>8. Sum(last) \in Nat /\ Sum(B) \in Nat /\ Sum((A \ B) \ last) \in Nat
      BY <2>5, <3>1 DEF A
    <3>9. QED
      BY <3>6, <3>7, <3>8 DEF A, B
  <2>12. Sum(1 .. n) = 11 + Sum(2 .. n)
    <3> DEFINE A == 1 .. n
    <3>1. 1 \in A /\ A \ {1} = 2 .. n
      BY <2>1, <2>6
    <3>2. IsFiniteSet(A) /\ \A m \in A : WorkOf[m] \in Int
      BY <2>1, FS_Interval DEF WorkOf
    <3>3. WorkOf[1] = 11
      BY DEF WorkOf
    <3> HIDE DEF A
    <3>4. Sum(A) = WorkOf[1] + Sum(A \ {1})
      BY <3>1, <3>2, SumStep DEF Sum
    <3>5. QED
      BY <3>1, <3>3, <3>4 DEF A
  <2>13. Stat!SumFunction([m \in last |-> Stat!Work(m)]) = Sum(last) /\ Sum(last) \in Nat
    <3>1. last \in SUBSET Nat /\ IsFiniteSet(last)
      BY <1>1, <2>1, SharesAreSums DEF last
    <3>2. QED
      BY <3>1, WorkOfNumbers DEF Sum
  <2>14. Sum(last) <= w + r + 11 + L * (low + 9)
    <3> DEFINE s == Sum(last)
               b == Sum(Below(L))
               a == Sum(2 .. n)
               e == Sum(1 .. n)
    <3>1. s \in Nat /\ b \in Nat /\ a \in Nat
      <4>1. Below(L) \in SUBSET (1 .. n) /\ 2 .. n \in SUBSET (1 .. n)
        BY <2>1
      <4>2. QED
        BY <2>5, <2>13, <4>1
    <3>2. s + b <= 11 + a /\ a = NUM_THREADS * w + r /\ b >= L * c
      BY <2>7, <2>10, <2>11, <2>12
    <3>3. NUM_THREADS * w = L * w + w
      BY <2>1, <2>7
    <3>4. L * c = L * w - L * (low + 9)
      BY <2>1, <2>6, <2>7
    <3>5. /\ L * w \in Int /\ L * (low + 9) \in Int
          /\ NUM_THREADS * w \in Int /\ r \in Int /\ w \in Int
      BY <2>1, <2>6, <2>7
    <3> HIDE DEF s, b, a, e, c, Below
    <3>6. QED
      BY <3>1, <3>2, <3>3, <3>4, <3>5 DEF s
  <2>15. Stat!Work(1) = 11 /\ Stat!Work(low) - 1 = low + 9
    BY <2>1, <2>6 DEF Stat!Work
  <2>16. QED
    BY <2>13, <2>14, <2>15 DEF r, w, L, low, last
<1>2. Stat!IInv /\ SharesInv => LastShareIsBounded
  BY <1>1 DEF LastShareIsBounded, Stat!LastShareIsBounded, Given
<1>3. QED
  BY <1>2, SharesInvariant, PTL

\* When all threads are joined all have finished.
LEMMA AllAreFinished ==
  ASSUME Stat!IInv, s_joined = NUM_THREADS
  PROVE  \A u \in Stat!Thread : s_state[u] = "finished" /\ s_phase = "count"
<1>1. Stat!Thread = 0 .. NUM_THREADS - 1 /\ NUM_THREADS \in Nat \ {0}
  BY GreedyTypes
<1>2. \A u \in Stat!Thread : u < s_joined
  BY <1>1
<1>3. \A u \in Stat!Thread : s_state[u] = "finished"
  BY <1>2 DEF Stat!IInv, Stat!CountInv
<1>4. QED
  BY <1>3, StartedMeansDealt

\* Its invariant gives the result.
LEMMA StaticCount == Stat!IInv => Stat!ResultIsExact
<1> SUFFICES ASSUME Stat!IInv, s_joined = NUM_THREADS
             PROVE  s_prime_count = Stat!find_primes_serial(n)
  BY DEF Stat!ResultIsExact, Stat!Returned
<1>1. \A u \in Stat!Thread : s_state[u] = "finished" /\ s_phase = "count"
  BY AllAreFinished
<1>2. s_phase = "count"
  <2>1. Stat!Thread = 0 .. NUM_THREADS - 1 /\ NUM_THREADS \in Nat \ {0}
    BY GreedyTypes
  <2>2. 0 \in Stat!Thread
    BY <2>1
  <2>3. QED
    BY <1>1, <2>2
<1>3. \A m \in 1 .. n : \E u \in Stat!Thread : m \in Stat!Range(thread_assignments[u])
  BY <1>2 DEF Stat!IInv, Stat!DealtInv, Stat!IsDealt, Stat!Range
<1>4. Stat!Added = 1 .. n
  BY <1>1, <1>3 DEF Stat!Added
<1>5. QED
  BY <1>4 DEF Stat!IInv, Stat!CountInv, Stat!find_primes_serial

-------------------------------------------------------------------------------
(* The static count implements PrimeCount.                                 *)

SC == INSTANCE PrimeCount WITH
        left <- Stat!NotAdded, count <- s_prime_count, returned <- Stat!Returned

\* While numbers are dealt none has been added.
LEMMA DealingLeavesAll ==
  ASSUME Stat!IInv, s_phase # "count", UNCHANGED Stat!countVars, n' = n, Stat!IInv'
  PROVE  UNCHANGED SC!vars
<1>1. Stat!NotAdded = 1 .. n
  BY DEF Stat!NotAdded
<1>2. /\ Stat!Thread = 0 .. NUM_THREADS - 1 /\ NUM_THREADS \in Nat \ {0}
      /\ Stat!Thread' = Stat!Thread
  BY GreedyTypes DEF Stat!Thread
<1>3. \A u \in Stat!Thread : s_state[u] = "unborn" /\ s_state'[u] = "unborn"
  BY StartedMeansDealt DEF Stat!countVars
<1>4. Stat!NotAdded' = 1 .. n
  <2>1. s_phase' = "count" => \A m \in 1 .. n : Stat!IsDealt(m)'
    BY DEF Stat!IInv, Stat!DealtInv
  <2>2. s_phase' = "count" => \A m \in 1 .. n : \E u \in Stat!Thread :
          s_state'[u] # "finished" /\ m \in Stat!Range(thread_assignments'[u])
    BY <1>2, <1>3, <2>1 DEF Stat!IsDealt, Stat!Range
  <2>3. QED
    BY <1>2, <2>2 DEF Stat!NotAdded, Stat!Range
<1>5. QED
  BY <1>1, <1>4 DEF SC!vars, Stat!countVars, Stat!Returned

\* Every step of the static count is one of PrimeCount or invisible to it.
LEMMA StaticNextMaps ==
  Stat!IInv /\ Stat!IInv' /\ [Stat!Next]_(Stat!vars) => [SC!Next]_(SC!vars)
<1> SUFFICES ASSUME Stat!IInv, Stat!IInv', [Stat!Next]_(Stat!vars)
             PROVE  SC!Next \/ UNCHANGED SC!vars
  OBVIOUS
<1>1. CASE UNCHANGED Stat!vars
  BY <1>1 DEF Stat!vars, Stat!dealVars, Stat!countVars, Stat!NotAdded, Stat!Range,
              Stat!Returned, Stat!Thread, SC!vars
<1>2. CASE \/ Stat!DealRun \/ Stat!DealRest
           \/ Stat!TakeNumber \/ Stat!SkipNumber \/ Stat!NextThread
  <2>1. s_phase # "count" /\ UNCHANGED Stat!countVars /\ n' = n
    BY <1>2 DEF Stat!DealRun, Stat!DealRest, Stat!TakeNumber, Stat!SkipNumber, Stat!NextThread
  <2>2. QED
    BY <2>1, DealingLeavesAll
<1>3. CASE Stat!StartThread
  BY <1>3, StaticStartThreadInv DEF Stat!StartThread, Stat!Returned, SC!vars
<1>4. ASSUME NEW u \in Stat!Thread, Stat!AddLocalCount(u)
      PROVE  SC!AddSome
  <2> DEFINE added == {m \in Stat!NotAdded \ Stat!NotAdded' : is_prime(m)}
  <2>1. /\ Stat!NotAdded' \subseteq Stat!NotAdded /\ s_joined # NUM_THREADS
        /\ Stat!local_count(u) = Cardinality(added)
    BY <1>4, StaticAddLocalCountInv
  <2>2. added = {m \in Stat!NotAdded \ Stat!NotAdded' : SC!is_prime(m)}
    BY DEF SC!is_prime, is_prime
  <2> HIDE DEF added
  <2>3. s_prime_count' = s_prime_count + Cardinality(added) /\ UNCHANGED <<n, s_joined>>
    BY <1>4, <2>1 DEF Stat!AddLocalCount
  <2>4. SC!Cardinality(added) = Cardinality(added)
    BY DEF SC!Cardinality, Cardinality
  <2>5. ~ Stat!Returned /\ UNCHANGED Stat!Returned
    BY <2>1, <2>3 DEF Stat!Returned
  <2>6. QED
    BY <2>1, <2>2, <2>3, <2>4, <2>5 DEF SC!AddSome
<1>5. CASE Stat!JoinThread
  <2>1. Stat!NotAdded' = Stat!NotAdded /\ UNCHANGED <<n, s_prime_count>>
        /\ s_joined < NUM_THREADS /\ NUM_THREADS \in Nat
    BY <1>5, StaticJoinThreadInv, GreedyTypes DEF Stat!JoinThread
  <2>2. ~ Stat!Returned
    BY <2>1 DEF Stat!Returned
  <2>3. CASE s_joined' # NUM_THREADS
    BY <2>1, <2>2, <2>3 DEF Stat!Returned, SC!vars
  <2>4. CASE s_joined' = NUM_THREADS
    <3>1. \A u \in Stat!Thread : s_state'[u] = "finished"
      <4>1. Stat!Thread = 0 .. NUM_THREADS - 1 /\ Stat!Thread' = Stat!Thread
        BY GreedyTypes DEF Stat!Thread
      <4>2. \A u \in Stat!Thread : u < s_joined'
        BY <2>1, <2>4, <4>1
      <4>3. QED
        BY <4>1, <4>2 DEF Stat!IInv, Stat!CountInv
    <3>2. Stat!NotAdded' = {}
      <4>1. s_phase' = "count" /\ Stat!Thread' = Stat!Thread
        BY <1>5 DEF Stat!JoinThread, Stat!Thread
      <4>2. QED
        BY <3>1, <4>1 DEF Stat!NotAdded
    <3>3. SC!Return
      BY <2>1, <2>2, <2>4, <3>2 DEF SC!Return, Stat!Returned
    <3>4. QED
      BY <3>3 DEF SC!Next
  <2>5. QED
    BY <2>3, <2>4
<1>6. QED
  BY <1>1, <1>2, <1>3, <1>4, <1>5 DEF Stat!Next, Stat!Main, SC!Next

\* Whichever way the numbers were dealt, every number's primes are added to the total
\* once, and find_primes_static returns only when no number is left.
THEOREM StaticImplementsPrimeCount == Stat!Spec => SC!Init /\ [][SC!Next]_(SC!vars)
<1>1. Stat!Init => SC!Init
  <2> SUFFICES ASSUME Stat!Init
               PROVE  SC!Init
    OBVIOUS
  <2>1. /\ s_phase # "count" /\ n \in Inputs /\ s_prime_count = 0 /\ s_joined = 0
    BY DEF Stat!Init
  <2>2. Stat!Returned = FALSE
    BY <2>1, ThreadsAssumption DEF Stat!Returned
  <2>3. Stat!NotAdded = 1 .. n
    BY <2>1 DEF Stat!NotAdded
  <2>4. QED
    BY <2>1, <2>2, <2>3 DEF SC!Init
<1>2. QED
  BY <1>1, StaticInvariant, StaticNextMaps, PTL DEF Stat!Spec

-------------------------------------------------------------------------------
(* The TBB count.                                                          *)

\* No number of the program comes near the bound of a long, so a subrange holds numbers.
LEMMA TbbTypes ==
  ASSUME Tbb!TypeOK
  PROVE  /\ n \in Int /\ t_prime_count \in Nat
         /\ n + 1 < 2^(LONG_BITS - 1)
         /\ 2^LONG_BITS \in Nat /\ 2^LONG_BITS > 0 /\ n + 1 < 2^LONG_BITS
         /\ Tbb!Size \subseteq Nat
         /\ \A range \in waiting \cup counted :
              /\ range \in Tbb!Size \X Tbb!Size /\ range = <<range[1], range[2]>>
              /\ range[1] \in Nat /\ range[2] \in Nat
<1>1. n \in Int /\ n + 10 < 2^(LONG_BITS - 1) /\ 2^(LONG_BITS - 1) \in Nat
      /\ 2^LONG_BITS = 2 * 2^(LONG_BITS - 1) /\ 2^(LONG_BITS - 1) > 0
  BY WidthsAssumption, Widths DEF Tbb!TypeOK
<1>2. Tbb!Size \subseteq Nat
  BY <1>1 DEF Tbb!Size
<1>3. \A range \in waiting \cup counted : range \in Tbb!Size \X Tbb!Size
  BY DEF Tbb!TypeOK
<1>4. ASSUME NEW range \in waiting \cup counted
      PROVE  /\ range \in Tbb!Size \X Tbb!Size /\ range = <<range[1], range[2]>>
             /\ range[1] \in Nat /\ range[2] \in Nat
  BY <1>2, <1>3
<1>5. n + 1 < 2^(LONG_BITS - 1) /\ 2^LONG_BITS \in Nat /\ 2^LONG_BITS > 0
      /\ n + 1 < 2^LONG_BITS
  BY <1>1
<1>6. QED
  BY <1>1, <1>2, <1>4, <1>5 DEF Tbb!TypeOK

\* The numbers not added yet are those of the waiting and of the counted ranges.
LEMMA TbbLeft ==
  /\ \A m : m \in Tbb!NotAdded <=>
             m # 0 /\ \E range \in waiting \cup counted : m \in Tbb!Elements(range)
  /\ \A m : m \in Tbb!NotAdded' <=>
             m # 0 /\ \E range \in waiting' \cup counted' : m \in Tbb!Elements(range)
<1>1. \A m : m \in Tbb!NotAdded <=>
             m # 0 /\ \E range \in waiting \cup counted : m \in Tbb!Elements(range)
  BY DEF Tbb!NotAdded
<1>2. Tbb!NotAdded' = (UNION {Tbb!Elements(range) : range \in waiting' \cup counted'}) \ {0}
  BY DEF Tbb!NotAdded
<1>3. QED
  BY <1>1, <1>2

\* The TBB count starts in its invariant.
LEMMA TbbInit == Tbb!Init => Tbb!IInv
<1> SUFFICES ASSUME Tbb!Init
             PROVE  Tbb!IInv
  OBVIOUS
<1> DEFINE max == 2^LONG_BITS
<1>1. /\ n \in Int /\ n + 10 < 2^(LONG_BITS - 1) /\ 2^(LONG_BITS - 1) \in Nat
      /\ max = 2 * 2^(LONG_BITS - 1) /\ 2^(LONG_BITS - 1) > 0
  BY WidthsAssumption, Widths DEF Tbb!Init
<1>2. /\ (n + 1) % max \in 0 .. max - 1 /\ 0 \in 0 .. max - 1
      /\ n >= -1 => (n + 1) % max = n + 1
  <2>1. max \in Nat /\ max > 0 /\ n + 1 < max
    BY <1>1
  <2> HIDE DEF max
  <2>2. QED
    BY <1>1, <2>1
<1>3. Tbb!TypeOK
  <2>1. /\ waiting \subseteq {<<0, (n + 1) % max>>} /\ counted = {}
        /\ n \in Inputs /\ t_prime_count \in Nat /\ returned \in BOOLEAN
    BY DEF Tbb!Init, Tbb!ToSize
  <2>2. Tbb!Size = 0 .. max - 1
    BY DEF Tbb!Size
  <2> HIDE DEF max
  <2>3. waiting \subseteq Tbb!Size \X Tbb!Size
    BY <1>2, <2>1, <2>2
  <2>4. QED
    BY <2>1, <2>3 DEF Tbb!TypeOK
<1>4. ASSUME n >= -1
      PROVE  Tbb!RangesInv /\ Tbb!CountInv
  <2>1. /\ waiting = IF n + 1 = 0 THEN {} ELSE {<<0, n + 1>>}
        /\ counted = {} /\ t_prime_count = 0 /\ returned = FALSE
    BY <1>2, <1>4 DEF Tbb!Init, Tbb!ToSize
  <2>2. Tbb!RangesInv
    BY <1>1, <1>4, <2>1 DEF Tbb!RangesInv
  <2>3. 1 .. n \subseteq Tbb!NotAdded
    <3>1. CASE n + 1 = 0
      BY <1>1, <3>1
    <3>2. CASE n + 1 # 0
      <4>1. <<0, n + 1>> \in waiting
        BY <2>1, <3>2
      <4>2. \A m \in 1 .. n : m \in Tbb!Elements(<<0, n + 1>>) /\ m # 0
        BY <1>1 DEF Tbb!Elements
      <4>3. QED
        BY <4>1, <4>2, TbbLeft
    <3>3. QED
      BY <3>1, <3>2
  <2>4. {m \in (1 .. n) \ Tbb!NotAdded : Tbb!is_prime(m)} = {}
    BY <2>3
  <2>5. QED
    BY <2>1, <2>2, <2>4, FS_EmptySet DEF Tbb!CountInv, Tbb!Cardinality, Cardinality
<1>5. QED
  BY <1>3, <1>4 DEF Tbb!IInv

\* The halves of a subrange are not empty, and hold what it held.
LEMMA HalvesOfRange ==
  ASSUME NEW a \in Nat, NEW b \in Nat, b - a > 1,
         NEW range, range = <<a, b>>
  PROVE  /\ Tbb!Middle(range) \in Nat
         /\ a < Tbb!Middle(range) /\ Tbb!Middle(range) < b
         /\ Tbb!Halves(range) = {<<a, Tbb!Middle(range)>>, <<Tbb!Middle(range), b>>}
         /\ \A half \in Tbb!Halves(range) : /\ Tbb!Elements(half) # {}
                                            /\ Tbb!Elements(half) \subseteq Tbb!Elements(range)
         /\ \A half, other \in Tbb!Halves(range) :
              half # other => Tbb!Elements(half) \cap Tbb!Elements(other) = {}
         /\ UNION {Tbb!Elements(half) : half \in Tbb!Halves(range)} = Tbb!Elements(range)
<1> DEFINE mid == Tbb!Middle(range)
<1>1. mid = a + (b - a) \div 2
  BY DEF Tbb!Middle
<1>2. mid \in Nat /\ a < mid /\ mid < b
  BY <1>1
<1>3. Tbb!Halves(range) = {<<a, mid>>, <<mid, b>>}
  BY DEF Tbb!Halves
<1> HIDE DEF mid
<1>4. /\ Tbb!Elements(<<a, mid>>) = a .. mid - 1
      /\ Tbb!Elements(<<mid, b>>) = mid .. b - 1
      /\ Tbb!Elements(range) = a .. b - 1
  BY DEF Tbb!Elements
<1>5. /\ a \in a .. mid - 1 /\ mid \in mid .. b - 1
      /\ a .. mid - 1 \subseteq a .. b - 1 /\ mid .. b - 1 \subseteq a .. b - 1
      /\ (a .. mid - 1) \cap (mid .. b - 1) = {}
      /\ (a .. mid - 1) \cup (mid .. b - 1) = a .. b - 1
  BY <1>2
<1>6. UNION {Tbb!Elements(half) : half \in Tbb!Halves(range)}
        = Tbb!Elements(<<a, mid>>) \cup Tbb!Elements(<<mid, b>>)
  BY <1>3
<1>7. QED
  BY <1>2, <1>3, <1>4, <1>5, <1>6 DEF mid

\* Splitting a range keeps it,
LEMMA SplitInv ==
  ASSUME Tbb!IInv, NEW range \in waiting, Tbb!Split(range)
  PROVE  Tbb!IInv' /\ (n >= -1 => Tbb!NotAdded' = Tbb!NotAdded)
<1> DEFINE a == range[1]
           b == range[2]
           mid == Tbb!Middle(range)
           open == waiting \cup counted
<1>1. /\ b - a > 1 /\ waiting' = (waiting \ {range}) \cup Tbb!Halves(range)
      /\ UNCHANGED <<n, counted, t_prime_count, returned>>
  BY DEF Tbb!Split
<1>2. /\ n \in Int /\ Tbb!Size \subseteq Nat
      /\ a \in Nat /\ b \in Nat /\ range = <<a, b>> /\ a \in Tbb!Size /\ b \in Tbb!Size
  BY TbbTypes DEF Tbb!IInv, Tbb!TypeOK
<1> HIDE DEF a, b
<1>3. /\ mid \in Nat /\ a < mid /\ mid < b
      /\ Tbb!Halves(range) = {<<a, mid>>, <<mid, b>>}
      /\ \A half \in Tbb!Halves(range) : /\ Tbb!Elements(half) # {}
                                         /\ Tbb!Elements(half) \subseteq Tbb!Elements(range)
      /\ \A half, other \in Tbb!Halves(range) :
           half # other => Tbb!Elements(half) \cap Tbb!Elements(other) = {}
      /\ UNION {Tbb!Elements(half) : half \in Tbb!Halves(range)} = Tbb!Elements(range)
  BY <1>1, <1>2, HalvesOfRange
<1> HIDE DEF mid
<1>4. Tbb!TypeOK'
  <2>1. 2^LONG_BITS \in Nat
    BY TbbTypes DEF Tbb!IInv
  <2>2. mid \in Tbb!Size
    BY <1>2, <1>3, <2>1 DEF Tbb!Size
  <2>3. QED
    BY <1>1, <1>2, <1>3, <2>2 DEF Tbb!IInv, Tbb!TypeOK
<1>5. ASSUME n >= -1
      PROVE  Tbb!RangesInv' /\ Tbb!CountInv' /\ Tbb!NotAdded' = Tbb!NotAdded
  <2>1. /\ \A r \in open : r[1] < r[2] /\ r[2] <= n + 1
        /\ \A r, other \in open : r # other => Tbb!Elements(r) \cap Tbb!Elements(other) = {}
        /\ waiting \cap counted = {}
        /\ returned => open = {}
    BY <1>5 DEF Tbb!IInv, Tbb!RangesInv
  <2>2. range \in open /\ range \notin counted
    BY <2>1
  <2>3. open' = (open \ {range}) \cup Tbb!Halves(range)
    BY <1>1, <2>2
  <2>4. \A half \in Tbb!Halves(range) : half[1] < half[2] /\ half[2] <= n + 1
    <3>1. b <= n + 1
      BY <2>1, <2>2 DEF b
    <3>2. QED
      BY <1>2, <1>3, <3>1
  <2>5. \A half \in Tbb!Halves(range), other \in open \ {range} :
          Tbb!Elements(half) \cap Tbb!Elements(other) = {}
    BY <1>3, <2>1, <2>2
  <2>6. waiting' \cap counted' = {}
    <3>1. \A half \in Tbb!Halves(range) : half \notin open \ {range}
      BY <1>3, <2>5
    <3>2. QED
      BY <1>1, <2>1, <2>2, <3>1
  <2>7. Tbb!RangesInv'
    <3>1. \A r \in open' : r[1] < r[2] /\ r[2] <= n + 1
      BY <2>1, <2>3, <2>4
    <3>2. \A r, other \in open' : r # other => Tbb!Elements(r) \cap Tbb!Elements(other) = {}
      BY <1>3, <2>1, <2>3, <2>5
    <3>3. ~ returned'
      BY <1>1, <2>1, <2>2
    <3>4. QED
      BY <1>1, <2>6, <3>1, <3>2, <3>3 DEF Tbb!RangesInv, Tbb!Elements
  <2>8. Tbb!NotAdded' = Tbb!NotAdded
    <3>1. \A m : (\E half \in Tbb!Halves(range) : m \in Tbb!Elements(half))
                    <=> m \in Tbb!Elements(range)
      BY <1>3
    <3>2. \A m : m \in Tbb!NotAdded' <=> m \in Tbb!NotAdded
      BY <2>2, <2>3, <3>1, TbbLeft
    <3>3. QED
      BY <3>2 DEF Tbb!NotAdded
  <2>9. Tbb!CountInv'
    BY <1>1, <1>5, <2>8 DEF Tbb!IInv, Tbb!CountInv
  <2>10. QED
    BY <2>7, <2>8, <2>9
<1>6. QED
  BY <1>1, <1>4, <1>5 DEF Tbb!IInv

\* counting the primes of a range keeps it,
LEMMA CountPrimesInv ==
  ASSUME Tbb!IInv, NEW range \in waiting, Tbb!CountPrimes(range)
  PROVE  Tbb!IInv' /\ Tbb!NotAdded' = Tbb!NotAdded
<1>1. /\ waiting' = waiting \ {range} /\ counted' = counted \cup {range}
      /\ UNCHANGED <<n, t_prime_count, returned>>
  BY DEF Tbb!CountPrimes
<1>2. waiting' \cup counted' = waiting \cup counted
  BY <1>1
<1>3. Tbb!NotAdded' = Tbb!NotAdded
  BY <1>2 DEF Tbb!NotAdded, Tbb!Elements
<1>4. Tbb!TypeOK'
  BY <1>1 DEF Tbb!IInv, Tbb!TypeOK
<1>5. ASSUME n >= -1
      PROVE  Tbb!RangesInv' /\ Tbb!CountInv'
  <2>1. Tbb!RangesInv'
    BY <1>1, <1>2, <1>5 DEF Tbb!IInv, Tbb!RangesInv, Tbb!Elements
  <2>2. Tbb!CountInv'
    BY <1>1, <1>3, <1>5 DEF Tbb!IInv, Tbb!CountInv
  <2>3. QED
    BY <2>1, <2>2
<1>6. QED
  BY <1>1, <1>3, <1>4, <1>5 DEF Tbb!IInv

\* The numbers of a subrange whose primes are added to the total leave what is left.
LEMMA AddedRange ==
  ASSUME Tbb!IInv, n >= -1, NEW range \in counted, Tbb!AddLocalCount(range)
  PROVE  /\ Tbb!NotAdded' = Tbb!NotAdded \ Tbb!Elements(range)
         /\ Tbb!Elements(range) \ {0} \subseteq Tbb!NotAdded
         /\ Tbb!local_count(range)
              = Cardinality({m \in Tbb!NotAdded \ Tbb!NotAdded' : is_prime(m)})
         /\ Tbb!local_count(range)
              = Cardinality({m \in Tbb!Elements(range) \ {0} : is_prime(m)})
<1> DEFINE a == range[1]
           b == range[2]
           open == waiting \cup counted
<1>1. /\ counted' = counted \ {range} /\ UNCHANGED <<n, waiting, returned>>
      /\ t_prime_count' = t_prime_count + Tbb!local_count(range)
  BY DEF Tbb!AddLocalCount
<1>2. /\ n \in Int /\ n + 1 < 2^(LONG_BITS - 1) /\ a \in Nat /\ b \in Nat
      /\ 2^(LONG_BITS - 1) \in Nat
  BY TbbTypes, Widths DEF Tbb!IInv
<1>3. /\ \A r, other \in open : r # other => Tbb!Elements(r) \cap Tbb!Elements(other) = {}
      /\ waiting \cap counted = {} /\ b <= n + 1
  BY DEF Tbb!IInv, Tbb!RangesInv
<1> HIDE DEF a, b
<1>4. open' = open \ {range} /\ range \in open
  BY <1>1, <1>3
<1>5. Tbb!NotAdded' = Tbb!NotAdded \ Tbb!Elements(range)
  <2>1. \A m : m \in Tbb!NotAdded' <=> m \in Tbb!NotAdded /\ m \notin Tbb!Elements(range)
    BY <1>3, <1>4, TbbLeft
  <2>2. QED
    BY <2>1
<1>6. Tbb!Elements(range) \ {0} \subseteq Tbb!NotAdded
  BY <1>4, TbbLeft
<1>7. Tbb!NotAdded \ Tbb!NotAdded' = Tbb!Elements(range) \ {0}
  <2>1. 0 \notin Tbb!NotAdded
    BY TbbLeft
  <2>2. QED
    BY <1>5, <1>6, <2>1
<1>8. \A m \in Tbb!Elements(range) : m \in Nat /\ Tbb!ToLong(m) = m
  <2>1. Tbb!Elements(range) = a .. b - 1
    BY DEF Tbb!Elements, a, b
  <2>2. \A m \in a .. b - 1 : m \in Nat /\ m < 2^(LONG_BITS - 1)
    BY <1>2, <1>3
  <2>3. QED
    BY <2>1, <2>2 DEF Tbb!ToLong
<1>9. {m \in Tbb!Elements(range) : Tbb!is_prime(Tbb!ToLong(m))}
        = {m \in Tbb!Elements(range) \ {0} : is_prime(m)}
  <2>1. ~ Tbb!is_prime(0) /\ \A m : Tbb!is_prime(m) = is_prime(m)
    BY DEF Tbb!is_prime, is_prime
  <2>2. QED
    BY <1>8, <2>1
<1>10. Tbb!local_count(range) = Cardinality({m \in Tbb!Elements(range) \ {0} : is_prime(m)})
  BY <1>9 DEF Tbb!local_count, Tbb!Cardinality, Cardinality
<1>11. QED
  BY <1>5, <1>6, <1>7, <1>10

\* adding what a body has counted keeps it,
LEMMA TbbAddLocalCountInv ==
  ASSUME Tbb!IInv, NEW range \in counted, Tbb!AddLocalCount(range)
  PROVE  Tbb!IInv'
<1>1. /\ counted' = counted \ {range} /\ UNCHANGED <<n, waiting, returned>>
      /\ t_prime_count' = t_prime_count + Tbb!local_count(range)
  BY DEF Tbb!AddLocalCount
<1>2. Tbb!TypeOK'
  <2> DEFINE own == {m \in Tbb!Elements(range) : Tbb!is_prime(Tbb!ToLong(m))}
  <2>1. range[1] \in Int /\ range[2] - 1 \in Int
    BY TbbTypes DEF Tbb!IInv
  <2>2. IsFiniteSet(Tbb!Elements(range))
    BY <2>1, FS_Interval DEF Tbb!Elements
  <2>3. IsFiniteSet(own)
    <3>1. own \subseteq Tbb!Elements(range)
      OBVIOUS
    <3>2. QED
      BY <2>2, <3>1, FS_Subset
  <2>4. Tbb!local_count(range) \in Nat
    <3>1. Tbb!local_count(range) = Cardinality(own)
      BY DEF Tbb!local_count, Tbb!Cardinality, Cardinality
    <3>2. QED
      BY <2>3, <3>1, FS_CardinalityType
  <2>5. QED
    BY <1>1, <2>4 DEF Tbb!IInv, Tbb!TypeOK
<1>3. ASSUME n >= -1
      PROVE  Tbb!RangesInv' /\ Tbb!CountInv'
  <2>1. Tbb!RangesInv'
    BY <1>1, <1>3 DEF Tbb!IInv, Tbb!RangesInv, Tbb!Elements
  <2> DEFINE before == {m \in (1 .. n) \ Tbb!NotAdded : is_prime(m)}
             own == {m \in Tbb!Elements(range) \ {0} : is_prime(m)}
             after == {m \in (1 .. n) \ Tbb!NotAdded' : is_prime(m)}
  <2>2. /\ Tbb!NotAdded' = Tbb!NotAdded \ Tbb!Elements(range)
        /\ Tbb!Elements(range) \ {0} \subseteq Tbb!NotAdded
        /\ Tbb!local_count(range) = Cardinality(own)
    BY <1>3, AddedRange
  <2>3. Tbb!Elements(range) \ {0} \subseteq 1 .. n
    BY <1>3, TbbTypes DEF Tbb!IInv, Tbb!RangesInv, Tbb!Elements
  <2>4. after = before \cup own /\ before \cap own = {}
    <3>1. 0 \notin 1 .. n
      OBVIOUS
    <3>2. QED
      BY <2>2, <2>3, <3>1
  <2>5. IsFiniteSet(before) /\ IsFiniteSet(own)
    <3>1. IsFiniteSet(1 .. n)
      <4>1. n \in Int
        BY TbbTypes DEF Tbb!IInv
      <4>2. QED
        BY <4>1, FS_Interval
    <3>2. before \subseteq 1 .. n /\ own \subseteq 1 .. n
      BY <2>3
    <3>3. QED
      BY <3>1, <3>2, FS_Subset
  <2>6. t_prime_count = Cardinality(before)
    <3>1. before = {m \in (1 .. n) \ Tbb!NotAdded : Tbb!is_prime(m)}
      BY DEF Tbb!is_prime, is_prime
    <3>2. QED
      BY <1>3, <3>1 DEF Tbb!IInv, Tbb!CountInv, Tbb!Cardinality, Cardinality
  <2>7. Cardinality(after) = Cardinality(before) + Cardinality(own)
    <3> HIDE DEF before, own, after
    <3>1. Cardinality(after) = Cardinality(before) + Cardinality(own) - Cardinality({})
      BY <2>4, <2>5, FS_Union
    <3>2. Cardinality(before) \in Nat /\ Cardinality(own) \in Nat
      BY <2>5, FS_CardinalityType
    <3>3. QED
      BY <3>1, <3>2, FS_EmptySet
  <2>8. t_prime_count' = Cardinality(after)
    BY <1>1, <2>2, <2>6, <2>7
  <2>9. Tbb!CountInv'
    <3>1. after = {m \in (1 .. n) \ Tbb!NotAdded' : Tbb!is_prime(m)}
      BY DEF Tbb!is_prime, is_prime
    <3>2. QED
      BY <1>1, <2>8, <3>1 DEF Tbb!CountInv, Tbb!Cardinality, Cardinality
  <2>10. QED
    BY <2>1, <2>9
<1>4. QED
  BY <1>1, <1>2, <1>3 DEF Tbb!IInv

\* and so does every step.
LEMMA TbbNext == Tbb!IInv /\ [Tbb!Next]_(Tbb!vars) => Tbb!IInv'
<1> SUFFICES ASSUME Tbb!IInv, [Tbb!Next]_(Tbb!vars)
             PROVE  Tbb!IInv'
  OBVIOUS
<1>1. CASE UNCHANGED Tbb!vars \/ Tbb!Return
  <2>1. UNCHANGED <<n, waiting, counted, t_prime_count>>
    BY <1>1 DEF Tbb!vars, Tbb!Return
  <2>2. returned' \in BOOLEAN /\ (returned' => returned \/ waiting \cup counted = {})
    <3>1. CASE UNCHANGED Tbb!vars
      <4>1. returned' = returned
        BY <3>1 DEF Tbb!vars
      <4>2. QED
        BY <4>1 DEF Tbb!IInv, Tbb!TypeOK
    <3>2. CASE Tbb!Return
      BY <3>2 DEF Tbb!Return
    <3>3. QED
      BY <1>1, <3>1, <3>2
  <2>3. Tbb!TypeOK'
    BY <2>1, <2>2 DEF Tbb!IInv, Tbb!TypeOK
  <2>4. n >= -1 => Tbb!RangesInv'
    BY <2>1, <2>2 DEF Tbb!IInv, Tbb!RangesInv, Tbb!Elements
  <2>5. n >= -1 => Tbb!CountInv'
    <3>1. Tbb!NotAdded' = Tbb!NotAdded
      BY <2>1 DEF Tbb!NotAdded, Tbb!Elements
    <3>2. QED
      BY <2>1, <3>1 DEF Tbb!IInv, Tbb!CountInv
  <2>6. QED
    BY <2>1, <2>3, <2>4, <2>5 DEF Tbb!IInv
<1>2. CASE \E range \in waiting : Tbb!Split(range) \/ Tbb!CountPrimes(range)
  BY <1>2, SplitInv, CountPrimesInv
<1>3. CASE \E range \in counted : Tbb!AddLocalCount(range)
  BY <1>3, TbbAddLocalCountInv
<1>4. QED
  BY <1>1, <1>2, <1>3 DEF Tbb!Next

\* So it always holds.
LEMMA TbbInvariant == Tbb!Spec => []Tbb!IInv
BY TbbInit, TbbNext, PTL DEF Tbb!Spec

\* The invariant gives the result.
LEMMA TbbCount == Tbb!IInv /\ n >= -1 => Tbb!ResultIsExact
<1> SUFFICES ASSUME Tbb!IInv, n >= -1, returned
             PROVE  t_prime_count = Tbb!find_primes_serial(n)
  BY DEF Tbb!ResultIsExact
<1>1. waiting \cup counted = {}
  BY DEF Tbb!IInv, Tbb!RangesInv
<1>2. \A m : m \notin Tbb!NotAdded
  BY <1>1, TbbLeft
<1>3. {m \in (1 .. n) \ Tbb!NotAdded : Tbb!is_prime(m)} = {m \in 1 .. n : Tbb!is_prime(m)}
  BY <1>2
<1>4. QED
  BY <1>3 DEF Tbb!IInv, Tbb!CountInv, Tbb!find_primes_serial

-------------------------------------------------------------------------------
(* The TBB count implements PrimeCount.                                    *)

TC == INSTANCE PrimeCount WITH
       left <- Tbb!NotAdded, count <- t_prime_count

\* Every step of the TBB count is one of PrimeCount or invisible to it.
LEMMA TbbNextMaps == Tbb!IInv /\ n >= -1 /\ [Tbb!Next]_(Tbb!vars) => [TC!Next]_(TC!vars)
<1> SUFFICES ASSUME Tbb!IInv, n >= -1, [Tbb!Next]_(Tbb!vars)
             PROVE  TC!Next \/ UNCHANGED TC!vars
  OBVIOUS
<1>1. CASE UNCHANGED Tbb!vars
  <2>1. Tbb!NotAdded' = Tbb!NotAdded
    BY <1>1 DEF Tbb!vars, Tbb!NotAdded, Tbb!Elements
  <2>2. QED
    BY <1>1, <2>1 DEF Tbb!vars, TC!vars
<1>2. CASE \E range \in waiting : Tbb!Split(range) \/ Tbb!CountPrimes(range)
  <2>1. Tbb!NotAdded' = Tbb!NotAdded
    BY <1>2, SplitInv, CountPrimesInv
  <2>2. QED
    BY <1>2, <2>1 DEF Tbb!Split, Tbb!CountPrimes, TC!vars
<1>3. ASSUME NEW range \in counted, Tbb!AddLocalCount(range)
      PROVE  TC!AddSome
  <2> DEFINE added == {m \in Tbb!NotAdded \ Tbb!NotAdded' : is_prime(m)}
  <2>1. /\ Tbb!NotAdded' \subseteq Tbb!NotAdded
        /\ Tbb!local_count(range) = Cardinality(added)
    BY <1>3, AddedRange
  <2>2. added = {m \in Tbb!NotAdded \ Tbb!NotAdded' : TC!is_prime(m)}
    BY DEF TC!is_prime, is_prime
  <2>3. ~ returned
    BY DEF Tbb!IInv, Tbb!RangesInv
  <2> HIDE DEF added
  <2>4. t_prime_count' = t_prime_count + Cardinality(added) /\ UNCHANGED <<n, returned>>
    BY <1>3, <2>1 DEF Tbb!AddLocalCount
  <2>5. TC!Cardinality(added) = Cardinality(added)
    BY DEF TC!Cardinality, Cardinality
  <2>6. QED
    BY <2>1, <2>2, <2>3, <2>4, <2>5 DEF TC!AddSome
<1>4. CASE Tbb!Return
  <2>1. waiting' \cup counted' = waiting \cup counted /\ waiting \cup counted = {}
    BY <1>4 DEF Tbb!Return
  <2>2. Tbb!NotAdded' = Tbb!NotAdded /\ Tbb!NotAdded = {}
    BY <2>1 DEF Tbb!NotAdded, Tbb!Elements
  <2>3. TC!Return
    BY <1>4, <2>2 DEF Tbb!Return, TC!Return
  <2>4. QED
    BY <2>3 DEF TC!Next
<1>5. QED
  BY <1>1, <1>2, <1>3, <1>4 DEF Tbb!Next, TC!Next

\* However parallel_for splits the range, every number's primes are added to the total
\* once, and it returns only when no number is left, for every N whose N + 1 is not
\* negative.
THEOREM TbbImplementsPrimeCount ==
  Tbb!Spec /\ n >= -1 => TC!Init /\ [][TC!Next]_(TC!vars)
<1>1. Tbb!Init /\ n >= -1 => TC!Init
  <2> SUFFICES ASSUME Tbb!Init, n >= -1
               PROVE  TC!Init
    OBVIOUS
  <2>1. /\ n \in Int /\ n + 10 < 2^(LONG_BITS - 1) /\ 2^(LONG_BITS - 1) \in Nat
        /\ 2^LONG_BITS = 2 * 2^(LONG_BITS - 1)
    BY WidthsAssumption, Widths DEF Tbb!Init
  <2>2. (n + 1) % 2^LONG_BITS = n + 1
    BY <2>1
  <2>3. /\ waiting = IF n + 1 = 0 THEN {} ELSE {<<0, n + 1>>}
        /\ counted = {} /\ n \in Inputs /\ t_prime_count = 0 /\ returned = FALSE
    BY <2>2 DEF Tbb!Init, Tbb!ToSize
  <2>4. ASSUME NEW m
        PROVE  m \in Tbb!NotAdded <=> m \in 1 .. n
    <3>1. m \in Tbb!NotAdded <=> m # 0 /\ n + 1 # 0 /\ m \in Tbb!Elements(<<0, n + 1>>)
      BY <2>3, TbbLeft
    <3>2. Tbb!Elements(<<0, n + 1>>) = 0 .. (n + 1) - 1
      BY DEF Tbb!Elements
    <3>3. QED
      BY <2>1, <3>1, <3>2
  <2>5. Tbb!NotAdded = 1 .. n
    BY <2>4
  <2>6. QED
    BY <2>3, <2>5 DEF TC!Init
<1>2. n >= -1 /\ [Tbb!Next]_(Tbb!vars) => (n >= -1)'
  BY DEF Tbb!Next, Tbb!vars, Tbb!Split, Tbb!CountPrimes, Tbb!AddLocalCount, Tbb!Return
<1>3. QED
  BY <1>1, <1>2, TbbInvariant, TbbNextMaps, PTL DEF Tbb!Spec

-------------------------------------------------------------------------------
(* The primality test.                                                     *)

\* The bounds of an int.
LEMMA TestBounds ==
  Test!INT_MAX \in Nat /\ Test!INT_MAX >= 1 /\ Test!INT_MIN = - Test!INT_MAX - 1
BY Widths DEF Test!INT_MAX, Test!INT_MIN

\* The types of the primality test.
LEMMA TestTypes ==
  Test!TypeOK => n \in Int /\ q_i \in Int /\ Test!INT_MAX \in Nat
<1> SUFFICES ASSUME Test!TypeOK
             PROVE  n \in Int /\ q_i \in Int /\ Test!INT_MAX \in Nat
  OBVIOUS
<1>1. n \in Int
  BY WidthsAssumption DEF Test!TypeOK
<1>2. q_i \in (Test!INT_MIN .. Test!INT_MAX + 1) \cup (2 .. n)
  BY DEF Test!TypeOK
<1>3. Test!INT_MAX \in Nat /\ Test!INT_MIN \in Int
  BY TestBounds
<1>4. QED
  BY <1>1, <1>2, <1>3

\* What a prime is, for any integer.
LEMMA TestOfPrimes ==
  ASSUME NEW m \in Int
  PROVE  /\ m <= 1 => ~ Test!is_prime(m)
         /\ m > 1 => (Test!is_prime(m) <=> \A d \in 2 .. m - 1 : m % d # 0)
BY DEF Test!is_prime

\* The primality test starts in its invariant,
LEMMA TestInit == Test!Init => Test!IInv
<1> SUFFICES ASSUME Test!Init
             PROVE  Test!IInv
  OBVIOUS
<1>1. n \in Int
  BY WidthsAssumption DEF Test!Init
<1>2. QED
  BY <1>1, TestBounds
     DEF Test!Init, Test!IInv, Test!TypeOK, Test!Scanned, Test!AnswerInv

\* every step keeps it,
LEMMA TestNext == Test!IInv /\ [Test!Next]_(Test!vars) => Test!IInv'
<1> SUFFICES ASSUME Test!IInv, [Test!Next]_(Test!vars)
             PROVE  Test!IInv'
  OBVIOUS
<1> DEFINE max == Test!INT_MAX
<1>1. n \in Int /\ q_i \in Int
  BY TestTypes DEF Test!IInv
<1> DEFINE Kept == n' = n /\ q_i' = q_i
<1>8. Kept => /\ Test!Scanned' = Test!Scanned /\ Test!Wrapped' = Test!Wrapped
              /\ result' \in {"none", "prime", "not_prime"} => Test!TypeOK'
  <2> SUFFICES ASSUME Kept
               PROVE  /\ Test!Scanned' = Test!Scanned /\ Test!Wrapped' = Test!Wrapped
                      /\ result' \in {"none", "prime", "not_prime"} => Test!TypeOK'
    OBVIOUS
  <2>1. result' \in {"none", "prime", "not_prime"} => Test!TypeOK'
    BY DEF Test!IInv, Test!TypeOK
  <2>2. QED
    BY <2>1 DEF Test!Scanned, Test!Wrapped
<1>2. CASE UNCHANGED Test!vars
  BY <1>2, <1>8 DEF Test!vars, Test!IInv, Test!TypeOK, Test!AnswerInv
<1>3. CASE Test!BelowTwo
  <2>1. n <= 1 /\ Kept /\ result' = "not_prime"
    BY <1>3 DEF Test!BelowTwo
  <2>2. ~ Test!is_prime(n)
    BY <1>1, <2>1, TestOfPrimes
  <2>3. QED
    BY <1>8, <2>1, <2>2 DEF Test!IInv, Test!AnswerInv
<1>4. CASE Test!FoundDivisor
  <2>1. Kept /\ result' = "not_prime" /\ n > 1 /\ q_i < n /\ Test!Divides
    BY <1>4 DEF Test!FoundDivisor, Test!InRange
  <2>2. Test!Scanned => ~ Test!is_prime(n)
    <3> SUFFICES ASSUME Test!Scanned
                 PROVE  ~ Test!is_prime(n)
      OBVIOUS
    <3>1. q_i >= 2
      BY DEF Test!Scanned
    <3>2. n % q_i = 0
      BY <1>1, <2>1, <3>1 DEF Test!Divides
    <3>3. q_i \in 2 .. n - 1
      BY <1>1, <2>1, <3>1
    <3>4. QED
      BY <1>1, <2>1, <3>2, <3>3, TestOfPrimes
  <2>3. QED
    BY <1>8, <2>1, <2>2 DEF Test!IInv, Test!AnswerInv, Test!Wrapped
<1>5. CASE Test!NoDivisor
  <2>1. q_i >= n /\ n > 1
    BY <1>1, <1>5 DEF Test!NoDivisor, Test!InRange
  <2>2. Test!Scanned
    BY <1>1, <2>1 DEF Test!IInv, Test!Wrapped
  <2>3. Test!is_prime(n)
    <3>1. \A d \in 2 .. q_i - 1 : n % d # 0
      BY <2>2 DEF Test!Scanned
    <3>2. \A d \in 2 .. n - 1 : d \in 2 .. q_i - 1
      BY <1>1, <2>1
    <3>3. QED
      BY <1>1, <2>1, <3>1, <3>2, TestOfPrimes
  <2>4. Kept /\ result' = "prime"
    BY <1>5 DEF Test!NoDivisor
  <2>5. QED
    BY <1>8, <2>2, <2>3, <2>4 DEF Test!IInv, Test!AnswerInv
<1>6. CASE Test!TryNext
  <2>1. /\ result = "none" /\ n > 1 /\ q_i < n /\ ~ Test!Divides
        /\ q_i' \in Test!Increment /\ n' = n /\ result' = result
    BY <1>6 DEF Test!TryNext, Test!InRange
  <2>2. max \in Nat /\ max >= 1 /\ Test!INT_MIN = - max - 1
    BY TestBounds
  <2>4. q_i' = q_i + 1 \/ (q_i = max /\ q_i' = Test!INT_MIN)
    BY <2>1 DEF Test!Increment
  <2>5. Test!AnswerInv'
    BY <2>1 DEF Test!AnswerInv
  <2>6. Test!TypeOK'
    BY <1>1, <2>1, <2>2, <2>4 DEF Test!IInv, Test!TypeOK
  <2>7. CASE Test!Scanned /\ q_i' = q_i + 1
    <3>1. n % q_i # 0
      BY <1>1, <2>1, <2>7 DEF Test!Scanned, Test!Divides
    <3>2. \A d \in 2 .. q_i : n % d # 0
      BY <1>1, <2>7, <3>1 DEF Test!Scanned
    <3>3. Test!Scanned'
      BY <1>1, <2>1, <2>7, <3>2 DEF Test!Scanned
    <3>4. QED
      BY <2>5, <2>6, <3>3 DEF Test!IInv
  <2>8. CASE Test!Scanned /\ q_i = max /\ q_i' = Test!INT_MIN
    \* The number after INT_MAX is even, and 2 was tried before.
    <3>1. n % max # 0 /\ max >= 2 /\ \A d \in 2 .. max : n % d # 0
      <4>1. n % max # 0
        BY <1>1, <2>1, <2>8 DEF Test!Scanned, Test!Divides
      <4>2. QED
        BY <1>1, <2>8, <4>1 DEF Test!Scanned
    <3>2. n # max + 1
      <4>1. INT_BITS # 2
        <5> SUFFICES ASSUME INT_BITS = 2
                     PROVE  FALSE
          OBVIOUS
        <5>1. INT_BITS - 1 = 0 + 1 /\ 2^0 = 1
          OBVIOUS
        <5>2. 2^(INT_BITS - 1) = 2
          BY <5>1, PowerOfTwo
        <5>3. QED
          BY <3>1, <5>2 DEF Test!INT_MAX
      <4>2. PICK h \in Nat : max + 1 = 2 * h /\ h >= 2
        BY <4>1, Widths DEF Test!INT_MAX
      <4>3. (2 * h) % 2 = 0
        BY <4>2
      <4>4. QED
        BY <3>1, <4>2, <4>3
    <3>3. Test!Wrapped'
      BY <1>1, <2>1, <2>2, <2>8, <3>2 DEF Test!Wrapped
    <3>4. QED
      BY <2>5, <2>6, <3>3 DEF Test!IInv
  <2>9. CASE Test!Wrapped
    <3>1. q_i < 0 /\ n > max + 1
      BY <2>9 DEF Test!Wrapped
    <3>2. q_i # -1
      <4>1. n % 1 = 0
        BY <1>1
      <4>2. QED
        BY <2>1, <4>1 DEF Test!Divides
    <3>3. q_i' < 0
      BY <1>1, <2>2, <2>4, <3>1, <3>2
    <3>4. Test!Wrapped'
      BY <2>1, <3>1, <3>3 DEF Test!Wrapped
    <3>5. QED
      BY <2>5, <2>6, <3>4 DEF Test!IInv
  <2>10. QED
    BY <2>4, <2>7, <2>8, <2>9 DEF Test!IInv
<1>7. QED
  BY <1>2, <1>3, <1>4, <1>5, <1>6 DEF Test!Next

\* so it always holds.
LEMMA TestInvariant == Test!Spec => []Test!IInv
BY TestInit, TestNext, PTL DEF Test!Spec

\* What is_prime takes for a prime is one, whatever the width of an int, and it misses
\* none up to the number after INT_MAX; its divisor is never 0.
THEOREM AnswersAreSound == Test!Spec => []AnswerIsSound
<1>1. Test!IInv => AnswerIsSound
  <2> SUFFICES ASSUME Test!IInv
               PROVE  Test!AnswerIsSound
    BY DEF AnswerIsSound
  <2>1. n \in Int /\ q_i \in Int /\ Test!INT_MAX \in Nat
    BY TestTypes DEF Test!IInv
  <2>2. q_i # 0
    BY <2>1 DEF Test!IInv, Test!Scanned, Test!Wrapped
  <2>3. QED
    BY <2>1, <2>2 DEF Test!AnswerIsSound, Test!IInv, Test!AnswerInv
<1>2. QED
  BY <1>1, TestInvariant, PTL

-------------------------------------------------------------------------------

\* Whatever the threads were dealt and however the range is split, the static and the TBB
\* count return the serial one: the static for every N, the TBB one when N + 1 is not
\* negative.
THEOREM OthersExact ==
  Stat!Spec /\ Tbb!Spec /\ Test!Spec /\ n >= -1 => []OthersAreExact
<1>1. Stat!IInv /\ Tbb!IInv /\ Test!IInv /\ n >= -1 => OthersAreExact
  BY StaticCount, TbbCount DEF OthersAreExact
<1>2. n >= -1 /\ [Tbb!Next]_(Tbb!vars) => (n >= -1)'
  BY DEF Tbb!Next, Tbb!vars, Tbb!Split, Tbb!CountPrimes, Tbb!AddLocalCount, Tbb!Return
<1>3. QED
  BY <1>1, <1>2, StaticInvariant, TbbInvariant, TestInvariant, PTL DEF Tbb!Spec

===============================================================================
