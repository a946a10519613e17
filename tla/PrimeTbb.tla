-------------------------------- MODULE PrimeTbb --------------------------------
(***************************************************************************)
(* src/prime/tbb.cpp: a tbb::parallel_for over the range [0, n + 1) of     *)
(* size_t, whose body counts the primes of a subrange and then adds them   *)
(* to an atomic total.                                                     *)
(*                                                                         *)
(* TBB splits a range of more than one element in two halves whenever its  *)
(* partitioner wants to, and runs the body on what is not split, in any    *)
(* order and concurrently; parallel_for returns when all bodies have.      *)
(***************************************************************************)
EXTENDS PrimeBase

VARIABLES
  n,             \* the number the program was called with
  waiting,       \* the subranges <<begin, end>> whose body has not started
  counted,       \* those whose body is about to add its count
  prime_count,   \* atomic: the total
  returned       \* has parallel_for returned?

vars == <<n, waiting, counted, prime_count, returned>>

Size == 0 .. 2^LONG_BITS - 1

\* The conversion from long to size_t and the one back.
ToSize(x) == x % 2^LONG_BITS
ToLong(s) == IF s < 2^(LONG_BITS - 1) THEN s ELSE s - 2^LONG_BITS

Elements(range) == range[1] .. range[2] - 1

local_count(range) == Cardinality({i \in Elements(range) : is_prime(ToLong(i))})

TypeOK ==
  /\ n \in Inputs
  /\ waiting \subseteq Size \X Size
  /\ counted \subseteq Size \X Size
  /\ prime_count \in Nat
  /\ returned \in BOOLEAN

\* parallel_for does nothing with an empty range.
Init ==
  /\ n \in Inputs
  /\ waiting = IF ToSize(n + 1) = 0 THEN {} ELSE {<<0, ToSize(n + 1)>>}
  /\ counted = {}
  /\ prime_count = 0
  /\ returned = FALSE

\* The two halves of a range that has more than one element.
Middle(range) == range[1] + (range[2] - range[1]) \div 2

Halves(range) == {<<range[1], Middle(range)>>, <<Middle(range), range[2]>>}

Split(range) ==
  /\ range[2] - range[1] > 1
  /\ waiting' = (waiting \ {range}) \cup Halves(range)
  /\ UNCHANGED <<n, counted, prime_count, returned>>

CountPrimes(range) ==
  /\ waiting' = waiting \ {range}
  /\ counted' = counted \cup {range}
  /\ UNCHANGED <<n, prime_count, returned>>

\* A slip: the total is assigned to.
AssignLocalCount(range) ==
  /\ prime_count' = local_count(range)
  /\ counted' = counted \ {range}
  /\ UNCHANGED <<n, waiting, returned>>

AddLocalCount(range) ==
  /\ prime_count' = prime_count + local_count(range)
  /\ counted' = counted \ {range}
  /\ UNCHANGED <<n, waiting, returned>>

Return ==
  /\ waiting = {} /\ counted = {}
  /\ ~ returned
  /\ returned' = TRUE
  /\ UNCHANGED <<n, waiting, counted, prime_count>>

Next ==
  \/ \E range \in waiting : Split(range) \/ CountPrimes(range)
  \/ \E range \in counted : AddLocalCount(range)
  \/ Return

\* As long as a subrange waits, or a body runs, one of them goes on.
Spec == Init /\ [][Next]_vars /\ WF_vars(Next)

-------------------------------------------------------------------------------
(* Properties.                                                             *)

\* The count that is returned is the serial one, however the range was split.
ResultIsExact == returned => prime_count = find_primes_serial(n)

\* What PrimeCount calls left: the numbers of the subranges that have not been added to
\* the total yet.
NotAdded == (UNION {Elements(range) : range \in waiting \cup counted}) \ {0}

-------------------------------------------------------------------------------
(* The inductive invariant behind ResultIsExact.                           *)

\* The subranges lie within the numbers, apart from each other.
RangesInv ==
  LET open == waiting \cup counted
  IN  /\ \A range \in open : range[1] < range[2] /\ range[2] <= n + 1
      /\ \A range, other \in open : range # other => Elements(range) \cap Elements(other) = {}
      /\ waiting \cap counted = {}
      /\ returned => open = {}

CountInv == prime_count = Cardinality({m \in (1 .. n) \ NotAdded : is_prime(m)})

\* When n + 1 is negative it is a large size_t, and none of this holds.
IInv == TypeOK /\ (n >= -1 => RangesInv /\ CountInv)

===============================================================================
