------------------------------ MODULE PrimeBase --------------------------------
(***************************************************************************)
(* What the prime counters of src/prime share: the primality test that     *)
(* each of them defines for itself, and the serial count that main()       *)
(* compares every other result with.                                       *)
(***************************************************************************)
EXTENDS Integers, FiniteSets

CONSTANTS
  NUM_THREADS,          \* include/constants.hpp
  INT_BITS, LONG_BITS,  \* the widths of int and of long, which size_t shares
  Inputs                \* the numbers N the program may be called with

ASSUME ThreadsAssumption == NUM_THREADS \in Nat \ {0}

\* An argument is a long, with room enough for what a single number costs.
ASSUME WidthsAssumption ==
  /\ {INT_BITS, LONG_BITS} \subseteq Nat \ {0, 1}
  /\ Inputs \subseteq Int
  /\ \A n \in Inputs : -(2^(LONG_BITS - 1)) <= n /\ n + 10 < 2^(LONG_BITS - 1)

INT_MAX  == 2^(INT_BITS - 1) - 1
INT_MIN  == -(2^(INT_BITS - 1))
LONG_MAX == 2^(LONG_BITS - 1) - 1
LONG_MIN == -(2^(LONG_BITS - 1))

Thread == 0 .. NUM_THREADS - 1

\* No number from 2 to m - 1 divides m.  This is what the loop of is_prime computes
\* for the numbers whose divisors an int can hold; PrimeTest is about that loop, and
\* about the numbers beyond.
is_prime(m) == m > 1 /\ \A d \in 2 .. m - 1 : m % d # 0

find_primes_serial(N) == Cardinality({m \in 1 .. N : is_prime(m)})

===============================================================================
