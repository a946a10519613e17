------------------------------- MODULE PrimeTest --------------------------------
(***************************************************************************)
(* The loop of is_prime in src/prime, which each counter defines for       *)
(* itself: the candidate divisor is an int, the number a long.             *)
(*                                                                         *)
(* Beyond INT_MAX the divisor overflows, which C++ leaves undefined: a     *)
(* build lets it wrap around to INT_MIN or keeps it in a wider register.   *)
(***************************************************************************)
EXTENDS PrimeBase

VARIABLES
  n,        \* the argument
  i,        \* the candidate divisor
  result    \* what is_prime returns, once it does

vars == <<n, i, result>>

TypeOK ==
  /\ n \in Inputs
  /\ i \in (INT_MIN .. INT_MAX + 1) \cup (2 .. n)
  /\ result \in {"none", "prime", "not_prime"}

Init ==
  /\ n \in Inputs
  /\ i = 2
  /\ result = "none"

-------------------------------------------------------------------------------

\* A slip: divisors up to half of the number, that one left out.
BelowHalf == i < n \div 2

InRange == i < n

BelowTwo ==
  /\ result = "none"
  /\ n <= 1
  /\ result' = "not_prime"
  /\ UNCHANGED <<n, i>>

\* Is n % i zero?  A negative divisor gives the remainder of the positive one.
Divides == n % (IF i < 0 THEN - i ELSE i) = 0

\* ++i
Increment == IF i = INT_MAX THEN {INT_MIN, i + 1} ELSE {i + 1}

TryNext ==
  /\ result = "none"
  /\ n > 1
  /\ InRange
  /\ ~ Divides
  /\ i' \in Increment
  /\ UNCHANGED <<n, result>>

FoundDivisor ==
  /\ result = "none"
  /\ n > 1
  /\ InRange
  /\ Divides
  /\ result' = "not_prime"
  /\ UNCHANGED <<n, i>>

NoDivisor ==
  /\ result = "none"
  /\ n > 1
  /\ ~ InRange
  /\ result' = "prime"
  /\ UNCHANGED <<n, i>>

Next == BelowTwo \/ TryNext \/ FoundDivisor \/ NoDivisor

Spec == Init /\ [][Next]_vars /\ WF_vars(Next)

-------------------------------------------------------------------------------
(* Properties.                                                             *)

\* What is_prime takes for a prime is one, also beyond INT_MAX and whatever the build
\* makes of the overflow; only primes can be missed, and only beyond the first number
\* whose divisors an int cannot hold.  A divisor that has wrapped around reaches -1,
\* which divides everything, before it reaches 0 and n % i fails (dynamic.cpp:20).
AnswerIsSound ==
  /\ result = "prime" => is_prime(n)
  /\ result = "not_prime" /\ n <= INT_MAX + 1 => ~ is_prime(n)
  /\ result = "none" /\ InRange => i # 0

-------------------------------------------------------------------------------
(* The inductive invariant behind AnswerIsSound.                           *)

\* No divisor was found so far.
Scanned == i >= 2 /\ \A d \in 2 .. i - 1 : n % d # 0

\* The divisor has wrapped around: then the number is no power of two, whose divisor 2
\* would have been found.
Wrapped == i < 0 /\ n > INT_MAX + 1

AnswerInv ==
  /\ result = "prime" => is_prime(n)
  /\ result = "not_prime" => ~ is_prime(n) \/ n > INT_MAX + 1

IInv == TypeOK /\ (Scanned \/ Wrapped) /\ AnswerInv

===============================================================================
