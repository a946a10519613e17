------------------------------ MODULE PrimeCount -------------------------------
(***************************************************************************)
(* What every prime counter of src/prime promises, whoever tests which     *)
(* number and when: main() compares its result with the serial one.        *)
(* PrimeDynamic, PrimeStatic and PrimeTbb are shown to implement it.       *)
(*                                                                         *)
(* A thread or task adds what it has found in some of the numbers at once. *)
(***************************************************************************)
EXTENDS PrimeBase

VARIABLES
  n,          \* the number the program was called with
  left,       \* the numbers from 1 to n that are not in the total yet
  count,      \* the total
  returned    \* has the call returned?

vars == <<n, left, count, returned>>

Init ==
  /\ n \in Inputs
  /\ left = 1 .. n
  /\ count = 0
  /\ returned = FALSE

\* Some numbers are added to the total.
AddSome ==
  /\ ~ returned
  /\ left' \subseteq left
  /\ count' = count + Cardinality({i \in left \ left' : is_prime(i)})
  /\ UNCHANGED <<n, returned>>

Return ==
  /\ ~ returned
  /\ left = {}
  /\ returned' = TRUE
  /\ UNCHANGED <<n, left, count>>

Next == AddSome \/ Return

Liveness == <>returned

Spec == Init /\ [][Next]_vars /\ Liveness

===============================================================================
