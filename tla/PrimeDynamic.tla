----------------------------- MODULE PrimeDynamic ------------------------------
(***************************************************************************)
(* src/prime/dynamic.cpp: NUM_THREADS threads take the numbers of one      *)
(* vector, the largest first, from a shared atomic index, count primes     *)
(* privately and add their counts to a shared atomic total at the end.     *)
(*                                                                         *)
(* Every access to an atomic is a step; what a thread does to its own      *)
(* variables belongs to the step before.                                   *)
(***************************************************************************)
EXTENDS PrimeBase, Sequences

VARIABLES
  n,             \* the number the program was called with
  nums,          \* the numbers to test
  next_index,    \* atomic: the next position nobody has taken
  prime_count,   \* atomic: the total
  started,       \* how many threads the main thread has started
  joined,        \* how many it has joined
  state,         \* where each thread is
  index,         \* the position each thread has taken
  local_count,   \* the primes each thread has counted
  tested_by      \* history: which thread has tested the number at a position

vars == <<n, nums, next_index, prime_count, started, joined, state, index, local_count,
          tested_by>>

\* n, n - 1, ..., 1; nothing when n is not positive.
setup_dynamic(m) == [j \in 1 .. m |-> m - j + 1]

Size     == Len(nums)
Position == 0 .. Size - 1
Nobody   == -1

TypeOK ==
  /\ n \in Inputs
  /\ nums = setup_dynamic(n)
  /\ next_index \in Nat
  /\ prime_count \in Nat
  /\ started \in 0 .. NUM_THREADS
  /\ joined \in 0 .. NUM_THREADS
  /\ state \in [Thread -> {"unborn", "fetching", "testing", "adding", "finished"}]
  /\ index \in [Thread -> Nat]
  /\ local_count \in [Thread -> Nat]
  /\ tested_by \in [Position -> Thread \cup {Nobody}]

Init ==
  /\ n \in Inputs
  /\ nums = setup_dynamic(n)
  /\ next_index = 0
  /\ prime_count = 0
  /\ started = 0
  /\ joined = 0
  /\ state = [t \in Thread |-> "unborn"]
  /\ index = [t \in Thread |-> 0]
  /\ local_count = [t \in Thread |-> 0]
  /\ tested_by = [j \in Position |-> Nobody]

-------------------------------------------------------------------------------

\* The main thread starts the threads in order; the first ones run while it
\* starts the others.
StartThread ==
  /\ started < NUM_THREADS
  /\ state' = [state EXCEPT ![started] = "fetching"]
  /\ started' = started + 1
  /\ UNCHANGED <<n, nums, next_index, prime_count, joined, index, local_count, tested_by>>

\* A slip: without std::ref every thread has a next_index of its own.
FetchOwnIndex(t) ==
  LET own_index == IF \E j \in Position : tested_by[j] = t THEN index[t] + 1 ELSE 0
  IN  /\ state[t] = "fetching"
      /\ index' = [index EXCEPT ![t] = own_index]
      /\ state' = [state EXCEPT ![t] = IF own_index >= Size THEN "adding" ELSE "testing"]
      /\ UNCHANGED <<n, nums, next_index, prime_count, started, joined, local_count,
                     tested_by>>

\* A slip: a thread past the end tries again.
FetchAgain(t) ==
  /\ state[t] = "fetching"
  /\ index' = [index EXCEPT ![t] = next_index]
  /\ next_index' = next_index + 1
  /\ state' = [state EXCEPT ![t] = IF next_index >= Size THEN "fetching" ELSE "testing"]
  /\ UNCHANGED <<n, nums, prime_count, started, joined, local_count, tested_by>>

\* next_index.fetch_add(1), and leave the loop when it was past the end.  The index
\* goes on growing past the end: every thread takes one position too many.
FetchIndex(t) ==
  /\ state[t] = "fetching"
  /\ index' = [index EXCEPT ![t] = next_index]
  /\ next_index' = next_index + 1
  /\ state' = [state EXCEPT ![t] = IF next_index >= Size THEN "adding" ELSE "testing"]
  /\ UNCHANGED <<n, nums, prime_count, started, joined, local_count, tested_by>>

TestNumber(t) ==
  /\ state[t] = "testing"
  /\ local_count' =
       [local_count EXCEPT ![t] = IF is_prime(nums[index[t] + 1]) THEN @ + 1 ELSE @]
  /\ tested_by' = [tested_by EXCEPT ![index[t]] = t]
  /\ state' = [state EXCEPT ![t] = "fetching"]
  /\ UNCHANGED <<n, nums, next_index, prime_count, started, joined, index>>

AddLocalCount(t) ==
  /\ state[t] = "adding"
  /\ prime_count' = prime_count + local_count[t]
  /\ state' = [state EXCEPT ![t] = "finished"]
  /\ UNCHANGED <<n, nums, next_index, started, joined, index, local_count, tested_by>>

\* A slip: the threads are detached.
DetachThread ==
  /\ started = NUM_THREADS
  /\ joined < NUM_THREADS
  /\ joined' = joined + 1
  /\ UNCHANGED <<n, nums, next_index, prime_count, started, state, index, local_count,
                 tested_by>>

\* The main thread joins the threads in order.
JoinThread ==
  /\ started = NUM_THREADS
  /\ joined < NUM_THREADS
  /\ state[joined] = "finished"
  /\ joined' = joined + 1
  /\ UNCHANGED <<n, nums, next_index, prime_count, started, state, index, local_count,
                 tested_by>>

Run(t) == FetchIndex(t) \/ TestNumber(t) \/ AddLocalCount(t)

Next == StartThread \/ JoinThread \/ \E t \in Thread : Run(t)

\* The main thread and every thread that was started are scheduled.
Fairness == WF_vars(StartThread \/ JoinThread) /\ \A t \in Thread : WF_vars(Run(t))

Spec == Init /\ [][Next]_vars /\ Fairness

-------------------------------------------------------------------------------
(* Properties.                                                             *)

Returned == joined = NUM_THREADS

\* The count that is returned is the serial one: no number is skipped or counted
\* twice, and no thread's count is missing, whatever the interleaving.
ResultIsExact == Returned => prime_count = find_primes_serial(n)

\* The threads never work on the same number, and never on one that was tested.
EachNumberOnce ==
  \A t \in Thread : state[t] = "testing" =>
    /\ index[t] \in Position
    /\ tested_by[index[t]] = Nobody
    /\ \A u \in Thread \ {t} : state[u] = "testing" => index[u] # index[t]

\* The shared index overshoots the vector by at most one position per thread, so
\* its width needs room for NUM_THREADS more than the vector holds.
OvershootIsBounded == next_index <= Size + NUM_THREADS

-------------------------------------------------------------------------------
(***************************************************************************)
(* The inductive invariant behind ResultIsExact: which thread has tested   *)
(* which position, and what the counters say about it.                     *)
(***************************************************************************)

\* The primes at the positions that the threads of T have tested.
PrimesOf(T) == {j \in Position : tested_by[j] \in T /\ is_prime(nums[j + 1])}

Threads(s) == {t \in Thread : state[t] = s}

Past == Threads("adding") \cup Threads("finished")

\* Positions are handed out once, in order; a thread works on one of them.
IndexInv ==
  /\ \A t \in Threads("testing") :
       /\ index[t] \in Position
       /\ index[t] < next_index
       /\ tested_by[index[t]] = Nobody
  /\ \A t, u \in Threads("testing") : t # u => index[t] # index[u]
  /\ \A j \in Position :
       /\ j >= next_index => tested_by[j] = Nobody
       /\ j < next_index => \/ tested_by[j] # Nobody
                             \/ \E t \in Threads("testing") : index[t] = j

\* A thread leaves the loop only when no position is left; every other turn of
\* fetch_add was within the vector.
PastInv ==
  /\ Past # {} => next_index >= Size
  /\ next_index <= Size + Cardinality(Past)

CountInv ==
  /\ \A t \in Thread : local_count[t] = Cardinality(PrimesOf({t}))
  /\ prime_count = Cardinality(PrimesOf(Threads("finished")))

\* Threads are started and joined in order.
OrderInv ==
  \A t \in Thread :
    /\ t >= started => state[t] = "unborn"
    /\ t < joined => state[t] = "finished"

IInv == TypeOK /\ IndexInv /\ PastInv /\ CountInv /\ OrderInv

-------------------------------------------------------------------------------

\* What PrimeCount calls left: the numbers that no thread has added to the total yet.
NotAdded == {nums[j + 1] : j \in {k \in Position : tested_by[k] \notin Threads("finished")}}

===============================================================================
