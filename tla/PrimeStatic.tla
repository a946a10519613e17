------------------------------ MODULE PrimeStatic ------------------------------
(***************************************************************************)
(* src/prime/static.cpp: the numbers are dealt to NUM_THREADS threads in   *)
(* advance, either in equal runs (setup_static_naive) or greedily by the   *)
(* work they cost (setup_static), and then find_primes_static has every    *)
(* thread count the primes among its own.                                  *)
(*                                                                         *)
(* `numbers' is sorted and has no repetitions, so it is a set here; the    *)
(* inner loop of setup_static, which runs its index downwards, takes the   *)
(* largest of the numbers it has not looked at yet.                        *)
(***************************************************************************)
EXTENDS PrimeBase, SequencesExt

VARIABLES
  n,                    \* the number the program was called with
  phase,                \* "naive" or "greedy" setup, then "count"
  thread_assignments,   \* the numbers of each thread
  t,                    \* the thread that numbers are being dealt to
  numbers,              \* setup_static: the numbers no earlier thread was given
  unseen,               \* setup_static: those the inner loop has yet to look at
  assigned_work,        \* setup_static: the work given to thread t
  next_number,          \* setup_static_naive: the first number of the next thread
  started,              \* find_primes_static: how many threads were started
  state,                \* where each of them is
  joined,               \* how many were joined
  prime_count           \* atomic: the total

dealVars  == <<thread_assignments, t, numbers, unseen, assigned_work, next_number>>
countVars == <<started, state, joined, prime_count>>
vars == <<n, phase, dealVars, countVars>>

\* A long that is too large wraps around.
ToLong(x) == ((x - LONG_MIN) % 2^LONG_BITS) + LONG_MIN

\* Division of C++, which rounds towards zero.
Quotient(a, b) == IF a >= 0 THEN a \div b ELSE - ((- a) \div b)

\* What a number costs, and the share of the total that a thread may be given.
Work(number) == number + 10

all_work        == SumFunction([i \in 2 .. n |-> Work(i)])
total_work      == ToLong(all_work)
work_per_thread == Quotient(total_work, NUM_THREADS)

nums_per_thread == Quotient(n, NUM_THREADS)

LastThread == NUM_THREADS - 1

TypeOK ==
  /\ n \in Inputs
  /\ phase \in {"naive", "greedy", "count"}
  /\ thread_assignments \in [Thread -> Seq(Nat)]
  /\ t \in 0 .. NUM_THREADS
  /\ unseen \subseteq numbers /\ numbers \subseteq 1 .. n
  /\ assigned_work \in LONG_MIN .. LONG_MAX
  /\ next_number \in Int
  /\ started \in 0 .. NUM_THREADS
  /\ state \in [Thread -> {"unborn", "adding", "finished"}]
  /\ joined \in 0 .. NUM_THREADS
  /\ prime_count \in Nat

Init ==
  /\ n \in Inputs
  /\ phase \in {"naive", "greedy"}
  /\ thread_assignments = [u \in Thread |-> << >>]
  /\ t = 0
  /\ numbers = 1 .. n
  /\ unseen = numbers
  /\ assigned_work = 0
  /\ next_number = 0
  /\ started = 0
  /\ state = [u \in Thread |-> "unborn"]
  /\ joined = 0
  /\ prime_count = 0

-------------------------------------------------------------------------------
(* setup_static_naive: a turn of the loop over the threads.                *)

\* The numbers from a to b, in order.
FromTo(a, b) == [j \in 1 .. b - a + 1 |-> a + j - 1]

DealRun ==
  /\ phase = "naive"
  /\ t < LastThread
  /\ thread_assignments' =
       [thread_assignments EXCEPT
          ![t] = FromTo(next_number, next_number + nums_per_thread - 1)]
  /\ next_number' = next_number + nums_per_thread
  /\ t' = t + 1
  /\ UNCHANGED <<n, phase, numbers, unseen, assigned_work, countVars>>

\* The last thread takes what is left by the rounding.
DealRest ==
  /\ phase = "naive"
  /\ t = LastThread
  /\ thread_assignments' = [thread_assignments EXCEPT ![t] = FromTo(next_number, n)]
  /\ phase' = "count"
  /\ UNCHANGED <<n, t, numbers, unseen, assigned_work, next_number, countVars>>

-------------------------------------------------------------------------------
(* setup_static: a turn of the inner loop, or the end of a turn of the     *)
(* loop over the threads.                                                  *)

\* The largest number yet to be looked at.
number == Max(unseen)

Fits == t = LastThread \/ Work(number) <= ToLong(work_per_thread - assigned_work)

TakeNumber ==
  /\ phase = "greedy"
  /\ t < NUM_THREADS
  /\ unseen # {}
  /\ Fits
  /\ thread_assignments' = [thread_assignments EXCEPT ![t] = Append(@, number)]
  /\ assigned_work' = ToLong(assigned_work + Work(number))
  /\ unseen' = unseen \ {number}
  /\ UNCHANGED <<n, phase, t, numbers, next_number, countVars>>

\* A slip: `break' for `continue'.
StopAtMisfit ==
  /\ phase = "greedy"
  /\ t < NUM_THREADS
  /\ unseen # {}
  /\ ~ Fits
  /\ unseen' = {}
  /\ UNCHANGED <<n, phase, thread_assignments, t, numbers, assigned_work, next_number,
                 countVars>>

\* Too much work for this thread: check lower numbers.
SkipNumber ==
  /\ phase = "greedy"
  /\ t < NUM_THREADS
  /\ unseen # {}
  /\ ~ Fits
  /\ unseen' = unseen \ {number}
  /\ UNCHANGED <<n, phase, thread_assignments, t, numbers, assigned_work, next_number,
                 countVars>>

\* A slip: the numbers that were given are not removed.
Untrimmed == numbers

\* indexes_to_remove holds what this thread was given; the rest goes on.
Trimmed == numbers \ Range(thread_assignments[t])

NextThread ==
  /\ phase = "greedy"
  /\ t < NUM_THREADS
  /\ unseen = {}
  /\ numbers' = Trimmed
  /\ unseen' = Trimmed
  /\ assigned_work' = 0
  /\ t' = t + 1
  /\ phase' = IF t = LastThread THEN "count" ELSE phase
  /\ UNCHANGED <<n, thread_assignments, next_number, countVars>>

-------------------------------------------------------------------------------
(* find_primes_static.                                                     *)

\* The new thread counts on its own until it touches the total.
StartThread ==
  /\ phase = "count"
  /\ started < NUM_THREADS
  /\ state' = [state EXCEPT ![started] = "adding"]
  /\ started' = started + 1
  /\ UNCHANGED <<n, phase, dealVars, joined, prime_count>>

local_count(u) ==
  Cardinality({j \in DOMAIN thread_assignments[u] : is_prime(thread_assignments[u][j])})

AddLocalCount(u) ==
  /\ state[u] = "adding"
  /\ prime_count' = prime_count + local_count(u)
  /\ state' = [state EXCEPT ![u] = "finished"]
  /\ UNCHANGED <<n, phase, dealVars, started, joined>>

JoinThread ==
  /\ phase = "count"
  /\ started = NUM_THREADS
  /\ joined < NUM_THREADS
  /\ state[joined] = "finished"
  /\ joined' = joined + 1
  /\ UNCHANGED <<n, phase, dealVars, started, state, prime_count>>

Main ==
  \/ DealRun \/ DealRest
  \/ TakeNumber \/ SkipNumber \/ NextThread
  \/ StartThread \/ JoinThread

Next == Main \/ \E u \in Thread : AddLocalCount(u)

\* The main thread and every thread that was started are scheduled.
Fairness == WF_vars(Main) /\ \A u \in Thread : WF_vars(AddLocalCount(u))

Spec == Init /\ [][Next]_vars /\ Fairness

-------------------------------------------------------------------------------
(* Properties.                                                             *)

Returned == joined = NUM_THREADS

\* The count that is returned is the serial one, for both ways to deal.
ResultIsExact == Returned => prime_count = find_primes_serial(n)

\* How often a number is dealt.
Dealt(m) == Cardinality({place \in Thread \X (1 .. n + 1) :
                           LET mine == thread_assignments[place[1]]
                           IN  place[2] \in DOMAIN mine /\ mine[place[2]] = m})

\* When the threads start, every number from 1 to N belongs to exactly one of
\* them; the only other number that is dealt is the naive setup's 0.  An overflow
\* of total_work (static.cpp:113) makes the shares unequal, or negative, but loses
\* and repeats no number.
NumbersAreDealt ==
  phase = "count" =>
    /\ \A m \in 1 .. n : Dealt(m) = 1
    /\ \A u \in Thread : Range(thread_assignments[u]) \subseteq 0 .. n

\* The last thread takes everything that is left, which the comment on it says
\* "shouldn't be too much": beyond its own share it gets what the rounding left, the
\* work of number 1, which is not in the total, and for each other thread less than the
\* smallest number that thread turned away.  This needs a total that a long can hold.
LastShareIsBounded ==
  LET last  == Range(thread_assignments[LastThread])
      share == SumFunction([m \in last |-> Work(m)])
  IN  phase = "count" /\ t = NUM_THREADS /\ last # {} /\ all_work <= LONG_MAX =>
        share <= work_per_thread + (total_work % NUM_THREADS) + Work(1)
                 + LastThread * (Work(Min(last)) - 1)

-------------------------------------------------------------------------------
(***************************************************************************)
(* The inductive invariant behind NumbersAreDealt and ResultIsExact: which *)
(* numbers are where while they are dealt, and what the total holds.       *)
(***************************************************************************)

\* What the naive setup gives to thread u.
NaiveRun(u) == FromTo(u * nums_per_thread,
                      IF u = LastThread THEN n ELSE u * nums_per_thread + nums_per_thread - 1)

NaiveInv ==
  phase = "naive" =>
    /\ t \in Thread
    /\ next_number = t * nums_per_thread
    /\ \A u \in Thread : thread_assignments[u] = IF u < t THEN NaiveRun(u) ELSE << >>

\* Some thread was given m.
IsDealt(m) ==
  \E u \in Thread : \E j \in DOMAIN thread_assignments[u] : thread_assignments[u][j] = m

DealtOnce ==
  \A u, v \in Thread :
    \A j \in DOMAIN thread_assignments[u], k \in DOMAIN thread_assignments[v] :
      thread_assignments[u][j] = thread_assignments[v][k] => u = v /\ j = k

\* The greedy setup deals the numbers downwards, the j-th of a thread is at most n - j + 1,
\* and what is not dealt is in `numbers'.  The last thread passes none of them over.
GreedyInv ==
  phase = "greedy" =>
    /\ t \in Thread
    /\ DealtOnce
    /\ \A u \in Thread :
         /\ u > t => thread_assignments[u] = << >>
         /\ \A j \in DOMAIN thread_assignments[u] :
              /\ thread_assignments[u][j] \in 1 .. n - j + 1
              /\ thread_assignments[u][j] \in numbers <=> u = t
    /\ \A j \in DOMAIN thread_assignments[t], m \in unseen : thread_assignments[t][j] > m
    /\ \A m \in (1 .. n) \ numbers : IsDealt(m)
    /\ t = LastThread => \A m \in numbers \ unseen : IsDealt(m)

\* No number is dealt twice, and none from 1 to n is left out.
DealtInv ==
  phase = "count" =>
    /\ DealtOnce
    /\ \A u \in Thread : \A j \in DOMAIN thread_assignments[u] :
         thread_assignments[u][j] \in 0 .. n /\ j <= n + 1
    /\ \A m \in 1 .. n : IsDealt(m)

\* The numbers whose primes are in the total.
Added ==
  {m \in 1 .. n : \E u \in Thread :
     state[u] = "finished" /\ m \in Range(thread_assignments[u])}

CountInv ==
  /\ prime_count = Cardinality({m \in Added : is_prime(m)})
  /\ \A u \in Thread :
       /\ state[u] = "unborn" <=> u >= started
       /\ u < joined => state[u] = "finished"
  /\ phase # "count" => started = 0

IInv == TypeOK /\ NaiveInv /\ GreedyInv /\ DealtInv /\ CountInv

-------------------------------------------------------------------------------

\* What PrimeCount calls left: the numbers that no thread has added to the total yet.
NotAdded ==
  {m \in 1 .. n : phase = "count" =>
     \E u \in Thread : state[u] # "finished" /\ m \in Range(thread_assignments[u])}

===============================================================================
