-------------------------------- MODULE MCPrimes --------------------------------
(***************************************************************************)
(* The prime counters of src/prime and the primality test they share, in   *)
(* one run: a behaviour is one call of one of them, on small numbers that  *)
(* bring about what is hard for that one.  PrimeDynamic is the module that *)
(* is extended, so that its properties go by their own names; the others   *)
(* have variables of their own, and what is not called stays as it was.    *)
(***************************************************************************)
EXTENDS PrimeDynamic

VARIABLES
  counter,   \* which call this is: "dynamic", "static", "tbb" or "test"
  s_phase, thread_assignments, s_t, numbers, unseen, assigned_work, next_number,
  s_started, s_state, s_joined, s_prime_count,
  waiting, counted, t_prime_count, returned,
  q_i, result

dynamicVars == <<nums, next_index, prime_count, started, joined, state, index, local_count,
                 tested_by>>
staticVars  == <<s_phase, thread_assignments, s_t, numbers, unseen, assigned_work, next_number,
                 s_started, s_state, s_joined, s_prime_count>>
tbbVars     == <<waiting, counted, t_prime_count, returned>>
testVars    == <<q_i, result>>
mcVars == <<counter, n, dynamicVars, staticVars, tbbVars, testVars>>

Stat == INSTANCE PrimeStatic WITH
       phase <- s_phase, t <- s_t, started <- s_started, state <- s_state, joined <- s_joined,
       prime_count <- s_prime_count
Tbb == INSTANCE PrimeTbb WITH prime_count <- t_prime_count
Test == INSTANCE PrimeTest WITH i <- q_i

\* With a long of 9 bits the total work of the static setup fits up to 14, wraps around
\* to a negative number up to 23, and to a positive one after that.  The test goes on
\* to the composite number 25, whose divisors an int of 3 bits cannot hold.
MCInputs == -7 .. 31

InputsOf ==
  [c \in {"dynamic", "static", "tbb", "test"} |->
     CASE c = "dynamic" -> -1 .. 5
       [] c = "static"  -> -7 .. 26
       [] c = "tbb"     -> -1 .. 6
       [] c = "test"    -> -2 .. 31]

MCInit ==
  /\ counter \in DOMAIN InputsOf
  /\ Init /\ Stat!Init /\ Tbb!Init /\ Test!Init
  /\ n \in InputsOf[counter]
  /\ counter # "static" => s_phase = "naive"

-------------------------------------------------------------------------------

Dynamic(step) ==
  counter = "dynamic" /\ step /\ UNCHANGED <<counter, staticVars, tbbVars, testVars>>

Static(step) ==
  counter = "static" /\ step /\ UNCHANGED <<counter, dynamicVars, tbbVars, testVars>>

\* The threads of find_primes_dynamic and find_primes_static.
MCRun(u) == Dynamic(Run(u)) \/ Static(Stat!AddLocalCount(u))

MCMain ==
  \/ Dynamic(StartThread \/ JoinThread)
  \/ Static(Stat!Main)
  \/ counter = "tbb"  /\ Tbb!Next /\ UNCHANGED <<counter, dynamicVars, staticVars, testVars>>
  \/ counter = "test" /\ Test!Next /\ UNCHANGED <<counter, dynamicVars, staticVars, tbbVars>>

MCNext == MCMain \/ \E u \in Thread : MCRun(u)

\* As each of the counters assumes for itself.
MCSpec ==
  MCInit /\ [][MCNext]_mcVars /\ WF_mcVars(MCMain) /\ \A u \in Thread : WF_mcVars(MCRun(u))

-------------------------------------------------------------------------------
(* The properties of the instances, and what all the counters promise.     *)

\* The other counters return the serial count too, whatever the assignment of the
\* numbers to threads or the splitting of the range; the invariants that show it.
OthersAreExact ==
  /\ Stat!IInv /\ Stat!ResultIsExact
  /\ Tbb!IInv /\ Tbb!ResultIsExact
  /\ Test!IInv

\* See PrimeStatic: every number is dealt to one thread, and the last thread's share.
NumbersAreDealt    == Stat!NumbersAreDealt
LastShareIsBounded == Stat!LastShareIsBounded

\* See PrimeTest: what the overflow of the divisor can do to the answer.
AnswerIsSound == Test!AnswerIsSound

\* Each counter does what PrimeCount promises, and returns; the test of one number
\* adds nothing up and returns.
PC == INSTANCE PrimeCount WITH
        n        <- IF counter = "test" THEN 0 ELSE n,
        left     <- CASE counter = "dynamic" -> NotAdded
                      [] counter = "static"  -> Stat!NotAdded
                      [] counter = "tbb"     -> Tbb!NotAdded
                      [] counter = "test"    -> {},
        count    <- CASE counter = "dynamic" -> prime_count
                      [] counter = "static"  -> s_prime_count
                      [] counter = "tbb"     -> t_prime_count
                      [] counter = "test"    -> 0,
        returned <- CASE counter = "dynamic" -> Returned
                      [] counter = "static"  -> Stat!Returned
                      [] counter = "tbb"     -> returned
                      [] counter = "test"    -> result # "none"

ImplementsPrimeCount == PC!Spec

===============================================================================
