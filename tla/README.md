# A TLA+ project for parallel-kmeans

The repository holds two small programs. `kmeans` (with `test-kmeans`) clusters
points serially and with TBB; `prime` counts primes serially, with static and
dynamic load balancing on `std::thread`, and with TBB. A copy of oneTBB's headers
comes with them. This directory models both programs and the two parts of TBB that
they rest on, `parallel_for` and `concurrent_vector`; model-checks them with TLC;
and proves the main safety properties of the programs with TLAPS for every size.
Paths below are relative to the root of the repository.

    tlc -workers 2 -config MCParallelKMeans.cfg MCParallelKMeans.tla
    tlapm ParallelKMeansProofs.tla

## Inventory

| component | source | state | operations | modelled in |
|---|---|---|---|---|
| parallel k-means | `include/kmeans/parallel.hpp` | `points[].id_cluster`, `clusters[]` (center, list of points), `remove_vec`, `add_point_to_cluster`, `done`, `iter` | `run`: draw first members; loop of three `parallel_for`s; `removePoints`; `getIDNearestCenter` | `ParallelKMeans` (with `KMeansBase`) |
| serial k-means | `include/kmeans/serial.hpp` | the same without the vectors | `run`, `removePoint`, `getIDNearestCenter` | `SerialKMeans` |
| distances, means | both headers | none | squared distance (plain; SSE2), mean | `KMeansArith`, `RoundedArith` |
| points, sizes | `include/kmeans/point.hpp`, `include/constants.hpp` | id, cluster, values | getters and setters | variables and constants of the above |
| test driver | `src/kmeans/test.cpp` | `cin` and what is read from it; two copies of the points; the map of cluster ids | read; two runs from one seed; comparison | `ReadPoints`, `KMeansTest`, `Comparison` |
| benchmark driver | `src/kmeans/main.cpp` | the points and their copies, the random numbers, one object per run | read; two benchmarks of several runs each | `ReadPoints`, `KMeansMain` |
| `Benchmark` | `include/benchmark.hpp` | list of durations | warm-up loop, measured loop, median | `Benchmark` |
| serial prime count | `src/prime/serial.cpp` | the divisor | `is_prime`, `find_primes_serial` | `PrimeBase`, `PrimeTest` |
| dynamic prime count | `src/prime/dynamic.cpp` | atomics `next_index`, `prime_count`; private counts | start, fetch, test, add, join | `PrimeDynamic` |
| static prime count | `src/prime/static.cpp` | the numbers of each thread; atomic `prime_count` | `setup_static_naive`, `setup_static`, `find_primes_static` | `PrimeStatic` |
| TBB prime count | `src/prime/tbb.cpp` | subranges, atomic `prime_count` | split, count, add | `PrimeTbb` |
| prime driver | `src/prime/main.cpp` | none | five benchmarks of one N | not modelled, see below |
| profiler | `include/kmeans/profiler.hpp` | none | read the clock | not modelled, see below |
| `tbb::parallel_for` | `parallel_for.h`, `partitioner.h`, `blocked_range.h` | tasks with ranges, partition objects and pools; the tree of reference counts; the affinity slots | execute, split, balance, offer, fold, cancel | `ParallelFor` |
| `tbb::concurrent_vector` | `concurrent_vector.h`, `detail/_segment_table.h` | size, the table of segments in use, the segments | `push_back`, replacement of the table, reading back | `ConcurrentVector` |
| the rest of oneTBB | `oneapi-tbb-2022.2.0` | | | not modelled, see below |

How they interact. `main.cpp` and `test.cpp` read the points and hand copies of them
to a `KMeans` object. `test.cpp` seeds `rand`, runs the serial program on one copy,
seeds again, runs the parallel program on another, and compares `getCluster()` point
by point. Inside the parallel run, the main thread and the tasks of one
`parallel_for` at a time share the clusters and the `concurrent_vector`s. The prime
counters share their atomics and nothing else; `prime/main.cpp` compares every count
with that of `find_primes_serial`.

What is hard: the interleaving of tasks that write several shared vectors, a
flag written without synchronisation, decisions taken from a center computed
before them, the order in which concurrent additions leave a list, ties,
clusters that become empty, rounding, an index shared by threads that overshoots
its vector, wrapping and truncating integers, unchecked input, objects and random
numbers that outlive a run; and below the programs, a tree of reference counts that
grows while it is folded, a table that is replaced while others write to it, and
exceptions in the middle of both. `PROJECT.json` lists each under `hazards`, with the
line and the properties that would catch it going wrong.

## Modules

| layer | abstract | detailed | base and data |
|---|---|---|---|
| k-means | `Lloyd` | `SerialKMeans`, `ParallelKMeans` | `KMeansBase`, `KMeansArith`, `RoundedArith` |
| programs around it | | `KMeansTest` (composes `SerialKMeans`, `ParallelKMeans`, `Comparison`), `KMeansMain` (composes `Benchmark`), `ReadPoints` | |
| primes | `PrimeCount` | `PrimeDynamic`, `PrimeStatic`, `PrimeTbb`, `PrimeTest` | `PrimeBase` |
| oneTBB | `ParallelLoop`, `AppendVector` | `ParallelFor`, `ConcurrentVector` | |

The abstract modules of the last row are what the other layers assume of TBB, and the
detailed ones are shown to implement them: `ParallelKMeans` takes every index of a
loop as a task of its own, which begins, and ends before the loop returns
(`ParallelLoop`), and a push as one step after which the item is in the vector
(`AppendVector`). The layers are checked one at a time and not in one state space.

`KMeansBase` holds what both k-means programs share. The arithmetic is a
parameter (`CenterAt`, `DistSq`, `MeanOf`), so that everything proved holds for
any: nothing in the control of the programs depends on it. `getIDNearestCenter` is
the scan with its strict comparison, as a recursive function. `FirstPhase` is the
early return of `run` when there are more clusters than points: the three `Init`s
that use it start in phase `"done"` then.

`Lloyd` is the abstract specification: seed, assign every point, move every
center, stop or repeat. A cluster is a set of points, and a center may be the
mean of any enumeration of them, since the order of addition is not promised. What
Lloyd's iteration means for the clustering (the cost, the fixed point) is checked
through `SerialKMeans`, which implements it.

`SerialKMeans` has one action per turn of a loop of `run`.

`ParallelKMeans` has one action per step of a task that other tasks can see:

| code (`parallel.hpp`) | action |
|---|---|
| 128-147 early return; draw a first member | `FirstPhase`; `SeedCluster` |
| 153-163 fresh flag and vectors | `StartIteration` |
| 173-176 nearest center is the point's own | `StayInCluster` |
| 173-180 another is nearer; push to `remove_vec` | `LeaveCluster` |
| 184-187 set cluster, push to `add_point_to_cluster` | `JoinCluster` |
| 189 write `done` | `ClearDone` |
| 193 the first loop returns | `AssignJoin` |
| 41-48 inner loop of `removePoints` | `BeginRemovePoints`, `ScanPoint` |
| 50, 210-212 replace the list, add the new points | `FinishAdjust` |
| 214 the second loop returns | `AdjustJoin` |
| 224-237 new center | `RecalculateCenter` |
| 241-249 stop or go on | `Break`, `NextIteration` |

Steps are joined where no other task can tell the difference: `setCluster`
writes an object only its own task touches, and a task of the second or third
loop owns its cluster. A point is its index and the copies in the lists are not
distinguished: only their id and values are read, and those never change.

`KMeansTest` composes serial run, parallel run and `Comparison` (the loop of
`test.cpp`), with one sequence of draws for both runs. `KMeansArith` gives exact
arithmetic (centers in units of 1/SCALE; the SSE2 lanes spelled out), and
`RoundedArith` a binary floating point with PRECISION bits.

`ReadPoints` is the loop that both drivers read the data set with: tokens that are
numbers or not, a stream that stays failed after the first that is not, variables
that keep what they had or were never set.

`KMeansMain` has the two benchmarks of `main.cpp` with `Benchmark`'s loops, clock
and median. A run is its draws of first members and then any clustering; which one
is what the k-means modules are about. The random numbers are one sequence that
`srand` starts over.

`PrimeDynamic` has one action per access to an atomic; `tested_by` is a history
variable. `PrimeStatic` has one action per turn of a loop of the two setups, and
then the threads; sums of work wrap around at LONG_BITS. `PrimeTbb` starts from one
range and allows any splitting. `PrimeTest` is the loop of `is_prime`, with an `int`
divisor of INT_BITS for a `long` argument; the other modules call the function that
it computes where nothing overflows.

`ParallelFor` has one action per turn of a loop or access to shared memory of a task:

| code | action |
|---|---|
| `parallel_for.h` `execute`; `partitioner.h` `check_being_stolen`, `note_affinity` | `Execute` |
| `partitioner.h` the splitting loop of `execute`, `offer_work` | `SplitRange` |
| `work_balance`, a range or depth that is used up | `RunWhole` |
| `work_balance`, its ring of ranges (`range_vector`) | `FillPool`, `Balance` |
| the condition of its loop, after a `continue` and after a body | `Continue`, and in `EndBody` (`Rest`) |
| the body returns or throws | `EndBody`, `Throw` |
| `fold_tree`, `finalize`, `cancel` | `Fold`, `Cancel` |
| the caller's wait | `Return` |

A task is named by the first index of its range, a tree node by the right child it is
made for. When a spawned task starts, and whether another thread has taken it, is
nondeterministic: the scheduler is not in the headers. Once a body has thrown the group
is cancelled, and every turn of `work_balance` ends in a test of that: a task that has
just run a part, has just offered one, or only wants another turn leaves the loop, drops
what is left in its pool and goes to `finalize`. A task that has not started is not
executed (`Cancel`).

`ConcurrentVector` has one action per access to shared memory of `push_back`, in the
order of the code: claim an index, look the segment up in the table, extend the table
or wait for the one who does, allocate the segment or wait, construct. An allocation
may fail wherever the code allocates, and so may the copying of an item
(`ConstructThrows`), since a `Point` holds a vector and a string. `CopyTable` and
`MarkFailed` take all slots in one step where the code goes from slot to slot.
That joins no steps that matter: a slot of the embedded table that is not empty changes
only after segment 0 has failed, and from then on no property and no part of the
invariant says of a slot other than segment 0's more than that it is not empty, or that
a block in it has been stored there.

`MCPrimes` and `MCDriverParts` put components that share no state into one run: an
additional variable (`counter`, `part`) chooses at the start which of them a behaviour
is about, and the others keep their initial state. Nothing is gained or lost by that
but the number of runs. `MCParallelFor` chooses the partitioner in the same way.

Operators whose comment begins with "A slip" are faulty variants of the operator
that follows them. No specification uses them; putting one in the place of its
original makes a property fail, which shows that the property depends on it
(`mutants` in `PROJECT.json`).

## Runs

| run | instance | shows |
|---|---|---|
| `parallel` | 4 points, 3 clusters, 3 iterations, three data sets with coordinates 0..4 | every interleaving: `IInv` and what it implies, lists agree with points, the flag is exact, no stale move; the program implements `Lloyd` and ends |
| `serial` | 4 points, 3 clusters, 5 iterations, all data sets with coordinates 0..2 | `IInv`; the cost never rises; the program stops because nothing moves, at a fixed point, with its tie and empty-cluster rules; it implements `Lloyd` |
| `driver_parts` | all pairs of clusterings of 4 points into 3; all inputs of up to 9 tokens for 3 points of 2 values, with names and without; benchmarks of 2 points, 2 clusters, 1 warm-up run, 3 measured runs, clock up to 2, all sequences of 11 random numbers | PASSED means: together in serial implies together in parallel; what the number of differences counts; what unchecked input leaves in values and names; no run sees what an earlier one left; both benchmarks start corresponding runs alike; the median |
| `comparison_passed` | the same | a finding, see below |
| `kmeans_test` | 3 points with 3 features, 2 clusters, 2 iterations, 5 data sets | with exact arithmetic both runs agree in clusters, centers and iterations, whatever the interleaving; the test passes |
| `kmeans_test_crowded` | the same with 4 clusters | with more clusters than points both runs return at once and the test ends |
| `kmeans_rounded` | 4 points, 2 clusters, floats of 3 bits | a finding, see below |
| `primes` | 3 threads; `long` of 9 bits, `int` of 3; N from -1 to 5 (dynamic), -7 to 26 (static), -1 to 6 (TBB), -2 to 31 (`is_prime`) | every count is exact, no number twice, bounded overshoot, every number dealt to one thread even when the work overflows, the answer of `is_prime` under an overflowing divisor; each count implements `PrimeCount` and returns |
| `prime_tbb_wrapped` | N = -2, size_t of 5 bits | a finding, see below |
| `parallel_for` | 6 indices; affinity: concurrency 2, factor 2, pool of 3, the body may throw; auto: one chunk, pool of 2 | reference counts are exact, the caller is released when nothing is left, also when a body has thrown while others balance, the casts and the depth byte are safe, slots do not overlap, each index is given out once; implements `ParallelLoop`, so it returns |
| `concurrent_vector` | 6 pushes, an embedded table of 2, allocations may fail | nothing is constructed outside of a block, what was pushed can be read, no leak, after failures a reader stays inside what exists and misses only what lies behind a failed segment; implements `AppendVector`, so no push waits for ever |

Why the bounds are enough.

- k-means: three clusters let a center lose all its points while points move between
  the other two, and four points let two of them leave the same cluster, join the
  same cluster, or cross, with a third standing still; ties and equal points occur in
  the data. The three data sets of `parallel` were chosen for that: in
  `0, 1, 2, 4` points move several at a time and in more than one iteration, in
  `0, 0, 4, 4` a cluster gets nothing, and `4, 4, 3, 1` is still moving when the limit
  of three iterations stops it. `serial` goes through all data sets of a smaller grid,
  and its five iterations are more than it ever needs (three), so that every run has to
  converge. In `kmeans_test` the limit of two cuts some of the runs short and lets
  others converge. The proofs show that safety does not depend on these sizes.
  Three features have one SSE2 pair and one left over. SCALE is divisible by every
  cluster size, so means are exact.
- input: nine tokens are what three points with names take, so every token of a
  complete input can be the bad one, and every shorter input occurs. The numbers are
  one value; where a number goes is told by which position it is read from.
- benchmarks: eleven random numbers let a run draw the same point several times and
  still leave enough for the next ones; sequences that run out end the behaviour in
  the middle of a draw.
- primes: three threads and N up to 5 let a thread start after all numbers are gone;
  N = -1 and 0 give an empty vector. In the naive setup N below 0, below the number of
  threads, and not divisible by it all occur. With 9 bits the total work fits up to
  N = 14, wraps around to a negative number up to 23 and to a positive one after
  that. With 3 bits an `int` ends at 3, and `is_prime` goes on to 25, whose only
  proper divisor, 5, it cannot hold.
- `parallel_for`: six elements are split proportionally and by halves, fill a pool of
  three completely, are offered from its front and run from its back, with a child
  stolen or not at each place; smaller ranges are what the children have. The constants of the
  library are scaled down in the same relations (the pool has more room than the
  initial depth). A body may throw with the affinity partitioner only, which reaches all
  of `work_balance`; `ParallelForProofs` has it with both.
- `concurrent_vector`: an embedded table of 2 segments holds 4 elements, so the fifth
  push replaces it and the sixth waits for that; segment 0 has two pushes that race
  for it, segment 1 has one that allocates and one that waits, and so has segment 2 in
  the long table.

`CHECK_DEADLOCK FALSE` is set because every program stops when it is done; where
a program must get there, `Termination`, `TestEnds`, or the liveness of the abstract
specification says so.

Fairness. `Main` and each task or thread are weakly fair: the operating system
schedules threads, and `parallel_for` runs every index of its range. The draw of
a first member is a step only when it hits a free point; that `rand()` hits one
sooner or later is part of the fairness of `Main` (a draw that misses is a
stuttering step). The sequential programs (`SerialKMeans`, `KMeansTest`,
`Comparison`, `PrimeTbb`, `PrimeTest`) are weakly fair as a whole. In `ParallelFor`
only the whole is fair: as long as there is a task, some thread runs one, because the
caller itself takes what no worker took. In `ConcurrentVector` some push that can go
on does; a push that waits is not enabled, so the run shows that the wait ends, and
does not show that spinning is fair to the one waited for on a loaded machine.
`KMeansMain` and `ReadPoints` are checked for safety only.

## Findings

- `comparison_passed`: the comment at `src/kmeans/test.cpp:64` asks for the same
  collections of points. The test also prints PASSED when the parallel clustering
  has merged two serial clusters: the map of ids is not checked to be injective.
- `kmeans_rounded`: with floating-point arithmetic the test can fail on correct
  programs. Concurrent tasks leave the points of a cluster in another order than
  the serial program, the rounded means differ in the last bit, and a point
  halfway between two centers goes the other way. It happens with doubles: points
  0.0, 0.1, 0.2, 0.6, 1.2, 1.5, the first two drawn first.
- `prime_tbb_wrapped`: for N <= -2, `find_primes_tbb` converts N + 1 to a `size_t`
  and counts over almost all of its range, where the other counts are 0.

Also seen, and not runs of their own:

- The example in the comment at `src/prime/static.cpp:116` gives 1 782 293 665 as the
  work for a million, where the code computes 500 010 499 989. With shares that are
  small against single numbers (N = 16 on 16 threads) the last thread is dealt two
  thirds of the work, though line 153 expects that not to be "too much".
  `LastShareIsBounded` says what the code does guarantee.
- When the total work overflows a `long`, the shares are wrong but `NumbersAreDealt`
  still holds: only the balance is lost.
- A data set that is too short is not noticed: `Spoilt` and `Stale` say exactly what
  the points then are. With `HAS_NAME` false, as in `constants.hpp`, a data set with
  names is spoilt from the first name on. The branch that reads names, and what `Stale`
  says of it, is dead as the program is shipped, and nothing calls `getName`.
- The comment at `serial.hpp:128` speaks of K distinct values. The code draws K
  distinct indices, as the model does, and points with equal values may be drawn.
- In `concurrent_vector.h`, a push that fails to allocate segment 0 writes the failure
  tag into the whole embedded table, over segments that other pushes may have stored
  there. The items are lost to the reader, and the memory to the destructor, which is
  why `ReturnedIsReadable` and `NoBlockLeaks` speak of runs in which no allocation
  fails. What a reader may rely on after that is `ReaderStaysInside`: an item whose push
  returned is missing only behind a segment that could not be had, and an item that
  never was is zeroed, unless it is in segment 0, where one push can throw although the
  other has the segment, and leaves its place as it was allocated. The program does
  not catch `bad_alloc`, so it does not read such a vector.

## Proofs

All hold for every value of the constants under `SizesAssumption` (CLUSTERS at least
1, any number of points and iterations) and `ArithmeticAssumption` (the types of the
arithmetic; `KMeansTest` makes both assumptions for its two programs),
`ComparisonAssumption`, `ReadAssumption` and `MainAssumption` (the numbers of points, values,
clusters, runs, clock ticks and random numbers are natural numbers), `ThreadsAssumption`
and `WidthsAssumption` (at least one thread; arguments within the width of `long`),
`VectorAssumption` (any number of pushes, a place for at least one
segment in the vector itself), or `ParallelForAssumption` (any range; the default
partitioner's factor is 1, the affinity partitioner's more, as in `partitioner.h`).

- `CommonProofs`, the lemmas that several modules use. The scan for the nearest center
  returns the first at minimal distance (`ScanFindsFirst`). The recursive function is
  not unfolded by induction over data: that a function with its equations exists is shown
  directly, and the least counterexample closes the argument. `NearestIsFirstNearest`
  states the result of `getIDNearestCenter` in both k-means proof modules. Besides, lemmas
  on appending to and joining lists without repetitions; `InjectiveListEnumerates`: such a
  list is one of `Lloyd`'s enumerations of its range; least and largest elements,
  division; and powers of two, which the provers know nothing of: `PowerOfTwo` counts
  subsets. The last part is about sums over a finite set, which the community modules
  define by a fold: that the fold exists (`SumExists`), that any element may be
  added last (`SumStep`), and from there how sums split, compare and are renamed; and about
  sorting.
- `ParallelKMeansProofs`: `IInv` is inductive (`Invariant`), hence `TypeCorrect`,
  `PointsAreConsistent`, `DoneFlagIsExact` and the action property of `NoStaleMove`.
  `PointsMatchClusters` speaks only of the moments between the loops, so it is not
  inductive: `AssignInv` says, point by point, where a point is recorded before
  (`NotMoved`) and after (`Moved`) its task has moved it; `AssignJoin` turns `Moved`
  for all points into the premise of `AdjustInv`, "the points of a cluster are
  those in its list that are not leaving and those that are joining"; and
  `AdjustInv` follows the filtering loop (`Kept`) to the end, where the list is
  again the home of its points. `DoneInv` ties the flag to the vectors.
  `ParallelImplementsLloyd`, the safety part of
  `ImplementsLloyd`: the initial states are `Lloyd`'s, and each step is one of
  `Lloyd`'s or leaves what it sees alone. `IInv` is about where points are, and
  `Lloyd` also needs the centers: `SettledInv` adds that while first members are
  drawn, center k is at the k-th of them (`DrawnInv`), and that in the third loop a
  center that is done is the mean of the list of its cluster (`RecentredInv`). Two
  steps carry the weight. The last draw is `Lloyd`'s `Seed`, with the drawn points as
  the witness; and when the adjusting loop returns, all at once, the lists become
  the enumerations that `Recenter` takes the means of, in whatever order the
  tasks have pushed to them. All tasks before and between are stuttering steps.
  `CostFalls` and `IterationsAreBounded` are the results described below
  for the serial program: its lemmas on clusterings and costs are cited from
  `SerialKMeansProofs`, and the refinement carries them to every interleaving of the tasks.
- `SerialKMeansProofs`: `Invariant` for the serial `IInv` (with a lemma on what
  `removePoint` leaves of a list without repetitions), and `SerialImplementsLloyd`
  along the same lines. `StopsWhenSettled`: when the loop stops because `done` is still
  set, every point is nearest to its own center and every center is the mean of its
  cluster. Every center is a mean of its list from the first recalculation on
  (`MeansInv`), and while `done` is set nothing has moved since, so the points already
  looked at are where they belong (`NearestInv`). For a cluster that has only
  its first member it takes that the mean of one point is the point (`MeanOfOne`, which
  `MCSerialKMeans` has TLC evaluate).
- `SerialKMeansProofs`, about where the iteration leads. The hypothesis is
  `MeanIsCentral`: no center is nearer, in the sum of squares, to the points of a list than
  their mean. Exact arithmetic has it (`MCSerialKMeans` has TLC evaluate it for
  `KMeansArith`), rounded doubles need not, so these theorems say what the algorithm does
  and how far only rounding can be blamed. `CostFalls`: moving a point to its nearest
  center lowers its term of the cost or keeps it (`AssignLowersCost`), and the new
  centers are the best there are for the clusters (`RecenterIsOptimal`: the sum is split
  by clusters and each list renumbers its points).
  `IterationsAreBounded`: not the cost but the least cost of a clustering, over all
  centers, orders a run, because a pass over the clusters reaches it. A pass over the points
  that moves one then finds a clustering with a smaller least cost, or with the same one and
  points in lower clusters, since ties go to the lower cluster (`MovingIsBetter`). The
  invariant `DescendsInv` adds the number of the iteration to the number of clusterings
  that are still better and stays within all there are. This bound is far above any
  limit the program is given (10 in `constants.hpp`), so the limit may well come
  first. That a run which does stop by itself stops at a fixed point is
  `StopsWhenSettled`; that on small data it always does, before the limit,
  is left to the run `serial`.
- `KMeansTestProofs`, about the whole test: `TheTestPasses` and `ConcurrencyDoesNotShow`
  hold when arithmetic is exact. What exact means is two hypotheses of these theorems:
  the mean of a cluster does not depend on the order in which its points are added up
  (`MeansIgnoreOrder`), and both programs compute the same distances
  (`DistancesAgree`). TLC evaluates both for the data of `kmeans_test`, as `ASSUME`s
  of `MCKMeansTest` and `MCKMeansTestCrowded`; rounding breaks the first, which is what the run
  `kmeans_rounded` shows. The argument (`SameCourseThroughout`): by the refinement
  theorems both programs are Lloyd's iteration, and with exact arithmetic that has
  only one way to go from given first members. A *course* is the sequence of centers
  on it. The serial run makes the course as it goes (`CourseGrows`), the parallel run
  is at some place of it, before or after the assigning loop (`CourseIsFollowed`), and
  both can end only where the course settles or at the limit of iterations
  (`EndsAgree`), whatever the order of the tasks in between. Nothing is assumed
  about the draws except that both runs make the same, and with more clusters
  than points neither makes any.
  Without these hypotheses holds `VerdictIsOfTheResults`: in the test the loop runs over
  what both runs have left, so that with rounding, too, the verdict is right about the
  results. It takes the theorems on the verdict from `DriverPartsProofs`.
- `DriverPartsProofs`, about the two ends of the test. `VerdictIsCoarser` and
  `CountIsOfMisplaced` hold for the comparison of any two clusterings: the invariant
  `LoopInv` says that after i points the map sends exactly the clusters seen so far to the
  parallel cluster of their first point, and that the verdict and the count are right for
  those i points. `ValuesAreSpoilt` and `NamesAreStale` say what reading leaves of any
  input, with names and without. `ReadInv` is one invariant for both, with the first bad
  place of the input as a fixed point to look from: the place the loop is at follows
  from the numbers of points and values read, the stream has failed exactly when the loop
  is past the bad place, and until then as many tokens are taken as places are
  passed. What is recorded at a place (`ValueAt`, and the names) then depends only on
  whether it is before, at or after the bad one.
- About the benchmarks of `main.cpp`, also in `DriverPartsProofs`, for any numbers of points,
  clusters and runs and any random numbers. `RunsAreFresh` rests on `FreshInv`: what the
  copy of the points and the clusters of the object hold is what this run has drawn.
  `BenchmarksStartAlike` compares runs that are far apart in time, so both are compared
  with a third thing, the *course*: the lists of first members after 0, 1, 2, ... random
  numbers, which depends on the numbers alone. `DrawsInv` says that the benchmark in
  progress is where the course is after as many numbers as it has used, and that each
  benchmark has recorded complete lists from some place of the course; a complete list of
  the course stays (`CourseKeepsComplete`), so the two records cannot differ where both
  have a run. This takes that `srand` sets the parallel program back to the beginning.
  `MedianIsRight` needs that durations can be sorted (`SortingExists`) and what the
  middle of a sorted sequence is (`SortedHalves`, both in `CommonProofs`).
- `PrimesProofs`, about `PrimeDynamic`: `IInv` is inductive (`Invariant`,
  `TypeCorrect`). `IndexInv` says that positions below `next_index` are tested or held by
  exactly one thread (`NoNumberTwice`, `BoundedOvershoot`), `CountInv` that each
  private count and the total are the numbers of primes among the positions that the
  thread, or the finished threads, have tested, `PastInv` that a thread leaves the
  loop only at the end, once. `CountIsExact` then counts: when all threads are joined
  every position is tested, and position j holds n - j.
  `DynamicImplementsPrimeCount` is the safety part of `ImplementsPrimeCount` for this
  counter. What is left to add are the numbers that no finished thread has tested;
  publishing a private count is `AddSome` with the numbers of that thread, everything
  else but the last join is a stuttering step.
- About `PrimeStatic`: `EveryNumberIsDealt`. `NaiveInv` gives the run of each thread a
  first and a last number, so that the runs end to end are 1..N; `GreedyInv` says that
  each number is with one thread or still in the vector, and that a vector from
  which the skipped numbers have not yet been cut off holds each of them at one place.
  `DealtInv` is what both leave behind. Nothing is assumed of the shares
  themselves, which is why an overflow of `total_work` does no harm. The count
  (`Added`, `CountInv`) and `StaticImplementsPrimeCount` follow as for the dynamic one.
  `LastShare` is about the shares, when a long can hold the total. `SharesInv` ties
  `assigned_work` to the sum of what the thread was given and says that each number the
  thread has passed over would be too much for it, also later, since a share only grows.
  So in the end each number of the last thread is too much for every other one, which
  bounds the other shares from below; all the shares together are the total and the work
  of number 1, so they bound the last from above.
- About `PrimeTbb`: `RangesInv` says that the ranges that wait and the numbers that are
  counted part 1..N, so a split or a body cannot lose or repeat one;
  `TbbImplementsPrimeCount` assumes N >= -1, below which n + 1 wraps around
  (the run `prime_tbb_wrapped`).
- About `PrimeTest`: `AnswersAreSound`. `Scanned` says that no divisor below i has been
  found, `Wrapped` that a divisor that has overflowed is negative, and -1 divides
  everything, so the loop never gets to 0. `OthersExact`
  collects what `OthersAreExact` says.

- `ConcurrentVectorProofs`: `IInv` is inductive (`VectorInvariant`), for every number of
  pushes, every size of the embedded table, and with failures. Where an index is
  comes first: `segment_index_of` is a `CHOOSE` whose witness has to be shown to
  exist (`SegmentOfIndex`), and `BeforeSegment`, i < segment_base(s) iff Seg(i) < s,
  carries everything else. Then, part by part: a block in a slot is of
  that segment and stays (`SlotInv`), the slot a push is about to fill is empty unless
  segment 0 has failed (`AllocateInv`), the long table agrees with the embedded
  one from the moment it is copied, before it is published (`TableInv`), nobody with the
  long table is about to create a segment that the embedded one has (`WhereInv`),
  and a failure is known to a push that has thrown or is about to
  (`FailureInv`). All of it has to hold after failures, too. What keeps it simple is
  that the failure of segment 0 is for good and in every table (`Spoiled`): until then a
  slot that is filled stays as it is, and after it nothing is readable at all, since
  `capacity` is 0. `ThrewInv` adds why a push has thrown and that the trace of it
  stays (`Cause`). `ItemsGoIntoSegments`, `ReturnedItemsAreReadable` and `BlocksAreKept`
  follow. For `ReaderStays` what a reader sees has its block by what `capacity` is
  (`CapacityMeans`, `SeenIndices`). An item it misses lies at or beyond the first segment
  that is missing: were that slot empty rather than failed, the push whose index is the
  base of the segment would have ended without leaving a trace (`MissingIndices`).
  `ConcurrentImplementsAppend`, the safety part of
  `ImplementsAppendVector`: claiming an index is taking a place, the last step of
  a push ends it, and a reader that no push has failed finds size = my_size.
- `ParallelForProofs`: `IInv` is inductive (`ForInvariant`), for any range, both
  partitioners and every value of their constants, with a body that may throw.
  Every action is of one of two kinds as far as the indices are concerned: it makes
  no task, and keeps what the task holds, gives it up or runs the body on a part of it
  (`Works`), or it makes one, and parts what the task holds in two (`Shares`). Leaving the
  balancing loop of a cancelled group is of the first kind (`ContinueWorks`): the task
  gives up its pool and keeps its reference until it folds. The
  arithmetic is in the lemmas under these: a proportional split leaves neither part
  empty whatever the rounding (`ProportionalMiddleInside`), `split_to_fill` fills the
  pool with the range it takes out (`SplitToFill`). `RangeInv` names a task by where its
  range begins, and `FreshInv` says that the index a new task is named by has none
  yet. `CastsAreSafe` needs that a pool is never deeper than its task
  (`GoodPool`) and that a task without a tree node above has all its slots
  (`PartitionInv`).
  For the tree (`CountsAreExact`, `ReleasedIsQuiet`), `NodeInv` says that any set
  of nodes has one whose parent is outside; so when the wait_node's count is zero there
  is no node left, and no task, for each would keep a node. `SlotInv` gives
  every task an interval of the affinity array, going round, in which the others have
  none and nothing is noted; a split gives away the end of it
  (`SlotsAreNotedOnce`). `TasksImplementLoop` is the safety part of
  `ImplementsParallelLoop`: a body that begins is `Begin`, one that ends or throws is
  `End`, all splitting, stealing and folding stutters.

Only model-checked: liveness (`Termination`, `TestEnds`, the liveness of the four
abstract specifications), which is out of reach of the prover; that the arithmetic of
`KMeansArith` has the properties that theorems assume of it (`MeanOfOne`,
`MeanIsCentral`, `MeansIgnoreOrder`, `DistancesAgree`), which TLC evaluates.
`CastsAreValid` of the run `parallel_for` speaks of two sets of constants at once;
`CastsAreSafe` proves it for each.

## Not modelled

- Most of oneTBB. The program calls `parallel_for`, `blocked_range`, the default and the
  affinity partitioner, and `concurrent_vector`'s `push_back`, iteration and index;
  these are modelled. The headers hold more than ten times as much: flow graphs, hash maps,
  ordered and unordered containers, queues, skip lists, pipelines, reductions, scans,
  sorting, mutexes. They are included through `tbb/tbb.h` and no file of the program
  uses them, so they have no behaviour here. Of the two that are modelled, the
  operations that the program never calls are left out (the simple and the static
  partitioner, ranges of two and three dimensions, a step; `grow_by`, `reserve`,
  `resize`, `shrink_to_fit`, copying, swapping), and so are `clear` and the destructor,
  which run when nothing else does.
- What the headers only declare: the task scheduler, the arena and the allocator. They are
  the nondeterminism of when a task starts, who takes it, and whether an allocation
  fails. Atomic operations are taken to be sequentially consistent.
- The prime driver: it parses one number and hands it to the five benchmarks; its lambdas
  capture by value and only read, its check is the comparison that `ResultIsExact` and
  `OthersAreExact` state, and the loop around it is `Benchmark`.
- The profiler, printing and wall-clock times; the minimum, maximum and average of
  `Benchmark`.
- Overflow of the `int` that counts primes (it takes more primes than there are up to
  5·10^10), and failure to create a thread.
- The square roots of the serial program against the squares of the parallel one in
  isolation: `kmeans_rounded` has both, but the order of additions violates its
  property first.

## Plan

1. (done) `KMeansBase`, `Lloyd`, `SerialKMeans`, `ParallelKMeans`, with safety
   proofs for the parallel program; `Comparison`, `KMeansTest` and the rounding
   run; `PrimeDynamic` with proofs; `PrimeStatic`, `PrimeTbb`.
2. (done) The early return for too many clusters; the widths of `long` and `int` in
   `PrimeStatic` and `PrimeTest`; `PrimeCount`; the drivers and `Benchmark`;
   `ParallelFor` and `ConcurrentVector` with their abstract specifications; the
   refinement proofs of both k-means programs and of the dynamic count, the serial
   invariant and the verdict.
3. (done) `PrimesProofs`: the other counters and the primality test;
   `ConcurrentVectorProofs`; `ParallelForProofs`; `KMeansTestProofs`, which joins the
   refinements of both programs to a theorem about the whole test; the fixed point;
   `DriverPartsProofs`, the verdict, the reading and the benchmarks; the cost of a
   clustering and the bound on the iterations of both k-means programs; the last share
   of the static count.
4. Left to model: several `concurrent_vector`s under one `parallel_for` in one state space,
   as a check that the layers fit; a rounding run that isolates the square root.
