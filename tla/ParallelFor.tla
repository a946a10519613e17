------------------------------ MODULE ParallelFor ------------------------------
(***************************************************************************)
(* tbb::parallel_for over a blocked_range of N elements and grain size 1,  *)
(* as oneapi/tbb/parallel_for.h, partitioner.h and blocked_range.h run it  *)
(* with the two partitioners the program uses, auto_partitioner and        *)
(* affinity_partitioner.                                                   *)
(*                                                                         *)
(* A task (start_for) owns a range.  It splits off right halves as tasks   *)
(* of their own, each with a new tree node that becomes the parent of both *)
(* the new task and the splitting one; the root's parent is a wait_node on *)
(* the caller's stack.  A task that ends decrements the count of its       *)
(* parent, deletes the node if it was the last and goes on with the node   *)
(* above; the wait_node's count releases the caller.                       *)
(*                                                                         *)
(* A task is named by the first index of the range it is created with, the *)
(* root being 0, and a tree node by the right child it is created for; the *)
(* node named 0 is the wait_node.  Which thread takes a spawned task is    *)
(* not modelled, only whether it is another than the one that spawned it.  *)
(***************************************************************************)
EXTENDS Integers, SequencesExt, FiniteSetsExt

CONSTANTS
  N,                  \* the size of the range parallel_for is called with
  PARTITIONER,        \* which partitioner: "auto" or "affinity"
  MAX_CONCURRENCY,    \* max_concurrency() of the arena
  FACTOR,             \* affinity_partition_type::factor, 1 for auto
  INITIAL_CHUNKS,     \* __TBB_INITIAL_CHUNKS
  INIT_DEPTH,         \* __TBB_INIT_DEPTH, for affinity factor_power + 1
  DEMAND_DEPTH_ADD,   \* __TBB_DEMAND_DEPTH_ADD
  POOL_CAPACITY,      \* __TBB_RANGE_POOL_CAPACITY
  CAN_FAIL            \* may the body throw?

ASSUME ParallelForAssumption ==
  /\ N \in Nat
  /\ PARTITIONER \in {"auto", "affinity"}
  /\ {MAX_CONCURRENCY, FACTOR, INITIAL_CHUNKS, DEMAND_DEPTH_ADD} \subseteq Nat \ {0}
  /\ {INIT_DEPTH, POOL_CAPACITY} \subseteq Nat \ {0}
  /\ CAN_FAIL \in BOOLEAN
  /\ PARTITIONER = "auto" => FACTOR = 1
  /\ PARTITIONER = "affinity" => FACTOR > 1 /\ INIT_DEPTH < POOL_CAPACITY

VARIABLES
  state,          \* per task: where in its life it is
  range,          \* per task: my_range, as <<begin, end>>
  partition,      \* per task: my_partition
  pool,           \* per task: the range_vector of work_balance, front to back
  parent,         \* per task: my_parent
  above,          \* per node: my_parent
  ref_count,      \* per node: m_ref_count; 0 when the node does not exist
  child_stolen,   \* per node: m_child_stolen
  folding,        \* per task: the node fold_tree is at
  my_array,       \* the partitioner's slots: who noted its affinity there
  m_wait,         \* the count of the caller's wait_context
  begun,          \* the indices a call of the body has been given
  cancelled,      \* is_group_execution_cancelled()
  returned        \* has parallel_for returned?

vars == <<state, range, partition, pool, parent, above, ref_count, child_stolen,
          folding, my_array, m_wait, begun, cancelled, returned>>

Index == 0 .. N - 1
Task  == Index
Node  == Index
Root  == 0
WaitNode == 0
NoTask == -1

\* The size of the array of an affinity_partitioner, and my_max_affinity.
Slots == IF PARTITIONER = "affinity" THEN MAX_CONCURRENCY * FACTOR ELSE 1

State == {"none", "spawned", "splitting", "balancing", "continuing", "body", "thrown",
          "folding", "dead"}

Live(t) == state[t] \notin {"none", "dead"}

Elements(r) == r[1] .. r[2] - 1

is_divisible(r) == r[2] - r[1] > 1

-------------------------------------------------------------------------------
(* Splitting a range and a partition object.                               *)

\* The size of the right part of a proportional split: size * right /
\* (left + right), in floating point, with 0.5 added before truncation.
RightPart(r, left, right) ==
  (2 * (r[2] - r[1]) * right + (left + right)) \div (2 * (left + right))

\* Where split and proportional_split cut a range.
Middle(r) == r[1] + (r[2] - r[1]) \div 2

ProportionalMiddle(r, divisor) ==
  LET n == divisor \div FACTOR
      right == n \div 2
  IN  r[2] - RightPart(r, n - right, right)

Partition == [divisor : Nat, max_depth : Nat, delay : {"begin", "pass"}, head : 0 .. Slots - 1]

\* A slip: the source keeps all of its slots.
KeptDivisor(p) == p.divisor

\* What a child is given when p is split by split or by proportional_split; the
\* source keeps the first slots of its part of the array.
HalfDivisor(p) == p.divisor \div 2

ProportionalDivisor(p) ==
  LET portion == ((p.divisor \div FACTOR) \div 2) * FACTOR + FACTOR \div 2
  IN  portion - (portion % FACTOR)

SplitSource(p) == [p EXCEPT !.divisor = HalfDivisor(p)]
SplitChild(p)  == [p EXCEPT !.divisor = HalfDivisor(p), !.delay = "pass",
                            !.head = (@ + HalfDivisor(p)) % Slots]

ProportionalSource(p) == [p EXCEPT !.divisor = @ - ProportionalDivisor(p)]
ProportionalChild(p)  ==
  [p EXCEPT !.divisor = ProportionalDivisor(p), !.delay = "begin",
            !.head = (@ + p.divisor - ProportionalDivisor(p)) % Slots]

\* is_divisible() of the partition object, and what it does to it.
PartitionDivisible(p) ==
  IF PARTITIONER = "auto" THEN p.divisor > 1 \/ (p.divisor = 1 /\ p.max_depth > 0)
                          ELSE p.divisor > FACTOR

AfterIsDivisible(p) ==
  IF PARTITIONER = "auto" /\ p.divisor = 1
    THEN [p EXCEPT !.max_depth = @ - 1, !.divisor = 0]
    ELSE p

-------------------------------------------------------------------------------
(* The pool of ranges of a task, each with its depth.                      *)

PoolDivisible(q, max_depth) == Last(q).depth < max_depth /\ is_divisible(Last(q).range)

\* split_to_fill splits the range at the back as often as the pool has room
\* for, the depth and the size of what is left allow.  Each time the right half
\* takes its place and the left half becomes the new back, so that after k times
\* size \div 2^k elements are left there.
Splits(q, max_depth) ==
  LET back == Last(q)
      size == back.range[2] - back.range[1]
  IN  Max({0} \cup {k \in 1 .. POOL_CAPACITY - Len(q) :
                      back.depth + k <= max_depth /\ size \div 2^(k - 1) > 1})

split_to_fill(q, max_depth) ==
  LET first == Last(q).range[1]
      size  == Last(q).range[2] - first
      depth == Last(q).depth
      k     == Splits(q, max_depth)
  IN  Front(q)
      \o [i \in 1 .. k |-> [range |-> <<first + size \div 2^i, first + size \div 2^(i - 1)>>,
                             depth |-> depth + i]]
      \o <<[range |-> <<first, first + size \div 2^k>>, depth |-> depth + k]>>

-------------------------------------------------------------------------------

InitialPartition(head) ==
  [divisor |-> MAX_CONCURRENCY * (IF PARTITIONER = "auto" THEN INITIAL_CHUNKS ELSE FACTOR),
   max_depth |-> INIT_DEPTH, delay |-> "begin", head |-> head]

\* The caller makes the root task and runs it itself, unless the range is
\* empty.  The first slot is the one of the calling thread.
Init ==
  /\ state = [t \in Task |-> IF t = Root THEN "spawned" ELSE "none"]
  /\ range = [t \in Task |-> IF t = Root THEN <<0, N>> ELSE <<t, t>>]
  /\ \E head \in 0 .. MAX_CONCURRENCY - 1 :
       /\ PARTITIONER = "auto" => head = 0
       /\ partition = [t \in Task |-> InitialPartition(head)]
  /\ pool = [t \in Task |-> <<>>]
  /\ parent = [t \in Task |-> WaitNode]
  /\ above = [d \in Node |-> WaitNode]
  /\ ref_count = [d \in Node |-> IF d = WaitNode THEN 1 ELSE 0]
  /\ child_stolen = [d \in Node |-> FALSE]
  /\ folding = [t \in Task |-> WaitNode]
  /\ my_array = [s \in 0 .. Slots - 1 |-> NoTask]
  /\ m_wait = IF N > 0 THEN 1 ELSE 0
  /\ begun = {}
  /\ cancelled = FALSE
  /\ returned = FALSE

\* A slip: a tree node starts with the one reference a wait_node has.
TooFewReferences == 1

\* The references a tree node starts with: the two tasks below it.
tree_node_ref_count == 2

\* offer_work: the new task is named c, and a tree node is put
\* between the two tasks and what was the parent of t.  Then t is in the state next.
Offer(t, c, next) ==
  /\ state' = [state EXCEPT ![c] = "spawned", ![t] = next]
  /\ above' = [above EXCEPT ![c] = parent[t]]
  /\ ref_count' = [ref_count EXCEPT ![c] = tree_node_ref_count]
  /\ parent' = [parent EXCEPT ![c] = c, ![t] = c]

\* check_being_stolen: a task without slots of its own that another thread
\* took, while the task it was split from still runs, says so in their common
\* parent and may split deeper.
MarksStolen(t, stolen) ==
  /\ stolen
  /\ partition[t].divisor \div FACTOR = 0
  /\ ref_count[parent[t]] >= 2

AfterBeingStolen(p, marks) ==
  [p EXCEPT !.divisor = IF @ \div FACTOR = 0 THEN 1 ELSE @,
            !.max_depth = IF marks THEN (IF @ = 0 THEN 1 ELSE @) + DEMAND_DEPTH_ADD ELSE @]

\* Only affinity_partition_type notes where a task runs, and only for a task
\* that has slots.
note_affinity(t) ==
  my_array' = IF PARTITIONER = "affinity" /\ partition[t].divisor > 0
                THEN [my_array EXCEPT ![partition[t].head] = t] ELSE my_array

\* start_for::execute up to the splitting loop.  The root is never stolen; a
\* task that runs where it was sent notes nothing.
Execute(t) ==
  /\ state[t] = "spawned"
  /\ ~cancelled
  /\ state' = [state EXCEPT ![t] = "splitting"]
  /\ note_affinity(t) \/ UNCHANGED my_array
  /\ \E stolen \in IF t = Root THEN {FALSE} ELSE BOOLEAN :
       /\ partition' = [partition EXCEPT ![t] = AfterBeingStolen(@, MarksStolen(t, stolen))]
       /\ child_stolen' = [child_stolen EXCEPT ![parent[t]] = @ \/ MarksStolen(t, stolen)]
  /\ UNCHANGED <<range, pool, parent, above, ref_count, folding, m_wait, begun,
                 cancelled, returned>>

CanSplit(t) == is_divisible(range[t]) /\ PartitionDivisible(partition[t])

\* One turn of the splitting loop.
SplitRange(t) ==
  /\ state[t] = "splitting"
  /\ CanSplit(t)
  /\ LET p == AfterIsDivisible(partition[t])
         c == IF PARTITIONER = "auto" THEN Middle(range[t])
                                      ELSE ProportionalMiddle(range[t], p.divisor)
     IN  /\ Offer(t, c, "splitting")
         /\ range' = [range EXCEPT ![t] = <<@[1], c>>, ![c] = <<c, range[t][2]>>]
         /\ partition' = [partition EXCEPT
              ![t] = IF PARTITIONER = "auto" THEN SplitSource(p) ELSE ProportionalSource(p),
              ![c] = IF PARTITIONER = "auto" THEN SplitChild(p) ELSE ProportionalChild(p)]
  /\ UNCHANGED <<pool, child_stolen, folding, my_array, m_wait, begun, cancelled, returned>>

\* work_balance runs a range that cannot be split further as a whole ...
RunWhole(t) ==
  /\ state[t] = "splitting"
  /\ ~CanSplit(t)
  /\ ~is_divisible(range[t]) \/ partition[t].max_depth = 0
  /\ state' = [state EXCEPT ![t] = "body"]
  /\ begun' = begun \cup Elements(range[t])
  /\ UNCHANGED <<range, partition, pool, parent, above, ref_count, child_stolen,
                 folding, my_array, m_wait, cancelled, returned>>

\* ... and makes a pool of ranges from any other.
FillPool(t) ==
  /\ state[t] = "splitting"
  /\ ~CanSplit(t)
  /\ is_divisible(range[t]) /\ partition[t].max_depth > 0
  /\ state' = [state EXCEPT ![t] = "balancing"]
  /\ pool' = [pool EXCEPT ![t] = <<[range |-> range[t], depth |-> 0]>>]
  /\ UNCHANGED <<range, partition, parent, above, ref_count, child_stolen, folding,
                 my_array, m_wait, begun, cancelled, returned>>

\* check_for_demand: whether it asks is_peer_stolen, what it answers, and what
\* it does to the partition object.
AsksPeer(p) ==
  \/ PARTITIONER = "auto"
  \/ p.delay = "pass" /\ (p.divisor = 0 \/ (p.divisor = 1 /\ p.max_depth = 0))

InDemand(t) ==
  LET p == partition[t] IN
  IF AsksPeer(p) THEN child_stolen[parent[t]] ELSE p.delay = "pass"

\* A slip: the depth is decreased here too, where it is left to align_depth.
AfterDemandWithDepth(t) ==
  LET p == partition[t] IN
  CASE AsksPeer(p) /\ InDemand(t)       -> [p EXCEPT !.max_depth = @ + DEMAND_DEPTH_ADD]
    [] AsksPeer(p) /\ ~InDemand(t)      -> p
    [] ~AsksPeer(p) /\ p.delay = "begin" -> [p EXCEPT !.delay = "pass"]
    [] OTHER                            -> IF p.divisor = 1
                                             THEN [p EXCEPT !.divisor = 0, !.max_depth = @ - 1]
                                             ELSE p

AfterDemand(t) ==
  LET p == partition[t] IN
  CASE AsksPeer(p) /\ InDemand(t)       -> [p EXCEPT !.max_depth = @ + DEMAND_DEPTH_ADD]
    [] AsksPeer(p) /\ ~InDemand(t)      -> p
    [] ~AsksPeer(p) /\ p.delay = "begin" -> [p EXCEPT !.delay = "pass"]
    [] OTHER                            -> IF p.divisor = 1 THEN [p EXCEPT !.divisor = 0] ELSE p

\* A slip: the range that has been offered stays in the pool.
KeepFront(q) == q

pop_front(q) == Tail(q)

\* The body of the loop over the pool: the task spawns the front range or wants
\* another turn, and continues, or it runs the back range.
Balance(t) ==
  LET filled == split_to_fill(pool[t], partition[t].max_depth)
      p == AfterDemand(t)
      front == Head(filled)
      c == front.range[1]
      offers == InDemand(t) /\ Len(filled) > 1
      again  == InDemand(t) /\ Len(filled) = 1 /\ PoolDivisible(filled, p.max_depth)
  IN
  /\ state[t] = "balancing"
  /\ \/ /\ offers
        /\ Offer(t, c, "continuing")
        /\ range' = [range EXCEPT ![c] = front.range]
        /\ partition' = [partition EXCEPT ![t] = SplitSource(p),
                           ![c] = [SplitChild(p) EXCEPT !.max_depth = @ - front.depth]]
        /\ pool' = [pool EXCEPT ![t] = pop_front(filled)]
        /\ UNCHANGED begun
     \/ /\ ~offers
        /\ partition' = [partition EXCEPT ![t] = p]
        /\ pool' = [pool EXCEPT ![t] = filled]
        /\ state' = [state EXCEPT ![t] = IF again THEN "continuing" ELSE "body"]
        /\ begun' = IF again THEN begun ELSE begun \cup Elements(Last(filled).range)
        /\ UNCHANGED <<range, parent, above, ref_count>>
  /\ UNCHANGED <<child_stolen, folding, my_array, m_wait, cancelled, returned>>

\* The condition of that loop after a continue, which leaves the pool nonempty: a
\* task of a cancelled group gives the pool up.
Continue(t) ==
  /\ state[t] = "continuing"
  /\ pool' = [pool EXCEPT ![t] = IF cancelled THEN <<>> ELSE @]
  /\ state' = [state EXCEPT ![t] = IF cancelled THEN "folding" ELSE "balancing"]
  /\ folding' = [folding EXCEPT ![t] = IF cancelled THEN parent[t] ELSE @]
  /\ UNCHANGED <<range, partition, parent, above, ref_count, child_stolen, my_array,
                 m_wait, begun, cancelled, returned>>

\* What the body is running on in the state "body".
Chunk(t) == Elements(IF pool[t] = <<>> THEN range[t] ELSE Last(pool[t]).range)

\* What is left to run when the body has returned: its range leaves the pool,
\* and a task of a cancelled group gives the rest up, by the same condition.
Rest(t) == IF pool[t] = <<>> \/ cancelled THEN <<>> ELSE Front(pool[t])

\* The body returns.
EndBody(t) ==
  LET rest == Rest(t) IN
  /\ state[t] = "body"
  /\ pool' = [pool EXCEPT ![t] = rest]
  /\ state' = [state EXCEPT ![t] = IF rest = <<>> THEN "folding" ELSE "balancing"]
  /\ folding' = [folding EXCEPT ![t] = IF rest = <<>> THEN parent[t] ELSE @]
  /\ UNCHANGED <<range, partition, parent, above, ref_count, child_stolen, my_array,
                 m_wait, begun, cancelled, returned>>

\* The body throws: the task group is cancelled and the pool destroyed.
Throw(t) ==
  /\ CAN_FAIL
  /\ state[t] = "body"
  /\ state' = [state EXCEPT ![t] = "thrown"]
  /\ pool' = [pool EXCEPT ![t] = <<>>]
  /\ cancelled' = TRUE
  /\ UNCHANGED <<range, partition, parent, above, ref_count, child_stolen, folding,
                 my_array, m_wait, begun, returned>>

\* A slip: a cancelled task is dropped and its references stay.
CancelWithoutFinalize(t) ==
  /\ cancelled
  /\ state[t] \in {"spawned", "thrown"}
  /\ state' = [state EXCEPT ![t] = "dead"]
  /\ UNCHANGED <<range, partition, pool, parent, above, ref_count, child_stolen,
                 folding, my_array, m_wait, begun, cancelled, returned>>

\* start_for::cancel, which the scheduler calls for a task of a cancelled group
\* instead of execute, and after execute has thrown.
Cancel(t) ==
  /\ cancelled
  /\ state[t] \in {"spawned", "thrown"}
  /\ state' = [state EXCEPT ![t] = "folding"]
  /\ folding' = [folding EXCEPT ![t] = parent[t]]
  /\ UNCHANGED <<range, partition, pool, parent, above, ref_count, child_stolen,
                 my_array, m_wait, begun, cancelled, returned>>

\* A slip: the loop ends with the node that is deleted first.
FoldsOnce(t) == FALSE

\* Does the loop of fold_tree go on with the node above?
GoesOn(t) == ref_count[folding[t]] = 1 /\ folding[t] # WaitNode

\* One turn of the loop of fold_tree, in which each decrement is atomic.
Fold(t) ==
  LET n == folding[t]
      last == ref_count[n] = 1
  IN
  /\ state[t] = "folding"
  /\ ref_count' = [ref_count EXCEPT ![n] = @ - 1]
  /\ state' = [state EXCEPT ![t] = IF GoesOn(t) THEN @ ELSE "dead"]
  /\ folding' = [folding EXCEPT ![t] = IF last THEN above[n] ELSE @]
  /\ m_wait' = IF last /\ n = WaitNode THEN m_wait - 1 ELSE m_wait
  /\ UNCHANGED <<range, partition, pool, parent, above, child_stolen, my_array,
                 begun, cancelled, returned>>

\* The caller leaves execute_and_wait, and the wait_node goes out of scope.
Return ==
  /\ ~returned
  /\ m_wait = 0
  /\ returned' = TRUE
  /\ UNCHANGED <<state, range, partition, pool, parent, above, ref_count,
                 child_stolen, folding, my_array, m_wait, begun, cancelled>>

Step(t) ==
  \/ Execute(t) \/ SplitRange(t) \/ RunWhole(t) \/ FillPool(t) \/ Balance(t)
  \/ Continue(t) \/ EndBody(t) \/ Throw(t) \/ Cancel(t) \/ Fold(t)

Next == (\E t \in Task : Step(t)) \/ Return

\* As long as something is left to run, one of the threads runs something: the
\* caller takes every task that has been spawned and that no worker took, and
\* the body terminates.
Fairness == WF_vars(Next)

Spec == Init /\ [][Next]_vars /\ Fairness

-------------------------------------------------------------------------------

\* A range in a pool.
Item == [range : (0 .. N) \X (0 .. N), depth : Nat]

TypeOK ==
  /\ state \in [Task -> State]
  /\ range \in [Task -> (0 .. N) \X (0 .. N)]
  /\ partition \in [Task -> Partition]
  /\ pool \in [Task -> Seq(Item)]
  /\ \A t \in Task : Len(pool[t]) <= POOL_CAPACITY
  /\ parent \in [Task -> Node]
  /\ above \in [Node -> Node]
  /\ ref_count \in [Node -> 0 .. 2]
  /\ child_stolen \in [Node -> BOOLEAN]
  /\ folding \in [Task -> Node]
  /\ my_array \in [0 .. Slots - 1 -> Task \cup {NoTask}]
  /\ m_wait \in {0, 1}
  /\ begun \subseteq Index
  /\ cancelled \in BOOLEAN /\ returned \in BOOLEAN

\* The count of every node is the number of tasks and nodes that still have
\* it: no task reaches a deleted node, and none is left behind
\* (parallel_for.h:147-157, partitioner.h:161-182).
CountsAreReferences ==
  \A n \in Node :
    ref_count[n] =
      Cardinality({t \in Task : Live(t) /\ n = IF state[t] = "folding" THEN folding[t]
                                                                      ELSE parent[t]})
      + Cardinality({e \in Node \ {WaitNode} : ref_count[e] > 0 /\ above[e] = n})

\* The wait_node is on the caller's stack: when the caller is let go, no task
\* and no node is left that could reach it (parallel_for.h:89-97).
ReleasedMeansQuiet ==
  m_wait = 0 => \A t \in Task : ~Live(t) /\ ref_count[t] = 0

\* The indices a task is still to run the body on.
Pending(t) ==
  CASE state[t] \in {"spawned", "splitting"} -> Elements(range[t])
    [] state[t] \in {"balancing", "continuing"} ->
         UNION {Elements(pool[t][k].range) : k \in DOMAIN pool[t]}
    [] state[t] = "body" -> UNION {Elements(pool[t][k].range) : k \in 1 .. Len(pool[t]) - 1}
    [] OTHER -> {}

\* Between them the tasks hold every index that the body has not been given,
\* each index once; only a cancellation drops some.
IndicesAreHeldOnce ==
  /\ \A t \in Task : Pending(t) \cap begun = {}
  /\ \A t, u \in Task : t # u => Pending(t) \cap Pending(u) = {}
  /\ cancelled \/ begun \cup UNION {Pending(t) : t \in Task} = Index

\* Types, and what the library asserts or relies on about its casts and bytes.  The
\* parent that is_peer_stolen casts to tree_node is one: the root task has split before
\* it asks (partitioner.h:412-418).  And no range in a pool is deeper than its task may split,
\* so that align_depth never takes more from a child's depth than it has, where the
\* byte would wrap around (partitioner.h:428-431).
CastsAndDepthsAreValid ==
  /\ TypeOK
  /\ \A t \in Task :
       /\ state[t] = "balancing" /\ AsksPeer(partition[t]) => parent[t] # WaitNode
       /\ state[t] = "spawned" => partition[t].max_depth >= 0
       /\ state[t] \in {"balancing", "continuing", "body"} =>
            \A k \in DOMAIN pool[t] : pool[t][k].depth <= partition[t].max_depth

\* A slot of the affinity array is noted by one task of a loop: the slots of
\* the tasks do not overlap (partitioner.h:297-300).
SlotIsNotedOnce ==
  [][\A s \in DOMAIN my_array : my_array[s] # NoTask => my_array'[s] = my_array[s]]_vars

Running == UNION {Chunk(t) : t \in {u \in Task : state[u] = "body"}}

\* The tasks, nodes and pools do what parallel_for promises, and the caller
\* is released in the end.
Loop == INSTANCE ParallelLoop WITH running <- Running, failed <- cancelled

ImplementsParallelLoop == Loop!Spec

-------------------------------------------------------------------------------
(* The inductive invariant behind the safety properties.                   *)

\* A pool of a task that begins at low and may split up to a depth: nonempty
\* ranges, none before low, in descending order, and none deeper.
GoodPool(q, low, depth) ==
  /\ q \in Seq(Item)
  /\ Len(q) <= POOL_CAPACITY
  /\ \A k \in 1 .. Len(q) :
       /\ low <= q[k].range[1] /\ q[k].range[1] < q[k].range[2]
       /\ q[k].depth <= depth
  /\ \A j, k \in 1 .. Len(q) : j < k => q[k].range[2] <= q[j].range[1]

\* The range of a task begins where it does, and what is in its pool lies there too.
RangeInv ==
  \A t \in Task :
    /\ range[t][1] = t
    /\ state[t] # "none" => t < range[t][2]
    /\ state[t] \in {"none", "spawned", "splitting"} => pool[t] = <<>>
    /\ state[t] \in {"balancing", "continuing"} => pool[t] # <<>>
    /\ GoodPool(pool[t], t, partition[t].max_depth)

\* Of the indices a task holds only its own has had a task made for it.
FreshInv == \A t \in Task : \A x \in Pending(t) : x # t => state[x] = "none"

\* The bodies that run do so on different indices.
ChunkInv ==
  /\ \A t \in Task : state[t] = "body" => Chunk(t) \subseteq begun
  /\ \A t, u \in Task :
       state[t] = "body" /\ state[u] = "body" /\ t # u => Chunk(t) \cap Chunk(u) = {}

\* The nodes that exist are a tree: following above from any of them leads out of
\* any set of them.
TreeNodes == {d \in Node \ {WaitNode} : ref_count[d] > 0}

NodeInv ==
  /\ \A d \in TreeNodes : state[d] # "none"
  /\ \A S \in SUBSET TreeNodes : S # {} => \E d \in S : above[d] \notin S
  /\ m_wait = IF N > 0 THEN ref_count[WaitNode] ELSE 0
  /\ returned => m_wait = 0

\* The slots of a task are whole multiples of FACTOR until a single one is left.
Whole(d) == \E m \in 0 .. d : d = m * FACTOR

PartitionInv ==
  \A t \in Task :
    /\ PARTITIONER = "affinity" =>
         /\ Whole(partition[t].divisor) \/ partition[t].divisor < FACTOR
         /\ pool[t] # <<>> => partition[t].divisor <= FACTOR
    /\ parent[t] = WaitNode =>
         /\ partition[t].divisor >= FACTOR
         /\ PARTITIONER = "auto" =>
              /\ partition[t].max_depth > 0
              /\ state[t] \notin {"balancing", "continuing"}
              /\ state[t] = "body" => pool[t] = <<>>

\* The slots that a task may still note or give to a child ...
Slot(p, j) == (p.head + j) % Slots

Giving(t) ==
  {Slot(partition[t], j) : j \in (IF state[t] = "spawned" THEN 0 ELSE 1) .. partition[t].divisor - 1}

\* ... are its own, and not noted.
SlotInv ==
  PARTITIONER = "affinity" =>
    /\ \A t \in Task : partition[t].divisor <= Slots
    /\ \A t \in Task : state[t] # "none" => \A s \in Giving(t) : my_array[s] = NoTask
    /\ \A t, u \in Task :
         t # u /\ state[t] # "none" /\ state[u] # "none" => Giving(t) \cap Giving(u) = {}

IInv ==
  /\ TypeOK /\ RangeInv /\ FreshInv /\ ChunkInv /\ IndicesAreHeldOnce
  /\ CountsAreReferences /\ NodeInv /\ PartitionInv /\ SlotInv

===============================================================================
