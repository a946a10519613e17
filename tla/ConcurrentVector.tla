--------------------------- MODULE ConcurrentVector ---------------------------
(***************************************************************************)
(* push_back on a tbb::concurrent_vector, and the reading of the vector    *)
(* when all pushes have returned, after oneapi/tbb/concurrent_vector.h and *)
(* detail/_segment_table.h.                                                *)
(*                                                                         *)
(* A push claims an index by an atomic increment and needs the segment the *)
(* index falls into: segment 0 holds 2 elements, segment s > 0 holds 2^s.  *)
(* The pointers to the segments are in a table inside the vector, and from *)
(* the first index that has no place there in a longer one that replaces   *)
(* it.  Who allocates what follows from the index: the first element of a  *)
(* segment allocates it, the first index past the embedded table allocates *)
(* the long one; both elements of segment 0 may allocate that, and the     *)
(* loser gives its memory back.  All others wait.                          *)
(*                                                                         *)
(* A push is named by the index it has claimed, and so are its item and    *)
(* the block of memory it has allocated.  default_first_block_size is 1:   *)
(* the first block is segment 0, and only one push extends the table.      *)
(***************************************************************************)
EXTENDS Integers, Sequences, FiniteSetsExt, Functions

CONSTANTS
  PUSHES,                        \* a bound on the number of pushes
  pointers_per_embedded_table,   \* segments in the embedded table, 3 in the library
  CAN_FAIL                       \* may an allocation or the copy of an item throw?

ASSUME VectorAssumption ==
  /\ PUSHES \in Nat
  /\ pointers_per_embedded_table \in Nat \ {0}
  /\ CAN_FAIL \in BOOLEAN

VARIABLES
  my_size,            \* the number of indices claimed
  my_segment_table,   \* which table is in use: "embedded" or "long"
  slot,               \* per table and segment: null, the failure tag or a block
  allocation_failed,  \* my_segment_table_allocation_failed
  pc,                 \* per push: what it does next
  table,              \* per push: its copy of my_segment_table
  segment,            \* per push: the slot as it has read it
  memory,             \* per block and index: the item constructed there
  allocated,          \* the blocks allocated and not given back
  joined,             \* have all pushes ended, and the loop that made them?
  read                \* what a reader has found, once joined

vars == <<my_size, my_segment_table, slot, allocation_failed, pc, table, segment,
          memory, allocated, joined, read>>

Push == 0 .. PUSHES - 1

null == -1
failure_tag == -2
Garbage == -1
Zeroes == -2

Claimed == 0 .. my_size - 1

-------------------------------------------------------------------------------
(* Where an index is: _segment_table.h, segment_index_of and its kin.      *)

segment_index_of(i) == IF i < 2 THEN 0 ELSE CHOOSE s \in 1 .. i : 2^s <= i /\ i < 2^(s + 1)
segment_base(s) == IF s = 0 THEN 0 ELSE 2^s
segment_size(s) == IF s = 0 THEN 2 ELSE 2^s

embedded_table_size == segment_size(pointers_per_embedded_table)

\* The segments that a table has room for; of the 64 of the long table only
\* those that PUSHES elements can reach.
Segments(t) ==
  IF t = "embedded" THEN 0 .. pointers_per_embedded_table - 1
                    ELSE 0 .. Max({pointers_per_embedded_table} \cup {segment_index_of(i) : i \in Push})

Tables == {"embedded", "long"}

Seg(i) == segment_index_of(i)

\* The slot of push i in the table it uses.
Slot(i) == slot[table[i]][Seg(i)]

-------------------------------------------------------------------------------

Init ==
  /\ my_size = 0
  /\ my_segment_table = "embedded"
  /\ slot = [t \in Tables |-> [s \in Segments(t) |-> null]]
  /\ allocation_failed = FALSE
  /\ pc = [i \in Push |-> "idle"]
  /\ table = [i \in Push |-> "embedded"]
  /\ segment = [i \in Push |-> null]
  /\ memory = [b \in Push |-> [i \in Push |-> Garbage]]
  /\ allocated = {}
  /\ joined = FALSE
  /\ read = <<>>

Goto(i, where) == pc' = [pc EXCEPT ![i] = where]

\* internal_emplace_back: the index is claimed.
Claim ==
  /\ ~joined
  /\ my_size < PUSHES
  /\ my_size' = my_size + 1
  /\ Goto(my_size, "subscript")
  /\ UNCHANGED <<my_segment_table, slot, allocation_failed, table, segment, memory,
                 allocated, joined, read>>

\* internal_subscript reads which table is in use and decides, in
\* extend_table_if_necessary, whether it is long enough.
Subscript(i) ==
  /\ pc[i] = "subscript"
  /\ table' = [table EXCEPT ![i] = my_segment_table]
  /\ Goto(i, IF my_segment_table = "long" \/ i < embedded_table_size THEN "lookup"
             ELSE IF i = embedded_table_size THEN "extend" ELSE "await_table")
  /\ UNCHANGED <<my_size, my_segment_table, slot, allocation_failed, segment, memory,
                 allocated, joined, read>>

\* A slip: the slots are copied without waiting for the pushes that fill them.
NeedNotWait == TRUE

\* What allocate_long_table waits for.
EmbeddedTableIsFilled == \A s \in Segments("embedded") : slot["embedded"][s] # null

\* allocate_long_table copies the embedded table to a new long one.
CopyTable(i) ==
  /\ pc[i] = "extend"
  /\ EmbeddedTableIsFilled
  /\ slot' = [slot EXCEPT !["long"] =
                [s \in Segments("long") |->
                   IF s \in Segments("embedded") THEN slot["embedded"][s] ELSE null]]
  /\ Goto(i, "publish")
  /\ UNCHANGED <<my_size, my_segment_table, allocation_failed, table, segment, memory,
                 allocated, joined, read>>

\* The new table replaces the embedded one by compare-and-swap, which no other
\* push can have done.
PublishTable(i) ==
  /\ pc[i] = "publish"
  /\ my_segment_table' = "long"
  /\ table' = [table EXCEPT ![i] = "long"]
  /\ Goto(i, "lookup")
  /\ UNCHANGED <<my_size, slot, allocation_failed, segment, memory, allocated, joined, read>>

\* What allocate_long_table leaves in the flag when it throws.
FailedFlag == TRUE

\* The long table cannot be allocated.
FailToExtend(i) ==
  /\ CAN_FAIL
  /\ pc[i] = "extend"
  /\ EmbeddedTableIsFilled
  /\ allocation_failed' = FailedFlag
  /\ Goto(i, "threw")
  /\ UNCHANGED <<my_size, my_segment_table, slot, table, segment, memory, allocated, joined, read>>

\* A push with a larger index waits until the table is there or the flag says
\* that it never will be.
AwaitTable(i) ==
  /\ pc[i] = "await_table"
  /\ \/ /\ allocation_failed
        /\ Goto(i, "threw")
        /\ UNCHANGED table
     \/ /\ my_segment_table = "long"
        /\ table' = [table EXCEPT ![i] = "long"]
        /\ Goto(i, "lookup")
  /\ UNCHANGED <<my_size, my_segment_table, slot, allocation_failed, segment, memory,
                 allocated, joined, read>>

\* internal_subscript reads the slot: a segment, a failure, or nothing yet.
Lookup(i) ==
  /\ pc[i] = "lookup"
  /\ segment' = [segment EXCEPT ![i] = Slot(i)]
  /\ Goto(i, CASE Slot(i) = failure_tag -> "threw"
               [] Slot(i) = null        -> "create"
               [] OTHER                 -> "construct")
  /\ UNCHANGED <<my_size, my_segment_table, slot, allocation_failed, table, memory,
                 allocated, joined, read>>

\* Which push allocates a segment that is not segment 0.
Allocates(i) == i = segment_base(Seg(i))

\* create_segment: whether to allocate, or to wait for who does.
Create(i) ==
  /\ pc[i] = "create"
  /\ Goto(i, IF Seg(i) = 0 THEN (IF slot[table[i]][0] # null THEN "wait" ELSE "allocate_first")
             ELSE IF Allocates(i) THEN "allocate" ELSE "wait")
  /\ UNCHANGED <<my_size, my_segment_table, slot, allocation_failed, table, segment,
                 memory, allocated, joined, read>>

\* The block of push i, which is not in the table yet.
AllocateFirst(i) ==
  /\ pc[i] = "allocate_first"
  /\ allocated' = allocated \cup {i}
  /\ Goto(i, "install")
  /\ UNCHANGED <<my_size, my_segment_table, slot, allocation_failed, table, segment,
                 memory, joined, read>>

\* A slip: the loser keeps its block.
KeepsBlock(i) == allocated

\* A slip: the loser gives back what it has found in the table.
GivesBackFound(i) == allocated \ {slot[table[i]][0]}

GivesBack(i) == allocated \ {i}

\* Segment 0 goes to the first compare-and-swap; the loser deallocates.
Install(i) ==
  /\ pc[i] = "install"
  /\ IF slot[table[i]][0] = null
       THEN /\ slot' = [slot EXCEPT ![table[i]][0] = i]
            /\ Goto(i, "load")
            /\ UNCHANGED allocated
       ELSE /\ allocated' = GivesBack(i)
            /\ Goto(i, "wait")
            /\ UNCHANGED slot
  /\ UNCHANGED <<my_size, my_segment_table, allocation_failed, table, segment, memory,
                 joined, read>>

\* Segment 0 cannot be allocated: the first to notice marks it as failed ...
FailFirst(i) ==
  /\ CAN_FAIL
  /\ pc[i] = "allocate_first"
  /\ IF slot[table[i]][0] = null
       THEN slot' = [slot EXCEPT ![table[i]][0] = failure_tag] /\ Goto(i, "mark")
       ELSE UNCHANGED slot /\ Goto(i, "threw")
  /\ UNCHANGED <<my_size, my_segment_table, allocation_failed, table, segment, memory,
                 allocated, joined, read>>

\* ... and with it the rest of the embedded table, whatever is there.
MarkFailed(i) ==
  /\ pc[i] = "mark"
  /\ slot' = [slot EXCEPT ![table[i]] =
                [s \in Segments(table[i]) |->
                   IF s \in Segments("embedded") THEN failure_tag ELSE @[s]]]
  /\ Goto(i, "threw")
  /\ UNCHANGED <<my_size, my_segment_table, allocation_failed, table, segment, memory,
                 allocated, joined, read>>

\* A slip: nothing is stored when the allocation throws.
NothingStored(i) == Slot(i)

StoredOnFailure(i) == failure_tag

\* Any other segment is stored by the one push that allocates it, the failure
\* tag if it cannot be allocated.
AllocateSegment(i) ==
  /\ pc[i] = "allocate"
  /\ \/ /\ allocated' = allocated \cup {i}
        /\ slot' = [slot EXCEPT ![table[i]][Seg(i)] = i]
        /\ Goto(i, "load")
     \/ /\ CAN_FAIL
        /\ slot' = [slot EXCEPT ![table[i]][Seg(i)] = StoredOnFailure(i)]
        /\ Goto(i, "threw")
        /\ UNCHANGED allocated
  /\ UNCHANGED <<my_size, my_segment_table, allocation_failed, table, segment, memory,
                 joined, read>>

\* spin_wait_while_eq, then the slot is read again by enable_segment.
Wait(i) ==
  /\ pc[i] = "wait"
  /\ Slot(i) # null
  /\ Goto(i, "load")
  /\ UNCHANGED <<my_size, my_segment_table, slot, allocation_failed, table, segment,
                 memory, allocated, joined, read>>

IsFailure(i) == Slot(i) = failure_tag

Load(i) ==
  /\ pc[i] = "load"
  /\ segment' = [segment EXCEPT ![i] = Slot(i)]
  /\ Goto(i, IF IsFailure(i) THEN "threw" ELSE "construct")
  /\ UNCHANGED <<my_size, my_segment_table, slot, allocation_failed, table, memory,
                 allocated, joined, read>>

Construct(i) ==
  /\ pc[i] = "construct"
  /\ memory' = [memory EXCEPT ![segment[i]][i] = i]
  /\ Goto(i, "returned")
  /\ UNCHANGED <<my_size, my_segment_table, slot, allocation_failed, table, segment,
                 allocated, joined, read>>

\* The item cannot be copied: value_guard sets its place to zero.
ConstructThrows(i) ==
  /\ CAN_FAIL
  /\ pc[i] = "construct"
  /\ memory' = [memory EXCEPT ![segment[i]][i] = Zeroes]
  /\ Goto(i, "threw")
  /\ UNCHANGED <<my_size, my_segment_table, slot, allocation_failed, table, segment,
                 allocated, joined, read>>

Ended(i) == pc[i] \in {"returned", "threw"}

\* The loop that makes the pushes has returned.
Join ==
  /\ ~joined
  /\ \A i \in Claimed : Ended(i)
  /\ joined' = TRUE
  /\ UNCHANGED <<my_size, my_segment_table, slot, allocation_failed, pc, table, segment,
                 memory, allocated, read>>

\* A slip: a segment whose allocation failed counts.
NotThereYet(p) == p = null

IsMissing(p) == p \in {null, failure_tag}

\* capacity(): the indices before the first segment that is not there.
capacity ==
  LET t == my_segment_table
      missing == {s \in Segments(t) : IsMissing(slot[t][s])}
  IN  segment_base(IF missing = {} THEN Max(Segments(t)) + 1 ELSE Min(missing))

size == Min({my_size, capacity})

\* internal_subscript as the iterators use it.
ReadAt(i) == memory[slot[my_segment_table][Seg(i)]][i]

\* Iteration from begin() to end(), after the pushes.
Read ==
  /\ joined
  /\ read' = [k \in 1 .. size |-> ReadAt(k - 1)]
  /\ UNCHANGED <<my_size, my_segment_table, slot, allocation_failed, pc, table, segment,
                 memory, allocated, joined>>

PushStep(i) ==
  \/ Subscript(i) \/ CopyTable(i) \/ PublishTable(i) \/ FailToExtend(i) \/ AwaitTable(i)
  \/ Lookup(i) \/ Create(i) \/ AllocateFirst(i) \/ Install(i) \/ FailFirst(i)
  \/ MarkFailed(i) \/ AllocateSegment(i) \/ Wait(i) \/ Load(i) \/ Construct(i)
  \/ ConstructThrows(i)

Next == Claim \/ (\E i \in Push : PushStep(i)) \/ Join \/ Read

\* As long as a push can go on, one of those that can does.
Fairness == WF_vars(\E i \in Push : PushStep(i))

Spec == Init /\ [][Next]_vars /\ Fairness

-------------------------------------------------------------------------------

Blocks == Push \cup {null, failure_tag}

Places ==
  {"idle", "subscript", "extend", "publish", "await_table", "lookup", "create",
   "allocate_first", "install", "mark", "allocate", "wait", "load", "construct",
   "returned", "threw"}

TypeOK ==
  /\ my_size \in 0 .. PUSHES
  /\ my_segment_table \in Tables
  /\ DOMAIN slot = Tables
  /\ \A t \in Tables : slot[t] \in [Segments(t) -> Blocks]
  /\ allocation_failed \in BOOLEAN
  /\ pc \in [Push -> Places]
  /\ table \in [Push -> Tables]
  /\ segment \in [Push -> Blocks]
  /\ memory \in [Push -> [Push -> Push \cup {Garbage, Zeroes}]]
  /\ allocated \subseteq Push
  /\ joined \in BOOLEAN
  /\ \A k \in DOMAIN read : read[k] \in Push \cup {Garbage, Zeroes}

\* No variable leaves its type, and no push constructs its item in memory that is not a
\* block, or is no longer, or is too short (concurrent_vector.h:598-609).
ConstructsInSegment ==
  /\ TypeOK
  /\ \A i \in Push : pc[i] = "construct" =>
       /\ segment[i] \in allocated
       /\ Seg(segment[i]) = Seg(i)

\* Has no allocation failed?
Unharmed ==
  ~ allocation_failed /\ \A t \in Tables : failure_tag \notin Range(slot[t])

\* Unless an allocation fails, an item whose push has returned can be found, through
\* whichever table is in use, the long one included that another push has copied
\* meanwhile (concurrent_vector.h:540-566).
ReturnedIsReadable ==
  Unharmed => \A i \in Push : pc[i] = "returned" =>
    slot[my_segment_table][Seg(i)] \in allocated /\ ReadAt(i) = i

\* Once all pushes have ended, the blocks that were allocated and not given
\* back are those in the table: the loser of segment 0 leaks nothing, and
\* replacing the table loses none (concurrent_vector.h:569-629).
NoBlockLeaks ==
  joined /\ Unharmed => allocated = Range(slot[my_segment_table]) \ {null}

\* After failures the reader still dereferences only segments that are there and finds
\* there the items of the pushes that returned.  An item that could not be copied it finds
\* zeroed; memory never written it reads in segment 0 only, where a push throws although
\* the other one allocates.  And a push that returned is missing only if an earlier segment
\* or its own could not be had (_segment_table.h:204-215, concurrent_vector.h:569-598, 781).
ReaderStaysInside ==
  joined =>
    /\ \A i \in 0 .. size - 1 :
         /\ slot[my_segment_table][Seg(i)] \in allocated
         /\ pc[i] = "returned" => ReadAt(i) = i
         /\ pc[i] = "threw" => ReadAt(i) = Zeroes \/ Seg(i) = 0
    /\ \A i \in Push : pc[i] = "returned" /\ i >= size =>
         \E s \in Segments(my_segment_table) :
           s <= Seg(i) /\ slot[my_segment_table][s] = failure_tag

-------------------------------------------------------------------------------
(* The inductive invariant behind these properties.                        *)

\* The pushes that have been made, and no others, are under way or have ended.
ClaimInv ==
  /\ \A i \in Push : i < my_size <=> pc[i] # "idle"
  /\ joined => \A i \in Push : pc[i] # "idle" => Ended(i)

\* Block b is there for good and is segment s: its push has stored it.
Placed(b, s) ==
  /\ b \in allocated
  /\ Seg(b) = s
  /\ pc[b] \in {"load", "construct", "returned", "threw"}

SlotInv ==
  \A t \in Tables : \A s \in Segments(t) :
    slot[t][s] \in Push => Placed(slot[t][s], s)

SegmentInv ==
  \A i \in Push : pc[i] \in {"construct", "returned"} =>
    segment[i] \in Push /\ Placed(segment[i], Seg(i))

\* Has the long table got its copy of the embedded one?
Copied == my_segment_table = "long" \/ \E i \in Push : pc[i] = "publish"

\* Could segment 0 not be had?
Spoiled == slot["embedded"][0] = failure_tag

TableInv ==
  /\ \A i \in Push : pc[i] \in {"extend", "publish"} =>
       i = embedded_table_size /\ my_segment_table = "embedded"
  /\ \A i \in Push : table[i] = "long" => my_segment_table = "long"
  /\ ~ Copied => \A s \in Segments("long") : slot["long"][s] = null
  /\ Copied => \A s \in Segments("embedded") :
       /\ slot["embedded"][s] # null
       /\ slot["long"][s] # null
       /\ slot["long"][s] = slot["embedded"][s] \/ Spoiled
  /\ Copied /\ Spoiled => slot["long"][0] = failure_tag

\* The table a push uses is long enough, and a long one never lacks a segment that
\* the embedded one has.
WhereInv ==
  \A i \in Push :
    /\ pc[i] \in {"lookup", "create", "allocate_first", "install", "mark", "allocate",
                  "wait", "load", "construct", "returned"} => Seg(i) \in Segments(table[i])
    /\ pc[i] \in {"create", "allocate_first", "install", "mark", "allocate"}
         /\ table[i] = "long" => Seg(i) \notin Segments("embedded")

\* A slot that a push is about to fill is empty, unless segment 0 has failed.
AllocateInv ==
  \A i \in Push :
    /\ pc[i] \in {"allocate_first", "install", "mark"} => Seg(i) = 0
    /\ pc[i] = "install" => i \in allocated
    /\ pc[i] = "mark" => slot["embedded"][0] = failure_tag
    /\ pc[i] = "allocate" => Seg(i) # 0 /\ Allocates(i)
    /\ pc[i] \in {"create", "allocate"} /\ Seg(i) # 0 /\ Allocates(i) =>
         Slot(i) = null \/ slot["embedded"][0] = failure_tag
    /\ pc[i] = "load" => Slot(i) # null

\* The items of the pushes that have returned are where these have put them.
MemoryInv == \A i \in Push : pc[i] = "returned" => memory[segment[i]][i] = i

\* What a push has read stays in the table, unless segment 0 has failed ...
ReadableInv ==
  \A i \in Push : pc[i] \in {"construct", "returned"} =>
    /\ Seg(i) \in Segments(my_segment_table)
    /\ segment[i] = slot[my_segment_table][Seg(i)] \/ Spoiled

\* ... and so does every block, if no allocation fails.
LeakInv ==
  Unharmed => \A b \in allocated :
    \/ pc[b] = "install"
    \/ Seg(b) \in Segments(my_segment_table) /\ slot[my_segment_table][Seg(b)] = b

\* A failure is known to a push that has thrown or is about to.
FailureInv == ~ Unharmed => \E i \in Push : pc[i] \in {"mark", "threw"}

\* What a push that throws has met: an item that cannot be copied, a slot that is not empty
\* if its segment is 0, or a failure in its own slot, in segment 0's, or of the long table.
Cause(i) ==
  \/ Seg(i) = 0 /\ slot["embedded"][0] # null
  \/ Spoiled
  \/ Seg(i) \in Segments(my_segment_table) /\ slot[my_segment_table][Seg(i)] = failure_tag
  \/ allocation_failed /\ i >= embedded_table_size
  \/ /\ Seg(i) \in Segments(my_segment_table) /\ slot[my_segment_table][Seg(i)] \in Push
     /\ ReadAt(i) = Zeroes

ThrewInv ==
  /\ \A i \in Push : pc[i] = "await_table" => i > embedded_table_size
  /\ allocation_failed =>
       /\ my_segment_table = "embedded"
       /\ embedded_table_size \in Push /\ pc[embedded_table_size] = "threw"
  /\ \A i \in Push : pc[i] = "threw" => Cause(i)

IInv ==
  /\ TypeOK /\ ClaimInv /\ SlotInv /\ SegmentInv /\ TableInv /\ WhereInv
  /\ AllocateInv /\ MemoryInv /\ ReadableInv /\ LeakInv /\ FailureInv
  /\ ThrewInv

-------------------------------------------------------------------------------

\* A concurrent_vector is a vector to which items are appended atomically.  No push
\* waits forever for a segment or a table that another one was to allocate, even if the
\* other one has thrown (concurrent_vector.h:569-629).
Vector == INSTANCE AppendVector WITH
  Item <- Push,
  contents <- [k \in 1 .. my_size |-> k - 1],
  open <- {i \in Claimed : ~Ended(i)},
  failed <- \E i \in Push : pc[i] = "threw"

ImplementsAppendVector == Vector!Spec

===============================================================================
