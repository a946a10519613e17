------------------------ MODULE ConcurrentVectorProofs -------------------------
(***************************************************************************)
(* Safety of concurrent_vector's push_back for every number of pushes and  *)
(* every size of the embedded table, with and without failures: the        *)
(* inductive invariant IInv, what follows from it, and that the vector     *)
(* implements AppendVector.                                                *)
(***************************************************************************)
EXTENDS ConcurrentVector, CommonProofs, TLAPS

-------------------------------------------------------------------------------
(* Where an index is.                                                      *)

\* The pushes are numbers, and none is one of the two marks of a slot.
LEMMA PushTypes ==
  /\ PUSHES \in Nat /\ pointers_per_embedded_table \in Nat \ {0}
  /\ Push \in SUBSET Nat
  /\ \A i \in Push : i \in Nat /\ i < PUSHES
  /\ null \notin Push /\ failure_tag \notin Push /\ null # failure_tag
BY VectorAssumption DEF Push, null, failure_tag

\* From 2 on, segment s holds the indices from 2^s to 2^(s+1) - 1.
LEMMA SegmentOfIndex ==
  ASSUME NEW i \in Nat
  PROVE  /\ i < 2 => Seg(i) = 0
         /\ i >= 2 => Seg(i) \in 1 .. i /\ 2^Seg(i) <= i /\ i < 2^(Seg(i) + 1)
<1>1. i < 2 => Seg(i) = 0
  BY DEF Seg, segment_index_of
<1>2. ASSUME i >= 2
      PROVE  Seg(i) \in 1 .. i /\ 2^Seg(i) <= i /\ i < 2^(Seg(i) + 1)
  <2> DEFINE Beyond == {s \in Nat : i < 2^(s + 1)}
  <2>1. i \in Beyond
    <3>1. i < 2^i /\ 2^i \in Nat /\ 2^(i + 1) = 2 * 2^i
      BY PowerIsLarger, PowerOfTwo
    <3>2. i < 2 * 2^i
      BY <3>1
    <3>3. QED
      BY <3>1, <3>2
  <2>2. PICK s \in Beyond : \A m \in Beyond : s <= m
    BY <2>1, LeastElement
  <2>3. s # 0
    <3>1. 2^0 = 1 /\ 2^(0 + 1) = 2 * 2^0
      BY PowerOfTwo, PowerZero
    <3>2. 0 \notin Beyond
      BY <1>2, <3>1
    <3>3. QED
      BY <2>2, <3>2
  <2>4. s - 1 \in Nat /\ s - 1 \notin Beyond
    BY <2>2, <2>3
  <2>5. (s - 1) + 1 = s /\ 2^s \in Nat
    BY <2>2, PowerOfTwo
  <2>6. ~ (i < 2^s)
    BY <2>4, <2>5
  <2>7. s \in 1 .. i /\ 2^s <= i /\ i < 2^(s + 1)
    <3>1. s \in Nat /\ i < 2^(s + 1) /\ s <= i
      BY <2>1, <2>2
    <3>2. QED
      BY <2>3, <2>5, <2>6, <3>1
  <2>8. \E m \in 1 .. i : 2^m <= i /\ i < 2^(m + 1)
    BY <2>7
  <2>9. Seg(i) = CHOOSE m \in 1 .. i : 2^m <= i /\ i < 2^(m + 1)
    BY <1>2 DEF Seg, segment_index_of
  <2>10. QED
    BY <2>8, <2>9
<1>3. QED
  BY <1>1, <1>2

\* The base of a segment: zero, or its power of two.
LEMMA BaseOfSegment ==
  ASSUME NEW s \in Nat
  PROVE  segment_base(s) \in Nat /\ (s # 0 => segment_base(s) = 2^s /\ segment_base(s) >= 2)
<1>1. 2^s \in Nat /\ s < 2^s
  BY PowerOfTwo, PowerIsLarger
<1>2. QED
  BY <1>1 DEF segment_base

\* An index lies before the first one of a segment if its own segment does.
LEMMA BeforeSegment ==
  ASSUME NEW i \in Nat, NEW s \in Nat
  PROVE  i < segment_base(s) <=> Seg(i) < s
<1>1. CASE s = 0
  <2>1. Seg(i) \in Nat
    BY SegmentOfIndex
  <2>2. QED
    BY <1>1, <2>1 DEF segment_base
<1>2. CASE s # 0 /\ i < 2
  BY <1>2, BaseOfSegment, SegmentOfIndex
<1>3. CASE s # 0 /\ i >= 2
  <2>1. segment_base(s) = 2^s /\ 2^s \in Nat
    BY <1>3, BaseOfSegment
  <2>2. Seg(i) \in Nat /\ 2^Seg(i) <= i /\ i < 2^(Seg(i) + 1)
    BY <1>3, SegmentOfIndex
  <2>3. 2^Seg(i) \in Nat /\ 2^(Seg(i) + 1) = 2 * 2^Seg(i)
    BY <2>2, PowerOfTwo
  <2>4. ASSUME Seg(i) < s
        PROVE  i < 2^s
    <3>1. 2 * 2^Seg(i) <= 2^s
      BY <2>2, <2>4, PowersIncrease
    <3>2. QED
      BY <2>1, <2>2, <2>3, <3>1
  <2>5. ASSUME s < Seg(i)
        PROVE  2^s <= i
    <3>1. 2 * 2^s <= 2^Seg(i)
      BY <2>2, <2>5, PowersIncrease
    <3>2. QED
      BY <2>1, <2>2, <2>3, <3>1
  <2>6. ASSUME s = Seg(i)
        PROVE  2^s <= i
    BY <2>2, <2>6
  <2>7. QED
    BY <2>1, <2>2, <2>4, <2>5, <2>6
<1>4. QED
  BY <1>1, <1>2, <1>3

\* The base of a segment is in that segment.
LEMMA SegmentOfBase ==
  ASSUME NEW s \in Nat
  PROVE  Seg(segment_base(s)) = s
<1>1. segment_base(s) \in Nat /\ Seg(segment_base(s)) \in Nat /\ s + 1 \in Nat
  BY BaseOfSegment, SegmentOfIndex
<1>2. ~ (Seg(segment_base(s)) < s)
  BY <1>1, BeforeSegment
<1>3. Seg(segment_base(s)) < s + 1
  <2>1. segment_base(s) < segment_base(s + 1)
    <3>1. CASE s = 0
      BY <3>1, BaseOfSegment DEF segment_base
    <3>2. CASE s # 0
      <4>1. segment_base(s) = 2^s /\ segment_base(s + 1) = 2^(s + 1)
        BY <3>2, BaseOfSegment
      <4>2. 2^s \in Nat /\ 2^s > 0 /\ 2^(s + 1) = 2 * 2^s
        BY PowerOfTwo
      <4>3. QED
        BY <4>1, <4>2
    <3>3. QED
      BY <3>1, <3>2
  <2>2. QED
    BY <1>1, <2>1, BeforeSegment
<1>4. QED
  BY <1>1, <1>2, <1>3

\* The segments of the two tables.
LEMMA SegmentSets ==
  /\ Segments("embedded") = 0 .. pointers_per_embedded_table - 1
  /\ Segments("embedded") \subseteq Segments("long")
  /\ \A t \in Tables : Segments(t) \in SUBSET Nat /\ 0 \in Segments(t)
  /\ \A i \in Push : Seg(i) \in Nat /\ Seg(i) \in Segments("long")
  /\ \A i \in Nat : i < embedded_table_size <=> Seg(i) < pointers_per_embedded_table
  /\ \A t \in Tables : \E last \in Nat : Segments(t) = 0 .. last
<1> DEFINE p == pointers_per_embedded_table
           Reached == {p} \cup {segment_index_of(i) : i \in Push}
<1>1. \A i \in Push : Seg(i) \in Nat /\ Seg(i) <= i
  BY SegmentOfIndex, PushTypes
<1>2. Reached \in SUBSET Nat /\ Reached # {} /\ p \in Reached /\ p \in Nat /\ p > 0
  BY <1>1, PushTypes DEF Seg
<1>3. \A m \in Reached : m <= PUSHES + p
  BY <1>1, PushTypes DEF Seg
<1>4. PUSHES + p \in Nat
  BY PushTypes
<1> HIDE DEF p, Reached
<1>41. \E largest \in Reached : \A m \in Reached : m <= largest
  BY <1>2, <1>3, <1>4, LargestElement
<1>5. \E largest \in Reached : \A m \in Reached : largest >= m
  BY <1>2, <1>41
<1>6. Max(Reached) \in Reached /\ \A m \in Reached : Max(Reached) >= m
  BY <1>5 DEF Max
<1>7. Segments("long") = 0 .. Max(Reached) /\ Segments("embedded") = 0 .. p - 1
  BY DEF Segments, Reached, p
<1>8. \A i \in Push : Seg(i) \in Reached
  BY DEF Seg, Reached
<1>9. embedded_table_size = segment_base(p)
  BY <1>2 DEF embedded_table_size, segment_size, segment_base, p
<1>10. \A i \in Nat : i < embedded_table_size <=> Seg(i) < p
  BY <1>2, <1>9, BeforeSegment
<1>11. Max(Reached) \in Nat /\ Max(Reached) >= p
  BY <1>2, <1>6
<1>12. \A i \in Push : Seg(i) \in Segments("long")
  <2> SUFFICES ASSUME NEW i \in Push
               PROVE  Seg(i) \in Segments("long")
    OBVIOUS
  <2>1. Seg(i) \in Nat /\ Seg(i) <= Max(Reached)
    BY <1>1, <1>2, <1>6, <1>8
  <2>2. QED
    BY <1>7, <1>11, <2>1
<1>13. Segments("embedded") \subseteq Segments("long")
  BY <1>2, <1>7, <1>11
<1>14. \A t \in Tables : \E last \in Nat : Segments(t) = 0 .. last
  <2>1. p - 1 \in Nat
    BY <1>2
  <2>2. QED
    BY <1>7, <1>11, <2>1 DEF Tables
<1>15. \A t \in Tables : Segments(t) \in SUBSET Nat /\ 0 \in Segments(t)
  BY <1>14
<1>16. QED
  BY <1>1, <1>7, <1>10, <1>12, <1>13, <1>14, <1>15 DEF p

\* What the embedded table has room for.
LEMMA InEmbedded ==
  ASSUME NEW i \in Push
  PROVE  /\ Seg(i) \in Segments("embedded") <=> i < embedded_table_size
         /\ embedded_table_size \in Nat
<1>1. embedded_table_size \in Nat
  <2>1. embedded_table_size = segment_base(pointers_per_embedded_table)
    BY PushTypes DEF embedded_table_size, segment_size, segment_base
  <2>2. QED
    BY <2>1, BaseOfSegment, PushTypes
<1>2. QED
  BY <1>1, SegmentSets, PushTypes

\* What it means that nothing has failed.
LEMMA UnharmedMeans ==
  ASSUME TypeOK
  PROVE  Unharmed <=> /\ ~ allocation_failed
                      /\ \A t \in Tables : \A s \in Segments(t) : slot[t][s] # failure_tag
BY DEF TypeOK, Unharmed, Range

-------------------------------------------------------------------------------
(* The invariant.                                                          *)

\* The initial states satisfy the invariant.
LEMMA InitInv == Init => IInv
<1> SUFFICES ASSUME Init
             PROVE  IInv
  OBVIOUS
<1>1. TypeOK
  <2>1. \A t \in Tables : slot[t] \in [Segments(t) -> Blocks]
    BY DEF Init, Blocks
  <2>2. DOMAIN slot = Tables
    BY DEF Init
  <2>3. pc \in [Push -> Places] /\ table \in [Push -> Tables] /\ segment \in [Push -> Blocks]
    BY DEF Init, Places, Tables, Blocks
  <2>4. memory \in [Push -> [Push -> Push \cup {Garbage, Zeroes}]]
    BY DEF Init
  <2>5. /\ my_size \in 0 .. PUSHES /\ my_segment_table \in Tables
        /\ allocated \subseteq Push
    BY PushTypes DEF Init, Tables
  <2>8. allocation_failed \in BOOLEAN /\ joined \in BOOLEAN
    BY DEF Init
  <2>6. \A k \in DOMAIN read : read[k] \in Push \cup {Garbage, Zeroes}
    BY DEF Init
  <2>7. QED
    BY <2>1, <2>2, <2>3, <2>4, <2>5, <2>6, <2>8 DEF TypeOK
<1>2. Unharmed
  BY <1>1, UnharmedMeans, PushTypes DEF Init
<1>3. ClaimInv /\ SegmentInv /\ WhereInv /\ AllocateInv /\ MemoryInv /\ ReadableInv
      /\ LeakInv /\ FailureInv
  BY <1>2, PushTypes DEF Init, ClaimInv, SegmentInv, WhereInv, AllocateInv, MemoryInv, ReadableInv, LeakInv,
     FailureInv
<1>4. SlotInv
  BY PushTypes DEF Init, SlotInv
<1>5. TableInv
  <2>1. ~ Copied
    BY DEF Init, Copied
  <2>2. QED
    BY <2>1 DEF Init, TableInv, Tables
<1>6. ThrewInv
  BY DEF Init, ThrewInv
<1>7. QED
  BY <1>1, <1>3, <1>4, <1>5, <1>6 DEF IInv


\* The same of the next state.
LEMMA UnharmedNext ==
  ASSUME TypeOK'
  PROVE  Unharmed' <=> /\ ~ allocation_failed'
                       /\ \A t \in Tables : \A s \in Segments(t) : slot'[t][s] # failure_tag
BY DEF TypeOK, Unharmed, Range

\* The tables and what their slots hold.
LEMMA TableTypes ==
  ASSUME TypeOK
  PROVE  /\ my_segment_table \in Tables /\ "embedded" \in Tables /\ "long" \in Tables
         /\ \A i \in Push : table[i] \in Tables
         /\ \A t \in Tables : t = "embedded" \/ t = "long"
         /\ \A t \in Tables : \A s \in Segments(t) :
              slot[t][s] \in Push \/ slot[t][s] = null \/ slot[t][s] = failure_tag
         /\ \A b \in allocated : b \in Push
BY DEF TypeOK, Tables, Blocks

\* As long as nothing has failed, segment 0 has not.
LEMMA NotSpoiled ==
  ASSUME TypeOK, Unharmed
  PROVE  ~ Spoiled
BY UnharmedMeans, TableTypes, SegmentSets DEF Spoiled

\* What a push finds in the table it uses is in the table that is in use.
LEMMA FoundIsThere ==
  ASSUME TypeOK, TableInv, NEW j \in Push, Seg(j) \in Segments(table[j])
  PROVE  /\ Seg(j) \in Segments(my_segment_table)
         /\ slot[my_segment_table][Seg(j)] = Slot(j) \/ Spoiled
<1>1. CASE table[j] = my_segment_table
  BY <1>1 DEF Slot
<1>2. CASE table[j] = "embedded" /\ my_segment_table = "long"
  <2>1. slot["long"][Seg(j)] = slot["embedded"][Seg(j)] \/ Spoiled
    BY <1>2 DEF TableInv, Copied
  <2>2. QED
    BY <1>2, <2>1, SegmentSets DEF Slot
<1>3. QED
  BY <1>1, <1>2, TableTypes DEF TableInv

\* Storing to one slot.
LEMMA StoreSlot ==
  ASSUME TypeOK, NEW u \in Tables, NEW r \in Segments(u), NEW v \in Blocks,
         slot' = [slot EXCEPT ![u][r] = v]
  PROVE  /\ DOMAIN slot' = Tables
         /\ \A t \in Tables : slot'[t] \in [Segments(t) -> Blocks]
         /\ slot'[u][r] = v
         /\ \A t \in Tables : \A s \in Segments(t) : ~ (t = u /\ s = r) => slot'[t][s] = slot[t][s]
<1>1. DOMAIN slot = Tables /\ \A t \in Tables : slot[t] \in [Segments(t) -> Blocks]
  BY DEF TypeOK
<1>2. slot' = [t \in Tables |-> IF t = u THEN [slot[u] EXCEPT ![r] = v] ELSE slot[t]]
  BY <1>1
<1>3. QED
  BY <1>1, <1>2

\* Subscript keeps the invariant.
LEMMA SubscriptKeeps ==
  ASSUME IInv, NEW i \in Push, Subscript(i)
  PROVE  IInv'
<1>1. /\ TypeOK /\ ClaimInv /\ SlotInv /\ SegmentInv /\ TableInv /\ WhereInv
      /\ AllocateInv /\ MemoryInv /\ ReadableInv /\ LeakInv /\ FailureInv /\ ThrewInv
  BY DEF IInv
<1>2. /\ pc[i] = "subscript"
      /\ pc'[i] \in {"lookup", "extend", "await_table"}
      /\ pc'[i] = "lookup" => my_segment_table = "long" \/ i < embedded_table_size
      /\ pc'[i] = "extend" => i = embedded_table_size /\ my_segment_table = "embedded"
      /\ pc'[i] = "await_table" => i > embedded_table_size
      /\ \A j \in Push : j # i => pc'[j] = pc[j]
      /\ table'[i] = my_segment_table
      /\ \A j \in Push : j # i => table'[j] = table[j]
      /\ UNCHANGED <<my_size, my_segment_table, slot, allocation_failed, segment, memory, allocated, joined>>
  BY <1>1, SegmentSets, TableTypes, PushTypes, InEmbedded DEF Subscript, Goto, TypeOK
<1>3. TypeOK'
  BY <1>1, <1>2, SegmentSets, TableTypes, PushTypes DEF Subscript, Goto, TypeOK, Places, Tables, Blocks, Slot
<1>4. \A b \in Push : \A s : Placed(b, s) => Placed(b, s)'
  BY <1>2 DEF Placed
<1>5. Unharmed' <=> Unharmed
  BY <1>2 DEF Unharmed, Range
<1>6. Copied' <=> Copied
  BY <1>1, <1>2 DEF Copied, TableInv
<1>7. ClaimInv'
  BY <1>1, <1>2 DEF ClaimInv, Ended
<1>8. SlotInv'
  BY <1>1, <1>2, <1>4, TableTypes, PushTypes, SegmentSets DEF SlotInv
<1>9. SegmentInv'
  BY <1>1, <1>2, <1>4, TableTypes DEF SegmentInv
<1>10. TableInv'
  BY <1>1, <1>2, <1>6, TableTypes, SegmentSets DEF TableInv, Spoiled
<1>11. WhereInv'
  BY <1>1, <1>2, TableTypes, SegmentSets, InEmbedded DEF WhereInv
<1>12. AllocateInv'
  BY <1>1, <1>2, TableTypes, SegmentSets DEF AllocateInv, Slot
<1>13. MemoryInv'
  BY <1>1, <1>2 DEF MemoryInv
<1>14. ReadableInv'
  BY <1>1, <1>2, TableTypes DEF ReadableInv, Spoiled
<1>15. LeakInv'
  BY <1>1, <1>2, <1>5, TableTypes DEF LeakInv
<1>16. FailureInv'
  BY <1>1, <1>2, <1>5 DEF FailureInv
<1>17. ThrewInv'
  <2>1. \A j \in Push : Cause(j) => Cause(j)'
    BY <1>1, <1>2, TableTypes, SegmentSets DEF Cause, Spoiled, ReadAt
  <2>2. QED
    BY <1>1, <1>2, <2>1 DEF ThrewInv
<1>18. QED
  BY <1>3, <1>7, <1>8, <1>9, <1>10, <1>11, <1>12, <1>13, <1>14, <1>15, <1>16, <1>17 DEF IInv

\* CopyTable keeps the invariant.
LEMMA CopyTableKeeps ==
  ASSUME IInv, NEW i \in Push, CopyTable(i)
  PROVE  IInv'
<1>1. /\ TypeOK /\ ClaimInv /\ SlotInv /\ SegmentInv /\ TableInv /\ WhereInv
      /\ AllocateInv /\ MemoryInv /\ ReadableInv /\ LeakInv /\ FailureInv /\ ThrewInv
  BY DEF IInv
<1>2. /\ pc[i] = "extend"
      /\ pc'[i] = "publish"
      /\ \A j \in Push : j # i => pc'[j] = pc[j]
      /\ slot'["embedded"] = slot["embedded"]
      /\ \A s \in Segments("embedded") : slot["embedded"][s] # null
      /\ \A s \in Segments("embedded") : slot'["long"][s] = slot["embedded"][s]
      /\ \A s \in Segments("long") : s \notin Segments("embedded") => slot'["long"][s] = null
      /\ UNCHANGED <<my_size, my_segment_table, allocation_failed, table, segment, memory, allocated, joined>>
  BY <1>1, SegmentSets, TableTypes, PushTypes DEF CopyTable, Goto, TypeOK, EmbeddedTableIsFilled
<1>3. TypeOK'
  BY <1>1, <1>2, SegmentSets, TableTypes, PushTypes DEF CopyTable, Goto, TypeOK, Places, Tables, Blocks, Slot
<1>4. \A b \in Push : \A s : Placed(b, s) => Placed(b, s)'
  BY <1>2 DEF Placed
<1>5. Unharmed' <=> Unharmed
  <2>1. \A s \in Segments("long") : slot["long"][s] = null
    <3>1. ~ Copied
      BY <1>1, <1>2 DEF Copied, TableInv
    <3>2. QED
      BY <1>1, <3>1 DEF TableInv
  <2>2. ASSUME Unharmed
        PROVE  \A t \in Tables : \A s \in Segments(t) : slot'[t][s] # failure_tag
    <3>1. \A s \in Segments("embedded") : slot["embedded"][s] # failure_tag
      BY <1>1, <2>2, UnharmedMeans, TableTypes
    <3>2. \A s \in Segments("long") : slot'["long"][s] # failure_tag
      BY <1>2, <3>1, PushTypes
    <3>3. QED
      BY <1>2, <3>1, <3>2, TableTypes, <1>1
  <2>3. ASSUME Unharmed'
        PROVE  \A t \in Tables : \A s \in Segments(t) : slot[t][s] # failure_tag
    <3>1. \A s \in Segments("embedded") : slot'["embedded"][s] # failure_tag
      BY <1>1, <1>3, <2>3, UnharmedNext, TableTypes
    <3>2. QED
      BY <1>1, <1>2, <2>1, <3>1, TableTypes, PushTypes
  <2>4. allocation_failed' = allocation_failed
    BY <1>2
  <2>5. QED
    BY <1>1, <1>3, <2>2, <2>3, <2>4, UnharmedMeans, UnharmedNext
<1>6. Copied'
  BY <1>1, <1>2 DEF Copied, TableInv
<1>7. ClaimInv'
  BY <1>1, <1>2 DEF ClaimInv, Ended
<1>8. SlotInv'
  <2>1. \A s \in Segments("embedded") :
          slot["embedded"][s] \in Push => Placed(slot["embedded"][s], s)'
    BY <1>1, <1>2, <1>4, TableTypes DEF SlotInv, Placed
  <2>2. \A s \in Segments("long") : slot'["long"][s] \in Push =>
          s \in Segments("embedded") /\ slot'["long"][s] = slot["embedded"][s]
    BY <1>2, PushTypes
  <2>3. \A s \in Segments("long") : slot'["long"][s] \in Push => Placed(slot["long"][s], s)'
    <3> SUFFICES ASSUME NEW s \in Segments("long"), slot'["long"][s] \in Push
                 PROVE  Placed(slot["long"][s], s)'
      OBVIOUS
    <3>1. s \in Segments("embedded") /\ slot'["long"][s] = slot["embedded"][s]
      BY <2>2
    <3>2. QED
      BY <1>2, <2>1, <3>1 DEF Placed
  <2>4. \A s \in Segments("embedded") : slot'["embedded"][s] \in Push => Placed(slot["embedded"][s], s)'
    BY <1>2, <2>1 DEF Placed
  <2>5. QED
    BY <1>1, <2>3, <2>4, TableTypes DEF SlotInv
<1>9. SegmentInv'
  BY <1>1, <1>2, <1>4, TableTypes DEF SegmentInv
<1>10. TableInv'
  BY <1>1, <1>2, <1>6, TableTypes, SegmentSets DEF TableInv, Spoiled
<1>11. WhereInv'
  BY <1>1, <1>2, TableTypes, SegmentSets, InEmbedded DEF WhereInv
<1>12. AllocateInv'
  <2>1. \A j \in Push : table[j] = "embedded"
    BY <1>1, <1>2, TableTypes DEF TableInv
  <2>2. \A j \in Push : Slot(j)' = Slot(j)
    BY <1>2, <2>1 DEF Slot
  <2>3. QED
    BY <1>1, <1>2, <2>2 DEF AllocateInv, Allocates
<1>13. MemoryInv'
  BY <1>1, <1>2 DEF MemoryInv
<1>14. ReadableInv'
  BY <1>1, <1>2, TableTypes DEF ReadableInv, TableInv, Spoiled
<1>15. LeakInv'
  BY <1>1, <1>2, <1>5, TableTypes DEF LeakInv, TableInv
<1>16. FailureInv'
  BY <1>1, <1>2, <1>5 DEF FailureInv
<1>17. ThrewInv'
  <2>1. my_segment_table = "embedded"
    BY <1>1, <1>2 DEF TableInv
  <2>2. \A j \in Push : Cause(j) => Cause(j)'
    BY <1>2, <2>1 DEF Cause, Spoiled, ReadAt
  <2>3. QED
    BY <1>1, <1>2, <2>2 DEF ThrewInv
<1>18. QED
  BY <1>3, <1>7, <1>8, <1>9, <1>10, <1>11, <1>12, <1>13, <1>14, <1>15, <1>16, <1>17 DEF IInv

\* PublishTable keeps the invariant.
LEMMA PublishTableKeeps ==
  ASSUME IInv, NEW i \in Push, PublishTable(i)
  PROVE  IInv'
<1>1. /\ TypeOK /\ ClaimInv /\ SlotInv /\ SegmentInv /\ TableInv /\ WhereInv
      /\ AllocateInv /\ MemoryInv /\ ReadableInv /\ LeakInv /\ FailureInv /\ ThrewInv
  BY DEF IInv
<1>2. /\ pc[i] = "publish"
      /\ pc'[i] = "lookup"
      /\ \A j \in Push : j # i => pc'[j] = pc[j]
      /\ table'[i] = "long"
      /\ \A j \in Push : j # i => table'[j] = table[j]
      /\ my_segment_table' = "long"
      /\ UNCHANGED <<my_size, slot, allocation_failed, segment, memory, allocated, joined>>
  BY <1>1, SegmentSets, TableTypes, PushTypes DEF PublishTable, Goto, TypeOK
<1>3. TypeOK'
  BY <1>1, <1>2, SegmentSets, TableTypes, PushTypes DEF PublishTable, Goto, TypeOK, Places, Tables, Blocks, Slot
<1>4. \A b \in Push : \A s : Placed(b, s) => Placed(b, s)'
  BY <1>2 DEF Placed
<1>5. Unharmed' <=> Unharmed
  BY <1>2 DEF Unharmed, Range
<1>6. Copied'
  BY <1>1, <1>2 DEF Copied, TableInv
<1>7. ClaimInv'
  BY <1>1, <1>2 DEF ClaimInv, Ended
<1>8. SlotInv'
  BY <1>1, <1>2, <1>4, TableTypes, PushTypes, SegmentSets DEF SlotInv
<1>9. SegmentInv'
  BY <1>1, <1>2, <1>4, TableTypes DEF SegmentInv
<1>10. TableInv'
  <2>1. my_segment_table' = "long" /\ i = embedded_table_size
    BY <1>1, <1>2 DEF TableInv
  <2>2. \A j \in Push : pc'[j] \notin {"extend", "publish"}
    BY <1>1, <1>2, <2>1 DEF TableInv
  <2>3. Copied
    BY <1>2 DEF Copied
  <2>4. QED
    BY <1>1, <1>2, <1>6, <2>1, <2>2, <2>3 DEF TableInv, Spoiled
<1>11. WhereInv'
  BY <1>1, <1>2, TableTypes, SegmentSets, InEmbedded DEF WhereInv
<1>12. AllocateInv'
  BY <1>1, <1>2, TableTypes, SegmentSets DEF AllocateInv, Slot
<1>13. MemoryInv'
  BY <1>1, <1>2 DEF MemoryInv
<1>14. ReadableInv'
  <2>1. Copied /\ my_segment_table = "embedded"
    BY <1>1, <1>2 DEF Copied, TableInv
  <2>2. \A s \in Segments("embedded") : slot["long"][s] = slot["embedded"][s] \/ Spoiled
    BY <1>1, <2>1 DEF TableInv
  <2>3. Spoiled' = Spoiled
    BY <1>2 DEF Spoiled
  <2>4. QED
    BY <1>1, <1>2, <2>1, <2>2, <2>3, SegmentSets DEF ReadableInv
<1>15. LeakInv'
  <2>1. Copied /\ my_segment_table = "embedded"
    BY <1>1, <1>2 DEF Copied, TableInv
  <2>2. Unharmed => \A s \in Segments("embedded") : slot["long"][s] = slot["embedded"][s]
    BY <1>1, <2>1, NotSpoiled DEF TableInv
  <2>3. QED
    BY <1>1, <1>2, <1>5, <2>1, <2>2, SegmentSets, TableTypes DEF LeakInv
<1>16. FailureInv'
  BY <1>1, <1>2, <1>5 DEF FailureInv
<1>17. ThrewInv'
  <2>1. Copied /\ my_segment_table = "embedded" /\ i = embedded_table_size
    BY <1>1, <1>2 DEF Copied, TableInv
  <2>2. ~ allocation_failed
    BY <1>1, <1>2, <2>1 DEF ThrewInv
  <2>3. \A s \in Segments("embedded") : slot["long"][s] = slot["embedded"][s] \/ Spoiled
    BY <1>1, <2>1 DEF TableInv
  <2>4. \A j \in Push : Cause(j) => Cause(j)'
    BY <1>2, <2>1, <2>2, <2>3, SegmentSets DEF Cause, Spoiled, ReadAt
  <2>5. QED
    BY <1>1, <1>2, <2>2, <2>4 DEF ThrewInv
<1>18. QED
  BY <1>3, <1>7, <1>8, <1>9, <1>10, <1>11, <1>12, <1>13, <1>14, <1>15, <1>16, <1>17 DEF IInv

\* FailToExtend keeps the invariant.
LEMMA FailToExtendKeeps ==
  ASSUME IInv, NEW i \in Push, FailToExtend(i)
  PROVE  IInv'
<1>1. /\ TypeOK /\ ClaimInv /\ SlotInv /\ SegmentInv /\ TableInv /\ WhereInv
      /\ AllocateInv /\ MemoryInv /\ ReadableInv /\ LeakInv /\ FailureInv /\ ThrewInv
  BY DEF IInv
<1>2. /\ pc[i] = "extend"
      /\ pc'[i] = "threw"
      /\ \A j \in Push : j # i => pc'[j] = pc[j]
      /\ allocation_failed' = TRUE
      /\ UNCHANGED <<my_size, my_segment_table, slot, table, segment, memory, allocated, joined>>
  BY <1>1, SegmentSets, TableTypes, PushTypes DEF FailToExtend, Goto, TypeOK, FailedFlag
<1>3. TypeOK'
  BY <1>1, <1>2, SegmentSets, TableTypes, PushTypes DEF FailToExtend, Goto, TypeOK, Places, Tables, Blocks, Slot
<1>4. \A b \in Push : \A s : Placed(b, s) => Placed(b, s)'
  BY <1>2 DEF Placed
<1>5. ~ Unharmed'
  BY <1>1, <1>2, <1>3, UnharmedMeans, UnharmedNext, TableTypes, SegmentSets
<1>6. Copied' <=> Copied
  BY <1>1, <1>2 DEF Copied, TableInv
<1>7. ClaimInv'
  BY <1>1, <1>2 DEF ClaimInv, Ended
<1>8. SlotInv'
  BY <1>1, <1>2, <1>4, TableTypes, PushTypes, SegmentSets DEF SlotInv
<1>9. SegmentInv'
  BY <1>1, <1>2, <1>4, TableTypes DEF SegmentInv
<1>10. TableInv'
  BY <1>1, <1>2, <1>6, TableTypes, SegmentSets DEF TableInv, Spoiled
<1>11. WhereInv'
  BY <1>1, <1>2, TableTypes, SegmentSets, InEmbedded DEF WhereInv
<1>12. AllocateInv'
  BY <1>1, <1>2, TableTypes, SegmentSets DEF AllocateInv, Slot
<1>13. MemoryInv'
  BY <1>1, <1>2 DEF MemoryInv
<1>14. ReadableInv'
  BY <1>1, <1>2, TableTypes DEF ReadableInv, Spoiled
<1>15. LeakInv'
  BY <1>1, <1>2, <1>5, TableTypes DEF LeakInv
<1>16. FailureInv'
  BY <1>1, <1>2, <1>5 DEF FailureInv
<1>17. ThrewInv'
  <2>1. \A j \in Push : Cause(j) => Cause(j)'
    BY <1>1, <1>2, TableTypes, SegmentSets DEF Cause, Spoiled, ReadAt
  <2>2. i = embedded_table_size /\ my_segment_table = "embedded"
    BY <1>1, <1>2 DEF TableInv
  <2>3. Cause(i)'
    BY <1>2, <2>2, InEmbedded DEF Cause
  <2>4. QED
    BY <1>1, <1>2, <2>1, <2>2, <2>3 DEF ThrewInv
<1>18. QED
  BY <1>3, <1>7, <1>8, <1>9, <1>10, <1>11, <1>12, <1>13, <1>14, <1>15, <1>16, <1>17 DEF IInv

\* AwaitTable keeps the invariant.
LEMMA AwaitTableKeeps ==
  ASSUME IInv, NEW i \in Push, AwaitTable(i)
  PROVE  IInv'
<1>1. /\ TypeOK /\ ClaimInv /\ SlotInv /\ SegmentInv /\ TableInv /\ WhereInv
      /\ AllocateInv /\ MemoryInv /\ ReadableInv /\ LeakInv /\ FailureInv /\ ThrewInv
  BY DEF IInv
<1>2. /\ pc[i] = "await_table"
      /\ \/ pc'[i] = "threw" /\ table'[i] = table[i]
         \/ pc'[i] = "lookup" /\ table'[i] = "long" /\ my_segment_table = "long"
      /\ \A j \in Push : j # i => pc'[j] = pc[j]
      /\ \A j \in Push : j # i => table'[j] = table[j]
      /\ UNCHANGED <<my_size, my_segment_table, slot, allocation_failed, segment, memory, allocated, joined>>
  <2>1. /\ pc[i] = "await_table"
        /\ UNCHANGED <<my_size, my_segment_table, slot, allocation_failed, segment, memory, allocated, joined>>
    BY DEF AwaitTable
  <2>2. CASE Goto(i, "threw") /\ table' = table
    <3>1. pc'[i] = "threw" /\ \A j \in Push : j # i => pc'[j] = pc[j]
      BY <1>1, <2>2 DEF Goto, TypeOK
    <3>2. QED
      BY <2>1, <2>2, <3>1
  <2>3. CASE my_segment_table = "long" /\ table' = [table EXCEPT ![i] = "long"] /\ Goto(i, "lookup")
    BY <1>1, <2>1, <2>3 DEF Goto, TypeOK
  <2>4. QED
    BY <2>2, <2>3 DEF AwaitTable
<1>3. TypeOK'
  <2>1. CASE Goto(i, "threw") /\ table' = table
    <3>1. pc' \in [Push -> Places]
      BY <1>1, <2>1 DEF Goto, TypeOK, Places
    <3>2. QED
      BY <1>1, <1>2, <2>1, <3>1 DEF AwaitTable, TypeOK
  <2>2. CASE table' = [table EXCEPT ![i] = "long"] /\ Goto(i, "lookup")
    <3>1. pc' \in [Push -> Places] /\ table' \in [Push -> Tables]
      BY <1>1, <2>2 DEF Goto, TypeOK, Places, Tables
    <3>2. QED
      BY <1>1, <1>2, <3>1 DEF AwaitTable, TypeOK
  <2>3. QED
    BY <2>1, <2>2 DEF AwaitTable
<1>4. \A b \in Push : \A s : Placed(b, s) => Placed(b, s)'
  BY <1>2 DEF Placed
<1>5. Unharmed' <=> Unharmed
  BY <1>2 DEF Unharmed, Range
<1>6. Copied' <=> Copied
  BY <1>1, <1>2 DEF Copied, TableInv
<1>7. ClaimInv'
  BY <1>1, <1>2 DEF ClaimInv, Ended
<1>8. SlotInv'
  BY <1>1, <1>2, <1>4, TableTypes, PushTypes, SegmentSets DEF SlotInv
<1>9. SegmentInv'
  BY <1>1, <1>2, <1>4, TableTypes DEF SegmentInv
<1>10. TableInv'
  BY <1>1, <1>2, <1>6, TableTypes, SegmentSets DEF TableInv, Spoiled
<1>11. WhereInv'
  BY <1>1, <1>2, TableTypes, SegmentSets, InEmbedded DEF WhereInv
<1>12. AllocateInv'
  BY <1>1, <1>2, TableTypes, SegmentSets DEF AllocateInv, Slot
<1>13. MemoryInv'
  BY <1>1, <1>2 DEF MemoryInv
<1>14. ReadableInv'
  BY <1>1, <1>2, TableTypes DEF ReadableInv, Spoiled
<1>15. LeakInv'
  BY <1>1, <1>2, <1>5, TableTypes DEF LeakInv
<1>16. FailureInv'
  BY <1>1, <1>2, <1>5 DEF FailureInv
<1>17. ThrewInv'
  <2>1. \A j \in Push : Cause(j) => Cause(j)'
    BY <1>1, <1>2, TableTypes, SegmentSets DEF Cause, Spoiled, ReadAt
  <2>2. pc'[i] = "threw" => allocation_failed
    <3>1. CASE allocation_failed
      BY <3>1
    <3>2. CASE Goto(i, "lookup")
      BY <1>1, <3>2 DEF Goto, TypeOK
    <3>3. QED
      BY <3>1, <3>2 DEF AwaitTable
  <2>3. i >= embedded_table_size
    BY <1>1, <1>2, InEmbedded, PushTypes DEF ThrewInv
  <2>4. pc'[i] = "threw" => Cause(i)'
    BY <1>2, <2>2, <2>3 DEF Cause
  <2>5. QED
    BY <1>1, <1>2, <2>1, <2>4 DEF ThrewInv
<1>18. QED
  BY <1>3, <1>7, <1>8, <1>9, <1>10, <1>11, <1>12, <1>13, <1>14, <1>15, <1>16, <1>17 DEF IInv

\* Lookup keeps the invariant.
LEMMA LookupKeeps ==
  ASSUME IInv, NEW i \in Push, Lookup(i)
  PROVE  IInv'
<1>1. /\ TypeOK /\ ClaimInv /\ SlotInv /\ SegmentInv /\ TableInv /\ WhereInv
      /\ AllocateInv /\ MemoryInv /\ ReadableInv /\ LeakInv /\ FailureInv /\ ThrewInv
  BY DEF IInv
<1>2. /\ pc[i] = "lookup"
      /\ \/ pc'[i] = "threw" /\ Slot(i) = failure_tag
         \/ pc'[i] = "create" /\ Slot(i) = null
         \/ pc'[i] = "construct" /\ Slot(i) \in Push
      /\ \A j \in Push : j # i => pc'[j] = pc[j]
      /\ segment'[i] = Slot(i)
      /\ \A j \in Push : j # i => segment'[j] = segment[j]
      /\ UNCHANGED <<my_size, my_segment_table, slot, allocation_failed, table, memory, allocated, joined>>
  <2>1. Slot(i) = failure_tag \/ Slot(i) = null \/ Slot(i) \in Push
    BY <1>1, TableTypes DEF Lookup, WhereInv, Slot
  <2>2. /\ pc[i] = "lookup"
        /\ segment' = [segment EXCEPT ![i] = Slot(i)]
        /\ UNCHANGED <<my_size, my_segment_table, slot, allocation_failed, table, memory,
                       allocated, joined>>
    BY DEF Lookup
  <2>3. CASE Slot(i) = failure_tag
    <3>1. pc' = [pc EXCEPT ![i] = "threw"]
      BY <2>3, PushTypes DEF Lookup, Goto
    <3>2. pc'[i] = "threw" /\ \A j \in Push : j # i => pc'[j] = pc[j]
      BY <1>1, <3>1 DEF TypeOK
    <3>3. segment'[i] = Slot(i) /\ \A j \in Push : j # i => segment'[j] = segment[j]
      BY <1>1, <2>2 DEF TypeOK
    <3>4. QED
      BY <2>2, <2>3, <3>2, <3>3
  <2>4. CASE Slot(i) = null
    <3>1. pc' = [pc EXCEPT ![i] = "create"]
      BY <2>4, PushTypes DEF Lookup, Goto
    <3>2. pc'[i] = "create" /\ \A j \in Push : j # i => pc'[j] = pc[j]
      BY <1>1, <3>1 DEF TypeOK
    <3>3. segment'[i] = Slot(i) /\ \A j \in Push : j # i => segment'[j] = segment[j]
      BY <1>1, <2>2 DEF TypeOK
    <3>4. QED
      BY <2>2, <2>4, <3>2, <3>3
  <2>5. CASE Slot(i) \in Push
    <3>1. Slot(i) # null /\ Slot(i) # failure_tag
      BY <2>5, PushTypes
    <3>2. pc' = [pc EXCEPT ![i] = "construct"]
      BY <3>1 DEF Lookup, Goto
    <3>3. QED
      BY <1>1, <2>2, <2>5, <3>2 DEF TypeOK
  <2>6. QED
    BY <2>1, <2>3, <2>4, <2>5
<1>3. TypeOK'
  <2>1. segment' \in [Push -> Blocks]
    BY <1>1, <1>2, TableTypes DEF Lookup, TypeOK, WhereInv, Slot, Blocks
  <2>2. pc' \in [Push -> Places]
    BY <1>1 DEF Lookup, Goto, TypeOK, Places
  <2>3. QED
    BY <1>1, <1>2, <2>1, <2>2 DEF Lookup, TypeOK
<1>4. \A b \in Push : \A s : Placed(b, s) => Placed(b, s)'
  BY <1>2 DEF Placed
<1>5. Unharmed' <=> Unharmed
  BY <1>2 DEF Unharmed, Range
<1>6. Copied' <=> Copied
  BY <1>1, <1>2 DEF Copied, TableInv
<1>7. ClaimInv'
  BY <1>1, <1>2 DEF ClaimInv, Ended
<1>8. SlotInv'
  BY <1>1, <1>2, <1>4, TableTypes, PushTypes, SegmentSets DEF SlotInv
<1>9. SegmentInv'
  <2>1. Slot(i) \in Push => Placed(Slot(i), Seg(i))'
    BY <1>1, <1>2, <1>4, TableTypes DEF SlotInv, WhereInv, Slot
  <2>2. segment'[i] \in Push => Placed(segment[i], Seg(i))'
    BY <1>2, <2>1 DEF Placed, Slot
  <2>3. \A j \in Push : j # i /\ pc[j] \in {"construct", "returned"} =>
          segment'[j] \in Push /\ Placed(segment[j], Seg(j))'
    BY <1>1, <1>2, <1>4 DEF SegmentInv, Placed
  <2>4. QED
    BY <1>2, <2>2, <2>3 DEF SegmentInv
<1>10. TableInv'
  BY <1>1, <1>2, <1>6, TableTypes, SegmentSets DEF TableInv, Spoiled
<1>11. WhereInv'
  BY <1>1, <1>2, TableTypes, SegmentSets, InEmbedded DEF WhereInv, TableInv, Copied, Slot
<1>12. AllocateInv'
  BY <1>1, <1>2, TableTypes, SegmentSets DEF AllocateInv, Slot
<1>13. MemoryInv'
  BY <1>1, <1>2 DEF MemoryInv
<1>14. ReadableInv'
  <2>1. Seg(i) \in Segments(table[i])
    BY <1>1, <1>2 DEF WhereInv
  <2>2. /\ Seg(i) \in Segments(my_segment_table)
        /\ segment'[i] = slot[my_segment_table][Seg(i)] \/ Spoiled
    BY <1>1, <1>2, <2>1, FoundIsThere
  <2>3. Spoiled' = Spoiled
    BY <1>2 DEF Spoiled
  <2>4. QED
    BY <1>1, <1>2, <2>2, <2>3 DEF ReadableInv
<1>15. LeakInv'
  BY <1>1, <1>2, <1>5, TableTypes DEF LeakInv
<1>16. FailureInv'
  BY <1>1, <1>2, <1>5 DEF FailureInv
<1>17. ThrewInv'
  <2>1. \A j \in Push : Cause(j) => Cause(j)'
    BY <1>1, <1>2, TableTypes, SegmentSets DEF Cause, Spoiled, ReadAt
  <2>2. Seg(i) \in Segments(table[i])
    BY <1>1, <1>2 DEF WhereInv
  <2>3. pc'[i] = "threw" => Cause(i)
    BY <1>1, <1>2, <2>2, FoundIsThere DEF Cause
  <2>4. QED
    BY <1>1, <1>2, <2>1, <2>3 DEF ThrewInv
<1>18. QED
  BY <1>3, <1>7, <1>8, <1>9, <1>10, <1>11, <1>12, <1>13, <1>14, <1>15, <1>16, <1>17 DEF IInv

\* Create keeps the invariant.
LEMMA CreateKeeps ==
  ASSUME IInv, NEW i \in Push, Create(i)
  PROVE  IInv'
<1>1. /\ TypeOK /\ ClaimInv /\ SlotInv /\ SegmentInv /\ TableInv /\ WhereInv
      /\ AllocateInv /\ MemoryInv /\ ReadableInv /\ LeakInv /\ FailureInv /\ ThrewInv
  BY DEF IInv
<1>2. /\ pc[i] = "create"
      /\ pc'[i] \in {"wait", "allocate_first", "allocate"}
      /\ pc'[i] = "allocate_first" => Seg(i) = 0
      /\ pc'[i] = "allocate" => Seg(i) # 0 /\ Allocates(i)
      /\ \A j \in Push : j # i => pc'[j] = pc[j]
      /\ UNCHANGED <<my_size, my_segment_table, slot, allocation_failed, table, segment, memory, allocated, joined>>
  BY <1>1, SegmentSets, TableTypes, PushTypes DEF Create, Goto, TypeOK
<1>3. TypeOK'
  BY <1>1, <1>2, SegmentSets, TableTypes, PushTypes DEF Create, Goto, TypeOK, Places, Tables, Blocks, Slot
<1>4. \A b \in Push : \A s : Placed(b, s) => Placed(b, s)'
  BY <1>2 DEF Placed
<1>5. Unharmed' <=> Unharmed
  BY <1>2 DEF Unharmed, Range
<1>6. Copied' <=> Copied
  BY <1>1, <1>2 DEF Copied, TableInv
<1>7. ClaimInv'
  BY <1>1, <1>2 DEF ClaimInv, Ended
<1>8. SlotInv'
  BY <1>1, <1>2, <1>4, TableTypes, PushTypes, SegmentSets DEF SlotInv
<1>9. SegmentInv'
  BY <1>1, <1>2, <1>4, TableTypes DEF SegmentInv
<1>10. TableInv'
  BY <1>1, <1>2, <1>6, TableTypes, SegmentSets DEF TableInv, Spoiled
<1>11. WhereInv'
  BY <1>1, <1>2, TableTypes, SegmentSets, InEmbedded DEF WhereInv
<1>12. AllocateInv'
  BY <1>1, <1>2, TableTypes, SegmentSets DEF AllocateInv, Slot
<1>13. MemoryInv'
  BY <1>1, <1>2 DEF MemoryInv
<1>14. ReadableInv'
  BY <1>1, <1>2, TableTypes DEF ReadableInv, Spoiled
<1>15. LeakInv'
  BY <1>1, <1>2, <1>5, TableTypes DEF LeakInv
<1>16. FailureInv'
  BY <1>1, <1>2, <1>5 DEF FailureInv
<1>17. ThrewInv'
  <2>1. \A j \in Push : Cause(j) => Cause(j)'
    BY <1>1, <1>2, TableTypes, SegmentSets DEF Cause, Spoiled, ReadAt
  <2>2. QED
    BY <1>1, <1>2, <2>1 DEF ThrewInv
<1>18. QED
  BY <1>3, <1>7, <1>8, <1>9, <1>10, <1>11, <1>12, <1>13, <1>14, <1>15, <1>16, <1>17 DEF IInv

\* AllocateFirst keeps the invariant.
LEMMA AllocateFirstKeeps ==
  ASSUME IInv, NEW i \in Push, AllocateFirst(i)
  PROVE  IInv'
<1>1. /\ TypeOK /\ ClaimInv /\ SlotInv /\ SegmentInv /\ TableInv /\ WhereInv
      /\ AllocateInv /\ MemoryInv /\ ReadableInv /\ LeakInv /\ FailureInv /\ ThrewInv
  BY DEF IInv
<1>2. /\ pc[i] = "allocate_first"
      /\ pc'[i] = "install"
      /\ \A j \in Push : j # i => pc'[j] = pc[j]
      /\ allocated' = allocated \cup {i}
      /\ UNCHANGED <<my_size, my_segment_table, slot, allocation_failed, table, segment, memory, joined>>
  BY <1>1, SegmentSets, TableTypes, PushTypes DEF AllocateFirst, Goto, TypeOK
<1>3. TypeOK'
  BY <1>1, <1>2, SegmentSets, TableTypes, PushTypes DEF AllocateFirst, Goto, TypeOK, Places, Tables, Blocks, Slot
<1>4. \A b \in Push : \A s : Placed(b, s) => Placed(b, s)'
  BY <1>2 DEF Placed
<1>5. Unharmed' <=> Unharmed
  BY <1>2 DEF Unharmed, Range
<1>6. Copied' <=> Copied
  BY <1>1, <1>2 DEF Copied, TableInv
<1>7. ClaimInv'
  BY <1>1, <1>2 DEF ClaimInv, Ended
<1>8. SlotInv'
  BY <1>1, <1>2, <1>4, TableTypes, PushTypes, SegmentSets DEF SlotInv
<1>9. SegmentInv'
  BY <1>1, <1>2, <1>4, TableTypes DEF SegmentInv
<1>10. TableInv'
  BY <1>1, <1>2, <1>6, TableTypes, SegmentSets DEF TableInv, Spoiled
<1>11. WhereInv'
  BY <1>1, <1>2, TableTypes, SegmentSets, InEmbedded DEF WhereInv
<1>12. AllocateInv'
  BY <1>1, <1>2, TableTypes, SegmentSets DEF AllocateInv, Slot
<1>13. MemoryInv'
  BY <1>1, <1>2 DEF MemoryInv
<1>14. ReadableInv'
  BY <1>1, <1>2, TableTypes DEF ReadableInv, Spoiled
<1>15. LeakInv'
  BY <1>1, <1>2, <1>5, TableTypes DEF LeakInv
<1>16. FailureInv'
  BY <1>1, <1>2, <1>5 DEF FailureInv
<1>17. ThrewInv'
  <2>1. \A j \in Push : Cause(j) => Cause(j)'
    BY <1>1, <1>2, TableTypes, SegmentSets DEF Cause, Spoiled, ReadAt
  <2>2. QED
    BY <1>1, <1>2, <2>1 DEF ThrewInv
<1>18. QED
  BY <1>3, <1>7, <1>8, <1>9, <1>10, <1>11, <1>12, <1>13, <1>14, <1>15, <1>16, <1>17 DEF IInv

\* InstallFirst keeps the invariant.
LEMMA InstallFirstKeeps ==
  ASSUME IInv, NEW i \in Push, Install(i), slot[table[i]][0] = null
  PROVE  IInv'
<1>1. /\ TypeOK /\ ClaimInv /\ SlotInv /\ SegmentInv /\ TableInv /\ WhereInv
      /\ AllocateInv /\ MemoryInv /\ ReadableInv /\ LeakInv /\ FailureInv /\ ThrewInv
  BY DEF IInv
<1>2. /\ pc[i] = "install"
      /\ pc'[i] = "load"
      /\ \A j \in Push : j # i => pc'[j] = pc[j]
      /\ table[i] = "embedded" /\ Seg(i) = 0
      /\ slot["embedded"][0] = null
      /\ slot'["embedded"][0] = i
      /\ DOMAIN slot' = Tables
      /\ \A t \in Tables : slot'[t] \in [Segments(t) -> Blocks]
      /\ \A t \in Tables : \A s \in Segments(t) :
           ~ (t = "embedded" /\ s = 0) => slot'[t][s] = slot[t][s]
      /\ UNCHANGED <<my_size, my_segment_table, allocation_failed, table, segment, memory, allocated, joined>>
  <2>1. table[i] = "embedded" /\ Seg(i) = 0
    BY <1>1, TableTypes, SegmentSets DEF Install, WhereInv, AllocateInv
  <2>2. slot["embedded"][0] = null /\ 0 \in Segments("embedded") /\ i \in Blocks
    BY <2>1, SegmentSets, TableTypes, <1>1 DEF Blocks
  <2>3. slot' = [slot EXCEPT !["embedded"][0] = i]
    BY <2>1 DEF Install
  <2>4. /\ DOMAIN slot' = Tables
        /\ \A t \in Tables : slot'[t] \in [Segments(t) -> Blocks]
        /\ slot'["embedded"][0] = i
        /\ \A t \in Tables : \A s \in Segments(t) :
             ~ (t = "embedded" /\ s = 0) => slot'[t][s] = slot[t][s]
    <3>1. TypeOK /\ "embedded" \in Tables
      BY <1>1, TableTypes
    <3>2. QED
      BY <2>2, <2>3, <3>1, StoreSlot
  <2>5. QED
    BY <1>1, <2>1, <2>2, <2>4, TableTypes DEF Install, Goto, TypeOK
<1>3. TypeOK'
  <2>1. pc' \in [Push -> Places]
    BY <1>1 DEF Install, Goto, TypeOK, Places
  <2>2. QED
    BY <1>1, <1>2, <2>1 DEF Install, TypeOK
<1>4. \A b \in Push : \A s : Placed(b, s) => Placed(b, s)'
  BY <1>2 DEF Placed
<1>5. Unharmed' <=> Unharmed
  <2>1. \A t \in Tables : \A s \in Segments(t) : slot'[t][s] = failure_tag <=> slot[t][s] = failure_tag
    BY <1>2, PushTypes
  <2>2. QED
    BY <1>1, <1>2, <1>3, <2>1, UnharmedMeans, UnharmedNext
<1>6. Copied' <=> Copied
  BY <1>1, <1>2 DEF Copied, TableInv
<1>7. ClaimInv'
  BY <1>1, <1>2 DEF ClaimInv, Ended
<1>8. SlotInv'
  <2>1. Placed(i, 0)'
    BY <1>1, <1>2 DEF Placed, AllocateInv
  <2> SUFFICES ASSUME NEW t \in Tables, NEW s \in Segments(t), slot'[t][s] \in Push
               PROVE  Placed(slot[t][s], s)'
    BY DEF SlotInv
  <2>2. CASE t = "embedded" /\ s = 0
    BY <1>2, <2>1, <2>2 DEF Placed
  <2>3. CASE ~ (t = "embedded" /\ s = 0)
    <3>1. slot'[t][s] = slot[t][s] /\ Placed(slot[t][s], s)
      BY <1>1, <1>2, <2>3 DEF SlotInv
    <3>2. Placed(slot[t][s], s)'
      BY <1>2, <1>4, <3>1 DEF Placed
    <3>3. QED
      BY <3>2
  <2>4. QED
    BY <2>2, <2>3
<1>9. SegmentInv'
  BY <1>1, <1>2, <1>4, TableTypes DEF SegmentInv
<1>10. TableInv'
  <2>1. ~ Copied
    BY <1>1, <1>2, SegmentSets, TableTypes DEF TableInv
  <2>2. \A s \in Segments("long") : slot'["long"][s] = slot["long"][s]
    BY <1>1, <1>2, TableTypes
  <2>3. QED
    BY <1>1, <1>2, <1>6, <2>1, <2>2 DEF TableInv
<1>11. WhereInv'
  BY <1>1, <1>2, TableTypes, SegmentSets, InEmbedded DEF WhereInv
<1>12. AllocateInv'
  <2>1. ~ \E j \in Push : pc[j] = "mark"
    BY <1>1, <1>2, PushTypes DEF AllocateInv
  <2>2. \A j \in Push : Seg(j) \in Segments(table[j]) /\ Seg(j) # 0 => Slot(j)' = Slot(j)
    BY <1>1, <1>2, TableTypes DEF Slot
  <2>3. \A j \in Push : pc[j] \in {"create", "allocate"} /\ Seg(j) # 0 /\ Allocates(j) => Slot(j)' = null
    BY <1>1, <1>2, <2>2, PushTypes DEF AllocateInv, WhereInv
  <2>4. \A j \in Push : pc[j] = "load" => Slot(j)' # null
    <3> SUFFICES ASSUME NEW j \in Push, pc[j] = "load"
                 PROVE  slot'[table[j]][Seg(j)] # null
      BY <1>2 DEF Slot
    <3>1. slot[table[j]][Seg(j)] # null /\ Seg(j) \in Segments(table[j]) /\ table[j] \in Tables
      BY <1>1, TableTypes DEF AllocateInv, WhereInv, Slot
    <3>2. QED
      BY <1>2, <3>1
  <2>5. Slot(i)' # null
    BY <1>2, PushTypes DEF Slot
  <2>6. QED
    BY <1>1, <1>2, <2>1, <2>3, <2>4, <2>5 DEF AllocateInv, Allocates
<1>13. MemoryInv'
  BY <1>1, <1>2 DEF MemoryInv
<1>14. ReadableInv'
  <2>1. my_segment_table = "embedded" /\ ~ Spoiled
    BY <1>1, <1>2, SegmentSets, TableTypes, PushTypes DEF TableInv, Copied, Spoiled
  <2> SUFFICES ASSUME NEW j \in Push, pc[j] \in {"construct", "returned"}
               PROVE  /\ Seg(j) \in Segments("embedded")
                      /\ segment[j] = slot'["embedded"][Seg(j)]
    BY <1>2, <2>1 DEF ReadableInv
  <2>2. Seg(j) \in Segments("embedded") /\ segment[j] = slot["embedded"][Seg(j)] /\ segment[j] \in Push
    BY <1>1, <2>1 DEF ReadableInv, SegmentInv
  <2>3. ~ Seg(j) = 0
    BY <1>2, <2>2, PushTypes
  <2>4. QED
    BY <1>1, <1>2, <2>2, <2>3, TableTypes
<1>15. LeakInv'
  <2>1. my_segment_table = "embedded"
    BY <1>1, <1>2, SegmentSets, TableTypes DEF TableInv, Copied
  <2> SUFFICES ASSUME Unharmed, NEW b \in allocated, b # i, pc[b] # "install"
               PROVE  /\ Seg(b) \in Segments("embedded")
                      /\ slot'["embedded"][Seg(b)] = b
    <3>1. Seg(i) \in Segments("embedded") /\ slot'["embedded"][Seg(i)] = i
      BY <1>1, <1>2, SegmentSets, TableTypes
    <3>2. \A b \in allocated : b # i => pc'[b] = pc[b]
      BY <1>1, <1>2, TableTypes
    <3>3. QED
      BY <1>2, <1>5, <2>1, <3>1, <3>2 DEF LeakInv
  <2>2. Seg(b) \in Segments("embedded") /\ slot["embedded"][Seg(b)] = b /\ b \in Push
    BY <1>1, <2>1, TableTypes DEF LeakInv
  <2>3. ~ Seg(b) = 0
    BY <1>2, <2>2, PushTypes
  <2>4. QED
    BY <1>1, <1>2, <2>2, <2>3, TableTypes
<1>16. FailureInv'
  BY <1>1, <1>2, <1>5 DEF FailureInv
<1>17. ThrewInv'
  <2>1. my_segment_table = "embedded" /\ ~ Spoiled
    BY <1>1, <1>2, SegmentSets, TableTypes, PushTypes DEF TableInv, Copied, Spoiled
  <2> SUFFICES ASSUME NEW j \in Push, Cause(j)
               PROVE  Cause(j)'
    BY <1>1, <1>2 DEF ThrewInv
  <2>2. CASE Seg(j) \in Segments("embedded") /\ slot["embedded"][Seg(j)] = failure_tag
    <3>1. slot'["embedded"][Seg(j)] = failure_tag
      BY <1>1, <1>2, <2>2, TableTypes, PushTypes
    <3>2. QED
      BY <1>2, <2>1, <2>2, <3>1 DEF Cause
  <2>3. ASSUME Seg(j) \in Segments("embedded"), slot["embedded"][Seg(j)] \in Push
        PROVE  slot'["embedded"][Seg(j)] = slot["embedded"][Seg(j)]
    BY <1>1, <1>2, <2>3, TableTypes, PushTypes
  <2>4. QED
    BY <1>2, <2>1, <2>2, <2>3 DEF Cause, ReadAt
<1>18. QED
  BY <1>3, <1>7, <1>8, <1>9, <1>10, <1>11, <1>12, <1>13, <1>14, <1>15, <1>16, <1>17 DEF IInv

\* InstallSecond keeps the invariant.
LEMMA InstallSecondKeeps ==
  ASSUME IInv, NEW i \in Push, Install(i), slot[table[i]][0] # null
  PROVE  IInv'
<1>1. /\ TypeOK /\ ClaimInv /\ SlotInv /\ SegmentInv /\ TableInv /\ WhereInv
      /\ AllocateInv /\ MemoryInv /\ ReadableInv /\ LeakInv /\ FailureInv /\ ThrewInv
  BY DEF IInv
<1>2. /\ pc[i] = "install"
      /\ pc'[i] = "wait"
      /\ \A j \in Push : j # i => pc'[j] = pc[j]
      /\ allocated' = allocated \ {i}
      /\ UNCHANGED <<my_size, my_segment_table, slot, allocation_failed, table, segment, memory, joined>>
  BY <1>1, SegmentSets, TableTypes, PushTypes DEF Install, Goto, TypeOK, GivesBack
<1>3. TypeOK'
  <2>1. pc' \in [Push -> Places]
    BY <1>1 DEF Install, Goto, TypeOK, Places
  <2>2. QED
    BY <1>1, <1>2, <2>1 DEF Install, TypeOK
<1>4. \A b \in Push : \A s : Placed(b, s) => Placed(b, s)'
  BY <1>2 DEF Placed
<1>5. Unharmed' <=> Unharmed
  BY <1>2 DEF Unharmed, Range
<1>6. Copied' <=> Copied
  BY <1>1, <1>2 DEF Copied, TableInv
<1>7. ClaimInv'
  BY <1>1, <1>2 DEF ClaimInv, Ended
<1>8. SlotInv'
  BY <1>1, <1>2, <1>4, TableTypes, PushTypes, SegmentSets DEF SlotInv
<1>9. SegmentInv'
  BY <1>1, <1>2, <1>4, TableTypes DEF SegmentInv
<1>10. TableInv'
  BY <1>1, <1>2, <1>6, TableTypes, SegmentSets DEF TableInv, Spoiled
<1>11. WhereInv'
  BY <1>1, <1>2, TableTypes, SegmentSets, InEmbedded DEF WhereInv
<1>12. AllocateInv'
  BY <1>1, <1>2, TableTypes, SegmentSets DEF AllocateInv, Slot
<1>13. MemoryInv'
  BY <1>1, <1>2 DEF MemoryInv
<1>14. ReadableInv'
  BY <1>1, <1>2, TableTypes DEF ReadableInv, Spoiled
<1>15. LeakInv'
  BY <1>1, <1>2, <1>5, TableTypes DEF LeakInv
<1>16. FailureInv'
  BY <1>1, <1>2, <1>5 DEF FailureInv
<1>17. ThrewInv'
  <2>1. \A j \in Push : Cause(j) => Cause(j)'
    BY <1>1, <1>2, TableTypes, SegmentSets DEF Cause, Spoiled, ReadAt
  <2>2. QED
    BY <1>1, <1>2, <2>1 DEF ThrewInv
<1>18. QED
  BY <1>3, <1>7, <1>8, <1>9, <1>10, <1>11, <1>12, <1>13, <1>14, <1>15, <1>16, <1>17 DEF IInv

\* FailFirstFirst keeps the invariant.
LEMMA FailFirstFirstKeeps ==
  ASSUME IInv, NEW i \in Push, FailFirst(i), slot[table[i]][0] = null
  PROVE  IInv'
<1>1. /\ TypeOK /\ ClaimInv /\ SlotInv /\ SegmentInv /\ TableInv /\ WhereInv
      /\ AllocateInv /\ MemoryInv /\ ReadableInv /\ LeakInv /\ FailureInv /\ ThrewInv
  BY DEF IInv
<1>2. /\ pc[i] = "allocate_first"
      /\ pc'[i] = "mark"
      /\ \A j \in Push : j # i => pc'[j] = pc[j]
      /\ table[i] = "embedded" /\ Seg(i) = 0
      /\ slot["embedded"][0] = null
      /\ slot'["embedded"][0] = failure_tag
      /\ DOMAIN slot' = Tables
      /\ \A t \in Tables : slot'[t] \in [Segments(t) -> Blocks]
      /\ \A t \in Tables : \A s \in Segments(t) :
           ~ (t = "embedded" /\ s = 0) => slot'[t][s] = slot[t][s]
      /\ UNCHANGED <<my_size, my_segment_table, allocation_failed, table, segment, memory, allocated, joined>>
  <2>1. table[i] = "embedded" /\ Seg(i) = 0
    BY <1>1, TableTypes, SegmentSets DEF FailFirst, WhereInv, AllocateInv
  <2>2. slot["embedded"][0] = null /\ 0 \in Segments("embedded") /\ failure_tag \in Blocks
    BY <2>1, SegmentSets, TableTypes, <1>1 DEF Blocks
  <2>3. slot' = [slot EXCEPT !["embedded"][0] = failure_tag]
    BY <2>1 DEF FailFirst
  <2>4. /\ DOMAIN slot' = Tables
        /\ \A t \in Tables : slot'[t] \in [Segments(t) -> Blocks]
        /\ slot'["embedded"][0] = failure_tag
        /\ \A t \in Tables : \A s \in Segments(t) :
             ~ (t = "embedded" /\ s = 0) => slot'[t][s] = slot[t][s]
    <3>1. TypeOK /\ "embedded" \in Tables
      BY <1>1, TableTypes
    <3>2. QED
      BY <2>2, <2>3, <3>1, StoreSlot
  <2>5. QED
    BY <1>1, <2>1, <2>2, <2>4, TableTypes DEF FailFirst, Goto, TypeOK
<1>3. TypeOK'
  <2>1. pc' \in [Push -> Places]
    BY <1>1 DEF FailFirst, Goto, TypeOK, Places
  <2>2. QED
    BY <1>1, <1>2, <2>1 DEF FailFirst, TypeOK
<1>4. \A b \in Push : \A s : Placed(b, s) => Placed(b, s)'
  BY <1>2 DEF Placed
<1>5. ~ Unharmed'
  BY <1>1, <1>2, <1>3, UnharmedMeans, UnharmedNext, TableTypes, SegmentSets
<1>6. Copied' <=> Copied
  BY <1>1, <1>2 DEF Copied, TableInv
<1>7. ClaimInv'
  BY <1>1, <1>2 DEF ClaimInv, Ended
<1>8. SlotInv'
  <2> SUFFICES ASSUME NEW t \in Tables, NEW s \in Segments(t), slot'[t][s] \in Push
               PROVE  Placed(slot[t][s], s)'
    BY DEF SlotInv
  <2>1. slot'[t][s] = slot[t][s]
    BY <1>2, PushTypes
  <2>2. Placed(slot[t][s], s)
    BY <1>1, <2>1 DEF SlotInv
  <2>3. QED
    BY <1>4, <2>1, <2>2 DEF Placed
<1>9. SegmentInv'
  BY <1>1, <1>2, <1>4, TableTypes DEF SegmentInv
<1>10. TableInv'
  <2>1. ~ Copied
    BY <1>1, <1>2, SegmentSets, TableTypes DEF TableInv
  <2>2. \A s \in Segments("long") : slot'["long"][s] = slot["long"][s]
    BY <1>1, <1>2, TableTypes
  <2>3. QED
    BY <1>1, <1>2, <1>6, <2>1, <2>2 DEF TableInv
<1>11. WhereInv'
  BY <1>1, <1>2, TableTypes, SegmentSets, InEmbedded DEF WhereInv
<1>12. AllocateInv'
  <2>1. ~ \E j \in Push : pc[j] = "mark"
    BY <1>1, <1>2, PushTypes DEF AllocateInv
  <2>2. \A j \in Push : Seg(j) \in Segments(table[j]) /\ Seg(j) # 0 => Slot(j)' = Slot(j)
    BY <1>1, <1>2, TableTypes DEF Slot
  <2>3. \A j \in Push : pc[j] \in {"create", "allocate"} /\ Seg(j) # 0 /\ Allocates(j) => Slot(j)' = null
    BY <1>1, <1>2, <2>2, PushTypes DEF AllocateInv, WhereInv
  <2>4. \A j \in Push : pc[j] = "load" => Slot(j)' # null
    <3> SUFFICES ASSUME NEW j \in Push, pc[j] = "load"
                 PROVE  slot'[table[j]][Seg(j)] # null
      BY <1>2 DEF Slot
    <3>1. slot[table[j]][Seg(j)] # null /\ Seg(j) \in Segments(table[j]) /\ table[j] \in Tables
      BY <1>1, TableTypes DEF AllocateInv, WhereInv, Slot
    <3>2. QED
      BY <1>2, <3>1
  <2>6. QED
    BY <1>1, <1>2, <2>1, <2>3, <2>4 DEF AllocateInv, Allocates
<1>13. MemoryInv'
  BY <1>1, <1>2 DEF MemoryInv
<1>14. ReadableInv'
  BY <1>1, <1>2, TableTypes DEF ReadableInv, Spoiled
<1>15. LeakInv'
  BY <1>1, <1>2, <1>5, TableTypes DEF LeakInv
<1>16. FailureInv'
  BY <1>1, <1>2, <1>5 DEF FailureInv
<1>17. ThrewInv'
  <2>1. \A j \in Push : Cause(j)'
    BY <1>2 DEF Cause, Spoiled, ReadAt
  <2>2. QED
    BY <1>1, <1>2, <2>1 DEF ThrewInv
<1>18. QED
  BY <1>3, <1>7, <1>8, <1>9, <1>10, <1>11, <1>12, <1>13, <1>14, <1>15, <1>16, <1>17 DEF IInv

\* FailFirstSecond keeps the invariant.
LEMMA FailFirstSecondKeeps ==
  ASSUME IInv, NEW i \in Push, FailFirst(i), slot[table[i]][0] # null
  PROVE  IInv'
<1>1. /\ TypeOK /\ ClaimInv /\ SlotInv /\ SegmentInv /\ TableInv /\ WhereInv
      /\ AllocateInv /\ MemoryInv /\ ReadableInv /\ LeakInv /\ FailureInv /\ ThrewInv
  BY DEF IInv
<1>2. /\ pc[i] = "allocate_first"
      /\ pc'[i] = "threw"
      /\ \A j \in Push : j # i => pc'[j] = pc[j]
      /\ UNCHANGED <<my_size, my_segment_table, slot, allocation_failed, table, segment, memory, allocated, joined>>
  BY <1>1, SegmentSets, TableTypes, PushTypes DEF FailFirst, Goto, TypeOK
<1>3. TypeOK'
  <2>1. pc' \in [Push -> Places]
    BY <1>1 DEF FailFirst, Goto, TypeOK, Places
  <2>2. QED
    BY <1>1, <1>2, <2>1 DEF FailFirst, TypeOK
<1>4. \A b \in Push : \A s : Placed(b, s) => Placed(b, s)'
  BY <1>2 DEF Placed
<1>5. Unharmed' <=> Unharmed
  BY <1>2 DEF Unharmed, Range
<1>6. Copied' <=> Copied
  BY <1>1, <1>2 DEF Copied, TableInv
<1>7. ClaimInv'
  BY <1>1, <1>2 DEF ClaimInv, Ended
<1>8. SlotInv'
  BY <1>1, <1>2, <1>4, TableTypes, PushTypes, SegmentSets DEF SlotInv
<1>9. SegmentInv'
  BY <1>1, <1>2, <1>4, TableTypes DEF SegmentInv
<1>10. TableInv'
  BY <1>1, <1>2, <1>6, TableTypes, SegmentSets DEF TableInv, Spoiled
<1>11. WhereInv'
  BY <1>1, <1>2, TableTypes, SegmentSets, InEmbedded DEF WhereInv
<1>12. AllocateInv'
  BY <1>1, <1>2, TableTypes, SegmentSets DEF AllocateInv, Slot
<1>13. MemoryInv'
  BY <1>1, <1>2 DEF MemoryInv
<1>14. ReadableInv'
  BY <1>1, <1>2, TableTypes DEF ReadableInv, Spoiled
<1>15. LeakInv'
  BY <1>1, <1>2, <1>5, TableTypes DEF LeakInv
<1>16. FailureInv'
  BY <1>1, <1>2, <1>5 DEF FailureInv
<1>17. ThrewInv'
  <2>1. \A j \in Push : Cause(j) => Cause(j)'
    BY <1>1, <1>2, TableTypes, SegmentSets DEF Cause, Spoiled, ReadAt
  <2>2. Seg(i) = 0 /\ table[i] = "embedded"
    BY <1>1, <1>2, TableTypes, SegmentSets DEF AllocateInv, WhereInv
  <2>3. Cause(i)'
    BY <1>2, <2>2 DEF Cause, FailFirst
  <2>4. QED
    BY <1>1, <1>2, <2>1, <2>3 DEF ThrewInv
<1>18. QED
  BY <1>3, <1>7, <1>8, <1>9, <1>10, <1>11, <1>12, <1>13, <1>14, <1>15, <1>16, <1>17 DEF IInv

\* MarkFailed keeps the invariant.
LEMMA MarkFailedKeeps ==
  ASSUME IInv, NEW i \in Push, MarkFailed(i)
  PROVE  IInv'
<1>1. /\ TypeOK /\ ClaimInv /\ SlotInv /\ SegmentInv /\ TableInv /\ WhereInv
      /\ AllocateInv /\ MemoryInv /\ ReadableInv /\ LeakInv /\ FailureInv /\ ThrewInv
  BY DEF IInv
<1>2. /\ pc[i] = "mark"
      /\ pc'[i] = "threw"
      /\ table[i] = "embedded"
      /\ \A j \in Push : j # i => pc'[j] = pc[j]
      /\ slot'["long"] = slot["long"]
      /\ \A s \in Segments("embedded") : slot'["embedded"][s] = failure_tag
      /\ UNCHANGED <<my_size, my_segment_table, allocation_failed, table, segment, memory, allocated, joined>>
  BY <1>1, SegmentSets, TableTypes, PushTypes DEF MarkFailed, Goto, TypeOK, WhereInv, AllocateInv, Tables
<1>3. TypeOK'
  BY <1>1, <1>2, SegmentSets, TableTypes, PushTypes DEF MarkFailed, Goto, TypeOK, Places, Tables, Blocks, Slot
<1>4. \A b \in Push : \A s : Placed(b, s) => Placed(b, s)'
  BY <1>2 DEF Placed
<1>5. ~ Unharmed'
  BY <1>1, <1>2, <1>3, UnharmedMeans, UnharmedNext, TableTypes, SegmentSets
<1>6. Copied' <=> Copied
  BY <1>1, <1>2 DEF Copied, TableInv
<1>7. ClaimInv'
  BY <1>1, <1>2 DEF ClaimInv, Ended
<1>8. SlotInv'
  <2>1. \A s \in Segments("embedded") : slot'["embedded"][s] \notin Push
    BY <1>2, PushTypes
  <2>2. \A s \in Segments("long") : slot'["long"][s] \in Push => Placed(slot["long"][s], s)'
    BY <1>1, <1>2, <1>4, TableTypes DEF SlotInv, Placed
  <2>3. QED
    BY <1>1, <2>1, <2>2, TableTypes DEF SlotInv
<1>9. SegmentInv'
  BY <1>1, <1>2, <1>4, TableTypes DEF SegmentInv
<1>10. TableInv'
  <2>1. \A s \in Segments("embedded") : slot'["embedded"][s] # null
    BY <1>2, PushTypes
  <2>2. Spoiled /\ Spoiled'
    BY <1>1, <1>2, SegmentSets, TableTypes DEF AllocateInv, Spoiled
  <2>3. QED
    BY <1>1, <1>2, <1>6, <2>1, <2>2 DEF TableInv
<1>11. WhereInv'
  BY <1>1, <1>2, TableTypes, SegmentSets, InEmbedded DEF WhereInv
<1>12. AllocateInv'
  <2>1. slot'["embedded"][0] = failure_tag
    BY <1>2, SegmentSets, TableTypes, <1>1
  <2>2. \A j \in Push : pc[j] = "load" => Slot(j)' # null
    <3> SUFFICES ASSUME NEW j \in Push, pc[j] = "load"
                 PROVE  slot'[table[j]][Seg(j)] # null
      BY <1>2 DEF Slot
    <3>1. slot[table[j]][Seg(j)] # null /\ Seg(j) \in Segments(table[j]) /\ table[j] \in Tables
      BY <1>1, TableTypes DEF AllocateInv, WhereInv, Slot
    <3>2. QED
      BY <1>1, <1>2, <3>1, TableTypes, PushTypes
  <2>3. QED
    BY <1>1, <1>2, <2>1, <2>2 DEF AllocateInv, Allocates
<1>13. MemoryInv'
  BY <1>1, <1>2 DEF MemoryInv
<1>14. ReadableInv'
  <2>1. Spoiled'
    BY <1>1, <1>2, SegmentSets, TableTypes DEF Spoiled
  <2>2. QED
    BY <1>1, <1>2, <2>1 DEF ReadableInv
<1>15. LeakInv'
  BY <1>1, <1>2, <1>5, TableTypes DEF LeakInv
<1>16. FailureInv'
  BY <1>1, <1>2, <1>5 DEF FailureInv
<1>17. ThrewInv'
  <2>1. Spoiled'
    BY <1>1, <1>2, SegmentSets, TableTypes DEF Spoiled
  <2>2. \A j \in Push : Cause(j)'
    BY <2>1 DEF Cause
  <2>3. QED
    BY <1>1, <1>2, <2>2 DEF ThrewInv
<1>18. QED
  BY <1>3, <1>7, <1>8, <1>9, <1>10, <1>11, <1>12, <1>13, <1>14, <1>15, <1>16, <1>17 DEF IInv

\* AllocateSegment keeps the invariant.
LEMMA AllocateSegmentKeeps ==
  ASSUME IInv, NEW i \in Push, AllocateSegment(i), pc'[i] = "load"
  PROVE  IInv'
<1>1. /\ TypeOK /\ ClaimInv /\ SlotInv /\ SegmentInv /\ TableInv /\ WhereInv
      /\ AllocateInv /\ MemoryInv /\ ReadableInv /\ LeakInv /\ FailureInv /\ ThrewInv
  BY DEF IInv
<1>2. /\ pc[i] = "allocate"
      /\ pc'[i] = "load"
      /\ \A j \in Push : j # i => pc'[j] = pc[j]
      /\ Seg(i) # 0 /\ i = segment_base(Seg(i))
      /\ Seg(i) \in Segments(table[i]) /\ table[i] \in Tables
      /\ slot[table[i]][Seg(i)] = null \/ slot["embedded"][0] = failure_tag
      /\ slot'[table[i]][Seg(i)] = i
      /\ \A t \in Tables : \A s \in Segments(t) :
          ~ (t = table[i] /\ s = Seg(i)) => slot'[t][s] = slot[t][s]
      /\ DOMAIN slot' = Tables
      /\ \A t \in Tables : slot'[t] \in [Segments(t) -> Blocks]
      /\ allocated' = allocated \cup {i}
      /\ UNCHANGED <<my_size, my_segment_table, allocation_failed, table, segment, memory, joined>>
  <2>1. /\ pc[i] = "allocate" /\ Seg(i) # 0 /\ i = segment_base(Seg(i))
        /\ Seg(i) \in Segments(table[i]) /\ table[i] \in Tables
        /\ slot[table[i]][Seg(i)] = null \/ slot["embedded"][0] = failure_tag
    BY <1>1, TableTypes DEF AllocateSegment, WhereInv, AllocateInv, Allocates, Slot
  <2>2. /\ Goto(i, "load")
        /\ slot' = [slot EXCEPT ![table[i]][Seg(i)] = i]
        /\ allocated' = allocated \cup {i}
    <3>1. \A u \in Places : Goto(i, u) => pc'[i] = u
      BY <1>1 DEF Goto, TypeOK
    <3>2. "load" \in Places /\ "threw" \in Places
      BY DEF Places
    <3>3. QED
      BY <3>1, <3>2 DEF AllocateSegment, StoredOnFailure
  <2>3. /\ DOMAIN slot' = Tables
        /\ \A t \in Tables : slot'[t] \in [Segments(t) -> Blocks]
        /\ slot'[table[i]][Seg(i)] = i
        /\ \A t \in Tables : \A s \in Segments(t) :
             ~ (t = table[i] /\ s = Seg(i)) => slot'[t][s] = slot[t][s]
    <3>1. i \in Blocks
      BY DEF Blocks
    <3>2. QED
      BY <1>1, <2>1, <2>2, <3>1, StoreSlot
  <2>4. pc'[i] = "load" /\ \A j \in Push : j # i => pc'[j] = pc[j]
    BY <1>1, <2>2 DEF Goto, TypeOK
  <2>5. UNCHANGED <<my_size, my_segment_table, allocation_failed, table, segment, memory, joined>>
    BY DEF AllocateSegment
  <2>6. QED
    BY <2>1, <2>2, <2>3, <2>4, <2>5
<1>3. TypeOK'
  <2>1. pc' \in [Push -> Places]
    BY <1>1 DEF AllocateSegment, Goto, TypeOK, Places
  <2>2. QED
    BY <1>1, <1>2, <2>1 DEF AllocateSegment, TypeOK
<1>4. \A b \in Push : \A s : Placed(b, s) => Placed(b, s)'
  BY <1>2 DEF Placed
<1>5. Unharmed' <=> Unharmed
  <2>1. CASE slot["embedded"][0] = failure_tag
    <3>1. 0 \in Segments("embedded") /\ slot'["embedded"][0] = failure_tag
      BY <1>1, <1>2, <2>1, SegmentSets, TableTypes
    <3>2. QED
      BY <1>1, <1>3, <2>1, <3>1, UnharmedMeans, UnharmedNext, TableTypes
  <2>2. CASE slot[table[i]][Seg(i)] = null
    <3>1. \A t \in Tables : \A s \in Segments(t) : slot'[t][s] = failure_tag <=> slot[t][s] = failure_tag
      BY <1>2, <2>2, PushTypes
    <3>2. QED
      BY <1>1, <1>2, <1>3, <3>1, UnharmedMeans, UnharmedNext
  <2>3. QED
    BY <1>2, <2>1, <2>2
<1>6. Copied' <=> Copied
  BY <1>1, <1>2 DEF Copied, TableInv
<1>7. ClaimInv'
  BY <1>1, <1>2 DEF ClaimInv, Ended
<1>8. SlotInv'
  <2>1. Placed(i, Seg(i))'
    BY <1>2 DEF Placed
  <2> SUFFICES ASSUME NEW t \in Tables, NEW s \in Segments(t), slot'[t][s] \in Push
               PROVE  Placed(slot[t][s], s)'
    BY DEF SlotInv
  <2>2. CASE t = table[i] /\ s = Seg(i)
    BY <1>2, <2>1, <2>2 DEF Placed
  <2>3. CASE ~ (t = table[i] /\ s = Seg(i))
    <3>1. slot'[t][s] = slot[t][s] /\ Placed(slot[t][s], s)
      BY <1>1, <1>2, <2>3 DEF SlotInv
    <3>2. Placed(slot[t][s], s)'
      BY <1>2, <1>4, <3>1 DEF Placed
    <3>3. QED
      BY <3>2
  <2>4. QED
    BY <2>2, <2>3
<1>9. SegmentInv'
  BY <1>1, <1>2, <1>4, TableTypes DEF SegmentInv
<1>10. TableInv'
  <2>1. CASE ~ Copied
    <3>1. table[i] = "embedded"
      BY <1>1, <2>1, TableTypes DEF TableInv, Copied
    <3>2. \A s \in Segments("long") : slot'["long"][s] = slot["long"][s]
      BY <1>1, <1>2, <3>1, TableTypes
    <3>3. QED
      BY <1>1, <1>2, <1>6, <2>1, <3>2 DEF TableInv
  <2>2. CASE Copied
    <3>1. \A t \in Tables : \A s \in Segments("embedded") : slot[t][s] # null /\ s \in Segments(t)
      BY <1>1, <2>2, TableTypes, SegmentSets DEF TableInv
    <3>2. \A t \in Tables : \A s \in Segments("embedded") : slot'[t][s] # null
      BY <1>2, <3>1, PushTypes
    <3>3. /\ Spoiled' = Spoiled
          /\ slot'["long"][0] = slot["long"][0]
      BY <1>1, <1>2, TableTypes, SegmentSets DEF Spoiled
    <3>4. \A s \in Segments("embedded") : slot'["long"][s] = slot'["embedded"][s] \/ Spoiled
      <4>1. Spoiled \/ Seg(i) \notin Segments("embedded")
        BY <1>2, <3>1 DEF Spoiled
      <4>2. Spoiled \/ \A s \in Segments("embedded") :
                         /\ slot'["long"][s] = slot["long"][s]
                         /\ slot'["embedded"][s] = slot["embedded"][s]
        BY <1>1, <1>2, <3>1, <4>1, TableTypes
      <4>3. QED
        BY <1>1, <2>2, <4>2 DEF TableInv
    <3>5. QED
      BY <1>1, <1>2, <1>6, <2>2, <3>2, <3>3, <3>4, TableTypes DEF TableInv
  <2>3. QED
    BY <2>1, <2>2
<1>11. WhereInv'
  BY <1>1, <1>2, TableTypes, SegmentSets, InEmbedded DEF WhereInv
<1>12. AllocateInv'
  <2>1. slot["embedded"][0] = failure_tag => slot'["embedded"][0] = failure_tag
    BY <1>1, <1>2, SegmentSets, TableTypes
  <2>2. \A j \in Push : pc[j] = "load" => Slot(j)' # null
    <3> SUFFICES ASSUME NEW j \in Push, pc[j] = "load"
                 PROVE  slot'[table[j]][Seg(j)] # null
      BY <1>2 DEF Slot
    <3>1. slot[table[j]][Seg(j)] # null /\ Seg(j) \in Segments(table[j]) /\ table[j] \in Tables
      BY <1>1, TableTypes DEF AllocateInv, WhereInv, Slot
    <3>2. QED
      BY <1>2, <3>1, PushTypes
  <2>3. ASSUME NEW j \in Push, j # i, pc[j] \in {"create", "allocate"}, Seg(j) # 0, Allocates(j)
        PROVE  Slot(j)' = Slot(j)
    <3>1. Seg(j) # Seg(i)
      BY <1>2, <2>3 DEF Allocates
    <3>2. Seg(j) \in Segments(table[j]) /\ table[j] \in Tables
      BY <1>1, <2>3, TableTypes DEF WhereInv
    <3>3. QED
      BY <1>2, <3>1, <3>2 DEF Slot
  <2>4. Slot(i)' # null
    BY <1>2, PushTypes DEF Slot
  <2>5. QED
    BY <1>1, <1>2, <2>1, <2>2, <2>3, <2>4 DEF AllocateInv, Allocates
<1>13. MemoryInv'
  BY <1>1, <1>2 DEF MemoryInv
<1>14. ReadableInv'
  <2>1. Spoiled' = Spoiled
    BY <1>1, <1>2, TableTypes, SegmentSets DEF Spoiled
  <2> SUFFICES ASSUME NEW j \in Push, pc[j] \in {"construct", "returned"}, ~ Spoiled
               PROVE  segment[j] = slot'[my_segment_table][Seg(j)]
    BY <1>1, <1>2, <2>1 DEF ReadableInv
  <2>2. /\ Seg(j) \in Segments(my_segment_table) /\ segment[j] \in Push
        /\ segment[j] = slot[my_segment_table][Seg(j)]
    BY <1>1 DEF ReadableInv, SegmentInv
  <2>3. slot[table[i]][Seg(i)] = null
    BY <1>2 DEF Spoiled
  <2>4. ~ (my_segment_table = table[i] /\ Seg(j) = Seg(i))
    BY <2>2, <2>3, PushTypes
  <2>5. QED
    BY <1>1, <1>2, <2>2, <2>4, TableTypes
<1>15. LeakInv'
  <2>1. Unharmed => slot[table[i]][Seg(i)] = null
    <3>1. Unharmed => slot["embedded"][0] # failure_tag
      BY <1>1, UnharmedMeans, TableTypes, SegmentSets
    <3>2. QED
      BY <1>2, <3>1
  <2>2. ASSUME Unharmed
        PROVE  table[i] = my_segment_table
    <3>1. CASE table[i] = "long"
      BY <1>1, <3>1 DEF TableInv
    <3>2. CASE table[i] = "embedded"
      <4>1. ~ Copied
        BY <1>1, <1>2, <2>1, <2>2, <3>2 DEF TableInv
      <4>2. QED
        BY <1>1, <3>2, <4>1, TableTypes DEF Copied
    <3>3. QED
      BY <1>1, <3>1, <3>2, TableTypes
  <2> SUFFICES ASSUME Unharmed, NEW b \in allocated, b # i, pc[b] # "install"
               PROVE  /\ Seg(b) \in Segments(my_segment_table)
                      /\ slot'[my_segment_table][Seg(b)] = b
    <3>1. Unharmed => Seg(i) \in Segments(my_segment_table) /\ slot'[my_segment_table][Seg(i)] = i
      BY <1>2, <2>2
    <3>2. \A b \in allocated : b # i => pc'[b] = pc[b]
      BY <1>1, <1>2, TableTypes
    <3>3. QED
      BY <1>2, <1>5, <3>1, <3>2 DEF LeakInv
  <2>3. /\ Seg(b) \in Segments(my_segment_table) /\ b \in Push
        /\ slot[my_segment_table][Seg(b)] = b
    BY <1>1, TableTypes DEF LeakInv
  <2>4. ~ (my_segment_table = table[i] /\ Seg(b) = Seg(i))
    BY <2>1, <2>3, PushTypes
  <2>5. QED
    BY <1>1, <1>2, <2>3, <2>4, TableTypes
<1>16. FailureInv'
  BY <1>1, <1>2, <1>5 DEF FailureInv
<1>17. ThrewInv'
  <2>1. Spoiled' = Spoiled /\ slot'["embedded"][0] = slot["embedded"][0]
    BY <1>1, <1>2, TableTypes, SegmentSets DEF Spoiled
  <2>2. ASSUME NEW j \in Push, Seg(j) \in Segments(my_segment_table),
               slot[my_segment_table][Seg(j)] = failure_tag
        PROVE  slot'[my_segment_table][Seg(j)] = failure_tag \/ Spoiled
    BY <1>1, <1>2, <2>2, TableTypes, PushTypes DEF Spoiled
  <2>3. ASSUME NEW j \in Push, Seg(j) \in Segments(my_segment_table),
               slot[my_segment_table][Seg(j)] \in Push
        PROVE  slot'[my_segment_table][Seg(j)] = slot[my_segment_table][Seg(j)] \/ Spoiled
    BY <1>1, <1>2, <2>3, TableTypes, PushTypes DEF Spoiled
  <2>4. \A j \in Push : Cause(j) => Cause(j)'
    BY <1>2, <2>1, <2>2, <2>3 DEF Cause, ReadAt
  <2>5. QED
    BY <1>1, <1>2, <2>4 DEF ThrewInv
<1>18. QED
  BY <1>3, <1>7, <1>8, <1>9, <1>10, <1>11, <1>12, <1>13, <1>14, <1>15, <1>16, <1>17 DEF IInv

\* FailSegment keeps the invariant.
LEMMA FailSegmentKeeps ==
  ASSUME IInv, NEW i \in Push, AllocateSegment(i), pc'[i] # "load"
  PROVE  IInv'
<1>1. /\ TypeOK /\ ClaimInv /\ SlotInv /\ SegmentInv /\ TableInv /\ WhereInv
      /\ AllocateInv /\ MemoryInv /\ ReadableInv /\ LeakInv /\ FailureInv /\ ThrewInv
  BY DEF IInv
<1>2. /\ pc[i] = "allocate"
      /\ pc'[i] = "threw"
      /\ \A j \in Push : j # i => pc'[j] = pc[j]
      /\ Seg(i) # 0 /\ i = segment_base(Seg(i))
      /\ Seg(i) \in Segments(table[i]) /\ table[i] \in Tables
      /\ slot[table[i]][Seg(i)] = null \/ slot["embedded"][0] = failure_tag
      /\ slot'[table[i]][Seg(i)] = failure_tag
      /\ \A t \in Tables : \A s \in Segments(t) :
          ~ (t = table[i] /\ s = Seg(i)) => slot'[t][s] = slot[t][s]
      /\ DOMAIN slot' = Tables
      /\ \A t \in Tables : slot'[t] \in [Segments(t) -> Blocks]
      /\ UNCHANGED <<my_size, my_segment_table, allocation_failed, table, segment, memory, allocated, joined>>
  <2>1. /\ pc[i] = "allocate" /\ Seg(i) # 0 /\ i = segment_base(Seg(i))
        /\ Seg(i) \in Segments(table[i]) /\ table[i] \in Tables
        /\ slot[table[i]][Seg(i)] = null \/ slot["embedded"][0] = failure_tag
    BY <1>1, TableTypes DEF AllocateSegment, WhereInv, AllocateInv, Allocates, Slot
  <2>2. /\ Goto(i, "threw")
        /\ slot' = [slot EXCEPT ![table[i]][Seg(i)] = failure_tag]
        /\ allocated' = allocated
    <3>1. \A u \in Places : Goto(i, u) => pc'[i] = u
      BY <1>1 DEF Goto, TypeOK
    <3>2. "load" \in Places /\ "threw" \in Places
      BY DEF Places
    <3>3. QED
      BY <3>1, <3>2 DEF AllocateSegment, StoredOnFailure
  <2>3. /\ DOMAIN slot' = Tables
        /\ \A t \in Tables : slot'[t] \in [Segments(t) -> Blocks]
        /\ slot'[table[i]][Seg(i)] = failure_tag
        /\ \A t \in Tables : \A s \in Segments(t) :
             ~ (t = table[i] /\ s = Seg(i)) => slot'[t][s] = slot[t][s]
    <3>1. failure_tag \in Blocks
      BY DEF Blocks
    <3>2. QED
      BY <1>1, <2>1, <2>2, <3>1, StoreSlot
  <2>4. pc'[i] = "threw" /\ \A j \in Push : j # i => pc'[j] = pc[j]
    BY <1>1, <2>2 DEF Goto, TypeOK
  <2>5. UNCHANGED <<my_size, my_segment_table, allocation_failed, table, segment, memory, joined>>
    BY DEF AllocateSegment
  <2>6. QED
    BY <2>1, <2>2, <2>3, <2>4, <2>5
<1>3. TypeOK'
  <2>1. pc' \in [Push -> Places]
    BY <1>1 DEF AllocateSegment, Goto, TypeOK, Places
  <2>2. QED
    BY <1>1, <1>2, <2>1 DEF AllocateSegment, TypeOK
<1>4. \A b \in Push : \A s : Placed(b, s) => Placed(b, s)'
  BY <1>2 DEF Placed
<1>5. ~ Unharmed'
  <2>1. slot'[table[i]][Seg(i)] = failure_tag
    BY <1>2
  <2>2. QED
    BY <1>1, <1>2, <1>3, <2>1, UnharmedNext
<1>6. Copied' <=> Copied
  BY <1>1, <1>2 DEF Copied, TableInv
<1>7. ClaimInv'
  BY <1>1, <1>2 DEF ClaimInv, Ended
<1>8. SlotInv'
  <2> SUFFICES ASSUME NEW t \in Tables, NEW s \in Segments(t), slot'[t][s] \in Push
               PROVE  Placed(slot[t][s], s)'
    BY DEF SlotInv
  <2>1. slot'[t][s] = slot[t][s]
    BY <1>2, PushTypes
  <2>2. Placed(slot[t][s], s)
    BY <1>1, <2>1 DEF SlotInv
  <2>3. QED
    BY <1>4, <2>1, <2>2 DEF Placed
<1>9. SegmentInv'
  BY <1>1, <1>2, <1>4, TableTypes DEF SegmentInv
<1>10. TableInv'
  <2>1. CASE ~ Copied
    <3>1. table[i] = "embedded"
      BY <1>1, <2>1, TableTypes DEF TableInv, Copied
    <3>2. \A s \in Segments("long") : slot'["long"][s] = slot["long"][s]
      BY <1>1, <1>2, <3>1, TableTypes
    <3>3. QED
      BY <1>1, <1>2, <1>6, <2>1, <3>2 DEF TableInv
  <2>2. CASE Copied
    <3>1. \A t \in Tables : \A s \in Segments("embedded") : slot[t][s] # null /\ s \in Segments(t)
      BY <1>1, <2>2, TableTypes, SegmentSets DEF TableInv
    <3>2. \A t \in Tables : \A s \in Segments("embedded") : slot'[t][s] # null
      BY <1>2, <3>1, PushTypes
    <3>3. /\ Spoiled' = Spoiled
          /\ slot'["long"][0] = slot["long"][0]
      BY <1>1, <1>2, TableTypes, SegmentSets DEF Spoiled
    <3>4. \A s \in Segments("embedded") : slot'["long"][s] = slot'["embedded"][s] \/ Spoiled
      <4>1. Spoiled \/ Seg(i) \notin Segments("embedded")
        BY <1>2, <3>1 DEF Spoiled
      <4>2. Spoiled \/ \A s \in Segments("embedded") :
                         /\ slot'["long"][s] = slot["long"][s]
                         /\ slot'["embedded"][s] = slot["embedded"][s]
        BY <1>1, <1>2, <3>1, <4>1, TableTypes
      <4>3. QED
        BY <1>1, <2>2, <4>2 DEF TableInv
    <3>5. QED
      BY <1>1, <1>2, <1>6, <2>2, <3>2, <3>3, <3>4, TableTypes DEF TableInv
  <2>3. QED
    BY <2>1, <2>2
<1>11. WhereInv'
  BY <1>1, <1>2, TableTypes, SegmentSets, InEmbedded DEF WhereInv
<1>12. AllocateInv'
  <2>1. slot["embedded"][0] = failure_tag => slot'["embedded"][0] = failure_tag
    BY <1>1, <1>2, SegmentSets, TableTypes
  <2>2. \A j \in Push : pc[j] = "load" => Slot(j)' # null
    <3> SUFFICES ASSUME NEW j \in Push, pc[j] = "load"
                 PROVE  slot'[table[j]][Seg(j)] # null
      BY <1>2 DEF Slot
    <3>1. slot[table[j]][Seg(j)] # null /\ Seg(j) \in Segments(table[j]) /\ table[j] \in Tables
      BY <1>1, TableTypes DEF AllocateInv, WhereInv, Slot
    <3>2. QED
      BY <1>2, <3>1, PushTypes
  <2>3. ASSUME NEW j \in Push, j # i, pc[j] \in {"create", "allocate"}, Seg(j) # 0, Allocates(j)
        PROVE  Slot(j)' = Slot(j)
    <3>1. Seg(j) # Seg(i)
      BY <1>2, <2>3 DEF Allocates
    <3>2. Seg(j) \in Segments(table[j]) /\ table[j] \in Tables
      BY <1>1, <2>3, TableTypes DEF WhereInv
    <3>3. QED
      BY <1>2, <3>1, <3>2 DEF Slot
  <2>4. QED
    BY <1>1, <1>2, <2>1, <2>2, <2>3 DEF AllocateInv, Allocates
<1>13. MemoryInv'
  BY <1>1, <1>2 DEF MemoryInv
<1>14. ReadableInv'
  <2>1. Spoiled' = Spoiled
    BY <1>1, <1>2, TableTypes, SegmentSets DEF Spoiled
  <2> SUFFICES ASSUME NEW j \in Push, pc[j] \in {"construct", "returned"}, ~ Spoiled
               PROVE  segment[j] = slot'[my_segment_table][Seg(j)]
    BY <1>1, <1>2, <2>1 DEF ReadableInv
  <2>2. /\ Seg(j) \in Segments(my_segment_table) /\ segment[j] \in Push
        /\ segment[j] = slot[my_segment_table][Seg(j)]
    BY <1>1 DEF ReadableInv, SegmentInv
  <2>3. slot[table[i]][Seg(i)] = null
    BY <1>2 DEF Spoiled
  <2>4. ~ (my_segment_table = table[i] /\ Seg(j) = Seg(i))
    BY <2>2, <2>3, PushTypes
  <2>5. QED
    BY <1>1, <1>2, <2>2, <2>4, TableTypes
<1>15. LeakInv'
  BY <1>1, <1>2, <1>5, TableTypes DEF LeakInv
<1>16. FailureInv'
  BY <1>1, <1>2, <1>5 DEF FailureInv
<1>17. ThrewInv'
  <2>1. Spoiled' = Spoiled /\ slot'["embedded"][0] = slot["embedded"][0]
    BY <1>1, <1>2, TableTypes, SegmentSets DEF Spoiled
  <2>2. ASSUME NEW j \in Push, Seg(j) \in Segments(my_segment_table),
               slot[my_segment_table][Seg(j)] = failure_tag
        PROVE  slot'[my_segment_table][Seg(j)] = failure_tag \/ Spoiled
    BY <1>1, <1>2, <2>2, TableTypes, PushTypes DEF Spoiled
  <2>3. ASSUME NEW j \in Push, Seg(j) \in Segments(my_segment_table),
               slot[my_segment_table][Seg(j)] \in Push
        PROVE  slot'[my_segment_table][Seg(j)] = slot[my_segment_table][Seg(j)] \/ Spoiled
    BY <1>1, <1>2, <2>3, TableTypes, PushTypes DEF Spoiled
  <2>4. \A j \in Push : Cause(j) => Cause(j)'
    BY <1>2, <2>1, <2>2, <2>3 DEF Cause, ReadAt
  <2>5. Cause(i)'
    <3>1. /\ Seg(i) \in Segments(my_segment_table)
          /\ slot[my_segment_table][Seg(i)] = Slot(i) \/ Spoiled
      BY <1>1, <1>2, FoundIsThere
    <3>2. CASE table[i] = my_segment_table
      BY <1>2, <3>1, <3>2 DEF Cause
    <3>3. CASE table[i] # my_segment_table
      <4>1. table[i] = "embedded" /\ Copied
        BY <1>1, <3>3, TableTypes DEF TableInv, Copied
      <4>2. Spoiled
        BY <1>1, <1>2, <4>1 DEF TableInv, Spoiled
      <4>3. QED
        BY <2>1, <4>2 DEF Cause
    <3>4. QED
      BY <3>2, <3>3
  <2>6. QED
    BY <1>1, <1>2, <2>4, <2>5 DEF ThrewInv
<1>18. QED
  BY <1>3, <1>7, <1>8, <1>9, <1>10, <1>11, <1>12, <1>13, <1>14, <1>15, <1>16, <1>17 DEF IInv

\* Wait keeps the invariant.
LEMMA WaitKeeps ==
  ASSUME IInv, NEW i \in Push, Wait(i)
  PROVE  IInv'
<1>1. /\ TypeOK /\ ClaimInv /\ SlotInv /\ SegmentInv /\ TableInv /\ WhereInv
      /\ AllocateInv /\ MemoryInv /\ ReadableInv /\ LeakInv /\ FailureInv /\ ThrewInv
  BY DEF IInv
<1>2. /\ pc[i] = "wait"
      /\ pc'[i] = "load"
      /\ Slot(i) # null
      /\ \A j \in Push : j # i => pc'[j] = pc[j]
      /\ UNCHANGED <<my_size, my_segment_table, slot, allocation_failed, table, segment, memory, allocated, joined>>
  BY <1>1, SegmentSets, TableTypes, PushTypes DEF Wait, Goto, TypeOK
<1>3. TypeOK'
  BY <1>1, <1>2, SegmentSets, TableTypes, PushTypes DEF Wait, Goto, TypeOK, Places, Tables, Blocks, Slot
<1>4. \A b \in Push : \A s : Placed(b, s) => Placed(b, s)'
  BY <1>2 DEF Placed
<1>5. Unharmed' <=> Unharmed
  BY <1>2 DEF Unharmed, Range
<1>6. Copied' <=> Copied
  BY <1>1, <1>2 DEF Copied, TableInv
<1>7. ClaimInv'
  BY <1>1, <1>2 DEF ClaimInv, Ended
<1>8. SlotInv'
  BY <1>1, <1>2, <1>4, TableTypes, PushTypes, SegmentSets DEF SlotInv
<1>9. SegmentInv'
  BY <1>1, <1>2, <1>4, TableTypes DEF SegmentInv
<1>10. TableInv'
  BY <1>1, <1>2, <1>6, TableTypes, SegmentSets DEF TableInv, Spoiled
<1>11. WhereInv'
  BY <1>1, <1>2, TableTypes, SegmentSets, InEmbedded DEF WhereInv
<1>12. AllocateInv'
  BY <1>1, <1>2, TableTypes, SegmentSets DEF AllocateInv, Slot
<1>13. MemoryInv'
  BY <1>1, <1>2 DEF MemoryInv
<1>14. ReadableInv'
  BY <1>1, <1>2, TableTypes DEF ReadableInv, Spoiled
<1>15. LeakInv'
  BY <1>1, <1>2, <1>5, TableTypes DEF LeakInv
<1>16. FailureInv'
  BY <1>1, <1>2, <1>5 DEF FailureInv
<1>17. ThrewInv'
  <2>1. \A j \in Push : Cause(j) => Cause(j)'
    BY <1>1, <1>2, TableTypes, SegmentSets DEF Cause, Spoiled, ReadAt
  <2>2. QED
    BY <1>1, <1>2, <2>1 DEF ThrewInv
<1>18. QED
  BY <1>3, <1>7, <1>8, <1>9, <1>10, <1>11, <1>12, <1>13, <1>14, <1>15, <1>16, <1>17 DEF IInv

\* Load keeps the invariant.
LEMMA LoadKeeps ==
  ASSUME IInv, NEW i \in Push, Load(i)
  PROVE  IInv'
<1>1. /\ TypeOK /\ ClaimInv /\ SlotInv /\ SegmentInv /\ TableInv /\ WhereInv
      /\ AllocateInv /\ MemoryInv /\ ReadableInv /\ LeakInv /\ FailureInv /\ ThrewInv
  BY DEF IInv
<1>2. /\ pc[i] = "load"
      /\ \/ pc'[i] = "threw" /\ Slot(i) = failure_tag
         \/ pc'[i] = "construct" /\ Slot(i) \in Push
      /\ \A j \in Push : j # i => pc'[j] = pc[j]
      /\ segment'[i] = Slot(i)
      /\ \A j \in Push : j # i => segment'[j] = segment[j]
      /\ UNCHANGED <<my_size, my_segment_table, slot, allocation_failed, table, memory, allocated, joined>>
  <2>1. /\ pc[i] = "load"
        /\ segment' = [segment EXCEPT ![i] = Slot(i)]
        /\ UNCHANGED <<my_size, my_segment_table, slot, allocation_failed, table, memory,
                       allocated, joined>>
    BY DEF Load
  <2>2. Slot(i) = failure_tag \/ Slot(i) \in Push
    BY <1>1, <2>1, TableTypes DEF WhereInv, AllocateInv, Slot
  <2>3. CASE Slot(i) = failure_tag
    <3>1. pc' = [pc EXCEPT ![i] = "threw"]
      BY <2>3 DEF Load, Goto, IsFailure
    <3>2. pc'[i] = "threw" /\ \A j \in Push : j # i => pc'[j] = pc[j]
      BY <1>1, <3>1 DEF TypeOK
    <3>3. segment'[i] = Slot(i) /\ \A j \in Push : j # i => segment'[j] = segment[j]
      BY <1>1, <2>1 DEF TypeOK
    <3>4. QED
      BY <2>1, <2>3, <3>2, <3>3
  <2>4. CASE Slot(i) \in Push
    <3>1. pc' = [pc EXCEPT ![i] = "construct"]
      BY <2>4, PushTypes DEF Load, Goto, IsFailure
    <3>2. QED
      BY <1>1, <2>1, <2>4, <3>1 DEF TypeOK
  <2>5. QED
    BY <2>2, <2>3, <2>4
<1>3. TypeOK'
  <2>1. segment' \in [Push -> Blocks]
    BY <1>1, <1>2, TableTypes DEF Load, TypeOK, WhereInv, Slot, Blocks
  <2>2. pc' \in [Push -> Places]
    BY <1>1 DEF Load, Goto, TypeOK, Places
  <2>3. QED
    BY <1>1, <1>2, <2>1, <2>2 DEF Load, TypeOK
<1>4. \A b \in Push : \A s : Placed(b, s) => Placed(b, s)'
  BY <1>2 DEF Placed
<1>5. Unharmed' <=> Unharmed
  BY <1>2 DEF Unharmed, Range
<1>6. Copied' <=> Copied
  BY <1>1, <1>2 DEF Copied, TableInv
<1>7. ClaimInv'
  BY <1>1, <1>2 DEF ClaimInv, Ended
<1>8. SlotInv'
  BY <1>1, <1>2, <1>4, TableTypes, PushTypes, SegmentSets DEF SlotInv
<1>9. SegmentInv'
  <2>1. Slot(i) \in Push => Placed(Slot(i), Seg(i))'
    BY <1>1, <1>2, <1>4, TableTypes DEF SlotInv, WhereInv, Slot
  <2>2. segment'[i] \in Push => Placed(segment[i], Seg(i))'
    BY <1>2, <2>1 DEF Placed, Slot
  <2>3. \A j \in Push : j # i /\ pc[j] \in {"construct", "returned"} =>
          segment'[j] \in Push /\ Placed(segment[j], Seg(j))'
    BY <1>1, <1>2, <1>4 DEF SegmentInv, Placed
  <2>4. QED
    BY <1>2, <2>2, <2>3 DEF SegmentInv
<1>10. TableInv'
  BY <1>1, <1>2, <1>6, TableTypes, SegmentSets DEF TableInv, Spoiled
<1>11. WhereInv'
  BY <1>1, <1>2, TableTypes, SegmentSets, InEmbedded DEF WhereInv
<1>12. AllocateInv'
  BY <1>1, <1>2, TableTypes, SegmentSets DEF AllocateInv, Slot
<1>13. MemoryInv'
  BY <1>1, <1>2 DEF MemoryInv
<1>14. ReadableInv'
  <2>1. Seg(i) \in Segments(table[i])
    BY <1>1, <1>2 DEF WhereInv
  <2>2. /\ Seg(i) \in Segments(my_segment_table)
        /\ segment'[i] = slot[my_segment_table][Seg(i)] \/ Spoiled
    BY <1>1, <1>2, <2>1, FoundIsThere
  <2>3. Spoiled' = Spoiled
    BY <1>2 DEF Spoiled
  <2>4. QED
    BY <1>1, <1>2, <2>2, <2>3 DEF ReadableInv
<1>15. LeakInv'
  BY <1>1, <1>2, <1>5, TableTypes DEF LeakInv
<1>16. FailureInv'
  BY <1>1, <1>2, <1>5 DEF FailureInv
<1>17. ThrewInv'
  <2>1. \A j \in Push : Cause(j) => Cause(j)'
    BY <1>1, <1>2, TableTypes, SegmentSets DEF Cause, Spoiled, ReadAt
  <2>2. Seg(i) \in Segments(table[i])
    BY <1>1, <1>2 DEF WhereInv
  <2>3. pc'[i] = "threw" => Cause(i)
    BY <1>1, <1>2, <2>2, FoundIsThere DEF Cause
  <2>4. QED
    BY <1>1, <1>2, <2>1, <2>3 DEF ThrewInv
<1>18. QED
  BY <1>3, <1>7, <1>8, <1>9, <1>10, <1>11, <1>12, <1>13, <1>14, <1>15, <1>16, <1>17 DEF IInv

\* Construct keeps the invariant.
LEMMA ConstructKeeps ==
  ASSUME IInv, NEW i \in Push, Construct(i)
  PROVE  IInv'
<1>1. /\ TypeOK /\ ClaimInv /\ SlotInv /\ SegmentInv /\ TableInv /\ WhereInv
      /\ AllocateInv /\ MemoryInv /\ ReadableInv /\ LeakInv /\ FailureInv /\ ThrewInv
  BY DEF IInv
<1>2. /\ pc[i] = "construct"
      /\ pc'[i] = "returned"
      /\ segment[i] \in Push
      /\ \A j \in Push : j # i => pc'[j] = pc[j]
      /\ memory'[segment[i]][i] = i
      /\ \A b, j \in Push : j # i => memory'[b][j] = memory[b][j]
      /\ UNCHANGED <<my_size, my_segment_table, slot, allocation_failed, table, segment, allocated, joined>>
  BY <1>1, SegmentSets, TableTypes, PushTypes DEF Construct, Goto, TypeOK, SegmentInv
<1>3. TypeOK'
  BY <1>1, <1>2, SegmentSets, TableTypes, PushTypes DEF Construct, Goto, TypeOK, Places, Tables, Blocks, Slot
<1>4. \A b \in Push : \A s : Placed(b, s) => Placed(b, s)'
  BY <1>2 DEF Placed
<1>5. Unharmed' <=> Unharmed
  BY <1>2 DEF Unharmed, Range
<1>6. Copied' <=> Copied
  BY <1>1, <1>2 DEF Copied, TableInv
<1>7. ClaimInv'
  BY <1>1, <1>2 DEF ClaimInv, Ended
<1>8. SlotInv'
  BY <1>1, <1>2, <1>4, TableTypes, PushTypes, SegmentSets DEF SlotInv
<1>9. SegmentInv'
  BY <1>1, <1>2, <1>4, TableTypes DEF SegmentInv
<1>10. TableInv'
  BY <1>1, <1>2, <1>6, TableTypes, SegmentSets DEF TableInv, Spoiled
<1>11. WhereInv'
  BY <1>1, <1>2, TableTypes, SegmentSets, InEmbedded DEF WhereInv
<1>12. AllocateInv'
  BY <1>1, <1>2, TableTypes, SegmentSets DEF AllocateInv, Slot
<1>13. MemoryInv'
  BY <1>1, <1>2 DEF MemoryInv, SegmentInv
<1>14. ReadableInv'
  BY <1>1, <1>2, TableTypes DEF ReadableInv, Spoiled
<1>15. LeakInv'
  BY <1>1, <1>2, <1>5, TableTypes DEF LeakInv
<1>16. FailureInv'
  BY <1>1, <1>2, <1>5 DEF FailureInv
<1>17. ThrewInv'
  <2>1. \A j \in Push : j # i /\ Cause(j) => Cause(j)'
    BY <1>1, <1>2, TableTypes, SegmentSets DEF Cause, Spoiled, ReadAt
  <2>2. QED
    BY <1>1, <1>2, <2>1 DEF ThrewInv
<1>18. QED
  BY <1>3, <1>7, <1>8, <1>9, <1>10, <1>11, <1>12, <1>13, <1>14, <1>15, <1>16, <1>17 DEF IInv

\* ConstructThrows keeps the invariant.
LEMMA ConstructThrowsKeeps ==
  ASSUME IInv, NEW i \in Push, ConstructThrows(i)
  PROVE  IInv'
<1>1. /\ TypeOK /\ ClaimInv /\ SlotInv /\ SegmentInv /\ TableInv /\ WhereInv
      /\ AllocateInv /\ MemoryInv /\ ReadableInv /\ LeakInv /\ FailureInv /\ ThrewInv
  BY DEF IInv
<1>2. /\ pc[i] = "construct"
      /\ pc'[i] = "threw"
      /\ segment[i] \in Push
      /\ \A j \in Push : j # i => pc'[j] = pc[j]
      /\ memory'[segment[i]][i] = Zeroes
      /\ \A b, j \in Push : j # i => memory'[b][j] = memory[b][j]
      /\ UNCHANGED <<my_size, my_segment_table, slot, allocation_failed, table, segment, allocated, joined>>
  BY <1>1, SegmentSets, TableTypes, PushTypes DEF ConstructThrows, Goto, TypeOK, SegmentInv
<1>3. TypeOK'
  BY <1>1, <1>2, SegmentSets, TableTypes, PushTypes DEF ConstructThrows, Goto, TypeOK, Places, Tables, Blocks, Slot
<1>4. \A b \in Push : \A s : Placed(b, s) => Placed(b, s)'
  BY <1>2 DEF Placed
<1>5. Unharmed' <=> Unharmed
  BY <1>2 DEF Unharmed, Range
<1>6. Copied' <=> Copied
  BY <1>1, <1>2 DEF Copied, TableInv
<1>7. ClaimInv'
  BY <1>1, <1>2 DEF ClaimInv, Ended
<1>8. SlotInv'
  BY <1>1, <1>2, <1>4, TableTypes, PushTypes, SegmentSets DEF SlotInv
<1>9. SegmentInv'
  BY <1>1, <1>2, <1>4, TableTypes DEF SegmentInv
<1>10. TableInv'
  BY <1>1, <1>2, <1>6, TableTypes, SegmentSets DEF TableInv, Spoiled
<1>11. WhereInv'
  BY <1>1, <1>2, TableTypes, SegmentSets, InEmbedded DEF WhereInv
<1>12. AllocateInv'
  BY <1>1, <1>2, TableTypes, SegmentSets DEF AllocateInv, Slot
<1>13. MemoryInv'
  BY <1>1, <1>2 DEF MemoryInv, SegmentInv
<1>14. ReadableInv'
  BY <1>1, <1>2, TableTypes DEF ReadableInv, Spoiled
<1>15. LeakInv'
  BY <1>1, <1>2, <1>5, TableTypes DEF LeakInv
<1>16. FailureInv'
  BY <1>1, <1>2, <1>5 DEF FailureInv
<1>17. ThrewInv'
  <2>1. \A j \in Push : j # i /\ Cause(j) => Cause(j)'
    BY <1>1, <1>2, TableTypes, SegmentSets DEF Cause, Spoiled, ReadAt
  <2>2. Cause(i)'
    BY <1>1, <1>2 DEF ReadableInv, Cause, Spoiled, ReadAt
  <2>3. QED
    BY <1>1, <1>2, <2>1, <2>2 DEF ThrewInv
<1>18. QED
  BY <1>3, <1>7, <1>8, <1>9, <1>10, <1>11, <1>12, <1>13, <1>14, <1>15, <1>16, <1>17 DEF IInv

\* A push that has not been made has left nothing.
LEMMA ClaimKeeps ==
  ASSUME IInv, Claim
  PROVE  IInv'
<1>1. /\ TypeOK /\ ClaimInv /\ SlotInv /\ SegmentInv /\ TableInv /\ WhereInv
      /\ AllocateInv /\ MemoryInv /\ ReadableInv /\ LeakInv /\ FailureInv /\ ThrewInv
  BY DEF IInv
<1>2. /\ ~ joined /\ my_size \in Push /\ my_size' = my_size + 1 /\ my_size \in Nat
      /\ pc[my_size] = "idle" /\ pc'[my_size] = "subscript"
      /\ \A j \in Push : j # my_size => pc'[j] = pc[j]
      /\ UNCHANGED <<my_segment_table, slot, allocation_failed, table, segment, memory,
                     allocated, joined, read>>
  <2>1. my_size \in Push /\ my_size \in Nat
    BY <1>1, PushTypes DEF Claim, TypeOK, Push
  <2>2. pc[my_size] = "idle"
    BY <1>1, <2>1 DEF ClaimInv
  <2>3. QED
    BY <1>1, <2>1, <2>2 DEF Claim, Goto, TypeOK
<1>3. TypeOK'
  <2>1. pc' \in [Push -> Places]
    BY <1>1 DEF Claim, Goto, TypeOK, Places
  <2>2. my_size' \in 0 .. PUSHES
    BY <1>2, PushTypes DEF Claim
  <2>3. QED
    BY <1>1, <1>2, <2>1, <2>2 DEF TypeOK
<1>4. \A b \in Push : \A s : Placed(b, s) => Placed(b, s)'
  BY <1>2 DEF Placed
<1>5. Unharmed' <=> Unharmed
  BY <1>2 DEF Unharmed, Range
<1>6. Copied' <=> Copied
  BY <1>1, <1>2 DEF Copied
<1>7. ClaimInv'
  <2>1. \A j \in Push : j # my_size => (j < my_size + 1 <=> j < my_size)
    BY <1>2, PushTypes
  <2>2. \A j \in Push : j # my_size => (j < my_size' <=> pc'[j] # "idle")
    BY <1>1, <1>2, <2>1 DEF ClaimInv
  <2>3. my_size < my_size'
    BY <1>2
  <2>4. QED
    BY <1>2, <2>2, <2>3 DEF ClaimInv
<1>8. SlotInv'
  BY <1>1, <1>2, <1>4, TableTypes DEF SlotInv
<1>9. SegmentInv'
  BY <1>1, <1>2, <1>4 DEF SegmentInv
<1>10. TableInv'
  BY <1>1, <1>2, <1>6 DEF TableInv, Spoiled
<1>11. WhereInv'
  BY <1>1, <1>2 DEF WhereInv
<1>12. AllocateInv'
  BY <1>1, <1>2 DEF AllocateInv, Slot, Allocates
<1>13. MemoryInv'
  BY <1>1, <1>2 DEF MemoryInv
<1>14. ReadableInv'
  BY <1>1, <1>2 DEF ReadableInv, Spoiled
<1>15. LeakInv'
  BY <1>1, <1>2, <1>5, TableTypes DEF LeakInv
<1>16. FailureInv'
  BY <1>1, <1>2, <1>5 DEF FailureInv
<1>17. ThrewInv'
  <2>1. \A j \in Push : Cause(j) => Cause(j)'
    BY <1>1, <1>2, TableTypes, SegmentSets DEF Cause, Spoiled, ReadAt
  <2>2. QED
    BY <1>1, <1>2, <2>1 DEF ThrewInv
<1>18. QED
  BY <1>3, <1>7, <1>8, <1>9, <1>10, <1>11, <1>12, <1>13, <1>14, <1>15, <1>16, <1>17 DEF IInv

\* The claimed indices are those below the counter.
LEMMA ClaimedArePushes ==
  ASSUME TypeOK
  PROVE  \A j : j \in Claimed <=> j \in Push /\ j < my_size
BY PushTypes DEF TypeOK, Claimed, Push

\* Join keeps the invariant.
LEMMA JoinKeeps ==
  ASSUME IInv, Join
  PROVE  IInv'
<1>1. /\ TypeOK /\ ClaimInv /\ SlotInv /\ SegmentInv /\ TableInv /\ WhereInv
      /\ AllocateInv /\ MemoryInv /\ ReadableInv /\ LeakInv /\ FailureInv /\ ThrewInv
  BY DEF IInv
<1>2. ClaimInv'
  <2>1. \A j \in Push : pc[j] # "idle" => Ended(j)
    BY <1>1, ClaimedArePushes DEF Join, ClaimInv
  <2>2. QED
    BY <1>1, <2>1 DEF Join, ClaimInv, Ended
<1>3. TypeOK'
  BY <1>1 DEF Join, TypeOK
<1>4. SlotInv' /\ SegmentInv'
  BY <1>1 DEF Join, SlotInv, SegmentInv, Placed
<1>5. TableInv' /\ WhereInv' /\ AllocateInv' /\ MemoryInv'
  BY <1>1 DEF Join, TableInv, Copied, Spoiled, WhereInv, AllocateInv, Slot, MemoryInv
<1>6. ReadableInv' /\ LeakInv' /\ FailureInv' /\ ThrewInv'
  BY <1>1 DEF Join, ReadableInv, LeakInv, FailureInv, ThrewInv, Cause, ReadAt, Spoiled, Unharmed, Range
<1>7. QED
  BY <1>2, <1>3, <1>4, <1>5, <1>6 DEF IInv

-------------------------------------------------------------------------------
(* What a reader finds.                                                    *)

\* The first segment that is missing ends what a reader sees.
LEMMA CapacityMeans ==
  ASSUME TypeOK
  PROVE  /\ capacity \in Nat
         /\ \A i \in Nat : i < capacity =>
              /\ Seg(i) \in Segments(my_segment_table)
              /\ ~ IsMissing(slot[my_segment_table][Seg(i)])
         /\ \A i \in Nat : i >= capacity =>
              \/ Seg(i) \notin Segments(my_segment_table)
              \/ \E s \in Segments(my_segment_table) :
                   segment_base(s) = capacity /\ IsMissing(slot[my_segment_table][s])
<1> DEFINE S == Segments(my_segment_table)
           missing == {s \in S : IsMissing(slot[my_segment_table][s])}
<1>1. PICK last \in Nat : S = 0 .. last
  BY SegmentSets, TableTypes
<1>2. \A i \in Nat : Seg(i) \in Nat
  BY SegmentOfIndex
<1> HIDE DEF S, missing
<1>3. CASE missing = {}
  <2>1. Max(S) = last
    <3>1. last \in S /\ \A s \in S : last >= s
      BY <1>1
    <3>2. \A m \in S : (\A s \in S : m >= s) => m = last
      BY <1>1
    <3>3. QED
      BY <3>1, <3>2 DEF Max
  <2>2. capacity = segment_base(last + 1) /\ last + 1 \in Nat
    BY <1>1, <1>3, <2>1 DEF capacity, missing, S
  <2>3. \A i \in Nat : i < capacity <=> Seg(i) < last + 1
    BY <2>2, BeforeSegment
  <2>4. capacity \in Nat
    BY <2>2, BaseOfSegment
  <2>5. \A i \in Nat : i < capacity <=> Seg(i) \in S
    BY <1>1, <1>2, <2>3
  <2>6. \A s \in S : ~ IsMissing(slot[my_segment_table][s])
    BY <1>3 DEF missing
  <2>7. QED
    BY <2>4, <2>5, <2>6 DEF S
<1>4. CASE missing # {}
  <2>1. missing \in SUBSET Nat
    BY <1>1 DEF missing
  <2>2. \E least \in missing : \A m \in missing : least <= m
    BY <1>4, <2>1, LeastElement
  <2>3. Min(missing) \in missing /\ \A m \in missing : Min(missing) <= m
    BY <2>2 DEF Min
  <2>4. capacity = segment_base(Min(missing))
    BY <1>4 DEF capacity, missing, S
  <2> DEFINE first == Min(missing)
  <2>5. first \in Nat /\ first \in S /\ IsMissing(slot[my_segment_table][first])
    BY <2>1, <2>3 DEF missing
  <2> HIDE DEF first
  <2>6. capacity \in Nat /\ capacity = segment_base(first)
    BY <2>4, <2>5, BaseOfSegment DEF first
  <2>7. \A i \in Nat : i < capacity => Seg(i) < first
    BY <2>5, <2>6, BeforeSegment
  <2>8. \A s \in Nat : s < first => s \in S
    BY <1>1, <2>5
  <2>9. \A s \in S : s < first => s \notin missing
    BY <1>1, <2>3, <2>5 DEF first
  <2>10. \A i \in Nat : i < capacity => Seg(i) \in S /\ ~ IsMissing(slot[my_segment_table][Seg(i)])
    BY <1>2, <2>7, <2>8, <2>9 DEF missing
  <2>11. QED
    BY <2>5, <2>6, <2>10 DEF S
<1>5. QED
  BY <1>3, <1>4

\* size() is the counter or the capacity, whichever is less.
LEMMA SizeMeans ==
  ASSUME TypeOK
  PROVE  /\ size \in Nat /\ size <= my_size /\ size <= capacity
         /\ size = my_size \/ size = capacity
<1>1. my_size \in Nat /\ capacity \in Nat
  BY CapacityMeans DEF TypeOK
<1>2. \E least \in {my_size, capacity} : \A m \in {my_size, capacity} : least <= m
  BY <1>1
<1>3. size \in {my_size, capacity} /\ \A m \in {my_size, capacity} : size <= m
  BY <1>2 DEF size, Min
<1>4. QED
  BY <1>1, <1>3

\* Every index below size() has its block.
LEMMA ReaderIsInside ==
  ASSUME IInv
  PROVE  \A i \in 0 .. size - 1 :
           /\ i \in Push /\ i < my_size
           /\ Seg(i) \in Segments(my_segment_table)
           /\ slot[my_segment_table][Seg(i)] \in Push
           /\ slot[my_segment_table][Seg(i)] \in allocated
<1>1. TypeOK /\ SlotInv
  BY DEF IInv
<1> SUFFICES ASSUME NEW i \in 0 .. size - 1
             PROVE  /\ i \in Push /\ i < my_size
                    /\ Seg(i) \in Segments(my_segment_table)
                    /\ slot[my_segment_table][Seg(i)] \in Push
                    /\ slot[my_segment_table][Seg(i)] \in allocated
  OBVIOUS
<1>2. i \in Nat /\ i < my_size /\ i < capacity /\ my_size <= PUSHES /\ my_size \in Nat
  BY <1>1, SizeMeans, CapacityMeans DEF TypeOK
<1>3. i \in Push
  BY <1>2, PushTypes DEF Push
<1>4. Seg(i) \in Segments(my_segment_table) /\ ~ IsMissing(slot[my_segment_table][Seg(i)])
  BY <1>1, <1>2, CapacityMeans
<1>5. slot[my_segment_table][Seg(i)] \in Push
  BY <1>1, <1>4, TableTypes DEF IsMissing
<1>6. QED
  BY <1>1, <1>2, <1>3, <1>4, <1>5, TableTypes DEF SlotInv, Placed

\* Read keeps the invariant.
LEMMA ReadKeeps ==
  ASSUME IInv, Read
  PROVE  IInv'
<1>1. /\ TypeOK /\ ClaimInv /\ SlotInv /\ SegmentInv /\ TableInv /\ WhereInv
      /\ AllocateInv /\ MemoryInv /\ ReadableInv /\ LeakInv /\ FailureInv /\ ThrewInv
  BY DEF IInv
<1>2. TypeOK'
  <2>1. ASSUME NEW k \in 1 .. size
        PROVE  ReadAt(k - 1) \in Push \cup {Garbage, Zeroes}
    <3>1. k - 1 \in 0 .. size - 1
      BY <1>1, SizeMeans
    <3>2. slot[my_segment_table][Seg(k - 1)] \in Push /\ k - 1 \in Push
      BY <3>1, ReaderIsInside
    <3>3. QED
      BY <1>1, <3>2 DEF ReadAt, TypeOK
  <2>2. \A k \in DOMAIN read' : read'[k] \in Push \cup {Garbage, Zeroes}
    BY <2>1 DEF Read
  <2>3. QED
    BY <1>1, <2>2 DEF Read, TypeOK
<1>3. ClaimInv'
  BY <1>1 DEF Read, ClaimInv, Ended
<1>4. SlotInv' /\ SegmentInv'
  BY <1>1 DEF Read, SlotInv, SegmentInv, Placed
<1>5. TableInv' /\ WhereInv' /\ AllocateInv' /\ MemoryInv'
  BY <1>1 DEF Read, TableInv, Copied, Spoiled, WhereInv, AllocateInv, Slot, MemoryInv
<1>6. ReadableInv' /\ LeakInv' /\ FailureInv' /\ ThrewInv'
  BY <1>1 DEF Read, ReadableInv, LeakInv, FailureInv, ThrewInv, Cause, ReadAt, Spoiled, Unharmed, Range
<1>7. QED
  BY <1>2, <1>3, <1>4, <1>5, <1>6 DEF IInv

\* Every step of a push keeps the invariant.
LEMMA PushStepKeeps ==
  ASSUME IInv, NEW i \in Push, PushStep(i)
  PROVE  IInv'
<1>1. CASE Install(i)
  BY <1>1, InstallFirstKeeps, InstallSecondKeeps
<1>2. CASE FailFirst(i)
  BY <1>2, FailFirstFirstKeeps, FailFirstSecondKeeps
<1>3. CASE AllocateSegment(i)
  BY <1>3, AllocateSegmentKeeps, FailSegmentKeeps
<1>4. QED
  BY <1>1, <1>2, <1>3, SubscriptKeeps, CopyTableKeeps, PublishTableKeeps, FailToExtendKeeps,
     AwaitTableKeeps, LookupKeeps, CreateKeeps, AllocateFirstKeeps, MarkFailedKeeps, WaitKeeps,
     LoadKeeps, ConstructKeeps, ConstructThrowsKeeps DEF PushStep

\* A step that changes nothing keeps the invariant.
LEMMA StutterKeeps ==
  ASSUME IInv, UNCHANGED vars
  PROVE  IInv'
<1>1. /\ TypeOK /\ ClaimInv /\ SlotInv /\ SegmentInv /\ TableInv /\ WhereInv
      /\ AllocateInv /\ MemoryInv /\ ReadableInv /\ LeakInv /\ FailureInv /\ ThrewInv
  BY DEF IInv
<1>2. TypeOK' /\ ClaimInv'
  BY <1>1 DEF vars, TypeOK, ClaimInv, Ended
<1>3. SlotInv' /\ SegmentInv'
  BY <1>1 DEF vars, SlotInv, SegmentInv, Placed
<1>4. TableInv' /\ WhereInv' /\ AllocateInv' /\ MemoryInv'
  BY <1>1 DEF vars, TableInv, Copied, Spoiled, WhereInv, AllocateInv, Slot, MemoryInv
<1>5. ReadableInv' /\ LeakInv' /\ FailureInv' /\ ThrewInv'
  BY <1>1 DEF vars, ReadableInv, LeakInv, FailureInv, ThrewInv, Cause, ReadAt, Spoiled, Unharmed, Range
<1>6. QED
  BY <1>2, <1>3, <1>4, <1>5 DEF IInv

\* Every step keeps the invariant.
LEMMA NextInv == IInv /\ [Next]_vars => IInv'
BY ClaimKeeps, JoinKeeps, ReadKeeps, PushStepKeeps, StutterKeeps DEF Next

\* The inductive invariant holds in every state of every run.
THEOREM VectorInvariant == Spec => []IInv
BY InitInv, NextInv, PTL DEF Spec

-------------------------------------------------------------------------------
(* What follows from it.                                                   *)

\* No push constructs its item in memory that is not a block of its segment.
THEOREM ItemsGoIntoSegments == Spec => []ConstructsInSegment
<1>1. IInv => ConstructsInSegment
  BY DEF IInv, ConstructsInSegment, SegmentInv, Placed
<1>2. QED
  BY <1>1, VectorInvariant, PTL

\* If segment 0 could not be had, the table that is in use says so.
LEMMA SpoiledTable ==
  ASSUME TypeOK, TableInv, Spoiled
  PROVE  0 \in Segments(my_segment_table) /\ slot[my_segment_table][0] = failure_tag
BY TableTypes, SegmentSets DEF TableInv, Copied, Spoiled

\* Otherwise an item whose push has returned can be found.
LEMMA ReturnedIsThere ==
  ASSUME IInv, NEW i \in Push, pc[i] = "returned", ~ Spoiled
  PROVE  /\ Seg(i) \in Segments(my_segment_table)
         /\ slot[my_segment_table][Seg(i)] \in Push
         /\ slot[my_segment_table][Seg(i)] \in allocated
         /\ ReadAt(i) = i
BY DEF IInv, ReadableInv, MemoryInv, SegmentInv, Placed, ReadAt

\* Unless an allocation fails, an item is found from the moment its push has returned,
\* whatever has happened to the table.
THEOREM ReturnedItemsAreReadable == Spec => []ReturnedIsReadable
<1>1. IInv => ReturnedIsReadable
  BY ReturnedIsThere, NotSpoiled DEF IInv, ReturnedIsReadable
<1>2. QED
  BY <1>1, VectorInvariant, PTL

\* Unless an allocation fails, the blocks that are allocated when all pushes have ended
\* are those in the table.
THEOREM BlocksAreKept == Spec => []NoBlockLeaks
<1>1. IInv => NoBlockLeaks
  <2> SUFFICES ASSUME IInv, joined, Unharmed
               PROVE  allocated = Range(slot[my_segment_table]) \ {null}
    BY DEF NoBlockLeaks
  <2>1. TypeOK /\ SlotInv /\ LeakInv /\ ClaimInv
    BY DEF IInv
  <2>2. DOMAIN slot[my_segment_table] = Segments(my_segment_table) /\ my_segment_table \in Tables
    BY <2>1 DEF TypeOK
  <2>3. ASSUME NEW b \in allocated
        PROVE  b \in Range(slot[my_segment_table]) \ {null}
    <3>1. b \in Push /\ pc[b] # "install"
      BY <2>1, TableTypes DEF ClaimInv, Ended
    <3>2. Seg(b) \in Segments(my_segment_table) /\ slot[my_segment_table][Seg(b)] = b
      BY <2>1, <3>1 DEF LeakInv
    <3>3. QED
      BY <2>2, <3>1, <3>2, PushTypes DEF Range
  <2>4. ASSUME NEW s \in Segments(my_segment_table), slot[my_segment_table][s] # null
        PROVE  slot[my_segment_table][s] \in allocated
    <3>1. slot[my_segment_table][s] \in Push
      BY <2>1, <2>2, <2>4, TableTypes, UnharmedMeans
    <3>2. QED
      BY <2>1, <2>2, <3>1 DEF SlotInv, Placed
  <2>5. QED
    BY <2>2, <2>3, <2>4 DEF Range
<1>2. QED
  BY <1>1, VectorInvariant, PTL

\* When all pushes have ended, an index a reader sees has its block, its item if its push
\* has returned, and otherwise zeroes, or it is in segment 0.
LEMMA SeenIndices ==
  ASSUME IInv, joined, NEW i \in 0 .. size - 1
  PROVE  /\ slot[my_segment_table][Seg(i)] \in allocated
         /\ pc[i] = "returned" => ReadAt(i) = i
         /\ pc[i] = "threw" => ReadAt(i) = Zeroes \/ Seg(i) = 0
<1>1. TypeOK /\ TableInv /\ ThrewInv
  BY DEF IInv
<1>2. i \in Push /\ slot[my_segment_table][Seg(i)] \in Push
      /\ slot[my_segment_table][Seg(i)] \in allocated
      /\ Seg(i) \in Segments(my_segment_table)
  BY ReaderIsInside
<1>3. ~ Spoiled
  <2>1. 0 \in 0 .. size - 1 /\ Seg(0) = 0
    BY <1>1, SizeMeans, SegmentOfIndex
  <2>2. slot[my_segment_table][0] \in Push
    BY <2>1, ReaderIsInside
  <2>3. QED
    BY <1>1, <2>2, SpoiledTable, PushTypes
<1>4. ASSUME pc[i] = "threw"
      PROVE  ReadAt(i) = Zeroes \/ Seg(i) = 0
  <2>1. Cause(i)
    BY <1>1, <1>2, <1>4 DEF ThrewInv
  <2>2. ~ (allocation_failed /\ i >= embedded_table_size)
    BY <1>1, <1>2, InEmbedded, PushTypes DEF ThrewInv
  <2>3. QED
    BY <1>2, <1>3, <2>1, <2>2, PushTypes DEF Cause
<1>5. QED
  BY <1>2, <1>3, <1>4, ReturnedIsThere

\* When all pushes have ended, one that has returned is missing only behind a failed segment.
LEMMA MissingIndices ==
  ASSUME IInv, joined, NEW i \in Push, pc[i] = "returned", i >= size
  PROVE  \E s \in Segments(my_segment_table) :
           s <= Seg(i) /\ slot[my_segment_table][s] = failure_tag
<1>1. TypeOK /\ ClaimInv /\ TableInv /\ ThrewInv
  BY DEF IInv
<1>2. CASE Spoiled
  <2>1. 0 <= Seg(i)
    BY SegmentSets
  <2>2. QED
    BY <1>1, <1>2, <2>1, SpoiledTable
<1>3. CASE ~ Spoiled
  <2>1. Seg(i) \in Segments(my_segment_table) /\ slot[my_segment_table][Seg(i)] \in Push
    BY <1>3, ReturnedIsThere
  <2>2. i < my_size /\ i \in Nat /\ i < PUSHES
    BY <1>1, PushTypes DEF ClaimInv
  <2>3. capacity \in Nat /\ capacity <= i
    BY <1>1, <2>2, CapacityMeans, SizeMeans
  <2>4. PICK s \in Segments(my_segment_table) :
          segment_base(s) = capacity /\ IsMissing(slot[my_segment_table][s])
    BY <1>1, <2>1, <2>2, <2>3, CapacityMeans
  <2>5. s \in Nat /\ Seg(i) \in Nat
    BY <1>1, SegmentSets, TableTypes
  <2>6. s <= Seg(i)
    <3>1. ~ (i < segment_base(s))
      BY <2>2, <2>3, <2>4
    <3>2. ~ (Seg(i) < s)
      BY <2>2, <2>5, <3>1, BeforeSegment
    <3>3. QED
      BY <2>5, <3>2
  <2>7. ASSUME slot[my_segment_table][s] = null
        PROVE  FALSE
    <3>1. /\ capacity \in Push /\ capacity < my_size
          /\ Seg(capacity) = s
      BY <1>1, <2>2, <2>3, <2>4, <2>5, SegmentOfBase, PushTypes DEF Push, TypeOK
    <3>2. pc[capacity] \in {"returned", "threw"}
      BY <1>1, <3>1 DEF ClaimInv, Ended
    <3>3. CASE pc[capacity] = "returned"
      BY <1>3, <2>7, <3>1, <3>3, ReturnedIsThere, PushTypes
    <3>4. CASE pc[capacity] = "threw"
      <4>1. Cause(capacity)
        BY <1>1, <3>1, <3>4 DEF ThrewInv
      <4>2. ~ (allocation_failed /\ capacity >= embedded_table_size)
        BY <1>1, <2>4, <3>1, InEmbedded, PushTypes DEF ThrewInv
      <4>3. ~ (s = 0 /\ slot["embedded"][0] # null)
        BY <1>1, <2>7, TableTypes, SegmentSets DEF TableInv, Copied
      <4>4. QED
        BY <1>3, <2>7, <3>1, <4>1, <4>2, <4>3, PushTypes DEF Cause
    <3>5. QED
      BY <3>2, <3>3, <3>4
  <2>8. QED
    BY <2>4, <2>6, <2>7 DEF IsMissing
<1>4. QED
  BY <1>2, <1>3

\* After any failures the reader dereferences only segments that are there, finds the items
\* of the pushes that returned, and misses one of these only behind a failed segment.
THEOREM ReaderStays == Spec => []ReaderStaysInside
<1>1. IInv => ReaderStaysInside
  BY SeenIndices, MissingIndices DEF ReaderStaysInside
<1>2. QED
  BY <1>1, VectorInvariant, PTL

-------------------------------------------------------------------------------
(* The vector implements AppendVector.                                     *)

Open == {i \in Claimed : ~ Ended(i)}

\* The initial states are those of the abstract specification.
LEMMA InitMaps == Init => Vector!Init
<1> SUFFICES ASSUME Init
             PROVE  Vector!Init
  OBVIOUS
<1>1. [k \in 1 .. my_size |-> k - 1] = <<>>
  BY DEF Init
<1>2. {i \in Claimed : ~ Ended(i)} = {}
  BY DEF Init, Claimed
<1>3. (\E i \in Push : pc[i] = "threw") = FALSE
  BY DEF Init
<1>4. QED
  BY <1>1, <1>2, <1>3 DEF Init, Vector!Init

\* A push takes its place when it claims its index.
LEMMA ClaimMaps ==
  ASSUME IInv, Claim
  PROVE  Vector!Next
<1>1. /\ my_size \in Push /\ my_size \in Nat /\ my_size' = my_size + 1
      /\ pc[my_size] = "idle" /\ pc'[my_size] = "subscript"
      /\ \A j \in Push : j # my_size => pc'[j] = pc[j]
      /\ read' = read
  <2>1. my_size \in Push /\ my_size \in Nat
    BY PushTypes DEF IInv, Claim, TypeOK, Push
  <2>2. pc[my_size] = "idle"
    BY <2>1 DEF IInv, ClaimInv
  <2>3. QED
    BY <2>1, <2>2 DEF IInv, Claim, Goto, TypeOK
<1>2. TypeOK /\ TypeOK'
  BY ClaimKeeps DEF IInv
<1>3. [k \in 1 .. my_size' |-> k - 1] = Append([k \in 1 .. my_size |-> k - 1], my_size)
  BY <1>1
<1>4. \A j : j \in Open' <=> j \in Open \cup {my_size}
  <2>1. \A j : j \in Claimed <=> j \in Push /\ j < my_size
    BY <1>2, ClaimedArePushes
  <2>2. \A j : j \in Claimed' <=> j = my_size \/ j \in Claimed
    BY <1>1 DEF Claimed
  <2>3. \A j : j \in Open' <=> j \in Claimed' /\ pc'[j] \notin {"returned", "threw"}
    BY DEF Open, Ended
  <2>4. \A j : j \in Open <=> j \in Claimed /\ pc[j] \notin {"returned", "threw"}
    BY DEF Open, Ended
  <2>5. \A j \in Claimed : j # my_size /\ pc'[j] = pc[j]
    <3>1. \A j \in Claimed : j \in Push /\ j < my_size
      BY <2>1
    <3>2. \A j \in Claimed : j # my_size
      BY <1>1, <3>1, PushTypes
    <3>3. QED
      BY <1>1, <3>1, <3>2
  <2>6. QED
    BY <1>1, <2>2, <2>3, <2>4, <2>5
<1>5. (\E i \in Push : pc'[i] = "threw") = (\E i \in Push : pc[i] = "threw")
  BY <1>1
<1>6. Vector!TakePlace(my_size)
  <2>1. Open' = Open \cup {my_size}
    BY <1>4
  <2>2. QED
    BY <1>1, <1>3, <1>5, <2>1 DEF Vector!TakePlace, Open
<1>7. QED
  BY <1>1, <1>6 DEF Vector!Next, Vector!TakePlace

\* Every other step of a push ends it or changes nothing that AppendVector sees.
LEMMA PushStepMaps ==
  ASSUME IInv, NEW i \in Push, PushStep(i)
  PROVE  Vector!Next \/ UNCHANGED Vector!vars
<1>1. /\ my_size' = my_size /\ read' = read
      /\ \A j \in Push : j # i => pc'[j] = pc[j]
      /\ pc[i] \notin {"idle", "returned", "threw"} /\ pc'[i] # "idle"
  <2>1. TypeOK
    BY DEF IInv
  <2>2. CASE Lookup(i)
    <3>1. pc'[i] # "idle" /\ \A j \in Push : j # i => pc'[j] = pc[j]
      <4>1. CASE Slot(i) = failure_tag
        BY <2>1, <2>2, <4>1, PushTypes DEF Lookup, Goto, TypeOK
      <4>2. CASE Slot(i) = null
        BY <2>1, <2>2, <4>2, PushTypes DEF Lookup, Goto, TypeOK
      <4>3. CASE Slot(i) # failure_tag /\ Slot(i) # null
        BY <2>1, <2>2, <4>3 DEF Lookup, Goto, TypeOK
      <4>4. QED
        BY <4>1, <4>2, <4>3
    <3>2. QED
      BY <2>2, <3>1 DEF Lookup
  <2>3. CASE Subscript(i)
    BY <2>1, <2>3 DEF Subscript, Goto, TypeOK
  <2>4. CASE CopyTable(i)
    BY <2>1, <2>4 DEF CopyTable, Goto, TypeOK
  <2>5. CASE PublishTable(i)
    BY <2>1, <2>5 DEF PublishTable, Goto, TypeOK
  <2>6. CASE FailToExtend(i)
    BY <2>1, <2>6 DEF FailToExtend, Goto, TypeOK
  <2>7. CASE AwaitTable(i)
    BY <2>1, <2>7 DEF AwaitTable, Goto, TypeOK
  <2>8. CASE Create(i)
    BY <2>1, <2>8 DEF Create, Goto, TypeOK
  <2>9. CASE AllocateFirst(i)
    BY <2>1, <2>9 DEF AllocateFirst, Goto, TypeOK
  <2>10. CASE Install(i)
    BY <2>1, <2>10 DEF Install, Goto, TypeOK
  <2>11. CASE FailFirst(i)
    BY <2>1, <2>11 DEF FailFirst, Goto, TypeOK
  <2>12. CASE MarkFailed(i)
    BY <2>1, <2>12 DEF MarkFailed, Goto, TypeOK
  <2>13. CASE AllocateSegment(i)
    BY <2>1, <2>13 DEF AllocateSegment, Goto, TypeOK
  <2>14. CASE Wait(i)
    BY <2>1, <2>14 DEF Wait, Goto, TypeOK
  <2>15. CASE Load(i)
    BY <2>1, <2>15 DEF Load, Goto, TypeOK
  <2>16. CASE Construct(i)
    BY <2>1, <2>16 DEF Construct, Goto, TypeOK
  <2>17. CASE ConstructThrows(i)
    BY <2>1, <2>17 DEF ConstructThrows, Goto, TypeOK
  <2>18. QED
    BY <2>2, <2>3, <2>4, <2>5, <2>6, <2>7, <2>8, <2>9, <2>10, <2>11, <2>12, <2>13, <2>14, <2>15, <2>16,
       <2>17 DEF PushStep
<1>2. TypeOK /\ ClaimInv
  BY DEF IInv
<1>3. i \in Claimed
  BY <1>1, <1>2, ClaimedArePushes DEF ClaimInv
<1>4. Claimed' = Claimed /\ i \in Open
  BY <1>1, <1>3 DEF Claimed, Open, Ended
<1>5. [k \in 1 .. my_size' |-> k - 1] = [k \in 1 .. my_size |-> k - 1]
  BY <1>1
<1>6. \A j \in Claimed : j # i => pc'[j] = pc[j]
  BY <1>1, <1>2, ClaimedArePushes
<1>7. CASE pc'[i] \in {"returned", "threw"}
  <2>1. Open' = Open \ {i}
    <3>1. \A j : j \in Open' <=> j \in Claimed /\ pc'[j] \notin {"returned", "threw"}
      BY <1>4 DEF Open, Ended
    <3>2. \A j : j \in Open <=> j \in Claimed /\ pc[j] \notin {"returned", "threw"}
      BY DEF Open, Ended
    <3>3. \A j : j \in Open' <=> j \in Open /\ j # i
      BY <1>4, <1>6, <1>7, <3>1, <3>2
    <3>4. QED
      BY <3>3
  <2>2. (\E j \in Push : pc'[j] = "threw") \in {\E j \in Push : pc[j] = "threw", TRUE}
    BY <1>1
  <2>3. Vector!PushEnds(i)
    BY <1>1, <1>4, <1>5, <2>1, <2>2 DEF Vector!PushEnds, Open
  <2>4. QED
    BY <2>3 DEF Vector!Next
<1>8. CASE pc'[i] \notin {"returned", "threw"}
  <2>1. Open' = Open
    <3>1. \A j : j \in Open' <=> j \in Claimed /\ pc'[j] \notin {"returned", "threw"}
      BY <1>4 DEF Open, Ended
    <3>2. \A j : j \in Open <=> j \in Claimed /\ pc[j] \notin {"returned", "threw"}
      BY DEF Open, Ended
    <3>3. \A j : j \in Open' <=> j \in Open
      BY <1>1, <1>4, <1>6, <1>8, <3>1, <3>2
    <3>4. QED
      BY <3>3
  <2>2. (\E j \in Push : pc'[j] = "threw") = (\E j \in Push : pc[j] = "threw")
    BY <1>1, <1>8
  <2>3. QED
    BY <1>1, <1>5, <2>1, <2>2 DEF Vector!vars, Open
<1>9. QED
  BY <1>7, <1>8

\* When no push has thrown, all have returned, and the reader finds all the items.
LEMMA ReadMaps ==
  ASSUME IInv, Read
  PROVE  Vector!Next
<1>1. TypeOK /\ ClaimInv /\ ReadableInv /\ SegmentInv /\ MemoryInv /\ FailureInv
  BY DEF IInv
<1>2. \A j \in Claimed : Ended(j) /\ j \in Push
  BY <1>1, ClaimedArePushes DEF Read, ClaimInv
<1>3. {j \in Claimed : ~ Ended(j)} = {}
  BY <1>2
<1>4. /\ UNCHANGED <<my_size, pc>>
      /\ read' = [k \in 1 .. size |-> ReadAt(k - 1)]
  BY DEF Read
<1>5. ASSUME ~ \E j \in Push : pc[j] = "threw"
      PROVE  read' = [k \in 1 .. my_size |-> k - 1]
  <2>1. \A j \in Push : j < my_size => pc[j] = "returned"
    BY <1>1, <1>2, <1>5, ClaimedArePushes DEF Ended
  <2>2. Unharmed
    <3>1. \A j \in Push : pc[j] \notin {"mark", "threw"}
      BY <1>1, <1>5, <2>1 DEF ClaimInv
    <3>2. QED
      BY <1>1, <3>1 DEF FailureInv
  <2>3. \A j \in Push : j < my_size =>
          /\ Seg(j) \in Segments(my_segment_table)
          /\ slot[my_segment_table][Seg(j)] \in Push
          /\ ReadAt(j) = j
    BY <1>1, <2>1, <2>2, ReturnedIsThere, NotSpoiled
  <2>4. size = my_size
    <3> SUFFICES ASSUME size # my_size
                 PROVE  FALSE
      OBVIOUS
    <3>1. size = capacity /\ capacity < my_size /\ capacity \in Nat /\ my_size \in Nat
      <4>1. my_size \in Nat /\ capacity \in Nat
        BY <1>1, CapacityMeans, PushTypes DEF TypeOK
      <4>2. size \in Nat /\ size <= my_size /\ (size = my_size \/ size = capacity)
        BY <1>1, SizeMeans
      <4>3. QED
        BY <4>1, <4>2
    <3>2. capacity \in Push
      BY <1>1, <3>1, PushTypes DEF TypeOK, Push
    <3>3. PICK s \in Segments(my_segment_table) :
            segment_base(s) = capacity /\ IsMissing(slot[my_segment_table][s])
      BY <1>1, <2>3, <3>1, <3>2, CapacityMeans
    <3>4. s \in Nat
      BY <1>1, SegmentSets, TableTypes
    <3>5. Seg(capacity) = s
      BY <3>3, <3>4, SegmentOfBase
    <3>6. slot[my_segment_table][s] \in Push
      BY <2>3, <3>1, <3>2, <3>5
    <3>7. QED
      BY <3>3, <3>6, PushTypes DEF IsMissing
  <2>5. \A k \in 1 .. my_size : ReadAt(k - 1) = k - 1
    <3> SUFFICES ASSUME NEW k \in 1 .. my_size
                 PROVE  ReadAt(k - 1) = k - 1
      OBVIOUS
    <3>1. k - 1 \in Push /\ k - 1 < my_size
      BY <1>1, PushTypes DEF TypeOK, Push
    <3>2. QED
      BY <2>3, <3>1
  <2>6. QED
    BY <1>4, <2>4, <2>5
<1>6. Vector!Read
  <2>1. [k \in 1 .. my_size' |-> k - 1] = [k \in 1 .. my_size |-> k - 1]
    BY <1>4
  <2>2. {j \in Claimed : ~ Ended(j)}' = {j \in Claimed : ~ Ended(j)}
    BY <1>4 DEF Claimed, Ended
  <2>3. (\E j \in Push : pc'[j] = "threw") = (\E j \in Push : pc[j] = "threw")
    BY <1>4
  <2>4. QED
    BY <1>3, <1>5, <2>1, <2>2, <2>3 DEF Vector!Read
<1>7. QED
  BY <1>6 DEF Vector!Next

\* What leaves size, push and read alone is invisible to AppendVector.
LEMMA QuietSteps ==
  ASSUME UNCHANGED <<my_size, pc, read>>
  PROVE  UNCHANGED Vector!vars
<1>1. Open' = Open
  BY DEF Open, Claimed, Ended
<1>2. QED
  BY <1>1 DEF Vector!vars, Open

\* Every step of the vector is a step of AppendVector or invisible to it: the safety
\* part of ImplementsAppendVector.
THEOREM ConcurrentImplementsAppend == Spec => Vector!Init /\ [][Vector!Next]_(Vector!vars)
<1>1. IInv /\ [Next]_vars => [Vector!Next]_(Vector!vars)
  <2> SUFFICES ASSUME IInv, [Next]_vars
               PROVE  Vector!Next \/ UNCHANGED Vector!vars
    OBVIOUS
  <2>1. CASE Join
    BY <2>1, QuietSteps DEF Join
  <2>2. CASE UNCHANGED vars
    BY <2>2, QuietSteps DEF vars
  <2>3. QED
    BY <2>1, <2>2, ClaimMaps, PushStepMaps, ReadMaps DEF Next
<1>2. QED
  BY <1>1, InitMaps, VectorInvariant, PTL DEF Spec

===============================================================================
