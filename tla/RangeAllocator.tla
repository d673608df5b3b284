--------------------------- MODULE RangeAllocator ---------------------------
(***************************************************************************)
(* The range allocator of a block device, and the operations of its        *)
(* PerDevSegments that go over many ranges.                                *)
(***************************************************************************)
EXTENDS Segments, SequencesExt

(* union: both maps' ranges go into an empty one, the last ones first.     *)
InsertEach(limit, ranges) ==
    FoldLeft(LAMBDA acc, r : IF acc.ok THEN Insert(acc.used, limit, r[1], r[2]) ELSE acc, Done({}), ranges)
Ascending(used) == SetToSortSeq(used, LAMBDA r, t : r[1] < t[1])
Descending(used) == SetToSortSeq(used, LAMBDA r, t : r[1] > t[1])
Union(a, b, limit) ==
    IF \E r \in a, t \in b : r = t THEN Failed
    ELSE InsertEach(limit, Descending(a \cup b))

(* insert_all: the ranges, a sequence of pairs, all go in or none.         *)
InsertAll(used, limit, ranges) ==
    LET temp == InsertEach(limit, ranges)
    IN  IF temp.ok THEN Union(used, temp.used, limit) ELSE Failed

(* RangeAllocator::new.                                                    *)
NewAllocator(limit, initial_used) == InsertAll({}, limit, initial_used)

(* available.                                                              *)
Available(used, limit) == limit - Cardinality(Covered(used))

(* request: the gaps that are needed, and what is used then.               *)
Request(used, limit, amount) ==
    LET got == FirstGaps(used, limit, amount)
    IN  [segs |-> got, used |-> Union(used, got, limit).used]
============================================================================
