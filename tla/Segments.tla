------------------------------ MODULE Segments ------------------------------
(***************************************************************************)
(* The used ranges of a block device.  PerDevSegments is a BTreeMap        *)
(* from the first sector of a used range to its length; here it is the set *)
(* of those pairs, and limit stands beside it.  An operation that can      *)
(* return an error yields [ok, used].                                      *)
(***************************************************************************)
EXTENDS Integers, FiniteSets

End(r) == r[1] + r[2]
Starts(used) == {r[1] : r \in used}

(* The sectors that are in some range.                                     *)
Covered(used) == UNION {r[1] .. End(r) - 1 : r \in used}

(* What PerDevSegments promises of its map: no range is empty, no two      *)
(* overlap or touch, none goes beyond the limit.                           *)
Normal(used, limit) ==
    /\ used \subseteq Nat \X (Nat \ {0})
    /\ \A r \in used : End(r) <= limit
    /\ \A r, t \in used : r # t => End(r) < t[1] \/ End(t) < r[1]

Done(used) == [ok |-> TRUE, used |-> used]
Failed == [ok |-> FALSE, used |-> {}]

----------------------------------------------------------------------------
(* locate_prev_and_next: the ranges that start next to a value, or at it.  *)
(* There is at most one of each.                                           *)
Prev(used, value) == {r \in used : r[1] <= value /\ \A t \in used : t[1] <= value => t[1] <= r[1]}
Following(used, value) == {r \in used : r[1] >= value /\ \A t \in used : t[1] >= value => t[1] >= r[1]}

(* insertion_result: its errors, the neighbours that are contiguous, and   *)
(* the range that takes their place.                                       *)
Refused(used, limit, start, len) ==
    \/ start + len > limit
    \/ \E p \in Prev(used, start) : End(p) > start
    \/ \E n \in Following(used, start) : start + len > n[1]
Contiguous(used, start, len) ==
    {p \in Prev(used, start) : End(p) = start} \cup {n \in Following(used, start) : start + len = n[1]}
Joined(used, start, len) ==
    LET parts == Contiguous(used, start, len) \cup {<<start, len>>}
        first == CHOOSE r \in parts : \A t \in parts : r[1] <= t[1]
        last == CHOOSE r \in parts : \A t \in parts : End(t) <= End(r)
    IN  <<first[1], End(last) - first[1]>>

Inserted(used, start, len) ==
    (used \ Contiguous(used, start, len)) \cup {Joined(used, start, len)}

(* insert.                                                                 *)
Insert(used, limit, start, len) ==
    IF start > limit THEN Failed
    ELSE IF len = 0 THEN Done(used)
    ELSE IF Refused(used, limit, start, len) THEN Failed
    ELSE Done(Inserted(used, start, len))

(* complement: the gaps.  A gap starts at 0 or where a range ends, and     *)
(* goes on to the next range or to the limit.                              *)
GapEnd(used, limit, e) ==
    LET after == {s \in Starts(used) : s >= e} \cup {limit}
    IN  CHOOSE s \in after : \A t \in after : s <= t
Complement(used, limit) ==
    LET ends == {0} \cup {End(r) : r \in used}
    IN  {<<e, GapEnd(used, limit, e) - e>> : e \in {x \in ends : GapEnd(used, limit, x) # x}}

(* request: the first gaps, as far as they are needed.                     *)
FirstGaps(used, limit, amount) ==
    LET free == Complement(used, limit)
        left(r) == amount - Cardinality({x \in Covered(free) : x < r[1]})
    IN  {<<r[1], IF r[2] <= left(r) THEN r[2] ELSE left(r)>> : r \in {x \in free : left(x) > 0}}
============================================================================
