------------------------------ MODULE MCEngine ------------------------------
(* Small systems for module Engine.                                        *)
EXTENDS Engine

CONSTANTS p1, p2, p3, x, y, d1, d2, e1, f1, k1, k2

(* Two pools, of two disks and of one, and a free disk.  The first disk    *)
(* may come back under another number, and another disk take its number.   *)
PlainDisks == {d1, d2, e1, f1}
PlainNodes ==
    {[num |-> 1, disk |-> d1, kind |-> "stratis"],
     [num |-> 2, disk |-> d2, kind |-> "stratis"],
     [num |-> 3, disk |-> e1, kind |-> "stratis"],
     [num |-> 4, disk |-> f1, kind |-> "stratis"]}
MovingNodes ==
    PlainNodes \cup {[num |-> 5, disk |-> d1, kind |-> "stratis"],
                     [num |-> 1, disk |-> e1, kind |-> "stratis"]}
FirstNodes == {n \in PlainNodes : n.num \in {1, 3, 4}}
PlainEnc == [d \in PlainDisks |-> NoEnc]
PlainUuid == [d \in PlainDisks |-> d]
PlainOwner == [d \in PlainDisks |-> CASE d \in {d1, d2} -> p1
                                      [] d = e1 -> p2
                                      [] OTHER -> NoPool]
PlainMeta == [p \in Pools |-> CASE p = p1 -> [name |-> x, devs |-> {d1, d2}]
                               [] p = p2 -> [name |-> y, devs |-> {e1}]
                               [] OTHER -> [name |-> NoName, devs |-> {}]]

(* A pool on two encrypted disks with their logical sides, and a third     *)
(* disk with the pool's UUID whose encryption info differs.                *)
LuksDisks == {d1, d2, f1}
LuksNodes ==
    {[num |-> 1, disk |-> d1, kind |-> "luks"],
     [num |-> 2, disk |-> d2, kind |-> "luks"],
     [num |-> 3, disk |-> f1, kind |-> "luks"],
     [num |-> 11, disk |-> d1, kind |-> "stratis"],
     [num |-> 12, disk |-> d2, kind |-> "stratis"]}
LuksFirst == {n \in LuksNodes : n.num \in {1, 2}}
LuksEnc == [d \in LuksDisks |-> IF d = f1 THEN k2 ELSE k1]
LuksUuid == [d \in LuksDisks |-> d]
LuksOwner == [d \in LuksDisks |-> p1]
LuksMeta == [p \in Pools |-> [name |-> x, devs |-> {d1, d2}]]
============================================================================
