------------------------------ MODULE NameTable ------------------------------
(***************************************************************************)
(* What a table of named things with UUIDs promises: each name and each    *)
(* UUID is used once, and whatever an insertion displaces is handed back.  *)
(***************************************************************************)
EXTENDS Sequences

CONSTANTS Names, Uuids, Items

VARIABLES
    entries,    \* the things in the table: records [name, uuid, item]
    out         \* what the last operation returned

vars == <<entries, out>>
Entry(n, u, i) == [name |-> n, uuid |-> u, item |-> i]

Init == entries = {} /\ out = <<>>

(* Zero or one entry, as a sequence.                                       *)
Listed(S) == IF S = {} THEN <<>> ELSE <<CHOOSE e \in S : TRUE>>

(* If two entries are displaced, the one displaced by its name comes first.*)
Insert(n, u, i) ==
    LET byName == {e \in entries : e.name = n}
        byUuid == {e \in entries : e.uuid = u} \ byName
    IN  /\ entries' = (entries \ (byName \cup byUuid)) \cup {Entry(n, u, i)}
        /\ out' = Listed(byName) \o Listed(byUuid)

Remove(S) == entries' = entries \ S /\ out' = Listed(S)

Next ==
    \/ \E n \in Names, u \in Uuids, i \in Items : Insert(n, u, i)
    \/ \E n \in Names : Remove({e \in entries : e.name = n})
    \/ \E u \in Uuids : Remove({e \in entries : e.uuid = u})

Spec == Init /\ [][Next]_vars
============================================================================
