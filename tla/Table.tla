-------------------------------- MODULE Table --------------------------------
(***************************************************************************)
(* Table, which holds the pools of the engine and the filesystems of a     *)
(* pool: two hash maps that must stay inverse to one another.  It is shown *)
(* to implement NameTable.                                                 *)
(***************************************************************************)
EXTENDS Maps, Sequences

CONSTANTS Names, Uuids, Items

VARIABLES
    name_to_uuid,   \* name |-> UUID
    items,          \* UUID |-> name and item
    out,            \* what the last operation returned
    panicked        \* an assertion or an expect of insert failed

tableVars == <<name_to_uuid, items, out, panicked>>

Entry(n, u, i) == [name |-> n, uuid |-> u, item |-> i]

TableInit == name_to_uuid = Empty /\ items = Empty /\ out = <<>> /\ panicked = FALSE

(* The two insertions with which insert begins.                            *)
NameToUuid(n, u) == Put(name_to_uuid, n, u)
NewItems(n, u, i) == Put(items, u, [name |-> n, item |-> i])

(* What insert checks holds, or it panics.                                 *)
Expect(condition, update) ==
    /\ ~panicked
    /\ IF condition THEN update /\ panicked' = FALSE
                    ELSE panicked' = TRUE /\ UNCHANGED <<name_to_uuid, items, out>>

(* Table::insert, by what its two insertions displaced: the entry of the   *)
(* same name and UUID ...                                                  *)
InsertSame(n, u, i) ==
    /\ n \in DOMAIN name_to_uuid /\ u \in DOMAIN items /\ name_to_uuid[n] = u
    /\ Expect(items[u].name = n,
              /\ name_to_uuid' = NameToUuid(n, u)
              /\ items' = NewItems(n, u, i)
              /\ out' = <<Entry(n, u, items[u].item)>>)

(* ... one of the same name and another of the same UUID ...               *)
InsertBoth(n, u, i) ==
    /\ n \in DOMAIN name_to_uuid /\ u \in DOMAIN items /\ name_to_uuid[n] # u
    /\ LET old_uuid == name_to_uuid[n]
           old_name == items[u].name
           n2u == NameToUuid(n, u)
           its == NewItems(n, u, i)
       IN  Expect(/\ old_name # n
                  /\ old_name \in DOMAIN n2u /\ old_uuid \in DOMAIN its
                  /\ its[old_uuid].name = n /\ n2u[old_name] = u,
                  /\ name_to_uuid' = Drop(n2u, old_name)
                  /\ items' = Drop(its, old_uuid)
                  /\ out' = <<Entry(n, old_uuid, its[old_uuid].item),
                              Entry(old_name, u, items[u].item)>>)

(* ... one of the same name ...                                            *)
InsertName(n, u, i) ==
    /\ n \in DOMAIN name_to_uuid /\ u \notin DOMAIN items
    /\ LET old_uuid == name_to_uuid[n]
           its == NewItems(n, u, i)
       IN  Expect(old_uuid \in DOMAIN its /\ its[old_uuid].name = n,
                  /\ name_to_uuid' = NameToUuid(n, u)
                  /\ items' = Drop(its, old_uuid)
                  /\ out' = <<Entry(n, old_uuid, its[old_uuid].item)>>)

(* ... one of the same UUID ...                                            *)
InsertUuid(n, u, i) ==
    /\ n \notin DOMAIN name_to_uuid /\ u \in DOMAIN items
    /\ LET old_name == items[u].name
           n2u == NameToUuid(n, u)
       IN  Expect(old_name \in DOMAIN n2u /\ n2u[old_name] = u,
                  /\ name_to_uuid' = Drop(n2u, old_name)
                  /\ items' = NewItems(n, u, i)
                  /\ out' = <<Entry(old_name, u, items[u].item)>>)

(* ... or none.                                                            *)
InsertNew(n, u, i) ==
    /\ n \notin DOMAIN name_to_uuid /\ u \notin DOMAIN items
    /\ Expect(TRUE,
              /\ name_to_uuid' = NameToUuid(n, u)
              /\ items' = NewItems(n, u, i)
              /\ out' = <<>>)

(* Table::remove_by_name and remove_by_uuid.                               *)
RemoveByName(n) ==
    /\ ~panicked
    /\ name_to_uuid' = Drop(name_to_uuid, n)
    /\ IF n \in DOMAIN name_to_uuid /\ name_to_uuid[n] \in DOMAIN items
         THEN LET u == name_to_uuid[n]
              IN  items' = Drop(items, u) /\ out' = <<Entry(n, u, items[u].item)>>
         ELSE out' = <<>> /\ UNCHANGED items
    /\ UNCHANGED panicked

RemoveByUuid(u) ==
    /\ ~panicked
    /\ items' = Drop(items, u)
    /\ IF u \in DOMAIN items
         THEN /\ name_to_uuid' = Drop(name_to_uuid, items[u].name)
              /\ out' = <<Entry(items[u].name, u, items[u].item)>>
         ELSE out' = <<>> /\ UNCHANGED name_to_uuid
    /\ UNCHANGED panicked

TableInsert(n, u, i) ==
    \/ InsertSame(n, u, i) \/ InsertBoth(n, u, i) \/ InsertName(n, u, i)
    \/ InsertUuid(n, u, i) \/ InsertNew(n, u, i)

TableNext ==
    \/ \E n \in Names, u \in Uuids, i \in Items : TableInsert(n, u, i)
    \/ \E n \in Names : RemoveByName(n)
    \/ \E u \in Uuids : RemoveByUuid(u)

TableSpec == TableInit /\ [][TableNext]_tableVars

----------------------------------------------------------------------------
(* The assertions and expectations of insert never fail, whatever was      *)
(* inserted and removed before.                                            *)
NeverPanics == ~panicked

(* The two maps are inverse to one another: table_invariant of the tests.  *)
MapsInverse ==
    /\ \A n \in DOMAIN name_to_uuid :
         name_to_uuid[n] \in DOMAIN items /\ items[name_to_uuid[n]].name = n
    /\ \A u \in DOMAIN items :
         items[u].name \in DOMAIN name_to_uuid /\ name_to_uuid[items[u].name] = u

(* The table is one of unique names and UUIDs, and it hands back exactly   *)
(* what it displaces.                                                      *)
NT == INSTANCE NameTable WITH
        entries <- {Entry(items[u].name, u, items[u].item) : u \in DOMAIN items}
IsNameTable == NT!Spec
============================================================================
