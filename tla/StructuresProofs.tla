-------------------------- MODULE StructuresProofs --------------------------
(***************************************************************************)
(* Proofs about structures the engine is built from: for any names, UUIDs  *)
(* and items, the table that pools and filesystems are kept in; for any    *)
(* number of identifiers, faults and seconds, what the signature blocks    *)
(* say of a device; and for any devices, what the scan at the start makes  *)
(* of those of a pool.                                                     *)
(***************************************************************************)
EXTENDS StaticHeader, Scan, Table, TLAPS

(* The time a leaf may take: long modules slow the prover down.            *)
USE SMTT(20), ZenonT(20)

(* The table.                                                              *)

TableInv == NeverPanics /\ MapsInverse

(* The things in the table, as NameTable sees them.                        *)
Entries == {Entry(items[u].name, u, items[u].item) : u \in DOMAIN items}

----------------------------------------------------------------------------
(* The entries of one name and of one UUID.                                *)
LEMMA ByName ==
    ASSUME TableInv, NEW n
    PROVE  /\ n \in DOMAIN name_to_uuid =>
                /\ name_to_uuid[n] \in DOMAIN items
                /\ {e \in Entries : e.name = n}
                     = {Entry(n, name_to_uuid[n], items[name_to_uuid[n]].item)}
           /\ n \notin DOMAIN name_to_uuid => {e \in Entries : e.name = n} = {}
<1>1. CASE n \in DOMAIN name_to_uuid
  <2>1. name_to_uuid[n] \in DOMAIN items /\ items[name_to_uuid[n]].name = n
    BY <1>1 DEF TableInv, MapsInverse
  <2>2. ASSUME NEW v \in DOMAIN items, items[v].name = n PROVE v = name_to_uuid[n]
    BY <2>2 DEF TableInv, MapsInverse
  <2>3. \A e \in Entries : e.name = n => e = Entry(n, name_to_uuid[n], items[name_to_uuid[n]].item)
    BY <2>1, <2>2 DEF Entries, Entry
  <2>4. Entry(n, name_to_uuid[n], items[name_to_uuid[n]].item) \in Entries
    BY <2>1 DEF Entries
  <2>5. Entry(n, name_to_uuid[n], items[name_to_uuid[n]].item).name = n
    BY DEF Entry
  <2> QED
    BY <1>1, <2>1, <2>3, <2>4, <2>5
<1>2. CASE n \notin DOMAIN name_to_uuid
  <2>1. \A v \in DOMAIN items : items[v].name # n
    BY <1>2 DEF TableInv, MapsInverse
  <2> QED
    BY <1>2, <2>1 DEF Entries, Entry
<1> QED
  BY <1>1, <1>2

LEMMA ByUuid ==
    ASSUME NEW u
    PROVE  /\ u \in DOMAIN items =>
                {e \in Entries : e.uuid = u} = {Entry(items[u].name, u, items[u].item)}
           /\ u \notin DOMAIN items => {e \in Entries : e.uuid = u} = {}
<1>1. \A e \in Entries : e.uuid \in DOMAIN items /\ e = Entry(items[e.uuid].name, e.uuid, items[e.uuid].item)
  BY DEF Entries, Entry
<1>2. \A v \in DOMAIN items : Entry(items[v].name, v, items[v].item) \in Entries
  BY DEF Entries
<1>3. Entry(items[u].name, u, items[u].item).uuid = u
  BY DEF Entry
<1> QED
  BY <1>1, <1>2, <1>3

LEMMA ListedIs ==
    /\ NT!Listed({}) = <<>>
    /\ \A e : NT!Listed({e}) = <<e>>
<1>1. NT!Listed({}) = <<>>
  BY DEF NT!Listed
<1>2. ASSUME NEW e PROVE NT!Listed({e}) = <<e>>
  <2>1. {e} # {} /\ (CHOOSE x \in {e} : TRUE) = e
    OBVIOUS
  <2> QED
    BY <2>1 DEF NT!Listed
<1> QED
  BY <1>1, <1>2, Zenon

LEMMA ConcatIs ==
    ASSUME NEW S, NEW s \in Seq(S), NEW t \in Seq(S)
    PROVE  /\ s \o t \in Seq(S) /\ Len(s \o t) = Len(s) + Len(t)
           /\ \A k \in 1 .. Len(s) + Len(t) :
                (s \o t)[k] = IF k <= Len(s) THEN s[k] ELSE t[k - Len(s)]
  OBVIOUS

LEMMA SameSeq ==
    ASSUME NEW S, NEW s \in Seq(S), NEW t \in Seq(S),
           Len(s) = Len(t), \A k \in 1 .. Len(s) : s[k] = t[k]
    PROVE  s = t
  OBVIOUS

LEMMA Concats ==
    ASSUME NEW x, NEW y
    PROVE  /\ <<>> \o <<>> = <<>> /\ <<x>> \o <<>> = <<x>> /\ <<>> \o <<x>> = <<x>>
           /\ <<x>> \o <<y>> = <<x, y>>
<1>1. <<>> \o <<>> = <<>>
  OBVIOUS
<1>2. <<x>> \o <<>> = <<x>>
  OBVIOUS
<1>3. <<>> \o <<x>> = <<x>>
  OBVIOUS
<1>4. <<x>> \o <<y>> = <<x, y>>
  <2>a. <<x>> \in Seq({x, y}) /\ <<y>> \in Seq({x, y}) /\ <<x, y>> \in Seq({x, y})
    OBVIOUS
  <2>1. PICK s \in Seq({x, y}), t \in Seq({x, y}) : s = <<x>> /\ t = <<y>>
    BY <2>a, Zenon
  <2>2. /\ s \o t \in Seq({x, y}) /\ Len(s \o t) = 2
        /\ (s \o t)[1] = x /\ (s \o t)[2] = y
    BY <2>1, ConcatIs
  <2>3. s \o t = <<x, y>>
    <3>1. Len(<<x, y>>) = 2 /\ <<x, y>>[1] = x /\ <<x, y>>[2] = y
      OBVIOUS
    <3>2. \A k \in 1 .. Len(s \o t) : (s \o t)[k] = <<x, y>>[k]
      BY <2>2, <3>1
    <3> QED
      BY <2>a, <2>2, <3>1, <3>2, SameSeq, ZenonT(40)
  <2> QED
    BY <2>1, <2>3
<1> QED
  BY <1>1, <1>2, <1>3, <1>4

(* An insertion, in terms of what the maps become and what is returned.    *)
LEMMA InsertRefines ==
    ASSUME TableInv, NEW n \in Names, NEW u \in Uuids, NEW i \in Items,
           DOMAIN items' = {v \in DOMAIN items : items[v].name # n} \cup {u},
           items'[u] = [name |-> n, item |-> i],
           \A v \in DOMAIN items' : v # u => items'[v] = items[v],
           out' = NT!Listed({e \in Entries : e.name = n})
                    \o NT!Listed({e \in Entries : e.uuid = u} \ {e \in Entries : e.name = n})
    PROVE  NT!Insert(n, u, i)
<1> DEFINE gone == {e \in Entries : e.name = n} \cup ({e \in Entries : e.uuid = u} \ {e \in Entries : e.name = n})
<1>1. Entries' = (Entries \ gone) \cup {Entry(n, u, i)}
  <2>1. Entries' = {Entry(items'[v].name, v, items'[v].item) : v \in DOMAIN items'}
    BY Zenon DEF Entries, Entry
  <2>2. Entry(n, u, i) \in Entries'
    BY <2>1 DEF Entry
  <2>3. ASSUME NEW e \in Entries \ gone PROVE e \in Entries'
    <3>1. PICK v \in DOMAIN items : e = Entry(items[v].name, v, items[v].item)
      BY DEF Entries
    <3>2. items[v].name # n /\ v # u
      BY <3>1, <2>3 DEF Entry
    <3> QED
      BY <2>1, <3>1, <3>2
  <2>4. ASSUME NEW e \in Entries', e # Entry(n, u, i) PROVE e \in Entries \ gone
    <3>1. PICK v \in DOMAIN items' : e = Entry(items'[v].name, v, items'[v].item)
      BY <2>1
    <3>2. v # u
      BY <3>1, <2>4 DEF Entry
    <3>3. v \in DOMAIN items /\ items[v].name # n /\ e = Entry(items[v].name, v, items[v].item)
      BY <3>1, <3>2
    <3> QED
      BY <3>2, <3>3 DEF Entries, Entry
  <2> QED
    BY <2>2, <2>3, <2>4, Zenon
<1> QED
  BY <1>1, Zenon DEF NT!Insert, Entries, Entry, NT!Entry

(* Which keys are left when the entries of a name or of a UUID go.         *)
LEMMA KeysLeft ==
    ASSUME TableInv, NEW n, NEW u
    PROVE  /\ n \in DOMAIN name_to_uuid =>
                {v \in DOMAIN items : items[v].name # n} = DOMAIN items \ {name_to_uuid[n]}
           /\ n \notin DOMAIN name_to_uuid => {v \in DOMAIN items : items[v].name # n} = DOMAIN items
           /\ u \in DOMAIN items =>
                {m \in DOMAIN name_to_uuid : name_to_uuid[m] # u} = DOMAIN name_to_uuid \ {items[u].name}
           /\ u \notin DOMAIN items => {m \in DOMAIN name_to_uuid : name_to_uuid[m] # u} = DOMAIN name_to_uuid
<1>1. /\ \A m \in DOMAIN name_to_uuid :
           name_to_uuid[m] \in DOMAIN items /\ items[name_to_uuid[m]].name = m
      /\ \A v \in DOMAIN items :
           items[v].name \in DOMAIN name_to_uuid /\ name_to_uuid[items[v].name] = v
  BY DEF TableInv, MapsInverse
<1>2. n \in DOMAIN name_to_uuid => \A v \in DOMAIN items : items[v].name = n <=> v = name_to_uuid[n]
  BY <1>1, Zenon
<1>3. n \notin DOMAIN name_to_uuid => \A v \in DOMAIN items : items[v].name # n
  BY <1>1, Zenon
<1>4. u \in DOMAIN items => \A m \in DOMAIN name_to_uuid : name_to_uuid[m] = u <=> m = items[u].name
  BY <1>1, Zenon
<1>5. u \notin DOMAIN items => \A m \in DOMAIN name_to_uuid : name_to_uuid[m] # u
  BY <1>1, Zenon
<1>6. n \in DOMAIN name_to_uuid =>
        {v \in DOMAIN items : items[v].name # n} = DOMAIN items \ {name_to_uuid[n]}
  BY <1>2, Zenon
<1>7. u \in DOMAIN items =>
        {m \in DOMAIN name_to_uuid : name_to_uuid[m] # u} = DOMAIN name_to_uuid \ {items[u].name}
  BY <1>4, Zenon
<1> QED
  BY <1>3, <1>5, <1>6, <1>7, Zenon

(* The maps stay inverse when a pair replaces all entries of its name and  *)
(* of its UUID.                                                            *)
LEMMA StaysInverse ==
    ASSUME TableInv, NEW n, NEW u,
           DOMAIN items' = {v \in DOMAIN items : items[v].name # n} \cup {u},
           items'[u].name = n,
           \A v \in DOMAIN items' : v # u => items'[v] = items[v],
           DOMAIN name_to_uuid' = {m \in DOMAIN name_to_uuid : name_to_uuid[m] # u} \cup {n},
           name_to_uuid'[n] = u,
           \A m \in DOMAIN name_to_uuid' : m # n => name_to_uuid'[m] = name_to_uuid[m]
    PROVE  MapsInverse'
<1>1. /\ \A m \in DOMAIN name_to_uuid :
           name_to_uuid[m] \in DOMAIN items /\ items[name_to_uuid[m]].name = m
      /\ \A v \in DOMAIN items :
           items[v].name \in DOMAIN name_to_uuid /\ name_to_uuid[items[v].name] = v
  BY DEF TableInv, MapsInverse
<1>2. u \in DOMAIN items' /\ n \in DOMAIN name_to_uuid'
  OBVIOUS
<1>3. ASSUME NEW m \in DOMAIN name_to_uuid', m # n
      PROVE  name_to_uuid'[m] \in DOMAIN items' /\ items'[name_to_uuid'[m]].name = m
  <2>a. m \in {k \in DOMAIN name_to_uuid : name_to_uuid[k] # u}
    BY <1>3, Zenon
  <2>b. name_to_uuid'[m] = name_to_uuid[m]
    BY <1>3, Zenon
  <2>1. m \in DOMAIN name_to_uuid /\ name_to_uuid[m] # u /\ name_to_uuid'[m] = name_to_uuid[m]
    BY <2>a, <2>b, Zenon
  <2>2. name_to_uuid[m] \in DOMAIN items /\ items[name_to_uuid[m]].name = m
    BY <1>1, <2>1, Zenon
  <2>3. name_to_uuid[m] \in DOMAIN items'
    BY <1>3, <2>2, Zenon
  <2>4. items'[name_to_uuid[m]] = items[name_to_uuid[m]]
    BY <2>1, <2>3, Zenon
  <2> QED
    BY <2>1, <2>2, <2>3, <2>4, Zenon
<1>4. ASSUME NEW v \in DOMAIN items', v # u
      PROVE  items'[v].name \in DOMAIN name_to_uuid' /\ name_to_uuid'[items'[v].name] = v
  <2>a. v \in {w \in DOMAIN items : items[w].name # n}
    BY <1>4
  <2>b. items'[v] = items[v]
    BY <1>4, Zenon
  <2>1. v \in DOMAIN items /\ items[v].name # n /\ items'[v] = items[v]
    BY <2>a, <2>b, Zenon
  <2>2. items[v].name \in DOMAIN name_to_uuid /\ name_to_uuid[items[v].name] = v
    BY <1>1, <2>1, Zenon
  <2>3. items[v].name \in DOMAIN name_to_uuid'
    BY <1>4, <2>2, Zenon
  <2>4. name_to_uuid'[items[v].name] = name_to_uuid[items[v].name]
    BY <2>1, <2>3, Zenon
  <2> QED
    BY <2>1, <2>2, <2>3, <2>4, Zenon
<1> QED
  BY <1>2, <1>3, <1>4, Zenon DEF MapsInverse

----------------------------------------------------------------------------
(* insert when the pair of the same name and UUID is displaced, or none.   *)
LEMMA InsertPlain ==
    ASSUME TableInv, NEW n \in Names, NEW u \in Uuids, NEW i \in Items,
           InsertSame(n, u, i) \/ InsertNew(n, u, i)
    PROVE  TableInv' /\ NT!Insert(n, u, i)
<1>1. ~panicked'
  BY DEF TableInv, NeverPanics, MapsInverse, InsertSame, InsertNew, Expect
<1>2. name_to_uuid' = Put(name_to_uuid, n, u) /\ items' = Put(items, u, [name |-> n, item |-> i])
  BY <1>1 DEF InsertSame, InsertNew, Expect, NameToUuid, NewItems
<1>3. n \in DOMAIN name_to_uuid => name_to_uuid[n] = u
  BY Zenon DEF InsertSame, InsertNew
<1>4. u \in DOMAIN items => items[u].name = n
  BY Zenon DEF InsertSame, InsertNew, TableInv, MapsInverse
<1>a. /\ DOMAIN name_to_uuid' = DOMAIN name_to_uuid \cup {n}
      /\ name_to_uuid'[n] = u
      /\ \A m \in DOMAIN name_to_uuid' : m # n => name_to_uuid'[m] = name_to_uuid[m]
  BY <1>2 DEF Put
<1>6. /\ DOMAIN items' = DOMAIN items \cup {u}
      /\ items'[u] = [name |-> n, item |-> i]
      /\ \A v \in DOMAIN items' : v # u => items'[v] = items[v]
  BY <1>2 DEF Put
<1>7. DOMAIN items' = {v \in DOMAIN items : items[v].name # n} \cup {u}
  <2>1. {v \in DOMAIN items : items[v].name # n} \in {DOMAIN items, DOMAIN items \ {u}}
    BY <1>3, KeysLeft, Zenon
  <2> QED
    BY <1>6, <2>1, Zenon
<1>b. DOMAIN name_to_uuid' = {m \in DOMAIN name_to_uuid : name_to_uuid[m] # u} \cup {n}
  <2>1. {m \in DOMAIN name_to_uuid : name_to_uuid[m] # u} \in {DOMAIN name_to_uuid, DOMAIN name_to_uuid \ {n}}
    BY <1>4, KeysLeft, Zenon
  <2> QED
    BY <1>a, <2>1, Zenon
<1>5. MapsInverse'
  <2>1. items'[u].name = n
    BY <1>6
  <2> QED
    BY <1>a, <1>6, <1>7, <1>b, <2>1, StaysInverse, Zenon
<1>8. CASE InsertNew(n, u, i)
  <2>1. n \notin DOMAIN name_to_uuid /\ u \notin DOMAIN items /\ out' = <<>>
    BY <1>1, <1>8 DEF InsertNew, Expect
  <2>2. {e \in Entries : e.name = n} = {} /\ {e \in Entries : e.uuid = u} = {}
    BY <2>1, ByName, ByUuid
  <2>3. out' = NT!Listed({}) \o NT!Listed({} \ {})
    BY <2>1, ListedIs
  <2>4. NT!Insert(n, u, i)
    BY <1>6, <1>7, <2>2, <2>3, InsertRefines, Zenon
  <2> QED
    BY <1>1, <1>5, <2>4 DEF TableInv, NeverPanics
<1>9. CASE InsertSame(n, u, i)
  <2>1. /\ n \in DOMAIN name_to_uuid /\ u \in DOMAIN items /\ name_to_uuid[n] = u
        /\ out' = <<Entry(n, u, items[u].item)>>
    BY <1>1, <1>9 DEF InsertSame, Expect
  <2>2. PICK x : x = Entry(n, u, items[u].item)
    OBVIOUS
  <2>3. {e \in Entries : e.name = n} = {x}
    BY <2>1, <2>2, ByName, Zenon
  <2>4. {e \in Entries : e.uuid = u} = {x}
    BY <1>4, <2>1, <2>2, ByUuid
  <2>5. out' = NT!Listed({x}) \o NT!Listed({x} \ {x})
    <3>1. {x} \ {x} = {}
      OBVIOUS
    <3>2. NT!Listed({x}) \o NT!Listed({}) = <<x>>
      BY ListedIs, Concats, Zenon
    <3> QED
      BY <2>1, <2>2, <3>1, <3>2, Zenon
  <2>6. NT!Insert(n, u, i)
    BY <1>6, <1>7, <2>3, <2>4, <2>5, InsertRefines, Zenon
  <2> QED
    BY <1>1, <1>5, <2>6 DEF TableInv, NeverPanics
<1> QED
  BY <1>8, <1>9

(* insert when an entry of the same name is displaced.                     *)
LEMMA InsertOverName ==
    ASSUME TableInv, NEW n \in Names, NEW u \in Uuids, NEW i \in Items, InsertName(n, u, i)
    PROVE  TableInv' /\ NT!Insert(n, u, i)
<1>1. n \in DOMAIN name_to_uuid /\ u \notin DOMAIN items
  BY Zenon DEF InsertName
<1>2. PICK old_uuid : old_uuid = name_to_uuid[n]
  OBVIOUS
<1>3. old_uuid \in DOMAIN items /\ items[old_uuid].name = n /\ old_uuid # u
  BY <1>1, <1>2 DEF TableInv, MapsInverse
<1>4. PICK its : its = NewItems(n, u, i)
  OBVIOUS
<1>5. /\ DOMAIN its = DOMAIN items \cup {u} /\ its[u] = [name |-> n, item |-> i]
      /\ \A v \in DOMAIN items : v # u => its[v] = items[v]
  BY <1>4 DEF NewItems, Put
<1>6. /\ ~panicked' /\ name_to_uuid' = NameToUuid(n, u)
      /\ items' = Drop(its, old_uuid)
      /\ out' = <<Entry(n, old_uuid, items[old_uuid].item)>>
  BY <1>2, <1>3, <1>4, <1>5, Zenon DEF InsertName, Expect
<1>7. /\ DOMAIN items' = (DOMAIN items \cup {u}) \ {old_uuid}
      /\ items'[u] = [name |-> n, item |-> i]
      /\ \A v \in DOMAIN items' : v # u => items'[v] = items[v]
  BY <1>3, <1>5, <1>6, Zenon DEF Drop
<1>8. /\ DOMAIN name_to_uuid' = DOMAIN name_to_uuid
      /\ name_to_uuid'[n] = u
      /\ \A m \in DOMAIN name_to_uuid : m # n => name_to_uuid'[m] = name_to_uuid[m]
  BY <1>1, <1>6, Zenon DEF NameToUuid, Put
<1>10. DOMAIN items' = {v \in DOMAIN items : items[v].name # n} \cup {u}
  <2>1. {v \in DOMAIN items : items[v].name # n} = DOMAIN items \ {old_uuid}
    BY <1>1, <1>2, KeysLeft, Zenon
  <2> QED
    BY <1>3, <1>7, <2>1, Zenon
<1>a. DOMAIN name_to_uuid' = {m \in DOMAIN name_to_uuid : name_to_uuid[m] # u} \cup {n}
  <2>1. {m \in DOMAIN name_to_uuid : name_to_uuid[m] # u} = DOMAIN name_to_uuid
    BY <1>1, KeysLeft, Zenon
  <2> QED
    BY <1>1, <1>8, <2>1, Zenon
<1>9. MapsInverse'
  <2>1. items'[u].name = n
    BY <1>7
  <2> QED
    BY <1>7, <1>8, <1>10, <1>a, <2>1, StaysInverse, Zenon
<1>11. PICK x : x = Entry(n, old_uuid, items[old_uuid].item)
  OBVIOUS
<1>12. {e \in Entries : e.name = n} = {x} /\ {e \in Entries : e.uuid = u} = {}
  BY <1>1, <1>2, <1>11, ByName, ByUuid
<1>13. out' = NT!Listed({x}) \o NT!Listed({} \ {x})
  <2>1. {} \ {x} = {}
    OBVIOUS
  <2> QED
    BY <1>6, <1>11, <2>1, ListedIs, Concats, Zenon
<1>14. NT!Insert(n, u, i)
  BY <1>7, <1>10, <1>12, <1>13, InsertRefines, Zenon
<1> QED
  BY <1>6, <1>9, <1>14 DEF TableInv, NeverPanics

(* insert when an entry of the same UUID is displaced.                     *)
LEMMA InsertOverUuid ==
    ASSUME TableInv, NEW n \in Names, NEW u \in Uuids, NEW i \in Items, InsertUuid(n, u, i)
    PROVE  TableInv' /\ NT!Insert(n, u, i)
<1>1. n \notin DOMAIN name_to_uuid /\ u \in DOMAIN items
  BY DEF InsertUuid
<1>2. PICK old_name : old_name = items[u].name
  OBVIOUS
<1>3. old_name \in DOMAIN name_to_uuid /\ name_to_uuid[old_name] = u /\ old_name # n
  BY <1>1, <1>2 DEF TableInv, MapsInverse
<1>4. PICK n2u : n2u = NameToUuid(n, u)
  OBVIOUS
<1>5. /\ DOMAIN n2u = DOMAIN name_to_uuid \cup {n} /\ n2u[n] = u
      /\ \A m \in DOMAIN name_to_uuid : m # n => n2u[m] = name_to_uuid[m]
  BY <1>4 DEF NameToUuid, Put
<1>6. /\ ~panicked' /\ name_to_uuid' = Drop(n2u, old_name)
      /\ items' = NewItems(n, u, i)
      /\ out' = <<Entry(old_name, u, items[u].item)>>
  BY <1>2, <1>3, <1>4, <1>5 DEF InsertUuid, Expect
<1>7. /\ DOMAIN items' = DOMAIN items
      /\ items'[u] = [name |-> n, item |-> i]
      /\ \A v \in DOMAIN items' : v # u => items'[v] = items[v]
  BY <1>1, <1>6 DEF NewItems, Put
<1>8. /\ DOMAIN name_to_uuid' = (DOMAIN name_to_uuid \cup {n}) \ {old_name}
      /\ name_to_uuid'[n] = u
      /\ \A m \in DOMAIN name_to_uuid' : m # n => name_to_uuid'[m] = name_to_uuid[m]
  BY <1>3, <1>5, <1>6 DEF Drop
<1>10. DOMAIN items' = {v \in DOMAIN items : items[v].name # n} \cup {u}
  <2>1. {v \in DOMAIN items : items[v].name # n} = DOMAIN items
    BY <1>1, KeysLeft, Zenon
  <2> QED
    BY <1>1, <1>7, <2>1, Zenon
<1>a. DOMAIN name_to_uuid' = {m \in DOMAIN name_to_uuid : name_to_uuid[m] # u} \cup {n}
  <2>1. {m \in DOMAIN name_to_uuid : name_to_uuid[m] # u} = DOMAIN name_to_uuid \ {old_name}
    BY <1>1, <1>2, KeysLeft, Zenon
  <2> QED
    BY <1>3, <1>8, <2>1, Zenon
<1>9. MapsInverse'
  <2>1. items'[u].name = n
    BY <1>7
  <2> QED
    BY <1>7, <1>8, <1>10, <1>a, <2>1, StaysInverse, Zenon
<1>11. PICK x : x = Entry(old_name, u, items[u].item)
  OBVIOUS
<1>12. {e \in Entries : e.name = n} = {} /\ {e \in Entries : e.uuid = u} = {x}
  BY <1>1, <1>2, <1>11, ByName, ByUuid
<1>13. out' = NT!Listed({}) \o NT!Listed({x} \ {})
  <2>1. {x} \ {} = {x}
    OBVIOUS
  <2> QED
    BY <1>6, <1>11, <2>1, ListedIs, Concats, Zenon
<1>14. NT!Insert(n, u, i)
  BY <1>7, <1>10, <1>12, <1>13, InsertRefines, Zenon
<1> QED
  BY <1>6, <1>9, <1>14 DEF TableInv, NeverPanics

(* insert when one entry of the same name and another of the same UUID are *)
(* displaced.                                                              *)
LEMMA InsertOverBoth ==
    ASSUME TableInv, NEW n \in Names, NEW u \in Uuids, NEW i \in Items, InsertBoth(n, u, i)
    PROVE  TableInv' /\ NT!Insert(n, u, i)
<1>1. n \in DOMAIN name_to_uuid /\ u \in DOMAIN items /\ name_to_uuid[n] # u
  BY Zenon DEF InsertBoth
<1>2. PICK old_uuid, old_name : old_uuid = name_to_uuid[n] /\ old_name = items[u].name
  OBVIOUS
<1>3. /\ old_name \in DOMAIN name_to_uuid /\ name_to_uuid[old_name] = u /\ old_name # n
      /\ old_uuid \in DOMAIN items /\ items[old_uuid].name = n /\ old_uuid # u
  BY <1>1, <1>2 DEF TableInv, MapsInverse
<1>4. PICK n2u, its : n2u = NameToUuid(n, u) /\ its = NewItems(n, u, i)
  OBVIOUS
<1>5. /\ DOMAIN n2u = DOMAIN name_to_uuid /\ n2u[n] = u
      /\ \A m \in DOMAIN name_to_uuid : m # n => n2u[m] = name_to_uuid[m]
  BY <1>1, <1>4 DEF NameToUuid, Put
<1>6. /\ DOMAIN its = DOMAIN items /\ its[u] = [name |-> n, item |-> i]
      /\ \A v \in DOMAIN items : v # u => its[v] = items[v]
  BY <1>1, <1>4 DEF NewItems, Put
<1>7. /\ ~panicked' /\ name_to_uuid' = Drop(n2u, old_name)
      /\ items' = Drop(its, old_uuid)
      /\ out' = <<Entry(n, old_uuid, items[old_uuid].item), Entry(old_name, u, items[u].item)>>
  BY <1>2, <1>3, <1>4, <1>5, <1>6, Zenon DEF InsertBoth, Expect
<1>8. /\ DOMAIN items' = DOMAIN items \ {old_uuid}
      /\ items'[u] = [name |-> n, item |-> i]
      /\ \A v \in DOMAIN items' : v # u => items'[v] = items[v]
  BY <1>1, <1>3, <1>6, <1>7 DEF Drop
<1>9. /\ DOMAIN name_to_uuid' = DOMAIN name_to_uuid \ {old_name}
      /\ name_to_uuid'[n] = u
      /\ \A m \in DOMAIN name_to_uuid' : m # n => name_to_uuid'[m] = name_to_uuid[m]
  BY <1>1, <1>3, <1>5, <1>7, Zenon DEF Drop
<1>11. DOMAIN items' = {v \in DOMAIN items : items[v].name # n} \cup {u}
  <2>1. {v \in DOMAIN items : items[v].name # n} = DOMAIN items \ {old_uuid}
    BY <1>1, <1>2, KeysLeft, Zenon
  <2> QED
    BY <1>1, <1>3, <1>8, <2>1, Zenon
<1>a. DOMAIN name_to_uuid' = {m \in DOMAIN name_to_uuid : name_to_uuid[m] # u} \cup {n}
  <2>1. {m \in DOMAIN name_to_uuid : name_to_uuid[m] # u} = DOMAIN name_to_uuid \ {old_name}
    BY <1>1, <1>2, KeysLeft, Zenon
  <2> QED
    BY <1>1, <1>3, <1>9, <2>1, Zenon
<1>10. MapsInverse'
  <2>1. items'[u].name = n
    BY <1>8
  <2> QED
    BY <1>8, <1>9, <1>11, <1>a, <2>1, StaysInverse, Zenon
<1>12. PICK x, y : x = Entry(n, old_uuid, items[old_uuid].item) /\ y = Entry(old_name, u, items[u].item)
  OBVIOUS
<1>13. {e \in Entries : e.name = n} = {x}
  BY <1>1, <1>2, <1>12, ByName
<1>14. {e \in Entries : e.uuid = u} = {y}
  BY <1>1, <1>2, <1>12, ByUuid
<1>15. x # y
  BY <1>3, <1>12 DEF Entry
<1>16. out' = NT!Listed({x}) \o NT!Listed({y} \ {x})
  <2>1. {y} \ {x} = {y}
    BY <1>15
  <2>2. NT!Listed({x}) = <<x>> /\ NT!Listed({y}) = <<y>>
    BY ListedIs, Zenon
  <2>3. <<x>> \o <<y>> = <<x, y>>
    BY Concats
  <2> QED
    BY <1>7, <1>12, <2>1, <2>2, <2>3, Zenon
<1>17. NT!Insert(n, u, i)
  BY <1>8, <1>11, <1>13, <1>14, <1>16, InsertRefines, Zenon
<1> QED
  BY <1>7, <1>10, <1>17 DEF TableInv, NeverPanics

(* remove_by_name and remove_by_uuid.                                      *)
LEMMA RemoveOne ==
    ASSUME TableInv, NEW u \in DOMAIN items,
           name_to_uuid' = Drop(name_to_uuid, items[u].name),
           items' = Drop(items, u), ~panicked',
           out' = <<Entry(items[u].name, u, items[u].item)>>
    PROVE  /\ TableInv'
           /\ NT!Remove({Entry(items[u].name, u, items[u].item)})
<1>1. DOMAIN items' = DOMAIN items \ {u} /\ \A v \in DOMAIN items' : items'[v] = items[v]
  BY DEF Drop
<1>2. /\ DOMAIN name_to_uuid' = DOMAIN name_to_uuid \ {items[u].name}
      /\ \A m \in DOMAIN name_to_uuid' : name_to_uuid'[m] = name_to_uuid[m]
  BY DEF Drop
<1>3. MapsInverse'
  BY <1>1, <1>2 DEF MapsInverse, TableInv
<1>4. Entries' = Entries \ {Entry(items[u].name, u, items[u].item)}
  <2>1. Entries' = {Entry(items'[v].name, v, items'[v].item) : v \in DOMAIN items'}
    BY DEF Entries, Entry
  <2>2. Entries' = {Entry(items[v].name, v, items[v].item) : v \in DOMAIN items \ {u}}
    BY <1>1, <2>1
  <2> QED
    BY <2>2 DEF Entries, Entry
<1>5. NT!Remove({Entry(items[u].name, u, items[u].item)})
  BY <1>4, ListedIs, Zenon DEF NT!Remove, Entries
<1> QED
  BY <1>3, <1>5 DEF TableInv, NeverPanics

LEMMA RemoveNone ==
    ASSUME TableInv, DOMAIN name_to_uuid' = DOMAIN name_to_uuid, DOMAIN items' = DOMAIN items,
           \A m \in DOMAIN name_to_uuid : name_to_uuid'[m] = name_to_uuid[m],
           \A v \in DOMAIN items : items'[v] = items[v],
           ~panicked', out' = <<>>
    PROVE  TableInv' /\ NT!Remove({})
<1>1. TableInv'
  BY DEF TableInv, MapsInverse, NeverPanics
<1>2. Entries' = Entries \ {}
  BY DEF Entries, Entry
<1>3. NT!Remove({})
  BY <1>2, ListedIs DEF NT!Remove, Entries
<1> QED
  BY <1>1, <1>3

LEMMA RemoveRefines ==
    ASSUME TableInv
    PROVE  /\ \A n \in Names : RemoveByName(n) => TableInv' /\ NT!Remove({e \in Entries : e.name = n})
           /\ \A u \in Uuids : RemoveByUuid(u) => TableInv' /\ NT!Remove({e \in Entries : e.uuid = u})
<1>1. ASSUME NEW n \in Names, RemoveByName(n)
      PROVE  TableInv' /\ NT!Remove({e \in Entries : e.name = n})
  <2>1. CASE n \in DOMAIN name_to_uuid
    <3>1. PICK u \in DOMAIN items : u = name_to_uuid[n] /\ items[u].name = n
      BY <2>1 DEF TableInv, MapsInverse
    <3>2. /\ name_to_uuid' = Drop(name_to_uuid, items[u].name) /\ items' = Drop(items, u)
          /\ ~panicked' /\ out' = <<Entry(items[u].name, u, items[u].item)>>
      BY <1>1, <2>1, <3>1 DEF RemoveByName
    <3>3. {e \in Entries : e.name = n} = {Entry(items[u].name, u, items[u].item)}
      BY <2>1, <3>1, ByName
    <3> QED
      BY <3>2, <3>3, RemoveOne
  <2>2. CASE n \notin DOMAIN name_to_uuid
    <3>1. name_to_uuid' = Drop(name_to_uuid, n) /\ items' = items /\ ~panicked' /\ out' = <<>>
      BY <1>1, <2>2 DEF RemoveByName
    <3>2. /\ DOMAIN name_to_uuid' = DOMAIN name_to_uuid
          /\ \A m \in DOMAIN name_to_uuid : name_to_uuid'[m] = name_to_uuid[m]
      BY <2>2, <3>1 DEF Drop
    <3>3. {e \in Entries : e.name = n} = {}
      BY <2>2, ByName
    <3> QED
      BY <3>1, <3>2, <3>3, RemoveNone
  <2> QED
    BY <2>1, <2>2
<1>2. ASSUME NEW u \in Uuids, RemoveByUuid(u)
      PROVE  TableInv' /\ NT!Remove({e \in Entries : e.uuid = u})
  <2>1. CASE u \in DOMAIN items
    <3>1. /\ name_to_uuid' = Drop(name_to_uuid, items[u].name) /\ items' = Drop(items, u)
          /\ ~panicked' /\ out' = <<Entry(items[u].name, u, items[u].item)>>
      BY <1>2, <2>1 DEF RemoveByUuid
    <3>2. {e \in Entries : e.uuid = u} = {Entry(items[u].name, u, items[u].item)}
      BY <2>1, ByUuid
    <3> QED
      BY <2>1, <3>1, <3>2, RemoveOne
  <2>2. CASE u \notin DOMAIN items
    <3>1. items' = Drop(items, u) /\ name_to_uuid' = name_to_uuid /\ ~panicked' /\ out' = <<>>
      BY <1>2, <2>2 DEF RemoveByUuid
    <3>2. DOMAIN items' = DOMAIN items /\ \A v \in DOMAIN items : items'[v] = items[v]
      BY <2>2, <3>1, Zenon DEF Drop
    <3>3. {e \in Entries : e.uuid = u} = {}
      BY <2>2, ByUuid
    <3> QED
      BY <3>1, <3>2, <3>3, RemoveNone, Zenon
  <2> QED
    BY <2>1, <2>2
<1> QED
  BY <1>1, <1>2

----------------------------------------------------------------------------
LEMMA NextRefines == TableInv /\ [TableNext]_tableVars => TableInv' /\ [NT!Next]_(NT!vars)
<1> SUFFICES ASSUME TableInv, [TableNext]_tableVars PROVE TableInv' /\ [NT!Next]_(NT!vars)
  OBVIOUS
<1>1. CASE \E n \in Names, u \in Uuids, i \in Items : TableInsert(n, u, i)
  <2>1. PICK n \in Names, u \in Uuids, i \in Items : TableInsert(n, u, i)
    BY <1>1
  <2>2. TableInv' /\ NT!Insert(n, u, i)
    BY <2>1, InsertPlain, InsertOverName, InsertOverUuid, InsertOverBoth DEF TableInsert
  <2> QED
    BY <2>2 DEF NT!Next
<1>2. CASE \E n \in Names : RemoveByName(n)
  BY <1>2, RemoveRefines, Zenon DEF NT!Next, Entries
<1>3. CASE \E u \in Uuids : RemoveByUuid(u)
  BY <1>3, RemoveRefines, Zenon DEF NT!Next, Entries
<1>4. CASE UNCHANGED tableVars
  BY <1>4 DEF tableVars, NT!vars, TableInv, NeverPanics, MapsInverse
<1> QED
  BY <1>1, <1>2, <1>3, <1>4 DEF TableNext

LEMMA InitRefines == TableInit => TableInv /\ NT!Init
BY DEF TableInit, TableInv, NeverPanics, MapsInverse, Empty, NT!Init

(* No assertion and no expect of Table::insert fails.                      *)
THEOREM TableNeverPanics == TableSpec => []NeverPanics
<1>1. TableInv => NeverPanics
  BY DEF TableInv
<1> QED
  BY <1>1, InitRefines, NextRefines, PTL DEF TableSpec

(* name_to_uuid and items stay inverse to one another.                     *)
THEOREM TableMapsInverse == TableSpec => []MapsInverse
<1>1. TableInv => MapsInverse
  BY DEF TableInv
<1> QED
  BY <1>1, InitRefines, NextRefines, PTL DEF TableSpec

(* Table implements NameTable: unique names, unique UUIDs, and everything  *)
(* displaced is handed back, by name first.                                *)
THEOREM TableIsNameTable == TableSpec => IsNameTable
BY InitRefines, NextRefines, PTL DEF TableSpec, IsNameTable, NT!Spec

----------------------------------------------------------------------------
(* Signature blocks.                                                       *)

(* The inductive invariant: every header on the device was being written   *)
(* since the last wipe; no such header is newer than the latest; and a     *)
(* finished header shares the device with no other.                        *)
IInv ==
    /\ TypeOK
    /\ WipedStaysWiped
    /\ latest = NoHeader => begun = {}
    /\ latest # NoHeader => latest \in begun
    /\ \A h \in begun : h.time <= latest.time /\ h.time <= clock
    /\ phase = "init" => /\ latest # NoHeader /\ done = NoHeader
                         /\ block[1] \in {latest, NoHeader, Invalid}
    /\ done # NoHeader => done = latest /\ \A l \in Locs : block[l] \in {done, NoHeader, Invalid}

(* The three outcomes that are no headers differ from all headers, and from*)
(* each other.                                                             *)
LEMMA Distinct ==
    /\ NoHeader \notin Header /\ Invalid \notin Header /\ Error \notin Header
    /\ NoHeader # Invalid /\ NoHeader # Error /\ Invalid # Error
<1>1. /\ NoHeader.id = "no magic" /\ Invalid.id = "bad CRC" /\ Error.id = "error"
      /\ \A h \in Header : h.id \in Ids
  BY DEF NoHeader, Invalid, Error, Header
<1>2. QED
  BY <1>1, IdsAssumption, Zenon

(* What repair_sigblocks may answer: no header, an error, or a header that *)
(* is on the device; and it writes a header only.                          *)
LEMMA Decided ==
    ASSUME TypeOK
    PROVE  /\ Decide.answer \in {NoHeader, Error, block[1], block[2]} \ {Invalid}
           /\ Decide.fix \in 0 .. 2
           /\ Decide.fix # 0 => Decide.answer \in {block[1], block[2]} \cap Header
<1>1. /\ block[1] \in Header \cup {NoHeader, Invalid}
      /\ block[2] \in Header \cup {NoHeader, Invalid}
  BY DEF TypeOK, Locs
<1>2. \A a, l : Decision(a, l).answer = a /\ Decision(a, l).fix = l
  BY DEF Decision
<1>3. CASE 1 \in unreadable /\ 2 \in unreadable
  BY <1>1, <1>2, <1>3, Distinct DEF Decide
<1>4. CASE 1 \in unreadable /\ 2 \notin unreadable
  BY <1>1, <1>2, <1>4, Distinct DEF Decide, OneUnreadable, Locs
<1>5. CASE 1 \notin unreadable /\ 2 \in unreadable
  BY <1>1, <1>2, <1>5, Distinct DEF Decide, OneUnreadable, Locs
<1>6. CASE 1 \notin unreadable /\ 2 \notin unreadable
  <2>1. Decide = BothRead(block)
    BY <1>6 DEF Decide
  <2>2. CASE block[1] = Invalid \/ block[2] = Invalid
    BY <1>1, <1>2, <2>1, <2>2, Distinct DEF BothRead, OneInvalid
  <2>3. CASE block[1] # Invalid /\ block[2] # Invalid
    <3>1. Decide = NeitherInvalid(block)
      BY <2>1, <2>3 DEF BothRead
    <3>2. QED
      BY <1>1, <1>2, <2>3, <3>1, Distinct DEF NeitherInvalid
  <2>4. QED
    BY <2>2, <2>3
<1>7. QED
  BY <1>1, <1>3, <1>4, <1>5, <1>6

(* With one good block and no other header the answer is that block.       *)
LEMMA GoodBlockDecides ==
    ASSUME TypeOK, NEW h \in Header, NEW g \in Locs \ unreadable, block[g] = h,
           \A l \in Locs : block[l] \in {h, NoHeader, Invalid}
    PROVE  Decide.answer = h
<1>1. /\ block[1] \in {h, NoHeader, Invalid} /\ block[2] \in {h, NoHeader, Invalid}
      /\ ~(1 \in unreadable /\ 2 \in unreadable)
      /\ g \in {1, 2}
  BY DEF TypeOK, Locs
<1>2. \A a, l : Decision(a, l).answer = a
  BY DEF Decision
<1>4. CASE 1 \in unreadable /\ 2 \notin unreadable
  BY <1>1, <1>2, <1>4, Distinct DEF Decide, OneUnreadable, Locs
<1>5. CASE 1 \notin unreadable /\ 2 \in unreadable
  BY <1>1, <1>2, <1>5, Distinct DEF Decide, OneUnreadable, Locs
<1>6. CASE 1 \notin unreadable /\ 2 \notin unreadable
  BY <1>1, <1>2, <1>6, Distinct DEF Decide, BothRead, OneInvalid, NeitherInvalid, Locs
<1>7. QED
  BY <1>1, <1>4, <1>5, <1>6

(* With the latest header readable no other header is the answer.          *)
LEMMA LatestDecides ==
    ASSUME TypeOK, NEW h \in Header, NEW g \in Locs \ unreadable, block[g] = h,
           \A l \in Locs : block[l] \in Header => block[l].time <= h.time
    PROVE  Decide.answer \in {h, Error}
<1>1. /\ block[1] \in Header \cup {NoHeader, Invalid}
      /\ block[2] \in Header \cup {NoHeader, Invalid}
      /\ ~(1 \in unreadable /\ 2 \in unreadable)
      /\ g \in {1, 2}
      /\ block[1] \in Header => block[1].time <= h.time
      /\ block[2] \in Header => block[2].time <= h.time
      /\ \A x \in Header : x.time \in Nat
  BY StaticHeaderAssumption DEF TypeOK, Locs, Header
<1>2. \A a, l : Decision(a, l).answer = a
  BY DEF Decision
<1>4. CASE 1 \in unreadable /\ 2 \notin unreadable
  BY <1>1, <1>2, <1>4, Distinct DEF Decide, OneUnreadable, Locs
<1>5. CASE 1 \notin unreadable /\ 2 \in unreadable
  BY <1>1, <1>2, <1>5, Distinct DEF Decide, OneUnreadable, Locs
<1>6. CASE 1 \notin unreadable /\ 2 \notin unreadable
  BY <1>1, <1>2, <1>6, Distinct DEF Decide, BothRead, OneInvalid, NeitherInvalid, Locs
<1>7. QED
  BY <1>1, <1>4, <1>5, <1>6

(* The last two, for the headers that the state remembers.                 *)
LEMMA Implied == IInv => (OneGoodBlock => Decide.answer = done) /\ NeverOlder
<1> SUFFICES ASSUME IInv PROVE (OneGoodBlock => Decide.answer = done) /\ NeverOlder
  OBVIOUS
<1>1. OneGoodBlock => Decide.answer = done
  <2> SUFFICES ASSUME done # NoHeader, NEW l \in Locs \ unreadable, block[l] = done
               PROVE  Decide.answer = done
    BY DEF OneGoodBlock
  <2>1. done \in Header /\ \A m \in Locs : block[m] \in {done, NoHeader, Invalid}
    BY DEF IInv, TypeOK
  <2>2. QED
    BY <2>1, GoodBlockDecides DEF IInv
<1>2. NeverOlder
  <2> SUFFICES ASSUME latest # NoHeader, NEW l \in Locs \ unreadable, block[l] = latest
               PROVE  Decide.answer \in {latest, Error}
    BY DEF NeverOlder
  <2>1. latest \in Header
    BY DEF IInv, TypeOK
  <2>2. \A m \in Locs : block[m] \in Header => block[m] \in begun
    BY Distinct DEF IInv, WipedStaysWiped
  <2>3. \A m \in Locs : block[m] \in Header => block[m].time <= latest.time
    BY <2>2 DEF IInv
  <2>4. QED
    BY <2>1, <2>3, LatestDecides DEF IInv
<1>3. QED
  BY <1>1, <1>2

(* Every step keeps the invariant.                                         *)
LEMMA Step == IInv /\ [Next]_vars => IInv'
<1> SUFFICES ASSUME IInv, [Next]_vars PROVE IInv'
  OBVIOUS
<1> USE DEF Locs
<1>0. /\ \A h \in Header : h.time \in 0 .. MaxTime
      /\ MaxTime \in Nat /\ MaxFaults \in Nat
  BY StaticHeaderAssumption DEF Header
<1>1. ASSUME IdentifyAndRepair PROVE IInv'
  <2>1. CASE Decide.fix = 0
    <3>1. answer' \in Header \cup {NoHeader, Error} /\ UNCHANGED <<block, unreadable, faults>>
      BY <1>1, <2>1, Decided DEF IdentifyAndRepair, IInv, TypeOK
    <3>2. QED
      BY <1>1, <3>1 DEF IdentifyAndRepair, ghosts, IInv, TypeOK, WipedStaysWiped
  <2>2. CASE Decide.fix # 0 /\ Write(Decide.fix, Decide.answer) /\ answer' = Decide.answer /\ UNCHANGED faults
    <3> DEFINE h == Decide.answer
               l == Decide.fix
    <3>1. l \in Locs /\ h \in Header /\ h \in {block[1], block[2]}
      BY <2>2, Decided DEF IInv
    <3> HIDE DEF h, l
    <3>2. block' = [block EXCEPT ![l] = h] /\ unreadable' = unreadable \ {l} /\ answer' = h /\ UNCHANGED faults
      BY <2>2 DEF Write, h, l
    <3>3. TypeOK'
      BY <1>1, <3>1, <3>2 DEF IdentifyAndRepair, ghosts, IInv, TypeOK
    <3>4. \A m \in Locs : block'[m] \in {block[1], block[2]}
      BY <3>1, <3>2 DEF IInv, TypeOK
    <3>5. QED
      BY <1>1, <3>3, <3>4 DEF IdentifyAndRepair, ghosts, IInv, WipedStaysWiped
  <2>3. CASE Fault /\ answer' = Error /\ UNCHANGED <<block, unreadable>>
    BY <1>0, <1>1, <2>3 DEF Fault, IdentifyAndRepair, ghosts, IInv, TypeOK, WipedStaysWiped
  <2>4. QED
    BY <1>1, <2>1, <2>2, <2>3 DEF IdentifyAndRepair
<1>2. ASSUME IdentifyReadOnly \/ DumpMetadata PROVE IInv'
  <2>1. answer' \in Header \cup {NoHeader, Error}
    BY <1>2, Decided DEF IdentifyReadOnly, DumpMetadata, IInv, TypeOK
  <2>2. QED
    BY <1>2, <2>1, Zenon DEF IdentifyReadOnly, DumpMetadata, ghosts, IInv, TypeOK, WipedStaysWiped
<1>3. ASSUME NEW id \in Ids, NEW now \in 0 .. MaxTime, InitFirst(id, now) PROVE IInv'
  <2> DEFINE h == [id |-> id, time |-> now]
  <2>1. h \in Header /\ h.time = now /\ h # NoHeader
    BY Distinct DEF Header
  <2> HIDE DEF h
  <2>2. /\ block' = [block EXCEPT ![1] = h] /\ unreadable' = unreadable \ {1}
        /\ begun' = begun \cup {h} /\ latest' = h /\ done' = NoHeader
        /\ clock' = now /\ now >= clock /\ phase' = "init" /\ asked' = "nobody"
        /\ UNCHANGED <<faults, answer>>
    BY <1>3 DEF InitFirst, Write, h
  <2>3. TypeOK'
    BY <2>1, <2>2 DEF IInv, TypeOK
  <2>4. WipedStaysWiped'
    BY <2>1, <2>2 DEF IInv, TypeOK, WipedStaysWiped
  <2>7. block'[1] = latest'
    BY <2>2 DEF IInv, TypeOK
  <2>5. \A g \in begun' : g.time <= latest'.time /\ g.time <= clock'
    BY <1>0, <2>1, <2>2 DEF IInv, TypeOK
  <2>6. QED
    BY <2>1, <2>2, <2>3, <2>4, <2>5, <2>7 DEF IInv
<1>4. ASSUME InitSecond PROVE IInv'
  <2>1. latest \in Header /\ latest \in begun /\ latest # NoHeader
    BY <1>4 DEF InitSecond, IInv, TypeOK
  <2>2. TypeOK'
    BY <1>4, <2>1 DEF InitSecond, Write, IInv, TypeOK
  <2>3. WipedStaysWiped'
    BY <1>4, <2>1 DEF InitSecond, Write, IInv, TypeOK, WipedStaysWiped
  <2>4. \A l \in Locs : block'[l] \in {latest, NoHeader, Invalid}
    BY <1>4, <2>1 DEF InitSecond, Write, IInv, TypeOK
  <2>5. QED
    BY <1>4, <2>1, <2>2, <2>3, <2>4 DEF InitSecond, IInv
<1>5. ASSUME InitCut PROVE IInv'
  BY <1>0, <1>5 DEF InitCut, Fault, ghosts, IInv, TypeOK, WipedStaysWiped
<1>6. ASSUME Wipe PROVE IInv'
  BY <1>6 DEF Wipe, IInv, TypeOK, WipedStaysWiped
<1>7. ASSUME NEW S \in SUBSET Locs, WipeCut(S) PROVE IInv'
  BY <1>0, <1>7 DEF WipeCut, Fault, IInv, TypeOK, WipedStaysWiped
<1>8. ASSUME NEW l \in Locs, NEW v \in {NoHeader, Invalid}, Rot(l, v) PROVE IInv'
  BY <1>0, <1>8 DEF Rot, Fault, ghosts, IInv, TypeOK, WipedStaysWiped
<1>9. ASSUME NEW l \in Locs, ReadFails(l) \/ ReadsAgain(l) PROVE IInv'
  <2>1. /\ unreadable' \subseteq Locs /\ faults' \in 0 .. MaxFaults
        /\ UNCHANGED <<block, phase, clock, begun, latest, done, asked, answer>>
    <3>1. faults \in 0 .. MaxFaults /\ unreadable \subseteq Locs
      BY DEF IInv, TypeOK
    <3>2. CASE ReadFails(l)
      BY <1>0, <3>1, <3>2 DEF ReadFails, Fault, ghosts
    <3>3. CASE ReadsAgain(l)
      BY <3>1, <3>3 DEF ReadsAgain, ghosts
    <3>4. QED
      BY <1>9, <3>2, <3>3
  <2>2. QED
    BY <2>1 DEF IInv, TypeOK, WipedStaysWiped
<1>10. ASSUME UNCHANGED vars PROVE IInv'
  BY <1>10 DEF vars, IInv, TypeOK, WipedStaysWiped
<1>11. QED
  BY <1>1, <1>2, <1>3, <1>4, <1>5, <1>6, <1>7, <1>8, <1>9, <1>10 DEF Next

LEMMA Start == Init => IInv
  BY StaticHeaderAssumption, Distinct DEF Init, IInv, TypeOK, WipedStaysWiped, Locs

(* The headers of a device obey the inductive invariant.                   *)
THEOREM HeaderInvariance == Spec => []IInv
<1>1. QED
  BY Start, Step, PTL DEF Spec

(* The state of the signature blocks is well typed.                        *)
THEOREM HeaderTypeCorrect == Spec => []TypeOK
<1>1. IInv => TypeOK
  BY DEF IInv
<1>2. QED
  BY <1>1, HeaderInvariance, PTL

(* What wipe removed comes back by no repair.                              *)
THEOREM WipeIsFinal == Spec => []WipedStaysWiped
<1>1. IInv => WipedStaysWiped
  BY DEF IInv
<1>2. QED
  BY <1>1, HeaderInvariance, PTL

(* repair_sigblocks never prefers an older header to the latest.           *)
THEOREM LatestHeaderWins == Spec => []NeverOlder
<1>1. QED
  BY Implied, HeaderInvariance, PTL

(* A header is the answer if both blocks hold it and can be read, or if    *)
(* the block to be written is the only one that does not, or cannot.       *)
LEMMA AnswerMends ==
    ASSUME TypeOK, Decide.answer \in Header
    PROVE  /\ Decide.fix = 0 => unreadable = {} /\ \A l \in Locs : block[l] = Decide.answer
           /\ Decide.fix # 0 => /\ Decide.fix \in Locs /\ unreadable \subseteq {Decide.fix}
                                /\ \A l \in Locs \ {Decide.fix} : block[l] = Decide.answer
<1>1. /\ block[1] \in Header \cup {NoHeader, Invalid}
      /\ block[2] \in Header \cup {NoHeader, Invalid}
      /\ unreadable \subseteq {1, 2} /\ Locs = {1, 2}
  BY DEF TypeOK, Locs
<1>2. \A a, l : Decision(a, l).answer = a /\ Decision(a, l).fix = l
  BY DEF Decision
<1>3. CASE 1 \in unreadable /\ 2 \in unreadable
  <2>1. Decide = Decision(Error, 0)
    BY <1>3 DEF Decide
  <2>2. Decide.answer = Error
    BY <1>2, <2>1, Zenon
  <2> QED
    BY <2>2, Distinct, Zenon
<1>4. CASE 1 \in unreadable /\ 2 \notin unreadable
  <2>1. Decide = OneUnreadable(1, block[2])
    BY <1>4 DEF Decide
  <2>2. block[2] # Invalid
    BY <1>2, <2>1, Distinct, Zenon DEF OneUnreadable
  <2>3. Decide.answer = block[2]
    BY <1>2, <2>1, <2>2, Zenon DEF OneUnreadable
  <2>4. block[2] # NoHeader
    BY <2>3, Distinct, Zenon
  <2>5. Decide = Decision(block[2], 1)
    BY <2>1, <2>2, <2>4, Zenon DEF OneUnreadable
  <2>6. Decide.fix = 1
    BY <1>2, <2>5, Zenon
  <2> QED
    BY <1>1, <1>4, <2>3, <2>6
<1>5. CASE 1 \notin unreadable /\ 2 \in unreadable
  <2>1. Decide = OneUnreadable(2, block[1])
    BY <1>5 DEF Decide
  <2>2. block[1] # Invalid
    BY <1>2, <2>1, Distinct, Zenon DEF OneUnreadable
  <2>3. Decide.answer = block[1]
    BY <1>2, <2>1, <2>2, Zenon DEF OneUnreadable
  <2>4. block[1] # NoHeader
    BY <2>3, Distinct, Zenon
  <2>5. Decide = Decision(block[1], 2)
    BY <2>1, <2>2, <2>4, Zenon DEF OneUnreadable
  <2>6. Decide.fix = 2
    BY <1>2, <2>5, Zenon
  <2> QED
    BY <1>1, <1>5, <2>3, <2>6
<1>6. CASE 1 \notin unreadable /\ 2 \notin unreadable
  <2>1. Decide = BothRead(block)
    BY <1>6 DEF Decide
  <2>2. CASE block[1] = Invalid \/ block[2] = Invalid
    BY <1>1, <1>2, <1>6, <2>1, <2>2, Distinct DEF BothRead, OneInvalid
  <2>3. CASE block[1] # Invalid /\ block[2] # Invalid
    <3>1. Decide = NeitherInvalid(block)
      BY <2>1, <2>3 DEF BothRead
    <3> QED
      BY <1>1, <1>2, <1>6, <2>3, <3>1, Distinct DEF NeitherInvalid
  <2> QED
    BY <2>2, <2>3
<1> QED
  BY <1>3, <1>4, <1>5, <1>6

(* One good block out of two identifies a device whose initialization      *)
(* returned Ok to dev_info, unless the other block cannot be written; to   *)
(* discovery, which cannot write, both blocks have to be good.             *)
THEOREM GoodBlockSuffices == Spec => OneGoodBlockIsEnough
<1> DEFINE P == OneGoodBlock =>
             /\ IdentifyAndRepair => answer' = done \/ (answer' = Error /\ faults' # faults)
             /\ IdentifyReadOnly =>
                  answer' = IF unreadable = {} /\ block = [l \in Locs |-> done]
                              THEN done ELSE Error
<1>1. ASSUME IInv, OneGoodBlock PROVE P
  <2>1. Decide.answer = done /\ done \in Header /\ TypeOK
    BY <1>1, Implied DEF OneGoodBlock, IInv, TypeOK
  <2>2. IdentifyAndRepair => answer' = done \/ (answer' = Error /\ faults' # faults)
    BY <2>1, StaticHeaderAssumption DEF IdentifyAndRepair, Fault, TypeOK
  <2>3. Decide.fix = 0 <=> unreadable = {} /\ block = [l \in Locs |-> done]
    <3>1. ASSUME Decide.fix = 0 PROVE unreadable = {} /\ block = [l \in Locs |-> done]
      BY <2>1, <3>1, AnswerMends DEF TypeOK
    <3>2. ASSUME unreadable = {}, block = [l \in Locs |-> done] PROVE Decide.fix = 0
      <4>1. block[1] = done /\ block[2] = done
        BY <3>2 DEF Locs
      <4>2. Decide = Decision(done, 0)
        BY <2>1, <3>2, <4>1, Distinct DEF Decide, BothRead, NeitherInvalid
      <4> QED
        BY <4>2 DEF Decision
    <3> QED
      BY <3>1, <3>2
  <2> QED
    BY <2>1, <2>2, <2>3 DEF IdentifyReadOnly
<1>2. IInv => [P]_vars
  BY <1>1
<1> HIDE DEF P
<1>3. Spec => [][P]_vars
  BY <1>2, HeaderInvariance, PTL
<1> QED
  BY <1>3 DEF P, OneGoodBlockIsEnough

(* repair_sigblocks with a file that can be written leaves nothing to be   *)
(* repaired if it finds a header.                                          *)
THEOREM RepairsMend == Spec => RepairIsComplete
<1>1. ASSUME IInv, [Next]_vars, asked' = "dev_info", asked # "dev_info", answer' \in Header
      PROVE  unreadable' = {} /\ \A l \in Locs : block'[l] = answer'
  <2>1. IdentifyAndRepair
    BY <1>1 DEF Next, vars, IdentifyReadOnly, DumpMetadata, InitFirst, InitSecond, InitCut, Wipe,
                WipeCut, Rot, ReadFails, ReadsAgain
  <2>2. Error \notin Header /\ TypeOK
    BY <1>1, Distinct DEF IInv
  <2>3. CASE Decide.fix = 0 /\ answer' = Decide.answer /\ UNCHANGED <<block, unreadable>>
    BY <1>1, <2>2, <2>3, AnswerMends
  <2>4. CASE Decide.fix # 0 /\ Write(Decide.fix, Decide.answer) /\ answer' = Decide.answer
    <3>1. /\ Decide.fix \in Locs /\ unreadable \subseteq {Decide.fix}
          /\ \A l \in Locs \ {Decide.fix} : block[l] = Decide.answer
      BY <1>1, <2>2, <2>4, AnswerMends
    <3>2. unreadable' = {}
      BY <2>4, <3>1 DEF Write
    <3>3. \A l \in Locs : block'[l] = Decide.answer
      BY <2>2, <2>4, <3>1 DEF Write, TypeOK
    <3> QED
      BY <2>4, <3>2, <3>3
  <2> QED
    BY <1>1, <2>1, <2>2, <2>3, <2>4 DEF IdentifyAndRepair
<1>2. IInv /\ [Next]_vars =>
        [asked' = "dev_info" /\ asked # "dev_info" /\ answer' \in Header =>
           unreadable' = {} /\ \A l \in Locs : block'[l] = answer']_vars
  BY <1>1
<1> QED
  BY <1>2, HeaderInvariance, PTL DEF Spec, RepairIsComplete

----------------------------------------------------------------------------
(* The start-up scan: what the loop of setup_pools makes of the devices of *)
(* a pool does not depend on the order in which they come.                 *)

(* The inductive invariant: what has been looked at does not clash and is  *)
(* merged, or the set was given up because of two devices that clash.      *)
Scanned == found \ infos
Unique(N) == \A m, n \in N : m.num = n.num => m = n
ScanInv ==
    /\ found \subseteq Nodes /\ Unique(found)
    /\ infos \subseteq found
    /\ given_up \in BOOLEAN
    /\ given_up => Clash(found)
    /\ ~given_up => ~Clash(Scanned) /\ info_map = Merge(Scanned)

----------------------------------------------------------------------------
(* Without a clash there is at most one node of a kind for a device UUID,  *)
(* so one side of an LInfo is that node, or there is none.                 *)
LEMMA SideIs ==
    ASSUME NEW N, Unique(N), ~Clash(N), NEW m \in N, NEW u, NEW k,
           m.kind = k, DevUuid[m.disk] = u
    PROVE  Side(N, u, k) = m
<1>1. OfKind(N, u, k) = {m}
  BY DEF OfKind, Unique, Clash, OtherNumber
<1> QED
  BY <1>1 DEF Side

LEMMA SideIn ==
    ASSUME NEW N, NoNode \notin N, NEW u, NEW k
    PROVE  \/ Side(N, u, k) = NoNode /\ OfKind(N, u, k) = {}
           \/ /\ Side(N, u, k) \in N /\ Side(N, u, k) # NoNode
              /\ Side(N, u, k).kind = k /\ DevUuid[Side(N, u, k).disk] = u
<1>1. CASE OfKind(N, u, k) = {}
  BY <1>1 DEF Side
<1>2. CASE OfKind(N, u, k) # {}
  <2>1. Side(N, u, k) \in OfKind(N, u, k)
    BY <1>2 DEF Side
  <2> QED
    BY <2>1 DEF OfKind
<1> QED
  BY <1>1, <1>2

(* The disk of a merged LInfo has its device UUID.                         *)
LEMMA MergedDisk ==
    ASSUME NEW N \in SUBSET Nodes, NEW n \in N
    PROVE  DevUuid[DiskOf(Merged(N, DevUuid[n.disk]))] = DevUuid[n.disk]
<1> DEFINE u == DevUuid[n.disk]
<1>1. (n.kind = "stratis" \/ n.kind = "luks") /\ NoNode \notin N
  BY DeviceSetAssumption
<1>2. OfKind(N, u, "stratis") # {} \/ OfKind(N, u, "luks") # {}
  BY <1>1 DEF OfKind
<1>3. /\ Merged(N, u).strat = Side(N, u, "stratis") /\ Merged(N, u).luks = Side(N, u, "luks")
  BY DEF Merged
<1>4. \/ Side(N, u, "stratis") = NoNode /\ OfKind(N, u, "stratis") = {}
      \/ /\ Side(N, u, "stratis") # NoNode
         /\ DevUuid[Side(N, u, "stratis").disk] = u
  BY <1>1, SideIn
<1>5. \/ Side(N, u, "luks") = NoNode /\ OfKind(N, u, "luks") = {}
      \/ /\ Side(N, u, "luks") # NoNode
         /\ DevUuid[Side(N, u, "luks").disk] = u
  BY <1>1, SideIn
<1> QED
  BY <1>2, <1>3, <1>4, <1>5 DEF DiskOf

(* What a merged set knows of a device UUID is one LInfo, if there is one. *)
LEMMA KnownIs ==
    ASSUME NEW N \in SUBSET Nodes, NEW n
    PROVE  Known(Merge(N), n) =
             IF \E m \in N : DevUuid[m.disk] = DevUuid[n.disk]
               THEN {Merged(N, DevUuid[n.disk])} ELSE {}
<1>1. \A m \in N : DevUuid[DiskOf(Merged(N, DevUuid[m.disk]))] = DevUuid[m.disk]
  BY MergedDisk
<1> QED
  BY <1>1 DEF Known, Merge

ClashesWith(N, n) == \E m \in N : OtherKeys(m, n) \/ OtherNumber(m, n)

(* process_info_add gives up exactly if the new node clashes with one that *)
(* is in the set: a node that has been merged is still there to be seen.   *)
LEMMA ContradictsIsClash ==
    ASSUME NEW N \in SUBSET Nodes, Unique(N), ~Clash(N), NEW n \in Nodes
    PROVE  /\ Contradicts(Merge(N), n) => ClashesWith(N, n)
           /\ ClashesWith(N, n) => Contradicts(Merge(N), n)
<1> DEFINE u == DevUuid[n.disk]
           M == Merged(N, u)
<1>0. n.kind \in {"stratis", "luks"} /\ NoNode \notin N /\ \A m \in N : m.kind = "luks" => Enc[m.disk] # NoEnc
  BY DeviceSetAssumption
<1>1. ASSUME NEW v
      PROVE  Merged(N, v).strat = Side(N, v, "stratis") /\ Merged(N, v).luks = Side(N, v, "luks")
  BY DEF Merged
<1>k. Known(Merge(N), n) \subseteq {M}
  <2>1. Known(Merge(N), n) =
          IF \E m \in N : DevUuid[m.disk] = DevUuid[n.disk] THEN {M} ELSE {}
    BY KnownIs
  <2> QED
    BY <2>1
<1>s. ASSUME NEW v, NEW k, Side(N, v, k) # NoNode
      PROVE  Side(N, v, k) \in N /\ Side(N, v, k).kind = k /\ DevUuid[Side(N, v, k).disk] = v
  BY <1>0, <1>s, SideIn
<1>2. (\E i \in Known(Merge(N), n) : ~Compatible(i, n)) =>
         (\E m \in N : OtherKeys(m, n) \/ OtherNumber(m, n))
  <2> SUFFICES ASSUME ~Compatible(M, n) PROVE \E m \in N : OtherKeys(m, n) \/ OtherNumber(m, n)
    BY <1>k
  <2>1. CASE n.kind = "luks"
    <3>1. M.luks # NoNode /\ (M.luks.num # n.num \/ Enc[M.luks.disk] # Enc[n.disk])
      BY <2>1 DEF Compatible
    <3>2. M.luks \in N /\ M.luks.kind = "luks" /\ DevUuid[M.luks.disk] = u
      BY <1>1, <1>s, <3>1
    <3> QED
      BY <2>1, <3>1, <3>2 DEF OtherKeys, OtherNumber
  <2>2. CASE n.kind = "stratis"
    <3>1. M.strat # NoNode /\ M.strat.num # n.num
      BY <2>2 DEF Compatible
    <3>2. M.strat \in N /\ M.strat.kind = "stratis" /\ DevUuid[M.strat.disk] = u
      BY <1>1, <1>s, <3>1
    <3> QED
      BY <2>2, <3>1, <3>2 DEF OtherNumber
  <2> QED
    BY <1>0, <2>1, <2>2
<1>3. n.kind = "luks" /\ (\E i \in Merge(N) : EncryptionInfo(i) \notin {NoEnc, Enc[n.disk]}) =>
         (\E m \in N : OtherKeys(m, n))
  <2> SUFFICES ASSUME n.kind = "luks", NEW i \in Merge(N), EncryptionInfo(i) \notin {NoEnc, Enc[n.disk]}
               PROVE  \E m \in N : OtherKeys(m, n)
    OBVIOUS
  <2>1. i.luks # NoNode /\ Enc[i.luks.disk] # Enc[n.disk]
    BY DEF EncryptionInfo
  <2>2. PICK m \in N : i = Merged(N, DevUuid[m.disk])
    BY DEF Merge
  <2>3. i.luks = Side(N, DevUuid[m.disk], "luks")
    BY <1>1, <2>2
  <2>4. i.luks \in N /\ i.luks.kind = "luks"
    BY <1>s, <2>1, <2>3
  <2> QED
    BY <2>1, <2>4 DEF OtherKeys
<1>4. ASSUME NEW m \in N, OtherKeys(m, n) PROVE Contradicts(Merge(N), n)
  <2>1. Side(N, DevUuid[m.disk], "luks") = m
    BY <1>4, SideIs DEF OtherKeys
  <2>2. Merged(N, DevUuid[m.disk]).luks = m /\ Merged(N, DevUuid[m.disk]) \in Merge(N)
    BY <1>1, <2>1 DEF Merge
  <2>3. m # NoNode /\ Enc[m.disk] # NoEnc
    BY <1>0, <1>4, DeviceSetAssumption DEF OtherKeys
  <2>4. EncryptionInfo(Merged(N, DevUuid[m.disk])) = Enc[m.disk]
    BY <2>2, <2>3 DEF EncryptionInfo
  <2> QED
    BY <1>4, <2>2, <2>3, <2>4 DEF Contradicts, OtherKeys
<1>5. ASSUME NEW m \in N, OtherNumber(m, n) PROVE Contradicts(Merge(N), n)
  <2>0. m \in Nodes /\ m # NoNode /\ m.kind = n.kind /\ DevUuid[m.disk] = u
    BY <1>5, DeviceSetAssumption DEF OtherNumber
  <2>1. Side(N, u, n.kind) = m /\ m # NoNode
    BY <2>0, SideIs
  <2>2. M \in Known(Merge(N), n)
    BY <1>5, KnownIs DEF OtherNumber
  <2>3. ~Compatible(M, n)
    BY <1>0, <1>1, <1>5, <2>1 DEF Compatible, OtherNumber
  <2> QED
    BY <2>2, <2>3 DEF Contradicts
<1>6. ASSUME Contradicts(Merge(N), n) PROVE \E m \in N : OtherKeys(m, n) \/ OtherNumber(m, n)
  <2>1. \/ n.kind = "luks" /\ \E i \in Merge(N) : EncryptionInfo(i) \notin {NoEnc, Enc[n.disk]}
        \/ \E i \in Known(Merge(N), n) : ~Compatible(i, n)
    BY <1>6 DEF Contradicts
  <2> QED
    BY <1>2, <1>3, <2>1
<1>7. (\E m \in N : OtherKeys(m, n) \/ OtherNumber(m, n)) => Contradicts(Merge(N), n)
  BY <1>4, <1>5
<1>8. ClashesWith(N, n) <=> \E m \in N : OtherKeys(m, n) \/ OtherNumber(m, n)
  BY DEF ClashesWith
<1> QED
  BY <1>6, <1>7, <1>8

(* ... and otherwise makes the merged set of one more node.                *)
LEMMA AddIsMerge ==
    ASSUME NEW N \in SUBSET Nodes, NEW n \in Nodes \ N, Unique(N \cup {n}), ~Clash(N \cup {n})
    PROVE  ProcessInfoAdd(Merge(N), n) = Merge(N \cup {n})
<1> DEFINE u == DevUuid[n.disk]
           P == N \cup {n}
<1>0. n.kind = "stratis" \/ n.kind = "luks"
  BY DeviceSetAssumption
<1>a. N \in SUBSET Nodes /\ P \in SUBSET Nodes /\ Unique(N) /\ ~Clash(N)
  BY DEF Unique, Clash
<1>s. ASSUME NEW v, NEW k, OfKind(P, v, k) = OfKind(N, v, k)
      PROVE  Side(P, v, k) = Side(N, v, k)
  <2>1. CASE OfKind(N, v, k) = {}
    BY <1>s, <2>1 DEF Side
  <2>2. CASE OfKind(N, v, k) # {}
    <3>1. PICK m : m \in OfKind(N, v, k)
      BY <2>2
    <3>2. m \in N /\ m \in P /\ m.kind = k /\ DevUuid[m.disk] = v
      BY <3>1 DEF OfKind
    <3>3. Side(N, v, k) = m
      BY <1>a, <3>2, SideIs
    <3>4. Side(P, v, k) = m
      BY <1>a, <3>2, SideIs
    <3> QED
      BY <3>3, <3>4
  <2> QED
    BY <2>1, <2>2
<1>1. ASSUME NEW v, v # u, NEW k PROVE Side(P, v, k) = Side(N, v, k)
  <2>1. OfKind(P, v, k) = OfKind(N, v, k)
    BY <1>1 DEF OfKind
  <2> QED
    BY <2>1, <1>s
<1>2. \A v : v # u => Merged(P, v) = Merged(N, v)
  BY <1>1 DEF Merged
<1>3. OfKind(N, u, n.kind) = {}
  <2> SUFFICES ASSUME NEW m \in N, m.kind = n.kind, DevUuid[m.disk] = u PROVE FALSE
    BY DEF OfKind
  <2>1. m \in P /\ n \in P /\ m # n
    OBVIOUS
  <2>2. m.num = n.num
    BY <2>1 DEF Clash, OtherNumber
  <2> QED
    BY <2>1, <2>2 DEF Unique
<1>4. Side(P, u, n.kind) = n /\ Side(N, u, n.kind) = NoNode
  <2>1. OfKind(P, u, n.kind) = OfKind(N, u, n.kind) \cup {n}
    BY DEF OfKind
  <2> QED
    BY <1>3, <2>1 DEF Side
<1>5. ASSUME NEW k, k # n.kind PROVE Side(P, u, k) = Side(N, u, k)
  <2>1. OfKind(P, u, k) = OfKind(N, u, k)
    BY <1>5 DEF OfKind
  <2> QED
    BY <2>1, <1>s
<1>6. Merged(P, u) = Update(Merged(N, u), n)
  BY <1>0, <1>4, <1>5 DEF Merged, Update
<1>7. CASE \E m \in N : DevUuid[m.disk] = u
  <2>1. Known(Merge(N), n) = {Merged(N, u)}
    BY <1>7, KnownIs
  <2>2. ProcessInfoAdd(Merge(N), n) = (Merge(N) \ {Merged(N, u)}) \cup {Merged(P, u)}
    BY <1>6, <2>1 DEF ProcessInfoAdd
  <2>3. \A m \in N : Merged(N, DevUuid[m.disk]) = Merged(N, u) => DevUuid[m.disk] = u
    BY <1>7, MergedDisk
  <2>4. Merge(P) = {Merged(P, DevUuid[m.disk]) : m \in N} \cup {Merged(P, u)}
    BY DEF Merge
  <2> DEFINE Q == Merge(N) \ {Merged(N, u)}
  <2>5. ASSUME NEW m \in N PROVE Merged(P, DevUuid[m.disk]) \in Q \cup {Merged(P, u)}
    <3>1. CASE DevUuid[m.disk] = u
      BY <3>1
    <3>2. CASE DevUuid[m.disk] # u
      <4>1. Merged(P, DevUuid[m.disk]) = Merged(N, DevUuid[m.disk])
        BY <1>2, <3>2
      <4>2. Merged(N, DevUuid[m.disk]) \in Merge(N)
        BY DEF Merge
      <4> QED
        BY <2>3, <3>2, <4>1, <4>2
    <3> QED
      BY <3>1, <3>2
  <2>6. ASSUME NEW i \in Q PROVE i \in Merge(P)
    <3>1. PICK m \in N : i = Merged(N, DevUuid[m.disk])
      BY DEF Merge
    <3>2. DevUuid[m.disk] # u
      BY <3>1
    <3> QED
      BY <1>2, <2>4, <3>1, <3>2, Zenon
  <2> HIDE DEF Q
  <2>7. Merge(P) = Q \cup {Merged(P, u)}
    BY <2>4, <2>5, <2>6, Zenon
  <2> QED
    BY <2>2, <2>7 DEF Q
<1>8. CASE ~\E m \in N : DevUuid[m.disk] = u
  <2>1. Known(Merge(N), n) = {}
    BY <1>8, KnownIs
  <2>2. \A k : OfKind(N, u, k) = {}
    BY <1>8 DEF OfKind
  <2>3. \A k : Side(N, u, k) = NoNode
    BY <2>2 DEF Side
  <2>4. Merged(P, u) = FromInfo(n)
    BY <1>0, <1>4, <1>5, <2>3 DEF Merged, FromInfo
  <2>5. Merge(P) = Merge(N) \cup {Merged(P, u)}
    <3>1. \A m \in N : Merged(P, DevUuid[m.disk]) = Merged(N, DevUuid[m.disk])
      BY <1>2, <1>8
    <3> QED
      BY <3>1 DEF Merge
  <2> QED
    BY <2>1, <2>4, <2>5 DEF ProcessInfoAdd
<1> QED
  BY <1>7, <1>8

LEMMA ScanStarts == ScanInit => ScanInv
<1> SUFFICES ASSUME ScanInit PROVE ScanInv
  OBVIOUS
<1>1. Scanned = {}
  BY DEF ScanInit, Scanned
<1>2. ~Clash({}) /\ Merge({}) = {}
  BY DEF Clash, Merge
<1> QED
  BY <1>1, <1>2, Zenon DEF ScanInit, ScanInv, Unique

LEMMA ScanSteps == ScanInv /\ [ScanNext]_scanVars => ScanInv'
<1> SUFFICES ASSUME ScanInv, [ScanNext]_scanVars PROVE ScanInv'
  OBVIOUS
<1>1. CASE UNCHANGED scanVars
  BY <1>1 DEF scanVars, ScanInv, Scanned
<1>2. ASSUME NEW n \in Nodes, Pop(n) PROVE ScanInv'
  <2>1. /\ ~given_up /\ n \in infos /\ found' = found
        /\ given_up' = Contradicts(info_map, n)
        /\ info_map' = IF Contradicts(info_map, n) THEN {} ELSE ProcessInfoAdd(info_map, n)
        /\ infos' = IF Contradicts(info_map, n) THEN {} ELSE infos \ {n}
    BY <1>2 DEF Pop
  <2>2. /\ Scanned \in SUBSET Nodes /\ Unique(Scanned) /\ ~Clash(Scanned) /\ info_map = Merge(Scanned)
        /\ Scanned \subseteq found /\ n \in found /\ n \in Nodes \ Scanned
    BY <2>1 DEF ScanInv, Scanned, Unique
  <2>3. CASE Contradicts(info_map, n)
    <3>1. Clash(found)
      <4>1. ClashesWith(Scanned, n)
        BY <2>2, <2>3, ContradictsIsClash
      <4> QED
        BY <2>2, <4>1 DEF Clash, ClashesWith
    <3>2. given_up' = TRUE /\ infos' = {}
      BY <2>1, <2>3
    <3> QED
      BY <2>1, <3>1, <3>2 DEF ScanInv
  <2>4. CASE ~Contradicts(info_map, n)
    <3>1. Scanned' = Scanned \cup {n} /\ infos' \subseteq found /\ given_up' = FALSE
      BY <2>1, <2>2, <2>4 DEF Scanned, ScanInv
    <3>2. ~Clash(Scanned \cup {n})
      <4>1. ~ClashesWith(Scanned, n)
        BY <2>2, <2>4, ContradictsIsClash
      <4>2. ASSUME NEW x \in Scanned \cup {n}, NEW y \in Scanned \cup {n}
            PROVE  ~OtherKeys(x, y) /\ ~OtherNumber(x, y)
        <5>1. CASE x \in Scanned /\ y \in Scanned
          BY <2>2, <5>1 DEF Clash
        <5>2. CASE x \in Scanned /\ y = n
          BY <4>1, <5>2 DEF ClashesWith
        <5>3. CASE x = n /\ y \in Scanned
          <6>1. ~OtherKeys(y, x) /\ ~OtherNumber(y, x)
            BY <4>1, <5>3 DEF ClashesWith
          <6> QED
            BY <6>1 DEF OtherKeys, OtherNumber
        <5>4. CASE x = y
          BY <5>4 DEF OtherKeys, OtherNumber
        <5> QED
          BY <5>1, <5>2, <5>3, <5>4
      <4> QED
        BY <4>2 DEF Clash
    <3>3. Unique(Scanned \cup {n})
      BY <2>2 DEF ScanInv, Unique
    <3>4. info_map' = Merge(Scanned \cup {n})
      BY <2>1, <2>2, <2>4, <3>2, <3>3, AddIsMerge
    <3> QED
      BY <2>1, <3>1, <3>2, <3>4, Zenon DEF ScanInv
  <2> QED
    BY <2>3, <2>4
<1> QED
  BY <1>1, <1>2 DEF ScanNext

----------------------------------------------------------------------------
(* The order in which udev lists the devices of a pool does not matter to  *)
(* setup_pools: the set is given up exactly if two of them contradict one  *)
(* another, and otherwise it has one LInfo per device, with both sides.    *)
THEOREM ScanOrder == ScanSpec => []OrderDoesNotMatter
<1>1. ScanInv => OrderDoesNotMatter
  <2> SUFFICES ASSUME ScanInv, infos = {}, ~given_up
               PROVE  ~Clash(found) /\ info_map = Merge(found)
    BY DEF ScanInv, OrderDoesNotMatter
  <2>1. Scanned = found
    BY DEF Scanned
  <2> QED
    BY <2>1 DEF ScanInv
<1>2. ScanSpec => []ScanInv
  BY ScanStarts, ScanSteps, PTL DEF ScanSpec
<1> QED
  BY <1>1, <1>2, PTL

============================================================================
