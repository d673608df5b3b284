---------------------------- MODULE EngineProofs ----------------------------
(***************************************************************************)
(* Proofs about Engine, for any devices, pools and names.                  *)
(***************************************************************************)
EXTENDS Engine, TLAPS

(* The time a leaf may take: long modules slow the prover down.            *)
USE SMTT(20), ZenonT(20)

(* One device number, one device.                                          *)
NumsUnique == \A m, n \in present : m.num = n.num => m = n

(* The record v describes pool p on its own devices, all of them.          *)
Whole(p, v) ==
    /\ v \in PoolRecord
    /\ {DevUuid[n.disk] : n \in v.nodes} = meta[p].devs
    /\ \A n \in v.nodes : owner[n.disk] = p

IInv == TypeOK /\ NumsUnique /\ OnePlacePerPool /\ PoolsAreWhole

----------------------------------------------------------------------------
(* What process_info_add and process_info_remove make is a device set.     *)
LEMMA DeviceSetTypes ==
    ASSUME NEW ds \in SUBSET LInfo, NEW n \in Nodes
    PROVE  /\ ProcessInfoAdd(ds, n) \in SUBSET LInfo
           /\ ProcessInfoRemove(ds, n) \in SUBSET LInfo
<1>1. \A i \in ds : Update(i, n) \in LInfo
  BY DEF Update, LInfo
<1>2. FromInfo(n) \in LInfo
  BY DEF FromInfo, LInfo
<1>3. \A i \in ds : UpdateOnRemove(i, n) \in SUBSET LInfo
  BY DEF UpdateOnRemove, LInfo
<1>4. ProcessInfoAdd(ds, n) \in SUBSET LInfo
  BY <1>1, <1>2 DEF ProcessInfoAdd, Known
<1>5. ProcessInfoRemove(ds, n) \in SUBSET LInfo
  BY <1>3 DEF ProcessInfoRemove, Known
<1> QED
  BY <1>4, <1>5

LEMMA Counted ==
    ASSUME IInv, Command
    PROVE  steps' \in Nat
<1>1. steps' = steps + 1
  BY DEF Command
<1> QED
  BY <1>1 DEF IInv, TypeOK

LEMMA MergeType ==
    ASSUME NEW N \in SUBSET Nodes
    PROVE  Merge(N) \in SUBSET LInfo
<1>1. ASSUME NEW S \in SUBSET Nodes
      PROVE  (IF S = {} THEN NoNode ELSE CHOOSE m \in S : TRUE) \in Nodes \cup {NoNode}
  OBVIOUS
<1>2. ASSUME NEW u, NEW k PROVE Side(N, u, k) \in Nodes \cup {NoNode}
  BY <1>1 DEF Side, OfKind
<1>3. ASSUME NEW u PROVE Merged(N, u) \in LInfo
  BY <1>2 DEF Merged, LInfo
<1> QED
  BY <1>3 DEF Merge

(* When try_setup_pool makes a pool: the name is free, the devices now     *)
(* under the known numbers carry the pool's UUID, and they are the ones    *)
(* the metadata names.                                                     *)
LEMMA SetupMakesWholePool ==
    ASSUME IInv, NEW table, NEW p \in Pools, NEW ds \in SUBSET LInfo, NEW ok,
           Destination(table, p, ds, ok) = "pool"
    PROVE  /\ Whole(p, NewPool(p, ds))
           /\ NewPool(p, ds).name = meta[p].name
           /\ \A q \in DOMAIN table : table[q].name # meta[p].name
<1>1. /\ ~SomeClosed(ds) /\ \A i \in ds : SameIdentifiers(p, i)
      /\ CanSetup(table, p, ds)
  BY DEF Destination
<1>2. NewPool(p, ds).name = meta[p].name /\
      NewPool(p, ds).nodes = {n \in present : n.kind = "stratis" /\ \E i \in ds : n.num = i.strat.num}
  BY DEF NewPool
<1>3. ASSUME NEW i \in ds
      PROVE  \E n \in NewPool(p, ds).nodes : DevUuid[n.disk] = DevUuid[DiskOf(i)]
  BY <1>1, <1>2 DEF SameIdentifiers
<1>4. ASSUME NEW n \in NewPool(p, ds).nodes
      PROVE  owner[n.disk] = p /\ \E i \in ds : DevUuid[n.disk] = DevUuid[DiskOf(i)]
  <2>1. n \in present
    BY <1>2
  <2>2. PICK i \in ds : n.num = i.strat.num
    BY <1>2
  <2>3. PICK m \in present : /\ m.num = i.strat.num /\ owner[m.disk] = p
                             /\ DevUuid[m.disk] = DevUuid[DiskOf(i)]
    BY <1>1 DEF SameIdentifiers
  <2>4. m = n
    BY <2>1, <2>2, <2>3 DEF IInv, NumsUnique
  <2> QED
    BY <2>3, <2>4
<1>5. {DevUuid[n.disk] : n \in NewPool(p, ds).nodes} = {DevUuid[DiskOf(i)] : i \in ds}
  BY <1>3, <1>4
<1>6. meta[p].name \in Names /\ {DevUuid[DiskOf(i)] : i \in ds} = meta[p].devs
      /\ \A q \in DOMAIN table : table[q].name # meta[p].name
  BY <1>1 DEF CanSetup, IInv, TypeOK, MetaRecord
<1>7. NewPool(p, ds) \in PoolRecord
  BY <1>6 DEF NewPool, PoolRecord, IInv, TypeOK
<1> QED
  BY <1>2, <1>4, <1>5, <1>6, <1>7 DEF Whole

----------------------------------------------------------------------------
(* The steps that leave the engine's tables alone, by what they change.    *)
LEMMA DevicesMoveIInv ==
    ASSUME IInv, UNCHANGED <<owner, meta, engine>>,
           present' \subseteq Nodes, NumsUnique',
           queue' \in [Nodes -> Seq({"add", "remove"})], steps' \in Nat, restarts' \in Nat
    PROVE  IInv'
<1>1. TypeOK'
  BY DEF IInv, TypeOK, engine
<1>2. OnePlacePerPool' /\ PoolsAreWhole'
  BY DEF IInv, OnePlacePerPool, PoolsAreWhole, engine
<1> QED
  BY <1>1, <1>2 DEF IInv

LEMMA InitIInv == Init => IInv
<1> SUFFICES ASSUME Init PROVE IInv
  OBVIOUS
<1>1. DOMAIN Empty = {}
  BY DEF Empty
<1>2. TypeOK
  BY <1>1, EngineAssumption DEF Init, TypeOK
<1>3. NumsUnique
  BY EngineAssumption DEF Init, NumsUnique
<1>4. OnePlacePerPool /\ PoolsAreWhole
  BY <1>1 DEF Init, OnePlacePerPool, PoolsAreWhole
<1> QED
  BY <1>2, <1>3, <1>4 DEF IInv

(* Devices come and go.                                                    *)
LEMMA MoveIInv ==
    ASSUME IInv, NEW n \in Nodes, Plug(n) \/ Unplug(n)
    PROVE  IInv'
<1>1. PICK type \in {"add", "remove"} : Move(n, type)
  BY DEF Plug, Unplug
<1>2. /\ UNCHANGED <<owner, meta, engine>> /\ steps' \in Nat /\ restarts' \in Nat
      /\ queue' \in [Nodes -> Seq({"add", "remove"})]
  BY <1>1 DEF Move, IInv, TypeOK
<1>3. present' \subseteq Nodes /\ NumsUnique'
  BY DEF Plug, Unplug, IInv, TypeOK, NumsUnique
<1> QED
  BY <1>2, <1>3, DevicesMoveIInv

(* What try_setup_pool decides, whatever the outcome.                      *)
LEMMA TrySetupIInv ==
    ASSUME IInv, NEW p \in Pools, NEW ds \in SUBSET LInfo,
           p \notin DOMAIN pools \cup hopeless, TrySetup(p, ds)
    PROVE  /\ DOMAIN pools' \subseteq Pools /\ \A q \in DOMAIN pools' : pools'[q] \in PoolRecord
           /\ DOMAIN errored' \subseteq Pools /\ \A q \in DOMAIN errored' : errored'[q] \subseteq LInfo
           /\ hopeless' \subseteq Pools
           /\ OnePlacePerPool'
           /\ \A q \in DOMAIN pools' : {DevUuid[n.disk] : n \in pools'[q].nodes} = meta[q].devs
           /\ DOMAIN pools \subseteq DOMAIN pools'
           /\ \A q \in DOMAIN pools : pools'[q] = pools[q]
           /\ \A q \in DOMAIN pools' \ DOMAIN pools : Whole(q, pools'[q])
<1>1. PICK ok \in {TRUE, ~Faults} :
         LET to == Destination(pools, p, ds, ok)
         IN  /\ pools' = IF to = "pool" THEN Insert(pools, p, NewPool(p, ds)) ELSE pools
             /\ errored' = IF to = "errored" THEN Put(errored, p, ds) ELSE Drop(errored, p)
             /\ hopeless' = IF to = "hopeless" THEN hopeless \cup {p} ELSE hopeless
  BY Zenon DEF TrySetup
<1> DEFINE to == Destination(pools, p, ds, ok)
<1>2. /\ DOMAIN pools \subseteq Pools /\ \A q \in DOMAIN pools : pools[q] \in PoolRecord
      /\ DOMAIN errored \subseteq Pools /\ \A q \in DOMAIN errored : errored[q] \subseteq LInfo
      /\ hopeless \subseteq Pools
  BY DEF IInv, TypeOK
<1>3. to \in {"pool", "errored", "hopeless"}
  BY DEF Destination
<1>a. pools' = IF to = "pool" THEN Insert(pools, p, NewPool(p, ds)) ELSE pools
  BY <1>1
<1>b. errored' = IF to = "errored" THEN Put(errored, p, ds) ELSE Drop(errored, p)
  BY <1>1
<1>c. hopeless' = IF to = "hopeless" THEN hopeless \cup {p} ELSE hopeless
  BY <1>1
<1>4. CASE to = "pool"
  <2>1. /\ Whole(p, NewPool(p, ds))
        /\ \A q \in DOMAIN pools : pools[q].name # NewPool(p, ds).name
    BY <1>4, SetupMakesWholePool
  <2> HIDE DEF to
  <2>2. pools' = Insert(pools, p, NewPool(p, ds)) /\ errored' = Drop(errored, p) /\ hopeless' = hopeless
    BY <1>4, <1>a, <1>b, <1>c
  <2>3. /\ DOMAIN pools' = DOMAIN pools \cup {p}
        /\ pools'[p] = NewPool(p, ds)
        /\ \A q \in DOMAIN pools : q # p => pools'[q] = pools[q]
    BY <2>1, <2>2 DEF Insert
  <2>4. /\ DOMAIN errored' = DOMAIN errored \ {p}
        /\ \A q \in DOMAIN errored' : errored'[q] = errored[q]
    BY <2>2 DEF Drop
  <2>5. OnePlacePerPool'
    BY <2>2, <2>3, <2>4 DEF OnePlacePerPool, IInv
  <2>6. \A q \in DOMAIN pools' : {DevUuid[n.disk] : n \in pools'[q].nodes} = meta[q].devs
    BY <2>1, <2>3 DEF IInv, PoolsAreWhole, Whole
  <2> QED
    BY <1>2, <2>1, <2>2, <2>3, <2>4, <2>5, <2>6 DEF Whole
<1>5. CASE to = "errored"
  <2> HIDE DEF to
  <2>1. pools' = pools /\ errored' = Put(errored, p, ds) /\ hopeless' = hopeless
    BY <1>5, <1>a, <1>b, <1>c
  <2>2. /\ DOMAIN errored' = DOMAIN errored \cup {p}
        /\ errored'[p] = ds
        /\ \A q \in DOMAIN errored : q # p => errored'[q] = errored[q]
    BY <2>1 DEF Put, Drop
  <2>3. OnePlacePerPool'
    BY <2>1, <2>2 DEF OnePlacePerPool, IInv
  <2> QED
    BY <1>2, <2>1, <2>2, <2>3 DEF IInv, PoolsAreWhole
<1>6. CASE to = "hopeless"
  <2> HIDE DEF to
  <2>1. pools' = pools /\ errored' = Drop(errored, p) /\ hopeless' = hopeless \cup {p}
    BY <1>6, <1>a, <1>b, <1>c
  <2>2. /\ DOMAIN errored' = DOMAIN errored \ {p}
        /\ \A q \in DOMAIN errored' : errored'[q] = errored[q]
    BY <2>1 DEF Put, Drop
  <2>3. OnePlacePerPool'
    BY <2>1, <2>2 DEF OnePlacePerPool, IInv
  <2> QED
    BY <1>2, <2>1, <2>2, <2>3 DEF IInv, PoolsAreWhole
<1> QED
  BY <1>3, <1>4, <1>5, <1>6

(* StratEngine::handle_event.                                              *)
LEMMA HandleIInv ==
    ASSUME IInv, NEW n \in Nodes, Handle(n)
    PROVE  /\ IInv'
           /\ DOMAIN pools \subseteq DOMAIN pools'
           /\ \A q \in DOMAIN pools : pools'[q] = pools[q]
           /\ \A q \in DOMAIN pools' \ DOMAIN pools : Whole(q, pools'[q])
<1>1. /\ Take(n)
      /\ UNCHANGED <<present, owner, meta, daemon, steps, restarts>>
  BY DEF Handle, Ignore, HandleAdd, HandleRemove, Take, devices
<1>2. queue' \in [Nodes -> Seq({"add", "remove"})]
  <2>1. queue[n] # <<>> /\ queue' = [queue EXCEPT ![n] = Tail(@)]
    BY <1>1 DEF Take
  <2> QED
    BY <2>1 DEF IInv, TypeOK
<1>3. NumsUnique'
  BY <1>1 DEF IInv, NumsUnique
<1>4. ASSUME Identified(n)
      PROVE  owner[n.disk] \in Pools /\ Errored(owner[n.disk]) \in SUBSET LInfo
  BY <1>4, DeviceSetAssumption DEF Identified, Errored, IInv, TypeOK
<1>5. CASE Ignore(n)
  <2>1. UNCHANGED <<pools, errored, hopeless>>
    BY <1>5 DEF Ignore
  <2>2. TypeOK'
    BY <1>1, <1>2, <2>1 DEF IInv, TypeOK
  <2> QED
    BY <1>1, <1>3, <2>1, <2>2 DEF IInv, OnePlacePerPool, PoolsAreWhole
<1>6. ASSUME NEW p \in Pools, NEW ds \in SUBSET LInfo,
             p \notin DOMAIN pools \cup hopeless, TrySetup(p, ds)
      PROVE  /\ IInv'
             /\ DOMAIN pools \subseteq DOMAIN pools'
             /\ \A q \in DOMAIN pools : pools'[q] = pools[q]
             /\ \A q \in DOMAIN pools' \ DOMAIN pools : Whole(q, pools'[q])
  <2>1. /\ DOMAIN pools' \subseteq Pools /\ \A q \in DOMAIN pools' : pools'[q] \in PoolRecord
        /\ DOMAIN errored' \subseteq Pools /\ \A q \in DOMAIN errored' : errored'[q] \subseteq LInfo
        /\ hopeless' \subseteq Pools
        /\ OnePlacePerPool'
        /\ \A q \in DOMAIN pools' : {DevUuid[m.disk] : m \in pools'[q].nodes} = meta[q].devs
        /\ DOMAIN pools \subseteq DOMAIN pools'
        /\ \A q \in DOMAIN pools : pools'[q] = pools[q]
        /\ \A q \in DOMAIN pools' \ DOMAIN pools : Whole(q, pools'[q])
    BY <1>6, TrySetupIInv
  <2>2. TypeOK'
    BY <1>1, <1>2, <2>1 DEF IInv, TypeOK
  <2>3. PoolsAreWhole'
    BY <1>1, <2>1 DEF PoolsAreWhole
  <2> QED
    BY <1>3, <2>1, <2>2, <2>3 DEF IInv
<1>7. CASE HandleAdd(n)
  <2> DEFINE p == owner[n.disk]
  <2>1. Identified(n) /\ p \notin DOMAIN pools \cup hopeless
    BY <1>7 DEF HandleAdd
  <2>2. p \in Pools /\ Errored(p) \in SUBSET LInfo
    BY <1>4, <2>1
  <2>3. CASE Contradicts(Errored(p), n)
    <3>1. hopeless' = hopeless \cup {p} /\ errored' = Drop(errored, p) /\ pools' = pools
      BY <1>7, <2>3 DEF HandleAdd
    <3>2. /\ DOMAIN errored' = DOMAIN errored \ {p}
          /\ \A q \in DOMAIN errored' : errored'[q] = errored[q]
      BY <3>1 DEF Drop
    <3> HIDE DEF p
    <3>3. TypeOK'
      BY <1>1, <1>2, <2>2, <3>1, <3>2 DEF IInv, TypeOK
    <3>4. OnePlacePerPool'
      BY <2>1, <3>1, <3>2 DEF IInv, OnePlacePerPool
    <3> QED
      BY <1>1, <1>3, <3>1, <3>3, <3>4 DEF IInv, PoolsAreWhole
  <2>4. CASE ~Contradicts(Errored(p), n)
    <3>1. TrySetup(p, ProcessInfoAdd(Errored(p), n))
      BY <1>7, <2>4 DEF HandleAdd
    <3> QED
      BY <1>6, <2>1, <2>2, <3>1, DeviceSetTypes
  <2> QED
    BY <2>3, <2>4
<1>8. CASE HandleRemove(n)
  <2> DEFINE p == owner[n.disk]
  <2>1. /\ Identified(n) /\ p \notin DOMAIN pools \cup hopeless
        /\ TrySetup(p, ProcessInfoRemove(Errored(p), n))
    BY <1>8 DEF HandleRemove
  <2>2. p \in Pools /\ Errored(p) \in SUBSET LInfo
    BY <1>4, <2>1
  <2> QED
    BY <1>6, <2>1, <2>2, DeviceSetTypes
<1> QED
  BY <1>5, <1>7, <1>8 DEF Handle

(* StratEngine::initialize.                                                *)
LEMMA StartIInv ==
    ASSUME IInv, Start
    PROVE  /\ IInv'
           /\ \A p \in DOMAIN pools', n \in Nodes : n \in pools'[p].nodes => owner'[n.disk] = p
<1>1. PICK broken \in SUBSET Pools :
         LET To(p) == IF Clash(Found(p)) THEN "hopeless"
                      ELSE Destination(Empty, p, Merge(Found(p)), p \notin broken)
             Seen(to) == {p \in Pools : Found(p) # {} /\ To(p) = to}
         IN  \E kept \in SUBSET Seen("pool") :
               /\ pools' = [p \in kept |-> NewPool(p, Merge(Found(p)))]
               /\ errored' = [p \in Seen("errored") |-> Merge(Found(p))]
               /\ hopeless' = Seen("hopeless")
  BY Zenon DEF Start
<1> DEFINE To(p) == IF Clash(Found(p)) THEN "hopeless"
                    ELSE Destination(Empty, p, Merge(Found(p)), p \notin broken)
           Seen(to) == {p \in Pools : Found(p) # {} /\ To(p) = to}
<1>2. PICK kept \in SUBSET Seen("pool") :
               /\ pools' = [p \in kept |-> NewPool(p, Merge(Found(p)))]
               /\ errored' = [p \in Seen("errored") |-> Merge(Found(p))]
               /\ hopeless' = Seen("hopeless")
  BY <1>1
<1>3. /\ UNCHANGED <<present, owner, meta, queue, steps, restarts>>
      /\ daemon' = "scanned"
  BY DEF Start, devices
<1>4. ASSUME NEW p \in Pools
      PROVE  Merge(Found(p)) \in SUBSET LInfo
  BY MergeType, Zenon DEF Found, IInv, TypeOK
<1>5. ASSUME NEW p \in kept
      PROVE  /\ p \in Pools
             /\ NewPool(p, Merge(Found(p))) \in PoolRecord
             /\ {DevUuid[n.disk] : n \in NewPool(p, Merge(Found(p))).nodes} = meta[p].devs
             /\ \A n \in NewPool(p, Merge(Found(p))).nodes : owner[n.disk] = p
  <2>1. p \in Pools /\ Destination(Empty, p, Merge(Found(p)), p \notin broken) = "pool"
    BY <1>2
  <2>2. p \in Pools
    BY <2>1
  <2> HIDE DEF Seen, To
  <2>3. Merge(Found(p)) \in SUBSET LInfo
    BY <1>4, <2>2
  <2>4. PICK ds \in SUBSET LInfo : ds = Merge(Found(p))
    BY <2>3
  <2>5. PICK table, ok : Destination(table, p, ds, ok) = "pool"
    BY <2>1, <2>4, Zenon
  <2>6. Whole(p, NewPool(p, ds))
    BY <2>2, <2>5, SetupMakesWholePool
  <2> QED
    BY <2>2, <2>4, <2>6 DEF Whole
<1>6. Seen("pool") \cap Seen("errored") = {} /\ Seen("pool") \cap Seen("hopeless") = {}
      /\ Seen("errored") \cap Seen("hopeless") = {}
      /\ Seen("errored") \subseteq Pools /\ Seen("hopeless") \subseteq Pools
  OBVIOUS
<1> HIDE DEF Seen, To
<1>7. /\ DOMAIN pools' = kept /\ \A p \in kept : pools'[p] = NewPool(p, Merge(Found(p)))
      /\ DOMAIN errored' = Seen("errored")
      /\ \A p \in DOMAIN errored' : errored'[p] = Merge(Found(p))
      /\ hopeless' = Seen("hopeless")
  BY <1>2
<1>8. TypeOK'
  <2>1. DOMAIN pools' \subseteq Pools /\ \A p \in DOMAIN pools' : pools'[p] \in PoolRecord
    BY <1>5, <1>7
  <2>2. DOMAIN errored' \subseteq Pools /\ \A p \in DOMAIN errored' : errored'[p] \subseteq LInfo
    BY <1>4, <1>6, <1>7
  <2>3. hopeless' \subseteq Pools
    BY <1>6, <1>7
  <2> QED
    BY <1>3, <2>1, <2>2, <2>3 DEF IInv, TypeOK
<1>9. OnePlacePerPool'
  BY <1>2, <1>6, <1>7 DEF OnePlacePerPool
<1>10. PoolsAreWhole'
  BY <1>3, <1>5, <1>7 DEF PoolsAreWhole
<1>11. NumsUnique'
  BY <1>3 DEF IInv, NumsUnique
<1>12. \A p \in DOMAIN pools', n \in Nodes : n \in pools'[p].nodes => owner'[n.disk] = p
  BY <1>3, <1>5, <1>7
<1> QED
  BY <1>8, <1>9, <1>10, <1>11, <1>12 DEF IInv

(* The monitor starts, the daemon stops, unlock_pool, or create_pool that  *)
(* fails: the tables are kept or emptied.                                  *)
LEMMA OtherIInv ==
    ASSUME IInv,
           \/ Listen \/ Stop \/ \E p \in Pools : Unlock(p)
           \/ \E p \in Pools, name \in Names, N \in SUBSET Nodes : CreateFails(p, name, N)
    PROVE  IInv'
<1>1. CASE Listen
  <2>1. TypeOK'
    BY <1>1 DEF Listen, IInv, TypeOK, devices
  <2> QED
    BY <1>1, <2>1 DEF Listen, IInv, NumsUnique, OnePlacePerPool, PoolsAreWhole, devices
<1>2. CASE Stop
  <2>1. DOMAIN Empty = {}
    BY DEF Empty
  <2>a. /\ daemon' = "down" /\ pools' = Empty /\ errored' = Empty /\ hopeless' = {}
        /\ queue' = [n \in Nodes |-> <<>>] /\ restarts' = restarts + 1
        /\ UNCHANGED <<present, owner, meta, steps>>
    BY <1>2 DEF Stop, devices
  <2>b. queue' \in [Nodes -> Seq({"add", "remove"})]
    BY <2>a
  <2>c. restarts' \in Nat
    BY <2>a DEF IInv, TypeOK
  <2>2. TypeOK'
    BY <2>1, <2>a, <2>b, <2>c DEF IInv, TypeOK
  <2>3. OnePlacePerPool' /\ PoolsAreWhole'
    BY <1>2, <2>1, Zenon DEF Stop, OnePlacePerPool, PoolsAreWhole
  <2> QED
    BY <1>2, <2>2, <2>3 DEF Stop, IInv, NumsUnique, devices
<1>3. ASSUME NEW p \in Pools, Unlock(p)
      PROVE  IInv'
  <2>1. UNCHANGED <<owner, meta, engine, steps, restarts>>
    BY <1>3 DEF Unlock
  <2>2. PICK New \in SUBSET {n \in Nodes \ present : n.kind = "stratis" /\ \A m \in present : m.num # n.num} :
          /\ \A m, n \in New : m # n => m.num # n.num /\ m.disk # n.disk
          /\ present' = present \cup New
          /\ queue' = [n \in Nodes |-> IF n \in New THEN Append(queue[n], "add") ELSE queue[n]]
    BY <1>3, Zenon DEF Unlock
  <2>3. present' \subseteq Nodes
    BY <2>2 DEF IInv, TypeOK
  <2>4. NumsUnique'
    BY <2>2 DEF IInv, NumsUnique
  <2>5. queue' \in [Nodes -> Seq({"add", "remove"})]
    <3>1. \A n \in Nodes : queue[n] \in Seq({"add", "remove"})
      BY DEF IInv, TypeOK
    <3>2. \A n \in Nodes : Append(queue[n], "add") \in Seq({"add", "remove"})
      BY <3>1
    <3> QED
      BY <2>2, <3>1, <3>2
  <2> QED
    BY <2>1, <2>3, <2>4, <2>5, DevicesMoveIInv, Zenon DEF IInv, TypeOK
<1>4. ASSUME NEW p \in Pools, NEW name \in Names, NEW N \in SUBSET Nodes, CreateFails(p, name, N)
      PROVE  IInv'
  <2>1. steps' \in Nat /\ UNCHANGED <<present, meta, engine, restarts>> /\ queue' = Touched(N)
    BY <1>4, Counted DEF CreateFails, CreateOn
  <2>2. PICK D : owner' = Initialize(p, D)
    BY <1>4 DEF CreateFails
  <2>3. owner' \in [Disks -> Pools \cup {NoPool}]
    BY <2>2 DEF Initialize, IInv, TypeOK
  <2>4. queue' \in [Nodes -> Seq({"add", "remove"})]
    <3>1. \A x \in Nodes : queue[x] \in Seq({"add", "remove"})
      BY DEF IInv, TypeOK
    <3>2. \A x \in Nodes : Append(queue[x], "add") \in Seq({"add", "remove"})
      BY <3>1
    <3> QED
      BY <2>1, <3>1, <3>2 DEF Touched
  <2>5. TypeOK'
    BY <2>1, <2>3, <2>4 DEF IInv, TypeOK, engine
  <2> QED
    BY <2>1, <2>5 DEF IInv, NumsUnique, OnePlacePerPool, PoolsAreWhole, engine
<1> QED
  BY <1>1, <1>2, <1>3, <1>4

(* StratEngine::create_pool.                                               *)
LEMMA CreateIInv ==
    ASSUME IInv, NEW p \in Pools, NEW name \in Names, NEW N \in SUBSET Nodes, Create(p, name, N)
    PROVE  /\ IInv'
           /\ DOMAIN pools' = DOMAIN pools \cup {p} /\ p \notin DOMAIN pools
           /\ pools'[p].nodes = N
           /\ \A q \in DOMAIN pools : pools'[q] = pools[q]
<1>1. /\ CreateOn(p, name, N)
      /\ owner' = Initialize(p, {n.disk : n \in N})
      /\ meta' = [meta EXCEPT ![p] = [name |-> name, devs |-> {DevUuid[n.disk] : n \in N}]]
      /\ pools' = Insert(pools, p, [name |-> name, nodes |-> N])
      /\ queue' = Touched(N)
      /\ UNCHANGED <<present, daemon, errored, hopeless, restarts>>
  BY DEF Create
<1>2. /\ \A q \in DOMAIN pools : pools[q].name # name
      /\ p \notin DOMAIN pools \cup DOMAIN errored \cup hopeless
      /\ steps' \in Nat
  BY <1>1, Counted, Zenon DEF CreateOn
<1>3. /\ DOMAIN pools' = DOMAIN pools \cup {p}
      /\ pools'[p] = [name |-> name, nodes |-> N]
      /\ \A q \in DOMAIN pools : pools'[q] = pools[q]
  BY <1>1, <1>2 DEF Insert
<1>4. owner' \in [Disks -> Pools \cup {NoPool}]
  BY <1>1, Zenon DEF Initialize, IInv, TypeOK
<1>5. /\ meta' \in [Pools -> MetaRecord]
      /\ meta'[p].devs = {DevUuid[n.disk] : n \in N}
      /\ \A q \in Pools : q # p => meta'[q] = meta[q]
  <2>1. {DevUuid[n.disk] : n \in N} \subseteq {DevUuid[d] : d \in Disks}
    BY DeviceSetAssumption
  <2> DEFINE D == {DevUuid[n.disk] : n \in N}
  <2>2. meta' = [meta EXCEPT ![p] = [name |-> name, devs |-> D]]
    BY <1>1, Zenon
  <2>3. D \subseteq {DevUuid[d] : d \in Disks}
    BY <2>1
  <2> HIDE DEF D
  <2>4. [name |-> name, devs |-> D] \in MetaRecord
    BY <2>3 DEF MetaRecord
  <2>5. meta \in [Pools -> MetaRecord]
    BY DEF IInv, TypeOK
  <2>6. /\ meta' \in [Pools -> MetaRecord]
        /\ meta'[p].devs = D
        /\ \A q \in Pools : q # p => meta'[q] = meta[q]
    BY <2>2, <2>4, <2>5
  <2> QED
    BY <2>6 DEF D
<1>6. queue' \in [Nodes -> Seq({"add", "remove"})]
  <2>1. \A n \in Nodes : queue[n] \in Seq({"add", "remove"})
    BY DEF IInv, TypeOK
  <2>2. \A n \in Nodes : Append(queue[n], "add") \in Seq({"add", "remove"})
    BY <2>1
  <2> QED
    BY <1>1, <2>1, <2>2 DEF Touched
<1>7. DOMAIN pools' \subseteq Pools /\ \A q \in DOMAIN pools' : pools'[q] \in PoolRecord
  <2>1. [name |-> name, nodes |-> N] \in PoolRecord
    BY Zenon DEF PoolRecord
  <2> QED
    BY <1>3, <2>1 DEF IInv, TypeOK
<1>8. TypeOK'
  BY <1>1, <1>2, <1>4, <1>5, <1>6, <1>7, Zenon DEF IInv, TypeOK
<1>9. OnePlacePerPool'
  BY <1>1, <1>2, <1>3, Zenon DEF IInv, OnePlacePerPool
<1>10. PoolsAreWhole'
  <2> SUFFICES ASSUME NEW q \in DOMAIN pools'
               PROVE  {DevUuid[n.disk] : n \in pools'[q].nodes} = meta'[q].devs
    BY DEF PoolsAreWhole
  <2>1. CASE q = p
    BY <1>3, <1>5, <2>1
  <2>2. CASE q # p
    <3>1. q \in DOMAIN pools /\ q \in Pools /\ pools'[q] = pools[q] /\ meta'[q] = meta[q]
      BY <1>3, <1>5, <2>2 DEF IInv, TypeOK
    <3> QED
      BY <3>1, Zenon DEF IInv, PoolsAreWhole
  <2> QED
    BY <2>1, <2>2
<1>11. NumsUnique'
  BY <1>1, Zenon DEF IInv, NumsUnique
<1>12. IInv'
  BY <1>8, <1>9, <1>10, <1>11 DEF IInv
<1>13. p \notin DOMAIN pools
  BY <1>2
<1>14. pools'[p].nodes = N
  <2>1. pools'[p] = [name |-> name, nodes |-> N]
    BY <1>3
  <2>2. [name |-> name, nodes |-> N].nodes = N
    OBVIOUS
  <2> QED
    BY <2>1, <2>2
<1>15. \A q \in DOMAIN pools : pools'[q] = pools[q]
  BY <1>3
<1> QED
  BY <1>3, <1>12, <1>13, <1>14, <1>15, Zenon

(* StratEngine::destroy_pool.                                              *)
LEMMA DestroyIInv ==
    ASSUME IInv, NEW p \in Pools, Destroy(p)
    PROVE  /\ IInv'
           /\ \E D \in SUBSET {n.disk : n \in pools[p].nodes} :
                /\ owner' = [d \in Disks |-> IF d \in D THEN NoPool ELSE owner[d]]
                /\ \/ D = {n.disk : n \in pools[p].nodes} /\ pools' = Drop(pools, p)
                   \/ Faults /\ pools' = pools
<1>1. PICK D \in SUBSET {n.disk : n \in pools[p].nodes} :
         /\ D = {n.disk : n \in pools[p].nodes} \/ Faults
         /\ owner' = [d \in Disks |-> IF d \in D THEN NoPool ELSE owner[d]]
         /\ present' = {n \in present : n.disk \in D /\ n.kind = "stratis" => Enc[n.disk] = NoEnc}
         /\ IF D = {n.disk : n \in pools[p].nodes}
              THEN pools' = Drop(pools, p) /\ meta' = [meta EXCEPT ![p] = NoMeta]
              ELSE UNCHANGED <<pools, meta>>
  BY Zenon DEF Destroy
<1>2. steps' \in Nat /\ UNCHANGED <<queue, daemon, errored, hopeless, restarts>>
  BY Counted DEF Destroy
<1>3. present' \subseteq present /\ owner' \in [Disks -> Pools \cup {NoPool}]
  BY <1>1 DEF IInv, TypeOK
<1>4. NumsUnique'
  BY <1>3 DEF IInv, NumsUnique
<1>5. \/ pools' = Drop(pools, p) /\ meta' = [meta EXCEPT ![p] = NoMeta]
      \/ pools' = pools /\ meta' = meta
  BY <1>1
<1>6. meta' \in [Pools -> MetaRecord]
  BY <1>5 DEF IInv, TypeOK, MetaRecord
<1>7. /\ DOMAIN pools' \subseteq DOMAIN pools
      /\ \A q \in DOMAIN pools' : pools'[q] = pools[q] /\ meta'[q] = meta[q]
  <2>1. CASE pools' = Drop(pools, p) /\ meta' = [meta EXCEPT ![p] = NoMeta]
    <3>1. DOMAIN pools' = DOMAIN pools \ {p} /\ \A q \in DOMAIN pools' : pools'[q] = pools[q]
      BY <2>1 DEF Drop
    <3> QED
      BY <2>1, <3>1 DEF IInv, TypeOK
  <2> QED
    BY <1>5, <2>1, Zenon
<1>8. TypeOK'
  BY <1>2, <1>3, <1>6, <1>7, Zenon DEF IInv, TypeOK
<1>9. OnePlacePerPool'
  BY <1>2, <1>7 DEF IInv, OnePlacePerPool
<1>10. PoolsAreWhole'
  BY <1>7 DEF IInv, PoolsAreWhole
<1> QED
  BY <1>1, <1>4, <1>8, <1>9, <1>10 DEF IInv

(* StratEngine::rename_pool.                                               *)
LEMMA RenameIInv ==
    ASSUME IInv, NEW p \in Pools, NEW name \in Names, Rename(p, name)
    PROVE  /\ IInv'
           /\ DOMAIN pools' = DOMAIN pools
           /\ \A q \in DOMAIN pools : pools'[q].nodes = pools[q].nodes
<1>1. /\ p \in DOMAIN pools
      /\ \A q \in DOMAIN pools : pools[q].name # name
      /\ meta' = [meta EXCEPT ![p] = [name |-> name, devs |-> meta[p].devs]] \/ meta' = meta
      /\ \/ pools' = Insert(Drop(pools, p), p, [name |-> name, nodes |-> pools[p].nodes])
         \/ pools' = pools
  BY DEF Rename
<1>2. steps' \in Nat /\ UNCHANGED <<present, owner, queue, daemon, errored, hopeless, restarts>>
  BY Counted DEF Rename
<1>3. pools[p] \in PoolRecord /\ meta[p] \in MetaRecord /\ meta \in [Pools -> MetaRecord]
  BY <1>1, Zenon DEF IInv, TypeOK
<1>a. [name |-> name, devs |-> meta[p].devs] \in MetaRecord
  <2>1. meta[p].devs \in SUBSET {DevUuid[d] : d \in Disks}
    <3>1. CASE meta[p] = NoMeta
      BY <3>1 DEF NoMeta
    <3>2. CASE meta[p] \in [name : Names, devs : SUBSET {DevUuid[d] : d \in Disks}]
      BY <3>2
    <3> QED
      BY <1>3, <3>1, <3>2 DEF MetaRecord
  <2> QED
    BY <2>1, Zenon DEF MetaRecord
<1>b. [name |-> name, nodes |-> pools[p].nodes] \in PoolRecord
  BY <1>3 DEF PoolRecord
<1>4. PICK m \in MetaRecord : m = [name |-> name, devs |-> meta[p].devs] /\ m.devs = meta[p].devs
  BY <1>a
<1>5. meta' \in [Pools -> MetaRecord] /\ \A q \in Pools : meta'[q].devs = meta[q].devs
  <2>1. meta' = [meta EXCEPT ![p] = m] \/ meta' = meta
    BY <1>1, <1>3, <1>4
  <2> QED
    BY <1>3, <1>4, <2>1
<1>6. PICK v \in PoolRecord : v = [name |-> name, nodes |-> pools[p].nodes] /\ v.nodes = pools[p].nodes /\ v.name = name
  BY <1>b
<1>7. /\ DOMAIN pools' = DOMAIN pools
      /\ \A q \in DOMAIN pools : pools'[q] \in PoolRecord /\ pools'[q].nodes = pools[q].nodes
  <2>1. CASE pools' = Insert(Drop(pools, p), p, v)
    <3>1. DOMAIN Drop(pools, p) = DOMAIN pools \ {p} /\ \A q \in DOMAIN pools \ {p} : Drop(pools, p)[q] = pools[q]
      BY DEF Drop
    <3>a. PICK f : f = Drop(pools, p)
      OBVIOUS
    <3>b. /\ DOMAIN f = DOMAIN pools \ {p} /\ \A q \in DOMAIN f : f[q] = pools[q] /\ f[q].name # v.name
          /\ pools' = Insert(f, p, v)
      BY <1>1, <1>6, <2>1, <3>1, <3>a
    <3>2. DOMAIN pools' = DOMAIN pools /\ pools'[p] = v /\ \A q \in DOMAIN pools : q # p => pools'[q] = pools[q]
      BY <1>1, <3>b, Zenon DEF Insert
    <3> QED
      BY <1>6, <3>2 DEF IInv, TypeOK
  <2> QED
    BY <1>1, <1>6, <2>1 DEF IInv, TypeOK
<1>8. TypeOK'
  BY <1>2, <1>5, <1>7, Zenon DEF IInv, TypeOK
<1>9. OnePlacePerPool'
  BY <1>2, <1>7 DEF IInv, OnePlacePerPool
<1>10. PoolsAreWhole'
  BY <1>5, <1>7 DEF IInv, TypeOK, PoolsAreWhole
<1>11. NumsUnique'
  BY <1>2 DEF IInv, NumsUnique
<1> QED
  BY <1>7, <1>8, <1>9, <1>10, <1>11 DEF IInv

----------------------------------------------------------------------------
LEMMA NextIInv == IInv /\ [Next]_vars => IInv'
<1> SUFFICES ASSUME IInv, [Next]_vars PROVE IInv'
  BY Zenon
<1>1. CASE Start
  BY <1>1, StartIInv
<1>2. CASE \E n \in Nodes : Plug(n) \/ Unplug(n)
  BY <1>2, MoveIInv
<1>3. CASE \E n \in Nodes : Handle(n)
  BY <1>3, HandleIInv
<1>4. CASE \E p \in Pools : Destroy(p)
  BY <1>4, DestroyIInv
<1>5. CASE \E p \in Pools, name \in Names : Rename(p, name)
  BY <1>5, RenameIInv
<1>6. CASE \E p \in Pools, name \in Names, N \in SUBSET Nodes : Create(p, name, N)
  BY <1>6, CreateIInv, Zenon
<1>7. CASE \/ Listen \/ Stop \/ \E p \in Pools : Unlock(p)
           \/ \E p \in Pools, name \in Names, N \in SUBSET Nodes : CreateFails(p, name, N)
  BY <1>7, OtherIInv, Zenon
<1>8. CASE UNCHANGED vars
  BY <1>8, DevicesMoveIInv DEF vars, engine, IInv, TypeOK, NumsUnique
<1> QED
  BY <1>1, <1>2, <1>3, <1>4, <1>5, <1>6, <1>7, <1>8 DEF Next, Handle

(* The invariant is inductive.                                             *)
THEOREM EngineInvariance == Spec => []IInv
BY InitIInv, NextIInv, PTL DEF Spec

(* Every variable keeps its type.                                          *)
THEOREM EngineTypeCorrect == Spec => []TypeOK
<1>1. IInv => TypeOK
  BY DEF IInv
<1> QED
  BY <1>1, EngineInvariance, PTL

(* No interleaving of events, commands and restarts puts a pool UUID in    *)
(* two of pools, errored_pool_devices and hopeless_device_sets.            *)
THEOREM OnePlaceForEachPool == Spec => []OnePlacePerPool
<1>1. IInv => OnePlacePerPool
  BY DEF IInv
<1> QED
  BY <1>1, EngineInvariance, PTL

(* Every pool that try_setup_pool puts in the table is on exactly the      *)
(* devices that its metadata names.                                        *)
THEOREM PoolsStayWhole == Spec => []PoolsAreWhole
<1>1. IInv => PoolsAreWhole
  BY DEF IInv
<1> QED
  BY <1>1, EngineInvariance, PTL

(* A daemon that is down has no pools.                                     *)
DownEmpty == daemon = "down" => DOMAIN pools = {}

LEMMA DownHasNoPools == Spec => []DownEmpty
<1>1. Init => DownEmpty
  BY DEF Init, DownEmpty, Empty
<1>2. DownEmpty /\ [Next]_vars => DownEmpty'
  <2> SUFFICES ASSUME DownEmpty, [Next]_vars PROVE DownEmpty'
    OBVIOUS
  <2>1. CASE Stop
    BY <2>1 DEF Stop, DownEmpty, Empty
  <2>2. CASE Start \/ Listen
    BY <2>2 DEF Start, Listen, DownEmpty
  <2>3. CASE \E n \in Nodes : Handle(n)
    BY <2>3, Zenon DEF Handle, Ignore, HandleAdd, HandleRemove, Take, DownEmpty
  <2>4. CASE \/ UNCHANGED vars \/ \E n \in Nodes : Plug(n) \/ Unplug(n)
             \/ \E p \in Pools : Unlock(p)
             \/ \E p \in Pools, name \in Names, N \in SUBSET Nodes : CreateFails(p, name, N)
    BY <2>4, Zenon DEF vars, Plug, Unplug, Move, Unlock, CreateFails, engine, DownEmpty
  <2>5. CASE \/ \E p \in Pools : Destroy(p)
             \/ \E p \in Pools, name \in Names : Rename(p, name)
             \/ \E p \in Pools, name \in Names, N \in SUBSET Nodes : Create(p, name, N)
    BY <2>5, Zenon DEF Destroy, Rename, Create, CreateOn, Command, DownEmpty
  <2> QED
    BY <2>1, <2>2, <2>3, <2>4, <2>5 DEF Next, Handle
<1> QED
  BY <1>1, <1>2, PTL DEF Spec

(* Only destroy_pool and the end of the daemon take a pool from the table: *)
(* no insertion evicts one.                                                *)
THEOREM OnlyDestroyRemoves == Spec => PoolsOnlyLeaveDestroyed
<1> DEFINE Gone(p) == p \notin DOMAIN pools' =>
                        daemon' = "down" \/ \A n \in pools[p].nodes : owner'[n.disk] # p
<1>1. ASSUME IInv, DownEmpty, Next, NEW p \in DOMAIN pools
      PROVE  Gone(p)
  <2>0. IInv /\ TypeOK
    BY <1>1 DEF IInv
  <2>1. CASE \E n \in Nodes : Handle(n)
    BY <2>0, <2>1, HandleIInv
  <2>2. CASE \E q \in Pools, name \in Names : Rename(q, name)
    BY <2>0, <2>2, RenameIInv
  <2>3. CASE \E q \in Pools, name \in Names, N \in SUBSET Nodes : Create(q, name, N)
    BY <2>0, <2>3, CreateIInv, Zenon
  <2>4. ASSUME NEW q \in Pools, Destroy(q), p \notin DOMAIN pools'
        PROVE  \A n \in pools[p].nodes : owner'[n.disk] # p
    <3>1. PICK D \in SUBSET {n.disk : n \in pools[q].nodes} :
                /\ owner' = [d \in Disks |-> IF d \in D THEN NoPool ELSE owner[d]]
                /\ \/ D = {n.disk : n \in pools[q].nodes} /\ pools' = Drop(pools, q)
                   \/ Faults /\ pools' = pools
      BY <2>0, <2>4, DestroyIInv
    <3>2. DOMAIN Drop(pools, q) = DOMAIN pools \ {q}
      BY DEF Drop
    <3>3. p = q /\ D = {n.disk : n \in pools[p].nodes}
      BY <2>4, <3>1, <3>2
    <3>4. p \in Pools /\ pools[p].nodes \subseteq Nodes
      BY <2>0, Zenon DEF TypeOK, PoolRecord
    <3> QED
      BY <3>1, <3>3, <3>4, DeviceSetAssumption, EngineAssumption, Zenon
  <2>5. CASE Start \/ Stop
    BY <1>1, <2>5 DEF Start, Stop, DownEmpty
  <2>6. CASE \/ Listen \/ \E q \in Pools : Unlock(q)
             \/ \E n \in Nodes : Plug(n) \/ Unplug(n)
             \/ \E q \in Pools, name \in Names, N \in SUBSET Nodes : CreateFails(q, name, N)
    BY <2>6, Zenon DEF Listen, Unlock, Plug, Unplug, Move, CreateFails, engine
  <2> QED
    BY <1>1, <2>1, <2>2, <2>3, <2>4, <2>5, <2>6, Zenon DEF Next, Handle
<1>2. IInv /\ DownEmpty /\ [Next]_vars => [\A p \in DOMAIN pools : Gone(p)]_vars
  BY <1>1
<1> QED
  BY <1>2, EngineInvariance, DownHasNoPools, PTL DEF Spec, PoolsOnlyLeaveDestroyed

----------------------------------------------------------------------------
(* The devices of a pool in the table carry its UUID.  This needs that no  *)
(* operation fails half-way: destroy_pool may wipe some devices and fail.  *)
Owned == \A p \in DOMAIN pools : \A n \in pools[p].nodes : owner[n.disk] = p

LEMMA NextOwned ==
    ASSUME ~Faults, IInv, Owned, [Next]_vars
    PROVE  Owned'
<1>0. /\ \A p \in DOMAIN pools : p \in Pools /\ pools[p].nodes \subseteq Nodes
      /\ owner \in [Disks -> Pools \cup {NoPool}]
  BY DEF IInv, TypeOK, PoolRecord
<1>1. CASE Start
  <2>1. /\ IInv'
        /\ \A p \in DOMAIN pools', n \in Nodes : n \in pools'[p].nodes => owner'[n.disk] = p
    BY <1>1, StartIInv
  <2>2. \A p \in DOMAIN pools' : pools'[p].nodes \subseteq Nodes
    BY <2>1 DEF IInv, TypeOK, PoolRecord
  <2> QED
    BY <2>1, <2>2 DEF Owned
<1>2. CASE \E n \in Nodes : Handle(n)
  <2>1. /\ DOMAIN pools \subseteq DOMAIN pools'
        /\ \A q \in DOMAIN pools : pools'[q] = pools[q]
        /\ \A q \in DOMAIN pools' \ DOMAIN pools : Whole(q, pools'[q])
    BY <1>2, HandleIInv, Zenon
  <2>2. owner' = owner
    BY <1>2 DEF Handle, Ignore, HandleAdd, HandleRemove, Take, devices
  <2> QED
    BY <2>1, <2>2 DEF Owned, Whole
<1>3. ASSUME NEW p \in Pools, Destroy(p)
      PROVE  Owned'
  <2>1. PICK D \in SUBSET {n.disk : n \in pools[p].nodes} :
          /\ owner' = [d \in Disks |-> IF d \in D THEN NoPool ELSE owner[d]]
          /\ D = {n.disk : n \in pools[p].nodes} /\ pools' = Drop(pools, p)
    BY <1>3, DestroyIInv, Zenon
  <2>2. DOMAIN pools' = DOMAIN pools \ {p} /\ \A q \in DOMAIN pools' : pools'[q] = pools[q]
    BY <2>1 DEF Drop
  <2>3. p \in DOMAIN pools
    BY <1>3 DEF Destroy
  <2>4. ASSUME NEW q \in DOMAIN pools', NEW n \in pools'[q].nodes
        PROVE  owner'[n.disk] = q
    <3>1. q \in DOMAIN pools /\ q # p /\ n \in pools[q].nodes /\ n.disk \in Disks
      BY <1>0, <2>2, <2>4, DeviceSetAssumption
    <3>2. owner[n.disk] = q
      BY <3>1 DEF Owned
    <3>3. n.disk \notin D
      BY <2>1, <2>3, <3>1, <3>2 DEF Owned
    <3> QED
      BY <2>1, <3>1, <3>2, <3>3, Zenon
  <2> QED
    BY <2>4 DEF Owned
<1>4. CASE \E p \in Pools, name \in Names : Rename(p, name)
  <2>1. /\ DOMAIN pools' = DOMAIN pools
        /\ \A q \in DOMAIN pools : pools'[q].nodes = pools[q].nodes
    BY <1>4, RenameIInv
  <2>2. owner' = owner
    BY <1>4 DEF Rename
  <2> QED
    BY <2>1, <2>2 DEF Owned
<1>5. ASSUME NEW p \in Pools, NEW name \in Names, NEW N \in SUBSET Nodes, Create(p, name, N)
      PROVE  Owned'
  <2>1. /\ DOMAIN pools' = DOMAIN pools \cup {p} /\ p \notin DOMAIN pools
        /\ pools'[p].nodes = N
        /\ \A q \in DOMAIN pools : pools'[q] = pools[q]
    BY <1>5, CreateIInv, Zenon
  <2>2. /\ owner' = [d \in Disks |-> IF d \in {n.disk : n \in N} THEN p ELSE owner[d]]
        /\ \A n \in N : owner[n.disk] = NoPool
    BY <1>5 DEF Create, CreateOn, Initialize
  <2>3. ASSUME NEW q \in DOMAIN pools, NEW n \in pools'[q].nodes
        PROVE  owner'[n.disk] = q
    <3>1. q \in Pools /\ n \in pools[q].nodes /\ n.disk \in Disks
      BY <1>0, <2>1, <2>3, DeviceSetAssumption
    <3>2. owner[n.disk] = q /\ q # NoPool
      BY <3>1, EngineAssumption DEF Owned
    <3> QED
      BY <2>2, <3>1, <3>2
  <2>4. \A n \in N : owner'[n.disk] = p
    BY <2>2, DeviceSetAssumption
  <2> QED
    BY <2>1, <2>3, <2>4 DEF Owned
<1>6. CASE Stop
  BY <1>6 DEF Stop, Empty, Owned
<1>7. CASE \/ Listen \/ \E p \in Pools : Unlock(p)
           \/ \E n \in Nodes : Plug(n) \/ Unplug(n)
           \/ UNCHANGED vars
  BY <1>7, Zenon DEF Listen, Unlock, Plug, Unplug, Move, engine, devices, vars, Owned
<1>8. ASSUME NEW p \in Pools, NEW name \in Names, NEW N \in SUBSET Nodes, CreateFails(p, name, N)
      PROVE  FALSE
  BY <1>8 DEF CreateFails
<1> QED
  BY <1>1, <1>2, <1>3, <1>4, <1>5, <1>6, <1>7, <1>8 DEF Next, Handle

(* As long as no operation fails half-way, create_pool and setup never put *)
(* a device that belongs to one running pool into another.                 *)
THEOREM PoolsShareNothing ==
    ASSUME ~Faults
    PROVE  Spec => []NodesNotShared
<1>1. Init => Owned
  BY DEF Init, Empty, Owned
<1>2. IInv /\ Owned /\ [Next]_vars => Owned'
  BY NextOwned
<1>3. IInv /\ Owned => NodesNotShared
  BY DEF Owned, NodesNotShared
<1> QED
  BY <1>1, <1>2, <1>3, EngineInvariance, PTL DEF Spec

----------------------------------------------------------------------------
(* A set as process_info_add keeps it: every LInfo has a side, and a node  *)
(* is on the side of its kind.                                             *)
Sided(i) ==
    /\ i \in LInfo
    /\ ~(i.strat = NoNode /\ i.luks = NoNode)
    /\ i.strat # NoNode => i.strat.kind = "stratis"
    /\ i.luks # NoNode => i.luks.kind = "luks"

SetOK(ds) == SetAgrees(ds) /\ \A i \in ds : Sided(i)

SetsOK == \A p \in DOMAIN errored : SetOK(errored[p])

(* One LInfo is put in place of others.                                    *)
LEMMA ReplaceOK ==
    ASSUME NEW ds, SetOK(ds), NEW rest \in SUBSET ds, NEW j, Sided(j),
           j.strat # NoNode /\ j.luks # NoNode => DevUuid[j.strat.disk] = DevUuid[j.luks.disk],
           \A k \in rest : DevUuid[DiskOf(k)] # DevUuid[DiskOf(j)],
           \A k \in rest : \/ EncryptionInfo(k) = NoEnc \/ EncryptionInfo(j) = NoEnc
                            \/ EncryptionInfo(k) = EncryptionInfo(j)
    PROVE  SetOK(rest) /\ SetOK(rest \cup {j})
<1>1. SetOK(rest)
  BY Zenon DEF SetOK, SetAgrees
<1> DEFINE S == rest \cup {j}
<1>2. \A i, k \in S : NoEnc \notin {EncryptionInfo(i), EncryptionInfo(k)} =>
                         EncryptionInfo(i) = EncryptionInfo(k)
  BY <1>1, Zenon DEF SetOK, SetAgrees
<1>3. \A i, k \in S : DevUuid[DiskOf(i)] = DevUuid[DiskOf(k)] => i = k
  BY <1>1, Zenon DEF SetOK, SetAgrees
<1>4. \A i \in S : NoNode \notin {i.strat, i.luks} => DevUuid[i.strat.disk] = DevUuid[i.luks.disk]
  BY <1>1 DEF SetOK, SetAgrees
<1>5. \A i \in S : Sided(i)
  BY <1>1 DEF SetOK
<1> QED
  BY <1>1, <1>2, <1>3, <1>4, <1>5, Zenon DEF SetOK, SetAgrees

(* DeviceSet::process_info_add.                                            *)
LEMMA AddOK ==
    ASSUME NEW ds, SetOK(ds), NEW n \in Nodes, ~Contradicts(ds, n)
    PROVE  SetOK(ProcessInfoAdd(ds, n))
<1>1. n # NoNode /\ n.kind \in {"stratis", "luks"}
  BY DeviceSetAssumption
<1>2. n.kind = "luks" => \A k \in ds : EncryptionInfo(k) = NoEnc \/ EncryptionInfo(k) = Enc[n.disk]
  BY DEF Contradicts
<1>3. \A k \in ds \ Known(ds, n) : DevUuid[DiskOf(k)] # DevUuid[n.disk]
  BY DEF Known
<1>4. CASE Known(ds, n) = {}
  <2> DEFINE j == FromInfo(n)
  <2>1. Sided(j) /\ (j.strat = NoNode \/ j.luks = NoNode) /\ DiskOf(j) = n.disk
    BY <1>1 DEF FromInfo, LInfo, DiskOf, Sided
  <2>2. IF n.kind = "luks" THEN EncryptionInfo(j) = Enc[n.disk] ELSE EncryptionInfo(j) = NoEnc
    BY <1>1 DEF FromInfo, EncryptionInfo
  <2>3. ProcessInfoAdd(ds, n) = ds \cup {j}
    BY <1>4 DEF ProcessInfoAdd
  <2>4. \A k \in ds : DevUuid[DiskOf(k)] # DevUuid[DiskOf(j)]
    BY <1>3, <1>4, <2>1
  <2> HIDE DEF j
  <2>5. \A k \in ds : \/ EncryptionInfo(k) = NoEnc \/ EncryptionInfo(j) = NoEnc
                      \/ EncryptionInfo(k) = EncryptionInfo(j)
    BY <1>2, <2>2
  <2>6. j.strat # NoNode /\ j.luks # NoNode => DevUuid[j.strat.disk] = DevUuid[j.luks.disk]
    BY <2>1, Zenon
  <2>7. SetOK(ds \cup {j})
    BY <2>1, <2>4, <2>5, <2>6, ReplaceOK
  <2> QED
    BY <2>3, <2>7
<1>5. CASE Known(ds, n) # {}
  <2>1. PICK i \in ds : DevUuid[DiskOf(i)] = DevUuid[n.disk]
    BY <1>5, Zenon DEF Known
  <2>2. Known(ds, n) = {i}
    BY <2>1 DEF Known, SetOK, SetAgrees
  <2> DEFINE j == Update(i, n)
  <2>3. /\ Sided(i)
        /\ i.strat # NoNode /\ i.luks # NoNode => DevUuid[i.strat.disk] = DevUuid[i.luks.disk]
    BY <2>1 DEF SetOK, SetAgrees
  <2>4. ProcessInfoAdd(ds, n) = (ds \ {i}) \cup {j}
    BY <2>2 DEF ProcessInfoAdd
  <2>5. /\ j \in LInfo /\ j.strat \in {i.strat, n} /\ j.luks \in {i.luks, n}
        /\ IF n.kind = "luks" THEN j.strat = i.strat /\ j.luks = n ELSE j.strat = n /\ j.luks = i.luks
    BY <2>3 DEF Update, LInfo, Sided
  <2> HIDE DEF j
  <2>6. /\ i.strat # NoNode => DevUuid[i.strat.disk] = DevUuid[n.disk]
        /\ i.luks # NoNode => DevUuid[i.luks.disk] = DevUuid[n.disk]
    BY <2>1, <2>3 DEF DiskOf, Sided
  <2>7. /\ DevUuid[DiskOf(j)] = DevUuid[n.disk]
        /\ j.strat # NoNode /\ j.luks # NoNode => DevUuid[j.strat.disk] = DevUuid[j.luks.disk]
    BY <1>1, <2>5, <2>6 DEF DiskOf
  <2>s. Sided(j)
    BY <1>1, <2>3, <2>5, Zenon DEF Sided
  <2>8. \A k \in ds \ {i} : DevUuid[DiskOf(k)] # DevUuid[DiskOf(j)]
    BY <1>3, <2>2, <2>7
  <2>9. \A k \in ds \ {i} : \/ EncryptionInfo(k) = NoEnc \/ EncryptionInfo(j) = NoEnc
                            \/ EncryptionInfo(k) = EncryptionInfo(j)
    <3>1. CASE n.kind = "luks"
      <4>1. EncryptionInfo(j) = Enc[n.disk]
        BY <1>1, <2>5, <3>1, Zenon DEF EncryptionInfo
      <4> QED
        BY <1>2, <3>1, <4>1, Zenon
    <3>2. CASE n.kind # "luks"
      <4>1. EncryptionInfo(j) = EncryptionInfo(i)
        BY <2>5, <3>2 DEF EncryptionInfo
      <4> QED
        BY <2>1, <4>1, Zenon DEF SetOK, SetAgrees
    <3> QED
      BY <3>1, <3>2
  <2>10. PICK rest \in SUBSET ds : rest = ds \ {i}
    BY Zenon
  <2>11. /\ \A k \in rest : DevUuid[DiskOf(k)] # DevUuid[DiskOf(j)]
         /\ \A k \in rest : \/ EncryptionInfo(k) = NoEnc \/ EncryptionInfo(j) = NoEnc
                            \/ EncryptionInfo(k) = EncryptionInfo(j)
    BY <2>8, <2>9, <2>10
  <2>12. SetOK(rest \cup {j})
    BY <2>7, <2>11, <2>s, ReplaceOK, Zenon
  <2> QED
    BY <2>4, <2>10, <2>12
<1> QED
  BY <1>4, <1>5

(* DeviceSet::process_info_remove.                                         *)
LEMMA RemoveOK ==
    ASSUME NEW ds, SetOK(ds), NEW n \in Nodes
    PROVE  SetOK(ProcessInfoRemove(ds, n))
<1>1. CASE Known(ds, n) = {}
  BY <1>1 DEF ProcessInfoRemove
<1>2. CASE Known(ds, n) # {}
  <2>1. PICK i \in ds : DevUuid[DiskOf(i)] = DevUuid[n.disk]
    BY <1>2 DEF Known
  <2>2. Known(ds, n) = {i}
    BY <2>1 DEF Known, SetOK, SetAgrees
  <2>3. ProcessInfoRemove(ds, n) = (ds \ {i}) \cup UpdateOnRemove(i, n)
    BY <2>2 DEF ProcessInfoRemove
  <2> DEFINE j == [i EXCEPT !.strat = NoNode]
  <2>4. \/ UpdateOnRemove(i, n) = {} \/ UpdateOnRemove(i, n) = {i}
        \/ UpdateOnRemove(i, n) = {j} /\ i.strat # NoNode /\ i.luks # NoNode
    BY Zenon DEF UpdateOnRemove
  <2>5. /\ Sided(i)
        /\ i.strat # NoNode /\ i.luks # NoNode => DevUuid[i.strat.disk] = DevUuid[i.luks.disk]
        /\ \A k \in ds \ {i} : /\ DevUuid[DiskOf(k)] # DevUuid[DiskOf(i)]
                              /\ \/ EncryptionInfo(k) = NoEnc \/ EncryptionInfo(i) = NoEnc
                                 \/ EncryptionInfo(k) = EncryptionInfo(i)
    BY <2>1 DEF SetOK, SetAgrees
  <2>6. j \in LInfo /\ j.strat = NoNode /\ j.luks = i.luks
    BY <2>5, Zenon DEF LInfo, Sided
  <2> HIDE DEF j
  <2>7. CASE UpdateOnRemove(i, n) = {} \/ UpdateOnRemove(i, n) = {i}
    <3>1. ProcessInfoRemove(ds, n) = ds \ {i} \/ ProcessInfoRemove(ds, n) = ds
      BY <2>1, <2>3, <2>7
    <3> QED
      BY <3>1 DEF SetOK, SetAgrees
  <2>8. CASE UpdateOnRemove(i, n) = {j} /\ i.strat # NoNode /\ i.luks # NoNode
    <3>1. DevUuid[DiskOf(j)] = DevUuid[DiskOf(i)] /\ EncryptionInfo(j) = EncryptionInfo(i)
      BY <2>5, <2>6, <2>8 DEF DiskOf, EncryptionInfo
    <3>2. PICK rest \in SUBSET ds : rest = ds \ {i}
      BY Zenon
    <3>3. ProcessInfoRemove(ds, n) = rest \cup {j}
      BY <2>3, <2>8, <3>2, Zenon
    <3>4. /\ \A k \in rest : DevUuid[DiskOf(k)] # DevUuid[DiskOf(j)]
          /\ \A k \in rest : \/ EncryptionInfo(k) = NoEnc \/ EncryptionInfo(j) = NoEnc
                             \/ EncryptionInfo(k) = EncryptionInfo(j)
      BY <2>5, <3>1, <3>2, Zenon
    <3>5. Sided(j) /\ j.strat = NoNode
      BY <2>5, <2>6, <2>8, Zenon DEF Sided
    <3>6. SetOK(rest \cup {j})
      BY <3>4, <3>5, ReplaceOK, Zenon
    <3> QED
      BY <3>3, <3>6, Zenon
  <2> QED
    BY <2>4, <2>7, <2>8
<1> QED
  BY <1>1, <1>2

(* The nodes of a start-up scan that do not contradict one another.        *)
LEMMA MergeOK ==
    ASSUME NEW N \in SUBSET Nodes, ~Clash(N)
    PROVE  SetOK(Merge(N))
<1>1. ASSUME NEW u, NEW k
      PROVE  \/ Side(N, u, k) = NoNode /\ OfKind(N, u, k) = {}
             \/ Side(N, u, k) # NoNode /\ Side(N, u, k) \in OfKind(N, u, k)
  <2>1. CASE OfKind(N, u, k) = {}
    BY <2>1 DEF Side
  <2>2. CASE OfKind(N, u, k) # {}
    <3>1. Side(N, u, k) \in OfKind(N, u, k)
      BY <2>2 DEF Side
    <3>2. NoNode \notin OfKind(N, u, k)
      BY DeviceSetAssumption, Zenon DEF OfKind
    <3> QED
      BY <3>1, <3>2
  <2> QED
    BY <2>1, <2>2
<1>2. ASSUME NEW i \in Merge(N)
      PROVE  \E u : /\ i = Merged(N, u) /\ ~(i.strat = NoNode /\ i.luks = NoNode)
                    /\ i.strat = NoNode \/ i.strat \in OfKind(N, u, "stratis")
                    /\ i.luks = NoNode \/ i.luks \in OfKind(N, u, "luks")
  <2>1. PICK n \in N : i = Merged(N, DevUuid[n.disk])
    BY DEF Merge
  <2> DEFINE u == DevUuid[n.disk]
  <2>2. i.strat = Side(N, u, "stratis") /\ i.luks = Side(N, u, "luks")
    BY <2>1 DEF Merged
  <2>3. n \in OfKind(N, u, "stratis") \/ n \in OfKind(N, u, "luks")
    BY DeviceSetAssumption DEF OfKind
  <2> HIDE DEF u
  <2>4. /\ i.strat = NoNode => OfKind(N, u, "stratis") = {}
        /\ i.strat = NoNode \/ i.strat \in OfKind(N, u, "stratis")
    BY <1>1, <2>2
  <2>5. /\ i.luks = NoNode => OfKind(N, u, "luks") = {}
        /\ i.luks = NoNode \/ i.luks \in OfKind(N, u, "luks")
    BY <1>1, <2>2
  <2> QED
    BY <2>1, <2>3, <2>4, <2>5 DEF u
<1>3. ASSUME NEW i \in Merge(N)
      PROVE  /\ i = Merged(N, DevUuid[DiskOf(i)])
             /\ ~(i.strat = NoNode /\ i.luks = NoNode)
             /\ i.strat # NoNode /\ i.luks # NoNode => DevUuid[i.strat.disk] = DevUuid[i.luks.disk]
             /\ i.strat # NoNode => i.strat.kind = "stratis"
             /\ i.luks # NoNode => i.luks \in N /\ i.luks.kind = "luks"
  BY <1>2, <1>3, Zenon DEF OfKind, DiskOf
<1>4. \A i, j \in Merge(N) : NoEnc \notin {EncryptionInfo(i), EncryptionInfo(j)} =>
                              EncryptionInfo(i) = EncryptionInfo(j)
  BY <1>3 DEF EncryptionInfo, Clash, OtherKeys
<1>5. \A i, j \in Merge(N) : DevUuid[DiskOf(i)] = DevUuid[DiskOf(j)] => i = j
  BY <1>3
<1>6. Merge(N) \in SUBSET LInfo
  BY MergeType, Zenon
<1>7. \A i \in Merge(N) : Sided(i)
  BY <1>3, <1>6, Zenon DEF Sided
<1> QED
  BY <1>3, <1>4, <1>5, <1>7, Zenon DEF SetOK, SetAgrees

LEMMA TrySetupOK ==
    ASSUME SetsOK, NEW p, NEW ds, SetOK(ds), TrySetup(p, ds)
    PROVE  SetsOK'
<1>1. errored' = Put(errored, p, ds) \/ errored' = Drop(errored, p)
  BY DEF TrySetup
<1>2. \A q \in DOMAIN errored' : errored'[q] = ds \/ (q \in DOMAIN errored /\ errored'[q] = errored[q])
  BY <1>1 DEF Put, Drop
<1>3. \A q \in DOMAIN errored' : SetOK(errored'[q])
  BY <1>2 DEF SetsOK
<1> QED
  BY <1>3 DEF SetsOK

LEMMA NextSetsOK == IInv /\ SetsOK /\ [Next]_vars => SetsOK'
<1> SUFFICES ASSUME IInv, SetsOK, [Next]_vars PROVE SetsOK'
  BY Zenon
<1>1. ASSUME errored' = errored \/ errored' = Empty PROVE SetsOK'
  <2>1. \A q \in DOMAIN errored' : q \in DOMAIN errored /\ errored'[q] = errored[q]
    BY <1>1, Zenon DEF Empty
  <2> QED
    BY <2>1 DEF SetsOK
<1>2. ASSUME NEW p PROVE SetOK(Errored(p))
  BY DEF Errored, SetsOK, SetOK, SetAgrees
<1>3. ASSUME NEW n \in Nodes, HandleAdd(n) PROVE SetsOK'
  <2> DEFINE p == owner[n.disk]
  <2>1. CASE Contradicts(Errored(p), n)
    <3>1. errored' = Drop(errored, p)
      BY <1>3, <2>1, Zenon DEF HandleAdd
    <3>2. \A q \in DOMAIN errored' : q \in DOMAIN errored /\ errored'[q] = errored[q]
      BY <3>1 DEF Drop
    <3> QED
      BY <3>2 DEF SetsOK
  <2>2. CASE ~Contradicts(Errored(p), n)
    <3>1. TrySetup(p, ProcessInfoAdd(Errored(p), n))
      BY <1>3, <2>2, Zenon DEF HandleAdd
    <3>2. SetOK(ProcessInfoAdd(Errored(p), n))
      BY <1>2, <2>2, AddOK
    <3> QED
      BY <3>1, <3>2, TrySetupOK, Zenon
  <2> QED
    BY <2>1, <2>2
<1>4. ASSUME NEW n \in Nodes, HandleRemove(n) PROVE SetsOK'
  <2>1. TrySetup(owner[n.disk], ProcessInfoRemove(Errored(owner[n.disk]), n))
    BY <1>4 DEF HandleRemove
  <2>2. SetOK(ProcessInfoRemove(Errored(owner[n.disk]), n))
    BY <1>2, RemoveOK
  <2> QED
    BY <2>1, <2>2, TrySetupOK
<1>5. ASSUME Start PROVE SetsOK'
  <2>1. \A p \in DOMAIN errored' : ~Clash(Found(p)) /\ errored'[p] = Merge(Found(p))
    BY <1>5 DEF Start
  <2>2. \A p \in DOMAIN errored' : SetOK(Merge(Found(p)))
    BY <2>1, MergeOK, Zenon DEF Found, IInv, TypeOK
  <2> QED
    BY <2>1, <2>2, Zenon DEF SetsOK
<1>6. ASSUME NEW n \in Nodes, Ignore(n) \/ Plug(n) \/ Unplug(n) PROVE SetsOK'
  BY <1>1, <1>6 DEF Ignore, Plug, Unplug, Move, engine
<1>7. ASSUME Listen \/ Stop \/ UNCHANGED vars PROVE SetsOK'
  BY <1>1, <1>7, Zenon DEF Listen, Stop, vars
<1>8. ASSUME NEW p \in Pools, Unlock(p) \/ Destroy(p) PROVE SetsOK'
  BY <1>1, <1>8 DEF Unlock, Destroy, engine
<1>9. ASSUME NEW p \in Pools, NEW name \in Names, Rename(p, name) PROVE SetsOK'
  BY <1>1, <1>9 DEF Rename
<1>10. ASSUME NEW p \in Pools, NEW name \in Names, NEW N \in SUBSET Nodes,
              Create(p, name, N) \/ CreateFails(p, name, N)
       PROVE  SetsOK'
  BY <1>1, <1>10, Zenon DEF Create, CreateFails, engine
<1> QED
  BY <1>3, <1>4, <1>5, <1>6, <1>7, <1>8, <1>9, <1>10 DEF Next

(* Whatever order the events of devices come in, process_info_add and      *)
(* process_info_remove keep the devices of a set in agreement: one         *)
(* encryption info, no device twice, and the two sides of a device with    *)
(* the same identifiers and under different numbers.                       *)
THEOREM SetsStayInAgreement == Spec => []DeviceSetsConsistent
<1>1. Init => SetsOK
  BY DEF Init, Empty, SetsOK
<1>2. SetsOK => DeviceSetsConsistent
  <2> SUFFICES ASSUME SetsOK PROVE DeviceSetsConsistent
    OBVIOUS
  <2>1. \A p \in DOMAIN errored : SetAgrees(errored[p])
    BY DEF SetsOK, SetOK
  <2>2. ASSUME NEW p \in DOMAIN errored, NEW i \in errored[p], i.strat # NoNode, i.luks # NoNode
        PROVE  i.strat.num # i.luks.num
    <3>1. /\ i.strat \in Nodes /\ i.strat.kind = "stratis"
          /\ i.luks \in Nodes /\ i.luks.kind = "luks"
      BY <2>2 DEF SetsOK, SetOK, Sided, LInfo
    <3>2. DevUuid[i.strat.disk] = DevUuid[i.luks.disk]
      BY <2>2, Zenon DEF SetsOK, SetOK, SetAgrees
    <3> QED
      BY <3>1, <3>2, SidesAssumption
  <2> QED
    BY <2>1, <2>2 DEF DeviceSetsConsistent
<1> QED
  BY <1>1, <1>2, NextSetsOK, EngineInvariance, PTL DEF Spec
============================================================================
