------------------------------- MODULE Engine -------------------------------
(***************************************************************************)
(* StratEngine and LiminalDevices: how block devices, which come and go,   *)
(* become pools.  udev reports devices one by one, and reports of          *)
(* different devices may overtake each other.  An event is judged by what  *)
(* can be read from its device when the engine gets to it, not by what was *)
(* there when it happened.  The engine is behind one lock: its operations  *)
(* are atomic with respect to one another, not to the devices.             *)
(***************************************************************************)
EXTENDS DeviceSet, Maps, Naturals, Sequences

CONSTANTS
    Pools,          \* pool UUIDs
    Names,          \* pool names
    NoPool, NoName,
    FirstPresent,   \* the nodes that are there at first ...
    FirstOwner,     \* ... the pool UUID on each disk ...
    FirstMeta,      \* ... and the metadata of each pool
    MaxSteps,       \* bound: devices moved and commands given
    MaxPending,     \* bound: events of one node not yet handled
    Faults,         \* may operations fail half-way?
    Commands,       \* may pools be created, renamed, destroyed?
    Gap,            \* may devices move between find_all and the udev monitor?
    Restarts        \* bound: number of times the daemon stops

NoMeta == [name |-> NoName, devs |-> {}]
MetaRecord == {NoMeta} \cup [name : Names, devs : SUBSET {DevUuid[d] : d \in Disks}]

ASSUME EngineAssumption ==
    /\ MaxSteps \in Nat /\ MaxPending \in Nat /\ Restarts \in Nat
    /\ {Faults, Commands, Gap} \subseteq BOOLEAN
    /\ NoPool \notin Pools /\ NoName \notin Names
    /\ FirstPresent \subseteq Nodes
    /\ \A m, n \in FirstPresent : m.num = n.num => m = n
    /\ FirstOwner \in [Disks -> Pools \cup {NoPool}]
    /\ FirstMeta \in [Pools -> MetaRecord]

VARIABLES
    present,    \* the nodes in the system
    owner,      \* the pool UUID that each disk carries
    meta,       \* what the metadata of each pool says: its name, its devices
    queue,      \* the udev events of each node that are still to be handled
    daemon,     \* "down", "scanned" (initialize has run), "up" (udev is monitored)
    pools,      \* StratEngine.pools: UUID |-> name and nodes
    errored,    \* LiminalDevices.errored_pool_devices: UUID |-> DeviceSet
    hopeless,   \* the UUIDs in LiminalDevices.hopeless_device_sets
    steps, restarts

vars == <<present, owner, meta, queue, daemon, pools, errored, hopeless, steps, restarts>>
engine == <<daemon, pools, errored, hopeless>>
devices == <<present, owner, meta>>

(* Table::insert for a UUID that is not in the table: an entry of the same *)
(* name is dropped.                                                        *)
Insert(table, p, v) ==
    [q \in {r \in DOMAIN table : table[r].name # v.name} \cup {p} |->
        IF q = p THEN v ELSE table[q]]

(* identify_block_device, and what find_all collects for pool p.           *)
Identified(n) == n \in present /\ owner[n.disk] # NoPool
Found(p) == {n \in present : Identified(n) /\ owner[n.disk] = p}

----------------------------------------------------------------------------
(* The function setup_pool in try_setup_pool, on a set all open.  The      *)
(* table tells which names are taken; ok is whether StratPool::setup works.*)

(* get_bdas finds a Stratis header on the device of i.                     *)
HeaderRead(i) ==
    \E n \in present : n.num = i.strat.num /\ n.kind = "stratis" /\ Identified(n)

(* ... and it carries the identifiers that were read before.               *)
SameIdentifiers(p, i) ==
    \E n \in present : /\ n.num = i.strat.num /\ n.kind = "stratis" /\ Identified(n)
                       /\ owner[n.disk] = p /\ DevUuid[n.disk] = DevUuid[DiskOf(i)]

(* get_metadata, the name check, get_blockdevs and the encryption check.   *)
CanSetupPart(table, p, ds) ==        \* mutant: missing devices are not noticed
    /\ ds # {} /\ meta[p] # NoMeta
    /\ \A q \in DOMAIN table : table[q].name # meta[p].name
    /\ {DevUuid[DiskOf(i)] : i \in ds} \subseteq meta[p].devs
    /\ (\A i \in ds : i.luks # NoNode) \/ (\A i \in ds : i.luks = NoNode)

CanSetupSameName(table, p, ds) ==    \* mutant: the name is not checked
    /\ ds # {} /\ meta[p] # NoMeta
    /\ {DevUuid[DiskOf(i)] : i \in ds} = meta[p].devs
    /\ (\A i \in ds : i.luks # NoNode) \/ (\A i \in ds : i.luks = NoNode)

CanSetup(table, p, ds) ==
    /\ ds # {} /\ meta[p] # NoMeta
    /\ \A q \in DOMAIN table : table[q].name # meta[p].name
    /\ {DevUuid[DiskOf(i)] : i \in ds} = meta[p].devs
    /\ (\A i \in ds : i.luks # NoNode) \/ (\A i \in ds : i.luks = NoNode)

(* try_setup_pool: where the devices go.                                   *)
Destination(table, p, ds, ok) ==
    CASE SomeClosed(ds) \/ (\E i \in ds : ~HeaderRead(i)) -> "errored"
      [] ~SomeClosed(ds) /\ (\A i \in ds : HeaderRead(i))
           /\ (\E i \in ds : ~SameIdentifiers(p, i)) -> "hopeless"
      [] OTHER -> IF ok /\ CanSetup(table, p, ds) THEN "pool" ELSE "errored"

(* The pool, on whatever now has the device numbers in ds.                 *)
NewPoolOnLuks(p, ds) ==              \* mutant: the physical side
    [name |-> meta[p].name, nodes |-> {i.luks : i \in ds}]

NewPool(p, ds) ==
    [name  |-> meta[p].name,
     nodes |-> {n \in present : n.kind = "stratis" /\ \E i \in ds : n.num = i.strat.num}]

(* The rest of block_evaluate and StratEngine::handle_event, the entry of  *)
(* pool p in errored_pool_devices having been taken out.                   *)
TrySetupKeeps(p, ds) ==              \* mutant: the entry is not taken out
    \E ok \in {TRUE, ~Faults} :
        LET to == Destination(pools, p, ds, ok)
        IN  /\ pools' = IF to = "pool" THEN Insert(pools, p, NewPool(p, ds)) ELSE pools
            /\ errored' = IF to = "errored" THEN Put(errored, p, ds) ELSE errored
            /\ hopeless' = IF to = "hopeless" THEN hopeless \cup {p} ELSE hopeless

TrySetup(p, ds) ==
    \E ok \in {TRUE, ~Faults} :
        LET to == Destination(pools, p, ds, ok)
        IN  /\ pools' = IF to = "pool" THEN Insert(pools, p, NewPool(p, ds)) ELSE pools
            /\ errored' = IF to = "errored" THEN Put(errored, p, ds) ELSE Drop(errored, p)
            /\ hopeless' = IF to = "hopeless" THEN hopeless \cup {p} ELSE hopeless

----------------------------------------------------------------------------
Init ==
    /\ present = FirstPresent /\ owner = FirstOwner /\ meta = FirstMeta
    /\ queue = [n \in Nodes |-> <<>>]
    /\ daemon = "down" /\ pools = Empty /\ errored = Empty /\ hopeless = {}
    /\ steps = 0 /\ restarts = 0

(* Devices come and go.  udev tells the daemon if it listens.              *)
Move(n, type) ==
    /\ steps < MaxSteps /\ steps' = steps + 1
    /\ Len(queue[n]) < MaxPending
    /\ daemon = "scanned" => Gap
    /\ queue' = IF daemon = "up" THEN [queue EXCEPT ![n] = Append(@, type)] ELSE queue
    /\ UNCHANGED <<owner, meta, engine, restarts>>

Plug(n) ==
    /\ Move(n, "add")
    /\ n \notin present
    /\ \A m \in present : m.num # n.num /\ (m.disk = n.disk => m.kind # n.kind)
    /\ n.kind = "stratis" => Enc[n.disk] = NoEnc
    /\ present' = present \cup {n}

(* A disk in the clear may go at any time, an encrypted one while it is    *)
(* locked, and the logical side of a disk while no pool uses it.           *)
Unplug(n) ==
    /\ Move(n, "remove")
    /\ n \in present
    /\ Enc[n.disk] # NoEnc =>
         IF n.kind = "stratis" THEN owner[n.disk] \notin DOMAIN pools
         ELSE \A m \in present : m.disk = n.disk => m = n
    /\ present' = present \ {n}

----------------------------------------------------------------------------
(* StratEngine::initialize: find_all, setup_pools and the insertions.  No  *)
(* pool sees the names of the others, and Table::insert drops an earlier   *)
(* pool of the same name: of each name one pool is kept, whichever is last.*)
Start ==
    /\ daemon = "down"
    /\ \E broken \in (IF Faults THEN SUBSET Pools ELSE {{}}) :
         LET To(p) == IF Clash(Found(p)) THEN "hopeless"
                      ELSE Destination(Empty, p, Merge(Found(p)), p \notin broken)
             Seen(to) == {p \in Pools : Found(p) # {} /\ To(p) = to}
         IN  \E kept \in SUBSET Seen("pool") :
               /\ \A p \in Seen("pool") :
                    \E q \in kept : \A r \in kept :
                       meta[q].name = meta[p].name /\ (meta[r].name = meta[p].name => r = q)
               /\ pools' = [p \in kept |-> NewPool(p, Merge(Found(p)))]
               /\ errored' = [p \in Seen("errored") |-> Merge(Found(p))]
               /\ hopeless' = Seen("hopeless")
    /\ daemon' = "scanned"
    /\ UNCHANGED <<devices, queue, steps, restarts>>

(* udev_thread creates the monitor.                                        *)
Listen ==
    /\ daemon = "scanned" /\ daemon' = "up"
    /\ UNCHANGED <<devices, queue, pools, errored, hopeless, steps, restarts>>

Stop ==
    /\ daemon # "down" /\ restarts < Restarts
    /\ daemon' = "down" /\ pools' = Empty /\ errored' = Empty /\ hopeless' = {}
    /\ queue' = [n \in Nodes |-> <<>>]
    /\ restarts' = restarts + 1
    /\ UNCHANGED <<devices, steps>>

----------------------------------------------------------------------------
(* StratEngine::handle_event on the first event of node n ...              *)
Take(n) ==
    /\ daemon = "up" /\ queue[n] # <<>>
    /\ queue' = [queue EXCEPT ![n] = Tail(@)]
    /\ UNCHANGED <<devices, daemon, steps, restarts>>

Errored(p) == IF p \in DOMAIN errored THEN errored[p] ELSE {}

(* ... which cannot be identified, or whose pool is set up or hopeless,    *)
Ignore(n) ==
    /\ Take(n)
    /\ Identified(n) => owner[n.disk] \in DOMAIN pools \cup hopeless
    /\ UNCHANGED <<pools, errored, hopeless>>

(* ... an "add" or "change" ...                                            *)
HandleAddOnce(n) ==                  \* mutant: a device that is known is not news
    /\ Take(n) /\ Head(queue[n]) = "add"
    /\ Identified(n)
    /\ LET p == owner[n.disk]
       IN  /\ p \notin DOMAIN pools \cup hopeless
           /\ IF Contradicts(Errored(p), n)
                THEN /\ hopeless' = hopeless \cup {p}
                     /\ errored' = Drop(errored, p)
                     /\ UNCHANGED pools
                ELSE IF Known(Errored(p), n) # {}
                  THEN UNCHANGED <<pools, errored, hopeless>>
                  ELSE TrySetup(p, ProcessInfoAdd(Errored(p), n))

HandleAdd(n) ==
    /\ Take(n) /\ Head(queue[n]) = "add"
    /\ Identified(n)
    /\ LET p == owner[n.disk]
       IN  /\ p \notin DOMAIN pools \cup hopeless
           /\ IF Contradicts(Errored(p), n)
                THEN /\ hopeless' = hopeless \cup {p}
                     /\ errored' = Drop(errored, p)
                     /\ UNCHANGED pools
                ELSE TrySetup(p, ProcessInfoAdd(Errored(p), n))

(* ... or a "remove", of a device that can still be read.                  *)
HandleRemove(n) ==
    /\ Take(n) /\ Head(queue[n]) = "remove"
    /\ Identified(n)
    /\ LET p == owner[n.disk]
       IN  /\ p \notin DOMAIN pools \cup hopeless
           /\ TrySetup(p, ProcessInfoRemove(Errored(p), n))

----------------------------------------------------------------------------
(* A client's request to the engine.                                       *)
Command == Commands /\ daemon = "up" /\ steps < MaxSteps /\ steps' = steps + 1

(* unlock_pool: every locked device is unlocked, up to the first failure.  *)
(* udev will report the logical devices.                                   *)
Unlock(p) ==
    /\ daemon = "up" /\ p \in DOMAIN errored
    /\ ~AllUnencrypted(errored[p])
    /\ \E T \in SUBSET {i \in errored[p] : IsClosed(i)} :
         /\ T = {i \in errored[p] : IsClosed(i)} \/ Faults
         /\ \A i \in T : i.luks \in present
         /\ LET Active(i) == \E n \in present : n.disk = i.luks.disk /\ n.kind = "stratis"
                Free(n) == \A m \in present : m.num # n.num
            IN  \E New \in SUBSET {n \in Nodes \ present : n.kind = "stratis" /\ Free(n)} :
                  /\ \A n \in New : Len(queue[n]) < MaxPending
                  /\ \A n \in New : \E i \in T : ~Active(i) /\ n.disk = i.luks.disk
                  /\ \A m, n \in New : m # n => m.num # n.num /\ m.disk # n.disk
                  /\ \A i \in T : Active(i) \/ \E n \in New : n.disk = i.luks.disk
                  /\ New # {}
                  /\ present' = present \cup New
                  /\ queue' = [n \in Nodes |-> IF n \in New THEN Append(queue[n], "add") ELSE queue[n]]
    /\ UNCHANGED <<owner, meta, engine, steps, restarts>>

(* create_pool with a name that is not in the table, on free devices that  *)
(* are not encrypted; the UUID is a new one.  Writing to a device makes    *)
(* udev report a change of it.                                             *)
CreateOn(p, name, N) ==
    /\ Command
    /\ \A q \in DOMAIN pools : pools[q].name # name
    /\ p \notin DOMAIN pools \cup DOMAIN errored \cup hopeless
    /\ meta[p] = NoMeta /\ \A d \in Disks : owner[d] # p
    /\ N # {}
    /\ \A n \in N : /\ n.kind = "stratis" /\ n \in present /\ owner[n.disk] = NoPool
                    /\ Enc[n.disk] = NoEnc /\ Len(queue[n]) < MaxPending
    /\ \A m, n \in N : DevUuid[m.disk] = DevUuid[n.disk] => m = n

Touched(N) == [n \in Nodes |-> IF n \in N THEN Append(queue[n], "add") ELSE queue[n]]
Initialize(p, D) == [d \in Disks |-> IF d \in D THEN p ELSE owner[d]]

Create(p, name, N) ==
    /\ CreateOn(p, name, N)
    /\ owner' = Initialize(p, {n.disk : n \in N})
    /\ meta' = [meta EXCEPT ![p] = [name |-> name, devs |-> {DevUuid[n.disk] : n \in N}]]
    /\ pools' = Insert(pools, p, [name |-> name, nodes |-> N])
    /\ queue' = Touched(N)
    /\ UNCHANGED <<present, daemon, errored, hopeless, restarts>>

(* StratPool::initialize fails and leaves some of the devices initialized. *)
CreateFails(p, name, N) ==
    /\ Faults
    /\ CreateOn(p, name, N)
    /\ \E D \in SUBSET {n.disk : n \in N} : owner' = Initialize(p, D)
    /\ queue' = Touched(N)
    /\ UNCHANGED <<present, meta, engine, restarts>>

(* destroy_pool of a pool without filesystems.  StratPool::destroy wipes   *)
(* the devices; if some cannot be wiped the pool goes back to the table.   *)
Destroy(p) ==
    /\ Command /\ p \in DOMAIN pools
    /\ LET mine == {n.disk : n \in pools[p].nodes}
       IN  \E D \in SUBSET mine :
             /\ D = mine \/ Faults
             /\ owner' = [d \in Disks |-> IF d \in D THEN NoPool ELSE owner[d]]
             /\ present' = {n \in present : n.disk \in D /\ n.kind = "stratis" => Enc[n.disk] = NoEnc}
             /\ IF D = mine
                  THEN pools' = Drop(pools, p) /\ meta' = [meta EXCEPT ![p] = NoMeta]
                  ELSE UNCHANGED <<pools, meta>>
    /\ UNCHANGED <<queue, daemon, errored, hopeless, restarts>>

(* rename_pool: remove, write_metadata, insert.  If the write fails the    *)
(* old name stays in the table, but the new one may be on the devices.     *)
Rename(p, name) ==
    /\ Command /\ p \in DOMAIN pools
    /\ \A q \in DOMAIN pools : pools[q].name # name
    /\ \/ /\ meta' = [meta EXCEPT ![p] = [name |-> name, devs |-> meta[p].devs]]
          /\ pools' = Insert(Drop(pools, p), p, [name |-> name, nodes |-> pools[p].nodes])
       \/ /\ Faults
          /\ \/ meta' = [meta EXCEPT ![p] = [name |-> name, devs |-> meta[p].devs]]
             \/ UNCHANGED meta
          /\ UNCHANGED pools
    /\ UNCHANGED <<present, owner, queue, daemon, errored, hopeless, restarts>>

Next ==
    \/ Start \/ Listen \/ Stop
    \/ \E n \in Nodes : Plug(n) \/ Unplug(n)
    \/ \E n \in Nodes : Ignore(n) \/ HandleAdd(n) \/ HandleRemove(n)
    \/ \E p \in Pools : Unlock(p) \/ Destroy(p)
    \/ \E p \in Pools, name \in Names : Rename(p, name)
    \/ \E p \in Pools, name \in Names, N \in SUBSET Nodes :
         Create(p, name, N) \/ CreateFails(p, name, N)

Spec == Init /\ [][Next]_vars

(* The daemon runs, and its event loop gets to every event.                *)
Handle(n) == Ignore(n) \/ HandleAdd(n) \/ HandleRemove(n)
FairSpec ==
    Spec /\ WF_vars(Start) /\ WF_vars(Listen) /\ \A n \in Nodes : WF_vars(Handle(n))

----------------------------------------------------------------------------
(* Types of the state.                                                     *)
PoolRecord == [name : Names, nodes : SUBSET Nodes]

TypeOK ==
    /\ present \subseteq Nodes
    /\ owner \in [Disks -> Pools \cup {NoPool}]
    /\ meta \in [Pools -> MetaRecord]
    /\ queue \in [Nodes -> Seq({"add", "remove"})]
    /\ daemon \in {"down", "scanned", "up"}
    /\ DOMAIN pools \subseteq Pools /\ \A p \in DOMAIN pools : pools[p] \in PoolRecord
    /\ DOMAIN errored \subseteq Pools /\ \A p \in DOMAIN errored : errored[p] \subseteq LInfo
    /\ hopeless \subseteq Pools
    /\ steps \in Nat /\ restarts \in Nat

(* A pool UUID is in at most one of pools, errored_pool_devices and        *)
(* hopeless_device_sets: LiminalDevices::invariant and the assertions with *)
(* which try_setup_pool begins.                                            *)
OnePlacePerPool ==
    /\ DOMAIN pools \cap DOMAIN errored = {}
    /\ DOMAIN pools \cap hopeless = {}
    /\ DOMAIN errored \cap hopeless = {}

(* The devices of the set ds have one encryption info and different device *)
(* UUIDs, and the two sides of an unlocked device the same identifiers.    *)
SetAgrees(ds) ==
    /\ \A i, j \in ds :
         /\ NoEnc \notin {EncryptionInfo(i), EncryptionInfo(j)} =>
              EncryptionInfo(i) = EncryptionInfo(j)
         /\ DevUuid[DiskOf(i)] = DevUuid[DiskOf(j)] => i = j
    /\ \A i \in ds :
         NoNode \notin {i.strat, i.luks} => DevUuid[i.strat.disk] = DevUuid[i.luks.disk]

(* The assertions in DeviceSet and LStratisInfo: whatever was added to and *)
(* taken from a set, its devices agree, and two sides are two devices.     *)
DeviceSetsConsistent ==
    \A p \in DOMAIN errored :
      /\ SetAgrees(errored[p])
      /\ \A i \in errored[p] :
           NoNode \notin {i.strat, i.luks} => i.strat.num # i.luks.num

(* A pool is set up with exactly the devices its metadata names, whatever  *)
(* came, went or changed places while they were collected.                 *)
PoolsAreWhole ==
    \A p \in DOMAIN pools : {DevUuid[n.disk] : n \in pools[p].nodes} = meta[p].devs

(* No two pools that are up have a device in common.                       *)
NodesNotShared ==
    \A p, q \in DOMAIN pools : p # q => pools[p].nodes \cap pools[q].nodes = {}

(* No command or event makes a running pool disappear: it leaves the table *)
(* only when it has been destroyed and each of its devices wiped.          *)
PoolsOnlyLeaveDestroyed ==
    [][\A p \in DOMAIN pools :
         p \notin DOMAIN pools' =>
             daemon' = "down" \/ \A n \in pools[p].nodes : owner'[n.disk] # p]_vars

(* The devices of pool p that are there make a pool.                       *)
Ready(p) ==
    /\ meta[p] # NoMeta
    /\ ~Clash(Found(p)) /\ ~SomeClosed(Merge(Found(p)))
    /\ CanSetup(Empty, p, Merge(Found(p)))
    /\ \A q \in DOMAIN pools \ {p} : pools[q].name # meta[p].name

(* If the devices of a pool are all there and stay, the pool comes up or   *)
(* its devices are given up as hopeless: no order of events leaves it      *)
(* waiting for ever.                                                       *)
EventuallyUp ==
    \A p \in Pools : <>[]Ready(p) => <>(p \in DOMAIN pools \cup hopeless)

(* What try_setup_pool says of name conflicts: "If there is a name         *)
(* conflict between the set of devices in devices and some existing pool,  *)
(* return an error", and so keep the devices.                              *)
NothingDropped ==
    daemon = "scanned" =>
        \A p \in Pools :
            Found(p) # {} => p \in DOMAIN pools \cup DOMAIN errored \cup hopeless
============================================================================
