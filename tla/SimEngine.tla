----------------------------- MODULE SimEngine -----------------------------
(***************************************************************************)
(* What the Engine and Pool traits promise their callers, translated from  *)
(* the engine that implements nothing but that promise: sim_engine.  An    *)
(* engine is a record of its pools, its keyring, the encrypted pools whose *)
(* devices are locked, and the number of UUIDs given out; a pool has a     *)
(* name, its encryption information, block devices in two tiers and        *)
(* filesystems.  Each operation is a function of the engine to the action  *)
(* it reports and the engine it leaves.                                    *)
(***************************************************************************)
EXTENDS Naturals, FiniteSets, Sequences, FiniteSetsExt, TLC, Maps

CONSTANTS ValidNames,      \* names that validate_name accepts
          AbsolutePaths    \* paths that validate_paths accepts

\* The elements of a set, in some order.
Listed(S) == CHOOSE f \in Injection(1 .. Cardinality(S), S) : TRUE

None == "none"

Error(e) == [engine |-> e, ok |-> FALSE, changed |-> {}]

Identity(e) == [engine |-> e, ok |-> TRUE, changed |-> {}]

Changed(e, things) == [engine |-> e, ok |-> TRUE, changed |-> things]

IsChanged(result) == result.changed # {}

Uuids(e, n) == (e.next + 1) .. (e.next + n)

WithPool(e, uuid, pool, n) ==
  [e EXCEPT !.pools = Put(@, uuid, pool), !.next = @ + n]

Devnodes(devs) == {devs[d].path : d \in DOMAIN devs}

\* SimDev::new for each path; base is the last UUID already taken.
NewDevs(base, paths) ==
  LET order == Listed(paths)
  IN [u \in (base + 1) .. (base + Cardinality(paths)) |->
        [path |-> order[u - base], info |-> None]]

Blockdevs(pool) == pool.data @@ pool.cache

HasCache(pool) == DOMAIN pool.cache # {}

IsEncrypted(pool) == pool.key # None \/ pool.clevis # None

NameTaken(table, name) == \E u \in DOMAIN table : table[u].name = name

\* rename_pre!: what becomes of a request to give an entry a name that makes
\* the engine the one renamed.  NoSource is an answer without a change.
RenamePre(e, table, id, name, renamed) ==
  CASE id \notin DOMAIN table -> Identity(e)
    [] id \in DOMAIN table /\ table[id].name = name -> Identity(e)
    [] id \in DOMAIN table /\ table[id].name # name ->
         IF NameTaken(table, name) THEN Error(e) ELSE Changed(renamed, {id})

\* validate_name and validate_paths.
ValidName(name) == name \in ValidNames

ValidPaths(paths) == paths \subseteq AbsolutePaths

---------------------------------------------------------------------------
(* Pools and keys: impl Engine for SimEngine, SimKeyActions.               *)

\* create_pool_idempotent_or_err: the pool of that name has just these devices.
CreatePoolIdempotent(e, pool, paths) ==
  IF Devnodes(pool.data) = paths THEN Identity(e) ELSE Error(e)

CreatePool(e, name, paths, key, clevis) ==
  LET uuid == e.next + 1
      pool == [name |-> name, key |-> key, clevis |-> clevis,
               data |-> NewDevs(uuid, paths), cache |-> Empty, fss |-> Empty]
      named == {u \in DOMAIN e.pools : e.pools[u].name = name}
      refused == \/ ~ValidName(name) \/ ~ValidPaths(paths)
                 \/ key # None /\ key \notin DOMAIN e.keys
  IN CASE refused -> Error(e)
       [] ~refused /\ named # {} ->
            CreatePoolIdempotent(e, e.pools[CHOOSE u \in named : TRUE], paths)
       [] ~refused /\ named = {} ->
            IF paths = {} THEN Error(e)
            ELSE Changed(WithPool(e, uuid, pool, 1 + Cardinality(paths)), {uuid})

DestroyPool(e, uuid) ==
  CASE uuid \notin DOMAIN e.pools -> Identity(e)
    [] uuid \in DOMAIN e.pools /\ DOMAIN e.pools[uuid].fss # {} -> Error(e)
    [] OTHER -> Changed([e EXCEPT !.pools = Drop(@, uuid)], {uuid})

\* The simulator does not validate the new name of a pool.
RenamePool(e, uuid, name) ==
  RenamePre(e, e.pools, uuid, name, [e EXCEPT !.pools[uuid].name = name])

SetKey(e, key, value) ==
  IF key \in DOMAIN e.keys /\ e.keys[key] = value THEN Identity(e)
  ELSE Changed([e EXCEPT !.keys = Put(@, key, value)], {key})

UnsetKey(e, key) ==
  IF key \in DOMAIN e.keys
  THEN Changed([e EXCEPT !.keys = Drop(@, key)], {key})
  ELSE Identity(e)

---------------------------------------------------------------------------
(* Filesystems and block devices: impl Pool for SimPool.  The pool the     *)
(* operation is for is in the engine: the callers look it up first.        *)

CreateFilesystems(e, uuid, names) ==
  LET pool == e.pools[uuid]
      new  == {n \in names : ~NameTaken(pool.fss, n)}
      ids  == Uuids(e, Cardinality(new))
      order == Listed(new)
      made == [f \in ids |-> [name |-> order[f - e.next]]]
  IN IF \A n \in names : ValidName(n)
     THEN Changed(WithPool(e, uuid, [pool EXCEPT !.fss = made @@ @],
                           Cardinality(new)), ids)
     ELSE Error(e)

DestroyFilesystems(e, uuid, fs_uuids) ==
  LET gone == fs_uuids \cap DOMAIN e.pools[uuid].fss
  IN Changed([e EXCEPT !.pools[uuid].fss =
                [f \in DOMAIN @ \ gone |-> @[f]]], gone)

RenameFilesystem(e, uuid, fs, name) ==
  IF ValidName(name)
  THEN RenamePre(e, e.pools[uuid].fss, fs, name, [e EXCEPT !.pools[uuid].fss[fs].name = name])
  ELSE Error(e)

\* A name in use is reported as Identity before the origin is looked for.
SnapshotFilesystem(e, uuid, origin, name) ==
  LET pool == e.pools[uuid]
      new  == e.next + 1
  IN CASE ~ValidName(name) -> Error(e)
       [] ValidName(name) /\ NameTaken(pool.fss, name) -> Identity(e)
       [] OTHER -> IF origin \notin DOMAIN pool.fss THEN Error(e)
                   ELSE Changed(WithPool(e, uuid,
                          [pool EXCEPT !.fss = Put(@, new, [name |-> name])], 1), {new})

\* init_cache_idempotent_or_err.
InitCacheIdempotent(e, pool, paths) ==
  IF Devnodes(pool.cache) = paths THEN Identity(e) ELSE Error(e)

InitCache(e, uuid, paths) ==
  LET pool == e.pools[uuid]
      devs == NewDevs(e.next, paths)
  IN CASE ~ValidPaths(paths) \/ IsEncrypted(pool) -> Error(e)
       [] ValidPaths(paths) /\ ~IsEncrypted(pool) /\ HasCache(pool) ->
            InitCacheIdempotent(e, pool, paths)
       [] OTHER -> IF paths = {} THEN Error(e)
                   ELSE Changed(WithPool(e, uuid, [pool EXCEPT !.cache = devs],
                                         Cardinality(paths)), DOMAIN devs)

AddBlockdevs(e, uuid, paths, tier) ==
  LET pool == e.pools[uuid]
      devs == NewDevs(e.next, paths \ Devnodes(pool[tier]))
  IN IF ~ValidPaths(paths) \/ (tier = "cache" /\ ~HasCache(pool))
     THEN Error(e)
     ELSE Changed(WithPool(e, uuid, [pool EXCEPT ![tier] = devs @@ @],
                           Cardinality(DOMAIN devs)), DOMAIN devs)

SetBlockdevUserInfo(e, uuid, dev, info) ==
  LET pool == e.pools[uuid]
      tier == IF dev \in DOMAIN pool.data THEN "data" ELSE "cache"
  IN CASE dev \notin DOMAIN Blockdevs(pool) -> Error(e)
       [] dev \in DOMAIN Blockdevs(pool) /\ pool[tier][dev].info = info -> Identity(e)
       [] OTHER -> Changed([e EXCEPT !.pools[uuid] =
                      [@ EXCEPT ![tier][dev].info = info]], {dev})

---------------------------------------------------------------------------
(* Unlocking methods.  Both fields hold None or the description that is    *)
(* bound; the simulator keeps them on every data device alike.             *)

Bind(e, uuid, method, desc) ==
  LET bound == e.pools[uuid][method]
  IN CASE ~IsEncrypted(e.pools[uuid]) -> Error(e)
       [] IsEncrypted(e.pools[uuid]) /\ bound = None ->
            Changed([e EXCEPT !.pools[uuid] = [@ EXCEPT ![method] = desc]], {method})
       [] OTHER -> IF bound = desc THEN Identity(e) ELSE Error(e)

\* The other method must be bound: it is the one that is left.
Unbind(e, uuid, method) ==
  LET other == IF method = "key" THEN "clevis" ELSE "key"
  IN CASE e.pools[uuid][other] = None -> Error(e)
       [] e.pools[uuid][other] # None /\ e.pools[uuid][method] = None -> Identity(e)
       [] OTHER -> Changed([e EXCEPT !.pools[uuid] = [@ EXCEPT ![method] = None]], {method})

BindClevis(e, uuid, pin) == Bind(e, uuid, "clevis", pin)

UnbindClevis(e, uuid) == Unbind(e, uuid, "clevis")

BindKeyring(e, uuid, key) == Bind(e, uuid, "key", key)

UnbindKeyring(e, uuid) == Unbind(e, uuid, "key")

RebindKeyring(e, uuid, key) ==
  CASE e.pools[uuid].key = None -> Error(e)
    [] e.pools[uuid].key = key -> Identity(e)
    [] OTHER -> Changed([e EXCEPT !.pools[uuid].key = key], {"key"})

RebindClevis(e, uuid) ==
  IF e.pools[uuid].clevis = None THEN Error(e) ELSE Changed(e, {"clevis"})

---------------------------------------------------------------------------
(* Pools that are not set up: the simulator has none; the real engine sets *)
(* one up when a udev event completes it, unless its devices are locked or *)
(* its name is taken (modules DeviceSet and Engine have the details).      *)

UnlockPool(e, uuid) ==
  LET known == e.pools @@ e.dormant
      can == uuid \in DOMAIN known /\ IsEncrypted(known[uuid])
  IN CASE ~can -> Error(e)
       [] can /\ uuid \notin DOMAIN e.locked -> Identity(e)
       [] OTHER -> IF e.locked[uuid] \notin DOMAIN e.keys THEN Error(e)
                   ELSE Changed([e EXCEPT !.locked = Drop(@, uuid)], {uuid})

HandleEvent(e, uuid) ==
  IF \/ uuid \notin DOMAIN e.dormant \ DOMAIN e.locked
     \/ NameTaken(e.pools, e.dormant[uuid].name)
  THEN Identity(e)
  ELSE Changed([e EXCEPT !.pools = Put(@, uuid, e.dormant[uuid]),
                         !.dormant = Drop(@, uuid)], {uuid})
=============================================================================
