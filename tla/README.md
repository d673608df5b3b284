# stratisd: TLA+ models and proofs

stratisd manages pools of block devices. It keeps the metadata of a pool on the devices of the pool themselves, keeps the metadata of the
filesystems of a pool in a small volume of that pool, and finds both again after any crash or restart, with the devices coming and going under
it. The modules in this directory model the parts of the engine (`src/src/engine/strat_engine`) that make this work, and the daemon around it: the
D-Bus and JSON-RPC interfaces, the threads that wait for events, and the locks between them. TLC checks the models on small instances; TLAPS proves
the most important properties for all instances. `PROJECT.json` lists the parts of the system, the runs, the source
lines behind each definition, the hazards and the theorems.

## The system and its parts

| Part | State | Operations | What is hard about it | Module |
|---|---|---|---|---|
| Metadata regions (`metadata/mda.rs`, `bda.rs`, `blockdevmgr.rs`, `liminal/setup.rs`) | two regions with a copy each on every device, their headers in memory, the time of the last save | save, load, add devices, set up | a save goes to a few devices only, one write after the other; crash or write error at any point | `MdaRegions`, `PoolMetadata` |
| Static header (`metadata/static_header.rs`) | two signature blocks | initialize, wipe, identify, repair | torn, rotten, unreadable blocks; a repair that restores the wrong one | `StaticHeader` |
| Device sets, liminal devices (`liminal/*`) | the sets of devices of pools that are not up; sets that were given up | add and remove of a device, scan, unlock, set up a pool | events of devices overtake one another and come late; device numbers are reused | `DeviceSet`, `Scan`, `Engine` |
| Engine (`engine.rs`, `stratis/run.rs`, `udev_monitor.rs`) | the table of pools | start, stop, create, destroy, rename, unlock | half-failed commands; one place for each pool | `Engine` |
| Table (`engine/structures.rs`) | map from names to UUIDs, map from UUIDs to items | insert, remove | evictions by name and by UUID at once | `Table`, `NameTable` |
| Backstore, thin pool (`pool.rs`, `backstore/*.rs`, `thinpool/thinpool.rs`) | sectors given out by each layer, metadata on disk, the kernel's thin pool | create, add devices, add a cache, handle events, set up | each layer can refuse after the one below has given; crash before the save | `PoolSpace` |
| Filesystems (`thinpool/*`) | table of filesystems, thin ids, files of the metadata volume (MDV), thin devices | create, snapshot, rename, grow, destroy, set up | ids are counted anew at each start; files and devices outlive one another | `Filesystems` |
| Encryption (`backstore/crypt/*`, `keys.rs`) | LUKS2 headers, cached encryption info, the keyring | bind, unbind, rebind, add, set up | loops over devices that are rolled back; a cache beside what is on disk | `Encryption` |
| Range allocator, segments (`backstore/range_alloc.rs`, `backstore/shared.rs`, `alloc_space`) | used segments of each device, the segments of the two tiers | insert, request, complement, coalesce, record, read back | off-by-one at segment borders; a sector in another place after a restart | `Segments`, `RangeAllocator`, `PoolDevices` |
| Simulator engine (`sim_engine`) | the tables of pools, filesystems, devices, keys | all engine operations | is the promise that the interfaces rely on | `SimEngine` |
| Locks (`structures.rs`) | holders and queue of a lock | acquire, release, give up | who waits for whom | `Locks`, `SharedEngine` |
| D-Bus (`dbus_api`) | tree of objects, queue of changes, threads of calls | method calls, additions, removals, announcements | the engine changes under one lock, the tree later under another | `Dbus` |
| JSON-RPC (`jsonrpc`) | listening socket, its readiness, tasks of requests | connect, accept, serve, unlock with a prompt | readiness is reported on an edge; requests that lock the engine twice | `Rpc` |
| Daemon (`stratis/run.rs`, `dm.rs`, `udev_monitor.rs`, `ipc_support`) | threads, tasks, channels, the phase of the shutdown | udev events, device-mapper events, signal | lost wake-ups; an exit while locks are held | `Daemon` |
| Programs, names, external commands | – | – | conversion and I/O | not modelled |

The engine is behind one lock (`Lockable`), so a command or an event is one step with respect to other commands; `Daemon` has that lock and what goes
on around it, and the other modules what goes on beneath it. A command is not one step with respect to the devices, the kernel, the udev daemon or a
crash, and that is where those models split it. The parts meet as follows. `Engine` sees the metadata of a pool as what `PoolMetadata` shows
`get_metadata` to return, and a disk's owner as what `StaticHeader` shows the signature blocks to say. `DeviceSet` is used by `Scan` (the start-up
scan, which gets all devices at once in any order) and by `Engine` (events, one by one); its `Merge` and `Clash` say what both must come to. `Engine`
takes the table of pools as a function, which `NameTable` justifies and `Table` implements. `PoolSpace` takes the writing of the metadata as one step,
which `CommittedOnDisk` and `FullViewNeverStale` of `PoolMetadata` justify as long as saves are stamped in order (`ordered`). `PoolDevices` runs
`PoolSpace` with the real ranges beneath its counts: each of its actions is an action of `PoolSpace` together with what the tiers do in it. `Dbus` and
`Rpc` call `SimEngine`, the engine reduced to what its traits promise. `Encryption` decides when a set of locked devices contradicts itself, which is
`OtherKeys` of `DeviceSet`.

## The modules

**`MdaRegions`, `PoolMetadata`.** A disk has regions 1 and 2 and their copies 3 and 4, each with a header (time, checksum) and data. A payload is the
number of the save that wrote it, so that "older" can be said; the checksum is the payload it belongs to, so that a torn region is one whose data
differ. `BeginSave` reads a clock that may show any time, chooses the stamp and the devices; `SaveFirst` and `SaveSecond` write one region and its
copy, `Fail…` are write errors, `Crash` cuts a write short. `Add`, `AddFail`, `AddCut`, `AddCrash` are the ways in which adding a device can end.
`Setup` is `setup_pool` with any set of devices that is present. `ordered` records whether every save so far was stamped later than all that was on
the devices. It becomes false only after a save that was not finished, by a clock that is set back to before it.

**`StaticHeader`.** Each block holds a header, no header, or something with a bad checksum; it may be unreadable for a while. `Decide` is
`repair_sigblocks` with the three closures its callers pass. `IdentifyAndRepair` (`dev_info`) writes what was decided; `IdentifyReadOnly`
(discovery) passes the same closure for a file that it opened for reading, and fails if there is anything to write. `DumpMetadata` passes one that does
nothing, but the handling of an unreadable block tries to write all the same.

**`DeviceSet`, `Scan`, `Engine`.** A node is a disk under a device number, as a Stratis device or as a LUKS2 device. `Plug`, `Unplug` and `Touched`
put events into a queue for each node, so that events of different nodes overtake one another. `HandleAdd` and `HandleRemove` are `block_evaluate`
and look at what the node shows when they run. `TrySetup` is `try_setup_pool`, with its three destinations. `Create`, `CreateFails`, `Destroy`,
`Rename` and `Unlock` are the commands of the engine, each with the ways in which it may fail half-way (`Faults`). Four things are simpler than in
the code. An event whose device number has gone to another disk is disregarded, where the code would look at that disk. A `Create` that fails leaves no
metadata on the disks, though some of it may have been written. An encrypted disk that is unlocked is not unplugged. And a set without data devices is
not made hopeless, for no set of the model lacks them.

**`Table`, `NameTable`.** `Table` has the two maps and follows the five cases of `insert` with every `expect` and `assert` as a condition whose
failure sets `panicked`. `NameTable` is the abstract table: a set of entries with unique names and UUIDs, and what an insertion evicts. `IsNameTable`
says that the first implements the second.

**`PoolSpace`.** The sectors of the cap device are numbered; each of the four devices of the thin pool has a set of them. `Request` is
`Backstore::request` with its halving loop. `CheckMeta`, `CheckData` and `CheckWater` are one round of `do_check`. A failure in each layer (`Faults`)
leaves the accounts as the code leaves them, and `met` remembers that it happened. A failing `extend_cap_device` (`CapFails`) is one that was to add
segments. `Fits` computes with 64 bits and wraps around, as a release build does; a debug build would panic there. `Recoverable` is what `setup`
demands of the saved metadata.

**`Segments`, `RangeAllocator`, `PoolDevices`.** The `BTreeMap` of `PerDevSegments` is the set of its pairs, the start and the length of a used range.
`Insert` is `insert` with its checks against the neighbours on both sides, `Complement` the free ranges, `Request` what `RangeAllocator` takes of
them. `PoolDevices` gives every data and cache device such an allocator, whose first range is the device's own metadata. `AllocSpace` goes over the
devices in order; `Coalesce` joins segments that touch; `record` is what the saved metadata say, and `SetupPool` makes the allocators again from it. A
place on the cap device is a place in the list of segments, so a list that comes back in another order is data in another place.

**`Filesystems`.** A command goes through the steps at which it can fail or be cut off: the thin device, the format, the temporary file, the rename.
`thin` records whose data is on a thin device, which no state of stratisd does; `acked` records what a command reported. `Setup` reads what is left.

**`Encryption`.** Each device has a LUKS2 header: the keyring token, the passphrase of its keyslot, passphrases of keyslots that no token refers to,
the Clevis token with its thumbprint, and the Stratis token. `ClevisBind` … `KeyringRebind` give the set of outcomes of an operation on one device:
done, failed, or failed partway (`torn`). `OperationDone` … `RollbackFails` are the rounds of `operation_loop` and `rollback_loop`. A Clevis
configuration is that of one Tang server, whose key may be rotated at any time; `rotated` records that this happened during a command. `Crash` is the
death of the daemon, which the code has no line for.

**`Locks`, `SimEngine`, `SharedEngine`.** A lock has its readers, its writer and a queue; `Acquire` joins the queue unless the lock is free and nobody
waits, `Release` hands it to the front, which is how tokio's `Mutex` and `RwLock` work. `SimEngine` has an operator for every operation of
the simulator: a function from the engine to the new engine, whether it succeeded, and what it reports as changed. Two operators go beyond the
simulator, which has no devices to find: `UnlockPool` and `HandleEvent` set up a pool that was dormant, as the real engine does.

**`Dbus`.** A thread that serves a call waits for the tree's read lock (`Receive`, `Dispatch`), looks up the objects, waits for the engine (`Execute`),
and sends messages for the tree; `destroy_pool` and `rename_pool` send theirs after unlocking the engine (`LatePush`), and a call for all
properties locks the engine once for each (`FetchProperty`). The tree handler (`TreeRecv`, `TreeApply`, `TreeExit`) applies the messages under the
write lock. An object keeps the name and devnode that the clients have last heard, since they cache properties between signals.

**`Rpc`.** A client connects if the backlog has room, the reactor turns an arrival into readiness, the server accepts one connection and then clears
the readiness it saw. The task of a request may lock the engine several times: `pool unlock` of a given pool looks up its key description,
sets the key if a passphrase came with the request, and unlocks. A client may vanish before its request is read; one that vanishes later misses its
reply, and nothing else changes.

**`Daemon`.** Runs `Dbus` or `Rpc` beside the udev thread, the udev task, the device-mapper task and the signal. `dm` has the events that the kernel
has counted for each pool, the count that the descriptor was armed with, and the counts that the engine has recorded (`watched_dev_last_event_nrs`).
`arm_poll`, `list_devices` and the `event_on` of any pool may fail. `Shutdown` drops the runtime: tasks are cancelled where they
wait and give up the locks they hold, threads run to their end.

`Maps` has the hash map operations. The modules whose names begin with `MC` give the constants their values and the symmetries. A definition that
no specification uses and that stands right before another of its kind is a plausible mistake in that other one; the properties are tried against
it.

## The runs

| Run | Bounds | States | What it shows |
|---|---|---|---|
| `pool_metadata_faults` | two devices, the pool begins on one; a save writes to one device; three saves; the clock shows one of two times at each save | 272,133 | With write errors, failed additions and crashes between any two writes: the check "Overwriting newer data" never fires (`SaveNeverRejected`), and a device can lose its newest data only while a first copy is written (`TornOnlyInFirstCopy`), whatever the clock does. As long as `ordered`, what a save reported stays on disk (`CommittedOnDisk`), and all devices together never show an older state (`FullViewNeverStale`). |
| `static_header` | two identities, three times, three faults | 18,535 | One good block is enough for `dev_info` unless its repair fails to write, while discovery needs two (`OneGoodBlockIsEnough`); a wiped device stays wiped, an old header is never preferred to a new one if the clock is not set back between two initializations of a device, and a repair leaves nothing to be repaired. |
| `engine_faults` | four plain disks, of which one may come back under another number and another take its number, three pool UUIDs, two names; four moves or commands; one restart; events lost before the monitor exists | 69,777 | A pool UUID is in one place (`OnePlacePerPool`), pools are set up whole (`PoolsAreWhole`), and leave only when destroyed (`PoolsOnlyLeaveDestroyed`), also if commands fail half-way. |
| `engine_luks` | two encrypted disks of a pool and a third with other keys; five moves; two events pending for each node | 18,407 | The assertions on device sets hold (`DeviceSetsConsistent`), and a pool whose devices are all there and stay comes up or is given up (`EventuallyUp`). |
| `filesystems` | three UUIDs, two names, thin ids 0 and 1, four commands, every failure | 68,584 | No filesystem is ever on the thin device of another (`OwnThinDevice`), and one that a command reported keeps its file, its name and its device until it is destroyed (`AckedSurvives`). All files are of one length here. |
| `pool_space` | two data devices of 11 sectors and two cache devices, each behind two sectors of metadata, blocks of 2 and 1 sectors, three commands, every failure | 320,256 | No sector is given out twice, what is on disk is never contradicted, it passes `check_metadata`, a pool at rest can be set up again, all space that can be granted is granted, and the check ends. The allocators of the devices hold exactly the segments of the tiers (`SegmentsAccounted`), and no sector of the cap device changes its place over a restart (`SectorsStayPut`). |
| `encryption` | three devices, two keys, two passphrases, two Tang keys, three commands | 1,956,981 | No device is locked out, the cached bindings are those on disk, devices are bound alike between commands (`DevicesAlike`), and a command takes effect on all of them or on none (`AllOrNothing`). The last two except a rollback that failed, a call that failed partway on a device, and a daemon that died in a command; and they compare thumbprints only if no Tang key was rotated during a command and no `rebind_clevis` was rolled back. Keyslots are not compared. |
| `daemon` | two threads of D-Bus calls or two JSON-RPC clients; a pool, a locked pool and one whose devices appear; nine mixes of up to three changing calls, any number of reading ones, udev events, device-mapper events and a signal | 42,255 | No guard of a lock is lost or left behind, also by tasks that are cancelled (`GuardsAccounted`). No filesystem or device is in the tree without its pool (`ParentInTree`). When the messages are through, the tree is what the engine has (`TreeConverges`). Every call is answered however many others come (`CallsAnswered`), every accepted client is served (`RequestsServed`), every device-mapper event is followed by a round of `process_dm_event` that begins after it and, unless it fails, leaves no pool behind (`EventsNoticed`), and the daemon ends when told to (`ShutdownCompletes`). |
| `dbus_pool_name` | as `daemon`, two renames of a pool | – | Violation: the clients do not hear the new name of a pool. |
| `filesystems_temp` | one filesystem, a long and two short names | – | Violation: a left-over temporary file is written over without being truncated, and the file that it becomes does not parse. |
| `pool_space_cache` | as `pool_space`, no failure | – | Violation: after `init_cache` the thin pool is not on the device that the backstore presents, and the next check panics. |
| `encryption_stale` | as `encryption`, two commands | – | Violation: after a rolled back `rebind_clevis` the infos of the devices in memory differ. |

*Bounds.* Each bound is the smallest at which the cases that the module is about occur together. Two devices are the fewest of which a save can miss
one; three saves are one more than there are regions, so a region is written again. With two clock readings a save can be stamped the same as an
unfinished one, or earlier. Two thin ids are exhausted by a failed and a successful creation, and three UUIDs leave one for a filesystem that takes an
id over. Eleven sectors are enough for an initial pool, for two extensions of the data device, and for a remainder smaller than a block. Three
encrypted devices are the fewest for which one is done, one fails and one is not reached. Three commands allow a change, a failed change and an
addition. Two threads of calls and the tree handler are the fewest with which a reader, a waiting writer and a reader behind it occur together, and
two clients the fewest of which one arrives while the other is accepted. Three changing calls leave one to come between the change and the message of
another; calls that cannot be told apart by the tree are made by themselves. Two device-mapper events are one more than the one being handled, and two
pools the fewest of which one fails after the other is done. Deadlock is not checked where the bounds on commands end the behaviour; `static_header`
and `daemon` check it, the latter with an explicit step for a daemon that waits for its clients or has ended.

*Fairness.* `EventuallyUp` assumes that the daemon starts, gets to listen, and handles every queued event in the end: the event loop of
`ipc_support` receives from an unbounded channel and takes the engine lock, which every other user gives up. No fairness is assumed of
commands or devices. The run is without the gap between the scan and the monitor (`run.rs:64`), in which an event is lost for good and with it, perhaps,
the pool. `CheckTerminates` assumes that the check goes on, which is a loop of the daemon itself. `daemon` assumes weak fairness of each thread and
task of the daemon by itself: tokio polls every task that was woken, the kernel schedules every thread, and the locks are first come, first served
(that is in the model and not assumed). Clients, the kernel's events and the signal may fail to come. No fairness is assumed of crashes, failures or
users.

## The theorems

The constants of the theorems are arbitrary (any devices, pools, names, sizes, faults) within the `ASSUME` of each module, which says little more
than that bounds are naturals and that markers such as `NoPool` are not in the sets they mark the absence from.

- **`PoolMetadataProofs`.** `TypeCorrect`, `CommittedStaysOnDisk`, `FullViewIsCurrent`, `SavesAreAccepted` and `OnlyFirstCopyTears`, for any behaviour
  of the clock; the second and third say something only as long as `ordered`. The invariant has therefore two parts, one that always holds (`Sound`)
  and one for the time that `ordered` does (`Current`). `CommittedOnDisk` is not inductive: that the older region is the one overwritten says nothing
  unless the headers in memory are those on disk and are in the order of the payloads. The invariant adds this (`HeadersOrdered`, `MemoryBounded`),
  what a save in progress has written (`SaveProgress`), and a device named by the committed payload that bears witness to it (`CommittedMarked`).
  `OnlyFirstCopyTears` needs in addition that a device without the pool's static header has never been written to (`Untouched`); the rest is that a
  region whose first copy is whole is read from it, whatever the second one holds.
- **`StructuresProofs`**, about structures that the engine is built from. Of the static header: `HeaderTypeCorrect`, `GoodBlockSuffices`,
  `WipeIsFinal`, `LatestHeaderWins`, from an invariant that ties the blocks to the headers that were begun since the last wipe and to the one written
  last (`GoodBlockSuffices` is about the answers to `dev_info` and to discovery); and `RepairsMend`, by the cases of `repair_sigblocks`. Of the
  start-up scan: `ScanOrder`, that the devices seen so far, in whatever order, make up exactly `Merge` of them, or contradict one another. Of the
  table: `TableNeverPanics`, `TableMapsInverse` and the refinement `TableIsNameTable`, from the invariant that the two maps are inverse.
- **`EngineProofs`.** `EngineTypeCorrect`, `OnePlaceForEachPool`, `PoolsStayWhole`, `OnlyDestroyRemoves`; `PoolsShareNothing` if no operation fails
  half-way; `SetsStayInAgreement`, that `DeviceSetsConsistent` holds. The invariant is the conjunction of the first three with the uniqueness of
  device numbers; `PoolsShareNothing` needs in addition that each node of a running pool carries its UUID, and `SetsStayInAgreement` that each element
  of a device set has a Stratis or a LUKS2 side and each node is on the side of its kind. That the two sides are two devices also needs
  `SidesAssumption`: an unlocked device is a device-mapper device, and its number is none that its LUKS2 side is seen under.
- **`PoolSpaceProofs`.** `SpaceTypeCorrect`, `SpaceIsDisjoint`, `SavedSpaceIsNeverReassigned`, `SavedMetadataPasses`. The invariant has an account for
  memory, one for the saved metadata, one for the kernel's thin pool, and one for the step that the daemon is at. `RestingPoolsCanBeSetUp`
  (`RestIsRecoverable`) and `AllTheSpaceIsGranted` (`AllSpaceGranted`) rest on a second invariant, `RInv`: the first one says nothing of how recent
  the metadata on disk is. It is as recent as memory unless the daemon owes a save, which it does from the first change of a check, and from the
  beginning of a creation or an addition, until the save; if nothing has failed, memory knows exactly what the thin pool has been given; and the cap
  device has all that the data tier has given up, for which reason a request that does not fit is granted from the data tier in full. Every step of
  `PoolDevices` is a step of `PoolSpace` that also says where the sectors lie, so that the theorems are about `PoolDevices` too.
- **`AllocationProofs`**, about what a pool gives out. Of the filesystems: `FilesystemsTypeCorrect`, `FilesystemsOwnTheirDevices`;
  `ReportedFilesystemsSurvive` if all files are of one length or no save is interrupted (otherwise it is false, see `filesystems_temp`). The invariant
  says of every file, temporary ones included, that the device of its id is that of its filesystem or gone, and that ids handed out are below the next
  one. Of the segments, for every set of used ranges in normal form (none empty, none overlapping or touching another, none beyond the limit) on a
  device of any size: `InsertIsExact`, that `insert` refuses a range exactly if it goes beyond the limit or overlaps, and otherwise covers its sectors
  and the old ones and no other, in normal form again; `ComplementIsExact`, that the gaps cover exactly the other sectors; `RequestTakesFree`, that
  what the allocator gives out was free, and is all of it if as much was asked for. The folds of `RangeAllocator` over several ranges are beyond the
  prover (induction) and are checked with `PoolDevices`.
- **`EncryptionProofs`.** `EncryptionTypeCorrect`, `HandlesAreExact`, `DevicesStayOpenable`. The guards of the code look at the cached info, so the
  invariant says for every device, torn ones included, that a binding the handle knows of is in the header; for those that are not torn, that a key
  description comes with a keyslot; and of the backups of a running `rebind_clevis` that they differ in the thumbprint only. `DevicesStayAlike` and
  `CommandsAreAtomic` rest on a second invariant, `CInv`: as long as nothing has failed that the code cannot undo, all devices were alike when the
  command began, and each is as it was then or as the command makes it, by its place before or after the one that the loop is at; and a handle has the
  thumbprint of its header unless the configuration had none, which is why the rollback of `unbind_clevis`, where it succeeds, restores what was
  there. Once thumbprints may differ (`Loose`), all of this is said of the key descriptions and of the presence of a Clevis binding only. They assume
  that the marker `Idle` is not a command (`IdleAssumption`).
- **`LocksProofs`** and **`DaemonProofs`.** `GuardsStayAccounted` and `NobodyStandsStill`, for any number of D-Bus threads and JSON-RPC clients, any
  calls and requests, and any engine: what a call does to the engine does not matter to the locks. `LocksProofs` is about one lock by itself. It is in
  order (`GoodLock`, `Served`) if at most one holds it exclusively and then nobody shares it, nobody waits twice or while holding it, and the front of
  the queue is kept out by those that hold the lock; `AcquireGood` and `ReleaseGood` say that asking for a guard and dropping guards or requests, any
  number of them at once, keep it so and change who has to do with the lock by exactly those who ask or drop. `DaemonProofs` goes through the steps of
  the daemon with the invariant `LInv`: both locks are in order, each is used by exactly those whose place in the code says so, and a call that is at
  the engine or has been there reads the tree. That there is no deadlock follows: whoever holds the engine can go on, for nobody asks for the tree
  while holding the engine; and if nobody uses the engine, whoever holds the tree can go on. `PartiesAssumption` says that the names of threads, tasks
  and clients differ.

Only model-checked: all liveness properties, which are beyond the prover; `ParentInTree`, `TreeConverges` and the types of the daemon, which depend on
the messages that each operation of the simulator engine leads to, built by folds over what it created; and `SegmentsAccounted` and `SectorsStayPut`,
which rest on folds over the used ranges.

## What the models say about the code

Four places differ from what a comment, an assertion or a test says of them and have a run of their own (see `findings` in `PROJECT.json`): the
name of a pool on D-Bus, which `push_pool_name_change` announces as that of a filesystem; the temporary file of `save_fs`; `init_cache` without
`set_device`; and the cached info after a rolled back `rebind_clevis`.

Two more can be seen with configurations that are kept here and are not among the runs:

- `get_metadata` "Returns an error if there is a last update time, but no metadata could be obtained from any of the devices." (`liminal/setup.rs:83`),
  but line 105 gives up as soon as the newest region cannot be read, although the other region of the same device can. With
  `PoolMetadataTorn.cfg` (module `MCPoolMetadata`) TLC finds `GetMetadataErrsOnlyIfUnreadable` violated by one crash in the first copy of a region.
- "If there is a name conflict between the set of devices in devices and some existing pool, return an error." (`liminal/liminal.rs:221`). The start-up
  scan compares with a table that is still empty, and `engine.rs:69` then inserts the pools one by one and drops what an insertion evicts. With
  `EngineNames.cfg` (module `MCEngine`) TLC finds `NothingDropped` violated by two pools of one name.

Other things are as the code has them and no property forbids them, but are worth knowing. The hazards say of some: a device whose initialization was
cut short keeps its pool from being set up; a crash in a loop over encrypted devices leaves infos that contradict one another; after a refused
extension the saved metadata does not pass `check_metadata`; a Tang key that is rotated while a binding goes from device to device leaves thumbprints
that differ, and the pool is refused at the next start although every call succeeded. Besides:

- If a save fails, or is cut off and the next start is without the devices that it has reached, and the clock is then set back to before it, the next
  save may get an earlier stamp than the unfinished one has on disk: `last_update_time` (`blockdevmgr.rs:307`) does not have its stamp. At a later
  start the unfinished save passes for the latest. After a save that
  succeeded a clock set back does no harm, for the stamp is then one nanosecond later than the last.
- A temporary file that a save of a filesystem has left behind is neither removed nor passed over when the pool is set up: `ends_with(".temp")`
  (`mdv.rs:187` and `248`) compares whole components of a path. If it does not parse, or gives a
  name or UUID a second time, the set-up of the pool fails.
- `discovery` identifies a device read-only, but passes the closure that writes. A device with a block to repair is disregarded by it.

Met while modelling and outside of the models:

- `RequestsServed` depends on the backlog of 0 that the socket listens with (`jsonrpc/server/server.rs:425`). With a longer one, a connection that
  arrives before `clear_ready` waits until the next one arrives.
- The reply to `PoolAddData` is wrapped as that of `PoolInitCache` (`jsonrpc/server/server.rs:89`), which the client reports as "Request and response
  types did not match".
- `remove_blockdevs` (`blockdevmgr.rs:221`) never looks at the first device, and what it has removed before it finds one missing stays removed,
  although line 227 says that it then "returns an error and does nothing". Its only caller removes what it has just added.

## What is not modelled, and why

- Byte layouts, checksums, JSON and UUID formats, names and paths, logging, reports and introspection: conversions that no property distinguishes.
- External commands, the kernel's device mapper, XFS and the keyring beyond success or failure: outside of the repository.
- The states of a thin pool as the kernel reports them, `thin_check` and `thin_repair`: they change what is logged, or are a command that fails.
- Clevis pins other than Tang: their configurations are interpreted without state.
- The versions of the D-Bus interfaces, which call the same functions with other argument types; getters, which are one kind of call in `Dbus`.
- The command line client beyond its connection and request; systemd units and generators; argument parsing and start-up of the programs.
