---------------------------- MODULE PoolMetadata ----------------------------
(***************************************************************************)
(* How a pool's metadata reaches its block devices and is found again.     *)
(* BlockDevMgr::save_state writes one serialized pool state to at most     *)
(* MaxNumToWrite of the pool's devices, one device after the other, each   *)
(* device's older region first and then the copy of that region.  The      *)
(* daemon may die between any two writes.  When it comes back it sees some *)
(* of the devices, reads their BDAs (get_bdas), takes the metadata with    *)
(* the latest time (get_metadata) and sets the pool up if that metadata    *)
(* names exactly the devices it sees (get_blockdevs).                      *)
(*                                                                         *)
(* Payloads are numbered in the order in which saves are attempted.        *)
(***************************************************************************)
EXTENDS MdaRegions

CONSTANTS
    Devs,            \* the block devices
    FirstDevs,       \* those the pool is created on
    Small,           \* those whose MDA is too small for the pool's metadata
    MaxNumToWrite,   \* MAX_NUM_TO_WRITE, scaled down with Devs
    MaxSaves,        \* bound: saves attempted
    MaxTime,         \* bound: the times the wall clock may show
    IOErrors,        \* may a device refuse a write while the daemon runs?
    Growing          \* may devices be added to the pool?

NoDev == "none"

ASSUME PoolMetadataAssumption ==
    /\ FirstDevs \subseteq Devs /\ FirstDevs # {} /\ Small \subseteq Devs
    /\ IsFiniteSet(Devs) /\ NoDev \notin Devs
    /\ MaxNumToWrite \in Nat \ {0}
    /\ MaxSaves \in Nat /\ MaxTime \in Nat
    /\ {IOErrors, Growing} \subseteq BOOLEAN

VARIABLES
    sig,         \* the devices that carry a static header of this pool
    disk,        \* the MDA of each device
    bda,         \* StratBlockDev.bda.regions.mda_headers of each device
    members,     \* BlockDevMgr.block_devs; {} while the pool is not set up
    last,        \* BlockDevMgr.last_update_time
    phase,       \* "down", "idle", "dirty" (metadata to be saved), "saving"
    save,        \* the save in progress
    ordered,     \* history: was each save's time later than all on the devices?
    attempts,    \* number of saves begun so far
    recorded,    \* the devices that each attempted payload names
    committed    \* the last payload whose save returned Ok

vars == <<sig, disk, bda, members, last, phase, save, ordered, attempts, recorded, committed>>
NoSave == [hdr |-> None, todo |-> {}, cur |-> NoDev, saved |-> FALSE]

----------------------------------------------------------------------------
(* get_bdas and get_metadata on the set S of devices.                      *)
GetBdasOk(S) == \A d \in S : LoadOk(disk[d])
Time(d) == LastUpdateTime(Load(disk[d]))
LatestAny(S) == S          \* mutant: any device's metadata will do
Latest(S) == {d \in S : \A e \in S : Time(e) <= Time(d)}

(* The payloads get_metadata may return; it takes the first that reads, in *)
(* the order of a hash map.                                                *)
GetMetadata(S) ==
    {LoadState(disk[d], Load(disk[d])) : d \in Latest(S)} \ {ReadError, NoData}

----------------------------------------------------------------------------
Init ==
    /\ sig = FirstDevs
    /\ disk = [d \in Devs |-> IF d \in FirstDevs
                                THEN Initialized(BlankDisk, Regions)
                                ELSE BlankDisk]
    /\ bda = [d \in Devs |-> [r \in Primary |-> None]]
    /\ members = FirstDevs
    /\ last = 0
    /\ phase = "dirty"           \* StratPool::initialize goes on to write_metadata
    /\ save = NoSave
    /\ ordered = TRUE
    /\ attempts = 0
    /\ recorded = [v \in 1 .. MaxSaves |-> {}]
    /\ committed = 0

(* Some command changes the pool; its handler ends in write_metadata.      *)
Change ==
    /\ phase = "idle"
    /\ phase' = "dirty"
    /\ UNCHANGED <<sig, disk, bda, members, last, save, ordered, attempts, recorded, committed>>

(* BlockDevMgr::add: initialize_devices, then extend block_devs.  The      *)
(* handler, StratPool::add_blockdevs, goes on to write_metadata.           *)
Add(S) ==
    /\ Growing /\ phase = "idle"
    /\ S # {} /\ S \cap sig = {}
    /\ sig' = sig \cup S
    /\ disk' = [d \in Devs |-> IF d \in S THEN Initialized(disk[d], Regions) ELSE disk[d]]
    /\ bda' = [d \in Devs |-> IF d \in S THEN [r \in Primary |-> None] ELSE bda[d]]
    /\ members' = members \cup S
    /\ phase' = "dirty"
    /\ UNCHANGED <<last, save, ordered, attempts, recorded, committed>>

(* initialize_devices stops in the middle.  BDA::initialize writes the     *)
(* static header of a device before its MDA headers, so the last device    *)
(* reached, d, may have the one and only some of the others.               *)
AddCut(S, d, done) ==
    /\ Growing /\ phase = "idle"
    /\ S \cap sig = {} /\ d \notin sig \cup S
    /\ sig' = sig \cup S \cup {d}
    /\ disk' = [e \in Devs |-> IF e \in S THEN Initialized(disk[e], Regions)
                               ELSE IF e = d THEN Initialized(disk[e], done)
                               ELSE disk[e]]

(* The daemon died there ...                                               *)
AddCrash(S, d, done) ==
    /\ AddCut(S, d, done)
    /\ phase' = "down"
    /\ members' = {}
    /\ UNCHANGED <<bda, last, save, ordered, attempts, recorded, committed>>

(* ... or an I/O error stopped it, and so did the clean-up, which logs the *)
(* failure to wipe the devices already initialized and goes on.            *)
AddFail(S, d, done) ==
    /\ IOErrors
    /\ AddCut(S, d, done)
    /\ UNCHANGED <<bda, members, last, phase, save, ordered, attempts, recorded, committed>>

(* BlockDevMgr::save_state down to choose_multiple.  The wall clock may    *)
(* stand still or go back from one save to the next: now is any time.      *)
StampTimeSame(now) == last         \* mutant: not more recent
StampTimeBefore(now) == last - 1   \* mutant: less recent
StampTime(now) == IF now <= last THEN last + 1 ELSE now
LaterThanAll(t) == \A d \in Devs, r \in Regions : disk[d].hdr[r].time < t
Candidates == members \ Small
NumToWrite == IF MaxNumToWrite < Cardinality(Candidates)
                THEN MaxNumToWrite ELSE Cardinality(Candidates)

BeginSave(now, S) ==
    /\ phase = "dirty" /\ attempts < MaxSaves
    /\ S \subseteq Candidates /\ Cardinality(S) = NumToWrite
    /\ ordered' = (ordered /\ LaterThanAll(StampTime(now)))
    /\ attempts' = attempts + 1
    /\ recorded' = [recorded EXCEPT ![attempts + 1] = members]
    /\ save' = [hdr |-> [time |-> StampTime(now), crc |-> attempts + 1],
                todo |-> S, cur |-> NoDev, saved |-> FALSE]
    /\ phase' = "saving"
    /\ UNCHANGED <<sig, disk, bda, members, last, committed>>

(* MDARegions::save_state on device d: the older region ...                *)
SaveFirst(d) ==
    /\ phase = "saving" /\ save.cur = NoDev /\ d \in save.todo
    /\ IF LastUpdateTime(bda[d]) >= save.hdr.time   \* "Overwriting newer data"
         THEN save' = [save EXCEPT !.todo = @ \ {d}] /\ UNCHANGED disk
         ELSE /\ disk' = [disk EXCEPT ![d] = SaveRegion(@, Older(bda[d]), save.hdr)]
              /\ save' = [save EXCEPT !.cur = d, !.todo = @ \ {d}]
    /\ UNCHANGED <<sig, bda, members, last, phase, ordered, attempts, recorded, committed>>

(* ... then its copy and the header in memory.                             *)
SaveSecond ==
    /\ phase = "saving" /\ save.cur # NoDev
    /\ LET d == save.cur
           r == Older(bda[d])
       IN  /\ disk' = [disk EXCEPT ![d] = SaveRegion(@, CopyOf(r), save.hdr)]
           /\ bda' = [bda EXCEPT ![d][r] = save.hdr]
    /\ save' = [save EXCEPT !.cur = NoDev, !.saved = TRUE]
    /\ UNCHANGED <<sig, members, last, phase, ordered, attempts, recorded, committed>>

(* The write stops on an I/O error: save_state on that device returns Err, *)
(* its headers in memory stay and the fold goes on to the next device.     *)
FailFirst(d) ==
    /\ IOErrors
    /\ phase = "saving" /\ save.cur = NoDev /\ d \in save.todo
    /\ \E x \in SaveRegionCut(disk[d], Older(bda[d]), save.hdr) :
         disk' = [disk EXCEPT ![d] = x]
    /\ save' = [save EXCEPT !.todo = @ \ {d}]
    /\ UNCHANGED <<sig, bda, members, last, phase, ordered, attempts, recorded, committed>>

FailSecond ==
    /\ IOErrors
    /\ phase = "saving" /\ save.cur # NoDev
    /\ \E x \in SaveRegionCut(disk[save.cur], CopyOf(Older(bda[save.cur])), save.hdr) :
         disk' = [disk EXCEPT ![save.cur] = x]
    /\ save' = [save EXCEPT !.cur = NoDev]
    /\ UNCHANGED <<sig, bda, members, last, phase, ordered, attempts, recorded, committed>>

(* The end of BlockDevMgr::save_state: Ok if one device took the write.    *)
EndSave ==
    /\ phase = "saving" /\ save.cur = NoDev /\ save.todo = {}
    /\ IF save.saved
         THEN last' = save.hdr.time /\ committed' = save.hdr.crc
         ELSE UNCHANGED <<last, committed>>
    /\ phase' = "idle"
    /\ save' = NoSave
    /\ UNCHANGED <<sig, disk, bda, members, ordered, attempts, recorded>>

(* The daemon dies.  The region being written may be left half written.    *)
Crash ==
    /\ phase # "down"
    /\ \/ UNCHANGED disk
       \/ /\ phase = "saving" /\ save.cur # NoDev
          /\ \E x \in SaveRegionCut(disk[save.cur], CopyOf(Older(bda[save.cur])), save.hdr) :
               disk' = [disk EXCEPT ![save.cur] = x]
       \/ /\ phase = "saving" /\ save.cur = NoDev
          /\ \E d \in save.todo :
               \E x \in SaveRegionCut(disk[d], Older(bda[d]), save.hdr) :
                  disk' = [disk EXCEPT ![d] = x]
    /\ phase' = "down"
    /\ save' = NoSave
    /\ members' = {}
    /\ UNCHANGED <<sig, bda, last, ordered, attempts, recorded, committed>>

(* setup_pool with the devices S that udev has reported so far.            *)
Setup(S, v) ==
    /\ phase = "down"
    /\ S \subseteq sig
    /\ GetBdasOk(S)
    /\ v \in GetMetadata(S)
    /\ recorded[v] = S
    /\ bda' = [d \in Devs |-> IF d \in S THEN Load(disk[d]) ELSE bda[d]]
    /\ members' = S
    /\ \E d \in Latest(S) : last' = Time(d)
    /\ phase' = "idle"
    /\ UNCHANGED <<sig, disk, save, ordered, attempts, recorded, committed>>

Next ==
    \/ Change \/ SaveSecond \/ FailSecond \/ EndSave \/ Crash
    \/ \E S \in SUBSET Devs : Add(S)
    \/ \E S \in SUBSET Devs, d \in Devs, done \in SUBSET Regions :
         AddCrash(S, d, done) \/ AddFail(S, d, done)
    \/ \E now \in 1 .. MaxTime, S \in SUBSET Devs : BeginSave(now, S)
    \/ \E d \in Devs : SaveFirst(d) \/ FailFirst(d)
    \/ \E S \in (SUBSET Devs) \ {{}}, v \in 1 .. MaxSaves : Setup(S, v)

Spec == Init /\ [][Next]_vars

----------------------------------------------------------------------------
(* Types of the state.                                                     *)
SaveRecord == [hdr : MDAHeader, todo : SUBSET Devs, cur : Devs \cup {NoDev},
               saved : BOOLEAN]

TypeOK ==
    /\ sig \subseteq Devs
    /\ disk \in [Devs -> Disk]
    /\ bda \in [Devs -> [Primary -> MDAHeader]]
    /\ members \subseteq Devs
    /\ last \in Nat
    /\ phase \in {"down", "idle", "dirty", "saving"}
    /\ save \in SaveRecord
    /\ ordered \in BOOLEAN
    /\ attempts \in 0 .. MaxSaves
    /\ recorded \in [1 .. MaxSaves -> SUBSET Devs]
    /\ committed \in 0 .. attempts

(* Once a save has returned Ok, its payload or one attempted later is      *)
(* complete, header and data, in some region of some device for ever:      *)
(* save_state only ever overwrites the older region of a device, whatever  *)
(* failed or was cut short before.  This needs saves that are each given a *)
(* later time than any on the devices.  save_state sees to that after a    *)
(* save that returned Ok, whose time it keeps.  One that failed, or that   *)
(* was cut short and is unknown to the next start, has left its time on    *)
(* some device only: if the clock does not go on from there, a later save  *)
(* gets no later time and the unfinished one passes for the latest.        *)
CommittedOnDisk ==
    ordered /\ committed # 0 =>
        \E d \in sig, r \in Primary :
            Loadable(disk[d], r) /\ Load(disk[d])[r].crc >= committed

(* Where every device that the last saved payload names is present,        *)
(* get_metadata returns that payload or a later one, never an older one:   *)
(* it does not matter which devices the save chose or which of them failed.*)
(* Again each save must have had a later time than any on the devices:     *)
(* otherwise get_metadata may prefer the payload of a save that was never  *)
(* finished, which is older than the one saved next.                       *)
FullViewNeverStale ==
    \A S \in SUBSET sig :
        ordered /\ committed # 0 /\ GetBdasOk(S) /\ recorded[committed] \subseteq S =>
            \A v \in GetMetadata(S) : v >= committed

(* The check "Overwriting newer data" of MDARegions::save_state never      *)
(* fires, whatever the wall clock shows: the time BlockDevMgr::save_state  *)
(* chooses, the clock's or just past last_update_time, is later than every *)
(* time in the memory of the devices it writes.                            *)
SaveNeverRejected ==
    phase = "saving" => \A d \in save.todo : LastUpdateTime(bda[d]) < save.hdr.time

(* The newest header of a device has lost its data.                        *)
Torn(d) == LoadOk(disk[d]) /\ LoadState(disk[d], Load(disk[d])) = ReadError

(* A device loses the data of its newest header only while the first copy  *)
(* of a region is being written; once save_region has returned for the     *)
(* first copy, nothing that happens to the second one can hurt.            *)
TornOnlyInFirstCopy ==
    [][\A d \in Devs : Torn(d)' /\ ~Torn(d) =>
           phase = "saving" /\ save.cur = NoDev /\ d \in save.todo]_vars

(* get_metadata's own account of its error: it "Returns an error if there  *)
(* is a last update time, but no metadata could be obtained from any of    *)
(* the devices."                                                           *)
GetMetadataErrsOnlyIfUnreadable ==
    \A S \in SUBSET sig :
        GetBdasOk(S) /\ (\E d \in S : Time(d) # 0) /\ GetMetadata(S) = {} =>
            \A d \in S, r \in Primary : ~Loadable(disk[d], r)
============================================================================
