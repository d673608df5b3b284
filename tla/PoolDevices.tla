----------------------------- MODULE PoolDevices -----------------------------
(***************************************************************************)
(* Where the space of a pool lies.  PoolSpace counts the sectors that the  *)
(* data tier gives to the cap device; here they are ranges of the block    *)
(* devices.  Every device has a range allocator, in which its own metadata *)
(* comes first; the data tier has the list of segments that the cap device *)
(* is made of, and the cache tier its two lists.  The lists are what is    *)
(* recorded, and the allocators are made again from them at a start.  A    *)
(* device is its place in the manager's vector of devices: get_blockdevs   *)
(* puts the devices back into the order in which they were recorded.       *)
(***************************************************************************)
EXTENDS PoolSpace, Sequences
LOCAL INSTANCE SequencesExt
R == INSTANCE RangeAllocator

CONSTANTS
    MetaSize,      \* BDA::extended_size: what comes before the usable sectors
    CacheDev,      \* usable sectors of a cache device
    CacheMeta,     \* CacheTier::new's meta_space
    MaxCacheSize   \* MAX_CACHE_SIZE

ASSUME PoolDevicesAssumption ==
    /\ {MetaSize, CacheDev, CacheMeta, MaxCacheSize} \subseteq Nat \ {0}
    /\ CacheMeta < CacheDev      \* "every block device must be at least one GiB"

VARIABLES
    data,      \* DataTier: the devices' allocators, and the segments
    ctier,     \* CacheTier: the allocators, the cache's and the meta segments
    record     \* the three lists as the metadata on disk have them

tiers == <<data, ctier, record>>
allVars == <<vars, tiers>>

DataLimit == MetaSize + DevSize
CacheLimit == MetaSize + CacheDev

NoData == [used |-> <<>>, segs |-> <<>>]
NoCache == [used |-> <<>>, cache |-> <<>>, meta |-> <<>>]
NoRecord == [data |-> <<>>, cache |-> <<>>, meta |-> <<>>]

----------------------------------------------------------------------------
(* StratBlockDev::new, whose allocator starts with the device's metadata   *)
(* and the segments that others are known to have.                         *)
AllocatorBare(limit, ranges) == R!NewAllocator(limit, ranges)     \* mutant: the BDA is left out
Allocator(limit, ranges) == R!NewAllocator(limit, <<<<0, MetaSize>>>> \o ranges)
NewDevice(limit) == Allocator(limit, <<>>).used

Length(list) == FoldLeft(LAMBDA n, seg : n + seg.length, 0, list)

(* BlkDevSegment.                                                          *)
OfDevice(d, ranges) == [i \in DOMAIN ranges |-> [dev |-> d, start |-> ranges[i][1], length |-> ranges[i][2]]]

(* BlockDevMgr::alloc_space for one size: the devices in their order, each *)
(* asked for what is still needed.                                         *)
AllocSpace(used, limit, needed) ==
    FoldLeft(LAMBDA a, d :
                LET r == R!Request(a.used[d], limit, needed - Length(a.segs))
                IN  [used |-> [a.used EXCEPT ![d] = r.used],
                     segs |-> a.segs \o OfDevice(d, R!Ascending(r.segs))],
             [used |-> used, segs |-> <<>>], [d \in DOMAIN used |-> d])

(* coalesce_blkdevsegs.                                                    *)
CoalesceFront(left, right) == right \o left     \* mutant: the new segments come first
Coalesce(left, right) ==
    IF left = <<>> \/ right = <<>> THEN left \o right
    ELSE LET l == Last(left)
             r == Head(right)
         IN  IF l.dev = r.dev /\ l.start + l.length = r.start
               THEN Front(left) \o <<[l EXCEPT !.length = @ + r.length]>> \o Tail(right)
               ELSE left \o right

(* DataTier::alloc.                                                        *)
Alloc(amount) ==
    LET a == AllocSpace(data.used, DataLimit, amount)
    IN  [used |-> a.used, segs |-> Coalesce(data.segs, a.segs)]

(* CacheTier::new and CacheTier::add: the cache takes all there is.        *)
CacheNew ==
    LET m == AllocSpace(<<NewDevice(CacheLimit)>>, CacheLimit, CacheMeta)
        c == AllocSpace(m.used, CacheLimit, CacheDev - CacheMeta)
    IN  [used |-> c.used, cache |-> c.segs, meta |-> m.segs]
CacheAdd ==
    LET a == AllocSpace(Append(ctier.used, NewDevice(CacheLimit)), CacheLimit, CacheDev)
    IN  [used |-> a.used, cache |-> Coalesce(ctier.cache, a.segs), meta |-> ctier.meta]

CacheTooBig ==
    IF cap.kind = "cache" THEN CacheDev + Length(ctier.cache) > MaxCacheSize
    ELSE CacheDev - CacheMeta > MaxCacheSize

(* The Recordable implementations.                                         *)
Recorded == [data |-> data.segs, cache |-> ctier.cache, meta |-> ctier.meta]

(* get_blockdevs: a device's allocator from the segments recorded for it.  *)
Restored(limit, list, d) ==
    LET mine == SelectSeq(list, LAMBDA seg : seg.dev = d)
    IN  Allocator(limit, [i \in DOMAIN mine |-> <<mine[i].start, mine[i].length>>])
RestoredData(d) == Restored(DataLimit, record.data, d)
RestoredCache(d) == Restored(CacheLimit, record.cache \o record.meta, d)

(* Every allocator can be made, DataTier::setup and CacheTier::setup find  *)
(* the devices of the segments, and the latter no space left.              *)
Restorable ==
    /\ \A d \in 1 .. devs : RestoredData(d).ok
    /\ \A i \in DOMAIN record.data : record.data[i].dev \in 1 .. devs
    /\ \A d \in 1 .. saved.caches :
        /\ RestoredCache(d).ok
        /\ R!Available(RestoredCache(d).used, CacheLimit) = 0

----------------------------------------------------------------------------
DevicesInit ==
    /\ Init
    /\ data = [NoData EXCEPT !.used = <<NewDevice(DataLimit)>>]
    /\ ctier = NoCache /\ record = NoRecord

(* What the data tier gives up in a step of PoolSpace.                     *)
GiveUp ==
    /\ \E amount \in {segs' - segs} : data' = IF amount = 0 THEN data ELSE Alloc(amount)
    /\ UNCHANGED <<ctier, record>>

Forgotten == data' = NoData /\ ctier' = NoCache

(* The end of a command that fails.                                        *)
AfterError == IF why \in {"create", "setup"} THEN Forgotten ELSE UNCHANGED <<data, ctier>>

NewPool == (New /\ GiveUp) \/ (NewFails /\ Forgotten /\ UNCHANGED record)
CheckMetaDevice == CheckMeta /\ GiveUp
CheckDataDevice == CheckData /\ GiveUp
CheckLowWater == CheckWater /\ UNCHANGED tiers
CheckFails == WaterFails /\ AfterError /\ UNCHANGED record

WriteMetadata ==
    \/ Save /\ record' = Recorded /\ UNCHANGED <<data, ctier>>
    \/ /\ SaveFails /\ AfterError
       /\ record' = IF saved' = saved THEN record ELSE Recorded

Simple == (EventOn \/ SetUserInfo) /\ UNCHANGED tiers

AddData ==
    /\ AddDatadevs
    /\ data' = [data EXCEPT !.used = Append(@, NewDevice(DataLimit))]
    /\ UNCHANGED <<ctier, record>>

(* The tier is the backstore's once the cache device has been made.        *)
AddCache ==
    /\ ~CacheTooBig
    /\ \/ InitCache /\ ctier' = IF cap'.kind = "cache" THEN CacheNew ELSE ctier
       \/ AddCachedevs /\ ctier' = CacheAdd
    /\ UNCHANGED <<data, record>>

RefuseCacheDevice == CacheTooBig /\ RefuseCache /\ UNCHANGED tiers

Stop == Crash /\ Forgotten /\ UNCHANGED record

SetupPool ==
    /\ Setup /\ Restorable
    /\ data' = [used |-> [d \in 1 .. devs |-> RestoredData(d).used], segs |-> record.data]
    /\ ctier' = [used |-> [d \in 1 .. caches |-> RestoredCache(d).used],
                 cache |-> record.cache, meta |-> record.meta]
    /\ UNCHANGED record

DevicesNext ==
    \/ NewPool \/ CheckMetaDevice \/ CheckDataDevice \/ CheckLowWater \/ CheckFails
    \/ WriteMetadata \/ Simple \/ AddData \/ AddCache \/ RefuseCacheDevice \/ Stop \/ SetupPool

(* What the data tier does never keeps a step of the check from happening. *)
DevicesSpec ==
    /\ DevicesInit /\ [][DevicesNext]_allVars
    /\ WF_vars(CheckMeta) /\ WF_vars(CheckData) /\ WF_vars(CheckWater)

----------------------------------------------------------------------------
(* map_to_dm: the place of each sector of a linear device.                 *)
Table(list) ==
    FoldLeft(LAMBDA t, seg : t \o [i \in 1 .. seg.length |-> <<seg.dev, seg.start + i - 1>>], <<>>, list)

(* alloc_space: "This method is atomic, it either allocates all requested  *)
(* or allocates nothing"; and the ranges of a device are exactly its       *)
(* metadata and the segments that the tiers hold, none of which share a    *)
(* sector, in the form that PerDevSegments promises.                       *)
Accounted(used, limit, list) ==
    LET held == Table(list)
        on(d) == {held[i][2] : i \in {j \in DOMAIN held : held[j][1] = d}}
    IN  /\ \A d \in DOMAIN used :
            /\ R!Normal(used[d], limit)
            /\ R!Covered(used[d]) = (0 .. MetaSize - 1) \cup on(d)
            /\ on(d) \cap (0 .. MetaSize - 1) = {}
        /\ Cardinality({held[i] : i \in DOMAIN held}) = Len(held)
SegmentsAccounted ==
    pc \in Running =>
        /\ Accounted(data.used, DataLimit, data.segs)
        /\ Accounted(ctier.used, CacheLimit, ctier.meta \o ctier.cache)
        /\ Length(data.segs) = segs /\ Len(data.used) = devs

(* What is written at a place of the cap device is found there again: the  *)
(* table that the metadata on disk stand for is a beginning of the table   *)
(* in use, and the pool can always be set up from it as far as the devices *)
(* it needs are the ones that are there.                                   *)
SectorsStayPut ==
    /\ pc \in Running /\ saved # NoSave => IsPrefix(Table(record.data), Table(data.segs))
    /\ Recoverable => Restorable
============================================================================
