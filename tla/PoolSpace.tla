------------------------------ MODULE PoolSpace ------------------------------
(***************************************************************************)
(* How the space of a pool is given out.  The data tier gives sectors of   *)
(* the block devices to the cap device, the cap device gives them to the   *)
(* four devices of the thin pool, and ThinPool::check moves more and more  *)
(* of them up.  Each layer keeps its own account in memory, and the pool's *)
(* metadata is written at the end of a command; any step may fail or be    *)
(* the last one before a crash.                                            *)
(***************************************************************************)
EXTENDS Integers, FiniteSets

CONSTANTS
    DevSize,     \* usable sectors of a data device
    MaxDevs,     \* bound: number of data devices
    MaxCache,    \* bound: number of cache devices
    DataBlock,   \* DATA_BLOCK_SIZE
    MetaBlock,   \* MIN_META_SEGMENT_SIZE
    MetaShare,   \* 1000: the meta device should be this fraction of the pool
    MaxMeta,     \* MAX_META_SIZE
    DataInit, MetaInit, MdvInit,     \* INITIAL_DATA_SIZE, _META_SIZE, _MDV_SIZE
    NoSave,      \* no metadata on disk
    MaxCommands, \* bound: number of commands
    Faults       \* what may fail: subset of {"cap", "table", "water", "cache", "save", "repair", "crash"}

ASSUME PoolSpaceAssumption ==
    /\ {DevSize, MaxDevs, DataBlock, MetaBlock, MetaShare, MaxMeta,
        DataInit, MetaInit, MdvInit} \subseteq Nat \ {0}
    /\ MaxCache \in Nat /\ MaxCommands \in Nat
    /\ 2 * MetaInit + DataInit + MdvInit <= DevSize     \* MIN_DEV_SIZE

VARIABLES
    devs,      \* data devices that carry the pool's UUID
    caches,    \* cache devices that do
    segs,      \* sectors of the data tier given to the cap device
    cap,       \* the cap device: Backstore.linear or .cache, or neither
    next,      \* Backstore.next: sectors of the cap device given out
    flex,      \* ThinPool.segments: the sectors of each device
    dev,       \* ThinPool.backstore_device
    thin,      \* the kernel's thin pool: size of its data, sectors of its meta device
    saved,     \* the metadata on disk
    pc,        \* the step the daemon is at
    why,       \* the command that it works for
    changed,   \* do_check's should_save
    dirty,     \* check's should_save
    met,       \* the failures met so far
    commands

memory == <<segs, cap, next, flex, dev>>
vars == <<devs, caches, memory, thin, saved, pc, why, changed, dirty, met, commands>>

Flex == {"meta", "spare", "data", "mdv"}
Sectors == 0 .. DevSize * MaxDevs - 1
Usable == DevSize * devs
Size(S) == Cardinality(S)
NoCap == [kind |-> "none", size |-> 0]
NoFlex == [d \in Flex |-> {}]
Checking == {"meta", "data", "water"}
Running == Checking \cup {"save", "idle"}

Floor(n, m) == (n \div m) * m
Least(a, b) == IF a <= b THEN a ELSE b

----------------------------------------------------------------------------
(* Backstore::request.  It asks the data tier for what the cap device does *)
(* not have, and for half of it as long as that is refused.  A difference  *)
(* below zero wraps round to a request that is refused.                    *)
FitsAlways(r) == r >= cap.size - next     \* mutant: avail_space is not asked for
Fits(r) == r >= cap.size - next /\ r - (cap.size - next) <= Usable - segs
HalfThatFits(r, m) ==
    LET try[q \in 0 .. r] == IF q = 0 \/ Fits(q) THEN q ELSE try[Floor(q \div 2, m)]
    IN  {q \in 1 .. r : q = try[Floor(r \div 2, m)] /\ Fits(q)}
FirstThatFitsHalf(r, m) == HalfThatFits(r, m)     \* mutant: halves before it tries
FirstThatFits(r, m) == IF Fits(r) THEN {r} ELSE HalfThatFits(r, m)

(* What is granted: the sectors that the cap device has then, and the      *)
(* number that is given out.  There is none if nothing can be granted.     *)
Grant(s, amount, m) == [size |-> s, segs |-> s, amt |-> Floor(Least(amount, s - next), m)]
Request(amount, m) ==
    LET r == Floor(amount, m)
    IN  IF r = 0 THEN {}
        ELSE IF cap.size - next >= r THEN {[size |-> cap.size, segs |-> segs, amt |-> r]}
        ELSE {Grant(segs + q - (cap.size - next), amount, m) : q \in FirstThatFits(r, m)}

(* check_metadata, which StratPool::setup runs before anything else.       *)
CheckMetadata(m) ==
    /\ \E d \in Flex : m.next - 1 \in m.flex[d]
    /\ \A d \in Flex : \A s \in m.flex[d] : s < m.next
    /\ Size(m.flex["meta"]) + Size(m.flex["spare"]) + Size(m.flex["data"]) + Size(m.flex["mdv"]) = m.next
    /\ m.segs # 0 /\ m.next <= m.segs

(* StratPool::record.  Without a cache device there is no cache tier.      *)
Record == [devs |-> devs, caches |-> IF cap.kind = "cache" THEN caches ELSE 0,
           segs |-> segs, next |-> next, flex |-> flex]

(* The devices there are are those of the metadata (get_blockdevs), and    *)
(* the kernel's thin pool finds at least the space it has been given, if   *)
(* it is still on the same meta device.                                    *)
Recoverable ==
    /\ saved # NoSave
    /\ saved.devs = devs /\ saved.caches = caches
    /\ CheckMetadata(saved)
    /\ thin.data <= Size(saved.flex["data"])
    /\ thin.meta \cap saved.flex["meta"] # {} => Size(thin.meta) <= Size(saved.flex["meta"])

----------------------------------------------------------------------------
(* BlockDevMgr::initialize has given the first device its UUID.            *)
Init ==
    /\ devs = 1 /\ caches = 0
    /\ segs = 0 /\ cap = NoCap /\ next = 0 /\ flex = NoFlex /\ dev = "none"
    /\ thin = [data |-> 0, meta |-> {}]
    /\ saved = NoSave /\ pc = "new" /\ why = "create"
    /\ changed = FALSE /\ dirty = FALSE /\ met = {} /\ commands = 0

(* ThinPool::new.                                                          *)
New ==
    LET total == 2 * MetaInit + DataInit + MdvInit
    IN  /\ pc = "new" /\ pc' = "meta"
        /\ segs' = total /\ next' = total
        /\ cap' = [kind |-> "linear", size |-> total]
        /\ flex' = [meta |-> 0 .. MetaInit - 1,
                    spare |-> MetaInit .. 2 * MetaInit - 1,
                    data |-> 2 * MetaInit .. 2 * MetaInit + DataInit - 1,
                    mdv |-> 2 * MetaInit + DataInit .. total - 1]
        /\ dev' = "linear"
        /\ thin' = [data |-> DataInit, meta |-> flex'["meta"]]
        /\ UNCHANGED <<devs, caches, saved, why, changed, dirty, met, commands>>

(* If it fails, StratPool::initialize destroys the backstore.              *)
NewFails ==
    /\ "table" \in Faults
    /\ pc = "new" /\ pc' = "gone"
    /\ devs' = 0
    /\ UNCHANGED <<caches, memory, thin, saved, why, changed, dirty, met, commands>>

(* What the daemon knew of the pool is gone.                               *)
Forget == segs' = 0 /\ cap' = NoCap /\ next' = 0 /\ flex' = NoFlex /\ dev' = "none"

(* A command ends with an error.  A pool that was being created or set up  *)
(* is not entered into the engine's table.                                 *)
Error ==
    /\ IF why \in {"create", "setup"}
         THEN Forget /\ pc' = IF why = "create" THEN "gone" ELSE "down"
         ELSE UNCHANGED memory /\ pc' = "idle"
    /\ changed' = FALSE /\ dirty' = FALSE

(* The thin pool is given more sectors for one of its devices.             *)
Given(d, region) ==
    IF d = "data" THEN [thin EXCEPT !.data = @ + Size(region)]
    ELSE [thin EXCEPT !.meta = @ \cup region]

(* extend_thin_sub_device.  The error of a failed extension is dropped.    *)
ExtendedOnly(d, g) ==                     \* mutant: coalesce_segs drops the left list
    /\ segs' = g.segs /\ cap' = [cap EXCEPT !.size = g.size]
    /\ next' = next + g.amt
    /\ flex' = [flex EXCEPT ![d] = next .. next + g.amt - 1]
    /\ thin' = Given(d, next .. next + g.amt - 1)
    /\ changed' = TRUE
    /\ UNCHANGED met

ExtendedTwice(d, g) ==                    \* mutant: next is not advanced
    /\ segs' = g.segs /\ cap' = [cap EXCEPT !.size = g.size]
    /\ UNCHANGED next
    /\ flex' = [flex EXCEPT ![d] = @ \cup next .. next + g.amt - 1]
    /\ thin' = Given(d, next .. next + g.amt - 1)
    /\ changed' = TRUE
    /\ UNCHANGED met

Extended(d, g) ==
    /\ segs' = g.segs /\ cap' = [cap EXCEPT !.size = g.size]
    /\ next' = next + g.amt
    /\ flex' = [flex EXCEPT ![d] = @ \cup next .. next + g.amt - 1]
    /\ thin' = Given(d, next .. next + g.amt - 1)
    /\ changed' = TRUE
    /\ UNCHANGED met

(* extend_cap_device fails: the data tier has given up its sectors.        *)
CapFailsTakes(g) ==                       \* mutant: next is advanced first
    /\ "cap" \in Faults /\ g.segs # segs
    /\ segs' = g.segs /\ cap' \in {cap, [cap EXCEPT !.size = g.size]}
    /\ met' = met \cup {"cap"}
    /\ next' = Least(next + g.amt, cap'.size)
    /\ UNCHANGED <<flex, thin, changed>>

CapFails(g) ==
    /\ "cap" \in Faults /\ g.segs # segs
    /\ segs' = g.segs /\ cap' \in {cap, [cap EXCEPT !.size = g.size]}
    /\ met' = met \cup {"cap"}
    /\ UNCHANGED <<next, flex, thin, changed>>

(* Setting the table or resuming the device fails: the cap device has      *)
(* given up its sectors, and the kernel may have taken them.               *)
TableFails(d, g) ==
    /\ "table" \in Faults
    /\ segs' = g.segs /\ cap' = [cap EXCEPT !.size = g.size]
    /\ next' = next + g.amt
    /\ thin' \in {thin, Given(d, next .. next + g.amt - 1)}
    /\ met' = met \cup {"table"}
    /\ UNCHANGED <<flex, changed>>

Extend(d, grants) ==
    /\ \/ \E g \in grants : Extended(d, g) \/ CapFails(g) \/ TableFails(d, g)
       \/ grants = {} /\ UNCHANGED <<segs, cap, next, flex, thin, changed, met>>
    /\ UNCHANGED dev

(* do_check, first part: its assertions, and the meta device, unless the   *)
(* thin pool does not work.                                                *)
MetaRequest == Least(Usable \div MetaShare, MaxMeta) - Size(thin.meta)
CheckMeta ==
    /\ pc = "meta"
    /\ IF cap.kind # dev
         THEN pc' = "panic" /\ UNCHANGED <<memory, thin, changed, met>>
         ELSE \/ /\ pc' = "data"
                 /\ Extend("meta", IF MetaRequest > MetaBlock
                                     THEN Request(MetaRequest, MetaBlock) ELSE {})
              \/ /\ "water" \in Faults /\ pc' = "water"
                 /\ UNCHANGED <<memory, thin, changed, met>>
    /\ UNCHANGED <<devs, caches, saved, why, dirty, commands>>

(* ... second part: all the space that is left goes to the data device.    *)
CheckData ==
    /\ pc = "data" /\ pc' = "water"
    /\ Extend("data", Request(Usable - next, DataBlock))
    /\ UNCHANGED <<devs, caches, saved, why, dirty, commands>>

(* ... and the low water mark.  check does it all again as long as it      *)
(* changes something; then the caller saves, if need be.                   *)
CheckWaterAgain ==                        \* mutant: goes by the wrong should_save
    /\ pc = "water" /\ changed' = FALSE
    /\ dirty' = (changed \/ dirty)
    /\ pc' = CASE changed \/ dirty -> "meta"
               [] ~changed /\ ~dirty /\ why \in {"create", "add"} -> "save"
               [] OTHER -> "idle"
    /\ UNCHANGED <<devs, caches, memory, thin, saved, why, met, commands>>
CheckWater ==
    /\ pc = "water" /\ changed' = FALSE
    /\ dirty' = changed
    /\ pc' = CASE changed -> "meta"
               [] ~changed /\ (dirty \/ why \in {"create", "add"}) -> "save"
               [] OTHER -> "idle"
    /\ UNCHANGED <<devs, caches, memory, thin, saved, why, met, commands>>
WaterFails ==
    /\ "water" \in Faults
    /\ pc = "water" /\ Error
    /\ met' = met \cup {"water"}
    /\ UNCHANGED <<devs, caches, thin, saved, why, commands>>

(* write_metadata, which may fail with the metadata written or not.        *)
Save ==
    /\ pc = "save" /\ pc' = "idle" /\ saved' = Record
    /\ UNCHANGED <<devs, caches, memory, thin, why, changed, dirty, met, commands>>
SaveFails ==
    /\ "save" \in Faults
    /\ pc = "save" /\ saved' \in {saved, Record} /\ Error
    /\ met' = met \cup {"save"}
    /\ UNCHANGED <<devs, caches, thin, why, commands>>

----------------------------------------------------------------------------
Begin(cmd) ==
    /\ pc = "idle" /\ commands < MaxCommands
    /\ why' = cmd /\ commands' = commands + 1

(* event_on.                                                               *)
EventOn ==
    /\ Begin("event") /\ pc' = "meta"
    /\ UNCHANGED <<devs, caches, memory, thin, saved, changed, dirty, met>>

(* add_blockdevs to the data tier.                                         *)
AddDatadevs ==
    /\ Begin("add") /\ pc' = "meta"
    /\ devs < MaxDevs /\ devs' = devs + 1
    /\ UNCHANGED <<caches, memory, thin, saved, changed, dirty, met>>

(* set_blockdev_user_info, rename_pool.                                    *)
SetUserInfo ==
    /\ Begin("info") /\ pc' = "save"
    /\ UNCHANGED <<devs, caches, memory, thin, saved, changed, dirty, met>>

(* init_cache.  When make_cache fails, the linear device has been given up *)
(* already, and the next attempt does not find it where it is expected.    *)
InitCacheUnsaved ==                       \* mutant: write_metadata is not called
    /\ Begin("cache") /\ caches < MaxCache /\ cap.kind # "cache"
    /\ caches' = caches + 1
    /\ \/ /\ cap.kind = "linear" /\ cap' = [cap EXCEPT !.kind = "cache"]
          /\ pc' = "idle" /\ UNCHANGED met
       \/ /\ cap.kind = "linear" /\ "cache" \in Faults
          /\ cap' = NoCap
          /\ pc' = "idle" /\ met' = met \cup {"cache"}
       \/ cap.kind = "none" /\ pc' = "panic" /\ UNCHANGED <<cap, met>>
    /\ UNCHANGED <<devs, segs, next, flex, dev, thin, saved, changed, dirty>>

InitCache ==
    /\ Begin("cache") /\ caches < MaxCache /\ cap.kind # "cache"
    /\ caches' = caches + 1
    /\ \/ /\ cap.kind = "linear" /\ cap' = [cap EXCEPT !.kind = "cache"]
          /\ pc' = "save" /\ UNCHANGED met
       \/ /\ cap.kind = "linear" /\ "cache" \in Faults
          /\ cap' = NoCap
          /\ pc' = "idle" /\ met' = met \cup {"cache"}
       \/ cap.kind = "none" /\ pc' = "panic" /\ UNCHANGED <<cap, met>>
    /\ UNCHANGED <<devs, segs, next, flex, dev, thin, saved, changed, dirty>>

(* add_blockdevs to the cache tier; set_device follows.                    *)
AddCachedevs ==
    /\ Begin("cache") /\ cap.kind = "cache" /\ caches < MaxCache
    /\ caches' = caches + 1
    /\ \/ dev' = "cache" /\ pc' = "save" /\ UNCHANGED met
       \/ /\ "cache" \in Faults
          /\ UNCHANGED dev /\ pc' = "idle" /\ met' = met \cup {"cache"}
    /\ UNCHANGED <<devs, segs, cap, next, flex, thin, saved, changed, dirty>>

(* The cache would be too large.  The new device is wiped again, with      *)
(* destroy_all or remove_blockdevs.                                        *)
RefuseCache ==
    /\ Begin("cache") /\ cap.kind # "none"
    /\ UNCHANGED <<devs, caches, memory, thin, saved, pc, changed, dirty, met>>

(* The machine goes down, or the daemon has panicked.                      *)
Crash ==
    /\ pc \in Running \cup {"panic"}
    /\ pc \in Running \ {"idle"} => "crash" \in Faults
    /\ pc' = IF saved = NoSave THEN "gone" ELSE "down"
    /\ Forget /\ changed' = FALSE /\ dirty' = FALSE
    /\ UNCHANGED <<devs, caches, thin, saved, why, met, commands>>

(* StratPool::setup.  If thin_check fails, thin_repair writes the spare    *)
(* device and the two change places.                                       *)
Setup ==
    /\ pc = "down" /\ pc' = "meta" /\ why' = "setup"
    /\ commands < MaxCommands /\ commands' = commands + 1
    /\ Recoverable
    /\ segs' = saved.segs /\ next' = saved.next
    /\ dev' = IF saved.caches = 0 THEN "linear" ELSE "cache"
    /\ cap' = [kind |-> dev', size |-> saved.segs]
    /\ \/ flex' = saved.flex
       \/ "repair" \in Faults /\ flex' = [saved.flex EXCEPT !.meta = saved.flex.spare,
                                                           !.spare = saved.flex.meta]
    /\ thin' = [data |-> Size(flex'["data"]), meta |-> flex'["meta"]]
    /\ UNCHANGED <<devs, caches, saved, changed, dirty, met>>

Next ==
    \/ New \/ NewFails \/ CheckMeta \/ CheckData \/ CheckWater \/ WaterFails \/ Save \/ SaveFails
    \/ EventOn \/ AddDatadevs \/ SetUserInfo
    \/ InitCache \/ AddCachedevs \/ RefuseCache \/ Crash \/ Setup

Spec == Init /\ [][Next]_vars

(* The check is a loop of the daemon's own.                                *)
FairSpec == Spec /\ WF_vars(CheckMeta) /\ WF_vars(CheckData) /\ WF_vars(CheckWater)

----------------------------------------------------------------------------
(* Types of the state.                                                     *)
Account == [segs : Nat, next : Nat, flex : [Flex -> SUBSET Sectors], devs : Nat, caches : Nat]
ASSUME NoSaveAssumption == NoSave \notin Account
TypeOK ==
    /\ devs \in 0 .. MaxDevs /\ caches \in 0 .. MaxCache
    /\ segs \in 0 .. Usable /\ next \in 0 .. segs
    /\ cap.kind \in {"none", "linear", "cache"} /\ cap.size \in 0 .. segs
    /\ flex \in [Flex -> SUBSET Sectors]
    /\ dev \in {"none", "linear", "cache"}
    /\ thin.data \in 0 .. Usable /\ thin.meta \subseteq Sectors
    /\ saved = NoSave \/ saved \in Account
    /\ pc \in Running \cup {"new", "down", "gone", "panic"}
    /\ why \in {"create", "setup", "event", "add", "info", "cache"}
    /\ changed \in BOOLEAN /\ dirty \in BOOLEAN
    /\ met \subseteq Faults \cap {"cap", "table", "water", "cache", "save"}

Disjoint(f) == \A d, e \in Flex : d # e => f[d] \cap f[e] = {}

(* No sector belongs to two of the thin pool's devices, or to one of them  *)
(* without having been given out by the cap device, whose assertion that   *)
(* next is not beyond its end holds whenever it is there.                  *)
SpaceDisjoint ==
    /\ Disjoint(flex) /\ \A d \in Flex : \A s \in flex[d] : s < next
    /\ cap.kind # "none" => next <= cap.size

(* What the metadata on disk says a device has, no other device is given:  *)
(* the pool may come back as it was saved at any time.  (After a repair    *)
(* the meta device and its spare have changed places.)                     *)
NeverReassigned ==
    pc \in Running \cup {"panic"} /\ saved # NoSave =>
        /\ saved.flex["data"] \subseteq flex["data"]
        /\ saved.flex["mdv"] \subseteq flex["mdv"]
        /\ saved.flex["meta"] \cup saved.flex["spare"] \subseteq flex["meta"] \cup flex["spare"]
        /\ saved.next <= next /\ saved.segs <= segs

(* Saved metadata passes the check at the next start, as long as no device *)
(* refused the space it was to be extended by.                             *)
SavedPassesCheck == saved # NoSave /\ "table" \notin met => CheckMetadata(saved)

(* If nothing has failed, a pool that is at rest can be set up again.      *)
RestIsRecoverable == pc = "idle" /\ met = {} => Recoverable

(* do_check: "Expand data blocks to fill all available remaining space".   *)
(* All of it is granted, unless the cap device could not be extended       *)
(* before.                                                                 *)
AllSpaceGranted ==
    pc = "data" /\ "cap" \notin met =>
        LET most == Floor(Usable - next, DataBlock)
        IN  {g.amt : g \in Request(Usable - next, DataBlock)} = {most} \ {0}

(* check's loop ends.                                                      *)
CheckTerminates == pc \in Checking ~> pc \notin Checking

(* do_check asserts that the thin pool is on the device that the backstore *)
(* presents.                                                               *)
CheckAssertionHolds == pc # "panic"
============================================================================
