------------------------- MODULE PoolMetadataProofs -------------------------
(***************************************************************************)
(* Proofs about PoolMetadata for any number of devices, saves and devices  *)
(* per save and any readings of the wall clock.  What rests on update      *)
(* times that grow says so: the state remembers it in the variable ordered.*)
(***************************************************************************)
EXTENDS PoolMetadata, TLAPS

(* The time a leaf may take: long modules slow the prover down.            *)
USE SMTT(20), ZenonT(20)

(* The device d is done with the current save.                             *)
Done(d) == phase = "saving" /\ save.saved /\ d \notin save.todo /\ d # save.cur

RegionIs(k, r, h) == k.valid[r] /\ k.hdr[r] = h /\ k.data[r] = h.crc

(* How the parts of the state hang together.                               *)
Shape ==
    /\ members \subseteq sig
    /\ phase = "down" => members = {}
    /\ phase = "saving" =>
         /\ save.todo \subseteq members
         /\ save.cur \in members \cup {NoDev}
         /\ save.cur \notin save.todo
         /\ save.hdr.crc = attempts
         /\ attempts # 0
         /\ last < save.hdr.time
         /\ recorded[attempts] = members

(* Later headers describe later payloads, on whatever device they are.     *)
HeadersOrdered ==
    /\ \A d \in Devs, r \in Regions :
         /\ disk[d].hdr[r].crc <= attempts
         /\ disk[d].hdr[r].crc # 0 => disk[d].hdr[r].time # 0
    /\ \A d, e \in Devs, r, q \in Regions :
         disk[d].hdr[r].time <= disk[e].hdr[q].time =>
             disk[d].hdr[r].crc <= disk[e].hdr[q].crc
    /\ phase = "saving" =>
         \A d \in Devs, r \in Regions :
            \/ disk[d].hdr[r] = save.hdr
            \/ disk[d].hdr[r].time < save.hdr.time /\ disk[d].hdr[r].crc < save.hdr.crc

(* The headers in memory are no later than last, but for the devices that  *)
(* the current save has reached.                                           *)
MemoryBounded ==
    \A d \in members, r \in Primary :
        bda[d][r].time <= last \/ (Done(d) /\ bda[d][r] = save.hdr)

(* What the current save has completed so far.                             *)
SaveProgress ==
    phase = "saving" =>
        /\ save.cur # NoDev =>
             RegionIs(disk[save.cur], Older(bda[save.cur]), save.hdr)
        /\ save.saved =>
             \E d \in members :
                Done(d) /\ RegionIs(disk[d], Newer(bda[d]), save.hdr)

(* Some region holds the last committed payload or a later one, and it is  *)
(* not the region that the next write will go to.                          *)
Keeps(d, r) ==
    /\ Loadable(disk[d], r)
    /\ Load(disk[d])[r].crc >= committed
    /\ d \in members => r = Newer(bda[d]) \/ Done(d)

CommittedKept == committed # 0 => \E d \in sig, r \in Primary : Keeps(d, r)

(* Some device that the last committed payload names has its header or a   *)
(* later one.                                                              *)
Marks(d, r) == disk[d].valid[r] /\ disk[d].hdr[r].crc >= committed

CommittedMarked ==
    committed # 0 =>
        \E d \in sig, r \in Primary : d \in recorded[committed] /\ Marks(d, r)

(* What holds whatever the wall clock shows ...                            *)
Sound ==
    /\ TypeOK
    /\ Shape
    /\ MemoryBounded
    /\ SaveProgress

(* ... what holds as long as each save gets a later time than any on the   *)
(* devices, and the two together.                                          *)
Current ==
    /\ HeadersOrdered
    /\ CommittedKept
    /\ CommittedMarked

IInv == Sound /\ (ordered => Current)

----------------------------------------------------------------------------
(* What MDARegions computes.                                               *)

(* Times and payloads are naturals, and their order is transitive.         *)
LEMMA AtMostTrans ==
    ASSUME NEW a \in Nat, NEW b \in Nat, NEW c \in Nat, a <= b, b <= c
    PROVE  a <= c
OBVIOUS

(* older() and newer() name the two different primary regions.             *)
LEMMA OlderNewer ==
    ASSUME NEW m \in [Primary -> MDAHeader]
    PROVE  /\ Older(m) \in Primary
           /\ Newer(m) \in Primary
           /\ Newer(m) = 1 - Older(m)
           /\ \A r \in Primary : r = Newer(m) \/ r = Older(m)
BY DEF Older, Newer, Primary

(* last_update_time() is the later of the two times.                       *)
LEMMA NewerIsLatest ==
    ASSUME NEW m \in [Primary -> MDAHeader]
    PROVE  /\ LastUpdateTime(m) \in Nat
           /\ \A r \in Primary : m[r].time <= LastUpdateTime(m)
BY DEF LastUpdateTime, Older, Newer, Primary, MDAHeader, None

(* A header later than the other one, put in the older region, makes that  *)
(* region the newer one.                                                   *)
LEMMA SaveMakesNewer ==
    ASSUME NEW m \in [Primary -> MDAHeader], NEW h \in MDAHeader,
           h.crc # 0,
           \A r \in Primary : m[r].time < h.time
    PROVE  Newer([m EXCEPT ![Older(m)] = h]) = Older(m)
BY DEF Older, Newer, Primary, MDAHeader, None

(* MDARegions::initialize makes a device of a device, and empties headers. *)
LEMMA InitializedDisk ==
    /\ BlankDisk \in Disk
    /\ \A k \in Disk, done \in SUBSET Regions :
         /\ Initialized(k, done) \in Disk
         /\ \A r \in Regions : Initialized(k, done).hdr[r] \in {None, k.hdr[r]}
<1>1. None \in MDAHeader
  BY DEF None, MDAHeader
<1>2. BlankDisk \in Disk
  BY <1>1 DEF BlankDisk, Disk, Junk
<1>3. ASSUME NEW k \in Disk, NEW done \in SUBSET Regions
      PROVE  /\ Initialized(k, done) \in Disk
             /\ \A r \in Regions : Initialized(k, done).hdr[r] \in {None, k.hdr[r]}
  <2>1. /\ k.valid \in [Regions -> BOOLEAN] /\ k.hdr \in [Regions -> MDAHeader]
        /\ k.data \in [Regions -> Int]
    BY DEF Disk
  <2>2. [r \in Regions |-> r \in done \/ k.valid[r]] \in [Regions -> BOOLEAN]
    BY <2>1
  <2>3. [r \in Regions |-> IF r \in done THEN None ELSE k.hdr[r]] \in [Regions -> MDAHeader]
    BY <1>1, <2>1
  <2> QED
    BY <2>1, <2>2, <2>3 DEF Initialized, Disk
<1> QED
  BY <1>2, <1>3

(* The device k2 is k but for region q, which may have got the header h    *)
(* and may have got other data.                                            *)
WriteTo(k, k2, q, h) ==
    /\ k2 \in Disk
    /\ \A r \in Regions \ {q} :
         k2.valid[r] = k.valid[r] /\ k2.hdr[r] = k.hdr[r] /\ k2.data[r] = k.data[r]
    /\ \/ k2.valid[q] = k.valid[q] /\ k2.hdr[q] = k.hdr[q]
       \/ k2.valid[q] = TRUE /\ k2.hdr[q] = h

LEMMA WriteIsWriteTo ==
    ASSUME NEW k \in Disk, NEW q \in Regions, NEW h \in MDAHeader, NEW x \in Int
    PROVE  /\ WriteTo(k, Write(k, q, TRUE, h, x), q, h)
           /\ WriteTo(k, Write(k, q, k.valid[q], k.hdr[q], x), q, h)
BY Zenon DEF Write, WriteTo, Disk

(* save_region run to its end writes region q and no other.                *)
LEMMA CompleteWrite ==
    ASSUME NEW k \in Disk, NEW q \in Regions, NEW h \in MDAHeader
    PROVE  /\ WriteTo(k, SaveRegion(k, q, h), q, h)
           /\ RegionIs(SaveRegion(k, q, h), q, h)
<1>1. h.crc \in Int
  BY DEF MDAHeader
<1>2. RegionIs(SaveRegion(k, q, h), q, h)
  BY DEF SaveRegion, Write, RegionIs, Disk
<1> QED
  BY <1>1, <1>2, WriteIsWriteTo, Zenon DEF SaveRegion

(* save_region cut short leaves the header of region q old or new.         *)
LEMMA CutWrite ==
    ASSUME NEW k \in Disk, NEW q \in Regions, NEW h \in MDAHeader,
           NEW x \in SaveRegionCut(k, q, h)
    PROVE  WriteTo(k, x, q, h)
<1>1. {k.data[q], h.crc, Junk} \subseteq Int
  BY DEF Disk, MDAHeader, Junk
<1> QED
  BY <1>1, WriteIsWriteTo, Zenon DEF SaveRegionCut

(* A region is not touched by a write to the other one or to its copy.     *)
LEMMA OtherRegionStays ==
    ASSUME NEW k \in Disk, NEW x, NEW o \in Primary, NEW r \in Primary, r # o,
           NEW q \in {o, CopyOf(o)}, NEW h, WriteTo(k, x, q, h)
    PROVE  /\ Load(x)[r] = Load(k)[r]
           /\ Loadable(k, r) => Loadable(x, r)
<1>1. q \in Regions /\ {r, CopyOf(r)} \subseteq Regions \ {q}
  BY DEF Primary, Regions, CopyOf
<1> QED
  BY <1>1 DEF WriteTo, Load, Loadable

----------------------------------------------------------------------------
(* A write to the older region of a device that the save has not finished  *)
(* with, complete or cut short, leaves every kept region readable and only *)
(* ever replaces a header by the header being saved.                       *)
LEMMA WriteStep ==
    ASSUME Sound, phase = "saving",
           NEW d \in members, d \in save.todo \/ d = save.cur,
           NEW q \in {Older(bda[d]), CopyOf(Older(bda[d]))},
           NEW x, WriteTo(disk[d], x, q, save.hdr),
           disk' = [disk EXCEPT ![d] = x]
    PROVE  /\ disk' \in [Devs -> Disk]
           /\ \A e \in Devs, r \in Regions :
                disk'[e].hdr[r] \in {disk[e].hdr[r], save.hdr}
           /\ \A e \in Devs, r \in Primary :
                Keeps(e, r) => /\ Loadable(disk'[e], r)
                               /\ Load(disk'[e])[r].crc >= committed
           /\ \A e \in Devs, r \in Primary :
                Marks(e, r) => /\ disk'[e].valid[r]
                               /\ disk'[e].hdr[r].crc >= committed
<1>1. /\ disk \in [Devs -> Disk] /\ d \in Devs
      /\ bda[d] \in [Primary -> MDAHeader]
      /\ save.hdr \in MDAHeader /\ save.hdr.crc >= committed
  BY DEF Sound, TypeOK, Shape, SaveRecord, MDAHeader
<1>2. x \in Disk
  BY DEF WriteTo
<1>3. q \in Regions
  BY <1>1, OlderNewer DEF Primary, Regions, CopyOf
<1>4. \A r \in Regions : x.hdr[r] \in {disk[d].hdr[r], save.hdr}
  BY <1>3 DEF WriteTo
<1>5. ASSUME NEW e \in Devs, NEW r \in Primary, Keeps(e, r)
      PROVE  Loadable(disk'[e], r) /\ Load(disk'[e])[r].crc >= committed
  <2>1. CASE e # d
    BY <1>1, <1>5, <2>1 DEF Keeps
  <2>2. CASE e = d
    <3>1. ~Done(d)
      BY DEF Done
    <3>2. r = Newer(bda[d]) /\ r # Older(bda[d]) /\ Older(bda[d]) \in Primary
      BY <1>1, <1>5, <2>2, <3>1, OlderNewer DEF Keeps, Primary
    <3>6. Loadable(disk[d], r)
      BY <1>5, <2>2 DEF Keeps
    <3>3. Load(x)[r] = Load(disk[d])[r] /\ Loadable(x, r)
      <4>1. disk[d] \in Disk /\ r \in Primary
        BY <1>1
      <4> QED
        BY <3>2, <3>6, <4>1, OtherRegionStays
    <3>4. Load(x)[r].crc >= committed
      BY <1>5, <2>2, <3>3 DEF Keeps
    <3>5. disk'[e] = x
      BY <1>1, <2>2
    <3> QED
      BY <3>3, <3>4, <3>5
  <2> QED
    BY <2>1, <2>2
<1>6. ASSUME NEW e \in Devs, NEW r \in Primary, Marks(e, r)
      PROVE  disk'[e].valid[r] /\ disk'[e].hdr[r].crc >= committed
  <2>1. CASE e # d
    BY <1>1, <1>6, <2>1 DEF Marks
  <2>2. CASE e = d
    <3>1. r \in Regions
      BY DEF Primary, Regions
    <3>2. x.valid[r] /\ x.hdr[r].crc >= committed
      BY <1>1, <1>3, <1>6, <2>2, <3>1 DEF Marks, WriteTo
    <3> QED
      BY <1>1, <2>2, <3>2
  <2> QED
    BY <2>1, <2>2
<1> QED
  BY <1>1, <1>2, <1>4, <1>5, <1>6

(* Headers stay ordered when some of them become the header being saved.   *)
LEMMA OrderStep ==
    ASSUME Sound, Current, phase = "saving", disk' \in [Devs -> Disk],
           \A e \in Devs, r \in Regions :
                disk'[e].hdr[r] \in {disk[e].hdr[r], save.hdr},
           attempts' = attempts,
           phase' = "saving" => save'.hdr = save.hdr
    PROVE  HeadersOrdered'
<1>1. save.hdr \in MDAHeader /\ save.hdr.crc = attempts /\ attempts # 0
      /\ last < save.hdr.time /\ last \in Nat /\ attempts \in Nat
  BY DEF Sound, TypeOK, Shape, SaveRecord
<1>2. \A e \in Devs, r \in Regions : disk[e].hdr[r] \in MDAHeader
  BY DEF Sound, TypeOK, Disk
<1>3. HeadersOrdered
  BY DEF Current
<1>4. \A e \in Devs, r \in Regions :
        \/ disk'[e].hdr[r] = save.hdr
        \/ /\ disk'[e].hdr[r] = disk[e].hdr[r]
           /\ disk[e].hdr[r].time < save.hdr.time
           /\ disk[e].hdr[r].crc < save.hdr.crc
  BY <1>3 DEF HeadersOrdered
<1>5. \A e \in Devs, r \in Regions :
         /\ disk'[e].hdr[r].crc <= attempts
         /\ disk'[e].hdr[r].crc # 0 => disk'[e].hdr[r].time # 0
  BY <1>1, <1>2, <1>3, <1>4 DEF HeadersOrdered, MDAHeader
<1>6. ASSUME NEW d \in Devs, NEW e \in Devs, NEW r \in Regions, NEW q \in Regions,
             disk'[d].hdr[r].time <= disk'[e].hdr[q].time
      PROVE  disk'[d].hdr[r].crc <= disk'[e].hdr[q].crc
  <2>1. disk[d].hdr[r] \in MDAHeader /\ disk[e].hdr[q] \in MDAHeader
    BY <1>2
  <2>2. CASE disk'[e].hdr[q] = save.hdr
    BY <1>1, <1>4, <2>1, <2>2 DEF MDAHeader
  <2>3. CASE disk'[e].hdr[q] # save.hdr
    <3>1. disk'[e].hdr[q] = disk[e].hdr[q] /\ disk[e].hdr[q].time < save.hdr.time
      BY <1>4, <2>3
    <3>2. disk'[d].hdr[r] = disk[d].hdr[r]
      BY <1>1, <1>4, <1>6, <2>1, <3>1 DEF MDAHeader
    <3> QED
      BY <1>3, <1>6, <3>1, <3>2 DEF HeadersOrdered
  <2> QED
    BY <2>2, <2>3
<1> QED
  BY <1>4, <1>5, <1>6 DEF HeadersOrdered

----------------------------------------------------------------------------
(* The invariant holds at first ...                                        *)
LEMMA InitIInv == Init => IInv
<1> SUFFICES ASSUME Init PROVE IInv
  OBVIOUS
<1>1. \A d \in Devs : disk[d] \in Disk /\ disk[d].hdr = [r \in Regions |-> None]
  <2>1. ASSUME NEW d \in Devs
        PROVE  disk[d] \in Disk /\ disk[d].hdr = [r \in Regions |-> None]
    <3>1. disk[d] \in {BlankDisk, Initialized(BlankDisk, Regions)}
      BY DEF Init
    <3>2. BlankDisk.hdr = [r \in Regions |-> None]
      BY DEF BlankDisk
    <3>3. Initialized(BlankDisk, Regions).hdr = [r \in Regions |-> None]
      BY DEF Initialized
    <3> QED
      BY <3>1, <3>2, <3>3, InitializedDisk
  <2> QED
    BY <2>1
<1>2. disk \in [Devs -> Disk]
  BY <1>1 DEF Init
<1>3. TypeOK
  BY <1>2, PoolMetadataAssumption
  DEF Init, TypeOK, MDAHeader, None, NoSave, SaveRecord
<1>4. HeadersOrdered
  BY <1>1 DEF Init, HeadersOrdered, None
<1>5. Shape /\ MemoryBounded /\ SaveProgress /\ CommittedKept /\ CommittedMarked
  BY PoolMetadataAssumption
  DEF Init, Shape, MemoryBounded, SaveProgress, CommittedKept, CommittedMarked, None
<1> QED
  BY <1>3, <1>4, <1>5 DEF IInv, Sound, Current

(* ... and every step keeps it.  First the steps that write no device.     *)
LEMMA ChangeIInv ==
    ASSUME Sound, Change
    PROVE  Sound' /\ (Current => Current')
<1>1. TypeOK' /\ Shape'
  BY DEF Sound, Change, TypeOK, Shape
<1>2. MemoryBounded' /\ SaveProgress'
  BY DEF Sound, Change, MemoryBounded, SaveProgress, Done
<1>3. Current => Current'
  BY DEF Change, Current, HeadersOrdered, CommittedKept, CommittedMarked, Keeps, Marks, Done
<1> QED
  BY <1>1, <1>2, <1>3 DEF Sound

LEMMA BeginSaveIInv ==
    ASSUME Sound, NEW now \in 1 .. MaxTime, NEW S \in SUBSET Devs, BeginSave(now, S)
    PROVE  Sound' /\ (LaterThanAll(StampTime(now)) /\ Current => Current')
<1> DEFINE t == StampTime(now)
<1>b. /\ phase = "dirty" /\ attempts < MaxSaves /\ S \subseteq Candidates
      /\ ordered' \in BOOLEAN /\ attempts' = attempts + 1 /\ phase' = "saving"
      /\ recorded' = [recorded EXCEPT ![attempts + 1] = members]
      /\ save' = [hdr |-> [time |-> t, crc |-> attempts + 1],
                  todo |-> S, cur |-> NoDev, saved |-> FALSE]
      /\ UNCHANGED <<sig, disk, bda, members, last, committed>>
  BY DEF BeginSave
<1>c. now \in Nat /\ MaxSaves \in Nat
  BY PoolMetadataAssumption
<1>d. attempts \in 0 .. MaxSaves /\ last \in Nat /\ members \subseteq Devs
  BY DEF Sound, TypeOK
<1>0. /\ attempts \in Nat /\ last \in Nat /\ attempts + 1 \in 1 .. MaxSaves
      /\ S \subseteq members /\ members \subseteq Devs
  BY <1>b, <1>c, <1>d DEF Candidates
<1>1. t \in Nat /\ last < t
  BY <1>c, <1>d DEF StampTime
<1> HIDE DEF t
<1>2. TypeOK'
  BY <1>0, <1>b, <1>1 DEF Sound, TypeOK, SaveRecord, MDAHeader
<1>3. Shape'
  <2>1. recorded'[attempts'] = members
    BY <1>0, <1>b, <1>1 DEF Sound, TypeOK
  <2> QED
    BY <1>0, <1>b, <1>1, <2>1, PoolMetadataAssumption DEF Sound, TypeOK, Shape
<1>5. MemoryBounded' /\ SaveProgress'
  BY <1>0, <1>b, <1>1 DEF Sound, MemoryBounded, SaveProgress, Done
<1>4. ASSUME Current, LaterThanAll(t) PROVE HeadersOrdered'
  <2>1. disk' = disk /\ \A d \in Devs, r \in Regions : disk[d].hdr[r] \in MDAHeader
    BY <1>b DEF Sound, TypeOK, Disk
  <2>2. \A d \in Devs, r \in Regions :
           /\ disk[d].hdr[r].time \in Nat /\ disk[d].hdr[r].crc \in Nat
           /\ disk[d].hdr[r].time < t /\ disk[d].hdr[r].crc <= attempts
           /\ disk[d].hdr[r].crc # 0 => disk[d].hdr[r].time # 0
    BY <1>4, <2>1 DEF Current, HeadersOrdered, MDAHeader, LaterThanAll
  <2>3. save'.hdr.time = t /\ save'.hdr.crc = attempts + 1
    BY <1>b
  <2>4. \A d \in Devs, r \in Regions :
           disk[d].hdr[r].crc <= attempts + 1 /\ disk[d].hdr[r].crc < attempts + 1
    BY <1>0, <2>2
  <2>5. \A d, e \in Devs, r, q \in Regions :
           disk[d].hdr[r].time <= disk[e].hdr[q].time => disk[d].hdr[r].crc <= disk[e].hdr[q].crc
    BY <1>4 DEF Current, HeadersOrdered
  <2>6. disk' = disk /\ attempts' = attempts + 1
    BY <2>1, <1>b
  <2> QED
    BY <2>2, <2>3, <2>4, <2>5, <2>6 DEF HeadersOrdered
<1>6. ASSUME Current PROVE CommittedKept' /\ CommittedMarked'
  <2>1. committed # 0 => recorded'[committed] = recorded[committed]
    BY <1>0, <1>b, <1>1 DEF Sound, TypeOK
  <2> QED
    BY <1>b, <1>6, <2>1 DEF Current, CommittedKept, CommittedMarked, Keeps, Marks, Done
<1> QED
  BY <1>2, <1>3, <1>4, <1>5, <1>6 DEF Sound, Current, t

LEMMA EndSaveIInv ==
    ASSUME Sound, EndSave
    PROVE  Sound' /\ (Current => Current')
<1>0. /\ save.hdr \in MDAHeader /\ save.hdr.crc = attempts /\ attempts # 0
      /\ attempts \in Nat /\ last \in Nat /\ committed \in Nat
      /\ last < save.hdr.time /\ members \subseteq sig
      /\ recorded[attempts] = members /\ phase = "saving"
      /\ members \subseteq Devs
  BY DEF Sound, TypeOK, Shape, EndSave, SaveRecord
<1>1. TypeOK'
  BY <1>0 DEF Sound, TypeOK, EndSave, NoSave, None, SaveRecord, MDAHeader
<1>2. Shape' /\ (HeadersOrdered => HeadersOrdered')
  BY <1>0 DEF Sound, Shape, HeadersOrdered, EndSave, MDAHeader
<1>3. \A d \in members, r \in Primary : bda[d][r] \in MDAHeader
  BY <1>0 DEF Sound, TypeOK
<1>4. MemoryBounded' /\ SaveProgress'
  BY <1>0, <1>3 DEF Sound, EndSave, MemoryBounded, SaveProgress, Done, MDAHeader
<1>5. CASE save.saved
  <2>1. PICK d \in members : Done(d) /\ RegionIs(disk[d], Newer(bda[d]), save.hdr)
    BY <1>0, <1>5 DEF Sound, SaveProgress
  <2>2. /\ d \in sig /\ bda' = bda /\ disk' = disk /\ sig' = sig /\ recorded' = recorded
        /\ committed' = attempts
        /\ Newer(bda[d]) \in Primary /\ disk[d] \in Disk
    BY <1>0, <1>5, OlderNewer DEF Sound, TypeOK, EndSave
  <2>3. Load(disk[d])[Newer(bda[d])] = save.hdr
    BY <2>1, <2>2 DEF RegionIs, Load
  <2>4. save.hdr # None
    BY <1>0 DEF None
  <2>5. Loadable(disk[d], Newer(bda[d]))
    BY <2>1, <2>3, <2>4 DEF RegionIs, Loadable
  <2>6. CommittedKept'
    BY <1>0, <2>2, <2>3, <2>5 DEF CommittedKept, Keeps
  <2>7. CommittedMarked'
    BY <1>0, <2>1, <2>2 DEF CommittedMarked, Marks, RegionIs
  <2> QED
    BY <1>1, <1>2, <1>4, <2>6, <2>7 DEF Sound, Current
<1>6. CASE ~save.saved
  <2>1. Current => CommittedKept' /\ CommittedMarked'
    BY <1>6 DEF Current, EndSave, CommittedKept, CommittedMarked, Keeps, Marks, Done
  <2> QED
    BY <1>1, <1>2, <1>4, <2>1 DEF Sound, Current
<1> QED
  BY <1>5, <1>6

(* Then the writes of MDARegions::save_state.                              *)
LEMMA SaveFirstIInv ==
    ASSUME Sound, NEW d \in Devs, SaveFirst(d)
    PROVE  Sound' /\ (Current => Current')
<1>0. /\ phase = "saving" /\ d \in save.todo /\ d \in members /\ save.cur = NoDev
      /\ bda[d] \in [Primary -> MDAHeader] /\ disk[d] \in Disk
      /\ save.hdr \in MDAHeader /\ last \in Nat /\ last < save.hdr.time
      /\ Older(bda[d]) \in Regions /\ NoDev \notin Devs
  BY OlderNewer, PoolMetadataAssumption
  DEF Sound, TypeOK, Shape, SaveRecord, SaveFirst, Primary, Regions
<1>1. LastUpdateTime(bda[d]) < save.hdr.time
  <2>1. \A r \in Primary : bda[d][r].time <= last
    BY <1>0 DEF Sound, MemoryBounded, Done
  <2> QED
    BY <1>0, <2>1, OlderNewer DEF LastUpdateTime, MDAHeader
<1> DEFINE x == SaveRegion(disk[d], Older(bda[d]), save.hdr)
<1>2. /\ disk' = [disk EXCEPT ![d] = x]
      /\ save' = [save EXCEPT !.cur = d, !.todo = @ \ {d}]
      /\ UNCHANGED <<sig, bda, members, last, phase, ordered, attempts, recorded, committed>>
  BY <1>0, <1>1, NewerIsLatest DEF SaveFirst, MDAHeader
<1>3. WriteTo(disk[d], x, Older(bda[d]), save.hdr) /\ RegionIs(x, Older(bda[d]), save.hdr)
  BY <1>0, CompleteWrite
<1> HIDE DEF x
<1>4. /\ disk' \in [Devs -> Disk]
      /\ \A e \in Devs, r \in Regions :
            disk'[e].hdr[r] \in {disk[e].hdr[r], save.hdr}
      /\ \A e \in Devs, r \in Primary :
            Keeps(e, r) => /\ Loadable(disk'[e], r)
                           /\ Load(disk'[e])[r].crc >= committed
      /\ \A e \in Devs, r \in Primary :
            Marks(e, r) => /\ disk'[e].valid[r]
                           /\ disk'[e].hdr[r].crc >= committed
  BY <1>0, <1>2, <1>3, WriteStep, Zenon
<1>5. /\ save'.hdr = save.hdr /\ save'.cur = d /\ save'.todo = save.todo \ {d}
      /\ save'.saved = save.saved /\ save' \in SaveRecord
  BY <1>0, <1>2, Zenon DEF Sound, TypeOK, SaveRecord
<1>6. TypeOK'
  BY <1>2, <1>4, <1>5 DEF Sound, TypeOK
<1>7. Shape'
  BY <1>0, <1>2, <1>5 DEF Sound, Shape
<1>8. Current => HeadersOrdered'
  BY <1>0, <1>2, <1>4, <1>5, OrderStep
<1>9. \A e \in Devs : Done(e)' <=> Done(e)
  BY <1>0, <1>2, <1>5 DEF Done
<1>10. MemoryBounded'
  BY <1>2, <1>5, <1>9 DEF Sound, TypeOK, MemoryBounded
<1>11. SaveProgress'
  <2>1. RegionIs(disk'[d], Older(bda[d]), save.hdr)
    BY <1>2, <1>3 DEF Sound, TypeOK
  <2>2. ASSUME save.saved
        PROVE  \E e \in members : Done(e)' /\ RegionIs(disk'[e], Newer(bda[e]), save.hdr)
    <3>1. PICK e \in members : Done(e) /\ RegionIs(disk[e], Newer(bda[e]), save.hdr)
      BY <1>0, <2>2 DEF Sound, SaveProgress
    <3>2. e # d /\ e \in Devs
      BY <1>0, <3>1 DEF Done, Sound, TypeOK
    <3> QED
      BY <1>2, <1>9, <3>1, <3>2 DEF Sound, TypeOK
  <2> QED
    BY <1>2, <1>5, <2>1, <2>2 DEF SaveProgress
<1>12. Current => CommittedKept' /\ CommittedMarked'
  BY <1>2, <1>4, <1>9 DEF Sound, Current, TypeOK, CommittedKept, CommittedMarked, Keeps, Marks
<1> QED
  BY <1>6, <1>7, <1>8, <1>10, <1>11, <1>12 DEF Sound, Current

LEMMA SaveSecondIInv ==
    ASSUME Sound, SaveSecond
    PROVE  Sound' /\ (Current => Current')
<1> PICK d \in members : d = save.cur
  BY DEF Sound, Shape, SaveSecond
<1> DEFINE o == Older(bda[d])
           x == SaveRegion(disk[d], CopyOf(o), save.hdr)
<1>0. /\ phase = "saving" /\ d # NoDev /\ d \notin save.todo
      /\ d \in Devs /\ bda[d] \in [Primary -> MDAHeader] /\ disk[d] \in Disk
      /\ save.hdr \in MDAHeader /\ save.hdr.crc # 0
      /\ last \in Nat /\ last < save.hdr.time
      /\ NoDev \notin Devs
  BY PoolMetadataAssumption DEF Sound, TypeOK, Shape, SaveRecord, SaveSecond
<1>1. o \in Primary /\ o \in Regions /\ CopyOf(o) \in Regions /\ CopyOf(o) # o
  BY <1>0, OlderNewer DEF Primary, Regions, CopyOf
<1>2. /\ disk' = [disk EXCEPT ![d] = x]
      /\ bda' = [bda EXCEPT ![d] = [bda[d] EXCEPT ![o] = save.hdr]]
      /\ save' = [save EXCEPT !.cur = NoDev, !.saved = TRUE]
      /\ UNCHANGED <<sig, members, last, phase, ordered, attempts, recorded, committed>>
  BY DEF SaveSecond
<1>3. WriteTo(disk[d], x, CopyOf(o), save.hdr)
  BY <1>0, <1>1, CompleteWrite
<1> HIDE DEF x
<1>4. /\ disk' \in [Devs -> Disk]
      /\ \A e \in Devs, r \in Regions :
            disk'[e].hdr[r] \in {disk[e].hdr[r], save.hdr}
      /\ \A e \in Devs, r \in Primary :
            Keeps(e, r) => /\ Loadable(disk'[e], r)
                           /\ Load(disk'[e])[r].crc >= committed
      /\ \A e \in Devs, r \in Primary :
            Marks(e, r) => /\ disk'[e].valid[r]
                           /\ disk'[e].hdr[r].crc >= committed
  BY <1>0, <1>2, <1>3, WriteStep, Zenon
<1>5. /\ save'.hdr = save.hdr /\ save'.cur = NoDev /\ save'.todo = save.todo
      /\ save'.saved = TRUE /\ save' \in SaveRecord
  BY <1>0, <1>2, Zenon DEF Sound, TypeOK, SaveRecord
<1>6. bda'[d] = [bda[d] EXCEPT ![o] = save.hdr] /\ bda' \in [Devs -> [Primary -> MDAHeader]]
  BY <1>0, <1>1, <1>2 DEF Sound, TypeOK
<1>7. \A r \in Primary : bda[d][r].time <= last
  BY <1>0 DEF Sound, MemoryBounded, Done
<1>8. Newer(bda'[d]) = o
  <2>1. \A r \in Primary : bda[d][r].time < save.hdr.time
    BY <1>0, <1>7 DEF MDAHeader
  <2> QED
    BY <1>0, <1>6, <2>1, SaveMakesNewer
<1>9. TypeOK' /\ Shape'
  BY <1>0, <1>2, <1>4, <1>5, <1>6 DEF Sound, TypeOK, Shape
<1>10. Current => HeadersOrdered'
  BY <1>0, <1>2, <1>4, <1>5, OrderStep
<1>11. Done(d)' /\ \A e \in Devs : Done(e) => Done(e)'
  BY <1>0, <1>2, <1>5 DEF Done
<1>12. \A e \in Devs : e # d => bda'[e] = bda[e]
  BY <1>0, <1>2 DEF Sound, TypeOK
<1>13. MemoryBounded'
  <2>1. ASSUME NEW e \in members, NEW r \in Primary
        PROVE  bda'[e][r].time <= last \/ (Done(e)' /\ bda'[e][r] = save.hdr)
    <3>1. e \in Devs
      BY DEF Sound, TypeOK
    <3>2. CASE e = d
      BY <1>0, <1>1, <1>6, <1>7, <1>11, <3>2
    <3>3. CASE e # d
      BY <1>11, <1>12, <3>1, <3>3 DEF Sound, MemoryBounded
    <3> QED
      BY <3>2, <3>3
  <2> QED
    BY <1>2, <1>5, <2>1 DEF MemoryBounded
<1>14. SaveProgress'
  <2>1. RegionIs(disk[d], o, save.hdr)
    BY <1>0 DEF Sound, SaveProgress
  <2>2. RegionIs(x, o, save.hdr)
    BY <1>1, <1>3, <2>1 DEF WriteTo, RegionIs
  <2>3. RegionIs(disk'[d], Newer(bda'[d]), save.hdr)
    BY <1>0, <1>2, <1>8, <2>2 DEF Sound, TypeOK
  <2> QED
    BY <1>0, <1>2, <1>5, <1>11, <2>3 DEF SaveProgress
<1>15. ASSUME Current PROVE CommittedKept'
  <2> SUFFICES ASSUME committed # 0
               PROVE  \E e \in sig, r \in Primary : Keeps(e, r)'
    BY <1>2 DEF CommittedKept
  <2>1. PICK e \in sig, r \in Primary : Keeps(e, r)
    BY <1>15 DEF Current, CommittedKept
  <2>2. e \in Devs
    BY DEF Sound, TypeOK
  <2>3. e \in members => r = Newer(bda'[e]) \/ Done(e)'
    BY <1>11, <1>12, <2>1, <2>2 DEF Keeps
  <2> QED
    BY <1>2, <1>4, <2>1, <2>2, <2>3 DEF Keeps
<1>16. Current => CommittedMarked'
  BY <1>2, <1>4 DEF Sound, Current, TypeOK, CommittedMarked, Marks
<1> QED
  BY <1>9, <1>10, <1>13, <1>14, <1>15, <1>16 DEF Sound, Current

(* A write that stops on an error: the save goes on with the next device.  *)
LEMMA FailStep ==
    ASSUME Sound, phase = "saving",
           NEW d \in members, d \in save.todo \/ d = save.cur,
           save.cur \in {d, NoDev},
           NEW q \in {Older(bda[d]), CopyOf(Older(bda[d]))},
           NEW x \in SaveRegionCut(disk[d], q, save.hdr),
           disk' = [disk EXCEPT ![d] = x],
           save' \in SaveRecord, save'.hdr = save.hdr, save'.cur = NoDev,
           save'.todo = save.todo \ {d}, save'.saved = save.saved,
           UNCHANGED <<sig, bda, members, last, phase, ordered, attempts, recorded, committed>>
    PROVE  Sound' /\ (Current => Current')
<1>0. /\ d \in Devs /\ d # NoDev
      /\ bda[d] \in [Primary -> MDAHeader] /\ disk[d] \in Disk
      /\ save.hdr \in MDAHeader
  BY PoolMetadataAssumption DEF Sound, TypeOK, Shape, SaveRecord
<1>1. q \in Regions
  BY <1>0, OlderNewer DEF Primary, Regions, CopyOf
<1>2. WriteTo(disk[d], x, q, save.hdr)
  BY <1>0, <1>1, CutWrite
<1>4. /\ disk' \in [Devs -> Disk]
      /\ \A e \in Devs, r \in Regions :
            disk'[e].hdr[r] \in {disk[e].hdr[r], save.hdr}
      /\ \A e \in Devs, r \in Primary :
            Keeps(e, r) => /\ Loadable(disk'[e], r)
                           /\ Load(disk'[e])[r].crc >= committed
      /\ \A e \in Devs, r \in Primary :
            Marks(e, r) => /\ disk'[e].valid[r]
                           /\ disk'[e].hdr[r].crc >= committed
  BY <1>0, <1>2, WriteStep, Zenon
<1>5. TypeOK'
  BY <1>4, Zenon DEF Sound, TypeOK
<1>a. Shape'
  <2>1. NoDev \notin members
    BY PoolMetadataAssumption DEF Sound, TypeOK
  <2> QED
    BY <2>1 DEF Sound, Shape
<1>6. Current => HeadersOrdered'
  <2>1. attempts' = attempts
    OBVIOUS
  <2> QED
    BY <1>4, <2>1, OrderStep
<1>7. \A e \in Devs : Done(e) => Done(e)'
  BY PoolMetadataAssumption DEF Done
<1>8. MemoryBounded'
  <2>1. members \subseteq Devs /\ members' = members /\ bda' = bda /\ last' = last
    BY DEF Sound, TypeOK
  <2> QED
    BY <1>7, <2>1 DEF Sound, MemoryBounded
<1>9. SaveProgress'
  <2>1. ASSUME save.saved
        PROVE  \E e \in members : Done(e)' /\ RegionIs(disk'[e], Newer(bda[e]), save.hdr)
    <3>1. PICK e \in members : Done(e) /\ RegionIs(disk[e], Newer(bda[e]), save.hdr)
      BY <2>1 DEF Sound, SaveProgress
    <3>2. e # d /\ e \in Devs
      BY <3>1 DEF Done, Sound, TypeOK
    <3> QED
      BY <1>0, <1>7, <3>1, <3>2, Zenon DEF Sound, TypeOK
  <2> QED
    BY <2>1, Zenon DEF SaveProgress
<1>10. Current => CommittedKept' /\ CommittedMarked'
  BY <1>4, <1>7, Zenon DEF Sound, Current, TypeOK, CommittedKept, CommittedMarked, Keeps, Marks
<1> QED
  BY <1>5, <1>a, <1>6, <1>8, <1>9, <1>10 DEF Sound, Current

LEMMA FailFirstIInv ==
    ASSUME Sound, NEW d \in Devs, FailFirst(d)
    PROVE  Sound' /\ (Current => Current')
<1>1. /\ phase = "saving" /\ save.cur = NoDev /\ d \in save.todo
      /\ save' = [save EXCEPT !.todo = @ \ {d}]
      /\ UNCHANGED <<sig, bda, members, last, phase, ordered, attempts, recorded, committed>>
  BY DEF FailFirst
<1>2. PICK x \in SaveRegionCut(disk[d], Older(bda[d]), save.hdr) :
        disk' = [disk EXCEPT ![d] = x]
  BY Zenon DEF FailFirst
<1>3. d \in members /\ save \in SaveRecord
  BY <1>1 DEF Sound, TypeOK, Shape
<1>4. /\ save' \in SaveRecord /\ save'.hdr = save.hdr /\ save'.cur = NoDev
      /\ save'.todo = save.todo \ {d} /\ save'.saved = save.saved
  BY <1>1, <1>3 DEF SaveRecord
<1> QED
  BY <1>1, <1>2, <1>3, <1>4, FailStep, Zenon

LEMMA FailSecondIInv ==
    ASSUME Sound, FailSecond
    PROVE  Sound' /\ (Current => Current')
<1>1. /\ phase = "saving" /\ save.cur # NoDev
      /\ save' = [save EXCEPT !.cur = NoDev]
      /\ UNCHANGED <<sig, bda, members, last, phase, ordered, attempts, recorded, committed>>
  BY DEF FailSecond
<1>2. PICK x \in SaveRegionCut(disk[save.cur], CopyOf(Older(bda[save.cur])), save.hdr) :
        disk' = [disk EXCEPT ![save.cur] = x]
  BY Zenon DEF FailSecond
<1>3. save.cur \in members /\ save \in SaveRecord /\ save.cur \notin save.todo
  BY <1>1 DEF Sound, TypeOK, Shape
<1>4. /\ save' \in SaveRecord /\ save'.hdr = save.hdr /\ save'.cur = NoDev
      /\ save'.todo = save.todo \ {save.cur} /\ save'.saved = save.saved
  BY <1>1, <1>3 DEF SaveRecord
<1> QED
  BY <1>1, <1>2, <1>3, <1>4, FailStep, Zenon

(* The daemon dies: what was kept in memory no longer matters.             *)
LEMMA CrashIInv ==
    ASSUME Sound, Crash
    PROVE  Sound' /\ (Current => Current')
<1>0. /\ phase' = "down" /\ save' = NoSave /\ members' = {}
      /\ UNCHANGED <<sig, bda, last, ordered, attempts, recorded, committed>>
  BY DEF Crash
<1>1. /\ disk' \in [Devs -> Disk] /\ (Current => HeadersOrdered')
      /\ \A e \in Devs, r \in Primary :
            Keeps(e, r) => /\ Loadable(disk'[e], r)
                           /\ Load(disk'[e])[r].crc >= committed
      /\ \A e \in Devs, r \in Primary :
            Marks(e, r) => /\ disk'[e].valid[r]
                           /\ disk'[e].hdr[r].crc >= committed
  <2>1. CASE UNCHANGED disk
    BY <1>0, <2>1, Zenon DEF Sound, Current, TypeOK, HeadersOrdered, Keeps, Marks
  <2>2. ASSUME phase = "saving",
               NEW d \in members, d \in save.todo \/ d = save.cur,
               NEW q \in {Older(bda[d]), CopyOf(Older(bda[d]))},
               NEW x \in SaveRegionCut(disk[d], q, save.hdr),
               disk' = [disk EXCEPT ![d] = x]
        PROVE  <1>1!:
    <3>1. bda[d] \in [Primary -> MDAHeader] /\ disk[d] \in Disk /\ save.hdr \in MDAHeader
      BY DEF Sound, TypeOK, Shape, SaveRecord
    <3>2. q \in Regions
      BY <3>1, OlderNewer DEF Primary, Regions, CopyOf
    <3>3. WriteTo(disk[d], x, q, save.hdr)
      BY <3>1, <3>2, CutWrite
    <3>4. /\ disk' \in [Devs -> Disk]
          /\ \A e \in Devs, r \in Regions :
                disk'[e].hdr[r] \in {disk[e].hdr[r], save.hdr}
          /\ \A e \in Devs, r \in Primary :
                Keeps(e, r) => /\ Loadable(disk'[e], r)
                               /\ Load(disk'[e])[r].crc >= committed
          /\ \A e \in Devs, r \in Primary :
                Marks(e, r) => /\ disk'[e].valid[r]
                               /\ disk'[e].hdr[r].crc >= committed
      BY <2>2, <3>3, WriteStep, Zenon
    <3>5. Current => HeadersOrdered'
      BY <1>0, <2>2, <3>4, OrderStep, Zenon
    <3> QED
      BY <3>4, <3>5
  <2>3. CASE /\ phase = "saving" /\ save.cur # NoDev
             /\ \E x \in SaveRegionCut(disk[save.cur], CopyOf(Older(bda[save.cur])), save.hdr) :
                  disk' = [disk EXCEPT ![save.cur] = x]
    BY <2>2, <2>3, Zenon DEF Sound, Shape
  <2>4. CASE /\ phase = "saving" /\ save.cur = NoDev
             /\ \E d \in save.todo :
                  \E x \in SaveRegionCut(disk[d], Older(bda[d]), save.hdr) :
                     disk' = [disk EXCEPT ![d] = x]
    BY <2>2, <2>4, Zenon DEF Sound, Shape
  <2> QED
    BY <2>1, <2>3, <2>4, Zenon DEF Crash
<1>2. TypeOK'
  BY <1>0, <1>1 DEF Sound, TypeOK, NoSave, None, SaveRecord, MDAHeader
<1>3. Shape' /\ MemoryBounded' /\ SaveProgress'
  BY <1>0, Zenon DEF Sound, Shape, MemoryBounded, SaveProgress
<1>4. Current => CommittedKept' /\ CommittedMarked'
  BY <1>0, <1>1, Zenon DEF Sound, Current, TypeOK, CommittedKept, CommittedMarked, Keeps, Marks
<1> QED
  BY <1>1, <1>2, <1>3, <1>4, Zenon DEF Sound, Current

(* initialize_devices, however far it gets, writes only devices that carry *)
(* no header of the pool yet.                                              *)
LEMMA InitializeStep ==
    ASSUME Sound, phase # "saving", phase' # "saving",
           NEW T \in SUBSET Devs, T \cap sig = {}, sig' = sig \cup T,
           disk' \in [Devs -> Disk],
           \A e \in Devs \ T : disk'[e] = disk[e],
           \A e \in Devs, r \in Regions : disk'[e].hdr[r] \in {None, disk[e].hdr[r]},
           members' \subseteq members \cup T,
           \A e \in sig : bda'[e] = bda[e],
           attempts' = attempts, recorded' = recorded, committed' = committed
    PROVE  SaveProgress' /\ (Current => Current')
<1>1. /\ \A e \in Devs, r \in Regions : disk[e].hdr[r] \in MDAHeader
      /\ attempts \in Nat /\ None.time = 0 /\ None.crc = 0
  BY DEF Sound, TypeOK, Disk, None
<1>2. ASSUME Current PROVE HeadersOrdered'
  <2>1. \A e \in Devs, r \in Regions :
           /\ disk'[e].hdr[r].crc <= attempts
           /\ disk'[e].hdr[r].crc # 0 => disk'[e].hdr[r].time # 0
    <3>1. \A e \in Devs, r \in Regions :
             /\ disk[e].hdr[r].crc <= attempts
             /\ disk[e].hdr[r].crc # 0 => disk[e].hdr[r].time # 0
      BY <1>2 DEF Current, HeadersOrdered
    <3>2. None.crc <= attempts
      BY <1>1
    <3>3. TAKE e \in Devs, r \in Regions
    <3>4. CASE disk'[e].hdr[r] = None
      BY <1>1, <3>2, <3>4, Zenon
    <3>5. CASE disk'[e].hdr[r] = disk[e].hdr[r]
      BY <3>1, <3>5, Zenon
    <3>6. disk'[e].hdr[r] \in {None, disk[e].hdr[r]}
      OBVIOUS
    <3> QED
      BY <3>4, <3>5, <3>6, Zenon
  <2>2. ASSUME NEW d \in Devs, NEW e \in Devs, NEW r \in Regions, NEW q \in Regions,
               disk'[d].hdr[r].time <= disk'[e].hdr[q].time
        PROVE  disk'[d].hdr[r].crc <= disk'[e].hdr[q].crc
    <3>1. disk[d].hdr[r] \in MDAHeader /\ disk[e].hdr[q] \in MDAHeader
      BY <1>1
    <3>2. CASE disk'[d].hdr[r] = None
      BY <1>1, <3>1, <3>2 DEF MDAHeader
    <3>3. CASE disk'[d].hdr[r] # None
      <4>1. disk'[d].hdr[r] = disk[d].hdr[r]
        BY <3>3, Zenon
      <4>2. CASE disk'[e].hdr[q] = disk[e].hdr[q]
        BY <1>2, <2>2, <4>1, <4>2 DEF Current, HeadersOrdered
      <4>3. CASE disk'[e].hdr[q] = None
        <5>1. disk[d].hdr[r].time \in Nat /\ disk[d].hdr[r].time <= 0
          BY <1>1, <2>2, <3>1, <4>1, <4>3 DEF MDAHeader
        <5>2. disk[d].hdr[r].time = 0
          BY <5>1
        <5>3. disk[d].hdr[r].crc = 0
          BY <1>2, <5>2 DEF Current, HeadersOrdered
        <5> QED
          BY <1>1, <4>1, <4>3, <5>3
      <4> QED
        BY <4>2, <4>3
    <3> QED
      BY <3>2, <3>3
  <2> QED
    BY <2>1, <2>2 DEF HeadersOrdered
<1>3. \A e \in sig : e \in Devs \ T /\ (e \in members' => e \in members)
  BY DEF Sound, TypeOK
<1>4. Current => CommittedKept' /\ CommittedMarked'
  BY <1>3 DEF Current, CommittedKept, CommittedMarked, Keeps, Marks, Done
<1> QED
  BY <1>2, <1>4, Zenon DEF SaveProgress, Current

LEMMA AddIInv ==
    ASSUME Sound, NEW S \in SUBSET Devs, Add(S)
    PROVE  Sound' /\ (Current => Current')
<1>1. /\ phase = "idle" /\ phase' = "dirty" /\ S \cap sig = {} /\ sig' = sig \cup S
      /\ disk' = [d \in Devs |-> IF d \in S THEN Initialized(disk[d], Regions) ELSE disk[d]]
      /\ bda' = [d \in Devs |-> IF d \in S THEN [r \in Primary |-> None] ELSE bda[d]]
      /\ members' = members \cup S
      /\ UNCHANGED <<last, save, ordered, attempts, recorded, committed>>
  BY Zenon DEF Add
<1>2. disk' \in [Devs -> Disk] /\ bda' \in [Devs -> [Primary -> MDAHeader]]
  BY <1>1, InitializedDisk, Zenon DEF Sound, TypeOK, None, MDAHeader
<1>3. TypeOK' /\ Shape'
  BY <1>1, <1>2 DEF Sound, TypeOK, Shape
<1>4. MemoryBounded'
  <2>1. members \subseteq Devs /\ last \in Nat
    BY DEF Sound, TypeOK
  <2>2. ASSUME NEW e \in members', NEW r \in Primary
        PROVE  bda'[e][r].time <= last'
    <3>1. CASE e \in S
      <4>1. e \in Devs /\ bda'[e][r] = None /\ last' = last
        BY <1>1, <3>1
      <4> QED
        BY <2>1, <4>1 DEF None
    <3>2. CASE e \notin S
      <4>1. e \in members /\ bda'[e] = bda[e]
        BY <1>1, <2>1, <3>2
      <4> QED
        BY <1>1, <4>1 DEF Sound, MemoryBounded, Done
    <3> QED
      BY <3>1, <3>2
  <2> QED
    BY <2>2 DEF MemoryBounded
<1>5. SaveProgress' /\ (Current => Current')
  <2>1. \A e \in Devs, r \in Regions : disk'[e].hdr[r] \in {None, disk[e].hdr[r]}
    BY <1>1, InitializedDisk DEF Sound, TypeOK
  <2>2. \A e \in sig : bda'[e] = bda[e]
    BY <1>1 DEF Sound, TypeOK
  <2>3. \A e \in Devs \ S : disk'[e] = disk[e]
    BY <1>1
  <2> QED
    BY <1>1, <1>2, <2>1, <2>2, <2>3, InitializeStep, Zenon
<1> QED
  BY <1>3, <1>4, <1>5 DEF Sound

LEMMA AddCutIInv ==
    ASSUME Sound, NEW S \in SUBSET Devs, NEW d \in Devs, NEW done \in SUBSET Regions,
           AddCrash(S, d, done) \/ AddFail(S, d, done)
    PROVE  Sound' /\ (Current => Current')
<1>1. /\ phase = "idle" /\ S \cap sig = {} /\ d \notin sig \cup S
      /\ sig' = sig \cup S \cup {d}
      /\ disk' = [e \in Devs |-> IF e \in S THEN Initialized(disk[e], Regions)
                                 ELSE IF e = d THEN Initialized(disk[e], done)
                                 ELSE disk[e]]
  BY DEF AddCrash, AddFail, AddCut
<1>2. /\ \/ phase' = "down" /\ members' = {}
         \/ phase' = "idle" /\ members' = members
      /\ UNCHANGED <<bda, last, save, ordered, attempts, recorded, committed>>
  BY <1>1 DEF AddCrash, AddFail
<1>3. disk' \in [Devs -> Disk]
  BY <1>1, InitializedDisk DEF Sound, TypeOK
<1>4. TypeOK' /\ Shape' /\ MemoryBounded'
  BY <1>1, <1>2, <1>3, Zenon DEF Sound, TypeOK, Shape, MemoryBounded, Done
<1>5. SaveProgress' /\ (Current => Current')
  <2>1. \A e \in Devs, r \in Regions : disk'[e].hdr[r] \in {None, disk[e].hdr[r]}
    BY <1>1, InitializedDisk DEF Sound, TypeOK
  <2>2. (S \cup {d}) \cap sig = {} /\ sig' = sig \cup (S \cup {d})
        /\ (S \cup {d}) \in SUBSET Devs
    BY <1>1
  <2>3. \A e \in Devs \ (S \cup {d}) : disk'[e] = disk[e]
    BY <1>1
  <2>4. members' \subseteq members \cup (S \cup {d}) /\ phase # "saving" /\ phase' # "saving"
    BY <1>1, <1>2
  <2> QED
    BY <1>2, <1>3, <2>1, <2>2, <2>3, <2>4, InitializeStep, Zenon
<1> QED
  BY <1>4, <1>5 DEF Sound

----------------------------------------------------------------------------
(* What get_metadata returns is in the newest region of a device it saw,   *)
(* and is as late as every header on those devices.                        *)
LEMMA LatestPayload ==
    ASSUME Sound, Current, NEW S \in SUBSET Devs, GetBdasOk(S), NEW v \in GetMetadata(S)
    PROVE  \E g \in S :
              /\ Load(disk[g])[Newer(Load(disk[g]))].crc = v
              /\ Loadable(disk[g], Newer(Load(disk[g])))
              /\ \A e \in S, r \in Primary : Load(disk[e])[r].crc <= v
<1>1. PICK g \in Latest(S) : v = LoadState(disk[g], Load(disk[g])) /\ v \notin {ReadError, NoData}
  BY DEF GetMetadata
<1>2. g \in S /\ \A e \in S : Time(e) <= Time(g)
  BY DEF Latest
<1> DEFINE n == Newer(Load(disk[g]))
<1>3. \A e \in Devs : /\ Load(disk[e]) \in [Primary -> MDAHeader]
                      /\ \A r \in Primary : \E q \in Regions : Load(disk[e])[r] = disk[e].hdr[q]
  BY DEF Sound, TypeOK, Disk, Load, Primary, Regions, CopyOf
<1>4. Load(disk[g])[n].crc = v /\ Loadable(disk[g], n) /\ n \in Primary
  BY <1>1, <1>2, <1>3, OlderNewer, Zenon DEF LoadState, Loadable
<1>5. ASSUME NEW e \in S, NEW r \in Primary
      PROVE  Load(disk[e])[r].crc <= v
  <2>1. Load(disk[e])[r].time <= Time(e) /\ Load(disk[e])[r].time \in Nat /\ Time(e) \in Nat
    BY <1>3, NewerIsLatest DEF Time, MDAHeader
  <2>2. Time(e) <= Load(disk[g])[n].time /\ Load(disk[g])[n].time \in Nat
    BY <1>2, <1>3, <1>4, Zenon DEF Time, LastUpdateTime, MDAHeader
  <2>3. Load(disk[e])[r].time <= Load(disk[g])[n].time
    BY <2>1, <2>2, AtMostTrans
  <2>4. PICK q \in Regions : Load(disk[e])[r] = disk[e].hdr[q]
    BY <1>3
  <2>5. PICK p \in Regions : Load(disk[g])[n] = disk[g].hdr[p]
    BY <1>2, <1>3, <1>4
  <2>6. Load(disk[e])[r].crc <= Load(disk[g])[n].crc
    BY <1>2, <2>3, <2>4, <2>5, Zenon DEF Current, HeadersOrdered
  <2> QED
    BY <1>4, <2>6, Zenon
<1> QED
  BY <1>2, <1>4, <1>5

LEMMA SetupIInv ==
    ASSUME Sound, NEW S \in SUBSET Devs, NEW v \in 1 .. MaxSaves, Setup(S, v)
    PROVE  Sound' /\ (Current => Current')
<1>1. /\ phase = "down" /\ S \subseteq sig /\ GetBdasOk(S) /\ v \in GetMetadata(S)
      /\ bda' = [d \in Devs |-> IF d \in S THEN Load(disk[d]) ELSE bda[d]]
      /\ members' = S /\ phase' = "idle"
      /\ UNCHANGED <<sig, disk, save, ordered, attempts, recorded, committed>>
  BY DEF Setup
<1>2. PICK d \in Latest(S) : last' = Time(d)
  BY DEF Setup
<1>3. d \in S /\ \A e \in S : Time(e) <= Time(d)
  BY DEF Latest
<1>4. \A e \in Devs : /\ Load(disk[e]) \in [Primary -> MDAHeader]
                      /\ \A r \in Primary : \E q \in Regions : Load(disk[e])[r] = disk[e].hdr[q]
  BY DEF Sound, TypeOK, Disk, Load, Primary, Regions, CopyOf
<1>5. last' \in Nat
  BY <1>2, <1>3, <1>4, NewerIsLatest, Zenon DEF Time
<1>6. TypeOK'
  BY <1>1, <1>4, <1>5 DEF Sound, TypeOK
<1>7. Shape' /\ SaveProgress' /\ (Current => HeadersOrdered' /\ CommittedMarked')
  BY <1>1, <1>5, Zenon DEF Sound, Current, Shape, HeadersOrdered, SaveProgress, CommittedMarked, Marks
<1>8. MemoryBounded'
  <2>1. ASSUME NEW e \in S, NEW r \in Primary
        PROVE  bda'[e][r].time <= last'
    <3>1. bda'[e] = Load(disk[e]) /\ Load(disk[e])[r].time \in Nat
      BY <1>1, <1>4, Zenon DEF MDAHeader
    <3>2. Load(disk[e])[r].time <= Time(e) /\ Time(e) \in Nat
      BY <1>4, NewerIsLatest DEF Time
    <3>3. Time(e) <= Time(d) /\ last' = Time(d) /\ Time(d) \in Nat
      BY <1>2, <1>3, <1>5, Zenon
    <3>4. Load(disk[e])[r].time <= Time(d)
      BY <3>1, <3>2, <3>3
    <3> QED
      BY <3>1, <3>3, <3>4, Zenon
  <2> QED
    BY <1>1, <2>1, Zenon DEF MemoryBounded
<1>9. ASSUME Current PROVE CommittedKept'
  <2> SUFFICES ASSUME committed # 0
               PROVE  \E e \in sig, r \in Primary : Keeps(e, r)'
    BY <1>1 DEF CommittedKept
  <2>1. PICK e \in sig, r \in Primary : Keeps(e, r)
    BY <1>9 DEF Current, CommittedKept
  <2>2. CASE e \notin S
    BY <1>1, <2>1, <2>2, Zenon DEF Keeps
  <2>3. CASE e \in S
    <3>1. PICK g \in S : /\ Load(disk[g])[Newer(Load(disk[g]))].crc = v
                         /\ Loadable(disk[g], Newer(Load(disk[g])))
                         /\ \A f \in S, q \in Primary : Load(disk[f])[q].crc <= v
      BY <1>1, <1>9, LatestPayload, Zenon
    <3>2. Load(disk[e])[r].crc \in Nat /\ committed \in Nat
      <4>1. Load(disk[e])[r] \in MDAHeader
        BY <1>4, <2>3
      <4>2. committed \in Nat
        BY DEF Sound, TypeOK
      <4> QED
        BY <4>1, <4>2 DEF MDAHeader
    <3>3. v >= committed
      <4>1. Load(disk[e])[r].crc >= committed
        BY <2>1, Zenon DEF Keeps
      <4>2. Load(disk[e])[r].crc <= v
        BY <2>3, <3>1
      <4>3. v \in Nat
        <5>1. Newer(Load(disk[g])) \in Primary
          BY <1>4, OlderNewer
        <5>2. Load(disk[g])[Newer(Load(disk[g]))].crc \in Nat
          BY <1>4, <5>1, Zenon DEF MDAHeader
        <5> QED
          BY <3>1, <5>2
      <4> QED
        BY <3>2, <4>1, <4>2, <4>3, AtMostTrans, Zenon
    <3>4. Newer(Load(disk[g])) \in Primary /\ bda'[g] = Load(disk[g]) /\ g \in sig
      BY <1>1, <1>4, OlderNewer
    <3> QED
      BY <1>1, <3>1, <3>3, <3>4 DEF Keeps
  <2> QED
    BY <2>2, <2>3
<1> QED
  BY <1>6, <1>7, <1>8, <1>9 DEF Sound, Current

(* ... in sum: IInv is inductive.                                          *)
LEMMA NextIInv == IInv /\ [Next]_vars => IInv'
<1> SUFFICES ASSUME Sound, ordered => Current, [Next]_vars PROVE Sound' /\ (ordered' => Current')
  BY DEF IInv
<1>1. CASE UNCHANGED vars
  <2>1. Sound'
    BY <1>1, Zenon DEF vars, Sound, TypeOK, Shape, MemoryBounded, SaveProgress, Done
  <2>2. ordered' => Current'
    BY <1>1, Zenon DEF vars, Current, HeadersOrdered, CommittedKept,
                CommittedMarked, Keeps, Marks, Done
  <2> QED
    BY <2>1, <2>2
<1>2. CASE Change
  <2>1. ordered' = ordered
    BY <1>2, Zenon DEF Change
  <2> QED
    BY <1>2, <2>1, ChangeIInv
<1>3. CASE SaveSecond
  <2>1. ordered' = ordered
    BY <1>3, Zenon DEF SaveSecond
  <2> QED
    BY <1>3, <2>1, SaveSecondIInv
<1>4. CASE FailSecond
  <2>1. ordered' = ordered
    BY <1>4, Zenon DEF FailSecond
  <2> QED
    BY <1>4, <2>1, FailSecondIInv
<1>5. CASE EndSave
  <2>1. ordered' = ordered
    BY <1>5, Zenon DEF EndSave
  <2> QED
    BY <1>5, <2>1, EndSaveIInv
<1>6. CASE Crash
  <2>1. ordered' = ordered
    BY <1>6, Zenon DEF Crash
  <2> QED
    BY <1>6, <2>1, CrashIInv
<1>7. ASSUME NEW S \in SUBSET Devs, Add(S) PROVE Sound' /\ (ordered' => Current')
  <2>1. ordered' = ordered
    BY <1>7, Zenon DEF Add
  <2> QED
    BY <1>7, <2>1, AddIInv
<1>8. ASSUME NEW S \in SUBSET Devs, NEW d \in Devs, NEW done \in SUBSET Regions,
             AddCrash(S, d, done) \/ AddFail(S, d, done)
      PROVE  Sound' /\ (ordered' => Current')
  <2>1. ordered' = ordered
    BY <1>8, Zenon DEF AddCrash, AddFail
  <2> QED
    BY <1>8, <2>1, AddCutIInv
<1>9. ASSUME NEW now \in 1 .. MaxTime, NEW S \in SUBSET Devs, BeginSave(now, S)
      PROVE  Sound' /\ (ordered' => Current')
  <2>1. ordered' => ordered /\ LaterThanAll(StampTime(now))
    BY <1>9, Zenon DEF BeginSave
  <2> QED
    BY <1>9, <2>1, BeginSaveIInv
<1>10. ASSUME NEW d \in Devs, SaveFirst(d) \/ FailFirst(d) PROVE Sound' /\ (ordered' => Current')
  <2>1. ordered' = ordered
    BY <1>10, Zenon DEF SaveFirst, FailFirst
  <2> QED
    BY <1>10, <2>1, SaveFirstIInv, FailFirstIInv
<1>11. ASSUME NEW S \in (SUBSET Devs) \ {{}}, NEW v \in 1 .. MaxSaves, Setup(S, v)
       PROVE  Sound' /\ (ordered' => Current')
  <2>1. ordered' = ordered
    BY <1>11, Zenon DEF Setup
  <2> QED
    BY <1>11, <2>1, SetupIInv
<1> QED
  BY <1>1, <1>2, <1>3, <1>4, <1>5, <1>6, <1>7, <1>8, <1>9, <1>10, <1>11 DEF Next

----------------------------------------------------------------------------
(* The theorems.                                                           *)
(* The inductive invariant holds throughout.                               *)
THEOREM Invariance == Spec => []IInv
<1>1. Init => IInv
  BY InitIInv
<1>2. IInv /\ [Next]_vars => IInv'
  BY NextIInv
<1> QED
  BY <1>1, <1>2, PTL DEF Spec

(* The state keeps its types.                                              *)
THEOREM TypeCorrect == Spec => []TypeOK
<1>1. IInv => TypeOK
  BY DEF IInv, Sound
<1> QED
  BY <1>1, Invariance, PTL

(* What a save that returned Ok wrote, or something later, stays readable  *)
(* on some device, through any I/O errors, crashes and restarts, on any    *)
(* number of devices, as long as each save gets a later time than any that *)
(* is on the devices.                                                      *)
THEOREM CommittedStaysOnDisk == Spec => []CommittedOnDisk
<1>1. IInv => CommittedOnDisk
  BY Zenon DEF IInv, Current, CommittedKept, Keeps, CommittedOnDisk
<1> QED
  BY <1>1, Invariance, PTL

(* get_metadata on all the devices of the last saved state never returns   *)
(* an older state, however few devices the save wrote to, as long as each  *)
(* save gets a later time than any that is on the devices.                 *)
THEOREM FullViewIsCurrent == Spec => []FullViewNeverStale
<1>1. IInv => FullViewNeverStale
  <2> SUFFICES ASSUME Sound, Current, NEW S \in SUBSET sig, committed # 0, GetBdasOk(S),
                      recorded[committed] \subseteq S, NEW v \in GetMetadata(S)
               PROVE  v >= committed
    BY DEF IInv, FullViewNeverStale
  <2>1. PICK d \in sig, r \in Primary : d \in recorded[committed] /\ Marks(d, r)
    BY DEF Current, CommittedMarked
  <2>2. Load(disk[d])[r] = disk[d].hdr[r] /\ Load(disk[d])[r].crc >= committed
    BY <2>1 DEF Marks, Load
  <2>3. S \in SUBSET Devs /\ disk[d].hdr[r].crc \in Nat /\ committed \in Nat
    <3>1. d \in Devs /\ S \in SUBSET Devs /\ disk[d] \in Disk /\ committed \in Nat
      BY DEF Sound, TypeOK
    <3>2. r \in Regions
      BY DEF Primary, Regions
    <3> QED
      BY <3>1, <3>2 DEF Disk, MDAHeader
  <2>4. PICK g \in S : /\ Load(disk[g])[Newer(Load(disk[g]))].crc = v
                       /\ \A e \in S, q \in Primary : Load(disk[e])[q].crc <= v
    BY <2>3, LatestPayload
  <2>5. v \in Nat
    <3>1. Load(disk[g]) \in [Primary -> MDAHeader]
      BY <2>3 DEF Sound, TypeOK, Disk, Load, Primary, Regions, CopyOf
    <3> QED
      BY <2>4, <3>1, OlderNewer DEF MDAHeader
  <2>6. Load(disk[d])[r].crc <= v
    BY <2>1, <2>4
  <2>7. Load(disk[d])[r].crc \in Nat
    BY <2>2, <2>3
  <2> QED
    BY <2>2, <2>3, <2>5, <2>6, <2>7
<1> QED
  BY <1>1, Invariance, PTL

(* No device refuses a save for being newer than what is to be written,    *)
(* whether the wall clock advances, stands still or goes back: a reading   *)
(* no later than last_update_time is replaced by the time just after it.   *)
THEOREM SavesAreAccepted == Spec => []SaveNeverRejected
<1>1. IInv => SaveNeverRejected
  <2> SUFFICES ASSUME Sound, phase = "saving", NEW d \in save.todo
               PROVE  LastUpdateTime(bda[d]) < save.hdr.time
    BY DEF IInv, SaveNeverRejected
  <2>1. /\ d \in members /\ bda[d] \in [Primary -> MDAHeader]
        /\ save.hdr \in MDAHeader /\ last \in Nat /\ last < save.hdr.time
    BY Zenon DEF Sound, TypeOK, Shape, SaveRecord
  <2>2. \A r \in Primary : bda[d][r].time <= last
    BY <2>1 DEF Sound, MemoryBounded, Done
  <2> QED
    BY <2>1, <2>2, OlderNewer DEF LastUpdateTime, MDAHeader
<1> QED
  BY <1>1, Invariance, PTL

----------------------------------------------------------------------------
(* What can make a device lose its newest data.                            *)

(* A device without a static header of the pool has never been written to. *)
Untouched == \A d \in Devs \ sig : disk[d] = BlankDisk

LEMMA UntouchedInit == Init => Untouched
BY DEF Init, Untouched

LEMMA UntouchedStep == Sound /\ Untouched /\ [Next]_vars => Untouched'
<1> SUFFICES ASSUME Sound, Untouched, [Next]_vars, NEW d \in Devs \ sig' PROVE disk'[d] = BlankDisk
  BY DEF Untouched
<1>1. /\ disk \in [Devs -> Disk] /\ sig \subseteq Devs /\ members \subseteq sig
      /\ phase = "saving" => save.todo \subseteq sig /\ save.cur \in sig \cup {NoDev}
  BY DEF Sound, TypeOK, Shape
<1>2. ASSUME sig' = sig, NEW e \in sig, NEW x, disk' = [disk EXCEPT ![e] = x] PROVE disk'[d] = BlankDisk
  BY <1>1, <1>2 DEF Untouched
<1>3. ASSUME sig' = sig, disk' = disk PROVE disk'[d] = BlankDisk
  BY <1>3, Zenon DEF Untouched
<1>4. ASSUME NEW S \in SUBSET Devs, NEW e \in Devs, NEW done \in SUBSET Regions, AddCut(S, e, done)
      PROVE  disk'[d] = BlankDisk
  BY <1>1, <1>4, Zenon DEF AddCut, Untouched
<1>5. ASSUME NEW S \in SUBSET Devs, Add(S) PROVE disk'[d] = BlankDisk
  BY <1>1, <1>5, Zenon DEF Add, Untouched
<1>6. ASSUME Crash PROVE disk'[d] = BlankDisk
  BY <1>1, <1>2, <1>3, <1>6 DEF Crash
<1>7. ASSUME SaveSecond \/ FailSecond PROVE disk'[d] = BlankDisk
  BY <1>1, <1>2, <1>7 DEF SaveSecond, FailSecond
<1>8. ASSUME NEW e \in Devs, SaveFirst(e) \/ FailFirst(e) PROVE disk'[d] = BlankDisk
  BY <1>1, <1>2, <1>3, <1>8 DEF SaveFirst, FailFirst
<1>9. ASSUME Change \/ EndSave \/ UNCHANGED vars PROVE disk'[d] = BlankDisk
  BY <1>3, <1>9 DEF Change, EndSave, vars
<1>10. ASSUME NEW now, NEW S \in SUBSET Devs, BeginSave(now, S) PROVE disk'[d] = BlankDisk
  BY <1>3, <1>10, Zenon DEF BeginSave
<1>11. ASSUME NEW S, NEW v, Setup(S, v) PROVE disk'[d] = BlankDisk
  BY <1>3, <1>11 DEF Setup
<1> QED
  BY <1>4, <1>5, <1>6, <1>7, <1>8, <1>9, <1>10, <1>11 DEF Next, AddCrash, AddFail

TornDisk(k) == LoadOk(k) /\ LoadState(k, Load(k)) = ReadError

(* A device that has only empty headers has nothing to lose.               *)
LEMMA EmptyIsNotTorn ==
    ASSUME NEW k \in Disk, \A r \in Regions : k.hdr[r] = None
    PROVE  ~TornDisk(k)
<1>1. \A r \in Primary : Load(k)[r] = None
  BY DEF Load, Primary, Regions, CopyOf
<1>2. Load(k) \in [Primary -> MDAHeader]
  BY DEF Disk, Load, Primary, Regions, CopyOf
<1>3. Load(k)[Newer(Load(k))] = None
  BY <1>1, <1>2, OlderNewer
<1> QED
  BY <1>3 DEF TornDisk, LoadState, NoData, ReadError

(* Whatever is written in place of the second copy of a region that is     *)
(* complete, the device is torn then only if it was before.                *)
LEMMA SecondCopyHarmless ==
    ASSUME NEW k \in Disk, NEW r \in Primary, NEW h \in MDAHeader, RegionIs(k, r, h),
           NEW v, NEW g, NEW x, TornDisk(Write(k, CopyOf(r), v, g, x))
    PROVE  TornDisk(k)
<1> DEFINE w == Write(k, CopyOf(r), v, g, x)
           n == Newer(Load(k))
<1>1. /\ \A q \in Regions : q # CopyOf(r) => /\ w.valid[q] = k.valid[q] /\ w.hdr[q] = k.hdr[q]
                                           /\ w.data[q] = k.data[q]
      /\ CopyOf(r) \notin Primary
  BY DEF Write, Disk, Primary, Regions, CopyOf
<1> HIDE DEF w
<1>2. /\ w.valid[r] /\ k.valid[r] /\ k.hdr[r] = h /\ w.data[r] = h.crc /\ w.hdr[r] = h
      /\ \A q \in Primary : q \in Regions
      /\ \A q \in Primary : q # r => CopyOf(q) \in Regions /\ CopyOf(q) # CopyOf(r)
  <2>1. \A q \in Primary : q \in Regions
    BY DEF Primary, Regions
  <2>2. \A q \in Primary : q # r => CopyOf(q) \in Regions /\ CopyOf(q) # CopyOf(r)
    BY DEF Primary, Regions, CopyOf
  <2>3. r \in Regions /\ r # CopyOf(r)
    BY <1>1, <2>1, Zenon
  <2>4. k.valid[r] /\ k.hdr[r] = h /\ k.data[r] = h.crc
    BY Zenon DEF RegionIs
  <2> QED
    BY <1>1, <2>1, <2>2, <2>3, <2>4, Zenon
<1>3. Load(w) = Load(k)
  BY <1>1, <1>2, Zenon DEF Load
<1>4. LoadOk(w) => LoadOk(k)
  BY <1>1, <1>2, Zenon DEF LoadOk
<1>5. n \in Primary
  <2>1. Load(k) \in [Primary -> MDAHeader]
    BY DEF Disk, Load, Primary, Regions, CopyOf
  <2> QED
    BY <2>1, OlderNewer
<1>6. LoadOk(w) /\ LoadState(w, Load(k)) = ReadError
  BY <1>3 DEF TornDisk, w
<1>7. CASE n = r
  <2>1. Load(k)[n] = h
    BY <1>2, <1>7, Zenon DEF Load
  <2>2. LoadState(w, Load(k)) \in {NoData, h.crc}
    BY <1>2, <1>7, <2>1, Zenon DEF LoadState
  <2>3. h.crc \in Nat
    BY DEF MDAHeader
  <2> QED
    BY <1>6, <2>2, <2>3 DEF NoData, ReadError
<1>8. CASE n # r
  <2>1. w.data[n] = k.data[n] /\ w.data[CopyOf(n)] = k.data[CopyOf(n)]
    BY <1>1, <1>2, <1>5, <1>8, Zenon
  <2>2. LoadState(w, Load(k)) = LoadState(k, Load(k))
    BY <2>1, Zenon DEF LoadState
  <2> QED
    BY <1>4, <1>6, <2>2 DEF TornDisk
<1> QED
  BY <1>7, <1>8

(* The newest data of a device is lost only while the first copy of a      *)
(* region is written on it: the second copy, a device that is being added, *)
(* and a start can do no such harm.                                        *)
THEOREM OnlyFirstCopyTears == Spec => TornOnlyInFirstCopy
<1> DEFINE P == \A d \in Devs : Torn(d)' /\ ~Torn(d) =>
                  phase = "saving" /\ save.cur = NoDev /\ d \in save.todo
<1>1. ASSUME Sound, Untouched, [Next]_vars PROVE P
  <2> SUFFICES ASSUME NEW d \in Devs, Torn(d)', ~Torn(d),
                      ~(phase = "saving" /\ save.cur = NoDev /\ d \in save.todo)
               PROVE  FALSE
    OBVIOUS
  <2>1. /\ TornDisk(disk'[d]) /\ ~TornDisk(disk[d]) /\ disk'[d] # disk[d]
        /\ disk \in [Devs -> Disk] /\ save.hdr \in MDAHeader
    BY <1>1, Zenon DEF Torn, TornDisk, Sound, TypeOK, SaveRecord
  <2>2. ASSUME phase = "saving", save.cur # NoDev, NEW x,
               disk' = [disk EXCEPT ![save.cur] = x],
               \E v, g, y : x = Write(disk[save.cur], CopyOf(Older(bda[save.cur])), v, g, y)
        PROVE  FALSE
    <3>1. d = save.cur /\ disk'[d] = x
      BY <2>1, <2>2
    <3>2. RegionIs(disk[d], Older(bda[d]), save.hdr) /\ Older(bda[d]) \in Primary
      <4>1. bda[d] \in [Primary -> MDAHeader]
        BY <1>1 DEF Sound, TypeOK
      <4> QED
        BY <1>1, <2>2, <3>1, <4>1, OlderNewer, Zenon DEF Sound, SaveProgress
    <3>3. PICK v, g, y : x = Write(disk[d], CopyOf(Older(bda[d])), v, g, y)
      BY <2>2, <3>1, Zenon
    <3> DEFINE k == disk[d]
               r == Older(bda[d])
    <3>4. k \in Disk /\ ~TornDisk(k) /\ TornDisk(Write(k, CopyOf(r), v, g, y))
      BY <2>1, <3>1, <3>3, Zenon
    <3>5. r \in Primary /\ save.hdr \in MDAHeader /\ RegionIs(k, r, save.hdr)
      BY <2>1, <3>2
    <3> HIDE DEF k, r
    <3> QED
      BY <3>4, <3>5, SecondCopyHarmless, Zenon
  <2>3. ASSUME SaveSecond \/ FailSecond \/ (Crash /\ save.cur # NoDev /\ phase = "saving") PROVE FALSE
    <3> DEFINE c == save.cur
               q == CopyOf(Older(bda[c]))
    <3>1. \A x \in SaveRegionCut(disk[c], q, save.hdr) \cup {SaveRegion(disk[c], q, save.hdr)} :
             \E v, g, y : x = Write(disk[c], q, v, g, y)
      BY Zenon DEF SaveRegionCut, SaveRegion
    <3>2. /\ phase = "saving" /\ c # NoDev
          /\ \/ disk' = disk
             \/ \E x \in SaveRegionCut(disk[c], q, save.hdr) \cup {SaveRegion(disk[c], q, save.hdr)} :
                   disk' = [disk EXCEPT ![c] = x]
      BY <2>3 DEF SaveSecond, FailSecond, Crash
    <3> QED
      BY <2>1, <2>2, <3>1, <3>2, Zenon
  <2>4. ASSUME NEW S \in SUBSET Devs, NEW e \in Devs, NEW done \in SUBSET Regions,
               Add(S) \/ AddCut(S, e, done)
        PROVE  FALSE
    <3>1. d \notin sig /\ disk'[d] \in {Initialized(disk[d], Regions), Initialized(disk[d], done)}
      BY <2>1, <2>4, Zenon DEF Add, AddCut
    <3>2. disk[d] = BlankDisk /\ disk[d] \in Disk
      BY <1>1, <2>1, <3>1 DEF Untouched
    <3>3. \A r \in Regions : disk[d].hdr[r] = None
      BY <3>2 DEF BlankDisk
    <3>4. disk'[d] \in Disk /\ \A r \in Regions : disk'[d].hdr[r] = None
      <4> DEFINE k == disk[d]
      <4>1. k \in Disk /\ \A r \in Regions : k.hdr[r] = None
        BY <3>2, <3>3
      <4> HIDE DEF k
      <4>2. \A R \in SUBSET Regions : /\ Initialized(k, R) \in Disk
                                     /\ \A r \in Regions : Initialized(k, R).hdr[r] = None
        BY <4>1, InitializedDisk
      <4>3. Regions \in SUBSET Regions /\ done \in SUBSET Regions
        OBVIOUS
      <4> QED
        BY <3>1, <4>2, <4>3 DEF k
    <3> QED
      BY <2>1, <3>4, EmptyIsNotTorn
  <2>5. ASSUME disk' = disk PROVE FALSE
    BY <2>1, <2>5
  <2>6. ASSUME NEW e \in Devs, SaveFirst(e) \/ FailFirst(e) PROVE FALSE
    BY <2>1, <2>6, Zenon DEF SaveFirst, FailFirst
  <2>7. ASSUME Crash, ~(save.cur # NoDev /\ phase = "saving") PROVE FALSE
    BY <2>1, <2>7 DEF Crash
  <2>8. ASSUME Change \/ EndSave \/ UNCHANGED vars PROVE disk' = disk
    BY <2>8, Zenon DEF Change, EndSave, vars
  <2>9. ASSUME NEW now, NEW S, BeginSave(now, S) PROVE disk' = disk
    BY <2>9, Zenon DEF BeginSave
  <2>10. ASSUME NEW S, NEW v, Setup(S, v) PROVE disk' = disk
    BY <2>10 DEF Setup
  <2> QED
    BY <1>1, <2>3, <2>4, <2>5, <2>6, <2>7, <2>8, <2>9, <2>10, Zenon DEF Next, AddCrash, AddFail
<1>2. IInv /\ Untouched /\ [Next]_vars => [P]_vars
  BY <1>1 DEF IInv
<1> HIDE DEF P
<1>3. Spec => [][P]_vars
  <2>1. IInv => Sound
    BY DEF IInv
  <2> QED
    BY <1>2, <2>1, Invariance, UntouchedInit, UntouchedStep, PTL DEF Spec
<1> QED
  BY <1>3 DEF P, TornOnlyInFirstCopy
============================================================================
