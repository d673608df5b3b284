----------------------------- MODULE MdaRegions -----------------------------
(***************************************************************************)
(* The metadata area (MDA) of one block device: two primary regions, 0 and *)
(* 1, and a copy of each, 2 and 3.  A region is a header and the variable  *)
(* length metadata that the header describes.  This module holds what      *)
(* MDARegions and MDAHeader compute; the modules that extend it hold the   *)
(* state.                                                                  *)
(*                                                                         *)
(* A payload is a positive integer that identifies one serialized pool     *)
(* state.  The pair (used, data_crc) of a header is that integer too: CRC  *)
(* collisions are left out.  A time is a natural number, 0 standing for no *)
(* time at all.                                                            *)
(***************************************************************************)
EXTENDS Integers, FiniteSets

Primary == 0 .. 1          \* NUM_PRIMARY_MDA_REGIONS
Regions == 0 .. 3          \* NUM_MDA_REGIONS
CopyOfSelf(r) == r         \* mutant: no second copy
CopyOf(r) == r + 2         \* index + NUM_PRIMARY_MDA_REGIONS

Junk == -1                 \* bytes whose CRC matches no header
ReadError == -1            \* load_state returned Err
NoData == 0                \* load_state returned Ok(None)

(* An in-memory Option<MDAHeader>: None is the header with used = 0.       *)
MDAHeader == [time : Nat, crc : Nat]
None == [time |-> 0, crc |-> 0]

(* What lies on a device: per region, whether the header's own CRC matches,*)
(* the header, and the bytes behind it.                                    *)
Disk == [valid : [Regions -> BOOLEAN],
         hdr   : [Regions -> MDAHeader],
         data  : [Regions -> Int]]

(* A device that never went through MDARegions::initialize.                *)
BlankDisk == [valid |-> [r \in Regions |-> FALSE],
              hdr   |-> [r \in Regions |-> None],
              data  |-> [r \in Regions |-> Junk]]

(* MDARegions::initialize, with the regions in done written: a default     *)
(* header has a good CRC and used = 0; the bytes behind it stay.           *)
Initialized(d, done) ==
    [valid |-> [r \in Regions |-> r \in done \/ d.valid[r]],
     hdr   |-> [r \in Regions |-> IF r \in done THEN None ELSE d.hdr[r]],
     data  |-> d.data]

----------------------------------------------------------------------------
(* MDARegions::load: each primary header, or its copy if the first one is  *)
(* ill-formed; an error if both are.                                       *)
LoadOk(d) == \A r \in Primary : d.valid[r] \/ d.valid[CopyOf(r)]

Load(d) ==
    [r \in Primary |-> IF d.valid[r] THEN d.hdr[r] ELSE d.hdr[CopyOf(r)]]

(* MDARegions::older and newer.                                            *)
OlderIsNewer(m) ==         \* mutant: the comparison the wrong way round
    IF m[0] = None THEN 0
    ELSE IF m[1] = None THEN 1
    ELSE IF m[0].time > m[1].time THEN 0 ELSE 1

Older(m) ==
    IF m[0] = None THEN 0
    ELSE IF m[1] = None THEN 1
    ELSE IF m[0].time < m[1].time THEN 0 ELSE 1

Newer(m) == 1 - Older(m)

LastUpdateTime(m) == m[Newer(m)].time

(* MDARegions::load_state: the data the newer header describes, from its   *)
(* region or else from the copy of that region.                            *)
LoadState(d, m) ==
    LET n == Newer(m) IN
    IF m[n] = None THEN NoData
    ELSE IF m[n].crc \in {d.data[n], d.data[CopyOf(n)]} THEN m[n].crc
    ELSE ReadError

----------------------------------------------------------------------------
(* One region overwritten: whether its header is well-formed, its header   *)
(* and its data.                                                           *)
Write(d, r, v, h, x) ==
    [valid |-> [d.valid EXCEPT ![r] = v],
     hdr   |-> [d.hdr   EXCEPT ![r] = h],
     data  |-> [d.data  EXCEPT ![r] = x]]

(* The closure save_region of MDARegions::save_state, run to its end ...   *)
SaveRegion(d, r, h) == Write(d, r, TRUE, h, h.crc)

(* ... and what may be on the device if it stops before sync_all returned. *)
(* The header is one write inside one sector: it is the old or the new one.*)
(* The data is a second write of many sectors: old, new or a mixture.      *)
SaveRegionCut(d, r, h) ==
    LET Bytes == {d.data[r], h.crc, Junk}
    IN  {Write(d, r, d.valid[r], d.hdr[r], x) : x \in Bytes}
        \cup {Write(d, r, TRUE, h, x) : x \in Bytes}

(* What the header of region r describes can be read from region r or from *)
(* its copy.                                                               *)
Loadable(d, r) ==
    LET h == Load(d)[r] IN h # None /\ h.crc \in {d.data[r], d.data[CopyOf(r)]}
============================================================================
