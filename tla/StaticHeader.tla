---------------------------- MODULE StaticHeader ----------------------------
(***************************************************************************)
(* The two signature blocks of a device: written one after the other by    *)
(* StaticHeader::write, zeroed by wipe, and compared and mended by         *)
(* repair_sigblocks whenever somebody asks what the device is.  Either     *)
(* block may rot or refuse to be read, a write may fail, and the daemon    *)
(* may die between two writes.                                             *)
(***************************************************************************)
EXTENDS Naturals

CONSTANTS
    Ids,            \* pool and device UUID
    MaxTime,        \* bound: the seconds the clock shows
    MaxFaults       \* bound: blocks harmed, writes failed, crashes

ASSUME StaticHeaderAssumption == MaxTime \in Nat /\ MaxFaults \in Nat

Header == [id : Ids, time : 0 .. MaxTime]     \* time: initialization_time
NoHeader == [id |-> "no magic", time |-> 0]
Invalid == [id |-> "bad CRC", time |-> 0]
Error == [id |-> "error", time |-> 0]
Locs == 1 .. 2                                \* MetadataLocation

ASSUME IdsAssumption == {"no magic", "bad CRC", "error"} \cap Ids = {}

VARIABLES
    block,          \* what sigblock_from_buf makes of each block
    unreadable,     \* the blocks that cannot be read at present
    phase,          \* "idle", "init" (the first block is written)
    clock,
    faults,
    begun,          \* headers that were being written since the last wipe
    latest,         \* the header that was being written last
    done,           \* the header whose write returned Ok, if nothing followed it
    asked, answer   \* the last repair_sigblocks: with which closure and file, its result

vars == <<block, unreadable, phase, clock, faults, begun, latest, done, asked, answer>>
ghosts == <<begun, latest, done>>

Init ==
    /\ block = [l \in Locs |-> NoHeader]
    /\ unreadable = {} /\ phase = "idle" /\ clock = 0 /\ faults = 0
    /\ begun = {} /\ latest = NoHeader /\ done = NoHeader
    /\ asked = "nobody" /\ answer = NoHeader

----------------------------------------------------------------------------
(* What repair_sigblocks decides: its answer, and the block to be written  *)
(* with that answer first, or 0.                                           *)
Decision(a, l) == [answer |-> a, fix |-> l]

(* Mutant: an unreadable block not rewritten.                              *)
OneUnreadableLeaves(l, other) ==
    Decision(IF other = Invalid THEN Error ELSE other, 0)

(* copy_ok_err_handling: block l could not be read.                        *)
OneUnreadable(l, other) ==
    IF other = Invalid THEN Decision(Error, 0)
    ELSE Decision(other, IF other = NoHeader THEN 0 ELSE l)

(* Mutant: an invalid block spoils the device.                             *)
OneInvalidFails(l, other) == Decision(Error, 0)

(* ok_err_static_header_handling: block l is invalid.                      *)
OneInvalid(l, other) ==
    IF other = NoHeader THEN Decision(Error, 0) ELSE Decision(other, l)

(* Mutant: the headers are not compared.                                   *)
NeitherInvalidFirst(b) ==
    IF b[1] = b[2] THEN Decision(b[1], 0)
    ELSE IF b[2] = NoHeader THEN Decision(b[1], 2) ELSE Decision(b[2], 1)

(* ok_ok_static_header_handling and compare_headers.                       *)
NeitherInvalid(b) ==
    IF b[1] = b[2] THEN Decision(b[1], 0)
    ELSE IF b[2] = NoHeader THEN Decision(b[1], 2)
    ELSE IF b[1] = NoHeader THEN Decision(b[2], 1)
    ELSE IF b[1].time = b[2].time THEN Decision(Error, 0)
    ELSE IF b[1].time > b[2].time THEN Decision(b[1], 2)
    ELSE Decision(b[2], 1)

BothRead(b) ==
    IF b[1] = Invalid /\ b[2] = Invalid THEN Decision(Error, 0)
    ELSE IF b[1] = Invalid THEN OneInvalid(1, b[2])
    ELSE IF b[2] = Invalid THEN OneInvalid(2, b[1])
    ELSE NeitherInvalid(b)

Decide ==
    IF 1 \in unreadable /\ 2 \in unreadable THEN Decision(Error, 0)
    ELSE IF 1 \in unreadable THEN OneUnreadable(1, block[2])
    ELSE IF 2 \in unreadable THEN OneUnreadable(2, block[1])
    ELSE BothRead(block)

(* StaticHeader::write of one location.                                    *)
Write(l, h) ==
    /\ block' = [block EXCEPT ![l] = h]
    /\ unreadable' = unreadable \ {l}

Fault == faults < MaxFaults /\ faults' = faults + 1

(* device_identifiers on a file open for writing: dev_info.                *)
IdentifyAndRepair ==
    /\ phase = "idle"
    /\ asked' = "dev_info"
    /\ \/ /\ Decide.fix = 0
          /\ answer' = Decide.answer
          /\ UNCHANGED <<block, unreadable, faults>>
       \/ /\ Decide.fix # 0
          /\ Write(Decide.fix, Decide.answer)
          /\ answer' = Decide.answer
          /\ UNCHANGED faults
       \/ /\ Decide.fix # 0 /\ Fault              \* the write failed
          /\ answer' = Error
          /\ UNCHANGED <<block, unreadable>>
    /\ UNCHANGED <<phase, clock, ghosts>>

(* device_identifiers_wrapper and get_bdas: the file is open for reading,  *)
(* so every write fails.                                                   *)
IdentifyReadOnly ==
    /\ phase = "idle"
    /\ asked' = "discovery"
    /\ answer' = IF Decide.fix = 0 THEN Decide.answer ELSE Error
    /\ UNCHANGED <<block, unreadable, phase, clock, faults, ghosts>>

(* stratis_dumpmetadata: the closure is do_nothing, the file is open for   *)
(* reading; copy_ok_err_handling writes all the same.                      *)
DumpMetadata ==
    /\ asked' = "dump"
    /\ answer' = IF Decide.fix \in unreadable THEN Error ELSE Decide.answer
    /\ UNCHANGED <<block, unreadable, phase, clock, faults, ghosts>>

----------------------------------------------------------------------------
(* BDA::initialize, of a device that dev_info found to be free: the first  *)
(* block ...  The clock is assumed not to go back from one initialization  *)
(* of a device to the next: initialization times are all that              *)
(* compare_headers can tell an older header by.                            *)
InitFirst(id, now) ==
    /\ phase = "idle" /\ asked = "dev_info" /\ answer = NoHeader
    /\ now >= clock /\ clock' = now
    /\ LET h == [id |-> id, time |-> now]
       IN  /\ Write(1, h)
           /\ begun' = begun \cup {h} /\ latest' = h
    /\ phase' = "init"
    /\ done' = NoHeader /\ asked' = "nobody"
    /\ UNCHANGED <<faults, answer>>

(* ... then the second.                                                    *)
InitSecond ==
    /\ phase = "init"
    /\ Write(2, latest)
    /\ phase' = "idle" /\ done' = latest
    /\ UNCHANGED <<clock, faults, begun, latest, asked, answer>>

(* The write of the second block fails, and so does the clean-up that wipes*)
(* the device, or the daemon dies.                                         *)
InitCut ==
    /\ phase = "init" /\ Fault
    /\ phase' = "idle"
    /\ UNCHANGED <<block, unreadable, clock, ghosts, asked, answer>>

(* Mutant: only the first block is wiped.                                  *)
WipeFirst ==
    /\ phase = "idle"
    /\ block' = [block EXCEPT ![1] = NoHeader] /\ unreadable' = unreadable \ {1}
    /\ begun' = {} /\ latest' = NoHeader /\ done' = NoHeader
    /\ asked' = "nobody"
    /\ UNCHANGED <<phase, clock, faults, answer>>

(* disown_device.                                                          *)
Wipe ==
    /\ phase = "idle"
    /\ block' = [l \in Locs |-> NoHeader] /\ unreadable' = {}
    /\ begun' = {} /\ latest' = NoHeader /\ done' = NoHeader
    /\ asked' = "nobody"
    /\ UNCHANGED <<phase, clock, faults, answer>>

(* One write covers both blocks; it stops after some of it.                *)
WipeCut(S) ==
    /\ phase = "idle" /\ Fault
    /\ block' = [l \in Locs |-> IF l \in S THEN NoHeader ELSE block[l]]
    /\ unreadable' = unreadable \ S
    /\ done' = NoHeader
    /\ asked' = "nobody"
    /\ UNCHANGED <<phase, clock, begun, latest, answer>>

(* A block loses its CRC or its magic, or cannot be read for a while.      *)
Rot(l, v) ==
    /\ Fault
    /\ block' = [block EXCEPT ![l] = v]
    /\ UNCHANGED <<unreadable, phase, clock, ghosts, asked, answer>>

ReadFails(l) ==
    /\ Fault
    /\ unreadable' = unreadable \cup {l}
    /\ UNCHANGED <<block, phase, clock, ghosts, asked, answer>>

ReadsAgain(l) ==
    /\ l \in unreadable
    /\ unreadable' = unreadable \ {l}
    /\ UNCHANGED <<block, phase, clock, faults, ghosts, asked, answer>>

Next ==
    \/ IdentifyAndRepair \/ IdentifyReadOnly \/ DumpMetadata
    \/ \E id \in Ids, now \in 0 .. MaxTime : InitFirst(id, now)
    \/ InitSecond \/ InitCut \/ Wipe
    \/ \E S \in SUBSET Locs : WipeCut(S)
    \/ \E l \in Locs, v \in {NoHeader, Invalid} : Rot(l, v)
    \/ \E l \in Locs : ReadFails(l) \/ ReadsAgain(l)

Spec == Init /\ [][Next]_vars

----------------------------------------------------------------------------
(* Types of the state.                                                     *)
TypeOK ==
    /\ block \in [Locs -> Header \cup {NoHeader, Invalid}]
    /\ unreadable \subseteq Locs
    /\ phase \in {"idle", "init"}
    /\ clock \in 0 .. MaxTime /\ faults \in 0 .. MaxFaults
    /\ begun \subseteq Header
    /\ {latest, done} \subseteq Header \cup {NoHeader}
    /\ asked \in {"nobody", "dev_info", "discovery", "dump"}
    /\ answer \in Header \cup {NoHeader, Error}

(* A device whose initialization returned Ok, with one good block left,    *)
(* whatever became of the other one and however often it was mended since. *)
OneGoodBlock == done # NoHeader /\ \E l \in Locs \ unreadable : block[l] = done

(* What StaticHeader::setup returns for such a device.  dev_info, which    *)
(* opens it for writing, knows it by the good block and fails only if the  *)
(* write that mends the other one does.  Discovery, which opens it for     *)
(* reading and passes write_header all the same, knows it only if there is *)
(* nothing to mend, and else gets an error and disregards the device.      *)
OneGoodBlockIsEnough ==
    [][OneGoodBlock =>
         /\ IdentifyAndRepair => answer' = done \/ (answer' = Error /\ faults' # faults)
         /\ IdentifyReadOnly =>
              answer' = IF unreadable = {} /\ block = [l \in Locs |-> done]
                          THEN done ELSE Error]_vars

(* A device that was wiped is nobody's until it is initialized again: no   *)
(* repair brings back what was there before.                               *)
WipedStaysWiped == \A l \in Locs : block[l] \in begun \cup {NoHeader, Invalid}

(* Of an old and a new header repair_sigblocks never takes the old one,    *)
(* even if the daemon died between the two blocks: compare_headers prefers *)
(* the later initialization time.  (The clock has not gone back.)          *)
NeverOlder ==
    latest # NoHeader /\ (\E l \in Locs \ unreadable : block[l] = latest) =>
        Decide.answer \in {latest, Error}

(* When dev_info has found a header both blocks hold it, and they can be   *)
(* read: a repair leaves nothing to be repaired.                           *)
RepairIsComplete ==
    [][asked' = "dev_info" /\ asked # "dev_info" /\ answer' \in Header =>
           unreadable' = {} /\ \A l \in Locs : block'[l] = answer']_vars
============================================================================
