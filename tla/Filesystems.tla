----------------------------- MODULE Filesystems -----------------------------
(***************************************************************************)
(* The filesystems of a pool: ThinPool's table of filesystems, the thin    *)
(* device under each one, the thin ids, and the metadata volume (MDV) that *)
(* holds one JSON file for each filesystem.  A command runs alone, but it  *)
(* takes several steps, any of which may fail, and the daemon may die      *)
(* between any two.  When it comes back it has only what the MDV and the   *)
(* kernel hold.                                                            *)
(***************************************************************************)
EXTENDS Maps, Integers, FiniteSets

CONSTANTS
    Uuids,       \* filesystem UUIDs
    Names,       \* filesystem names
    LongNames,   \* those that make a file longer than the others do
    None,        \* no UUID, no filesystem
    Cut, Mess,   \* a file that is not JSON: cut short; as long as a long one
    MaxId,       \* the largest thin id (2^24 - 1), scaled down
    MaxSize,     \* bound: the size a filesystem grows to
    MaxCommands, \* bound: number of commands
    Faults       \* what may fail: "thin", "mdv", "temp", "crash", "setup"

Ids == 0 .. MaxId
Sizes == 1 .. MaxSize
Fs == [name : Names, id : Ids, size : Sizes]    \* FilesystemSave

Junk == {Cut, Mess}

ASSUME FilesystemsAssumption ==
    /\ LongNames \subseteq Names
    /\ None \notin Uuids \cup Fs /\ Junk \cap Fs = {}
    /\ MaxId \in Nat /\ MaxSize \in Nat \ {0} /\ MaxCommands \in Nat
    /\ Faults \subseteq {"thin", "mdv", "temp", "crash", "setup"}

VARIABLES
    thin,      \* the thin devices in the kernel's pool: id |-> whose data
    active,    \* the thin devices that are mapped: UUID |-> size
    json,      \* the files <uuid>.json in the MDV
    temp,      \* the files <uuid>.temp in the MDV
    up,        \* is the pool set up?
    fss,       \* ThinPool.filesystems: UUID |-> name, thin id, size
    next_id,   \* ThinDevIdPool.next_id
    op,        \* the command in progress
    acked,     \* UUID |-> the name it was last given, if the command said Ok
    commands

vars == <<thin, active, json, temp, up, fss, next_id, op, acked, commands>>
kernel == <<thin, active>>
mdv == <<json, temp>>

NoOp == [cmd |-> "none", at |-> "none", uuid |-> None, fs |-> None]
At(step) == op.at = step

----------------------------------------------------------------------------
(* The MDV as MetadataVol::filesystems reads it: every file, as no path    *)
(* has ".temp" as its last component.                                      *)
Files(u) == {f[u] : f \in {g \in {json, temp} : u \in DOMAIN g}}
Readable == \A u \in Uuids : Files(u) \cap Junk = {}

(* ThinDev::setup finds the thin id of e, and the device that is mapped    *)
(* for u, if there is one, has the size of e.                              *)
CanSetup(u, e) == e.id \in DOMAIN thin /\ (u \in DOMAIN active => active[u] = e.size)

(* The files of u with which StratFilesystem::setup works, once a first    *)
(* one has mapped the device with the given size.                          *)
Loaded(u, size) == {e \in Files(u) : CanSetup(u, e) /\ e.size = size}

(* Table::insert evicts nothing: no UUID and no name comes twice.          *)
NoDuplicates(S, size) ==
    /\ \A u \in S \cap DOMAIN json \cap DOMAIN temp :
         ~({json[u], temp[u]} \subseteq Loaded(u, size[u]))
    /\ \A u, v \in S : \A e \in Loaded(u, size[u]), f \in Loaded(v, size[v]) :
         e.name = f.name => u = v

(* ThinDevIdPool::new_from_ids: n is one more than the largest of the ids. *)
OneMore(ids, n) == (\A i \in ids : i < n) /\ (n = 0 \/ n - 1 \in ids)
NewFromIdsLive(n) ==              \* mutant: only those that could be set up
    OneMore({fss'[u].id : u \in DOMAIN fss'}, n)
NewFromIds(n) == OneMore({e.id : e \in UNION {Files(u) : u \in Uuids}}, n)

----------------------------------------------------------------------------
Init ==
    /\ thin = Empty /\ active = Empty /\ json = Empty /\ temp = Empty
    /\ up = TRUE /\ fss = Empty /\ next_id = 0
    /\ op = NoOp /\ acked = Empty /\ commands = 0

(* A command begins.                                                       *)
Begin == up /\ op.cmd = "none" /\ commands < MaxCommands /\ commands' = commands + 1

(* A UUID of which there is no trace, as FilesystemUuid::new_v4 makes them.*)
Fresh(u) ==
    /\ u \notin DOMAIN json \cup DOMAIN temp \cup DOMAIN active
    /\ \A i \in DOMAIN thin : thin[i] # u

NameFree(name) == \A v \in DOMAIN fss : fss[v].name # name

(* create_filesystem and snapshot_filesystem take a thin id first.         *)
NewIdUnchecked(cmd, u, name, size) ==     \* mutant: ThinDevId::new_u64 not checked
    /\ Begin /\ Fresh(u) /\ NameFree(name)
    /\ next_id' = next_id + 1
    /\ op' = [cmd |-> cmd, at |-> "thin", uuid |-> u,
              fs |-> [name |-> name, id |-> next_id, size |-> size]]
    /\ UNCHANGED <<kernel, mdv, up, fss, acked>>

NewId(cmd, u, name, size) ==
    /\ Begin /\ Fresh(u) /\ NameFree(name)
    /\ next_id \in Ids
    /\ next_id' = next_id + 1
    /\ op' = [cmd |-> cmd, at |-> "thin", uuid |-> u,
              fs |-> [name |-> name, id |-> next_id, size |-> size]]
    /\ UNCHANGED <<kernel, mdv, up, fss, acked>>

Create(u, name) == NewId("create", u, name, 1)
Snapshot(u, name) == \E origin \in DOMAIN fss : NewId("snapshot", u, name, fss[origin].size)

(* A snapshot of a filesystem that is not there uses up an id all the same.*)
SnapshotNothing ==
    /\ Begin /\ next_id \in Ids
    /\ next_id' = next_id + 1
    /\ UNCHANGED <<kernel, mdv, up, fss, op, acked>>

(* ThinDev::new, ThinDev::snapshot: the id is new to the kernel.           *)
ThinNew ==
    /\ At("thin") /\ op.fs.id \notin DOMAIN thin
    /\ thin' = Put(thin, op.fs.id, op.uuid)
    /\ active' = Put(active, op.uuid, op.fs.size)
    /\ op' = [op EXCEPT !.at = "format"]
    /\ UNCHANGED <<mdv, up, fss, next_id, acked, commands>>

(* The id is known to the kernel, or the device cannot be created or       *)
(* mapped.  The command fails.                                             *)
ThinNewFails ==
    /\ At("thin")
    /\ \/ op.fs.id \in DOMAIN thin /\ UNCHANGED thin
       \/ /\ "thin" \in Faults /\ op.fs.id \notin DOMAIN thin
          /\ thin' \in {thin, Put(thin, op.fs.id, op.uuid)}
    /\ op' = NoOp
    /\ UNCHANGED <<active, mdv, up, fss, next_id, acked, commands>>

(* create_fs, or mounting the snapshot and giving it a new UUID.           *)
Format ==
    /\ At("format")
    /\ op' = [op EXCEPT !.at = "save"]
    /\ UNCHANGED <<kernel, mdv, up, fss, next_id, acked, commands>>

(* When a step fails, create_filesystem destroys the new device; the other *)
(* commands leave things as they are and return the error.                 *)
FailUndoes == op' = [op EXCEPT !.at = "undo"]     \* mutant: whatever the command
Fail == op' = IF op.cmd = "create" THEN [op EXCEPT !.at = "undo"] ELSE NoOp

FormatFails ==
    /\ "thin" \in Faults
    /\ At("format") /\ Fail
    /\ UNCHANGED <<kernel, mdv, up, fss, next_id, acked, commands>>

(* The undoing of create_filesystem; the kernel may refuse either part.    *)
Undo ==
    /\ At("undo")
    /\ \/ /\ active' = Drop(active, op.uuid)
          /\ thin' = Drop(thin, op.fs.id)
       \/ /\ "thin" \in Faults
          /\ active' \in {active, Drop(active, op.uuid)} /\ UNCHANGED thin
    /\ op' = NoOp
    /\ UNCHANGED <<mdv, up, fss, next_id, acked, commands>>

----------------------------------------------------------------------------
(* MetadataVol::save_fs writes the temporary file.  It is opened without   *)
(* truncation: what a longer file had at its end is still there.           *)
Long(e) == e = Mess \/ (e \notin Junk /\ e.name \in LongNames)
LongTemp(u) == u \in DOMAIN temp /\ Long(temp[u])
Written(u, e) == IF LongTemp(u) /\ ~Long(e) THEN Mess ELSE e

SaveTemp ==
    /\ At("save")
    /\ temp' = Put(temp, op.uuid, Written(op.uuid, op.fs))
    /\ op' = [op EXCEPT !.at = "rename"]
    /\ UNCHANGED <<kernel, json, up, fss, next_id, acked, commands>>

(* ... as far as it gets.                                                  *)
SaveTempInPart ==
    /\ "temp" \in Faults /\ At("save")
    /\ \E e \in Junk :
         /\ e = Mess => LongTemp(op.uuid) \/ Long(op.fs)
         /\ e = Cut => ~LongTemp(op.uuid)
         /\ temp' = Put(temp, op.uuid, e)

(* The file is given its name, and the command succeeds.                   *)
SaveRename ==
    /\ At("rename")
    /\ json' = Put(json, op.uuid, temp[op.uuid])
    /\ temp' = Drop(temp, op.uuid)
    /\ fss' = Put(fss, op.uuid, op.fs)
    /\ acked' = Put(acked, op.uuid, op.fs.name)
    /\ op' = NoOp
    /\ UNCHANGED <<kernel, up, next_id, commands>>

(* The MDV cannot be mounted, or the file be written or renamed.           *)
SaveFails ==
    /\ \/ At("save") /\ "mdv" \in Faults /\ UNCHANGED temp
       \/ SaveTempInPart
       \/ At("rename") /\ "temp" \in Faults /\ UNCHANGED temp
    /\ Fail
    /\ UNCHANGED <<kernel, json, up, fss, next_id, acked, commands>>

(* rename_filesystem.                                                      *)
Rename(u, name) ==
    /\ Begin /\ u \in DOMAIN fss /\ NameFree(name)
    /\ op' = [cmd |-> "rename", at |-> "save", uuid |-> u,
              fs |-> [name |-> name, id |-> fss[u].id, size |-> fss[u].size]]
    /\ UNCHANGED <<kernel, mdv, up, fss, next_id, acked>>

(* StratFilesystem::check extends a filesystem that is nearly full; the    *)
(* pool's check then saves it, and only logs a failure to do so.           *)
Grow(u) ==
    /\ up /\ op.cmd = "none"
    /\ u \in DOMAIN fss \cap DOMAIN active /\ 2 * fss[u].size \in Sizes
    /\ LET fs == [name |-> fss[u].name, id |-> fss[u].id, size |-> 2 * fss[u].size]
       IN  /\ active' = Put(active, u, fs.size)
           /\ fss' = Put(fss, u, fs)
           /\ op' = [cmd |-> "check", at |-> "save", uuid |-> u, fs |-> fs]
    /\ UNCHANGED <<thin, mdv, up, next_id, acked, commands>>

(* destroy_filesystem: the device, then the file.                          *)
Destroy(u) ==
    /\ Begin /\ u \in DOMAIN fss
    /\ active' = Drop(active, u)
    /\ thin' = Drop(thin, fss[u].id)
    /\ fss' = Drop(fss, u)
    /\ acked' = Drop(acked, u)
    /\ op' = [cmd |-> "destroy", at |-> "rm", uuid |-> u, fs |-> fss[u]]
    /\ UNCHANGED <<mdv, up, next_id>>

(* The device is unmapped but cannot be deleted: the filesystem stays.     *)
DestroyFails(u) ==
    /\ "thin" \in Faults
    /\ Begin /\ u \in DOMAIN fss
    /\ active' = Drop(active, u)
    /\ UNCHANGED <<thin, mdv, up, fss, next_id, op, acked>>

(* MetadataVol::rm_fs; that it fails is only logged.                       *)
RmFs ==
    /\ At("rm")
    /\ \/ json' = Drop(json, op.uuid)
       \/ "mdv" \in Faults /\ UNCHANGED json
    /\ op' = NoOp
    /\ UNCHANGED <<kernel, temp, up, fss, next_id, acked, commands>>

----------------------------------------------------------------------------
(* The daemon dies, and perhaps the machine with it.                       *)
Crash ==
    /\ up
    /\ op.cmd # "none" => "crash" \in Faults
    /\ \/ ~At("rename") /\ UNCHANGED temp
       \/ At("rename") /\ "temp" \in Faults /\ UNCHANGED temp
       \/ SaveTempInPart
    /\ active' \in {active, Empty}
    /\ up' = FALSE /\ fss' = Empty /\ next_id' = 0 /\ op' = NoOp
    /\ UNCHANGED <<thin, json, acked, commands>>

(* ThinPool::setup.  A filesystem that cannot be set up is left out; two   *)
(* of one name or UUID fail the whole pool, after they have been mapped.   *)
Setup(left, size) ==
    /\ ~up /\ Readable
    /\ left = {} \/ "setup" \in Faults
    /\ \A u \in Uuids : (\E e \in Files(u) : CanSetup(u, e)) => Loaded(u, size[u]) # {}
    /\ LET S == {u \in Uuids \ left : Loaded(u, size[u]) # {}}
       IN  /\ active' = [u \in DOMAIN active \cup S |-> IF u \in S THEN size[u] ELSE active[u]]
           /\ IF NoDuplicates(S, size)
                THEN /\ up' = TRUE
                     /\ fss' = [u \in S |-> CHOOSE e \in Loaded(u, size[u]) : TRUE]
                     /\ next_id' \in 0 .. MaxId + 1 /\ NewFromIds(next_id')
                ELSE UNCHANGED <<up, fss, next_id>>
    /\ UNCHANGED <<thin, mdv, op, acked, commands>>

Next ==
    \/ SnapshotNothing \/ ThinNew \/ ThinNewFails \/ Format \/ FormatFails \/ Undo
    \/ SaveTemp \/ SaveRename \/ SaveFails \/ RmFs \/ Crash
    \/ \E u \in Uuids, name \in Names : Create(u, name) \/ Snapshot(u, name) \/ Rename(u, name)
    \/ \E u \in Uuids : Grow(u) \/ Destroy(u) \/ DestroyFails(u)
    \/ \E left \in SUBSET Uuids, size \in [Uuids -> Sizes] : Setup(left, size)

Spec == Init /\ [][Next]_vars

----------------------------------------------------------------------------
(* Types of the state.                                                     *)
IsMap(f, S, T) == DOMAIN f \subseteq S /\ \A k \in DOMAIN f : f[k] \in T

TypeOK ==
    /\ IsMap(thin, Ids, Uuids) /\ IsMap(active, Uuids, Sizes)
    /\ IsMap(json, Uuids, Fs \cup Junk) /\ IsMap(temp, Uuids, Fs \cup Junk)
    /\ up \in BOOLEAN
    /\ IsMap(fss, Uuids, Fs) /\ next_id \in 0 .. MaxId + 1
    /\ op \in {NoOp} \cup [cmd : {"create", "snapshot", "rename", "check", "destroy"},
                           at : {"thin", "format", "undo", "save", "rename", "rm"},
                           uuid : Uuids, fs : Fs]
    /\ IsMap(acked, Uuids, Names)
    /\ commands \in 0 .. MaxCommands

(* A filesystem is on the thin device that was made for it and on no       *)
(* other's, although thin ids are counted anew from the files in the MDV   *)
(* at every start, some files outlive their device and some devices have   *)
(* no file.                                                                *)
OwnThinDevice ==
    \A u \in DOMAIN fss : fss[u].id \in DOMAIN thin /\ thin[fss[u].id] = u

(* A filesystem whose creation, snapshot or renaming has returned Ok has a *)
(* file in the MDV that parses and has that name, and the thin device that *)
(* the file names exists and is its own, until it is destroyed, whatever   *)
(* fails or crashes later.  It holds if all files are of one length or no  *)
(* save stops halfway (see SavedFilesParse).  That the pool can be set up  *)
(* is not said: a temporary file that a save has left behind is read like  *)
(* any other file, and fails ThinPool::setup if it does not parse or gives *)
(* a name or UUID a second time.                                           *)
AckedSurvives ==
    \A u \in DOMAIN acked :
        /\ u \in DOMAIN json /\ json[u] \notin Junk
        /\ json[u].name = acked[u]
        /\ json[u].id \in DOMAIN thin /\ thin[json[u].id] = u

(* What save_fs says of its temporary file: "Write to a temp file and then *)
(* rename to actual filename, to ensure file contents are not truncated if *)
(* operation is interrupted."                                              *)
SavedFilesParse == \A u \in DOMAIN json : json[u] \notin Junk
=============================================================================
