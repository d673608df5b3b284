-------------------------- MODULE AllocationProofs --------------------------
(***************************************************************************)
(* Proofs about what a pool gives out.  About Filesystems, for any UUIDs,  *)
(* names, thin ids and failures: a filesystem is on its own thin device,   *)
(* and one that a command has reported as saved can be found again.  About *)
(* Segments, for every map of used ranges on a device of any size.         *)
(***************************************************************************)
EXTENDS Filesystems, Segments, FiniteSetTheorems, WellFoundedInduction, TLAPS

(* The time a leaf may take: long modules slow the prover down.            *)
USE SMTT(20), ZenonT(20)

(* Thin id i is that of filesystem u, or of none.                          *)
Own(u, i) == i \in DOMAIN thin => thin[i] = u

(* The files in the MDV name their own devices, and the ids they name have *)
(* been given out.                                                         *)
FilesOwn(f) ==
    \A u \in DOMAIN f : f[u] \notin Junk => Own(u, f[u].id) /\ (up => f[u].id < next_id)

(* No file and no filesystem has thin id i or a larger one.                *)
Unused(i) ==
    /\ \A u \in DOMAIN json : json[u] \notin Junk => json[u].id < i
    /\ \A u \in DOMAIN temp : temp[u] \notin Junk => temp[u].id < i
    /\ \A u \in DOMAIN fss : fss[u].id < i

(* What a command in progress may rely on.                                 *)
OpOk ==
    op.cmd # "none" =>
        /\ up /\ op.fs.id < next_id
        /\ At("thin") => Unused(op.fs.id) /\ op.cmd \in {"create", "snapshot"}
        /\ At("format") => op.cmd \in {"create", "snapshot"}
        /\ At("undo") => op.cmd = "create"
        /\ At("rm") => op.cmd = "destroy"
        /\ op.at \in {"format", "undo", "save", "rename"} =>
             op.fs.id \in DOMAIN thin /\ thin[op.fs.id] = op.uuid
        /\ op.cmd \in {"create", "snapshot"} => op.uuid \notin DOMAIN fss
        /\ At("rename") => op.uuid \in DOMAIN temp /\ temp[op.uuid] \in Junk \cup {op.fs}

IInv ==
    /\ TypeOK
    /\ FilesOwn(json) /\ FilesOwn(temp)
    /\ OwnThinDevice
    /\ \A u \in DOMAIN fss : fss[u].id < next_id
    /\ ~up => DOMAIN fss = {}
    /\ OpOk

----------------------------------------------------------------------------
LEMMA FilesAre ==
    ASSUME NEW u
    PROVE  \A e : e \in Files(u) <=> \/ u \in DOMAIN json /\ e = json[u]
                                     \/ u \in DOMAIN temp /\ e = temp[u]
BY DEF Files

LEMMA Start == Init => IInv
BY FilesystemsAssumption
   DEF Init, IInv, TypeOK, IsMap, FilesOwn, OwnThinDevice, OpOk, NoOp, Empty, Ids, Sizes

USE DEF At

(* What a step does to a conjunct of IInv is shown from the parts of it    *)
(* that the step can disturb.                                              *)
LEMMA Step == IInv /\ [Next]_vars => IInv'
<1> SUFFICES ASSUME IInv, [Next]_vars PROVE IInv'
  OBVIOUS
<1> USE FilesystemsAssumption DEF IInv, Put, Drop, Empty
<1>1. CASE SnapshotNothing
  BY <1>1 DEF SnapshotNothing, Begin, kernel, mdv, TypeOK, IsMap, FilesOwn, Own, OwnThinDevice, OpOk, Ids, Fs
<1>2. CASE ThinNew
  <2> USE <1>2 DEF ThinNew, mdv, OpOk, NoOp
  <2>1. op.cmd # "none" /\ op.uuid \in Uuids /\ op.fs \in Fs
    BY DEF TypeOK
  <2>2. TypeOK'
    BY <2>1 DEF TypeOK, IsMap, Fs
  <2>3. FilesOwn(json)' /\ FilesOwn(temp)'
    BY <2>1 DEF TypeOK, IsMap, FilesOwn, Own, Unused, Fs, Ids
  <2>4. OwnThinDevice'
    BY <2>1 DEF OwnThinDevice
  <2>5. OpOk'
    BY <2>1 DEF TypeOK
  <2> QED BY <2>2, <2>3, <2>4, <2>5
<1>3. CASE ThinNewFails
  <2> USE <1>3 DEF ThinNewFails, mdv, OpOk, NoOp
  <2>1. op.cmd # "none" /\ op.uuid \in Uuids /\ op.fs \in Fs
    BY DEF TypeOK
  <2>2. TypeOK'
    BY <2>1 DEF TypeOK, IsMap, Fs
  <2>3. FilesOwn(json)' /\ FilesOwn(temp)'
    BY <2>1 DEF TypeOK, IsMap, FilesOwn, Own, Unused, Fs, Ids
  <2>4. OwnThinDevice'
    BY <2>1 DEF OwnThinDevice
  <2> QED BY <2>2, <2>3, <2>4
<1>4. CASE Format
  BY <1>4 DEF Format, kernel, mdv, NoOp, TypeOK, IsMap, FilesOwn, Own, OwnThinDevice, OpOk, Unused
<1>5. CASE FormatFails
  BY <1>5 DEF FormatFails, Fail, kernel, mdv, NoOp, TypeOK, IsMap, FilesOwn, Own, OwnThinDevice, OpOk, Unused
<1>6. CASE Undo
  <2> USE <1>6 DEF Undo, mdv, OpOk, NoOp
  <2>1. op.cmd = "create" /\ op.uuid \in Uuids /\ op.fs \in Fs
    BY DEF TypeOK
  <2>2. TypeOK'
    BY <2>1 DEF TypeOK, IsMap, Fs
  <2>3. FilesOwn(json)' /\ FilesOwn(temp)'
    BY <2>1 DEF FilesOwn, Own
  <2>4. OwnThinDevice'
    BY <2>1 DEF OwnThinDevice
  <2> QED BY <2>2, <2>3, <2>4
<1>7. CASE SaveTemp
  <2> USE <1>7 DEF SaveTemp, kernel, OpOk, NoOp
  <2>1. op.cmd # "none" /\ op.uuid \in Uuids /\ op.fs \in Fs
    BY DEF TypeOK
  <2>2. Written(op.uuid, op.fs) \in Junk \cup {op.fs}
    BY DEF Written, Junk
  <2>3. TypeOK'
    BY <2>1, <2>2 DEF TypeOK, IsMap
  <2>4. FilesOwn(json)' /\ FilesOwn(temp)'
    BY <2>1, <2>2 DEF FilesOwn, Own
  <2>5. OpOk'
    BY <2>1, <2>2 DEF TypeOK
  <2> QED BY <2>3, <2>4, <2>5 DEF OwnThinDevice
<1>8. CASE SaveRename
  <2> USE <1>8 DEF SaveRename, kernel, OpOk, NoOp
  <2>1. op.cmd # "none" /\ op.uuid \in Uuids /\ op.fs \in Fs
    BY DEF TypeOK
  <2>2. TypeOK'
    BY <2>1 DEF TypeOK, IsMap, Fs
  <2>3. FilesOwn(json)' /\ FilesOwn(temp)'
    BY <2>1 DEF FilesOwn, Own
  <2>4. OwnThinDevice' /\ (\A u \in DOMAIN fss : fss[u].id < next_id)'
    BY <2>1 DEF OwnThinDevice
  <2> QED BY <2>1, <2>2, <2>3, <2>4
<1>9. CASE SaveFails
  <2> USE <1>9 DEF SaveFails, SaveTempInPart, Fail, kernel, OpOk, NoOp
  <2>1. op.cmd # "none" /\ op.uuid \in Uuids /\ op.fs \in Fs
    BY DEF TypeOK
  <2>2. TypeOK'
    BY <2>1 DEF TypeOK, IsMap
  <2>3. FilesOwn(json)' /\ FilesOwn(temp)'
    BY <2>1 DEF FilesOwn, Own
  <2>4. OpOk'
    BY <2>1 DEF TypeOK
  <2> QED BY <2>2, <2>3, <2>4 DEF OwnThinDevice
<1>10. CASE RmFs
  BY <1>10 DEF RmFs, kernel, NoOp, TypeOK, IsMap, FilesOwn, Own, OwnThinDevice, OpOk
<1>11. CASE Crash
  <2> USE <1>11 DEF Crash, SaveTempInPart, OpOk, NoOp
  <2>1. IsMap(temp, Uuids, Fs \cup Junk)'
    <3>1. CASE UNCHANGED temp
      BY <3>1 DEF TypeOK, IsMap
    <3>2. CASE SaveTempInPart
      BY <3>2 DEF TypeOK, IsMap
    <3> QED BY <3>1, <3>2, Zenon
  <2>2. IsMap(active, Uuids, Sizes)' /\ IsMap(fss, Uuids, Fs)'
    BY DEF TypeOK, IsMap
  <2>3. (IsMap(thin, Ids, Uuids) /\ IsMap(json, Uuids, Fs \cup Junk) /\ IsMap(acked, Uuids, Names))'
    BY DEF TypeOK, IsMap
  <2>4. up' \in BOOLEAN /\ next_id' \in 0 .. MaxId + 1 /\ op' = NoOp /\ commands' \in 0 .. MaxCommands
    <3>1. next_id' \in 0 .. MaxId + 1
      OBVIOUS
    <3>2. up' \in BOOLEAN /\ op' = NoOp /\ commands' \in 0 .. MaxCommands
      BY Zenon DEF TypeOK
    <3> QED BY <3>1, <3>2
  <2>5. TypeOK'
    BY <2>1, <2>2, <2>3, <2>4 DEF TypeOK
  <2>6. FilesOwn(json)' /\ FilesOwn(temp)'
    BY DEF FilesOwn, Own
  <2> QED BY <2>5, <2>6 DEF OwnThinDevice
<1>12. ASSUME NEW u \in Uuids, NEW name \in Names, NEW cmd \in {"create", "snapshot"},
              NEW size \in Sizes, NewId(cmd, u, name, size)
       PROVE  IInv'
  <2> USE <1>12 DEF NewId, Begin, kernel, mdv, OpOk
  <2>1. u \notin DOMAIN fss
    BY DEF Fresh, OwnThinDevice
  <2>2. TypeOK'
    BY DEF TypeOK, IsMap, Fs, Ids
  <2>3. FilesOwn(json)' /\ FilesOwn(temp)'
    BY DEF TypeOK, IsMap, FilesOwn, Own, Fs, Ids
  <2>4. Unused(next_id)
    BY DEF Unused, FilesOwn
  <2>5. OpOk'
    BY <2>1, <2>4 DEF TypeOK, Unused
  <2>6. (\A v \in DOMAIN fss : fss[v].id < next_id)'
    BY DEF TypeOK, IsMap, Fs, Ids
  <2> QED BY <2>2, <2>3, <2>5, <2>6 DEF OwnThinDevice
<1>13. ASSUME NEW u \in Uuids, NEW name \in Names, Create(u, name) PROVE IInv'
  BY <1>12, <1>13 DEF Create, Sizes
<1>14. ASSUME NEW u \in Uuids, NEW name \in Names, Snapshot(u, name) PROVE IInv'
  BY <1>12, <1>14 DEF Snapshot, TypeOK, IsMap, Fs
<1>15. ASSUME NEW u \in Uuids, NEW name \in Names, Rename(u, name) PROVE IInv'
  <2> USE <1>15 DEF Rename, Begin, kernel, mdv, OpOk
  <2>1. TypeOK'
    <3>1. fss[u] \in Fs /\ u \in Uuids
      BY DEF TypeOK, IsMap
    <3>2. [name |-> name, id |-> fss[u].id, size |-> fss[u].size] \in Fs
      BY <3>1 DEF Fs
    <3>3. op' \in [cmd : {"create", "snapshot", "rename", "check", "destroy"},
                   at : {"thin", "format", "undo", "save", "rename", "rm"},
                   uuid : Uuids, fs : Fs]
      BY <3>2
    <3>4. commands' \in 0 .. MaxCommands
      BY FilesystemsAssumption DEF TypeOK
    <3>5. thin' = thin /\ active' = active /\ json' = json /\ temp' = temp /\ up' = up
          /\ fss' = fss /\ next_id' = next_id /\ acked' = acked
      OBVIOUS
    <3> QED
      BY <3>3, <3>4, <3>5 DEF TypeOK, IsMap
  <2>2. OpOk'
    BY DEF OwnThinDevice
  <2> QED BY <2>1, <2>2 DEF FilesOwn, Own, OwnThinDevice
<1>16. ASSUME NEW u \in Uuids, Grow(u) PROVE IInv'
  <2> USE <1>16 DEF Grow, mdv, OpOk
  <2>1. TypeOK'
    BY DEF TypeOK, IsMap, Fs
  <2>2. OpOk' /\ OwnThinDevice' /\ (\A v \in DOMAIN fss : fss[v].id < next_id)'
    BY DEF OwnThinDevice
  <2> QED BY <2>1, <2>2 DEF FilesOwn, Own
<1>17. ASSUME NEW u \in Uuids, Destroy(u) PROVE IInv'
  <2> USE <1>17 DEF Destroy, Begin, mdv, OpOk
  <2>1. TypeOK'
    BY DEF TypeOK, IsMap
  <2>2. FilesOwn(json)' /\ FilesOwn(temp)'
    BY DEF FilesOwn, Own
  <2>3. OwnThinDevice'
    BY DEF OwnThinDevice
  <2> QED BY <2>1, <2>2, <2>3
<1>18. ASSUME NEW u \in Uuids, DestroyFails(u) PROVE IInv'
  BY <1>18 DEF DestroyFails, Begin, mdv, TypeOK, IsMap, FilesOwn, Own, OwnThinDevice, OpOk
<1>19. ASSUME NEW left \in SUBSET Uuids, NEW size \in [Uuids -> Sizes], Setup(left, size)
       PROVE  IInv'
  <2> DEFINE S == {u \in Uuids \ left : Loaded(u, size[u]) # {}}
  <2>1. op = NoOp
    BY <1>19 DEF Setup, TypeOK, OpOk
  <2>2. \A u \in S : size[u] \in Sizes /\ size[u] = active'[u]
    BY <1>19 DEF Setup
  <2>3. \A u \in Uuids : \A e \in Files(u) :
          e \in Fs /\ Own(u, e.id) /\ e \in UNION {Files(v) : v \in Uuids}
    BY <1>19, FilesAre DEF Setup, Readable, FilesOwn, TypeOK, IsMap
  <2>4. CASE ~NoDuplicates(S, size)
    <3>1. /\ UNCHANGED <<thin, json, temp, op, acked, commands, up, fss, next_id>>
          /\ active' = [u \in DOMAIN active \cup S |-> IF u \in S THEN size[u] ELSE active[u]]
      BY <1>19, <2>4 DEF Setup, mdv
    <3>2. IsMap(active, Uuids, Sizes)'
      BY <3>1, <2>2 DEF TypeOK, IsMap
    <3>3. TypeOK'
      BY <3>1, <3>2 DEF TypeOK
    <3>4. FilesOwn(json)' /\ FilesOwn(temp)' /\ OwnThinDevice'
      BY <3>1 DEF FilesOwn, Own, OwnThinDevice
    <3> QED
      BY <3>1, <3>3, <3>4, <2>1 DEF OpOk, NoOp
  <2>5. CASE NoDuplicates(S, size)
    <3>1. \A u \in S : fss'[u] \in Loaded(u, size[u])
      BY <1>19, <2>5 DEF Setup
    <3>2. DOMAIN fss' = S
      BY <1>19, <2>5 DEF Setup
    <3>3. \A u \in S : /\ fss'[u] \in Files(u) /\ fss'[u] \in Fs
                       /\ fss'[u].id \in DOMAIN thin /\ thin[fss'[u].id] = u
      BY <3>1, <2>3 DEF Loaded, CanSetup, Own
    <3>4. \A e \in UNION {Files(u) : u \in Uuids} : e.id < next_id'
      BY <1>19, <2>5, Zenon DEF Setup, NewFromIds, OneMore
    <3>5. TypeOK'
      BY <1>19, <2>1, <2>2, <2>5, <3>2, <3>3 DEF Setup, mdv, TypeOK, IsMap
    <3>6. FilesOwn(json)' /\ FilesOwn(temp)'
      BY <1>19, <2>3, <3>4, FilesAre DEF Setup, mdv, FilesOwn, Own, TypeOK, IsMap
    <3>7. OwnThinDevice' /\ (\A u \in DOMAIN fss : fss[u].id < next_id)'
      BY <1>19, <2>3, <3>2, <3>3, <3>4 DEF Setup, OwnThinDevice
    <3>8. up' /\ OpOk'
      BY <1>19, <2>1, <2>5, Zenon DEF Setup, OpOk, NoOp
    <3> QED BY <3>5, <3>6, <3>7, <3>8
  <2> QED BY <2>4, <2>5
<1>20. CASE UNCHANGED vars
  BY <1>20 DEF vars, TypeOK, IsMap, FilesOwn, Own, OwnThinDevice, OpOk, Unused
<1> QED
  BY <1>1, <1>2, <1>3, <1>4, <1>5, <1>6, <1>7, <1>8, <1>9, <1>10, <1>11, <1>13, <1>14,
     <1>15, <1>16, <1>17, <1>18, <1>19, <1>20 DEF Next

(* IInv is inductive.                                                      *)
THEOREM FilesystemsInvariance == Spec => []IInv
BY Start, Step, PTL DEF Spec

(* The state has its types: in particular the ids are those that the       *)
(* kernel has.                                                             *)
THEOREM FilesystemsTypeCorrect == Spec => []TypeOK
BY FilesystemsInvariance, PTL DEF IInv

(* No filesystem is ever on the thin device of another, whatever fails and *)
(* wherever the daemon dies: ThinDevIdPool, although it starts from the    *)
(* files alone, never makes two filesystems meet on one id.                *)
THEOREM FilesystemsOwnTheirDevices == Spec => []OwnThinDevice
BY FilesystemsInvariance, PTL DEF IInv

----------------------------------------------------------------------------
(* Saves are sound when no file is longer than another, or when none is    *)
(* left half done (FilesystemsTemp.cfg shows the remaining case).          *)
SavesAreSound == LongNames = {} \/ "temp" \notin Faults

(* No long temporary file is left over, so what save_fs writes is what it  *)
(* renames; and a filesystem being made has not been reported.             *)
SInv ==
    /\ IInv
    /\ AckedSurvives
    /\ \A u \in DOMAIN temp : Long(temp[u]) => At("rename") /\ op.uuid = u
    /\ At("rename") => temp[op.uuid] = op.fs
    /\ op.cmd \in {"create", "snapshot", "destroy"} => op.uuid \notin DOMAIN acked

LEMMA SStart == Init => SInv
<1> SUFFICES ASSUME Init PROVE SInv
  OBVIOUS
<1>1. IInv
  BY Start
<1>2. DOMAIN acked = {} /\ DOMAIN temp = {} /\ op = NoOp
  BY DEF Init, Empty
<1> QED
  BY <1>1, <1>2 DEF SInv, AckedSurvives, NoOp

LEMMA SStep == SavesAreSound /\ SInv /\ [Next]_vars => SInv'
<1> SUFFICES ASSUME SavesAreSound, SInv, [Next]_vars PROVE SInv'
  OBVIOUS
<1> USE DEF SInv
<1>0. IInv'
  BY Step
<1> DEFINE Rest == AckedSurvives
                   /\ (\A u \in DOMAIN temp : Long(temp[u]) => At("rename") /\ op.uuid = u)
                   /\ (At("rename") => temp[op.uuid] = op.fs)
                   /\ (op.cmd \in {"create", "snapshot", "destroy"} => op.uuid \notin DOMAIN acked)
<1> SUFFICES Rest'
  BY <1>0
<1>1. op = NoOp \/ op \in [cmd : {"create", "snapshot", "rename", "check", "destroy"},
                           at : {"thin", "format", "undo", "save", "rename", "rm"},
                           uuid : Uuids, fs : Fs]
  BY DEF IInv, TypeOK
<1>2. CASE SnapshotNothing
  BY <1>2 DEF SnapshotNothing, kernel, mdv, AckedSurvives
<1>3. CASE ThinNew
  BY <1>1, <1>3 DEF ThinNew, mdv, AckedSurvives, NoOp, Put
<1>4. CASE ThinNewFails
  BY <1>1, <1>4 DEF ThinNewFails, mdv, AckedSurvives, NoOp, Put
<1>5. CASE Format \/ FormatFails
  BY <1>1, <1>5 DEF Format, FormatFails, Fail, kernel, mdv, AckedSurvives, NoOp
<1>6. CASE Undo
  BY <1>1, <1>6 DEF Undo, mdv, AckedSurvives, NoOp, Drop, IInv, OpOk
<1>7. CASE SaveTemp
  <2>1. Written(op.uuid, op.fs) = op.fs
    BY <1>7 DEF SaveTemp, Written, LongTemp
  <2> QED BY <1>1, <1>7, <2>1 DEF SaveTemp, kernel, AckedSurvives, NoOp, Put
<1>8. CASE SaveRename
  <2>1. op.cmd # "none" /\ op.uuid \in Uuids /\ op.fs \in Fs
    BY <1>1, <1>8 DEF SaveRename, NoOp
  <2>2. op.fs.id \in DOMAIN thin /\ thin[op.fs.id] = op.uuid /\ op.uuid \in DOMAIN temp
    BY <1>8, <2>1 DEF SaveRename, IInv, OpOk
  <2>3. op.fs \notin Junk
    BY <2>1, FilesystemsAssumption
  <2>4. AckedSurvives'
    BY <1>8, <2>1, <2>2, <2>3 DEF SaveRename, kernel, AckedSurvives, Put
  <2> QED BY <1>8, <2>1, <2>4 DEF SaveRename, NoOp, Drop
<1>9. CASE SaveFails
  <2>1. op.cmd # "none" /\ op.uuid \in Uuids /\ op.fs \in Fs
    BY <1>1, <1>9 DEF SaveFails, SaveTempInPart, NoOp
  <2>2. AckedSurvives'
    BY <1>9 DEF SaveFails, kernel, AckedSurvives
  <2>3. \A u \in DOMAIN temp' : ~Long(temp'[u])
    <3>1. CASE At("save") /\ UNCHANGED temp
      BY <3>1
    <3>2. CASE SaveTempInPart
      BY <2>1, <3>2, FilesystemsAssumption
         DEF SaveTempInPart, SavesAreSound, Put, Long, LongTemp, Junk
    <3>3. CASE At("rename") /\ "temp" \in Faults /\ UNCHANGED temp
      BY <2>1, <3>3, FilesystemsAssumption DEF SavesAreSound, Long, Junk
    <3> QED BY <1>9, <3>1, <3>2, <3>3 DEF SaveFails
  <2> QED BY <1>1, <1>9, <2>1, <2>2, <2>3 DEF SaveFails, Fail, NoOp
<1>10. CASE RmFs
  BY <1>1, <1>10 DEF RmFs, kernel, AckedSurvives, NoOp, Drop, IInv, OpOk
<1>11. CASE Crash
  <2>1. AckedSurvives'
    BY <1>11 DEF Crash, AckedSurvives
  <2>2. \A u \in DOMAIN temp' : ~Long(temp'[u])
    <3>1. CASE ~At("rename") /\ UNCHANGED temp
      BY <3>1
    <3>2. CASE SaveTempInPart
      BY <1>1, <3>2, FilesystemsAssumption
         DEF SaveTempInPart, SavesAreSound, Put, Long, LongTemp, Junk, NoOp
    <3>3. CASE At("rename") /\ "temp" \in Faults /\ UNCHANGED temp
      BY <1>1, <3>3, FilesystemsAssumption DEF SavesAreSound, Long, Junk, NoOp
    <3> QED BY <1>11, <3>1, <3>2, <3>3 DEF Crash
  <2> QED BY <1>11, <2>1, <2>2 DEF Crash, NoOp
<1>12. ASSUME NEW u \in Uuids, NEW name \in Names, Create(u, name) \/ Snapshot(u, name)
       PROVE  Rest'
  <2>1. PICK cmd, size : NewId(cmd, u, name, size)
    BY <1>12 DEF Create, Snapshot
  <2>2. /\ op.cmd = "none" /\ u \notin DOMAIN json
        /\ op'.uuid = u /\ op'.at = "thin"
        /\ thin' = thin /\ json' = json /\ temp' = temp /\ acked' = acked
    BY <2>1 DEF NewId, Begin, Fresh, kernel, mdv
  <2>3. AckedSurvives' /\ u \notin DOMAIN acked'
    BY <2>2 DEF AckedSurvives
  <2>4. \A v \in DOMAIN temp : ~Long(temp[v])
    BY <1>1, <2>2 DEF NoOp
  <2> QED
    BY <2>2, <2>3, <2>4
<1>13. ASSUME NEW u \in Uuids, NEW name \in Names, Rename(u, name) PROVE Rest'
  <2>1. op = NoOp /\ op'.cmd = "rename" /\ op'.at = "save"
    BY <1>1, <1>13 DEF Rename, Begin
  <2>2. AckedSurvives'
    BY <1>13 DEF Rename, AckedSurvives, kernel, mdv
  <2>3. temp' = temp /\ \A v \in DOMAIN temp : ~Long(temp[v])
    BY <1>13, <2>1 DEF Rename, mdv, NoOp
  <2> QED
    BY <2>1, <2>2, <2>3
<1>14. ASSUME NEW u \in Uuids, Grow(u) PROVE Rest'
  BY <1>1, <1>14 DEF Grow, mdv, AckedSurvives, NoOp
<1>15. ASSUME NEW u \in Uuids, Destroy(u) PROVE Rest'
  <2>1. /\ op.cmd = "none" /\ u \in DOMAIN fss
        /\ op'.uuid = u /\ op'.at = "rm"
        /\ thin' = Drop(thin, fss[u].id) /\ acked' = Drop(acked, u)
        /\ json' = json /\ temp' = temp
    BY <1>15 DEF Destroy, Begin, mdv
  <2>2. u \notin DOMAIN acked'
    BY <2>1 DEF Drop
  <2>3. thin[fss[u].id] = u
    BY <2>1 DEF IInv, OwnThinDevice
  <2>4. AckedSurvives'
    <3> SUFFICES ASSUME NEW v \in DOMAIN acked'
                 PROVE  /\ v \in DOMAIN json /\ json[v] \notin Junk
                        /\ json[v].name = acked'[v]
                        /\ json[v].id \in DOMAIN thin' /\ thin'[json[v].id] = v
      BY <2>1 DEF AckedSurvives
    <3>1. v \in DOMAIN acked /\ v # u /\ acked'[v] = acked[v]
      BY <2>1 DEF Drop
    <3>2. /\ v \in DOMAIN json /\ json[v] \notin Junk /\ json[v].name = acked[v]
          /\ json[v].id \in DOMAIN thin /\ thin[json[v].id] = v
      BY <3>1 DEF AckedSurvives
    <3>3. json[v].id # fss[u].id
      BY <2>3, <3>1, <3>2
    <3> QED
      BY <2>1, <3>1, <3>2, <3>3 DEF Drop
  <2>5. \A v \in DOMAIN temp : ~Long(temp[v])
    BY <1>1, <2>1 DEF NoOp
  <2> QED
    BY <2>1, <2>2, <2>4, <2>5
<1>16. ASSUME NEW u \in Uuids, DestroyFails(u) PROVE Rest'
  BY <1>16, Zenon DEF DestroyFails, mdv, AckedSurvives
<1>17. ASSUME NEW left \in SUBSET Uuids, NEW size \in [Uuids -> Sizes], Setup(left, size)
       PROVE  Rest'
  BY <1>17, Zenon DEF Setup, mdv, AckedSurvives
<1>18. CASE UNCHANGED vars
  BY <1>18 DEF vars, AckedSurvives
<1> HIDE DEF Rest, SInv
<1> QED
  BY <1>2, <1>3, <1>4, <1>5, <1>6, <1>7, <1>8, <1>9, <1>10, <1>11, <1>12, <1>13, <1>14,
     <1>15, <1>16, <1>17, <1>18 DEF Next

(* A filesystem that a command has reported as saved is in the MDV, under  *)
(* the name last reported, and has its device, until it is destroyed.      *)
THEOREM ReportedFilesystemsSurvive ==
    ASSUME SavesAreSound
    PROVE  Spec => []AckedSurvives
<1>1. SInv /\ [Next]_vars => SInv'
  BY SStep
<1> QED BY SStart, <1>1, PTL DEF Spec, SInv

----------------------------------------------------------------------------
(* Segments.                                                               *)

Less == {ss \in Nat \X Nat : ss[1] < ss[2]}

LEMMA LessWellFounded == IsWellFoundedOn(Less, Nat)
  BY NatLessThanWellFounded DEF OpToRel, Less

LEMMA LeastNat ==
    ASSUME NEW S \in SUBSET Nat, S # {}
    PROVE  \E x \in S : \A y \in S : x <= y
<1>1. PICK x \in S : \A y \in S : ~(<<y, x>> \in Less)
  BY LessWellFounded, WFMin, Zenon
<1>2. \A y \in S : y < x => <<y, x>> \in Less
  BY DEF Less
<1>3. \A y \in S : ~(y < x)
  BY <1>1, <1>2, Zenon
<1> QED
  BY <1>3

LEMMA GreatestNat ==
    ASSUME NEW S \in SUBSET Nat, S # {}, NEW b \in Nat, \A y \in S : y <= b
    PROVE  \E x \in S : \A y \in S : y <= x
<1> DEFINE T == {b - y : y \in S}
<1>1. T \in SUBSET Nat /\ T # {}
  <2>1. \A y \in S : b - y \in Nat
    OBVIOUS
  <2> QED
    BY <2>1, Zenon
<1>2. PICK t \in T : \A u \in T : t <= u
  BY <1>1, LeastNat, Zenon
<1>3. PICK x \in S : t = b - x
  BY <1>2
<1>4. \A y \in S : b - x <= b - y
  BY <1>2, <1>3
<1> QED
  BY <1>3, <1>4

----------------------------------------------------------------------------
(* What Normal says of the ends of the ranges.                             *)
LEMMA NormalFacts ==
    ASSUME NEW used, NEW limit \in Nat, Normal(used, limit)
    PROVE  /\ \A r \in used : /\ r[1] \in Nat /\ End(r) \in Nat
                             /\ r[1] < End(r) /\ End(r) <= limit
           /\ \A r, t \in used : r # t => End(r) < t[1] \/ End(t) < r[1]
BY DEF Normal, End

LEMMA CoveredIs ==
    ASSUME NEW used, \A r \in used : r[1] \in Nat /\ End(r) \in Nat, NEW x
    PROVE  x \in Covered(used) <=> x \in Nat /\ \E r \in used : r[1] <= x /\ x < End(r)
BY DEF Covered

(* The ranges next to a value exist if there are any on that side.         *)
LEMMA PrevExists ==
    ASSUME NEW used, \A r \in used : r[1] \in Nat, NEW value \in Nat,
           NEW r \in used, r[1] <= value
    PROVE  \E p \in Prev(used, value) : r[1] <= p[1]
<1> DEFINE S == {t[1] : t \in {u \in used : u[1] <= value}}
<1>1. S \in SUBSET Nat /\ r[1] \in S /\ \A y \in S : y <= value
  OBVIOUS
<1>2. PICK x \in S : \A y \in S : y <= x
  BY <1>1, GreatestNat, Zenon
<1>3. PICK p \in used : p[1] <= value /\ x = p[1]
  BY <1>2
<1>4. p \in Prev(used, value)
  BY <1>2, <1>3 DEF Prev
<1> QED
  BY <1>1, <1>2, <1>3, <1>4

LEMMA FollowingExists ==
    ASSUME NEW used, \A r \in used : r[1] \in Nat, NEW value \in Nat,
           NEW r \in used, r[1] >= value
    PROVE  \E n \in Following(used, value) : n[1] <= r[1]
<1> DEFINE S == {t[1] : t \in {u \in used : u[1] >= value}}
<1>1. S \in SUBSET Nat /\ r[1] \in S
  OBVIOUS
<1>2. PICK x \in S : \A y \in S : x <= y
  BY <1>1, LeastNat, Zenon
<1>3. PICK n \in used : n[1] >= value /\ x = n[1]
  BY <1>2
<1>4. n \in Following(used, value)
  BY <1>2, <1>3 DEF Following
<1> QED
  BY <1>1, <1>2, <1>3, <1>4

----------------------------------------------------------------------------
(* insertion_result refuses a range exactly if it does not end within the  *)
(* limit or has a sector that is used.                                     *)
LEMMA RefusedIsOverlap ==
    ASSUME NEW used, NEW limit \in Nat, Normal(used, limit),
           NEW start \in Nat, NEW len \in Nat \ {0}
    PROVE  Refused(used, limit, start, len) <=>
             \/ start + len > limit
             \/ \E x \in start .. start + len - 1 : x \in Covered(used)
<1>1. /\ \A r \in used : r[1] \in Nat /\ End(r) \in Nat /\ r[1] < End(r) /\ End(r) <= limit
      /\ \A r, t \in used : r # t => End(r) < t[1] \/ End(t) < r[1]
  BY NormalFacts
<1>2. \A x : x \in Covered(used) <=> x \in Nat /\ \E r \in used : r[1] <= x /\ x < End(r)
  BY <1>1, CoveredIs
<1>3. ASSUME NEW p \in Prev(used, start), End(p) > start
      PROVE  start \in Covered(used)
  BY <1>1, <1>2, <1>3 DEF Prev
<1>4. ASSUME NEW n \in Following(used, start), start + len > n[1]
      PROVE  n[1] \in Covered(used) /\ n[1] \in start .. start + len - 1
  BY <1>1, <1>2, <1>4 DEF Following
<1>5. ASSUME NEW x \in start .. start + len - 1, x \in Covered(used)
      PROVE  Refused(used, limit, start, len)
  <2>1. PICK r \in used : r[1] <= x /\ x < End(r)
    BY <1>2, <1>5
  <2>2. CASE r[1] <= start
    <3>1. PICK p \in Prev(used, start) : r[1] <= p[1]
      BY <1>1, <2>2, PrevExists
    <3>2. p \in used /\ p[1] <= start
      BY <3>1 DEF Prev
    <3>3. End(p) > start
      BY <1>1, <1>5, <2>1, <3>1, <3>2
    <3> QED
      BY <3>1, <3>3 DEF Refused
  <2>3. CASE r[1] > start
    <3>1. PICK n \in Following(used, start) : n[1] <= r[1]
      BY <1>1, <2>3, FollowingExists
    <3>2. n \in used
      BY <3>1 DEF Following
    <3>3. start + len > n[1]
      BY <1>1, <1>5, <2>1, <3>1, <3>2
    <3> QED
      BY <3>1, <3>3 DEF Refused
  <2> QED
    BY <1>1, <2>2, <2>3
<1>6. ASSUME Refused(used, limit, start, len)
      PROVE  \/ start + len > limit
             \/ \E x \in start .. start + len - 1 : x \in Covered(used)
  <2>1. start \in start .. start + len - 1
    OBVIOUS
  <2> QED
    BY <1>3, <1>4, <1>6, <2>1 DEF Refused
<1>7. ASSUME start + len > limit PROVE Refused(used, limit, start, len)
  BY <1>7 DEF Refused
<1> QED
  BY <1>5, <1>6, <1>7

(* A range that is not refused lies apart from all but the contiguous ones. *)
LEMMA OthersApart ==
    ASSUME NEW used, NEW limit \in Nat, Normal(used, limit),
           NEW start \in Nat, NEW len \in Nat \ {0}, ~Refused(used, limit, start, len),
           NEW r \in used, r \notin Contiguous(used, start, len)
    PROVE  End(r) < start \/ start + len < r[1]
<1>1. /\ \A t \in used : t[1] \in Nat /\ End(t) \in Nat /\ t[1] < End(t)
      /\ \A t, u \in used : t # u => End(t) < u[1] \/ End(u) < t[1]
  BY NormalFacts
<1>2. CASE r[1] <= start
  <2>1. PICK p \in Prev(used, start) : r[1] <= p[1]
    BY <1>1, <1>2, PrevExists
  <2>2. p \in used /\ p[1] <= start /\ End(p) <= start
    BY <1>1, <2>1 DEF Prev, Refused
  <2>3. CASE r = p
    <3>1. End(r) # start
      BY <2>1, <2>3 DEF Contiguous
    <3> QED
      BY <1>1, <2>2, <2>3, <3>1
  <2>4. CASE r # p
    BY <1>1, <2>1, <2>2, <2>4
  <2> QED
    BY <2>3, <2>4
<1>3. CASE r[1] > start
  <2>1. PICK n \in Following(used, start) : n[1] <= r[1]
    BY <1>1, <1>3, FollowingExists
  <2>2. n \in used /\ start + len <= n[1]
    BY <1>1, <2>1 DEF Following, Refused
  <2>3. CASE r = n
    <3>1. start + len # r[1]
      BY <2>1, <2>3 DEF Contiguous
    <3> QED
      BY <1>1, <2>2, <2>3, <3>1
  <2>4. CASE r # n
    BY <1>1, <2>1, <2>2, <2>4
  <2> QED
    BY <2>3, <2>4
<1> QED
  BY <1>1, <1>2, <1>3

(* The range that takes the place of the contiguous ones has exactly their *)
(* sectors and the new ones.                                               *)
LEMMA JoinedIs ==
    ASSUME NEW used, NEW limit \in Nat, Normal(used, limit),
           NEW start \in Nat, NEW len \in Nat \ {0}, ~Refused(used, limit, start, len)
    PROVE  LET m == Joined(used, start, len)
               C == Contiguous(used, start, len)
           IN  /\ m \in Nat \X (Nat \ {0}) /\ End(m) \in Nat /\ End(m) <= limit
               /\ m[1] <= start /\ start + len <= End(m)
               /\ \A c \in C : m[1] <= c[1] /\ End(c) <= End(m)
               /\ m[1] < start => \E c \in C : c[1] = m[1] /\ End(c) = start
               /\ start + len < End(m) => \E c \in C : c[1] = start + len /\ End(c) = End(m)
<1> DEFINE C == Contiguous(used, start, len)
           new == <<start, len>>
           parts == C \cup {new}
           first == CHOOSE r \in parts : \A t \in parts : r[1] <= t[1]
           last == CHOOSE r \in parts : \A t \in parts : End(t) <= End(r)
<1>1. \A t \in used : t[1] \in Nat /\ End(t) \in Nat /\ t[1] < End(t) /\ End(t) <= limit
  BY NormalFacts
<1>2. /\ new[1] = start /\ End(new) = start + len /\ End(new) <= limit
  BY DEF End, Refused
<1>3. \A c \in C : c \in used /\ (End(c) = start \/ c[1] = start + len)
  BY DEF Contiguous, Prev, Following
<1>4. \A t \in parts : t[1] \in Nat /\ End(t) \in Nat /\ t[1] < End(t) /\ End(t) <= limit
  BY <1>1, <1>2, <1>3
<1>5. Joined(used, start, len) = <<first[1], End(last) - first[1]>>
  BY DEF Joined
<1>6. first \in parts /\ \A t \in parts : first[1] <= t[1]
  <2>1. {t[1] : t \in parts} \in SUBSET Nat /\ {t[1] : t \in parts} # {}
    BY <1>4, Zenon
  <2>2. PICK x \in {t[1] : t \in parts} : \A y \in {t[1] : t \in parts} : x <= y
    BY <2>1, LeastNat, Zenon
  <2>3. \E r \in parts : \A t \in parts : r[1] <= t[1]
    BY <2>2
  <2> HIDE DEF parts
  <2> QED
    BY <2>3
<1>7. last \in parts /\ \A t \in parts : End(t) <= End(last)
  <2>1. {End(t) : t \in parts} \in SUBSET Nat /\ {End(t) : t \in parts} # {}
    BY <1>4, Zenon
  <2>2. \A y \in {End(t) : t \in parts} : y <= limit
    BY <1>4
  <2>3. PICK x \in {End(t) : t \in parts} : \A y \in {End(t) : t \in parts} : y <= x
    BY <2>1, <2>2, GreatestNat, Zenon
  <2>4. \E r \in parts : \A t \in parts : End(t) <= End(r)
    BY <2>3
  <2> HIDE DEF parts
  <2> QED
    BY <2>4
<1> HIDE DEF first, last
<1>8. /\ first[1] <= start /\ start + len <= End(last)
      /\ first[1] \in Nat /\ End(last) \in Nat /\ End(last) <= limit
      /\ \A c \in C : first[1] <= c[1] /\ End(c) <= End(last)
  BY <1>2, <1>4, <1>6, <1>7
<1>9. first[1] < start => first \in C /\ End(first) = start
  BY <1>1, <1>2, <1>3, <1>6
<1>10. start + len < End(last) => last \in C /\ last[1] = start + len
  BY <1>1, <1>2, <1>3, <1>7
<1> DEFINE m == Joined(used, start, len)
<1>11. m[1] = first[1] /\ End(m) = End(last) /\ m \in Nat \X (Nat \ {0})
  <2>1. End(last) - first[1] \in Nat \ {0}
    BY <1>8
  <2>2. m[1] = first[1] /\ m[2] = End(last) - first[1]
    BY <1>5
  <2>3. End(m) = m[1] + m[2]
    BY DEF End
  <2> QED
    BY <1>5, <1>8, <2>1, <2>2, <2>3
<1> QED
  BY <1>8, <1>9, <1>10, <1>11

----------------------------------------------------------------------------
(* The set that insert leaves, when it merges.                             *)
LEMMA InsertedIs ==
    ASSUME NEW used, NEW limit \in Nat, Normal(used, limit),
           NEW start \in Nat, NEW len \in Nat \ {0}, ~Refused(used, limit, start, len)
    PROVE  /\ Normal(Inserted(used, start, len), limit)
           /\ Covered(Inserted(used, start, len)) = Covered(used) \cup (start .. start + len - 1)
<1> DEFINE C == Contiguous(used, start, len)
           m == Joined(used, start, len)
           res == (used \ C) \cup {m}
<1>1. /\ \A t \in used : t[1] \in Nat /\ End(t) \in Nat /\ t[1] < End(t) /\ End(t) <= limit
      /\ \A t, u \in used : t # u => End(t) < u[1] \/ End(u) < t[1]
  BY NormalFacts
<1>2. \A c \in C : c \in used /\ (End(c) = start \/ c[1] = start + len)
  BY DEF Contiguous, Prev, Following
<1>3. /\ m \in Nat \X (Nat \ {0}) /\ End(m) \in Nat /\ End(m) <= limit
      /\ m[1] <= start /\ start + len <= End(m)
      /\ \A c \in C : m[1] <= c[1] /\ End(c) <= End(m)
      /\ m[1] < start => \E c \in C : c[1] = m[1] /\ End(c) = start
      /\ start + len < End(m) => \E c \in C : c[1] = start + len /\ End(c) = End(m)
  BY JoinedIs
<1>4. \A r \in used \ C : End(r) < start \/ start + len < r[1]
  BY OthersApart
<1> HIDE DEF C, m
<1>5. m[1] \in Nat /\ m[1] < End(m)
  BY <1>3
<1>6. ASSUME NEW r \in used \ C PROVE End(r) < m[1] \/ End(m) < r[1]
  <2>1. CASE End(r) < start
    <3>1. CASE m[1] < start
      <4>1. PICK c \in C : c[1] = m[1] /\ End(c) = start
        BY <1>3, <3>1
      <4> QED
        BY <1>1, <1>2, <1>5, <2>1, <4>1
    <3> QED
      BY <1>1, <1>3, <1>5, <2>1, <3>1
  <2>2. CASE start + len < r[1]
    <3>1. CASE start + len < End(m)
      <4>1. PICK c \in C : c[1] = start + len /\ End(c) = End(m)
        BY <1>3, <3>1
      <4> QED
        BY <1>1, <1>2, <1>3, <2>2, <4>1
    <3> QED
      BY <1>1, <1>3, <2>2, <3>1
  <2> QED
    BY <1>4, <2>1, <2>2
<1>7. Normal(res, limit)
  <2>1. res \subseteq Nat \X (Nat \ {0})
    BY <1>3 DEF Normal
  <2>2. \A r \in res : End(r) <= limit
    BY <1>1, <1>3
  <2>3. ASSUME NEW r \in res, NEW t \in res, r # t
        PROVE  End(r) < t[1] \/ End(t) < r[1]
    BY <1>1, <1>6, <2>3
  <2> QED
    BY <2>1, <2>2, <2>3 DEF Normal
<1>8. \A r \in res : r[1] \in Nat /\ End(r) \in Nat
  BY <1>1, <1>3, <1>5
<1>9. ASSUME NEW x \in Nat
      PROVE  x \in Covered(res) <=> x \in Covered(used) \/ x \in start .. start + len - 1
  <2>1. x \in Covered(used) <=> \E r \in used : r[1] <= x /\ x < End(r)
    BY <1>1, CoveredIs
  <2>2. x \in Covered(res) <=> \E r \in res : r[1] <= x /\ x < End(r)
    <3> HIDE DEF res
    <3> QED
      BY <1>8, CoveredIs
  <2>3. ASSUME NEW r \in used, r[1] <= x, x < End(r) PROVE x \in Covered(res)
    <3>1. CASE r \in C
      BY <1>1, <1>3, <1>5, <2>2, <2>3, <3>1
    <3> QED
      BY <2>2, <2>3, <3>1
  <2>4. ASSUME x \in start .. start + len - 1 PROVE x \in Covered(res)
    BY <1>3, <1>5, <2>2, <2>4
  <2>5. ASSUME m[1] <= x, x < End(m) PROVE x \in Covered(used) \/ x \in start .. start + len - 1
    <3>1. CASE x < start
      <4>1. PICK c \in C : c[1] = m[1] /\ End(c) = start
        BY <1>3, <1>5, <2>5, <3>1
      <4> QED
        BY <1>2, <2>1, <2>5, <3>1, <4>1
    <3>2. CASE x >= start + len
      <4>1. PICK c \in C : c[1] = start + len /\ End(c) = End(m)
        BY <1>3, <2>5, <3>2
      <4> QED
        BY <1>2, <2>1, <2>5, <3>2, <4>1
    <3> QED
      BY <3>1, <3>2
  <2> QED
    BY <2>1, <2>2, <2>3, <2>4, <2>5
<1>10. Covered(res) \subseteq Nat /\ Covered(used) \subseteq Nat
  <2> HIDE DEF res
  <2> QED
    BY <1>1, <1>8, CoveredIs
<1>11. Covered(res) = Covered(used) \cup (start .. start + len - 1)
  <2> HIDE DEF res
  <2> QED
    BY <1>9, <1>10
<1> QED
  BY <1>7, <1>11 DEF C, m, Inserted

(* PerDevSegments::insert is exact: it succeeds if and only if the range   *)
(* ends within the limit and none of its sectors is used, and then the     *)
(* used sectors are those that were and those of the range, in a map that  *)
(* is as PerDevSegments promises.                                          *)
THEOREM InsertIsExact ==
    ASSUME NEW used, NEW limit \in Nat, Normal(used, limit), NEW start \in Nat, NEW len \in Nat
    PROVE  LET res == Insert(used, limit, start, len)
           IN  /\ res.ok <=> /\ start + len <= limit
                             /\ \A x \in start .. start + len - 1 : x \notin Covered(used)
               /\ res.ok => /\ Normal(res.used, limit)
                            /\ Covered(res.used) = Covered(used) \cup (start .. start + len - 1)
<1> DEFINE res == Insert(used, limit, start, len)
           merged == Inserted(used, start, len)
<1>1. CASE start > limit
  <2>1. res = Failed
    BY <1>1 DEF Insert
  <2> QED
    BY <1>1, <2>1 DEF Failed
<1>2. CASE start <= limit /\ len = 0
  <2>1. res = Done(used)
    BY <1>2 DEF Insert
  <2>2. start .. start + len - 1 = {} /\ start + len <= limit
    BY <1>2
  <2>3. res.ok /\ res.used = used
    BY <2>1 DEF Done
  <2>4. Covered(used) = Covered(used) \cup (start .. start + len - 1)
    BY <2>2
  <2> QED
    BY <2>2, <2>3, <2>4
<1>3. CASE start <= limit /\ len # 0 /\ Refused(used, limit, start, len)
  <2>1. res = Failed
    BY <1>3 DEF Insert
  <2>2. start + len > limit \/ \E x \in start .. start + len - 1 : x \in Covered(used)
    BY <1>3, RefusedIsOverlap
  <2> QED
    BY <2>1, <2>2 DEF Failed
<1>4. CASE start <= limit /\ len # 0 /\ ~Refused(used, limit, start, len)
  <2>1. res = Done(merged)
    BY <1>4 DEF Insert
  <2>2. ~(start + len > limit) /\ \A x \in start .. start + len - 1 : x \notin Covered(used)
    BY <1>4, RefusedIsOverlap
  <2>3. Normal(merged, limit) /\ Covered(merged) = Covered(used) \cup (start .. start + len - 1)
    BY <1>4, InsertedIs
  <2> HIDE DEF merged
  <2>4. res.ok /\ res.used = merged
    BY <2>1 DEF Done
  <2> QED
    BY <2>2, <2>3, <2>4
<1> QED
  BY <1>1, <1>2, <1>3, <1>4

----------------------------------------------------------------------------
(* A gap goes on to the nearest range behind it, or to the limit.          *)
LEMMA GapEndIs ==
    ASSUME NEW used, NEW limit \in Nat, Normal(used, limit), NEW e \in 0 .. limit
    PROVE  /\ GapEnd(used, limit, e) \in e .. limit
           /\ \A r \in used : r[1] >= e => GapEnd(used, limit, e) <= r[1]
           /\ GapEnd(used, limit, e) # limit => \E r \in used : r[1] = GapEnd(used, limit, e)
<1> DEFINE after == {s \in Starts(used) : s >= e} \cup {limit}
<1>1. \A r \in used : r[1] \in Nat /\ r[1] <= limit
  BY NormalFacts
<1>2. after \in SUBSET Nat /\ after # {}
  BY <1>1 DEF Starts
<1>3. \E x \in after : \A y \in after : x <= y
  <2> HIDE DEF after
  <2> QED
    BY <1>2, LeastNat
<1>4. GapEnd(used, limit, e) \in after /\ \A y \in after : GapEnd(used, limit, e) <= y
  <2>1. GapEnd(used, limit, e) = CHOOSE s \in after : \A t \in after : s <= t
    BY DEF GapEnd
  <2> HIDE DEF after
  <2> QED
    BY <1>3, <2>1
<1>5. \A r \in used : r[1] >= e => r[1] \in after
  BY DEF Starts
<1>6. \A x \in after : x \in e .. limit /\ (x # limit => \E r \in used : r[1] = x)
  BY <1>1 DEF Starts
<1> HIDE DEF after
<1> QED
  BY <1>4, <1>5, <1>6

Ends(used) == {0} \cup {End(r) : r \in used}

(* No range reaches over the place where another one ends.                 *)
LEMMA EndsOutside ==
    ASSUME NEW used, NEW limit \in Nat, Normal(used, limit), NEW e \in Ends(used)
    PROVE  /\ e \in 0 .. limit
           /\ \A r \in used : r[1] < e => End(r) <= e
<1>1. /\ \A r \in used : r[1] \in Nat /\ End(r) \in Nat /\ r[1] < End(r) /\ End(r) <= limit
      /\ \A r, t \in used : r # t => End(r) < t[1] \/ End(t) < r[1]
  BY NormalFacts
<1>2. CASE e = 0
  BY <1>1, <1>2
<1>3. ASSUME NEW t \in used, e = End(t)
      PROVE  /\ e \in 0 .. limit
             /\ \A r \in used : r[1] < e => End(r) <= e
  BY <1>1, <1>3
<1> QED
  BY <1>2, <1>3 DEF Ends

(* What Complement consists of.                                            *)
LEMMA ComplementIs ==
    ASSUME NEW used, NEW limit \in Nat, Normal(used, limit), NEW g \in Complement(used, limit)
    PROVE  /\ g \in Nat \X (Nat \ {0}) /\ g[1] \in Ends(used) /\ g[1] \in 0 .. limit
           /\ End(g) = GapEnd(used, limit, g[1]) /\ End(g) \in Nat /\ g[1] < End(g) /\ End(g) <= limit
<1>1. PICK e \in Ends(used) : /\ GapEnd(used, limit, e) # e
                              /\ g = <<e, GapEnd(used, limit, e) - e>>
  BY DEF Complement, Ends
<1>2. e \in 0 .. limit
  BY EndsOutside
<1>3. GapEnd(used, limit, e) \in e .. limit
  BY <1>2, GapEndIs
<1> QED
  BY <1>1, <1>2, <1>3 DEF End

(* PerDevSegments::complement is exact: the gaps have all the sectors      *)
(* below the limit that are not used and no other, and they are a map as   *)
(* PerDevSegments promises.                                                *)
THEOREM ComplementIsExact ==
    ASSUME NEW used, NEW limit \in Nat, Normal(used, limit)
    PROVE  /\ Normal(Complement(used, limit), limit)
           /\ Covered(Complement(used, limit)) = (0 .. limit - 1) \ Covered(used)
<1> DEFINE free == Complement(used, limit)
<1>1. /\ \A r \in used : r[1] \in Nat /\ End(r) \in Nat /\ r[1] < End(r) /\ End(r) <= limit
      /\ \A r, t \in used : r # t => End(r) < t[1] \/ End(t) < r[1]
  BY NormalFacts
<1>2. \A g \in free :
        /\ g \in Nat \X (Nat \ {0}) /\ g[1] \in Ends(used) /\ g[1] \in 0 .. limit
        /\ End(g) = GapEnd(used, limit, g[1]) /\ End(g) \in Nat /\ g[1] < End(g) /\ End(g) <= limit
  BY ComplementIs
<1>3. \A e \in Ends(used) : e \in 0 .. limit /\ \A r \in used : r[1] < e => End(r) <= e
  BY EndsOutside
<1>4. \A e \in 0 .. limit :
        /\ GapEnd(used, limit, e) \in e .. limit
        /\ \A r \in used : r[1] >= e => GapEnd(used, limit, e) <= r[1]
        /\ GapEnd(used, limit, e) # limit => \E r \in used : r[1] = GapEnd(used, limit, e)
  BY GapEndIs
<1> HIDE DEF free
<1>5. ASSUME NEW g \in free, NEW h \in free, g[1] < h[1] PROVE End(g) < h[1]
  <2>1. g[1] \in Ends(used) /\ h[1] \in Ends(used) /\ g[1] \in 0 .. limit /\ h[1] \in 0 .. limit
    BY <1>2
  <2>2. PICK t \in used : h[1] = End(t)
    BY <1>5, <2>1 DEF Ends
  <2>3. t[1] >= g[1]
    BY <1>1, <1>3, <1>5, <2>1, <2>2
  <2>4. End(g) <= t[1]
    BY <1>2, <1>4, <2>1, <2>3
  <2> QED
    BY <1>1, <1>2, <2>2, <2>4
<1>6. Normal(free, limit)
  <2>1. free \subseteq Nat \X (Nat \ {0}) /\ \A g \in free : End(g) <= limit
    BY <1>2
  <2>2. ASSUME NEW g \in free, NEW h \in free, g # h PROVE End(g) < h[1] \/ End(h) < g[1]
    <3>1. g[1] # h[1]
      <4> SUFFICES ASSUME g[1] = h[1] PROVE FALSE
        OBVIOUS
      <4>1. g[1] + g[2] = h[1] + h[2]
        BY <1>2 DEF End
      <4>2. g = <<g[1], g[2]>> /\ h = <<h[1], h[2]>> /\ g[1] \in Nat /\ g[2] \in Nat /\ h[2] \in Nat
        BY <1>2
      <4>3. g[2] = h[2]
        BY <4>1, <4>2
      <4> QED
        BY <2>2, <4>2, <4>3
    <3>2. g[1] \in Nat /\ h[1] \in Nat
      BY <1>2
    <3> QED
      BY <1>5, <3>1, <3>2
  <2> QED
    BY <2>1, <2>2 DEF Normal
<1>7. ASSUME NEW x \in Nat
      PROVE  /\ x \in Covered(used) <=> \E r \in used : r[1] <= x /\ x < End(r)
             /\ x \in Covered(free) <=> \E g \in free : g[1] <= x /\ x < End(g)
  BY <1>1, <1>2, CoveredIs
<1>8. ASSUME NEW x \in Nat, x \in Covered(free) PROVE x < limit /\ x \notin Covered(used)
  <2>1. PICK g \in free : g[1] <= x /\ x < End(g)
    BY <1>7, <1>8
  <2>2. ASSUME NEW r \in used, r[1] <= x, x < End(r) PROVE FALSE
    <3>1. CASE r[1] >= g[1]
      BY <1>1, <1>2, <1>4, <2>1, <2>2, <3>1
    <3>2. CASE r[1] < g[1]
      BY <1>1, <1>2, <1>3, <2>1, <2>2, <3>2
    <3> QED
      BY <1>1, <1>2, <3>1, <3>2
  <2> QED
    BY <1>2, <1>7, <2>1, <2>2
<1>9. ASSUME NEW x \in 0 .. limit - 1, x \notin Covered(used) PROVE x \in Covered(free)
  <2> DEFINE S == {y \in Ends(used) : y <= x}
  <2>1. S \in SUBSET Nat /\ 0 \in S /\ \A y \in S : y <= x
    <3>1. 0 \in Ends(used)
      BY DEF Ends
    <3>2. \A y \in Ends(used) : y \in Nat
      BY <1>3
    <3> QED
      BY <3>1, <3>2
  <2>2. PICK e \in S : \A y \in S : y <= e
    <3> HIDE DEF S
    <3>1. x \in Nat /\ S # {}
      BY <2>1
    <3> QED
      BY <2>1, <3>1, GreatestNat, Zenon
  <2>3. e \in Ends(used) /\ e <= x /\ e \in 0 .. limit
    BY <1>3, <2>2
  <2>4. \A r \in used : r[1] >= e => r[1] > x
    <3> SUFFICES ASSUME NEW r \in used, r[1] >= e, r[1] <= x PROVE FALSE
      BY <1>1
    <3>1. End(r) <= x
      BY <1>1, <1>7, <1>9
    <3>2. End(r) \in S
      BY <3>1 DEF Ends
    <3> QED
      BY <1>1, <2>1, <2>2, <3>2
  <2>5. GapEnd(used, limit, e) > x
    <3>1. GapEnd(used, limit, e) \in e .. limit
      BY <1>4, <2>3
    <3>2. CASE GapEnd(used, limit, e) = limit
      BY <3>2
    <3>3. CASE GapEnd(used, limit, e) # limit
      <4>1. PICK r \in used : r[1] = GapEnd(used, limit, e)
        BY <1>4, <2>3, <3>3
      <4> QED
        BY <1>1, <2>3, <2>4, <3>1, <4>1
    <3> QED
      BY <3>2, <3>3
  <2>6. <<e, GapEnd(used, limit, e) - e>> \in free
    BY <2>3, <2>5 DEF Complement, Ends, free
  <2> DEFINE g == <<e, GapEnd(used, limit, e) - e>>
  <2>7. g[1] = e /\ End(g) = GapEnd(used, limit, e)
    BY <1>2, <2>6
  <2> QED
    BY <1>7, <2>3, <2>5, <2>6, <2>7
<1>10. Covered(free) \subseteq Nat
  BY <1>2, CoveredIs
<1>11. Covered(free) = (0 .. limit - 1) \ Covered(used)
  BY <1>8, <1>9, <1>10
<1> QED
  BY <1>6, <1>11 DEF free

----------------------------------------------------------------------------
(* What request needs when it comes to a gap.                              *)
Left(used, limit, amount, g) ==
    amount - Cardinality({x \in Covered(Complement(used, limit)) : x < g[1]})

LEMMA LeftIs ==
    ASSUME NEW used, NEW limit \in Nat, Normal(used, limit), NEW amount \in Nat,
           NEW g \in Complement(used, limit)
    PROVE  /\ Left(used, limit, amount, g) \in Int
           /\ amount >= Cardinality((0 .. limit - 1) \ Covered(used)) =>
                g[2] <= Left(used, limit, amount, g)
<1> DEFINE F == Covered(Complement(used, limit))
           B == {x \in F : x < g[1]}
           I == g[1] .. End(g) - 1
<1>1. F = (0 .. limit - 1) \ Covered(used)
  BY ComplementIsExact
<1>2. IsFiniteSet(0 .. limit - 1)
  BY FS_Interval
<1>3. IsFiniteSet(F) /\ IsFiniteSet(B) /\ Cardinality(B) \in Nat /\ Cardinality(F) \in Nat
  <2>1. F \subseteq 0 .. limit - 1 /\ B \subseteq 0 .. limit - 1
    BY <1>1
  <2> HIDE DEF F, B
  <2> QED
    BY <1>2, <2>1, FS_Subset, FS_CardinalityType, Zenon
<1>4. /\ g[1] \in Nat /\ g[2] \in Nat /\ g[2] > 0 /\ End(g) = g[1] + g[2]
      /\ \A h \in Complement(used, limit) : h[1] \in Nat /\ End(h) \in Nat
  <2>1. g \in Nat \X (Nat \ {0})
    BY ComplementIs
  <2>2. g[1] \in Nat /\ g[2] \in Nat \ {0}
    BY <2>1
  <2>3. \A h \in Complement(used, limit) : h[1] \in Nat /\ End(h) \in Nat
    BY ComplementIs
  <2> QED
    BY <2>2, <2>3 DEF End
<1>5. I \subseteq F
  BY <1>4, CoveredIs
<1>6. IsFiniteSet(I) /\ Cardinality(I) = g[2]
  <2>1. g[1] \in Int /\ End(g) - 1 \in Int /\ g[1] <= End(g) - 1 /\ (End(g) - 1) - g[1] + 1 = g[2]
    BY <1>4
  <2>2. IsFiniteSet(I)
    BY <2>1, FS_Interval, Zenon
  <2>3. Cardinality(I) = IF g[1] > End(g) - 1 THEN 0 ELSE (End(g) - 1) - g[1] + 1
    BY <2>1, FS_Interval, Zenon
  <2> QED
    BY <2>1, <2>2, <2>3
<1>7. B \cap I = {} /\ B \cup I \subseteq F
  BY <1>4, <1>5
<1>8. Left(used, limit, amount, g) = amount - Cardinality(B)
  BY DEF Left
<1> HIDE DEF F, B, I
<1>9. Cardinality(B \cup I) = Cardinality(B) + Cardinality(I)
  <2>1. Cardinality(B \cap I) = 0
    BY <1>7, FS_EmptySet
  <2>2. Cardinality(B \cup I) = Cardinality(B) + Cardinality(I) - Cardinality(B \cap I)
    BY <1>3, <1>6, FS_Union
  <2> QED
    BY <1>3, <1>4, <1>6, <2>1, <2>2
<1>10. Cardinality(B) + g[2] <= Cardinality(F)
  BY <1>3, <1>6, <1>7, <1>9, FS_Subset
<1> QED
  BY <1>1, <1>3, <1>4, <1>8, <1>10

LEMMA FirstGapsIs ==
    ASSUME NEW used, NEW limit, NEW amount
    PROVE  FirstGaps(used, limit, amount) =
             {<<g[1], IF g[2] <= Left(used, limit, amount, g) THEN g[2] ELSE Left(used, limit, amount, g)>> :
                g \in {h \in Complement(used, limit) : Left(used, limit, amount, h) > 0}}
BY DEF FirstGaps, Left

(* RangeAllocator::request gives out free sectors only, as ranges that     *)
(* PerDevSegments promises, so that the union with the used ones cannot    *)
(* fail ("all segments verified to be in available ranges"); and if it is  *)
(* asked for all that is free, or more, it gives out all of it.            *)
THEOREM RequestTakesFree ==
    ASSUME NEW used, NEW limit \in Nat, Normal(used, limit), NEW amount \in Nat
    PROVE  LET got == FirstGaps(used, limit, amount)
               free == (0 .. limit - 1) \ Covered(used)
           IN  /\ Normal(got, limit) /\ Covered(got) \subseteq free
               /\ amount >= Cardinality(free) => Covered(got) = free
<1> DEFINE got == FirstGaps(used, limit, amount)
           gaps == Complement(used, limit)
           free == (0 .. limit - 1) \ Covered(used)
           left(g) == Left(used, limit, amount, g)
<1>1. Normal(gaps, limit) /\ Covered(gaps) = free
  BY ComplementIsExact
<1>2. /\ \A g \in gaps : g[1] \in Nat /\ End(g) \in Nat /\ g[1] < End(g) /\ End(g) <= limit
      /\ \A g, h \in gaps : g # h => End(g) < h[1] \/ End(h) < g[1]
  BY <1>1, NormalFacts
<1>3. \A g \in gaps : g = <<g[1], g[2]>> /\ g[2] \in Nat \ {0} /\ End(g) = g[1] + g[2]
  BY <1>1 DEF Normal, End
<1>4. \A g \in gaps : left(g) \in Int /\ (amount >= Cardinality(free) => g[2] <= left(g))
  BY LeftIs
<1>5. ASSUME NEW r \in got
      PROVE  \E g \in gaps : /\ r[1] = g[1] /\ r \in Nat \X (Nat \ {0})
                             /\ End(r) \in Nat /\ r[1] < End(r) /\ End(r) <= End(g)
                             /\ r = <<g[1], IF g[2] <= left(g) THEN g[2] ELSE left(g)>>
  <2>1. PICK g \in gaps : /\ left(g) > 0
                          /\ r = <<g[1], IF g[2] <= left(g) THEN g[2] ELSE left(g)>>
    BY FirstGapsIs
  <2> HIDE DEF left, gaps
  <2>2. r[1] = g[1] /\ r[2] = IF g[2] <= left(g) THEN g[2] ELSE left(g)
    BY <2>1
  <2>3. r[2] \in Nat \ {0} /\ r[2] <= g[2] /\ g[2] \in Nat /\ g[1] \in Nat
    BY <1>2, <1>3, <1>4, <2>1, <2>2
  <2>4. r = <<r[1], r[2]>> /\ End(r) = r[1] + r[2]
    BY <2>1, <2>2 DEF End
  <2> QED
    BY <1>3, <2>1, <2>2, <2>3, <2>4
<1> HIDE DEF got, gaps, left
<1>6. Normal(got, limit)
  <2>1. got \subseteq Nat \X (Nat \ {0}) /\ \A r \in got : End(r) <= limit
    BY <1>2, <1>5
  <2>2. ASSUME NEW r \in got, NEW t \in got, r # t PROVE End(r) < t[1] \/ End(t) < r[1]
    <3>1. PICK g \in gaps : /\ r[1] = g[1] /\ End(r) \in Nat /\ End(r) <= End(g)
                            /\ r = <<g[1], IF g[2] <= left(g) THEN g[2] ELSE left(g)>>
      BY <1>5
    <3>2. PICK h \in gaps : /\ t[1] = h[1] /\ End(t) \in Nat /\ End(t) <= End(h)
                            /\ t = <<h[1], IF h[2] <= left(h) THEN h[2] ELSE left(h)>>
      BY <1>5
    <3>3. g # h
      BY <2>2, <3>1, <3>2
    <3> QED
      BY <1>2, <3>1, <3>2, <3>3
  <2> QED
    BY <2>1, <2>2 DEF Normal
<1>7. /\ Covered(got) \subseteq Nat /\ Covered(gaps) \subseteq Nat
      /\ \A x \in Nat : x \in Covered(got) <=> \E r \in got : r[1] <= x /\ x < End(r)
      /\ \A x \in Nat : x \in Covered(gaps) <=> \E g \in gaps : g[1] <= x /\ x < End(g)
  <2>1. \A r \in got : r[1] \in Nat /\ End(r) \in Nat
    BY <1>6, NormalFacts
  <2> QED
    BY <1>2, <2>1, CoveredIs
<1>8. Covered(got) \subseteq Covered(gaps)
  <2> SUFFICES ASSUME NEW x \in Nat, x \in Covered(got) PROVE x \in Covered(gaps)
    BY <1>7
  <2>1. PICK r \in got : r[1] <= x /\ x < End(r)
    BY <1>7
  <2>2. PICK g \in gaps : r[1] = g[1] /\ End(r) \in Nat /\ End(r) <= End(g)
    BY <1>5
  <2>3. g[1] <= x /\ x < End(g)
    BY <1>2, <2>1, <2>2
  <2> QED
    BY <1>7, <2>3
<1>9. ASSUME amount >= Cardinality(free) PROVE gaps \subseteq got
  <2> SUFFICES ASSUME NEW g \in gaps PROVE g \in got
    OBVIOUS
  <2>1. g[2] <= left(g) /\ left(g) > 0 /\ g = <<g[1], g[2]>>
    BY <1>3, <1>4, <1>9
  <2>2. <<g[1], IF g[2] <= left(g) THEN g[2] ELSE left(g)>> \in got
    BY <2>1, FirstGapsIs DEF got, gaps, left
  <2> QED
    BY <2>1, <2>2
<1>10. ASSUME amount >= Cardinality(free) PROVE Covered(gaps) \subseteq Covered(got)
  BY <1>7, <1>9, <1>10
<1>11. Covered(got) \subseteq free
  BY <1>1, <1>8
<1>12. amount >= Cardinality(free) => Covered(got) = free
  BY <1>1, <1>8, <1>10
<1> HIDE DEF free
<1> QED
  BY <1>6, <1>11, <1>12 DEF got, free
=============================================================================
