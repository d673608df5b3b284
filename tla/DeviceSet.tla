------------------------------ MODULE DeviceSet ------------------------------
(***************************************************************************)
(* What stratisd knows of the devices of a pool that is not set up: LInfo, *)
(* DeviceSet and the rules for combining what udev reports.                *)
(*                                                                         *)
(* A node is a block device as udev shows it: a device number and the disk *)
(* found there.  An encrypted disk has a "luks" node and, once it is       *)
(* unlocked, a "stratis" node with a number of its own; an unencrypted     *)
(* disk has one "stratis" node.  The identifiers on a disk are its pool's  *)
(* UUID, which is state and lives in module Engine, and a device UUID.     *)
(***************************************************************************)
CONSTANTS
    Disks,
    Nodes,      \* records [num, disk, kind]
    DevUuid,    \* device UUID of each disk; a clone has that of its original
    Enc,        \* encryption info of each disk, or NoEnc
    NoEnc,
    NoNode

ASSUME DeviceSetAssumption ==
    /\ \A n \in Nodes : n.disk \in Disks /\ n.kind \in {"stratis", "luks"}
    /\ \A n \in Nodes : n.kind = "luks" => Enc[n.disk] # NoEnc
    /\ NoNode \notin Nodes

(* The unlocked side of a device is a device-mapper device: its number is  *)
(* never one that the LUKS side is seen under.                             *)
ASSUME SidesAssumption ==
    \A m, n \in Nodes : m.kind = "luks" /\ n.kind = "stratis" /\ DevUuid[m.disk] = DevUuid[n.disk] =>
        m.num # n.num

(* LInfo::Stratis has a logical node, and a LUKS node if that one is known;*)
(* LInfo::Luks has a LUKS node only.                                       *)
LInfo == [strat : Nodes \cup {NoNode}, luks : Nodes \cup {NoNode}]

IsClosed(i) == i.strat = NoNode
DiskOf(i) == IF i.strat # NoNode THEN i.strat.disk ELSE i.luks.disk
EncryptionInfo(i) == IF i.luks = NoNode THEN NoEnc ELSE Enc[i.luks.disk]

(* LInfo::from(DeviceInfo).                                                *)
FromInfo(n) == IF n.kind = "luks" THEN [strat |-> NoNode, luks |-> n]
                                  ELSE [strat |-> n, luks |-> NoNode]

(* LInfo::update: what is known, i, and what is found, n, have the same    *)
(* identifiers.  They agree unless the same side has another number.       *)
Compatible(i, n) ==
    IF n.kind = "luks"
      THEN i.luks = NoNode \/ (i.luks.num = n.num /\ Enc[i.luks.disk] = Enc[n.disk])
      ELSE i.strat = NoNode \/ i.strat.num = n.num

Update(i, n) == IF n.kind = "luks" THEN [i EXCEPT !.luks = n]
                                   ELSE [i EXCEPT !.strat = n]

(* LInfo::update_on_remove: the set of what is left, empty or a singleton. *)
UpdateOnRemove(i, n) ==
    CASE n.kind = "stratis" /\ i.strat # NoNode /\ i.strat.num = n.num ->
           IF i.luks = NoNode THEN {} ELSE {[i EXCEPT !.strat = NoNode]}
      [] n.kind = "luks" /\ IsClosed(i) /\ i.luks.num = n.num -> {}
      [] OTHER -> {i}

----------------------------------------------------------------------------
(* A DeviceSet is a set of LInfo with different device UUIDs.              *)
Known(ds, n) == {i \in ds : DevUuid[DiskOf(i)] = DevUuid[n.disk]}

(* DeviceSet::process_info_add gives up the set (DeviceBag) if the new     *)
(* device has other encryption info or contradicts what is known of it.    *)
ContradictsItself(ds, n) ==          \* mutant: encryption info is not compared
    \E i \in Known(ds, n) : ~Compatible(i, n)

Contradicts(ds, n) ==
    \/ n.kind = "luks" /\ \E i \in ds : EncryptionInfo(i) \notin {NoEnc, Enc[n.disk]}
    \/ \E i \in Known(ds, n) : ~Compatible(i, n)

ProcessInfoAdd(ds, n) ==
    IF Known(ds, n) = {} THEN ds \cup {FromInfo(n)}
    ELSE (ds \ Known(ds, n)) \cup {Update(i, n) : i \in Known(ds, n)}

ProcessInfoRemove(ds, n) ==
    (ds \ Known(ds, n)) \cup UNION {UpdateOnRemove(i, n) : i \in Known(ds, n)}

SomeClosed(ds) == \E i \in ds : IsClosed(i)
AllUnencrypted(ds) == \A i \in ds : EncryptionInfo(i) = NoEnc

(* What a run of process_info_add over the nodes N comes to, in whatever   *)
(* order: a contradiction between two of them, or one LInfo per device.    *)
OtherKeys(m, n) == m.kind = "luks" /\ n.kind = "luks" /\ Enc[m.disk] # Enc[n.disk]
OtherNumber(m, n) == m.kind = n.kind /\ DevUuid[m.disk] = DevUuid[n.disk] /\ m.num # n.num
Clash(N) == \E m, n \in N : OtherKeys(m, n) \/ OtherNumber(m, n)

OfKind(N, u, k) == {m \in N : m.kind = k /\ DevUuid[m.disk] = u}
Side(N, u, k) == IF OfKind(N, u, k) = {} THEN NoNode ELSE CHOOSE m \in OfKind(N, u, k) : TRUE
Merged(N, u) == [strat |-> Side(N, u, "stratis"), luks |-> Side(N, u, "luks")]
Merge(N) == {Merged(N, DevUuid[n.disk]) : n \in N}
============================================================================
