----------------------------- MODULE Encryption -----------------------------
(***************************************************************************)
(* The ways in which the block devices of an encrypted pool can be opened: *)
(* by a passphrase that the kernel keyring has under a key description, or *)
(* by Clevis with a Tang server.  A command changes the LUKS2 header of    *)
(* one device after the other and, if one of them fails, undoes it on the  *)
(* devices that it was done on.  What the headers say is cached in the     *)
(* CryptHandle of each device.                                             *)
(***************************************************************************)
EXTENDS Naturals, FiniteSets, Sequences, Functions

CONSTANTS
    Devs,         \* block devices
    Keys,         \* key descriptions
    Passes,       \* passphrases
    RandPass,     \* the random key of initialize_with_clevis
    NoKey, NoPass, NoClevis,
    MaxThp,       \* bound: number of keys that the Tang server has in turn
    MaxCommands,  \* bound: number of commands
    Idle          \* no command is running

ASSUME EncryptionAssumption ==
    /\ NoKey \notin Keys
    /\ NoPass \notin Passes /\ RandPass \notin Passes \cup {NoPass}
    /\ MaxThp \in Nat \ {0} /\ MaxCommands \in Nat
    /\ NoClevis \notin Nat
    /\ \A S \in SUBSET Devs : Cardinality(S) \in Nat    \* finitely many devices

VARIABLES
    order,     \* BlockDevMgr.block_devs
    mem,       \* EncryptionInfo of each CryptHandle
    disk,      \* the LUKS2 header of each device
    keyring,   \* the passphrase that the keyring has for a key description
    tang,      \* the thumbprint of the key that the Tang server advertises
    job,       \* the command that is running
    torn,      \* devices on which a command failed partway
    apart,     \* a rollback failed, or a command was cut short
    rotated,   \* the Tang server got a new key while a command was running
    stale,     \* a header was restored under a handle that had read the newer one
    up,        \* the pool is set up
    commands

vars == <<order, mem, disk, keyring, tang, job, torn, apart, rotated, stale, up, commands>>

(* The thumbprint that a Clevis configuration for Tang has, 0 if none.     *)
Configs == 0 .. MaxThp
Thumbprints == 1 .. MaxThp

(* key, slot: the keyring token and the passphrase of the keyslot that is  *)
(* assigned to it; stray: the passphrases of keyslots without a token;     *)
(* clevis: the Clevis token; stratis: the Stratis token.                   *)
Header == [key : Keys \cup {NoKey}, slot : Passes \cup {NoPass},
           stray : SUBSET (Passes \cup {RandPass}),
           clevis : Thumbprints \cup {NoClevis}, stratis : BOOLEAN]
Info == [key : Keys \cup {NoKey}, clevis : Configs \cup {NoClevis}]

Blank == [key |-> NoKey, slot |-> NoPass, stray |-> {}, clevis |-> NoClevis, stratis |-> FALSE]

(* setup_crypt_metadata_handle and clevis_info_from_metadata.              *)
Read(h) == [key |-> h.key, clevis |-> h.clevis]

(* BlockDevMgr::encryption_info: that of the first device.                 *)
PoolInfo == mem[order[1]]

Members == {d \in Devs : disk[d].stratis}

(* A set of block devices in any order, each of them once.                 *)
Orders(S) == Bijection(1 .. Cardinality(S), S)

(* A passphrase is read from the keyring, and it opens the device.         *)
Has(k) == k # NoKey /\ keyring[k] # NoPass
Slots(h) == ({h.slot} \cup h.stray) \ {NoPass}
OpenedBy(h, p) == p \in Slots(h)

----------------------------------------------------------------------------
(* What an operation on a device may lead to.  Every call of cryptsetup    *)
(* and Clevis may fail.                                                    *)
Done(i, h) == [mem |-> i, disk |-> h, ok |-> TRUE, torn |-> FALSE]
Fails(i, h) == [mem |-> i, disk |-> h, ok |-> FALSE, torn |-> FALSE]
Tears(i, h) == [mem |-> i, disk |-> h, ok |-> FALSE, torn |-> TRUE]

(* clevis luks bind.  Without a thumbprint it asks whether to trust the    *)
(* server's key unless it is told to, and the daemon has no terminal.      *)
Binds(thp, trust) == thp = tang \/ (thp = 0 /\ trust)

(* CryptHandle::clevis_bind.  The configuration is cached as it was given. *)
ClevisBind(i, h, thp, trust) ==
    IF /\ Has(i.key) /\ OpenedBy(h, keyring[i.key])
       /\ h.clevis = NoClevis /\ Binds(thp, trust)
      THEN {Fails(i, h), Done([i EXCEPT !.clevis = thp], [h EXCEPT !.clevis = tang])}
      ELSE {Fails(i, h)}

ClevisUnbindUnguarded(i, h) ==     \* mutant: no other way to open it is asked for
    IF h.clevis # NoClevis
      THEN {Fails(i, h), Done([i EXCEPT !.clevis = NoClevis], [h EXCEPT !.clevis = NoClevis])}
      ELSE {Fails(i, h)}

ClevisUnbind(i, h) ==
    IF i.key # NoKey /\ h.clevis # NoClevis
      THEN {Fails(i, h), Done([i EXCEPT !.clevis = NoClevis], [h EXCEPT !.clevis = NoClevis])}
      ELSE {Fails(i, h)}

(* CryptHandle::rebind_clevis reads the configuration back.                *)
ClevisRebind(i, h) ==
    IF i.clevis # NoClevis /\ h.clevis # NoClevis
      THEN LET regen == [h EXCEPT !.clevis = tang]
           IN  {Fails(i, h), Tears(i, regen), Done([i EXCEPT !.clevis = tang], regen)}
      ELSE {Fails(i, h)}

(* The end of add_keyring_keyslot, for a header with a keyslot for p: the  *)
(* keyring token is written, and the keyslot is assigned to it.            *)
Token(h, k, p) ==
    [h EXCEPT !.key = k, !.slot = NoPass, !.stray = Slots(h) \cup {p}]
Assigned(h, k, p) ==
    [h EXCEPT !.key = k, !.slot = p, !.stray = Slots(h) \ {p}]

(* CryptHandle::bind_keyring: the Clevis passphrase opens the device.      *)
KeyringBind(i, h, k) ==
    IF h.clevis # NoClevis /\ Has(k)
      THEN LET p == keyring[k]
           IN  {Fails(i, h),
                Tears(i, [h EXCEPT !.stray = h.stray \cup {p}]),
                Tears(i, Token(h, k, p)),
                Done([i EXCEPT !.key = k], Assigned(h, k, p))}
      ELSE {Fails(i, h)}

KeyringUnbindStale(i, h) ==        \* mutant: the cached key description stays
    IF i.clevis # NoClevis /\ h.key # NoKey
      THEN {Fails(i, h), Tears(i, [h EXCEPT !.slot = NoPass]),
            Done(i, [h EXCEPT !.key = NoKey, !.slot = NoPass])}
      ELSE {Fails(i, h)}

(* CryptHandle::unbind_keyring: the keyslot goes first, then the token.    *)
KeyringUnbind(i, h) ==
    IF i.clevis # NoClevis /\ h.key # NoKey
      THEN {Fails(i, h), Tears(i, [h EXCEPT !.slot = NoPass]),
            Done([i EXCEPT !.key = NoKey], [h EXCEPT !.key = NoKey, !.slot = NoPass])}
      ELSE {Fails(i, h)}

(* change_by_passphrase: the keyslot that q opens gets p.                  *)
Changed(h, q, p) ==
    IF h.slot = q THEN [h EXCEPT !.slot = p]
                  ELSE [h EXCEPT !.stray = (h.stray \ {q}) \cup {p}]

(* CryptHandle::rebind_keyring.                                            *)
KeyringRebind(i, h, k) ==
    IF Has(k) /\ Has(i.key) /\ OpenedBy(h, keyring[i.key])
      THEN LET p == keyring[k]
               changed == Changed(h, keyring[i.key], p)
           IN  {Fails(i, h), Tears(i, changed), Tears(i, Token(changed, k, p)),
                Done([i EXCEPT !.key = k], Assigned(changed, k, p))}
      ELSE {Fails(i, h)}

(* restore_luks_header.  The cache of the handle is left as it is.         *)
Restore(i, h, b) == {Fails(i, h), Done(i, b)}

----------------------------------------------------------------------------
(* The action of a command, and its rollback, on device d.                 *)
Action(d) ==
    CASE job.op = "bind_clevis"    -> ClevisBind(mem[d], disk[d], job.thp, job.trust)
      [] job.op = "unbind_clevis"  -> ClevisUnbind(mem[d], disk[d])
      [] job.op = "rebind_clevis"  -> ClevisRebind(mem[d], disk[d])
      [] job.op = "bind_keyring"   -> KeyringBind(mem[d], disk[d], job.key)
      [] job.op = "unbind_keyring" -> KeyringUnbind(mem[d], disk[d])
      [] job.op = "rebind_keyring" -> KeyringRebind(mem[d], disk[d], job.key)

RollbackToNew(d) ==                \* mutant: rebind_keyring is repeated, not undone
    CASE job.op = "bind_clevis"    -> ClevisUnbind(mem[d], disk[d])
      [] job.op = "unbind_clevis"  -> ClevisBind(mem[d], disk[d], job.old.clevis, FALSE)
      [] job.op = "rebind_clevis"  -> Restore(mem[d], disk[d], job.backup[d])
      [] job.op = "bind_keyring"   -> KeyringUnbind(mem[d], disk[d])
      [] job.op = "unbind_keyring" -> KeyringBind(mem[d], disk[d], job.old.key)
      [] job.op = "rebind_keyring" -> KeyringRebind(mem[d], disk[d], job.key)

Rollback(d) ==
    CASE job.op = "bind_clevis"    -> ClevisUnbind(mem[d], disk[d])
      [] job.op = "unbind_clevis"  -> ClevisBind(mem[d], disk[d], job.old.clevis, FALSE)
      [] job.op = "rebind_clevis"  -> Restore(mem[d], disk[d], job.backup[d])
      [] job.op = "bind_keyring"   -> KeyringUnbind(mem[d], disk[d])
      [] job.op = "unbind_keyring" -> KeyringBind(mem[d], disk[d], job.old.key)
      [] job.op = "rebind_keyring" -> KeyringRebind(mem[d], disk[d], job.old.key)

(* A command begins.  It is refused, and changes nothing, if the pool is   *)
(* bound already or is not bound; the first device speaks for all.         *)
Ready == up /\ job = Idle /\ commands < MaxCommands /\ commands' = commands + 1

Begin(op, k, thp, trust) ==
    /\ Ready
    /\ job' = [op |-> op, key |-> k, thp |-> thp, trust |-> trust, old |-> PoolInfo,
               backup |-> disk, undo |-> FALSE, at |-> 1, last |-> Len(order)]
    /\ UNCHANGED <<order, mem, disk, keyring, tang, torn, apart, rotated, stale, up>>

BindClevis(thp, trust) ==
    PoolInfo.clevis = NoClevis /\ Begin("bind_clevis", NoKey, thp, trust)
UnbindClevis ==
    PoolInfo.clevis # NoClevis /\ Begin("unbind_clevis", NoKey, 0, FALSE)
RebindClevis ==
    PoolInfo.clevis # NoClevis /\ Begin("rebind_clevis", NoKey, 0, FALSE)
BindKeyring(k) ==
    PoolInfo.key = NoKey /\ Begin("bind_keyring", k, 0, FALSE)
UnbindKeyring ==
    PoolInfo.key # NoKey /\ Begin("unbind_keyring", NoKey, 0, FALSE)
RebindKeyring(k) ==
    PoolInfo.key \notin {NoKey, k} /\ Begin("rebind_keyring", k, 0, FALSE)

(* One round of operation_loop, and what it leads to on device d.          *)
Applied(d, o) ==
    /\ mem' = [mem EXCEPT ![d] = o.mem]
    /\ disk' = [disk EXCEPT ![d] = o.disk]
    /\ torn' = IF o.torn THEN torn \cup {d} ELSE torn
    /\ UNCHANGED <<order, keyring, tang, rotated, up, commands>>

AdvancePast ==                     \* mutant: one device too many
    job' = IF job.at <= job.last THEN [job EXCEPT !.at = job.at + 1] ELSE Idle

Advance == job' = IF job.at < job.last THEN [job EXCEPT !.at = job.at + 1] ELSE Idle

OperationDone ==
    /\ job # Idle /\ ~job.undo
    /\ \E o \in Action(order[job.at]) : o.ok /\ Applied(order[job.at], o)
    /\ Advance
    /\ UNCHANGED <<apart, stale>>

OperationFailsShort ==             \* mutant: the last device done is not undone
    /\ job # Idle /\ ~job.undo
    /\ \E o \in Action(order[job.at]) : ~o.ok /\ Applied(order[job.at], o)
    /\ job' = IF job.at > 2 THEN [job EXCEPT !.undo = TRUE, !.at = 1, !.last = job.at - 2]
                            ELSE Idle
    /\ UNCHANGED <<apart, stale>>

OperationFails ==
    /\ job # Idle /\ ~job.undo
    /\ \E o \in Action(order[job.at]) : ~o.ok /\ Applied(order[job.at], o)
    /\ job' = IF job.at > 1 THEN [job EXCEPT !.undo = TRUE, !.at = 1, !.last = job.at - 1]
                            ELSE Idle
    /\ UNCHANGED <<apart, stale>>

(* One round of rollback_loop.  It ends at the first error.                *)
RollbackDone ==
    /\ job # Idle /\ job.undo
    /\ \E o \in Rollback(order[job.at]) : o.ok /\ Applied(order[job.at], o)
    /\ Advance
    /\ stale' = (stale \/ job.op = "rebind_clevis") /\ UNCHANGED apart

RollbackFails ==
    /\ job # Idle /\ job.undo
    /\ \E o \in Rollback(order[job.at]) : ~o.ok /\ Applied(order[job.at], o)
    /\ job' = Idle /\ apart' = TRUE /\ UNCHANGED stale

----------------------------------------------------------------------------
(* The LUKS2 header after CryptInitializer::initialize_with_err, for the   *)
(* encryption info i, and after each of its steps: what is left if a later *)
(* step fails and the device cannot be wiped, or if the daemon dies.       *)
Initialized(i) ==
    [key |-> i.key, slot |-> IF i.key = NoKey THEN NoPass ELSE keyring[i.key], stray |-> {},
     clevis |-> IF i.clevis = NoClevis THEN NoClevis ELSE tang, stratis |-> TRUE]

Partial(i) ==
    LET added == [Blank EXCEPT !.stray = {IF i.key = NoKey THEN RandPass ELSE keyring[i.key]}]
        unnamed == [Initialized(i) EXCEPT !.stratis = FALSE]
    IN  {added, [added EXCEPT !.key = i.key], [unnamed EXCEPT !.clevis = NoClevis],
         [added EXCEPT !.clevis = unnamed.clevis], unnamed, Initialized(i)}
        \cap {h \in Header : i.key # NoKey /\ h.clevis # NoClevis => h.slot # NoPass}

(* BlockDevMgr::can_unlock, of the first device, for what it is bound to.  *)
CanUnlock ==
    LET h == disk[order[1]]
    IN  PoolInfo.key # NoKey /\ h.key # NoKey => Has(h.key) /\ keyring[h.key] = h.slot

(* BlockDevMgr::add, of one device.                                        *)
Add(d) ==
    /\ Ready
    /\ d \notin Range(order) /\ disk[d] = Blank
    /\ CanUnlock
    /\ PoolInfo.key # NoKey => Has(PoolInfo.key)
    /\ UNCHANGED <<keyring, tang, job, torn, apart, rotated, stale, up>>
    /\ \/ /\ PoolInfo.clevis # NoClevis => Binds(PoolInfo.clevis, FALSE)
          /\ order' = Append(order, d)
          /\ disk' = [disk EXCEPT ![d] = Initialized(PoolInfo)]
          /\ mem' = [mem EXCEPT ![d] = Read(Initialized(PoolInfo))]
       \/ /\ \E h \in Partial(PoolInfo) :
               /\ h.clevis # NoClevis => Binds(PoolInfo.clevis, FALSE)
               /\ disk' = [disk EXCEPT ![d] = h]
          /\ UNCHANGED <<order, mem>>

(* StratKeyActions::set and unset.                                         *)
KeySet(k, p) ==
    /\ Ready
    /\ keyring' = [keyring EXCEPT ![k] = p]
    /\ UNCHANGED <<order, mem, disk, tang, job, torn, apart, rotated, stale, up>>

(* The keys of the Tang server are rotated, at any time: between commands, *)
(* or between two devices of one.  The old keys still decrypt.             *)
Rotate ==
    /\ tang < MaxThp /\ tang' = tang + 1
    /\ rotated' = (rotated \/ job # Idle)
    /\ UNCHANGED <<order, mem, disk, keyring, job, torn, apart, stale, up, commands>>

Crash ==
    /\ up /\ up' = FALSE
    /\ job' = Idle /\ apart' = (apart \/ job # Idle)
    /\ UNCHANGED <<order, mem, disk, keyring, tang, torn, rotated, stale, commands>>

(* The pool is set up again if its devices are the recorded ones and agree *)
(* on the encryption info (DeviceSet::process_info_add).  get_blockdevs    *)
(* puts the devices back into the order in which they were recorded.       *)
Setup ==
    /\ ~up /\ up' = TRUE
    /\ Members = Range(order)
    /\ \A d, e \in Members : Read(disk[d]) = Read(disk[e])
    /\ mem' = [d \in Devs |-> Read(disk[d])]
    /\ UNCHANGED <<order, disk, keyring, tang, job, torn, apart, rotated, stale, commands>>

Init ==
    /\ tang = 1 /\ keyring \in [Keys -> Passes \cup {NoPass}]
    /\ \E S \in (SUBSET Devs) \ {{}}, i \in Info :
         /\ i # Read(Blank) /\ i.clevis \in {1, NoClevis}
         /\ i.key # NoKey => Has(i.key)
         /\ order \in Orders(S)
         /\ disk = [d \in Devs |-> IF d \in S THEN Initialized(i) ELSE Blank]
    /\ mem = [d \in Devs |-> Read(disk[d])]
    /\ job = Idle /\ torn = {} /\ apart = FALSE /\ rotated = FALSE /\ stale = FALSE
    /\ up = TRUE /\ commands = 0

Next ==
    \/ \E thp \in Configs, trust \in BOOLEAN : BindClevis(thp, trust)
    \/ UnbindClevis \/ RebindClevis \/ UnbindKeyring
    \/ \E k \in Keys : BindKeyring(k) \/ RebindKeyring(k)
    \/ OperationDone \/ OperationFails \/ RollbackDone \/ RollbackFails
    \/ \E d \in Devs : Add(d)
    \/ \E k \in Keys, p \in Passes \cup {NoPass} : KeySet(k, p)
    \/ Rotate \/ Crash \/ Setup

Spec == Init /\ [][Next]_vars

----------------------------------------------------------------------------
(* The types, and a command that is always at one of the devices.          *)
Ops == {"bind_clevis", "unbind_clevis", "rebind_clevis",
        "bind_keyring", "unbind_keyring", "rebind_keyring"}
Jobs == [op : Ops, key : Keys \cup {NoKey}, thp : Configs, trust : BOOLEAN, old : Info,
         backup : [Devs -> Header], undo : BOOLEAN,
         at : 1 .. Len(order), last : 1 .. Len(order)]
ASSUME IdleAssumption ==
    Idle \notin [op : Ops, key : Keys \cup {NoKey}, thp : Configs, trust : BOOLEAN, old : Info,
                 backup : [Devs -> Header], undo : BOOLEAN, at : Nat, last : Nat]
TypeOK ==
    /\ order \in Seq(Devs) /\ order # <<>>
    /\ mem \in [Devs -> Info] /\ disk \in [Devs -> Header]
    /\ keyring \in [Keys -> Passes \cup {NoPass}] /\ tang \in Thumbprints
    /\ job \in Jobs \cup {Idle} /\ (job # Idle => job.at <= job.last)
    /\ torn \subseteq Devs /\ apart \in BOOLEAN /\ rotated \in BOOLEAN /\ stale \in BOOLEAN
    /\ up \in BOOLEAN /\ commands \in Nat

(* No command, failure, rollback or crash leaves a device that no          *)
(* passphrase and no Clevis binding opens, unless a call failed partway    *)
(* through on that device, which the code says "cannot be rolled back".    *)
NeverLockedOut ==
    \A d \in Members \ torn :
        \/ disk[d].key # NoKey /\ disk[d].slot # NoPass
        \/ disk[d].clevis # NoClevis

(* What the handles have cached of how the devices are bound, on which the *)
(* guards of the operations rely, is what the headers say, at every step.  *)
CacheIsDisk ==
    up => \A d \in Range(order) \ torn :
              /\ mem[d].key = disk[d].key
              /\ mem[d].clevis = NoClevis <=> disk[d].clevis = NoClevis

(* How a device is bound: its key description, whether Clevis is bound     *)
(* and, unless loose, the thumbprint of the Tang key.                      *)
Ways(i, loose) ==
    [key |-> i.key, clevis |-> IF loose /\ i.clevis # NoClevis THEN 0 ELSE i.clevis]

(* The thumbprints may differ once the Tang server got a new key while a   *)
(* command was running: bind_clevis without a thumbprint, and              *)
(* rebind_clevis, take whichever key it has, device by device, and         *)
(* succeed.  They may differ as well after a rollback of rebind_clevis,    *)
(* which leaves the newer thumbprint in a handle for a later command.      *)
Loose == rotated \/ stale

(* Between commands all devices of the pool are bound in the same ways,    *)
(* unless a rollback failed, a call failed partway on a device, or the     *)
(* daemon died in a command.  The thumbprints are the same too, as         *)
(* DeviceSet requires at the next set-up, unless the Tang server got a new *)
(* key during a command or a rebind_clevis was rolled back.                *)
DevicesAlike ==
    job = Idle /\ ~apart /\ torn = {} =>
        \A d, e \in Range(order) : Ways(disk[d], Loose) = Ways(disk[e], Loose)

(* A command that ends leaves every device bound as it was before or, if   *)
(* no device failed, as the command is to bind it, unless a rollback       *)
(* failed, a call failed partway on a device (now or in an earlier         *)
(* command), or the daemon died in a command.  The key descriptions are    *)
(* compared and whether Clevis is bound; the thumbprints only if the Tang  *)
(* server got no new key during a command and no rebind_clevis was rolled  *)
(* back; and the keyslots not at all.                                      *)
Target(j) ==
    [key |-> CASE j.op \in {"bind_keyring", "rebind_keyring"} -> j.key
               [] j.op = "unbind_keyring" -> NoKey
               [] OTHER -> j.old.key,
     clevis |-> CASE j.op \in {"bind_clevis", "rebind_clevis"} -> tang
                  [] j.op = "unbind_clevis" -> NoClevis
                  [] OTHER -> Read(j.backup[order[1]]).clevis]
AllOrNothing ==
    [][job # Idle /\ job' = Idle /\ up' /\ ~apart' /\ torn' = {} =>
         \/ \A d \in Range(order) : Ways(disk'[d], Loose) = Ways(job.backup[d], Loose)
         \/ \A d \in Range(order) : Ways(disk'[d], Loose) = Ways(Target(job), Loose)]_vars

(* BlockDevMgr::invariant: the infos of all block devices are the same.    *)
InfosEqual ==
    job = Idle /\ up /\ ~apart /\ ~rotated /\ torn = {} =>
        \A d, e \in Range(order) : mem[d] = mem[e]
============================================================================
