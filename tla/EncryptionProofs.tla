-------------------------- MODULE EncryptionProofs --------------------------
(***************************************************************************)
(* What holds of module Encryption for any number of devices, keys and     *)
(* passphrases: the handles never lose track of how a device is bound, and *)
(* no device loses its last way to be opened.                              *)
(***************************************************************************)
EXTENDS Encryption, TLAPS

(* The time a leaf may take: long modules slow the prover down.            *)
USE SMTT(20), ZenonT(20)

(* The inductive invariant.  A handle knows that its device has a way to   *)
(* be opened, and the device has it, even if a call on it failed partway.  *)
(* If none did, the device has a keyslot exactly if it has a keyring token,*)
(* and the handle knows which tokens it has.  What rebind_clevis backs up  *)
(* differs from what is on the device in the thumbprint only.              *)
Bound(i) == i.key # NoKey \/ i.clevis # NoClevis
Linked(i, h) ==
    /\ Bound(i)
    /\ i.key # NoKey => h.key # NoKey
    /\ i.clevis = NoClevis <=> h.clevis = NoClevis
Agrees(i, h) == i.key = h.key /\ (i.clevis = NoClevis <=> h.clevis = NoClevis)
Sound(h) ==
    /\ h.key # NoKey <=> h.slot # NoPass
    /\ h.key # NoKey \/ h.clevis # NoClevis
SameBut(b, h) ==
    /\ b.key = h.key /\ b.slot = h.slot /\ b.stratis = h.stratis
    /\ b.clevis = NoClevis <=> h.clevis = NoClevis

AllLinked == up => \A d \in Range(order) : Linked(mem[d], disk[d])
AllBound == \A d \in Devs : disk[d].stratis => Bound(disk[d])
SoundDisks == \A d \in Devs \ torn : disk[d].stratis => Sound(disk[d])
Backed(j) ==
    j # Idle /\ j.op = "rebind_clevis" =>
        \A d \in Range(order) : SameBut(j.backup[d], disk[d])
IInv ==
    /\ TypeOK
    /\ ~up => job = Idle
    /\ AllLinked
    /\ AllBound
    /\ CacheIsDisk
    /\ SoundDisks
    /\ Backed(job)

(* What every operation on a device leads to: it never takes the last way  *)
(* to open the device, and if it is not cut short, the handle and the      *)
(* device go on agreeing.                                                  *)
Outcome(o, i, h) ==
    /\ o.mem \in Info /\ o.disk \in Header
    /\ o.ok \in BOOLEAN /\ o.torn \in BOOLEAN
    /\ o.disk.stratis = h.stratis
    /\ Linked(i, h) => Linked(o.mem, o.disk)
    /\ Agrees(i, h) /\ (h.stratis => Sound(h)) /\ ~o.torn =>
         Agrees(o.mem, o.disk) /\ (o.disk.stratis => Sound(o.disk))

----------------------------------------------------------------------------
(* clevis_bind, clevis_unbind and rebind_clevis have such outcomes: they   *)
(* change the Clevis token and the cached configuration together.          *)
LEMMA ClevisOutcomes ==
    ASSUME TypeOK, NEW i \in Info, NEW h \in Header,
           NEW thp \in Configs, NEW trust \in BOOLEAN, NEW o,
           o \in ClevisBind(i, h, thp, trust) \cup ClevisUnbind(i, h) \cup ClevisRebind(i, h)
    PROVE  Outcome(o, i, h)
<1>t. tang \in Thumbprints /\ tang \in Configs /\ tang # NoClevis /\ thp # NoClevis
  BY EncryptionAssumption DEF TypeOK, Thumbprints, Configs
<1>f. Outcome(Fails(i, h), i, h)
  BY DEF Outcome, Fails, Agrees, Info, Header
<1>1. CASE o \in ClevisBind(i, h, thp, trust)
  <2>1. o = Fails(i, h) \/ (h.clevis = NoClevis /\ o.mem = [i EXCEPT !.clevis = thp] /\ i.key # NoKey
            /\ o.disk = [h EXCEPT !.clevis = tang] /\ o.ok = TRUE /\ o.torn = FALSE)
    BY <1>1 DEF ClevisBind, Done, Has
  <2>2. [i EXCEPT !.clevis = thp] \in Info /\ [h EXCEPT !.clevis = tang] \in Header
    BY <1>t DEF Info, Header
  <2> QED
    BY <1>t, <1>f, <2>1, <2>2, Zenon DEF Outcome, Linked, Bound, Agrees, Sound, Info, Header
<1>2. CASE o \in ClevisUnbind(i, h)
  <2>1. o = Fails(i, h) \/ (i.key # NoKey /\ o.mem = [i EXCEPT !.clevis = NoClevis]
            /\ o.disk = [h EXCEPT !.clevis = NoClevis] /\ o.ok = TRUE /\ o.torn = FALSE)
    BY <1>2 DEF ClevisUnbind, Done
  <2>2. [i EXCEPT !.clevis = NoClevis] \in Info /\ [h EXCEPT !.clevis = NoClevis] \in Header
    BY DEF Info, Header
  <2>3. CASE o # Fails(i, h)
    <3>1. /\ o.mem.key = i.key /\ o.mem.clevis = NoClevis
          /\ o.disk.key = h.key /\ o.disk.slot = h.slot /\ o.disk.clevis = NoClevis
          /\ o.disk.stratis = h.stratis
      BY <2>1, <2>3 DEF Info, Header
    <3> QED
      BY <2>1, <2>2, <2>3, <3>1, Zenon DEF Outcome, Linked, Bound, Agrees, Sound
  <2> QED
    BY <1>f, <2>3
<1>3. CASE o \in ClevisRebind(i, h)
  <2>1. \/ o = Fails(i, h)
        \/ /\ i.clevis # NoClevis /\ h.clevis # NoClevis
           /\ o.disk = [h EXCEPT !.clevis = tang]
           /\ \/ o.mem = i /\ o.ok = FALSE /\ o.torn = TRUE
              \/ o.mem = [i EXCEPT !.clevis = tang] /\ o.ok = TRUE /\ o.torn = FALSE
    BY <1>3 DEF ClevisRebind, Done, Tears
  <2>2. [i EXCEPT !.clevis = tang] \in Info /\ [h EXCEPT !.clevis = tang] \in Header
    BY <1>t DEF Info, Header
  <2>3. CASE o # Fails(i, h)
    <3>1. /\ o.disk.key = h.key /\ o.disk.slot = h.slot /\ o.disk.clevis = tang
          /\ o.disk.stratis = h.stratis /\ o.disk \in Header
      BY <2>1, <2>2, <2>3 DEF Header
    <3>2. o.mem \in Info /\ o.mem.key = i.key /\ o.mem.clevis # NoClevis
      BY <1>t, <2>1, <2>2, <2>3 DEF Info
    <3>3. o.ok \in BOOLEAN /\ o.torn \in BOOLEAN /\ i.clevis # NoClevis /\ h.clevis # NoClevis
      BY <2>1, <2>3, Zenon
    <3> QED
      BY <1>t, <3>1, <3>2, <3>3 DEF Outcome, Linked, Bound, Agrees, Sound
  <2> QED
    BY <1>f, <2>3
<1> QED
  BY <1>1, <1>2, <1>3

(* bind_keyring, unbind_keyring and rebind_keyring have such outcomes: a   *)
(* token without a keyslot is left only where a call failed partway.       *)
LEMMA KeyringOutcomes ==
    ASSUME TypeOK, NEW i \in Info, NEW h \in Header, NEW k \in Keys \cup {NoKey}, NEW o,
           o \in KeyringBind(i, h, k) \cup KeyringUnbind(i, h) \cup KeyringRebind(i, h, k)
    PROVE  Outcome(o, i, h)
<1>f. Outcome(Fails(i, h), i, h)
  BY DEF Outcome, Fails, Agrees, Info, Header
<1>h. /\ h.key \in Keys \cup {NoKey} /\ h.slot \in Passes \cup {NoPass}
      /\ h.stray \subseteq Passes \cup {RandPass}
      /\ h.clevis \in Thumbprints \cup {NoClevis} /\ h.stratis \in BOOLEAN
  BY DEF Header
<1>s. Slots(h) \subseteq Passes \cup {RandPass}
  BY <1>h DEF Slots
<1>1. CASE o \in KeyringBind(i, h, k)
  <2> DEFINE p == keyring[k]
  <2>1. o = Fails(i, h) \/ (/\ h.clevis # NoClevis /\ Has(k)
                           /\ \/ o = Tears(i, [h EXCEPT !.stray = h.stray \cup {p}])
                              \/ o = Tears(i, Token(h, k, p))
                              \/ o = Done([i EXCEPT !.key = k], Assigned(h, k, p)))
    BY <1>1 DEF KeyringBind
  <2>2. CASE h.clevis # NoClevis /\ Has(k)
    <3>1. k \in Keys /\ p \in Passes /\ k # NoKey /\ p # NoPass
      BY <2>2, EncryptionAssumption DEF Has, TypeOK
    <3> HIDE DEF p
    <3>2. CASE o = Tears(i, [h EXCEPT !.stray = h.stray \cup {p}])
      <4>1. /\ o.mem = i /\ o.disk \in Header /\ o.ok = FALSE /\ o.torn = TRUE
            /\ o.disk.key = h.key /\ o.disk.clevis = h.clevis /\ o.disk.stratis = h.stratis
        BY <1>h, <3>1, <3>2 DEF Tears, Header
      <4> QED
        BY <4>1, Zenon DEF Outcome, Linked
    <3>3. CASE o = Tears(i, Token(h, k, p))
      <4>1. /\ o.mem = i /\ o.disk \in Header /\ o.ok = FALSE /\ o.torn = TRUE
            /\ o.disk.key = k /\ o.disk.clevis = h.clevis /\ o.disk.stratis = h.stratis
        BY <1>h, <1>s, <3>1, <3>3, Zenon DEF Tears, Token, Header
      <4> QED
        BY <3>1, <4>1, Zenon DEF Outcome, Linked
    <3>4. CASE o = Done([i EXCEPT !.key = k], Assigned(h, k, p))
      <4>1. /\ o.mem \in Info /\ o.mem.key = k /\ o.mem.clevis = i.clevis
            /\ o.ok = TRUE /\ o.torn = FALSE
        BY <3>1, <3>4 DEF Done, Info
      <4>2. /\ o.disk \in Header /\ o.disk.key = k /\ o.disk.slot = p
            /\ o.disk.clevis = h.clevis /\ o.disk.stratis = h.stratis
        BY <1>h, <1>s, <3>1, <3>4, Zenon DEF Done, Assigned, Header
      <4> QED
        BY <3>1, <4>1, <4>2, Zenon DEF Outcome, Linked, Bound, Agrees, Sound
    <3> QED
      BY <1>f, <2>1, <3>2, <3>3, <3>4 DEF p
  <2> QED
    BY <1>f, <2>1, <2>2
<1>2. CASE o \in KeyringUnbind(i, h)
  <2>1. o = Fails(i, h) \/ (/\ i.clevis # NoClevis /\ h.key # NoKey
                           /\ \/ o = Tears(i, [h EXCEPT !.slot = NoPass])
                              \/ o = Done([i EXCEPT !.key = NoKey],
                                         [h EXCEPT !.key = NoKey, !.slot = NoPass]))
    BY <1>2 DEF KeyringUnbind
  <2>2. CASE i.clevis # NoClevis /\ h.key # NoKey /\ o = Tears(i, [h EXCEPT !.slot = NoPass])
    <3>1. /\ o.mem = i /\ o.disk \in Header /\ o.ok = FALSE /\ o.torn = TRUE
          /\ o.disk.key = h.key /\ o.disk.clevis = h.clevis /\ o.disk.stratis = h.stratis
      BY <1>h, <2>2 DEF Tears, Header
    <3> QED
      BY <3>1, Zenon DEF Outcome, Linked
  <2>3. CASE /\ i.clevis # NoClevis /\ h.key # NoKey
             /\ o = Done([i EXCEPT !.key = NoKey], [h EXCEPT !.key = NoKey, !.slot = NoPass])
    <3>1. /\ o.mem \in Info /\ o.mem.key = NoKey /\ o.mem.clevis = i.clevis
          /\ o.ok = TRUE /\ o.torn = FALSE
      BY <2>3 DEF Done, Info
    <3>2. /\ o.disk \in Header /\ o.disk.key = NoKey /\ o.disk.slot = NoPass
          /\ o.disk.clevis = h.clevis /\ o.disk.stratis = h.stratis
      BY <1>h, <2>3, Zenon DEF Done, Header
    <3> QED
      BY <2>3, <3>1, <3>2, Zenon DEF Outcome, Linked, Bound, Agrees, Sound
  <2> QED
    BY <1>f, <2>1, <2>2, <2>3
<1>3. CASE o \in KeyringRebind(i, h, k)
  <2> DEFINE p == keyring[k]
             c == Changed(h, keyring[i.key], p)
  <2>1. o = Fails(i, h) \/ (/\ Has(k)
                           /\ \/ o = Tears(i, c)
                              \/ o = Tears(i, Token(c, k, p))
                              \/ o = Done([i EXCEPT !.key = k], Assigned(c, k, p)))
    BY <1>3 DEF KeyringRebind
  <2>2. CASE Has(k)
    <3>1. k \in Keys /\ p \in Passes /\ k # NoKey /\ p # NoPass
      BY <2>2, EncryptionAssumption DEF Has, TypeOK
    <3>2. /\ c \in Header /\ c.key = h.key /\ c.clevis = h.clevis /\ c.stratis = h.stratis
      BY <1>h, <3>1 DEF Changed, Header
    <3>3. Slots(c) \subseteq Passes \cup {RandPass}
      BY <3>2 DEF Slots, Header
    <3> HIDE DEF p, c
    <3>4. CASE o = Tears(i, c)
      <4>1. o.mem = i /\ o.disk = c /\ o.ok = FALSE /\ o.torn = TRUE
        BY <3>4 DEF Tears
      <4> QED
        BY <3>2, <4>1, Zenon DEF Outcome, Linked
    <3>5. CASE o = Tears(i, Token(c, k, p))
      <4>1. /\ o.mem = i /\ o.disk \in Header /\ o.ok = FALSE /\ o.torn = TRUE
            /\ o.disk.key = k /\ o.disk.clevis = c.clevis /\ o.disk.stratis = c.stratis
        BY <3>1, <3>2, <3>3, <3>5, Zenon DEF Tears, Token, Header
      <4> QED
        BY <3>1, <3>2, <4>1, Zenon DEF Outcome, Linked
    <3>6. CASE o = Done([i EXCEPT !.key = k], Assigned(c, k, p))
      <4>1. /\ o.mem \in Info /\ o.mem.key = k /\ o.mem.clevis = i.clevis
            /\ o.ok = TRUE /\ o.torn = FALSE
        BY <3>1, <3>6 DEF Done, Info
      <4>2. /\ o.disk \in Header /\ o.disk.key = k /\ o.disk.slot = p
            /\ o.disk.clevis = c.clevis /\ o.disk.stratis = c.stratis
        BY <3>1, <3>2, <3>3, <3>6, Zenon DEF Done, Assigned, Header
      <4> QED
        BY <3>1, <3>2, <4>1, <4>2, Zenon DEF Outcome, Linked, Bound, Agrees, Sound
    <3> QED
      BY <1>f, <2>1, <3>4, <3>5, <3>6 DEF p, c
  <2> QED
    BY <1>f, <2>1, <2>2
<1> QED
  BY <1>1, <1>2, <1>3

(* The rollback of rebind_clevis too: it puts back a header that differs   *)
(* in the thumbprint only, whatever the handle has cached.                 *)
LEMMA RestoreOutcomes ==
    ASSUME NEW i \in Info, NEW h \in Header, NEW b \in Header, SameBut(b, h),
           NEW o \in Restore(i, h, b)
    PROVE  Outcome(o, i, h) /\ SameBut(b, o.disk) /\ ~o.torn
<1>1. o.mem = i /\ o.disk \in {h, b} /\ o.ok \in BOOLEAN /\ o.torn = FALSE
  <2>1. o = Fails(i, h) \/ o = Done(i, b)
    BY DEF Restore
  <2>2. CASE o = Fails(i, h)
    BY <2>2 DEF Fails
  <2>3. CASE o = Done(i, b)
    BY <2>3 DEF Done
  <2> QED
    BY <2>1, <2>2, <2>3, Zenon
<1>2. SameBut(b, o.disk)
  BY <1>1 DEF SameBut
<1>3. o.disk.key = h.key /\ o.disk.slot = h.slot /\ o.disk.stratis = h.stratis
  BY <1>1 DEF SameBut
<1>4. o.disk.clevis = NoClevis <=> h.clevis = NoClevis
  BY <1>1 DEF SameBut
<1>5. o.disk \in Header
  BY <1>1
<1> QED
  BY <1>1, <1>2, <1>3, <1>4, <1>5, Zenon DEF Outcome, Linked, Agrees, Sound

(* rebind_clevis changes nothing but the thumbprint.                       *)
LEMMA RebindKeeps ==
    ASSUME TypeOK, NEW i \in Info, NEW h \in Header, NEW b \in Header, SameBut(b, h),
           NEW o \in ClevisRebind(i, h)
    PROVE  SameBut(b, o.disk)
<1>1. tang # NoClevis
  BY EncryptionAssumption DEF TypeOK, Thumbprints
<1>2. o.disk = h \/ (h.clevis # NoClevis /\ o.disk = [h EXCEPT !.clevis = tang])
  BY DEF ClevisRebind, Fails, Tears, Done
<1>3. CASE h.clevis # NoClevis /\ o.disk = [h EXCEPT !.clevis = tang]
  <2>1. /\ o.disk.key = h.key /\ o.disk.slot = h.slot /\ o.disk.stratis = h.stratis
        /\ o.disk.clevis = tang
    BY <1>3 DEF Header
  <2> QED
    BY <1>1, <1>3, <2>1 DEF SameBut
<1> QED
  BY <1>2, <1>3 DEF SameBut

(* The device that a command is at, and what the command holds.            *)
LEMMA AtDevice ==
    ASSUME IInv, job # Idle
    PROVE  /\ up /\ job \in Jobs /\ order[job.at] \in Range(order)
           /\ order[job.at] \in Devs /\ Range(order) \subseteq Devs
           /\ job.op \in Ops /\ job.key \in Keys \cup {NoKey} /\ job.thp \in Configs
           /\ job.trust \in BOOLEAN /\ job.old \in Info /\ job.backup \in [Devs -> Header]
<1>1. up /\ job \in Jobs /\ order \in Seq(Devs)
  BY DEF IInv, TypeOK
<1>2. job.at \in 1 .. Len(order)
  BY <1>1 DEF Jobs
<1>3. order[job.at] \in Range(order) /\ Range(order) \subseteq Devs
  BY <1>1, <1>2 DEF Range
<1> QED
  BY <1>1, <1>3 DEF Jobs

(* The outcome of one round of operation_loop or of rollback_loop.         *)
LEMMA RoundOutcome ==
    ASSUME IInv, job # Idle, NEW d, d = order[job.at], NEW o,
           o \in Action(d) \/ o \in Rollback(d)
    PROVE  /\ Outcome(o, mem[d], disk[d])
           /\ job.op = "rebind_clevis" => SameBut(job.backup[d], o.disk)
<1>1. /\ TypeOK /\ d \in Range(order) /\ d \in Devs /\ mem[d] \in Info /\ disk[d] \in Header
      /\ job.op \in Ops /\ job.key \in Keys \cup {NoKey} /\ job.thp \in Configs
      /\ job.trust \in BOOLEAN /\ job.old \in Info /\ job.backup[d] \in Header
      /\ job.old.key \in Keys \cup {NoKey}
  BY AtDevice DEF IInv, TypeOK, Info
<1> DEFINE i == mem[d]  h == disk[d]
<1>2. CASE job.op = "rebind_clevis"
  <2>1. SameBut(job.backup[d], h)
    BY <1>1, <1>2 DEF IInv, Backed
  <2>2. o \in ClevisRebind(i, h) \/ o \in Restore(i, h, job.backup[d])
    BY <1>2 DEF Action, Rollback
  <2>3. CASE o \in ClevisRebind(i, h)
    <3>1. 0 \in Configs
      BY EncryptionAssumption DEF Configs
    <3>2. Outcome(o, i, h)
      BY <1>1, <2>3, <3>1, ClevisOutcomes
    <3> QED
      BY <1>1, <2>1, <2>3, <3>2, RebindKeeps
  <2>4. CASE o \in Restore(i, h, job.backup[d])
    BY <1>1, <2>1, <2>4, RestoreOutcomes
  <2> QED
    BY <2>2, <2>3, <2>4
<1>3. CASE job.op = "bind_clevis"
  <2>1. o \in ClevisBind(i, h, job.thp, job.trust) \/ o \in ClevisUnbind(i, h)
    BY <1>3 DEF Action, Rollback
  <2> QED
    BY <1>1, <1>3, <2>1, ClevisOutcomes
<1>4. CASE job.op = "unbind_clevis"
  <2>1. o \in ClevisUnbind(i, h) \/ o \in ClevisBind(i, h, job.old.clevis, FALSE)
    BY <1>4, Zenon DEF Action, Rollback
  <2>2. CASE job.old.clevis \in Configs
    BY <1>1, <1>4, <2>1, <2>2, ClevisOutcomes, Zenon
  <2>3. CASE job.old.clevis \notin Configs
    <3>1. job.old.clevis # 0 /\ job.old.clevis # tang
      BY <1>1, <2>3, EncryptionAssumption DEF TypeOK, Configs, Thumbprints
    <3>2. o \in ClevisBind(i, h, job.old.clevis, FALSE) => o = Fails(i, h)
      BY <3>1 DEF ClevisBind, Binds
    <3>3. Outcome(Fails(i, h), i, h)
      BY <1>1 DEF Outcome, Fails, Info, Header
    <3>4. 0 \in Configs
      BY EncryptionAssumption DEF Configs
    <3>5. o \in ClevisUnbind(i, h) => Outcome(o, i, h)
      BY <1>1, <3>4, ClevisOutcomes
    <3> QED
      BY <1>4, <2>1, <3>2, <3>3, <3>5, Zenon
  <2> QED
    BY <2>2, <2>3
<1>5. CASE job.op = "bind_keyring"
  <2>1. o \in KeyringBind(i, h, job.key) \/ o \in KeyringUnbind(i, h)
    BY <1>5 DEF Action, Rollback
  <2> QED
    BY <1>1, <1>5, <2>1, KeyringOutcomes
<1>6. CASE job.op = "unbind_keyring"
  <2>1. o \in KeyringUnbind(i, h) \/ o \in KeyringBind(i, h, job.old.key)
    BY <1>6 DEF Action, Rollback
  <2> QED
    BY <1>1, <1>6, <2>1, KeyringOutcomes
<1>7. CASE job.op = "rebind_keyring"
  <2>1. o \in KeyringRebind(i, h, job.key) \/ o \in KeyringRebind(i, h, job.old.key)
    BY <1>7 DEF Action, Rollback
  <2> QED
    BY <1>1, <1>7, <2>1, KeyringOutcomes
<1> QED
  BY <1>1, <1>2, <1>3, <1>4, <1>5, <1>6, <1>7 DEF Ops

(* One round preserves the invariant, whatever comes of it.                *)
LEMMA RoundStep ==
    ASSUME IInv, job # Idle, NEW o,
           o \in Action(order[job.at]) \/ o \in Rollback(order[job.at]),
           Applied(order[job.at], o)
    PROVE  /\ order' = order /\ keyring' = keyring /\ tang' = tang
           /\ up' = up /\ commands' = commands
           /\ mem' \in [Devs -> Info] /\ disk' \in [Devs -> Header] /\ torn' \subseteq Devs
           /\ AllLinked' /\ AllBound' /\ CacheIsDisk' /\ SoundDisks'
           /\ job.op = "rebind_clevis" =>
                \A e \in Range(order) : SameBut(job.backup[e], disk'[e])
<1> DEFINE d == order[job.at]
<1>1. /\ d \in Range(order) /\ d \in Devs /\ Range(order) \subseteq Devs /\ up
      /\ mem \in [Devs -> Info] /\ disk \in [Devs -> Header] /\ torn \subseteq Devs
  BY AtDevice DEF IInv, TypeOK
<1>2. /\ Outcome(o, mem[d], disk[d])
      /\ job.op = "rebind_clevis" => SameBut(job.backup[d], o.disk)
  BY RoundOutcome
<1>3. /\ mem' = [mem EXCEPT ![d] = o.mem] /\ disk' = [disk EXCEPT ![d] = o.disk]
      /\ torn' = IF o.torn THEN torn \cup {d} ELSE torn
      /\ order' = order /\ keyring' = keyring /\ tang' = tang /\ up' = up /\ commands' = commands
  BY DEF Applied
<1> HIDE DEF d
<1>4. mem' \in [Devs -> Info] /\ disk' \in [Devs -> Header] /\ torn' \subseteq Devs
  BY <1>1, <1>2, <1>3 DEF Outcome
<1>5. /\ mem'[d] = o.mem /\ disk'[d] = o.disk
      /\ \A e \in Devs : e # d => mem'[e] = mem[e] /\ disk'[e] = disk[e]
      /\ torn \subseteq torn' /\ (d \notin torn' => ~o.torn /\ d \notin torn)
  BY <1>1, <1>3
<1>6. Linked(mem[d], disk[d])
  BY <1>1 DEF IInv, AllLinked
<1>7. Linked(o.mem, o.disk)
  BY <1>2, <1>6 DEF Outcome
<1>8. d \notin torn' => Agrees(o.mem, o.disk) /\ (o.disk.stratis => Sound(o.disk))
  <2> SUFFICES ASSUME d \notin torn'
               PROVE  Agrees(o.mem, o.disk) /\ (o.disk.stratis => Sound(o.disk))
    OBVIOUS
  <2>1. Agrees(mem[d], disk[d]) /\ (disk[d].stratis => Sound(disk[d]))
    BY <1>1, <1>5 DEF IInv, CacheIsDisk, SoundDisks, Agrees
  <2> QED
    BY <1>2, <1>5, <2>1 DEF Outcome
<1>9. AllLinked'
  <2> SUFFICES ASSUME NEW e \in Range(order) PROVE Linked(mem[e], disk[e])'
    BY <1>3 DEF AllLinked
  <2>1. CASE e = d
    BY <1>5, <1>7, <2>1 DEF Linked, Bound
  <2>2. CASE e # d
    <3>1. Linked(mem[e], disk[e]) /\ mem'[e] = mem[e] /\ disk'[e] = disk[e]
      BY <1>1, <1>5, <2>2 DEF IInv, AllLinked
    <3> QED
      BY <3>1 DEF Linked, Bound
  <2> QED
    BY <2>1, <2>2
<1>10. AllBound'
  <2> SUFFICES ASSUME NEW e \in Devs, disk'[e].stratis PROVE Bound(disk'[e])
    BY DEF AllBound, Bound
  <2>1. CASE e = d
    BY <1>5, <1>7, <2>1 DEF Linked, Bound
  <2>2. CASE e # d
    BY <1>5, <2>2 DEF IInv, AllBound
  <2> QED
    BY <2>1, <2>2
<1>11. CacheIsDisk'
  <2> SUFFICES ASSUME NEW e \in Range(order) \ torn'
               PROVE  /\ mem'[e].key = disk'[e].key
                      /\ mem'[e].clevis = NoClevis <=> disk'[e].clevis = NoClevis
    BY <1>3 DEF CacheIsDisk
  <2>1. CASE e = d
    BY <1>5, <1>8, <2>1 DEF Agrees
  <2>2. CASE e # d
    <3>1. e \in Devs /\ e \notin torn
      BY <1>1, <1>5
    <3> QED
      BY <1>1, <1>5, <2>2, <3>1 DEF IInv, CacheIsDisk
  <2> QED
    BY <2>1, <2>2
<1>12. SoundDisks'
  <2> SUFFICES ASSUME NEW e \in Devs \ torn', disk'[e].stratis PROVE Sound(disk'[e])
    BY DEF SoundDisks, Sound
  <2>1. CASE e = d
    BY <1>5, <1>8, <2>1
  <2>2. CASE e # d
    BY <1>5, <2>2 DEF IInv, SoundDisks
  <2> QED
    BY <2>1, <2>2
<1>13. job.op = "rebind_clevis" => \A e \in Range(order) : SameBut(job.backup[e], disk'[e])
  <2> SUFFICES ASSUME job.op = "rebind_clevis", NEW e \in Range(order)
               PROVE  SameBut(job.backup[e], disk'[e])
    OBVIOUS
  <2>1. CASE e = d
    BY <1>2, <1>5, <2>1
  <2>2. CASE e # d
    BY <1>1, <1>5, <2>2 DEF IInv, Backed
  <2> QED
    BY <2>1, <2>2
<1> QED
  BY <1>3, <1>4, <1>9, <1>10, <1>11, <1>12, <1>13

(* The loops: every round leads to the next device, to the rollback of the *)
(* devices before it, or to the end of the command.                        *)
LEMMA LoopStep ==
    ASSUME IInv, OperationDone \/ OperationFails \/ RollbackDone \/ RollbackFails
    PROVE  IInv'
<1>1. job # Idle
  BY DEF OperationDone, OperationFails, RollbackDone, RollbackFails
<1>2. PICK o : /\ o \in Action(order[job.at]) \/ o \in Rollback(order[job.at])
               /\ Applied(order[job.at], o)
  BY DEF OperationDone, OperationFails, RollbackDone, RollbackFails
<1>3. /\ order' = order /\ keyring' = keyring /\ tang' = tang
      /\ up' = up /\ commands' = commands
      /\ mem' \in [Devs -> Info] /\ disk' \in [Devs -> Header] /\ torn' \subseteq Devs
      /\ AllLinked' /\ AllBound' /\ CacheIsDisk' /\ SoundDisks'
      /\ job.op = "rebind_clevis" =>
           \A e \in Range(order) : SameBut(job.backup[e], disk'[e])
  BY <1>1, <1>2, RoundStep
<1>4. /\ job \in Jobs /\ job.at \in 1 .. Len(order) /\ job.last \in 1 .. Len(order)
      /\ job.at <= job.last /\ job.undo \in BOOLEAN /\ Len(order) \in Nat
  BY <1>1, AtDevice DEF IInv, TypeOK, Jobs
<1>5. \/ job' = Idle
      \/ /\ job' \in Jobs /\ job'.op = job.op /\ job'.backup = job.backup
         /\ job'.at <= job'.last
  <2>1. \/ job' = Idle
        \/ job.at < job.last /\ job' = [job EXCEPT !.at = job.at + 1]
        \/ job.at > 1 /\ job' = [job EXCEPT !.undo = TRUE, !.at = 1, !.last = job.at - 1]
    BY DEF OperationDone, OperationFails, RollbackDone, RollbackFails, Advance
  <2>2. CASE job.at < job.last /\ job' = [job EXCEPT !.at = job.at + 1]
    <3>1. job.at + 1 \in 1 .. Len(order) /\ job.at + 1 <= job.last
      BY <1>4, <2>2
    <3> QED
      BY <1>4, <2>2, <3>1 DEF Jobs
  <2>3. CASE job.at > 1 /\ job' = [job EXCEPT !.undo = TRUE, !.at = 1, !.last = job.at - 1]
    <3>1. job.at - 1 \in 1 .. Len(order) /\ 1 \in 1 .. Len(order) /\ 1 <= job.at - 1
      BY <1>4, <2>3
    <3> QED
      BY <1>4, <2>3, <3>1, Zenon DEF Jobs
  <2> QED
    BY <2>1, <2>2, <2>3
<1>6. apart' \in BOOLEAN /\ stale' \in BOOLEAN /\ rotated' \in BOOLEAN
  <2>1. apart' \in BOOLEAN /\ stale' \in BOOLEAN
    BY Zenon DEF OperationDone, OperationFails, RollbackDone, RollbackFails, IInv, TypeOK
  <2>2. rotated' = rotated
    BY <1>2, Zenon DEF Applied
  <2> QED
    BY <2>1, <2>2 DEF IInv, TypeOK
<1>7. Jobs' = Jobs
  BY <1>3 DEF Jobs
<1>8. TypeOK'
  BY <1>3, <1>5, <1>6, <1>7 DEF IInv, TypeOK
<1>9. ~up' => job' = Idle
  BY <1>1, <1>3, AtDevice
<1>10. Backed(job)'
  BY <1>3, <1>5 DEF Backed
<1> QED
  BY <1>3, <1>8, <1>9, <1>10 DEF IInv

(* The first device, for which the pool's encryption info is cached.       *)
LEMMA FirstDevice ==
    ASSUME IInv, up
    PROVE  /\ order[1] \in Range(order) /\ order[1] \in Devs /\ Range(order) \subseteq Devs
           /\ Len(order) \in Nat /\ 1 <= Len(order)
           /\ PoolInfo \in Info /\ Bound(PoolInfo)
<1>1. order \in Seq(Devs) /\ order # <<>> /\ mem \in [Devs -> Info]
  BY DEF IInv, TypeOK
<1>2. /\ Len(order) \in Nat /\ 1 <= Len(order)
      /\ order[1] \in Range(order) /\ Range(order) \subseteq Devs
  BY <1>1 DEF Range
<1>3. Linked(mem[order[1]], disk[order[1]])
  BY <1>2 DEF IInv, AllLinked
<1> QED
  BY <1>1, <1>2, <1>3 DEF PoolInfo, Linked

(* A command begins with a backup of the headers as they are.              *)
LEMMA BeginStep ==
    ASSUME IInv, NEW op \in Ops, NEW k \in Keys \cup {NoKey}, NEW thp \in Configs,
           NEW trust \in BOOLEAN, Begin(op, k, thp, trust)
    PROVE  IInv'
<1>1. /\ up /\ commands' = commands + 1
      /\ job' = [op |-> op, key |-> k, thp |-> thp, trust |-> trust, old |-> PoolInfo,
                 backup |-> disk, undo |-> FALSE, at |-> 1, last |-> Len(order)]
      /\ UNCHANGED <<order, mem, disk, keyring, tang, torn, apart, rotated, stale, up>>
  BY DEF Begin, Ready
<1>2. PoolInfo \in Info /\ 1 \in 1 .. Len(order) /\ Len(order) \in 1 .. Len(order) /\ 1 <= Len(order)
  BY <1>1, FirstDevice
<1>3. disk \in [Devs -> Header]
  BY DEF IInv, TypeOK
<1>4. job' \in Jobs /\ job'.at = 1 /\ job'.last = Len(order) /\ job'.backup = disk
  BY <1>1, <1>2, <1>3, Zenon DEF Jobs
<1>5. Jobs' = Jobs
  BY <1>1 DEF Jobs
<1>6. commands' \in Nat
  BY <1>1 DEF IInv, TypeOK
<1>7. TypeOK'
  BY <1>1, <1>2, <1>4, <1>5, <1>6 DEF IInv, TypeOK
<1>8. Backed(job)'
  BY <1>1, <1>4 DEF Backed, SameBut
<1>9. AllLinked' /\ AllBound' /\ CacheIsDisk' /\ SoundDisks'
  BY <1>1, Zenon DEF IInv, AllLinked, AllBound, CacheIsDisk, SoundDisks
<1> QED
  BY <1>1, <1>7, <1>8, <1>9 DEF IInv

(* A device that CryptInitializer has set up, if the key is in the keyring,*)
(* can be opened in the ways that it was set up for.                       *)
LEMMA InitializedSound ==
    ASSUME NEW i \in Info, Bound(i), i.key # NoKey => Has(i.key),
           keyring \in [Keys -> Passes \cup {NoPass}], tang \in Thumbprints
    PROVE  /\ Initialized(i) \in Header /\ Sound(Initialized(i)) /\ Bound(Initialized(i))
           /\ Read(Initialized(i)) \in Info
           /\ Linked(Read(Initialized(i)), Initialized(i))
           /\ Agrees(Read(Initialized(i)), Initialized(i))
<1> DEFINE h == Initialized(i)
<1>1. i.key \in Keys \cup {NoKey} /\ tang # NoClevis /\ tang \in Configs
  BY EncryptionAssumption DEF Info, Thumbprints, Configs
<1>2. /\ h.key = i.key /\ h.slot = (IF i.key = NoKey THEN NoPass ELSE keyring[i.key])
      /\ h.stray = {} /\ h.clevis = (IF i.clevis = NoClevis THEN NoClevis ELSE tang)
      /\ h.stratis = TRUE
  BY DEF Initialized
<1>3. h \in Header
  <2>1. (IF i.key = NoKey THEN NoPass ELSE keyring[i.key]) \in Passes \cup {NoPass}
    BY <1>1
  <2>2. (IF i.clevis = NoClevis THEN NoClevis ELSE tang) \in Thumbprints \cup {NoClevis}
    OBVIOUS
  <2> QED
    BY <1>1, <2>1, <2>2 DEF Initialized, Header
<1>4. Sound(h)
  BY <1>1, <1>2 DEF Sound, Has, Bound
<1>5. Bound(h) /\ h.clevis \in Configs \cup {NoClevis}
  BY <1>1, <1>2 DEF Bound
<1>6. Read(h).key = h.key /\ Read(h).clevis = h.clevis /\ Read(h) \in Info
  BY <1>1, <1>2, <1>5 DEF Read, Info
<1> QED
  BY <1>3, <1>4, <1>5, <1>6 DEF Linked, Agrees, Bound

(* BlockDevMgr::add, whether it succeeds or leaves a half-made device.     *)
LEMMA AddStep ==
    ASSUME IInv, NEW d \in Devs, Add(d)
    PROVE  IInv'
<1> DEFINE i == PoolInfo  h == Initialized(i)
<1>1. /\ up /\ job = Idle /\ commands' = commands + 1 /\ d \notin Range(order)
      /\ i.key # NoKey => Has(i.key)
      /\ UNCHANGED <<keyring, tang, job, torn, apart, rotated, stale, up>>
  BY DEF Add, Ready
<1>2. /\ order \in Seq(Devs) /\ mem \in [Devs -> Info] /\ disk \in [Devs -> Header]
      /\ commands' \in Nat /\ i \in Info /\ Bound(i) /\ Range(order) \subseteq Devs
  BY <1>1, FirstDevice DEF IInv, TypeOK
<1>3. /\ h \in Header /\ Sound(h) /\ Bound(h) /\ Read(h) \in Info
      /\ Linked(Read(h), h) /\ Agrees(Read(h), h)
  BY <1>1, <1>2, InitializedSound DEF IInv, TypeOK
<1>4. /\ order' = order \/ order' = Append(order, d)
      /\ \A e \in Devs : e # d => mem'[e] = mem[e] /\ disk'[e] = disk[e]
      /\ mem' \in [Devs -> Info] /\ disk' \in [Devs -> Header]
      /\ disk'[d].stratis => disk'[d] = h
      /\ order' = Append(order, d) => mem'[d] = Read(h) /\ disk'[d] = h
  <2>1. CASE /\ order' = Append(order, d)
             /\ disk' = [disk EXCEPT ![d] = h] /\ mem' = [mem EXCEPT ![d] = Read(h)]
    BY <1>2, <1>3, <2>1
  <2>2. ASSUME NEW x \in Partial(i), disk' = [disk EXCEPT ![d] = x], UNCHANGED <<order, mem>>
        PROVE  <1>4!:
    <3>1. x \in Header /\ (x.stratis => x = h)
      BY <2>2, Zenon DEF Partial, Blank, Initialized
    <3>2. order # Append(order, d)
      BY <1>2
    <3> QED
      BY <1>2, <2>2, <3>1, <3>2
  <2> QED
    BY <2>1, <2>2, Zenon DEF Add
<1> HIDE DEF i, h
<1>5. /\ order' \in Seq(Devs) /\ order' # <<>>
      /\ \A e \in Range(order') : e \in Range(order) \/ (e = d /\ order' = Append(order, d))
  <2>1. CASE order' = order
    BY <2>1 DEF IInv, TypeOK
  <2>2. CASE order' = Append(order, d)
    BY <1>2, <2>2 DEF Range
  <2> QED
    BY <1>4, <2>1, <2>2
<1>6. TypeOK'
  BY <1>1, <1>2, <1>4, <1>5 DEF IInv, TypeOK
<1>7. AllLinked' /\ CacheIsDisk'
  <2> SUFFICES ASSUME NEW e \in Range(order')
               PROVE  Linked(mem'[e], disk'[e]) /\ (e \notin torn => Agrees(mem'[e], disk'[e]))
    BY <1>1 DEF AllLinked, CacheIsDisk, Linked, Agrees, Bound
  <2>1. CASE e = d /\ order' = Append(order, d)
    BY <1>3, <1>4, <2>1
  <2>2. CASE e \in Range(order)
    BY <1>1, <1>2, <1>4, <2>2 DEF IInv, AllLinked, CacheIsDisk, Agrees
  <2> QED
    BY <1>5, <2>1, <2>2
<1>8. AllBound' /\ SoundDisks'
  <2> SUFFICES ASSUME NEW e \in Devs, disk'[e].stratis
               PROVE  Bound(disk'[e]) /\ (e \notin torn => Sound(disk'[e]))
    BY <1>1 DEF AllBound, SoundDisks, Bound, Sound
  <2>1. CASE e = d
    BY <1>3, <1>4, <2>1
  <2>2. CASE e # d
    BY <1>4, <2>2 DEF IInv, AllBound, SoundDisks
  <2> QED
    BY <2>1, <2>2
<1> QED
  BY <1>1, <1>6, <1>7, <1>8 DEF IInv, Backed

(* The keyring or the Tang server changes, or the daemon dies.             *)
LEMMA OtherStep ==
    ASSUME IInv,
           \/ \E k \in Keys, p \in Passes \cup {NoPass} : KeySet(k, p)
           \/ Rotate \/ Crash
    PROVE  IInv'
<1>1. /\ UNCHANGED <<order, mem, disk, torn, stale>>
      /\ apart' \in BOOLEAN /\ rotated' \in BOOLEAN /\ (job' = job \/ job' = Idle) /\ (up' = up \/ job' = Idle)
      /\ up' \in BOOLEAN /\ (up' => up) /\ commands' \in Nat
      /\ keyring' \in [Keys -> Passes \cup {NoPass}]
  <2>1. /\ commands \in Nat /\ keyring \in [Keys -> Passes \cup {NoPass}]
        /\ apart \in BOOLEAN /\ rotated \in BOOLEAN /\ up \in BOOLEAN
    BY DEF IInv, TypeOK
  <2>2. ASSUME NEW k \in Keys, NEW p \in Passes \cup {NoPass}, KeySet(k, p)
        PROVE  <1>1!:
    BY <2>1, <2>2 DEF KeySet, Ready
  <2>3. CASE Rotate
    BY <2>1, <2>3 DEF Rotate
  <2>4. CASE Crash
    BY <2>1, <2>4, Zenon DEF Crash
  <2> QED
    BY <2>2, <2>3, <2>4
<1>2. tang' \in Thumbprints
  <2>1. tang \in 1 .. MaxThp /\ MaxThp \in Nat
    BY EncryptionAssumption DEF IInv, TypeOK, Thumbprints
  <2>2. tang' = tang \/ (tang < MaxThp /\ tang' = tang + 1)
    BY DEF KeySet, Rotate, Crash
  <2> QED
    BY <2>1, <2>2 DEF Thumbprints
<1>3. Jobs' = Jobs
  BY <1>1 DEF Jobs
<1>4. TypeOK'
  BY <1>1, <1>2, <1>3 DEF IInv, TypeOK
<1>5. AllLinked' /\ AllBound' /\ CacheIsDisk' /\ SoundDisks'
  BY <1>1 DEF IInv, AllLinked, AllBound, CacheIsDisk, SoundDisks
<1>6. Backed(job)'
  BY <1>1 DEF IInv, Backed
<1>7. ~up' => job' = Idle
  BY <1>1 DEF IInv
<1> QED
  BY <1>4, <1>5, <1>6, <1>7 DEF IInv

(* A list of all elements of a set of devices that is not empty.           *)
LEMMA Lists ==
    ASSUME NEW S \in SUBSET Devs, S # {}, NEW s \in Orders(S)
    PROVE  s \in Seq(Devs) /\ s # <<>> /\ Range(s) \subseteq S
<1>1. Cardinality(S) \in Nat
  BY EncryptionAssumption
<1>2. /\ s \in [1 .. Cardinality(S) -> S]
      /\ \A d \in S : \E i \in 1 .. Cardinality(S) : s[i] = d
  BY DEF Orders, Bijection, Injection, Surjection
<1>3. s \in Seq(Devs) /\ Len(s) = Cardinality(S)
  BY <1>1, <1>2
<1>4. Len(s) # 0
  BY <1>1, <1>2, <1>3
<1> QED
  BY <1>2, <1>3, <1>4 DEF Range

(* What a handle reads from a device agrees with it.                       *)
LEMMA ReadAgrees ==
    ASSUME NEW h \in Header
    PROVE  /\ Read(h) \in Info /\ Agrees(Read(h), h)
           /\ Bound(h) => Linked(Read(h), h)
<1>1. h.key \in Keys \cup {NoKey} /\ h.clevis \in Configs \cup {NoClevis}
  BY EncryptionAssumption DEF Header, Thumbprints, Configs
<1>2. Read(h).key = h.key /\ Read(h).clevis = h.clevis /\ Read(h) \in Info
  BY <1>1 DEF Read, Info
<1> QED
  BY <1>2 DEF Agrees, Linked, Bound

(* The pool is set up again from what the headers say.                     *)
LEMMA SetupStep ==
    ASSUME IInv, Setup
    PROVE  IInv'
<1>1. /\ ~up /\ up' = TRUE /\ Members = Range(order)
      /\ mem' = [d \in Devs |-> Read(disk[d])]
      /\ UNCHANGED <<order, disk, keyring, tang, job, torn, apart, rotated, stale, commands>>
  BY DEF Setup
<1>2. job = Idle /\ disk \in [Devs -> Header] /\ order \in Seq(Devs) /\ order # <<>>
  BY <1>1 DEF IInv, TypeOK
<1>3. Members \in SUBSET Devs
  BY DEF Members
<1>4. order' \in Seq(Devs) /\ order' # <<>> /\ Range(order') \subseteq Members
  BY <1>1, <1>2
<1>5. \A d \in Devs : /\ mem'[d] = Read(disk[d]) /\ Read(disk[d]) \in Info
                      /\ Agrees(Read(disk[d]), disk[d])
                      /\ Bound(disk[d]) => Linked(Read(disk[d]), disk[d])
  BY <1>1, <1>2, ReadAgrees
<1>6. TypeOK'
  <2>1. mem' \in [Devs -> Info]
    BY <1>1, <1>5
  <2> QED
    BY <1>1, <1>2, <1>4, <2>1 DEF IInv, TypeOK
<1>7. AllLinked' /\ CacheIsDisk'
  <2> SUFFICES ASSUME NEW e \in Range(order')
               PROVE  Linked(mem'[e], disk[e]) /\ Agrees(mem'[e], disk[e])
    BY <1>1 DEF AllLinked, CacheIsDisk, Linked, Agrees, Bound
  <2>1. e \in Devs /\ disk[e].stratis
    BY <1>4 DEF Members
  <2>2. Bound(disk[e])
    BY <2>1 DEF IInv, AllBound
  <2> QED
    BY <1>5, <2>1, <2>2, Zenon
<1>8. AllBound' /\ SoundDisks'
  BY <1>1 DEF IInv, AllBound, SoundDisks
<1> QED
  BY <1>1, <1>2, <1>6, <1>7, <1>8 DEF IInv, Backed

(* A pool that was created with encryption.                                *)
LEMMA EncryptionInit == Init => IInv
<1> SUFFICES ASSUME Init PROVE IInv
  OBVIOUS
<1>1. PICK S \in (SUBSET Devs) \ {{}}, i \in Info :
         /\ i # Read(Blank) /\ (i.key # NoKey => Has(i.key))
         /\ order \in Orders(S)
         /\ disk = [d \in Devs |-> IF d \in S THEN Initialized(i) ELSE Blank]
  BY DEF Init
<1>2. /\ tang = 1 /\ keyring \in [Keys -> Passes \cup {NoPass}]
      /\ mem = [d \in Devs |-> Read(disk[d])]
      /\ job = Idle /\ torn = {} /\ apart = FALSE /\ rotated = FALSE /\ stale = FALSE
      /\ up = TRUE /\ commands = 0
  BY DEF Init
<1>3. tang \in Thumbprints
  BY <1>2, EncryptionAssumption DEF Thumbprints
<1>4. Bound(i)
  BY <1>1 DEF Bound, Read, Blank, Info
<1>5. Initialized(i) \in Header /\ Sound(Initialized(i)) /\ Bound(Initialized(i))
  BY <1>1, <1>2, <1>3, <1>4, InitializedSound
<1>6. Blank \in Header /\ Blank.stratis = FALSE
  BY DEF Blank, Header
<1>7. disk \in [Devs -> Header]
  BY <1>1, <1>5, <1>6
<1>8. order \in Seq(Devs) /\ order # <<>> /\ Range(order) \subseteq S
  BY <1>1, Lists
<1>9. \A d \in Devs : mem[d] = Read(disk[d]) /\ Read(disk[d]) \in Info
                      /\ Agrees(Read(disk[d]), disk[d])
                      /\ (Bound(disk[d]) => Linked(Read(disk[d]), disk[d]))
  BY <1>2, <1>7, ReadAgrees
<1>10. TypeOK
  <2>1. mem \in [Devs -> Info]
    BY <1>2, <1>9
  <2> QED
    BY <1>2, <1>3, <1>7, <1>8, <2>1, Zenon DEF TypeOK
<1>11. AllBound /\ SoundDisks
  BY <1>1, <1>5, <1>6 DEF AllBound, SoundDisks
<1>12. \A e \in Range(order) : Linked(mem[e], disk[e]) /\ Agrees(mem[e], disk[e])
  BY <1>1, <1>5, <1>8, <1>9
<1>13. AllLinked /\ CacheIsDisk
  BY <1>12 DEF AllLinked, CacheIsDisk, Agrees
<1> QED
  BY <1>2, <1>10, <1>11, <1>13 DEF IInv, Backed

LEMMA EncryptionStep == IInv /\ [Next]_vars => IInv'
<1> SUFFICES ASSUME IInv, [Next]_vars PROVE IInv'
  OBVIOUS
<1>0. 0 \in Configs /\ NoKey \in Keys \cup {NoKey}
  BY EncryptionAssumption DEF Configs
<1>1. ASSUME NEW thp \in Configs, NEW trust \in BOOLEAN, BindClevis(thp, trust) PROVE IInv'
  BY <1>0, <1>1, BeginStep DEF BindClevis, Ops
<1>2. CASE UnbindClevis \/ RebindClevis \/ UnbindKeyring
  BY <1>0, <1>2, BeginStep, Zenon DEF UnbindClevis, RebindClevis, UnbindKeyring, Ops
<1>3. ASSUME NEW k \in Keys, BindKeyring(k) \/ RebindKeyring(k) PROVE IInv'
  BY <1>0, <1>3, BeginStep, Zenon DEF BindKeyring, RebindKeyring, Ops
<1>4. CASE OperationDone \/ OperationFails \/ RollbackDone \/ RollbackFails
  BY <1>4, LoopStep
<1>5. ASSUME NEW d \in Devs, Add(d) PROVE IInv'
  BY <1>5, AddStep
<1>6. CASE (\E k \in Keys, p \in Passes \cup {NoPass} : KeySet(k, p)) \/ Rotate \/ Crash
  BY <1>6, OtherStep
<1>7. CASE Setup
  BY <1>7, SetupStep
<1>8. CASE UNCHANGED vars
  <2>1. UNCHANGED <<order, mem, disk, keyring, tang, job, torn, apart, rotated, stale, up, commands>>
    BY <1>8 DEF vars
  <2>2. Jobs' = Jobs
    BY <2>1 DEF Jobs
  <2>3. TypeOK'
    BY <2>1, <2>2 DEF IInv, TypeOK
  <2>4. AllLinked' /\ AllBound' /\ CacheIsDisk' /\ SoundDisks'
    BY <2>1 DEF IInv, AllLinked, AllBound, CacheIsDisk, SoundDisks
  <2>5. Backed(job)'
    BY <2>1 DEF IInv, Backed
  <2> QED
    BY <2>1, <2>3, <2>4, <2>5 DEF IInv
<1> QED
  BY <1>1, <1>2, <1>3, <1>4, <1>5, <1>6, <1>7, <1>8 DEF Next

----------------------------------------------------------------------------
LEMMA EncryptionInvariance == Spec => []IInv
BY EncryptionInit, EncryptionStep, PTL DEF Spec

(* The state has its types: a command is always at one of the devices of   *)
(* operation_loop or rollback_loop, also after a device was added.         *)
THEOREM EncryptionTypeCorrect == Spec => []TypeOK
BY EncryptionInvariance, PTL DEF IInv

(* Whatever the guards of bind, unbind and rebind decide by, the infos in  *)
(* the CryptHandles, is what the headers say, but for devices on which a   *)
(* call failed partway.                                                    *)
THEOREM HandlesAreExact == Spec => []CacheIsDisk
BY EncryptionInvariance, PTL DEF IInv

(* No sequence of commands, failures, rollbacks and crashes takes the last *)
(* way to open a device away, unless a call on it failed partway.          *)
THEOREM DevicesStayOpenable == Spec => []NeverLockedOut
<1>1. IInv => NeverLockedOut
  BY DEF IInv, SoundDisks, Sound, NeverLockedOut, Members
<1> QED
  BY <1>1, EncryptionInvariance, PTL

----------------------------------------------------------------------------
(* The inductive invariant for DevicesAlike and AllOrNothing.  In a clean  *)
(* history, no device is in the list twice and, as long as thumbprints     *)
(* count, a handle has the thumbprint of its device unless the             *)
(* configuration had none.  A command began when all devices were alike,   *)
(* and each of them is as it was then or as the command makes it: those    *)
(* before job.at, or, in the rollback, those from job.at to job.last.      *)
Clean == ~apart /\ torn = {}
Distinct == \A i, j \in 1 .. Len(order) : order[i] = order[j] => i = j
Exact == up => \A d \in Range(order) : mem[d].clevis \in {0, disk[d].clevis}
Began(j, l) ==
    LET b == j.backup[order[1]]
    IN  /\ \A d \in Range(order) : Ways(j.backup[d], l) = Ways(b, l)
        /\ j.old.key = b.key
        /\ j.old.clevis = NoClevis <=> b.clevis = NoClevis
        /\ l \/ j.old.clevis \in {0, b.clevis}
        /\ j.op = "bind_clevis" => b.clevis = NoClevis
        /\ j.op = "bind_keyring" => b.key = NoKey
Changes(j, i) == IF j.undo THEN j.at <= i /\ i <= j.last ELSE i < j.at
Halfway(j, l) ==
    /\ ~j.undo => j.last = Len(order)
    /\ \A i \in 1 .. Len(order) :
         Ways(disk[order[i]], l) = IF Changes(j, i) THEN Ways(Target(j), l)
                                   ELSE Ways(j.backup[order[i]], l)
CInv ==
    /\ Distinct
    /\ Clean /\ ~Loose => Exact
    /\ Clean /\ job = Idle =>
         \A d, e \in Range(order) : Ways(disk[d], Loose) = Ways(disk[e], Loose)
    /\ Clean /\ job # Idle => Began(job, Loose) /\ Halfway(job, Loose)

(* What an operation that is not cut short does to the tokens: all of its  *)
(* change, with the cached configuration m, or nothing.                    *)
Effect(o, i, h, key, clevis, m) ==
    ~o.torn => IF o.ok THEN o.disk.key = key /\ o.disk.clevis = clevis /\ o.mem.clevis = m
                       ELSE o.disk = h /\ o.mem = i

LEMMA ClevisEffects ==
    ASSUME NEW i \in Info, NEW h \in Header, NEW thp, NEW trust, NEW o
    PROVE  /\ o \in ClevisBind(i, h, thp, trust) =>
                Effect(o, i, h, h.key, tang, thp) /\ (o.ok => Binds(thp, trust))
           /\ o \in ClevisUnbind(i, h) => Effect(o, i, h, h.key, NoClevis, NoClevis)
           /\ o \in ClevisRebind(i, h) => Effect(o, i, h, h.key, tang, tang)
<1>f. o = Fails(i, h) => o.ok = FALSE /\ o.disk = h /\ o.mem = i
  BY DEF Fails
<1>1. ASSUME o \in ClevisBind(i, h, thp, trust)
     PROVE  Effect(o, i, h, h.key, tang, thp) /\ (o.ok => Binds(thp, trust))
  <2>1. o = Fails(i, h) \/ (Binds(thp, trust)
          /\ o = Done([i EXCEPT !.clevis = thp], [h EXCEPT !.clevis = tang]))
    BY <1>1 DEF ClevisBind
  <2>2. o = Done([i EXCEPT !.clevis = thp], [h EXCEPT !.clevis = tang]) =>
          o.ok = TRUE /\ o.disk.key = h.key /\ o.disk.clevis = tang /\ o.mem.clevis = thp
    BY DEF Done, Info, Header
  <2> QED
    BY <1>f, <2>1, <2>2 DEF Effect
<1>2. ASSUME o \in ClevisUnbind(i, h)
     PROVE  Effect(o, i, h, h.key, NoClevis, NoClevis)
  <2>1. o = Fails(i, h)
        \/ o = Done([i EXCEPT !.clevis = NoClevis], [h EXCEPT !.clevis = NoClevis])
    BY <1>2 DEF ClevisUnbind
  <2>2. o = Done([i EXCEPT !.clevis = NoClevis], [h EXCEPT !.clevis = NoClevis]) =>
          /\ o.ok = TRUE /\ o.disk.key = h.key
          /\ o.disk.clevis = NoClevis /\ o.mem.clevis = NoClevis
    BY DEF Done, Info, Header
  <2> QED
    BY <1>f, <2>1, <2>2 DEF Effect
<1>3. ASSUME o \in ClevisRebind(i, h)
     PROVE  Effect(o, i, h, h.key, tang, tang)
  <2>1. \/ o = Fails(i, h) \/ o = Tears(i, [h EXCEPT !.clevis = tang])
        \/ o = Done([i EXCEPT !.clevis = tang], [h EXCEPT !.clevis = tang])
    BY <1>3 DEF ClevisRebind
  <2>2. o = Done([i EXCEPT !.clevis = tang], [h EXCEPT !.clevis = tang]) =>
          o.ok = TRUE /\ o.disk.key = h.key /\ o.disk.clevis = tang /\ o.mem.clevis = tang
    BY DEF Done, Info, Header
  <2>3. o = Tears(i, [h EXCEPT !.clevis = tang]) => o.torn = TRUE
    BY DEF Tears
  <2> QED
    BY <1>f, <2>1, <2>2, <2>3 DEF Effect
<1> QED
  BY <1>1, <1>2, <1>3

LEMMA KeyringEffects ==
    ASSUME NEW i \in Info, NEW h \in Header, NEW k, NEW o
    PROVE  /\ o \in KeyringBind(i, h, k) => Effect(o, i, h, k, h.clevis, i.clevis)
           /\ o \in KeyringUnbind(i, h) => Effect(o, i, h, NoKey, h.clevis, i.clevis)
           /\ o \in KeyringRebind(i, h, k) => Effect(o, i, h, k, h.clevis, i.clevis)
<1>f. o = Fails(i, h) => o.ok = FALSE /\ o.disk = h /\ o.mem = i
  BY DEF Fails
<1>t. (\E x : o = Tears(i, x)) => o.torn = TRUE
  BY DEF Tears
<1>1. ASSUME o \in KeyringBind(i, h, k)
     PROVE  Effect(o, i, h, k, h.clevis, i.clevis)
  <2> DEFINE p == keyring[k]
  <2>1. \/ o = Fails(i, h) \/ \E x : o = Tears(i, x)
        \/ o = Done([i EXCEPT !.key = k], Assigned(h, k, p))
    BY <1>1 DEF KeyringBind
  <2> HIDE DEF p
  <2>2. Assigned(h, k, p).key = k /\ Assigned(h, k, p).clevis = h.clevis
    BY DEF Assigned, Header
  <2>3. o = Done([i EXCEPT !.key = k], Assigned(h, k, p)) =>
          o.ok = TRUE /\ o.disk = Assigned(h, k, p) /\ o.mem = [i EXCEPT !.key = k]
    BY DEF Done
  <2>4. [i EXCEPT !.key = k].clevis = i.clevis
    BY DEF Info
  <2> QED
    BY <1>f, <1>t, <2>1, <2>2, <2>3, <2>4, Zenon DEF Effect
<1>2. ASSUME o \in KeyringUnbind(i, h)
     PROVE  Effect(o, i, h, NoKey, h.clevis, i.clevis)
  <2> DEFINE m == [i EXCEPT !.key = NoKey]
             g == [h EXCEPT !.key = NoKey, !.slot = NoPass]
  <2>1. o = Fails(i, h) \/ (\E x : o = Tears(i, x)) \/ o = Done(m, g)
    BY <1>2 DEF KeyringUnbind
  <2>2. g.key = NoKey /\ g.clevis = h.clevis
    BY DEF Header
  <2>3. m.clevis = i.clevis
    BY DEF Info
  <2> HIDE DEF m, g
  <2>4. o = Done(m, g) => o.ok = TRUE /\ o.disk = g /\ o.mem = m
    BY DEF Done
  <2> QED
    BY <1>f, <1>t, <2>1, <2>2, <2>3, <2>4 DEF Effect
<1>3. ASSUME o \in KeyringRebind(i, h, k)
     PROVE  Effect(o, i, h, k, h.clevis, i.clevis)
  <2> DEFINE p == keyring[k]
             c == Changed(h, keyring[i.key], p)
  <2>1. \/ o = Fails(i, h) \/ \E x : o = Tears(i, x)
        \/ o = Done([i EXCEPT !.key = k], Assigned(c, k, p))
    BY <1>3 DEF KeyringRebind
  <2>2. /\ c.clevis = h.clevis
        /\ Assigned(c, k, p).key = k /\ Assigned(c, k, p).clevis = c.clevis
    BY DEF Changed, Assigned, Header
  <2> HIDE DEF p, c
  <2>3. o = Done([i EXCEPT !.key = k], Assigned(c, k, p)) =>
          o.ok = TRUE /\ o.disk = Assigned(c, k, p) /\ o.mem = [i EXCEPT !.key = k]
    BY DEF Done
  <2>4. [i EXCEPT !.key = k].clevis = i.clevis
    BY DEF Info
  <2> QED
    BY <1>f, <1>t, <2>1, <2>2, <2>3, <2>4, Zenon DEF Effect
<1> QED
  BY <1>1, <1>2, <1>3

(* Devices are bound in the same ways if their key descriptions are the    *)
(* same, and their thumbprints, or, if those do not count, if Clevis is    *)
(* bound to both.                                                          *)
Same(c, e, l) == c = e \/ (l /\ c # NoClevis /\ e # NoClevis)

LEMMA WaysFields ==
    ASSUME NEW x, NEW y, NEW l \in BOOLEAN
    PROVE  Ways(x, l) = Ways(y, l) <=> x.key = y.key /\ Same(x.clevis, y.clevis, l)
<1>1. NoClevis # 0
  BY EncryptionAssumption
<1>2. /\ Ways(x, l).key = x.key
      /\ Ways(x, l).clevis = IF l /\ x.clevis # NoClevis THEN 0 ELSE x.clevis
      /\ Ways(y, l).key = y.key
      /\ Ways(y, l).clevis = IF l /\ y.clevis # NoClevis THEN 0 ELSE y.clevis
  BY DEF Ways
<1>3. ASSUME x.key = y.key, Ways(x, l).clevis = Ways(y, l).clevis
      PROVE  Ways(x, l) = Ways(y, l)
  BY <1>2, <1>3 DEF Ways
<1> QED
  BY <1>1, <1>2, <1>3 DEF Same

(* What is alike with thumbprints is alike without.                        *)
LEMMA WaysLoosen ==
    ASSUME NEW x, NEW y, NEW l \in BOOLEAN, NEW m \in BOOLEAN, l => m, Ways(x, l) = Ways(y, l)
    PROVE  Ways(x, m) = Ways(y, m)
BY WaysFields DEF Same

(* The target of each command.                                             *)
LEMMA TargetFields ==
    ASSUME NEW j
    PROVE  /\ j.op \in {"bind_keyring", "rebind_keyring"} => Target(j).key = j.key
           /\ j.op = "unbind_keyring" => Target(j).key = NoKey
           /\ j.op \in {"bind_clevis", "unbind_clevis", "rebind_clevis"} =>
                Target(j).key = j.old.key
           /\ j.op \in {"bind_clevis", "rebind_clevis"} => Target(j).clevis = tang
           /\ j.op = "unbind_clevis" => Target(j).clevis = NoClevis
           /\ j.op \in {"bind_keyring", "unbind_keyring", "rebind_keyring"} =>
                Target(j).clevis = j.backup[order[1]].clevis
BY DEF Target, Read

(* A device that is as it was when the command began, and is alike the     *)
(* others, comes to be as the command makes it, or stays.                  *)
LEMMA ActionReads ==
    ASSUME IInv, job # Idle, NEW l \in BOOLEAN, Began(job, l), NEW d, d = order[job.at],
           Ways(disk[d], l) = Ways(job.backup[d], l), l \/ mem[d].clevis \in {0, disk[d].clevis},
           NEW o \in Action(d), ~o.torn
    PROVE  /\ l \/ o.mem.clevis \in {0, o.disk.clevis}
           /\ Ways(o.disk, l) = IF o.ok THEN Ways(Target(job), l) ELSE Ways(disk[d], l)
<1> DEFINE i == mem[d]  h == disk[d]  b == job.backup[order[1]]
           Made(x) == /\ l \/ o.mem.clevis \in {0, o.disk.clevis}
                      /\ o.disk.key = x.key /\ Same(o.disk.clevis, x.clevis, l)
<1>1. i \in Info /\ h \in Header /\ job.op \in Ops /\ d \in Range(order)
  BY AtDevice DEF IInv, TypeOK
<1>2. Ways(job.backup[d], l) = Ways(b, l) /\ job.old.key = b.key
  BY <1>1, Zenon DEF Began
<1>3. h.key = job.old.key /\ Same(h.clevis, b.clevis, l)
  <2>1. Ways(h, l) = Ways(b, l)
    BY <1>2
  <2> HIDE DEF h, b
  <2>2. h.key = b.key /\ Same(h.clevis, b.clevis, l)
    BY <2>1, WaysFields
  <2> QED
    BY <1>2, <2>2
<1>4. IF o.ok THEN Made(Target(job)) ELSE o.disk = h /\ o.mem = i
  <2>1. CASE job.op = "bind_clevis"
    <3>1. o \in ClevisBind(i, h, job.thp, job.trust)
      BY <2>1 DEF Action
    <3>2. Effect(o, i, h, h.key, tang, job.thp) /\ (o.ok => Binds(job.thp, job.trust))
      BY <1>1, <3>1, ClevisEffects, Zenon
    <3> QED
      BY <1>3, <2>1, <3>2, TargetFields DEF Effect, Binds, Same
  <2>2. CASE job.op = "unbind_clevis"
    <3>1. Effect(o, i, h, h.key, NoClevis, NoClevis)
      BY <1>1, <2>2, ClevisEffects, Zenon DEF Action
    <3> QED
      BY <1>3, <2>2, <3>1, TargetFields, Zenon DEF Effect, Same
  <2>3. CASE job.op = "rebind_clevis"
    <3>1. Effect(o, i, h, h.key, tang, tang)
      BY <1>1, <2>3, ClevisEffects, Zenon DEF Action
    <3> QED
      BY <1>3, <2>3, <3>1, TargetFields, Zenon DEF Effect, Same
  <2>4. CASE job.op = "bind_keyring"
    <3>1. Effect(o, i, h, job.key, h.clevis, i.clevis)
      BY <1>1, <2>4, KeyringEffects DEF Action
    <3> QED
      BY <1>3, <2>4, <3>1, TargetFields DEF Effect
  <2>5. CASE job.op = "unbind_keyring"
    <3>1. Effect(o, i, h, NoKey, h.clevis, i.clevis)
      BY <1>1, <2>5, KeyringEffects DEF Action
    <3> QED
      BY <1>3, <2>5, <3>1, TargetFields DEF Effect
  <2>6. CASE job.op = "rebind_keyring"
    <3>1. Effect(o, i, h, job.key, h.clevis, i.clevis)
      BY <1>1, <2>6, KeyringEffects DEF Action
    <3> QED
      BY <1>3, <2>6, <3>1, TargetFields DEF Effect
  <2> QED
    BY <1>1, <2>1, <2>2, <2>3, <2>4, <2>5, <2>6, Zenon DEF Ops
<1>5. CASE o.ok
  <2>1. o.disk.key = Target(job).key /\ Same(o.disk.clevis, Target(job).clevis, l)
    BY <1>4, <1>5
  <2>2. Ways(o.disk, l) = Ways(Target(job), l)
    BY <2>1, WaysFields
  <2> QED
    BY <1>4, <1>5, <2>2
<1>6. CASE ~o.ok
  BY <1>4, <1>6
<1> QED
  BY <1>5, <1>6

(* The rollback makes a device again what it was when the command began.   *)
(* After unbind_clevis that takes a thumbprint in the configuration, which *)
(* is then the one of all devices.                                         *)
LEMMA RollbackReads ==
    ASSUME IInv, job # Idle, NEW l \in BOOLEAN, Began(job, l), NEW d, d = order[job.at],
           Ways(disk[d], l) = Ways(Target(job), l), l \/ mem[d].clevis \in {0, disk[d].clevis},
           NEW o \in Rollback(d), ~o.torn, o.ok
    PROVE  /\ l \/ job.op = "rebind_clevis" \/ o.mem.clevis \in {0, o.disk.clevis}
           /\ Ways(o.disk, l) = Ways(job.backup[d], l)
<1> DEFINE i == mem[d]  h == disk[d]  b == job.backup[order[1]]
           Made == /\ l \/ o.mem.clevis \in {0, o.disk.clevis}
                   /\ o.disk.key = b.key /\ Same(o.disk.clevis, b.clevis, l)
<1>1. i \in Info /\ h \in Header /\ job.op \in Ops /\ d \in Range(order)
  BY AtDevice, Zenon DEF IInv, TypeOK
<1>2. /\ Ways(job.backup[d], l) = Ways(b, l) /\ job.old.key = b.key
      /\ l \/ job.old.clevis \in {0, b.clevis}
      /\ job.old.clevis = NoClevis <=> b.clevis = NoClevis
      /\ job.op = "bind_clevis" => b.clevis = NoClevis
      /\ job.op = "bind_keyring" => b.key = NoKey
  BY <1>1 DEF Began
<1>3. h.key = Target(job).key /\ Same(h.clevis, Target(job).clevis, l)
  BY WaysFields
<1>4. CASE job.op = "rebind_clevis"
  <2>1. o \in Restore(i, h, job.backup[d])
    BY <1>4 DEF Rollback
  <2> DEFINE c == job.backup[d]
  <2>2. o = Fails(i, h) \/ o = Done(i, c)
    BY <2>1 DEF Restore
  <2>3. Fails(i, h).ok = FALSE /\ Done(i, c).disk = c
    BY DEF Fails, Done
  <2> HIDE DEF i, h, c
  <2>4. o.disk = c
    BY <2>2, <2>3
  <2> QED
    BY <1>4, <2>4 DEF c
<1>5. ASSUME job.op # "rebind_clevis" PROVE Made
  <2>1. CASE job.op = "bind_clevis"
    <3>1. Effect(o, i, h, h.key, NoClevis, NoClevis)
      BY <1>1, <2>1, ClevisEffects, Zenon DEF Rollback
    <3> QED
      BY <1>2, <1>3, <2>1, <3>1, TargetFields DEF Effect, Same
  <2>2. CASE job.op = "unbind_clevis"
    <3>1. o \in ClevisBind(i, h, job.old.clevis, FALSE)
      BY <2>2, Zenon DEF Rollback
    <3>2. Effect(o, i, h, h.key, tang, job.old.clevis) /\ Binds(job.old.clevis, FALSE)
      BY <1>1, <3>1, ClevisEffects, Zenon
    <3>3. job.old.clevis = tang
      BY <3>2, Zenon DEF Binds
    <3>4. tang \in 1 .. MaxThp
      BY DEF IInv, TypeOK, Thumbprints
    <3>5. tang # 0 /\ tang # NoClevis
      BY <3>4, EncryptionAssumption
    <3> QED
      BY <1>2, <1>3, <2>2, <3>2, <3>3, <3>5, TargetFields, Zenon DEF Effect, Same
  <2>3. CASE job.op = "bind_keyring"
    <3>1. Effect(o, i, h, NoKey, h.clevis, i.clevis)
      BY <1>1, <2>3, KeyringEffects DEF Rollback
    <3> QED
      BY <1>2, <1>3, <2>3, <3>1, TargetFields, Zenon DEF Effect
  <2>4. CASE job.op = "unbind_keyring"
    <3>1. Effect(o, i, h, job.old.key, h.clevis, i.clevis)
      BY <1>1, <2>4, KeyringEffects DEF Rollback
    <3> QED
      BY <1>2, <1>3, <2>4, <3>1, TargetFields, Zenon DEF Effect
  <2>5. CASE job.op = "rebind_keyring"
    <3>1. Effect(o, i, h, job.old.key, h.clevis, i.clevis)
      BY <1>1, <2>5, KeyringEffects DEF Rollback
    <3> QED
      BY <1>2, <1>3, <2>5, <3>1, TargetFields DEF Effect
  <2> QED
    BY <1>1, <1>5, <2>1, <2>2, <2>3, <2>4, <2>5 DEF Ops
<1>6. CASE job.op # "rebind_clevis"
  <2>1. /\ l \/ o.mem.clevis \in {0, o.disk.clevis}
        /\ o.disk.key = b.key /\ Same(o.disk.clevis, b.clevis, l)
    BY <1>5, <1>6
  <2>2. Ways(job.backup[d], l) = Ways(b, l)
    BY <1>2
  <2> HIDE DEF b
  <2>3. Ways(o.disk, l) = Ways(b, l)
    BY <2>1, WaysFields
  <2> QED
    BY <2>1, <2>2, <2>3
<1> QED
  BY <1>4, <1>6

(* A round changes the header of the device that it is at and no other.    *)
LEMMA RoundReads ==
    ASSUME IInv, CInv, job # Idle, NEW o, Applied(order[job.at], o), torn' = {}
    PROVE  /\ order' = order /\ tang' = tang /\ up' = up /\ torn = {} /\ ~o.torn
           /\ \A i \in 1 .. Len(order) :
                disk'[order[i]] = IF i = job.at THEN o.disk ELSE disk[order[i]]
           /\ \A i \in 1 .. Len(order) :
                mem'[order[i]] = IF i = job.at THEN o.mem ELSE mem[order[i]]
<1>1. /\ mem' = [mem EXCEPT ![order[job.at]] = o.mem]
      /\ disk' = [disk EXCEPT ![order[job.at]] = o.disk]
      /\ torn' = IF o.torn THEN torn \cup {order[job.at]} ELSE torn
      /\ order' = order /\ tang' = tang /\ up' = up
  BY DEF Applied
<1>2. /\ mem \in [Devs -> Info] /\ disk \in [Devs -> Header]
      /\ \A i \in 1 .. Len(order) : order[i] \in Devs
      /\ job.at \in 1 .. Len(order)
  BY AtDevice DEF IInv, TypeOK, Jobs
<1>3. \A i \in 1 .. Len(order) : order[i] = order[job.at] => i = job.at
  BY <1>2 DEF CInv, Distinct
<1> QED
  BY <1>1, <1>2, <1>3, Zenon

(* The target of a command does not change as it proceeds.                 *)
LEMMA SameTarget ==
    ASSUME NEW j, NEW k, k.op = j.op, k.key = j.key, k.old = j.old, k.backup = j.backup
    PROVE  /\ Target(k) = Target(j)
           /\ \A l : Began(j, l) => Began(k, l)
BY DEF Target, Began

(* The device that a round is at, in a clean history.                      *)
LEMMA AtClean ==
    ASSUME IInv, CInv, Clean, job # Idle, NEW l \in BOOLEAN, l = Loose
    PROVE  /\ Began(job, l) /\ Halfway(job, l)
           /\ job.at \in 1 .. Len(order) /\ job.last \in 1 .. Len(order) /\ job.at <= job.last
           /\ Len(order) \in Nat /\ job.undo \in BOOLEAN
           /\ l \/ mem[order[job.at]].clevis \in {0, disk[order[job.at]].clevis}
           /\ Ways(disk[order[job.at]], l) =
                IF job.undo THEN Ways(Target(job), l) ELSE Ways(job.backup[order[job.at]], l)
<1>1. Began(job, l) /\ Halfway(job, l) /\ (l \/ Exact)
  BY DEF CInv
<1>2. /\ job.at \in 1 .. Len(order) /\ job.last \in 1 .. Len(order) /\ job.at <= job.last
      /\ Len(order) \in Nat /\ job.undo \in BOOLEAN
  BY AtDevice DEF IInv, TypeOK, Jobs
<1>3. Changes(job, job.at) <=> job.undo
  BY <1>2 DEF Changes
<1>4. Ways(disk[order[job.at]], l) =
        IF job.undo THEN Ways(Target(job), l) ELSE Ways(job.backup[order[job.at]], l)
  BY <1>1, <1>2, <1>3 DEF Halfway
<1>5. l \/ mem[order[job.at]].clevis \in {0, disk[order[job.at]].clevis}
  BY <1>1, AtDevice DEF Exact
<1> QED
  BY <1>1, <1>2, <1>4, <1>5, Zenon

(* One round of operation_loop or of rollback_loop in a clean history, by  *)
(* what it does to job and to the device that it is at.                    *)
Rounds(j, o, l) ==
    \/ ~j.undo /\ Ways(o.disk, l) = Ways(Target(j), l)
         /\ job' = IF j.at < j.last THEN [j EXCEPT !.at = j.at + 1] ELSE Idle
    \/ ~j.undo /\ Ways(o.disk, l) = Ways(j.backup[order[j.at]], l)
         /\ job' = IF j.at > 1 THEN [j EXCEPT !.undo = TRUE, !.at = 1, !.last = j.at - 1]
                               ELSE Idle
    \/ j.undo /\ Ways(o.disk, l) = Ways(j.backup[order[j.at]], l)
         /\ job' = IF j.at < j.last THEN [j EXCEPT !.at = j.at + 1] ELSE Idle

LEMMA RoundKinds ==
    ASSUME IInv, CInv, Clean, NEW l \in BOOLEAN, l = Loose,
           OperationDone \/ OperationFails \/ RollbackDone \/ RollbackFails,
           ~apart', torn' = {}
    PROVE  /\ job # Idle
           /\ \E o : /\ Applied(order[job.at], o) /\ Rounds(job, o, l)
                     /\ l \/ stale' \/ o.mem.clevis \in {0, o.disk.clevis}
<1>1. job # Idle
  BY DEF OperationDone, OperationFails, RollbackDone, RollbackFails
<1>2. /\ Began(job, l) /\ (l \/ mem[order[job.at]].clevis \in {0, disk[order[job.at]].clevis})
      /\ job.undo \in BOOLEAN
      /\ Ways(disk[order[job.at]], l) =
           IF job.undo THEN Ways(Target(job), l) ELSE Ways(job.backup[order[job.at]], l)
  BY <1>1, AtClean
<1>3. CASE OperationDone
  <2>1. PICK o \in Action(order[job.at]) : o.ok /\ Applied(order[job.at], o)
    BY <1>3 DEF OperationDone
  <2>2. ~job.undo /\ Advance
    BY <1>3 DEF OperationDone
  <2>3. ~o.torn
    BY <1>1, <2>1, RoundReads
  <2>4. /\ l \/ o.mem.clevis \in {0, o.disk.clevis}
        /\ Ways(o.disk, l) = Ways(Target(job), l)
    BY <1>1, <1>2, <2>1, <2>2, <2>3, ActionReads
  <2>5. Rounds(job, o, l)
    BY <2>2, <2>4 DEF Rounds, Advance
  <2> QED
    BY <1>1, <2>1, <2>4, <2>5
<1>4. CASE OperationFails
  <2>1. PICK o \in Action(order[job.at]) : ~o.ok /\ Applied(order[job.at], o)
    BY <1>4 DEF OperationFails
  <2>2. ~job.undo /\ job' = IF job.at > 1
                              THEN [job EXCEPT !.undo = TRUE, !.at = 1, !.last = job.at - 1]
                              ELSE Idle
    BY <1>4 DEF OperationFails
  <2>3. ~o.torn
    BY <1>1, <2>1, RoundReads
  <2>4. /\ l \/ o.mem.clevis \in {0, o.disk.clevis}
        /\ Ways(o.disk, l) = Ways(job.backup[order[job.at]], l)
    BY <1>1, <1>2, <2>1, <2>2, <2>3, ActionReads
  <2>5. Rounds(job, o, l)
    BY <2>2, <2>4 DEF Rounds
  <2> QED
    BY <1>1, <2>1, <2>4, <2>5
<1>5. CASE RollbackDone
  <2>1. PICK o \in Rollback(order[job.at]) : o.ok /\ Applied(order[job.at], o)
    BY <1>5 DEF RollbackDone
  <2>2. job.undo /\ Advance /\ (~stale' => job.op # "rebind_clevis")
    BY <1>5, Zenon DEF RollbackDone
  <2>3. ~o.torn
    BY <1>1, <2>1, RoundReads
  <2>4. /\ l \/ job.op = "rebind_clevis" \/ o.mem.clevis \in {0, o.disk.clevis}
        /\ Ways(o.disk, l) = Ways(job.backup[order[job.at]], l)
    BY <1>1, <1>2, <2>1, <2>2, <2>3, RollbackReads
  <2>5. Rounds(job, o, l)
    BY <2>2, <2>4 DEF Rounds, Advance
  <2> QED
    BY <1>1, <2>1, <2>2, <2>4, <2>5
<1>6. CASE RollbackFails
  BY <1>6 DEF RollbackFails
<1> QED
  BY <1>3, <1>4, <1>5, <1>6

(* So the devices stay as the invariant says, and when the command ends,   *)
(* all of them are as they were or all are as it makes them.               *)
LEMMA LoopReads ==
    ASSUME IInv, CInv, Clean, NEW l \in BOOLEAN, l = Loose,
           OperationDone \/ OperationFails \/ RollbackDone \/ RollbackFails,
           ~apart', torn' = {}
    PROVE  /\ order' = order /\ Began(job, l)
           /\ l \/ stale' \/ Exact'
           /\ job' # Idle => Began(job, l)' /\ Halfway(job, l)'
           /\ job' = Idle => \/ \A d \in Range(order) : Ways(disk'[d], l) = Ways(job.backup[d], l)
                             \/ \A d \in Range(order) : Ways(disk'[d], l) = Ways(Target(job), l)
<1>1. PICK o : /\ Applied(order[job.at], o) /\ Rounds(job, o, l)
               /\ l \/ stale' \/ o.mem.clevis \in {0, o.disk.clevis}
  BY RoundKinds, Zenon
<1>2. /\ job # Idle /\ job \in Jobs /\ Began(job, l) /\ Halfway(job, l)
      /\ job.at \in 1 .. Len(order) /\ job.last \in 1 .. Len(order) /\ job.at <= job.last
      /\ Len(order) \in Nat
  BY RoundKinds, AtClean, AtDevice, Zenon
<1>3. /\ order' = order /\ tang' = tang /\ up' = up
      /\ \A i \in 1 .. Len(order) :
           disk'[order[i]] = IF i = job.at THEN o.disk ELSE disk[order[i]]
      /\ \A i \in 1 .. Len(order) :
           mem'[order[i]] = IF i = job.at THEN o.mem ELSE mem[order[i]]
  BY <1>1, <1>2, RoundReads
<1>4. \A i \in 1 .. Len(order) :
        Ways(disk'[order[i]], l) = IF i = job.at THEN Ways(o.disk, l)
                                ELSE IF Changes(job, i) THEN Ways(Target(job), l)
                                ELSE Ways(job.backup[order[i]], l)
  BY <1>2, <1>3 DEF Halfway
<1>5. \A d \in Range(order) : \E i \in 1 .. Len(order) : d = order[i]
  BY DEF Range, IInv, TypeOK
<1>6. l \/ stale' \/ Exact'
  <2> SUFFICES ASSUME ~l, ~stale', up, NEW d \in Range(order)
               PROVE  mem'[d].clevis \in {0, disk'[d].clevis}
    BY <1>3 DEF Exact
  <2>1. PICK i \in 1 .. Len(order) : d = order[i]
    BY <1>5
  <2>2. mem[d].clevis \in {0, disk[d].clevis}
    BY DEF CInv, Exact
  <2> QED
    BY <1>1, <1>3, <2>1, <2>2, Zenon
<1>7. job' # Idle => Began(job, l)' /\ Halfway(job, l)'
  <2> SUFFICES ASSUME job' # Idle PROVE Began(job', l) /\ Halfway(job, l)'
    BY <1>3, Zenon DEF Began
  <2> DEFINE j == job'
  <2>1. /\ j.op = job.op /\ j.key = job.key /\ j.old = job.old /\ j.backup = job.backup
        /\ ~j.undo => ~job.undo /\ j.last = job.last
        /\ \A i \in 1 .. Len(order) :
             IF i = job.at THEN Ways(o.disk, l) = IF Changes(j, i) THEN Ways(Target(job), l)
                                               ELSE Ways(job.backup[order[i]], l)
                           ELSE Changes(j, i) <=> Changes(job, i)
    <3>1. CASE /\ ~job.undo /\ Ways(o.disk, l) = Ways(Target(job), l)
               /\ j = [job EXCEPT !.at = job.at + 1]
      <4>1. /\ j.op = job.op /\ j.key = job.key /\ j.old = job.old /\ j.backup = job.backup
            /\ j.undo = job.undo /\ j.last = job.last /\ j.at = job.at + 1
        BY <1>2, <3>1 DEF Jobs
      <4>2. \A i \in 1 .. Len(order) : Changes(j, i) <=> (i = job.at \/ Changes(job, i))
        BY <1>2, <3>1, <4>1 DEF Changes
      <4> QED
        BY <3>1, <4>1, <4>2
    <3>2. CASE /\ ~job.undo /\ Ways(o.disk, l) = Ways(job.backup[order[job.at]], l)
               /\ j = [job EXCEPT !.undo = TRUE, !.at = 1, !.last = job.at - 1]
      <4>1. /\ j.op = job.op /\ j.key = job.key /\ j.old = job.old /\ j.backup = job.backup
            /\ j.undo = TRUE /\ j.last = job.at - 1 /\ j.at = 1
        BY <1>2, <3>2 DEF Jobs
      <4>2. \A i \in 1 .. Len(order) : Changes(j, i) <=> i # job.at /\ Changes(job, i)
        BY <1>2, <3>2, <4>1 DEF Changes
      <4> QED
        BY <3>2, <4>1, <4>2
    <3>3. CASE /\ job.undo /\ Ways(o.disk, l) = Ways(job.backup[order[job.at]], l)
               /\ j = [job EXCEPT !.at = job.at + 1]
      <4>1. /\ j.op = job.op /\ j.key = job.key /\ j.old = job.old /\ j.backup = job.backup
            /\ j.undo = job.undo /\ j.last = job.last /\ j.at = job.at + 1
        BY <1>2, <3>3, Zenon DEF Jobs
      <4>2. \A i \in 1 .. Len(order) : Changes(j, i) <=> i # job.at /\ Changes(job, i)
        BY <1>2, <3>3, <4>1 DEF Changes
      <4> QED
        BY <3>3, <4>1, <4>2
    <3> QED
      BY <1>1, <3>1, <3>2, <3>3 DEF Rounds
  <2>2. Began(j, l) /\ Target(j) = Target(job)
    BY <1>2, <2>1, SameTarget, Zenon
  <2>3. ~j.undo => j.last = Len(order)
    BY <1>2, <2>1 DEF Halfway
  <2>4. \A i \in 1 .. Len(order) :
          Ways(disk'[order[i]], l) = IF Changes(j, i) THEN Ways(Target(j), l) ELSE Ways(j.backup[order[i]], l)
    BY <1>4, <2>1, <2>2
  <2>5. Halfway(job, l)'
    BY <1>3, <2>3, <2>4 DEF Halfway, Changes, Target
  <2> QED
    BY <2>2, <2>5
<1>8. ASSUME job' = Idle
      PROVE  \/ \A d \in Range(order) : Ways(disk'[d], l) = Ways(job.backup[d], l)
             \/ \A d \in Range(order) : Ways(disk'[d], l) = Ways(Target(job), l)
  <2>1. \A k \in Nat : [job EXCEPT !.at = k] # Idle
    <3> TAKE k \in Nat
    <3>1. [job EXCEPT !.at = k] \in
            [op : Ops, key : Keys \cup {NoKey}, thp : Configs, trust : BOOLEAN, old : Info,
             backup : [Devs -> Header], undo : BOOLEAN, at : Nat, last : Nat]
      BY <1>2 DEF Jobs
    <3> QED
      BY <3>1, IdleAssumption
  <2>2. \A k \in Nat : [job EXCEPT !.undo = TRUE, !.at = 1, !.last = k] # Idle
    <3> TAKE k \in Nat
    <3>1. [job EXCEPT !.undo = TRUE, !.at = 1, !.last = k] \in
            [op : Ops, key : Keys \cup {NoKey}, thp : Configs, trust : BOOLEAN, old : Info,
             backup : [Devs -> Header], undo : BOOLEAN, at : Nat, last : Nat]
      BY <1>2, Zenon DEF Jobs
    <3> QED
      BY <3>1, IdleAssumption, Zenon
  <2>3. job.at + 1 \in Nat /\ (job.at > 1 => job.at - 1 \in Nat)
    BY <1>2
  <2>4. CASE ~job.undo /\ Ways(o.disk, l) = Ways(Target(job), l) /\ job.at >= job.last
    <3>1. job.last = Len(order)
      BY <1>2, <2>4 DEF Halfway
    <3>2. \A i \in 1 .. Len(order) : i = job.at \/ Changes(job, i)
      BY <1>2, <2>4, <3>1 DEF Changes
    <3>3. \A i \in 1 .. Len(order) : Ways(disk'[order[i]], l) = Ways(Target(job), l)
      BY <1>4, <2>4, <3>2
    <3> QED
      BY <1>5, <3>3
  <2>5. CASE ~job.undo /\ Ways(o.disk, l) = Ways(job.backup[order[job.at]], l) /\ ~(job.at > 1)
    <3>1. \A i \in 1 .. Len(order) : ~Changes(job, i)
      BY <1>2, <2>5 DEF Changes
    <3>2. \A i \in 1 .. Len(order) : Ways(disk'[order[i]], l) = Ways(job.backup[order[i]], l)
      BY <1>4, <2>5, <3>1
    <3> QED
      BY <1>5, <3>2
  <2>6. CASE job.undo /\ Ways(o.disk, l) = Ways(job.backup[order[job.at]], l) /\ job.at >= job.last
    <3>1. \A i \in 1 .. Len(order) : i # job.at => ~Changes(job, i)
      BY <1>2, <2>6 DEF Changes
    <3>2. \A i \in 1 .. Len(order) : Ways(disk'[order[i]], l) = Ways(job.backup[order[i]], l)
      BY <1>4, <2>6, <3>1
    <3> QED
      BY <1>5, <3>2
  <2>7. (~(job.at < job.last) => job.at >= job.last)
    BY <1>2
  <2>8. /\ job.at < job.last => job' # [job EXCEPT !.at = job.at + 1]
        /\ job.at > 1 => job' # [job EXCEPT !.undo = TRUE, !.at = 1, !.last = job.at - 1]
    BY <1>8, <2>1, <2>2, <2>3, Zenon
  <2> QED
    BY <1>1, <2>4, <2>5, <2>6, <2>7, <2>8 DEF Rounds
<1> QED
  BY <1>2, <1>3, <1>6, <1>7, <1>8, Zenon

(* The loops preserve the invariant.  If they make thumbprints not count   *)
(* any more, what was alike stays alike.                                   *)
LEMMA LoopClean ==
    ASSUME IInv, CInv, OperationDone \/ OperationFails \/ RollbackDone \/ RollbackFails
    PROVE  CInv'
<1>1. order' = order /\ rotated' = rotated /\ tang' = tang
  BY DEF OperationDone, OperationFails, RollbackDone, RollbackFails, Applied
<1>2. Distinct'
  BY <1>1 DEF CInv, Distinct
<1>3. PICK l \in BOOLEAN : l = Loose
  BY DEF Loose
<1>4. PICK m \in BOOLEAN : m = Loose'
  BY DEF Loose
<1>5. (apart => apart') /\ (stale => stale') /\ torn \subseteq torn'
  <2>1. \E o : Applied(order[job.at], o)
    BY DEF OperationDone, OperationFails, RollbackDone, RollbackFails
  <2>2. torn \subseteq torn'
    BY <2>1, Zenon DEF Applied
  <2>3. (apart => apart') /\ (stale => stale')
    <3>1. CASE OperationDone \/ OperationFails
      BY <3>1 DEF OperationDone, OperationFails
    <3>2. CASE RollbackDone
      BY <3>2, Zenon DEF RollbackDone
    <3>3. CASE RollbackFails
      BY <3>3, Zenon DEF RollbackFails
    <3> QED
      BY <3>1, <3>2, <3>3
  <2> QED
    BY <2>2, <2>3
<1>6. l => m
  BY <1>1, <1>3, <1>4, <1>5 DEF Loose
<1>7. ASSUME Clean'
      PROVE  /\ m \/ Exact'
             /\ job' = Idle => \A d, e \in Range(order') : Ways(disk'[d], m) = Ways(disk'[e], m)
             /\ job' # Idle => Began(job, m)' /\ Halfway(job, m)'
  <2>1. Clean /\ ~apart' /\ torn' = {}
    BY <1>5, <1>7 DEF Clean
  <2>2. /\ Began(job, l) /\ (l \/ stale' \/ Exact')
        /\ job' # Idle => Began(job, l)' /\ Halfway(job, l)'
        /\ job' = Idle =>
             \/ \A d \in Range(order) : Ways(disk'[d], l) = Ways(job.backup[d], l)
             \/ \A d \in Range(order) : Ways(disk'[d], l) = Ways(Target(job), l)
    BY <1>3, <2>1, LoopReads, Zenon
  <2>3. m \/ Exact'
    BY <1>4, <1>6, <2>2 DEF Loose
  <2>4. ASSUME job' = Idle, NEW d \in Range(order), NEW e \in Range(order)
        PROVE  Ways(disk'[d], m) = Ways(disk'[e], m)
    <3>1. \A f, g \in Range(order) : Ways(job.backup[f], l) = Ways(job.backup[g], l)
      BY <2>2 DEF Began
    <3>2. Ways(disk'[d], l) = Ways(disk'[e], l)
      BY <2>2, <2>4, <3>1, Zenon
    <3> QED
      BY <1>6, <3>2, WaysLoosen
  <2>5. ASSUME job' # Idle PROVE Began(job, m)' /\ Halfway(job, m)'
    <3>1. Began(job, l)' /\ Halfway(job, l)'
      BY <2>2, <2>5
    <3>2. Began(job, m)'
      BY <1>6, <3>1, WaysLoosen DEF Began
    <3>3. ASSUME NEW i \in 1 .. Len(order')
          PROVE  Ways(disk'[order'[i]], m) =
                   IF Changes(job', i) THEN Ways(Target(job)', m)
                   ELSE Ways((job').backup[order'[i]], m)
      <4>1. Ways(disk'[order'[i]], l) =
              IF Changes(job', i) THEN Ways(Target(job)', l)
              ELSE Ways((job').backup[order'[i]], l)
        BY <3>1, <3>3 DEF Halfway, Changes
      <4> QED
        BY <1>6, <4>1, WaysLoosen
    <3>4. Halfway(job, m)'
      BY <3>1, <3>3 DEF Halfway, Changes
    <3> QED
      BY <3>2, <3>4
  <2> QED
    BY <1>1, <2>3, <2>4, <2>5
<1> QED
  BY <1>2, <1>4, <1>7 DEF CInv

(* A command begins when all devices are alike.                            *)
LEMMA BeginClean ==
    ASSUME IInv, CInv, NEW op \in Ops, NEW k \in Keys \cup {NoKey}, NEW thp \in Configs,
           NEW trust \in BOOLEAN, Begin(op, k, thp, trust),
           op = "bind_clevis" => PoolInfo.clevis = NoClevis,
           op = "bind_keyring" => PoolInfo.key = NoKey
    PROVE  CInv'
<1>1. /\ up /\ job = Idle
      /\ job' = [op |-> op, key |-> k, thp |-> thp, trust |-> trust, old |-> PoolInfo,
                 backup |-> disk, undo |-> FALSE, at |-> 1, last |-> Len(order)]
      /\ UNCHANGED <<order, mem, disk, keyring, tang, torn, apart, rotated, stale, up>>
  BY Zenon DEF Begin, Ready
<1>2. Distinct'
  BY <1>1 DEF CInv, Distinct
<1>l. PICK l \in BOOLEAN : l = Loose
  BY DEF Loose
<1>m. Loose' = l
  BY <1>1, <1>l DEF Loose
<1>3. ASSUME Clean
      PROVE  (l \/ Exact') /\ job' # Idle /\ Began(job, l)' /\ Halfway(job, l)'
  <2>1. (l \/ Exact) /\ \A d, e \in Range(order) : Ways(disk[d], l) = Ways(disk[e], l)
    BY <1>1, <1>l, <1>3 DEF CInv
  <2>2. /\ order[1] \in Range(order) /\ PoolInfo \in Info /\ Len(order) \in Nat
        /\ disk \in [Devs -> Header] /\ order \in Seq(Devs)
    BY <1>1, FirstDevice, Zenon DEF IInv, TypeOK
  <2>3. job' # Idle
    <3>1. job' \in [op : Ops, key : Keys \cup {NoKey}, thp : Configs, trust : BOOLEAN,
                    old : Info, backup : [Devs -> Header], undo : BOOLEAN, at : Nat, last : Nat]
      BY <1>1, <2>2, Zenon
    <3> QED
      BY <3>1, IdleAssumption
  <2>4. l \/ Exact'
    BY <1>1, <2>1, Zenon DEF Exact
  <2>5. /\ l \/ mem[order[1]].clevis \in {0, disk[order[1]].clevis}
        /\ mem[order[1]].key = disk[order[1]].key
        /\ mem[order[1]].clevis = NoClevis <=> disk[order[1]].clevis = NoClevis
    BY <1>1, <1>3, <2>1, <2>2, Zenon DEF Exact, Clean, IInv, CacheIsDisk
  <2>6. Began(job, l)'
    <3>1. job'.backup = disk /\ job'.old = mem[order[1]] /\ job'.op = op
      BY <1>1, Zenon DEF PoolInfo
    <3>2. \A d \in Range(order) : Ways(disk[d], l) = Ways(disk[order[1]], l)
      BY <2>1, <2>2
    <3> QED
      BY <1>1, <2>5, <3>1, <3>2, Zenon DEF Began, PoolInfo
  <2>7. Halfway(job, l)'
    <3>1. job'.undo = FALSE /\ job'.at = 1 /\ job'.last = Len(order) /\ job'.backup = disk
      BY <1>1
    <3>2. \A i \in 1 .. Len(order) : ~(i < 1)
      OBVIOUS
    <3> QED
      BY <1>1, <3>1, <3>2, Zenon DEF Halfway, Changes
  <2> QED
    BY <2>3, <2>4, <2>6, <2>7
<1>4. Clean' => Clean
  BY <1>1 DEF Clean
<1> QED
  BY <1>2, <1>m, <1>3, <1>4 DEF CInv

(* A list with one more element.                                           *)
LEMMA AppendRange ==
    ASSUME NEW S, NEW s \in Seq(S), NEW d \in S
    PROVE  LET t == Append(s, d)
           IN  /\ Len(t) = Len(s) + 1 /\ Len(s) \in Nat /\ t[Len(s) + 1] = d
               /\ \A i \in 1 .. Len(s) : t[i] = s[i] /\ s[i] \in Range(s)
               /\ \A e \in Range(t) : e \in Range(s) \/ e = d
<1> DEFINE t == Append(s, d)
<1>1. /\ t \in Seq(S) /\ Len(t) = Len(s) + 1 /\ Len(s) \in Nat /\ t[Len(s) + 1] = d
      /\ \A i \in 1 .. Len(s) : t[i] = s[i]
  OBVIOUS
<1>2. DOMAIN s = 1 .. Len(s) /\ DOMAIN t = 1 .. Len(t)
  BY <1>1
<1> HIDE DEF t
<1>3. \A i \in 1 .. Len(s) : s[i] \in Range(s)
  BY <1>2 DEF Range
<1>4. ASSUME NEW e \in Range(t) PROVE e \in Range(s) \/ e = d
  <2>1. PICK i \in DOMAIN t : e = t[i]
    BY DEF Range
  <2>2. i \in 1 .. Len(s) \/ i = Len(s) + 1
    BY <1>1, <1>2, <2>1
  <2> QED
    BY <1>1, <1>3, <2>1, <2>2
<1> QED
  BY <1>1, <1>3, <1>4 DEF t

(* A device that is added is like the others: the pool's configuration     *)
(* binds it only if it has the thumbprint of the Tang server.              *)
LEMMA AddClean ==
    ASSUME IInv, CInv, NEW d \in Devs, Add(d)
    PROVE  CInv'
<1>1. /\ up /\ job = Idle /\ d \notin Range(order)
      /\ UNCHANGED <<keyring, tang, job, torn, apart, rotated, stale, up>>
  BY DEF Add, Ready
<1>2. /\ order \in Seq(Devs) /\ mem \in [Devs -> Info] /\ disk \in [Devs -> Header]
      /\ Range(order) \subseteq Devs /\ order[1] \in Range(order)
      /\ tang # 0 /\ tang # NoClevis
  BY <1>1, FirstDevice, EncryptionAssumption DEF IInv, TypeOK, Thumbprints
<1>l. PICK l \in BOOLEAN : l = Loose
  BY DEF Loose
<1>m. Loose' = l
  BY <1>1, <1>l DEF Loose
<1>3. CASE /\ PoolInfo.clevis # NoClevis => Binds(PoolInfo.clevis, FALSE)
           /\ order' = Append(order, d)
           /\ disk' = [disk EXCEPT ![d] = Initialized(PoolInfo)]
           /\ mem' = [mem EXCEPT ![d] = Read(Initialized(PoolInfo))]
  <2> DEFINE h == Initialized(PoolInfo)
  <2> DEFINE t == Append(order, d)
  <2>0. /\ Len(t) = Len(order) + 1 /\ Len(order) \in Nat /\ t[Len(order) + 1] = d
        /\ \A i \in 1 .. Len(order) : t[i] = order[i] /\ order[i] \in Range(order)
        /\ \A e \in Range(t) : e \in Range(order) \/ e = d
    <3>1. order \in Seq(Devs)
      BY <1>2
    <3> QED
      BY <3>1, AppendRange
  <2>t. order' = t
    BY <1>3
  <2> HIDE DEF t
  <2>1. /\ Len(order') = Len(order) + 1 /\ Len(order) \in Nat /\ order'[Len(order) + 1] = d
        /\ \A i \in 1 .. Len(order) : order'[i] = order[i] /\ order[i] \in Range(order)
    BY <2>0, <2>t
  <2>2. \A e \in Range(order') : e \in Range(order) \/ e = d
    BY <2>0, <2>t
  <2>3. Distinct'
    <3> SUFFICES ASSUME NEW i \in 1 .. Len(order) + 1, NEW j \in 1 .. Len(order) + 1,
                        order'[i] = order'[j]
                 PROVE  i = j
      BY <2>1 DEF Distinct
    <3>1. CASE i \in 1 .. Len(order) /\ j \in 1 .. Len(order)
      BY <2>1, <3>1 DEF CInv, Distinct
    <3>2. CASE i = Len(order) + 1
      BY <1>1, <2>1, <3>2
    <3>3. CASE j = Len(order) + 1
      BY <1>1, <2>1, <3>3
    <3> QED
      BY <2>1, <3>1, <3>2, <3>3
  <2>4. /\ disk'[d] = h /\ mem'[d] = Read(h)
        /\ \A e \in Range(order) : disk'[e] = disk[e] /\ mem'[e] = mem[e]
    BY <1>1, <1>2, <1>3
  <2>5. /\ h.key = PoolInfo.key
        /\ h.clevis = IF PoolInfo.clevis = NoClevis THEN NoClevis ELSE tang
    BY DEF Initialized
  <2> HIDE DEF h
  <2>6. ASSUME Clean
        PROVE  /\ l \/ Exact'
               /\ \A e, f \in Range(order') : Ways(disk'[e], l) = Ways(disk'[f], l)
    <3>1. (l \/ Exact) /\ \A e, f \in Range(order) : Ways(disk[e], l) = Ways(disk[f], l)
      BY <1>1, <1>l, <2>6 DEF CInv
    <3>2. /\ l \/ mem[order[1]].clevis \in {0, disk[order[1]].clevis}
          /\ mem[order[1]].key = disk[order[1]].key
          /\ mem[order[1]].clevis = NoClevis <=> disk[order[1]].clevis = NoClevis
      BY <1>1, <1>2, <2>6, <3>1, Zenon DEF Exact, Clean, IInv, CacheIsDisk
    <3>3. Same(h.clevis, disk[order[1]].clevis, l) /\ h.key = disk[order[1]].key
      BY <1>2, <1>3, <2>5, <3>2, Zenon DEF PoolInfo, Binds, Same
    <3>4. Ways(h, l) = Ways(disk[order[1]], l)
      BY <3>3, WaysFields
    <3>5. \A e \in Range(order') : Ways(disk'[e], l) = Ways(h, l)
      BY <1>2, <2>2, <2>4, <3>1, <3>4, Zenon
    <3>6. Read(h).clevis = h.clevis
      BY DEF Read
    <3>7. l \/ \A e \in Range(order') : mem'[e].clevis \in {0, disk'[e].clevis}
      BY <1>1, <2>2, <2>4, <3>1, <3>6, Zenon DEF Exact
    <3> QED
      BY <1>1, <3>5, <3>7 DEF Exact
  <2> QED
    BY <1>1, <1>m, <2>3, <2>6 DEF CInv, Clean
<1>4. ASSUME NEW x, disk' = [disk EXCEPT ![d] = x], UNCHANGED <<order, mem>>
      PROVE  CInv'
  <2>1. \A e \in Range(order) : disk'[e] = disk[e]
    BY <1>1, <1>2, <1>4
  <2>2. Distinct' /\ (Clean' => Clean)
    BY <1>1, <1>4 DEF CInv, Distinct, Clean
  <2>3. Exact => Exact'
    BY <1>1, <1>4, <2>1, Zenon DEF Exact
  <2>4. ASSUME Clean, NEW e \in Range(order'), NEW f \in Range(order')
        PROVE  Ways(disk'[e], l) = Ways(disk'[f], l)
    <3>1. Ways(disk[e], l) = Ways(disk[f], l) /\ disk'[e] = disk[e] /\ disk'[f] = disk[f]
      BY <1>1, <1>l, <1>4, <2>1, <2>4 DEF CInv
    <3> QED
      BY <3>1
  <2>5. Clean /\ ~l => Exact
    BY <1>l DEF CInv
  <2> QED
    BY <1>1, <1>m, <2>2, <2>3, <2>4, <2>5 DEF CInv
<1> QED
  BY <1>3, <1>4, Zenon DEF Add

(* The lists of a set have no element twice.                               *)
LEMMA ListsDistinct ==
    ASSUME NEW S \in SUBSET Devs, S # {}, NEW s \in Orders(S)
    PROVE  \A i, j \in 1 .. Len(s) : s[i] = s[j] => i = j
<1>2. Cardinality(S) \in Nat
  BY EncryptionAssumption
<1>3. /\ s \in [1 .. Cardinality(S) -> S]
      /\ \A i, j \in 1 .. Cardinality(S) : i # j => s[i] # s[j]
  BY DEF Orders, Bijection, Injection, IsInjective
<1>4. Len(s) = Cardinality(S)
  BY <1>2, <1>3
<1> QED
  BY <1>3, <1>4

(* The pool is set up again: the handles read what the headers say.        *)
LEMMA SetupClean ==
    ASSUME IInv, CInv, Setup
    PROVE  CInv'
<1>1. /\ ~up /\ up' = TRUE /\ Members = Range(order)
      /\ mem' = [d \in Devs |-> Read(disk[d])]
      /\ UNCHANGED <<order, disk, keyring, tang, job, torn, apart, rotated, stale, commands>>
  BY DEF Setup
<1>2. job = Idle /\ order \in Seq(Devs) /\ order # <<>>
  BY <1>1 DEF IInv, TypeOK
<1>3. Members \in SUBSET Devs
  BY DEF Members
<1>4. Range(order') \subseteq Members
  BY <1>1
<1>5. Distinct'
  BY <1>1 DEF CInv, Distinct
<1>6. Exact'
  <2>1. \A d \in Range(order') : mem'[d].clevis = disk[d].clevis
    BY <1>1, <1>3, <1>4 DEF Read
  <2> QED
    BY <1>1, <2>1 DEF Exact
<1>7. Clean => \A d, e \in Range(order') : Ways(disk[d], Loose) = Ways(disk[e], Loose)
  BY <1>1, <1>2, <1>4, Zenon DEF CInv
<1>8. Loose' = Loose /\ Clean' = Clean
  BY <1>1 DEF Loose, Clean
<1> QED
  BY <1>1, <1>2, <1>5, <1>6, <1>7, <1>8 DEF CInv

(* The keyring changes, or the daemon dies; a command that is running then *)
(* is not in a clean history any more.                                     *)
LEMMA OtherClean ==
    ASSUME IInv, CInv, (\E k \in Keys, p \in Passes \cup {NoPass} : KeySet(k, p)) \/ Crash
    PROVE  CInv'
<1>1. /\ UNCHANGED <<order, mem, disk, torn, rotated, stale>> /\ (up' => up)
      /\ apart => apart'
      /\ ~apart' => job = Idle /\ job' = Idle
  <2>1. apart \in BOOLEAN
    BY DEF IInv, TypeOK
  <2>2. ASSUME NEW k \in Keys, NEW p \in Passes \cup {NoPass}, KeySet(k, p)
        PROVE  <1>1!:
    BY <2>1, <2>2 DEF KeySet, Ready
  <2>3. CASE Crash
    BY <2>1, <2>3, Zenon DEF Crash
  <2> QED
    BY <2>2, <2>3
<1>2. Loose' = Loose /\ (Clean' => Clean) /\ (Exact => Exact')
  BY <1>1 DEF Loose, Clean, Exact
<1>3. Clean' => job = Idle /\ job' = Idle
  BY <1>1 DEF Clean
<1> QED
  BY <1>1, <1>2, <1>3 DEF CInv, Distinct

(* The Tang server gets a new key.  If a command is running, then what it  *)
(* makes of the devices that are still to come has another thumbprint, and *)
(* thumbprints do not count any more.                                      *)
LEMMA RotateClean ==
    ASSUME IInv, CInv, Rotate
    PROVE  CInv'
<1>1. /\ UNCHANGED <<order, mem, disk, job, torn, apart, stale, up>>
      /\ rotated' = (rotated \/ job # Idle)
  BY DEF Rotate
<1>2. Distinct' /\ Clean' = Clean /\ Exact' = Exact
  BY <1>1 DEF CInv, Distinct, Clean, Exact
<1>3. CASE job = Idle
  <2>1. Loose' = Loose
    BY <1>1, <1>3 DEF Loose, IInv, TypeOK
  <2> QED
    BY <1>1, <1>2, <1>3, <2>1 DEF CInv
<1>4. CASE job # Idle
  <2>1. Loose' = TRUE
    BY <1>1, <1>4 DEF Loose
  <2>2. PICK l \in BOOLEAN : l = Loose
    BY DEF Loose
  <2>3. ASSUME Clean PROVE Began(job, TRUE)' /\ Halfway(job, TRUE)'
    <3>1. Began(job, l) /\ Halfway(job, l)
      BY <1>4, <2>2, <2>3 DEF CInv
    <3>2. Began(job, TRUE)'
      BY <1>1, <3>1, WaysLoosen DEF Began
    <3>3. Ways(Target(job), TRUE) = Ways(Target(job)', TRUE)
      <4>1. (Target(job)').key = Target(job).key
        BY <1>1 DEF Target
      <4>2. Same(Target(job).clevis, (Target(job)').clevis, TRUE)
        <5>1. tang # NoClevis /\ tang' # NoClevis
          BY OtherStep, EncryptionAssumption DEF IInv, TypeOK, Thumbprints
        <5> QED
          BY <1>1, <5>1 DEF Target, Same
      <4> QED
        BY <4>1, <4>2, WaysFields
    <3>4. ASSUME NEW i \in 1 .. Len(order)
          PROVE  Ways(disk[order[i]], TRUE) =
                   IF Changes(job, i) THEN Ways(Target(job)', TRUE)
                   ELSE Ways(job.backup[order[i]], TRUE)
      <4>1. Ways(disk[order[i]], l) =
              IF Changes(job, i) THEN Ways(Target(job), l) ELSE Ways(job.backup[order[i]], l)
        BY <3>1 DEF Halfway
      <4>2. CASE Changes(job, i)
        BY <3>3, <4>1, <4>2, WaysLoosen
      <4>3. CASE ~Changes(job, i)
        BY <4>1, <4>3, WaysLoosen
      <4> QED
        BY <4>2, <4>3
    <3>5. Halfway(job, TRUE)'
      BY <1>1, <3>1, <3>4 DEF Halfway, Changes
    <3> QED
      BY <3>2, <3>5
  <2> QED
    BY <1>1, <1>2, <1>4, <2>1, <2>3 DEF CInv
<1> QED
  BY <1>3, <1>4

LEMMA CleanInit == Init => CInv
<1> SUFFICES ASSUME Init PROVE CInv
  OBVIOUS
<1>1. PICK S \in (SUBSET Devs) \ {{}}, i \in Info :
         /\ order \in Orders(S)
         /\ disk = [d \in Devs |-> IF d \in S THEN Initialized(i) ELSE Blank]
  BY DEF Init
<1>2. job = Idle /\ mem = [d \in Devs |-> Read(disk[d])]
  BY DEF Init
<1>3. Range(order) \subseteq S
  BY <1>1, Lists
<1>4. Distinct
  BY <1>1, ListsDistinct DEF Distinct
<1>5. \A d \in Range(order) : disk[d] = Initialized(i) /\ mem[d].clevis = disk[d].clevis
  <2> TAKE d \in Range(order)
  <2>1. d \in Devs /\ d \in S
    BY <1>1, <1>3
  <2>2. disk[d] = Initialized(i) /\ mem[d] = Read(disk[d])
    BY <1>1, <1>2, <2>1
  <2> QED
    BY <2>2 DEF Read
<1> QED
  BY <1>2, <1>4, <1>5 DEF CInv, Exact

LEMMA CleanStep == IInv /\ CInv /\ [Next]_vars => CInv'
<1> SUFFICES ASSUME IInv, CInv, [Next]_vars PROVE CInv'
  OBVIOUS
<1>0. 0 \in Configs /\ NoKey \in Keys \cup {NoKey}
  BY EncryptionAssumption DEF Configs
<1>1. ASSUME NEW thp \in Configs, NEW trust \in BOOLEAN, BindClevis(thp, trust) PROVE CInv'
  BY <1>0, <1>1, BeginClean DEF BindClevis, Ops
<1>2. CASE UnbindClevis \/ RebindClevis \/ UnbindKeyring
  BY <1>0, <1>2, BeginClean, Zenon DEF UnbindClevis, RebindClevis, UnbindKeyring, Ops
<1>3. ASSUME NEW k \in Keys, BindKeyring(k) \/ RebindKeyring(k) PROVE CInv'
  BY <1>0, <1>3, BeginClean, Zenon DEF BindKeyring, RebindKeyring, Ops
<1>4. CASE OperationDone \/ OperationFails \/ RollbackDone \/ RollbackFails
  BY <1>4, LoopClean
<1>5. ASSUME NEW d \in Devs, Add(d) PROVE CInv'
  BY <1>5, AddClean
<1>6. CASE (\E k \in Keys, p \in Passes \cup {NoPass} : KeySet(k, p)) \/ Crash
  BY <1>6, OtherClean
<1>9. CASE Rotate
  BY <1>9, RotateClean
<1>7. CASE Setup
  BY <1>7, SetupClean, Zenon
<1>8. CASE UNCHANGED vars
  <2>1. UNCHANGED <<order, mem, disk, tang, job, torn, apart, rotated, stale, up>>
    BY <1>8 DEF vars
  <2>2. PICK l \in BOOLEAN : l = Loose
    BY DEF Loose
  <2>3. Loose' = l
    BY <2>1, <2>2 DEF Loose
  <2>4. Began(job, l) => Began(job, l)'
    BY <2>1 DEF Began
  <2>5. Target(job)' = Target(job)
    BY <2>1 DEF Target, Read
  <2>6. Halfway(job, l) => Halfway(job, l)'
    BY <2>1, <2>5, Zenon DEF Halfway, Changes
  <2>7. Distinct' = Distinct /\ Clean' = Clean /\ Exact' = Exact
    BY <2>1 DEF Distinct, Clean, Exact
  <2> QED
    BY <2>1, <2>2, <2>3, <2>4, <2>6, <2>7 DEF CInv
<1> QED
  BY <1>1, <1>2, <1>3, <1>4, <1>5, <1>6, <1>7, <1>8, <1>9 DEF Next

LEMMA CleanInvariance == Spec => [](IInv /\ CInv)
<1>1. IInv /\ CInv /\ [Next]_vars => (IInv /\ CInv)'
  BY EncryptionStep, CleanStep
<1>2. Init => IInv /\ CInv
  BY EncryptionInit, CleanInit
<1> QED
  BY <1>1, <1>2, PTL DEF Spec

(* Between commands the devices of a pool are bound in the same ways, for  *)
(* any number of devices and whatever calls fail, unless a rollback        *)
(* failed, a call failed partway on a device, or the daemon died in a      *)
(* command; and with the same thumbprints unless the Tang server got a new *)
(* key during a command or a rebind_clevis was rolled back.                *)
THEOREM DevicesStayAlike == Spec => []DevicesAlike
<1>1. CInv => DevicesAlike
  BY DEF CInv, Clean, DevicesAlike
<1> QED
  BY <1>1, CleanInvariance, PTL

(* operation_loop and rollback_loop together: a command ends with all      *)
(* devices bound as it is to bind them or with all as they were, with the  *)
(* same exceptions.                                                        *)
THEOREM CommandsAreAtomic == Spec => AllOrNothing
<1> DEFINE A == job # Idle /\ job' = Idle /\ up' /\ ~apart' /\ torn' = {} =>
                  \/ \A d \in Range(order) : Ways(disk'[d], Loose) = Ways(job.backup[d], Loose)
                  \/ \A d \in Range(order) : Ways(disk'[d], Loose) = Ways(Target(job), Loose)
<1>1. IInv /\ CInv /\ [Next]_vars => [A]_vars
  <2> SUFFICES ASSUME IInv, CInv, Next, job # Idle, job' = Idle, up', ~apart', torn' = {}
               PROVE  \/ \A d \in Range(order) : Ways(disk'[d], Loose) = Ways(job.backup[d], Loose)
                      \/ \A d \in Range(order) : Ways(disk'[d], Loose) = Ways(Target(job), Loose)
    OBVIOUS
  <2>1. OperationDone \/ OperationFails \/ RollbackDone \/ RollbackFails
    <3>1. \A op, k, thp, trust : ~Begin(op, k, thp, trust)
      BY Zenon DEF Begin, Ready
    <3>2. up
      BY DEF IInv
    <3>3. ~Rotate /\ ~Crash /\ ~Setup
      BY <3>2 DEF Rotate, Crash, Setup
    <3>4. \A d : ~Add(d)
      BY Zenon DEF Add, Ready
    <3>5. \A k, p : ~KeySet(k, p)
      BY Zenon DEF KeySet, Ready
    <3> QED
      BY <3>1, <3>3, <3>4, <3>5, Zenon
         DEF Next, BindClevis, UnbindClevis, RebindClevis, UnbindKeyring, BindKeyring, RebindKeyring
  <2>2. Clean
    <3>1. ~apart
      BY <2>1 DEF OperationDone, OperationFails, RollbackDone, RollbackFails
    <3>2. \E o : Applied(order[job.at], o)
      BY <2>1 DEF OperationDone, OperationFails, RollbackDone, RollbackFails
    <3>3. torn \subseteq torn'
      BY <3>2 DEF Applied
    <3> QED
      BY <3>1, <3>3 DEF Clean
  <2>3. PICK l \in BOOLEAN : l = Loose
    BY DEF Loose
  <2>4. \/ \A d \in Range(order) : Ways(disk'[d], l) = Ways(job.backup[d], l)
        \/ \A d \in Range(order) : Ways(disk'[d], l) = Ways(Target(job), l)
    BY <2>1, <2>2, <2>3, LoopReads, Zenon
  <2> QED
    BY <2>3, <2>4
<1> QED
  BY <1>1, CleanInvariance, PTL DEF Spec, AllOrNothing
============================================================================
