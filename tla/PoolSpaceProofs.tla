--------------------------- MODULE PoolSpaceProofs ---------------------------
(***************************************************************************)
(* Proofs about PoolSpace: for devices of any size and number, any block   *)
(* sizes and any failures.                                                 *)
(***************************************************************************)
EXTENDS PoolSpace, FiniteSetTheorems, TLAPS

(* The time a leaf may take: long modules slow the prover down.            *)
USE SMTT(20), ZenonT(20)

----------------------------------------------------------------------------
(* PoolSpace: arithmetic.                                                  *)

(* Rounding down to a multiple gives a natural number that is not larger.  *)
LEMMA FloorBound ==
    ASSUME NEW n \in Nat, NEW m \in Nat \ {0}
    PROVE  Floor(n, m) \in 0 .. n
<1> DEFINE q == n \div m
<1>1. q \in Nat /\ m * q <= n
  BY SMT
<1>2. q * m = m * q
  BY <1>1, SMT
<1> QED
  BY <1>1, <1>2 DEF Floor

(* The usable space of the devices is a number of sectors within bounds.   *)
LEMMA UsableBound ==
    ASSUME devs \in 0 .. MaxDevs
    PROVE  /\ Usable \in Nat /\ DevSize * MaxDevs \in Nat /\ Usable <= DevSize * MaxDevs
           /\ DevSize * (devs + 1) = Usable + DevSize
<1>1. DevSize \in Nat /\ MaxDevs \in Nat /\ devs \in Nat /\ MaxDevs - devs \in Nat
  BY PoolSpaceAssumption
<1>2. DevSize * devs \in Nat /\ DevSize * MaxDevs \in Nat /\ DevSize * (MaxDevs - devs) \in Nat
  BY <1>1, SMT
<1>3. DevSize * MaxDevs = DevSize * devs + DevSize * (MaxDevs - devs)
  BY <1>1, SMT
<1>4. DevSize * (devs + 1) = DevSize * devs + DevSize
  BY <1>1, SMT
<1> QED
  BY <1>1, <1>2, <1>3, <1>4 DEF Usable

(* An interval has as many sectors as its length.                          *)
LEMMA RegionSize ==
    ASSUME NEW n \in Nat, NEW k \in Nat
    PROVE  IsFiniteSet(n .. n + k - 1) /\ Size(n .. n + k - 1) = k
<1>1. IsFiniteSet(n .. n + k - 1) /\ Cardinality(n .. n + k - 1) = IF n > n + k - 1 THEN 0 ELSE (n + k - 1) - n + 1
  BY FS_Interval
<1> QED
  BY <1>1 DEF Size

(* A set of sectors below n is finite and has at most n members.           *)
LEMMA BelowSize ==
    ASSUME NEW n \in Nat, NEW S \in SUBSET (0 .. n - 1)
    PROVE  IsFiniteSet(S) /\ Size(S) \in 0 .. n
<1>1. IsFiniteSet(0 .. n - 1) /\ Cardinality(0 .. n - 1) = n
  BY RegionSize, 0 + n - 1 = n - 1, 0 \in Nat DEF Size
<1>2. IsFiniteSet(S) /\ Cardinality(S) <= Cardinality(0 .. n - 1)
  BY <1>1, FS_Subset, Zenon
<1>3. Cardinality(S) \in Nat
  BY <1>2, FS_CardinalityType
<1> QED
  BY <1>1, <1>2, <1>3 DEF Size

(* Four disjoint sets that make up the sectors below n have n together.    *)
LEMMA FourParts ==
    ASSUME NEW n \in Nat, NEW A, NEW B, NEW C, NEW D,
           A \cup B \cup C \cup D = 0 .. n - 1,
           A \cap B = {}, A \cap C = {}, A \cap D = {}, B \cap C = {}, B \cap D = {}, C \cap D = {}
    PROVE  Size(A) + Size(B) + Size(C) + Size(D) = n
<1>1. IsFiniteSet(A) /\ IsFiniteSet(B) /\ IsFiniteSet(C) /\ IsFiniteSet(D)
  <2>1. A \in SUBSET (0 .. n - 1) /\ B \in SUBSET (0 .. n - 1)
        /\ C \in SUBSET (0 .. n - 1) /\ D \in SUBSET (0 .. n - 1)
    OBVIOUS
  <2> QED
    BY <2>1, BelowSize
<1>2. /\ Cardinality(A) \in Nat /\ Cardinality(B) \in Nat
      /\ Cardinality(C) \in Nat /\ Cardinality(D) \in Nat /\ Cardinality({}) = 0
  BY <1>1, FS_CardinalityType, FS_EmptySet
<1>3. IsFiniteSet(A \cup B) /\ Cardinality(A \cup B) = Cardinality(A) + Cardinality(B)
  <2>1. (A) \cap (B) = {}
    OBVIOUS
  <2>2. Cardinality((A) \cap (B)) = 0
    BY <2>1, <1>2
  <2>3. IsFiniteSet(A \cup B)
        /\ Cardinality(A \cup B) = Cardinality(A) + Cardinality(B) - Cardinality((A) \cap (B))
    BY <1>1, FS_Union
  <2> QED
    BY <2>2, <2>3, <1>2
<1>4. IsFiniteSet(C \cup D) /\ Cardinality(C \cup D) = Cardinality(C) + Cardinality(D)
  <2>1. (C) \cap (D) = {}
    OBVIOUS
  <2>2. Cardinality((C) \cap (D)) = 0
    BY <2>1, <1>2
  <2>3. IsFiniteSet(C \cup D)
        /\ Cardinality(C \cup D) = Cardinality(C) + Cardinality(D) - Cardinality((C) \cap (D))
    BY <1>1, FS_Union, Zenon
  <2> QED
    BY <2>2, <2>3, <1>2
<1>5. (A \cup B) \cap (C \cup D) = {}
  OBVIOUS
<1>6. Cardinality((A \cup B) \cup (C \cup D)) = Cardinality(A \cup B) + Cardinality(C \cup D)
  <2>1. Cardinality((A \cup B) \cap (C \cup D)) = 0
    BY <1>5, <1>2
  <2>2. Cardinality((A \cup B) \cup (C \cup D))
          = Cardinality(A \cup B) + Cardinality(C \cup D) - Cardinality((A \cup B) \cap (C \cup D))
    BY <1>3, <1>4, FS_Union
  <2> QED
    BY <2>1, <2>2, <1>2, <1>3, <1>4
<1>7. (A \cup B) \cup (C \cup D) = 0 .. n - 1
  OBVIOUS
<1>8. Cardinality(0 .. n - 1) = n
  BY RegionSize, 0 + n - 1 = n - 1, 0 \in Nat DEF Size
<1>9. Cardinality((A \cup B) \cup (C \cup D)) = n
  BY <1>7, <1>8, Zenon
<1> HIDE <1>7
<1>10. Cardinality(A) + Cardinality(B) + Cardinality(C) + Cardinality(D) = n
  BY <1>2, <1>3, <1>4, <1>6, <1>9
<1> QED
  BY <1>10 DEF Size

----------------------------------------------------------------------------
(* What Backstore::request grants lies in the cap device, as far as that   *)
(* has grown, and above everything that was given out before.              *)
LEMMA RequestGrants ==
    ASSUME NEW amount \in Nat, NEW m \in Nat \ {0}, NEW g \in Request(amount, m),
           Usable \in Nat, segs \in Nat, next \in Nat, cap.size \in Nat,
           next <= cap.size, cap.size <= segs, segs <= Usable
    PROVE  /\ g.size \in Nat /\ g.segs \in Nat /\ g.amt \in Nat
           /\ next + g.amt <= g.size /\ g.size <= g.segs /\ g.segs <= Usable
           /\ cap.size <= g.size /\ segs <= g.segs
<1> DEFINE r == Floor(amount, m)
           avail == cap.size - next
<1>1. r \in 0 .. amount
  BY FloorBound
<1>2. avail \in Nat
  OBVIOUS
<1>3. CASE avail >= r
  <2>1. g = [size |-> cap.size, segs |-> segs, amt |-> r]
    BY <1>3 DEF Request
  <2> QED
    BY <2>1, <1>1, <1>2, <1>3
<1>4. CASE ~(avail >= r)
  <2>1. PICK q \in FirstThatFits(r, m) : g = Grant(segs + q - avail, amount, m)
    BY <1>4 DEF Request
  <2>2. q \in 1 .. r /\ Fits(q)
    <3>1. r # 0
      BY <1>1, <1>2, <1>4
    <3> QED
      BY <2>1, <3>1, <1>1 DEF FirstThatFits, HalfThatFits
  <2> DEFINE s == segs + q - avail
  <2>3. s \in Nat /\ s >= segs /\ s <= Usable /\ s - next \in Nat
    BY <2>2, <1>1, <1>2 DEF Fits
  <2>4. Least(amount, s - next) \in 0 .. s - next
    BY <2>3 DEF Least
  <2>5. Floor(Least(amount, s - next), m) \in 0 .. Least(amount, s - next)
    BY <2>4, FloorBound
  <2> HIDE DEF s
  <2>6. g = Grant(s, amount, m)
    BY <2>1 DEF s
  <2>7. g.size = s /\ g.segs = s /\ g.amt = Floor(Least(amount, s - next), m)
    BY <2>6 DEF Grant
  <2> QED
    BY <2>3, <2>4, <2>5, <2>7
<1> QED
  BY <1>3, <1>4

----------------------------------------------------------------------------
(* The inductive invariant.  SpaceDisjoint alone says nothing of what is   *)
(* on disk, from which the pool is set up again; so both accounts, the one *)
(* in memory and the one on disk, are sound.  An account that no device    *)
(* has refused to carry out is moreover whole: every sector below next     *)
(* belongs to one of the devices.                                          *)
Up == pc \in Running \cup {"panic"}
Kinds == {"none", "linear", "cache"}

Sound(s, n, f) ==
    /\ s \in Nat /\ n \in Nat /\ n <= s /\ s <= Usable
    /\ f \in [Flex -> SUBSET (0 .. n - 1)] /\ Disjoint(f)
Whole(n, f) == \A k \in 0 .. n - 1 : \E d \in Flex : k \in f[d]

MemoryInv ==
    /\ Sound(segs, next, flex)
    /\ cap \in [kind : Kinds, size : Nat] /\ cap.size <= segs
    /\ cap.kind # "none" => next <= cap.size
    /\ dev \in Kinds
    /\ "table" \notin met => Whole(next, flex)

SavedInv ==
    saved # NoSave =>
        /\ saved \in Account
        /\ Sound(saved.segs, saved.next, saved.flex) /\ saved.next > 0
        /\ "table" \notin met => Whole(saved.next, saved.flex)

ThinInv ==
    /\ thin \in [data : Nat, meta : SUBSET Sectors]
    /\ thin.data <= Usable
    /\ Up => thin.data <= next

StepInv ==
    /\ Up => next > 0 /\ dev # "none"
    /\ pc = "data" => cap.kind # "none"
    /\ pc = "new" => /\ devs = 1 /\ saved = NoSave /\ met = {} /\ thin = [data |-> 0, meta |-> {}]
                     /\ segs = 0 /\ next = 0 /\ flex = NoFlex /\ cap = NoCap

PlainTypes ==
    /\ devs \in 0 .. MaxDevs /\ caches \in 0 .. MaxCache
    /\ pc \in Running \cup {"new", "down", "gone", "panic"}
    /\ why \in {"create", "setup", "event", "add", "info", "cache"}
    /\ changed \in BOOLEAN /\ dirty \in BOOLEAN
    /\ met \subseteq Faults \cap {"cap", "table", "water", "cache", "save"}

IInv == PlainTypes /\ MemoryInv /\ SavedInv /\ ThinInv /\ StepInv /\ NeverReassigned

(* The body of NeverReassigned.                                            *)
Kept ==
    saved # NoSave =>
        /\ saved.flex["data"] \subseteq flex["data"]
        /\ saved.flex["mdv"] \subseteq flex["mdv"]
        /\ saved.flex["meta"] \cup saved.flex["spare"] \subseteq flex["meta"] \cup flex["spare"]
        /\ saved.next <= next /\ saved.segs <= segs

(* What the other lemmas need to know of a grant.                          *)
GrantOK(g) ==
    /\ g.size \in Nat /\ g.segs \in Nat /\ g.amt \in Nat
    /\ next + g.amt <= g.size /\ g.size <= g.segs /\ g.segs <= Usable
    /\ cap.size <= g.size /\ segs <= g.segs

(* A set of sectors below n is a set of sectors of the devices.            *)
LEMMA BelowSectors ==
    ASSUME devs \in 0 .. MaxDevs, NEW n \in Nat, n <= Usable
    PROVE  0 .. n - 1 \subseteq Sectors
BY UsableBound DEF Sectors

(* The kernel is given the sectors of a grant.                             *)
LEMMA GivenThin ==
    ASSUME PlainTypes, ThinInv, next \in Nat, NEW d \in {"meta", "data"}, NEW k \in Nat,
           thin.data <= next, next + k <= Usable
    PROVE  /\ Given(d, next .. next + k - 1) \in [data : Nat, meta : SUBSET Sectors]
           /\ Given(d, next .. next + k - 1).data <= next + k
<1>1. Size(next .. next + k - 1) = k
  BY RegionSize
<1>2. next .. next + k - 1 \subseteq Sectors
  <2>1. 0 .. (next + k) - 1 \subseteq Sectors
    BY BelowSectors, next + k \in Nat DEF PlainTypes
  <2> QED
    BY <2>1
<1>3. thin.data \in Nat /\ thin.meta \in SUBSET Sectors
      /\ thin = [data |-> thin.data, meta |-> thin.meta]
  BY DEF ThinInv
<1>4. CASE d = "data"
  <2>1. Given(d, next .. next + k - 1) = [thin EXCEPT !.data = thin.data + k]
    BY <1>1, <1>4 DEF Given
  <2> QED
    BY <2>1, <1>3
<1>5. CASE d = "meta"
  <2>1. Given(d, next .. next + k - 1) = [thin EXCEPT !.meta = thin.meta \cup next .. next + k - 1]
    BY <1>5 DEF Given
  <2> QED
    BY <2>1, <1>2, <1>3
<1> QED
  BY <1>4, <1>5

(* Appending the next sectors to a device keeps an account sound and, if   *)
(* it was, whole.                                                          *)
LEMMA AppendSound ==
    ASSUME NEW s, NEW n, NEW f, NEW t \in Nat, NEW k \in Nat, NEW d \in Flex,
           Usable \in Nat, Sound(s, n, f), n + k <= t, t <= Usable
    PROVE  LET f2 == [f EXCEPT ![d] = @ \cup n .. n + k - 1]
           IN  /\ Sound(t, n + k, f2)
               /\ Whole(n, f) => Whole(n + k, f2)
               /\ \A e \in Flex : f[e] \subseteq f2[e]
<1> DEFINE f2 == [f EXCEPT ![d] = f[d] \cup n .. n + k - 1]
<1>1. n \in Nat /\ f \in [Flex -> SUBSET (0 .. n - 1)] /\ Disjoint(f)
  BY DEF Sound
<1>2. \A e \in Flex : f2[e] = IF e = d THEN f[e] \cup n .. n + k - 1 ELSE f[e]
  BY <1>1, Zenon
<1>3. f2 \in [Flex -> SUBSET (0 .. (n + k) - 1)]
  BY <1>1
<1>4. ASSUME NEW x \in Flex, NEW y \in Flex, x # y
      PROVE  f2[x] \cap f2[y] = {}
  <2>1. f[x] \cap f[y] = {} /\ f[x] \subseteq 0 .. n - 1 /\ f[y] \subseteq 0 .. n - 1
    BY <1>1, <1>4 DEF Disjoint
  <2>2. (n .. n + k - 1) \cap (0 .. n - 1) = {}
    BY <1>1
  <2> QED
    BY <2>1, <2>2, <1>2, <1>4
<1>5. ASSUME Whole(n, f), NEW x \in 0 .. (n + k) - 1
      PROVE  \E e \in Flex : x \in f2[e]
  <2>1. CASE x \in 0 .. n - 1
    BY <2>1, <1>5, <1>2 DEF Whole
  <2>2. CASE x \in n .. n + k - 1
    BY <2>2, <1>2
  <2> QED
    BY <2>1, <2>2, <1>1
<1>6. Sound(t, n + k, f2)
  <2>1. Disjoint(f2)
    BY <1>4 DEF Disjoint
  <2> QED
    BY <2>1, <1>3, <1>1 DEF Sound
<1> QED
  BY <1>2, <1>5, <1>6 DEF Whole

(* The disk is left alone, and no failure is forgotten.                    *)
LEMMA SavedStays ==
    ASSUME SavedInv, UNCHANGED <<devs, saved>>, met \subseteq met'
    PROVE  SavedInv'
<1>1. Usable' = Usable
  BY DEF Usable
<1> QED
  BY <1>1 DEF SavedInv, Sound, Disjoint, Whole, Account

(* Extending a device, or failing to: the accounts stay sound.             *)
ExtendInv ==
    /\ MemoryInv /\ Kept
    /\ thin \in [data : Nat, meta : SUBSET Sectors] /\ thin.data <= next
    /\ next > 0 /\ dev # "none" /\ cap.kind # "none"

LEMMA ExtendKeeps ==
    ASSUME PlainTypes, SavedInv, ThinInv, ExtendInv, UNCHANGED <<devs, saved>>,
           NEW d \in {"meta", "data"}, NEW grants, \A g \in grants : GrantOK(g),
           Extend(d, grants)
    PROVE  ExtendInv' /\ met \subseteq met' /\ met' \subseteq met \cup (Faults \cap {"cap", "table"})
           /\ changed' \in BOOLEAN
<1>1. Usable' = Usable /\ Usable \in Nat /\ d \in Flex
  BY UsableBound DEF Usable, PlainTypes, Flex
<1>2. next \in Nat /\ segs \in Nat /\ next <= cap.size /\ cap.size \in Nat /\ Sound(segs, next, flex)
  BY DEF ExtendInv, MemoryInv, Sound
<1>3. cap = [kind |-> cap.kind, size |-> cap.size] /\ cap.kind \in Kinds
  BY DEF ExtendInv, MemoryInv
<1>4. ASSUME NEW g \in grants, Extended(d, g), UNCHANGED dev
      PROVE  ExtendInv' /\ met' = met /\ changed' = TRUE
  <2>1. GrantOK(g)
    OBVIOUS
  <2>2. next + g.amt <= g.segs /\ g.segs <= Usable /\ g.amt \in Nat /\ g.segs \in Nat /\ g.size \in Nat
    BY <2>1, <1>2 DEF GrantOK
  <2> DEFINE f2 == [flex EXCEPT ![d] = @ \cup next .. next + g.amt - 1]
  <2>3. Sound(g.segs, next + g.amt, f2) /\ (Whole(next, flex) => Whole(next + g.amt, f2))
        /\ \A e \in Flex : flex[e] \subseteq f2[e]
    BY <2>2, <1>1, <1>2, AppendSound, Zenon
  <2>4. segs' = g.segs /\ next' = next + g.amt /\ flex' = f2 /\ met' = met /\ changed' = TRUE
        /\ cap' = [kind |-> cap.kind, size |-> g.size]
        /\ thin' = Given(d, next .. next + g.amt - 1)
    BY <1>4, <1>3 DEF Extended
  <2> HIDE DEF f2
  <2>5. Sound(segs, next, flex)'
    BY <2>3, <2>4, <1>1 DEF Sound, Disjoint
  <2>6. MemoryInv'
    <3>1. cap' \in [kind : Kinds, size : Nat] /\ cap'.size <= segs' /\ next' <= cap'.size
      BY <2>1, <2>2, <2>4, <1>3 DEF GrantOK
    <3>2. "table" \notin met' => Whole(next, flex)'
      BY <2>3, <2>4 DEF ExtendInv, MemoryInv, Whole
    <3>3. dev' \in Kinds
      BY <1>4 DEF ExtendInv, MemoryInv
    <3> QED
      BY <2>5, <3>1, <3>2, <3>3 DEF MemoryInv
  <2>7. Kept'
    <3>1. flex["data"] \subseteq flex'["data"] /\ flex["mdv"] \subseteq flex'["mdv"]
          /\ flex["meta"] \subseteq flex'["meta"] /\ flex["spare"] \subseteq flex'["spare"]
      BY <2>3, <2>4 DEF Flex
    <3>2. next <= next' /\ segs <= segs'
      BY <2>1, <2>2, <2>4, <1>2 DEF GrantOK
    <3> SUFFICES ASSUME saved' # NoSave
                 PROVE  /\ saved.flex["data"] \subseteq flex'["data"]
                        /\ saved.flex["mdv"] \subseteq flex'["mdv"]
                        /\ saved.flex["meta"] \cup saved.flex["spare"] \subseteq flex'["meta"] \cup flex'["spare"]
                        /\ saved.next <= next' /\ saved.segs <= segs'
      BY DEF Kept
    <3>3. Kept /\ saved # NoSave
      BY DEF ExtendInv
    <3>4. saved.next \in Nat /\ saved.segs \in Nat /\ next' \in Nat /\ segs' \in Nat
      BY <3>3, <2>2, <2>4, <1>2 DEF SavedInv, Sound
    <3>5. saved.next <= next' /\ saved.segs <= segs'
      BY <3>2, <3>3, <3>4, <1>2 DEF Kept
    <3> QED
      BY <3>1, <3>3, <3>5 DEF Kept
  <2>8. thin' \in [data : Nat, meta : SUBSET Sectors] /\ thin'.data <= next'
    <3>1. thin.data <= next /\ next + g.amt <= Usable /\ next \in Nat /\ g.amt \in Nat
      BY <2>2, <1>1, <1>2 DEF ExtendInv
    <3> QED
      BY <3>1, <2>4, GivenThin, Zenon
  <2> QED
    BY <2>2, <2>4, <2>6, <2>7, <2>8, <1>2, <1>4 DEF ExtendInv
<1>5. ASSUME NEW g \in grants, CapFails(g), UNCHANGED dev
      PROVE  ExtendInv' /\ met' = met \cup {"cap"} /\ "cap" \in Faults /\ changed' = changed
  <2>1. GrantOK(g)
    OBVIOUS
  <2>2. segs' = g.segs /\ next' = next /\ flex' = flex /\ thin' = thin /\ changed' = changed
        /\ met' = met \cup {"cap"} /\ "cap" \in Faults
    BY <1>5 DEF CapFails
  <2>3. cap' = cap \/ cap' = [kind |-> cap.kind, size |-> g.size]
    BY <1>5, <1>3 DEF CapFails
  <2>4. cap' \in [kind : Kinds, size : Nat] /\ cap'.size <= segs' /\ next' <= cap'.size
        /\ cap'.kind = cap.kind
    BY <2>1, <2>2, <2>3, <1>2, <1>3 DEF GrantOK, ExtendInv, MemoryInv
  <2>5. Sound(segs, next, flex)'
    BY <2>1, <2>2, <1>1, <1>2 DEF Sound, Disjoint, GrantOK
  <2>6. MemoryInv'
    BY <2>2, <2>4, <2>5, <1>5 DEF MemoryInv, ExtendInv, Whole
  <2>7. Kept'
    BY <2>1, <2>2, <1>2 DEF Kept, ExtendInv, SavedInv, Sound, GrantOK
  <2> QED
    BY <2>2, <2>4, <2>6, <2>7, <1>5 DEF ExtendInv
<1>6. ASSUME NEW g \in grants, TableFails(d, g), UNCHANGED dev
      PROVE  ExtendInv' /\ met' = met \cup {"table"} /\ "table" \in Faults /\ changed' = changed
  <2>1. GrantOK(g)
    OBVIOUS
  <2>2. segs' = g.segs /\ next' = next + g.amt /\ flex' = flex /\ changed' = changed
        /\ met' = met \cup {"table"} /\ "table" \in Faults
        /\ cap' = [kind |-> cap.kind, size |-> g.size]
        /\ (thin' = thin \/ thin' = Given(d, next .. next + g.amt - 1))
    BY <1>6, <1>3 DEF TableFails
  <2>3. next + g.amt <= g.segs /\ g.segs <= Usable /\ g.amt \in Nat /\ g.segs \in Nat /\ g.size \in Nat
    BY <2>1, <1>2 DEF GrantOK
  <2>4. cap' \in [kind : Kinds, size : Nat] /\ cap'.size <= segs' /\ next' <= cap'.size
        /\ cap'.kind = cap.kind
    BY <2>1, <2>2, <2>3, <1>2, <1>3 DEF GrantOK
  <2>5. Sound(segs, next, flex)'
    <3>1. 0 .. next - 1 \subseteq 0 .. (next + g.amt) - 1
      BY <2>3, <1>2
    <3>2. flex \in [Flex -> SUBSET (0 .. (next + g.amt) - 1)]
      BY <3>1, <1>2 DEF Sound
    <3> QED
      BY <2>2, <2>3, <3>2, <1>1, <1>2 DEF Sound, Disjoint
  <2>6. MemoryInv'
    BY <2>2, <2>4, <2>5, <1>6 DEF MemoryInv, ExtendInv
  <2>7. Kept'
    BY <2>1, <2>2, <2>3, <1>2 DEF Kept, ExtendInv, SavedInv, Sound, GrantOK
  <2>8. thin' \in [data : Nat, meta : SUBSET Sectors] /\ thin'.data <= next'
    <3>1. CASE thin' = thin
      BY <3>1, <2>2, <2>3, <1>2 DEF ExtendInv
    <3>2. CASE thin' = Given(d, next .. next + g.amt - 1)
      <4>1. thin.data <= next /\ next + g.amt <= Usable /\ next \in Nat /\ g.amt \in Nat
        BY <2>3, <1>1, <1>2 DEF ExtendInv
      <4> QED
        BY <3>2, <4>1, <2>2, GivenThin, Zenon
    <3> QED
      BY <3>1, <3>2, <2>2
  <2>9. next' > 0 /\ dev' # "none" /\ cap'.kind # "none"
    <3>1. next > 0 /\ dev # "none" /\ cap.kind # "none"
      BY DEF ExtendInv
    <3>2. next' = next + g.amt /\ dev' = dev /\ cap'.kind = cap.kind
      BY <2>2, <2>4, <1>6
    <3> QED
      BY <3>1, <3>2, <2>3, <1>2
  <2>10. ExtendInv'
    BY <2>6, <2>7, <2>8, <2>9 DEF ExtendInv
  <2> QED
    BY <2>2, <2>10
<1>7. ASSUME UNCHANGED <<segs, cap, next, flex, thin, changed, met, dev>>
      PROVE  ExtendInv'
  BY <1>1, <1>7 DEF ExtendInv, MemoryInv, Kept, Sound, Disjoint, Whole
<1> QED
  BY <1>4, <1>5, <1>6, <1>7, Zenon DEF Extend, PlainTypes

----------------------------------------------------------------------------
(* Steps of the daemon that leave the accounts, the devices and the kernel *)
(* as they are.                                                            *)
LEMMA QuietStep ==
    ASSUME IInv, UNCHANGED <<devs, memory, saved, thin>>, met \subseteq met', Up, Up', pc' # "data"
    PROVE  MemoryInv' /\ SavedInv' /\ ThinInv' /\ StepInv' /\ NeverReassigned'
<1>1. Usable' = Usable
  BY DEF Usable
<1>2. SavedInv'
  BY SavedStays DEF IInv
<1>3. MemoryInv'
  BY <1>1 DEF IInv, MemoryInv, memory, Sound, Disjoint, Whole
<1>4. ThinInv'
  BY <1>1 DEF IInv, ThinInv, memory
<1>5. StepInv'
  BY DEF IInv, StepInv, memory, Up, Running, Checking
<1>6. NeverReassigned'
  BY DEF IInv, NeverReassigned, memory, Up
<1> QED
  BY <1>2, <1>3, <1>4, <1>5, <1>6

(* The daemon forgets the pool.                                            *)
LEMMA ForgetStep ==
    ASSUME IInv, Forget, SavedInv', UNCHANGED <<devs, thin>>, ~Up', pc' # "new"
    PROVE  MemoryInv' /\ ThinInv' /\ StepInv' /\ NeverReassigned'
<1>1. Usable' = Usable /\ Usable \in Nat
  BY UsableBound DEF Usable, IInv, PlainTypes
<1>2. segs' = 0 /\ next' = 0 /\ cap' = [kind |-> "none", size |-> 0] /\ dev' = "none"
      /\ flex' = [d \in Flex |-> {}]
  BY DEF Forget, NoCap, NoFlex
<1>3. MemoryInv'
  <2>1. Sound(segs, next, flex)'
    BY <1>1, <1>2 DEF Sound, Disjoint
  <2>2. Whole(next, flex)'
    BY <1>2 DEF Whole
  <2> QED
    BY <1>2, <2>1, <2>2 DEF MemoryInv, Kinds
<1>4. ThinInv'
  BY <1>1 DEF IInv, ThinInv
<1>5. StepInv' /\ NeverReassigned'
  BY DEF StepInv, NeverReassigned, Up, Running, Checking
<1> QED
  BY <1>3, <1>4, <1>5

(* The account in memory goes to disk.                                     *)
LEMMA RecordStep ==
    ASSUME IInv, Up, saved' = Record, UNCHANGED devs, met \subseteq met'
    PROVE  SavedInv' /\ saved' \in Account
<1>1. Usable' = Usable /\ Usable \in Nat
  BY UsableBound DEF Usable, IInv, PlainTypes
<1> DEFINE cached == IF cap.kind = "cache" THEN caches ELSE 0
<1>2. /\ saved' = [devs |-> devs, caches |-> cached, segs |-> segs, next |-> next, flex |-> flex]
      /\ saved'.segs = segs /\ saved'.next = next /\ saved'.flex = flex
  BY DEF Record
<1>3. Sound(segs, next, flex) /\ next > 0 /\ ("table" \notin met => Whole(next, flex))
  BY DEF IInv, MemoryInv, StepInv
<1>4. saved' \in Account'
  <2>1. 0 .. next - 1 \subseteq Sectors
    BY <1>3, <1>1, BelowSectors DEF Sound, IInv, PlainTypes
  <2>2. flex \in [Flex -> SUBSET Sectors] /\ segs \in Nat /\ next \in Nat
    BY <2>1, <1>3 DEF Sound
  <2>3. devs \in Nat /\ caches \in Nat /\ cached \in Nat
    BY PoolSpaceAssumption DEF IInv, PlainTypes
  <2> HIDE DEF cached
  <2> QED
    BY <1>2, <2>2, <2>3 DEF Account
<1>5. SavedInv'
  <2>1. Sound(saved.segs, saved.next, saved.flex)'
    BY <1>1, <1>2, <1>3 DEF Sound, Disjoint
  <2>2. "table" \notin met' => Whole(saved.next, saved.flex)'
    BY <1>2, <1>3 DEF Whole
  <2> QED
    BY <1>2, <1>3, <1>4, <2>1, <2>2 DEF SavedInv
<1> QED
  BY <1>4, <1>5 DEF Account, Sectors

(* ... and then says what memory says.                                     *)
LEMMA RecordKeeps ==
    ASSUME IInv, saved' = Record, UNCHANGED memory
    PROVE  NeverReassigned'
<1>1. saved'.flex = flex' /\ saved'.next = next' /\ saved'.segs = segs'
  BY DEF Record, memory
<1>2. next' \in Nat /\ segs' \in Nat
  BY DEF IInv, MemoryInv, memory, Sound
<1>3. saved'.next <= next' /\ saved'.segs <= segs'
  BY <1>1, <1>2
<1>4. /\ saved'.flex["data"] = flex'["data"] /\ saved'.flex["mdv"] = flex'["mdv"]
      /\ saved'.flex["meta"] = flex'["meta"] /\ saved'.flex["spare"] = flex'["spare"]
  BY <1>1
<1> QED
  BY <1>3, <1>4 DEF NeverReassigned

(* Init establishes the invariant.                                         *)
LEMMA Start == Init => IInv
<1> SUFFICES ASSUME Init PROVE IInv
  OBVIOUS
<1>1. devs \in 0 .. MaxDevs /\ Usable \in Nat
  <2>1. devs \in 0 .. MaxDevs
    BY PoolSpaceAssumption DEF Init
  <2> QED
    BY <2>1, UsableBound
<1>2. PlainTypes
  <2>1. caches \in 0 .. MaxCache
    BY PoolSpaceAssumption DEF Init
  <2>2. changed \in BOOLEAN /\ dirty \in BOOLEAN /\ met = {} /\ pc = "new" /\ why = "create"
    BY Zenon DEF Init
  <2> QED
    BY <1>1, <2>1, <2>2, Zenon DEF PlainTypes
<1>3. MemoryInv
  <2>1. Sound(segs, next, flex) /\ Whole(next, flex)
    BY <1>1 DEF Init, Sound, Disjoint, NoFlex, Whole
  <2> QED
    BY <2>1 DEF Init, MemoryInv, NoCap, Kinds
<1>4. SavedInv /\ NeverReassigned
  BY DEF Init, SavedInv, NeverReassigned
<1>5. ThinInv
  BY <1>1 DEF Init, ThinInv, Up, Running, Checking
<1>6. StepInv
  BY DEF Init, StepInv, Up, Running, Checking
<1> QED
  BY <1>2, <1>3, <1>4, <1>5, <1>6 DEF IInv

(* ThinPool::new lays out the four devices one after the other.            *)
LEMMA NewStep == IInv /\ New => IInv'
<1> SUFFICES ASSUME IInv, New PROVE IInv'
  OBVIOUS
<1> DEFINE total == 2 * MetaInit + DataInit + MdvInit
<1>1. /\ MetaInit \in Nat \ {0} /\ DataInit \in Nat \ {0} /\ MdvInit \in Nat \ {0} /\ DevSize \in Nat
      /\ total \in Nat /\ total > 0 /\ total <= DevSize
  BY PoolSpaceAssumption
<1>2. devs = 1 /\ devs' = 1 /\ saved = NoSave /\ saved' = NoSave /\ met = {} /\ met' = {}
      /\ pc' = "meta" /\ 1 \in 0 .. MaxDevs
  BY DEF New, IInv, StepInv, PlainTypes
<1>3. Usable' = DevSize
  BY <1>1, <1>2 DEF Usable
<1>4. /\ segs' = total /\ next' = total /\ cap' = [kind |-> "linear", size |-> total]
      /\ dev' = "linear"
      /\ flex' = [meta |-> 0 .. MetaInit - 1,
                  spare |-> MetaInit .. 2 * MetaInit - 1,
                  data |-> 2 * MetaInit .. 2 * MetaInit + DataInit - 1,
                  mdv |-> 2 * MetaInit + DataInit .. total - 1]
      /\ thin' = [data |-> DataInit, meta |-> flex'["meta"]]
  BY DEF New
<1> HIDE DEF total
<1>5. /\ flex' \in [Flex -> SUBSET (0 .. total - 1)]
      /\ flex'["meta"] = 0 .. MetaInit - 1 /\ flex'["spare"] = MetaInit .. 2 * MetaInit - 1
      /\ flex'["data"] = 2 * MetaInit .. 2 * MetaInit + DataInit - 1
      /\ flex'["mdv"] = 2 * MetaInit + DataInit .. total - 1
  BY <1>1, <1>4 DEF Flex, total
<1>6. Disjoint(flex)'
  BY <1>1, <1>5 DEF Disjoint, Flex, total
<1>7. Whole(next, flex)'
  BY <1>1, <1>4, <1>5 DEF Whole, Flex, total
<1>8. MemoryInv'
  <2>1. Sound(segs, next, flex)'
    BY <1>1, <1>3, <1>4, <1>5, <1>6 DEF Sound
  <2> QED
    BY <2>1, <1>1, <1>4, <1>7 DEF MemoryInv, Kinds
<1>9. SavedInv' /\ NeverReassigned'
  BY <1>2 DEF SavedInv, NeverReassigned
<1>10. ThinInv'
  <2>1. 0 .. MetaInit - 1 \subseteq Sectors
    <3>1. DevSize * MaxDevs \in Nat /\ DevSize * devs <= DevSize * MaxDevs
      BY UsableBound DEF IInv, PlainTypes, Usable
    <3>2. MetaInit <= DevSize * MaxDevs
      BY <3>1, <1>1, <1>2 DEF total
    <3> QED
      BY <3>1, <3>2, <1>1 DEF Sectors
  <2> QED
    BY <2>1, <1>1, <1>3, <1>4, <1>5 DEF ThinInv, total
<1>11. StepInv'
  BY <1>1, <1>2, <1>4, Zenon DEF StepInv
<1>12. PlainTypes'
  BY <1>2 DEF New, IInv, PlainTypes, Running, Checking
<1> QED
  BY <1>8, <1>9, <1>10, <1>11, <1>12 DEF IInv

(* A part of do_check that extends a device.                               *)
LEMMA ExtendStep ==
    ASSUME IInv, Up, cap.kind # "none", NEW d \in {"meta", "data"}, NEW grants,
           \A g \in grants : GrantOK(g), Extend(d, grants),
           pc' \in {"data", "water"}, UNCHANGED <<devs, caches, saved, why, dirty>>
    PROVE  IInv'
<1>1. ExtendInv
  BY DEF IInv, ExtendInv, Kept, NeverReassigned, StepInv, ThinInv, Up
<1>2. /\ ExtendInv' /\ met \subseteq met' /\ met' \subseteq met \cup (Faults \cap {"cap", "table"})
      /\ changed' \in BOOLEAN
  BY <1>1, ExtendKeeps DEF IInv
<1>3. SavedInv'
  BY <1>2, SavedStays DEF IInv
<1>4. PlainTypes'
  BY <1>2 DEF IInv, PlainTypes, Running, Checking
<1>5. ThinInv'
  <2>1. next' \in Nat /\ segs' \in Nat /\ Usable' \in Nat /\ next' <= segs' /\ segs' <= Usable'
    <3>1. Usable' = Usable /\ Usable \in Nat
      BY UsableBound DEF Usable, IInv, PlainTypes
    <3> QED
      BY <3>1, <1>2 DEF ExtendInv, MemoryInv, Sound
  <2> QED
    BY <2>1, <1>2 DEF ThinInv, ExtendInv
<1>6. StepInv' /\ NeverReassigned'
  BY <1>2 DEF StepInv, NeverReassigned, Kept, ExtendInv
<1> QED
  BY <1>2, <1>3, <1>4, <1>5, <1>6, Zenon DEF IInv, ExtendInv

(* A request made in a sound state is granted in order.                    *)
LEMMA RequestOK ==
    ASSUME IInv, cap.kind # "none", NEW amount \in Nat, NEW m \in Nat \ {0}
    PROVE  \A g \in Request(amount, m) : GrantOK(g)
<1>1. Usable \in Nat
  BY UsableBound DEF IInv, PlainTypes
<1>2. segs \in Nat /\ next \in Nat /\ cap.size \in Nat /\ next <= cap.size /\ cap.size <= segs /\ segs <= Usable
  BY DEF IInv, MemoryInv, Sound
<1> QED
  BY <1>1, <1>2, RequestGrants DEF GrantOK

(* ... so is what do_check asks for the meta device.                       *)
LEMMA MetaGrants ==
    ASSUME IInv, cap.kind # "none"
    PROVE  \A g \in IF MetaRequest > MetaBlock THEN Request(MetaRequest, MetaBlock) ELSE {} : GrantOK(g)
<1>1. MetaBlock \in Nat \ {0} /\ MetaShare \in Nat \ {0} /\ MaxMeta \in Nat
  BY PoolSpaceAssumption
<1>2. MetaRequest \in Int
  <2>1. Usable \in Nat /\ DevSize * MaxDevs \in Nat
    BY UsableBound DEF IInv, PlainTypes
  <2>2. Usable \div MetaShare \in Nat
    BY <2>1, <1>1, SMT
  <2>3. Size(thin.meta) \in Nat
    BY <2>1, BelowSize DEF Sectors, IInv, ThinInv
  <2> QED
    BY <2>2, <2>3, <1>1 DEF MetaRequest, Least
<1>3. ASSUME MetaRequest > MetaBlock PROVE \A g \in Request(MetaRequest, MetaBlock) : GrantOK(g)
  <2>1. MetaRequest \in Nat
    BY <1>1, <1>2, <1>3
  <2> QED
    BY <2>1, <1>1, RequestOK
<1> QED
  BY <1>3

LEMMA CheckMetaStep == IInv /\ CheckMeta => IInv'
<1> SUFFICES ASSUME IInv, CheckMeta PROVE IInv'
  OBVIOUS
<1>1. pc = "meta" /\ UNCHANGED <<devs, caches, saved, why, dirty>> /\ Up
  BY DEF CheckMeta, Up, Running, Checking
<1>2. ASSUME pc' \in {"panic", "water"}, UNCHANGED <<memory, thin, changed, met>>
      PROVE  IInv'
  <2>1. PlainTypes'
    BY <1>1, <1>2 DEF IInv, PlainTypes, Running, Checking
  <2>2. Up' /\ pc' # "data"
    BY <1>2 DEF Up, Running, Checking
  <2> QED
    BY <1>1, <1>2, <2>1, <2>2, QuietStep DEF IInv
<1>3. ASSUME cap.kind = dev, pc' = "data",
             Extend("meta", IF MetaRequest > MetaBlock THEN Request(MetaRequest, MetaBlock) ELSE {})
      PROVE  IInv'
  <2> DEFINE grants == IF MetaRequest > MetaBlock THEN Request(MetaRequest, MetaBlock) ELSE {}
  <2>1. cap.kind # "none"
    BY <1>1, <1>3 DEF IInv, StepInv
  <2>2. \A g \in grants : GrantOK(g)
    BY <2>1, MetaGrants
  <2> QED
    BY <1>1, <1>3, <2>1, <2>2, ExtendStep
<1> QED
  BY <1>2, <1>3 DEF CheckMeta

LEMMA CheckDataStep == IInv /\ CheckData => IInv'
<1> SUFFICES ASSUME IInv, CheckData PROVE IInv'
  OBVIOUS
<1>1. /\ pc' = "water" /\ UNCHANGED <<devs, caches, saved, why, dirty>> /\ Up /\ cap.kind # "none"
      /\ Extend("data", Request(Usable - next, DataBlock))
  BY DEF CheckData, Up, Running, Checking, IInv, StepInv
<1>2. Usable - next \in Nat /\ DataBlock \in Nat \ {0}
  BY UsableBound, PoolSpaceAssumption DEF IInv, PlainTypes, MemoryInv, Sound
<1>3. \A g \in Request(Usable - next, DataBlock) : GrantOK(g)
  BY <1>1, <1>2, RequestOK
<1> QED
  BY <1>1, <1>3, ExtendStep

(* The end of a command with an error.                                     *)
LEMMA ErrorStep ==
    ASSUME IInv, Up, Error, SavedInv', UNCHANGED <<devs, thin>>, met \subseteq met',
           UNCHANGED memory => NeverReassigned'
    PROVE  MemoryInv' /\ ThinInv' /\ StepInv' /\ NeverReassigned'
<1>1. CASE why \in {"create", "setup"}
  <2>1. Forget /\ pc' \in {"gone", "down"}
    BY <1>1 DEF Error
  <2>2. ~Up' /\ pc' # "new"
    BY <2>1 DEF Up, Running, Checking
  <2> QED
    BY <2>1, <2>2, ForgetStep
<1>2. CASE why \notin {"create", "setup"}
  <2>1. UNCHANGED memory /\ pc' = "idle"
    BY <1>2 DEF Error
  <2>2. Usable' = Usable
    BY DEF Usable
  <2>3. MemoryInv'
    BY <2>1, <2>2 DEF IInv, MemoryInv, memory, Sound, Disjoint, Whole
  <2>4. ThinInv'
    BY <2>1, <2>2 DEF IInv, ThinInv, memory
  <2>5. StepInv'
    BY <2>1 DEF IInv, StepInv, memory
  <2> QED
    BY <2>1, <2>3, <2>4, <2>5
<1> QED
  BY <1>1, <1>2

LEMMA ErrorTypes ==
    ASSUME PlainTypes, Error, UNCHANGED <<devs, caches, why>>,
           NEW f \in Faults \cap {"water", "save"}, met' = met \cup {f}
    PROVE  PlainTypes' /\ met \subseteq met'
<1>1. pc' \in {"gone", "down", "idle"}
  BY DEF Error
<1>2. changed' \in BOOLEAN /\ dirty' \in BOOLEAN
  BY Zenon DEF Error
<1> QED
  BY <1>1, <1>2 DEF PlainTypes, Running, Checking

LEMMA CheckWaterStep == IInv /\ CheckWater => IInv'
<1> SUFFICES ASSUME IInv, CheckWater PROVE IInv'
  OBVIOUS
<1>1. pc = "water" /\ UNCHANGED <<devs, caches, memory, thin, saved, why, met>>
  BY DEF CheckWater
<1>2. pc' \in {"meta", "save", "idle"}
  BY DEF CheckWater
<1>3. changed' \in BOOLEAN /\ dirty' \in BOOLEAN
  BY Zenon DEF CheckWater, IInv, PlainTypes
<1>4. PlainTypes'
  BY <1>1, <1>2, <1>3 DEF IInv, PlainTypes, Running, Checking
<1>5. Up /\ Up' /\ pc' # "data"
  BY <1>1, <1>2 DEF Up, Running, Checking
<1> QED
  BY <1>1, <1>4, <1>5, QuietStep DEF IInv

LEMMA WaterFailsStep == IInv /\ WaterFails => IInv'
<1> SUFFICES ASSUME IInv, WaterFails PROVE IInv'
  OBVIOUS
<1>1. /\ "water" \in Faults /\ pc = "water" /\ Error /\ met' = met \cup {"water"}
      /\ UNCHANGED <<devs, caches, thin, saved, why>>
  BY DEF WaterFails
<1>2. PlainTypes' /\ met \subseteq met'
  BY <1>1, ErrorTypes DEF IInv
<1>3. SavedInv'
  BY <1>1, <1>2, SavedStays DEF IInv
<1>4. Up
  BY <1>1 DEF Up, Running, Checking
<1>5. UNCHANGED memory => NeverReassigned'
  BY <1>1, <1>4 DEF IInv, NeverReassigned, Up, memory
<1> QED
  BY <1>1, <1>2, <1>3, <1>4, <1>5, ErrorStep DEF IInv

LEMMA SaveStep == IInv /\ Save => IInv'
<1> SUFFICES ASSUME IInv, Save PROVE IInv'
  OBVIOUS
<1>1. /\ pc = "save" /\ pc' = "idle" /\ saved' = Record
      /\ UNCHANGED <<devs, caches, memory, thin, why, changed, dirty, met>>
  BY DEF Save
<1>2. Up /\ Up' /\ Usable' = Usable
  BY <1>1 DEF Up, Running, Checking, Usable
<1>3. SavedInv' /\ NeverReassigned'
  BY <1>1, <1>2, RecordStep, RecordKeeps
<1>4. MemoryInv'
  BY <1>1, <1>2 DEF IInv, MemoryInv, memory, Sound, Disjoint, Whole
<1>5. ThinInv' /\ StepInv'
  BY <1>1, <1>2 DEF IInv, ThinInv, StepInv, memory
<1>6. PlainTypes'
  BY <1>1 DEF IInv, PlainTypes, Running, Checking
<1> QED
  BY <1>3, <1>4, <1>5, <1>6 DEF IInv

LEMMA SaveFailsStep == IInv /\ SaveFails => IInv'
<1> SUFFICES ASSUME IInv, SaveFails PROVE IInv'
  OBVIOUS
<1>1. /\ "save" \in Faults /\ pc = "save" /\ Error /\ met' = met \cup {"save"}
      /\ UNCHANGED <<devs, caches, thin, why>> /\ (saved' = saved \/ saved' = Record)
  BY DEF SaveFails
<1>2. PlainTypes' /\ met \subseteq met'
  BY <1>1, ErrorTypes DEF IInv
<1>3. Up
  BY <1>1 DEF Up, Running, Checking
<1>4. SavedInv'
  BY <1>1, <1>2, <1>3, SavedStays, RecordStep, Zenon DEF IInv
<1>5. UNCHANGED memory => NeverReassigned'
  BY <1>1, <1>3, RecordKeeps DEF IInv, NeverReassigned, Up, memory
<1> QED
  BY <1>1, <1>2, <1>3, <1>4, <1>5, ErrorStep DEF IInv

LEMMA NewFailsStep == IInv /\ NewFails => IInv'
<1> SUFFICES ASSUME IInv, NewFails PROVE IInv'
  OBVIOUS
<1>1. /\ pc = "new" /\ pc' = "gone" /\ devs' = 0
      /\ UNCHANGED <<caches, segs, cap, next, flex, dev, thin, saved, why, changed, dirty, met>>
  BY Zenon DEF NewFails, memory
<1>2. /\ saved = NoSave /\ thin = [data |-> 0, meta |-> {}]
      /\ segs = 0 /\ next = 0 /\ flex = NoFlex /\ cap = NoCap
  BY <1>1 DEF IInv, StepInv
<1>3. Usable' = 0
  <2>1. DevSize \in Nat
    BY PoolSpaceAssumption
  <2> QED
    BY <2>1, <1>1 DEF Usable
<1>4. PlainTypes'
  BY <1>1, PoolSpaceAssumption DEF IInv, PlainTypes
<1>5. MemoryInv'
  BY <1>1, <1>2, <1>3 DEF IInv, MemoryInv, Sound, Disjoint, Whole
<1>6. ThinInv'
  BY <1>1, <1>2, <1>3 DEF ThinInv, Up, Running, Checking
<1>7. SavedInv' /\ StepInv' /\ NeverReassigned'
  BY <1>1, <1>2 DEF SavedInv, StepInv, NeverReassigned, Up, Running, Checking
<1> QED
  BY <1>4, <1>5, <1>6, <1>7 DEF IInv

(* Commands that only begin a check or a save.                             *)
LEMMA PlainCommandStep == IInv /\ (EventOn \/ SetUserInfo) => IInv'
<1> SUFFICES ASSUME IInv, EventOn \/ SetUserInfo PROVE IInv'
  OBVIOUS
<1>1. /\ pc = "idle" /\ pc' \in {"meta", "save"} /\ why' \in {"event", "info"}
      /\ UNCHANGED <<devs, caches, memory, thin, saved, changed, dirty, met>>
  BY DEF EventOn, SetUserInfo, Begin
<1>2. PlainTypes'
  BY <1>1 DEF IInv, PlainTypes, Running, Checking
<1>3. Up /\ Up' /\ pc' # "data"
  BY <1>1 DEF Up, Running, Checking
<1> QED
  BY <1>1, <1>2, <1>3, QuietStep DEF IInv

LEMMA RefuseCacheStep == IInv /\ RefuseCache => IInv'
<1> SUFFICES ASSUME IInv, RefuseCache PROVE IInv'
  OBVIOUS
<1>1. /\ pc = "idle" /\ why' = "cache"
      /\ UNCHANGED <<devs, caches, memory, thin, saved, pc, changed, dirty, met>>
  BY DEF RefuseCache, Begin
<1>2. PlainTypes'
  BY <1>1 DEF IInv, PlainTypes, Running, Checking
<1>3. Up /\ Up' /\ pc' # "data"
  BY <1>1 DEF Up, Running, Checking
<1> QED
  BY <1>1, <1>2, <1>3, QuietStep DEF IInv

LEMMA AddDatadevsStep == IInv /\ AddDatadevs => IInv'
<1> SUFFICES ASSUME IInv, AddDatadevs PROVE IInv'
  OBVIOUS
<1>1. /\ pc = "idle" /\ pc' = "meta" /\ why' = "add" /\ devs < MaxDevs /\ devs' = devs + 1
      /\ UNCHANGED <<caches, segs, cap, next, flex, dev, thin, saved, changed, dirty, met>>
  BY DEF AddDatadevs, Begin, memory
<1>2. Usable \in Nat /\ Usable' \in Nat /\ Usable <= Usable'
  <2>1. devs \in 0 .. MaxDevs /\ DevSize \in Nat /\ MaxDevs \in Nat
    BY PoolSpaceAssumption DEF IInv, PlainTypes
  <2>2. Usable \in Nat /\ DevSize * (devs + 1) = Usable + DevSize
    BY <2>1, UsableBound
  <2>3. Usable' = DevSize * (devs + 1)
    BY <1>1 DEF Usable
  <2> QED
    BY <2>1, <2>2, <2>3
<1>3. PlainTypes'
  BY <1>1, PoolSpaceAssumption DEF IInv, PlainTypes, Running, Checking
<1>4. MemoryInv'
  BY <1>1, <1>2 DEF IInv, MemoryInv, Sound, Disjoint, Whole
<1>5. SavedInv'
  BY <1>1, <1>2 DEF IInv, SavedInv, Sound, Disjoint, Whole, Account
<1>6. ThinInv'
  BY <1>1, <1>2 DEF IInv, ThinInv, Up, Running, Checking
<1>7. StepInv'
  BY <1>1 DEF IInv, StepInv, Up, Running, Checking
<1>8. NeverReassigned'
  BY <1>1 DEF IInv, NeverReassigned, Running, Checking
<1> QED
  BY <1>3, <1>4, <1>5, <1>6, <1>7, <1>8 DEF IInv

(* The cap device or the device that the thin pool uses is another one,    *)
(* and the accounts stay as they are.                                      *)
LEMMA CacheStep ==
    ASSUME IInv, pc = "idle", pc' \in {"save", "idle", "panic"},
           UNCHANGED <<devs, segs, next, flex, thin, saved>>, met \subseteq met',
           cap' \in [kind : Kinds, size : Nat], cap'.size <= segs,
           cap'.kind # "none" => next <= cap'.size, dev' \in {"linear", "cache"}
    PROVE  MemoryInv' /\ SavedInv' /\ ThinInv' /\ StepInv' /\ NeverReassigned'
<1>1. Usable' = Usable /\ Up
  BY DEF Usable, Up, Running, Checking
<1>2. SavedInv'
  BY SavedStays DEF IInv
<1>3. MemoryInv'
  BY <1>1 DEF IInv, MemoryInv, Sound, Disjoint, Whole, Kinds
<1>4. ThinInv' /\ StepInv'
  BY <1>1, Zenon DEF IInv, ThinInv, StepInv
<1>5. NeverReassigned'
  BY <1>1 DEF IInv, NeverReassigned, Up
<1> QED
  BY <1>2, <1>3, <1>4, <1>5

LEMMA InitCacheStep == IInv /\ InitCache => IInv'
<1> SUFFICES ASSUME IInv, InitCache PROVE IInv'
  OBVIOUS
<1>1. /\ pc = "idle" /\ why' = "cache" /\ caches < MaxCache /\ caches' = caches + 1
      /\ UNCHANGED <<devs, segs, next, flex, dev, thin, saved, changed, dirty>>
  BY DEF InitCache, Begin
<1>2. pc' \in {"save", "idle", "panic"} /\ (met' = met \/ ("cache" \in Faults /\ met' = met \cup {"cache"}))
  BY DEF InitCache
<1>3. cap' = cap \/ (cap.kind = "linear" /\ (cap' = [cap EXCEPT !.kind = "cache"] \/ cap' = NoCap))
  BY DEF InitCache
<1>4. cap \in [kind : Kinds, size : Nat] /\ cap.size <= segs /\ (cap.kind # "none" => next <= cap.size)
      /\ segs \in Nat
  BY DEF IInv, MemoryInv, Sound
<1>5. cap' \in [kind : Kinds, size : Nat] /\ cap'.size <= segs /\ (cap'.kind # "none" => next <= cap'.size)
  BY <1>3, <1>4 DEF NoCap, Kinds
<1>6. dev' \in {"linear", "cache"}
  BY <1>1 DEF IInv, MemoryInv, StepInv, Kinds, Up, Running, Checking
<1>7. PlainTypes'
  BY <1>1, <1>2, PoolSpaceAssumption DEF IInv, PlainTypes, Running, Checking
<1> QED
  BY <1>1, <1>2, <1>5, <1>6, <1>7, CacheStep DEF IInv

LEMMA AddCachedevsStep == IInv /\ AddCachedevs => IInv'
<1> SUFFICES ASSUME IInv, AddCachedevs PROVE IInv'
  OBVIOUS
<1>1. /\ pc = "idle" /\ why' = "cache" /\ caches < MaxCache /\ caches' = caches + 1
      /\ UNCHANGED <<devs, segs, cap, next, flex, thin, saved, changed, dirty>>
  BY DEF AddCachedevs, Begin
<1>2. pc' \in {"save", "idle", "panic"} /\ (met' = met \/ ("cache" \in Faults /\ met' = met \cup {"cache"}))
  BY DEF AddCachedevs
<1>3. dev' \in {"linear", "cache"}
  BY <1>1 DEF AddCachedevs, IInv, MemoryInv, StepInv, Kinds, Up, Running, Checking
<1>4. PlainTypes'
  BY <1>1, <1>2, PoolSpaceAssumption DEF IInv, PlainTypes, Running, Checking
<1>5. cap' \in [kind : Kinds, size : Nat] /\ cap'.size <= segs /\ (cap'.kind # "none" => next <= cap'.size)
  BY <1>1 DEF IInv, MemoryInv
<1> QED
  BY <1>1, <1>2, <1>3, <1>4, <1>5, CacheStep DEF IInv

LEMMA CrashStep == IInv /\ Crash => IInv'
<1> SUFFICES ASSUME IInv, Crash PROVE IInv'
  OBVIOUS
<1>1. pc' \in {"gone", "down"} /\ Forget /\ UNCHANGED <<devs, caches, thin, saved, why, met>>
  BY DEF Crash
<1>2. changed' \in BOOLEAN /\ dirty' \in BOOLEAN
  BY Zenon DEF Crash
<1>3. PlainTypes'
  BY <1>1, <1>2 DEF IInv, PlainTypes, Running, Checking
<1>4. SavedInv'
  BY <1>1, SavedStays DEF IInv
<1>5. ~Up' /\ pc' # "new"
  BY <1>1 DEF Up, Running, Checking
<1> QED
  BY <1>1, <1>3, <1>4, <1>5, ForgetStep DEF IInv

(* StratPool::setup takes over what is on disk, with the meta device and   *)
(* its spare swapped if it had to be repaired.                             *)
LEMMA SetupStep == IInv /\ Setup => IInv'
<1> SUFFICES ASSUME IInv, Setup PROVE IInv'
  OBVIOUS
<1>1. /\ pc' = "meta" /\ why' = "setup" /\ saved # NoSave
      /\ segs' = saved.segs /\ next' = saved.next /\ dev' \in {"linear", "cache"}
      /\ cap' = [kind |-> dev', size |-> saved.segs]
      /\ thin' = [data |-> Size(flex'["data"]), meta |-> flex'["meta"]]
      /\ UNCHANGED <<devs, caches, saved, changed, dirty, met>>
  BY DEF Setup, Recoverable
<1>2. Usable' = Usable /\ Usable \in Nat
  BY <1>1, UsableBound DEF Usable, IInv, PlainTypes
<1>3. /\ Sound(saved.segs, saved.next, saved.flex) /\ saved.next > 0
      /\ "table" \notin met => Whole(saved.next, saved.flex)
  BY <1>1 DEF IInv, SavedInv
<1> DEFINE f == saved.flex
<1>4. /\ flex' \in [Flex -> SUBSET (0 .. saved.next - 1)]
      /\ flex'["data"] = f["data"] /\ flex'["mdv"] = f["mdv"]
      /\ \/ flex'["meta"] = f["meta"] /\ flex'["spare"] = f["spare"]
         \/ flex'["meta"] = f["spare"] /\ flex'["spare"] = f["meta"]
  <2>1. f \in [Flex -> SUBSET (0 .. saved.next - 1)]
    BY <1>3 DEF Sound
  <2>2. flex' = f \/ flex' = [f EXCEPT !["meta"] = f["spare"], !["spare"] = f["meta"]]
    BY Zenon DEF Setup
  <2> HIDE DEF f
  <2> QED
    BY <2>1, <2>2 DEF Flex
<1>5. Disjoint(flex)'
  <2>1. Disjoint(f)
    BY <1>3 DEF Sound
  <2>2. /\ f["meta"] \cap f["spare"] = {} /\ f["meta"] \cap f["data"] = {} /\ f["meta"] \cap f["mdv"] = {}
        /\ f["spare"] \cap f["data"] = {} /\ f["spare"] \cap f["mdv"] = {} /\ f["data"] \cap f["mdv"] = {}
    BY <2>1, Zenon DEF Disjoint, Flex
  <2> HIDE DEF f
  <2> QED
    BY <1>4, <2>2 DEF Disjoint, Flex
<1>6. "table" \notin met => Whole(next, flex)'
  BY <1>1, <1>3, <1>4 DEF Whole, Flex
<1>7. MemoryInv'
  <2>1. Sound(segs, next, flex)'
    BY <1>1, <1>2, <1>3, <1>4, <1>5, Zenon DEF Sound
  <2>2. cap' \in [kind : Kinds, size : Nat] /\ cap'.size = segs' /\ dev' \in Kinds /\ segs' \in Nat
    <3>1. saved.segs \in Nat
      BY <1>3 DEF Sound
    <3> QED
      BY <1>1, <3>1 DEF Kinds
  <2>3. next' <= segs' /\ segs' <= segs'
    BY <2>1, <2>2 DEF Sound
  <2>4. met' = met
    BY <1>1
  <2> QED
    BY <2>1, <2>2, <2>3, <2>4, <1>6, Zenon DEF MemoryInv
<1>8. ThinInv'
  <2>1. saved.next \in Nat /\ saved.segs \in Nat /\ saved.next <= Usable
    BY <1>2, <1>3 DEF Sound
  <2>2. flex'["data"] \in SUBSET (0 .. saved.next - 1) /\ flex'["meta"] \in SUBSET (0 .. saved.next - 1)
    BY <1>4 DEF Flex
  <2>3. Size(flex'["data"]) \in 0 .. saved.next
    BY <2>1, <2>2, BelowSize
  <2>4. flex'["meta"] \subseteq Sectors
    BY <2>1, <2>2, BelowSectors DEF IInv, PlainTypes
  <2>5. /\ thin' = [data |-> Size(flex'["data"]), meta |-> flex'["meta"]]
        /\ next' = saved.next /\ Usable' = Usable
    BY <1>1, <1>2
  <2>6. thin' \in [data : Nat, meta : SUBSET Sectors] /\ thin'.data <= saved.next
    BY <2>5, <2>1, <2>3, <2>4
  <2>7. thin'.data <= Usable' /\ thin'.data <= next'
    BY <2>1, <2>5, <2>6, <1>2
  <2> QED
    BY <2>6, <2>7 DEF ThinInv, Sectors
<1>9. SavedInv'
  BY <1>1, SavedStays, Zenon DEF IInv
<1>10. StepInv'
  BY <1>1, <1>3 DEF StepInv
<1>11. NeverReassigned'
  <2>1. saved.next \in Nat /\ saved.segs \in Nat
    BY <1>3 DEF Sound
  <2>2. saved' = saved /\ next' = saved.next /\ segs' = saved.segs
    BY <1>1
  <2>3. saved'.next <= next' /\ saved'.segs <= segs'
    BY <2>1, <2>2
  <2> QED
    BY <2>2, <2>3, <1>4, Zenon DEF NeverReassigned
<1>12. PlainTypes'
  BY <1>1 DEF IInv, PlainTypes, Running, Checking
<1> QED
  BY <1>7, <1>8, <1>9, <1>10, <1>11, <1>12 DEF IInv

(* Every step keeps the invariant.                                         *)
LEMMA Preserved == IInv /\ [Next]_vars => IInv'
<1> SUFFICES ASSUME IInv, [Next]_vars PROVE IInv'
  OBVIOUS
<1>1. CASE UNCHANGED vars
  <2>1. UNCHANGED <<devs, caches, segs, cap, next, flex, dev, thin, saved, pc, why, changed, dirty, met>>
    BY <1>1 DEF vars, memory
  <2>2. PlainTypes'
    BY <2>1 DEF IInv, PlainTypes
  <2>6. NeverReassigned'
    BY <2>1, Zenon DEF IInv, NeverReassigned
  <2>7. StepInv'
    BY <2>1 DEF IInv, StepInv, Up
  <2>3. MemoryInv'
    BY <2>1 DEF IInv, MemoryInv, Sound, Disjoint, Whole, Usable, Up, Account
  <2>4. SavedInv'
    BY <2>1 DEF IInv, SavedInv, Sound, Disjoint, Whole, Usable, Up, Account
  <2>5. ThinInv'
    BY <2>1 DEF IInv, ThinInv, Sound, Disjoint, Whole, Usable, Up, Account
  <2> QED
    BY <2>2, <2>3, <2>4, <2>5, <2>6, <2>7 DEF IInv
<1>2. CASE Next
  BY <1>2, NewStep, NewFailsStep, CheckMetaStep, CheckDataStep, CheckWaterStep, WaterFailsStep,
     SaveStep, SaveFailsStep, PlainCommandStep, AddDatadevsStep, InitCacheStep, AddCachedevsStep,
     RefuseCacheStep, CrashStep, SetupStep DEF Next
<1> QED
  BY <1>1, <1>2

(* All of it holds in every reachable state, for any sizes and failures.   *)
THEOREM SpaceInvariance == Spec => []IInv
<1>1. Init => IInv
  BY Start
<1>2. IInv /\ [Next]_vars => IInv'
  BY Preserved
<1> QED
  BY <1>1, <1>2, PTL DEF Spec

(* The state of the space accounts keeps its types.                        *)
THEOREM SpaceTypeCorrect == Spec => []TypeOK
<1>1. IInv => TypeOK
  <2> SUFFICES ASSUME IInv PROVE TypeOK
    OBVIOUS
  <2>1. Usable \in Nat
    BY UsableBound DEF IInv, PlainTypes
  <2>2. /\ segs \in 0 .. Usable /\ next \in 0 .. segs
        /\ cap.kind \in Kinds /\ cap.size \in 0 .. segs /\ dev \in Kinds
    BY <2>1 DEF IInv, MemoryInv, Sound
  <2>3. flex \in [Flex -> SUBSET Sectors]
    <3>1. 0 .. next - 1 \subseteq Sectors
      BY <2>1, <2>2, BelowSectors DEF IInv, PlainTypes
    <3> QED
      BY <3>1 DEF IInv, MemoryInv, Sound
  <2>4. thin.data \in 0 .. Usable /\ thin.meta \subseteq Sectors
    BY <2>1 DEF IInv, ThinInv
  <2>5. saved = NoSave \/ saved \in Account
    BY DEF IInv, SavedInv
  <2> QED
    BY <2>2, <2>3, <2>4, <2>5 DEF TypeOK, IInv, PlainTypes, Kinds
<1> QED
  BY <1>1, SpaceInvariance, PTL

(* No sector is ever given to two devices, whatever fails.                 *)
THEOREM SpaceIsDisjoint == Spec => []SpaceDisjoint
<1>1. IInv => SpaceDisjoint
  <2> SUFFICES ASSUME IInv PROVE SpaceDisjoint
    OBVIOUS
  <2>1. next \in Nat /\ flex \in [Flex -> SUBSET (0 .. next - 1)] /\ Disjoint(flex)
        /\ (cap.kind # "none" => next <= cap.size)
    BY DEF IInv, MemoryInv, Sound
  <2> QED
    BY <2>1 DEF SpaceDisjoint
<1> QED
  BY <1>1, SpaceInvariance, PTL

(* What is on disk is never contradicted by what is given out later.       *)
THEOREM SavedSpaceIsNeverReassigned == Spec => []NeverReassigned
<1>1. IInv => NeverReassigned
  BY Zenon DEF IInv
<1> QED
  BY <1>1, SpaceInvariance, PTL

(* What is on disk passes check_metadata, unless a device has refused to   *)
(* be extended.                                                            *)
THEOREM SavedMetadataPasses == Spec => []SavedPassesCheck
<1>1. IInv => SavedPassesCheck
  <2> SUFFICES ASSUME IInv, saved # NoSave, "table" \notin met PROVE CheckMetadata(saved)
    BY DEF SavedPassesCheck
  <2> DEFINE n == saved.next
             f == saved.flex
  <2>1. /\ n \in Nat /\ n > 0 /\ saved.segs \in Nat /\ n <= saved.segs
        /\ f \in [Flex -> SUBSET (0 .. n - 1)] /\ Disjoint(f) /\ Whole(n, f)
    BY DEF IInv, SavedInv, Sound
  <2> HIDE DEF n, f
  <2>2. \E d \in Flex : n - 1 \in f[d]
    BY <2>1 DEF Whole
  <2>3. \A d \in Flex : \A s \in f[d] : s < n
    BY <2>1
  <2>4. f["meta"] \cup f["spare"] \cup f["data"] \cup f["mdv"] = 0 .. n - 1
    BY <2>1 DEF Whole, Flex
  <2>5. /\ f["meta"] \cap f["spare"] = {} /\ f["meta"] \cap f["data"] = {} /\ f["meta"] \cap f["mdv"] = {}
        /\ f["spare"] \cap f["data"] = {} /\ f["spare"] \cap f["mdv"] = {} /\ f["data"] \cap f["mdv"] = {}
    BY <2>1 DEF Disjoint, Flex
  <2>6. Size(f["meta"]) + Size(f["spare"]) + Size(f["data"]) + Size(f["mdv"]) = n
    <3> DEFINE A == f["meta"]  B == f["spare"]  C == f["data"]  D == f["mdv"]
    <3>1. A \cup B \cup C \cup D = 0 .. n - 1 /\ n \in Nat
      BY <2>1, <2>4
    <3>2. /\ A \cap B = {} /\ A \cap C = {} /\ A \cap D = {}
          /\ B \cap C = {} /\ B \cap D = {} /\ C \cap D = {}
      BY <2>5
    <3> HIDE DEF A, B, C, D
    <3>3. Size(A) + Size(B) + Size(C) + Size(D) = n
      BY <3>1, <3>2, FourParts
    <3> QED
      BY <3>3 DEF A, B, C, D
  <2>7. saved.segs # 0
    BY <2>1
  <2> QED
    BY <2>1, <2>2, <2>3, <2>6, <2>7 DEF CheckMetadata, n, f
<1> QED
  BY <1>1, SpaceInvariance, PTL

----------------------------------------------------------------------------
(* A pool at rest.  IInv says nothing of how recent the metadata on disk   *)
(* is.  It is as recent as memory whenever the daemon does not owe a save: *)
(* at rest, and in a check that has changed nothing so far and whose       *)
(* caller does not save anyway.  As long as nothing has failed, memory     *)
(* also knows exactly what the kernel's thin pool has been given, and      *)
(* there is a cap device, with a cache if there is a cache tier.           *)
Owing == changed \/ dirty \/ why \in {"create", "add"}
Resting == pc = "idle" \/ (pc \in Checking /\ ~Owing)

Calm ==
    /\ pc \in {"save", "idle", "down"} => ~changed /\ ~dirty
    /\ pc = "new" => why = "create" /\ caches = 0

Synced ==
    /\ thin.data = Size(flex["data"]) /\ thin.meta = flex["meta"]
    /\ cap.kind # "none" /\ (cap.kind # "cache" => caches = 0)

OnDisk ==
    /\ saved # NoSave /\ saved.devs = devs /\ saved.caches = caches
    /\ saved.flex["data"] = flex["data"]
    /\ saved.flex["meta"] \in {flex["meta"], flex["spare"]}

(* The cap device has all that the data tier has given up.                 *)
CapFull == "cap" \notin met /\ cap.kind # "none" => cap.size = segs

RInv ==
    /\ Calm /\ CapFull
    /\ met = {} /\ Up => Synced
    /\ met = {} /\ Resting => OnDisk

(* Init establishes it.                                                    *)
LEMMA RestStart == Init => RInv
BY DEF Init, RInv, Calm, CapFull, NoCap, Up, Resting, Running, Checking

(* The next k sectors are none that a device has already.                  *)
LEMMA AppendSize ==
    ASSUME NEW n \in Nat, NEW k \in Nat, NEW S \in SUBSET (0 .. n - 1)
    PROVE  Size(S \cup n .. n + k - 1) = Size(S) + k
<1> DEFINE T == n .. n + k - 1
<1>1. IsFiniteSet(S) /\ Size(S) \in Nat
  BY BelowSize
<1>2. IsFiniteSet(T) /\ Size(T) = k
  BY RegionSize
<1>3. S \cap T = {}
  OBVIOUS
<1> HIDE DEF T
<1>4. Cardinality(S \cap T) = 0
  BY <1>3, FS_EmptySet
<1>5. Cardinality(S \cup T) = Cardinality(S) + Cardinality(T) - Cardinality(S \cap T)
  BY <1>1, <1>2, FS_Union
<1>6. Size(S \cup T) = Size(S) + k
  BY <1>1, <1>2, <1>4, <1>5 DEF Size
<1> QED
  BY <1>6 DEF T

(* A step that leaves memory, disk and devices alone, and does not come to *)
(* rest.                                                                   *)
LEMMA QuietRest ==
    ASSUME RInv, UNCHANGED <<devs, caches, memory, thin, saved, met>>, Calm',
           Up' => Up, Resting' => Resting
    PROVE  RInv'
<1>1. CapFull'
  BY DEF RInv, CapFull, memory
<1>2. Synced => Synced'
  BY DEF Synced, memory
<1>3. OnDisk => OnDisk'
  BY DEF OnDisk, memory
<1> QED
  BY <1>1, <1>2, <1>3 DEF RInv

(* A step that fails: what memory and disk have in common no longer        *)
(* matters.                                                                *)
LEMMA FailedRest ==
    ASSUME RInv, met' # {}, Calm', CapFull'
    PROVE  RInv'
BY DEF RInv

(* What a grant does to the size of the cap device.                        *)
LEMMA GrantFull ==
    ASSUME NEW amount, NEW m, cap.size = segs
    PROVE  \A g \in Request(amount, m) : g.size = g.segs
<1> SUFFICES ASSUME NEW g \in Request(amount, m) PROVE g.size = g.segs
  BY Zenon
<1>1. \/ g = [size |-> cap.size, segs |-> segs, amt |-> Floor(amount, m)]
      \/ \E s : g = Grant(s, amount, m)
  BY DEF Request
<1>2. \A s : Grant(s, amount, m).size = Grant(s, amount, m).segs
  BY DEF Grant
<1>3. CASE \E s : g = Grant(s, amount, m)
  BY <1>2, <1>3
<1> QED
  BY <1>1, <1>3

(* Extending a device, or failing to: either should_save is set, or a      *)
(* failure is remembered, or the device is as it was.                      *)
LEMMA ExtendRest ==
    ASSUME IInv, RInv, Up, cap.kind # "none", NEW d \in {"meta", "data"}, NEW grants,
           \A g \in grants : GrantOK(g) /\ (cap.size = segs => g.size = g.segs),
           Extend(d, grants), UNCHANGED caches
    PROVE  /\ CapFull'
           /\ met' = {} => met = {} /\ Synced' /\ (changed' = TRUE \/ UNCHANGED <<changed, flex>>)
<1>1. /\ next \in Nat /\ flex \in [Flex -> SUBSET (0 .. next - 1)] /\ d \in Flex
      /\ cap = [kind |-> cap.kind, size |-> cap.size]
      /\ thin = [data |-> thin.data, meta |-> thin.meta]
  BY DEF IInv, MemoryInv, ThinInv, Sound, Flex
<1>2. "cap" \notin met => cap.size = segs
  BY DEF RInv, CapFull
<1>3. ASSUME NEW g \in grants, Extended(d, g)
      PROVE  CapFull' /\ met' = met /\ changed' = TRUE /\ (met = {} => Synced')
  <2>1. g.amt \in Nat /\ (cap.size = segs => g.size = g.segs)
    BY DEF GrantOK
  <2> DEFINE T == next .. next + g.amt - 1
  <2>2. /\ segs' = g.segs /\ met' = met /\ changed' = TRUE
        /\ cap' = [kind |-> cap.kind, size |-> g.size]
        /\ flex' = [flex EXCEPT ![d] = flex[d] \cup T]
        /\ thin' = Given(d, T)
    BY <1>1, <1>3 DEF Extended
  <2>3. Size(T) = g.amt /\ Size(flex["data"] \cup T) = Size(flex["data"]) + g.amt
    BY <1>1, <2>1, RegionSize, AppendSize, Zenon DEF Flex
  <2> HIDE DEF T
  <2>4. CapFull'
    BY <1>2, <2>1, <2>2 DEF CapFull
  <2>5. ASSUME met = {} PROVE Synced'
    <3>1. Synced
      BY <2>5 DEF RInv
    <3>2. cap'.kind # "none" /\ (cap'.kind # "cache" => caches' = 0)
      BY <3>1, <2>2, Zenon DEF Synced
    <3>3. CASE d = "data"
      <4>1. thin' = [data |-> thin.data + g.amt, meta |-> thin.meta]
        BY <3>3, <1>1, <2>2, <2>3 DEF Given
      <4>2. flex'["data"] = flex["data"] \cup T /\ flex'["meta"] = flex["meta"]
        BY <3>3, <1>1, <2>2 DEF Flex
      <4> QED
        BY <4>1, <4>2, <3>1, <3>2, <2>3 DEF Synced
    <3>4. CASE d = "meta"
      <4>1. thin' = [data |-> thin.data, meta |-> thin.meta \cup T]
        BY <3>4, <1>1, <2>2, Zenon DEF Given
      <4>2. flex'["meta"] = flex["meta"] \cup T /\ flex'["data"] = flex["data"]
        BY <3>4, <1>1, <2>2 DEF Flex
      <4> QED
        BY <4>1, <4>2, <3>1, <3>2 DEF Synced
    <3> QED
      BY <3>3, <3>4
  <2> QED
    BY <2>2, <2>4, <2>5
<1>4. ASSUME NEW g \in grants, CapFails(g)
      PROVE  CapFull' /\ met' # {}
  BY <1>4 DEF CapFails, CapFull
<1>5. ASSUME NEW g \in grants, TableFails(d, g)
      PROVE  CapFull' /\ met' # {}
  <2>1. /\ segs' = g.segs /\ met' = met \cup {"table"}
        /\ cap' = [kind |-> cap.kind, size |-> g.size]
    BY <1>1, <1>5 DEF TableFails
  <2> QED
    BY <1>2, <2>1 DEF CapFull
<1>6. ASSUME UNCHANGED <<segs, cap, next, flex, thin, changed, met>>
      PROVE  CapFull' /\ met' = met /\ (met = {} => Synced')
  BY <1>6, Zenon DEF RInv, CapFull, Synced
<1> QED
  BY <1>3, <1>4, <1>5, <1>6, Zenon DEF Extend

(* ... as a part of do_check.                                              *)
LEMMA ExtendRestStep ==
    ASSUME IInv, RInv, Up, cap.kind # "none", pc \in Checking, NEW d \in {"meta", "data"}, NEW grants,
           \A g \in grants : GrantOK(g) /\ (cap.size = segs => g.size = g.segs),
           Extend(d, grants), pc' \in {"data", "water"},
           UNCHANGED <<devs, caches, saved, why, dirty>>
    PROVE  RInv'
<1>1. /\ CapFull'
      /\ met' = {} => met = {} /\ Synced' /\ (changed' = TRUE \/ UNCHANGED <<changed, flex>>)
  BY ExtendRest, Zenon
<1>2. Calm'
  BY Zenon DEF Calm
<1>3. ASSUME met' = {}, Resting' PROVE OnDisk'
  <2>1. ~Owing'
    BY <1>3, Zenon DEF Resting
  <2>2. UNCHANGED <<changed, flex>> /\ met = {}
    BY <1>1, <1>3, <2>1 DEF Owing
  <2>3. Resting
    BY <2>1, <2>2 DEF Resting, Owing
  <2> QED
    BY <2>2, <2>3 DEF RInv, OnDisk
<1> QED
  BY <1>1, <1>2, <1>3 DEF RInv

LEMMA CheckMetaRest == IInv /\ RInv /\ CheckMeta => RInv'
<1> SUFFICES ASSUME IInv, RInv, CheckMeta PROVE RInv'
  OBVIOUS
<1>1. pc = "meta" /\ UNCHANGED <<devs, caches, saved, why, dirty>> /\ Up /\ pc \in Checking
  BY DEF CheckMeta, Up, Running, Checking
<1>2. ASSUME pc' \in {"panic", "water"}, UNCHANGED <<memory, thin, changed, met>>
      PROVE  RInv'
  <2>1. Calm'
    BY <1>2 DEF Calm
  <2>2. Resting' => Resting
    BY <1>1, <1>2, Zenon DEF Resting, Owing, Checking
  <2> QED
    BY <1>1, <1>2, <2>1, <2>2, QuietRest
<1>3. ASSUME NEW grants, grants = IF MetaRequest > MetaBlock THEN Request(MetaRequest, MetaBlock) ELSE {},
             cap.kind = dev, pc' = "data", Extend("meta", grants)
      PROVE  RInv'
  <2>1. cap.kind # "none"
    BY <1>1, <1>3 DEF IInv, StepInv
  <2>2. \A g \in grants : GrantOK(g)
    BY <1>1, <1>3, <2>1, MetaGrants
  <2>3. \A g \in grants : cap.size = segs => g.size = g.segs
    BY <1>3, GrantFull
  <2> QED
    BY <1>1, <1>3, <2>1, <2>2, <2>3, ExtendRestStep
<1> QED
  BY <1>2, <1>3 DEF CheckMeta

LEMMA CheckDataRest == IInv /\ RInv /\ CheckData => RInv'
<1> SUFFICES ASSUME IInv, RInv, CheckData PROVE RInv'
  OBVIOUS
<1>1. /\ pc' = "water" /\ UNCHANGED <<devs, caches, saved, why, dirty>>
      /\ Up /\ pc \in Checking /\ cap.kind # "none"
      /\ Extend("data", Request(Usable - next, DataBlock))
  BY DEF CheckData, Up, Running, Checking, IInv, StepInv
<1>2. Usable - next \in Nat /\ DataBlock \in Nat \ {0}
  BY UsableBound, PoolSpaceAssumption DEF IInv, PlainTypes, MemoryInv, Sound
<1>3. \A g \in Request(Usable - next, DataBlock) : GrantOK(g)
  BY <1>1, <1>2, RequestOK
<1>4. \A g \in Request(Usable - next, DataBlock) : cap.size = segs => g.size = g.segs
  BY GrantFull
<1> QED
  BY <1>1, <1>3, <1>4, ExtendRestStep

(* check ends without a save only if it owes none.                         *)
LEMMA CheckWaterRest == IInv /\ RInv /\ CheckWater => RInv'
<1> SUFFICES ASSUME IInv, RInv, CheckWater PROVE RInv'
  OBVIOUS
<1>1. /\ pc = "water" /\ UNCHANGED <<devs, caches, memory, thin, saved, why, met>> /\ Up
      /\ changed' = FALSE /\ dirty' = changed /\ changed \in BOOLEAN /\ dirty \in BOOLEAN
  BY DEF CheckWater, Up, Running, Checking, IInv, PlainTypes
<1>2. CASE changed
  <2>1. pc' = "meta" /\ dirty'
    BY <1>1, <1>2 DEF CheckWater
  <2>2. Calm' /\ ~Resting'
    BY <2>1 DEF Calm, Resting, Owing
  <2> QED
    BY <1>1, <2>2, QuietRest
<1>3. CASE ~changed /\ (dirty \/ why \in {"create", "add"})
  <2>1. pc' = "save"
    BY <1>1, <1>3 DEF CheckWater
  <2>2. Calm' /\ ~Resting'
    BY <1>1, <1>3, <2>1 DEF Calm, Resting, Checking
  <2> QED
    BY <1>1, <2>2, QuietRest
<1>4. CASE ~changed /\ ~(dirty \/ why \in {"create", "add"})
  <2>1. pc' = "idle"
    BY <1>1, <1>4 DEF CheckWater
  <2>2. Calm' /\ Resting
    BY <1>1, <1>4, <2>1 DEF Calm, Resting, Owing, Checking
  <2> QED
    BY <1>1, <2>2, QuietRest
<1> QED
  BY <1>2, <1>3, <1>4

(* A command that ends with an error.                                      *)
LEMMA ErrorRest == IInv /\ RInv /\ (WaterFails \/ SaveFails) => RInv'
<1> SUFFICES ASSUME IInv, RInv, WaterFails \/ SaveFails PROVE RInv'
  OBVIOUS
<1>1. Error /\ met' # {} /\ met \subseteq met'
  BY DEF WaterFails, SaveFails
<1>2. Calm'
  BY <1>1 DEF Error, Calm
<1>3. CapFull'
  BY <1>1 DEF Error, Forget, NoCap, CapFull, RInv, memory
<1> QED
  BY <1>1, <1>2, <1>3, FailedRest

(* write_metadata: the disk now says what memory does.                     *)
LEMMA SaveRest == IInv /\ RInv /\ Save => RInv'
<1> SUFFICES ASSUME IInv, RInv, Save PROVE RInv'
  OBVIOUS
<1>1. /\ pc = "save" /\ pc' = "idle" /\ saved' = Record
      /\ UNCHANGED <<devs, caches, segs, cap, next, flex, dev, thin, why, changed, dirty, met>>
  BY DEF Save, memory
<1>2. Up /\ Up'
  BY <1>1 DEF Up, Running, Checking
<1>3. Calm' /\ CapFull'
  BY <1>1 DEF RInv, Calm, CapFull
<1>4. saved' # NoSave
  BY <1>1, <1>2, RecordStep, NoSaveAssumption
<1>5. ASSUME met' = {} PROVE Synced' /\ OnDisk'
  <2>1. Synced
    BY <1>1, <1>2, <1>5 DEF RInv
  <2>2. Synced'
    BY <1>1, <2>1 DEF Synced
  <2>3. saved'.devs = devs /\ saved'.flex = flex
        /\ saved'.caches = IF cap.kind = "cache" THEN caches ELSE 0
    BY <1>1 DEF Record
  <2>4. saved'.caches = caches
    BY <2>1, <2>3 DEF Synced
  <2> QED
    BY <1>1, <1>4, <2>2, <2>3, <2>4 DEF OnDisk
<1> QED
  BY <1>3, <1>5 DEF RInv

(* The steps of creation: the metadata is saved at its end.                *)
LEMMA NewRest == IInv /\ RInv /\ (New \/ NewFails) => RInv'
<1> SUFFICES ASSUME IInv, RInv, New \/ NewFails PROVE RInv'
  OBVIOUS
<1>1. CASE NewFails
  <2>1. pc' = "gone" /\ UNCHANGED <<segs, cap, met>>
    BY <1>1 DEF NewFails, memory
  <2>2. Calm' /\ CapFull' /\ ~Up' /\ ~Resting'
    BY <2>1 DEF RInv, Calm, CapFull, Up, Resting, Running, Checking
  <2> QED
    BY <2>2 DEF RInv
<1>2. CASE New
  <2> DEFINE total == 2 * MetaInit + DataInit + MdvInit
  <2>1. /\ pc = "new" /\ pc' = "meta" /\ segs' = total /\ cap' = [kind |-> "linear", size |-> total]
        /\ flex'["data"] = 2 * MetaInit .. 2 * MetaInit + DataInit - 1
        /\ thin' = [data |-> DataInit, meta |-> flex'["meta"]]
        /\ UNCHANGED <<caches, why>>
    BY <1>2, Zenon DEF New
  <2> HIDE DEF total
  <2>2. why = "create" /\ caches = 0
    BY <2>1, Zenon DEF RInv, Calm
  <2>3. Calm' /\ CapFull' /\ ~Resting'
    BY <2>1, <2>2 DEF Calm, CapFull, Resting, Owing
  <2>4. Size(flex'["data"]) = DataInit
    <3> DEFINE n == 2 * MetaInit
    <3>1. n \in Nat /\ DataInit \in Nat
      BY PoolSpaceAssumption
    <3>2. flex'["data"] = n .. n + DataInit - 1
      BY <2>1
    <3> HIDE DEF n
    <3>3. Size(n .. n + DataInit - 1) = DataInit
      BY <3>1, RegionSize, Zenon
    <3> QED
      BY <3>2, <3>3
  <2>5. Synced'
    BY <2>1, <2>2, <2>4 DEF Synced
  <2> QED
    BY <2>3, <2>5, Zenon DEF RInv
<1> QED
  BY <1>1, <1>2

(* The commands that begin a check or a save.                              *)
LEMMA CommandRest == IInv /\ RInv /\ (EventOn \/ SetUserInfo \/ AddDatadevs) => RInv'
<1> SUFFICES ASSUME IInv, RInv, EventOn \/ SetUserInfo \/ AddDatadevs PROVE RInv'
  OBVIOUS
<1>1. /\ pc = "idle" /\ Up /\ Resting
      /\ UNCHANGED <<caches, segs, cap, next, flex, dev, thin, saved, changed, dirty, met>>
  BY DEF EventOn, SetUserInfo, AddDatadevs, Begin, memory, Up, Resting, Running, Checking
<1>2. ~changed /\ ~dirty
  BY <1>1 DEF RInv, Calm
<1>3. pc' \in {"meta", "save"} /\ (UNCHANGED devs \/ (pc' = "meta" /\ why' = "add"))
  BY DEF EventOn, SetUserInfo, AddDatadevs, Begin
<1>4. Calm' /\ CapFull'
  BY <1>1, <1>2, <1>3, Zenon DEF RInv, Calm, CapFull
<1>5. Synced => Synced'
  BY <1>1, Zenon DEF Synced
<1>6. Resting' /\ OnDisk => OnDisk'
  BY <1>1, <1>3 DEF Resting, Owing, OnDisk
<1> QED
  BY <1>1, <1>4, <1>5, <1>6 DEF RInv

(* The cache tier.                                                         *)
LEMMA CacheRest == IInv /\ RInv /\ (InitCache \/ AddCachedevs) => RInv'
<1> SUFFICES ASSUME IInv, RInv, InitCache \/ AddCachedevs PROVE RInv'
  OBVIOUS
<1>1. /\ pc = "idle" /\ Up /\ UNCHANGED <<segs, flex, thin, changed, dirty>>
      /\ cap = [kind |-> cap.kind, size |-> cap.size]
  BY DEF InitCache, AddCachedevs, Begin, Up, Running, Checking, IInv, MemoryInv
<1>2. /\ pc' \in {"save", "idle", "panic"} /\ met \subseteq met'
      /\ \/ cap' = cap \/ cap' = NoCap
         \/ cap.kind = "linear" /\ cap' = [kind |-> "cache", size |-> cap.size]
      /\ \/ met' # {}
         \/ /\ pc' = "save" /\ met' = met /\ cap'.kind = "cache"
  <2>1. ASSUME AddCachedevs
        PROVE  /\ pc' \in {"save", "idle"} /\ met \subseteq met' /\ cap' = cap
               /\ met' # {} \/ (pc' = "save" /\ met' = met /\ cap'.kind = "cache")
    BY <2>1 DEF AddCachedevs
  <2>2. ASSUME InitCache, cap.kind = "linear"
        PROVE  /\ pc' \in {"save", "idle"} /\ met \subseteq met'
               /\ cap' \in {[kind |-> "cache", size |-> cap.size], NoCap}
               /\ met' # {} \/ (pc' = "save" /\ met' = met /\ cap'.kind = "cache")
    BY <2>2, <1>1 DEF InitCache
  <2>3. ASSUME InitCache, cap.kind # "linear"
        PROVE  pc' = "panic" /\ met' = met /\ cap' = cap /\ met # {}
    BY <2>3, <1>1 DEF InitCache, RInv, Synced
  <2> QED
    BY <2>1, <2>2, <2>3
<1>3. Calm'
  BY <1>1, <1>2 DEF RInv, Calm
<1>4. CapFull'
  BY <1>1, <1>2 DEF RInv, CapFull, NoCap
<1>5. CASE met' # {}
  BY <1>3, <1>4, <1>5, FailedRest
<1>6. CASE pc' = "save" /\ met' = met /\ cap'.kind = "cache"
  <2>1. ~Resting'
    BY <1>6 DEF Resting, Checking
  <2>2. Synced => Synced'
    BY <1>1, <1>6 DEF Synced
  <2> QED
    BY <1>1, <1>3, <1>4, <1>6, <2>1, <2>2 DEF RInv
<1> QED
  BY <1>2, <1>5, <1>6

LEMMA RefuseCacheRest == IInv /\ RInv /\ RefuseCache => RInv'
<1> SUFFICES ASSUME IInv, RInv, RefuseCache PROVE RInv'
  OBVIOUS
<1>1. pc = "idle" /\ UNCHANGED <<devs, caches, memory, thin, saved, pc, changed, dirty, met>>
  BY DEF RefuseCache, Begin
<1>2. Calm' /\ Up /\ Resting
  BY <1>1 DEF RInv, Calm, Up, Resting, Running, Checking
<1> QED
  BY <1>1, <1>2, QuietRest

LEMMA CrashRest == IInv /\ RInv /\ Crash => RInv'
<1> SUFFICES ASSUME IInv, RInv, Crash PROVE RInv'
  OBVIOUS
<1>1. pc' \in {"gone", "down"} /\ cap' = NoCap /\ changed' = FALSE /\ dirty' = FALSE
  BY DEF Crash, Forget
<1>2. Calm' /\ CapFull' /\ ~Up' /\ ~Resting'
  BY <1>1 DEF Calm, CapFull, NoCap, Up, Resting, Running, Checking
<1> QED
  BY <1>2 DEF RInv

(* setup takes over what is on disk, so the two agree again.               *)
LEMMA SetupRest == IInv /\ RInv /\ Setup => RInv'
<1> SUFFICES ASSUME IInv, RInv, Setup PROVE RInv'
  OBVIOUS
<1>1. /\ pc = "down" /\ pc' = "meta" /\ why' = "setup" /\ Recoverable
      /\ segs' = saved.segs
      /\ dev' = IF saved.caches = 0 THEN "linear" ELSE "cache"
      /\ cap' = [kind |-> dev', size |-> saved.segs]
      /\ thin' = [data |-> Size(flex'["data"]), meta |-> flex'["meta"]]
      /\ UNCHANGED <<devs, caches, saved, changed, dirty, met>>
  BY Zenon DEF Setup
<1>2. saved # NoSave /\ saved.devs = devs /\ saved.caches = caches
  BY <1>1, Zenon DEF Recoverable
<1>3. Calm' /\ CapFull'
  BY <1>1 DEF Calm, CapFull
<1>4. Synced'
  <2>1. dev' \in {"linear", "cache"} /\ (dev' # "cache" => caches = 0)
    BY <1>1, <1>2, Zenon
  <2> QED
    BY <1>1, <2>1 DEF Synced
<1>5. OnDisk'
  <2> DEFINE f == saved.flex
  <2>1. f \in [Flex -> SUBSET (0 .. saved.next - 1)]
    BY <1>2 DEF IInv, SavedInv, Sound
  <2>2. flex' = f \/ flex' = [f EXCEPT !["meta"] = f["spare"], !["spare"] = f["meta"]]
    BY Zenon DEF Setup
  <2> HIDE DEF f
  <2>3. flex'["data"] = f["data"] /\ f["meta"] \in {flex'["meta"], flex'["spare"]}
    BY <2>1, <2>2 DEF Flex
  <2> QED
    BY <1>1, <1>2, <2>3, Zenon DEF OnDisk, f
<1> QED
  BY <1>3, <1>4, <1>5 DEF RInv

LEMMA RestPreserved == IInv /\ RInv /\ [Next]_vars => RInv'
<1> SUFFICES ASSUME IInv, RInv, [Next]_vars PROVE RInv'
  OBVIOUS
<1>1. CASE UNCHANGED vars
  <2>1. UNCHANGED <<devs, caches, memory, thin, saved, pc, why, changed, dirty, met>>
    BY <1>1 DEF vars
  <2>2. Calm' /\ (Up' => Up) /\ (Resting' => Resting)
    BY <2>1 DEF RInv, Calm, Up, Resting, Owing
  <2> QED
    BY <2>1, <2>2, QuietRest
<1>2. CASE Next
  BY <1>2, NewRest, CheckMetaRest, CheckDataRest, CheckWaterRest, ErrorRest, SaveRest,
     CommandRest, CacheRest, RefuseCacheRest, CrashRest, SetupRest DEF Next
<1> QED
  BY <1>1, <1>2

LEMMA RestInvariance == Spec => []RInv
<1>1. Init => RInv
  BY RestStart
<1>2. IInv /\ RInv /\ [Next]_vars => RInv'
  BY RestPreserved
<1> QED
  BY <1>1, <1>2, SpaceInvariance, PTL DEF Spec

(* As long as nothing has failed, a pool that is at rest has on disk what  *)
(* setup needs: the devices of the metadata are those there are, the       *)
(* metadata passes check_metadata, and the thin pool finds the space that  *)
(* the kernel was given, crashes in the middle of a command included.      *)
THEOREM RestingPoolsCanBeSetUp == Spec => []RestIsRecoverable
<1>1. IInv /\ RInv /\ SavedPassesCheck => RestIsRecoverable
  <2> SUFFICES ASSUME IInv, RInv, SavedPassesCheck, pc = "idle", met = {} PROVE Recoverable
    BY DEF RestIsRecoverable
  <2>1. Synced /\ OnDisk
    BY DEF RInv, Up, Resting, Running, Checking
  <2>2. CheckMetadata(saved)
    BY <2>1 DEF SavedPassesCheck, OnDisk
  <2>3. /\ saved.next \in Nat
        /\ saved.flex["data"] \in SUBSET (0 .. saved.next - 1)
        /\ saved.flex["meta"] \in SUBSET (0 .. saved.next - 1)
    BY <2>1 DEF OnDisk, IInv, SavedInv, Sound, Flex
  <2>4. Size(saved.flex["data"]) \in Nat /\ Size(saved.flex["meta"]) \in Nat
    BY <2>3, BelowSize
  <2>5. flex["meta"] \cap flex["spare"] = {}
    BY DEF IInv, MemoryInv, Sound, Disjoint, Flex
  <2>6. thin.data <= Size(saved.flex["data"])
    BY <2>1, <2>4 DEF Synced, OnDisk
  <2>7. thin.meta \cap saved.flex["meta"] # {} => Size(thin.meta) <= Size(saved.flex["meta"])
    BY <2>1, <2>4, <2>5 DEF Synced, OnDisk
  <2> QED
    BY <2>1, <2>2, <2>6, <2>7 DEF OnDisk, Recoverable
<1> QED
  BY <1>1, SpaceInvariance, RestInvariance, SavedMetadataPasses, PTL

----------------------------------------------------------------------------
(* What has been rounded down once is not changed by rounding it again.    *)
LEMMA FloorTwice ==
    ASSUME NEW n \in Nat, NEW m \in Nat \ {0}
    PROVE  Floor(Floor(n, m), m) = Floor(n, m)
<1> DEFINE k == n \div m
<1>1. k \in Nat
  OBVIOUS
<1> HIDE DEF k
<1>2. (k * m) \div m = k
  BY <1>1
<1> QED
  BY <1>2 DEF Floor, k

(* do_check's request for the data device is granted in full, by the first *)
(* attempt of Backstore::request, unless the cap device could not be       *)
(* extended before.                                                        *)
THEOREM AllTheSpaceIsGranted == Spec => []AllSpaceGranted
<1>1. IInv /\ RInv => AllSpaceGranted
  <2> SUFFICES ASSUME IInv, RInv, pc = "data", "cap" \notin met
               PROVE  {g.amt : g \in Request(Usable - next, DataBlock)}
                        = {Floor(Usable - next, DataBlock)} \ {0}
    BY DEF AllSpaceGranted
  <2> DEFINE a == Usable - next
             r == Floor(a, DataBlock)
  <2>1. cap.size = segs /\ next <= segs /\ segs <= Usable /\ segs \in Nat /\ next \in Nat /\ Usable \in Nat
    BY UsableBound DEF IInv, StepInv, RInv, CapFull, MemoryInv, Sound, PlainTypes
  <2>2. a \in Nat /\ DataBlock \in Nat \ {0}
    BY <2>1, PoolSpaceAssumption
  <2>3. r \in 0 .. a
    BY <2>2, FloorBound
  <2>4. Floor(r, DataBlock) = r
    BY <2>2, FloorTwice
  <2> HIDE DEF r
  <2> HIDE DEF a
  <2>5. ASSUME r = 0 PROVE {g.amt : g \in Request(a, DataBlock)} = {r} \ {0}
    <3>1. Request(a, DataBlock) = {}
      BY <2>5 DEF Request, r
    <3> QED
      BY <3>1, <2>5
  <2>6. ASSUME r # 0, cap.size - next >= r
        PROVE  {g.amt : g \in Request(a, DataBlock)} = {r} \ {0}
    <3> DEFINE x == [size |-> cap.size, segs |-> segs, amt |-> r]
    <3>1. Request(a, DataBlock) = {x}
      BY <2>6 DEF Request, r
    <3>2. x.amt = r
      OBVIOUS
    <3> HIDE DEF x
    <3> QED
      BY <3>1, <3>2, <2>6
  <2>7. ASSUME r # 0, ~(cap.size - next >= r)
        PROVE  {g.amt : g \in Request(a, DataBlock)} = {r} \ {0}
    <3>1. Fits(r)
      BY <2>1, <2>2, <2>3, <2>7 DEF Fits, a
    <3>2. FirstThatFits(r, DataBlock) = {r}
      BY <3>1 DEF FirstThatFits
    <3> DEFINE s == segs + r - (cap.size - next)
               x == Grant(s, a, DataBlock)
    <3>3. s - next = r
      BY <2>1, <2>3, <2>2
    <3>4. Least(a, s - next) = r
      BY <3>3, <2>2, <2>3 DEF Least
    <3>5. x.amt = r
      BY <3>4, <2>4, Zenon DEF Grant
    <3>6. Request(a, DataBlock) = {x}
      BY <3>2, <2>7 DEF Request, r
    <3> HIDE DEF x
    <3> QED
      BY <3>5, <3>6, <2>7
  <2> QED
    BY <2>5, <2>6, <2>7 DEF a, r
<1> QED
  BY <1>1, SpaceInvariance, RestInvariance, PTL
=============================================================================
