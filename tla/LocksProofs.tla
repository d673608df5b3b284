----------------------------- MODULE LocksProofs -----------------------------
(***************************************************************************)
(* Proofs about Locks: what a request and a guard that is dropped do to    *)
(* those who hold a lock and to those who wait for it.                     *)
(***************************************************************************)
EXTENDS Integers, Locks, FiniteSetTheorems, WellFoundedInduction, TLAPS

(* The time a leaf may take: long modules slow the prover down.            *)
USE SMTT(20), ZenonT(20)

Less == {ss \in Nat \X Nat : ss[1] < ss[2]}

LEMMA LessWellFounded == IsWellFoundedOn(Less, Nat)
  BY NatLessThanWellFounded DEF OpToRel, Less

LEMMA LeastNat ==
    ASSUME NEW S \in SUBSET Nat, S # {}
    PROVE  \E x \in S : \A y \in S : x <= y
<1>1. PICK x \in S : \A y \in S : ~(<<y, x>> \in Less)
  BY LessWellFounded, WFMin, Zenon
<1>2. \A y \in S : y < x => <<y, x>> \in Less
  BY DEF Less
<1>3. \A y \in S : ~(y < x)
  BY <1>1, <1>2, Zenon
<1> QED
  BY <1>3

Requests(P) == [who : P, exclusive : BOOLEAN]
LockType(P) == [readers : SUBSET P, writers : SUBSET P, waiting : Seq(Requests(P))]
OneEach(q) == \A i, j \in DOMAIN q : q[i].who = q[j].who => i = j

GoodLock(lock, P, X) ==
    /\ lock \in LockType(P)
    /\ \A v, w \in lock.writers : v = w
    /\ lock.writers # {} => lock.readers = {}
    /\ lock.readers \cap X = {} /\ lock.writers \subseteq X
    /\ \A i \in DOMAIN lock.waiting : lock.waiting[i].exclusive <=> lock.waiting[i].who \in X
    /\ OneEach(lock.waiting)
    /\ (lock.readers \cup lock.writers) \cap Waiters(lock) = {}

Served(lock) == lock.waiting # <<>> => ~Admits(lock, Head(lock.waiting))

----------------------------------------------------------------------------
Rank(kept, i) == Cardinality({j \in kept : j <= i})

LEMMA Ranks ==
    ASSUME NEW n \in Nat, NEW kept, \A j \in kept : j \in Nat /\ 1 <= j /\ j <= n
    PROVE  /\ IsFiniteSet(kept) /\ Cardinality(kept) \in Nat
           /\ \A i \in Int : IsFiniteSet({j \in kept : j <= i}) /\ Rank(kept, i) \in 0 .. Cardinality(kept)
           /\ \A i \in kept : Rank(kept, i) >= 1
           /\ \A i \in Int, j \in kept : i < j => Rank(kept, i) < Rank(kept, j)
           /\ \A i \in kept : Rank(kept, i) = Rank(kept, i - 1) + 1
           /\ \A i \in Int \ kept : Rank(kept, i) = Rank(kept, i - 1)
           /\ Rank(kept, n) = Cardinality(kept) /\ Rank(kept, 0) = 0
<1>0. \A j \in kept : j \in Nat /\ 1 <= j /\ j <= n
  OBVIOUS
<1>1. IsFiniteSet(kept) /\ Cardinality(kept) \in Nat
  <2>1. kept \in SUBSET Nat /\ \A j \in kept : j <= n
    OBVIOUS
  <2>2. IsFiniteSet(kept)
    BY <2>1, FS_BoundedSetOfNaturals
  <2> QED
    BY <2>2, FS_CardinalityType
<1>2. ASSUME NEW i \in Int
      PROVE  /\ IsFiniteSet({j \in kept : j <= i}) /\ Rank(kept, i) \in 0 .. Cardinality(kept)
  <2>1. {j \in kept : j <= i} \subseteq kept
    BY <1>0
  <2>2. IsFiniteSet({j \in kept : j <= i}) /\ Cardinality({j \in kept : j <= i}) <= Cardinality(kept)
    BY <1>1, <2>1, FS_Subset
  <2> QED
    BY <1>1, <2>2, FS_CardinalityType DEF Rank
<1>3. ASSUME NEW i \in Int, NEW k \in kept, i < k
      PROVE  Rank(kept, i) < Rank(kept, k)
  <2> DEFINE A == {j \in kept : j <= i}  B == {j \in kept : j <= k}
  <2>1. A \subseteq B /\ k \in B /\ k \notin A
    BY <1>0, <1>3
  <2>2. IsFiniteSet(B)
    BY <1>0, <1>2
  <2> HIDE DEF A, B
  <2>3. Cardinality(A) < Cardinality(B)
    BY <2>1, <2>2, FS_Subset, FS_CardinalityType
  <2> QED
    BY <2>3 DEF A, B, Rank
<1>4. ASSUME NEW i \in kept
      PROVE  Rank(kept, i) = Rank(kept, i - 1) + 1
  <2> DEFINE A == {j \in kept : j <= i - 1}
  <2>1. {j \in kept : j <= i} = A \cup {i} /\ i \notin A
    BY <1>0
  <2>2. IsFiniteSet(A)
    BY <1>0, <1>2
  <2> HIDE DEF A
  <2>3. Cardinality(A \cup {i}) = Cardinality(A) + 1
    BY <2>1, <2>2, FS_AddElement
  <2> QED
    BY <2>1, <2>3 DEF A, Rank
<1>5. ASSUME NEW i \in Int \ kept
      PROVE  Rank(kept, i) = Rank(kept, i - 1)
  <2>1. {j \in kept : j <= i} = {j \in kept : j <= i - 1}
    BY <1>0
  <2> QED
    BY <2>1 DEF Rank
<1>6. Rank(kept, n) = Cardinality(kept)
  <2>1. {j \in kept : j <= n} = kept
    BY <1>0
  <2> QED
    BY <2>1 DEF Rank
<1>7. Rank(kept, 0) = 0
  <2>1. {j \in kept : j <= 0} = {}
    BY <1>0
  <2> QED
    BY <2>1, FS_EmptySet DEF Rank
<1>8. \A i \in kept : Rank(kept, i) >= 1
  <2>1. ASSUME NEW i \in kept PROVE Rank(kept, i) >= 1
    <3>1. i - 1 \in Int
      BY <1>0
    <3>2. Rank(kept, i - 1) \in Nat
      BY <1>2, <3>1, FS_CardinalityType DEF Rank
    <3>3. Rank(kept, i) = Rank(kept, i - 1) + 1
      BY <1>4
    <3> QED
      BY <3>2, <3>3
  <2> QED
    BY <2>1
<1> QED
  BY <1>1, <1>2, <1>3, <1>4, <1>5, <1>6, <1>7, <1>8

(* What is left of a queue: the others, each once.                         *)
Thinned(R, q, whos, s) ==
    /\ s \in Seq(R)
    /\ \A k \in DOMAIN s : \E i \in DOMAIN q : s[k] = q[i] /\ q[i].who \notin whos
    /\ \A i \in DOMAIN q : q[i].who \notin whos => \E k \in DOMAIN s : s[k] = q[i]
    /\ OneEach(q) => OneEach(s)

LEMMA WithoutIs ==
    ASSUME NEW R, NEW q \in Seq(R), NEW whos
    PROVE  Thinned(R, q, whos, Without(q, whos))
<1> DEFINE kept == {i \in DOMAIN q : q[i].who \notin whos}
           n == Len(q)
           m == Cardinality(kept)
           Nth(k) == CHOOSE i \in kept : Rank(kept, i) = k
<1>1. n \in Nat /\ \A j \in kept : j \in Nat /\ 1 <= j /\ j <= n
  OBVIOUS
<1>2. Without(q, whos) = [k \in 1 .. m |-> q[Nth(k)]]
  BY DEF Without, Rank
<1>k. \A i : i \in kept <=> i \in DOMAIN q /\ q[i].who \notin whos
  OBVIOUS
<1>r. \A i \in kept : q[i] \in R
  OBVIOUS
<1> HIDE DEF kept, n
<1>3. /\ m \in Nat
      /\ \A i \in Int : Rank(kept, i) \in 0 .. m
      /\ \A i \in kept : Rank(kept, i) >= 1
      /\ \A i \in Int, j \in kept : i < j => Rank(kept, i) < Rank(kept, j)
      /\ \A i \in kept : Rank(kept, i) = Rank(kept, i - 1) + 1
      /\ \A i \in Int \ kept : Rank(kept, i) = Rank(kept, i - 1)
      /\ Rank(kept, n) = m /\ Rank(kept, 0) = 0
  BY <1>1, Ranks, Zenon
<1> HIDE DEF m
<1>4. ASSUME NEW k \in 1 .. m PROVE \E i \in kept : Rank(kept, i) = k
  <2> DEFINE S == {i \in Nat : Rank(kept, i) >= k}
  <2>1. n \in S
    BY <1>1, <1>3
  <2>2. PICK i \in S : \A j \in S : i <= j
    BY <2>1, LeastNat, Zenon
  <2>3. i # 0
    BY <1>3, <2>2
  <2>4. i - 1 \in Nat /\ i - 1 \notin S
    BY <2>2, <2>3
  <2>5. Rank(kept, i - 1) < k
    BY <1>3, <2>4
  <2>6. Rank(kept, i) >= k /\ i \in Int
    BY <2>2
  <2>7. i \in kept
    BY <1>3, <2>5, <2>6
  <2>8. Rank(kept, i) = Rank(kept, i - 1) + 1 /\ Rank(kept, i - 1) \in Nat
    BY <1>3, <2>4, <2>7
  <2> QED
    BY <2>5, <2>6, <2>7, <2>8
<1>5. \A k \in 1 .. m : Nth(k) \in kept /\ Rank(kept, Nth(k)) = k
  BY <1>4
<1>6. ASSUME NEW i \in kept PROVE Rank(kept, i) \in 1 .. m /\ Nth(Rank(kept, i)) = i
  <2>1. Rank(kept, i) \in 1 .. m
    BY <1>1, <1>3
  <2>2. PICK j \in kept : j = Nth(Rank(kept, i)) /\ Rank(kept, j) = Rank(kept, i)
    BY <1>5, <2>1
  <2>3. i \in Int /\ j \in Int
    BY <1>1
  <2>4. Rank(kept, i) \in Int
    BY <2>1
  <2>a. ASSUME i < j PROVE FALSE
    <3>1. Rank(kept, i) < Rank(kept, j)
      BY <1>3, <2>3, <2>a
    <3> QED
      BY <2>2, <2>4, <3>1
  <2>b. ASSUME j < i PROVE FALSE
    <3>1. Rank(kept, j) < Rank(kept, i)
      BY <1>3, <2>3, <2>b
    <3> QED
      BY <2>2, <2>4, <3>1
  <2>5. i = j
    BY <2>3, <2>a, <2>b
  <2> QED
    BY <2>1, <2>2, <2>5
<1> HIDE DEF Nth
<1> DEFINE w == Without(q, whos)
<1>7. DOMAIN w = 1 .. m /\ \A k \in 1 .. m : w[k] = q[Nth(k)]
  BY <1>2
<1>8. w \in Seq(R)
  BY <1>2, <1>3, <1>5, <1>r
<1> HIDE DEF w
<1>9. ASSUME NEW k \in DOMAIN w PROVE \E i \in DOMAIN q : w[k] = q[i] /\ q[i].who \notin whos
  BY <1>5, <1>7, <1>k
<1>10. ASSUME NEW i \in DOMAIN q, q[i].who \notin whos PROVE \E k \in DOMAIN w : w[k] = q[i]
  BY <1>6, <1>7, <1>10, <1>k
<1>11. ASSUME OneEach(q) PROVE OneEach(w)
  <2> SUFFICES ASSUME NEW k \in 1 .. m, NEW l \in 1 .. m, w[k].who = w[l].who PROVE k = l
    BY <1>7 DEF OneEach
  <2>1. Nth(k) = Nth(l)
    BY <1>5, <1>7, <1>11, <1>k DEF OneEach
  <2> QED
    BY <1>5, <2>1
<1> QED
  BY <1>8, <1>9, <1>10, <1>11 DEF Thinned, w

(* How many at the front ask to share.                                     *)
LEMMA SharedPrefixIs ==
    ASSUME NEW P, NEW q \in Seq(Requests(P))
    PROVE  /\ SharedPrefix(q) \in 0 .. Len(q)
           /\ \A i \in 1 .. SharedPrefix(q) : ~q[i].exclusive
           /\ SharedPrefix(q) < Len(q) => q[SharedPrefix(q) + 1].exclusive
<1> DEFINE Ok(n) == /\ \A i \in 1 .. n : ~q[i].exclusive
                    /\ n < Len(q) => q[n + 1].exclusive
<1>1. \E n \in 0 .. Len(q) : Ok(n)
  <2> DEFINE S == {i \in 1 .. Len(q) : q[i].exclusive}
  <2>0. Len(q) \in Nat
    OBVIOUS
  <2>1. CASE S = {}
    <3>1. Ok(Len(q))
      BY <2>0, <2>1
    <3> QED
      BY <2>0, <3>1
  <2>2. CASE S # {}
    <3>1. S \in SUBSET Nat
      BY <2>0
    <3>2. PICK x \in S : \A y \in S : x <= y
      BY <2>2, <3>1, LeastNat, Zenon
    <3>3. x \in Nat /\ 1 <= x /\ x <= Len(q) /\ q[x].exclusive
      BY <2>0, <3>2
    <3>4. \A i \in 1 .. x - 1 : ~q[i].exclusive
      BY <2>0, <3>2, <3>3
    <3>5. Ok(x - 1)
      BY <3>3, <3>4
    <3>6. x - 1 \in 0 .. Len(q)
      BY <2>0, <3>3
    <3> HIDE DEF Ok
    <3> QED
      BY <3>5, <3>6
  <2> QED
    BY <2>1, <2>2
<1>2. SharedPrefix(q) = CHOOSE n \in 0 .. Len(q) : Ok(n)
  BY DEF SharedPrefix
<1> HIDE DEF Ok
<1>3. SharedPrefix(q) \in 0 .. Len(q) /\ Ok(SharedPrefix(q))
  BY <1>1, <1>2
<1> QED
  BY <1>3 DEF Ok

(* What is left of a queue whose first n have been served.                 *)
LEMMA RestIs ==
    ASSUME NEW R, NEW q \in Seq(R), NEW n \in 0 .. Len(q)
    PROVE  /\ SubSeq(q, n + 1, Len(q)) \in Seq(R)
           /\ Len(SubSeq(q, n + 1, Len(q))) = Len(q) - n
           /\ \A k \in 1 .. Len(q) - n : SubSeq(q, n + 1, Len(q))[k] = q[n + k]
  OBVIOUS

(* The first n of the queue are given what they ask for.                   *)
Given(lock, l, new, n, X) ==
    /\ n \in 1 .. Len(lock.waiting) /\ new = {lock.waiting[i].who : i \in 1 .. n}
    /\ l.waiting = SubSeq(lock.waiting, n + 1, Len(lock.waiting))
    /\ lock.writers = {}
    /\ \/ l.readers = lock.readers \cup new /\ l.writers = lock.writers /\ new \cap X = {}
       \/ /\ l.writers = new /\ l.readers = lock.readers
          /\ lock.readers = {} /\ n = 1 /\ new \subseteq X

LEMMA ServeGood ==
    ASSUME NEW P, NEW X, NEW lock, GoodLock(lock, P, X), NEW n, NEW new, NEW l \in LockType(P),
           Given(lock, l, new, n, X)
    PROVE  GoodLock(l, P, X) /\ Parties(l) = Parties(lock)
<1> DEFINE q == lock.waiting
           s == l.waiting
<1>1. /\ q \in Seq(Requests(P)) /\ OneEach(q) /\ Len(q) \in Nat /\ DOMAIN q = 1 .. Len(q)
      /\ \A i \in DOMAIN q : q[i].exclusive <=> q[i].who \in X
      /\ (lock.readers \cup lock.writers) \cap Waiters(lock) = {}
      /\ lock.readers \cap X = {} /\ lock.writers \subseteq X
  BY DEF GoodLock, LockType
<1>0. /\ n \in 1 .. Len(q) /\ new = {q[i].who : i \in 1 .. n}
      /\ s = SubSeq(q, n + 1, Len(q))
      /\ lock.writers = {}
      /\ \/ l.readers = lock.readers \cup new /\ l.writers = lock.writers /\ new \cap X = {}
         \/ /\ l.writers = new /\ l.readers = lock.readers
            /\ lock.readers = {} /\ n = 1 /\ new \subseteq X
  BY DEF Given
<1>2. n \in Nat /\ 1 <= n /\ n <= Len(q)
  BY <1>0, <1>1
<1>3. /\ DOMAIN s = 1 .. Len(q) - n
      /\ \A k \in 1 .. Len(q) - n : s[k] = q[n + k]
  BY <1>0, <1>1, <1>2, RestIs
<1>4. \A k \in DOMAIN s : n + k \in DOMAIN q /\ n + k > n /\ s[k] = q[n + k]
  BY <1>1, <1>2, <1>3
<1>5. \A i \in DOMAIN q : i > n => i - n \in DOMAIN s /\ s[i - n] = q[i]
  BY <1>1, <1>2, <1>3
<1>6. new = {q[i].who : i \in 1 .. n}
  BY <1>0
<1> HIDE DEF q, s
<1>7. OneEach(s)
  BY <1>1, <1>2, <1>3, <1>4 DEF OneEach
<1>8. \A k \in DOMAIN s : s[k].exclusive <=> s[k].who \in X
  BY <1>1, <1>4
<1>9. Waiters(lock) = {q[i].who : i \in DOMAIN q} /\ Waiters(l) = {s[i].who : i \in DOMAIN s}
  BY DEF Waiters, q, s
<1>10. Waiters(l) \cap new = {}
  <2> SUFFICES ASSUME NEW k \in DOMAIN s, NEW i \in 1 .. n, s[k].who = q[i].who PROVE FALSE
    BY <1>6, <1>9
  <2>1. n + k \in DOMAIN q /\ i \in DOMAIN q /\ n + k # i /\ q[n + k].who = q[i].who
    BY <1>1, <1>2, <1>3, <1>4
  <2> QED
    BY <1>1, <2>1 DEF OneEach
<1>11. Waiters(l) \cup new = Waiters(lock)
  <2>1. Waiters(l) \subseteq Waiters(lock)
    BY <1>4, <1>9
  <2>2. new \subseteq Waiters(lock)
    <3>1. \A i \in 1 .. n : i \in DOMAIN q
      BY <1>1, <1>2
    <3> QED
      BY <1>6, <1>9, <3>1
  <2>3. ASSUME NEW i \in DOMAIN q PROVE q[i].who \in Waiters(l) \cup new
    <3>1. CASE i <= n
      <4>1. i \in 1 .. n
        BY <1>1, <1>2, <3>1
      <4> QED
        BY <1>6, <4>1
    <3>2. CASE i > n
      BY <1>5, <1>9, <3>2
    <3> QED
      BY <1>1, <1>2, <3>1, <3>2
  <2> QED
    <3>1. Waiters(lock) \subseteq Waiters(l) \cup new
      BY <1>9, <2>3
    <3> QED
      BY <2>1, <2>2, <3>1
<1>12. Parties(l) = Parties(lock)
  BY <1>0, <1>11 DEF Parties
<1>13. (l.readers \cup l.writers) \cap Waiters(l) = {}
  BY <1>0, <1>1, <1>10, <1>11
<1>14. /\ \A v, w \in l.writers : v = w
       /\ l.writers # {} => l.readers = {}
       /\ l.readers \cap X = {} /\ l.writers \subseteq X
  BY <1>0, <1>1
<1> QED
  BY <1>7, <1>8, <1>12, <1>13, <1>14 DEF GoodLock, s

(* A guard that is dropped hands the lock to whom it can.                  *)
LEMMA HandOverGood ==
    ASSUME NEW P, NEW X, NEW lock, GoodLock(lock, P, X)
    PROVE  /\ GoodLock(HandOver(lock), P, X) /\ Served(HandOver(lock))
           /\ Parties(HandOver(lock)) = Parties(lock)
           /\ lock.readers \subseteq HandOver(lock).readers
           /\ lock.writers \subseteq HandOver(lock).writers
<1> DEFINE q == lock.waiting
           n == SharedPrefix(q)
           l == HandOver(lock)
<1>1. /\ lock = [readers |-> lock.readers, writers |-> lock.writers, waiting |-> q]
      /\ lock.readers \in SUBSET P /\ lock.writers \in SUBSET P /\ q \in Seq(Requests(P))
  BY DEF GoodLock, LockType
<1>2. CASE q = <<>> \/ ~Admits(lock, Head(q))
  <2>1. l = lock
    BY <1>2 DEF HandOver
  <2> QED
    BY <1>2, <2>1 DEF Served
<1>3. CASE q # <<>> /\ Admits(lock, Head(q)) /\ Head(q).exclusive
  <2>1. l = [readers |-> lock.readers, writers |-> {Head(q).who}, waiting |-> Tail(q)]
    BY <1>1, <1>3, Zenon DEF HandOver, Exclusive
  <2>2. l.readers = lock.readers /\ l.writers = {Head(q).who} /\ l.waiting = Tail(q)
    BY <2>1
  <2>3. Len(q) \in Nat /\ 1 \in 1 .. Len(q) /\ Head(q) = q[1] /\ q[1] \in Requests(P)
    BY <1>1, <1>3
  <2>4. Tail(q) = SubSeq(q, 1 + 1, Len(q)) /\ Tail(q) \in Seq(Requests(P))
    BY <1>1, <1>3
  <2>5. Head(q).who \in P /\ {Head(q).who} = {q[i].who : i \in 1 .. 1}
    BY <2>3 DEF Requests
  <2>6. l \in LockType(P)
    BY <1>1, <2>1, <2>4, <2>5 DEF LockType
  <2>7. lock.writers = {} /\ lock.readers = {}
    BY <1>3 DEF Admits
  <2>8. {Head(q).who} \subseteq X
    BY <1>1, <1>3, <2>3 DEF GoodLock
  <2> HIDE DEF l
  <2>9. GoodLock(l, P, X) /\ Parties(l) = Parties(lock)
    <3>1. Given(lock, l, {Head(q).who}, 1, X)
      BY <2>2, <2>3, <2>4, <2>5, <2>7, <2>8 DEF Given
    <3> QED
      BY <2>6, <3>1, ServeGood
  <2>10. Served(l)
    BY <2>2, Zenon DEF Served, Admits
  <2> QED
    BY <2>2, <2>7, <2>9, <2>10 DEF l
<1>4. CASE q # <<>> /\ Admits(lock, Head(q)) /\ ~Head(q).exclusive
  <2> DEFINE new == {q[i].who : i \in 1 .. n}
  <2>1. l = [readers |-> lock.readers \cup new, writers |-> lock.writers, waiting |-> SubSeq(q, n + 1, Len(q))]
    BY <1>1, <1>4, Zenon DEF HandOver, Shared
  <2> HIDE DEF l
  <2>2. /\ l.readers = lock.readers \cup new /\ l.writers = lock.writers
        /\ l.waiting = SubSeq(q, n + 1, Len(q))
    BY <2>1, Zenon
  <2>3. Len(q) \in Nat /\ 1 <= Len(q) /\ Head(q) = q[1]
    BY <1>1, <1>4
  <2>4. /\ n \in 0 .. Len(q)
        /\ \A i \in 1 .. n : ~q[i].exclusive
        /\ n < Len(q) => q[n + 1].exclusive
    BY <1>1, SharedPrefixIs
  <2> HIDE DEF n
  <2>5. n # 0
    BY <1>4, <2>3, <2>4
  <2>6. n \in 1 .. Len(q)
    BY <2>3, <2>4, <2>5
  <2>7. /\ l.waiting \in Seq(Requests(P)) /\ Len(l.waiting) = Len(q) - n
        /\ \A k \in 1 .. Len(q) - n : l.waiting[k] = q[n + k]
    BY <1>1, <2>2, <2>4, RestIs
  <2>8. \A i \in 1 .. n : i \in DOMAIN q /\ q[i].who \in P /\ q[i].who \notin X
    <3>1. \A i \in 1 .. n : i \in DOMAIN q
      BY <1>1, <2>3, <2>6
    <3>2. \A i \in DOMAIN q : q[i].who \in P
      <4>1. \A i \in DOMAIN q : q[i] \in Requests(P)
        BY <1>1
      <4> QED
        BY <4>1 DEF Requests
    <3>3. \A i \in DOMAIN q : q[i].exclusive <=> q[i].who \in X
      BY DEF GoodLock
    <3> QED
      BY <2>4, <3>1, <3>2, <3>3
  <2>9. new \in SUBSET P /\ new \cap X = {}
    BY <2>8
  <2>10. l \in LockType(P)
    <3>1. l.readers \in SUBSET P /\ l.writers \in SUBSET P
      BY <1>1, <2>2, <2>9
    <3> QED
      BY <2>1, <2>2, <2>7, <3>1 DEF LockType
  <2>11. lock.writers = {}
    BY <1>4 DEF Admits
  <2>12. GoodLock(l, P, X) /\ Parties(l) = Parties(lock)
    <3>1. Given(lock, l, new, n, X)
      BY <2>2, <2>6, <2>9, <2>11 DEF Given
    <3> QED
      BY <2>10, <3>1, ServeGood
  <2>13. q[1].who \in l.readers
    BY <2>2, <2>6
  <2>14. Served(l)
    <3> SUFFICES ASSUME l.waiting # <<>> PROVE ~Admits(l, Head(l.waiting))
      BY DEF Served
    <3>1. n < Len(q) /\ Head(l.waiting) = l.waiting[1] /\ l.waiting[1] = q[n + 1]
      BY <2>3, <2>6, <2>7
    <3> QED
      BY <2>4, <2>13, <3>1 DEF Admits
  <2> QED
    BY <2>2, <2>12, <2>14 DEF l
<1> QED
  BY <1>2, <1>3, <1>4

LEMMA LockFields ==
    ASSUME NEW P, NEW lock \in LockType(P)
    PROVE  \A x : /\ [lock EXCEPT !.readers = x] = [readers |-> x, writers |-> lock.writers, waiting |-> lock.waiting]
                  /\ [lock EXCEPT !.writers = x] = [readers |-> lock.readers, writers |-> x, waiting |-> lock.waiting]
BY DEF LockType

(* A request of somebody who neither holds the lock nor waits for it.      *)
LEMMA AcquireGood ==
    ASSUME NEW P, NEW X, NEW lock, GoodLock(lock, P, X), Served(lock),
           NEW who \in P, who \notin Parties(lock),
           NEW exclusive \in BOOLEAN, exclusive <=> who \in X
    PROVE  LET l == Acquire(lock, who, exclusive)
           IN  /\ GoodLock(l, P, X) /\ Served(l)
               /\ Parties(l) = Parties(lock) \cup {who}
               /\ lock.readers \subseteq l.readers /\ lock.writers \subseteq l.writers
<1> DEFINE q == lock.waiting
           w == [who |-> who, exclusive |-> exclusive]
           l == Acquire(lock, who, exclusive)
<1>1. /\ lock = [readers |-> lock.readers, writers |-> lock.writers, waiting |-> q]
      /\ lock.readers \in SUBSET P /\ lock.writers \in SUBSET P /\ q \in Seq(Requests(P))
  BY DEF GoodLock, LockType
<1>2. w \in Requests(P) /\ w.who = who /\ w.exclusive = exclusive
  BY DEF Requests
<1>3. /\ lock.readers \cap X = {} /\ lock.writers \subseteq X /\ OneEach(q)
      /\ \A i \in DOMAIN q : q[i].exclusive <=> q[i].who \in X
      /\ (lock.readers \cup lock.writers) \cap Waiters(lock) = {}
      /\ \A u, v \in lock.writers : u = v
      /\ lock.writers # {} => lock.readers = {}
  BY DEF GoodLock
<1>4. who \notin lock.readers \cup lock.writers /\ who \notin Waiters(lock)
  BY DEF Parties
<1>5. CASE q = <<>> /\ Admits(lock, w)
  <2>1. lock.writers = {} /\ (exclusive => lock.readers = {})
    BY <1>2, <1>5 DEF Admits
  <2>2. l = IF exclusive THEN [readers |-> lock.readers, writers |-> {who}, waiting |-> q]
            ELSE [readers |-> lock.readers \cup {who}, writers |-> lock.writers, waiting |-> q]
    <3>1. l = IF exclusive THEN Exclusive(lock, who) ELSE Shared(lock, {who})
      BY <1>5 DEF Acquire
    <3> HIDE DEF l, w
    <3>2. Exclusive(lock, who) = [readers |-> lock.readers, writers |-> {who}, waiting |-> q]
      BY LockFields, Zenon DEF Exclusive, GoodLock
    <3>3. Shared(lock, {who}) = [readers |-> lock.readers \cup {who}, writers |-> lock.writers, waiting |-> q]
      BY LockFields, Zenon DEF Shared, GoodLock
    <3> QED
      BY <3>1, <3>2, <3>3
  <2> HIDE DEF l
  <2>3. /\ l.waiting = <<>>
        /\ l.readers = IF exclusive THEN lock.readers ELSE lock.readers \cup {who}
        /\ l.writers = IF exclusive THEN {who} ELSE lock.writers
    BY <1>5, <2>2
  <2>4. l \in LockType(P)
    BY <1>1, <2>2 DEF LockType
  <2>5. Waiters(l) = {} /\ Waiters(lock) = {} /\ OneEach(l.waiting)
    BY <1>5, <2>3 DEF Waiters, OneEach
  <2>6. Served(l) /\ Parties(l) = Parties(lock) \cup {who}
    BY <2>1, <2>3, <2>5 DEF Served, Parties
  <2>7. /\ \A u, v \in l.writers : u = v
        /\ l.writers # {} => l.readers = {}
        /\ l.readers \cap X = {} /\ l.writers \subseteq X
    BY <1>3, <2>1, <2>3
  <2>8. \A i \in DOMAIN l.waiting : l.waiting[i].exclusive <=> l.waiting[i].who \in X
    BY <2>3
  <2>9. GoodLock(l, P, X)
    BY <2>4, <2>5, <2>7, <2>8 DEF GoodLock
  <2> QED
    BY <2>1, <2>3, <2>6, <2>9 DEF l
<1>6. CASE ~(q = <<>> /\ Admits(lock, w))
  <2>1. l = [readers |-> lock.readers, writers |-> lock.writers, waiting |-> Append(q, w)]
    BY <1>1, <1>6 DEF Acquire
  <2> HIDE DEF l
  <2>2. l.readers = lock.readers /\ l.writers = lock.writers /\ l.waiting = Append(q, w)
    BY <2>1
  <2> HIDE DEF w
  <2>3. /\ Append(q, w) \in Seq(Requests(P)) /\ Len(q) \in Nat /\ DOMAIN q = 1 .. Len(q)
        /\ DOMAIN Append(q, w) = 1 .. Len(q) + 1
        /\ Append(q, w)[Len(q) + 1] = w
        /\ \A i \in 1 .. Len(q) : Append(q, w)[i] = q[i]
    BY <1>1, <1>2
  <2>4. l \in LockType(P)
    BY <1>1, <2>1, <2>3 DEF LockType
  <2> DEFINE s == Append(q, w)
  <2>s. \A i \in DOMAIN s : (i \in DOMAIN q /\ s[i] = q[i]) \/ (i = Len(q) + 1 /\ s[i] = w)
    BY <2>3
  <2>t. (\A i \in DOMAIN q : i \in DOMAIN s /\ s[i] = q[i]) /\ Len(q) + 1 \in DOMAIN s /\ s[Len(q) + 1] = w
    BY <2>3
  <2> HIDE DEF s
  <2>5. Waiters(l) = Waiters(lock) \cup {who}
    <3>1. Waiters(l) = {s[i].who : i \in DOMAIN s} /\ Waiters(lock) = {q[i].who : i \in DOMAIN q}
      BY <2>2 DEF Waiters, s
    <3>2. Waiters(l) \subseteq Waiters(lock) \cup {who}
      BY <1>2, <2>s, <3>1
    <3>3. Waiters(lock) \cup {who} \subseteq Waiters(l)
      BY <1>2, <2>t, <3>1
    <3> QED
      BY <3>2, <3>3
  <2>6. OneEach(s)
    <3>1. \A i \in DOMAIN q : q[i].who # who
      BY <1>4 DEF Waiters
    <3> QED
      BY <1>2, <1>3, <2>s, <3>1 DEF OneEach
  <2>7. \A i \in DOMAIN s : s[i].exclusive <=> s[i].who \in X
    BY <1>2, <1>3, <2>s
  <2>8. Parties(l) = Parties(lock) \cup {who} /\ (l.readers \cup l.writers) \cap Waiters(l) = {}
    BY <1>3, <1>4, <2>2, <2>5 DEF Parties
  <2>9. GoodLock(l, P, X)
    BY <1>3, <2>2, <2>4, <2>6, <2>7, <2>8 DEF GoodLock, s
  <2>10. Served(l)
    <3>1. Head(s) = s[1]
      BY <2>3 DEF s
    <3>2. CASE q = <<>>
      <4>1. Head(s) = w
        BY <2>3, <3>1, <3>2 DEF s
      <4>2. ~Admits(lock, w)
        BY <1>6, <3>2
      <4> QED
        BY <2>2, <4>1, <4>2 DEF Served, Admits, s
    <3>3. CASE q # <<>>
      <4>1. Head(s) = Head(q)
        BY <1>1, <2>3, <3>1, <3>3 DEF s
      <4>2. ~Admits(lock, Head(q))
        BY <3>3 DEF Served
      <4> QED
        BY <2>2, <4>1, <4>2 DEF Served, Admits, s
    <3> QED
      BY <3>2, <3>3
  <2> QED
    BY <2>2, <2>8, <2>9, <2>10 DEF l
<1> QED
  BY <1>5, <1>6

(* Guards and waiters are dropped; who is not among them stays.            *)
LEMMA ReleaseGood ==
    ASSUME NEW P, NEW X, NEW lock, GoodLock(lock, P, X), NEW whos
    PROVE  LET l == ReleaseAll(lock, whos)
           IN  /\ GoodLock(l, P, X) /\ Served(l)
               /\ Parties(l) = Parties(lock) \ whos
               /\ lock.readers \ whos \subseteq l.readers /\ lock.writers \ whos \subseteq l.writers
<1> DEFINE q == lock.waiting
           s == Without(q, whos)
           k == [readers |-> lock.readers \ whos, writers |-> lock.writers \ whos, waiting |-> s]
<1>1. /\ lock.readers \in SUBSET P /\ lock.writers \in SUBSET P /\ q \in Seq(Requests(P))
      /\ lock.readers \cap X = {} /\ lock.writers \subseteq X /\ OneEach(q)
      /\ \A i \in DOMAIN q : q[i].exclusive <=> q[i].who \in X
      /\ (lock.readers \cup lock.writers) \cap Waiters(lock) = {}
      /\ \A u, v \in lock.writers : u = v
      /\ lock.writers # {} => lock.readers = {}
  BY DEF GoodLock, LockType
<1>2. /\ s \in Seq(Requests(P)) /\ OneEach(s)
      /\ \A i \in DOMAIN s : \E j \in DOMAIN q : s[i] = q[j] /\ q[j].who \notin whos
      /\ \A j \in DOMAIN q : q[j].who \notin whos => \E i \in DOMAIN s : s[i] = q[j]
  <2> HIDE DEF q
  <2>1. Thinned(Requests(P), q, whos, s)
    BY <1>1, WithoutIs
  <2> HIDE DEF s
  <2> QED
    BY <1>1, <2>1 DEF Thinned
<1>3. ReleaseAll(lock, whos) = HandOver(k)
  BY DEF ReleaseAll
<1>4. k.readers = lock.readers \ whos /\ k.writers = lock.writers \ whos /\ k.waiting = s
  OBVIOUS
<1>5. k \in LockType(P)
  BY <1>1, <1>2 DEF LockType
<1> HIDE DEF k, s
<1>6. Waiters(k) = Waiters(lock) \ whos
  <2>1. Waiters(k) = {s[i].who : i \in DOMAIN s} /\ Waiters(lock) = {q[i].who : i \in DOMAIN q}
    BY <1>4 DEF Waiters
  <2>2. Waiters(k) \subseteq Waiters(lock) \ whos
    BY <1>2, <2>1
  <2>3. Waiters(lock) \ whos \subseteq Waiters(k)
    BY <1>2, <2>1
  <2> QED
    BY <2>2, <2>3
<1>7. \A i \in DOMAIN s : s[i].exclusive <=> s[i].who \in X
  BY <1>1, <1>2
<1>8. Parties(k) = Parties(lock) \ whos /\ (k.readers \cup k.writers) \cap Waiters(k) = {}
  BY <1>1, <1>4, <1>6 DEF Parties
<1>9. /\ \A u, v \in k.writers : u = v
      /\ k.writers # {} => k.readers = {}
      /\ k.readers \cap X = {} /\ k.writers \subseteq X
  BY <1>1, <1>4
<1>10. GoodLock(k, P, X)
  BY <1>2, <1>4, <1>5, <1>7, <1>8, <1>9 DEF GoodLock
<1> QED
  BY <1>3, <1>4, <1>8, <1>10, HandOverGood
============================================================================
