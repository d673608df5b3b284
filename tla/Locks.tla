------------------------------- MODULE Locks -------------------------------
(***************************************************************************)
(* The locks of structures.rs: Lockable wraps tokio's RwLock (the D-Bus    *)
(* tree) and tokio's Mutex (the engine).  Both are fair: a waiter is       *)
(* queued in the order of its request, a request never overtakes the       *)
(* queue, and a guard that is dropped, or a waiter that gives up, hands    *)
(* the lock to the waiters at the front.  A Mutex is a lock that is only   *)
(* ever asked for exclusively.                                             *)
(***************************************************************************)
EXTENDS Naturals, Sequences, FiniteSets

Unlocked == [readers |-> {}, writers |-> {}, waiting |-> <<>>]

Holds(lock, who) == who \in lock.readers \cup lock.writers

\* A guard that is shared keeps no writer out.
AdmitsAny(lock, w) == lock.writers = {}

\* Whether the guards that are held leave room for the request w.
Admits(lock, w) ==
  /\ lock.writers = {}
  /\ w.exclusive => lock.readers = {}

Shared(lock, who) == [lock EXCEPT !.readers = @ \cup who]

Exclusive(lock, who) == [lock EXCEPT !.writers = {who}]

\* The number of waiters at the front of the queue that ask to share.
SharedPrefix(waiting) ==
  CHOOSE n \in 0 .. Len(waiting) :
    /\ \A i \in 1 .. n : ~waiting[i].exclusive
    /\ n < Len(waiting) => waiting[n + 1].exclusive

\* The lock after the front of the queue has been served.
HandOver(lock) ==
  LET q == lock.waiting
      n == SharedPrefix(q)
      Served == [lock EXCEPT !.waiting = SubSeq(q, n + 1, Len(q))]
  IN IF q = <<>> \/ ~Admits(lock, Head(q)) THEN lock
     ELSE IF Head(q).exclusive
          THEN [Exclusive(lock, Head(q).who) EXCEPT !.waiting = Tail(q)]
          ELSE Shared(Served, {q[i].who : i \in 1 .. n})

\* Readers that overtake a queued writer.
AcquireReadersFirst(lock, who, exclusive) ==
  LET w == [who |-> who, exclusive |-> exclusive]
  IN IF Admits(lock, w)
     THEN IF exclusive THEN Exclusive(lock, who) ELSE Shared(lock, {who})
     ELSE [lock EXCEPT !.waiting = Append(@, w)]

\* lock(), read(), write() and their blocking forms: the guard is given at
\* once, or the request is queued.
Acquire(lock, who, exclusive) ==
  LET w == [who |-> who, exclusive |-> exclusive]
  IN IF lock.waiting = <<>> /\ Admits(lock, w)
     THEN IF exclusive THEN Exclusive(lock, who) ELSE Shared(lock, {who})
     ELSE [lock EXCEPT !.waiting = Append(@, w)]

\* The requests in q of all but whos, in their order.
Without(q, whos) ==
  LET kept == {i \in DOMAIN q : q[i].who \notin whos}
      Nth(k) == CHOOSE i \in kept : Cardinality({j \in kept : j <= i}) = k
  IN [k \in 1 .. Cardinality(kept) |-> q[Nth(k)]]

\* The guards of these are dropped, or the futures that wait for them.
ReleaseAll(lock, whos) ==
  HandOver([readers |-> lock.readers \ whos,
            writers |-> lock.writers \ whos,
            waiting |-> Without(lock.waiting, whos)])

Release(lock, who) == ReleaseAll(lock, {who})

---------------------------------------------------------------------------
(* Who has to do with a lock.                                              *)

Waiters(lock) == {lock.waiting[i].who : i \in DOMAIN lock.waiting}

Parties(lock) == lock.readers \cup lock.writers \cup Waiters(lock)

\* Who waits does not hold the lock, and the guards that are held leave no
\* room for the request at the front.
Orderly(lock) ==
  /\ \A v, w \in lock.writers : v = w
  /\ lock.writers # {} => lock.readers = {}
  /\ (lock.readers \cup lock.writers) \cap Waiters(lock) = {}
  /\ lock.waiting # <<>> => ~Admits(lock, Head(lock.waiting))
=============================================================================
