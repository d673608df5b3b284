---------------------------- MODULE DaemonProofs ----------------------------
(***************************************************************************)
(* Proofs about the locks of Daemon, for any callers, clients, workloads   *)
(* and engine.                                                             *)
(***************************************************************************)
EXTENDS Daemon, LocksProofs

(* The time a leaf may take: long modules slow the prover down.            *)
USE SMTT(20), ZenonT(20)

(* The inductive invariant: the two locks with those who use them, and the *)
(* records the threads and tasks keep.                                     *)

TreeParties == Callers \cup {"tree"}

EngineParties == Callers \cup Clients \cup {"udev", "dm"}

TreeGood == GoodLock(treeLock, TreeParties, {"tree"}) /\ Served(treeLock)

EngineGood == GoodLock(engLock, EngineParties, EngineParties) /\ Served(engLock)

IsCaller(r) ==
    /\ r = [f \in {"pc", "call", "left", "late"} |-> r[f]]
    /\ r.pc \in {"idle", "tree", "engine", "push"}
    /\ r.pc # "idle" => r.left \in 1 .. 2

IsClient(r) ==
    /\ r = [f \in {"pc", "req", "step", "desc"} |-> r[f]]
    /\ r.pc = "engine" => r.step \in 1 .. 3

CallersOK == caller = [c \in Callers |-> caller[c]] /\ \A c \in Callers : IsCaller(caller[c])

ClientsOK == client = [c \in Clients |-> client[c]] /\ \A c \in Clients : IsClient(client[c])

(* Who waits to be accepted has asked for nothing else, and waits once.    *)
PendingOK ==
    /\ pending \in Seq(Clients)
    /\ \A i \in DOMAIN pending : client[pending[i]].pc = "queued"
    /\ \A i, j \in DOMAIN pending : pending[i] = pending[j] => i = j

DmFields == {"count", "nr", "armed", "edge", "ready", "pc", "watched", "acted", "round", "failed"}

TasksOK ==
    /\ udev = [f \in {"events", "thread", "sent", "pc", "event"} |-> udev[f]]
    /\ dm = [f \in DmFields |-> dm[f]]

TreeOK ==
    /\ TreeGood /\ Parties(treeLock) = TreeUsers
    /\ \A c \in Callers : caller[c].pc \in {"engine", "push"} => c \in treeLock.readers

EngineOK == EngineGood /\ Parties(engLock) = EngineUsers

LInv == TreeOK /\ EngineOK /\ CallersOK /\ ClientsOK /\ PendingOK /\ TasksOK

LEMMA UnlockedGood ==
    ASSUME NEW P, NEW X
    PROVE  GoodLock(Unlocked, P, X) /\ Served(Unlocked) /\ Parties(Unlocked) = {}
<1>1. Unlocked.readers = {} /\ Unlocked.writers = {} /\ Unlocked.waiting = <<>>
  BY DEF Unlocked
<1>2. Unlocked \in LockType(P)
  BY DEF Unlocked, LockType
<1>3. Waiters(Unlocked) = {}
  BY <1>1 DEF Waiters
<1> QED
  BY <1>1, <1>2, <1>3 DEF GoodLock, Served, Parties, OneEach

LEMMA InitLocks == Init => LInv
<1> SUFFICES ASSUME Init PROVE LInv
  OBVIOUS
<1>1. /\ caller = [c \in Callers |-> Idle] /\ client = [c \in Clients |-> Quiet]
      /\ treeLock = Unlocked /\ engLock = Unlocked /\ pending = <<>>
      /\ handler.pc # "lock"
  BY Zenon DEF Init, DbusInit, RpcInit
<1>2. CallersOK /\ \A c \in Callers : caller[c].pc = "idle"
  BY <1>1 DEF CallersOK, IsCaller, Idle
<1>3. ClientsOK /\ \A c \in Clients : client[c].pc = "idle"
  BY <1>1 DEF ClientsOK, IsClient, Quiet
<1>4. TasksOK /\ udev.pc = "recv" /\ dm.pc = "wait"
  BY Zenon DEF Init, TasksOK, DmFields
<1>5. TreeUsers = {} /\ EngineUsers = {}
  BY <1>1, <1>2, <1>3, <1>4 DEF TreeUsers, EngineUsers
<1>6. TreeOK /\ EngineOK
  BY <1>1, <1>2, <1>5, UnlockedGood DEF TreeOK, EngineOK, TreeGood, EngineGood
<1>7. PendingOK
  BY <1>1 DEF PendingOK
<1> QED
  BY <1>2, <1>3, <1>4, <1>6, <1>7 DEF LInv

(* Asking for the tree and for the engine, and giving them back.           *)
LEMMA TreeAsk ==
    ASSUME TreeGood, NEW who \in TreeParties, who \notin Parties(treeLock),
           NEW exclusive \in BOOLEAN, exclusive <=> who = "tree",
           treeLock' = Acquire(treeLock, who, exclusive)
    PROVE  /\ TreeGood' /\ Parties(treeLock)' = Parties(treeLock) \cup {who}
           /\ treeLock.readers \subseteq treeLock'.readers
<1>1. exclusive <=> who \in {"tree"}
  OBVIOUS
<1> QED
  BY <1>1, AcquireGood DEF TreeGood, TreeParties

LEMMA TreeAskShared ==
    ASSUME TreeGood, NEW who \in Callers, who \notin Parties(treeLock),
           treeLock' = Acquire(treeLock, who, FALSE)
    PROVE  /\ TreeGood' /\ Parties(treeLock)' = Parties(treeLock) \cup {who}
           /\ treeLock.readers \subseteq treeLock'.readers
<1>1. PICK e \in BOOLEAN : e = FALSE
  BY Zenon
<1>2. who \in TreeParties /\ who # "tree"
  BY PartiesAssumption DEF TreeParties
<1>3. (e <=> who = "tree") /\ treeLock' = Acquire(treeLock, who, e)
  BY <1>1, <1>2, Zenon
<1> QED
  BY <1>2, <1>3, TreeAsk, Zenon

LEMMA TreeAskAlone ==
    ASSUME TreeGood, "tree" \notin Parties(treeLock),
           treeLock' = Acquire(treeLock, "tree", TRUE)
    PROVE  /\ TreeGood' /\ Parties(treeLock)' = Parties(treeLock) \cup {"tree"}
           /\ treeLock.readers \subseteq treeLock'.readers
<1>1. PICK who \in {"tree"}, e \in BOOLEAN : e = TRUE
  BY Zenon
<1>2. who \in TreeParties /\ who \notin Parties(treeLock) /\ (e <=> who = "tree")
  BY <1>1 DEF TreeParties
<1>3. treeLock' = Acquire(treeLock, who, e)
  BY <1>1
<1>4. /\ TreeGood' /\ Parties(treeLock)' = Parties(treeLock) \cup {who}
      /\ treeLock.readers \subseteq treeLock'.readers
  BY <1>2, <1>3, TreeAsk, Zenon
<1> QED
  BY <1>1, <1>4, Zenon

LEMMA TreeDrop ==
    ASSUME TreeGood, NEW who, treeLock' = Release(treeLock, who)
    PROVE  /\ TreeGood' /\ Parties(treeLock)' = Parties(treeLock) \ {who}
           /\ treeLock.readers \ {who} \subseteq treeLock'.readers
  BY ReleaseGood DEF TreeGood, TreeParties, Release

LEMMA EngineAsk ==
    ASSUME EngineGood, NEW who \in EngineParties, who \notin Parties(engLock),
           engLock' = Acquire(engLock, who, TRUE)
    PROVE  EngineGood' /\ Parties(engLock)' = Parties(engLock) \cup {who}
<1>1. GoodLock(engLock, EngineParties, EngineParties) /\ Served(engLock)
  BY DEF EngineGood
<1>2. PICK e \in BOOLEAN : e = TRUE
  BY Zenon
<1>3. (e <=> who \in EngineParties) /\ engLock' = Acquire(engLock, who, e)
  BY <1>1, <1>2
<1>4. /\ GoodLock(Acquire(engLock, who, e), EngineParties, EngineParties) /\ Served(Acquire(engLock, who, e))
      /\ Parties(Acquire(engLock, who, e)) = Parties(engLock) \cup {who}
  BY <1>1, <1>3, AcquireGood
<1> QED
  BY <1>3, <1>4, Zenon DEF EngineGood

LEMMA EngineDrop ==
    ASSUME EngineGood, NEW whos, engLock' = ReleaseAll(engLock, whos)
    PROVE  EngineGood' /\ Parties(engLock)' = Parties(engLock) \ whos
  BY ReleaseGood DEF EngineGood, EngineParties

LEMMA EngineAgain ==
    ASSUME EngineGood, NEW who \in EngineParties, who \in Parties(engLock),
           engLock' = Acquire(Release(engLock, who), who, TRUE)
    PROVE  EngineGood' /\ Parties(engLock)' = Parties(engLock)
<1> DEFINE l == Release(engLock, who)
<1>1. /\ GoodLock(l, EngineParties, EngineParties) /\ Served(l)
      /\ Parties(l) = Parties(engLock) \ {who}
  BY ReleaseGood DEF EngineGood, Release
<1> HIDE DEF l
<1>2. who \notin Parties(l)
  BY <1>1
<1>3. engLock' = Acquire(l, who, TRUE)
  BY DEF l
<1>4. PICK e \in BOOLEAN : e = TRUE
  BY Zenon
<1>5. (e <=> who \in EngineParties) /\ engLock' = Acquire(l, who, e)
  BY <1>1, <1>2, <1>3, <1>4, Zenon
<1>6. /\ GoodLock(Acquire(l, who, e), EngineParties, EngineParties) /\ Served(Acquire(l, who, e))
      /\ Parties(Acquire(l, who, e)) = Parties(l) \cup {who}
  BY <1>1, <1>2, <1>3, <1>5, AcquireGood
<1> QED
  BY <1>1, <1>5, <1>6, Zenon DEF EngineGood

(* A caller, or a client, goes from one place to another.                  *)
LEMMA CallerMoves ==
    ASSUME CallersOK, NEW c \in Callers, NEW v, IsCaller(v),
           caller' = [d \in Callers |-> IF d = c THEN v ELSE caller[d]]
    PROVE  /\ CallersOK' /\ caller'[c] = v /\ \A d \in Callers : d # c => caller'[d] = caller[d]
           /\ UNCHANGED handler =>
                TreeUsers' = (TreeUsers \ {c}) \cup {x \in {c} : v.pc # "idle"}
           /\ UNCHANGED <<client, udev, dm>> =>
                EngineUsers' = (EngineUsers \ {c}) \cup {x \in {c} : v.pc = "engine"}
<1>1. caller'[c] = v /\ \A d \in Callers : d # c => caller'[d] = caller[d]
  OBVIOUS
<1>2. CallersOK'
  BY <1>1 DEF CallersOK
<1>3. c # "tree" /\ c # "udev" /\ c # "dm" /\ c \notin Clients
  BY PartiesAssumption
<1>4. ASSUME UNCHANGED handler
      PROVE  TreeUsers' = (TreeUsers \ {c}) \cup {x \in {c} : v.pc # "idle"}
  BY <1>1, <1>3, <1>4 DEF TreeUsers
<1>5. ASSUME UNCHANGED <<client, udev, dm>>
      PROVE  EngineUsers' = (EngineUsers \ {c}) \cup {x \in {c} : v.pc = "engine"}
  BY <1>1, <1>3, <1>5 DEF EngineUsers
<1> QED
  BY <1>1, <1>2, <1>4, <1>5

LEMMA ClientMoves ==
    ASSUME ClientsOK, NEW c \in Clients, NEW v, IsClient(v),
           client' = [d \in Clients |-> IF d = c THEN v ELSE client[d]]
    PROVE  /\ ClientsOK' /\ client'[c] = v /\ \A d \in Clients : d # c => client'[d] = client[d]
           /\ UNCHANGED <<caller, udev, dm>> =>
                EngineUsers' = (EngineUsers \ {c}) \cup {x \in {c} : v.pc = "engine"}
<1>1. client'[c] = v /\ \A d \in Clients : d # c => client'[d] = client[d]
  OBVIOUS
<1>2. ClientsOK'
  BY <1>1 DEF ClientsOK
<1>3. c # "udev" /\ c # "dm" /\ c \notin Callers
  BY PartiesAssumption
<1>4. ASSUME UNCHANGED <<caller, udev, dm>>
      PROVE  EngineUsers' = (EngineUsers \ {c}) \cup {x \in {c} : v.pc = "engine"}
  BY <1>1, <1>3, <1>4 DEF EngineUsers
<1> QED
  BY <1>1, <1>2, <1>4

(* Clients that do not wait to be accepted do not disturb those that do.   *)
LEMMA PendingStays ==
    ASSUME PendingOK, NEW c \in Clients, client[c].pc # "queued", UNCHANGED pending,
           \A d \in Clients : d # c => client'[d] = client[d]
    PROVE  PendingOK'
  BY DEF PendingOK

----------------------------------------------------------------------------
(* Every step keeps the invariant.                                         *)

(* Callers at rest, at work and done.                                      *)
LEMMA IdleCaller == IsCaller(Idle) /\ Idle.pc = "idle"
  BY Zenon DEF Idle, IsCaller

LEMMA CallerRecords ==
    ASSUME NEW r, IsCaller(r)
    PROVE  /\ r.pc # "idle" => /\ IsCaller([r EXCEPT !.pc = "engine"])
                               /\ [r EXCEPT !.pc = "engine"].pc = "engine"
           /\ r.pc = "engine" /\ r.left > 1 => /\ IsCaller([r EXCEPT !.left = @ - 1])
                                               /\ [r EXCEPT !.left = @ - 1].pc = "engine"
<1>1. r.pc # "idle" => /\ IsCaller([r EXCEPT !.pc = "engine"])
                       /\ [r EXCEPT !.pc = "engine"].pc = "engine"
  BY Zenon DEF IsCaller
<1>2. ASSUME r.pc = "engine", r.left > 1
      PROVE  IsCaller([r EXCEPT !.left = @ - 1]) /\ [r EXCEPT !.left = @ - 1].pc = "engine"
  <2>1. r.left - 1 \in 1 .. 2
    BY <1>2 DEF IsCaller
  <2> QED
    BY <1>2, <2>1, Zenon DEF IsCaller
<1> QED
  BY <1>1, <1>2, Zenon

(* A reply gives the tree back; the engine was given back before.          *)
LEMMA ReplyStep ==
    ASSUME LInv, NEW c \in Callers, caller[c].pc # "idle", Reply(c),
           UNCHANGED <<handler, client, pending, udev, dm>>,
           EngineGood', Parties(engLock)' = Parties(engLock) \ {c}
    PROVE  LInv'
<1> USE DEF LInv
<1>1. IsCaller(caller[c])
  BY DEF CallersOK
<1>2. IsCaller(Idle) /\ Idle.pc = "idle"
  BY IdleCaller
<1>3. caller' = [d \in Callers |-> IF d = c THEN Idle ELSE caller[d]]
  BY DEF Reply, CallersOK
<1>4. /\ CallersOK' /\ caller'[c] = Idle /\ \A d \in Callers : d # c => caller'[d] = caller[d]
      /\ TreeUsers' = TreeUsers \ {c} /\ EngineUsers' = EngineUsers \ {c}
  BY <1>2, <1>3, CallerMoves
<1>5. /\ TreeGood' /\ Parties(treeLock)' = Parties(treeLock) \ {c}
      /\ treeLock.readers \ {c} \subseteq treeLock'.readers
  BY TreeDrop DEF TreeOK, Reply
<1>6. TreeOK'
  <2>1. ASSUME NEW d \in Callers, caller'[d].pc \in {"engine", "push"}
        PROVE  d \in treeLock'.readers
    BY <1>2, <1>4, <1>5, <2>1 DEF TreeOK
  <2> QED
    BY <1>4, <1>5, <2>1 DEF TreeOK
<1>7. EngineOK'
  BY <1>4 DEF EngineOK
<1> QED
  BY <1>4, <1>6, <1>7 DEF ClientsOK, PendingOK, TasksOK

(* A caller that keeps its guard of the tree goes on to the engine, asks   *)
(* it once more, or is done with it.                                       *)
LEMMA CallerStep ==
    ASSUME LInv, NEW c \in Callers, NEW v, IsCaller(v), caller[c].pc # "idle",
           v.pc # "idle", c \in treeLock.readers,
           caller' = [d \in Callers |-> IF d = c THEN v ELSE caller[d]],
           UNCHANGED <<treeLock, handler, client, pending, udev, dm>>,
           EngineGood', Parties(engLock)' = (Parties(engLock) \ {c}) \cup {x \in {c} : v.pc = "engine"}
    PROVE  LInv'
<1> USE DEF LInv
<1>1. /\ CallersOK' /\ caller'[c] = v /\ \A d \in Callers : d # c => caller'[d] = caller[d]
      /\ TreeUsers' = (TreeUsers \ {c}) \cup {c}
      /\ EngineUsers' = (EngineUsers \ {c}) \cup {x \in {c} : v.pc = "engine"}
  BY CallerMoves
<1>2. c \in TreeUsers
  BY DEF TreeUsers
<1>3. TreeOK'
  <2>1. ASSUME NEW d \in Callers, caller'[d].pc \in {"engine", "push"}
        PROVE  d \in treeLock'.readers
    BY <1>1, <2>1 DEF TreeOK
  <2>2. TreeGood'
    BY DEF TreeOK, TreeGood
  <2> QED
    BY <1>1, <1>2, <2>1, <2>2, Zenon DEF TreeOK
<1>4. EngineOK'
  BY <1>1 DEF EngineOK
<1> QED
  BY <1>1, <1>3, <1>4, Zenon DEF ClientsOK, PendingOK, TasksOK

(* Who holds the tree to serve a call reads it.                            *)
LEMMA CallersRead ==
    ASSUME LInv, NEW c \in Callers, Holds(treeLock, c)
    PROVE  c \in treeLock.readers
<1>1. c # "tree"
  BY PartiesAssumption
<1>2. treeLock.writers \subseteq {"tree"}
  BY DEF LInv, TreeOK, TreeGood, GoodLock
<1> QED
  BY <1>1, <1>2 DEF Holds

(* Who is at the engine has asked for it.                                  *)
LEMMA EngineAsked ==
    ASSUME LInv
    PROVE  /\ \A c \in Callers : /\ c \in EngineParties
                                 /\ c \in Parties(engLock) <=> caller[c].pc = "engine"
           /\ \A c \in Clients : /\ c \in EngineParties
                                 /\ c \in Parties(engLock) <=> client[c].pc = "engine"
           /\ "udev" \in Parties(engLock) <=> udev.pc = "lock"
           /\ "dm" \in Parties(engLock) <=> dm.pc = "lock"
           /\ \A c \in Callers : c \in Parties(treeLock) <=> caller[c].pc # "idle"
           /\ "tree" \in Parties(treeLock) <=> handler.pc = "lock"
<1>1. Parties(engLock) = EngineUsers /\ Parties(treeLock) = TreeUsers
  BY DEF LInv, EngineOK, TreeOK
<1>2. Callers \cap Clients = {} /\ "udev" \notin Callers \cup Clients
      /\ "dm" \notin Callers \cup Clients /\ "tree" \notin Callers
  BY PartiesAssumption
<1> QED
  BY <1>1, <1>2 DEF EngineParties, EngineUsers, TreeUsers

----------------------------------------------------------------------------
(* The D-Bus layer.                                                        *)

LEMMA ReceiveStep ==
    ASSUME LInv, NEW c \in Callers, OfDbus(Receive(c))
    PROVE  LInv'
<1> USE DEF LInv
<1>1. PICK call : caller' = [caller EXCEPT ![c] = [Idle EXCEPT !.pc = "tree", !.call = call,
                                                               !.left = Lockings(call)]]
  BY Zenon DEF OfDbus, Receive
<1> DEFINE v == [Idle EXCEPT !.pc = "tree", !.call = call, !.left = Lockings(call)]
<1>2. Lockings(call) \in 1 .. 2
  BY DEF Lockings
<1>3. IsCaller(v) /\ v.pc = "tree"
  BY <1>2, Zenon DEF IsCaller, Idle
<1> HIDE DEF v
<1>4. caller' = [d \in Callers |-> IF d = c THEN v ELSE caller[d]]
  BY <1>1 DEF CallersOK, v
<1>5. /\ caller[c].pc = "idle" /\ treeLock' = Acquire(treeLock, c, FALSE)
      /\ UNCHANGED <<engLock, handler, client, pending, udev, dm>>
  BY DEF OfDbus, Receive, rpcVars, daemonVars
<1>6. /\ CallersOK' /\ caller'[c] = v /\ \A d \in Callers : d # c => caller'[d] = caller[d]
      /\ TreeUsers' = (TreeUsers \ {c}) \cup {c} /\ EngineUsers' = EngineUsers \ {c}
  BY <1>3, <1>4, <1>5, CallerMoves, Zenon
<1>7. c \notin Parties(treeLock) /\ c \notin Parties(engLock)
  BY <1>5, EngineAsked
<1>8. /\ TreeGood' /\ Parties(treeLock)' = Parties(treeLock) \cup {c}
      /\ treeLock.readers \subseteq treeLock'.readers
  BY <1>5, <1>7, TreeAskShared, Zenon DEF TreeOK
<1>9. TreeOK'
  <2>1. ASSUME NEW d \in Callers, caller'[d].pc \in {"engine", "push"}
        PROVE  d \in treeLock'.readers
    BY <1>3, <1>6, <1>8, <2>1, Zenon DEF TreeOK
  <2> QED
    BY <1>6, <1>8, <2>1 DEF TreeOK
<1>10. EngineOK'
  BY <1>5, <1>6, <1>7 DEF EngineOK, EngineGood
<1> QED
  BY <1>5, <1>6, <1>9, <1>10, Zenon DEF ClientsOK, PendingOK, TasksOK

LEMMA DispatchStep ==
    ASSUME LInv, NEW c \in Callers, OfDbus(Dispatch(c))
    PROVE  LInv'
<1>1. /\ caller[c].pc = "tree" /\ Holds(treeLock, c)
      /\ UNCHANGED <<handler, client, pending, udev, dm>>
  BY DEF OfDbus, Dispatch, rpcVars, daemonVars
<1>2. c \notin Parties(engLock) /\ c \in EngineParties /\ c \in treeLock.readers
  BY <1>1, EngineAsked, CallersRead
<1>3. CASE engLock' = Acquire(engLock, c, TRUE) /\ caller' = [caller EXCEPT ![c].pc = "engine"]
           /\ UNCHANGED treeLock
  <2> DEFINE v == [caller[c] EXCEPT !.pc = "engine"]
  <2>1. IsCaller(v) /\ v.pc = "engine"
    BY <1>1, CallerRecords, Zenon DEF LInv, CallersOK
  <2>2. caller' = [d \in Callers |-> IF d = c THEN v ELSE caller[d]]
    BY <1>3 DEF LInv, CallersOK
  <2> HIDE DEF v
  <2>3. EngineGood' /\ Parties(engLock)' = Parties(engLock) \cup {c}
    BY <1>2, <1>3, EngineAsk, Zenon DEF LInv, EngineOK
  <2>4. Parties(engLock)' = (Parties(engLock) \ {c}) \cup {x \in {c} : v.pc = "engine"}
    BY <1>2, <2>1, <2>3
  <2> QED
    BY <1>1, <1>2, <1>3, <2>1, <2>2, <2>3, <2>4, CallerStep, Zenon
<1>4. CASE Reply(c) /\ UNCHANGED engLock
  <2>1. EngineGood' /\ Parties(engLock)' = Parties(engLock) \ {c}
    BY <1>2, <1>4 DEF LInv, EngineOK, EngineGood
  <2> QED
    BY <1>1, <1>4, <2>1, ReplyStep
<1> QED
  BY <1>3, <1>4, Zenon DEF OfDbus, Dispatch

LEMMA ExecuteStep ==
    ASSUME LInv, NEW c \in Callers, OfDbus(Execute(c))
    PROVE  LInv'
<1>1. /\ caller[c].pc = "engine" /\ engLock' = Release(engLock, c)
      /\ UNCHANGED <<handler, client, pending, udev, dm>>
  BY DEF OfDbus, Execute, rpcVars, daemonVars
<1>2. c \in treeLock.readers
  BY <1>1 DEF LInv, TreeOK
<1>3. EngineGood' /\ Parties(engLock)' = Parties(engLock) \ {c}
  BY <1>1, EngineDrop DEF LInv, EngineOK, Release
<1>4. CASE Reply(c)
  BY <1>1, <1>3, <1>4, ReplyStep
<1>5. ASSUME NEW m, caller' = [caller EXCEPT ![c].pc = "push", ![c].late = m], UNCHANGED treeLock
      PROVE  LInv'
  <2> DEFINE v == [caller[c] EXCEPT !.pc = "push", !.late = m]
  <2>1. IsCaller(v) /\ v.pc = "push"
    <3>1. IsCaller(caller[c]) /\ caller[c].pc # "idle"
      BY <1>1 DEF LInv, CallersOK
    <3> QED
      BY <3>1, Zenon DEF IsCaller
  <2>2. caller' = [d \in Callers |-> IF d = c THEN v ELSE caller[d]]
    BY <1>5 DEF LInv, CallersOK
  <2> HIDE DEF v
  <2>3. Parties(engLock)' = (Parties(engLock) \ {c}) \cup {x \in {c} : v.pc = "engine"}
    BY <1>3, <2>1
  <2> QED
    BY <1>1, <1>2, <1>3, <1>5, <2>1, <2>2, <2>3, CallerStep, Zenon
<1>6. Reply(c) \/ \E m : /\ caller' = [caller EXCEPT ![c].pc = "push", ![c].late = m]
                         /\ UNCHANGED treeLock
  BY DEF OfDbus, Execute
<1> QED
  BY <1>4, <1>5, <1>6

LEMMA FetchPropertyStep ==
    ASSUME LInv, NEW c \in Callers, OfDbus(FetchProperty(c))
    PROVE  LInv'
<1>1. /\ caller[c].pc = "engine" /\ caller[c].left > 1
      /\ caller' = [caller EXCEPT ![c].left = @ - 1]
      /\ engLock' = Acquire(Release(engLock, c), c, TRUE)
      /\ UNCHANGED <<treeLock, handler, client, pending, udev, dm>>
  BY DEF OfDbus, FetchProperty, rpcVars, daemonVars
<1> DEFINE v == [caller[c] EXCEPT !.left = @ - 1]
<1>2. IsCaller(v) /\ v.pc = "engine"
  BY <1>1, CallerRecords, Zenon DEF LInv, CallersOK
<1>3. caller' = [d \in Callers |-> IF d = c THEN v ELSE caller[d]]
  BY <1>1 DEF LInv, CallersOK
<1> HIDE DEF v
<1>4. c \in Parties(engLock) /\ c \in EngineParties /\ c \in treeLock.readers
  BY <1>1, EngineAsked DEF LInv, TreeOK
<1>5. EngineGood' /\ Parties(engLock)' = Parties(engLock)
  BY <1>1, <1>4, EngineAgain, Zenon DEF LInv, EngineOK
<1>6. Parties(engLock)' = (Parties(engLock) \ {c}) \cup {x \in {c} : v.pc = "engine"}
  BY <1>2, <1>4, <1>5
<1> QED
  BY <1>1, <1>2, <1>3, <1>4, <1>5, <1>6, CallerStep, Zenon

LEMMA LatePushStep ==
    ASSUME LInv, NEW c \in Callers, OfDbus(LatePush(c))
    PROVE  LInv'
<1>1. /\ caller[c].pc = "push" /\ Reply(c)
      /\ UNCHANGED <<engLock, handler, client, pending, udev, dm>>
  BY DEF OfDbus, LatePush, rpcVars, daemonVars
<1>2. c \notin Parties(engLock)
  BY <1>1, EngineAsked
<1>3. EngineGood' /\ Parties(engLock)' = Parties(engLock) \ {c}
  BY <1>1, <1>2 DEF LInv, EngineOK, EngineGood
<1> QED
  BY <1>1, <1>3, ReplyStep, Zenon

(* The tree handler goes to its lock, or leaves it.                        *)
LEMMA HandlerStep ==
    ASSUME LInv, UNCHANGED <<engLock, caller, client, pending, udev, dm>>,
           TreeGood', treeLock.readers \ {"tree"} \subseteq treeLock'.readers,
           Parties(treeLock)' = (Parties(treeLock) \ {"tree"})
                                  \cup {t \in {"tree"} : handler'.pc = "lock"}
    PROVE  LInv'
<1> USE DEF LInv
<1>1. "tree" \notin Callers
  BY PartiesAssumption
<1>2. TreeUsers' = (TreeUsers \ {"tree"}) \cup {t \in {"tree"} : handler'.pc = "lock"}
  BY <1>1 DEF TreeUsers
<1>3. TreeOK'
  BY <1>1, <1>2 DEF TreeOK
<1>4. EngineOK'
  BY DEF EngineOK, EngineGood, EngineUsers
<1> QED
  BY <1>3, <1>4, Zenon DEF CallersOK, ClientsOK, PendingOK, TasksOK

LEMMA TreeThreadStep ==
    ASSUME LInv, OfDbus(TreeThread)
    PROVE  LInv'
<1>1. UNCHANGED <<engLock, caller, client, pending, udev, dm>>
  BY Zenon DEF OfDbus, TreeThread, TreeRecv, TreeApply, TreeExit, rpcVars, daemonVars
<1>2. TreeGood
  BY DEF LInv, TreeOK
<1>3. CASE TreeRecv
  <2>1. /\ handler.pc = "recv" /\ handler'.pc = "lock"
        /\ treeLock' = Acquire(treeLock, "tree", TRUE)
    BY <1>3 DEF TreeRecv
  <2>2. "tree" \notin Parties(treeLock)
    BY <2>1, EngineAsked
  <2>3. /\ TreeGood' /\ Parties(treeLock)' = Parties(treeLock) \cup {"tree"}
        /\ treeLock.readers \subseteq treeLock'.readers
    BY <1>2, <2>1, <2>2, TreeAskAlone, Zenon
  <2>4. /\ treeLock.readers \ {"tree"} \subseteq treeLock'.readers
        /\ Parties(treeLock)' = (Parties(treeLock) \ {"tree"})
                                  \cup {t \in {"tree"} : handler'.pc = "lock"}
    BY <2>1, <2>2, <2>3, Zenon
  <2> QED
    BY <1>1, <2>3, <2>4, HandlerStep, Zenon
<1>4. CASE TreeApply \/ TreeExit
  <2>1. handler'.pc # "lock" /\ treeLock' = Release(treeLock, "tree")
    BY <1>4 DEF TreeApply, TreeExit
  <2>2. /\ TreeGood' /\ Parties(treeLock)' = Parties(treeLock) \ {"tree"}
        /\ treeLock.readers \ {"tree"} \subseteq treeLock'.readers
    BY <1>2, <2>1, TreeDrop
  <2>3. Parties(treeLock)' = (Parties(treeLock) \ {"tree"})
                               \cup {t \in {"tree"} : handler'.pc = "lock"}
    BY <2>1, <2>2
  <2> QED
    BY <1>1, <2>2, <2>3, HandlerStep, Zenon
<1> QED
  BY <1>3, <1>4 DEF OfDbus, TreeThread

(* Steps that touch neither lock nor those who use them.                   *)
LEMMA ApartStep ==
    ASSUME LInv, UNCHANGED <<treeLock, engLock, handler, caller, client, pending>>, TasksOK',
           udev'.pc = "lock" <=> udev.pc = "lock", dm'.pc = "lock" <=> dm.pc = "lock"
    PROVE  LInv'
<1> USE DEF LInv
<1>1. TreeUsers' = TreeUsers
  BY DEF TreeUsers
<1>2. EngineUsers' = EngineUsers
  BY DEF EngineUsers
<1>3. TreeOK' /\ EngineOK'
  BY <1>1, <1>2 DEF TreeOK, TreeGood, EngineOK, EngineGood
<1> QED
  BY <1>3, Zenon DEF CallersOK, ClientsOK, PendingOK

LEMMA DbusStep ==
    ASSUME LInv, \/ \E c \in Callers : OfDbus(Receive(c)) \/ OfDbus(Serve(c))
                 \/ OfDbus(TreeThread) \/ OfDbus(ConnThread)
    PROVE  LInv'
<1>1. ASSUME NEW c \in Callers, OfDbus(Serve(c)) PROVE LInv'
  <2>1. OfDbus(Dispatch(c)) \/ OfDbus(Execute(c)) \/ OfDbus(FetchProperty(c)) \/ OfDbus(LatePush(c))
    BY <1>1 DEF OfDbus, Serve
  <2> QED
    BY <2>1, DispatchStep, ExecuteStep, FetchPropertyStep, LatePushStep, Zenon
<1>2. CASE OfDbus(ConnThread)
  <2>1. UNCHANGED <<treeLock, engLock, handler, caller, client, pending, udev, dm>>
    BY <1>2 DEF OfDbus, ConnThread, ConnExit, rpcVars, daemonVars
  <2>2. TasksOK'
    BY <2>1 DEF LInv, TasksOK
  <2> QED
    BY <2>1, <2>2, ApartStep, Zenon
<1> QED
  BY <1>1, <1>2, ReceiveStep, TreeThreadStep, Zenon

----------------------------------------------------------------------------
(* The JSON-RPC layer.                                                     *)

LEMMA QuietClient == IsClient(Quiet) /\ Quiet.pc = "idle"
  BY Zenon DEF Quiet, IsClient

(* A client that does not wait to be accepted goes on; the engine's lock   *)
(* has followed.                                                           *)
LEMMA ClientStep ==
    ASSUME LInv, NEW c \in Clients, NEW v, IsClient(v), client[c].pc # "queued",
           client' = [d \in Clients |-> IF d = c THEN v ELSE client[d]],
           UNCHANGED <<treeLock, handler, caller, pending, udev, dm>>,
           EngineGood', Parties(engLock)' = (Parties(engLock) \ {c}) \cup {x \in {c} : v.pc = "engine"}
    PROVE  LInv'
<1> USE DEF LInv
<1>1. /\ ClientsOK' /\ \A d \in Clients : d # c => client'[d] = client[d]
      /\ EngineUsers' = (EngineUsers \ {c}) \cup {x \in {c} : v.pc = "engine"}
  BY ClientMoves
<1>2. EngineOK'
  BY <1>1 DEF EngineOK
<1>3. TreeOK'
  BY DEF TreeOK, TreeGood, TreeUsers
<1>4. PendingOK'
  BY <1>1, PendingStays, Zenon
<1> QED
  BY <1>1, <1>2, <1>3, <1>4, Zenon DEF CallersOK, TasksOK

(* ... which is at the engine neither before nor after.                    *)
LEMMA ClientAway ==
    ASSUME LInv, NEW c \in Clients, NEW v, IsClient(v), client[c].pc \notin {"queued", "engine"},
           v.pc # "engine",
           client' = [d \in Clients |-> IF d = c THEN v ELSE client[d]],
           UNCHANGED <<treeLock, engLock, handler, caller, pending, udev, dm>>
    PROVE  LInv'
<1>1. c \notin Parties(engLock)
  BY EngineAsked
<1>2. EngineGood' /\ Parties(engLock)' = (Parties(engLock) \ {c}) \cup {x \in {c} : v.pc = "engine"}
  BY <1>1 DEF LInv, EngineOK, EngineGood
<1> QED
  BY <1>2, ClientStep

LEMMA AskStep ==
    ASSUME LInv, NEW c \in Clients, OfRpc(Ask(c)) \/ OfRpc(Vanish(c))
    PROVE  LInv'
<1>1. /\ client[c].pc \notin {"queued", "engine"}
      /\ UNCHANGED <<treeLock, engLock, handler, caller, pending, udev, dm>>
  BY Zenon DEF OfRpc, Ask, Vanish, Respond, dbusVars, daemonVars
<1>2. IsClient(client[c])
  BY DEF LInv, ClientsOK
<1>3. CASE OfRpc(Ask(c))
  <2>1. PICK req : client' = [client EXCEPT ![c] = [Quiet EXCEPT !.pc = "connect", !.req = req]]
    BY <1>3, Zenon DEF OfRpc, Ask
  <2> DEFINE v == [Quiet EXCEPT !.pc = "connect", !.req = req]
  <2>2. IsClient(v) /\ v.pc # "engine"
    BY Zenon DEF Quiet, IsClient
  <2> HIDE DEF v
  <2>3. client' = [d \in Clients |-> IF d = c THEN v ELSE client[d]]
    BY <2>1 DEF LInv, ClientsOK, v
  <2> QED
    BY <1>1, <2>2, <2>3, ClientAway, Zenon
<1>4. CASE OfRpc(Vanish(c))
  <2>1. IsClient(Quiet) /\ Quiet.pc # "engine"
    BY QuietClient
  <2>2. client' = [d \in Clients |-> IF d = c THEN Quiet ELSE client[d]]
    BY <1>4 DEF LInv, ClientsOK, OfRpc, Vanish, Respond
  <2> QED
    BY <1>1, <2>1, <2>2, ClientAway, Zenon
<1> QED
  BY <1>3, <1>4

(* A connection is queued once, and the one that is accepted was queued.   *)
LEMMA ConnectStep ==
    ASSUME LInv, NEW c \in Clients, OfRpc(Connect(c))
    PROVE  LInv'
<1> USE DEF LInv
<1>1. /\ client[c].pc = "connect" /\ client' = [client EXCEPT ![c].pc = "queued"]
      /\ pending' = Append(pending, c)
      /\ UNCHANGED <<treeLock, engLock, handler, caller, udev, dm>>
  BY DEF OfRpc, Connect, dbusVars, daemonVars
<1> DEFINE v == [client[c] EXCEPT !.pc = "queued"]
<1>2. IsClient(v) /\ v.pc = "queued"
  <2>1. IsClient(client[c])
    BY DEF ClientsOK
  <2> QED
    BY <2>1, Zenon DEF IsClient
<1>3. client' = [d \in Clients |-> IF d = c THEN v ELSE client[d]]
  BY <1>1 DEF ClientsOK
<1> HIDE DEF v
<1>4. /\ ClientsOK' /\ client'[c] = v /\ \A d \in Clients : d # c => client'[d] = client[d]
      /\ EngineUsers' = EngineUsers \ {c}
  BY <1>1, <1>2, <1>3, ClientMoves, Zenon
<1>5. c \notin Parties(engLock)
  BY <1>1, EngineAsked
<1>6. TreeOK' /\ EngineOK'
  BY <1>1, <1>4, <1>5, Zenon DEF TreeOK, TreeGood, TreeUsers, EngineOK, EngineGood
<1>7. PendingOK'
  <2>1. /\ pending \in Seq(Clients) /\ pending' \in Seq(Clients)
        /\ DOMAIN pending = 1 .. Len(pending) /\ Len(pending) \in Nat
        /\ DOMAIN pending' = 1 .. Len(pending) + 1 /\ pending'[Len(pending) + 1] = c
        /\ \A i \in 1 .. Len(pending) : pending'[i] = pending[i]
    BY <1>1 DEF PendingOK
  <2>2. \A i \in DOMAIN pending : /\ pending[i] \in Clients /\ pending[i] # c
                                  /\ client'[pending[i]].pc = "queued"
    BY <1>1, <1>4, <2>1 DEF PendingOK
  <2>3. \A i \in DOMAIN pending' : \/ i \in DOMAIN pending /\ pending'[i] = pending[i]
                                   \/ i = Len(pending) + 1 /\ pending'[i] = c
    BY <2>1
  <2>4. \A i \in DOMAIN pending' : client'[pending'[i]].pc = "queued"
    BY <1>2, <1>4, <2>2, <2>3, Zenon
  <2>5. \A i, j \in DOMAIN pending : pending[i] = pending[j] => i = j
    BY DEF PendingOK
  <2>6. \A i, j \in DOMAIN pending' : pending'[i] = pending'[j] => i = j
    BY <2>2, <2>3, <2>5, Zenon
  <2> QED
    BY <2>1, <2>4, <2>6, Zenon DEF PendingOK
<1> QED
  BY <1>1, <1>4, <1>6, <1>7, Zenon DEF CallersOK, TasksOK

LEMMA AcceptStep ==
    ASSUME LInv, OfRpc(Accept)
    PROVE  LInv'
<1> USE DEF LInv
<1> DEFINE c == Head(pending)
<1>1. /\ pending # <<>> /\ client' = [client EXCEPT ![c].pc = "recv"]
      /\ pending' = Tail(pending)
      /\ UNCHANGED <<treeLock, engLock, handler, caller, udev, dm>>
  BY DEF OfRpc, Accept, dbusVars, daemonVars
<1>2. /\ pending \in Seq(Clients) /\ Len(pending) \in Nat /\ 1 \in DOMAIN pending
      /\ DOMAIN pending = 1 .. Len(pending) /\ c = pending[1]
      /\ pending' \in Seq(Clients) /\ DOMAIN pending' = 1 .. Len(pending) - 1
      /\ \A i \in DOMAIN pending' : i + 1 \in DOMAIN pending /\ pending'[i] = pending[i + 1]
  BY <1>1 DEF PendingOK
<1>3. c \in Clients /\ client[c].pc = "queued"
  BY <1>2 DEF PendingOK
<1> HIDE DEF c
<1> DEFINE v == [client[c] EXCEPT !.pc = "recv"]
<1>4. IsClient(v) /\ v.pc = "recv"
  <2>1. IsClient(client[c])
    BY <1>3 DEF ClientsOK
  <2> QED
    BY <2>1, Zenon DEF IsClient
<1>5. client' = [d \in Clients |-> IF d = c THEN v ELSE client[d]]
  BY <1>1, <1>3 DEF ClientsOK
<1> HIDE DEF v
<1>6. /\ ClientsOK' /\ client'[c] = v /\ \A d \in Clients : d # c => client'[d] = client[d]
      /\ EngineUsers' = EngineUsers \ {c}
  BY <1>1, <1>3, <1>4, <1>5, ClientMoves, Zenon
<1>7. c \notin Parties(engLock)
  BY <1>3, EngineAsked
<1>8. TreeOK' /\ EngineOK'
  BY <1>1, <1>6, <1>7, Zenon DEF TreeOK, TreeGood, TreeUsers, EngineOK, EngineGood
<1>9. PendingOK'
  <2>1. ASSUME NEW i \in DOMAIN pending' PROVE client'[pending'[i]].pc = "queued"
    <3>1. i \in Nat /\ i + 1 # 1 /\ i + 1 \in DOMAIN pending /\ pending'[i] = pending[i + 1]
      BY <1>2
    <3>2. pending[i + 1] # c /\ pending[i + 1] \in Clients /\ client[pending[i + 1]].pc = "queued"
      BY <1>2, <3>1 DEF PendingOK
    <3> QED
      BY <1>6, <3>1, <3>2
  <2>2. ASSUME NEW i \in DOMAIN pending', NEW j \in DOMAIN pending', pending'[i] = pending'[j]
        PROVE  i = j
    <3>1. i + 1 = j + 1
      BY <1>2, <2>2 DEF PendingOK
    <3>2. i \in Nat /\ j \in Nat
      BY <1>2
    <3> QED
      BY <3>1, <3>2
  <2> QED
    BY <1>2, <2>1, <2>2, Zenon DEF PendingOK
<1> QED
  BY <1>1, <1>6, <1>8, <1>9, Zenon DEF CallersOK, TasksOK

LEMMA RecvRequestStep ==
    ASSUME LInv, NEW c \in Clients, OfRpc(RecvRequest(c))
    PROVE  LInv'
<1>1. /\ client[c].pc = "recv"
      /\ UNCHANGED <<treeLock, handler, caller, pending, udev, dm>>
  BY DEF OfRpc, RecvRequest, dbusVars, daemonVars
<1>2. IsClient(client[c]) /\ c \notin Parties(engLock) /\ c \in EngineParties
  BY <1>1, EngineAsked, Zenon DEF LInv, ClientsOK
<1>3. ASSUME NEW s \in 1 .. 3, engLock' = Acquire(engLock, c, TRUE),
             client' = [client EXCEPT ![c].pc = "engine", ![c].step = s]
      PROVE  LInv'
  <2> DEFINE v == [client[c] EXCEPT !.pc = "engine", !.step = s]
  <2>1. IsClient(v) /\ v.pc = "engine"
    BY <1>2, Zenon DEF IsClient
  <2>2. client' = [d \in Clients |-> IF d = c THEN v ELSE client[d]]
    BY <1>3 DEF LInv, ClientsOK
  <2> HIDE DEF v
  <2>3. EngineGood' /\ Parties(engLock)' = Parties(engLock) \cup {c}
    BY <1>2, <1>3, EngineAsk, Zenon DEF LInv, EngineOK
  <2>4. Parties(engLock)' = (Parties(engLock) \ {c}) \cup {x \in {c} : v.pc = "engine"}
    BY <1>2, <2>1, <2>3, Zenon
  <2> QED
    BY <1>1, <2>1, <2>2, <2>3, <2>4, ClientStep, Zenon
<1>4. CASE Respond(c) /\ UNCHANGED engLock
  <2>1. IsClient(Quiet) /\ Quiet.pc # "engine"
    BY QuietClient
  <2>2. client' = [d \in Clients |-> IF d = c THEN Quiet ELSE client[d]]
    BY <1>4 DEF LInv, ClientsOK, Respond
  <2> QED
    BY <1>1, <1>4, <2>1, <2>2, ClientAway, Zenon
<1>5. FirstStep(client[c].req) \in 1 .. 3
  BY DEF FirstStep
<1>6. \/ /\ engLock' = Acquire(engLock, c, TRUE)
         /\ client' = [client EXCEPT ![c].pc = "engine", ![c].step = FirstStep(client[c].req)]
      \/ Respond(c) /\ UNCHANGED engLock
  BY Zenon DEF OfRpc, RecvRequest
<1> QED
  BY <1>3, <1>4, <1>5, <1>6, Zenon

(* One locking of a request is over: another follows, or the reply.        *)
LEMMA LockingStep ==
    ASSUME LInv, NEW c \in Clients, client[c].pc = "engine", NEW v, IsClient(v),
           client' = [d \in Clients |-> IF d = c THEN v ELSE client[d]],
           UNCHANGED <<treeLock, handler, caller, pending, udev, dm>>,
           \/ v.pc = "engine" /\ engLock' = Acquire(Release(engLock, c), c, TRUE)
           \/ v.pc # "engine" /\ engLock' = Release(engLock, c)
    PROVE  LInv'
<1>1. c \in Parties(engLock) /\ c \in EngineParties /\ EngineGood
  BY EngineAsked, Zenon DEF LInv, EngineOK
<1>2. CASE v.pc = "engine" /\ engLock' = Acquire(Release(engLock, c), c, TRUE)
  <2>1. EngineGood' /\ Parties(engLock)' = Parties(engLock)
    BY <1>1, <1>2, EngineAgain, Zenon
  <2>2. Parties(engLock)' = (Parties(engLock) \ {c}) \cup {x \in {c} : v.pc = "engine"}
    BY <1>1, <1>2, <2>1, Zenon
  <2> QED
    BY <2>1, <2>2, ClientStep
<1>3. CASE v.pc # "engine" /\ engLock' = Release(engLock, c)
  <2>1. EngineGood' /\ Parties(engLock)' = Parties(engLock) \ {c}
    BY <1>1, <1>3, EngineDrop, Zenon DEF Release
  <2>2. Parties(engLock)' = (Parties(engLock) \ {c}) \cup {x \in {c} : v.pc = "engine"}
    BY <1>3, <2>1
  <2> QED
    BY <2>1, <2>2, ClientStep, Zenon
<1> QED
  BY <1>2, <1>3, Zenon

LEMMA RequestStep ==
    ASSUME LInv, NEW c \in Clients, OfRpc(GetDesc(c)) \/ OfRpc(SetDesc(c)) \/ OfRpc(Process(c))
    PROVE  LInv'
<1>1. /\ client[c].pc = "engine"
      /\ UNCHANGED <<treeLock, handler, caller, pending, udev, dm>>
  BY Zenon DEF OfRpc, GetDesc, SetDesc, Process, dbusVars, daemonVars
<1>2. IsClient(client[c])
  BY DEF LInv, ClientsOK
<1>3. ASSUME NEW y, NEW s \in 1 .. 3, client' = [client EXCEPT ![c].desc = y, ![c].step = s],
             engLock' = Acquire(Release(engLock, c), c, TRUE)
      PROVE  LInv'
  <2> DEFINE v == [client[c] EXCEPT !.desc = y, !.step = s]
  <2>1. IsClient(v) /\ v.pc = "engine"
    BY <1>1, <1>2, Zenon DEF IsClient
  <2>2. client' = [d \in Clients |-> IF d = c THEN v ELSE client[d]]
    BY <1>3 DEF LInv, ClientsOK
  <2> HIDE DEF v
  <2> QED
    BY <1>1, <1>3, <2>1, <2>2, LockingStep, Zenon
<1>4. ASSUME client' = [client EXCEPT ![c].step = 3],
             engLock' = Acquire(Release(engLock, c), c, TRUE)
      PROVE  LInv'
  <2> DEFINE v == [client[c] EXCEPT !.step = 3]
  <2>1. 3 \in 1 .. 3
    OBVIOUS
  <2>11. IsClient(v) /\ v.pc = "engine"
    BY <1>1, <1>2, <2>1, Zenon DEF IsClient
  <2>2. client' = [d \in Clients |-> IF d = c THEN v ELSE client[d]]
    BY <1>4 DEF LInv, ClientsOK
  <2> HIDE DEF v
  <2> QED
    BY <1>1, <1>4, <2>11, <2>2, LockingStep, Zenon
<1>5. ASSUME Respond(c), engLock' = Release(engLock, c)
      PROVE  LInv'
  <2>1. IsClient(Quiet) /\ Quiet.pc # "engine"
    BY QuietClient
  <2>2. client' = [d \in Clients |-> IF d = c THEN Quiet ELSE client[d]]
    BY <1>5 DEF LInv, ClientsOK, Respond
  <2> QED
    BY <1>1, <1>5, <2>1, <2>2, LockingStep, Zenon
<1>6. CASE OfRpc(GetDesc(c))
  <2> DEFINE next(y) == IF y # None /\ client[c].req.fd THEN 2 ELSE 3
  <2>1. PICK y : /\ client' = [client EXCEPT ![c].desc = y, ![c].step = next(y)]
                 /\ engLock' = Acquire(Release(engLock, c), c, TRUE)
    BY <1>6, Zenon DEF OfRpc, GetDesc
  <2>2. next(y) \in 1 .. 3
    OBVIOUS
  <2> QED
    BY <1>3, <2>1, <2>2, Zenon
<1>7. CASE OfRpc(SetDesc(c))
  BY <1>4, <1>5, <1>7, Zenon DEF OfRpc, SetDesc
<1>8. CASE OfRpc(Process(c))
  BY <1>5, <1>8, Zenon DEF OfRpc, Process
<1> QED
  BY <1>6, <1>7, <1>8

LEMMA RpcStep ==
    ASSUME LInv,
           \/ \E c \in Clients : \/ OfRpc(Ask(c)) \/ OfRpc(Connect(c)) \/ OfRpc(Vanish(c))
                                 \/ OfRpc(ServeRequest(c))
           \/ OfRpc(ServerTask) \/ OfRpc(Reactor)
    PROVE  LInv'
<1>1. ASSUME NEW c \in Clients, OfRpc(ServeRequest(c)) PROVE LInv'
  <2>1. \/ OfRpc(RecvRequest(c)) \/ OfRpc(GetDesc(c)) \/ OfRpc(SetDesc(c)) \/ OfRpc(Process(c))
    BY <1>1 DEF OfRpc, ServeRequest
  <2> QED
    BY <2>1, RecvRequestStep, RequestStep, Zenon
<1>2. CASE OfRpc(ClearReady) \/ OfRpc(Reactor)
  <2>1. UNCHANGED <<treeLock, engLock, handler, caller, client, pending, udev, dm>>
    BY <1>2 DEF OfRpc, ClearReady, Reactor, dbusVars, daemonVars
  <2>2. TasksOK'
    BY <2>1 DEF LInv, TasksOK
  <2> QED
    BY <2>1, <2>2, ApartStep, Zenon
<1>3. OfRpc(ServerTask) => OfRpc(Accept) \/ OfRpc(ClearReady)
  BY DEF OfRpc, ServerTask
<1> QED
  BY <1>1, <1>2, <1>3, AskStep, ConnectStep, AcceptStep, Zenon

----------------------------------------------------------------------------
(* The rest of the daemon.                                                 *)

(* What the kernel, the signal, the udev thread and the I/O driver do.     *)
LEMMA KernelStep ==
    ASSUME LInv, Uevent \/ DmEvent \/ Signal \/ DmReactor \/ UdevThread
    PROVE  LInv'
<1>1. UNCHANGED <<treeLock, engLock, handler, caller, client, pending>>
  BY DEF Uevent, DmEvent, Signal, DmReactor, UdevThread, UdevPoll, UdevExit, dbusVars, rpcVars
<1>2. TasksOK
  BY DEF LInv
<1>3. CASE Uevent
  <2>1. PICK uuid : udev' = [udev EXCEPT !.events = Append(@, uuid)]
    BY <1>3, Zenon DEF Uevent
  <2>2. UNCHANGED dm
    BY <1>3 DEF Uevent
  <2> QED
    BY <1>1, <1>2, <2>1, <2>2, ApartStep, Zenon DEF TasksOK
<1>4. CASE DmEvent
  <2>1. TasksOK' /\ UNCHANGED udev /\ dm'.pc = dm.pc
    BY <1>2, <1>4, Zenon DEF TasksOK, DmFields, DmEvent
  <2> QED
    BY <1>1, <2>1, ApartStep
<1>5. CASE Signal
  <2>1. TasksOK' /\ UNCHANGED <<udev, dm>>
    BY <1>2, <1>5, Zenon DEF TasksOK, Signal
  <2> QED
    BY <1>1, <2>1, ApartStep, Zenon
<1>6. CASE DmReactor
  <2>1. TasksOK' /\ UNCHANGED udev /\ dm'.pc = dm.pc
    BY <1>2, <1>6, Zenon DEF TasksOK, DmFields, DmReactor
  <2> QED
    BY <1>1, <2>1, ApartStep
<1>7. CASE UdevThread
  <2>1. TasksOK' /\ UNCHANGED dm /\ udev'.pc = udev.pc
    BY <1>2, <1>7, Zenon DEF TasksOK, UdevThread, UdevPoll, UdevExit
  <2> QED
    BY <1>1, <2>1, ApartStep
<1> QED
  BY <1>3, <1>4, <1>5, <1>6, <1>7, Zenon

(* A task of the daemon goes to the engine, or has been there.             *)
LEMMA TaskStep ==
    ASSUME LInv, UNCHANGED <<treeLock, handler, caller, client, pending>>, TasksOK',
           \/ /\ UNCHANGED udev /\ dm'.pc = "lock" /\ dm.pc # "lock"
              /\ engLock' = Acquire(engLock, "dm", TRUE)
           \/ /\ UNCHANGED udev /\ dm'.pc # "lock"
              /\ engLock' = Release(engLock, "dm")
           \/ /\ UNCHANGED dm /\ udev'.pc = "lock" /\ udev.pc # "lock"
              /\ engLock' = Acquire(engLock, "udev", TRUE)
           \/ /\ UNCHANGED dm /\ udev'.pc # "lock"
              /\ engLock' = Release(engLock, "udev")
    PROVE  LInv'
<1> USE DEF LInv
<1>1. "dm" \notin Callers \cup Clients /\ "udev" \notin Callers \cup Clients
  BY PartiesAssumption
<1>2. "dm" \in EngineParties /\ "udev" \in EngineParties /\ EngineGood
  BY DEF EngineParties, EngineOK
<1>3. PICK others : others = {c \in Callers : caller[c].pc = "engine"}
                               \cup {c \in Clients : client[c].pc = "engine"}
  BY Zenon
<1>4. /\ EngineUsers = others \cup {t \in {"udev"} : udev.pc = "lock"} \cup {t \in {"dm"} : dm.pc = "lock"}
      /\ EngineUsers' = others \cup {t \in {"udev"} : udev'.pc = "lock"}
                               \cup {t \in {"dm"} : dm'.pc = "lock"}
      /\ "dm" \notin others /\ "udev" \notin others
  BY <1>1, <1>3 DEF EngineUsers
<1>5. Parties(engLock) = EngineUsers
  BY DEF EngineOK
<1>6. EngineOK'
  <2>1. CASE /\ UNCHANGED udev /\ dm'.pc = "lock" /\ dm.pc # "lock"
             /\ engLock' = Acquire(engLock, "dm", TRUE)
    <3>1. EngineGood' /\ Parties(engLock)' = Parties(engLock) \cup {"dm"}
      <4>1. PICK who \in {"dm"} : TRUE
        OBVIOUS
      <4>2. /\ who \in EngineParties /\ who \notin Parties(engLock)
            /\ engLock' = Acquire(engLock, who, TRUE)
        BY <1>2, <1>4, <1>5, <2>1, <4>1, Zenon
      <4>3. EngineGood' /\ Parties(engLock)' = Parties(engLock) \cup {who}
        BY <1>2, <4>2, EngineAsk, Zenon
      <4> QED
        BY <4>1, <4>3
    <3> QED
      BY <1>4, <1>5, <2>1, <3>1, Zenon DEF EngineOK
  <2>2. CASE /\ UNCHANGED udev /\ dm'.pc # "lock"
             /\ engLock' = Release(engLock, "dm")
    <3>1. EngineGood' /\ Parties(engLock)' = Parties(engLock) \ {"dm"}
      BY <1>2, <2>2, EngineDrop DEF Release
    <3> QED
      BY <1>4, <1>5, <2>2, <3>1, Zenon DEF EngineOK
  <2>3. CASE /\ UNCHANGED dm /\ udev'.pc = "lock" /\ udev.pc # "lock"
             /\ engLock' = Acquire(engLock, "udev", TRUE)
    <3>1. EngineGood' /\ Parties(engLock)' = Parties(engLock) \cup {"udev"}
      <4>1. PICK who \in {"udev"} : TRUE
        OBVIOUS
      <4>2. /\ who \in EngineParties /\ who \notin Parties(engLock)
            /\ engLock' = Acquire(engLock, who, TRUE)
        BY <1>2, <1>4, <1>5, <2>3, <4>1, Zenon
      <4>3. EngineGood' /\ Parties(engLock)' = Parties(engLock) \cup {who}
        BY <1>2, <4>2, EngineAsk, Zenon
      <4> QED
        BY <4>1, <4>3, Zenon
    <3> QED
      BY <1>4, <1>5, <2>3, <3>1, Zenon DEF EngineOK
  <2>4. CASE /\ UNCHANGED dm /\ udev'.pc # "lock"
             /\ engLock' = Release(engLock, "udev")
    <3>1. EngineGood' /\ Parties(engLock)' = Parties(engLock) \ {"udev"}
      BY <1>2, <2>4, EngineDrop, Zenon DEF Release
    <3> QED
      BY <1>4, <1>5, <2>4, <3>1, Zenon DEF EngineOK
  <2> QED
    BY <2>1, <2>2, <2>3, <2>4, Zenon
<1>7. TreeOK'
  BY DEF TreeOK, TreeGood, TreeUsers
<1> QED
  BY <1>6, <1>7, Zenon DEF CallersOK, ClientsOK, PendingOK

LEMMA UdevStep ==
    ASSUME LInv, UdevTask
    PROVE  LInv'
<1>1. UNCHANGED <<treeLock, handler, caller, client, pending, dm>>
  BY Zenon DEF UdevTask, UdevRecv, UdevHandle, dbusVars, rpcVars
<1>2. TasksOK
  BY DEF LInv
<1>3. CASE UdevRecv
  <2>1. TasksOK' /\ udev'.pc = "lock"
    BY <1>1, <1>2, <1>3, Zenon DEF UdevRecv, TasksOK
  <2>2. udev.pc # "lock" /\ engLock' = Acquire(engLock, "udev", TRUE)
    BY <1>3 DEF UdevRecv
  <2> QED
    BY <1>1, <2>1, <2>2, TaskStep, Zenon
<1>4. CASE UdevHandle
  <2>1. TasksOK' /\ udev'.pc = "recv"
    BY <1>1, <1>2, <1>4, Zenon DEF UdevHandle, TasksOK
  <2>2. engLock' = Release(engLock, "udev")
    BY <1>4 DEF UdevHandle
  <2> QED
    BY <1>1, <2>1, <2>2, TaskStep, Zenon
<1> QED
  BY <1>3, <1>4 DEF UdevTask

LEMMA DmStep ==
    ASSUME LInv, DmTask
    PROVE  LInv'
<1>1. DmThen["wait"] = "arm" /\ DmThen["arm"] = "lock" /\ DmThen["lock"] = "wait"
  BY DEF DmThen
<1>2. TasksOK
  BY DEF LInv
<1>3. ASSUME NEW r, DmGoes(r), dm.pc \in {"wait", "arm", "lock"}, r = [f \in DmFields |-> r[f]]
      PROVE  LInv'
  <2>1. UNCHANGED <<treeLock, handler, caller, client, pending, udev>>
    BY <1>3 DEF DmGoes, dbusVars, rpcVars
  <2>2. TasksOK' /\ dm'.pc = DmThen[dm.pc]
    BY <1>2, <1>3, <2>1, Zenon DEF DmGoes, TasksOK, DmFields
  <2>3. engLock' = IF DmThen[dm.pc] = "lock" THEN Acquire(engLock, "dm", TRUE)
                   ELSE Release(engLock, "dm")
    BY <1>3 DEF DmGoes
  <2>4. DmThen[dm.pc] = "lock" => dm.pc # "lock"
    BY <1>1
  <2> QED
    BY <2>1, <2>2, <2>3, <2>4, TaskStep, Zenon
<1>7. ASSUME NEW r, NEW n, DmFails(r, n), r = [f \in DmFields |-> r[f]]
      PROVE  LInv'
  <2>1. UNCHANGED <<treeLock, handler, caller, client, pending, udev>>
    BY <1>7 DEF DmFails, dbusVars, rpcVars
  <2>2. TasksOK' /\ dm'.pc = "wait"
    BY <1>2, <1>7, <2>1, Zenon DEF DmFails, TasksOK, DmFields
  <2>3. engLock' = Release(engLock, "dm") /\ dm'.pc # "lock"
    BY <1>7, <2>2 DEF DmFails
  <2> QED
    BY <2>1, <2>2, <2>3, TaskStep, Zenon
<1>4. CASE DmReadable
  <2> DEFINE r == [dm EXCEPT !.ready = FALSE]
  <2>1. r = [f \in DmFields |-> r[f]]
    BY <1>2, Zenon DEF TasksOK, DmFields
  <2> QED
    BY <1>3, <1>4, <2>1 DEF DmReadable
<1>5. CASE DmArmPoll
  <2> DEFINE r == [dm EXCEPT !.armed = dm.count, !.round = dm.count]
             q == [dm EXCEPT !.round = dm.count]
  <2>1. r = [f \in DmFields |-> r[f]] /\ q = [f \in DmFields |-> q[f]]
    BY <1>2, Zenon DEF TasksOK, DmFields
  <2>2. dm.pc = "arm" /\ (DmGoes(r) \/ DmFails(q, dm.count))
    BY <1>5 DEF DmArmPoll
  <2> QED
    BY <1>3, <1>7, <2>1, <2>2, Zenon
<1>6. CASE DmEvented
  <2>1. \A S : DmHandled(S) = [f \in DmFields |-> DmHandled(S)[f]]
    BY <1>2, Zenon DEF TasksOK, DmFields, DmHandled
  <2>2. dm = [f \in DmFields |-> dm[f]] /\ dm.pc = "lock"
    BY <1>2, <1>6 DEF TasksOK, DmEvented
  <2>3. \/ DmGoes(DmHandled(DmPools))
        \/ DmFails(dm, dm.round)
        \/ \E S : DmFails(DmHandled(S), dm.round)
    BY <1>6, Zenon DEF DmEvented
  <2> QED
    BY <1>3, <1>7, <2>1, <2>2, <2>3, Zenon
<1> QED
  BY <1>4, <1>5, <1>6, Zenon DEF DmTask

(* The tasks are cancelled and their guards dropped; the threads that      *)
(* serve calls keep theirs.                                                *)
LEMMA ShutdownStep ==
    ASSUME LInv, Shutdown
    PROVE  LInv'
<1> USE DEF LInv
<1>1. /\ UNCHANGED <<treeLock, handler, caller>>
      /\ engLock' = ReleaseAll(engLock, {"udev", "dm"} \cup Clients)
      /\ client' = [c \in Clients |-> Quiet] /\ pending' = <<>>
  BY DEF Shutdown, dbusVars
<1>2. TasksOK' /\ udev'.pc = "gone" /\ dm'.pc = "gone"
  BY Zenon DEF TasksOK, DmFields, Shutdown
<1>3. ClientsOK' /\ \A c \in Clients : client'[c].pc = "idle"
  BY <1>1, QuietClient DEF ClientsOK
<1>4. EngineGood' /\ Parties(engLock)' = Parties(engLock) \ ({"udev", "dm"} \cup Clients)
  BY <1>1, EngineDrop, Zenon DEF EngineOK
<1>5. EngineUsers' = EngineUsers \ ({"udev", "dm"} \cup Clients)
  BY <1>1, <1>2, <1>3, PartiesAssumption, Zenon DEF EngineUsers
<1>6. EngineOK'
  BY <1>4, <1>5, Zenon DEF EngineOK
<1>7. TreeOK'
  BY <1>1 DEF TreeOK, TreeGood, TreeUsers
<1>8. PendingOK'
  BY <1>1 DEF PendingOK
<1> QED
  BY <1>1, <1>2, <1>3, <1>6, <1>7, <1>8, Zenon DEF CallersOK

LEMMA NextLocks == LInv /\ [Next]_vars => LInv'
<1> SUFFICES ASSUME LInv, [Next]_vars PROVE LInv'
  OBVIOUS
<1>1. CASE UNCHANGED vars
  <2>1. UNCHANGED <<treeLock, engLock, handler, caller, client, pending, udev, dm>>
    BY <1>1 DEF vars, dbusVars, rpcVars, daemonVars
  <2>2. TasksOK'
    BY <2>1 DEF LInv, TasksOK
  <2> QED
    BY <2>1, <2>2, ApartStep, Zenon
<1>2. CASE Environment
  BY <1>2, DbusStep, RpcStep, KernelStep, Zenon DEF Environment
<1>3. CASE \/ \E c \in Callers : OfDbus(Serve(c))
           \/ OfDbus(TreeThread) \/ OfDbus(ConnThread)
  BY <1>3, DbusStep
<1>4. CASE \/ \E c \in Clients : OfRpc(ServeRequest(c))
           \/ OfRpc(ServerTask) \/ OfRpc(Reactor)
  BY <1>4, RpcStep
<1>5. CASE DmReactor \/ UdevThread \/ UdevTask \/ DmTask \/ Shutdown
  BY <1>5, KernelStep, UdevStep, DmStep, ShutdownStep, Zenon
<1> QED
  BY <1>1, <1>2, <1>3, <1>4, <1>5, Zenon DEF Next, Stopped

----------------------------------------------------------------------------
(* The results.                                                            *)

LEMMA LocksInv == Spec => []LInv
<1> QED
  BY InitLocks, NextLocks, PTL DEF Spec

LEMMA GuardsFollow == LInv => GuardsAccounted
<1> SUFFICES ASSUME LInv PROVE GuardsAccounted
  BY Zenon
<1>1. Orderly(treeLock) /\ Parties(treeLock) = TreeUsers
  BY Zenon DEF LInv, TreeOK, TreeGood, GoodLock, Served, Orderly
<1>2. Orderly(engLock) /\ Parties(engLock) = EngineUsers
  BY DEF LInv, EngineOK, EngineGood, GoodLock, Served, Orderly
<1>3. \A c \in Callers : caller[c].pc \in {"engine", "push"} => c \in treeLock.readers
  BY DEF LInv, TreeOK
<1> QED
  BY <1>1, <1>2, <1>3, Zenon DEF GuardsAccounted

(* Who a lock is used by, one of them holds.                               *)
LEMMA SomebodyHolds ==
    ASSUME NEW lock, Served(lock), NEW P, lock \in LockType(P), NEW u \in Parties(lock)
    PROVE  \E h \in Parties(lock) : Holds(lock, h)
<1>1. CASE u \in lock.readers \cup lock.writers
  BY <1>1 DEF Holds
<1>2. CASE u \in Waiters(lock)
  <2>1. lock.waiting # <<>>
    BY <1>2 DEF Waiters, LockType
  <2>2. ~Admits(lock, Head(lock.waiting))
    BY <2>1 DEF Served
  <2>3. lock.readers \cup lock.writers # {}
    BY <2>2 DEF Admits
  <2> QED
    BY <2>3 DEF Holds, Parties
<1> QED
  BY <1>1, <1>2 DEF Parties

LEMMA StandstillFollows == LInv => NoStandstill
<1> SUFFICES ASSUME LInv, TreeUsers \cup EngineUsers # {} PROVE CanGoOn # {}
  BY DEF NoStandstill
<1>1. CASE EngineUsers # {}
  <2>1. PICK h \in EngineUsers : Holds(engLock, h)
    <3>1. /\ Served(engLock) /\ engLock \in LockType(EngineParties)
          /\ Parties(engLock) = EngineUsers
      BY DEF LInv, EngineOK, EngineGood, GoodLock
    <3>2. PICK u : u \in Parties(engLock)
      BY <1>1, <3>1, Zenon
    <3> QED
      BY <3>1, <3>2, SomebodyHolds, Zenon
  <2>2. ASSUME NEW c \in Callers, caller[c].pc = "engine" PROVE caller[c].left >= 1
    BY <2>2 DEF LInv, CallersOK, IsCaller
  <2>3. ASSUME NEW c \in Clients, client[c].pc = "engine" PROVE client[c].step \in 1 .. 3
    BY <2>3, Zenon DEF LInv, ClientsOK, IsClient
  <2>4. h \in CanGoOn
    BY <2>1, <2>2, <2>3, Zenon DEF EngineUsers, CanGoOn
  <2> QED
    BY <2>4
<1>2. CASE EngineUsers = {}
  <2>1. PICK h \in TreeUsers : Holds(treeLock, h)
    <3>1. /\ Served(treeLock) /\ treeLock \in LockType(TreeParties)
          /\ Parties(treeLock) = TreeUsers
      BY DEF LInv, TreeOK, TreeGood, GoodLock
    <3>2. PICK u : u \in Parties(treeLock)
      BY <1>2, <3>1, Zenon
    <3> QED
      BY <3>1, <3>2, SomebodyHolds, Zenon
  <2>2. ASSUME NEW c \in Callers, caller[c].pc # "idle" PROVE caller[c].pc \in {"tree", "push"}
    BY <1>2, <2>2, Zenon DEF LInv, CallersOK, IsCaller, EngineUsers
  <2>3. h \in CanGoOn
    BY <2>1, <2>2 DEF TreeUsers, CanGoOn
  <2> QED
    BY <2>3
<1> QED
  BY <1>1, <1>2

(* In every reachable state of the daemon, with any number of D-Bus        *)
(* threads and JSON-RPC tasks, each of the two locks of structures.rs is   *)
(* held or waited for by exactly those that are in the code between asking *)
(* for a guard and dropping it, nobody is kept waiting who could be        *)
(* served, and who locks the engine for a method call still reads the tree.*)
(* No future that Shutdown cancels and no exit of the tree handler leaves  *)
(* a guard or a request behind.                                            *)
THEOREM GuardsStayAccounted == Spec => []GuardsAccounted
<1> QED
  BY LocksInv, GuardsFollow, PTL

(* The order "tree, then engine" admits no deadlock: whenever a thread or  *)
(* task uses the tree or the engine, at least one of them has the guard    *)
(* its next step needs, whatever the calls, requests, events and signals.  *)
THEOREM NobodyStandsStill == Spec => []NoStandstill
<1> QED
  BY LocksInv, StandstillFollows, PTL
============================================================================
