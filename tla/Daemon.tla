------------------------------- MODULE Daemon -------------------------------
(***************************************************************************)
(* The daemon (stratis/run.rs): one engine, an IPC layer (D-Bus in         *)
(* stratisd, JSON-RPC in stratisd-min), the thread that waits for udev     *)
(* events, the tasks that hand udev and devicemapper events to the engine, *)
(* and the end of it all on a signal.                                      *)
(***************************************************************************)
EXTENDS Dbus, Rpc

CONSTANTS Engine0,    \* the engine after StratEngine::initialize
          DmPools,    \* the pools whose devicemapper devices have events
          Budgets     \* what a behaviour may start with

\* The threads and tasks that ask for the locks are told apart.
ASSUME PartiesAssumption ==
  /\ Callers \cap Clients = {}
  /\ (Callers \cup Clients) \cap {"tree", "udev", "dm"} = {}

VARIABLES phase,      \* "run"; "exiting" once the threads are told to exit;
                      \* "down" once the runtime is dropped
          udev,       \* [events: with the kernel, thread, sent: the channel,
                      \*  pc and event: the task that receives from it]
          dm          \* devicemapper events: [count and nr: the kernel's
                      \* counters, of all events and of each pool's, armed: the
                      \* counter the descriptor compares count with, edge,
                      \* ready, pc: the task, watched: the counters the engine
                      \* has recorded; acted: those event_on has succeeded for,
                      \* round and failed: what count was when the last round
                      \* of process_dm_event came to arm_poll, and when the last
                      \* one that failed did]

daemonVars == <<phase, udev, dm>>

\* Which layer the daemon was built with: "dbus" or "jsonrpc".
ipc == budget.ipc

vars == <<engine, engLock, budget, dbusVars, rpcVars, daemonVars>>

Init ==
  /\ budget \in Budgets
  /\ engine = Engine0 /\ engLock = Unlocked
  /\ DbusInit(ipc = "dbus")
  /\ RpcInit
  /\ phase = "run"
  /\ udev = [events |-> <<>>, thread |-> "run", sent |-> <<>>, pc |-> "recv", event |-> 0]
  /\ dm = [count |-> 0, nr |-> [p \in DmPools |-> 0], armed |-> 0, edge |-> FALSE,
           ready |-> FALSE, pc |-> "wait", watched |-> [p \in DmPools |-> 0],
           acted |-> [p \in DmPools |-> 0], round |-> 0, failed |-> 0]

---------------------------------------------------------------------------
(* udev events.                                                            *)

\* The kernel announces a block device of a pool that is not set up.
Uevent ==
  /\ phase # "down" /\ budget.uevents > 0
  /\ \E uuid \in DOMAIN Engine0.dormant : udev' = [udev EXCEPT !.events = Append(@, uuid)]
  /\ budget' = [budget EXCEPT !.uevents = @ - 1]
  /\ UNCHANGED <<engine, engLock, dbusVars, rpcVars, phase, dm>>

\* udev_thread: an event goes to the task that handles it, if there is one.
UdevPoll ==
  /\ udev.thread = "run" /\ udev.events # <<>>
  /\ udev' = [udev EXCEPT !.events = Tail(@),
                          !.sent = IF phase = "down" THEN @ ELSE Append(@, Head(udev.events))]
  /\ UNCHANGED <<engine, engLock, budget, dbusVars, rpcVars, phase, dm>>

\* The notice to exit is looked for when poll times out.
UdevExit ==
  /\ udev.thread = "run" /\ udev.events = <<>> /\ phase # "run"
  /\ udev' = [udev EXCEPT !.thread = "done"]
  /\ UNCHANGED <<engine, engLock, budget, dbusVars, rpcVars, phase, dm>>

UdevRecv ==
  /\ udev.pc = "recv" /\ udev.sent # <<>>
  /\ udev' = [udev EXCEPT !.pc = "lock", !.event = Head(udev.sent), !.sent = Tail(@)]
  /\ engLock' = Acquire(engLock, "udev", TRUE)
  /\ UNCHANGED <<engine, budget, dbusVars, rpcVars, phase, dm>>

\* handle_udev_event: a pool that was set up is registered; JSON-RPC has
\* nothing to register.
UdevHandle ==
  /\ udev.pc = "lock" /\ Holds(engLock, "udev")
  /\ \E r \in {HandleEvent(engine, udev.event), Identity(engine)} :
       LET messages == IF IsChanged(r) /\ ipc = "dbus"
                       THEN RegisterPool(next_index, r.engine, udev.event) ELSE <<>>
       IN /\ engine' = r.engine
          /\ queue' = queue \o messages
          /\ next_index' = next_index + Added(messages)
  /\ engLock' = Release(engLock, "udev")
  /\ udev' = [udev EXCEPT !.pc = "recv", !.event = 0]
  /\ UNCHANGED <<budget, tree, treeLock, handler, conn, caller, rpcVars, phase, dm>>

---------------------------------------------------------------------------
(* devicemapper events: dm_event_thread.                                   *)

DmEvent ==
  /\ phase # "down" /\ budget.dmevents > 0
  /\ \E p \in DmPools : dm' = [dm EXCEPT !.count = @ + 1, !.nr[p] = @ + 1, !.edge = TRUE]
  /\ budget' = [budget EXCEPT !.dmevents = @ - 1]
  /\ UNCHANGED <<engine, engLock, dbusVars, rpcVars, phase, udev>>

\* The I/O driver asks the descriptor again before it reports it readable.
DmReactor ==
  /\ dm.edge /\ phase # "down"
  /\ dm' = [dm EXCEPT !.edge = FALSE, !.ready = @ \/ dm.count > dm.armed]
  /\ UNCHANGED <<engine, engLock, budget, dbusVars, rpcVars, phase, udev>>

\* Arming the descriptor when the engine is done.
DmArmsLast == [wait |-> "lock", lock |-> "arm", arm |-> "wait"]

\* The order of the three steps of process_dm_event.
DmThen == [wait |-> "arm", arm |-> "lock", lock |-> "wait"]

DmGoes(changed) ==
  /\ dm' = [changed EXCEPT !.pc = DmThen[dm.pc]]
  /\ engLock' = IF DmThen[dm.pc] = "lock" THEN Acquire(engLock, "dm", TRUE)
                ELSE Release(engLock, "dm")
  /\ UNCHANGED <<budget, dbusVars, rpcVars, phase, udev>>

\* An error ends the round: it is logged and dm_event_thread waits again.
DmFails(changed, round) ==
  /\ dm' = [changed EXCEPT !.pc = "wait", !.failed = round]
  /\ engLock' = Release(engLock, "dm")
  /\ UNCHANGED <<budget, dbusVars, rpcVars, phase, udev>>

DmReadable == dm.pc = "wait" /\ dm.ready /\ DmGoes([dm EXCEPT !.ready = FALSE]) /\ UNCHANGED engine

DmArmPoll ==
  /\ dm.pc = "arm"
  /\ \/ DmGoes([dm EXCEPT !.armed = dm.count, !.round = dm.count])
     \/ DmFails([dm EXCEPT !.round = dm.count], dm.count)
  /\ UNCHANGED engine

\* The pools that evented has to call event_on for, and the round with those
\* in S handled; the numbers are recorded when event_on has returned Ok.
DmChanged == {p \in DmPools : dm.watched[p] # dm.nr[p]}

DmHandled(S) ==
  [dm EXCEPT !.watched = [p \in DmPools |-> IF p \in S THEN dm.nr[p] ELSE dm.watched[p]],
             !.acted = [p \in DmPools |-> IF p \in S \cap DmChanged THEN dm.nr[p] ELSE dm.acted[p]]]

\* StratEngine::evented.  list_devices may fail, and so may event_on of a pool,
\* which leaves the pools that come after it in the table to another round.
DmEvented ==
  /\ dm.pc = "lock" /\ Holds(engLock, "dm")
  /\ \/ DmGoes(DmHandled(DmPools))
     \/ DmFails(dm, dm.round)
     \/ \E bad \in DmChanged : \E S \in SUBSET (DmPools \ {bad}) : DmFails(DmHandled(S), dm.round)
  /\ UNCHANGED engine

---------------------------------------------------------------------------
(* The end: run.                                                           *)

\* SIGINT, or the failure of a thread: the others are told to exit.
Signal ==
  /\ phase = "run" /\ budget.signals > 0 /\ phase' = "exiting"
  /\ UNCHANGED <<engine, engLock, budget, dbusVars, rpcVars, udev, dm>>

\* The runtime is dropped: its tasks are cancelled wherever they wait, and
\* the drop returns when the blocking threads have.
Shutdown ==
  /\ phase = "exiting" /\ phase' = "down"
  /\ engLock' = ReleaseAll(engLock, {"udev", "dm"} \cup Clients)
  /\ udev' = [udev EXCEPT !.pc = "gone", !.event = 0, !.sent = <<>>]
  /\ dm' = [dm EXCEPT !.pc = "gone"]
  /\ client' = [c \in Clients |-> Quiet]
  /\ pending' = <<>> /\ edge' = FALSE /\ ready' = "no" /\ server' = "gone"
  /\ UNCHANGED <<engine, budget, dbusVars>>

Terminated ==
  /\ phase = "down" /\ udev.thread = "done"
  /\ conn = "done" /\ handler.pc = "done" /\ \A c \in Callers : caller[c].pc = "idle"

\* Every thread and task waits for something that clients or the kernel do.
AtRest ==
  /\ phase = "run" /\ engLock = Unlocked /\ treeLock = Unlocked
  /\ queue = <<>> /\ \A c \in Callers : caller[c].pc = "idle"
  /\ pending = <<>> /\ \A c \in Clients : client[c].pc = "idle"
  /\ udev.events = <<>> /\ udev.sent = <<>> /\ dm.pc = "wait" /\ ~dm.ready /\ ~dm.edge

Stopped == (Terminated \/ AtRest) /\ UNCHANGED vars

---------------------------------------------------------------------------
OfDbus(A) == A /\ UNCHANGED <<rpcVars, daemonVars>>

OfRpc(A) == A /\ UNCHANGED <<dbusVars, daemonVars>>

\* A thread that serves a call, the tree handler and the connection handler.
Serve(c) == Dispatch(c) \/ Execute(c) \/ FetchProperty(c) \/ LatePush(c)

TreeThread == TreeRecv \/ TreeApply \/ (phase # "run" /\ TreeExit)

ConnThread == phase # "run" /\ ConnExit

\* The task of a request, and the server's.
ServeRequest(c) == RecvRequest(c) \/ GetDesc(c) \/ SetDesc(c) \/ Process(c)

ServerTask == Accept \/ ClearReady

UdevThread == UdevPoll \/ UdevExit

UdevTask == UdevRecv \/ UdevHandle

DmTask == DmReadable \/ DmArmPoll \/ DmEvented

Environment ==
  \/ \E c \in Callers : phase # "down" /\ OfDbus(Receive(c))
  \/ /\ ipc = "jsonrpc" /\ phase # "down"
     /\ \E c \in Clients : OfRpc(Ask(c)) \/ OfRpc(Connect(c)) \/ OfRpc(Vanish(c))
  \/ Uevent \/ DmEvent \/ Signal

Next ==
  \/ Environment
  \/ \E c \in Callers : OfDbus(Serve(c))
  \/ OfDbus(TreeThread) \/ OfDbus(ConnThread)
  \/ \E c \in Clients : OfRpc(ServeRequest(c))
  \/ OfRpc(ServerTask) \/ OfRpc(Reactor) \/ DmReactor
  \/ UdevThread \/ UdevTask \/ DmTask
  \/ Shutdown \/ Stopped

\* Every thread and task of the daemon that can go on does so; clients, the
\* kernel and the signal may do nothing.
Fairness ==
  /\ \A c \in Callers : WF_vars(OfDbus(Serve(c)))
  /\ WF_vars(OfDbus(TreeThread)) /\ WF_vars(OfDbus(ConnThread))
  /\ \A c \in Clients : WF_vars(OfRpc(ServeRequest(c)))
  /\ WF_vars(OfRpc(ServerTask)) /\ WF_vars(OfRpc(Reactor)) /\ WF_vars(DmReactor)
  /\ WF_vars(UdevThread) /\ WF_vars(UdevTask) /\ WF_vars(DmTask) /\ WF_vars(Shutdown)

Spec == Init /\ [][Next]_vars /\ Fairness

---------------------------------------------------------------------------
(* Properties.                                                             *)

Lock == [readers : SUBSET Callers,
         writers : {w \in SUBSET (Callers \cup Clients \cup {"tree", "udev", "dm"}) :
                      Cardinality(w) <= 1},
         waiting : Seq([who : Callers \cup Clients \cup {"tree", "udev", "dm"},
                        exclusive : BOOLEAN])]

Object == [kind : {"pool", "fs", "dev"}, uuid : 1 .. engine.next, parent : 0 .. next_index,
           name : ValidNames \cup {None}, devnode : ValidNames \cup {None}]

\* The types of the variables; a guard of either lock excludes the others
\* that structures.rs says it does, and the tree is only locked exclusively
\* by its handler and the engine never shared.
TypeOK ==
  /\ {engLock, treeLock} \subseteq Lock
  /\ \A lock \in {engLock, treeLock} : lock.writers # {} => lock.readers = {}
  /\ treeLock.writers \subseteq {"tree"} /\ engLock.readers = {}
  /\ DOMAIN tree \subseteq 1 .. next_index /\ \A p \in DOMAIN tree : tree[p] \in Object
  /\ \A i \in DOMAIN queue : queue[i].path \in 1 .. next_index
  /\ handler.pc \in {"recv", "lock", "done"} /\ conn \in {"run", "done"}
  /\ \A c \in Callers : caller[c].pc \in {"idle", "tree", "engine", "push"}
  /\ \A c \in Clients : client[c].pc \in {"idle", "connect", "queued", "recv", "engine"}
  /\ pending \in Seq(Clients) /\ edge \in BOOLEAN /\ ready \in {"no", "yes", "taken"}
  /\ server \in {"wait", "clear", "gone"}
  /\ ipc \in {"dbus", "jsonrpc"} /\ phase \in {"run", "exiting", "down"}
  /\ udev.thread \in {"run", "done"} /\ udev.pc \in {"recv", "lock", "gone"}
  /\ dm.pc \in {"wait", "arm", "lock", "gone"} /\ dm.armed <= dm.count
  /\ \A p \in DmPools : dm.acted[p] <= dm.watched[p] /\ dm.watched[p] <= dm.nr[p]

\* Who is between asking for a guard of the tree, or of the engine, and
\* dropping it.
TreeUsers ==
  {c \in Callers : caller[c].pc # "idle"} \cup {t \in {"tree"} : handler.pc = "lock"}

EngineUsers ==
  {c \in Callers : caller[c].pc = "engine"} \cup {c \in Clients : client[c].pc = "engine"}
  \cup {t \in {"udev"} : udev.pc = "lock"} \cup {t \in {"dm"} : dm.pc = "lock"}

\* No guard is lost or left behind: a thread or task holds a lock or waits for
\* it exactly while it is in the code that does, whatever is cancelled by
\* Shutdown or TreeExit, no guard is withheld from the front of a queue, and
\* a method call that has the engine, or had it, still has the tree.
GuardsAccounted ==
  /\ Orderly(treeLock) /\ Parties(treeLock) = TreeUsers
  /\ Orderly(engLock) /\ Parties(engLock) = EngineUsers
  /\ \A c \in Callers : caller[c].pc \in {"engine", "push"} => c \in treeLock.readers

\* Who has the guard that its next step needs.
CanGoOn ==
  {c \in Callers : \/ caller[c].pc = "tree" /\ Holds(treeLock, c)
                   \/ caller[c].pc = "engine" /\ Holds(engLock, c) /\ caller[c].left >= 1
                   \/ caller[c].pc = "push"}
  \cup {c \in Clients : client[c].pc = "engine" /\ Holds(engLock, c) /\ client[c].step \in 1 .. 3}
  \cup {t \in {"tree"} : handler.pc = "lock" /\ Holds(treeLock, t)}
  \cup {t \in {"udev"} : udev.pc = "lock" /\ Holds(engLock, t)}
  \cup {t \in {"dm"} : dm.pc = "lock" /\ Holds(engLock, t)}

\* Not everybody waits for everybody: as long as anybody uses the tree or the
\* engine, one of them has what its next step needs.
NoStandstill == TreeUsers \cup EngineUsers # {} => CanGoOn # {}

\* The pool of a filesystem or a device that is in the tree is in the tree:
\* get_managed_objects expects "Parent must be present and be pool".
ParentInTree == Orphans = {}

\* Whether everything the engine did has reached the tree.
Settled == queue = <<>> /\ handler.pc = "recv" /\ \A c \in Callers : caller[c].pc # "push"

EngineView ==
  UNION {LET pool == engine.pools[u]
         IN {[kind |-> "pool", uuid |-> u, of |-> Base, name |-> None]}
            \cup {[kind |-> "fs", uuid |-> f, of |-> u, name |-> pool.fss[f].name] :
                     f \in DOMAIN pool.fss}
            \cup {[kind |-> "dev", uuid |-> d, of |-> u, name |-> None] :
                     d \in DOMAIN Blockdevs(pool)} : u \in DOMAIN engine.pools}

TreeView ==
  {[kind |-> tree[p].kind, uuid |-> tree[p].uuid,
    of |-> IF tree[p].kind = "pool" THEN Base ELSE tree[tree[p].parent].uuid,
    name |-> IF tree[p].kind = "fs" THEN tree[p].name ELSE None] : p \in DOMAIN tree}

\* Once the messages are applied, the tree has one object for each pool,
\* filesystem and device of the engine, under the pool it belongs to, and
\* clients have heard the name each filesystem has: no order of calls on
\* different threads leaves an object behind or a name that is out of date.
TreeConverges ==
  ipc = "dbus" /\ Settled =>
    TreeView = EngineView /\ Cardinality(DOMAIN tree) = Cardinality(TreeView)

\* push_pool_name_change: "Send changed signal for pool Name property and
\* invalidated signal for all Devnode properties of child filesystems."
PoolNamesHeard ==
  ipc = "dbus" /\ Settled =>
    \A p \in DOMAIN tree :
      /\ tree[p].kind = "pool" => tree[p].name = engine.pools[tree[p].uuid].name
      /\ tree[p].kind = "fs" =>
           tree[p].devnode \in {None, engine.pools[tree[tree[p].parent].uuid].name}

\* Every method call is answered and the tree handler gets the lock it waits
\* for, however many other calls there are: the locks of structures.rs are
\* fair, and nobody who holds the engine waits for the tree.
CallsAnswered ==
  /\ \A c \in Callers : caller[c].pc # "idle" ~> caller[c].pc = "idle"
  /\ handler.pc = "lock" ~> handler.pc # "lock"

\* A client that is connected is served: no arrival at the listening socket
\* is lost between accept and clear_ready.
RequestsServed ==
  \A c \in Clients : client[c].pc \in {"queued", "recv", "engine"} ~> client[c].pc = "idle"

\* A devicemapper event, also one that comes while dm_event_thread handles
\* another, is followed by a round of process_dm_event that begins after it;
\* and unless that round fails (arm_poll, list_devices or event_on of any pool
\* does) all pools have then been given all their events, those that earlier
\* rounds failed on or did not get to included.  A round that fails is not
\* repeated before the next event.
EventsNoticed ==
  \A n \in 1 .. 2 : dm.count = n ~> dm.acted = dm.nr \/ dm.failed >= n \/ phase # "run"

\* The threads and tasks that are told to exit all do.
ShutdownCompletes == phase = "exiting" ~> Terminated
=============================================================================
