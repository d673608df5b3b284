-------------------------------- MODULE Dbus --------------------------------
(***************************************************************************)
(* The D-Bus layer (dbus_api/).  Every method call runs on a thread of its *)
(* own: it takes the tree's read lock, finds the objects it names, takes   *)
(* the engine's lock, asks the engine, and sends the tree handler what is  *)
(* to be added, removed or announced.  The tree handler applies these      *)
(* messages one by one under the tree's write lock and signals each change *)
(* to the clients, who know the objects and their names from the signals.  *)
(***************************************************************************)
EXTENDS SharedEngine

CONSTANT Callers    \* threads that serve method calls

VARIABLES tree,         \* object path -> [kind, uuid, parent, name, devnode]
          treeLock,     \* the tree's RwLock
          next_index,   \* DbusContext::next_index
          queue,        \* the channel to the tree handler
          handler,      \* the tree handler: [pc, action]
          conn,         \* the connection handler: "run" or "done"
          caller        \* per thread [pc, call, left, late]

dbusVars == <<tree, treeLock, next_index, queue, handler, conn, caller>>

Base == 0

NoCall == [what |-> [method |-> None], path |-> Base, of |-> Base]

Idle == [pc |-> "idle", call |-> NoCall, left |-> 0, late |-> <<>>]

\* How many times a call locks the engine: the Fetch Properties interface
\* asks for each property by itself.
Lockings(call) == IF call.what.method = "GetAllProperties" THEN 2 ELSE 1

PathsOf(kind) ==
  IF kind = "base" THEN {Base} ELSE {p \in DOMAIN tree : tree[p].kind = kind}

Children(path) == {p \in DOMAIN tree : tree[p].parent = path}

---------------------------------------------------------------------------
(* Objects and the messages to the tree handler.                           *)

PoolObject(e, uuid) ==
  [kind |-> "pool", uuid |-> uuid, parent |-> Base,
   name |-> e.pools[uuid].name, devnode |-> None]

\* The devnode of a filesystem is made of the names of its pool and its own.
FilesystemObject(e, uuid, fs, path) ==
  [kind |-> "fs", uuid |-> fs, parent |-> path,
   name |-> e.pools[uuid].fss[fs].name, devnode |-> e.pools[uuid].name]

BlockdevObject(dev, path) ==
  [kind |-> "dev", uuid |-> dev, parent |-> path, name |-> None, devnode |-> None]

\* make_object_path and push_add for each object in turn.
PushAdd(base, objects) ==
  [i \in DOMAIN objects |->
     [act |-> "Add", path |-> base + i, object |-> objects[i]]]

FilesystemObjects(e, uuid, fss, path) ==
  [i \in 1 .. Cardinality(fss) |->
     FilesystemObject(e, uuid, Listed(fss)[i], path)]

BlockdevObjects(devs, path) ==
  [i \in 1 .. Cardinality(devs) |-> BlockdevObject(Listed(devs)[i], path)]

\* A pool with all its filesystems and devices, as register_pool adds it.
RegisterPool(base, e, uuid) ==
  LET path == base + 1
  IN PushAdd(base, <<PoolObject(e, uuid)>>
                   \o FilesystemObjects(e, uuid, DOMAIN e.pools[uuid].fss, path)
                   \o BlockdevObjects(DOMAIN Blockdevs(e.pools[uuid]), path))

PushRemove(path) == <<[act |-> "Remove", path |-> path]>>

PushFilesystemNameChange(path, name) ==
  <<[act |-> "FsNameChange", path |-> path, name |-> name]>>

\* push_pool_name_change sends the same message as a filesystem's.
PushPoolNameChange(path, name) ==
  <<[act |-> "FsNameChange", path |-> path, name |-> name]>>

\* setup: the pools the engine starts with are registered before the tree
\* handler and the connection handler start.
DbusInit(enabled) ==
  LET Register(uuid, messages) == messages \o RegisterPool(Len(messages), engine, uuid)
      registered == FoldSet(Register, <<>>, DOMAIN engine.pools)
  IN /\ tree = Empty /\ treeLock = Unlocked
     /\ queue = IF enabled THEN registered ELSE <<>>
     /\ next_index = Len(queue)
     /\ handler = [pc |-> IF enabled THEN "recv" ELSE "done", action |-> [act |-> None]]
     /\ conn = IF enabled THEN "run" ELSE "done"
     /\ caller = [c \in Callers |-> Idle]

---------------------------------------------------------------------------
(* The methods.  A call is made on the object at call.path; call.of is the *)
(* path of the object it has as an argument; call.what is [method, on, of, *)
(* cost, arguments] with the kinds of both objects.                        *)

\* The tree has what the call names: otherwise the reply is sent before the
\* engine is asked.  A filesystem to destroy may be gone.
Resolves(call) ==
  /\ call.path \in DOMAIN tree \cup {Base}
  /\ call.what.on \in {"fs", "dev"} => tree[call.path].parent \in DOMAIN tree
  /\ call.what.method \in {"DestroyPool", "SnapshotFilesystem"} => call.of \in DOMAIN tree

PoolUuid(call) ==
  IF call.what.on = "pool" THEN tree[call.path].uuid
  ELSE tree[tree[call.path].parent].uuid

\* What a method does once it has the engine: the engine it leaves and the
\* messages for the tree handler, which most methods send before they give
\* the engine up.
Answer(r, messages) ==
  [engine |-> r.engine, messages |-> IF IsChanged(r) THEN messages ELSE <<>>, late |-> FALSE]

\* destroy_pool and rename_pool lock the engine within the statement that
\* asks it, and send their message after it.
LateAnswer(r, messages) == [Answer(r, messages) EXCEPT !.late = TRUE]

Refusal == Answer(Error(engine), <<>>)

Arg(call) == call.what

Uuid(path) == tree[path].uuid

\* get_mut_pool!: the pool may have been destroyed since.
InPool(call, answer) ==
  IF PoolUuid(call) \in DOMAIN engine.pools THEN answer ELSE Refusal

NewFilesystem(call, uuid, r) ==
  Answer(r, PushAdd(next_index, FilesystemObjects(r.engine, uuid, r.changed, call.path)))

create_filesystems(call, uuid) ==
  NewFilesystem(call, uuid, CreateFilesystems(engine, uuid, {Arg(call).name}))

snapshot_filesystem(call, uuid) ==
  NewFilesystem(call, uuid, SnapshotFilesystem(engine, uuid, Uuid(call.of), Arg(call).name))

\* Filesystems that are no longer in the tree are passed over.
destroy_filesystems(call, uuid) ==
  Answer(DestroyFilesystems(engine, uuid, {Uuid(p) : p \in {call.of} \cap DOMAIN tree}),
         PushRemove(call.of))

\* Sending the name only once the engine is unlocked.
rename_filesystem_late(call, uuid) ==
  LateAnswer(RenameFilesystem(engine, uuid, Uuid(call.path), Arg(call).name),
             PushFilesystemNameChange(call.path, Arg(call).name))

rename_filesystem(call, uuid) ==
  Answer(RenameFilesystem(engine, uuid, Uuid(call.path), Arg(call).name),
         PushFilesystemNameChange(call.path, Arg(call).name))

BlockdevOp(call, uuid) ==
  LET w == Arg(call)
  IN CASE w.method = "AddDataDevs" -> AddBlockdevs(engine, uuid, w.paths, "data")
       [] w.method = "AddCacheDevs" -> AddBlockdevs(engine, uuid, w.paths, "cache")
       [] w.method = "InitCache" -> InitCache(engine, uuid, w.paths)

\* Announcing new devices only once the engine is unlocked.
add_blockdevs_late(call, uuid) ==
  LET r == BlockdevOp(call, uuid)
  IN LateAnswer(r, PushAdd(next_index, BlockdevObjects(r.changed, call.path)))

add_blockdevs(call, uuid) ==
  LET r == BlockdevOp(call, uuid)
  IN Answer(r, PushAdd(next_index, BlockdevObjects(r.changed, call.path)))

set_user_info(call, uuid) ==
  Answer(SetBlockdevUserInfo(engine, uuid, Uuid(call.path), Arg(call).info), <<>>)

bind_clevis(call, uuid) == Answer(BindClevis(engine, uuid, Arg(call).pin), <<>>)

unbind_clevis(uuid) == Answer(UnbindClevis(engine, uuid), <<>>)

bind_keyring(call, uuid) == Answer(BindKeyring(engine, uuid, Arg(call).key), <<>>)

unbind_keyring(uuid) == Answer(UnbindKeyring(engine, uuid), <<>>)

rebind_keyring(call, uuid) == Answer(RebindKeyring(engine, uuid, Arg(call).key), <<>>)

rebind_clevis(uuid) == Answer(RebindClevis(engine, uuid), <<>>)

rename_pool(call) ==
  LateAnswer(RenamePool(engine, PoolUuid(call), Arg(call).name),
             PushPoolNameChange(call.path, Arg(call).name))

create_pool(call) ==
  LET w == Arg(call)
      r == CreatePool(engine, w.name, w.paths, w.key, None)
  IN IF IsChanged(r)
     THEN Answer(r, RegisterPool(next_index, r.engine, CHOOSE u \in r.changed : TRUE))
     ELSE Answer(r, <<>>)

destroy_pool(call) == LateAnswer(DestroyPool(engine, Uuid(call.of)), PushRemove(call.of))

set_key(call) == Answer(SetKey(engine, Arg(call).key, Arg(call).value), <<>>)

unset_key(call) == Answer(UnsetKey(engine, Arg(call).key), <<>>)

unlock_pool(call) == Answer(UnlockPool(engine, Arg(call).uuid), <<>>)

Reads == Answer(Identity(engine), <<>>)

\* Calls that read the whole engine: the state report, and the locked pools
\* and keys among the manager's properties.
engine_state_report == Reads

ManagerProperties == Reads

\* A property of an object is read from the engine, which may have lost it.
pool_operation(call) == IF Uuid(call.path) \in DOMAIN engine.pools THEN Reads ELSE Refusal

filesystem_operation(call, uuid) ==
  IF Uuid(call.path) \in DOMAIN engine.pools[uuid].fss THEN Reads ELSE Refusal

blockdev_operation(call, uuid) ==
  IF Uuid(call.path) \in DOMAIN Blockdevs(engine.pools[uuid]) THEN Reads ELSE Refusal

GetProperty(call) ==
  CASE Arg(call).on = "pool" -> pool_operation(call)
    [] Arg(call).on = "fs" -> InPool(call, filesystem_operation(call, PoolUuid(call)))
    [] Arg(call).on = "dev" -> InPool(call, blockdev_operation(call, PoolUuid(call)))
    [] Arg(call).on = "base" -> ManagerProperties

\* Objects for which get_managed_objects would panic.
Orphans ==
  {p \in DOMAIN tree :
     tree[p].kind # "pool" /\ (tree[p].parent \in DOMAIN tree => tree[tree[p].parent].kind # "pool")}

get_managed_objects == Reads

PoolMethod(call, uuid) ==
  LET m == Arg(call).method
  IN CASE m = "CreateFilesystems" -> create_filesystems(call, uuid)
       [] m = "SnapshotFilesystem" -> snapshot_filesystem(call, uuid)
       [] m = "DestroyFilesystems" -> destroy_filesystems(call, uuid)
       [] m = "SetName" -> rename_filesystem(call, uuid)
       [] m \in {"AddDataDevs", "AddCacheDevs", "InitCache"} -> add_blockdevs(call, uuid)
       [] m = "SetUserInfo" -> set_user_info(call, uuid)
       [] m = "BindClevis" -> bind_clevis(call, uuid)
       [] m = "UnbindClevis" -> unbind_clevis(uuid)
       [] m = "BindKeyring" -> bind_keyring(call, uuid)
       [] m = "UnbindKeyring" -> unbind_keyring(uuid)
       [] m = "RebindKeyring" -> rebind_keyring(call, uuid)
       [] m = "RebindClevis" -> rebind_clevis(uuid)

Method(call) ==
  LET m == Arg(call).method
  IN CASE m = "GetManagedObjects" -> get_managed_objects
       [] m = "EngineStateReport" -> engine_state_report
       [] m \in {"GetProperty", "GetAllProperties"} -> GetProperty(call)
       [] m = "CreatePool" -> create_pool(call)
       [] m = "DestroyPool" -> destroy_pool(call)
       [] m = "SetKey" -> set_key(call)
       [] m = "UnsetKey" -> unset_key(call)
       [] m = "UnlockPool" -> unlock_pool(call)
       [] m = "SetPoolName" -> rename_pool(call)
       [] OTHER -> InPool(call, PoolMethod(call, PoolUuid(call)))

\* Objects made by the messages.
Added(messages) == Cardinality({i \in DOMAIN messages : messages[i].act = "Add"})

---------------------------------------------------------------------------
(* The threads of method calls.                                            *)

\* process_dbus_requests spawns a thread, which asks for the read lock.
Receive(c) ==
  /\ conn = "run" /\ caller[c].pc = "idle"
  /\ \E w \in Workloads[budget.calls] :
       /\ Spend(w.cost)
       /\ \E path \in PathsOf(w.on), of \in PathsOf(w.of) :
            LET call == [what |-> w, path |-> path, of |-> of]
            IN caller' = [caller EXCEPT ![c] = [Idle EXCEPT !.pc = "tree", !.call = call,
                                                            !.left = Lockings(call)]]
  /\ treeLock' = Acquire(treeLock, c, FALSE)
  /\ UNCHANGED <<engine, engLock, tree, next_index, queue, handler, conn>>

\* The reply is sent and the guard of the tree dropped.
Reply(c) ==
  /\ caller' = [caller EXCEPT ![c] = Idle]
  /\ treeLock' = Release(treeLock, c)

\* Tree::handle finds the method; the method finds the objects.
Dispatch(c) ==
  /\ caller[c].pc = "tree" /\ Holds(treeLock, c)
  /\ \/ /\ Resolves(caller[c].call)
        /\ engLock' = Acquire(engLock, c, TRUE)
        /\ caller' = [caller EXCEPT ![c].pc = "engine"]
        /\ UNCHANGED treeLock
     \/ /\ ~Resolves(caller[c].call)
        /\ Reply(c)
        /\ UNCHANGED engLock
  /\ UNCHANGED <<engine, tree, next_index, queue, handler, conn, budget>>

\* The engine is asked; it may refuse any change with an error.
Execute(c) ==
  /\ caller[c].pc = "engine" /\ Holds(engLock, c) /\ caller[c].left = 1
  /\ \E answer \in {Method(caller[c].call), Refusal} :
       /\ engine' = answer.engine
       /\ next_index' = next_index + Added(answer.messages)
       /\ \/ /\ ~answer.late
             /\ queue' = queue \o answer.messages
             /\ Reply(c)
          \/ /\ answer.late
             /\ caller' = [caller EXCEPT ![c].pc = "push", ![c].late = answer.messages]
             /\ UNCHANGED <<queue, treeLock>>
  /\ engLock' = Release(engLock, c)
  /\ UNCHANGED <<tree, handler, conn, budget>>

\* One of several properties: the engine is unlocked and locked again.
FetchProperty(c) ==
  /\ caller[c].pc = "engine" /\ Holds(engLock, c) /\ caller[c].left > 1
  /\ caller' = [caller EXCEPT ![c].left = @ - 1]
  /\ engLock' = Acquire(Release(engLock, c), c, TRUE)
  /\ UNCHANGED <<engine, tree, treeLock, next_index, queue, handler, conn, budget>>

\* The message of destroy_pool and rename_pool, after the guard is dropped.
LatePush(c) ==
  /\ caller[c].pc = "push"
  /\ queue' = queue \o caller[c].late
  /\ Reply(c)
  /\ UNCHANGED <<engine, engLock, tree, next_index, handler, conn, budget>>

ConnExit ==
  /\ conn = "run" /\ conn' = "done"
  /\ UNCHANGED <<engine, engLock, tree, treeLock, next_index, queue, handler, caller, budget>>

---------------------------------------------------------------------------
(* The tree handler: process_dbus_actions.                                 *)

TreeRecv ==
  /\ handler.pc = "recv" /\ queue # <<>>
  /\ handler' = [pc |-> "lock", action |-> Head(queue)]
  /\ queue' = Tail(queue)
  /\ treeLock' = Acquire(treeLock, "tree", TRUE)
  /\ UNCHANGED <<engine, engLock, tree, next_index, conn, caller, budget>>

Removed(path) == [p \in DOMAIN tree \ (Children(path) \cup {path}) |-> tree[p]]

\* A signal that tells the name, and one that makes clients ask for the
\* devnode again.
Announce(object, name) == [object EXCEPT !.name = name]

Invalidate(object) == [object EXCEPT !.devnode = None]

Renamed(path, name) ==
  IF path \in DOMAIN tree /\ tree[path].kind = "fs"
  THEN [tree EXCEPT ![path] = Invalidate(Announce(@, name))]
  ELSE tree

PoolRenamed(path, name) ==
  [p \in DOMAIN tree |->
     CASE p = path -> Announce(tree[p], name)
       [] p \in Children(path) /\ tree[p].kind = "fs" -> Invalidate(tree[p])
       [] OTHER -> tree[p]]

\* handle_dbus_action: the tree, and what the signals tell the clients.
Applied(action) ==
  CASE action.act = "Add" -> Put(tree, action.path, action.object)
    [] action.act = "Remove" -> Removed(action.path)
    [] action.act = "FsNameChange" -> Renamed(action.path, action.name)
    [] action.act = "PoolNameChange" -> PoolRenamed(action.path, action.name)

TreeApply ==
  /\ handler.pc = "lock" /\ Holds(treeLock, "tree")
  /\ tree' = Applied(handler.action)
  /\ treeLock' = Release(treeLock, "tree")
  /\ handler' = [pc |-> "recv", action |-> [act |-> None]]
  /\ UNCHANGED <<engine, engLock, next_index, queue, conn, caller, budget>>

\* A notice to exit that is taken while no message is there, and forgotten.
TreeExitAtLock ==
  /\ \/ /\ handler.pc = "recv" /\ queue = <<>>
        /\ UNCHANGED <<handler, treeLock>>
     \/ /\ handler.pc = "lock" /\ ~Holds(treeLock, "tree")
        /\ handler' = [pc |-> "done", action |-> [act |-> None]]
        /\ treeLock' = Release(treeLock, "tree")
  /\ UNCHANGED <<engine, engLock, tree, next_index, queue, conn, caller, budget>>

\* A request for the tree that outlives its handler.
TreeExitInQueue ==
  /\ \/ handler.pc = "recv" /\ queue = <<>>
     \/ handler.pc = "lock" /\ ~Holds(treeLock, "tree")
  /\ handler' = [pc |-> "done", action |-> [act |-> None]]
  /\ UNCHANGED <<engine, engLock, tree, treeLock, next_index, queue, conn, caller, budget>>

\* The select of futures prefers a message, and a lock that is granted, to
\* the notice to exit.
TreeExit ==
  /\ \/ handler.pc = "recv" /\ queue = <<>>
     \/ handler.pc = "lock" /\ ~Holds(treeLock, "tree")
  /\ handler' = [pc |-> "done", action |-> [act |-> None]]
  /\ treeLock' = Release(treeLock, "tree")
  /\ UNCHANGED <<engine, engLock, tree, next_index, queue, conn, caller, budget>>
=============================================================================
