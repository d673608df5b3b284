-------------------------------- MODULE Rpc --------------------------------
(***************************************************************************)
(* The JSON-RPC layer of stratisd-min (jsonrpc/).  A client connects to    *)
(* the socket, sends one request and reads one reply.  The server accepts  *)
(* one connection whenever its listening socket is ready, and serves each  *)
(* in a task of its own.  Readiness comes from an edge-triggered epoll,    *)
(* which reports an arrival once, and is cleared after every accept.       *)
(***************************************************************************)
EXTENDS SharedEngine

CONSTANT Clients      \* processes of stratis-min

VARIABLES client,     \* per client [pc, req, step, desc], its task included;
                      \* a request is [request, fd, cost, arguments]
          pending,    \* connections that wait to be accepted
          edge,       \* whether epoll has an arrival to report
          ready,      \* readiness of the listener: "no", "yes", or "taken"
                      \* by an accept that has not cleared it yet
          server      \* the server task: "wait" or "clear"

rpcVars == <<client, pending, edge, ready, server>>

Quiet == [pc |-> "idle", req |-> [request |-> None], step |-> 0, desc |-> None]

\* Requests that leave the engine as it is, whatever their answer.
PoolReadings == {"PoolList", "PoolIsEncrypted", "PoolIsLocked", "PoolIsBound",
                 "PoolHasPassphrase", "PoolClevisPin"}

Readings == PoolReadings \cup {"KeyList", "FsList", "Report"}

\* The UUID of a request to unlock every pool that is locked.
AnyPool == 0

\* A backlog with room for one more.
LongerBacklog == 1

\* listen(fd, 0): one connection waits, the next connect blocks.
Backlog == 0

RpcInit ==
  /\ client = [c \in Clients |-> Quiet]
  /\ pending = <<>> /\ edge = FALSE /\ ready = "no" /\ server = "wait"

---------------------------------------------------------------------------
(* Clients and the kernel's side of the socket.                            *)

\* A client starts: do_request! with its parameters.
Ask(c) ==
  /\ client[c].pc = "idle"
  /\ \E req \in Workloads[budget.calls] :
       /\ Spend(req.cost)
       /\ client' = [client EXCEPT ![c] = [Quiet EXCEPT !.pc = "connect", !.req = req]]
  /\ UNCHANGED <<engine, engLock, pending, edge, ready, server>>

\* connect() returns and the request is sent on the new connection.
Connect(c) ==
  /\ client[c].pc = "connect" /\ Len(pending) <= Backlog
  /\ client' = [client EXCEPT ![c].pc = "queued"]
  /\ pending' = Append(pending, c)
  /\ edge' = TRUE
  /\ UNCHANGED <<engine, engLock, budget, ready, server>>

\* The I/O driver of the runtime takes the event from epoll.
Reactor ==
  /\ edge
  /\ edge' = FALSE
  /\ ready' = IF pending # <<>> THEN "yes" ELSE ready
  /\ UNCHANGED <<engine, engLock, budget, client, pending, server>>

---------------------------------------------------------------------------
(* The server.                                                             *)

\* poll_next: accept one connection and spawn its task, ...
Accept ==
  /\ server = "wait" /\ ready = "yes" /\ pending # <<>>
  /\ client' = [client EXCEPT ![Head(pending)].pc = "recv"]
  /\ pending' = Tail(pending)
  /\ ready' = "taken" /\ server' = "clear"
  /\ UNCHANGED <<engine, engLock, budget, edge>>

\* ... then clear the readiness, unless it is newer than the one taken.
ClearReady ==
  /\ server = "clear" /\ server' = "wait"
  /\ ready' = IF ready = "taken" THEN "no" ELSE ready
  /\ UNCHANGED <<engine, engLock, budget, client, pending, edge>>

\* expects_fd!: key_set has to come with a descriptor, pool_unlock may, and
\* the lists and the report close one that came with them.
FdExpected(req) ==
  CASE req.request = "KeySet" -> req.fd
    [] req.request \in {"PoolUnlock", "PoolList", "FsList", "Report"} -> TRUE
    [] OTHER -> ~req.fd

\* Which of the lockings of a request comes first: pool_unlock of one pool
\* looks for the key description (1), with or without a descriptor, and sets
\* the key (2) before it unlocks the pool (3).
FirstStep(req) ==
  IF req.request = "PoolUnlock" /\ req.uuid # AnyPool THEN 1 ELSE 3

\* The reply is sent, and the client ends.
Respond(c) == client' = [client EXCEPT ![c] = Quiet]

\* try_recvmsg, and the beginning of process.
RecvRequest(c) ==
  /\ client[c].pc = "recv"
  /\ \/ /\ FdExpected(client[c].req)
        /\ engLock' = Acquire(engLock, c, TRUE)
        /\ client' = [client EXCEPT ![c].pc = "engine", ![c].step = FirstStep(client[c].req)]
     \/ /\ ~FdExpected(client[c].req)
        /\ Respond(c)
        /\ UNCHANGED engLock
  /\ UNCHANGED <<engine, budget, pending, edge, ready, server>>

\* The client is killed: what the task reads is no request.  A client killed
\* later only misses its reply: the task goes on, and its sendmsg fails.
Vanish(c) ==
  /\ client[c].pc = "recv"
  /\ Respond(c)
  /\ UNCHANGED <<engine, engLock, budget, pending, edge, ready, server>>

\* name_to_uuid_and_pool.
Named(name) == {u \in DOMAIN engine.pools : engine.pools[u].name = name}

FsNamed(uuid, name) ==
  {f \in DOMAIN engine.pools[uuid].fss : engine.pools[uuid].fss[f].name = name}

filesystem_create(req, uuid) == CreateFilesystems(engine, uuid, {req.fs})

filesystem_destroy(req, uuid) ==
  LET fs == FsNamed(uuid, req.fs)
  IN IF fs = {} THEN Error(engine) ELSE DestroyFilesystems(engine, uuid, fs)

filesystem_rename(req, uuid) ==
  LET fs == FsNamed(uuid, req.fs)
  IN IF fs = {} THEN Error(engine)
     ELSE RenameFilesystem(engine, uuid, CHOOSE f \in fs : TRUE, req.name)

pool_destroy(uuid) == DestroyPool(engine, uuid)

pool_rename(req, uuid) == RenamePool(engine, uuid, req.name)

pool_init_cache(req, uuid) == InitCache(engine, uuid, req.paths)

\* pool_add_data and pool_add_cache.
add_devices(req, uuid, tier) == AddBlockdevs(engine, uuid, req.paths, tier)

\* Requests for a pool by its name, once the name is resolved.
OfPool(req, uuid) ==
  CASE req.request = "PoolDestroy" -> pool_destroy(uuid)
    [] req.request = "PoolRename" -> pool_rename(req, uuid)
    [] req.request = "PoolInitCache" -> pool_init_cache(req, uuid)
    [] req.request = "PoolAddData" -> add_devices(req, uuid, "data")
    [] req.request = "PoolAddCache" -> add_devices(req, uuid, "cache")
    [] req.request = "FsCreate" -> filesystem_create(req, uuid)
    [] req.request = "FsDestroy" -> filesystem_destroy(req, uuid)
    [] req.request = "FsRename" -> filesystem_rename(req, uuid)

\* Every pool whose key is there is unlocked; the others stay as they are.
UnlockAll ==
  LET opened == {u \in DOMAIN engine.locked : UnlockPool(engine, u).ok}
  IN Changed([engine EXCEPT !.locked = [u \in DOMAIN @ \ opened |-> @[u]]], opened)

\* The end of pool_unlock.
pool_unlock(req) == IF req.uuid = AnyPool THEN UnlockAll ELSE UnlockPool(engine, req.uuid)

pool_create(req) == CreatePool(engine, req.pool, req.paths, req.key, None)

key_set(key, value) == SetKey(engine, key, value)

key_unset(req) == UnsetKey(engine, req.key)

\* The engine's answer to the request.
Processed(req) ==
  CASE req.request \in Readings -> Identity(engine)
    [] req.request = "KeySet" -> key_set(req.key, req.value)
    [] req.request = "KeyUnset" -> key_unset(req)
    [] req.request = "PoolCreate" -> pool_create(req)
    [] req.request = "PoolUnlock" -> pool_unlock(req)
    [] OTHER -> IF Named(req.pool) = {} THEN Error(engine)
                ELSE OfPool(req, CHOOSE u \in Named(req.pool) : TRUE)

\* key_get_desc, the first locking of pool_unlock; the key is set when there
\* is a description and a descriptor to read it from.
GetDesc(c) ==
  /\ client[c].pc = "engine" /\ Holds(engLock, c) /\ client[c].step = 1
  /\ LET uuid == client[c].req.uuid
         desc == IF uuid \in DOMAIN engine.locked THEN engine.locked[uuid] ELSE None
     IN client' = [client EXCEPT ![c].desc = desc,
                         ![c].step = IF desc # None /\ client[c].req.fd THEN 2 ELSE 3]
  /\ engLock' = Acquire(Release(engLock, c), c, TRUE)
  /\ UNCHANGED <<engine, budget, pending, edge, ready, server>>

\* key_set, the second: when it fails, the pool is not unlocked.
SetDesc(c) ==
  /\ client[c].pc = "engine" /\ Holds(engLock, c) /\ client[c].step = 2
  /\ \/ /\ engine' = key_set(client[c].desc, client[c].req.value).engine
        /\ client' = [client EXCEPT ![c].step = 3]
        /\ engLock' = Acquire(Release(engLock, c), c, TRUE)
     \/ /\ Respond(c)
        /\ engLock' = Release(engLock, c)
        /\ UNCHANGED engine
  /\ UNCHANGED <<budget, pending, edge, ready, server>>

\* The locking that is the last; the engine may refuse any change.
Process(c) ==
  /\ client[c].pc = "engine" /\ Holds(engLock, c) /\ client[c].step = 3
  /\ \E r \in {Processed(client[c].req), Error(engine)} : engine' = r.engine
  /\ engLock' = Release(engLock, c)
  /\ Respond(c)
  /\ UNCHANGED <<budget, pending, edge, ready, server>>
=============================================================================
