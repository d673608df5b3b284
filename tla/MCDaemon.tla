------------------------------ MODULE MCDaemon ------------------------------
(* A daemon with one pool that is set up, one whose devices are locked, and *)
(* the calls and requests that tell its threads apart.                      *)
EXTENDS Daemon

One(k, v) == [j \in {k} |-> v]

Pool1 == [name |-> "p", key |-> None, clevis |-> None,
          data |-> One(2, [path |-> "/d1", info |-> None]), cache |-> Empty,
          fss |-> One(3, [name |-> "f"])]

Pool4 == [name |-> "q", key |-> "k", clevis |-> None,
          data |-> One(5, [path |-> "/d2", info |-> None]), cache |-> Empty, fss |-> Empty]

Pool6 == [Pool4 EXCEPT !.name = "r", !.key = None, !.data = One(7, [path |-> "/d5", info |-> None])]

MCEngine0 == [pools |-> One(1, Pool1), keys |-> Empty, locked |-> One(4, "k"),
              dormant |-> One(4, Pool4) @@ One(6, Pool6), next |-> 7]

Call(method, on, of, cost) == [method |-> method, on |-> on, of |-> of, cost |-> cost]

With(call, field, value) == One(field, value) @@ call

\* Calls that are made two at a time, ...
Racing ==
  {Call("DestroyPool", "base", "pool", 1),
   Call("DestroyFilesystems", "pool", "fs", 1),
   With(Call("AddDataDevs", "pool", "base", 1), "paths", {"/d3"}),
   With(Call("CreateFilesystems", "pool", "base", 1), "name", "g"),
   With(Call("SetName", "fs", "base", 1), "name", "g"),
   With(Call("SetName", "fs", "base", 1), "name", "h")}

\* ... calls that are made by themselves, ...
Single ==
  {With(With(With(Call("CreatePool", "base", "base", 2), "name", name), "paths", {"/d3"}),
        "key", None) : name \in {"p", "r", "a/b"}}
  \cup
  {With(With(Call("SetKey", "base", "base", 2), "key", "k"), "value", "v"),
   With(Call("UnsetKey", "base", "base", 2), "key", "k"),
   With(Call("UnlockPool", "base", "base", 2), "uuid", 4),
   With(Call("SnapshotFilesystem", "pool", "fs", 2), "name", "g"),
   With(Call("InitCache", "pool", "base", 2), "paths", {"/d3", "/d4"}),
   With(Call("AddCacheDevs", "pool", "base", 2), "paths", {"/d3"}),
   With(Call("SetUserInfo", "dev", "base", 2), "info", "i"),
   With(Call("BindClevis", "pool", "base", 2), "pin", "t"),
   With(Call("BindKeyring", "pool", "base", 2), "key", "k"),
   Call("GetProperty", "fs", "base", 2),
   Call("GetProperty", "dev", "base", 2),
   Call("UnbindClevis", "pool", "base", 2),
   Call("UnbindKeyring", "pool", "base", 2),
   With(Call("RebindKeyring", "pool", "base", 2), "key", "k"),
   Call("RebindClevis", "pool", "base", 2)}

\* ... and calls that only read, which are not bounded.
Reading == {Call("GetManagedObjects", "base", "base", 0),
            Call("GetAllProperties", "pool", "base", 0)}

\* Requests, by the names of pools and filesystems.
Request(request, fd, cost) == [request |-> request, fd |-> fd, cost |-> cost]

ReadingRpc == {Request("PoolList", FALSE, 0)}

RacingRpc ==
  {With(With(Request("PoolUnlock", TRUE, 1), "uuid", 4), "value", "v"),
   With(Request("PoolUnlock", FALSE, 1), "uuid", 4), With(Request("PoolUnlock", FALSE, 1), "uuid", AnyPool),
   With(With(Request("KeySet", TRUE, 1), "key", "k"), "value", "w"),
   With(Request("KeyUnset", FALSE, 1), "key", "k"),
   With(Request("KeyUnset", TRUE, 2), "key", "k"),
   With(With(Request("PoolRename", FALSE, 1), "pool", "p"), "name", "r"),
   With(With(With(Request("PoolCreate", FALSE, 2), "pool", "r"), "paths", {"/d3"}), "key", None),
   With(Request("PoolDestroy", FALSE, 2), "pool", "p"),
   With(With(Request("PoolInitCache", FALSE, 2), "pool", "p"), "paths", {"/d3"}),
   With(With(Request("PoolAddData", FALSE, 2), "pool", "p"), "paths", {"/d3"}),
   With(With(Request("PoolAddCache", FALSE, 2), "pool", "p"), "paths", {"/d3"})}
  \cup {With(With(Request(r, FALSE, 2), "pool", "p"), "fs", "f") : r \in {"FsCreate", "FsDestroy"}}
  \cup {With(With(With(Request("FsRename", FALSE, 2), "pool", "p"), "fs", "f"), "name", "g")}

\* Renaming the pool, which clients are to hear of.
Naming == {With(Call("SetPoolName", "pool", "base", 1), "name", "r"),
           With(Call("SetPoolName", "pool", "base", 1), "name", "q")}

MCWorkloads == [naming |-> Naming, racing |-> Racing, single |-> Single, reading |-> Reading, rpc |-> RacingRpc,
                readingRpc |-> ReadingRpc, none |-> {}]

B(ipc0, calls, c, u, d, s) ==
  [ipc |-> ipc0, calls |-> calls, changes |-> c, uevents |-> u, dmevents |-> d, signals |-> s]

NamingBudgets == {B("dbus", "naming", 2, 0, 0, 0)}

MCBudgets ==
  {B("dbus", "naming", 2, 0, 0, 0), B("dbus", "racing", 3, 0, 0, 0), B("dbus", "racing", 1, 0, 0, 1),
   B("dbus", "single", 2, 1, 0, 0), B("dbus", "reading", 0, 1, 0, 0),
   B("jsonrpc", "rpc", 2, 0, 0, 1), B("jsonrpc", "rpc", 1, 1, 0, 0),
   B("jsonrpc", "readingRpc", 0, 0, 1, 1), B("jsonrpc", "none", 0, 0, 2, 1)}
=============================================================================
