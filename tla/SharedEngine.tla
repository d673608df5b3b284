---------------------------- MODULE SharedEngine ----------------------------
(***************************************************************************)
(* LockableEngine: the one engine of the daemon behind its Mutex, which    *)
(* every method call, request, udev event and devicemapper event takes.    *)
(***************************************************************************)
EXTENDS SimEngine, Locks

CONSTANT Workloads   \* name -> the calls (or requests) that clients make

VARIABLES engine,    \* the engine behind its Mutex
          engLock,   \* that Mutex
          budget     \* bound: what clients and kernel do, and how much of it is
                     \* left: [ipc, calls, changes, uevents, dmevents,
                     \* signals]

\* A call or request is made; those that only read cost nothing.
Spend(cost) == budget.changes >= cost /\ budget' = [budget EXCEPT !.changes = @ - cost]
=============================================================================
