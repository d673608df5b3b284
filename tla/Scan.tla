-------------------------------- MODULE Scan --------------------------------
(***************************************************************************)
(* The loop of LiminalDevices::setup_pools over the devices that find_all  *)
(* found for one pool.  They come in the order in which udev lists them,   *)
(* the LUKS devices before the others, and go into the device set one by   *)
(* one until one of them contradicts the set.  Module Engine uses the      *)
(* outcome, Clash and Merge, in one step.                                  *)
(***************************************************************************)
EXTENDS DeviceSet

VARIABLES
    found,      \* what find_all found for the pool
    infos,      \* what has not been looked at
    info_map,   \* the device set
    given_up    \* the set was given up

scanVars == <<found, infos, info_map, given_up>>

(* Device numbers are unique.                                              *)
ScanInit ==
    /\ found \in SUBSET Nodes
    /\ \A m, n \in found : m.num = n.num => m = n
    /\ infos = found /\ info_map = {} /\ given_up = FALSE

Pop(n) ==
    /\ ~given_up /\ n \in infos
    /\ n.kind = "stratis" => \A m \in infos : m.kind = "stratis"
    /\ given_up' = Contradicts(info_map, n)
    /\ info_map' = IF Contradicts(info_map, n) THEN {} ELSE ProcessInfoAdd(info_map, n)
    /\ infos' = IF Contradicts(info_map, n) THEN {} ELSE infos \ {n}
    /\ UNCHANGED found

ScanNext == \E n \in Nodes : Pop(n)

ScanSpec == ScanInit /\ [][ScanNext]_scanVars

----------------------------------------------------------------------------
(* The order in which udev lists the devices does not matter: the set is   *)
(* given up exactly if two of the devices contradict one another, and      *)
(* otherwise it has one LInfo per device with both sides that were found.  *)
OrderDoesNotMatter ==
    /\ given_up => Clash(found)
    /\ infos = {} /\ ~given_up => ~Clash(found) /\ info_map = Merge(found)
============================================================================
