--------------------------- MODULE MCFilesystems ---------------------------
(* Instances of Filesystems for TLC.                                       *)
EXTENDS Filesystems, TLC

CONSTANTS u1, u2, u3, a, b, c

(* No action tells the UUIDs apart.                                        *)
Symmetry == Permutations(Uuids)
============================================================================
