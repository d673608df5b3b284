--------------------------- MODULE MCPoolMetadata ---------------------------
(* Instances of PoolMetadata for TLC: a pool on one or two devices.        *)
EXTENDS PoolMetadata

CONSTANTS a, b
============================================================================
