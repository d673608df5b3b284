---------------------------- MODULE MCEncryption ----------------------------
(* A pool on up to three devices, two keys and two passphrases.            *)
EXTENDS Encryption, TLC

Symmetry == Permutations(Devs) \cup Permutations(Keys) \cup Permutations(Passes)
============================================================================
