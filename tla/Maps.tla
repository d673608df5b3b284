-------------------------------- MODULE Maps --------------------------------
(* Rust's HashMap as a function: insert, remove, and the empty map.        *)
Put(f, k, v) == [j \in DOMAIN f \cup {k} |-> IF j = k THEN v ELSE f[j]]
Drop(f, k) == [j \in DOMAIN f \ {k} |-> f[j]]
Empty == [k \in {} |-> {}]
============================================================================
