--------------------------- MODULE MCShardedCache ---------------------------
(* Two keys of one hash, two more in the same shard that only a grown      *)
(* table keeps apart from them, and one in the other shard.                *)
EXTENDS ShardedCache

CONSTANTS k1, k2, k3, k4, k5

MCHash == [k \in Keys |-> CASE k \in {k1, k2} -> 0 [] k = k3 -> 2 [] k = k4 -> 4 [] k = k5 -> 3]

MCValues == [k \in Keys |-> IF k = k1 THEN {1, 2} ELSE {1}]
=============================================================================
