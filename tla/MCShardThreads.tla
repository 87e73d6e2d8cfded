--------------------------- MODULE MCShardThreads ---------------------------
(* Two threads on one shard without priority pools. *)
EXTENDS LRUCacheShardCharges, TLC

MCCharges == {0, 2}
MCCapacities == {1, 3}
MCPriorities == [k \in Keys |-> {"BOTTOM"}]
MCRatios == {0}
MCSymmetry == Permutations(Handles) \cup Permutations(Threads) \cup Permutations(Keys)
=============================================================================
