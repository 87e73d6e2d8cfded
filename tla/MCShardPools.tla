---------------------------- MODULE MCShardPools ----------------------------
(* One thread; three entries, one of each priority, are hit, move through  *)
(* the three priority pools and fill all three at once, while the ratio of *)
(* the high-pri pool changes.                                              *)
EXTENDS LRUCacheShardCharges

CONSTANTS k1, k2, k3

MCPriorities ==
    [k \in Keys |-> CASE k = k1 -> {"HIGH"} [] k = k2 -> {"LOW"} [] k = k3 -> {"BOTTOM"}]
=============================================================================
