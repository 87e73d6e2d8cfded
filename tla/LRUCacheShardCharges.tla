------------------------ MODULE LRUCacheShardCharges ------------------------
(* The usages of the shard against the charges of its entries. *)
EXTENDS LRUCacheShard, FiniteSetsExt

ChargeOf(S) == MapThenSumSet(LAMBDA h : handle[h].charge, S)

(* usage_ is the charge of the cached and of the referenced entries,       *)
(* lru_usage_ and the pool usages that of the listed ones: nothing is      *)
(* counted twice or forgotten by any order of replacing, erasing,          *)
(* evicting and releasing.  The usages, unsigned in the code, are sums and *)
(* so never run below zero.                                                *)
Accounting ==
    /\ usage = ChargeOf({h \in Handles : Alive(h)})
    /\ lru.usage = ChargeOf({h \in Handles : Listed(h)})
    /\ lru.high_usage = ChargeOf({h \in Handles : Listed(h) /\ handle[h].pool = "High"})
    /\ lru.low_usage = ChargeOf({h \in Handles : Listed(h) /\ handle[h].pool = "Low"})
=============================================================================
