--------------------------- MODULE LRUCacheShard ---------------------------
(***************************************************************************)
(* cache/lru_cache.{h,cc}: one shard of the LRU block cache.               *)
(*                                                                         *)
(* Every operation runs under mutex_, except that the entries whose last   *)
(* reference went away are handed to the eviction callback and freed after *)
(* the mutex is released.  `mu` is the critical section that is running:   *)
(* the two loops of the code (EvictFromLRU and MaintainPoolSize) take one  *)
(* step per iteration in it.  `freeing[t]` is the last_reference_list of   *)
(* thread t, which frees one entry per step once it is out of the mutex.   *)
(*                                                                         *)
(* The hash table is a function here; ShardedCache shows that the real     *)
(* one implements it.  A handle is an allocation: its identity can be used *)
(* again once it is freed.                                                 *)
(***************************************************************************)
EXTENDS Lists, FiniteSets

CONSTANTS
    Threads, Keys,
    Handles,      \* the allocations that can exist at a time
    Charges,      \* total_charge of an entry, metadata included
    Standalones,  \* total_charge of a standalone entry
    Capacities,   \* what SetCapacity is called with
    Priorities,   \* the priorities the entries of a key are inserted with
    HighRatios,   \* ratios of the high-pri pool, in units of 1/Den
    LowRatios,    \* the same for the low-pri pool
    Den,
    Stricts,      \* what SetStrictCapacityLimit is called with
    MaxRefs,      \* bound: references a client holds on one entry
    Nil           \* no handle; in `lru`, the dummy head of the list

ASSUME ChargesAssumption == Charges \subseteq Nat /\ Standalones \subseteq Nat
ASSUME CapacitiesAssumption == Capacities \subseteq Nat /\ Capacities # {}
ASSUME PrioritiesAssumption == Priorities \in [Keys -> SUBSET {"HIGH", "LOW", "BOTTOM"}]
ASSUME RatiosAssumption ==
    HighRatios \subseteq Nat /\ LowRatios \subseteq Nat /\ Den \in Nat \ {0}
ASSUME StrictsAssumption == Stricts \subseteq BOOLEAN
ASSUME MaxRefsAssumption == MaxRefs \in Nat
ASSUME NilAssumption == Nil \notin Handles /\ Nil \notin Keys /\ Nil \notin Threads

VARIABLES
    handle,      \* the fields of every handle, Blank if it is not allocated
    table,       \* table_: the handle cached under a key, or Nil
    lru,         \* the LRU list with its pool pointers and usages
    usage, capacity, strict, high_ratio, low_ratio,
    mu,          \* the running critical section
    freeing,     \* entries each thread frees once it left the mutex
    held         \* history: references the clients hold on each handle

vars == <<handle, table, lru, usage, capacity, strict, high_ratio, low_ratio,
          mu, freeing, held>>

config == <<capacity, strict, high_ratio, low_ratio>>

-----------------------------------------------------------------------------

Blank == [key |-> Nil, charge |-> 0, priority |-> "BOTTOM", refs |-> 0,
          in_cache |-> FALSE, has_hit |-> FALSE, pool |-> "Bottom"]

Allocated(h) == handle[h].key # Nil

(* CreateHandle, SetPriority and SetInCache(true). *)
CreateHandle(k, c, p) ==
    [key |-> k, charge |-> c, priority |-> p, refs |-> 0,
     in_cache |-> TRUE, has_hit |-> FALSE, pool |-> "Bottom"]

Idle == [pc |-> "idle", t |-> Nil, e |-> Nil, flag |-> FALSE]

Init ==
    /\ handle = [h \in Handles |-> Blank]
    /\ table = [k \in Keys |-> Nil]
    /\ lru = [list |-> <<>>, low |-> Nil, bottom |-> Nil,
              usage |-> 0, high_usage |-> 0, low_usage |-> 0]
    /\ usage = 0
    /\ capacity \in Capacities
    /\ strict \in Stricts
    /\ high_ratio \in HighRatios
    /\ low_ratio \in LowRatios
    /\ mu = Idle
    /\ freeing = [t \in Threads |-> <<>>]
    /\ held = [h \in Handles |-> 0]

-----------------------------------------------------------------------------
(* The LRU list: oldest entry first; place 0 is the dummy head. *)

Place(L, x) == IF x = Nil THEN 0 ELSE CHOOSE i \in DOMAIN L.list : L.list[i] = x

Node(L, i) == IF i \in DOMAIN L.list THEN L.list[i] ELSE Nil

PrevOf(L, e) == Node(L, Place(L, e) - 1)

NextOf(L, e) == Node(L, Place(L, e) + 1)

(* A pool pointer steps back when its entry leaves the list. *)
PointerAfterRemove(L, ptr, e) == IF ptr = e THEN PrevOf(L, e) ELSE ptr

(* Mutant: the pool usages are not reduced. *)
MutPoolCharge(e, pool) == 0

(* What entry e counts for in the usage of a pool. *)
PoolCharge(e, pool) == IF handle[e].pool = pool THEN handle[e].charge ELSE 0

LRU_Remove(L, e) ==
    [list |-> DropAt(L.list, Place(L, e)),
     low |-> PointerAfterRemove(L, L.low, e),
     bottom |-> PointerAfterRemove(L, L.bottom, e),
     usage |-> L.usage - handle[e].charge,
     high_usage |-> L.high_usage - PoolCharge(e, "High"),
     low_usage |-> L.low_usage - PoolCharge(e, "Low")]

(* The pool that LRU_Insert chooses. *)
PoolFor(e) ==
    IF high_ratio > 0 /\ (handle[e].priority = "HIGH" \/ handle[e].has_hit)
    THEN "High"
    ELSE IF low_ratio > 0 /\ (handle[e].priority \in {"HIGH", "LOW"} \/ handle[e].has_hit)
    THEN "Low"
    ELSE "Bottom"

(* Mutant: lru_low_pri_ is not moved along with an empty low-pri pool. *)
MutLowAfterInsert(L, e) == IF PoolFor(e) = "Low" THEN e ELSE L.low

(* If the low-pri pool is empty, lru_low_pri_ moves with lru_bottom_pri_. *)
LowAfterInsert(L, e) ==
    IF PoolFor(e) = "Low" \/ (PoolFor(e) = "Bottom" /\ L.bottom = L.low)
    THEN e ELSE L.low

LRU_Insert(L, e) ==
    LET c == handle[e].charge
        at == CASE PoolFor(e) = "High" -> Len(L.list)
                [] PoolFor(e) = "Low" -> Place(L, L.low)
                [] PoolFor(e) = "Bottom" -> Place(L, L.bottom) IN
    [list |-> PutAt(L.list, at + 1, e),
     low |-> LowAfterInsert(L, e),
     bottom |-> IF PoolFor(e) = "Bottom" THEN e ELSE L.bottom,
     usage |-> L.usage + c,
     high_usage |-> L.high_usage + IF PoolFor(e) = "High" THEN c ELSE 0,
     low_usage |-> L.low_usage + IF PoolFor(e) = "Low" THEN c ELSE 0]

(* LRU_Insert ends in MaintainPoolSize unless the entry went to the        *)
(* bottom-pri pool.                                                        *)
AfterInsert(t, e) ==
    IF PoolFor(e) = "Bottom" THEN Idle ELSE [Idle EXCEPT !.pc = "Maintain", !.t = t]

-----------------------------------------------------------------------------
(* A thread calls into the shard when nobody is in the mutex and it has    *)
(* freed what its previous call left behind.                               *)
MayCall(t) == mu = Idle /\ freeing[t] = <<>>

Enter(pc, t, e, flag) == mu' = [pc |-> pc, t |-> t, e |-> e, flag |-> flag]

ToFree(t, e) == freeing' = [freeing EXCEPT ![t] = Append(@, e)]

(* Insert: CreateHandle, then InsertItem up to its eviction loop.  `want`  *)
(* says that the caller passed a place for the handle.                     *)
Insert(t, k, c, p, want) ==
    /\ MayCall(t)
    /\ \E e \in Handles :
         /\ ~Allocated(e)
         /\ handle' = [handle EXCEPT ![e] = CreateHandle(k, c, p)]
         /\ Enter("Insert", t, e, want)
    /\ UNCHANGED <<table, lru, usage, config, freeing, held>>

CreateStandalone(t, k, c, allow_uncharged) ==
    /\ MayCall(t)
    /\ \E e \in Handles :
         /\ ~Allocated(e)
         /\ handle' = [handle EXCEPT ![e] =
                         [CreateHandle(k, c, "BOTTOM") EXCEPT !.in_cache = FALSE, !.refs = 1]]
         /\ Enter("CreateStandalone", t, e, allow_uncharged)
    /\ UNCHANGED <<table, lru, usage, config, freeing, held>>

SetCapacity(t, c) ==
    /\ MayCall(t)
    /\ capacity' = c
    /\ Enter("SetCapacity", t, Nil, FALSE)
    /\ UNCHANGED <<handle, table, lru, usage, strict, high_ratio, low_ratio, freeing, held>>

(* Erase of a cached key, up to the lookup; a miss changes nothing. *)
Erase(t, k) ==
    /\ MayCall(t)
    /\ table[k] # Nil
    /\ Enter("Erase", t, table[k], FALSE)
    /\ UNCHANGED <<handle, table, lru, usage, config, freeing, held>>

EraseUnRefEntries(t) ==
    /\ MayCall(t)
    /\ Enter("EraseUnRefEntries", t, Nil, FALSE)
    /\ UNCHANGED <<handle, table, lru, usage, config, freeing, held>>

-----------------------------------------------------------------------------

(* What the running call is about to add to usage_. *)
Wanted == IF mu.e = Nil THEN 0 ELSE handle[mu.e].charge

(* Mutant: the loop stops one unit above the capacity. *)
MutOver == usage + Wanted > capacity + 1

Over == usage + Wanted > capacity

(* Mutant: an entry that was erased before is not uncharged. *)
MutUncharged(e) == IF handle[e].in_cache THEN usage - handle[e].charge ELSE usage

(* usage_ without an entry that is about to be freed. *)
Uncharged(e) == usage - handle[e].charge

(* The loop condition of EvictFromLRU, and of the loop of EraseUnRefEntries. *)
MustEvict ==
    /\ lru.list # <<>>
    /\ \/ mu.pc = "EraseUnRefEntries"
       \/ mu.pc \in {"Insert", "CreateStandalone", "SetCapacity"} /\ Over

(* Mutant: the victim gets a second chance, and a third. *)
MutEvictFromLRU ==
    /\ MustEvict
    /\ lru' = [lru EXCEPT !.list = Append(Tail(@), Head(@))]
    /\ UNCHANGED <<handle, table, usage, config, mu, freeing, held>>

(* One iteration: the oldest entry leaves the list and the table. *)
EvictFromLRU ==
    /\ MustEvict
    /\ LET old == Head(lru.list) IN
       /\ lru' = LRU_Remove(lru, old)
       /\ table' = [table EXCEPT ![handle[old].key] = Nil]
       /\ handle' = [handle EXCEPT ![old].in_cache = FALSE]
       /\ usage' = Uncharged(old)
       /\ ToFree(mu.t, old)
    /\ UNCHANGED <<config, mu, held>>

(* SetCapacity and EraseUnRefEntries have nothing more to do. *)
EvictDone ==
    /\ mu.pc \in {"SetCapacity", "EraseUnRefEntries"}
    /\ ~MustEvict
    /\ mu' = Idle
    /\ UNCHANGED <<handle, table, lru, usage, config, freeing, held>>

(* Mutant: the strict limit is not looked at. *)
MutInsertIsRefused == Over /\ ~mu.flag

(* InsertItem gives up: the cache is full of referenced entries. *)
InsertIsRefused == Over /\ (strict \/ ~mu.flag)

(* Without a handle the entry is treated as inserted and evicted at once;  *)
(* with one the call fails and the entry, not its value, is freed.         *)
InsertItemRefused ==
    /\ mu.pc = "Insert"
    /\ ~MustEvict
    /\ InsertIsRefused
    /\ IF mu.flag
       THEN /\ handle' = [handle EXCEPT ![mu.e] = Blank]
            /\ UNCHANGED freeing
       ELSE /\ handle' = [handle EXCEPT ![mu.e].in_cache = FALSE]
            /\ ToFree(mu.t, mu.e)
    /\ mu' = Idle
    /\ UNCHANGED <<table, lru, usage, config, held>>

(* table_.Insert, the fate of the entry it replaces, and LRU_Insert or the *)
(* first reference for the new one.                                        *)
InsertItem ==
    LET e == mu.e
        old == table[handle[e].key]
        drop == old # Nil /\ handle[old].refs = 0
        L == IF drop THEN LRU_Remove(lru, old) ELSE lru IN
    /\ mu.pc = "Insert"
    /\ ~MustEvict
    /\ ~InsertIsRefused
    /\ table' = [table EXCEPT ![handle[e].key] = e]
    /\ usage' = usage + handle[e].charge - IF drop THEN handle[old].charge ELSE 0
    /\ IF drop THEN ToFree(mu.t, old) ELSE UNCHANGED freeing
    /\ handle' = [h \in Handles |->
                    IF h = e
                    THEN [handle[e] EXCEPT !.refs = IF mu.flag THEN 1 ELSE 0,
                                           !.pool = IF mu.flag THEN @ ELSE PoolFor(e)]
                    ELSE IF h = old THEN [handle[h] EXCEPT !.in_cache = FALSE]
                    ELSE handle[h]]
    /\ IF mu.flag
       THEN lru' = L /\ mu' = Idle /\ held' = [held EXCEPT ![e] = @ + 1]
       ELSE lru' = LRU_Insert(L, e) /\ mu' = AfterInsert(mu.t, e) /\ UNCHANGED held
    /\ UNCHANGED config

(* The second half of CreateStandalone: charged, uncharged or refused. *)
StandaloneDone ==
    LET e == mu.e IN
    /\ mu.pc = "CreateStandalone"
    /\ ~MustEvict
    /\ \/ /\ strict /\ Over /\ mu.flag
          /\ handle' = [handle EXCEPT ![e].charge = 0]
          /\ held' = [held EXCEPT ![e] = @ + 1]
          /\ UNCHANGED usage
       \/ /\ strict /\ Over /\ ~mu.flag
          /\ handle' = [handle EXCEPT ![e] = Blank]
          /\ UNCHANGED <<usage, held>>
       \/ /\ ~(strict /\ Over)
          /\ usage' = usage + handle[e].charge
          /\ held' = [held EXCEPT ![e] = @ + 1]
          /\ UNCHANGED handle
    /\ mu' = Idle
    /\ UNCHANGED <<table, lru, config, freeing>>

-----------------------------------------------------------------------------

(* The pool capacities are kept as doubles, capacity_ times the ratio. *)
HighOverflows == lru.high_usage * Den > capacity * high_ratio

LowOverflows == lru.low_usage * Den > capacity * low_ratio

(* MaintainPoolSize, first loop: the last high-pri entry becomes low-pri. *)
MaintainHigh ==
    LET e == NextOf(lru, lru.low) IN
    /\ mu.pc = "Maintain"
    /\ HighOverflows
    /\ e # Nil
    /\ handle' = [handle EXCEPT ![e].pool = "Low"]
    /\ lru' = [lru EXCEPT !.low = e,
                          !.high_usage = @ - handle[e].charge,
                          !.low_usage = @ + handle[e].charge]
    /\ UNCHANGED <<table, usage, config, mu, freeing, held>>

(* Second loop: the last low-pri entry becomes bottom-pri. *)
MaintainLow ==
    LET e == NextOf(lru, lru.bottom) IN
    /\ mu.pc = "Maintain"
    /\ ~HighOverflows
    /\ LowOverflows
    /\ e # Nil
    /\ handle' = [handle EXCEPT ![e].pool = "Bottom"]
    /\ lru' = [lru EXCEPT !.bottom = e, !.low_usage = @ - handle[e].charge]
    /\ UNCHANGED <<table, usage, config, mu, freeing, held>>

MaintainDone ==
    /\ mu.pc = "Maintain"
    /\ ~HighOverflows
    /\ ~LowOverflows
    /\ mu' = Idle
    /\ UNCHANGED <<handle, table, lru, usage, config, freeing, held>>

-----------------------------------------------------------------------------

(* Mutant: the entry stays on the list although it is referenced now. *)
MutUnlist(e) == lru

(* An entry without references is on the LRU list and leaves it. *)
Unlist(e) == IF handle[e].refs = 0 THEN LRU_Remove(lru, e) ELSE lru

(* The rest of Erase: the entry leaves the table and, if nobody references *)
(* it, the list and the usage.                                             *)
EraseEntry ==
    LET e == mu.e IN
    /\ mu.pc = "Erase"
    /\ table' = [table EXCEPT ![handle[e].key] = Nil]
    /\ handle' = [handle EXCEPT ![e].in_cache = FALSE]
    /\ lru' = Unlist(e)
    /\ IF handle[e].refs = 0
       THEN usage' = Uncharged(e) /\ ToFree(mu.t, e)
       ELSE UNCHANGED <<usage, freeing>>
    /\ mu' = Idle
    /\ UNCHANGED <<config, held>>

(* Lookup of a cached key; a miss changes nothing. *)
Lookup(t, k) ==
    LET e == table[k] IN
    /\ MayCall(t)
    /\ e # Nil
    /\ held[e] < MaxRefs
    /\ lru' = Unlist(e)
    /\ handle' = [handle EXCEPT ![e].refs = @ + 1, ![e].has_hit = TRUE]
    /\ held' = [held EXCEPT ![e] = @ + 1]
    /\ UNCHANGED <<table, usage, config, mu, freeing>>

Ref(t, e) ==
    /\ MayCall(t)
    /\ held[e] \in 1 .. MaxRefs - 1
    /\ handle' = [handle EXCEPT ![e].refs = @ + 1]
    /\ held' = [held EXCEPT ![e] = @ + 1]
    /\ UNCHANGED <<table, lru, usage, config, mu, freeing>>

(* Mutant: the reference count is compared before it is reduced. *)
MutIsLast(e) == handle[e].refs <= 2

(* What Unref returns. *)
IsLast(e) == handle[e].refs = 1

Release(t, e, erase_if_last_ref) ==
    LET discard == usage > capacity \/ erase_if_last_ref
        cached == handle[e].in_cache IN
    /\ MayCall(t)
    /\ held[e] > 0
    /\ held' = [held EXCEPT ![e] = @ - 1]
    /\ \/ /\ ~IsLast(e)
          /\ handle' = [handle EXCEPT ![e].refs = @ - 1]
          /\ UNCHANGED <<table, lru, usage, mu, freeing>>
       \/ /\ IsLast(e) /\ cached /\ ~discard
          /\ handle' = [handle EXCEPT ![e].refs = @ - 1, ![e].pool = PoolFor(e)]
          /\ lru' = LRU_Insert(lru, e)
          /\ mu' = AfterInsert(t, e)
          /\ UNCHANGED <<table, usage, freeing>>
       \/ /\ IsLast(e) /\ (cached => discard)
          /\ handle' = [handle EXCEPT ![e].refs = @ - 1, ![e].in_cache = FALSE]
          /\ table' = IF cached THEN [table EXCEPT ![handle[e].key] = Nil] ELSE table
          /\ usage' = Uncharged(e)
          /\ ToFree(t, e)
          /\ UNCHANGED <<lru, mu>>
    /\ UNCHANGED config

SetStrictCapacityLimit(t, s) ==
    /\ MayCall(t)
    /\ strict' = s
    /\ UNCHANGED <<handle, table, lru, usage, capacity, high_ratio, low_ratio, mu,
                   freeing, held>>

SetHighPriorityPoolRatio(t, r) ==
    /\ MayCall(t)
    /\ high_ratio' = r
    /\ Enter("Maintain", t, Nil, FALSE)
    /\ UNCHANGED <<handle, table, lru, usage, capacity, strict, low_ratio, freeing, held>>

SetLowPriorityPoolRatio(t, r) ==
    /\ MayCall(t)
    /\ low_ratio' = r
    /\ Enter("Maintain", t, Nil, FALSE)
    /\ UNCHANGED <<handle, table, lru, usage, capacity, strict, high_ratio, freeing, held>>

(* Mutant: the handle is leaked. *)
MutNotifyEvicted(t) ==
    /\ mu.t # t
    /\ freeing[t] # <<>>
    /\ freeing' = [freeing EXCEPT ![t] = Tail(@)]
    /\ UNCHANGED <<handle, table, lru, usage, config, mu, held>>

(* NotifyEvicted and the Free calls behind the mutex: one entry per step.  *)
(* Whether the eviction callback takes the object or Free deletes it, the  *)
(* handle is gone.                                                         *)
NotifyEvicted(t) ==
    /\ mu.t # t
    /\ freeing[t] # <<>>
    /\ handle' = [handle EXCEPT ![Head(freeing[t])] = Blank]
    /\ freeing' = [freeing EXCEPT ![t] = Tail(@)]
    /\ UNCHANGED <<table, lru, usage, config, mu, held>>

-----------------------------------------------------------------------------

(* The steps of the call that holds the mutex. *)
InMutex ==
    \/ EvictFromLRU \/ EvictDone
    \/ InsertItemRefused \/ InsertItem \/ StandaloneDone
    \/ MaintainHigh \/ MaintainLow \/ MaintainDone
    \/ EraseEntry

Call(t) ==
    \/ \E k \in Keys, c \in Charges, want \in BOOLEAN : \E p \in Priorities[k] :
         Insert(t, k, c, p, want)
    \/ \E k \in Keys, c \in Standalones, u \in BOOLEAN : CreateStandalone(t, k, c, u)
    \/ \E k \in Keys : Lookup(t, k) \/ Erase(t, k)
    \/ \E e \in Handles : Ref(t, e)
    \/ \E e \in Handles, erase \in BOOLEAN : Release(t, e, erase)
    \/ \E c \in Capacities : SetCapacity(t, c)
    \/ \E s \in Stricts : SetStrictCapacityLimit(t, s)
    \/ \E r \in HighRatios : SetHighPriorityPoolRatio(t, r)
    \/ \E r \in LowRatios : SetLowPriorityPoolRatio(t, r)
    \/ EraseUnRefEntries(t)

Next == InMutex \/ \E t \in Threads : Call(t) \/ NotifyEvicted(t)

Spec == Init /\ [][Next]_vars

(* The thread in the mutex keeps running. *)
FairSpec == Spec /\ WF_vars(InMutex)

-----------------------------------------------------------------------------

Pools == {"High", "Low", "Bottom"}

PCs == {"idle", "Insert", "CreateStandalone", "SetCapacity", "EraseUnRefEntries",
        "Maintain", "Erase"}

HandleType == [key : Keys \cup {Nil}, charge : Nat,
               priority : {"HIGH", "LOW", "BOTTOM"}, refs : Nat,
               in_cache : BOOLEAN, has_hit : BOOLEAN, pool : Pools]

LruType == [list : Seq(Handles), low : Handles \cup {Nil}, bottom : Handles \cup {Nil},
            usage : Int, high_usage : Int, low_usage : Int]

(* The shapes of the variables. *)
TypeOK ==
    /\ handle \in [Handles -> HandleType]
    /\ table \in [Keys -> Handles \cup {Nil}]
    /\ lru \in LruType
    /\ usage \in Int
    /\ capacity \in Nat
    /\ strict \in BOOLEAN
    /\ high_ratio \in Nat /\ low_ratio \in Nat
    /\ mu \in [pc : PCs, t : Threads \cup {Nil}, e : Handles \cup {Nil}, flag : BOOLEAN]
    /\ freeing \in [Threads -> Seq(Handles)]
    /\ held \in [Handles -> Nat]

Listed(h) == \E i \in DOMAIN lru.list : lru.list[i] = h

Doomed(h) == \E t \in Threads : \E i \in DOMAIN freeing[t] : freeing[t][i] = h

(* The entry of the running call is not part of the cache yet. *)
InProgress(h) == mu.pc \in {"Insert", "CreateStandalone"} /\ mu.e = h

(* An entry of the cache or of a client: created and not on its way out. *)
Alive(h) == Allocated(h) /\ ~Doomed(h) /\ ~InProgress(h)

(* The three states of an LRUHandle, as the comment at the struct lists    *)
(* them: an entry is on the LRU list, once, exactly when it is in the hash *)
(* table and unreferenced; the in-cache flag agrees with the table, and an *)
(* entry outside the table is referenced.                                  *)
HandleStates ==
    /\ \A h \in Handles : Alive(h) =>
         /\ handle[h].in_cache <=> table[handle[h].key] = h
         /\ Listed(h) <=> handle[h].in_cache /\ handle[h].refs = 0
         /\ handle[h].in_cache \/ handle[h].refs > 0
    /\ \A i, j \in DOMAIN lru.list : lru.list[i] = lru.list[j] => i = j
    /\ \A h \in Handles : Listed(h) => Alive(h)
    /\ \A k \in Keys : table[k] # Nil => Alive(table[k]) /\ handle[table[k]].key = k

(* What a client references is neither freed nor about to be: the entries  *)
(* that threads free outside the mutex have no references left, each is    *)
(* freed by one thread once, and the count of an entry is what its clients *)
(* hold.                                                                   *)
HeldEntriesLive ==
    /\ \A h \in Handles :
         /\ Alive(h) => handle[h].refs = held[h]
         /\ held[h] > 0 => Alive(h)
         /\ Doomed(h) => Allocated(h) /\ handle[h].refs = 0 /\ ~handle[h].in_cache
    /\ \A t, u \in Threads : \A i \in DOMAIN freeing[t], j \in DOMAIN freeing[u] :
         freeing[t][i] = freeing[u][j] => t = u /\ i = j

(* The cache is above its capacity only when everything in it is           *)
(* referenced: Release asserts "The LRU list must be empty since the cache *)
(* is full".                                                               *)
FullMeansAllPinned ==
    mu.pc # "SetCapacity" => (usage > capacity => lru.list = <<>>)

(* The list is the bottom-pri entries up to lru_bottom_pri_, then the      *)
(* low-pri ones up to lru_low_pri_, then the high-pri ones, and the flags  *)
(* in the handles say so; eviction from the front takes a higher pool only *)
(* when the lower ones are empty.                                          *)
PoolOrder ==
    /\ lru.low = Nil \/ Listed(lru.low)
    /\ lru.bottom = Nil \/ Listed(lru.bottom)
    /\ Place(lru, lru.bottom) <= Place(lru, lru.low)
    /\ \A i \in DOMAIN lru.list :
         handle[lru.list[i]].pool = IF i <= Place(lru, lru.bottom) THEN "Bottom"
                                    ELSE IF i <= Place(lru, lru.low) THEN "Low"
                                    ELSE "High"

(* Under the strict limit no call makes the cache grow past its capacity.  *)
StrictLimit == [][strict /\ usage' > usage => usage' <= capacity]_vars

(* Every call leaves the mutex: the loops of EvictFromLRU and of           *)
(* MaintainPoolSize terminate.                                             *)
CallsReturn == mu # Idle ~> mu = Idle

(* The shard keeps the promise of the Cache interface: what clients can    *)
(* see of Insert, Lookup, Ref, Release, Erase and the eviction loops is a  *)
(* behaviour of Cache.  In particular no step of the shard takes an entry  *)
(* that a client references out of the table, except the Erase or the      *)
(* Insert of its key, or the release of its last reference.                *)
Abstract ==
    INSTANCE Cache WITH
        map <- table,
        refs <- held,
        live <- {h \in Handles : Allocated(h) /\ ~InProgress(h)},
        keyOf <- [h \in Handles |-> IF InProgress(h) THEN Nil ELSE handle[h].key],
        asked <- IF mu.pc \in {"Insert", "Erase"}
                 THEN [op |-> mu.pc, key |-> handle[mu.e].key]
                 ELSE [op |-> "none", key |-> Nil]

ImplementsCache == Abstract!Spec
=============================================================================
