---------------------------- MODULE ShardedCache ----------------------------
(***************************************************************************)
(* cache/sharded_cache.h and LRUHandleTable of cache/lru_cache.{h,cc}: the *)
(* shard of a key is given by the lower bits of its hash, its bucket in    *)
(* the shard's table by the upper ones, as many as the table has grown to. *)
(*                                                                         *)
(* ApplyToAllEntries walks over the shards in turns, a few buckets under   *)
(* each shard's mutex, while other threads insert, erase and so enlarge    *)
(* the tables; where it stands in a shard is a hash, not an index.         *)
(***************************************************************************)
EXTENDS Integers, Sequences, SequencesExt, FiniteSetsExt

CONSTANTS
    Keys, None,
    Values,       \* the entries inserted under each key
    Hash,         \* the hash of each key
    HashBits,     \* 32 in the code
    ShardBits,    \* num_shard_bits
    InitBits,     \* 4 in the code
    PerLock       \* average_entries_per_lock of the walk

ASSUME HashAssumption == Hash \in [Keys -> 0 .. 2^HashBits - 1]
ASSUME PerLockAssumption == PerLock > 0    \* asserted by ApplyToSomeEntries
ASSUME BitsAssumption == 0 < InitBits /\ InitBits <= HashBits - ShardBits /\ InitBits < HashBits

VARIABLES
    table,      \* the LRUHandleTable of each shard
    map,        \* history: the entry each key should have
    agreed,     \* history: the operations returned what the map has
    walk,       \* the running ApplyToAllEntries, or None
    visits,     \* history: how often, up to 2, the walk came to each key
    stayed      \* history: the keys cached ever since the walk began

vars == <<table, map, agreed, walk, visits, stayed>>

Shards == 0 .. 2^ShardBits - 1

GetShard(k) == Hash[k] % 2^ShardBits

max_length_bits == HashBits - ShardBits

-----------------------------------------------------------------------------
(* LRUHandleTable.  A chain is the sequence of its entries. *)

Buckets(bits) == 0 .. 2^bits - 1

NewTable == [bits |-> InitBits, list |-> [b \in Buckets(InitBits) |-> <<>>], elems |-> 0]

(* Mutant: the lower bits of the hash. *)
MutBucket(k, bits) == Hash[k] % 2^bits

Bucket(k, bits) == Hash[k] \div 2^(HashBits - bits)

Chain(t, k) == t.list[Bucket(k, t.bits)]

(* The places of the key in the chain of its bucket, of which FindPointer  *)
(* takes the first; without any it takes the place behind the last entry.  *)
FindPointer(t, k) == {i \in DOMAIN Chain(t, k) : Chain(t, k)[i].key = k}

EntryAt(t, k) ==
    LET P == FindPointer(t, k) IN IF P = {} THEN None ELSE Chain(t, k)[Min(P)].value

(* Mutant: the limit of the hash is not respected. *)
MutCanGrow(t) == TRUE

(* The second limit, 31 in the code, keeps the shifts defined. *)
CanGrow(t) == t.bits < max_length_bits /\ t.bits < HashBits - 1

(* Mutant: the entries that stay in the first half are dropped. *)
MutSplit(t, b) ==
    IF b % 2 = 0 THEN <<>>
    ELSE Reverse(SelectSeq(t.list[b \div 2], LAMBDA e : Bucket(e.key, t.bits + 1) = b))

(* An old chain is gone through from its head and each entry put first in  *)
(* its new chain.                                                          *)
Split(t, b) ==
    Reverse(SelectSeq(t.list[b \div 2], LAMBDA e : Bucket(e.key, t.bits + 1) = b))

Resize(t) ==
    IF CanGrow(t)
    THEN [t EXCEPT !.bits = @ + 1, !.list = [b \in Buckets(t.bits + 1) |-> Split(t, b)]]
    ELSE t

(* Mutant: a replaced entry is counted again. *)
MutAdded(old) == 1

Added(old) == IF old = None THEN 1 ELSE 0

TableInsert(t, k, v) ==
    LET b == Bucket(k, t.bits)
        P == FindPointer(t, k)
        e == [key |-> k, value |-> v]
        new == [t EXCEPT !.list[b] = IF P = {} THEN Append(@, e) ELSE [@ EXCEPT ![Min(P)] = e],
                         !.elems = @ + Added(EntryAt(t, k))]
    IN  IF EntryAt(t, k) = None /\ new.elems >= 2^t.bits THEN Resize(new) ELSE new

TableRemove(t, k) ==
    IF EntryAt(t, k) = None THEN t
    ELSE [t EXCEPT !.list[Bucket(k, t.bits)] = RemoveAt(@, Min(FindPointer(t, k))), !.elems = @ - 1]

-----------------------------------------------------------------------------
(* The operations of the cache on its tables; each returns the entry that  *)
(* the key had.                                                            *)

Returns(k) == agreed' = (agreed /\ EntryAt(table[GetShard(k)], k) = map[k])

Insert(k, v) ==
    /\ table' = [table EXCEPT ![GetShard(k)] = TableInsert(@, k, v)]
    /\ Returns(k) /\ map' = [map EXCEPT ![k] = v]
    /\ UNCHANGED <<walk, visits, stayed>>

Erase(k) ==
    /\ table' = [table EXCEPT ![GetShard(k)] = TableRemove(@, k)]
    /\ Returns(k) /\ map' = [map EXCEPT ![k] = None]
    /\ stayed' = stayed \ {k}
    /\ UNCHANGED <<walk, visits>>

Lookup(k) == Returns(k) /\ UNCHANGED <<table, map, walk, visits, stayed>>

-----------------------------------------------------------------------------
(* ApplyToAllEntries.  A state is the hash the next call starts from in    *)
(* units of 2^-HashBits; Done stands for SIZE_MAX.                         *)

Done == 2^HashBits

ApplyToAllEntries ==
    /\ walk = None
    /\ walk' = [i |-> 0, states |-> [s \in Shards |-> 0], remaining_work |-> FALSE]
    /\ stayed' = {k \in Keys : map[k] # None}
    /\ UNCHANGED <<table, map, agreed, visits>>

aepl == Min({PerLock, 1})

IndexBegin(t, state) == state \div 2^(HashBits - t.bits)

(* Mutant: the state is left where it was. *)
MutNextState(t, state) ==
    IF IndexBegin(t, state) + aepl >= 2^t.bits THEN Done ELSE state

NextState(t, state) ==
    IF IndexBegin(t, state) + aepl >= 2^t.bits THEN Done
    ELSE (IndexBegin(t, state) + aepl) * 2^(HashBits - t.bits)

EntriesInRange(t, state) ==
    {k \in Keys :
        LET b == Bucket(k, t.bits)
        IN  /\ IndexBegin(t, state) <= b /\ b < IndexBegin(t, state) + aepl
            /\ \E i \in DOMAIN t.list[b] : t.list[b][i].key = k}

ApplyToSomeEntries ==
    LET s == walk.i
        seen == EntriesInRange(table[s], walk.states[s])
        state == NextState(table[s], walk.states[s])
    IN  /\ walk # None /\ walk.i \in Shards /\ walk.states[walk.i] # Done
        /\ visits' = [k \in Keys |-> IF k \in seen THEN Min({visits[k] + 1, 2}) ELSE visits[k]]
        /\ walk' = [walk EXCEPT !.i = @ + 1, !.states[s] = state,
                                !.remaining_work = @ \/ state # Done]
        /\ UNCHANGED <<table, map, agreed, stayed>>

SkipShard ==
    /\ walk # None /\ walk.i \in Shards /\ walk.states[walk.i] = Done
    /\ walk' = [walk EXCEPT !.i = @ + 1]
    /\ UNCHANGED <<table, map, agreed, visits, stayed>>

EndRound ==
    /\ walk # None /\ walk.i \notin Shards
    /\ \/ /\ walk.remaining_work
          /\ walk' = [walk EXCEPT !.i = 0, !.remaining_work = FALSE]
          /\ UNCHANGED <<visits, stayed>>
       \/ /\ ~walk.remaining_work
          /\ walk' = None
          /\ visits' = [k \in Keys |-> 0] /\ stayed' = {}
    /\ UNCHANGED <<table, map, agreed>>

WalkStep == ApplyToSomeEntries \/ SkipShard \/ EndRound

-----------------------------------------------------------------------------

Init ==
    /\ table = [s \in Shards |-> NewTable]
    /\ map = [k \in Keys |-> None] /\ agreed = TRUE
    /\ walk = None
    /\ visits = [k \in Keys |-> 0] /\ stayed = {}

Next ==
    \/ \E k \in Keys : (\E v \in Values[k] : Insert(k, v)) \/ Erase(k) \/ Lookup(k)
    \/ ApplyToAllEntries \/ WalkStep

(* The thread of the walk goes on. *)
Spec == Init /\ [][Next]_vars /\ WF_vars(WalkStep)

-----------------------------------------------------------------------------

(* Types, and the tables never use more bits than the sharding left them,  *)
(* nor so many that their length cannot be shifted.                        *)
TypeOK ==
    /\ \A s \in Shards :
         /\ table[s].bits \in InitBits .. Min({max_length_bits, HashBits - 1})
         /\ DOMAIN table[s].list = Buckets(table[s].bits)
    /\ \A k \in Keys : map[k] \in Values[k] \cup {None}
    /\ agreed \in BOOLEAN
    /\ walk # None => walk.states \in [Shards -> 0 .. Done]
    /\ visits \in [Keys -> 0 .. 2] /\ stayed \subseteq Keys

(* elems_ is the number of entries, as Resize asserts. *)
ElemsExact ==
    \A s \in Shards :
       table[s].elems = MapThenSumSet(LAMBDA b : Len(table[s].list[b]), DOMAIN table[s].list)

(* However the tables grow during the walk, it comes to every entry that   *)
(* was cached all along, and to no key twice.                              *)
VisitedOnce ==
    /\ \A k \in Keys : visits[k] <= 1
    /\ walk # None /\ walk.i \notin Shards /\ ~walk.remaining_work =>
         \A k \in stayed : visits[k] = 1

(* The walk ends, also while other threads keep inserting. *)
WalkEnds == walk # None ~> walk = None

(* The growing, sharded tables are one map: with colliding hashes,         *)
(* replaced and erased entries every operation finds the entry of its key. *)
IsMap == agreed /\ \A k \in Keys : EntryAt(table[GetShard(k)], k) = map[k]
=============================================================================
