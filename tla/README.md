# A TLA+ verification of xiaoDb

xiaoDb is a partial C++ reimplementation of an LSM key-value store. Many of its
headers only declare what the store will have; the parts whose code is complete
are a block cache, the two-tier cache that shares one memory budget, write
batches and their insertion into memtables, the tracking of prepared
transactions, and utilities under them. This directory models those parts in
TLA+, checks the models with TLC on small instances, and proves theorems about
two of them with TLAPS for every value of their constants.

`PROJECT.json` lists the components, the runs, the lines of source each
definition models (`map`), the hazards, the findings and the theorems. This file
is the guide to it.

## 1. Inventory

| Part | Source | State | Operations that change it | What makes it hard |
|---|---|---|---|---|
| Prepared-section tracker | `db/logs_with_prep_tracker` | ordered list of logs with counts; counters of completed sections | mark prepared, mark completed, find the minimum | two mutexes; the scan releases one between entries |
| LRU cache shard | `cache/lru_cache` | hash table, LRU list with three priority pools, usages, reference counts | insert, lookup, release, ref, erase, standalone entries, setters, evictions | entries are freed outside the mutex; two loops; a strict limit |
| Sharded cache and hash table | `cache/sharded_cache.h`, `LRUHandleTable` | one growing chained table per shard | insert, erase, walk over all entries | the table grows during a walk that holds no lock between steps |
| Two-tier cache, memory budget | `cache/secondary_cache_adapter`, `cache/cache_reservation_manager` | placeholder usage, reserved chunks, capacities of both tiers, dummy entries | reserve and release, change capacity or ratio | modular sizes; some reads and updates are outside the mutex; a strict primary refuses entries |
| Two-tier cache, data path | `cache/secondary_cache_adapter.cc` | entries in both tiers, pending lookups | lookup, promote, evict, asynchronous lookup | nested caches wait for the same handles |
| Write batch | `db/write_batch.cc` up to the inserter | record string, count, content flags, protection info, save points, WAL termination point | writers, markers, save points, append, copy, contents | five pieces of state change together and are restored together |
| Memtable inserter and log replay | `db/write_batch.cc`, `MemTableInserter` and `InsertInto` | sequence number, log reference, transaction under reconstruction, duplicate detector | `Iterate`, one handler per record kind, recovery | crashes, flushed families, retries, nested iteration at commit |
| Thread-local pointers | `util/thread_local` | ids, chain of threads, a slot vector per thread, handlers | construct, destroy, get, reset, swap, compare-and-swap, scrape, thread exit | owners use no lock; others exchange their slots |
| Sequence number to time mapping | `db/seqno_to_time_mapping` | sorted pairs with a capacity and a time span | append, merge, enforce limits, encode | greedy removal with stale priorities |
| WAL edits | `db/wal_edit` | set of logs with synced sizes | add, delete before, check | replays of manifests |
| Arena, concurrent arena, tracker | `memory/`, `memtable/alloc_tracker.cc` | blocks, per-core shards, accounted bytes | allocate aligned or not, refill | two locks, try-lock paths |
| Skip list | `memtable/skiplist.h` | towers of atomic pointers | insert | readers without a lock |
| Cleanable, work queue, compression context cache | `util/` | small lists, queues and slots | register, delegate; push, pop, finish; take, return | ownership, wake-ups |
| Options, object registry, encodings, hashes, logging, ports | `options/`, `utilities/`, `util/`, `logging/`, `port/` | mostly none | parsing, arithmetic, I/O | outside what small instances tell apart |

How the parts interact: a client of the block cache goes through
`ShardedCache`, which picks a shard by the lower bits of the hash and calls
`LRUCacheShard` under that shard's mutex. The two-tier adapter wraps such a cache
as its primary tier, and reservation managers insert dummy entries
("placeholders") into it to charge memory that lives elsewhere. A writer fills a
`WriteBatch`; the batch goes to the log and is iterated by a
`MemTableInserter`; after a crash the log is iterated again. Which logs must be
kept for prepared transactions is the prepared-section tracker's answer; its
callers are not in the repository.
Thread-local pointers carry the references that readers cache between calls.

## 2. Modules and how they correspond to the code

Names follow the source. Definitions that start with `Mut` are deliberately
wrong variants of the definition that follows them; nothing uses them, except
that putting one in place of its definition must make the property named in
`PROJECT.json` fail.

**`LogsWithPrepTracker`** has the list and the counters as variables and two
history variables, the sections ever prepared and ever decided per log.
`FindStep` is one iteration of the loop of
`FindMinLogContainingOutstandingPrep`, the stretch in which the inner mutex is
held, so completions may come between two iterations.

**`LRUCacheShard`** models every operation of the shard. The running critical
section is the variable `mu`; `EvictFromLRU` and `MaintainPoolSize` take one step
per iteration in it, and `Erase` has entered the mutex one step before it removes
the entry. `freeing[t]` is the list of entries that thread `t` frees
after it has left the mutex, one per step. `lru` has the list, the two pointers
into it, and its usages. `held` is a history variable: the references clients
hold. The hash table is a function from keys to handles.
**`LRUCacheShardCharges`** adds the statement about sums of charges
(`Accounting`); it is a module of its own because sums are folds over sets, which
are of no use to the proofs. **`Cache`** is what the shard promises a client: a map whose
entries live as long as someone refers to them. Its variable `asked` is the call
that is running: an entry enters the map only for an insertion of its key, and
leaves it, while someone refers to it, only because that key was inserted again
or erased; an eviction takes unreferenced entries only. `ImplementsCache` is the
refinement.

**`ShardedCache`** justifies that function: the real table with buckets by the
upper hash bits, chains, growth up to the bits the sharding leaves and the
limit that keeps the shift below the width of the hash (`CanGrow`), one per
shard, agrees with a map (`IsMap`). It also models `ApplyToAllEntries` with
its position kept as a hash.

**`TieredCache`** models the budget of the two-tier cache: the reservation
managers insert and release placeholders one entry at a time, with the adapter's
accounting before, under or after `cache_res_mutex_` as in the code; an
administrator changes capacity or ratio step by step. Sizes are taken
modulo `SizeMod`, which stands for 2^64, so a difference below zero is huge. A
share is rounded down, as the cast to `size_t` does; the floating-point product
before the cast is taken to be exact. Of the primary, the model keeps what
entries in use occupy: entries that can be evicted never make a strict
primary refuse an insertion.

**`WriteBatch`** models all writers of a batch and what they keep beside the
record string. A record is one unit of the string: its kind, family and the
state of its timestamp. `Behind` is what an `Append` may find beyond the end of a
string that was cut: any records. Moving a batch is not modelled.
**`UndoLog`** is the abstract promise of save points;
`ImplementsUndoLog` is the refinement.

**`MemTableInserter`** models `WriteBatchInternal::Iterate` record by record,
the handlers of the inserter, the live path through a write group, and recovery.
`frames` is the stack of `Iterate` calls: the commit of a rebuilt transaction
iterates inside the outer batch. A commit with timestamp first writes the
timestamp into the rebuilt batch, which takes for granted that every family is
there ("Fault" is where either build ends when one was dropped), and its
status is returned where that of a plain commit is asserted. With an in-place
callback, storing a `Put` has every outcome the callback and the read of the old
value leave open. The log, the memtables, flushing, log deletion, the transaction
layer and the manifest's sequence number are external, modelled from the way this code uses them.

**`ThreadLocalPtr`** models ids and handlers, the chain of threads, the slot
vectors and the calls of the owners, split where a call takes the mutex.
Enlarging a vector is a copy followed by an installation; `Scrape` is one step
per thread of the chain. The users follow the protocol that `column_family.h`
describes for super versions.

`Lists` holds two sequence helpers, `SeqLemmas` lemmas about them. Each `MC…`
module gives values to the constants. Where one run covers several
configurations, the module has a rigid variable (`db`, `caller`, `setup`) that
`Init` picks from a set of records and no action changes.

## 3. Runs

| Run | Shows | Bounds and why they are enough |
|---|---|---|
| `prep_tracker` | `FindIsExact`: the log returned has an undecided section and no smaller one has | three logs, two sections each: an entry passed, one being judged, one ahead |
| `shard_threads` | handle states, lifetimes, charges, strict limit, `ImplementsCache` | two threads, two keys, three allocations (so a replaced entry, its successor and a third coexist), charges 0 and 2 against capacities 1 and 3, strict or not |
| `shard_pools` | `PoolOrder`, `Accounting`, `CallsReturn` | one key of each priority and capacity 3, so that all three pools are occupied at once; a high-pri ratio of 0 or 1/2 that changes at any time and a low-pri ratio of 1/2, so that both pools overflow; one thread, since pools change only under the mutex; evictions for space happen in `shard_threads` |
| `sharded_walk` | `IsMap`, `ElemsExact`, `VisitedOnce`, `WalkEnds` | five keys with equal hashes, hashes that only a grown table separates, and one in the other shard; the table reaches its limit |
| `tiered_budget` | `SplitExact`, `NoSpike`, `PlaceholdersCounted`, `ReservationTracks` | two managers, one with delayed decrease; three setups: placeholders beyond the capacity, changing capacity, strict primary with pinned blocks; ratios in tenths against chunks of 8, so that shares are rounded |
| `tiered_two_admins` | violation, see section 5 | two threads that reconfigure |
| `batch_callers` | `CountExact`, `HasIsExact`, `ImplementsUndoLog` | four records and two nested save points on one batch; every record kind with two families; two batches that append and copy |
| `batch_noop`, `batch_wal` | violations, see section 5 | |
| `inserter_policies` | `RecoveryExact`, `TransactionsRecovered`, `RecoverySucceeds`, `BatchCountAgrees`, `NoCorruption` | the three write policies and a database with every record kind; up to three groups, two writers to a group, three logs, a crash at any step |
| `inserter_callback` | violation, see section 5 | |
| `thread_local` | `Conserved`, `FreeIdsClear`, `HandlersMatch`, `ScrapeSweeps` | two threads, two objects, two references: reuse of an id, growth of a vector past a slot in use |

Restrictions on inputs are those of the callers, and are stated in the modules:
a section is decided once and after it was prepared; a thread that ends has
returned the references it holds; a rollback does not go behind a WAL
termination point in `batch_callers` (it does in `batch_wal`); capacities set in
`tiered_budget` stay above what is reserved, the limitation that
`include/xiaodb/cache.h:519` documents, and a ratio of 0 is not raised again, the
one at line 521; each ratio step changes the secondary's capacity by at least as
much as its share of the reserved chunks (section 5); batches outside
transactions do not repeat a key in `inserter_policies`, and no batch with a
number per sub-batch consists of `PutBlobIndex` records only, which `Iterate`
treats as empty (`write_batch.cc:658`).

`NoSpike` compares the secondary's capacity with the dummy entries that stand for
it. It allows the two moments in which the code exceeds them: a release inflates
the secondary before it reserves, and a strict primary may refuse dummy entries,
which the code only asserts it does not. `RecoverySucceeds` allows a
failure on the last, unacknowledged group, and the one in
`MarkCommitWithTimestamp` described in section 5.

**Fairness.** `shard_pools` assumes weak fairness of the steps inside the mutex:
a thread in a critical section is eventually scheduled. Nothing is assumed of
clients, which need not call, nor of the thread that frees entries after it. `sharded_walk` assumes weak fairness of the walking thread
only; other threads may keep inserting. All other runs check safety.

**Symmetry** is used in `shard_threads` and `thread_local`, which check no liveness
property.

## 4. Theorems

Proved with TLAPS, for any value of the constants that satisfies the named
assumptions of the two modules:

* `LogsWithPrepTracker_proofs`: `Typing` and `FindExact`. `FindIsExact`
  is an action property; it needs that the list is strictly ordered by log
  (`Sorted`) and that for every log what was prepared minus what was decided is
  the count in the list minus the completions (`Balanced`). `Balanced` is the
  heart: erasing an entry is right only when its count and its completions are
  equal, which the code concludes from an inequality.
* `LRUCacheShard_proofs`: `Typing`, `HandlesHaveTheirStates`,
  `HeldEntriesAreLive`, `FullCacheIsPinned`, `StrictLimitIsKept`. The
  inductive invariant is `IndInv`, that is `IInv` (in `LRUCacheShardSteps`) and
  `EraseInv`: while `Erase` runs, its entry is the one the table has
  for the key. `IInv` says for each
  allocation which of its states it is in (cached, held outside the cache, in
  progress inside a call, on its way out, not allocated), that the list and the
  free lists have no duplicates, that the table points at live entries of its
  key, and who owns the mutex. It has to mention entries in progress: between
  the steps of an insertion the new entry is allocated but in no list.
  `FullMeansAllPinned` is inductive only together with it.
  `LRUCacheShardLists` has the lemmas on lists, `LRUCacheShardSteps` the
  steps that remove or move an entry, `LRUCacheShardInserts` those that create one.

The assumptions (`ChargesAssumption` and so on) only give the constants their
types and keep `Nil` and `None` apart from ordinary values; TLC evaluates them in
the runs.

Only model-checked: the sums in `Accounting` (induction over sets), the order of
the pools (`PoolOrder`), both refinements, everything about the sharded
table, the budget, the batches, the inserter and the thread-local pointers, and
all liveness (the prover does not handle fairness or `ENABLED`).

## 5. Where the code and its comments disagree

Four runs are expected to end in a violation; `findings` quotes both sides.

* `tiered_two_admins`: `SetCapacity` computes the secondary's share before it
  takes the mutex, and a concurrent ratio change makes it install a stale share.
* `batch_noop`: the content flags of a serialized batch are computed up to its
  first noop only, because the classifier does not handle noops.
* `batch_wal`: a rollback behind the WAL termination point leaves the point where
  it was, and a later wal-only append copies up to the old point, part of newer
  records or what lies behind the end of the string, and adds the old count.
* `inserter_callback`: with an in-place callback, recovery fails on a plain Put
  whose key is not in the memtable, though the live write succeeded.

Seen while reading, without a run of its own:

* the copy constructor leaves `needs_in_place_update_ts_` false (`write_batch.cc:161`);
* `MarkCommitWithTimestamp` in recovery looks a dropped family up, asserts that it
  is there and uses it (line 3588), where a plain commit skips it; the
  model reaches this, and `RecoverySucceeds` names it;
* when a ratio is lowered by so little that (capacity − reserved) times the step
  is below one unit, the difference of the rounded shares can be −1
  (capacity 9, 8 reserved, 10/20 to 9/20); it wraps and the clamped decrease
  empties `pri_cache_res_` (`secondary_cache_adapter.cc:698`); the comment at line 639
  expects "some error";
* `InsertBeginPrepare` sets `HAS_BEGIN_PREPARE` for unprepared batches
  and not the flag that the assertion at `write_batch.cc:714` looks for (line 1297);
* `PutEntity` and `TimedPut` do not call `MaybeTrackTimestampSize`
  (line 1231, against `include/xiaodb/write_batch.h:474`);
* an empty `DeleteRange` advances no sequence number (line 3056, against the
  comment at 2256);
* the log-number condition in `SeekToColumnFamily` is the opposite of the comment at
  `write_batch_internal.h:175`;
* `ApplyToAllEntries` takes the minimum of the requested entries per lock and 1
  (`cache/sharded_cache.h:223`), so every request becomes 1, against
  `include/xiaodb/advanced_cache.h:411`, and a request of 0 trips an assertion;
* `PutEntity` over attribute groups stops at the first group that fails and leaves
  the earlier ones in the batch (line 1262); nothing says which is meant;
* `DeleteRangeCF` returns the status of the rebuilt transaction, so an insertion
  that failed with anything but `TryAgain` can be reported as done (line 3077);
* `HasStrictCapacityLimit` in `sharded_cache.cc` returns nothing;
* `Cleanable::RegisterCleanup(Cleanup*)` compares where it should assign
  (`util/cleanable.cc:53`); its only caller, `DelegateCleanupsTo`, never reaches that branch;
* `WorkQueue` and the compression context cache refer to members under names
  that the classes do not declare.

## 6. Not modelled

Parts with no code beyond declarations (write thread, write controller, column
families, memtable lists, versions); byte-level conversions, checksums and
hashes; option parsing; logging and operating system calls. In the modelled
parts: key and value bytes, statistics, the flush and trim schedulers (a flush
may come between any two groups), memory orders weaker than sequential
consistency, and the Windows thread callback. `components` has a line on each.

## 7. Plan

In this order:

1. `SecondaryCacheAdapter`: the data path of the two-tier cache (lookup with
   dummy entries, promotion, the eviction handler, `WaitAll` over nested caches),
   with an abstract two-tier map that it refines; then its composition
   with the budget.
2. `WalSet` (`db/wal_edit`): edits replayed in order, `CheckWals` against the
   files present; bounds of three logs and two sizes.
3. `SeqnoToTimeMapping`: `EnforceCapacity` and `SortAndMerge` against reference
   definitions over all short lists, `Append` in sequence, lookups never
   claiming a time that is too late or too early.
4. `ConcurrentArena` with `AllocTracker`: allocations never overlap, the accounted
   size covers them.
5. `SkipList`: one writer and two readers; a key once found stays found.
6. `Cleanable`: every cleanup runs once.
7. Composition: the data path of step 1 joins the existing budget run, and the
   tracker joins `MemTableInserter`, whose external log deletion it decides.
8. Theorems: `PoolOrder` of the shard; the refinement of `Cache`;
   `FreeIdsClear`, `HandlersMatch` and `Conserved` of `ThreadLocalPtr`;
   `SplitExact` of `TieredCache` for any chunk size; `CountExact` of `WriteBatch`.
