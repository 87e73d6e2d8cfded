------------------------- MODULE LRUCacheShardSteps -------------------------
(***************************************************************************)
(* The shard's inductive invariant, and the steps that keep it: the loops  *)
(* that evict, the pool maintenance, Lookup, Ref, Release and Erase.       *)
(***************************************************************************)
EXTENDS LRUCacheShardLists

(* The inductive invariant. *)

(* What holds of one handle.  refs = held is only true of an entry that is *)
(* alive: the code gives a standalone entry its reference before the call  *)
(* returns it.                                                             *)
HI(h) ==
    /\ held[h] > 0 => Allocated(h)
    /\ held[h] > 0 => ~DoomedIn(freeing, h) /\ ~InProgress(h)
    /\ DoomedIn(freeing, h) =>
         Allocated(h) /\ handle[h].refs = 0 /\ ~handle[h].in_cache /\ ~InProgress(h)
    /\ In(lru, h) => Allocated(h) /\ ~DoomedIn(freeing, h) /\ ~InProgress(h)
    /\ Allocated(h) /\ ~DoomedIn(freeing, h) /\ ~InProgress(h) =>
         /\ handle[h].in_cache <=> table[handle[h].key] = h
         /\ In(lru, h) <=> handle[h].in_cache /\ handle[h].refs = 0
         /\ handle[h].in_cache \/ handle[h].refs > 0
         /\ handle[h].refs = held[h]
    /\ InProgress(h) =>
         /\ Allocated(h)
         /\ mu.pc = "Insert" => handle[h].in_cache /\ handle[h].refs = 0
         /\ mu.pc = "CreateStandalone" => ~handle[h].in_cache /\ handle[h].refs = 1

(* What holds of one key. *)
TI(k) ==
    table[k] # Nil =>
      /\ Allocated(table[k])
      /\ ~DoomedIn(freeing, table[k])
      /\ ~InProgress(table[k])
      /\ handle[table[k]].key = k

MuInv ==
    /\ mu.pc \in {"Insert", "CreateStandalone", "Erase"} => mu.e \in Handles
    /\ mu.pc \notin {"Insert", "CreateStandalone", "Erase"} => mu.e = Nil
    /\ mu.pc # "idle" => mu.t \in Threads

EntryInv ==
    /\ GoodList(lru)
    /\ OnceIn(freeing)
    /\ \A h \in Handles : HI(h)
    /\ \A k \in Keys : TI(k)

IInv == TypeOK /\ MuInv /\ EntryInv /\ FullMeansAllPinned

(* The entry that a running Erase found is still the one in the table. *)
EraseInv == mu.pc = "Erase" => Allocated(mu.e) /\ table[handle[mu.e].key] = mu.e

-----------------------------------------------------------------------------

(* A step that leaves an entry alone keeps what holds of it. *)
LEMMA FrameHandle ==
    ASSUME NEW h \in Handles, HI(h),
           handle'[h] = handle[h], held'[h] = held[h],
           Allocated(h) => (table'[handle[h].key] = h <=> table[handle[h].key] = h),
           In(lru', h) <=> In(lru, h),
           DoomedIn(freeing', h) <=> DoomedIn(freeing, h),
           InProgress(h)' <=> InProgress(h),
           InProgress(h) => mu'.pc = mu.pc
    PROVE  HI(h)'
<1>1. Allocated(h)' <=> Allocated(h)
  BY DEF Allocated
<1> QED BY <1>1 DEF HI, Allocated

(* A step that leaves the entry of a key alone keeps what holds of the key. *)
LEMMA FrameKey ==
    ASSUME NEW k \in Keys, TI(k), table'[k] = table[k],
           table[k] # Nil => /\ handle'[table[k]].key = handle[table[k]].key
                             /\ DoomedIn(freeing', table[k]) <=> DoomedIn(freeing, table[k])
                             /\ InProgress(table[k])' <=> InProgress(table[k])
    PROVE  TI(k)'
BY DEF TI, Allocated, InProgress

(* A step that only moves the critical section, between calls that have no *)
(* entry of their own, keeps what holds of the entries.                    *)
LEMMA FrameEntries ==
    ASSUME TypeOK, EntryInv, UNCHANGED <<handle, table, lru, freeing, held>>,
           \A h \in Handles : InProgress(h)' <=> InProgress(h),
           \A h \in Handles : InProgress(h) => mu'.pc = mu.pc
    PROVE  EntryInv'
<1>1. \A h \in Handles : HI(h)'
  <2> SUFFICES ASSUME NEW h \in Handles PROVE HI(h)'
    OBVIOUS
  <2> QED BY FrameHandle DEF EntryInv
<1>2. \A k \in Keys : TI(k)'
  <2> SUFFICES ASSUME NEW k \in Keys PROVE TI(k)'
    OBVIOUS
  <2>1. table[k] # Nil => table[k] \in Handles
    BY DEF TypeOK
  <2> QED BY <2>1, FrameKey DEF EntryInv
<1> QED BY <1>1, <1>2 DEF EntryInv

(* The step leaves entry h alone. *)
Same(h) ==
    /\ handle'[h] = handle[h]
    /\ held'[h] = held[h]
    /\ In(lru', h) <=> In(lru, h)
    /\ DoomedIn(freeing', h) <=> DoomedIn(freeing, h)
    /\ InProgress(h)' <=> InProgress(h)
    /\ InProgress(h) => mu'.pc = mu.pc

(* A step on one entry, which may take it out of the table, keeps what     *)
(* holds of all of them if it keeps what holds of that one.                *)
LEMMA OneEntry ==
    ASSUME TypeOK, EntryInv, NEW e \in Handles,
           \A h \in Handles : h # e => Same(h),
           \A k \in Keys : table'[k] = table[k] \/ (table[k] = e /\ table'[k] = Nil),
           GoodList(lru'), OnceIn(freeing'), HI(e)',
           \A k \in Keys : table[k] = e => TI(k)'
    PROVE  EntryInv'
<1>1. \A h \in Handles : HI(h)'
  <2> SUFFICES ASSUME NEW h \in Handles, h # e PROVE HI(h)'
    OBVIOUS
  <2>1. Same(h) /\ HI(h)
    BY DEF EntryInv
  <2>2. Allocated(h) => handle[h].key \in Keys
    BY DEF Allocated, TypeOK, HandleType
  <2>3. h # Nil
    BY NilAssumption
  <2>4. Allocated(h) => (table'[handle[h].key] = h <=> table[handle[h].key] = h)
    BY <2>2, <2>3
  <2> QED BY <2>1, <2>4, FrameHandle DEF Same
<1>2. \A k \in Keys : TI(k)'
  <2> SUFFICES ASSUME NEW k \in Keys, table[k] # e PROVE TI(k)'
    OBVIOUS
  <2>1. table[k] # Nil => table[k] \in Handles
    BY DEF TypeOK
  <2>2. table[k] # Nil => Same(table[k])
    BY <2>1
  <2>3. TI(k) /\ table'[k] = table[k]
    BY DEF EntryInv
  <2> QED BY <2>2, <2>3, FrameKey DEF Same
<1> QED BY <1>1, <1>2 DEF EntryInv

(* An entry that is not allocated is nowhere. *)
LEMMA Fresh ==
    ASSUME TypeOK, EntryInv, NEW e \in Handles, ~Allocated(e)
    PROVE  /\ ~DoomedIn(freeing, e) /\ ~In(lru, e) /\ ~InProgress(e) /\ held[e] = 0
           /\ \A k \in Keys : table[k] # e
<1>1. HI(e) /\ held[e] \in Nat /\ e # Nil
  BY NilAssumption DEF EntryInv, TypeOK
<1>2. \A k \in Keys : TI(k)
  BY DEF EntryInv
<1>3. \A k \in Keys : table[k] # e
  BY <1>1, <1>2 DEF TI
<1> QED BY <1>1, <1>3 DEF HI

(* Nothing is in progress while the mutex is free. *)
LEMMA IdleMutex ==
    ASSUME mu = Idle
    PROVE  mu.pc = "idle" /\ \A h \in Handles : ~InProgress(h)
BY NilAssumption DEF Idle, InProgress

LEMMA EnterFacts ==
    ASSUME NEW pc, NEW t, NEW e, NEW flag, Enter(pc, t, e, flag)
    PROVE  /\ mu'.pc = pc /\ mu'.t = t /\ mu'.e = e /\ mu'.flag = flag
           /\ \A h : InProgress(h)' <=> pc \in {"Insert", "CreateStandalone"} /\ h = e
BY DEF Enter, InProgress

(* Insert and CreateStandalone begin with a new entry of their own. *)
LEMMA CreateStep ==
    ASSUME IInv, NEW t \in Threads, MayCall(t), NEW e \in Handles, ~Allocated(e),
           NEW pc \in {"Insert", "CreateStandalone"}, NEW flag \in BOOLEAN,
           Enter(pc, t, e, flag),
           NEW x \in HandleType, handle' = [handle EXCEPT ![e] = x],
           x.key # Nil,
           pc = "Insert" => x.in_cache /\ x.refs = 0,
           pc = "CreateStandalone" => ~x.in_cache /\ x.refs = 1,
           UNCHANGED <<table, lru, usage, config, freeing, held>>
    PROVE  IInv'
<1>1. TypeOK /\ EntryInv /\ FullMeansAllPinned /\ mu = Idle
  BY DEF IInv, MayCall
<1>2. /\ ~DoomedIn(freeing, e) /\ ~In(lru, e) /\ ~InProgress(e) /\ held[e] = 0
      /\ \A k \in Keys : table[k] # e
  BY <1>1, Fresh
<1>3. mu.pc = "idle" /\ \A h \in Handles : ~InProgress(h)
  BY <1>1, IdleMutex
<1>4. /\ mu'.pc = pc /\ mu'.t = t /\ mu'.e = e /\ mu'.flag = flag
      /\ \A h \in Handles : InProgress(h)' <=> h = e
  BY EnterFacts
<1>5. handle'[e] = x /\ \A h \in Handles : h # e => handle'[h] = handle[h]
  BY <1>1 DEF TypeOK
<1>6. TypeOK'
  <2>1. handle' \in [Handles -> HandleType]
    BY <1>1 DEF TypeOK
  <2>2. mu' \in [pc : PCs, t : Threads \cup {Nil}, e : Handles \cup {Nil}, flag : BOOLEAN]
    BY DEF Enter, PCs
  <2> QED BY <1>1, <2>1, <2>2 DEF TypeOK, config
<1>7. MuInv'
  BY <1>4 DEF MuInv
<1>8. FullMeansAllPinned'
  BY <1>1, <1>3 DEF FullMeansAllPinned, config
<1>9. \A h \in Handles : h # e => Same(h)
  BY SMTT(30), <1>3, <1>4, <1>5 DEF Same
<1>10. HI(e)'
  <2>1. Allocated(e)' /\ InProgress(e)'
    BY SMTT(30), <1>4, <1>5 DEF Allocated
  <2> QED BY SMTT(30), <2>1, <1>2, <1>4, <1>5 DEF HI
<1>11. EntryInv'
  BY <1>1, <1>2, <1>9, <1>10, OneEntry DEF EntryInv
<1> QED BY <1>6, <1>7, <1>8, <1>11 DEF IInv

(* An entry of the cache or of a client, in the terms of the invariant. *)
Live(h) == Allocated(h) /\ ~DoomedIn(freeing, h) /\ ~InProgress(h)

(* The entry that leaves for good: off the list, out of the table and on   *)
(* the list of what thread t frees.                                        *)
LEMMA DoomStep ==
    ASSUME TypeOK, EntryInv, NEW t \in Threads, NEW e \in Handles, Live(e),
           NEW x, handle' = [handle EXCEPT ![e] = x],
           x.key = handle[e].key, x.refs = 0, ~x.in_cache,
           held'[e] = 0, \A h \in Handles : h # e => held'[h] = held[h],
           GoodList(lru'),
           \A h \in Handles : In(lru', h) <=> In(lru, h) /\ h # e,
           \A k \in Keys : table'[k] = IF table[k] = e THEN Nil ELSE table[k],
           ToFree(t, e),
           \A h \in Handles : InProgress(h)' <=> InProgress(h),
           \A h \in Handles : InProgress(h) => mu'.pc = mu.pc
    PROVE  EntryInv' /\ freeing' \in [Threads -> Seq(Handles)]
<1>1. /\ freeing' \in [Threads -> Seq(Handles)] /\ OnceIn(freeing')
      /\ \A h \in Handles : DoomedIn(freeing', h) <=> DoomedIn(freeing, h) \/ h = e
  <2>1. freeing \in [Threads -> Seq(Handles)] /\ OnceIn(freeing) /\ ~DoomedIn(freeing, e)
    BY DEF TypeOK, EntryInv, Live
  <2>2. freeing' = Plus(freeing, t, e)
    BY DEF ToFree, Plus
  <2> QED BY SMTT(30), <2>1, <2>2, AppendDoomed
<1>2. handle'[e] = x /\ \A h \in Handles : h # e => handle'[h] = handle[h]
  BY DEF TypeOK
<1>4. \A h \in Handles : h # e => Same(h)
  BY SMTT(30), <1>1, <1>2 DEF Same
<1>5. HI(e)'
  <2>1. Allocated(e)' /\ ~InProgress(e)'
    BY <1>2 DEF Allocated, Live
  <2>2. ~In(lru', e) /\ DoomedIn(freeing', e)
    BY <1>1
  <2>3. handle'[e].refs = 0 /\ ~handle'[e].in_cache
    BY <1>2, Zenon
  <2>4. ~(held'[e] > 0)
    OBVIOUS
  <2> QED BY SMTT(30), <2>1, <2>2, <2>3, <2>4 DEF HI
<1>6. \A k \in Keys : table[k] = e => TI(k)'
  BY DEF TI
<1>7. EntryInv'
  BY SMTT(30), <1>1, <1>4, <1>5, <1>6, OneEntry
<1> QED BY <1>1, <1>7

(* What the invariant says of an entry of the cache. *)
LEMMA LiveFacts ==
    ASSUME TypeOK, EntryInv, NEW e \in Handles, Live(e)
    PROVE  /\ handle[e].key \in Keys
           /\ handle[e].in_cache <=> table[handle[e].key] = e
           /\ In(lru, e) <=> handle[e].in_cache /\ handle[e].refs = 0
           /\ handle[e].in_cache \/ handle[e].refs > 0
           /\ handle[e].refs = held[e]
           /\ \A k \in Keys : table[k] = e => k = handle[e].key
<1>1. HI(e)
  BY DEF EntryInv
<1>2. handle[e].key \in Keys
  BY DEF TypeOK, HandleType, Live, Allocated
<1>3. \A k \in Keys : table[k] = e => k = handle[e].key
  <2>1. \A k \in Keys : TI(k)
    BY DEF EntryInv
  <2>2. e # Nil
    BY NilAssumption
  <2> QED BY <2>1, <2>2 DEF TI
<1> QED BY <1>1, <1>2, <1>3 DEF HI, Live

(* A listed entry, a cached entry and an entry that a client holds are     *)
(* entries of the cache or of a client.                                    *)
LEMMA LiveOnes ==
    ASSUME TypeOK, EntryInv
    PROVE  /\ \A h \in Handles : In(lru, h) => Live(h)
           /\ \A k \in Keys : table[k] # Nil => table[k] \in Handles /\ Live(table[k])
           /\ \A h \in Handles : held[h] > 0 => Live(h)
<1>1. \A h \in Handles : HI(h)
  BY DEF EntryInv
<1>2. \A k \in Keys : TI(k) /\ (table[k] # Nil => table[k] \in Handles)
  BY DEF EntryInv, TypeOK
<1>3. \A h \in Handles : (In(lru, h) => Live(h)) /\ (held[h] > 0 => Live(h))
  BY <1>1 DEF HI, Live
<1>4. \A k \in Keys : table[k] # Nil => table[k] \in Handles /\ Live(table[k])
  BY <1>2 DEF TI, Live
<1> QED BY <1>3, <1>4

(* The head of a list that is not empty. *)
LEMMA HeadListed ==
    ASSUME TypeOK, lru.list # <<>>
    PROVE  Head(lru.list) \in Handles /\ In(lru, Head(lru.list))
<1>1. lru.list \in Seq(Handles)
  BY DEF TypeOK, LruType
<1>2. 1 \in 1 .. Len(lru.list) /\ Head(lru.list) = lru.list[1] /\ lru.list[1] \in Handles
  BY <1>1
<1> QED BY <1>2 DEF In

(* An entry on the list means that the list is not empty. *)
LEMMA ListedNonEmpty ==
    ASSUME NEW e, In(lru, e)
    PROVE  lru.list # <<>>
BY DEF In

LEMMA EvictStep ==
    ASSUME IInv, EvictFromLRU
    PROVE  IInv'
<1> DEFINE old == Head(lru.list)
<1>1. TypeOK /\ MuInv /\ EntryInv /\ FullMeansAllPinned
  BY DEF IInv
<1>2. /\ lru.list # <<>> /\ mu.pc # "idle"
      /\ lru' = LRU_Remove(lru, old)
      /\ table' = [table EXCEPT ![handle[old].key] = Nil]
      /\ handle' = [handle EXCEPT ![old].in_cache = FALSE]
      /\ usage' = usage - handle[old].charge
      /\ ToFree(mu.t, old)
      /\ UNCHANGED <<config, mu, held>>
  BY DEF EvictFromLRU, MustEvict, Uncharged
<1>3. old \in Handles /\ In(lru, old) /\ mu.t \in Threads
  BY <1>1, <1>2, HeadListed DEF MuInv
<1> HIDE DEF old
<1>4. Live(old)
  BY <1>1, <1>3, LiveOnes
<1>5. /\ handle[old].key \in Keys /\ handle[old].refs = 0 /\ held[old] = 0
      /\ table[handle[old].key] = old
      /\ \A k \in Keys : table[k] = old => k = handle[old].key
  BY <1>1, <1>3, <1>4, LiveFacts
<1>6. handle \in [Handles -> HandleType] /\ GoodList(lru)
  BY <1>1 DEF TypeOK, EntryInv
<1>7. /\ GoodList(lru')
      /\ \A h \in Handles : In(lru', h) <=> In(lru, h) /\ h # old
  BY <1>2, <1>3, <1>6, RemoveGood
<1>8. \A k \in Keys : table'[k] = IF table[k] = old THEN Nil ELSE table[k]
  BY <1>1, <1>2, <1>5 DEF TypeOK
<1> DEFINE x == [handle[old] EXCEPT !.in_cache = FALSE]
<1>9. /\ x \in HandleType /\ handle' = [handle EXCEPT ![old] = x]
      /\ x.key = handle[old].key /\ x.refs = 0 /\ ~x.in_cache
  BY ZenonT(30), <1>2, <1>3, <1>5, <1>6 DEF HandleType
<1>10. EntryInv' /\ freeing' \in [Threads -> Seq(Handles)]
  <2> HIDE DEF x
  <2>1. held'[old] = 0 /\ \A h \in Handles : h # old => held'[h] = held[h]
    BY <1>2, <1>5
  <2>2. /\ \A h \in Handles : InProgress(h)' <=> InProgress(h)
        /\ \A h \in Handles : InProgress(h) => mu'.pc = mu.pc
    BY <1>2 DEF InProgress
  <2>3. ToFree(mu.t, old)
    BY <1>2
  <2> QED BY <1>1, <1>3, <1>4, <1>7, <1>8, <1>9, <2>1, <2>2, <2>3, DoomStep
<1>11. TypeOK'
  <2>1. handle' \in [Handles -> HandleType]
    <3> HIDE DEF x
    <3> QED BY <1>3, <1>6, <1>9
  <2>2. lru' \in LruType
    BY <1>7 DEF GoodList
  <2>3. handle[old].charge \in Int
    BY <1>3, <1>6 DEF HandleType
  <2>4. usage' \in Int /\ table' \in [Keys -> Handles \cup {Nil}]
    <3>1. usage \in Int /\ table \in [Keys -> Handles \cup {Nil}]
      BY <1>1 DEF TypeOK
    <3>2. usage' \in Int
      BY <3>1, <1>2, <2>3
    <3>3. table' \in [Keys -> Handles \cup {Nil}]
      BY <3>1, <1>2
    <3> QED BY <3>2, <3>3
  <2>5. UNCHANGED <<capacity, strict, high_ratio, low_ratio, mu, held>>
    BY <1>2 DEF config
  <2> QED BY <1>1, <1>10, <2>1, <2>2, <2>4, <2>5 DEF TypeOK
<1>12. FullMeansAllPinned'
  <2>1. handle[old].charge \in Nat
    BY <1>3, <1>6 DEF HandleType
  <2>2. usage \in Int /\ capacity \in Nat
    BY <1>1 DEF TypeOK
  <2> QED BY <1>1, <1>2, <2>1, <2>2 DEF FullMeansAllPinned, config
<1> QED BY <1>1, <1>2, <1>10, <1>11, <1>12 DEF IInv, MuInv

(* The ways in which the steps change a handle. *)
More(y) == [y EXCEPT !.refs = @ + 1]
Less(y) == [y EXCEPT !.refs = @ - 1]
Out(y) == [y EXCEPT !.in_cache = FALSE]
Moved(y, p) == [y EXCEPT !.pool = p]
Hit(y) == [More(y) EXCEPT !.has_hit = TRUE]

(* x is a handle with the key of y and these references and flag. *)
Like(x, y, n, c) ==
    x \in HandleType /\ x.key = y.key /\ x.refs = n /\ x.in_cache = c

LEMMA MoreLike ==
    ASSUME NEW y \in HandleType
    PROVE  Like(More(y), y, y.refs + 1, y.in_cache)
BY DEF More, Like, HandleType

LEMMA LessLike ==
    ASSUME NEW y \in HandleType, y.refs > 0
    PROVE  Like(Less(y), y, y.refs - 1, y.in_cache)
BY DEF Less, Like, HandleType

LEMMA OutLike ==
    ASSUME NEW y \in HandleType
    PROVE  Like(Out(y), y, y.refs, FALSE)
BY DEF Out, Like, HandleType

LEMMA MovedLike ==
    ASSUME NEW y \in HandleType, NEW p \in Pools
    PROVE  Like(Moved(y, p), y, y.refs, y.in_cache)
BY DEF Moved, Like, HandleType

LEMMA HitLike ==
    ASSUME NEW y \in HandleType
    PROVE  Like(Hit(y), y, y.refs + 1, y.in_cache)
<1>1. Like(More(y), y, y.refs + 1, y.in_cache)
  BY MoreLike
<1> DEFINE z == More(y)
<1>2. z \in HandleType /\ z.key = y.key /\ z.refs = y.refs + 1 /\ z.in_cache = y.in_cache
  BY <1>1, Zenon DEF Like
<1>3. Hit(y) = [z EXCEPT !.has_hit = TRUE]
  BY DEF Hit
<1> HIDE DEF z
<1> QED BY <1>2, <1>3 DEF Like, HandleType

(* A step that touches one entry without taking it from the cache: fields  *)
(* other than its key change, or its references and its place on the list. *)
LEMMA TouchStep ==
    ASSUME IInv, NEW e \in Handles, Live(e),
           NEW x \in HandleType, handle' = [handle EXCEPT ![e] = x],
           x.key = handle[e].key, x.in_cache = handle[e].in_cache,
           held' \in [Handles -> Nat], x.refs = held'[e],
           \A h \in Handles : h # e => held'[h] = held[h],
           x.in_cache \/ x.refs > 0,
           GoodList(lru'),
           \A h \in Handles : h # e => (In(lru', h) <=> In(lru, h)),
           In(lru', e) <=> x.in_cache /\ x.refs = 0,
           \A h \in Handles : InProgress(h)' <=> InProgress(h),
           \A h \in Handles : InProgress(h) => mu'.pc = mu.pc,
           mu' \in [pc : PCs, t : Threads \cup {Nil}, e : Handles \cup {Nil}, flag : BOOLEAN],
           MuInv', FullMeansAllPinned',
           UNCHANGED <<table, usage, config, freeing>>
    PROVE  IInv'
<1>1. TypeOK /\ EntryInv
  BY DEF IInv
<1>2. handle'[e] = x /\ \A h \in Handles : h # e => handle'[h] = handle[h]
  BY <1>1 DEF TypeOK
<1>3. UNCHANGED <<usage, capacity, strict, high_ratio, low_ratio, freeing, table>>
  BY DEF config
<1>4. \A h \in Handles : h # e => Same(h)
  BY <1>2, <1>3 DEF Same
<1>5. /\ handle[e].key \in Keys
      /\ handle[e].in_cache <=> table[handle[e].key] = e
      /\ Allocated(e) /\ ~DoomedIn(freeing, e) /\ ~InProgress(e)
  BY ZenonT(30), <1>1, LiveFacts DEF Live
<1>6. HI(e)'
  <2>1. Allocated(e)' /\ ~InProgress(e)' /\ ~DoomedIn(freeing', e)
    BY ZenonT(30), <1>2, <1>3, <1>5 DEF Allocated
  <2>2. /\ handle'[e].in_cache <=> table'[handle'[e].key] = e
        /\ In(lru', e) <=> handle'[e].in_cache /\ handle'[e].refs = 0
        /\ handle'[e].in_cache \/ handle'[e].refs > 0
        /\ handle'[e].refs = held'[e]
    BY SMTT(30), <1>2, <1>3, <1>5
  <2> QED BY ZenonT(30), <2>1, <2>2 DEF HI
<1>7. \A k \in Keys : table[k] = e => TI(k)'
  <2> SUFFICES ASSUME NEW k \in Keys, table[k] = e PROVE TI(k)'
    BY SMTT(30)
  <2>1. k = handle[e].key
    BY SMTT(30), <1>1, LiveFacts
  <2>2. table'[k] = e /\ handle'[e].key = k
    BY SMTT(30), <1>2, <1>3, <2>1
  <2>3. Allocated(e)' /\ ~InProgress(e)' /\ ~DoomedIn(freeing', e)
    BY <1>2, <1>3, <1>5 DEF Allocated
  <2> QED BY SMTT(30), <2>2, <2>3 DEF TI, Allocated, InProgress
<1>8. OnceIn(freeing')
  BY <1>1, <1>3 DEF EntryInv
<1>9. EntryInv'
  <2>1. \A k \in Keys : table'[k] = table[k] \/ (table[k] = e /\ table'[k] = Nil)
    BY <1>3
  <2> QED BY ZenonT(30), <1>1, <1>4, <1>6, <1>7, <1>8, <2>1, OneEntry
<1>10. TypeOK'
  <2>1. handle' \in [Handles -> HandleType]
    BY SMTT(30), <1>1 DEF TypeOK
  <2>2. lru' \in LruType
    BY DEF GoodList
  <2> QED BY SMTT(30), <1>1, <1>3, <2>1, <2>2 DEF TypeOK
<1> QED BY <1>9, <1>10 DEF IInv

(* Taking an entry off the list if it is there. *)
LEMMA UnlistGood ==
    ASSUME TypeOK, EntryInv, NEW e \in Handles, Live(e), handle[e].in_cache
    PROVE  /\ GoodList(Unlist(e))
           /\ \A h \in Handles : In(Unlist(e), h) <=> In(lru, h) /\ h # e
           /\ lru.list = <<>> => Unlist(e) = lru
<1>1. In(lru, e) <=> handle[e].refs = 0
  BY LiveFacts
<1>2. handle \in [Handles -> HandleType] /\ GoodList(lru)
  BY SMTT(30) DEF TypeOK, EntryInv
<1>3. CASE handle[e].refs = 0
  <2>1. In(lru, e) /\ Unlist(e) = LRU_Remove(lru, e)
    BY <1>1, <1>3 DEF Unlist
  <2>2. lru.list # <<>>
    BY <2>1, ListedNonEmpty
  <2> QED BY SMTT(30), <2>1, <2>2, <1>2, RemoveGood
<1>4. CASE handle[e].refs # 0
  <2>1. ~In(lru, e) /\ Unlist(e) = lru
    BY <1>1, <1>4 DEF Unlist
  <2> QED BY <2>1, <1>2
<1> QED BY <1>3, <1>4

LEMMA LookupStep ==
    ASSUME IInv, NEW t \in Threads, NEW k \in Keys, Lookup(t, k)
    PROVE  IInv'
<1> DEFINE e == table[k]
           x == Hit(handle[e])
<1>1. TypeOK /\ MuInv /\ EntryInv /\ FullMeansAllPinned
  BY DEF IInv
<1>2. /\ e # Nil /\ lru' = Unlist(e)
      /\ handle' = [handle EXCEPT ![e].refs = @ + 1, ![e].has_hit = TRUE]
      /\ held' = [held EXCEPT ![e] = @ + 1]
      /\ UNCHANGED <<table, usage, config, mu, freeing>>
  BY DEF Lookup
<1>3. e \in Handles /\ Live(e)
  BY <1>1, <1>2, LiveOnes
<1> HIDE DEF e
<1>4. handle[e].refs = held[e] /\ handle[e].in_cache
  <2>1. handle[e].key = k
    BY <1>1, <1>2 DEF EntryInv, TI, e
  <2>2. table[handle[e].key] = e
    BY <2>1 DEF e
  <2> QED BY <2>2, <1>1, <1>3, LiveFacts
<1>5. handle \in [Handles -> HandleType] /\ held \in [Handles -> Nat]
  BY <1>1 DEF TypeOK
<1>6. /\ x \in HandleType /\ x.key = handle[e].key /\ x.in_cache = handle[e].in_cache
      /\ x.refs = handle[e].refs + 1
  <2>1. handle[e] \in HandleType
    BY <1>3, <1>5
  <2>2. Like(x, handle[e], handle[e].refs + 1, handle[e].in_cache)
    BY <2>1, HitLike
  <2> QED BY <2>2 DEF Like
<1>7. handle' = [handle EXCEPT ![e] = x]
  BY <1>2, <1>3, <1>5 DEF Hit, More
<1> HIDE DEF x
<1>8. /\ held' \in [Handles -> Nat] /\ held'[e] = held[e] + 1
      /\ \A h \in Handles : h # e => held'[h] = held[h]
  BY <1>2, <1>3, <1>5
<1>9. /\ GoodList(lru')
      /\ \A h \in Handles : In(lru', h) <=> In(lru, h) /\ h # e
      /\ lru.list = <<>> => lru' = lru
  BY <1>1, <1>2, <1>3, <1>4, UnlistGood
<1>10. x.refs = held'[e] /\ x.refs # 0 /\ x.in_cache
  BY <1>3, <1>4, <1>5, <1>6, <1>8
<1>11. UNCHANGED <<usage, capacity, mu>>
  BY <1>2 DEF config
<1>12. FullMeansAllPinned'
  BY <1>1, <1>9, <1>11 DEF FullMeansAllPinned
<1>13. /\ \A h \in Handles : InProgress(h)' <=> InProgress(h)
       /\ mu' \in [pc : PCs, t : Threads \cup {Nil}, e : Handles \cup {Nil}, flag : BOOLEAN]
       /\ MuInv'
  BY SMTT(30), <1>1, <1>11 DEF InProgress, TypeOK, MuInv
<1>14. \A h \in Handles : h # e => (In(lru', h) <=> In(lru, h))
  BY <1>9
<1>15. In(lru', e) <=> x.in_cache /\ x.refs = 0
  BY <1>3, <1>9, <1>10
<1> QED BY <1>2, <1>3, <1>6, <1>7, <1>8, <1>9, <1>10, <1>11, <1>12, <1>13, <1>14, <1>15,
           TouchStep

(* What an unchanged critical section keeps. *)
LEMMA SameMu ==
    ASSUME TypeOK, MuInv, UNCHANGED mu
    PROVE  /\ \A h \in Handles : InProgress(h)' <=> InProgress(h)
           /\ \A h \in Handles : InProgress(h) => mu'.pc = mu.pc
           /\ mu' \in [pc : PCs, t : Threads \cup {Nil}, e : Handles \cup {Nil}, flag : BOOLEAN]
           /\ MuInv'
BY SMTT(30) DEF InProgress, TypeOK, MuInv

LEMMA RefStep ==
    ASSUME IInv, NEW t \in Threads, NEW e \in Handles, Ref(t, e)
    PROVE  IInv'
<1> DEFINE x == More(handle[e])
<1>1. TypeOK /\ MuInv /\ EntryInv /\ FullMeansAllPinned
  BY DEF IInv
<1>2. /\ held[e] > 0
      /\ handle' = [handle EXCEPT ![e].refs = @ + 1]
      /\ held' = [held EXCEPT ![e] = @ + 1]
      /\ UNCHANGED <<table, lru, usage, config, mu, freeing>>
  BY MaxRefsAssumption DEF Ref
<1>3. Live(e)
  BY SMTT(30), <1>1, <1>2, LiveOnes
<1>4. handle[e].refs = held[e] /\ (In(lru, e) <=> handle[e].in_cache /\ handle[e].refs = 0)
  BY <1>1, <1>3, LiveFacts
<1>5. handle \in [Handles -> HandleType] /\ held \in [Handles -> Nat] /\ GoodList(lru)
  BY <1>1 DEF TypeOK, EntryInv
<1>6. /\ x \in HandleType /\ x.key = handle[e].key /\ x.in_cache = handle[e].in_cache
      /\ x.refs = handle[e].refs + 1
  BY <1>5, MoreLike DEF Like
<1>7. handle' = [handle EXCEPT ![e] = x]
  BY <1>2, <1>5 DEF More
<1> HIDE DEF x
<1>8. /\ held' \in [Handles -> Nat] /\ held'[e] = held[e] + 1
      /\ \A h \in Handles : h # e => held'[h] = held[h]
  BY <1>2, <1>5
<1>9. held[e] \in Nat
  BY <1>5
<1>10. x.refs = held'[e] /\ x.refs > 0 /\ x.refs # 0 /\ handle[e].refs # 0
  BY <1>2, <1>4, <1>6, <1>8, <1>9
<1>11. UNCHANGED <<table, lru, usage, capacity, mu, freeing>>
  BY <1>2 DEF config
<1>12. FullMeansAllPinned'
  BY <1>1, <1>11 DEF FullMeansAllPinned
<1>13. UNCHANGED config
  BY SMTT(30), <1>2
<1>14. In(lru', e) <=> x.in_cache /\ x.refs = 0
  BY <1>4, <1>10, <1>11
<1>15. GoodList(lru') /\ \A h \in Handles : In(lru', h) <=> In(lru, h)
  BY <1>5, <1>11
<1>16. /\ \A h \in Handles : InProgress(h)' <=> InProgress(h)
       /\ \A h \in Handles : InProgress(h) => mu'.pc = mu.pc
       /\ mu' \in [pc : PCs, t : Threads \cup {Nil}, e : Handles \cup {Nil}, flag : BOOLEAN]
       /\ MuInv'
  BY <1>1, <1>11, SameMu
<1> QED BY <1>3, <1>6, <1>7, <1>8, <1>10, <1>11, <1>12, <1>13, <1>14, <1>15, <1>16,
           TouchStep

(* Release of a reference that is not the last one. *)
LEMMA ReleaseKeepStep ==
    ASSUME IInv, NEW e \in Handles, held[e] > 0, ~IsLast(e),
           held' = [held EXCEPT ![e] = @ - 1],
           handle' = [handle EXCEPT ![e].refs = @ - 1],
           UNCHANGED <<table, lru, usage, config, mu, freeing>>
    PROVE  IInv'
<1> DEFINE x == Less(handle[e])
<1>1. TypeOK /\ MuInv /\ EntryInv /\ FullMeansAllPinned
  BY DEF IInv
<1>3. Live(e)
  BY <1>1, LiveOnes
<1>4. handle[e].refs = held[e] /\ (In(lru, e) <=> handle[e].in_cache /\ handle[e].refs = 0)
  BY <1>1, <1>3, LiveFacts
<1>5. handle \in [Handles -> HandleType] /\ held \in [Handles -> Nat] /\ GoodList(lru)
  BY <1>1 DEF TypeOK, EntryInv
<1>6. /\ x \in HandleType /\ x.key = handle[e].key /\ x.in_cache = handle[e].in_cache
      /\ x.refs = handle[e].refs - 1
  BY <1>4, <1>5, LessLike DEF Like
<1>7. handle' = [handle EXCEPT ![e] = x]
  BY <1>5 DEF Less
<1> HIDE DEF x
<1>9. held[e] \in Nat /\ held[e] # 1
  BY <1>4, <1>5 DEF IsLast
<1>8. /\ held' \in [Handles -> Nat] /\ held'[e] = held[e] - 1
      /\ \A h \in Handles : h # e => held'[h] = held[h]
  BY <1>5, <1>9
<1>10. x.refs = held'[e] /\ x.refs > 0 /\ x.refs # 0 /\ handle[e].refs # 0
  BY <1>4, <1>6, <1>8, <1>9
<1>11. UNCHANGED <<table, lru, usage, capacity, mu, freeing>>
  BY DEF config
<1>12. FullMeansAllPinned'
  BY <1>1, <1>11 DEF FullMeansAllPinned
<1>14. In(lru', e) <=> x.in_cache /\ x.refs = 0
  BY <1>4, <1>10, <1>11
<1>15. GoodList(lru') /\ \A h \in Handles : In(lru', h) <=> In(lru, h)
  BY <1>5, <1>11
<1>16. /\ \A h \in Handles : InProgress(h)' <=> InProgress(h)
       /\ \A h \in Handles : InProgress(h) => mu'.pc = mu.pc
       /\ mu' \in [pc : PCs, t : Threads \cup {Nil}, e : Handles \cup {Nil}, flag : BOOLEAN]
       /\ MuInv'
  BY <1>1, <1>11, SameMu
<1> QED BY <1>3, <1>6, <1>7, <1>8, <1>10, <1>11, <1>12, <1>14, <1>15, <1>16, TouchStep

(* LRU_Insert, or SetPoolRatio, hands over to MaintainPoolSize or is done. *)
LEMMA AfterInsertFacts ==
    ASSUME NEW t \in Threads, NEW e, mu' = AfterInsert(t, e)
    PROVE  /\ mu' \in [pc : PCs, t : Threads \cup {Nil}, e : Handles \cup {Nil}, flag : BOOLEAN]
           /\ MuInv' /\ mu'.pc \in {"idle", "Maintain"}
           /\ \A h \in Handles : ~InProgress(h)'
BY NilAssumption DEF AfterInsert, Idle, PCs, MuInv, InProgress

(* Release of the last reference of a cached entry: it goes to the list. *)
LEMMA ReleaseListStep ==
    ASSUME IInv, NEW t \in Threads, mu = Idle,
           NEW e \in Handles, held[e] > 0, IsLast(e), handle[e].in_cache, usage <= capacity,
           held' = [held EXCEPT ![e] = @ - 1],
           handle' = [handle EXCEPT ![e].refs = @ - 1, ![e].pool = PoolFor(e)],
           lru' = LRU_Insert(lru, e), mu' = AfterInsert(t, e),
           UNCHANGED <<table, usage, config, freeing>>
    PROVE  IInv'
<1> DEFINE y == Less(handle[e])
           x == Moved(y, PoolFor(e))
<1>1. TypeOK /\ MuInv /\ EntryInv /\ FullMeansAllPinned
  BY DEF IInv
<1>3. Live(e)
  BY <1>1, LiveOnes
<1>4. handle[e].refs = held[e] /\ handle[e].refs = 1 /\ ~In(lru, e)
  BY <1>1, <1>3, LiveFacts DEF IsLast
<1>5. handle \in [Handles -> HandleType] /\ held \in [Handles -> Nat] /\ GoodList(lru)
  BY <1>1 DEF TypeOK, EntryInv
<1>6. /\ x \in HandleType /\ x.key = handle[e].key /\ x.in_cache = handle[e].in_cache
      /\ x.refs = 0
  <2>1. Like(y, handle[e], handle[e].refs - 1, handle[e].in_cache)
    BY <1>4, <1>5, LessLike
  <2>2. PoolFor(e) \in Pools
    BY DEF PoolFor, Pools
  <2>3. Like(x, y, y.refs, y.in_cache)
    BY <2>1, <2>2, MovedLike DEF Like
  <2> HIDE DEF x, y
  <2> QED BY <2>1, <2>3, <1>4 DEF Like
<1>7. handle' = [handle EXCEPT ![e] = x]
  BY <1>5 DEF Less, Moved
<1> HIDE DEF x
<1>8. /\ held' \in [Handles -> Nat] /\ held'[e] = 0
      /\ \A h \in Handles : h # e => held'[h] = held[h]
  BY <1>4, <1>5
<1>9. UNCHANGED <<usage, capacity>> /\ usage \in Int /\ capacity \in Nat
  BY <1>1 DEF config, TypeOK
<1>10. FullMeansAllPinned'
  BY <1>9 DEF FullMeansAllPinned
<1>11. /\ GoodList(lru')
       /\ \A h \in Handles : In(lru', h) <=> In(lru, h) \/ h = e
  BY <1>4, <1>5, InsertGood
<1>12. /\ \A h \in Handles : ~InProgress(h) /\ ~InProgress(h)'
       /\ mu' \in [pc : PCs, t : Threads \cup {Nil}, e : Handles \cup {Nil}, flag : BOOLEAN]
       /\ MuInv'
  BY IdleMutex, AfterInsertFacts
<1>13. x.refs = held'[e] /\ x.in_cache /\ (In(lru', e) <=> x.in_cache /\ x.refs = 0)
  BY <1>6, <1>8, <1>11
<1>14. \A h \in Handles : h # e => (In(lru', h) <=> In(lru, h))
  BY <1>11
<1> QED BY <1>3, <1>6, <1>7, <1>8, <1>10, <1>11, <1>12, <1>13, <1>14, TouchStep

(* Release of the last reference of an entry that is not kept. *)
LEMMA ReleaseDropStep ==
    ASSUME IInv, NEW t \in Threads,
           NEW e \in Handles, held[e] > 0, IsLast(e),
           held' = [held EXCEPT ![e] = @ - 1],
           handle' = [handle EXCEPT ![e].refs = @ - 1, ![e].in_cache = FALSE],
           table' = IF handle[e].in_cache THEN [table EXCEPT ![handle[e].key] = Nil] ELSE table,
           usage' = Uncharged(e), ToFree(t, e),
           UNCHANGED <<lru, mu, config>>
    PROVE  IInv'
<1> DEFINE y == Less(handle[e])
           x == Out(y)
<1>1. TypeOK /\ MuInv /\ EntryInv /\ FullMeansAllPinned
  BY DEF IInv
<1>2. Live(e)
  BY <1>1, LiveOnes
<1>3. /\ handle[e].refs = held[e] /\ handle[e].refs = 1 /\ ~In(lru, e)
      /\ handle[e].key \in Keys
      /\ handle[e].in_cache <=> table[handle[e].key] = e
      /\ \A k \in Keys : table[k] = e => k = handle[e].key
  BY <1>1, <1>2, LiveFacts DEF IsLast
<1>4. handle \in [Handles -> HandleType] /\ held \in [Handles -> Nat] /\ GoodList(lru)
  BY <1>1 DEF TypeOK, EntryInv
<1>5. x \in HandleType /\ x.key = handle[e].key /\ ~x.in_cache /\ x.refs = 0
  <2>1. Like(y, handle[e], handle[e].refs - 1, handle[e].in_cache)
    BY <1>3, <1>4, LessLike
  <2>2. Like(x, y, y.refs, FALSE)
    BY <2>1, OutLike DEF Like
  <2> HIDE DEF x, y
  <2> QED BY <2>1, <2>2, <1>3 DEF Like
<1>6. handle' = [handle EXCEPT ![e] = x]
  BY <1>4 DEF Less, Out
<1> HIDE DEF x
<1>7. /\ held' \in [Handles -> Nat] /\ held'[e] = 0
      /\ \A h \in Handles : h # e => held'[h] = held[h]
  BY <1>3, <1>4
<1>8. table \in [Keys -> Handles \cup {Nil}]
  BY <1>1 DEF TypeOK
<1>9. \A k \in Keys : table'[k] = IF table[k] = e THEN Nil ELSE table[k]
  <2>1. CASE handle[e].in_cache
    BY <2>1, <1>3, <1>8
  <2>2. CASE ~handle[e].in_cache
    BY <2>2, <1>3, <1>8
  <2> QED BY <2>1, <2>2
<1>10. GoodList(lru') /\ \A h \in Handles : In(lru', h) <=> In(lru, h) /\ h # e
  BY <1>3, <1>4
<1>11. EntryInv' /\ freeing' \in [Threads -> Seq(Handles)]
  <2>1. /\ \A h \in Handles : InProgress(h)' <=> InProgress(h)
        /\ \A h \in Handles : InProgress(h) => mu'.pc = mu.pc
    BY DEF InProgress
  <2> QED BY <1>1, <1>2, <1>5, <1>6, <1>7, <1>9, <1>10, <2>1, DoomStep
<1>12. usage \in Int /\ capacity \in Nat /\ handle[e].charge \in Nat
  BY <1>1, <1>4 DEF TypeOK, HandleType
<1>13. usage' \in Int /\ usage' <= usage
  BY <1>12 DEF Uncharged
<1>14. UNCHANGED <<lru, capacity, strict, high_ratio, low_ratio, mu>>
  BY DEF config
<1>15. FullMeansAllPinned'
  BY <1>1, <1>12, <1>13, <1>14 DEF FullMeansAllPinned
<1>16. TypeOK'
  <2>1. handle' \in [Handles -> HandleType]
    BY <1>4, <1>5, <1>6
  <2>2. table' \in [Keys -> Handles \cup {Nil}]
    BY <1>8
  <2>3. lru' \in LruType
    BY <1>10 DEF GoodList
  <2> QED BY SMTT(30), <1>1, <1>7, <1>11, <1>13, <1>14, <2>1, <2>2, <2>3 DEF TypeOK
<1>17. MuInv'
  BY <1>1, <1>14 DEF MuInv
<1> QED BY <1>11, <1>15, <1>16, <1>17 DEF IInv

LEMMA ReleaseStep ==
    ASSUME IInv, NEW t \in Threads, NEW e \in Handles, NEW erase \in BOOLEAN,
           Release(t, e, erase)
    PROVE  IInv'
<1>1. mu = Idle /\ held[e] > 0 /\ held' = [held EXCEPT ![e] = @ - 1] /\ UNCHANGED config
  BY DEF Release, MayCall
<1>2. CASE /\ ~IsLast(e)
           /\ handle' = [handle EXCEPT ![e].refs = @ - 1]
           /\ UNCHANGED <<table, lru, usage, mu, freeing>>
  BY <1>1, <1>2, ReleaseKeepStep
<1>3. CASE /\ IsLast(e) /\ handle[e].in_cache /\ ~(usage > capacity)
           /\ handle' = [handle EXCEPT ![e].refs = @ - 1, ![e].pool = PoolFor(e)]
           /\ lru' = LRU_Insert(lru, e)
           /\ mu' = AfterInsert(t, e)
           /\ UNCHANGED <<table, usage, freeing>>
  <2>1. usage <= capacity
    BY <1>3 DEF IInv, TypeOK
  <2> QED BY <1>1, <1>3, <2>1, ReleaseListStep
<1>4. CASE /\ IsLast(e)
           /\ handle' = [handle EXCEPT ![e].refs = @ - 1, ![e].in_cache = FALSE]
           /\ table' = IF handle[e].in_cache THEN [table EXCEPT ![handle[e].key] = Nil] ELSE table
           /\ usage' = Uncharged(e)
           /\ ToFree(t, e)
           /\ UNCHANGED <<lru, mu>>
  BY <1>1, <1>4, ReleaseDropStep
<1> QED BY <1>2, <1>3, <1>4 DEF Release

(* Erase of an entry that clients still reference. *)
LEMMA EraseHeldStep ==
    ASSUME TypeOK, EntryInv, NEW e \in Handles, Live(e), handle[e].in_cache,
           handle[e].refs # 0,
           handle' = [handle EXCEPT ![e] = Out(handle[e])],
           table' = [table EXCEPT ![handle[e].key] = Nil],
           \A h \in Handles : ~InProgress(h) /\ ~InProgress(h)',
           UNCHANGED <<lru, freeing, held>>
    PROVE  EntryInv'
<1>1. /\ handle[e].key \in Keys /\ table[handle[e].key] = e
      /\ handle[e].refs = held[e] /\ ~In(lru, e)
      /\ \A k \in Keys : table[k] = e => k = handle[e].key
  BY LiveFacts
<1>2. handle \in [Handles -> HandleType] /\ table \in [Keys -> Handles \cup {Nil}]
  BY DEF TypeOK
<1>3. Like(handle'[e], handle[e], handle[e].refs, FALSE)
  BY ZenonT(30), <1>2, OutLike
<1>4. \A h \in Handles : h # e => handle'[h] = handle[h]
  BY <1>2
<1>6. \A h \in Handles : h # e => Same(h)
  BY <1>4 DEF Same
<1>7. \A k \in Keys : table'[k] = IF table[k] = e THEN Nil ELSE table[k]
  BY SMTT(30), <1>1, <1>2
<1>8. HI(e)'
  <2>1. Allocated(e)' /\ ~InProgress(e)' /\ ~DoomedIn(freeing', e) /\ ~In(lru', e)
    BY <1>1, <1>3 DEF Allocated, Live, Like
  <2>2. /\ ~handle'[e].in_cache /\ handle'[e].refs = held'[e]
        /\ handle'[e].key = handle[e].key
    BY SMTT(30), <1>1, <1>3 DEF Like
  <2>3. table'[handle'[e].key] # e
    BY <1>1, <1>7, <2>2, NilAssumption
  <2>4. handle'[e].refs > 0
    <3>1. handle[e].refs \in Nat /\ handle'[e].refs = handle[e].refs
      BY <1>2, <1>3 DEF HandleType, Like
    <3> QED BY <3>1
  <2> QED BY SMTT(30), <2>1, <2>2, <2>3, <2>4 DEF HI
<1>9. \A k \in Keys : table[k] = e => TI(k)'
  BY <1>7 DEF TI
<1>10. GoodList(lru') /\ OnceIn(freeing')
  BY DEF EntryInv
<1> QED BY <1>6, <1>7, <1>8, <1>9, <1>10, OneEntry

(* Erase finds an entry and keeps the mutex. *)
LEMMA EraseCallStep ==
    ASSUME IInv, NEW t \in Threads, NEW k \in Keys, Erase(t, k)
    PROVE  IInv' /\ EraseInv'
<1>1. TypeOK /\ EntryInv /\ FullMeansAllPinned /\ mu = Idle
  BY DEF IInv, Erase, MayCall
<1>2. /\ table[k] # Nil /\ Enter("Erase", t, table[k], FALSE)
      /\ UNCHANGED <<handle, table, lru, usage, capacity, strict, high_ratio, low_ratio,
                     freeing, held>>
  BY DEF Erase, config
<1>3. mu.pc = "idle" /\ \A h \in Handles : ~InProgress(h)
  BY <1>1, IdleMutex
<1>4. /\ mu'.pc = "Erase" /\ mu'.t = t /\ mu'.e = table[k]
      /\ \A h \in Handles : ~InProgress(h)'
  BY <1>2 DEF Enter, InProgress
<1>5. table[k] \in Handles /\ Live(table[k]) /\ handle[table[k]].key = k
  <2>1. TI(k)
    BY <1>1 DEF EntryInv
  <2> QED BY <1>1, <1>2, <2>1, LiveOnes DEF TI
<1>6. TypeOK'
  <2>1. mu' \in [pc : PCs, t : Threads \cup {Nil}, e : Handles \cup {Nil}, flag : BOOLEAN]
    BY <1>2, <1>5 DEF Enter, PCs
  <2> QED BY ZenonT(30), <1>1, <1>2, <2>1 DEF TypeOK
<1>7. MuInv'
  BY <1>4, <1>5 DEF MuInv
<1>8. FullMeansAllPinned'
  BY <1>1, <1>2, <1>3 DEF FullMeansAllPinned
<1>9. EntryInv'
  BY SMTT(30), <1>1, <1>2, <1>3, <1>4, FrameEntries
<1>10. EraseInv'
  <2>1. Allocated(table[k])
    BY <1>5 DEF Live
  <2> QED BY <1>2, <1>4, <1>5, <2>1 DEF EraseInv, Allocated
<1> QED BY <1>6, <1>7, <1>8, <1>9, <1>10 DEF IInv

(* The rest of Erase. *)
LEMMA EraseEntryStep ==
    ASSUME IInv, EraseInv, EraseEntry
    PROVE  IInv'
<1> DEFINE e == mu.e
           k == handle[e].key
           t == mu.t
           x == Out(handle[e])
<1>1. TypeOK /\ MuInv /\ EntryInv /\ FullMeansAllPinned
  BY DEF IInv
<1>2. /\ table' = [table EXCEPT ![k] = Nil]
      /\ handle' = [handle EXCEPT ![e].in_cache = FALSE]
      /\ lru' = Unlist(e)
      /\ mu.pc = "Erase" /\ mu' = Idle
      /\ UNCHANGED <<config, held>>
  BY DEF EraseEntry
<1>3. IF handle[e].refs = 0 THEN usage' = Uncharged(e) /\ ToFree(t, e)
      ELSE UNCHANGED <<usage, freeing>>
  BY SMTT(30) DEF EraseEntry
<1>4. t \in Threads /\ e \in Handles /\ k \in Keys /\ Live(e)
  <2>1. t \in Threads /\ e \in Handles
    BY <1>1, <1>2 DEF MuInv
  <2>2. k \in Keys /\ table[k] = e
    BY <1>1, <1>2, <2>1 DEF EraseInv, Allocated, TypeOK, HandleType
  <2>3. table[k] # Nil
    BY <2>1, <2>2, NilAssumption
  <2> QED BY SMTT(30), <1>1, <2>1, <2>2, <2>3, LiveOnes
<1>5. handle[e].key = k
  OBVIOUS
<1>6. table[k] = e
  BY <1>2 DEF EraseInv
<1>0. \A h \in Handles : ~InProgress(h) /\ ~InProgress(h)'
  BY <1>2 DEF InProgress, Idle
<1> HIDE DEF e, k, t
<1>7. /\ handle[e].in_cache /\ handle[e].refs = held[e]
      /\ \A l \in Keys : table[l] = e => l = k
  BY <1>1, <1>4, <1>5, <1>6, LiveFacts
<1>8. handle \in [Handles -> HandleType] /\ table \in [Keys -> Handles \cup {Nil}]
  BY <1>1 DEF TypeOK
<1>9. /\ GoodList(lru')
      /\ \A h \in Handles : In(lru', h) <=> In(lru, h) /\ h # e
      /\ lru.list = <<>> => lru' = lru
  BY <1>1, <1>2, <1>4, <1>7, UnlistGood
<1>10. x \in HandleType /\ x.key = handle[e].key /\ x.refs = handle[e].refs /\ ~x.in_cache
  BY ZenonT(30), <1>4, <1>8, OutLike DEF Like
<1>11. handle' = [handle EXCEPT ![e] = x]
  BY <1>2, <1>4, <1>8 DEF Out
<1>12. UNCHANGED <<capacity, strict, high_ratio, low_ratio, held>>
  BY <1>2 DEF config
<1>13. /\ EntryInv' /\ freeing' \in [Threads -> Seq(Handles)]
       /\ usage' \in Int /\ usage' <= usage
  <2>1. CASE handle[e].refs = 0
    <3> HIDE DEF x
    <3>1. usage' = Uncharged(e) /\ ToFree(t, e)
      BY <2>1, <1>3
    <3>2. \A l \in Keys : table'[l] = IF table[l] = e THEN Nil ELSE table[l]
      BY SMTT(30), <1>2, <1>6, <1>7, <1>8
    <3>3. EntryInv' /\ freeing' \in [Threads -> Seq(Handles)]
      BY <1>0, <1>1, <1>4, <1>7, <1>9, <1>10, <1>11, <1>12, <2>1, <3>1, <3>2, DoomStep
    <3>4. usage \in Int /\ handle[e].charge \in Nat
      BY <1>1, <1>4, <1>8 DEF TypeOK, HandleType
    <3>5. usage' \in Int /\ usage' <= usage
      BY <3>1, <3>4 DEF Uncharged
    <3> QED BY <3>3, <3>5
  <2>2. CASE handle[e].refs # 0
    <3>1. UNCHANGED <<usage, freeing>>
      BY <2>2, <1>3
    <3>2. lru' = lru
      BY <1>2, <2>2 DEF Unlist
    <3>3. table' = [table EXCEPT ![handle[e].key] = Nil]
      BY <1>2, <1>5
    <3>4. EntryInv'
      BY <1>0, <1>1, <1>4, <1>7, <1>11, <1>12, <2>2, <3>1, <3>2, <3>3, EraseHeldStep
    <3>5. usage \in Int /\ freeing \in [Threads -> Seq(Handles)]
      BY <1>1 DEF TypeOK
    <3> QED BY <3>1, <3>4, <3>5
  <2> QED BY <2>1, <2>2
<1>14. FullMeansAllPinned'
  <2>1. usage \in Int /\ capacity \in Nat
    BY <1>1 DEF TypeOK
  <2> QED BY <1>1, <1>2, <1>9, <1>12, <1>13, <2>1 DEF FullMeansAllPinned
<1>15. TypeOK'
  <2> HIDE DEF x
  <2>1. handle' \in [Handles -> HandleType]
    BY <1>8, <1>10, <1>11
  <2>2. table' \in [Keys -> Handles \cup {Nil}]
    BY <1>2, <1>8
  <2>3. lru' \in LruType
    BY <1>9 DEF GoodList
  <2>4. mu' \in [pc : PCs, t : Threads \cup {Nil}, e : Handles \cup {Nil}, flag : BOOLEAN]
    BY <1>2 DEF Idle, PCs
  <2> QED BY ZenonT(30), <1>1, <1>12, <1>13, <2>1, <2>2, <2>3, <2>4 DEF TypeOK
<1>16. MuInv'
  BY <1>2 DEF MuInv, Idle
<1> QED BY <1>13, <1>14, <1>15, <1>16 DEF IInv

(* The entry after a pool pointer is on the list. *)
LEMMA NextListed ==
    ASSUME TypeOK, NEW ptr, NextOf(lru, ptr) # Nil
    PROVE  NextOf(lru, ptr) \in Handles /\ In(lru, NextOf(lru, ptr))
<1> DEFINE i == Place(lru, ptr) + 1
<1>1. NextOf(lru, ptr) = Node(lru, i)
  BY DEF NextOf
<1> HIDE DEF i
<1>2. lru.list \in Seq(Handles) /\ DOMAIN lru.list = 1 .. Len(lru.list)
  BY SMTT(30) DEF TypeOK, LruType
<1>3. i \in 1 .. Len(lru.list) /\ Node(lru, i) = lru.list[i]
  BY <1>1, <1>2 DEF Node
<1>4. lru.list[i] \in Handles
  BY <1>2, <1>3
<1> QED BY <1>1, <1>3, <1>4 DEF In

(* MaintainPoolSize moves a pool pointer to a listed entry. *)
LEMMA MaintainStep ==
    ASSUME IInv, NEW e \in Handles, In(lru, e), NEW p \in Pools,
           handle' = [handle EXCEPT ![e].pool = p],
           lru' \in LruType, lru'.list = lru.list,
           Points(lru', lru'.low), Points(lru', lru'.bottom),
           UNCHANGED <<table, usage, config, mu, freeing, held>>
    PROVE  IInv'
<1> DEFINE x == Moved(handle[e], p)
<1>1. TypeOK /\ MuInv /\ EntryInv /\ FullMeansAllPinned
  BY DEF IInv
<1>2. Live(e)
  BY <1>1, LiveOnes
<1>3. /\ handle[e].refs = held[e] /\ (handle[e].in_cache \/ handle[e].refs > 0)
      /\ In(lru, e) <=> handle[e].in_cache /\ handle[e].refs = 0
  BY <1>1, <1>2, LiveFacts
<1>4. handle \in [Handles -> HandleType] /\ held \in [Handles -> Nat] /\ GoodList(lru)
  BY <1>1 DEF TypeOK, EntryInv
<1>5. /\ x \in HandleType /\ x.key = handle[e].key /\ x.in_cache = handle[e].in_cache
      /\ x.refs = handle[e].refs
  BY <1>4, MovedLike DEF Like
<1>6. handle' = [handle EXCEPT ![e] = x]
  BY <1>4 DEF Moved
<1> HIDE DEF x
<1>7. \A h \in Handles : In(lru', h) <=> In(lru, h)
  BY DEF In
<1>8. GoodList(lru')
  BY <1>4 DEF GoodList, Distinct
<1>9. UNCHANGED <<usage, capacity, mu, held>>
  BY DEF config
<1>10. FullMeansAllPinned'
  BY <1>1, <1>9 DEF FullMeansAllPinned
<1>11. /\ \A h \in Handles : InProgress(h)' <=> InProgress(h)
       /\ \A h \in Handles : InProgress(h) => mu'.pc = mu.pc
       /\ mu' \in [pc : PCs, t : Threads \cup {Nil}, e : Handles \cup {Nil}, flag : BOOLEAN]
       /\ MuInv'
  BY <1>1, <1>9, SameMu
<1>12. held' \in [Handles -> Nat] /\ x.refs = held'[e] /\ (x.in_cache \/ x.refs > 0)
       /\ \A h \in Handles : h # e => held'[h] = held[h]
  BY <1>3, <1>4, <1>5, <1>9
<1>13. In(lru', e) <=> x.in_cache /\ x.refs = 0
  BY <1>3, <1>5, <1>7
<1> QED BY <1>2, <1>5, <1>6, <1>7, <1>8, <1>10, <1>11, <1>12, <1>13, TouchStep

LEMMA MaintainHighStep ==
    ASSUME IInv, MaintainHigh
    PROVE  IInv'
<1> DEFINE e == NextOf(lru, lru.low)
<1>1. TypeOK /\ lru \in LruType /\ GoodList(lru)
  BY DEF IInv, TypeOK, EntryInv
<1>2. /\ e # Nil
      /\ handle' = [handle EXCEPT ![e].pool = "Low"]
      /\ lru' = [lru EXCEPT !.low = e,
                            !.high_usage = @ - handle[e].charge,
                            !.low_usage = @ + handle[e].charge]
      /\ UNCHANGED <<table, usage, config, mu, freeing, held>>
  BY DEF MaintainHigh
<1>3. e \in Handles /\ In(lru, e)
  BY <1>1, <1>2, NextListed
<1> HIDE DEF e
<1>4. handle[e].charge \in Int
  BY <1>1, <1>3 DEF TypeOK, HandleType
<1>5. lru'.list = lru.list /\ lru'.low = e /\ lru'.bottom = lru.bottom
  BY <1>1, <1>2 DEF LruType
<1>6. lru' \in LruType
  <2> DEFINE a == lru.high_usage - handle[e].charge
             b == lru.low_usage + handle[e].charge
  <2>1. a \in Int /\ b \in Int
    BY <1>1, <1>4 DEF LruType
  <2>2. lru' = [lru EXCEPT !.low = e, !.high_usage = a, !.low_usage = b]
    BY <1>2
  <2> HIDE DEF a, b
  <2> QED BY <1>1, <1>3, <2>1, <2>2 DEF LruType
<1>7. Points(lru', lru'.low) /\ Points(lru', lru'.bottom)
  BY <1>1, <1>3, <1>5 DEF Points, In, GoodList
<1> QED BY <1>2, <1>3, <1>5, <1>6, <1>7, MaintainStep DEF Pools

LEMMA MaintainLowStep ==
    ASSUME IInv, MaintainLow
    PROVE  IInv'
<1> DEFINE e == NextOf(lru, lru.bottom)
<1>1. TypeOK /\ lru \in LruType /\ GoodList(lru)
  BY DEF IInv, TypeOK, EntryInv
<1>2. /\ e # Nil
      /\ handle' = [handle EXCEPT ![e].pool = "Bottom"]
      /\ lru' = [lru EXCEPT !.bottom = e, !.low_usage = @ - handle[e].charge]
      /\ UNCHANGED <<table, usage, config, mu, freeing, held>>
  BY DEF MaintainLow
<1>3. e \in Handles /\ In(lru, e)
  BY <1>1, <1>2, NextListed
<1> HIDE DEF e
<1>4. handle[e].charge \in Int
  BY <1>1, <1>3 DEF TypeOK, HandleType
<1>5. lru'.list = lru.list /\ lru'.low = lru.low /\ lru'.bottom = e
  BY <1>1, <1>2 DEF LruType
<1>6. lru' \in LruType
  <2> DEFINE b == lru.low_usage - handle[e].charge
  <2>1. b \in Int
    BY <1>1, <1>4 DEF LruType
  <2>2. lru' = [lru EXCEPT !.bottom = e, !.low_usage = b]
    BY <1>2
  <2> HIDE DEF b
  <2> QED BY <1>1, <1>3, <2>1, <2>2 DEF LruType
<1>7. Points(lru', lru'.low) /\ Points(lru', lru'.bottom)
  BY <1>1, <1>3, <1>5 DEF Points, In, GoodList
<1> QED BY <1>2, <1>3, <1>5, <1>6, <1>7, MaintainStep DEF Pools
=============================================================================
