------------------------ MODULE LRUCacheShard_proofs ------------------------
(***************************************************************************)
(* Type correctness of the shard, the states of its handles, the lifetime  *)
(* of referenced entries, the emptiness of a full cache's LRU list and the *)
(* strict capacity limit, for any number of threads, keys and entries. The *)
(* sums in Accounting and the termination of the loops are model-checked   *)
(* only.                                                                   *)
(***************************************************************************)
EXTENDS LRUCacheShardInserts

(* The inductive invariant of the shard. *)
IndInv == IInv /\ EraseInv

(* A step from one critical section without an entry to another. *)
LEMMA MoveOnStep ==
    ASSUME IInv, mu.e = Nil, mu'.e = Nil,
           mu'.pc \notin {"Insert", "CreateStandalone", "Erase"},
           mu' \in [pc : PCs, t : Threads \cup {Nil}, e : Handles \cup {Nil}, flag : BOOLEAN],
           mu'.pc # "idle" => mu'.t \in Threads,
           capacity' \in Nat, strict' \in BOOLEAN, high_ratio' \in Nat, low_ratio' \in Nat,
           FullMeansAllPinned',
           UNCHANGED <<handle, table, lru, usage, freeing, held>>
    PROVE  IInv'
<1>1. TypeOK /\ EntryInv
  BY DEF IInv
<1>2. \A h \in Handles : ~InProgress(h) /\ ~InProgress(h)'
  BY NilAssumption DEF InProgress
<1>3. EntryInv'
  BY <1>1, <1>2, FrameEntries
<1>4. TypeOK'
  BY <1>1 DEF TypeOK
<1>5. MuInv'
  BY DEF MuInv
<1> QED BY <1>3, <1>4, <1>5 DEF IInv

(* The calls that only set a parameter, and the ends of the loops. *)
LEMMA MoveOnSteps ==
    ASSUME IInv
    PROVE  /\ EvictDone => IInv'
           /\ MaintainDone => IInv'
           /\ \A t \in Threads :
                /\ EraseUnRefEntries(t) => IInv'
                /\ \A c \in Capacities : SetCapacity(t, c) => IInv'
                /\ \A s \in Stricts : SetStrictCapacityLimit(t, s) => IInv'
                /\ \A r \in HighRatios : SetHighPriorityPoolRatio(t, r) => IInv'
                /\ \A r \in LowRatios : SetLowPriorityPoolRatio(t, r) => IInv'
<1>1. TypeOK /\ MuInv /\ FullMeansAllPinned
  BY DEF IInv
<1>2. capacity \in Nat /\ strict \in BOOLEAN /\ high_ratio \in Nat /\ low_ratio \in Nat
      /\ usage \in Int
  BY <1>1 DEF TypeOK
<1>3. ASSUME mu' = Idle
      PROVE  /\ mu'.e = Nil /\ mu'.pc = "idle"
             /\ mu' \in [pc : PCs, t : Threads \cup {Nil}, e : Handles \cup {Nil}, flag : BOOLEAN]
  BY <1>3 DEF Idle, PCs
<1>4. ASSUME NEW pc \in {"SetCapacity", "EraseUnRefEntries", "Maintain"}, NEW t \in Threads,
             Enter(pc, t, Nil, FALSE)
      PROVE  /\ mu'.e = Nil /\ mu'.pc = pc /\ mu'.t \in Threads
             /\ mu' \in [pc : PCs, t : Threads \cup {Nil}, e : Handles \cup {Nil}, flag : BOOLEAN]
  BY <1>4 DEF Enter, PCs
<1>5. mu = Idle => mu.e = Nil /\ mu.pc = "idle"
  BY DEF Idle
<1>6. EvictDone => IInv'
  <2> SUFFICES ASSUME EvictDone PROVE IInv'
    OBVIOUS
  <2>1. /\ mu.pc \in {"SetCapacity", "EraseUnRefEntries"} /\ ~MustEvict /\ mu' = Idle
        /\ UNCHANGED <<handle, table, lru, usage, capacity, strict, high_ratio, low_ratio,
                       freeing, held>>
    BY DEF EvictDone, config
  <2>2. mu.e = Nil
    BY <1>1, <2>1 DEF MuInv
  <2>3. FullMeansAllPinned'
    <3>1. Over <=> usage > capacity
      BY <1>2, <2>2 DEF Over, Wanted
    <3> QED BY <1>1, <2>1, <3>1 DEF FullMeansAllPinned, MustEvict
  <2> QED BY SMTT(30), <1>2, <1>3, <2>1, <2>2, <2>3, MoveOnStep
<1>7. MaintainDone => IInv'
  <2> SUFFICES ASSUME MaintainDone PROVE IInv'
    OBVIOUS
  <2>1. /\ mu.pc = "Maintain" /\ mu' = Idle
        /\ UNCHANGED <<handle, table, lru, usage, capacity, strict, high_ratio, low_ratio,
                       freeing, held>>
    BY DEF MaintainDone, config
  <2>2. mu.e = Nil
    BY <1>1, <2>1 DEF MuInv
  <2>3. FullMeansAllPinned'
    BY <1>1, <2>1 DEF FullMeansAllPinned
  <2> QED BY SMTT(30), <1>2, <1>3, <2>1, <2>2, <2>3, MoveOnStep
<1>8. ASSUME NEW t \in Threads, EraseUnRefEntries(t) PROVE IInv'
  <2>1. /\ mu = Idle /\ Enter("EraseUnRefEntries", t, Nil, FALSE)
        /\ UNCHANGED <<handle, table, lru, usage, capacity, strict, high_ratio, low_ratio,
                       freeing, held>>
    BY <1>8 DEF EraseUnRefEntries, MayCall, config
  <2>2. FullMeansAllPinned'
    BY <1>1, <1>5, <2>1 DEF FullMeansAllPinned
  <2> QED BY <1>2, <1>4, <1>5, <2>1, <2>2, MoveOnStep
<1>9. ASSUME NEW t \in Threads, NEW c \in Capacities, SetCapacity(t, c) PROVE IInv'
  <2>1. /\ mu = Idle /\ capacity' = c /\ Enter("SetCapacity", t, Nil, FALSE)
        /\ UNCHANGED <<handle, table, lru, usage, strict, high_ratio, low_ratio, freeing, held>>
    BY <1>9 DEF SetCapacity, MayCall
  <2>2. FullMeansAllPinned'
    BY <1>4, <2>1 DEF FullMeansAllPinned
  <2>3. capacity' \in Nat
    BY <2>1, CapacitiesAssumption
  <2> QED BY <1>2, <1>4, <1>5, <2>1, <2>2, <2>3, MoveOnStep
<1>10. ASSUME NEW t \in Threads, NEW s \in Stricts, SetStrictCapacityLimit(t, s) PROVE IInv'
  <2>1. /\ mu = Idle /\ mu' = Idle /\ strict' = s
        /\ UNCHANGED <<handle, table, lru, usage, capacity, high_ratio, low_ratio, freeing, held>>
    BY <1>10 DEF SetStrictCapacityLimit, MayCall
  <2>2. FullMeansAllPinned'
    BY <1>1, <2>1 DEF FullMeansAllPinned
  <2>3. strict' \in BOOLEAN
    BY <2>1, StrictsAssumption
  <2> QED BY <1>2, <1>3, <1>5, <2>1, <2>2, <2>3, MoveOnStep
<1>11. ASSUME NEW t \in Threads, NEW r \in HighRatios, SetHighPriorityPoolRatio(t, r) PROVE IInv'
  <2>1. /\ mu = Idle /\ high_ratio' = r /\ Enter("Maintain", t, Nil, FALSE)
        /\ UNCHANGED <<handle, table, lru, usage, capacity, strict, low_ratio, freeing, held>>
    BY ZenonT(30), <1>11 DEF SetHighPriorityPoolRatio, MayCall
  <2>2. FullMeansAllPinned'
    BY <1>1, <1>5, <2>1 DEF FullMeansAllPinned
  <2>3. high_ratio' \in Nat
    BY <2>1, RatiosAssumption
  <2> QED BY <1>2, <1>4, <1>5, <2>1, <2>2, <2>3, MoveOnStep
<1>12. ASSUME NEW t \in Threads, NEW r \in LowRatios, SetLowPriorityPoolRatio(t, r) PROVE IInv'
  <2>1. /\ mu = Idle /\ low_ratio' = r /\ Enter("Maintain", t, Nil, FALSE)
        /\ UNCHANGED <<handle, table, lru, usage, capacity, strict, high_ratio, freeing, held>>
    BY ZenonT(30), <1>12 DEF SetLowPriorityPoolRatio, MayCall
  <2>2. FullMeansAllPinned'
    BY <1>1, <1>5, <2>1 DEF FullMeansAllPinned
  <2>3. low_ratio' \in Nat
    BY <2>1, RatiosAssumption
  <2> QED BY <1>2, <1>4, <1>5, <2>1, <2>2, <2>3, MoveOnStep
<1> QED BY SMTT(30), <1>6, <1>7, <1>8, <1>9, <1>10, <1>11, <1>12

-----------------------------------------------------------------------------

LEMMA InsertStep ==
    ASSUME IInv, NEW t \in Threads, NEW k \in Keys, NEW c \in Charges, NEW p \in Priorities[k],
           NEW want \in BOOLEAN, Insert(t, k, c, p, want)
    PROVE  IInv'
<1>1. PICK e \in Handles : /\ ~Allocated(e)
                           /\ handle' = [handle EXCEPT ![e] = CreateHandle(k, c, p)]
                           /\ Enter("Insert", t, e, want)
  BY DEF Insert
<1>2. MayCall(t) /\ UNCHANGED <<table, lru, usage, config, freeing, held>>
  BY DEF Insert
<1> DEFINE x == CreateHandle(k, c, p)
<1>3. x \in HandleType /\ x.key # Nil /\ x.in_cache /\ x.refs = 0
  <2>1. p \in {"HIGH", "LOW", "BOTTOM"} /\ c \in Nat /\ k # Nil
    BY ChargesAssumption, PrioritiesAssumption, NilAssumption
  <2> QED BY <2>1 DEF CreateHandle, HandleType, Pools
<1> HIDE DEF x
<1> QED BY <1>1, <1>2, <1>3, CreateStep DEF x

LEMMA CreateStandaloneStep ==
    ASSUME IInv, NEW t \in Threads, NEW k \in Keys, NEW c \in Standalones,
           NEW u \in BOOLEAN, CreateStandalone(t, k, c, u)
    PROVE  IInv'
<1> DEFINE x == [CreateHandle(k, c, "BOTTOM") EXCEPT !.in_cache = FALSE, !.refs = 1]
<1>1. PICK e \in Handles : /\ ~Allocated(e)
                           /\ handle' = [handle EXCEPT ![e] = x]
                           /\ Enter("CreateStandalone", t, e, u)
  BY DEF CreateStandalone
<1>2. MayCall(t) /\ UNCHANGED <<table, lru, usage, config, freeing, held>>
  BY DEF CreateStandalone
<1>3. x \in HandleType /\ x.key # Nil /\ ~x.in_cache /\ x.refs = 1
  BY ChargesAssumption, NilAssumption DEF CreateHandle, HandleType, Pools
<1> HIDE DEF x
<1> QED BY <1>1, <1>2, <1>3, CreateStep

LEMMA Initially ==
    Init => IndInv
<1> SUFFICES ASSUME Init PROVE IInv /\ EraseInv
  BY DEF IndInv
<1> USE DEF Init
<1>1. TypeOK
  <2>1. handle \in [Handles -> HandleType]
    BY BlankFacts
  <2>2. lru \in LruType
    BY DEF LruType
  <2>3. mu \in [pc : PCs, t : Threads \cup {Nil}, e : Handles \cup {Nil}, flag : BOOLEAN]
    BY DEF Idle, PCs
  <2>4. /\ table \in [Keys -> Handles \cup {Nil}] /\ usage \in Int
        /\ capacity \in Nat /\ strict \in BOOLEAN /\ high_ratio \in Nat /\ low_ratio \in Nat
    BY SMTT(30), CapacitiesAssumption, StrictsAssumption, RatiosAssumption
  <2>5. freeing \in [Threads -> Seq(Handles)] /\ held \in [Handles -> Nat]
    OBVIOUS
  <2> QED BY ZenonT(30), <2>1, <2>2, <2>3, <2>4, <2>5 DEF TypeOK
<1>2. MuInv
  BY DEF MuInv, Idle
<1>3. lru.list = <<>> /\ Len(lru.list) = 0
  OBVIOUS
<1>4. GoodList(lru)
  <2>1. lru.low = Nil /\ lru.bottom = Nil
    OBVIOUS
  <2> QED BY SMTT(30), <1>1, <1>3, <2>1 DEF GoodList, Distinct, Points, TypeOK
<1>5. \A t \in Threads : Len(freeing[t]) = 0
  OBVIOUS
<1>6. OnceIn(freeing) /\ \A h : ~DoomedIn(freeing, h)
  BY SMTT(30), <1>5 DEF OnceIn, DoomedIn
<1>7. \A h \in Handles : HI(h)
  <2> SUFFICES ASSUME NEW h \in Handles PROVE HI(h)
    OBVIOUS
  <2>1. ~Allocated(h) /\ ~(held[h] > 0)
    BY BlankFacts DEF Allocated
  <2>2. ~In(lru, h) /\ ~InProgress(h)
    BY SMTT(30), <1>3 DEF In, InProgress, Idle
  <2> QED BY SMTT(30), <1>6, <2>1, <2>2 DEF HI
<1>8. \A k \in Keys : TI(k)
  BY DEF TI
<1>9. FullMeansAllPinned
  BY <1>3 DEF FullMeansAllPinned
<1>10. EraseInv
  BY DEF EraseInv, Idle
<1> QED BY <1>1, <1>2, <1>4, <1>6, <1>7, <1>8, <1>9, <1>10 DEF IInv, EntryInv

(* The entry of a running Erase stays in the table until the call removes  *)
(* it: nobody else is in the mutex, and the entries that other threads     *)
(* free meanwhile left the table before.                                   *)
LEMMA EraseInvariance ==
    ASSUME IInv, EraseInv, [Next]_vars
    PROVE  EraseInv'
<1>1. TypeOK /\ MuInv /\ EntryInv
  BY DEF IInv
<1>2. ASSUME mu'.pc # "Erase" PROVE EraseInv'
  BY <1>2 DEF EraseInv
<1>3. CASE InMutex
  <2>1. mu'.pc # "Erase"
    <3>1. EvictFromLRU \/ MaintainHigh \/ MaintainLow => mu' = mu /\ mu.pc # "Erase"
      BY DEF EvictFromLRU, MustEvict, MaintainHigh, MaintainLow
    <3>2. EvictDone \/ InsertItemRefused \/ StandaloneDone \/ MaintainDone \/ EraseEntry
          => mu' = Idle
      BY SMTT(30) DEF EvictDone, InsertItemRefused, StandaloneDone, MaintainDone, EraseEntry
    <3>3. InsertItem => mu' = Idle \/ mu' = AfterInsert(mu.t, mu.e)
      BY DEF InsertItem
    <3>4. Idle.pc # "Erase" /\ AfterInsert(mu.t, mu.e).pc # "Erase"
      BY DEF Idle, AfterInsert
    <3> QED BY ZenonT(30), <1>3, <3>1, <3>2, <3>3, <3>4 DEF InMutex
  <2> QED BY <1>2, <2>1
<1>4. ASSUME NEW t \in Threads, Call(t) PROVE EraseInv'
  <2>1. CASE \E k \in Keys : Erase(t, k)
    BY <2>1, EraseCallStep
  <2>2. CASE ~ \E k \in Keys : Erase(t, k)
    <3>1. (mu' = mu /\ mu = Idle) \/ mu'.pc \in PCs \ {"Erase"}
      <4>0. \A pc, e, flag : Enter(pc, t, e, flag) => mu'.pc = pc
        BY DEF Enter
      <4>1. /\ \A k \in Keys, c \in Charges, want \in BOOLEAN : \A p \in Priorities[k] :
                  Insert(t, k, c, p, want) => mu'.pc = "Insert"
            /\ \A k \in Keys, c \in Standalones, u \in BOOLEAN :
                  CreateStandalone(t, k, c, u) => mu'.pc = "CreateStandalone"
        BY ZenonT(30), <4>0 DEF Insert, CreateStandalone
      <4>2. /\ \A k \in Keys : Lookup(t, k) => mu' = mu /\ mu = Idle
            /\ \A e \in Handles : Ref(t, e) => mu' = mu /\ mu = Idle
            /\ \A s \in Stricts : SetStrictCapacityLimit(t, s) => mu' = mu /\ mu = Idle
        BY DEF Lookup, Ref, SetStrictCapacityLimit, MayCall
      <4>3. /\ \A c \in Capacities : SetCapacity(t, c) => mu'.pc = "SetCapacity"
            /\ \A r \in HighRatios : SetHighPriorityPoolRatio(t, r) => mu'.pc = "Maintain"
            /\ \A r \in LowRatios : SetLowPriorityPoolRatio(t, r) => mu'.pc = "Maintain"
            /\ EraseUnRefEntries(t) => mu'.pc = "EraseUnRefEntries"
        BY ZenonT(30), <4>0 DEF SetCapacity, SetHighPriorityPoolRatio,
               SetLowPriorityPoolRatio, EraseUnRefEntries
      <4>4. \A e \in Handles, erase \in BOOLEAN : Release(t, e, erase) =>
              (mu' = mu /\ mu = Idle) \/ mu'.pc \in {"idle", "Maintain"}
        BY DEF Release, MayCall, AfterInsert, Idle
      <4> QED BY ZenonT(60), <1>4, <2>2, <4>1, <4>2, <4>3, <4>4 DEF Call, PCs
    <3> QED BY <1>2, <3>1 DEF Idle
  <2> QED BY <2>1, <2>2
<1>5. ASSUME NEW t \in Threads, NotifyEvicted(t) PROVE EraseInv'
  <2> SUFFICES ASSUME mu'.pc = "Erase" PROVE Allocated(mu.e)' /\ (table[handle[mu.e].key] = mu.e)'
    BY DEF EraseInv
  <2>1. /\ UNCHANGED <<mu, table>> /\ freeing[t] # <<>>
        /\ handle' = [handle EXCEPT ![Head(freeing[t])] = Blank]
    BY <1>5 DEF NotifyEvicted
  <2>2. mu.e \in Handles /\ Allocated(mu.e) /\ table[handle[mu.e].key] = mu.e
    BY <1>1, <2>1 DEF MuInv, EraseInv
  <2>3. ~DoomedIn(freeing, mu.e)
    <3>1. handle[mu.e].key \in Keys
      BY <1>1, <2>2 DEF Allocated, TypeOK, HandleType
    <3>2. mu.e # Nil
      BY <2>2, NilAssumption
    <3> QED BY <1>1, <2>2, <3>1, <3>2, LiveOnes DEF Live
  <2>4. Head(freeing[t]) # mu.e
    <3>1. freeing[t] \in Seq(Handles)
      BY <1>1 DEF TypeOK
    <3>2. Head(freeing[t]) = freeing[t][1] /\ 1 \in 1 .. Len(freeing[t])
      BY <2>1, <3>1
    <3> QED BY <2>3, <3>2 DEF DoomedIn
  <2>5. handle'[mu.e] = handle[mu.e]
    BY SMTT(30), <1>1, <2>1, <2>2, <2>4 DEF TypeOK
  <2> QED BY <2>1, <2>2, <2>5 DEF Allocated
<1>6. CASE UNCHANGED vars
  BY <1>6 DEF vars, EraseInv, Allocated
<1> QED BY <1>3, <1>4, <1>5, <1>6 DEF Next

(* Every step keeps the inductive invariant. *)
LEMMA Invariance ==
    IndInv /\ [Next]_vars => IndInv'
<1> SUFFICES ASSUME IInv, EraseInv, [Next]_vars PROVE IInv'
  BY EraseInvariance DEF IndInv
<1>1. CASE InMutex
  <2>1. EvictFromLRU => IInv'
    BY EvictStep
  <2>2. EvictDone \/ MaintainDone => IInv'
    BY MoveOnSteps
  <2>3. InsertItemRefused \/ InsertItem => IInv'
    BY InsertItemRefusedStep, InsertItemStep
  <2>4. StandaloneDone => IInv'
    BY StandaloneDoneStep
  <2>5. MaintainHigh \/ MaintainLow => IInv'
    BY MaintainHighStep, MaintainLowStep
  <2>6. EraseEntry => IInv'
    BY EraseEntryStep
  <2> QED BY ZenonT(30), <1>1, <2>1, <2>2, <2>3, <2>4, <2>5, <2>6 DEF InMutex
<1>2. ASSUME NEW t \in Threads, Call(t) PROVE IInv'
  <2>1. \A k \in Keys, c \in Charges, want \in BOOLEAN : \A p \in Priorities[k] :
           Insert(t, k, c, p, want) => IInv'
    BY InsertStep
  <2>2. \A k \in Keys, c \in Standalones, u \in BOOLEAN : CreateStandalone(t, k, c, u) => IInv'
    BY CreateStandaloneStep
  <2>3. \A k \in Keys : Lookup(t, k) \/ Erase(t, k) => IInv'
    BY LookupStep, EraseCallStep
  <2>4. \A e \in Handles : Ref(t, e) => IInv'
    BY RefStep
  <2>5. \A e \in Handles, erase \in BOOLEAN : Release(t, e, erase) => IInv'
    BY ReleaseStep
  <2>6. /\ \A c \in Capacities : SetCapacity(t, c) => IInv'
        /\ \A s \in Stricts : SetStrictCapacityLimit(t, s) => IInv'
    BY MoveOnSteps
  <2>7. /\ \A r \in HighRatios : SetHighPriorityPoolRatio(t, r) => IInv'
        /\ \A r \in LowRatios : SetLowPriorityPoolRatio(t, r) => IInv'
    BY MoveOnSteps
  <2>8. EraseUnRefEntries(t) => IInv'
    BY MoveOnSteps
  <2> QED BY ZenonT(60), <1>2, <2>1, <2>2, <2>3, <2>4, <2>5, <2>6, <2>7, <2>8 DEF Call
<1>3. ASSUME NEW t \in Threads, NotifyEvicted(t) PROVE IInv'
  BY <1>3, NotifyEvictedStep
<1>4. CASE UNCHANGED vars
  <2>1. UNCHANGED <<handle, table, lru, usage, capacity, strict, high_ratio, low_ratio, mu,
                    freeing, held>>
    BY SMTT(30), <1>4 DEF vars
  <2>2. TypeOK' /\ MuInv' /\ FullMeansAllPinned'
    BY <2>1 DEF IInv, TypeOK, MuInv, FullMeansAllPinned
  <2>3. EntryInv'
    <3>1. \A h \in Handles : InProgress(h)' <=> InProgress(h)
      BY <2>1 DEF InProgress
    <3> QED BY SMTT(30), <2>1, <3>1, FrameEntries DEF IInv
  <2> QED BY <2>2, <2>3 DEF IInv
<1> QED BY <1>1, <1>2, <1>3, <1>4 DEF Next

(* The inductive invariant in the terms of the properties. *)
LEMMA Listing ==
    ASSUME TypeOK
    PROVE  /\ \A h : Listed(h) <=> In(lru, h)
           /\ \A h : Doomed(h) <=> DoomedIn(freeing, h)
<1>1. DOMAIN lru.list = 1 .. Len(lru.list)
  BY DEF TypeOK, LruType
<1>2. \A t \in Threads : DOMAIN freeing[t] = 1 .. Len(freeing[t])
  BY DEF TypeOK
<1> QED BY <1>1, <1>2, Zenon DEF Listed, In, Doomed, DoomedIn

LEMMA ImpliesStates ==
    IInv => HandleStates
<1> SUFFICES ASSUME IInv PROVE HandleStates
  OBVIOUS
<1>1. TypeOK /\ EntryInv
  BY DEF IInv
<1>2. \A h : Alive(h) <=> Live(h)
  BY SMTT(30), <1>1, Listing DEF Alive, Live
<1>3. \A h \in Handles : Alive(h) =>
         /\ handle[h].in_cache <=> table[handle[h].key] = h
         /\ Listed(h) <=> handle[h].in_cache /\ handle[h].refs = 0
         /\ handle[h].in_cache \/ handle[h].refs > 0
  BY SMTT(30), <1>1, <1>2, LiveFacts, Listing
<1>4. \A i, j \in DOMAIN lru.list : lru.list[i] = lru.list[j] => i = j
  <2>1. DOMAIN lru.list = 1 .. Len(lru.list)
    BY SMTT(30), <1>1 DEF TypeOK, LruType
  <2> QED BY <1>1, <2>1, Zenon DEF EntryInv, GoodList, Distinct
<1>5. \A h \in Handles : Listed(h) => Alive(h)
  BY SMTT(30), <1>1, <1>2, LiveOnes, Listing
<1>6. \A k \in Keys : table[k] # Nil => Alive(table[k]) /\ handle[table[k]].key = k
  <2>1. \A k \in Keys : TI(k)
    BY <1>1 DEF EntryInv
  <2> QED BY <1>1, <1>2, <2>1, LiveOnes DEF TI
<1> QED BY <1>3, <1>4, <1>5, <1>6, Zenon DEF HandleStates

LEMMA ImpliesHeld ==
    IInv => HeldEntriesLive
<1> SUFFICES ASSUME IInv PROVE HeldEntriesLive
  OBVIOUS
<1>1. TypeOK /\ EntryInv
  BY DEF IInv
<1>2. \A h : Alive(h) <=> Live(h)
  BY SMTT(30), <1>1, Listing DEF Alive, Live
<1>3. \A h \in Handles : Alive(h) => handle[h].refs = held[h]
  BY SMTT(30), <1>1, <1>2, LiveFacts
<1>4. \A h \in Handles : held[h] > 0 => Alive(h)
  BY SMTT(30), <1>1, <1>2, LiveOnes
<1>5. \A h \in Handles :
        Doomed(h) => Allocated(h) /\ handle[h].refs = 0 /\ ~handle[h].in_cache
  BY <1>1, Listing DEF EntryInv, HI
<1>6. \A t, u \in Threads : \A i \in DOMAIN freeing[t], j \in DOMAIN freeing[u] :
        freeing[t][i] = freeing[u][j] => t = u /\ i = j
  <2>1. \A t \in Threads : DOMAIN freeing[t] = 1 .. Len(freeing[t])
    BY <1>1 DEF TypeOK
  <2> SUFFICES ASSUME NEW t \in Threads, NEW u \in Threads, NEW i \in DOMAIN freeing[t],
                      NEW j \in DOMAIN freeing[u], freeing[t][i] = freeing[u][j]
               PROVE  t = u /\ i = j
    OBVIOUS
  <2>2. i \in 1 .. Len(freeing[t]) /\ j \in 1 .. Len(freeing[u])
    BY <2>1
  <2> QED BY <1>1, <2>2 DEF EntryInv, OnceIn
<1> QED BY ZenonT(30), <1>3, <1>4, <1>5, <1>6 DEF HeldEntriesLive

(* The state of the shard always has its shape. *)
THEOREM Typing == Spec => []TypeOK
<1>1. IndInv => TypeOK
  BY SMTT(30) DEF IInv, IndInv
<1> QED BY Initially, Invariance, <1>1, PTL DEF Spec

(* LRUHandle's three states: cached and referenced, cached on the LRU list *)
(* and unreferenced, or out of the cache and referenced.                   *)
THEOREM HandlesHaveTheirStates == Spec => []HandleStates
<1>1. IndInv => HandleStates
  BY SMTT(30), ImpliesStates DEF IndInv
<1> QED BY Initially, Invariance, <1>1, PTL DEF Spec

(* No entry is freed, or handed over to be freed, while a client holds a   *)
(* reference, and none is freed twice.                                     *)
THEOREM HeldEntriesAreLive == Spec => []HeldEntriesLive
<1>1. IndInv => HeldEntriesLive
  BY ImpliesHeld DEF IndInv
<1> QED BY Initially, Invariance, <1>1, PTL DEF Spec

(* Release's assertion: a cache above its capacity has an empty LRU list. *)
THEOREM FullCacheIsPinned == Spec => []FullMeansAllPinned
<1>1. IndInv => FullMeansAllPinned
  BY DEF IInv, IndInv
<1> QED BY Initially, Invariance, <1>1, PTL DEF Spec

LEMMA StrictStep ==
    ASSUME IInv, [Next]_vars, strict, usage' > usage
    PROVE  usage' <= capacity
<1>1. TypeOK /\ MuInv /\ EntryInv
  BY DEF IInv
<1>2. usage \in Int /\ capacity \in Nat /\ \A h \in Handles : handle[h].charge \in Nat
  BY SMTT(30), <1>1 DEF TypeOK, HandleType
<1>3. ASSUME UNCHANGED usage PROVE FALSE
  BY <1>2, <1>3
<1>4. ASSUME NEW e \in Handles, usage' = Uncharged(e) PROVE FALSE
  BY <1>2, <1>4 DEF Uncharged
<1>5. ASSUME mu.pc \in {"Insert", "CreateStandalone"}
      PROVE  mu.e \in Handles /\ (Over <=> usage + handle[mu.e].charge > capacity)
  <2>1. mu.e \in Handles
    BY <1>1, <1>5 DEF MuInv
  <2>2. mu.e # Nil
    BY <2>1, NilAssumption
  <2> QED BY <2>1, <2>2 DEF Over, Wanted
<1>6. CASE EvictFromLRU
  <2>1. Head(lru.list) \in Handles
    BY <1>1, <1>6, HeadListed DEF EvictFromLRU, MustEvict
  <2> QED BY SMTT(30), <1>4, <1>6, <2>1 DEF EvictFromLRU
<1>7. CASE InsertItem
  <2> DEFINE c == handle[mu.e].charge
             old == table[handle[mu.e].key]
             d == IF old # Nil /\ handle[old].refs = 0 THEN handle[old].charge ELSE 0
  <2>1. mu.pc = "Insert" /\ ~InsertIsRefused /\ usage' = usage + c - d
    BY ZenonT(30), <1>7 DEF InsertItem
  <2>2. mu.e \in Handles /\ ~(usage + c > capacity)
    BY <1>5, <2>1 DEF InsertIsRefused
  <2>3. handle[mu.e].key \in Keys
    <3>1. InProgress(mu.e)
      BY <2>1 DEF InProgress
    <3>2. Allocated(mu.e)
      BY SMTT(30), <1>1, <2>2, <3>1, InProgressFacts
    <3> QED BY SMTT(30), <1>1, <2>2, <3>2 DEF Allocated, TypeOK, HandleType
  <2>4. old # Nil => old \in Handles
    BY SMTT(30), <1>1, <2>3 DEF TypeOK
  <2>5. c \in Nat /\ d \in Nat
    BY SMTT(30), <1>2, <2>2, <2>4
  <2> HIDE DEF c, d
  <2> QED BY SMTT(30), <1>2, <2>1, <2>2, <2>5
<1>8. CASE StandaloneDone
  <2>1. mu.pc = "CreateStandalone"
    BY <1>8 DEF StandaloneDone
  <2>2. ~Over /\ usage' = usage + handle[mu.e].charge
    BY SMTT(30), <1>3, <1>8 DEF StandaloneDone
  <2>3. ~(usage + handle[mu.e].charge > capacity) /\ handle[mu.e].charge \in Nat
    BY SMTT(30), <1>2, <1>5, <2>1, <2>2
  <2> QED BY <1>2, <2>2, <2>3
<1>15. CASE EraseEntry
  <2>1. mu.e \in Handles
    BY <1>1, <1>15 DEF EraseEntry, MuInv
  <2>2. usage' = Uncharged(mu.e) \/ UNCHANGED usage
    BY <1>15 DEF EraseEntry
  <2> QED BY SMTT(30), <1>3, <1>4, <2>1, <2>2
<1>9. CASE InMutex
  <2>1. EvictDone \/ InsertItemRefused \/ MaintainHigh \/ MaintainLow \/ MaintainDone
        => UNCHANGED usage
    BY DEF EvictDone, InsertItemRefused, MaintainHigh, MaintainLow, MaintainDone
  <2> QED BY SMTT(30), <1>3, <1>6, <1>7, <1>8, <1>9, <1>15, <2>1 DEF InMutex
<1>10. ASSUME NEW t \in Threads, NEW e \in Handles, NEW erase \in BOOLEAN,
              Release(t, e, erase)
       PROVE  FALSE
  BY SMTT(30), <1>3, <1>4, <1>10 DEF Release
<1>12. ASSUME NEW t \in Threads, Call(t) PROVE FALSE
  <2>1. \A k \in Keys, c \in Charges, want \in BOOLEAN : \A p \in Priorities[k] :
          Insert(t, k, c, p, want) => UNCHANGED usage
    BY DEF Insert
  <2>2. \A k \in Keys, c \in Standalones, u \in BOOLEAN :
          CreateStandalone(t, k, c, u) => UNCHANGED usage
    BY DEF CreateStandalone
  <2>3. \A k \in Keys : Lookup(t, k) \/ Erase(t, k) => UNCHANGED usage
    BY DEF Lookup, Erase
  <2>4. \A e \in Handles : Ref(t, e) => UNCHANGED usage
    BY DEF Ref
  <2>5. /\ \A c \in Capacities : SetCapacity(t, c) => UNCHANGED usage
        /\ \A s \in Stricts : SetStrictCapacityLimit(t, s) => UNCHANGED usage
        /\ \A r \in HighRatios : SetHighPriorityPoolRatio(t, r) => UNCHANGED usage
        /\ \A r \in LowRatios : SetLowPriorityPoolRatio(t, r) => UNCHANGED usage
        /\ EraseUnRefEntries(t) => UNCHANGED usage
    BY DEF SetCapacity, SetStrictCapacityLimit, SetHighPriorityPoolRatio,
           SetLowPriorityPoolRatio, EraseUnRefEntries
  <2> QED BY SMTT(30), <1>3, <1>10, <1>12, <2>1, <2>2, <2>3, <2>4, <2>5 DEF Call
<1>13. ASSUME NEW t \in Threads, NotifyEvicted(t) PROVE FALSE
  BY <1>3, <1>13 DEF NotifyEvicted
<1>14. CASE UNCHANGED vars
  BY <1>3, <1>14 DEF vars
<1> QED BY SMTT(30), <1>9, <1>12, <1>13, <1>14 DEF Next

(* Under strict_capacity_limit_ no insertion, of a cached or of a          *)
(* standalone entry, takes usage_ past capacity_.                          *)
THEOREM StrictLimitIsKept == Spec => StrictLimit
<1>1. IndInv /\ [Next]_vars => [strict /\ usage' > usage => usage' <= capacity]_vars
  <2> SUFFICES ASSUME IInv, [Next]_vars, strict, usage' > usage
               PROVE  usage' <= capacity
    BY DEF IndInv
  <2> QED BY StrictStep
<1> QED BY Initially, Invariance, <1>1, PTL DEF Spec, StrictLimit
=============================================================================
