------------------------ MODULE LRUCacheShardInserts ------------------------
(***************************************************************************)
(* The inductive invariant is kept by the steps that allocate, insert,     *)
(* refuse and free entries: InsertItem, CreateStandalone and the frees     *)
(* outside the mutex.                                                      *)
(***************************************************************************)
EXTENDS LRUCacheShardSteps

(* A handle that is not allocated. *)
LEMMA BlankFacts ==
    Blank \in HandleType /\ Blank.key = Nil
BY DEF Blank, HandleType, Pools

LEMMA NotifyEvictedStep ==
    ASSUME IInv, NEW t \in Threads, NotifyEvicted(t)
    PROVE  IInv'
<1> DEFINE first == Head(freeing[t])
<1>1. TypeOK /\ MuInv /\ EntryInv /\ FullMeansAllPinned
  BY DEF IInv
<1>2. /\ freeing[t] # <<>>
      /\ handle' = [handle EXCEPT ![first] = Blank]
      /\ UNCHANGED <<table, lru, usage, config, mu, held>>
  BY DEF NotifyEvicted
<1>3. freeing' = Minus(freeing, t)
  BY DEF NotifyEvicted, Minus
<1>40. /\ freeing' \in [Threads -> Seq(Handles)] /\ OnceIn(freeing')
       /\ first \in Handles /\ DoomedIn(freeing, first)
       /\ \A h \in Handles : DoomedIn(freeing', h) <=> DoomedIn(freeing, h) /\ h # first
  <2>1. freeing \in [Threads -> Seq(Handles)] /\ OnceIn(freeing)
    BY <1>1 DEF TypeOK, EntryInv
  <2> QED BY <2>1, <1>2, <1>3, TailDoomed
<1> HIDE DEF first
<1>41. PICK e \in Handles : e = first
  BY <1>40
<1>4. /\ DoomedIn(freeing, e)
      /\ \A h \in Handles : DoomedIn(freeing', h) <=> DoomedIn(freeing, h) /\ h # e
  BY <1>40, <1>41
<1>5. handle \in [Handles -> HandleType]
  BY <1>1 DEF TypeOK
<1>6. handle'[e] = Blank /\ \A h \in Handles : h # e => handle'[h] = handle[h]
  BY <1>2, <1>5, <1>41
<1>7. UNCHANGED <<table, lru, usage, capacity, strict, high_ratio, low_ratio, mu, held>>
  BY <1>2 DEF config
<1>8. \A h : InProgress(h)' <=> InProgress(h)
  BY <1>7 DEF InProgress
<1>9. \A h \in Handles : h # e => Same(h)
  BY <1>4, <1>6, <1>7, <1>8 DEF Same
<1>10. ~In(lru, e) /\ ~InProgress(e) /\ ~(held[e] > 0) /\ \A k \in Keys : table[k] # e
  <2>1. HI(e)
    BY <1>1, <1>4 DEF EntryInv
  <2>2. \A k \in Keys : TI(k)
    BY <1>1 DEF EntryInv
  <2>3. e # Nil
    BY <1>4, NilAssumption
  <2>4. \A k \in Keys : table[k] # e
    BY <2>2, <2>3, <1>4 DEF TI
  <2> QED BY <2>1, <2>4, <1>4 DEF HI
<1>11. HI(e)'
  <2>1. ~Allocated(e)'
    BY <1>6, BlankFacts DEF Allocated
  <2>2. ~In(lru', e) /\ ~InProgress(e)' /\ ~(held'[e] > 0) /\ ~DoomedIn(freeing', e)
    BY SMTT(30), <1>4, <1>7, <1>8, <1>10
  <2> QED BY <2>1, <2>2 DEF HI
<1>12. EntryInv'
  <2>1. GoodList(lru')
    BY <1>1, <1>7 DEF EntryInv
  <2>2. \A k \in Keys : table'[k] = table[k]
    BY <1>7
  <2> QED BY <1>1, <1>40, <1>9, <1>10, <1>11, <2>1, <2>2, OneEntry
<1>13. TypeOK'
  <2>1. handle' \in [Handles -> HandleType]
    BY SMTT(30), <1>2, <1>5, <1>40, BlankFacts
  <2> QED BY <1>1, <1>40, <1>7, <2>1 DEF TypeOK
<1>14. MuInv' /\ FullMeansAllPinned'
  BY SMTT(30), <1>1, <1>7 DEF MuInv, FullMeansAllPinned
<1> QED BY <1>12, <1>13, <1>14 DEF IInv

(* The entry of the running call is not in the cache yet. *)
LEMMA InProgressFacts ==
    ASSUME TypeOK, EntryInv, NEW e \in Handles, InProgress(e)
    PROVE  /\ ~DoomedIn(freeing, e) /\ ~In(lru, e) /\ held[e] = 0 /\ Allocated(e)
           /\ \A k \in Keys : table[k] # e
           /\ mu.pc = "Insert" => handle[e].in_cache /\ handle[e].refs = 0
           /\ mu.pc = "CreateStandalone" => ~handle[e].in_cache /\ handle[e].refs = 1
           /\ \A h \in Handles : InProgress(h) => h = e
<1>1. HI(e) /\ held[e] \in Nat /\ e # Nil
  BY NilAssumption DEF EntryInv, TypeOK
<1>2. \A k \in Keys : TI(k)
  BY DEF EntryInv
<1>3. \A k \in Keys : table[k] # e
  BY <1>1, <1>2 DEF TI
<1>4. \A h \in Handles : InProgress(h) => h = e
  BY DEF InProgress
<1> QED BY <1>1, <1>3, <1>4 DEF HI

(* A call gives up its entry and returns: nobody else has seen it. *)
LEMMA GiveUpStep ==
    ASSUME IInv, NEW e \in Handles, InProgress(e),
           handle' = [handle EXCEPT ![e] = Blank], mu' = Idle,
           mu.pc # "SetCapacity",
           UNCHANGED <<table, lru, usage, config, freeing, held>>
    PROVE  IInv'
<1>1. TypeOK /\ EntryInv /\ FullMeansAllPinned
  BY DEF IInv
<1>2. /\ ~DoomedIn(freeing, e) /\ ~In(lru, e) /\ held[e] = 0
      /\ \A k \in Keys : table[k] # e
      /\ \A h \in Handles : InProgress(h) => h = e
  BY <1>1, InProgressFacts
<1>3. UNCHANGED <<table, lru, usage, capacity, strict, high_ratio, low_ratio, freeing, held>>
  BY DEF config
<1>4. handle'[e] = Blank /\ \A h \in Handles : h # e => handle'[h] = handle[h]
  BY <1>1 DEF TypeOK
<1>5. mu'.pc = "idle" /\ mu'.e = Nil /\ \A h : ~InProgress(h)'
  BY DEF Idle, InProgress
<1>6. \A h \in Handles : h # e => Same(h)
  BY ZenonT(30), <1>2, <1>3, <1>4, <1>5 DEF Same
<1>7. HI(e)'
  <2>1. ~Allocated(e)'
    BY SMTT(30), <1>4, BlankFacts DEF Allocated
  <2>2. ~In(lru', e) /\ ~InProgress(e)' /\ ~(held'[e] > 0) /\ ~DoomedIn(freeing', e)
    BY <1>2, <1>3, <1>5
  <2> QED BY <2>1, <2>2 DEF HI
<1>8. EntryInv'
  <2>1. GoodList(lru') /\ OnceIn(freeing')
    BY <1>1, <1>3 DEF EntryInv
  <2>2. \A k \in Keys : table'[k] = table[k]
    BY <1>3
  <2> QED BY SMTT(30), <1>1, <1>2, <1>6, <1>7, <2>1, <2>2, OneEntry
<1>9. TypeOK'
  <2>1. handle' \in [Handles -> HandleType]
    BY <1>1, BlankFacts DEF TypeOK
  <2>2. mu' \in [pc : PCs, t : Threads \cup {Nil}, e : Handles \cup {Nil}, flag : BOOLEAN]
    BY DEF Idle, PCs
  <2> QED BY SMTT(30), <1>1, <1>3, <2>1, <2>2 DEF TypeOK
<1>10. MuInv'
  BY <1>5 DEF MuInv
<1>11. FullMeansAllPinned'
  BY <1>1, <1>3 DEF FullMeansAllPinned
<1> QED BY <1>8, <1>9, <1>10, <1>11 DEF IInv

LEMMA InsertItemRefusedStep ==
    ASSUME IInv, InsertItemRefused
    PROVE  IInv'
<1>1. TypeOK /\ MuInv /\ EntryInv /\ FullMeansAllPinned
  BY DEF IInv
<1>2. mu.pc = "Insert" /\ mu' = Idle /\ UNCHANGED <<table, lru, usage, config, held>>
  BY DEF InsertItemRefused
<1>3. PICK e \in Handles : e = mu.e
  BY <1>1, <1>2 DEF MuInv
<1>4. InProgress(e) /\ mu.t \in Threads
  BY <1>1, <1>2, <1>3 DEF InProgress, MuInv
<1>5. CASE mu.flag
  <2>1. handle' = [handle EXCEPT ![e] = Blank] /\ UNCHANGED freeing
    BY <1>3, <1>5 DEF InsertItemRefused
  <2> QED BY <1>2, <1>4, <2>1, GiveUpStep
<1>6. CASE ~mu.flag
  <2> DEFINE x == Out(handle[e])
  <2>1. handle' = [handle EXCEPT ![e] = x] /\ freeing' = Plus(freeing, mu.t, e)
    BY <1>3, <1>6 DEF InsertItemRefused, ToFree, Out, Plus
  <2>2. /\ ~DoomedIn(freeing, e) /\ ~In(lru, e) /\ held[e] = 0 /\ Allocated(e)
        /\ handle[e].refs = 0
        /\ \A k \in Keys : table[k] # e
        /\ \A h \in Handles : InProgress(h) => h = e
    BY <1>1, <1>2, <1>4, InProgressFacts
  <2>3. UNCHANGED <<table, lru, usage, capacity, strict, high_ratio, low_ratio, held>>
    BY SMTT(30), <1>2 DEF config
  <2>4. /\ freeing' \in [Threads -> Seq(Handles)] /\ OnceIn(freeing')
        /\ \A h \in Handles : DoomedIn(freeing', h) <=> DoomedIn(freeing, h) \/ h = e
    <3>1. freeing \in [Threads -> Seq(Handles)] /\ OnceIn(freeing)
      BY <1>1 DEF TypeOK, EntryInv
    <3> QED BY SMTT(30), <3>1, <1>4, <2>1, <2>2, AppendDoomed
  <2>5. handle \in [Handles -> HandleType]
    BY <1>1 DEF TypeOK
  <2>6. x \in HandleType /\ x.key = handle[e].key /\ x.refs = handle[e].refs /\ ~x.in_cache
    BY ZenonT(30), <2>5, OutLike DEF Like
  <2> HIDE DEF x
  <2>7. handle'[e] = x /\ \A h \in Handles : h # e => handle'[h] = handle[h]
    BY <2>1, <2>5
  <2>8. mu'.pc = "idle" /\ mu'.e = Nil /\ \A h : ~InProgress(h)'
    BY <1>2 DEF Idle, InProgress
  <2>9. \A h \in Handles : h # e => Same(h)
    BY SMTT(30), <2>2, <2>3, <2>4, <2>7, <2>8 DEF Same
  <2>10. HI(e)'
    <3>1. Allocated(e)' /\ handle'[e].refs = 0 /\ ~handle'[e].in_cache
      BY SMTT(30), <2>2, <2>6, <2>7 DEF Allocated
    <3>2. ~In(lru', e) /\ ~InProgress(e)' /\ ~(held'[e] > 0) /\ DoomedIn(freeing', e)
      BY SMTT(30), <2>2, <2>3, <2>4, <2>8
    <3> QED BY SMTT(30), <3>1, <3>2 DEF HI
  <2>11. EntryInv'
    <3>1. GoodList(lru')
      BY <1>1, <2>3 DEF EntryInv
    <3>2. \A k \in Keys : table'[k] = table[k]
      BY <2>3
    <3> QED BY SMTT(30), <1>1, <2>2, <2>4, <2>9, <2>10, <3>1, <3>2, OneEntry
  <2>12. TypeOK'
    <3>1. handle' \in [Handles -> HandleType]
      BY <2>1, <2>5, <2>6
    <3>2. mu' \in [pc : PCs, t : Threads \cup {Nil}, e : Handles \cup {Nil}, flag : BOOLEAN]
      BY <1>2 DEF Idle, PCs
    <3> QED BY <1>1, <2>3, <2>4, <3>1, <3>2 DEF TypeOK
  <2>13. MuInv' /\ FullMeansAllPinned'
    BY <1>1, <1>2, <2>3, <2>8 DEF MuInv, FullMeansAllPinned
  <2> QED BY <2>11, <2>12, <2>13 DEF IInv
<1> QED BY <1>5, <1>6

(* CreateStandalone hands its entry, charged or not, to the caller. *)
LEMMA StandaloneGivenStep ==
    ASSUME IInv, NEW e \in Handles, InProgress(e), mu.pc = "CreateStandalone",
           NEW x \in HandleType, handle' = [handle EXCEPT ![e] = x],
           Like(x, handle[e], handle[e].refs, handle[e].in_cache),
           held' = [held EXCEPT ![e] = @ + 1], mu' = Idle, usage' \in Int,
           usage' > capacity => usage' = usage \/ lru.list = <<>>,
           UNCHANGED <<table, lru, config, freeing>>
    PROVE  IInv'
<1>1. TypeOK /\ EntryInv /\ FullMeansAllPinned
  BY SMTT(30) DEF IInv
<1>2. /\ ~DoomedIn(freeing, e) /\ ~In(lru, e) /\ held[e] = 0 /\ Allocated(e)
      /\ ~handle[e].in_cache /\ handle[e].refs = 1
      /\ \A k \in Keys : table[k] # e
      /\ \A h \in Handles : InProgress(h) => h = e
  BY SMTT(30), <1>1, InProgressFacts
<1>3. UNCHANGED <<table, lru, capacity, strict, high_ratio, low_ratio, freeing>>
  BY DEF config
<1>4. handle \in [Handles -> HandleType] /\ held \in [Handles -> Nat]
  BY ZenonT(30), <1>1 DEF TypeOK
<1>5. handle'[e] = x /\ \A h \in Handles : h # e => handle'[h] = handle[h]
  BY ZenonT(30), <1>4
<1>6. /\ held' \in [Handles -> Nat] /\ held'[e] = 1
      /\ \A h \in Handles : h # e => held'[h] = held[h]
  BY <1>2, <1>4
<1>7. mu'.pc = "idle" /\ mu'.e = Nil /\ \A h : ~InProgress(h)'
  BY DEF Idle, InProgress
<1>8. \A h \in Handles : h # e => Same(h)
  BY <1>2, <1>3, <1>5, <1>6, <1>7 DEF Same
<1>9. HI(e)'
  <2>1. handle[e].key \in Keys
    BY ZenonT(30), <1>2, <1>4 DEF Allocated, HandleType
  <2>2. /\ handle'[e].key = handle[e].key /\ handle'[e].refs = 1
        /\ ~handle'[e].in_cache
    BY ZenonT(30), <1>2, <1>5 DEF Like
  <2>3. Allocated(e)' /\ table'[handle'[e].key] # e
    BY ZenonT(30), <1>2, <1>3, <2>1, <2>2 DEF Allocated
  <2>4. ~In(lru', e) /\ ~InProgress(e)' /\ ~DoomedIn(freeing', e)
    BY ZenonT(30), <1>2, <1>3, <1>7
  <2>5. handle'[e].refs = held'[e] /\ handle'[e].refs > 0
    BY SMTT(30), <1>6, <2>2
  <2> QED BY ZenonT(30), <2>2, <2>3, <2>4, <2>5 DEF HI
<1>10. EntryInv'
  <2>1. GoodList(lru') /\ OnceIn(freeing')
    BY ZenonT(30), <1>1, <1>3 DEF EntryInv
  <2>2. \A k \in Keys : table'[k] = table[k]
    BY ZenonT(30), <1>3
  <2> QED BY SMTT(30), <1>1, <1>2, <1>8, <1>9, <2>1, <2>2, OneEntry
<1>11. TypeOK'
  <2>1. handle' \in [Handles -> HandleType]
    BY <1>4
  <2>2. mu' \in [pc : PCs, t : Threads \cup {Nil}, e : Handles \cup {Nil}, flag : BOOLEAN]
    BY ZenonT(30) DEF Idle, PCs
  <2> QED BY SMTT(30), <1>1, <1>3, <1>6, <2>1, <2>2 DEF TypeOK
<1>12. MuInv'
  BY ZenonT(30), <1>7 DEF MuInv
<1>13. FullMeansAllPinned'
  BY <1>1, <1>3 DEF FullMeansAllPinned
<1> QED BY <1>10, <1>11, <1>12, <1>13 DEF IInv

(* Clearing the charge of a handle. *)
LEMMA FreeLike ==
    ASSUME NEW y \in HandleType
    PROVE  Like([y EXCEPT !.charge = 0], y, y.refs, y.in_cache)
BY DEF Like, HandleType

LEMMA StandaloneDoneStep ==
    ASSUME IInv, StandaloneDone
    PROVE  IInv'
<1>1. TypeOK /\ MuInv /\ EntryInv /\ FullMeansAllPinned
  BY DEF IInv
<1>2. /\ mu.pc = "CreateStandalone" /\ ~MustEvict /\ mu' = Idle
      /\ UNCHANGED <<table, lru, config, freeing>>
  BY DEF StandaloneDone
<1>3. PICK e \in Handles : e = mu.e
  BY <1>1, <1>2 DEF MuInv
<1>4. InProgress(e)
  BY <1>2, <1>3 DEF InProgress
<1>5. handle \in [Handles -> HandleType] /\ usage \in Int /\ capacity \in Nat
  BY <1>1 DEF TypeOK
<1>6. CASE /\ handle' = [handle EXCEPT ![e].charge = 0]
           /\ held' = [held EXCEPT ![e] = @ + 1]
           /\ UNCHANGED usage
  <2> DEFINE x == [handle[e] EXCEPT !.charge = 0]
  <2>1. handle[e] \in HandleType
    BY <1>5
  <2>2. Like(x, handle[e], handle[e].refs, handle[e].in_cache)
    BY <2>1, FreeLike
  <2>3. handle' = [handle EXCEPT ![e] = x]
    BY <1>5, <1>6
  <2>4. x \in HandleType
    BY <2>2 DEF Like
  <2> HIDE DEF x
  <2>5. usage' \in Int
    BY <1>5, <1>6
  <2> QED BY <1>2, <1>4, <1>6, <2>2, <2>3, <2>4, <2>5, StandaloneGivenStep
<1>7. CASE /\ handle' = [handle EXCEPT ![e] = Blank]
           /\ UNCHANGED <<usage, held>>
  BY <1>2, <1>4, <1>7, GiveUpStep
<1>8. CASE /\ usage' = usage + handle[e].charge
           /\ held' = [held EXCEPT ![e] = @ + 1]
           /\ UNCHANGED handle
  <2>1. handle[e] \in HandleType /\ handle[e].charge \in Nat
    BY <1>5 DEF HandleType
  <2>2. Like(handle[e], handle[e], handle[e].refs, handle[e].in_cache)
    BY <2>1 DEF Like
  <2>3. handle' = [handle EXCEPT ![e] = handle[e]]
    BY <1>5, <1>8
  <2>4. usage' \in Int
    BY <1>5, <1>8, <2>1
  <2>5. usage' > capacity => lru.list = <<>>
    <3>1. e # Nil
      BY NilAssumption
    <3>2. Over <=> usage' > capacity
      BY SMTT(30), <1>3, <1>8, <3>1 DEF Over, Wanted
    <3> QED BY <1>2, <3>2 DEF MustEvict
  <2> QED BY <1>2, <1>4, <1>8, <2>1, <2>2, <2>3, <2>4, <2>5, StandaloneGivenStep
<1> QED BY <1>3, <1>6, <1>7, <1>8 DEF StandaloneDone

(* What InsertItem does to the entries: e is the new one, old the one it   *)
(* replaces, if any, and drop says that old is not referenced.             *)
Replaced(e, old, K, flag, drop) ==
    /\ handle[e].key = K /\ old = table[K]
    /\ drop <=> old # Nil /\ handle[old].refs = 0
    /\ Like(handle'[e], handle[e], IF flag THEN 1 ELSE 0, TRUE)
    /\ old # Nil => Like(handle'[old], handle[old], handle[old].refs, FALSE)
    /\ \A h \in Handles : h # e /\ h # old => handle'[h] = handle[h]
    /\ held'[e] = IF flag THEN 1 ELSE 0
    /\ \A h \in Handles : h # e => held'[h] = held[h]
    /\ table' = [table EXCEPT ![K] = e]
    /\ \A h \in Handles : DoomedIn(freeing', h) <=> DoomedIn(freeing, h) \/ (drop /\ h = old)
    /\ \A h \in Handles :
         In(lru', h) <=> (In(lru, h) /\ ~(drop /\ h = old)) \/ (~flag /\ h = e)
    /\ \A h \in Handles : ~InProgress(h)'
    /\ GoodList(lru') /\ OnceIn(freeing')

(* InsertItem keeps what holds of the entries. *)
LEMMA InsertItemEntries ==
    ASSUME TypeOK, EntryInv, NEW e \in Handles, InProgress(e), mu.pc = "Insert",
           NEW old \in Handles \cup {Nil}, NEW K \in Keys, NEW flag \in BOOLEAN,
           NEW drop \in BOOLEAN, Replaced(e, old, K, flag, drop)
    PROVE  EntryInv'
<1> USE DEF Replaced
<1>1. /\ ~DoomedIn(freeing, e) /\ ~In(lru, e) /\ held[e] = 0 /\ Allocated(e)
      /\ \A k \in Keys : table[k] # e
      /\ \A h \in Handles : InProgress(h) => h = e
  BY SMTT(30), InProgressFacts
<1>2. \A k \in Keys : table'[k] = IF k = K THEN e ELSE table[k]
  BY DEF TypeOK
<1>3. old # e /\ e # Nil
  BY SMTT(30), <1>1, NilAssumption
<1>4. HI(e)'
  <2>1. /\ handle'[e].key = K /\ handle'[e].in_cache
        /\ handle'[e].refs = (IF flag THEN 1 ELSE 0)
    BY DEF Like
  <2>2. Allocated(e)' /\ table'[handle'[e].key] = e
    BY SMTT(30), <1>1, <1>2, <2>1 DEF Allocated
  <2>3. ~DoomedIn(freeing', e) /\ ~InProgress(e)' /\ (In(lru', e) <=> ~flag)
    BY SMTT(30), <1>1, <1>3
  <2>4. handle'[e].refs = held'[e] /\ (handle'[e].refs = 0 <=> ~flag)
    BY <2>1
  <2> QED BY SMTT(30), <2>1, <2>2, <2>3, <2>4 DEF HI
<1>5. ASSUME old # Nil PROVE HI(old)'
  <2>0. old \in Handles
    BY <1>5
  <2>1. Live(old)
    BY SMTT(30), <1>5, LiveOnes
  <2>2. /\ handle[old].key = K
        /\ In(lru, old) <=> handle[old].in_cache /\ handle[old].refs = 0
        /\ handle[old].refs = held[old] /\ handle[old].in_cache
    BY SMTT(30), <2>0, <2>1, LiveFacts
  <2>3. /\ handle'[old].key = K /\ ~handle'[old].in_cache
        /\ handle'[old].refs = handle[old].refs /\ held'[old] = held[old]
    BY SMTT(30), <1>3, <1>5, <2>0, <2>2 DEF Like
  <2>4. Allocated(old)' /\ ~InProgress(old)' /\ table'[handle'[old].key] # old
    BY SMTT(30), <1>2, <1>3, <2>0, <2>1, <2>2, <2>3 DEF Allocated, Live
  <2>5. handle[old].refs \in Nat
    BY SMTT(30), <2>0 DEF TypeOK, HandleType
  <2>6. CASE drop
    <3>1. DoomedIn(freeing', old) /\ ~In(lru', old) /\ handle'[old].refs = 0
      BY SMTT(30), <1>3, <2>0, <2>3, <2>6
    <3>2. ~(held'[old] > 0)
      BY SMTT(30), <2>2, <2>3, <2>6
    <3> QED BY SMTT(30), <2>3, <2>4, <3>1, <3>2 DEF HI
  <2>7. CASE ~drop
    <3>1. ~DoomedIn(freeing', old) /\ ~In(lru', old) /\ handle[old].refs # 0
      BY SMTT(30), <1>3, <1>5, <2>0, <2>1, <2>2, <2>7 DEF Live
    <3>2. handle'[old].refs > 0 /\ handle'[old].refs = held'[old]
      BY SMTT(30), <2>2, <2>3, <2>5, <3>1
    <3> QED BY SMTT(30), <2>3, <2>4, <3>1, <3>2 DEF HI
  <2> QED BY <2>6, <2>7
<1>6. \A h \in Handles : HI(h)'
  <2> SUFFICES ASSUME NEW h \in Handles, h # e, h # old PROVE HI(h)'
    BY SMTT(30), <1>4, <1>5, NilAssumption
  <2>1. HI(h)
    BY DEF EntryInv
  <2>2. Allocated(h) => (table'[handle[h].key] = h <=> table[handle[h].key] = h)
    <3>1. Allocated(h) => handle[h].key \in Keys
      BY DEF Allocated, TypeOK, HandleType
    <3> QED BY SMTT(30), <3>1, <1>2
  <2>3. ~InProgress(h) /\ ~InProgress(h)'
    BY <1>1
  <2>4. handle'[h] = handle[h] /\ held'[h] = held[h]
    OBVIOUS
  <2>5. (In(lru', h) <=> In(lru, h)) /\ (DoomedIn(freeing', h) <=> DoomedIn(freeing, h))
    OBVIOUS
  <2> QED BY SMTT(30), <2>1, <2>2, <2>3, <2>4, <2>5, FrameHandle
<1>7. \A k \in Keys : TI(k)'
  <2>1. TI(K)'
    <3>1. table'[K] = e
      BY SMTT(30), <1>2
    <3>2. handle'[e].key = K /\ handle'[e].key # Nil
      BY <1>1 DEF Like, Allocated
    <3>3. ~DoomedIn(freeing', e) /\ ~InProgress(e)'
      BY <1>1, <1>3
    <3> QED BY SMTT(30), <3>1, <3>2, <3>3 DEF TI, Allocated, InProgress
  <2>2. ASSUME NEW k \in Keys, k # K PROVE TI(k)'
    <3>1. TI(k) /\ table'[k] = table[k]
      BY SMTT(30), <1>2, <2>2 DEF EntryInv
    <3>2. CASE table[k] = Nil
      BY SMTT(30), <3>1, <3>2 DEF TI
    <3>3. CASE table[k] # Nil
      <4>1. PICK g \in Handles : g = table[k]
        BY <3>3 DEF TypeOK
      <4>2. g # e
        BY SMTT(30), <1>1, <4>1
      <4>3. Live(g)
        BY SMTT(30), <3>3, <4>1, LiveOnes
      <4>4. g # old
        BY SMTT(30), <2>2, <4>1, <4>3, LiveFacts
      <4>5. /\ handle'[g].key = handle[g].key
            /\ DoomedIn(freeing', g) <=> DoomedIn(freeing, g)
            /\ InProgress(g)' <=> InProgress(g)
        BY SMTT(30), <1>1, <4>2, <4>4
      <4>6. Allocated(g) /\ ~DoomedIn(freeing, g) /\ ~InProgress(g) /\ handle[g].key = k
        BY SMTT(30), <3>1, <3>3, <4>1 DEF TI
      <4>7. table'[k] = g /\ handle'[g].key # Nil
        BY <3>1, <4>1, <4>5, <4>6 DEF Allocated
      <4> QED BY SMTT(30), <4>5, <4>6, <4>7 DEF TI, Allocated, InProgress
    <3> QED BY SMTT(30), <3>2, <3>3
  <2> QED BY SMTT(30), <2>1, <2>2
<1> QED BY SMTT(30), <1>6, <1>7 DEF EntryInv

(* Giving an entry its first references and its pool. *)
Started(y, n, p) == [Moved(y, p) EXCEPT !.refs = n]

LEMMA StartedLike ==
    ASSUME NEW y \in HandleType, NEW n \in Nat, NEW p \in Pools
    PROVE  Like(Started(y, n, p), y, n, y.in_cache)
<1> DEFINE z == Moved(y, p)
<1>1. Like(z, y, y.refs, y.in_cache)
  BY MovedLike
<1>2. z \in HandleType /\ z.key = y.key /\ z.in_cache = y.in_cache
  BY <1>1, Zenon DEF Like
<1>3. Started(y, n, p) = [z EXCEPT !.refs = n]
  BY DEF Started
<1> HIDE DEF z
<1> QED BY <1>2, <1>3 DEF Like, HandleType

LEMMA InsertItemStep ==
    ASSUME IInv, InsertItem
    PROVE  IInv'
<1>1. TypeOK /\ MuInv /\ EntryInv /\ FullMeansAllPinned
  BY DEF IInv
<1>2. mu.pc = "Insert" /\ ~MustEvict /\ ~InsertIsRefused /\ UNCHANGED config
  BY DEF InsertItem
<1>3. PICK e \in Handles : e = mu.e
  BY <1>1, <1>2 DEF MuInv
<1>4. InProgress(e) /\ mu.t \in Threads
  BY SMTT(30), <1>1, <1>2, <1>3 DEF InProgress, MuInv
<1>5. /\ handle \in [Handles -> HandleType] /\ held \in [Handles -> Nat]
      /\ table \in [Keys -> Handles \cup {Nil}]
      /\ GoodList(lru) /\ mu.flag \in BOOLEAN
  BY SMTT(30), <1>1 DEF TypeOK, EntryInv
<1>6. /\ ~DoomedIn(freeing, e) /\ ~In(lru, e) /\ held[e] = 0 /\ Allocated(e)
      /\ \A k \in Keys : table[k] # e
      /\ handle[e].in_cache /\ handle[e].refs = 0
  BY <1>1, <1>2, <1>4, InProgressFacts
<1>7. PICK K \in Keys : K = handle[e].key
  BY <1>5, <1>6 DEF Allocated, HandleType
<1>8. PICK old \in Handles \cup {Nil} : old = table[K]
  BY <1>5
<1>9. PICK drop \in BOOLEAN : drop <=> old # Nil /\ handle[old].refs = 0
  BY ZenonT(30)
<1>10. PICK flag \in BOOLEAN : flag <=> mu.flag
  BY SMTT(30), <1>5
<1> DEFINE L == IF drop THEN LRU_Remove(lru, old) ELSE lru
           n == IF flag THEN 1 ELSE 0
           q == IF flag THEN handle[e].pool ELSE PoolFor(e)
           x == Started(handle[e], n, q)
<1>11. /\ table' = [table EXCEPT ![K] = e]
       /\ usage' = usage + handle[e].charge - IF drop THEN handle[old].charge ELSE 0
       /\ IF drop THEN ToFree(mu.t, old) ELSE UNCHANGED freeing
  BY <1>3, <1>7, <1>8, <1>9 DEF InsertItem
<1>12. handle' = [h \in Handles |->
                    IF h = e
                    THEN [handle[e] EXCEPT !.refs = IF mu.flag THEN 1 ELSE 0,
                                           !.pool = IF mu.flag THEN @ ELSE PoolFor(e)]
                    ELSE IF h = old THEN [handle[h] EXCEPT !.in_cache = FALSE]
                    ELSE handle[h]]
  BY ZenonT(30), <1>3, <1>7, <1>8 DEF InsertItem
<1>13. IF flag
       THEN lru' = L /\ mu' = Idle /\ held' = [held EXCEPT ![e] = @ + 1]
       ELSE lru' = LRU_Insert(L, e) /\ mu' = AfterInsert(mu.t, e) /\ UNCHANGED held
  BY <1>3, <1>7, <1>8, <1>9, <1>10 DEF InsertItem
<1>14. old # e /\ (drop => old \in Handles /\ Live(old) /\ In(lru, old))
  <2>1. old # e
    BY SMTT(30), <1>6, <1>8
  <2>2. ASSUME drop PROVE old \in Handles /\ Live(old) /\ In(lru, old)
    <3>1. old \in Handles /\ Live(old)
      BY SMTT(30), <1>1, <1>8, <1>9, <2>2, LiveOnes
    <3>2. handle[old].key = K
      BY SMTT(30), <1>1, <1>8, <3>1, LiveFacts
    <3> QED BY SMTT(30), <1>1, <1>8, <1>9, <2>2, <3>1, <3>2, LiveFacts
  <2> QED BY SMTT(30), <2>1, <2>2
<1>15. /\ handle'[e] = x
       /\ old # Nil => handle'[old] = Out(handle[old])
       /\ \A h \in Handles : h # e /\ h # old => handle'[h] = handle[h]
  <2>1. handle'[e] = x
    BY <1>5, <1>10, <1>12 DEF Started, Moved, HandleType
  <2>2. old # Nil => handle'[old] = Out(handle[old])
    BY <1>12, <1>14 DEF Out
  <2>3. \A h \in Handles : h # e /\ h # old => handle'[h] = handle[h]
    BY <1>12
  <2> QED BY <2>1, <2>2, <2>3
<1>16. Like(x, handle[e], n, TRUE)
  <2>1. handle[e] \in HandleType /\ handle[e].pool \in Pools
    BY <1>5 DEF HandleType
  <2>2. PoolFor(e) \in Pools
    BY DEF PoolFor, Pools
  <2>3. n \in Nat /\ q \in Pools
    BY <2>1, <2>2
  <2> HIDE DEF n, q
  <2>4. Like(x, handle[e], n, handle[e].in_cache)
    BY SMTT(30), <2>1, <2>3, StartedLike
  <2>5. handle[e].in_cache = TRUE
    BY <1>6, <2>1 DEF HandleType
  <2> QED BY <2>4, <2>5
<1> HIDE DEF x, n
<1>17. old # Nil => Like(handle'[old], handle[old], handle[old].refs, FALSE)
  BY <1>5, <1>15, OutLike
<1>18. handle' \in [Handles -> HandleType]
  <2>1. \A h \in Handles : handle'[h] \in HandleType
    <3> SUFFICES ASSUME NEW h \in Handles PROVE handle'[h] \in HandleType
      OBVIOUS
    <3>1. CASE h = e BY <3>1, <1>15, <1>16 DEF Like
    <3>2. CASE h = old BY SMTT(30), <3>2, <1>17, NilAssumption DEF Like
    <3>3. CASE h # e /\ h # old BY <3>3, <1>5, <1>15
    <3> QED BY <3>1, <3>2, <3>3
  <2>2. DOMAIN handle' = Handles /\ handle' = [h \in Handles |-> handle'[h]]
    BY SMTT(30), <1>12
  <2> QED BY <2>1, <2>2
<1>19. /\ held' \in [Handles -> Nat] /\ held'[e] = n
       /\ \A h \in Handles : h # e => held'[h] = held[h]
  BY SMTT(30), <1>5, <1>6, <1>13 DEF n
<1>20. /\ GoodList(L) /\ ~In(L, e)
       /\ \A h \in Handles : In(L, h) <=> In(lru, h) /\ ~(drop /\ h = old)
  <2>1. CASE drop
    BY SMTT(30), <1>5, <1>6, <1>14, <2>1, RemoveGood
  <2>2. CASE ~drop
    BY SMTT(30), <1>5, <1>6, <2>2
  <2> QED BY SMTT(30), <2>1, <2>2
<1> HIDE DEF L
<1>21. /\ GoodList(lru')
       /\ \A h \in Handles :
            In(lru', h) <=> (In(lru, h) /\ ~(drop /\ h = old)) \/ (~flag /\ h = e)
  <2>1. CASE flag
    BY SMTT(30), <1>13, <1>20, <2>1
  <2>2. CASE ~flag
    BY SMTT(30), <1>5, <1>13, <1>20, <2>2, InsertGood
  <2> QED BY SMTT(30), <2>1, <2>2
<1>22. /\ freeing' \in [Threads -> Seq(Handles)] /\ OnceIn(freeing')
       /\ \A h \in Handles :
            DoomedIn(freeing', h) <=> DoomedIn(freeing, h) \/ (drop /\ h = old)
  <2>1. freeing \in [Threads -> Seq(Handles)] /\ OnceIn(freeing)
    BY <1>1 DEF TypeOK, EntryInv
  <2>2. CASE drop
    <3>1. freeing' = Plus(freeing, mu.t, old)
      BY <1>11, <2>2 DEF ToFree, Plus
    <3>2. old \in Handles /\ ~DoomedIn(freeing, old)
      BY SMTT(30), <1>14, <2>2 DEF Live
    <3> QED BY SMTT(30), <1>4, <2>1, <2>2, <3>1, <3>2, AppendDoomed
  <2>3. CASE ~drop
    BY <1>11, <2>1, <2>3
  <2> QED BY SMTT(30), <2>2, <2>3
<1>23. /\ mu' \in [pc : PCs, t : Threads \cup {Nil}, e : Handles \cup {Nil}, flag : BOOLEAN]
       /\ MuInv' /\ mu'.pc \in {"idle", "Maintain"}
       /\ \A h \in Handles : ~InProgress(h)'
  <2>1. CASE flag
    <3>1. mu' = Idle
      BY SMTT(30), <1>13, <2>1
    <3> QED BY <3>1, NilAssumption DEF Idle, PCs, MuInv, InProgress
  <2>2. CASE ~flag
    <3>1. mu' = AfterInsert(mu.t, e)
      BY SMTT(30), <1>13, <2>2
    <3> QED BY SMTT(30), <1>4, <3>1, AfterInsertFacts
  <2> QED BY SMTT(30), <2>1, <2>2
<1>24. EntryInv'
  <2>1. Like(handle'[e], handle[e], n, TRUE)
    BY <1>15, <1>16
  <2>2. Replaced(e, old, K, flag, drop)
    BY <1>7, <1>8, <1>9, <1>11, <1>15, <1>17, <1>19, <1>21, <1>22, <1>23, <2>1, Zenon
    DEF Replaced, n
  <2> QED BY SMTT(30), <1>1, <1>2, <1>4, <2>2, InsertItemEntries
<1>25. usage \in Int /\ capacity \in Nat /\ handle[e].charge \in Nat
       /\ (drop => handle[old].charge \in Nat)
  BY SMTT(30), <1>1, <1>5, <1>14 DEF TypeOK, HandleType
<1>26. usage' \in Int /\ usage' <= usage + handle[e].charge
  <2>1. CASE drop BY SMTT(30), <1>11, <1>25, <2>1
  <2>2. CASE ~drop BY SMTT(30), <1>11, <1>25, <2>2
  <2> QED BY SMTT(30), <2>1, <2>2
<1>27. UNCHANGED <<capacity, strict, high_ratio, low_ratio>>
  BY <1>2 DEF config
<1>28. TypeOK'
  <2>1. table' \in [Keys -> Handles \cup {Nil}]
    BY SMTT(30), <1>5, <1>11
  <2>2. lru' \in LruType
    BY <1>21 DEF GoodList
  <2>3. capacity' \in Nat /\ strict' \in BOOLEAN /\ high_ratio' \in Nat /\ low_ratio' \in Nat
    BY SMTT(30), <1>1, <1>27 DEF TypeOK
  <2>4. held' \in [Handles -> Nat] /\ freeing' \in [Threads -> Seq(Handles)] /\ usage' \in Int
    BY <1>19, <1>22, <1>26
  <2> QED BY <1>18, <1>23, <2>1, <2>2, <2>3, <2>4, Zenon DEF TypeOK
<1>29. FullMeansAllPinned'
  <2>1. e # Nil
    BY NilAssumption
  <2>2. Over <=> usage + handle[e].charge > capacity
    BY SMTT(30), <1>3, <2>1 DEF Over, Wanted
  <2>3. CASE ~Over
    BY SMTT(30), <1>25, <1>26, <1>27, <2>2, <2>3 DEF FullMeansAllPinned
  <2>4. CASE Over
    <3>1. lru.list = <<>> /\ flag
      BY SMTT(30), <1>2, <1>10, <2>4 DEF MustEvict, InsertIsRefused
    <3>2. ~drop
      BY SMTT(30), <1>14, <3>1, ListedNonEmpty
    <3>3. lru' = lru
      BY SMTT(30), <1>13, <3>1, <3>2 DEF L
    <3> QED BY SMTT(30), <3>1, <3>3 DEF FullMeansAllPinned
  <2> QED BY <2>3, <2>4
<1> QED BY SMTT(30), <1>23, <1>24, <1>28, <1>29 DEF IInv
=============================================================================
