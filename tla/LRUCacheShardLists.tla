------------------------- MODULE LRUCacheShardLists -------------------------
(***************************************************************************)
(* What LRU_Insert and LRU_Remove do to the shard's LRU list and its pool  *)
(* pointers, and what happens to the threads' lists of entries to free     *)
(* when an entry joins or leaves them.                                     *)
(***************************************************************************)
EXTENDS LRUCacheShard, SeqLemmas

In(L, h) == \E i \in 1 .. Len(L.list) : L.list[i] = h

Distinct(L) == \A i, j \in 1 .. Len(L.list) : L.list[i] = L.list[j] => i = j

(* A pool pointer points into the list or at its dummy head. *)
Points(L, ptr) == ptr = Nil \/ In(L, ptr)

GoodList(L) ==
    /\ L \in LruType
    /\ Distinct(L)
    /\ Points(L, L.low)
    /\ Points(L, L.bottom)

-----------------------------------------------------------------------------

(* Place finds a listed entry. *)
LEMMA PlaceProperties ==
    ASSUME NEW L \in LruType, NEW x \in Handles, In(L, x)
    PROVE  Place(L, x) \in 1 .. Len(L.list) /\ L.list[Place(L, x)] = x
<1>1. x # Nil
  BY NilAssumption
<1>2. DOMAIN L.list = 1 .. Len(L.list)
  BY DEF LruType
<1>3. \E i \in DOMAIN L.list : L.list[i] = x
  BY <1>2 DEF In
<1>4. Place(L, x) = CHOOSE i \in DOMAIN L.list : L.list[i] = x
  BY <1>1 DEF Place
<1> QED BY <1>2, <1>3, <1>4

(* A pool pointer designates a place from which an entry can be inserted. *)
LEMMA PointerPlace ==
    ASSUME NEW L \in LruType, NEW ptr \in Handles \cup {Nil}, Points(L, ptr)
    PROVE  Place(L, ptr) \in 0 .. Len(L.list)
<1>1. Len(L.list) \in Nat
  BY DEF LruType
<1>2. CASE ptr = Nil
  BY <1>1, <1>2 DEF Place
<1>3. CASE ptr # Nil
  <2>1. ptr \in Handles /\ In(L, ptr)
    BY <1>3 DEF Points
  <2>2. Place(L, ptr) \in 1 .. Len(L.list)
    BY <2>1, PlaceProperties
  <2> QED BY <2>2, <1>1
<1> QED BY <1>2, <1>3

(* Removing an entry takes it, and nothing else, out of a well-formed list. *)
LEMMA RemoveGood ==
    ASSUME NEW L, GoodList(L), NEW e \in Handles, In(L, e),
           handle \in [Handles -> HandleType]
    PROVE  /\ GoodList(LRU_Remove(L, e))
           /\ \A h \in Handles : In(LRU_Remove(L, e), h) <=> In(L, h) /\ h # e
<1> DEFINE s == L.list
           n == Len(s)
           p == Place(L, e)
           R == LRU_Remove(L, e)
           r == DropAt(s, p)
<1>1. L \in LruType /\ s \in Seq(Handles) /\ n \in Nat
  BY DEF GoodList, LruType
<1>2. p \in 1 .. n /\ s[p] = e
  BY <1>1, PlaceProperties
<1>3. r \in Seq(Handles) /\ Removed(r, s, p)
  <2> HIDE DEF s, p
  <2> QED BY <1>1, <1>2, DropAtProperties DEF n
<1>4. Len(r) = n - 1
      /\ \A i \in 1 .. n - 1 : r[i] = IF i < p THEN s[i] ELSE s[i + 1]
  BY <1>3 DEF Removed
<1>5. R.list = r
  BY DEF LRU_Remove
<1>6. \A i, j \in 1 .. n : s[i] = s[j] => i = j
  BY DEF GoodList, Distinct
<1> HIDE DEF s, p, r, n
<1>7. ASSUME NEW h \in Handles
      PROVE  In(R, h) <=> In(L, h) /\ h # e
  <2>1. ASSUME NEW i \in 1 .. n - 1, r[i] = h
        PROVE  In(L, h) /\ h # e
    <3>1. CASE i < p
      <4>1. i \in 1 .. n /\ s[i] = h /\ i # p
        BY <2>1, <3>1, <1>1, <1>2, <1>4
      <4> QED BY <4>1, <1>2, <1>6 DEF In, s, n
    <3>2. CASE i >= p
      <4>1. i + 1 \in 1 .. n /\ s[i + 1] = h /\ i + 1 # p
        BY <2>1, <3>2, <1>1, <1>2, <1>4
      <4> QED BY <4>1, <1>2, <1>6 DEF In, s, n
    <3>3. i < p \/ i >= p
      BY <1>1, <1>2
    <3> QED BY <3>1, <3>2, <3>3
  <2>2. ASSUME NEW i \in 1 .. n, s[i] = h, h # e
        PROVE  \E j \in 1 .. n - 1 : r[j] = h
    <3>1. i # p
      BY <2>2, <1>2
    <3>2. CASE i < p
      <4>1. i \in 1 .. n - 1 /\ r[i] = h
        BY <2>2, <3>2, <1>1, <1>2, <1>4
      <4> QED BY <4>1
    <3>3. CASE i > p
      <4>1. i - 1 \in 1 .. n - 1 /\ ~(i - 1 < p) /\ (i - 1) + 1 = i
        BY <3>3, <1>1, <1>2
      <4>2. r[i - 1] = h
        BY <4>1, <2>2, <1>4
      <4> QED BY <4>1, <4>2
    <3>4. i < p \/ i > p
      BY <3>1, <1>1, <1>2
    <3> QED BY <3>2, <3>3, <3>4
  <2>3. In(R, h) <=> \E i \in 1 .. n - 1 : r[i] = h
    BY <1>4, <1>5 DEF In
  <2>4. In(L, h) <=> \E i \in 1 .. n : s[i] = h
    BY DEF In, s, n
  <2> QED BY <2>1, <2>2, <2>3, <2>4
<1>8. Distinct(R)
  <2> SUFFICES ASSUME NEW i \in 1 .. n - 1, NEW j \in 1 .. n - 1, r[i] = r[j]
               PROVE  i = j
    BY <1>4, <1>5 DEF Distinct
  <2> DEFINE a == IF i < p THEN i ELSE i + 1
             b == IF j < p THEN j ELSE j + 1
  <2>1. a \in 1 .. n /\ b \in 1 .. n /\ r[i] = s[a] /\ r[j] = s[b]
    BY <1>1, <1>2, <1>4
  <2>2. a = b
    BY <2>1, <1>6
  <2> QED BY <2>2, <1>1, <1>2
<1>9. ASSUME NEW ptr \in Handles \cup {Nil}, Points(L, ptr)
      PROVE  /\ PointerAfterRemove(L, ptr, e) \in Handles \cup {Nil}
             /\ Points(R, PointerAfterRemove(L, ptr, e))
  <2>1. CASE ptr # e
    BY <2>1, <1>7, <1>9 DEF PointerAfterRemove, Points
  <2>2. CASE ptr = e
    <3>1. PointerAfterRemove(L, ptr, e) = Node(L, p - 1)
      BY <2>2 DEF PointerAfterRemove, PrevOf, p
    <3>2. DOMAIN L.list = 1 .. n
      BY <1>1 DEF s, n
    <3>3. CASE p = 1
      <4>1. Node(L, p - 1) = Nil
        BY <3>2, <3>3, <1>1 DEF Node
      <4> QED BY <3>1, <4>1 DEF Points
    <3>4. CASE p # 1
      <4>1. p - 1 \in 1 .. n /\ p - 1 # p
        BY <3>4, <1>1, <1>2
      <4>2. Node(L, p - 1) = s[p - 1]
        BY <3>2, <4>1 DEF Node, s
      <4>3. s[p - 1] \in Handles /\ s[p - 1] # e
        BY <4>1, <1>1, <1>2, <1>6 DEF n
      <4>4. In(L, s[p - 1])
        BY <4>1 DEF In, s, n
      <4> QED BY <3>1, <4>2, <4>3, <4>4, <1>7 DEF Points
    <3> QED BY <3>3, <3>4
  <2> QED BY <2>1, <2>2
<1>10. R \in LruType /\ Points(R, R.low) /\ Points(R, R.bottom)
  <2>1. /\ L.low \in Handles \cup {Nil} /\ L.bottom \in Handles \cup {Nil}
        /\ L.usage \in Int /\ L.high_usage \in Int /\ L.low_usage \in Int
        /\ Points(L, L.low) /\ Points(L, L.bottom)
    BY <1>1 DEF GoodList, LruType
  <2>2. handle[e].charge \in Int
    BY DEF HandleType
  <2>3. PoolCharge(e, "High") \in Int /\ PoolCharge(e, "Low") \in Int
    BY <2>2 DEF PoolCharge
  <2>4. /\ R.low = PointerAfterRemove(L, L.low, e)
        /\ R.bottom = PointerAfterRemove(L, L.bottom, e)
    BY DEF LRU_Remove
  <2>5. /\ R.low \in Handles \cup {Nil} /\ R.bottom \in Handles \cup {Nil}
        /\ Points(R, R.low) /\ Points(R, R.bottom)
    <3>1. R.low \in Handles \cup {Nil} /\ Points(R, R.low)
      BY <2>1, <2>4, <1>9
    <3>2. R.bottom \in Handles \cup {Nil} /\ Points(R, R.bottom)
      <4> HIDE DEF R
      <4> QED BY SMTT(30), <2>1, <2>4, <1>9
    <3> QED BY <3>1, <3>2
  <2>6. R \in LruType
    BY <2>1, <2>2, <2>3, <2>4, <2>5, <1>3, <1>5, SMTT(30) DEF LRU_Remove, LruType
  <2> QED BY <2>5, <2>6
<1> QED BY <1>7, <1>8, <1>10 DEF GoodList

(* Inserting an entry adds it, and nothing else, to a well-formed list. *)
LEMMA InsertGood ==
    ASSUME NEW L, GoodList(L), NEW e \in Handles, ~In(L, e),
           handle \in [Handles -> HandleType]
    PROVE  /\ GoodList(LRU_Insert(L, e))
           /\ \A h \in Handles : In(LRU_Insert(L, e), h) <=> In(L, h) \/ h = e
<1> DEFINE s == L.list
           n == Len(s)
           c == handle[e].charge
           at == CASE PoolFor(e) = "High" -> Len(L.list)
                   [] PoolFor(e) = "Low" -> Place(L, L.low)
                   [] PoolFor(e) = "Bottom" -> Place(L, L.bottom)
           p == at + 1
           R == LRU_Insert(L, e)
           r == PutAt(s, p, e)
<1>1. L \in LruType /\ s \in Seq(Handles) /\ n \in Nat
  BY DEF GoodList, LruType
<1>2. at \in 0 .. n
  <2>1. PoolFor(e) \in {"High", "Low", "Bottom"}
    BY DEF PoolFor
  <2>2. Place(L, L.low) \in 0 .. n /\ Place(L, L.bottom) \in 0 .. n
    BY <1>1, PointerPlace DEF GoodList, LruType
  <2>3. n \in 0 .. n
    BY <1>1
  <2>4. CASE PoolFor(e) = "High" BY <2>4, <2>3
  <2>5. CASE PoolFor(e) = "Low" BY <2>5, <2>2
  <2>6. CASE PoolFor(e) = "Bottom" BY <2>6, <2>2
  <2> QED BY <2>1, <2>4, <2>5, <2>6
<1>3. R.list = r
  BY DEF LRU_Insert
<1> HIDE DEF at
<1>4. p \in 1 .. n + 1
  BY <1>1, <1>2
<1>5. r \in Seq(Handles) /\ Inserted(r, s, p, e)
  <2> HIDE DEF s, p
  <2> QED BY <1>1, <1>4, PutAtProperties DEF n
<1>6. Len(r) = n + 1
      /\ \A i \in 1 .. n + 1 :
           r[i] = IF i < p THEN s[i] ELSE IF i = p THEN e ELSE s[i - 1]
  BY <1>5 DEF Inserted
<1>7. \A i, j \in 1 .. n : s[i] = s[j] => i = j
  BY DEF GoodList, Distinct
<1>8. \A i \in 1 .. n : s[i] # e
  BY DEF In
<1> HIDE DEF s, p, r, n
<1>9. ASSUME NEW h \in Handles
      PROVE  In(R, h) <=> In(L, h) \/ h = e
  <2>1. ASSUME NEW i \in 1 .. n + 1, r[i] = h
        PROVE  (\E j \in 1 .. n : s[j] = h) \/ h = e
    <3>1. CASE i < p
      <4>1. i \in 1 .. n /\ s[i] = h
        BY <2>1, <3>1, <1>1, <1>4, <1>6
      <4> QED BY <4>1
    <3>2. CASE i = p
      BY <2>1, <3>2, <1>1, <1>4, <1>6
    <3>3. CASE i > p
      <4>1. i - 1 \in 1 .. n /\ s[i - 1] = h
        BY <2>1, <3>3, <1>1, <1>4, <1>6
      <4> QED BY <4>1
    <3>4. i < p \/ i = p \/ i > p
      BY <1>1, <1>4
    <3> QED BY <3>1, <3>2, <3>3, <3>4
  <2>2. ASSUME NEW i \in 1 .. n, s[i] = h
        PROVE  \E j \in 1 .. n + 1 : r[j] = h
    <3>1. CASE i < p
      <4>1. i \in 1 .. n + 1 /\ r[i] = h
        BY <2>2, <3>1, <1>1, <1>4, <1>6
      <4> QED BY <4>1
    <3>2. CASE i >= p
      <4>1. i + 1 \in 1 .. n + 1 /\ ~(i + 1 < p) /\ i + 1 # p /\ (i + 1) - 1 = i
        BY <3>2, <1>1, <1>4
      <4>2. r[i + 1] = h
        BY <4>1, <2>2, <1>6
      <4> QED BY <4>1, <4>2
    <3>3. i < p \/ i >= p
      BY <1>1, <1>4
    <3> QED BY <3>1, <3>2, <3>3
  <2>3. r[p] = e
    BY <1>1, <1>4, <1>6
  <2>4. In(R, h) <=> \E i \in 1 .. n + 1 : r[i] = h
    BY <1>3, <1>6 DEF In
  <2>5. In(L, h) <=> \E i \in 1 .. n : s[i] = h
    BY DEF In, s, n
  <2> QED BY <2>1, <2>2, <2>3, <2>4, <2>5, <1>4
<1>10. Distinct(R)
  <2> SUFFICES ASSUME NEW i \in 1 .. n + 1, NEW j \in 1 .. n + 1, r[i] = r[j]
               PROVE  i = j
    BY <1>3, <1>6 DEF Distinct
  <2>1. CASE i = p
    <3>1. r[j] = e
      BY <2>1, <1>1, <1>4, <1>6
    <3>2. ASSUME j < p PROVE FALSE
      <4>1. j \in 1 .. n /\ r[j] = s[j]
        BY <3>2, <1>1, <1>4, <1>6
      <4> QED BY <4>1, <3>1, <1>8
    <3>3. ASSUME j > p PROVE FALSE
      <4>1. j - 1 \in 1 .. n /\ r[j] = s[j - 1]
        BY <3>3, <1>1, <1>4, <1>6
      <4> QED BY <4>1, <3>1, <1>8
    <3> QED BY <2>1, <3>2, <3>3, <1>1, <1>4
  <2>2. CASE j = p
    <3>1. r[i] = e
      BY <2>2, <1>1, <1>4, <1>6
    <3>2. ASSUME i < p PROVE FALSE
      <4>1. i \in 1 .. n /\ r[i] = s[i]
        BY <3>2, <1>1, <1>4, <1>6
      <4> QED BY <4>1, <3>1, <1>8
    <3>3. ASSUME i > p PROVE FALSE
      <4>1. i - 1 \in 1 .. n /\ r[i] = s[i - 1]
        BY <3>3, <1>1, <1>4, <1>6
      <4> QED BY <4>1, <3>1, <1>8
    <3> QED BY <2>2, <3>2, <3>3, <1>1, <1>4
  <2>3. CASE i # p /\ j # p
    <3> DEFINE a == IF i < p THEN i ELSE i - 1
               b == IF j < p THEN j ELSE j - 1
    <3>1. a \in 1 .. n /\ b \in 1 .. n /\ r[i] = s[a] /\ r[j] = s[b]
      BY <2>3, <1>1, <1>4, <1>6
    <3>2. a = b
      BY <3>1, <1>7
    <3> QED BY <3>2, <2>3, <1>1, <1>4
  <2> QED BY <2>1, <2>2, <2>3
<1>11. R \in LruType /\ Points(R, R.low) /\ Points(R, R.bottom)
  <2>1. /\ L.low \in Handles \cup {Nil} /\ L.bottom \in Handles \cup {Nil}
        /\ L.usage \in Int /\ L.high_usage \in Int /\ L.low_usage \in Int
        /\ Points(L, L.low) /\ Points(L, L.bottom)
    BY <1>1 DEF GoodList, LruType
  <2>2. c \in Int
    BY DEF HandleType
  <2>3. /\ R.low \in {L.low, e} /\ R.bottom \in {L.bottom, e}
        /\ R.usage \in Int /\ R.high_usage \in Int /\ R.low_usage \in Int
    BY <2>1, <2>2 DEF LRU_Insert, LowAfterInsert
  <2>4. \A ptr \in {L.low, L.bottom, e} : Points(R, ptr)
    BY <2>1, <1>9 DEF Points
  <2>5. R.list \in Seq(Handles) /\ R.low \in Handles \cup {Nil} /\ R.bottom \in Handles \cup {Nil}
    BY <2>1, <2>3, <1>3, <1>5
  <2>6. R \in LruType
    BY <2>3, <2>5 DEF LRU_Insert, LruType
  <2> QED BY <2>3, <2>4, <2>6
<1> QED BY <1>9, <1>10, <1>11 DEF GoodList

-----------------------------------------------------------------------------

DoomedIn(F, h) == \E t \in Threads : \E i \in 1 .. Len(F[t]) : F[t][i] = h

OnceIn(F) ==
    \A t, u \in Threads : \A i \in 1 .. Len(F[t]), j \in 1 .. Len(F[u]) :
       F[t][i] = F[u][j] => t = u /\ i = j

Plus(F, t, e) == [F EXCEPT ![t] = Append(@, e)]

Minus(F, t) == [F EXCEPT ![t] = Tail(@)]

(* A thread takes over one more entry to free. *)
LEMMA AppendDoomed ==
    ASSUME NEW F \in [Threads -> Seq(Handles)], OnceIn(F),
           NEW t \in Threads, NEW e \in Handles, ~DoomedIn(F, e)
    PROVE  /\ Plus(F, t, e) \in [Threads -> Seq(Handles)]
           /\ OnceIn(Plus(F, t, e))
           /\ \A h \in Handles : DoomedIn(Plus(F, t, e), h) <=> DoomedIn(F, h) \/ h = e
<1> DEFINE n == Len(F[t])
           G == Plus(F, t, e)
<1>1. F[t] \in Seq(Handles) /\ n \in Nat
  OBVIOUS
<1>2. G[t] = Append(F[t], e) /\ \A u \in Threads : u # t => G[u] = F[u]
  BY DEF Plus
<1>3. G[t] \in Seq(Handles) /\ Len(G[t]) = n + 1 /\ G[t][n + 1] = e
      /\ \A i \in 1 .. n : G[t][i] = F[t][i]
  BY <1>1, <1>2
<1>4. G \in [Threads -> Seq(Handles)]
  BY <1>1 DEF Plus
<1> HIDE DEF G
<1>5. \A u \in Threads : \A i \in 1 .. Len(G[u]) :
        (i \in 1 .. Len(F[u]) /\ G[u][i] = F[u][i]) \/ (u = t /\ i = n + 1 /\ G[u][i] = e)
  <2> SUFFICES ASSUME NEW u \in Threads, NEW i \in 1 .. Len(G[u])
               PROVE  (i \in 1 .. Len(F[u]) /\ G[u][i] = F[u][i])
                      \/ (u = t /\ i = n + 1 /\ G[u][i] = e)
    OBVIOUS
  <2>1. CASE u # t BY <2>1, <1>2
  <2>2. CASE u = t BY <2>2, <1>1, <1>3
  <2> QED BY <2>1, <2>2
<1>6. \A u \in Threads : \A i \in 1 .. Len(F[u]) : i \in 1 .. Len(G[u]) /\ G[u][i] = F[u][i]
  <2> SUFFICES ASSUME NEW u \in Threads, NEW i \in 1 .. Len(F[u])
               PROVE  i \in 1 .. Len(G[u]) /\ G[u][i] = F[u][i]
    OBVIOUS
  <2>1. CASE u # t BY <2>1, <1>2
  <2>2. CASE u = t BY <2>2, <1>1, <1>3
  <2> QED BY <2>1, <2>2
<1>7. n + 1 \in 1 .. Len(G[t])
  BY <1>1, <1>3
<1>8. \A u \in Threads : \A i \in 1 .. Len(F[u]) : F[u][i] # e
  BY DEF DoomedIn
<1>9. OnceIn(G)
  <2> HIDE DEF n
  <2> SUFFICES ASSUME NEW u \in Threads, NEW v \in Threads,
                      NEW i \in 1 .. Len(G[u]), NEW j \in 1 .. Len(G[v]), G[u][i] = G[v][j]
               PROVE  u = v /\ i = j
    BY DEF OnceIn
  <2>1. CASE i \in 1 .. Len(F[u]) /\ G[u][i] = F[u][i]
    <3>1. j \in 1 .. Len(F[v]) /\ G[v][j] = F[v][j]
      BY <2>1, <1>5, <1>8
    <3>2. F[u][i] = F[v][j]
      BY <2>1, <3>1
    <3> QED BY <2>1, <3>1, <3>2 DEF OnceIn
  <2>2. CASE u = t /\ i = n + 1 /\ G[u][i] = e
    <3>1. v = t /\ j = n + 1
      BY ZenonT(30), <2>2, <1>5, <1>8
    <3> QED BY <2>2, <3>1
  <2> QED BY <2>1, <2>2, <1>5
<1>10. ASSUME NEW h \in Handles
       PROVE  DoomedIn(G, h) <=> DoomedIn(F, h) \/ h = e
  <2> HIDE DEF n
  <2>1. ASSUME DoomedIn(G, h) PROVE DoomedIn(F, h) \/ h = e
    <3>0. PICK u \in Threads : \E i \in 1 .. Len(G[u]) : G[u][i] = h
      BY <2>1 DEF DoomedIn
    <3>1. PICK i \in 1 .. Len(G[u]) : G[u][i] = h
      BY <3>0
    <3>2. CASE i \in 1 .. Len(F[u]) /\ G[u][i] = F[u][i]
      BY <3>1, <3>2 DEF DoomedIn
    <3>3. CASE G[u][i] = e
      BY <3>1, <3>3
    <3> QED BY <3>2, <3>3, <1>5
  <2>2. ASSUME DoomedIn(F, h) PROVE DoomedIn(G, h)
    BY <2>2, <1>6 DEF DoomedIn
  <2>3. DoomedIn(G, e)
    BY <1>3, <1>7 DEF DoomedIn
  <2> QED BY <2>1, <2>2, <2>3
<1> QED BY <1>4, <1>9, <1>10 DEF G

(* A thread frees the first of its entries. *)
LEMMA TailDoomed ==
    ASSUME NEW F \in [Threads -> Seq(Handles)], OnceIn(F),
           NEW t \in Threads, F[t] # <<>>
    PROVE  /\ Minus(F, t) \in [Threads -> Seq(Handles)]
           /\ OnceIn(Minus(F, t))
           /\ Head(F[t]) \in Handles /\ DoomedIn(F, Head(F[t]))
           /\ \A h \in Handles : DoomedIn(Minus(F, t), h) <=> DoomedIn(F, h) /\ h # Head(F[t])
<1> DEFINE n == Len(F[t])
           G == Minus(F, t)
           e == Head(F[t])
<1>1. F[t] \in Seq(Handles) /\ n \in Nat /\ n > 0 /\ 1 \in 1 .. n
      /\ e = F[t][1] /\ e \in Handles
  OBVIOUS
<1>2. G[t] = Tail(F[t]) /\ \A u \in Threads : u # t => G[u] = F[u]
  BY DEF Minus
<1>3. G[t] \in Seq(Handles) /\ Len(G[t]) = n - 1
      /\ \A i \in 1 .. n - 1 : G[t][i] = F[t][i + 1]
  BY <1>1, <1>2
<1>4. G \in [Threads -> Seq(Handles)]
  BY <1>1, <1>3 DEF Minus
<1> HIDE DEF G
<1> DEFINE at(u, i) == IF u = t THEN i + 1 ELSE i
<1>5. ASSUME NEW u \in Threads, NEW i \in 1 .. Len(G[u])
      PROVE  at(u, i) \in 1 .. Len(F[u]) /\ G[u][i] = F[u][at(u, i)]
             /\ (u = t => at(u, i) # 1) /\ i \in Int
  <2>1. CASE u # t BY <2>1, <1>2
  <2>2. CASE u = t BY <2>2, <1>1, <1>3
  <2> QED BY <2>1, <2>2
<1>6. ASSUME NEW u \in Threads, NEW i \in 1 .. Len(F[u]), ~(u = t /\ i = 1)
      PROVE  \E j \in 1 .. Len(G[u]) : G[u][j] = F[u][i]
  <2>1. CASE u # t BY <2>1, <1>2
  <2>2. CASE u = t
    <3>1. i - 1 \in 1 .. n - 1 /\ (i - 1) + 1 = i
      BY <2>2, <1>6, <1>1
    <3>2. G[t][i - 1] = F[t][i]
      BY <3>1, <1>3
    <3> QED BY <2>2, <3>1, <3>2, <1>3
  <2> QED BY <2>1, <2>2
<1>7. OnceIn(G)
  <2> SUFFICES ASSUME NEW u \in Threads, NEW v \in Threads,
                      NEW i \in 1 .. Len(G[u]), NEW j \in 1 .. Len(G[v]), G[u][i] = G[v][j]
               PROVE  u = v /\ i = j
    BY DEF OnceIn
  <2>1. at(u, i) \in 1 .. Len(F[u]) /\ G[u][i] = F[u][at(u, i)] /\ i \in Int
    BY <1>5
  <2>2. at(v, j) \in 1 .. Len(F[v]) /\ G[v][j] = F[v][at(v, j)] /\ j \in Int
    BY <1>5
  <2>3. u = v /\ at(u, i) = at(v, j)
    <3> HIDE DEF at
    <3>1. F[u][at(u, i)] = F[v][at(v, j)]
      BY <2>1, <2>2
    <3> QED BY <2>1, <2>2, <3>1 DEF OnceIn
  <2> QED BY <2>1, <2>2, <2>3
<1> HIDE DEF n, e
<1>8. DoomedIn(F, e)
  BY <1>1 DEF DoomedIn, n
<1>9. ASSUME NEW h \in Handles
      PROVE  DoomedIn(G, h) <=> DoomedIn(F, h) /\ h # e
  <2>1. ASSUME NEW u \in Threads, NEW i \in 1 .. Len(G[u]), G[u][i] = h
        PROVE  DoomedIn(F, h) /\ h # e
    <3>1. at(u, i) \in 1 .. Len(F[u]) /\ F[u][at(u, i)] = h /\ ~(u = t /\ at(u, i) = 1)
      BY <2>1, <1>5
    <3> HIDE DEF at
    <3>2. h # e
      <4> SUFFICES ASSUME h = e PROVE FALSE
        OBVIOUS
      <4>1. F[u][at(u, i)] = F[t][1] /\ 1 \in 1 .. Len(F[t])
        BY <3>1, <1>1 DEF n
      <4> QED BY ZenonT(30), <4>1, <3>1 DEF OnceIn
    <3> QED BY <3>1, <3>2 DEF DoomedIn
  <2>2. ASSUME NEW u \in Threads, NEW i \in 1 .. Len(F[u]), F[u][i] = h, h # e
        PROVE  DoomedIn(G, h)
    <3>1. ~(u = t /\ i = 1)
      BY <2>2, <1>1
    <3>2. \E j \in 1 .. Len(G[u]) : G[u][j] = F[u][i]
      BY <3>1, <1>6
    <3>3. PICK j \in 1 .. Len(G[u]) : G[u][j] = h
      BY <3>2, <2>2
    <3> QED BY <3>3 DEF DoomedIn
  <2> QED BY <2>1, <2>2 DEF DoomedIn
<1> QED BY <1>1, <1>4, <1>7, <1>8, <1>9 DEF e, G
=============================================================================
