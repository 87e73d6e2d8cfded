-------------------- MODULE LogsWithPrepTracker_proofs --------------------
(* Proof that the prepared-section tracker never names too late a log. *)
EXTENDS LogsWithPrepTracker, SeqLemmas

(* The list is strictly ordered by log number. *)
Sorted ==
    \A i, j \in 1 .. Len(logs_with_prep) :
        i < j => logs_with_prep[i].log < logs_with_prep[j].log

Listed(l) == \E i \in 1 .. Len(logs_with_prep) : logs_with_prep[i].log = l

(* What the list and the counters say of a log is what happened to it:     *)
(* listed logs count the undecided sections, the others have none.         *)
Balanced ==
    /\ \A i \in 1 .. Len(logs_with_prep) :
         /\ completed[logs_with_prep[i].log] <= logs_with_prep[i].cnt
         /\ logs_with_prep[i].cnt + decided[logs_with_prep[i].log]
              = completed[logs_with_prep[i].log] + prepared[logs_with_prep[i].log]
    /\ \A l \in Logs :
         ~Listed(l) => completed[l] = 0 /\ prepared[l] = decided[l]

IInv == TypeOK /\ Sorted /\ Balanced

Entry == [log : Logs, cnt : Nat \ {0}]

-----------------------------------------------------------------------------

(* The list is a sequence of entries, and its head is its first element.   *)
LEMMA ListFacts ==
    ASSUME TypeOK
    PROVE  /\ logs_with_prep \in Seq(Entry)
           /\ Len(logs_with_prep) \in Nat
           /\ \A i \in 1 .. Len(logs_with_prep) : logs_with_prep[i] \in Entry
           /\ logs_with_prep # <<>> =>
                /\ 1 \in 1 .. Len(logs_with_prep)
                /\ Len(logs_with_prep) \in Nat \ {0}
                /\ Head(logs_with_prep) = logs_with_prep[1]
<1>1. logs_with_prep \in Seq(Entry)
  BY DEF TypeOK, Entry
<1>2. Len(logs_with_prep) \in Nat
      /\ \A i \in 1 .. Len(logs_with_prep) : logs_with_prep[i] \in Entry
  BY <1>1, LenProperties
<1>3. logs_with_prep # <<>> => Len(logs_with_prep) # 0
  BY <1>1, EmptySeq
<1>4. Head(logs_with_prep) = logs_with_prep[1]
  BY <1>1
<1> QED BY <1>1, <1>2, <1>3, <1>4

(* MarkLogAsContainingPrepSection keeps the list ordered and the counts    *)
(* balanced, whether it counts an entry up or inserts one.                 *)
LEMMA ContainingPreserves ==
    ASSUME IInv, NEW log \in Logs, MarkLogAsContainingPrepSection(log)
    PROVE  IInv'
<1> DEFINE L == logs_with_prep
           n == Len(L)
<1>1. L \in Seq(Entry) /\ n \in Nat /\ \A i \in 1 .. n : L[i] \in Entry
  BY ListFacts DEF IInv
<1>2. Logs \subseteq Nat
  BY LogsAssumption
<1>3. PICK p \in 1 .. n + 1 :
        /\ \A i \in 1 .. p - 1 : L[i].log < log
        /\ \A i \in p .. n : L[i].log >= log
        /\ L' = IF p <= n /\ L[p].log = log
                THEN [L EXCEPT ![p].cnt = @ + 1]
                ELSE PutAt(L, p, [log |-> log, cnt |-> 1])
  BY DEF MarkLogAsContainingPrepSection, NewEntry
<1>4. /\ prepared' = [prepared EXCEPT ![log] = @ + 1]
      /\ UNCHANGED <<completed, finding, result, decided>>
  BY DEF MarkLogAsContainingPrepSection
<1>5. prepared' \in [Logs -> Nat] /\ completed' \in [Logs -> Nat]
      /\ decided' \in [Logs -> Nat] /\ finding' \in BOOLEAN
      /\ result' \in Logs \cup {0, None}
      /\ \A l \in Logs : prepared'[l] = IF l = log THEN prepared[l] + 1 ELSE prepared[l]
  BY <1>4 DEF IInv, TypeOK
<1>6. CASE p <= n /\ L[p].log = log
  <2>1. L' = [L EXCEPT ![p].cnt = @ + 1]
    BY <1>3, <1>6
  <2>2. L' \in Seq(Entry) /\ Len(L') = n
        /\ \A i \in 1 .. n :
             /\ L'[i].log = L[i].log
             /\ L'[i].cnt = IF i = p THEN L[i].cnt + 1 ELSE L[i].cnt
    BY <1>1, <1>6, <2>1 DEF Entry
  <2>3. TypeOK' BY <2>2, <1>5 DEF TypeOK, Entry
  <2>4. Sorted' BY <2>2 DEF IInv, Sorted
  <2>5. \A i \in 1 .. n : i # p => L[i].log # log
    BY <1>1, <1>2, <1>6 DEF IInv, Sorted, Entry
  <2>6. \A l \in Logs : Listed(l)' = Listed(l)
    BY <2>2 DEF Listed
  <2>7. Balanced'
    <3>1. ASSUME NEW i \in 1 .. n
          PROVE  /\ completed'[L'[i].log] <= L'[i].cnt
                 /\ L'[i].cnt + decided'[L'[i].log]
                      = completed'[L'[i].log] + prepared'[L'[i].log]
      <4>1. L[i].log \in Logs /\ L[i].cnt \in Nat
        BY <1>1 DEF Entry
      <4>2. /\ completed[L[i].log] \in Nat /\ decided[L[i].log] \in Nat
            /\ prepared[L[i].log] \in Nat
        BY <4>1 DEF IInv, TypeOK
      <4>3. /\ completed[L[i].log] <= L[i].cnt
            /\ L[i].cnt + decided[L[i].log]
                 = completed[L[i].log] + prepared[L[i].log]
        BY DEF IInv, Balanced
      <4>4. CASE i = p
        <5>1. L'[i].cnt = L[i].cnt + 1 /\ L'[i].log = log /\ L[i].log = log
              /\ prepared'[log] = prepared[log] + 1
          BY <4>4, <2>2, <1>5, <1>6
        <5>2. completed' = completed /\ decided' = decided BY <1>4
        <5>3. /\ completed[log] <= L[i].cnt
              /\ L[i].cnt + decided[log] = completed[log] + prepared[log]
              /\ completed[log] \in Nat /\ decided[log] \in Nat
              /\ prepared[log] \in Nat /\ L[i].cnt \in Nat
          BY <5>1, <4>1, <4>2, <4>3
        <5>4. /\ completed[log] <= L[i].cnt + 1
              /\ (L[i].cnt + 1) + decided[log] = completed[log] + (prepared[log] + 1)
          <6> DEFINE c == L[i].cnt
                     d == decided[log]
                     f == completed[log]
                     r == prepared[log]
          <6>1. c \in Nat /\ d \in Nat /\ f \in Nat /\ r \in Nat
                /\ f <= c /\ c + d = f + r
            BY <5>3
          <6> HIDE DEF c, d, f, r
          <6>2. f <= c + 1 /\ (c + 1) + d = f + (r + 1)
            BY <6>1
          <6> QED BY <6>2 DEF c, d, f, r
        <5> QED BY <5>1, <5>2, <5>4
      <4>5. CASE i # p
        <5>1. L'[i].cnt = L[i].cnt /\ L'[i].log = L[i].log
              /\ prepared'[L[i].log] = prepared[L[i].log]
          BY <4>1, <4>5, <2>2, <2>5, <1>5
        <5> QED BY <5>1, <4>3, <1>4
      <4> QED BY <4>4, <4>5
    <3>2. ASSUME NEW l \in Logs, ~Listed(l)'
          PROVE  completed'[l] = 0 /\ prepared'[l] = decided'[l]
      <4>1. ~Listed(l) BY <2>6, <3>2
      <4>2. l # log BY <4>1, <1>6, <1>1 DEF Listed
      <4> QED BY <4>1, <4>2, <1>4, <1>5 DEF IInv, Balanced
    <3> QED BY <3>1, <3>2, <2>2 DEF Balanced
  <2> QED BY <2>3, <2>4, <2>7 DEF IInv
<1>7. CASE ~(p <= n /\ L[p].log = log)
  <2> DEFINE e == [log |-> log, cnt |-> 1]
  <2>1. e \in Entry /\ e.log = log /\ e.cnt = 1 /\ L' = PutAt(L, p, e)
    BY <1>3, <1>7 DEF Entry
  <2> HIDE DEF e
  <2>2. L' \in Seq(Entry) /\ Len(L') = n + 1
        /\ \A i \in 1 .. n + 1 :
             L'[i] = IF i < p THEN L[i] ELSE IF i = p THEN e ELSE L[i - 1]
    <3>1. PutAt(L, p, e) \in Seq(Entry) /\ Inserted(PutAt(L, p, e), L, p, e)
      <4>1. L \in Seq(Entry) /\ e \in Entry /\ p \in 1 .. Len(L) + 1
        BY <2>1, <1>1
      <4> HIDE DEF L
      <4> QED BY <4>1, PutAtProperties
    <3>2. L' \in Seq(Entry) /\ Inserted(L', L, p, e)
      BY <3>1, <2>1
    <3> QED BY <3>2 DEF Inserted
  <2>3. TypeOK' BY <2>2, <1>5 DEF TypeOK, Entry
  <2>4. \A i \in 1 .. n : i < p => L[i].log < log
    BY <1>1, <1>3
  <2>5. \A i \in 1 .. n : i >= p => L[i].log > log
    <3> SUFFICES ASSUME NEW i \in 1 .. n, i >= p PROVE L[i].log > log
      OBVIOUS
    <3>1. L[i].log >= log /\ L[p].log >= log /\ p \in 1 .. n
      BY <1>1, <1>3
    <3>2. L[p].log \in Nat /\ L[i].log \in Nat /\ log \in Nat
      <4>1. L[p].log \in Logs /\ L[i].log \in Logs
        BY <1>1, <3>1 DEF Entry
      <4> QED BY <4>1, <1>2
    <3>3. L[p].log > log BY <3>1, <3>2, <1>7
    <3>4. i = p \/ L[p].log < L[i].log
      BY <3>1 DEF IInv, Sorted
    <3> QED BY <3>2, <3>3, <3>4
  <2>6. Sorted'
    <3> SUFFICES ASSUME NEW i \in 1 .. n + 1, NEW j \in 1 .. n + 1, i < j
                 PROVE  L'[i].log < L'[j].log
      BY <2>2 DEF Sorted
    <3>1. CASE j < p
      <4>1. L'[j] = L[j] /\ L'[i] = L[i] /\ i \in 1 .. n /\ j \in 1 .. n
        BY <3>1, <2>2, <1>1
      <4> QED BY <4>1 DEF IInv, Sorted
    <3>2. CASE j = p
      <4>1. L'[j] = e /\ L'[i] = L[i] /\ i \in 1 .. n /\ i < p
        BY <3>2, <2>2, <1>1
      <4> QED BY <4>1, <2>1, <2>4
    <3>3. CASE i < p /\ j > p
      <4>1. L'[i] = L[i] /\ L'[j] = L[j - 1] /\ j - 1 \in 1 .. n /\ i < j - 1
            /\ i \in 1 .. n
        BY <3>3, <2>2, <1>1
      <4> QED BY <4>1 DEF IInv, Sorted
    <3>4. CASE i = p
      <4>1. L'[i] = e /\ L'[j] = L[j - 1] /\ j - 1 \in 1 .. n /\ j - 1 >= p
        BY <3>4, <2>2, <1>1
      <4>2. L[j - 1].log > log /\ L[j - 1].log \in Nat /\ log \in Nat
        BY <4>1, <2>5, <1>1, <1>2 DEF Entry
      <4> QED BY <4>1, <4>2, <2>1
    <3>5. CASE i > p
      <4>1. L'[i] = L[i - 1] /\ L'[j] = L[j - 1] /\ i - 1 \in 1 .. n
            /\ j - 1 \in 1 .. n /\ i - 1 < j - 1
        BY <3>5, <2>2, <1>1
      <4> QED BY <4>1 DEF IInv, Sorted
    <3>6. j < p \/ j = p \/ (i < p /\ j > p) \/ i = p \/ i > p
      BY <1>1
    <3> QED BY <3>1, <3>2, <3>3, <3>4, <3>5, <3>6
  <2>7. ~Listed(log)
    <3>1. ASSUME NEW i \in 1 .. n PROVE L[i].log # log
      <4>1. L[i].log \in Nat /\ log \in Nat /\ i \in Nat /\ p \in Nat
        <5>1. L[i].log \in Logs BY <1>1 DEF Entry
        <5>2. L[i].log \in Nat /\ log \in Nat BY <5>1, <1>2
        <5>3. i \in Nat /\ p \in Nat BY <1>1
        <5> QED BY <5>2, <5>3
      <4>2. i < p \/ i >= p BY <4>1
      <4>3. L[i].log < log \/ L[i].log > log BY <4>2, <2>4, <2>5
      <4> DEFINE k == L[i].log
      <4>4. k \in Nat /\ (k < log \/ k > log) /\ log \in Nat
        BY <4>1, <4>3
      <4> HIDE DEF k
      <4>5. k # log BY <4>4
      <4> QED BY <4>5 DEF k
    <3> QED BY <3>1 DEF Listed
  <2>8. completed[log] = 0 /\ prepared[log] = decided[log]
    BY <2>7 DEF IInv, Balanced
  <2>9. Balanced'
    <3>1. ASSUME NEW i \in 1 .. n + 1
          PROVE  /\ completed'[L'[i].log] <= L'[i].cnt
                 /\ L'[i].cnt + decided'[L'[i].log]
                      = completed'[L'[i].log] + prepared'[L'[i].log]
      <4>1. ASSUME NEW k \in 1 .. n, L'[i] = L[k]
            PROVE  /\ completed'[L'[i].log] <= L'[i].cnt
                   /\ L'[i].cnt + decided'[L'[i].log]
                        = completed'[L'[i].log] + prepared'[L'[i].log]
        <5>1. L[k].log # log BY <2>7 DEF Listed
        <5>2. L[k].log \in Logs BY <1>1 DEF Entry
        <5> QED BY <4>1, <5>1, <5>2, <1>4, <1>5 DEF IInv, Balanced
      <4>2. CASE i = p
        <5>1. L'[i].log = log /\ L'[i].cnt = 1
          BY <4>2, <2>1, <2>2
        <5>2. prepared[log] \in Nat BY DEF IInv, TypeOK
        <5> QED BY <5>1, <5>2, <2>8, <1>4, <1>5
      <4>3. i = p \/ \E k \in 1 .. n : L'[i] = L[k]
        <5>1. CASE i < p BY <5>1, <2>2, <1>1
        <5>2. CASE i > p
          <6>1. i - 1 \in 1 .. n /\ L'[i] = L[i - 1] BY <5>2, <2>2, <1>1
          <6> QED BY <6>1
        <5> QED BY <5>1, <5>2, <1>1
      <4> QED BY <4>1, <4>2, <4>3
    <3>2. ASSUME NEW l \in Logs, ~Listed(l)'
          PROVE  completed'[l] = 0 /\ prepared'[l] = decided'[l]
      <4>1. l # log
        <5>1. p \in 1 .. n + 1 /\ L'[p].log = log BY <2>1, <2>2, <1>1
        <5> QED BY <5>1, <3>2, <2>2 DEF Listed
      <4>2. ~Listed(l)
        <5> SUFFICES ASSUME NEW k \in 1 .. n, L[k].log = l PROVE FALSE
          BY DEF Listed
        <5>1. CASE k < p
          <6>1. k \in 1 .. n + 1 /\ L'[k] = L[k] BY <5>1, <2>2, <1>1
          <6> QED BY <6>1, <3>2, <2>2 DEF Listed
        <5>2. CASE k >= p
          <6>1. k + 1 \in 1 .. n + 1 /\ L'[k + 1] = L[k]
            <7>1. k + 1 \in 1 .. n + 1 /\ ~(k + 1 < p) /\ k + 1 # p /\ k + 1 - 1 = k
              BY <5>2, <1>1
            <7> QED BY <7>1, <2>2
          <6> QED BY <6>1, <3>2, <2>2 DEF Listed
        <5>3. k < p \/ k >= p BY <1>1
        <5> QED BY <5>1, <5>2, <5>3
      <4> QED BY <4>1, <4>2, <1>4, <1>5 DEF IInv, Balanced
    <3> QED BY <3>1, <3>2, <2>2 DEF Balanced
  <2> QED BY <2>3, <2>6, <2>9 DEF IInv
<1> QED BY <1>6, <1>7

(* MarkLogAsHavingPrepSectionFlushed only decides a section that is        *)
(* outstanding, so its log is listed with a count above the completions.   *)
LEMMA FlushedPreserves ==
    ASSUME IInv, NEW log \in Logs, MarkLogAsHavingPrepSectionFlushed(log)
    PROVE  IInv'
<1> DEFINE L == logs_with_prep
<1>1. L \in Seq(Entry) /\ \A i \in 1 .. Len(L) : L[i] \in Entry
  BY ListFacts DEF IInv
<1>2. /\ prepared[log] > decided[log]
      /\ completed' = [completed EXCEPT ![log] = @ + 1]
      /\ decided' = [decided EXCEPT ![log] = @ + 1]
      /\ UNCHANGED <<logs_with_prep, finding, result, prepared>>
  BY DEF MarkLogAsHavingPrepSectionFlushed, Outstanding
<1>3. TypeOK'
  BY <1>2 DEF IInv, TypeOK
<1>4. Sorted'
  BY <1>2 DEF IInv, Sorted
<1>5. \A l \in Logs : prepared[l] \in Nat /\ decided[l] \in Nat /\ completed[l] \in Nat
  BY DEF IInv, TypeOK
<1>6. Listed(log)
  BY <1>2, <1>5 DEF IInv, Balanced
<1>7. Balanced'
  <2>1. ASSUME NEW i \in 1 .. Len(L)
        PROVE  /\ completed'[L[i].log] <= L[i].cnt
               /\ L[i].cnt + decided'[L[i].log] = completed'[L[i].log] + prepared[L[i].log]
    <3> DEFINE k == L[i].log
               c == L[i].cnt
    <3>1. k \in Logs /\ c \in Nat
      BY <1>1 DEF Entry
    <3>2. completed[k] <= c /\ c + decided[k] = completed[k] + prepared[k]
      BY DEF IInv, Balanced
    <3>3. CASE k # log
      <4>1. completed'[k] = completed[k] /\ decided'[k] = decided[k]
        BY <1>2, <3>1, <3>3 DEF IInv, TypeOK
      <4> QED BY <4>1, <3>2
    <3>4. CASE k = log
      <4> DEFINE d == decided[k]
                 f == completed[k]
                 r == prepared[k]
      <4>1. completed'[k] = f + 1 /\ decided'[k] = d + 1 /\ r > d
            /\ f <= c /\ c + d = f + r
        BY <1>2, <3>1, <3>2, <3>4 DEF IInv, TypeOK
      <4>2. c \in Nat /\ d \in Nat /\ f \in Nat /\ r \in Nat
        BY <1>5, <3>1
      <4> HIDE DEF c, d, f, r, k
      <4>3. f + 1 <= c /\ c + (d + 1) = (f + 1) + r
        BY <4>1, <4>2
      <4>4. completed'[k] <= c /\ c + decided'[k] = completed'[k] + r
        BY <4>1, <4>3
      <4> QED BY <4>4 DEF c, r, k
    <3> QED BY <3>3, <3>4
  <2>2. ASSUME NEW l \in Logs, ~Listed(l)'
        PROVE  completed'[l] = 0 /\ prepared'[l] = decided'[l]
    <3>1. ~Listed(l)
      BY <2>2, <1>2 DEF Listed
    <3>2. l # log
      BY <3>1, <1>6
    <3>3. completed'[l] = completed[l] /\ decided'[l] = decided[l] /\ prepared' = prepared
      BY <1>2, <3>2 DEF IInv, TypeOK
    <3> QED BY <3>1, <3>3 DEF IInv, Balanced
  <2>3. logs_with_prep' = L /\ prepared' = prepared
    BY <1>2
  <2> QED BY <2>1, <2>2, <2>3 DEF Balanced
<1> QED BY <1>3, <1>4, <1>7 DEF IInv

(* An iteration of FindMinLogContainingOutstandingPrep erases the head of  *)
(* the list only when all its sections are decided.                        *)
LEMMA FindStepPreserves ==
    ASSUME IInv, FindStep
    PROVE  IInv'
<1> DEFINE L == logs_with_prep
           n == Len(L)
           h == L[1]
<1>1. L \in Seq(Entry) /\ L # <<>> /\ n \in Nat \ {0} /\ Head(L) = h
      /\ \A i \in 1 .. n : L[i] \in Entry
  BY ListFacts DEF IInv, FindStep
<1>2. h \in Entry /\ h.log \in Logs /\ h.cnt \in Nat
  BY <1>1 DEF Entry
<1>3. UNCHANGED <<prepared, decided>>
  BY DEF FindStep
<1>4. CASE UNCHANGED <<logs_with_prep, completed>> /\ result' = h.log /\ finding' = FALSE
  <2>1. TypeOK' BY <1>2, <1>3, <1>4 DEF IInv, TypeOK
  <2>2. Sorted' BY <1>4 DEF IInv, Sorted
  <2>3. Balanced' BY <1>3, <1>4 DEF IInv, Balanced, Listed
  <2> QED BY <2>1, <2>2, <2>3 DEF IInv
<1>5. CASE /\ ~(completed[h.log] < h.cnt)
           /\ completed' = [completed EXCEPT ![h.log] = 0]
           /\ L' = Tail(L)
           /\ UNCHANGED <<finding, result>>
  <2>1. L' \in Seq(Entry) /\ Len(L') = n - 1
        /\ \A i \in 1 .. n - 1 : L'[i] = L[i + 1]
    BY <1>1, <1>5, HeadTailProperties
  <2>2. TypeOK' BY <1>2, <1>3, <1>5, <2>1 DEF IInv, TypeOK, Entry
  <2>3. Sorted'
    <3> SUFFICES ASSUME NEW i \in 1 .. n - 1, NEW j \in 1 .. n - 1, i < j
                 PROVE  L'[i].log < L'[j].log
      BY <2>1 DEF Sorted
    <3>1. i + 1 \in 1 .. n /\ j + 1 \in 1 .. n /\ i + 1 < j + 1
      BY <1>1
    <3>2. L[i + 1].log < L[j + 1].log
      BY <3>1 DEF IInv, Sorted
    <3> QED BY <3>2, <2>1
  <2>4. \A i \in 2 .. n : L[i].log # h.log
    <3> SUFFICES ASSUME NEW i \in 2 .. n PROVE L[i].log # h.log
      OBVIOUS
    <3>1. i \in 1 .. n /\ 1 \in 1 .. n /\ 1 < i
      BY <1>1
    <3>2. h.log < L[i].log
      BY <3>1 DEF IInv, Sorted
    <3>3. h.log \in Nat
      BY <1>2, LogsAssumption
    <3> QED BY <3>2, <3>3
  <2>5. prepared[h.log] = decided[h.log]
    <3> DEFINE c == h.cnt
               d == decided[h.log]
               f == completed[h.log]
               r == prepared[h.log]
    <3>1. f <= c /\ c + d = f + r
      BY <1>1 DEF IInv, Balanced
    <3>2. c \in Nat /\ d \in Nat /\ f \in Nat /\ r \in Nat /\ ~(f < c)
      BY <1>2, <1>5 DEF IInv, TypeOK
    <3> HIDE DEF c, d, f, r
    <3>3. r = d BY <3>1, <3>2
    <3> QED BY <3>3 DEF r, d
  <2>6. Balanced'
    <3>1. ASSUME NEW i \in 1 .. n - 1
          PROVE  /\ completed'[L'[i].log] <= L'[i].cnt
                 /\ L'[i].cnt + decided'[L'[i].log]
                      = completed'[L'[i].log] + prepared'[L'[i].log]
      <4>1. L'[i] = L[i + 1] /\ i + 1 \in 1 .. n /\ i + 1 \in 2 .. n
        BY <2>1, <1>1
      <4>2. L[i + 1].log \in Logs /\ L[i + 1].log # h.log
        BY <4>1, <2>4, <1>1 DEF Entry
      <4>3. completed'[L[i + 1].log] = completed[L[i + 1].log]
        BY <4>2, <1>5 DEF IInv, TypeOK
      <4>4. /\ completed[L[i + 1].log] <= L[i + 1].cnt
            /\ L[i + 1].cnt + decided[L[i + 1].log]
                 = completed[L[i + 1].log] + prepared[L[i + 1].log]
        BY <4>1 DEF IInv, Balanced
      <4> QED BY <4>1, <4>3, <4>4, <1>3
    <3>2. ASSUME NEW l \in Logs, ~Listed(l)'
          PROVE  completed'[l] = 0 /\ prepared'[l] = decided'[l]
      <4>1. CASE l = h.log
        BY <4>1, <2>5, <1>3, <1>5 DEF IInv, TypeOK
      <4>2. CASE l # h.log
        <5>1. ~Listed(l)
          <6> SUFFICES ASSUME NEW k \in 1 .. n, L[k].log = l PROVE FALSE
            BY DEF Listed
          <6>1. k # 1
            BY <4>2
          <6>2. k - 1 \in 1 .. n - 1 /\ (k - 1) + 1 = k
            BY <6>1, <1>1
          <6>3. L'[k - 1] = L[k]
            BY <6>2, <2>1
          <6> QED BY <6>2, <6>3, <3>2, <2>1 DEF Listed
        <5>2. completed'[l] = completed[l]
          BY <4>2, <1>5 DEF IInv, TypeOK
        <5> QED BY <5>1, <5>2, <1>3 DEF IInv, Balanced
      <4> QED BY <4>1, <4>2
    <3> QED BY <3>1, <3>2, <2>1 DEF Balanced
  <2> QED BY <2>2, <2>3, <2>6 DEF IInv
<1> QED BY <1>1, <1>4, <1>5 DEF FindStep, UndecidedIn

(* The inductive invariant holds in every reachable state.                 *)
LEMMA Invariance == Spec => []IInv
<1>1. Init => IInv
  <2> SUFFICES ASSUME Init PROVE IInv
    OBVIOUS
  <2>1. TypeOK
    <3>1. <<>> \in Seq([log : Logs, cnt : Nat \ {0}])
      OBVIOUS
    <3> QED BY <3>1 DEF Init, TypeOK
  <2>2. Sorted BY DEF Init, Sorted
  <2>3. Balanced BY DEF Init, Balanced
  <2> QED BY <2>1, <2>2, <2>3 DEF IInv
<1>2. IInv /\ [Next]_vars => IInv'
  <2> SUFFICES ASSUME IInv, [Next]_vars PROVE IInv'
    OBVIOUS
  <2>1. ASSUME NEW log \in Logs, MarkLogAsContainingPrepSection(log) PROVE IInv'
    BY <2>1, ContainingPreserves
  <2>2. ASSUME NEW log \in Logs, MarkLogAsHavingPrepSectionFlushed(log) PROVE IInv'
    BY <2>2, FlushedPreserves
  <2>3. CASE FindBegin
    <3>1. TypeOK' BY <2>3 DEF FindBegin, IInv, TypeOK
    <3>2. Sorted' BY <2>3 DEF FindBegin, IInv, Sorted
    <3>3. Balanced' BY <2>3 DEF FindBegin, IInv, Balanced, Listed
    <3> QED BY <3>1, <3>2, <3>3 DEF IInv
  <2>4. CASE FindStep
    BY <2>4, FindStepPreserves
  <2>5. CASE FindNone
    <3>1. TypeOK' BY <2>5 DEF FindNone, IInv, TypeOK
    <3>2. Sorted' BY <2>5 DEF FindNone, IInv, Sorted
    <3>3. Balanced' BY <2>5 DEF FindNone, IInv, Balanced, Listed
    <3> QED BY <3>1, <3>2, <3>3 DEF IInv
  <2>6. CASE UNCHANGED vars
    BY <2>6 DEF vars, IInv, TypeOK, Sorted, Balanced, Listed
  <2> QED BY <2>1, <2>2, <2>3, <2>4, <2>5, <2>6 DEF Next
<1> QED BY <1>1, <1>2, PTL DEF Spec

(* Type correctness of the tracker, for every set of logs.                 *)
THEOREM Typing == Spec => []TypeOK
<1>1. IInv => TypeOK
  BY DEF IInv
<1> QED BY <1>1, Invariance, PTL

(* FindMinLogContainingOutstandingPrep is exact for every number of logs   *)
(* and of sections, completions racing its loop included: the log it names *)
(* holds an undecided section and no smaller log does.                     *)
THEOREM FindExact == Spec => FindIsExact
<1> DEFINE Exact ==
             (finding /\ ~finding') =>
                IF result' = 0
                THEN \A l \in Logs : ~Outstanding(l)
                ELSE /\ Outstanding(result')
                     /\ \A l \in Logs : l < result' => ~Outstanding(l)
<1>1. IInv /\ [Next]_vars => [Exact]_vars
  <2> SUFFICES ASSUME IInv, Next, finding, ~finding'
               PROVE  IF result' = 0
                      THEN \A l \in Logs : ~Outstanding(l)
                      ELSE /\ Outstanding(result')
                           /\ \A l \in Logs : l < result' => ~Outstanding(l)
    OBVIOUS
  <2>1. FindStep \/ FindNone
    BY DEF Next, FindBegin, MarkLogAsContainingPrepSection,
           MarkLogAsHavingPrepSectionFlushed
  <2>2. \A l \in Logs : prepared[l] \in Nat /\ decided[l] \in Nat /\ completed[l] \in Nat
    BY DEF IInv, TypeOK
  <2>3. CASE FindNone
    <3>1. \A l \in Logs : ~Listed(l)
      BY <2>3 DEF FindNone, Listed
    <3>2. result' = 0
      BY <2>3 DEF FindNone
    <3> QED BY <3>1, <3>2, <2>2 DEF IInv, Balanced, Outstanding
  <2>4. CASE FindStep
    <3> DEFINE L == logs_with_prep
               h == L[1]
    <3>1. /\ L # <<>> /\ Head(L) = h /\ 1 \in 1 .. Len(L)
          /\ h \in Entry /\ L \in Seq(Entry)
      BY <2>4, ListFacts DEF FindStep, IInv
    <3>2. completed[h.log] < h.cnt /\ result' = h.log
      BY <2>4, <3>1 DEF FindStep, UndecidedIn
    <3>3. h.log \in Logs /\ h.log # 0 /\ h.cnt \in Nat /\ h.log \in Nat
      BY <3>1, LogsAssumption DEF Entry
    <3>4. Outstanding(h.log)
      <4> DEFINE c == h.cnt
                 d == decided[h.log]
                 f == completed[h.log]
                 r == prepared[h.log]
      <4>1. c + d = f + r /\ f < c
        BY <3>1, <3>2 DEF IInv, Balanced
      <4>2. c \in Nat /\ d \in Nat /\ f \in Nat /\ r \in Nat
        BY <3>3, <2>2
      <4> HIDE DEF c, d, f, r
      <4>3. r > d BY <4>1, <4>2
      <4> QED BY <4>3 DEF r, d, Outstanding
    <3>5. ASSUME NEW l \in Logs, l < h.log
          PROVE  ~Outstanding(l)
      <4>1. ~Listed(l)
        <5> SUFFICES ASSUME NEW k \in 1 .. Len(L), L[k].log = l PROVE FALSE
          BY DEF Listed
        <5>1. k = 1 \/ h.log < L[k].log
          BY <3>1 DEF IInv, Sorted
        <5>2. l \in Nat
          BY LogsAssumption
        <5> QED BY <5>1, <5>2, <3>3, <3>5
      <4> QED BY <4>1, <2>2 DEF IInv, Balanced, Outstanding
    <3> QED BY <3>2, <3>3, <3>4, <3>5
  <2> QED BY <2>1, <2>3, <2>4
<1> QED BY <1>1, Invariance, PTL DEF Spec, FindIsExact
=============================================================================
