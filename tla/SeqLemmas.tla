----------------------------- MODULE SeqLemmas -----------------------------
(* What the sequence operators used by the models do, element by element.  *)
EXTENDS Lists, SequenceTheorems, TLAPS

(* t is s with e put in at place p. *)
Inserted(t, s, p, e) ==
    /\ Len(t) = Len(s) + 1
    /\ \A i \in 1 .. Len(s) + 1 :
         t[i] = IF i < p THEN s[i] ELSE IF i = p THEN e ELSE s[i - 1]

(* t is s without its place p. *)
Removed(t, s, p) ==
    /\ Len(t) = Len(s) - 1
    /\ \A i \in 1 .. Len(s) - 1 : t[i] = IF i < p THEN s[i] ELSE s[i + 1]

(* Inserting into a sequence shifts the rest by one place. *)
LEMMA PutAtProperties ==
    ASSUME NEW S, NEW s \in Seq(S), NEW e \in S, NEW p \in 1 .. Len(s) + 1
    PROVE  /\ PutAt(s, p, e) \in Seq(S)
           /\ Inserted(PutAt(s, p, e), s, p, e)
<1> DEFINE a == SubSeq(s, 1, p - 1)
           b == SubSeq(s, p, Len(s))
           ae == a \o <<e>>
<1>1. a \in Seq(S) /\ Len(a) = p - 1 /\ \A i \in 1 .. p - 1 : a[i] = s[i]
  BY SubSeqProperties
<1>2. b \in Seq(S) /\ Len(b) = Len(s) - p + 1
      /\ \A i \in 1 .. Len(s) - p + 1 : b[i] = s[p + i - 1]
  BY SubSeqProperties
<1>3. ae \in Seq(S) /\ Len(ae) = p
      /\ \A i \in 1 .. p : ae[i] = IF i < p THEN a[i] ELSE e
  <2>1. <<e>> \in Seq(S) /\ Len(<<e>>) = 1 /\ <<e>>[1] = e
    OBVIOUS
  <2> HIDE DEF a
  <2> QED BY <2>1, <1>1, ConcatProperties
<1> HIDE DEF a, b, ae
<1>4. ae \o b \in Seq(S) /\ Len(ae \o b) = Len(s) + 1
      /\ \A i \in 1 .. Len(s) + 1 :
           (ae \o b)[i] = IF i <= p THEN ae[i] ELSE b[i - p]
  BY <1>2, <1>3, ConcatProperties
<1>5. PutAt(s, p, e) = ae \o b
  BY DEF PutAt, a, b, ae
<1>6. ASSUME NEW i \in 1 .. Len(s) + 1
      PROVE  (ae \o b)[i] = IF i < p THEN s[i] ELSE IF i = p THEN e ELSE s[i - 1]
  <2>0. Len(s) \in Nat /\ i \in Int /\ p \in Int
    BY LenProperties
  <2>1. CASE i < p
    <3>1. (ae \o b)[i] = ae[i]
      BY <2>0, <2>1, <1>4
    <3>2. ae[i] = a[i] /\ a[i] = s[i]
      BY <2>0, <2>1, <1>1, <1>3
    <3> QED BY <3>1, <3>2, <2>1
  <2>2. CASE i = p
    <3>1. (ae \o b)[i] = ae[i] /\ ae[i] = e
      BY <2>0, <2>2, <1>3, <1>4
    <3> QED BY <3>1, <2>0, <2>2
  <2>3. CASE i > p
    <3>1. i - p \in 1 .. Len(s) - p + 1 /\ p + (i - p) - 1 = i - 1
      BY <2>0, <2>3
    <3> QED BY <3>1, <2>0, <2>3, <1>2, <1>4
  <2>4. i < p \/ i = p \/ i > p
    BY <2>0
  <2> QED BY <2>1, <2>2, <2>3, <2>4
<1>7. Inserted(ae \o b, s, p, e)
  BY <1>4, <1>6 DEF Inserted
<1> QED BY <1>4, <1>5, <1>7

(* Removing one place of a sequence closes the gap. *)
LEMMA DropAtProperties ==
    ASSUME NEW S, NEW s \in Seq(S), NEW p \in 1 .. Len(s)
    PROVE  /\ DropAt(s, p) \in Seq(S)
           /\ Removed(DropAt(s, p), s, p)
<1> DEFINE a == SubSeq(s, 1, p - 1)
           b == SubSeq(s, p + 1, Len(s))
<1>1. a \in Seq(S) /\ Len(a) = p - 1 /\ \A i \in 1 .. p - 1 : a[i] = s[i]
  BY SubSeqProperties
<1>2. b \in Seq(S) /\ Len(b) = Len(s) - p
      /\ \A i \in 1 .. Len(s) - p : b[i] = s[p + i]
  BY SubSeqProperties
<1> HIDE DEF a, b
<1>3. a \o b \in Seq(S) /\ Len(a \o b) = Len(s) - 1
      /\ \A i \in 1 .. Len(s) - 1 :
           (a \o b)[i] = IF i <= p - 1 THEN a[i] ELSE b[i - (p - 1)]
  BY <1>1, <1>2, ConcatProperties
<1>4. DropAt(s, p) = a \o b
  BY DEF DropAt, a, b
<1>5. ASSUME NEW i \in 1 .. Len(s) - 1
      PROVE  (a \o b)[i] = IF i < p THEN s[i] ELSE s[i + 1]
  <2>0. Len(s) \in Nat /\ i \in Int /\ p \in Int
    BY LenProperties
  <2>1. CASE i < p
    BY <2>0, <2>1, <1>1, <1>3
  <2>2. CASE i >= p
    <3>1. i - (p - 1) \in 1 .. Len(s) - p /\ p + (i - (p - 1)) = i + 1
      BY <2>0, <2>2
    <3> QED BY <3>1, <2>0, <2>2, <1>2, <1>3
  <2>3. i < p \/ i >= p
    BY <2>0
  <2> QED BY <2>1, <2>2, <2>3
<1>6. Removed(a \o b, s, p)
  BY <1>3, <1>5 DEF Removed
<1> QED BY <1>3, <1>4, <1>6
=============================================================================
