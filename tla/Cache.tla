------------------------------- MODULE Cache -------------------------------
(***************************************************************************)
(* What the Cache interface (include/xiaodb/advanced_cache.h) promises its *)
(* clients, whatever the implementation evicts and when.  A key maps to    *)
(* the entry its clients put there last, or to nothing.  An entry leaves   *)
(* the map because a client erases or replaces it under its own key, or    *)
(* drops the last reference to it; unasked, only while nobody references   *)
(* it.  Its memory stays valid until the last reference is released.       *)
(***************************************************************************)
EXTENDS Naturals

CONSTANTS Keys, Handles, Nil

VARIABLES
    map,     \* the entry a key is cached as, or Nil
    refs,    \* references the clients hold on an entry
    live,    \* entries whose memory is valid
    keyOf,   \* the key a live entry was created with
    asked    \* the running Insert or Erase of a client and its key

vars == <<map, refs, live, keyOf, asked>>

Nothing == [op |-> "none", key |-> Nil]

Init ==
    /\ map = [k \in Keys |-> Nil]
    /\ refs = [h \in Handles |-> 0]
    /\ live = {}
    /\ keyOf = [h \in Handles |-> Nil]
    /\ asked = Nothing

(* A client calls Insert or Erase. *)
Ask(op, k) ==
    /\ asked = Nothing
    /\ asked' = [op |-> op, key |-> k]
    /\ UNCHANGED <<map, refs, live, keyOf>>

Answered(op) == asked.op = op /\ asked' = Nothing

Create(h, k, r) ==
    /\ h \notin live
    /\ live' = live \cup {h}
    /\ keyOf' = [keyOf EXCEPT ![h] = k]
    /\ refs' = [refs EXCEPT ![h] = r]

(* The new entry is cached, in place of the old one of its key, and        *)
(* perhaps referenced at once.                                             *)
Insert(h, r) ==
    /\ Answered("Insert")
    /\ Create(h, asked.key, r)
    /\ map' = [map EXCEPT ![asked.key] = h]

(* The new entry is turned away and about to be freed. *)
TurnAway(h) ==
    /\ Answered("Insert")
    /\ Create(h, asked.key, 0)
    /\ UNCHANGED map

(* The call fails and creates nothing. *)
Refuse ==
    /\ Answered("Insert")
    /\ UNCHANGED <<map, refs, live, keyOf>>

Erase ==
    /\ Answered("Erase")
    /\ map' = [map EXCEPT ![asked.key] = Nil]
    /\ UNCHANGED <<refs, live, keyOf>>

CreateStandalone(h, k) == Create(h, k, 1) /\ UNCHANGED <<map, asked>>

(* Lookup and Ref: one more reference on a cached or referenced entry. *)
Acquire(h) ==
    /\ refs[h] > 0 \/ \E k \in Keys : map[k] = h
    /\ refs' = [refs EXCEPT ![h] = @ + 1]
    /\ UNCHANGED <<map, live, keyOf, asked>>

(* The last release may also drop the entry from the map. *)
Release(h) ==
    /\ refs[h] > 0
    /\ refs' = [refs EXCEPT ![h] = @ - 1]
    /\ \/ UNCHANGED map
       \/ refs[h] = 1 /\ map[keyOf[h]] = h /\ map' = [map EXCEPT ![keyOf[h]] = Nil]
    /\ UNCHANGED <<live, keyOf, asked>>

(* Eviction, at any time, of an entry nobody references. *)
Evict(k) ==
    /\ map[k] # Nil
    /\ refs[map[k]] = 0
    /\ map' = [map EXCEPT ![k] = Nil]
    /\ UNCHANGED <<refs, live, keyOf, asked>>

Free(h) ==
    /\ h \in live
    /\ refs[h] = 0
    /\ \A k \in Keys : map[k] # h
    /\ live' = live \ {h}
    /\ keyOf' = [keyOf EXCEPT ![h] = Nil]
    /\ UNCHANGED <<map, refs, asked>>

Next ==
    \/ \E k \in Keys : Ask("Insert", k) \/ Ask("Erase", k) \/ Evict(k)
    \/ Refuse \/ Erase
    \/ \E h \in Handles :
         \/ \E r \in {0, 1} : Insert(h, r)
         \/ TurnAway(h)
         \/ \E k \in Keys : CreateStandalone(h, k)
         \/ Acquire(h) \/ Release(h) \/ Free(h)

Spec == Init /\ [][Next]_vars
=============================================================================
