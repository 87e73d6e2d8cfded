--------------------------- MODULE ThreadLocalPtr ---------------------------
(***************************************************************************)
(* ThreadLocalPtr: each thread has a slot per instance.  The owner reads   *)
(* and writes its slots without a lock; Scrape, ReclaimId and OnThreadExit *)
(* reach the slots of other threads under the mutex of StaticMeta, and so  *)
(* does a thread that has to enlarge its own vector.  The users are those  *)
(* of column_family.h: a pointer is a counted reference that is stored in  *)
(* one slot only, taken out with a mark left in its place, and put back if *)
(* the mark is still there.                                                *)
(***************************************************************************)
EXTENDS Integers, Sequences, SequencesExt, FiniteSets

CONSTANTS Threads,
          Instances,      \* ThreadLocalPtr objects
          Ptrs,           \* references
          Null,           \* nullptr
          InUse, Obsolete,    \* kSVInUse, kSVObsolete
          None

VARIABLES next_instance_id, free_instance_ids,
          handler_map,    \* does the id have a handler
          head,           \* the registered threads, in the order of the chain
          entries,        \* the vector of each thread, None before tls_ is set
          mutex,
          inst,           \* id_ and handler of each object
          op,             \* the call each thread is in
          walk,           \* the loop of Scrape
          hand,           \* references each thread holds
          pool            \* references not handed out

meta == <<next_instance_id, free_instance_ids, handler_map, inst>>
vars == <<meta, head, entries, mutex, op, walk, hand, pool>>

Ids == 0 .. Cardinality(Instances) - 1

Values == Ptrs \cup {Null, InUse, Obsolete}

Idle == [pc |-> "idle", call |-> None, i |-> None, ptr |-> Null, expected |-> Null, copy |-> <<>>]

IdOf(t) == inst[op[t].i].id

HasSlot(e, id) == e # None /\ id < Len(e)

Slot(t, id) == entries[t][id + 1]

(* What unref was called for returns to the pool, marks are ignored. *)
Unref(S) == pool' = pool \cup (S \cap Ptrs)

-----------------------------------------------------------------------------
(* Construction and destruction. *)

GetId(t, i, handler) ==
    /\ op[t] = Idle /\ inst[i] = None /\ mutex = None
    /\ \A s \in Threads : op[s].i # i
    /\ LET n == Len(free_instance_ids)
           id == IF n = 0 THEN next_instance_id ELSE free_instance_ids[n]
       IN  /\ next_instance_id' = IF n = 0 THEN next_instance_id + 1 ELSE next_instance_id
           /\ free_instance_ids' = IF n = 0 THEN <<>> ELSE Front(free_instance_ids)
           /\ IF handler
              THEN /\ op' = [op EXCEPT ![t] = [Idle EXCEPT !.pc = "handler", !.i = i, !.ptr = id]]
                   /\ UNCHANGED inst
              ELSE /\ inst' = [inst EXCEPT ![i] = [id |-> id, handler |-> FALSE]]
                   /\ UNCHANGED op
    /\ UNCHANGED <<handler_map, head, entries, mutex, walk, hand, pool>>

SetHandler(t) ==
    LET id == op[t].ptr
    IN  /\ op[t].pc = "handler" /\ mutex = None
        /\ handler_map' = [handler_map EXCEPT ![id] = TRUE]
        /\ inst' = [inst EXCEPT ![op[t].i] = [id |-> id, handler |-> TRUE]]
        /\ op' = [op EXCEPT ![t] = Idle]
        /\ UNCHANGED <<next_instance_id, free_instance_ids, head, entries, mutex, walk, hand, pool>>

MutCleared(id) == entries

(* The exchange with nullptr in the slot of every registered thread. *)
Cleared(id) ==
    [t \in Threads |-> IF t \in ToSet(head) /\ HasSlot(entries[t], id)
                       THEN [entries[t] EXCEPT ![id + 1] = Null] ELSE entries[t]]

MutUnhandled(id) == handler_map

Unhandled(id) == [handler_map EXCEPT ![id] = FALSE]

(* The destructor; nobody is still using the object. *)
ReclaimId(t, i) ==
    LET id == inst[i].id
    IN  /\ op[t] = Idle /\ inst[i] # None /\ mutex = None
        /\ \A s \in Threads : op[s].i # i
        /\ Unref({Slot(s, id) : s \in {r \in ToSet(head) : handler_map[id] /\ HasSlot(entries[r], id)}})
        /\ entries' = Cleared(id)
        /\ handler_map' = Unhandled(id)
        /\ free_instance_ids' = Append(free_instance_ids, id)
        /\ inst' = [inst EXCEPT ![i] = None]
        /\ UNCHANGED <<next_instance_id, head, mutex, op, walk, hand>>

-----------------------------------------------------------------------------
(* Get, Reset, Swap and CompareAndSwap by the owner of the slot. *)

Mine(t, i) ==
    IF HasSlot(entries[t], inst[i].id) THEN Slot(t, inst[i].id) ELSE Null

(* After GetThreadLocal: Get only reads; the vector may be too short. *)
Ready(call, i, e) ==
    IF call = "Get" THEN "idle" ELSE IF HasSlot(e, inst[i].id) THEN "access" ELSE "resize"

Begin(t, call, i, x, expected) ==
    LET pc == IF entries[t] = None THEN "register" ELSE Ready(call, i, entries[t])
    IN  /\ op[t] = Idle /\ inst[i] # None
        /\ op' = [op EXCEPT ![t] = IF pc = "idle" THEN Idle
                                   ELSE [pc |-> pc, call |-> call, i |-> i, ptr |-> x,
                                         expected |-> expected, copy |-> <<>>]]
        /\ hand' = [hand EXCEPT ![t] = @ \ {x}]
        /\ UNCHANGED <<meta, head, entries, mutex, walk, pool>>

MayStore(t, i) == IF inst[i] # None /\ inst[i].handler THEN hand[t] ELSE {}

Get(t, i) == Begin(t, "Get", i, Null, Null)

(* Reset drops what it overwrites, so the user has taken it out before. *)
Reset(t, i) ==
    /\ inst[i] # None /\ Mine(t, i) \notin Ptrs
    /\ \E x \in MayStore(t, i) \cup {Null} : Begin(t, "Reset", i, x, Null)

Swap(t, i) == \E x \in MayStore(t, i) \cup {Null, InUse} : Begin(t, "Swap", i, x, Null)

CompareAndSwap(t, i) ==
    \E x \in MayStore(t, i), expected \in {Null, InUse} : Begin(t, "CompareAndSwap", i, x, expected)

MutChained(t) == head

Chained(t) == Append(head, t)

(* GetThreadLocal in the first call of the thread. *)
AddThreadData(t) ==
    LET o == op[t]
        pc == Ready(o.call, o.i, <<>>)
    IN  /\ o.pc = "register" /\ mutex = None
        /\ head' = Chained(t)
        /\ entries' = [entries EXCEPT ![t] = <<>>]
        /\ op' = [op EXCEPT ![t] = IF pc = "idle" THEN Idle ELSE [o EXCEPT !.pc = pc]]
        /\ UNCHANGED <<meta, mutex, walk, hand, pool>>

MutResizeCopy(t) ==
    /\ op[t].pc = "resize"
    /\ op' = [op EXCEPT ![t].pc = "install", ![t].copy = entries[t]]
    /\ UNCHANGED <<meta, head, entries, mutex, walk, hand, pool>>

(* entries.resize(id + 1) under the mutex: the elements are copied, then   *)
(* the new vector takes the place of the old one.                          *)
ResizeCopy(t) ==
    /\ op[t].pc = "resize" /\ mutex = None
    /\ mutex' = t
    /\ op' = [op EXCEPT ![t].pc = "install", ![t].copy = entries[t]]
    /\ UNCHANGED <<meta, head, entries, walk, hand, pool>>

MutResized(copy, id) == [k \in 1 .. id |-> IF k <= Len(copy) THEN copy[k] ELSE Null]

Resized(copy, id) == [k \in 1 .. id + 1 |-> IF k <= Len(copy) THEN copy[k] ELSE Null]

ResizeInstall(t) ==
    /\ op[t].pc = "install"
    /\ mutex' = None
    /\ entries' = [entries EXCEPT ![t] = Resized(op[t].copy, IdOf(t))]
    /\ op' = [op EXCEPT ![t].pc = "access", ![t].copy = <<>>]
    /\ UNCHANGED <<meta, head, walk, hand, pool>>

Stored(t) ==
    /\ entries' = [entries EXCEPT ![t][IdOf(t) + 1] = op[t].ptr]
    /\ walk' = [walk EXCEPT !.untouched = @ \ {t}]

Got(t, x) == hand' = [hand EXCEPT ![t] = @ \cup ({x} \cap Ptrs)]

Access(t) ==
    LET o == op[t]
        old == Slot(t, IdOf(t))
    IN  /\ o.pc = "access"
        /\ \/ o.call = "Reset" /\ Stored(t) /\ UNCHANGED hand
           \/ o.call = "Swap" /\ Stored(t) /\ Got(t, old)
           \/ o.call = "CompareAndSwap" /\ old = o.expected /\ Stored(t) /\ UNCHANGED hand
           \/ o.call = "CompareAndSwap" /\ old # o.expected /\ Got(t, o.ptr)
              /\ UNCHANGED <<entries, walk>>
        /\ op' = [op EXCEPT ![t] = Idle]
        /\ UNCHANGED <<meta, head, mutex, pool>>

-----------------------------------------------------------------------------
(* Scrape, and a thread's end. *)

NoWalk == [id |-> 0, rest |-> <<>>, untouched |-> {}]

Scrape(t, i) ==
    /\ op[t] = Idle /\ inst[i] # None /\ mutex = None
    /\ mutex' = t
    /\ op' = [op EXCEPT ![t] = [Idle EXCEPT !.pc = "scrape", !.i = i]]
    /\ walk' = [id |-> inst[i].id, rest |-> head, untouched |-> Threads]
    /\ UNCHANGED <<meta, head, entries, hand, pool>>

ScrapeThread(t) ==
    LET s == Head(walk.rest)
    IN  /\ op[t].pc = "scrape" /\ walk.rest # <<>>
        /\ walk' = [walk EXCEPT !.rest = Tail(@)]
        /\ IF HasSlot(entries[s], walk.id)
           THEN /\ entries' = [entries EXCEPT ![s][walk.id + 1] = Obsolete]
                /\ hand' = [hand EXCEPT ![t] = @ \cup ({Slot(s, walk.id)} \cap Ptrs)]
           ELSE UNCHANGED <<entries, hand>>
        /\ UNCHANGED <<meta, head, mutex, op, pool>>

ScrapeDone(t) ==
    /\ op[t].pc = "scrape" /\ walk.rest = <<>>
    /\ mutex' = None /\ walk' = NoWalk
    /\ op' = [op EXCEPT ![t] = Idle]
    /\ UNCHANGED <<meta, head, entries, hand, pool>>

(* The thread has released the references it holds itself. *)
OnThreadExit(t) ==
    /\ op[t] = Idle /\ entries[t] # None /\ hand[t] = {} /\ mutex = None
    /\ head' = SelectSeq(head, LAMBDA s : s # t)
    /\ Unref({Slot(t, id) : id \in {d \in Ids : HasSlot(entries[t], d) /\ handler_map[d]}})
    /\ entries' = [entries EXCEPT ![t] = None]
    /\ UNCHANGED <<meta, mutex, op, walk, hand>>

(* The users take a new reference, or drop one they hold. *)
Acquire(t, p) ==
    /\ op[t] = Idle /\ p \in pool
    /\ pool' = pool \ {p} /\ hand' = [hand EXCEPT ![t] = @ \cup {p}]
    /\ UNCHANGED <<meta, head, entries, mutex, op, walk>>

Drop(t, p) ==
    /\ op[t] = Idle /\ p \in hand[t]
    /\ Unref({p}) /\ hand' = [hand EXCEPT ![t] = @ \ {p}]
    /\ UNCHANGED <<meta, head, entries, mutex, op, walk>>

-----------------------------------------------------------------------------

Init ==
    /\ next_instance_id = 0 /\ free_instance_ids = <<>>
    /\ handler_map = [id \in Ids |-> FALSE]
    /\ head = <<>> /\ entries = [t \in Threads |-> None]
    /\ mutex = None
    /\ inst = [i \in Instances |-> None]
    /\ op = [t \in Threads |-> Idle]
    /\ walk = NoWalk
    /\ hand = [t \in Threads |-> {}] /\ pool = Ptrs

Next ==
    \E t \in Threads :
       \/ \E i \in Instances :
             \/ \E handler \in BOOLEAN : GetId(t, i, handler)
             \/ ReclaimId(t, i) \/ Scrape(t, i)
             \/ Get(t, i) \/ Reset(t, i) \/ Swap(t, i) \/ CompareAndSwap(t, i)
       \/ SetHandler(t) \/ AddThreadData(t) \/ ResizeCopy(t) \/ ResizeInstall(t) \/ Access(t)
       \/ ScrapeThread(t) \/ ScrapeDone(t) \/ OnThreadExit(t)
       \/ \E p \in Ptrs : Acquire(t, p) \/ Drop(t, p)

Spec == Init /\ [][Next]_vars

-----------------------------------------------------------------------------

PCs == {"idle", "handler", "register", "resize", "install", "access", "scrape"}

(* Slots hold values, and a slot that is accessed is inside its vector. *)
TypeOK ==
    /\ next_instance_id \in 0 .. Cardinality(Instances)
    /\ free_instance_ids \in Seq(Ids) /\ handler_map \in [Ids -> BOOLEAN]
    /\ head \in Seq(Threads) /\ mutex \in Threads \cup {None}
    /\ \A t \in Threads : entries[t] # None => entries[t] \in Seq(Values)
    /\ \A i \in Instances : inst[i] # None => inst[i] \in [id : Ids, handler : BOOLEAN]
    /\ \A t \in Threads : op[t].pc \in PCs
    /\ \A t \in Threads : op[t].pc = "access" => HasSlot(entries[t], IdOf(t))
    /\ hand \in [Threads -> SUBSET Ptrs] /\ pool \subseteq Ptrs

(* A reference is in one place: stored in one slot, held by one thread or  *)
(* back in the pool.  None is released twice, none is lost and none is     *)
(* released while a slot still has it, whichever of the owner, Scrape,     *)
(* ReclaimId and OnThreadExit comes first.                                 *)
Conserved ==
    \A p \in Ptrs :
       Cardinality({<<t, k>> \in Threads \X Ids : HasSlot(entries[t], k) /\ Slot(t, k) = p})
         + Cardinality({t \in Threads : p \in hand[t]})
         + Cardinality({t \in Threads : op[t].ptr = p})
         + Cardinality({p} \cap pool) = 1

(* No two objects have the same id, and an id that is free for the next    *)
(* object has nullptr in every thread's slot: a new object never sees the  *)
(* values of the one before it.                                            *)
FreeIdsClear ==
    /\ \A i, j \in Instances : i # j /\ inst[i] # None /\ inst[j] # None => inst[i].id # inst[j].id
    /\ \A id \in ToSet(free_instance_ids) :
          /\ \A i \in Instances : inst[i] # None => inst[i].id # id
          /\ \A t \in Threads : HasSlot(entries[t], id) => Slot(t, id) = Null

(* The handler registered for an id is that of the object that has it,     *)
(* also when the id is used again by an object without one.                *)
HandlersMatch == \A i \in Instances : inst[i] # None => handler_map[inst[i].id] = inst[i].handler

(* Scrape leaves no thread out: behind it, a slot that its owner has not   *)
(* written in the meantime holds the replacement.                          *)
ScrapeSweeps ==
    \A t \in walk.untouched \ ToSet(walk.rest) :
       HasSlot(entries[t], walk.id) => Slot(t, walk.id) = Obsolete
=============================================================================
