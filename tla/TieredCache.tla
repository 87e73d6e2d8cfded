---------------------------- MODULE TieredCache ----------------------------
(***************************************************************************)
(* CacheWithSecondaryAdapter with distribute_cache_res_: one memory budget *)
(* for a primary cache and a secondary cache behind it.  The secondary's   *)
(* share is kept as a reservation in the primary; memory that reservation  *)
(* managers reserve is placed in the primary and charged in part to the    *)
(* secondary by deflating it.  Of the primary, an LRU cache, only what its *)
(* entries in use occupy is kept, since entries that can be evicted never  *)
(* stand in the way of an insertion; the secondary is external and is its  *)
(* capacity and how far it is deflated.                                    *)
(***************************************************************************)
EXTENDS Integers, FiniteSets, FiniteSetsExt

CONSTANTS Managers,     \* reservation managers that use the tiered cache
          Admins,       \* threads that call UpdateTieredCache
          None,
          kReservationChunkSize,
          kSizeDummyEntry,
          Den,          \* ratios are numerators over Den
          SizeMod,      \* size_t values are below SizeMod
          Setups        \* what is checked: options, arguments

VARIABLES setup,        \* the member of Setups in use
          mgr,          \* CacheReservationManagerImpl of each manager
          admin,        \* the calls of each admin
          mutex,        \* holder of cache_res_mutex_
          placeholder_usage, reserved_usage, sec_reserved, ratio,
          capacity,     \* of the primary
          sec_capacity, deflated,
          pinned,       \* charge of the other entries in use in the primary
          pri_mem, pri_alloc    \* pri_cache_res_: memory_used_, cache_allocated_size_

budget == <<placeholder_usage, reserved_usage, sec_reserved, ratio>>
caches == <<capacity, sec_capacity, deflated>>
pri == <<pri_mem, pri_alloc, pinned>>
vars == <<setup, mgr, admin, mutex, budget, caches, pri>>

ASSUME SizesAssumption ==
    /\ kReservationChunkSize \in Nat \ {0} /\ kSizeDummyEntry \in Nat \ {0}
    /\ Den \in Nat \ {0} /\ kReservationChunkSize < SizeMod

Wrap(n) == n % SizeMod

Share(n, r) == (n * r) \div Den

Chunks(n) == n - (n % kReservationChunkSize)

-----------------------------------------------------------------------------
(* CacheReservationManagerImpl, which inserts and releases entries of      *)
(* kSizeDummyEntry until they cover the memory used.                       *)

Occupied == MapThenSumSet(LAMBDA m : mgr[m].alloc, Managers)

Room == capacity - Occupied - pri_alloc - pinned

Fits(n) == ~setup.strict \/ n <= Room

NeedsMore(mem, alloc) == mem > alloc

MutNeedsFewer(mem, alloc) == mem <= alloc

NeedsFewer(mem, alloc) == mem + kSizeDummyEntry <= alloc

MutKeepsDelayed(mem, alloc) == mem >= alloc \div 4

KeepsDelayed(mem, alloc) == mem >= 3 * (alloc \div 4)

Covering(mem) == ((mem + kSizeDummyEntry - 1) \div kSizeDummyEntry) * kSizeDummyEntry

(* What the reservation of the primary can grow to. *)
Fitting == pri_alloc + Room - (Room % kSizeDummyEntry)

(* pri_cache_res_->UpdateCacheReservation(mem), not delayed; the insertions*)
(* stop at the first that a strict primary refuses.  That the status is ok *)
(* is only asserted.                                                       *)
UpdatePri(mem) ==
    /\ pri_mem' = mem
    /\ pri_alloc' = IF NeedsMore(mem, pri_alloc) /\ ~Fits(Covering(mem) - pri_alloc)
                    THEN Max({pri_alloc, Fitting})
                    ELSE Covering(mem)
    /\ UNCHANGED pinned

Increase(delta) == UpdatePri(Wrap(pri_mem + delta))

Decrease(delta) == UpdatePri(IF pri_mem > delta THEN pri_mem - delta ELSE 0)

Phase(g, mem, alloc) ==
    IF g = "grow" /\ NeedsMore(mem, alloc) THEN "grow"
    ELSE IF g = "shrink" /\ NeedsFewer(mem, alloc) THEN "shrink"
    ELSE "idle"

Goto(m, pc) == mgr' = [mgr EXCEPT ![m].pc = pc]

UpdateCacheReservation(m) ==
    LET alloc == mgr[m].alloc
    IN  /\ mgr[m].pc = "idle"
        /\ \E mem \in setup.memory :
              mgr' = [mgr EXCEPT ![m].mem = mem, ![m].ok = TRUE,
                                 ![m].pc = IF setup.delayed[m] /\ mem < alloc
                                              /\ KeepsDelayed(mem, alloc)
                                           THEN "idle"
                                           ELSE IF mem > alloc THEN Phase("grow", mem, alloc)
                                           ELSE Phase("shrink", mem, alloc)]
        /\ UNCHANGED <<setup, admin, mutex, budget, caches, pri>>

-----------------------------------------------------------------------------
(* Placeholders: Insert and Release with erase_if_last_ref. *)

(* Other users of a strict primary take and drop entries. *)
Pin ==
    /\ pinned < setup.max_pinned /\ Fits(1)
    /\ pinned' = pinned + 1
    /\ UNCHANGED <<setup, mgr, admin, mutex, budget, caches, pri_mem, pri_alloc>>

Unpin ==
    /\ pinned > 0
    /\ pinned' = pinned - 1
    /\ UNCHANGED <<setup, mgr, admin, mutex, budget, caches, pri_mem, pri_alloc>>

MutRefused(m) == [mgr EXCEPT ![m].ok = FALSE, ![m].pc = "inserted"]

(* The status of the primary is returned, nothing is accounted. *)
Refused(m) == [mgr EXCEPT ![m].ok = FALSE, ![m].pc = "idle"]

MayCharge == placeholder_usage' <= capacity

(* target_->Insert, then the accounting under cache_res_mutex_. *)
InsertIntoTarget(m) ==
    /\ mgr[m].pc = "grow"
    /\ IF Fits(kSizeDummyEntry)
       THEN mgr' = [mgr EXCEPT ![m].alloc = @ + kSizeDummyEntry, ![m].pc = "inserted"]
       ELSE mgr' = Refused(m)
    /\ UNCHANGED <<setup, admin, mutex, budget, caches, pri>>

Insert(m) ==
    /\ mgr[m].pc = "inserted" /\ mutex = None
    /\ placeholder_usage' = Wrap(placeholder_usage + kSizeDummyEntry)
    /\ IF MayCharge /\ Wrap(placeholder_usage' - reserved_usage) >= kReservationChunkSize
       THEN /\ reserved_usage' = Chunks(placeholder_usage')
            /\ deflated' = Wrap(deflated + Wrap(Share(reserved_usage', ratio) - sec_reserved))
            /\ mutex' = m /\ Goto(m, "deflated")
       ELSE /\ Goto(m, Phase("grow", mgr[m].mem, mgr[m].alloc))
            /\ UNCHANGED <<reserved_usage, deflated, mutex>>
    /\ UNCHANGED <<setup, admin, sec_reserved, ratio, capacity, sec_capacity, pri>>

InsertDeflated(m) ==
    LET sec_charge == Wrap(Share(reserved_usage, ratio) - sec_reserved)
    IN  /\ mgr[m].pc = "deflated"
        /\ Decrease(sec_charge)
        /\ sec_reserved' = Wrap(sec_reserved + sec_charge)
        /\ mutex' = None
        /\ Goto(m, Phase("grow", mgr[m].mem, mgr[m].alloc))
        /\ UNCHANGED <<setup, admin, placeholder_usage, reserved_usage, ratio, caches>>

MutInflated(n) == deflated

(* Inflate gives back at most what the secondary was deflated by. *)
Inflated(n) == IF deflated > n THEN deflated - n ELSE 0

Release(m) ==
    /\ mgr[m].pc = "shrink" /\ mutex = None
    /\ placeholder_usage' = Wrap(placeholder_usage - kSizeDummyEntry)
    /\ IF MayCharge /\ placeholder_usage' < reserved_usage
       THEN /\ reserved_usage' = Chunks(placeholder_usage')
            /\ deflated' = Inflated(Wrap(sec_reserved - Share(reserved_usage', ratio)))
            /\ mutex' = m /\ Goto(m, "inflated")
       ELSE Goto(m, "release") /\ UNCHANGED <<reserved_usage, deflated, mutex>>
    /\ UNCHANGED <<setup, admin, sec_reserved, ratio, capacity, sec_capacity, pri>>

ReleaseInflated(m) ==
    LET sec_charge == Wrap(sec_reserved - Share(reserved_usage, ratio))
    IN  /\ mgr[m].pc = "inflated"
        /\ Increase(sec_charge)
        /\ sec_reserved' = Wrap(sec_reserved - sec_charge)
        /\ mutex' = None
        /\ Goto(m, "release")
        /\ UNCHANGED <<setup, admin, placeholder_usage, reserved_usage, ratio, caches>>

ReleaseFromTarget(m) ==
    LET alloc == mgr[m].alloc - kSizeDummyEntry
    IN  /\ mgr[m].pc = "release"
        /\ mgr' = [mgr EXCEPT ![m].alloc = alloc, ![m].pc = Phase("shrink", mgr[m].mem, alloc)]
        /\ UNCHANGED <<setup, admin, mutex, budget, caches, pri>>

-----------------------------------------------------------------------------
(* UpdateTieredCache: SetCapacity, then UpdateCacheReservationRatio.       *)

(* SetCapacity reads the ratio before it takes the mutex. *)
SetCapacity(a) ==
    /\ admin[a].pc = "idle"
    /\ \E c \in setup.capacities :
          admin' = [admin EXCEPT ![a] = [pc |-> "set", capacity |-> c, old |-> 0,
                                         sec |-> Share(c, ratio)]]
    /\ UNCHANGED <<setup, mgr, mutex, budget, caches, pri>>

MutShrinks(a) == TRUE

Shrinks(a) == sec_capacity > admin[a].sec

(* The secondary shrinks first and grows last. *)
SetCapacityLocked(a) ==
    LET s == admin[a]
    IN  /\ s.pc = "set" /\ mutex = None
        /\ mutex' = a
        /\ IF Shrinks(a)
           THEN /\ sec_capacity' = s.sec /\ UNCHANGED capacity
                /\ admin' = [admin EXCEPT ![a].pc = "credit", ![a].old = sec_capacity]
           ELSE /\ capacity' = s.capacity /\ UNCHANGED sec_capacity
                /\ admin' = [admin EXCEPT ![a].pc = "reserve", ![a].old = sec_capacity]
        /\ UNCHANGED <<setup, mgr, budget, deflated, pri>>

Credit(a) ==
    LET s == admin[a]
        reserved == IF placeholder_usage > s.capacity THEN Chunks(s.capacity) ELSE reserved_usage
        new == Share(reserved, ratio)
    IN  /\ s.pc = "credit"
        /\ reserved_usage' = reserved
        /\ Decrease(Wrap(s.old - s.sec - (sec_reserved - new)))
        /\ sec_reserved' = new
        /\ admin' = [admin EXCEPT ![a].pc = "lower"]
        /\ UNCHANGED <<setup, mgr, mutex, placeholder_usage, ratio, caches>>

Lower(a) ==
    /\ admin[a].pc = "lower"
    /\ capacity' = admin[a].capacity
    /\ mutex' = None /\ admin' = [admin EXCEPT ![a].pc = "idle"]
    /\ UNCHANGED <<setup, mgr, budget, sec_capacity, deflated, pri>>

Reserve(a) ==
    /\ admin[a].pc = "reserve"
    /\ Increase(Wrap(admin[a].sec - admin[a].old))
    /\ admin' = [admin EXCEPT ![a].pc = "raise"]
    /\ UNCHANGED <<setup, mgr, mutex, budget, caches>>

Raise(a) ==
    /\ admin[a].pc = "raise"
    /\ sec_capacity' = admin[a].sec
    /\ mutex' = None /\ admin' = [admin EXCEPT ![a].pc = "idle"]
    /\ UNCHANGED <<setup, mgr, budget, capacity, deflated, pri>>

(* The ratios a caller may ask for: cache.h rules out raising it from 0.   *)
MayAskFor == IF ratio = 0 THEN {0} ELSE setup.ratios

UpdateCacheReservationRatio(a) ==
    /\ admin[a].pc = "idle" /\ mutex = None
    /\ mutex' = a
    /\ \E r \in MayAskFor :
          LET sec == Share(capacity, r)
          IN  /\ ratio' = r
              /\ admin' = [admin EXCEPT ![a] = [pc |-> IF sec > sec_capacity THEN "reserve_ratio"
                                                      ELSE "credit_ratio",
                                               capacity |-> capacity, old |-> sec_capacity,
                                               sec |-> sec]]
              /\ IF sec > sec_capacity
                 THEN /\ deflated' = Wrap(deflated + Wrap(Share(reserved_usage, r) - sec_reserved))
                      /\ UNCHANGED sec_capacity
                 ELSE sec_capacity' = sec /\ UNCHANGED deflated
    /\ UNCHANGED <<setup, mgr, placeholder_usage, reserved_usage, sec_reserved, capacity, pri>>

ReserveForRatio(a) ==
    LET s == admin[a]
        new == Share(reserved_usage, ratio)
    IN  /\ s.pc = "reserve_ratio"
        /\ Increase(Wrap(s.sec - s.old - (new - sec_reserved)))
        /\ sec_reserved' = new
        /\ admin' = [admin EXCEPT ![a].pc = "raise"]
        /\ UNCHANGED <<setup, mgr, mutex, placeholder_usage, reserved_usage, ratio, caches>>

CreditForRatio(a) ==
    /\ admin[a].pc = "credit_ratio"
    /\ Decrease(Wrap(admin[a].old - admin[a].sec
                     - (sec_reserved - Share(reserved_usage, ratio))))
    /\ admin' = [admin EXCEPT ![a].pc = "inflate"]
    /\ UNCHANGED <<setup, mgr, mutex, budget, caches>>

InflateForRatio(a) ==
    LET new == Share(reserved_usage, ratio)
    IN  /\ admin[a].pc = "inflate"
        /\ deflated' = Inflated(Wrap(sec_reserved - new))
        /\ sec_reserved' = new
        /\ mutex' = None /\ admin' = [admin EXCEPT ![a].pc = "idle"]
        /\ UNCHANGED <<setup, mgr, placeholder_usage, reserved_usage, ratio, capacity,
                       sec_capacity, pri>>

-----------------------------------------------------------------------------

Init ==
    /\ setup \in Setups
    /\ mgr = [m \in Managers |-> [mem |-> 0, alloc |-> 0, ok |-> TRUE, pc |-> "idle"]]
    /\ admin = [a \in Admins |-> [pc |-> "idle", capacity |-> 0, old |-> 0, sec |-> 0]]
    /\ mutex = None
    /\ placeholder_usage = 0 /\ reserved_usage = 0 /\ sec_reserved = 0
    /\ ratio = setup.ratio
    /\ capacity = setup.capacity
    /\ sec_capacity = Share(capacity, ratio) /\ deflated = 0
    /\ pri_mem = sec_capacity /\ pri_alloc = Covering(sec_capacity)
    /\ pinned = 0

ManagerStep(m) ==
    \/ InsertIntoTarget(m) \/ Insert(m) \/ InsertDeflated(m)
    \/ Release(m) \/ ReleaseInflated(m) \/ ReleaseFromTarget(m)

AdminStep(a) ==
    \/ SetCapacityLocked(a) \/ Credit(a) \/ Lower(a) \/ Reserve(a) \/ Raise(a)
    \/ ReserveForRatio(a) \/ CreditForRatio(a) \/ InflateForRatio(a)

Next ==
    \/ Pin \/ Unpin
    \/ \E m \in Managers : UpdateCacheReservation(m) \/ ManagerStep(m)
    \/ \E a \in setup.admins : SetCapacity(a) \/ UpdateCacheReservationRatio(a) \/ AdminStep(a)

Spec == Init /\ [][Next]_vars

-----------------------------------------------------------------------------

MgrPCs == {"idle", "grow", "inserted", "deflated", "shrink", "inflated", "release"}

AdminPCs == {"idle", "set", "credit", "lower", "reserve", "raise",
             "reserve_ratio", "credit_ratio", "inflate"}

Sizes == 0 .. SizeMod - 1

(* Every size is a size_t and every pc a place in the code; the mutex is   *)
(* held by whoever is inside the accounting and by nobody else.            *)
TypeOK ==
    /\ setup \in Setups
    /\ mgr \in [Managers -> [mem : Sizes, alloc : Sizes, ok : BOOLEAN, pc : MgrPCs]]
    /\ admin \in [Admins -> [pc : AdminPCs, capacity : Sizes, old : Sizes, sec : Sizes]]
    /\ {placeholder_usage, reserved_usage, sec_reserved, capacity, sec_capacity, deflated,
        pri_mem, pri_alloc, pinned} \subseteq Sizes
    /\ ratio \in 0 .. Den
    /\ {mutex} \ {None} = {m \in Managers : mgr[m].pc \in {"deflated", "inflated"}}
                           \cup {a \in Admins : admin[a].pc \notin {"idle", "set"}}

(* Whenever the mutex is free the budget is split as the comments of       *)
(* secondary_cache_adapter.h say: the secondary has its share of the       *)
(* capacity, is deflated by its share of the reserved chunks, and what it  *)
(* may still use is what pri_cache_res_ has on record.  Every share is     *)
(* rounded down, but what is added and subtracted are differences of the   *)
(* rounded shares, so nothing accumulates as long as none of them is below *)
(* zero.  With no placeholder left this is what the destructor asserts.    *)
SplitExact ==
    mutex = None =>
      /\ sec_capacity = Share(capacity, ratio)
      /\ reserved_usage <= placeholder_usage /\ reserved_usage <= capacity
      /\ sec_reserved = Share(reserved_usage, ratio)
      /\ deflated = sec_reserved
      /\ pri_mem = sec_capacity - sec_reserved

(* No temporary spike: at no step of a reconfiguration or an insertion may *)
(* the secondary use more than the dummy entries of pri_cache_res_ occupy  *)
(* in the primary.  There are two exceptions.  A release inflates the      *)
(* secondary before it reserves the memory.  A strict primary may refuse   *)
(* dummy entries, which the code only asserts it does not: the secondary   *)
(* then exceeds them, but never what pri_cache_res_ has on record.         *)
NoSpike ==
    \/ sec_capacity <= pri_alloc + deflated
    \/ setup.strict /\ sec_capacity <= pri_mem + deflated
    \/ \E m \in Managers : mgr[m].pc = "inflated"

(* placeholder_usage_ is the charge of the placeholders in the primary,    *)
(* but for those between the primary and the accounting.                   *)
PlaceholdersCounted ==
    placeholder_usage =
      Occupied - kSizeDummyEntry *
        Cardinality({m \in Managers : mgr[m].pc \in {"inserted", "inflated", "release"}})

(* After a reservation update that succeeded, the dummy entries cover the  *)
(* memory used, and exceed it by less than one entry or, with delayed      *)
(* decrease, by at most a third.                                           *)
ReservationTracks ==
    \A m \in Managers :
       mgr[m].pc = "idle" /\ mgr[m].ok =>
         /\ mgr[m].alloc >= mgr[m].mem
         /\ \/ mgr[m].alloc < mgr[m].mem + kSizeDummyEntry
            \/ setup.delayed[m] /\ 4 * mgr[m].mem >= 3 * (mgr[m].alloc - 3)
=============================================================================
