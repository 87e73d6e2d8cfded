----------------------------- MODULE WriteBatch -----------------------------
(***************************************************************************)
(* A write batch: records appended to one string behind a header that      *)
(* counts the updates, with the summary flags, the per-record protection   *)
(* info, the save points and the WAL termination point kept beside it.     *)
(* A record is one unit of the string.                                     *)
(***************************************************************************)
EXTENDS Lists, FiniteSets

CONSTANTS Batches,
          CFs,       \* column family ids, 0 is the default family
          TsSize,    \* timestamp size of each family's comparator
          Null,      \* the null column family handle
          Callers    \* what is checked: what callers do, and bounds

VARIABLES caller,    \* the member of Callers in use
          batch

Tags == caller.tags              \* the update kinds they write
Markers == caller.markers        \* the markers they insert
Unprepared == caller.unprepared  \* the flags InsertBeginPrepare is called with
Contents == caller.contents      \* serialized batches handed to SetContents
MaxBytes == caller.max_bytes     \* the limits given to SetMaxBytes
Protections == caller.protections    \* whether new batches carry protection info
TrackModes == caller.track       \* the values given to SetTrackTimestampSize
Rewrite == caller.rewrite        \* do they rewrite what lies before a WAL termination point
MaxRecords == caller.max_records
MaxSavePoints == caller.max_save_points

Updates ==
    {"Put", "TimedPut", "PutEntity", "Delete", "SingleDelete", "DeleteRange",
     "Merge", "PutBlobIndex"}

BeginTags == {"BeginPrepare", "BeginPersistedPrepare", "BeginUnprepare"}

AllTags ==
    Updates \cup BeginTags \cup
    {"LogData", "Noop", "EndPrepare", "Commit", "CommitWithTimestamp", "Rollback"}

IsUpdate(r) == r.tag \in Updates

(* The content flag of a record, set by the writers and by the classifier. *)
ContentFlags(tag) ==
    CASE tag \in Updates \cup {"EndPrepare", "Rollback"} -> {tag}
      [] tag \in {"BeginPrepare", "BeginPersistedPrepare"} -> {"BeginPrepare"}
      [] tag = "BeginUnprepare" -> {"BeginPrepare", "BeginUnprepare"}
      [] tag \in {"Commit", "CommitWithTimestamp"} -> {"Commit"}
      [] OTHER -> {}

kHeader == 12

DataSize(b) == kHeader + Len(b.rep)

Record(tag, cf, ts) == [tag |-> tag, cf |-> cf, ts |-> ts]

SavePoint(b) == [size |-> DataSize(b), count |-> b.count, flags |-> b.flags]

Cleared == [size |-> 0, count |-> 0, flags |-> {}]

(* The constructor, and SetTrackTimestampSize right after it. *)
New(max, protected, ts, track) ==
    [rep |-> <<>>, count |-> 0, flags |-> {}, sps |-> <<>>, wal |-> Cleared,
     protected |-> protected, prot |-> <<>>, max |-> max, dts |-> ts,
     needs |-> FALSE, has |-> FALSE, track |-> track, tracked |-> {}]

Init ==
    /\ caller \in Callers
    /\ batch \in [caller.batches -> {New(m, p, TsSize[0], k) :
                                      m \in MaxBytes, p \in Protections, k \in TrackModes}]

-----------------------------------------------------------------------------
(* Writing one record. *)

Pushed(b, r) ==
    [b EXCEPT !.rep = Append(@, r),
              !.flags = @ \cup ContentFlags(r.tag),
              !.count = IF IsUpdate(r) THEN @ + 1 ELSE @,
              !.prot = IF IsUpdate(r) /\ b.protected THEN Append(@, r) ELSE @]

TooLarge(b) == b.max # 0 /\ DataSize(b) > b.max

MutKeptFlags(b, sp) ==
    [b EXCEPT !.rep = SubSeq(@, 1, sp.size - kHeader),
              !.count = sp.count,
              !.prot = IF b.protected THEN SubSeq(@, 1, sp.count) ELSE @]

(* LocalSavePoint::commit takes a record back that does not fit. *)
Restored(b, sp) ==
    [b EXCEPT !.rep = SubSeq(@, 1, sp.size - kHeader),
              !.count = sp.count,
              !.flags = sp.flags,
              !.prot = IF b.protected THEN SubSeq(@, 1, sp.count) ELSE @]

Committed(b, r) ==
    LET n == Pushed(b, r) IN IF TooLarge(n) THEN Restored(n, SavePoint(b)) ELSE n

Fits(b, r) == ~TooLarge(Pushed(b, r))

CfId(h) == IF h = Null THEN 0 ELSE h

(* GetColumnFamilyIdAndTimestampSize *)
HandleOk(b, h) == h = 0 => b.dts = TsSize[0]

TsFor(b, h) == IF h = Null THEN b.dts ELSE TsSize[h]

MaybeTrackTimestampSize(b, cf) ==
    IF b.track THEN [b EXCEPT !.tracked = @ \cup {cf}] ELSE b

Written(b, r) ==
    IF Fits(b, r) THEN MaybeTrackTimestampSize(Committed(b, r), r.cf) ELSE Committed(b, r)

Room(x, n) == Len(batch[x].rep) + n <= MaxRecords

Set(x, b) == batch' = [batch EXCEPT ![x] = b] /\ UNCHANGED caller

(* The three public forms of an update: the key with a placeholder for the *)
(* timestamp, with the timestamp itself, or as slice parts.                *)
Update(x, tag, h) ==
    LET b == batch[x]
        r == Record(tag, CfId(h), IF TsFor(b, h) = 0 THEN "none" ELSE "dummy")
        dummy == TsFor(b, h) # 0
    IN  /\ tag \in Tags /\ Room(x, 1) /\ HandleOk(b, h)
        /\ Set(x, Written([b EXCEPT !.needs = @ \/ dummy, !.has = @ \/ dummy], r))

UpdateWithTs(x, tag, h) ==
    LET b == [batch[x] EXCEPT !.has = TRUE]
    IN  /\ tag \in Tags /\ Room(x, 1)
        /\ h # Null
        /\ TsSize[h] # 0
        /\ Set(x, Written(b, Record(tag, h, "set")))

UpdateParts(x, tag, h) ==
    LET b == batch[x]
    IN  /\ tag \in Tags /\ Room(x, 1) /\ HandleOk(b, h)
        /\ TsFor(b, h) = 0
        /\ Set(x, Written(b, Record(tag, CfId(h), "none")))

AnyForm(x, tag, h) ==
    Update(x, tag, h) \/ UpdateWithTs(x, tag, h) \/ UpdateParts(x, tag, h)

Put(x, h) == AnyForm(x, "Put", h)

Delete(x, h) == AnyForm(x, "Delete", h)

SingleDelete(x, h) == AnyForm(x, "SingleDelete", h)

DeleteRange(x, h) == AnyForm(x, "DeleteRange", h)

Merge(x, h) == AnyForm(x, "Merge", h)

(* Neither of these two tracks the family's timestamp size. *)
TimedPut(x, h) ==
    LET b == batch[x]
    IN  /\ "TimedPut" \in Tags /\ Room(x, 1) /\ HandleOk(b, h)
        /\ TsFor(b, h) = 0
        /\ \E tag \in {"TimedPut", "Put"} :  \* the largest write time is a plain Put
              Set(x, Committed(b, Record(tag, CfId(h), "none")))

PutEntity(x, h) ==
    LET b == batch[x]
    IN  /\ "PutEntity" \in Tags /\ Room(x, 1)
        /\ h # Null
        /\ HandleOk(b, h)
        /\ TsFor(b, h) = 0
        /\ Set(x, Committed(b, Record("PutEntity", h, "none")))

PutBlobIndex(x, cf) ==
    /\ "PutBlobIndex" \in Tags /\ Room(x, 1)
    /\ Set(x, Committed(batch[x], Record("PutBlobIndex", cf, "none")))

PutLogData(x) ==
    /\ "LogData" \in Markers /\ Room(x, 1)
    /\ Set(x, Committed(batch[x], Record("LogData", 0, "none")))

-----------------------------------------------------------------------------
(* Transaction markers: appended whatever the size limit. *)

Marked(b, tag, flags) ==
    [b EXCEPT !.rep = Append(@, Record(tag, 0, "none")), !.flags = @ \cup flags]

InsertNoop(x) ==
    "Noop" \in Markers /\ Room(x, 1) /\ Set(x, Marked(batch[x], "Noop", {}))

GetBeginPrepareType(write_after_commit, unprepared) ==
    IF write_after_commit THEN "BeginPrepare"
    ELSE IF unprepared THEN "BeginUnprepare" ELSE "BeginPersistedPrepare"

InsertBeginPrepare(x) ==
    /\ "BeginPrepare" \in Markers /\ Room(x, 1)
    /\ \E w \in BOOLEAN, u \in Unprepared :
          Set(x, Marked(batch[x], GetBeginPrepareType(w, u), {"BeginPrepare"}))

InsertEndPrepare(x) ==
    /\ "EndPrepare" \in Markers /\ Room(x, 1)
    /\ Set(x, Marked(batch[x], "EndPrepare", {"EndPrepare"}))

MutBegun(b, w, u) ==
    [b EXCEPT !.rep[1].tag = GetBeginPrepareType(w, u),
              !.flags = @ \cup {"BeginPrepare"} \cup (IF u THEN {"BeginUnprepare"} ELSE {})]

(* Rewrites the leading noop as a begin marker; the save points are gone. *)
Begun(b, w, u) ==
    [b EXCEPT !.sps = <<>>,
              !.rep[1].tag = GetBeginPrepareType(w, u),
              !.flags = @ \cup {"BeginPrepare"} \cup (IF u THEN {"BeginUnprepare"} ELSE {})]

MarkEndPrepare(x) ==
    LET b == batch[x]
    IN  /\ "EndPrepare" \in Markers /\ Room(x, 1)
        /\ b.rep # <<>> /\ b.rep[1].tag = "Noop"    \* asserted
        /\ Rewrite \/ b.wal = Cleared
        /\ \E w, u \in BOOLEAN :
              /\ u => ~w
              /\ Set(x, Marked(Begun(b, w, u), "EndPrepare", {"EndPrepare"}))

MarkCommit(x) ==
    /\ "Commit" \in Markers /\ Room(x, 1)
    /\ Set(x, Marked(batch[x], "Commit", {"Commit"}))

MarkCommitWithTimestamp(x) ==
    /\ "Commit" \in Markers /\ Room(x, 1)
    /\ Set(x, Marked(batch[x], "CommitWithTimestamp", {"Commit"}))

MarkRollback(x) ==
    /\ "Rollback" \in Markers /\ Room(x, 1)
    /\ Set(x, Marked(batch[x], "Rollback", {"Rollback"}))

-----------------------------------------------------------------------------
(* Save points, clearing and the WAL termination point. *)

SetSavePoint(x) ==
    /\ Len(batch[x].sps) < MaxSavePoints
    /\ Set(x, [batch[x] EXCEPT !.sps = Append(@, SavePoint(batch[x]))])

MutEmptied(b) ==
    [b EXCEPT !.rep = <<>>, !.count = 0, !.flags = {}, !.prot = <<>>,
              !.wal = Cleared, !.dts = 0]

Emptied(b) ==
    [b EXCEPT !.rep = <<>>, !.count = 0, !.flags = {}, !.sps = <<>>, !.prot = <<>>,
              !.wal = Cleared, !.dts = 0]

RolledBack(b, sp) ==
    IF sp.size = DataSize(b) THEN b
    ELSE IF sp.size = 0 THEN Emptied(b)
    ELSE Restored(b, sp)

Popped(b) == [b EXCEPT !.sps = DropAt(@, Len(@))]

RollbackToSavePoint(x) ==
    LET b == batch[x]
    IN  /\ b.sps # <<>>
        /\ Rewrite \/ b.wal = Cleared
        /\ Set(x, RolledBack(Popped(b), b.sps[Len(b.sps)]))

PopSavePoint(x) ==
    /\ batch[x].sps # <<>>
    /\ Set(x, Popped(batch[x]))

Clear(x) == Set(x, Emptied(batch[x]))

MarkWalTerminationPoint(x) == Set(x, [batch[x] EXCEPT !.wal = SavePoint(batch[x])])

SetMaxBytes(x) == \E m \in MaxBytes : Set(x, [batch[x] EXCEPT !.max = m])

-----------------------------------------------------------------------------
(* Whole batches. *)

(* Iterate calls the classifier for every record up to the first whose     *)
(* handler fails; the classifier has no MarkNoop, whose default fails.     *)
Classified(rep) ==
    UNION {ContentFlags(rep[i].tag) :
           i \in {j \in 1 .. Len(rep) : \A k \in 1 .. j : rep[k].tag # "Noop"}}

(* The flags HasPut and the other queries read, computed on demand. *)
ComputeContentFlags(b) ==
    IF "DEFERRED" \in b.flags THEN Classified(b.rep) ELSE b.flags

HasQuery(x) ==
    Set(x, [batch[x] EXCEPT !.flags = ComputeContentFlags(batch[x])])

(* The constructor from a string, and SetContents on a batch without save  *)
(* points.                                                                 *)
SetContents(x) ==
    /\ ~batch[x].protected    \* asserted
    /\ batch[x].sps = <<>> /\ batch[x].wal = Cleared
    /\ \E c \in Contents :
          Set(x, [batch[x] EXCEPT !.rep = c, !.count = Len(SelectSeq(c, IsUpdate)),
                                  !.flags = {"DEFERRED"}])

CopyFrom(x, y) ==
    /\ x # y
    /\ Set(x, [batch[y] EXCEPT !.needs = FALSE, !.has = FALSE,
                               !.track = FALSE, !.tracked = {}])

MutAppendedPart(s, wal_only) ==
    IF wal_only /\ s.wal # Cleared THEN [s.wal EXCEPT !.count = s.count] ELSE SavePoint(s)

(* The part of the source that is appended. *)
AppendedPart(s, wal_only) ==
    IF wal_only /\ s.wal # Cleared THEN s.wal ELSE SavePoint(s)

CountsAgree(b) == b.protected => Len(b.prot) = b.count

(* What is found behind the end of a string that became shorter than the   *)
(* part to be appended.                                                    *)
Behind(n) == [1 .. n -> {Record(tag, 0, "none") : tag \in Tags \cup Markers}]

AppendTo(d, s, wal_only) ==
    LET dst == batch[d]
        src == batch[s]
        part == AppendedPart(src, wal_only)
    IN  /\ d # s
        /\ Room(d, part.size - kHeader)
        /\ dst.count = 0 \/ dst.protected = src.protected    \* asserted
        /\ CountsAgree(src) /\ CountsAgree(dst)
        /\ \E stale \in Behind(part.size - DataSize(src)) :
              Set(d, [dst EXCEPT
                !.protected = src.protected,
                !.prot = IF src.protected THEN @ \o SubSeq(src.prot \o stale, 1, part.count)
                         ELSE <<>>,
                !.count = @ + part.count,
                !.rep = @ \o SubSeq(src.rep \o stale, 1, part.size - kHeader),
                !.flags = @ \cup part.flags])

(* UpdateProtectionInfo with zero and with eight bytes per key. *)
Unprotect(x) == Set(x, [batch[x] EXCEPT !.protected = FALSE, !.prot = <<>>])

ProtectionInfoUpdater(rep) == SelectSeq(rep, IsUpdate)

Protect(x) ==
    /\ ~batch[x].protected
    /\ Set(x, [batch[x] EXCEPT !.protected = TRUE,
                               !.prot = ProtectionInfoUpdater(batch[x].rep)])

(* The checksum of the i-th update is compared with the i-th update met.   *)
VerifyChecksum(b) ==
    LET u == SelectSeq(b.rep, IsUpdate)
        n == IF Len(u) < Len(b.prot) THEN Len(u) ELSE Len(b.prot)
    IN  n = b.count /\ \A i \in 1 .. n : b.prot[i] = u[i]

Stamp(r) == IF r.ts = "dummy" THEN [r EXCEPT !.ts = "set"] ELSE r

(* TimestampUpdater fills the placeholders in, in the keys and in their    *)
(* protection info.                                                        *)
UpdateTimestamps(x) ==
    LET stamp(s) == [i \in 1 .. Len(s) |-> Stamp(s[i])]
    IN  Set(x, [batch[x] EXCEPT !.rep = stamp(@), !.prot = stamp(@), !.needs = FALSE])

Next ==
    \E x \in DOMAIN batch :
       \/ \E h \in caller.cfs \cup {Null} :
             \/ Put(x, h) \/ Delete(x, h) \/ SingleDelete(x, h)
             \/ DeleteRange(x, h) \/ Merge(x, h)
             \/ TimedPut(x, h) \/ PutEntity(x, h)
       \/ \E cf \in caller.cfs : PutBlobIndex(x, cf)
       \/ PutLogData(x) \/ InsertNoop(x) \/ InsertBeginPrepare(x) \/ InsertEndPrepare(x)
       \/ MarkEndPrepare(x) \/ MarkCommit(x) \/ MarkCommitWithTimestamp(x) \/ MarkRollback(x)
       \/ SetSavePoint(x) \/ RollbackToSavePoint(x) \/ PopSavePoint(x) \/ Clear(x)
       \/ MarkWalTerminationPoint(x) \/ SetMaxBytes(x)
       \/ HasQuery(x) \/ SetContents(x) \/ Unprotect(x) \/ Protect(x) \/ UpdateTimestamps(x)
       \/ \E y \in DOMAIN batch : CopyFrom(x, y) \/ \E w \in BOOLEAN : AppendTo(x, y, w)

Spec == Init /\ [][Next]_<<caller, batch>>

-----------------------------------------------------------------------------

RecordType == [tag : AllTags, cf : CFs, ts : {"none", "dummy", "set"}]

SavePointType == [size : Nat, count : Nat, flags : SUBSET (AllTags \cup {"DEFERRED"})]

(* The parts of a batch keep their types; a save point never lies behind   *)
(* the end of the string or counts more updates than the header (the       *)
(* assertions of RollbackToSavePoint).                                     *)
TypeOK ==
    \A x \in DOMAIN batch :
       /\ batch[x].rep \in Seq(RecordType) /\ batch[x].prot \in Seq(RecordType)
       /\ batch[x].count \in Nat
       /\ batch[x].flags \subseteq AllTags \cup {"DEFERRED"}
       /\ batch[x].wal \in SavePointType
       /\ \A i \in 1 .. Len(batch[x].sps) :
             /\ batch[x].sps[i] \in SavePointType
             /\ batch[x].sps[i].size <= DataSize(batch[x])
             /\ batch[x].sps[i].count <= batch[x].count

(* The header counts exactly the updates in the string, and the protection *)
(* info verifies and has one entry per update, after any mix of refused    *)
(* records, rollbacks, appends and changes of protection: Iterate and      *)
(* Append report corruption otherwise.                                     *)
CountExact ==
    \A x \in DOMAIN batch :
       LET b == batch[x] IN
       /\ b.count = Len(SelectSeq(b.rep, IsUpdate))
       /\ b.protected => VerifyChecksum(b) /\ Len(b.prot) = b.count

(* HasPut and its relatives answer whether Iterate will call the handler:  *)
(* the summary flags, lazily computed or kept up by every writer, restored *)
(* by every rollback, name exactly the kinds of records in the batch.      *)
HasIsExact ==
    \A x \in DOMAIN batch :
       ComputeContentFlags(batch[x]) =
         UNION {ContentFlags(batch[x].rep[i].tag) : i \in 1 .. Len(batch[x].rep)}

(* A batch is an undo log: no write, refusal, marker, append or timestamp  *)
(* update changes what a save point returns to.                            *)
Log == [x \in Batches |-> IF x \in DOMAIN batch THEN batch[x].rep ELSE <<>>]
Undo ==
    [x \in Batches |->
       IF x \in DOMAIN batch
       THEN [i \in 1 .. Len(batch[x].sps) |->
               SubSeq(batch[x].rep, 1, batch[x].sps[i].size - kHeader)]
       ELSE <<>>]
Abstract == INSTANCE UndoLog WITH log <- Log, undo <- Undo, Stamped <- Stamp
ImplementsUndoLog == Abstract!Spec
=============================================================================
