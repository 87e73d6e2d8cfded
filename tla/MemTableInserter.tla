-------------------------- MODULE MemTableInserter --------------------------
(***************************************************************************)
(* Write groups go to the log and are then iterated into the memtables by  *)
(* a MemTableInserter, which hands out the sequence numbers.  After a      *)
(* crash the log is iterated again: column families flushed since then are *)
(* skipped and prepared transactions are rebuilt.  The transaction layer   *)
(* that forms the batches, the memtables, and the database that allots     *)
(* sequence numbers and flushes are modelled from how this code uses them. *)
(***************************************************************************)
EXTENDS Integers, Sequences, SequencesExt, FiniteSets

CONSTANTS CFs, Null,
          Databases    \* what is checked: options, requests and bounds

VARIABLES db,        \* the member of Databases in use
          wal,       \* the logged batches: log number, header sequence, records
          log,       \* the current log
          nextseq,   \* the sequence number of the next group
          group,     \* writers of the current group still to be inserted
          wseq,      \* sequence of the writer being inserted
          ins,       \* the inserter
          frames,    \* the Iterate calls in progress, the innermost last
          mem,       \* the memtable of each family
          minprep,   \* min_prep_log_referenced_ of each memtable, 0 for none
          flushed,   \* what each family has on disk
          cflog,     \* the log number of each family
          manifest,  \* the next sequence number recorded by the last flush
          dropped,
          live,      \* the undecided transactions
          txns,      \* the transactions rebuilt by the recovery
          phase, groups, ridx,
          ghost, inflight

vars == <<db, wal, log, nextseq, group, wseq, ins, frames, mem, minprep, flushed, cflog,
          manifest, dropped, live, txns, phase, groups, ridx, ghost, inflight>>

SeqPerBatch == db.seq_per_batch    \* a sequence number per (sub-)batch, not per key
BatchPerTxn == db.batch_per_txn    \* FALSE: a transaction may write before its prepare
Allow2pc == db.allow_2pc           \* is it reopened as a transaction database
IgnoreMissing == db.ignore_missing \* ignore_missing_column_families of live writes
InPlace == db.in_place             \* "off", "update" or "callback"
Protected == db.protected          \* do batches carry protection info
NoMerge == db.no_merge             \* families without a merge operator
NoRange == db.no_range             \* families that do not support DeleteRange
Droppable == db.droppable          \* families that may be dropped
Names == db.names                  \* transactions
PlainUpdates == db.plain           \* updates of batches outside transactions
TxnUpdates == db.txn               \* updates of transactions
MaxGroup == db.max_group           \* bounds: writers of a group, groups, logs
MaxGroups == db.max_groups
MaxLogs == db.max_logs

Updates ==
    {"Put", "TimedPut", "PutEntity", "PutBlobIndex", "Delete", "SingleDelete",
     "DeleteRange", "EmptyRange", "InvertedRange", "Merge"}

Ranges == {"DeleteRange", "EmptyRange", "InvertedRange"}

BeginTags == {"BeginPrepare", "BeginPersistedPrepare", "BeginUnprepare"}

CommitTags == {"Commit", "CommitWithTimestamp"}

IsUpdate(r) == r.tag \in Updates

Count(rep) == Len(SelectSeq(rep, IsUpdate))

Marker(tag, name) == [tag |-> tag, name |-> name]

Ids(rep) == {rep[i].id : i \in {j \in 1 .. Len(rep) : IsUpdate(rep[j])}}

-----------------------------------------------------------------------------
(* The inserter. *)

NewInserter(seq, recovering) ==
    [seq |-> seq, recovering |-> recovering, logref |-> 0,
     prot |-> Null, pidx |-> 1,
     rebuilding |-> Null, rebuildingSeq |-> 0, unprepared |-> FALSE, seen |-> {}]

write_after_commit == ~SeqPerBatch
write_before_prepare == ~BatchPerTxn

ProtectionOf(rep) == IF Protected THEN SelectSeq(rep, IsUpdate) ELSE Null

MaybeAdvanceSeq(n, batch_boundary) ==
    IF batch_boundary = SeqPerBatch THEN [n EXCEPT !.seq = @ + 1] ELSE n

(* NextProtectionInfo, taken back when the record is to be tried again.    *)
MutConsumed(n, s) == IF n.prot = Null THEN n ELSE [n EXCEPT !.pidx = @ + 1]

Consumed(n, s) ==
    IF n.prot = Null \/ s = "TryAgain" THEN n ELSE [n EXCEPT !.pidx = @ + 1]

ResetProtectionInfo(n) == [n EXCEPT !.prot = Null, !.pidx = 1]

Frame(rep) == [rep |-> rep, pos |-> 1, empty |-> TRUE, found |-> 0, again |-> FALSE, s |-> "Ok"]

Top == frames[Len(frames)]

Rec == Top.rep[Top.pos]

On(tags) ==
    frames # <<>> /\ Top.s = "Ok" /\ Top.pos <= Len(Top.rep) /\ Rec.tag \in tags

(* What Iterate does with a handler's status: the next record, the same    *)
(* one once more, or the end.                                              *)
Handled(f, s, empty) ==
    CASE s = "Ok" ->
           [f EXCEPT !.pos = @ + 1, !.again = FALSE, !.empty = empty,
                     !.found = IF IsUpdate(f.rep[f.pos]) THEN @ + 1 ELSE @]
      [] s = "TryAgain" /\ ~f.again -> [f EXCEPT !.again = TRUE]
      [] s = "TryAgain" /\ f.again -> [f EXCEPT !.s = "Corruption"]
      [] OTHER -> [f EXCEPT !.s = s]

Return(s, empty) == frames' = [frames EXCEPT ![Len(frames)] = Handled(@, s, empty)]

(* A blob index does not end the emptiness of a batch. *)
ReturnUpdate(s) == Return(s, IF Rec.tag = "PutBlobIndex" THEN Top.empty ELSE FALSE)

(* The duplicate detector's answer: the family's key was met under this    *)
(* sequence number.                                                        *)
IsDuplicateKeySeq(n, r) == <<r.cf, r.key, n.seq>> \in n.seen

Seen(n, r) ==
    [n EXCEPT !.seen = @ \cup
       {<<r.cf, r.key, IF IsDuplicateKeySeq(n, r) THEN n.seq + 1 ELSE n.seq>>}]

CanRebuild(r) == r.tag \notin {"TimedPut", "PutBlobIndex"}

Rebuilt(n, r) == [n EXCEPT !.rebuilding = Append(@, r)]

(* Cases of SeekToColumnFamily. *)
Missing(cf) == cf \in dropped

MutAlreadyFlushed(cf) == ins.recovering # 0 /\ ins.recovering <= cflog[cf]

AlreadyFlushed(cf) == ins.recovering # 0 /\ ins.recovering < cflog[cf]

MutIgnored == IgnoreMissing

Ignored == ins.recovering # 0 \/ IgnoreMissing

Seek(cf) == ~Missing(cf) /\ ~AlreadyFlushed(cf)

RefLog(cf) ==
    minprep' = [minprep EXCEPT ![cf] =
                  IF ins.logref > 0 /\ (@ = 0 \/ ins.logref < @) THEN ins.logref ELSE @]

RebuildOnly == write_after_commit /\ ins.rebuilding # Null

(* A prepared section is collected and not inserted. *)
Collect(r) ==
    /\ RebuildOnly
    /\ ins' = Consumed(IF CanRebuild(r) THEN Rebuilt(ins, r) ELSE ins, "Ok")
    /\ ReturnUpdate(IF CanRebuild(r) THEN "Ok" ELSE "Error")
    /\ UNCHANGED <<mem, minprep>>

MutAdvanced(n, r) == MaybeAdvanceSeq(n, FALSE)

(* The sequence number an insertion of the record would have used up.      *)
Advanced(n, r) ==
    IF n.rebuilding # Null THEN MaybeAdvanceSeq(Seen(n, r), IsDuplicateKeySeq(n, r))
    ELSE MaybeAdvanceSeq(n, FALSE)

(* The family is gone or was flushed: nothing is inserted, a transaction   *)
(* under reconstruction still collects the record.                         *)
Skip(r) ==
    LET ok == (Missing(r.cf) => Ignored) /\ (ins.rebuilding # Null => CanRebuild(r))
        n == IF ins.rebuilding # Null THEN Rebuilt(ins, r) ELSE ins
    IN  /\ ~RebuildOnly /\ ~Seek(r.cf)
        /\ ins' = Consumed(IF ok THEN Advanced(n, r) ELSE ins, "Ok")
        /\ ReturnUpdate(IF ok THEN "Ok" ELSE "Error")
        /\ UNCHANGED <<mem, minprep>>

(* Records the family does not take. *)
Refuse(r) ==
    /\ ~RebuildOnly /\ Seek(r.cf)
    /\ \/ r.tag \in Ranges /\ (r.cf \in NoRange \/ r.tag = "InvertedRange")
       \/ r.tag = "Merge" /\ r.cf \in NoMerge
    /\ ins' = Consumed(ins, "Ok")
    /\ RefLog(r.cf)
    /\ ReturnUpdate("Error")
    /\ UNCHANGED mem

(* An empty range is accepted and not applied. *)
AcceptEmpty(r) ==
    /\ ~RebuildOnly /\ Seek(r.cf)
    /\ r.tag = "EmptyRange" /\ r.cf \notin NoRange
    /\ ins' = Consumed(ins, "Ok")
    /\ RefLog(r.cf)
    /\ ReturnUpdate("Ok")
    /\ UNCHANGED mem

(* The memtable: an entry is found by its table, key and sequence number.  *)
Slot(r) == <<r.tag \in Ranges, r.key>>

Entry(r, seq) == [slot |-> Slot(r), seq |-> seq, tag |-> r.tag, id |-> r.id]

Newest(S, r) ==
    {e \in S : e.slot = Slot(r) /\ \A f \in S : f.slot = Slot(r) => f.seq <= e.seq}

(* Add: the status and the memtable's contents after. *)
Add(S, r) ==
    IF \E e \in S : e.slot = Slot(r) /\ e.seq = ins.seq
    THEN [s |-> "TryAgain", set |-> S]
    ELSE [s |-> "Ok", set |-> S \cup {Entry(r, ins.seq)}]

Updated(S, old, r) == [s |-> "Ok", set |-> (S \ old) \cup {[e EXCEPT !.id = r.id] : e \in old}]

(* UpdateCallback, and the read of the old value when the memtable has     *)
(* none, which only a live write carries out.  The callback updates in     *)
(* place, returns a value to be added, or has no update to make, which is  *)
(* no error; the read may fail.                                            *)
CalledBack(S, old, r) ==
    LET unchanged(s) == [s |-> s, set |-> S]
    IN  IF old # {}
        THEN {Updated(S, old, r), Add(S, r), unchanged("Ok")}
        ELSE IF ins.recovering # 0 THEN {unchanged("Error")}
        ELSE {Add(S, r), unchanged("Ok"), unchanged("Error")}

(* What storing the record may come to.  A merge carried out at once is    *)
(* stored where its operand would be.                                      *)
Stored(r) ==
    LET S == mem[r.cf]
        inplace == InPlace # "off" /\ r.tag \in {"Put", "TimedPut", "PutEntity", "PutBlobIndex"}
        old == {e \in Newest(S, r) : e.tag = r.tag}
    IN  IF ins.prot # Null /\ ins.prot[ins.pidx] # r THEN {[s |-> "Corruption", set |-> S]}
        ELSE IF InPlace = "callback" /\ r.tag = "Put" THEN CalledBack(S, old, r)
        ELSE IF inplace /\ old # {} THEN {Updated(S, old, r)}
        ELSE {Add(S, r)}

Insert(r) == \E o \in Stored(r) :
    LET n == CASE o.s = "TryAgain" -> MaybeAdvanceSeq(ins, TRUE)
               [] o.s = "Ok" -> MaybeAdvanceSeq(ins, FALSE)
               [] OTHER -> ins
        rebuild == /\ ins.rebuilding # Null
                   /\ o.s = "Ok" \/ (r.tag = "DeleteRange" /\ o.s # "TryAgain")
        s == IF ~rebuild THEN o.s ELSE IF CanRebuild(r) THEN "Ok" ELSE "Error"
    IN  /\ ~RebuildOnly /\ Seek(r.cf)
        /\ r.tag \notin {"EmptyRange", "InvertedRange"}
        /\ ~(r.tag = "DeleteRange" /\ r.cf \in NoRange)
        /\ ~(r.tag = "Merge" /\ r.cf \in NoMerge)
        /\ ins' = Consumed(IF rebuild /\ CanRebuild(r) THEN Rebuilt(n, r) ELSE n, s)
        /\ mem' = [mem EXCEPT ![r.cf] = o.set]
        /\ RefLog(r.cf)
        /\ ReturnUpdate(s)

PutCFImpl(tag) == On({tag}) /\ (Collect(Rec) \/ Skip(Rec) \/ Insert(Rec))

PutCF == PutCFImpl("Put")

TimedPutCF == PutCFImpl("TimedPut")

PutEntityCF == PutCFImpl("PutEntity")

PutBlobIndexCF == PutCFImpl("PutBlobIndex")

DeleteCF == On({"Delete"}) /\ (Collect(Rec) \/ Skip(Rec) \/ Insert(Rec))

SingleDeleteCF == On({"SingleDelete"}) /\ (Collect(Rec) \/ Skip(Rec) \/ Insert(Rec))

DeleteRangeCF ==
    On(Ranges) /\ (Collect(Rec) \/ Skip(Rec) \/ Refuse(Rec) \/ AcceptEmpty(Rec) \/ Insert(Rec))

MergeCF == On({"Merge"}) /\ (Collect(Rec) \/ Skip(Rec) \/ Refuse(Rec) \/ Insert(Rec))

LogData == On({"LogData"}) /\ Return("Ok", FALSE) /\ UNCHANGED <<ins, mem, minprep>>

(* Does the begin marker belong to another write policy than this one?     *)
OtherPolicy(tag) ==
    \/ tag = "BeginPrepare" /\ (~write_after_commit \/ write_before_prepare)
    \/ tag = "BeginPersistedPrepare" /\ write_after_commit
    \/ tag = "BeginUnprepare" /\ (write_after_commit \/ ~write_before_prepare)

(* "MarkerFailed" is the status after which Iterate asserts that it is ok. *)
MarkBeginPrepare ==
    LET rebuild == ins.recovering # 0 /\ Allow2pc
    IN  /\ On(BeginTags)
        /\ ins' = IF rebuild
                  THEN [ins EXCEPT !.rebuilding = <<>>, !.rebuildingSeq = ins.seq,
                                   !.unprepared = (Rec.tag = "BeginUnprepare")]
                  ELSE ins
        /\ Return(IF ins.recovering # 0 /\ ~Allow2pc THEN "MarkerFailed"
                  ELSE IF OtherPolicy(Rec.tag) THEN "Error" ELSE "Ok", FALSE)
        /\ UNCHANGED <<mem, minprep, txns>>

RecoveredBatch ==
    [seq |-> ins.rebuildingSeq, ups |-> ins.rebuilding, log |-> ins.recovering,
     cnt |-> IF write_after_commit THEN 0 ELSE ins.seq - ins.rebuildingSeq + 1,
     unprepared |-> ins.unprepared]

(* InsertRecoveredTransaction: a batch more of a transaction, or the first.*)
InsertRecoveredTransaction(T, name, b) ==
    IF name \in DOMAIN T THEN [T EXCEPT ![name] = Append(@, b)]
    ELSE [x \in DOMAIN T \cup {name} |-> IF x = name THEN <<b>> ELSE T[x]]

Without(T, name) == [x \in DOMAIN T \ {name} |-> T[x]]

MutEnded(n) == n

Ended(n) == [n EXCEPT !.rebuilding = Null, !.unprepared = FALSE]

MarkEndPrepare ==
    /\ On({"EndPrepare"})
    /\ txns' = IF ins.recovering # 0
               THEN InsertRecoveredTransaction(txns, Rec.name, RecoveredBatch) ELSE txns
    /\ ins' = MaybeAdvanceSeq(Ended(ins), TRUE)
    /\ Return("Ok", TRUE)
    /\ UNCHANGED <<mem, minprep>>

MutNoopAdvances(empty) == TRUE

NoopAdvances(empty) == ~empty

MarkNoop ==
    /\ On({"Noop"})
    /\ ins' = IF NoopAdvances(Top.empty) THEN MaybeAdvanceSeq(ins, TRUE) ELSE ins
    /\ Return("Ok", TRUE)
    /\ UNCHANGED <<mem, minprep, txns>>

(* A commit marker in the log whose transaction was rebuilt: under write   *)
(* after commit its batch is iterated now, inside this Iterate.            *)
CommitsRebuilt(name) == ins.recovering # 0 /\ name \in DOMAIN txns /\ write_after_commit

MarkCommitBegin ==
    /\ On({"Commit"}) /\ CommitsRebuilt(Rec.name)
    /\ LET b == txns[Rec.name][1]
       IN  /\ ins' = [ResetProtectionInfo(ins) EXCEPT !.logref = b.log]
           /\ frames' = Append(frames, Frame(b.ups))
    /\ UNCHANGED <<mem, minprep, txns>>

(* UpdateTimestamps of a rebuilt batch.  Its callback asserts that every   *)
(* family is there and then uses it: "Fault" stands for where either build *)
(* ends when one was dropped.                                              *)
UpdateTimestamps(ups) ==
    IF \E i \in 1 .. Len(ups) : Missing(ups[i].cf) THEN "Fault" ELSE "Ok"

(* The commit timestamp is put into the batch first; a failure leaves the  *)
(* log reference set and the transaction where it is.                      *)
MarkCommitWithTimestamp ==
    /\ On({"CommitWithTimestamp"}) /\ CommitsRebuilt(Rec.name)
    /\ LET b == txns[Rec.name][1]
           n == [ins EXCEPT !.logref = b.log]
           s == UpdateTimestamps(b.ups)
       IN  IF s = "Ok"
           THEN ins' = ResetProtectionInfo(n) /\ frames' = Append(frames, Frame(b.ups))
           ELSE ins' = MaybeAdvanceSeq(n, TRUE) /\ Return(s, Top.empty)
    /\ UNCHANGED <<mem, minprep, txns>>

IterateDone(f) == f.s # "Ok" \/ f.pos > Len(f.rep)

Outcome(f) ==
    IF f.s = "Ok" /\ f.found # Count(f.rep) THEN "Corruption" ELSE f.s

Committed(T, name, s) == IF s = "Ok" THEN Without(T, name) ELSE T

(* Iterate asserts the status of the plain marker and returns the other's. *)
MarkCommitEnd ==
    /\ Len(frames) = 2 /\ IterateDone(Top)
    /\ LET outer == frames[1]
           marker == outer.rep[outer.pos]
           s == Outcome(Top)
           asserted == s # "Ok" /\ marker.tag = "Commit"
       IN  /\ frames' = <<Handled(outer, IF asserted THEN "MarkerFailed" ELSE s, TRUE)>>
           /\ txns' = Committed(txns, marker.name, s)
    /\ ins' = MaybeAdvanceSeq([ins EXCEPT !.logref = 0], TRUE)
    /\ UNCHANGED <<mem, minprep>>

(* Outside recovery, or when the data was inserted before the commit.      *)
MarkCommit ==
    /\ On(CommitTags) /\ ~CommitsRebuilt(Rec.name)
    /\ txns' = IF ins.recovering # 0 THEN Without(txns, Rec.name) ELSE txns
    /\ ins' = MaybeAdvanceSeq(ins, TRUE)
    /\ Return("Ok", TRUE)
    /\ UNCHANGED <<mem, minprep>>

MarkRollback ==
    /\ On({"Rollback"})
    /\ txns' = IF ins.recovering # 0 THEN Without(txns, Rec.name) ELSE txns
    /\ ins' = MaybeAdvanceSeq(ins, TRUE)
    /\ Return("Ok", TRUE)
    /\ UNCHANGED <<mem, minprep>>

UpdateStep ==
    /\ \/ PutCF \/ TimedPutCF \/ PutEntityCF \/ PutBlobIndexCF
       \/ DeleteCF \/ SingleDeleteCF \/ DeleteRangeCF \/ MergeCF \/ LogData
    /\ UNCHANGED txns

MarkerStep ==
    \/ MarkBeginPrepare \/ MarkEndPrepare \/ MarkNoop
    \/ MarkCommitBegin \/ MarkCommitWithTimestamp \/ MarkCommitEnd \/ MarkCommit \/ MarkRollback

Iterate ==
    /\ UpdateStep \/ MarkerStep
    /\ UNCHANGED <<db, wal, log, nextseq, group, wseq, flushed, cflog, manifest, dropped, live,
                   phase, groups, ridx, ghost, inflight>>

-----------------------------------------------------------------------------
(* Live writes: the transaction layer forms the writers of a group.        *)

Stamped(ups, w) ==
    [i \in 1 .. Len(ups) |->
       [tag |-> ups[i].tag, cf |-> ups[i].cf, key |-> ups[i].key, id |-> <<groups, w, i>>]]

(* The number of sub-batches: a repeated key starts the next one.          *)
SubBatchCnt(ups) ==
    LET step(a, r) ==
          IF <<r.cf, r.key>> \in a.keys
          THEN [n |-> a.n + 1, keys |-> {<<r.cf, r.key>>}]
          ELSE [a EXCEPT !.keys = @ \cup {<<r.cf, r.key>>}]
    IN  FoldLeft(step, [n |-> 1, keys |-> {}], SelectSeq(ups, IsUpdate)).n

Unfinished(t) == t \in DOMAIN live /\ live[t][Len(live[t])].unprepared

Decidable == {t \in DOMAIN live : ~Unfinished(t)}

Requests ==
    [kind : {"plain"}, ups : PlainUpdates, lead : IF SeqPerBatch THEN BOOLEAN ELSE {FALSE}]
    \cup [kind : {"failed"}]
    \cup [kind : {"prepare"}, ups : TxnUpdates, name : Names \ Decidable]
    \cup [kind : {"unprepare"}, ups : TxnUpdates,
          name : IF BatchPerTxn THEN {} ELSE Names \ Decidable]
    \cup [kind : {"commit"}, name : Decidable, tag : CommitTags]
    \cup [kind : {"rollback"}, name : Decidable]

NoWriter ==
    [failed |-> FALSE, toMem |-> TRUE, rep |-> <<>>, wal |-> <<>>, logref |-> 0, cnt |-> 1]

Section(q, ups) ==
    <<Marker(IF ~SeqPerBatch THEN "BeginPrepare"
             ELSE IF q.kind = "unprepare" THEN "BeginUnprepare" ELSE "BeginPersistedPrepare", Null)>>
    \o ups \o <<Marker("EndPrepare", q.name)>>

Noop == Marker("Noop", Null)

WriterOf(q, w) ==
    CASE q.kind = "failed" -> [NoWriter EXCEPT !.failed = TRUE]
      [] q.kind = "plain" ->
         LET u == Stamped(q.ups, w)
             r == (IF q.lead THEN <<Noop>> ELSE <<>>) \o u \o (IF SeqPerBatch THEN <<Noop>> ELSE <<>>)
         IN  [NoWriter EXCEPT !.rep = r, !.wal = r, !.cnt = SubBatchCnt(u)]
      [] q.kind \in {"prepare", "unprepare"} ->
         LET u == Stamped(q.ups, w)
         IN  [NoWriter EXCEPT !.rep = Section(q, u), !.wal = Section(q, u),
                              !.toMem = SeqPerBatch, !.cnt = SubBatchCnt(u)]
      [] q.kind = "commit" /\ SeqPerBatch ->
         LET r == <<Marker(q.tag, q.name)>>
         IN  [NoWriter EXCEPT !.rep = r, !.wal = r, !.toMem = FALSE]
      [] q.kind = "commit" /\ ~SeqPerBatch ->
         LET b == live[q.name][1]
             m == <<Marker(q.tag, q.name)>>
         IN  [NoWriter EXCEPT !.rep = m \o Section([kind |-> "prepare", name |-> q.name], b.ups),
                              !.wal = m, !.logref = b.log]
      [] OTHER ->
         LET r == <<Marker("Rollback", q.name)>> IN [NoWriter EXCEPT !.rep = r, !.wal = r]

(* Sequence numbers the database sets aside for a writer. *)
Allotted(w) ==
    IF w.failed THEN 0
    ELSE IF SeqPerBatch THEN w.cnt
    ELSE IF w.toMem THEN Count(w.rep) ELSE 0

SeqBefore(W, i) == nextseq + FoldLeft(+, 0, [j \in 1 .. i - 1 |-> Allotted(W[j])])

(* The undecided transactions once the group is in the log. *)
Decided(T, q, w, seq) ==
    CASE q.kind \in {"prepare", "unprepare"} ->
           InsertRecoveredTransaction(T, q.name,
             [seq |-> seq, ups |-> SelectSeq(w.rep, IsUpdate), log |-> log,
              cnt |-> IF SeqPerBatch THEN w.cnt ELSE 0, unprepared |-> q.kind = "unprepare"])
      [] q.kind \in {"commit", "rollback"} -> Without(T, q.name)
      [] OTHER -> T

Distinct(Q) ==
    \A i, j \in 1 .. Len(Q) :
       i # j /\ "name" \in DOMAIN Q[i] /\ "name" \in DOMAIN Q[j] => Q[i].name # Q[j].name

Write ==
    /\ phase = "idle" /\ groups < MaxGroups
    /\ \E n \in 1 .. MaxGroup : \E Q \in [1 .. n -> Requests] :
          LET W == [i \in 1 .. n |-> WriterOf(Q[i], i)]
              rep == FlattenSeq([i \in 1 .. n |-> W[i].wal])
              step(T, i) == Decided(T, Q[i], W[i], SeqBefore(W, i))
          IN  /\ Distinct(Q)
              /\ wal' = IF rep = <<>> THEN wal
                        ELSE Append(wal, [log |-> log, seq |-> nextseq, rep |-> rep])
              /\ nextseq' = SeqBefore(W, n + 1)
              /\ group' = W
              /\ live' = FoldLeft(step, live, [i \in 1 .. n |-> i])
              /\ inflight' = UNION {Ids(W[i].rep) : i \in {j \in 1 .. n : W[j].toMem}}
    /\ ins' = NewInserter(nextseq, 0)
    /\ groups' = groups + 1 /\ phase' = "group"
    /\ UNCHANGED <<db, log, wseq, frames, mem, minprep, flushed, cflog, manifest, dropped,
                   txns, ridx, ghost>>

(* InsertInto(write_group): the writers in turn, with one inserter.        *)
StartWriter ==
    /\ phase = "group" /\ frames = <<>> /\ group # <<>>
    /\ LET w == Head(group)
           n == [ins EXCEPT !.logref = w.logref, !.prot = ProtectionOf(w.rep), !.pidx = 1]
       IN  IF w.failed THEN group' = Tail(group) /\ UNCHANGED <<wseq, ins, frames>>
           ELSE /\ wseq' = ins.seq
                /\ IF w.toMem
                   THEN ins' = n /\ frames' = <<Frame(w.rep)>> /\ UNCHANGED group
                   ELSE /\ ins' = MaybeAdvanceSeq(ins, TRUE)
                        /\ group' = Tail(group) /\ UNCHANGED frames
    /\ UNCHANGED <<db, wal, log, nextseq, mem, minprep, flushed, cflog, manifest, dropped,
                   live, txns, phase, groups, ridx, ghost, inflight>>

FinishWriter ==
    /\ phase = "group" /\ Len(frames) = 1 /\ IterateDone(Top)
    /\ IF Outcome(Top) = "Ok"
       THEN group' = Tail(group) /\ frames' = <<>> /\ UNCHANGED phase
       ELSE phase' = "stopped" /\ UNCHANGED <<group, frames>>
    /\ UNCHANGED <<db, wal, log, nextseq, wseq, ins, mem, minprep, flushed, cflog, manifest,
                   dropped, live, txns, groups, ridx, ghost, inflight>>

GroupDone ==
    /\ phase = "group" /\ group = <<>>
    /\ phase' = "idle" /\ inflight' = {}
    /\ UNCHANGED <<db, wal, log, nextseq, group, wseq, ins, frames, mem, minprep, flushed,
                   cflog, manifest, dropped, live, txns, groups, ridx, ghost>>

-----------------------------------------------------------------------------
(* Flushes, dropped families, obsolete logs, the crash and the recovery.   *)

(* CheckMemtableFull only schedules it: it comes between groups.           *)
Flush(cf) ==
    /\ phase = "idle" /\ log < MaxLogs
    /\ cf \notin dropped /\ mem[cf] # {}
    /\ flushed' = [flushed EXCEPT ![cf] = @ \cup mem[cf]]
    /\ mem' = [mem EXCEPT ![cf] = {}]
    /\ minprep' = [minprep EXCEPT ![cf] = 0]
    /\ log' = log + 1
    /\ cflog' = [c \in CFs |-> IF c = cf \/ mem[c] = {} THEN log + 1 ELSE cflog[c]]
    /\ manifest' = nextseq
    /\ UNCHANGED <<db, wal, nextseq, group, wseq, ins, frames, dropped, live, txns, phase,
                   groups, ridx, ghost, inflight>>

Drop(cf) ==
    /\ phase = "idle" /\ cf \in Droppable \ dropped
    /\ dropped' = dropped \cup {cf}
    /\ UNCHANGED <<db, wal, log, nextseq, group, wseq, ins, frames, mem, minprep, flushed,
                   cflog, manifest, live, txns, phase, groups, ridx, ghost, inflight>>

(* Logs still needed by a family, by an undecided transaction or by a      *)
(* memtable that holds a committed prepared section.                       *)
NeededLogs ==
    {cflog[c] : c \in CFs \ dropped} \cup {log}
    \cup UNION {{live[t][i].log : i \in 1 .. Len(live[t])} : t \in DOMAIN live}
    \cup {minprep[c] : c \in {d \in CFs \ dropped : minprep[d] # 0}}

DeleteObsoleteLogs ==
    LET needed(r) == \E l \in NeededLogs : l <= r.log
    IN  /\ phase = "idle"
        /\ wal' = SelectSeq(wal, needed)
        /\ wal' # wal
        /\ UNCHANGED <<db, log, nextseq, group, wseq, ins, frames, mem, minprep, flushed, cflog,
                       manifest, dropped, live, txns, phase, groups, ridx, ghost, inflight>>

LivePhases == {"idle", "group", "stopped"}

Crash ==
    /\ phase' = "recovering"
    /\ ghost' = IF phase \in LivePhases THEN [c \in CFs |-> mem[c] \cup flushed[c]] ELSE ghost
    /\ mem' = [c \in CFs |-> {}] /\ minprep' = [c \in CFs |-> 0]
    /\ txns' = << >> /\ frames' = <<>> /\ group' = <<>>
    /\ ridx' = 0 /\ ins' = NewInserter(1, 0) /\ wseq' = 0
    /\ UNCHANGED <<db, wal, log, nextseq, flushed, cflog, manifest, dropped, live, groups, inflight>>

(* InsertInto(batch): a new inserter for every batch read from the log.    *)
StartRecord ==
    /\ phase = "recovering" /\ frames = <<>> /\ ridx < Len(wal)
    /\ LET r == wal[ridx + 1]
       IN  /\ ins' = [NewInserter(r.seq, r.log) EXCEPT !.prot = ProtectionOf(r.rep)]
           /\ frames' = <<Frame(r.rep)>>
    /\ ridx' = ridx + 1
    /\ UNCHANGED <<db, wal, log, nextseq, group, wseq, mem, minprep, flushed, cflog, manifest,
                   dropped, live, txns, phase, groups, ghost, inflight>>

FinishRecord ==
    /\ phase = "recovering" /\ Len(frames) = 1 /\ IterateDone(Top)
    /\ IF Outcome(Top) = "Ok" THEN frames' = <<>> /\ UNCHANGED phase
       ELSE phase' = "unopenable" /\ UNCHANGED frames
    /\ UNCHANGED <<db, wal, log, nextseq, group, wseq, ins, mem, minprep, flushed, cflog,
                   manifest, dropped, live, txns, groups, ridx, ghost, inflight>>

RecoveryDone ==
    /\ phase = "recovering" /\ frames = <<>> /\ ridx = Len(wal)
    /\ phase' = "recovered"
    /\ UNCHANGED <<db, wal, log, nextseq, group, wseq, ins, frames, mem, minprep, flushed, cflog,
                   manifest, dropped, live, txns, groups, ridx, ghost, inflight>>

Reopen ==
    /\ phase = "recovered"
    /\ phase' = "idle"
    /\ nextseq' = IF ins.seq > manifest THEN ins.seq ELSE manifest
    /\ live' = txns /\ txns' = << >>
    /\ ghost' = [c \in CFs |-> {}] /\ inflight' = {} /\ ridx' = 0
    /\ UNCHANGED <<db, wal, log, group, wseq, ins, frames, mem, minprep, flushed, cflog, manifest,
                   dropped, groups>>

Init ==
    /\ db \in Databases
    /\ wal = <<>> /\ log = 1 /\ nextseq = 1 /\ group = <<>> /\ wseq = 0
    /\ ins = NewInserter(1, 0) /\ frames = <<>>
    /\ mem = [c \in CFs |-> {}] /\ minprep = [c \in CFs |-> 0]
    /\ flushed = [c \in CFs |-> {}] /\ cflog = [c \in CFs |-> 1] /\ manifest = 1
    /\ dropped = {} /\ live = << >> /\ txns = << >>
    /\ phase = "idle" /\ groups = 0 /\ ridx = 0
    /\ ghost = [c \in CFs |-> {}] /\ inflight = {}

Next ==
    \/ Iterate
    \/ Write \/ StartWriter \/ FinishWriter \/ GroupDone
    \/ \E cf \in CFs : Flush(cf) \/ Drop(cf)
    \/ DeleteObsoleteLogs
    \/ Crash \/ StartRecord \/ FinishRecord \/ RecoveryDone \/ Reopen

Spec == Init /\ [][Next]_vars

-----------------------------------------------------------------------------

Statuses == {"Ok", "Error", "Corruption", "MarkerFailed", "Fault"}

(* The inserter's parts keep their types, a nested Iterate is never nested *)
(* itself, and a transaction is rebuilt only during recovery (the          *)
(* assertions of MarkBeginPrepare and MarkEndPrepare).                     *)
TypeOK ==
    /\ Len(frames) <= 2 /\ \A i \in 1 .. Len(frames) : frames[i].s \in Statuses
    /\ ins.seq \in Nat /\ ins.logref \in 0 .. MaxLogs
    /\ ins.rebuilding # Null => ins.recovering # 0
    /\ On(BeginTags) => ins.rebuilding = Null
    /\ On({"EndPrepare"}) /\ Allow2pc => (ins.rebuilding # Null) = (ins.recovering # 0)
    /\ On(CommitTags) /\ ins.recovering # 0 => ins.logref = 0

(* Iterating a batch that nobody damaged never reports corruption: the     *)
(* protection info stays in step with the records across retries, no       *)
(* record is tried a third time, and the updates found are those counted.  *)
NoCorruption ==
    \A i \in 1 .. Len(frames) : IterateDone(frames[i]) => Outcome(frames[i]) # "Corruption"

(* InsertInto's assertion: a writer uses up exactly as many sequence       *)
(* numbers as its batch has sub-batches, however its duplicates and its    *)
(* leading and trailing noops fall.                                        *)
BatchCountAgrees ==
    SeqPerBatch /\ phase = "group" /\ Len(frames) = 1 /\ IterateDone(Top) /\ Top.s = "Ok"
      => ins.seq - wseq = Head(group).cnt

(* Every entry present before the crash is present after the recovery, the *)
(* versions of a key are in the same order, and no two versions of a key   *)
(* share a sequence number; anything more, or an entry updated in place,   *)
(* stems from the write the crash interrupted.  Skipped families, retried  *)
(* keys, merged groups, rebuilt transactions and deleted logs bear on it.  *)
RecoveryExact ==
    phase = "recovered" =>
      \A c \in CFs \ dropped :
         LET now == mem[c] \cup flushed[c]
             same(e, f) == e.slot = f.slot /\ e.id = f.id
         IN  /\ \A e \in ghost[c] :
                   \E f \in now : same(e, f) \/ (InPlace # "off" /\ f.slot = e.slot /\ f.id \in inflight)
             /\ \A f \in now : f.id \notin inflight => \E e \in ghost[c] : same(e, f)
             /\ \A f, g \in now : f.slot = g.slot /\ f.seq = g.seq => f = g
             /\ \A e, d \in ghost[c], f, g \in now :
                   e.slot = d.slot /\ same(e, f) /\ same(d, g) /\ e.seq < d.seq => f.seq < g.seq

(* The transactions rebuilt are exactly the undecided ones, each with its  *)
(* records, sequence number, log and number of sub-batches.                *)
TransactionsRecovered == phase = "recovered" => txns = live

(* A log that live writes produced can be recovered.  The recovery fails   *)
(* at most on the last batch, which live writes had not completed either,  *)
(* or at the one place where MarkCommitWithTimestamp takes for granted     *)
(* that no family of the transaction was dropped after the commit.         *)
RecoverySucceeds ==
    phase = "unopenable" =>
      \/ inflight # {} /\ ridx = Len(wal)
      \/ Top.s = "Fault" /\ Rec.tag = "CommitWithTimestamp" /\ dropped # {}
=============================================================================
