------------------------- MODULE MCMemTableInserter -------------------------
EXTENDS MemTableInserter, TLC

CONSTANTS t1, t2

U(tag, cf, key) == [tag |-> tag, cf |-> cf, key |-> key]

(* Every kind of update, over two families. *)
KindUpdates ==
    {<<U(tag, 1, "k")>> : tag \in Updates \ {"EmptyRange"}}
    \cup {<<U("EmptyRange", 1, "k"), U("Put", 2, "k")>>}

KeyTxn == {<<U("Put", 1, "k"), U("DeleteRange", 2, "k")>>}

PlainBatch == {<<U("Put", 1, "k"), U("Delete", 2, "k")>>}

PlainOrLogData == PlainBatch \cup {<<U("LogData", 1, "k")>>}

(* Duplicates in one transaction, spread over two families. *)
DupTxn ==
    {<<U("Put", 1, "k"), U("Merge", 2, "k"), U("Put", 1, "k"), U("SingleDelete", 2, "k")>>}

(* A sequence number per key, data inserted at commit. *)
WriteCommitted ==
    [seq_per_batch |-> FALSE, batch_per_txn |-> TRUE, allow_2pc |-> TRUE,
     ignore_missing |-> FALSE, in_place |-> "off", protected |-> TRUE,
     no_merge |-> {}, no_range |-> {}, droppable |-> {}, names |-> {t1, t2},
     plain |-> PlainBatch, txn |-> KeyTxn, max_group |-> 2, max_groups |-> 2, max_logs |-> 3]

(* A sequence number per sub-batch. *)
WritePrepared ==
    [WriteCommitted EXCEPT !.seq_per_batch = TRUE, !.names = {t1}, !.txn = DupTxn]

(* Transactions written in several sections. *)
WriteUnprepared ==
    [WritePrepared EXCEPT !.batch_per_txn = FALSE, !.plain = PlainOrLogData,
                          !.max_group = 1, !.max_groups = 3]

(* Every kind of update, families dropped or without support; one of the   *)
(* transactions cannot be committed, the other can.                        *)
AllKinds ==
    [WriteCommitted EXCEPT !.in_place = "update", !.no_merge = {1}, !.no_range = {2},
                           !.droppable = {2}, !.names = {t1}, !.plain = KindUpdates,
                           !.txn = KeyTxn \cup PlainBatch, !.max_group = 1, !.max_groups = 3, !.max_logs = 2]

Policies == {WriteCommitted, WritePrepared, WriteUnprepared, AllKinds}

(* An in-place callback. *)
WithCallback == {[AllKinds EXCEPT !.in_place = "callback", !.plain = PlainBatch]}
=============================================================================
