---------------------------- MODULE MCWriteBatch ----------------------------
EXTENDS WriteBatch

CONSTANTS b1, b2

R(tag) == Record(tag, 0, "none")

MCTsSize == [cf \in CFs |-> IF cf = 0 THEN 0 ELSE 8]

(* One batch: nested save points, refused records, prepared sections. *)
Nested ==
    [batches |-> {b1}, cfs |-> {0}, tags |-> {"Put"},
     markers |-> {"Noop", "EndPrepare", "LogData"}, unprepared |-> {FALSE}, contents |-> {},
     max_bytes |-> {0, 15}, protections |-> BOOLEAN, track |-> {FALSE}, rewrite |-> FALSE,
     max_records |-> 4, max_save_points |-> 2]

(* One batch: every kind of record, serialized contents. *)
Kinds ==
    [Nested EXCEPT !.cfs = {0, 1}, !.tags = Updates,
                   !.markers = @ \cup {"BeginPrepare", "Commit", "Rollback"},
                   !.contents = {<<R("Put")>>, <<R("BeginPersistedPrepare"), R("Delete")>>},
                   !.max_bytes = {0}, !.track = {TRUE},
                   !.max_records = 2, !.max_save_points = 1]

(* Two batches: appends, copies, save points and prepared sections. *)
Pair ==
    [Nested EXCEPT !.batches = {b1, b2}, !.markers = {"Noop", "EndPrepare"},
                   !.max_bytes = {0}, !.protections = {TRUE},
                   !.max_records = 2, !.max_save_points = 1]

AllCallers == {Nested, Kinds, Pair}

(* A rollback goes behind the WAL termination point. *)
Rewriters ==
    {[Pair EXCEPT !.markers = {"LogData"}, !.protections = {FALSE}, !.rewrite = TRUE]}

(* A serialized batch starts with a noop. *)
LeadingNoop ==
    {[Nested EXCEPT !.markers = {}, !.contents = {<<R("Noop"), R("Put")>>}, !.max_bytes = {0},
                    !.protections = {FALSE}, !.max_records = 2]}
=============================================================================
