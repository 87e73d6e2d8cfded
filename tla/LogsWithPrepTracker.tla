------------------------ MODULE LogsWithPrepTracker ------------------------
(***************************************************************************)
(* db/logs_with_prep_tracker.{h,cc}: which write-ahead logs still hold a   *)
(* prepared but undecided transaction.  The answer decides which logs may  *)
(* be deleted, so an answer that skips a log loses a prepared transaction. *)
(*                                                                         *)
(* Two mutexes: logs_with_prep_mutex_ guards the ordered list of           *)
(* <<log, cnt>>, prepared_section_completed_mutex_ the counters of         *)
(* decided sections.  FindMinLogContainingOutstandingPrep holds the first  *)
(* over its whole loop and takes the second once per iteration, so         *)
(* completions may arrive between two of its iterations.                   *)
(***************************************************************************)
EXTENDS Lists, FiniteSets

CONSTANTS
    Logs,         \* the log numbers in use: a finite set of positive numbers
    MaxPrep,      \* bound: how many sections are prepared in one log
    None          \* no thread / no result yet

ASSUME LogsAssumption == Logs \subseteq (Nat \ {0}) /\ IsFiniteSet(Logs)
ASSUME MaxPrepAssumption == MaxPrep \in Nat
ASSUME NoneAssumption == None \notin Nat

VARIABLES
    logs_with_prep,   \* sequence of [log, cnt], ordered by log
    completed,        \* prepared_section_completed_: log -> count, 0 = no entry
    finding,          \* logs_with_prep_mutex_ is held by a running Find
    result,           \* what the last finished Find returned
    prepared,         \* history: sections ever prepared in each log
    decided           \* history: sections ever committed or aborted

vars == <<logs_with_prep, completed, finding, result, prepared, decided>>

Outstanding(l) == prepared[l] > decided[l]

Init ==
    /\ logs_with_prep = <<>>
    /\ completed = [l \in Logs |-> 0]
    /\ finding = FALSE
    /\ result = None
    /\ prepared = [l \in Logs |-> 0]
    /\ decided = [l \in Logs |-> 0]

-----------------------------------------------------------------------------

(* Mutant: the new entry starts at zero. *)
MutNewEntry(log) == [log |-> log, cnt |-> 0]

NewEntry(log) == [log |-> log, cnt |-> 1]

(* Mutant: any completion clears the entry. *)
MutUndecidedIn(e) == completed[e.log] = 0

(* The entry's log holds a section that is not completed yet. *)
UndecidedIn(e) == completed[e.log] < e.cnt

(* The scan from the back stops at the first entry whose log is below     *)
(* `log`; p is the place behind it.  The entry already there is counted    *)
(* up if it is the one for `log`, else a new one is inserted.              *)
MarkLogAsContainingPrepSection(log) ==
    /\ ~finding
    /\ prepared[log] < MaxPrep
    /\ \E p \in 1 .. Len(logs_with_prep) + 1 :
         /\ \A i \in 1 .. p - 1 : logs_with_prep[i].log < log
         /\ \A i \in p .. Len(logs_with_prep) : logs_with_prep[i].log >= log
         /\ logs_with_prep' =
              IF p <= Len(logs_with_prep) /\ logs_with_prep[p].log = log
              THEN [logs_with_prep EXCEPT ![p].cnt = @ + 1]
              ELSE PutAt(logs_with_prep, p, NewEntry(log))
    /\ prepared' = [prepared EXCEPT ![log] = @ + 1]
    /\ UNCHANGED <<completed, finding, result, decided>>

(* A section is decided once, after it was prepared. *)
MarkLogAsHavingPrepSectionFlushed(log) ==
    /\ Outstanding(log)
    /\ completed' = [completed EXCEPT ![log] = @ + 1]
    /\ decided' = [decided EXCEPT ![log] = @ + 1]
    /\ UNCHANGED <<logs_with_prep, finding, result, prepared>>

FindBegin ==
    /\ ~finding
    /\ finding' = TRUE
    /\ UNCHANGED <<logs_with_prep, completed, result, prepared, decided>>

(* One iteration of the loop, inside the inner lock. *)
FindStep ==
    /\ finding
    /\ logs_with_prep # <<>>
    /\ LET e == Head(logs_with_prep) IN
       \/ /\ UndecidedIn(e)
          /\ result' = e.log
          /\ finding' = FALSE
          /\ UNCHANGED <<logs_with_prep, completed>>
       \/ /\ ~UndecidedIn(e)
          /\ completed' = [completed EXCEPT ![e.log] = 0]
          /\ logs_with_prep' = Tail(logs_with_prep)
          /\ UNCHANGED <<finding, result>>
    /\ UNCHANGED <<prepared, decided>>

FindNone ==
    /\ finding
    /\ logs_with_prep = <<>>
    /\ result' = 0
    /\ finding' = FALSE
    /\ UNCHANGED <<logs_with_prep, completed, prepared, decided>>

Next ==
    \/ \E log \in Logs : MarkLogAsContainingPrepSection(log)
    \/ \E log \in Logs : MarkLogAsHavingPrepSectionFlushed(log)
    \/ FindBegin
    \/ FindStep
    \/ FindNone

Spec == Init /\ [][Next]_vars

-----------------------------------------------------------------------------

(* The shapes of the list and of the counters; an entry of the list counts *)
(* at least one section.                                                   *)
TypeOK ==
    /\ logs_with_prep \in Seq([log : Logs, cnt : Nat \ {0}])
    /\ completed \in [Logs -> Nat]
    /\ finding \in BOOLEAN
    /\ result \in Logs \cup {0, None}
    /\ prepared \in [Logs -> Nat]
    /\ decided \in [Logs -> Nat]

(* FindMinLogContainingOutstandingPrep never lets the caller delete a log  *)
(* that still holds an undecided section: when it returns, no log below    *)
(* its answer (no log at all if it answers 0) has one, and the log it      *)
(* names has one.                                                          *)
FindIsExact ==
    [][(finding /\ ~finding') =>
          IF result' = 0
          THEN \A l \in Logs : ~Outstanding(l)
          ELSE /\ Outstanding(result')
               /\ \A l \in Logs : l < result' => ~Outstanding(l)]_vars
=============================================================================
