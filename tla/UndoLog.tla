------------------------------ MODULE UndoLog ------------------------------
(***************************************************************************)
(* What a write batch promises its caller: a log of records with nested    *)
(* save points.  Rolling back returns to the very log the newest save      *)
(* point saw, whatever was written, refused or marked in between.          *)
(***************************************************************************)
EXTENDS Integers, Sequences

CONSTANTS Batches,
          Stamped(_)    \* a record with its timestamp placeholder filled in

VARIABLES log,     \* the records of a batch, oldest first
          undo     \* the logs its save points would return to, oldest first

vars == <<log, undo>>

Init == log = [x \in Batches |-> <<>>] /\ undo = [x \in Batches |-> <<>>]

Extends(new, old) == Len(new) >= Len(old) /\ SubSeq(new, 1, Len(old)) = old

StampAll(s) == [i \in 1 .. Len(s) |-> Stamped(s[i])]

Write(x) ==
    /\ Extends(log'[x], log[x])
    /\ undo'[x] = undo[x]

SetSavePoint(x) ==
    /\ undo'[x] = Append(undo[x], log[x])
    /\ log'[x] = log[x]

PopSavePoint(x) ==
    /\ undo[x] # <<>>
    /\ undo'[x] = SubSeq(undo[x], 1, Len(undo[x]) - 1)
    /\ log'[x] = log[x]

RollbackToSavePoint(x) ==
    /\ undo[x] # <<>>
    /\ log'[x] = undo[x][Len(undo[x])]
    /\ undo'[x] = SubSeq(undo[x], 1, Len(undo[x]) - 1)

Clear(x) ==
    /\ log'[x] = <<>>
    /\ undo'[x] = <<>>

(* Ending a prepared section turns the leading noop into its begin marker, *)
(* and nothing can be undone any more.                                     *)
EndPrepare(x) ==
    /\ log[x] # <<>> /\ log'[x] # <<>>
    /\ Extends(Tail(log'[x]), Tail(log[x]))
    /\ undo'[x] = <<>>

(* Serialized contents replace the records of a batch without save points. *)
SetContents(x) ==
    /\ undo[x] = <<>>
    /\ undo'[x] = <<>>

UpdateTimestamps(x) ==
    /\ log'[x] = StampAll(log[x])
    /\ undo'[x] = [i \in 1 .. Len(undo[x]) |-> StampAll(undo[x][i])]

CopyFrom(x, y) ==
    /\ log'[x] = log[y]
    /\ undo'[x] = undo[y]

Next ==
    \E x \in Batches :
       /\ \A y \in Batches \ {x} : log'[y] = log[y] /\ undo'[y] = undo[y]
       /\ \/ Write(x)
          \/ SetSavePoint(x)
          \/ PopSavePoint(x)
          \/ RollbackToSavePoint(x)
          \/ Clear(x)
          \/ EndPrepare(x)
          \/ SetContents(x)
          \/ UpdateTimestamps(x)
          \/ \E y \in Batches : CopyFrom(x, y)

Spec == Init /\ [][Next]_vars
=============================================================================
