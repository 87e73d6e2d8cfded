------------------------------- MODULE Lists -------------------------------
(* Insertion and removal in a linked list or vector, as operators on the   *)
(* sequence of its elements.                                               *)
EXTENDS Integers, Sequences

PutAt(s, i, e) == SubSeq(s, 1, i - 1) \o <<e>> \o SubSeq(s, i, Len(s))

DropAt(s, i) == SubSeq(s, 1, i - 1) \o SubSeq(s, i + 1, Len(s))
=============================================================================
