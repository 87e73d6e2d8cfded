---------------------------- MODULE MCTieredCache ----------------------------
EXTENDS TieredCache

CONSTANTS m1, m2, a1, a2

(* Placeholders outgrow the capacity; the ratio changes. *)
Overcommitted ==
    [strict |-> FALSE, delayed |-> [m \in Managers |-> m = m1], memory |-> {0, 5, 12, 16},
     capacities |-> {}, ratios |-> {0, 2, 7, 10}, admins |-> {a1}, capacity |-> 21, ratio |-> 4,
     max_pinned |-> 0]

(* The capacity stays above what can be reserved. *)
Resized ==
    [Overcommitted EXCEPT !.memory = {0, 5, 8}, !.capacities = {16, 21, 30}, !.ratios = {2, 7}]

(* A primary with a strict capacity limit. *)
Strict ==
    [Overcommitted EXCEPT !.strict = TRUE, !.ratios = {0, 7}, !.max_pinned = 3]

AllSetups == {Overcommitted, Resized, Strict}

(* Two threads reconfigure. *)
TwoAdmins == {[Resized EXCEPT !.admins = {a1, a2}, !.memory = {0, 8}]}
=============================================================================
