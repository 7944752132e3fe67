------------------------------ MODULE MCFeed ------------------------------
(* Three lists of at most four rows in pages of two, two changes.          *)
EXTENDS Feed

OwnAndOther == [k \in Keys |-> IF k = Me THEN 3 ELSE 1]

(* Bound: no further than two kinds of things that may spoil the list.     *)
FewUpsets == Cardinality(upset) <= 2
=============================================================================
