----------------------------- MODULE MCButtons -----------------------------
(* A tab's buttons over the tables of PostStore, in the weaker schema      *)
(* without a foreign key on likes.                                         *)
EXTENDS Buttons, TLC

ButtonSymmetry == Permutations(Users \ {Me}) \cup Permutations(Clicks)
=============================================================================
