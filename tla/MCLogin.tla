------------------------------ MODULE MCLogin ------------------------------
(* Small instances of Login: two e-mail addresses that differ in case only,*)
(* and one, Other, that differs from both.                                 *)
EXTENDS Login, TLC

CONSTANT Other

TwoCases == [e \in Emails |-> IF e = Other THEN 1 ELSE 0]
LoginSymmetry == Permutations(Clients) \cup Permutations(Nicks) \cup Permutations(Emails \ {Other})

(* No log-in asks for friendships: states with one are looked at, and not  *)
(* followed further.                                                       *)
Strangers == friends = {}
=============================================================================
