--------------------------- MODULE MCClientSession ---------------------------
(* Small instances of ClientSession. *)
EXTENDS ClientSession, TLC

SessionSymmetry == Permutations(Users) \cup Permutations(Calls) \cup Permutations(Logins)
=============================================================================
