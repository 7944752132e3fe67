--------------------------- MODULE MCPostServer ---------------------------
(* Small instances of PostServer. *)
EXTENDS PostServer, TLC

ServerSymmetry == Permutations(Users) \cup Permutations(Conns)

(* Workloads: the writing requests; one of each other kind. *)
WriteRequests == {r \in Requests : r.op \in Writes}
OtherRequests == {r \in Requests : r.op \notin Writes}
=============================================================================
