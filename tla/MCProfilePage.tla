--------------------------- MODULE MCProfilePage ---------------------------
(* Me and two others, and a nickname that nobody has at first. *)
EXTENDS ProfilePage, TLC

CONSTANTS me, b, c, nMe, nB, nC

Names == me :> nMe @@ b :> nB @@ c :> nC

(* The two others are alike, with their nicknames. *)
PageSymmetry == Permutations(Runs) \cup {b :> c @@ c :> b @@ nB :> nC @@ nC :> nB}
=============================================================================
