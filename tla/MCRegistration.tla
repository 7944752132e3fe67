-------------------------- MODULE MCRegistration --------------------------
(* Small instances of Registration: clients that compete for names. *)
EXTENDS Registration, TLC

RegistrationSymmetry ==
    Permutations(Clients) \cup Permutations(Nicks) \cup Permutations(Emails)
=============================================================================
