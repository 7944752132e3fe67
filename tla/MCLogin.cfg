\* Two clients, three addresses of which two differ in case; user 1 plays user 18.
CONSTANTS
    Clients = {a, b}
    Nicks = {n1, n2}
    Emails = {e1, e2, f}
    MaxUsers = 2
    MaxPictures = 1
    FriendsForeignKey = TRUE
    Faults = TRUE
    Null = Null
    ProbeId = 1
    Fold <- TwoCases
    Other = f
SYMMETRY LoginSymmetry
CONSTRAINT Strangers
SPECIFICATION LoginSpec
INVARIANTS SessionStaysOwn RefusalExplained
CHECK_DEADLOCK FALSE
