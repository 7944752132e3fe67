\* The first user of a new database logs in; nothing fails.
CONSTANTS
    Clients = {a}
    Nicks = {n1}
    Emails = {e1}
    MaxUsers = 1
    MaxPictures = 1
    FriendsForeignKey = TRUE
    Faults = FALSE
    Null = Null
    ProbeId = 18
    Fold <- TwoCases
    Other = Null
SPECIFICATION LoginSpec
INVARIANTS RefusalMeansInvalid
CHECK_DEADLOCK FALSE
