\* Two clients that compete for one nickname; all faults.
CONSTANTS
    Clients = {a, b}
    Nicks = {n1}
    Emails = {e1}
    MaxUsers = 2
    MaxPictures = 2
    FriendsForeignKey = FALSE
    Faults = TRUE
    Null = Null
SPECIFICATION FairSpec
PROPERTIES Answered
CHECK_DEADLOCK FALSE
