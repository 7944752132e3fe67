\* Two clients, two nicknames, one e-mail address each may want; all faults.
CONSTANTS
    Clients = {a, b}
    Nicks = {n1, n2}
    Emails = {e1, e2}
    MaxUsers = 2
    MaxPictures = 2
    FriendsForeignKey = TRUE
    Faults = TRUE
    Null = Null
SYMMETRY RegistrationSymmetry
SPECIFICATION Spec
INVARIANTS TypeOK OkMeansComplete PicturesOfUsersStored FailureLeavesHalf
PROPERTIES OnlyHalfAccountsRemoved RegistrySpec
CHECK_DEADLOCK FALSE
