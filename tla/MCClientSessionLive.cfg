\* Two concurrent calls of one user; servers may never answer.
CONSTANTS
    Users = {u1}
    Calls = {k1, k2}
    Logins = {l1}
    Operations = {"postLike", "getPostsList"}
    MaxTokens = 3
    Null = Null
SPECIFICATION FairSpec
PROPERTIES CallEnds
CHECK_DEADLOCK FALSE
