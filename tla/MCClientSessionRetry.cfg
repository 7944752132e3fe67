\* The posts of a profile are asked for again with a new token.
CONSTANTS
    Users = {u1}
    Calls = {k1}
    Logins = {l1}
    Operations = {"getPostsListById"}
    MaxTokens = 3
    Null = Null
SPECIFICATION Spec
INVARIANTS RetryNamesSame
CHECK_DEADLOCK FALSE
