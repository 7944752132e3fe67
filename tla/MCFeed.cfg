\* A page and a half of one list, half a page of another; two calls at a time.
CONSTANTS
    a = a
    b = b
    Keys = {a, b}
    Me = a
    Limit = 2
    InitRows <- OwnAndOther
    MaxRows = 4
    Calls = {k1, k2}
    MaxChanges = 2
SPECIFICATION FairSpec
INVARIANTS FeedTypeOK NoRepeat NoGap OneKey ItemsOwn ListFaithful
PROPERTIES ScrollEnds
CONSTRAINT FewUpsets
CHECK_DEADLOCK FALSE
