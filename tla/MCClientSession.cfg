\* Two users in one tab, two concurrent calls, two overlapping log-ins.
CONSTANTS
    Users = {u1, u2}
    Calls = {k1, k2}
    Logins = {l1, l2}
    Operations = {"postLike"}
    MaxTokens = 4
    Null = Null
SYMMETRY SessionSymmetry
SPECIFICATION Spec
INVARIANTS TypeOK EffectOnce ActsForPage
PROPERTIES RetryIsNewer
CHECK_DEADLOCK FALSE
