\* Writing requests of two users on one post over two connections; peers may
\* reset connections and PostgreSQL has fewer connections than the load wants.
CONSTANTS
    Users = {u1, u2}
    MaxPosts = 1
    MaxPhotos = 1
    LikesForeignKey = TRUE
    Null = Null
    Conns = {c1, c2}
    MaxDb = 3
    Resets = TRUE
    ClientRequests <- WriteRequests
SYMMETRY ServerSymmetry
SPECIFICATION Spec
INVARIANTS TypeOK AnswerTellsEffect OnlyRefusalsKeepThread
PROPERTIES OnlyOwnPostsAndLikes
CHECK_DEADLOCK FALSE
