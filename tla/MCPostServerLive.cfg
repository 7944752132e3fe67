\* All requests that write nothing, over two connections that may be reset.
CONSTANTS
    Users = {u1}
    MaxPosts = 1
    MaxPhotos = 1
    LikesForeignKey = TRUE
    Null = Null
    Conns = {c1, c2}
    MaxDb = 3
    Resets = TRUE
    ClientRequests <- OtherRequests
SPECIFICATION FairSpec
PROPERTIES RequestSettled GrantedThreadEnds
CHECK_DEADLOCK FALSE
