\* One tab and two other users, two clicks at a time, two posts, no keys.
CONSTANTS
    u1 = u1
    Users = {u1, u2, u3}
    Me = u1
    MaxPosts = 2
    MaxPhotos = 2
    LikesForeignKey = FALSE
    Null = Null
    Clicks = {k1, k2}
    MaxRows = 2
SYMMETRY ButtonSymmetry
SPECIFICATION Spec
INVARIANTS StoreTypeOK LikeCountExact PostPhotosStored ButtonTypeOK ButtonTrue TallyKept CountTrue
CHECK_DEADLOCK FALSE
