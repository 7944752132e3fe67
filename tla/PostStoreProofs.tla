-------------------------- MODULE PostStoreProofs --------------------------
(* Machine-checked proofs about PostStore, for every set of users, every   *)
(* bound on the sequences and both versions of the likes schema.           *)
EXTENDS PostStore, FiniteSetTheorems, TLAPS

(* A like refers to an existing post, or, without the foreign key, to a    *)
(* deleted one, whose id is never drawn again.                             *)
LikesHavePosts ==
    \A l \in likes : \/ l[1] \in DOMAIN posts
                     \/ ~LikesForeignKey /\ l[1] \in 1..postSeq

(* The inductive invariant: the four invariants need each other.  An exact *)
(* count needs LikesHavePosts, or a post could be created under an id that *)
(* already has likes; a photo of one's own needs the ids drawn from        *)
(* photoSeq to be fresh, which the typing of photos says.                  *)
StoreInv == StoreTypeOK /\ LikeCountExact /\ PostPhotosStored /\ LikesHavePosts

----------------------------------------------------------------------------
(* Likers is a finite set, so its cardinality is a number. *)
LEMMA LikersFinite ==
    \A p : IsFiniteSet(Likers(p)) /\ Cardinality(Likers(p)) \in Nat
<1> TAKE p
<1>1. Likers(p) \subseteq Users
    BY DEF Likers
<1>2. IsFiniteSet(Likers(p))
    BY <1>1, FS_Subset, StoreAssumption
<1> QED
    BY <1>2, FS_CardinalityType

(* A step that leaves the likes of a post alone leaves their number alone. *)
LEMMA SameLikers ==
    ASSUME NEW p, \A u \in Users : (<<p, u>> \in likes') <=> (<<p, u>> \in likes)
    PROVE  Likers(p)' = Likers(p)
    BY DEF Likers

(* The initial tables satisfy the invariant. *)
LEMMA StoreInvInit == StoreInit => StoreInv
<1> SUFFICES ASSUME StoreInit PROVE StoreInv
    OBVIOUS
<1>1. DOMAIN posts = {}
    BY DEF StoreInit
<1>2. StoreTypeOK
    BY <1>1, StoreAssumption DEF StoreInit, StoreTypeOK, PostRow
<1> QED
    BY <1>1, <1>2 DEF StoreInit, StoreInv, LikeCountExact, PostPhotosStored, LikesHavePosts

----------------------------------------------------------------------------
(* A committed addNewPost: a fresh id, a fresh photo, no likes yet. *)
LEMMA AddNewPostKeeps ==
    ASSUME StoreInv, NEW u \in Users, AddNewPost(u)
    PROVE  StoreInv'
<1>0. PICK n, f : n = postSeq + 1 /\ f = photoSeq + 1
    OBVIOUS
<1>1. /\ postSeq \in Nat /\ photoSeq \in Nat
      /\ n \in 1..MaxPosts /\ f \in 1..MaxPhotos
      /\ n \notin DOMAIN posts /\ f \notin photos
      /\ postSeq' = n /\ photoSeq' = f
      /\ n = postSeq + 1 /\ f = photoSeq + 1
    BY <1>0, StoreAssumption DEF StoreInv, StoreTypeOK, AddNewPost
<1>2. /\ DOMAIN posts' = DOMAIN posts \cup {n}
      /\ posts'[n] = [owner |-> u, photo |-> f, likeCount |-> Null]
      /\ \A p \in DOMAIN posts : posts'[p] = posts[p]
      /\ posts' = [p \in DOMAIN posts' |-> posts'[p]]
      /\ photos' = photos \cup {f}
      /\ likes' = likes
    BY <1>1 DEF AddNewPost
<1>3. StoreTypeOK'
  <2>1. DOMAIN posts' \subseteq 1..postSeq'
    BY <1>1, <1>2 DEF StoreInv, StoreTypeOK
  <2>2. \A p \in DOMAIN posts' : posts'[p] \in PostRow
    BY <1>1, <1>2 DEF StoreInv, StoreTypeOK, PostRow, PhotoIds
  <2>3. posts' \in [DOMAIN posts' -> PostRow]
    BY <2>2, <1>2
  <2>4. /\ photos' \subseteq 1..photoSeq'
        /\ likes' \subseteq (1..postSeq') \X Users
        /\ postSeq' \in 0..MaxPosts
        /\ photoSeq' \in 0..MaxPhotos
    BY <1>1, <1>2, StoreAssumption DEF StoreInv, StoreTypeOK
  <2> QED
    BY <2>1, <2>3, <2>4 DEF StoreTypeOK
<1>4. LikeCountExact'
  <2>1. \A p : Likers(p)' = Likers(p)
    BY <1>2, SameLikers
  <2>2. Likers(n) = {}
    BY <1>1 DEF StoreInv, StoreTypeOK, Likers
  <2>3. Coalesce(posts'[n].likeCount) = Cardinality(Likers(n)')
    BY <1>2, <2>1, <2>2, FS_EmptySet DEF Coalesce
  <2>4. \A p \in DOMAIN posts :
            Coalesce(posts'[p].likeCount) = Cardinality(Likers(p)')
    BY <1>2, <2>1 DEF StoreInv, LikeCountExact
  <2> QED
    BY <1>2, <2>3, <2>4 DEF LikeCountExact, Coalesce
<1>5. PostPhotosStored'
  <2>1. \A p \in DOMAIN posts : posts[p].photo # f
    BY <1>1 DEF StoreInv, PostPhotosStored
  <2> QED
    BY <1>2, <2>1 DEF StoreInv, PostPhotosStored
<1>6. LikesHavePosts'
    BY <1>1, <1>2 DEF StoreInv, LikesHavePosts
<1> QED
    BY <1>3, <1>4, <1>5, <1>6 DEF StoreInv

(* A rolled back addNewPost only loses ids of the sequences. *)
LEMMA AddNewPostAbortsKeeps ==
    ASSUME StoreInv, AddNewPostAborts
    PROVE  StoreInv'
<1>1. /\ postSeq \in Nat /\ photoSeq \in Nat
      /\ postSeq' \in Nat /\ postSeq <= postSeq' /\ postSeq' <= MaxPosts
      /\ photoSeq' = photoSeq + 1 /\ photoSeq' <= MaxPhotos
      /\ posts' = posts /\ photos' = photos /\ likes' = likes
    BY StoreAssumption DEF StoreInv, StoreTypeOK, AddNewPostAborts
<1>2. StoreTypeOK'
    BY <1>1, StoreAssumption DEF StoreInv, StoreTypeOK
<1>3. LikeCountExact'
    BY <1>1, SameLikers DEF StoreInv, LikeCountExact, Coalesce
<1>4. PostPhotosStored' /\ LikesHavePosts'
    BY <1>1 DEF StoreInv, PostPhotosStored, LikesHavePosts
<1> QED
    BY <1>2, <1>3, <1>4 DEF StoreInv

(* delPostById removes the likes of the post with the post. *)
LEMMA DelPostByIdKeeps ==
    ASSUME StoreInv, NEW u \in Users, NEW d \in ShownPosts, DelPostById(u, d)
    PROVE  StoreInv'
<1>1. /\ DOMAIN posts' = DOMAIN posts \ {d}
      /\ \A p \in DOMAIN posts' : posts'[p] = posts[p]
      /\ posts' = [p \in DOMAIN posts' |-> posts'[p]]
      /\ likes' = {l \in likes : l[1] # d}
      /\ photos' = photos /\ postSeq' = postSeq /\ photoSeq' = photoSeq
    BY DEF DelPostById
<1>2. StoreTypeOK'
  <2>1. posts' \in [DOMAIN posts' -> PostRow]
    BY <1>1 DEF StoreInv, StoreTypeOK
  <2> QED
    BY <1>1, <2>1 DEF StoreInv, StoreTypeOK
<1>3. LikeCountExact'
  <2>1. ASSUME NEW p \in DOMAIN posts'
        PROVE  Likers(p)' = Likers(p)
    <3>1. p # d
        BY <1>1
    <3>2. \A v \in Users : (<<p, v>> \in likes') <=> (<<p, v>> \in likes)
        BY <1>1, <3>1
    <3> QED
        BY <3>2, SameLikers
  <2> QED
    BY <1>1, <2>1 DEF StoreInv, LikeCountExact, Coalesce
<1>4. PostPhotosStored'
    BY <1>1 DEF StoreInv, PostPhotosStored
<1>5. LikesHavePosts'
    BY <1>1 DEF StoreInv, LikesHavePosts
<1> QED
    BY <1>2, <1>3, <1>4, <1>5 DEF StoreInv

(* What SetLikeCount does to the table posts. *)
LEMMA SetLikeCountFrame ==
    ASSUME StoreTypeOK, NEW p, NEW count, SetLikeCount(p, count),
           p \in DOMAIN posts => count \in Nat \cup {Null}
    PROVE  /\ DOMAIN posts' = DOMAIN posts
           /\ posts' \in [DOMAIN posts' -> PostRow]
           /\ \A q \in DOMAIN posts : /\ posts'[q].photo = posts[q].photo
                                      /\ q # p => posts'[q] = posts[q]
           /\ p \in DOMAIN posts => posts'[p].likeCount = count
<1>1. DOMAIN posts' = DOMAIN posts
    BY DEF SetLikeCount
<1>2. ASSUME NEW q \in DOMAIN posts
      PROVE  /\ posts'[q] \in PostRow
             /\ posts'[q].photo = posts[q].photo
             /\ q # p => posts'[q] = posts[q]
             /\ q = p => posts'[q].likeCount = count
  <2>1. posts[q] \in PostRow
    BY DEF StoreTypeOK
  <2> QED
    BY <2>1 DEF SetLikeCount, PostRow
<1>3. posts' = [q \in DOMAIN posts' |-> posts'[q]]
    BY DEF SetLikeCount
<1> QED
    BY <1>1, <1>2, <1>3

(* The first click on a post adds one like and one to its counter. *)
LEMMA LikeKeeps ==
    ASSUME StoreInv, NEW u \in Users, NEW d \in ShownPosts, Like(u, d)
    PROVE  StoreInv'
<1> DEFINE count == IF d \in DOMAIN posts THEN Coalesce(posts[d].likeCount) + 1 ELSE Null
<1>1. /\ SetLikeCount(d, count)
      /\ likes' = likes \cup {<<d, u>>}
      /\ <<d, u>> \notin likes
      /\ LikesForeignKey => d \in DOMAIN posts
      /\ photos' = photos /\ postSeq' = postSeq /\ photoSeq' = photoSeq
    BY DEF Like
<1>2. d \in DOMAIN posts => /\ Coalesce(posts[d].likeCount) = Cardinality(Likers(d))
                            /\ count = Cardinality(Likers(d)) + 1
                            /\ count \in Nat
    BY LikersFinite DEF StoreInv, LikeCountExact
<1>3. /\ DOMAIN posts' = DOMAIN posts
      /\ posts' \in [DOMAIN posts' -> PostRow]
      /\ \A q \in DOMAIN posts : /\ posts'[q].photo = posts[q].photo
                                 /\ q # d => posts'[q] = posts[q]
      /\ d \in DOMAIN posts => posts'[d].likeCount = count
  <2> HIDE DEF count
  <2> QED
    BY <1>1, <1>2, SetLikeCountFrame DEF StoreInv
<1>4. StoreTypeOK'
    BY <1>1, <1>3 DEF StoreInv, StoreTypeOK, ShownPosts
<1>5. LikeCountExact'
  <2>1. ASSUME NEW p \in DOMAIN posts, p # d
        PROVE  Coalesce(posts'[p].likeCount) = Cardinality(Likers(p)')
    <3>1. Likers(p)' = Likers(p)
        BY <1>1, <2>1 DEF Likers
    <3> QED
        BY <1>3, <2>1, <3>1 DEF StoreInv, LikeCountExact
  <2>2. ASSUME d \in DOMAIN posts
        PROVE  Coalesce(posts'[d].likeCount) = Cardinality(Likers(d)')
    <3>1. Likers(d)' = Likers(d) \cup {u} /\ u \notin Likers(d)
        BY <1>1 DEF Likers
    <3>2. Cardinality(Likers(d)') = Cardinality(Likers(d)) + 1
        BY <3>1, LikersFinite, FS_AddElement
    <3>3. Coalesce(posts'[d].likeCount) = count
        BY <1>2, <1>3, <2>2, StoreAssumption DEF Coalesce
    <3> QED
        BY <1>2, <2>2, <3>2, <3>3
  <2> QED
    BY <1>3, <2>1, <2>2 DEF LikeCountExact, Coalesce
<1>6. PostPhotosStored'
    BY <1>1, <1>3 DEF StoreInv, PostPhotosStored
<1>7. LikesHavePosts'
    BY <1>1, <1>3 DEF StoreInv, LikesHavePosts, ShownPosts
<1> QED
    BY <1>4, <1>5, <1>6, <1>7 DEF StoreInv

(* The second click takes the like and one from the counter back, and the  *)
(* counter was not zero.                                                   *)
LEMMA UnlikeKeeps ==
    ASSUME StoreInv, NEW u \in Users, NEW d \in ShownPosts, Unlike(u, d)
    PROVE  StoreInv'
<1> DEFINE count == IF d \in DOMAIN posts /\ posts[d].likeCount # Null
                    THEN posts[d].likeCount - 1 ELSE Null
<1>1. /\ SetLikeCount(d, count)
      /\ likes' = likes \ {<<d, u>>}
      /\ <<d, u>> \in likes
      /\ photos' = photos /\ postSeq' = postSeq /\ photoSeq' = photoSeq
    BY DEF Unlike
<1>2. /\ Likers(d)' = Likers(d) \ {u} /\ u \in Likers(d)
      /\ Cardinality(Likers(d)') = Cardinality(Likers(d)) - 1
      /\ Cardinality(Likers(d)') \in Nat
  <2>1. Likers(d)' = Likers(d) \ {u} /\ u \in Likers(d)
    BY <1>1 DEF Likers
  <2>2. Cardinality(Likers(d)') = Cardinality(Likers(d)) - 1
    BY <2>1, LikersFinite, FS_RemoveElement
  <2>3. IsFiniteSet(Likers(d)')
    BY <2>1, LikersFinite, FS_RemoveElement
  <2> QED
    BY <2>1, <2>2, <2>3, FS_CardinalityType
<1>3. d \in DOMAIN posts => count = Cardinality(Likers(d)') /\ count \in Nat
  <2> SUFFICES ASSUME d \in DOMAIN posts
               PROVE  count = Cardinality(Likers(d)')
    BY <1>2
  <2>1. Coalesce(posts[d].likeCount) = Cardinality(Likers(d))
    BY DEF StoreInv, LikeCountExact
  <2>2. posts[d].likeCount # Null
    BY <1>2, <2>1, LikersFinite DEF Coalesce
  <2> QED
    BY <1>2, <2>1, <2>2 DEF Coalesce
<1>4. /\ DOMAIN posts' = DOMAIN posts
      /\ posts' \in [DOMAIN posts' -> PostRow]
      /\ \A q \in DOMAIN posts : /\ posts'[q].photo = posts[q].photo
                                 /\ q # d => posts'[q] = posts[q]
      /\ d \in DOMAIN posts => posts'[d].likeCount = count
  <2> HIDE DEF count
  <2> QED
    BY <1>1, <1>3, SetLikeCountFrame DEF StoreInv
<1>5. StoreTypeOK'
    BY <1>1, <1>4 DEF StoreInv, StoreTypeOK
<1>6. LikeCountExact'
  <2>1. ASSUME NEW p \in DOMAIN posts, p # d
        PROVE  Coalesce(posts'[p].likeCount) = Cardinality(Likers(p)')
    <3>1. Likers(p)' = Likers(p)
        BY <1>1, <2>1 DEF Likers
    <3> QED
        BY <1>4, <2>1, <3>1 DEF StoreInv, LikeCountExact
  <2>2. ASSUME d \in DOMAIN posts
        PROVE  Coalesce(posts'[d].likeCount) = Cardinality(Likers(d)')
    <3> HIDE DEF count
    <3> QED
        BY <1>3, <1>4, <2>2, StoreAssumption DEF Coalesce
  <2> QED
    BY <1>4, <2>1, <2>2 DEF LikeCountExact, Coalesce
<1>7. PostPhotosStored'
    BY <1>1, <1>4 DEF StoreInv, PostPhotosStored
<1>8. LikesHavePosts'
    BY <1>1, <1>4 DEF StoreInv, LikesHavePosts
<1> QED
    BY <1>5, <1>6, <1>7, <1>8 DEF StoreInv

(* Every transaction of DBclient preserves the invariant. *)
LEMMA StoreInvNext == StoreInv /\ [StoreNext]_storeVars => StoreInv'
<1> SUFFICES ASSUME StoreInv, [StoreNext]_storeVars PROVE StoreInv'
    OBVIOUS
<1>1. ASSUME NEW u \in Users, AddNewPost(u) PROVE StoreInv'
    BY <1>1, AddNewPostKeeps
<1>2. CASE AddNewPostAborts
    BY <1>2, AddNewPostAbortsKeeps
<1>3. ASSUME NEW u \in Users, NEW p \in ShownPosts, DelPostById(u, p) PROVE StoreInv'
    BY <1>3, DelPostByIdKeeps
<1>4. ASSUME NEW u \in Users, NEW p \in ShownPosts, LikeClicked(u, p) PROVE StoreInv'
    BY <1>4, LikeKeeps, UnlikeKeeps DEF LikeClicked
<1>5. CASE UNCHANGED storeVars
    BY <1>5 DEF storeVars, StoreInv, StoreTypeOK, LikeCountExact, PostPhotosStored,
                LikesHavePosts, Likers, Coalesce
<1> QED
    BY <1>1, <1>2, <1>3, <1>4, <1>5 DEF StoreNext

(* In every execution of DBclient's transactions the tables keep their     *)
(* types and the invariant holds.                                          *)
THEOREM StoreInvariant == StoreSpec => []StoreInv
    BY StoreInvInit, StoreInvNext, PTL DEF StoreSpec

(* Type correctness of the tables. *)
THEOREM StoreTypeCorrect == StoreSpec => []StoreTypeOK
<1>1. StoreInv => StoreTypeOK
    BY DEF StoreInv
<1> QED
    BY <1>1, StoreInvariant, PTL

(* likeClicked, delPostById and addNewPost together keep posts.like_count  *)
(* equal to the number of likes of the post.                               *)
THEOREM LikeCountAlwaysExact == StoreSpec => []LikeCountExact
<1>1. StoreInv => LikeCountExact
    BY DEF StoreInv
<1> QED
    BY <1>1, StoreInvariant, PTL

(* The photo of an existing post is always stored and is its own. *)
THEOREM PostPhotosAlwaysStored == StoreSpec => []PostPhotosStored
<1>1. StoreInv => PostPhotosStored
    BY DEF StoreInv
<1> QED
    BY <1>1, StoreInvariant, PTL

=============================================================================
