----------------------------- MODULE PostStore -----------------------------
(***************************************************************************)
(* The tables of the MessengerPhotogram database that PostServer writes:   *)
(* posts, post_photos and likes, and the transactions of PostServer's      *)
(* DBclient that change them.                                              *)
(*                                                                         *)
(* PostServer runs every transaction synchronously on its one io_context   *)
(* thread, so two of them never overlap and each is one step here.  The    *)
(* schema itself is not in the repository: only what the SQL statements of *)
(* DBclient.cpp need of it is assumed.  Whether likes.post_id is declared  *)
(* as a foreign key is not known, so it is a parameter.                    *)
(***************************************************************************)
EXTENDS Naturals, FiniteSets

CONSTANTS Users,           \* ids of the users whose tokens PhotogramServer accepts
          MaxPosts,        \* bound on the ids drawn from the sequence of posts.id
          MaxPhotos,       \* bound on the ids drawn from the sequence of post_photos.id
          LikesForeignKey, \* TRUE iff likes.post_id REFERENCES posts(id)
          Null             \* the SQL value NULL

ASSUME StoreAssumption == /\ IsFiniteSet(Users)
                          /\ MaxPosts \in Nat
                          /\ MaxPhotos \in Nat
                          /\ LikesForeignKey \in BOOLEAN
                          /\ Null \notin Nat

VARIABLES posts,    \* table posts: id -> owner (user_id), photo (photo_id), likeCount
          photos,   \* table post_photos: the ids of its rows
          likes,    \* table likes: its rows <<post_id, user_id>>
          postSeq,  \* last value drawn for posts.id
          photoSeq  \* last value drawn for post_photos.id

storeVars == <<posts, photos, likes, postSeq, photoSeq>>

PostIds  == 1..MaxPosts
PhotoIds == 1..MaxPhotos
PostRow  == [owner : Users, photo : PhotoIds, likeCount : Nat \cup {Null}]

Coalesce(count) == IF count = Null THEN 0 ELSE count

Likers(p) == {u \in Users : <<p, u>> \in likes}

StoreInit == /\ posts = [p \in {} |-> Null]
             /\ photos = {}
             /\ likes = {}
             /\ postSeq = 0
             /\ photoSeq = 0

----------------------------------------------------------------------------
(* Mutant: the post names the photo inserted before its own. *)
AddNewPostStalePhoto(u) ==
    /\ postSeq < MaxPosts /\ photoSeq < MaxPhotos
    /\ postSeq' = postSeq + 1
    /\ photoSeq' = photoSeq + 1
    /\ photos' = photos \cup {photoSeq'}
    /\ posts' = [p \in DOMAIN posts \cup {postSeq'} |->
                    IF p = postSeq'
                    THEN [owner |-> u, photo |-> photoSeq, likeCount |-> Null]
                    ELSE posts[p]]
    /\ UNCHANGED likes

(* addNewPost commits: the photo row, then the post row that names it.     *)
(* like_count is left out of the INSERT and starts as NULL.                *)
AddNewPost(u) ==
    /\ postSeq < MaxPosts
    /\ photoSeq < MaxPhotos
    /\ postSeq' = postSeq + 1
    /\ photoSeq' = photoSeq + 1
    /\ photos' = photos \cup {photoSeq'}
    /\ posts' = [p \in DOMAIN posts \cup {postSeq'} |->
                    IF p = postSeq'
                    THEN [owner |-> u, photo |-> photoSeq', likeCount |-> Null]
                    ELSE posts[p]]
    /\ UNCHANGED likes

(* addNewPost fails before its commit and is rolled back.  Sequences are   *)
(* not transactional: the ids drawn by then are lost, the photo's first.   *)
(* Once the photo was inserted the handler calls delPostPhotoById, whose   *)
(* statement ("DELETE FROM post_photosWHERE id = $1", run under another    *)
(* name) always throws, so the compensation changes nothing.               *)
AddNewPostAborts ==
    /\ photoSeq < MaxPhotos
    /\ photoSeq' = photoSeq + 1
    /\ postSeq' \in {postSeq, postSeq + 1} \cap (0..MaxPosts)
    /\ UNCHANGED <<posts, photos, likes>>

(* Mutant: anybody may delete a post. *)
MayDeleteAny(u, p) == p \in DOMAIN posts

(* delPostById commits only for the owner: it removes the likes of the     *)
(* post and the post, and leaves its row of post_photos behind.            *)
MayDelete(u, p) == p \in DOMAIN posts /\ posts[p].owner = u

DelPostById(u, p) ==
    /\ MayDelete(u, p)
    /\ likes' = {l \in likes : l[1] # p}
    /\ posts' = [q \in DOMAIN posts \ {p} |-> posts[q]]
    /\ UNCHANGED <<photos, postSeq, photoSeq>>

(* An UPDATE of like_count touches no row when the post is gone.           *)
SetLikeCount(p, count) ==
    posts' = [q \in DOMAIN posts |->
                 IF q = p THEN [posts[q] EXCEPT !.likeCount = count] ELSE posts[q]]

(* Mutants: NULL + 1 is NULL; the columns of the INSERT swapped. *)
LikeUncoalesced(u, p) ==
    /\ <<p, u>> \notin likes
    /\ LikesForeignKey => p \in DOMAIN posts
    /\ likes' = likes \cup {<<p, u>>}
    /\ SetLikeCount(p, IF p \in DOMAIN posts /\ posts[p].likeCount # Null
                       THEN posts[p].likeCount + 1 ELSE Null)
    /\ UNCHANGED <<photos, postSeq, photoSeq>>

LikeSwapped(u, p) ==
    /\ <<p, u>> \notin likes
    /\ LikesForeignKey => p \in DOMAIN posts
    /\ likes' = likes \cup {<<u, p>>}
    /\ SetLikeCount(p, IF p \in DOMAIN posts THEN Coalesce(posts[p].likeCount) + 1 ELSE Null)
    /\ UNCHANGED <<photos, postSeq, photoSeq>>

(* likeClicked, first branch: the like did not exist.  With the foreign    *)
(* key the INSERT fails for a post that was deleted meanwhile.             *)
Like(u, p) ==
    /\ <<p, u>> \notin likes
    /\ LikesForeignKey => p \in DOMAIN posts
    /\ likes' = likes \cup {<<p, u>>}
    /\ SetLikeCount(p, IF p \in DOMAIN posts THEN Coalesce(posts[p].likeCount) + 1 ELSE Null)
    /\ UNCHANGED <<photos, postSeq, photoSeq>>

(* likeClicked, second branch: the like existed; NULL - 1 is NULL.         *)
Unlike(u, p) ==
    /\ <<p, u>> \in likes
    /\ likes' = likes \ {<<p, u>>}
    /\ SetLikeCount(p, IF p \in DOMAIN posts /\ posts[p].likeCount # Null
                       THEN posts[p].likeCount - 1 ELSE Null)
    /\ UNCHANGED <<photos, postSeq, photoSeq>>

LikeClicked(u, p) == Like(u, p) \/ Unlike(u, p)

(* A client names only posts it was shown: ids drawn from the sequence,    *)
(* the post deleted since or not.                                          *)
ShownPosts == 1..postSeq

StoreNext ==
    \/ \E u \in Users : AddNewPost(u)
    \/ AddNewPostAborts
    \/ \E u \in Users, p \in ShownPosts : DelPostById(u, p) \/ LikeClicked(u, p)

StoreSpec == StoreInit /\ [][StoreNext]_storeVars

----------------------------------------------------------------------------
StoreTypeOK ==
    /\ DOMAIN posts \subseteq 1..postSeq
    /\ posts \in [DOMAIN posts -> PostRow]
    /\ photos \subseteq 1..photoSeq
    /\ likes \subseteq (1..postSeq) \X Users
    /\ postSeq \in 0..MaxPosts
    /\ photoSeq \in 0..MaxPhotos

(* The counter that likeClicked maintains beside the likes table always    *)
(* equals the number of likes of the post, NULL standing for zero, however *)
(* likes, second clicks, deletions and new posts are mixed.                *)
LikeCountExact ==
    \A p \in DOMAIN posts : Coalesce(posts[p].likeCount) = Cardinality(Likers(p))

(* The photo of every post in a feed can be fetched, and no two posts ever *)
(* share a photo row, though failed posts burn ids of both sequences and   *)
(* deleted posts leave their photo behind.                                 *)
PostPhotosStored ==
    /\ \A p \in DOMAIN posts : posts[p].photo \in photos
    /\ \A p, q \in DOMAIN posts : posts[p].photo = posts[q].photo => p = q

=============================================================================
