------------------------------ MODULE Buttons ------------------------------
(***************************************************************************)
(* The buttons of the client that show a row of the database and turn it   *)
(* over: the like of a post (Post.jsx), the friend buttons of a search     *)
(* result (FindFriendItem.jsx) and of a profile (Profile.jsx).  A handler  *)
(* awaits the server and only then changes the state that is shown, out of *)
(* what it knew when it was clicked; nothing keeps a second click waiting. *)
(*                                                                         *)
(* The three differ where it matters.  A like turns the row over and shows *)
(* the opposite of what it was clicked on; FindFriendItem asks for a value *)
(* and turns over what is shown; Profile asks for a value and shows it.    *)
(* One component is followed, from the answer that listed it on; likes are *)
(* made over the tables of PostStore, which everybody else goes on using.  *)
(***************************************************************************)
EXTENDS PostStore

CONSTANTS Me,         \* the user of the tab
          Clicks,     \* slots for the clicks under way at one time
          MaxRows     \* bound on the equal rows of friends

ASSUME ButtonsAssumption == /\ Me \in Users
                            /\ MaxRows \in Nat \ {0}

VARIABLES button,     \* the component: "like", "item" or "profile"
          item,       \* the post whose like it is; 0 before it is listed
          friends,    \* number of rows <<Me, the other user>> in table friends
          on,         \* isLiked, isFriend, or status = 'friend'
          likesCount, \* the number beside a like
          click,      \* the clicks under way
          others,     \* history: likes of others in the answer that listed the post
          upset       \* history: what happened that may leave the button wrong

buttonVars == <<button, item, friends, on, likesCount, click, others, upset>>
vars == <<storeVars, buttonVars>>

Kinds       == {"like", "item", "profile"}
ClickRecord == [st : {"idle", "asked", "ok", "error"}, want : BOOLEAN, count : Nat]
NoClick     == [st |-> "idle", want |-> FALSE, count |-> 0]
Upsets      == {"overlap", "crossed", "doubt"}

UnderWay == {k \in Clicks : click[k].st # "idle"}

(* The row the button stands for. *)
Row == IF button = "like" THEN <<item, Me>> \in likes ELSE friends > 0

Init == /\ StoreInit
        /\ button \in Kinds
        /\ item = 0
        /\ friends \in IF button = "like" THEN {0} ELSE {0, 1}
        /\ on = (friends > 0)
        /\ likesCount = 0 /\ others = 0
        /\ click = [k \in Clicks |-> NoClick]
        /\ upset = {}

Mounted == button # "like" \/ item # 0

----------------------------------------------------------------------------
(* Mutant: Post takes the counter without Number(), NULL shows as a like. *)
MountNull(p) ==
    /\ button = "like" /\ item = 0 /\ p \in DOMAIN posts
    /\ item' = p
    /\ on' = (<<p, Me>> \in likes)
    /\ likesCount' = IF posts[p].likeCount = Null THEN 1 ELSE posts[p].likeCount
    /\ others' = Cardinality(Likers(p) \ {Me})
    /\ UNCHANGED <<storeVars, button, friends, click, upset>>

(* A list answer shows a post; Number("") is 0 for a counter that is NULL. *)
Mount(p) ==
    /\ button = "like" /\ item = 0 /\ p \in DOMAIN posts
    /\ item' = p
    /\ on' = (<<p, Me>> \in likes)
    /\ likesCount' = Coalesce(posts[p].likeCount)
    /\ others' = Cardinality(Likers(p) \ {Me})
    /\ UNCHANGED <<storeVars, button, friends, click, upset>>

(* A click while others are under way, or one that is after the contrary.  *)
Disturbs(want) == (IF UnderWay = {} THEN {} ELSE {"overlap"})
                    \cup {u \in {"crossed"} : \E k \in UnderWay : click[k].want # want}

(* handleLike, changePersonStatus, addFriend or delFriend up to the await. *)
Press(k) ==
    /\ Mounted /\ click[k].st = "idle"
    /\ click' = [click EXCEPT ![k] = [st |-> "asked", want |-> ~on, count |-> likesCount]]
    /\ upset' = upset \cup Disturbs(~on)
    /\ UNCHANGED <<storeVars, button, item, friends, on, likesCount, others>>

(* Mutant: likeClicked inserts whatever it finds. *)
ApplyNeverUnlikes(want) ==
    \/ button = "like" /\ (Like(Me, item) \/ (<<item, Me>> \in likes /\ UNCHANGED storeVars))
         /\ UNCHANGED friends
    \/ /\ button # "like" /\ want /\ friends < MaxRows
       /\ friends' = friends + 1 /\ UNCHANGED storeVars
    \/ /\ button # "like" /\ ~want
       /\ friends' = 0 /\ UNCHANGED storeVars

(* likeClicked turns the like over; makeFriend inserts a row, a second one *)
(* too if no key refuses it; deleteFriend removes them and is content with *)
(* none.                                                                   *)
Apply(want) ==
    \/ button = "like" /\ LikeClicked(Me, item) /\ UNCHANGED friends
    \/ /\ button # "like" /\ want /\ friends < MaxRows
       /\ friends' = friends + 1 /\ UNCHANGED storeVars
    \/ /\ button # "like" /\ ~want
       /\ friends' = 0 /\ UNCHANGED storeVars

(* The server has committed; its answer may be an error or get lost.       *)
Perform(k) ==
    /\ click[k].st = "asked" /\ Apply(click[k].want)
    /\ \/ click' = [click EXCEPT ![k].st = "ok"] /\ UNCHANGED upset
       \/ click' = [click EXCEPT ![k].st = "error"] /\ upset' = upset \cup {"doubt"}
    /\ UNCHANGED <<button, item, on, likesCount, others>>

(* It has refused, or failed and rolled back, or was never reached. *)
Refuse(k) ==
    /\ click[k].st = "asked"
    /\ click' = [click EXCEPT ![k].st = "error"]
    /\ UNCHANGED <<storeVars, button, item, friends, on, likesCount, others, upset>>

(* Mutants: the counter is counted on from what is shown by then; the      *)
(* profile turns its button over, as FindFriendItem does.                  *)
AnswerCountsOn(k) ==
    /\ click[k].st = "ok"
    /\ on' = IF button = "item" THEN ~on ELSE click[k].want
    /\ likesCount' = IF button # "like" THEN likesCount
                     ELSE IF click[k].want THEN likesCount + 1 ELSE likesCount - 1
    /\ click' = [click EXCEPT ![k] = NoClick]
    /\ UNCHANGED <<storeVars, button, item, friends, others, upset>>

AnswerTurnsOver(k) ==
    /\ click[k].st = "ok"
    /\ on' = IF button = "like" THEN click[k].want ELSE ~on
    /\ likesCount' = IF button # "like" THEN likesCount
                     ELSE IF click[k].want THEN click[k].count + 1 ELSE click[k].count - 1
    /\ click' = [click EXCEPT ![k] = NoClick]
    /\ UNCHANGED <<storeVars, button, item, friends, others, upset>>

(* The handler goes on after its await, with isLiked and likesCount of the *)
(* render that was clicked, or with what the functional update finds.      *)
Answer(k) ==
    /\ click[k].st = "ok"
    /\ on' = IF button = "item" THEN ~on ELSE click[k].want
    /\ likesCount' = IF button # "like" THEN likesCount
                     ELSE IF click[k].want THEN click[k].count + 1 ELSE click[k].count - 1
    /\ click' = [click EXCEPT ![k] = NoClick]
    /\ UNCHANGED <<storeVars, button, item, friends, others, upset>>

(* The await throws and nobody catches: nothing is changed. *)
Fail(k) ==
    /\ click[k].st = "error"
    /\ click' = [click EXCEPT ![k] = NoClick]
    /\ UNCHANGED <<storeVars, button, item, friends, on, likesCount, others, upset>>

----------------------------------------------------------------------------
(* The other users of PostServer; the same user in another tab, who may    *)
(* turn the row over behind this one's back.                               *)
OthersAct ==
    /\ button = "like"
    /\ \/ AddNewPostAborts
       \/ \E u \in Users : AddNewPost(u) \/ \E p \in ShownPosts : DelPostById(u, p)
       \/ \E u \in Users \ {Me}, p \in ShownPosts : LikeClicked(u, p)
    /\ UNCHANGED buttonVars

Elsewhere ==
    /\ \/ \E p \in ShownPosts : button = "like" /\ LikeClicked(Me, p) /\ UNCHANGED friends
       \/ button # "like" /\ friends' = (IF friends = 0 THEN 1 ELSE 0) /\ UNCHANGED storeVars
    /\ UNCHANGED <<button, item, on, likesCount, click, others>>
    /\ upset' = IF Row' = Row THEN upset ELSE upset \cup {"doubt"}

Next == \/ \E p \in PostIds : Mount(p)
        \/ \E k \in Clicks : Press(k) \/ Perform(k) \/ Refuse(k) \/ Answer(k) \/ Fail(k)
        \/ OthersAct \/ Elsewhere

Spec == Init /\ [][Next]_vars

----------------------------------------------------------------------------
ButtonTypeOK ==
    /\ button \in Kinds
    /\ item \in 0..MaxPosts
    /\ friends \in 0..MaxRows
    /\ on \in BOOLEAN
    /\ likesCount \in Nat /\ others \in Nat
    /\ click \in [Clicks -> ClickRecord]
    /\ upset \subseteq Upsets

(* What a component can stand: a profile's button any clicks that are      *)
(* after the same, the two others no click while one is under way.         *)
Undisturbed == upset \cap {"doubt", IF button = "profile" THEN "crossed" ELSE "overlap"} = {}

(* Once nothing is under way the button shows the row of the database,     *)
(* whatever was refused and whoever else acted: unless the row was changed *)
(* behind the tab's back, or the clicks were more than the component       *)
(* stands.  The likes of a post go with it.                                *)
ButtonTrue ==
    /\ Mounted /\ UnderWay = {} /\ Undisturbed
    /\ button = "like" => item \in DOMAIN posts
    => on = Row

(* The number beside a like and its colour always tell the same story: the *)
(* likes of the others as they were listed, and one's own if it is shown.  *)
(* Double clicks, late answers and failures do not make them drift apart.  *)
TallyKept ==
    button = "like" /\ item # 0 => likesCount = others + (IF on THEN 1 ELSE 0)

(* As long as nobody else changes the likes, the number that is shown is   *)
(* the counter of the post in the database.                                *)
CountTrue ==
    /\ button = "like" /\ item \in DOMAIN posts /\ UnderWay = {} /\ Undisturbed
    /\ Cardinality(Likers(item) \ {Me}) = others
    => likesCount = Coalesce(posts[item].likeCount)

=============================================================================
