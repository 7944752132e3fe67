--------------------------- MODULE ButtonsProofs ---------------------------
(* Proofs that the buttons show the row they stand for, and that the       *)
(* number beside a like goes with it, for any number of clicks.            *)
EXTENDS Buttons, PostStoreProofs

(* The inductive invariant.  The clicks under way are after the same and,  *)
(* but for a profile's, there is one at most; one that was performed has   *)
(* its answer still to come if the button does not show the row; and every *)
(* click remembers a number that agrees with what it saw.                  *)
Placed == /\ item \in 0..postSeq
          /\ ~Mounted => UnderWay = {}

CountBefore(want) == others + (IF want THEN 0 ELSE 1)

Tallied == button = "like" /\ item # 0 =>
              /\ likesCount = others + (IF on THEN 1 ELSE 0)
              /\ \A k \in UnderWay : click[k].count = CountBefore(click[k].want)

Agreed == Undisturbed =>
             \A j, k \in UnderWay :
                /\ click[j].want <=> click[k].want
                /\ button # "profile" => j = k /\ (click[k].want <=> ~on)

Alive == Mounted /\ (button = "like" => item \in DOMAIN posts)

ShownOrComing == Undisturbed /\ Alive =>
                    /\ \A k \in Clicks : click[k].st = "ok" => (click[k].want <=> Row)
                    /\ (Row <=> on) \/ \E k \in Clicks : click[k].st = "ok"

ButtonInv == StoreInv /\ ButtonTypeOK /\ Placed /\ Tallied /\ Agreed /\ ShownOrComing

----------------------------------------------------------------------------
(* The steps of the buttons are steps of the tables.                       *)
LEMMA ButtonStepsAreStoreSteps ==
    ASSUME ButtonTypeOK, StoreTypeOK, Placed, [Next]_vars
    PROVE  [StoreNext]_storeVars
<1>1. Me \in Users
    BY ButtonsAssumption
<1>2. CASE UNCHANGED vars
    BY <1>2 DEF vars
<1>3. ASSUME NEW p \in PostIds, Mount(p) PROVE UNCHANGED storeVars
    BY <1>3 DEF Mount
<1>4. ASSUME NEW k \in Clicks, Press(k) \/ Refuse(k) \/ Answer(k) \/ Fail(k)
      PROVE  UNCHANGED storeVars
    BY <1>4 DEF Press, Refuse, Answer, Fail
<1>5. ASSUME NEW k \in Clicks, Perform(k) PROVE [StoreNext]_storeVars
  <2>1. k \in UnderWay
      BY <1>5 DEF Perform, UnderWay
  <2>2. button = "like" => item \in ShownPosts
      BY <2>1 DEF Placed, Mounted, ShownPosts, StoreTypeOK
  <2>3. (button = "like" /\ LikeClicked(Me, item)) \/ UNCHANGED storeVars
      BY <1>5 DEF Perform, Apply
  <2> QED
      BY <2>2, <2>3, <1>1 DEF StoreNext
<1>6. CASE OthersAct
    BY <1>6 DEF OthersAct, StoreNext
<1>7. CASE Elsewhere
    BY <1>7, <1>1 DEF Elsewhere, StoreNext
<1> QED
    BY <1>2, <1>3, <1>4, <1>5, <1>6, <1>7 DEF Next

(* Before the first click the button shows what the answer said.          *)
LEMMA ButtonInitial == Init => ButtonInv
<1> SUFFICES ASSUME Init PROVE ButtonInv
    OBVIOUS
<1>1. StoreInv
    BY StoreInvInit DEF Init
<1>2. UnderWay = {} /\ \A k \in Clicks : click[k] = NoClick
    BY DEF Init, UnderWay, NoClick
<1>3. friends \in {0, 1} /\ MaxRows \in Nat \ {0} /\ MaxPosts \in Nat
    BY ButtonsAssumption, StoreAssumption DEF Init
<1>4. ButtonTypeOK
  <2>1. NoClick \in ClickRecord
      BY DEF NoClick, ClickRecord
  <2>2. on \in BOOLEAN /\ likesCount \in Nat /\ others \in Nat /\ upset \subseteq Upsets
      BY DEF Init
  <2>3. button \in Kinds /\ item \in 0..MaxPosts /\ friends \in 0..MaxRows
      BY <1>3 DEF Init
  <2> QED
      BY <2>1, <2>2, <2>3 DEF Init, ButtonTypeOK
<1>5. Placed
    BY <1>2, <1>1 DEF Init, Placed, StoreInit
<1>6. Tallied /\ Agreed
    BY <1>2 DEF Init, Tallied, Agreed
<1>7. ShownOrComing
  <2>1. Mounted => (Row <=> on)
      BY DEF Init, Mounted, Row
  <2> QED
      BY <2>1, <1>2 DEF ShownOrComing, Alive, NoClick
<1> QED
    BY <1>1, <1>4, <1>5, <1>6, <1>7 DEF ButtonInv

----------------------------------------------------------------------------
(* What changes the tables without turning the row over leaves the buttons *)
(* as they were.                                                           *)
LEMMA Fresh ==
    ASSUME StoreTypeOK, Placed, [StoreNext]_storeVars
    PROVE  /\ item \in 0..postSeq'
           /\ item \in DOMAIN posts' => item \in DOMAIN posts
<1>1. postSeq \in Nat /\ item \in 0..postSeq
    BY DEF StoreTypeOK, Placed
<1>2. ASSUME NEW u \in Users, AddNewPost(u) PROVE item \in 0..postSeq' /\ (item \in DOMAIN posts' => item \in DOMAIN posts)
  <2>1. postSeq' = postSeq + 1 /\ DOMAIN posts' = DOMAIN posts \cup {postSeq'}
      BY <1>2 DEF AddNewPost
  <2> QED
      BY <1>1, <2>1
<1>3. CASE AddNewPostAborts
  <2>1. posts' = posts /\ postSeq' \in {postSeq, postSeq + 1}
      BY <1>3 DEF AddNewPostAborts
  <2> QED
      BY <1>1, <2>1
<1>4. ASSUME NEW u \in Users, NEW p \in ShownPosts, DelPostById(u, p)
      PROVE  item \in 0..postSeq' /\ (item \in DOMAIN posts' => item \in DOMAIN posts)
    BY <1>1, <1>4 DEF DelPostById
<1>5. ASSUME NEW u \in Users, NEW p \in ShownPosts, LikeClicked(u, p)
      PROVE  item \in 0..postSeq' /\ (item \in DOMAIN posts' => item \in DOMAIN posts)
  <2>1. postSeq' = postSeq /\ DOMAIN posts' = DOMAIN posts
      BY <1>5 DEF LikeClicked, Like, Unlike, SetLikeCount
  <2> QED
      BY <1>1, <2>1
<1>6. CASE UNCHANGED storeVars
    BY <1>1, <1>6 DEF storeVars
<1> QED
    BY <1>2, <1>3, <1>4, <1>5, <1>6 DEF StoreNext

(* Where only the tables or the row change, and undisturbed the row stays. *)
LEMMA ButtonFrame ==
    ASSUME ButtonInv, [StoreNext]_storeVars,
           UNCHANGED <<button, item, on, likesCount, click, others>>,
           friends' \in 0..MaxRows, upset' \subseteq Upsets, upset \subseteq upset',
           Undisturbed' /\ Alive' => (Row' <=> Row)
    PROVE  ButtonInv'
<1>1. StoreInv'
    BY StoreInvNext DEF ButtonInv
<1>2. ButtonTypeOK'
    BY DEF ButtonInv, ButtonTypeOK
<1>3. item \in 0..postSeq' /\ (item \in DOMAIN posts' => item \in DOMAIN posts)
    BY Fresh DEF ButtonInv, StoreInv
<1>4. UnderWay' = UnderWay /\ Mounted' = Mounted /\ (Undisturbed' => Undisturbed)
    BY DEF UnderWay, Mounted, Undisturbed
<1>5. Placed'
    BY <1>3, <1>4 DEF ButtonInv, Placed
<1>6. Tallied'
    BY <1>4 DEF ButtonInv, Tallied, CountBefore
<1>7. Agreed'
    BY <1>4 DEF ButtonInv, Agreed
<1>8. Alive' => Alive
    BY <1>3, <1>4 DEF Alive
<1>9. ShownOrComing'
    BY <1>4, <1>8 DEF ButtonInv, ShownOrComing
<1> QED
    BY <1>1, <1>2, <1>5, <1>6, <1>7, <1>9 DEF ButtonInv

(* The number that is shown first is the likes of the others and one's own.*)
LEMMA MountKeeps ==
    ASSUME ButtonInv, NEW p \in PostIds, Mount(p)
    PROVE  ButtonInv'
<1>1. /\ button = "like" /\ item = 0 /\ p \in DOMAIN posts /\ item' = p
      /\ on' = (<<p, Me>> \in likes)
      /\ likesCount' = Coalesce(posts[p].likeCount)
      /\ others' = Cardinality(Likers(p) \ {Me})
      /\ UNCHANGED <<storeVars, button, friends, click, upset>>
    BY DEF Mount
<1>2. StoreInv'
    BY <1>1, StoreInvNext DEF ButtonInv
<1>3. likesCount' = Cardinality(Likers(p))
    BY <1>1 DEF ButtonInv, StoreInv, LikeCountExact
<1>4. IsFiniteSet(Likers(p)) /\ Cardinality(Likers(p)) \in Nat
    BY LikersFinite
<1>5. /\ others' \in Nat
      /\ likesCount' = others' + (IF on' THEN 1 ELSE 0)
  <2>1. Me \in Likers(p) <=> on'
      BY <1>1, ButtonsAssumption DEF Likers
  <2>2. Cardinality(Likers(p) \ {Me})
          = IF Me \in Likers(p) THEN Cardinality(Likers(p)) - 1 ELSE Cardinality(Likers(p))
      BY <1>4, FS_RemoveElement
  <2>3. IsFiniteSet(Likers(p) \ {Me})
      BY <1>4, FS_Subset
  <2>4. others' \in Nat
      BY <1>1, <2>3, FS_CardinalityType
  <2> QED
      BY <1>1, <1>3, <1>4, <2>1, <2>2, <2>4
<1>o. on' \in BOOLEAN /\ (on' <=> <<p, Me>> \in likes)
  <2> DEFINE liked == <<p, Me>> \in likes
  <2>1. on' = liked
      BY <1>1
  <2>2. liked \in BOOLEAN
      OBVIOUS
  <2> HIDE DEF liked
  <2>3. on' \in BOOLEAN /\ (on' <=> liked)
      BY <2>1, <2>2
  <2> QED
      BY <2>3 DEF liked
<1>6. p \in 1..postSeq /\ postSeq \in 0..MaxPosts /\ MaxPosts \in Nat
    BY <1>1, StoreAssumption DEF ButtonInv, StoreInv, StoreTypeOK
<1>7. UnderWay = {} /\ UnderWay' = {} /\ Mounted'
    BY <1>1, <1>6 DEF ButtonInv, Placed, Mounted, UnderWay
<1>8. ButtonTypeOK'
  <2>1. likesCount' \in Nat
      BY <1>3, <1>4
  <2>2. item' \in 0..MaxPosts
      BY <1>1, <1>6
  <2> QED
      BY <1>1, <1>o, <1>5, <2>1, <2>2 DEF ButtonInv, ButtonTypeOK
<1>9. Placed'
    BY <1>1, <1>6, <1>7 DEF Placed, storeVars
<1>10. Tallied'
    BY <1>5, <1>7 DEF Tallied
<1>11. Agreed'
    BY <1>7 DEF Agreed
<1>12. ShownOrComing'
  <2>1. Row' <=> on'
      BY <1>1, <1>o DEF Row, storeVars
  <2>2. \A k \in Clicks : click'[k].st # "ok"
      BY <1>7 DEF UnderWay
  <2> QED
      BY <2>1, <2>2 DEF ShownOrComing
<1> QED
    BY <1>2, <1>8, <1>9, <1>10, <1>11, <1>12 DEF ButtonInv

(* A click begins, undisturbed only after what no other one is against.    *)
LEMMA PressKeeps ==
    ASSUME ButtonInv, NEW k \in Clicks, Press(k)
    PROVE  ButtonInv'
<1> DEFINE r == [st |-> "asked", want |-> ~on, count |-> likesCount]
<1>1. /\ Mounted /\ click[k].st = "idle"
      /\ click' = [click EXCEPT ![k] = r]
      /\ upset' = upset \cup Disturbs(~on)
      /\ UNCHANGED <<storeVars, button, item, friends, on, likesCount, others>>
    BY DEF Press
<1>2. ButtonTypeOK /\ click \in [Clicks -> ClickRecord]
    BY DEF ButtonInv, ButtonTypeOK
<1>3. StoreInv'
    BY <1>1, StoreInvNext DEF ButtonInv
<1>4. r \in ClickRecord
    BY <1>2 DEF ButtonTypeOK, ClickRecord
<1>5. /\ r.st = "asked" /\ (r.want <=> ~on) /\ r.count = likesCount
    BY <1>2 DEF ButtonTypeOK
<1> HIDE DEF r
<1>6. click'[k] = r /\ \A j \in Clicks : j # k => click'[j] = click[j]
    BY <1>1, <1>2
<1>7. UnderWay' = UnderWay \cup {k} /\ k \notin UnderWay
    BY <1>1, <1>5, <1>6 DEF UnderWay
<1>8. ButtonTypeOK'
  <2>1. click' \in [Clicks -> ClickRecord]
      BY <1>1, <1>2, <1>4
  <2>2. upset' \subseteq Upsets
      BY <1>1, <1>2 DEF ButtonTypeOK, Disturbs, Upsets
  <2> QED
      BY <1>1, <1>2, <2>1, <2>2 DEF ButtonTypeOK
<1>9. Placed' /\ (Mounted' <=> Mounted) /\ (Row' <=> Row) /\ (Alive' <=> Alive)
    BY <1>1 DEF ButtonInv, Placed, Mounted, Row, Alive, storeVars
<1>10. Tallied'
  <2> SUFFICES ASSUME button = "like", item # 0 PROVE (Tallied!2)'
      BY <1>1 DEF Tallied
  <2>1. r.count = CountBefore(r.want)
      BY <1>5 DEF ButtonInv, Tallied, CountBefore
  <2> QED
      BY <1>1, <1>6, <1>7, <2>1 DEF ButtonInv, Tallied, CountBefore
<1>11. /\ Undisturbed' => Undisturbed
       /\ Undisturbed' /\ button # "profile" => UnderWay = {}
       /\ Undisturbed' /\ button = "profile" => \A j \in UnderWay : click[j].want <=> ~on
  <2>1. Undisturbed' => Undisturbed
      BY <1>1 DEF Undisturbed
  <2>2. Undisturbed' /\ button # "profile" => UnderWay = {}
      BY <1>1 DEF Undisturbed, Disturbs
  <2>3. ASSUME Undisturbed', button = "profile", NEW j \in UnderWay PROVE click[j].want <=> ~on
    <3>1. "crossed" \notin Disturbs(~on)
        BY <1>1, <2>3 DEF Undisturbed
    <3>2. click[j].want = ~on
        BY <3>1, <2>3 DEF Disturbs
    <3> QED
        BY <3>2
  <2> QED
      BY <2>1, <2>2, <2>3
<1>12. Agreed'
    BY <1>1, <1>5, <1>6, <1>7, <1>11 DEF Agreed
<1>13. ShownOrComing'
    BY <1>1, <1>5, <1>6, <1>9, <1>11 DEF ButtonInv, ShownOrComing
<1> QED
    BY <1>3, <1>8, <1>9, <1>10, <1>12, <1>13 DEF ButtonInv

(* What a click that goes from asked to another state leaves alone.        *)
LEMMA ClickMoves ==
    ASSUME ButtonTypeOK, NEW k \in Clicks, NEW s \in {"ok", "error"},
           click[k].st = "asked", click' = [click EXCEPT ![k].st = s]
    PROVE  /\ click' \in [Clicks -> ClickRecord]
           /\ click'[k].st = s
           /\ \A j \in Clicks : /\ click'[j].want = click[j].want
                                /\ click'[j].count = click[j].count
                                /\ j # k => click'[j].st = click[j].st
           /\ {j \in Clicks : click'[j].st # "idle"} = UnderWay
<1>1. click \in [Clicks -> ClickRecord]
    BY DEF ButtonTypeOK
<1> DEFINE r == [click[k] EXCEPT !.st = s]
<1>2. r.st = s /\ r.want = click[k].want /\ r.count = click[k].count /\ r \in ClickRecord
    BY <1>1 DEF ClickRecord
<1>3. click' = [click EXCEPT ![k] = r]
    BY Zenon
<1> HIDE DEF r
<1>4. click'[k] = r /\ \A j \in Clicks : j # k => click'[j] = click[j]
    BY <1>1, <1>3
<1>5. click' \in [Clicks -> ClickRecord]
    BY <1>1, <1>2, <1>3
<1> QED
    BY <1>2, <1>4, <1>5 DEF UnderWay

(* A click that ends. *)
LEMMA ClickEnds ==
    ASSUME ButtonTypeOK, NEW k \in Clicks, click' = [click EXCEPT ![k] = NoClick]
    PROVE  /\ click' \in [Clicks -> ClickRecord]
           /\ click'[k].st = "idle"
           /\ \A j \in Clicks : j # k => click'[j] = click[j]
           /\ UnderWay' = UnderWay \ {k}
<1>1. click \in [Clicks -> ClickRecord] /\ NoClick \in ClickRecord
    BY DEF ButtonTypeOK, NoClick, ClickRecord
<1>2. click'[k].st = "idle" /\ \A j \in Clicks : j # k => click'[j] = click[j]
    BY <1>1 DEF NoClick
<1>3. click' \in [Clicks -> ClickRecord]
    BY <1>1
<1> QED
    BY <1>2, <1>3 DEF UnderWay

(* A refusal changes the click only. *)
LEMMA RefuseKeeps ==
    ASSUME ButtonInv, NEW k \in Clicks, Refuse(k)
    PROVE  ButtonInv'
<1>1. /\ click[k].st = "asked" /\ click' = [click EXCEPT ![k].st = "error"]
      /\ UNCHANGED <<storeVars, button, item, friends, on, likesCount, others, upset>>
    BY DEF Refuse
<1>2. ButtonTypeOK /\ StoreInv'
    BY <1>1, StoreInvNext DEF ButtonInv
<1>3. /\ click' \in [Clicks -> ClickRecord] /\ click'[k].st = "error"
      /\ \A j \in Clicks : /\ click'[j].want = click[j].want
                           /\ click'[j].count = click[j].count
                           /\ j # k => click'[j].st = click[j].st
      /\ UnderWay' = UnderWay
    BY <1>1, <1>2, ClickMoves DEF UnderWay
<1>4. ButtonTypeOK'
    BY <1>1, <1>2, <1>3 DEF ButtonTypeOK
<1>5. /\ Placed' /\ (Row' <=> Row) /\ (Alive' <=> Alive)
      /\ (Undisturbed' <=> Undisturbed)
    BY <1>1, <1>3 DEF ButtonInv, Placed, Mounted, Row, Alive, Undisturbed, storeVars
<1>6. Tallied'
    BY <1>1, <1>3 DEF ButtonInv, Tallied, CountBefore, UnderWay
<1>7. Agreed'
    BY <1>1, <1>3, <1>5 DEF ButtonInv, Agreed, UnderWay
<1>8. ShownOrComing'
    BY <1>1, <1>3, <1>5 DEF ButtonInv, ShownOrComing
<1> QED
    BY <1>2, <1>4, <1>5, <1>6, <1>7, <1>8 DEF ButtonInv

(* An error ends the click and shows nothing. *)
LEMMA FailKeeps ==
    ASSUME ButtonInv, NEW k \in Clicks, Fail(k)
    PROVE  ButtonInv'
<1>1. /\ click[k].st = "error" /\ click' = [click EXCEPT ![k] = NoClick]
      /\ UNCHANGED <<storeVars, button, item, friends, on, likesCount, others, upset>>
    BY DEF Fail
<1>2. ButtonTypeOK /\ StoreInv'
    BY <1>1, StoreInvNext DEF ButtonInv
<1>3. /\ click' \in [Clicks -> ClickRecord] /\ click'[k].st = "idle"
      /\ \A j \in Clicks : j # k => click'[j] = click[j]
      /\ UnderWay' = UnderWay \ {k}
    BY <1>1, <1>2, ClickEnds
<1>4. ButtonTypeOK'
    BY <1>1, <1>2, <1>3 DEF ButtonTypeOK
<1>5. /\ Placed' /\ (Row' <=> Row) /\ (Alive' <=> Alive)
      /\ (Undisturbed' <=> Undisturbed)
    BY <1>1, <1>3 DEF ButtonInv, Placed, Mounted, Row, Alive, Undisturbed, storeVars
<1>6. Tallied'
    BY <1>1, <1>3 DEF ButtonInv, Tallied, CountBefore, UnderWay
<1>7. Agreed'
    BY <1>1, <1>3, <1>5 DEF ButtonInv, Agreed, UnderWay
<1>8. ShownOrComing'
    BY <1>1, <1>3, <1>5 DEF ButtonInv, ShownOrComing
<1> QED
    BY <1>2, <1>4, <1>5, <1>6, <1>7, <1>8 DEF ButtonInv

(* An answer shows what its click was after, by its own number.            *)
LEMMA AnswerKeeps ==
    ASSUME ButtonInv, NEW k \in Clicks, Answer(k)
    PROVE  ButtonInv'
<1>1. /\ click[k].st = "ok" /\ click' = [click EXCEPT ![k] = NoClick]
      /\ on' = (IF button = "item" THEN ~on ELSE click[k].want)
      /\ likesCount' = IF button # "like" THEN likesCount
                       ELSE IF click[k].want THEN click[k].count + 1 ELSE click[k].count - 1
      /\ UNCHANGED <<storeVars, button, item, friends, others, upset>>
    BY DEF Answer
<1>2. ButtonTypeOK /\ StoreInv' /\ k \in UnderWay
    BY <1>1, StoreInvNext DEF ButtonInv, UnderWay
<1>3. /\ click' \in [Clicks -> ClickRecord] /\ click'[k].st = "idle"
      /\ \A j \in Clicks : j # k => click'[j] = click[j]
      /\ UnderWay' = UnderWay \ {k}
    BY <1>1, <1>2, ClickEnds
<1>4. click[k] \in ClickRecord /\ on \in BOOLEAN
    BY <1>2 DEF ButtonTypeOK
<1>5. on' \in BOOLEAN /\ (button # "item" => (on' <=> click[k].want))
                      /\ (button = "item" => (on' <=> ~on))
  <2>1. click[k].want \in BOOLEAN
      BY <1>4 DEF ClickRecord
  <2>2. CASE button = "item"
    <3>1. on' = ~on
        BY <1>1, <2>2
    <3> QED
        BY <3>1, <2>2, <1>4
  <2>3. CASE button # "item"
    <3>1. on' = click[k].want
        BY <1>1, <2>3
    <3> QED
        BY <3>1, <2>1, <2>3
  <2> QED
      BY <2>2, <2>3
<1>6. Placed' /\ (Row' <=> Row) /\ (Alive' <=> Alive) /\ (Undisturbed' <=> Undisturbed)
    BY <1>1, <1>3 DEF ButtonInv, Placed, Mounted, Row, Alive, Undisturbed, storeVars
<1>7. button = "like" => item # 0
    BY <1>2 DEF ButtonInv, Placed, Mounted
<1>8. button = "like" => likesCount' = others + (IF on' THEN 1 ELSE 0)
  <2> SUFFICES ASSUME button = "like" PROVE likesCount' = others + (IF on' THEN 1 ELSE 0)
      OBVIOUS
  <2>1. click[k].count = others + (IF click[k].want THEN 0 ELSE 1)
      BY <1>2, <1>7 DEF ButtonInv, Tallied, CountBefore
  <2>2. others \in Nat
      BY <1>2 DEF ButtonTypeOK
  <2> QED
      BY <1>1, <1>5, <2>1, <2>2
<1>9. ButtonTypeOK'
  <2>1. likesCount' \in Nat
      BY <1>1, <1>2, <1>8 DEF ButtonTypeOK
  <2> QED
      BY <1>1, <1>2, <1>3, <1>5, <2>1 DEF ButtonTypeOK
<1>10. Tallied'
    BY <1>1, <1>3, <1>8 DEF ButtonInv, Tallied, CountBefore, UnderWay
<1>11. Undisturbed /\ button # "profile" => UnderWay' = {}
    BY <1>2, <1>3 DEF ButtonInv, Agreed
<1>12. Agreed'
    BY <1>1, <1>3, <1>6, <1>11 DEF ButtonInv, Agreed, UnderWay
<1>13. Undisturbed => (on' <=> click[k].want)
    BY <1>2, <1>5 DEF ButtonInv, Agreed, ButtonTypeOK, Kinds
<1>14. ShownOrComing'
    BY <1>1, <1>3, <1>6, <1>13 DEF ButtonInv, ShownOrComing
<1> QED
    BY <1>2, <1>6, <1>9, <1>10, <1>12, <1>14 DEF ButtonInv

(* Applied to a row that is not yet what was asked for, it becomes that;   *)
(* a friend button's does in any case.                                     *)
LEMMA ApplyDoes ==
    ASSUME ButtonTypeOK, StoreTypeOK, NEW want \in BOOLEAN, Apply(want), item' = item, button' = button,
           button = "like" => (want <=> ~Row)
    PROVE  /\ Row' <=> want
           /\ friends' \in 0..MaxRows
<1>1. friends \in 0..MaxRows /\ MaxRows \in Nat
    BY ButtonsAssumption DEF ButtonTypeOK
<1>2. CASE button = "like"
  <2>1. LikeClicked(Me, item) /\ friends' = friends
      BY <1>2 DEF Apply
  <2>2. CASE Like(Me, item)
      BY <1>1, <1>2, <2>1, <2>2 DEF Like, Row
  <2>3. CASE Unlike(Me, item)
      BY <1>1, <1>2, <2>1, <2>3 DEF Unlike, Row
  <2> QED
      BY <2>1, <2>2, <2>3 DEF LikeClicked
<1>3. CASE button # "like"
    BY <1>1, <1>3 DEF Apply, Row
<1> QED
    BY <1>2, <1>3

(* What the server performs is what all clicks under way are after.       *)
LEMMA PerformKeeps ==
    ASSUME ButtonInv, NEW k \in Clicks, Perform(k)
    PROVE  ButtonInv'
<1>1. /\ click[k].st = "asked" /\ Apply(click[k].want)
      /\ UNCHANGED <<button, item, on, likesCount, others>>
    BY DEF Perform
<1>2. PICK s \in {"ok", "error"} :
         /\ click' = [click EXCEPT ![k].st = s]
         /\ s = "ok" => upset' = upset
         /\ s = "error" => upset' = upset \cup {"doubt"}
    BY DEF Perform
<1>3. ButtonTypeOK /\ StoreTypeOK /\ Placed /\ k \in UnderWay
    BY <1>1 DEF ButtonInv, StoreInv, UnderWay
<1>4. /\ click' \in [Clicks -> ClickRecord] /\ click'[k].st = s
      /\ \A j \in Clicks : /\ click'[j].want = click[j].want
                           /\ click'[j].count = click[j].count
                           /\ j # k => click'[j].st = click[j].st
      /\ UnderWay' = UnderWay
    BY <1>1, <1>2, <1>3, ClickMoves DEF UnderWay
<1>5. [StoreNext]_storeVars
  <2>1. Next
      BY DEF Next
  <2> QED
      BY <1>3, <2>1, ButtonStepsAreStoreSteps
<1>6. StoreInv'
    BY <1>5, StoreInvNext DEF ButtonInv
<1>7. item \in 0..postSeq' /\ (item \in DOMAIN posts' => item \in DOMAIN posts)
    BY <1>3, <1>5, Fresh
<1>8. click[k].want \in BOOLEAN /\ on \in BOOLEAN /\ friends \in 0..MaxRows
    BY <1>3 DEF ButtonTypeOK, ClickRecord
<1>9. friends' \in 0..MaxRows
    BY <1>1, <1>8, ButtonsAssumption DEF Apply
<1>10. ButtonTypeOK'
  <2>1. upset' \subseteq Upsets
      BY <1>2, <1>3 DEF ButtonTypeOK, Upsets
  <2> QED
      BY <1>1, <1>3, <1>4, <1>9, <2>1 DEF ButtonTypeOK
<1>11. /\ Mounted' <=> Mounted
       /\ Alive' => Alive
       /\ Undisturbed' => Undisturbed /\ s = "ok"
  <2>1. (Mounted' <=> Mounted) /\ (Alive' => Alive)
      BY <1>1, <1>7 DEF Mounted, Alive
  <2>2. Undisturbed' => Undisturbed /\ s = "ok"
      BY <1>1, <1>2 DEF Undisturbed
  <2> QED
      BY <2>1, <2>2
<1>12. Placed'
    BY <1>1, <1>4, <1>7, <1>11 DEF ButtonInv, Placed
<1>u. UnderWay \subseteq Clicks
    BY DEF UnderWay
<1>13. Tallied'
    BY <1>1, <1>4, <1>u DEF ButtonInv, Tallied, CountBefore
<1>14. Agreed'
    BY <1>1, <1>4, <1>11, <1>u DEF ButtonInv, Agreed
<1>15. ShownOrComing'
  <2> SUFFICES ASSUME Undisturbed', Alive'
               PROVE  /\ \A j \in Clicks : click'[j].st = "ok" => (click'[j].want <=> Row')
                      /\ \E j \in Clicks : click'[j].st = "ok"
      BY DEF ShownOrComing
  <2>1. Undisturbed /\ Alive /\ s = "ok"
      BY <1>11
  <2>2. \A j \in UnderWay : /\ click[j].want <=> click[k].want
                            /\ button # "profile" => j = k /\ (click[k].want <=> ~on)
      BY <1>3, <2>1 DEF ButtonInv, Agreed
  <2>3. button = "like" => (click[k].want <=> ~Row)
    <3> SUFFICES ASSUME button = "like" PROVE click[k].want <=> ~Row
        OBVIOUS
    <3>1. \A j \in Clicks : click[j].st # "ok"
        BY <1>1, <2>2 DEF UnderWay
    <3>2. Row <=> on
        BY <2>1, <3>1 DEF ButtonInv, ShownOrComing
    <3> QED
        BY <1>3, <2>2, <3>2
  <2>4. Row' <=> click[k].want
      BY <1>1, <1>3, <1>8, <2>3, ApplyDoes
  <2>5. ASSUME NEW j \in Clicks, click'[j].st = "ok" PROVE click'[j].want <=> Row'
    <3>1. j \in UnderWay
        BY <1>4, <2>5 DEF UnderWay
    <3>2. click'[j].want = click[j].want
        BY <1>4, Zenon
    <3> QED
        BY <2>2, <2>4, <3>1, <3>2
  <2> QED
      BY <1>4, <2>1, <2>5
<1> QED
    BY <1>6, <1>10, <1>12, <1>13, <1>14, <1>15 DEF ButtonInv

(* Other users leave the like of Me alone, unless they delete the post. *)
LEMMA OthersActKeeps ==
    ASSUME ButtonInv, OthersAct
    PROVE  ButtonInv'
<1>1. button = "like" /\ UNCHANGED buttonVars
    BY DEF OthersAct
<1>2. [StoreNext]_storeVars
    BY DEF OthersAct, StoreNext
<1>3. Alive' => ((<<item, Me>> \in likes') <=> (<<item, Me>> \in likes))
  <2> SUFFICES ASSUME Alive' PROVE (<<item, Me>> \in likes') <=> (<<item, Me>> \in likes)
      OBVIOUS
  <2>1. item \in DOMAIN posts'
      BY <1>1 DEF Alive, buttonVars
  <2>2. ASSUME NEW u \in Users, AddNewPost(u) PROVE likes' = likes
      BY <2>2 DEF AddNewPost
  <2>3. CASE AddNewPostAborts
      BY <2>3 DEF AddNewPostAborts
  <2>4. ASSUME NEW u \in Users, NEW p \in ShownPosts, DelPostById(u, p)
        PROVE  (<<item, Me>> \in likes') <=> (<<item, Me>> \in likes)
      BY <2>1, <2>4 DEF DelPostById
  <2>5. ASSUME NEW u \in Users \ {Me}, NEW p \in ShownPosts, LikeClicked(u, p)
        PROVE  (<<item, Me>> \in likes') <=> (<<item, Me>> \in likes)
      BY <2>5 DEF LikeClicked, Like, Unlike
  <2> QED
      BY <2>2, <2>3, <2>4, <2>5 DEF OthersAct
<1>4. Alive' => (Row' <=> Row)
    BY <1>1, <1>3 DEF Row, buttonVars
<1>5. friends' \in 0..MaxRows /\ upset' \subseteq Upsets
    BY <1>1 DEF ButtonInv, ButtonTypeOK, buttonVars
<1> QED
    BY <1>1, <1>2, <1>4, <1>5, ButtonFrame DEF buttonVars

(* What turns the row over behind the tab's back is remembered. *)
LEMMA ElsewhereKeeps ==
    ASSUME ButtonInv, Elsewhere
    PROVE  ButtonInv'
<1>1. /\ UNCHANGED <<button, item, on, likesCount, click, others>>
      /\ upset' = IF Row' = Row THEN upset ELSE upset \cup {"doubt"}
    BY DEF Elsewhere
<1>2. ButtonTypeOK /\ StoreTypeOK /\ Placed
    BY DEF ButtonInv, StoreInv
<1>3. [StoreNext]_storeVars
  <2>1. Next
      BY DEF Next
  <2> QED
      BY <1>2, <2>1, ButtonStepsAreStoreSteps
<1>4. friends' \in 0..MaxRows
    BY <1>2, ButtonsAssumption DEF Elsewhere, ButtonTypeOK
<1>5. upset' \subseteq Upsets /\ upset \subseteq upset'
    BY <1>1, <1>2 DEF ButtonTypeOK, Upsets
<1>6. Undisturbed' => (Row' <=> Row)
    BY <1>1 DEF Undisturbed
<1> QED
    BY <1>1, <1>3, <1>4, <1>5, <1>6, ButtonFrame

(* Every step preserves the invariant. *)
LEMMA ButtonInvNext == ButtonInv /\ [Next]_vars => ButtonInv'
<1> SUFFICES ASSUME ButtonInv, [Next]_vars PROVE ButtonInv'
    OBVIOUS
<1>1. ASSUME NEW p \in PostIds, Mount(p) PROVE ButtonInv'
    BY <1>1, MountKeeps
<1>2. ASSUME NEW k \in Clicks, Press(k) PROVE ButtonInv'
    BY <1>2, PressKeeps
<1>3. ASSUME NEW k \in Clicks, Perform(k) PROVE ButtonInv'
    BY <1>3, PerformKeeps
<1>4. ASSUME NEW k \in Clicks, Refuse(k) PROVE ButtonInv'
    BY <1>4, RefuseKeeps
<1>5. ASSUME NEW k \in Clicks, Answer(k) PROVE ButtonInv'
    BY <1>5, AnswerKeeps
<1>6. ASSUME NEW k \in Clicks, Fail(k) PROVE ButtonInv'
    BY <1>6, FailKeeps
<1>7. CASE OthersAct
    BY <1>7, OthersActKeeps
<1>8. CASE Elsewhere
    BY <1>8, ElsewhereKeeps
<1>9. CASE UNCHANGED vars
  <2>1. UNCHANGED storeVars /\ UNCHANGED buttonVars
      BY <1>9 DEF vars
  <2>2. Row' = Row
      BY <2>1 DEF Row, storeVars, buttonVars
  <2>3. friends' \in 0..MaxRows /\ upset' \subseteq Upsets
      BY <2>1 DEF ButtonInv, ButtonTypeOK, buttonVars
  <2> QED
      BY <2>1, <2>2, <2>3, ButtonFrame DEF buttonVars
<1> QED
    BY <1>1, <1>2, <1>3, <1>4, <1>5, <1>6, <1>7, <1>8, <1>9 DEF Next

----------------------------------------------------------------------------
(* The invariant holds in every state. *)
THEOREM ButtonInvariant == Spec => []ButtonInv
    BY ButtonInitial, ButtonInvNext, PTL DEF Spec

(* The button, its clicks and its number keep their types: no number of    *)
(* likes is ever shown that is not one.                                    *)
THEOREM ButtonTypeCorrect == Spec => []ButtonTypeOK
<1>1. ButtonInv => ButtonTypeOK
    BY DEF ButtonInv
<1> QED
    BY <1>1, ButtonInvariant, PTL

(* Number and colour of a like tell the same story, for any number of      *)
(* overlapping clicks.                                                     *)
THEOREM TallyAlwaysKept == Spec => []TallyKept
<1>1. ButtonInv => TallyKept
    BY DEF ButtonInv, Tallied, TallyKept
<1> QED
    BY <1>1, ButtonInvariant, PTL

(* Once nothing is under way the button shows the row. *)
THEOREM ButtonAlwaysTrue == Spec => []ButtonTrue
<1>1. ASSUME ButtonInv PROVE ButtonTrue
  <2> SUFFICES ASSUME Mounted, UnderWay = {}, Undisturbed, button = "like" => item \in DOMAIN posts
               PROVE  on = Row
      BY DEF ButtonTrue
  <2>1. \A k \in Clicks : click[k].st # "ok"
      BY DEF UnderWay
  <2>2. Row <=> on
      BY <1>1, <2>1 DEF ButtonInv, ShownOrComing, Alive
  <2>3. on \in BOOLEAN
      BY <1>1 DEF ButtonInv, ButtonTypeOK
  <2>4. Row \in BOOLEAN
    <3>1. CASE button = "like"
        BY <3>1 DEF Row
    <3>2. CASE button # "like"
        BY <3>2 DEF Row
    <3> QED
        BY <3>1, <3>2
  <2> QED
      BY <2>2, <2>3, <2>4
<1> QED
    BY <1>1, ButtonInvariant, PTL

(* ... and the number is the counter of the database, if the likes of the  *)
(* others are still those that were listed: colour and row agree, number   *)
(* and colour do, and the counter is exact (LikeCountExact).               *)
THEOREM CountAlwaysTrue == Spec => []CountTrue
<1>1. ASSUME ButtonInv PROVE CountTrue
  <2> SUFFICES ASSUME button = "like", item \in DOMAIN posts, UnderWay = {}, Undisturbed,
                      Cardinality(Likers(item) \ {Me}) = others
               PROVE  likesCount = Coalesce(posts[item].likeCount)
      BY DEF CountTrue
  <2>1. item # 0
      BY <1>1 DEF ButtonInv, StoreInv, StoreTypeOK
  <2>2. Row <=> on
    <3>1. Alive /\ \A k \in Clicks : click[k].st # "ok"
        BY <2>1 DEF Alive, Mounted, UnderWay
    <3> QED
        BY <1>1, <3>1 DEF ButtonInv, ShownOrComing
  <2>3. Me \in Likers(item) <=> on
      BY <2>2, ButtonsAssumption DEF Row, Likers
  <2>4. likesCount = others + (IF on THEN 1 ELSE 0)
      BY <1>1, <2>1 DEF ButtonInv, Tallied
  <2>5. IsFiniteSet(Likers(item)) /\ Cardinality(Likers(item)) \in Nat
      BY LikersFinite
  <2>6. others = IF Me \in Likers(item) THEN Cardinality(Likers(item)) - 1 ELSE Cardinality(Likers(item))
      BY <2>5, FS_RemoveElement
  <2>7. Coalesce(posts[item].likeCount) = Cardinality(Likers(item))
      BY <1>1 DEF ButtonInv, StoreInv, LikeCountExact
  <2> QED
      BY <2>3, <2>4, <2>5, <2>6, <2>7
<1> QED
    BY <1>1, ButtonInvariant, PTL

=============================================================================
