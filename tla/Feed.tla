------------------------------- MODULE Feed -------------------------------
(***************************************************************************)
(* The lists of the client that grow as one scrolls: the posts of friends  *)
(* (PostsPage.jsx), the users a search finds (FriendSearch.jsx) and the    *)
(* posts of a profile (Profile.jsx).  A page of a list is asked for by     *)
(* OFFSET while the rows behind it are added, deleted and moved, and its   *)
(* answer is put behind the list of the render that asked.                 *)
(*                                                                         *)
(* A callback sees the state of the render it was made in.  The observer   *)
(* is made anew when isEnough or the list changes; what else it sees may   *)
(* be older than the state (seen).  All updates between two awaits are one *)
(* render.  What only decides about the spinner and texts is left out.     *)
(***************************************************************************)
EXTENDS Integers, SequencesExt

CONSTANTS Keys,       \* texts of a search, or users whose profiles are visited
          Me,         \* the one of them whose profile is one's own
          Limit,      \* settings.limit
          InitRows,   \* number of rows a query matches at first, for each key
          MaxRows,    \* bound on that number
          Calls,      \* slots for the calls under way at one time
          MaxChanges  \* bound on the changes that are made, here or elsewhere

ASSUME FeedAssumption == /\ Me \in Keys
                         /\ Limit \in Nat \ {0}
                         /\ MaxRows \in Nat /\ MaxChanges \in Nat
                         /\ InitRows \in [Keys -> 0..MaxRows]

VARIABLES view,     \* the component
          rows,     \* what the query yields now for each key, in its order
          lastId,   \* the last id drawn for each key
          late,     \* history: the rows others put between those that were there
          changes,  \* how many changes of rows were asked for
          key,      \* settings.substr, or user.id of the profile that is shown
          posts,    \* the list that is shown (users, in FriendSearch)
          offset,   \* settings.offset
          isEnough, isFirst,
          seen,     \* settings and user as the observer sees them
          observer, \* IntersectionObserver and the element it was made for
          made,     \* what the components of the list took their state from
          call,     \* the calls under way
          upset     \* history: what happened that may spoil the list

dbVars   == <<rows, lastId, late>>
listVars == <<key, posts, offset, isEnough, isFirst, seen, observer, made>>
vars     == <<view, dbVars, changes, listVars, call, upset>>

Views  == {"PostsPage", "FriendSearch", "Profile"}
Ids    == 1..MaxRows
Idle   == [st |-> "idle"]
(* It is new and about to report, or has reported (quiet); nothing is      *)
(* observed (none); the element is not on the page (away).                 *)
Observers == {"new", "quiet", "none", "away"}

Upsets == {"added", "joined", "removed", "moved", "overlap", "visited", "failed"}

UnderWay == {k \in Calls : call[k].st # "idle"}

(* Newest posts first; users as they were inserted. *)
Listed(k) == [i \in 1..InitRows[k] |-> IF view = "FriendSearch" THEN i ELSE InitRows[k] + 1 - i]

(* A profile has no user in its first render, and no element to observe. *)
Init == /\ view \in Views
        /\ lastId = InitRows /\ rows = [k \in Keys |-> Listed(k)] /\ late = {}
        /\ changes = 0
        /\ key = Me
        /\ posts = <<>> /\ offset = (IF view = "PostsPage" THEN 0 - Limit ELSE 0)
        /\ isEnough = FALSE /\ isFirst = (view # "PostsPage")
        /\ seen = [key |-> Me, offset |-> offset] /\ made = <<>>
        /\ observer = (IF view = "Profile" THEN "none" ELSE "new")
        /\ call = [k \in Calls |-> Idle]
        /\ upset = {}

----------------------------------------------------------------------------
(* A call is made, and keeps the list its continuation is going to see. *)
Ask(k, op, of, from, base) ==
    /\ call[k].st = "idle"
    /\ call' = [call EXCEPT ![k] = [st |-> "asked", op |-> op, key |-> of, from |-> from,
                                    base |-> base, list |-> <<>>]]
    /\ upset' = upset \cup
                  IF UnderWay = {} THEN {}
                  ELSE LET ops == {op} \cup {call[j].op : j \in UnderWay}
                       IN {"overlap"} \cup (IF "add" \in ops THEN {"added"} ELSE {})
                                      \cup (IF "bin" \in ops THEN {"removed"} ELSE {})

(* Mutant: the next page begins one row too far. *)
LoadMorePastOne(k) ==
    /\ observer \in {"new", "quiet"} /\ ~isEnough /\ ~isFirst
    /\ Ask(k, "more", seen.key,
           1 + IF view = "Profile" THEN Len(posts) ELSE seen.offset + Limit, posts)
    /\ observer' = "quiet"
    /\ UNCHANGED <<view, dbVars, changes, key, posts, offset, isEnough, isFirst, seen, made>>

(* The observer reports: at once when it is new, or because of scrolling.  *)
(* Profile counts its list, the others their offset.                       *)
LoadMore(k) ==
    /\ observer \in {"new", "quiet"} /\ ~isEnough /\ ~isFirst
    /\ Ask(k, "more", seen.key, IF view = "Profile" THEN Len(posts) ELSE seen.offset + Limit,
           posts)
    /\ observer' = "quiet"
    /\ UNCHANGED <<view, dbVars, changes, key, posts, offset, isEnough, isFirst, seen, made>>

(* Mutant: no component is made for the rows of a later page. *)
MadeOnce(list) == IF view = "Profile" THEN list ELSE made

(* Without a key (only Profile gives one) React keeps the component at a   *)
(* place of the list, and its state, whatever is shown there next.         *)
Made(list) ==
    IF view = "Profile" THEN list
    ELSE [i \in DOMAIN list |-> IF i \in DOMAIN made THEN made[i] ELSE list[i]]

(* A change of the list or of isEnough makes the observer anew, which then *)
(* sees the settings of that render.  Without an element it observes none. *)
Renewed == /\ seen' = [key |-> key', offset |-> offset']
           /\ observer' = IF observer = "away" THEN "away" ELSE "new"
           /\ made' = Made(posts')

(* Mutant: the old list stays until the new one arrives. *)
EmptiedLater == /\ isEnough' = FALSE /\ isFirst' = TRUE
                /\ UNCHANGED <<view, dbVars, changes, key, offset, posts>>
                /\ Renewed

(* loadUsers and loadPosts up to the await. *)
Emptied == /\ posts' = <<>> /\ isEnough' = FALSE /\ isFirst' = TRUE
           /\ UNCHANGED <<view, dbVars, changes, key, offset>>
           /\ Renewed

Search(k) == /\ view # "PostsPage" /\ observer # "away"
             /\ Ask(k, "first", key, 0, <<>>) /\ Emptied

(* The input field of FriendSearch; Profile gets another user, and keeps   *)
(* what it has.                                                            *)
Turn(to) ==
    /\ view # "PostsPage" /\ to # key
    /\ key' = to
    /\ offset' = IF view = "FriendSearch" THEN 0 ELSE offset
    /\ upset' = IF view = "Profile" /\ (~isFirst \/ UnderWay # {})
                THEN upset \cup {"visited"} ELSE upset
    /\ UNCHANGED <<view, dbVars, changes, posts, isEnough, isFirst, seen, observer, made,
                   call>>

(* One's own data are edited in place of the page (mode).  The page comes  *)
(* back with another element, which the effect, whose dependencies are     *)
(* isEnough and posts, does not observe.                                   *)
OpenForm ==
    /\ view = "Profile" /\ key = Me /\ observer # "away"
    /\ observer' = "away"
    /\ UNCHANGED <<view, dbVars, changes, key, posts, offset, isEnough, isFirst, seen, made,
                   call, upset>>

Back ==
    /\ observer = "away"
    /\ observer' = "none"
    /\ UNCHANGED <<view, dbVars, changes, key, posts, offset, isEnough, isFirst, seen, made,
                   call, upset>>

Change == changes < MaxChanges /\ changes' = changes + 1

(* One's own profile: the bin of a post, and the form for a new one. *)
Bin(k, i) ==
    /\ view = "Profile" /\ key = Me /\ observer # "away" /\ Change
    /\ Ask(k, "bin", posts[i].key, posts[i].id, posts)
    /\ UNCHANGED <<view, dbVars, listVars>>

AddPost(k) ==
    /\ view = "Profile" /\ key = Me /\ observer # "away" /\ Change
    /\ Ask(k, "add", Me, 0, <<>>)
    /\ UNCHANGED <<view, dbVars, listVars>>

----------------------------------------------------------------------------
(* Mutant: OFFSET counts from one. *)
PageFromOne(of, from) ==
    LET last == IF from + Limit + 1 > Len(rows[of]) THEN Len(rows[of]) ELSE from + Limit + 1
    IN [i \in 1..(last - from - 1) |-> [key |-> of, id |-> rows[of][from + 1 + i]]]

(* LIMIT and OFFSET of a query.  No row is answered as null. *)
Page(of, from) ==
    LET last == IF from + Limit > Len(rows[of]) THEN Len(rows[of]) ELSE from + Limit
    IN [i \in 1..(last - from) |-> [key |-> of, id |-> rows[of][from + i]]]

(* A server answers. *)
AnswerList(k) ==
    /\ call[k].st = "asked" /\ call[k].op \in {"more", "first"}
    /\ call' = [call EXCEPT ![k].st = "ok", ![k].list = Page(call[k].key, call[k].from)]
    /\ UNCHANGED <<view, dbVars, changes, listVars, upset>>

(* The post is deleted, or added; the answer may be an error all the same. *)
Deleted(of, i) == /\ rows' = [rows EXCEPT ![of] = RemoveAt(@, i)]
                  /\ UNCHANGED <<lastId, late>>
Added(of, front) == /\ lastId[of] < MaxRows
                    /\ lastId' = [lastId EXCEPT ![of] = @ + 1]
                    /\ rows' = [rows EXCEPT ![of] = IF front THEN <<lastId'[of]>> \o @
                                                             ELSE Append(@, lastId'[of])]
                    /\ UNCHANGED late

Perform(k) ==
    /\ call[k].st = "asked"
    /\ LET noted == IF call[k].op = "bin" THEN "removed" ELSE "added"
       IN /\ \/ /\ call[k].op = "bin" /\ call[k].key = Me
                /\ \E i \in DOMAIN rows[Me] : rows[Me][i] = call[k].from /\ Deleted(Me, i)
             \/ call[k].op = "add" /\ Added(Me, TRUE)
          /\ \/ call' = [call EXCEPT ![k].st = "ok"] /\ UNCHANGED upset
             \/ call' = [call EXCEPT ![k] = Idle] /\ upset' = upset \cup {noted}
    /\ UNCHANGED <<view, changes, listVars>>

(* The call throws, nothing having been done.  Nobody asks again. *)
Fail(k) ==
    /\ call[k].st = "asked"
    /\ call' = [call EXCEPT ![k] = Idle]
    /\ upset' = upset \cup {"failed"}
    /\ UNCHANGED <<view, dbVars, changes, listVars>>

----------------------------------------------------------------------------
(* Mutant: only an answer that is too long ends the list. *)
ShortIfLonger(list) == Len(list) > Limit

Short(list) == Len(list) < Limit

(* Mutant: the answer is put behind the list that is shown by then. *)
MoreArrivesAtEnd(k) ==
    /\ call[k].st = "ok" /\ call[k].op = "more"
    /\ isEnough' = (isEnough \/ Short(call[k].list))
    /\ IF call[k].list = <<>> THEN UNCHANGED <<posts, offset, key>>
       ELSE /\ posts' = posts \o call[k].list
            /\ offset' = call[k].from
            /\ key' = IF view = "FriendSearch" THEN call[k].key ELSE key
    /\ Renewed
    /\ call' = [call EXCEPT ![k] = Idle]
    /\ UNCHANGED <<view, dbVars, changes, isFirst, upset>>

(* loadMore...: list and settings are those of the render that asked, with *)
(* the answer added; in FriendSearch the settings hold the search text.    *)
MoreArrives(k) ==
    /\ call[k].st = "ok" /\ call[k].op = "more"
    /\ isEnough' = (isEnough \/ Short(call[k].list))
    /\ IF call[k].list = <<>> THEN UNCHANGED <<posts, offset, key>>
       ELSE /\ posts' = call[k].base \o call[k].list
            /\ offset' = call[k].from
            /\ key' = IF view = "FriendSearch" THEN call[k].key ELSE key
    /\ Renewed
    /\ call' = [call EXCEPT ![k] = Idle]
    /\ UNCHANGED <<view, dbVars, changes, isFirst, upset>>

(* loadUsers, loadPosts: null leaves everything as it is, isFirst too. *)
FirstArrives(k) ==
    /\ call[k].st = "ok" /\ call[k].op = "first"
    /\ IF call[k].list = <<>> THEN UNCHANGED listVars
       ELSE /\ posts' = call[k].list
            /\ isEnough' = (isEnough \/ Short(call[k].list))
            /\ isFirst' = FALSE /\ offset' = 0
            /\ key' = IF view = "FriendSearch" THEN call[k].key ELSE key
            /\ Renewed
    /\ call' = [call EXCEPT ![k] = Idle]
    /\ UNCHANGED <<view, dbVars, changes, upset>>

(* Filtering a list: the one enumeration, in its order, of what is kept.   *)
Without(list, e) ==
    LET kept == {i \in DOMAIN list : list[i] # e}
    IN {[i \in DOMAIN f |-> list[f[i]]] :
           f \in {g \in [1..Cardinality(kept) -> kept] : \A i, j \in DOMAIN g : i < j => g[i] < g[j]}}

(* handleBin removes the post from the list of the render that was clicked.*)
BinArrives(k) ==
    /\ call[k].st = "ok" /\ call[k].op = "bin"
    /\ posts' \in Without(call[k].base, [key |-> call[k].key, id |-> call[k].from])
    /\ call' = [call EXCEPT ![k] = Idle]
    /\ UNCHANGED <<view, dbVars, changes, key, offset, isEnough, isFirst, upset>>
    /\ Renewed

(* serverResult clicks the button that loads the list again.               *)
AddArrives(k) ==
    /\ call[k].st = "ok" /\ call[k].op = "add" /\ observer # "away"
    /\ call' = [call EXCEPT ![k] = [@ EXCEPT !.st = "asked", !.op = "first", !.key = key]]
    /\ Emptied
    /\ UNCHANGED upset

(* There is no button while the form is open: click throws, and the post   *)
(* is said not to have been added.                                         *)
AddUnlisted(k) ==
    /\ call[k].st = "ok" /\ call[k].op = "add" /\ observer = "away"
    /\ call' = [call EXCEPT ![k] = Idle] /\ upset' = upset \cup {"added"}
    /\ UNCHANGED <<view, dbVars, changes, listVars>>

Arrives(k) == \/ MoreArrives(k) \/ FirstArrives(k) \/ BinArrives(k)
              \/ AddArrives(k) \/ AddUnlisted(k)

----------------------------------------------------------------------------
Inserted(list, at, e) == SubSeq(list, 1, at - 1) \o <<e>> \o SubSeq(list, at, Len(list))

Between(of, at) == /\ lastId[of] < MaxRows
                   /\ lastId' = [lastId EXCEPT ![of] = @ + 1]
                   /\ rows' = [rows EXCEPT ![of] = Inserted(@, at, lastId'[of])]
                   /\ late' = late \cup {[key |-> of, id |-> lastId'[of]]}
Moved(of, i, at) == /\ rows' = [rows EXCEPT ![of] = Inserted(RemoveAt(@, i), at, rows[of][i])]
                    /\ UNCHANGED <<lastId, late>>

(* Friends add and delete posts; one who is befriended or unfriended late  *)
(* brings or takes posts of any age.  getUsersList has no ORDER BY: a user *)
(* who joins or is updated may be found anywhere.                          *)
Elsewhere ==
    /\ Change
    /\ \E of \in Keys :
          \/ Added(of, view # "FriendSearch")
             /\ upset' = upset \cup {IF view = "FriendSearch" THEN "joined" ELSE "added"}
          \/ \E at \in DOMAIN rows[of] : Between(of, at) /\ upset' = upset \cup {"added"}
          \/ \E i \in DOMAIN rows[of] : Deleted(of, i) /\ upset' = upset \cup {"removed"}
          \/ /\ view = "FriendSearch"
             /\ \E i, at \in DOMAIN rows[of] : Moved(of, i, at) /\ upset' = upset \cup {"moved"}
    /\ UNCHANGED <<view, listVars, call>>

Next == \/ \E k \in Calls : \/ LoadMore(k) \/ Search(k) \/ AddPost(k)
                            \/ \E i \in DOMAIN posts : Bin(k, i)
                            \/ AnswerList(k) \/ Perform(k) \/ Fail(k) \/ Arrives(k)
        \/ \E to \in Keys : Turn(to)
        \/ OpenForm \/ Back \/ Elsewhere

Spec == Init /\ [][Next]_vars

(* A server that answers, a browser that delivers, and an observer that    *)
(* reports once it observes, to a user who keeps the end of the list in    *)
(* view.                                                                   *)
FairSpec ==
    /\ Spec
    /\ \A k \in Calls : WF_vars(AnswerList(k) \/ Perform(k) \/ Fail(k)) /\ WF_vars(Arrives(k))
    /\ WF_vars(observer = "new" /\ \E k \in Calls : LoadMore(k))

----------------------------------------------------------------------------
Shown(of) == {posts[i].id : i \in {j \in DOMAIN posts : posts[j].key = of}}
Places(e) == {i \in DOMAIN rows[e.key] : rows[e.key][i] = e.id}
Untouched(by) == upset \cap by = {}

FeedTypeOK ==
    /\ view \in Views
    /\ lastId \in [Keys -> 0..MaxRows] /\ \A k \in Keys : Range(rows[k]) \subseteq 1..lastId[k]
    /\ changes \in 0..MaxChanges
    /\ key \in Keys /\ posts \in Seq([key : Keys, id : Ids])
    /\ made \in Seq([key : Keys, id : Ids]) /\ Len(made) = Len(posts)
    /\ offset \in Int /\ seen \in [key : Keys, offset : Int]
    /\ {isEnough, isFirst} \subseteq BOOLEAN /\ observer \in Observers
    /\ late \subseteq [key : Keys, id : Ids]
    /\ upset \subseteq Upsets

(* No row is shown twice, though several pages may be under way, arrive    *)
(* late or twice, and posts are deleted in between: as long as nothing is  *)
(* put in front of the rows that are being listed, and no profile with     *)
(* posts is left for another, which then counts both lists.                *)
NoRepeat == Untouched({"added", "moved", "visited"}) => IsInjective(posts)

(* No row between one that is shown and another that is shown after it is  *)
(* skipped, but for rows that came between others later: though any number *)
(* of rows is added, in front, behind and in between, while pages are      *)
(* under way, and one's own posts are deleted one by one: as long as no    *)
(* row that was there goes behind the back of the pages.                   *)
NoGap ==
    Untouched({"removed", "moved", "visited"}) =>
        \A p, q \in DOMAIN posts : p < q /\ posts[p].key = posts[q].key =>
            \A i \in Places(posts[p]), l \in Places(posts[q]) : \A j \in i..l :
                LET of == posts[p].key
                IN rows[of][j] \in Shown(of) \/ [key |-> of, id |-> rows[of][j]] \in late

(* The results of two searches are never mixed, however typing, searching, *)
(* scrolling and late answers overlap.  The posts of two users are, where  *)
(* a profile with posts is left for another.                               *)
OneKey ==
    Untouched({"visited"}) => \A i, j \in DOMAIN posts : posts[i].key = posts[j].key

(* The button of a component, whose state is set once, stands for the user *)
(* or post that is shown beside it: a new search clears the list, and only *)
(* an older answer can put other users into the places of the new ones; on *)
(* PostsPage not even that, unless posts were added or deleted meanwhile.  *)
ItemsOwn ==
    \/ Untouched({"overlap"})
    \/ view = "PostsPage" /\ Untouched({"added", "removed"})
    => made = posts

(* Where the user waits for one thing before doing the next and nobody     *)
(* interferes, the list is the beginning of what the database has, own     *)
(* posts just added or deleted included, and all of it once isEnough says  *)
(* so.                                                                     *)
ListFaithful ==
    Untouched({"added", "removed", "moved", "overlap", "visited"}) /\ UnderWay = {} /\ posts # <<>> =>
        LET of == posts[1].key
            all == [i \in DOMAIN rows[of] |-> [key |-> of, id |-> rows[of][i]]]
        IN /\ IsPrefix(posts, all)
           /\ isEnough /\ "joined" \notin upset => posts = all

(* Where the user at last stops loading anew, scrolling comes to the end   *)
(* of the list, unless a load fails, the form is opened, which leaves the  *)
(* list without an observer until it changes, or there was nothing to      *)
(* begin with; only an older page can then still be shown.                 *)
AtEnd == \/ isEnough \/ "failed" \in upset \/ observer \in {"away", "none"}
         \/ isFirst /\ (posts = <<>> \/ "overlap" \in upset)

ScrollEnds == <>[](\A k \in UnderWay : call[k].op # "first") => []<>AtEnd
=============================================================================
