--------------------------- MODULE ClientSession ---------------------------
(***************************************************************************)
(* The session of the browser client in one tab: what localStorage and the *)
(* HttpOnly cookie hold, the calls of PostService.js, which run            *)
(* concurrently (an await gives way to every other handler), log-in,       *)
(* log-out and page reload.                                                *)
(*                                                                         *)
(* A call sends a request with the stored access token; on 401 it asks     *)
(* PhotogramServer for a new token, which the cookie pays for, and sends   *)
(* the request once more.  A server performs a request for the user of its *)
(* token.  The servers' side is what module PostServer establishes of one: *)
(* a refused token means no effect, an error or a lost connection may hide *)
(* an effect, and a request may never be answered.                         *)
(***************************************************************************)
EXTENDS Naturals, FiniteSets

CONSTANTS Users,
          Calls,      \* slots for the calls under way at one time
          Logins,     \* slots for the log-ins under way at one time
          Operations, \* the PostService functions that are called
          MaxTokens,  \* bound on the access tokens issued
          Null

VARIABLES issued,   \* number of access tokens issued so far
          expired,  \* how many of them, the oldest first, have expired
          token,    \* localStorage.accessToken
          nickname, \* localStorage.nickname: whose pages are shown
          isAuth,   \* AuthContext.isAuth and localStorage.auth
          cookie,   \* the user its refresh token is for; it may have expired
          login,    \* the calls of authServer
          call,     \* the calls of the other functions
          mixed     \* history: a log-in began while calls or log-ins of another user were under way

storage == <<token, nickname, isAuth, cookie>>
vars == <<issued, expired, token, nickname, isAuth, cookie, login, call, mixed>>

(* PostService's functions by their place in the file, and those that write. *)
FriendCalls  == {"getUsersList", "getStatus", "makeFriend", "deleteFriend"}
ProfileCalls == {"updateProfileData", "updateProfilePassword"}
PictureCalls == {"updateProfilePhoto", "getProfileInfByNick", "getProfilePhotoByNickname"}
PostCalls    == {"getDate", "addNewPost", "postLike", "deletePost"}
FeedCalls    == {"getPostsList", "getPostsListById", "getPostPhoto"}
AllCalls     == FriendCalls \cup {"getPhotoById"} \cup ProfileCalls \cup PictureCalls
                  \cup PostCalls \cup FeedCalls
Writes       == {"makeFriend", "deleteFriend", "updateProfileData", "updateProfilePassword",
                 "updateProfilePhoto", "addNewPost", "postLike", "deletePost"}

Tokens    == [user : Users, no : 1..MaxTokens]
Answers   == {"ok", "unauthorized", "error", "lost"}
Asking    == {"first", "retry"}
Active    == Asking \cup {"refresh", "refreshed"}
Over      == {"idle", "resolved", "rejected", "aborted"}

CallRecord ==
    [st     : Active \cup Over,
     op     : Operations \cup {Null},
     page   : Users \cup {Null},     \* the user whose page made the call
     bearer : Tokens \cup {Null},    \* the token its last request carries
     named  : BOOLEAN,               \* its last request names what the call was given
     paid   : Users \cup {Null},     \* the cookie its refresh carries
     fresh  : Tokens \cup {Null},    \* the token that bought
     reply  : Answers \cup {Null},   \* Null while a server has its request
     done   : 0..2,                  \* how often its write was performed
     by     : Users \cup {Null}]     \* and for whom, the last time

LoginRecord == [st : {"idle", "asked", "answered"}, user : Users \cup {Null},
                fresh : Tokens \cup {Null}]

ASSUME SessionAssumption ==
    /\ IsFiniteSet(Calls) /\ IsFiniteSet(Logins)
    /\ Operations \subseteq AllCalls
    /\ MaxTokens \in Nat
    /\ Null \notin Users \cup Tokens \cup Answers \cup Operations

NoCall  == [st |-> "idle", op |-> Null, page |-> Null, bearer |-> Null, named |-> TRUE,
            paid |-> Null, fresh |-> Null, reply |-> "lost", done |-> 0, by |-> Null]
NoLogin == [st |-> "idle", user |-> Null, fresh |-> Null]

Init == /\ issued = 0 /\ expired = 0
        /\ token = Null /\ nickname = Null /\ isAuth = FALSE /\ cookie = Null
        /\ login = [l \in Logins |-> NoLogin]
        /\ call = [k \in Calls |-> NoCall]
        /\ mixed = FALSE

UnderWay == {k \in Calls : call[k].st \in Active}
Entering == {l \in Logins : login[l].st # "idle"}

(* The bound: whatever is started may still draw a token. *)
Room == issued + Cardinality(UnderWay) + Cardinality(Entering) < MaxTokens

Draw(u) == [user |-> u, no |-> issued + 1]

----------------------------------------------------------------------------
(* The log-in form is shown while nobody is logged in; calls of the user   *)
(* before may still be under way.  Nothing disables it while it waits: it  *)
(* may be sent again, for the same user or another.                        *)
LogIn(l, u) ==
    /\ ~isAuth /\ login[l].st = "idle" /\ Room
    /\ login' = [login EXCEPT ![l] = [NoLogin EXCEPT !.st = "asked", !.user = u]]
    /\ mixed' = (\/ mixed
                 \/ \E k \in UnderWay : call[k].page # u
                 \/ \E m \in Entering : login[m].user # u)
    /\ UNCHANGED <<issued, expired, storage, call>>

(* /login accepts, and the browser keeps the cookie of the answer. *)
LogInAnswered(l) ==
    /\ login[l].st = "asked" /\ issued < MaxTokens
    /\ issued' = issued + 1
    /\ login' = [login EXCEPT ![l].st = "answered", ![l].fresh = Draw(login[l].user)]
    /\ cookie' = login[l].user
    /\ UNCHANGED <<expired, token, nickname, isAuth, call, mixed>>

(* Mutant: a stored token is kept. *)
LogInStoredKeepsToken(l) ==
    /\ login[l].st = "answered"
    /\ login' = [login EXCEPT ![l] = NoLogin]
    /\ token' = (IF token = Null THEN login[l].fresh ELSE token)
    /\ nickname' = login[l].user /\ isAuth' = TRUE
    /\ UNCHANGED <<issued, expired, cookie, call, mixed>>

(* authServer has the body of the answer, Authorization shows the pages,   *)
(* which may be shown already after another log-in.                        *)
LogInStored(l) ==
    /\ login[l].st = "answered"
    /\ login' = [login EXCEPT ![l] = NoLogin]
    /\ token' = login[l].fresh /\ nickname' = login[l].user /\ isAuth' = TRUE
    /\ UNCHANGED <<issued, expired, cookie, call, mixed>>

LogInFails(l) ==
    /\ login[l].st # "idle"
    /\ login' = [login EXCEPT ![l] = NoLogin]
    /\ UNCHANGED <<issued, expired, storage, call, mixed>>

(* Navbar's logout keeps the access token and cannot reach the cookie. *)
LogOut ==
    /\ isAuth
    /\ isAuth' = FALSE /\ nickname' = Null
    /\ UNCHANGED <<issued, expired, token, cookie, login, call, mixed>>

(* The page is loaded again: its calls are gone, their requests are not.   *)
Reload ==
    /\ login' = [l \in Logins |-> NoLogin]
    /\ call' = [k \in Calls |-> IF call[k].st \in Active
                                THEN [call[k] EXCEPT !.st = "aborted",
                                                     !.reply = IF call[k].st \in Asking THEN @ ELSE "lost"]
                                ELSE call[k]]
    /\ UNCHANGED <<issued, expired, storage, mixed>>

----------------------------------------------------------------------------
(* A function of PostService is called: it sends its first request. *)
Start(k, op) ==
    /\ isAuth /\ Room
    /\ call[k].st \in Over /\ call[k].reply # Null
    /\ call' = [call EXCEPT ![k] = [NoCall EXCEPT !.st = "first", !.op = op, !.page = nickname,
                                                  !.bearer = token, !.reply = Null]]
    /\ UNCHANGED <<issued, expired, storage, login, mixed>>

(* A server gets the request of a call.  Every endpoint checks the token   *)
(* before anything else.  Whatever happens the answer may get lost.        *)
Valid(t) == t # Null /\ t.no > expired

AtServer(k) == call[k].st \in Asking \cup {"aborted"} /\ call[k].reply = Null

Refuse(k) ==
    /\ AtServer(k) /\ ~Valid(call[k].bearer)
    /\ \E a \in {"unauthorized", "lost"} : call' = [call EXCEPT ![k].reply = a]
    /\ UNCHANGED <<issued, expired, storage, login, mixed>>

(* The write is committed; its acknowledgement may be lost. *)
Perform(k) ==
    /\ AtServer(k) /\ Valid(call[k].bearer) /\ call[k].op \in Writes
    /\ \E a \in {"ok", "error", "lost"} :
          call' = [call EXCEPT ![k].reply = a, ![k].done = @ + 1, ![k].by = call[k].bearer.user]
    /\ UNCHANGED <<issued, expired, storage, login, mixed>>

(* A read, or a write that fails.  A list asked for with no id is an SQL   *)
(* error.                                                                  *)
AnswerOnly(k) ==
    /\ AtServer(k)
    /\ \E a \in {"ok", "error", "lost"} :
          /\ a = "ok" => Valid(call[k].bearer) /\ call[k].op \notin Writes /\ call[k].named
          /\ call' = [call EXCEPT ![k].reply = a]
    /\ UNCHANGED <<issued, expired, storage, login, mixed>>

(* The answer reaches the call. *)
Settle(k) ==
    /\ call[k].st \in Asking
    /\ \/ call[k].reply = "ok" /\ call' = [call EXCEPT ![k].st = "resolved"]
       \/ /\ call[k].reply \in {"error", "lost"} \/ (call[k].st = "retry" /\ call[k].reply = "unauthorized")
          /\ call' = [call EXCEPT ![k].st = "rejected"]
    /\ UNCHANGED <<issued, expired, storage, login, mixed>>

(* Mutants: it is called for any failure; for a second 401 as well. *)
AskRefreshOnFailure(k) ==
    /\ call[k].st = "first" /\ call[k].reply \in {"unauthorized", "error", "lost"}
    /\ call' = [call EXCEPT ![k].st = "refresh", ![k].paid = cookie, ![k].reply = Null]
    /\ UNCHANGED <<issued, expired, storage, login, mixed>>

AskRefreshAgain(k) ==
    /\ call[k].st \in Asking /\ call[k].reply = "unauthorized"
    /\ call' = [call EXCEPT ![k].st = "refresh", ![k].paid = cookie, ![k].reply = Null]
    /\ UNCHANGED <<issued, expired, storage, login, mixed>>

(* refreshAccessToken is called for the first 401. *)
AskRefresh(k) ==
    /\ call[k].st = "first" /\ call[k].reply = "unauthorized"
    /\ call' = [call EXCEPT ![k].st = "refresh", ![k].paid = cookie, ![k].reply = Null]
    /\ UNCHANGED <<issued, expired, storage, login, mixed>>

(* /getNewToken: a token for the user of the cookie that came with it,     *)
(* unless that is older than seven days.                                   *)
NewToken(k) ==
    /\ call[k].st = "refresh" /\ call[k].reply = Null /\ issued < MaxTokens
    /\ \/ /\ call[k].paid # Null
          /\ issued' = issued + 1
          /\ call' = [call EXCEPT ![k].reply = "ok", ![k].fresh = Draw(call[k].paid)]
       \/ /\ \E a \in {"unauthorized", "lost"} : call' = [call EXCEPT ![k].reply = a]
          /\ UNCHANGED issued
    /\ UNCHANGED <<expired, storage, login, mixed>>

(* Its answer sets the cookie again to the one it was paid with. *)
Refreshed(k) ==
    /\ call[k].st = "refresh" /\ call[k].reply = "ok"
    /\ cookie' = call[k].paid
    /\ call' = [call EXCEPT ![k].st = "refreshed"]
    /\ UNCHANGED <<issued, expired, token, nickname, isAuth, login, mixed>>

RefreshFails(k) ==
    /\ call[k].st = "refresh" /\ call[k].reply \in {"unauthorized", "lost"}
    /\ call' = [call EXCEPT ![k].st = "rejected"]
    /\ UNCHANGED <<issued, expired, storage, login, mixed>>

(* Mutant: the request is repeated with the token it had. *)
RetryRepeatsToken(k) ==
    /\ call[k].st = "refreshed"
    /\ token' = call[k].fresh
    /\ call' = [call EXCEPT ![k].st = "retry", ![k].reply = Null]
    /\ UNCHANGED <<issued, expired, nickname, isAuth, cookie, login, mixed>>

(* The new token is stored and the request repeated with the stored token; *)
(* getPostsListById repeats it without the id.                             *)
Retry(k) ==
    /\ call[k].st = "refreshed"
    /\ token' = call[k].fresh
    /\ call' = [call EXCEPT ![k].st = "retry", ![k].bearer = token', ![k].reply = Null,
                            ![k].named = call[k].op # "getPostsListById"]
    /\ UNCHANGED <<issued, expired, nickname, isAuth, cookie, login, mixed>>

----------------------------------------------------------------------------
(* Mutant: a token may be expired before it is issued. *)
TokenExpiresEarly ==
    /\ expired <= issued
    /\ expired' = expired + 1
    /\ UNCHANGED <<issued, storage, login, call, mixed>>

(* Fifteen minutes have passed. *)
TokenExpires ==
    /\ expired < issued
    /\ expired' = expired + 1
    /\ UNCHANGED <<issued, storage, login, call, mixed>>

Client(k) == Settle(k) \/ AskRefresh(k) \/ Refreshed(k) \/ RefreshFails(k) \/ Retry(k)
Server(k) == Refuse(k) \/ Perform(k) \/ AnswerOnly(k) \/ NewToken(k)

Next == \/ \E k \in Calls : \/ \E op \in Operations : Start(k, op)
                            \/ Client(k) \/ Server(k)
        \/ \E l \in Logins : \/ \E u \in Users : LogIn(l, u)
                             \/ LogInAnswered(l) \/ LogInStored(l) \/ LogInFails(l)
        \/ LogOut \/ Reload \/ TokenExpires

Spec == Init /\ [][Next]_vars

(* The browser delivers answers and runs continuations.  That a server     *)
(* answers is not assumed: see PostServer.                                 *)
FairSpec == Spec /\ \A k \in Calls : WF_vars(Client(k))

----------------------------------------------------------------------------
TypeOK ==
    /\ issued \in 0..MaxTokens /\ expired \in 0..issued
    /\ token \in Tokens \cup {Null}
    /\ nickname \in Users \cup {Null}
    /\ isAuth \in BOOLEAN
    /\ cookie \in Users \cup {Null}
    /\ login \in [Logins -> LoginRecord]
    /\ call \in [Calls -> CallRecord]
    /\ mixed \in BOOLEAN

(* Repeating a request never repeats its effect: one call of PostService   *)
(* writes at most once, in particular a like is not turned over twice and a*)
(* post not added twice, whatever expires, fails or gets lost.  A write    *)
(* that resolved was performed.                                            *)
EffectOnce ==
    \A k \in Calls :
        /\ call[k].done <= 1
        /\ call[k].st = "resolved" /\ call[k].op \in Writes => call[k].done = 1
        /\ call[k].reply = "unauthorized" => call[k].done = 0

(* Unless a log-in began over calls or log-ins of another user that were   *)
(* still under way, every write is made for the user whose page made it,   *)
(* and the stored token and cookie are those of the user whose pages are   *)
(* shown, though log-out leaves both behind, refreshing rewrites both and a*)
(* form sent twice logs in twice.                                          *)
ActsForPage ==
    ~mixed => /\ \A k \in Calls : call[k].by \in {Null, call[k].page}
              /\ isAuth => token.user = nickname /\ cookie = nickname

(* A retry never carries an older token than the request before it, so it  *)
(* is refused only if its own token expired in between, not because a      *)
(* concurrent call stored an older one.                                    *)
RetryIsNewer ==
    [][\A k \in Calls :
           call[k].st = "refreshed" /\ call'[k].st = "retry" =>
              \/ call[k].bearer = Null
              \/ call'[k].bearer.no > call[k].bearer.no]_vars

(* A server, not the client, has the next step.  The bound on tokens never *)
(* keeps a call waiting: Room left one for it.                             *)
Waiting(k) == /\ call[k].reply = Null
              /\ call[k].st \in Asking \/ (call[k].st = "refresh" /\ issued < MaxTokens)

(* A call ends if the servers do not keep its requests for ever: it does   *)
(* not go on refreshing and asking, whatever tokens expire meanwhile.      *)
CallEnds ==
    \A k \in Calls :
        []<>~Waiting(k) => (call[k].st \in Active ~> call[k].st \notin Active)

(* The second request of a call names what the first one named: the user   *)
(* whose posts are listed, an id, a page of a list.                        *)
RetryNamesSame == \A k \in Calls : call[k].st = "retry" => call[k].named

=============================================================================
