---------------------------- MODULE ProfilePage ----------------------------
(***************************************************************************)
(* The page of a profile: UserProfile.jsx fetches the user of the path,    *)
(* the status and the photo one after the other, Profile.jsx shows them    *)
(* and keeps a status of its own, which its friend buttons set and its     *)
(* form for one's own data depends on.                                     *)
(*                                                                         *)
(* From one profile to the next the components stay mounted, and nothing   *)
(* cancels what was begun for the former one.  Profile takes over the      *)
(* status it is given only when that changes.  One's own profile is the    *)
(* one whose path is localStorage.nickname, which a change of one's data   *)
(* replaces last of all.                                                   *)
(***************************************************************************)
EXTENDS Naturals

CONSTANTS Users,      \* ids of users
          Me,         \* the user of the tab
          Nicks,      \* nicknames
          FirstNick,  \* the nickname each user has at first
          Runs,       \* slots for runs of UserProfile's effect
          Calls,      \* slots for clicks of Profile under way at one time
          MaxVisits,  \* bound on the visits
          MaxChanges, \* bound on the changes made elsewhere
          Null        \* no user yet

ASSUME PageAssumption ==
    /\ Me \in Users /\ Null \notin Users
    /\ FirstNick \in [Users -> Nicks]
    /\ \A u, v \in Users : FirstNick[u] = FirstNick[v] => u = v
    /\ MaxVisits \in Nat \ {0} /\ MaxChanges \in Nat

VARIABLES nickOf,    \* users.nickname, a unique column
          friendsOf, \* the users whom rows of friends name as friends of Me
          changes,   \* how many changes were made elsewhere
          path,      \* the nickname of the path
          localNick, \* localStorage.nickname
          status_,   \* status of UserProfile
          status,    \* status of Profile
          user,      \* the user that is shown and the nickname of the run that set it
          form,      \* the form for one's own data is open
          run,       \* runs of the effect
          call,      \* calls of Profile
          visits,    \* history: number of runs begun
          userBy,    \* history: the run that set user last
          statusBy,  \* history: the run that set status_ last
          upset      \* history: what may have spoiled the page

pageVars == <<path, status_, status, user, form, run, visits, userBy, statusBy>>
vars == <<nickOf, friendsOf, changes, localNick, pageVars, call, upset>>

Statuses == {"me", "friend", "stranger"}
Steps    == {"info", "status", "photo"}
Upsets   == {"kept", "crossed", "doubt", "half", "elsewhere"}
Shown    == [id : Users, nick : Nicks]
Run      == [st : {"idle", "asked", "ok"}, step : Steps, nick : Nicks,
             data : Users \cup {Null}, reply : Statuses, no : 0..MaxVisits]
Call     == [st : {"idle", "asked", "ok"}, op : {"make", "delete", "data", "password"},
             id : Users, nick : Nicks]

Begun(n, no) == [st |-> "asked", step |-> "info", nick |-> n, data |-> Null,
                 reply |-> "stranger", no |-> no]
NoRun  == [Begun(FirstNick[Me], 0) EXCEPT !.st = "idle"]
NoCall == [st |-> "idle", op |-> "make", id |-> Me, nick |-> FirstNick[Me]]

Running == {r \in Runs : run[r].st # "idle"}
Calling == {c \in Calls : call[c].st # "idle"}
Owners(n) == {u \in Users : nickOf[u] = n}

Init == /\ nickOf = FirstNick /\ localNick = FirstNick[Me]
        /\ friendsOf \in SUBSET (Users \ {Me}) /\ changes = 0
        /\ path \in {FirstNick[u] : u \in Users}
        /\ status_ = "stranger" /\ status = "stranger" /\ user = Null /\ form = FALSE
        /\ \E r \in Runs : run = [q \in Runs |-> IF q = r THEN Begun(path, 1) ELSE NoRun]
        /\ call = [c \in Calls |-> NoCall]
        /\ visits = 1 /\ userBy = 0 /\ statusBy = 0 /\ upset = {}

----------------------------------------------------------------------------
(* Another nickname in the path runs the effect again, the same does not.  *)
GoTo(n) ==
    /\ path' = n
    /\ \/ n = path /\ UNCHANGED <<run, visits>>
       \/ /\ n # path /\ visits < MaxVisits /\ visits' = visits + 1
          /\ \E r \in Runs : run[r].st = "idle" /\ run' = [run EXCEPT ![r] = Begun(n, visits')]

(* The page is left with a status that a button set since it was given.    *)
Left(n) == {u \in {"kept"} : n # path /\ status # status_}

Visit(n) ==
    /\ n # path /\ GoTo(n)
    /\ upset' = upset \cup Left(n) \cup {u \in {"crossed"} : Calling # {}}
    /\ UNCHANGED <<nickOf, friendsOf, changes, localNick, status_, status, user, form, call,
                   userBy, statusBy>>

(* Mutant: a nickname that nobody has is answered with no user. *)
FetchInfoEmpty(r) ==
    \E u \in IF Owners(run[r].nick) = {} THEN {Null} ELSE Owners(run[r].nick) :
        run' = [run EXCEPT ![r].st = "ok", ![r].data = u]

(* A nickname that nobody has is not found. *)
FetchInfo(r) == \E u \in Owners(run[r].nick) : run' = [run EXCEPT ![r].st = "ok", ![r].data = u]

(* PhotogramServer answers a run. *)
Serve(r) ==
    /\ run[r].st = "asked"
    /\ \/ run[r].step = "info" /\ FetchInfo(r)
       \/ /\ run[r].step = "status"
          /\ run' = [run EXCEPT ![r].st = "ok",
                                ![r].reply = IF run[r].data \in friendsOf THEN "friend" ELSE "stranger"]
       \/ /\ run[r].step = "photo" /\ Owners(run[r].nick) # {}
          /\ run' = [run EXCEPT ![r].st = "ok"]
    /\ UNCHANGED <<nickOf, friendsOf, changes, localNick, path, status_, status, user, form,
                   call, visits, userBy, statusBy, upset>>

(* The run throws: the error is logged, what was set so far stays. *)
Break(r) ==
    /\ run[r].st = "asked"
    /\ run' = [run EXCEPT ![r] = NoRun]
    /\ UNCHANGED <<nickOf, friendsOf, changes, localNick, path, status_, status, user, form,
                   call, visits, userBy, statusBy, upset>>

Ask(r, step) == run' = [run EXCEPT ![r].st = "asked", ![r].step = step]

(* Mutant: Profile begins with the status it is given and keeps it. *)
SetStatusOnce(r, s) ==
    /\ status_' = s
    /\ status' = IF user = Null THEN s ELSE status
    /\ statusBy' = run[r].no
    /\ upset' = upset \ {u \in {"kept"} : s # status_}

(* setStatus of UserProfile, and the effect of Profile that follows it if  *)
(* the value is another: what a button set is over then.                   *)
SetStatus(r, s) ==
    /\ status_' = s
    /\ status' = IF s # status_ THEN s ELSE status
    /\ statusBy' = run[r].no
    /\ upset' = upset \ {u \in {"kept"} : s # status_}

(* The effect goes on: status after info, or at once for one's own path;   *)
(* then the photo; then user and photo are set together.                   *)
Arrive(r) ==
    /\ run[r].st = "ok"
    /\ \/ /\ run[r].step = "info" /\ run[r].nick = localNick
          /\ SetStatus(r, "me") /\ Ask(r, "photo") /\ UNCHANGED <<user, userBy>>
       \/ /\ run[r].step = "info" /\ run[r].nick # localNick
          /\ Ask(r, "status") /\ UNCHANGED <<status_, status, statusBy, user, userBy, upset>>
       \/ /\ run[r].step = "status"
          /\ SetStatus(r, run[r].reply) /\ Ask(r, "photo") /\ UNCHANGED <<user, userBy>>
       \/ /\ run[r].step = "photo"
          /\ user' = [id |-> run[r].data, nick |-> run[r].nick] /\ userBy' = run[r].no
          /\ run' = [run EXCEPT ![r] = NoRun]
          /\ UNCHANGED <<status_, status, statusBy, upset>>
    /\ UNCHANGED <<nickOf, friendsOf, changes, localNick, path, form, call, visits>>

----------------------------------------------------------------------------
(* A click on the page that is shown, perhaps while the next one is being  *)
(* fetched or another call is under way.                                   *)
Click(c, op, n) ==
    /\ user # Null /\ call[c].st = "idle"
    /\ call' = [call EXCEPT ![c] = [st |-> "asked", op |-> op, id |-> user.id, nick |-> n]]
    /\ upset' = upset \cup {u \in {"crossed"} : Running # {} \/ Calling # {}}
    /\ UNCHANGED <<nickOf, friendsOf, changes, localNick, pageVars>>

(* addFriend and delFriend. *)
ClickFriend(c) ==
    /\ ~form
    /\ \/ status = "stranger" /\ Click(c, "make", FirstNick[Me])
       \/ status = "friend" /\ Click(c, "delete", FirstNick[Me])

(* changeProfile, and the way back. *)
TurnForm ==
    /\ form \/ (user # Null /\ status = "me")
    /\ form' = ~form
    /\ UNCHANGED <<nickOf, friendsOf, changes, localNick, path, status_, status, user, run, call,
                   visits, userBy, statusBy, upset>>

(* handleSendToServerData up to its first await. *)
SendData(c, n) == form /\ Click(c, "data", n)

(* PhotogramServer: a row of friends, or the row of the token's user.  A   *)
(* nickname that is taken is refused (see CallFails).                      *)
MakeFriend(c) == /\ call[c].op = "make"
                 /\ friendsOf' = friendsOf \cup {call[c].id} /\ UNCHANGED nickOf
DeleteFriend(c) == /\ call[c].op = "delete"
                   /\ friendsOf' = friendsOf \ {call[c].id} /\ UNCHANGED nickOf
UpdateData(c) == /\ call[c].op = "data" /\ Owners(call[c].nick) \subseteq {Me}
                 /\ nickOf' = [nickOf EXCEPT ![Me] = call[c].nick] /\ UNCHANGED friendsOf
UpdatePassword(c) == call[c].op = "password" /\ UNCHANGED <<nickOf, friendsOf>>

(* What the loss of the answer to a call leaves open. *)
Open(c) == CASE call[c].op = "password" -> "half" [] OTHER -> "doubt"

Perform(c) ==
    /\ call[c].st = "asked"
    /\ MakeFriend(c) \/ DeleteFriend(c) \/ UpdateData(c) \/ UpdatePassword(c)
    /\ \/ call' = [call EXCEPT ![c].st = "ok"] /\ UNCHANGED upset
       \/ call' = [call EXCEPT ![c] = NoCall] /\ upset' = upset \cup {Open(c)}
    /\ UNCHANGED <<changes, localNick, pageVars>>

(* It is refused or never reaches the server: a toast, or nothing at all.  *)
(* What a password that fails leaves done is "half".                       *)
CallFails(c) ==
    /\ call[c].st = "asked"
    /\ call' = [call EXCEPT ![c] = NoCall]
    /\ upset' = IF call[c].op = "password" THEN upset \cup {"half"} ELSE upset
    /\ UNCHANGED <<nickOf, friendsOf, changes, localNick, pageVars>>

(* The status is set for whoever is shown by now. *)
FriendArrives(c) ==
    /\ call[c].st = "ok" /\ call[c].op \in {"make", "delete"}
    /\ status' = IF call[c].op = "make" THEN "friend" ELSE "stranger"
    /\ call' = [call EXCEPT ![c] = NoCall]
    /\ UNCHANGED <<nickOf, friendsOf, changes, localNick, path, status_, user, form, run,
                   visits, userBy, statusBy, upset>>

(* A new password, if there is one, follows the data. *)
DataArrives(c) ==
    /\ call[c].st = "ok" /\ call[c].op = "data"
    /\ call' = [call EXCEPT ![c].st = "asked", ![c].op = "password"]
    /\ UNCHANGED <<nickOf, friendsOf, changes, localNick, pageVars, upset>>

(* Mutant: the page is left before the new nickname is stored. *)
SavedLeavesNick(c) ==
    /\ call[c].st = "ok"
    /\ call[c].op \in {"data", "password"}
    /\ form' = FALSE
    /\ GoTo(call[c].nick) /\ upset' = upset \cup Left(call[c].nick)
    /\ call' = [call EXCEPT ![c] = NoCall]
    /\ UNCHANGED <<nickOf, friendsOf, changes, localNick, status_, status, user, userBy,
                   statusBy>>

(* All is saved: the nickname is stored and "my_prifile" clicked, which    *)
(* navigates to it.                                                        *)
Saved(c) ==
    /\ call[c].st = "ok"
    /\ call[c].op \in {"data", "password"}
    /\ localNick' = call[c].nick
    /\ form' = FALSE
    /\ GoTo(localNick') /\ upset' = upset \cup Left(localNick')
    /\ call' = [call EXCEPT ![c] = NoCall]
    /\ UNCHANGED <<nickOf, friendsOf, changes, status_, status, user, userBy, statusBy>>

----------------------------------------------------------------------------
(* Other users change their nickname; Me does so, or changes friends, in   *)
(* another browser.                                                        *)
Elsewhere ==
    /\ changes < MaxChanges /\ changes' = changes + 1
    /\ \/ \E u \in Users, n \in Nicks :
             /\ Owners(n) = {} /\ nickOf' = [nickOf EXCEPT ![u] = n]
             /\ upset' = upset \cup {w \in {"elsewhere"} : u = Me}
             /\ UNCHANGED friendsOf
       \/ \E u \in Users : /\ friendsOf' = (friendsOf \ {u}) \cup ({u} \ friendsOf)
                           /\ upset' = upset \cup {"elsewhere"}
                           /\ UNCHANGED nickOf
    /\ UNCHANGED <<localNick, pageVars, call>>

Next == \/ \E n \in Nicks : Visit(n)
        \/ \E r \in Runs : Serve(r) \/ Break(r) \/ Arrive(r)
        \/ TurnForm
        \/ \E c \in Calls : \/ ClickFriend(c)
                            \/ \E n \in Nicks : SendData(c, n)
                            \/ Perform(c) \/ CallFails(c)
                            \/ FriendArrives(c) \/ DataArrives(c) \/ Saved(c)
        \/ Elsewhere

Spec == Init /\ [][Next]_vars

----------------------------------------------------------------------------
Untouched(by) == upset \cap by = {}

PageTypeOK ==
    /\ nickOf \in [Users -> Nicks] /\ friendsOf \subseteq Users /\ changes \in 0..MaxChanges
    /\ path \in Nicks /\ localNick \in Nicks
    /\ status_ \in Statuses /\ status \in Statuses
    /\ user \in Shown \cup {Null} /\ form \in BOOLEAN
    /\ run \in [Runs -> Run] /\ call \in [Calls -> Call]
    /\ {visits, userBy, statusBy} \subseteq 0..MaxVisits
    /\ upset \subseteq Upsets

Truth(u) == IF u = Me THEN "me" ELSE IF u \in friendsOf THEN "friend" ELSE "stranger"

(* Whenever user and status were last set by the same run, the buttons are *)
(* those for the user that is shown, however many runs are under way, end  *)
(* late or fail: unless a page was left after a click on its friend button *)
(* and no other status than it was given first was fetched since ("kept"), *)
(* or a click crossed a visit, or an answer got lost.  Who is shown by the *)
(* newest run is the user of the path.                                     *)
StatusRight ==
    /\ Calling = {} /\ user # Null /\ userBy = statusBy
    /\ Untouched({"kept", "crossed", "doubt", "half", "elsewhere"})
    => status = Truth(user.id) /\ (userBy = visits => user.nick = path)

(* The nickname that tells one's own profile is the one the database has,  *)
(* once no change is under way: unless the data was saved and the password *)
(* that should follow was not, or an answer got lost, or two changes       *)
(* crossed, or the nickname was changed elsewhere.                         *)
NickKept ==
    /\ \A c \in Calling : call[c].op \notin {"data", "password"}
    /\ Untouched({"crossed", "doubt", "half", "elsewhere"})
    => localNick = nickOf[Me]
=============================================================================
