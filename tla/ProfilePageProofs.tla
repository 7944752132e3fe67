------------------------- MODULE ProfilePageProofs -------------------------
(* Proofs that the page of a profile shows the right buttons and knows     *)
(* which profile is one's own, for any number of visits, users and clicks. *)
EXTENDS ProfilePage, TLAPS

(* The inductive invariant.  Runs are told apart by their numbers, the     *)
(* newest is for the path, and all know their user once they were told.    *)
RunsSound ==
    /\ \A q, r \in Running : run[q].no = run[r].no => q = r
    /\ \A r \in Running :
          /\ run[r].no \in 1..visits /\ run[r].no # userBy
          /\ run[r].step # "photo" => run[r].no # statusBy
          /\ run[r].no = visits => run[r].nick = path
          /\ run[r].step # "info" \/ run[r].st = "ok" => run[r].data \in Users
    /\ userBy <= visits /\ statusBy <= visits
    /\ user # Null /\ userBy = visits => user.nick = path

Clean == Untouched({"crossed", "doubt", "half", "elsewhere"})

(* One thing at a time: no call crosses another or a run. *)
OneAtATime == /\ \A c, d \in Calling : c = d
              /\ Running = {} \/ Calling = {}

(* The form's data is in the database and not yet in localStorage. *)
Written(c) == /\ call[c].st # "idle"
              /\ \/ call[c].op = "password"
                 \/ call[c].op = "data" /\ call[c].st = "ok"

NickFollows ==
    /\ \A u, v \in Users : nickOf[u] = nickOf[v] => u = v
    /\ \A c \in Calls : Written(c) => nickOf[Me] = call[c].nick
    /\ (\A c \in Calls : ~Written(c)) => localNick = nickOf[Me]

(* What a run has found out so far. *)
Informed(r) ==
    /\ run[r].step # "info" \/ run[r].st = "ok"
          => (run[r].nick = localNick <=> run[r].data = Me)
    /\ run[r].step = "status" => run[r].data # Me
    /\ run[r].step = "status" /\ run[r].st = "ok" => run[r].reply = Truth(run[r].data)
    /\ run[r].no = statusBy /\ "kept" \notin upset => status = Truth(run[r].data)

Befriends(c) == call[c].st # "idle" /\ call[c].op \in {"make", "delete"}

ShownTruly == user # Null /\ userBy = statusBy /\ "kept" \notin upset

ClicksAgree ==
    /\ \A c \in Calls : Befriends(c) =>
          /\ user # Null /\ call[c].id = user.id
          /\ call[c].st = "ok" => (call[c].op = "make" <=> user.id \in friendsOf)
          /\ ShownTruly => user.id # Me
    /\ ShownTruly /\ (\A c \in Calls : Befriends(c) => call[c].st # "ok") => status = Truth(user.id)

AllInformed == \A r \in Running : Informed(r)

(* While a run is under way Profile's status is the one it was given: what *)
(* a button had set before was noted when the page was left.               *)
StatusTaken == Running # {} /\ "kept" \notin upset => status = status_

Orderly == OneAtATime /\ NickFollows /\ AllInformed /\ ClicksAgree /\ StatusTaken

PageInv == PageTypeOK /\ RunsSound /\ (Clean => Orderly)

----------------------------------------------------------------------------
(* The records of runs and calls that have not begun are of their types.  *)
LEMMA EmptyRecords ==
           /\ NoRun \in Run /\ NoCall \in Call
           /\ \A n \in Nicks, no \in 0..MaxVisits : Begun(n, no) \in Run
<1>1. FirstNick[Me] \in Nicks /\ Me \in Users /\ 0 \in 0..MaxVisits
    BY PageAssumption
<1>2. \A n \in Nicks, no \in 0..MaxVisits : Begun(n, no) \in Run
    BY DEF Begun, Run, Steps, Statuses
<1> QED
    BY <1>1, <1>2 DEF NoRun, NoCall, Run, Call, Begun

(* At first the page has no user, and one run begins. *)
LEMMA PageInitial == Init => PageInv
<1> SUFFICES ASSUME Init PROVE PageInv
    OBVIOUS
<1> USE PageAssumption
<1>1. PICK r \in Runs : run = [q \in Runs |-> IF q = r THEN Begun(path, 1) ELSE NoRun]
    BY DEF Init
<1>2. Running = {r} /\ run[r] = Begun(path, 1) /\ Calling = {}
    BY <1>1 DEF Init, Running, Calling, Begun, NoRun, NoCall
<1>3. /\ visits = 1 /\ userBy = 0 /\ statusBy = 0 /\ user = Null /\ upset = {}
      /\ path \in Nicks /\ nickOf = FirstNick /\ localNick = FirstNick[Me]
    BY DEF Init
<1>4. PageTypeOK
  <2>1. NoRun \in Run /\ NoCall \in Call /\ Begun(path, 1) \in Run
      BY <1>3, EmptyRecords
  <2>2. run \in [Runs -> Run] /\ call \in [Calls -> Call]
      BY <2>1, <1>1 DEF Init
  <2>3. {visits, userBy, statusBy} \subseteq 0..MaxVisits
      BY <1>3
  <2>4. friendsOf \subseteq Users /\ changes \in 0..MaxChanges /\ nickOf \in [Users -> Nicks]
      BY <1>3 DEF Init
  <2>5. status_ \in Statuses /\ status \in Statuses /\ form \in BOOLEAN
      BY DEF Init, Statuses
  <2>6. localNick \in Nicks /\ user \in Shown \cup {Null} /\ upset \subseteq Upsets
      BY <1>3
  <2> QED
      BY <1>3, <2>2, <2>3, <2>4, <2>5, <2>6 DEF PageTypeOK
<1>5. RunsSound
    BY <1>2, <1>3 DEF RunsSound, Begun
<1>6. OneAtATime
    BY <1>2 DEF OneAtATime
<1>7. NickFollows
    BY <1>3 DEF NickFollows, Init, Written, NoCall
<1>8. AllInformed
    BY <1>2, <1>3 DEF AllInformed, Informed, Begun
<1>9. ClicksAgree
    BY <1>3 DEF ClicksAgree, ShownTruly, Init, Befriends, NoCall
<1>10. StatusTaken
    BY DEF StatusTaken, Init
<1> QED
    BY <1>4, <1>5, <1>6, <1>7, <1>8, <1>9, <1>10 DEF PageInv, Orderly

----------------------------------------------------------------------------
(* A visit begins one run at most, with a new number. *)
LEMMA GoToBegins ==
    ASSUME PageTypeOK, NEW n \in Nicks, GoTo(n)
    PROVE  /\ path' = n /\ run' \in [Runs -> Run] /\ visits' \in 0..MaxVisits
           /\ \/ n = path /\ run' = run /\ visits' = visits
              \/ /\ visits' = visits + 1
                 /\ \E r \in Runs \ Running :
                       /\ run' = [run EXCEPT ![r] = Begun(n, visits')]
                       /\ Running' = Running \cup {r}
<1>1. run \in [Runs -> Run] /\ visits \in 0..MaxVisits /\ MaxVisits \in Nat
    BY PageAssumption DEF PageTypeOK
<1>2. CASE n = path /\ UNCHANGED <<run, visits>>
    BY <1>1, <1>2 DEF GoTo
<1>3. CASE ~(n = path /\ UNCHANGED <<run, visits>>)
  <2>1. /\ path' = n /\ visits' = visits + 1 /\ visits < MaxVisits
        /\ \E r \in Runs : run[r].st = "idle" /\ run' = [run EXCEPT ![r] = Begun(n, visits')]
      BY <1>3 DEF GoTo
  <2>2. visits' \in 0..MaxVisits
      BY <1>1, <2>1
  <2>3. PICK r \in Runs : run[r].st = "idle" /\ run' = [run EXCEPT ![r] = Begun(n, visits')]
      BY <2>1
  <2>4. Begun(n, visits') \in Run
      BY <2>2, EmptyRecords
  <2>5. Running' = Running \cup {r} /\ r \notin Running
      BY <1>1, <2>3 DEF Running, Begun
  <2> QED
      BY <1>1, <2>1, <2>2, <2>3, <2>4, <2>5
<1> QED
    BY <1>2, <1>3

(* A server or the browser moves one run on, or ends it. *)
LEMMA RunMoves ==
    ASSUME PageTypeOK, NEW r \in Runs, Serve(r) \/ Break(r) \/ Arrive(r)
    PROVE  /\ run' \in [Runs -> Run] /\ r \in Running /\ Running' \subseteq Running
           /\ \A q \in Running' : /\ run'[q].no = run[q].no /\ run'[q].nick = run[q].nick
                                  /\ q # r => run'[q] = run[q]
<1>1. run \in [Runs -> Run] /\ Null \notin Users
    BY PageAssumption DEF PageTypeOK
<1>2. NoRun \in Run /\ NoRun.st = "idle"
    BY EmptyRecords DEF NoRun, Begun
<1>3. r \in Running
    BY DEF Serve, Break, Arrive, Running
<1>4. CASE run' = [run EXCEPT ![r] = NoRun]
    BY <1>1, <1>2, <1>3, <1>4 DEF Running
<1>4a. ASSUME NEW m \in Run, m.st # "idle", m.no = run[r].no, m.nick = run[r].nick,
              run' = [run EXCEPT ![r] = m]
      PROVE  /\ run' \in [Runs -> Run] /\ Running' \subseteq Running
             /\ \A q \in Running' : /\ run'[q].no = run[q].no /\ run'[q].nick = run[q].nick
                                    /\ q # r => run'[q] = run[q]
    BY <1>1, <1>3, <1>4a DEF Running
<1>5. ASSUME NEW d \in Users, run' = [run EXCEPT ![r].st = "ok", ![r].data = d]
      PROVE  /\ run' \in [Runs -> Run] /\ Running' \subseteq Running
             /\ \A q \in Running' : /\ run'[q].no = run[q].no /\ run'[q].nick = run[q].nick
                                    /\ q # r => run'[q] = run[q]
  <2> DEFINE m == [run[r] EXCEPT !.st = "ok", !.data = d]
  <2>1. m \in Run /\ m.st # "idle" /\ m.no = run[r].no /\ m.nick = run[r].nick
      BY <1>1 DEF Run
  <2>2. run' = [run EXCEPT ![r] = m]
      BY <1>1, <1>5 DEF Run
  <2> HIDE DEF m
  <2> QED
      BY <2>1, <2>2, <1>4a
<1>6. ASSUME NEW s \in Statuses, run' = [run EXCEPT ![r].st = "ok", ![r].reply = s]
      PROVE  /\ run' \in [Runs -> Run] /\ Running' \subseteq Running
             /\ \A q \in Running' : /\ run'[q].no = run[q].no /\ run'[q].nick = run[q].nick
                                    /\ q # r => run'[q] = run[q]
  <2> DEFINE m == [run[r] EXCEPT !.st = "ok", !.reply = s]
  <2>1. m \in Run /\ m.st # "idle" /\ m.no = run[r].no /\ m.nick = run[r].nick
      BY <1>1 DEF Run
  <2>2. run' = [run EXCEPT ![r] = m]
      BY <1>1, <1>6 DEF Run
  <2> HIDE DEF m
  <2> QED
      BY <2>1, <2>2, <1>4a
<1>7. ASSUME run' = [run EXCEPT ![r].st = "ok"]
      PROVE  /\ run' \in [Runs -> Run] /\ Running' \subseteq Running
             /\ \A q \in Running' : /\ run'[q].no = run[q].no /\ run'[q].nick = run[q].nick
                                    /\ q # r => run'[q] = run[q]
  <2> DEFINE m == [run[r] EXCEPT !.st = "ok"]
  <2>1. m \in Run /\ m.st # "idle" /\ m.no = run[r].no /\ m.nick = run[r].nick
      BY <1>1 DEF Run
  <2>2. run' = [run EXCEPT ![r] = m]
      BY <1>1, <1>7 DEF Run
  <2> HIDE DEF m
  <2> QED
      BY <2>1, <2>2, <1>4a
<1>8. ASSUME NEW p \in Steps, run' = [run EXCEPT ![r].st = "asked", ![r].step = p]
      PROVE  /\ run' \in [Runs -> Run] /\ Running' \subseteq Running
             /\ \A q \in Running' : /\ run'[q].no = run[q].no /\ run'[q].nick = run[q].nick
                                    /\ q # r => run'[q] = run[q]
  <2> DEFINE m == [run[r] EXCEPT !.st = "asked", !.step = p]
  <2>1. m \in Run /\ m.st # "idle" /\ m.no = run[r].no /\ m.nick = run[r].nick
      BY <1>1 DEF Run
  <2>2. run' = [run EXCEPT ![r] = m]
      BY <1>1, <1>8 DEF Run
  <2> HIDE DEF m
  <2> QED
      BY <2>1, <2>2, <1>4a
<1>9. CASE Serve(r)
  <2>1. CASE FetchInfo(r)
      BY <2>1, <1>3, <1>5 DEF FetchInfo, Owners
  <2>2. CASE run' = [run EXCEPT ![r].st = "ok",
                                ![r].reply = IF run[r].data \in friendsOf THEN "friend" ELSE "stranger"]
    <3>1. \E s \in Statuses : run' = [run EXCEPT ![r].st = "ok", ![r].reply = s]
        BY <2>2 DEF Statuses
    <3> QED
        BY <3>1, <1>3, <1>6
  <2>3. CASE run' = [run EXCEPT ![r].st = "ok"]
      BY <2>3, <1>3, <1>7
  <2> QED
      BY <2>1, <2>2, <2>3, <1>9 DEF Serve
<1>10. CASE Break(r)
    BY <1>3, <1>4, <1>10 DEF Break
<1>11. CASE Arrive(r)
  <2>1. ASSUME NEW p \in Steps, Ask(r, p)
        PROVE  /\ run' \in [Runs -> Run] /\ Running' \subseteq Running
               /\ \A q \in Running' : /\ run'[q].no = run[q].no /\ run'[q].nick = run[q].nick
                                      /\ q # r => run'[q] = run[q]
      BY <2>1, <1>8 DEF Ask
  <2>2. "photo" \in Steps /\ "status" \in Steps
      BY DEF Steps
  <2>3. Ask(r, "photo") \/ Ask(r, "status") \/ run' = [run EXCEPT ![r] = NoRun]
      BY <1>11 DEF Arrive
  <2> QED
      BY <2>1, <2>2, <2>3, <1>4, <1>3
<1> QED
    BY <1>3, <1>9, <1>10, <1>11

(* What the steps of a run do to it and to the page, one by one.          *)
LEMMA ServeSteps ==
    ASSUME PageTypeOK, NEW r \in Runs, Serve(r)
    PROVE  /\ UNCHANGED <<nickOf, friendsOf, changes, localNick, path, status_, status, user, form,
                          call, visits, userBy, statusBy, upset>>
           /\ run'[r].st = "ok" /\ run'[r].step = run[r].step /\ run[r].st = "asked"
           /\ run[r].step = "info" => run'[r].data \in Users /\ nickOf[run'[r].data] = run[r].nick
           /\ run[r].step # "info" => run'[r].data = run[r].data
           /\ run[r].step = "status" =>
                 run'[r].reply = IF run[r].data \in friendsOf THEN "friend" ELSE "stranger"
<1>1. run \in [Runs -> Run] /\ run[r] \in Run
    BY DEF PageTypeOK
<1>2. CASE run[r].step = "info" /\ FetchInfo(r)
  <2>1. PICK d \in Users : nickOf[d] = run[r].nick /\ run' = [run EXCEPT ![r].st = "ok", ![r].data = d]
      BY <1>2 DEF FetchInfo, Owners
  <2> DEFINE m == [run[r] EXCEPT !.st = "ok", !.data = d]
  <2>2. run' = [run EXCEPT ![r] = m] /\ m.st = "ok" /\ m.step = "info" /\ m.data = d
      BY <1>1, <1>2, <2>1 DEF Run
  <2> HIDE DEF m
  <2>3. run'[r] = m
      BY <1>1, <2>2
  <2> QED
      BY <1>2, <2>1, <2>2, <2>3, Serve(r) DEF Serve
<1>3. CASE run[r].step = "status" /\ run' = [run EXCEPT ![r].st = "ok",
                                ![r].reply = IF run[r].data \in friendsOf THEN "friend" ELSE "stranger"]
    BY <1>1, <1>3, Serve(r) DEF Serve, Run
<1>4. CASE run[r].step = "photo" /\ run' = [run EXCEPT ![r].st = "ok"]
    BY <1>1, <1>4, Serve(r) DEF Serve, Run
<1> QED
    BY <1>2, <1>3, <1>4, Serve(r) DEF Serve

(* Every step of a run that goes on in the browser. *)
LEMMA ArriveSteps ==
    ASSUME PageTypeOK, NEW r \in Runs, Arrive(r)
    PROVE  /\ UNCHANGED <<nickOf, friendsOf, changes, localNick, path, form, call, visits>>
           /\ run[r].st = "ok" /\ upset' \cup {"kept"} = upset \cup {"kept"}
           /\ \/ /\ run[r].step \in {"info", "status"} /\ run'[r].step = "photo"
                 /\ run'[r].data = run[r].data
                 /\ IF run[r].step = "info" THEN run[r].nick = localNick /\ SetStatus(r, "me")
                                            ELSE SetStatus(r, run[r].reply)
                 /\ UNCHANGED <<user, userBy>>
              \/ /\ run[r].step = "info" /\ run[r].nick # localNick
                 /\ run'[r].step = "status" /\ run'[r].st = "asked" /\ run'[r].data = run[r].data
                 /\ UNCHANGED <<status_, status, statusBy, user, userBy, upset>>
              \/ /\ run[r].step = "photo" /\ r \notin Running'
                 /\ user' = [id |-> run[r].data, nick |-> run[r].nick] /\ userBy' = run[r].no
                 /\ UNCHANGED <<status_, status, statusBy, upset>>
<1>1. run \in [Runs -> Run] /\ run[r] \in Run
    BY DEF PageTypeOK
<1>2. ASSUME NEW p \in Steps, Ask(r, p)
      PROVE  run'[r].step = p /\ run'[r].st = "asked" /\ run'[r].data = run[r].data
    BY <1>1, <1>2 DEF Ask, Run
<1>3. "photo" \in Steps /\ "status" \in Steps
    BY DEF Steps
<1>4. \A s : SetStatus(r, s) => upset' \cup {"kept"} = upset \cup {"kept"}
    BY DEF SetStatus
<1>5. UNCHANGED <<nickOf, friendsOf, changes, localNick, path, form, call, visits>> /\ run[r].st = "ok"
    BY DEF Arrive
<1>6. CASE run[r].step = "info" /\ run[r].nick = localNick /\ SetStatus(r, "me")
             /\ Ask(r, "photo") /\ UNCHANGED <<user, userBy>>
    BY <1>2, <1>3, <1>4, <1>5, <1>6
<1>7. CASE run[r].step = "info" /\ run[r].nick # localNick /\ Ask(r, "status")
             /\ UNCHANGED <<status_, status, statusBy, user, userBy, upset>>
    BY <1>2, <1>3, <1>5, <1>7
<1>8. CASE run[r].step = "status" /\ SetStatus(r, run[r].reply) /\ Ask(r, "photo")
             /\ UNCHANGED <<user, userBy>>
    BY <1>2, <1>3, <1>4, <1>5, <1>8
<1>9. CASE /\ run[r].step = "photo"
           /\ user' = [id |-> run[r].data, nick |-> run[r].nick] /\ userBy' = run[r].no
           /\ run' = [run EXCEPT ![r] = NoRun]
           /\ UNCHANGED <<status_, status, statusBy, upset>>
  <2>1. r \notin Running'
      BY <1>1, <1>9 DEF Running, NoRun, Begun
  <2> QED
      BY <2>1, <1>5, <1>9
<1> QED
    BY <1>6, <1>7, <1>8, <1>9 DEF Arrive
----------------------------------------------------------------------------
(* Types: first what the actions do to the calls. *)
LEMMA CallTypes ==
    ASSUME PageTypeOK, NEW c \in Calls,
           \/ call' = [call EXCEPT ![c] = NoCall]
           \/ call' = [call EXCEPT ![c].st = "ok"]
           \/ call' = [call EXCEPT ![c].st = "asked", ![c].op = "password"]
    PROVE  call' \in [Calls -> Call]
<1>1. call \in [Calls -> Call] /\ NoCall \in Call
    BY EmptyRecords DEF PageTypeOK
<1>2. CASE call' = [call EXCEPT ![c] = NoCall]
    BY <1>1, <1>2
<1>3. CASE call' = [call EXCEPT ![c].st = "ok"]
    BY <1>1, <1>3 DEF Call
<1>4. CASE call' = [call EXCEPT ![c].st = "asked", ![c].op = "password"]
    BY <1>1, <1>4 DEF Call
<1> QED
    BY <1>2, <1>3, <1>4

LEMMA ClickTypes ==
    ASSUME PageTypeOK, NEW c \in Calls, NEW n \in Nicks,
           NEW op \in {"make", "delete", "data"}, Click(c, op, n)
    PROVE  PageTypeOK'
<1>1. user \in Shown
    BY DEF Click, PageTypeOK
<1>2. [st |-> "asked", op |-> op, id |-> user.id, nick |-> n] \in Call
    BY <1>1 DEF Shown, Call
<1>3. call' \in [Calls -> Call]
    BY <1>2 DEF Click, PageTypeOK
<1>4. upset' \subseteq Upsets
    BY DEF Click, PageTypeOK, Upsets
<1> QED
    BY <1>3, <1>4 DEF Click, PageTypeOK, pageVars

(* Every step keeps the types. *)
LEMMA TypeStep ==
    ASSUME PageTypeOK, RunsSound, [Next]_vars
    PROVE  PageTypeOK'
<1> USE PageAssumption
<1>1. CASE UNCHANGED vars
    BY <1>1 DEF vars, pageVars, PageTypeOK
<1>2. ASSUME NEW n \in Nicks, Visit(n) PROVE PageTypeOK'
  <2>1. GoTo(n) /\ upset' \subseteq Upsets
      BY <1>2 DEF Visit, PageTypeOK, Upsets, Left
  <2>2. path' \in Nicks /\ run' \in [Runs -> Run] /\ visits' \in 0..MaxVisits
      BY <2>1, GoToBegins
  <2> QED
      BY <1>2, <2>1, <2>2 DEF Visit, PageTypeOK
<1>3. ASSUME NEW r \in Runs, Serve(r) \/ Break(r) PROVE PageTypeOK'
  <2>1. run' \in [Runs -> Run]
      BY <1>3, RunMoves
  <2> QED
      BY <1>3, <2>1 DEF Serve, Break, PageTypeOK
<1>4. ASSUME NEW r \in Runs, Arrive(r) PROVE PageTypeOK'
  <2>1. run' \in [Runs -> Run] /\ r \in Running /\ run[r] \in Run
      BY <1>4, RunMoves DEF PageTypeOK, Running
  <2>2. run[r].st = "ok" /\ run[r].data \in Users /\ run[r].reply \in Statuses
        /\ run[r].no \in 0..MaxVisits /\ run[r].nick \in Nicks
      BY <1>4, <2>1 DEF Arrive, RunsSound, Run
  <2>3. ASSUME NEW s \in Statuses, SetStatus(r, s)
        PROVE  /\ status_' \in Statuses /\ status' \in Statuses
               /\ statusBy' \in 0..MaxVisits /\ upset' \subseteq Upsets
      BY <2>2, <2>3 DEF SetStatus, PageTypeOK, Upsets
  <2>4. "me" \in Statuses
      BY DEF Statuses
  <2>5. UNCHANGED <<nickOf, friendsOf, changes, localNick, path, form, call, visits>>
      BY <1>4 DEF Arrive
  <2>6. \/ SetStatus(r, "me") \/ SetStatus(r, run[r].reply)
        \/ UNCHANGED <<status_, status, statusBy, upset>>
      BY <1>4 DEF Arrive
  <2>7. /\ status_' \in Statuses /\ status' \in Statuses
        /\ statusBy' \in 0..MaxVisits /\ upset' \subseteq Upsets
      BY <2>2, <2>3, <2>4, <2>6 DEF PageTypeOK
  <2>8. [id |-> run[r].data, nick |-> run[r].nick] \in Shown
      BY <2>2 DEF Shown
  <2>9. user' \in Shown \cup {Null} /\ userBy' \in 0..MaxVisits
      BY <1>4, <2>2, <2>8 DEF Arrive, PageTypeOK
  <2> QED
      BY <2>1, <2>5, <2>7, <2>9 DEF PageTypeOK
<1>5. CASE TurnForm
    BY <1>5 DEF TurnForm, PageTypeOK
<1>6. ASSUME NEW c \in Calls, ClickFriend(c) PROVE PageTypeOK'
    BY <1>6, ClickTypes DEF ClickFriend
<1>7. ASSUME NEW c \in Calls, NEW n \in Nicks, SendData(c, n) PROVE PageTypeOK'
    BY <1>7, ClickTypes DEF SendData
<1>8. ASSUME NEW c \in Calls, Perform(c) PROVE PageTypeOK'
  <2>1. call[c].id \in Users /\ call[c].nick \in Nicks
      BY DEF PageTypeOK, Call
  <2>2. friendsOf' \subseteq Users /\ nickOf' \in [Users -> Nicks]
      BY <1>8, <2>1 DEF Perform, MakeFriend, DeleteFriend, UpdateData, UpdatePassword, PageTypeOK
  <2>3. call' \in [Calls -> Call]
      BY <1>8, CallTypes DEF Perform
  <2>4. upset' \subseteq Upsets
      BY <1>8 DEF Perform, Open, PageTypeOK, Upsets
  <2> QED
      BY <1>8, <2>2, <2>3, <2>4 DEF Perform, PageTypeOK, pageVars
<1>9. ASSUME NEW c \in Calls, CallFails(c) PROVE PageTypeOK'
  <2>1. call' \in [Calls -> Call]
      BY <1>9, CallTypes DEF CallFails
  <2>2. upset' \subseteq Upsets
      BY <1>9 DEF CallFails, PageTypeOK, Upsets
  <2> QED
      BY <1>9, <2>1, <2>2 DEF CallFails, PageTypeOK, pageVars
<1>10. ASSUME NEW c \in Calls, FriendArrives(c) PROVE PageTypeOK'
  <2>1. call' \in [Calls -> Call]
      BY <1>10, CallTypes DEF FriendArrives
  <2>2. status' \in Statuses
      BY <1>10 DEF FriendArrives, Statuses
  <2> QED
      BY <1>10, <2>1, <2>2 DEF FriendArrives, PageTypeOK
<1>11. ASSUME NEW c \in Calls, DataArrives(c) PROVE PageTypeOK'
  <2>1. call' \in [Calls -> Call]
      BY <1>11, CallTypes DEF DataArrives
  <2> QED
      BY <1>11, <2>1 DEF DataArrives, PageTypeOK, pageVars
<1>12. ASSUME NEW c \in Calls, Saved(c) PROVE PageTypeOK'
  <2>1. call' \in [Calls -> Call]
      BY <1>12, CallTypes DEF Saved
  <2>2. call[c].nick \in Nicks /\ localNick' = call[c].nick /\ GoTo(call[c].nick)
      BY <1>12 DEF Saved, PageTypeOK, Call
  <2>3. path' \in Nicks /\ run' \in [Runs -> Run] /\ visits' \in 0..MaxVisits
      BY <2>2, GoToBegins
  <2>4. upset' \subseteq Upsets
      BY <1>12 DEF Saved, PageTypeOK, Upsets, Left
  <2> QED
      BY <1>12, <2>1, <2>2, <2>3, <2>4 DEF Saved, PageTypeOK
<1>13. CASE Elsewhere
  <2>1. changes' \in 0..MaxChanges /\ UNCHANGED <<localNick, pageVars, call>>
      BY <1>13 DEF Elsewhere, PageTypeOK
  <2>2. friendsOf' \subseteq Users /\ nickOf' \in [Users -> Nicks] /\ upset' \subseteq Upsets
      BY <1>13 DEF Elsewhere, PageTypeOK, Upsets
  <2> QED
      BY <2>1, <2>2 DEF PageTypeOK, pageVars
<1> QED
    BY <1>1, <1>2, <1>3, <1>4, <1>5, <1>6, <1>7, <1>8, <1>9, <1>10, <1>11, <1>12, <1>13 DEF Next
----------------------------------------------------------------------------
(* Runs stay sound when one begins, goes on or ends. *)
LEMMA GoToSound ==
    ASSUME PageTypeOK, RunsSound, NEW n \in Nicks, GoTo(n), UNCHANGED <<user, userBy, statusBy>>
    PROVE  RunsSound'
<1>1. run \in [Runs -> Run] /\ visits \in Nat /\ userBy \in Nat /\ statusBy \in Nat
    BY PageAssumption DEF PageTypeOK
<1>2. CASE n = path /\ run' = run /\ visits' = visits
  <2>1. path' = path /\ Running' = Running
      BY <1>2 DEF GoTo, Running
  <2> QED
      BY <1>2, <2>1 DEF RunsSound
<1>3. ASSUME visits' = visits + 1, NEW r \in Runs \ Running,
             run' = [run EXCEPT ![r] = Begun(n, visits')], Running' = Running \cup {r}
      PROVE  RunsSound'
  <2>1. \A q \in Running : run'[q] = run[q] /\ run[q].no \in 1..visits
      BY <1>1, <1>3 DEF Running, RunsSound
  <2>2. /\ run'[r].no = visits + 1 /\ run'[r].nick = n /\ run'[r].step = "info"
        /\ run'[r].st = "asked"
      BY <1>1, <1>3 DEF Begun
  <2>3. userBy <= visits /\ statusBy <= visits /\ path' = n
      BY DEF RunsSound, GoTo
  <2>4. \A q \in Running' : run'[q].no \in 1..visits' /\ run'[q].no # userBy'
      BY <1>1, <1>3, <2>1, <2>2, <2>3 DEF RunsSound
  <2>5. \A q, p \in Running' : run'[q].no = run'[p].no => q = p
      BY <1>1, <1>3, <2>1, <2>2 DEF RunsSound
  <2>6. \A q \in Running' : run'[q].step # "photo" => run'[q].no # statusBy'
      BY <1>1, <1>3, <2>1, <2>2, <2>3 DEF RunsSound
  <2>7. \A q \in Running' : run'[q].no = visits' => run'[q].nick = path'
      BY <1>1, <1>3, <2>1, <2>2, <2>3
  <2>8. \A q \in Running' : run'[q].step # "info" \/ run'[q].st = "ok" => run'[q].data \in Users
      BY <1>3, <2>1, <2>2 DEF RunsSound
  <2>9. userBy' <= visits' /\ statusBy' <= visits' /\ userBy' # visits'
      BY <1>1, <1>3, <2>3
  <2> QED
      BY <2>4, <2>5, <2>6, <2>7, <2>8, <2>9 DEF RunsSound
<1> QED
    BY <1>2, <1>3, GoToBegins

(* Runs that are served, end or arrive stay sound. *)
LEMMA RunSound ==
    ASSUME PageTypeOK, RunsSound, NEW r \in Runs, Serve(r) \/ Break(r) \/ Arrive(r)
    PROVE  RunsSound'
<1>1. /\ r \in Running /\ Running' \subseteq Running
      /\ \A q \in Running' : /\ run'[q].no = run[q].no /\ run'[q].nick = run[q].nick
                             /\ q # r => run'[q] = run[q]
    BY RunMoves
<1>2. visits \in Nat /\ userBy \in Nat /\ statusBy \in Nat
    BY PageAssumption DEF PageTypeOK
<1>3. visits' = visits /\ path' = path
    BY DEF Serve, Break, Arrive
<1>4. CASE Serve(r)
  <2>1. /\ run'[r].step = run[r].step /\ run[r].st = "asked" /\ run'[r].st = "ok"
        /\ run[r].step = "info" => run'[r].data \in Users
        /\ run[r].step # "info" => run'[r].data = run[r].data
        /\ UNCHANGED <<user, userBy, statusBy>>
      BY <1>4, ServeSteps
  <2> QED
      BY <1>1, <1>3, <2>1 DEF RunsSound
<1>5. CASE Break(r)
  <2>1. UNCHANGED <<user, userBy, statusBy>> /\ r \notin Running'
      BY <1>5, EmptyRecords DEF Break, Running, NoRun, Begun, PageTypeOK
  <2> QED
      BY <1>1, <1>3, <2>1 DEF RunsSound
<1>6. CASE Arrive(r)
  <2>1. run[r].data \in Users /\ run[r].no \in 1..visits
      BY <1>1, <1>6 DEF RunsSound, Arrive
  <2>2. CASE /\ run'[r].step = "photo" /\ run'[r].data = run[r].data
             /\ statusBy' = run[r].no /\ UNCHANGED <<user, userBy>>
      BY <1>1, <1>2, <1>3, <2>1, <2>2 DEF RunsSound
  <2>3. CASE /\ run[r].step = "info" /\ run'[r].data = run[r].data
             /\ UNCHANGED <<statusBy, user, userBy>>
      BY <1>1, <1>3, <2>1, <2>3 DEF RunsSound
  <2>4. CASE /\ r \notin Running' /\ userBy' = run[r].no /\ statusBy' = statusBy
             /\ user' = [id |-> run[r].data, nick |-> run[r].nick]
    <3>1. \A q \in Running' : run[q].no # userBy'
        BY <1>1, <2>4 DEF RunsSound
    <3>2. userBy' <= visits' /\ (userBy' = visits' => user'.nick = path')
        BY <1>1, <1>2, <1>3, <2>1, <2>4 DEF RunsSound
    <3> QED
        BY <1>1, <1>3, <2>4, <3>1, <3>2 DEF RunsSound
  <2> QED
      BY <1>6, <2>2, <2>3, <2>4, ArriveSteps DEF SetStatus
<1> QED
    BY <1>4, <1>5, <1>6

(* Nothing else touches the runs. *)
LEMMA SoundStep ==
    ASSUME PageTypeOK, RunsSound, [Next]_vars
    PROVE  RunsSound'
<1>1. CASE UNCHANGED <<path, user, run, visits, userBy, statusBy>>
    BY <1>1 DEF RunsSound, Running
<1>2. ASSUME NEW n \in Nicks, Visit(n) PROVE RunsSound'
    BY <1>2, GoToSound DEF Visit
<1>3. ASSUME NEW r \in Runs, Serve(r) \/ Break(r) \/ Arrive(r) PROVE RunsSound'
    BY <1>3, RunSound
<1>4. ASSUME NEW c \in Calls, Saved(c) PROVE RunsSound'
  <2>1. call[c].nick \in Nicks
      BY DEF PageTypeOK, Call
  <2> QED
      BY <1>4, <2>1, GoToSound DEF Saved
<1>5. CASE TurnForm \/ Elsewhere
    BY <1>1, <1>5 DEF TurnForm, Elsewhere, pageVars
<1>6. ASSUME NEW c \in Calls, \/ ClickFriend(c) \/ (\E n \in Nicks : SendData(c, n))
                              \/ Perform(c) \/ CallFails(c) \/ FriendArrives(c) \/ DataArrives(c)
      PROVE  RunsSound'
    BY <1>1, <1>6 DEF ClickFriend, SendData, Click, Perform, CallFails, FriendArrives, DataArrives,
                      pageVars
<1>7. CASE UNCHANGED vars
    BY <1>1, <1>7 DEF vars, pageVars
<1> QED
    BY <1>2, <1>3, <1>4, <1>5, <1>6, <1>7 DEF Next
----------------------------------------------------------------------------
(* What happened to spoil the page is not forgotten. *)
LEMMA CleanBefore ==
    ASSUME PageTypeOK, [Next]_vars, Clean'
    PROVE  Clean
<1>1. ASSUME upset \subseteq upset' \cup {"kept"} PROVE Clean
    BY <1>1 DEF Clean, Untouched
<1>2. ASSUME NEW r \in Runs, Arrive(r) PROVE Clean
    BY <1>1, <1>2, ArriveSteps
<1>3. ASSUME NEW c \in Calls, \/ ClickFriend(c) \/ (\E n \in Nicks : SendData(c, n))
                              \/ Perform(c) \/ CallFails(c) \/ FriendArrives(c) \/ DataArrives(c)
                              \/ Saved(c)
      PROVE  Clean
    BY <1>1, <1>3 DEF ClickFriend, SendData, Click, Perform, CallFails, FriendArrives, DataArrives,
                      Saved, Left
<1>4. CASE Elsewhere \/ TurnForm \/ UNCHANGED vars
    BY <1>1, <1>4 DEF Elsewhere, TurnForm, vars
<1>5. ASSUME NEW n \in Nicks, Visit(n) PROVE Clean
    BY <1>1, <1>5 DEF Visit
<1>6. ASSUME NEW r \in Runs, Serve(r) \/ Break(r) PROVE Clean
    BY <1>1, <1>6 DEF Serve, Break
<1> QED
    BY <1>2, <1>3, <1>4, <1>5, <1>6 DEF Next

(* A visit while nothing is under way but runs. *)
LEMMA VisitOrderly ==
    ASSUME PageTypeOK, RunsSound, Orderly, NEW n \in Nicks, Visit(n), Clean'
    PROVE  Orderly'
<1>1. /\ Calling = {} /\ GoTo(n) /\ upset \subseteq upset'
      /\ "kept" \notin upset' => status = status_
    BY DEF Visit, Clean, Untouched, Left
<1>2. UNCHANGED <<nickOf, friendsOf, localNick, status, status_, user, call, userBy, statusBy>>
    BY DEF Visit
<1>3. Calling' = {}
    BY <1>1, <1>2 DEF Calling
<1>4. OneAtATime'
    BY <1>3 DEF OneAtATime
<1>5. NickFollows'
    BY <1>2 DEF Orderly, NickFollows, Written
<1>6. ClicksAgree'
    BY <1>1, <1>2 DEF Orderly, ClicksAgree, ShownTruly, Befriends, Truth
<1>7. AllInformed'
  <2>1. CASE run' = run
      BY <1>1, <1>2, <2>1 DEF Orderly, AllInformed, Informed, Running, Truth
  <2>2. ASSUME visits' = visits + 1, NEW r \in Runs \ Running,
               run' = [run EXCEPT ![r] = Begun(n, visits')], Running' = Running \cup {r}
        PROVE  AllInformed'
    <3>1. run \in [Runs -> Run] /\ visits \in Nat /\ statusBy \in Nat /\ statusBy <= visits
        BY PageAssumption DEF PageTypeOK, RunsSound
    <3>2. \A q \in Running : run'[q] = run[q]
        BY <2>2, <3>1 DEF Running
    <3>3. run'[r].no = visits + 1 /\ run'[r].step = "info" /\ run'[r].st = "asked"
        BY <2>2, <3>1 DEF Begun
    <3>4. Informed(r)'
        BY <1>2, <3>1, <3>3 DEF Informed
    <3>5. ASSUME NEW q \in Running PROVE Informed(q)'
        BY <1>1, <1>2, <3>2 DEF Orderly, AllInformed, Informed, Truth
    <3> QED
        BY <2>2, <3>4, <3>5 DEF AllInformed
  <2> QED
      BY <1>1, <2>1, <2>2, GoToBegins
<1>8. StatusTaken'
    BY <1>1, <1>2 DEF StatusTaken
<1> QED
    BY <1>4, <1>5, <1>6, <1>7, <1>8 DEF Orderly

(* A run that is under way has the page to itself. *)
LEMMA RunAlone ==
    ASSUME PageTypeOK, OneAtATime, NickFollows, NEW r \in Running
    PROVE  Calling = {} /\ localNick = nickOf[Me] /\ \A c \in Calls : call[c].st = "idle"
<1>1. Calling = {}
    BY DEF OneAtATime
<1>2. \A c \in Calls : call[c].st = "idle"
    BY <1>1 DEF Calling
<1>3. \A c \in Calls : ~Written(c)
    BY <1>2 DEF Written
<1> QED
    BY <1>1, <1>2, <1>3 DEF NickFollows

(* PhotogramServer tells a run the truth, or the run breaks off. *)
LEMMA ServeOrderly ==
    ASSUME PageTypeOK, RunsSound, Orderly, NEW r \in Runs, Serve(r) \/ Break(r)
    PROVE  Orderly'
<1>1. /\ r \in Running /\ Running' \subseteq Running
      /\ \A q \in Running' : /\ run'[q].no = run[q].no /\ run'[q].nick = run[q].nick
                             /\ q # r => run'[q] = run[q]
    BY RunMoves
<1>2. UNCHANGED <<nickOf, friendsOf, localNick, status, status_, user, call, userBy, statusBy, upset>>
    BY DEF Serve, Break
<1>3. Calling = {} /\ localNick = nickOf[Me] /\ Calling' = Calling
    BY <1>1, <1>2, RunAlone DEF Orderly, Calling
<1>4. OneAtATime' /\ NickFollows' /\ ClicksAgree' /\ StatusTaken'
    BY <1>1, <1>2, <1>3 DEF Orderly, StatusTaken, OneAtATime, NickFollows, Written, ClicksAgree, ShownTruly, Befriends, Truth
<1>5. ASSUME NEW q \in Running', q # r PROVE Informed(q)'
    BY <1>1, <1>2, <1>5 DEF Orderly, AllInformed, Informed, Truth
<1>6. CASE Serve(r)
  <2>1. /\ run'[r].st = "ok" /\ run'[r].step = run[r].step /\ run[r].st = "asked"
        /\ run[r].step = "info" => run'[r].data \in Users /\ nickOf[run'[r].data] = run[r].nick
        /\ run[r].step # "info" => run'[r].data = run[r].data
        /\ run[r].step = "status" =>
              run'[r].reply = IF run[r].data \in friendsOf THEN "friend" ELSE "stranger"
      BY <1>6, ServeSteps
  <2>2. Informed(r)
      BY <1>1 DEF Orderly, AllInformed
  <2>3. r \in Running'
      BY <1>1, <2>1 DEF Running
  <2>4. run'[r].nick = run[r].nick /\ run'[r].no = run[r].no
      BY <1>1, <2>3
  <2>5. Informed(r)'
    <3>1. CASE run[r].step = "info"
      <4>1. run[r].nick = localNick <=> run'[r].data = Me
          BY <1>3, <2>1, <3>1, PageAssumption DEF Orderly, NickFollows
      <4>2. run[r].no # statusBy
          BY <1>1, <3>1 DEF RunsSound
      <4> QED
          BY <1>2, <2>1, <2>4, <3>1, <4>1, <4>2 DEF Informed
    <3>2. CASE run[r].step = "status"
        BY <1>2, <2>1, <2>2, <2>4, <3>2 DEF Informed, Truth
    <3>3. CASE run[r].step = "photo"
        BY <1>2, <2>1, <2>2, <2>4, <3>3 DEF Informed, Truth
    <3> QED
        BY <3>1, <3>2, <3>3 DEF PageTypeOK, Run, Steps
  <2> QED
      BY <1>4, <1>5, <2>5 DEF Orderly, AllInformed
<1>7. CASE Break(r)
  <2>1. r \notin Running'
      BY <1>7, EmptyRecords DEF Break, Running, NoRun, Begun, PageTypeOK
  <2> QED
      BY <1>4, <1>5, <2>1 DEF Orderly, AllInformed
<1> QED
    BY <1>6, <1>7
(* What the browser does with the answers of a run while nothing else is   *)
(* under way.                                                              *)
LEMMA ArriveOrderly ==
    ASSUME PageTypeOK, RunsSound, Orderly, NEW r \in Runs, Arrive(r)
    PROVE  Orderly'
<1>1. /\ r \in Running /\ Running' \subseteq Running
      /\ \A q \in Running' : /\ run'[q].no = run[q].no /\ run'[q].nick = run[q].nick
                             /\ q # r => run'[q] = run[q]
    BY RunMoves
<1>2. UNCHANGED <<nickOf, friendsOf, localNick, call>> /\ run[r].st = "ok"
    BY DEF Arrive
<1>3. /\ Calling = {} /\ localNick = nickOf[Me] /\ Calling' = Calling
      /\ \A c \in Calls : call[c].st = "idle"
    BY <1>1, <1>2, RunAlone DEF Orderly, Calling
<1>4. OneAtATime' /\ NickFollows'
    BY <1>2, <1>3 DEF Orderly, OneAtATime, NickFollows, Written
<1>5. /\ Informed(r) /\ (ShownTruly => status = Truth(user.id))
      /\ "kept" \notin upset => status = status_
    BY <1>1, <1>3 DEF Orderly, AllInformed, ClicksAgree, Befriends, StatusTaken
<1>6. \A c \in Calls : ~Befriends(c)'
    BY <1>2, <1>3 DEF Befriends
<1>7. \A u : Truth(u)' = Truth(u)
    BY <1>2 DEF Truth
<1>8. ASSUME NEW s, SetStatus(r, s), s = Truth(run[r].data), UNCHANGED <<user, userBy>>,
             run[r].step \in {"info", "status"}, run'[r].step = "photo",
             run'[r].data = run[r].data
      PROVE  AllInformed' /\ ClicksAgree' /\ StatusTaken'
  <2>1. statusBy' = run[r].no /\ run[r].no # userBy /\ ~ShownTruly'
      BY <1>1, <1>8 DEF SetStatus, RunsSound, ShownTruly
  <2>2. "kept" \notin upset' => status' = s /\ status_' = s
      BY <1>5, <1>8 DEF SetStatus
  <2>3. ASSUME NEW q \in Running' PROVE Informed(q)'
    <3>1. CASE q = r
        BY <1>1, <1>2, <1>5, <1>7, <1>8, <2>2, <2>3, <3>1 DEF Informed
    <3>2. CASE q # r
      <4>1. run'[q] = run[q] /\ run[q].no # run[r].no /\ q \in Running
          BY <1>1, <2>3, <3>2 DEF RunsSound
      <4>2. Informed(q)
          BY <4>1 DEF Orderly, AllInformed
      <4> QED
          BY <1>2, <1>7, <2>1, <4>1, <4>2 DEF Informed
    <3> QED
        BY <3>1, <3>2
  <2> QED
      BY <2>1, <2>2, <2>3, <1>6 DEF AllInformed, ClicksAgree, StatusTaken
<1>9. CASE /\ run[r].step \in {"info", "status"} /\ run'[r].step = "photo"
           /\ run'[r].data = run[r].data
           /\ IF run[r].step = "info" THEN run[r].nick = localNick /\ SetStatus(r, "me")
                                      ELSE SetStatus(r, run[r].reply)
           /\ UNCHANGED <<user, userBy>>
  <2>1. CASE run[r].step = "info"
    <3>1. Truth(run[r].data) = "me"
        BY <1>2, <1>5, <1>9, <2>1 DEF Informed, Truth
    <3> QED
        BY <1>4, <1>8, <1>9, <2>1, <3>1 DEF Orderly
  <2>2. CASE run[r].step = "status"
    <3>1. Truth(run[r].data) = run[r].reply
        BY <1>2, <1>5, <2>2 DEF Informed
    <3> QED
        BY <1>4, <1>8, <1>9, <2>2, <3>1 DEF Orderly
  <2> QED
      BY <1>9, <2>1, <2>2
<1>10. CASE /\ run[r].step = "info" /\ run[r].nick # localNick
            /\ run'[r].step = "status" /\ run'[r].st = "asked" /\ run'[r].data = run[r].data
            /\ UNCHANGED <<status_, status, statusBy, user, userBy, upset>>
  <2>1. ASSUME NEW q \in Running' PROVE Informed(q)'
    <3>1. CASE q = r
        BY <1>1, <1>2, <1>5, <1>7, <1>10, <2>1, <3>1 DEF Informed
    <3>2. CASE q # r
      <4>1. run'[q] = run[q] /\ Informed(q)
          BY <1>1, <2>1, <3>2 DEF Orderly, AllInformed
      <4> QED
          BY <1>2, <1>7, <1>10, <4>1 DEF Informed
    <3> QED
        BY <3>1, <3>2
  <2>2. ClicksAgree' /\ StatusTaken'
      BY <1>5, <1>6, <1>7, <1>10 DEF ClicksAgree, ShownTruly, StatusTaken
  <2> QED
      BY <1>4, <2>1, <2>2 DEF Orderly, AllInformed
<1>11. CASE /\ run[r].step = "photo" /\ r \notin Running'
            /\ user' = [id |-> run[r].data, nick |-> run[r].nick] /\ userBy' = run[r].no
            /\ UNCHANGED <<status_, status, statusBy, upset>>
  <2>1. ASSUME NEW q \in Running' PROVE Informed(q)'
    <3>1. run'[q] = run[q] /\ Informed(q)
        BY <1>1, <2>1, <1>11 DEF Orderly, AllInformed
    <3> QED
        BY <1>2, <1>7, <1>11, <3>1 DEF Informed
  <2>2. ClicksAgree' /\ StatusTaken'
      BY <1>5, <1>6, <1>7, <1>11 DEF ClicksAgree, ShownTruly, Informed, StatusTaken
  <2> QED
      BY <1>4, <2>1, <2>2 DEF Orderly, AllInformed
<1> QED
    BY <1>9, <1>10, <1>11, ArriveSteps
----------------------------------------------------------------------------
(* A call that is under way is the only one, and no run is. *)
LEMMA CallAlone ==
    ASSUME PageTypeOK, OneAtATime, NEW c \in Calls, call[c].st # "idle"
    PROVE  Running = {} /\ \A d \in Calls : d # c => call[d].st = "idle"
BY DEF OneAtATime, Calling

(* A click on a page where nothing is under way. *)
LEMMA ClickOrderly ==
    ASSUME PageTypeOK, Orderly, NEW c \in Calls, NEW op \in {"make", "delete", "data"},
           NEW n \in Nicks, Click(c, op, n), Clean',
           op \in {"make", "delete"} => status # "me"
    PROVE  Orderly'
<1>1. Running = {} /\ Calling = {} /\ upset' = upset
    BY DEF Click, Clean, Untouched
<1>2. UNCHANGED <<nickOf, friendsOf, localNick, status, user, run, userBy, statusBy>>
    BY DEF Click, pageVars
<1>3. /\ user # Null /\ call'[c] = [st |-> "asked", op |-> op, id |-> user.id, nick |-> n]
      /\ \A d \in Calls : call[d].st = "idle" /\ (d # c => call'[d] = call[d])
    BY <1>1 DEF Click, Calling, PageTypeOK
<1>4. Running' = {} /\ \A d, e \in Calling' : d = e
    BY <1>1, <1>2, <1>3 DEF Running, Calling
<1>5. OneAtATime' /\ AllInformed' /\ StatusTaken'
    BY <1>4 DEF OneAtATime, AllInformed, StatusTaken
<1>6. NickFollows'
  <2>1. \A d \in Calls : ~Written(d) /\ ~Written(d)'
      BY <1>3 DEF Written
  <2> QED
      BY <1>2, <2>1 DEF Orderly, NickFollows
<1>7. ClicksAgree'
  <2>1. ShownTruly' <=> ShownTruly
      BY <1>1, <1>2 DEF ShownTruly
  <2>2. ShownTruly => status = Truth(user.id)
      BY <1>3 DEF Orderly, ClicksAgree, Befriends
  <2>3. op \in {"make", "delete"} /\ ShownTruly => user.id # Me
      BY <2>2 DEF Truth
  <2>4. \A d \in Calls : Befriends(d)' => d = c /\ op \in {"make", "delete"}
      BY <1>3 DEF Befriends
  <2>5. call'[c].id = user.id /\ call'[c].st = "asked"
      BY <1>3
  <2>6. Truth(user.id)' = Truth(user.id)
      BY <1>2 DEF Truth
  <2> QED
      BY <1>2, <1>3, <2>1, <2>2, <2>3, <2>4, <2>5, <2>6 DEF ClicksAgree
<1> QED
    BY <1>5, <1>6, <1>7 DEF Orderly

(* A call that ends, what it asked for being done or not, with what is     *)
(* known of the nickname and the status then.                              *)
LEMMA CallEnded ==
    ASSUME PageTypeOK, Orderly, NEW c \in Calls, call[c].st # "idle",
           call' = [call EXCEPT ![c] = NoCall], AllInformed', NickFollows', StatusTaken',
           ShownTruly' => status' = Truth(user.id)', UNCHANGED user
    PROVE  Orderly'
<1>1. \A d \in Calls : call'[d].st = "idle"
  <2>1. \A d \in Calls : d # c => call[d].st = "idle"
      BY CallAlone DEF Orderly
  <2> QED
      BY <2>1 DEF NoCall, PageTypeOK
<1>2. OneAtATime'
    BY <1>1 DEF OneAtATime, Calling
<1>3. ClicksAgree'
    BY <1>1 DEF ClicksAgree, Befriends
<1> QED
    BY <1>2, <1>3 DEF Orderly

(* The database takes what was asked for. *)
LEMMA PerformOrderly ==
    ASSUME PageTypeOK, Orderly, NEW c \in Calls, Perform(c), Clean'
    PROVE  Orderly'
<1>1. call[c].st = "asked" /\ call' = [call EXCEPT ![c].st = "ok"] /\ upset' = upset
    BY DEF Perform, Open, Clean, Untouched
<1>2. UNCHANGED <<localNick, status, user, run, userBy, statusBy>>
    BY DEF Perform, pageVars
<1>3. Running = {} /\ Running' = {} /\ \A d \in Calls : d # c => call[d].st = "idle"
    BY <1>1, <1>2, CallAlone DEF Orderly, Running
<1>4. /\ call'[c].st = "ok" /\ call'[c].op = call[c].op /\ call'[c].id = call[c].id
      /\ call'[c].nick = call[c].nick /\ \A d \in Calls : d # c => call'[d] = call[d]
  <2>1. call \in [Calls -> Call]
      BY DEF PageTypeOK
  <2> QED
      BY <1>1, <2>1 DEF Call
<1>5. OneAtATime' /\ AllInformed' /\ StatusTaken'
    BY <1>3, <1>4 DEF OneAtATime, Calling, AllInformed, StatusTaken
<1>6. NickFollows'
  <2>1. \A d \in Calls : d # c => ~Written(d) /\ ~Written(d)'
      BY <1>3, <1>4 DEF Written
  <2>2. CASE call[c].op = "data" /\ UpdateData(c)
    <3>1. Written(c)' /\ nickOf' = [nickOf EXCEPT ![Me] = call[c].nick]
        BY <1>4, <2>2 DEF Written, UpdateData
    <3>2. nickOf'[Me] = call'[c].nick
        BY <1>4, <3>1, PageAssumption DEF PageTypeOK
    <3>3. \A u \in Users : nickOf[u] = call[c].nick => u = Me
        BY <2>2 DEF UpdateData, Owners
    <3>4. \A u, v \in Users : nickOf'[u] = nickOf'[v] => u = v
        BY <3>1, <3>3, PageAssumption DEF PageTypeOK, Orderly, NickFollows
    <3> QED
        BY <2>1, <3>1, <3>2, <3>4 DEF NickFollows
  <2>3. CASE call[c].op # "data" /\ UNCHANGED nickOf
    <3>1. Written(c)' <=> Written(c)
        BY <1>1, <1>4, <2>3 DEF Written
    <3> QED
        BY <1>2, <1>4, <2>1, <2>3, <3>1 DEF Orderly, NickFollows
  <2> QED
      BY <2>2, <2>3 DEF Perform, MakeFriend, DeleteFriend, UpdateData, UpdatePassword
<1>7. ClicksAgree'
  <2>1. ShownTruly' <=> ShownTruly
      BY <1>1, <1>2 DEF ShownTruly
  <2>2. \A d \in Calls : d # c => ~Befriends(d) /\ ~Befriends(d)'
      BY <1>3, <1>4 DEF Befriends
  <2>3. Befriends(c)' <=> Befriends(c)
      BY <1>1, <1>4 DEF Befriends
  <2>4. CASE Befriends(c)
    <3>1. user # Null /\ call[c].id = user.id /\ (ShownTruly => user.id # Me)
        BY <2>4 DEF Orderly, ClicksAgree
    <3>2. call[c].op = "make" <=> user.id \in friendsOf'
        BY <2>4, <3>1 DEF Befriends, Perform, MakeFriend, DeleteFriend, UpdateData, UpdatePassword
    <3> QED
        BY <1>2, <1>4, <2>1, <2>2, <2>3, <2>4, <3>1, <3>2 DEF ClicksAgree
  <2>5. CASE ~Befriends(c)
    <3>1. friendsOf' = friendsOf
        BY <1>1, <2>5 DEF Befriends, Perform, MakeFriend, DeleteFriend, UpdateData, UpdatePassword
    <3>2. ShownTruly => status = Truth(user.id)
        BY <2>2, <2>5 DEF Orderly, ClicksAgree
    <3>3. Truth(user.id)' = Truth(user.id)
        BY <1>2, <3>1 DEF Truth
    <3> QED
        BY <1>2, <2>1, <2>2, <2>3, <2>5, <3>2, <3>3 DEF ClicksAgree
  <2> QED
      BY <2>4, <2>5
<1> QED
    BY <1>5, <1>6, <1>7 DEF Orderly
(* A call is refused: nothing has changed, but for a password, whose data  *)
(* was saved before.                                                       *)
LEMMA FailOrderly ==
    ASSUME PageTypeOK, Orderly, NEW c \in Calls, CallFails(c), Clean'
    PROVE  Orderly'
<1>1. /\ call[c].st = "asked" /\ call[c].op # "password" /\ upset' = upset
      /\ call' = [call EXCEPT ![c] = NoCall]
    BY DEF CallFails, Clean, Untouched
<1>2. UNCHANGED <<nickOf, friendsOf, localNick, status, user, run, userBy, statusBy>>
    BY DEF CallFails, pageVars
<1>3. Running' = {} /\ \A d \in Calls : d # c => call[d].st = "idle"
    BY <1>1, <1>2, CallAlone DEF Orderly, Running
<1>4. AllInformed' /\ StatusTaken'
    BY <1>3 DEF AllInformed, StatusTaken
<1>5. NickFollows'
  <2>1. \A d \in Calls : ~Written(d) /\ ~Written(d)'
      BY <1>1, <1>3 DEF Written, NoCall, PageTypeOK
  <2> QED
      BY <1>2, <2>1 DEF Orderly, NickFollows
<1>6. ShownTruly' => status' = Truth(user.id)'
  <2>1. \A d \in Calls : Befriends(d) => call[d].st # "ok"
      BY <1>1, <1>3 DEF Befriends
  <2>2. Truth(user.id)' = Truth(user.id) /\ ShownTruly' = ShownTruly
      BY <1>1, <1>2 DEF Truth, ShownTruly
  <2> QED
      BY <1>2, <2>1, <2>2 DEF Orderly, ClicksAgree
<1> QED
    BY <1>1, <1>2, <1>4, <1>5, <1>6, CallEnded

(* The answer to a click on a friend button. *)
LEMMA FriendOrderly ==
    ASSUME PageTypeOK, Orderly, NEW c \in Calls, FriendArrives(c)
    PROVE  Orderly'
<1>1. /\ call[c].st = "ok" /\ call[c].op \in {"make", "delete"}
      /\ call' = [call EXCEPT ![c] = NoCall]
      /\ status' = IF call[c].op = "make" THEN "friend" ELSE "stranger"
    BY DEF FriendArrives
<1>2. UNCHANGED <<nickOf, friendsOf, localNick, user, run, userBy, statusBy, upset>>
    BY DEF FriendArrives
<1>3. Running' = {} /\ \A d \in Calls : d # c => call[d].st = "idle"
    BY <1>1, <1>2, CallAlone DEF Orderly, Running
<1>4. AllInformed' /\ StatusTaken'
    BY <1>3 DEF AllInformed, StatusTaken
<1>5. NickFollows'
  <2>1. \A d \in Calls : ~Written(d) /\ ~Written(d)'
      BY <1>1, <1>3 DEF Written, NoCall, PageTypeOK
  <2> QED
      BY <1>2, <2>1 DEF Orderly, NickFollows
<1>6. ShownTruly' => status' = Truth(user.id)'
  <2>1. Befriends(c) /\ ShownTruly' = ShownTruly
      BY <1>1, <1>2 DEF Befriends, ShownTruly
  <2>2. (call[c].op = "make" <=> user.id \in friendsOf) /\ (ShownTruly => user.id # Me)
      BY <1>1, <2>1 DEF Orderly, ClicksAgree
  <2> QED
      BY <1>1, <1>2, <2>1, <2>2 DEF Truth
<1> QED
    BY <1>1, <1>2, <1>4, <1>5, <1>6, CallEnded

(* The data is saved, a password follows. *)
LEMMA DataOrderly ==
    ASSUME PageTypeOK, Orderly, NEW c \in Calls, DataArrives(c)
    PROVE  Orderly'
<1>1. /\ call[c].st = "ok" /\ call[c].op = "data"
      /\ call' = [call EXCEPT ![c].st = "asked", ![c].op = "password"]
    BY DEF DataArrives
<1>2. UNCHANGED <<nickOf, friendsOf, localNick, status, user, run, userBy, statusBy, upset>>
    BY DEF DataArrives, pageVars
<1>3. Running' = {} /\ \A d \in Calls : d # c => call[d].st = "idle"
    BY <1>1, <1>2, CallAlone DEF Orderly, Running
<1>4. /\ call'[c].st = "asked" /\ call'[c].op = "password" /\ call'[c].nick = call[c].nick
      /\ \A d \in Calls : d # c => call'[d] = call[d]
  <2>1. call \in [Calls -> Call]
      BY DEF PageTypeOK
  <2> QED
      BY <1>1, <2>1 DEF Call
<1>5. OneAtATime' /\ AllInformed' /\ StatusTaken'
    BY <1>3, <1>4 DEF OneAtATime, Calling, AllInformed, StatusTaken
<1>6. NickFollows'
  <2>1. Written(c) /\ Written(c)' /\ \A d \in Calls : d # c => ~Written(d) /\ ~Written(d)'
      BY <1>1, <1>3, <1>4 DEF Written
  <2> QED
      BY <1>2, <1>4, <2>1 DEF Orderly, NickFollows
<1>7. ClicksAgree'
  <2>1. \A d \in Calls : ~Befriends(d) /\ ~Befriends(d)'
      BY <1>1, <1>3, <1>4 DEF Befriends
  <2>2. ShownTruly' = ShownTruly /\ Truth(user.id)' = Truth(user.id)
      BY <1>2 DEF ShownTruly, Truth
  <2> QED
      BY <1>2, <2>1, <2>2 DEF Orderly, ClicksAgree
<1> QED
    BY <1>5, <1>6, <1>7 DEF Orderly

(* All is saved, and the page goes to one's own profile. *)
LEMMA SavedOrderly ==
    ASSUME PageTypeOK, RunsSound, Orderly, NEW c \in Calls, Saved(c)
    PROVE  Orderly'
<1>1. /\ call[c].st = "ok" /\ call[c].op \in {"data", "password"}
      /\ call' = [call EXCEPT ![c] = NoCall] /\ localNick' = call[c].nick
      /\ GoTo(call[c].nick) /\ call[c].nick \in Nicks
    BY DEF Saved, PageTypeOK, Call
<1>2. /\ UNCHANGED <<nickOf, friendsOf, status, status_, user, userBy, statusBy>>
      /\ upset' = upset \cup Left(call[c].nick)
    BY <1>1 DEF Saved
<1>3. Running = {} /\ \A d \in Calls : d # c => call[d].st = "idle"
    BY <1>1, CallAlone DEF Orderly
<1>4. AllInformed'
  <2>1. CASE run' = run
      BY <1>3, <2>1 DEF AllInformed, Running
  <2>2. ASSUME visits' = visits + 1, NEW r \in Runs \ Running, Running' = Running \cup {r},
               run' = [run EXCEPT ![r] = Begun(call[c].nick, visits')]
        PROVE  AllInformed'
    <3>1. run \in [Runs -> Run] /\ visits \in Nat /\ statusBy \in Nat /\ statusBy <= visits
        BY PageAssumption DEF PageTypeOK, RunsSound
    <3>2. run'[r].no = visits + 1 /\ run'[r].step = "info" /\ run'[r].st = "asked"
        BY <2>2, <3>1 DEF Begun
    <3>3. Informed(r)' /\ Running' = {r}
        BY <1>2, <1>3, <2>2, <3>1, <3>2 DEF Informed
    <3> QED
        BY <3>3 DEF AllInformed
  <2> QED
      BY <1>1, <2>1, <2>2, GoToBegins
<1>5. NickFollows'
  <2>1. Written(c) /\ \A d \in Calls : ~Written(d)'
      BY <1>1, <1>3 DEF Written, NoCall, PageTypeOK
  <2> QED
      BY <1>1, <1>2, <2>1 DEF Orderly, NickFollows
<1>6. ShownTruly' => status' = Truth(user.id)'
  <2>1. \A d \in Calls : Befriends(d) => call[d].st # "ok"
      BY <1>1, <1>3 DEF Befriends
  <2>2. Truth(user.id)' = Truth(user.id) /\ (ShownTruly' => ShownTruly)
      BY <1>1, <1>2 DEF Truth, ShownTruly
  <2> QED
      BY <1>2, <2>1, <2>2 DEF Orderly, ClicksAgree
<1>7. StatusTaken'
  <2>1. CASE run' = run
      BY <1>3, <2>1 DEF StatusTaken, Running
  <2>2. CASE run' # run
    <3>1. call[c].nick # path
        BY <1>1, <2>2 DEF GoTo
    <3> QED
        BY <1>2, <3>1 DEF StatusTaken, Left
  <2> QED
      BY <2>1, <2>2
<1> QED
    BY <1>1, <1>2, <1>4, <1>5, <1>6, <1>7, CallEnded

(* Another user takes a nickname that is free. *)
LEMMA ElsewhereOrderly ==
    ASSUME PageTypeOK, Orderly, Elsewhere, Clean'
    PROVE  Orderly'
<1>1. PICK u \in Users, n \in Nicks : /\ u # Me /\ Owners(n) = {} /\ upset' = upset
                                      /\ nickOf' = [nickOf EXCEPT ![u] = n]
    BY DEF Elsewhere, Clean, Untouched
<1>2. UNCHANGED <<friendsOf, localNick, status, status_, user, run, userBy, statusBy, call>>
    BY DEF Elsewhere, Clean, Untouched, pageVars
<1>3. OneAtATime'
    BY <1>2 DEF Orderly, OneAtATime, Running, Calling
<1>4. NickFollows'
  <2>1. \A v \in Users : nickOf[v] # n
      BY <1>1 DEF Owners
  <2>2. nickOf'[Me] = nickOf[Me] /\ \A v, w \in Users : nickOf'[v] = nickOf'[w] => v = w
      BY <1>1, <2>1, PageAssumption DEF Orderly, NickFollows, PageTypeOK
  <2> QED
      BY <1>2, <2>2 DEF Orderly, NickFollows, Written
<1>5. AllInformed' /\ ClicksAgree' /\ StatusTaken'
    BY <1>1, <1>2 DEF Orderly, StatusTaken, AllInformed, Informed, Running, Truth, ClicksAgree, ShownTruly, Befriends
<1> QED
    BY <1>3, <1>4, <1>5 DEF Orderly

(* The form, and steps of nobody. *)
LEMMA StillOrderly ==
    ASSUME Orderly, UNCHANGED <<nickOf, friendsOf, localNick, status, status_, user, run, userBy, statusBy, call,
                               upset>>
    PROVE  Orderly'
BY DEF Orderly, OneAtATime, Running, Calling, NickFollows, Written, AllInformed, Informed, Truth,
       ClicksAgree, ShownTruly, Befriends, StatusTaken

----------------------------------------------------------------------------
(* The invariant is inductive. *)
LEMMA PageStep == PageInv /\ [Next]_vars => PageInv'
<1> SUFFICES ASSUME PageInv, [Next]_vars PROVE PageInv'
    OBVIOUS
<1> USE DEF PageInv
<1>1. PageTypeOK' /\ RunsSound'
    BY TypeStep, SoundStep
<1>2. ASSUME Clean' PROVE Orderly'
  <2>1. Orderly
      BY <1>2, CleanBefore
  <2>2. ASSUME NEW n \in Nicks, Visit(n) PROVE Orderly'
      BY <1>2, <2>1, <2>2, VisitOrderly
  <2>3. ASSUME NEW r \in Runs, Serve(r) \/ Break(r) PROVE Orderly'
      BY <2>1, <2>3, ServeOrderly
  <2>4. ASSUME NEW r \in Runs, Arrive(r) PROVE Orderly'
      BY <2>1, <2>4, ArriveOrderly
  <2>5. CASE TurnForm \/ UNCHANGED vars
      BY <2>1, <2>5, StillOrderly DEF TurnForm, vars, pageVars
  <2>6. ASSUME NEW c \in Calls, ClickFriend(c) PROVE Orderly'
    <3>1. status # "me" /\ FirstNick[Me] \in Nicks
          /\ (Click(c, "make", FirstNick[Me]) \/ Click(c, "delete", FirstNick[Me]))
        BY <2>6, PageAssumption DEF ClickFriend
    <3> QED
        BY <1>2, <2>1, <3>1, ClickOrderly
  <2>7. ASSUME NEW c \in Calls, NEW n \in Nicks, SendData(c, n) PROVE Orderly'
      BY <1>2, <2>1, <2>7, ClickOrderly DEF SendData
  <2>8. ASSUME NEW c \in Calls, Perform(c) PROVE Orderly'
      BY <1>2, <2>1, <2>8, PerformOrderly
  <2>9. ASSUME NEW c \in Calls, CallFails(c) PROVE Orderly'
      BY <1>2, <2>1, <2>9, FailOrderly
  <2>10. ASSUME NEW c \in Calls, FriendArrives(c) PROVE Orderly'
      BY <2>1, <2>10, FriendOrderly
  <2>11. ASSUME NEW c \in Calls, DataArrives(c) PROVE Orderly'
      BY <2>1, <2>11, DataOrderly
  <2>12. ASSUME NEW c \in Calls, Saved(c) PROVE Orderly'
      BY <2>1, <2>12, SavedOrderly
  <2>13. CASE Elsewhere
      BY <1>2, <2>1, <2>13, ElsewhereOrderly
  <2> QED
      BY <2>2, <2>3, <2>4, <2>5, <2>6, <2>7, <2>8, <2>9, <2>10, <2>11, <2>12, <2>13 DEF Next
<1> QED
    BY <1>1, <1>2

(* The inductive invariant of the page holds in every behaviour. *)
THEOREM PageInvariant == Spec => []PageInv
BY PageInitial, PageStep, PTL DEF Spec

(* Nicknames, runs, calls and what is shown keep their types, however many *)
(* profiles are visited.                                                   *)
THEOREM PageTypeCorrect == Spec => []PageTypeOK
<1>1. PageInv => PageTypeOK
    BY DEF PageInv
<1> QED
    BY <1>1, PageInvariant, PTL

(* Once user and status come from one run the buttons are those for the    *)
(* user that is shown, for any number of visits and runs that overtake     *)
(* each other, but for a page left with a status that a button had set.    *)
THEOREM StatusAlwaysRight == Spec => []StatusRight
<1>1. PageInv => StatusRight
  <2> SUFFICES ASSUME PageInv, Calling = {}, user # Null, userBy = statusBy,
                      Untouched({"kept", "crossed", "doubt", "half", "elsewhere"})
               PROVE  status = Truth(user.id) /\ (userBy = visits => user.nick = path)
      BY DEF StatusRight
  <2>1. Clean /\ ShownTruly
      BY DEF Clean, Untouched, ShownTruly
  <2>2. \A c \in Calls : ~Befriends(c)
      BY DEF Befriends, Calling
  <2> QED
      BY <2>1, <2>2 DEF PageInv, Orderly, ClicksAgree, RunsSound
<1> QED
    BY <1>1, PageInvariant, PTL

(* localStorage.nickname is the nickname in the database once no change of *)
(* one's data is under way, whatever was refused on the way.               *)
THEOREM NickAlwaysKept == Spec => []NickKept
<1>1. PageInv => NickKept
    BY DEF PageInv, NickKept, Clean, Orderly, NickFollows, Written, Calling
<1> QED
    BY <1>1, PageInvariant, PTL

=============================================================================
