------------------------ MODULE ClientSessionProofs ------------------------
(* Machine-checked proofs about ClientSession, for every set of users, of  *)
(* concurrent calls and of functions called, and every number of tokens.   *)
EXTENDS ClientSession, TLAPS

(* A token that exists was issued, and an expired one was too. *)
Issued(t) == t \in Tokens /\ t.no <= issued

(* A token is on its way to a call that refreshed: newer than the one that *)
(* was refused, and for the user of the cookie.                            *)
Bought(k) == /\ Issued(call[k].fresh)
             /\ call[k].fresh.user = call[k].paid
             /\ call[k].bearer # Null => call[k].fresh.no > call[k].bearer.no

(* A request that a server still has wrote nothing, one that was refused   *)
(* neither, and a refresh follows a refusal only.                          *)
CallOK(k) ==
    /\ call[k].bearer # Null => call[k].bearer.no <= issued
    /\ AtServer(k) \/ call[k].st \in {"refresh", "refreshed"} => call[k].done = 0
    /\ call[k].st = "refreshed" \/ (call[k].st = "refresh" /\ call[k].reply = "ok") => Bought(k)
    /\ call[k].st \in Asking /\ call[k].reply = "ok" /\ call[k].op \in Writes => call[k].done = 1

LoginOK(l) == /\ login[l].st # "idle" => login[l].user \in Users
              /\ login[l].st = "answered" =>
                    Issued(login[l].fresh) /\ login[l].fresh.user = login[l].user

(* As long as nothing is mixed, calls under way, the stored token and the  *)
(* cookie are of one user, and the log-ins under way are of that user again*)
(* and of one user in any case.                                            *)
CallWhose(k) ==
    /\ call[k].bearer # Null => call[k].bearer.user = call[k].page
    /\ call[k].by \in {Null, call[k].page}
    /\ call[k].st \in Active =>
         /\ token # Null /\ token.user = call[k].page /\ cookie = call[k].page
         /\ \A l \in Logins : login[l].st # "idle" => login[l].user = call[k].page
    /\ call[k].st \in {"refresh", "refreshed"} => call[k].paid = call[k].page

Whose == /\ isAuth => token # Null /\ token.user = nickname /\ cookie = nickname
         /\ \A l \in Logins :
               /\ login[l].st = "answered" => cookie = login[l].user
               /\ login[l].st # "idle" /\ isAuth => login[l].user = nickname
               /\ \A m \in Logins :
                     login[l].st # "idle" /\ login[m].st # "idle" => login[l].user = login[m].user
         /\ \A k \in Calls : CallWhose(k)

(* The steps of one log-in. *)
LogInStep(l) == \/ \E u \in Users : LogIn(l, u)
                \/ LogInAnswered(l) \/ LogInStored(l) \/ LogInFails(l)

(* The inductive invariant. *)
SessionInv == /\ TypeOK
              /\ token # Null => token.no <= issued
              /\ \A l \in Logins : LoginOK(l)
              /\ \A k \in Calls : CallOK(k)
              /\ EffectOnce
              /\ ~mixed => Whose

----------------------------------------------------------------------------
(* The types are kept by each action; a record changes in a few fields.    *)
LEMMA CallTyped ==
    ASSUME TypeOK, NEW k \in Calls, NEW r \in CallRecord, call' = [call EXCEPT ![k] = r]
    PROVE  call' \in [Calls -> CallRecord]
    BY DEF TypeOK

(* The types hold initially. *)
LEMMA TypeInit == Init => TypeOK
<1> SUFFICES ASSUME Init PROVE TypeOK
    OBVIOUS
<1>1. NoCall \in CallRecord
    BY DEF NoCall, CallRecord, Answers, Over
<1>2. NoLogin \in LoginRecord
    BY DEF NoLogin, LoginRecord
<1>3. call \in [Calls -> CallRecord] /\ login \in [Logins -> LoginRecord]
    BY <1>1, <1>2 DEF Init
<1>4. issued \in 0..MaxTokens /\ expired \in 0..issued
    BY SessionAssumption DEF Init
<1> QED
    BY <1>3, <1>4 DEF Init, TypeOK

(* Every handler keeps the types; a write is counted once only. *)
LEMMA TypeNext ==
    ASSUME TypeOK, \A l \in Logins : LoginOK(l), \A k \in Calls : CallOK(k), [Next]_vars
    PROVE  TypeOK'
<1> USE SessionAssumption
<1>0. /\ issued \in Nat /\ expired \in Nat /\ expired <= issued /\ issued <= MaxTokens
      /\ \A k \in Calls : call[k] \in CallRecord
    BY DEF TypeOK
<1>1. ASSUME NEW k \in Calls, NEW op \in Operations, Start(k, op) PROVE TypeOK'
  <2> DEFINE r == [NoCall EXCEPT !.st = "first", !.op = op, !.page = nickname,
                                 !.bearer = token, !.reply = Null]
  <2>1. NoCall \in CallRecord
    BY DEF NoCall, CallRecord, Answers, Over
  <2>2. r \in CallRecord
    BY <2>1, Zenon DEF CallRecord, Active, Asking, TypeOK
  <2> QED
    BY <1>1, <2>2, CallTyped DEF Start, TypeOK, storage
<1>2. ASSUME NEW k \in Calls, Settle(k) \/ RefreshFails(k) \/ AskRefresh(k) PROVE TypeOK'
    BY <1>0, <1>2 DEF Settle, RefreshFails, AskRefresh, TypeOK, storage, CallRecord, Active, Over
<1>3. ASSUME NEW k \in Calls, Refuse(k) \/ AnswerOnly(k) PROVE TypeOK'
    BY <1>0, <1>3 DEF Refuse, AnswerOnly, TypeOK, storage, CallRecord, Answers
<1>4. ASSUME NEW k \in Calls, Refreshed(k) \/ Retry(k) PROVE TypeOK'
    BY <1>0, <1>4 DEF Refreshed, Retry, TypeOK, CallRecord, Active, Asking
<1>5. ASSUME NEW k \in Calls, NewToken(k) PROVE TypeOK'
    BY <1>0, <1>5 DEF NewToken, Draw, TypeOK, storage, CallRecord, Answers, Tokens
<1>6. ASSUME NEW l \in Logins, NEW u \in Users, LogIn(l, u) PROVE TypeOK'
  <2>1. [NoLogin EXCEPT !.st = "asked", !.user = u] \in LoginRecord
    BY DEF NoLogin, LoginRecord
  <2>2. mixed' \in BOOLEAN
    BY <1>6, Zenon DEF LogIn
  <2> QED
    BY <1>0, <1>6, <2>1, <2>2 DEF LogIn, TypeOK, storage
<1>7. ASSUME NEW l \in Logins, LogInAnswered(l) \/ LogInStored(l) \/ LogInFails(l) PROVE TypeOK'
  <2>0. NoLogin \in LoginRecord /\ LoginOK(l) /\ login[l] \in LoginRecord
    BY DEF NoLogin, LoginRecord, TypeOK
  <2>1. CASE LogInAnswered(l)
    <3>1. login[l].user \in Users /\ issued + 1 \in 1..MaxTokens
      BY <1>0, <2>0, <2>1 DEF LogInAnswered, LoginOK
    <3>2. Draw(login[l].user) \in Tokens
      BY <3>1 DEF Draw, Tokens
    <3>3. login' \in [Logins -> LoginRecord]
      BY <2>1, <3>2 DEF LogInAnswered, LoginRecord, TypeOK
    <3> QED
      BY <1>0, <2>1, <3>1, <3>3 DEF LogInAnswered, TypeOK
  <2>2. CASE LogInStored(l)
    <3>1. login[l].fresh \in Tokens /\ login[l].user \in Users
      BY <2>0, <2>2 DEF LogInStored, LoginOK, Issued
    <3> QED
      BY <2>0, <2>2, <3>1 DEF LogInStored, TypeOK
  <2>3. CASE LogInFails(l)
    BY <2>0, <2>3 DEF LogInFails, TypeOK, storage
  <2> QED
    BY <1>7, <2>1, <2>2, <2>3
<1>8. CASE LogOut
    BY <1>8 DEF LogOut, TypeOK
<1>12. CASE TokenExpires
  <2>1. expired' \in 0..issued
    BY <1>0, <1>12 DEF TokenExpires
  <2> QED
    BY <1>12, <2>1 DEF TokenExpires, TypeOK, storage
<1>9. CASE Reload
  <2>1. login' \in [Logins -> LoginRecord]
    BY <1>9 DEF Reload, NoLogin, LoginRecord
  <2>2. ASSUME NEW k \in Calls PROVE call'[k] \in CallRecord
    BY <1>0, <1>9 DEF Reload, CallRecord, Over, Answers
  <2>3. call' \in [Calls -> CallRecord]
    BY <1>9, <2>2 DEF Reload
  <2> QED
    BY <1>9, <2>1, <2>3 DEF Reload, TypeOK, storage
<1>10. ASSUME NEW k \in Calls, Perform(k) PROVE TypeOK'
  <2>1. call[k].done = 0 /\ call[k].bearer.user \in Users
    BY <1>0, <1>10 DEF Perform, CallOK, CallRecord, Valid, Tokens
  <2> QED
    BY <1>0, <1>10, <2>1 DEF Perform, TypeOK, storage, CallRecord, Answers
<1>11. CASE UNCHANGED vars
    BY <1>11 DEF vars, TypeOK
<1> QED
    BY <1>1, <1>2, <1>3, <1>4, <1>5, <1>6, <1>7, <1>8, <1>9, <1>10, <1>11, <1>12
    DEF Next, Client, Server, LogInStep

----------------------------------------------------------------------------
(* Log-ins and the stored token. *)
LEMMA LoginNext ==
    ASSUME SessionInv, [Next]_vars
    PROVE  (\A m \in Logins : LoginOK(m)') /\ (token' # Null => token'.no <= issued')
<1> USE SessionAssumption
<1>1. /\ issued \in Nat /\ issued <= MaxTokens
      /\ \A k \in Calls : call[k] \in CallRecord
      /\ login \in [Logins -> LoginRecord] /\ token \in Tokens \cup {Null}
    BY DEF SessionInv, TypeOK
<1>2. (\A m \in Logins : LoginOK(m)) /\ (token # Null => token.no <= issued)
    BY DEF SessionInv
<1> DEFINE Goal == (\A m \in Logins : LoginOK(m)') /\ (token' # Null => token'.no <= issued')
<1>3. ASSUME issued' \in {issued, issued + 1}
      PROVE  /\ \A t \in Tokens \cup {Null} : t # Null /\ t.no <= issued => t.no <= issued'
             /\ \A t : Issued(t) => Issued(t)'
    BY <1>1, <1>3 DEF Issued, Tokens
<1>4. ASSUME issued' \in {issued, issued + 1}, NEW m \in Logins, login'[m] = login[m]
      PROVE  LoginOK(m)'
    BY <1>2, <1>3, <1>4 DEF LoginOK
<1>5. ASSUME UNCHANGED <<token, login>>, issued' \in {issued, issued + 1} PROVE Goal
    BY <1>1, <1>2, <1>3, <1>4, <1>5
<1>6. ASSUME NEW k \in Calls, Retry(k) PROVE Goal
  <2>1. Issued(call[k].fresh)
    BY <1>6 DEF Retry, SessionInv, CallOK, Bought
  <2> QED
    BY <1>2, <1>4, <1>6, <2>1 DEF Retry, Issued
<1>7. ASSUME NEW l \in Logins, NEW u \in Users, LogIn(l, u) PROVE Goal
  <2>1. login'[l].st = "asked" /\ login'[l].user = u /\ \A m \in Logins \ {l} : login'[m] = login[m]
    BY <1>1, <1>7 DEF LogIn, NoLogin
  <2>2. issued' = issued /\ token' = token
    BY <1>7 DEF LogIn, storage
  <2>3. LoginOK(l)'
    BY <2>1 DEF LoginOK
  <2> QED
    BY <1>2, <1>4, <2>1, <2>2, <2>3
<1>8. ASSUME NEW l \in Logins, LogInAnswered(l) PROVE Goal
  <2>1. LoginOK(l) /\ login[l] \in LoginRecord
    BY <1>1, <1>2
  <2>2. /\ Draw(login[l].user) \in Tokens /\ Draw(login[l].user).no = issued + 1
        /\ Draw(login[l].user).user = login[l].user /\ login[l].user \in Users
    BY <1>1, <1>8, <2>1 DEF LogInAnswered, Draw, Tokens, LoginOK
  <2>3. /\ login'[l].st = "answered" /\ login'[l].user = login[l].user
        /\ login'[l].fresh = Draw(login[l].user)
        /\ \A m \in Logins \ {l} : login'[m] = login[m]
    BY <1>1, <1>8, <2>1 DEF LogInAnswered, LoginRecord
  <2>4. LoginOK(l)'
    BY <1>1, <1>8, <2>2, <2>3 DEF LogInAnswered, LoginOK, Issued
  <2>5. issued' = issued + 1 /\ token' = token
    BY <1>8 DEF LogInAnswered
  <2> QED
    BY <1>1, <1>2, <1>3, <1>4, <2>3, <2>4, <2>5
<1>9. ASSUME NEW l \in Logins, LogInStored(l) \/ LogInFails(l) PROVE Goal
  <2>1. login'[l].st = "idle" /\ \A m \in Logins \ {l} : login'[m] = login[m]
    BY <1>1, <1>9 DEF LogInStored, LogInFails, NoLogin
  <2>2. issued' = issued /\ (token' = token \/ Issued(token'))
    BY <1>2, <1>9 DEF LogInStored, LogInFails, LoginOK, storage
  <2>3. LoginOK(l)'
    BY <2>1 DEF LoginOK
  <2> QED
    BY <1>2, <1>4, <2>1, <2>2, <2>3 DEF Issued
<1>10. CASE Reload
  <2>1. \A m \in Logins : login'[m].st = "idle"
    BY <1>10 DEF Reload, NoLogin
  <2> QED
    BY <1>2, <1>10, <2>1 DEF Reload, LoginOK, storage
<1>11. ASSUME NEW k \in Calls,
              (Client(k) /\ ~Retry(k)) \/ Server(k) \/ \E op \in Operations : Start(k, op)
       PROVE  Goal
  <2>1. UNCHANGED <<token, login>> /\ issued' \in {issued, issued + 1}
    BY <1>11 DEF Client, Server, Start, Settle, AskRefresh, Refreshed, RefreshFails, Refuse,
       Perform, AnswerOnly, NewToken, storage
  <2> QED
    BY <1>5, <2>1
<1>12. CASE LogOut \/ TokenExpires \/ UNCHANGED vars
  <2>1. UNCHANGED <<token, login>> /\ issued' = issued
    BY <1>12 DEF LogOut, TokenExpires, vars, storage
  <2> QED
    BY <1>5, <2>1
<1> QED
    BY <1>6, <1>7, <1>8, <1>9, <1>10, <1>11, <1>12 DEF Next

(* A call keeps its promises while others move. *)
LEMMA CallStays ==
    ASSUME SessionInv, NEW j \in Calls, call'[j] = call[j], issued <= issued', issued' \in Nat
    PROVE  CallOK(j)'
<1>1. issued \in Nat /\ call[j] \in CallRecord /\ CallOK(j)
    BY SessionAssumption DEF SessionInv, TypeOK
<1>2. AtServer(j)' <=> AtServer(j)
    BY DEF AtServer
<1>3. call[j].bearer # Null => call[j].bearer.no <= issued'
    BY <1>1 DEF CallOK, CallRecord, Tokens
<1>4. Bought(j) => Bought(j)'
    BY <1>1 DEF Bought, Issued, Tokens
<1> QED
    BY <1>1, <1>2, <1>3, <1>4 DEF CallOK

(* Every handler keeps what is promised of every call. *)
LEMMA CallNext ==
    ASSUME SessionInv, [Next]_vars, NEW j \in Calls
    PROVE  CallOK(j)'
<1> USE SessionAssumption
<1>1. /\ issued \in Nat /\ issued <= MaxTokens /\ call \in [Calls -> CallRecord]
      /\ call[j] \in CallRecord /\ CallOK(j) /\ EffectOnce
      /\ token \in Tokens \cup {Null} /\ (token # Null => token.no <= issued)
    BY DEF SessionInv, TypeOK
<1>2. CASE call'[j] = call[j] /\ issued' \in {issued, issued + 1}
    BY <1>1, <1>2, CallStays
<1>3. ASSUME NEW op \in Operations, Start(j, op) PROVE CallOK(j)'
  <2>1. call'[j] = [NoCall EXCEPT !.st = "first", !.op = op, !.page = nickname,
                                 !.bearer = token, !.reply = Null]
    BY <1>1, <1>3 DEF Start
  <2>2. /\ call'[j].st = "first" /\ call'[j].bearer = token /\ call'[j].reply = Null
        /\ call'[j].done = 0
    BY <2>1 DEF NoCall
  <2> QED
    BY <1>1, <1>3, <2>2 DEF Start, CallOK, AtServer, Asking, Answers
<1>4. CASE Settle(j) \/ RefreshFails(j)
    BY <1>1, <1>4 DEF Settle, RefreshFails, CallOK, AtServer, Asking, CallRecord
<1>5. CASE AskRefresh(j)
    BY <1>1, <1>5 DEF AskRefresh, CallOK, AtServer, Asking, EffectOnce, CallRecord
<1>6. CASE Refuse(j) \/ AnswerOnly(j)
    BY <1>1, <1>6 DEF Refuse, AnswerOnly, CallOK, AtServer, Asking, CallRecord
<1>7. CASE Perform(j)
    BY <1>1, <1>7 DEF Perform, CallOK, AtServer, Asking, CallRecord
<1>8. CASE NewToken(j)
  <2>1. call[j].paid # Null => /\ Draw(call[j].paid) \in Tokens
                               /\ Draw(call[j].paid).no = issued + 1
                               /\ Draw(call[j].paid).user = call[j].paid
    BY <1>1, <1>8 DEF NewToken, Draw, Tokens, CallRecord
  <2>2. call[j].bearer # Null => call[j].bearer.no <= issued /\ call[j].bearer.no \in Nat
    BY <1>1 DEF CallOK, CallRecord, Tokens
  <2> QED
    BY <1>1, <1>8, <2>1, <2>2 DEF NewToken, CallOK, Bought, Issued, AtServer, Asking, CallRecord
<1>9. CASE Refreshed(j)
    BY <1>1, <1>9 DEF Refreshed, CallOK, Bought, Issued, AtServer, Asking, CallRecord
<1>10. CASE Retry(j)
  <2>1. /\ call'[j].st = "retry" /\ call'[j].bearer = call[j].fresh /\ call'[j].reply = Null
        /\ call'[j].done = call[j].done
    BY <1>1, <1>10 DEF Retry, CallRecord
  <2>2. call[j].done = 0 /\ Issued(call[j].fresh) /\ issued' = issued
    BY <1>1, <1>10 DEF Retry, CallOK, Bought
  <2> QED
    BY <1>1, <2>1, <2>2 DEF CallOK, AtServer, Asking, Issued, Answers
<1>11. CASE Reload
    BY <1>1, <1>11 DEF Reload, CallOK, AtServer, Asking, Active, CallRecord
<1>12. ASSUME NEW k \in Calls, k # j, Client(k) \/ Server(k) \/ \E op \in Operations : Start(k, op)
       PROVE  CallOK(j)'
  <2>1. call'[j] = call[j] /\ issued' \in {issued, issued + 1}
    BY <1>1, <1>12 DEF Client, Server, Start, Settle, AskRefresh, Refreshed, RefreshFails, Retry,
       Refuse, Perform, AnswerOnly, NewToken
  <2> QED
    BY <1>2, <2>1
<1>13. CASE (\E l \in Logins : LogInStep(l)) \/ LogOut \/ TokenExpires \/ UNCHANGED vars
  <2>1. call'[j] = call[j] /\ issued' \in {issued, issued + 1}
    BY <1>13 DEF LogInStep, LogIn, LogInAnswered, LogInStored, LogInFails, LogOut, TokenExpires, vars
  <2> QED
    BY <1>2, <2>1
<1> QED
    BY <1>3, <1>4, <1>5, <1>6, <1>7, <1>8, <1>9, <1>10, <1>11, <1>12, <1>13
    DEF Next, Client, Server, LogInStep

----------------------------------------------------------------------------
(* A reload gives up the calls under way and changes nothing else of them. *)
LEMMA ReloadFrame ==
    ASSUME SessionInv, Reload, NEW k \in Calls
    PROVE  \/ call'[k] = call[k] /\ call[k].st \notin Active
           \/ /\ call'[k].st = "aborted" /\ call'[k].done = call[k].done
              /\ call'[k].reply \in {call[k].reply, "lost"}
<1>1. call[k] \in CallRecord
    BY DEF SessionInv, TypeOK
<1>2. CASE call[k].st \in Active
  <2> DEFINE a == IF call[k].st \in Asking THEN call[k].reply ELSE "lost"
             r == [call[k] EXCEPT !.st = "aborted", !.reply = a]
  <2>1. call'[k] = r
    BY <1>2 DEF Reload
  <2>2. r.st = "aborted" /\ r.done = call[k].done /\ r.reply = a
    <3> HIDE DEF a
    <3> QED
      BY <1>1 DEF CallRecord
  <2> QED
    BY <2>1, <2>2
<1>3. CASE call[k].st \notin Active
    BY <1>3 DEF Reload
<1> QED
    BY <1>2, <1>3

(* A call writes at most once. *)
LEMMA EffectNext ==
    ASSUME SessionInv, [Next]_vars
    PROVE  EffectOnce'
<1> USE SessionAssumption
<1> SUFFICES ASSUME NEW j \in Calls
             PROVE  /\ call'[j].done <= 1
                    /\ call'[j].st = "resolved" /\ call'[j].op \in Writes => call'[j].done = 1
                    /\ call'[j].reply = "unauthorized" => call'[j].done = 0
    BY DEF EffectOnce
<1>1. /\ call \in [Calls -> CallRecord] /\ call[j] \in CallRecord /\ CallOK(j)
      /\ call[j].done <= 1
      /\ call[j].st = "resolved" /\ call[j].op \in Writes => call[j].done = 1
      /\ call[j].reply = "unauthorized" => call[j].done = 0
    BY DEF SessionInv, TypeOK, EffectOnce
<1>2. CASE call'[j] = call[j]
    BY <1>1, <1>2
<1>3. ASSUME NEW op \in Operations, Start(j, op)
      PROVE  call'[j].done = 0 /\ call'[j].st # "resolved"
  <2>1. call'[j] = [NoCall EXCEPT !.st = "first", !.op = op, !.page = nickname,
                                 !.bearer = token, !.reply = Null]
    BY <1>1, <1>3 DEF Start
  <2> QED
    BY <2>1 DEF NoCall
<1>4. CASE Settle(j)
    BY <1>1, <1>4 DEF Settle, CallOK, Asking, CallRecord
<1>5. CASE RefreshFails(j) \/ AskRefresh(j) \/ Refreshed(j)
    BY <1>1, <1>5 DEF RefreshFails, AskRefresh, Refreshed, CallRecord, Answers
<1>11. CASE Reload
    BY <1>1, <1>11, ReloadFrame
<1>6. CASE Refuse(j) \/ AnswerOnly(j) \/ NewToken(j)
    BY <1>1, <1>6 DEF Refuse, AnswerOnly, NewToken, CallOK, AtServer, Asking, CallRecord
<1>7. CASE Perform(j)
    BY <1>1, <1>7 DEF Perform, CallOK, AtServer, Asking, CallRecord
<1>8. CASE Retry(j)
  <2>1. call'[j].st = "retry" /\ call'[j].reply = Null /\ call'[j].done = call[j].done
    BY <1>1, <1>8 DEF Retry, CallRecord
  <2> QED
    BY <1>1, <2>1 DEF Answers
<1>9. ASSUME NEW k \in Calls, k # j, Client(k) \/ Server(k) \/ \E op \in Operations : Start(k, op)
      PROVE  call'[j] = call[j]
    BY <1>1, <1>9 DEF Client, Server, Start, Settle, AskRefresh, Refreshed, RefreshFails, Retry,
       Refuse, Perform, AnswerOnly, NewToken
<1>10. CASE (\E l \in Logins : LogInStep(l)) \/ LogOut \/ TokenExpires \/ UNCHANGED vars
    BY <1>1, <1>10 DEF LogInStep, LogIn, LogInAnswered, LogInStored, LogInFails, LogOut, TokenExpires, vars
<1> QED
    BY <1>2, <1>3, <1>4, <1>5, <1>6, <1>7, <1>8, <1>9, <1>10, <1>11
    DEF Next, Client, Server, LogInStep

(* While nothing is mixed, everything stays with one user: first what a    *)
(* call does by itself.                                                    *)
LEMMA WhoseCalls ==
    ASSUME SessionInv, Whose, NEW k \in Calls, Client(k) \/ Server(k)
    PROVE  Whose'
<1> USE SessionAssumption
<1>1. /\ call \in [Calls -> CallRecord] /\ call[k] \in CallRecord /\ CallOK(k) /\ CallWhose(k)
    BY DEF SessionInv, TypeOK, Whose
<1>2. /\ \A j \in Calls \ {k} : call'[j] = call[j]
      /\ nickname' = nickname /\ isAuth' = isAuth /\ login' = login
    BY <1>1 DEF Client, Server, Settle, AskRefresh, Refreshed, RefreshFails, Retry,
       Refuse, Perform, AnswerOnly, NewToken, storage
<1>3. CASE ~Refreshed(k) /\ ~Retry(k)
  <2>1. token' = token /\ cookie' = cookie
    BY <1>1, <1>3 DEF Client, Server, Settle, AskRefresh, RefreshFails, Refuse, Perform,
       AnswerOnly, NewToken, storage
  <2>2. \A j \in Calls \ {k} : CallWhose(j)'
    BY <1>2, <2>1 DEF Whose, CallWhose
  <2>3. /\ call'[k].bearer = call[k].bearer /\ call'[k].page = call[k].page
        /\ call'[k].by \in {call[k].by, call[k].bearer.user}
        /\ call'[k].by # call[k].by => call[k].bearer # Null
        /\ call'[k].st \in Active => call[k].st \in Active
        /\ call'[k].st \in {"refresh", "refreshed"} =>
             \/ call'[k].paid = cookie
             \/ call'[k].paid = call[k].paid /\ call[k].st \in {"refresh", "refreshed"}
    BY <1>1, <1>3 DEF Client, Server, Settle, AskRefresh, RefreshFails, Refuse, Perform,
       AnswerOnly, NewToken, Valid, CallRecord, Active, Asking
  <2>4. CallWhose(k)'
    BY <1>1, <1>2, <2>1, <2>3 DEF CallWhose, Active
  <2> QED
    BY <1>2, <2>1, <2>2, <2>4 DEF Whose
<1>4. CASE Refreshed(k)
  <2>1. cookie' = cookie /\ token' = token /\ call'[k].st = "refreshed"
        /\ call'[k].bearer = call[k].bearer /\ call'[k].page = call[k].page
        /\ call'[k].by = call[k].by /\ call'[k].paid = call[k].paid
    BY <1>1, <1>4 DEF Refreshed, CallWhose, CallRecord, Active
  <2>2. CallWhose(k)'
    BY <1>1, <1>2, <1>4, <2>1 DEF CallWhose, Refreshed, Active
  <2> QED
    BY <1>2, <2>1, <2>2 DEF Whose, CallWhose
<1>5. CASE Retry(k)
  <2>1. /\ cookie' = cookie /\ token' = call[k].fresh /\ call'[k].st = "retry"
        /\ call'[k].bearer = call[k].fresh /\ call'[k].page = call[k].page
        /\ call'[k].by = call[k].by
    BY <1>1, <1>5 DEF Retry, CallRecord
  <2>2. /\ token' # Null /\ token # Null
        /\ token'.user = call[k].page /\ token.user = call[k].page
    BY <1>1, <1>5, <2>1 DEF Retry, CallOK, Bought, Issued, CallWhose, Active
  <2>3. CallWhose(k)'
    BY <1>1, <1>2, <1>5, <2>1, <2>2 DEF CallWhose, Retry, Active
  <2>4. \A j \in Calls \ {k} : CallWhose(j)'
    BY <1>2, <2>1, <2>2 DEF Whose, CallWhose
  <2> QED
    BY <1>2, <2>1, <2>2, <2>3, <2>4 DEF Whose
<1> QED
    BY <1>3, <1>4, <1>5

(* Then what the user does. *)
LEMMA WhoseUser ==
    ASSUME SessionInv, ~mixed => Whose, [Next]_vars, ~mixed',
           ~\E k \in Calls : Client(k) \/ Server(k)
    PROVE  Whose'
<1> USE SessionAssumption
<1>1. /\ call \in [Calls -> CallRecord] /\ \A k \in Calls : call[k] \in CallRecord
      /\ login \in [Logins -> LoginRecord] /\ \A l \in Logins : LoginOK(l)
      /\ nickname \in Users \cup {Null}
    BY DEF SessionInv, TypeOK
<1>2. ~mixed /\ Whose
  <2>1. ASSUME NEW l \in Logins, NEW u \in Users, LogIn(l, u) PROVE ~mixed
    BY <2>1, Zenon DEF LogIn
  <2>2. CASE mixed' = mixed
    BY <2>2, Zenon
  <2>3. (\E l \in Logins, u \in Users : LogIn(l, u)) \/ mixed' = mixed
    BY DEF Next, Start, LogInAnswered, LogInStored, LogInFails, LogOut, Reload, TokenExpires, vars
  <2> QED
    BY <2>1, <2>2, <2>3
<1>3. CASE UNCHANGED <<storage, login, call>>
    BY <1>2, <1>3 DEF Whose, CallWhose, storage
<1>4. ASSUME NEW k \in Calls, NEW op \in Operations, Start(k, op) PROVE Whose'
  <2>1. /\ call'[k] = [NoCall EXCEPT !.st = "first", !.op = op, !.page = nickname,
                                    !.bearer = token, !.reply = Null]
        /\ \A j \in Calls \ {k} : call'[j] = call[j]
        /\ UNCHANGED <<token, nickname, isAuth, cookie, login>> /\ isAuth
    BY <1>1, <1>4 DEF Start, storage
  <2>2. /\ call'[k].st = "first" /\ call'[k].page = nickname /\ call'[k].bearer = token
        /\ call'[k].by = Null
    BY <2>1 DEF NoCall
  <2>3. CallWhose(k)'
    BY <1>1, <1>2, <2>1, <2>2 DEF CallWhose, Whose
  <2>4. \A j \in Calls \ {k} : CallWhose(j)'
    BY <1>2, <2>1 DEF Whose, CallWhose
  <2> QED
    BY <1>1, <1>2, <2>1, <2>3, <2>4 DEF Whose
<1>5. ASSUME NEW l \in Logins, NEW u \in Users, LogIn(l, u) PROVE Whose'
  <2>1. /\ login'[l].st = "asked" /\ login'[l].user = u /\ ~isAuth
        /\ \A m \in Logins \ {l} : login'[m] = login[m]
        /\ UNCHANGED <<token, nickname, isAuth, cookie, call>>
    BY <1>1, <1>5 DEF LogIn, NoLogin, storage
  <2>2. \A k \in Calls : call[k].st \in Active => call[k].page = u
    BY <1>5, Zenon DEF LogIn, UnderWay
  <2>3. \A m \in Logins : login[m].st # "idle" => login[m].user = u
    BY <1>5, Zenon DEF LogIn, Entering
  <2>4. \A m \in Logins : login'[m].st # "idle" => login'[m].user = u
    BY <2>1, <2>3
  <2> QED
    BY <1>2, <2>1, <2>2, <2>3, <2>4 DEF Whose, CallWhose
<1>6. ASSUME NEW l \in Logins, LogInAnswered(l) PROVE Whose'
  <2>1. /\ login'[l].st = "answered" /\ login'[l].user = login[l].user
        /\ cookie' = login[l].user /\ login[l].st = "asked"
        /\ \A m \in Logins \ {l} : login'[m] = login[m]
        /\ UNCHANGED <<token, nickname, isAuth, call>>
    BY <1>1, <1>6 DEF LogInAnswered, LoginRecord
  <2>2. \A m \in Logins : login'[m].st # "idle" <=> login[m].st # "idle"
    BY <2>1
  <2>3. \A m \in Logins : login'[m].user = login[m].user
    BY <2>1
  <2>4. \A m \in Logins : login[m].st # "idle" => login[m].user = login[l].user
    BY <1>2, <2>1 DEF Whose
  <2>5. \A k \in Calls : CallWhose(k)'
    BY <1>2, <2>1, <2>2, <2>3 DEF Whose, CallWhose
  <2> QED
    BY <1>2, <2>1, <2>2, <2>3, <2>4, <2>5 DEF Whose
<1>7. ASSUME NEW l \in Logins, LogInStored(l) PROVE Whose'
  <2>1. /\ login'[l].st = "idle" /\ login[l].st = "answered" /\ token' = login[l].fresh
        /\ nickname' = login[l].user /\ UNCHANGED <<cookie, call>>
        /\ \A m \in Logins \ {l} : login'[m] = login[m]
    BY <1>1, <1>7 DEF LogInStored, NoLogin
  <2>2. token' # Null /\ token'.user = login[l].user
    BY <1>1, <2>1 DEF LoginOK, Issued
  <2>3. \A m \in Logins : login'[m].st # "idle" => login'[m] = login[m]
    BY <2>1
  <2>4. cookie = login[l].user
        /\ \A m \in Logins : login[m].st # "idle" => login[m].user = login[l].user
    BY <1>2, <2>1 DEF Whose
  <2>5. \A k \in Calls : CallWhose(k)'
    BY <1>2, <2>1, <2>2, <2>3 DEF Whose, CallWhose
  <2> QED
    BY <1>2, <2>1, <2>2, <2>3, <2>4, <2>5 DEF Whose
<1>8. CASE LogOut \/ \E l \in Logins : LogInFails(l)
  <2>1. /\ \A m \in Logins : login'[m].st # "idle" => login'[m] = login[m]
        /\ UNCHANGED <<token, cookie, call>>
        /\ isAuth' => isAuth /\ nickname' = nickname
    BY <1>1, <1>8 DEF LogInFails, LogOut, NoLogin, storage
  <2>2. \A k \in Calls : CallWhose(k)'
    BY <1>2, <2>1 DEF Whose, CallWhose
  <2> QED
    BY <1>2, <2>1, <2>2 DEF Whose
<1>9. CASE Reload
  <2>1. (\A l \in Logins : login'[l].st = "idle") /\ UNCHANGED <<token, nickname, isAuth, cookie>>
    BY <1>9 DEF Reload, NoLogin, storage
  <2>2. ASSUME NEW k \in Calls
        PROVE  /\ call'[k].bearer = call[k].bearer /\ call'[k].page = call[k].page
               /\ call'[k].by = call[k].by /\ call'[k].st \notin Active
    BY <1>1, <1>9 DEF Reload, CallRecord, Active, Asking
  <2>3. \A k \in Calls : CallWhose(k)'
    BY <1>2, <2>2 DEF Whose, CallWhose, Active
  <2> QED
    BY <1>2, <2>1, <2>3 DEF Whose
<1> QED
    BY <1>3, <1>4, <1>5, <1>6, <1>7, <1>8, <1>9 DEF Next, TokenExpires, vars, storage

(* The invariant holds when the page is first loaded. *)
LEMMA SessionInvInit == Init => SessionInv
<1> SUFFICES ASSUME Init PROVE SessionInv
    OBVIOUS
<1> USE SessionAssumption
<1>1. /\ TypeOK /\ token = Null /\ isAuth = FALSE /\ issued = 0
      /\ \A l \in Logins : login[l].st = "idle"
    BY TypeInit DEF Init, NoLogin
<1>2. \A k \in Calls : /\ call[k].st = "idle" /\ call[k].bearer = Null /\ call[k].by = Null
                      /\ call[k].reply = "lost" /\ call[k].done = 0
    BY DEF Init, NoCall
<1>3. (\A l \in Logins : LoginOK(l)) /\ (token # Null => token.no <= issued)
    BY <1>1 DEF LoginOK
<1>4. (\A k \in Calls : CallOK(k)) /\ EffectOnce
    BY <1>2 DEF CallOK, AtServer, EffectOnce, Asking
<1>5. Whose
    BY <1>1, <1>2 DEF Whose, CallWhose, Active, Asking
<1> QED
    BY <1>1, <1>3, <1>4, <1>5 DEF SessionInv

(* Every handler of the tab and of the servers preserves it. *)
LEMMA SessionInvNext == SessionInv /\ [Next]_vars => SessionInv'
<1> SUFFICES ASSUME SessionInv, [Next]_vars PROVE SessionInv'
    OBVIOUS
<1>1. TypeOK'
    BY TypeNext DEF SessionInv
<1>2. (\A l \in Logins : LoginOK(l)') /\ (token' # Null => token'.no <= issued')
    BY LoginNext
<1>3. \A k \in Calls : CallOK(k)'
    BY CallNext
<1>4. EffectOnce'
    BY EffectNext
<1>5. ASSUME ~mixed' PROVE Whose'
  <2>1. ~mixed => Whose
    BY DEF SessionInv
  <2>2. ASSUME NEW k \in Calls, Client(k) \/ Server(k) PROVE Whose'
    <3>1. ~mixed
      BY <1>5, <2>2 DEF Client, Server, Settle, AskRefresh, Refreshed, RefreshFails, Retry,
         Refuse, Perform, AnswerOnly, NewToken
    <3> QED
      BY <2>1, <2>2, <3>1, WhoseCalls
  <2> QED
    BY <1>5, <2>1, <2>2, WhoseUser
<1> QED
    BY <1>1, <1>2, <1>3, <1>4, <1>5 DEF SessionInv

----------------------------------------------------------------------------
(* The inductive invariant of the session. *)
THEOREM SessionInvariant == Spec => []SessionInv
    BY SessionInvInit, SessionInvNext, PTL DEF Spec

(* Storage, cookie and calls keep their types, counters their bounds. *)
THEOREM SessionTypeCorrect == Spec => []TypeOK
<1>1. SessionInv => TypeOK
    BY DEF SessionInv
<1> QED
    BY <1>1, SessionInvariant, PTL

(* However many calls refresh and retry beside one another, each writes at *)
(* most once, and a write that resolved was performed.                     *)
THEOREM EffectAlwaysOnce == Spec => []EffectOnce
<1>1. SessionInv => EffectOnce
    BY DEF SessionInv
<1> QED
    BY <1>1, SessionInvariant, PTL

(* Without a log-in over calls or log-ins of another user, every write is  *)
(* made for the user whose page made it, however many log-ins overlap.     *)
THEOREM AlwaysActsForPage == Spec => []ActsForPage
<1>1. SessionInv => ActsForPage
    BY DEF SessionInv, Whose, CallWhose, ActsForPage
<1> QED
    BY <1>1, SessionInvariant, PTL

(* No concurrent refresh makes a retry carry an older token. *)
THEOREM RetryAlwaysNewer == Spec => RetryIsNewer
<1>1. ASSUME SessionInv, [Next]_vars, NEW k \in Calls,
             call[k].st = "refreshed", call'[k].st = "retry"
      PROVE  call[k].bearer = Null \/ call'[k].bearer.no > call[k].bearer.no
  <2>1. call \in [Calls -> CallRecord] /\ call[k] \in CallRecord /\ CallOK(k)
    BY <1>1 DEF SessionInv, TypeOK
  <2>2. Retry(k)
    <3>1. ASSUME NEW j \in Calls, j # k,
                 Client(j) \/ Server(j) \/ \E op \in Operations : Start(j, op)
          PROVE  call'[k] = call[k]
      BY <2>1, <3>1 DEF Client, Server, Start, Settle, AskRefresh, Refreshed, RefreshFails,
         Retry, Refuse, Perform, AnswerOnly, NewToken
    <3>2. ~\E op \in Operations : Start(k, op)
      BY <1>1 DEF Start, Over
    <3>3. Client(k) \/ Server(k) => Retry(k)
      BY <1>1, <2>1 DEF Client, Server, Settle, AskRefresh, Refreshed, RefreshFails,
         Refuse, Perform, AnswerOnly, NewToken, AtServer, Asking
    <3>4. ~Reload
      BY <1>1, ReloadFrame DEF Active
    <3>5. ~((\E l \in Logins : LogInStep(l)) \/ LogOut \/ TokenExpires \/ UNCHANGED vars)
      BY <1>1 DEF LogInStep, LogIn, LogInAnswered, LogInStored, LogInFails, LogOut, TokenExpires, vars
    <3> QED
      BY <1>1, <3>1, <3>2, <3>3, <3>4, <3>5 DEF Next, LogInStep
  <2> QED
    BY <1>1, <2>1, <2>2 DEF Retry, CallOK, Bought, CallRecord
<1>2. SessionInv /\ [Next]_vars =>
        [\A k \in Calls :
            call[k].st = "refreshed" /\ call'[k].st = "retry" =>
               \/ call[k].bearer = Null
               \/ call'[k].bearer.no > call[k].bearer.no]_vars
    BY <1>1
<1> QED
    BY <1>2, SessionInvariant, PTL DEF Spec, RetryIsNewer
=============================================================================
