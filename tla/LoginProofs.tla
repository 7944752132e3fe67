---------------------------- MODULE LoginProofs ----------------------------
(* Machine-checked proofs about Login, for every set of clients, addresses,*)
(* ways to fold them and ids to probe for.                                 *)
EXTENDS Login, RegistrationProofs

(* users_email_key. *)
EmailsUnique == \A i, j \in DOMAIN users : users[i].email = users[j].email => i = j

(* A client that was told ok owns the row its registration created. *)
OkOwned == \A c \in Clients : reply[c] = "ok" => users[userId[c]].owner = c

(* A token names an id that was drawn. *)
SessionsDrawn == session \in [Clients -> 1..userSeq \cup {Null}]

LoginInv == SagaInv /\ EmailsUnique /\ OkOwned /\ SessionsDrawn /\ SessionStaysOwn

(* Rows keep owner and address, and a new one has an id and an address     *)
(* that no row ever had and that no row has.                               *)
RowsKept ==
    /\ userSeq' \in {userSeq, userSeq + 1}
    /\ \A i \in DOMAIN users' :
          \/ /\ i \in DOMAIN users
             /\ users'[i].owner = users[i].owner /\ users'[i].email = users[i].email
          \/ /\ i = userSeq + 1 /\ userSeq' = userSeq + 1
             /\ \A j \in DOMAIN users : users[j].email # users'[i].email

----------------------------------------------------------------------------
(* The three statements on users. *)
LEMMA InsertUserKeepsRows ==
    ASSUME TypeOK, NEW c \in Clients, form[c] \in Forms, InsertUser(c)
    PROVE  RowsKept
    BY DEF TypeOK, InsertUser, Taken, RowsKept, Forms

(* The picture of a row is set. *)
LEMMA SetPhotoKeepsRows ==
    ASSUME TypeOK, NEW c \in Clients, SetPhoto(c)
    PROVE  RowsKept
<1>1. userSeq' = userSeq /\ DOMAIN users' = DOMAIN users
    BY DEF SetPhoto
<1>2. ASSUME NEW i \in DOMAIN users
      PROVE  users'[i].owner = users[i].owner /\ users'[i].email = users[i].email
  <2>1. users[i] \in UserRow
    BY DEF TypeOK
  <2> QED
    BY <2>1 DEF SetPhoto, UserRow
<1> QED
    BY <1>1, <1>2 DEF RowsKept

(* Every step of Registration keeps the rows in this sense. *)
LEMMA NextKeepsRows ==
    ASSUME SagaInv, [Next]_vars
    PROVE  RowsKept
<1>1. TypeOK
    BY DEF SagaInv
<1>2. CASE UNCHANGED users /\ UNCHANGED userSeq
    BY <1>2 DEF RowsKept
<1>3. ASSUME NEW c \in Clients, AddNewUser(c) PROVE RowsKept
  <2>1. CASE AddProperties(c)
    <3>1. form[c] \in Forms
      BY <2>1 DEF AddProperties, SagaInv, Control
    <3>2. InsertUser(c) \/ UNCHANGED dbVars
      BY <2>1 DEF AddProperties
    <3> QED
      BY <1>1, <1>2, <3>1, <3>2, InsertUserKeepsRows DEF dbVars
  <2>2. CASE ConnectPropertiesAndPhoto(c)
    <3>1. SetPhoto(c) \/ UNCHANGED dbVars
      BY <2>2 DEF ConnectPropertiesAndPhoto
    <3> QED
      BY <1>1, <1>2, <3>1, SetPhotoKeepsRows DEF dbVars
  <2>3. CASE AddNewPhoto(c) \/ DeletePhoto(c) \/ DeletePhotoFails(c)
    BY <1>2, <2>3 DEF AddNewPhoto, InsertPicture, DeletePhoto, DeletePhotoFails, dbVars
  <2>4. CASE DeleteRow(c) \/ DeleteRowFails(c)
    BY <1>1, <2>4 DEF DeleteRow, DeleteRowFails, dbVars, RowsKept, TypeOK
  <2> QED
    BY <1>3, <2>1, <2>2, <2>3, <2>4 DEF AddNewUser
<1>4. CASE (\E c \in Clients : SendAnswer(c) \/ \E f \in Forms : Submit(c, f))
             \/ (\E u, f \in 1..userSeq : u # f /\ (MakeFriend(u, f) \/ DeleteFriend(u, f)))
             \/ ServerDies \/ UNCHANGED vars
    BY <1>2, <1>4 DEF SendAnswer, Submit, MakeFriend, DeleteFriend, ServerDies, dbVars, vars
<1> QED
    BY <1>3, <1>4 DEF Next, Thread

(* Who is told ok owns the row: nobody else's answer speaks of it. *)
LEMMA OkOwnedNext ==
    ASSUME SagaInv, SagaInv', OkOwned, [Next]_vars
    PROVE  OkOwned'
<1>1. RowsKept /\ TypeOK /\ TypeOK'
    BY NextKeepsRows DEF SagaInv
<1> SUFFICES ASSUME NEW c \in Clients, reply'[c] = "ok"
             PROVE  users'[userId'[c]].owner = c
    BY DEF OkOwned
<1>2. userId'[c] \in DOMAIN users' /\ userId'[c] # Null
    BY DEF SagaInv, Control, Complete
<1>3. \/ reply[c] = "ok" /\ userId'[c] = userId[c]
      \/ pc[c] = "connect" /\ userId'[c] = userId[c]
  <2>1. ASSUME NEW d \in Clients, AddNewUser(d)
        PROVE  \/ reply[c] = "ok" /\ userId'[c] = userId[c]
               \/ pc[c] = "connect" /\ userId'[c] = userId[c]
    BY <1>1, <2>1 DEF AddNewUser, AddProperties, AddNewPhoto, ConnectPropertiesAndPhoto,
       DeletePhoto, DeletePhotoFails, DeleteRow, DeleteRowFails, Finish, Goto, TypeOK,
       SagaInv, Control, Steps
  <2>2. ASSUME NEW d \in Clients, SendAnswer(d) \/ \E f \in Forms : Submit(d, f)
        PROVE  reply[c] = "ok" /\ userId'[c] = userId[c]
    BY <1>1, <2>2, RegistrationAssumption DEF SendAnswer, Submit, Goto, TypeOK, Replies
  <2>3. CASE (\E u, f \in 1..userSeq : u # f /\ (MakeFriend(u, f) \/ DeleteFriend(u, f)))
               \/ UNCHANGED vars
    BY <2>3 DEF MakeFriend, DeleteFriend, vars
  <2>4. CASE ServerDies
    BY <1>1, <2>4, RegistrationAssumption DEF ServerDies, TypeOK, Replies
  <2> QED
    BY <2>1, <2>2, <2>3, <2>4 DEF Next, Thread
<1>4. userId[c] \in DOMAIN users /\ users[userId[c]].owner = c
    BY <1>3 DEF OkOwned, SagaInv, Control, Complete, OwnRow, Saga
<1>5. userId[c] \in 1..userSeq
    BY <1>1, <1>4 DEF TypeOK
<1>6. userId[c] # userSeq + 1
    BY <1>1, <1>5 DEF TypeOK
<1> QED
    BY <1>1, <1>2, <1>3, <1>4, <1>6 DEF RowsKept

----------------------------------------------------------------------------
(* The invariant holds before the first request. *)
LEMMA LoginInvInit == LoginInit => LoginInv
<1> SUFFICES ASSUME LoginInit PROVE LoginInv
    OBVIOUS
<1>1. SagaInv
    BY SagaInvInit DEF LoginInit
<1>2. DOMAIN users = {}
    BY DEF LoginInit, Init
<1>3. EmailsUnique
    BY <1>2 DEF EmailsUnique
<1>4. OkOwned
    BY RegistrationAssumption DEF LoginInit, Init, OkOwned, Replies
<1>5. SessionsDrawn
    BY DEF LoginInit, SessionsDrawn
<1>6. SessionStaysOwn
    BY <1>2 DEF SessionStaysOwn
<1> QED
    BY <1>1, <1>3, <1>4, <1>5, <1>6 DEF LoginInv

(* And every step of a registration and every log-in preserves it. *)
LEMMA LoginInvNext == LoginInv /\ [LoginNext]_<<vars, session>> => LoginInv'
<1> SUFFICES ASSUME LoginInv, [LoginNext]_<<vars, session>> PROVE LoginInv'
    OBVIOUS
<1>1. TypeOK /\ SagaInv /\ EmailsUnique /\ OkOwned /\ SessionsDrawn /\ SessionStaysOwn
    BY DEF LoginInv, SagaInv
<1>2. ASSUME [Next]_vars, UNCHANGED session PROVE LoginInv'
  <2>1. SagaInv' /\ RowsKept
    BY <1>1, <1>2, SagaInvNext, NextKeepsRows
  <2>2. OkOwned'
    BY <1>1, <1>2, <2>1, OkOwnedNext
  <2>3. EmailsUnique'
    BY <1>1, <2>1 DEF EmailsUnique, RowsKept, TypeOK
  <2>4. SessionsDrawn'
    BY <1>1, <1>2, <2>1 DEF SessionsDrawn, RowsKept, TypeOK
  <2>5. SessionStaysOwn'
    <3> SUFFICES ASSUME NEW c \in Clients, session[c] \in DOMAIN users'
                 PROVE  users'[session[c]].owner = c
      BY <1>2 DEF SessionStaysOwn
    <3>1. session[c] \in 1..userSeq \cup {Null} /\ userSeq \in Nat
      BY <1>1, RegistrationAssumption DEF SessionsDrawn, TypeOK
    <3>2. session[c] # userSeq + 1
      BY <3>1, RegistrationAssumption
    <3> QED
      BY <1>1, <2>1, <3>2 DEF SessionStaysOwn, RowsKept
  <2> QED
    BY <2>1, <2>2, <2>3, <2>4, <2>5 DEF LoginInv
<1>3. ASSUME NEW c \in Clients, NEW e \in Emails, LogIn(c, e) PROVE LoginInv'
  <2>1. SagaInv'
    BY <1>1, <1>3, SagaInvNext DEF LogIn
  <2>2. CASE session' = session
    BY <1>1, <1>3, <2>1, <2>2
       DEF LoginInv, SessionsDrawn, SessionStaysOwn, EmailsUnique, OkOwned, LogIn, vars
  <2>3. CASE session' # session
    <3>1. PICK i \in Matches(e) : session' = [session EXCEPT ![c] = i]
      BY <1>3, <2>3 DEF LogIn
    <3>2. Throws(c, e) \subseteq {"fault"}
      BY <1>3, <2>3 DEF LogIn
    <3>3. \E j \in DOMAIN users : Matches(e) = {j}
      <4> SUFFICES ASSUME ~\E j \in DOMAIN users : Matches(e) = {j}
                   PROVE  "rows" \in Throws(c, e)
        BY <3>2
      <4> QED
        BY DEF Throws, Causes
    <3>4. users[i].owner = c
      <4> SUFFICES ASSUME users[i].owner # c
                   PROVE  "password" \in Throws(c, e)
        BY <3>2
      <4> QED
        BY <3>3 DEF Throws, Causes
    <3>5. i \in DOMAIN users
      BY DEF Matches
    <3>6. SessionsDrawn'
      BY <1>1, <1>3, <3>1, <3>5 DEF SessionsDrawn, LogIn, vars, TypeOK
    <3>7. SessionStaysOwn'
      BY <1>1, <1>3, <3>1, <3>4 DEF SessionStaysOwn, SessionsDrawn, LogIn, vars
    <3>8. EmailsUnique' /\ OkOwned'
      BY <1>1, <1>3 DEF EmailsUnique, OkOwned, LogIn, vars
    <3> QED
      BY <2>1, <3>6, <3>7, <3>8 DEF LoginInv
  <2> QED
    BY <2>2, <2>3
<1> QED
    BY <1>2, <1>3 DEF LoginNext, vars

(* The inductive invariant of Login. *)
THEOREM LoginInvariant == LoginSpec => []LoginInv
    BY LoginInvInit, LoginInvNext, PTL DEF LoginSpec

(* A token never comes to name the account of another client: ids are      *)
(* drawn from a sequence and never given out again.                        *)
THEOREM SessionAlwaysOwn == LoginSpec => []SessionStaysOwn
<1>1. LoginInv => SessionStaysOwn
    BY DEF LoginInv
<1> QED
    BY <1>1, LoginInvariant, PTL

(* checkPassword never refuses a registered client, with the right address *)
(* and password, for its password, and for its address only when a second  *)
(* row has it in another case.                                             *)
THEOREM RefusalAlwaysExplained == LoginSpec => []RefusalExplained
<1>1. LoginInv => RefusalExplained
  <2> SUFFICES ASSUME LoginInv, NEW c \in Clients, NEW e \in Emails, Owns(c, e)
               PROVE  /\ "password" \notin Throws(c, e)
                      /\ "rows" \in Throws(c, e) =>
                            \E i \in DOMAIN users : /\ users[i].email # e
                                                    /\ Fold[users[i].email] = Fold[e]
    BY DEF RefusalExplained
  <2>1. /\ userId[c] \in DOMAIN users /\ users[userId[c]].email = e
        /\ users[userId[c]].owner = c
    BY DEF Owns, LoginInv, SagaInv, Control, Complete, OkOwned
  <2>2. userId[c] \in Matches(e)
    BY <2>1 DEF Matches
  <2>3. "password" \notin Throws(c, e)
    <3> SUFFICES ASSUME NEW i \in DOMAIN users, Matches(e) = {i} PROVE users[i].owner = c
      BY DEF Throws
    <3> QED
      BY <2>1, <2>2
  <2>4. ASSUME "rows" \in Throws(c, e)
        PROVE  \E i \in DOMAIN users : users[i].email # e /\ Fold[users[i].email] = Fold[e]
    <3>1. Matches(e) # {userId[c]}
      BY <2>1, <2>4 DEF Throws
    <3>2. PICK j \in Matches(e) : j # userId[c]
      BY <2>2, <3>1
    <3> QED
      BY <2>1, <3>2 DEF Matches, LoginInv, EmailsUnique
  <2> QED
    BY <2>3, <2>4
<1> QED
    BY <1>1, LoginInvariant, PTL
=============================================================================
