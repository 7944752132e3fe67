------------------------- MODULE RegistrationProofs -------------------------
(* Machine-checked proofs about Registration, for every set of clients,    *)
(* names and bounds, with and without the foreign key and the faults.      *)
EXTENDS Registration, TLAPS

Saga == {"picture", "connect", "undoPicture", "undoRow"}

(* No two submissions ever hold the same row or the same picture: the ids  *)
(* come from sequences.                                                    *)
IdsPrivate ==
    \A c, d \in Clients : c # d =>
        /\ userId[c] # Null => userId[c] # userId[d]
        /\ pictureId[c] # Null => pictureId[c] # pictureId[d]

(* A thread inside addNewUser has its row.  As long as its connection works*)
(* that row is half registered: had the link been made, the connection     *)
(* would have failed after it.                                             *)
OwnRow ==
    \A c \in Clients : pc[c] \in Saga =>
        /\ userId[c] \in DOMAIN users
        /\ users[userId[c]].owner = c
        /\ alive[c] => users[userId[c]].photo = Null

(* The picture that deletePhoto may remove is on no account; when deleteRow*)
(* runs on a working connection it is gone, or deletePhoto failed.         *)
OwnPicture ==
    \A c \in Clients :
        /\ pc[c] \in {"connect", "undoPicture"} => pictureId[c] \in pictures
        /\ pc[c] \in {"connect", "undoPicture", "undoRow"} /\ alive[c] =>
             \A i \in DOMAIN users : users[i].photo = Null \/ users[i].photo # pictureId[c]
        /\ pc[c] \in {"properties", "picture"} => pictureId[c] = Null
        /\ pc[c] = "undoRow" /\ alive[c] /\ ~swallowed[c] => pictureId[c] \notin pictures

(* Connections break only on the way to a failure, and what a reply says   *)
(* of the row.                                                             *)
Control ==
    \A c \in Clients :
        /\ pc[c] \in {"properties", "picture", "connect"} => alive[c]
        /\ pc[c] = "properties" => form[c] \in Forms /\ userId[c] = Null
        /\ pc[c] \in Steps \ {"reply"} => reply[c] = Null
        /\ pc[c] \in {"reply", "answered"} => reply[c] \in Replies
        /\ reply[c] = "ok" => userId[c] # Null /\ Complete(userId[c])
        /\ reply[c] = "occupied" => userId[c] = Null

(* The inductive invariant. *)
SagaInv == /\ TypeOK /\ IdsPrivate /\ OwnRow /\ OwnPicture /\ Control
           /\ PicturesOfUsersStored /\ FailureLeavesHalf

----------------------------------------------------------------------------
(* The tables stay well typed under the three statements that change       *)
(* users.                                                                  *)
LEMMA InsertUserType ==
    ASSUME TypeOK, NEW c \in Clients, form[c] \in Forms, InsertUser(c)
    PROVE  /\ DOMAIN users' \subseteq 1..userSeq'
           /\ users' \in [DOMAIN users' -> UserRow]
           /\ userSeq' = userSeq + 1 /\ userSeq' \in 0..MaxUsers
<1>1. /\ userSeq' = userSeq + 1 /\ userSeq' \in 0..MaxUsers
      /\ DOMAIN users' = DOMAIN users \cup {userSeq + 1}
    BY RegistrationAssumption DEF TypeOK, InsertUser
<1>2. ASSUME NEW i \in DOMAIN users'
      PROVE  users'[i] \in UserRow
  <2>1. CASE i = userSeq'
    BY <2>1 DEF InsertUser, UserRow, Forms
  <2>2. CASE i # userSeq'
    BY <1>1, <2>2 DEF TypeOK, InsertUser
  <2> QED
    BY <2>1, <2>2
<1>3. users' = [i \in DOMAIN users' |-> users'[i]]
    BY DEF InsertUser
<1> QED
    BY <1>1, <1>2, <1>3 DEF TypeOK

(* Likewise for the statement that links a picture. *)
LEMMA SetPhotoType ==
    ASSUME TypeOK, NEW c \in Clients, pictureId[c] \in 1..MaxPictures, SetPhoto(c)
    PROVE  /\ DOMAIN users' = DOMAIN users
           /\ users' \in [DOMAIN users' -> UserRow]
           /\ \A i \in DOMAIN users : users'[i].photo =
                  IF i = userId[c] THEN pictureId[c] ELSE users[i].photo
<1>1. ASSUME NEW i \in DOMAIN users
      PROVE  /\ users'[i] \in UserRow
             /\ users'[i].photo = IF i = userId[c] THEN pictureId[c] ELSE users[i].photo
  <2>1. users[i] \in UserRow
    BY DEF TypeOK
  <2> QED
    BY <2>1 DEF SetPhoto, UserRow
<1>2. users' = [i \in DOMAIN users |-> users'[i]]
    BY DEF SetPhoto
<1> QED
    BY <1>1, <1>2

(* Likewise for the statement that removes a row. *)
LEMMA DeleteRowType ==
    ASSUME TypeOK, NEW c \in Clients, DeleteRow(c) \/ DeleteRowFails(c)
    PROVE  /\ DOMAIN users' \subseteq DOMAIN users
           /\ users' \in [DOMAIN users' -> UserRow]
<1>1. CASE users' = users
    BY <1>1 DEF TypeOK
<1>2. CASE users' = [i \in DOMAIN users \ {userId[c]} |-> users[i]]
    BY <1>2 DEF TypeOK
<1> QED
    BY <1>1, <1>2 DEF DeleteRow, DeleteRowFails, dbVars

(* A submission forgets the ids of the one before. *)
LEMMA SubmitKeeps ==
    ASSUME SagaInv, NEW c \in Clients, NEW f \in Forms, Submit(c, f)
    PROVE  SagaInv'
<1> USE RegistrationAssumption DEF SagaInv
<1>1. TypeOK'
    BY DEF Submit, Goto, dbVars, TypeOK, UserRow, Forms, Steps, Resting, Replies
<1>2. IdsPrivate'
    BY DEF Submit, Goto, dbVars, TypeOK, IdsPrivate
<1>3. OwnRow'
    BY DEF Submit, Goto, dbVars, TypeOK, UserRow, IdsPrivate, OwnRow, Saga, Control,
           Steps, Resting
<1>4. OwnPicture'
    BY DEF Submit, Goto, dbVars, TypeOK, UserRow, IdsPrivate, OwnPicture, OwnRow,
           Control, Saga, Steps, Resting
<1>5. Control'
    BY DEF Submit, Goto, dbVars, TypeOK, Control, Complete, OwnRow, Saga,
           IdsPrivate, Steps, Resting, Replies, UserRow, Forms
<1>6. PicturesOfUsersStored'
    BY DEF Submit, Goto, dbVars, TypeOK, UserRow, PicturesOfUsersStored, OwnPicture,
           OwnRow, Control, Saga
<1>7. FailureLeavesHalf'
    BY DEF Submit, Goto, dbVars, TypeOK, UserRow, PicturesOfUsersStored, OwnPicture,
           OwnRow, Control, Saga, FailureLeavesHalf, Complete, IdsPrivate, Replies,
           Steps
<1> QED
    BY <1>1, <1>2, <1>3, <1>4, <1>5, <1>6, <1>7

(* addProperties creates the row of this thread, the picture still missing. *)
LEMMA AddPropertiesKeeps ==
    ASSUME SagaInv, NEW c \in Clients, AddProperties(c)
    PROVE  SagaInv'
<1> USE RegistrationAssumption DEF SagaInv
<1>1. TypeOK'
  <2>1. form[c] \in Forms
    BY DEF AddProperties, Control
  <2>2. CASE InsertUser(c)
    <3>1. /\ DOMAIN users' \subseteq 1..userSeq' /\ users' \in [DOMAIN users' -> UserRow]
          /\ userSeq' = userSeq + 1 /\ userSeq' \in 0..MaxUsers
        BY <2>1, <2>2, InsertUserType
    <3>2. pictures' = pictures /\ friends' = friends /\ pictureSeq' = pictureSeq
        BY <2>2 DEF InsertUser
    <3>3. userSeq \in Nat /\ friends' \subseteq (1..userSeq') \X (1..userSeq')
        BY <3>1, <3>2 DEF TypeOK
    <3>4. userId' \in [Clients -> 1..userSeq' \cup {Null}]
        BY <3>1, <3>3 DEF AddProperties, TypeOK
    <3>5. /\ pc' \in [Clients -> Steps \cup Resting]
          /\ form' \in [Clients -> Forms \cup {Null}]
          /\ pictureId' \in [Clients -> 1..pictureSeq' \cup {Null}]
          /\ alive' \in [Clients -> BOOLEAN]
          /\ reply' \in [Clients -> Replies \cup {Null}]
          /\ swallowed' = swallowed
        BY <3>2 DEF AddProperties, TypeOK, Goto, Finish, Breaks, MayBreak, dbVars, Steps, Replies
    <3> QED
        BY <3>1, <3>2, <3>3, <3>4, <3>5 DEF TypeOK
  <2>3. CASE UNCHANGED dbVars /\ UNCHANGED userId
    BY <2>3 DEF AddProperties, TypeOK, Goto, Finish, Breaks, MayBreak, dbVars, Steps, Replies
  <2> QED
    BY <2>2, <2>3 DEF AddProperties
<1>2. IdsPrivate'
    BY DEF AddProperties, InsertUser, Finish, Goto, Breaks, MayBreak, dbVars,
           TypeOK, IdsPrivate
<1>3. OwnRow'
    BY DEF AddProperties, InsertUser, Finish, Goto, Breaks, MayBreak, dbVars,
           TypeOK, UserRow, IdsPrivate, OwnRow, Saga, Control, Steps, Resting
<1>4. OwnPicture'
    BY DEF AddProperties, InsertUser, Finish, Goto, Breaks, MayBreak, dbVars,
           TypeOK, UserRow, IdsPrivate, OwnPicture, OwnRow, Control, Saga, Steps,
           Resting
<1>5. Control'
  <2>1. /\ form' = form /\ form[c] \in Forms /\ reply[c] = Null
        /\ \A d \in Clients \ {c} : /\ pc'[d] = pc[d] /\ alive'[d] = alive[d]
                                     /\ reply'[d] = reply[d] /\ userId'[d] = userId[d]
    BY DEF AddProperties, TypeOK, Control, Finish, Goto, Breaks, MayBreak, Steps
  <2>2. \A i : Complete(i) => Complete(i)'
    BY DEF AddProperties, InsertUser, Complete, dbVars, TypeOK
  <2>3. \/ pc'[c] = "picture" /\ alive'[c] /\ reply'[c] = Null
        \/ pc'[c] = "reply" /\ reply'[c] \in {"occupied", "error"} /\ userId'[c] = Null
    BY DEF AddProperties, TypeOK, Control, Finish, Goto, Breaks, MayBreak, Steps
  <2>4. Null # "ok" /\ Null # "occupied"
    BY DEF Replies
  <2>5. ASSUME NEW d \in Clients, d # c
        PROVE  reply'[d] = "ok" => userId'[d] # Null /\ Complete(userId[d])'
    BY <2>1, <2>2, <2>5 DEF Control
  <2> QED
    BY <2>1, <2>3, <2>4, <2>5 DEF Control, Steps, Replies
<1>6. PicturesOfUsersStored'
    BY DEF AddProperties, InsertUser, Finish, Goto, Breaks, MayBreak, dbVars,
           TypeOK, UserRow, PicturesOfUsersStored, OwnPicture, OwnRow, Control, Saga
<1>7. FailureLeavesHalf'
    BY DEF AddProperties, InsertUser, Finish, Goto, Breaks, MayBreak, dbVars, TypeOK,
           UserRow, PicturesOfUsersStored, OwnPicture, OwnRow, Control, Saga,
           FailureLeavesHalf, Complete, IdsPrivate, Replies, Steps
<1> QED
    BY <1>1, <1>2, <1>3, <1>4, <1>5, <1>6, <1>7

(* addNewPhoto creates a picture that no row refers to yet. *)
LEMMA AddNewPhotoKeeps ==
    ASSUME SagaInv, NEW c \in Clients, AddNewPhoto(c)
    PROVE  SagaInv'
<1> USE RegistrationAssumption DEF SagaInv
<1>1. TypeOK'
  <2>1. /\ users' = users /\ friends' = friends /\ userSeq' = userSeq
        /\ pictureSeq \in Nat /\ pictureSeq' \in pictureSeq..MaxPictures
        /\ pictures' \subseteq 1..pictureSeq'
    BY DEF AddNewPhoto, InsertPicture, TypeOK, dbVars
  <2>2. pictureId' \in [Clients -> 1..pictureSeq' \cup {Null}]
    BY <2>1 DEF AddNewPhoto, InsertPicture, TypeOK, dbVars
  <2>3. /\ pc' \in [Clients -> Steps \cup Resting]
        /\ form' = form /\ userId' = userId /\ reply' = reply /\ swallowed' = swallowed
        /\ alive' \in [Clients -> BOOLEAN]
    BY DEF AddNewPhoto, TypeOK, Goto, Breaks, MayBreak, Steps
  <2> QED
    BY <2>1, <2>2, <2>3 DEF TypeOK
<1>2. IdsPrivate'
    BY DEF AddNewPhoto, InsertPicture, Goto, Breaks, MayBreak, dbVars, TypeOK, IdsPrivate
<1>3. OwnRow'
    BY DEF AddNewPhoto, InsertPicture, Goto, Breaks, MayBreak, dbVars, TypeOK,
           UserRow, IdsPrivate, OwnRow, Saga, Control, Steps, Resting
<1>4. OwnPicture'
  <2> SUFFICES ASSUME NEW d \in Clients
               PROVE  (/\ pc[d] \in {"connect", "undoPicture"} => pictureId[d] \in pictures
                       /\ pc[d] \in {"connect", "undoPicture", "undoRow"} /\ alive[d] =>
                            \A i \in DOMAIN users :
                                users[i].photo = Null \/ users[i].photo # pictureId[d]
                       /\ pc[d] \in {"properties", "picture"} => pictureId[d] = Null
                       /\ pc[d] = "undoRow" /\ alive[d] /\ ~swallowed[d] =>
                            pictureId[d] \notin pictures)'
    BY DEF OwnPicture
  <2>1. CASE d = c /\ pc'[c] = "connect"
    <3>1. /\ InsertPicture /\ pictureId'[c] = pictureSeq + 1
        BY <2>1 DEF AddNewPhoto, Goto, TypeOK, InsertPicture
    <3>2. \A i \in DOMAIN users : users[i].photo # pictureSeq + 1
        BY DEF TypeOK, UserRow, PicturesOfUsersStored
    <3> QED
        BY <2>1, <3>1, <3>2 DEF InsertPicture
  <2>2. CASE d = c /\ pc'[c] # "connect"
    <3>1. /\ pc'[c] = "undoRow" /\ pictureId'[c] = Null
          /\ alive'[c] => pictures' = pictures
        BY <2>2 DEF AddNewPhoto, Goto, Breaks, TypeOK, OwnPicture, dbVars
    <3> QED
        BY <2>2, <3>1 DEF TypeOK
  <2>3. CASE d # c
    BY <2>3 DEF AddNewPhoto, InsertPicture, Goto, Breaks, MayBreak, dbVars, TypeOK, OwnPicture
  <2> QED
    BY <2>1, <2>2, <2>3
<1>5. Control'
    BY DEF AddNewPhoto, InsertPicture, Goto, Breaks, MayBreak, dbVars, TypeOK,
           Control, Complete, OwnRow, Saga, IdsPrivate, Steps, Resting, Replies,
           UserRow, Forms
<1>6. PicturesOfUsersStored'
    BY DEF AddNewPhoto, InsertPicture, Goto, Breaks, MayBreak, dbVars, TypeOK,
           UserRow, PicturesOfUsersStored, OwnPicture, OwnRow, Control, Saga
<1>7. FailureLeavesHalf'
    BY DEF AddNewPhoto, InsertPicture, Goto, Breaks, MayBreak, dbVars, TypeOK, UserRow,
           PicturesOfUsersStored, OwnPicture, OwnRow, Control, Saga, FailureLeavesHalf,
           Complete, IdsPrivate, Replies, Steps
<1> QED
    BY <1>1, <1>2, <1>3, <1>4, <1>5, <1>6, <1>7

(* connectPropertiesAndPhoto completes the row of this thread. *)
LEMMA ConnectKeeps ==
    ASSUME SagaInv, NEW c \in Clients, ConnectPropertiesAndPhoto(c)
    PROVE  SagaInv'
<1> USE RegistrationAssumption DEF SagaInv
<1>1. TypeOK'
  <2>1. pictureId[c] \in 1..MaxPictures
    BY DEF ConnectPropertiesAndPhoto, OwnPicture, TypeOK
  <2>2. DOMAIN users' = DOMAIN users /\ users' \in [DOMAIN users' -> UserRow]
    BY <2>1, SetPhotoType DEF ConnectPropertiesAndPhoto, TypeOK, dbVars
  <2>3. /\ pictures' = pictures /\ friends' = friends
        /\ userSeq' = userSeq /\ pictureSeq' = pictureSeq
        /\ form' = form /\ userId' = userId /\ pictureId' = pictureId
        /\ pc' \in [Clients -> Steps \cup Resting]
        /\ alive' \in [Clients -> BOOLEAN]
        /\ reply' \in [Clients -> Replies \cup {Null}] /\ swallowed' = swallowed
    BY DEF ConnectPropertiesAndPhoto, SetPhoto, TypeOK, Finish, Goto, Breaks, MayBreak,
           dbVars, Steps, Replies
  <2> QED
    BY <2>2, <2>3 DEF TypeOK
<1>2. IdsPrivate'
    BY DEF ConnectPropertiesAndPhoto, SetPhoto, Finish, Goto, Breaks, MayBreak,
           dbVars, TypeOK, IdsPrivate
<1>3. OwnRow'
    BY DEF ConnectPropertiesAndPhoto, SetPhoto, Finish, Goto, Breaks, MayBreak,
           dbVars, TypeOK, UserRow, IdsPrivate, OwnRow, Saga, Control, Steps,
           Resting
<1>4. OwnPicture'
    BY DEF ConnectPropertiesAndPhoto, SetPhoto, Finish, Goto, Breaks, MayBreak,
           dbVars, TypeOK, UserRow, IdsPrivate, OwnPicture, OwnRow, Control, Saga,
           Steps, Resting
<1>5. Control'
  <2>1. /\ pictureId[c] \in 1..MaxPictures /\ userId[c] \in DOMAIN users
        /\ pictureId[c] # Null /\ userId[c] # Null
    BY DEF ConnectPropertiesAndPhoto, OwnPicture, OwnRow, Saga, TypeOK
  <2>2. \A i : Complete(i) => Complete(i)'
    BY <2>1, SetPhotoType DEF ConnectPropertiesAndPhoto, Complete, dbVars
  <2>3. SetPhoto(c) => Complete(userId[c])'
    BY <2>1, SetPhotoType DEF ConnectPropertiesAndPhoto, Complete
  <2>4. /\ userId' = userId /\ form' = form
        /\ \A d \in Clients \ {c} : pc'[d] = pc[d] /\ alive'[d] = alive[d] /\ reply'[d] = reply[d]
    BY DEF ConnectPropertiesAndPhoto, TypeOK, Finish, Goto, Breaks, MayBreak
  <2>5. ASSUME NEW d \in Clients, d # c
        PROVE  reply'[d] = "ok" => userId'[d] # Null /\ Complete(userId[d])'
    BY <2>2, <2>4, <2>5 DEF Control
  <2>6. /\ pc'[c] = "reply" => reply'[c] = "ok" /\ SetPhoto(c)
        /\ pc'[c] # "reply" => pc'[c] = "undoPicture" /\ reply'[c] = Null
    BY DEF ConnectPropertiesAndPhoto, TypeOK, Finish, Goto, Control, Steps
  <2> QED
    BY <2>1, <2>3, <2>4, <2>5, <2>6 DEF Control, Steps, Replies
<1>6. PicturesOfUsersStored'
    BY DEF ConnectPropertiesAndPhoto, SetPhoto, Finish, Goto, Breaks, MayBreak,
           dbVars, TypeOK, UserRow, PicturesOfUsersStored, OwnPicture, OwnRow,
           Control, Saga
<1>7. FailureLeavesHalf'
  <2>1. /\ pictureId[c] \in 1..MaxPictures /\ userId[c] \in DOMAIN users
        /\ pictureId[c] # Null /\ userId[c] # Null
    BY DEF ConnectPropertiesAndPhoto, OwnPicture, OwnRow, Saga, TypeOK
  <2>2. /\ DOMAIN users' = DOMAIN users
        /\ \A i \in DOMAIN users : i # userId[c] => users'[i].photo = users[i].photo
        /\ users'[userId[c]].photo \in {users[userId[c]].photo, pictureId[c]}
    BY <2>1, SetPhotoType DEF ConnectPropertiesAndPhoto, dbVars
  <2>3. /\ pictures' = pictures /\ userId' = userId /\ pictureId' = pictureId
        /\ swallowed' = swallowed
        /\ \A d \in Clients \ {c} : alive'[d] = alive[d] /\ reply'[d] = reply[d]
    BY DEF ConnectPropertiesAndPhoto, SetPhoto, TypeOK, Finish, Goto, Breaks, MayBreak, dbVars
  <2>4. reply'[c] # "error"
    BY DEF ConnectPropertiesAndPhoto, TypeOK, Finish, Goto, Control, Steps, Replies
  <2>5. ASSUME NEW d \in Clients, d # c
        PROVE  userId[c] # userId[d] /\ pictureId[c] # pictureId[d]
    BY <2>1, <2>5 DEF IdsPrivate
  <2> QED
    BY <2>1, <2>2, <2>3, <2>4, <2>5 DEF FailureLeavesHalf, Complete
<1> QED
    BY <1>1, <1>2, <1>3, <1>4, <1>5, <1>6, <1>7

(* deletePhoto removes a picture that no row refers to. *)
LEMMA DeletePhotoKeeps ==
    ASSUME SagaInv, NEW c \in Clients, DeletePhoto(c) \/ DeletePhotoFails(c)
    PROVE  SagaInv'
<1> USE RegistrationAssumption DEF SagaInv
<1>1. TypeOK'
    BY DEF DeletePhoto, DeletePhotoFails, Swallow, Goto, Breaks, MayBreak, dbVars, TypeOK,
           UserRow, Forms, Steps, Resting, Replies
<1>2. IdsPrivate'
    BY DEF DeletePhoto, DeletePhotoFails, Swallow, Goto, Breaks, MayBreak, dbVars, TypeOK, IdsPrivate
<1>3. OwnRow'
    BY DEF DeletePhoto, DeletePhotoFails, Swallow, Goto, Breaks, MayBreak, dbVars, TypeOK,
           UserRow, IdsPrivate, OwnRow, Saga, Control, Steps, Resting
<1>4. OwnPicture'
    BY DEF DeletePhoto, DeletePhotoFails, Swallow, Goto, Breaks, MayBreak, dbVars, TypeOK,
           UserRow, IdsPrivate, OwnPicture, OwnRow, Control, Saga, Steps, Resting
<1>5. Control'
    BY DEF DeletePhoto, DeletePhotoFails, Swallow, Goto, Breaks, MayBreak, dbVars, TypeOK,
           Control, Complete, OwnRow, Saga, IdsPrivate, Steps, Resting, Replies,
           UserRow, Forms
<1>6. PicturesOfUsersStored'
    BY DEF DeletePhoto, DeletePhotoFails, Swallow, Goto, Breaks, MayBreak, dbVars, TypeOK,
           UserRow, PicturesOfUsersStored, OwnPicture, OwnRow, Control, Saga
<1>7. FailureLeavesHalf'
    BY DEF DeletePhoto, DeletePhotoFails, Swallow, Goto, Breaks, MayBreak, dbVars, TypeOK,
           UserRow, PicturesOfUsersStored, OwnPicture, OwnRow, Control, Saga,
           FailureLeavesHalf, Complete, IdsPrivate, Replies, Steps
<1> QED
    BY <1>1, <1>2, <1>3, <1>4, <1>5, <1>6, <1>7

(* deleteRow removes the row of this thread, which is not complete. *)
LEMMA DeleteRowKeeps ==
    ASSUME SagaInv, NEW c \in Clients, DeleteRow(c) \/ DeleteRowFails(c)
    PROVE  SagaInv'
<1> USE RegistrationAssumption DEF SagaInv
<1>1. TypeOK'
  <2>1. DOMAIN users' \subseteq DOMAIN users /\ users' \in [DOMAIN users' -> UserRow]
    BY DeleteRowType
  <2>2. /\ pictures' = pictures /\ friends' = friends
        /\ userSeq' = userSeq /\ pictureSeq' = pictureSeq
        /\ form' = form /\ userId' = userId /\ pictureId' = pictureId
        /\ pc' \in [Clients -> Steps \cup Resting]
        /\ alive' \in [Clients -> BOOLEAN]
        /\ reply' \in [Clients -> Replies \cup {Null}]
        /\ swallowed' \in [Clients -> BOOLEAN]
    BY DEF DeleteRow, DeleteRowFails, Swallow, TypeOK, Finish, Goto, Breaks, MayBreak,
           dbVars, Steps, Replies
  <2> QED
    BY <2>1, <2>2 DEF TypeOK
<1>2. IdsPrivate'
    BY DEF DeleteRow, DeleteRowFails, Swallow, Finish, Goto, Breaks, MayBreak, dbVars,
           TypeOK, IdsPrivate
<1>3. OwnRow'
    BY DEF DeleteRow, DeleteRowFails, Swallow, Finish, Goto, Breaks, MayBreak, dbVars,
           TypeOK, UserRow, IdsPrivate, OwnRow, Saga, Control, Steps, Resting
<1>4. OwnPicture'
    BY DEF DeleteRow, DeleteRowFails, Swallow, Finish, Goto, Breaks, MayBreak, dbVars,
           TypeOK, UserRow, IdsPrivate, OwnPicture, OwnRow, Control, Saga, Steps,
           Resting
<1>5. Control'
    BY DEF DeleteRow, DeleteRowFails, Swallow, Finish, Goto, Breaks, MayBreak, dbVars,
           TypeOK, Control, Complete, OwnRow, Saga, IdsPrivate, Steps, Resting,
           Replies, UserRow, Forms
<1>6. PicturesOfUsersStored'
    BY DEF DeleteRow, DeleteRowFails, Swallow, Finish, Goto, Breaks, MayBreak, dbVars,
           TypeOK, UserRow, PicturesOfUsersStored, OwnPicture, OwnRow, Control, Saga
<1>7. FailureLeavesHalf'
    BY DEF DeleteRow, DeleteRowFails, Swallow, Finish, Goto, Breaks, MayBreak, dbVars, TypeOK,
           UserRow, PicturesOfUsersStored, OwnPicture, OwnRow, Control, Saga,
           FailureLeavesHalf, Complete, IdsPrivate, Replies, Steps
<1> QED
    BY <1>1, <1>2, <1>3, <1>4, <1>5, <1>6, <1>7

(* Sending the answer changes nothing but the program counter. *)
LEMMA SendAnswerKeeps ==
    ASSUME SagaInv, NEW c \in Clients, SendAnswer(c)
    PROVE  SagaInv'
<1> USE RegistrationAssumption DEF SagaInv
<1>1. TypeOK'
    BY DEF SendAnswer, Goto, dbVars, TypeOK, UserRow, Forms, Steps, Resting, Replies
<1>2. IdsPrivate'
    BY DEF SendAnswer, Goto, dbVars, TypeOK, IdsPrivate
<1>3. OwnRow'
    BY DEF SendAnswer, Goto, dbVars, TypeOK, UserRow, IdsPrivate, OwnRow, Saga,
           Control, Steps, Resting
<1>4. OwnPicture'
    BY DEF SendAnswer, Goto, dbVars, TypeOK, UserRow, IdsPrivate, OwnPicture,
           OwnRow, Control, Saga, Steps, Resting
<1>5. Control'
    BY DEF SendAnswer, Goto, dbVars, TypeOK, Control, Complete, OwnRow, Saga,
           IdsPrivate, Steps, Resting, Replies, UserRow, Forms
<1>6. PicturesOfUsersStored'
    BY DEF SendAnswer, Goto, dbVars, TypeOK, UserRow, PicturesOfUsersStored,
           OwnPicture, OwnRow, Control, Saga
<1>7. FailureLeavesHalf'
    BY DEF SendAnswer, Goto, dbVars, TypeOK, UserRow, PicturesOfUsersStored,
           OwnPicture, OwnRow, Control, Saga, FailureLeavesHalf, Complete, IdsPrivate,
           Replies, Steps
<1> QED
    BY <1>1, <1>2, <1>3, <1>4, <1>5, <1>6, <1>7

(* The friendships of other threads are no concern of the saga. *)
LEMMA FriendsKeep ==
    ASSUME SagaInv, NEW u \in 1..userSeq, NEW f \in 1..userSeq, MakeFriend(u, f) \/ DeleteFriend(u, f)
    PROVE  SagaInv'
<1> USE RegistrationAssumption DEF SagaInv
<1>1. TypeOK'
    BY DEF MakeFriend, DeleteFriend, TypeOK, UserRow, Forms, Steps, Resting, Replies
<1>2. IdsPrivate'
    BY DEF MakeFriend, DeleteFriend, TypeOK, IdsPrivate
<1>3. OwnRow'
    BY DEF MakeFriend, DeleteFriend, TypeOK, UserRow, IdsPrivate, OwnRow, Saga,
           Control, Steps, Resting
<1>4. OwnPicture'
    BY DEF MakeFriend, DeleteFriend, TypeOK, UserRow, IdsPrivate, OwnPicture,
           OwnRow, Control, Saga, Steps, Resting
<1>5. Control'
    BY DEF MakeFriend, DeleteFriend, TypeOK, Control, Complete, OwnRow, Saga,
           IdsPrivate, Steps, Resting, Replies, UserRow, Forms
<1>6. PicturesOfUsersStored'
    BY DEF MakeFriend, DeleteFriend, TypeOK, UserRow, PicturesOfUsersStored,
           OwnPicture, OwnRow, Control, Saga
<1>7. FailureLeavesHalf'
    BY DEF MakeFriend, DeleteFriend, TypeOK, UserRow, PicturesOfUsersStored,
           OwnPicture, OwnRow, Control, Saga, FailureLeavesHalf, Complete, IdsPrivate,
           Replies, Steps
<1> QED
    BY <1>1, <1>2, <1>3, <1>4, <1>5, <1>6, <1>7

(* The threads of a server that ends are no longer in the saga. *)
LEMMA ServerDiesKeeps ==
    ASSUME SagaInv, ServerDies
    PROVE  SagaInv'
<1> USE RegistrationAssumption DEF SagaInv
<1>1. TypeOK'
    BY DEF ServerDies, dbVars, TypeOK, UserRow, Forms, Steps, Resting, Replies
<1>2. IdsPrivate'
    BY DEF ServerDies, dbVars, TypeOK, IdsPrivate
<1>3. OwnRow'
    BY DEF ServerDies, dbVars, TypeOK, UserRow, IdsPrivate, OwnRow, Saga, Control,
           Steps, Resting
<1>4. OwnPicture'
    BY DEF ServerDies, dbVars, TypeOK, UserRow, IdsPrivate, OwnPicture, OwnRow,
           Control, Saga, Steps, Resting
<1>5. Control'
    BY DEF ServerDies, dbVars, TypeOK, Control, Complete, OwnRow, Saga, IdsPrivate,
           Steps, Resting, Replies, UserRow, Forms
<1>6. PicturesOfUsersStored'
    BY DEF ServerDies, dbVars, TypeOK, UserRow, PicturesOfUsersStored, OwnPicture,
           OwnRow, Control, Saga
<1>7. FailureLeavesHalf'
    BY DEF ServerDies, dbVars, TypeOK, UserRow, PicturesOfUsersStored, OwnPicture,
           OwnRow, Control, Saga, FailureLeavesHalf, Complete, IdsPrivate, Replies,
           Steps
<1> QED
    BY <1>1, <1>2, <1>3, <1>4, <1>5, <1>6, <1>7

----------------------------------------------------------------------------
(* The invariant holds before the first registration. *)
LEMMA SagaInvInit == Init => SagaInv
<1> SUFFICES ASSUME Init PROVE SagaInv
    OBVIOUS
<1>1. DOMAIN users = {}
    BY DEF Init
<1>2. TypeOK
    BY <1>1, RegistrationAssumption DEF Init, TypeOK, UserRow, Resting
<1>3. IdsPrivate /\ OwnRow /\ OwnPicture /\ Control
    BY RegistrationAssumption DEF Init, IdsPrivate, OwnRow, OwnPicture, Control, Saga, Steps,
                                  Replies
<1> QED
    BY <1>1, <1>2, <1>3, RegistrationAssumption
       DEF SagaInv, PicturesOfUsersStored, FailureLeavesHalf, Init, Replies

(* Every transaction of every thread preserves the invariant. *)
LEMMA SagaInvNext == SagaInv /\ [Next]_vars => SagaInv'
<1> SUFFICES ASSUME SagaInv, [Next]_vars PROVE SagaInv'
    OBVIOUS
<1>1. ASSUME NEW c \in Clients, NEW f \in Forms, Submit(c, f) PROVE SagaInv'
    BY <1>1, SubmitKeeps
<1>2. ASSUME NEW c \in Clients, AddNewUser(c) PROVE SagaInv'
    BY <1>2, AddPropertiesKeeps, AddNewPhotoKeeps, ConnectKeeps, DeletePhotoKeeps,
       DeleteRowKeeps DEF AddNewUser
<1>3. ASSUME NEW c \in Clients, SendAnswer(c) PROVE SagaInv'
    BY <1>3, SendAnswerKeeps
<1>4. ASSUME NEW u \in 1..userSeq, NEW f \in 1..userSeq,
             MakeFriend(u, f) \/ DeleteFriend(u, f)
      PROVE  SagaInv'
    BY <1>4, FriendsKeep
<1>5. CASE ServerDies
    BY <1>5, ServerDiesKeeps
<1>6. CASE UNCHANGED vars
    BY <1>6 DEF vars, SagaInv, TypeOK, IdsPrivate, OwnRow, OwnPicture, Control,
                PicturesOfUsersStored, FailureLeavesHalf, Complete
<1> QED
    BY <1>1, <1>2, <1>3, <1>4, <1>5, <1>6 DEF Next, Thread

(* The invariant of the saga holds in every execution. *)
THEOREM SagaInvariant == Spec => []SagaInv
    BY SagaInvInit, SagaInvNext, PTL DEF Spec

(* Type correctness of the tables and of the threads. *)
THEOREM TypeCorrect == Spec => []TypeOK
<1>1. SagaInv => TypeOK
    BY DEF SagaInv
<1> QED
    BY <1>1, SagaInvariant, PTL

(* A registration answered with "ok" has an account with a stored picture, *)
(* now and ever after.                                                     *)
THEOREM OkAlwaysComplete == Spec => []OkMeansComplete
<1>1. SagaInv => OkMeansComplete
    BY DEF SagaInv, Control, PicturesOfUsersStored, OkMeansComplete, Complete
<1> QED
    BY <1>1, SagaInvariant, PTL

(* No row of users refers to a picture that was removed, or to the picture *)
(* of another row.                                                         *)
THEOREM PicturesAlwaysStored == Spec => []PicturesOfUsersStored
<1>1. SagaInv => PicturesOfUsersStored
    BY DEF SagaInv
<1> QED
    BY <1>1, SagaInvariant, PTL

----------------------------------------------------------------------------
(* Every step that removes a row of users is deleteRow on a working        *)
(* connection.                                                             *)
LEMMA RowsRemovedByDeleteRow ==
    ASSUME SagaInv, [Next]_vars, NEW i \in DOMAIN users \ DOMAIN users'
    PROVE  \E c \in Clients : pc[c] = "undoRow" /\ alive[c] /\ userId[c] = i
<1>1. ASSUME NEW c \in Clients, NEW f \in Forms, Submit(c, f) PROVE FALSE
    BY <1>1 DEF Submit, dbVars
<1>2. ASSUME NEW c \in Clients, AddProperties(c) PROVE FALSE
    BY <1>2 DEF AddProperties, InsertUser, dbVars
<1>3. ASSUME NEW c \in Clients, AddNewPhoto(c) PROVE FALSE
    BY <1>3 DEF AddNewPhoto, InsertPicture, dbVars
<1>4. ASSUME NEW c \in Clients, ConnectPropertiesAndPhoto(c) PROVE FALSE
    BY <1>4 DEF ConnectPropertiesAndPhoto, SetPhoto, dbVars
<1>5. ASSUME NEW c \in Clients, DeletePhoto(c) \/ DeletePhotoFails(c) PROVE FALSE
    BY <1>5 DEF DeletePhoto, DeletePhotoFails, dbVars
<1>6. ASSUME NEW c \in Clients, DeleteRow(c) \/ DeleteRowFails(c)
      PROVE  pc[c] = "undoRow" /\ alive[c] /\ userId[c] = i
    BY <1>6 DEF DeleteRow, DeleteRowFails, dbVars
<1>7. ASSUME NEW c \in Clients, SendAnswer(c) PROVE FALSE
    BY <1>7 DEF SendAnswer, dbVars
<1>8. ASSUME NEW u \in 1..userSeq, NEW f \in 1..userSeq,
             MakeFriend(u, f) \/ DeleteFriend(u, f)
      PROVE  FALSE
    BY <1>8 DEF MakeFriend, DeleteFriend
<1>9. ~ServerDies /\ ~UNCHANGED vars
    BY DEF ServerDies, dbVars, vars
<1> QED
    BY <1>1, <1>2, <1>3, <1>4, <1>5, <1>6, <1>7, <1>8, <1>9 DEF Next, Thread, AddNewUser

(* Compensation removes only half-registered rows, each by the thread that *)
(* made it.                                                                *)
THEOREM CompensationAddressed == Spec => OnlyHalfAccountsRemoved
<1>1. SagaInv /\ [Next]_vars =>
        [\A i \in DOMAIN users \ DOMAIN users' :
             /\ ~Complete(i)
             /\ \E c \in Clients : pc[c] = "undoRow" /\ userId[c] = i /\ users[i].owner = c]_vars
    BY RowsRemovedByDeleteRow DEF SagaInv, OwnRow, Saga, Complete
<1> QED
    BY <1>1, SagaInvariant, PTL DEF Spec, OnlyHalfAccountsRemoved

(* Who is told of a failure on a working connection has at worst half an   *)
(* account, and that only where a compensation failed itself.              *)
THEOREM FailureAlwaysLeavesHalf == Spec => []FailureLeavesHalf
<1>1. SagaInv => FailureLeavesHalf
    BY DEF SagaInv
<1> QED
    BY <1>1, SagaInvariant, PTL

----------------------------------------------------------------------------
(* The refinement of AccountRegistry.  A step that makes no row complete   *)
(* and removes no complete row changes neither the accounts nor the status *)
(* of the clients it does not move.                                        *)
KeepsAccounts == /\ \A i : Complete(i)' <=> Complete(i)
                 /\ \A i \in DOMAIN users : Complete(i) => users'[i].owner = users[i].owner

(* The registry sees complete accounts only. *)
LEMMA AccountsKept == KeepsAccounts => Accounts' = Accounts
    BY DEF KeepsAccounts, Accounts, Complete

(* A client whose thread does not move keeps its status. *)
LEMMA StatusKept ==
    ASSUME NEW d \in Clients, pc'[d] = pc[d], reply'[d] = reply[d],
           Complete(userId[d])' <=> Complete(userId[d])
    PROVE  Status(d)' = Status(d)
    BY DEF Status

(* Inside addNewUser a client's status tells whether its row is complete.  *)
LEMMA StatusInside ==
    ASSUME NEW d \in Clients, pc[d] \in Steps
    PROVE  Status(d) = IF Complete(userId[d]) THEN "created" ELSE "open"
    BY DEF Status, Steps

(* Outside it the status is told by the program counter and the answer. *)
LEMMA StatusOutside ==
    ASSUME SagaInv, NEW d \in Clients, pc[d] \in Resting
    PROVE  /\ Status(d) = IF pc[d] = "answered" THEN reply[d] ELSE pc[d]
           /\ Status(d) \in {"idle", "ok", "occupied", "error", "lost"}
    BY DEF Status, Resting, SagaInv, Control, Replies

(* Steps that the registry does not see. *)
LEMMA Stutters ==
    ASSUME SagaInv, SagaInv', KeepsAccounts,
           \A d \in Clients : /\ Complete(userId[d])' <=> Complete(userId[d])
                             /\ \/ pc'[d] = pc[d] /\ reply'[d] = reply[d]
                                \/ pc[d] \in Steps /\ pc'[d] \in Steps
    PROVE  UNCHANGED Registry!registryVars
<1>1. \A d \in Clients : Status(d)' = Status(d)
    BY StatusKept, StatusInside DEF Status, Steps
<1>2. [d \in Clients |-> Status(d)]' = [d \in Clients |-> Status(d)]
    BY <1>1
<1> QED
    BY <1>2, AccountsKept DEF Registry!registryVars

(* An empty database is an empty registry. *)
LEMMA InitRefines == Init => Registry!Init
    BY DEF Init, Registry!Init, Accounts, Status

(* Submitting a form is a request to the registry. *)
LEMMA SubmitRefines ==
    ASSUME SagaInv, SagaInv', NEW c \in Clients, NEW f \in Forms, Submit(c, f)
    PROVE  Registry!Open(c)
<1> USE RegistrationAssumption
<1>1. users' = users /\ KeepsAccounts
    BY DEF Submit, dbVars, KeepsAccounts, Complete
<1>2. \A d \in Clients \ {c} : Status(d)' = Status(d)
    BY <1>1 DEF Submit, Goto, SagaInv, TypeOK, Status, Complete
<1>3. Status(c)' = "open"
    BY DEF Submit, Goto, SagaInv, TypeOK, Status, Complete, dbVars
<1>4. Status(c) \in {"idle", "ok", "occupied", "error", "lost"} \ {"ok"}
    BY StatusOutside DEF Submit, Resting
<1> QED
    BY <1>1, <1>2, <1>3, <1>4, AccountsKept DEF Registry!Open, Registry!Over

(* The incomplete row is invisible; a refusal is not. *)
LEMMA AddPropertiesRefines ==
    ASSUME SagaInv, SagaInv', NEW c \in Clients, AddProperties(c)
    PROVE  UNCHANGED Registry!registryVars
<1> USE RegistrationAssumption
<1>1. KeepsAccounts
    BY DEF AddProperties, InsertUser, dbVars, KeepsAccounts, Complete, SagaInv, TypeOK
<1>2. \A d \in Clients : Complete(userId[d])' <=> Complete(userId[d])
    BY DEF AddProperties, InsertUser, dbVars, Complete, SagaInv, TypeOK, Control
<1>3. \A d \in Clients : \/ pc'[d] = pc[d] /\ reply'[d] = reply[d]
                         \/ pc[d] \in Steps /\ pc'[d] \in Steps
    BY DEF AddProperties, Goto, Finish, SagaInv, TypeOK, Steps
<1> QED
    BY <1>1, <1>2, <1>3, Stutters

(* A picture without an account is invisible. *)
LEMMA AddNewPhotoRefines ==
    ASSUME SagaInv, SagaInv', NEW c \in Clients, AddNewPhoto(c)
    PROVE  UNCHANGED Registry!registryVars
<1>1. users' = users /\ userId' = userId /\ reply' = reply
    BY DEF AddNewPhoto, InsertPicture, dbVars
<1>2. \A d \in Clients : \/ pc'[d] = pc[d]
                         \/ pc[d] \in Steps /\ pc'[d] \in Steps
    BY DEF AddNewPhoto, Goto, SagaInv, TypeOK, Steps
<1> QED
    BY <1>1, <1>2, Stutters DEF KeepsAccounts, Complete

(* The link creates the account in one step. *)
LEMMA ConnectRefines ==
    ASSUME SagaInv, SagaInv', NEW c \in Clients, ConnectPropertiesAndPhoto(c)
    PROVE  Registry!Create(c) \/ UNCHANGED Registry!registryVars
<1> USE RegistrationAssumption
<1>1. /\ userId[c] \in DOMAIN users /\ users[userId[c]].photo = Null
      /\ users[userId[c]].owner = c /\ ~Complete(userId[c])
      /\ pictureId[c] \in 1..MaxPictures /\ userId[c] \in 1..MaxUsers
    BY DEF ConnectPropertiesAndPhoto, SagaInv, OwnRow, OwnPicture, Control, Saga, TypeOK, Complete
<1>2. /\ userId' = userId /\ pc[c] \in Steps /\ pc'[c] \in Steps
      /\ \A d \in Clients \ {c} : pc'[d] = pc[d] /\ reply'[d] = reply[d]
    BY DEF ConnectPropertiesAndPhoto, SagaInv, TypeOK, Finish, Goto, Steps
<1>3. CASE SetPhoto(c)
  <2>1. /\ DOMAIN users' = DOMAIN users
        /\ \A i \in DOMAIN users : i # userId[c] => users'[i] = users[i]
        /\ users'[userId[c]].photo = pictureId[c] /\ users'[userId[c]].owner = c
    <3>1. users[userId[c]] \in UserRow
        BY <1>1 DEF SagaInv, TypeOK
    <3> QED
        BY <1>1, <1>3, <3>1 DEF SetPhoto, UserRow
  <2>2. \A i : Complete(i)' <=> Complete(i) \/ i = userId[c]
    BY <1>1, <2>1 DEF Complete
  <2>3. Accounts' = Accounts \cup {<<userId[c], c>>}
    BY <1>1, <2>1, <2>2 DEF Accounts, Complete
  <2>4. \A a \in Accounts : a[1] # userId[c]
    BY <1>1 DEF Accounts, Complete
  <2>5. \A d \in Clients \ {c} : Status(d)' = Status(d)
    <3>1. \A d \in Clients \ {c} : Complete(userId[d])' <=> Complete(userId[d])
        BY <1>1, <1>2, <2>2 DEF SagaInv, IdsPrivate, TypeOK, Complete
    <3> QED
        BY <1>2, <3>1, StatusKept
  <2>6. Status(c) = "open" /\ Status(c)' = "created"
    BY <1>1, <1>2, <2>2, StatusInside DEF Complete, Status, Steps
  <2> QED
    BY <1>1, <2>3, <2>4, <2>5, <2>6 DEF Registry!Create
<1>4. CASE users' = users
  <2>1. KeepsAccounts /\ \A d \in Clients : Complete(userId[d])' <=> Complete(userId[d])
    BY <1>2, <1>4 DEF KeepsAccounts, Complete
  <2> QED
    BY <1>2, <2>1, Stutters
<1> QED
    BY <1>3, <1>4 DEF ConnectPropertiesAndPhoto, dbVars

(* Removing the picture of no account is invisible. *)
LEMMA DeletePhotoRefines ==
    ASSUME SagaInv, SagaInv', NEW c \in Clients, DeletePhoto(c) \/ DeletePhotoFails(c)
    PROVE  UNCHANGED Registry!registryVars
<1>1. users' = users /\ userId' = userId /\ reply' = reply
    BY DEF DeletePhoto, DeletePhotoFails, dbVars
<1>2. \A d \in Clients : \/ pc'[d] = pc[d]
                         \/ pc[d] \in Steps /\ pc'[d] \in Steps
    BY DEF DeletePhoto, DeletePhotoFails, Goto, SagaInv, TypeOK, Steps
<1> QED
    BY <1>1, <1>2, Stutters DEF KeepsAccounts, Complete

(* Removing an incomplete row is invisible. *)
LEMMA DeleteRowRefines ==
    ASSUME SagaInv, SagaInv', NEW c \in Clients, DeleteRow(c) \/ DeleteRowFails(c)
    PROVE  UNCHANGED Registry!registryVars
<1>1. alive[c] => ~Complete(userId[c])
    BY DEF DeleteRow, DeleteRowFails, SagaInv, OwnRow, Saga, Complete
<1>2. /\ userId' = userId
      /\ \/ users' = users
         \/ /\ ~Complete(userId[c])
            /\ users' = [i \in DOMAIN users \ {userId[c]} |-> users[i]]
    BY <1>1 DEF DeleteRow, DeleteRowFails, dbVars
<1>3. KeepsAccounts /\ \A d \in Clients : Complete(userId[d])' <=> Complete(userId[d])
    BY <1>2 DEF KeepsAccounts, Complete
<1>4. \A d \in Clients : \/ pc'[d] = pc[d] /\ reply'[d] = reply[d]
                         \/ pc[d] \in Steps /\ pc'[d] \in Steps
    BY DEF DeleteRow, DeleteRowFails, Finish, Goto, SagaInv, TypeOK, Steps
<1> QED
    BY <1>3, <1>4, Stutters

(* The answer is the one of the registry. *)
LEMMA SendAnswerRefines ==
    ASSUME SagaInv, SagaInv', NEW c \in Clients, SendAnswer(c)
    PROVE  Registry!Reply(c)
<1> USE RegistrationAssumption
<1>1. /\ users' = users /\ userId' = userId /\ reply' = reply
      /\ pc[c] = "reply" /\ pc'[c] = "answered"
      /\ \A d \in Clients \ {c} : pc'[d] = pc[d]
    BY DEF SendAnswer, Goto, dbVars, SagaInv, TypeOK
<1>2. Accounts' = Accounts
    BY <1>1, AccountsKept DEF KeepsAccounts, Complete
<1>3. \A d \in Clients \ {c} : Status(d)' = Status(d)
    BY <1>1, StatusKept DEF Complete
<1>4. /\ Status(c)' = reply[c] /\ reply[c] \in Replies
      /\ Status(c) = IF Complete(userId[c]) THEN "created" ELSE "open"
    BY <1>1, StatusInside DEF Status, Steps, SagaInv, Control
<1>5. /\ reply[c] = "ok" => Complete(userId[c])
      /\ reply[c] = "occupied" => ~Complete(userId[c])
    BY DEF SagaInv, Control, Complete, TypeOK
<1> QED
    BY <1>2, <1>3, <1>4, <1>5 DEF Registry!Reply, Registry!InProgress, Replies

(* The end of the server loses the requests under way. *)
LEMMA ServerDiesRefines ==
    ASSUME SagaInv, SagaInv', ServerDies
    PROVE  Registry!Lose
<1>1. users' = users /\ userId' = userId
    BY DEF ServerDies, dbVars
<1>2. Accounts' = Accounts
    BY <1>1, AccountsKept DEF KeepsAccounts, Complete
<1>3. ASSUME NEW d \in Clients
      PROVE  Status(d)' = IF Status(d) \in {"open", "created"} THEN "lost" ELSE Status(d)
  <2>1. CASE pc[d] \in Steps
    BY <2>1, StatusInside DEF ServerDies, Status
  <2>2. CASE pc[d] \in Resting
    BY <1>1, <2>2, StatusOutside, StatusKept DEF ServerDies, Steps, Resting, Complete
  <2> QED
    BY <2>1, <2>2 DEF SagaInv, TypeOK
<1> QED
    BY <1>2, <1>3 DEF Registry!Lose, Registry!InProgress

(* Friendships are no part of the registry. *)
LEMMA FriendsRefine ==
    ASSUME SagaInv, SagaInv', NEW u, NEW f, MakeFriend(u, f) \/ DeleteFriend(u, f)
    PROVE  UNCHANGED Registry!registryVars
    BY Stutters DEF MakeFriend, DeleteFriend, KeepsAccounts, Complete

(* Every step of the saga is a step of the registry or invisible to it. *)
LEMMA NextRefines ==
    SagaInv /\ SagaInv' /\ [Next]_vars => [Registry!Next]_(Registry!registryVars)
<1> SUFFICES ASSUME SagaInv, SagaInv', [Next]_vars
             PROVE  Registry!Next \/ UNCHANGED Registry!registryVars
    OBVIOUS
<1>1. ASSUME NEW c \in Clients, NEW f \in Forms, Submit(c, f) PROVE Registry!Next
    BY <1>1, SubmitRefines DEF Registry!Next
<1>2. ASSUME NEW c \in Clients, AddNewUser(c)
      PROVE  Registry!Next \/ UNCHANGED Registry!registryVars
    BY <1>2, AddPropertiesRefines, AddNewPhotoRefines, ConnectRefines, DeletePhotoRefines,
       DeleteRowRefines DEF AddNewUser, Registry!Next
<1>3. ASSUME NEW c \in Clients, SendAnswer(c) PROVE Registry!Next
    BY <1>3, SendAnswerRefines DEF Registry!Next
<1>4. ASSUME NEW u \in 1..userSeq, NEW f \in 1..userSeq,
             MakeFriend(u, f) \/ DeleteFriend(u, f)
      PROVE  UNCHANGED Registry!registryVars
    BY <1>4, FriendsRefine
<1>5. CASE ServerDies
    BY <1>5, ServerDiesRefines DEF Registry!Next
<1>6. CASE UNCHANGED vars
    BY <1>6, Stutters DEF vars, KeepsAccounts, Complete
<1> QED
    BY <1>1, <1>2, <1>3, <1>4, <1>5, <1>6 DEF Next, Thread

(* The three transactions of addNewUser, their failures and compensations  *)
(* included, implement the atomic registration of AccountRegistry.         *)
THEOREM RegistrationImplementsRegistry == Spec => RegistrySpec
    BY InitRefines, NextRefines, SagaInvariant, PTL DEF Spec, RegistrySpec, Registry!Spec

=============================================================================
