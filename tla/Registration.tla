---------------------------- MODULE Registration ----------------------------
(***************************************************************************)
(* PhotogramServer's accounts: the registration of WorkWithPostgreSQL::    *)
(* addNewUser, three transactions on two tables with two compensating      *)
(* transactions, run by the thread of each registering client on that      *)
(* thread's own database connection, and the friendships that other        *)
(* threads make with a user who is only half registered.                   *)
(*                                                                         *)
(* Threads interleave between transactions.  A transaction may be rolled   *)
(* back, or its connection may break, before its commit or after it: then  *)
(* it counts as failed although its changes are there (pqxx::in_doubt).  A *)
(* broken connection stays broken.  The server may end at any point.       *)
(***************************************************************************)
EXTENDS Naturals, FiniteSets

CONSTANTS Clients,      \* registering clients, a thread of PhotogramServer each
          Nicks, Emails,
          MaxUsers,     \* bound on the ids drawn from the sequence of users.id
          MaxPictures,  \* bound on the ids drawn for profile_picture.id
          FriendsForeignKey, \* TRUE iff the columns of friends REFERENCE users(id)
          Faults,       \* TRUE iff transactions, connections and the server may fail
          Null          \* the SQL value NULL, and no value at all

Replies == {"ok", "occupied", "error"}

ASSUME RegistrationAssumption ==
    /\ MaxUsers \in Nat /\ MaxPictures \in Nat
    /\ FriendsForeignKey \in BOOLEAN /\ Faults \in BOOLEAN
    /\ Null \notin Nat /\ Null \notin Replies

VARIABLES users,      \* table users: id -> nick, email, photo, owner (of the password)
          pictures,   \* table profile_picture: ids
          friends,    \* table friends: rows <<user_id, friend_id>>
          userSeq, pictureSeq,  \* last values drawn from the sequences
          pc,         \* the next transaction of each thread
          form,       \* what the client sent
          userId, pictureId,    \* addNewUser's locals, Null until known
          alive,      \* the thread's database connection is usable
          reply,      \* how the client is or was answered
          swallowed   \* history: a compensation failed, its exception swallowed

dbVars == <<users, pictures, friends, userSeq, pictureSeq>>
vars == <<users, pictures, friends, userSeq, pictureSeq,
          pc, form, userId, pictureId, alive, reply, swallowed>>

Forms   == [nick : Nicks, email : Emails]
UserRow == [nick : Nicks, email : Emails, photo : 1..MaxPictures \cup {Null}, owner : Clients]
Steps   == {"properties", "picture", "connect", "undoPicture", "undoRow", "reply"}
Resting == {"idle", "answered", "lost"}

Init == /\ users = [i \in {} |-> Null]
        /\ pictures = {} /\ friends = {}
        /\ userSeq = 0 /\ pictureSeq = 0
        /\ pc = [c \in Clients |-> "idle"]
        /\ form = [c \in Clients |-> Null]
        /\ userId = [c \in Clients |-> Null]
        /\ pictureId = [c \in Clients |-> Null]
        /\ alive = [c \in Clients |-> TRUE]
        /\ reply = [c \in Clients |-> Null]
        /\ swallowed = [c \in Clients |-> FALSE]

----------------------------------------------------------------------------
Goto(c, step) == pc' = [pc EXCEPT ![c] = step]

(* addNewUser returns or throws; WorkWithClient chooses the answer. *)
Finish(c, r) == Goto(c, "reply") /\ reply' = [reply EXCEPT ![c] = r]

(* The connection is lost with the transaction that just ended, or not. *)
Breaks(c)   == alive' = [alive EXCEPT ![c] = FALSE]
MayBreak(c) == UNCHANGED alive \/ (Faults /\ Breaks(c))

(* A client that has no account sends the form of Registration.jsx, with a *)
(* photo, over a new connection: its thread opens the database for it.     *)
Submit(c, f) ==
    /\ pc[c] \in Resting
    /\ reply[c] # "ok"
    /\ Goto(c, "properties")
    /\ form' = [form EXCEPT ![c] = f]
    /\ userId' = [userId EXCEPT ![c] = Null]
    /\ pictureId' = [pictureId EXCEPT ![c] = Null]
    /\ alive' = [alive EXCEPT ![c] = TRUE]
    /\ reply' = [reply EXCEPT ![c] = Null]
    /\ swallowed' = [swallowed EXCEPT ![c] = FALSE]
    /\ UNCHANGED dbVars

(* addProperties: INSERT INTO users, the photo NULL.  The unique keys      *)
(* users_nickname_key and users_email_key refuse a taken name.             *)
Taken(f) == \E i \in DOMAIN users : users[i].nick = f.nick \/ users[i].email = f.email

(* Mutant: the id of a removed row is given out again. *)
InsertUserReusesId(c) ==
    /\ ~Taken(form[c])
    /\ \E i \in 1..MaxUsers :
          /\ i \notin DOMAIN users /\ \A j \in 1..i - 1 : j \in DOMAIN users
          /\ userSeq' = i
          /\ users' = [j \in DOMAIN users \cup {i} |->
                          IF j = i THEN [nick |-> form[c].nick, email |-> form[c].email,
                                         photo |-> Null, owner |-> c]
                                   ELSE users[j]]
    /\ UNCHANGED <<pictures, friends, pictureSeq>>

InsertUser(c) ==
    /\ ~Taken(form[c])
    /\ userSeq < MaxUsers
    /\ userSeq' = userSeq + 1
    /\ users' = [i \in DOMAIN users \cup {userSeq'} |->
                    IF i = userSeq'
                    THEN [nick |-> form[c].nick, email |-> form[c].email,
                          photo |-> Null, owner |-> c]
                    ELSE users[i]]
    /\ UNCHANGED <<pictures, friends, pictureSeq>>

AddProperties(c) ==
    /\ pc[c] = "properties"
    /\ \/ /\ InsertUser(c)
          /\ userId' = [userId EXCEPT ![c] = userSeq']
          /\ Goto(c, "picture")
          /\ UNCHANGED <<alive, reply>>
       \/ /\ Taken(form[c]) /\ Finish(c, "occupied")
          /\ UNCHANGED <<dbVars, userId, alive>>
       \/ /\ Faults /\ Finish(c, "error") /\ MayBreak(c)
          /\ UNCHANGED <<dbVars, userId>>
       \/ /\ Faults /\ InsertUser(c)   \* committed, yet isAddProperties stays false
          /\ Finish(c, "error") /\ Breaks(c)
          /\ UNCHANGED userId
    /\ UNCHANGED <<form, pictureId, swallowed>>

(* Mutant: the id in the row is not the one the sequence counts. *)
InsertPictureUncounted ==
    /\ pictureSeq < MaxPictures
    /\ pictures' = pictures \cup {pictureSeq + 1}
    /\ UNCHANGED <<users, friends, userSeq, pictureSeq>>

(* addNewPhoto: INSERT INTO profile_picture. *)
InsertPicture ==
    /\ pictureSeq < MaxPictures
    /\ pictureSeq' = pictureSeq + 1
    /\ pictures' = pictures \cup {pictureSeq'}
    /\ UNCHANGED <<users, friends, userSeq>>

(* Mutants: a failure is swallowed; the row is not removed after it. *)
AddNewPhotoSwallows(c) ==
    /\ pc[c] = "picture"
    /\ Goto(c, "connect")
    /\ \/ InsertPicture /\ pictureId' = [pictureId EXCEPT ![c] = pictureSeq']
       \/ Faults /\ UNCHANGED <<dbVars, pictureId>>
    /\ UNCHANGED <<form, userId, alive, reply, swallowed>>

AddNewPhotoNoUndo(c) ==
    /\ pc[c] = "picture"
    /\ \/ /\ InsertPicture
          /\ pictureId' = [pictureId EXCEPT ![c] = pictureSeq']
          /\ Goto(c, "connect")
          /\ UNCHANGED <<alive, reply>>
       \/ /\ Faults /\ Finish(c, "error") /\ MayBreak(c)
          /\ UNCHANGED <<dbVars, pictureId>>
    /\ UNCHANGED <<form, userId, swallowed>>

AddNewPhoto(c) ==
    /\ pc[c] = "picture"
    /\ \/ /\ InsertPicture
          /\ pictureId' = [pictureId EXCEPT ![c] = pictureSeq']
          /\ Goto(c, "connect")
          /\ UNCHANGED alive
       \/ /\ Faults /\ Goto(c, "undoRow") /\ MayBreak(c)
          /\ UNCHANGED <<dbVars, pictureId>>
       \/ /\ Faults /\ InsertPicture   \* committed, yet isAddPhoto stays false
          /\ Goto(c, "undoRow") /\ Breaks(c)
          /\ UNCHANGED pictureId
    /\ UNCHANGED <<form, userId, reply, swallowed>>

(* connectPropertiesAndPhoto: UPDATE users SET photo_id. *)
SetPhoto(c) ==
    /\ users' = [i \in DOMAIN users |->
                    IF i = userId[c] THEN [users[i] EXCEPT !.photo = pictureId[c]]
                                     ELSE users[i]]
    /\ UNCHANGED <<pictures, friends, userSeq, pictureSeq>>

(* Mutant: the compensation gets a new connection. *)
ConnectReconnects(c) ==
    /\ pc[c] = "connect"
    /\ \/ SetPhoto(c) /\ Finish(c, "ok")
       \/ SetPhoto(c) /\ Faults /\ Goto(c, "undoPicture") /\ UNCHANGED reply
       \/ Faults /\ Goto(c, "undoPicture") /\ UNCHANGED <<dbVars, reply>>
    /\ UNCHANGED <<form, userId, pictureId, alive, swallowed>>

ConnectPropertiesAndPhoto(c) ==
    /\ pc[c] = "connect"
    /\ \/ SetPhoto(c) /\ Finish(c, "ok") /\ UNCHANGED alive
       \/ /\ Faults /\ Goto(c, "undoPicture") /\ MayBreak(c)
          /\ UNCHANGED <<dbVars, reply>>
       \/ /\ Faults /\ SetPhoto(c)     \* committed, yet addNewUser's catch runs
          /\ Goto(c, "undoPicture") /\ Breaks(c)
          /\ UNCHANGED reply
    /\ UNCHANGED <<form, userId, pictureId, swallowed>>

(* Mutants: the newest picture is deleted; a failure is tried again. *)
DeletePhotoNewest(c) ==
    /\ pc[c] = "undoPicture" /\ alive[c]
    /\ Goto(c, "undoRow")
    /\ pictures' = pictures \ {pictureSeq} /\ MayBreak(c)
    /\ UNCHANGED <<users, friends, userSeq, pictureSeq, form, userId, pictureId, reply, swallowed>>

DeletePhotoFailsRetries(c) ==
    /\ pc[c] = "undoPicture" /\ alive[c] /\ Faults
    /\ MayBreak(c)
    /\ UNCHANGED <<dbVars, pc, form, userId, pictureId, reply, swallowed>>

(* The catch of addNewUser: deletePhoto if isAddPhoto, then deleteRow if   *)
(* isAddProperties, each in a transaction of its own.                      *)
DeletePhoto(c) ==
    /\ pc[c] = "undoPicture" /\ alive[c]
    /\ Goto(c, "undoRow")
    /\ pictures' = pictures \ {pictureId[c]} /\ MayBreak(c)
    /\ UNCHANGED <<users, friends, userSeq, pictureSeq, form, userId, pictureId, reply, swallowed>>

(* Both swallow whatever is thrown: the transaction may be rolled back on a*)
(* working connection, or break it, and fails for certain on a broken one. *)
Swallow(c) == swallowed' = [swallowed EXCEPT ![c] = TRUE]

DeletePhotoFails(c) ==
    /\ pc[c] = "undoPicture" /\ Faults
    /\ Goto(c, "undoRow") /\ Swallow(c)
    /\ MayBreak(c)
    /\ UNCHANGED <<dbVars, form, userId, pictureId, reply>>

(* A friend of the new user makes the foreign key refuse the DELETE. *)
Befriended(i) == \E row \in friends : i \in {row[1], row[2]}

Refused(i) == FriendsForeignKey /\ Befriended(i)

DeleteRow(c) ==
    /\ pc[c] = "undoRow" /\ alive[c] /\ ~Refused(userId[c])
    /\ Finish(c, "error")
    /\ users' = [i \in DOMAIN users \ {userId[c]} |-> users[i]] /\ MayBreak(c)
    /\ UNCHANGED <<pictures, friends, userSeq, pictureSeq, form, userId, pictureId, swallowed>>

(* Mutant: every failure is reported as a name that is taken. *)
DeleteRowFailsOccupied(c) ==
    /\ pc[c] = "undoRow"
    /\ Finish(c, "occupied") /\ Swallow(c)
    /\ \/ Faults /\ MayBreak(c)
       \/ Refused(userId[c]) /\ UNCHANGED alive
    /\ UNCHANGED <<dbVars, form, userId, pictureId>>

DeleteRowFails(c) ==
    /\ pc[c] = "undoRow"
    /\ Finish(c, "error") /\ Swallow(c)
    /\ \/ Faults /\ MayBreak(c)
       \/ Refused(userId[c]) /\ UNCHANGED alive
    /\ UNCHANGED <<dbVars, form, userId, pictureId>>

(* sendAnswerOK or sendError. *)
SendAnswer(c) ==
    /\ pc[c] = "reply"
    /\ Goto(c, "answered")
    /\ UNCHANGED <<dbVars, form, userId, pictureId, alive, reply, swallowed>>

----------------------------------------------------------------------------
(* makeFriend and deleteFriend on another thread.  getUsersList shows every*)
(* row of users, half registered or not, and a token outlives its row: any *)
(* id drawn so far may appear on either side.                              *)
MakeFriend(u, f) ==
    /\ FriendsForeignKey => {u, f} \subseteq DOMAIN users
    /\ friends' = friends \cup {<<u, f>>}
    /\ UNCHANGED <<users, pictures, userSeq, pictureSeq,
                   pc, form, userId, pictureId, alive, reply, swallowed>>

DeleteFriend(u, f) ==
    /\ <<u, f>> \in friends
    /\ friends' = friends \ {<<u, f>>}
    /\ UNCHANGED <<users, pictures, userSeq, pictureSeq,
                   pc, form, userId, pictureId, alive, reply, swallowed>>

(* PhotogramServer ends, with it every thread and its uncommitted work; it *)
(* is started again and knows of nothing but the tables.                   *)
ServerDies ==
    /\ Faults
    /\ pc' = [c \in Clients |-> IF pc[c] \in Steps THEN "lost" ELSE pc[c]]
    /\ reply' = [c \in Clients |-> IF pc[c] \in Steps THEN Null ELSE reply[c]]
    /\ UNCHANGED <<dbVars, form, userId, pictureId, alive, swallowed>>

AddNewUser(c) == \/ AddProperties(c) \/ AddNewPhoto(c) \/ ConnectPropertiesAndPhoto(c)
                 \/ DeletePhoto(c) \/ DeletePhotoFails(c)
                 \/ DeleteRow(c) \/ DeleteRowFails(c)

Thread(c) == AddNewUser(c) \/ SendAnswer(c)

Next == \/ \E c \in Clients : Thread(c) \/ \E f \in Forms : Submit(c, f)
        \/ \E u, f \in 1..userSeq : u # f /\ (MakeFriend(u, f) \/ DeleteFriend(u, f))
        \/ ServerDies

Spec == Init /\ [][Next]_vars

(* Every thread of the server keeps running. *)
FairSpec == Spec /\ \A c \in Clients : WF_vars(Thread(c))

----------------------------------------------------------------------------
TypeOK ==
    /\ DOMAIN users \subseteq 1..userSeq
    /\ users \in [DOMAIN users -> UserRow]
    /\ pictures \subseteq 1..pictureSeq
    /\ friends \subseteq (1..userSeq) \X (1..userSeq)
    /\ userSeq \in 0..MaxUsers
    /\ pictureSeq \in 0..MaxPictures
    /\ pc \in [Clients -> Steps \cup Resting]
    /\ form \in [Clients -> Forms \cup {Null}]
    /\ userId \in [Clients -> 1..userSeq \cup {Null}]
    /\ pictureId \in [Clients -> 1..pictureSeq \cup {Null}]
    /\ alive \in [Clients -> BOOLEAN]
    /\ reply \in [Clients -> Replies \cup {Null}]
    /\ swallowed \in [Clients -> BOOLEAN]

Complete(i) == i \in DOMAIN users /\ users[i].photo # Null

(* A user told that the registration succeeded has an account from then    *)
(* on, linked to a stored picture, whatever other registrations fail,      *)
(* compensate or die beside it.                                            *)
OkMeansComplete ==
    \A c \in Clients :
        reply[c] = "ok" => Complete(userId[c]) /\ users[userId[c]].photo \in pictures

(* No account shows a picture that compensation removed, and none shares   *)
(* its picture with another account.                                       *)
PicturesOfUsersStored ==
    /\ \A i \in DOMAIN users : users[i].photo = Null \/ users[i].photo \in pictures
    /\ \A i, j \in DOMAIN users : users[i].photo = users[j].photo /\ users[i].photo # Null => i = j

(* Compensation is addressed: the row it removes is its own and half       *)
(* registered; a complete account is never removed, not even by the thread *)
(* that created it and was told that its last transaction failed.          *)
OnlyHalfAccountsRemoved ==
    [][\A i \in DOMAIN users \ DOMAIN users' :
           /\ ~Complete(i)
           /\ \E c \in Clients : pc[c] = "undoRow" /\ userId[c] = i /\ users[i].owner = c]_vars

(* Who is told that the registration failed, on a connection that works,   *)
(* has no complete account, and no account shows the picture that was sent:*)
(* the worst that is left is half an account, or a picture of nobody's.    *)
(* Even that only where a compensation failed itself and swallowed it, a   *)
(* friend's foreign key being one reason of many.                          *)
FailureLeavesHalf ==
    \A c \in Clients : reply[c] = "error" /\ alive[c] =>
        /\ ~Complete(userId[c])
        /\ \A i \in DOMAIN users : users[i].photo = Null \/ users[i].photo # pictureId[c]
        /\ userId[c] \in DOMAIN users \/ pictureId[c] \in pictures => swallowed[c]

(* The saga as one atomic creation: the account comes into being when the  *)
(* commit of connectPropertiesAndPhoto reaches the tables, and what was    *)
(* half registered is not there yet.                                       *)
Accounts == {<<i, users[i].owner>> : i \in {j \in DOMAIN users : Complete(j)}}

Status(c) == CASE pc[c] = "answered" -> reply[c]
               [] pc[c] \in {"idle", "lost"} -> pc[c]
               [] OTHER -> IF Complete(userId[c]) THEN "created" ELSE "open"

Registry == INSTANCE AccountRegistry
                WITH Ids <- 1..MaxUsers,
                     accounts <- Accounts,
                     status <- [c \in Clients |-> Status(c)]

(* addNewUser, with every way its transactions can fail, implements        *)
(* AccountRegistry.                                                        *)
RegistrySpec == Registry!Spec

(* Every registration is answered unless the server dies under it. *)
Answered == \A c \in Clients : pc[c] \in Steps ~> pc[c] \in Resting

=============================================================================
