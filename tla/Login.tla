------------------------------- MODULE Login -------------------------------
(***************************************************************************)
(* Logging in to PhotogramServer while clients register: checkPassword of  *)
(* WorkWithPostgreSQL and the tokens that /login hands out.  A token names *)
(* an id of users and nothing else, and it outlives the row.               *)
(*                                                                         *)
(* A password is known to the client that registered with it: the field    *)
(* owner of a row stands for it.                                           *)
(***************************************************************************)
EXTENDS Registration

CONSTANTS ProbeId,  \* the id that checkPassword asks getNickname for, 18 in the code
          Fold      \* UPPER on e-mail addresses

ASSUME LoginAssumption == ProbeId \in Nat /\ DOMAIN Fold = Emails

VARIABLE session  \* the id in the tokens each client holds

LoginInit == Init /\ session = [c \in Clients |-> Null]

(* getHashPassword compares e-mail addresses without regard to case, while *)
(* users_email_key, which keeps them unique, regards it.                   *)
Matches(e) == {i \in DOMAIN users : Fold[users[i].email] = Fold[e]}

(* checkPassword asks for the nickname of user ProbeId, then for the hash  *)
(* of the address, each query to return exactly one row, and verifies the  *)
(* password: what may make it throw.  Connection, statement or hash may    *)
(* fail as well.                                                           *)
Causes == {"probe", "rows", "password", "fault"}

(* Mutant: the password is compared with the one of user ProbeId. *)
ThrowsProbed(c, e) ==
    {why \in Causes :
        CASE why = "probe"    -> ProbeId \notin DOMAIN users
          [] why = "rows"     -> ~\E i \in DOMAIN users : Matches(e) = {i}
          [] why = "password" -> ProbeId \in DOMAIN users /\ users[ProbeId].owner # c
          [] why = "fault"    -> Faults}

Throws(c, e) ==
    {why \in Causes :
        CASE why = "probe"    -> ProbeId \notin DOMAIN users
          [] why = "rows"     -> ~\E i \in DOMAIN users : Matches(e) = {i}
          [] why = "password" -> \E i \in DOMAIN users : Matches(e) = {i} /\ users[i].owner # c
          [] why = "fault"    -> Faults}

(* /login.  Whatever is thrown becomes "Invalid login or password", and the*)
(* refusal changes nothing.                                                *)
LogIn(c, e) ==
    /\ \/ /\ Throws(c, e) \subseteq {"fault"}
          /\ \E i \in Matches(e) : session' = [session EXCEPT ![c] = i]
       \/ Throws(c, e) # {} /\ UNCHANGED session
    /\ UNCHANGED vars

LoginNext == \/ Next /\ UNCHANGED session
             \/ \E c \in Clients, e \in Emails : LogIn(c, e)

LoginSpec == LoginInit /\ [][LoginNext]_<<vars, session>>

----------------------------------------------------------------------------
(* The id in a client's token never becomes another client's account, even *)
(* when the row it was issued for was a half-registered one that           *)
(* compensation removed.                                                   *)
SessionStaysOwn ==
    \A c \in Clients : session[c] \in DOMAIN users => users[session[c]].owner = c

(* Client c was told that it is registered, with address e. *)
Owns(c, e) == reply[c] = "ok" /\ pc[c] = "answered" /\ users[userId[c]].email = e

(* "Invalid login or password" is said of an invalid login or password:    *)
(* who is registered and gives the right ones is not refused.              *)
RefusalMeansInvalid ==
    \A c \in Clients, e \in Emails : Owns(c, e) => Throws(c, e) = {}

(* A registered client with the right address and password is never refused*)
(* for its password, and for its address only when that was registered once*)
(* more in another case.  What else refuses it is the want of user ProbeId *)
(* or a fault.                                                             *)
RefusalExplained ==
    \A c \in Clients, e \in Emails : Owns(c, e) =>
        /\ "password" \notin Throws(c, e)
        /\ "rows" \in Throws(c, e) =>
              \E i \in DOMAIN users : users[i].email # e /\ Fold[users[i].email] = Fold[e]

=============================================================================
