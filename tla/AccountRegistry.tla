-------------------------- MODULE AccountRegistry --------------------------
(***************************************************************************)
(* What a registering client is promised, with no tables, transactions or  *)
(* compensation: one submission creates at most one account, in one step,  *)
(* for the client that made it; a created account stays; the answer "ok"   *)
(* means that this submission created one.  "occupied" is given only to a  *)
(* submission that created none; "error", like no answer at all, leaves it *)
(* open.                                                                   *)
(***************************************************************************)
CONSTANTS Clients, Ids

VARIABLES accounts,  \* pairs <<id, client>>
          status     \* the last submission of each client

registryVars == <<accounts, status>>

InProgress == {"open", "created"}
Over       == {"idle", "ok", "occupied", "error", "lost"}

Init == accounts = {} /\ status = [c \in Clients |-> "idle"]

Open(c) == /\ status[c] \in Over \ {"ok"}
           /\ status' = [status EXCEPT ![c] = "open"]
           /\ UNCHANGED accounts

Create(c) == /\ status[c] = "open"
             /\ status' = [status EXCEPT ![c] = "created"]
             /\ \E i \in Ids : /\ \A a \in accounts : a[1] # i
                               /\ accounts' = accounts \cup {<<i, c>>}

Reply(c) == /\ \/ status[c] = "created" /\ status' = [status EXCEPT ![c] = "ok"]
               \/ status[c] = "open" /\ status' = [status EXCEPT ![c] = "occupied"]
               \/ status[c] \in InProgress /\ status' = [status EXCEPT ![c] = "error"]
            /\ UNCHANGED accounts

Lose == /\ status' = [c \in Clients |-> IF status[c] \in InProgress THEN "lost" ELSE status[c]]
        /\ UNCHANGED accounts

Next == (\E c \in Clients : Open(c) \/ Create(c) \/ Reply(c)) \/ Lose

Spec == Init /\ [][Next]_registryVars
=============================================================================
