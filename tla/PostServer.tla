----------------------------- MODULE PostServer -----------------------------
(***************************************************************************)
(* PostServer: one io_context thread that runs the handlers of all client  *)
(* connections (TcpConnection), each of which asks PhotogramServer over a  *)
(* connection of its own (AnotherServerConnection) whose token this is and *)
(* then runs one transaction of DBclient.  PhotogramServer's side of that  *)
(* connection is a thread of WorkWithClient::run, here with its endpoint   *)
(* /getIdForServerByAccess only.  Both servers open PostgreSQL             *)
(* connections, of which there are MaxDb.                                  *)
(*                                                                         *)
(* A handler runs to its end before the next one starts: one action per    *)
(* handler.  An exception that leaves a handler leaves io_context::run and *)
(* ends main: action part Die.                                             *)
(***************************************************************************)
EXTENDS PostStore

CONSTANTS Conns,   \* slots for the TcpConnection objects alive at one time
          MaxDb,   \* max_connections of PostgreSQL
          Resets,  \* TRUE iff a peer may vanish so that socket.shutdown throws
          ClientRequests  \* the requests the clients send

VARIABLES up,      \* PostServer is running
          phUp,    \* PhotogramServer is running
          conn,    \* the TcpConnection of each slot
          link,    \* its an_server_socket_: "open" or "closed"
          answer,  \* what PhotogramServer sent back over it
          thread,  \* the PhotogramServer thread at the other end of it
          leaked,  \* PostgreSQL connections kept by TcpConnections nobody can reach
          stuck    \* PhotogramServer threads waiting on sockets nobody will close

netVars == <<up, phUp, conn, link, answer, thread, leaked, stuck>>
vars == <<up, phUp, conn, link, answer, thread, leaked, stuck,
          posts, photos, likes, postSeq, photoSeq>>

Writes   == {"addNewPost", "deletePost", "likeClicked"}
Answers  == {"ok", "unauthorized", "internal_server_error"}
Waiting  == {"resolving", "connecting", "asking", "awaiting"}
Pending  == Waiting \cup {"writing"}
Settled  == {"idle", "closed", "stalled", "lost"}
Statuses == {200, 400, 401, 500}

Requests ==
    [verb : {"OPTIONS", "PUT"}, op : {"none"}, user : Users, post : {0}]
      \cup [verb : {"GET"}, op : {"read", "unknown"}, user : Users, post : {0}]
      \cup [verb : {"POST"}, op : {"addNewPost", "unknown"}, user : Users, post : {0}]
      \cup [verb : {"POST"}, op : {"deletePost", "likeClicked"}, user : Users, post : PostIds]

ASSUME ServerAssumption == /\ IsFiniteSet(Conns)
                           /\ MaxDb \in Nat
                           /\ Resets \in BOOLEAN
                           /\ ClientRequests \subseteq Requests
                           /\ Null \notin Requests

Connections == [st   : Settled \cup Pending \cup {"reading"},
                req  : Requests \cup {Null},   \* user is the holder of its token
                resp : Statuses \cup {Null},   \* the answer handed to async_write
                db   : BOOLEAN,                \* holds a DBclient
                done : BOOLEAN]                \* its transaction was committed

NoConnection == [st |-> "idle", req |-> Null, resp |-> Null, db |-> FALSE, done |-> FALSE]

Init == /\ StoreInit
        /\ up = TRUE
        /\ phUp = TRUE
        /\ conn = [c \in Conns |-> NoConnection]
        /\ link = [c \in Conns |-> "closed"]
        /\ answer = [c \in Conns |-> Null]
        /\ thread = [c \in Conns |-> "none"]
        /\ leaked = 0
        /\ stuck = 0

PgInUse == leaked + stuck
             + Cardinality({c \in Conns : conn[c].db})
             + Cardinality({c \in Conns : thread[c] = "recv"})

PgFree == PgInUse < MaxDb

----------------------------------------------------------------------------
(* The end of the PostServer process: every socket closes and every        *)
(* DBclient with it.  A PhotogramServer thread blocked in recv sees 0 and  *)
(* ends, or -1, which WorkWithClient::run takes for a size: the exception  *)
(* leaves the thread and ends PhotogramServer too.  committed: connections *)
(* whose transaction the handler had just committed.                       *)
Die(committed) ==
    /\ up' = FALSE
    /\ conn' = [c \in Conns |->
                   [conn[c] EXCEPT !.st = IF @ \in {"idle", "closed"} THEN @ ELSE "lost",
                                   !.db = FALSE,
                                   !.done = @ \/ c \in committed]]
    /\ link' = [c \in Conns |-> "closed"]
    /\ thread' = [c \in Conns |-> "none"]
    /\ leaked' = 0
    /\ stuck' = 0
    /\ \/ UNCHANGED phUp
       \/ /\ stuck > 0 \/ \E c \in Conns : thread[c] = "recv"
          /\ phUp' = FALSE
    /\ UNCHANGED answer

(* handle_accept and start.  The slot's former TcpConnection stays in      *)
(* memory if a callback was stored: callback_ holds shared_on_self, which  *)
(* holds an_server_connection_, which holds callback_.  Its DBclient and   *)
(* an open an_server_socket_ stay with it.                                 *)
Accept(c, r) ==
    /\ up
    /\ conn[c].st \in Settled
    /\ thread[c] = "none" \/ link[c] = "open"
    /\ r.op \in {"deletePost", "likeClicked"} => r.post \in ShownPosts
    /\ conn' = [conn EXCEPT ![c] = [NoConnection EXCEPT !.st = "reading", !.req = r]]
    /\ leaked' = leaked + (IF conn[c].db THEN 1 ELSE 0)
    /\ stuck' = stuck + (IF thread[c] = "recv" THEN 1 ELSE 0)
    /\ link' = [link EXCEPT ![c] = "closed"]
    /\ answer' = [answer EXCEPT ![c] = Null]
    /\ thread' = [thread EXCEPT ![c] = "none"]
    /\ UNCHANGED <<up, phUp, storeVars>>

(* The answer is handed to async_write. *)
Answer(c, status) == conn' = [conn EXCEPT ![c].st = "writing", ![c].resp = status]

(* The connection's last handler ran: all that is left is what it retains. *)
Finish(c, st) ==
    conn' = [conn EXCEPT ![c] = [NoConnection EXCEPT !.st = st, !.db = conn[c].db]]

(* handleRead with an error: the client left before its request was whole. *)
ReadFails(c) ==
    /\ up /\ conn[c].st = "reading"
    /\ Finish(c, "closed")
    /\ UNCHANGED <<up, phUp, link, answer, thread, leaked, stuck, storeVars>>

(* handleRead and handleRequest.  OPTIONS is answered at once; a GET opens *)
(* its DBclient before the token is checked, outside of any try; a verb    *)
(* other than these three is dropped without an answer.                    *)
ReadRequest(c) ==
    /\ up /\ conn[c].st = "reading"
    /\ \/ conn[c].req.verb = "OPTIONS" /\ Answer(c, 200)
       \/ /\ conn[c].req.verb = "GET" /\ PgFree
          /\ conn' = [conn EXCEPT ![c].st = "resolving", ![c].db = TRUE]
       \/ /\ conn[c].req.verb = "POST"
          /\ conn' = [conn EXCEPT ![c].st = "resolving"]
       \/ /\ conn[c].req.verb = "PUT"
          /\ Finish(c, "closed")
    /\ UNCHANGED <<up, phUp, link, answer, thread, leaked, stuck, storeVars>>

ReadRequestDies(c) ==
    /\ up /\ conn[c].st = "reading"
    /\ \/ conn[c].req.verb = "GET" /\ ~PgFree   \* DBclient's constructor throws
       \/ Resets                               \* shutdown(shutdown_receive) throws
    /\ Die({})
    /\ UNCHANGED storeVars

----------------------------------------------------------------------------
(* The chain of handlers of AnotherServerConnection.  Each of them returns *)
(* on an error without calling callback_: the client is never answered and *)
(* its socket is never closed.                                             *)
LinkFails(c) ==
    /\ Finish(c, "stalled")
    /\ link' = [link EXCEPT ![c] = "closed"]
    /\ UNCHANGED <<up, phUp, answer, thread, leaked, stuck, storeVars>>

OnResolve(c) ==
    /\ up /\ conn[c].st = "resolving"
    /\ \/ LinkFails(c)
       \/ /\ conn' = [conn EXCEPT ![c].st = "connecting"]
          /\ UNCHANGED <<up, phUp, link, answer, thread, leaked, stuck, storeVars>>

OnConnect(c) ==
    /\ up /\ conn[c].st = "connecting"
    /\ \/ LinkFails(c)
       \/ /\ phUp
          /\ conn' = [conn EXCEPT ![c].st = "asking"]
          /\ link' = [link EXCEPT ![c] = "open"]
          /\ thread' = [thread EXCEPT ![c] = "accepted"]
          /\ UNCHANGED <<up, phUp, answer, leaked, stuck, storeVars>>

OnWrite(c) ==
    /\ up /\ conn[c].st = "asking"
    /\ \/ LinkFails(c)
       \/ /\ thread[c] # "none"
          /\ conn' = [conn EXCEPT ![c].st = "awaiting"]
          /\ UNCHANGED <<up, phUp, link, answer, thread, leaked, stuck, storeVars>>

(* Mutant: the error of on_read is passed over. *)
OnReadFailsIgnored(c) ==
    /\ up /\ conn[c].st = "awaiting" /\ thread[c] = "none"
    /\ UNCHANGED vars

(* on_read with an error: PhotogramServer closed the connection. *)
OnReadFails(c) ==
    /\ up /\ conn[c].st = "awaiting" /\ thread[c] = "none"
    /\ LinkFails(c)

(* Mutant: a refused token is answered with a status of its own. *)
OnReadRefusalForbids(c) ==
    /\ up /\ conn[c].st = "awaiting"
    /\ \/ answer[c] = "unauthorized" /\ Answer(c, 403)
       \/ answer[c] = "internal_server_error" /\ Answer(c, 500)
    /\ UNCHANGED <<up, phUp, link, answer, thread, leaked, stuck, storeVars>>

(* on_read with a status other than 200.  The callback answers the client; *)
(* an_server_socket_ is not closed.                                        *)
OnReadRefusal(c) ==
    /\ up /\ conn[c].st = "awaiting"
    /\ \/ answer[c] = "unauthorized" /\ Answer(c, 401)
       \/ answer[c] = "internal_server_error" /\ Answer(c, 500)
    /\ UNCHANGED <<up, phUp, link, answer, thread, leaked, stuck, storeVars>>

(* on_read with 200 and an id: the callback of handleRequest runs inside   *)
(* it and the connection to PhotogramServer is closed afterwards.          *)
Granted(c) == up /\ conn[c].st = "awaiting" /\ answer[c] = "ok"

(* an_server_socket_.shutdown throws after the callback if PhotogramServer *)
(* went away once it had answered.                                         *)
ShutdownThrows(c) == Resets /\ thread[c] = "none"

(* Mutant: an_server_socket_ stays open after 200, too. *)
RespondKeepsLink(c, status, db, done) ==
    /\ conn' = [conn EXCEPT ![c].st = "writing", ![c].resp = status,
                            ![c].db = db, ![c].done = done]
    /\ UNCHANGED <<up, phUp, link, answer, thread, leaked, stuck>>

Respond(c, status, db, done) ==
    /\ conn' = [conn EXCEPT ![c].st = "writing", ![c].resp = status,
                            ![c].db = db, ![c].done = done]
    /\ link' = [link EXCEPT ![c] = "closed"]
    /\ UNCHANGED <<up, phUp, answer, thread, leaked, stuck>>

(* The callback of a GET opens a second DBclient, outside of any try; the  *)
(* first is released once the second exists.  An unknown target keeps the  *)
(* status the callback began with.                                         *)
OnReadGet(c) ==
    /\ Granted(c) /\ conn[c].req.verb = "GET" /\ PgFree
    /\ \E status \in IF conn[c].req.op = "read" THEN {200, 500} ELSE {400} :
          Respond(c, status, TRUE, FALSE)
    /\ UNCHANGED storeVars

OnReadGetDies(c) ==
    /\ Granted(c) /\ conn[c].req.verb = "GET"
    /\ ~PgFree \/ ShutdownThrows(c)
    /\ Die({})
    /\ UNCHANGED storeVars

(* The transaction the target of a POST names, committed. *)
Commit(r) == \/ r.op = "addNewPost" /\ AddNewPost(r.user)
             \/ r.op = "deletePost" /\ DelPostById(r.user, r.post)
             \/ r.op = "likeClicked" /\ LikeClicked(r.user, r.post)

(* Its failure: refused by the check or the database, rolled back. *)
RollBack(r) == \/ UNCHANGED storeVars
               \/ r.op = "addNewPost" /\ AddNewPostAborts

(* Mutant: the catch leaves the status at 200. *)
OnReadPostUnreported(c) ==
    /\ Granted(c) /\ conn[c].req.verb = "POST" /\ PgFree
    /\ \/ Commit(conn[c].req) /\ Respond(c, 200, TRUE, TRUE)
       \/ RollBack(conn[c].req) /\ Respond(c, 200, TRUE, FALSE)

(* The callback of a POST runs in a try.  The status 400 that delPostById  *)
(* asks for is overwritten with 500 for want of an else.  A commit whose   *)
(* acknowledgement was lost is reported as a failure, too.                 *)
OnReadPost(c) ==
    /\ Granted(c) /\ conn[c].req.verb = "POST"
    /\ \/ ~PgFree /\ Respond(c, 500, FALSE, FALSE) /\ UNCHANGED storeVars
       \/ PgFree /\ Commit(conn[c].req) /\ \E status \in {200, 500} : Respond(c, status, TRUE, TRUE)
       \/ /\ PgFree /\ conn[c].req.op \in Writes
          /\ RollBack(conn[c].req) /\ Respond(c, 500, TRUE, FALSE)
       \/ /\ PgFree /\ conn[c].req.op = "unknown"
          /\ Respond(c, 200, TRUE, FALSE) /\ UNCHANGED storeVars

(* The transaction may be committed and its answer never written. *)
OnReadPostDies(c) ==
    /\ Granted(c) /\ conn[c].req.verb = "POST"
    /\ ShutdownThrows(c)
    /\ \/ PgFree /\ Commit(conn[c].req) /\ Die({c})
       \/ RollBack(conn[c].req) /\ Die({})

(* The completion of async_write, here and in handleWrite: shutdown, close *)
(* and nothing else, whether the answer was written or not.                *)
Written(c) ==
    /\ up /\ conn[c].st = "writing"
    /\ Finish(c, "closed")
    /\ UNCHANGED <<up, phUp, link, answer, thread, leaked, stuck, storeVars>>

WrittenDies(c) ==
    /\ up /\ conn[c].st = "writing"
    /\ Resets                                  \* shutdown(shutdown_send) throws
    /\ Die({})
    /\ UNCHANGED storeVars

----------------------------------------------------------------------------
(* PhotogramServer: the thread opens its PostgreSQL connection or closes   *)
(* the socket and ends.                                                    *)
ThreadStart(c) ==
    /\ phUp /\ thread[c] = "accepted"
    /\ thread' = [thread EXCEPT ![c] = IF PgFree THEN "recv" ELSE "none"]
    /\ UNCHANGED <<up, phUp, conn, link, answer, leaked, stuck, storeVars>>

(* The thread answers the request for the id behind the token, which may   *)
(* have expired by now, and waits in recv again.                           *)
ThreadAnswer(c) ==
    /\ phUp /\ thread[c] = "recv" /\ conn[c].st = "awaiting" /\ answer[c] = Null
    /\ \E a \in Answers : answer' = [answer EXCEPT ![c] = a]
    /\ UNCHANGED <<up, phUp, conn, link, thread, leaked, stuck, storeVars>>

(* recv returns 0: the thread ends and releases its PostgreSQL connection. *)
ThreadEnd(c) ==
    /\ phUp /\ thread[c] = "recv" /\ link[c] = "closed"
    /\ thread' = [thread EXCEPT ![c] = "none"]
    /\ UNCHANGED <<up, phUp, conn, link, answer, leaked, stuck, storeVars>>

(* PhotogramServer ends, for a reset connection of one of its other        *)
(* clients say, and all its threads with it.                               *)
PhotogramDies ==
    /\ phUp
    /\ phUp' = FALSE
    /\ thread' = [c \in Conns |-> "none"]
    /\ stuck' = 0
    /\ UNCHANGED <<up, conn, link, answer, leaked, storeVars>>

(* An operator starts a server that has ended. *)
PhotogramRestarts ==
    /\ ~phUp
    /\ phUp' = TRUE
    /\ UNCHANGED <<up, conn, link, answer, thread, leaked, stuck, storeVars>>

Restarts ==
    /\ ~up
    /\ up' = TRUE
    /\ UNCHANGED <<phUp, conn, link, answer, thread, leaked, stuck, storeVars>>

----------------------------------------------------------------------------
Handler(c) == \/ OnResolve(c) \/ OnConnect(c) \/ OnWrite(c)
              \/ OnReadFails(c) \/ OnReadRefusal(c)
              \/ OnReadGet(c) \/ OnReadGetDies(c)
              \/ OnReadPost(c) \/ OnReadPostDies(c)
              \/ Written(c) \/ WrittenDies(c)

Reading(c) == ReadFails(c) \/ ReadRequest(c) \/ ReadRequestDies(c)

ThreadStep(c) == ThreadStart(c) \/ ThreadAnswer(c) \/ ThreadEnd(c)

Next == \/ \E c \in Conns : \/ \E r \in ClientRequests : Accept(c, r)
                            \/ Reading(c) \/ Handler(c) \/ ThreadStep(c)
        \/ PhotogramDies \/ PhotogramRestarts \/ Restarts

Spec == Init /\ [][Next]_vars

(* io_context::run keeps running the handlers whose operations completed,  *)
(* and the scheduler keeps running PhotogramServer's threads.  Nothing     *)
(* forces a client to send its request, or an operator to restart.         *)
FairSpec == Spec /\ \A c \in Conns : WF_vars(Handler(c)) /\ WF_vars(ThreadStep(c))

----------------------------------------------------------------------------
TypeOK ==
    /\ up \in BOOLEAN /\ phUp \in BOOLEAN
    /\ conn \in [Conns -> Connections]
    /\ link \in [Conns -> {"open", "closed"}]
    /\ answer \in [Conns -> Answers \cup {Null}]
    /\ thread \in [Conns -> {"none", "accepted", "recv"}]
    /\ leaked \in Nat /\ stuck \in Nat

(* The status a client of a POST sees bounds what happened to the tables:  *)
(* after 200 the transaction was committed, after 400 or 401 it was not,   *)
(* and a committed transaction is reported as 200, as 500 (the commit was  *)
(* in doubt) or, if PostServer ended, not at all.                          *)
AnswerTellsEffect ==
    \A c \in Conns :
        LET k == conn[c] IN
        k.req # Null =>
          /\ k.resp = 200 /\ k.req.op \in Writes => k.done
          /\ k.resp \in {400, 401} => ~k.done
          /\ k.done => k.resp \in {200, 500} \/ k.st = "lost"

(* A PhotogramServer thread stays behind, with its PostgreSQL connection,  *)
(* after PostServer answered its client only if it had refused the token:  *)
(* an accepted token frees the thread.                                     *)
OnlyRefusalsKeepThread ==
    \A c \in Conns :
        link[c] = "open" /\ conn[c].st \in {"writing", "closed"}
          => answer[c] \in {"unauthorized", "internal_server_error"}

(* What one request may do to the tables: remove its own post with the     *)
(* likes of it, add a post of its own, or turn its own like over; on       *)
(* behalf of the user PhotogramServer named, and only once.                *)
Performs(c) == Granted(c) /\ ~conn[c].done /\ conn'[c].done

OnlyOwnChanges ==
    /\ \A p \in DOMAIN posts \ DOMAIN posts' :
          \E c \in Conns : /\ Performs(c) /\ conn[c].req.op = "deletePost"
                           /\ conn[c].req.post = p /\ posts[p].owner = conn[c].req.user
    /\ \A p \in DOMAIN posts' \ DOMAIN posts :
          \E c \in Conns : /\ Performs(c) /\ conn[c].req.op = "addNewPost"
                           /\ posts'[p].owner = conn[c].req.user
    /\ \A l \in (likes \ likes') \cup (likes' \ likes) :
          \E c \in Conns : /\ Performs(c) /\ conn[c].req.post = l[1]
                           /\ \/ conn[c].req.op = "likeClicked" /\ conn[c].req.user = l[2]
                              \/ conn[c].req.op = "deletePost" /\ l \notin likes'

OnlyOwnPostsAndLikes == [][OnlyOwnChanges]_vars

(* A request that was read whole does not hang in PostServer, whatever the *)
(* other connections do: it is answered, lost with the process, or given   *)
(* up because its connection to PhotogramServer failed.                    *)
RequestSettled == \A c \in Conns : conn[c].st \in Pending ~> conn[c].st \notin Pending

(* A thread that accepted a token ends: PostServer closes its side.        *)
GrantedThreadEnds == \A c \in Conns : answer[c] = "ok" ~> thread[c] = "none"

=============================================================================
