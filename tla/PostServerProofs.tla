-------------------------- MODULE PostServerProofs --------------------------
(* Machine-checked proofs about PostServer, for every number of users,     *)
(* connections and PostgreSQL connections, with and without resets: what   *)
(* the status of an answer says about the tables is true, and nobody       *)
(* changes the posts and likes of others.                                  *)
EXTENDS PostServer, PostStoreProofs

(* A request in progress names a post that was shown to its client. *)
RequestsShown ==
    \A c \in Conns : conn[c].req # Null /\ conn[c].req.op \in {"deletePost", "likeClicked"}
                        => conn[c].req.post \in ShownPosts

(* Until its callback ran, a connection committed and answered nothing. *)
NothingYet ==
    \A c \in Conns : conn[c].st \in Waiting \cup {"reading"}
                        => ~conn[c].done /\ conn[c].resp = Null /\ conn[c].req \in Requests

(* A connection asks PhotogramServer only after its request was read. *)
NotAskedYet == \A c \in Conns : conn[c].st = "reading" => link[c] = "closed"

(* The inductive invariant. *)
ServerInv ==
    /\ TypeOK
    /\ postSeq \in 0..MaxPosts
    /\ RequestsShown
    /\ NothingYet
    /\ NotAskedYet
    /\ AnswerTellsEffect
    /\ OnlyRefusalsKeepThread

(* What ServerInv says of a single connection and its link. *)
RecordOK(k, n) ==
    /\ k \in Connections
    /\ k.st \in Waiting \cup {"reading"} => ~k.done /\ k.resp = Null /\ k.req \in Requests
    /\ k.req # Null =>
         /\ k.req.op \in {"deletePost", "likeClicked"} => k.req.post \in 1..n
         /\ k.resp = 200 /\ k.req.op \in Writes => k.done
         /\ k.resp \in {400, 401} => ~k.done
         /\ k.done => k.resp \in {200, 500} \/ k.st = "lost"

LinkOK(k, l, a) ==
    /\ k.st = "reading" => l = "closed"
    /\ l = "open" /\ k.st \in {"writing", "closed"}
         => a \in {"unauthorized", "internal_server_error"}

Shape ==
    /\ up \in BOOLEAN /\ phUp \in BOOLEAN
    /\ link \in [Conns -> {"open", "closed"}]
    /\ answer \in [Conns -> Answers \cup {Null}]
    /\ thread \in [Conns -> {"none", "accepted", "recv"}]
    /\ leaked \in Nat /\ stuck \in Nat
    /\ postSeq \in 0..MaxPosts

----------------------------------------------------------------------------
(* The invariant, connection by connection. *)
LEMMA PerConnection ==
    ServerInv => /\ Shape
                 /\ conn \in [Conns -> Connections]
                 /\ \A c \in Conns : /\ RecordOK(conn[c], postSeq)
                                     /\ LinkOK(conn[c], link[c], answer[c])
    BY DEF ServerInv, Shape, TypeOK, RequestsShown, NothingYet, NotAskedYet, ShownPosts,
           AnswerTellsEffect, OnlyRefusalsKeepThread, RecordOK, LinkOK

(* And back, after a step. *)
LEMMA FromConnections ==
    ASSUME Shape', conn' = [c \in Conns |-> conn'[c]],
           \A c \in Conns : /\ RecordOK(conn'[c], postSeq')
                            /\ LinkOK(conn'[c], link'[c], answer'[c])
    PROVE  ServerInv'
    BY DEF ServerInv, Shape, TypeOK, RequestsShown, NothingYet, NotAskedYet, ShownPosts,
           AnswerTellsEffect, OnlyRefusalsKeepThread, RecordOK, LinkOK

(* A request stays shown while the sequence of posts advances. *)
LEMMA StaysOK ==
    ASSUME NEW m \in Nat, NEW n \in Nat, n >= m, NEW k, RecordOK(k, m)
    PROVE  RecordOK(k, n)
    BY DEF RecordOK

(* A handler of one connection leaves the others as they are. *)
LEMMA OneConnection ==
    ASSUME ServerInv, NEW c \in Conns, Shape', postSeq' >= postSeq,
           NEW k, conn' = [conn EXCEPT ![c] = k],
           NEW l, link' = [link EXCEPT ![c] = l],
           NEW a, answer' = [answer EXCEPT ![c] = a],
           RecordOK(k, postSeq'), LinkOK(k, l, a)
    PROVE  ServerInv'
<1>1. /\ Shape /\ conn \in [Conns -> Connections]
      /\ \A d \in Conns : RecordOK(conn[d], postSeq) /\ LinkOK(conn[d], link[d], answer[d])
    BY PerConnection
<1>2. postSeq \in Nat /\ postSeq' \in Nat
    BY <1>1, StoreAssumption DEF Shape
<1>3. /\ conn' = [d \in Conns |-> conn'[d]]
      /\ conn'[c] = k /\ link'[c] = l /\ answer'[c] = a
      /\ \A d \in Conns \ {c} : conn'[d] = conn[d] /\ link'[d] = link[d] /\ answer'[d] = answer[d]
    BY <1>1 DEF Shape
<1>4. ASSUME NEW d \in Conns
      PROVE  RecordOK(conn'[d], postSeq') /\ LinkOK(conn'[d], link'[d], answer'[d])
  <2>1. CASE d = c
    BY <1>3, <2>1
  <2>2. CASE d # c
    BY <1>1, <1>2, <1>3, <2>2, StaysOK
  <2> QED
    BY <2>1, <2>2
<1> QED
    BY <1>3, <1>4, FromConnections

(* A thread or a server that changes no connection. *)
LEMMA NoConnectionChanged ==
    ASSUME ServerInv, Shape', UNCHANGED <<conn, link, storeVars>>,
           \A c \in Conns : answer'[c] = answer[c] \/ conn[c].st = "awaiting"
    PROVE  ServerInv'
<1>1. /\ Shape /\ conn \in [Conns -> Connections]
      /\ \A d \in Conns : RecordOK(conn[d], postSeq) /\ LinkOK(conn[d], link[d], answer[d])
    BY PerConnection
<1>2. conn' = [c \in Conns |-> conn'[c]]
    BY <1>1
<1>3. ASSUME NEW d \in Conns
      PROVE  RecordOK(conn'[d], postSeq') /\ LinkOK(conn'[d], link'[d], answer'[d])
    BY <1>1 DEF LinkOK, storeVars
<1> QED
    BY <1>2, <1>3, FromConnections

----------------------------------------------------------------------------
(* What the handlers do to the tables is what PostStore allows. *)
LEMMA TransactionsAreStoreSteps ==
    ASSUME ServerInv, NEW c \in Conns, conn[c].st = "awaiting",
           Commit(conn[c].req) \/ RollBack(conn[c].req)
    PROVE  StoreNext \/ UNCHANGED storeVars
<1>1. /\ conn[c].req \in Requests
      /\ conn[c].req.op \in {"deletePost", "likeClicked"} => conn[c].req.post \in ShownPosts
    BY ServerAssumption, PerConnection DEF RecordOK, Waiting, ShownPosts
<1>2. conn[c].req.user \in Users
    BY <1>1 DEF Requests
<1> QED
    BY <1>1, <1>2 DEF Commit, RollBack, StoreNext

(* The sequences of PostStore never run backwards nor past their bounds. *)
LEMMA StoreStepKeepsBounds ==
    ASSUME postSeq \in 0..MaxPosts, StoreNext \/ UNCHANGED storeVars
    PROVE  postSeq' \in 0..MaxPosts /\ postSeq' >= postSeq
<1>1. ASSUME NEW u \in Users, AddNewPost(u) PROVE postSeq' \in 0..MaxPosts /\ postSeq' >= postSeq
    BY <1>1, StoreAssumption DEF AddNewPost
<1>2. CASE AddNewPostAborts
    BY <1>2, StoreAssumption DEF AddNewPostAborts
<1>3. ASSUME NEW u \in Users, NEW p, DelPostById(u, p) \/ LikeClicked(u, p) PROVE postSeq' = postSeq
    BY <1>3 DEF DelPostById, LikeClicked, Like, Unlike
<1> QED
    BY <1>1, <1>2, <1>3, StoreAssumption DEF StoreNext, storeVars

----------------------------------------------------------------------------
(* The process ends: what was answered stays true of what was committed. *)
LEMMA DieKeeps ==
    ASSUME ServerInv, NEW committed \in SUBSET {c \in Conns : conn[c].st = "awaiting"},
           Die(committed), StoreNext \/ UNCHANGED storeVars
    PROVE  ServerInv'
<1>1. /\ Shape /\ conn \in [Conns -> Connections]
      /\ \A d \in Conns : RecordOK(conn[d], postSeq) /\ LinkOK(conn[d], link[d], answer[d])
    BY PerConnection
<1>2. postSeq \in Nat /\ postSeq' \in Nat /\ postSeq' \in 0..MaxPosts /\ postSeq' >= postSeq
    BY <1>1, StoreAssumption, StoreStepKeepsBounds DEF Shape
<1>3. Shape'
    BY <1>1, <1>2 DEF Die, Shape
<1>4. conn' = [c \in Conns |-> conn'[c]]
    BY DEF Die
<1>5. ASSUME NEW d \in Conns
      PROVE  RecordOK(conn'[d], postSeq') /\ LinkOK(conn'[d], link'[d], answer'[d])
  <2>1. /\ conn'[d].st = (IF conn[d].st \in {"idle", "closed"} THEN conn[d].st ELSE "lost")
        /\ conn'[d].req = conn[d].req /\ conn'[d].resp = conn[d].resp /\ conn'[d].db = FALSE
        /\ conn'[d].done = (conn[d].done \/ d \in committed)
        /\ conn'[d] \in Connections
    BY <1>1 DEF Die, Connections, Settled
  <2>2. RecordOK(conn[d], postSeq')
    BY <1>1, <1>2, StaysOK
  <2>3. d \in committed => conn[d].st = "awaiting" /\ conn[d].resp = Null
    BY <1>1 DEF RecordOK, Waiting
  <2>4. RecordOK(conn'[d], postSeq')
    <3>1. CASE d \in committed
      <4>1. conn'[d].st = "lost" /\ conn'[d].resp = Null /\ Null \notin {200, 400, 401}
        BY <2>1, <2>3, <3>1, StoreAssumption
      <4> QED
        BY <2>1, <2>2, <4>1 DEF RecordOK, Waiting
    <3>2. CASE d \notin committed
      <4>1. conn'[d].done = conn[d].done
        BY <1>1, <2>1, <3>2 DEF Connections
      <4> QED
        BY <2>1, <2>2, <4>1 DEF RecordOK, Waiting
    <3> QED
      BY <3>1, <3>2
  <2>5. LinkOK(conn'[d], link'[d], answer'[d])
    BY <2>1 DEF LinkOK, Die
  <2> QED
    BY <2>4, <2>5
<1> QED
    BY <1>3, <1>4, <1>5, FromConnections

(* The last handler of a connection ran. *)
LEMMA FinishedOK ==
    ASSUME ServerInv, NEW c \in Conns, NEW st \in Settled
    PROVE  RecordOK([NoConnection EXCEPT !.st = st, !.db = conn[c].db], postSeq)
<1>1. conn[c].db \in BOOLEAN
    BY PerConnection DEF Connections
<1> QED
    BY <1>1 DEF RecordOK, NoConnection, Connections, Settled, Waiting

(* A handler that gives up its connection. *)
LEMMA FinishKeeps ==
    ASSUME ServerInv, NEW c \in Conns, NEW st \in Settled, Finish(c, st),
           link' = [link EXCEPT ![c] = "closed"] \/ (UNCHANGED link /\ LinkOK([st |-> st], link[c], answer[c])),
           UNCHANGED <<up, phUp, answer, thread, leaked, stuck, storeVars>>
    PROVE  ServerInv'
<1>1. Shape /\ Shape' /\ postSeq' = postSeq /\ postSeq' >= postSeq
    BY PerConnection, StoreAssumption DEF Shape, storeVars
<1> DEFINE k == [NoConnection EXCEPT !.st = st, !.db = conn[c].db]
<1>2. RecordOK(k, postSeq') /\ k.st = st
    BY <1>1, FinishedOK DEF NoConnection
<1>3. PICK l \in {"open", "closed"} : link' = [link EXCEPT ![c] = l] /\ LinkOK(k, l, answer[c])
  <2>1. CASE link' = [link EXCEPT ![c] = "closed"]
    BY <1>1, <1>2, <2>1 DEF LinkOK, Settled
  <2>2. CASE UNCHANGED link /\ LinkOK([st |-> st], link[c], answer[c])
    BY <1>1, <1>2, <2>2 DEF LinkOK, Shape
  <2> QED
    BY <2>1, <2>2
<1>4. answer' = [answer EXCEPT ![c] = answer[c]]
    BY <1>1 DEF Shape
<1>5. conn' = [conn EXCEPT ![c] = k]
    BY DEF Finish
<1> HIDE DEF k
<1> QED
    BY <1>1, <1>2, <1>3, <1>4, <1>5, OneConnection

(* A handler that moves its connection on, its link being l afterwards. *)
Moves(c, l) ==
    /\ conn[c].st \in Waiting \cup {"reading"}
    /\ conn' \in [Conns -> Connections]
    /\ \A d \in Conns \ {c} : conn'[d] = conn[d]
    /\ conn'[c].req = conn[c].req
    /\ conn'[c].st \in Pending
    /\ IF conn'[c].st = "writing"
       THEN /\ conn'[c].resp = 200 /\ conn[c].req.op \in Writes => conn'[c].done
            /\ conn'[c].resp \in {400, 401} => ~conn'[c].done
            /\ conn'[c].done => conn'[c].resp \in {200, 500}
       ELSE conn'[c].resp = Null /\ ~conn'[c].done
    /\ l \in {"open", "closed"} /\ link' = [link EXCEPT ![c] = l]
    /\ l = "open" /\ conn'[c].st = "writing"
         => answer[c] \in {"unauthorized", "internal_server_error"}
    /\ StoreNext \/ UNCHANGED storeVars
    /\ thread' \in [Conns -> {"none", "accepted", "recv"}]
    /\ UNCHANGED <<up, phUp, answer, leaked, stuck>>

(* A handler that only passes its connection on to the next one. *)
LEMMA MoveKeeps ==
    ASSUME ServerInv, NEW c \in Conns, NEW l, Moves(c, l)
    PROVE  ServerInv'
<1>1. Shape /\ Shape' /\ postSeq' >= postSeq /\ postSeq \in Nat /\ postSeq' \in Nat
    BY PerConnection, StoreStepKeepsBounds, StoreAssumption DEF Shape, Moves
<1>2. RecordOK(conn[c], postSeq') /\ conn[c].req \in Requests /\ conn[c].req # Null
    BY <1>1, PerConnection, StaysOK, ServerAssumption DEF RecordOK, Moves
<1>3. RecordOK(conn'[c], postSeq')
    BY <1>2 DEF RecordOK, Waiting, Moves
<1>4. LinkOK(conn'[c], l, answer'[c])
    BY DEF LinkOK, Pending, Waiting, Moves
<1>5. PICK k : k = conn'[c]
    OBVIOUS
<1>6. /\ answer' = [answer EXCEPT ![c] = answer[c]]
      /\ conn' = [conn EXCEPT ![c] = k]
    BY <1>1, <1>5, PerConnection DEF Shape, Moves
<1>7. link' = [link EXCEPT ![c] = l]
    BY DEF Moves
<1> QED
    BY <1>1, <1>3, <1>4, <1>5, <1>6, <1>7, OneConnection

----------------------------------------------------------------------------
(* The actions, one by one. *)

(* A connection is accepted into a free slot. *)
LEMMA AcceptKeeps ==
    ASSUME ServerInv, NEW c \in Conns, NEW r \in ClientRequests, Accept(c, r)
    PROVE  ServerInv'
<1>1. /\ Shape /\ postSeq \in Nat /\ postSeq' = postSeq /\ postSeq' >= postSeq
      /\ r \in Requests
    BY PerConnection, StoreAssumption, ServerAssumption DEF Shape, Accept, storeVars
<1>2. leaked' \in Nat /\ stuck' \in Nat
    BY <1>1 DEF Shape, Accept
<1>3. Shape'
    BY <1>1, <1>2 DEF Shape, Accept
<1> DEFINE k == [NoConnection EXCEPT !.st = "reading", !.req = r]
<1>4. /\ k \in Connections /\ k.st = "reading" /\ k.req = r /\ k.resp = Null /\ k.done = FALSE
    BY <1>1 DEF NoConnection, Connections
<1>5. r.op \in {"deletePost", "likeClicked"} => r.post \in 1..postSeq
    BY DEF Accept, ShownPosts
<1>6. conn' = [conn EXCEPT ![c] = k]
    BY DEF Accept
<1> HIDE DEF k
<1>7. RecordOK(k, postSeq') /\ LinkOK(k, "closed", Null)
    BY <1>1, <1>4, <1>5, StoreAssumption DEF RecordOK, LinkOK
<1> QED
    BY <1>1, <1>3, <1>6, <1>7, OneConnection DEF Accept

(* An answer that needs no DBclient. *)
LEMMA RefusedRecord ==
    ASSUME conn \in [Conns -> Connections], NEW c \in Conns, NEW resp \in Statuses,
           Answer(c, resp)
    PROVE  /\ conn' \in [Conns -> Connections] /\ \A d \in Conns \ {c} : conn'[d] = conn[d]
           /\ conn'[c].req = conn[c].req /\ conn'[c].st = "writing"
           /\ conn'[c].resp = resp /\ conn'[c].done = conn[c].done
<1> DEFINE i == [conn[c] EXCEPT !.st = "writing"]
           k == [i EXCEPT !.resp = resp]
<1>1. i \in Connections /\ i.st = "writing" /\ i.req = conn[c].req /\ i.done = conn[c].done
  BY DEF Connections, Pending
<1> HIDE DEF i
<1>2. /\ k \in Connections /\ k.st = i.st /\ k.req = i.req /\ k.resp = resp
      /\ k.done = i.done
  BY <1>1 DEF Connections
<1>3. conn' = [conn EXCEPT ![c] = k]
  BY DEF Answer, i
<1> HIDE DEF k
<1> QED
  BY <1>1, <1>2, <1>3

(* An answer of a callback that has one. *)
LEMMA AnsweredRecord ==
    ASSUME conn \in [Conns -> Connections], NEW c \in Conns, NEW resp \in Statuses,
           NEW db \in BOOLEAN, NEW done \in BOOLEAN, Respond(c, resp, db, done)
    PROVE  /\ conn' \in [Conns -> Connections] /\ \A d \in Conns \ {c} : conn'[d] = conn[d]
           /\ conn'[c].req = conn[c].req /\ conn'[c].st = "writing"
           /\ conn'[c].resp = resp /\ conn'[c].done = done
<1> DEFINE i == [conn[c] EXCEPT !.st = "writing"]
           j == [i EXCEPT !.resp = resp]
           h == [j EXCEPT !.db = db]
           k == [h EXCEPT !.done = done]
<1>1. i \in Connections /\ i.st = "writing" /\ i.req = conn[c].req
  BY DEF Connections, Pending
<1> HIDE DEF i
<1>2. j \in Connections /\ j.st = i.st /\ j.req = i.req /\ j.resp = resp
  BY <1>1 DEF Connections
<1> HIDE DEF j
<1>3. h \in Connections /\ h.st = j.st /\ h.req = j.req /\ h.resp = j.resp
  BY <1>2 DEF Connections
<1> HIDE DEF h
<1>4. k \in Connections /\ k.st = h.st /\ k.req = h.req /\ k.resp = h.resp /\ k.done = done
  BY <1>3 DEF Connections
<1>5. conn' = [conn EXCEPT ![c] = k]
  BY DEF Respond, h, i, j
<1> HIDE DEF k
<1> QED
  BY <1>1, <1>2, <1>3, <1>4, <1>5

(* Requests that are no writes, by their verb. *)
LEMMA VerbsAndOps ==
    ASSUME NEW r \in Requests
    PROVE  /\ r.verb \in {"OPTIONS", "PUT", "GET"} => r.op \notin Writes
           /\ r.op = "unknown" => r.op \notin Writes
           /\ r.user \in Users
    BY DEF Requests, Writes

(* Reading a request, or failing to, preserves the invariant. *)
LEMMA ReadKeeps ==
    ASSUME ServerInv, NEW c \in Conns, ReadFails(c) \/ ReadRequest(c)
    PROVE  ServerInv'
<1>1. /\ Shape /\ conn[c] \in Connections /\ conn[c].st = "reading"
      /\ RecordOK(conn[c], postSeq) /\ LinkOK(conn[c], link[c], answer[c])
      /\ UNCHANGED <<up, phUp, link, answer, thread, leaked, stuck, storeVars>>
    BY PerConnection DEF ReadFails, ReadRequest
<1>2. /\ conn[c].req \in Requests /\ conn[c].done = FALSE /\ conn[c].resp = Null
      /\ link[c] = "closed" /\ link' = [link EXCEPT ![c] = "closed"]
      /\ conn[c].db \in BOOLEAN /\ conn[c].done \in BOOLEAN
    BY <1>1 DEF RecordOK, LinkOK, Connections, Shape
<1>3. CASE Finish(c, "closed")
    BY <1>1, <1>2, <1>3, FinishKeeps DEF Settled
<1>4. CASE conn[c].req.verb = "OPTIONS" /\ Answer(c, 200)
  <2>1. 200 \in Statuses
    BY DEF Statuses
  <2>3. /\ conn' \in [Conns -> Connections] /\ \A d \in Conns \ {c} : conn'[d] = conn[d]
        /\ conn'[c].req = conn[c].req /\ conn'[c].st = "writing"
        /\ conn'[c].resp = 200 /\ conn'[c].done = conn[c].done
    BY <1>4, <2>1, PerConnection, RefusedRecord
  <2>4. ~conn'[c].done
    BY <1>2, <2>3
  <2>5. Moves(c, "closed")
    BY <1>1, <1>2, <1>4, <2>3, <2>4, VerbsAndOps DEF Pending, Shape, Moves
  <2> QED
    BY <2>5, MoveKeeps
<1>5. CASE \/ conn' = [conn EXCEPT ![c].st = "resolving", ![c].db = TRUE]
           \/ conn' = [conn EXCEPT ![c].st = "resolving"]
  <2>1. /\ conn' \in [Conns -> Connections] /\ \A d \in Conns \ {c} : conn'[d] = conn[d]
        /\ conn'[c].req = conn[c].req /\ conn'[c].st = "resolving"
        /\ conn'[c].resp = Null /\ ~conn'[c].done
    BY <1>1, <1>2, <1>5, PerConnection DEF Connections, Pending, Waiting
  <2>2. Moves(c, "closed")
    BY <1>1, <1>2, <2>1 DEF Pending, Waiting, Shape, Moves
  <2> QED
    BY <2>2, MoveKeeps
<1> QED
    BY <1>3, <1>4, <1>5 DEF ReadFails, ReadRequest

(* A handler of AnotherServerConnection gives up. *)
LEMMA LinkFailsKeeps ==
    ASSUME ServerInv, NEW c \in Conns, LinkFails(c)
    PROVE  ServerInv'
    BY FinishKeeps DEF LinkFails, Settled

(* So does the chain of callbacks that asks PhotogramServer. *)
LEMMA ChainKeeps ==
    ASSUME ServerInv, NEW c \in Conns, OnResolve(c) \/ OnConnect(c) \/ OnWrite(c) \/ OnReadFails(c)
    PROVE  ServerInv'
<1>1. /\ Shape /\ conn \in [Conns -> Connections] /\ RecordOK(conn[c], postSeq)
      /\ conn[c].st \in Waiting
    BY PerConnection DEF OnResolve, OnConnect, OnWrite, OnReadFails, Waiting
<1>2. CASE LinkFails(c)
    BY <1>2, LinkFailsKeeps
<1>3. ASSUME NEW st \in {"connecting", "asking", "awaiting"}, conn' = [conn EXCEPT ![c].st = st],
             NEW l \in {"open", "closed"}, link' = [link EXCEPT ![c] = l],
             thread' \in [Conns -> {"none", "accepted", "recv"}],
             UNCHANGED <<up, phUp, answer, leaked, stuck, storeVars>>
      PROVE  ServerInv'
  <2>1. /\ conn' \in [Conns -> Connections] /\ \A d \in Conns \ {c} : conn'[d] = conn[d]
        /\ conn'[c].req = conn[c].req /\ conn'[c].st = st
        /\ conn'[c].resp = conn[c].resp /\ conn'[c].done = conn[c].done
    BY <1>1, <1>3 DEF Connections, Pending, Waiting
  <2>2. conn'[c].resp = Null /\ ~conn'[c].done
    BY <1>1, <2>1 DEF RecordOK
  <2>3. Moves(c, l)
    BY <1>1, <1>3, <2>1, <2>2 DEF Pending, Waiting, Moves
  <2> QED
    BY <2>3, MoveKeeps
<1>4. link' = link => link' = [link EXCEPT ![c] = link[c]] /\ link[c] \in {"open", "closed"}
    BY <1>1 DEF Shape
<1>5. /\ thread' = thread => thread' \in [Conns -> {"none", "accepted", "recv"}]
      /\ thread' = [thread EXCEPT ![c] = "accepted"]
           => thread' \in [Conns -> {"none", "accepted", "recv"}]
    BY <1>1 DEF Shape
<1>6. CASE OnResolve(c) /\ ~LinkFails(c)
    BY <1>3, <1>4, <1>5, <1>6 DEF OnResolve
<1>7. CASE OnConnect(c) /\ ~LinkFails(c)
    BY <1>3, <1>5, <1>7 DEF OnConnect
<1>8. CASE OnWrite(c) /\ ~LinkFails(c)
    BY <1>3, <1>4, <1>5, <1>8 DEF OnWrite
<1> QED
    BY <1>2, <1>6, <1>7, <1>8 DEF OnReadFails

(* So does a lost or refusing answer of PhotogramServer. *)
LEMMA RefusalKeeps ==
    ASSUME ServerInv, NEW c \in Conns, OnReadRefusal(c)
    PROVE  ServerInv'
<1>1. /\ Shape /\ conn \in [Conns -> Connections] /\ RecordOK(conn[c], postSeq)
      /\ conn[c].st \in Waiting /\ UNCHANGED <<up, phUp, link, answer, thread, leaked, stuck, storeVars>>
      /\ answer[c] \in {"unauthorized", "internal_server_error"}
    BY PerConnection DEF OnReadRefusal, Waiting
<1>2. PICK resp \in {401, 500} : Answer(c, resp)
    BY DEF OnReadRefusal
<1>3. /\ conn' \in [Conns -> Connections] /\ \A d \in Conns \ {c} : conn'[d] = conn[d]
      /\ conn'[c].req = conn[c].req /\ conn'[c].st = "writing"
      /\ conn'[c].resp = resp /\ conn'[c].done = conn[c].done
  <2>1. resp \in Statuses
    BY DEF Statuses
  <2> QED
    BY <1>1, <1>2, <2>1, RefusedRecord
<1>4. ~conn'[c].done
    BY <1>1, <1>3 DEF RecordOK
<1>5. link' = [link EXCEPT ![c] = link[c]] /\ link[c] \in {"open", "closed"}
    BY <1>1 DEF Shape
<1>6. /\ conn'[c].resp = 200 /\ conn[c].req.op \in Writes => conn'[c].done
      /\ conn'[c].resp \in {400, 401} => ~conn'[c].done
      /\ conn'[c].done => conn'[c].resp \in {200, 500}
    BY <1>3, <1>4
<1>7. /\ thread' \in [Conns -> {"none", "accepted", "recv"}] /\ conn'[c].st \in Pending
      /\ conn[c].st \in Waiting \cup {"reading"}
    BY <1>1, <1>3 DEF Shape, Pending
<1>8. /\ UNCHANGED storeVars /\ UNCHANGED <<up, phUp, answer, leaked, stuck>>
      /\ IF conn'[c].st = "writing"
         THEN /\ conn'[c].resp = 200 /\ conn[c].req.op \in Writes => conn'[c].done
              /\ conn'[c].resp \in {400, 401} => ~conn'[c].done
              /\ conn'[c].done => conn'[c].resp \in {200, 500}
         ELSE conn'[c].resp = Null /\ ~conn'[c].done
    BY <1>1, <1>3, <1>6
<1>9. Moves(c, link[c])
    BY <1>1, <1>3, <1>5, <1>7, <1>8 DEF Moves
<1> QED
    BY <1>9, MoveKeeps

(* The callback of a granted token, if the process survives it. *)
Responds(c, resp, db, done) ==
    /\ Granted(c)
    /\ resp \in Statuses /\ db \in BOOLEAN /\ done \in BOOLEAN
    /\ Respond(c, resp, db, done)
    /\ StoreNext \/ UNCHANGED storeVars
    /\ resp = 200 /\ conn[c].req.op \in Writes => done = TRUE
    /\ resp = 400 => done = FALSE
    /\ resp # 401

(* So does sending an answer after a granted token. *)
LEMMA RespondKeeps ==
    ASSUME ServerInv, NEW c \in Conns, NEW resp, NEW db, NEW done, Responds(c, resp, db, done)
    PROVE  ServerInv'
<1>1. Shape /\ conn \in [Conns -> Connections] /\ conn[c].st \in Waiting
    BY PerConnection DEF Granted, Waiting, Responds
<1>2. /\ conn' \in [Conns -> Connections] /\ \A d \in Conns \ {c} : conn'[d] = conn[d]
      /\ conn'[c].req = conn[c].req /\ conn'[c].st = "writing"
      /\ conn'[c].resp = resp /\ conn'[c].done = done
    BY <1>1, AnsweredRecord DEF Responds
<1>3. link' = [link EXCEPT ![c] = "closed"] /\ UNCHANGED <<up, phUp, answer, thread, leaked, stuck>>
    BY DEF Respond, Responds
<1>4. /\ conn'[c].resp = 200 /\ conn[c].req.op \in Writes => conn'[c].done
      /\ conn'[c].resp \in {400, 401} => ~conn'[c].done
      /\ conn'[c].done => conn'[c].resp \in {200, 500}
    BY <1>2 DEF Statuses, Responds
<1>5. Moves(c, "closed")
    BY <1>1, <1>2, <1>3, <1>4 DEF Moves, Pending, Shape, Responds
<1> QED
    BY <1>5, MoveKeeps

(* The transaction of a request whose token was granted. *)
LEMMA GrantedRequest ==
    ASSUME ServerInv, NEW c \in Conns, Granted(c)
    PROVE  conn[c].st = "awaiting" /\ conn[c].req \in Requests
    BY PerConnection DEF Granted, RecordOK, Waiting

(* So does answering a GET. *)
LEMMA GetKeeps ==
    ASSUME ServerInv, NEW c \in Conns, OnReadGet(c)
    PROVE  ServerInv'
<1> DEFINE answers == IF conn[c].req.op = "read" THEN {200, 500} ELSE {400}
<1>1. Granted(c) /\ conn[c].req.op \notin Writes /\ UNCHANGED storeVars
    BY GrantedRequest, VerbsAndOps DEF OnReadGet
<1>2. ASSUME NEW status \in answers, Respond(c, status, TRUE, FALSE)
      PROVE  ServerInv'
  <2>1. Responds(c, status, TRUE, FALSE)
    BY <1>1, <1>2 DEF Respond, Responds, Statuses
  <2> HIDE DEF answers
  <2> QED
    BY <2>1, RespondKeeps
<1>3. \E resp \in answers : Respond(c, resp, TRUE, FALSE)
    BY Zenon DEF OnReadGet
<1> HIDE DEF answers
<1> QED
    BY <1>2, <1>3, Zenon

(* So does a POST, its transaction committed or rolled back. *)
LEMMA PostKeeps ==
    ASSUME ServerInv, NEW c \in Conns, OnReadPost(c)
    PROVE  ServerInv'
<1>1. Granted(c) /\ conn[c].st = "awaiting" /\ conn[c].req \in Requests
    BY GrantedRequest DEF OnReadPost
<1>2. CASE UNCHANGED storeVars /\ Respond(c, 500, FALSE, FALSE)
  <2>1. Responds(c, 500, FALSE, FALSE)
    BY <1>1, <1>2 DEF Respond, Responds, Statuses
  <2> QED
    BY <2>1, RespondKeeps
<1>3. ASSUME Commit(conn[c].req), NEW status \in {200, 500}, Respond(c, status, TRUE, TRUE)
      PROVE  ServerInv'
  <2>1. Responds(c, status, TRUE, TRUE)
    BY <1>1, <1>3, TransactionsAreStoreSteps DEF Respond, Responds, Statuses
  <2> QED
    BY <2>1, RespondKeeps
<1>4. CASE RollBack(conn[c].req) /\ Respond(c, 500, TRUE, FALSE)
  <2>1. Responds(c, 500, TRUE, FALSE)
    BY <1>1, <1>4, TransactionsAreStoreSteps DEF Respond, Responds, Statuses
  <2> QED
    BY <2>1, RespondKeeps
<1>5. CASE /\ conn[c].req.op = "unknown" /\ UNCHANGED storeVars
           /\ Respond(c, 200, TRUE, FALSE)
  <2>1. Responds(c, 200, TRUE, FALSE)
    BY <1>1, <1>5, VerbsAndOps DEF Respond, Responds, Statuses
  <2> QED
    BY <2>1, RespondKeeps
<1> QED
    BY <1>2, <1>3, <1>4, <1>5, Zenon DEF OnReadPost

(* So do the exceptions that end the process. *)
LEMMA DeathsKeep ==
    ASSUME ServerInv, NEW c \in Conns,
           ReadRequestDies(c) \/ OnReadGetDies(c) \/ OnReadPostDies(c) \/ WrittenDies(c)
    PROVE  ServerInv'
<1>1. CASE Die({}) /\ (StoreNext \/ UNCHANGED storeVars)
    BY <1>1, DieKeeps
<1>2. CASE OnReadPostDies(c)
  <2>1. conn[c].st = "awaiting"
    BY <1>2 DEF OnReadPostDies, Granted
  <2>2. CASE Commit(conn[c].req) /\ Die({c})
    BY <2>1, <2>2, TransactionsAreStoreSteps, DieKeeps
  <2>3. CASE RollBack(conn[c].req) /\ Die({})
    BY <1>1, <2>1, <2>3, TransactionsAreStoreSteps
  <2> QED
    BY <1>2, <2>2, <2>3 DEF OnReadPostDies
<1> QED
    BY <1>1, <1>2 DEF ReadRequestDies, OnReadGetDies, WrittenDies

(* So does the callback after the answer was written. *)
LEMMA WrittenKeeps ==
    ASSUME ServerInv, NEW c \in Conns, Written(c)
    PROVE  ServerInv'
<1>1. LinkOK(conn[c], link[c], answer[c]) /\ conn[c].st = "writing"
    BY PerConnection DEF Written
<1>2. LinkOK([st |-> "closed"], link[c], answer[c])
    BY <1>1 DEF LinkOK
<1> QED
    BY <1>2, FinishKeeps DEF Written, Settled

(* So does every step of PhotogramServer and of time. *)
LEMMA OtherSideKeeps ==
    ASSUME ServerInv,
           \/ PhotogramDies \/ PhotogramRestarts \/ Restarts
           \/ \E c \in Conns : ThreadStep(c)
    PROVE  ServerInv'
<1>1. Shape
    BY PerConnection
<1>2. CASE PhotogramDies
  <2>1. Shape'
    BY <1>1, <1>2 DEF PhotogramDies, Shape, storeVars
  <2> QED
    BY <1>2, <2>1, NoConnectionChanged DEF PhotogramDies
<1>3. CASE PhotogramRestarts \/ Restarts
  <2>1. Shape'
    BY <1>1, <1>3 DEF PhotogramRestarts, Restarts, Shape, storeVars
  <2> QED
    BY <1>3, <2>1, NoConnectionChanged DEF PhotogramRestarts, Restarts
<1>4. ASSUME NEW c \in Conns, ThreadStart(c) \/ ThreadEnd(c)
      PROVE  ServerInv'
  <2>1. Shape'
    BY <1>1, <1>4 DEF ThreadStart, ThreadEnd, Shape, storeVars
  <2> QED
    BY <1>4, <2>1, NoConnectionChanged DEF ThreadStart, ThreadEnd
<1>5. ASSUME NEW c \in Conns, ThreadAnswer(c)
      PROVE  ServerInv'
  <2>1. Shape'
    BY <1>1, <1>5 DEF ThreadAnswer, Shape, storeVars
  <2>2. \A d \in Conns : answer'[d] = answer[d] \/ conn[d].st = "awaiting"
    BY <1>1, <1>5 DEF ThreadAnswer, Shape
  <2> QED
    BY <1>5, <2>1, <2>2, NoConnectionChanged DEF ThreadAnswer
<1> QED
    BY <1>2, <1>4, <1>5, <1>3 DEF ThreadStep

----------------------------------------------------------------------------
(* The invariant holds before the first connection. *)
LEMMA ServerInvInit == Init => ServerInv
<1> SUFFICES ASSUME Init PROVE ServerInv
    OBVIOUS
<1>1. NoConnection \in Connections
    BY DEF NoConnection, Connections, Settled
<1>2. TypeOK
    BY <1>1 DEF Init, TypeOK
<1>3. \A c \in Conns : /\ conn[c].st = "idle" /\ conn[c].req = Null
                       /\ link[c] = "closed"
    BY DEF Init, NoConnection
<1>4. postSeq \in 0..MaxPosts
    BY StoreAssumption DEF Init, StoreInit
<1> QED
    BY <1>2, <1>3, <1>4 DEF ServerInv, RequestsShown, NothingYet, NotAskedYet, Waiting,
           AnswerTellsEffect, OnlyRefusalsKeepThread

(* Every handler preserves the invariant. *)
LEMMA ServerInvNext == ServerInv /\ [Next]_vars => ServerInv'
<1> SUFFICES ASSUME ServerInv, [Next]_vars PROVE ServerInv'
    OBVIOUS
<1>1. ASSUME NEW c \in Conns, NEW r \in ClientRequests, Accept(c, r) PROVE ServerInv'
    BY <1>1, AcceptKeeps
<1>2. ASSUME NEW c \in Conns, Reading(c) PROVE ServerInv'
    BY <1>2, ReadKeeps, DeathsKeep DEF Reading
<1>3. ASSUME NEW c \in Conns, Handler(c) PROVE ServerInv'
    BY <1>3, ChainKeeps, RefusalKeeps, GetKeeps, PostKeeps, WrittenKeeps, DeathsKeep DEF Handler
<1>4. ASSUME NEW c \in Conns, ThreadStep(c) PROVE ServerInv'
    BY <1>4, OtherSideKeeps
<1>5. CASE PhotogramDies \/ PhotogramRestarts \/ Restarts
    BY <1>5, OtherSideKeeps
<1>6. CASE UNCHANGED vars
  <2>1. Shape' /\ UNCHANGED <<conn, link, answer, storeVars>>
    BY <1>6, PerConnection DEF vars, Shape, storeVars
  <2> QED
    BY <2>1, NoConnectionChanged
<1> QED
    BY <1>1, <1>2, <1>3, <1>4, <1>5, <1>6 DEF Next

(* The inductive invariant holds in every reachable state of PostServer.   *)
THEOREM ServerInvariant == Spec => []ServerInv
    BY ServerInvInit, ServerInvNext, PTL DEF Spec

(* The state of connections, links and threads keeps its type. *)
THEOREM ServerTypeCorrect == Spec => []TypeOK
<1>1. ServerInv => TypeOK
    BY DEF ServerInv
<1> QED
    BY <1>1, ServerInvariant, PTL

(* The status sent to a client of a POST always bounds what its request    *)
(* did to the tables, through lost commits, exhausted PostgreSQL           *)
(* connections and ends of either process.                                 *)
THEOREM AnswerAlwaysTellsEffect == Spec => []AnswerTellsEffect
<1>1. ServerInv => AnswerTellsEffect
    BY DEF ServerInv
<1> QED
    BY <1>1, ServerInvariant, PTL

(* After an answer, only a refused token keeps a PhotogramServer thread.   *)
THEOREM OnlyRefusalsAlwaysKeepThread == Spec => []OnlyRefusalsKeepThread
<1>1. ServerInv => OnlyRefusalsKeepThread
    BY DEF ServerInv
<1> QED
    BY <1>1, ServerInvariant, PTL

----------------------------------------------------------------------------
(* The tables change where the answer to a POST arrives, and nowhere else. *)
LEMMA QuietSteps ==
    ASSUME [Next]_vars, \A c \in Conns : ~OnReadPost(c) /\ ~OnReadPostDies(c)
    PROVE  UNCHANGED storeVars
<1>1. ASSUME NEW c \in Conns, Handler(c) PROVE UNCHANGED storeVars
  <2>1. ~OnReadPost(c) /\ ~OnReadPostDies(c)
    OBVIOUS
  <2> QED
    BY <1>1, <2>1, Zenon DEF Handler, LinkFails, OnResolve, OnConnect, OnWrite, OnReadFails,
       OnReadRefusal, OnReadGet, OnReadGetDies, Written, WrittenDies
<1>2. ASSUME NEW c \in Conns, Reading(c) PROVE UNCHANGED storeVars
    BY <1>2 DEF Reading, ReadFails, ReadRequest, ReadRequestDies
<1>3. ASSUME NEW c \in Conns, ThreadStep(c) PROVE UNCHANGED storeVars
    BY <1>3 DEF ThreadStep, ThreadStart, ThreadAnswer, ThreadEnd
<1>4. ASSUME NEW c \in Conns, NEW r \in ClientRequests, Accept(c, r) PROVE UNCHANGED storeVars
    BY <1>4 DEF Accept
<1>5. CASE PhotogramDies \/ PhotogramRestarts \/ Restarts
    BY <1>5 DEF PhotogramDies, PhotogramRestarts, Restarts
<1>6. CASE UNCHANGED vars
    BY <1>6 DEF vars, storeVars
<1> QED
    BY <1>1, <1>2, <1>3, <1>4, <1>5, <1>6 DEF Next

(* What every step of the server does to the tables. *)
LEMMA StepsAreStoreSteps ==
    ServerInv /\ [Next]_vars => [StoreNext]_storeVars
<1> SUFFICES ASSUME ServerInv, [Next]_vars PROVE StoreNext \/ UNCHANGED storeVars
    OBVIOUS
<1>1. ASSUME NEW c \in Conns, OnReadPost(c) \/ OnReadPostDies(c)
      PROVE  StoreNext \/ UNCHANGED storeVars
  <2>1. conn[c].st = "awaiting"
    BY <1>1 DEF OnReadPost, OnReadPostDies, Granted
  <2>2. Commit(conn[c].req) \/ RollBack(conn[c].req) \/ UNCHANGED storeVars
    BY <1>1, Zenon DEF OnReadPost, OnReadPostDies
  <2> QED
    BY <2>1, <2>2, TransactionsAreStoreSteps
<1> QED
    BY <1>1, QuietSteps

(* So the runs of the server are runs of PostStore, whose invariants carry *)
(* over.                                                                   *)
LEMMA PostServerImplementsPostStore == Spec => StoreSpec
<1>1. Init => StoreInit
    BY DEF Init
<1> QED
    BY <1>1, StepsAreStoreSteps, ServerInvariant, PTL DEF Spec, StoreSpec

(* The like counters stay exact, whatever the connections do.              *)
THEOREM ServerKeepsLikeCounts == Spec => []LikeCountExact
    BY PostServerImplementsPostStore, LikeCountAlwaysExact, PTL

----------------------------------------------------------------------------
(* A step that leaves posts and likes alone changes nobody's. *)
LEMMA QuietIsOwn ==
    ASSUME UNCHANGED <<posts, likes>>
    PROVE  OnlyOwnChanges
    BY DEF OnlyOwnChanges

(* A committed transaction is that of a request which its user made, and   *)
(* which had done nothing before.                                          *)
LEMMA CommitIsOwn ==
    ASSUME ServerInv, NEW c \in Conns, Granted(c), conn'[c].done, Commit(conn[c].req)
    PROVE  OnlyOwnChanges
<1>1. Performs(c)
    BY PerConnection DEF Performs, Granted, RecordOK, Waiting
<1> DEFINE r == conn[c].req
<1>2. CASE r.op = "addNewPost" /\ AddNewPost(r.user)
  <2>1. /\ likes' = likes /\ DOMAIN posts \subseteq DOMAIN posts'
        /\ \A p \in DOMAIN posts' \ DOMAIN posts : posts'[p].owner = r.user
    BY <1>2 DEF AddNewPost
  <2> QED
    BY <1>1, <1>2, <2>1 DEF OnlyOwnChanges
<1>3. CASE r.op = "deletePost" /\ DelPostById(r.user, r.post)
  <2>1. /\ DOMAIN posts' = DOMAIN posts \ {r.post} /\ posts[r.post].owner = r.user
        /\ likes' \subseteq likes /\ \A l \in likes \ likes' : l[1] = r.post
    BY <1>3 DEF DelPostById, MayDelete
  <2> QED
    BY <1>1, <1>3, <2>1 DEF OnlyOwnChanges
<1>4. CASE r.op = "likeClicked" /\ LikeClicked(r.user, r.post)
  <2>1. /\ DOMAIN posts' = DOMAIN posts
        /\ \A l \in (likes \ likes') \cup (likes' \ likes) : l = <<r.post, r.user>>
    BY <1>4 DEF LikeClicked, Like, Unlike, SetLikeCount
  <2> QED
    BY <1>1, <1>4, <2>1 DEF OnlyOwnChanges
<1> QED
    BY <1>2, <1>3, <1>4 DEF Commit

(* The answer to a POST is where its transaction has been committed or     *)
(* rolled back.                                                            *)
LEMMA PostIsOwn ==
    ASSUME ServerInv, NEW c \in Conns, OnReadPost(c) \/ OnReadPostDies(c)
    PROVE  OnlyOwnChanges
<1>1. conn \in [Conns -> Connections] /\ Granted(c)
    BY PerConnection DEF OnReadPost, OnReadPostDies
<1>2. CASE UNCHANGED storeVars \/ RollBack(conn[c].req)
    BY <1>2, QuietIsOwn DEF storeVars, RollBack, AddNewPostAborts
<1>3. ASSUME Commit(conn[c].req), NEW status \in {200, 500}, Respond(c, status, TRUE, TRUE)
      PROVE  OnlyOwnChanges
  <2>1. status \in Statuses /\ TRUE \in BOOLEAN
    BY DEF Statuses
  <2>2. Respond(c, status, TRUE, TRUE)
    BY <1>3
  <2>3. conn'[c].done = TRUE
    BY <1>1, <2>1, <2>2, AnsweredRecord
  <2> QED
    BY <1>1, <1>3, <2>3, CommitIsOwn
<1>4. CASE Commit(conn[c].req) /\ Die({c})
  <2>1. conn'[c].done
    BY <1>1, <1>4 DEF Die, Connections
  <2> QED
    BY <1>1, <1>4, <2>1, CommitIsOwn
<1> QED
    BY <1>2, <1>3, <1>4, Zenon DEF OnReadPost, OnReadPostDies

(* No other step touches posts or likes. *)
LEMMA StepsAreOwn == ServerInv /\ [Next]_vars => [OnlyOwnChanges]_vars
<1> SUFFICES ASSUME ServerInv, [Next]_vars PROVE OnlyOwnChanges
    OBVIOUS
<1>1. ASSUME NEW c \in Conns, OnReadPost(c) \/ OnReadPostDies(c) PROVE OnlyOwnChanges
    BY <1>1, PostIsOwn
<1>2. CASE \A c \in Conns : ~OnReadPost(c) /\ ~OnReadPostDies(c)
  <2>1. UNCHANGED storeVars
    BY <1>2, QuietSteps
  <2> QED
    BY <2>1, QuietIsOwn DEF storeVars
<1> QED
    BY <1>1, <1>2

(* A row of posts or likes changes only by a request that PhotogramServer  *)
(* granted to the user the row belongs to, and once for each request: for  *)
(* any number of connections, expired tokens and ends of either process.   *)
THEOREM OnlyOwnAlways == Spec => OnlyOwnPostsAndLikes
    BY StepsAreOwn, ServerInvariant, PTL DEF Spec, OnlyOwnPostsAndLikes

=============================================================================
