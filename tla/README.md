# The-Photogram: formal models

The-Photogram is a small social network: a React client, and two C++ servers that share
a PostgreSQL database. This directory holds TLA+ models of it, the TLC configurations
that check them on small instances, and TLAPS proofs about them for instances of any
size. `PROJECT.json` maps every definition to the source lines it was translated from,
and lists runs, theorems, findings and the hazards the properties are aimed at.

## 1. The system

    browser tab (src/photogram_client)
       |  HTTP, access token in a header, refresh token in an HttpOnly cookie
       +--> PhotogramServer (src/photogramServer)   accounts, friends, tokens
       |        one thread and one PostgreSQL connection per TCP connection
       +--> PostServer (src/PostServer)             posts, photos, likes
                one io_context thread, one TCP connection per request
                |--> PhotogramServer: GET /getIdForServerByAccess for each request
                +--> PostgreSQL: a DBclient (one connection) per request

| Component | State | Operations | Hard behaviour | Correct when |
|---|---|---|---|---|
| **PostServer: tables** `DBclient.cpp` | `posts` (with `like_count`), `post_photos`, `likes`, two sequences | `addNewPost`, `delPostById`, `likeClicked`; queries | a counter kept beside the rows it counts, NULL, roll-back, a compensation that cannot work, deletions between two calls | counter = number of likes; every post has its own stored photo |
| **PostServer: connections** `TcpServer`, `TcpConnection`, `AnotherServerConnection` | the objects of each connection, their sockets and database connections, which handler is next | accept, read, resolve, connect, write, read the answer, run the transaction in the callback, write | interleaved callbacks; errors that skip the callback; exceptions that leave a handler and end the process; objects that hold each other alive; a commit before a throw | a status tells what happened; a request acts once and for the user of its token; requests settle; threads and connections are given back |
| **PhotogramServer: registration and friends** `WorkWithPostgreSQL.cpp` | `users`, `profile_picture`, `friends`, two sequences | `addNewUser` (3 transactions, 2 compensations), `makeFriend`, `deleteFriend`; profile updates | other threads between the transactions; broken connections; commits in doubt; compensations that fail and say nothing; the end of the server | registration looks atomic to its client; compensation hits only its own half-made row |
| **PhotogramServer: log-in and tokens** `checkPassword`, `JwtToken.cpp` | none; tokens live at the client | `/login`, `/getNewToken`, validity checks | a token outlives the row it names; addresses compared with and without case; every exception becomes a refusal | a token never names somebody else; who is refused is refused for a known reason |
| **PhotogramServer: threads** `MyServer`, `WorkWithClient::run` | a thread and a receive buffer per connection | accept, frame and dispatch requests | `recv` returning -1; buffers that keep a request | threads end with their connections |
| **Client: session and API** `PostService.js`, `Navbar`, `Authorization`, `App` | `localStorage` (token, nickname, auth), the cookie, pending promises | 17 API functions that refresh and retry on 401; log-in, log-out, reload | concurrent calls between two `await`s, each with its own refresh; log-out and log-in under them, and log-ins that overlap | one effect per call, for the user whose page made it |
| **Client: buttons** `Post`, `FindFriendItem`, `Profile` | `isLiked`, `likesCount`, `isFriend`, `status` | like, make and delete friends | a handler's state is that of the render that was clicked; a second click before the answer | the button shows the row, the number the counter |
| **Client: lists** `PostsPage`, `FriendSearch`, `Profile` | posts or users, `settings`, `isEnough`, the observer | load by OFFSET while scrolling, search, delete, add | pages under way at one time, answers out of order, rows that move behind the OFFSET, components without keys, an element that is not there when it should be observed | nothing twice, nothing skipped, results of one search only, scrolling ends |
| **Client: profile page** `UserProfile`, `Profile`, `Navbar` | the profile shown, two copies of its status, `localStorage.nickname` | go to a profile, friend buttons, change one's data and password | runs of an effect that nothing cancels; a form that needs two requests | buttons are for the user that is shown; the kept nickname is the database's |
| **Client: forms and static pages** `Registration`, `AddPost`, ... | input fields | submit | none of its own | what the models of the servers say of the submission |
| **Texts** `URLParser`, multipart and HTTP parsing, hashing, answer formatting | none | pure functions | boundaries of buffers | not modelled, see section 6 |

The schema of the database is not in the repository. The tables are modelled from the
SQL the code runs (`external` in the map). Where a constraint cannot be told from the
code it is a parameter: `LikesForeignKey`, `FriendsForeignKey`. `users_nickname_key` and
`users_email_key` are known from the error texts the code looks for. `isExistPost` uses
`END CASE` as a bare column alias, which PostgreSQL accepts from version 14 on; that
version is assumed.

## 2. The modules

| Module | What it is | Code |
|---|---|---|
| `PostStore` | the tables of PostServer and its transactions, each one step, committed and rolled back; `PostServer` and `Buttons` are built over it | `DBclient.cpp` |
| `PostServer` | the server over those tables: every handler of the asynchronous server on the one thread, the threads of PhotogramServer at the other end, the supply of PostgreSQL connections, the end and restart of both processes. It extends `PostStore`, whose transactions are conjuncts of its handlers | `TcpConnection.*`, `AnotherServerConnection.*`, `TcpServer.cpp`, `ClientAndServer.cpp`, `WorkWithClient::run` |
| `AccountRegistry` | the abstract specification of registration: an account comes into being in one step, or not at all | - |
| `Registration` | the detailed one: `addNewUser` transaction by transaction with its compensations, beside `makeFriend` and `deleteFriend` of other threads. `RegistrySpec`: it implements `AccountRegistry`, half-made rows being invisible | `WorkWithPostgreSQL.cpp`, `Registration.jsx` |
| `Login` | `checkPassword` and the tokens of `/login` over the tables of `Registration`, while registrations run and are undone | `checkPassword`, `WorkWithClient::run` |
| `ClientSession` | one tab: storage, cookie and concurrent calls; servers reduced to what the other modules establish of them | `PostService.js`, `Navbar.jsx`, `Authorization.jsx`, `JwtToken.cpp` |
| `Buttons` | one button that shows a row and turns it over, with any clicks under way, over the tables of `PostStore` (which everybody else uses meanwhile) and the table `friends` | `Post.jsx`, `FindFriendItem.jsx`, `Profile.jsx`, `makeFriend`, `deleteFriend` |
| `Feed` | one list that grows by scrolling, with the calls that load, delete and add, over the rows its query yields | `PostsPage.jsx`, `FriendSearch.jsx`, `Profile.jsx`, `getPostsList`, `getUsersList` |
| `ProfilePage` | the page of a profile over `users.nickname` and `friends` | `UserProfile.jsx`, `Profile.jsx`, `Navbar.jsx`, `getProfileInformation`, `getStatus`, `updateData`, `updatePassword` |
| `MC*` | instances for TLC: symmetry sets and workloads | - |
| `*Proofs` | theorems and proofs about the module they are named after | - |

Operators whose comment begins with *Mutant:* are not the code. Each is a plausible
mistake in the definition it stands next to, and is used by nothing; put in that
definition's place it makes one property fail (`mutants` in `PROJECT.json`), which shows
that the property depends on that code.

### How actions correspond to the code

*PostServer.* `io_context::run` is called by one thread, so a handler runs to its end
before the next: one action per handler. The connection's `st` names the handler that is
next. `OnReadPost` contains the whole of `on_read` with status 200: the callback of
`handleRequest` runs inside it, then `an_server_socket_` is shut down. An exception that
no `try` in the handler catches ends the process: the actions that end in `Dies` say
where, `Die` what is left. `socket.shutdown(type)` in its throwing form fails when the
peer has reset the connection (`Resets`). `PgFree` is the supply of PostgreSQL
connections; a `DBclient` or a thread's `WorkWithPostgreSQL` that finds none throws.
`Accept` takes over a slot; what the object that had it still holds (`callback_` holds
the `TcpConnection`, which holds the `AnotherServerConnection`, which holds `callback_`)
is counted in `leaked` and `stuck`. A client names only posts it was shown
(`ShownPosts`), deleted or not.

*Registration.* Each `pqxx::work` is one step: `AddProperties`, `AddNewPhoto`,
`ConnectPropertiesAndPhoto`, `DeletePhoto`, `DeleteRow`. Each may commit, be refused,
break the thread's connection before the commit, or break it after the commit so that
the code takes it for failed (`alive`). A broken connection makes the compensations fail
as well; a working one may, for any exception, a friend's foreign key being one
(`DeletePhotoFails`, `DeleteRowFails`). The code swallows all of them, which the history
variable `swallowed` keeps. `ServerDies` drops all threads between any two
transactions. Ids come from sequences, which are not transactional. Passwords are the
field `owner`.

*Log-in.* `checkPassword` runs two queries and a verification in one `try`, and its
`catch` answers "Invalid login or password" whatever was thrown. `Throws` is the set of
what may make it throw: no user `ProbeId`, not exactly one row for the address, another
password, or a fault of connection, statement or hash (`Faults`), which may strike or not.

*ClientSession.* A call is a record that moves from `first` request over `refresh` and
`refreshed` to `retry`. JavaScript interleaves at every `await`, so all of these are
separate steps, and a server's handling of the request is another. A request is
performed for the user of its `bearer` token; its answer may be an error or get lost
whatever happened. The form of `Authorization` is not disabled while it waits, so log-ins
are records of their own (`Logins` slots) that overlap, for one user or several. `Reload` abandons calls whose requests stay with the servers. `mixed`
is a history variable: see section 4.

*Views.* A component's handler runs up to an `await`, and on when the answer is there;
both halves are actions, and the server's handling between them is a third. What a
continuation reads is what its render had: the fields of a call (`count` and `want` of a
click, `base` and `from` of a page, `nick` of a run) are those values. Functional
updates (`setIsFriend(f => !f)`) read the state itself. `Buttons` follows the three
kinds of button in one module, because they differ only in what a click asks for (the
opposite of the row, or a value) and what its answer does (set, or turn over). `Feed`
follows the three lists in one module, with `view` for what tells them apart. `seen` are
the settings the `IntersectionObserver` was made with, which lag behind the state;
`observer` says whether one is about to report, has reported, or observes nothing:
`Profile` makes its observer in an effect on `[isEnough, posts]`, and while the form for
one's own data is open (`OpenForm`, `Back`) there is no element to observe; the page that
comes back has one that nobody observes before the list changes. A post that was added
while the form is open is not listed (`AddUnlisted`): the button that `serverResult`
clicks is not there. `made` is what the components at the places of a list took their own state from (only
`Profile` gives them keys). `ProfilePage` has one slot per run of `UserProfile`'s
effect. `Elsewhere` is everybody else: rows are put in front (new posts), at the end (new
users) or between others (somebody is befriended late and brings posts of any age; users
come in no order), deleted, and moved (users again). `upset` is a history variable in all three: it names the events after which a
property is not claimed, and each of those events is in the model (section 4).

## 3. Hazards and properties

`PROJECT.json` lists 40 hazards with their lines. The properties they lead to:

| Property | In words |
|---|---|
| `LikeCountExact` | the counter of a post equals its rows in `likes`, through second clicks, deletions, NULL and likes on deleted posts |
| `PostPhotosStored` | the photo of a post exists and is its own, though ids are lost and compensation is broken |
| `AnswerTellsEffect` | 200 means committed, 400 and 401 mean nothing happened, a committed write is answered 200, or 500 (in doubt), or the process ended |
| `OnlyOwnPostsAndLikes` | a row changes only by a request of the user it belongs to, whose token was granted, and once per request |
| `OnlyRefusalsKeepThread`, `GrantedThreadEnds` | after an answer only a *refused* token leaves a PhotogramServer thread behind; an accepted one frees it |
| `RequestSettled` | a request that was read does not hang in PostServer |
| `OkMeansComplete` | who was told *ok* has a complete account from then on |
| `PicturesOfUsersStored` | no account shows a picture that compensation removed, none shares one |
| `OnlyHalfAccountsRemoved` | compensation removes only the incomplete row of its own thread, even when the commit before it was in doubt |
| `FailureLeavesHalf` | who is told of a failure on a working connection has no complete account and shows no picture; half an account, or a picture of nobody, stays behind only where a compensation failed itself |
| `RegistrySpec`, `Answered` | to its client registration is atomic, and answered unless the server ends |
| `SessionStaysOwn` | the id in a token never becomes another client's account |
| `RefusalExplained` | a registered client with the right password is never refused for the password, for the address only if there is a second one that differs in case; what else refuses is the want of user 18 or a fault that `checkPassword` catches |
| `EffectOnce` | a call writes at most once, whatever expires, is refreshed, retried or lost |
| `ActsForPage` | a write is made for the user whose page made it, and stored token, cookie and nickname agree, over log-out and overlapping log-ins (see section 4) |
| `RetryIsNewer` | a concurrent refresh never makes a retry carry an older token |
| `CallEnds` | a call whose requests are not kept waiting for ever ends: it does not go on refreshing and asking |
| `ButtonTrue` | once nothing is under way a button shows the row, as far as its kind stands quick clicks: a profile's those for the same value, the others none |
| `TallyKept`, `CountTrue` | the number beside a like is that of the others and one's own, whatever overlaps; and the counter of the table while nobody else acts |
| `NoRepeat` | pages that overlap, come late or out of order show no row twice, whatever is deleted meanwhile, as long as nothing is put in front of the rows |
| `NoGap` | they skip no row between two that are shown, but those that came between others later, whatever is added anywhere meanwhile and with one's own deletions one by one, as long as no row that was there goes behind their back |
| `OneKey` | results of two searches, posts of two profiles are never in one list |
| `ItemsOwn` | a component that React keeps at its place in a list belongs to the item that is shown there |
| `ListFaithful` | one thing at a time, the list is the beginning of the table, and all of it once `isEnough` says so |
| `ScrollEnds` | scrolling comes to the end of the list, unless a load fails or the form was opened over it |
| `StatusRight` | the buttons of a profile are for the user that is shown, and the newest run's user is that of the path |
| `NickKept` | `localStorage.nickname` is the nickname in the database |

Each module also has one type invariant. Two hazards of `PostServer` are modelled without a
property of their own: the GET that ends the process for want of a PostgreSQL connection,
since a property could only repeat the guards of the `Dies` actions; and the client that
stays unanswered when the way to PhotogramServer fails, which for `RequestSettled` is an
end like others (`"stalled"`).

## 4. What is checked

| Run | Instance | Shows |
|---|---|---|
| `server_writes` | 2 users, 1 post, 2 connections, 3 PostgreSQL connections, resets | writing requests: truth of answers, ownership, threads that stay |
| `server_live` | 1 user, 2 connections, 3 PostgreSQL connections, requests that write nothing, resets | progress |
| `registration` | 2 clients, 2 nicknames, 2 addresses, 2 users, 2 pictures, all faults | the saga and its refinement |
| `registration_live` | 2 clients for one nickname | progress |
| `login` | 2 clients, 3 addresses, two of them equal but for case | tokens and refusals during registrations |
| `login_probe` | 1 client, no faults | *violation*: see findings |
| `session` | 2 users in one tab, 2 concurrent calls, 4 tokens | refresh and retry |
| `session_live` | 1 user, 2 calls, a read and a write | progress |
| `session_retry` | 1 user, 1 call | *violation*: see findings |
| `buttons` | 3 users, 2 posts, 2 photos, **no** foreign key, 2 clicks at a time, 2 equal rows of `friends` | buttons and numbers, and the counters and photos of `PostStore` in the schema that allows dangling likes |
| `feed` | a list of 3 rows and one of 1, up to 4; pages of 2; 2 calls at a time; 2 changes | lists, and their progress |
| `profile` | 3 users, a fourth nickname, 2 visits, 1 click at a time, 1 change elsewhere | the page of a profile and the nickname |

**Bounds and why they are enough to see the interesting cases.** `MaxPosts`,
`MaxPhotos`, `MaxUsers`, `MaxPictures` bound how often a sequence is drawn from,
`MaxTokens` how many access tokens are issued. With 3 users and 2 posts a post is liked
by several, unliked and deleted between two clicks, and a rolled back post loses an id.
Two connections with three PostgreSQL connections reach exhaustion: each request needs
one at PostServer and one at PhotogramServer, and a refused request keeps both. With two
users of the table a failed registration and a second one that reuses its names are both
there. Four tokens are a log-in and the refreshes of two concurrent calls, or two
log-ins and one refresh each. `ProbeId` is 18 in the code; `login` sets it to 1 so that
the probed user may come and go within the bound, `login_probe` keeps 18. Two clicks are
the fewest that overlap, and the second may be for the same or for the contrary. Three
rows in pages of two are a full page and a short one; `feed` looks no further than two
kinds of upset in one behaviour (`FewUpsets`; for more at a time its invariants rest on
the proofs, and `ScrollEnds` is not checked), `login` no further than the first friendship
(`Strangers`), since no log-in asks for friends and `registration` has them; two calls overlap with each other,
and two changes are a post that is deleted and one that is added, or a bin that is
clicked twice. Two visits are a profile that is left while its run is under way, and its
successor; with three users the path may lead to a friend, a stranger and oneself. Three
visits were explored once to 13 million states without a violation; they are too many
for a run. One click at a time is enough in `profile`, since crossing clicks are
excluded there and are the subject of `buttons`. The bounds limit only the runs, the
theorems hold for all.

**Deadlock** is not checked: clients may stop sending requests, and the bounds stop the
rest.

**Fairness.** `server_live` assumes weak fairness of every handler whose operation
completed (`io_context::run` runs them in turn) and of every thread of PhotogramServer
(the scheduler). Not of clients, of an operator who restarts a server, or of
PhotogramServer's death. `registration_live` assumes that the server's threads run.
`session_live` assumes that the browser delivers answers and runs continuations; that a
server answers is *not* assumed, because `PostServer` shows that it may not
(`LinkFails`), so `CallEnds` has the premise that the call is not waiting for a server
for ever: `[]<>~Waiting(k)`. An endless loop of answered refreshes and retries satisfies
the premise and would violate it. `feed`
assumes that a request is answered or fails and its answer is delivered, each weakly
fair; and that a *new* observer that observes an element reports once, since a browser
calls back for the state an observer finds, to a user who keeps the end of the list in
view. Where the effect of `Profile` found no element there is no observer to be fair to,
and `AtEnd` counts that state (`"away"`, `"none"`) as the end of the claim: the list stays
as it is until it is loaded anew. Nothing is assumed of scrolling, searching or changes;
`ScrollEnds` has the premise that the user at last stops loading the list anew, which
would put off its end for ever. A load that fails ends the claim (`"failed"`): the code
does not ask again.

**`ActsForPage` and `mixed`.** The property is claimed only as long as nobody logs in
while calls or log-ins of *another* user are under way. Otherwise a late refresh stores
the first user's token and cookie over the second's, and of two log-ins one may leave the
cookie and the other token and nickname; the model contains that behaviour and
excludes it through the history variable `mixed`. It is a limit of what is claimed, not
a fact about the code.

**`upset` in the views.** The properties of the views are claimed as far as the code
keeps them, and the events that end a claim are steps of the model like any other:

* A like or a search result clicked twice before the first answer (`"overlap"`), a
  profile's button clicked for both values at one time (`"crossed"`), a commit whose
  answer is lost (`"doubt"`).
* Rows put in front of a list, deleted or moved while it is listed by OFFSET (`"added"`,
  `"removed"`, `"moved"`), loads that overlap (`"overlap"`), a profile with posts left
  for another (`"visited"`, the old posts stay until a button loads the new).
  `NoRepeat`, `NoGap`, `OneKey` and `ItemsOwn` exclude different ones of these:
  `NoRepeat` stands deletions, `NoGap` stands additions anywhere, `OneKey` stands both. A
  row that is put between others when those were listed already is behind the pages, and
  `NoGap` does not miss it (`late` keeps which those are); rows that were there it
  misses. Two
  limits are narrower than the small instances show. A profile that is left with posts
  shown, or while a post is being deleted, counts the posts of both users, so both
  properties exclude `"visited"`. And `NoGap` speaks of rows *between* one that is shown
  and another shown after it: after more additions than the pages of a list hold (2 ·
  `Limit` + 1 of them) a late page can show an older row again and end there, and what
  lies behind the rows it shows is then skipped.
* A page that is left after its own button changed the status (`"kept"`): the next user
  may have the status the page was given first, which then does not change, so that the
  profile keeps `friend` for a stranger. What is recorded is the visit, whatever follows;
  the record is dropped when a run fetches another status than the page was given, which
  the effect on `status_` takes over. Data saved without the password that should follow (`"half"`),
  changes elsewhere, clicks that cross a visit.

`StatusRight` compares user and status only when one run set both: between a run's two
answers the page shows the new user with the old status.

**Findings** (violated runs):

1. `login_probe`: `checkPassword` first asks for the nickname of user 18
   (`WorkWithPostgreSQL.cpp:195`). In a database without that user every log-in is
   refused with "Invalid login or password".
2. `session_retry`: after a refresh `getPostsListById` repeats its request without `id=`
   (`PostService.js:688`), although the comment above the function asks for it.

Both properties come from what the repository itself says (quoted in `PROJECT.json`).

## 5. What is proved

The proofs assume only the named `ASSUME`s of the modules (finite sets of users,
connections and calls; bounds that are natural numbers; `Null` outside of the data),
which every run evaluates. They hold for any number of users, posts, connections,
clients, calls and tokens.

* **`PostStoreProofs`.** `StoreInv` = types + counters + photos + likes.
  `LikeCountExact` is not inductive alone: a new post must find no likes under its id,
  so likes have to be bounded by the sequence; and `Unlike` may only subtract from a
  counter that is not zero, which follows from the like that is removed being counted.
* **`PostServerProofs`.** `ServerInv` says per connection what its next handler implies:
  a request that waits for PhotogramServer has no answer and has done nothing; one that
  writes its answer has a status that agrees with `done`; its link is closed while the
  request is being read and, once answered, open only after a refusal; the post it names
  was shown. Handlers change one connection, so most lemmas are about one; `Die` and the
  threads are separate. From it: `AnswerTellsEffect`, `OnlyRefusalsKeepThread`, types,
  and, as its steps on the tables are those of `PostStore`, that `LikeCountExact` carries
  over from the tables to the server.
  `OnlyOwnPostsAndLikes` is shown action by action: all but two kinds of handler leave
  the tables alone, and those two commit for the user their connection was granted,
  whose `done` turns from nothing to committed.
* **`RegistrationProofs`.** `SagaInv`: ids are private to a registration (sequences); a
  thread inside `addNewUser` has its own row, which is incomplete *as long as its
  connection works*; its picture is on no account. The connection matters: a commit
  whose acknowledgement is lost leaves a complete row before a compensation, which is
  harmless only because it cannot run either. From it: all safety properties of the
  `registration` run, and `RegistrationImplementsRegistry` under the mapping `Accounts`,
  `Status`.
* **`LoginProofs`.** `LoginInv` adds that rows keep owner and address, that addresses
  are unique with case, that a registered client is the owner of its address, and that
  every token names an id that was drawn. From it
  `SessionStaysOwn` and `RefusalExplained`.
* **`ClientSessionProofs`.** `SessionInv`: a request still at a server has written
  nothing, a refresh follows a refusal, a token that was bought is newer than the one
  refused; while nothing is mixed, the calls under way, the stored token, the cookie and
  the log-ins under way belong to one user. From it `EffectOnce`, `ActsForPage`,
  `RetryIsNewer`.
* **`ButtonsProofs`.** `ButtonInv`: a click under way carries a count that agrees with
  the value it wants, so that the number follows the colour whichever answer comes last;
  undisturbed, the clicks under way want the same, and the row is the button's until one
  of them was performed and what they want from then on. Over `StoreInv`, which carries
  the counter. From it `ButtonTrue`, `TallyKept`, `CountTrue`.
* **`ProfilePageProofs`.** `PageInv`: runs are told apart by their numbers, and as long
  as nothing upset the page one thing happens at a time: what a run was told is true, a
  click is for the user that is shown, and the nickname follows the database through the
  two requests of the form. From it `StatusRight`, `NickKept`.
* **`FeedProofs`.** Six arguments over one invariant of types (`TypeInv`).
  `KeyInv`: while the observer may report, the list is of the key it has seen, and each
  call's base and answer are of the call's key, whence `OneKey`.
  `SoleInv`: without overlap a call under way is the only one and its base is still the
  list that is shown.
  `FrontInv`: on `PostsPage`, while no posts come and go, the list, the components and
  each call's base are the beginning of the rows and the next OFFSET is the length of
  the list, however pages overlap. The last two give `ItemsOwn`.
  `ShapeInv`, whatever happens: ids of a table differ, what is or was shown was drawn
  from its sequence, so that a new row is in no list and a deleted post does not come
  back; an asked page has no items, and `Profile` asks at the length of its list.
  `GoodInv`: each list that is shown *or is going to be* (the base of a call with its
  answer) is `Fresh` up to the place its next page is asked for at (no row twice, none
  from behind that place) unless rows were put in front, and `Complete` up to it (with a
  row all between it and another shown later but rows in `late`, and all up to the place) unless rows went
  behind its back. `NoRepeat` and `NoGap` alone are not inductive: what a late answer
  adds depends on the place its page was counted from, and a list that shows nothing
  twice may be asked to continue too early. Between `Perform` and `Arrives` of one's
  own bin (or new post) the table is ahead of the list; the place of the call's base
  moves at once (`Len(base) - 1`), that of the list only when the answer arrives, and
  nothing else is under way then (`GoodAlone`), or it would be noted. Of each change of
  the rows one lemma says what it keeps: a deletion `Fresh` and `Whole`, an addition in
  front or between others `Complete`, but for the new row itself, a user who joins at the end both.
  `FaithInv`: with one thing at a time and nobody interfering, every item stands at its
  place of the table, a page is asked for where the list ends, `isEnough` is said where
  the rows end, and a bin that was answered has taken from its base the one item whose
  row was removed; this is `ListFaithful` of the list to come. The lemmas about
  `Without` (it keeps order and number, and closes the one place) come from the library's
  theorems about finite sets and a least element, by well-foundedness of `<`, instead of
  induction over data.

  The proofs corrected the model: the two limits named at the end of section 4 were
  found where `NoRepeat` and `NoGap`, as they had been stated, would not go through.

**Only model-checked:** liveness (`RequestSettled`, `GrantedThreadEnds`, `Answered`,
`CallEnds`, `ScrollEnds`), since fairness and `ENABLED` are out of the prover's reach.
Every invariant and every action property of the passing runs, and the refinement of
`AccountRegistry`, are theorems. Induction over data and RECURSIVE operators are out of the prover's reach as
well; no module needs either. `Without` (a list without one of its elements) is
therefore defined by the one increasing enumeration of the places that are kept.

## 6. What is not modelled

* Hashing, signatures, the bytes of tokens: a library's. A password is who knows it, a
  token is its user and its age.
* Texts of requests and answers (`URLParser`, `FormDataParser`, `Request`, `FormData`,
  `ResponseSender`, ...). They are pure functions of one string, and what the other
  modules need of them is that a request that was formatted is read as what it was.
* The framing of requests in `recv`'s buffer: every client of the repository (the
  browser's `fetch` and PostServer's link) waits for an answer before the next request
  on a connection, and every answer clears the buffer, so that it holds one request.
* `updatePhoto`, which replaces a picture in one statement and reloads the page.
* Spinners, drag and drop, photos in lists, what pages do after they are unmounted.
  `Messenger` is a stub.
* A change of one's data that keeps the nickname leaves the old data on the page until
  it is loaded again; data of a profile other than its nickname are left out.
* Two tabs of one browser, which share storage and cookie; to a view they are the
  changes made *elsewhere*.
* Two PostServer processes on one database: each is single threaded, so its transactions
  never overlap, and one process is what `main` starts.
* Content and dates of posts, and everything in a row no property tells apart.

## 7. Plan

Done, in the order of importance: `PostStore`, `PostServer` over it; `Registration` and
`AccountRegistry`; `Login` over `Registration`; `ClientSession`; `Buttons` over
`PostStore`; `Feed`; `ProfilePage`; the proofs of all of them.

Next:

1. **Composition** of `ClientSession` with `PostStore` in place of its single-step
   servers: one effect per call, down to the tables.
2. **Texts**: `URLParser` and the boundaries of multipart bodies as functions over short
   sequences of abstract characters, against a reference definition.
3. **Photos**: `updatePhoto` beside the compensations of `Registration`.
