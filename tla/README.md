# A TLA+ model of the LChat servers

LChat is a chat system of five programs: a gate server (HTTP: registration,
password reset, login), a status server (chooses a chat server and makes login
tokens), a verify server (mails verification codes), and two copies of one chat
server. MySQL keeps the users and friends; Redis keeps codes, tokens, login counts,
a cache of user data and, for every user, the name of the chat server of the last
login. This directory holds TLA+ modules for the parts where steps of several
threads or servers meet, TLC configurations that check them on small instances, and
TLAPS proofs of the main results for all values of the constants.

Paths below are relative to `src/` of the repository.

## The system

| Component | State | Operations | Talks to |
|---|---|---|---|
| CSession (ChatServer/CSession.cpp) | socket, `_send_que`, `_b_close`, `_user_uid`, read buffers | Send, HandleWrite, AsyncReadHead/Body, Close | posts to LogicSystem, calls CServer::ClearSession |
| CServer (CServer.cpp) | `_sessions` | StartAccept, HandleAccept, ClearSession | UserMgr, io service pool |
| UserMgr (UserMgr.cpp) | `_uid_to_session` | Get/Set/RmvUserSession | called by io, logic and gRPC threads |
| LogicSystem (LogicSystem.cpp) | `_msg_que`, `_b_stop`, callbacks | PostMsgToQue, DealMsg, one handler per message id | Redis, MySQL, UserMgr, ChatGrpcClient |
| ChatServiceImpl, ChatGrpcClient | stub pools | NotifyAddFriend, NotifyAuthFriend, NotifyTextChatMsg | the other chat servers |
| RedisConPool, MySqlPool (RedisMgr.h, MysqlDao.h) | idle connections, `b_stop_` | getConnection, returnConnection, health check, Close | used by all threads of all C++ servers |
| AsioIOServicePool | io contexts and threads | GetIOService, Stop | runs all session handlers |
| StatusServiceImpl | server list; counts and tokens in Redis | GetChatServer, Login | called by the gate |
| Gate LogicSystem, HttpConnection, MysqlDao | one connection per request | get_verifycode, user_register, reset_pwd, user_login | MySQL, Redis, status and verify servers |
| VerifyServer (JavaScript) | codes in Redis | GetVerifyCode | mail, Redis |

Threads of a chat server: one io thread per core (each session belongs to one of
them), the acceptor's thread, one logic worker, the gRPC threads, and one check
thread per connection pool. The worker handles one message at a time and holds the
queue's mutex while it does; a remote call blocks it until the call ends.

What makes each part correct, and where it is hard:

* *send side*: one write outstanding, whole frames in order, nothing left behind on
  a live session. Sends come from the worker and from gRPC threads, completions on
  the io thread.
* *logic queue*: no lost wakeup, posting order, draining at the stop. The notify
  comes after the unlock and only when the size becomes one; the stop flag is
  written without the mutex.
* *sessions and routing*: a message reaches only sessions that showed a token for
  its receiver, once and in order. The table, UserMgr, Redis and the session itself
  are changed one after the other, by different threads, and a session may close
  between any two of these steps; a remote call may fail while its handler runs.
* *pools*: one owner per connection, nobody sleeps while a connection is idle, Close
  wakes and joins everybody. The health check takes all connections out and probes
  them without the mutex.
* *framing*: the worker gets the requests the client sent, however the stream is cut.
  The length is a signed 16-bit field that is compared on one side only.
* *codes, accounts, tokens, counts, friends, cache*: check-then-act sequences over MySQL
  and Redis by requests that overlap: a code mailed is the code compared, uids are
  unique, no increment is lost, friendship is mutual and nobody misses an application.
* *gate*: a listener that survives errors; connections that end although a handler
  may block its io thread, and with it the timers of the other connections there.
* *start and stop*: a server that was signalled ends, with messages still queued and
  the Redis pool already closed; one that crashed leaves its count behind.

## Modules

| Module | What it is |
|---|---|
| `FrameStream` | abstract: what the receiver of a session sees, a stream of whole frames in order that may end |
| `UserTable` | abstract: the table of users and the counter of uids, as the other servers rely on them |
| `SendQueue`, `SessionProofs` | the send side of one CSession; its theorems, and that it implements `FrameStream`. Also the theorems of `Framing` |
| `LogicQueue`, `LogicProofs` | PostMsgToQue, DealMsg and the destructor of LogicSystem; its theorems. Also the theorems of `UserCache` |
| `ChatRouting`, `ChatRoutingProofs` | sessions, logins and text messages across servers; its theorems |
| `ConnPool`, `ConnPoolProofs` | RedisConPool and MySqlPool; its theorems |
| `VerifyCode`, `VerifyCodeProofs` | verification codes: the gate's request, the verify server, the comparison; its theorems |
| `Accounts`, `GateProofs` | registration, password reset and password check of the gate, in MySQL; its theorems, and that it implements `UserTable`. Also the theorems of `HttpConn` |
| `LoginFlow`, `LoginFlowProofs` | status server, tokens, login counts, start and end of the chat servers; its theorems |
| `Friends`, `FriendsProofs` | applications, acceptances, lists at the login, notifications; its theorems |
| `UserCache` | SearchInfo, GetBaseInfo and the rows cached in Redis |
| `Framing` | headers and bodies of a session's stream, and the layout of answers |
| `HttpConn`, `Url` | the gate's connections; the decoding of a request's target |
| `MC...` | constants for TLC |

A module of theorems belongs to a part of the system. `SessionProofs`, `GateProofs` and
`LogicProofs` extend two modules each: the two sides of a session, the accounts and the
connections of the gate, and LogicSystem's queue with the searches that its handlers run. For
that, `Framing`, `HttpConn` and `UserCache` have names of their own for `Init`, `Next` and `Spec`
(`StreamSpec`, `HttpSpec`, `CacheSpec`).

Operators called `X_...` and commented *Mutant* are changed versions of the
definition X that follows them, the way a bug could change it. No specification uses
them; each shows that a property does depend on the code.

Where modules meet: the sessions of `ChatRouting` send through a `SendQueue` and post to
a `LogicQueue`; every Redis or MySQL step of the other modules is a use of a `ConnPool`;
`Accounts` begins where `VerifyCode` has compared the code, and goes on, for a login, in
`LoginFlow`, whose successful logins are the ones `ChatRouting` and `Friends` begin with.
In each module the others appear by their effect: a step that may fail.

`ChatServer2` is a copy of `ChatServer` (some formatting differs, and lines of
`MysqlDao.cpp` by four); `PROJECT.json` names one copy or the other for a definition.

### SendQueue

`sendQue` is `_send_que`, its messages numbered in the order in which Send accepted
them. `writes` is the set of async_writes whose handler has not run: a set, so that
the model can have two at once if the code starts two. `Send` and `SendFull` are one
step because they run under `_send_lock`. `SocketTakes` and `SocketFails` are the
kernel: it takes a frame in `Parts` pieces and may fail before any of them.
`HandleWrite`, `HandleWriteError`, `ReadError` and `InvalidHeader` are the handlers.
A write that is started on a closed socket, or is outstanding when the socket is
closed, ends with an error; its handler still runs later. `wire`, `accepted` and
`refused` are history.

### LogicQueue

The mutex is modelled by the place of the worker (`WorkerHolds`): the posters'
critical section cannot block and is one step. Between the unlock and `notify_one` a
poster is at "notify", and between the predicate and the wait the worker is at
"wait"; these are the two gaps the properties are about. `_b_stop` is a plain `bool`
written without the mutex; the model gives the worker its current value. An id
without a callback is popped without a call (`RunCallback`). `SetStop` runs after
the io threads were joined: the signal handler stops the io pool before `main`
returns and static destruction reaches LogicSystem.

### ChatRouting

One step per access to shared state. A session's io thread goes through
`io`: "reading", then ClearSession's three parts (`ClearFind`, `RmvUserSession`,
`ClearErase`). A worker goes through LoginHandler (`LoginCheck`, `SetUserId`,
`SetUserIp`, `SetUserSession`, `Respond`) or DealChatTextMsg (`TextRoute`, then
`LocalLookup`/`LocalNotify` or the remote `RpcLookup`/`RpcNotify`, then `Respond`,
which is the handler's Defer and the pop). `RpcFail` ends a call for the caller at
any point; the handler may still run on the peer (`late`, `LateLookup`,
`LateNotify`), before or after the sender has been answered and more messages have
been sent. `authed`, `lastLogin`, `failed`, `texts`, `logins` and `steady` are
history. `steady` is the session through which the receiver of the message being
handled has been reachable ever since the routing decision.

Abstracted: Redis and MySQL answer (a failed read of `uip_` has the effect of a
missing key); every server knows every other one; send queues do not fill up (that
is SendQueue's part); the login's lists are in Friends, the increment of LOGIN_COUNT is
in LoginFlow; a second ClearSession of the same session finds nothing.

### ConnPool

One module for both pools, since only the health check of a failed connection
differs (`Probed`, constant `Redis`). getConnection is `GetNull`, `GetFront` or
`GetBlocks` followed by `Wait`; only a thread at "wait" keeps the mutex over a step
(`Free`). The check thread takes all connections (`CheckTake`), probes them one by
one without the mutex (`Probe`) and puts them back (`CheckReturn`). `GetUser` is the
second connection GetFriendList takes for each row; `CheckEmailNoRow` is the path of
the gate's CheckEmail that returns nothing. A context that Redis's check has freed
is used again by the code; what happens then is undefined and not modelled, so the
run uses the MySQL pool. The
run puts both kinds of threads on one pool: it has more behaviours than the
pool of any one server.

### VerifyCode

A step is one Redis command or one mail, since the verify server's one JavaScript
thread runs other requests whenever it awaits. `GetRedis` may find nothing although a
code is stored (the helper returns null for an error too); a stored code is mailed
again. `SetCode` and `SetExpire` are the two commands of SetRedisExpire; SET drops a time
to live. `SetRedisFails` is either command failing, with or without its effect.
`RpcFailed`: the gate's call fails and the verify server goes on. `CheckCode` begins
/user_register and /reset_pwd. `Expire` is Redis. A code is known by the request that
made it, so two requests never make the same one. `sole`, `behind` and `lasting` are
history. The code does not always compare with the code it mailed last: two overlapping requests
may store and mail in different orders, and a request whose SET works and whose EXPIRE or mail
fails replaces a mailed code by one that is in no mail (its GET may have failed, or the old code
has expired meanwhile). `behind` has the emails this happened to, until a request that no other
one overlapped has mailed what is stored; `MailedCodeIsCurrent` holds for all others, whatever else fails.

### Accounts

A step is one SQL statement. RegUserTransaction reads from the snapshot of its first
SELECT (`snap`, the number of rows it sees), and holds the row of `user_id` from its
UPDATE to the end (`lock`). The schema is not in the repository, so no unique index
is assumed. `CommitAnswerLost` is a COMMIT that took effect but threw. ResetPwd is
CheckEmail then UpdatePwd; CheckEmail accepts a name without a row, as the code does.
`before` is history: the resets that had been answered when a request began. A reset
that fails after its UPDATE (the answer of MySQL was lost) keeps its parameters in the
record, since its password is in the table. `UT` maps the module to `UserTable`: the
rows without their history, and the counter. A COMMIT is a step `Register`, an UPDATE of
passwords a step `SetPwd`; all other steps stutter.

### LoginFlow

The status server reads the counts one by one under `_server_mtx` (`FirstServer`,
`NextServer`, `Chosen`) and stores the token (`InsertToken`). A failed HGet gives nothing, which
counts as `INT_MAX`. A chat server's worker compares the token (`LoginCheck`) and
increments its own count in two steps (`ReadCount`, `WriteCount`); so does a search that
misses the cache (`SearchMiss`). `Boot`, `Signal`, `JoinIo`, `HDel`, `CloseRedis`, `StopWorker` and `Exit` are
main; after `CloseRedis` every command fails at once. Both `CloseRedis` and `StopWorker` (the
destructor of LogicSystem) notify without a mutex, so a worker that is about to wait, for a connection or for a
message, may sleep through it, and the server then never ends: `Sleeps` names these two cases, which
`ServerStops` leaves out, and MCLogicStop shows the second in detail. A worker that writes its count between `HDel` and
`CloseRedis` brings the field of a stopped server back. `Crash` leaves count and tokens.
`written`, `begin` and `excused` are history. StatusServiceImpl::Login is called by no
program of the repository.

### Friends

A user may have several sessions, on one server or on several; `on`, `requests`, `shown` and `told`
are per session, and each session logs in once. A login reads applications (the first ones up to the
limit) and friends (some of them when it fails: each is asked for with a query of its own) and only then becomes
reachable: `SetUserIp` writes the one server of the user to Redis, and its failure is ignored;
`SetUserSession` binds the session on this server in place of any other one of the user. `Leave` removes the
binding of the user, whichever session it is, and leaves `uip_<uid>`. `InsertApply`, `UpdateStatus`, `InsertRow`,
`Commit` and `Rollback` are the statements; an insert waits for the transaction that has
inserted the same row, and of two that wait for each other MySQL rolls one back. The
handler ignores what the database answered and goes on with `Route`, whose GET may fail as well, and the
notification, here or by a call (`NotifyThere`, `RpcFail`, `LateNotify`). The limit of the
lists is a constant. A session that dies during its login, and what may come between
the look-up of a session and the Send, are in ChatRouting.

`owed` is history: the applicants that a session has to be shown, which are those in the list its login
read and those whose application is stored while the session is `Reachable` (Redis names its server, and its
server has it for the user). `NoApplicationMissed` says that nothing owed is missed unless a statement or call for
that very application failed. What is stored while the session is not reachable, or looked up
when it is not any more (`StillOwed`), is not owed: Findings has the ways this comes about.

### UserCache

A reader looks in Redis (`Hit`, `Miss`), then in MySQL (`GetUser`), then stores (`SetCached`).
Texts that clients search for are given with what `isPureDigit` and `std::stoi` make of
them. `StoiThrows` is the empty text, or one too long for an int: nothing catches the exception and the
process of that server ends. The gate registers and resets in MySQL only; `spoilt` has
the users whose password was reset while a copy of the row was in Redis or about to be.
Names need not be unique, since `Accounts` shows that registrations which overlap may give a name twice.

### Framing

A field of the header is one unit, its range scaled down to -Half..Half - 1, a body any
number of units. A unit of the stream is a pair: `<<0, value>>` is a field, `<<n, i>>` the i-th unit of
the n-th body. `ReadMore`, `ReadHead` and `ReadBody` take as many units as the socket
gives. A body may be longer than its field can say. A length that arrives below zero makes the allocation of the
node throw in the handler: the session neither reads on nor is cleared ("thrown"). A length that arrives as another
one that is accepted makes the session read headers out of the middle of the body: what such a unit says as
a field is any of `BodyValue`. A body read so is made of other frames' units, and `RequestsAsSent` promises
nothing from the first `Unsayable` frame on. `SendAnswer` takes the size of a
text as a short, twice. A text of 2^15 units or more ends the process or is cut. A length field that
says exactly -1 is undefined (the node is of no bytes, and its terminator is written before it, MsgNode.h:14) and
not enumerated.

### HttpConn and Url

`place` is where a connection is; `busy` is the handler each io thread runs, so that a
thread blocked for a stub or in a call delays the other connections on it, timers
included. There is one pool of stubs for the verify server and one for the status server.
The timer starts when the object is made and is looked at from `FinishReq` on
(`SixtySeconds`, `CheckDeadline`). After a signal main returns and the singletons are destroyed in the
reverse order of their making (Singleton.h:10): first the clients with their pools (`Close`, of a
client that some request has made), then LogicSystem (`DestroyLogic`), and only then the pool of io threads, which
joins them (`Join`). A handler that waits for a stub is woken without one and calls through a null pointer
(`NullStub`); what uses a destroyed object may go well or not (`UseDestroyed`). `Crash` is the end of the
process. `Url` has UrlEncode, UrlDecode and PreParseGetParam on
sequences of bytes, and as reference what a client means (`Meant`). The
assertions in UrlDecode and FromHex are compiled out by the build script; malformed
targets are not modelled.

## Runs

Every run passes. One invariant of a module's runs includes the module's
`TypeOK`, except for SendQueue and LogicQueue, where `TypeOK` and some more invariants
are proved (see Proofs).

| Run | Instance | Shows |
|---|---|---|
| send_queue | queue bound 2 (+1), 2 pieces a frame, 5 sends | one write outstanding, every message written, refinement of FrameStream with its liveness |
| logic_queue | 2 io threads, 4 messages, known or unknown ids | order, no lost wakeup, draining, every message handled |
| chat_text | 2 servers, a session and a uid on each; the first user writes 2 messages, each to itself or to the other user; 2 logins, the second connection may break | authentication, order and uniqueness, delivery, answer last |
| chat_login | 1 server, 2 sessions, 2 uids, 3 logins, both may break | a binding nobody else touched stays |
| conn_pool | 3 threads (1 nesting, 1 running CheckEmail), 2 connections, one breaks | one owner, orderly close, no exhaustion by nesting, Close ends |
| verify_code | 3 requests for codes, 1 registration or reset, 2 emails | the code stored, mailed and compared, also by requests after one that failed; codes go away |
| accounts | 2 registrations, 2 resets, 1 login; 2 emails, 2 names, 3 passwords | true answers, duplicates only from overlapping transactions, old passwords refused although a reset may fail with or without its effect, refinement of UserTable, requests end |
| http_conn | 3 connections on 2 threads, 1 stub per pool, 1 client that may stop half way | listening, parameters as sent, every request ends, the gate stops, cleanly if it is at rest |
| login_flow | 2 logins of one user, 2 servers, one stops or crashes; 1 search, 1 failure | least loaded server, no lost increment, lone login accepted, a server ends unless a client stays or its worker sleeps through the stop |
| friends | 2 users, one with a session on each of 2 servers, a third who applied before; 1 session may end; 3 requests, 1 failure | mutual rows, no missed application, what was told is stored, workers go on |
| framing | shorts of -4..3, MAX_LENGTH 2, 3 frames, bodies of 0 to 9, body units read as -2 and 1 | requests as sent, answers that fit, all requests posted |
| user_cache | 1 worker, 1 gRPC thread, 2 servers, 2 users of one name, 5 texts; 5 requests, 2 failures, 1 reset | entries of the right user and current, searches find |

Further configurations (`MCLogicStop`, `MCChatLive`, `MCChatZombie`, `MCChatNewest`, `MCPoolIdle`,
`MCPoolFreed`, `MCPoolLeak`, `MCHttpDeadline`) are not among the runs of `PROJECT.json`.
`MCChatLive` passes: workers that call each other's servers for texts never wait in a
circle, which the run `friends` shows for notifications. The others show what Findings
says.

Why the bounds are enough: the queues need three messages to tell front, middle and
back apart, and four or five so that a bound is reached and left again. Two posters
are enough for one to be between unlock and notify while the other posts. Two servers
give a local and a remote route in both directions, and two messages of one sender
give an order. Two connections and three threads give a waiter beside a holder and a
nested holder. Two requests give every overlap of a check-then-act sequence; a third
of another kind observes it. One failure at any step is what the error paths are
written for. Two connections on one io thread and one on another give a blocked thread
beside a free one. Three frames with bodies of no units, of MAX_LENGTH, one more, and
lengths that become negative or small give every branch of the reader with another frame before and behind it. For
the properties listed under Proofs the proofs remove the bounds.

Deadlock checking is off where the system may stop: no client is obliged to send and
all specifications bound the number of requests.

### Fairness

* SendQueue: the kernel takes the pieces of an outstanding write or fails it, and
  the io thread runs handlers that are ready. Calls of Send are not fair.
* LogicQueue: the worker, a poster that has pushed, and the destructor go on; a
  spurious wakeup is possible but never relied upon, and nobody has to stop the server.
* ChatRouting: workers and io threads go on; no call has to fail and no late handler
  has to run.
* ConnPool: a thread in getConnection goes on, a thread that uses a connection
  returns it, the check thread and Close go on. Begin, Break, SetStop and spurious
  wakeups are not fair.
* VerifyCode, Accounts: a request that has begun goes on; a time to live runs out.
* LoginFlow: status server, workers and a stopping main go on, so a command of an open pool
  ends (a wait as MCPoolIdle shows it is left out), a client uses its answer; nobody has to log in, to disconnect, to start or to stop.
* Friends: workers go on, MySQL ends deadlocks. Clients do as they like.
* Framing: the socket delivers what was sent.
* HttpConn: handlers and timers run, calls end, and main goes on with its exit. For a client that does send its
  request, reading it is strongly fair: its thread may be busy now and then, but is
  free again and again. Accepting and reading of responses are not fair.

The others are weak: the guarantees of a thread scheduler and of calls that end.

## Findings

What the models show to go wrong, each with the configuration that shows it where there
is one (`tlc -config MCLogicStop.cfg MCLogicQueue`, and so on):

* **MCLogicStop** (module MCLogicQueue, `StopEndsWorker`) The destructor of LogicSystem sets `_b_stop` and
  notifies without the mutex (LogicSystem.cpp:17). A worker between `while (...)` and
  `wait` misses it; the join hangs. `Close` of both pools has the same gap for a thread
  in getConnection (`SetStop`, `NotifyAll` and `Wait` of ConnPool). `StopWorker` and `CloseRedis` of LoginFlow have both
  outcomes, and `ServerStops` says that nothing else keeps a server without clients from ending.
* **MCPoolIdle** (MCConnPool, `BlocksUntilIdle`) The health check puts connections back without a notify
  (RedisMgr.h:161); a thread that found the pool empty during the check waits until some other thread
  returns a connection, although RedisMgr.h:188 says it waits until there is an idle one.
* **MCPoolFreed** (MCConnPool, `ReturnsValid`) The Redis check's `for (auto* context : ...)` assigns the new context to a copy
  (RedisMgr.h:81); the pool gets the freed context back and the new one is lost.
* **MCPoolLeak** (MCConnPool, `KeepsItsSize`) CheckEmail at the gate drops its connection when the name is unknown
  (GateServer/MysqlDao.cpp:178).
* **MCChatZombie** (MCChatRouting, `ClearedLeavesUserMgr`) A login handled after its session was cleared binds the dead
  session (LogicSystem.cpp:191). A session that fails before HandleAccept inserts it stays in `_sessions` likewise.
* **MCChatNewest** (MCChatRouting, `NewestLoginFindable`) After a second login on the same server, the end of the first session
  makes the user unreachable (CServer.cpp:40), which UserMgr.cpp:30 says must not happen.
* **MCHttpDeadline** (MCHttpConn, `DeadlineCoversRequest`) The deadline is waited for only after the request has been read: a client
  that stops half way keeps its connection, and the gate cannot end (HttpConnection.cpp:33).
* Framing: a length field below zero leaves a session that neither reads nor is
  cleared; a body of 65536 bytes or more has a length that may become a small one, and the session
  then takes bytes of the body for the next header (CSession.cpp:160); a text of 32764 bytes or more ends the chat server, one of 65536 or more
  is cut.
* UserCache: a search for an empty text, or for a number too long for an int, ends the
  chat server; users whose names are numbers are never found by name; cached rows have no
  expiry, so a reset leaves the old password in Redis.
* HttpConn: a gate that is signalled while it handles requests may crash, since the clients, the managers and LogicSystem
  are destroyed before the io threads are joined; a handler that waits for a stub certainly makes it crash
  (VerifyGrpcClient.cpp:19). A gate at rest ends cleanly (`GateStops`).
* Friends: an application stored between a login's reading of the list and its binding
  is neither listed nor notified. The same holds for one stored when the session cannot be found although its client
  is logged in: the SET of `uip_<uid>` failed, which the login ignores (LogicSystem.cpp:189); the
  user has logged in on another server since, which `uip_<uid>` then names; or another session of the user
  on this server has ended and taken the binding with it (CServer.cpp:40). `NoApplicationMissed` says that
  nothing else is missed.

## Proofs

All proofs are by an inductive invariant (`IInv` unless said otherwise), which TLC checked first on the
instances above, and hold for all values of the constants that satisfy the modules' assumptions.

* `SessionProofs`, of `SendQueue`. `TypeOK` and the four safety properties are not inductive: that
  a write continues the wire where it stopped follows only from what ties the three
  together. The invariant says that the queue holds consecutive numbers up to
  `accepted`, that at most one write exists and is of the queue's front, that the
  pieces on the wire end exactly at the front and that write's progress, and that without a
  write a nonempty queue belongs to a closed and cleared session. From it follow
  `TypeCorrect`, `OneWrite`, `Contiguous`, `Stalled`, and `Refinement`
  (`Spec => FS!SafeSpec`, with the stream up while the socket is open and no write has
  failed). Assumed: `MaxSendQue \in Nat`, `Parts >= 1`.
* `SessionProofs`, of `Framing`. `RequestsAsSent` says nothing of what is still to be read, so it is not
  inductive. The invariant `RcvInv` says it of the session as long as
  no node was made for an unsayable body (`Lost`). Until then the session is `InStep`: a function `off` gives where each
  frame that was sent but not posted begins in what the session has in its buffer and what is still in
  the stream, taken together (`Starts`). A session that reads a header stands before such a frame, one that
  reads a body stands behind its header, with a node of its id and size; and nodes are posted once, in
  order. A read, however short, only moves units from one sequence to the other; a complete one moves
  the beginning. A size that its field can say arrives as it was sent (`Short`). Afterwards the session may read
  anything, and the invariant keeps the types, the order of posting, and that nodes posted earlier are not touched.
  From it follow `RequestsReadAsSent` and `ShortAnswersAreFramed`, for every width of the field, every
  MAX_LENGTH that fits, all frames and bodies of every size. Assumed: ids are positive shorts and no length field says -1.
* `LogicProofs`, of `LogicQueue`. The invariant ties the queue to the numbers not yet handled,
  with the worker's place saying whether the front's callback has run, and says
  that a sleeping worker with work in the queue has a poster about to notify. It gives
  `TypeCorrect`, `InOrder`, `NoLostPost` and `Drained` for any number of io threads and
  messages.
* `VerifyCodeProofs`. What passes the comparison follows from who owns a code: the
  invariant says that a code, wherever it is (with a request that works on it, in Redis or
  in a mail), was made by a request for the email it is there for, that a request never
  changes its email, and that a client's code is wrong or comes from some mail. From it
  follow `TimeToLive` and `OnlyMailed`, for any number of requests and emails. Assumed:
  `None` and `Wrong` are no codes. That requests make different codes is how the
  model names them: the code generates four characters of a UUID.
* `GateProofs`, of `Accounts`. The invariant adds, for each request: it has the row of `user_id`
  locked exactly from its UPDATE to its end, and the uid it has read is then the counter
  plus one; the rows of its snapshot have neither its email nor its name once it has looked
  for them; and the row its answer speaks of is there. `UidsUnique` alone is not inductive,
  because nothing in it says that the uid about to be inserted is new. A step of one request
  disturbs what is said of the others only through the table, which only grows (`Grows`,
  lemma `Others`). From it follow `Uids`, `Same` and `Stored`, for any number of requests,
  emails and names. Assumed: `None` is no value of these.
  The second invariant, `PwdInv`, is for `OldPwd`, which speaks of three requests: an answered
  reset, the login after it, and whoever wrote the row in between. It says that a row such a
  reset was for has the password of a reset that is done and had not been answered when that one
  began (itself included). TLC showed an earlier form of the property to be false: it forgot
  resets that fail although their UPDATE was done, so a password may be that of a failed reset.
  `Refinement` (`Spec => ImplementsUserTable`) holds step by step: a COMMIT adds the counter's
  next value because the committing request has the row of `user_id` locked.
* `GateProofs`, of `HttpConn`. `KeepsListening` needs that the connection the acceptor waits with is the only one
  at "accepting", and that there is always one while connections are left (`AcceptInv`); an io thread runs the one
  handler that is at a place inside a handler. `StubsInv` counts stubs until their pool closes: those in the pool and the connections
  that are in a call, which are finitely many, are together as many as the pool was made with
  (`NoStubIsLost`). A step of a connection cannot disturb either for the others
  (`MoveInv`, `StubsKept`). `GateKeepsListening` holds for any number of connections, threads and stubs.
* `ConnPoolProofs`. The pool, the check thread's local list and the threads are disjoint, without
  repetitions, and together have every connection that was not freed; a thread has at most
  one connection, or two when it runs GetFriendList. `OneOwner` alone is not
  inductive: it does not say that the check thread's
  list is empty when it takes the pool, nor that the check has ended when Close clears the pool (`Phases`). `NoSharing` holds of both
  pools, `MySqlOneOwner` of the MySQL pool only, because Redis's check puts freed
  contexts back (`MCPoolFreed`). `NestedUseIsSafe` assumes that there are more connections than
  threads that run GetFriendList (`NestingAssumption`): there is one logic worker in a
  chat server, and a pool has five. The theorem counts: waiting threads hold one connection
  each, so they cannot hold all.
* `ChatRoutingProofs`. `Auth` follows a uid from the token through session, UserMgr, worker and
  late calls; `Order` says where a message with a number can still be (queued, in a call that has
  failed, delivered, answered), so that no second one of that number and no earlier one of its session
  can come behind it; `SoleBound` and `Steady` add, to what the properties say of the ends of a
  handler, what holds between its steps. `TextsInOrder`, `SteadyDelivery` and `SoleLoginBound` follow,
  and the action property `AnswersAreFinal`, for any number of servers, sessions and
  messages.
* `LoginFlowProofs`. `NoLostIncrement` needs that the worker that is to write has read the count
  that is still there (`Counted`), `ChosenIsLeast` that counts which are being read only grow
  (`Reading`). Both need a bound of the counts, that none reaches the INT_MAX of a failed HGet:
  `Rooms` counts the accepted logins and the searches that are not queued any more. Assumed:
  finitely many logins.
* `FriendsProofs`. `MutualFriends` follows from what each open transaction has inserted so far.
  `NoneMissed` needs, for every applicant a session is owed, where the news is: in the answer of the
  login, in a call to the server where the session is bound, shown, or failed (`OwedTo`); and that a
  session UserMgr has is open, on its own server and of its user (`Bound`), so that a news sent to a reachable
  session reaches its client. It holds for any number of users, servers and sessions of a user, whatever fails.
* `LogicProofs`, of `UserCache`. What is in Redis is what some reader read earlier, so the invariant `CacheInv` speaks
  of the readers: a reader asks for what its key says (`KeyFits`), the row it carries is of the user its key
  names and is the present one as long as nobody reset the password since (`RowFits`), and a reader that is done and knew
  a user of its key has a row (`FoundOne`). The last holds because users are never removed, and because an
  entry is never of nobody. From it follow `EntriesAreCurrent` and `SearchesFind`. Assumed: a uid is the
  number its text stands for.

`VerifyCodeProofs` has a second invariant, `MailInv`, for `MailedIsCurrent`: an email with a request at work that
another one overlapped is behind, and a request that none has overlapped finds in Redis, between its SET and its
mail, the code it works with or none. Such second invariants are proved on top of `IInv`, whose proof they use.

Theorems `TypeCorrect`, `Contiguous`, `Stalled`, `NoSharing`, `Uids` and `NoStubIsLost` state invariants that no run lists: the
proofs cover them. `ImplementsFrameStream` implies what `Contiguous` says, and
`ImplementsUserTable` what `UidsUnique` says.

Only model-checked:

* all liveness properties (`RequestsEnd`, `RequestsAreAnswered`, `PostedIsHandled`, `CloseEnds` and the like): they rest
  on fairness, which the prover does not treat; and the fairness part of `ImplementsFrameStream`;
* what `Url` computes (`ParamsAsSent`): it decodes with folds, and induction over data is
  out of the prover's reach.

## Plan

What could be added to the model: the number of pending accepts, and the end of the chat servers' clients and
managers at shutdown, which HttpConn has for the gate. All invariants and action properties of the
runs but `ParamsAsSent` are proved.

## Not modelled

* Configuration, JSON, singletons, message definitions and build files: no state that
  changes after the start. JSON that does not parse is an error answer where it is a
  branch of a handler (`ErrorJson`).
* Data races that are undefined behaviour: the session table read without its lock,
  a socket closed on one thread while another starts a write. Each access is one step.
* The number of pending accepts, which grows by nine with every connection, and which
  io context a connection gets: neither changes what a session does.
* Redis's lists, Del and ExistsKey of RedisMgr, which nothing calls.
* The wire formats of HTTP, gRPC, Redis and MySQL; malformed percent escapes.
