---------------------------- MODULE ChatRouting ----------------------------
(***************************************************************************)
(* Sessions, logins and text messages across the chat servers.             *)
(*                                                                         *)
(* Each server has: the table of sessions (CServer), the map from uid to   *)
(* session (UserMgr), one logic queue with one worker thread (LogicSystem),*)
(* and gRPC threads that serve the other servers (ChatServiceImpl).  The   *)
(* io thread of a session reads requests and, on an error, closes and      *)
(* clears the session.  Redis keeps, for a uid, the server of its last     *)
(* login.  Every step below is one access to something shared: a Redis     *)
(* command, a critical section of UserMgr or of the session table, a Send. *)
(*                                                                         *)
(* The worker blocks for the whole of a remote call, so the state of a     *)
(* call is kept with the worker that made it.  The queue itself is modelled*)
(* in LogicQueue, the send side of a session in SendQueue.                 *)
(***************************************************************************)
EXTENDS Integers, Sequences, FiniteSets

CONSTANTS Server, Session, Uid,
          Home,          \* the server that accepts a session
          None,
          MayLogin,      \* the uids a session may log in as
          MayText,       \* the uids a session may write to
          MayFail,       \* the sessions whose connection may break
          MaxTexts,      \* bound on the text messages of all clients
          MaxLogins      \* bound on the login requests of all clients

ASSUME HomeAssumption == Home \in [Session -> Server]
ASSUME NoneAssumption == None \notin Session \cup Uid \cup Server
ASSUME ClientsAssumption == /\ MayLogin \in [Session -> SUBSET Uid]
                            /\ MayText \in [Session -> SUBSET Uid]
                            /\ MayFail \subseteq Session

ASSUME BoundsAssumption == MaxTexts \in Nat /\ MaxLogins \in Nat

VARIABLES
  accept,      \* HandleAccept of a session: "none", "started", "inserted"
  open,        \* the session's socket is open
  io,          \* where the io thread of a session is
  rmv,         \* the uid that ClearSession has read from the session
  inTable,     \* the session is in CServer::_sessions
  userId,      \* CSession::_user_uid (None for 0)
  bound,       \* UserMgr::_uid_to_session of each server
  uip,         \* Redis uip_<uid>: the server of the last login
  que,         \* LogicSystem::_msg_que of each server
  wk,          \* the worker of each server: place, session found, peer, status
  inbox,       \* what Send accepted for a session, in order
  late,        \* handlers of calls whose caller has given up
  failed,      \* history: the text messages whose call failed
  texts,       \* history: text messages sent by clients
  logins,      \* history: login requests sent by clients
  authed,      \* history: uids for which a session showed a valid token
  lastLogin,   \* history: the session whose login wrote uip_<uid> last
  steady       \* history: the session reachable all through the current message

conns == <<accept, open, io, rmv, inTable>>
users == <<userId, bound, uip, authed, lastLogin>>
clients == <<texts, logins>>
calls == <<late, failed>>
vars == <<conns, users, que, wk, inbox, clients, calls, steady>>

Login == [type : {"login"}, session : Session, uid : Uid, tokenOk : BOOLEAN]
Text == [type : {"text"}, session : Session, to : Uid, n : 1..MaxTexts]
Request == Login \cup Text

Item == [kind : {"login"}, ok : BOOLEAN, uid : Uid]
        \cup [kind : {"rsp", "notify"}, session : Session, to : Uid, n : 1..MaxTexts]

Place == {"idle", "setUser", "setIp", "bind", "route", "lookup", "notify",
          "rpc", "rpcSend", "rsp"}

Idle == [pc |-> "idle", dest |-> None, peer |-> None, ok |-> TRUE]

Front(srv) == Head(que[srv])

Busy(srv, place, type) == /\ wk[srv].pc = place
                          /\ que[srv] # <<>>
                          /\ Front(srv).type = type

Init == /\ accept = [s \in Session |-> "none"]
        /\ open = [s \in Session |-> FALSE]
        /\ io = [s \in Session |-> "none"]
        /\ rmv = [s \in Session |-> None]
        /\ inTable = [s \in Session |-> FALSE]
        /\ userId = [s \in Session |-> None]
        /\ bound = [srv \in Server |-> [u \in Uid |-> None]]
        /\ uip = [u \in Uid |-> None]
        /\ que = [srv \in Server |-> <<>>]
        /\ wk = [srv \in Server |-> Idle]
        /\ inbox = [s \in Session |-> <<>>]
        /\ late = {}
        /\ failed = {}
        /\ texts = 0
        /\ logins = 0
        /\ authed = [s \in Session |-> {}]
        /\ lastLogin = [u \in Uid |-> None]
        /\ steady = [srv \in Server |-> None]

-----------------------------------------------------------------------------
(* Connections.                                                            *)

(* HandleAccept starts to read from the session ...                        *)
AcceptStart(s) ==
  /\ accept[s] = "none"
  /\ accept' = [accept EXCEPT ![s] = "started"]
  /\ open' = [open EXCEPT ![s] = TRUE]
  /\ io' = [io EXCEPT ![s] = "reading"]
  /\ UNCHANGED <<rmv, inTable, users, que, wk, inbox, clients, calls>>

(* ... and then inserts it into the table, on the acceptor's thread.       *)
AcceptInsert(s) ==
  /\ accept[s] = "started"
  /\ accept' = [accept EXCEPT ![s] = "inserted"]
  /\ inTable' = [inTable EXCEPT ![s] = TRUE]
  /\ UNCHANGED <<open, io, rmv, users, que, wk, inbox, clients, calls>>

(* A read handler sees an error: Close, then ClearSession.                 *)
ReadError(s) ==
  /\ io[s] = "reading" /\ s \in MayFail
  /\ open' = [open EXCEPT ![s] = FALSE]
  /\ io' = [io EXCEPT ![s] = "find"]
  /\ UNCHANGED <<accept, rmv, inTable, users, que, wk, inbox, clients, calls>>

(* A header with an id or length above MAX_LENGTH: ClearSession only.      *)
InvalidHeader(s) ==
  /\ io[s] = "reading" /\ s \in MayFail
  /\ io' = [io EXCEPT ![s] = "find"]
  /\ UNCHANGED <<accept, open, rmv, inTable, users, que, wk, inbox, clients, calls>>

(* ClearSession: look the session up (without the lock) and read its uid;  *)
(* take the uid out of UserMgr; take the session out of the table.         *)
ClearFind(s) ==
  /\ io[s] = "find"
  /\ rmv' = [rmv EXCEPT ![s] = IF inTable[s] THEN userId[s] ELSE None]
  /\ io' = [io EXCEPT ![s] = IF inTable[s] THEN "remove" ELSE "erase"]
  /\ UNCHANGED <<accept, open, inTable, users, que, wk, inbox, clients, calls>>

(* Mutant: the whole map is cleared instead of one key erased.             *)
RmvUserSession_All(s) ==
  /\ io[s] = "remove"
  /\ bound' = [bound EXCEPT ![Home[s]] = [u \in Uid |-> None]]
  /\ rmv' = [rmv EXCEPT ![s] = None]
  /\ io' = [io EXCEPT ![s] = "erase"]
  /\ UNCHANGED <<accept, open, inTable, userId, uip, authed, lastLogin,
                 que, wk, inbox, clients, calls>>

RmvUserSession(s) ==
  /\ io[s] = "remove"
  /\ bound' = IF rmv[s] = None THEN bound ELSE [bound EXCEPT ![Home[s]][rmv[s]] = None]
  /\ rmv' = [rmv EXCEPT ![s] = None]
  /\ io' = [io EXCEPT ![s] = "erase"]
  /\ UNCHANGED <<accept, open, inTable, userId, uip, authed, lastLogin,
                 que, wk, inbox, clients, calls>>

ClearErase(s) ==
  /\ io[s] = "erase"
  /\ inTable' = [inTable EXCEPT ![s] = FALSE]
  /\ io' = [io EXCEPT ![s] = "cleared"]
  /\ UNCHANGED <<accept, open, rmv, users, que, wk, inbox, clients, calls>>

-----------------------------------------------------------------------------
(* Clients: a whole request has been read and is posted to the logic queue.*)

Post(s, r) == /\ io[s] = "reading"
              /\ que' = [que EXCEPT ![Home[s]] = Append(@, r)]
              /\ UNCHANGED <<conns, users, wk, inbox, calls>>

PostLogin(s, u, tokenOk) ==
  /\ u \in MayLogin[s] /\ logins < MaxLogins
  /\ Post(s, [type |-> "login", session |-> s, uid |-> u, tokenOk |-> tokenOk])
  /\ logins' = logins + 1
  /\ UNCHANGED texts

PostText(s, to) ==
  /\ to \in MayText[s] /\ texts < MaxTexts
  /\ texts' = texts + 1
  /\ Post(s, [type |-> "text", session |-> s, to |-> to, n |-> texts'])
  /\ UNCHANGED logins

-----------------------------------------------------------------------------
(* The worker of server srv; what it does not name it leaves alone.        *)

Move(srv, place, dest) == wk' = [wk EXCEPT ![srv] = [@ EXCEPT !.pc = place, !.dest = dest]]

(* Send: a closed socket loses what it is given.                           *)
Sent(s, item) == IF open[s] THEN [inbox EXCEPT ![s] = Append(@, item)] ELSE inbox

(* LoginHandler up to the increment of the login count: the token in Redis *)
(* and the user's data decide; the lists it reads go into the answer.      *)
LoginCheck(srv, found) ==
  /\ wk[srv].pc = "idle" /\ que[srv] # <<>> /\ Front(srv).type = "login"
  /\ LET r == Front(srv)
         good == r.tokenOk /\ found
     IN /\ wk' = [wk EXCEPT ![srv] = [@ EXCEPT !.pc = IF good THEN "setUser" ELSE "rsp",
                                                !.ok = good]]
        /\ authed' = IF r.tokenOk THEN [authed EXCEPT ![r.session] = @ \cup {r.uid}] ELSE authed
  /\ UNCHANGED <<conns, userId, bound, uip, lastLogin, que, inbox, clients, calls>>

SetUserId(srv) ==
  /\ Busy(srv, "setUser", "login")
  /\ userId' = [userId EXCEPT ![Front(srv).session] = Front(srv).uid]
  /\ Move(srv, "setIp", None)
  /\ UNCHANGED <<conns, bound, uip, authed, lastLogin, que, inbox, clients, calls>>

SetUserIp(srv) ==
  /\ Busy(srv, "setIp", "login")
  /\ uip' = [uip EXCEPT ![Front(srv).uid] = srv]
  /\ lastLogin' = [lastLogin EXCEPT ![Front(srv).uid] = Front(srv).session]
  /\ Move(srv, "bind", None)
  /\ UNCHANGED <<conns, userId, bound, authed, que, inbox, clients, calls>>

SetUserSession(srv) ==
  /\ Busy(srv, "bind", "login")
  /\ bound' = [bound EXCEPT ![srv][Front(srv).uid] = Front(srv).session]
  /\ Move(srv, "rsp", None)
  /\ UNCHANGED <<conns, userId, uip, authed, lastLogin, que, inbox, clients, calls>>

(* DealChatTextMsg: where is the receiver?                                 *)
TextRoute(srv) ==
  /\ wk[srv].pc = "idle" /\ que[srv] # <<>> /\ Front(srv).type = "text"
  /\ LET at == uip[Front(srv).to]
     IN wk' = [wk EXCEPT ![srv] = [@ EXCEPT !.pc = IF at = None THEN "rsp"
                                                   ELSE IF at = srv THEN "lookup" ELSE "rpc",
                                            !.peer = IF at = srv THEN None ELSE at]]
  /\ UNCHANGED <<conns, users, que, inbox, clients, calls>>

LocalLookup(srv) ==
  /\ Busy(srv, "lookup", "text")
  /\ LET dest == bound[srv][Front(srv).to]
     IN Move(srv, IF dest = None THEN "rsp" ELSE "notify", dest)
  /\ UNCHANGED <<conns, users, que, inbox, clients, calls>>

Notification(srv) ==
  [kind |-> "notify", session |-> Front(srv).session, to |-> Front(srv).to, n |-> Front(srv).n]

LocalNotify(srv) ==
  /\ Busy(srv, "notify", "text")
  /\ inbox' = Sent(wk[srv].dest, Notification(srv))
  /\ Move(srv, "rsp", None)
  /\ UNCHANGED <<conns, users, que, clients, calls>>

(* Mutant: the caller's own map is searched instead of the peer's.         *)
RpcLookup_OwnMap(srv) ==
  /\ Busy(srv, "rpc", "text")
  /\ LET dest == bound[srv][Front(srv).to]
     IN Move(srv, IF dest = None THEN "rsp" ELSE "rpcSend", dest)
  /\ UNCHANGED <<conns, users, que, inbox, clients, calls>>

(* Mutant: the sender is answered before the call.                         *)
RpcLookup_AnswersFirst(srv) ==
  /\ Busy(srv, "rpc", "text")
  /\ LET dest == bound[wk[srv].peer][Front(srv).to]
     IN Move(srv, IF dest = None THEN "rsp" ELSE "rpcSend", dest)
  /\ inbox' = Sent(Front(srv).session, [Notification(srv) EXCEPT !.kind = "rsp"])
  /\ UNCHANGED <<conns, users, que, clients, calls>>

(* The call to the peer; its gRPC thread runs NotifyTextChatMsg.           *)
RpcLookup(srv) ==
  /\ Busy(srv, "rpc", "text")
  /\ LET dest == bound[wk[srv].peer][Front(srv).to]
     IN Move(srv, IF dest = None THEN "rsp" ELSE "rpcSend", dest)
  /\ UNCHANGED <<conns, users, que, inbox, clients, calls>>

(* Mutant: the call is made again after it was served.                     *)
RpcNotify_Retry(srv) ==
  /\ Busy(srv, "rpcSend", "text")
  /\ inbox' = Sent(wk[srv].dest, Notification(srv))
  /\ Move(srv, "rpc", None)
  /\ UNCHANGED <<conns, users, que, clients, calls>>

RpcNotify(srv) ==
  /\ Busy(srv, "rpcSend", "text")
  /\ inbox' = Sent(wk[srv].dest, Notification(srv))
  /\ Move(srv, "rsp", None)
  /\ UNCHANGED <<conns, users, que, clients, calls>>

(* The call fails: DealChatTextMsg ignores the status.  The handler may    *)
(* still run, now or later, on the peer's gRPC thread; for a request that  *)
(* never arrived it never does.                                            *)
RpcFail(srv) ==
  /\ wk[srv].pc \in {"rpc", "rpcSend"}
  /\ wk' = [wk EXCEPT ![srv] = [@ EXCEPT !.pc = "rsp", !.ok = FALSE]]
  /\ late' = late \cup {[peer |-> wk[srv].peer, dest |-> wk[srv].dest, note |-> Notification(srv)]}
  /\ failed' = failed \cup {Front(srv).n}
  /\ UNCHANGED <<conns, users, que, inbox, clients>>

LateLookup(c) ==
  /\ c.dest = None
  /\ LET dest == bound[c.peer][c.note.to]
     IN late' = (late \ {c}) \cup (IF dest = None THEN {} ELSE {[c EXCEPT !.dest = dest]})
  /\ UNCHANGED <<conns, users, que, wk, inbox, failed, clients>>

LateNotify(c) ==
  /\ c.dest # None
  /\ inbox' = Sent(c.dest, c.note)
  /\ late' = late \ {c}
  /\ UNCHANGED <<conns, users, que, wk, failed, clients>>

(* The Defer of the handler answers the sender; then DealMsg pops.         *)
Answer(srv) == LET r == Front(srv)
               IN IF r.type = "login"
                  THEN [kind |-> "login", ok |-> wk[srv].ok, uid |-> r.uid]
                  ELSE [Notification(srv) EXCEPT !.kind = "rsp"]

Respond(srv) ==
  /\ wk[srv].pc = "rsp"
  /\ inbox' = Sent(Front(srv).session, Answer(srv))
  /\ que' = [que EXCEPT ![srv] = Tail(@)]
  /\ wk' = [wk EXCEPT ![srv] = Idle]
  /\ UNCHANGED <<conns, users, clients, calls>>

-----------------------------------------------------------------------------
(* The session through which a uid can be reached.                         *)
ReachIn(u, ip, bd, op) == IF ip[u] # None /\ bd[ip[u]][u] # None /\ op[bd[ip[u]][u]]
                          THEN bd[ip[u]][u] ELSE None

Reach(u) == ReachIn(u, uip, bound, open)

(* History: reachable from the routing decision on, and still the same.    *)
Track == steady' =
  [srv \in Server |->
     IF wk'[srv].pc = "idle" \/ Head(que'[srv]).type # "text" THEN None
     ELSE LET now == ReachIn(Head(que'[srv]).to, uip', bound', open')
          IN IF wk[srv].pc = "idle" \/ steady[srv] = now THEN now ELSE None]

WorkerStep(srv) ==
  \/ \E found \in BOOLEAN : LoginCheck(srv, found)
  \/ SetUserId(srv) \/ SetUserIp(srv) \/ SetUserSession(srv)
  \/ TextRoute(srv) \/ LocalLookup(srv) \/ LocalNotify(srv)
  \/ RpcLookup(srv) \/ RpcNotify(srv)
  \/ Respond(srv)

ClearStep(s) == ClearFind(s) \/ RmvUserSession(s) \/ ClearErase(s)

Next ==
  \/ \E s \in Session : AcceptStart(s) /\ Track
  \/ \E s \in Session : AcceptInsert(s) /\ Track
  \/ \E s \in Session : ReadError(s) /\ Track
  \/ \E s \in Session : InvalidHeader(s) /\ Track
  \/ \E s \in Session : ClearFind(s) /\ Track
  \/ \E s \in Session : RmvUserSession(s) /\ Track
  \/ \E s \in Session : ClearErase(s) /\ Track
  \/ \E s \in Session, u \in Uid, tokenOk \in BOOLEAN : PostLogin(s, u, tokenOk) /\ Track
  \/ \E s \in Session, u \in Uid : PostText(s, u) /\ Track
  \/ \E srv \in Server, found \in BOOLEAN : LoginCheck(srv, found) /\ Track
  \/ \E srv \in Server : SetUserId(srv) /\ Track
  \/ \E srv \in Server : SetUserIp(srv) /\ Track
  \/ \E srv \in Server : SetUserSession(srv) /\ Track
  \/ \E srv \in Server : TextRoute(srv) /\ Track
  \/ \E srv \in Server : LocalLookup(srv) /\ Track
  \/ \E srv \in Server : LocalNotify(srv) /\ Track
  \/ \E srv \in Server : RpcLookup(srv) /\ Track
  \/ \E srv \in Server : RpcNotify(srv) /\ Track
  \/ \E srv \in Server : RpcFail(srv) /\ Track
  \/ \E srv \in Server : Respond(srv) /\ Track
  \/ \E c \in late : LateLookup(c) /\ Track
  \/ \E c \in late : LateNotify(c) /\ Track

(* The threads of the servers run; clients do as they like, and no call is *)
(* obliged to fail.                                                        *)
Fairness == /\ \A srv \in Server : WF_vars(WorkerStep(srv) /\ Track)
            /\ \A s \in Session : WF_vars((ClearStep(s) \/ AcceptInsert(s)) /\ Track)

SafeSpec == Init /\ [][Next]_vars

Spec == SafeSpec /\ Fairness

-----------------------------------------------------------------------------
TypeOK ==
  /\ accept \in [Session -> {"none", "started", "inserted"}]
  /\ open \in [Session -> BOOLEAN]
  /\ io \in [Session -> {"none", "reading", "find", "remove", "erase", "cleared"}]
  /\ rmv \in [Session -> Uid \cup {None}]
  /\ inTable \in [Session -> BOOLEAN]
  /\ userId \in [Session -> Uid \cup {None}]
  /\ bound \in [Server -> [Uid -> Session \cup {None}]]
  /\ uip \in [Uid -> Server \cup {None}]
  /\ que \in [Server -> Seq(Request)]
  /\ wk \in [Server -> [pc : Place, dest : Session \cup {None},
                        peer : Server \cup {None}, ok : BOOLEAN]]
  /\ inbox \in [Session -> Seq(Item)]
  /\ late \subseteq [peer : Server, dest : Session \cup {None}, note : Item]
  /\ failed \subseteq 1..MaxTexts
  /\ texts \in 0..MaxTexts
  /\ logins \in 0..MaxLogins
  /\ authed \in [Session -> SUBSET Uid]
  /\ lastLogin \in [Uid -> Session \cup {None}]
  /\ steady \in [Server -> Session \cup {None}]

Items(s) == {inbox[s][i] : i \in 1..Len(inbox[s])}

(* A message for a uid reaches only sessions that showed a valid token for *)
(* that uid, whichever server routed it and however logins, closes and     *)
(* lookups overlap.                                                        *)
NotifyOnlyAuthed == \A s \in Session : \A m \in Items(s) : m.kind = "notify" => m.to \in authed[s]

(* The types; messages reach authenticated sessions only; and what one     *)
(* session sends to one uid arrives at most once, and in the order in      *)
(* which it was sent, on any one session of the receiver: one worker       *)
(* handles the sender's messages and waits for each call to end.  Only a   *)
(* message whose call failed may come after a later one.                   *)
PairOrder ==
  /\ TypeOK /\ NotifyOnlyAuthed
  /\ \A s \in Session : \A i, j \in 1..Len(inbox[s]) :
       LET m == inbox[s][i]
           k == inbox[s][j]
       IN (i < j /\ m.kind = "notify" /\ k.kind = "notify" /\ m.session = k.session)
            => m.n < k.n \/ (m.n > k.n /\ k.n \in failed)

(* The answer comes after the delivery (the Defer runs last): once a       *)
(* sender has been answered nobody receives that message any more, unless  *)
(* the call failed and its handler is still running on the peer.           *)
AnsweredIsFinal ==
  [][\A s, r \in Session : \A m \in Items(s)' \ Items(s) :
       (m.kind = "notify" /\ m.n \notin failed)
         => ~\E a \in Items(r) : a.kind = "rsp" /\ a.n = m.n]_vars

(* No message is lost while its receiver stays reachable: if the receiver's*)
(* session is open and found in Redis and in UserMgr from the routing      *)
(* decision to the answer, and the call did not fail, it has the message.  *)
SteadyIsDelivered ==
  \A srv \in Server :
    (wk[srv].pc = "rsp" /\ wk[srv].ok /\ steady[srv] # None)
      => Notification(srv) \in Items(steady[srv])

(* The only session that ever logged in as u on its server, and as nobody  *)
(* else, stays in UserMgr until it is cleared: ClearSession of the others  *)
(* does not reach it.                                                      *)
LoggedIn(s, u) == \E m \in Items(s) : m.kind = "login" /\ m.ok /\ m.uid = u

SoleLoginStaysBound ==
  \A s \in Session, u \in Uid :
    ( /\ LoggedIn(s, u)
      /\ io[s] = "reading"
      /\ \A t \in Session \ {s} : Home[t] = Home[s] => u \notin authed[t] )
    => bound[Home[s]][u] = s

(* Every request is answered, or its session has been closed: two workers  *)
(* that call each other's servers at the same time never wait in a circle. *)
RequestsAnswered ==
  \A srv \in Server : que[srv] # <<>> ~> (que[srv] = <<>>)

(* CSession.cpp:124: when a read fails the connection is closed and the    *)
(* session is removed from the server.  A session that has been removed is *)
(* not found for a uid any more, whatever requests of it are still queued. *)
ClearedLeavesUserMgr ==
  \A s \in Session : io[s] = "cleared" => \A u \in Uid : bound[Home[s]][u] # s

(* UserMgr.cpp:30-33 keeps uip_ so that the end of an older session does   *)
(* not make the newer login unfindable.                                    *)
NewestLoginFindable ==
  \A u \in Uid :
    LET s == lastLogin[u] IN
      (s # None /\ io[s] = "reading" /\ LoggedIn(s, u)) => Reach(u) = s
=============================================================================
