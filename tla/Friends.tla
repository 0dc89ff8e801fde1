------------------------------ MODULE Friends -------------------------------
(***************************************************************************)
(* Applications for friendship and their acceptance.                       *)
(*                                                                         *)
(* AddFriendApply stores an application in MySQL, then looks up the server *)
(* of the receiver in Redis and notifies it, on this server or through the *)
(* other one.  LoginHandler reads the stored applications and friends, and *)
(* only then makes the session reachable: it writes its server to Redis    *)
(* and binds the session there, in place of any other one of the user.     *)
(* AuthFriendApply marks the application, inserts the two rows of the      *)
(* friendship in one transaction and notifies the applicant.  The handlers *)
(* go on whatever MySQL and Redis answer.                                  *)
(*                                                                         *)
(* A user may have several sessions, on one server or on several, each     *)
(* with one login.  Each server has one worker; a step is one statement or *)
(* command it gives to MySQL or Redis, or the delivery of a notification.  *)
(* GetBaseInfo only reads, but for its cache.  Sessions that die during a  *)
(* login are in module ChatRouting, which also has what may come between   *)
(* the look-up of a session and the Send.                                  *)
(***************************************************************************)
EXTENDS Integers, Sequences, FiniteSets, SequencesExt

CONSTANTS User, Server, Session, None,
          UserOf,        \* the user each session logs in as
          Home,          \* and the server it connects to
          Stored,        \* the applications stored at the start, by id
          MayApply,      \* the pairs of whom the first may apply to the second
          Limit,         \* the most applications a login is given
          Asks,          \* bound on the requests of each session after its login
          MaxEnds,       \* bound on the sessions that end
          MaxFails       \* bound on the requests for which something fails

ASSUME SessionsAssumption == UserOf \in [Session -> User] /\ Home \in [Session -> Server]
ASSUME StoredAssumption == Stored \in Seq(User \X User) /\ IsInjective(Stored)
ASSUME BoundsAssumption == {Limit, MaxEnds, MaxFails} \subseteq Nat /\ Asks \in [Session -> Nat]
ASSUME NoneAssumption == None \notin Server \cup Session

VARIABLES
  on,        \* each session: not yet connected, connected, logged in, or ended
  requests,  \* how many requests each session has sent after its login
  que,       \* the logic queue of each server
  wk,        \* its worker: place, what its answer will contain, the server to call
  bound,     \* the session of each user in UserMgr of each server
  uip,       \* Redis uip_<uid>
  applied,   \* MySQL friend_apply: pairs <<from_uid, to_uid>>, by id
  accepted,  \* ... and those whose status is 1
  friend,    \* MySQL friend: pairs <<self_id, friend_id>>, committed
  tx,        \* the rows inserted by the open transaction of each server
  late,      \* notifications whose caller has given up
  shown,     \* applicants each session has been shown
  told,      \* friends each session was told of
  failed,    \* history: the requests for which something failed
  owed       \* history: the applicants that each session has to be shown

client == <<on, requests>>
tables == <<applied, accepted, friend, tx>>
known == <<shown, told>>
vars == <<client, que, wk, bound, uip, tables, late, known, failed, owed>>

Idle == [pc |-> "idle", apps |-> {}, friends |-> {}, ok |-> TRUE, peer |-> None]

Init == /\ on = [x \in Session |-> "no"]
        /\ requests = [x \in Session |-> 0]
        /\ que = [s \in Server |-> <<>>]
        /\ wk = [s \in Server |-> Idle]
        /\ bound = [s \in Server |-> [u \in User |-> None]]
        /\ uip = [u \in User |-> None]
        /\ applied = Stored /\ accepted = {}
        /\ friend = {} /\ tx = [s \in Server |-> {}]
        /\ late = {}
        /\ shown = [x \in Session |-> {}] /\ told = [x \in Session |-> {}]
        /\ failed = {}
        /\ owed = [x \in Session |-> {}]

Working(s, place, type) == /\ wk[s].pc = place /\ que[s] # <<>>
                           /\ Head(que[s]).type = type
Goto(s, place) == wk' = [wk EXCEPT ![s].pc = place]

(* A statement or a call made for request r fails, or works.               *)
Fails(r) == Cardinality(failed) < MaxFails /\ r \notin failed /\ failed' = failed \cup {r}
Works == UNCHANGED failed

(* RedisMgr, for uip_<uid> of the user a request is for: SET leaves things *)
(* as they are when it fails, GET finds nothing then.                      *)
Set(r, t) == \/ uip' = [uip EXCEPT ![r.to] = t] /\ Works
             \/ UNCHANGED uip /\ Fails(r)
Get(r, t) == \/ t = uip[r.to] /\ Works
             \/ t = None /\ Fails(r)

(* The user a request is from, for whom and under whose id it is sent.     *)
From(r) == UserOf[r.by]

(* A worker has stored u's application to v and goes to notify v.          *)
UnderWay(u, v) ==
  \E s \in Server : /\ wk[s].pc \in {"route", "here", "there"}
                    /\ Head(que[s]).type = "apply"
                    /\ From(Head(que[s])) = u /\ Head(que[s]).to = v

(* A session can be found: Redis has its server, which has it for its user.*)
Reachable(x) == bound[Home[x]][UserOf[x]] = x /\ uip[UserOf[x]] = Home[x]

(* What is owed when a session cannot be found any more: not what is just  *)
(* being notified.                                                         *)
StillOwed == [x \in Session |-> IF Reachable(x) /\ ~Reachable(x)'
                                THEN {u \in owed[x] : ~UnderWay(u, UserOf[x])} ELSE owed[x]]

-----------------------------------------------------------------------------
(* Clients: connect and log in, ask, leave.                                *)
Connect(x) ==
  /\ on[x] = "no"
  /\ on' = [on EXCEPT ![x] = "on"]
  /\ que' = [que EXCEPT ![Home[x]] = Append(@, [type |-> "login", by |-> x, to |-> UserOf[x]])]
  /\ UNCHANGED <<requests, wk, bound, uip, tables, late, known, failed, owed>>

Ask(x, type, v) ==
  /\ on[x] = "ready" /\ requests[x] < Asks[x]
  /\ requests' = [requests EXCEPT ![x] = @ + 1]
  /\ que' = [que EXCEPT ![Home[x]] = Append(@, [type |-> type, by |-> x, to |-> v])]
  /\ UNCHANGED <<on, wk, bound, uip, tables, late, known, failed, owed>>

Apply(x, v) == <<UserOf[x], v>> \in MayApply /\ Ask(x, "apply", v)
Accept(x, v) == v \in shown[x] /\ Ask(x, "auth", v)

(* The connection ends, and the session is cleared: whichever session its  *)
(* user has on the server is removed.  uip_<uid> stays.                    *)
Leave(x) ==
  /\ on[x] = "ready" /\ Cardinality({y \in Session : on[y] = "gone"}) < MaxEnds
  /\ on' = [on EXCEPT ![x] = "gone"]
  /\ bound' = [bound EXCEPT ![Home[x]][UserOf[x]] = None]
  /\ shown' = [shown EXCEPT ![x] = {}] /\ told' = [told EXCEPT ![x] = {}]
  /\ UNCHANGED <<requests, que, wk, uip, tables, late, failed>>
  /\ owed' = [StillOwed EXCEPT ![x] = {}]

-----------------------------------------------------------------------------
(* LoginHandler, for a good token.                                         *)
ApplicantsOf(u) ==
  LET To(n) == {i \in 1..n : applied[i][2] = u}
  IN {applied[i][1] : i \in {j \in To(Len(applied)) : Cardinality(To(j)) <= Limit}}

(* GetFriendApplyInfo: the first rows by id; nothing when it fails.        *)
GetFriendApplyInfo(s) ==
  /\ Working(s, "idle", "login")
  /\ LET r == Head(que[s]) IN
       \/ /\ wk' = [wk EXCEPT ![s] = [@ EXCEPT !.pc = "friends", !.apps = ApplicantsOf(r.to)]]
          /\ owed' = [owed EXCEPT ![r.by] = ApplicantsOf(r.to)]
          /\ Works
       \/ /\ Goto(s, "friends") /\ Fails(r)
          /\ UNCHANGED owed
  /\ UNCHANGED <<client, que, bound, uip, tables, late, known>>

FriendsOf(u) == {v \in User : <<u, v>> \in friend}

(* The friends; some of them when it fails, since each of them is asked    *)
(* for with a query of its own.                                            *)
GetFriendList(s) ==
  /\ Working(s, "friends", "login")
  /\ LET r == Head(que[s]) IN
       \E found \in SUBSET FriendsOf(r.to) :
         /\ wk' = [wk EXCEPT ![s] = [@ EXCEPT !.pc = "setIp", !.friends = found]]
         /\ IF found = FriendsOf(r.to) THEN Works ELSE Fails(r)
  /\ UNCHANGED <<client, que, bound, uip, tables, late, known, owed>>

(* SET uip_<uid>, whose failure is ignored.                                *)
SetUserIp(s) ==
  /\ Working(s, "setIp", "login")
  /\ Set(Head(que[s]), s)
  /\ Goto(s, "bind")
  /\ UNCHANGED <<client, que, bound, tables, late, known>>
  /\ owed' = StillOwed

SetUserSession(s) ==
  /\ Working(s, "bind", "login")
  /\ bound' = [bound EXCEPT ![s][Head(que[s]).to] = Head(que[s]).by]
  /\ Goto(s, "rsp")
  /\ UNCHANGED <<client, que, uip, tables, late, known, failed>>
  /\ owed' = StillOwed

-----------------------------------------------------------------------------
(* AddFriendApply: INSERT ... ON DUPLICATE KEY UPDATE.                     *)
Store(row) ==
  /\ applied' = IF row \in ToSet(applied) THEN applied ELSE Append(applied, row)
  /\ owed' = [x \in Session |-> IF UserOf[x] = row[2] /\ Reachable(x)
                                THEN owed[x] \cup {row[1]} ELSE owed[x]]

(* Mutant: the receiver is looked up before the application is stored.     *)
InsertApply_RoutedBefore(s) ==
  /\ \/ /\ Working(s, "idle", "apply")
        /\ wk' = [wk EXCEPT ![s].pc = "store", ![s].ok = uip[Head(que[s]).to] # None]
        /\ UNCHANGED <<applied, owed>>
     \/ /\ Working(s, "store", "apply")
        /\ Store(<<From(Head(que[s])), Head(que[s]).to>>)
        /\ wk' = [wk EXCEPT ![s].pc = IF wk[s].ok THEN "route" ELSE "rsp"]
  /\ UNCHANGED <<client, que, bound, uip, accepted, friend, tx, late, known, failed>>

InsertApply(s) ==
  /\ Working(s, "idle", "apply")
  /\ Goto(s, "route")
  /\ \/ Store(<<From(Head(que[s])), Head(que[s]).to>>) /\ Works
     \/ Fails(Head(que[s])) /\ UNCHANGED <<applied, owed>>
  /\ UNCHANGED <<client, que, bound, uip, accepted, friend, tx, late, known>>

-----------------------------------------------------------------------------
(* AuthFriendApply: the applicant's data for the answer, and the status.   *)
UpdateStatus(s) ==
  /\ Working(s, "idle", "auth")
  /\ LET r == Head(que[s])
         row == <<r.to, From(r)>> IN
       \/ /\ accepted' = IF row \in ToSet(applied) THEN accepted \cup {row} ELSE accepted
          /\ \E found \in BOOLEAN : /\ IF found THEN Works ELSE Fails(r)
                                    /\ wk' = [wk EXCEPT ![s] = [@ EXCEPT !.pc = "row1", !.ok = found]]
       \/ Fails(r) /\ Goto(s, "row1") /\ UNCHANGED accepted
  /\ UNCHANGED <<client, que, bound, uip, applied, friend, tx, late, known, owed>>

(* AddFriend: the two rows, in the order the request names the users.      *)
RowOf(s, place) == LET r == Head(que[s])
                   IN IF place = "row1" THEN <<From(r), r.to>> ELSE <<r.to, From(r)>>

After(place) == IF place = "row1" THEN "row2" ELSE "commit"

(* An insert waits for another transaction that has inserted the same row. *)
WaitsFor(s, t) == /\ t # s /\ wk[s].pc \in {"row1", "row2"}
                  /\ RowOf(s, wk[s].pc) \in tx[t]

(* Mutant: the rows are not in a transaction.                              *)
InsertRow_AutoCommit(s, place) ==
  /\ Working(s, place, "auth") /\ \A t \in Server : ~WaitsFor(s, t)
  /\ friend' = friend \cup {RowOf(s, place)}
  /\ Goto(s, After(place))
  /\ UNCHANGED <<client, que, bound, uip, applied, accepted, tx, late, known, failed, owed>>

InsertRow(s, place) ==
  /\ Working(s, place, "auth") /\ \A t \in Server : ~WaitsFor(s, t)
  /\ tx' = [tx EXCEPT ![s] = @ \cup ({RowOf(s, place)} \ friend)]
  /\ Goto(s, After(place))
  /\ UNCHANGED <<client, que, bound, uip, applied, accepted, friend, late, known, failed, owed>>

(* Mutant: committed after the first row.                                  *)
Commit_OneRow(s) ==
  /\ Working(s, "row2", "auth")
  /\ friend' = friend \cup tx[s] /\ tx' = [tx EXCEPT ![s] = {}]
  /\ Goto(s, "route")
  /\ UNCHANGED <<client, que, bound, uip, applied, accepted, late, known, failed, owed>>

Commit(s) ==
  /\ Working(s, "commit", "auth")
  /\ friend' = friend \cup tx[s] /\ tx' = [tx EXCEPT ![s] = {}]
  /\ Goto(s, "route")
  /\ UNCHANGED <<client, que, bound, uip, applied, accepted, late, known, failed, owed>>

(* A statement fails, or MySQL ends a deadlock: the transaction is rolled  *)
(* back, and the handler goes on.                                          *)
Rollback(s) ==
  /\ wk[s].pc \in {"row1", "row2", "commit"}
  /\ \/ Fails(Head(que[s]))
     \/ (\E t \in Server : WaitsFor(s, t) /\ WaitsFor(t, s)) /\ Works
  /\ tx' = [tx EXCEPT ![s] = {}]
  /\ Goto(s, "route")
  /\ UNCHANGED <<client, que, bound, uip, applied, accepted, friend, late, known, owed>>

-----------------------------------------------------------------------------
(* Both: the server of the receiver, unless GET fails or finds none; then  *)
(* its session there.                                                      *)
Route(s) ==
  /\ wk[s].pc = "route"
  /\ \E to \in Server \cup {None} :
       LET place == IF to = None THEN "rsp" ELSE IF to = s THEN "here" ELSE "there"
       IN /\ Get(Head(que[s]), to)
          /\ wk' = [wk EXCEPT ![s] = [@ EXCEPT !.peer = to, !.pc = place]]
  /\ UNCHANGED <<client, que, bound, uip, tables, late, known, owed>>

(* The session that server t has for the receiver, if any, is sent the     *)
(* notification: of an application, or of its acceptance.                  *)
Hearing(t, u) == {x \in Session : bound[t][u] = x /\ on[x] \in {"on", "ready"}}
Learns(what, t, r) == [x \in Session |-> IF x \in Hearing(t, r.to) THEN what[x] \cup {From(r)}
                                         ELSE what[x]]

NotifyAddFriend(t, r) == shown' = Learns(shown, t, r) /\ UNCHANGED told
NotifyAuthFriend(t, r) == told' = Learns(told, t, r) /\ UNCHANGED shown

Notify(t, r) == \/ r.type = "apply" /\ NotifyAddFriend(t, r)
                \/ r.type = "auth" /\ NotifyAuthFriend(t, r)

NotifyHere(s) ==
  /\ wk[s].pc = "here"
  /\ Notify(s, Head(que[s]))
  /\ Goto(s, "rsp")
  /\ UNCHANGED <<client, que, bound, uip, tables, late, failed, owed>>

(* Mutant: the peer's worker serves the call.                              *)
NotifyThere_OnWorker(s) ==
  /\ wk[s].pc = "there"
  /\ wk[wk[s].peer].pc = "idle" /\ Notify(wk[s].peer, Head(que[s]))
  /\ Goto(s, "rsp")
  /\ UNCHANGED <<client, que, bound, uip, tables, late, failed, owed>>

(* A call, served by a gRPC thread of the peer.                            *)
NotifyThere(s) ==
  /\ wk[s].pc = "there"
  /\ Notify(wk[s].peer, Head(que[s]))
  /\ Goto(s, "rsp")
  /\ UNCHANGED <<client, que, bound, uip, tables, late, failed, owed>>

(* The call fails; what was asked may still be done, or never.             *)
RpcFail(s) ==
  /\ wk[s].pc = "there"
  /\ Fails(Head(que[s]))
  /\ late' = late \cup {[at |-> wk[s].peer, req |-> Head(que[s])]}
  /\ Goto(s, "rsp")
  /\ UNCHANGED <<client, que, bound, uip, tables, known, owed>>

LateNotify(c) ==
  /\ Notify(c.at, c.req)
  /\ late' = late \ {c}
  /\ UNCHANGED <<client, que, wk, bound, uip, tables, failed, owed>>

(* The Defer answers the session; then the request is popped.              *)
Respond(s) ==
  /\ wk[s].pc = "rsp"
  /\ LET r == Head(que[s])
         isLogin == r.type = "login"
     IN /\ on' = IF isLogin THEN [on EXCEPT ![r.by] = "ready"] ELSE on
        /\ shown' = IF isLogin THEN [shown EXCEPT ![r.by] = @ \cup wk[s].apps] ELSE shown
        /\ told' = CASE isLogin -> [told EXCEPT ![r.by] = @ \cup wk[s].friends]
                     [] r.type = "auth" /\ on[r.by] = "ready" /\ wk[s].ok ->
                          [told EXCEPT ![r.by] = @ \cup {r.to}]
                     [] OTHER -> told
  /\ wk' = [wk EXCEPT ![s] = Idle]
  /\ que' = [que EXCEPT ![s] = Tail(@)]
  /\ UNCHANGED <<requests, bound, uip, tables, late, failed, owed>>

-----------------------------------------------------------------------------
Worker(s) == \/ GetFriendApplyInfo(s) \/ GetFriendList(s) \/ SetUserIp(s) \/ SetUserSession(s)
             \/ InsertApply(s) \/ UpdateStatus(s)
             \/ \E place \in {"row1", "row2"} : InsertRow(s, place)
             \/ Commit(s) \/ Rollback(s)
             \/ Route(s) \/ NotifyHere(s) \/ NotifyThere(s) \/ RpcFail(s) \/ Respond(s)

Next == \/ \E s \in Server : Worker(s)
        \/ \E x \in Session : \/ Connect(x) \/ Leave(x)
                              \/ \E v \in User : Apply(x, v) \/ Accept(x, v)
        \/ \E c \in late : LateNotify(c)

SafeSpec == Init /\ [][Next]_vars

(* A worker goes on with its request; MySQL ends deadlocks.  Clients need  *)
(* not do anything, nor need a call whose caller gave up be served.        *)
Spec == SafeSpec /\ \A s \in Server : WF_vars(Worker(s))

-----------------------------------------------------------------------------
Kinds == [type : {"login", "apply", "auth"}, by : Session, to : User]

(* The types; only a worker inside AddFriend has an open transaction.      *)
TypeOK ==
  /\ on \in [Session -> {"no", "on", "ready", "gone"}] /\ requests \in [Session -> Nat]
  /\ que \in [Server -> Seq(Kinds)]
  /\ wk \in [Server -> [pc : {"idle", "friends", "setIp", "bind", "row1", "row2", "commit",
                              "route", "here", "there", "rsp"},
                        apps : SUBSET User, friends : SUBSET User, ok : BOOLEAN,
                        peer : Server \cup {None}]]
  /\ bound \in [Server -> [User -> Session \cup {None}]] /\ uip \in [User -> Server \cup {None}]
  /\ applied \in Seq(User \X User) /\ accepted \subseteq ToSet(applied)
  /\ friend \subseteq User \X User
  /\ tx \in [Server -> SUBSET (User \X User)]
  /\ \A s \in Server : tx[s] # {} => wk[s].pc \in {"row1", "row2", "commit"}
  /\ late \subseteq [at : Server, req : Kinds]
  /\ {shown, told, owed} \subseteq [Session -> SUBSET User]
  /\ failed \subseteq Kinds

(* The types; and friendship is mutual in what the database shows,         *)
(* whatever fails or deadlocks in between.                                 *)
FriendsAreMutual == TypeOK /\ \A p \in friend : <<p[2], p[1]>> \in friend

ApplyFailed(u, v) == \E r \in failed : r.type = "apply" /\ From(r) = u /\ r.to = v

(* No session that is logged in misses an application: one that was stored *)
(* before its login read the list (as far as the limit goes), or while the *)
(* session could be found, has been shown to it, or is just being          *)
(* notified, or a statement or a call failed for that application.  This   *)
(* leaves out what is stored between the reading of the list and the       *)
(* binding; and a session that cannot be found, or no longer when it is    *)
(* looked up: SET uip_<uid> failed, or the user has logged in once more,   *)
(* or another of its sessions ended on that server.                        *)
NoApplicationMissed ==
  \A x \in Session : \A u \in owed[x] : on[x] = "ready" =>
    u \in shown[x] \/ UnderWay(u, UserOf[x]) \/ ApplyFailed(u, UserOf[x])

Friends(u, v) == {<<u, v>>, <<v, u>>} \subseteq friend

FailedFor(u, v) == \E r \in failed : r.type = "auth" /\ {From(r), r.to} = {u, v}

Told(u, v) == \E x \in Session : UserOf[x] = u /\ v \in told[x]

Awaited == {p \in User \X User : /\ Told(p[1], p[2]) \/ p \in accepted
                                /\ ~Friends(p[1], p[2]) /\ ~FailedFor(p[1], p[2])}

(* Whoever has been told of a friendship has it, also when both users      *)
(* accept at the same time on two servers and MySQL rolls one of the       *)
(* transactions back; unless a statement failed.  It may be told first.    *)
AcceptedBecomesFriends == Awaited # {} ~> Awaited = {}

(* Every request is answered, although the workers wait for each other's   *)
(* transactions and calls.                                                 *)
RequestsEnd == \A s \in Server : que[s] # <<>> ~> que[s] = <<>>
=============================================================================
