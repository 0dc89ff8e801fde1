---------------------------- MODULE FriendsProofs ---------------------------
(***************************************************************************)
(* Theorems about Friends, for any numbers of users, sessions and servers: *)
(* what the database shows of friendships is mutual, and a session that is *)
(* logged in and can be found misses no application.                       *)
(***************************************************************************)
EXTENDS Friends, TLAPS

(* A worker that is busy has a request, of the kind its place belongs to.  *)
PlacedAt(s) ==
  /\ wk[s].pc # "idle" => que[s] # <<>>
  /\ wk[s].pc \in {"friends", "setIp", "bind"} => Head(que[s]).type = "login"
  /\ wk[s].pc \in {"row1", "row2", "commit"} => Head(que[s]).type = "auth"
  /\ wk[s].pc \in {"route", "here", "there"} => Head(que[s]).type \in {"apply", "auth"}
  /\ wk[s].pc = "there" => wk[s].peer \in Server

Placed == \A s \in Server : PlacedAt(s)

(* An open transaction has inserted the rows before its place, but for     *)
(* those that were there.                                                  *)
OpenAt(s) ==
  LET one == RowOf(s, "row1")
      two == RowOf(s, "row2")
  IN /\ wk[s].pc = "row1" => tx[s] = {}
     /\ wk[s].pc = "row2" => tx[s] \subseteq {one} /\ one \in tx[s] \cup friend
     /\ wk[s].pc = "commit" => tx[s] \subseteq {one, two} /\ {one, two} \subseteq tx[s] \cup friend
     /\ wk[s].pc \notin {"row1", "row2", "commit"} => tx[s] = {}

Open == \A s \in Server : OpenAt(s)

Mutual == \A p \in friend : <<p[2], p[1]>> \in friend

(* A login is queued on the server its session is connected to, once, and  *)
(* until it is answered.                                                   *)
IsLogin(r, x) == r.type = "login" /\ r.by = x

Once ==
  \A s \in Server : \A x \in Session : \A i \in 1..Len(que[s]) :
    IsLogin(que[s][i], x) =>
      /\ Home[x] = s /\ on[x] = "on" /\ que[s][i].to = UserOf[x]
      /\ \A j \in 1..Len(que[s]) : IsLogin(que[s][j], x) => j = i

(* The login of x is at a place behind its first statement.                *)
Handling(s, x) == wk[s].pc # "idle" /\ IsLogin(Head(que[s]), x)

(* A session is bound on its own server, for its user, while it is open.   *)
Bound ==
  \A s \in Server, v \in User, x \in Session :
    bound[s][v] = x => Home[x] = s /\ UserOf[x] = v /\ on[x] \in {"on", "ready"}

(* An applicant u that is owed to x is in the answer of its login, or is   *)
(* being notified to the server where x can be found, or has been shown,   *)
(* or something failed.                                                    *)
Answering(s, u, x) == Handling(s, x) /\ u \in wk[s].apps

Notifying(s, u, x) ==
  /\ \/ wk[s].pc = "route"
     \/ wk[s].pc = "here" /\ Home[x] = s
     \/ wk[s].pc = "there" /\ Home[x] = wk[s].peer
  /\ Head(que[s]).type = "apply" /\ From(Head(que[s])) = u /\ Head(que[s]).to = UserOf[x]

OwedTo(u, x) ==
  \/ u \in shown[x] \/ ApplyFailed(u, UserOf[x])
  \/ \E s \in Server : Answering(s, u, x)
  \/ Reachable(x) /\ \E s \in Server : Notifying(s, u, x)

Owing == \A x \in Session : \A u \in owed[x] : OwedTo(u, x)

IInv == TypeOK /\ Placed /\ Open /\ Mutual /\ Once /\ Bound /\ Owing

-----------------------------------------------------------------------------
(* The states of a worker; a step that changes only that of one.           *)
Place == {"idle", "friends", "setIp", "bind", "row1", "row2", "commit",
          "route", "here", "there", "rsp"}
WkState == [pc : Place, apps : SUBSET User, friends : SUBSET User, ok : BOOLEAN,
            peer : Server \cup {None}]

Only(s) == wk' \in [Server -> WkState] /\ \A t \in Server \ {s} : wk'[t] = wk[t]

(* A step that replaces the record of one worker.                          *)
LEMMA WkMoves ==
  ASSUME TypeOK, NEW s \in Server, NEW x \in WkState, wk' = [wk EXCEPT ![s] = x]
  PROVE  Only(s) /\ wk'[s] = x
  BY DEF TypeOK, WkState, Place, Only

(* A worker that goes on to another place.                                 *)
LEMMA Goes ==
  ASSUME TypeOK, NEW s \in Server, NEW p \in Place, Goto(s, p)
  PROVE  /\ Only(s) /\ wk'[s].pc = p
         /\ wk'[s].apps = wk[s].apps /\ wk'[s].peer = wk[s].peer
<1> DEFINE x == [wk[s] EXCEPT !.pc = p]
<1>1. wk[s] \in WkState
  BY DEF TypeOK, WkState, Place
<1>2. x \in WkState /\ x.pc = p /\ x.apps = wk[s].apps /\ x.peer = wk[s].peer
  BY <1>1 DEF WkState
<1>3. wk' = [wk EXCEPT ![s] = x]
  BY DEF Goto
<1> HIDE DEF x
<1> QED BY <1>2, <1>3, WkMoves

(* The request at the head of a queue.                                     *)
LEMMA HeadIs ==
  ASSUME TypeOK, NEW s \in Server, que[s] # <<>>
  PROVE  /\ Head(que[s]) \in Kinds /\ Head(que[s]) = que[s][1] /\ Len(que[s]) \in Nat \ {0}
         /\ Head(que[s]).by \in Session /\ Head(que[s]).to \in User
         /\ From(Head(que[s])) \in User
<1>1. que[s] \in Seq(Kinds)
  BY DEF TypeOK
<1>2. Len(que[s]) \in Nat \ {0} /\ Head(que[s]) = que[s][1] /\ que[s][1] \in Kinds
  BY <1>1
<1> QED BY <1>2, SessionsAssumption DEF Kinds, From

(* A worker's step from one place to another, with a request of a type.    *)
Takes(s, from, type, to) ==
  /\ que[s] # <<>> /\ Head(que[s]).type = type
  /\ wk[s].pc = from /\ wk'[s].pc = to /\ Only(s)

(* The login.                                                              *)
LEMMA ApplicantsAreUsers == ASSUME TypeOK, NEW u PROVE ApplicantsOf(u) \subseteq User
<1>1. \A i \in 1..Len(applied) : applied[i][1] \in User
  BY DEF TypeOK
<1> QED BY <1>1 DEF ApplicantsOf

(* A login reads the applicants, or the query fails for it.                *)
LEMMA ApplyInfoDoes ==
  ASSUME TypeOK, NEW s \in Server, GetFriendApplyInfo(s)
  PROVE  /\ Takes(s, "idle", "login", "friends")
         /\ \/ owed' = [owed EXCEPT ![Head(que[s]).by] = wk'[s].apps] /\ UNCHANGED failed
            \/ failed' = failed \cup {Head(que[s])} /\ UNCHANGED owed
         /\ UNCHANGED <<on, requests, que, bound, uip, applied, accepted, friend,
                        tx, late, shown, told>>
<1> DEFINE r == Head(que[s])
           u == r.to
           x == [wk[s] EXCEPT !.pc = "friends", !.apps = ApplicantsOf(u)]
<1>1. wk[s] \in WkState
  BY DEF TypeOK, WkState, Place
<1>2. x \in WkState /\ x.pc = "friends" /\ x.apps = ApplicantsOf(u)
  BY <1>1, ApplicantsAreUsers DEF WkState, Place
<1>3. que[s] # <<>> /\ Head(que[s]).type = "login" /\ wk[s].pc = "idle"
  BY DEF GetFriendApplyInfo, Working
<1>4. \/ /\ wk' = [wk EXCEPT ![s] = x]
         /\ owed' = [owed EXCEPT ![r.by] = ApplicantsOf(u)] /\ UNCHANGED failed
      \/ Goto(s, "friends") /\ failed' = failed \cup {Head(que[s])} /\ UNCHANGED owed
  BY DEF GetFriendApplyInfo, Works, Fails
<1>5. UNCHANGED <<on, requests, que, bound, uip, applied, accepted, friend,
                  tx, late, shown, told>>
  BY DEF GetFriendApplyInfo, client, tables, known
<1>6. "friends" \in Place
  BY DEF Place
<1> HIDE DEF x
<1>7. CASE wk' = [wk EXCEPT ![s] = x] /\ owed' = [owed EXCEPT ![r.by] = ApplicantsOf(u)]
           /\ UNCHANGED failed
  BY <1>2, <1>3, <1>5, <1>7, WkMoves DEF Takes
<1>8. CASE Goto(s, "friends") /\ failed' = failed \cup {Head(que[s])} /\ UNCHANGED owed
  BY <1>3, <1>5, <1>6, <1>8, Goes DEF Takes
<1> QED BY <1>4, <1>7, <1>8

(* It reads the friends, or the query fails for it,                        *)
LEMMA FriendListDoes ==
  ASSUME TypeOK, NEW s \in Server, GetFriendList(s)
  PROVE  /\ Takes(s, "friends", "login", "setIp") /\ wk'[s].apps = wk[s].apps
         /\ UNCHANGED failed \/ failed' = failed \cup {Head(que[s])}
         /\ UNCHANGED <<on, requests, que, bound, uip, applied, accepted, friend,
                        tx, late, shown, told, owed>>
<1>0. PICK found \in SUBSET FriendsOf(Head(que[s]).to) :
        /\ wk' = [wk EXCEPT ![s] = [@ EXCEPT !.pc = "setIp", !.friends = found]]
        /\ UNCHANGED failed \/ failed' = failed \cup {Head(que[s])}
  BY DEF GetFriendList, Works, Fails
<1> DEFINE x == [wk[s] EXCEPT !.pc = "setIp", !.friends = found]
<1>1. wk[s] \in WkState
  BY DEF TypeOK, WkState, Place
<1>2. x \in WkState /\ x.pc = "setIp" /\ x.apps = wk[s].apps
  BY <1>1 DEF WkState, Place, FriendsOf
<1>3. /\ que[s] # <<>> /\ Head(que[s]).type = "login" /\ wk[s].pc = "friends"
      /\ UNCHANGED <<on, requests, que, bound, uip, applied, accepted, friend,
                     tx, late, shown, told, owed>>
  BY DEF GetFriendList, Working, client, tables, known
<1>4. wk' = [wk EXCEPT ![s] = x]
  BY <1>0
<1> HIDE DEF x
<1>5. Only(s) /\ wk'[s].pc = "setIp" /\ wk'[s].apps = wk[s].apps
  BY <1>2, <1>4, WkMoves
<1> QED BY <1>0, <1>3, <1>5 DEF Takes

(* it writes its server to Redis, or SET fails for it,                     *)
LEMMA SetIpDoes ==
  ASSUME TypeOK, NEW s \in Server, SetUserIp(s)
  PROVE  /\ Takes(s, "setIp", "login", "bind") /\ wk'[s].apps = wk[s].apps
         /\ UNCHANGED uip \/ uip' = [uip EXCEPT ![Head(que[s]).to] = s]
         /\ UNCHANGED failed \/ failed' = failed \cup {Head(que[s])}
         /\ owed' = StillOwed
         /\ UNCHANGED <<on, requests, que, bound, applied, accepted, friend,
                        tx, late, shown, told>>
<1>1. Goto(s, "bind") /\ "bind" \in Place
  BY DEF SetUserIp, Place
<1>2. /\ que[s] # <<>> /\ Head(que[s]).type = "login" /\ wk[s].pc = "setIp"
      /\ UNCHANGED uip \/ uip' = [uip EXCEPT ![Head(que[s]).to] = s]
      /\ UNCHANGED failed \/ failed' = failed \cup {Head(que[s])}
  BY DEF SetUserIp, Set, Working, Works, Fails
<1> QED BY <1>1, <1>2, Goes DEF SetUserIp, Takes, client, tables, known

(* and binds its session there.                                            *)
LEMMA BindDoes ==
  ASSUME TypeOK, NEW s \in Server, SetUserSession(s)
  PROVE  /\ Takes(s, "bind", "login", "rsp") /\ wk'[s].apps = wk[s].apps
         /\ bound' = [bound EXCEPT ![s][Head(que[s]).to] = Head(que[s]).by]
         /\ owed' = StillOwed
         /\ UNCHANGED <<on, requests, que, uip, applied, accepted, friend,
                        tx, late, shown, told, failed>>
<1>1. Goto(s, "rsp") /\ "rsp" \in Place
  BY DEF SetUserSession, Place
<1> QED BY <1>1, Goes DEF SetUserSession, Working, Takes, client, tables, known

(* The two requests: what is stored, and what it changes in what is owed.  *)
LEMMA InsertApplyDoes ==
  ASSUME TypeOK, NEW s \in Server, InsertApply(s)
  PROVE  /\ Takes(s, "idle", "apply", "route")
         /\ \/ Store(<<From(Head(que[s])), Head(que[s]).to>>) /\ UNCHANGED failed
            \/ failed' = failed \cup {Head(que[s])} /\ UNCHANGED <<applied, owed>>
         /\ UNCHANGED <<on, requests, que, bound, uip, accepted, friend,
                        tx, late, shown, told>>
<1>1. Goto(s, "route") /\ "route" \in Place
  BY DEF InsertApply, Place
<1> QED BY <1>1, Goes DEF InsertApply, Working, Works, Fails, Takes, client, known

(* An acceptance marks the application as accepted; only one that is       *)
(* stored.                                                                 *)
LEMMA StatusDoes ==
  ASSUME TypeOK, NEW s \in Server, UpdateStatus(s)
  PROVE  /\ Takes(s, "idle", "auth", "row1")
         /\ accepted' \subseteq ToSet(applied)
         /\ UNCHANGED failed \/ failed' = failed \cup {Head(que[s])}
         /\ UNCHANGED <<on, requests, que, bound, uip, applied, friend,
                        tx, late, shown, told, owed>>
<1> DEFINE r == Head(que[s])
           x(found) == [wk[s] EXCEPT !.pc = "row1", !.ok = found]
<1>1. wk[s] \in WkState
  BY DEF TypeOK, WkState, Place
<1>2. \A found \in BOOLEAN : x(found) \in WkState /\ x(found).pc = "row1"
  BY <1>1 DEF WkState, Place
<1>3. \/ Goto(s, "row1")
      \/ \E found \in BOOLEAN : wk' = [wk EXCEPT ![s] = x(found)]
  BY DEF UpdateStatus
<1>4. /\ que[s] # <<>> /\ r.type = "auth" /\ wk[s].pc = "idle"
      /\ accepted' \subseteq ToSet(applied)
      /\ UNCHANGED failed \/ failed' = failed \cup {r}
      /\ UNCHANGED <<on, requests, que, bound, uip, applied, friend,
                     tx, late, shown, told, owed>>
  BY DEF UpdateStatus, Working, Works, Fails, TypeOK, client, known
<1>5. "row1" \in Place
  BY DEF Place
<1> HIDE DEF x
<1>6. Only(s) /\ wk'[s].pc = "row1"
  BY <1>2, <1>3, <1>5, Goes, WkMoves
<1> QED BY <1>4, <1>6 DEF Takes

(* The transaction.                                                        *)
LEMMA InsertRowDoes ==
  ASSUME TypeOK, NEW s \in Server, NEW place \in {"row1", "row2"}, InsertRow(s, place)
  PROVE  /\ Takes(s, place, "auth", After(place))
         /\ tx' = [tx EXCEPT ![s] = @ \cup ({RowOf(s, place)} \ friend)]
         /\ UNCHANGED <<on, requests, que, bound, uip, applied, accepted, friend,
                        late, shown, told, failed, owed>>
<1>1. Goto(s, After(place)) /\ After(place) \in Place
  BY DEF InsertRow, After, Place
<1> QED BY <1>1, Goes DEF InsertRow, Working, Takes, client, known

(* The commit shows the rows of the transaction to everyone.               *)
LEMMA CommitDoes ==
  ASSUME TypeOK, NEW s \in Server, Commit(s)
  PROVE  /\ Takes(s, "commit", "auth", "route")
         /\ friend' = friend \cup tx[s] /\ tx' = [tx EXCEPT ![s] = {}]
         /\ UNCHANGED <<on, requests, que, bound, uip, applied, accepted,
                        late, shown, told, failed, owed>>
<1>1. Goto(s, "route") /\ "route" \in Place
  BY DEF Commit, Place
<1> QED BY <1>1, Goes DEF Commit, Working, Takes, client, known

(* A transaction that ends otherwise shows none of its rows.               *)
LEMMA RollbackDoes ==
  ASSUME TypeOK, Placed, NEW s \in Server, Rollback(s)
  PROVE  /\ Takes(s, wk[s].pc, "auth", "route") /\ wk[s].pc \in {"row1", "row2", "commit"}
         /\ UNCHANGED failed \/ failed' = failed \cup {Head(que[s])}
         /\ tx' = [tx EXCEPT ![s] = {}]
         /\ UNCHANGED <<on, requests, que, bound, uip, applied, accepted, friend,
                        late, shown, told, owed>>
<1>1. Goto(s, "route") /\ "route" \in Place
  BY DEF Rollback, Place
<1>2. wk[s].pc \in {"row1", "row2", "commit"}
  BY DEF Rollback
<1>3. que[s] # <<>> /\ Head(que[s]).type = "auth"
  BY <1>2 DEF Placed, PlacedAt
<1> QED BY <1>1, <1>2, <1>3, Goes DEF Rollback, Works, Fails, Takes, client, known

(* The notification: what a session was shown stays so, and the one that   *)
(* is found for the receiver of an application is shown it.                *)
LEMMA NotifyDoes ==
  ASSUME TypeOK, NEW t \in Server, NEW r \in Kinds, Notify(t, r)
  PROVE  /\ shown' \in [Session -> SUBSET User] /\ told' \in [Session -> SUBSET User]
         /\ \A x \in Session : shown[x] \subseteq shown'[x]
         /\ r.type = "apply" => \A x \in Hearing(t, r.to) : From(r) \in shown'[x]
<1>1. shown \in [Session -> SUBSET User] /\ told \in [Session -> SUBSET User]
  BY DEF TypeOK
<1>2. From(r) \in User
  BY SessionsAssumption DEF Kinds, From
<1>3. \/ r.type = "apply" /\ shown' = Learns(shown, t, r) /\ UNCHANGED told
      \/ r.type # "apply" /\ told' = Learns(told, t, r) /\ UNCHANGED shown
  BY DEF Notify, NotifyAddFriend, NotifyAuthFriend
<1>4. ASSUME NEW what \in [Session -> SUBSET User]
      PROVE  /\ Learns(what, t, r) \in [Session -> SUBSET User]
             /\ \A x \in Session : what[x] \subseteq Learns(what, t, r)[x]
             /\ \A x \in Hearing(t, r.to) : From(r) \in Learns(what, t, r)[x]
  BY <1>2 DEF Learns, Hearing
<1> QED BY <1>1, <1>3, <1>4

(* A notification goes to the server that Redis has for the receiver, or   *)
(* GET fails for it.                                                       *)
LEMMA RouteDoes ==
  ASSUME TypeOK, Placed, NEW s \in Server, Route(s)
  PROVE  /\ que[s] # <<>> /\ wk[s].pc = "route" /\ Only(s)
         /\ wk'[s].pc \in {"rsp", "here", "there"}
         /\ \/ /\ wk'[s].pc = (IF uip[Head(que[s]).to] = None THEN "rsp"
                               ELSE IF uip[Head(que[s]).to] = s THEN "here" ELSE "there")
               /\ wk'[s].peer = uip[Head(que[s]).to] /\ UNCHANGED failed
            \/ wk'[s].pc = "rsp" /\ failed' = failed \cup {Head(que[s])}
         /\ UNCHANGED <<on, requests, que, bound, uip, applied, accepted, friend,
                        tx, late, shown, told, owed>>
<1>1. PICK to \in Server \cup {None} :
        /\ \/ to = uip[Head(que[s]).to] /\ UNCHANGED failed
           \/ to = None /\ failed' = failed \cup {Head(que[s])}
        /\ wk' = [wk EXCEPT ![s] = [@ EXCEPT !.peer = to,
                     !.pc = IF to = None THEN "rsp" ELSE IF to = s THEN "here" ELSE "there"]]
  BY DEF Route, Get, Works, Fails
<1> DEFINE p == IF to = None THEN "rsp" ELSE IF to = s THEN "here" ELSE "there"
           x == [wk[s] EXCEPT !.peer = to, !.pc = p]
<1>2. que[s] # <<>> /\ wk[s].pc = "route"
  BY DEF Route, Placed, PlacedAt
<1>3. wk[s] \in WkState
  BY DEF TypeOK, WkState, Place
<1>4. x \in WkState /\ x.pc = p /\ x.peer = to
  BY <1>3 DEF WkState, Place
<1>5. wk' = [wk EXCEPT ![s] = x]
  BY <1>1
<1>6. UNCHANGED <<on, requests, que, bound, uip, applied, accepted, friend,
                  tx, late, shown, told, owed>>
  BY DEF Route, client, tables, known
<1> HIDE DEF x
<1>7. Only(s) /\ wk'[s].pc = p /\ wk'[s].peer = to
  BY <1>4, <1>5, WkMoves
<1> QED BY <1>1, <1>2, <1>6, <1>7

(* A worker's notification, to a session here or through the peer.         *)
LEMMA NotifiesDoes ==
  ASSUME TypeOK, Placed, NEW s \in Server, NotifyHere(s) \/ NotifyThere(s)
  PROVE  \E t \in Server :
           /\ (wk[s].pc = "here" /\ t = s) \/ (wk[s].pc = "there" /\ t = wk[s].peer)
           /\ Notify(t, Head(que[s]))
           /\ que[s] # <<>> /\ Only(s) /\ wk'[s].pc = "rsp"
           /\ UNCHANGED <<on, requests, que, bound, uip, applied, accepted, friend,
                          tx, late, failed, owed>>
<1>1. Goto(s, "rsp") /\ "rsp" \in Place
  BY DEF NotifyHere, NotifyThere, Place
<1>2. wk[s].pc \in {"here", "there"}
  BY DEF NotifyHere, NotifyThere
<1>3. que[s] # <<>> /\ (wk[s].pc = "there" => wk[s].peer \in Server)
  BY <1>2 DEF Placed, PlacedAt
<1>4. Only(s) /\ wk'[s].pc = "rsp"
  BY <1>1, Goes
<1>5. UNCHANGED <<on, requests, que, bound, uip, applied, accepted, friend,
                  tx, late, failed, owed>>
  BY DEF NotifyHere, NotifyThere, client, tables
<1>6. CASE NotifyHere(s)
  BY <1>3, <1>4, <1>5, <1>6 DEF NotifyHere
<1>7. CASE NotifyThere(s)
  BY <1>3, <1>4, <1>5, <1>7 DEF NotifyThere
<1> QED BY <1>6, <1>7

(* A call that fails; its handler may still run later.                     *)
LEMMA RpcFailDoes ==
  ASSUME TypeOK, Placed, NEW s \in Server, RpcFail(s)
  PROVE  /\ que[s] # <<>> /\ wk[s].pc = "there" /\ Only(s) /\ wk'[s].pc = "rsp"
         /\ failed' = failed \cup {Head(que[s])}
         /\ late' \subseteq [at : Server, req : Kinds]
         /\ UNCHANGED <<on, requests, que, bound, uip, applied, accepted, friend,
                        tx, shown, told, owed>>
<1>1. Goto(s, "rsp") /\ "rsp" \in Place
  BY DEF RpcFail, Place
<1>2. que[s] # <<>> /\ wk[s].pc = "there" /\ wk[s].peer \in Server
  BY DEF RpcFail, Placed, PlacedAt
<1>3. [at |-> wk[s].peer, req |-> Head(que[s])] \in [at : Server, req : Kinds]
  BY <1>2, HeadIs
<1>4. late' \subseteq [at : Server, req : Kinds]
  BY <1>3 DEF RpcFail, TypeOK
<1> QED BY <1>1, <1>2, <1>4, Goes DEF RpcFail, Fails, client, tables, known

(* The answer: a login makes its session ready, and shows it applicants.   *)
LEMMA RespondDoes ==
  ASSUME TypeOK, Placed, NEW s \in Server, Respond(s)
  PROVE  /\ que[s] # <<>> /\ wk[s].pc = "rsp" /\ Only(s) /\ wk'[s].pc = "idle"
         /\ que' = [que EXCEPT ![s] = Tail(@)]
         /\ LET r == Head(que[s])
            IN IF r.type = "login"
                 THEN on' = [on EXCEPT ![r.by] = "ready"] /\ wk[s].apps \subseteq shown'[r.by]
                 ELSE on' = on
         /\ shown' \in [Session -> SUBSET User] /\ told' \in [Session -> SUBSET User]
         /\ \A x \in Session : shown[x] \subseteq shown'[x]
         /\ UNCHANGED <<requests, bound, uip, applied, accepted, friend, tx, late, failed, owed>>
<1> DEFINE r == Head(que[s])
<1>1. Idle \in WkState /\ Idle.pc = "idle"
  BY DEF Idle, WkState, Place
<1>2. wk' = [wk EXCEPT ![s] = Idle]
  BY DEF Respond
<1>3. Only(s) /\ wk'[s].pc = "idle"
  BY <1>1, <1>2, WkMoves
<1>4. que[s] # <<>> /\ wk[s].pc = "rsp"
  BY DEF Respond, Placed, PlacedAt
<1>5. r \in Kinds /\ r.by \in Session /\ r.to \in User
  BY <1>4, HeadIs
<1>6. /\ shown \in [Session -> SUBSET User] /\ told \in [Session -> SUBSET User]
      /\ wk[s].apps \subseteq User /\ wk[s].friends \subseteq User
  BY DEF TypeOK
<1>7. CASE r.type = "login"
  <2>1. /\ on' = [on EXCEPT ![r.by] = "ready"]
        /\ shown' = [shown EXCEPT ![r.by] = @ \cup wk[s].apps]
        /\ told' = [told EXCEPT ![r.by] = @ \cup wk[s].friends]
    BY <1>7 DEF Respond
  <2>2. /\ wk[s].apps \subseteq shown'[r.by]
        /\ shown' \in [Session -> SUBSET User] /\ told' \in [Session -> SUBSET User]
        /\ \A x \in Session : shown[x] \subseteq shown'[x]
    BY <1>5, <1>6, <2>1
  <2> QED BY <1>3, <1>4, <1>7, <2>1, <2>2 DEF Respond, tables
<1>8. CASE r.type # "login"
  <2>1. /\ UNCHANGED <<on, shown>>
        /\ told' = [told EXCEPT ![r.by] = @ \cup {r.to}] \/ UNCHANGED told
    BY <1>8 DEF Respond
  <2>2. told' \in [Session -> SUBSET User]
    BY <1>5, <1>6, <2>1
  <2> QED BY <1>3, <1>4, <1>6, <1>8, <2>1, <2>2 DEF Respond, tables
<1> QED BY <1>7, <1>8

-----------------------------------------------------------------------------
(* The queues.  The head of one that grows is the same, if it had one.     *)
LEMMA QueueGrows ==
  ASSUME TypeOK, NEW s \in Server, NEW r \in Kinds, que' = [que EXCEPT ![s] = Append(@, r)]
  PROVE  /\ que' \in [Server -> Seq(Kinds)] /\ que'[s] # <<>>
         /\ que[s] # <<>> => Head(que'[s]) = Head(que[s])
         /\ Len(que[s]) \in Nat /\ Len(que'[s]) = Len(que[s]) + 1
         /\ \A i \in 1..Len(que[s]) : que'[s][i] = que[s][i]
         /\ que'[s][Len(que[s]) + 1] = r
         /\ \A t \in Server \ {s} : que'[t] = que[t]
<1>1. que[s] \in Seq(Kinds) /\ que'[s] = Append(que[s], r)
  BY DEF TypeOK
<1>2. /\ Append(que[s], r) \in Seq(Kinds)
      /\ Len(que[s]) \in Nat /\ Len(Append(que[s], r)) = Len(que[s]) + 1
      /\ \A i \in 1..Len(que[s]) : Append(que[s], r)[i] = que[s][i]
      /\ Append(que[s], r)[Len(que[s]) + 1] = r
  BY <1>1
<1>3. Append(que[s], r) # <<>> /\ Head(Append(que[s], r)) = Append(que[s], r)[1]
  BY <1>2
<1>4. que[s] # <<>> => Head(Append(que[s], r)) = Head(que[s])
  <2>1. que[s] # <<>> => Len(que[s]) # 0 /\ Head(que[s]) = que[s][1]
    BY <1>1
  <2> QED BY <1>2, <1>3, <2>1
<1> QED BY <1>1, <1>2, <1>3, <1>4 DEF TypeOK

(* A queue without its front.                                              *)
LEMMA QueueShrinks ==
  ASSUME TypeOK, NEW s \in Server, que[s] # <<>>, que' = [que EXCEPT ![s] = Tail(@)]
  PROVE  /\ que' \in [Server -> Seq(Kinds)] /\ Len(que[s]) \in Nat \ {0}
         /\ Len(que'[s]) = Len(que[s]) - 1
         /\ \A i \in 1..Len(que'[s]) : i + 1 \in 1..Len(que[s]) /\ que'[s][i] = que[s][i + 1]
         /\ \A t \in Server \ {s} : que'[t] = que[t]
<1>1. que[s] \in Seq(Kinds) /\ que'[s] = Tail(que[s])
  BY DEF TypeOK
<1>2. /\ Tail(que[s]) \in Seq(Kinds) /\ Len(que[s]) \in Nat \ {0}
      /\ Len(Tail(que[s])) = Len(que[s]) - 1
      /\ \A i \in 1..(Len(que[s]) - 1) : Tail(que[s])[i] = que[s][i + 1]
  BY <1>1
<1> QED BY <1>1, <1>2 DEF TypeOK

(* What the clients do.                                                    *)
LEMMA ConnectDoes ==
  ASSUME TypeOK, NEW x \in Session, Connect(x)
  PROVE  /\ Home[x] \in Server
         /\ \E r \in Kinds : /\ IsLogin(r, x) /\ r.to = UserOf[x]
                            /\ que' = [que EXCEPT ![Home[x]] = Append(@, r)]
         /\ on[x] = "no" /\ on' = [on EXCEPT ![x] = "on"]
         /\ UNCHANGED <<requests, wk, bound, uip, applied, accepted, friend, tx, late,
                        shown, told, failed, owed>>
<1> DEFINE r == [type |-> "login", by |-> x, to |-> UserOf[x]]
<1>1. r \in Kinds /\ IsLogin(r, x) /\ r.to = UserOf[x] /\ Home[x] \in Server
  BY SessionsAssumption DEF Kinds, IsLogin
<1>2. que' = [que EXCEPT ![Home[x]] = Append(@, r)]
  BY DEF Connect
<1> HIDE DEF r
<1> QED BY <1>1, <1>2 DEF Connect, tables, known

(* A request of a session that is logged in.                              *)
LEMMA AsksDoes ==
  ASSUME TypeOK, NEW x \in Session, NEW v \in User, Apply(x, v) \/ Accept(x, v)
  PROVE  \E s \in Server, r \in Kinds :
           /\ r.type # "login" /\ que' = [que EXCEPT ![s] = Append(@, r)]
           /\ requests' \in [Session -> Nat]
           /\ UNCHANGED <<on, wk, bound, uip, applied, accepted, friend, tx, late,
                          shown, told, failed, owed>>
<1>1. PICK type \in {"apply", "auth"} : Ask(x, type, v)
  BY DEF Apply, Accept
<1>2. [type |-> type, by |-> x, to |-> v] \in Kinds /\ Home[x] \in Server
  BY SessionsAssumption DEF Kinds
<1>3. requests' \in [Session -> Nat]
  BY <1>1 DEF Ask, TypeOK
<1>4. que' = [que EXCEPT ![Home[x]] = Append(@, [type |-> type, by |-> x, to |-> v])]
  BY <1>1 DEF Ask
<1> QED BY <1>1, <1>2, <1>3, <1>4 DEF Ask, tables, known

(* A server at which a step changes neither the place nor the request of   *)
(* the worker.                                                             *)
Same(t) ==
  /\ wk'[t] = wk[t]
  /\ wk[t].pc # "idle" => que'[t] # <<>> /\ Head(que'[t]) = Head(que[t])

(* A worker's step leaves the other workers and their queues alone.        *)
LEMMA OthersSame ==
  ASSUME TypeOK, Placed, NEW s \in Server, Worker(s)
  PROVE  /\ Only(s) /\ que[s] # <<>>
         /\ \A t \in Server \ {s} : Same(t)
<1>1. Only(s) /\ que[s] # <<>> /\ \A t \in Server \ {s} : que'[t] = que[t]
  <2>1. CASE Respond(s)
    BY <2>1, RespondDoes, QueueShrinks
  <2>2. CASE GetFriendApplyInfo(s) \/ GetFriendList(s) \/ SetUserIp(s) \/ SetUserSession(s)
    BY <2>2, ApplyInfoDoes, FriendListDoes, SetIpDoes, BindDoes DEF Takes
  <2>3. CASE InsertApply(s) \/ UpdateStatus(s) \/ Commit(s) \/ Rollback(s)
    BY <2>3, InsertApplyDoes, StatusDoes, CommitDoes, RollbackDoes DEF Takes
  <2>4. CASE \E place \in {"row1", "row2"} : InsertRow(s, place)
    BY <2>4, InsertRowDoes DEF Takes
  <2>5. CASE Route(s) \/ NotifyHere(s) \/ NotifyThere(s) \/ RpcFail(s)
    BY <2>5, RouteDoes, NotifiesDoes, RpcFailDoes
  <2> QED BY <2>1, <2>2, <2>3, <2>4, <2>5 DEF Worker
<1>2. \A t \in Server \ {s} : wk'[t] = wk[t] /\ (wk[t].pc # "idle" => que[t] # <<>>)
  BY <1>1 DEF Only, Placed, PlacedAt
<1> QED BY <1>1, <1>2 DEF Same

(* A client's step leaves the workers alone, and so does a late handler.   *)
LEMMA ClientsSame ==
  ASSUME TypeOK, Placed,
         \/ \E x \in Session : Connect(x) \/ Leave(x)
         \/ \E x \in Session, v \in User : Apply(x, v) \/ Accept(x, v)
         \/ \E c \in late : LateNotify(c)
  PROVE  /\ \A t \in Server : Same(t)
         /\ UNCHANGED <<wk, uip, friend, tx, failed>>
<1>1. ASSUME UNCHANGED <<wk, que>> PROVE \A t \in Server : Same(t)
  BY <1>1 DEF Same, Placed, PlacedAt
<1>2. ASSUME NEW s \in Server, NEW r \in Kinds, que' = [que EXCEPT ![s] = Append(@, r)],
             UNCHANGED wk
      PROVE  \A t \in Server : Same(t)
  <2>1. /\ que'[s] # <<>> /\ (que[s] # <<>> => Head(que'[s]) = Head(que[s]))
        /\ \A t \in Server \ {s} : que'[t] = que[t]
    BY <1>2, QueueGrows
  <2> QED BY <1>2, <2>1 DEF Same, Placed, PlacedAt
<1>3. CASE \E x \in Session : Connect(x)
  BY <1>2, <1>3, ConnectDoes
<1>4. CASE \E x \in Session, v \in User : Apply(x, v) \/ Accept(x, v)
  <2>1. /\ \E s \in Server, r \in Kinds : que' = [que EXCEPT ![s] = Append(@, r)]
        /\ UNCHANGED <<wk, uip, friend, tx, failed>>
    BY <1>4, AsksDoes
  <2> QED BY <1>2, <2>1
<1>5. CASE (\E x \in Session : Leave(x)) \/ \E c \in late : LateNotify(c)
  <2>1. UNCHANGED <<wk, que, uip, friend, tx, failed>>
    BY <1>5 DEF Leave, LateNotify, client, tables
  <2> QED BY <1>1, <2>1
<1> QED BY <1>3, <1>4, <1>5

-----------------------------------------------------------------------------
(* The places of the workers.                                              *)
LEMMA PlacedStays == ASSUME NEW t \in Server, PlacedAt(t), Same(t) PROVE PlacedAt(t)'
  BY DEF PlacedAt, Same

(* Every step keeps a busy worker with a request that fits its place.      *)
LEMMA PlacedStep == ASSUME TypeOK, Placed, Next PROVE Placed'
<1>1. ASSUME NEW s \in Server, Worker(s) PROVE PlacedAt(s)'
  <2>1. CASE Respond(s)
    BY <2>1, RespondDoes DEF PlacedAt
  <2>2. CASE GetFriendApplyInfo(s) \/ GetFriendList(s) \/ SetUserIp(s) \/ SetUserSession(s)
    BY <2>2, ApplyInfoDoes, FriendListDoes, SetIpDoes, BindDoes DEF Takes, PlacedAt
  <2>3. CASE InsertApply(s) \/ UpdateStatus(s) \/ Commit(s) \/ Rollback(s)
    <3>1. CASE InsertApply(s)
      BY <3>1, InsertApplyDoes DEF Takes, PlacedAt
    <3>2. CASE UpdateStatus(s)
      BY <3>2, StatusDoes DEF Takes, PlacedAt
    <3>3. CASE Commit(s)
      BY <3>3, CommitDoes DEF Takes, PlacedAt
    <3>4. CASE Rollback(s)
      BY <3>4, RollbackDoes DEF Takes, PlacedAt
    <3> QED BY <2>3, <3>1, <3>2, <3>3, <3>4
  <2>4. CASE \E place \in {"row1", "row2"} : InsertRow(s, place)
    BY <2>4, InsertRowDoes DEF Takes, PlacedAt, After
  <2>5. CASE Route(s)
    <3>1. Head(que[s]).type \in {"apply", "auth"} /\ uip[Head(que[s]).to] \in Server \cup {None}
      BY <2>5, HeadIs, RouteDoes DEF Placed, PlacedAt, TypeOK
    <3> QED BY <2>5, <3>1, RouteDoes DEF PlacedAt
  <2>6. CASE NotifyHere(s) \/ NotifyThere(s) \/ RpcFail(s)
    BY <2>6, NotifiesDoes, RpcFailDoes DEF PlacedAt
  <2> QED BY <1>1, <2>1, <2>2, <2>3, <2>4, <2>5, <2>6 DEF Worker
<1>2. ASSUME NEW s \in Server, Worker(s) PROVE Placed'
  BY <1>1, <1>2, OthersSame, PlacedStays DEF Placed
<1>3. CASE \A t \in Server : Same(t)
  BY <1>3, PlacedStays DEF Placed
<1> QED BY <1>2, <1>3, ClientsSame DEF Next

-----------------------------------------------------------------------------
(* The transactions.                                                       *)
LEMMA OpenStays ==
  ASSUME NEW t \in Server, OpenAt(t), Same(t), tx'[t] = tx[t], friend \subseteq friend'
  PROVE  OpenAt(t)'
<1>1. wk[t].pc # "idle" => \A place : RowOf(t, place)' = RowOf(t, place)
  BY DEF Same, RowOf
<1> QED BY <1>1 DEF OpenAt, Same

(* A step of a worker that writes to no other one's transaction.           *)
LEMMA OpenElsewhere ==
  ASSUME TypeOK, Placed, Open, NEW s \in Server, Worker(s), friend \subseteq friend',
         \A t \in Server \ {s} : tx'[t] = tx[t],
         OpenAt(s)'
  PROVE  Open'
  BY OthersSame, OpenStays DEF Open

(* Every step keeps what a transaction holds: its own rows, as far as it   *)
(* has come.                                                               *)
LEMMA OpenStep == ASSUME TypeOK, Placed, Open, Next PROVE Open'
<1>0. tx \in [Server -> SUBSET (User \X User)]
  BY DEF TypeOK
<1>1. ASSUME NEW s \in Server, NEW place \in {"row1", "row2"}, InsertRow(s, place) PROVE Open'
  <2>1. /\ wk[s].pc = place /\ wk'[s].pc = After(place) /\ UNCHANGED <<que, friend>>
        /\ tx' = [tx EXCEPT ![s] = @ \cup ({RowOf(s, place)} \ friend)]
    BY <1>1, InsertRowDoes DEF Takes
  <2>2. \A p : RowOf(s, p)' = RowOf(s, p)
    BY <2>1 DEF RowOf
  <2>3. tx'[s] = tx[s] \cup ({RowOf(s, place)} \ friend) /\ \A t \in Server \ {s} : tx'[t] = tx[t]
    BY <1>0, <2>1
  <2>4. OpenAt(s)'
    BY <2>1, <2>2, <2>3 DEF Open, OpenAt, After
  <2> QED BY <1>1, <2>1, <2>3, <2>4, OpenElsewhere DEF Worker
<1>2. ASSUME NEW s \in Server, Commit(s) \/ Rollback(s) PROVE Open'
  <2>1. wk'[s].pc = "route" /\ tx' = [tx EXCEPT ![s] = {}] /\ friend \subseteq friend'
    BY <1>2, CommitDoes, RollbackDoes DEF Takes
  <2>2. tx'[s] = {} /\ \A t \in Server \ {s} : tx'[t] = tx[t]
    BY <1>0, <2>1
  <2>3. OpenAt(s)'
    BY <2>1, <2>2 DEF OpenAt
  <2> QED BY <1>2, <2>1, <2>2, <2>3, OpenElsewhere DEF Worker
<1>3. ASSUME NEW s \in Server, Worker(s), UNCHANGED <<friend, tx>>,
             wk[s].pc \notin {"row1", "row2", "commit"}, wk'[s].pc \notin {"row2", "commit"}
      PROVE  Open'
  <2>1. tx[s] = {} /\ OpenAt(s)'
    BY <1>3 DEF Open, OpenAt
  <2> QED BY <1>3, <2>1, OpenElsewhere
<1>4. ASSUME NEW s \in Server,
             \/ GetFriendApplyInfo(s) \/ GetFriendList(s) \/ SetUserIp(s) \/ SetUserSession(s)
             \/ InsertApply(s) \/ UpdateStatus(s)
      PROVE  Open'
  <2>1. /\ UNCHANGED <<friend, tx>> /\ wk[s].pc \notin {"row1", "row2", "commit"}
        /\ wk'[s].pc \notin {"row2", "commit"}
    BY <1>4, ApplyInfoDoes, FriendListDoes, SetIpDoes, BindDoes, InsertApplyDoes, StatusDoes, ZenonT(60)
    DEF Takes
  <2> QED BY <1>3, <1>4, <2>1 DEF Worker
<1>5. ASSUME NEW s \in Server, Route(s) \/ NotifyHere(s) \/ NotifyThere(s) \/ RpcFail(s) \/ Respond(s)
      PROVE  Open'
  <2>1. /\ UNCHANGED <<friend, tx>> /\ wk[s].pc \notin {"row1", "row2", "commit"}
        /\ wk'[s].pc \notin {"row2", "commit"}
    BY <1>5, RouteDoes, NotifiesDoes, RpcFailDoes, RespondDoes
  <2> QED BY <1>3, <1>5, <2>1 DEF Worker
<1>6. ASSUME NEW s \in Server, Worker(s) PROVE Open'
  BY <1>1, <1>2, <1>4, <1>5, <1>6 DEF Worker
<1>7. CASE (\A t \in Server : Same(t)) /\ UNCHANGED <<friend, tx>>
  BY <1>7, OpenStays DEF Open
<1> QED BY <1>6, <1>7, ClientsSame DEF Next

(* Only a commit changes what the database shows of friendships.           *)
LEMMA OnlyCommits ==
  ASSUME TypeOK, Placed, Next
  PROVE  UNCHANGED friend \/ \E s \in Server : Commit(s)
<1>1. ASSUME NEW s \in Server, Worker(s), ~Commit(s) PROVE UNCHANGED friend
  <2>1. CASE \/ GetFriendApplyInfo(s) \/ GetFriendList(s) \/ SetUserIp(s) \/ SetUserSession(s)
             \/ InsertApply(s) \/ UpdateStatus(s) \/ Rollback(s)
    BY <2>1, ApplyInfoDoes, FriendListDoes, SetIpDoes, BindDoes, InsertApplyDoes, StatusDoes,
       RollbackDoes
  <2>2. CASE \E place \in {"row1", "row2"} : InsertRow(s, place)
    BY <2>2, InsertRowDoes
  <2>3. CASE Route(s) \/ NotifyHere(s) \/ NotifyThere(s) \/ RpcFail(s) \/ Respond(s)
    BY <2>3, RouteDoes, NotifiesDoes, RpcFailDoes, RespondDoes
  <2> QED BY <1>1, <2>1, <2>2, <2>3 DEF Worker
<1> QED BY <1>1, ClientsSame DEF Next

(* Every step keeps the rows in both directions: a commit shows both at    *)
(* once.                                                                   *)
LEMMA MutualStep == ASSUME TypeOK, Placed, Open, Mutual, Next PROVE Mutual'
<1>1. CASE UNCHANGED friend
  BY <1>1 DEF Mutual
<1>2. ASSUME NEW s \in Server, Commit(s) PROVE Mutual'
  <2> DEFINE r == Head(que[s])
  <2>1. wk[s].pc = "commit" /\ friend' = friend \cup tx[s]
    BY <1>2, CommitDoes DEF Takes
  <2>2. /\ tx[s] \subseteq {<<From(r), r.to>>, <<r.to, From(r)>>}
        /\ {<<From(r), r.to>>, <<r.to, From(r)>>} \subseteq tx[s] \cup friend
    BY <2>1 DEF Open, OpenAt, RowOf
  <2>3. PICK f, t : /\ tx[s] \subseteq {<<f, t>>, <<t, f>>}
                    /\ {<<f, t>>, <<t, f>>} \subseteq friend'
    BY <2>1, <2>2
  <2>4. ASSUME NEW p \in friend' PROVE <<p[2], p[1]>> \in friend'
    <3>1. CASE p \in friend
      BY <2>1, <3>1 DEF Mutual
    <3>2. CASE p = <<f, t>> \/ p = <<t, f>>
      BY <2>3, <3>2
    <3> QED BY <2>1, <2>3, <2>4, <3>1, <3>2
  <2> QED BY <2>4 DEF Mutual
<1> QED BY <1>1, <1>2, OnlyCommits

-----------------------------------------------------------------------------
(* The types, without that an open transaction belongs to a place, which   *)
(* Open says.                                                              *)
Types ==
  /\ on \in [Session -> {"no", "on", "ready", "gone"}] /\ requests \in [Session -> Nat]
  /\ que \in [Server -> Seq(Kinds)] /\ wk \in [Server -> WkState]
  /\ bound \in [Server -> [User -> Session \cup {None}]] /\ uip \in [User -> Server \cup {None}]
  /\ applied \in Seq(User \X User) /\ accepted \subseteq ToSet(applied)
  /\ friend \subseteq User \X User /\ tx \in [Server -> SUBSET (User \X User)]
  /\ late \subseteq [at : Server, req : Kinds]
  /\ shown \in [Session -> SUBSET User] /\ told \in [Session -> SUBSET User]
  /\ owed \in [Session -> SUBSET User] /\ failed \subseteq Kinds

(* The types without the rule for transactions, which Open has.            *)
LEMMA TypesAre == TypeOK => Types
  BY DEF TypeOK, Types, WkState, Place

(* And back.                                                               *)
LEMMA AreTypes == Types /\ Open => TypeOK
  BY DEF TypeOK, Types, WkState, Place, Open, OpenAt

(* An application that is stored is owed to the sessions that can be found.*)
LEMMA StoreDoes ==
  ASSUME TypeOK, NEW u \in User, NEW v \in User, Store(<<u, v>>)
  PROVE  /\ applied' \in Seq(User \X User) /\ ToSet(applied) \subseteq ToSet(applied')
         /\ owed' \in [Session -> SUBSET User]
         /\ \A x \in Session : \A w \in owed'[x] :
              w \in owed[x] \/ (w = u /\ v = UserOf[x] /\ Reachable(x))
<1>1. applied \in Seq(User \X User) /\ <<u, v>> \in User \X User
  BY DEF TypeOK
<1>2. applied' = applied \/ applied' = Append(applied, <<u, v>>)
  BY DEF Store
<1>3. /\ Append(applied, <<u, v>>) \in Seq(User \X User)
      /\ ToSet(applied) \subseteq ToSet(Append(applied, <<u, v>>))
  BY <1>1 DEF ToSet
<1>4. owed \in [Session -> SUBSET User]
  BY DEF TypeOK
<1>5. owed' = [x \in Session |-> IF UserOf[x] = v /\ Reachable(x) THEN owed[x] \cup {u} ELSE owed[x]]
  BY DEF Store
<1>6. /\ owed' \in [Session -> SUBSET User]
      /\ \A x \in Session : \A w \in owed'[x] :
           w \in owed[x] \/ (w = u /\ v = UserOf[x] /\ Reachable(x))
  BY <1>4, <1>5
<1>7. applied' \in Seq(User \X User) /\ ToSet(applied) \subseteq ToSet(applied')
  BY <1>1, <1>2, <1>3
<1> QED BY <1>6, <1>7

(* What is still owed was so; and what is not, was being notified.         *)
Keeps(x) == Reachable(x) => Reachable(x)'

LEMMA StillOwedIs ==
  ASSUME TypeOK
  PROVE  /\ StillOwed \in [Session -> SUBSET User]
         /\ \A x \in Session : \A u \in StillOwed[x] :
              u \in owed[x] /\ (Keeps(x) \/ ~UnderWay(u, UserOf[x]))
<1>1. owed \in [Session -> SUBSET User]
  BY DEF TypeOK
<1>2. ASSUME NEW x \in Session
      PROVE  /\ StillOwed[x] \subseteq owed[x]
             /\ \A u \in StillOwed[x] : Keeps(x) \/ ~UnderWay(u, UserOf[x])
  BY DEF StillOwed, Keeps
<1> QED BY <1>1, <1>2 DEF StillOwed

(* Every step keeps the types.                                             *)
LEMMA TypeStep == ASSUME TypeOK, Placed, Open, Next PROVE Types'
<1>0. Types
  BY TypesAre
<1>1. ASSUME NEW s \in Server,
             GetFriendApplyInfo(s) \/ GetFriendList(s) \/ SetUserIp(s) \/ SetUserSession(s)
      PROVE  Types'
  <2>1. /\ que[s] # <<>> /\ Only(s)
        /\ UNCHANGED <<on, requests, que, applied, accepted, friend,
                       tx, late, shown, told>>
    BY <1>1, ApplyInfoDoes, FriendListDoes, SetIpDoes, BindDoes DEF Takes
  <2>2. Head(que[s]) \in Kinds /\ Head(que[s]).by \in Session /\ Head(que[s]).to \in User
    BY <2>1, HeadIs
  <2>3. /\ wk'[s].apps \subseteq User
        /\ UNCHANGED owed \/ owed' = [owed EXCEPT ![Head(que[s]).by] = wk'[s].apps]
                         \/ owed' = StillOwed
        /\ UNCHANGED failed \/ failed' = failed \cup {Head(que[s])}
    BY <1>1, <2>1, ApplyInfoDoes, FriendListDoes, SetIpDoes, BindDoes DEF Only, WkState
  <2>4. /\ UNCHANGED bound \/ bound' = [bound EXCEPT ![s][Head(que[s]).to] = Head(que[s]).by]
        /\ UNCHANGED uip \/ uip' = [uip EXCEPT ![Head(que[s]).to] = s]
    BY <1>1, ApplyInfoDoes, FriendListDoes, SetIpDoes, BindDoes
  <2>5. owed' \in [Session -> SUBSET User] /\ failed' \subseteq Kinds
    BY <1>0, <2>2, <2>3, StillOwedIs DEF Types
  <2>6. bound' \in [Server -> [User -> Session \cup {None}]]
    <3>1. bound \in [Server -> [User -> Session \cup {None}]]
      BY <1>0 DEF Types
    <3> DEFINE f == [bound[s] EXCEPT ![Head(que[s]).to] = Head(que[s]).by]
    <3>2. f \in [User -> Session \cup {None}]
      BY <2>2, <3>1
    <3>3. UNCHANGED bound \/ bound' = [bound EXCEPT ![s] = f]
      BY <2>4
    <3> HIDE DEF f
    <3> QED BY <3>1, <3>2, <3>3
  <2>7. uip' \in [User -> Server \cup {None}]
    BY <1>0, <2>2, <2>4 DEF Types
  <2> QED BY <1>0, <2>1, <2>5, <2>6, <2>7 DEF Types, Only
<1>2. ASSUME NEW s \in Server, InsertApply(s) \/ UpdateStatus(s) PROVE Types'
  <2>1. /\ que[s] # <<>> /\ Only(s)
        /\ UNCHANGED <<on, requests, que, bound, uip, friend, tx, late, shown, told>>
        /\ UNCHANGED failed \/ failed' = failed \cup {Head(que[s])}
    BY <1>2, InsertApplyDoes, StatusDoes DEF Takes
  <2>2. Head(que[s]) \in Kinds /\ From(Head(que[s])) \in User /\ Head(que[s]).to \in User
    BY <2>1, HeadIs
  <2>3. /\ applied' \in Seq(User \X User) /\ accepted' \subseteq ToSet(applied')
        /\ owed' \in [Session -> SUBSET User]
    <3>1. CASE InsertApply(s)
      BY <1>0, <2>2, <3>1, InsertApplyDoes, StoreDoes DEF Types
    <3>2. CASE UpdateStatus(s)
      BY <1>0, <3>2, StatusDoes DEF Types
    <3> QED BY <1>2, <3>1, <3>2
  <2>4. failed' \subseteq Kinds
    BY <1>0, <2>1, <2>2 DEF Types
  <2> QED BY <1>0, <2>1, <2>3, <2>4 DEF Types, Only
<1>3. ASSUME NEW s \in Server,
             \/ Commit(s) \/ Rollback(s)
             \/ \E place \in {"row1", "row2"} : InsertRow(s, place)
      PROVE  Types'
  <2>1. /\ que[s] # <<>> /\ Only(s)
        /\ UNCHANGED <<on, requests, que, bound, uip, applied, accepted, late,
                       shown, told, owed>>
        /\ UNCHANGED failed \/ failed' = failed \cup {Head(que[s])}
        /\ UNCHANGED friend \/ friend' = friend \cup tx[s]
    BY <1>3, InsertRowDoes, CommitDoes, RollbackDoes DEF Takes
  <2>2. Head(que[s]) \in Kinds /\ From(Head(que[s])) \in User /\ Head(que[s]).to \in User
    BY <2>1, HeadIs
  <2>3. friend' \subseteq User \X User /\ failed' \subseteq Kinds
    BY <1>0, <2>1, <2>2 DEF Types
  <2>4. \E place : tx' = [tx EXCEPT ![s] = @ \cup ({RowOf(s, place)} \ friend)] \/ tx' = [tx EXCEPT ![s] = {}]
    BY <1>3, InsertRowDoes, CommitDoes, RollbackDoes
  <2>5. \A place : RowOf(s, place) \in User \X User
    BY <2>2 DEF RowOf
  <2>6. tx' \in [Server -> SUBSET (User \X User)]
    <3>1. tx \in [Server -> SUBSET (User \X User)]
      BY <1>0 DEF Types
    <3>2. PICK place : tx' = [tx EXCEPT ![s] = @ \cup ({RowOf(s, place)} \ friend)]
                       \/ tx' = [tx EXCEPT ![s] = {}]
      BY <2>4
    <3>3. tx[s] \cup ({RowOf(s, place)} \ friend) \in SUBSET (User \X User)
      BY <2>5, <3>1
    <3> QED BY <3>1, <3>2, <3>3
  <2> QED BY <1>0, <2>1, <2>3, <2>6 DEF Types, Only
<1>4. ASSUME NEW s \in Server, Route(s) \/ NotifyHere(s) \/ NotifyThere(s) \/ RpcFail(s)
      PROVE  Types'
  <2>1. /\ que[s] # <<>> /\ Only(s)
        /\ UNCHANGED <<on, requests, que, bound, uip, applied, accepted, friend,
                       tx, owed>>
    BY <1>4, RouteDoes, NotifiesDoes, RpcFailDoes
  <2>2. Head(que[s]) \in Kinds
    BY <2>1, HeadIs
  <2>3. shown' \in [Session -> SUBSET User] /\ told' \in [Session -> SUBSET User]
    <3>1. CASE NotifyHere(s) \/ NotifyThere(s)
      BY <2>2, <3>1, NotifiesDoes, NotifyDoes
    <3>2. CASE Route(s) \/ RpcFail(s)
      BY <1>0, <3>2, RouteDoes, RpcFailDoes DEF Types
    <3> QED BY <1>4, <3>1, <3>2
  <2>4. late' \subseteq [at : Server, req : Kinds] /\ failed' \subseteq Kinds
    BY <1>0, <1>4, <2>2, RouteDoes, NotifiesDoes, RpcFailDoes DEF Types
  <2> QED BY <1>0, <2>1, <2>3, <2>4 DEF Types, Only
<1>5. ASSUME NEW s \in Server, Respond(s) PROVE Types'
  <2>1. /\ que[s] # <<>> /\ Only(s) /\ que' = [que EXCEPT ![s] = Tail(@)]
        /\ on' = on \/ on' = [on EXCEPT ![Head(que[s]).by] = "ready"]
        /\ shown' \in [Session -> SUBSET User] /\ told' \in [Session -> SUBSET User]
        /\ UNCHANGED <<requests, bound, uip, applied, accepted, friend, tx, late,
                       failed, owed>>
    BY <1>5, RespondDoes
  <2>2. que' \in [Server -> Seq(Kinds)] /\ on' \in [Session -> {"no", "on", "ready", "gone"}]
    BY <1>0, <2>1, QueueShrinks DEF Types
  <2> QED BY <1>0, <2>1, <2>2 DEF Types, Only
<1>6. ASSUME NEW x \in Session, Connect(x) PROVE Types'
  <2>1. que' \in [Server -> Seq(Kinds)]
    BY <1>6, ConnectDoes, QueueGrows
  <2>2. on' \in [Session -> {"no", "on", "ready", "gone"}]
    BY <1>0, <1>6, ConnectDoes DEF Types
  <2> QED BY <1>0, <1>6, <2>1, <2>2, ConnectDoes DEF Types
<1>7. ASSUME NEW x \in Session, NEW v \in User, Apply(x, v) \/ Accept(x, v) PROVE Types'
  <2>1. que' \in [Server -> Seq(Kinds)]
    BY <1>7, AsksDoes, QueueGrows
  <2> QED BY <1>0, <1>7, <2>1, AsksDoes DEF Types
<1>8. ASSUME NEW x \in Session, Leave(x) PROVE Types'
  <2>1. /\ on' = [on EXCEPT ![x] = "gone"]
        /\ bound' = [bound EXCEPT ![Home[x]][UserOf[x]] = None]
        /\ shown' = [shown EXCEPT ![x] = {}] /\ told' = [told EXCEPT ![x] = {}]
        /\ owed' = [StillOwed EXCEPT ![x] = {}]
        /\ UNCHANGED <<requests, que, wk, uip, applied, accepted, friend, tx, late, failed>>
    BY <1>8 DEF Leave, tables
  <2>2. /\ on' \in [Session -> {"no", "on", "ready", "gone"}]
        /\ shown' \in [Session -> SUBSET User] /\ told' \in [Session -> SUBSET User]
    BY <1>0, <2>1 DEF Types
  <2>3. bound' \in [Server -> [User -> Session \cup {None}]]
    BY <1>0, <2>1, SessionsAssumption DEF Types
  <2>4. owed' \in [Session -> SUBSET User]
    BY <2>1, StillOwedIs
  <2> QED BY <1>0, <2>1, <2>2, <2>3, <2>4 DEF Types
<1>9. ASSUME NEW c \in late, LateNotify(c) PROVE Types'
  <2>1. c.at \in Server /\ c.req \in Kinds
    BY <1>0 DEF Types
  <2>2. shown' \in [Session -> SUBSET User] /\ told' \in [Session -> SUBSET User]
    BY <1>9, <2>1, NotifyDoes DEF LateNotify
  <2> QED BY <1>0, <1>9, <2>2 DEF LateNotify, Types, client, tables
<1>10. ASSUME NEW s \in Server, Worker(s) PROVE Types'
  BY <1>1, <1>2, <1>3, <1>4, <1>5, <1>10 DEF Worker
<1> QED BY <1>6, <1>7, <1>8, <1>9, <1>10 DEF Next

-----------------------------------------------------------------------------
(* The logins that are queued.                                             *)
LEMMA OnceStep == ASSUME TypeOK, Placed, Once, Next PROVE Once'
<1>0. on \in [Session -> {"no", "on", "ready", "gone"}] /\ \A t \in Server : Len(que[t]) \in Nat
  BY DEF TypeOK
<1>1. ASSUME UNCHANGED <<que, on>> PROVE Once'
  BY <1>1 DEF Once
<1>2. ASSUME NEW y \in Session, Connect(y) PROVE Once'
  <2>0. PICK s \in Server : s = Home[y]
    BY <1>2, ConnectDoes
  <2>1. PICK r \in Kinds : /\ IsLogin(r, y) /\ r.to = UserOf[y]
                          /\ que' = [que EXCEPT ![s] = Append(@, r)]
    BY <1>2, <2>0, ConnectDoes
  <2>2. on[y] = "no" /\ on' = [on EXCEPT ![y] = "on"]
    BY <1>2, ConnectDoes
  <2>3. on'[y] = "on" /\ \A x \in Session \ {y} : on'[x] = on[x]
    BY <1>0, <2>2
  <2>4. \A t \in Server : \A i \in 1..Len(que[t]) : ~IsLogin(que[t][i], y)
    BY <2>2 DEF Once
  <2>5. SUFFICES ASSUME NEW t \in Server, NEW x \in Session, NEW i \in 1..Len(que'[t]),
                        IsLogin(que'[t][i], x)
                 PROVE  /\ Home[x] = t /\ on'[x] = "on" /\ que'[t][i].to = UserOf[x]
                        /\ \A j \in 1..Len(que'[t]) : IsLogin(que'[t][j], x) => j = i
    BY DEF Once
  <2>6. CASE t # s
    <3>1. que'[t] = que[t]
      BY <2>1, <2>6, QueueGrows
    <3>2. x # y
      BY <2>4, <2>5, <3>1
    <3> QED BY <2>3, <2>5, <3>1, <3>2 DEF Once
  <2>7. CASE t = s
    <3>1. /\ Len(que[t]) \in Nat /\ Len(que'[t]) = Len(que[t]) + 1
          /\ \A j \in 1..Len(que[t]) : que'[t][j] = que[t][j]
          /\ que'[t][Len(que[t]) + 1] = r
      BY <2>1, <2>7, QueueGrows
    <3>2. \A j \in 1..Len(que'[t]) : j \in 1..Len(que[t]) \/ j = Len(que[t]) + 1
      BY <3>1
    <3>3. CASE i \in 1..Len(que[t])
      <4>1. IsLogin(que[t][i], x) /\ x # y /\ que'[t][i] = que[t][i]
        BY <2>4, <2>5, <3>1, <3>3
      <4>2. ~IsLogin(r, x)
        BY <2>1, <4>1 DEF IsLogin
      <4>3. /\ Home[x] = t /\ on[x] = "on" /\ que[t][i].to = UserOf[x]
            /\ \A j \in 1..Len(que[t]) : IsLogin(que[t][j], x) => j = i
        BY <3>3, <4>1 DEF Once
      <4> QED BY <2>3, <3>1, <3>2, <4>1, <4>2, <4>3
    <3>4. CASE i = Len(que[t]) + 1
      <4>1. x = y
        BY <2>1, <2>5, <3>1, <3>4 DEF IsLogin
      <4>2. \A j \in 1..Len(que'[t]) : IsLogin(que'[t][j], x) => j = i
        BY <2>4, <3>1, <3>2, <3>4, <4>1
      <4> QED BY <2>0, <2>1, <2>3, <2>7, <3>1, <3>4, <4>1, <4>2
    <3> QED BY <3>2, <3>3, <3>4
  <2> QED BY <2>6, <2>7
<1>3. ASSUME NEW y \in Session, NEW w \in User, Apply(y, w) \/ Accept(y, w) PROVE Once'
  <2>1. PICK s \in Server, r \in Kinds :
          r.type # "login" /\ que' = [que EXCEPT ![s] = Append(@, r)]
    BY <1>3, AsksDoes
  <2>2. UNCHANGED on
    BY <1>3, AsksDoes
  <2>3. \A t \in Server : \A i \in 1..Len(que'[t]), x \in Session :
          IsLogin(que'[t][i], x) =>
            i \in 1..Len(que[t]) /\ IsLogin(que[t][i], x) /\ que'[t][i] = que[t][i]
    <3>1. /\ Len(que[s]) \in Nat /\ Len(que'[s]) = Len(que[s]) + 1
          /\ \A j \in 1..Len(que[s]) : que'[s][j] = que[s][j]
          /\ que'[s][Len(que[s]) + 1] = r
          /\ \A t \in Server \ {s} : que'[t] = que[t]
      BY <2>1, QueueGrows
    <3>2. \A x : ~IsLogin(r, x)
      BY <2>1 DEF IsLogin
    <3>3. \A j \in 1..Len(que'[s]) : j \in 1..Len(que[s]) \/ j = Len(que[s]) + 1
      BY <3>1
    <3> QED BY <3>1, <3>2, <3>3
  <2> QED BY <2>2, <2>3 DEF Once
<1>4. ASSUME NEW y \in Session, Leave(y) PROVE Once'
  <2>1. on[y] = "ready" /\ on' = [on EXCEPT ![y] = "gone"] /\ UNCHANGED que
    BY <1>4 DEF Leave
  <2>2. \A x \in Session : on[x] = "on" => on'[x] = "on"
    BY <1>0, <2>1
  <2> QED BY <2>1, <2>2 DEF Once
<1>5. ASSUME NEW s \in Server, Respond(s) PROVE Once'
  <2>1. /\ que[s] # <<>> /\ que' = [que EXCEPT ![s] = Tail(@)]
        /\ on' = on \/ (/\ IsLogin(Head(que[s]), Head(que[s]).by)
                        /\ on' = [on EXCEPT ![Head(que[s]).by] = "ready"])
    BY <1>5, RespondDoes DEF IsLogin
  <2>2. /\ Len(que[s]) \in Nat \ {0} /\ Len(que'[s]) = Len(que[s]) - 1
        /\ \A i \in 1..Len(que'[s]) : i + 1 \in 1..Len(que[s]) /\ que'[s][i] = que[s][i + 1]
        /\ \A t \in Server \ {s} : que'[t] = que[t]
    BY <2>1, QueueShrinks
  <2>3. Head(que[s]) = que[s][1] /\ Head(que[s]).by \in Session /\ 1 \in 1..Len(que[s])
    BY <2>1, <2>2, HeadIs
  <2>4. \A x \in Session : ~IsLogin(Head(que[s]), x) => on'[x] = on[x]
    BY <1>0, <2>1, <2>3
  <2>5. SUFFICES ASSUME NEW t \in Server, NEW x \in Session, NEW i \in 1..Len(que'[t]),
                        IsLogin(que'[t][i], x)
                 PROVE  /\ Home[x] = t /\ on'[x] = "on" /\ que'[t][i].to = UserOf[x]
                        /\ \A j \in 1..Len(que'[t]) : IsLogin(que'[t][j], x) => j = i
    BY DEF Once
  <2>6. CASE t # s
    <3>1. que'[t] = que[t]
      BY <2>2, <2>6
    <3>2. /\ Home[x] = t /\ on[x] = "on" /\ que'[t][i].to = UserOf[x]
          /\ \A j \in 1..Len(que'[t]) : IsLogin(que'[t][j], x) => j = i
      BY <2>5, <3>1 DEF Once
    <3>3. IsLogin(Head(que[s]), x) => Home[x] = s
      BY <2>3 DEF Once
    <3> QED BY <2>4, <2>6, <3>2, <3>3
  <2>7. CASE t = s
    <3>1. i \in Nat /\ i + 1 \in 1..Len(que[s]) /\ IsLogin(que[s][i + 1], x)
          /\ que'[s][i] = que[s][i + 1]
      BY <2>2, <2>5, <2>7
    <3>2. /\ Home[x] = s /\ on[x] = "on" /\ que[s][i + 1].to = UserOf[x]
          /\ \A j \in 1..Len(que[s]) : IsLogin(que[s][j], x) => j = i + 1
      BY <3>1 DEF Once
    <3>3. i + 1 # 1
      BY <2>7
    <3>4. ~IsLogin(Head(que[s]), x)
      BY <2>3, <3>2, <3>3
    <3>5. on'[x] = "on"
      BY <2>4, <3>2, <3>4
    <3>6. ASSUME NEW j \in 1..Len(que'[s]), IsLogin(que'[s][j], x) PROVE j = i
      <4>1. j + 1 \in 1..Len(que[s]) /\ IsLogin(que[s][j + 1], x)
        BY <2>2, <3>6
      <4>2. j + 1 = i + 1
        BY <3>2, <4>1
      <4> QED BY <2>7, <4>2
    <3> QED BY <2>7, <3>1, <3>2, <3>5, <3>6
  <2> QED BY <2>6, <2>7
<1>6. ASSUME NEW s \in Server, Worker(s), ~Respond(s) PROVE UNCHANGED <<que, on>>
  <2>1. CASE \/ GetFriendApplyInfo(s) \/ GetFriendList(s) \/ SetUserIp(s) \/ SetUserSession(s)
             \/ InsertApply(s) \/ UpdateStatus(s)
    BY <2>1, ApplyInfoDoes, FriendListDoes, SetIpDoes, BindDoes, InsertApplyDoes, StatusDoes
  <2>2. CASE Commit(s) \/ Rollback(s) \/ \E place \in {"row1", "row2"} : InsertRow(s, place)
    BY <2>2, InsertRowDoes, CommitDoes, RollbackDoes
  <2>3. CASE Route(s) \/ NotifyHere(s) \/ NotifyThere(s) \/ RpcFail(s)
    BY <2>3, RouteDoes, NotifiesDoes, RpcFailDoes
  <2> QED BY <1>6, <2>1, <2>2, <2>3 DEF Worker
<1>7. ASSUME NEW c \in late, LateNotify(c) PROVE UNCHANGED <<que, on>>
  BY <1>7 DEF LateNotify, client
<1> QED BY <1>1, <1>2, <1>3, <1>4, <1>5, <1>6, <1>7 DEF Next

-----------------------------------------------------------------------------
(* A login is being handled on the server that its session is connected    *)
(* to, for the user it logs in as.                                         *)
LEMMA HandledHere ==
  ASSUME TypeOK, Placed, Once, NEW s \in Server, NEW x \in Session, Handling(s, x)
  PROVE  Home[x] = s /\ on[x] = "on" /\ Head(que[s]).to = UserOf[x]
<1>1. que[s] # <<>>
  BY DEF Handling, Placed, PlacedAt
<1>2. Head(que[s]) = que[s][1] /\ 1 \in 1..Len(que[s])
  BY <1>1, HeadIs
<1> QED BY <1>2 DEF Handling, Once

(* Every step keeps the sessions that UserMgr has: only a login binds one, *)
(* its own, and the end of a session removes it.                           *)
LEMMA BoundStep == ASSUME TypeOK, Placed, Once, Bound, Next PROVE Bound'
<1>0. /\ on \in [Session -> {"no", "on", "ready", "gone"}] /\ None \notin Session
      /\ bound \in [Server -> [User -> Session \cup {None}]]
      /\ \A x \in Session : Home[x] \in Server /\ UserOf[x] \in User
  BY NoneAssumption, SessionsAssumption DEF TypeOK
<1>1. ASSUME UNCHANGED bound,
             \A x \in Session : on[x] \in {"on", "ready"} => on'[x] \in {"on", "ready"}
      PROVE  Bound'
  BY <1>1 DEF Bound
<1>2. ASSUME NEW s \in Server, SetUserSession(s) PROVE Bound'
  <2>0. PICK y \in Session : y = Head(que[s]).by
    BY <1>2, BindDoes, HeadIs DEF Takes
  <2>1. Handling(s, y) /\ UNCHANGED on /\ bound' = [bound EXCEPT ![s][Head(que[s]).to] = y]
    BY <1>2, <2>0, BindDoes DEF Takes, Handling, IsLogin
  <2>2. Home[y] = s /\ on[y] = "on" /\ bound' = [bound EXCEPT ![s][UserOf[y]] = y]
    BY <2>1, HandledHere
  <2>3. \A t \in Server, v \in User : bound'[t][v] = bound[t][v] \/ (t = s /\ v = UserOf[y] /\ bound'[t][v] = y)
    BY <1>0, <2>2
  <2> QED BY <2>1, <2>2, <2>3 DEF Bound
<1>3. ASSUME NEW y \in Session, Leave(y) PROVE Bound'
  <2>1. on' = [on EXCEPT ![y] = "gone"] /\ bound' = [bound EXCEPT ![Home[y]][UserOf[y]] = None]
    BY <1>3 DEF Leave
  <2>2. \A t \in Server, v \in User :
          bound'[t][v] = (IF t = Home[y] /\ v = UserOf[y] THEN None ELSE bound[t][v])
    BY <1>0, <2>1
  <2>3. \A t \in Server, v \in User : bound'[t][v] # y
    BY <1>0, <2>2 DEF Bound
  <2>4. \A x \in Session \ {y} : on'[x] = on[x]
    BY <1>0, <2>1
  <2>5. ASSUME NEW t \in Server, NEW v \in User, NEW x \in Session, bound'[t][v] = x
        PROVE  Home[x] = t /\ UserOf[x] = v /\ on'[x] \in {"on", "ready"}
    <3>1. x # y /\ bound[t][v] = x
      BY <1>0, <2>2, <2>3, <2>5
    <3> QED BY <2>4, <3>1 DEF Bound
  <2> QED BY <2>5 DEF Bound
<1>4. ASSUME NEW y \in Session, Connect(y) PROVE Bound'
  BY <1>0, <1>1, <1>4, ConnectDoes
<1>5. ASSUME NEW s \in Server, Respond(s) PROVE Bound'
  <2>1. /\ UNCHANGED bound /\ Head(que[s]).by \in Session
        /\ on' = on \/ on' = [on EXCEPT ![Head(que[s]).by] = "ready"]
    BY <1>5, RespondDoes, HeadIs
  <2> QED BY <1>0, <1>1, <2>1
<1>6. ASSUME NEW s \in Server, Worker(s), ~SetUserSession(s), ~Respond(s) PROVE UNCHANGED <<on, bound>>
  <2>1. CASE GetFriendApplyInfo(s) \/ GetFriendList(s) \/ SetUserIp(s) \/ InsertApply(s) \/ UpdateStatus(s)
    BY <2>1, ApplyInfoDoes, FriendListDoes, SetIpDoes, InsertApplyDoes, StatusDoes
  <2>2. CASE Commit(s) \/ Rollback(s) \/ \E place \in {"row1", "row2"} : InsertRow(s, place)
    BY <2>2, InsertRowDoes, CommitDoes, RollbackDoes
  <2>3. CASE Route(s) \/ NotifyHere(s) \/ NotifyThere(s) \/ RpcFail(s)
    BY <2>3, RouteDoes, NotifiesDoes, RpcFailDoes
  <2> QED BY <1>6, <2>1, <2>2, <2>3 DEF Worker
<1>7. ASSUME NEW y \in Session, NEW v \in User, Apply(y, v) \/ Accept(y, v) PROVE UNCHANGED <<on, bound>>
  BY <1>7, AsksDoes
<1>8. ASSUME NEW c \in late, LateNotify(c) PROVE UNCHANGED <<on, bound>>
  BY <1>8 DEF LateNotify, client
<1> QED BY <1>1, <1>2, <1>3, <1>4, <1>5, <1>6, <1>7, <1>8 DEF Next

-----------------------------------------------------------------------------
(* What a server does for an applicant that is owed goes on, or is done.   *)
Done(u, x) == u \in shown'[x] \/ ApplyFailed(u, UserOf[x])'

Passes(t, u, x) ==
  /\ Answering(t, u, x) => Done(u, x) \/ Answering(t, u, x)'
  /\ Reachable(x) /\ Notifying(t, u, x) => Done(u, x) \/ Notifying(t, u, x)'

(* A failure is remembered.                                                *)
LEMMA FailuresStay ==
  ASSUME NEW u, NEW v, failed \subseteq failed', ApplyFailed(u, v)
  PROVE  ApplyFailed(u, v)'
  BY DEF ApplyFailed, From

(* A worker that is left alone still has what it had for a session.        *)
LEMMA SamePasses ==
  ASSUME NEW t \in Server, NEW u, NEW x \in Session, Same(t)
  PROVE  Passes(t, u, x)
<1>1. Answering(t, u, x) => Answering(t, u, x)'
  BY DEF Answering, Handling, Same
<1>2. Notifying(t, u, x) => Notifying(t, u, x)'
  BY DEF Notifying, From, Same
<1> QED BY <1>1, <1>2 DEF Passes

(* What is being notified to a session is under way to its user.           *)
LEMMA NotifyingIs ==
  ASSUME NEW s \in Server, NEW u, NEW x \in Session, Notifying(s, u, x)
  PROVE  UnderWay(u, UserOf[x])
  BY DEF Notifying, UnderWay

(* What every worker passes on, or keeps, is still on its way or has       *)
(* arrived.                                                                *)
LEMMA OwedStays ==
  ASSUME NEW u, NEW x \in Session, OwedTo(u, x), \A t \in Server : Passes(t, u, x),
         shown[x] \subseteq shown'[x], failed \subseteq failed',
         Keeps(x) \/ ~UnderWay(u, UserOf[x])
  PROVE  OwedTo(u, x)'
<1>1. CASE u \in shown[x] \/ ApplyFailed(u, UserOf[x])
  BY <1>1, FailuresStay DEF OwedTo
<1>2. CASE \E t \in Server : Answering(t, u, x)
  BY <1>2 DEF OwedTo, Passes, Done
<1>3. CASE Reachable(x) /\ \E t \in Server : Notifying(t, u, x)
  <2>1. Reachable(x)'
    BY <1>3, NotifyingIs DEF Keeps
  <2> QED BY <1>3, <2>1 DEF OwedTo, Passes, Done
<1> QED BY <1>1, <1>2, <1>3 DEF OwedTo

(* A worker's step leaves what the other workers do for the applicant.     *)
LEMMA OwedElsewhere ==
  ASSUME TypeOK, Placed, NEW s \in Server, Worker(s), failed \subseteq failed',
         NEW u, NEW x \in Session, OwedTo(u, x), Passes(s, u, x),
         shown[x] \subseteq shown'[x], Keeps(x) \/ ~UnderWay(u, UserOf[x])
  PROVE  OwedTo(u, x)'
<1>1. \A t \in Server : Passes(t, u, x)
  BY OthersSame, SamePasses
<1> QED BY <1>1, OwedStays

(* A step at a place where there is nothing to notify keeps the answer.    *)
LEMMA AnswerPasses ==
  ASSUME NEW s \in Server, NEW u, NEW x \in Session, UNCHANGED que,
         wk[s].pc \notin {"route", "here", "there"}, wk'[s].pc # "idle",
         Handling(s, x) => wk[s].apps \subseteq wk'[s].apps
  PROVE  Passes(s, u, x)
  BY DEF Passes, Handling, Answering, Notifying

(* Every step keeps the debts: an applicant owed to a session is on its    *)
(* way, shown, or has failed.                                              *)
LEMMA OwingStep == ASSUME TypeOK, Placed, Bound, Owing, Next PROVE Owing'
<1>0. /\ None \notin Server /\ owed \in [Session -> SUBSET User]
      /\ \A x \in Session : Home[x] \in Server /\ UserOf[x] \in User
  BY NoneAssumption, SessionsAssumption DEF TypeOK
<1>1. ASSUME NEW s \in Server, GetFriendApplyInfo(s) PROVE Owing'
  <2>0. PICK y \in Session : y = Head(que[s]).by
    BY <1>1, ApplyInfoDoes, HeadIs DEF Takes
  <2>1. /\ wk[s].pc = "idle" /\ wk'[s].pc = "friends"
        /\ que[s] # <<>> /\ Head(que[s]).type = "login"
        /\ owed' = [owed EXCEPT ![y] = wk'[s].apps] \/ UNCHANGED owed
        /\ failed \subseteq failed' /\ UNCHANGED <<que, bound, uip, shown>>
    BY <1>1, <2>0, ApplyInfoDoes DEF Takes
  <2>2. Handling(s, y)'
    BY <2>0, <2>1 DEF Handling, IsLogin
  <2>3. ASSUME NEW x \in Session, NEW u \in owed[x] PROVE OwedTo(u, x)'
    <3>1. OwedTo(u, x) /\ Keeps(x)
      BY <2>1 DEF Owing, Keeps, Reachable
    <3>2. Passes(s, u, x)
      BY <2>1, AnswerPasses DEF Handling
    <3> QED BY <1>1, <2>1, <3>1, <3>2, OwedElsewhere DEF Worker
  <2>4. ASSUME NEW u \in wk'[s].apps PROVE OwedTo(u, y)'
    BY <2>2, <2>4 DEF OwedTo, Answering
  <2>5. ASSUME NEW x \in Session, NEW u \in owed'[x] PROVE OwedTo(u, x)'
    <3>1. u \in owed[x] \/ (x = y /\ u \in wk'[s].apps)
      BY <1>0, <2>1, <2>5
    <3> QED BY <2>3, <2>4, <3>1
  <2> QED BY <2>5 DEF Owing
<1>2. ASSUME NEW s \in Server, InsertApply(s) PROVE Owing'
  <2>0. PICK a \in User, b \in User : a = From(Head(que[s])) /\ b = Head(que[s]).to
    BY <1>2, InsertApplyDoes, HeadIs DEF Takes
  <2>1. /\ wk[s].pc = "idle" /\ wk'[s].pc = "route"
        /\ que[s] # <<>> /\ Head(que[s]).type = "apply"
        /\ Store(<<a, b>>) \/ UNCHANGED owed
        /\ failed \subseteq failed' /\ UNCHANGED <<que, bound, uip, shown>>
    BY <1>2, <2>0, InsertApplyDoes DEF Takes
  <2>2. \A x \in Session : \A u \in owed'[x] :
          u \in owed[x] \/ (u = a /\ b = UserOf[x] /\ Reachable(x))
    BY <2>1, StoreDoes
  <2>3. ASSUME NEW x \in Session, NEW u \in owed[x] PROVE OwedTo(u, x)'
    <3>1. OwedTo(u, x) /\ Keeps(x)
      BY <2>1 DEF Owing, Keeps, Reachable
    <3>2. Passes(s, u, x)
      BY <2>1, AnswerPasses DEF Handling
    <3> QED BY <1>2, <2>1, <3>1, <3>2, OwedElsewhere DEF Worker
  <2>4. ASSUME NEW x \in Session, b = UserOf[x], Reachable(x) PROVE OwedTo(a, x)'
    <3>1. Reachable(x)'
      BY <2>1, <2>4 DEF Reachable
    <3>2. Notifying(s, a, x)'
      BY <2>0, <2>1, <2>4 DEF Notifying, From
    <3> QED BY <3>1, <3>2 DEF OwedTo
  <2> QED BY <2>2, <2>3, <2>4 DEF Owing
<1>3. ASSUME NEW s \in Server,
             \/ GetFriendList(s) \/ SetUserIp(s) \/ SetUserSession(s) \/ UpdateStatus(s)
             \/ Commit(s) \/ Rollback(s)
             \/ \E place \in {"row1", "row2"} : InsertRow(s, place)
      PROVE  Owing'
  <2>1. /\ wk[s].pc \notin {"route", "here", "there"} /\ wk'[s].pc # "idle"
        /\ wk[s].pc # "idle" /\ Head(que[s]).type = "login" => wk'[s].apps = wk[s].apps
        /\ failed \subseteq failed' /\ UNCHANGED <<que, shown>>
    BY <1>3, FriendListDoes, SetIpDoes, BindDoes, StatusDoes, InsertRowDoes, CommitDoes, RollbackDoes
    DEF Takes, After
  <2>2. owed' = StillOwed \/ UNCHANGED <<owed, bound, uip>>
    BY <1>3, FriendListDoes, SetIpDoes, BindDoes, StatusDoes, InsertRowDoes, CommitDoes, RollbackDoes
  <2>3. ASSUME NEW x \in Session, NEW u \in owed'[x]
        PROVE  u \in owed[x] /\ (Keeps(x) \/ ~UnderWay(u, UserOf[x]))
    <3>1. CASE owed' = StillOwed
      BY <2>3, <3>1, StillOwedIs
    <3>2. CASE UNCHANGED <<owed, bound, uip>>
      BY <2>3, <3>2 DEF Keeps, Reachable
    <3> QED BY <2>2, <3>1, <3>2
  <2>4. ASSUME NEW x \in Session, NEW u \in owed'[x] PROVE OwedTo(u, x)'
    <3>1. OwedTo(u, x) /\ (Keeps(x) \/ ~UnderWay(u, UserOf[x]))
      BY <2>3 DEF Owing
    <3>2. Passes(s, u, x)
      BY <2>1, AnswerPasses DEF Handling, IsLogin
    <3>3. Worker(s)
      BY <1>3 DEF Worker
    <3> QED BY <2>1, <3>1, <3>2, <3>3, OwedElsewhere
  <2> QED BY <2>4 DEF Owing
<1>4. ASSUME NEW s \in Server, Route(s) \/ NotifyHere(s) \/ NotifyThere(s) \/ RpcFail(s)
      PROVE  Owing'
  <2>1. /\ wk[s].pc \in {"route", "here", "there"} /\ que[s] # <<>>
        /\ failed \subseteq failed' /\ UNCHANGED <<que, bound, uip, owed>>
    BY <1>4, RouteDoes, NotifiesDoes, RpcFailDoes
  <2>2. Head(que[s]) \in Kinds /\ Head(que[s]).type # "login"
    BY <2>1, HeadIs DEF Placed, PlacedAt
  <2>3. \A x \in Session : shown[x] \subseteq shown'[x]
    BY <1>4, <2>2, RouteDoes, NotifiesDoes, NotifyDoes, RpcFailDoes
  <2>4. ASSUME NEW x \in Session, NEW u \in owed[x] PROVE OwedTo(u, x)'
    <3>1. OwedTo(u, x) /\ Keeps(x)
      BY <2>1 DEF Owing, Keeps, Reachable
    <3>2. ASSUME Reachable(x), Notifying(s, u, x) PROVE Done(u, x) \/ Notifying(s, u, x)'
      <4>1. Head(que[s]).type = "apply" /\ From(Head(que[s])) = u /\ Head(que[s]).to = UserOf[x]
        BY <3>2 DEF Notifying
      <4>2. CASE failed' = failed \cup {Head(que[s])}
        BY <4>1, <4>2 DEF Done, ApplyFailed, From
      <4>3. CASE Route(s)
        <5>1. uip[UserOf[x]] = Home[x] /\ Home[x] \in Server /\ Home[x] # None
          BY <1>0, <3>2 DEF Reachable
        <5>2. CASE /\ wk'[s].pc = (IF uip[UserOf[x]] = None THEN "rsp"
                                 ELSE IF uip[UserOf[x]] = s THEN "here" ELSE "there")
                   /\ wk'[s].peer = uip[UserOf[x]]
          <6>1. wk'[s].peer = Home[x] /\ wk'[s].pc = (IF Home[x] = s THEN "here" ELSE "there")
            BY <5>1, <5>2
          <6> QED BY <2>1, <4>1, <6>1 DEF Notifying, From
        <5> QED BY <4>1, <4>2, <4>3, <5>2, RouteDoes
      <4>4. CASE NotifyHere(s) \/ NotifyThere(s)
        <5>1. PICK t \in Server :
                /\ (wk[s].pc = "here" /\ t = s) \/ (wk[s].pc = "there" /\ t = wk[s].peer)
                /\ Notify(t, Head(que[s]))
          BY <4>4, NotifiesDoes
        <5>2. Home[x] = t /\ bound[t][UserOf[x]] = x
          BY <3>2, <5>1 DEF Notifying, Reachable
        <5>3. x \in Hearing(t, Head(que[s]).to)
          BY <1>0, <4>1, <5>2 DEF Hearing, Bound
        <5>4. u \in shown'[x]
          BY <2>2, <4>1, <5>1, <5>3, NotifyDoes
        <5> QED BY <5>4 DEF Done
      <4>5. CASE RpcFail(s)
        BY <4>2, <4>5, RpcFailDoes
      <4> QED BY <1>4, <4>3, <4>4, <4>5
    <3>3. Passes(s, u, x)
      BY <2>2, <3>2 DEF Passes, Handling, Answering, IsLogin
    <3> QED BY <1>4, <2>1, <2>3, <3>1, <3>3, OwedElsewhere DEF Worker
  <2> QED BY <2>1, <2>4 DEF Owing
<1>5. ASSUME NEW s \in Server, Respond(s) PROVE Owing'
  <2> DEFINE r == Head(que[s])
  <2>1. /\ wk[s].pc = "rsp" /\ UNCHANGED <<bound, uip, owed, failed>>
        /\ \A x \in Session : shown[x] \subseteq shown'[x]
        /\ r.type = "login" => wk[s].apps \subseteq shown'[r.by]
    BY <1>5, RespondDoes
  <2>2. ASSUME NEW x \in Session, NEW u \in owed[x] PROVE OwedTo(u, x)'
    <3>1. OwedTo(u, x) /\ Keeps(x)
      BY <2>1 DEF Owing, Keeps, Reachable
    <3>2. Passes(s, u, x)
      BY <2>1 DEF Passes, Done, Handling, Answering, Notifying, IsLogin
    <3> QED BY <1>5, <2>1, <3>1, <3>2, OwedElsewhere DEF Worker
  <2> QED BY <2>1, <2>2 DEF Owing
<1>6. ASSUME NEW s \in Server, Worker(s) PROVE Owing'
  BY <1>1, <1>2, <1>3, <1>4, <1>5, <1>6 DEF Worker
<1>7. ASSUME \A t \in Server : Same(t), failed \subseteq failed',
             \A x \in Session : \A u \in owed'[x] :
               /\ u \in owed[x] /\ shown[x] \subseteq shown'[x]
               /\ Keeps(x) \/ ~UnderWay(u, UserOf[x])
      PROVE  Owing'
  <2> SUFFICES ASSUME NEW x \in Session, NEW u \in owed'[x] PROVE OwedTo(u, x)'
    BY DEF Owing
  <2>1. OwedTo(u, x)
    BY <1>7 DEF Owing
  <2>2. \A t \in Server : Passes(t, u, x)
    BY <1>7, SamePasses
  <2> QED BY <1>7, <2>1, <2>2, OwedStays
<1>8. ASSUME \A t \in Server : Same(t), UNCHANGED <<bound, uip, failed, owed>>,
             \A x \in Session : shown[x] \subseteq shown'[x]
      PROVE  Owing'
  BY <1>7, <1>8 DEF Keeps, Reachable
<1>9. ASSUME NEW y \in Session, Connect(y) PROVE Owing'
  <2>1. UNCHANGED <<bound, uip, shown, failed, owed>>
    BY <1>9, ConnectDoes
  <2> QED BY <1>8, <1>9, <2>1, ClientsSame
<1>10. ASSUME NEW y \in Session, Leave(y) PROVE Owing'
  <2>1. /\ UNCHANGED failed /\ shown' = [shown EXCEPT ![y] = {}]
        /\ owed' = [StillOwed EXCEPT ![y] = {}]
    BY <1>10 DEF Leave
  <2>2. shown \in [Session -> SUBSET User] /\ StillOwed \in [Session -> SUBSET User]
    BY StillOwedIs DEF TypeOK
  <2>3. owed'[y] = {} /\ \A x \in Session \ {y} : owed'[x] = StillOwed[x] /\ shown'[x] = shown[x]
    BY <2>1, <2>2
  <2>4. \A t \in Server : Same(t)
    BY <1>10, ClientsSame
  <2> QED BY <1>7, <2>1, <2>3, <2>4, StillOwedIs
<1>11. ASSUME NEW y \in Session, NEW w \in User, Apply(y, w) \/ Accept(y, w) PROVE Owing'
  <2>1. UNCHANGED <<bound, uip, shown, failed, owed>>
    BY <1>11, AsksDoes
  <2> QED BY <1>8, <1>11, <2>1, ClientsSame
<1>12. ASSUME NEW c \in late, LateNotify(c) PROVE Owing'
  <2>1. UNCHANGED <<bound, uip, failed, owed>>
    BY <1>12 DEF LateNotify
  <2>2. c.at \in Server /\ c.req \in Kinds
    BY DEF TypeOK
  <2>3. \A x \in Session : shown[x] \subseteq shown'[x]
    BY <1>12, <2>2, NotifyDoes DEF LateNotify
  <2> QED BY <1>8, <1>12, <2>1, <2>3, ClientsSame
<1> QED BY <1>6, <1>9, <1>10, <1>11, <1>12 DEF Next

-----------------------------------------------------------------------------
(* The inductive invariant.                                                *)
LEMMA InitIInv == Init => IInv
<1> SUFFICES ASSUME Init PROVE IInv
  OBVIOUS
<1> USE DEF Init
<1>1. <<>> \in Seq(Kinds) /\ Len(<<>>) = 0
  OBVIOUS
<1>2. Idle \in WkState /\ Idle.pc = "idle"
  BY DEF Idle, WkState, Place
<1>3. \A s \in Server : wk[s].pc = "idle" /\ que[s] = <<>> /\ tx[s] = {}
  BY <1>2
<1>4. Types
  BY <1>1, <1>2, StoredAssumption, BoundsAssumption DEF Types
<1>5. Placed /\ Open /\ Mutual
  BY <1>3 DEF Placed, PlacedAt, Open, OpenAt, Mutual
<1>6. Once
  BY <1>1, <1>3 DEF Once
<1>7. Bound /\ Owing
  BY NoneAssumption DEF Bound, Owing
<1> QED BY <1>4, <1>5, <1>6, <1>7, AreTypes DEF IInv

(* Every step keeps it.                                                    *)
LEMMA NextIInv == IInv /\ [Next]_vars => IInv'
<1> SUFFICES ASSUME IInv, [Next]_vars PROVE IInv'
  OBVIOUS
<1>0. TypeOK /\ Placed /\ Open /\ Mutual /\ Once /\ Bound /\ Owing
  BY DEF IInv
<1>1. CASE Next
  <2>1. Types' /\ Placed' /\ Open' /\ Mutual'
    BY <1>0, <1>1, TypeStep, PlacedStep, OpenStep, MutualStep
  <2>2. Once' /\ Bound' /\ Owing'
    BY <1>0, <1>1, OnceStep, BoundStep, OwingStep
  <2>3. TypeOK'
    BY <2>1 DEF TypeOK, Types, WkState, Place, Open, OpenAt
  <2> QED BY <2>1, <2>2, <2>3 DEF IInv
<1>2. CASE UNCHANGED vars
  <2> USE <1>2 DEF vars, client, tables, known
  <2>1. TypeOK' /\ Mutual' /\ Once'
    BY <1>0 DEF TypeOK, Mutual, Once
  <2>2. Placed' /\ Open'
    BY <1>0 DEF Placed, PlacedAt, Open, OpenAt, RowOf, From
  <2>3. Bound'
    BY <1>0 DEF Bound
  <2>4. Owing'
    BY <1>0 DEF Owing, OwedTo, Answering, Notifying, Reachable, Handling, ApplyFailed, From
  <2> QED BY <2>1, <2>2, <2>3, <2>4 DEF IInv
<1> QED BY <1>1, <1>2

(* The inductive invariant holds throughout.                               *)
THEOREM Inductive == SafeSpec => []IInv
BY InitIInv, NextIInv, PTL DEF SafeSpec

-----------------------------------------------------------------------------
(* Friendship is mutual in what the database shows: both rows are inserted *)
(* in one transaction, which deadlocks and failures end as a whole.        *)
THEOREM MutualFriends == SafeSpec => []FriendsAreMutual
<1>1. IInv => FriendsAreMutual
  BY DEF IInv, Mutual, FriendsAreMutual
<1> QED BY <1>1, Inductive, PTL

(* A session that is logged in misses no application that was stored       *)
(* before its login read the list, or while it could be found: it can only *)
(* be found when it is bound on the server that Redis has, an application  *)
(* is stored before its receiver is looked up, and a failure on that way   *)
(* is one of that application.                                             *)
THEOREM NoneMissed == SafeSpec => []NoApplicationMissed
<1>1. IInv => NoApplicationMissed
  <2> SUFFICES ASSUME IInv, NEW x \in Session, NEW u \in owed[x], on[x] = "ready"
               PROVE  u \in shown[x] \/ UnderWay(u, UserOf[x]) \/ ApplyFailed(u, UserOf[x])
    BY DEF NoApplicationMissed
  <2>1. OwedTo(u, x)
    BY DEF IInv, Owing
  <2>2. \A s \in Server : ~Answering(s, u, x)
    BY HandledHere DEF IInv, Answering
  <2> QED BY <2>1, <2>2, NotifyingIs DEF OwedTo
<1> QED BY <1>1, Inductive, PTL
=============================================================================
