----------------------------- MODULE GateProofs -----------------------------
(***************************************************************************)
(* Theorems about Accounts, for any number of requests, emails and names:  *)
(* uids are unique, equal names and emails come from concurrent requests   *)
(* only, what a client is told is stored, an old password is refused, and  *)
(* the gate implements the abstract table of users.  And about HttpConn,   *)
(* for any number of connections: the gate keeps listening.                *)
(***************************************************************************)
EXTENDS Accounts, HttpConn, SequenceTheorems, FiniteSetTheorems, TLAPS

Registering == {"email", "name", "update", "select", "insert", "commit"}
Locking == {"select", "insert", "commit"}
Places == Registering \cup {"idle", "check", "set_pwd", "pwd", "done"}
Req == [pc : Places, email : Email \cup {None}, name : Name \cup {None},
        pwd : Pwd \cup {None}, snap : Nat, uid : Nat, before : SUBSET Request,
        ans : {"none", "ok", "error"}]

(* Where a request is, and who has the counter locked: a request past its  *)
(* UPDATE, which has read the next uid.                                    *)
PlaceInv(r) ==
  /\ req[r].pc # "done" => req[r].ans = "none"
  /\ req[r].pc \in Registering => Kind[r] = "register"
  /\ req[r].pc \in {"check", "set_pwd"} => Kind[r] = "reset"
  /\ req[r].pc = "pwd" => Kind[r] = "login"
  /\ req[r].pc \notin {"idle", "done"}
       => req[r].email \in Email /\ req[r].name \in Name /\ req[r].pwd \in Pwd
  /\ lock = r <=> req[r].pc \in Locking
  /\ req[r].pc \in {"insert", "commit"} => req[r].uid = userId + 1

(* What a request has seen: its email and its name are not in the rows of  *)
(* its snapshot.                                                           *)
SeenInv(r) ==
  /\ req[r].snap <= Len(user)
  /\ req[r].pc \in {"idle", "check"} => req[r].snap = 0
  /\ req[r].pc \in Registering \ {"email"}
       => \A i \in 1..Len(user) : i <= req[r].snap => user[i].email # req[r].email
  /\ req[r].pc \in Registering \ {"email", "name"}
       => \A i \in 1..Len(user) : i <= req[r].snap => user[i].name # req[r].name

(* What a request is answered, or will be, is in the table.                *)
StoredInv(r) ==
  /\ Kind[r] = "register" /\ req[r].ans = "ok"
       => \E i \in 1..Len(user) : /\ user[i].email = req[r].email
                                  /\ user[i].name = req[r].name
                                  /\ user[i].uid = req[r].uid
  /\ /\ req[r].pc = "set_pwd" \/ (Kind[r] = "reset" /\ req[r].ans = "ok")
     /\ \E i \in 1..Len(user) : user[i].name = req[r].name /\ i <= req[r].snap
     => \E i \in 1..Len(user) : /\ user[i].email = req[r].email
                                /\ user[i].name = req[r].name

ReqInv(r) == PlaceInv(r) /\ SeenInv(r) /\ StoredInv(r)

IInv == UidsUnique /\ SameOnlyIfConcurrent /\ \A r \in Request : ReqInv(r)

(* No row goes away or changes, but for its password.                      *)
Grows ==
  /\ Len(user) <= Len(user')
  /\ \A i \in 1..Len(user) : /\ user'[i].uid = user[i].uid /\ user'[i].snap = user[i].snap
                             /\ user'[i].name = user[i].name
                             /\ user'[i].email = user[i].email

-----------------------------------------------------------------------------
(* What the invariant says of types.                                       *)
LEMMA Types ==
  ASSUME IInv
  PROVE  /\ TypeOK /\ req \in [Request -> Req]
         /\ user \in Seq(Row) /\ Len(user) \in Nat /\ DOMAIN user = 1..Len(user)
         /\ \A i \in 1..Len(user) : user[i] \in Row
         /\ userId \in Nat /\ lock \in Request \cup {None}
<1>1. TypeOK
  BY DEF IInv, UidsUnique
<1>2. req \in [Request -> Req] /\ user \in Seq(Row) /\ userId \in Nat
      /\ lock \in Request \cup {None}
  BY <1>1 DEF TypeOK, Req, Places, Registering
<1> QED BY <1>1, <1>2, LenProperties, ElementOfSeq

(* What a step that replaces the record of one request does.               *)
LEMMA Replaced ==
  ASSUME IInv, NEW r \in Request, NEW x \in Req, req' = [req EXCEPT ![r] = x]
  PROVE  /\ req' \in [Request -> Req] /\ req'[r] = x
         /\ \A q \in Request \ {r} : req'[q] = req[q]
  BY Types

(* The other requests: their rows are still there, and nobody else's step  *)
(* moves the counter that they have locked.                                *)
LEMMA Others ==
  ASSUME IInv, NEW q \in Request, req'[q] = req[q], Grows, user' \in Seq(Row),
         lock' = q <=> lock = q, lock = q => userId' = userId
  PROVE  ReqInv(q)'
<1>1. PlaceInv(q) /\ SeenInv(q) /\ StoredInv(q) /\ Len(user) \in Nat /\ Len(user') \in Nat
  BY Types, LenProperties DEF IInv, ReqInv
<1>2. PlaceInv(q)'
  BY <1>1 DEF PlaceInv, Locking
<1>3. req[q].snap \in Nat
  BY Types DEF Req
<1>4. \A i \in 1..Len(user') : i <= req[q].snap =>
        i \in 1..Len(user) /\ user'[i].name = user[i].name /\ user'[i].email = user[i].email
  BY <1>1, <1>3 DEF Grows, SeenInv
<1>5. SeenInv(q)'
  BY <1>1, <1>3, <1>4 DEF SeenInv, Grows
<1>6. \A i \in 1..Len(user) :
        /\ i \in 1..Len(user') /\ user'[i].email = user[i].email
        /\ user'[i].name = user[i].name /\ user'[i].uid = user[i].uid
  BY <1>1 DEF Grows
<1>7. StoredInv(q)'
  BY <1>1, <1>4, <1>6 DEF StoredInv
<1> QED BY <1>2, <1>5, <1>7 DEF ReqInv

(* A step of one request: what is left to show is about that request, and  *)
(* about the rows.                                                         *)
LEMMA Step ==
  ASSUME IInv, NEW r \in Request,
         req' \in [Request -> Req], \A q \in Request \ {r} : req'[q] = req[q],
         user' \in Seq(Row), Grows, userId' \in Nat, lock' \in Request \cup {None},
         \A q \in Request \ {r} : /\ lock' = q <=> lock = q
                                  /\ lock = q => userId' = userId,
         \A i, j \in 1..Len(user') : user'[i].uid = user'[j].uid => i = j,
         \A i \in 1..Len(user') : user'[i].uid \in 1..userId',
         \A i, j \in 1..Len(user') :
           i < j /\ (user'[i].email = user'[j].email \/ user'[i].name = user'[j].name)
             => user'[j].snap < i,
         ReqInv(r)'
  PROVE  IInv'
<1>1. \A q \in Request : ReqInv(q)'
  BY Others
<1>2. DOMAIN user' = 1..Len(user')
  BY LenProperties
<1>3. \A q \in Request : lock' = q => req'[q].pc \in Locking
  BY <1>1 DEF ReqInv, PlaceInv
<1>4. TypeOK'
  BY <1>3 DEF TypeOK, Req, Places, Registering, Locking
<1>5. UidsUnique'
  BY <1>2, <1>4 DEF UidsUnique
<1>6. SameOnlyIfConcurrent'
  BY <1>2 DEF SameOnlyIfConcurrent
<1> QED BY <1>1, <1>5, <1>6 DEF IInv

(* A step that leaves the rows and the counter alone: what is left is      *)
(* about the request.                                                      *)
LEMMA ReadStep ==
  ASSUME IInv, NEW r \in Request,
         req' \in [Request -> Req], \A q \in Request \ {r} : req'[q] = req[q],
         UNCHANGED <<user, userId>>, lock' \in Request \cup {None},
         \A q \in Request \ {r} : lock' = q <=> lock = q,
         ReqInv(r)'
  PROVE  IInv'
<1>1. Grows
  BY Types DEF Grows
<1>2. /\ \A i, j \in 1..Len(user') : user'[i].uid = user'[j].uid => i = j
      /\ \A i \in 1..Len(user') : user'[i].uid \in 1..userId'
      /\ \A i, j \in 1..Len(user') :
           i < j /\ (user'[i].email = user'[j].email \/ user'[i].name = user'[j].name)
             => user'[j].snap < i
  BY Types DEF IInv, UidsUnique, SameOnlyIfConcurrent
<1>3. user' \in Seq(Row) /\ userId' \in Nat
  BY Types
<1> QED BY <1>1, <1>2, <1>3, Step

-----------------------------------------------------------------------------
(* A request that is refused is at its end and was told of nothing.        *)
LEMMA RefuseStep ==
  ASSUME IInv, NEW r \in Request, Refuse(r), UNCHANGED <<user, userId>>, lock' = Unlock(r)
  PROVE  IInv'
<1> DEFINE x == [Idle EXCEPT !.pc = "done", !.ans = "error"]
<1>1. x \in Req /\ x.pc = "done" /\ x.ans = "error" /\ x.snap = 0
  BY DEF Idle, Req, Places
<1>2. req' = [req EXCEPT ![r] = x]
  BY DEF Refuse
<1> HIDE DEF x
<1>3. /\ req' \in [Request -> Req] /\ req'[r] = x
      /\ \A q \in Request \ {r} : req'[q] = req[q]
  BY <1>1, <1>2, Replaced
<1>4. /\ lock' \in Request \cup {None} /\ lock' # r
      /\ \A q \in Request \ {r} : lock' = q <=> lock = q
  BY Types, NoneAssumption DEF Unlock
<1>5. PlaceInv(r)'
  BY <1>1, <1>3, <1>4 DEF PlaceInv, Registering, Locking
<1>6. SeenInv(r)'
  BY <1>1, <1>3, Types DEF SeenInv, Registering
<1>7. StoredInv(r)'
  BY <1>1, <1>3 DEF StoredInv
<1> QED BY <1>3, <1>4, <1>5, <1>6, <1>7, ReadStep DEF ReqInv

(* The same of a request that has not locked the counter.                  *)
LEMMA RefuseReads ==
  ASSUME IInv, NEW r \in Request, Refuse(r), UNCHANGED mysql, req[r].pc \notin Locking
  PROVE  IInv'
<1>1. lock # r
  BY DEF IInv, ReqInv, PlaceInv
<1> QED BY <1>1, RefuseStep DEF mysql, Unlock

(* A request that is answered at once.                                     *)
LEMMA ErrorJsonIInv ==
  ASSUME IInv, NEW r \in Request, ErrorJson(r)
  PROVE  IInv'
  BY RefuseReads DEF ErrorJson, At, Locking

(* A request begins: it has looked at nothing.                             *)
LEMMA StartIInv ==
  ASSUME IInv, NEW r \in Request, NEW ask \in MayAsk[r], NEW p \in {"email", "check", "pwd"},
         Start(r, ask, p),
         p = "email" => Kind[r] = "register", p = "check" => Kind[r] = "reset",
         p = "pwd" => Kind[r] = "login"
  PROVE  IInv'
<1> DEFINE b == {q \in Request : Kind[q] = "reset" /\ req[q].ans = "ok"}
           x == [req[r] EXCEPT !.pc = p, !.email = ask.email, !.name = ask.name,
                               !.pwd = ask.pwd, !.before = b]
<1>1. At(r, "idle") /\ UNCHANGED <<user, userId, lock>> /\ req' = [req EXCEPT ![r] = x]
  BY DEF Start, mysql
<1>2. ask.email \in Email /\ ask.name \in Name /\ ask.pwd \in Pwd
  BY MayAskAssumption DEF Ask
<1>3. b \subseteq Request
  OBVIOUS
<1> HIDE DEF b
<1>0. req[r] \in Req /\ Len(user) \in Nat
  BY Types
<1>4. /\ x \in Req /\ x.pc = p /\ x.email = ask.email /\ x.name = ask.name /\ x.pwd = ask.pwd
      /\ x.snap = req[r].snap /\ x.ans = req[r].ans
  BY <1>2, <1>3, <1>0 DEF Req, Places, Registering
<1> HIDE DEF x
<1>5. /\ req' \in [Request -> Req] /\ req'[r] = x
      /\ \A q \in Request \ {r} : req'[q] = req[q]
  BY <1>1, <1>4, Replaced
<1>6. /\ req[r].snap = 0 /\ req[r].ans = "none" /\ lock # r
  BY <1>1 DEF IInv, ReqInv, PlaceInv, SeenInv, At, Locking
<1>7. PlaceInv(r)'
  BY <1>1, <1>2, <1>4, <1>5, <1>6 DEF PlaceInv, Registering, Locking
<1>8. SeenInv(r)'
  BY <1>1, <1>4, <1>5, <1>6, Types DEF SeenInv, Registering
<1>9. StoredInv(r)'
  BY <1>4, <1>5, <1>6 DEF StoredInv
<1> QED BY <1>1, <1>5, <1>7, <1>8, <1>9, Types, ReadStep DEF ReqInv

(* A request goes on to a place with the same right to the counter.        *)
LEMMA GotoMoves ==
  ASSUME IInv, NEW r \in Request, NEW p \in Places, Goto(r, p)
  PROVE  /\ req' \in [Request -> Req]
         /\ \A q \in Request \ {r} : req'[q] = req[q]
         /\ req'[r].pc = p /\ req'[r].email = req[r].email /\ req'[r].name = req[r].name
         /\ req'[r].pwd = req[r].pwd /\ req'[r].snap = req[r].snap
         /\ req'[r].uid = req[r].uid /\ req'[r].ans = req[r].ans
         /\ req'[r].before = req[r].before
<1> DEFINE x == [req[r] EXCEPT !.pc = p]
<1>0. req[r] \in Req /\ Len(user) \in Nat
  BY Types
<1>1. /\ x \in Req /\ x.pc = p /\ x.email = req[r].email /\ x.name = req[r].name
      /\ x.pwd = req[r].pwd /\ x.snap = req[r].snap /\ x.uid = req[r].uid
      /\ x.ans = req[r].ans /\ x.before = req[r].before
  BY <1>0 DEF Req
<1>2. req' = [req EXCEPT ![r] = x]
  BY DEF Goto
<1> HIDE DEF x
<1> QED BY <1>1, <1>2, Replaced

(* The same of a request that takes a snapshot.                            *)
LEMMA SnapshotMoves ==
  ASSUME IInv, NEW r \in Request, NEW p \in Places, Snapshot(r, p)
  PROVE  /\ req' \in [Request -> Req]
         /\ \A q \in Request \ {r} : req'[q] = req[q]
         /\ req'[r].pc = p /\ req'[r].email = req[r].email /\ req'[r].name = req[r].name
         /\ req'[r].pwd = req[r].pwd /\ req'[r].snap = Len(user)
         /\ req'[r].uid = req[r].uid /\ req'[r].ans = req[r].ans
         /\ req'[r].before = req[r].before
<1> DEFINE x == [req[r] EXCEPT !.pc = p, !.snap = Len(user)]
<1>0. req[r] \in Req /\ Len(user) \in Nat
  BY Types
<1>1. /\ x \in Req /\ x.pc = p /\ x.email = req[r].email /\ x.name = req[r].name
      /\ x.pwd = req[r].pwd /\ x.snap = Len(user) /\ x.uid = req[r].uid
      /\ x.ans = req[r].ans /\ x.before = req[r].before
  BY <1>0 DEF Req
<1>2. req' = [req EXCEPT ![r] = x]
  BY DEF Snapshot
<1> HIDE DEF x
<1> QED BY <1>1, <1>2, Replaced

(* The same of a request that succeeds.                                    *)
LEMMA SucceedMoves ==
  ASSUME IInv, NEW r \in Request, Succeed(r)
  PROVE  /\ req' \in [Request -> Req]
         /\ \A q \in Request \ {r} : req'[q] = req[q]
         /\ req'[r].pc = "done" /\ req'[r].email = req[r].email /\ req'[r].name = req[r].name
         /\ req'[r].snap = req[r].snap /\ req'[r].uid = req[r].uid /\ req'[r].ans = "ok"
         /\ req'[r].pwd = req[r].pwd /\ req'[r].before = req[r].before
<1> DEFINE x == [req[r] EXCEPT !.pc = "done", !.ans = "ok"]
<1>0. req[r] \in Req /\ Len(user) \in Nat
  BY Types
<1>1. /\ x \in Req /\ x.pc = "done" /\ x.email = req[r].email /\ x.name = req[r].name
      /\ x.snap = req[r].snap /\ x.uid = req[r].uid /\ x.ans = "ok"
      /\ x.pwd = req[r].pwd /\ x.before = req[r].before
  BY <1>0 DEF Req, Places
<1>2. req' = [req EXCEPT ![r] = x]
  BY DEF Succeed
<1> HIDE DEF x
<1> QED BY <1>1, <1>2, Replaced

-----------------------------------------------------------------------------
(* The SELECT of the email: no row of the snapshot has it.                 *)
LEMMA SelectEmailIInv ==
  ASSUME IInv, NEW r \in Request, SelectEmail(r)
  PROVE  IInv'
<1>1. At(r, "email") /\ UNCHANGED <<user, userId, lock>> /\ UNCHANGED mysql
  BY DEF SelectEmail, mysql
<1>2. CASE Rows(r) # {}
  BY <1>1, <1>2, RefuseReads DEF SelectEmail, At, Locking
<1>3. CASE Rows(r) = {}
  <2>1. Snapshot(r, "name")
    BY <1>3 DEF SelectEmail
  <2>2. /\ req' \in [Request -> Req]
        /\ \A q \in Request \ {r} : req'[q] = req[q]
        /\ req'[r].pc = "name" /\ req'[r].email = req[r].email /\ req'[r].name = req[r].name
        /\ req'[r].pwd = req[r].pwd /\ req'[r].snap = Len(user)
        /\ req'[r].uid = req[r].uid /\ req'[r].ans = req[r].ans
    BY <2>1, SnapshotMoves DEF Places, Registering
  <2>3. \A i \in 1..Len(user) : user[i].email # req[r].email
    BY <1>3, Types DEF Rows
  <2>4. ReqInv(r)
    BY DEF IInv
  <2>5. PlaceInv(r)'
    BY <1>1, <2>2, <2>4 DEF ReqInv, PlaceInv, At, Registering, Locking
  <2>6. SeenInv(r)'
    BY <1>1, <2>2, <2>3, Types DEF SeenInv, Registering
  <2>7. StoredInv(r)'
    BY <1>1, <2>2, <2>5 DEF PlaceInv, StoredInv
  <2> QED BY <1>1, <2>2, <2>5, <2>6, <2>7, Types, ReadStep DEF ReqInv
<1> QED BY <1>2, <1>3

(* The SELECT of the name sees the snapshot of the first.                  *)
LEMMA SelectNameIInv ==
  ASSUME IInv, NEW r \in Request, SelectName(r)
  PROVE  IInv'
<1>1. At(r, "name") /\ UNCHANGED <<user, userId, lock>> /\ UNCHANGED mysql
  BY DEF SelectName, mysql
<1>2. CASE \E i \in Named(r) : i <= req[r].snap
  BY <1>1, <1>2, RefuseReads DEF SelectName, At, Locking
<1>3. CASE ~\E i \in Named(r) : i <= req[r].snap
  <2>1. Goto(r, "update")
    BY <1>3 DEF SelectName
  <2>2. /\ req' \in [Request -> Req]
        /\ \A q \in Request \ {r} : req'[q] = req[q]
        /\ req'[r].pc = "update" /\ req'[r].email = req[r].email /\ req'[r].name = req[r].name
        /\ req'[r].pwd = req[r].pwd /\ req'[r].snap = req[r].snap
        /\ req'[r].uid = req[r].uid /\ req'[r].ans = req[r].ans
    BY <2>1, GotoMoves DEF Places, Registering
  <2>3. \A i \in 1..Len(user) : i <= req[r].snap => user[i].name # req[r].name
    BY <1>3, Types DEF Named
  <2>4. ReqInv(r)
    BY DEF IInv
  <2>5. PlaceInv(r)'
    BY <1>1, <2>2, <2>4 DEF ReqInv, PlaceInv, At, Registering, Locking
  <2>6. SeenInv(r)'
    BY <1>1, <2>2, <2>3, <2>4 DEF ReqInv, SeenInv, At, Registering
  <2>7. StoredInv(r)'
    BY <1>1, <2>2, <2>5 DEF PlaceInv, StoredInv
  <2> QED BY <1>1, <2>2, <2>5, <2>6, <2>7, Types, ReadStep DEF ReqInv
<1> QED BY <1>2, <1>3

(* The UPDATE locks the counter, which nobody has.                         *)
LEMMA UpdateIdIInv ==
  ASSUME IInv, NEW r \in Request, UpdateId(r)
  PROVE  IInv'
<1>1. At(r, "update") /\ lock = None /\ lock' = r /\ Goto(r, "select")
      /\ UNCHANGED <<user, userId>>
  BY DEF UpdateId
<1>2. /\ req' \in [Request -> Req]
      /\ \A q \in Request \ {r} : req'[q] = req[q]
      /\ req'[r].pc = "select" /\ req'[r].email = req[r].email /\ req'[r].name = req[r].name
      /\ req'[r].pwd = req[r].pwd /\ req'[r].snap = req[r].snap
      /\ req'[r].uid = req[r].uid /\ req'[r].ans = req[r].ans
  BY <1>1, GotoMoves DEF Places, Registering
<1>3. ReqInv(r)
  BY DEF IInv
<1>4. \A q \in Request \ {r} : lock' = q <=> lock = q
  BY <1>1, NoneAssumption
<1>5. PlaceInv(r)'
  BY <1>1, <1>2, <1>3 DEF ReqInv, PlaceInv, At, Registering, Locking
<1>6. SeenInv(r)'
  BY <1>1, <1>2, <1>3 DEF ReqInv, SeenInv, At, Registering
<1>7. StoredInv(r)'
  BY <1>1, <1>2, <1>5 DEF PlaceInv, StoredInv
<1> QED BY <1>1, <1>2, <1>4, <1>5, <1>6, <1>7, ReadStep DEF ReqInv

(* The SELECT of the counter sees the transaction's own update.            *)
LEMMA SelectIdIInv ==
  ASSUME IInv, NEW r \in Request, SelectId(r)
  PROVE  IInv'
<1> DEFINE id == IF lock = r THEN userId + 1 ELSE userId
           x == [req[r] EXCEPT !.pc = "insert", !.uid = id]
<1>1. At(r, "select") /\ UNCHANGED <<user, userId, lock>> /\ req' = [req EXCEPT ![r] = x]
  BY DEF SelectId, mysql
<1>2. ReqInv(r)
  BY DEF IInv
<1>3. id = userId + 1 /\ id \in Nat
  BY <1>1, <1>2, Types DEF ReqInv, PlaceInv, At, Locking
<1> HIDE DEF id
<1>0. req[r] \in Req /\ Len(user) \in Nat
  BY Types
<1>4. /\ x \in Req /\ x.pc = "insert" /\ x.uid = id /\ x.email = req[r].email
      /\ x.name = req[r].name /\ x.pwd = req[r].pwd /\ x.snap = req[r].snap
      /\ x.ans = req[r].ans
  BY <1>3, <1>0 DEF Req, Places, Registering
<1> HIDE DEF x
<1>5. /\ req' \in [Request -> Req] /\ req'[r] = x
      /\ \A q \in Request \ {r} : req'[q] = req[q]
  BY <1>1, <1>4, Replaced
<1>6. PlaceInv(r)'
  BY <1>1, <1>2, <1>3, <1>4, <1>5 DEF ReqInv, PlaceInv, At, Registering, Locking
<1>7. SeenInv(r)'
  BY <1>1, <1>2, <1>4, <1>5 DEF ReqInv, SeenInv, At, Registering
<1>8. StoredInv(r)'
  BY <1>1, <1>4, <1>5, <1>6 DEF PlaceInv, StoredInv
<1> QED BY <1>1, <1>5, <1>6, <1>7, <1>8, Types, ReadStep DEF ReqInv

(* The INSERT is the transaction's own.                                    *)
LEMMA InsertIInv ==
  ASSUME IInv, NEW r \in Request, Insert(r)
  PROVE  IInv'
<1>1. At(r, "insert") /\ Goto(r, "commit") /\ UNCHANGED <<user, userId, lock>>
  BY DEF Insert, mysql
<1>2. /\ req' \in [Request -> Req]
      /\ \A q \in Request \ {r} : req'[q] = req[q]
      /\ req'[r].pc = "commit" /\ req'[r].email = req[r].email /\ req'[r].name = req[r].name
      /\ req'[r].pwd = req[r].pwd /\ req'[r].snap = req[r].snap
      /\ req'[r].uid = req[r].uid /\ req'[r].ans = req[r].ans
  BY <1>1, GotoMoves DEF Places, Registering
<1>3. ReqInv(r)
  BY DEF IInv
<1>4. PlaceInv(r)'
  BY <1>1, <1>2, <1>3 DEF ReqInv, PlaceInv, At, Registering, Locking
<1>5. SeenInv(r)'
  BY <1>1, <1>2, <1>3 DEF ReqInv, SeenInv, At, Registering
<1>6. StoredInv(r)'
  BY <1>1, <1>2, <1>4 DEF PlaceInv, StoredInv
<1> QED BY <1>1, <1>2, <1>4, <1>5, <1>6, Types, ReadStep DEF ReqInv

-----------------------------------------------------------------------------
(* The commit: the new row has the uid after the last, and the rows it     *)
(* shares its email or name with are not of its snapshot.                  *)
LEMMA CommitRowAdds ==
  ASSUME IInv, NEW r \in Request, At(r, "commit"), CommitRow(r)
  PROVE  /\ user' \in Seq(Row) /\ Len(user') = Len(user) + 1 /\ Grows
         /\ user'[Len(user) + 1] = NewRow(r)
         /\ userId' \in Nat /\ lock' = None
         /\ \A q \in Request \ {r} : /\ lock' = q <=> lock = q
                                     /\ lock = q => userId' = userId
         /\ \A i, j \in 1..Len(user') : user'[i].uid = user'[j].uid => i = j
         /\ \A i \in 1..Len(user') : user'[i].uid \in 1..userId'
         /\ \A i, j \in 1..Len(user') :
              i < j /\ (user'[i].email = user'[j].email \/ user'[i].name = user'[j].name)
                => user'[j].snap < i
<1> DEFINE n == Len(user)
           new == NewRow(r)
<1>1. PlaceInv(r) /\ SeenInv(r) /\ req[r] \in Req /\ n \in Nat
  BY Types DEF IInv, ReqInv
<1>2. /\ lock = r /\ req[r].uid = userId + 1
      /\ req[r].email \in Email /\ req[r].name \in Name /\ req[r].pwd \in Pwd
  BY <1>1 DEF PlaceInv, At, Locking
<1>3. new \in Row
  BY <1>1, <1>2 DEF NewRow, Row, Req
<1>4. /\ new.uid = userId + 1 /\ new.email = req[r].email /\ new.name = req[r].name
      /\ new.snap = req[r].snap /\ new.snap \in Nat
  BY <1>1, <1>2 DEF NewRow, Req
<1>5. user' = Append(user, new) /\ userId' = userId + 1 /\ lock' = None
  BY <1>2 DEF CommitRow, Unlock
<1>6. \A i \in 1..n : /\ i <= new.snap => user[i].email # new.email /\ user[i].name # new.name
                      /\ user[i].uid \in 1..userId /\ user[i] \in Row
  BY <1>1, <1>4, Types DEF SeenInv, At, Registering, IInv, UidsUnique
<1>7. /\ \A i, j \in 1..n : user[i].uid = user[j].uid => i = j
      /\ \A i, j \in 1..n :
           i < j /\ (user[i].email = user[j].email \/ user[i].name = user[j].name)
             => user[j].snap < i
  BY Types DEF IInv, UidsUnique, SameOnlyIfConcurrent
<1> HIDE DEF new
<1>8. /\ user' \in Seq(Row) /\ Len(user') = n + 1 /\ user'[n + 1] = new
      /\ \A i \in 1..n : user'[i] = user[i]
  BY <1>3, <1>5, Types
<1>9. Grows
  BY <1>1, <1>8 DEF Grows
<1>10. userId \in Nat /\ userId' \in Nat
  BY <1>5, Types
<1>11. \A i \in 1..(n + 1) : i \in 1..n \/ i = n + 1
  BY <1>1
<1>12. \A q \in Request \ {r} : lock' # q /\ lock # q
  BY <1>2, <1>5, NoneAssumption
<1>13. \A i \in 1..(n + 1) : user'[i].uid \in 1..userId'
  BY <1>4, <1>5, <1>6, <1>8, <1>10, <1>11
<1>14. ASSUME NEW i \in 1..(n + 1), NEW j \in 1..(n + 1), user'[i].uid = user'[j].uid
       PROVE  i = j
  BY <1>4, <1>6, <1>7, <1>8, <1>10, <1>11, <1>14, SMTT(30)
<1>15. ASSUME NEW i \in 1..(n + 1), NEW j \in 1..(n + 1), i < j,
              user'[i].email = user'[j].email \/ user'[i].name = user'[j].name
       PROVE  user'[j].snap < i
  <2>1. i \in 1..n
    BY <1>1, <1>15
  <2>2. CASE j \in 1..n
    BY <1>7, <1>8, <1>15, <2>1, <2>2
  <2>3. CASE j = n + 1
    <3>1. ~(i <= new.snap)
      BY <1>6, <1>8, <1>15, <2>1, <2>3
    <3> QED BY <1>1, <1>4, <1>8, <2>1, <2>3, <3>1
  <2> QED BY <1>11, <2>2, <2>3
<1>16. user'[n + 1] = NewRow(r)
  BY <1>8 DEF new
<1> HIDE DEF n
<1>17. n = Len(user)
  BY DEF n
<1> QED BY <1>5, <1>8, <1>9, <1>10, <1>12, <1>13, <1>14, <1>15, <1>16, <1>17

(* The commit stores what the answer says.                                 *)
LEMMA CommitIInv ==
  ASSUME IInv, NEW r \in Request, Commit(r)
  PROVE  IInv'
<1>1. At(r, "commit") /\ CommitRow(r) /\ Succeed(r)
  BY DEF Commit
<1>2. /\ req' \in [Request -> Req]
      /\ \A q \in Request \ {r} : req'[q] = req[q]
      /\ req'[r].pc = "done" /\ req'[r].email = req[r].email /\ req'[r].name = req[r].name
      /\ req'[r].snap = req[r].snap /\ req'[r].uid = req[r].uid /\ req'[r].ans = "ok"
  BY <1>1, SucceedMoves
<1>3. PlaceInv(r) /\ SeenInv(r) /\ Len(user) \in Nat /\ req[r].snap \in Nat
  BY Types DEF IInv, ReqInv, Req
<1>4. /\ Len(user') = Len(user) + 1 /\ user'[Len(user) + 1] = NewRow(r) /\ lock' = None
  BY <1>1, CommitRowAdds
<1>5. PlaceInv(r)'
  BY <1>2, <1>4, NoneAssumption DEF PlaceInv, Registering, Locking
<1>6. SeenInv(r)'
  BY <1>2, <1>3, <1>4 DEF SeenInv, Registering
<1>7. StoredInv(r)'
  <2>1. Kind[r] = "register"
    BY <1>1, <1>3 DEF PlaceInv, At, Registering
  <2>2. Len(user) + 1 \in 1..Len(user')
    BY <1>3, <1>4
  <2>3. /\ user'[Len(user) + 1].email = req'[r].email
        /\ user'[Len(user) + 1].name = req'[r].name
        /\ user'[Len(user) + 1].uid = req'[r].uid
    BY <1>2, <1>4 DEF NewRow
  <2> QED BY <1>2, <2>1, <2>2, <2>3 DEF StoredInv
<1>8. ReqInv(r)'
  BY <1>5, <1>6, <1>7 DEF ReqInv
<1>9. lock' \in Request \cup {None}
  BY <1>4
<1> QED BY <1>1, <1>2, <1>8, <1>9, CommitRowAdds, Step

(* The row is there although the client is told it is not.                 *)
LEMMA CommitAnswerLostIInv ==
  ASSUME IInv, NEW r \in Request, CommitAnswerLost(r)
  PROVE  IInv'
<1> DEFINE x == [Idle EXCEPT !.pc = "done", !.ans = "error"]
<1>1. At(r, "commit") /\ CommitRow(r) /\ req' = [req EXCEPT ![r] = x]
  BY DEF CommitAnswerLost, Refuse
<1>2. x \in Req /\ x.pc = "done" /\ x.ans = "error" /\ x.snap = 0
  BY DEF Idle, Req, Places
<1> HIDE DEF x
<1>3. /\ req' \in [Request -> Req] /\ req'[r] = x
      /\ \A q \in Request \ {r} : req'[q] = req[q]
  BY <1>1, <1>2, Replaced
<1>4. Len(user') = Len(user) + 1 /\ Len(user) \in Nat /\ lock' = None
  BY <1>1, CommitRowAdds, Types
<1>5. PlaceInv(r)'
  BY <1>2, <1>3, <1>4, NoneAssumption DEF PlaceInv, Registering, Locking
<1>6. SeenInv(r)'
  BY <1>2, <1>3, <1>4 DEF SeenInv, Registering
<1>7. StoredInv(r)'
  BY <1>2, <1>3 DEF StoredInv
<1>8. ReqInv(r)'
  BY <1>5, <1>6, <1>7 DEF ReqInv
<1>9. lock' \in Request \cup {None}
  BY <1>4
<1> QED BY <1>1, <1>3, <1>8, <1>9, CommitRowAdds, Step

-----------------------------------------------------------------------------
(* CheckEmail: a name that the snapshot has, has the email too.            *)
LEMMA CheckEmailIInv ==
  ASSUME IInv, NEW r \in Request, CheckEmail(r)
  PROVE  IInv'
<1>1. At(r, "check") /\ UNCHANGED <<user, userId, lock>> /\ UNCHANGED mysql
  BY DEF CheckEmail, mysql
<1>2. PlaceInv(r) /\ SeenInv(r) /\ Len(user) \in Nat /\ DOMAIN user = 1..Len(user)
  BY Types DEF IInv, ReqInv
<1>3. CASE Named(r) = {} /\ Goto(r, "set_pwd")
  <2>1. /\ req' \in [Request -> Req]
        /\ \A q \in Request \ {r} : req'[q] = req[q]
        /\ req'[r].pc = "set_pwd" /\ req'[r].email = req[r].email /\ req'[r].name = req[r].name
        /\ req'[r].pwd = req[r].pwd /\ req'[r].snap = req[r].snap
        /\ req'[r].uid = req[r].uid /\ req'[r].ans = req[r].ans
    BY <1>3, GotoMoves DEF Places
  <2>2. PlaceInv(r)'
    BY <1>1, <1>2, <2>1 DEF PlaceInv, At, Registering, Locking
  <2>3. SeenInv(r)'
    BY <1>1, <1>2, <2>1 DEF SeenInv, At, Registering
  <2>4. StoredInv(r)'
    <3>1. \A i \in 1..Len(user) : user[i].name # req[r].name
      BY <1>2, <1>3 DEF Named
    <3> QED BY <1>1, <2>1, <2>2, <3>1 DEF StoredInv, PlaceInv
  <2> QED BY <1>1, <2>1, <2>2, <2>3, <2>4, Types, ReadStep DEF ReqInv
<1>4. ASSUME NEW k \in Named(r), user[k].email = req[r].email, Snapshot(r, "set_pwd")
      PROVE  IInv'
  <2>1. /\ req' \in [Request -> Req]
        /\ \A q \in Request \ {r} : req'[q] = req[q]
        /\ req'[r].pc = "set_pwd" /\ req'[r].email = req[r].email /\ req'[r].name = req[r].name
        /\ req'[r].pwd = req[r].pwd /\ req'[r].snap = Len(user)
        /\ req'[r].uid = req[r].uid /\ req'[r].ans = req[r].ans
    BY <1>4, SnapshotMoves DEF Places
  <2>2. PlaceInv(r)'
    BY <1>1, <1>2, <2>1 DEF PlaceInv, At, Registering, Locking
  <2>3. SeenInv(r)'
    BY <1>1, <1>2, <2>1 DEF SeenInv, Registering
  <2>4. k \in 1..Len(user) /\ user[k].name = req[r].name /\ user[k].email = req[r].email
    BY <1>2, <1>4 DEF Named
  <2>5. StoredInv(r)'
    BY <1>1, <2>1, <2>2, <2>4 DEF StoredInv, PlaceInv
  <2> QED BY <1>1, <2>1, <2>2, <2>3, <2>5, Types, ReadStep DEF ReqInv
<1>5. CASE Refuse(r)
  BY <1>1, <1>5, RefuseReads DEF At, Locking
<1> QED BY <1>3, <1>4, <1>5 DEF CheckEmail

(* The UPDATE of a password leaves the rest of every row.                  *)
LEMMA UpdatedRows ==
  ASSUME IInv, NEW r \in Request, At(r, "set_pwd"), user' = Updated(r)
  PROVE  /\ user' \in Seq(Row) /\ Len(user') = Len(user) /\ Grows
<1> DEFINE n == Len(user)
<1>1. req[r].pwd \in Pwd /\ n \in Nat /\ DOMAIN user = 1..n
  BY Types DEF IInv, ReqInv, PlaceInv, At
<1>2. \A i \in 1..n : /\ user'[i] \in Row /\ user'[i].uid = user[i].uid
                      /\ user'[i].snap = user[i].snap /\ user'[i].name = user[i].name
                      /\ user'[i].email = user[i].email
  <2> SUFFICES ASSUME NEW i \in 1..n
               PROVE  /\ user'[i] \in Row /\ user'[i].uid = user[i].uid
                      /\ user'[i].snap = user[i].snap /\ user'[i].name = user[i].name
                      /\ user'[i].email = user[i].email
    OBVIOUS
  <2>1. user[i] \in Row
    BY Types
  <2>2. user'[i] = user[i] \/ user'[i] = [user[i] EXCEPT !.pwd = req[r].pwd]
    BY <1>1 DEF Updated
  <2> QED BY <1>1, <2>1, <2>2 DEF Row
<1>3. user' \in [1..n -> Row]
  BY <1>1, <1>2 DEF Updated
<1>4. user' \in Seq(Row)
  BY <1>1, <1>3, SeqDef
<1>5. DOMAIN user' = 1..Len(user') /\ Len(user') \in Nat /\ DOMAIN user' = 1..n
  BY <1>3, <1>4, LenProperties
<1>6. Len(user') = n
  <2> HIDE DEF n
  <2> DEFINE m == Len(user')
  <2>1. m \in Nat /\ 1..m = 1..n
    BY <1>5
  <2> HIDE DEF m
  <2>2. (m # 0 => m \in 1..m) /\ (n # 0 => n \in 1..n)
    BY <1>1, <2>1
  <2>3. (m # 0 => m \in 1..n) /\ (n # 0 => n \in 1..m)
    BY <2>1, <2>2
  <2>4. m = n
    BY <1>1, <2>1, <2>3
  <2> QED BY <2>4 DEF m
<1> QED BY <1>1, <1>2, <1>4, <1>6 DEF Grows

(* The uids, names and emails after it are those before it.                *)
LEMMA UpdateStep ==
  ASSUME IInv, NEW r \in Request, At(r, "set_pwd"), user' = Updated(r),
         UNCHANGED <<userId, lock>>,
         req' \in [Request -> Req], \A q \in Request \ {r} : req'[q] = req[q],
         ReqInv(r)'
  PROVE  IInv'
<1>1. user' \in Seq(Row) /\ Len(user') = Len(user) /\ Grows
  BY UpdatedRows
<1>2. \A i \in 1..Len(user) : /\ user'[i].uid = user[i].uid /\ user'[i].snap = user[i].snap
                              /\ user'[i].name = user[i].name
                              /\ user'[i].email = user[i].email
  BY <1>1 DEF Grows
<1>3. /\ \A i, j \in 1..Len(user) : user[i].uid = user[j].uid => i = j
      /\ \A i \in 1..Len(user) : user[i].uid \in 1..userId
      /\ \A i, j \in 1..Len(user) :
           i < j /\ (user[i].email = user[j].email \/ user[i].name = user[j].name)
             => user[j].snap < i
  BY Types DEF IInv, UidsUnique, SameOnlyIfConcurrent
<1>4. \A i, j \in 1..Len(user') : user'[i].uid = user'[j].uid => i = j
  BY <1>1, <1>2, <1>3
<1>5. \A i \in 1..Len(user') : user'[i].uid \in 1..userId'
  BY <1>1, <1>2, <1>3
<1>6. ASSUME NEW i \in 1..Len(user'), NEW j \in 1..Len(user'), i < j,
             user'[i].email = user'[j].email \/ user'[i].name = user'[j].name
      PROVE  user'[j].snap < i
  <2>1. i \in 1..Len(user) /\ j \in 1..Len(user)
    BY <1>1
  <2>2. user[i].email = user[j].email \/ user[i].name = user[j].name
    BY <1>2, <1>6, <2>1
  <2>3. user[j].snap < i
    BY <1>3, <1>6, <2>1, <2>2
  <2> QED BY <1>2, <2>1, <2>3
<1>7. userId' \in Nat /\ lock' \in Request \cup {None}
  BY Types
<1> QED BY <1>1, <1>4, <1>5, <1>6, <1>7, Step

(* The UPDATE of the password: the row CheckEmail found is still there.    *)
LEMMA UpdatePwdIInv ==
  ASSUME IInv, NEW r \in Request, UpdatePwd(r)
  PROVE  IInv'
<1>1. /\ At(r, "set_pwd") /\ user' = Updated(r) /\ Succeed(r)
      /\ UNCHANGED <<userId, lock>>
  BY DEF UpdatePwd
<1>2. /\ req' \in [Request -> Req]
      /\ \A q \in Request \ {r} : req'[q] = req[q]
      /\ req'[r].pc = "done" /\ req'[r].email = req[r].email /\ req'[r].name = req[r].name
      /\ req'[r].snap = req[r].snap /\ req'[r].uid = req[r].uid /\ req'[r].ans = "ok"
  BY <1>1, SucceedMoves
<1>3. PlaceInv(r) /\ SeenInv(r) /\ StoredInv(r)
  BY DEF IInv, ReqInv
<1>4. user' \in Seq(Row) /\ Len(user') = Len(user) /\ Grows
  BY <1>1, UpdatedRows
<1>5. PlaceInv(r)'
  BY <1>1, <1>2, <1>3 DEF PlaceInv, At, Registering, Locking
<1>6. SeenInv(r)'
  BY <1>2, <1>3, <1>4 DEF SeenInv, Registering
<1>7. StoredInv(r)'
  <2>1. Kind[r] = "reset"
    BY <1>1, <1>3 DEF PlaceInv, At
  <2>2. \A i \in 1..Len(user) : user'[i].name = user[i].name /\ user'[i].email = user[i].email
    BY <1>4 DEF Grows
  <2> QED BY <1>1, <1>2, <1>3, <1>4, <2>1, <2>2 DEF StoredInv, At
<1> QED BY <1>1, <1>2, <1>5, <1>6, <1>7, UpdateStep DEF ReqInv

(* A reset that fails may have changed the passwords.                      *)
LEMMA ResetFailsIInv ==
  ASSUME IInv, NEW r \in Request, ResetFails(r)
  PROVE  IInv'
<1> DEFINE x == [req[r] EXCEPT !.pc = "done", !.ans = "error"]
<1>1. UNCHANGED <<userId, lock>> /\ req[r].pc \notin Locking /\ req[r] \in Req
  BY Types DEF ResetFails, At, Locking
<1>2. CASE Refuse(r) /\ UNCHANGED user
  BY <1>1, <1>2, RefuseReads DEF mysql
<1>3. CASE At(r, "set_pwd") /\ user' = Updated(r) /\ req' = [req EXCEPT ![r] = x]
  <2>1. x \in Req /\ x.pc = "done" /\ x.ans = "error" /\ x.snap = req[r].snap
    BY <1>1 DEF Req, Places
  <2> HIDE DEF x
  <2>2. /\ req' \in [Request -> Req] /\ req'[r] = x
        /\ \A q \in Request \ {r} : req'[q] = req[q]
    BY <1>3, <2>1, Replaced
  <2>3. lock # r /\ req[r].snap <= Len(user)
    BY <1>1 DEF IInv, ReqInv, PlaceInv, SeenInv
  <2>4. PlaceInv(r)'
    BY <1>1, <2>1, <2>2, <2>3 DEF PlaceInv, Registering, Locking
  <2>5. SeenInv(r)'
    BY <1>3, <2>1, <2>2, <2>3, Types, UpdatedRows DEF SeenInv, Registering
  <2>6. StoredInv(r)'
    BY <2>1, <2>2 DEF StoredInv
  <2> QED BY <1>1, <1>3, <2>2, <2>4, <2>5, <2>6, UpdateStep DEF ReqInv
<1> QED BY <1>2, <1>3 DEF ResetFails

(* A login reads only.                                                     *)
LEMMA CheckPwdIInv ==
  ASSUME IInv, NEW r \in Request, CheckPwd(r)
  PROVE  IInv'
<1>1. At(r, "pwd") /\ UNCHANGED <<user, userId, lock>> /\ UNCHANGED mysql
  BY DEF CheckPwd, mysql
<1>2. CASE Refuse(r)
  BY <1>1, <1>2, RefuseReads DEF At, Locking
<1>3. ASSUME NEW k \in Rows(r),
             req' = [req EXCEPT ![r] = [@ EXCEPT !.pc = "done", !.ans = "ok", !.uid = user[k].uid]]
      PROVE  IInv'
  <2> DEFINE id == user[k].uid
             x == [req[r] EXCEPT !.pc = "done", !.ans = "ok", !.uid = id]
  <2>1. id \in Nat /\ req[r] \in Req
    BY <1>3, Types DEF Rows, Row
  <2>2. req' = [req EXCEPT ![r] = x]
    BY <1>3
  <2> HIDE DEF id
  <2>3. x \in Req /\ x.pc = "done" /\ x.snap = req[r].snap
    BY <2>1 DEF Req, Places
  <2> HIDE DEF x
  <2>4. /\ req' \in [Request -> Req] /\ req'[r] = x
        /\ \A q \in Request \ {r} : req'[q] = req[q]
    BY <2>2, <2>3, Replaced
  <2>5. PlaceInv(r) /\ SeenInv(r)
    BY DEF IInv, ReqInv
  <2>6. Kind[r] = "login"
    BY <1>1, <2>5 DEF PlaceInv, At
  <2>7. PlaceInv(r)'
    BY <1>1, <2>3, <2>4, <2>5 DEF PlaceInv, At, Registering, Locking
  <2>8. SeenInv(r)'
    BY <1>1, <2>3, <2>4, <2>5 DEF SeenInv, Registering
  <2>9. StoredInv(r)'
    BY <2>3, <2>4, <2>6 DEF StoredInv
  <2> QED BY <1>1, <2>4, <2>7, <2>8, <2>9, Types, ReadStep DEF ReqInv
<1> QED BY <1>2, <1>3 DEF CheckPwd

-----------------------------------------------------------------------------
(* In the beginning there are no users.                                    *)
LEMMA InitIInv == Init => IInv
<1> SUFFICES ASSUME Init PROVE IInv
  OBVIOUS
<1>1. user = <<>> /\ Len(user) = 0 /\ user \in Seq(Row) /\ DOMAIN user = {}
  BY DEF Init
<1>2. Idle \in Req
  BY DEF Idle, Req, Places
<1>3. req \in [Request -> Req] /\ userId = 0 /\ lock = None
      /\ \A r \in Request : req[r].pc = "idle" /\ req[r].ans = "none" /\ req[r].snap = 0
  BY <1>2 DEF Init, Idle
<1>4. TypeOK
  BY <1>1, <1>3 DEF TypeOK, Req, Places, Registering
<1>5. UidsUnique /\ SameOnlyIfConcurrent
  BY <1>1, <1>4 DEF UidsUnique, SameOnlyIfConcurrent
<1>6. ASSUME NEW r \in Request PROVE ReqInv(r)
  BY <1>1, <1>3, <1>6, NoneAssumption
     DEF ReqInv, PlaceInv, SeenInv, StoredInv, Registering, Locking
<1> QED BY <1>5, <1>6 DEF IInv

(* Nothing changes.                                                        *)
LEMMA StutterIInv ==
  ASSUME IInv, UNCHANGED vars
  PROVE  IInv'
  BY DEF IInv, UidsUnique, SameOnlyIfConcurrent, TypeOK, ReqInv, PlaceInv, SeenInv,
         StoredInv, vars, mysql

(* A registration that fails gives the lock back, and with it the counter. *)
LEMMA RegUserFailsIInv ==
  ASSUME IInv, NEW r \in Request, RegUserFails(r)
  PROVE  IInv'
  BY RefuseStep DEF RegUserFails

(* Every step of every request preserves the invariant.                    *)
LEMMA NextIInv == IInv /\ [Next]_vars => IInv'
<1> SUFFICES ASSUME IInv, [Next]_vars PROVE IInv'
  OBVIOUS
<1>1. CASE UNCHANGED vars
  BY <1>1, StutterIInv
<1>2. ASSUME NEW r \in Request, Handle(r) PROVE IInv'
  BY <1>2, SelectEmailIInv, SelectNameIInv, UpdateIdIInv, SelectIdIInv, InsertIInv,
     CommitIInv, CheckEmailIInv, UpdatePwdIInv, CheckPwdIInv DEF Handle
<1>3. ASSUME NEW r \in Request, Fault(r) PROVE IInv'
  BY <1>3, RegUserFailsIInv, CommitAnswerLostIInv, ResetFailsIInv DEF Fault
<1>4. ASSUME NEW r \in Request, Client(r) PROVE IInv'
  BY <1>4, ErrorJsonIInv, StartIInv DEF Client, UserRegister, ResetPwd, UserLogin
<1> QED BY <1>1, <1>2, <1>3, <1>4 DEF Next

-----------------------------------------------------------------------------
(* So the invariant holds in every state of every behaviour.               *)
LEMMA Inductive == Spec => []IInv
  BY InitIInv, NextIInv, PTL DEF Spec

(* No two users ever have the same uid, and the counter is not below any,  *)
(* however registrations overlap and fail.                                 *)
THEOREM Uids == Spec => []UidsUnique
<1>1. IInv => UidsUnique
  BY DEF IInv
<1> QED BY <1>1, Inductive, PTL

(* Users share a name or an email only if the later registration had begun *)
(* to look before the earlier one was committed.                           *)
THEOREM Same == Spec => []SameOnlyIfConcurrent
<1>1. IInv => SameOnlyIfConcurrent
  BY DEF IInv
<1> QED BY <1>1, Inductive, PTL

(* What a client is told has happened: a registration that succeeded is in *)
(* the table under the uid of the answer, and a reset that found its name  *)
(* was for a user of that name and email.                                  *)
THEOREM Stored == Spec => []SuccessIsStored
<1>1. IInv => SuccessIsStored
  <2> SUFFICES ASSUME IInv, NEW r \in Request, req[r].ans = "ok"
               PROVE  /\ Kind[r] = "register"
                           => \E i \in Rows(r) \cap Named(r) : user[i].uid = req[r].uid
                      /\ Kind[r] = "reset" /\ (\E i \in Named(r) : i <= req[r].snap)
                           => Rows(r) \cap Named(r) # {}
    BY DEF SuccessIsStored, IInv, UidsUnique
  <2>1. StoredInv(r) /\ DOMAIN user = 1..Len(user)
    BY Types DEF IInv, ReqInv
  <2>2. /\ Rows(r) = {i \in 1..Len(user) : user[i].email = req[r].email}
        /\ Named(r) = {i \in 1..Len(user) : user[i].name = req[r].name}
    BY <2>1 DEF Rows, Named
  <2>3. Kind[r] = "register" => \E i \in Rows(r) \cap Named(r) : user[i].uid = req[r].uid
    BY <2>1, <2>2 DEF StoredInv
  <2>4. Kind[r] = "reset" /\ (\E i \in Named(r) : i <= req[r].snap) => Rows(r) \cap Named(r) # {}
    BY <2>1, <2>2 DEF StoredInv
  <2> QED BY <2>3, <2>4
<1> QED BY <1>1, Inductive, PTL

-----------------------------------------------------------------------------
(* What OldPwdRefused needs.  Whoever began, the resets it found answered  *)
(* were.  A row that an answered reset was for has the password of a reset *)
(* that is done and was not answered yet when that one began; and so has   *)
(* every login that was accepted with such a row.                          *)
BeforeInv == \A r \in Request : \A q \in req[r].before :
               Kind[q] = "reset" /\ req[q].ans = "ok"

NewerReset(q, e, w) ==
  \E p \in Request \ req[q].before :
    Kind[p] = "reset" /\ req[p].pc = "done" /\ req[p].email = e /\ req[p].pwd = w

RowInv ==
  \A q \in Request : \A i \in 1..Len(user) :
    /\ Kind[q] = "reset" /\ req[q].ans = "ok"
    /\ i <= req[q].snap /\ user[i].email = req[q].email
    => NewerReset(q, user[i].email, user[i].pwd)

AcceptedInv ==
  \A r, q \in Request : \A i \in 1..Len(user) :
    /\ Kind[r] = "login" /\ req[r].ans = "ok"
    /\ q \in req[r].before /\ req[q].email = req[r].email
    /\ user[i].uid = req[r].uid /\ i <= req[q].snap
    => NewerReset(q, req[r].email, req[r].pwd)

PwdInv == BeforeInv /\ RowInv /\ AcceptedInv

(* What is known of the requests before a step, in the words of PwdInv.    *)
LEMMA Known ==
  ASSUME IInv, NEW q \in Request
  PROVE  /\ req[q].pc # "done" => req[q].ans = "none"
         /\ req[q].before \subseteq Request
         /\ req[q].snap <= Len(user) /\ req[q].snap \in Nat /\ Len(user) \in Nat
  BY Types DEF IInv, ReqInv, PlaceInv, SeenInv, Req

(* A reset that is done stays what it was, so a password that was of a     *)
(* newer reset still is.                                                   *)
LEMMA StaysNewer ==
  ASSUME IInv, NEW r \in Request, req[r].pc # "done",
         \A p \in Request \ {r} : req'[p] = req[p],
         NEW q \in Request \ {r}, NEW e, NEW w, NewerReset(q, e, w)
  PROVE  \E p \in Request \ req'[q].before :
           Kind[p] = "reset" /\ req'[p].pc = "done" /\ req'[p].email = e /\ req'[p].pwd = w
<1>1. PICK p \in Request \ req[q].before :
        Kind[p] = "reset" /\ req[p].pc = "done" /\ req[p].email = e /\ req[p].pwd = w
  BY DEF NewerReset
<1>2. p # r /\ req'[p] = req[p] /\ req'[q] = req[q]
  BY <1>1
<1> QED BY <1>1, <1>2

(* A step of a request that is not done: what is left to show of the       *)
(* resets it knows, of the passwords it writes and of its own answer.      *)
LEMMA PwdStep ==
  ASSUME IInv, PwdInv, NEW r \in Request, req[r].pc # "done",
         \A q \in Request \ {r} : req'[q] = req[q],
         Len(user') \in Nat, Grows, req'[r].before \subseteq Request,
         \A q \in req'[r].before : Kind[q] = "reset" /\ req[q].ans = "ok",
         \/ \A i \in 1..Len(user) : user'[i].pwd = user[i].pwd
         \/ /\ Kind[r] = "reset" /\ req'[r].pc = "done"
            /\ \A i \in 1..Len(user) :
                 \/ user'[i].pwd = user[i].pwd
                 \/ user[i].email = req'[r].email /\ user'[i].pwd = req'[r].pwd,
         Kind[r] = "reset" /\ req'[r].ans = "ok"
           => \A i \in 1..Len(user') :
                i <= req'[r].snap /\ user'[i].email = req'[r].email
                  => NewerReset(r, user[i].email, user[i].pwd)',
         Kind[r] = "login" /\ req'[r].ans = "ok"
           => \A q \in req'[r].before : \A i \in 1..Len(user') :
                req[q].email = req'[r].email /\ user'[i].uid = req'[r].uid /\ i <= req[q].snap
                  => NewerReset(q, req'[r].email, req'[r].pwd)
  PROVE  PwdInv'
<1>1. req[r].ans = "none" /\ \A q \in Request : r \notin req[q].before
  BY Known DEF PwdInv, BeforeInv
<1>2. BeforeInv'
  <2> SUFFICES ASSUME NEW s \in Request, NEW q \in req'[s].before
               PROVE  Kind[q] = "reset" /\ req'[q].ans = "ok"
    BY DEF BeforeInv
  <2>1. Kind[q] = "reset" /\ req[q].ans = "ok"
    BY DEF PwdInv, BeforeInv
  <2>2. q # r
    BY <1>1, <2>1
  <2>3. q \in Request
    BY Known
  <2> QED BY <2>1, <2>2, <2>3
<1>3. RowInv'
  <2> SUFFICES ASSUME NEW q \in Request, NEW i \in 1..Len(user'),
                      Kind[q] = "reset", req'[q].ans = "ok",
                      i <= req'[q].snap, user'[i].email = req'[q].email
               PROVE  NewerReset(q, user[i].email, user[i].pwd)'
    BY DEF RowInv
  <2>1. CASE q = r
    BY <2>1
  <2>2. CASE q # r
    <3>1. req'[q] = req[q] /\ i \in 1..Len(user)
      BY <2>2, Known
    <3>2. user'[i].email = user[i].email
      BY <3>1 DEF Grows
    <3>3. CASE user'[i].pwd = user[i].pwd
      <4>1. NewerReset(q, user[i].email, user[i].pwd)
        BY <3>1, <3>2 DEF PwdInv, RowInv
      <4> QED BY <2>2, <3>2, <3>3, <4>1, StaysNewer DEF NewerReset
    <3>4. CASE user'[i].pwd # user[i].pwd
      <4>1. /\ Kind[r] = "reset" /\ req'[r].pc = "done"
            /\ user[i].email = req'[r].email /\ user'[i].pwd = req'[r].pwd
        BY <3>1, <3>4
      <4>2. r \notin req'[q].before
        BY <1>1, <3>1
      <4> QED BY <3>2, <4>1, <4>2 DEF NewerReset
    <3> QED BY <3>3, <3>4
  <2> QED BY <2>1, <2>2
<1>4. AcceptedInv'
  <2> SUFFICES ASSUME NEW s \in Request, NEW q \in Request, NEW i \in 1..Len(user'),
                      Kind[s] = "login", req'[s].ans = "ok",
                      q \in req'[s].before, req'[q].email = req'[s].email,
                      user'[i].uid = req'[s].uid, i <= req'[q].snap
               PROVE  NewerReset(q, req[s].email, req[s].pwd)'
    BY DEF AcceptedInv
  <2>1. q # r
    <3>1. CASE s = r
      BY <1>1, <3>1
    <3>2. CASE s # r
      BY <1>1, <3>2
    <3> QED BY <3>1, <3>2
  <2>2. req'[q] = req[q] /\ i \in 1..Len(user) /\ user'[i].uid = user[i].uid
    BY <2>1, Known DEF Grows
  <2>3. NewerReset(q, req'[s].email, req'[s].pwd)
    <3>1. CASE s = r
      BY <2>2, <3>1
    <3>2. CASE s # r
      BY <2>2, <3>2 DEF PwdInv, AcceptedInv
    <3> QED BY <3>1, <3>2
  <2> QED BY <2>1, <2>3, StaysNewer DEF NewerReset
<1> QED BY <1>2, <1>3, <1>4 DEF PwdInv

(* A request that reads, or is refused, and is not answered with success.  *)
LEMMA PwdRead ==
  ASSUME IInv, PwdInv, NEW r \in Request, req[r].pc # "done",
         \A q \in Request \ {r} : req'[q] = req[q],
         user' = user, req'[r].ans # "ok",
         req'[r].before \in {{}, req[r].before}
  PROVE  PwdInv'
<1>1. Len(user') \in Nat /\ Grows /\ \A i \in 1..Len(user) : user'[i].pwd = user[i].pwd
  BY Types DEF Grows
<1>2. /\ req'[r].before \subseteq Request
      /\ \A q \in req'[r].before : Kind[q] = "reset" /\ req[q].ans = "ok"
  BY Known DEF PwdInv, BeforeInv
<1> QED BY <1>1, <1>2, PwdStep

(* A request that is refused forgets what it knew.                         *)
LEMMA PwdRefuse ==
  ASSUME IInv, PwdInv, NEW r \in Request, req[r].pc # "done", user' = user, Refuse(r)
  PROVE  PwdInv'
<1> DEFINE x == [Idle EXCEPT !.pc = "done", !.ans = "error"]
<1>1. x \in Req /\ x.ans = "error" /\ x.before = {}
  BY DEF Idle, Req, Places
<1>2. req' = [req EXCEPT ![r] = x]
  BY DEF Refuse
<1> HIDE DEF x
<1>3. req'[r] = x /\ \A q \in Request \ {r} : req'[q] = req[q]
  BY <1>1, <1>2, Replaced
<1> QED BY <1>1, <1>3, PwdRead

(* The steps of a registration up to the commit.                           *)
LEMMA PwdRegister ==
  ASSUME IInv, PwdInv, NEW r \in Request,
         \/ SelectEmail(r) \/ SelectName(r) \/ UpdateId(r) \/ SelectId(r) \/ Insert(r)
  PROVE  PwdInv'
<1>1. req[r].pc \in {"email", "name", "update", "select", "insert"} /\ user' = user
  BY DEF SelectEmail, SelectName, UpdateId, SelectId, Insert, At, mysql
<1>2. req[r].pc # "done" /\ req[r].ans = "none"
  BY <1>1, Known
<1>3. ASSUME NEW p \in {"name", "update", "select", "commit"}, Goto(r, p) \/ Snapshot(r, p)
      PROVE  PwdInv'
  <2>1. /\ \A q \in Request \ {r} : req'[q] = req[q]
        /\ req'[r].ans = req[r].ans /\ req'[r].before = req[r].before
    BY <1>3, GotoMoves, SnapshotMoves DEF Places, Registering
  <2> QED BY <1>1, <1>2, <2>1, PwdRead
<1>4. CASE Refuse(r)
  BY <1>1, <1>2, <1>4, PwdRefuse
<1>5. CASE SelectId(r)
  <2> DEFINE id == IF lock = r THEN userId + 1 ELSE userId
             x == [req[r] EXCEPT !.pc = "insert", !.uid = id]
  <2>1. id \in Nat /\ req[r] \in Req
    BY Types
  <2> HIDE DEF id
  <2>2. x \in Req /\ x.ans = req[r].ans /\ x.before = req[r].before
    BY <2>1 DEF Req, Places, Registering
  <2>3. req' = [req EXCEPT ![r] = x]
    BY <1>5 DEF SelectId, id
  <2> HIDE DEF x
  <2>4. req'[r] = x /\ \A q \in Request \ {r} : req'[q] = req[q]
    BY <2>2, <2>3, Replaced
  <2> QED BY <1>1, <1>2, <2>2, <2>4, PwdRead
<1> QED BY <1>3, <1>4, <1>5 DEF SelectEmail, SelectName, UpdateId, Insert

(* A request that begins knows the resets that have been answered.         *)
LEMMA PwdStart ==
  ASSUME IInv, PwdInv, NEW r \in Request, NEW ask \in MayAsk[r],
         NEW p \in {"email", "check", "pwd"}, Start(r, ask, p)
  PROVE  PwdInv'
<1> DEFINE b == {q \in Request : Kind[q] = "reset" /\ req[q].ans = "ok"}
           x == [req[r] EXCEPT !.pc = p, !.email = ask.email, !.name = ask.name,
                               !.pwd = ask.pwd, !.before = b]
<1>1. At(r, "idle") /\ user' = user /\ req' = [req EXCEPT ![r] = x]
  BY DEF Start, mysql
<1>2. /\ ask.email \in Email /\ ask.name \in Name /\ ask.pwd \in Pwd
      /\ b \subseteq Request /\ req[r] \in Req
  BY MayAskAssumption, Types DEF Ask
<1>3. \A q \in b : Kind[q] = "reset" /\ req[q].ans = "ok"
  OBVIOUS
<1> HIDE DEF b
<1>4. x \in Req /\ x.ans = req[r].ans /\ x.before = b
  BY <1>2 DEF Req, Places, Registering
<1> HIDE DEF x
<1>5. req'[r] = x /\ \A q \in Request \ {r} : req'[q] = req[q]
  BY <1>1, <1>4, Replaced
<1>6. req[r].pc # "done" /\ req[r].ans = "none"
  BY <1>1, Known DEF At
<1>7. Len(user') \in Nat /\ Grows /\ \A i \in 1..Len(user) : user'[i].pwd = user[i].pwd
  BY <1>1, Types DEF Grows
<1> QED BY <1>2, <1>3, <1>4, <1>5, <1>6, <1>7, PwdStep

(* A commit adds a row that no reset has looked at.                        *)
LEMMA PwdCommit ==
  ASSUME IInv, PwdInv, NEW r \in Request, Commit(r) \/ CommitAnswerLost(r)
  PROVE  PwdInv'
<1>1. At(r, "commit") /\ CommitRow(r) /\ (Succeed(r) \/ Refuse(r))
  BY DEF Commit, CommitAnswerLost
<1>2. req[r].pc # "done" /\ Kind[r] = "register"
  BY <1>1 DEF At, IInv, ReqInv, PlaceInv, Registering
<1>3. /\ user' \in Seq(Row) /\ Len(user') \in Nat /\ Grows
      /\ \A i \in 1..Len(user) : user'[i].pwd = user[i].pwd
  BY <1>1, Types, CommitRowAdds DEF CommitRow
<1>4. /\ \A q \in Request \ {r} : req'[q] = req[q]
      /\ req'[r].before \in {{}, req[r].before}
  <2>1. CASE Succeed(r)
    BY <2>1, SucceedMoves
  <2>2. CASE Refuse(r)
    <3> DEFINE x == [Idle EXCEPT !.pc = "done", !.ans = "error"]
    <3>1. x \in Req /\ x.before = {}
      BY DEF Idle, Req, Places
    <3>2. req' = [req EXCEPT ![r] = x]
      BY <2>2 DEF Refuse
    <3> HIDE DEF x
    <3> QED BY <3>1, <3>2, Replaced
  <2> QED BY <1>1, <2>1, <2>2
<1>5. /\ req'[r].before \subseteq Request
      /\ \A q \in req'[r].before : Kind[q] = "reset" /\ req[q].ans = "ok"
  BY <1>4, Known DEF PwdInv, BeforeInv
<1> QED BY <1>2, <1>3, <1>4, <1>5, PwdStep

(* CheckEmail only looks.                                                  *)
LEMMA PwdCheckEmail ==
  ASSUME IInv, PwdInv, NEW r \in Request, CheckEmail(r)
  PROVE  PwdInv'
<1>1. req[r].pc # "done" /\ req[r].ans = "none" /\ user' = user
  BY Known DEF CheckEmail, At, mysql
<1>2. CASE Refuse(r)
  BY <1>1, <1>2, PwdRefuse
<1>3. CASE Goto(r, "set_pwd") \/ Snapshot(r, "set_pwd")
  <2>1. /\ \A q \in Request \ {r} : req'[q] = req[q]
        /\ req'[r].ans = req[r].ans /\ req'[r].before = req[r].before
    BY <1>3, GotoMoves, SnapshotMoves DEF Places, Registering
  <2> QED BY <1>1, <2>1, PwdRead
<1> QED BY <1>2, <1>3 DEF CheckEmail

(* What the UPDATE of a password writes: the rows of the email, all of     *)
(* them.                                                                   *)
LEMMA Writes ==
  ASSUME IInv, NEW r \in Request, At(r, "set_pwd"), user' = Updated(r)
  PROVE  /\ Len(user') \in Nat /\ Len(user') = Len(user) /\ Grows
         /\ \A i \in 1..Len(user) :
              /\ user[i].email # req[r].email => user'[i].pwd = user[i].pwd
              /\ user[i].email = req[r].email => user'[i].pwd = req[r].pwd
<1>1. Len(user') = Len(user) /\ Grows /\ Len(user) \in Nat /\ DOMAIN user = 1..Len(user)
  BY UpdatedRows, Types
<1>2. ASSUME NEW i \in 1..Len(user)
      PROVE  /\ user[i].email # req[r].email => user'[i].pwd = user[i].pwd
             /\ user[i].email = req[r].email => user'[i].pwd = req[r].pwd
  <2>1. user[i] \in Row
    BY Types
  <2>2. user'[i] = IF user[i].email = req[r].email THEN [user[i] EXCEPT !.pwd = req[r].pwd]
                                                   ELSE user[i]
    BY <1>1 DEF Updated, Rows
  <2> QED BY <2>1, <2>2 DEF Row
<1> QED BY <1>1, <1>2

(* The reset whose UPDATE is done is newer than itself.                    *)
LEMMA PwdUpdate ==
  ASSUME IInv, PwdInv, NEW r \in Request, At(r, "set_pwd"), user' = Updated(r),
         \A q \in Request \ {r} : req'[q] = req[q],
         req'[r].pc = "done", req'[r].email = req[r].email, req'[r].pwd = req[r].pwd,
         req'[r].before = req[r].before
  PROVE  PwdInv'
<1>1. Kind[r] = "reset" /\ Kind[r] # "login" /\ req[r].pc # "done" /\ req[r].ans = "none"
  BY Known DEF At, IInv, ReqInv, PlaceInv
<1>2. /\ Len(user') \in Nat /\ Len(user') = Len(user) /\ Grows
      /\ \A i \in 1..Len(user) : \/ user'[i].pwd = user[i].pwd
                                 \/ user[i].email = req'[r].email /\ user'[i].pwd = req'[r].pwd
  BY Writes
<1>3. /\ req'[r].before \subseteq Request
      /\ \A q \in req'[r].before : Kind[q] = "reset" /\ req[q].ans = "ok"
  BY Known DEF PwdInv, BeforeInv
<1>4. r \notin req'[r].before
  BY <1>1, <1>3
<1>5. ASSUME NEW i \in 1..Len(user'), user'[i].email = req'[r].email
      PROVE  NewerReset(r, user[i].email, user[i].pwd)'
  <2>1. user'[i].pwd = req'[r].pwd
    BY <1>2, <1>5, Writes DEF Grows
  <2> QED BY <1>1, <1>4, <1>5, <2>1 DEF NewerReset
<1> QED BY <1>1, <1>2, <1>3, <1>5, PwdStep

(* A reset that succeeds, and one that fails having written.               *)
LEMMA PwdReset ==
  ASSUME IInv, PwdInv, NEW r \in Request, UpdatePwd(r) \/ ResetFails(r)
  PROVE  PwdInv'
<1>1. CASE UpdatePwd(r)
  <2>1. At(r, "set_pwd") /\ user' = Updated(r) /\ Succeed(r)
    BY <1>1 DEF UpdatePwd
  <2> QED BY <2>1, SucceedMoves, PwdUpdate
<1>2. CASE Refuse(r) /\ user' = user /\ req[r].pc \in {"check", "set_pwd"}
  BY <1>2, PwdRefuse
<1> DEFINE x == [req[r] EXCEPT !.pc = "done", !.ans = "error"]
<1>3. CASE At(r, "set_pwd") /\ user' = Updated(r) /\ req' = [req EXCEPT ![r] = x]
  <2>0. req[r] \in Req
    BY Types
  <2>1. /\ x \in Req /\ x.pc = "done" /\ x.email = req[r].email /\ x.pwd = req[r].pwd
        /\ x.before = req[r].before
    BY <2>0 DEF Req, Places
  <2> HIDE DEF x
  <2>2. req'[r] = x /\ \A q \in Request \ {r} : req'[q] = req[q]
    BY <1>3, <2>1, Replaced
  <2> QED BY <1>3, <2>1, <2>2, PwdUpdate
<1> QED BY <1>1, <1>2, <1>3 DEF ResetFails

(* A login is accepted with the password its row has, and the row has that *)
(* of a newer reset.                                                       *)
LEMMA PwdLogin ==
  ASSUME IInv, PwdInv, NEW r \in Request, CheckPwd(r)
  PROVE  PwdInv'
<1>1. /\ req[r].pc # "done" /\ user' = user
      /\ Kind[r] = "login" /\ Kind[r] # "reset"
  BY DEF CheckPwd, At, mysql, IInv, ReqInv, PlaceInv
<1>2. CASE Refuse(r)
  BY <1>1, <1>2, PwdRefuse
<1>3. ASSUME NEW k \in Rows(r), user[k].pwd = req[r].pwd,
             req' = [req EXCEPT ![r] = [@ EXCEPT !.pc = "done", !.ans = "ok", !.uid = user[k].uid]]
      PROVE  PwdInv'
  <2> DEFINE id == user[k].uid
             x == [req[r] EXCEPT !.pc = "done", !.ans = "ok", !.uid = id]
  <2>1. id \in Nat /\ req[r] \in Req /\ k \in 1..Len(user) /\ user[k].email = req[r].email
    BY <1>3, Types DEF Rows, Row
  <2>2. req' = [req EXCEPT ![r] = x]
    BY <1>3
  <2> HIDE DEF id
  <2>3. /\ x \in Req /\ x.email = req[r].email /\ x.pwd = req[r].pwd
        /\ x.before = req[r].before /\ x.uid = id
    BY <2>1 DEF Req, Places
  <2> HIDE DEF x
  <2>4. req'[r] = x /\ \A q \in Request \ {r} : req'[q] = req[q]
    BY <2>2, <2>3, Replaced
  <2>5. Len(user') \in Nat /\ Grows /\ \A i \in 1..Len(user) : user'[i].pwd = user[i].pwd
    BY <1>1, Types DEF Grows
  <2>6. /\ req'[r].before \subseteq Request
        /\ \A q \in req'[r].before : Kind[q] = "reset" /\ req[q].ans = "ok"
    BY <2>3, <2>4, Known DEF PwdInv, BeforeInv
  <2>7. ASSUME NEW q \in req'[r].before, NEW i \in 1..Len(user'),
               req[q].email = req'[r].email, user'[i].uid = req'[r].uid, i <= req[q].snap
        PROVE  NewerReset(q, req'[r].email, req'[r].pwd)
    <3>1. i = k
      BY <1>1, <2>1, <2>3, <2>4, <2>7, Types DEF id, IInv, UidsUnique
    <3>2. NewerReset(q, user[k].email, user[k].pwd)
      BY <1>1, <2>1, <2>3, <2>4, <2>6, <2>7, <3>1 DEF PwdInv, RowInv
    <3> QED BY <1>3, <2>1, <2>3, <2>4, <3>2
  <2> QED BY <1>1, <2>4, <2>5, <2>6, <2>7, PwdStep
<1> QED BY <1>2, <1>3 DEF CheckPwd

(* In the beginning nobody knows of anything.                              *)
LEMMA InitPwdInv == Init => PwdInv
<1> SUFFICES ASSUME Init PROVE PwdInv
  OBVIOUS
<1>1. Len(user) = 0
  BY DEF Init
<1>2. Idle \in Req /\ Idle.before = {}
  BY DEF Idle, Req, Places
<1>3. \A r \in Request : req[r].before = {}
  BY <1>2 DEF Init
<1> QED BY <1>1, <1>3 DEF PwdInv, BeforeInv, RowInv, AcceptedInv

(* Every step of every request preserves what OldPwdRefused needs.         *)
LEMMA NextPwdInv == IInv /\ PwdInv /\ [Next]_vars => PwdInv'
<1> SUFFICES ASSUME IInv, PwdInv, [Next]_vars PROVE PwdInv'
  OBVIOUS
<1>1. CASE UNCHANGED vars
  BY <1>1 DEF PwdInv, BeforeInv, RowInv, AcceptedInv, NewerReset, vars, mysql
<1>2. ASSUME NEW r \in Request, Handle(r) PROVE PwdInv'
  BY <1>2, PwdRegister, PwdCommit, PwdCheckEmail, PwdReset, PwdLogin DEF Handle
<1>3. ASSUME NEW r \in Request, RegUserFails(r) \/ ErrorJson(r) PROVE PwdInv'
  BY <1>3, PwdRefuse DEF RegUserFails, ErrorJson, At, mysql
<1>4. ASSUME NEW r \in Request, Fault(r) PROVE PwdInv'
  BY <1>3, <1>4, PwdCommit, PwdReset DEF Fault
<1>5. ASSUME NEW r \in Request, Client(r) PROVE PwdInv'
  BY <1>3, <1>5, PwdStart DEF Client, UserRegister, ResetPwd, UserLogin
<1> QED BY <1>1, <1>2, <1>4, <1>5 DEF Next

(* A login that begins after a reset was answered is accepted only with    *)
(* the password of that reset or of one that was not answered yet when it  *)
(* began: an old password is refused, whatever else is going on.           *)
THEOREM OldPwd == Spec => []OldPwdRefused
<1>1. IInv /\ PwdInv => OldPwdRefused
  <2> SUFFICES ASSUME IInv, PwdInv, NEW r \in Request, NEW q \in Request,
                      NEW i \in DOMAIN user,
                      Kind[r] = "login", req[r].ans = "ok",
                      q \in req[r].before, req[q].email = req[r].email,
                      user[i].uid = req[r].uid, i <= req[q].snap
               PROVE  NewerReset(q, req[r].email, req[r].pwd)
    BY DEF OldPwdRefused, NewerReset
  <2> QED BY Types DEF PwdInv, AcceptedInv
<1> QED BY <1>1, Inductive, InitPwdInv, NextPwdInv, PTL DEF Spec

-----------------------------------------------------------------------------
(* The refinement of the abstract table: a commit is a Register, the       *)
(* UPDATE of a password a SetPwd, and every other step a stutter.          *)
Users == [i \in DOMAIN user |-> Plain(user[i])]

(* What the mapping makes of the rows.                                     *)
LEMMA PlainRow ==
  ASSUME NEW x \in Row
  PROVE  /\ Plain(x) \in UT!User
         /\ Plain(x).email = x.email
         /\ \A w \in Pwd : Plain([x EXCEPT !.pwd = w]) = [Plain(x) EXCEPT !.pwd = w]
  BY DEF Row, Plain, UT!User

(* A commit is a Register.                                                 *)
LEMMA CommitRefines ==
  ASSUME IInv, NEW r \in Request, At(r, "commit"), CommitRow(r)
  PROVE  UT!Next
<1> DEFINE n == Len(user)
           e == req[r].email
           m == req[r].name
           w == req[r].pwd
           new == [uid |-> userId + 1, name |-> m, email |-> e, pwd |-> w]
<1>1. PlaceInv(r) /\ n \in Nat /\ DOMAIN user = 1..n /\ userId \in Nat
  BY Types DEF IInv, ReqInv
<1>2. lock = r /\ req[r].uid = userId + 1 /\ e \in Email /\ m \in Name /\ w \in Pwd
  BY <1>1 DEF PlaceInv, At, Locking
<1>3. /\ user' \in Seq(Row) /\ Len(user') = n + 1 /\ user' = Append(user, NewRow(r))
      /\ userId' = userId + 1
  BY <1>2, CommitRowAdds DEF CommitRow
<1>4. Plain(NewRow(r)) = new
  BY <1>2 DEF Plain, NewRow
<1>5. DOMAIN user' = 1..(n + 1)
  BY <1>3, LenProperties
<1>6. user'[n + 1] = NewRow(r) /\ \A i \in 1..n : user'[i] = user[i]
  BY <1>3, Types
<1>7. Users \in Seq(UT!User) /\ Len(Users) = n
  <2>1. Users \in [1..n -> UT!User]
    BY <1>1, Types, PlainRow DEF Users
  <2> QED BY <1>1, <2>1
<1>8. Users' = Append(Users, new)
  <2>1. Users' = [i \in 1..(n + 1) |-> Plain(user'[i])]
    BY <1>5 DEF Users
  <2>2. Append(Users, new) = [i \in 1..(n + 1) |-> IF i \in 1..n THEN Users[i] ELSE new]
    BY <1>7
  <2>3. \A i \in 1..(n + 1) : Plain(user'[i]) = IF i \in 1..n THEN Users[i] ELSE new
    BY <1>1, <1>4, <1>6 DEF Users
  <2> QED BY <2>1, <2>2, <2>3
<1>9. UT!Register(m, e, w)
  BY <1>3, <1>8 DEF UT!Register, Users
<1> QED BY <1>2, <1>9 DEF UT!Next

(* The UPDATE of a password is a SetPwd.                                   *)
LEMMA UpdateRefines ==
  ASSUME IInv, NEW r \in Request, At(r, "set_pwd"), user' = Updated(r), userId' = userId
  PROVE  UT!Next
<1> DEFINE e == req[r].email
           w == req[r].pwd
           n == Len(user)
<1>1. e \in Email /\ w \in Pwd /\ DOMAIN user = 1..n
  BY Types DEF IInv, ReqInv, PlaceInv, At
<1>2. DOMAIN user' = 1..n /\ DOMAIN Users = 1..n
  BY <1>1 DEF Updated, Users
<1>3. ASSUME NEW i \in 1..n
      PROVE  Plain(user'[i]) = IF Users[i].email = e THEN [Users[i] EXCEPT !.pwd = w] ELSE Users[i]
  <2>1. user[i] \in Row /\ Users[i] = Plain(user[i])
    BY <1>1, Types DEF Users
  <2>2. user'[i] = IF user[i].email = e THEN [user[i] EXCEPT !.pwd = w] ELSE user[i]
    BY <1>1 DEF Updated, Rows
  <2> QED BY <1>1, <2>1, <2>2, PlainRow
<1>4. Users' = [i \in DOMAIN Users |-> IF Users[i].email = e THEN [Users[i] EXCEPT !.pwd = w]
                                                            ELSE Users[i]]
  <2>1. Users' = [i \in 1..n |-> Plain(user'[i])]
    BY <1>2 DEF Users
  <2> QED BY <1>2, <1>3, <2>1
<1>5. UT!SetPwd(e, w)
  BY <1>4 DEF UT!SetPwd, Users
<1> QED BY <1>1, <1>5 DEF UT!Next

(* Every step of the gate is a step of the table, or leaves it as it is.   *)
LEMMA StepRefines == IInv /\ [Next]_vars => [UT!Next]_UT!vars
<1> SUFFICES ASSUME IInv, [Next]_vars PROVE [UT!Next]_UT!vars
  OBVIOUS
<1>1. CASE UNCHANGED <<user, userId>>
  BY <1>1 DEF UT!vars
<1>2. ASSUME NEW r \in Request, Commit(r) \/ CommitAnswerLost(r) PROVE UT!Next
  BY <1>2, CommitRefines DEF Commit, CommitAnswerLost
<1>3. ASSUME NEW r \in Request, At(r, "set_pwd"), user' = Updated(r), userId' = userId
      PROVE  UT!Next
  BY <1>3, UpdateRefines
<1>4. ASSUME NEW r \in Request, Handle(r) \/ Fault(r) \/ Client(r) PROVE [UT!Next]_UT!vars
  BY <1>1, <1>2, <1>3, <1>4
     DEF Handle, Fault, Client, SelectEmail, SelectName, UpdateId, SelectId, Insert,
         CheckEmail, UpdatePwd, CheckPwd, RegUserFails, ResetFails, ErrorJson, UserRegister,
         ResetPwd, UserLogin, Start, mysql
<1> QED BY <1>1, <1>4 DEF Next, vars, mysql

(* However requests overlap and fail, the gate implements the table of     *)
(* users: uids are the values of the counter in commit order, and nothing  *)
(* but the password of a row ever changes.                                 *)
THEOREM Refinement == Spec => ImplementsUserTable
<1>1. Init => UT!Init
  BY DEF Init, UT!Init
<1> QED BY <1>1, StepRefines, Inductive, PTL DEF Spec, ImplementsUserTable, UT!Spec
-----------------------------------------------------------------------------
(* The HTTP side of the gate.                                              *)
(* Connections that have a stub of a pool in use.                          *)
Calling(p) == {c \in Conn : place[c] = "rpc" /\ kind[c] = p}

(* Each stub of a pool that is not closed is in it or in use, and only     *)
(* calls use them.                                                         *)
StubsInv == /\ \A c \in Conn : place[c] \in {"stub", "rpc"} => kind[c] \in Pool
            /\ stubs \in [Pool -> Nat]
            /\ \A p \in Pool \ closed : /\ IsFiniteSet(Calling(p))
                                         /\ stubs[p] + Cardinality(Calling(p)) = Stubs

(* The acceptor waits with the one connection that is being accepted, and  *)
(* it waits until the signal.                                              *)
AcceptInv == /\ \A c \in Conn : place[c] = "accepting" <=> accepting = c
             /\ stop = "no" /\ (\E c \in Conn : place[c] = "none") => accepting # Nil

(* The inductive invariant.                                                *)
HttpInv == HttpTypeOK /\ AcceptInv /\ StubsInv

(* Places in a handler that has the thread, and places behind the accept.  *)
Held == {"stub", "rpc", "handle"}
Beyond == {"reading", "stub", "rpc", "handle", "write", "wait", "closed"}

(* The invariant says what the property does.                              *)
LEMMA HttpImplies ==
  ASSUME Parameters, HttpInv
  PROVE  KeepsListening
<1>1. ASSUME stop = "no", \E c \in Conn : place[c] = "none"
      PROVE  accepting # Nil /\ {c \in Conn : place[c] = "accepting"} = {accepting}
  <2>1. accepting # Nil /\ accepting \in Conn
    BY <1>1 DEF HttpInv, AcceptInv, HttpTypeOK
  <2> QED BY <2>1 DEF HttpInv, AcceptInv
<1> QED BY <1>1 DEF HttpInv, KeepsListening

(* One connection is being accepted, and all stubs are in their pools.     *)
LEMMA HttpInitInv ==
  ASSUME Parameters, HttpInit
  PROVE  HttpInv
<1> USE DEF HttpInit
<1>1. HttpTypeOK
  BY DEF HttpTypeOK, Parameters, Pool, HttpKind
<1>2. AcceptInv
  BY DEF AcceptInv, Parameters
<1>3. StubsInv
  <2>1. \A p \in Pool : Calling(p) = {}
    BY DEF Calling
  <2>2. IsFiniteSet({}) /\ Cardinality({}) = 0
    BY FS_EmptySet
  <2>3. Stubs \in Nat
    BY DEF Parameters
  <2> QED BY <2>1, <2>2, <2>3 DEF StubsInv, Pool
<1> QED BY <1>1, <1>2, <1>3 DEF HttpInv

(* A step in which no call begins or ends leaves the stubs where they are. *)
LEMMA StubsKept ==
  ASSUME HttpInv, stubs' = stubs, closed \subseteq closed',
         \A c \in Conn : /\ place'[c] = "rpc" <=> place[c] = "rpc"
                         /\ place[c] = "rpc" => kind'[c] = kind[c]
                         /\ place'[c] \in {"stub", "rpc"} => kind'[c] \in Pool
  PROVE  StubsInv'
<1>1. \A p : Calling(p)' = Calling(p)
  BY DEF Calling
<1> QED BY <1>1 DEF HttpInv, StubsInv

(* A connection that has been accepted moves on.                           *)
LEMMA MoveKeeps ==
  ASSUME HttpInv, NEW c \in Conn, place[c] \in Beyond, NEW q \in Beyond,
         place' = [place EXCEPT ![c] = q], UNCHANGED <<accepting, stop>>
  PROVE  /\ AcceptInv' /\ place'[c] = q /\ \A d \in Conn : d # c => place'[d] = place[d]
         /\ place' \in [Conn -> {"none", "accepting", "reading", "stub", "rpc", "handle",
                                 "write", "wait", "closed"}]
<1>1. /\ place'[c] = q /\ \A d \in Conn : d # c => place'[d] = place[d]
      /\ place' \in [Conn -> {"none", "accepting", "reading", "stub", "rpc", "handle",
                              "write", "wait", "closed"}]
  BY DEF HttpInv, HttpTypeOK, Beyond
<1>2. AcceptInv'
  BY <1>1 DEF HttpInv, AcceptInv, Beyond
<1> QED BY <1>1, <1>2

(* The next connection is accepted, or refused.                            *)
LEMMA AcceptEnds ==
  ASSUME Parameters, HttpInv, NEW c \in Conn, accepting = c, NEW p \in {"reading", "closed"},
         StartAfter(c, p), open' \in [Conn -> BOOLEAN],
         UNCHANGED <<kind, due, timer, busy, stubs, closed, stop>>
  PROVE  HttpInv'
<1>1. place[c] = "accepting"
  BY DEF HttpInv, AcceptInv
<1>2. CASE \E d \in Conn : /\ place[d] = "none" /\ accepting' = d
                           /\ place' = [place EXCEPT ![c] = p, ![d] = "accepting"]
  <2>1. PICK d \in Conn : /\ place[d] = "none" /\ accepting' = d
                          /\ place' = [place EXCEPT ![c] = p, ![d] = "accepting"]
    BY <1>2
  <2>2. /\ place'[c] = p /\ place'[d] = "accepting"
        /\ \A e \in Conn : e # c /\ e # d => place'[e] = place[e]
        /\ place' \in [Conn -> Beyond \cup {"none", "accepting"}]
    BY <1>1, <2>1 DEF HttpInv, HttpTypeOK, Beyond
  <2>3. AcceptInv'
    BY <1>1, <2>1, <2>2 DEF HttpInv, AcceptInv, Parameters
  <2>4. HttpTypeOK'
    BY <1>1, <2>1, <2>2 DEF HttpInv, HttpTypeOK, Beyond
  <2>5. StubsInv'
    <3>1. \A e \in Conn : /\ place'[e] = "rpc" <=> place[e] = "rpc"
                          /\ place'[e] \in {"stub", "rpc"} => place'[e] = place[e]
      BY <1>1, <2>1, <2>2
    <3> QED BY <3>1, StubsKept DEF HttpInv, StubsInv
  <2> QED BY <2>3, <2>4, <2>5 DEF HttpInv
<1>3. CASE /\ \A d \in Conn : place[d] # "none"
           /\ accepting' = Nil /\ place' = [place EXCEPT ![c] = p]
  <2>1. /\ place'[c] = p /\ \A e \in Conn : e # c => place'[e] = place[e]
        /\ place' \in [Conn -> Beyond \cup {"none", "accepting"}]
    BY <1>3 DEF HttpInv, HttpTypeOK, Beyond
  <2>2. AcceptInv'
    BY <1>1, <1>3, <2>1 DEF HttpInv, AcceptInv, Parameters
  <2>3. HttpTypeOK'
    BY <1>1, <1>3, <2>1 DEF HttpInv, HttpTypeOK, Beyond
  <2>4. StubsInv'
    <3>1. \A e \in Conn : /\ place'[e] = "rpc" <=> place[e] = "rpc"
                          /\ place'[e] \in {"stub", "rpc"} => place'[e] = place[e]
      BY <1>1, <2>1
    <3> QED BY <3>1, StubsKept DEF HttpInv, StubsInv
  <2> QED BY <2>2, <2>3, <2>4 DEF HttpInv
<1> QED BY <1>2, <1>3 DEF StartAfter

(* A connection moves on without touching its thread or the stubs.         *)
LEMMA MoveInv ==
  ASSUME Parameters, HttpInv, NEW c \in Conn, place[c] \in Beyond \ Held, NEW q \in Beyond \ Held,
         place' = [place EXCEPT ![c] = q], open' \in [Conn -> BOOLEAN],
         timer' \in [Conn -> {"none", "armed", "over"}], due' \in [Conn -> BOOLEAN],
         UNCHANGED <<accepting, kind, busy, stubs, closed, stop>>
  PROVE  HttpInv'
<1>1. /\ AcceptInv' /\ place'[c] = q /\ \A d \in Conn : d # c => place'[d] = place[d]
      /\ place' \in [Conn -> {"none", "accepting", "reading", "stub", "rpc", "handle",
                              "write", "wait", "closed"}]
  BY MoveKeeps
<1>2. HttpTypeOK'
  BY <1>1 DEF HttpInv, HttpTypeOK, Held, Beyond
<1>3. StubsInv'
  <2>1. \A e \in Conn : /\ place'[e] = "rpc" <=> place[e] = "rpc"
                        /\ place'[e] \in {"stub", "rpc"} => place'[e] = place[e]
    BY <1>1 DEF Held
  <2> QED BY <2>1, StubsKept DEF HttpInv, StubsInv
<1> QED BY <1>1, <1>2, <1>3 DEF HttpInv

(* A request occupies the thread of its connection, which was free.        *)
LEMMA ReadRequestInv ==
  ASSUME Parameters, HttpInv, NEW c \in Conn, NEW k \in HttpKind, ReadRequest(c, k)
  PROVE  HttpInv'
<1> DEFINE q == IF k \in Pool THEN "stub" ELSE "handle"
<1>1. /\ place[c] = "reading" /\ busy[IoThread[c]] = Nil
      /\ kind' = [kind EXCEPT ![c] = k] /\ place' = [place EXCEPT ![c] = q]
      /\ busy' = [busy EXCEPT ![IoThread[c]] = c]
      /\ UNCHANGED <<accepting, open, due, timer, stubs, closed, stop>>
  BY DEF ReadRequest, Free, Occupy
<1>2. q \in Beyond /\ q \in Held /\ place[c] \in Beyond /\ q # "rpc"
  BY <1>1 DEF Beyond, Held
<1> HIDE DEF q
<1>3. /\ AcceptInv' /\ place'[c] = q /\ \A d \in Conn : d # c => place'[d] = place[d]
      /\ place' \in [Conn -> {"none", "accepting", "reading", "stub", "rpc", "handle",
                              "write", "wait", "closed"}]
  BY <1>1, <1>2, MoveKeeps
<1>4. /\ kind'[c] = k /\ \A d \in Conn : d # c => kind'[d] = kind[d]
      /\ kind' \in [Conn -> HttpKind \cup {"none"}]
  BY <1>1 DEF HttpInv, HttpTypeOK
<1>5. /\ IoThread \in [Conn -> Thread] /\ Nil \notin Conn /\ busy \in [Thread -> Conn \cup {Nil}]
      /\ \A d \in Conn : place[d] \in Held <=> busy[IoThread[d]] = d
  BY DEF Parameters, HttpInv, HttpTypeOK, Held
<1>6. /\ busy' \in [Thread -> Conn \cup {Nil}]
      /\ \A d \in Conn : place'[d] \in Held <=> busy'[IoThread[d]] = d
  <2>1. busy' \in [Thread -> Conn \cup {Nil}] /\ busy'[IoThread[c]] = c
    BY <1>1, <1>5
  <2>2. ASSUME NEW d \in Conn PROVE place'[d] \in Held <=> busy'[IoThread[d]] = d
    <3>1. CASE d = c
      BY <1>2, <1>3, <2>1, <3>1
    <3>2. CASE d # c /\ IoThread[d] = IoThread[c]
      BY <1>1, <1>3, <1>5, <2>1, <3>2
    <3>3. CASE d # c /\ IoThread[d] # IoThread[c]
      BY <1>1, <1>3, <1>5, <3>3
    <3> QED BY <3>1, <3>2, <3>3
  <2> QED BY <2>1, <2>2
<1>7. HttpTypeOK'
  BY <1>1, <1>3, <1>4, <1>6 DEF HttpInv, HttpTypeOK, Held
<1>8. StubsInv'
  <2>1. place'[c] \in {"stub", "rpc"} => k \in Pool
    BY <1>2, <1>3 DEF q
  <2>2. \A e \in Conn : /\ place'[e] = "rpc" <=> place[e] = "rpc"
                        /\ place[e] = "rpc" => kind'[e] = kind[e]
                        /\ place'[e] \in {"stub", "rpc"} => kind'[e] \in Pool
    BY <1>1, <1>2, <1>3, <1>4, <2>1 DEF HttpInv, StubsInv
  <2> QED BY <1>1, <2>2, StubsKept
<1> QED BY <1>3, <1>7, <1>8 DEF HttpInv

(* A handler ends: its thread is free again.                               *)
LEMMA HandlerEnds ==
  ASSUME Parameters, HttpInv, NEW c \in Conn, place[c] = "handle", NEW q \in Beyond \ Held,
         place' = [place EXCEPT ![c] = q], Release(c), open' \in [Conn -> BOOLEAN],
         timer' \in [Conn -> {"none", "armed", "over"}],
         UNCHANGED <<accepting, kind, due, stubs, closed, stop>>
  PROVE  HttpInv'
<1>1. /\ AcceptInv' /\ place'[c] = q /\ \A d \in Conn : d # c => place'[d] = place[d]
      /\ place' \in [Conn -> {"none", "accepting", "reading", "stub", "rpc", "handle",
                              "write", "wait", "closed"}]
  <2>1. place[c] \in Beyond
    BY DEF Beyond
  <2> QED BY <2>1, MoveKeeps
<1>2. /\ IoThread \in [Conn -> Thread] /\ Nil \notin Conn /\ busy \in [Thread -> Conn \cup {Nil}]
      /\ \A d \in Conn : place[d] \in Held <=> busy[IoThread[d]] = d
  BY DEF Parameters, HttpInv, HttpTypeOK, Held
<1>3. busy' = [busy EXCEPT ![IoThread[c]] = Nil] /\ busy[IoThread[c]] = c
  BY <1>2 DEF Release, Held
<1>4. /\ busy' \in [Thread -> Conn \cup {Nil}]
      /\ \A d \in Conn : place'[d] \in Held <=> busy'[IoThread[d]] = d
  <2>1. busy' \in [Thread -> Conn \cup {Nil}] /\ busy'[IoThread[c]] = Nil
    BY <1>2, <1>3
  <2>2. ASSUME NEW d \in Conn PROVE place'[d] \in Held <=> busy'[IoThread[d]] = d
    <3>1. CASE d = c
      BY <1>1, <1>2, <2>1, <3>1
    <3>2. CASE d # c /\ IoThread[d] = IoThread[c]
      BY <1>1, <1>2, <1>3, <2>1, <3>2
    <3>3. CASE d # c /\ IoThread[d] # IoThread[c]
      BY <1>1, <1>2, <1>3, <3>3
    <3> QED BY <3>1, <3>2, <3>3
  <2> QED BY <2>1, <2>2
<1>5. HttpTypeOK'
  BY <1>1, <1>4 DEF HttpInv, HttpTypeOK, Held
<1>6. StubsInv'
  <2>1. \A e \in Conn : /\ place'[e] = "rpc" <=> place[e] = "rpc"
                        /\ place'[e] \in {"stub", "rpc"} => place'[e] = place[e]
    BY <1>1 DEF Held
  <2> QED BY <2>1, StubsKept DEF HttpInv, StubsInv
<1> QED BY <1>1, <1>5, <1>6 DEF HttpInv

(* A stub leaves its pool and is in use.                                   *)
LEMMA GetStubInv ==
  ASSUME Parameters, HttpInv, NEW c \in Conn, GetStub(c)
  PROVE  HttpInv'
<1>0. PICK p : p = kind[c]
  OBVIOUS
<1>1. /\ place[c] = "stub" /\ stubs[p] > 0 /\ p \in Pool /\ p \notin closed
      /\ stubs' = [stubs EXCEPT ![p] = @ - 1] /\ place' = [place EXCEPT ![c] = "rpc"]
      /\ UNCHANGED <<accepting, kind, open, due, timer, busy, closed, stop>>
  BY <1>0 DEF GetStub, request, HttpInv, StubsInv
<1>2. /\ AcceptInv' /\ place'[c] = "rpc" /\ \A d \in Conn : d # c => place'[d] = place[d]
      /\ place' \in [Conn -> {"none", "accepting", "reading", "stub", "rpc", "handle",
                              "write", "wait", "closed"}]
  <2>1. place[c] \in Beyond /\ "rpc" \in Beyond
    BY <1>1 DEF Beyond
  <2> QED BY <1>1, <2>1, MoveKeeps
<1>3. /\ Stubs \in Nat /\ stubs \in [Pool -> Nat]
      /\ \A r \in Pool \ closed : IsFiniteSet(Calling(r)) /\ stubs[r] + Cardinality(Calling(r)) = Stubs
  BY DEF Parameters, HttpInv, StubsInv
<1>4. Calling(p)' = Calling(p) \cup {c} /\ c \notin Calling(p)
  BY <1>0, <1>1, <1>2 DEF Calling
<1>5. \A r \in Pool : r # p => Calling(r)' = Calling(r)
  BY <1>0, <1>1, <1>2 DEF Calling
<1>6. IsFiniteSet(Calling(p)') /\ Cardinality(Calling(p)') = Cardinality(Calling(p)) + 1
  BY <1>1, <1>3, <1>4, FS_AddElement
<1>7. Cardinality(Calling(p)) \in Nat /\ stubs[p] \in Nat
  BY <1>1, <1>3, FS_CardinalityType
<1>8. /\ stubs' \in [Pool -> Nat] /\ stubs'[p] = stubs[p] - 1
      /\ \A r \in Pool : r # p => stubs'[r] = stubs[r]
  BY <1>1, <1>3, <1>7
<1>9. stubs'[p] + Cardinality(Calling(p)') = Stubs
  <2>1. stubs[p] + Cardinality(Calling(p)) = Stubs
    BY <1>1, <1>3
  <2> QED BY <1>6, <1>7, <1>8, <2>1
<1>10. \A r \in Pool \ closed : IsFiniteSet(Calling(r)') /\ stubs'[r] + Cardinality(Calling(r)') = Stubs
  <2> SUFFICES ASSUME NEW r \in Pool \ closed
               PROVE  IsFiniteSet(Calling(r)') /\ stubs'[r] + Cardinality(Calling(r)') = Stubs
    OBVIOUS
  <2>1. CASE r = p
    BY <1>6, <1>9, <2>1
  <2>2. CASE r # p
    BY <1>3, <1>5, <1>8, <2>2
  <2> QED BY <2>1, <2>2
<1>11. StubsInv'
  <2>1. \A d \in Conn : place'[d] \in {"stub", "rpc"} => kind'[d] \in Pool
    BY <1>0, <1>1, <1>2 DEF HttpInv, StubsInv
  <2> QED BY <1>1, <1>8, <1>10, <2>1 DEF StubsInv
<1>12. stubs' \in [Pool -> 0..Stubs]
  <2>1. stubs[p] \in 0..Stubs /\ stubs \in [Pool -> 0..Stubs]
    BY <1>1 DEF HttpInv, HttpTypeOK
  <2>2. stubs[p] - 1 \in 0..Stubs
    BY <1>1, <1>3, <2>1
  <2> QED BY <1>1, <2>1, <2>2
<1>13. HttpTypeOK'
  BY <1>1, <1>2, <1>12 DEF HttpInv, HttpTypeOK
<1> QED BY <1>2, <1>11, <1>13 DEF HttpInv

(* The call ends, and the stub goes back to the pool it came from, which   *)
(* is open still.                                                          *)
LEMMA ReturnStubInv ==
  ASSUME Parameters, HttpInv, NEW c \in Conn, ReturnStub(c), kind[c] \notin closed
  PROVE  HttpInv'
<1>0. PICK p : p = kind[c]
  OBVIOUS
<1>1. /\ place[c] = "rpc" /\ p \in Pool /\ p \notin closed
      /\ stubs' = [stubs EXCEPT ![p] = @ + 1] /\ place' = [place EXCEPT ![c] = "handle"]
      /\ UNCHANGED <<accepting, kind, open, due, timer, busy, closed, stop>>
  BY <1>0 DEF ReturnStub, request, HttpInv, StubsInv
<1>2. /\ AcceptInv' /\ place'[c] = "handle" /\ \A d \in Conn : d # c => place'[d] = place[d]
      /\ place' \in [Conn -> {"none", "accepting", "reading", "stub", "rpc", "handle",
                              "write", "wait", "closed"}]
  <2>1. place[c] \in Beyond /\ "handle" \in Beyond
    BY <1>1 DEF Beyond
  <2> QED BY <1>1, <2>1, MoveKeeps
<1>3. c \in Calling(p)
  BY <1>0, <1>1 DEF Calling
<1>4. /\ Stubs \in Nat /\ stubs \in [Pool -> Nat]
      /\ \A r \in Pool \ closed : IsFiniteSet(Calling(r)) /\ stubs[r] + Cardinality(Calling(r)) = Stubs
  BY DEF Parameters, HttpInv, StubsInv
<1>5. Calling(p)' = Calling(p) \ {c}
  BY <1>0, <1>1, <1>2 DEF Calling
<1>6. \A r \in Pool : r # p => Calling(r)' = Calling(r)
  BY <1>0, <1>1, <1>2 DEF Calling
<1>7. IsFiniteSet(Calling(p)') /\ Cardinality(Calling(p)') = Cardinality(Calling(p)) - 1
  BY <1>1, <1>3, <1>4, <1>5, FS_RemoveElement
<1>8. Cardinality(Calling(p)) \in Nat /\ Cardinality(Calling(p)') \in Nat /\ stubs[p] \in Nat
  BY <1>1, <1>4, <1>7, FS_CardinalityType
<1>9. /\ stubs' \in [Pool -> Nat] /\ stubs'[p] = stubs[p] + 1
      /\ \A r \in Pool : r # p => stubs'[r] = stubs[r]
  BY <1>1, <1>4, <1>8
<1>10. stubs'[p] + Cardinality(Calling(p)') = Stubs
  <2>1. stubs[p] + Cardinality(Calling(p)) = Stubs
    BY <1>1, <1>4
  <2> QED BY <1>7, <1>8, <1>9, <2>1
<1>11. \A r \in Pool \ closed : IsFiniteSet(Calling(r)') /\ stubs'[r] + Cardinality(Calling(r)') = Stubs
  <2> SUFFICES ASSUME NEW r \in Pool \ closed
               PROVE  IsFiniteSet(Calling(r)') /\ stubs'[r] + Cardinality(Calling(r)') = Stubs
    OBVIOUS
  <2>1. CASE r = p
    BY <1>7, <1>10, <2>1
  <2>2. CASE r # p
    BY <1>4, <1>6, <1>9, <2>2
  <2> QED BY <2>1, <2>2
<1>12. StubsInv'
  <2>1. \A d \in Conn : place'[d] \in {"stub", "rpc"} => kind'[d] \in Pool
    BY <1>0, <1>1, <1>2 DEF HttpInv, StubsInv
  <2> QED BY <1>1, <1>9, <1>11, <2>1 DEF StubsInv
<1>13. stubs' \in [Pool -> 0..Stubs]
  <2>1. stubs \in [Pool -> 0..Stubs]
    BY DEF HttpInv, HttpTypeOK
  <2>2. stubs[p] + 1 \in 0..Stubs
    BY <1>4, <1>8, <1>9, <1>10
  <2> QED BY <1>1, <2>1, <2>2
<1>14. HttpTypeOK'
  BY <1>1, <1>2, <1>13 DEF HttpInv, HttpTypeOK
<1> QED BY <1>2, <1>12, <1>14 DEF HttpInv

(* The call ends after its pool has been closed: the stub is dropped.      *)
LEMMA DropStubInv ==
  ASSUME Parameters, HttpInv, NEW c \in Conn, ReturnStub(c), kind[c] \in closed
  PROVE  HttpInv'
<1>1. /\ place[c] = "rpc" /\ place' = [place EXCEPT ![c] = "handle"]
      /\ stubs' = [stubs EXCEPT ![kind[c]] = @]
      /\ UNCHANGED <<accepting, kind, open, due, timer, busy, closed, stop>>
  BY DEF ReturnStub, request
<1>2. /\ AcceptInv' /\ place'[c] = "handle" /\ \A d \in Conn : d # c => place'[d] = place[d]
      /\ place' \in [Conn -> {"none", "accepting", "reading", "stub", "rpc", "handle",
                              "write", "wait", "closed"}]
  <2>1. place[c] \in Beyond /\ "handle" \in Beyond
    BY <1>1 DEF Beyond
  <2> QED BY <1>1, <2>1, MoveKeeps
<1>3. stubs' = stubs
  <2>1. stubs \in [Pool -> Nat]
    BY DEF HttpInv, StubsInv
  <2> QED BY <1>1, <2>1
<1>4. StubsInv'
  <2>1. \A r \in Pool \ closed : Calling(r)' = Calling(r)
    BY <1>1, <1>2 DEF Calling
  <2>2. \A d \in Conn : place'[d] \in {"stub", "rpc"} => kind'[d] \in Pool
    BY <1>1, <1>2 DEF HttpInv, StubsInv
  <2> QED BY <1>1, <1>3, <2>1, <2>2 DEF HttpInv, StubsInv
<1>5. HttpTypeOK'
  BY <1>1, <1>2, <1>3 DEF HttpInv, HttpTypeOK
<1> QED BY <1>2, <1>4, <1>5 DEF HttpInv

(* After the signal nothing is accepted, and what was read goes on.        *)
LEMMA SignalInv ==
  ASSUME Parameters, HttpInv, Signal
  PROVE  HttpInv'
<1>1. /\ stop' = "signalled" /\ accepting' = Nil
      /\ place' = [c \in Conn |-> IF c = accepting THEN "closed" ELSE place[c]]
      /\ UNCHANGED <<kind, open, due, timer, busy, stubs, closed>>
  BY DEF Signal, request
<1>2. /\ \A c \in Conn : place[c] = "accepting" => place'[c] = "closed"
      /\ \A c \in Conn : place[c] # "accepting" => place'[c] = place[c]
      /\ place' \in [Conn -> Beyond \cup {"none", "accepting"}]
  BY <1>1 DEF HttpInv, AcceptInv, HttpTypeOK, Beyond
<1>3. AcceptInv'
  <2>1. \A c \in Conn : place'[c] # "accepting"
    BY <1>2
  <2> QED BY <1>1, <2>1 DEF AcceptInv, Parameters
<1>4. HttpTypeOK'
  <2>1. \A c \in Conn : place'[c] \in Held <=> place[c] \in Held
    BY <1>2 DEF Held
  <2> QED BY <1>1, <1>2, <2>1 DEF HttpInv, HttpTypeOK, Held, Beyond
<1>5. StubsInv'
  <2>1. \A e \in Conn : /\ place'[e] = "rpc" <=> place[e] = "rpc"
                        /\ place'[e] \in {"stub", "rpc"} => place'[e] = place[e]
    BY <1>2
  <2> QED BY <1>1, <2>1, StubsKept DEF HttpInv, StubsInv
<1> QED BY <1>3, <1>4, <1>5 DEF HttpInv

(* A step that leaves the places and the stubs as they are.                *)
LEMMA StayInv ==
  ASSUME HttpInv, open' \in [Conn -> BOOLEAN], due' \in [Conn -> BOOLEAN],
         timer' \in [Conn -> {"none", "armed", "over"}],
         stop' \in {"no", "signalled", "joining", "ended", "crashed"}, stop' = "no" => stop = "no",
         UNCHANGED <<accepting, place, kind, busy, stubs, closed>>
  PROVE  HttpInv'
<1>1. \A p : Calling(p)' = Calling(p)
  BY DEF Calling
<1>2. AcceptInv' /\ StubsInv'
  BY <1>1 DEF HttpInv, AcceptInv, StubsInv
<1>3. HttpTypeOK'
  BY DEF HttpInv, HttpTypeOK
<1> QED BY <1>2, <1>3 DEF HttpInv

(* A pool is closed: no claim about its stubs is left.                     *)
LEMMA CloseInv ==
  ASSUME Parameters, HttpInv, NEW p \in Pool, Close(p)
  PROVE  HttpInv'
<1>1. /\ closed' = closed \cup {p} /\ stubs' = [stubs EXCEPT ![p] = 0]
      /\ UNCHANGED <<accepting, place, kind, open, due, timer, busy, stop>>
  BY DEF Close, request
<1>2. /\ stubs \in [Pool -> Nat] /\ stubs \in [Pool -> 0..Stubs] /\ 0 \in 0..Stubs
      /\ closed \subseteq Pool
  BY DEF HttpInv, HttpTypeOK, StubsInv, Parameters
<1>3. /\ stubs' \in [Pool -> Nat] /\ stubs' \in [Pool -> 0..Stubs]
      /\ \A r \in Pool \ closed' : r \notin closed /\ stubs'[r] = stubs[r]
  BY <1>1, <1>2
<1>4. AcceptInv'
  BY <1>1 DEF HttpInv, AcceptInv
<1>5. StubsInv'
  <2>1. \A r \in Pool : Calling(r)' = Calling(r)
    BY <1>1 DEF Calling
  <2> QED BY <1>1, <1>3, <2>1 DEF HttpInv, StubsInv
<1>6. HttpTypeOK'
  BY <1>1, <1>2, <1>3 DEF HttpInv, HttpTypeOK
<1> QED BY <1>4, <1>5, <1>6 DEF HttpInv

(* The process is gone: nothing is open, and nothing runs.                 *)
LEMMA CrashInv ==
  ASSUME Parameters, HttpInv, Crash
  PROVE  HttpInv'
<1>1. /\ kind \in [Conn -> HttpKind \cup {"none"}] /\ due \in [Conn -> BOOLEAN]
      /\ stubs \in [Pool -> 0..Stubs] /\ stubs \in [Pool -> Nat]
      /\ Nil \notin Conn /\ IoThread \in [Conn -> Thread]
  BY DEF HttpInv, HttpTypeOK, AcceptInv, StubsInv, Parameters
<1>2. /\ stop' = "crashed" /\ closed' = Pool /\ UNCHANGED <<kind, due, stubs>> /\ accepting' = Nil
      /\ place' \in [Conn -> {"closed"}] /\ open' \in [Conn -> {FALSE}]
      /\ timer' \in [Conn -> {"over"}] /\ busy' \in [Thread -> {Nil}]
  BY DEF Crash, request
<1>3. AcceptInv'
  BY <1>1, <1>2 DEF AcceptInv
<1>4. StubsInv'
  BY <1>1, <1>2 DEF StubsInv
<1>5. HttpTypeOK'
  <2>1. \A c \in Conn : place'[c] = "closed" /\ busy'[IoThread[c]] = Nil /\ c # Nil
    BY <1>1, <1>2
  <2>2. /\ place' \in [Conn -> {"none", "accepting", "reading", "stub", "rpc", "handle",
                               "write", "wait", "closed"}]
        /\ open' \in [Conn -> BOOLEAN] /\ timer' \in [Conn -> {"none", "armed", "over"}]
        /\ busy' \in [Thread -> Conn \cup {Nil}]
    BY <1>2
  <2> QED BY <1>1, <1>2, <2>1, <2>2 DEF HttpTypeOK
<1> QED BY <1>3, <1>4, <1>5 DEF HttpInv

(* A step of a handler on its thread.                                      *)
LEMMA HandlerInv ==
  ASSUME Parameters, HttpInv, NEW c \in Conn, Handler(c) \/ WriteResponse(c)
  PROVE  HttpInv'
<1>1. /\ open \in [Conn -> BOOLEAN] /\ due \in [Conn -> BOOLEAN]
      /\ timer \in [Conn -> {"none", "armed", "over"}] /\ stop \in {"no", "signalled", "joining", "ended", "crashed"}
  BY DEF HttpInv, HttpTypeOK
<1>2. CASE GetStub(c)
  BY <1>2, GetStubInv
<1>3. CASE ReturnStub(c)
  BY <1>3, ReturnStubInv, DropStubInv
<1>4. CASE Throw(c)
  <2>1. /\ place[c] = "handle" /\ place' = [place EXCEPT ![c] = "closed"]
        /\ open' \in [Conn -> BOOLEAN] /\ Release(c)
        /\ UNCHANGED <<accepting, kind, due, timer, stubs, closed, stop>>
    BY <1>1, <1>4 DEF Throw, request
  <2>2. "closed" \in Beyond \ Held
    BY DEF Beyond, Held
  <2> QED BY <1>1, <2>1, <2>2, HandlerEnds
<1>5. CASE FinishReq(c)
  <2>1. PICK q \in {"wait", "write"} : place' = [place EXCEPT ![c] = q]
    BY <1>5 DEF FinishReq
  <2>2. /\ place[c] = "handle" /\ Release(c) /\ timer' \in [Conn -> {"none", "armed", "over"}]
        /\ UNCHANGED <<accepting, kind, open, due, stubs, closed, stop>>
    BY <1>1, <1>5 DEF FinishReq, request
  <2>3. q \in Beyond \ Held
    BY DEF Beyond, Held
  <2> QED BY <1>1, <2>1, <2>2, <2>3, HandlerEnds
<1>6. CASE CheckDeadline(c)
  <2>1. /\ timer' \in [Conn -> {"none", "armed", "over"}] /\ open' \in [Conn -> BOOLEAN]
        /\ place' = IF place[c] = "wait" THEN [place EXCEPT ![c] = "closed"] ELSE place
        /\ UNCHANGED <<accepting, kind, due, busy, stubs, closed, stop>>
    BY <1>1, <1>6 DEF CheckDeadline, request
  <2>2. CASE place[c] = "wait"
    <3>1. place[c] \in Beyond \ Held /\ "closed" \in Beyond \ Held
      BY <2>2 DEF Beyond, Held
    <3> QED BY <1>1, <2>1, <2>2, <3>1, MoveInv
  <2>3. CASE place[c] # "wait"
    BY <1>1, <2>1, <2>3, StayInv
  <2> QED BY <2>2, <2>3
<1>7. CASE WriteResponse(c)
  <2>1. /\ place[c] = "write" /\ place' = [place EXCEPT ![c] = "closed"]
        /\ timer' \in [Conn -> {"none", "armed", "over"}] /\ open' \in [Conn -> BOOLEAN]
        /\ UNCHANGED <<accepting, kind, due, busy, stubs, closed, stop>>
    BY <1>1, <1>7 DEF WriteResponse, request
  <2>2. place[c] \in Beyond \ Held /\ "closed" \in Beyond \ Held
    BY <2>1 DEF Beyond, Held
  <2> QED BY <1>1, <2>1, <2>2, MoveInv
<1>8. CASE NullStub(c)
  BY <1>8, CrashInv DEF NullStub
<1> QED BY <1>2, <1>3, <1>4, <1>5, <1>6, <1>7, <1>8 DEF Handler

(* A step of the client, the socket or a timer.                            *)
LEMMA NetworkInv ==
  ASSUME Parameters, HttpInv, NEW c \in Conn, Network(c)
  PROVE  HttpInv'
<1>1. /\ open \in [Conn -> BOOLEAN] /\ due \in [Conn -> BOOLEAN]
      /\ timer \in [Conn -> {"none", "armed", "over"}]
  BY DEF HttpInv, HttpTypeOK
<1>2. CASE Accept(c)
  BY <1>1, <1>2, AcceptEnds DEF Accept, request
<1>3. CASE AcceptError(c)
  BY <1>1, <1>3, AcceptEnds DEF AcceptError, request
<1>4. CASE ReadError(c)
  <2>1. /\ place[c] = "reading" /\ place' = [place EXCEPT ![c] = "closed"]
        /\ open' \in [Conn -> BOOLEAN]
        /\ UNCHANGED <<accepting, kind, due, timer, busy, stubs, closed, stop>>
    BY <1>1, <1>4 DEF ReadError, request
  <2>2. place[c] \in Beyond \ Held /\ "closed" \in Beyond \ Held
    BY <2>1 DEF Beyond, Held
  <2> QED BY <1>1, <2>1, <2>2, MoveInv
<1>5. CASE WriteResponse(c)
  BY <1>5, HandlerInv
<1>6. CASE \E k \in Asks[c] : ReadRequest(c, k)
  BY <1>6, ReadRequestInv DEF Parameters
<1> QED BY <1>2, <1>3, <1>4, <1>5, <1>6 DEF Network

(* Every step of HttpConn keeps the invariant.                             *)
LEMMA HttpNextInv ==
  ASSUME Parameters, HttpInv, HttpNext
  PROVE  HttpInv'
<1>1. /\ open \in [Conn -> BOOLEAN] /\ due \in [Conn -> BOOLEAN]
      /\ timer \in [Conn -> {"none", "armed", "over"}] /\ stop \in {"no", "signalled", "joining", "ended", "crashed"}
  BY DEF HttpInv, HttpTypeOK
<1>2. ASSUME NEW c \in Conn, Handler(c) PROVE HttpInv'
  BY <1>2, HandlerInv
<1>3. ASSUME NEW c \in Conn, Network(c) PROVE HttpInv'
  BY <1>3, NetworkInv
<1>4. ASSUME NEW c \in Conn, SixtySeconds(c) PROVE HttpInv'
  <2>1. /\ due' \in [Conn -> BOOLEAN]
        /\ UNCHANGED <<accepting, place, kind, open, timer, busy, stubs, closed, stop>>
    BY <1>1, <1>4 DEF SixtySeconds, request
  <2> QED BY <1>1, <2>1, StayInv
<1>5. CASE Signal
  BY <1>5, SignalInv
<1>6. CASE Join
  BY <1>1, <1>6, StayInv DEF Join, request
<1>7. CASE DestroyLogic
  BY <1>1, <1>7, StayInv DEF DestroyLogic, request
<1>8. ASSUME NEW p \in Pool, Close(p) PROVE HttpInv'
  BY <1>8, CloseInv
<1>9. ASSUME NEW c \in Conn, UseDestroyed(c) PROVE HttpInv'
  BY <1>9, CrashInv DEF UseDestroyed
<1> QED BY <1>2, <1>3, <1>4, <1>5, <1>6, <1>7, <1>8, <1>9 DEF HttpNext, Shutdown

(* The invariant holds always.                                             *)
LEMMA HttpInductive ==
  ASSUME Parameters
  PROVE  HttpSpec => []HttpInv
<1>1. HttpInit => HttpInv
  BY HttpInitInv
<1>2. HttpInv /\ [HttpNext]_(httpVars) => HttpInv'
  <2> SUFFICES ASSUME HttpInv, [HttpNext]_(httpVars) PROVE HttpInv'
    OBVIOUS
  <2>1. CASE HttpNext
    BY <2>1, HttpNextInv
  <2>2. CASE UNCHANGED httpVars
    <3>1. /\ open \in [Conn -> BOOLEAN] /\ due \in [Conn -> BOOLEAN]
          /\ timer \in [Conn -> {"none", "armed", "over"}] /\ stop \in {"no", "signalled", "joining", "ended", "crashed"}
      BY DEF HttpInv, HttpTypeOK
    <3> QED BY <2>2, <3>1, StayInv DEF httpVars, request
  <2> QED BY <2>1, <2>2
<1> QED BY <1>1, <1>2, PTL DEF HttpSpec

(* Until the signal the gate listens, whatever happens to any number of    *)
(* connections, and a thread runs one handler at a time: an accept that    *)
(* fails, a handler that throws, a call that waits for a stub.             *)
THEOREM GateKeepsListening == HttpSpec => []KeepsListening
<1>1. HttpInv => KeepsListening
  BY HttpImplies, ParametersAssumption
<1>2. HttpSpec => []HttpInv
  BY ParametersAssumption, HttpInductive
<1> QED BY <1>1, <1>2, PTL

(* No stub is lost or returned twice, whether calls succeed or fail: until *)
(* its pool is closed, each is in it or in use by one connection that      *)
(* calls.                                                                  *)
THEOREM NoStubIsLost ==
  HttpSpec => [](\A p \in Pool \ closed : stubs[p] + Cardinality(Calling(p)) = Stubs)
<1>1. HttpInv => \A p \in Pool \ closed : stubs[p] + Cardinality(Calling(p)) = Stubs
  BY DEF HttpInv, StubsInv
<1>2. HttpSpec => []HttpInv
  BY ParametersAssumption, HttpInductive
<1> QED BY <1>1, <1>2, PTL
=============================================================================
