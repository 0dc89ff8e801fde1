------------------------------ MODULE Accounts ------------------------------
(***************************************************************************)
(* The gate server's accounts in MySQL: registration, password reset and   *)
(* the password check of a login.                                          *)
(*                                                                         *)
(* Requests run on the io threads of the gate, each with a connection of   *)
(* the pool, and meet in the tables user and user_id.  A step is one SQL   *)
(* statement.  MySQL is used at its default isolation: a transaction reads *)
(* from the snapshot of its first SELECT, sees its own writes, and keeps   *)
(* the row it updated locked until it ends.  The schema is not in the      *)
(* repository: no unique index is assumed, the checks are the program's.   *)
(* The verification code is compared before (module VerifyCode), and a     *)
(* login goes on with the status server (module LoginFlow).                *)
(***************************************************************************)
EXTENDS Integers, Sequences, FiniteSets

CONSTANTS Request, Email, Name, Pwd, None,
          Kind,          \* what a request asks for
          MayAsk         \* the emails, names and passwords it may come with

Ask == [email : Email, name : Name, pwd : Pwd]

ASSUME KindAssumption == Kind \in [Request -> {"register", "reset", "login"}]
ASSUME MayAskAssumption == MayAsk \in [Request -> SUBSET Ask]
ASSUME NoneAssumption == None \notin Request \cup Email \cup Name \cup Pwd

VARIABLES
  req,       \* each request: place, parameters, local variables, answer
  user,      \* table user: the committed rows in commit order
  userId,    \* table user_id: the committed counter
  lock       \* the request whose transaction has the row of user_id locked

mysql == <<user, userId, lock>>
vars == <<req, mysql>>

(* A row without the history in it.                                        *)
Plain(row) == [uid |-> row.uid, name |-> row.name, email |-> row.email, pwd |-> row.pwd]

UT == INSTANCE UserTable WITH users <- [i \in DOMAIN user |-> Plain(user[i])],
                              counter <- userId

(* snap: how many rows the request's first SELECT saw; before: the resets  *)
(* that had been answered when it began (history).                         *)
Idle == [pc |-> "idle", email |-> None, name |-> None, pwd |-> None,
         snap |-> 0, uid |-> 0, before |-> {}, ans |-> "none"]

Row == [uid : Nat, name : Name, email : Email, pwd : Pwd, snap : Nat]

Init == /\ req = [r \in Request |-> Idle]
        /\ user = <<>>
        /\ userId = 0
        /\ lock = None

At(r, place) == req[r].pc = place
Goto(r, place) == req' = [req EXCEPT ![r].pc = place]

(* The answers: 0 with the request's data, or one of the errors.           *)
Succeed(r) == req' = [req EXCEPT ![r] = [@ EXCEPT !.pc = "done", !.ans = "ok"]]
Refuse(r) == req' = [req EXCEPT ![r] = [Idle EXCEPT !.pc = "done", !.ans = "error"]]

(* The request goes on, having looked at the rows that are there now.      *)
Snapshot(r, place) ==
  req' = [req EXCEPT ![r] = [@ EXCEPT !.pc = place, !.snap = Len(user)]]

Rows(r) == {i \in DOMAIN user : user[i].email = req[r].email}
Named(r) == {i \in DOMAIN user : user[i].name = req[r].name}

-----------------------------------------------------------------------------
(* The beginnings of the three handlers.                                   *)

ErrorJson(r) == At(r, "idle") /\ Refuse(r) /\ UNCHANGED mysql

Start(r, ask, place) ==
  /\ At(r, "idle") /\ ask \in MayAsk[r]
  /\ req' = [req EXCEPT ![r] = [@ EXCEPT
       !.pc = place, !.email = ask.email, !.name = ask.name, !.pwd = ask.pwd,
       !.before = {q \in Request : Kind[q] = "reset" /\ req[q].ans = "ok"}]]
  /\ UNCHANGED mysql

UserRegister(r, ask) == Kind[r] = "register" /\ Start(r, ask, "email")
ResetPwd(r, ask) == Kind[r] = "reset" /\ Start(r, ask, "check")
UserLogin(r, ask) == Kind[r] = "login" /\ Start(r, ask, "pwd")

-----------------------------------------------------------------------------
(* RegUserTransaction.                                                     *)

(* Mutant: only the name is checked.                                       *)
SelectEmail_Skipped(r) ==
  /\ At(r, "email")
  /\ Snapshot(r, "name")
  /\ UNCHANGED mysql

(* The first SELECT takes the snapshot; an email or a name that exists     *)
(* ends in a rollback of nothing and the result 0.                         *)
SelectEmail(r) ==
  /\ At(r, "email")
  /\ IF Rows(r) # {}
       THEN Refuse(r)
       ELSE Snapshot(r, "name")
  /\ UNCHANGED mysql

SelectName(r) ==
  /\ At(r, "name")
  /\ IF \E i \in Named(r) : i <= req[r].snap THEN Refuse(r) ELSE Goto(r, "update")
  /\ UNCHANGED mysql

(* Mutant: autocommit was left on, the row is not kept locked.             *)
UpdateId_AutoCommit(r) ==
  /\ At(r, "update") /\ lock = None
  /\ userId' = userId + 1
  /\ Goto(r, "select")
  /\ UNCHANGED <<user, lock>>

(* UPDATE user_id SET id = id + 1, once no other transaction has the row.  *)
UpdateId(r) ==
  /\ At(r, "update") /\ lock = None
  /\ lock' = r
  /\ Goto(r, "select")
  /\ UNCHANGED <<user, userId>>

(* SELECT id FROM user_id sees the transaction's own update.               *)
SelectId(r) ==
  /\ At(r, "select")
  /\ LET id == IF lock = r THEN userId + 1 ELSE userId
     IN req' = [req EXCEPT ![r] = [@ EXCEPT !.pc = "insert", !.uid = id]]
  /\ UNCHANGED mysql

(* The inserted row is the transaction's own until the commit.             *)
Insert(r) == At(r, "insert") /\ Goto(r, "commit") /\ UNCHANGED mysql

NewRow(r) == [uid |-> req[r].uid, name |-> req[r].name, email |-> req[r].email,
              pwd |-> req[r].pwd, snap |-> req[r].snap]

Unlock(r) == IF lock = r THEN None ELSE lock

CommitRow(r) == /\ user' = Append(user, NewRow(r))
                /\ userId' = IF lock = r THEN userId + 1 ELSE userId
                /\ lock' = Unlock(r)

Commit(r) == At(r, "commit") /\ CommitRow(r) /\ Succeed(r)

(* Mutant: no rollback in the catch block, the row stays locked.           *)
RegUserFails_NoRollback(r) ==
  /\ req[r].pc \in {"email", "name", "update", "select", "insert", "commit"}
  /\ Refuse(r)
  /\ UNCHANGED mysql

(* A statement throws (a lost connection, a lock wait that timed out), or  *)
(* user_id has no row: rollback and -1, answered as an existing user.  If  *)
(* the rollback throws as well there is no answer, and MySQL rolls back.   *)
RegUserFails(r) ==
  /\ req[r].pc \in {"email", "name", "update", "select", "insert", "commit"}
  /\ Refuse(r)
  /\ lock' = Unlock(r)
  /\ UNCHANGED <<user, userId>>

(* The commit was done but its answer is lost.                             *)
CommitAnswerLost(r) == At(r, "commit") /\ CommitRow(r) /\ Refuse(r)

-----------------------------------------------------------------------------
(* Mutant: the emails are not compared.                                    *)
CheckEmail_AnyEmail(r) ==
  /\ At(r, "check")
  /\ Snapshot(r, "set_pwd")
  /\ UNCHANGED mysql

(* CheckEmail: the first row of the name, in whatever order the rows come, *)
(* must have the email; without a row it is true.                          *)
CheckEmail(r) ==
  /\ At(r, "check")
  /\ \/ Named(r) = {} /\ Goto(r, "set_pwd")
     \/ \E i \in Named(r) :
          IF user[i].email = req[r].email
            THEN Snapshot(r, "set_pwd")
            ELSE Refuse(r)
  /\ UNCHANGED mysql

Updated(r) ==
  [i \in DOMAIN user |-> IF i \in Rows(r) THEN [user[i] EXCEPT !.pwd = req[r].pwd]
                                          ELSE user[i]]

Inserted(e) == {q \in Request : At(q, "commit") /\ req[q].email = e}

(* Mutant: the parameters of the UPDATE are swapped, it finds no row.      *)
UpdatePwd_Swapped(r) ==
  /\ At(r, "set_pwd") /\ Inserted(req[r].email) = {}
  /\ Succeed(r)
  /\ UNCHANGED mysql

(* UpdatePwd: the rows of the email, once those being inserted are         *)
(* committed or gone; how many were updated is not looked at.              *)
UpdatePwd(r) ==
  /\ At(r, "set_pwd") /\ Inserted(req[r].email) = {}
  /\ user' = Updated(r)
  /\ Succeed(r)
  /\ UNCHANGED <<userId, lock>>

(* A query throws: an error is answered; the UPDATE may have been done,    *)
(* and then the record keeps what it wrote.                                *)
ResetFails(r) ==
  /\ \/ req[r].pc \in {"check", "set_pwd"} /\ Refuse(r) /\ UNCHANGED user
     \/ /\ At(r, "set_pwd") /\ Inserted(req[r].email) = {}
        /\ user' = Updated(r)
        /\ req' = [req EXCEPT ![r] = [@ EXCEPT !.pc = "done", !.ans = "error"]]
  /\ UNCHANGED <<userId, lock>>

-----------------------------------------------------------------------------
(* CheckPwd: one row of the email decides; none, or a failed query, is a   *)
(* wrong password.                                                         *)
CheckPwd(r) ==
  /\ At(r, "pwd")
  /\ \/ Refuse(r)
     \/ \E i \in Rows(r) :
          /\ user[i].pwd = req[r].pwd
          /\ req' = [req EXCEPT ![r] = [@ EXCEPT !.pc = "done", !.ans = "ok", !.uid = user[i].uid]]
  /\ UNCHANGED mysql

-----------------------------------------------------------------------------
Handle(r) == \/ SelectEmail(r) \/ SelectName(r) \/ UpdateId(r) \/ SelectId(r)
             \/ Insert(r) \/ Commit(r)
             \/ CheckEmail(r) \/ UpdatePwd(r)
             \/ CheckPwd(r)

Fault(r) == RegUserFails(r) \/ CommitAnswerLost(r) \/ ResetFails(r)

Client(r) == \/ ErrorJson(r)
             \/ \E ask \in MayAsk[r] : \/ UserRegister(r, ask)
                                       \/ ResetPwd(r, ask)
                                       \/ UserLogin(r, ask)

Next == \E r \in Request : Handle(r) \/ Fault(r) \/ Client(r)

(* The gate's threads run their handlers; no client has to ask and nothing *)
(* has to fail.                                                            *)
Spec == Init /\ [][Next]_vars /\ \A r \in Request : WF_vars(Handle(r))

-----------------------------------------------------------------------------
(* The types; the counter is locked only by a registration past its UPDATE.*)
TypeOK ==
  /\ req \in [Request -> [pc : {"idle", "email", "name", "update", "select", "insert",
                                "commit", "check", "set_pwd", "pwd", "done"},
                          email : Email \cup {None}, name : Name \cup {None},
                          pwd : Pwd \cup {None}, snap : Nat, uid : Nat,
                          before : SUBSET Request, ans : {"none", "ok", "error"}]]
  /\ user \in Seq(Row)
  /\ userId \in Nat
  /\ lock \in {r \in Request : req[r].pc \in {"select", "insert", "commit"}} \cup {None}

(* The types; and no two users ever have the same uid, and the counter is  *)
(* not below any of them: it is read in the transaction that has it        *)
(* locked, after its own update, and a transaction that fails takes its    *)
(* increment back.  ImplementsUserTable, below, implies it.                *)
UidsUnique ==
  /\ TypeOK
  /\ \A i, j \in DOMAIN user : user[i].uid = user[j].uid => i = j
  /\ \A i \in DOMAIN user : user[i].uid \in 1..userId

(* Two users have the same name or email only if their registrations ran   *)
(* at the same time, that is, the later one had taken its snapshot before  *)
(* the earlier one committed.                                              *)
SameOnlyIfConcurrent ==
  \A i, j \in DOMAIN user :
    i < j /\ (user[i].email = user[j].email \/ user[i].name = user[j].name)
      => user[j].snap < i

(* The types; and what the client is told has happened: a registration     *)
(* that was answered with 0 is stored under the uid in the answer; a reset *)
(* that was answered with 0 and had found its name belongs to a user of    *)
(* that name and email.                                                    *)
SuccessIsStored ==
  /\ TypeOK
  /\ \A r \in Request :
       req[r].ans = "ok"
         => /\ Kind[r] = "register"
                 => \E i \in Rows(r) \cap Named(r) : user[i].uid = req[r].uid
            /\ Kind[r] = "reset" /\ (\E i \in Named(r) : i <= req[r].snap)
                 => Rows(r) \cap Named(r) # {}

(* A login that begins after a reset of the user's password was answered   *)
(* is accepted only with the password of that reset, or of a reset of the  *)
(* same email that was not answered yet when that one began; except for    *)
(* users stored after the reset began to look.                             *)
OldPwdRefused ==
  \A r, q \in Request : \A i \in DOMAIN user :
    /\ Kind[r] = "login" /\ req[r].ans = "ok"
    /\ q \in req[r].before /\ req[q].email = req[r].email
    /\ user[i].uid = req[r].uid /\ i <= req[q].snap
    => \E p \in Request \ req[q].before : /\ Kind[p] = "reset"
                                         /\ req[p].email = req[r].email
                                         /\ req[p].pwd = req[r].pwd

(* Statement by statement, and whatever fails, the gate keeps the table of *)
(* users that the other servers rely on.                                   *)
ImplementsUserTable == UT!Spec

(* Every request ends, so no failed registration leaves the counter locked.*)
RequestsAreAnswered == \A r \in Request : req[r].pc # "idle" ~> At(r, "done")
=============================================================================
