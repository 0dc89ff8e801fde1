----------------------------- MODULE VerifyCode -----------------------------
(***************************************************************************)
(* Verification codes: the gate's /get_verifycode, the verify server's     *)
(* GetVerifyCode that makes, stores and mails a code, and the comparison   *)
(* with which the gate's /user_register and /reset_pwd begin.              *)
(*                                                                         *)
(* GetVerifyCode is an asynchronous function of one JavaScript thread:     *)
(* other requests run whenever it awaits Redis or the mail server.  Redis  *)
(* keeps one code per email.  A step is one Redis command or one mail.     *)
(***************************************************************************)
EXTENDS Integers, FiniteSets

CONSTANTS Request, Email, None, Wrong,
          Kind,          \* what a request asks for
          MayAsk         \* the emails it may come with

ASSUME KindAssumption == Kind \in [Request -> {"code", "user"}]
ASSUME MayAskAssumption == MayAsk \in [Request -> SUBSET Email]
ASSUME NoneAssumption == /\ None \notin Request \cup Email
                         /\ Wrong \notin Request \cup {None}

VARIABLES
  req,       \* each request: place, email, code it works with, answer
  code,      \* Redis code_<email>: the code and whether it has a time to live
  mails,     \* history: the codes mailed to each email
  newest,    \* history: the code last mailed to each email
  sole,      \* history: requests for a code that no other one overlapped
  behind,    \* history: emails for which requests overlapped, or one did not
             \* mail what it had stored, and no sole request has mailed since
  lasting    \* history: emails whose SET or EXPIRE failed, leaving no time to
             \* live, and for which no EXPIRE has worked since

redis == <<code, lasting>>
mail == <<mails, newest, sole, behind>>
vars == <<req, redis, mail>>

Code == Request            \* a generated code is named by its request

Init == /\ req = [r \in Request |->
                    [pc |-> "idle", email |-> None, code |-> None, ans |-> "none"]]
        /\ code = [e \in Email |-> [val |-> None, ttl |-> FALSE]]
        /\ mails = [e \in Email |-> {}]
        /\ newest = [e \in Email |-> None]
        /\ sole = {} /\ behind = {}
        /\ lasting = {}

At(r, place) == req[r].pc = place
Goto(r, place) == req' = [req EXCEPT ![r].pc = place]
Work(r, place, c) == req' = [req EXCEPT ![r] = [@ EXCEPT !.pc = place, !.code = c]]

(* The end of a request; an answer that was given before stays.            *)
End(r, answer) ==
  LET ans == IF req[r].ans = "none" THEN answer ELSE req[r].ans
  IN req' = [req EXCEPT ![r] = [@ EXCEPT !.pc = "done", !.ans = ans]]

-----------------------------------------------------------------------------
(* The gate: a body that is not JSON or has no email, ...                  *)
ErrorJson(r) == At(r, "idle") /\ End(r, "error") /\ UNCHANGED <<redis, mail>>

Overlapping(e) ==
  {q \in Request : Kind[q] = "code" /\ req[q].email = e /\ ~At(q, "done")}

(* ... or a call of the verify server.                                     *)
GetVerifyCode(r, e) ==
  /\ At(r, "idle") /\ Kind[r] = "code" /\ e \in MayAsk[r]
  /\ req' = [req EXCEPT ![r] = [@ EXCEPT !.pc = "get", !.email = e]]
  /\ IF Overlapping(e) = {}
       THEN sole' = sole \cup {r} /\ UNCHANGED behind
       ELSE sole' = sole \ Overlapping(e) /\ behind' = behind \cup {e}
  /\ UNCHANGED <<redis, mails, newest>>

(* The call fails for the gate; the verify server goes on with it.         *)
RpcFailed(r) ==
  /\ Kind[r] = "code" /\ req[r].pc \notin {"idle", "done"} /\ req[r].ans = "none"
  /\ req' = [req EXCEPT ![r].ans = "error"]
  /\ UNCHANGED <<redis, mail>>

-----------------------------------------------------------------------------
(* The verify server.                                                      *)

(* Mutant: a new code is mailed although one is stored.                    *)
GetRedis_NotStored(r) ==
  /\ At(r, "get")
  /\ Work(r, IF code[req[r].email].val = None THEN "set" ELSE "send", r)
  /\ UNCHANGED <<redis, mail>>

(* GET: a stored code is mailed again; none, or an error, makes a new one. *)
GetRedis(r) ==
  /\ At(r, "get")
  /\ \E found \in {code[req[r].email].val, None} :
       IF found = None THEN Work(r, "set", r) ELSE Work(r, "send", found)
  /\ UNCHANGED <<redis, mail>>

(* SET drops the time to live of the key; EXPIRE follows.                  *)
SetCode(r) ==
  /\ At(r, "set")
  /\ code' = [code EXCEPT ![req[r].email] = [val |-> req[r].code, ttl |-> FALSE]]
  /\ Goto(r, "expire")
  /\ UNCHANGED <<lasting, mail>>

(* Mutant: the key is stored without a time to live.                       *)
SetExpire_Skipped(r) == At(r, "expire") /\ Goto(r, "send") /\ UNCHANGED <<redis, mail>>

(* EXPIRE of the key, whoever stored it, if it is still there.             *)
SetExpire(r) ==
  /\ At(r, "expire")
  /\ code' = [code EXCEPT ![req[r].email].ttl = code[req[r].email].val # None]
  /\ lasting' = lasting \ {req[r].email}
  /\ Goto(r, "send")
  /\ UNCHANGED mail

(* SET fails, with or without its effect, or EXPIRE does: the answer is    *)
(* RedisErr and no mail is sent.                                           *)
SetRedisFails(r) ==
  /\ \/ At(r, "set") /\ UNCHANGED <<redis, behind>>
     \/ /\ At(r, "set") /\ code' = [code EXCEPT ![req[r].email] = [val |-> req[r].code, ttl |-> FALSE]]
        /\ lasting' = lasting \cup {req[r].email} /\ behind' = behind \cup {req[r].email}
     \/ /\ At(r, "expire") /\ UNCHANGED code
        /\ lasting' = lasting \cup {req[r].email} /\ behind' = behind \cup {req[r].email}
  /\ End(r, "error")
  /\ UNCHANGED <<mails, newest, sole>>

SendMail(r) ==
  /\ At(r, "send")
  /\ mails' = [mails EXCEPT ![req[r].email] = @ \cup {req[r].code}]
  /\ newest' = [newest EXCEPT ![req[r].email] = req[r].code]
  /\ behind' = IF r \in sole THEN behind \ {req[r].email} ELSE behind
  /\ End(r, "ok")
  /\ UNCHANGED <<redis, sole>>

(* The mail fails; a code that r has stored itself is in no mail then.     *)
SendMailFails(r) ==
  /\ At(r, "send")
  /\ behind' = IF req[r].code = r THEN behind \cup {req[r].email} ELSE behind
  /\ End(r, "error")
  /\ UNCHANGED <<redis, mails, newest, sole>>

(* 600 seconds have passed.                                                *)
Expire(e) ==
  /\ code[e].val # None /\ code[e].ttl
  /\ code' = [code EXCEPT ![e] = [val |-> None, ttl |-> FALSE]]
  /\ UNCHANGED <<req, lasting, mail>>

-----------------------------------------------------------------------------
(* A registration or a reset comes with a code from a mail, which may have *)
(* been to another email, or with a wrong one.                             *)
UserRequest(r, e, c) ==
  /\ At(r, "idle") /\ Kind[r] = "user" /\ e \in MayAsk[r]
  /\ c = Wrong \/ \E m \in Email : c \in mails[m]
  /\ req' = [req EXCEPT ![r] = [@ EXCEPT !.pc = "check", !.email = e, !.code = c]]
  /\ UNCHANGED <<redis, mail>>

(* GET of the gate: the value, or nothing when there is none or it fails.  *)
Get(e) == {code[e].val, None}

(* Mutant: a code that cannot be read counts as right.                     *)
CheckCode_Missing(r) ==
  /\ At(r, "check")
  /\ \E val \in Get(req[r].email) :
       End(r, IF val \in {None, req[r].code} THEN "ok" ELSE "error")
  /\ UNCHANGED <<redis, mail>>

(* A missing or different code is an error.                                *)
Compare(r, val) == IF val = req[r].code THEN "ok" ELSE "error"

CheckCode(r) ==
  /\ At(r, "check")
  /\ \E val \in Get(req[r].email) : End(r, Compare(r, val))
  /\ UNCHANGED <<redis, mail>>

-----------------------------------------------------------------------------
Handle(r) == \/ GetRedis(r) \/ SetCode(r) \/ SetExpire(r) \/ SendMail(r)
             \/ CheckCode(r)

Fault(r) == RpcFailed(r) \/ SetRedisFails(r) \/ SendMailFails(r)

Client(r) == \/ ErrorJson(r)
             \/ \E e \in Email : GetVerifyCode(r, e)
             \/ \E e \in Email, c \in Code \cup {Wrong} : UserRequest(r, e, c)

Next == \/ \E r \in Request : Handle(r) \/ Fault(r) \/ Client(r)
        \/ \E e \in Email : Expire(e)

(* Both servers run their handlers, and time passes; no client has to ask  *)
(* and nothing has to fail.                                                *)
Spec == /\ Init /\ [][Next]_vars
        /\ \A r \in Request : WF_vars(Handle(r))
        /\ \A e \in Email : WF_vars(Expire(e))

-----------------------------------------------------------------------------
(* The types: every request is at a place of its handler.                  *)
TypeOK ==
  /\ req \in [Request -> [pc : {"idle", "get", "set", "expire", "send", "check", "done"},
                          email : Email \cup {None}, code : Code \cup {None, Wrong},
                          ans : {"none", "ok", "error"}]]
  /\ code \in [Email -> [val : Code \cup {None}, ttl : BOOLEAN]]
  /\ mails \in [Email -> SUBSET Code]
  /\ newest \in [Email -> Code \cup {None}]
  /\ sole \subseteq Request /\ behind \subseteq Email /\ lasting \subseteq Email

(* The types; and a code without a time to live is about to get one,       *)
(* although the SET of one request drops the time to live that another has *)
(* just set, unless a command failed and no EXPIRE has worked since: codes *)
(* do not stay valid by a race.                                            *)
TimeToLiveFollows ==
  /\ TypeOK
  /\ \A e \in Email :
    /\ code[e].ttl => code[e].val # None
    /\ code[e].val # None /\ ~code[e].ttl
         => e \in lasting \/ \E r \in Request : At(r, "expire") /\ req[r].email = e

(* A request has stored a code of its own and not mailed it yet.           *)
Replacing(e) ==
  \E r \in Request : /\ Kind[r] = "code" /\ req[r].email = e
                     /\ At(r, "expire") \/ (At(r, "send") /\ req[r].code = r)

(* The code in the last mail to an email is the one the gate compares      *)
(* with, until it expires, whatever GET, SET and mails fail; and no code   *)
(* is stored without a mail.  But for what the code does not prevent: two  *)
(* requests that overlap, and one that fails after its SET, leave another  *)
(* code behind the mail, until a request alone has mailed what is stored.  *)
MailedCodeIsCurrent ==
  \A e \in Email :
    e \notin behind /\ ~Replacing(e) => code[e].val \in {None, newest[e]}

(* A registration or a reset gets past the comparison only with a code     *)
(* that was mailed to its own email.                                       *)
OnlyMailedCodePasses ==
  \A r \in Request :
    Kind[r] = "user" /\ req[r].ans = "ok" => req[r].code \in mails[req[r].email]

(* A stored code goes away, unless one of its commands failed and no       *)
(* EXPIRE has worked since.                                                *)
CodesExpire ==
  \A e \in Email : code[e].val # None ~> (code[e].val = None \/ e \in lasting)
=============================================================================
