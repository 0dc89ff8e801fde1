-------------------------- MODULE VerifyCodeProofs --------------------------
(***************************************************************************)
(* Theorems about VerifyCode, for any number of requests and emails: codes *)
(* get their time to live, only a code that was mailed to an email passes  *)
(* for it, and the last code mailed is the one it is compared with.        *)
(***************************************************************************)
EXTENDS VerifyCode, TLAPS

(* A code belongs to the email of the request that made it, wherever it    *)
(* is: with a request that works on it, in Redis, or in a mail.  A request *)
(* has an email from its beginning on, which never changes.                *)
PlacesInv ==
  \A r \in Request :
    /\ At(r, "idle") => req[r].email = None /\ req[r].ans = "none"
    /\ req[r].pc \in {"get", "set", "expire", "send"} => Kind[r] = "code" /\ req[r].email \in Email
    /\ At(r, "check") => Kind[r] = "user" /\ req[r].email \in Email
    /\ Kind[r] = "user" /\ req[r].ans = "ok" => req[r].email \in Email

OwnersInv ==
  /\ \A r \in Request :
       req[r].pc \in {"set", "expire", "send"}
         => req[r].code \in Code /\ req[req[r].code].email = req[r].email
  /\ \A e \in Email : code[e].val # None => req[code[e].val].email = e
  /\ \A e \in Email : \A c \in mails[e] : req[c].email = e

CarriedInv ==
  \A r \in Request :
    At(r, "check") => req[r].code = Wrong \/ \E m \in Email : req[r].code \in mails[m]

(* TimeToLiveFollows without the types.                                    *)
LastingInv ==
  \A e \in Email :
    /\ code[e].ttl => code[e].val # None
    /\ code[e].val # None /\ ~code[e].ttl
         => e \in lasting \/ \E q \in Request : At(q, "expire") /\ req[q].email = e

IInv == TimeToLiveFollows /\ PlacesInv /\ OwnersInv /\ CarriedInv /\ OnlyMailedCodePasses

Places == {"idle", "get", "set", "expire", "send", "check", "done"}
Req == [pc : Places, email : Email \cup {None}, code : Code \cup {None, Wrong},
        ans : {"none", "ok", "error"}]

(* What a step that replaces the record of one request does.               *)
LEMMA Replaced ==
  ASSUME TypeOK, NEW r \in Request, NEW x \in Req, req' = [req EXCEPT ![r] = x]
  PROVE  /\ req' \in [Request -> Req] /\ req'[r] = x
         /\ \A q \in Request \ {r} : req'[q] = req[q]
  BY DEF TypeOK, Req, Places

(* What the three ways to go on do to the request, and to no other one.    *)
LEMMA GotoMoves ==
  ASSUME TypeOK, NEW r \in Request, NEW p \in Places, Goto(r, p)
  PROVE  /\ req' \in [Request -> Req]
         /\ \A q \in Request \ {r} : req'[q] = req[q]
         /\ req'[r].pc = p /\ req'[r].email = req[r].email
         /\ req'[r].code = req[r].code /\ req'[r].ans = req[r].ans
<1> DEFINE x == [req[r] EXCEPT !.pc = p]
<1>1. x \in Req /\ x.pc = p /\ x.email = req[r].email /\ x.code = req[r].code /\ x.ans = req[r].ans
  <2>1. req[r] \in Req
    BY DEF TypeOK, Req, Places
  <2> HIDE DEF TypeOK, Goto
  <2> QED BY <2>1 DEF Req
<1>2. req' = [req EXCEPT ![r] = x]
  BY DEF Goto
<1> HIDE DEF x
<1> QED BY <1>1, <1>2, Replaced

(* The same of a request that goes on with another code.                   *)
LEMMA WorkMoves ==
  ASSUME TypeOK, NEW r \in Request, NEW p \in Places, NEW c \in Code, Work(r, p, c)
  PROVE  /\ req' \in [Request -> Req]
         /\ \A q \in Request \ {r} : req'[q] = req[q]
         /\ req'[r].pc = p /\ req'[r].email = req[r].email
         /\ req'[r].code = c /\ req'[r].ans = req[r].ans
<1> DEFINE x == [req[r] EXCEPT !.pc = p, !.code = c]
<1>1. x \in Req /\ x.pc = p /\ x.email = req[r].email /\ x.code = c /\ x.ans = req[r].ans
  BY DEF TypeOK, Req, Places
<1>2. req' = [req EXCEPT ![r] = x]
  BY DEF Work
<1> HIDE DEF x
<1> QED BY <1>1, <1>2, Replaced

(* The same of a request that ends.                                        *)
LEMMA EndMoves ==
  ASSUME TypeOK, NEW r \in Request, NEW a \in {"ok", "error"}, End(r, a)
  PROVE  /\ req' \in [Request -> Req]
         /\ \A q \in Request \ {r} : req'[q] = req[q]
         /\ req'[r].pc = "done" /\ req'[r].email = req[r].email
         /\ req'[r].code = req[r].code
         /\ req'[r].ans = IF req[r].ans = "none" THEN a ELSE req[r].ans
<1> DEFINE b == IF req[r].ans = "none" THEN a ELSE req[r].ans
           x == [req[r] EXCEPT !.pc = "done", !.ans = b]
<1>1. x \in Req /\ x.pc = "done" /\ x.email = req[r].email /\ x.code = req[r].code /\ x.ans = b
  BY DEF TypeOK, Req, Places
<1>2. req' = [req EXCEPT ![r] = x]
  BY DEF End
<1> HIDE DEF x
<1> QED BY <1>1, <1>2, Replaced

(* In the beginning there is no code and no mail.                          *)
LEMMA InitIInv == Init => IInv
<1> SUFFICES ASSUME Init PROVE IInv
  OBVIOUS
<1>1. TypeOK
  BY DEF Init, TypeOK, Code
<1>2. \A r \in Request : At(r, "idle") /\ req[r].email = None /\ req[r].ans = "none"
  BY DEF Init, At
<1>3. \A e \in Email : code[e].val = None /\ ~code[e].ttl /\ mails[e] = {}
  BY DEF Init
<1>4. TimeToLiveFollows
  BY <1>1, <1>3 DEF TimeToLiveFollows
<1>5. PlacesInv /\ OwnersInv /\ CarriedInv /\ OnlyMailedCodePasses
  BY <1>2, <1>3 DEF PlacesInv, OwnersInv, CarriedInv, OnlyMailedCodePasses, At
<1> QED BY <1>4, <1>5 DEF IInv

-----------------------------------------------------------------------------
(* A step of a request that keeps its email: what is left to show of the   *)
(* request itself, of the codes in Redis, and of the mails.                *)
LEMMA Kept ==
  ASSUME IInv, NEW r \in Request,
         req' \in [Request -> Req],
         \A q \in Request \ {r} : req'[q] = req[q],
         req'[r].email = req[r].email,
         newest' \in [Email -> Code \cup {None}], sole' \subseteq Request, behind' \subseteq Email,
         code' \in [Email -> [val : Code \cup {None}, ttl : BOOLEAN]],
         mails' \in [Email -> SUBSET Code], lasting' \subseteq Email,
         \A e \in Email : mails[e] \subseteq mails'[e],
         LastingInv',
         req'[r].pc \in {"get", "set", "expire", "send", "done"},
         req'[r].pc # "done" => Kind[r] = "code" /\ req[r].email \in Email,
         req'[r].pc \in {"set", "expire", "send"}
           => req'[r].code \in Code /\ req[req'[r].code].email = req[r].email,
         \A e \in Email : code'[e].val # None => req[code'[e].val].email = e,
         \A e \in Email : \A c \in mails'[e] : req[c].email = e,
         Kind[r] = "user" /\ req'[r].ans = "ok"
           => req[r].email \in Email /\ req'[r].code \in mails'[req[r].email]
  PROVE  IInv'
<1>1. TypeOK /\ PlacesInv /\ OwnersInv /\ CarriedInv /\ OnlyMailedCodePasses
  BY DEF IInv, TimeToLiveFollows
<1>2. TypeOK'
  BY <1>1 DEF TypeOK, Req, Places
<1>3. TimeToLiveFollows'
  BY <1>2 DEF TimeToLiveFollows, LastingInv
<1>4. \A q \in Request : req'[q].email = req[q].email
  OBVIOUS
<1>5. PlacesInv'
  BY <1>1 DEF PlacesInv, At
<1>6. OwnersInv'
  <2>1. \A q \in Request : req'[q].pc \in {"set", "expire", "send"} =>
          req'[q].code \in Request /\ req[req'[q].code].email = req'[q].email
    BY <1>1 DEF OwnersInv, Code
  <2>2. \A e \in Email : code'[e].val # None => req'[code'[e].val].email = e
    BY <1>4 DEF Code
  <2>3. \A e \in Email : \A c \in mails'[e] : req'[c].email = e
    BY <1>4 DEF Code
  <2> QED BY <1>4, <2>1, <2>2, <2>3 DEF OwnersInv, Code
<1>7. CarriedInv'
  <2> SUFFICES ASSUME NEW q \in Request, req'[q].pc = "check"
               PROVE  req'[q].code = Wrong \/ \E m \in Email : req'[q].code \in mails'[m]
    BY DEF CarriedInv, At
  <2>1. q # r /\ req'[q] = req[q]
    OBVIOUS
  <2> QED BY <1>1, <2>1 DEF CarriedInv, At
<1>8. OnlyMailedCodePasses'
  <2> SUFFICES ASSUME NEW q \in Request, Kind[q] = "user", req'[q].ans = "ok"
               PROVE  req'[q].code \in mails'[req'[q].email]
    BY DEF OnlyMailedCodePasses
  <2>1. CASE q = r
    BY <2>1
  <2>2. CASE q # r
    <3>1. req'[q] = req[q] /\ req[q].code \in mails[req[q].email]
      BY <1>1, <2>2 DEF OnlyMailedCodePasses
    <3>2. req[q].email \in Email
      BY <1>1, <3>1, <2>2 DEF PlacesInv
    <3> QED BY <3>1, <3>2
  <2> QED BY <2>1, <2>2
<1> QED BY <1>3, <1>5, <1>6, <1>7, <1>8 DEF IInv

(* A request for a code: it has had no email, so nothing of it is anywhere.*)
LEMMA GetVerifyCodeIInv ==
  ASSUME IInv, NEW r \in Request, NEW e \in Email, GetVerifyCode(r, e)
  PROVE  IInv'
<1> USE DEF IInv
<1>0. TypeOK
  BY DEF TimeToLiveFollows
<1> DEFINE x == [req[r] EXCEPT !.pc = "get", !.email = e]
<1>1. x \in Req /\ x.pc = "get" /\ x.email = e /\ x.code = req[r].code /\ x.ans = req[r].ans
  BY <1>0 DEF TypeOK, Req, Places
<1>2. req' = [req EXCEPT ![r] = x]
  BY DEF GetVerifyCode
<1> HIDE DEF x
<1>3. /\ req' \in [Request -> Req] /\ req'[r] = x
      /\ \A q \in Request \ {r} : req'[q] = req[q]
  BY <1>1, <1>2, Replaced DEF TimeToLiveFollows
<1>4. UNCHANGED <<code, lasting, mails>> /\ At(r, "idle") /\ Kind[r] = "code"
  BY DEF GetVerifyCode, redis
<1>5. UNCHANGED newest /\ sole' \subseteq Request /\ behind' \subseteq Email
  BY DEF GetVerifyCode, TimeToLiveFollows, TypeOK, Overlapping
<1>6. req[r].email = None /\ None \notin Email
  BY <1>4, NoneAssumption DEF PlacesInv
<1>7. \A q \in Request : req[q].email \in Email => req'[q].email = req[q].email
  BY <1>3, <1>6
<1>8. TimeToLiveFollows'
  <2>1. TypeOK'
    BY <1>3, <1>4, <1>5 DEF TimeToLiveFollows, TypeOK, Req, Places
  <2>2. \A q \in Request : At(q, "expire") => At(q, "expire")' /\ req'[q].email = req[q].email
    BY <1>3, <1>4 DEF At
  <2> QED BY <1>4, <2>1, <2>2 DEF TimeToLiveFollows
<1>9. PlacesInv'
  BY <1>1, <1>3, <1>4 DEF PlacesInv, At
<1>10. OwnersInv'
  <2>1. \A q \in Request : req'[q].pc \in {"set", "expire", "send"} =>
          q # r /\ req'[q] = req[q] /\ req[q].email \in Email
    BY <1>1, <1>3 DEF PlacesInv
  <2>2. \A q \in Request : req'[q].pc \in {"set", "expire", "send"} =>
          req'[q].code \in Code /\ req'[req'[q].code].email = req'[q].email
    BY <1>7, <2>1 DEF OwnersInv, Code
  <2>3. \A f \in Email : code[f].val # None => req'[code[f].val].email = f
    BY <1>7 DEF OwnersInv, TimeToLiveFollows, TypeOK, Code
  <2>4. \A f \in Email : \A c \in mails[f] : req'[c].email = f
    BY <1>7 DEF OwnersInv, TimeToLiveFollows, TypeOK, Code
  <2> QED BY <1>4, <2>2, <2>3, <2>4 DEF OwnersInv
<1>11. CarriedInv'
  BY <1>1, <1>3, <1>4 DEF CarriedInv, At
<1>12. OnlyMailedCodePasses'
  BY <1>3, <1>4 DEF OnlyMailedCodePasses
<1> QED BY <1>8, <1>9, <1>10, <1>11, <1>12

(* A registration comes with a code from a mail, or with a wrong one.      *)
LEMMA UserRequestIInv ==
  ASSUME IInv, NEW r \in Request, NEW e \in Email, NEW c \in Code \cup {Wrong},
         UserRequest(r, e, c)
  PROVE  IInv'
<1> USE DEF IInv
<1>0. TypeOK
  BY DEF TimeToLiveFollows
<1> DEFINE x == [req[r] EXCEPT !.pc = "check", !.email = e, !.code = c]
<1>1. x \in Req /\ x.pc = "check" /\ x.email = e /\ x.code = c /\ x.ans = req[r].ans
  BY <1>0, ZenonT(60) DEF TypeOK, Req, Places
<1>2. req' = [req EXCEPT ![r] = x]
  BY DEF UserRequest
<1> HIDE DEF x
<1>3. /\ req' \in [Request -> Req] /\ req'[r] = x
      /\ \A q \in Request \ {r} : req'[q] = req[q]
  BY <1>1, <1>2, Replaced DEF TimeToLiveFollows
<1>4. /\ UNCHANGED <<code, lasting, mails, newest, sole, behind>> /\ At(r, "idle") /\ Kind[r] = "user"
      /\ c = Wrong \/ \E m \in Email : c \in mails[m]
  BY DEF UserRequest, redis, mail
<1>5. req[r].email = None /\ None \notin Email /\ req[r].ans = "none"
  BY <1>4, NoneAssumption DEF PlacesInv
<1>6. \A q \in Request : req[q].email \in Email => req'[q].email = req[q].email
  BY <1>3, <1>5
<1>7. TimeToLiveFollows'
  <2>1. TypeOK'
    BY <1>0, <1>3, <1>4 DEF TypeOK, Req, Places
  <2>2. \A q \in Request : At(q, "expire") => At(q, "expire")' /\ req'[q].email = req[q].email
    BY <1>3, <1>4 DEF At
  <2> QED BY <1>4, <2>1, <2>2 DEF TimeToLiveFollows
<1>8. PlacesInv'
  BY <1>1, <1>3, <1>4, <1>5 DEF PlacesInv, At
<1>9. OwnersInv'
  <2>1. \A q \in Request : req'[q].pc \in {"set", "expire", "send"} =>
          q # r /\ req'[q] = req[q] /\ req[q].email \in Email
    BY <1>1, <1>3 DEF PlacesInv
  <2>2. \A q \in Request : req'[q].pc \in {"set", "expire", "send"} =>
          req'[q].code \in Code /\ req'[req'[q].code].email = req'[q].email
    BY <1>6, <2>1 DEF OwnersInv, Code
  <2>3. \A f \in Email : code[f].val # None => req'[code[f].val].email = f
    BY <1>0, <1>6 DEF OwnersInv, TypeOK, Code
  <2>4. \A f \in Email : \A d \in mails[f] : req'[d].email = f
    BY <1>0, <1>6 DEF OwnersInv, TypeOK, Code
  <2> QED BY <1>4, <2>2, <2>3, <2>4 DEF OwnersInv
<1>10. CarriedInv'
  BY <1>1, <1>3, <1>4 DEF CarriedInv, At
<1>11. OnlyMailedCodePasses'
  BY <1>1, <1>3, <1>4, <1>5 DEF OnlyMailedCodePasses
<1> QED BY <1>7, <1>8, <1>9, <1>10, <1>11

-----------------------------------------------------------------------------
(* What is known before a step of a request, in the words Kept asks for.   *)
LEMMA Before ==
  ASSUME IInv
  PROVE  /\ TypeOK /\ req \in [Request -> Req]
         /\ code \in [Email -> [val : Code \cup {None}, ttl : BOOLEAN]]
         /\ mails \in [Email -> SUBSET Code] /\ lasting \subseteq Email
         /\ newest \in [Email -> Code \cup {None}] /\ sole \subseteq Request /\ behind \subseteq Email
         /\ \A e \in Email : code[e].val # None => req[code[e].val].email = e
         /\ \A e \in Email : \A c \in mails[e] : req[c].email = e
         /\ LastingInv
  BY DEF IInv, TimeToLiveFollows, OwnersInv, LastingInv, TypeOK, Req, Places

(* A request that is not about to set the time to live changes nothing in  *)
(* Redis or in the mails and leaves the rest as it is.                     *)
LEMMA Quiet ==
  ASSUME IInv, NEW r \in Request, ~At(r, "expire"),
         UNCHANGED <<code, lasting, mails>>,
         \A q \in Request \ {r} : req'[q] = req[q],
         req'[r].email = req[r].email
  PROVE  LastingInv'
<1> SUFFICES ASSUME NEW e \in Email, code[e].val # None, ~code[e].ttl, e \notin lasting
             PROVE  \E q \in Request : req'[q].pc = "expire" /\ req'[q].email = e
  BY Before DEF LastingInv, At
<1>1. PICK q \in Request : req[q].pc = "expire" /\ req[q].email = e
  BY Before DEF LastingInv, At
<1>2. q # r
  BY <1>1 DEF At
<1> QED BY <1>1, <1>2

(* A request that is answered at once never had an email.                  *)
LEMMA ErrorJsonIInv ==
  ASSUME IInv, NEW r \in Request, ErrorJson(r)
  PROVE  IInv'
<1>1. At(r, "idle") /\ End(r, "error") /\ UNCHANGED <<code, lasting, mails, newest, sole, behind>>
  BY DEF ErrorJson, redis, mail
<1>2. req[r].ans = "none"
  BY <1>1 DEF IInv, PlacesInv
<1>3. /\ req' \in [Request -> Req] /\ \A q \in Request \ {r} : req'[q] = req[q]
      /\ req'[r].pc = "done" /\ req'[r].email = req[r].email /\ req'[r].ans = "error"
  BY <1>1, <1>2, Before, EndMoves
<1>4. ~At(r, "expire")
  BY <1>1 DEF At
<1>5. LastingInv'
  BY <1>1, <1>3, <1>4, Quiet
<1> QED BY <1>1, <1>3, <1>5, Before, Kept

(* GET: the code found, or the new one named after r, belongs to r's email.*)
LEMMA GetRedisIInv ==
  ASSUME IInv, NEW r \in Request, GetRedis(r)
  PROVE  IInv'
<1>1. At(r, "get") /\ UNCHANGED <<code, lasting, mails, newest, sole, behind>>
  BY DEF GetRedis, redis, mail
<1>2. Kind[r] = "code" /\ req[r].email \in Email /\ ~At(r, "expire")
  BY <1>1 DEF At, IInv, PlacesInv
<1>3. \E p \in {"set", "send"}, c \in Code : Work(r, p, c) /\ req[c].email = req[r].email
  <2>1. PICK found \in {code[req[r].email].val, None} :
          IF found = None THEN Work(r, "set", r) ELSE Work(r, "send", found)
    BY DEF GetRedis
  <2>2. CASE found = None
    BY <2>1, <2>2 DEF Code
  <2>3. CASE found # None
    BY <1>2, <2>1, <2>3, Before DEF Code
  <2> QED BY <2>2, <2>3
<1>4. PICK p \in {"set", "send"}, c \in Code : Work(r, p, c) /\ req[c].email = req[r].email
  BY <1>3
<1>5. /\ req' \in [Request -> Req] /\ \A q \in Request \ {r} : req'[q] = req[q]
      /\ req'[r].pc = p /\ req'[r].email = req[r].email
      /\ req'[r].code = c /\ req'[r].ans = req[r].ans
  BY <1>4, Before, WorkMoves DEF Places
<1>6. LastingInv'
  BY <1>1, <1>2, <1>5, Quiet
<1> QED BY <1>1, <1>2, <1>4, <1>5, <1>6, Before, Kept

(* SET: the code is the request's own, so its email is the key's; the      *)
(* request is then about to set the time to live.                          *)
LEMMA SetCodeIInv ==
  ASSUME IInv, NEW r \in Request, SetCode(r)
  PROVE  IInv'
<1> DEFINE a == req[r].email
           new == [val |-> req[r].code, ttl |-> FALSE]
<1>1. /\ At(r, "set") /\ Goto(r, "expire") /\ UNCHANGED <<lasting, mails, newest, sole, behind>>
      /\ code' = [code EXCEPT ![a] = new]
  BY DEF SetCode, mail
<1>2. /\ Kind[r] = "code" /\ a \in Email /\ req[r].code \in Code
      /\ req[req[r].code].email = a
  BY <1>1 DEF At, IInv, PlacesInv, OwnersInv
<1>3. /\ req' \in [Request -> Req] /\ \A q \in Request \ {r} : req'[q] = req[q]
      /\ req'[r].pc = "expire" /\ req'[r].email = a
      /\ req'[r].code = req[r].code /\ req'[r].ans = req[r].ans
  BY <1>1, Before, GotoMoves DEF Places
<1>4. /\ new \in [val : Code \cup {None}, ttl : BOOLEAN]
      /\ new.val = req[r].code /\ new.val # None
  BY <1>2, NoneAssumption DEF Code
<1>5. /\ code' \in [Email -> [val : Code \cup {None}, ttl : BOOLEAN]]
      /\ code'[a] = new /\ \A e \in Email \ {a} : code'[e] = code[e]
  <2> HIDE DEF a, new
  <2> QED BY <1>1, <1>2, <1>4, Before
<1>6. LastingInv'
  <2> SUFFICES ASSUME NEW e \in Email
               PROVE  /\ code'[e].ttl => code'[e].val # None
                      /\ code'[e].val # None /\ ~code'[e].ttl
                           => \/ e \in lasting'
                              \/ \E q \in Request : req'[q].pc = "expire" /\ req'[q].email = e
    BY DEF LastingInv, At
  <2>1. CASE e = a
    BY <1>3, <1>4, <1>5, <2>1
  <2>2. CASE e # a
    <3>1. code'[e] = code[e] /\ lasting' = lasting
      BY <1>1, <1>5, <2>2
    <3>2. \A q \in Request : At(q, "expire") => q # r
      BY <1>1 DEF At
    <3> QED BY <1>3, <3>1, <3>2, Before DEF LastingInv, At
  <2> QED BY <2>1, <2>2
<1>7. \A e \in Email : code'[e].val # None => req[code'[e].val].email = e
  BY <1>2, <1>4, <1>5, Before
<1> HIDE DEF new
<1> QED BY <1>1, <1>2, <1>3, <1>5, <1>6, <1>7, Before, Kept

(* EXPIRE: what is stored under the key now has a time to live.            *)
LEMMA SetExpireIInv ==
  ASSUME IInv, NEW r \in Request, SetExpire(r)
  PROVE  IInv'
<1> DEFINE a == req[r].email
           new == [code[a] EXCEPT !.ttl = code[a].val # None]
<1>1. /\ At(r, "expire") /\ Goto(r, "send") /\ UNCHANGED <<mails, newest, sole, behind>>
      /\ code' = [code EXCEPT ![a] = new] /\ lasting' = lasting \ {a}
  BY DEF SetExpire, mail
<1>2. /\ Kind[r] = "code" /\ a \in Email /\ req[r].code \in Code
      /\ req[req[r].code].email = a
  BY <1>1 DEF At, IInv, PlacesInv, OwnersInv
<1>3. /\ req' \in [Request -> Req] /\ \A q \in Request \ {r} : req'[q] = req[q]
      /\ req'[r].pc = "send" /\ req'[r].email = a
      /\ req'[r].code = req[r].code /\ req'[r].ans = req[r].ans
  BY <1>1, Before, GotoMoves DEF Places
<1>4. /\ new \in [val : Code \cup {None}, ttl : BOOLEAN]
      /\ new.val = code[a].val /\ (new.ttl <=> new.val # None)
  <2>1. code[a] \in [val : Code \cup {None}, ttl : BOOLEAN]
    BY <1>2, Before
  <2> HIDE DEF a
  <2> QED BY <2>1
<1>5. /\ code' \in [Email -> [val : Code \cup {None}, ttl : BOOLEAN]]
      /\ code'[a] = new /\ \A e \in Email \ {a} : code'[e] = code[e]
  <2> HIDE DEF a, new
  <2> QED BY <1>1, <1>2, <1>4, Before
<1>6. LastingInv'
  <2> SUFFICES ASSUME NEW e \in Email
               PROVE  /\ code'[e].ttl => code'[e].val # None
                      /\ code'[e].val # None /\ ~code'[e].ttl
                           => \/ e \in lasting'
                              \/ \E q \in Request : req'[q].pc = "expire" /\ req'[q].email = e
    BY DEF LastingInv, At
  <2>1. CASE e = a
    BY <1>4, <1>5, <2>1
  <2>2. CASE e # a
    <3>1. code'[e] = code[e] /\ (e \in lasting' <=> e \in lasting)
      BY <1>1, <1>5, <2>2
    <3>2. \A q \in Request : req[q].email = e => q # r
      BY <2>2
    <3> QED BY <1>3, <3>1, <3>2, Before DEF LastingInv, At
  <2> QED BY <2>1, <2>2
<1>7. \A e \in Email : code'[e].val # None => req[code'[e].val].email = e
  BY <1>2, <1>4, <1>5, Before
<1>8. lasting' \subseteq Email
  BY <1>1, Before
<1> HIDE DEF new
<1> QED BY <1>1, <1>2, <1>3, <1>5, <1>6, <1>7, <1>8, Before, Kept

(* A command that fails ends the request; a code it leaves in Redis is one *)
(* of those that may stay.                                                 *)
LEMMA SetRedisFailsIInv ==
  ASSUME IInv, NEW r \in Request, SetRedisFails(r)
  PROVE  IInv'
<1> DEFINE a == req[r].email
           new == [val |-> req[r].code, ttl |-> FALSE]
<1>1. /\ At(r, "set") \/ At(r, "expire")
      /\ End(r, "error") /\ UNCHANGED <<mails, newest, sole>>
      /\ behind' \in {behind, behind \cup {a}}
  BY DEF SetRedisFails
<1>2. /\ Kind[r] = "code" /\ a \in Email /\ req[r].code \in Code
      /\ req[req[r].code].email = a
  BY <1>1 DEF At, IInv, PlacesInv, OwnersInv
<1>3. /\ req' \in [Request -> Req] /\ \A q \in Request \ {r} : req'[q] = req[q]
      /\ req'[r].pc = "done" /\ req'[r].email = a
      /\ behind' \subseteq Email
  BY <1>1, <1>2, Before, EndMoves
<1>4. CASE At(r, "set") /\ UNCHANGED redis
  <2>1. UNCHANGED <<code, lasting>> /\ ~At(r, "expire")
    BY <1>4 DEF redis, At
  <2>2. LastingInv'
    BY <1>1, <1>3, <2>1, Quiet
  <2> QED BY <1>1, <1>2, <1>3, <2>1, <2>2, Before, Kept
<1>5. CASE At(r, "set") /\ code' = [code EXCEPT ![a] = new] /\ lasting' = lasting \cup {a}
  <2>1. /\ new \in [val : Code \cup {None}, ttl : BOOLEAN] /\ ~new.ttl
        /\ new.val = req[r].code /\ new.val # None
    BY <1>2, NoneAssumption DEF Code
  <2>2. /\ code' \in [Email -> [val : Code \cup {None}, ttl : BOOLEAN]]
        /\ code'[a] = new /\ \A e \in Email \ {a} : code'[e] = code[e]
    <3> HIDE DEF a, new
    <3> QED BY <1>2, <1>5, <2>1, Before
  <2>3. \A q \in Request : At(q, "expire") => q # r
    BY <1>5 DEF At
  <2> HIDE DEF a, new
  <2>4. LastingInv'
    <3> SUFFICES ASSUME NEW e \in Email
                 PROVE  /\ code'[e].ttl => code'[e].val # None
                        /\ code'[e].val # None /\ ~code'[e].ttl
                             => \/ e \in lasting'
                                \/ \E q \in Request : req'[q].pc = "expire" /\ req'[q].email = e
      BY DEF LastingInv, At
    <3>1. CASE e = a
      BY <1>5, <2>1, <2>2, <3>1
    <3>2. CASE e # a
      BY <1>3, <1>5, <2>2, <2>3, <3>2, Before DEF LastingInv, At
    <3> QED BY <3>1, <3>2
  <2>5. \A e \in Email : code'[e].val # None => req[code'[e].val].email = e
    BY <1>2, <2>1, <2>2, Before
  <2>6. lasting' \subseteq Email
    BY <1>2, <1>5, Before
  <2> USE DEF a
  <2> QED BY <1>1, <1>2, <1>3, <2>2, <2>4, <2>5, <2>6, Before, Kept
<1>6. CASE At(r, "expire") /\ lasting' = lasting \cup {a} /\ UNCHANGED code
  <2>1. LastingInv'
    <3> SUFFICES ASSUME NEW e \in Email
                 PROVE  /\ code'[e].ttl => code'[e].val # None
                        /\ code'[e].val # None /\ ~code'[e].ttl
                             => \/ e \in lasting'
                                \/ \E q \in Request : req'[q].pc = "expire" /\ req'[q].email = e
      BY DEF LastingInv, At
    <3>1. CASE e = a
      BY <1>6, <3>1, Before DEF LastingInv
    <3>2. CASE e # a
      <4>1. \A q \in Request : req[q].email = e => q # r
        BY <3>2
      <4> QED BY <1>3, <1>6, <3>2, <4>1, Before DEF LastingInv, At
    <3> QED BY <3>1, <3>2
  <2>2. lasting' \subseteq Email
    BY <1>2, <1>6, Before
  <2> QED BY <1>1, <1>2, <1>3, <1>6, <2>1, <2>2, Before, Kept
<1> QED BY <1>4, <1>5, <1>6 DEF SetRedisFails

(* A mail carries the code the request works with, to the request's email. *)
LEMMA SendMailIInv ==
  ASSUME IInv, NEW r \in Request, SendMail(r)
  PROVE  IInv'
<1> DEFINE a == req[r].email
           new == mails[a] \cup {req[r].code}
<1>1. /\ At(r, "send") /\ End(r, "ok") /\ UNCHANGED <<code, lasting, sole>>
      /\ mails' = [mails EXCEPT ![a] = new]
      /\ newest' = [newest EXCEPT ![a] = req[r].code]
      /\ behind' \in {behind, behind \ {a}}
  BY DEF SendMail, redis
<1>2. /\ Kind[r] = "code" /\ Kind[r] # "user" /\ a \in Email /\ req[r].code \in Code
      /\ req[req[r].code].email = a /\ ~At(r, "expire")
  BY <1>1 DEF At, IInv, PlacesInv, OwnersInv
<1>3. /\ req' \in [Request -> Req] /\ \A q \in Request \ {r} : req'[q] = req[q]
      /\ req'[r].pc = "done" /\ req'[r].email = a
  BY <1>1, Before, EndMoves
<1>4. /\ mails' \in [Email -> SUBSET Code]
      /\ \A e \in Email : mails[e] \subseteq mails'[e]
      /\ \A e \in Email : \A c \in mails'[e] : req[c].email = e
      /\ newest' \in [Email -> Code \cup {None}] /\ behind' \subseteq Email
  BY <1>1, <1>2, Before
<1> HIDE DEF new
<1>5. LastingInv'
  <2> SUFFICES ASSUME NEW e \in Email
               PROVE  /\ code'[e].ttl => code'[e].val # None
                      /\ code'[e].val # None /\ ~code'[e].ttl
                           => \/ e \in lasting'
                              \/ \E q \in Request : req'[q].pc = "expire" /\ req'[q].email = e
    BY DEF LastingInv, At
  <2>1. \A q \in Request : At(q, "expire") => q # r
    BY <1>2
  <2> QED BY <1>1, <1>3, <2>1, Before DEF LastingInv, At
<1> QED BY <1>1, <1>2, <1>3, <1>4, <1>5, Before, Kept

(* A mail that fails leaves only the end of the request.                   *)
LEMMA SendMailFailsIInv ==
  ASSUME IInv, NEW r \in Request, SendMailFails(r)
  PROVE  IInv'
<1>1. /\ At(r, "send") /\ End(r, "error") /\ UNCHANGED <<code, lasting, mails, newest, sole>>
      /\ behind' \in {behind, behind \cup {req[r].email}}
  BY DEF SendMailFails, redis
<1>2. /\ Kind[r] = "code" /\ ~At(r, "expire")
      /\ req[r].email \in Email /\ behind' \subseteq Email
  BY <1>1, Before DEF At, IInv, PlacesInv
<1>3. /\ req' \in [Request -> Req] /\ \A q \in Request \ {r} : req'[q] = req[q]
      /\ req'[r].pc = "done" /\ req'[r].email = req[r].email
  BY <1>1, Before, EndMoves
<1>4. LastingInv'
  BY <1>1, <1>2, <1>3, Quiet
<1> QED BY <1>1, <1>2, <1>3, <1>4, Before, Kept

(* The gate's call fails while the verify server goes on.                  *)
LEMMA RpcFailedIInv ==
  ASSUME IInv, NEW r \in Request, RpcFailed(r)
  PROVE  IInv'
<1> DEFINE x == [req[r] EXCEPT !.ans = "error"]
<1>1. /\ req' = [req EXCEPT ![r] = x] /\ UNCHANGED <<code, lasting, mails, newest, sole, behind>>
      /\ Kind[r] = "code" /\ req[r].pc \notin {"idle", "done"}
  BY DEF RpcFailed, redis, mail
<1>2. req[r].pc \in {"get", "set", "expire", "send"} /\ req[r].email \in Email
  BY <1>1, Before DEF IInv, PlacesInv, At, Req, Places
<1>3. /\ x \in Req /\ x.pc = req[r].pc /\ x.email = req[r].email
      /\ x.code = req[r].code
  BY Before DEF Req
<1> HIDE DEF x
<1>4. /\ req' \in [Request -> Req] /\ req'[r] = x
      /\ \A q \in Request \ {r} : req'[q] = req[q]
  BY <1>1, <1>3, Before, Replaced
<1>5. LastingInv'
  <2>1. \A q \in Request : req'[q].pc = req[q].pc /\ req'[q].email = req[q].email
    BY <1>3, <1>4
  <2> QED BY <1>1, <2>1, Before DEF LastingInv, At
<1>6. req[r].pc \in {"set", "expire", "send"}
        => req[r].code \in Code /\ req[req[r].code].email = req[r].email
  BY DEF IInv, OwnersInv
<1> QED BY <1>1, <1>2, <1>3, <1>4, <1>5, <1>6, Before, Kept

(* The comparison of the gate: the code found in Redis was made for the    *)
(* email it is stored under, and the code it is equal to has been mailed,  *)
(* so it was mailed to that email.                                         *)
LEMMA CheckCodeIInv ==
  ASSUME IInv, NEW r \in Request, CheckCode(r)
  PROVE  IInv'
<1> DEFINE a == req[r].email
<1>1. At(r, "check") /\ UNCHANGED <<code, lasting, mails, newest, sole, behind>>
  BY DEF CheckCode, redis, mail
<1>2. Kind[r] = "user" /\ a \in Email /\ ~At(r, "expire") /\ CarriedInv
  BY <1>1 DEF At, IInv, PlacesInv
<1>3. PICK val \in {code[a].val, None} :
        End(r, IF val = req[r].code THEN "ok" ELSE "error")
  BY DEF CheckCode, Get, Compare
<1>4. /\ req' \in [Request -> Req] /\ \A q \in Request \ {r} : req'[q] = req[q]
      /\ req'[r].pc = "done" /\ req'[r].email = a /\ req'[r].code = req[r].code
      /\ req'[r].ans = IF req[r].ans # "none" THEN req[r].ans
                       ELSE IF val = req[r].code THEN "ok" ELSE "error"
  BY <1>3, Before, EndMoves
<1>5. val = req[r].code => req[r].code \in mails[a]
  <2> SUFFICES ASSUME val = req[r].code PROVE req[r].code \in mails[a]
    OBVIOUS
  <2>1. val # None
    BY <1>1, <1>2, Before, NoneAssumption DEF CarriedInv, Code
  <2>2. val = code[a].val /\ val \in Code
    BY <1>2, <1>3, <2>1, Before
  <2>3. val # Wrong
    BY <2>2, NoneAssumption DEF Code
  <2>4. PICK m \in Email : val \in mails[m]
    BY <1>1, <1>2, <2>3 DEF CarriedInv
  <2>5. req[val].email = a /\ req[val].email = m
    BY <1>2, <2>1, <2>2, <2>4, Before
  <2> QED BY <2>4, <2>5
<1>6. req'[r].ans = "ok" => req'[r].code \in mails'[a]
  <2>1. CASE req[r].ans = "ok"
    BY <1>1, <1>2, <1>4, <2>1 DEF IInv, OnlyMailedCodePasses
  <2>2. CASE req[r].ans # "ok"
    BY <1>1, <1>4, <1>5, <2>2
  <2> QED BY <2>1, <2>2
<1>7. LastingInv'
  BY <1>1, <1>2, <1>4, Quiet
<1> QED BY <1>1, <1>2, <1>4, <1>6, <1>7, Before, Kept

(* A code that has expired is gone, with its time to live.                 *)
LEMMA ExpireIInv ==
  ASSUME IInv, NEW a \in Email, Expire(a)
  PROVE  IInv'
<1> DEFINE new == [val |-> None, ttl |-> FALSE]
<1>1. /\ code' = [code EXCEPT ![a] = new]
      /\ UNCHANGED <<req, lasting, mails, newest, sole, behind>>
  BY DEF Expire, mail
<1>2. new \in [val : Code \cup {None}, ttl : BOOLEAN] /\ new.val = None /\ ~new.ttl
  OBVIOUS
<1> HIDE DEF new
<1>3. /\ code' \in [Email -> [val : Code \cup {None}, ttl : BOOLEAN]]
      /\ code'[a] = new /\ \A e \in Email \ {a} : code'[e] = code[e]
  BY <1>1, <1>2, Before
<1>4. TypeOK'
  BY <1>1, <1>3, Before DEF TypeOK
<1>5. TimeToLiveFollows'
  <2> SUFFICES ASSUME NEW e \in Email
               PROVE  /\ code'[e].ttl => code'[e].val # None
                      /\ code'[e].val # None /\ ~code'[e].ttl
                           => \/ e \in lasting'
                              \/ \E q \in Request : req'[q].pc = "expire" /\ req'[q].email = e
    BY <1>4 DEF TimeToLiveFollows, At
  <2>1. CASE e = a
    BY <1>2, <1>3, <2>1
  <2>2. CASE e # a
    BY <1>1, <1>3, <2>2, Before DEF LastingInv, At
  <2> QED BY <2>1, <2>2
<1>6. OwnersInv'
  <2>1. \A e \in Email : code'[e].val # None => req[code'[e].val].email = e
    BY <1>2, <1>3, Before
  <2> QED BY <1>1, <2>1 DEF IInv, OwnersInv
<1>7. PlacesInv' /\ CarriedInv' /\ OnlyMailedCodePasses'
  BY <1>1 DEF IInv, PlacesInv, CarriedInv, OnlyMailedCodePasses, At
<1> QED BY <1>5, <1>6, <1>7 DEF IInv

(* Nothing changes.                                                        *)
LEMMA StutterIInv ==
  ASSUME IInv, UNCHANGED vars
  PROVE  IInv'
  BY DEF IInv, TimeToLiveFollows, PlacesInv, OwnersInv, CarriedInv,
         OnlyMailedCodePasses, TypeOK, At, vars, redis, mail

(* Every step of every request, and every expiry, preserves the invariant. *)
LEMMA NextIInv == IInv /\ [Next]_vars => IInv'
<1> SUFFICES ASSUME IInv, [Next]_vars PROVE IInv'
  OBVIOUS
<1>1. CASE UNCHANGED vars
  BY <1>1, StutterIInv
<1>2. ASSUME NEW r \in Request, Handle(r) PROVE IInv'
  BY <1>2, GetRedisIInv, SetCodeIInv, SetExpireIInv, SendMailIInv, CheckCodeIInv DEF Handle
<1>3. ASSUME NEW r \in Request, Fault(r) PROVE IInv'
  BY <1>3, RpcFailedIInv, SetRedisFailsIInv, SendMailFailsIInv DEF Fault
<1>4. ASSUME NEW r \in Request, Client(r) PROVE IInv'
  BY <1>4, ErrorJsonIInv, GetVerifyCodeIInv, UserRequestIInv DEF Client
<1>5. ASSUME NEW e \in Email, Expire(e) PROVE IInv'
  BY <1>5, ExpireIInv
<1> QED BY <1>1, <1>2, <1>3, <1>4, <1>5 DEF Next

-----------------------------------------------------------------------------
(* So it holds in every state of every behaviour.                          *)
LEMMA Inductive == Spec => []IInv
  BY InitIInv, NextIInv, PTL DEF Spec

(* Whatever the requests for codes do to each other: a code in Redis has a *)
(* time to live, unless the request that gives it one is still to run, or  *)
(* one of the commands failed.                                             *)
THEOREM TimeToLive == Spec => []TimeToLiveFollows
<1>1. IInv => TimeToLiveFollows
  BY DEF IInv
<1> QED BY <1>1, Inductive, PTL

(* A registration or a reset of a password gets past the comparison only   *)
(* with a code that was mailed to its own email: the codes of other emails *)
(* do not pass, however the requests overlap.                              *)
THEOREM OnlyMailed == Spec => []OnlyMailedCodePasses
<1>1. IInv => OnlyMailedCodePasses
  BY DEF IInv
<1> QED BY <1>1, Inductive, PTL

-----------------------------------------------------------------------------
(* What MailedCodeIsCurrent needs.  A request that is setting a code sets  *)
(* its own.  One that another one overlaps has its email behind.  The      *)
(* others of the email are done while a sole one is on its way, and the    *)
(* code that it has stored or found is the one in Redis, or has expired.   *)
Busy(r) == Kind[r] = "code" /\ ~At(r, "idle") /\ ~At(r, "done")

OwnInv == \A r \in Request : req[r].pc \in {"set", "expire"} => req[r].code = r

SoleInv ==
  \A r \in Request :
    /\ At(r, "idle") => r \notin sole
    /\ Busy(r) /\ r \notin sole => req[r].email \in behind
    /\ Busy(r) /\ r \in sole =>
         /\ \A q \in Request \ {r} : Busy(q) => req[q].email # req[r].email
         /\ req[r].pc \in {"expire", "send"} => code[req[r].email].val \in {None, req[r].code}

MailInv == OwnInv /\ SoleInv /\ MailedCodeIsCurrent

(* A step of a request on its way: what is left to show of its email.      *)
LEMMA BusyStep ==
  ASSUME IInv, MailInv, NEW r \in Request, Busy(r),
         \A q \in Request \ {r} : req'[q] = req[q],
         req'[r].email = req[r].email, req'[r].pc # "idle", UNCHANGED sole,
         req'[r].pc \in {"set", "expire"} => req'[r].code = r,
         \A e \in Email \ {req[r].email} :
           /\ code'[e].val = code[e].val /\ newest'[e] = newest[e]
           /\ e \in behind' <=> e \in behind,
         req'[r].pc # "done" /\ r \notin sole => behind \subseteq behind',
         \A q \in Request \ {r} : Busy(q) /\ req[q].email = req[r].email => req[r].email \in behind',
         r \in sole /\ req'[r].pc \in {"expire", "send"}
           => code'[req[r].email].val \in {None, req'[r].code},
         req[r].email \notin behind' /\ ~Replacing(req[r].email)'
           => code'[req[r].email].val \in {None, newest'[req[r].email]}
  PROVE  MailInv'
<1> DEFINE a == req[r].email
<1>1. \A q \in Request : req'[q].email = req[q].email
  OBVIOUS
<1>2. /\ \A q \in Request \ {r} : Busy(q)' <=> Busy(q)
      /\ Busy(r)' <=> req'[r].pc # "done"
  BY DEF Busy, At
<1>3. a \in Email
  BY Before DEF IInv, PlacesInv, Busy, At, Req, Places
<1>4. OwnInv'
  BY DEF MailInv, OwnInv
<1>5. SoleInv'
  <2> SUFFICES ASSUME NEW q \in Request
               PROVE  /\ req'[q].pc = "idle" => q \notin sole
                      /\ Busy(q)' /\ q \notin sole => req[q].email \in behind'
                      /\ Busy(q)' /\ q \in sole =>
                           /\ \A p \in Request \ {q} : Busy(p)' => req[p].email # req[q].email
                           /\ req'[q].pc \in {"expire", "send"}
                                => code'[req[q].email].val \in {None, req'[q].code}
    BY <1>1 DEF SoleInv, At
  <2>1. CASE q = r
    BY <1>2, <2>1 DEF MailInv, SoleInv
  <2>2. CASE q # r
    <3>1. req'[q] = req[q] /\ (Busy(q)' <=> Busy(q))
      BY <1>2, <2>2
    <3>2. req'[q].pc = "idle" => q \notin sole
      BY <3>1 DEF MailInv, SoleInv, At
    <3>3. Busy(q) => req[q].email \in Email
      BY Before DEF IInv, PlacesInv, Busy, At, Req, Places
    <3>4. Busy(q) /\ q \notin sole => req[q].email \in behind'
      BY <2>2, <3>3 DEF MailInv, SoleInv
    <3>5. Busy(q) /\ q \in sole =>
            /\ req[q].email # a
            /\ \A p \in Request \ {q} : Busy(p) => req[p].email # req[q].email
            /\ req[q].pc \in {"expire", "send"} => code[req[q].email].val \in {None, req[q].code}
      BY <2>2 DEF MailInv, SoleInv
    <3> QED BY <1>2, <3>1, <3>2, <3>3, <3>4, <3>5
  <2> QED BY <2>1, <2>2
<1>6. MailedCodeIsCurrent'
  <2> SUFFICES ASSUME NEW e \in Email, e \notin behind', ~Replacing(e)'
               PROVE  code'[e].val \in {None, newest'[e]}
    BY DEF MailedCodeIsCurrent
  <2>1. CASE e = a
    BY <2>1
  <2>2. CASE e # a
    <3>1. ~Replacing(e)
      BY <2>2 DEF Replacing, At
    <3> QED BY <2>2, <3>1 DEF MailInv, MailedCodeIsCurrent
  <2> QED BY <2>1, <2>2
<1> QED BY <1>4, <1>5, <1>6 DEF MailInv

(* While another request of the email is on its way, r is not sole, and    *)
(* the email is behind.                                                    *)
LEMMA Crossed ==
  ASSUME MailInv, NEW r \in Request, Busy(r)
  PROVE  /\ r \notin sole => req[r].email \in behind
         /\ \A q \in Request \ {r} :
              Busy(q) /\ req[q].email = req[r].email => r \notin sole /\ req[r].email \in behind
  BY DEF MailInv, SoleInv

(* GET: no code is touched yet, and r does not replace one yet, but for    *)
(* the case that it finds its own.                                         *)
LEMMA GetRedisMail ==
  ASSUME IInv, MailInv, NEW r \in Request, GetRedis(r)
  PROVE  MailInv'
<1> DEFINE a == req[r].email
<1>1. At(r, "get") /\ UNCHANGED <<code, newest, sole, behind>> /\ Busy(r)
  BY DEF GetRedis, redis, mail, At, IInv, PlacesInv, Busy
<1>2. a \in Email
  BY <1>1 DEF At, IInv, PlacesInv
<1>3. PICK found \in {code[a].val, None} :
        IF found = None THEN Work(r, "set", r) ELSE Work(r, "send", found)
  BY DEF GetRedis
<1>4. /\ \A q \in Request \ {r} : req'[q] = req[q]
      /\ req'[r].email = a
      /\ \/ found = None /\ req'[r].pc = "set" /\ req'[r].code = r
         \/ found # None /\ req'[r].pc = "send" /\ req'[r].code = found
  <2>1. r \in Code /\ code[a].val \in Code \cup {None}
    BY <1>2, Before DEF Code
  <2>2. CASE found = None
    BY <1>3, <2>1, <2>2, Before, WorkMoves DEF Places
  <2>3. CASE found # None
    BY <1>3, <2>1, <2>3, Before, WorkMoves DEF Places
  <2> QED BY <2>2, <2>3
<1>5. r \in sole /\ req'[r].pc \in {"expire", "send"} => code'[a].val \in {None, req'[r].code}
  BY <1>1, <1>3, <1>4
<1>6. ~Replacing(a)' => ~Replacing(a)
  <2>1. \A q \in Request : At(q, "expire") \/ At(q, "send") => q # r
    BY <1>1 DEF At
  <2> QED BY <1>4, <2>1 DEF Replacing, At
<1>7. a \notin behind' /\ ~Replacing(a)' => code'[a].val \in {None, newest'[a]}
  BY <1>1, <1>2, <1>6 DEF MailInv, MailedCodeIsCurrent
<1> QED BY <1>1, <1>4, <1>5, <1>7, Crossed, BusyStep

(* SET: r is replacing the code from now on, with its own.                 *)
LEMMA SetCodeMail ==
  ASSUME IInv, MailInv, NEW r \in Request, SetCode(r)
  PROVE  MailInv'
<1> DEFINE a == req[r].email
           new == [val |-> req[r].code, ttl |-> FALSE]
<1>1. /\ At(r, "set") /\ Goto(r, "expire") /\ UNCHANGED <<newest, sole, behind>>
      /\ Kind[r] = "code" /\ Busy(r) /\ a \in Email /\ code' = [code EXCEPT ![a] = new]
  BY DEF SetCode, mail, At, IInv, PlacesInv, Busy
<1>2. req[r].code = r /\ new.val = r
  BY <1>1 DEF MailInv, OwnInv, At
<1>3. /\ \A q \in Request \ {r} : req'[q] = req[q]
      /\ req'[r].pc = "expire" /\ req'[r].code = r /\ req'[r].email = a
  BY <1>1, <1>2, Before, GotoMoves DEF Places
<1> HIDE DEF new
<1>4. code'[a] = new /\ \A e \in Email \ {a} : code'[e] = code[e]
  BY <1>1, Before
<1>5. Replacing(a)'
  BY <1>1, <1>3 DEF Replacing, At
<1> QED BY <1>1, <1>2, <1>3, <1>4, <1>5, Crossed, BusyStep

(* EXPIRE leaves the code, and r replaces it still.                        *)
LEMMA SetExpireMail ==
  ASSUME IInv, MailInv, NEW r \in Request, SetExpire(r)
  PROVE  MailInv'
<1> DEFINE a == req[r].email
           new == [code[a] EXCEPT !.ttl = code[a].val # None]
<1>1. /\ At(r, "expire") /\ Goto(r, "send") /\ UNCHANGED <<newest, sole, behind>>
      /\ Kind[r] = "code" /\ Busy(r) /\ a \in Email /\ code' = [code EXCEPT ![a] = new]
  BY DEF SetExpire, mail, At, IInv, PlacesInv, Busy
<1>2. new.val = code[a].val /\ req[r].code = r
  BY <1>1, Before DEF MailInv, OwnInv, At
<1>3. /\ \A q \in Request \ {r} : req'[q] = req[q]
      /\ req'[r].pc = "send" /\ req'[r].code = r /\ req'[r].email = a
  BY <1>1, <1>2, Before, GotoMoves DEF Places
<1> HIDE DEF new
<1>4. code'[a] = new /\ \A e \in Email \ {a} : code'[e] = code[e]
  BY <1>1, Before
<1>5. Replacing(a)'
  BY <1>1, <1>3 DEF Replacing, At
<1>6. r \in sole => code[a].val \in {None, r}
  BY <1>1, <1>2 DEF MailInv, SoleInv, At
<1> QED BY <1>1, <1>2, <1>3, <1>4, <1>5, <1>6, Crossed, BusyStep

(* A command that fails: the code is as it was, or the email is behind.    *)
LEMMA SetRedisFailsMail ==
  ASSUME IInv, MailInv, NEW r \in Request, SetRedisFails(r)
  PROVE  MailInv'
<1> DEFINE a == req[r].email
           new == [val |-> req[r].code, ttl |-> FALSE]
<1>1. /\ req[r].pc \in {"set", "expire"} /\ End(r, "error")
      /\ UNCHANGED <<newest, sole>> /\ Busy(r) /\ a \in Email
      /\ code' \in {code, [code EXCEPT ![a] = new]}
      /\ behind' \in {behind, behind \cup {a}}
      /\ a \in behind' \/ (At(r, "set") /\ UNCHANGED code)
  BY DEF SetRedisFails, redis, At, IInv, PlacesInv, Busy
<1>2. /\ \A q \in Request \ {r} : req'[q] = req[q]
      /\ req'[r].pc = "done" /\ req'[r].email = a
  BY <1>1, Before, EndMoves
<1> HIDE DEF new
<1>3. \A e \in Email \ {a} : code'[e] = code[e] /\ (e \in behind' <=> e \in behind)
  BY <1>1, Before
<1>4. a \notin behind' /\ ~Replacing(a)' => code'[a].val \in {None, newest'[a]}
  <2> SUFFICES ASSUME a \notin behind', ~Replacing(a)' PROVE code'[a].val \in {None, newest'[a]}
    OBVIOUS
  <2>1. At(r, "set") /\ UNCHANGED code /\ a \notin behind
    BY <1>1
  <2>2. \A q \in Request : At(q, "expire") \/ At(q, "send") => q # r
    BY <2>1 DEF At
  <2>3. ~Replacing(a)
    BY <1>2, <2>2 DEF Replacing, At
  <2> QED BY <1>1, <2>1, <2>3 DEF MailInv, MailedCodeIsCurrent
<1> QED BY <1>1, <1>2, <1>3, <1>4, Crossed, BusyStep

(* The mail: a sole request mails the code in Redis; the email of another  *)
(* one stays behind.                                                       *)
LEMMA SendMailMail ==
  ASSUME IInv, MailInv, NEW r \in Request, SendMail(r)
  PROVE  MailInv'
<1> DEFINE a == req[r].email
<1>1. /\ At(r, "send") /\ End(r, "ok") /\ UNCHANGED <<code, sole>> /\ Busy(r) /\ a \in Email
      /\ newest' = [newest EXCEPT ![a] = req[r].code]
      /\ behind' = IF r \in sole THEN behind \ {a} ELSE behind
  BY DEF SendMail, redis, At, IInv, PlacesInv, Busy
<1>2. /\ \A q \in Request \ {r} : req'[q] = req[q]
      /\ req'[r].pc = "done" /\ req'[r].email = a
  BY <1>1, Before, EndMoves
<1>3. newest'[a] = req[r].code /\ \A e \in Email \ {a} : newest'[e] = newest[e]
  BY <1>1, Before
<1>4. r \notin sole => a \in behind'
  BY <1>1, Crossed
<1>5. r \in sole => code[a].val \in {None, req[r].code}
  BY <1>1 DEF MailInv, SoleInv, At
<1>6. /\ \A q \in Request \ {r} : Busy(q) /\ req[q].email = a => a \in behind'
      /\ \A e \in Email \ {a} : e \in behind' <=> e \in behind
  BY <1>1, <1>4, Crossed
<1> QED BY <1>1, <1>2, <1>3, <1>4, <1>5, <1>6, BusyStep

(* A mail that fails: a code that r has not stored itself was in Redis,    *)
(* with its mail, before r began.                                          *)
LEMMA SendMailFailsMail ==
  ASSUME IInv, MailInv, NEW r \in Request, SendMailFails(r)
  PROVE  MailInv'
<1> DEFINE a == req[r].email
<1>1. /\ At(r, "send") /\ End(r, "error") /\ UNCHANGED <<code, newest, sole>>
      /\ Busy(r) /\ a \in Email
      /\ behind' = IF req[r].code = r THEN behind \cup {a} ELSE behind
  BY DEF SendMailFails, redis, At, IInv, PlacesInv, Busy
<1>2. /\ \A q \in Request \ {r} : req'[q] = req[q]
      /\ req'[r].pc = "done" /\ req'[r].email = a
  BY <1>1, Before, EndMoves
<1>3. a \notin behind' /\ ~Replacing(a)' => code'[a].val \in {None, newest'[a]}
  <2> SUFFICES ASSUME a \notin behind', ~Replacing(a)' PROVE code'[a].val \in {None, newest'[a]}
    OBVIOUS
  <2>1. req[r].code # r /\ a \notin behind
    BY <1>1
  <2>2. \A q \in Request : At(q, "expire") \/ (At(q, "send") /\ req[q].code = q) => q # r
    BY <1>1, <2>1 DEF At
  <2>3. ~Replacing(a)
    BY <1>2, <2>2 DEF Replacing, At
  <2> QED BY <1>1, <2>1, <2>3 DEF MailInv, MailedCodeIsCurrent
<1>4. behind \subseteq behind' /\ \A e \in Email \ {a} : e \in behind' <=> e \in behind
  BY <1>1
<1> QED BY <1>1, <1>2, <1>3, <1>4, Crossed, BusyStep

(* The call of the gate fails; the request goes on where it is.            *)
LEMMA RpcFailedMail ==
  ASSUME IInv, MailInv, NEW r \in Request, RpcFailed(r)
  PROVE  MailInv'
<1> DEFINE x == [req[r] EXCEPT !.ans = "error"]
<1>1. UNCHANGED <<code, newest, sole, behind>> /\ Busy(r) /\ req' = [req EXCEPT ![r] = x]
  BY DEF RpcFailed, redis, mail, Busy, At
<1>2. x \in Req /\ x.pc = req[r].pc /\ x.code = req[r].code /\ x.email = req[r].email
  BY Before DEF Req
<1> HIDE DEF x
<1>3. req'[r] = x /\ \A q \in Request \ {r} : req'[q] = req[q]
  BY <1>1, <1>2, Before, Replaced
<1>4. \A q \in Request : /\ req'[q].pc = req[q].pc /\ req'[q].code = req[q].code
                         /\ req'[q].email = req[q].email
  BY <1>2, <1>3
<1>5. \A q \in Request : Busy(q)' <=> Busy(q)
  BY <1>4 DEF Busy, At
<1>6. OwnInv'
  BY <1>4 DEF MailInv, OwnInv
<1>7. SoleInv'
  BY <1>1, <1>4, <1>5 DEF MailInv, SoleInv, At
<1>8. \A e \in Email : Replacing(e)' <=> Replacing(e)
  BY <1>4 DEF Replacing, At
<1>9. MailedCodeIsCurrent'
  BY <1>1, <1>8 DEF MailInv, MailedCodeIsCurrent
<1> QED BY <1>6, <1>7, <1>9 DEF MailInv

(* A step of a request that is not one for a code on its way before or     *)
(* after it.                                                               *)
LEMMA OtherMail ==
  ASSUME MailInv, NEW r \in Request, ~Busy(r), ~Busy(r)',
         UNCHANGED <<code, newest, sole, behind>>,
         \A q \in Request \ {r} : req'[q] = req[q],
         req'[r].pc \in {"check", "done"}, r \in sole => ~At(r, "idle")
  PROVE  MailInv'
<1>1. \A q \in Request \ {r} : Busy(q)' <=> Busy(q)
  BY DEF Busy, At
<1>2. OwnInv'
  BY DEF MailInv, OwnInv
<1>3. SoleInv'
  BY <1>1 DEF MailInv, SoleInv, At
<1>4. \A e \in Email : Replacing(e)' <=> Replacing(e)
  BY DEF Replacing, Busy, At
<1>5. MailedCodeIsCurrent'
  BY <1>4 DEF MailInv, MailedCodeIsCurrent
<1> QED BY <1>2, <1>3, <1>5 DEF MailInv

(* A request for a code: it is sole if no other one is on its way; else    *)
(* none of them is, and the email is behind.                               *)
LEMMA GetVerifyCodeMail ==
  ASSUME IInv, MailInv, NEW r \in Request, NEW a \in Email, GetVerifyCode(r, a)
  PROVE  MailInv'
<1> DEFINE x == [req[r] EXCEPT !.pc = "get", !.email = a]
<1>1. x \in Req /\ x.pc = "get" /\ x.email = a
  <2>1. req[r] \in Req
    BY Before
  <2> HIDE DEF IInv, MailInv, GetVerifyCode
  <2> QED BY <2>1 DEF Req, Places
<1>2. req' = [req EXCEPT ![r] = x]
  BY DEF GetVerifyCode
<1> HIDE DEF x
<1>3. req'[r] = x /\ \A q \in Request \ {r} : req'[q] = req[q]
  BY <1>1, <1>2, Before, Replaced
<1>4. /\ UNCHANGED <<code, newest>> /\ At(r, "idle") /\ Kind[r] = "code" /\ r \notin sole
      /\ IF Overlapping(a) = {} THEN sole' = sole \cup {r} /\ behind' = behind
         ELSE sole' = sole \ Overlapping(a) /\ behind' = behind \cup {a}
  BY DEF GetVerifyCode, redis, MailInv, SoleInv
<1>5. \A q \in Request : q \in Overlapping(a) <=> Busy(q) /\ req[q].email = a
  <2>1. \A q \in Request : At(q, "idle") => req[q].email # a
    BY NoneAssumption DEF IInv, PlacesInv
  <2> QED BY <2>1 DEF Overlapping, Busy
<1>6. Busy(r)' /\ \A q \in Request \ {r} : Busy(q)' <=> Busy(q)
  BY <1>1, <1>3, <1>4 DEF Busy, At
<1>7. OwnInv'
  BY <1>1, <1>3 DEF MailInv, OwnInv
<1>8. SoleInv'
  <2> SUFFICES ASSUME NEW q \in Request
               PROVE  /\ req'[q].pc = "idle" => q \notin sole'
                      /\ Busy(q)' /\ q \notin sole' => req'[q].email \in behind'
                      /\ Busy(q)' /\ q \in sole' =>
                           /\ \A p \in Request \ {q} : Busy(p)' => req'[p].email # req'[q].email
                           /\ req'[q].pc \in {"expire", "send"}
                                => code'[req'[q].email].val \in {None, req'[q].code}
    BY DEF SoleInv, At
  <2>1. CASE q = r
    BY <1>1, <1>3, <1>4, <1>5, <1>6, <2>1
  <2>2. CASE q # r
    <3>1. req'[q] = req[q] /\ (Busy(q)' <=> Busy(q)) /\ (req[q].pc = "idle" => q \notin sole)
      BY <1>3, <1>6, <2>2 DEF MailInv, SoleInv, At
    <3>2. q \in sole' => q \in sole
      BY <1>4, <2>2
    <3>3. Busy(q) /\ q \notin sole' => req[q].email \in behind'
      BY <1>4, <1>5, <2>2 DEF MailInv, SoleInv
    <3>4. Busy(q) /\ q \in sole' => req[q].email # a
      BY <1>4, <1>5, <2>2
    <3>5. Busy(q) /\ q \in sole =>
            /\ \A p \in Request \ {q} : Busy(p) => req[p].email # req[q].email
            /\ req[q].pc \in {"expire", "send"} => code[req[q].email].val \in {None, req[q].code}
      BY DEF MailInv, SoleInv
    <3>6. Busy(q) /\ q \in sole' =>
            \A p \in Request \ {q} : Busy(p)' => req'[p].email # req'[q].email
      BY <1>1, <1>3, <1>6, <3>1, <3>2, <3>4, <3>5
    <3> QED BY <1>4, <3>1, <3>2, <3>3, <3>5, <3>6
  <2> QED BY <2>1, <2>2
<1>9. MailedCodeIsCurrent'
  <2>1. \A e \in Email : Replacing(e)' <=> Replacing(e)
    BY <1>1, <1>3, <1>4 DEF Replacing, At
  <2>2. behind \subseteq behind'
    BY <1>4
  <2> QED BY <1>4, <2>1, <2>2 DEF MailInv, MailedCodeIsCurrent
<1> QED BY <1>7, <1>8, <1>9 DEF MailInv

(* A code that has expired is in Redis no longer.                          *)
LEMMA ExpireMail ==
  ASSUME IInv, MailInv, NEW a \in Email, Expire(a)
  PROVE  MailInv'
<1> DEFINE new == [val |-> None, ttl |-> FALSE]
<1>1. /\ code' = [code EXCEPT ![a] = new] /\ new.val = None
      /\ UNCHANGED <<req, newest, sole, behind>>
  BY DEF Expire, mail
<1> HIDE DEF new
<1>2. \A e \in Email : code'[e].val \in {code[e].val, None}
  BY <1>1, Before
<1>3. OwnInv'
  BY <1>1 DEF MailInv, OwnInv
<1>4. \A r \in Request : Busy(r)' <=> Busy(r)
  BY <1>1 DEF Busy, At
<1>5. \A r \in Request : Busy(r) => req[r].email \in Email
  BY Before DEF IInv, PlacesInv, Busy, At, Req, Places
<1>6. SoleInv'
  BY <1>1, <1>2, <1>4, <1>5 DEF MailInv, SoleInv, At
<1>7. MailedCodeIsCurrent'
  <2>1. \A e \in Email : Replacing(e)' <=> Replacing(e)
    BY <1>1 DEF Replacing, At
  <2> QED BY <1>1, <1>2, <2>1 DEF MailInv, MailedCodeIsCurrent
<1> QED BY <1>3, <1>6, <1>7 DEF MailInv

(* In the beginning nobody has asked.                                      *)
LEMMA InitMailInv == Init => MailInv
<1> SUFFICES ASSUME Init PROVE MailInv
  OBVIOUS
<1>1. /\ \A r \in Request : req[r].pc = "idle"
      /\ \A e \in Email : code[e].val = None
      /\ sole = {}
  BY DEF Init
<1> QED BY <1>1 DEF MailInv, OwnInv, SoleInv, Busy, MailedCodeIsCurrent, At

(* Every step preserves it.                                                *)
LEMMA NextMailInv == IInv /\ MailInv /\ [Next]_vars => MailInv'
<1> SUFFICES ASSUME IInv, MailInv, [Next]_vars PROVE MailInv'
  OBVIOUS
<1>1. CASE UNCHANGED vars
  BY <1>1 DEF MailInv, OwnInv, SoleInv, Busy, MailedCodeIsCurrent, Replacing, At, vars, redis, mail
<1>2. ASSUME NEW r \in Request, CheckCode(r) PROVE MailInv'
  <2>1. /\ At(r, "check") /\ Kind[r] # "code" /\ UNCHANGED <<code, newest, sole, behind>>
        /\ \E a \in {"ok", "error"} : End(r, a)
    BY <1>2 DEF CheckCode, Compare, redis, mail, IInv, PlacesInv
  <2>2. req'[r].pc = "done" /\ \A q \in Request \ {r} : req'[q] = req[q]
    BY <2>1, Before, EndMoves
  <2> QED BY <2>1, <2>2, OtherMail DEF Busy, At
<1>3. ASSUME NEW r \in Request, Handle(r) PROVE MailInv'
  BY <1>2, <1>3, GetRedisMail, SetCodeMail, SetExpireMail, SendMailMail DEF Handle
<1>4. ASSUME NEW r \in Request, Fault(r) PROVE MailInv'
  BY <1>4, RpcFailedMail, SetRedisFailsMail, SendMailFailsMail DEF Fault
<1>5. ASSUME NEW r \in Request, ErrorJson(r) PROVE MailInv'
  <2>1. At(r, "idle") /\ End(r, "error") /\ UNCHANGED <<code, newest, sole, behind>>
    BY <1>5 DEF ErrorJson, redis, mail
  <2>2. req'[r].pc = "done" /\ \A q \in Request \ {r} : req'[q] = req[q]
    BY <2>1, Before, EndMoves
  <2> QED BY <2>1, <2>2, OtherMail DEF Busy, At, MailInv, SoleInv
<1>6. ASSUME NEW r \in Request, NEW e \in Email, NEW c \in Code \cup {Wrong},
             UserRequest(r, e, c)
      PROVE  MailInv'
  <2> DEFINE x == [req[r] EXCEPT !.pc = "check", !.email = e, !.code = c]
  <2>1. /\ At(r, "idle") /\ Kind[r] # "code" /\ UNCHANGED <<code, newest, sole, behind>>
        /\ req' = [req EXCEPT ![r] = x]
    BY <1>6 DEF UserRequest, redis, mail
  <2>2. x \in Req /\ x.pc = "check"
    BY Before, ZenonT(60) DEF Req, Places
  <2> HIDE DEF x
  <2>3. req'[r] = x /\ \A q \in Request \ {r} : req'[q] = req[q]
    BY <2>1, <2>2, Before, Replaced
  <2> QED BY <2>1, <2>2, <2>3, OtherMail DEF Busy, At, MailInv, SoleInv
<1>7. ASSUME NEW r \in Request, Client(r) PROVE MailInv'
  BY <1>5, <1>6, <1>7, GetVerifyCodeMail DEF Client
<1>8. ASSUME NEW e \in Email, Expire(e) PROVE MailInv'
  BY <1>8, ExpireMail
<1> QED BY <1>1, <1>3, <1>4, <1>7, <1>8 DEF Next

(* The code in the last mail is the one the gate compares with, until it   *)
(* expires, and none is stored without a mail, whatever fails; but for     *)
(* overlapping requests and one that fails after its SET, and only until a *)
(* request alone has mailed what is stored.                                *)
THEOREM MailedIsCurrent == Spec => []MailedCodeIsCurrent
<1>1. MailInv => MailedCodeIsCurrent
  BY DEF MailInv
<1> QED BY <1>1, Inductive, InitMailInv, NextMailInv, PTL DEF Spec
=============================================================================
