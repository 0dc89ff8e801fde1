-------------------------- MODULE ChatRoutingProofs --------------------------
(***************************************************************************)
(* Theorems about ChatRouting, for any number of servers, sessions, users  *)
(* and messages: messages reach authenticated sessions only, in the order  *)
(* in which they were sent and before the answer, a steady receiver gets   *)
(* its message, and a session that alone logged in as a uid stays bound.   *)
(***************************************************************************)
EXTENDS ChatRouting, TLAPS

Wk == [pc : Place, dest : Session \cup {None}, peer : Server \cup {None}, ok : BOOLEAN]

TextAt(srv, i) == i \in 1..Len(que[srv]) /\ que[srv][i].type = "text"

(* What the worker's place says of the request it works on.                *)
Shape ==
  \A srv \in Server :
    /\ wk[srv].pc = "idle" => wk[srv] = Idle
    /\ wk[srv].pc # "idle" => que[srv] # <<>>
    /\ wk[srv].pc \in {"setUser", "setIp", "bind"} => Front(srv).type = "login"
    /\ wk[srv].pc \in {"lookup", "notify", "rpc", "rpcSend"} => Front(srv).type = "text"
    /\ wk[srv].pc \in {"notify", "rpcSend"} => wk[srv].dest # None
    /\ wk[srv].pc \in {"rpc", "rpcSend"} => wk[srv].peer # None
    /\ wk[srv].pc = "rpc" => wk[srv].dest = None
    /\ wk[srv].pc # "route"

(* A server has requests of its own sessions only, which were accepted, and*)
(* a session gets nothing before it is.                                    *)
Sources ==
  /\ \A srv \in Server : \A i \in 1..Len(que[srv]) :
       Home[que[srv][i].session] = srv /\ accept[que[srv][i].session] # "none"
  /\ \A s \in Session : accept[s] = "none" => io[s] = "none" /\ ~open[s] /\ inbox[s] = <<>>

(* A session is bound, looked up and written to only for uids for which it *)
(* showed a valid token.                                                   *)
BoundAuth ==
  \A srv \in Server, u \in Uid :
    bound[srv][u] # None => u \in authed[bound[srv][u]] /\ Home[bound[srv][u]] = srv

WorkAuth ==
  \A srv \in Server :
    /\ wk[srv].pc \in {"setUser", "setIp", "bind"} => Front(srv).uid \in authed[Front(srv).session]
    /\ wk[srv].pc \in {"notify", "rpcSend"} => Front(srv).to \in authed[wk[srv].dest]

LateAuth == \A c \in late : /\ c.note.kind = "notify"
                            /\ c.dest # None => c.note.to \in authed[c.dest]

OwnAuth == \A s \in Session : /\ userId[s] # None => userId[s] \in authed[s]
                              /\ rmv[s] # None => rmv[s] \in authed[s]

Auth == BoundAuth /\ WorkAuth /\ LateAuth /\ OwnAuth

(* The messages in the queues are in the order of their numbers, and no    *)
(* number is used twice.                                                   *)
Numbered ==
  /\ \A srv \in Server : \A i, j \in 1..Len(que[srv]) :
       TextAt(srv, i) /\ TextAt(srv, j) /\ i < j => que[srv][i].n < que[srv][j].n
  /\ \A srv, oth \in Server : \A i \in 1..Len(que[srv]), j \in 1..Len(que[oth]) :
       TextAt(srv, i) /\ TextAt(oth, j) /\ que[srv][i].n = que[oth][j].n => srv = oth
  /\ \A srv \in Server : \A i \in 1..Len(que[srv]) : TextAt(srv, i) => que[srv][i].n <= texts

(* Number n of session x is behind the worker: what is still queued on the *)
(* server of x is later, and n itself, if it is, only has to be answered.  *)
Behind(x, n) ==
  /\ n <= texts
  /\ \A i \in 1..Len(que[Home[x]]) : TextAt(Home[x], i) => n <= que[Home[x]][i].n
  /\ \A srv \in Server : \A i \in 1..Len(que[srv]) :
       TextAt(srv, i) /\ que[srv][i].n = n => i = 1 /\ wk[srv].pc = "rsp"

Answered(n) ==
  /\ n <= texts
  /\ \A srv \in Server : \A i \in 1..Len(que[srv]) : TextAt(srv, i) => que[srv][i].n # n

(* Where the numbers of delivered, answered and late messages are.         *)
Delivered ==
  /\ \A s \in Session : \A m \in Items(s) :
       /\ m.kind = "notify" => Behind(m.session, m.n)
       /\ m.kind = "rsp" => Answered(m.n)
  /\ \A c \in late :
       /\ Behind(c.note.session, c.note.n) /\ c.note.n \in failed
       /\ \A s \in Session : \A m \in Items(s) : m.kind = "notify" => m.n # c.note.n
       /\ \A d \in late : d.note.n = c.note.n => d = c

(* PairOrder without the types.                                            *)
Ordered ==
  \A s \in Session : \A i, j \in 1..Len(inbox[s]) :
    (/\ i < j /\ inbox[s][i].kind = "notify" /\ inbox[s][j].kind = "notify"
     /\ inbox[s][i].session = inbox[s][j].session)
      => \/ inbox[s][i].n < inbox[s][j].n
         \/ inbox[s][i].n > inbox[s][j].n /\ inbox[s][j].n \in failed

Order == Numbered /\ Delivered /\ Ordered

(* The session is logged in or about to be told so.                        *)
Sole(s, u) == \A t \in Session \ {s} : Home[t] = Home[s] => u \notin authed[t]

Answering(s, u) == LET srv == Home[s]
                   IN /\ wk[srv].pc = "rsp" /\ wk[srv].ok
                      /\ Front(srv).type = "login"
                      /\ Front(srv).session = s /\ Front(srv).uid = u

SoleBound ==
  \A s \in Session, u \in Uid :
    (LoggedIn(s, u) \/ Answering(s, u)) /\ io[s] = "reading" /\ Sole(s, u)
      => bound[Home[s]][u] = s

(* What a receiver that has been reachable all the time has to do with the *)
(* worker's place.                                                         *)
Placed(srv) ==
  /\ wk[srv].pc = "lookup" => Home[steady[srv]] = srv
  /\ wk[srv].pc = "rpc" => Home[steady[srv]] = wk[srv].peer
  /\ wk[srv].pc \in {"notify", "rpcSend"} => wk[srv].dest = steady[srv]
  /\ wk[srv].pc = "rsp" /\ wk[srv].ok => Notification(srv) \in Items(steady[srv])

Steady ==
  \A srv \in Server :
    steady[srv] # None =>
      /\ wk[srv].pc # "idle" /\ Front(srv).type = "text"
      /\ steady[srv] \in Session /\ Reach(Front(srv).to) = steady[srv]
      /\ Placed(srv)

(* TypeOK without the history of the steady receiver.                      *)
Types ==
  /\ accept \in [Session -> {"none", "started", "inserted"}]
  /\ open \in [Session -> BOOLEAN]
  /\ io \in [Session -> {"none", "reading", "find", "remove", "erase", "cleared"}]
  /\ rmv \in [Session -> Uid \cup {None}]
  /\ inTable \in [Session -> BOOLEAN]
  /\ userId \in [Session -> Uid \cup {None}]
  /\ bound \in [Server -> [Uid -> Session \cup {None}]]
  /\ uip \in [Uid -> Server \cup {None}]
  /\ que \in [Server -> Seq(Request)]
  /\ wk \in [Server -> Wk]
  /\ inbox \in [Session -> Seq(Item)]
  /\ late \subseteq [peer : Server, dest : Session \cup {None}, note : Item]
  /\ failed \subseteq 1..MaxTexts
  /\ texts \in 0..MaxTexts
  /\ logins \in 0..MaxLogins
  /\ authed \in [Session -> SUBSET Uid]
  /\ lastLogin \in [Uid -> Session \cup {None}]

Base == Types /\ Shape /\ Sources
IInv == /\ TypeOK /\ Base /\ Auth /\ NotifyOnlyAuthed /\ Order
        /\ SoleBound /\ Steady

-----------------------------------------------------------------------------
(* What a request is.                                                      *)
LEMMA RequestKinds ==
  ASSUME NEW r \in Request
  PROVE  /\ r.session \in Session /\ r.type \in {"login", "text"}
         /\ r.type = "login" => r \in Login /\ r.uid \in Uid
         /\ r.type = "text" => r \in Text /\ r.to \in Uid /\ r.n \in 1..MaxTexts
  BY DEF Request, Login, Text

(* What an item of a session's inbox is.                                   *)
LEMMA ItemKinds ==
  ASSUME NEW m \in Item
  PROVE  /\ m.kind \in {"login", "rsp", "notify"}
         /\ m.kind # "login" => m.session \in Session /\ m.to \in Uid /\ m.n \in 1..MaxTexts
  BY DEF Item

(* The request at the front of a queue.                                    *)
LEMMA FrontIsFirst ==
  ASSUME Types, NEW srv \in Server, que[srv] # <<>>
  PROVE  /\ que[srv] \in Seq(Request) /\ Len(que[srv]) \in Nat \ {0}
         /\ Front(srv) = que[srv][1] /\ Front(srv) \in Request
  BY DEF Types, Front

(* What the worker's own step does to its state.                           *)
LEMMA WkMoves ==
  ASSUME Types, NEW srv \in Server, NEW x \in Wk, wk' = [wk EXCEPT ![srv] = x]
  PROVE  /\ wk' \in [Server -> Wk] /\ wk'[srv] = x
         /\ \A oth \in Server \ {srv} : wk'[oth] = wk[oth]
  BY DEF Types

(* The same of a step that goes to a place with a session.                 *)
LEMMA MoveMoves ==
  ASSUME Types, NEW srv \in Server, NEW p \in Place, NEW d \in Session \cup {None},
         Move(srv, p, d)
  PROVE  /\ wk' \in [Server -> Wk]
         /\ wk'[srv].pc = p /\ wk'[srv].dest = d
         /\ wk'[srv].peer = wk[srv].peer /\ wk'[srv].ok = wk[srv].ok
         /\ \A oth \in Server \ {srv} : wk'[oth] = wk[oth]
<1>0. wk[srv] \in Wk
  BY DEF Types
<1> DEFINE x == [wk[srv] EXCEPT !.pc = p, !.dest = d]
<1>1. x \in Wk /\ x.pc = p /\ x.dest = d /\ x.peer = wk[srv].peer /\ x.ok = wk[srv].ok
  BY <1>0 DEF Wk
<1>2. wk' = [wk EXCEPT ![srv] = x]
  BY DEF Move
<1> HIDE DEF x
<1> QED BY <1>1, <1>2, WkMoves

(* What a request that is posted does to its server's queue.               *)
LEMMA Posted ==
  ASSUME Types, NEW srv \in Server, NEW r \in Request,
         que' = [que EXCEPT ![srv] = Append(@, r)]
  PROVE  /\ que' \in [Server -> Seq(Request)]
         /\ Len(que'[srv]) = Len(que[srv]) + 1 /\ que'[srv][Len(que[srv]) + 1] = r
         /\ \A i \in 1..Len(que[srv]) : que'[srv][i] = que[srv][i]
         /\ que[srv] # <<>> => que'[srv] # <<>> /\ Head(que'[srv]) = Head(que[srv])
         /\ \A oth \in Server \ {srv} : que'[oth] = que[oth]
<1>1. que[srv] \in Seq(Request) /\ que'[srv] = Append(que[srv], r)
  BY DEF Types
<1>2. /\ Append(que[srv], r) \in Seq(Request)
      /\ Len(Append(que[srv], r)) = Len(que[srv]) + 1
      /\ Append(que[srv], r)[Len(que[srv]) + 1] = r
      /\ \A i \in 1..Len(que[srv]) : Append(que[srv], r)[i] = que[srv][i]
  BY <1>1
<1>3. que' \in [Server -> Seq(Request)] /\ \A oth \in Server \ {srv} : que'[oth] = que[oth]
  BY <1>1, <1>2 DEF Types
<1>4. ASSUME que[srv] # <<>> PROVE que'[srv] # <<>> /\ Head(que'[srv]) = Head(que[srv])
  <2>1. Len(que[srv]) \in Nat \ {0} /\ Len(que'[srv]) \in Nat \ {0}
    BY <1>1, <1>2, <1>4
  <2>2. Head(que'[srv]) = que'[srv][1] /\ Head(que[srv]) = que[srv][1] /\ 1 \in 1..Len(que[srv])
    BY <1>1, <1>2, <2>1
  <2> QED BY <1>1, <1>2, <2>1, <2>2
<1> QED BY <1>1, <1>2, <1>3, <1>4

(* What the end of a request does to the queue.                            *)
LEMMA Popped ==
  ASSUME Types, NEW srv \in Server, que[srv] # <<>>,
         que' = [que EXCEPT ![srv] = Tail(@)]
  PROVE  /\ que' \in [Server -> Seq(Request)]
         /\ Len(que'[srv]) = Len(que[srv]) - 1
         /\ \A i \in 1..Len(que'[srv]) : i + 1 \in 1..Len(que[srv]) /\ que'[srv][i] = que[srv][i + 1]
         /\ \A oth \in Server \ {srv} : que'[oth] = que[oth]
<1>1. que[srv] \in Seq(Request) /\ que'[srv] = Tail(que[srv]) /\ Len(que[srv]) \in Nat \ {0}
  BY DEF Types
<1>2. /\ Tail(que[srv]) \in Seq(Request) /\ Len(Tail(que[srv])) = Len(que[srv]) - 1
      /\ \A i \in 1..(Len(que[srv]) - 1) : Tail(que[srv])[i] = que[srv][i + 1]
  BY <1>1
<1>3. que' \in [Server -> Seq(Request)] /\ \A oth \in Server \ {srv} : que'[oth] = que[oth]
  BY <1>1, <1>2 DEF Types
<1>4. \A i \in 1..(Len(que[srv]) - 1) : i + 1 \in 1..Len(que[srv])
  BY <1>1
<1> QED BY <1>1, <1>2, <1>3, <1>4

(* What Send does to the inboxes.                                          *)
LEMMA SentDoes ==
  ASSUME Types, NEW s \in Session, NEW m \in Item, inbox' = Sent(s, m)
  PROVE  /\ inbox' \in [Session -> Seq(Item)]
         /\ \A t \in Session \ {s} : inbox'[t] = inbox[t] /\ Items(t)' = Items(t)
         /\ ~open[s] => inbox'[s] = inbox[s] /\ Items(s)' = Items(s)
         /\ open[s] => /\ inbox'[s] = Append(inbox[s], m)
                       /\ Items(s)' = Items(s) \cup {m}
<1>1. inbox[s] \in Seq(Item)
  BY DEF Types
<1>2. /\ Append(inbox[s], m) \in Seq(Item) /\ Len(Append(inbox[s], m)) = Len(inbox[s]) + 1
      /\ Len(inbox[s]) \in Nat
      /\ \A i \in 1..Len(inbox[s]) : Append(inbox[s], m)[i] = inbox[s][i]
      /\ Append(inbox[s], m)[Len(inbox[s]) + 1] = m
  BY <1>1
<1>3. CASE open[s]
  <2>1. inbox' = [inbox EXCEPT ![s] = Append(@, m)]
    BY <1>3 DEF Sent
  <2>2. /\ inbox' \in [Session -> Seq(Item)] /\ inbox'[s] = Append(inbox[s], m)
        /\ \A t \in Session \ {s} : inbox'[t] = inbox[t]
    BY <1>2, <2>1 DEF Types
  <2>3. Items(s)' = Items(s) \cup {m}
    <3>1. Items(s)' = {inbox'[s][i] : i \in 1..(Len(inbox[s]) + 1)}
      BY <1>2, <2>2 DEF Items
    <3>2. 1..(Len(inbox[s]) + 1) = 1..Len(inbox[s]) \cup {Len(inbox[s]) + 1}
      BY <1>2
    <3> QED BY <1>2, <2>2, <3>1, <3>2 DEF Items
  <2> QED BY <1>3, <2>2, <2>3, SMTT(30) DEF Items
<1>4. CASE ~open[s]
  BY <1>4 DEF Sent, Types, Items
<1> QED BY <1>3, <1>4

-----------------------------------------------------------------------------
(* A step that leaves the queues and the workers alone.                    *)
LEMMA ShapeStays == ASSUME Shape, UNCHANGED <<que, wk>> PROVE Shape'
  BY DEF Shape, Front

(* A step of one worker that keeps its request.                            *)
LEMMA ShapeOfOne ==
  ASSUME Shape, NEW srv \in Server, UNCHANGED que,
         \A oth \in Server \ {srv} : wk'[oth] = wk[oth],
         que[srv] # <<>>,
         wk'[srv].pc \notin {"idle", "route"},
         wk'[srv].pc \in {"setUser", "setIp", "bind"} => Front(srv).type = "login",
         wk'[srv].pc \in {"lookup", "notify", "rpc", "rpcSend"} => Front(srv).type = "text",
         wk'[srv].pc \in {"notify", "rpcSend"} => wk'[srv].dest # None,
         wk'[srv].pc \in {"rpc", "rpcSend"} => wk'[srv].peer # None,
         wk'[srv].pc = "rpc" => wk'[srv].dest = None
  PROVE  Shape'
<1> SUFFICES ASSUME NEW oth \in Server
             PROVE  /\ wk'[oth].pc = "idle" => wk'[oth] = Idle
                    /\ wk'[oth].pc # "idle" => que[oth] # <<>>
                    /\ wk'[oth].pc \in {"setUser", "setIp", "bind"} => Front(oth).type = "login"
                    /\ wk'[oth].pc \in {"lookup", "notify", "rpc", "rpcSend"} => Front(oth).type = "text"
                    /\ wk'[oth].pc \in {"notify", "rpcSend"} => wk'[oth].dest # None
                    /\ wk'[oth].pc \in {"rpc", "rpcSend"} => wk'[oth].peer # None
                    /\ wk'[oth].pc = "rpc" => wk'[oth].dest = None
                    /\ wk'[oth].pc # "route"
  BY DEF Shape, Front
<1>1. CASE oth = srv
  BY <1>1
<1>2. CASE oth # srv
  BY <1>2 DEF Shape
<1> QED BY <1>1, <1>2

(* The sources of what is queued do not change with accepted sessions.     *)
LEMMA SourcesStay ==
  ASSUME Sources, UNCHANGED <<que, accept, io, open>>,
         \A s \in Session : inbox'[s] # inbox[s] => open[s]
  PROVE  Sources'
  BY DEF Sources

(* Connections come and go.                                                *)
LEMMA SessionBase ==
  ASSUME Base, NEW s \in Session,
         \/ AcceptStart(s) \/ AcceptInsert(s) \/ ReadError(s) \/ InvalidHeader(s)
         \/ ClearFind(s) \/ RmvUserSession(s) \/ ClearErase(s)
  PROVE  Base'
<1> USE DEF Base
<1>1. UNCHANGED <<que, wk, inbox, late, failed, texts, logins, authed, uip, userId, lastLogin>>
  BY DEF AcceptStart, AcceptInsert, ReadError, InvalidHeader, ClearFind, RmvUserSession,
         ClearErase, users, clients, calls
<1>2. Shape'
  BY <1>1, ShapeStays
<1>3. Types'
  <2>1. CASE AcceptStart(s) \/ AcceptInsert(s) \/ ReadError(s) \/ InvalidHeader(s)
    BY <1>1, <2>1 DEF Types, AcceptStart, AcceptInsert, ReadError, InvalidHeader, users
  <2>2. CASE ClearFind(s) \/ ClearErase(s)
    BY <1>1, <2>2 DEF Types, ClearFind, ClearErase, users
  <2>3. CASE RmvUserSession(s)
    <3>1. bound' \in [Server -> [Uid -> Session \cup {None}]]
      <4>1. CASE rmv[s] = None
        BY <2>3, <4>1 DEF Types, RmvUserSession
      <4>2. CASE rmv[s] # None
        <5>1. rmv[s] \in Uid /\ Home[s] \in Server
          BY <4>2, HomeAssumption DEF Types
        <5> QED BY <2>3, <4>2, <5>1 DEF Types, RmvUserSession
      <4> QED BY <4>1, <4>2
    <3> QED BY <1>1, <2>3, <3>1 DEF Types, RmvUserSession
  <2> QED BY <2>1, <2>2, <2>3
<1>4. /\ \A t \in Session : accept[t] # "none" => accept'[t] # "none"
      /\ \A t \in Session : accept'[t] = "none" =>
           accept[t] = "none" /\ io'[t] = "none" /\ ~open'[t]
  <2>1. CASE AcceptStart(s) \/ AcceptInsert(s)
    BY <2>1 DEF Types, Sources, AcceptStart, AcceptInsert
  <2>2. CASE ReadError(s) \/ InvalidHeader(s)
    BY <2>2 DEF Types, Sources, ReadError, InvalidHeader
  <2>3. CASE ClearFind(s) \/ RmvUserSession(s) \/ ClearErase(s)
    BY <2>3 DEF Types, Sources, ClearFind, RmvUserSession, ClearErase
  <2> QED BY <2>1, <2>2, <2>3
<1>5. Sources'
  <2>1. \A srv \in Server : \A i \in 1..Len(que[srv]) : que[srv][i].session \in Session
    BY RequestKinds DEF Types
  <2> QED BY <1>1, <1>4, <2>1 DEF Sources
<1> QED BY <1>2, <1>3, <1>5

(* A client's request is posted.                                           *)
LEMMA PostBase ==
  ASSUME Base, NEW s \in Session, NEW r \in Request, r.session = s, Post(s, r),
         texts' \in 0..MaxTexts, logins' \in 0..MaxLogins
  PROVE  Base'
<1> DEFINE srv == Home[s]
<1>1. /\ Types /\ Shape /\ Sources /\ srv \in Server /\ io[s] = "reading" /\ accept[s] # "none"
      /\ que' = [que EXCEPT ![srv] = Append(@, r)]
      /\ UNCHANGED <<accept, open, io, rmv, inTable, userId, bound, uip, authed, lastLogin,
                     wk, inbox, late, failed>>
  BY HomeAssumption DEF Base, Post, conns, users, calls, Sources
<1> HIDE DEF srv
<1>2. /\ que' \in [Server -> Seq(Request)]
      /\ Len(que'[srv]) = Len(que[srv]) + 1 /\ que'[srv][Len(que[srv]) + 1] = r
      /\ \A i \in 1..Len(que[srv]) : que'[srv][i] = que[srv][i]
      /\ que[srv] # <<>> => que'[srv] # <<>> /\ Head(que'[srv]) = Head(que[srv])
      /\ \A oth \in Server \ {srv} : que'[oth] = que[oth]
  BY <1>1, Posted
<1>3. Types'
  BY <1>1, <1>2 DEF Types
<1>4. Shape'
  <2>1. \A oth \in Server : que[oth] # <<>> => que'[oth] # <<>> /\ Front(oth)' = Front(oth)
    BY <1>2 DEF Front
  <2> QED BY <1>1, <2>1 DEF Shape
<1>5. Sources'
  <2>1. ASSUME NEW oth \in Server, NEW i \in 1..Len(que'[oth])
        PROVE  Home[que'[oth][i].session] = oth /\ accept[que'[oth][i].session] # "none"
    <3>1. CASE oth = srv /\ i = Len(que[srv]) + 1
      BY <1>1, <1>2, <3>1 DEF srv
    <3>2. CASE oth = srv /\ i # Len(que[srv]) + 1
      <4>1. Len(que[srv]) \in Nat /\ i \in 1..(Len(que[srv]) + 1)
        BY <1>1, <1>2, <2>1, <3>2 DEF Types
      <4>2. i \in 1..Len(que[srv])
        BY <3>2, <4>1
      <4> QED BY <1>1, <1>2, <3>2, <4>2 DEF Sources
    <3>3. CASE oth # srv
      BY <1>1, <1>2, <3>3 DEF Sources
    <3> QED BY <3>1, <3>2, <3>3
  <2> QED BY <1>1, <2>1 DEF Sources
<1> QED BY <1>3, <1>4, <1>5 DEF Base

-----------------------------------------------------------------------------
(* The steps of a worker, each with what it does to the worker's state.    *)
Busying(srv, place, type) ==
  /\ wk[srv].pc = place /\ que[srv] # <<>>
  /\ Front(srv) \in Request /\ Front(srv).type = type

Moving(srv) ==
  /\ wk' \in [Server -> Wk]
  /\ \A oth \in Server \ {srv} : wk'[oth] = wk[oth]

(* A login is checked: it goes on when the token was valid.                *)
LEMMA LoginCheckDoes ==
  ASSUME Base, NEW srv \in Server, NEW found \in BOOLEAN, LoginCheck(srv, found)
  PROVE  /\ Busying(srv, "idle", "login") /\ Moving(srv)
         /\ \/ wk'[srv].pc = "setUser" /\ Front(srv).uid \in authed'[Front(srv).session]
            \/ wk'[srv].pc = "rsp" /\ ~wk'[srv].ok
         /\ authed' \in [Session -> SUBSET Uid]
         /\ \A s \in Session : authed[s] \subseteq authed'[s]
         /\ UNCHANGED <<accept, open, io, rmv, inTable, userId, bound, uip, lastLogin,
                        que, inbox, texts, logins, late, failed>>
<1>1. Types /\ que[srv] # <<>> /\ wk[srv].pc = "idle" /\ Front(srv).type = "login"
  BY DEF Base, LoginCheck
<1>2. Front(srv) \in Request
  BY <1>1, FrontIsFirst
<1>3. Front(srv).session \in Session /\ Front(srv).uid \in Uid /\ Front(srv).tokenOk \in BOOLEAN
  BY <1>1, <1>2, RequestKinds DEF Login
<1> DEFINE good == Front(srv).tokenOk /\ found
           x == [wk[srv] EXCEPT !.pc = IF good THEN "setUser" ELSE "rsp", !.ok = good]
<1>4. wk' = [wk EXCEPT ![srv] = x]
  BY DEF LoginCheck
<1>5. wk[srv] \in Wk /\ good \in BOOLEAN
  BY <1>1, <1>3 DEF Types
<1> HIDE DEF good
<1>6. x \in Wk /\ x.pc = (IF good THEN "setUser" ELSE "rsp") /\ x.ok = good
  BY <1>5 DEF Wk, Place
<1> HIDE DEF x
<1>7. Moving(srv) /\ wk'[srv] = x
  BY <1>1, <1>4, <1>6, WkMoves DEF Moving
<1>8. authed' = IF Front(srv).tokenOk
                THEN [authed EXCEPT ![Front(srv).session] = @ \cup {Front(srv).uid}] ELSE authed
  BY DEF LoginCheck
<1>9. /\ authed' \in [Session -> SUBSET Uid]
      /\ \A s \in Session : authed[s] \subseteq authed'[s]
      /\ good => Front(srv).uid \in authed'[Front(srv).session]
  BY <1>1, <1>3, <1>8 DEF Types, good
<1>10. UNCHANGED <<accept, open, io, rmv, inTable, userId, bound, uip, lastLogin,
                   que, inbox, texts, logins, late, failed>>
  BY DEF LoginCheck, conns, clients, calls
<1> QED BY <1>1, <1>2, <1>6, <1>7, <1>9, <1>10 DEF Busying

(* A login writes the uid into the session, ...                            *)
LEMMA SetUserIdDoes ==
  ASSUME Base, NEW srv \in Server, SetUserId(srv)
  PROVE  /\ Busying(srv, "setUser", "login") /\ Moving(srv) /\ wk'[srv].pc = "setIp"
         /\ userId' = [userId EXCEPT ![Front(srv).session] = Front(srv).uid]
         /\ UNCHANGED <<accept, open, io, rmv, inTable, bound, uip, authed, lastLogin,
                        que, inbox, texts, logins, late, failed>>
  BY FrontIsFirst, MoveMoves DEF Base, SetUserId, Busy, Busying, Moving, Place,
     conns, clients, calls

(* ... its server into Redis, ...                                         *)
LEMMA SetUserIpDoes ==
  ASSUME Base, NEW srv \in Server, SetUserIp(srv)
  PROVE  /\ Busying(srv, "setIp", "login") /\ Moving(srv) /\ wk'[srv].pc = "bind"
         /\ uip' = [uip EXCEPT ![Front(srv).uid] = srv]
         /\ lastLogin' = [lastLogin EXCEPT ![Front(srv).uid] = Front(srv).session]
         /\ UNCHANGED <<accept, open, io, rmv, inTable, userId, bound, authed,
                        que, inbox, texts, logins, late, failed>>
  BY FrontIsFirst, MoveMoves DEF Base, SetUserIp, Busy, Busying, Moving, Place,
     conns, clients, calls

(* ... and the session into UserMgr.                                       *)
LEMMA SetUserSessionDoes ==
  ASSUME Base, NEW srv \in Server, SetUserSession(srv)
  PROVE  /\ Busying(srv, "bind", "login") /\ Moving(srv) /\ wk'[srv].pc = "rsp"
         /\ bound' = [bound EXCEPT ![srv][Front(srv).uid] = Front(srv).session]
         /\ UNCHANGED <<accept, open, io, rmv, inTable, userId, uip, authed, lastLogin,
                        que, inbox, texts, logins, late, failed>>
  BY FrontIsFirst, MoveMoves DEF Base, SetUserSession, Busy, Busying, Moving, Place,
     conns, clients, calls

(* The receiver's server is looked up.                                     *)
LEMMA TextRouteDoes ==
  ASSUME Base, NEW srv \in Server, TextRoute(srv)
  PROVE  /\ Busying(srv, "idle", "text") /\ Moving(srv) /\ wk'[srv].dest = None
         /\ LET at == uip[Front(srv).to]
            IN \/ at = None /\ wk'[srv].pc = "rsp"
               \/ at = srv /\ wk'[srv].pc = "lookup"
               \/ at \in Server \ {srv} /\ wk'[srv].pc = "rpc" /\ wk'[srv].peer = at
         /\ UNCHANGED <<accept, open, io, rmv, inTable, userId, bound, uip, authed, lastLogin,
                        que, inbox, texts, logins, late, failed>>
<1>1. Types /\ que[srv] # <<>> /\ wk[srv].pc = "idle" /\ Front(srv).type = "text"
  BY DEF Base, TextRoute
<1>2. Front(srv) \in Request
  BY <1>1, FrontIsFirst
<1>3. Front(srv).to \in Uid
  BY <1>1, <1>2, RequestKinds
<1> DEFINE at == uip[Front(srv).to]
           p == IF at = None THEN "rsp" ELSE IF at = srv THEN "lookup" ELSE "rpc"
           y == IF at = srv THEN None ELSE at
           x == [wk[srv] EXCEPT !.pc = p, !.peer = y]
<1>4. wk' = [wk EXCEPT ![srv] = x]
  BY DEF TextRoute
<1>5. wk[srv] \in Wk /\ at \in Server \cup {None} /\ srv # None /\ p \in Place
      /\ y \in Server \cup {None}
  BY <1>1, <1>3, NoneAssumption DEF Types, Place
<1>6. x \in Wk /\ x.pc = p /\ x.peer = y /\ x.dest = wk[srv].dest
  BY <1>5 DEF Wk
<1>9. wk[srv].dest = None
  BY <1>1 DEF Base, Shape, Idle
<1> HIDE DEF x
<1>7. Moving(srv) /\ wk'[srv] = x
  BY <1>1, <1>4, <1>6, WkMoves DEF Moving
<1>8. UNCHANGED <<accept, open, io, rmv, inTable, userId, bound, uip, authed, lastLogin,
                  que, inbox, texts, logins, late, failed>>
  BY DEF TextRoute, conns, users, clients, calls
<1> QED BY <1>1, <1>2, <1>5, <1>6, <1>7, <1>8, <1>9 DEF Busying

(* The session is looked up, here or on the peer.                          *)
LEMMA LookupDoes ==
  ASSUME Base, NEW srv \in Server, LocalLookup(srv) \/ RpcLookup(srv)
  PROVE  /\ \/ Busying(srv, "lookup", "text") /\ wk'[srv].dest = bound[srv][Front(srv).to]
               /\ wk'[srv].pc = IF wk'[srv].dest = None THEN "rsp" ELSE "notify"
            \/ Busying(srv, "rpc", "text") /\ wk[srv].peer \in Server
               /\ wk'[srv].dest = bound[wk[srv].peer][Front(srv).to]
               /\ wk'[srv].pc = IF wk'[srv].dest = None THEN "rsp" ELSE "rpcSend"
         /\ Moving(srv) /\ wk'[srv].peer = wk[srv].peer /\ wk'[srv].ok = wk[srv].ok
         /\ UNCHANGED <<accept, open, io, rmv, inTable, userId, bound, uip, authed, lastLogin,
                        que, inbox, texts, logins, late, failed>>
<1>1. Types /\ que[srv] # <<>> /\ Front(srv).type = "text"
  BY DEF Base, LocalLookup, RpcLookup, Busy
<1>2. Front(srv) \in Request /\ Front(srv).to \in Uid
  BY <1>1, FrontIsFirst, RequestKinds
<1>3. UNCHANGED <<accept, open, io, rmv, inTable, userId, bound, uip, authed, lastLogin,
                  que, inbox, texts, logins, late, failed>>
  BY DEF LocalLookup, RpcLookup, conns, users, clients, calls
<1>4. CASE LocalLookup(srv)
  <2> DEFINE d == bound[srv][Front(srv).to]
             p == IF d = None THEN "rsp" ELSE "notify"
  <2>1. d \in Session \cup {None} /\ p \in Place /\ wk[srv].pc = "lookup"
    BY <1>1, <1>2, <1>4 DEF Types, Place, LocalLookup, Busy
  <2>2. Move(srv, p, d)
    BY <1>4 DEF LocalLookup
  <2>3. /\ Moving(srv) /\ wk'[srv].pc = p /\ wk'[srv].dest = d
        /\ wk'[srv].peer = wk[srv].peer /\ wk'[srv].ok = wk[srv].ok
    <3> HIDE DEF p, d
    <3> QED BY <1>1, <2>1, <2>2, MoveMoves DEF Moving
  <2>4. Busying(srv, "lookup", "text")
    BY <1>1, <1>2, <2>1 DEF Busying
  <2>5. wk'[srv].pc = IF wk'[srv].dest = None THEN "rsp" ELSE "notify"
    BY <2>3
  <2> QED BY <1>3, <2>3, <2>4, <2>5
<1>5. CASE RpcLookup(srv)
  <2> DEFINE d == bound[wk[srv].peer][Front(srv).to]
             p == IF d = None THEN "rsp" ELSE "rpcSend"
  <2>0. wk[srv].peer \in Server
    BY <1>5 DEF Base, Types, Wk, Shape, RpcLookup, Busy
  <2>1. d \in Session \cup {None} /\ p \in Place /\ wk[srv].pc = "rpc"
    BY <1>1, <1>2, <1>5, <2>0 DEF Types, Place, RpcLookup, Busy
  <2>2. Move(srv, p, d)
    BY <1>5 DEF RpcLookup
  <2>3. /\ Moving(srv) /\ wk'[srv].pc = p /\ wk'[srv].dest = d
        /\ wk'[srv].peer = wk[srv].peer /\ wk'[srv].ok = wk[srv].ok
    <3> HIDE DEF p, d
    <3> QED BY <1>1, <2>1, <2>2, MoveMoves DEF Moving
  <2>4. Busying(srv, "rpc", "text")
    BY <1>1, <1>2, <2>1 DEF Busying
  <2>5. wk'[srv].pc = IF wk'[srv].dest = None THEN "rsp" ELSE "rpcSend"
    BY <2>3
  <2> QED BY <1>3, <2>0, <2>3, <2>4, <2>5
<1> QED BY <1>4, <1>5

(* The message is sent to the session that was found.                      *)
LEMMA NotifyDoes ==
  ASSUME Base, NEW srv \in Server, LocalNotify(srv) \/ RpcNotify(srv)
  PROVE  /\ Busying(srv, "notify", "text") \/ Busying(srv, "rpcSend", "text")
         /\ Moving(srv) /\ wk'[srv].pc = "rsp" /\ wk'[srv].ok = wk[srv].ok
         /\ wk[srv].dest \in Session /\ Notification(srv) \in Item
         /\ inbox' = Sent(wk[srv].dest, Notification(srv))
         /\ UNCHANGED <<accept, open, io, rmv, inTable, userId, bound, uip, authed, lastLogin,
                        que, texts, logins, late, failed>>
<1>1. /\ Types /\ que[srv] # <<>> /\ Front(srv).type = "text" /\ Move(srv, "rsp", None)
      /\ wk[srv].pc \in {"notify", "rpcSend"}
      /\ inbox' = Sent(wk[srv].dest, Notification(srv))
  BY DEF Base, LocalNotify, RpcNotify, Busy
<1>2. Front(srv) \in Request
  BY <1>1, FrontIsFirst
<1>3. Notification(srv) \in Item
  BY <1>1, <1>2, RequestKinds DEF Notification, Item
<1>4. wk[srv].dest \in Session
  BY <1>1 DEF Base, Types, Wk, Shape
<1>5. Moving(srv) /\ wk'[srv].pc = "rsp" /\ wk'[srv].ok = wk[srv].ok
  <2>1. "rsp" \in Place /\ None \in Session \cup {None}
    BY DEF Place
  <2> QED BY <1>1, <2>1, MoveMoves DEF Moving
<1>6. UNCHANGED <<accept, open, io, rmv, inTable, userId, bound, uip, authed, lastLogin,
                  que, texts, logins, late, failed>>
  BY DEF LocalNotify, RpcNotify, conns, users, clients, calls
<1> QED BY <1>1, <1>2, <1>3, <1>4, <1>5, <1>6 DEF Busying

(* The call fails, and its handler goes on.                                *)
LEMMA RpcFailDoes ==
  ASSUME Base, NEW srv \in Server, RpcFail(srv)
  PROVE  /\ Busying(srv, "rpc", "text") \/ Busying(srv, "rpcSend", "text")
         /\ Moving(srv) /\ wk'[srv].pc = "rsp" /\ ~wk'[srv].ok
         /\ wk[srv].peer \in Server /\ wk[srv].dest \in Session \cup {None}
         /\ Notification(srv) \in Item
         /\ late' = late \cup {[peer |-> wk[srv].peer, dest |-> wk[srv].dest,
                                note |-> Notification(srv)]}
         /\ failed' = failed \cup {Front(srv).n}
         /\ UNCHANGED <<accept, open, io, rmv, inTable, userId, bound, uip, authed, lastLogin,
                        que, inbox, texts, logins>>
<1>1. /\ Types /\ que[srv] # <<>> /\ Front(srv).type = "text"
      /\ wk[srv].pc \in {"rpc", "rpcSend"} /\ wk[srv] \in Wk
  BY DEF Base, Types, Shape, RpcFail
<1>2. Front(srv) \in Request
  BY <1>1, FrontIsFirst
<1>3. Notification(srv) \in Item
  BY <1>1, <1>2, RequestKinds DEF Notification, Item
<1>4. wk[srv].peer \in Server /\ wk[srv].dest \in Session \cup {None}
  BY <1>1 DEF Base, Wk, Shape
<1> DEFINE x == [wk[srv] EXCEPT !.pc = "rsp", !.ok = FALSE]
<1>5. x \in Wk /\ x.pc = "rsp" /\ ~x.ok
  BY <1>1 DEF Wk, Place
<1>6. wk' = [wk EXCEPT ![srv] = x]
  BY DEF RpcFail
<1> HIDE DEF x
<1>7. Moving(srv) /\ wk'[srv].pc = "rsp" /\ ~wk'[srv].ok
  BY <1>1, <1>5, <1>6, WkMoves DEF Moving
<1>8. /\ late' = late \cup {[peer |-> wk[srv].peer, dest |-> wk[srv].dest,
                             note |-> Notification(srv)]}
      /\ failed' = failed \cup {Front(srv).n}
      /\ UNCHANGED <<accept, open, io, rmv, inTable, userId, bound, uip, authed, lastLogin,
                     que, inbox, texts, logins>>
  BY DEF RpcFail, conns, users, clients
<1> QED BY <1>1, <1>2, <1>3, <1>4, <1>7, <1>8 DEF Busying

(* The answer, and the end of the request.                                 *)
LEMMA RespondDoes ==
  ASSUME Base, NEW srv \in Server, Respond(srv)
  PROVE  /\ wk[srv].pc = "rsp" /\ que[srv] # <<>> /\ Front(srv) \in Request
         /\ Moving(srv) /\ wk'[srv] = Idle
         /\ Front(srv).session \in Session /\ Answer(srv) \in Item
         /\ inbox' = Sent(Front(srv).session, Answer(srv))
         /\ que' = [que EXCEPT ![srv] = Tail(@)]
         /\ UNCHANGED <<accept, open, io, rmv, inTable, userId, bound, uip, authed, lastLogin,
                        texts, logins, late, failed>>
<1>1. /\ Types /\ que[srv] # <<>> /\ wk[srv].pc = "rsp" /\ wk[srv] \in Wk
  BY DEF Base, Types, Shape, Respond
<1>2. Front(srv) \in Request
  BY <1>1, FrontIsFirst
<1>3. Front(srv).session \in Session
  BY <1>2, RequestKinds
<1>4. Answer(srv) \in Item
  <2>1. CASE Front(srv).type = "login"
    BY <1>1, <1>2, <2>1, RequestKinds DEF Answer, Item, Wk
  <2>2. CASE Front(srv).type = "text"
    <3>1. Answer(srv) = [kind |-> "rsp", session |-> Front(srv).session,
                         to |-> Front(srv).to, n |-> Front(srv).n]
      BY <2>2 DEF Answer, Notification
    <3> QED BY <1>2, <2>2, <3>1, RequestKinds DEF Item
  <2> QED BY <1>2, <2>1, <2>2, RequestKinds
<1>5. Idle \in Wk
  BY DEF Idle, Wk, Place
<1>6. Moving(srv) /\ wk'[srv] = Idle
  BY <1>1, <1>5, WkMoves DEF Respond, Moving
<1> QED BY <1>1, <1>2, <1>3, <1>4, <1>6 DEF Respond, conns, users, clients, calls

(* What a call whose caller has given up consists of.                      *)
LEMMA LateKinds ==
  ASSUME Types, NEW c \in late
  PROVE  c.peer \in Server /\ c.dest \in Session \cup {None} /\ c.note \in Item
  BY DEF Types

(* Its handler looks the session up ...                                    *)
LEMMA LateLookupDoes ==
  ASSUME Base, Auth, NEW c \in late, LateLookup(c)
  PROVE  /\ c.dest = None
         /\ \/ late' = late \ {c}
            \/ \E d \in Session :
                 /\ d = bound[c.peer][c.note.to]
                 /\ late' = (late \ {c}) \cup {[peer |-> c.peer, dest |-> d, note |-> c.note]}
         /\ UNCHANGED <<accept, open, io, rmv, inTable, userId, bound, uip, authed, lastLogin,
                        que, wk, inbox, texts, logins, failed>>
<1>1. Types /\ c.dest = None /\ c.peer \in Server /\ c.note \in Item
  BY LateKinds DEF Base, LateLookup
<1>2. c \in [peer : Server, dest : Session \cup {None}, note : Item]
  BY <1>1 DEF Types
<1> DEFINE d == bound[c.peer][c.note.to]
<1>3. c.note.to \in Uid
  BY <1>1, ItemKinds DEF Auth, LateAuth
<1>4. d \in Session \cup {None}
  BY <1>1, <1>3 DEF Types
<1>5. late' = (late \ {c}) \cup (IF d = None THEN {} ELSE {[c EXCEPT !.dest = d]})
  BY DEF LateLookup
<1>6. [c EXCEPT !.dest = d] = [peer |-> c.peer, dest |-> d, note |-> c.note]
  BY <1>2
<1>7. UNCHANGED <<accept, open, io, rmv, inTable, userId, bound, uip, authed, lastLogin,
                  que, wk, inbox, texts, logins, failed>>
  BY DEF LateLookup, conns, users, clients
<1>8. \/ late' = late \ {c}
      \/ \E e \in Session :
           /\ e = bound[c.peer][c.note.to]
           /\ late' = (late \ {c}) \cup {[peer |-> c.peer, dest |-> e, note |-> c.note]}
  BY <1>4, <1>5, <1>6
<1> QED BY <1>1, <1>7, <1>8

(* ... and sends to it.                                                    *)
LEMMA LateNotifyDoes ==
  ASSUME Base, NEW c \in late, LateNotify(c)
  PROVE  /\ c.dest \in Session /\ c.note \in Item
         /\ inbox' = Sent(c.dest, c.note) /\ late' = late \ {c}
         /\ UNCHANGED <<accept, open, io, rmv, inTable, userId, bound, uip, authed, lastLogin,
                        que, wk, texts, logins, failed>>
  BY LateKinds DEF Base, LateNotify, conns, users, clients

-----------------------------------------------------------------------------
(* A worker's step on a login.                                             *)
LEMMA LoginBase ==
  ASSUME Base, NEW srv \in Server,
         \/ \E found \in BOOLEAN : LoginCheck(srv, found)
         \/ SetUserId(srv) \/ SetUserIp(srv) \/ SetUserSession(srv)
  PROVE  Base'
<1>0. Types /\ Shape /\ Sources
  BY DEF Base
<1>1. CASE \E found \in BOOLEAN : LoginCheck(srv, found)
  <2>1. PICK found \in BOOLEAN : LoginCheck(srv, found)
    BY <1>1
  <2>2. Types'
    BY <1>0, <2>1, LoginCheckDoes, ZenonT(60) DEF Types, Moving
  <2>3. Shape'
    BY <1>0, <2>1, LoginCheckDoes, ShapeOfOne DEF Moving, Busying
  <2>4. Sources'
    BY <1>0, <2>1, LoginCheckDoes, SourcesStay
  <2> QED BY <2>2, <2>3, <2>4 DEF Base
<1>2. CASE SetUserId(srv)
  <2>1. Types'
    <3>1. Front(srv).session \in Session /\ Front(srv).uid \in Uid
      BY <1>2, SetUserIdDoes, RequestKinds DEF Busying
    <3>2. userId' = [userId EXCEPT ![Front(srv).session] = Front(srv).uid]
      BY <1>2, SetUserIdDoes
    <3>3. userId' \in [Session -> Uid \cup {None}]
      BY <1>0, <3>1, <3>2 DEF Types
    <3> QED BY <1>0, <1>2, <3>3, SetUserIdDoes DEF Types, Moving
  <2>2. Shape'
    BY <1>0, <1>2, SetUserIdDoes, ShapeOfOne DEF Moving, Busying
  <2>3. Sources'
    BY <1>0, <1>2, SetUserIdDoes, SourcesStay
  <2> QED BY <2>1, <2>2, <2>3 DEF Base
<1>3. CASE SetUserIp(srv)
  <2>1. Types'
    <3>1. Front(srv).session \in Session /\ Front(srv).uid \in Uid
      BY <1>3, SetUserIpDoes, RequestKinds DEF Busying
    <3>2. uip' \in [Uid -> Server \cup {None}] /\ lastLogin' \in [Uid -> Session \cup {None}]
      BY <1>0, <1>3, <3>1, SetUserIpDoes DEF Types
    <3> QED BY <1>0, <1>3, <3>2, SetUserIpDoes DEF Types, Moving
  <2>2. Shape'
    BY <1>0, <1>3, SetUserIpDoes, ShapeOfOne DEF Moving, Busying
  <2>3. Sources'
    BY <1>0, <1>3, SetUserIpDoes, SourcesStay
  <2> QED BY <2>1, <2>2, <2>3 DEF Base
<1>4. CASE SetUserSession(srv)
  <2>1. Types'
    <3>1. Front(srv).session \in Session /\ Front(srv).uid \in Uid
      BY <1>4, SetUserSessionDoes, RequestKinds DEF Busying
    <3>2. bound' = [bound EXCEPT ![srv][Front(srv).uid] = Front(srv).session]
      BY <1>4, SetUserSessionDoes
    <3>3. bound' \in [Server -> [Uid -> Session \cup {None}]]
      BY <1>0, <3>1, <3>2 DEF Types
    <3> QED BY <1>0, <1>4, <3>3, SetUserSessionDoes DEF Types, Moving
  <2>2. Shape'
    BY <1>0, <1>4, SetUserSessionDoes, ShapeOfOne DEF Moving, Busying
  <2>3. Sources'
    BY <1>0, <1>4, SetUserSessionDoes, SourcesStay
  <2> QED BY <2>1, <2>2, <2>3 DEF Base
<1> QED BY <1>1, <1>2, <1>3, <1>4

(* What Send leaves true of the sources.                                   *)
LEMMA SourcesOfSend ==
  ASSUME Types, Sources, NEW s \in Session, NEW m \in Item, inbox' = Sent(s, m),
         UNCHANGED <<accept, io, open>>,
         \A srv \in Server : \A i \in 1..Len(que'[srv]) :
           Home[que'[srv][i].session] = srv /\ accept[que'[srv][i].session] # "none"
  PROVE  Sources'
<1>1. \A t \in Session : inbox'[t] # inbox[t] => open[t]
  BY SentDoes
<1> QED BY <1>1 DEF Sources

(* A worker's step on a message, and an answer.                            *)
LEMMA TextBase ==
  ASSUME Base, NEW srv \in Server,
         \/ TextRoute(srv) \/ LocalLookup(srv) \/ LocalNotify(srv)
         \/ RpcLookup(srv) \/ RpcNotify(srv) \/ RpcFail(srv) \/ Respond(srv)
  PROVE  Base'
<1>0. Types /\ Shape /\ Sources
  BY DEF Base
<1>1. CASE TextRoute(srv)
  <2>1. Types'
    <3>1. wk' \in [Server -> Wk]
      BY <1>1, TextRouteDoes DEF Moving
    <3>2. UNCHANGED <<accept, open, io, rmv, inTable, userId, bound, uip, authed, lastLogin,
                      que, inbox, texts, logins, late, failed>>
      BY <1>1, TextRouteDoes
    <3> QED BY <1>0, <3>1, <3>2 DEF Types
  <2>2. Shape'
    BY <1>0, <1>1, TextRouteDoes, ShapeOfOne, NoneAssumption DEF Moving, Busying
  <2>3. Sources'
    BY <1>0, <1>1, TextRouteDoes, SourcesStay
  <2> QED BY <2>1, <2>2, <2>3 DEF Base
<1>2. CASE LocalLookup(srv) \/ RpcLookup(srv)
  <2>1. Types'
    BY <1>0, <1>2, LookupDoes DEF Types, Moving
  <2>2. Shape'
    BY <1>0, <1>2, LookupDoes, ShapeOfOne, NoneAssumption DEF Moving, Busying
  <2>3. Sources'
    BY <1>0, <1>2, LookupDoes, SourcesStay
  <2> QED BY <2>1, <2>2, <2>3 DEF Base
<1>3. CASE LocalNotify(srv) \/ RpcNotify(srv)
  <2>1. Types'
    <3>1. inbox' \in [Session -> Seq(Item)]
      BY <1>0, <1>3, NotifyDoes, SentDoes
    <3> QED BY <1>0, <1>3, <3>1, NotifyDoes DEF Types, Moving
  <2>2. Shape'
    BY <1>0, <1>3, NotifyDoes, ShapeOfOne DEF Moving, Busying
  <2>3. Sources'
    BY <1>0, <1>3, NotifyDoes, SourcesOfSend DEF Sources
  <2> QED BY <2>1, <2>2, <2>3 DEF Base
<1>4. CASE RpcFail(srv)
  <2>1. Types'
    <3>1. Front(srv).n \in 1..MaxTexts
      BY <1>4, RpcFailDoes, RequestKinds DEF Busying
    <3>2. late' \subseteq [peer : Server, dest : Session \cup {None}, note : Item]
      <4>1. [peer |-> wk[srv].peer, dest |-> wk[srv].dest, note |-> Notification(srv)]
              \in [peer : Server, dest : Session \cup {None}, note : Item]
        BY <1>4, RpcFailDoes
      <4>2. late' = late \cup {[peer |-> wk[srv].peer, dest |-> wk[srv].dest,
                                note |-> Notification(srv)]}
        BY <1>4, RpcFailDoes
      <4>3. late \subseteq [peer : Server, dest : Session \cup {None}, note : Item]
        BY <1>0 DEF Types
      <4> QED BY <4>1, <4>2, <4>3
    <3>3. failed' \subseteq 1..MaxTexts
      BY <1>0, <1>4, <3>1, RpcFailDoes, ZenonT(60) DEF Types
    <3> QED BY <1>0, <1>4, <3>2, <3>3, RpcFailDoes DEF Types, Moving
  <2>2. Shape'
    BY <1>0, <1>4, RpcFailDoes, ShapeOfOne DEF Moving, Busying
  <2>3. Sources'
    BY <1>0, <1>4, RpcFailDoes, SourcesStay
  <2> QED BY <2>1, <2>2, <2>3 DEF Base
<1>5. CASE Respond(srv)
  <2>1. /\ que' \in [Server -> Seq(Request)]
        /\ Len(que'[srv]) = Len(que[srv]) - 1
        /\ \A i \in 1..Len(que'[srv]) : i + 1 \in 1..Len(que[srv]) /\ que'[srv][i] = que[srv][i + 1]
        /\ \A oth \in Server \ {srv} : que'[oth] = que[oth]
    BY <1>0, <1>5, RespondDoes, Popped
  <2>2. Types'
    <3>1. inbox' \in [Session -> Seq(Item)]
      BY <1>0, <1>5, RespondDoes, SentDoes
    <3> QED BY <1>0, <1>5, <2>1, <3>1, RespondDoes DEF Types, Moving
  <2>3. Shape'
    <3>1. wk'[srv] = Idle /\ Idle.pc = "idle"
      BY <1>5, RespondDoes DEF Idle
    <3>2. \A oth \in Server \ {srv} : wk'[oth] = wk[oth] /\ que'[oth] = que[oth] /\ Front(oth)' = Front(oth)
      BY <1>5, <2>1, RespondDoes DEF Moving, Front
    <3> QED BY <1>0, <3>1, <3>2 DEF Shape
  <2>4. Sources'
    <3>1. \A oth \in Server : \A i \in 1..Len(que'[oth]) :
            Home[que'[oth][i].session] = oth /\ accept[que'[oth][i].session] # "none"
      <4> SUFFICES ASSUME NEW oth \in Server, NEW i \in 1..Len(que'[oth])
                   PROVE  Home[que'[oth][i].session] = oth /\ accept[que'[oth][i].session] # "none"
        OBVIOUS
      <4>1. CASE oth = srv
        <5>1. i + 1 \in 1..Len(que[srv]) /\ que'[srv][i] = que[srv][i + 1]
          BY <2>1, <4>1
        <5> QED BY <1>0, <4>1, <5>1 DEF Sources
      <4>2. CASE oth # srv
        BY <1>0, <2>1, <4>2 DEF Sources
      <4> QED BY <4>1, <4>2
    <3> QED BY <1>0, <1>5, <3>1, RespondDoes, SourcesOfSend
  <2> QED BY <2>2, <2>3, <2>4 DEF Base
<1> QED BY <1>1, <1>2, <1>3, <1>4, <1>5

(* A step of a handler whose caller has given up.                          *)
LEMMA LateBase ==
  ASSUME Base, Auth, NEW c \in late, LateLookup(c) \/ LateNotify(c)
  PROVE  Base'
<1>0. Types /\ Shape /\ Sources
  BY DEF Base
<1>1. c.peer \in Server /\ c.dest \in Session \cup {None} /\ c.note \in Item
  BY <1>0, LateKinds
<1>2. CASE LateLookup(c)
  <2>1. late' \subseteq [peer : Server, dest : Session \cup {None}, note : Item]
    <3>1. late \subseteq [peer : Server, dest : Session \cup {None}, note : Item]
      BY <1>0 DEF Types
    <3>2. \A d \in Session : [peer |-> c.peer, dest |-> d, note |-> c.note]
                              \in [peer : Server, dest : Session \cup {None}, note : Item]
      BY <1>1
    <3>3. \/ late' = late \ {c}
          \/ \E d \in Session :
               late' = (late \ {c}) \cup {[peer |-> c.peer, dest |-> d, note |-> c.note]}
      BY <1>2, LateLookupDoes
    <3> QED BY <3>1, <3>2, <3>3
  <2>2. Types'
    BY <1>0, <1>2, <2>1, LateLookupDoes DEF Types
  <2>3. Shape' /\ Sources'
    BY <1>0, <1>2, LateLookupDoes, ShapeStays, SourcesStay
  <2> QED BY <2>2, <2>3 DEF Base
<1>3. CASE LateNotify(c)
  <2>1. inbox' \in [Session -> Seq(Item)]
    BY <1>0, <1>3, LateNotifyDoes, SentDoes
  <2>2. Types'
    BY <1>0, <1>3, <2>1, LateNotifyDoes DEF Types
  <2>3. Shape'
    BY <1>0, <1>3, LateNotifyDoes, ShapeStays
  <2>4. Sources'
    BY <1>0, <1>3, LateNotifyDoes, SourcesOfSend DEF Sources
  <2> QED BY <2>2, <2>3, <2>4 DEF Base
<1> QED BY <1>2, <1>3

-----------------------------------------------------------------------------
(* Nothing takes a token back: what does not change stays authenticated.   *)
LEMMA AuthStays ==
  ASSUME Base, Auth, NotifyOnlyAuthed, \A s \in Session : authed[s] \subseteq authed'[s]
  PROVE  /\ UNCHANGED bound => BoundAuth'
         /\ UNCHANGED <<wk, que>> => WorkAuth'
         /\ UNCHANGED late => LateAuth'
         /\ UNCHANGED <<userId, rmv>> => OwnAuth'
         /\ UNCHANGED inbox => NotifyOnlyAuthed'
<1>1. ASSUME UNCHANGED bound PROVE BoundAuth'
  BY <1>1 DEF Base, Types, Auth, BoundAuth
<1>2. ASSUME UNCHANGED <<wk, que>> PROVE WorkAuth'
  <2> SUFFICES ASSUME NEW srv \in Server
               PROVE  /\ wk[srv].pc \in {"setUser", "setIp", "bind"}
                           => Front(srv).uid \in authed'[Front(srv).session]
                      /\ wk[srv].pc \in {"notify", "rpcSend"} => Front(srv).to \in authed'[wk[srv].dest]
    BY <1>2 DEF WorkAuth, Front
  <2>1. wk[srv].pc # "idle" => Front(srv).session \in Session
    BY FrontIsFirst, RequestKinds DEF Base, Shape
  <2>2. wk[srv].pc \in {"notify", "rpcSend"} => wk[srv].dest \in Session
    BY DEF Base, Types, Wk, Shape
  <2> QED BY <2>1, <2>2 DEF Auth, WorkAuth
<1>3. ASSUME UNCHANGED late PROVE LateAuth'
  BY <1>3 DEF Base, Types, Auth, LateAuth
<1>4. ASSUME UNCHANGED <<userId, rmv>> PROVE OwnAuth'
  BY <1>4 DEF Auth, OwnAuth
<1>5. ASSUME UNCHANGED inbox PROVE NotifyOnlyAuthed'
  BY <1>5 DEF NotifyOnlyAuthed, Items
<1> QED BY <1>1, <1>2, <1>3, <1>4, <1>5

(* A step of one worker: what it has to show of its own request.           *)
LEMMA WorkAuthOfOne ==
  ASSUME Base, Auth, NEW srv \in Server, UNCHANGED que, Moving(srv),
         \A s \in Session : authed[s] \subseteq authed'[s],
         wk'[srv].pc \in {"setUser", "setIp", "bind"} => Front(srv).uid \in authed'[Front(srv).session],
         wk'[srv].pc \in {"notify", "rpcSend"} => Front(srv).to \in authed'[wk'[srv].dest]
  PROVE  WorkAuth'
<1> SUFFICES ASSUME NEW oth \in Server
             PROVE  /\ wk'[oth].pc \in {"setUser", "setIp", "bind"}
                         => Front(oth).uid \in authed'[Front(oth).session]
                    /\ wk'[oth].pc \in {"notify", "rpcSend"} => Front(oth).to \in authed'[wk'[oth].dest]
  BY DEF WorkAuth, Front
<1>1. CASE oth = srv
  BY <1>1
<1>2. CASE oth # srv
  <2>1. wk[oth].pc # "idle" => Front(oth).session \in Session
    BY FrontIsFirst, RequestKinds DEF Base, Shape
  <2>2. wk[oth].pc \in {"notify", "rpcSend"} => wk[oth].dest \in Session
    BY DEF Base, Types, Wk, Shape
  <2> QED BY <1>2, <2>1, <2>2 DEF Auth, WorkAuth, Moving
<1> QED BY <1>1, <1>2

(* A message sent to a session that is authenticated for it.               *)
LEMMA AuthOfSend ==
  ASSUME Base, NotifyOnlyAuthed, NEW s \in Session, NEW m \in Item, inbox' = Sent(s, m),
         UNCHANGED authed, m.kind = "notify" => m.to \in authed[s]
  PROVE  NotifyOnlyAuthed'
<1>1. \A t \in Session : \A k \in Items(t)' : k \in Items(t) \/ (t = s /\ k = m)
  BY SentDoes DEF Base
<1> QED BY <1>1 DEF NotifyOnlyAuthed

(* Sessions come and go.                                                   *)
LEMMA SessionAuth ==
  ASSUME Base, Auth, NotifyOnlyAuthed, NEW s \in Session,
         \/ AcceptStart(s) \/ AcceptInsert(s) \/ ReadError(s) \/ InvalidHeader(s)
         \/ ClearFind(s) \/ RmvUserSession(s) \/ ClearErase(s)
  PROVE  Auth' /\ NotifyOnlyAuthed'
<1>1. UNCHANGED <<que, wk, inbox, late, authed, userId>>
  BY DEF AcceptStart, AcceptInsert, ReadError, InvalidHeader, ClearFind, RmvUserSession,
         ClearErase, users, calls
<1>2. WorkAuth' /\ LateAuth' /\ NotifyOnlyAuthed'
  BY <1>1, AuthStays
<1>3. BoundAuth'
  <2>1. CASE RmvUserSession(s) /\ rmv[s] # None
    <3>1. bound' = [bound EXCEPT ![Home[s]][rmv[s]] = None] /\ Home[s] \in Server /\ rmv[s] \in Uid
      BY <2>1, HomeAssumption DEF RmvUserSession, Base, Types
    <3>2. \A srv \in Server, u \in Uid : bound'[srv][u] \in {bound[srv][u], None}
      BY <3>1 DEF Base, Types
    <3> QED BY <1>1, <3>2 DEF Auth, BoundAuth
  <2>2. CASE ~(RmvUserSession(s) /\ rmv[s] # None)
    <3>1. UNCHANGED bound
      BY <2>2 DEF AcceptStart, AcceptInsert, ReadError, InvalidHeader, ClearFind, RmvUserSession,
                  ClearErase, users
    <3> QED BY <1>1, <3>1, AuthStays
  <2> QED BY <2>1, <2>2
<1>4. OwnAuth'
  <2>1. CASE ClearFind(s) \/ RmvUserSession(s)
    <3>1. \A t \in Session : rmv'[t] \in {rmv[t], userId[t], None}
      BY <2>1 DEF ClearFind, RmvUserSession, Base, Types
    <3> QED BY <1>1, <3>1 DEF Auth, OwnAuth
  <2>2. CASE ~(ClearFind(s) \/ RmvUserSession(s))
    <3>1. UNCHANGED <<userId, rmv>>
      BY <1>1, <2>2 DEF AcceptStart, AcceptInsert, ReadError, InvalidHeader, ClearErase
    <3> QED BY <1>1, <3>1, AuthStays
  <2> QED BY <2>1, <2>2
<1> QED BY <1>2, <1>3, <1>4 DEF Auth

(* A client's request.                                                     *)
LEMMA PostAuth ==
  ASSUME Base, Auth, NotifyOnlyAuthed, NEW s \in Session, NEW r \in Request, Post(s, r)
  PROVE  Auth' /\ NotifyOnlyAuthed'
<1>1. /\ UNCHANGED <<wk, inbox, late, authed, userId, rmv, bound>>
      /\ Home[s] \in Server /\ que' = [que EXCEPT ![Home[s]] = Append(@, r)]
  BY HomeAssumption DEF Post, conns, users, calls
<1>2. \A srv \in Server : que[srv] # <<>> => Front(srv)' = Front(srv)
  BY <1>1, Posted DEF Base, Front
<1>3. WorkAuth'
  BY <1>1, <1>2 DEF Base, Shape, Auth, WorkAuth
<1> QED BY <1>1, <1>3, AuthStays DEF Auth

(* A worker's step on a login.                                             *)
LEMMA LoginAuth ==
  ASSUME Base, Auth, NotifyOnlyAuthed, NEW srv \in Server,
         \/ \E found \in BOOLEAN : LoginCheck(srv, found)
         \/ SetUserId(srv) \/ SetUserIp(srv) \/ SetUserSession(srv)
  PROVE  Auth' /\ NotifyOnlyAuthed'
<1>1. CASE \E found \in BOOLEAN : LoginCheck(srv, found)
  <2>1. PICK found \in BOOLEAN : LoginCheck(srv, found)
    BY <1>1
  <2>2. WorkAuth'
    BY <2>1, LoginCheckDoes, WorkAuthOfOne
  <2> QED BY <2>1, <2>2, LoginCheckDoes, AuthStays DEF Auth
<1>2. CASE SetUserId(srv)
  <2>1. /\ userId' = [userId EXCEPT ![Front(srv).session] = Front(srv).uid]
        /\ Front(srv).session \in Session /\ Front(srv).uid \in authed[Front(srv).session]
        /\ UNCHANGED <<authed, rmv, que, bound, late, inbox>>
    BY <1>2, SetUserIdDoes, RequestKinds DEF Busying, Auth, WorkAuth
  <2>2. WorkAuth'
    BY <1>2, <2>1, SetUserIdDoes, WorkAuthOfOne
  <2>3. OwnAuth'
    BY <2>1 DEF Base, Types, Auth, OwnAuth
  <2> QED BY <2>1, <2>2, <2>3, AuthStays DEF Auth
<1>3. CASE SetUserIp(srv)
  <2>1. /\ Front(srv).uid \in authed[Front(srv).session]
        /\ UNCHANGED <<authed, rmv, userId, que, bound, late, inbox>>
    BY <1>3, SetUserIpDoes DEF Busying, Auth, WorkAuth
  <2>2. WorkAuth'
    BY <1>3, <2>1, SetUserIpDoes, WorkAuthOfOne
  <2> QED BY <2>1, <2>2, AuthStays DEF Auth
<1>4. CASE SetUserSession(srv)
  <2> DEFINE s == Front(srv).session
             v == Front(srv).uid
  <2>1. /\ bound' = [bound EXCEPT ![srv][v] = s]
        /\ s \in Session /\ v \in Uid /\ v \in authed[s] /\ Home[s] = srv
        /\ UNCHANGED <<authed, rmv, userId, que, late, inbox>>
    <3>1. Busying(srv, "bind", "login")
      BY <1>4, SetUserSessionDoes
    <3>2. s \in Session /\ v \in Uid /\ v \in authed[s]
      BY <3>1, RequestKinds DEF Busying, Auth, WorkAuth
    <3>3. Home[s] = srv
      BY <3>1, FrontIsFirst DEF Busying, Base, Sources
    <3> QED BY <1>4, <3>2, <3>3, SetUserSessionDoes
  <2>2. WorkAuth'
    BY <1>4, <2>1, SetUserSessionDoes, WorkAuthOfOne
  <2> HIDE DEF s, v
  <2>3. \A oth \in Server, u \in Uid :
          bound'[oth][u] = IF oth = srv /\ u = v THEN s ELSE bound[oth][u]
    BY <2>1 DEF Base, Types
  <2>4. BoundAuth'
    BY <2>1, <2>3 DEF Auth, BoundAuth
  <2> QED BY <2>1, <2>2, <2>4, AuthStays DEF Auth
<1> QED BY <1>1, <1>2, <1>3, <1>4

(* A worker's step on a message, and an answer.                            *)
LEMMA TextAuth ==
  ASSUME Base, Auth, NotifyOnlyAuthed, NEW srv \in Server,
         \/ TextRoute(srv) \/ LocalLookup(srv) \/ LocalNotify(srv)
         \/ RpcLookup(srv) \/ RpcNotify(srv) \/ RpcFail(srv) \/ Respond(srv)
  PROVE  Auth' /\ NotifyOnlyAuthed'
<1>0. UNCHANGED <<authed, rmv, userId, bound>>
  BY TextRouteDoes, LookupDoes, NotifyDoes, RpcFailDoes, RespondDoes
<1>1. CASE TextRoute(srv)
  <2>1. WorkAuth'
    BY <1>0, <1>1, TextRouteDoes, WorkAuthOfOne
  <2> QED BY <1>0, <1>1, <2>1, TextRouteDoes, AuthStays DEF Auth
<1>2. CASE LocalLookup(srv) \/ RpcLookup(srv)
  <2>1. Front(srv).to \in Uid
    BY <1>2, LookupDoes, RequestKinds DEF Busying
  <2>2. wk'[srv].pc \in {"rsp", "notify", "rpcSend"}
    BY <1>2, LookupDoes
  <2>3. wk'[srv].pc # "rsp" => Front(srv).to \in authed[wk'[srv].dest]
    BY <1>2, <2>1, LookupDoes DEF Auth, BoundAuth
  <2>4. WorkAuth'
    BY <1>0, <1>2, <2>2, <2>3, LookupDoes, WorkAuthOfOne
  <2> QED BY <1>0, <1>2, <2>4, LookupDoes, AuthStays DEF Auth
<1>3. CASE LocalNotify(srv) \/ RpcNotify(srv)
  <2>1. Front(srv).to \in authed[wk[srv].dest]
    BY <1>3, NotifyDoes DEF Busying, Auth, WorkAuth
  <2>2. WorkAuth'
    BY <1>0, <1>3, NotifyDoes, WorkAuthOfOne
  <2>3. NotifyOnlyAuthed'
    BY <1>0, <1>3, <2>1, NotifyDoes, AuthOfSend DEF Notification
  <2> QED BY <1>0, <1>3, <2>2, <2>3, NotifyDoes, AuthStays DEF Auth
<1>4. CASE RpcFail(srv)
  <2>1. WorkAuth'
    BY <1>0, <1>4, RpcFailDoes, WorkAuthOfOne
  <2>2. LateAuth'
    <3> DEFINE x == [peer |-> wk[srv].peer, dest |-> wk[srv].dest, note |-> Notification(srv)]
    <3>1. late' = late \cup {x}
      BY <1>4, RpcFailDoes
    <3>2. x.note.kind = "notify" /\ x.note.to = Front(srv).to /\ x.dest = wk[srv].dest
      BY DEF Notification
    <3>3. wk[srv].dest # None => wk[srv].pc = "rpcSend"
      BY <1>4, RpcFailDoes DEF Busying, Base, Shape
    <3>4. x.dest # None => x.note.to \in authed[x.dest]
      BY <3>2, <3>3 DEF Auth, WorkAuth
    <3> HIDE DEF x
    <3> QED BY <1>0, <3>1, <3>2, <3>4 DEF Auth, LateAuth
  <2> QED BY <1>0, <1>4, <2>1, <2>2, RpcFailDoes, AuthStays DEF Auth
<1>5. CASE Respond(srv)
  <2>1. wk'[srv].pc = "idle" /\ \A oth \in Server \ {srv} : wk'[oth] = wk[oth] /\ que'[oth] = que[oth]
    BY <1>5, RespondDoes, Popped DEF Idle, Moving, Base
  <2>2. WorkAuth'
    BY <1>0, <2>1 DEF Auth, WorkAuth, Front
  <2>3. Answer(srv).kind # "notify"
    BY DEF Answer, Notification
  <2>4. NotifyOnlyAuthed'
    BY <1>0, <1>5, <2>3, RespondDoes, AuthOfSend
  <2> QED BY <1>0, <1>5, <2>2, <2>4, RespondDoes, AuthStays DEF Auth
<1> QED BY <1>1, <1>2, <1>3, <1>4, <1>5

(* A step of a handler whose caller has given up.                          *)
LEMMA LateAuthStep ==
  ASSUME Base, Auth, NotifyOnlyAuthed, NEW c \in late, LateLookup(c) \/ LateNotify(c)
  PROVE  Auth' /\ NotifyOnlyAuthed'
<1>1. c.note.kind = "notify" /\ c.note \in Item /\ c.note.to \in Uid /\ c.peer \in Server
  BY LateKinds, ItemKinds DEF Base, Auth, LateAuth
<1>2. CASE LateLookup(c)
  <2>1. LateAuth'
    <3>1. CASE late' = late \ {c}
      BY <1>2, <3>1, LateLookupDoes DEF Auth, LateAuth
    <3>2. CASE late' # late \ {c}
      <4>1. PICK d \in Session :
              /\ d = bound[c.peer][c.note.to]
              /\ late' = (late \ {c}) \cup {[peer |-> c.peer, dest |-> d, note |-> c.note]}
        BY <1>2, <3>2, LateLookupDoes
      <4>2. c.note.to \in authed[d]
        BY <1>1, <4>1, NoneAssumption DEF Auth, BoundAuth
      <4>3. UNCHANGED authed
        BY <1>2, LateLookupDoes
      <4> QED BY <1>1, <4>1, <4>2, <4>3 DEF Auth, LateAuth
    <3> QED BY <3>1, <3>2
  <2> QED BY <1>2, <2>1, LateLookupDoes, AuthStays DEF Auth
<1>3. CASE LateNotify(c)
  <2>1. c.dest # None
    BY <1>3 DEF LateNotify
  <2>2. NotifyOnlyAuthed'
    BY <1>3, <2>1, LateNotifyDoes, AuthOfSend DEF Auth, LateAuth
  <2>3. LateAuth'
    BY <1>3, LateNotifyDoes DEF Auth, LateAuth
  <2> QED BY <1>3, <2>2, <2>3, LateNotifyDoes, AuthStays DEF Auth
<1> QED BY <1>2, <1>3

-----------------------------------------------------------------------------
(* What is behind the workers stays behind them.                           *)
BehindStays ==
  \A n \in 1..MaxTexts : /\ \A x \in Session : Behind(x, n) => Behind(x, n)'
                         /\ Answered(n) => Answered(n)'

(* What is in an inbox is an item.                                         *)
LEMMA ItemsAreItems ==
  ASSUME Types, NEW s \in Session
  PROVE  /\ inbox[s] \in Seq(Item) /\ Len(inbox[s]) \in Nat
         /\ \A i \in 1..Len(inbox[s]) : inbox[s][i] \in Items(s)
         /\ \A m \in Items(s) : m \in Item /\ \E i \in 1..Len(inbox[s]) : inbox[s][i] = m
<1>1. inbox[s] \in Seq(Item)
  BY DEF Types
<1>2. \A i \in 1..Len(inbox[s]) : inbox[s][i] \in Item
  BY <1>1
<1> QED BY <1>1, <1>2 DEF Items

(* What a message in a queue is.                                           *)
LEMMA QueuedText ==
  ASSUME Types, NEW srv \in Server, NEW i \in 1..Len(que[srv]), TextAt(srv, i)
  PROVE  /\ que[srv][i] \in Request /\ que[srv][i].n \in 1..MaxTexts
         /\ que[srv][i].session \in Session /\ que[srv][i].to \in Uid
<1>1. que[srv] \in Seq(Request)
  BY DEF Types
<1> QED BY <1>1, RequestKinds DEF TextAt

(* A step that leaves the queues alone, and takes nobody's answer back.    *)
LEMMA QueuesStay ==
  ASSUME UNCHANGED <<que, texts>>, Numbered,
         \A srv \in Server : wk[srv].pc = "rsp" => wk'[srv].pc = "rsp"
  PROVE  BehindStays /\ Numbered'
<1>1. Numbered'
  BY DEF Numbered, TextAt
<1>2. BehindStays
  BY DEF BehindStays, Behind, Answered, TextAt
<1> QED BY <1>1, <1>2

(* A request is appended; a message has the next number.                   *)
LEMMA QueueGrows ==
  ASSUME Base, Numbered, NEW srv \in Server, NEW r \in Request,
         que' = [que EXCEPT ![srv] = Append(@, r)], UNCHANGED wk,
         \/ r.type = "login" /\ texts' = texts
         \/ r.type = "text" /\ texts' = texts + 1 /\ r.n = texts'
  PROVE  BehindStays /\ Numbered'
<1>0. PICK last : last = Len(que[srv]) + 1
  OBVIOUS
<1>1. /\ Types /\ texts \in Nat /\ texts' \in Nat /\ texts <= texts'
      /\ \A oth \in Server : Len(que[oth]) \in Nat
  BY DEF Base, Types
<1>2. /\ Len(que'[srv]) = last /\ que'[srv][last] = r
      /\ \A i \in 1..Len(que[srv]) : que'[srv][i] = que[srv][i]
      /\ \A oth \in Server \ {srv} : que'[oth] = que[oth]
  BY <1>0, <1>1, Posted
<1>3. \A oth \in Server : \A i \in 1..Len(que'[oth]) :
        \/ oth = srv /\ i = last
        \/ i \in 1..Len(que[oth]) /\ que'[oth][i] = que[oth][i] /\ (TextAt(oth, i)' => TextAt(oth, i))
  BY <1>0, <1>1, <1>2 DEF TextAt
<1>4. TextAt(srv, last)' => que'[srv][last].n = texts + 1 /\ texts' = texts + 1
  BY <1>2 DEF TextAt
<1>5. \A oth \in Server : \A i \in 1..Len(que[oth]) :
        TextAt(oth, i) => que[oth][i].n <= texts /\ que[oth][i].n \in Nat
  BY <1>1, QueuedText DEF Numbered
<1>7. Numbered'
  <2>1. ASSUME NEW oth \in Server, NEW i \in 1..Len(que'[oth]), NEW j \in 1..Len(que'[oth]),
               TextAt(oth, i)', TextAt(oth, j)', i < j
        PROVE  que'[oth][i].n < que'[oth][j].n
    <3>1. CASE oth = srv /\ j = last
      <4>1. i \in 1..Len(que[oth]) /\ que'[oth][i] = que[oth][i] /\ TextAt(oth, i)
        BY <1>3, <2>1, <3>1
      <4>2. que[oth][i].n <= texts /\ que[oth][i].n \in Nat
        BY <1>5, <4>1
      <4>3. que'[oth][j].n = texts + 1
        BY <1>4, <2>1, <3>1
      <4> QED BY <1>1, <4>1, <4>2, <4>3
    <3>2. CASE oth = srv /\ i = last /\ j # last
      <4>1. j \in 1..Len(que[srv]) /\ i = Len(que[srv]) + 1
        BY <1>0, <1>3, <3>2
      <4> QED BY <1>1, <2>1, <4>1
    <3>3. CASE ~(oth = srv /\ j = last) /\ ~(oth = srv /\ i = last)
      BY <1>3, <2>1, <3>3 DEF Numbered
    <3> QED BY <3>1, <3>2, <3>3
  <2>2. ASSUME NEW oth \in Server, NEW i \in 1..Len(que'[oth]), TextAt(oth, i)'
        PROVE  que'[oth][i].n <= texts'
    <3>1. CASE oth = srv /\ i = last
      BY <1>1, <1>4, <2>2, <3>1
    <3>2. CASE ~(oth = srv /\ i = last)
      <4>1. i \in 1..Len(que[oth]) /\ que'[oth][i] = que[oth][i] /\ TextAt(oth, i)
        BY <1>3, <2>2, <3>2
      <4> QED BY <1>1, <1>5, <4>1
    <3> QED BY <3>1, <3>2
  <2>3. ASSUME NEW ox \in Server, NEW oy \in Server,
               NEW i \in 1..Len(que'[ox]), NEW j \in 1..Len(que'[oy]),
               TextAt(ox, i)', TextAt(oy, j)', que'[ox][i].n = que'[oy][j].n
        PROVE  ox = oy
    <3>1. CASE ox = srv /\ i = last
      <4>1. ASSUME oy # srv PROVE FALSE
        <5>1. j \in 1..Len(que[oy]) /\ que'[oy][j] = que[oy][j] /\ TextAt(oy, j)
          BY <1>3, <2>3, <4>1
        <5>2. que[oy][j].n <= texts /\ que[oy][j].n \in Nat /\ que'[ox][i].n = texts + 1
          BY <1>4, <1>5, <2>3, <3>1, <5>1
        <5> QED BY <1>1, <2>3, <5>1, <5>2, SMTT(30)
      <4> QED BY <3>1, <4>1
    <3>2. CASE oy = srv /\ j = last
      <4>1. ASSUME ox # srv PROVE FALSE
        <5>1. i \in 1..Len(que[ox]) /\ que'[ox][i] = que[ox][i] /\ TextAt(ox, i)
          BY <1>3, <2>3, <4>1
        <5>2. que[ox][i].n <= texts /\ que[ox][i].n \in Nat /\ que'[oy][j].n = texts + 1
          BY <1>4, <1>5, <2>3, <3>2, <5>1
        <5> QED BY <1>1, <2>3, <5>1, <5>2
      <4> QED BY <3>2, <4>1
    <3>3. CASE ~(ox = srv /\ i = last) /\ ~(oy = srv /\ j = last)
      BY <1>3, <2>3, <3>3 DEF Numbered
    <3> QED BY <3>1, <3>2, <3>3
  <2> QED BY <2>1, <2>2, <2>3 DEF Numbered
<1>8. BehindStays
  <2>1. ASSUME NEW n \in 1..MaxTexts, NEW x \in Session, Behind(x, n)
        PROVE  Behind(x, n)'
    <3>1. n <= texts /\ n \in Nat /\ Home[x] \in Server
      BY <2>1, HomeAssumption, BoundsAssumption DEF Behind
    <3>2. n <= texts'
      BY <1>1, <3>1
    <3>3. ASSUME NEW i \in 1..Len(que'[Home[x]]), TextAt(Home[x], i)'
          PROVE  n <= que'[Home[x]][i].n
      <4>1. CASE Home[x] = srv /\ i = last
        BY <1>1, <1>4, <3>1, <3>3, <4>1
      <4>2. CASE ~(Home[x] = srv /\ i = last)
        BY <1>3, <2>1, <3>1, <3>3, <4>2 DEF Behind
      <4> QED BY <4>1, <4>2
    <3>4. ASSUME NEW oth \in Server, NEW i \in 1..Len(que'[oth]),
                 TextAt(oth, i)', que'[oth][i].n = n
          PROVE  i = 1 /\ wk'[oth].pc = "rsp"
      <4>1. CASE oth = srv /\ i = last
        BY <1>1, <1>4, <3>1, <3>4, <4>1
      <4>2. CASE ~(oth = srv /\ i = last)
        BY <1>3, <2>1, <3>4, <4>2 DEF Behind
      <4> QED BY <4>1, <4>2
    <3> QED BY <3>2, <3>3, <3>4 DEF Behind
  <2>2. ASSUME NEW n \in 1..MaxTexts, Answered(n)
        PROVE  Answered(n)'
    <3>1. n <= texts /\ n \in Nat
      BY <2>2, BoundsAssumption DEF Answered
    <3>2. n <= texts'
      BY <1>1, <3>1
    <3>3. ASSUME NEW oth \in Server, NEW i \in 1..Len(que'[oth]), TextAt(oth, i)'
          PROVE  que'[oth][i].n # n
      <4>1. CASE oth = srv /\ i = last
        BY <1>1, <1>4, <3>1, <3>3, <4>1
      <4>2. CASE ~(oth = srv /\ i = last)
        BY <1>3, <2>2, <3>3, <4>2 DEF Answered
      <4> QED BY <4>1, <4>2
    <3> QED BY <3>2, <3>3 DEF Answered
  <2> QED BY <2>1, <2>2 DEF BehindStays
<1> QED BY <1>7, <1>8

(* The first request leaves a queue; its number, if it has one, is gone.   *)
LEMMA QueueShrinks ==
  ASSUME Base, Numbered, NEW srv \in Server, que[srv] # <<>>, wk[srv].pc = "rsp",
         que' = [que EXCEPT ![srv] = Tail(@)], UNCHANGED texts,
         \A oth \in Server \ {srv} : wk'[oth] = wk[oth]
  PROVE  /\ BehindStays /\ Numbered'
         /\ \A k \in 1..MaxTexts :
              Front(srv).type = "text" /\ k = Front(srv).n => Answered(k)'
<1>1. Types /\ \A oth \in Server : Len(que[oth]) \in Nat
  BY DEF Base, Types
<1>2. /\ \A i \in 1..Len(que'[srv]) : i + 1 \in 1..Len(que[srv]) /\ que'[srv][i] = que[srv][i + 1]
      /\ \A oth \in Server \ {srv} : que'[oth] = que[oth]
  BY <1>1, Popped
<1>3. /\ \A i \in 1..Len(que'[srv]) :
           TextAt(srv, i)' => i + 1 \in 1..Len(que[srv]) /\ TextAt(srv, i + 1)
                              /\ que'[srv][i] = que[srv][i + 1]
      /\ \A oth \in Server \ {srv} : \A i \in 1..Len(que'[oth]) :
           TextAt(oth, i)' => TextAt(oth, i) /\ i \in 1..Len(que[oth]) /\ que'[oth][i] = que[oth][i]
  BY <1>2 DEF TextAt
<1>4. Numbered'
  <2>1. ASSUME NEW oth \in Server, NEW i \in 1..Len(que'[oth]), NEW j \in 1..Len(que'[oth]),
               TextAt(oth, i)', TextAt(oth, j)', i < j
        PROVE  que'[oth][i].n < que'[oth][j].n
    <3>1. CASE oth = srv
      <4>1. i + 1 < j + 1 /\ i + 1 \in 1..Len(que[srv]) /\ j + 1 \in 1..Len(que[srv])
        BY <1>3, <2>1, <3>1
      <4> QED BY <1>3, <2>1, <3>1, <4>1 DEF Numbered
    <3>2. CASE oth # srv
      BY <1>3, <2>1, <3>2 DEF Numbered
    <3> QED BY <3>1, <3>2
  <2>2. ASSUME NEW oth \in Server, NEW i \in 1..Len(que'[oth]), TextAt(oth, i)'
        PROVE  que'[oth][i].n <= texts'
    BY <1>3, <2>2 DEF Numbered
  <2>3. ASSUME NEW ox \in Server, NEW oy \in Server,
               NEW i \in 1..Len(que'[ox]), NEW j \in 1..Len(que'[oy]),
               TextAt(ox, i)', TextAt(oy, j)', que'[ox][i].n = que'[oy][j].n
        PROVE  ox = oy
    <3>1. PICK a \in 1..Len(que[ox]) : TextAt(ox, a) /\ que[ox][a] = que'[ox][i]
      BY <1>3, <2>3
    <3>2. PICK b \in 1..Len(que[oy]) : TextAt(oy, b) /\ que[oy][b] = que'[oy][j]
      BY <1>3, <2>3
    <3> QED BY <2>3, <3>1, <3>2 DEF Numbered
  <2> QED BY <2>1, <2>2, <2>3 DEF Numbered
<1>5. BehindStays
  <2>1. ASSUME NEW n \in 1..MaxTexts, NEW x \in Session, Behind(x, n)
        PROVE  Behind(x, n)'
    <3>1. n <= texts' /\ Home[x] \in Server
      BY <2>1, HomeAssumption DEF Behind
    <3>2. ASSUME NEW i \in 1..Len(que'[Home[x]]), TextAt(Home[x], i)'
          PROVE  n <= que'[Home[x]][i].n
      <4>1. PICK a \in 1..Len(que[Home[x]]) :
              TextAt(Home[x], a) /\ que[Home[x]][a] = que'[Home[x]][i]
        BY <1>3, <3>1, <3>2
      <4> QED BY <2>1, <4>1 DEF Behind
    <3>3. ASSUME NEW oth \in Server, NEW i \in 1..Len(que'[oth]),
                 TextAt(oth, i)', que'[oth][i].n = n
          PROVE  i = 1 /\ wk'[oth].pc = "rsp"
      <4>1. CASE oth = srv
        <5>1. i + 1 \in 1..Len(que[srv]) /\ TextAt(srv, i + 1) /\ que[srv][i + 1].n = n
          BY <1>3, <3>3, <4>1
        <5>2. i + 1 = 1
          BY <2>1, <5>1 DEF Behind
        <5> QED BY <5>2
      <4>2. CASE oth # srv
        BY <1>3, <2>1, <3>3, <4>2 DEF Behind
      <4> QED BY <4>1, <4>2
    <3> QED BY <3>1, <3>2, <3>3 DEF Behind
  <2>2. ASSUME NEW n \in 1..MaxTexts, Answered(n)
        PROVE  Answered(n)'
    <3>1. ASSUME NEW oth \in Server, NEW i \in 1..Len(que'[oth]), TextAt(oth, i)'
          PROVE  que'[oth][i].n # n
      BY <1>3, <2>2, <3>1 DEF Answered
    <3> QED BY <2>2, <3>1 DEF Answered
  <2> QED BY <2>1, <2>2 DEF BehindStays
<1>6. ASSUME NEW k \in 1..MaxTexts, Front(srv).type = "text", k = Front(srv).n
      PROVE  Answered(k)'
  <2>1. Front(srv) = que[srv][1] /\ 1 \in 1..Len(que[srv]) /\ TextAt(srv, 1)
    BY <1>1, <1>6, FrontIsFirst DEF TextAt
  <2>2. k <= texts'
    BY <1>6, <2>1 DEF Numbered
  <2>3. ASSUME NEW oth \in Server, NEW i \in 1..Len(que'[oth]), TextAt(oth, i)'
        PROVE  que'[oth][i].n # k
    <3>1. CASE oth = srv
      <4>1. i + 1 \in 1..Len(que[srv]) /\ TextAt(srv, i + 1) /\ que'[srv][i] = que[srv][i + 1] /\ 1 < i + 1
        BY <1>3, <2>3, <3>1
      <4>2. k < que[srv][i + 1].n
        BY <1>6, <2>1, <4>1 DEF Numbered
      <4>3. que[srv][i + 1].n \in Nat
        BY <1>1, <4>1, QueuedText
      <4> QED BY <2>1, <3>1, <4>1, <4>2, <4>3
    <3>2. CASE oth # srv
      BY <1>3, <1>6, <2>1, <2>3, <3>2 DEF Numbered
    <3> QED BY <3>1, <3>2
  <2> QED BY <2>2, <2>3 DEF Answered
<1> QED BY <1>4, <1>5, <1>6

-----------------------------------------------------------------------------
(* Steps that deliver nothing.                                             *)
LEMMA OrderStays ==
  ASSUME Base, LateAuth, Delivered, Ordered, BehindStays, UNCHANGED <<inbox, late, failed>>
  PROVE  Delivered' /\ Ordered'
<1>1. Types /\ \A s \in Session : Items(s)' = Items(s)
  BY DEF Base, Items
<1>2. Ordered'
  BY DEF Ordered
<1>3. ASSUME NEW s \in Session, NEW m \in Items(s)
      PROVE  /\ m.kind = "notify" => Behind(m.session, m.n)'
             /\ m.kind = "rsp" => Answered(m.n)'
  BY <1>1, <1>3, ItemsAreItems, ItemKinds DEF Delivered, BehindStays
<1>4. ASSUME NEW c \in late PROVE Behind(c.note.session, c.note.n)'
  <2>1. c.note \in Item /\ c.note.kind = "notify"
    BY <1>1, LateKinds DEF LateAuth
  <2> QED BY <1>4, <2>1, ItemKinds DEF Delivered, BehindStays
<1>5. Delivered'
  BY <1>1, <1>3, <1>4 DEF Delivered
<1> QED BY <1>2, <1>5

(* The number of the message that a worker works on.                       *)
LEMMA WorkedNumber ==
  ASSUME Base, Numbered, NEW srv \in Server, que[srv] # <<>>, Front(srv).type = "text"
  PROVE  /\ Front(srv).n \in 1..MaxTexts /\ Front(srv).n <= texts
         /\ Front(srv).session \in Session /\ Home[Front(srv).session] = srv
         /\ \A i \in 1..Len(que[srv]) : TextAt(srv, i) => Front(srv).n <= que[srv][i].n
         /\ \A oth \in Server : \A i \in 1..Len(que[oth]) :
              TextAt(oth, i) /\ que[oth][i].n = Front(srv).n => oth = srv /\ i = 1
         /\ wk[srv].pc # "rsp" =>
              \A x \in Session, n \in 1..MaxTexts : Behind(x, n) =>
                 n # Front(srv).n /\ (Home[x] = srv => n < Front(srv).n)
         /\ \A n \in 1..MaxTexts : Answered(n) => n # Front(srv).n
<1>1. /\ Types /\ Front(srv) = que[srv][1] /\ Front(srv) \in Request /\ 1 \in 1..Len(que[srv])
      /\ TextAt(srv, 1) /\ Front(srv).n \in 1..MaxTexts /\ Front(srv).session \in Session
      /\ Front(srv).n <= texts
  BY FrontIsFirst, RequestKinds DEF Base, TextAt, Numbered
<1>2. Home[Front(srv).session] = srv
  BY <1>1 DEF Base, Sources
<1>3. ASSUME NEW i \in 1..Len(que[srv]), TextAt(srv, i)
      PROVE  Front(srv).n <= que[srv][i].n /\ (que[srv][i].n = Front(srv).n => i = 1)
  <2>1. que[srv][i].n \in 1..MaxTexts
    BY <1>1, <1>3, QueuedText
  <2>2. CASE i = 1
    BY <1>1, <2>1, <2>2
  <2>3. CASE i # 1
    <3>1. Front(srv).n < que[srv][i].n
      BY <1>1, <1>3, <2>3 DEF Numbered
    <3> QED BY <1>1, <2>1, <3>1
  <2> QED BY <2>2, <2>3
<1>4. \A oth \in Server : \A i \in 1..Len(que[oth]) :
        TextAt(oth, i) /\ que[oth][i].n = Front(srv).n => oth = srv /\ i = 1
  BY <1>1, <1>3 DEF Numbered
<1>5. ASSUME wk[srv].pc # "rsp", NEW x \in Session, NEW n \in 1..MaxTexts, Behind(x, n)
      PROVE  n # Front(srv).n /\ (Home[x] = srv => n < Front(srv).n)
  <2>1. n # Front(srv).n
    BY <1>1, <1>5 DEF Behind
  <2>2. Home[x] = srv => n <= Front(srv).n
    BY <1>1, <1>5 DEF Behind
  <2> QED BY <1>1, <2>1, <2>2
<1>6. \A n \in 1..MaxTexts : Answered(n) => n # Front(srv).n
  BY <1>1 DEF Answered
<1> QED BY <1>1, <1>2, <1>3, <1>4, <1>5, <1>6

(* A message is delivered, by the worker or by a late handler.             *)
LEMMA MessageSent ==
  ASSUME Base, LateAuth, Delivered, Ordered, BehindStays,
         NEW s \in Session, NEW m \in Item, m.kind = "notify", inbox' = Sent(s, m),
         late' \subseteq late, UNCHANGED failed,
         Behind(m.session, m.n)',
         \A c \in late' : c.note.n # m.n,
         \A k \in Items(s) : k.kind = "notify" /\ k.session = m.session =>
           k.n < m.n \/ (k.n > m.n /\ m.n \in failed)
  PROVE  Delivered' /\ Ordered'
<1>1. /\ Types /\ inbox[s] \in Seq(Item) /\ Len(inbox[s]) \in Nat
      /\ \A t \in Session \ {s} : inbox'[t] = inbox[t] /\ Items(t)' = Items(t)
      /\ \/ inbox'[s] = inbox[s] /\ Items(s)' = Items(s)
         \/ inbox'[s] = Append(inbox[s], m) /\ Items(s)' = Items(s) \cup {m}
  BY SentDoes, ItemsAreItems DEF Base
<1>2. \A t \in Session : \A k \in Items(t)' : k \in Items(t) \/ k = m
  BY <1>1
<1>3. ASSUME NEW t \in Session, NEW k \in Items(t)
      PROVE  /\ k.kind = "notify" => Behind(k.session, k.n)'
             /\ k.kind = "rsp" => Answered(k.n)'
  BY <1>1, <1>3, ItemsAreItems, ItemKinds DEF Delivered, BehindStays
<1>4. ASSUME NEW c \in late PROVE Behind(c.note.session, c.note.n)'
  <2>1. c.note \in Item /\ c.note.kind = "notify"
    BY <1>1, LateKinds DEF LateAuth
  <2> QED BY <1>4, <2>1, ItemKinds DEF Delivered, BehindStays
<1>5. Delivered'
  BY <1>2, <1>3, <1>4 DEF Delivered
<1>6. Ordered'
  <2> SUFFICES ASSUME NEW t \in Session, NEW i \in 1..Len(inbox'[t]), NEW j \in 1..Len(inbox'[t]),
                      i < j, inbox'[t][i].kind = "notify", inbox'[t][j].kind = "notify",
                      inbox'[t][i].session = inbox'[t][j].session
               PROVE  \/ inbox'[t][i].n < inbox'[t][j].n
                      \/ inbox'[t][i].n > inbox'[t][j].n /\ inbox'[t][j].n \in failed
    BY DEF Ordered
  <2>1. CASE inbox'[t] = inbox[t]
    BY <2>1 DEF Ordered
  <2>2. CASE t = s /\ inbox'[s] = Append(inbox[s], m)
    <3>1. /\ Len(inbox'[s]) = Len(inbox[s]) + 1 /\ inbox'[s][Len(inbox[s]) + 1] = m
          /\ \A k \in 1..Len(inbox[s]) : inbox'[s][k] = inbox[s][k]
      BY <1>1, <2>2
    <3>2. i \in 1..Len(inbox[s])
      BY <1>1, <2>2, <3>1
    <3>3. CASE j \in 1..Len(inbox[s])
      BY <2>2, <3>1, <3>2, <3>3 DEF Ordered
    <3>4. CASE j = Len(inbox[s]) + 1
      <4>1. inbox[s][i] \in Items(s)
        BY <3>2 DEF Items
      <4> QED BY <2>2, <3>1, <3>2, <3>4, <4>1
    <3> QED BY <1>1, <2>2, <3>1, <3>3, <3>4
  <2> QED BY <1>1, <2>1, <2>2
<1> QED BY <1>5, <1>6

(* An answer is sent.                                                      *)
LEMMA AnswerSent ==
  ASSUME Base, LateAuth, Delivered, Ordered, BehindStays,
         NEW s \in Session, NEW m \in Item, m.kind # "notify", inbox' = Sent(s, m),
         UNCHANGED <<late, failed>>, m.kind = "rsp" => Answered(m.n)'
  PROVE  Delivered' /\ Ordered'
<1>1. /\ Types /\ inbox[s] \in Seq(Item) /\ Len(inbox[s]) \in Nat
      /\ \A t \in Session \ {s} : inbox'[t] = inbox[t] /\ Items(t)' = Items(t)
      /\ \/ inbox'[s] = inbox[s] /\ Items(s)' = Items(s)
         \/ inbox'[s] = Append(inbox[s], m) /\ Items(s)' = Items(s) \cup {m}
  BY SentDoes, ItemsAreItems DEF Base
<1>2. \A t \in Session : \A k \in Items(t)' : k \in Items(t) \/ k = m
  BY <1>1
<1>3. ASSUME NEW t \in Session, NEW k \in Items(t)
      PROVE  /\ k.kind = "notify" => Behind(k.session, k.n)'
             /\ k.kind = "rsp" => Answered(k.n)'
  BY <1>1, <1>3, ItemsAreItems, ItemKinds DEF Delivered, BehindStays
<1>4. ASSUME NEW c \in late PROVE Behind(c.note.session, c.note.n)'
  <2>1. c.note \in Item /\ c.note.kind = "notify"
    BY <1>1, LateKinds DEF LateAuth
  <2> QED BY <1>4, <2>1, ItemKinds DEF Delivered, BehindStays
<1>5. Delivered'
  BY <1>2, <1>3, <1>4 DEF Delivered
<1>6. Ordered'
  <2> SUFFICES ASSUME NEW t \in Session, NEW i \in 1..Len(inbox'[t]), NEW j \in 1..Len(inbox'[t]),
                      i < j, inbox'[t][i].kind = "notify", inbox'[t][j].kind = "notify",
                      inbox'[t][i].session = inbox'[t][j].session
               PROVE  \/ inbox'[t][i].n < inbox'[t][j].n
                      \/ inbox'[t][i].n > inbox'[t][j].n /\ inbox'[t][j].n \in failed
    BY DEF Ordered
  <2>1. CASE inbox'[t] = inbox[t]
    BY <2>1 DEF Ordered
  <2>2. CASE t = s /\ inbox'[s] = Append(inbox[s], m)
    <3>1. /\ Len(inbox'[s]) = Len(inbox[s]) + 1 /\ inbox'[s][Len(inbox[s]) + 1] = m
          /\ \A k \in 1..Len(inbox[s]) : inbox'[s][k] = inbox[s][k]
      BY <1>1, <2>2
    <3>2. j # Len(inbox[s]) + 1
      BY <2>2, <3>1
    <3>3. i \in 1..Len(inbox[s]) /\ j \in 1..Len(inbox[s])
      BY <1>1, <2>2, <3>1, <3>2
    <3> QED BY <2>2, <3>1, <3>3 DEF Ordered
  <2> QED BY <1>1, <2>1, <2>2
<1> QED BY <1>5, <1>6

-----------------------------------------------------------------------------
(* Sessions come and go: nothing is queued, delivered or answered.         *)
LEMMA SessionOrder ==
  ASSUME Base, LateAuth, Order, NEW s \in Session,
         \/ AcceptStart(s) \/ AcceptInsert(s) \/ ReadError(s) \/ InvalidHeader(s)
         \/ ClearFind(s) \/ RmvUserSession(s) \/ ClearErase(s)
  PROVE  Order'
<1>1. UNCHANGED <<que, wk, inbox, late, failed, texts>>
  BY DEF AcceptStart, AcceptInsert, ReadError, InvalidHeader, ClearFind, RmvUserSession,
         ClearErase, clients, calls
<1> QED BY <1>1, QueuesStay, OrderStays DEF Order

(* A client's request gets the next place, and a message the next number.  *)
LEMMA PostOrder ==
  ASSUME Base, LateAuth, Order, NEW s \in Session, NEW r \in Request, Post(s, r),
         \/ r.type = "login" /\ texts' = texts
         \/ r.type = "text" /\ texts' = texts + 1 /\ r.n = texts'
  PROVE  Order'
<1>1. /\ UNCHANGED <<wk, inbox, late, failed>>
      /\ Home[s] \in Server /\ que' = [que EXCEPT ![Home[s]] = Append(@, r)]
  BY HomeAssumption DEF Post, calls
<1>2. BehindStays /\ Numbered'
  BY <1>1, QueueGrows DEF Order
<1> QED BY <1>1, <1>2, OrderStays DEF Order

(* A worker's step that sends nothing.                                     *)
LEMMA QuietOrder ==
  ASSUME Base, LateAuth, Order, NEW srv \in Server,
         \/ \E found \in BOOLEAN : LoginCheck(srv, found)
         \/ SetUserId(srv) \/ SetUserIp(srv) \/ SetUserSession(srv)
         \/ TextRoute(srv) \/ LocalLookup(srv) \/ RpcLookup(srv)
  PROVE  Order'
<1>1. UNCHANGED <<que, inbox, late, failed, texts>> /\ wk[srv].pc # "rsp" /\ Moving(srv)
  <2>1. CASE \E found \in BOOLEAN : LoginCheck(srv, found)
    BY <2>1, LoginCheckDoes DEF Busying
  <2>2. CASE SetUserId(srv)
    BY <2>2, SetUserIdDoes DEF Busying
  <2>3. CASE SetUserIp(srv)
    BY <2>3, SetUserIpDoes DEF Busying
  <2>4. CASE SetUserSession(srv)
    BY <2>4, SetUserSessionDoes DEF Busying
  <2>5. CASE TextRoute(srv)
    BY <2>5, TextRouteDoes DEF Busying
  <2>6. CASE LocalLookup(srv) \/ RpcLookup(srv)
    BY <2>6, LookupDoes DEF Busying
  <2> QED BY <2>1, <2>2, <2>3, <2>4, <2>5, <2>6
<1>2. BehindStays /\ Numbered'
  BY <1>1, QueuesStay DEF Order, Moving
<1> QED BY <1>1, <1>2, OrderStays DEF Order

(* The message that a worker sends comes after what its sender sent before,*)
(* and it has not been answered yet.                                       *)
LEMMA NotifyOrder ==
  ASSUME Base, LateAuth, Order, NEW srv \in Server, LocalNotify(srv) \/ RpcNotify(srv)
  PROVE  /\ Order'
         /\ \A r \in Session : \A a \in Items(r) : a.kind = "rsp" => a.n # Notification(srv).n
<1>1. /\ UNCHANGED <<que, texts, late, failed>> /\ Moving(srv)
      /\ wk[srv].pc # "rsp" /\ wk'[srv].pc = "rsp" /\ que[srv] # <<>> /\ Front(srv).type = "text"
      /\ wk[srv].dest \in Session /\ Notification(srv) \in Item
      /\ inbox' = Sent(wk[srv].dest, Notification(srv))
  BY NotifyDoes DEF Busying
<1>2. PICK m \in Item : m = Notification(srv)
  BY <1>1
<1>3. /\ m.kind = "notify" /\ m.n = Front(srv).n /\ m.session = Front(srv).session
  BY <1>2 DEF Notification
<1>4. Numbered /\ Delivered /\ Ordered /\ Types
  BY DEF Order, Base
<1>5. BehindStays /\ Numbered'
  BY <1>1, <1>4, QueuesStay DEF Moving
<1>6. /\ m.n \in 1..MaxTexts /\ m.n <= texts
      /\ m.session \in Session /\ Home[m.session] = srv
      /\ \A i \in 1..Len(que[srv]) : TextAt(srv, i) => m.n <= que[srv][i].n
      /\ \A oth \in Server : \A i \in 1..Len(que[oth]) :
           TextAt(oth, i) /\ que[oth][i].n = m.n => oth = srv /\ i = 1
      /\ \A x \in Session, n \in 1..MaxTexts : Behind(x, n) =>
           n # m.n /\ (Home[x] = srv => n < m.n)
      /\ \A n \in 1..MaxTexts : Answered(n) => n # m.n
  BY <1>1, <1>3, <1>4, WorkedNumber
<1>7. Behind(m.session, m.n)'
  BY <1>1, <1>6 DEF Behind, TextAt
<1>8. \A c \in late' : c.note.n # m.n
  <2> SUFFICES ASSUME NEW c \in late PROVE c.note.n # m.n
    BY <1>1
  <2>1. c.note.session \in Session /\ c.note.n \in 1..MaxTexts
    BY <1>4, LateKinds, ItemKinds DEF LateAuth
  <2> QED BY <1>4, <1>6, <2>1 DEF Delivered
<1>9. \A s \in Session : \A k \in Items(s) :
        /\ k.kind = "notify" /\ k.session = m.session => k.n < m.n
        /\ k.kind = "rsp" => k.n # m.n
  <2> SUFFICES ASSUME NEW s \in Session, NEW k \in Items(s), k.kind \in {"notify", "rsp"}
               PROVE  /\ k.kind = "notify" /\ k.session = m.session => k.n < m.n
                      /\ k.kind = "rsp" => k.n # m.n
    OBVIOUS
  <2>1. k.session \in Session /\ k.n \in 1..MaxTexts
    BY <1>4, ItemsAreItems, ItemKinds
  <2> QED BY <1>4, <1>6, <2>1 DEF Delivered
<1>10. Delivered' /\ Ordered'
  BY <1>1, <1>2, <1>3, <1>4, <1>5, <1>7, <1>8, <1>9, MessageSent
<1> QED BY <1>2, <1>5, <1>9, <1>10 DEF Order

(* A call fails: its number is behind the worker, and its handler the only *)
(* one that may still deliver it.                                          *)
LEMMA FailOrder ==
  ASSUME Base, LateAuth, Order, NEW srv \in Server, RpcFail(srv)
  PROVE  Order'
<1>1. /\ UNCHANGED <<que, texts, inbox>> /\ Moving(srv)
      /\ wk[srv].pc # "rsp" /\ wk'[srv].pc = "rsp" /\ que[srv] # <<>> /\ Front(srv).type = "text"
      /\ late' = late \cup {[peer |-> wk[srv].peer, dest |-> wk[srv].dest, note |-> Notification(srv)]}
      /\ failed' = failed \cup {Front(srv).n}
  BY RpcFailDoes DEF Busying
<1>2. PICK x : x = [peer |-> wk[srv].peer, dest |-> wk[srv].dest, note |-> Notification(srv)]
  OBVIOUS
<1>3. x.note.n = Front(srv).n /\ x.note.session = Front(srv).session
  BY <1>2 DEF Notification
<1>4. Numbered /\ Delivered /\ Ordered /\ Types
  BY DEF Order, Base
<1>5. BehindStays /\ Numbered'
  BY <1>1, <1>4, QueuesStay DEF Moving
<1>6. PICK n0 \in 1..MaxTexts : n0 = Front(srv).n
  BY <1>1, <1>4, WorkedNumber
<1>7. /\ n0 <= texts /\ x.note.session \in Session /\ Home[x.note.session] = srv
      /\ \A i \in 1..Len(que[srv]) : TextAt(srv, i) => n0 <= que[srv][i].n
      /\ \A oth \in Server : \A i \in 1..Len(que[oth]) :
           TextAt(oth, i) /\ que[oth][i].n = n0 => oth = srv /\ i = 1
      /\ \A y \in Session, n \in 1..MaxTexts : Behind(y, n) => n # n0
  BY <1>1, <1>3, <1>4, <1>6, WorkedNumber
<1>8. Behind(x.note.session, n0)'
  BY <1>1, <1>7 DEF Behind, TextAt
<1>9. \A c \in late : c.note.session \in Session /\ c.note.n \in 1..MaxTexts
  BY <1>4, LateKinds, ItemKinds DEF LateAuth
<1>10. \A s \in Session : \A m \in Items(s) :
         m.kind \in {"notify", "rsp"} => m.session \in Session /\ m.n \in 1..MaxTexts
  BY <1>4, ItemsAreItems, ItemKinds
<1>11. \A s \in Session : Items(s)' = Items(s)
  BY <1>1 DEF Items
<1>12. Ordered'
  BY <1>1, <1>4 DEF Ordered
<1>13. Delivered'
  <2>1. \A s \in Session : \A m \in Items(s)' :
          /\ m.kind = "notify" => Behind(m.session, m.n)'
          /\ m.kind = "rsp" => Answered(m.n)'
    BY <1>4, <1>5, <1>10, <1>11 DEF Delivered, BehindStays
  <2>2. \A c \in late : Behind(c.note.session, c.note.n)' /\ c.note.n # n0
    BY <1>4, <1>5, <1>7, <1>9 DEF Delivered, BehindStays
  <2>3. \A s \in Session : \A m \in Items(s) : m.kind = "notify" => m.n # n0
    BY <1>4, <1>7, <1>10 DEF Delivered
  <2>4. late' = late \cup {x} /\ failed' = failed \cup {n0} /\ x.note.n = n0
    BY <1>1, <1>2, <1>3, <1>6
  <2>5. ASSUME NEW c \in late'
        PROVE  /\ Behind(c.note.session, c.note.n)' /\ c.note.n \in failed'
               /\ \A s \in Session : \A m \in Items(s)' : m.kind = "notify" => m.n # c.note.n
               /\ \A d \in late' : d.note.n = c.note.n => d = c
    <3>1. CASE c = x
      BY <1>8, <1>11, <2>2, <2>3, <2>4, <3>1
    <3>2. CASE c \in late
      BY <1>4, <1>11, <2>2, <2>4, <3>2 DEF Delivered
    <3> QED BY <2>4, <2>5, <3>1, <3>2
  <2> QED BY <2>1, <2>5 DEF Delivered
<1> QED BY <1>5, <1>12, <1>13 DEF Order

(* An answer: its number has left the queue.                               *)
LEMMA RespondOrder ==
  ASSUME Base, LateAuth, Order, NEW srv \in Server, Respond(srv)
  PROVE  Order' /\ Answer(srv).kind # "notify"
<1>1. /\ UNCHANGED <<texts, late, failed>> /\ Moving(srv)
      /\ wk[srv].pc = "rsp" /\ que[srv] # <<>> /\ Front(srv) \in Request
      /\ Front(srv).session \in Session /\ Answer(srv) \in Item
      /\ inbox' = Sent(Front(srv).session, Answer(srv))
      /\ que' = [que EXCEPT ![srv] = Tail(@)]
  BY RespondDoes
<1>2. PICK m \in Item : m = Answer(srv)
  BY <1>1
<1>3. Numbered /\ Delivered /\ Ordered
  BY DEF Order
<1>4. /\ BehindStays /\ Numbered'
      /\ \A k \in 1..MaxTexts : Front(srv).type = "text" /\ k = Front(srv).n => Answered(k)'
  BY <1>1, <1>3, QueueShrinks DEF Moving
<1>5. m.kind # "notify" /\ (m.kind = "rsp" => Front(srv).type = "text" /\ m.n = Front(srv).n)
  <2>1. CASE Front(srv).type = "login"
    BY <1>2, <2>1 DEF Answer
  <2>2. CASE Front(srv).type # "login"
    <3>1. m = [kind |-> "rsp", session |-> Front(srv).session,
               to |-> Front(srv).to, n |-> Front(srv).n]
      BY <1>2, <2>2 DEF Answer, Notification
    <3>2. Front(srv).type = "text"
      BY <1>1, <2>2, RequestKinds
    <3> QED BY <3>1, <3>2
  <2> QED BY <2>1, <2>2
<1>6. m.kind = "rsp" => Answered(m.n)'
  <2> SUFFICES ASSUME m.kind = "rsp" PROVE Answered(m.n)'
    OBVIOUS
  <2>1. m.n \in 1..MaxTexts
    BY ItemKinds
  <2> QED BY <1>4, <1>5, <2>1
<1>7. Delivered' /\ Ordered'
  BY <1>1, <1>2, <1>3, <1>4, <1>5, <1>6, AnswerSent
<1> QED BY <1>2, <1>4, <1>5, <1>7 DEF Order

(* A handler whose caller has given up delivers its message once.          *)
LEMMA LateOrder ==
  ASSUME Base, Auth, Order, NEW c \in late, LateLookup(c) \/ LateNotify(c)
  PROVE  Order' /\ c.note.n \in failed
<1>1. /\ Types /\ LateAuth /\ Numbered /\ Delivered /\ Ordered
      /\ c.note \in Item /\ c.note.kind = "notify" /\ c.note.n \in failed
      /\ c.note.session \in Session /\ c.note.n \in 1..MaxTexts
  BY LateKinds, ItemKinds DEF Base, Auth, LateAuth, Order, Delivered
<1>2. UNCHANGED <<que, texts, wk, failed>>
  BY LateLookupDoes, LateNotifyDoes
<1>3. BehindStays /\ Numbered'
  BY <1>1, <1>2, QueuesStay
<1>4. CASE LateLookup(c)
  <2>1. UNCHANGED inbox
    BY <1>4, LateLookupDoes
  <2>2. \A d \in late' : d \in late \ {c} \/ d.note = c.note
    BY <1>4, LateLookupDoes
  <2>3. \A d, e \in late' : d.note = c.note /\ e.note = c.note => d = e
    <3>1. \A d \in late \ {c} : d.note.n # c.note.n
      BY <1>1 DEF Delivered
    <3>2. CASE late' = late \ {c}
      BY <3>1, <3>2
    <3>3. CASE late' # late \ {c}
      <4>1. PICK d \in Session :
              late' = (late \ {c}) \cup {[peer |-> c.peer, dest |-> d, note |-> c.note]}
        BY <1>4, <3>3, LateLookupDoes
      <4> QED BY <3>1, <4>1
    <3> QED BY <3>2, <3>3
  <2>4. \A s \in Session : Items(s)' = Items(s)
    BY <2>1 DEF Items
  <2>5. Ordered'
    BY <1>1, <1>2, <2>1 DEF Ordered
  <2>6. \A s \in Session : \A m \in Items(s) :
          m.kind \in {"notify", "rsp"} => m.session \in Session /\ m.n \in 1..MaxTexts
    BY <1>1, ItemsAreItems, ItemKinds
  <2>7. \A s \in Session : \A m \in Items(s)' :
          /\ m.kind = "notify" => Behind(m.session, m.n)'
          /\ m.kind = "rsp" => Answered(m.n)'
    BY <1>1, <1>3, <2>4, <2>6 DEF Delivered, BehindStays
  <2>8. \A d \in late : d.note.session \in Session /\ d.note.n \in 1..MaxTexts
    BY <1>1, LateKinds, ItemKinds DEF LateAuth
  <2>9. ASSUME NEW d \in late'
        PROVE  /\ Behind(d.note.session, d.note.n)' /\ d.note.n \in failed'
               /\ \A s \in Session : \A m \in Items(s)' : m.kind = "notify" => m.n # d.note.n
               /\ \A e \in late' : e.note.n = d.note.n => e = d
    <3>1. PICK d0 \in late : d0.note = d.note
      BY <2>2
    <3>2. Behind(d0.note.session, d0.note.n)' /\ d0.note.n \in failed'
      BY <1>1, <1>2, <1>3, <2>8 DEF Delivered, BehindStays
    <3>3. \A s \in Session : \A m \in Items(s)' : m.kind = "notify" => m.n # d.note.n
      BY <1>1, <2>4, <3>1 DEF Delivered
    <3>4. ASSUME NEW e \in late', e.note.n = d.note.n PROVE e = d
      <4>1. PICK e0 \in late : e0.note = e.note
        BY <2>2
      <4>2. e0 = d0
        BY <1>1, <3>1, <3>4, <4>1 DEF Delivered
      <4>3. e.note = d.note
        BY <3>1, <4>1, <4>2
      <4>4. CASE d.note = c.note
        BY <2>3, <4>3, <4>4
      <4>5. CASE d.note # c.note
        BY <1>1, <2>2, <3>4, <4>3, <4>5 DEF Delivered
      <4> QED BY <4>4, <4>5
    <3> QED BY <3>1, <3>2, <3>3, <3>4
  <2> QED BY <1>1, <1>3, <2>5, <2>7, <2>9 DEF Order, Delivered
<1>5. CASE LateNotify(c)
  <2>1. PICK m \in Item : m = c.note
    BY <1>1
  <2>2. /\ c.dest \in Session /\ inbox' = Sent(c.dest, m) /\ late' = late \ {c} /\ UNCHANGED failed
    BY <1>5, <2>1, LateNotifyDoes
  <2>3. Behind(m.session, m.n)'
    BY <1>1, <1>3, <2>1 DEF Delivered, BehindStays
  <2>4. \A d \in late' : d.note.n # m.n
    BY <1>1, <2>1, <2>2 DEF Delivered
  <2>5. \A k \in Items(c.dest) : k.kind = "notify" => k.n < m.n \/ (k.n > m.n /\ m.n \in failed)
    <3> SUFFICES ASSUME NEW k \in Items(c.dest), k.kind = "notify"
                 PROVE  k.n < m.n \/ k.n > m.n
      BY <1>1, <2>1
    <3>1. k.n \in 1..MaxTexts /\ m.n \in 1..MaxTexts
      BY <1>1, <2>1, <2>2, ItemsAreItems, ItemKinds
    <3>2. k.n # m.n
      BY <1>1, <2>1, <2>2 DEF Delivered
    <3> QED BY <3>1, <3>2
  <2> QED BY <1>1, <1>3, <2>1, <2>2, <2>3, <2>4, <2>5, MessageSent DEF Order
<1> QED BY <1>1, <1>4, <1>5

-----------------------------------------------------------------------------
(* Steps that log nobody in, and leave bound what somebody alone may use.  *)
LEMMA SoleStays ==
  ASSUME SoleBound,
         \A s \in Session, u \in Uid :
           (LoggedIn(s, u)' \/ Answering(s, u)') /\ io'[s] = "reading" /\ Sole(s, u)'
             => /\ LoggedIn(s, u) \/ Answering(s, u)
                /\ io[s] = "reading" /\ Sole(s, u)
                /\ bound'[Home[s]][u] = bound[Home[s]][u]
  PROVE  SoleBound'
  BY DEF SoleBound

(* A session that got no answer to a login is not logged in by the step.   *)
LEMMA NoLogin ==
  ASSUME \A s \in Session : \A m \in Items(s)' : m \in Items(s) \/ m.kind # "login"
  PROVE  \A s \in Session, u \in Uid : LoggedIn(s, u)' => LoggedIn(s, u)
  BY DEF LoggedIn

(* A worker that works on the same request, in the same place, answers the *)
(* same.                                                                   *)
LEMMA AnsweringStays ==
  ASSUME NEW s \in Session, NEW u \in Uid,
         wk'[Home[s]] = wk[Home[s]], Front(Home[s])' = Front(Home[s])
  PROVE  Answering(s, u)' = Answering(s, u)
  BY DEF Answering, Front

(* Sessions come and go: a session that is cleared removes only uids it    *)
(* showed a token for.                                                     *)
LEMMA SessionSole ==
  ASSUME Base, Auth, SoleBound, NEW t \in Session,
         \/ AcceptStart(t) \/ AcceptInsert(t) \/ ReadError(t) \/ InvalidHeader(t)
         \/ ClearFind(t) \/ RmvUserSession(t) \/ ClearErase(t)
  PROVE  SoleBound'
<1>1. UNCHANGED <<que, wk, inbox, authed>>
  BY DEF AcceptStart, AcceptInsert, ReadError, InvalidHeader, ClearFind, RmvUserSession,
         ClearErase, users
<1> SUFFICES ASSUME NEW s \in Session, NEW u \in Uid,
                    LoggedIn(s, u) \/ Answering(s, u), io'[s] = "reading", Sole(s, u)
             PROVE  io[s] = "reading" /\ bound'[Home[s]][u] = bound[Home[s]][u]
  BY <1>1, SoleStays DEF LoggedIn, Items, Answering, Front, Sole
<1>2. accept[s] # "none"
  <2>1. CASE LoggedIn(s, u)
    <3>1. inbox[s] # <<>>
      BY <2>1 DEF LoggedIn, Items
    <3> QED BY <3>1 DEF Base, Sources
  <2>2. CASE Answering(s, u)
    <3>1. que[Home[s]] # <<>> /\ Home[s] \in Server /\ Front(Home[s]).session = s
      BY <2>2, HomeAssumption DEF Answering, Base, Shape
    <3>2. Front(Home[s]) = que[Home[s]][1] /\ 1 \in 1..Len(que[Home[s]])
      BY <3>1, FrontIsFirst DEF Base
    <3> QED BY <3>1, <3>2 DEF Base, Sources
  <2> QED BY <2>1, <2>2
<1>3. io[s] = "reading" /\ ~(t = s /\ RmvUserSession(t))
  BY <1>2 DEF AcceptStart, AcceptInsert, ReadError, InvalidHeader, ClearFind, RmvUserSession,
              ClearErase, Base, Types
<1>4. bound'[Home[s]][u] = bound[Home[s]][u]
  <2>1. CASE RmvUserSession(t) /\ rmv[t] # None
    <3>1. bound' = [bound EXCEPT ![Home[t]][rmv[t]] = None] /\ rmv[t] \in authed[t] /\ t # s
      BY <1>3, <2>1 DEF RmvUserSession, Auth, OwnAuth
    <3>2. ~(Home[t] = Home[s] /\ rmv[t] = u)
      BY <3>1 DEF Sole
    <3> QED BY <3>1, <3>2, HomeAssumption DEF Base, Types
  <2>2. CASE ~(RmvUserSession(t) /\ rmv[t] # None)
    BY <2>2 DEF AcceptStart, AcceptInsert, ReadError, InvalidHeader, ClearFind, RmvUserSession,
                ClearErase, users
  <2> QED BY <2>1, <2>2
<1> QED BY <1>3, <1>4

(* A client's request changes no answer.                                   *)
LEMMA PostSole ==
  ASSUME Base, SoleBound, NEW t \in Session, NEW r \in Request, Post(t, r)
  PROVE  SoleBound'
<1>1. /\ UNCHANGED <<wk, inbox, authed, io, bound>>
      /\ Home[t] \in Server /\ que' = [que EXCEPT ![Home[t]] = Append(@, r)]
  BY HomeAssumption DEF Post, conns, users
<1>2. \A srv \in Server : que[srv] # <<>> => Front(srv)' = Front(srv)
  BY <1>1, Posted DEF Base, Front
<1>3. \A s \in Session, u \in Uid : Answering(s, u)' => Answering(s, u)
  BY <1>1, <1>2, HomeAssumption DEF Answering, Base, Shape
<1>4. \A s \in Session, u \in Uid : LoggedIn(s, u)' => LoggedIn(s, u)
  BY <1>1 DEF LoggedIn, Items
<1> QED BY <1>1, <1>3, <1>4, SoleStays DEF Sole

(* A login binds the session before it is answered.                        *)
LEMMA LoginSole ==
  ASSUME Base, Auth, SoleBound, NEW srv \in Server,
         \/ \E found \in BOOLEAN : LoginCheck(srv, found)
         \/ SetUserId(srv) \/ SetUserIp(srv) \/ SetUserSession(srv)
  PROVE  SoleBound'
<1>1. UNCHANGED <<que, inbox, io>> /\ Moving(srv) /\ \A s \in Session : authed[s] \subseteq authed'[s]
  <2>1. CASE \E found \in BOOLEAN : LoginCheck(srv, found)
    BY <2>1, LoginCheckDoes
  <2>2. CASE SetUserId(srv)
    BY <2>2, SetUserIdDoes
  <2>3. CASE SetUserIp(srv)
    BY <2>3, SetUserIpDoes
  <2>4. CASE SetUserSession(srv)
    BY <2>4, SetUserSessionDoes
  <2> QED BY <2>1, <2>2, <2>3, <2>4
<1>2. \A s \in Session, u \in Uid : LoggedIn(s, u)' = LoggedIn(s, u) /\ (Sole(s, u)' => Sole(s, u))
  BY <1>1 DEF LoggedIn, Items, Sole
<1>3. \A s \in Session, u \in Uid : Home[s] # srv => Answering(s, u)' = Answering(s, u)
  BY <1>1, HomeAssumption, AnsweringStays DEF Moving, Front
<1>4. CASE ~SetUserSession(srv)
  <2>1. UNCHANGED bound /\ ~(wk'[srv].pc = "rsp" /\ wk'[srv].ok)
    <3>1. CASE \E found \in BOOLEAN : LoginCheck(srv, found)
      BY <3>1, LoginCheckDoes
    <3>2. CASE SetUserId(srv)
      BY <3>2, SetUserIdDoes
    <3>3. CASE SetUserIp(srv)
      BY <3>3, SetUserIpDoes
    <3> QED BY <1>4, <3>1, <3>2, <3>3
  <2>2. \A s \in Session, u \in Uid : Answering(s, u)' => Answering(s, u)
    BY <1>3, <2>1 DEF Answering
  <2> QED BY <1>1, <1>2, <2>1, <2>2, SoleStays
<1>5. CASE SetUserSession(srv)
  <2>1. PICK s \in Session, u \in Uid : s = Front(srv).session /\ u = Front(srv).uid
    BY <1>5, SetUserSessionDoes, RequestKinds DEF Busying
  <2>2. /\ bound' = [bound EXCEPT ![srv][u] = s] /\ u \in authed[s] /\ UNCHANGED authed
        /\ Busying(srv, "bind", "login")
    BY <1>5, <2>1, SetUserSessionDoes DEF Busying, Auth, WorkAuth
  <2>3. Home[s] = srv
    BY <2>1, <2>2, FrontIsFirst DEF Busying, Base, Sources
  <2>4. \A oth \in Server, v \in Uid :
          bound'[oth][v] = IF oth = srv /\ v = u THEN s ELSE bound[oth][v]
    BY <2>2 DEF Base, Types
  <2> SUFFICES ASSUME NEW t \in Session, NEW v \in Uid,
                      LoggedIn(t, v)' \/ Answering(t, v)', io'[t] = "reading", Sole(t, v)'
               PROVE  bound'[Home[t]][v] = t
    BY DEF SoleBound
  <2>5. CASE Home[t] = srv /\ v = u
    <3>1. t = s
      BY <2>2, <2>3, <2>5 DEF Sole
    <3> QED BY <2>4, <2>5, <3>1
  <2>6. CASE ~(Home[t] = srv /\ v = u)
    <3>1. LoggedIn(t, v) \/ Answering(t, v)
      <4>1. CASE Home[t] # srv
        BY <1>2, <1>3, <4>1
      <4>2. CASE Home[t] = srv
        <5>1. Front(srv)' = Front(srv)
          BY <1>1 DEF Front
        <5>2. ~Answering(t, v)'
          BY <2>1, <2>6, <4>2, <5>1 DEF Answering
        <5> QED BY <1>2, <5>2
      <4> QED BY <4>1, <4>2
    <3>2. bound[Home[t]][v] = t
      BY <1>1, <1>2, <3>1 DEF SoleBound
    <3> QED BY <2>4, <2>6, <3>2, HomeAssumption
  <2> QED BY <2>5, <2>6
<1> QED BY <1>4, <1>5

(* A worker's step on a message logs nobody in; an answer tells a session  *)
(* what has been done.                                                     *)
LEMMA TextSole ==
  ASSUME Base, SoleBound, NEW srv \in Server,
         \/ TextRoute(srv) \/ LocalLookup(srv) \/ LocalNotify(srv)
         \/ RpcLookup(srv) \/ RpcNotify(srv) \/ RpcFail(srv) \/ Respond(srv)
  PROVE  SoleBound'
<1>1. UNCHANGED <<io, authed, bound>> /\ Moving(srv)
  BY TextRouteDoes, LookupDoes, NotifyDoes, RpcFailDoes, RespondDoes
<1>2. CASE ~Respond(srv)
  <2>1. UNCHANGED que /\ que[srv] # <<>> /\ Front(srv).type = "text"
    BY <1>2, TextRouteDoes, LookupDoes, NotifyDoes, RpcFailDoes DEF Busying
  <2>2. \A s \in Session, u \in Uid : Answering(s, u)' => Answering(s, u)
    <3> SUFFICES ASSUME NEW s \in Session, NEW u \in Uid, Answering(s, u)' PROVE Answering(s, u)
      OBVIOUS
    <3>1. Home[s] \in Server /\ Front(Home[s])' = Front(Home[s])
      BY <2>1, HomeAssumption DEF Front
    <3>2. Home[s] # srv
      BY <2>1, <3>1 DEF Answering
    <3> QED BY <1>1, <3>1, <3>2, AnsweringStays DEF Moving
  <2>3. \A s \in Session : \A m \in Items(s)' : m \in Items(s) \/ m.kind # "login"
    <3>1. CASE LocalNotify(srv) \/ RpcNotify(srv)
      <4>1. Notification(srv).kind = "notify"
        BY DEF Notification
      <4> QED BY <3>1, <4>1, NotifyDoes, SentDoes DEF Base
    <3>2. CASE ~(LocalNotify(srv) \/ RpcNotify(srv))
      <4>1. UNCHANGED inbox
        BY <1>2, <3>2, TextRouteDoes, LookupDoes, RpcFailDoes
      <4> QED BY <4>1 DEF Items
    <3> QED BY <3>1, <3>2
  <2> QED BY <1>1, <2>2, <2>3, NoLogin, SoleStays DEF Sole
<1>3. CASE Respond(srv)
  <2>1. /\ wk[srv].pc = "rsp" /\ que[srv] # <<>> /\ Front(srv) \in Request /\ wk'[srv] = Idle
        /\ Front(srv).session \in Session /\ Answer(srv) \in Item
        /\ inbox' = Sent(Front(srv).session, Answer(srv))
        /\ \A oth \in Server \ {srv} : que'[oth] = que[oth]
    BY <1>3, RespondDoes, Popped DEF Base
  <2>2. Home[Front(srv).session] = srv
    BY <2>1, FrontIsFirst DEF Base, Sources
  <2>3. ASSUME NEW s \in Session, NEW u \in Uid, Answering(s, u)' PROVE Answering(s, u)
    <3>1. Home[s] # srv
      BY <2>1, <2>3 DEF Answering, Idle
    <3>2. Home[s] \in Server /\ Front(Home[s])' = Front(Home[s])
      BY <2>1, <3>1, HomeAssumption DEF Front
    <3> QED BY <1>1, <2>3, <3>1, <3>2, AnsweringStays DEF Moving
  <2>4. ASSUME NEW s \in Session, NEW u \in Uid, LoggedIn(s, u)'
        PROVE  LoggedIn(s, u) \/ Answering(s, u)
    <3>1. PICK m \in Items(s)' : m.kind = "login" /\ m.ok /\ m.uid = u
      BY <2>4 DEF LoggedIn
    <3>2. CASE m \in Items(s)
      BY <3>1, <3>2 DEF LoggedIn
    <3>3. CASE m \notin Items(s)
      <4>1. s = Front(srv).session /\ m = Answer(srv)
        BY <2>1, <3>3, SentDoes DEF Base
      <4>2. Front(srv).type = "login"
        BY <3>1, <4>1 DEF Answer, Notification
      <4>3. wk[srv].ok /\ Front(srv).uid = u
        BY <3>1, <4>1, <4>2 DEF Answer
      <4> QED BY <2>1, <2>2, <4>1, <4>2, <4>3 DEF Answering
    <3> QED BY <3>2, <3>3
  <2> QED BY <1>1, <2>3, <2>4, SoleStays DEF Sole
<1> QED BY <1>2, <1>3

(* Nor does a late handler.                                                *)
LEMMA LateSole ==
  ASSUME Base, Auth, SoleBound, NEW c \in late, LateLookup(c) \/ LateNotify(c)
  PROVE  SoleBound'
<1>1. UNCHANGED <<io, authed, bound, wk, que>>
  BY LateLookupDoes, LateNotifyDoes
<1>2. \A s \in Session, u \in Uid : Answering(s, u)' = Answering(s, u)
  BY <1>1 DEF Answering, Front
<1>3. \A s \in Session : \A m \in Items(s)' : m \in Items(s) \/ m.kind # "login"
  <2>1. CASE LateLookup(c)
    BY <2>1, LateLookupDoes DEF Items
  <2>2. CASE LateNotify(c)
    <3>1. c.note.kind = "notify"
      BY DEF Auth, LateAuth
    <3> QED BY <2>2, <3>1, LateNotifyDoes, SentDoes DEF Base
  <2> QED BY <2>1, <2>2
<1> QED BY <1>1, <1>2, <1>3, NoLogin, SoleStays DEF Sole

-----------------------------------------------------------------------------
(* What the history of the steady receiver says after a step.              *)
LEMMA TrackGives ==
  ASSUME Track, Base', NEW srv \in Server
  PROVE  /\ steady'[srv] \in Session \cup {None}
         /\ steady'[srv] # None =>
              /\ wk'[srv].pc # "idle" /\ Front(srv)'.type = "text"
              /\ steady'[srv] \in Session /\ Reach(Front(srv).to)' = steady'[srv]
              /\ wk[srv].pc = "idle" \/ steady'[srv] = steady[srv]
<1> DEFINE now == ReachIn(Head(que'[srv]).to, uip', bound', open')
<1>1. steady'[srv] = IF wk'[srv].pc = "idle" \/ Head(que'[srv]).type # "text" THEN None
                     ELSE IF wk[srv].pc = "idle" \/ steady[srv] = now THEN now ELSE None
  BY DEF Track
<1>2. ASSUME wk'[srv].pc # "idle", Head(que'[srv]).type = "text"
      PROVE  now \in Session \cup {None}
  <2>1. que'[srv] # <<>> /\ que' \in [Server -> Seq(Request)]
    BY <1>2 DEF Base, Shape, Types
  <2>2. Head(que'[srv]) \in Request
    BY <2>1
  <2>3. Head(que'[srv]).to \in Uid
    BY <1>2, <2>2, RequestKinds
  <2>4. /\ uip' \in [Uid -> Server \cup {None}]
        /\ bound' \in [Server -> [Uid -> Session \cup {None}]]
    BY DEF Base, Types
  <2> QED BY <2>3, <2>4 DEF ReachIn
<1>3. now = Reach(Front(srv).to)' /\ Head(que'[srv]) = Front(srv)'
  BY DEF Reach, Front
<1> HIDE DEF now
<1> QED BY <1>1, <1>2, <1>3

(* A server whose worker stays where it is keeps what it knows.            *)
LEMMA SteadyElsewhere ==
  ASSUME Base, Base', Steady, Track, NEW srv \in Server, wk'[srv] = wk[srv],
         que[srv] # <<>> => Front(srv)' = Front(srv),
         \A s \in Session : Items(s) \subseteq Items(s)',
         steady'[srv] # None
  PROVE  Placed(srv)'
<1>1. wk[srv].pc # "idle" /\ steady'[srv] = steady[srv] /\ steady[srv] \in Session
  BY TrackGives
<1>2. que[srv] # <<>>
  BY <1>1 DEF Base, Shape
<1>3. Front(srv)' = Front(srv) /\ Notification(srv)' = Notification(srv)
  BY <1>2 DEF Notification
<1> QED BY <1>1, <1>3 DEF Steady, Placed

(* The types, and what is left to show after a step.                       *)
LEMMA SteadyAfter ==
  ASSUME Track, Base', \A srv \in Server : steady'[srv] # None => Placed(srv)'
  PROVE  TypeOK' /\ Steady'
<1>1. \A srv \in Server : steady'[srv] \in Session \cup {None}
  BY TrackGives
<1>2. steady' \in [Server -> Session \cup {None}]
  BY <1>1 DEF Track
<1>3. TypeOK'
  BY <1>2 DEF Base, Types, TypeOK, Wk
<1>4. Steady'
  BY TrackGives DEF Steady
<1> QED BY <1>3, <1>4

(* Nothing is ever taken out of an inbox.                                  *)
LEMMA InboxGrows ==
  ASSUME Base, inbox' = inbox \/ \E t \in Session, m \in Item : inbox' = Sent(t, m)
  PROVE  \A s \in Session : Items(s) \subseteq Items(s)'
<1>1. CASE inbox' = inbox
  BY <1>1 DEF Items
<1>2. CASE \E t \in Session, m \in Item : inbox' = Sent(t, m)
  BY <1>2, SentDoes DEF Base
<1> QED BY <1>1, <1>2

(* Where the steady receiver of a message is found.                        *)
LEMMA ReachedWhere ==
  ASSUME Base, Auth, NEW u \in Uid, Reach(u) # None
  PROVE  /\ uip[u] \in Server /\ bound[uip[u]][u] = Reach(u) /\ open[Reach(u)]
         /\ Home[Reach(u)] = uip[u]
<1>1. uip[u] # None /\ bound[uip[u]][u] = Reach(u) /\ open[Reach(u)]
  BY DEF Reach, ReachIn
<1>2. uip[u] \in Server
  BY <1>1 DEF Base, Types
<1> QED BY <1>1, <1>2 DEF Auth, BoundAuth

(* Steps that are not a worker's.                                          *)
LEMMA OtherSteady ==
  ASSUME Base, Base', Auth, Steady, Track,
         \/ \E s \in Session :
              \/ AcceptStart(s) \/ AcceptInsert(s) \/ ReadError(s) \/ InvalidHeader(s)
              \/ ClearFind(s) \/ RmvUserSession(s) \/ ClearErase(s)
         \/ \E s \in Session, r \in Request : Post(s, r)
         \/ \E c \in late : LateLookup(c) \/ LateNotify(c)
  PROVE  TypeOK' /\ Steady'
<1>1. UNCHANGED wk /\ \A srv \in Server : que[srv] # <<>> => Front(srv)' = Front(srv)
  <2>1. CASE \E s \in Session :
               \/ AcceptStart(s) \/ AcceptInsert(s) \/ ReadError(s) \/ InvalidHeader(s)
               \/ ClearFind(s) \/ RmvUserSession(s) \/ ClearErase(s)
    BY <2>1 DEF AcceptStart, AcceptInsert, ReadError, InvalidHeader, ClearFind,
                RmvUserSession, ClearErase, Front
  <2>2. CASE \E s \in Session, r \in Request : Post(s, r)
    <3>1. PICK s \in Session, r \in Request : Post(s, r)
      BY <2>2
    <3>2. UNCHANGED wk /\ Home[s] \in Server /\ que' = [que EXCEPT ![Home[s]] = Append(@, r)]
      BY <3>1, HomeAssumption DEF Post
    <3> QED BY <3>2, Posted DEF Base, Front
  <2>3. CASE \E c \in late : LateLookup(c) \/ LateNotify(c)
    BY <2>3, LateLookupDoes, LateNotifyDoes DEF Front
  <2> QED BY <2>1, <2>2, <2>3
<1>2. inbox' = inbox \/ \E t \in Session, m \in Item : inbox' = Sent(t, m)
  <2>1. CASE \E s \in Session :
               \/ AcceptStart(s) \/ AcceptInsert(s) \/ ReadError(s) \/ InvalidHeader(s)
               \/ ClearFind(s) \/ RmvUserSession(s) \/ ClearErase(s)
    BY <2>1 DEF AcceptStart, AcceptInsert, ReadError, InvalidHeader, ClearFind,
                RmvUserSession, ClearErase
  <2>2. CASE \E s \in Session, r \in Request : Post(s, r)
    BY <2>2 DEF Post
  <2>3. CASE \E c \in late : LateLookup(c) \/ LateNotify(c)
    BY <2>3, LateLookupDoes, LateNotifyDoes
  <2> QED BY <2>1, <2>2, <2>3
<1> QED BY <1>1, <1>2, InboxGrows, SteadyElsewhere, SteadyAfter

(* A worker's step on a login leaves no message to track.                  *)
LEMMA LoginSteady ==
  ASSUME Base, Base', Steady, Track, NEW srv \in Server,
         \/ \E found \in BOOLEAN : LoginCheck(srv, found)
         \/ SetUserId(srv) \/ SetUserIp(srv) \/ SetUserSession(srv)
  PROVE  TypeOK' /\ Steady'
<1>1. UNCHANGED <<que, inbox>> /\ Moving(srv) /\ Front(srv).type = "login"
  <2>1. CASE \E found \in BOOLEAN : LoginCheck(srv, found)
    BY <2>1, LoginCheckDoes DEF Busying
  <2>2. CASE SetUserId(srv)
    BY <2>2, SetUserIdDoes DEF Busying
  <2>3. CASE SetUserIp(srv)
    BY <2>3, SetUserIpDoes DEF Busying
  <2>4. CASE SetUserSession(srv)
    BY <2>4, SetUserSessionDoes DEF Busying
  <2> QED BY <2>1, <2>2, <2>3, <2>4
<1>2. \A oth \in Server : Front(oth)' = Front(oth)
  BY <1>1 DEF Front
<1>3. steady'[srv] = None
  BY <1>1, <1>2, TrackGives
<1>4. \A oth \in Server \ {srv} : steady'[oth] # None => Placed(oth)'
  BY <1>1, <1>2, InboxGrows, SteadyElsewhere DEF Moving
<1> QED BY <1>3, <1>4, SteadyAfter

(* A worker's step on a message: the route leads to the steady receiver,   *)
(* the lookup finds it and the notification reaches it.                    *)
LEMMA TextSteady ==
  ASSUME Base, Base', Auth, Steady, Track, NEW srv \in Server,
         \/ TextRoute(srv) \/ LocalLookup(srv) \/ LocalNotify(srv)
         \/ RpcLookup(srv) \/ RpcNotify(srv) \/ RpcFail(srv) \/ Respond(srv)
  PROVE  TypeOK' /\ Steady'
<1>1. UNCHANGED <<uip, bound, open>> /\ Moving(srv)
  BY TextRouteDoes, LookupDoes, NotifyDoes, RpcFailDoes, RespondDoes
<1>2. \A oth \in Server \ {srv} : Front(oth)' = Front(oth)
  BY TextRouteDoes, LookupDoes, NotifyDoes, RpcFailDoes, RespondDoes, Popped DEF Front, Base
<1>3. inbox' = inbox \/ \E t \in Session, m \in Item : inbox' = Sent(t, m)
  BY TextRouteDoes, LookupDoes, NotifyDoes, RpcFailDoes, RespondDoes
<1>4. \A oth \in Server \ {srv} : steady'[oth] # None => Placed(oth)'
  BY <1>1, <1>2, <1>3, InboxGrows, SteadyElsewhere DEF Moving
<1> SUFFICES ASSUME steady'[srv] # None PROVE Placed(srv)'
  BY <1>4, SteadyAfter
<1>5. ~Respond(srv)
  BY RespondDoes, TrackGives DEF Idle
<1>6. UNCHANGED que /\ que[srv] # <<>> /\ Front(srv) \in Request /\ Front(srv).type = "text"
  BY <1>5, TextRouteDoes, LookupDoes, NotifyDoes, RpcFailDoes DEF Busying
<1>7. PICK s \in Session : s = steady'[srv]
  BY TrackGives
<1>8. PICK u \in Uid : u = Front(srv).to
  BY <1>6, RequestKinds
<1>9. Front(srv)' = Front(srv) /\ Notification(srv)' = Notification(srv)
  BY <1>6 DEF Front, Notification
<1>10. Reach(u) = s
  BY <1>1, <1>7, <1>8, <1>9, TrackGives DEF Reach
<1>11. uip[u] \in Server /\ bound[uip[u]][u] = s /\ open[s] /\ Home[s] = uip[u]
  BY <1>10, ReachedWhere, NoneAssumption
<1>12. wk[srv].pc # "idle" => steady[srv] = s /\ Placed(srv)
  BY <1>7, TrackGives, NoneAssumption DEF Steady
<1>13. CASE TextRoute(srv)
  BY <1>7, <1>8, <1>11, <1>13, TextRouteDoes, NoneAssumption DEF Placed
<1>14. CASE LocalLookup(srv) \/ RpcLookup(srv)
  <2>1. wk'[srv].dest = s
    BY <1>8, <1>11, <1>12, <1>14, LookupDoes DEF Busying, Placed
  <2>2. wk'[srv].pc \in {"notify", "rpcSend"}
    BY <1>14, <2>1, LookupDoes, NoneAssumption
  <2> QED BY <1>7, <2>1, <2>2 DEF Placed
<1>15. CASE LocalNotify(srv) \/ RpcNotify(srv)
  <2>1. wk[srv].dest = s /\ wk'[srv].pc = "rsp" /\ Notification(srv) \in Item
        /\ inbox' = Sent(wk[srv].dest, Notification(srv))
    BY <1>12, <1>15, NotifyDoes DEF Busying, Placed
  <2>2. Notification(srv) \in Items(s)'
    BY <1>11, <2>1, SentDoes DEF Base
  <2> QED BY <1>7, <1>9, <2>1, <2>2 DEF Placed
<1>16. CASE RpcFail(srv)
  BY <1>16, RpcFailDoes DEF Placed
<1> QED BY <1>5, <1>13, <1>14, <1>15, <1>16

-----------------------------------------------------------------------------
(* Nothing has happened yet.                                               *)
LEMMA InitIInv == Init => IInv
<1> SUFFICES ASSUME Init PROVE IInv
  OBVIOUS
<1> USE DEF Init
<1>1. <<>> \in Seq(Request) /\ <<>> \in Seq(Item) /\ Len(<<>>) = 0
  OBVIOUS
<1>2. Idle \in Wk
  BY DEF Idle, Wk, Place
<1>3. Types
  BY <1>1, <1>2, BoundsAssumption DEF Types
<1>4. TypeOK
  BY <1>3 DEF Types, TypeOK, Wk
<1>5. \A s \in Session : Items(s) = {} /\ Len(inbox[s]) = 0
  BY <1>1 DEF Items
<1>6. \A srv \in Server : Len(que[srv]) = 0 /\ wk[srv] = Idle /\ Idle.pc = "idle"
  BY <1>1 DEF Idle
<1>7. Shape
  BY <1>6 DEF Shape
<1>8. Sources
  BY <1>6 DEF Sources
<1>9. Auth
  BY <1>6, NoneAssumption DEF Auth, BoundAuth, WorkAuth, LateAuth, OwnAuth
<1>10. NotifyOnlyAuthed
  BY <1>5 DEF NotifyOnlyAuthed
<1>11. Order
  <2>1. Numbered
    BY <1>6 DEF Numbered, TextAt
  <2>2. Delivered
    BY <1>5 DEF Delivered
  <2>3. Ordered
    BY <1>5 DEF Ordered
  <2> QED BY <2>1, <2>2, <2>3 DEF Order
<1>12. SoleBound
  <2>1. \A s \in Session, u \in Uid : ~LoggedIn(s, u) /\ io[s] # "reading"
    BY <1>5 DEF LoggedIn
  <2> QED BY <2>1 DEF SoleBound
<1>13. Steady
  BY DEF Steady
<1> QED BY <1>3, <1>4, <1>7, <1>8, <1>9, <1>10, <1>11, <1>12, <1>13 DEF IInv, Base

(* A client's request is one that a queue may hold, and a message has the  *)
(* next number.                                                            *)
LEMMA PostKinds ==
  ASSUME Types, NEW s \in Session, NEW u \in Uid,
         PostText(s, u) \/ \E tokenOk \in BOOLEAN : PostLogin(s, u, tokenOk)
  PROVE  \E r \in Request :
           /\ r.session = s /\ Post(s, r)
           /\ texts' \in 0..MaxTexts /\ logins' \in 0..MaxLogins
           /\ \/ r.type = "login" /\ texts' = texts
              \/ r.type = "text" /\ texts' = texts + 1 /\ r.n = texts'
<1>1. texts \in 0..MaxTexts /\ logins \in 0..MaxLogins
  BY DEF Types
<1>2. CASE PostText(s, u)
  <2>1. PICK k \in 1..MaxTexts : k = texts' /\ k = texts + 1
    BY <1>1, <1>2, BoundsAssumption DEF PostText
  <2> DEFINE r == [type |-> "text", session |-> s, to |-> u, n |-> k]
  <2>2. r \in Request /\ r.session = s /\ r.type = "text" /\ r.n = k
    BY DEF Request, Text
  <2>3. Post(s, r) /\ logins' = logins
    BY <1>2, <2>1 DEF PostText
  <2> HIDE DEF r
  <2> QED BY <1>1, <2>1, <2>2, <2>3
<1>3. ASSUME NEW tokenOk \in BOOLEAN, PostLogin(s, u, tokenOk)
      PROVE  \E r \in Request :
               /\ r.session = s /\ Post(s, r)
               /\ texts' \in 0..MaxTexts /\ logins' \in 0..MaxLogins
               /\ r.type = "login" /\ texts' = texts
  <2> DEFINE r == [type |-> "login", session |-> s, uid |-> u, tokenOk |-> tokenOk]
  <2>1. r \in Request /\ r.session = s /\ r.type = "login"
    BY DEF Request, Login
  <2>2. Post(s, r) /\ texts' = texts /\ logins' = logins + 1 /\ logins < MaxLogins
    BY <1>3 DEF PostLogin
  <2>3. logins' \in 0..MaxLogins
    BY <1>1, <2>2, BoundsAssumption
  <2> HIDE DEF r
  <2> QED BY <1>1, <2>1, <2>2, <2>3
<1> QED BY <1>2, <1>3

(* A step that changes nothing.                                            *)
LEMMA UnchangedIInv == ASSUME IInv, UNCHANGED vars PROVE IInv'
<1> USE DEF IInv, vars, conns, users, clients, calls
<1>1. TypeOK' /\ Types' /\ Shape' /\ Sources'
  BY DEF TypeOK, Base, Types, Shape, Sources, Front
<1>2. Auth'
  BY DEF Auth, BoundAuth, WorkAuth, LateAuth, OwnAuth, Front
<1>3. NotifyOnlyAuthed' /\ Order'
  BY DEF NotifyOnlyAuthed, Items, Order, Numbered, Delivered, Ordered, Behind, Answered, TextAt
<1>4. SoleBound'
  BY DEF SoleBound, LoggedIn, Items, Answering, Front, Sole
<1>5. Steady'
  <2>1. \A srv \in Server : Front(srv)' = Front(srv) /\ Notification(srv)' = Notification(srv)
    BY DEF Front, Notification
  <2>2. \A s \in Session : Items(s)' = Items(s)
    BY DEF Items
  <2>3. \A u \in Uid : Reach(u)' = Reach(u)
    BY DEF Reach, ReachIn
  <2> SUFFICES ASSUME NEW srv \in Server, steady[srv] # None
               PROVE  /\ wk[srv].pc # "idle" /\ Front(srv).type = "text"
                      /\ steady[srv] \in Session /\ (Reach(Front(srv).to) = steady[srv])'
                      /\ Placed(srv)'
    BY <2>1 DEF Steady
  <2>4. PICK s \in Session : s = steady[srv]
    BY DEF Steady
  <2>5. (Reach(Front(srv).to) = steady[srv])'
    BY DEF Steady, Reach, ReachIn, Front
  <2>6. Placed(srv)'
    BY <2>1, <2>2, <2>4 DEF Steady, Placed, Items
  <2> QED BY <2>4, <2>5, <2>6 DEF Steady
<1> QED BY <1>1, <1>2, <1>3, <1>4, <1>5 DEF Base

(* The inductive invariant, group of steps by group of steps.              *)
LEMMA NextIInv == IInv /\ [Next]_vars => IInv'
<1> SUFFICES ASSUME IInv, [Next]_vars PROVE IInv'
  OBVIOUS
<1>0. Base /\ Types /\ Auth /\ LateAuth /\ NotifyOnlyAuthed /\ Order /\ SoleBound /\ Steady
  BY DEF IInv, Base, Auth
<1>1. ASSUME Track, NEW s \in Session,
             \/ AcceptStart(s) \/ AcceptInsert(s) \/ ReadError(s) \/ InvalidHeader(s)
             \/ ClearFind(s) \/ RmvUserSession(s) \/ ClearErase(s)
      PROVE  IInv'
  <2>1. Base'
    BY <1>0, <1>1, SessionBase
  <2>2. Auth' /\ NotifyOnlyAuthed'
    BY <1>0, <1>1, SessionAuth
  <2>3. Order'
    BY <1>0, <1>1, SessionOrder
  <2>4. SoleBound'
    BY <1>0, <1>1, SessionSole
  <2>5. TypeOK' /\ Steady'
    BY <1>0, <1>1, <2>1, OtherSteady
  <2> QED BY <2>1, <2>2, <2>3, <2>4, <2>5 DEF IInv
<1>2. ASSUME Track, NEW s \in Session, NEW u \in Uid,
             PostText(s, u) \/ \E tokenOk \in BOOLEAN : PostLogin(s, u, tokenOk)
      PROVE  IInv'
  <2>0. PICK r \in Request :
          /\ r.session = s /\ Post(s, r)
          /\ texts' \in 0..MaxTexts /\ logins' \in 0..MaxLogins
          /\ \/ r.type = "login" /\ texts' = texts
             \/ r.type = "text" /\ texts' = texts + 1 /\ r.n = texts'
    BY <1>0, <1>2, PostKinds
  <2>1. Base'
    BY <1>0, <2>0, PostBase
  <2>2. Auth' /\ NotifyOnlyAuthed'
    BY <1>0, <2>0, PostAuth
  <2>3. Order'
    BY <1>0, <2>0, PostOrder
  <2>4. SoleBound'
    BY <1>0, <2>0, PostSole
  <2>5. TypeOK' /\ Steady'
    BY <1>0, <1>2, <2>0, <2>1, OtherSteady
  <2> QED BY <2>1, <2>2, <2>3, <2>4, <2>5 DEF IInv
<1>3. ASSUME Track, NEW srv \in Server,
             \/ \E found \in BOOLEAN : LoginCheck(srv, found)
             \/ SetUserId(srv) \/ SetUserIp(srv) \/ SetUserSession(srv)
      PROVE  IInv'
  <2>1. Base'
    BY <1>0, <1>3, LoginBase
  <2>2. Auth' /\ NotifyOnlyAuthed'
    BY <1>0, <1>3, LoginAuth
  <2>3. Order'
    BY <1>0, <1>3, QuietOrder
  <2>4. SoleBound'
    BY <1>0, <1>3, LoginSole
  <2>5. TypeOK' /\ Steady'
    BY <1>0, <1>3, <2>1, LoginSteady
  <2> QED BY <2>1, <2>2, <2>3, <2>4, <2>5 DEF IInv
<1>4. ASSUME Track, NEW srv \in Server,
             \/ TextRoute(srv) \/ LocalLookup(srv) \/ LocalNotify(srv)
             \/ RpcLookup(srv) \/ RpcNotify(srv) \/ RpcFail(srv) \/ Respond(srv)
      PROVE  IInv'
  <2>1. Base'
    BY <1>0, <1>4, TextBase
  <2>2. Auth' /\ NotifyOnlyAuthed'
    BY <1>0, <1>4, TextAuth
  <2>3. Order'
    BY <1>0, <1>4, QuietOrder, NotifyOrder, FailOrder, RespondOrder
  <2>4. SoleBound'
    BY <1>0, <1>4, TextSole
  <2>5. TypeOK' /\ Steady'
    BY <1>0, <1>4, <2>1, TextSteady
  <2> QED BY <2>1, <2>2, <2>3, <2>4, <2>5 DEF IInv
<1>5. ASSUME Track, NEW c \in late, LateLookup(c) \/ LateNotify(c)
      PROVE  IInv'
  <2>1. Base'
    BY <1>0, <1>5, LateBase
  <2>2. Auth' /\ NotifyOnlyAuthed'
    BY <1>0, <1>5, LateAuthStep
  <2>3. Order'
    BY <1>0, <1>5, LateOrder
  <2>4. SoleBound'
    BY <1>0, <1>5, LateSole
  <2>5. TypeOK' /\ Steady'
    BY <1>0, <1>5, <2>1, OtherSteady
  <2> QED BY <2>1, <2>2, <2>3, <2>4, <2>5 DEF IInv
<1>6. CASE UNCHANGED vars
  BY <1>6, UnchangedIInv
<1> QED BY <1>1, <1>2, <1>3, <1>4, <1>5, <1>6 DEF Next

(* The inductive invariant holds in every state of the servers, whatever   *)
(* their scheduling.                                                       *)
THEOREM Inductive == SafeSpec => []IInv
<1> QED BY InitIInv, NextIInv, PTL DEF SafeSpec

(* Any number of servers, sessions and messages: a session gets messages   *)
(* only for uids for which it showed a valid token, and what one session   *)
(* sends arrives at most once on another and in the order in which it was  *)
(* sent; only a message whose call failed may come after a later one.      *)
THEOREM TextsInOrder == SafeSpec => []PairOrder
<1>1. IInv => PairOrder
  BY DEF IInv, Order, Ordered, PairOrder
<1> QED BY <1>1, Inductive, PTL

(* A receiver that is reachable from the routing decision to the answer of *)
(* a call that did not fail has the message when the answer is sent.       *)
THEOREM SteadyDelivery == SafeSpec => []SteadyIsDelivered
<1>1. IInv => SteadyIsDelivered
  BY DEF IInv, Steady, Placed, SteadyIsDelivered
<1> QED BY <1>1, Inductive, PTL

(* A session that alone logged in as a uid on its server is found for it   *)
(* until its connection breaks: the end of other sessions takes only their *)
(* own uid out of UserMgr, which no valid login ever gave to this one.     *)
THEOREM SoleLoginBound == SafeSpec => []SoleLoginStaysBound
<1>1. IInv => SoleLoginStaysBound
  BY DEF IInv, SoleBound, Sole, SoleLoginStaysBound
<1> QED BY <1>1, Inductive, PTL

(* What a step puts into the inboxes: a message that nobody has been       *)
(* answered for, one whose call failed, or no message.                     *)
LEMMA WhatIsSent ==
  ASSUME IInv, Next
  PROVE  \/ UNCHANGED inbox
         \/ \E t \in Session, m \in Item :
              /\ inbox' = Sent(t, m)
              /\ \/ m.kind # "notify"
                 \/ m.n \in failed
                 \/ \A r \in Session : \A a \in Items(r) : a.kind = "rsp" => a.n # m.n
<1>0. Base /\ Types /\ Auth /\ LateAuth /\ Order
  BY DEF IInv, Base, Auth
<1>1. ASSUME NEW srv \in Server, LocalNotify(srv) \/ RpcNotify(srv)
      PROVE  \E t \in Session, m \in Item :
               /\ inbox' = Sent(t, m)
               /\ \A r \in Session : \A a \in Items(r) : a.kind = "rsp" => a.n # m.n
  BY <1>0, <1>1, NotifyDoes, NotifyOrder
<1>2. ASSUME NEW srv \in Server, Respond(srv)
      PROVE  \E t \in Session, m \in Item : inbox' = Sent(t, m) /\ m.kind # "notify"
  BY <1>0, <1>2, RespondDoes, RespondOrder
<1>3. ASSUME NEW c \in late, LateNotify(c)
      PROVE  \E t \in Session, m \in Item : inbox' = Sent(t, m) /\ m.n \in failed
  BY <1>0, <1>3, LateNotifyDoes, LateOrder
<1> QED
  BY <1>1, <1>2, <1>3
  DEF Next, AcceptStart, AcceptInsert, ReadError, InvalidHeader, ClearFind, RmvUserSession,
      ClearErase, PostLogin, PostText, Post, LoginCheck, SetUserId, SetUserIp, SetUserSession,
      TextRoute, LocalLookup, RpcLookup, RpcFail, LateLookup

(* Once a sender has been answered nobody gets that message any more,      *)
(* unless its call failed: the handler sends the notification before its   *)
(* answer, the message then leaves the queue, and no number is used twice. *)
THEOREM AnswersAreFinal == SafeSpec => AnsweredIsFinal
<1> DEFINE Final ==
      \A s, r \in Session : \A m \in Items(s)' \ Items(s) :
        (m.kind = "notify" /\ m.n \notin failed)
          => ~\E a \in Items(r) : a.kind = "rsp" /\ a.n = m.n
<1>1. ASSUME IInv, [Next]_vars PROVE [Final]_vars
  <2>0. Types
    BY <1>1 DEF IInv, Base
  <2>1. CASE UNCHANGED inbox
    BY <2>1 DEF Items
  <2>2. ASSUME NEW t \in Session, NEW x \in Item, inbox' = Sent(t, x),
               \/ x.kind # "notify"
               \/ x.n \in failed
               \/ \A r \in Session : \A a \in Items(r) : a.kind = "rsp" => a.n # x.n
        PROVE  Final
    <3>1. \A s \in Session : \A m \in Items(s)' \ Items(s) : m = x
      BY <2>0, <2>2, SentDoes
    <3> QED BY <2>2, <3>1
  <2>3. CASE UNCHANGED vars
    BY <2>3
  <2> HIDE DEF Final
  <2> QED BY <1>1, <2>1, <2>2, <2>3, WhatIsSent
<1> QED BY <1>1, Inductive, PTL DEF SafeSpec, AnsweredIsFinal
=============================================================================
