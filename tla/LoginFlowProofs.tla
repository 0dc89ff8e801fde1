-------------------------- MODULE LoginFlowProofs ---------------------------
(***************************************************************************)
(* Theorems about LoginFlow, for any finite number of logins and any number*)
(* of servers: the choice of the least loaded server is right although the *)
(* counts change while they are read, and no increment of a count is lost. *)
(***************************************************************************)
EXTENDS LoginFlow, FunctionTheorems, FiniteSetTheorems, TLAPS

(* A server's queue has the logins that were sent to it and have not been  *)
(* answered, each once.  Its worker is at rest while the queue is empty,   *)
(* and nothing is queued on a server that is down.                         *)
Queued ==
  \A s \in Server :
    /\ \A i \in 1..Len(que[s]) :
         que[s][i] \in Login => At(que[s][i], "sent") /\ login[que[s][i]].best = s
    /\ \A i, j \in 1..Len(que[s]) : que[s][i] \in Login /\ que[s][i] = que[s][j] => i = j
    /\ que[s] = <<>> => wk[s].pc = "idle"
    /\ phase[s] = "down" => que[s] = <<>>
    /\ connected[s] # {} => phase[s] \in {"up", "join"}

(* The increments that server s may have written: one for each login that  *)
(* was accepted and for each search that it does not have queued.          *)
Searches(q) == {i \in 1..Len(q) : q[i] = "search"}
Accepted == {l \in Login : At(l, "accepted")}
Room(s) == Cardinality(Accepted) + searches - Cardinality(Searches(que[s]))

Rooms ==
  \A s \in Server :
    /\ Cardinality(Searches(que[s])) <= searches
    /\ wk[s].n <= Room(s)
    /\ count[s] # None => count[s] <= Room(s)
    /\ written[s] # None => written[s] <= Room(s)

(* A server that is up has the count it wrote, and its worker has read it. *)
Counted ==
  \A s \in Server :
    phase[s] = "up" /\ written[s] # None
      => count[s] = written[s] /\ (wk[s].pc = "write" => wk[s].n = count[s])

(* A login has a server once one has been chosen for it ...                *)
Chosing ==
  \A l \in Login :
    /\ At(l, "read") => mtx = l /\ login[l].best \in Server \ login[l].todo
    /\ login[l].pc \in {"token", "reply", "sent"} => login[l].best \in Server

(* ... and while it is being chosen, the counts having only grown: it had  *)
(* no more than the smallest count that was read, and no server that has   *)
(* been read has less now.                                                 *)
Reading ==
  begin # None =>
    /\ \A s \in Server : Num(begin[s]) <= Num(count[s])
    /\ \A l \in Login : At(l, "read") =>
         /\ Num(begin[login[l].best]) <= login[l].num
         /\ \A s \in Server \ login[l].todo : login[l].num <= Num(count[s])

IInv == TypeOK /\ Queued /\ Rooms /\ Counted /\ Chosing /\ Reading

-----------------------------------------------------------------------------
(* INT_MAX is more than a count can be.                                    *)
LEMMA Numbers ==
  /\ Cardinality(Login) \in Nat /\ MaxSearches \in Nat /\ MaxFails \in Nat /\ MaxBoots \in Nat
  /\ INT_MAX = Cardinality(Login) + MaxSearches + 1 /\ INT_MAX \in Nat \ {0}
  /\ INT_MAX - 1 \in Nat
  BY LoginAssumption, BoundsAssumption, FS_CardinalityType DEF INT_MAX

(* The searches in a queue can be counted.                                 *)
LEMMA SearchesFinite ==
  ASSUME NEW q \in Seq(Login \cup {"search"})
  PROVE  IsFiniteSet(Searches(q)) /\ Cardinality(Searches(q)) \in Nat
<1>1. IsFiniteSet(1..Len(q)) /\ Searches(q) \in SUBSET (1..Len(q))
  BY FS_Interval DEF Searches
<1> QED BY <1>1, FS_Subset, FS_CardinalityType

(* What a request that is queued does to their number ...                  *)
LEMMA SearchesAppend ==
  ASSUME NEW q \in Seq(Login \cup {"search"}), NEW r \in Login \cup {"search"}
  PROVE  /\ Cardinality(Searches(Append(q, r))) <= Cardinality(Searches(q)) + 1
         /\ r # "search" => Searches(Append(q, r)) = Searches(q)
<1>1. /\ Append(q, r) \in Seq(Login \cup {"search"}) /\ Len(Append(q, r)) = Len(q) + 1
      /\ Len(q) \in Nat
      /\ \A i \in 1..Len(q) : Append(q, r)[i] = q[i]
      /\ Append(q, r)[Len(q) + 1] = r
  OBVIOUS
<1>2. Searches(Append(q, r)) = IF r = "search" THEN Searches(q) \cup {Len(q) + 1} ELSE Searches(q)
  BY <1>1 DEF Searches
<1>3. IsFiniteSet(Searches(q)) /\ Cardinality(Searches(q)) \in Nat
  BY SearchesFinite
<1>4. Cardinality(Searches(q) \cup {Len(q) + 1})
        = IF Len(q) + 1 \in Searches(q) THEN Cardinality(Searches(q))
          ELSE Cardinality(Searches(q)) + 1
  BY <1>3, FS_AddElement
<1> QED BY <1>2, <1>3, <1>4

(* ... and what the one does that is popped: the others move up.           *)
LEMMA SearchesTail ==
  ASSUME NEW q \in Seq(Login \cup {"search"}), q # <<>>
  PROVE  /\ Cardinality(Searches(Tail(q))) <= Cardinality(Searches(q))
         /\ Head(q) = "search" => Cardinality(Searches(Tail(q))) <= Cardinality(Searches(q)) - 1
<1>1. /\ Tail(q) \in Seq(Login \cup {"search"}) /\ Len(Tail(q)) = Len(q) - 1
      /\ Len(q) \in Nat \ {0} /\ Head(q) = q[1]
      /\ \A i \in 1..(Len(q) - 1) : Tail(q)[i] = q[i + 1]
  OBVIOUS
<1> DEFINE later == Searches(q) \ {1}
           f == [i \in Searches(Tail(q)) |-> i + 1]
<1>2. f \in Injection(Searches(Tail(q)), later)
  <2>1. \A i \in Searches(Tail(q)) : i \in Nat /\ f[i] = i + 1 /\ i + 1 \in later
    BY <1>1 DEF Searches
  <2>2. f \in [Searches(Tail(q)) -> later]
    BY <2>1
  <2>3. \A i, j \in Searches(Tail(q)) : f[i] = f[j] => i = j
    BY <2>1
  <2> QED BY <2>2, <2>3 DEF Injection, IsInjective
<1>3. /\ IsFiniteSet(Searches(q)) /\ IsFiniteSet(later) /\ Cardinality(Searches(q)) \in Nat
      /\ Cardinality(later) = IF 1 \in Searches(q) THEN Cardinality(Searches(q)) - 1
                              ELSE Cardinality(Searches(q))
  BY SearchesFinite, FS_RemoveElement
<1>4. Cardinality(Searches(Tail(q))) <= Cardinality(later)
  BY <1>2, <1>3, FS_Injection
<1>5. Cardinality(Searches(Tail(q))) \in Nat /\ Cardinality(later) \in Nat
  BY <1>1, <1>3, SearchesFinite, FS_CardinalityType
<1>6. Head(q) = "search" => 1 \in Searches(q)
  BY <1>1 DEF Searches
<1> QED BY <1>3, <1>4, <1>5, <1>6

(* Logins that have been accepted stay so; one more of them is counted.    *)
LEMMA AcceptedGrows ==
  ASSUME \A l \in Login : At(l, "accepted") => login'[l].pc = "accepted"
  PROVE  /\ Cardinality(Accepted) \in Nat /\ Cardinality(Accepted)' \in Nat
         /\ Cardinality(Accepted) <= Cardinality(Accepted)'
         /\ Cardinality(Accepted)' <= Cardinality(Login)
         /\ \A l \in Login : ~At(l, "accepted") /\ login'[l].pc = "accepted"
              => Cardinality(Accepted) + 1 <= Cardinality(Accepted)'
<1> DEFINE new == {l \in Login : login'[l].pc = "accepted"}
<1>1. Accepted' = new /\ Accepted \subseteq new /\ new \subseteq Login
  BY DEF Accepted, At
<1>2. IsFiniteSet(Login) /\ IsFiniteSet(new) /\ IsFiniteSet(Accepted)
  BY <1>1, LoginAssumption, FS_Subset
<1>3. /\ Cardinality(Accepted) \in Nat /\ Cardinality(new) \in Nat /\ Cardinality(Login) \in Nat
      /\ Cardinality(Accepted) <= Cardinality(new) /\ Cardinality(new) <= Cardinality(Login)
      /\ Cardinality(Accepted) = Cardinality(new) => Accepted = new
  BY <1>1, <1>2, FS_Subset, FS_CardinalityType
<1>4. \A l \in Login : ~At(l, "accepted") /\ login'[l].pc = "accepted" => Accepted # new
  BY DEF Accepted
<1> HIDE DEF new
<1> QED BY <1>1, <1>3, <1>4

-----------------------------------------------------------------------------
(* What each step does, in the terms the invariants are stated in.  First  *)
(* a login that moves: the others stay.                                    *)
LoginState == [pc : {"idle", "lock", "read", "token", "reply", "sent", "accepted", "refused"},
               todo : SUBSET Server, best : Server \cup {None}, num : 0..INT_MAX]

Moved(l) == /\ login' \in [Login -> LoginState]
            /\ \A m \in Login \ {l} : login'[m] = login[m]

(* A login that is given a new record has moved ...                        *)
LEMMA LoginMoves ==
  ASSUME TypeOK, NEW l \in Login, NEW x \in LoginState, login' = [login EXCEPT ![l] = x]
  PROVE  Moved(l) /\ login'[l] = x
  BY DEF TypeOK, LoginState, Moved

(* A login whose place changes, and one that is over.                      *)
LEMMA LoginGoes ==
  ASSUME TypeOK, NEW l \in Login, NEW p, Goto(l, p),
         p \in {"idle", "lock", "read", "token", "reply", "sent", "accepted", "refused"}
  PROVE  Moved(l) /\ login'[l].pc = p /\ login'[l].best = login[l].best
<1> DEFINE x == [login[l] EXCEPT !.pc = p]
<1>1. login[l] \in LoginState
  BY DEF TypeOK, LoginState
<1>2. x \in LoginState /\ x.pc = p /\ x.best = login[l].best
  BY <1>1 DEF LoginState
<1>3. login' = [login EXCEPT ![l] = x]
  BY DEF Goto
<1> HIDE DEF x
<1> QED BY <1>2, <1>3, LoginMoves

(* ... and so when it is over.                                             *)
LEMMA LoginEnds ==
  ASSUME TypeOK, NEW l \in Login, NEW p \in {"accepted", "refused"}, Over(l, p)
  PROVE  Moved(l) /\ login'[l].pc = p
<1>1. Plain(p) \in LoginState /\ Plain(p).pc = p
  BY Numbers DEF Plain, LoginState
<1> QED BY <1>1, LoginMoves DEF Over

(* The gate's own steps, and the token.                                    *)
LEMMA GateDoes ==
  ASSUME TypeOK, NEW l \in Login, GetChatServer(l) \/ RPCFailed(l) \/ InsertToken(l)
  PROVE  /\ Moved(l) /\ login[l].pc \in {"idle", "lock", "token", "reply"}
         /\ login'[l].pc \in {"lock", "reply", "refused"}
         /\ login'[l].pc = "reply" => login[l].pc = "token" /\ login'[l].best = login[l].best
         /\ UNCHANGED <<mtx, begin, count, phase, boots, connected, que, wk, searches, written>>
         /\ token' \in [Uid -> Login \cup {None}] /\ fails' \in 0..MaxFails /\ excused' \subseteq Login
<1>1. fails \in 0..MaxFails /\ excused \subseteq Login /\ token \in [Uid -> Login \cup {None}]
  BY DEF TypeOK
<1>2. CASE GetChatServer(l)
  <2>1. Goto(l, "lock") /\ At(l, "idle")
    BY <1>2 DEF GetChatServer
  <2>2. Moved(l) /\ login'[l].pc = "lock"
    BY <2>1, LoginGoes
  <2> QED BY <1>1, <1>2, <2>1, <2>2 DEF GetChatServer, At, choice, server, worker
<1>3. CASE RPCFailed(l)
  <2>1. Over(l, "refused") /\ (At(l, "lock") \/ At(l, "reply"))
    BY <1>3 DEF RPCFailed
  <2>2. Moved(l) /\ login'[l].pc = "refused"
    BY <2>1, LoginEnds
  <2> QED BY <1>1, <1>3, <2>1, <2>2, Numbers DEF RPCFailed, At, Fails, choice, server, worker
<1>4. CASE InsertToken(l)
  <2>1. Goto(l, "reply") /\ At(l, "token") /\ Set(l)
    BY <1>4 DEF InsertToken
  <2>2. Moved(l) /\ login'[l].pc = "reply" /\ login'[l].best = login[l].best
    BY <2>1, LoginGoes
  <2>3. token' \in [Uid -> Login \cup {None}] /\ fails' \in 0..MaxFails /\ excused' \subseteq Login
    BY <1>1, <2>1, UidOfAssumption, Numbers DEF Set, Healthy, Fails
  <2> QED BY <1>4, <2>1, <2>2, <2>3 DEF InsertToken, At, choice, server, worker
<1> QED BY <1>2, <1>3, <1>4

(* The counts that are read are numbers, one of them the smallest so far.  *)
LEMMA NumIs ==
  ASSUME TypeOK, NEW s \in Server, NEW n \in {count[s], None}
  PROVE  Num(n) \in 0..INT_MAX /\ (n # None => n \in 0..(INT_MAX - 1))
  BY Numbers DEF TypeOK, Num

(* What a read of a count does besides.                                    *)
LEMMA HGetDoes ==
  ASSUME TypeOK, NEW s, NEW n, NEW from, HGet(s, n, from)
  PROVE  /\ fails' \in 0..MaxFails
         /\ begin' = None \/ (begin' = from /\ n = count[s])
  BY Numbers, SMTT(30) DEF TypeOK, HGet, Healthy, Fails

(* The choice begins: one server has been read, the best so far.           *)
LEMMA FirstDoes ==
  ASSUME TypeOK, NEW l \in Login, NEW s \in Server, FirstServer(l, s)
  PROVE  /\ Moved(l) /\ At(l, "lock") /\ mtx = None /\ mtx' = l
         /\ login'[l].pc = "read" /\ login'[l].todo = Server \ {s} /\ login'[l].best = s
         /\ begin' # None => begin' = count /\ login'[l].num = Num(count[s])
         /\ fails' \in 0..MaxFails
         /\ UNCHANGED <<token, count, phase, boots, connected, que, wk, searches, written, excused>>
<1>1. PICK n \in {count[s], None} :
        /\ HGet(s, n, count)
        /\ login' = [login EXCEPT ![l] = [@ EXCEPT !.pc = "read", !.todo = Server \ {s},
                                                   !.best = s, !.num = Num(n)]]
  BY DEF FirstServer
<1> DEFINE x == [login[l] EXCEPT !.pc = "read", !.todo = Server \ {s}, !.best = s, !.num = Num(n)]
<1>2. login[l] \in LoginState /\ Num(n) \in 0..INT_MAX
  BY NumIs DEF TypeOK, LoginState
<1>3. /\ x \in LoginState /\ x.pc = "read" /\ x.todo = Server \ {s} /\ x.best = s
      /\ x.num = Num(n)
  BY <1>2 DEF LoginState
<1>4. login' = [login EXCEPT ![l] = x]
  BY <1>1
<1> HIDE DEF x
<1>5. Moved(l) /\ login'[l] = x
  BY <1>3, <1>4, LoginMoves
<1>6. fails' \in 0..MaxFails /\ (begin' = None \/ (begin' = count /\ n = count[s]))
  BY <1>1, HGetDoes
<1> QED BY <1>3, <1>5, <1>6 DEF FirstServer, server, worker

(* Another server has been read; the better one is kept.                   *)
LEMMA NextDoes ==
  ASSUME TypeOK, NEW l \in Login, NEW s \in Server, NextServer(l, s)
  PROVE  /\ Moved(l) /\ At(l, "read") /\ s \in login[l].todo
         /\ login'[l].pc = "read" /\ login'[l].todo = login[l].todo \ {s}
         /\ begin' # None =>
              /\ begin' = begin
              /\ \/ /\ Num(count[s]) < login[l].num
                    /\ login'[l].best = s /\ login'[l].num = Num(count[s])
                 \/ /\ login[l].num <= Num(count[s])
                    /\ login'[l].best = login[l].best /\ login'[l].num = login[l].num
         /\ login'[l].best \in {s, login[l].best} /\ fails' \in 0..MaxFails
         /\ UNCHANGED <<mtx, token, count, phase, boots, connected, que, wk, searches, written,
                        excused>>
<1>1. PICK n \in {count[s], None} :
        /\ HGet(s, n, begin)
        /\ login' = [login EXCEPT ![l] = [login[l] EXCEPT
             !.todo = login[l].todo \ {s},
             !.best = IF Num(n) < login[l].num THEN s ELSE login[l].best,
             !.num = IF Num(n) < login[l].num THEN Num(n) ELSE login[l].num]]
  BY DEF NextServer
<1> DEFINE b == IF Num(n) < login[l].num THEN s ELSE login[l].best
           k == IF Num(n) < login[l].num THEN Num(n) ELSE login[l].num
           x == [login[l] EXCEPT !.todo = login[l].todo \ {s}, !.best = b, !.num = k]
<1>2. login[l] \in LoginState /\ Num(n) \in 0..INT_MAX /\ INT_MAX \in Nat
  BY NumIs, Numbers DEF TypeOK, LoginState
<1>7. /\ b \in Server \cup {None} /\ k \in 0..INT_MAX /\ b \in {s, login[l].best}
      /\ \/ Num(n) < login[l].num /\ b = s /\ k = Num(n)
         \/ login[l].num <= Num(n) /\ b = login[l].best /\ k = login[l].num
  BY <1>2 DEF LoginState
<1>4. login' = [login EXCEPT ![l] = x]
  BY <1>1
<1> HIDE DEF b, k
<1>3. /\ x \in LoginState /\ x.pc = login[l].pc /\ x.todo = login[l].todo \ {s}
      /\ x.best \in {s, login[l].best}
      /\ \/ Num(n) < login[l].num /\ x.best = s /\ x.num = Num(n)
         \/ login[l].num <= Num(n) /\ x.best = login[l].best /\ x.num = login[l].num
  BY <1>2, <1>7 DEF LoginState
<1> HIDE DEF x
<1>5. Moved(l) /\ login'[l] = x
  BY <1>3, <1>4, LoginMoves
<1>6. fails' \in 0..MaxFails /\ (begin' = None \/ (begin' = begin /\ n = count[s]))
  BY <1>1, HGetDoes
<1> QED BY <1>3, <1>5, <1>6 DEF NextServer, At, server, worker

(* The choice ends; the mutex is free.                                     *)
LEMMA ChosenDoes ==
  ASSUME TypeOK, NEW l \in Login, Chosen(l)
  PROVE  /\ Moved(l) /\ At(l, "read") /\ login'[l].pc = "token" /\ login'[l].best = login[l].best
         /\ mtx' = None /\ begin' = None
         /\ UNCHANGED <<token, count, phase, boots, connected, que, wk, searches, written, fails,
                        excused>>
<1> DEFINE x == [login[l] EXCEPT !.pc = "token", !.num = 0]
<1>1. login[l] \in LoginState /\ 0 \in 0..INT_MAX
  BY Numbers DEF TypeOK, LoginState
<1>2. x \in LoginState /\ x.pc = "token" /\ x.best = login[l].best
  BY <1>1 DEF LoginState
<1>3. login' = [login EXCEPT ![l] = x]
  BY DEF Chosen
<1> HIDE DEF x
<1> QED BY <1>2, <1>3, LoginMoves DEF Chosen, server, worker

(* The client connects to the server chosen and sends its login, or ends.  *)
LEMMA ConnectDoes ==
  ASSUME TypeOK, Chosing, NEW l \in Login, Connect(l)
  PROVE  \E s \in Server :
           /\ s = login[l].best /\ At(l, "reply") /\ Moved(l)
           /\ \/ /\ phase[s] = "up"
                 /\ login'[l].pc = "sent" /\ login'[l].best = s
                 /\ que' = [que EXCEPT ![s] = Append(@, l)]
                 /\ connected' = [connected EXCEPT ![s] = @ \cup {l}]
              \/ /\ login'[l].pc = "refused" /\ UNCHANGED <<que, connected>>
           /\ excused' \subseteq Login
           /\ UNCHANGED <<mtx, begin, token, count, phase, boots, wk, searches, written, fails>>
<1>1. PICK s \in Server : s = login[l].best
  BY DEF Connect, Chosing, At
<1>2. At(l, "reply") /\ excused \subseteq Login
  BY DEF Connect, TypeOK
<1>3. CASE phase[s] = "up"
  <2>1. Goto(l, "sent")
    BY <1>1, <1>3 DEF Connect
  <2>2. Moved(l) /\ login'[l].pc = "sent" /\ login'[l].best = s
    BY <1>1, <2>1, LoginGoes
  <2> QED BY <1>1, <1>2, <1>3, <2>2 DEF Connect, choice
<1>4. CASE phase[s] # "up"
  <2>1. Over(l, "refused")
    BY <1>1, <1>4 DEF Connect
  <2>2. Moved(l) /\ login'[l].pc = "refused"
    BY <2>1, LoginEnds
  <2> QED BY <1>1, <1>2, <1>4, <2>2 DEF Connect, choice
<1> QED BY <1>3, <1>4

(* A worker that takes its next request.                                   *)
LEMMA TakeDoes ==
  ASSUME TypeOK, NEW s \in Server, wk[s].pc = "idle", wk' = [wk EXCEPT ![s].pc = "count"]
  PROVE  /\ wk' \in [Server -> [pc : {"idle", "count", "write", "asleep"}, n : 0..(INT_MAX - 1)]]
         /\ wk'[s].pc = "count" /\ wk'[s].n = wk[s].n
         /\ \A t \in Server \ {s} : wk'[t] = wk[t]
  BY DEF TypeOK

(* A login goes on to the count, or is popped and refused.                 *)
LEMMA CheckDoes ==
  ASSUME TypeOK, NEW s \in Server, LoginCheck(s)
  PROVE  /\ Head(que[s]) \in Login /\ que[s] # <<>> /\ wk[s].pc = "idle" /\ phase[s] # "down"
         /\ \/ wk' = [wk EXCEPT ![s].pc = "count"] /\ UNCHANGED <<login, que>>
            \/ /\ Moved(Head(que[s])) /\ login'[Head(que[s])].pc = "refused"
               /\ que' = [que EXCEPT ![s] = Tail(@)] /\ UNCHANGED wk
         /\ fails' \in 0..MaxFails /\ excused' \subseteq Login
         /\ UNCHANGED <<mtx, begin, token, count, phase, boots, connected, searches, written>>
<1>1. PICK l \in Login : l = Head(que[s])
  BY DEF LoginCheck
<1>2. fails \in 0..MaxFails /\ excused \subseteq Login
  BY DEF TypeOK
<1>3. fails' \in 0..MaxFails /\ excused' \subseteq Login
  BY <1>1, <1>2, Numbers DEF LoginCheck, Healthy, Fails
<1>4. Refuse(s, l) => /\ Moved(l) /\ login'[l].pc = "refused"
                      /\ que' = [que EXCEPT ![s] = Tail(@)] /\ UNCHANGED wk
  BY LoginEnds DEF Refuse, Pop
<1>5. \/ wk' = [wk EXCEPT ![s].pc = "count"] /\ UNCHANGED <<login, que>>
      \/ Refuse(s, l)
  BY <1>1 DEF LoginCheck
<1> QED BY <1>1, <1>3, <1>4, <1>5 DEF LoginCheck, Works, choice, server

(* A worker that has read its server's count.                              *)
LEMMA ReadDoes ==
  ASSUME TypeOK, NEW s \in Server, ReadCount(s)
  PROVE  /\ wk[s].pc = "count" /\ que[s] # <<>>
         /\ \E k \in 0..(INT_MAX - 1) :
              /\ wk' = [wk EXCEPT ![s] = [pc |-> "write", n |-> k]]
              /\ k = 0 \/ (count[s] # None /\ k = count[s])
              /\ \/ /\ UNCHANGED written
                    /\ count[s] # None => k = count[s]
                 \/ written' = [written EXCEPT ![s] = None]
         /\ fails' \in 0..MaxFails
         /\ UNCHANGED <<login, mtx, begin, token, count, phase, boots, connected, que, searches,
                        excused>>
<1>1. PICK n \in {count[s], None} :
        /\ HGetOwn(s, n)
        /\ wk' = [wk EXCEPT ![s] = [pc |-> "write", n |-> IF n = None THEN 0 ELSE n]]
        /\ written' = IF n = count[s] THEN written ELSE [written EXCEPT ![s] = None]
  BY DEF ReadCount
<1>2. PICK k : k = IF n = None THEN 0 ELSE n
  OBVIOUS
<1>3. /\ k \in 0..(INT_MAX - 1)
      /\ k = 0 \/ (count[s] # None /\ k = count[s])
      /\ n = count[s] /\ count[s] # None => k = count[s]
  BY <1>2, NumIs, Numbers
<1>4. fails' \in 0..MaxFails
  BY <1>1, Numbers, SMTT(30) DEF HGetOwn, Healthy, Fails, TypeOK
<1>5. wk' = [wk EXCEPT ![s] = [pc |-> "write", n |-> k]]
  BY <1>1, <1>2
<1>6. \/ UNCHANGED written /\ (count[s] # None => k = count[s])
      \/ written' = [written EXCEPT ![s] = None]
  BY <1>1, <1>3
<1>7. /\ wk[s].pc = "count" /\ que[s] # <<>>
      /\ UNCHANGED <<login, mtx, begin, token, count, phase, boots, connected, que, searches,
                     excused>>
  BY DEF ReadCount, Works, choice, server
<1> QED BY <1>3, <1>4, <1>5, <1>6, <1>7

(* A count that is set: the choice in progress counts only if it has grown.*)
LEMMA SetDoes ==
  ASSUME TypeOK, NEW s \in Server, NEW n, SetCount(s, n)
  PROVE  /\ count'[s] = n /\ \A t \in Server \ {s} : count'[t] = count[t]
         /\ n \in 0..(INT_MAX - 1) \cup {None} =>
              /\ count' \in [Server -> 0..(INT_MAX - 1) \cup {None}]
              /\ begin' # None => begin' = begin /\ Num(count[s]) <= Num(n)
         /\ begin' \in {None, begin}
<1>1. Num(count[s]) \in Int
  BY NumIs, Numbers
<1>2. n \in 0..(INT_MAX - 1) \cup {None} => Num(n) \in Int
  BY Numbers DEF Num
<1> QED BY <1>1, <1>2 DEF SetCount, TypeOK

(* A worker that writes the count and is done with its request.            *)
LEMMA WriteDoes ==
  ASSUME TypeOK, NEW s \in Server, WriteCount(s)
  PROVE  /\ wk[s].pc = "write" /\ que[s] # <<>> /\ phase[s] # "down"
         /\ \/ /\ SetCount(s, wk[s].n + 1)
               /\ written' = [written EXCEPT ![s] = IF @ = None THEN None ELSE @ + 1]
            \/ written' = [written EXCEPT ![s] = None] /\ UNCHANGED <<count, begin>>
         /\ \/ /\ Head(que[s]) \in Login
               /\ Moved(Head(que[s])) /\ login'[Head(que[s])].pc = "accepted"
            \/ Head(que[s]) \notin Login /\ UNCHANGED login
         /\ que' = [que EXCEPT ![s] = Tail(@)]
         /\ wk' = [wk EXCEPT ![s] = [pc |-> "idle", n |-> 0]]
         /\ fails' \in 0..MaxFails
         /\ UNCHANGED <<mtx, token, phase, boots, connected, searches, excused>>
<1>3. fails' = fails \/ (fails < MaxFails /\ fails' = fails + 1)
  BY DEF WriteCount, Healthy, Fails
<1>1. fails' \in 0..MaxFails
  BY <1>3, Numbers, SMTT(30) DEF TypeOK
<1>2. \/ /\ Head(que[s]) \in Login
         /\ Moved(Head(que[s])) /\ login'[Head(que[s])].pc = "accepted"
      \/ Head(que[s]) \notin Login /\ UNCHANGED login
  BY LoginEnds DEF WriteCount
<1> QED BY <1>1, <1>2 DEF WriteCount, Works, Spoilt, Pop, server

(* The end of a program by a crash: its logins are lost.                   *)
LEMMA CrashDoes ==
  ASSUME TypeOK, NEW s \in Server, Crash(s)
  PROVE  /\ login' \in [Login -> LoginState]
         /\ \A l \in Login :
              \/ At(l, "sent") /\ login[l].best = s /\ login'[l].pc = "refused"
              \/ ~(At(l, "sent") /\ login[l].best = s) /\ login'[l] = login[l]
         /\ phase' = [phase EXCEPT ![s] = "down"]
         /\ connected' = [connected EXCEPT ![s] = {}]
         /\ que' = [que EXCEPT ![s] = <<>>]
         /\ wk' = [wk EXCEPT ![s] = [pc |-> "idle", n |-> 0]]
         /\ written' = [written EXCEPT ![s] = None] /\ excused' \subseteq Login
         /\ UNCHANGED <<mtx, begin, token, count, boots, searches, fails>>
<1>1. Plain("refused") \in LoginState /\ Plain("refused").pc = "refused"
  BY Numbers DEF Plain, LoginState
<1>2. login \in [Login -> LoginState] /\ excused \subseteq Login
  BY DEF TypeOK, LoginState
<1> QED BY <1>1, <1>2 DEF Crash, Spoilt, At, choice

(* The Redis pool is closed; a worker in a command may sleep from then on. *)
LEMMA CloseDoes ==
  ASSUME TypeOK, NEW s \in Server, CloseRedis(s)
  PROVE  /\ UNCHANGED <<login, mtx, begin, token, count, boots, connected, que, searches, written, fails>>
         /\ phase[s] = "close" /\ phase' = [phase EXCEPT ![s] = "drain"]
         /\ wk' \in [Server -> [pc : {"idle", "count", "write", "asleep"}, n : 0..(INT_MAX - 1)]]
         /\ wk'[s].n = wk[s].n /\ wk'[s].pc \in {wk[s].pc, "asleep"}
         /\ que[s] = <<>> => wk'[s] = wk[s]
         /\ \A t \in Server \ {s} : wk'[t] = wk[t]
         /\ excused' \subseteq Login
<1>1. /\ UNCHANGED <<login, mtx, begin, token, count, boots, connected, que, searches, written, fails>>
      /\ phase[s] = "close" /\ phase' = [phase EXCEPT ![s] = "drain"]
  BY DEF CloseRedis, Enter, choice
<1>2. wk \in [Server -> [pc : {"idle", "count", "write", "asleep"}, n : 0..(INT_MAX - 1)]]
      /\ excused \subseteq Login
  BY DEF TypeOK
<1>3. CASE UNCHANGED <<wk, excused>>
  BY <1>1, <1>2, <1>3
<1>4. CASE que[s] # <<>> /\ wk' = [wk EXCEPT ![s].pc = "asleep"] /\ excused' \subseteq Login
  BY <1>1, <1>2, <1>4
<1> QED BY <1>2, <1>3, <1>4 DEF CloseRedis

-----------------------------------------------------------------------------
(* The queues as functions: what is appended and what is popped.           *)
LEMMA QueueGrows ==
  ASSUME TypeOK, NEW s \in Server, NEW r \in Login \cup {"search"},
         que' = [que EXCEPT ![s] = Append(@, r)]
  PROVE  /\ que' \in [Server -> Seq(Login \cup {"search"})]
         /\ que'[s] = Append(que[s], r) /\ Len(que[s]) \in Nat /\ que'[s] # <<>>
         /\ Len(que'[s]) = Len(que[s]) + 1 /\ que'[s][Len(que[s]) + 1] = r
         /\ \A i \in 1..Len(que[s]) : que'[s][i] = que[s][i]
         /\ \A t \in Server \ {s} : que'[t] = que[t]
<1>1. que[s] \in Seq(Login \cup {"search"}) /\ que'[s] = Append(que[s], r)
  BY DEF TypeOK
<1>2. /\ Append(que[s], r) \in Seq(Login \cup {"search"}) /\ Len(que[s]) \in Nat
      /\ Len(Append(que[s], r)) = Len(que[s]) + 1
      /\ Append(que[s], r)[Len(que[s]) + 1] = r
      /\ \A i \in 1..Len(que[s]) : Append(que[s], r)[i] = que[s][i]
  BY <1>1
<1>3. Append(que[s], r) # <<>>
  <2>1. Len(Append(que[s], r)) # 0 /\ Len(<<>>) = 0
    BY <1>2
  <2> QED BY <2>1
<1> QED BY <1>1, <1>2, <1>3 DEF TypeOK

(* A queue that is popped.                                                 *)
LEMMA QueueShrinks ==
  ASSUME TypeOK, NEW s \in Server, que[s] # <<>>, que' = [que EXCEPT ![s] = Tail(@)]
  PROVE  /\ que' \in [Server -> Seq(Login \cup {"search"})]
         /\ que'[s] = Tail(que[s]) /\ Len(que[s]) \in Nat \ {0}
         /\ Head(que[s]) = que[s][1] /\ Head(que[s]) \in Login \cup {"search"}
         /\ Len(que'[s]) = Len(que[s]) - 1
         /\ \A i \in 1..Len(que'[s]) : i + 1 \in 1..Len(que[s]) /\ que'[s][i] = que[s][i + 1]
         /\ \A t \in Server \ {s} : que'[t] = que[t]
<1>1. que[s] \in Seq(Login \cup {"search"}) /\ que'[s] = Tail(que[s])
  BY DEF TypeOK
<1>2. /\ Tail(que[s]) \in Seq(Login \cup {"search"}) /\ Len(que[s]) \in Nat \ {0}
      /\ Head(que[s]) = que[s][1] /\ Len(Tail(que[s])) = Len(que[s]) - 1
      /\ Head(que[s]) \in Login \cup {"search"}
      /\ \A i \in 1..(Len(que[s]) - 1) : i + 1 \in 1..Len(que[s]) /\ Tail(que[s])[i] = que[s][i + 1]
  BY <1>1
<1> QED BY <1>1, <1>2 DEF TypeOK

(* The request a server works on is a login that was sent to it.           *)
LEMMA HeadSent ==
  ASSUME TypeOK, Queued, NEW s \in Server, que[s] # <<>>, Head(que[s]) \in Login
  PROVE  At(Head(que[s]), "sent") /\ login[Head(que[s])].best = s
<1>1. que[s] \in Seq(Login \cup {"search"})
  BY DEF TypeOK
<1>2. Head(que[s]) = que[s][1] /\ 1 \in 1..Len(que[s])
  BY <1>1
<1> QED BY <1>2 DEF Queued

(* A login that moves before it is sent is in no queue.                    *)
LEMMA QueuedStays ==
  ASSUME Queued, UNCHANGED que,
         \A l \in Login : At(l, "sent") => login'[l] = login[l],
         \A s \in Server : que[s] = <<>> => wk'[s].pc = "idle",
         \A s \in Server : phase'[s] = "down" => que[s] = <<>>,
         \A s \in Server : connected'[s] # {} => phase'[s] \in {"up", "join"}
  PROVE  Queued'
  BY DEF Queued, At

(* A popped login may have left its place; the others are still there.     *)
LEMMA QueuedPops ==
  ASSUME TypeOK, Queued, NEW s \in Server, que[s] # <<>>, phase[s] # "down",
         que' = [que EXCEPT ![s] = Tail(@)], UNCHANGED <<phase, connected>>,
         \A t \in Server \ {s} : wk'[t].pc = wk[t].pc, wk'[s].pc = "idle",
         \A l \in Login : l # Head(que[s]) => login'[l] = login[l]
  PROVE  Queued'
<1>1. /\ Len(que[s]) \in Nat \ {0} /\ Head(que[s]) = que[s][1]
      /\ Len(que'[s]) = Len(que[s]) - 1
      /\ \A i \in 1..Len(que'[s]) : i + 1 \in 1..Len(que[s]) /\ que'[s][i] = que[s][i + 1]
      /\ \A t \in Server \ {s} : que'[t] = que[t]
  BY QueueShrinks
<1>2. ASSUME NEW t \in Server \ {s}
      PROVE  /\ \A i \in 1..Len(que'[t]) :
                  que'[t][i] \in Login => login'[que'[t][i]].pc = "sent" /\ login'[que'[t][i]].best = t
             /\ \A i, j \in 1..Len(que'[t]) : que'[t][i] \in Login /\ que'[t][i] = que'[t][j] => i = j
  <2>1. que'[t] = que[t]
    BY <1>1
  <2>2. \A i \in 1..Len(que[t]) : que[t][i] \in Login => que[t][i] # Head(que[s])
    BY HeadSent DEF Queued
  <2> QED BY <2>1, <2>2 DEF Queued, At
<1>3. \A i \in 1..Len(que'[s]) :
        que'[s][i] \in Login => login'[que'[s][i]].pc = "sent" /\ login'[que'[s][i]].best = s
  <2> SUFFICES ASSUME NEW i \in 1..Len(que'[s]), que'[s][i] \in Login
               PROVE  login'[que'[s][i]].pc = "sent" /\ login'[que'[s][i]].best = s
    OBVIOUS
  <2>1. /\ i + 1 \in 1..Len(que[s]) /\ que'[s][i] = que[s][i + 1]
        /\ 1 \in 1..Len(que[s]) /\ i + 1 # 1
    BY <1>1
  <2>2. que[s][i + 1] # que[s][1]
    BY <2>1 DEF Queued
  <2> QED BY <1>1, <2>1, <2>2 DEF Queued, At
<1>4. \A i, j \in 1..Len(que'[s]) : que'[s][i] \in Login /\ que'[s][i] = que'[s][j] => i = j
  <2> SUFFICES ASSUME NEW i \in 1..Len(que'[s]), NEW j \in 1..Len(que'[s]),
                      que'[s][i] \in Login, que'[s][i] = que'[s][j]
               PROVE  i = j
    OBVIOUS
  <2>1. i + 1 = j + 1
    BY <1>1 DEF Queued
  <2> QED BY <2>1
<1>5. \A t \in Server :
        /\ que'[t] = <<>> => wk'[t].pc = "idle"
        /\ phase'[t] = "down" => que'[t] = <<>>
        /\ connected'[t] # {} => phase'[t] \in {"up", "join"}
  BY <1>1 DEF Queued
<1> SUFFICES ASSUME NEW t \in Server
             PROVE  /\ \A i \in 1..Len(que'[t]) :
                         que'[t][i] \in Login =>
                           login'[que'[t][i]].pc = "sent" /\ login'[que'[t][i]].best = t
                    /\ \A i, j \in 1..Len(que'[t]) :
                         que'[t][i] \in Login /\ que'[t][i] = que'[t][j] => i = j
  BY <1>5 DEF Queued, At
<1>6. CASE t = s
  BY <1>3, <1>4, <1>6
<1>7. CASE t # s
  BY <1>2, <1>7
<1> QED BY <1>6, <1>7

-----------------------------------------------------------------------------
(* The queues, step by step.                                               *)
LEMMA QueuedStep == ASSUME TypeOK, Queued, Chosing, Next PROVE Queued'
<1>1. ASSUME NEW l \in Login,
             \/ GetChatServer(l) \/ RPCFailed(l) \/ InsertToken(l) \/ Chosen(l)
             \/ \E s \in Server : FirstServer(l, s) \/ NextServer(l, s)
      PROVE  Queued'
  <2>1. Moved(l) /\ ~At(l, "sent") /\ UNCHANGED <<que, wk, phase, connected>>
    BY <1>1, GateDoes, FirstDoes, NextDoes, ChosenDoes DEF At
  <2>2. \A m \in Login : At(m, "sent") => login'[m] = login[m]
    BY <2>1 DEF Moved
  <2> QED BY <2>1, <2>2, QueuedStays DEF Queued
<1>2. ASSUME NEW l \in Login, Connect(l) PROVE Queued'
  <2>1. PICK s \in Server :
          /\ s = login[l].best /\ At(l, "reply") /\ Moved(l)
          /\ \/ /\ phase[s] = "up"
                /\ login'[l].pc = "sent" /\ login'[l].best = s
                /\ que' = [que EXCEPT ![s] = Append(@, l)]
                /\ connected' = [connected EXCEPT ![s] = @ \cup {l}]
             \/ /\ login'[l].pc = "refused" /\ UNCHANGED <<que, connected>>
          /\ UNCHANGED <<phase, wk>>
    BY <1>2, ConnectDoes
  <2>2. \A m \in Login : At(m, "sent") => login'[m] = login[m] /\ m # l
    BY <2>1 DEF Moved, At
  <2>3. CASE UNCHANGED <<que, connected>>
    BY <2>1, <2>2, <2>3, QueuedStays DEF Queued
  <2>4. CASE ~UNCHANGED <<que, connected>>
    <3>1. /\ que'[s] # <<>> /\ Len(que[s]) \in Nat
          /\ Len(que'[s]) = Len(que[s]) + 1 /\ que'[s][Len(que[s]) + 1] = l
          /\ \A i \in 1..Len(que[s]) : que'[s][i] = que[s][i]
          /\ \A t \in Server \ {s} : que'[t] = que[t]
          /\ phase[s] = "up" /\ login'[l].pc = "sent" /\ login'[l].best = s
          /\ \A t \in Server \ {s} : connected'[t] = connected[t]
      BY <2>1, <2>4, QueueGrows DEF TypeOK
    <3>2. \A t \in Server : \A i \in 1..Len(que[t]) : que[t][i] \in Login =>
            login'[que[t][i]].pc = "sent" /\ login'[que[t][i]].best = t /\ que[t][i] # l
      BY <2>2 DEF Queued, At
    <3>3. \A i \in 1..Len(que'[s]) : i \in 1..Len(que[s]) \/ i = Len(que[s]) + 1
      BY <3>1
    <3>4. \A t \in Server : \A i \in 1..Len(que'[t]) : que'[t][i] \in Login =>
            login'[que'[t][i]].pc = "sent" /\ login'[que'[t][i]].best = t
      BY <3>1, <3>2, <3>3
    <3>5. \A t \in Server : \A i, j \in 1..Len(que'[t]) :
            que'[t][i] \in Login /\ que'[t][i] = que'[t][j] => i = j
      BY <3>1, <3>2, <3>3, SMTT(30) DEF Queued
    <3>6. \A t \in Server :
            /\ que'[t] = <<>> => wk'[t].pc = "idle"
            /\ phase'[t] = "down" => que'[t] = <<>>
            /\ connected'[t] # {} => phase'[t] \in {"up", "join"}
      BY <2>1, <3>1 DEF Queued
    <3> QED BY <3>4, <3>5, <3>6 DEF Queued, At
  <2> QED BY <2>3, <2>4
<1>3. ASSUME NEW l \in Login, NEW s \in Server, Disconnect(l, s) PROVE Queued'
  <2>1. /\ UNCHANGED <<login, que, wk, phase>>
        /\ \A t \in Server : connected'[t] # {} => connected[t] # {}
    BY <1>3 DEF Disconnect, worker, TypeOK
  <2> QED BY <2>1, QueuedStays DEF Queued
<1>4. ASSUME NEW s \in Server, Search(s) PROVE Queued'
  <2>1. /\ UNCHANGED <<login, phase, connected, wk>>
        /\ que' = [que EXCEPT ![s] = Append(@, "search")] /\ connected[s] # {}
    BY <1>4 DEF Search, server
  <2>2. /\ que'[s] # <<>> /\ Len(que[s]) \in Nat
        /\ Len(que'[s]) = Len(que[s]) + 1 /\ que'[s][Len(que[s]) + 1] = "search"
        /\ \A i \in 1..Len(que[s]) : que'[s][i] = que[s][i]
        /\ \A t \in Server \ {s} : que'[t] = que[t]
    BY <2>1, QueueGrows
  <2>3. \A i \in 1..Len(que'[s]) : i \in 1..Len(que[s]) \/ i = Len(que[s]) + 1
    BY <2>2
  <2>7. \A t \in Server : \A i \in 1..Len(que'[t]) : que'[t][i] \in Login =>
          i \in 1..Len(que[t]) /\ que'[t][i] = que[t][i]
    <3>1. "search" \notin Login
      BY LoginAssumption
    <3> QED BY <2>2, <2>3, <3>1
  <2>4. \A t \in Server : \A i \in 1..Len(que'[t]) :
          que'[t][i] \in Login => login[que'[t][i]].pc = "sent" /\ login[que'[t][i]].best = t
    BY <2>7 DEF Queued, At
  <2>5. \A t \in Server : \A i, j \in 1..Len(que'[t]) :
          que'[t][i] \in Login /\ que'[t][i] = que'[t][j] => i = j
    BY <2>7 DEF Queued
  <2>6. \A t \in Server :
          /\ que'[t] = <<>> => wk'[t].pc = "idle"
          /\ phase'[t] = "down" => que'[t] = <<>>
          /\ connected'[t] # {} => phase'[t] \in {"up", "join"}
    BY <2>1, <2>2 DEF Queued
  <2> QED BY <2>1, <2>4, <2>5, <2>6 DEF Queued, At
<1>5. ASSUME NEW s \in Server, LoginCheck(s) PROVE Queued'
  <2>1. CASE wk' = [wk EXCEPT ![s].pc = "count"] /\ UNCHANGED <<login, que>>
    <3>1. \A t \in Server : que[t] = <<>> => wk'[t].pc = "idle"
      BY <1>5, <2>1, CheckDoes, TakeDoes DEF Queued
    <3>2. UNCHANGED <<phase, connected>>
      BY <1>5, CheckDoes
    <3> QED BY <2>1, <3>1, <3>2, QueuedStays DEF Queued
  <2>2. CASE /\ Moved(Head(que[s]))
             /\ que' = [que EXCEPT ![s] = Tail(@)] /\ UNCHANGED wk
    <3>1. /\ que[s] # <<>> /\ phase[s] # "down" /\ UNCHANGED <<phase, connected>>
          /\ wk[s].pc = "idle"
      BY <1>5, CheckDoes
    <3> QED BY <2>2, <3>1, QueuedPops DEF Moved
  <2> QED BY <1>5, <2>1, <2>2, CheckDoes
<1>6. ASSUME NEW s \in Server, SearchMiss(s) \/ ReadCount(s) PROVE Queued'
  <2>1. /\ UNCHANGED <<login, que, phase, connected>> /\ que[s] # <<>>
        /\ \A t \in Server \ {s} : wk'[t] = wk[t]
    BY <1>6 DEF SearchMiss, ReadCount, Works, choice, server, TypeOK
  <2> QED BY <2>1, QueuedStays DEF Queued
<1>7. ASSUME NEW s \in Server, WriteCount(s) PROVE Queued'
  <2>1. /\ que[s] # <<>> /\ phase[s] # "down" /\ UNCHANGED <<phase, connected>>
        /\ que' = [que EXCEPT ![s] = Tail(@)]
        /\ wk' = [wk EXCEPT ![s] = [pc |-> "idle", n |-> 0]]
        /\ \A l \in Login : l # Head(que[s]) => login'[l] = login[l]
    BY <1>7, WriteDoes DEF Moved
  <2>2. wk'[s].pc = "idle" /\ \A t \in Server \ {s} : wk'[t].pc = wk[t].pc
    BY <2>1 DEF TypeOK
  <2> QED BY <2>1, <2>2, QueuedPops
<1>8. ASSUME NEW s \in Server,
             Boot(s) \/ Signal(s) \/ JoinIo(s) \/ HDel(s) \/ StopWorker(s) \/ Exit(s)
      PROVE  Queued'
  <2>1. UNCHANGED <<login, que, wk, connected>>
    BY <1>8 DEF Boot, Signal, JoinIo, HDel, StopWorker, Exit, worker
  <2>2. /\ \A t \in Server \ {s} : phase'[t] = phase[t]
        /\ phase'[s] = "down" => que[s] = <<>>
        /\ connected[s] # {} /\ phase[s] \in {"up", "join"} => phase'[s] \in {"up", "join"}
    BY <1>8 DEF Boot, Signal, JoinIo, HDel, StopWorker, Exit, Enter, TypeOK
  <2> QED BY <2>1, <2>2, QueuedStays DEF Queued
<1>9. ASSUME NEW s \in Server, Crash(s) PROVE Queued'
  <2>1. /\ \A t \in Server \ {s} : /\ que'[t] = que[t] /\ wk'[t] = wk[t] /\ phase'[t] = phase[t]
                                   /\ connected'[t] = connected[t]
        /\ que'[s] = <<>> /\ wk'[s].pc = "idle" /\ phase'[s] = "down" /\ connected'[s] = {}
        /\ \A l \in Login : At(l, "sent") /\ login[l].best # s => login'[l] = login[l]
    BY <1>9, CrashDoes DEF TypeOK
  <2>2. Len(<<>>) = 0
    OBVIOUS
  <2> QED BY <2>1, <2>2 DEF Queued, At
<1>10. ASSUME NEW s \in Server, CloseRedis(s) PROVE Queued'
  <2>1. /\ UNCHANGED <<login, que, connected>> /\ phase[s] = "close" /\ phase'[s] = "drain"
        /\ \A t \in Server \ {s} : phase'[t] = phase[t]
        /\ \A t \in Server : que[t] = <<>> => wk'[t] = wk[t]
    BY <1>10, CloseDoes DEF TypeOK
  <2> QED BY <2>1, QueuedStays DEF Queued
<1> QED BY <1>1, <1>2, <1>3, <1>4, <1>5, <1>6, <1>7, <1>8, <1>9, <1>10 DEF Next, Status, Work, Stop

(* Every login that has been given a server has one; only the call that    *)
(* holds the mutex is being served.                                        *)
LEMMA ChosingStep == ASSUME TypeOK, Queued, Chosing, Next PROVE Chosing'
<1>1. ASSUME NEW l \in Login, GetChatServer(l) \/ RPCFailed(l) \/ InsertToken(l)
      PROVE  Chosing'
  BY <1>1, GateDoes DEF Chosing, At, Moved
<1>2. ASSUME NEW l \in Login, NEW s \in Server, FirstServer(l, s)
      PROVE  Chosing'
  BY <1>2, FirstDoes, NoneAssumption DEF Chosing, At, Moved
<1>3. ASSUME NEW l \in Login, NEW s \in Server, NextServer(l, s)
      PROVE  Chosing'
  BY <1>3, NextDoes DEF Chosing, At, Moved
<1>4. ASSUME NEW l \in Login, Chosen(l)
      PROVE  Chosing'
  BY <1>4, ChosenDoes DEF Chosing, At, Moved
<1>5. ASSUME NEW l \in Login, Connect(l)
      PROVE  Chosing'
  BY <1>5, ConnectDoes DEF Chosing, At, Moved
<1>6. ASSUME NEW s \in Server, LoginCheck(s)
      PROVE  Chosing'
  <2>1. UNCHANGED mtx
    BY <1>6, CheckDoes
  <2>2. CASE UNCHANGED login
    BY <2>1, <2>2 DEF Chosing, At
  <2>3. CASE ~UNCHANGED login
    <3>1. Head(que[s]) \in Login /\ Moved(Head(que[s])) /\ login'[Head(que[s])].pc = "refused"
      BY <1>6, <2>3, CheckDoes
    <3> QED BY <2>1, <3>1 DEF Chosing, At, Moved
  <2> QED BY <2>2, <2>3
<1>7. ASSUME NEW s \in Server, WriteCount(s)
      PROVE  Chosing'
  BY <1>7, WriteDoes DEF Chosing, At, Moved
<1>8. ASSUME NEW s \in Server, Crash(s)
      PROVE  Chosing'
  BY <1>8, CrashDoes DEF Chosing, At
<1>9. ASSUME UNCHANGED <<login, mtx>>
      PROVE  Chosing'
  BY <1>9 DEF Chosing, At
<1> QED
  BY <1>1, <1>2, <1>3, <1>4, <1>5, <1>6, <1>7, <1>8, <1>9
  DEF Next, Status, Work, Stop, Disconnect, Search, SearchMiss, ReadCount, Boot, Signal, JoinIo,
      HDel, CloseRedis, StopWorker, Exit, choice

-----------------------------------------------------------------------------
(* The counts.  A login that was accepted stays so: the answers of the     *)
(* gate and of the servers go to others.                                   *)
LEMMA AcceptedStay ==
  ASSUME TypeOK, Queued, Chosing, Next
  PROVE  \A l \in Login : At(l, "accepted") => login'[l].pc = "accepted"
<1>1. ASSUME NEW l \in Login,
             \/ GetChatServer(l) \/ RPCFailed(l) \/ InsertToken(l) \/ Chosen(l) \/ Connect(l)
             \/ \E s \in Server : FirstServer(l, s) \/ NextServer(l, s)
      PROVE  Moved(l) /\ ~At(l, "accepted")
  BY <1>1, GateDoes, ChosenDoes, ConnectDoes, FirstDoes, NextDoes DEF At
<1>2. ASSUME NEW s \in Server, LoginCheck(s) \/ WriteCount(s)
      PROVE  UNCHANGED login \/ \E l \in Login : Moved(l) /\ ~At(l, "accepted")
  BY <1>2, CheckDoes, WriteDoes, HeadSent DEF At
<1>3. ASSUME NEW s \in Server, Crash(s)
      PROVE  \A l \in Login : At(l, "accepted") => login'[l].pc = "accepted"
  BY <1>3, CrashDoes DEF At
<1>4. ASSUME UNCHANGED login \/ \E l \in Login : Moved(l) /\ ~At(l, "accepted")
      PROVE  \A l \in Login : At(l, "accepted") => login'[l].pc = "accepted"
  BY <1>4 DEF Moved, At
<1> QED
  BY <1>1, <1>2, <1>3, <1>4
  DEF Next, Status, Work, Stop, Disconnect, Search, SearchMiss, ReadCount, Boot, Signal, JoinIo,
      HDel, CloseRedis, StopWorker, Exit

(* What a step leaves of the room of server s.                             *)
LEMMA RoomGrows ==
  ASSUME TypeOK, Rooms, NEW s \in Server,
         \A l \in Login : At(l, "accepted") => login'[l].pc = "accepted",
         que'[s] \in Seq(Login \cup {"search"}),
         searches' \in 0..MaxSearches,
         Cardinality(Searches(que'[s])) <= searches',
         Cardinality(Searches(que'[s])) - Cardinality(Searches(que[s])) <= searches' - searches
  PROVE  /\ Room(s) \in Nat /\ Room(s)' \in Nat
         /\ Room(s) <= Room(s)' /\ Room(s)' <= INT_MAX - 1
         /\ \/ Cardinality(Searches(que'[s])) - Cardinality(Searches(que[s]))
                 <= searches' - searches - 1
            \/ \E l \in Login : ~At(l, "accepted") /\ login'[l].pc = "accepted"
            => Room(s) + 1 <= Room(s)'
<1>1. /\ que[s] \in Seq(Login \cup {"search"})
      /\ searches \in Nat /\ searches' \in Nat /\ searches' <= MaxSearches
  BY Numbers, SMTT(30) DEF TypeOK
<1>2. Cardinality(Searches(que[s])) \in Nat /\ Cardinality(Searches(que'[s])) \in Nat
  BY <1>1, SearchesFinite
<1>3. /\ Cardinality(Accepted) \in Nat /\ Cardinality(Accepted)' \in Nat
      /\ Cardinality(Accepted) <= Cardinality(Accepted)'
      /\ Cardinality(Accepted)' <= Cardinality(Login)
      /\ (\E l \in Login : ~At(l, "accepted") /\ login'[l].pc = "accepted")
           => Cardinality(Accepted) + 1 <= Cardinality(Accepted)'
  BY AcceptedGrows
<1>4. /\ Room(s) = Cardinality(Accepted) + searches - Cardinality(Searches(que[s]))
      /\ Room(s)' = Cardinality(Accepted)' + searches' - Cardinality(Searches(que'[s]))
  BY DEF Room
<1>5. Cardinality(Searches(que[s])) <= searches
  BY DEF Rooms
<1> DEFINE a == Cardinality(Accepted)
           p == Cardinality(Searches(que[s]))
           q == Cardinality(Searches(que'[s]))
<1>6. /\ a + searches - p \in Nat
      /\ a + searches - p <= a' + searches' - q
  BY <1>1, <1>2, <1>3, <1>5, SMTT(30)
<1>7. a' + searches' - q \in Nat
  BY <1>1, <1>2, <1>3
<1>8. a' + searches' - q <= INT_MAX - 1
  <2>0. Cardinality(Login) \in Nat /\ MaxSearches \in Nat
    BY Numbers
  <2>1. a' + searches' - q <= Cardinality(Login) + MaxSearches
    BY <1>1, <1>2, <1>3, <2>0
  <2>2. Cardinality(Login) + MaxSearches = INT_MAX - 1
    BY Numbers
  <2> QED BY <2>1, <2>2
<1>9. q - p <= searches' - searches - 1 => a + searches - p + 1 <= a' + searches' - q
  BY <1>1, <1>2, <1>3
<1>10. a + 1 <= a' => a + searches - p + 1 <= a' + searches' - q
  BY <1>1, <1>2, <1>3, SMTT(30)
<1> QED BY <1>3, <1>4, <1>6, <1>7, <1>8, <1>9, <1>10

(* The ways a server's queue changes, and the searches with it.            *)
LEMMA QueueSteps ==
  ASSUME TypeOK, Chosing, Next, NEW s \in Server
  PROVE  /\ searches' \in 0..MaxSearches /\ que' \in [Server -> Seq(Login \cup {"search"})]
         /\ \/ que'[s] = que[s] /\ searches <= searches'
            \/ \E l \in Login : que'[s] = Append(que[s], l) /\ searches' = searches
            \/ que'[s] = Append(que[s], "search") /\ searches' = searches + 1
            \/ que[s] # <<>> /\ que'[s] = Tail(que[s]) /\ searches' = searches
            \/ que'[s] = <<>> /\ searches' = searches
<1>0. /\ que \in [Server -> Seq(Login \cup {"search"})]
      /\ searches \in 0..MaxSearches /\ searches <= searches
  BY Numbers, SMTT(30) DEF TypeOK
<1> DEFINE Goal ==
      /\ searches' \in 0..MaxSearches /\ que' \in [Server -> Seq(Login \cup {"search"})]
      /\ \/ que'[s] = que[s] /\ searches <= searches'
         \/ \E l \in Login : que'[s] = Append(que[s], l) /\ searches' = searches
         \/ que'[s] = Append(que[s], "search") /\ searches' = searches + 1
         \/ que[s] # <<>> /\ que'[s] = Tail(que[s]) /\ searches' = searches
         \/ que'[s] = <<>> /\ searches' = searches
<1>1. ASSUME UNCHANGED <<que, searches>> PROVE Goal
  BY <1>0, <1>1, Numbers
<1>2. ASSUME NEW t \in Server, NEW l \in Login, que' = [que EXCEPT ![t] = Append(@, l)],
             UNCHANGED searches
      PROVE  Goal
  BY <1>0, <1>2, QueueGrows
<1>3. ASSUME NEW t \in Server, Search(t) PROVE Goal
  <2>1. /\ que' = [que EXCEPT ![t] = Append(@, "search")]
        /\ searches' = searches + 1 /\ searches' \in 0..MaxSearches
    BY <1>0, <1>3, Numbers DEF Search
  <2> QED BY <1>0, <2>1, QueueGrows
<1>4. ASSUME NEW t \in Server, que[t] # <<>>, que' = [que EXCEPT ![t] = Tail(@)],
             UNCHANGED searches
      PROVE  Goal
  BY <1>0, <1>4, QueueShrinks
<1>5. ASSUME NEW t \in Server, que' = [que EXCEPT ![t] = <<>>], UNCHANGED searches
      PROVE  Goal
  <2>1. <<>> \in Seq(Login \cup {"search"})
    OBVIOUS
  <2> QED BY <1>0, <1>5, <2>1
<1> HIDE DEF Goal
<1>6. ASSUME NEW l \in Login,
             \/ GetChatServer(l) \/ RPCFailed(l) \/ InsertToken(l) \/ Chosen(l) \/ Connect(l)
             \/ \E t \in Server : FirstServer(l, t) \/ NextServer(l, t) \/ Disconnect(l, t)
      PROVE  Goal
  BY <1>1, <1>2, <1>6, GateDoes, ChosenDoes, ConnectDoes, FirstDoes, NextDoes
  DEF Disconnect, worker
<1>7. ASSUME NEW t \in Server, LoginCheck(t) \/ WriteCount(t) \/ SearchMiss(t) \/ ReadCount(t)
      PROVE  Goal
  BY <1>1, <1>4, <1>7, CheckDoes, WriteDoes DEF SearchMiss, ReadCount
<1>8. ASSUME NEW t \in Server,
             \/ Boot(t) \/ Signal(t) \/ JoinIo(t) \/ HDel(t) \/ CloseRedis(t) \/ StopWorker(t) \/ Exit(t)
             \/ Crash(t)
      PROVE  Goal
  BY <1>1, <1>5, <1>8 DEF Boot, Signal, JoinIo, HDel, CloseRedis, StopWorker, Exit, Crash, worker
<1>9. Goal
  BY <1>3, <1>6, <1>7, <1>8 DEF Next, Status, Work, Stop
<1> QED BY <1>9 DEF Goal

(* The rooms of all servers grow, and that of a server which writes its    *)
(* count by one at least.                                                  *)
LEMMA RoomsGrow ==
  ASSUME TypeOK, Queued, Chosing, Rooms, Next, NEW s \in Server
  PROVE  /\ Cardinality(Searches(que'[s])) <= searches'
         /\ Room(s) \in Nat /\ Room(s)' \in Nat
         /\ Room(s) <= Room(s)' /\ Room(s)' <= INT_MAX - 1
         /\ WriteCount(s) => Room(s) + 1 <= Room(s)'
<1> DEFINE P == Cardinality(Searches(que[s]))
           Q == Cardinality(Searches(que'[s]))
<1>1. /\ que[s] \in Seq(Login \cup {"search"}) /\ que'[s] \in Seq(Login \cup {"search"})
      /\ searches \in 0..MaxSearches /\ searches' \in 0..MaxSearches
  BY QueueSteps DEF TypeOK
<1>2. P \in Nat /\ Q \in Nat /\ P <= searches
  BY <1>1, SearchesFinite DEF Rooms
<1>3. Q - P <= searches' - searches
  <2>1. CASE que'[s] = que[s] /\ searches <= searches'
    BY <1>1, <1>2, <2>1
  <2>2. ASSUME NEW l \in Login, que'[s] = Append(que[s], l), searches' = searches
        PROVE  Q - P <= searches' - searches
    <3>1. l # "search"
      BY LoginAssumption
    <3> QED BY <1>1, <1>2, <2>2, <3>1, SearchesAppend
  <2>3. CASE que'[s] = Append(que[s], "search") /\ searches' = searches + 1
    <3>1. Q <= P + 1
      BY <1>1, <2>3, SearchesAppend
    <3> HIDE DEF P, Q
    <3> QED BY <1>1, <1>2, <2>3, <3>1
  <2>4. CASE que[s] # <<>> /\ que'[s] = Tail(que[s]) /\ searches' = searches
    <3>1. Q <= P
      BY <1>1, <2>4, SearchesTail
    <3> HIDE DEF P, Q
    <3> QED BY <1>1, <1>2, <2>4, <3>1
  <2>5. CASE que'[s] = <<>> /\ searches' = searches
    <3>1. Q = 0
      <4>1. Searches(<<>>) = {}
        BY DEF Searches
      <4> QED BY <2>5, <4>1, FS_EmptySet
    <3> HIDE DEF P, Q
    <3> QED BY <1>1, <1>2, <2>5, <3>1
  <2> QED BY <2>1, <2>2, <2>3, <2>4, <2>5, QueueSteps
<1>4. Q <= searches'
  <2>1. searches \in Nat /\ searches' \in Nat
    BY <1>1, Numbers
  <2> QED BY <1>2, <1>3, <2>1
<1>5. \A l \in Login : At(l, "accepted") => login'[l].pc = "accepted"
  BY AcceptedStay
<1>6. WriteCount(s) =>
        \/ Q - P <= searches' - searches - 1
        \/ \E l \in Login : ~At(l, "accepted") /\ login'[l].pc = "accepted"
  <2> SUFFICES ASSUME WriteCount(s), Head(que[s]) \notin Login
               PROVE  Q - P <= searches' - searches - 1
    BY WriteDoes, HeadSent DEF At
  <2>1. /\ que[s] # <<>> /\ que' = [que EXCEPT ![s] = Tail(@)] /\ searches' = searches
    BY WriteDoes
  <2>2. que'[s] = Tail(que[s]) /\ Head(que[s]) = "search"
    BY <2>1, QueueShrinks
  <2>3. Q <= P - 1
    BY <1>1, <2>1, <2>2, SearchesTail
  <2> HIDE DEF P, Q
  <2> QED BY <1>1, <1>2, <2>1, <2>3
<1> QED BY <1>1, <1>3, <1>4, <1>5, <1>6, RoomGrows

(* The ways the counts of a server change: only the end of WriteCount      *)
(* makes one greater.                                                      *)
LEMMA CountSteps ==
  ASSUME TypeOK, Chosing, Next, NEW s \in Server
  PROVE  /\ \/ wk'[s].n \in {wk[s].n, 0}
            \/ count[s] # None /\ wk'[s].n = count[s]
         /\ \/ count'[s] \in {count[s], None, 0}
            \/ WriteCount(s) /\ count'[s] = wk[s].n + 1
         /\ \/ written'[s] \in {written[s], None, 0}
            \/ WriteCount(s) /\ written[s] # None /\ written'[s] = written[s] + 1
<1> DEFINE Goal ==
      /\ \/ wk'[s].n \in {wk[s].n, 0}
         \/ count[s] # None /\ wk'[s].n = count[s]
      /\ \/ count'[s] \in {count[s], None, 0}
         \/ WriteCount(s) /\ count'[s] = wk[s].n + 1
      /\ \/ written'[s] \in {written[s], None, 0}
         \/ WriteCount(s) /\ written[s] # None /\ written'[s] = written[s] + 1
<1>0. /\ wk \in [Server -> [pc : {"idle", "count", "write", "asleep"}, n : 0..(INT_MAX - 1)]]
      /\ written \in [Server -> 0..(INT_MAX - 1) \cup {None}]
      /\ count \in [Server -> 0..(INT_MAX - 1) \cup {None}]
  BY DEF TypeOK
<1>1. ASSUME UNCHANGED <<wk, count, written>> PROVE Goal
  BY <1>1
<1>2. ASSUME NEW l \in Login,
             \/ GetChatServer(l) \/ RPCFailed(l) \/ InsertToken(l) \/ Chosen(l) \/ Connect(l)
             \/ \E t \in Server : FirstServer(l, t) \/ NextServer(l, t) \/ Disconnect(l, t)
      PROVE  Goal
  <2>1. UNCHANGED <<wk, count, written>>
    BY <1>2, GateDoes, ChosenDoes, ConnectDoes, FirstDoes, NextDoes DEF Disconnect, worker
  <2> QED BY <1>1, <2>1
<1>3. ASSUME NEW t \in Server, LoginCheck(t) \/ SearchMiss(t) PROVE Goal
  <2>1. UNCHANGED <<count, written>>
    BY <1>3, CheckDoes DEF SearchMiss
  <2>2. UNCHANGED wk \/ (wk[t].pc = "idle" /\ wk' = [wk EXCEPT ![t].pc = "count"])
    BY <1>3, CheckDoes DEF SearchMiss, Works
  <2>3. wk'[s].n = wk[s].n
    BY <1>0, <2>2
  <2> QED BY <2>1, <2>3
<1>4. ASSUME NEW t \in Server, ReadCount(t) PROVE Goal
  <2>1. PICK k \in 0..(INT_MAX - 1) :
          /\ wk' = [wk EXCEPT ![t] = [pc |-> "write", n |-> k]]
          /\ k = 0 \/ (count[t] # None /\ k = count[t])
          /\ UNCHANGED written \/ written' = [written EXCEPT ![t] = None]
    BY <1>4, ReadDoes
  <2>2. UNCHANGED count
    BY <1>4, ReadDoes
  <2>3. wk'[s] = wk[s] \/ (s = t /\ wk'[s].n = k)
    BY <1>0, <2>1
  <2>4. written'[s] \in {written[s], None}
    BY <1>0, <2>1
  <2> QED BY <2>1, <2>2, <2>3, <2>4
<1>5. ASSUME NEW t \in Server, WriteCount(t) PROVE Goal
  <2>0. wk' = [wk EXCEPT ![t] = [pc |-> "idle", n |-> 0]]
    BY <1>5, WriteDoes
  <2>1. wk'[s].n \in {wk[s].n, 0}
    BY <1>0, <2>0
  <2>2. CASE /\ SetCount(t, wk[t].n + 1)
             /\ written' = [written EXCEPT ![t] = IF @ = None THEN None ELSE @ + 1]
    <3>1. count'[t] = wk[t].n + 1 /\ \A r \in Server \ {t} : count'[r] = count[r]
      BY <2>2, SetDoes
    <3>2. \/ written'[s] \in {written[s], None}
          \/ s = t /\ written[s] # None /\ written'[s] = written[s] + 1
      BY <1>0, <2>2
    <3> QED BY <1>5, <2>1, <3>1, <3>2
  <2>3. CASE written' = [written EXCEPT ![t] = None] /\ UNCHANGED count
    BY <1>0, <2>1, <2>3
  <2> QED BY <1>5, <2>2, <2>3, WriteDoes
<1>6. ASSUME NEW t \in Server,
             \/ Search(t) \/ Boot(t) \/ Signal(t) \/ JoinIo(t) \/ HDel(t)
             \/ StopWorker(t) \/ Exit(t) \/ Crash(t)
      PROVE  Goal
  <2>0. UNCHANGED wk \/ wk' = [wk EXCEPT ![t] = [pc |-> "idle", n |-> 0]]
    BY <1>6 DEF Search, Boot, Signal, JoinIo, HDel, StopWorker, Exit, Crash, worker
  <2>1. wk'[s].n \in {wk[s].n, 0}
    BY <1>0, <2>0
  <2>2. count'[s] \in {count[s], None, 0}
    BY <1>0, <1>6, SetDoes
    DEF Search, Boot, Signal, JoinIo, HDel, StopWorker, Exit, Crash
  <2>3. written'[s] \in {written[s], None, 0}
    BY <1>0, <1>6 DEF Search, Boot, Signal, JoinIo, HDel, StopWorker, Exit, Crash, worker, Spoilt
  <2> QED BY <2>1, <2>2, <2>3
<1>7. ASSUME NEW t \in Server, CloseRedis(t) PROVE Goal
  <2>1. UNCHANGED <<count, written>> /\ wk'[s].n = wk[s].n
    BY <1>7, CloseDoes
  <2> QED BY <2>1
<1> HIDE DEF Goal
<1>8. Goal
  BY <1>2, <1>3, <1>4, <1>5, <1>6, <1>7 DEF Next, Status, Work, Stop
<1> QED BY <1>8 DEF Goal

(* No count is ever more than its server has increments for.               *)
LEMMA RoomsStep ==
  ASSUME TypeOK, Queued, Chosing, Rooms, Next
  PROVE  Rooms'
<1> SUFFICES ASSUME NEW s \in Server
             PROVE  /\ Cardinality(Searches(que'[s])) <= searches'
                    /\ wk'[s].n <= Room(s)'
                    /\ count'[s] # None => count'[s] <= Room(s)'
                    /\ written'[s] # None => written'[s] <= Room(s)'
  BY DEF Rooms
<1>1. /\ Cardinality(Searches(que'[s])) <= searches'
      /\ Room(s) \in Nat /\ Room(s)' \in Nat /\ Room(s) <= Room(s)'
      /\ WriteCount(s) => Room(s) + 1 <= Room(s)'
  BY RoomsGrow
<1>2. /\ wk[s].n \in Nat /\ wk[s].n <= Room(s)
      /\ count[s] # None => count[s] \in Nat /\ count[s] <= Room(s)
      /\ written[s] # None => written[s] \in Nat /\ written[s] <= Room(s)
  BY Numbers DEF TypeOK, Rooms
<1>3. wk'[s].n <= Room(s)'
  BY <1>1, <1>2, CountSteps
<1>4. ASSUME count'[s] # None PROVE count'[s] <= Room(s)'
  BY <1>1, <1>2, <1>4, CountSteps
<1>5. ASSUME written'[s] # None PROVE written'[s] <= Room(s)'
  BY <1>1, <1>2, <1>5, CountSteps
<1> QED BY <1>1, <1>3, <1>4, <1>5

-----------------------------------------------------------------------------
(* A running server's count is what it has written: only its own worker    *)
(* writes it, from what it has read.                                       *)
LEMMA CountedStays ==
  ASSUME Counted, UNCHANGED <<phase, count, written>>,
         \A s \in Server : wk'[s].pc = "write" => wk'[s] = wk[s]
  PROVE  Counted'
  BY DEF Counted

(* ... and a step that changes one server needs to keep it only there.     *)
LEMMA CountedOfOne ==
  ASSUME Counted, NEW s \in Server,
         \A t \in Server \ {s} : /\ phase'[t] = phase[t] /\ count'[t] = count[t]
                                 /\ written'[t] = written[t] /\ wk'[t] = wk[t],
         phase'[s] = "up" /\ written'[s] # None
           => count'[s] = written'[s] /\ (wk'[s].pc = "write" => wk'[s].n = count'[s])
  PROVE  Counted'
  BY DEF Counted

(* Every step keeps the counts of the servers that are up.                 *)
LEMMA CountedStep == ASSUME TypeOK, Queued, Chosing, Counted, Next PROVE Counted'
<1>0. /\ wk \in [Server -> [pc : {"idle", "count", "write", "asleep"}, n : 0..(INT_MAX - 1)]]
      /\ written \in [Server -> 0..(INT_MAX - 1) \cup {None}]
      /\ count \in [Server -> 0..(INT_MAX - 1) \cup {None}]
      /\ phase \in [Server -> {"down", "up", "join", "delete", "close", "drain", "exit", "hung"}]
  BY DEF TypeOK
<1>1. ASSUME NEW l \in Login,
             \/ GetChatServer(l) \/ RPCFailed(l) \/ InsertToken(l) \/ Chosen(l) \/ Connect(l)
             \/ \E t \in Server : FirstServer(l, t) \/ NextServer(l, t) \/ Disconnect(l, t)
      PROVE  Counted'
  <2>1. UNCHANGED <<wk, phase, count, written>>
    BY <1>1, GateDoes, ChosenDoes, ConnectDoes, FirstDoes, NextDoes DEF Disconnect, worker
  <2> QED BY <2>1, CountedStays
<1>2. ASSUME NEW s \in Server, Search(s) \/ LoginCheck(s) \/ SearchMiss(s) PROVE Counted'
  <2>1. UNCHANGED <<phase, count, written>>
    BY <1>2, CheckDoes DEF Search, SearchMiss, server
  <2>2. UNCHANGED wk \/ (wk[s].pc = "idle" /\ wk' = [wk EXCEPT ![s].pc = "count"])
    BY <1>2, CheckDoes DEF Search, SearchMiss, Works
  <2>3. \A t \in Server : wk'[t].pc = "write" => wk'[t] = wk[t]
    BY <1>0, <2>2
  <2> QED BY <2>1, <2>3, CountedStays
<1>3. ASSUME NEW s \in Server, ReadCount(s) PROVE Counted'
  <2>1. PICK k \in 0..(INT_MAX - 1) :
          /\ wk' = [wk EXCEPT ![s] = [pc |-> "write", n |-> k]]
          /\ \/ UNCHANGED written /\ (count[s] # None => k = count[s])
             \/ written' = [written EXCEPT ![s] = None]
    BY <1>3, ReadDoes
  <2>2. UNCHANGED <<phase, count>>
    BY <1>3, ReadDoes
  <2>3. wk'[s].n = k /\ \A t \in Server \ {s} : wk'[t] = wk[t] /\ written'[t] = written[t]
    BY <1>0, <2>1
  <2>4. ASSUME phase'[s] = "up", written'[s] # None
        PROVE  count'[s] = written'[s] /\ wk'[s].n = count'[s]
    <3>1. UNCHANGED written /\ (count[s] # None => k = count[s])
      BY <1>0, <2>1, <2>4
    <3>2. count[s] = written[s]
      BY <2>2, <2>4, <3>1 DEF Counted
    <3> QED BY <2>2, <2>3, <2>4, <3>1, <3>2
  <2> QED BY <2>2, <2>3, <2>4, CountedOfOne
<1>4. ASSUME NEW s \in Server, WriteCount(s) PROVE Counted'
  <2>1. /\ wk[s].pc = "write" /\ UNCHANGED phase
        /\ wk' = [wk EXCEPT ![s] = [pc |-> "idle", n |-> 0]]
    BY <1>4, WriteDoes
  <2>2. wk'[s].pc = "idle" /\ \A t \in Server \ {s} : wk'[t] = wk[t]
    BY <1>0, <2>1
  <2>3. CASE /\ SetCount(s, wk[s].n + 1)
             /\ written' = [written EXCEPT ![s] = IF @ = None THEN None ELSE @ + 1]
    <3>1. count'[s] = wk[s].n + 1 /\ \A t \in Server \ {s} : count'[t] = count[t]
      BY <2>3, SetDoes
    <3>2. /\ written'[s] # None => written[s] # None /\ written'[s] = written[s] + 1
          /\ \A t \in Server \ {s} : written'[t] = written[t]
      BY <1>0, <2>3
    <3>3. ASSUME phase'[s] = "up", written'[s] # None PROVE count'[s] = written'[s]
      BY <2>1, <3>1, <3>2, <3>3 DEF Counted
    <3> QED BY <2>1, <2>2, <3>1, <3>2, <3>3, CountedOfOne
  <2>4. CASE written' = [written EXCEPT ![s] = None] /\ UNCHANGED count
    <3>1. written'[s] = None /\ \A t \in Server \ {s} : written'[t] = written[t]
      BY <1>0, <2>4
    <3> QED BY <2>1, <2>2, <2>4, <3>1, CountedOfOne
  <2> QED BY <1>4, <2>3, <2>4, WriteDoes
<1>5. ASSUME NEW s \in Server, Boot(s) PROVE Counted'
  <2>1. /\ phase[s] = "down" /\ UNCHANGED wk
        /\ \A t \in Server \ {s} : phase'[t] = phase[t]
    BY <1>0, <1>5 DEF Boot
  <2>2. wk[s].pc = "idle"
    BY <2>1 DEF Queued
  <2>3. /\ written'[s] # None => count'[s] = written'[s]
        /\ \A t \in Server \ {s} : written'[t] = written[t] /\ count'[t] = count[t]
    BY <1>0, <1>5, SetDoes DEF Boot, Spoilt
  <2> QED BY <2>1, <2>2, <2>3, CountedOfOne
<1>6. ASSUME NEW s \in Server, Signal(s) \/ JoinIo(s) \/ StopWorker(s) \/ Exit(s) PROVE Counted'
  <2>1. /\ UNCHANGED <<wk, count, written>> /\ phase'[s] # "up"
        /\ \A t \in Server \ {s} : phase'[t] = phase[t]
    BY <1>0, <1>6 DEF Signal, JoinIo, StopWorker, Exit, Enter, worker
  <2> QED BY <2>1, CountedOfOne
<1>7. ASSUME NEW s \in Server, HDel(s) PROVE Counted'
  <2>1. /\ UNCHANGED wk /\ phase'[s] # "up"
        /\ \A t \in Server \ {s} : phase'[t] = phase[t] /\ written'[t] = written[t]
    BY <1>0, <1>7 DEF HDel, Enter, Spoilt
  <2>2. \A t \in Server \ {s} : count'[t] = count[t]
    BY <1>7, SetDoes DEF HDel
  <2> QED BY <2>1, <2>2, CountedOfOne
<1>8. ASSUME NEW s \in Server, Crash(s) PROVE Counted'
  <2>1. /\ UNCHANGED count /\ phase'[s] # "up"
        /\ \A t \in Server \ {s} :
             phase'[t] = phase[t] /\ written'[t] = written[t] /\ wk'[t] = wk[t]
    BY <1>0, <1>8, CrashDoes
  <2> QED BY <2>1, CountedOfOne
<1>9. ASSUME NEW s \in Server, CloseRedis(s) PROVE Counted'
  <2>1. /\ UNCHANGED <<count, written>> /\ phase'[s] # "up"
        /\ \A t \in Server \ {s} : phase'[t] = phase[t] /\ wk'[t] = wk[t]
    BY <1>0, <1>9, CloseDoes
  <2> QED BY <2>1, CountedOfOne
<1> QED BY <1>1, <1>2, <1>3, <1>4, <1>5, <1>6, <1>7, <1>8, <1>9 DEF Next, Status, Work, Stop

-----------------------------------------------------------------------------
(* The choice.  While the counts only grow and no login starts to be       *)
(* served, what has been read stays below what is there.                   *)
LEMMA ReadingStays ==
  ASSUME TypeOK, Chosing, Reading,
         begin' # None =>
           /\ begin' = begin
           /\ \A s \in Server : Num(count[s]) <= Num(count'[s])
           /\ \A s \in Server : Num(count'[s]) \in Int,
         \A l \in Login : login'[l].pc = "read" => login'[l] = login[l]
  PROVE  Reading'
<1> SUFFICES ASSUME begin' # None PROVE Reading'
  BY DEF Reading
<1>1. begin' = begin /\ begin # None
  OBVIOUS
<1>2. \A s \in Server : /\ Num(count[s]) <= Num(count'[s])
                        /\ Num(count[s]) \in Int /\ Num(count'[s]) \in Int
                        /\ Num(begin[s]) \in Int
  <2>1. \A s \in Server : Num(count[s]) \in Int
    BY NumIs, Numbers
  <2>2. begin \in [Server -> 0..(INT_MAX - 1) \cup {None}]
    BY <1>1 DEF TypeOK
  <2>3. \A s \in Server : Num(begin[s]) \in Int
    BY <2>2, Numbers DEF Num
  <2> QED BY <2>1, <2>3
<1>3. \A s \in Server : Num(begin'[s]) <= Num(count'[s])
  BY <1>1, <1>2 DEF Reading
<1>4. ASSUME NEW l \in Login, login'[l].pc = "read"
      PROVE  /\ Num(begin'[login'[l].best]) <= login'[l].num
             /\ \A s \in Server \ login'[l].todo : login'[l].num <= Num(count'[s])
  <2>1. login'[l] = login[l] /\ At(l, "read") /\ login[l].num \in Int
    BY <1>4, Numbers DEF TypeOK, At
  <2>2. /\ Num(begin[login[l].best]) <= login[l].num
        /\ \A s \in Server \ login[l].todo : login[l].num <= Num(count[s])
    BY <1>1, <2>1 DEF Reading
  <2>3. \A s \in Server \ login[l].todo : login[l].num <= Num(count'[s])
    BY <1>2, <2>1, <2>2
  <2> QED BY <1>1, <2>1, <2>2, <2>3
<1> QED BY <1>3, <1>4 DEF Reading, At, Num

(* Every step keeps what the choice knows of the counts.                   *)
LEMMA ReadingStep ==
  ASSUME TypeOK, Queued, Chosing, Reading, Next,
         count' \in [Server -> 0..(INT_MAX - 1) \cup {None}]
  PROVE  Reading'
<1>0. \A s \in Server : Num(count[s]) \in Int /\ Num(count'[s]) \in Int
  BY Numbers, NumIs DEF Num
<1>1. ASSUME NEW l \in Login, NEW s \in Server, FirstServer(l, s) PROVE Reading'
  <2> SUFFICES ASSUME begin' # None PROVE Reading'
    BY DEF Reading
  <2>1. /\ Moved(l) /\ mtx = None /\ UNCHANGED count
        /\ login'[l].todo = Server \ {s} /\ login'[l].best = s
        /\ begin' = count /\ login'[l].num = Num(count[s])
    BY <1>1, FirstDoes
  <2>2. \A m \in Login : login'[m].pc = "read" => m = l
    BY <2>1, NoneAssumption DEF Moved, Chosing, At
  <2>3. /\ \A t \in Server : Num(begin'[t]) <= Num(count'[t])
        /\ Num(begin'[s]) <= Num(count[s]) /\ Num(count[s]) <= Num(count'[s])
    BY <1>0, <2>1
  <2> QED BY <2>1, <2>2, <2>3 DEF Reading, At, Num
<1>2. ASSUME NEW l \in Login, NEW s \in Server, NextServer(l, s) PROVE Reading'
  <2> SUFFICES ASSUME begin' # None PROVE Reading'
    BY DEF Reading
  <2>1. /\ Moved(l) /\ At(l, "read") /\ UNCHANGED count /\ begin' = begin
        /\ login'[l].todo = login[l].todo \ {s}
        /\ \/ /\ Num(count[s]) < login[l].num
              /\ login'[l].best = s /\ login'[l].num = Num(count[s])
           \/ /\ login[l].num <= Num(count[s])
              /\ login'[l].best = login[l].best /\ login'[l].num = login[l].num
    BY <1>2, NextDoes
  <2>2. \A m \in Login : login'[m].pc = "read" => m = l
    BY <2>1 DEF Moved, Chosing, At
  <2>3. /\ \A t \in Server : Num(begin[t]) <= Num(count[t])
        /\ Num(begin[login[l].best]) <= login[l].num
        /\ \A t \in Server \ login[l].todo : login[l].num <= Num(count[t])
        /\ login[l].num \in Int
    BY <2>1, Numbers DEF Reading, TypeOK
  <2>4. Num(begin[login'[l].best]) <= login'[l].num
    BY <2>1, <2>3
  <2>5. \A t \in Server \ login'[l].todo : login'[l].num <= Num(count[t])
    BY <1>0, <2>1, <2>3
  <2> QED BY <2>1, <2>2, <2>3, <2>4, <2>5 DEF Reading, At, Num
<1>3. ASSUME NEW l \in Login, Chosen(l) PROVE Reading'
  BY <1>3, ChosenDoes DEF Reading
<1>4. ASSUME UNCHANGED <<begin, count>>,
             \A l \in Login : login'[l].pc = "read" => login'[l] = login[l]
      PROVE  Reading'
  <2>1. \A s \in Server : Num(count[s]) <= Num(count'[s])
    BY <1>0, <1>4
  <2> QED BY <1>0, <1>4, <2>1, ReadingStays
<1>5. ASSUME NEW s \in Server, NEW n \in 0..(INT_MAX - 1) \cup {None}, SetCount(s, n),
             \A l \in Login : login'[l].pc = "read" => login'[l] = login[l]
      PROVE  Reading'
  <2>1. /\ count'[s] = n /\ \A t \in Server \ {s} : count'[t] = count[t]
        /\ begin' # None => begin' = begin /\ Num(count[s]) <= Num(n)
    BY <1>5, SetDoes
  <2>2. begin' # None => \A t \in Server : Num(count[t]) <= Num(count'[t])
    BY <1>0, <2>1
  <2> QED BY <1>0, <1>5, <2>1, <2>2, ReadingStays
<1>6. ASSUME NEW l \in Login,
             \/ GetChatServer(l) \/ RPCFailed(l) \/ InsertToken(l) \/ Connect(l)
             \/ \E t \in Server : Disconnect(l, t)
      PROVE  Reading'
  <2>1. UNCHANGED <<begin, count>>
    BY <1>6, GateDoes, ConnectDoes DEF Disconnect, choice
  <2>2. UNCHANGED login \/ (Moved(l) /\ login'[l].pc # "read")
    BY <1>6, GateDoes, ConnectDoes DEF Disconnect
  <2> QED BY <1>4, <2>1, <2>2 DEF Moved
<1>7. ASSUME NEW s \in Server, LoginCheck(s) \/ SearchMiss(s) \/ ReadCount(s) PROVE Reading'
  <2>1. UNCHANGED <<begin, count>>
    BY <1>7, CheckDoes, ReadDoes DEF SearchMiss, choice
  <2>2. UNCHANGED login \/ \E l \in Login : Moved(l) /\ login'[l].pc # "read"
    BY <1>7, CheckDoes, ReadDoes DEF SearchMiss
  <2> QED BY <1>4, <2>1, <2>2 DEF Moved
<1>8. ASSUME NEW s \in Server, WriteCount(s) PROVE Reading'
  <2>1. UNCHANGED login \/ \E l \in Login : Moved(l) /\ login'[l].pc # "read"
    BY <1>8, WriteDoes
  <2>2. \A l \in Login : login'[l].pc = "read" => login'[l] = login[l]
    BY <2>1 DEF Moved
  <2>3. CASE SetCount(s, wk[s].n + 1)
    <3>1. wk[s].n + 1 \in 0..(INT_MAX - 1) \cup {None}
      BY <2>3, SetDoes
    <3> QED BY <1>5, <2>2, <2>3, <3>1
  <2> QED BY <1>4, <1>8, <2>2, <2>3, WriteDoes
<1>9. ASSUME NEW s \in Server, Boot(s) \/ HDel(s) PROVE Reading'
  <2>1. UNCHANGED login
    BY <1>9 DEF Boot, HDel
  <2>2. SetCount(s, 0) \/ SetCount(s, None) \/ UNCHANGED <<count, begin>>
    BY <1>9 DEF Boot, HDel
  <2>3. 0 \in 0..(INT_MAX - 1) \cup {None}
    BY Numbers
  <2> QED BY <1>4, <1>5, <2>1, <2>2, <2>3
<1>10. ASSUME NEW s \in Server,
              Search(s) \/ Signal(s) \/ JoinIo(s) \/ CloseRedis(s) \/ StopWorker(s) \/ Exit(s) \/ Crash(s)
       PROVE  Reading'
  <2>1. UNCHANGED <<begin, count>>
    BY <1>10 DEF Search, Signal, JoinIo, CloseRedis, StopWorker, Exit, Crash, choice
  <2>2. \A l \in Login : login'[l].pc = "read" => login'[l] = login[l]
    BY <1>10, CrashDoes DEF Search, Signal, JoinIo, CloseRedis, StopWorker, Exit
  <2> QED BY <1>4, <2>1, <2>2
<1> QED
  BY <1>1, <1>2, <1>3, <1>6, <1>7, <1>8, <1>9, <1>10 DEF Next, Status, Work, Stop

-----------------------------------------------------------------------------
(* The types.  Those of the counts need room for one more.                 *)
LEMMA CountTypes ==
  ASSUME TypeOK, Queued, Chosing, Rooms, Next
  PROVE  /\ wk' \in [Server -> [pc : {"idle", "count", "write", "asleep"}, n : 0..(INT_MAX - 1)]]
         /\ count' \in [Server -> 0..(INT_MAX - 1) \cup {None}]
         /\ written' \in [Server -> 0..(INT_MAX - 1) \cup {None}]
         /\ begin' \in [Server -> 0..(INT_MAX - 1) \cup {None}] \cup {None}
<1> DEFINE Numbered(f) == f \in [Server -> 0..(INT_MAX - 1) \cup {None}]
           Working(f) == f \in [Server -> [pc : {"idle", "count", "write", "asleep"}, n : 0..(INT_MAX - 1)]]
           Goal == Working(wk') /\ Numbered(count') /\ Numbered(written')
                   /\ (begin' = None \/ Numbered(begin'))
<1>0. /\ Working(wk) /\ Numbered(count) /\ Numbered(written)
      /\ begin = None \/ Numbered(begin)
  BY DEF TypeOK
<1>1. 0 \in 0..(INT_MAX - 1)
  BY Numbers
<1>2. \A f, s : Numbered(f) /\ s \in Server =>
        \A n \in 0..(INT_MAX - 1) \cup {None} : Numbered([f EXCEPT ![s] = n])
  OBVIOUS
<1>3. \A s \in Server, n \in 0..(INT_MAX - 1) :
        /\ Working([wk EXCEPT ![s] = [pc |-> "write", n |-> n]])
        /\ Working([wk EXCEPT ![s] = [pc |-> "idle", n |-> n]])
  BY <1>0
<1>4. ASSUME UNCHANGED <<wk, count, written>>, begin' \in {begin, None, count} PROVE Goal
  BY <1>0, <1>4
<1>5. ASSUME NEW l \in Login,
             \/ GetChatServer(l) \/ RPCFailed(l) \/ InsertToken(l) \/ Chosen(l) \/ Connect(l)
             \/ \E t \in Server : FirstServer(l, t) \/ NextServer(l, t) \/ Disconnect(l, t)
      PROVE  Goal
  <2>1. UNCHANGED <<wk, count, written>>
    BY <1>5, GateDoes, ChosenDoes, ConnectDoes, FirstDoes, NextDoes DEF Disconnect, worker
  <2>2. begin' \in {begin, None, count}
    BY <1>5, GateDoes, ChosenDoes, ConnectDoes, FirstDoes, NextDoes DEF Disconnect, choice
  <2> QED BY <1>4, <2>1, <2>2
<1>6. ASSUME NEW s \in Server, Search(s) \/ LoginCheck(s) \/ SearchMiss(s) PROVE Goal
  <2>1. UNCHANGED <<count, written, begin>>
    BY <1>6, CheckDoes DEF Search, SearchMiss, choice
  <2>2. UNCHANGED wk \/ (wk[s].pc = "idle" /\ wk' = [wk EXCEPT ![s].pc = "count"])
    BY <1>6, CheckDoes DEF Search, SearchMiss, Works
  <2>3. Working(wk')
    BY <1>0, <2>2, TakeDoes
  <2> HIDE DEF Working
  <2> QED BY <1>0, <2>1, <2>3
<1>7. ASSUME NEW s \in Server, ReadCount(s) PROVE Goal
  <2>1. Working(wk')
    BY <1>3, <1>7, ReadDoes
  <2>2. Numbered(written')
    BY <1>0, <1>2, <1>7, ReadDoes
  <2> HIDE DEF Working
  <2> QED BY <1>0, <1>7, <2>1, <2>2, ReadDoes
<1>8. ASSUME NEW s \in Server, WriteCount(s) PROVE Goal
  <2>1. /\ Room(s)' <= INT_MAX - 1 /\ Room(s) + 1 <= Room(s)'
        /\ Room(s) \in Nat /\ Room(s)' \in Nat
    BY <1>8, RoomsGrow
  <2>2. wk[s].n \in Nat /\ wk[s].n <= Room(s)
    BY <1>0, Numbers DEF Rooms
  <2>3. INT_MAX - 1 \in Nat
    BY Numbers
  <2>4. wk[s].n + 1 \in 0..(INT_MAX - 1)
    <3> HIDE DEF INT_MAX
    <3> QED BY <2>1, <2>2, <2>3
  <2>5. written[s] # None => written[s] + 1 \in 0..(INT_MAX - 1)
    <3>1. written[s] # None => written[s] \in Nat /\ written[s] <= Room(s)
      BY <1>0, Numbers DEF Rooms
    <3> QED BY <2>1, <2>3, <3>1
  <2>6. Working(wk')
    BY <1>1, <1>3, <1>8, WriteDoes
  <2>7. \/ /\ SetCount(s, wk[s].n + 1)
           /\ written' = [written EXCEPT ![s] = IF @ = None THEN None ELSE @ + 1]
        \/ written' = [written EXCEPT ![s] = None] /\ UNCHANGED <<count, begin>>
    BY <1>8, WriteDoes
  <2>8. Numbered(written')
    BY <1>0, <1>2, <2>5, <2>7
  <2>9. Numbered(count') /\ begin' \in {begin, None}
    BY <1>0, <2>4, <2>7, SetDoes
  <2> HIDE DEF Working
  <2> QED BY <1>0, <2>6, <2>8, <2>9
<1>9. ASSUME NEW s \in Server, Boot(s) \/ HDel(s) PROVE Goal
  <2>1. UNCHANGED wk /\ (SetCount(s, 0) \/ SetCount(s, None) \/ UNCHANGED <<count, begin>>)
    BY <1>9 DEF Boot, HDel
  <2>2. \/ written' = [written EXCEPT ![s] = 0]
        \/ written' = [written EXCEPT ![s] = None]
    BY <1>9 DEF Boot, HDel, Spoilt
  <2>3. Numbered(written')
    BY <1>0, <1>1, <1>2, <2>2
  <2>4. Numbered(count') /\ begin' \in {begin, None}
    BY <1>0, <1>1, <2>1, SetDoes
  <2> HIDE DEF Working
  <2> QED BY <1>0, <2>1, <2>3, <2>4
<1>10. ASSUME NEW s \in Server,
              Signal(s) \/ JoinIo(s) \/ StopWorker(s) \/ Exit(s)
       PROVE  Goal
  BY <1>4, <1>10 DEF Signal, JoinIo, StopWorker, Exit, choice, worker
<1>11. ASSUME NEW s \in Server, Crash(s) PROVE Goal
  <2>1. Working(wk')
    BY <1>1, <1>3, <1>11, CrashDoes
  <2>2. Numbered(written')
    BY <1>0, <1>2, <1>11, CrashDoes
  <2> HIDE DEF Working
  <2> QED BY <1>0, <1>11, <2>1, <2>2, CrashDoes
<1>12. ASSUME NEW s \in Server, CloseRedis(s) PROVE Goal
  <2>1. Working(wk') /\ UNCHANGED <<count, begin, written>>
    BY <1>12, CloseDoes
  <2> HIDE DEF Working
  <2> QED BY <1>0, <2>1
<1> HIDE DEF Goal
<1>13. Goal
  BY <1>5, <1>6, <1>7, <1>8, <1>9, <1>10, <1>11, <1>12 DEF Next, Status, Work, Stop
<1> QED BY <1>13 DEF Goal

(* The other types, step by step.                                          *)
LEMMA LoginTypes ==
  ASSUME TypeOK, Queued, Chosing, Next
  PROVE  /\ login' \in [Login -> LoginState]
         /\ mtx' \in {l \in Login : login'[l].pc = "read"} \cup {None}
         /\ token' \in [Uid -> Login \cup {None}]
         /\ fails' \in 0..MaxFails /\ excused' \subseteq Login
<1> DEFINE Goal ==
      /\ login' \in [Login -> LoginState]
      /\ mtx' \in {l \in Login : login'[l].pc = "read"} \cup {None}
      /\ token' \in [Uid -> Login \cup {None}]
      /\ fails' \in 0..MaxFails /\ excused' \subseteq Login
<1>0. /\ login \in [Login -> LoginState] /\ token \in [Uid -> Login \cup {None}]
      /\ mtx = None \/ (mtx \in Login /\ At(mtx, "read"))
      /\ fails \in 0..MaxFails /\ excused \subseteq Login
  BY DEF TypeOK, LoginState
<1>1. ASSUME UNCHANGED mtx, login' \in [Login -> LoginState],
             \A l \in Login : At(l, "read") => login'[l] = login[l],
             UNCHANGED token \/ token' \in [Uid -> Login \cup {None}],
             UNCHANGED fails \/ fails' \in 0..MaxFails,
             UNCHANGED excused \/ excused' \subseteq Login
      PROVE  Goal
  BY <1>0, <1>1 DEF At
<1>2. ASSUME NEW l \in Login, GetChatServer(l) \/ RPCFailed(l) \/ InsertToken(l) PROVE Goal
  <2>1. Moved(l) /\ ~At(l, "read") /\ UNCHANGED mtx
    BY <1>2, GateDoes DEF At
  <2>2. token' \in [Uid -> Login \cup {None}] /\ fails' \in 0..MaxFails /\ excused' \subseteq Login
    BY <1>2, GateDoes
  <2> QED BY <1>1, <2>1, <2>2 DEF Moved
<1>3. ASSUME NEW l \in Login, NEW s \in Server, FirstServer(l, s) PROVE Goal
  <2>1. /\ Moved(l) /\ login'[l].pc = "read" /\ mtx' = l
        /\ fails' \in 0..MaxFails /\ UNCHANGED <<token, excused>>
    BY <1>3, FirstDoes
  <2> QED BY <1>0, <2>1 DEF Moved
<1>4. ASSUME NEW l \in Login, NEW s \in Server, NextServer(l, s) PROVE Goal
  <2>1. /\ Moved(l) /\ login'[l].pc = "read" /\ UNCHANGED mtx /\ mtx = l
        /\ fails' \in 0..MaxFails /\ UNCHANGED <<token, excused>>
    BY <1>4, NextDoes DEF Chosing
  <2> QED BY <1>0, <2>1 DEF Moved
<1>5. ASSUME NEW l \in Login, Chosen(l) PROVE Goal
  <2>1. Moved(l) /\ mtx' = None /\ UNCHANGED <<token, fails, excused>>
    BY <1>5, ChosenDoes
  <2> QED BY <1>0, <2>1 DEF Moved
<1>6. ASSUME NEW l \in Login, Connect(l) PROVE Goal
  <2>1. /\ Moved(l) /\ ~At(l, "read") /\ UNCHANGED <<mtx, token, fails>>
        /\ excused' \subseteq Login
    BY <1>6, ConnectDoes DEF At
  <2> QED BY <1>1, <2>1 DEF Moved
<1>7. ASSUME NEW s \in Server, LoginCheck(s) PROVE Goal
  <2>1. UNCHANGED <<mtx, token>> /\ fails' \in 0..MaxFails /\ excused' \subseteq Login
    BY <1>7, CheckDoes
  <2>2. UNCHANGED login \/ \E l \in Login : Moved(l) /\ ~At(l, "read")
    BY <1>7, CheckDoes, HeadSent DEF At
  <2> QED BY <1>0, <1>1, <2>1, <2>2 DEF Moved
<1>8. ASSUME NEW s \in Server, ReadCount(s) \/ WriteCount(s) PROVE Goal
  <2>1. UNCHANGED <<mtx, token, excused>> /\ fails' \in 0..MaxFails
    BY <1>8, ReadDoes, WriteDoes
  <2>2. UNCHANGED login \/ \E l \in Login : Moved(l) /\ ~At(l, "read")
    BY <1>8, ReadDoes, WriteDoes, HeadSent DEF At
  <2> QED BY <1>0, <1>1, <2>1, <2>2 DEF Moved
<1>9. ASSUME NEW s \in Server, Boot(s) \/ HDel(s) PROVE Goal
  <2>1. UNCHANGED <<login, mtx, token, excused>>
    BY <1>9 DEF Boot, HDel
  <2>2. fails' \in 0..MaxFails
    <3>1. UNCHANGED fails \/ (fails < MaxFails /\ fails' = fails + 1)
      BY <1>9 DEF Boot, HDel, Healthy, Fails
    <3> QED BY <1>0, <3>1, Numbers
  <2> QED BY <1>0, <1>1, <2>1, <2>2
<1>10. ASSUME NEW s \in Server, Crash(s) PROVE Goal
  BY <1>1, <1>10, CrashDoes DEF At
<1>11. ASSUME UNCHANGED <<login, mtx, token, fails, excused>> PROVE Goal
  BY <1>0, <1>1, <1>11
<1>12. ASSUME NEW s \in Server, CloseRedis(s) PROVE Goal
  BY <1>0, <1>1, <1>12, CloseDoes
<1> HIDE DEF Goal
<1>13. Goal
  BY <1>2, <1>3, <1>4, <1>5, <1>6, <1>7, <1>8, <1>9, <1>10, <1>11, <1>12
  DEF Next, Status, Work, Stop, Disconnect, Search, SearchMiss, Signal, JoinIo, StopWorker, Exit, choice
<1> QED BY <1>13 DEF Goal

(* The types of the servers' phases, starts and clients.                   *)
LEMMA ServerTypes ==
  ASSUME TypeOK, Chosing, Next
  PROVE  /\ phase' \in [Server -> {"down", "up", "join", "delete", "close", "drain", "exit", "hung"}]
         /\ boots' \in [Server -> 0..MaxBoots]
         /\ connected' \in [Server -> SUBSET Login]
<1> DEFINE Goal ==
      /\ phase' \in [Server -> {"down", "up", "join", "delete", "close", "drain", "exit", "hung"}]
      /\ boots' \in [Server -> 0..MaxBoots]
      /\ connected' \in [Server -> SUBSET Login]
<1>0. /\ phase \in [Server -> {"down", "up", "join", "delete", "close", "drain", "exit", "hung"}]
      /\ boots \in [Server -> 0..MaxBoots]
      /\ connected \in [Server -> SUBSET Login]
  BY DEF TypeOK
<1>1. ASSUME UNCHANGED <<phase, boots, connected>> PROVE Goal
  BY <1>0, <1>1
<1>2. ASSUME NEW l \in Login, Connect(l) PROVE Goal
  <2>1. PICK s \in Server :
          /\ UNCHANGED <<phase, boots>>
          /\ connected' = [connected EXCEPT ![s] = @ \cup {l}] \/ UNCHANGED connected
    BY <1>2, ConnectDoes
  <2> QED BY <1>0, <2>1
<1>3. ASSUME NEW l \in Login, NEW s \in Server, Disconnect(l, s) PROVE Goal
  BY <1>0, <1>3 DEF Disconnect
<1>4. ASSUME NEW s \in Server, Boot(s) PROVE Goal
  BY <1>0, <1>4, Numbers DEF Boot
<1>5. ASSUME NEW s \in Server, Signal(s) \/ JoinIo(s) \/ HDel(s) \/ CloseRedis(s) \/ StopWorker(s) \/ Exit(s)
      PROVE  Goal
  BY <1>0, <1>5 DEF Signal, JoinIo, HDel, CloseRedis, StopWorker, Exit, Enter
<1>6. ASSUME NEW s \in Server, Crash(s) PROVE Goal
  BY <1>0, <1>6, CrashDoes
<1>7. ASSUME NEW l \in Login,
             \/ GetChatServer(l) \/ RPCFailed(l) \/ InsertToken(l) \/ Chosen(l)
             \/ \E t \in Server : FirstServer(l, t) \/ NextServer(l, t)
      PROVE  Goal
  <2>1. UNCHANGED <<phase, boots, connected>>
    BY <1>7, GateDoes, ChosenDoes, FirstDoes, NextDoes
  <2> QED BY <1>1, <2>1
<1>8. ASSUME NEW s \in Server, Search(s) \/ Work(s) PROVE Goal
  <2>1. UNCHANGED <<phase, boots, connected>>
    BY <1>8, CheckDoes, ReadDoes, WriteDoes DEF Work, Search, SearchMiss, server
  <2> QED BY <1>1, <2>1
<1> HIDE DEF Goal
<1>9. Goal
  BY <1>2, <1>3, <1>4, <1>5, <1>6, <1>7, <1>8 DEF Next, Status, Stop
<1> QED BY <1>9 DEF Goal

(* The inductive invariant.                                                *)
LEMMA InitIInv == Init => IInv
<1> SUFFICES ASSUME Init PROVE IInv
  OBVIOUS
<1> USE DEF Init
<1>1. <<>> \in Seq(Login \cup {"search"}) /\ Len(<<>>) = 0
  OBVIOUS
<1>2. Plain("idle") \in LoginState /\ Plain("idle").pc = "idle"
  BY Numbers DEF Plain, LoginState
<1>3. TypeOK
  BY <1>1, <1>2, Numbers DEF TypeOK, LoginState
<1>4. Queued
  BY <1>1 DEF Queued
<1>5. Rooms
  <2>1. Searches(<<>>) = {} /\ Cardinality({}) = 0
    BY FS_EmptySet DEF Searches
  <2>2. Accepted = {}
    BY <1>2 DEF Accepted, At
  <2>3. SUFFICES ASSUME NEW s \in Server
                 PROVE  /\ Cardinality(Searches(que[s])) <= searches
                        /\ wk[s].n <= Room(s)
                        /\ count[s] # None => count[s] <= Room(s)
                        /\ written[s] # None => written[s] <= Room(s)
    BY DEF Rooms
  <2>4. que[s] = <<>> /\ searches = 0 /\ wk[s].n = 0 /\ count[s] = None /\ written[s] = None
    OBVIOUS
  <2>5. Cardinality(Searches(que[s])) = 0 /\ Cardinality(Accepted) = 0
    BY <2>1, <2>2, <2>4
  <2>6. Room(s) = 0
    BY <2>4, <2>5 DEF Room
  <2> QED BY <2>4, <2>5, <2>6
<1>6. Counted /\ Chosing /\ Reading
  BY <1>2 DEF Counted, Chosing, Reading, At
<1> QED BY <1>3, <1>4, <1>5, <1>6 DEF IInv

(* Without a server nothing is queued.                                     *)
LEMMA NoQueues ==
  ASSUME TypeOK, Chosing, Next, Server = {}
  PROVE  UNCHANGED <<que, searches>>
<1>1. ASSUME NEW l \in Login, GetChatServer(l) \/ RPCFailed(l) \/ InsertToken(l) \/ Chosen(l)
      PROVE  UNCHANGED <<que, searches>>
  BY <1>1, GateDoes, ChosenDoes
<1>2. ASSUME NEW l \in Login, Connect(l) PROVE FALSE
  BY <1>2, ConnectDoes
<1> QED BY <1>1, <1>2 DEF Next, Status

(* All types together.                                                     *)
LEMMA TypeStep ==
  ASSUME TypeOK, Queued, Chosing, Rooms, Next
  PROVE  TypeOK'
<1>1. que' \in [Server -> Seq(Login \cup {"search"})] /\ searches' \in 0..MaxSearches
  <2>1. CASE Server = {}
    BY <2>1, NoQueues DEF TypeOK
  <2>2. CASE Server # {}
    BY <2>2, QueueSteps
  <2> QED BY <2>1, <2>2
<1>2. mtx' \in {l \in Login : At(l, "read")}' \cup {None}
  BY LoginTypes DEF At
<1> QED BY <1>1, <1>2, LoginTypes, ServerTypes, CountTypes DEF TypeOK, LoginState

(* Every step keeps the inductive invariant.                               *)
LEMMA NextIInv == IInv /\ [Next]_vars => IInv'
<1> SUFFICES ASSUME IInv, [Next]_vars PROVE IInv'
  OBVIOUS
<1>0. TypeOK /\ Queued /\ Rooms /\ Counted /\ Chosing /\ Reading
  BY DEF IInv
<1>1. CASE Next
  <2>1. TypeOK' /\ Queued' /\ Rooms' /\ Counted' /\ Chosing'
    BY <1>0, <1>1, TypeStep, QueuedStep, RoomsStep, CountedStep, ChosingStep
  <2>2. Reading'
    BY <1>0, <1>1, CountTypes, ReadingStep
  <2> QED BY <2>1, <2>2 DEF IInv
<1>2. CASE UNCHANGED vars
  <2> USE <1>2 DEF vars, choice, server, worker
  <2>1. TypeOK' /\ Queued' /\ Counted' /\ Chosing' /\ Reading'
    BY <1>0 DEF TypeOK, Queued, Counted, Chosing, Reading, At
  <2>2. \A s \in Server : Searches(que[s])' = Searches(que[s]) /\ Room(s)' = Room(s)
    BY DEF Searches, Room, Accepted, At
  <2>3. Rooms'
    BY <1>0, <2>2 DEF Rooms
  <2> QED BY <2>1, <2>3 DEF IInv
<1> QED BY <1>1, <1>2

(* The inductive invariant holds throughout.                               *)
THEOREM Inductive == SafeSpec => []IInv
BY InitIInv, NextIInv, PTL DEF SafeSpec

-----------------------------------------------------------------------------
(* No increment of a running server's count is lost: read and written in   *)
(* two commands, it is the count of the increments that were written.      *)
THEOREM NoLostIncrement == SafeSpec => []CountIsIncrements
<1>1. IInv => CountIsIncrements
  BY DEF IInv, Counted, CountIsIncrements
<1> QED BY <1>1, Inductive, PTL

(* The server that is chosen had, when the choice began, no more logins    *)
(* than any other one has when it ends.                                    *)
THEOREM ChosenIsLeast == SafeSpec => []LeastLoaded
<1>1. IInv => LeastLoaded
  <2> SUFFICES ASSUME IInv, NEW l \in Login, At(l, "read"), login[l].todo = {}, begin # None,
                      NEW s \in Server
               PROVE  Num(begin[login[l].best]) <= Num(count[s])
    BY DEF LeastLoaded
  <2>1. login[l].best \in Server
    BY DEF IInv, Chosing
  <2>2. Num(begin[login[l].best]) <= login[l].num /\ login[l].num <= Num(count[s])
    BY DEF IInv, Reading
  <2>3. Num(count[s]) \in 0..INT_MAX
    BY NumIs DEF IInv
  <2>4. begin \in [Server -> 0..(INT_MAX - 1) \cup {None}] /\ login[l].num \in 0..INT_MAX
    BY DEF IInv, TypeOK
  <2>5. Num(begin[login[l].best]) \in 0..INT_MAX
    BY <2>1, <2>4, Numbers DEF Num
  <2>6. INT_MAX \in Nat
    BY Numbers
  <2> QED BY <2>2, <2>3, <2>4, <2>5, <2>6
<1> QED BY <1>1, Inductive, PTL
=============================================================================
