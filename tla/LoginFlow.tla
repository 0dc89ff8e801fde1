----------------------------- MODULE LoginFlow ------------------------------
(***************************************************************************)
(* A login from the gate to a chat server, the login counts, and the start *)
(* and stop of the chat servers.                                           *)
(*                                                                         *)
(* The gate asks the status server, which reads the login counts of all    *)
(* chat servers from Redis, chooses the smallest, makes a token and stores *)
(* it.  The client connects to the chosen server and shows the token.  The *)
(* server's worker compares it and increments the server's count with a    *)
(* read and a write; so does a search that misses the cache.  Servers set  *)
(* their count to 0 at the start and delete it when they stop, not when    *)
(* they crash.  A step is one Redis command or one step of a program.      *)
(***************************************************************************)
EXTENDS Integers, Sequences, FiniteSets

CONSTANTS Login, Uid, Server, None,
          UidOf,         \* the user of a login
          MayStop,       \* servers that may be signalled, or crash
          MaxBoots,      \* bound on the starts of a server
          MaxSearches,   \* bound on the searches that miss the cache
          MaxFails       \* bound on the Redis commands and calls that fail

ASSUME LoginAssumption == IsFiniteSet(Login) /\ "search" \notin Login
ASSUME UidOfAssumption == UidOf \in [Login -> Uid]
ASSUME MayStopAssumption == MayStop \subseteq Server
ASSUME BoundsAssumption == {MaxBoots, MaxSearches, MaxFails} \subseteq Nat
ASSUME NoneAssumption == None \notin Login \cup Server \cup {"search"}

INT_MAX == Cardinality(Login) + MaxSearches + 1

VARIABLES
  login,     \* each login: place, servers still to read, smallest so far
  mtx,       \* the call that holds _server_mtx
  token,     \* Redis utoken_<uid>
  count,     \* Redis logincount: a number, or None when the field is missing
  phase,     \* each chat server: down, up, and the steps of its end, the
             \* last of which may hang
  boots,     \* how often it was started
  que,       \* its logic queue: logins, and searches
  wk,        \* its worker: place, count read
  connected, \* the clients connected to it
  searches,  \* searches that missed the cache
  fails,     \* commands and calls that failed
  written,   \* history: increments written since the start, or None when
             \* a failed command has spoiled the count
  begin,     \* history: the counts when the choice began, or None when one
             \* of them has decreased since, or a read of them has failed
  excused    \* history: logins that met a failure or another one of the user

choice == <<mtx, begin>>
server == <<phase, boots, connected>>
worker == <<que, wk, searches, written>>
vars == <<login, choice, token, count, server, worker, fails, excused>>

Num(n) == IF n = None THEN INT_MAX ELSE n

(* A login that is at a place where nothing has been chosen for it.        *)
Plain(place) == [pc |-> place, todo |-> {}, best |-> None, num |-> 0]

Init == /\ login = [l \in Login |-> Plain("idle")]
        /\ mtx = None
        /\ token = [u \in Uid |-> None]
        /\ count = [s \in Server |-> None]
        /\ phase = [s \in Server |-> "down"]
        /\ boots = [s \in Server |-> 0]
        /\ que = [s \in Server |-> <<>>]
        /\ wk = [s \in Server |-> [pc |-> "idle", n |-> 0]]
        /\ connected = [s \in Server |-> {}]
        /\ searches = 0
        /\ fails = 0
        /\ written = [s \in Server |-> None]
        /\ begin = None
        /\ excused = {}

At(l, place) == login[l].pc = place
Goto(l, place) == login' = [login EXCEPT ![l].pc = place]

(* A command or a call fails, or none does.                                *)
Fails == fails < MaxFails /\ fails' = fails + 1
Healthy == UNCHANGED fails

Over(l, place) == login' = [login EXCEPT ![l] = Plain(place)]

(* A count is written or deleted.                                          *)
SetCount(s, n) ==
  /\ count' = [count EXCEPT ![s] = n]
  /\ begin' = IF Num(n) < Num(count[s]) THEN None ELSE begin

-----------------------------------------------------------------------------
(* The gate, once the password is right: the call of the status server.    *)
GetChatServer(l) ==
  /\ At(l, "idle")
  /\ Goto(l, "lock")
  /\ LET others == {m \in Login : UidOf[m] = UidOf[l] /\ m # l
                                  /\ login[m].pc \notin {"idle", "accepted", "refused"}}
     IN excused' = IF others = {} THEN excused ELSE excused \cup others \cup {l}
  /\ UNCHANGED <<choice, token, count, server, worker, fails>>

(* The call fails for the gate, before or after the status server has      *)
(* answered it.                                                            *)
RPCFailed(l) ==
  /\ At(l, "lock") \/ At(l, "reply")
  /\ Over(l, "refused")
  /\ excused' = excused \cup {l}
  /\ Fails
  /\ UNCHANGED <<choice, token, count, server, worker>>

-----------------------------------------------------------------------------
(* StatusServiceImpl.  HGet gives the count, or nothing when it fails.     *)
HGet(s, n, from) ==
  \/ n = count[s] /\ begin' = from /\ Healthy
  \/ n = None /\ begin' = None /\ Fails

(* getChatServer, under the mutex: the first server of the map ...         *)
FirstServer(l, s) ==
  /\ At(l, "lock") /\ mtx = None
  /\ mtx' = l
  /\ \E n \in {count[s], None} :
       /\ HGet(s, n, count)
       /\ login' = [login EXCEPT ![l] = [@ EXCEPT !.pc = "read", !.todo = Server \ {s},
                                                  !.best = s, !.num = Num(n)]]
  /\ UNCHANGED <<token, count, server, worker, excused>>

(* Mutant: the greater count wins.                                         *)
NextServer_Greater(l, s) ==
  /\ At(l, "read") /\ s \in login[l].todo
  /\ \E n \in {count[s], None} :
       /\ HGet(s, n, begin)
       /\ LET c == login[l]
              wins == c.num < Num(n)
          IN login' = [login EXCEPT ![l] = [c EXCEPT !.todo = c.todo \ {s},
                                                     !.best = IF wins THEN s ELSE c.best,
                                                     !.num = IF wins THEN Num(n) ELSE c.num]]
  /\ UNCHANGED <<mtx, token, count, server, worker, excused>>

(* ... and every other one; a smaller count wins.                          *)
NextServer(l, s) ==
  /\ At(l, "read") /\ s \in login[l].todo
  /\ \E n \in {count[s], None} :
       /\ HGet(s, n, begin)
       /\ LET c == login[l]
              wins == Num(n) < c.num
          IN login' = [login EXCEPT ![l] = [c EXCEPT !.todo = c.todo \ {s},
                                                     !.best = IF wins THEN s ELSE c.best,
                                                     !.num = IF wins THEN Num(n) ELSE c.num]]
  /\ UNCHANGED <<mtx, token, count, server, worker, excused>>

Chosen(l) ==
  /\ At(l, "read") /\ login[l].todo = {}
  /\ mtx' = None /\ begin' = None
  /\ login' = [login EXCEPT ![l] = [@ EXCEPT !.pc = "token", !.num = 0]]
  /\ UNCHANGED <<token, count, server, worker, fails, excused>>

(* Mutant: the reply is sent before the token is stored.                   *)
InsertToken_Later(l) ==
  /\ \/ At(l, "token") /\ login' = [login EXCEPT ![l].pc = "reply", ![l].num = -1]
                       /\ UNCHANGED token
     \/ login[l].num = -1 /\ login' = [login EXCEPT ![l].num = 0]
                          /\ token' = [token EXCEPT ![UidOf[l]] = l]
  /\ UNCHANGED <<choice, count, server, worker, fails, excused>>

Set(l) ==
  \/ token' = [token EXCEPT ![UidOf[l]] = l] /\ UNCHANGED excused /\ Healthy
  \/ excused' = excused \cup {l} /\ UNCHANGED token /\ Fails

(* insertToken: Set, whose failure nobody looks at.                        *)
InsertToken(l) ==
  /\ At(l, "token")
  /\ Goto(l, "reply")
  /\ Set(l)
  /\ UNCHANGED <<choice, count, server, worker>>

-----------------------------------------------------------------------------
(* The client: connects to the server named in the answer and sends its    *)
(* login.  Without an answer, or without the server, the login is over.    *)
Connect(l) ==
  /\ At(l, "reply")
  /\ LET s == login[l].best
     IN IF phase[s] = "up"
          THEN /\ Goto(l, "sent")
               /\ connected' = [connected EXCEPT ![s] = @ \cup {l}]
               /\ que' = [que EXCEPT ![s] = Append(@, l)]
               /\ UNCHANGED excused
          ELSE /\ Over(l, "refused")
               /\ excused' = excused \cup {l}
               /\ UNCHANGED <<connected, que>>
  /\ UNCHANGED <<choice, token, count, phase, boots, wk, searches, written, fails>>

Disconnect(l, s) ==
  /\ l \in connected[s]
  /\ connected' = [connected EXCEPT ![s] = @ \ {l}]
  /\ UNCHANGED <<login, choice, token, count, phase, boots, worker, fails, excused>>

(* A logged-in client searches a user that is not in the cache.            *)
Search(s) ==
  /\ \E l \in connected[s] : At(l, "accepted")
  /\ searches < MaxSearches
  /\ searches' = searches + 1
  /\ que' = [que EXCEPT ![s] = Append(@, "search")]
  /\ UNCHANGED <<login, choice, token, count, server, wk, written, fails, excused>>

-----------------------------------------------------------------------------
(* The worker of a chat server.                                            *)
Works(s, place) == phase[s] # "down" /\ wk[s].pc = place /\ que[s] # <<>>
Closed(s) == phase[s] \in {"drain", "exit"}    \* RedisMgr::Close was called
Pop(s) == que' = [que EXCEPT ![s] = Tail(@)]
Spoilt(s) == written' = [written EXCEPT ![s] = None]

Refuse(s, l) ==
  /\ Over(l, "refused") /\ Pop(s)
  /\ UNCHANGED wk

(* Mutant: getConnection of the closed pool goes on waiting.               *)
LoginCheck_Blocks(s) ==
  /\ Works(s, "idle") /\ Head(que[s]) \in Login /\ ~Closed(s)
  /\ LET l == Head(que[s])
     IN IF token[UidOf[l]] = l
          THEN /\ wk' = [wk EXCEPT ![s].pc = "count"]
               /\ UNCHANGED <<login, que>>
          ELSE Refuse(s, l)
  /\ UNCHANGED <<choice, token, count, server, searches, written, fails, excused>>

(* LoginHandler: the token in Redis and the user's data decide.            *)
LoginCheck(s) ==
  /\ Works(s, "idle") /\ Head(que[s]) \in Login
  /\ LET l == Head(que[s])
     IN \/ /\ ~Closed(s) /\ token[UidOf[l]] = l
           /\ wk' = [wk EXCEPT ![s].pc = "count"]
           /\ UNCHANGED <<login, que, fails, excused>>
        \/ /\ ~Closed(s) /\ token[UidOf[l]] # l
           /\ Refuse(s, l)
           /\ UNCHANGED <<fails, excused>>
        \/ /\ Refuse(s, l)                      \* a command or a query fails
           /\ excused' = excused \cup {l}
           /\ IF Closed(s) THEN Healthy ELSE Fails
  /\ UNCHANGED <<choice, token, count, server, searches, written>>

(* Mutant: a search is handled on the session's io thread at once.         *)
SearchMiss_OnIo(s) ==
  /\ phase[s] # "down" /\ que[s] # <<>> /\ que[s][Len(que[s])] = "search"
  /\ SetCount(s, (IF count[s] = None THEN 0 ELSE count[s]) + 1)
  /\ written' = [written EXCEPT ![s] = IF @ = None THEN None ELSE @ + 1]
  /\ que' = [que EXCEPT ![s] = SubSeq(@, 1, Len(@) - 1)]
  /\ UNCHANGED <<login, mtx, token, server, wk, searches, fails, excused>>

(* GetUserByUid, GetUserByName: a miss goes on to the count as well.       *)
SearchMiss(s) ==
  /\ Works(s, "idle") /\ Head(que[s]) = "search"
  /\ wk' = [wk EXCEPT ![s].pc = "count"]
  /\ UNCHANGED <<login, choice, token, count, server, que, searches, written, fails, excused>>

(* HGet gives nothing when it fails, or when the pool has been closed.     *)
HGetOwn(s, n) ==
  \/ ~Closed(s) /\ n = count[s] /\ Healthy
  \/ n = None /\ IF Closed(s) THEN Healthy ELSE Fails

(* The own count is read; a failure, or no field, counts as zero.          *)
ReadCount(s) ==
  /\ Works(s, "count")
  /\ \E n \in {count[s], None} :
       /\ HGetOwn(s, n)
       /\ wk' = [wk EXCEPT ![s] = [pc |-> "write", n |-> IF n = None THEN 0 ELSE n]]
       /\ written' = IF n = count[s] THEN written ELSE [written EXCEPT ![s] = None]
  /\ UNCHANGED <<login, choice, token, count, server, que, searches, excused>>

(* HSet of one more.  The session is then bound (module ChatRouting) and   *)
(* the answer sent, whether HSet worked or not.                            *)
WriteCount(s) ==
  /\ Works(s, "write")
  /\ \/ /\ ~Closed(s)
        /\ SetCount(s, wk[s].n + 1)
        /\ written' = [written EXCEPT ![s] = IF @ = None THEN None ELSE @ + 1]
        /\ Healthy
     \/ /\ Spoilt(s) /\ UNCHANGED <<count, begin>>
        /\ IF Closed(s) THEN Healthy ELSE Fails
  /\ IF Head(que[s]) \in Login THEN Over(Head(que[s]), "accepted") ELSE UNCHANGED login
  /\ Pop(s)
  /\ wk' = [wk EXCEPT ![s] = [pc |-> "idle", n |-> 0]]
  /\ UNCHANGED <<mtx, token, server, searches, excused>>

-----------------------------------------------------------------------------
(* main of a chat server.  At the start its count becomes zero.            *)
Boot(s) ==
  /\ phase[s] = "down" /\ boots[s] < MaxBoots
  /\ phase' = [phase EXCEPT ![s] = "up"]
  /\ boots' = [boots EXCEPT ![s] = @ + 1]
  /\ \/ SetCount(s, 0) /\ written' = [written EXCEPT ![s] = 0] /\ Healthy
     \/ Spoilt(s) /\ UNCHANGED <<count, begin>> /\ Fails
  /\ UNCHANGED <<login, mtx, token, connected, que, wk, searches, excused>>

Enter(s, p, q) == phase[s] = p /\ phase' = [phase EXCEPT ![s] = q]

(* The signal handler stops the acceptor, joins the io threads, which end  *)
(* when no client is connected, and shuts the gRPC server down.            *)
Signal(s) ==
  /\ s \in MayStop /\ Enter(s, "up", "join")
  /\ UNCHANGED <<login, choice, token, count, boots, connected, worker, fails, excused>>

JoinIo(s) ==
  /\ connected[s] = {} /\ Enter(s, "join", "delete")
  /\ UNCHANGED <<login, choice, token, count, boots, connected, worker, fails, excused>>

HDel(s) ==
  /\ Enter(s, "delete", "close")
  /\ \/ SetCount(s, None) /\ Healthy
     \/ UNCHANGED <<count, begin>> /\ Fails
  /\ Spoilt(s)
  /\ UNCHANGED <<login, mtx, token, boots, connected, que, wk, searches, excused>>

(* Close sets its flag and notifies without the pool's mutex: a worker     *)
(* that has found all connections out at the health check, and is about to *)
(* wait, misses both.                                                      *)
CloseRedis(s) ==
  /\ Enter(s, "close", "drain")
  /\ \/ UNCHANGED <<wk, excused>>
     \/ /\ que[s] # <<>> /\ wk' = [wk EXCEPT ![s].pc = "asleep"]
        /\ excused' = excused \cup {l \in Login : \E i \in DOMAIN que[s] : que[s][i] = l}
  /\ UNCHANGED <<login, choice, token, count, boots, connected, que, searches, written, fails>>

(* The destructor of LogicSystem sets its flag and notifies, without the   *)
(* mutex as well: a worker that is about to wait for a message misses both.*)
(* (MysqlMgr, UserMgr and ChatGrpcClient, first used by its handlers, have *)
(* been destroyed before: a worker still busy may end the process.)        *)
StopWorker(s) ==
  /\ \/ Enter(s, "drain", "exit")
     \/ que[s] = <<>> /\ Enter(s, "drain", "hung")
  /\ UNCHANGED <<login, choice, token, count, boots, connected, worker, fails, excused>>

(* The worker has drained its queue and is joined.                         *)
Exit(s) ==
  /\ que[s] = <<>> /\ Enter(s, "exit", "down")
  /\ UNCHANGED <<login, choice, token, count, boots, connected, worker, fails, excused>>

(* The process dies; its count stays in Redis.                             *)
Crash(s) ==
  /\ s \in MayStop /\ phase[s] # "down"
  /\ phase' = [phase EXCEPT ![s] = "down"]
  /\ LET lost == {l \in Login : At(l, "sent") /\ login[l].best = s}
     IN /\ login' = [l \in Login |-> IF l \in lost THEN Plain("refused") ELSE login[l]]
        /\ excused' = excused \cup lost
  /\ connected' = [connected EXCEPT ![s] = {}]
  /\ que' = [que EXCEPT ![s] = <<>>]
  /\ wk' = [wk EXCEPT ![s] = [pc |-> "idle", n |-> 0]]
  /\ Spoilt(s)
  /\ UNCHANGED <<choice, token, count, boots, searches, fails>>

-----------------------------------------------------------------------------
Status(l) == \/ \E s \in Server : FirstServer(l, s) \/ NextServer(l, s)
             \/ Chosen(l) \/ InsertToken(l)
Work(s) == LoginCheck(s) \/ SearchMiss(s) \/ ReadCount(s) \/ WriteCount(s)
Stop(s) == JoinIo(s) \/ HDel(s) \/ CloseRedis(s) \/ StopWorker(s) \/ Exit(s)

Next == \/ \E l \in Login : \/ GetChatServer(l) \/ RPCFailed(l) \/ Status(l) \/ Connect(l)
                            \/ \E s \in Server : Disconnect(l, s)
        \/ \E s \in Server : \/ Search(s) \/ Work(s) \/ Boot(s) \/ Signal(s)
                             \/ Stop(s) \/ Crash(s)

SafeSpec == Init /\ [][Next]_vars

(* The status server, the workers and a stopping main go on, and a client  *)
(* uses its answer; nobody has to log in, to disconnect, or to start or    *)
(* stop a server.                                                          *)
Spec == /\ SafeSpec
        /\ WF_vars(\E l \in Login : Status(l))
        /\ \A l \in Login : WF_vars(Connect(l))
        /\ \A s \in Server : WF_vars(Work(s)) /\ WF_vars(Stop(s))

-----------------------------------------------------------------------------
(* The types; the mutex belongs to a call that is reading the counts.      *)
TypeOK ==
  /\ login \in [Login -> [pc : {"idle", "lock", "read", "token", "reply", "sent",
                                "accepted", "refused"},
                          todo : SUBSET Server, best : Server \cup {None},
                          num : 0..INT_MAX]]
  /\ mtx \in {l \in Login : At(l, "read")} \cup {None}
  /\ token \in [Uid -> Login \cup {None}]
  /\ count \in [Server -> 0..(INT_MAX - 1) \cup {None}]
  /\ phase \in [Server -> {"down", "up", "join", "delete", "close", "drain", "exit", "hung"}]
  /\ boots \in [Server -> 0..MaxBoots]
  /\ que \in [Server -> Seq(Login \cup {"search"})]
  /\ wk \in [Server -> [pc : {"idle", "count", "write", "asleep"}, n : 0..(INT_MAX - 1)]]
  /\ connected \in [Server -> SUBSET Login]
  /\ searches \in 0..MaxSearches
  /\ written \in [Server -> 0..(INT_MAX - 1) \cup {None}]
  /\ begin \in [Server -> 0..(INT_MAX - 1) \cup {None}] \cup {None}
  /\ fails \in 0..MaxFails /\ excused \subseteq Login

(* Although the counts are read one after the other while they change, the *)
(* server chosen had, when the choice began, no more logins than any other *)
(* one has when it ends; unless a read failed or a server was restarted.   *)
LeastLoaded ==
  \A l \in Login :
    At(l, "read") /\ login[l].todo = {} /\ begin # None
      => \A s \in Server : Num(begin[login[l].best]) <= Num(count[s])

(* The types; and no increment of a running server's count is lost,        *)
(* although it is read and written in two steps and searches increment it  *)
(* as well.                                                                *)
CountIsIncrements ==
  /\ TypeOK
  /\ \A s \in Server : phase[s] = "up" /\ written[s] # None => count[s] = written[s]

(* A login whose user starts no other one meanwhile is accepted, unless    *)
(* something fails or its server stops.                                    *)
LoneLoginAccepted ==
  \A l \in Login : login[l].pc # "idle" ~> At(l, "accepted") \/ l \in excused

(* The worker has missed one of the two notifications.                     *)
Sleeps(s) == phase[s] = "hung" \/ wk[s].pc = "asleep"

(* A server that was signalled ends once no client is connected, unless    *)
(* its worker sleeps through the stop: whatever is in the queue when the   *)
(* Redis pool is closed under it, and whatever fails, the worker drains it.*)
ServerStops ==
  \A s \in MayStop : phase[s] = "join" ~> phase[s] = "down" \/ connected[s] # {} \/ Sleeps(s)
=============================================================================
