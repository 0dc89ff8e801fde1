------------------------------ MODULE ConnPool ------------------------------
(***************************************************************************)
(* The connection pools: RedisConPool (RedisMgr.h) and MySqlPool           *)
(* (MysqlDao.h), which share their getConnection, returnConnection, Close  *)
(* and health check and differ in what the check does with a connection    *)
(* that has failed.  Worker threads call the pool, the check thread takes  *)
(* all idle connections out, probes them without the mutex and puts them   *)
(* back, and one thread closes the pool.  b_stop_ is an atomic written     *)
(* without the mutex.  Only a thread between the predicate of the wait and *)
(* the wait itself keeps the mutex over a step.                            *)
(***************************************************************************)
EXTENDS Integers, Sequences, FiniteSets, SequencesExt

CONSTANTS Worker, Conn,
          Created,      \* the connections in the order the constructor made them
          Redis,        \* TRUE: RedisConPool, FALSE: MySqlPool
          MayBreak,     \* the connections the server may drop
          Nesting,      \* threads that run GetFriendList
          Leaking       \* threads that run CheckEmail of the gate

ASSUME CreatedAssumption == /\ Created \in Seq(Conn)
                            /\ ToSet(Created) = Conn
                            /\ IsInjective(Created)
ASSUME KindAssumption == Redis \in BOOLEAN
ASSUME ThreadsAssumption == Nesting \subseteq Worker /\ Leaking \subseteq Worker
ASSUME MayBreakAssumption == MayBreak \subseteq Conn
\* GetFriendList runs on the one worker of the logic queue; the pools have
\* five connections.
ASSUME NestingAssumption == /\ IsFiniteSet(Nesting)
                            /\ Cardinality(Nesting) < Cardinality(Conn)

VARIABLES pool,      \* connections_ / pool_: the idle connections
          health,    \* of each connection: "live", "broken", "freed"
          held,      \* the connections each thread has, the latest last
          pc,        \* where each thread is
          checker,   \* where the check thread is
          local,     \* local_connections of the check thread
          probed,    \* how many of them it has probed
          stop,      \* b_stop_
          closer     \* where Close and ClearConnections are

vars == <<pool, health, held, pc, checker, local, probed, stop, closer>>

(* The mutex is free.                                                      *)
Free == \A w \in Worker : pc[w] # "wait"

Freed(cs) == [c \in Conn |-> IF c \in cs THEN "freed" ELSE health[c]]

Init == /\ pool = Created
        /\ health = [c \in Conn |-> "live"]
        /\ held = [w \in Worker |-> <<>>]
        /\ pc = [w \in Worker |-> "idle"]
        /\ checker = "sleep"
        /\ local = <<>>
        /\ probed = 0
        /\ stop = FALSE
        /\ closer = "none"

-----------------------------------------------------------------------------
(* A thread runs a command of RedisMgr or a query of MysqlDao.             *)
Begin(w) == /\ pc[w] = "idle"
            /\ pc' = [pc EXCEPT ![w] = "get"]
            /\ UNCHANGED <<pool, health, held, checker, local, probed, stop, closer>>

(* getConnection: nullptr from a closed pool, ...                          *)
GetNull(w) == /\ pc[w] = "get" /\ Free
              /\ stop
              /\ pc' = [pc EXCEPT ![w] = IF held[w] = <<>> THEN "idle" ELSE "using"]
              /\ UNCHANGED <<pool, health, held, checker, local, probed, stop, closer>>

(* ... the front of the pool, ...                                          *)
GetFront(w) == /\ pc[w] = "get" /\ Free
               /\ ~stop /\ pool # <<>>
               /\ held' = [held EXCEPT ![w] = Append(@, Head(pool))]
               /\ pool' = Tail(pool)
               /\ pc' = [pc EXCEPT ![w] = "using"]
               /\ UNCHANGED <<health, checker, local, probed, stop, closer>>

(* ... or the decision to wait, followed by the wait.                      *)
GetBlocks(w) == /\ pc[w] = "get" /\ Free
                /\ ~stop /\ pool = <<>>
                /\ pc' = [pc EXCEPT ![w] = "wait"]
                /\ UNCHANGED <<pool, health, held, checker, local, probed, stop, closer>>

(* Mutant: the thread keeps the mutex until there is a connection.         *)
Wait_KeepsMutex(w) ==
  /\ pc[w] = "wait" /\ pool # <<>>
  /\ pc' = [pc EXCEPT ![w] = "waiting"]
  /\ UNCHANGED <<pool, health, held, checker, local, probed, stop, closer>>

Wait(w) == /\ pc[w] = "wait"
           /\ pc' = [pc EXCEPT ![w] = "waiting"]
           /\ UNCHANGED <<pool, health, held, checker, local, probed, stop, closer>>

SpuriousWakeup(w) ==
  /\ pc[w] = "waiting"
  /\ pc' = [pc EXCEPT ![w] = "get"]
  /\ UNCHANGED <<pool, health, held, checker, local, probed, stop, closer>>

Waiting == {w \in Worker : pc[w] = "waiting"}

(* What notify_one can make of the places p of the threads.                *)
NotifyOne(p) == IF Waiting = {} THEN {p} ELSE {[p EXCEPT ![v] = "get"] : v \in Waiting}

(* returnConnection: a closed pool frees the connection; otherwise push    *)
(* and wake one thread.                                                    *)
Return(w) ==
  /\ pc[w] = "using" /\ held[w] # <<>> /\ Free
  /\ held' = [held EXCEPT ![w] = Front(@)]
  /\ LET after == [pc EXCEPT ![w] = IF Len(held[w]) = 1 THEN "idle" ELSE "using"]
     IN IF stop
        THEN /\ health' = Freed({Last(held[w])})
             /\ pc' = after
             /\ pool' = pool
        ELSE /\ pool' = Append(pool, Last(held[w]))
             /\ pc' \in NotifyOne(after)
             /\ health' = health
  /\ UNCHANGED <<checker, local, probed, stop, closer>>

(* Mutant: a row is read and looked up with both connections in hand.      *)
GetUser_Deeper(w) ==
  /\ w \in Nesting
  /\ pc[w] = "using"
  /\ pc' = [pc EXCEPT ![w] = "get"]
  /\ UNCHANGED <<pool, health, held, checker, local, probed, stop, closer>>

(* GetFriendList calls GetUser, which takes a second connection, for every *)
(* row it reads with the first.                                            *)
GetUser(w) ==
  /\ w \in Nesting
  /\ pc[w] = "using" /\ Len(held[w]) = 1
  /\ pc' = [pc EXCEPT ![w] = "get"]
  /\ UNCHANGED <<pool, health, held, checker, local, probed, stop, closer>>

(* CheckEmail of the gate finds no row: the connection is destroyed with   *)
(* the unique_ptr that owns it.                                            *)
CheckEmailNoRow(w) ==
  /\ w \in Leaking
  /\ pc[w] = "using"
  /\ health' = Freed({Last(held[w])})
  /\ held' = [held EXCEPT ![w] = Front(@)]
  /\ pc' = [pc EXCEPT ![w] = "idle"]
  /\ UNCHANGED <<pool, checker, local, probed, stop, closer>>

(* The database server drops a connection.                                 *)
Break(c) == /\ c \in MayBreak /\ health[c] = "live"
            /\ health' = [health EXCEPT ![c] = "broken"]
            /\ UNCHANGED <<pool, held, pc, checker, local, probed, stop, closer>>

-----------------------------------------------------------------------------
(* Mutant: the connections are copied out and stay in the pool.            *)
CheckTake_Copies ==
  /\ checker = "sleep" /\ Free /\ ~stop
  /\ local' = pool
  /\ probed' = 0
  /\ checker' = "probe"
  /\ UNCHANGED <<pool, health, held, pc, stop, closer>>

(* The check thread: take everything, ...                                  *)
CheckTake == /\ checker = "sleep" /\ Free /\ ~stop
             /\ local' = pool
             /\ pool' = <<>>
             /\ probed' = 0
             /\ checker' = "probe"
             /\ UNCHANGED <<health, held, pc, stop, closer>>

(* ... probe one after the other.  Redis: a context that fails is freed,   *)
(* and what replaces it is stored in a copy of the vector's element.       *)
(* MySQL: the wrapper gets a new connection, or keeps the failed one when  *)
(* reconnecting fails or it was used in the last five seconds.             *)
Probed(c) == IF health[c] # "broken" THEN {health[c]}
             ELSE IF Redis THEN {"freed"} ELSE {"live", "broken"}

Probe == /\ checker = "probe" /\ probed < Len(local)
         /\ LET c == local[probed + 1]
            IN \E h \in Probed(c) : health' = [health EXCEPT ![c] = h]
         /\ probed' = probed + 1
         /\ UNCHANGED <<pool, held, pc, checker, local, stop, closer>>

(* ... and put all of them back, or free them if the pool was closed.      *)
(* Nobody is woken.                                                        *)
CheckReturn == /\ checker = "probe" /\ probed = Len(local) /\ Free
               /\ IF stop THEN health' = Freed(ToSet(local)) /\ pool' = pool
                          ELSE pool' = pool \o local /\ health' = health
               /\ local' = <<>>
               /\ probed' = 0
               /\ checker' = "sleep"
               /\ UNCHANGED <<held, pc, stop, closer>>

CheckerExit == /\ checker = "sleep" /\ stop
               /\ checker' = "exited"
               /\ UNCHANGED <<pool, health, held, pc, local, probed, stop, closer>>

-----------------------------------------------------------------------------
(* Close: set, wake everybody, join the check thread; then free the rest.  *)
SetStop == /\ closer = "none"
           /\ stop' = TRUE
           /\ closer' = "notify"
           /\ UNCHANGED <<pool, health, held, pc, checker, local, probed>>

NotifyAll == /\ closer = "notify"
             /\ pc' = [w \in Worker |-> IF w \in Waiting THEN "get" ELSE pc[w]]
             /\ closer' = "join"
             /\ UNCHANGED <<pool, health, held, checker, local, probed, stop>>

JoinChecker == /\ closer = "join" /\ checker = "exited"
               /\ closer' = "clear"
               /\ UNCHANGED <<pool, health, held, pc, checker, local, probed, stop>>

ClearConnections == /\ closer = "clear" /\ Free
                    /\ health' = Freed(ToSet(pool))
                    /\ pool' = <<>>
                    /\ closer' = "done"
                    /\ UNCHANGED <<held, pc, checker, local, probed, stop>>

GetConnection(w) == GetNull(w) \/ GetFront(w) \/ GetBlocks(w) \/ Wait(w)

CheckerStep == CheckTake \/ Probe \/ CheckReturn \/ CheckerExit

CloserStep == NotifyAll \/ JoinChecker \/ ClearConnections

Next == \/ \E w \in Worker : \/ Begin(w) \/ GetConnection(w) \/ Return(w)
                             \/ GetUser(w) \/ CheckEmailNoRow(w) \/ SpuriousWakeup(w)
        \/ \E c \in Conn : Break(c)
        \/ CheckerStep
        \/ SetStop \/ CloserStep

(* Threads that can run do; queries end.  Nothing obliges a thread to call *)
(* the pool, the pool to be closed or a wait to end without a notify.      *)
Fairness == /\ \A w \in Worker : WF_vars(GetConnection(w)) /\ WF_vars(Return(w))
            /\ WF_vars(CheckerStep)
            /\ WF_vars(CloserStep)

SafeSpec == Init /\ [][Next]_vars

Spec == SafeSpec /\ Fairness

-----------------------------------------------------------------------------
(* Types; a probe is never past the end of the vector.                     *)
TypeOK ==
  /\ pool \in Seq(Conn)
  /\ health \in [Conn -> {"live", "broken", "freed"}]
  /\ held \in [Worker -> Seq(Conn)]
  /\ pc \in [Worker -> {"idle", "get", "wait", "waiting", "using"}]
  /\ checker \in {"sleep", "probe", "exited"}
  /\ local \in Seq(Conn)
  /\ probed \in 0..Len(local)
  /\ stop \in BOOLEAN
  /\ closer \in {"none", "notify", "join", "clear", "done"}

(* Who has a connection: the pool, the check thread or one worker.         *)
Owners(c) == {o \in {"pool", "checker"} \cup Worker :
                \/ o = "pool" /\ c \in ToSet(pool)
                \/ o = "checker" /\ c \in ToSet(local)
                \/ o \in Worker /\ c \in ToSet(held[o])}

(* After Close and ClearConnections the pool stays empty: the check thread *)
(* has been joined first and cannot put connections back, and what workers *)
(* still hold is freed when they return it.                                *)
ClosedPoolIsEmpty ==
  closer = "done" => /\ pool = <<>> /\ local = <<>>
                     /\ checker = "exited"
                     /\ \A c \in Conn : health[c] = "freed" \/ \E w \in Worker : c \in ToSet(held[w])

(* The types; and no connection is used by two threads at once and none is *)
(* lost: each one that has not been freed has exactly one owner, which has *)
(* it once, and nobody has a freed one - also when the check thread has    *)
(* taken the pool's connections out while others return theirs, and when   *)
(* the pool closes, after which it stays empty.                            *)
OneOwner ==
  /\ TypeOK /\ ClosedPoolIsEmpty
  /\ \A c \in Conn : \A o, p \in Owners(c) : o = p
  /\ \A c \in Conn : (Owners(c) = {}) = (health[c] = "freed")
  /\ IsInjective(pool) /\ IsInjective(local)
  /\ \A w \in Worker : IsInjective(held[w])

(* As long as no connection has been lost they are never all held by       *)
(* threads that wait for another one (GetFriendList with GetUser,          *)
(* MysqlDao.cpp:437 and 460): the one worker of the logic queue alone      *)
(* takes a second connection, and the pool has more than one.              *)
NoHoldAndWait ==
  (\A c \in Conn : health[c] # "freed")
    => \E c \in Conn : \A w \in Worker :
         c \in ToSet(held[w]) => pc[w] \notin {"wait", "waiting"}

(* Close ends: the check thread is never stuck, whatever it is doing when  *)
(* the flag is set.                                                        *)
CloseEnds == stop ~> closer = "done"

(* RedisMgr.h:188, MysqlDao.h:133: a thread blocks until the pool is       *)
(* closed or there is an idle connection; one that waits while the pool    *)
(* has an idle connection goes on.                                         *)
BlocksUntilIdle ==
  \A w \in Worker : (pc[w] = "waiting" /\ pool # <<>>) ~> pc[w] # "waiting"

(* RedisMgr.h:148: what the check puts back are the valid connections.     *)
ReturnsValid == \A c \in ToSet(pool) : health[c] # "freed"

(* MysqlDao.h:199: the pool has a preset number of connections; none gets  *)
(* lost before it is closed.                                               *)
KeepsItsSize == ~stop => \A c \in Conn : health[c] # "freed"
=============================================================================
