----------------------------- MODULE LogicQueue -----------------------------
(***************************************************************************)
(* The message queue of LogicSystem (ChatServer/LogicSystem.cpp): io       *)
(* threads post, one worker thread handles, the destructor stops it.  The  *)
(* mutex is modelled by its holder.  A poster's critical section never     *)
(* blocks, so it is one step; the worker keeps the mutex while a callback  *)
(* runs.  _b_stop is written without the mutex; on the platforms built for *)
(* the write is visible before the notify that follows it, so the worker   *)
(* reads its current value.                                                *)
(***************************************************************************)
EXTENDS Integers, Sequences

CONSTANTS Posters,    \* io threads that run AsyncReadBody handlers
          MaxPosts    \* bound on the posted messages

ASSUME MaxPostsAssumption == MaxPosts \in Nat

VARIABLES posted,     \* every message posted: TRUE if its id has a callback
          msgQue,     \* _msg_que: the messages posted and not popped, by number
          handled,    \* the messages whose callback has run, in order
          worker,     \* where the worker is in DealMsg
          poster,     \* where each io thread is in PostMsgToQue
          ioJoined,   \* AsioIOServicePool::Stop has joined the io threads
          stop,       \* _b_stop
          dtor        \* where the destructor is

vars == <<posted, msgQue, handled, worker, poster, ioJoined, stop, dtor>>

WorkerPC == {"lock", "check", "wait", "waiting", "branch", "call", "pop", "drain", "exited"}

(* The worker owns _mutex from the moment it has locked it until it waits, *)
(* pops or leaves.                                                         *)
WorkerHolds == worker \in {"check", "wait", "branch", "call", "pop", "drain"}

Init == /\ posted = <<>>
        /\ msgQue = <<>>
        /\ handled = <<>>
        /\ worker = "lock"
        /\ poster = [p \in Posters |-> "idle"]
        /\ ioJoined = FALSE
        /\ stop = FALSE
        /\ dtor = "none"

(* notify_one: there is one thread that can wait.                          *)
NotifyOne == worker' = IF worker = "waiting" THEN "lock" ELSE worker

(* Mutant: the message goes to the front of the queue.                     *)
PostMsgToQue_Front(p, known) ==
  /\ poster[p] = "idle" /\ ~ioJoined
  /\ Len(posted) < MaxPosts
  /\ ~WorkerHolds
  /\ posted' = Append(posted, known)
  /\ msgQue' = <<Len(posted')>> \o msgQue
  /\ poster' = [poster EXCEPT ![p] = IF Len(msgQue') = 1 THEN "notify" ELSE "idle"]
  /\ UNCHANGED <<handled, worker, ioJoined, stop, dtor>>

(* Mutant: the size is compared before the push, off by one.               *)
PostMsgToQue_NotifyAtTwo(p, known) ==
  /\ poster[p] = "idle" /\ ~ioJoined
  /\ Len(posted) < MaxPosts
  /\ ~WorkerHolds
  /\ posted' = Append(posted, known)
  /\ msgQue' = Append(msgQue, Len(posted'))
  /\ poster' = [poster EXCEPT ![p] = IF Len(msgQue) = 1 THEN "notify" ELSE "idle"]
  /\ UNCHANGED <<handled, worker, ioJoined, stop, dtor>>

(* PostMsgToQue: push, and notify after unlocking if the size became 1.    *)
PostMsgToQue(p, known) ==
  /\ poster[p] = "idle" /\ ~ioJoined
  /\ Len(posted) < MaxPosts
  /\ ~WorkerHolds
  /\ posted' = Append(posted, known)
  /\ msgQue' = Append(msgQue, Len(posted'))
  /\ poster' = [poster EXCEPT ![p] = IF Len(msgQue') = 1 THEN "notify" ELSE "idle"]
  /\ UNCHANGED <<handled, worker, ioJoined, stop, dtor>>

PostNotify(p) ==
  /\ poster[p] = "notify"
  /\ poster' = [poster EXCEPT ![p] = "idle"]
  /\ NotifyOne
  /\ UNCHANGED <<posted, msgQue, handled, ioJoined, stop, dtor>>

Lock == /\ worker = "lock"
        /\ worker' = "check"
        /\ UNCHANGED <<posted, msgQue, handled, poster, ioJoined, stop, dtor>>

(* The predicate of the wait loop, read under the mutex.                   *)
CheckPredicate ==
  /\ worker = "check"
  /\ worker' = IF msgQue = <<>> /\ ~stop THEN "wait" ELSE "branch"
  /\ UNCHANGED <<posted, msgQue, handled, poster, ioJoined, stop, dtor>>

(* _consume.wait: joins the waiters and releases the mutex in one step.    *)
Wait == /\ worker = "wait"
        /\ worker' = "waiting"
        /\ UNCHANGED <<posted, msgQue, handled, poster, ioJoined, stop, dtor>>

SpuriousWakeup == /\ worker = "waiting"
                  /\ worker' = "lock"
                  /\ UNCHANGED <<posted, msgQue, handled, poster, ioJoined, stop, dtor>>

(* Mutant: the loop is left at once when the stop flag is seen.            *)
BranchOnStop_NoDrain ==
  /\ worker = "branch"
  /\ worker' = IF stop THEN "exited" ELSE "call"
  /\ UNCHANGED <<posted, msgQue, handled, poster, ioJoined, stop, dtor>>

BranchOnStop == /\ worker = "branch"
                /\ worker' = IF stop THEN "drain" ELSE "call"
                /\ UNCHANGED <<posted, msgQue, handled, poster, ioJoined, stop, dtor>>

(* The callback of the front message, if its id has one.                   *)
RunCallback(h) == IF posted[Head(msgQue)] THEN Append(h, Head(msgQue)) ELSE h

Callback == /\ worker = "call"
            /\ handled' = RunCallback(handled)
            /\ worker' = "pop"
            /\ UNCHANGED <<posted, msgQue, poster, ioJoined, stop, dtor>>

Pop == /\ worker = "pop"
       /\ msgQue' = Tail(msgQue)
       /\ worker' = "lock"
       /\ UNCHANGED <<posted, handled, poster, ioJoined, stop, dtor>>

(* After the stop flag was seen: one round of the draining loop, or leave. *)
DrainOne == /\ worker = "drain" /\ msgQue # <<>>
            /\ handled' = RunCallback(handled)
            /\ msgQue' = Tail(msgQue)
            /\ UNCHANGED <<posted, worker, poster, ioJoined, stop, dtor>>

(* Mutant: draining ends after any message.                                *)
Exit_Early ==
  /\ worker = "drain"
  /\ worker' = "exited"
  /\ UNCHANGED <<posted, msgQue, handled, poster, ioJoined, stop, dtor>>

Exit == /\ worker = "drain" /\ msgQue = <<>>
        /\ worker' = "exited"
        /\ UNCHANGED <<posted, msgQue, handled, poster, ioJoined, stop, dtor>>

(* The io threads have returned from their handlers for the last time.     *)
JoinIoThreads == /\ ~ioJoined
                 /\ \A p \in Posters : poster[p] = "idle"
                 /\ ioJoined' = TRUE
                 /\ UNCHANGED <<posted, msgQue, handled, worker, poster, stop, dtor>>

(* ~LogicSystem, run at static destruction: set, notify, join.             *)
SetStop == /\ ioJoined /\ dtor = "none"
           /\ stop' = TRUE
           /\ dtor' = "notify"
           /\ UNCHANGED <<posted, msgQue, handled, worker, poster, ioJoined>>

StopNotify == /\ dtor = "notify"
              /\ NotifyOne
              /\ dtor' = "join"
              /\ UNCHANGED <<posted, msgQue, handled, poster, ioJoined, stop>>

Join == /\ dtor = "join" /\ worker = "exited"
        /\ dtor' = "done"
        /\ UNCHANGED <<posted, msgQue, handled, worker, poster, ioJoined, stop>>

WorkerStep == \/ Lock \/ CheckPredicate \/ Wait \/ BranchOnStop
              \/ Callback \/ Pop \/ DrainOne \/ Exit

Next == \/ \E p \in Posters, known \in BOOLEAN : PostMsgToQue(p, known)
        \/ \E p \in Posters : PostNotify(p)
        \/ WorkerStep \/ SpuriousWakeup
        \/ JoinIoThreads \/ SetStop \/ StopNotify \/ Join

(* Threads run; nothing obliges a client to send, the server to shut down, *)
(* or the condition variable to wake up without a notify.                  *)
Fairness == /\ WF_vars(WorkerStep)
            /\ \A p \in Posters : WF_vars(PostNotify(p))
            /\ WF_vars(StopNotify)
            /\ WF_vars(Join)

SafeSpec == Init /\ [][Next]_vars

Spec == SafeSpec /\ Fairness

-----------------------------------------------------------------------------
(* Types; a message is handled once at most.                               *)
TypeOK == /\ posted \in Seq(BOOLEAN)
          /\ msgQue \in Seq(Nat)
          /\ handled \in Seq(Nat) /\ Len(handled) <= Len(posted)
          /\ worker \in WorkerPC
          /\ poster \in [Posters -> {"idle", "notify"}]
          /\ ioJoined \in BOOLEAN
          /\ stop \in BOOLEAN
          /\ dtor \in {"none", "notify", "join", "done"}

(* Callbacks run in posting order, each message at most once, and a        *)
(* message leaves the queue only when its callback has run or it has none  *)
(* (PostMsgToQue and DealMsg agree on the queue across the unlocks).       *)
HandledInOrder ==
  /\ \A i \in 1..Len(handled) : i > 1 => handled[i - 1] < handled[i]
  /\ \A n \in 1..Len(posted) :
       \/ \E i \in 1..Len(msgQue) : msgQue[i] = n
       \/ ~posted[n]
       \/ \E i \in 1..Len(handled) : handled[i] = n

(* The worker sleeps on a nonempty queue only while the notify for it is   *)
(* still to come: notifying only when the size becomes 1 (LogicSystem.cpp  *)
(* lines 26-29, after the unlock) loses no wakeup.                         *)
NoSleepOnWork == worker = "waiting" /\ msgQue # <<>> => \E p \in Posters : poster[p] = "notify"

(* LogicSystem.cpp:42: what is left in the queue is handled before the     *)
(* worker leaves.                                                          *)
DrainedBeforeExit == worker = "exited" => /\ msgQue = <<>>
                                          /\ stop

(* Every message with a known id is handled in the end, also those that    *)
(* are in the queue when the server stops.                                 *)
PostedIsHandled ==
  \A n \in 1..MaxPosts :
    (Len(posted) >= n /\ posted[n]) ~> \E i \in 1..Len(handled) : handled[i] = n

(* LogicSystem.cpp:40-56: when the stop signal is given the worker leaves  *)
(* its loop and the thread ends, so that the destructor's join returns.    *)
StopEndsWorker == stop ~> dtor = "done"
=============================================================================
