----------------------------- MODULE LogicProofs ----------------------------
(***************************************************************************)
(* Proofs about LogicSystem: its queue, for every set of io threads and    *)
(* every number of messages; and UserCache, the rows of users that its     *)
(* handlers look for, on any number of servers.                            *)
(***************************************************************************)
EXTENDS LogicQueue, UserCache, TLAPS

(* The messages that have left the queue are those up to Popped; while the *)
(* worker is between a callback and its pop it has also done the front.    *)
Popped == Len(posted) - Len(msgQue)

Done == IF worker = "pop" THEN Popped + 1 ELSE Popped

QueueInv == /\ Len(msgQue) <= Len(posted)
            /\ \A i \in 1..Len(msgQue) : msgQue[i] = Popped + i

(* What has been handled, in order, and that nothing done is missing.      *)
HandledInv == /\ \A i \in 1..Len(handled) : handled[i] \in 1..Done
              /\ Len(handled) <= Done
              /\ \A i \in 1..Len(handled) : i > 1 => handled[i - 1] < handled[i]
              /\ \A n \in 1..Done : ~posted[n] \/ \E i \in 1..Len(handled) : handled[i] = n

(* What the place of the worker says of the queue and of the stop flag.    *)
WorkerInv == /\ worker \in {"call", "pop"} => msgQue # <<>>
             /\ worker = "branch" => msgQue # <<>> \/ stop
             /\ worker = "wait" => msgQue = <<>>
             /\ worker \in {"drain", "exited"} => stop
             /\ worker = "exited" => msgQue = <<>>
             /\ stop => ioJoined

(* The inductive invariant: that nothing is posted after the stop flag     *)
(* (stop => ioJoined) is what makes an empty queue stay empty at the exit. *)
IInv == TypeOK /\ QueueInv /\ HandledInv /\ WorkerInv /\ NoSleepOnWork

USE MaxPostsAssumption

(* In the beginning nothing is posted.                                     *)
LEMMA InitIInv == Init => IInv
<1> SUFFICES ASSUME Init PROVE IInv
  OBVIOUS
<1>1. Len(posted) = 0 /\ Len(msgQue) = 0 /\ Len(handled) = 0 /\ worker = "lock"
  BY DEF Init
<1>2. TypeOK
  <2>1. posted \in Seq(BOOLEAN) /\ msgQue \in Seq(Nat) /\ handled \in Seq(Nat)
    BY DEF Init
  <2>2. poster \in [Posters -> {"idle", "notify"}]
    BY DEF Init
  <2>3. Len(handled) <= Len(posted) /\ worker \in WorkerPC
    BY <1>1 DEF WorkerPC
  <2>4. ioJoined \in BOOLEAN /\ stop \in BOOLEAN /\ dtor \in {"none", "notify", "join", "done"}
    BY DEF Init
  <2> QED BY <2>1, <2>2, <2>3, <2>4 DEF TypeOK

<1>3. QueueInv /\ HandledInv
  BY <1>1 DEF QueueInv, HandledInv, Popped, Done
<1>4. WorkerInv /\ NoSleepOnWork
  BY DEF Init, WorkerInv, NoSleepOnWork
<1> QED BY <1>2, <1>3, <1>4 DEF IInv

(* A post adds the next number at the end of the queue.                    *)
LEMMA PostIInv ==
  ASSUME IInv, NEW p \in Posters, NEW known \in BOOLEAN, PostMsgToQue(p, known)
  PROVE  IInv'
<1> USE DEF IInv
<1>1. /\ posted' \in Seq(BOOLEAN) /\ Len(posted') = Len(posted) + 1
      /\ \A n \in 1..Len(posted) : posted'[n] = posted[n]
  BY DEF PostMsgToQue, TypeOK
<1>2. /\ msgQue' \in Seq(Nat) /\ Len(msgQue') = Len(msgQue) + 1 /\ msgQue' # <<>>
      /\ \A i \in 1..Len(msgQue) : msgQue'[i] = msgQue[i]
      /\ msgQue'[Len(msgQue) + 1] = Len(posted) + 1
  <2>1. msgQue' = Append(msgQue, Len(posted')) /\ Len(posted') = Len(posted) + 1
    BY <1>1 DEF PostMsgToQue
  <2>2. msgQue \in Seq(Nat) /\ Len(posted) + 1 \in Nat
    BY DEF TypeOK
  <2> QED BY <2>1, <2>2
<1>3. UNCHANGED <<handled, worker, ioJoined, stop, dtor>> /\ ~ioJoined /\ ~WorkerHolds
  BY DEF PostMsgToQue
<1>4. poster' \in [Posters -> {"idle", "notify"}]
  BY DEF PostMsgToQue, TypeOK
<1>5. TypeOK'
  BY <1>1, <1>2, <1>3, <1>4 DEF TypeOK
<1>6. Popped' = Popped /\ worker # "pop" /\ Done = Popped /\ Done' = Popped /\ Popped \in Nat
      /\ Popped <= Len(posted)
  BY <1>1, <1>2, <1>3 DEF Popped, Done, WorkerHolds, QueueInv, TypeOK
<1>7. QueueInv'
  <2>1. Len(posted) + 1 = Popped + Len(msgQue) + 1
    BY DEF Popped, TypeOK
  <2>2. \A i \in 1..Len(msgQue) : msgQue'[i] = Popped + i
    BY <1>2 DEF QueueInv
  <2>3. msgQue'[Len(msgQue) + 1] = Popped + (Len(msgQue) + 1)
    BY <1>2, <1>6, <2>1 DEF TypeOK
  <2>4. Len(msgQue') <= Len(posted')
    BY <1>1, <1>2 DEF QueueInv, TypeOK
  <2>5. \A i \in 1..Len(msgQue') : i \in 1..Len(msgQue) \/ i = Len(msgQue) + 1
    BY <1>2 DEF TypeOK
  <2> QED BY <1>6, <2>2, <2>3, <2>4, <2>5 DEF QueueInv
<1>8. HandledInv'
  BY <1>1, <1>3, <1>6 DEF HandledInv
<1>9. WorkerInv'
  BY <1>2, <1>3 DEF WorkerInv, WorkerHolds
<1>10. NoSleepOnWork'
  <2>1. CASE msgQue = <<>>
    <3>1. Len(msgQue') = 1
      BY <1>2, <2>1
    <3>2. poster'[p] = "notify"
      BY <3>1 DEF PostMsgToQue, TypeOK
    <3> QED BY <3>2 DEF NoSleepOnWork
  <2>2. CASE msgQue # <<>>
    <3>1. Len(msgQue) \in Nat \ {0}
      BY <2>2 DEF TypeOK
    <3>2. Len(msgQue') # 1
      BY <1>2, <3>1
    <3>3. \A q \in Posters : poster[q] = "notify" => poster'[q] = "notify"
      BY <3>2 DEF PostMsgToQue, TypeOK
    <3> QED BY <1>3, <2>2, <3>3 DEF NoSleepOnWork
  <2> QED BY <2>1, <2>2
<1> QED BY <1>5, <1>7, <1>8, <1>9, <1>10

(* A notify wakes the worker, so that it no longer sleeps.                 *)
LEMMA NotifyIInv ==
  ASSUME IInv, NotifyOne, UNCHANGED <<posted, msgQue, handled, ioJoined, stop>>,
         poster' \in [Posters -> {"idle", "notify"}],
         dtor' \in {"none", "notify", "join", "done"}
  PROVE  IInv'
<1> USE DEF IInv
<1>1. worker' # "waiting" /\ (worker' = worker \/ (worker = "waiting" /\ worker' = "lock"))
  BY DEF NotifyOne
<1>2. TypeOK'
  BY <1>1 DEF TypeOK, WorkerPC
<1>3. Done' = Done /\ Popped' = Popped
  BY <1>1 DEF Done, Popped
<1> QED BY <1>1, <1>2, <1>3 DEF QueueInv, HandledInv, WorkerInv, NoSleepOnWork

(* Running the callback of the front adds its number, if it has one.       *)
LEMMA CallbackHandles ==
  ASSUME TypeOK, QueueInv, HandledInv, msgQue # <<>>, worker # "pop",
         handled' = RunCallback(handled)
  PROVE  /\ handled' \in Seq(Nat) /\ Len(handled') <= Popped + 1
         /\ \A i \in 1..Len(handled') : handled'[i] \in 1..(Popped + 1)
         /\ \A i \in 1..Len(handled') : i > 1 => handled'[i - 1] < handled'[i]
         /\ \A n \in 1..(Popped + 1) :
              ~posted[n] \/ \E i \in 1..Len(handled') : handled'[i] = n
         /\ Popped + 1 \in 1..Len(posted)
<1>1. Head(msgQue) = Popped + 1 /\ Popped \in Nat /\ Popped + 1 \in 1..Len(posted) /\ Done = Popped
  BY DEF QueueInv, Popped, Done, TypeOK
<1>2. CASE posted[Head(msgQue)]
  <2>1. handled' = Append(handled, Popped + 1)
    BY <1>1, <1>2 DEF RunCallback
  <2>2. handled' \in Seq(Nat) /\ Len(handled') = Len(handled) + 1
        /\ handled'[Len(handled) + 1] = Popped + 1
        /\ \A i \in 1..Len(handled) : handled'[i] = handled[i]
    BY <1>1, <2>1 DEF TypeOK
  <2>3. \A i \in 1..Len(handled) : handled[i] \in 1..Popped
    BY <1>1 DEF HandledInv
  <2>3a. \A i \in 1..Len(handled') : i \in 1..Len(handled) \/ i = Len(handled) + 1
    BY <2>2 DEF TypeOK
  <2>4. \A i \in 1..Len(handled') : handled'[i] \in 1..(Popped + 1)
    <3>1. \A i \in 1..Len(handled) : handled'[i] \in 1..(Popped + 1)
      BY <1>1, <2>2, <2>3, SMTT(30)
    <3> QED BY <1>1, <2>2, <2>3a, <3>1
  <2>5. \A i \in 1..Len(handled') : i > 1 => handled'[i - 1] < handled'[i]
    <3> SUFFICES ASSUME NEW i \in 1..Len(handled'), i > 1 PROVE handled'[i - 1] < handled'[i]
      OBVIOUS
    <3>1. CASE i \in 1..Len(handled)
      <4>1. i - 1 \in 1..Len(handled)
        BY <3>1
      <4>2. handled'[i] = handled[i] /\ handled'[i - 1] = handled[i - 1]
        BY <2>2, <3>1, <4>1
      <4> QED BY <3>1, <4>2 DEF HandledInv
    <3>2. CASE i = Len(handled) + 1
      <4>1. i - 1 \in 1..Len(handled)
        BY <3>2 DEF TypeOK
      <4> QED BY <4>1, <1>1, <2>2, <2>3, <3>2
    <3> QED BY <3>1, <3>2, <2>2 DEF TypeOK
  <2>6. \A n \in 1..(Popped + 1) : ~posted[n] \/ \E i \in 1..Len(handled') : handled'[i] = n
    <3> SUFFICES ASSUME NEW n \in 1..(Popped + 1), posted[n]
                 PROVE  \E i \in 1..Len(handled') : handled'[i] = n
      OBVIOUS
    <3>1. CASE n = Popped + 1
      <4>1. Len(handled) + 1 \in 1..Len(handled')
        BY <2>2 DEF TypeOK
      <4> QED BY <2>2, <3>1, <4>1
    <3>2. CASE n
 \in 1..Popped
      <4>1. PICK i \in 1..Len(handled) : handled[i] = n
        BY <1>1, <3>2 DEF HandledInv
      <4>2. i \in 1..Len(handled') /\ handled'[i] = n
        BY <4>1, <2>2, SMTT(30) DEF TypeOK
      <4> QED BY <4>2
    <3> QED BY <1>1, <3>1, <3>2
  <2>7. Len(handled') <= Popped + 1
    BY <1>1, <2>2 DEF HandledInv, TypeOK
  <2> QED BY <1>1, <2>2, <2>4, <2>5, <2>6, <2>7
<1>3. CASE ~posted[Head(msgQue)]
  <2>1. handled' = handled
    BY <1>3 DEF RunCallback
  <2>2. \A i \in 1..Len(handled') : handled'[i] \in 1..(Popped + 1)
    BY <1>1, <2>1 DEF HandledInv
  <2>3. \A n \in 1..(Popped + 1) : ~posted[n] \/ \E i \in 1..Len(handled') : handled'[i] = n
    BY <1>1, <1>3, <2>1 DEF HandledInv
  <2>4. Len(handled') <= Popped + 1
    BY <1>1, <2>1 DEF HandledInv, TypeOK
  <2> QED BY <1>1, <2>1, <2>2, <2>3, <2>4 DEF HandledInv, TypeOK
<1> QED BY <1>2, <1>3

(* The callback of the front runs.                                         *)
LEMMA CallbackIInv == ASSUME IInv, Callback PROVE IInv'
<1> USE DEF IInv
<1>1. msgQue # <<>> /\ worker = "call" /\ worker' = "pop"
      /\ UNCHANGED <<posted, msgQue, poster, ioJoined, stop, dtor>>
      /\ handled' = RunCallback(handled)
  BY DEF Callback, WorkerInv
<1>2. Popped' = Popped /\ Done' = Popped + 1
  BY <1>1 DEF Popped, Done
<1>3. HandledInv'
  BY <1>1, <1>2, CallbackHandles DEF HandledInv
<1>4. TypeOK'
  <2>1. handled' \in Seq(Nat) /\ Len(handled') <= Popped + 1 /\ Popped + 1 \in 1..Len(posted)
    BY <1>1, CallbackHandles
  <2>2. Len(handled') <= Len(posted')
    BY <1>1, <2>1 DEF Popped, TypeOK
  <2> QED BY <1>1, <2>1, <2>2 DEF TypeOK, WorkerPC
<1>5. QueueInv'
  BY <1>1, <1>2 DEF QueueInv
<1> QED BY <1>1, <1>3, <1>4, <1>5 DEF WorkerInv, NoSleepOnWork

(* The queue without its front is numbered from the next message on.       *)
LEMMA TailQueue ==
  ASSUME TypeOK, QueueInv, msgQue # <<>>, msgQue' = Tail(msgQue), posted' = posted
  PROVE  msgQue' \in Seq(Nat) /\ Popped' = Popped + 1 /\ QueueInv'
<1>1. msgQue' \in Seq(Nat) /\ Len(msgQue') = Len(msgQue) - 1
      /\ \A i \in 1..Len(msgQue') : msgQue'[i] = msgQue[i + 1] /\ i + 1 \in 1..Len(msgQue)
  BY DEF TypeOK
<1>2. Popped' = Popped + 1 /\ Popped \in Int
  BY <1>1 DEF Popped, TypeOK
<1>3. Len(msgQue') <= Len(posted')
  BY <1>1 DEF QueueInv, TypeOK
<1>4. ASSUME NEW i \in 1..Len(msgQue') PROVE msgQue'[i] = Popped' + i
  <2>1. msgQue[i + 1] = Popped + (i + 1)
    BY <1>1 DEF QueueInv
  <2> QED BY <1>1, <1>2, <2>1
<1> QED BY <1>1, <1>2, <1>3, <1>4 DEF QueueInv

(* The front is taken off.                                                 *)
LEMMA PopIInv == ASSUME IInv, Pop PROVE IInv'
<1> USE DEF IInv
<1>1. msgQue # <<>> /\ worker = "pop" /\ worker' = "lock" /\ msgQue' = Tail(msgQue)
      /\ UNCHANGED <<posted, handled, poster, ioJoined, stop, dtor>>
  BY DEF Pop, WorkerInv
<1>2. msgQue' \in Seq(Nat) /\ Popped' = Popped + 1 /\ QueueInv'
  BY <1>1, TailQueue
<1>3. Done' = Done
  BY <1>1, <1>2 DEF Done
<1>4. HandledInv'
  BY <1>1, <1>3 DEF HandledInv
<1>5. TypeOK'
  BY <1>1, <1>2 DEF TypeOK, WorkerPC
<1> QED BY <1>1, <1>2, <1>4, <1>5 DEF WorkerInv, NoSleepOnWork

(* At the end the rest is handled and taken off one by one.                *)
LEMMA DrainOneIInv == ASSUME IInv, DrainOne PROVE IInv'
<1> USE DEF IInv
<1>1. msgQue # <<>> /\ worker = "drain" /\ msgQue' = Tail(msgQue) /\ handled' = RunCallback(handled)
      /\ UNCHANGED <<posted, worker, poster, ioJoined, stop, dtor>>
  BY DEF DrainOne
<1>2. msgQue' \in Seq(Nat) /\ Popped' = Popped + 1 /\ QueueInv'
  BY <1>1, TailQueue
<1>3. Done' = Popped + 1
  BY <1>1, <1>2 DEF Done
<1>4. HandledInv'
  BY <1>1, <1>3, CallbackHandles DEF HandledInv
<1>5. TypeOK'
  <2>1. handled' \in Seq(Nat) /\ Len(handled') <= Popped + 1 /\ Popped + 1 \in 1..Len(posted)
    BY <1>1, CallbackHandles
  <2>2. Len(handled') <= Len(posted')
    BY <1>1, <2>1 DEF Popped, TypeOK
  <2> QED BY <1>1, <1>2, <2>1, <2>2 DEF TypeOK
<1> QED BY <1>1, <1>2, <1>4, <1>5 DEF WorkerInv, NoSleepOnWork

(* The steps of the worker that touch neither the queue nor what is done.  *)
LEMMA WorkerMovesIInv ==
  ASSUME IInv, Lock \/ CheckPredicate \/ Wait \/ SpuriousWakeup \/ BranchOnStop \/ Exit
  PROVE  IInv'
<1> USE DEF IInv
<1>1. UNCHANGED <<posted, msgQue, handled, poster, ioJoined, stop, dtor>>
      /\ worker # "pop" /\ worker' \in WorkerPC \ {"pop"}
  BY DEF Lock, CheckPredicate, Wait, SpuriousWakeup, BranchOnStop, Exit, WorkerPC
<1>2. Popped' = Popped /\ Done' = Done
  BY <1>1 DEF Popped, Done
<1>3. QueueInv' /\ HandledInv'
  BY <1>1, <1>2 DEF QueueInv, HandledInv
<1>4. TypeOK'
  BY <1>1 DEF TypeOK
<1>5. WorkerInv'
  BY <1>1 DEF WorkerInv, Lock, CheckPredicate, Wait, SpuriousWakeup, BranchOnStop, Exit
<1>6. worker' = "waiting" => msgQue' = <<>>
  BY <1>1 DEF WorkerInv, Lock, CheckPredicate, Wait, SpuriousWakeup, BranchOnStop, Exit
<1> QED BY <1>3, <1>4, <1>5, <1>6 DEF NoSleepOnWork

(* The steps of the shutdown, and those that change nothing.               *)
LEMMA ShutdownIInv == ASSUME IInv, JoinIoThreads \/ SetStop \/ Join \/ UNCHANGED vars PROVE IInv'
<1> USE DEF IInv
<1>1. UNCHANGED <<posted, msgQue, handled, worker, poster>>
      /\ ioJoined' \in BOOLEAN /\ stop' \in BOOLEAN /\ dtor' \in {"none", "notify", "join", "done"}
      /\ (ioJoined => ioJoined') /\ (stop' => stop \/ ioJoined) /\ (stop => stop')
  <2>1. CASE JoinIoThreads
    BY <2>1 DEF JoinIoThreads, TypeOK
  <2>2. CASE SetStop
    BY <2>2 DEF SetStop, TypeOK
  <2>3. CASE Join
    BY <2>3 DEF Join, TypeOK
  <2>4. CASE UNCHANGED vars
    BY <2>4 DEF vars, TypeOK
  <2> QED BY <2>1, <2>2, <2>3, <2>4

<1>2. Popped' = Popped /\ Done' = Done
  BY <1>1 DEF Popped, Done
<1> QED BY <1>1, <1>2 DEF TypeOK, QueueInv, HandledInv, WorkerInv, NoSleepOnWork

(* The inductive invariant holds in every reachable state of LogicSystem.  *)
THEOREM Invariant == SafeSpec => []IInv
<1>1. IInv /\ [Next]_vars => IInv'
  <2> SUFFICES ASSUME IInv, [Next]_vars PROVE IInv'
    OBVIOUS
  <2>1. CASE \E p \in Posters, known \in BOOLEAN : PostMsgToQue(p, known)
    BY <2>1, PostIInv
  <2>2. ASSUME NEW p \in Posters, PostNotify(p) PROVE IInv'
    <3>1. poster' \in [Posters -> {"idle", "notify"}] /\ dtor' \in {"none", "notify", "join", "done"}
      BY <2>2 DEF PostNotify, IInv, TypeOK
    <3> QED BY <2>2, <3>1, NotifyIInv DEF PostNotify
  <2>3. CASE StopNotify
    <3>1. poster' \in [Posters -> {"idle", "notify"}] /\ dtor' \in {"none", "notify", "join", "done"}
      BY <2>3 DEF StopNotify, IInv, TypeOK
    <3> QED BY <2>3, <3>1, NotifyIInv DEF StopNotify
  <2>4. CASE Callback
    BY <2>4, CallbackIInv
  <2>5. CASE Pop
    BY <2>5, PopIInv
  <2>6. CASE DrainOne
    BY <2>6, DrainOneIInv
  <2>7. CASE Lock \/ CheckPredicate \/ Wait \/ SpuriousWakeup \/ BranchOnStop \/ Exit
    BY <2>7, WorkerMovesIInv
  <2>8. CASE JoinIoThreads \/ SetStop \/ Join \/ UNCHANGED vars
    BY <2>8, ShutdownIInv
  <2> QED BY <2>1, <2>2, <2>3, <2>4, <2>5, <2>6, <2>7, <2>8 DEF Next, WorkerStep
<1> QED BY <1>1, InitIInv, PTL DEF SafeSpec

(* Types, and that no message is handled twice.                            *)
THEOREM TypeCorrect == Spec => []TypeOK
BY Invariant, PTL DEF Spec, IInv

(* A message that has left the queue was handled, in posting order.        *)
THEOREM InOrder == Spec => []HandledInOrder
<1>1. IInv => HandledInOrder
  <2> SUFFICES ASSUME IInv PROVE HandledInOrder
    OBVIOUS
  <2>1. ASSUME NEW n \in 1..Len(posted), ~\E i \in 1..Len(msgQue) : msgQue[i] = n
        PROVE  n \in 1..Done
    <3>1. CASE n <= Popped
      BY <3>1 DEF IInv, TypeOK, Popped, Done
    <3>2. CASE n > Popped
      <4>1. n - Popped \in 1..Len(msgQue) /\ Popped + (n - Popped) = n
        BY <3>2 DEF IInv, TypeOK, QueueInv, Popped
      <4>2. msgQue[n - Popped] = n
        BY <4>1 DEF IInv, QueueInv
      <4> QED BY <2>1, <4>1, <4>2
    <3> QED BY <3>1, <3>2 DEF IInv, TypeOK, Popped
  <2> QED BY <2>1 DEF IInv, HandledInv, HandledInOrder
<1> QED BY <1>1, Invariant, PTL DEF Spec

(* The notify protocol of PostMsgToQue never leaves the worker asleep on a *)
(* queue that nobody is about to announce.                                 *)
THEOREM NoLostPost == Spec => []NoSleepOnWork
BY Invariant, PTL DEF Spec, IInv

(* The worker leaves only when stopped and with nothing left to handle.    *)
THEOREM Drained == Spec => []DrainedBeforeExit
<1>1. IInv => DrainedBeforeExit
  BY DEF IInv, WorkerInv, DrainedBeforeExit
<1> QED BY <1>1, Invariant, PTL DEF Spec

-----------------------------------------------------------------------------
(* The rows of users and their copies in Redis.                            *)

(* What a reader has.                                                      *)
Reading == [pc : {"idle", "get", "query", "set", "done"}, key : Key \cup {None},
            uid : Nat \cup {None, NoInt}, row : Row \cup {None}, known : SUBSET Uid,
            bad : BOOLEAN]

(* A reader that asks for a user by uid has the number of its key as uid,  *)
(* at the latest when it goes on to MySQL; it knows users of the table.    *)
KeyFits(x) ==
  /\ x.pc = "idle" <=> x.key = None
  /\ x.uid # None => NumberOf[x.key[2]] = x.uid
  /\ x.pc # "idle" /\ x.key[1] = "ubaseinfo_" => NumberOf[x.key[2]] # None
  /\ x.pc = "query" /\ x.key[1] = "ubaseinfo_" => x.uid # None
  /\ x.known \subseteq Registered

(* A row it has read is of the user its key names; the row it is about to  *)
(* store is the present one, unless the password was reset since.          *)
RowFits(x) ==
  /\ x.pc \in {"idle", "get", "query"} => x.row = None
  /\ x.pc = "set" => x.row # None
  /\ x.row # None => /\ user[x.row.uid] # None
                     /\ Names(x.key, x.row.uid)
                     /\ x.pc = "set" /\ x.row.uid \notin spoilt => x.row.pwd = user[x.row.uid]

(* A reader that is done has a row, if its key names a user it knew of.    *)
FoundOne(x) ==
  x.pc = "done" /\ ~x.bad /\ (\E u \in x.known : Names(x.key, u)) => x.row # None

(* What is said of each reader, at every moment.                           *)
Readers ==
  \A r \in Reader : rd[r] \in Reading /\ KeyFits(rd[r]) /\ RowFits(rd[r]) /\ FoundOne(rd[r])

(* The inductive invariant: entries are current, readers have what their   *)
(* place says, and no entry is of a user that is not in the table.         *)
CacheInv == /\ CacheIsCurrent
            /\ rd \in [Reader -> Reading] /\ Readers
            /\ \A k \in Key : cache[k] # None => user[cache[k].uid] # None

-----------------------------------------------------------------------------
(* A reader's own step leaves the tables alone, and the others.            *)
Aside == UNCHANGED <<user, cache, spoilt>>

LEMMA ReaderMoves ==
  ASSUME Parameters, CacheInv, NEW r \in Reader, NEW x \in Reading,
         rd' = [rd EXCEPT ![r] = x], ServerOf[r] \in alive, UNCHANGED alive, Aside,
         KeyFits(x), RowFits(x), FoundOne(x)
  PROVE  CacheInv'
<1>1. /\ rd' \in [Reader -> Reading] /\ rd'[r] = x
      /\ \A q \in Reader \ {r} : rd'[q] = rd[q]
  BY DEF CacheInv
<1>2. /\ KeyFits(x)' /\ RowFits(x)' /\ FoundOne(x)'
      /\ \A q \in Reader \ {r} : KeyFits(rd[q])' /\ RowFits(rd[q])' /\ FoundOne(rd[q])'
  <2>1. Registered' = Registered
    BY DEF Aside, Registered
  <2>2. \A y : KeyFits(y) => KeyFits(y)'
    BY <2>1 DEF KeyFits, Names
  <2>3. \A y : RowFits(y) => RowFits(y)'
    BY DEF RowFits, Aside, Names
  <2>4. \A y : FoundOne(y) => FoundOne(y)'
    BY DEF FoundOne, Names
  <2> QED BY <1>1, <2>2, <2>3, <2>4 DEF CacheInv, Readers
<1>3. Readers'
  BY <1>1, <1>2 DEF Readers, CacheInv
<1>4. CacheIsCurrent'
  <2>1. CacheTypeOK'
    <3>1. /\ user' \in [Uid -> 0..MaxResets \cup {None}]
          /\ cache' \in [Key -> Row \cup {None}]
          /\ alive' \subseteq Server /\ spoilt' \subseteq Uid
      BY DEF CacheInv, CacheIsCurrent, CacheTypeOK, Aside
    <3>2. \A q \in Reader : ServerOf[q] \notin alive' => rd'[q] = Idle
      BY <1>1 DEF CacheInv, CacheIsCurrent, CacheTypeOK
    <3> QED BY <1>1, <1>3, <3>1, <3>2 DEF CacheTypeOK, Readers, Reading, KeyFits, RowFits
  <2> QED BY <2>1 DEF CacheInv, CacheIsCurrent, Aside, Names
<1> QED BY <1>1, <1>3, <1>4 DEF CacheInv, Aside

(* What a reader at work has, and where it is.                             *)
LEMMA ReaderHas ==
  ASSUME Parameters, CacheInv, NEW r \in Reader
  PROVE  /\ rd[r] \in Reading /\ KeyFits(rd[r]) /\ RowFits(rd[r]) /\ FoundOne(rd[r])
         /\ rd[r].pc # "idle" => ServerOf[r] \in alive /\ rd[r].key \in Key
  BY DEF CacheInv, Readers, CacheIsCurrent, CacheTypeOK, Idle, Reading, KeyFits

(* The beginning of a request, with a key that can be a number if it has   *)
(* to be one.                                                              *)
LEMMA BeginInv ==
  ASSUME Parameters, CacheInv, NEW r \in Reader, NEW key \in Key, NEW uid,
         uid = None \/ (uid \in Uid /\ NumberOf[key[2]] = uid),
         key[1] = "ubaseinfo_" => NumberOf[key[2]] # None,
         Begin(r, key, uid)
  PROVE  CacheInv'
<1> DEFINE x == [Idle EXCEPT !.pc = "get", !.key = key, !.uid = uid,
                                !.known = Registered]
<1>1. /\ x \in Reading /\ x.pc = "get" /\ x.key = key /\ x.uid = uid /\ x.row = None
      /\ x.known = Registered
  BY DEF Idle, Reading, Registered, Parameters
<1>2. rd' = [rd EXCEPT ![r] = x] /\ ServerOf[r] \in alive /\ UNCHANGED alive /\ Aside
  BY DEF Begin, Aside
<1> HIDE DEF x
<1>3. KeyFits(x) /\ RowFits(x) /\ FoundOne(x)
  BY <1>1 DEF KeyFits, RowFits, FoundOne, Parameters
<1> QED BY <1>1, <1>2, <1>3, ReaderMoves

(* A search begins, by number if its text is one.                          *)
LEMMA SearchInv ==
  ASSUME Parameters, CacheInv, NEW r \in Reader, NEW text \in Text, SearchInfo(r, text)
  PROVE  CacheInv'
<1>1. <<"ubaseinfo_", text>> \in Key /\ <<"nameinfo_", text>> \in Key
  BY DEF Key
<1>2. CASE isPureDigit(text)
  BY <1>1, <1>2, BeginInv DEF SearchInfo, GetUserByUid, isPureDigit
<1>3. CASE ~isPureDigit(text)
  BY <1>1, <1>3, BeginInv DEF SearchInfo, GetUserByName
<1> QED BY <1>2, <1>3

(* A handler asks for a user by the number of its uid.                     *)
LEMMA BaseInfoInv ==
  ASSUME Parameters, CacheInv, NEW r \in Reader, NEW u \in Uid,
         GetBaseInfo(r, u) \/ NotifyBaseInfo(r, u)
  PROVE  CacheInv'
<1>1. <<"ubaseinfo_", TextOf[u]>> \in Key /\ NumberOf[TextOf[u]] = u /\ u # None
  BY DEF Key, Parameters
<1> QED BY <1>1, BeginInv DEF GetBaseInfo, NotifyBaseInfo

(* The answer comes from Redis: the entry is of the user the key names.    *)
LEMMA HitInv ==
  ASSUME Parameters, CacheInv, NEW r \in Reader, Hit(r)
  PROVE  CacheInv'
<1> DEFINE x == [rd[r] EXCEPT !.pc = "done", !.row = cache[rd[r].key]]
<1>1. /\ rd[r] \in Reading /\ KeyFits(rd[r]) /\ rd[r].key \in Key /\ rd[r].pc = "get"
      /\ ServerOf[r] \in alive
  BY ReaderHas DEF Hit
<1>2. /\ cache[rd[r].key] \in Row /\ user[cache[rd[r].key].uid] # None
      /\ Names(rd[r].key, cache[rd[r].key].uid) /\ cache[rd[r].key] # None
  BY <1>1 DEF Hit, CacheInv, CacheIsCurrent, CacheTypeOK
<1>3. /\ x \in Reading /\ x.pc = "done" /\ x.key = rd[r].key /\ x.row = cache[rd[r].key]
      /\ x.uid = rd[r].uid /\ x.known = rd[r].known
  BY <1>1, <1>2 DEF Reading
<1>4. rd' = [rd EXCEPT ![r] = x] /\ UNCHANGED alive /\ Aside
  BY DEF Hit, Aside
<1> HIDE DEF x
<1>5. KeyFits(x) /\ RowFits(x) /\ FoundOne(x)
  BY <1>1, <1>2, <1>3 DEF KeyFits, RowFits, FoundOne
<1> QED BY <1>1, <1>3, <1>4, <1>5, ReaderMoves

(* On to MySQL, with the number of the text in a search by number.         *)
LEMMA MissInv ==
  ASSUME Parameters, CacheInv, NEW r \in Reader, Miss(r)
  PROVE  CacheInv'
<1> DEFINE bynumber == rd[r].key[1] = "ubaseinfo_" /\ rd[r].uid = None
           n == IF bynumber THEN NumberOf[rd[r].key[2]] ELSE rd[r].uid
           x == [rd[r] EXCEPT !.pc = "query", !.uid = n]
<1>1. /\ rd[r] \in Reading /\ KeyFits(rd[r]) /\ RowFits(rd[r])
      /\ rd[r].key \in Key /\ rd[r].pc = "get"
      /\ ServerOf[r] \in alive
  BY ReaderHas DEF Miss
<1>2. n \in Nat \cup {None, NoInt}
  BY <1>1 DEF Reading, Key, Parameters
<1>3. /\ x \in Reading /\ x.pc = "query" /\ x.key = rd[r].key /\ x.row = rd[r].row
      /\ x.uid = n /\ x.known = rd[r].known
  BY <1>1, <1>2 DEF Reading
<1>4. rd' = [rd EXCEPT ![r] = x] /\ UNCHANGED alive /\ Aside
  BY DEF Miss, Aside
<1>5. KeyFits(x) /\ RowFits(x) /\ FoundOne(x)
  BY <1>1, <1>3 DEF KeyFits, RowFits, FoundOne
<1> HIDE DEF x
<1> QED BY <1>1, <1>3, <1>4, <1>5, ReaderMoves

(* MySQL's row is the present one of the user that the key names; when     *)
(* there is none the reader knew of no such user.                          *)
LEMMA GetUserInv ==
  ASSUME Parameters, CacheInv, NEW r \in Reader, GetUser(r)
  PROVE  CacheInv'
<1>1. /\ rd[r] \in Reading /\ KeyFits(rd[r]) /\ RowFits(rd[r])
      /\ rd[r].key \in Key /\ rd[r].pc = "query"
      /\ ServerOf[r] \in alive
  BY ReaderHas DEF GetUser
<1>2. \A u \in Uid : u \in Matching(r) <=> u \in Registered /\ Names(rd[r].key, u)
  BY <1>1 DEF Matching, Names, Registered, KeyFits, Key
<1>3. UNCHANGED alive /\ Aside
  BY DEF GetUser, Aside
<1>4. ASSUME NEW u \in Matching(r), Found(r, u) PROVE CacheInv'
  <2> DEFINE x == [rd[r] EXCEPT !.pc = "set", !.row = [uid |-> u, pwd |-> user[u]]]
  <2>1. u \in Uid /\ user[u] # None /\ user[u] \in 0..MaxResets /\ Names(rd[r].key, u)
    BY <1>2 DEF Matching, Registered, CacheInv, CacheIsCurrent, CacheTypeOK
  <2>2. [uid |-> u, pwd |-> user[u]] \in Row /\ [uid |-> u, pwd |-> user[u]] # None
    BY <2>1 DEF Row, Parameters
  <2>3. /\ x \in Reading /\ x.pc = "set" /\ x.key = rd[r].key
        /\ x.row = [uid |-> u, pwd |-> user[u]]
        /\ x.uid = rd[r].uid /\ x.known = rd[r].known
    BY <1>1, <2>2 DEF Reading
  <2>4. rd' = [rd EXCEPT ![r] = x]
    BY <1>4 DEF Found
  <2> HIDE DEF x
  <2>5. KeyFits(x) /\ RowFits(x) /\ FoundOne(x)
    BY <1>1, <2>1, <2>2, <2>3 DEF KeyFits, RowFits, FoundOne
  <2> QED BY <1>1, <1>3, <2>3, <2>4, <2>5, ReaderMoves
<1>5. ASSUME Matching(r) = {}, Goto(r, "done") PROVE CacheInv'
  <2> DEFINE x == [rd[r] EXCEPT !.pc = "done"]
  <2>1. /\ x \in Reading /\ x.pc = "done" /\ x.key = rd[r].key /\ x.row = rd[r].row
        /\ x.uid = rd[r].uid /\ x.known = rd[r].known
    BY <1>1 DEF Reading
  <2>2. rd' = [rd EXCEPT ![r] = x]
    BY <1>5 DEF Goto
  <2> HIDE DEF x
  <2>3. KeyFits(x) /\ RowFits(x)
    BY <1>1, <2>1 DEF KeyFits, RowFits
  <2>4. FoundOne(x)
    BY <1>1, <1>2, <1>5, <2>1 DEF FoundOne, KeyFits, Reading
  <2> QED BY <1>1, <1>3, <2>1, <2>2, <2>3, <2>4, ReaderMoves
<1> QED BY <1>4, <1>5 DEF GetUser

(* A query that fails spoils the search, whatever it answers.              *)
LEMMA GetUserFailsInv ==
  ASSUME Parameters, CacheInv, NEW r \in Reader, GetUserFails(r)
  PROVE  CacheInv'
<1> DEFINE x == [rd[r] EXCEPT !.pc = "done", !.bad = TRUE]
<1>1. /\ rd[r] \in Reading /\ KeyFits(rd[r]) /\ RowFits(rd[r])
      /\ rd[r].key \in Key /\ rd[r].pc = "query"
      /\ ServerOf[r] \in alive
  BY ReaderHas DEF GetUserFails
<1>2. /\ x \in Reading /\ x.pc = "done" /\ x.key = rd[r].key /\ x.row = rd[r].row
      /\ x.uid = rd[r].uid /\ x.known = rd[r].known /\ x.bad = TRUE
  BY <1>1 DEF Reading
<1>3. rd' = [rd EXCEPT ![r] = x] /\ UNCHANGED alive /\ Aside
  BY DEF GetUserFails, Aside
<1> HIDE DEF x
<1>4. KeyFits(x) /\ RowFits(x) /\ FoundOne(x)
  BY <1>1, <1>2 DEF KeyFits, RowFits, FoundOne
<1> QED BY <1>1, <1>2, <1>3, <1>4, ReaderMoves

(* A reader that has answered knows nothing any more.                      *)
LEMMA AnswerInv ==
  ASSUME Parameters, CacheInv, NEW r \in Reader, Answer(r)
  PROVE  CacheInv'
<1>1. /\ Idle \in Reading /\ Idle.pc = "idle" /\ Idle.key = None
      /\ Idle.row = None /\ Idle.uid = None /\ Idle.known = {}
  BY DEF Idle, Reading
<1>2. ServerOf[r] \in alive /\ rd' = [rd EXCEPT ![r] = Idle] /\ UNCHANGED alive /\ Aside
  BY ReaderHas DEF Answer, Aside
<1>3. KeyFits(Idle) /\ RowFits(Idle) /\ FoundOne(Idle)
  BY <1>1 DEF KeyFits, RowFits, FoundOne
<1> QED BY <1>1, <1>2, <1>3, ReaderMoves

(* The row is stored: it is of the user that the key names.                *)
LEMMA SetCachedInv ==
  ASSUME Parameters, CacheInv, NEW r \in Reader, SetCached(r)
  PROVE  CacheInv'
<1> DEFINE x == [rd[r] EXCEPT !.pc = "done"]
<1>1. /\ rd[r] \in Reading /\ KeyFits(rd[r]) /\ RowFits(rd[r])
      /\ rd[r].key \in Key /\ rd[r].pc = "set" /\ rd[r].row \in Row
      /\ ServerOf[r] \in alive
  BY ReaderHas DEF SetCached, RowFits, Reading
<1>2. /\ x \in Reading /\ x.pc = "done" /\ x.key = rd[r].key /\ x.row = rd[r].row
      /\ x.uid = rd[r].uid /\ x.known = rd[r].known
  BY <1>1 DEF Reading
<1>3. rd' = [rd EXCEPT ![r] = x] /\ UNCHANGED <<user, alive, spoilt>>
  BY DEF SetCached, Goto
<1> HIDE DEF x
<1>4. KeyFits(x) /\ RowFits(x) /\ FoundOne(x) /\ x.row # None
  BY <1>1, <1>2 DEF KeyFits, RowFits, FoundOne
<1>5. /\ rd' \in [Reader -> Reading] /\ rd'[r] = x
      /\ \A q \in Reader \ {r} : rd'[q] = rd[q]
  BY <1>2, <1>3 DEF CacheInv
<1>6. Readers'
  <2>1. Registered' = Registered
    BY <1>3 DEF Registered
  <2>2. \A y : KeyFits(y) /\ RowFits(y) /\ FoundOne(y)
               => KeyFits(y)' /\ RowFits(y)' /\ FoundOne(y)'
    BY <1>3, <2>1 DEF KeyFits, RowFits, FoundOne, Names
  <2> QED BY <1>2, <1>4, <1>5, <2>2 DEF Readers, CacheInv
<1>7. /\ cache' \in [Key -> Row \cup {None}]
      /\ \A k \in Key : cache'[k] # cache[k] => k = rd[r].key /\ cache'[k] = rd[r].row
  BY <1>1 DEF SetCached, CacheInv, CacheIsCurrent, CacheTypeOK
<1>8. CacheTypeOK'
  <2>1. /\ user' \in [Uid -> 0..MaxResets \cup {None}]
        /\ alive' \subseteq Server /\ spoilt' \subseteq Uid
    BY <1>3 DEF CacheInv, CacheIsCurrent, CacheTypeOK
  <2>2. \A q \in Reader : ServerOf[q] \notin alive' => rd'[q] = Idle
    BY <1>1, <1>3, <1>5 DEF CacheInv, CacheIsCurrent, CacheTypeOK
  <2> QED BY <1>5, <1>6, <1>7, <2>1, <2>2 DEF CacheTypeOK, Readers, Reading, KeyFits, RowFits
<1>9. \A k \in Key : cache'[k] # None =>
        /\ user'[cache'[k].uid] # None
        /\ Names(k, cache'[k].uid)
        /\ cache'[k].uid \notin spoilt' => cache'[k].pwd = user'[cache'[k].uid]
  <2> SUFFICES ASSUME NEW k \in Key, cache'[k] # None
               PROVE  /\ user[cache'[k].uid] # None
                      /\ Names(k, cache'[k].uid)
                      /\ cache'[k].uid \notin spoilt => cache'[k].pwd = user[cache'[k].uid]
    BY <1>3
  <2>1. CASE cache'[k] = cache[k]
    BY <2>1 DEF CacheInv, CacheIsCurrent
  <2>2. CASE k = rd[r].key /\ cache'[k] = rd[r].row
    BY <1>1, <2>2 DEF RowFits
  <2> QED BY <1>7, <2>1, <2>2
<1>10. CacheIsCurrent'
  BY <1>8, <1>9 DEF CacheIsCurrent, Names
<1> QED BY <1>5, <1>6, <1>9, <1>10 DEF CacheInv

(* The process of a server ends: its readers are gone.                     *)
LEMMA StoiThrowsInv ==
  ASSUME Parameters, CacheInv, NEW r \in Reader, StoiThrows(r)
  PROVE  CacheInv'
<1>1. /\ Idle \in Reading /\ Idle.pc = "idle" /\ Idle.key = None
      /\ Idle.row = None /\ Idle.uid = None /\ Idle.known = {}
  BY DEF Idle, Reading
<1>2. Aside /\ alive' = alive \ {ServerOf[r]}
  BY DEF StoiThrows, Aside
<1>3. /\ \A q \in Reader : rd'[q] = IF ServerOf[q] = ServerOf[r] THEN Idle ELSE rd[q]
      /\ rd' \in [Reader -> Reading]
  BY <1>1 DEF StoiThrows, CacheInv
<1>4. Readers'
  <2>1. Registered' = Registered
    BY <1>2 DEF Registered, Aside
  <2>2. \A y : KeyFits(y) /\ RowFits(y) /\ FoundOne(y)
               => KeyFits(y)' /\ RowFits(y)' /\ FoundOne(y)'
    BY <1>2, <2>1 DEF KeyFits, RowFits, FoundOne, Names, Aside
  <2>3. KeyFits(Idle) /\ RowFits(Idle) /\ FoundOne(Idle)
    BY <1>1 DEF KeyFits, RowFits, FoundOne
  <2> QED BY <1>1, <1>3, <2>2, <2>3 DEF Readers, CacheInv
<1>5. CacheIsCurrent'
  <2>1. CacheTypeOK'
    <3>1. /\ user' \in [Uid -> 0..MaxResets \cup {None}]
          /\ cache' \in [Key -> Row \cup {None}]
          /\ alive' \subseteq Server /\ spoilt' \subseteq Uid
      BY <1>2 DEF CacheInv, CacheIsCurrent, CacheTypeOK, Aside
    <3>2. \A q \in Reader : ServerOf[q] \notin alive' => rd'[q] = Idle
      BY <1>2, <1>3 DEF CacheInv, CacheIsCurrent, CacheTypeOK
    <3> QED BY <1>3, <1>4, <3>1, <3>2 DEF CacheTypeOK, Readers, Reading, KeyFits, RowFits
  <2> QED BY <1>2, <2>1 DEF CacheInv, CacheIsCurrent, Aside, Names
<1> QED BY <1>2, <1>3, <1>4, <1>5 DEF CacheInv, Aside

(* The gate writes to MySQL: what has been read of the user is of before.  *)
LEMMA UserMoves ==
  ASSUME Parameters, CacheInv, NEW u \in Uid, NEW w \in 0..MaxResets,
         user' = [user EXCEPT ![u] = w], UNCHANGED <<cache, rd, alive>>,
         spoilt \subseteq spoilt', spoilt' \subseteq Uid,
         user[u] = None \/ ~CopiedOf(u) \/ u \in spoilt'
  PROVE  CacheInv'
<1>1. /\ user \in [Uid -> 0..MaxResets \cup {None}] /\ w # None
      /\ user'[u] = w /\ \A v \in Uid \ {u} : user'[v] = user[v]
  BY DEF CacheInv, CacheIsCurrent, CacheTypeOK, Parameters
<1>2. \A v \in Uid : user[v] # None => user'[v] # None
  BY <1>1
<1>3. Registered \subseteq Registered'
  BY <1>2 DEF Registered
<1>4. Readers'
  <2> SUFFICES ASSUME NEW r \in Reader
               PROVE  rd[r] \in Reading /\ KeyFits(rd[r])' /\ RowFits(rd[r])' /\ FoundOne(rd[r])'
    BY DEF Readers
  <2>1. rd[r] \in Reading /\ KeyFits(rd[r]) /\ RowFits(rd[r]) /\ FoundOne(rd[r])
    BY DEF CacheInv, Readers
  <2>2. KeyFits(rd[r])'
    BY <1>3, <2>1 DEF KeyFits
  <2>3. RowFits(rd[r])'
    <3>1. rd[r].row # None => rd[r].row.uid \in Uid
      BY <2>1 DEF Reading, Row
    <3>2. rd[r].pc = "set" /\ rd[r].row.uid = u /\ user[u] # None => u \in spoilt'
      BY DEF CopiedOf
    <3> QED BY <1>1, <1>2, <2>1, <3>1, <3>2 DEF RowFits, Names
  <2>4. FoundOne(rd[r])'
    BY <2>1 DEF FoundOne, Names
  <2> QED BY <2>1, <2>2, <2>3, <2>4
<1>5. CacheTypeOK'
  BY <1>1 DEF CacheInv, CacheIsCurrent, CacheTypeOK
<1>6. \A k \in Key : cache[k] # None =>
        /\ user'[cache[k].uid] # None
        /\ Names(k, cache[k].uid)
        /\ cache[k].uid \notin spoilt' => cache[k].pwd = user'[cache[k].uid]
  <2> SUFFICES ASSUME NEW k \in Key, cache[k] # None
               PROVE  /\ user'[cache[k].uid] # None
                      /\ Names(k, cache[k].uid)
                      /\ cache[k].uid \notin spoilt' => cache[k].pwd = user'[cache[k].uid]
    OBVIOUS
  <2>1. /\ cache[k].uid \in Uid /\ user[cache[k].uid] # None
        /\ Names(k, cache[k].uid)
        /\ cache[k].uid \notin spoilt => cache[k].pwd = user[cache[k].uid]
    BY DEF CacheInv, CacheIsCurrent, CacheTypeOK, Row
  <2>2. cache[k].uid = u => u \in spoilt'
    BY <2>1 DEF CopiedOf
  <2> QED BY <1>1, <1>2, <2>1, <2>2
<1>7. CacheIsCurrent'
  BY <1>5, <1>6 DEF CacheIsCurrent, Names
<1> QED BY <1>4, <1>6, <1>7 DEF CacheInv

(* The gate registers a user or resets a password.                         *)
LEMMA GateInv ==
  ASSUME Parameters, CacheInv, NEW u \in Uid, Register(u) \/ ResetPwd(u)
  PROVE  CacheInv'
<1>1. user \in [Uid -> 0..MaxResets \cup {None}] /\ spoilt \subseteq Uid
  BY DEF CacheInv, CacheIsCurrent, CacheTypeOK
<1>2. CASE Register(u)
  <2>1. 0 \in 0..MaxResets
    BY DEF Parameters
  <2> QED BY <1>1, <1>2, <2>1, UserMoves DEF Register
<1>3. CASE ResetPwd(u)
  <2>1. user[u] + 1 \in 0..MaxResets
    BY <1>1, <1>3 DEF ResetPwd, Parameters
  <2>2. /\ user' = [user EXCEPT ![u] = user[u] + 1] /\ UNCHANGED <<cache, rd, alive>>
        /\ spoilt \subseteq spoilt' /\ spoilt' \subseteq Uid
        /\ ~CopiedOf(u) \/ u \in spoilt'
    BY <1>1, <1>3 DEF ResetPwd
  <2> QED BY <2>1, <2>2, UserMoves
<1> QED BY <1>2, <1>3

(* At the start Redis has no entries and nobody reads.                     *)
LEMMA InitCacheInv == ASSUME Parameters PROVE CacheInit => CacheInv
<1> SUFFICES ASSUME CacheInit PROVE CacheInv
  OBVIOUS
<1>1. /\ Idle \in Reading /\ Idle.pc = "idle" /\ Idle.key = None
      /\ Idle.row = None /\ Idle.uid = None /\ Idle.known = {}
  BY DEF Idle, Reading
<1>2. \A r \in Reader : rd[r] = Idle
  BY DEF CacheInit
<1>3. rd \in [Reader -> Reading] /\ Readers
  BY <1>1, <1>2 DEF CacheInit, Readers, KeyFits, RowFits, FoundOne
<1>4. CacheTypeOK
  BY <1>1, <1>2 DEF CacheInit, CacheTypeOK
<1> QED BY <1>3, <1>4 DEF CacheInv, CacheIsCurrent, CacheInit

(* Every step of UserCache keeps the invariant.                            *)
LEMMA NextCacheInv == ASSUME Parameters, CacheInv, [CacheNext]_(cacheVars) PROVE CacheInv'
<1>1. ASSUME NEW r \in Reader, Read(r) PROVE CacheInv'
  BY <1>1, HitInv, MissInv, StoiThrowsInv, GetUserInv, GetUserFailsInv, SetCachedInv, AnswerInv
     DEF Read
<1>2. ASSUME NEW r \in Reader, NEW text \in Text, SearchInfo(r, text) PROVE CacheInv'
  BY <1>2, SearchInv
<1>3. ASSUME NEW r \in Reader, NEW u \in Uid, GetBaseInfo(r, u) \/ NotifyBaseInfo(r, u)
      PROVE  CacheInv'
  BY <1>3, BaseInfoInv
<1>4. ASSUME NEW u \in Uid, Register(u) \/ ResetPwd(u) PROVE CacheInv'
  BY <1>4, GateInv
<1>5. ASSUME UNCHANGED cacheVars PROVE CacheInv'
  BY <1>5 DEF cacheVars, CacheInv, CacheIsCurrent, CacheTypeOK, Names, Readers, KeyFits,
     RowFits, FoundOne, Registered
<1> QED BY <1>1, <1>2, <1>3, <1>4, <1>5 DEF CacheNext

(* The invariant holds always.                                             *)
LEMMA CacheInductive == ASSUME Parameters PROVE CacheSpec => []CacheInv
  BY InitCacheInv, NextCacheInv, PTL DEF CacheSpec

(* Whatever readers on all servers store at the same time, an entry of     *)
(* Redis is the row of the user its key names, and the present one unless  *)
(* the password was reset behind it.                                       *)
THEOREM EntriesAreCurrent == CacheSpec => []CacheIsCurrent
<1>1. CacheInv => CacheIsCurrent
  BY DEF CacheInv
<1>2. CacheSpec => []CacheInv
  BY ParametersAssumption, CacheInductive
<1> QED BY <1>1, <1>2, PTL

(* A search finds a user it names, if there was one in the table when it   *)
(* began and no query failed; names need not be unique.                    *)
THEOREM SearchesFind == CacheSpec => []SearchFinds
<1>1. CacheInv => SearchFinds
  <2> SUFFICES ASSUME CacheInv, NEW r \in LogicWorker, NEW u \in Uid, rd[r].pc = "done", ~rd[r].bad,
                      u \in rd[r].known, Names(rd[r].key, u)
               PROVE  rd[r].row # None /\ rd[r].row.uid \in {v \in Uid : Names(rd[r].key, v)}
    BY DEF SearchFinds
  <2>1. /\ r \in Reader /\ rd[r] \in Reading /\ RowFits(rd[r]) /\ FoundOne(rd[r])
        /\ rd[r].key \in Key
    BY ReaderHas, ParametersAssumption DEF Parameters
  <2>2. rd[r].row # None
    BY <2>1 DEF FoundOne
  <2>3. rd[r].row.uid \in Uid /\ Names(rd[r].key, rd[r].row.uid)
    BY <2>1, <2>2 DEF RowFits, Reading, Row
  <2> QED BY <2>2, <2>3
<1>2. CacheSpec => []CacheInv
  BY ParametersAssumption, CacheInductive
<1> QED BY <1>1, <1>2, PTL
=============================================================================
