---------------------------- MODULE SessionProofs ---------------------------
(***************************************************************************)
(* Proofs about a session.  Its send side, SendQueue, for every            *)
(* MAX_SENDQUE, every number of pieces per frame and every number of calls *)
(* of Send; its receiving side, Framing, for every width of a field, every *)
(* MAX_LENGTH and all frames.                                              *)
(***************************************************************************)
EXTENDS SendQueue, Framing, SequenceTheorems, TLAPS

(* The queue holds the latest accepted frames, in order.                   *)
QueueInv == /\ Len(sendQue) <= accepted
            /\ \A i \in 1..Len(sendQue) : sendQue[i] = accepted - Len(sendQue) + i

(* A write that is outstanding carries the front of the queue.             *)
WriteInv == \A w \in writes : /\ sendQue # <<>>
                              /\ w.frame = accepted - Len(sendQue) + 1
                              /\ w.result = "ok" => w.done = Parts
                              /\ w.result = "pending" => w.done < Parts /\ open

(* Where the wire ends, as far as a write may still follow.                *)
WireInv == /\ \A w \in writes :
                FS!End(wire) = IF w.done = 0
                               THEN [frame |-> accepted - Len(sendQue), part |-> Parts]
                               ELSE [frame |-> w.frame, part |-> w.done]
           /\ sendQue = <<>> => FS!End(wire) = [frame |-> accepted, part |-> Parts]

(* The inductive invariant: none of the four properties is inductive       *)
(* without knowing which frame the outstanding write carries.              *)
IInv == /\ TypeOK
        /\ QueueInv
        /\ OneWriteOutstanding
        /\ WriteInv
        /\ WireInv
        /\ StalledOnlyWhenClosed
        /\ FramesContiguous

USE MaxSendQueAssumption, PartsAssumption, MaxSendsAssumption

(* The last piece of a wire that has just grown is the piece appended.     *)
LEMMA EndOfAppend ==
  ASSUME NEW w \in Seq(FS!Piece), NEW p \in FS!Piece
  PROVE  /\ Append(w, p) \in Seq(FS!Piece)
         /\ FS!End(Append(w, p)) = p
<1>1. Append(w, p) \in Seq(FS!Piece) /\ Len(Append(w, p)) = Len(w) + 1
  OBVIOUS
<1>2. Append(w, p) # <<>> /\ Append(w, p)[Len(w) + 1] = p
  OBVIOUS
<1> QED BY <1>1, <1>2 DEF FS!End

(* Appending the piece that must follow the end keeps the frames whole.    *)
LEMMA ContiguousAppend ==
  ASSUME wire \in Seq(FS!Piece), FramesContiguous,
         NEW p \in FS!Piece, p = FS!After(FS!End(wire)),
         wire' = Append(wire, p)
  PROVE  FramesContiguous'
<1>1. SUFFICES ASSUME NEW k \in 1..Len(wire')
               PROVE  wire'[k] = FS!After(IF k = 1 THEN FS!End(<<>>) ELSE wire'[k - 1])
  BY DEF FramesContiguous, FS!After, FS!End
<1>2. Len(wire') = Len(wire) + 1 /\ wire'[Len(wire) + 1] = p
      /\ \A j \in 1..Len(wire) : wire'[j] = wire[j]
  OBVIOUS
<1>3. CASE k \in 1..Len(wire)
  <2>1. wire[k] = FS!After(IF k = 1 THEN FS!End(<<>>) ELSE wire[k - 1])
    BY <1>3 DEF FramesContiguous
  <2>2. k # 1 => k - 1 \in 1..Len(wire)
    BY <1>3
  <2> QED BY <2>1, <2>2, <1>2, <1>3
<1>4. CASE k = Len(wire) + 1
  <2>1. CASE wire = <<>>
    BY <2>1, <1>2, <1>4
  <2>2. CASE wire # <<>>
    <3>1. Len(wire) \in Nat \ {0} /\ FS!End(wire) = wire[Len(wire)]
      BY <2>2 DEF FS!End
    <3> QED BY <3>1, <1>2, <1>4
  <2> QED BY <2>1, <2>2
<1> QED BY <1>1, <1>2, <1>3, <1>4

(* Closing the socket keeps at most one write and its frame.               *)
LEMMA AbortedWrites ==
  ASSUME NEW ws \in SUBSET Write, NEW v \in Aborted(ws)
  PROVE  \E w \in ws : /\ v \in Write
                       /\ v.frame = w.frame /\ v.done = w.done
                       /\ v.result # "pending"
                       /\ v.result = "ok" => w.result = "ok"
BY DEF Aborted, Failed, Write

(* In the beginning nothing has been sent.                                 *)
LEMMA InitIInv == Init => IInv
<1> SUFFICES ASSUME Init PROVE IInv
  OBVIOUS
<1>1. TypeOK
  <2>1. sendQue \in Seq(Nat) /\ Len(sendQue) <= MaxSendQue + 1 /\ wire \in Seq(FS!Piece)
    BY DEF Init
  <2>2. writes \subseteq Write
    BY DEF Init
  <2>3. open \in BOOLEAN /\ reading \in BOOLEAN /\ cleared \in BOOLEAN
        /\ accepted \in Nat /\ refused \in BOOLEAN
    BY DEF Init
  <2> QED BY <2>1, <2>2, <2>3 DEF TypeOK
<1>2. FS!End(wire) = [frame |-> 0, part |-> Parts] /\ Len(sendQue) = 0
  BY DEF Init, FS!End
<1> QED BY <1>1, <1>2 DEF Init, IInv, QueueInv, OneWriteOutstanding, WriteInv, WireInv,
                         StalledOnlyWhenClosed, FramesContiguous

(* The accepted calls: the new frame is the last of the queue, and it is   *)
(* handed to the socket exactly when the queue was empty.                  *)
LEMMA SendIInv == ASSUME IInv, Send PROVE IInv'
<1> USE DEF IInv
<1>1. sendQue' \in Seq(Nat) /\ Len(sendQue') = Len(sendQue) + 1 /\ sendQue' # <<>>
      /\ sendQue'[Len(sendQue) + 1] = accepted + 1
      /\ \A i \in 1..Len(sendQue) : sendQue'[i] = sendQue[i]
  BY DEF Send, TypeOK
<1>2. QueueInv'
  BY <1>1 DEF QueueInv, Send, TypeOK
<1>3. FS!End(wire)' = FS!End(wire) /\ wire' = wire
  BY DEF Send, FS!End
<1>4. CASE sendQue = <<>>
  <2> DEFINE n == StartWrite(sendQue')
  <2>1. writes = {} /\ writes' = {n}
    BY <1>4 DEF Send, WriteInv
  <2>2. Head(sendQue') = accepted + 1 /\ Len(sendQue) = 0
    BY <1>1, <1>4
  <2>3. n = [frame |-> accepted + 1, done |-> 0, result |-> IF open THEN "pending" ELSE "error"]
    BY <2>2 DEF StartWrite
  <2>4. n \in Write /\ n.frame = accepted + 1 /\ n.done = 0
        /\ n.result # "ok" /\ (n.result = "pending" => open)
    BY <2>3 DEF Write, TypeOK
  <2> HIDE DEF n
  <2>5. TypeOK'
    <3>1. writes' \subseteq Write
      BY <2>1, <2>4
    <3>2. accepted' \in Nat /\ Len(sendQue') <= MaxSendQue + 1
      BY <1>1 DEF TypeOK, Send
    <3> QED BY <1>1, <3>1, <3>2 DEF TypeOK, Send
  <2>6. OneWriteOutstanding'
    BY <2>1 DEF OneWriteOutstanding
  <2>7. WriteInv'
    <3>1. accepted' - Len(sendQue') + 1 = accepted + 1
      BY <2>2, <1>1 DEF Send, TypeOK
    <3>2. n.result = "pending" => n.done < Parts /\ open'
      BY <2>4 DEF Send
    <3> QED BY <2>1, <2>4, <1>1, <3>1, <3>2 DEF WriteInv
  <2>8. WireInv'
    <3>1. FS!End(wire)' = [frame |-> accepted, part |-> Parts]
      BY <1>3, <1>4 DEF WireInv
    <3>2. accepted' - Len(sendQue') = accepted
      BY <1>1, <2>2 DEF Send, TypeOK
    <3> QED BY <1>1, <2>1, <2>4, <3>1, <3>2 DEF WireInv
  <2> QED BY <2>1, <2>5, <2>6, <2>7, <2>8, <1>2, <1>3 DEF StalledOnlyWhenClosed, FramesContiguous
<1>5. CASE sendQue # <<>>
  <2>1. writes' = writes /\ open' = open /\ cleared' = cleared /\ accepted' = accepted + 1
    BY <1>5 DEF Send
  <2>2. TypeOK'
    BY <2>1, <1>1 DEF TypeOK, Send, Write, FS!Piece
  <2>3. WriteInv' /\ WireInv'
    <3>1. WriteInv'
      BY <2>1, <1>1 DEF WriteInv, TypeOK
    <3>2. WireInv'
      BY <2>1, <1>1, <1>3 DEF WireInv, TypeOK
    <3> QED BY <3>1, <3>2
  <2> QED BY <2>1, <2>2, <2>3, <1>2, <1>3, <1>5
          DEF OneWriteOutstanding, StalledOnlyWhenClosed, FramesContiguous
<1> QED BY <1>4, <1>5

(* The kernel takes a piece: it is the piece the wire has to go on with.   *)
LEMMA SocketTakesIInv == ASSUME IInv, NEW w \in writes, SocketTakes(w) PROVE IInv'
<1> USE DEF IInv
<1> DEFINE p == [frame |-> w.frame, part |-> w.done + 1]
           n == Advanced(w)
<1>1. w \in Write /\ w.done < Parts /\ open /\ sendQue # <<>>
      /\ w.frame = accepted - Len(sendQue) + 1
  BY DEF SocketTakes, WriteInv, TypeOK
<1>2. writes = {w} /\ writes' = {n} /\ wire' = Append(wire, p)
  BY DEF OneWriteOutstanding, SocketTakes
<1>3. n \in Write /\ n.frame = w.frame /\ n.done = w.done + 1
      /\ n.result = IF w.done + 1 = Parts THEN "ok" ELSE "pending"
  BY <1>1 DEF Write, Advanced
<1>4. p \in FS!Piece /\ p.frame = w.frame /\ p.part = w.done + 1
  BY <1>1 DEF FS!Piece, Write
<1>5. FS!After(FS!End(wire)) = p
  BY <1>1, <1>2 DEF WireInv, FS!After, Write, TypeOK
<1> HIDE DEF p, n
<1>6. wire' \in Seq(FS!Piece) /\ FS!End(wire)' = p
  BY <1>2, <1>4, EndOfAppend DEF TypeOK
<1>7. FramesContiguous'
  BY <1>2, <1>4, <1>5, ContiguousAppend DEF TypeOK
<1>8. UNCHANGED <<sendQue, open, reading, cleared, accepted, refused>>
  BY DEF SocketTakes
<1>9. TypeOK'
  BY <1>2, <1>3, <1>6, <1>8 DEF TypeOK
<1>10. WriteInv'
  BY <1>1, <1>2, <1>3, <1>8 DEF WriteInv, Write
<1>11. WireInv'
  <2>1. p = [frame |-> w.frame, part |-> w.done + 1]
    BY DEF p
  <2> QED BY <1>1, <1>2, <1>3, <1>6, <1>8, <2>1 DEF WireInv, Write
<1> QED BY <1>2, <1>7, <1>8, <1>9, <1>10, <1>11
        DEF QueueInv, OneWriteOutstanding, StalledOnlyWhenClosed

(* A write that fails leaves what it has written.                          *)
LEMMA SocketFailsIInv == ASSUME IInv, NEW w \in writes, SocketFails(w) PROVE IInv'
<1> USE DEF IInv
<1> DEFINE n == Failed(w)
<1>1. w \in Write /\ writes = {w} /\ writes' = {n}
  BY DEF OneWriteOutstanding, SocketFails, TypeOK
<1>2. n \in Write /\ n.frame = w.frame /\ n.done = w.done /\ n.result = "error"
  BY <1>1 DEF Write, Failed
<1> HIDE DEF n
<1>3. UNCHANGED <<sendQue, open, reading, cleared, accepted, refused, wire>>
  BY DEF SocketFails
<1>4. FS!End(wire)' = FS!End(wire)
  BY <1>3 DEF FS!End
<1> QED BY <1>1, <1>2, <1>3, <1>4
        DEF TypeOK, QueueInv, OneWriteOutstanding, WriteInv, WireInv,
            StalledOnlyWhenClosed, FramesContiguous

(* A write has ended: the frame it carried, which is complete on the wire, *)
(* leaves the queue, and the next one is handed to the socket.             *)
LEMMA HandleWriteIInv == ASSUME IInv, NEW w \in writes, HandleWrite(w) PROVE IInv'
<1> USE DEF IInv
<1>1. writes = {w} /\ w \in Write /\ w.done = Parts /\ sendQue # <<>>
      /\ w.frame = accepted - Len(sendQue) + 1
  BY DEF HandleWrite, OneWriteOutstanding, WriteInv, TypeOK
<1>2. UNCHANGED <<open, reading, cleared, accepted, refused, wire>> /\ sendQue' = Tail(sendQue)
  BY DEF HandleWrite
<1>3. sendQue' \in Seq(Nat) /\ Len(sendQue') = Len(sendQue) - 1
      /\ \A i \in 1..Len(sendQue') : sendQue'[i] = sendQue[i + 1]
  BY <1>1, <1>2 DEF TypeOK
<1>4. QueueInv'
  BY <1>1, <1>2, <1>3 DEF QueueInv, TypeOK
<1>5. FS!End(wire)' = FS!End(wire)
  BY <1>2 DEF FS!End
<1>6. FS!End(wire) = [frame |-> accepted - Len(sendQue'), part |-> Parts]
  BY <1>1, <1>3 DEF WireInv, Write, TypeOK
<1>7. CASE sendQue' = <<>>
  <2>1. writes' = {} /\ Len(sendQue') = 0
    BY <1>1, <1>7 DEF HandleWrite
  <2>2. TypeOK'
    BY <1>2, <1>3, <2>1 DEF TypeOK
  <2>3. WireInv'
    <3>1. FS!End(wire)' = [frame |-> accepted', part |-> Parts]
      BY <1>2, <1>5, <1>6, <2>1 DEF TypeOK
    <3> QED BY <2>1, <3>1 DEF WireInv
  <2> QED BY <1>2, <1>4, <1>7, <2>1, <2>2, <2>3
          DEF OneWriteOutstanding, WriteInv, StalledOnlyWhenClosed, FramesContiguous
<1>8. CASE sendQue' # <<>>
  <2> DEFINE n == StartWrite(sendQue')
  <2>1. writes' = {n}
    BY <1>1, <1>8 DEF HandleWrite
  <2>2. Head(sendQue') = accepted - Len(sendQue') + 1 /\ Head(sendQue') \in Nat
    <3>1. Len(sendQue') \in Nat \ {0} /\ Head(sendQue') = sendQue'[1] /\ sendQue'[1] \in Nat
      BY <1>3, <1>8
    <3>2. accepted' = accepted /\ accepted \in Nat
      BY <1>2 DEF TypeOK
    <3>3. sendQue'[1] = accepted' - Len(sendQue') + 1
      BY <1>4, <3>1 DEF QueueInv
    <3> QED BY <3>1, <3>2, <3>3
  <2>3. n \in Write /\ n.frame = accepted - Len(sendQue') + 1 /\ n.done = 0
        /\ n.result # "ok" /\ (n.result = "pending" => open)
    BY <2>2 DEF Write, TypeOK, StartWrite
  <2> HIDE DEF n
  <2>4. TypeOK'
    BY <1>2, <1>3, <2>1, <2>3 DEF TypeOK
  <2>5. WriteInv'
    BY <1>2, <1>3, <1>8, <2>1, <2>3 DEF WriteInv
  <2>6. WireInv'
    BY <1>2, <1>5, <1>6, <1>8, <2>1, <2>3 DEF WireInv
  <2> QED BY <1>2, <1>4, <2>1, <2>4, <2>5, <2>6
          DEF OneWriteOutstanding, StalledOnlyWhenClosed, FramesContiguous
<1> QED BY <1>7, <1>8

(* The handlers that close the socket: a write that is left can only fail. *)
LEMMA CloseIInv ==
  ASSUME IInv, NEW ws \in SUBSET writes,
         open' = FALSE, cleared' = TRUE, reading' \in BOOLEAN, writes' = Aborted(ws),
         UNCHANGED <<sendQue, accepted, refused, wire>>
  PROVE  IInv'
<1> USE DEF IInv
<1>1. ws \in SUBSET Write
  BY DEF TypeOK
<1>2. \A v \in writes' : \E w \in writes :
        /\ v \in Write
        /\ v.frame = w.frame /\ v.done = w.done
        /\ v.result # "pending"
        /\ v.result = "ok" => w.result = "ok"
  BY <1>1, AbortedWrites
<1>3. TypeOK'
  <2>1. writes' \subseteq Write
    BY <1>2
  <2> QED BY <2>1 DEF TypeOK
<1>4. \A v, w \in ws : v = w
  BY DEF OneWriteOutstanding
<1>5. OneWriteOutstanding'
  BY <1>4 DEF OneWriteOutstanding, Aborted
<1>6. WriteInv'
  <2> SUFFICES ASSUME NEW v \in writes'
               PROVE  /\ sendQue # <<>> /\ v.frame = accepted - Len(sendQue) + 1
                      /\ v.result = "ok" => v.done = Parts
                      /\ v.result # "pending"
    BY DEF WriteInv
  <2>1. PICK w \in writes : /\ v.frame = w.frame /\ v.done = w.done
                            /\ v.result # "pending"
                            /\ v.result = "ok" => w.result = "ok"
    BY <1>2
  <2> QED BY <2>1 DEF WriteInv
<1>7. FS!End(wire)' = FS!End(wire)
  BY DEF FS!End
<1>8. WireInv'
  <2> SUFFICES ASSUME NEW v \in writes'
               PROVE  FS!End(wire) = IF v.done = 0
                                     THEN [frame |-> accepted - Len(sendQue), part |-> Parts]
                                     ELSE [frame |-> v.frame, part |-> v.done]
    BY <1>7 DEF WireInv
  <2>1. PICK w \in writes : v.frame = w.frame /\ v.done = w.done
    BY <1>2
  <2> QED BY <2>1 DEF WireInv
<1> QED BY <1>3, <1>5, <1>6, <1>8 DEF QueueInv, StalledOnlyWhenClosed, FramesContiguous

(* The handler of a failed write closes the session,                       *)
LEMMA HandleWriteErrorIInv ==
  ASSUME IInv, NEW w \in writes, HandleWriteError(w) PROVE IInv'
<1>1. writes \ {w} \in SUBSET writes
  OBVIOUS
<1>2. reading' \in BOOLEAN
  BY DEF HandleWriteError, IInv, TypeOK
<1> QED BY <1>1, <1>2, CloseIInv DEF HandleWriteError

(* and so does the handler of a failed read.                               *)
LEMMA ReadErrorIInv == ASSUME IInv, ReadError PROVE IInv'
BY CloseIInv DEF ReadError

(* The steps that leave the queue, the writes and the wire alone.          *)
LEMMA OtherIInv == ASSUME IInv, InvalidHeader \/ SendFull \/ UNCHANGED vars PROVE IInv'
<1>1. UNCHANGED <<sendQue, writes, open, accepted, wire>>
      /\ reading' \in BOOLEAN /\ refused' \in BOOLEAN /\ cleared' \in BOOLEAN
      /\ (cleared => cleared')
  BY DEF InvalidHeader, SendFull, vars, IInv, TypeOK
<1>2. FS!End(wire)' = FS!End(wire)
  BY <1>1 DEF FS!End
<1> QED BY <1>1, <1>2
        DEF IInv, TypeOK, QueueInv, OneWriteOutstanding, WriteInv, WireInv,
            StalledOnlyWhenClosed, FramesContiguous

(* The inductive invariant holds in every reachable state of a session's   *)
(* send side (CSession.cpp Send, HandleWrite, Close).                      *)
THEOREM Invariant == SafeSpec => []IInv
<1>1. IInv /\ [Next]_vars => IInv'
  <2> SUFFICES ASSUME IInv, [Next]_vars PROVE IInv'
    OBVIOUS
  <2>1. CASE Send
    BY <2>1, SendIInv
  <2>2. CASE \E w \in writes : SocketTakes(w)
    BY <2>2, SocketTakesIInv
  <2>3. CASE \E w \in writes : SocketFails(w)
    BY <2>3, SocketFailsIInv
  <2>4. CASE \E w \in writes : HandleWrite(w)
    BY <2>4, HandleWriteIInv
  <2>5. CASE \E w \in writes : HandleWriteError(w)
    BY <2>5, HandleWriteErrorIInv
  <2>6. CASE ReadError
    BY <2>6, ReadErrorIInv
  <2>7. CASE InvalidHeader \/ SendFull \/ UNCHANGED vars
    BY <2>7, OtherIInv
  <2> QED BY <2>1, <2>2, <2>3, <2>4, <2>5, <2>6, <2>7 DEF Next
<1> QED BY <1>1, InitIInv, PTL DEF SafeSpec

(* Types of the send side, and the bound of one more than MAX_SENDQUE.     *)
THEOREM TypeCorrect == Spec => []TypeOK
BY Invariant, PTL DEF Spec, IInv

(* CSession never has two async_writes outstanding on its socket.          *)
THEOREM OneWrite == Spec => []OneWriteOutstanding
BY Invariant, PTL DEF Spec, IInv

(* Accepted frames leave whole and in order, whatever fails in between.    *)
THEOREM Contiguous == Spec => []FramesContiguous
BY Invariant, PTL DEF Spec, IInv

(* Messages are stranded in _send_que only on a closed, cleared session.   *)
THEOREM Stalled == Spec => []StalledOnlyWhenClosed
BY Invariant, PTL DEF Spec, IInv

(* Every step of the session is a step of the frame stream or changes      *)
(* nothing that the stream sees.                                           *)
LEMMA StepRefines == ASSUME IInv, [Next]_vars PROVE [FS!Next]_FS!vars
<1> USE DEF IInv
<1>1. CASE Send
  <2>1. accepted < MaxSends /\ accepted' = accepted + 1 /\ wire' = wire /\ open' = open
    BY <1>1 DEF Send
  <2>2. Up' = Up
    <3>1. CASE sendQue = <<>> /\ open
      <4>1. writes = {} /\ writes' = {StartWrite(sendQue')} /\ StartWrite(sendQue').result = "pending"
        BY <1>1, <3>1 DEF Send, WriteInv, StartWrite
      <4> QED BY <4>1, <2>1, <3>1 DEF Up
    <3>2. CASE sendQue # <<>>
      BY <1>1, <3>2 DEF Send, Up
    <3>3. CASE ~open
      BY <2>1, <3>3 DEF Up
    <3> QED BY <3>1, <3>2, <3>3
  <2>3. FS!Accept
    BY <2>1, <2>2 DEF FS!Accept, Up
  <2> QED BY <2>3 DEF FS!Next
<1>2. ASSUME NEW w \in writes, SocketTakes(w) PROVE FS!Next
  <2>1. w \in Write /\ w.done < Parts /\ open /\ w.frame = accepted - Len(sendQue) + 1
        /\ sendQue # <<>> /\ writes = {w} /\ writes' = {Advanced(w)} /\ w.result = "pending"
    BY <1>2 DEF SocketTakes, WriteInv, OneWriteOutstanding, TypeOK
  <2>2. FS!After(FS!End(wire)) = [frame |-> w.frame, part |-> w.done + 1]
    BY <2>1 DEF WireInv, FS!After, Write, TypeOK
  <2>3. w.frame <= accepted
    BY <2>1 DEF TypeOK
  <2>4. Up /\ Up' /\ accepted' = accepted
    BY <1>2, <2>1 DEF Up, SocketTakes, Advanced
  <2>5. wire' = Append(wire, FS!After(FS!End(wire)))
    BY <1>2, <2>2 DEF SocketTakes
  <2>6. FS!After(FS!End(wire)).frame <= accepted
    BY <2>2, <2>3
  <2>7. FS!Emit
    BY <2>4, <2>5, <2>6 DEF FS!Emit, Up
  <2> QED BY <2>7 DEF FS!Next
<1>3. ASSUME NEW w \in writes, SocketFails(w) PROVE FS!Next
  <2>1. Up /\ ~Up' /\ UNCHANGED <<accepted, wire>>
    <3>1. open /\ writes = {w} /\ writes' = {Failed(w)} /\ w.result = "pending"
          /\ UNCHANGED <<accepted, wire>>
      BY <1>3 DEF SocketFails, OneWriteOutstanding, WriteInv
    <3> QED BY <3>1 DEF Up, Failed
  <2>2. FS!Break
    BY <2>1 DEF FS!Break, Up
  <2> QED BY <2>2 DEF FS!Next
<1>4. ASSUME NEW w \in writes, HandleWrite(w) PROVE UNCHANGED FS!vars
  <2>1. writes = {w} /\ w.result = "ok" /\ UNCHANGED <<open, accepted, wire>>
    BY <1>4 DEF HandleWrite, OneWriteOutstanding
  <2>2. open => \A v \in writes' : v.result # "error"
    BY <1>4, <2>1 DEF HandleWrite, StartWrite
  <2>3. Up' = Up
    BY <2>1, <2>2 DEF Up
  <2> QED BY <2>1, <2>3 DEF FS!vars, Up
<1>5. ASSUME UNCHANGED <<accepted, wire>>, open' = FALSE PROVE [FS!Next]_FS!vars
  <2>1. ~Up'
    BY <1>5 DEF Up
  <2>2. CASE Up
    <3>1. FS!Break
      BY <2>1, <2>2, <1>5 DEF FS!Break, Up
    <3> QED BY <3>1 DEF FS!Next
  <2>3. CASE ~Up
    <3>1. Up' = Up
      BY <2>1, <2>3 DEF Up
    <3> QED BY <3>1, <1>5 DEF FS!vars, Up
  <2> QED BY <2>2, <2>3
<1>6. CASE \E w \in writes : HandleWriteError(w)
  BY <1>5, <1>6 DEF HandleWriteError
<1>7. CASE ReadError
  BY <1>5, <1>7 DEF ReadError
<1>8. CASE InvalidHeader \/ SendFull \/ UNCHANGED vars
  <2>1. UNCHANGED <<accepted, wire, open, writes>>
    BY <1>8 DEF InvalidHeader, SendFull, vars
  <2>2. Up' = Up
    BY <2>1 DEF Up
  <2> QED BY <2>1, <2>2 DEF FS!vars, Up
<1> QED BY <1>1, <1>2, <1>3, <1>4, <1>6, <1>7, <1>8 DEF Next

(* The session implements the safety of the frame stream: the client reads *)
(* a prefix of the accepted frames, byte for byte (CSession.cpp:40-72 and  *)
(* 175-198).                                                               *)
THEOREM Refinement == Spec => FS!SafeSpec
<1>1. Init => FS!Init
  BY DEF Init, FS!Init, Up
<1>2. IInv /\ [Next]_vars => [FS!Next]_FS!vars
  BY StepRefines
<1> QED BY <1>1, <1>2, Invariant, PTL DEF Spec, SafeSpec, FS!SafeSpec
-----------------------------------------------------------------------------
(* The receiving side of the session.                                      *)
(* What a stream consists of, and what the session makes of it.            *)
Unit == Nat \X Int
SentFrame == [id : Id, size : Size]
SentFrames(fs) == fs \in Seq(SentFrame)
Node == [id : Int, size : Nat, body : Seq(Unit)]

(* What comes behind the last thing that was read completely.              *)
Rest == data \o stream

(* From position base + 1 on, s is frames m, m + 1, ... of what the client *)
(* has sent, fs: off says where each of them begins.                       *)
Starts(fs, s, m, base, off) ==
  /\ off \in [m..(Len(fs) + 1) -> Nat]
  /\ off[m] = base + 1 /\ off[Len(fs) + 1] = Len(s) + 1
  /\ \A i \in m..Len(fs) :
       /\ off[i + 1] = off[i] + 2 + fs[i].size
       /\ s[off[i]] = <<0, fs[i].id>> /\ s[off[i] + 1] = <<0, Short(fs[i].size)>>
       /\ \A j \in 1..fs[i].size : s[off[i] + 1 + j] = <<i, j>>
  /\ \A i, j \in m..(Len(fs) + 1) : i < j => off[i] + 2 + fs[i].size <= off[j]

Frames(fs, s, m, base) ==
  /\ m \in 1..(Len(fs) + 1) /\ base \in Nat
  /\ \E off : Starts(fs, s, m, base, off)

(* k units have moved from the front of t to the end of s.                 *)
Parted(s, t, k, got, left) ==
  /\ got \in Seq(Unit) /\ left \in Seq(Unit)
  /\ Len(got) = Len(s) + k /\ Len(left) = Len(t) - k
  /\ got \o left = s \o t
  /\ \A i \in 1..Len(got) : got[i] = (s \o t)[i]
  /\ \A i \in 1..Len(left) : left[i] = (s \o t)[Len(got) + i]

(* t is s without its first d units.                                       *)
Behind(t, s, d) ==
  t \in Seq(Unit) /\ Len(t) = Len(s) - d /\ \A i \in 1..(Len(s) - d) : t[i] = s[d + i]

(* t is s and behind it frame n, which is f.                               *)
Longer(t, s, n, f) ==
  /\ t \in Seq(Unit) /\ Len(t) = Len(s) + 2 + f.size /\ \A i \in 1..Len(s) : t[i] = s[i]
  /\ t[Len(s) + 1] = <<0, f.id>> /\ t[Len(s) + 2] = <<0, Short(f.size)>>
  /\ \A j \in 1..f.size : t[Len(s) + 2 + j] = <<n, j>>

(* The node that is being read is the one behind the last one posted.      *)
Current == Len(posted) + 1

HeadInv == mode = "head" => want = 2 /\ Len(nodes) = Len(posted)
BodyInv == mode = "body" => node = Current /\ Len(nodes) = node

(* A node has been made for a frame whose size the field cannot say, and   *)
(* the session reads on somewhere in its body or behind.                   *)
Lost == Unsayable(Len(nodes))

(* Otherwise a session that reads a header is between two frames; one that *)
(* reads a body is behind the header of the frame after the last one       *)
(* posted.                                                                 *)
InStep ==
  /\ mode = "head" => Frames(sent, Rest, Current, 0)
  /\ mode = "body" =>
       /\ Current <= Len(sent) /\ want = sent[Current].size
       /\ Frames(sent, Rest, Current + 1, want)
       /\ \A j \in 1..want : Rest[j] = <<Current, j>>
       /\ nodes[node].id = sent[Current].id /\ nodes[node].size = want

(* Each node is posted once, in the order in which they were made.         *)
PostedInv == /\ Len(posted) <= Len(nodes)
             /\ \A i \in 1..Len(posted) : posted[i] = i

(* The inductive invariant.                                                *)
RcvInv == /\ RequestsAsSent /\ ShortAnswersArrive
          /\ data \in Seq(Unit) /\ stream \in Seq(Unit) /\ nodes \in Seq(Node)
          /\ HeadInv /\ BodyInv /\ PostedInv
          /\ Lost \/ InStep

-----------------------------------------------------------------------------
(* A size survives the field of the header if it is below Half.            *)
LEMMA ShortOf ==
  ASSUME Parameters, NEW n \in Nat, n < Half
  PROVE  Short(n) = n
<1>1. Half \in Nat \ {0}
  BY DEF Parameters, HeadLen
<1> DEFINE m == 2 * Half
           a == n + Half
<1>2. m \in Nat \ {0} /\ a \in 0..(m - 1)
  BY <1>1
<1>3. \A w \in Nat \ {0} : \A b \in 0..(w - 1) : b % w = b
  OBVIOUS
<1>4. a % m = a
  BY <1>2, <1>3
<1> QED BY <1>1, <1>4 DEF Short

(* A short is a short.                                                     *)
LEMMA ShortRange ==
  ASSUME Parameters, NEW n \in Int
  PROVE  Short(n) \in (-Half)..(Half - 1)
<1>1. Half \in Nat \ {0}
  BY DEF Parameters, HeadLen
<1> DEFINE m == 2 * Half
           a == n + Half
<1>2. m \in Nat \ {0} /\ a \in Int
  BY <1>1
<1>3. \A w \in Nat \ {0} : \A b \in Int : b % w \in 0..(w - 1)
  OBVIOUS
<1>4. a % m \in 0..(m - 1)
  BY <1>2, <1>3
<1> QED BY <1>1, <1>4 DEF Short

(* Concatenation is associative.                                           *)
LEMMA UnitsAssociate == \A a, b, c \in Seq(Unit) : (a \o b) \o c = a \o (b \o c)
<1> SUFFICES ASSUME NEW S, NEW a \in Seq(S), NEW b \in Seq(S), NEW c \in Seq(S)
             PROVE  (a \o b) \o c = a \o (b \o c)
  OBVIOUS
<1> QED BY ConcatAssociative

(* Units move from the front of t to the end of s.                         *)
LEMMA Moved ==
  ASSUME NEW s \in Seq(Unit), NEW t \in Seq(Unit), NEW k \in 0..Len(t)
  PROVE  Parted(s, t, k, s \o SubSeq(t, 1, k), SubSeq(t, k + 1, Len(t)))
<1> DEFINE front == SubSeq(t, 1, k)
           left == SubSeq(t, k + 1, Len(t))
           got == s \o front
<1>0. Len(s) \in Nat /\ Len(t) \in Nat /\ k \in Nat /\ k <= Len(t)
  BY LenProperties
<1>1. \A i \in 1..Len(t) : t[i] \in Unit
  BY ElementOfSeq
<1>2. front \in Seq(Unit) /\ Len(front) = k
  <2>1. \A i \in 1..k : t[i] \in Unit
    BY <1>0, <1>1
  <2> QED BY <1>0, <2>1, SubSeqProperties
<1>3. left \in Seq(Unit) /\ Len(left) = Len(t) - k
  <2>1. \A i \in (k + 1)..Len(t) : t[i] \in Unit
    BY <1>0, <1>1
  <2> QED BY <1>0, <2>1, SubSeqProperties
<1>4. front \o left = t
  <2>1. 1 \in 1..(Len(t) + 1) /\ k \in (1 - 1)..Len(t) /\ Len(t) \in k..Len(t)
    BY <1>0
  <2>2. front \o left = SubSeq(t, 1, Len(t))
    BY <2>1, ConcatAdjacentSubSeq, Zenon
  <2> QED BY <2>2, SubSeqFull, Zenon
<1>5. got \in Seq(Unit) /\ Len(got) = Len(s) + k
  BY <1>2, ConcatProperties
<1>6. got \o left = s \o t
  <2> HIDE DEF front, left
  <2>1. (s \o front) \o left = s \o (front \o left)
    <3>1. s \in Seq(Unit) /\ front \in Seq(Unit) /\ left \in Seq(Unit)
      BY <1>2, <1>3
    <3> QED BY <3>1, UnitsAssociate, Zenon
  <2> QED BY <1>4, <2>1, Zenon
<1> HIDE DEF got, left
<1>7. \A i \in 1..(Len(got) + Len(left)) : (s \o t)[i] = IF i <= Len(got) THEN got[i] ELSE left[i - Len(got)]
  <2>1. \A i \in 1..(Len(got) + Len(left)) : (got \o left)[i] = IF i <= Len(got) THEN got[i] ELSE left[i - Len(got)]
    BY <1>3, <1>5, ConcatProperties, Zenon
  <2> QED BY <1>6, <2>1, Zenon
<1>8. Len(got) \in Nat /\ Len(left) \in Nat
  BY <1>0, <1>3, <1>5
<1>9. \A i \in 1..Len(got) : got[i] = (s \o t)[i]
  <2> SUFFICES ASSUME NEW i \in 1..Len(got) PROVE got[i] = (s \o t)[i]
    OBVIOUS
  <2>1. i \in 1..(Len(got) + Len(left)) /\ i <= Len(got)
    BY <1>8
  <2> QED BY <1>7, <2>1, Zenon
<1>10. \A i \in 1..Len(left) : left[i] = (s \o t)[Len(got) + i]
  <2> SUFFICES ASSUME NEW i \in 1..Len(left) PROVE left[i] = (s \o t)[Len(got) + i]
    OBVIOUS
  <2>1. Len(got) + i \in 1..(Len(got) + Len(left)) /\ ~(Len(got) + i <= Len(got)) /\ (Len(got) + i) - Len(got) = i
    BY <1>8
  <2> QED BY <1>7, <2>1, Zenon
<1> QED BY <1>3, <1>5, <1>6, <1>9, <1>10 DEF got, left, Parted

-----------------------------------------------------------------------------
(* The sizes of what was sent are sizes.                                   *)
LEMMA Sizes ==
  ASSUME Parameters, NEW fs, SentFrames(fs)
  PROVE  /\ Len(fs) \in Nat
         /\ \A i \in 1..Len(fs) : fs[i].size \in Nat /\ fs[i].id \in Int
<1>1. \A i \in 1..Len(fs) : fs[i] \in SentFrame
  BY ElementOfSeq DEF SentFrames
<1>2. ASSUME NEW i \in 1..Len(fs)
      PROVE fs[i].size \in Nat /\ fs[i].id \in Int
  <2>1. fs[i].size \in Size /\ fs[i].id \in Id
    BY <1>1 DEF SentFrame
  <2>2. fs[i].size \in {n \in Nat : Short(n) # -1} /\ fs[i].id \in 1..(Half - 1) /\ Half \in Nat
    BY <2>1, Zenon DEF Parameters
  <2>3. \A n \in 1..(Half - 1) : n \in Int
    OBVIOUS
  <2> QED BY <2>2, <2>3, Zenon
<1> QED BY <1>2, LenProperties DEF SentFrames

(* Behind a frame come the frames after it.                                *)
LEMMA NextFrame ==
  ASSUME Parameters, NEW fs, SentFrames(fs), NEW s \in Seq(Unit), NEW m, NEW b,
         Frames(fs, s, m, b), m <= Len(fs)
  PROVE  /\ b + 2 + fs[m].size <= Len(s)
         /\ s[b + 1] = <<0, fs[m].id>> /\ s[b + 2] = <<0, Short(fs[m].size)>>
         /\ \A j \in 1..fs[m].size : s[b + 2 + j] = <<m, j>>
         /\ Frames(fs, s, m + 1, b + 2 + fs[m].size)
<1>1. /\ m \in 1..Len(fs) /\ b \in Nat /\ Len(fs) \in Nat /\ Len(s) \in Nat
      /\ fs[m].size \in Nat
  BY Sizes, LenProperties DEF Frames
<1>2. PICK off : Starts(fs, s, m, b, off)
  BY DEF Frames
<1>0. off \in [m..(Len(fs) + 1) -> Nat]
  BY <1>2 DEF Starts
<1> DEFINE b2 == b + 2 + fs[m].size
           off2 == [i \in (m + 1)..(Len(fs) + 1) |-> off[i]]
<1>3. /\ off[m] = b + 1 /\ off[m + 1] = b2 + 1
      /\ s[off[m]] = <<0, fs[m].id>> /\ s[off[m] + 1] = <<0, Short(fs[m].size)>>
      /\ \A j \in 1..fs[m].size : s[off[m] + 1 + j] = <<m, j>>
  <2>1. m \in m..Len(fs) /\ m \in m..(Len(fs) + 1)
    BY <1>1
  <2>2. /\ off[m] = b + 1 /\ off[m + 1] = off[m] + 2 + fs[m].size
        /\ s[off[m]] = <<0, fs[m].id>> /\ s[off[m] + 1] = <<0, Short(fs[m].size)>>
        /\ \A j \in 1..fs[m].size : s[off[m] + 1 + j] = <<m, j>>
    BY <1>2, <2>1 DEF Starts
  <2>3. off[m + 1] = b2 + 1
    <3>1. b \in Nat /\ fs[m].size \in Nat /\ off[m] = b + 1 /\ off[m + 1] = off[m] + 2 + fs[m].size
      BY <1>1, <2>2
    <3> QED BY <3>1, SMTT(60)
  <2> QED BY <2>2, <2>3
<1>4. off[m + 1] <= Len(s) + 1
  <2>1. CASE m = Len(fs)
    BY <1>1, <1>2, <2>1 DEF Starts
  <2>2. CASE m < Len(fs)
    <3>1. m + 1 \in m..(Len(fs) + 1) /\ Len(fs) + 1 \in m..(Len(fs) + 1) /\ m + 1 < Len(fs) + 1
          /\ m + 1 \in 1..Len(fs)
      BY <1>1, <2>2
    <3>2. off[m + 1] + 2 + fs[m + 1].size <= off[Len(fs) + 1]
      BY <1>2, <3>1 DEF Starts
    <3>3. fs[m + 1].size \in Nat /\ off[m + 1] \in Nat
      BY <1>0, <3>1, Sizes
    <3> QED BY <1>1, <1>2, <3>2, <3>3 DEF Starts
  <2> QED BY <1>1, <2>1, <2>2
<1>5. Frames(fs, s, m + 1, b2)
  <2>1. off2 \in [(m + 1)..(Len(fs) + 1) -> Nat] /\ \A i \in (m + 1)..(Len(fs) + 1) : off2[i] = off[i]
    BY <1>0, <1>1
  <2> HIDE DEF off2
  <2>2. off2[m + 1] = b2 + 1 /\ off2[Len(fs) + 1] = Len(s) + 1
    BY <1>1, <1>2, <1>3, <2>1, SMTT(30) DEF Starts
  <2>3. ASSUME NEW i \in (m + 1)..Len(fs)
        PROVE  /\ off2[i + 1] = off2[i] + 2 + fs[i].size
               /\ s[off2[i]] = <<0, fs[i].id>> /\ s[off2[i] + 1] = <<0, Short(fs[i].size)>>
               /\ \A j \in 1..fs[i].size : s[off2[i] + 1 + j] = <<i, j>>
    <3>1. i \in m..Len(fs) /\ i \in (m + 1)..(Len(fs) + 1) /\ i + 1 \in (m + 1)..(Len(fs) + 1)
      BY <1>1
    <3> QED BY <1>2, <2>1, <3>1 DEF Starts
  <2>4. ASSUME NEW i \in (m + 1)..(Len(fs) + 1), NEW j \in (m + 1)..(Len(fs) + 1), i < j
        PROVE  off2[i] + 2 + fs[i].size <= off2[j]
    <3>1. i \in m..(Len(fs) + 1) /\ j \in m..(Len(fs) + 1)
      BY <1>1
    <3> QED BY <1>2, <2>1, <2>4, <3>1 DEF Starts
  <2>5. Starts(fs, s, m + 1, b2, off2)
    BY <2>1, <2>2, <2>3, <2>4 DEF Starts
  <2>6. m + 1 \in 1..(Len(fs) + 1) /\ b2 \in Nat
    BY <1>1
  <2> QED BY <2>1, <2>5, <2>6 DEF Frames
<1> HIDE DEF off2
<1>6. b2 <= Len(s)
  BY <1>1, <1>3, <1>4
<1>7. /\ s[b + 1] = <<0, fs[m].id>> /\ s[b + 2] = <<0, Short(fs[m].size)>>
      /\ \A j \in 1..fs[m].size : s[b + 2 + j] = <<m, j>>
  <2>1. off[m] = b + 1 /\ (b + 1) + 1 = b + 2
    BY <1>1, <1>3
  <2> QED BY <1>3, <2>1
<1> QED BY <1>5, <1>6, <1>7

(* Where the units of a frame at o are, with a body of z, in a sequence of *)
(* length l: all of them are there, after d units are dropped before it    *)
(* too.                                                                    *)
LEMMA FrameInside ==
  \A o, z, l, d \in Nat :
    o > d /\ o + 1 + z <= l =>
      /\ o - d \in 1..(l - d) /\ d + (o - d) = o
      /\ (o - d) + 1 \in 1..(l - d) /\ d + ((o - d) + 1) = o + 1
      /\ \A j \in 1..z : (o - d) + 1 + j \in 1..(l - d) /\ d + ((o - d) + 1 + j) = o + 1 + j
OBVIOUS

(* The same for its header alone.                                          *)
LEMMA FrameBefore ==
  \A o, z, l \in Nat : o > 0 /\ o + 2 + z <= l + 1 => o \in 1..l /\ o + 1 \in 1..l
OBVIOUS

(* Units that lie before the next frame can be dropped.                    *)
LEMMA DropUnits ==
  ASSUME Parameters, NEW fs, SentFrames(fs), NEW s \in Seq(Unit), NEW m, NEW b, NEW d \in 0..b,
         NEW t, Behind(t, s, d), Frames(fs, s, m, b)
  PROVE  Frames(fs, t, m, b - d)
<1>1. /\ m \in 1..(Len(fs) + 1) /\ b \in Nat /\ Len(fs) \in Nat /\ Len(s) \in Nat /\ Len(t) \in Nat
      /\ d \in Nat /\ d <= b
  BY Sizes, LenProperties DEF Frames, Behind
<1>2. Len(t) = Len(s) - d /\ \A i \in 1..(Len(s) - d) : t[i] = s[d + i]
  BY DEF Behind
<1>3. PICK off : Starts(fs, s, m, b, off)
  BY DEF Frames
<1>4. \A i, j \in m..(Len(fs) + 1) : i < j => off[i] + 2 + fs[i].size <= off[j]
  BY <1>3 DEF Starts
<1>5. off[m] = b + 1 /\ off[Len(fs) + 1] = Len(s) + 1 /\ off[m] \in Nat /\ off[Len(fs) + 1] \in Nat
  BY <1>1, <1>3 DEF Starts
<1>6. ASSUME NEW i \in m..(Len(fs) + 1) PROVE off[i] \in Nat /\ off[i] > b
  <2>1. off[i] \in Nat
    BY <1>3 DEF Starts
  <2>2. CASE i = m
    BY <1>1, <1>5, <2>2
  <2>3. CASE i > m
    <3>1. m \in 1..Len(fs) /\ m \in m..(Len(fs) + 1)
      BY <1>1, <2>3
    <3>2. off[m] + 2 + fs[m].size <= off[i]
      BY <1>4, <2>3, <3>1
    <3>3. fs[m].size \in Nat
      BY <3>1, Sizes
    <3> QED BY <1>1, <1>5, <2>1, <3>2, <3>3, SMTT(60)
  <2> QED BY <1>1, <2>2, <2>3
<1>7. ASSUME NEW i \in m..Len(fs)
      PROVE /\ fs[i].size \in Nat /\ off[i] \in Nat /\ off[i + 1] \in Nat
            /\ off[i + 1] = off[i] + 2 + fs[i].size /\ off[i] + 1 + fs[i].size <= Len(s)
  <2>1. i \in 1..Len(fs) /\ i + 1 \in m..(Len(fs) + 1) /\ i \in m..(Len(fs) + 1)
    BY <1>1
  <2>2. fs[i].size \in Nat /\ off[i] \in Nat /\ off[i + 1] \in Nat
    BY <1>6, <2>1, Sizes
  <2>3. off[i + 1] = off[i] + 2 + fs[i].size
    BY <1>3 DEF Starts
  <2>4. off[i] + 2 + fs[i].size <= off[Len(fs) + 1]
    <3>1. Len(fs) + 1 \in m..(Len(fs) + 1) /\ i < Len(fs) + 1
      BY <1>1
    <3> QED BY <1>4, <2>1, <3>1
  <2>5. off[i] + 1 + fs[i].size <= Len(s)
    <3>1. \A x, y, z, o \in Nat : x + 2 + z <= y /\ y = o + 1 => x + 1 + z <= o
      OBVIOUS
    <3> QED BY <1>1, <1>5, <2>2, <2>4, <3>1
  <2> QED BY <2>2, <2>3, <2>5
<1> DEFINE off2 == [i \in m..(Len(fs) + 1) |-> off[i] - d]
<1>8. ASSUME NEW i \in m..(Len(fs) + 1) PROVE off2[i] = off[i] - d /\ off2[i] \in Nat
  <2>1. off2[i] = off[i] - d
    OBVIOUS
  <2>2. off[i] \in Nat /\ off[i] > b
    BY <1>6
  <2> HIDE DEF off2
  <2> QED BY <1>1, <2>1, <2>2
<1>9. off2 \in [m..(Len(fs) + 1) -> Nat]
  BY <1>8
<1> HIDE DEF off2
<1>10. off2[m] = (b - d) + 1 /\ off2[Len(fs) + 1] = Len(t) + 1
  <2>1. m \in m..(Len(fs) + 1) /\ Len(fs) + 1 \in m..(Len(fs) + 1)
    BY <1>1
  <2>2. off2[m] = off[m] - d /\ off2[Len(fs) + 1] = off[Len(fs) + 1] - d
    BY <1>8, <2>1
  <2> QED BY <1>1, <1>2, <1>5, <2>2, SMTT(30)
<1>11. ASSUME NEW i \in m..Len(fs)
       PROVE  /\ off2[i + 1] = off2[i] + 2 + fs[i].size
              /\ t[off2[i]] = <<0, fs[i].id>> /\ t[off2[i] + 1] = <<0, Short(fs[i].size)>>
              /\ \A j \in 1..fs[i].size : t[off2[i] + 1 + j] = <<i, j>>
  <2>1. i \in m..(Len(fs) + 1) /\ i + 1 \in m..(Len(fs) + 1)
    BY <1>1
  <2>2. off2[i] = off[i] - d /\ off2[i + 1] = off[i + 1] - d
    BY <1>8, <2>1
  <2>3. /\ fs[i].size \in Nat /\ off[i] \in Nat /\ off[i + 1] \in Nat /\ off[i] > b
        /\ off[i + 1] = off[i] + 2 + fs[i].size /\ off[i] + 1 + fs[i].size <= Len(s)
    BY <1>6, <1>7, <2>1
  <2>4. off2[i + 1] = off2[i] + 2 + fs[i].size /\ off[i] > d
    <3>1. /\ off[i + 1] = off[i] + 2 + fs[i].size /\ fs[i].size \in Nat /\ off[i] \in Nat
          /\ off[i] > b /\ b \in Nat /\ d \in Nat /\ d <= b /\ i \in Nat
      BY <1>1, <2>3
    <3> QED BY <2>2, <3>1, SMTT(30)
  <2>5. /\ t[off[i] - d] = s[off[i]] /\ t[(off[i] - d) + 1] = s[off[i] + 1]
        /\ \A j \in 1..fs[i].size : t[(off[i] - d) + 1 + j] = s[off[i] + 1 + j]
    <3> DEFINE o == off[i]
               z == fs[i].size
               l == Len(s)
    <3>1. o \in Nat /\ z \in Nat /\ l \in Nat /\ d \in Nat /\ o > d /\ o + 1 + z <= l
      BY <1>1, <2>3, <2>4
    <3>2. \A x \in 1..(l - d) : t[x] = s[d + x]
      BY <1>2
    <3> HIDE DEF o, z, l
    <3>3. o - d \in 1..(l - d) /\ d + (o - d) = o
      BY <3>1, FrameInside
    <3>4. (o - d) + 1 \in 1..(l - d) /\ d + ((o - d) + 1) = o + 1
      BY <3>1, FrameInside
    <3>5. t[o - d] = s[o] /\ t[(o - d) + 1] = s[o + 1]
      BY <3>2, <3>3, <3>4
    <3>6. ASSUME NEW j \in 1..z PROVE t[(o - d) + 1 + j] = s[o + 1 + j]
      <4>1. (o - d) + 1 + j \in 1..(l - d) /\ d + ((o - d) + 1 + j) = o + 1 + j
        BY <3>1, FrameInside
      <4>2. t[(o - d) + 1 + j] = s[d + ((o - d) + 1 + j)]
        BY <3>2, <4>1, Zenon
      <4> QED BY <4>1, <4>2
    <3> QED BY <3>5, <3>6 DEF o, z
  <2>6. /\ s[off[i]] = <<0, fs[i].id>> /\ s[off[i] + 1] = <<0, Short(fs[i].size)>>
        /\ \A j \in 1..fs[i].size : s[off[i] + 1 + j] = <<i, j>>
    BY <1>3 DEF Starts
  <2> QED BY <2>2, <2>4, <2>5, <2>6
<1>12. ASSUME NEW i \in m..(Len(fs) + 1), NEW j \in m..(Len(fs) + 1), i < j
       PROVE  off2[i] + 2 + fs[i].size <= off2[j]
  <2>1. off[i] + 2 + fs[i].size <= off[j]
    BY <1>4, <1>12
  <2>2. off2[i] = off[i] - d /\ off2[j] = off[j] - d
    BY <1>8
  <2>3. off[i] \in Nat /\ off[j] \in Nat
    BY <1>6
  <2>4. fs[i].size \in Nat
    <3>1. i \in 1..Len(fs)
      BY <1>1, <1>12
    <3> QED BY <3>1, Sizes
  <2>5. \A x, y, z, o \in Nat : x + 2 + z <= y => (x - o) + 2 + z <= y - o
    OBVIOUS
  <2>6. d \in Nat
    BY <1>1
  <2>7. (off[i] - d) + 2 + fs[i].size <= off[j] - d
    BY <2>1, <2>3, <2>4, <2>5, <2>6, Zenon
  <2> QED BY <2>2, <2>7, Zenon
<1>13. Starts(fs, t, m, b - d, off2)
  BY <1>9, <1>10, <1>11, <1>12 DEF Starts
<1>14. b - d \in Nat
  BY <1>1
<1> QED BY <1>1, <1>9, <1>13, <1>14 DEF Frames

(* A further frame is behind the ones before it.                           *)
LEMMA GrowFrames ==
  ASSUME Parameters, NEW fs, SentFrames(fs), NEW f \in SentFrame,
         NEW s \in Seq(Unit), NEW m, NEW b, Frames(fs, s, m, b),
         NEW t, Longer(t, s, Len(fs) + 1, f)
  PROVE  Frames(Append(fs, f), t, m, b)
<1> DEFINE gs == Append(fs, f)
           n == Len(fs) + 1
<1>0. /\ Len(t) = Len(s) + 2 + f.size /\ \A i \in 1..Len(s) : t[i] = s[i]
      /\ t[Len(s) + 1] = <<0, f.id>> /\ t[Len(s) + 2] = <<0, Short(f.size)>>
      /\ \A j \in 1..f.size : t[Len(s) + 2 + j] = <<n, j>>
  BY DEF Longer
<1>1. /\ gs \in Seq(SentFrame) /\ Len(gs) = n /\ gs[n] = f /\ \A i \in 1..Len(fs) : gs[i] = fs[i]
  BY AppendProperties DEF SentFrames
<1> HIDE DEF gs
<1>2. m \in 1..n /\ b \in Nat /\ Len(fs) \in Nat /\ Len(s) \in Nat /\ n \in Nat
  BY Sizes, LenProperties DEF Frames
<1>3. f.size \in Nat
  <2>1. f.size \in Size
    BY DEF SentFrame
  <2> QED BY <2>1 DEF Parameters
<1>4. PICK off : Starts(fs, s, m, b, off)
  BY DEF Frames
<1> HIDE DEF n
<1> DEFINE off2 == [i \in m..(n + 1) |-> IF i <= n THEN off[i] ELSE Len(s) + 3 + f.size]
<1>5. off \in [m..n -> Nat] /\ off[m] = b + 1 /\ off[n] = Len(s) + 1
  BY <1>4 DEF Starts, n
<1>6. off2[n + 1] = Len(s) + 3 + f.size /\ \A i \in m..n : off2[i] = off[i]
  BY <1>2, <1>5
<1>7. off2 \in [m..(n + 1) -> Nat]
  BY <1>2, <1>3, <1>5
<1> HIDE DEF off2
<1>8. off2[m] = b + 1 /\ off2[n + 1] = Len(t) + 1 /\ off2[n] = Len(s) + 1
  <2>1. m \in m..n /\ n \in m..n
    BY <1>2
  <2>2. off2[m] = off[m] /\ off2[n] = off[n]
    BY <1>6, <2>1
  <2>3. Len(s) + 3 + f.size = Len(t) + 1
    <3>1. Len(t) = Len(s) + 2 + f.size /\ Len(s) \in Nat /\ f.size \in Nat
      BY <1>0, <1>2, <1>3
    <3> QED BY <3>1, SMTT(30)
  <2> QED BY <1>5, <1>6, <2>2, <2>3
<1>9. ASSUME NEW i \in m..n
      PROVE  /\ off2[i + 1] = off2[i] + 2 + gs[i].size
             /\ t[off2[i]] = <<0, gs[i].id>> /\ t[off2[i] + 1] = <<0, Short(gs[i].size)>>
             /\ \A j \in 1..gs[i].size : t[off2[i] + 1 + j] = <<i, j>>
  <2>1. CASE i = n
    <3>1. off2[n + 1] = off2[n] + 2 + f.size
      BY <1>2, <1>3, <1>6, <1>8
    <3>2. t[off2[n]] = <<0, f.id>> /\ t[off2[n] + 1] = <<0, Short(f.size)>>
      <4>1. off2[n] + 1 = Len(s) + 2
        BY <1>2, <1>8
      <4> QED BY <1>0, <1>8, <4>1
    <3>3. ASSUME NEW j \in 1..f.size PROVE t[off2[n] + 1 + j] = <<n, j>>
      <4>1. off2[n] + 1 + j = Len(s) + 2 + j
        BY <1>2, <1>3, <1>8
      <4> QED BY <1>0, <4>1
    <3> QED BY <1>1, <2>1, <3>1, <3>2, <3>3
  <2>2. CASE i # n
    <3>1. i \in m..Len(fs) /\ i \in 1..Len(fs) /\ i + 1 \in m..n /\ i \in Nat /\ i < n /\ n \in m..n
      BY <1>2, <2>2 DEF n
    <3>2. gs[i] = fs[i] /\ off2[i] = off[i] /\ off2[i + 1] = off[i + 1]
      BY <1>1, <1>6, <3>1
    <3>3. /\ off[i + 1] = off[i] + 2 + fs[i].size
          /\ s[off[i]] = <<0, fs[i].id>> /\ s[off[i] + 1] = <<0, Short(fs[i].size)>>
          /\ \A j \in 1..fs[i].size : s[off[i] + 1 + j] = <<i, j>>
      BY <1>4, <3>1 DEF Starts
    <3>4. fs[i].size \in Nat /\ off[i] \in Nat /\ off[i] > 0 /\ off[i] + 2 + fs[i].size <= Len(s) + 1
      <4>1. fs[i].size \in Nat /\ off[i] \in Nat
        BY <1>5, <3>1, Sizes
      <4>2. off[i] + 2 + fs[i].size <= off[n]
        BY <1>4, <3>1 DEF Starts, n
      <4>3. off[i] > 0
        <5>1. CASE i = m
          BY <1>2, <1>5, <5>1
        <5>2. CASE i # m
          <6>1. m < i /\ m \in m..n /\ m \in 1..Len(fs)
            BY <1>2, <3>1, <5>2
          <6>2. off[m] + 2 + fs[m].size <= off[i]
            BY <1>4, <3>1, <6>1 DEF Starts, n
          <6>3. fs[m].size \in Nat
            BY <6>1, Sizes
          <6>4. off[m] > 0 /\ off[m] \in Nat
            BY <1>2, <1>5
          <6>5. off[i] \in Nat
            BY <4>1
          <6> HIDE DEF n
          <6> QED BY <6>2, <6>3, <6>4, <6>5, SMTT(30)
        <5> QED BY <5>1, <5>2
      <4> QED BY <1>5, <4>1, <4>2, <4>3
    <3>5. t[off[i]] = s[off[i]] /\ t[off[i] + 1] = s[off[i] + 1]
      <4>1. off[i] \in 1..Len(s) /\ off[i] + 1 \in 1..Len(s)
        <5>1. off[i] \in Nat /\ fs[i].size \in Nat /\ Len(s) \in Nat
          BY <1>2, <3>4
        <5> QED BY <3>4, <5>1, FrameBefore, Zenon
      <4> QED BY <1>0, <4>1
    <3>6. ASSUME NEW j \in 1..fs[i].size PROVE t[off[i] + 1 + j] = <<i, j>>
      <4>1. /\ j \in Nat /\ j > 0 /\ j <= fs[i].size /\ fs[i].size \in Nat /\ off[i] \in Nat /\ off[i] > 0
            /\ off[i] + 2 + fs[i].size <= Len(s) + 1 /\ Len(s) \in Nat /\ i \in Nat
        <5>1. j \in Nat /\ j > 0 /\ j <= fs[i].size
          BY <3>4
        <5>2. i \in Nat /\ Len(s) \in Nat
          BY <1>2, <3>1
        <5> QED BY <3>4, <5>1, <5>2
      <4>2. off[i] + 1 + j \in 1..Len(s)
        BY <4>1, SMTT(30)
      <4> QED BY <1>0, <3>3, <4>2
    <3> QED BY <3>2, <3>3, <3>5, <3>6
  <2> QED BY <2>1, <2>2
<1>10. ASSUME NEW i \in m..(n + 1), NEW j \in m..(n + 1), i < j
       PROVE  off2[i] + 2 + gs[i].size <= off2[j]
  <2>1. i \in Nat /\ j \in Nat /\ i \in m..n
    BY <1>2, <1>10
  <2>2. CASE i = n
    <3>1. j = n + 1
      BY <1>2, <1>10, <2>1, <2>2
    <3> QED BY <1>1, <1>2, <1>3, <1>6, <1>8, <2>2, <3>1
  <2>3. CASE i # n
    <3>1. i \in 1..Len(fs) /\ i < n /\ n \in m..n
      BY <1>2, <2>1, <2>3 DEF n
    <3>2. gs[i] = fs[i] /\ off2[i] = off[i] /\ fs[i].size \in Nat /\ off[i] \in Nat
      BY <1>1, <1>5, <1>6, <2>1, <3>1, Sizes
    <3>3. CASE j \in m..n
      <4>1. off[i] + 2 + fs[i].size <= off[j]
        BY <1>4, <1>10, <2>1, <3>3 DEF Starts, n
      <4> QED BY <1>6, <3>2, <3>3, <4>1
    <3>4. CASE j = n + 1
      <4>1. off[i] + 2 + fs[i].size <= off[n]
        BY <1>4, <2>1, <3>1 DEF Starts, n
      <4>2. off2[j] = Len(s) + 3 + f.size /\ off[n] = Len(s) + 1 /\ Len(s) \in Nat /\ f.size \in Nat
        BY <1>2, <1>3, <1>5, <1>6, <3>4
      <4> QED BY <2>1, <3>2, <4>1, <4>2, SMTT(30)
    <3> QED BY <1>2, <3>3, <3>4
  <2> QED BY <2>2, <2>3
<1>11. Starts(gs, t, m, b, off2)
  BY <1>1, <1>7, <1>8, <1>9, <1>10 DEF Starts
<1>12. m \in 1..(Len(gs) + 1)
  BY <1>1, <1>2
<1> QED BY <1>2, <1>11, <1>12 DEF Frames, gs

(* What lies before the next frame is there; without one it is all.        *)
LEMMA FramesBound ==
  ASSUME Parameters, NEW fs, SentFrames(fs), NEW s \in Seq(Unit), NEW m, NEW b, Frames(fs, s, m, b)
  PROVE  b <= Len(s) /\ (m = Len(fs) + 1 => b = Len(s))
<1>1. m \in 1..(Len(fs) + 1) /\ b \in Nat /\ Len(fs) \in Nat /\ Len(s) \in Nat
  BY Sizes, LenProperties DEF Frames
<1>2. CASE m = Len(fs) + 1
  <2>1. PICK off : Starts(fs, s, m, b, off)
    BY DEF Frames
  <2>2. b + 1 = Len(s) + 1
    BY <1>2, <2>1 DEF Starts
  <2> QED BY <1>1, <2>2
<1>3. CASE m <= Len(fs)
  <2>1. b + 2 + fs[m].size <= Len(s)
    BY <1>3, NextFrame
  <2>2. fs[m].size \in Nat
    BY <1>1, <1>3, Sizes
  <2> QED BY <1>1, <1>3, <2>1, <2>2
<1> QED BY <1>1, <1>2, <1>3

(* A sequence over S is one over every larger set.                         *)
LEMMA WidenSeq ==
  ASSUME NEW S, NEW T, S \subseteq T, NEW s \in Seq(S)
  PROVE  s \in Seq(T)
OBVIOUS

-----------------------------------------------------------------------------
(* What the invariant says of the types.                                   *)
LEMMA RcvTypes ==
  ASSUME Parameters, RcvInv
  PROVE  /\ SentFrames(sent) /\ data \in Seq(Unit) /\ stream \in Seq(Unit) /\ Rest \in Seq(Unit)
         /\ nodes \in Seq(Node) /\ posted \in Seq(1..Len(nodes))
         /\ Len(sent) \in Nat /\ Len(data) \in Nat /\ Len(stream) \in Nat /\ Len(nodes) \in Nat
         /\ Len(posted) \in Nat /\ want \in Nat /\ Current \in Nat
         /\ Len(Rest) = Len(data) + Len(stream)
<1>1. /\ sent \in Seq(SentFrame) /\ posted \in Seq(1..Len(nodes)) /\ want \in 0..MaxLength
      /\ data \in Seq(Unit) /\ stream \in Seq(Unit) /\ nodes \in Seq(Node)
  BY DEF RcvInv, RequestsAsSent, StreamTypeOK, SentFrame
<1>2. Rest \in Seq(Unit) /\ Len(Rest) = Len(data) + Len(stream)
  BY <1>1, ConcatProperties DEF Rest
<1>3. Len(sent) \in Nat /\ Len(data) \in Nat /\ Len(stream) \in Nat /\ Len(nodes) \in Nat /\ Len(posted) \in Nat
  BY <1>1, LenProperties
<1>4. want \in Nat
  BY <1>1 DEF Parameters
<1> QED BY <1>1, <1>2, <1>3, <1>4 DEF Current, SentFrames

(* What a read leaves of the stream, and what it gives.                    *)
LEMMA Taken ==
  ASSUME Parameters, RcvInv, NEW k \in Nat, Given(k)
  PROVE  /\ Got(k) \in Seq(Unit) /\ Len(Got(k)) = Len(data) + k
         /\ \A i \in 1..Len(Got(k)) : Got(k)[i] = Rest[i]
         /\ stream' \in Seq(Unit)
         /\ data' = Got(k) => Rest' = Rest
         /\ data' = <<>> => Behind(Rest', Rest, Len(data) + k)
<1>1. /\ data \in Seq(Unit) /\ stream \in Seq(Unit) /\ Len(data) \in Nat /\ Len(stream) \in Nat
      /\ Len(Rest) = Len(data) + Len(stream)
  BY RcvTypes
<1>2. k \in 0..Len(stream) /\ stream' = SubSeq(stream, k + 1, Len(stream))
  BY <1>1 DEF Given
<1> DEFINE got == data \o SubSeq(stream, 1, k)
           left == SubSeq(stream, k + 1, Len(stream))
<1>3. Parted(data, stream, k, got, left)
  BY <1>1, <1>2, Moved
<1>4. Got(k) = got
  BY DEF Got
<1>5. stream' = left
  BY <1>2
<1> HIDE DEF got, left
<1>6. data' = got => Rest' = Rest
  BY <1>3, <1>5 DEF Rest, Parted
<1>7. ASSUME data' = <<>> PROVE Behind(Rest', Rest, Len(data) + k)
  <2>1. Rest' = left
    <3>1. <<>> \o left = left
      BY <1>3, ConcatEmptySeq DEF Parted
    <3> QED BY <1>5, <1>7, <3>1 DEF Rest
  <2>2. Len(left) = Len(Rest) - (Len(data) + k)
    BY <1>1, <1>2, <1>3 DEF Parted
  <2>3. \A i \in 1..Len(left) : left[i] = Rest[(Len(data) + k) + i]
    BY <1>3 DEF Rest, Parted
  <2> QED BY <1>3, <2>1, <2>2, <2>3 DEF Behind, Parted
<1> QED BY <1>3, <1>4, <1>5, <1>6, <1>7 DEF Rest, Parted

(* Nothing has been sent: the session is between two frames.               *)
LEMMA RcvInit ==
  ASSUME Parameters, StreamInit
  PROVE  RcvInv
<1> USE DEF StreamInit
<1>1. Half \in Nat /\ MaxLength \in Nat /\ 2 <= MaxLength
  BY DEF Parameters, HeadLen
<1>2. RequestsAsSent /\ ShortAnswersArrive
  BY <1>1 DEF RequestsAsSent, StreamTypeOK, ShortAnswersArrive, HeadLen, Parameters
<1>3. Rest = <<>>
  BY DEF Rest
<1>4. Frames(<<>>, <<>>, 1, 0)
  <2> DEFINE off == [i \in 1..1 |-> 1]
  <2>1. Starts(<<>>, <<>>, 1, 0, off)
    BY DEF Starts
  <2> QED BY <2>1 DEF Frames
<1>5. HeadInv /\ BodyInv /\ PostedInv
  BY DEF HeadInv, HeadLen, BodyInv, PostedInv
<1>6. InStep
  BY <1>3, <1>4 DEF InStep, Current
<1>7. data \in Seq(Unit) /\ stream \in Seq(Unit) /\ nodes \in Seq(Node)
  OBVIOUS
<1> QED BY <1>2, <1>5, <1>6, <1>7 DEF RcvInv

(* A read that does not complete leaves data and stream together as they   *)
(* were.                                                                   *)
LEMMA ReadMoreInv ==
  ASSUME Parameters, RcvInv, NEW k \in Nat, ReadMore(k)
  PROVE  RcvInv'
<1>1. /\ Given(k) /\ Len(data) + k < want /\ data' = Got(k)
      /\ UNCHANGED <<sent, mode, want, node, nodes, posted, answer, running>>
  BY DEF ReadMore
<1>2. /\ data' \in Seq(Unit) /\ stream' \in Seq(Unit) /\ Len(data') = Len(data) + k /\ Rest' = Rest
  BY <1>1, Taken
<1>3. want \in Nat /\ Len(data') <= want'
  BY <1>1, <1>2, RcvTypes
<1>4. RequestsAsSent' /\ ShortAnswersArrive'
  BY <1>1, <1>3 DEF RcvInv, RequestsAsSent, StreamTypeOK, ShortAnswersArrive, Unsayable, Body
<1>5. HeadInv' /\ BodyInv' /\ PostedInv' /\ nodes' \in Seq(Node)
  BY <1>1 DEF RcvInv, HeadInv, BodyInv, PostedInv, Current
<1>6. Lost' \/ InStep'
  BY <1>1, <1>2 DEF RcvInv, Lost, Unsayable, InStep, Current
<1> QED BY <1>2, <1>4, <1>5, <1>6 DEF RcvInv

(* Nothing is asked of a session that no longer reads.                     *)
LEMMA StopInv ==
  ASSUME Parameters, RcvInv, NEW why \in {"cleared", "thrown"}, StopReading(why),
         why = "thrown" => Unsayable(Current),
         stream' \in Seq(Unit), UNCHANGED <<sent, node, nodes, posted, answer, running>>
  PROVE  RcvInv'
<1>1. mode' = why /\ want' = 0 /\ data' = <<>>
  BY DEF StopReading
<1>2. data' \in Seq(Unit) /\ Len(data') = 0 /\ 0 \in 0..MaxLength
  BY <1>1 DEF Parameters, HeadLen
<1>3. StreamTypeOK'
  BY <1>1, <1>2 DEF RcvInv, RequestsAsSent, StreamTypeOK
<1>4. mode' = "thrown" => Unsayable(Len(posted) + 1)'
  BY <1>1 DEF Current, Unsayable
<1>5. RequestsAsSent'
  BY <1>3, <1>4 DEF RcvInv, RequestsAsSent, Body, Unsayable
<1>6. ShortAnswersArrive'
  BY DEF RcvInv, ShortAnswersArrive
<1>7. HeadInv' /\ BodyInv' /\ PostedInv' /\ InStep' /\ nodes' \in Seq(Node)
  BY <1>1 DEF RcvInv, HeadInv, BodyInv, PostedInv, InStep
<1> QED BY <1>2, <1>5, <1>6, <1>7 DEF RcvInv

(* The client is gone: the session reads no more.                          *)
LEMMA ReadErrorInv ==
  ASSUME Parameters, RcvInv, ReadFailed
  PROVE  RcvInv'
<1>1. /\ StopReading("cleared")
      /\ UNCHANGED <<sent, stream, node, nodes, posted, answer, running>>
  BY DEF ReadFailed
<1>2. stream' \in Seq(Unit)
  BY <1>1, RcvTypes
<1> QED BY <1>1, <1>2, StopInv

(* A header that was read in step is the one of the frame after the last   *)
(* request.                                                                *)
LEMMA HeadRead ==
  ASSUME Parameters, RcvInv, InStep, NEW k \in Nat, mode = "head", Given(k), Len(data) + k = want
  PROVE  /\ want = 2 /\ Current \in 1..Len(sent)
         /\ Got(k)[1] = <<0, sent[Current].id>> /\ Got(k)[2] = <<0, Short(sent[Current].size)>>
         /\ Frames(sent, Rest, Current + 1, 2 + sent[Current].size)
         /\ \A j \in 1..sent[Current].size : Rest[2 + j] = <<Current, j>>
         /\ stream' \in Seq(Unit)
         /\ data' = <<>> => Behind(Rest', Rest, 2)
<1>1. want = 2 /\ Frames(sent, Rest, Current, 0)
  BY DEF RcvInv, HeadInv, InStep
<1>2. /\ SentFrames(sent) /\ Rest \in Seq(Unit) /\ Len(Rest) = Len(data) + Len(stream)
      /\ Len(data) \in Nat /\ Len(stream) \in Nat /\ Len(sent) \in Nat /\ Current \in Nat
  BY RcvTypes
<1>3. /\ Len(Got(k)) = 2 /\ \A i \in 1..2 : Got(k)[i] = Rest[i]
      /\ stream' \in Seq(Unit) /\ (data' = <<>> => Behind(Rest', Rest, 2))
  BY <1>1, Taken
<1>4. Current \in 1..Len(sent)
  <2>1. Current \in 1..(Len(sent) + 1)
    BY <1>1 DEF Frames
  <2>2. Len(Rest) >= 2
    BY <1>1, <1>2 DEF Given
  <2>3. Current # Len(sent) + 1
    BY <1>1, <1>2, <2>2, FramesBound
  <2> QED BY <1>2, <2>1, <2>3
<1>5. PICK b : b = 0
  OBVIOUS
<1>6. /\ Rest[b + 1] = <<0, sent[Current].id>> /\ Rest[b + 2] = <<0, Short(sent[Current].size)>>
      /\ \A j \in 1..sent[Current].size : Rest[b + 2 + j] = <<Current, j>>
      /\ Frames(sent, Rest, Current + 1, b + 2 + sent[Current].size)
  <2>1. Current <= Len(sent) /\ Frames(sent, Rest, Current, b)
    BY <1>1, <1>2, <1>4, <1>5
  <2>2. SentFrames(sent) /\ Rest \in Seq(Unit)
    BY <1>2
  <2> QED BY <2>1, <2>2, NextFrame, SMTT(60)
<1>7. sent[Current].size \in Nat
  BY <1>2, <1>4, Sizes
<1>8. b + 1 = 1 /\ b + 2 = 2 /\ b + 2 + sent[Current].size = 2 + sent[Current].size
  BY <1>5, <1>7
<1>9. Got(k)[1] = Rest[1] /\ Got(k)[2] = Rest[2]
  BY <1>3
<1> QED BY <1>1, <1>3, <1>4, <1>6, <1>8, <1>9

(* A read that completes gives the units that were wanted.                 *)
LEMMA ReadEnds ==
  ASSUME Parameters, RcvInv, NEW k \in Nat, Given(k), Len(data) + k = want, data' = <<>>
  PROVE  /\ Got(k) \in Seq(Unit) /\ Len(Got(k)) = want
         /\ \A i \in 1..want : Got(k)[i] = Rest[i]
         /\ stream' \in Seq(Unit) /\ Behind(Rest', Rest, want)
BY Taken

(* A node is made for the header that is read, be it one or not.           *)
LEMMA NodeBegins ==
  ASSUME Parameters, RcvInv, mode = "head", NEW id \in Int, NEW len \in 0..MaxLength,
         nodes' = Append(nodes, [id |-> id, size |-> len, body |-> <<>>]),
         node' = Len(nodes'), AsyncRead("body", len), stream' \in Seq(Unit),
         UNCHANGED <<sent, posted, answer, running>>,
         Lost' \/ InStep'
  PROVE  RcvInv'
<1> DEFINE new == [id |-> id, size |-> len, body |-> <<>>]
<1>1. mode' = "body" /\ want' = len /\ data' = <<>>
  BY DEF AsyncRead
<1>2. /\ nodes \in Seq(Node) /\ posted \in Seq(1..Len(nodes))
      /\ Len(sent) \in Nat /\ Len(nodes) \in Nat /\ Len(posted) \in Nat
  BY RcvTypes
<1>3. len \in Nat
  BY DEF Parameters
<1>4. new \in Node /\ Len(new.body) = 0 /\ new.size = len
  BY <1>3 DEF Node
<1>5. /\ nodes' \in Seq(Node) /\ Len(nodes') = Len(nodes) + 1 /\ nodes'[Len(nodes) + 1] = new
      /\ \A i \in 1..Len(nodes) : nodes'[i] = nodes[i]
  BY <1>2, <1>4, AppendProperties
<1> HIDE DEF new
<1>6. Len(nodes) = Len(posted) /\ node' = Current /\ Current' = Current
  BY <1>2, <1>5 DEF RcvInv, HeadInv, Current
<1>7. nodes'[node'] = new /\ node' \in 1..Len(nodes')
  BY <1>2, <1>5, <1>6 DEF Current
<1>8. \A i \in 1..Len(nodes') : Len(nodes'[i].body) <= nodes'[i].size
  <2> SUFFICES ASSUME NEW i \in 1..Len(nodes') PROVE Len(nodes'[i].body) <= nodes'[i].size
    OBVIOUS
  <2>1. CASE i \in 1..Len(nodes)
    BY <1>5, <2>1 DEF RcvInv, RequestsAsSent, StreamTypeOK
  <2>2. CASE i = Len(nodes) + 1
    BY <1>3, <1>4, <1>5, <2>2
  <2> QED BY <1>2, <1>5, <2>1, <2>2
<1>9. posted' \in Seq(1..Len(nodes'))
  <2>1. 1..Len(nodes) \subseteq 1..Len(nodes')
    BY <1>2, <1>5
  <2> QED BY <1>2, <2>1, WidenSeq
<1>10. StreamTypeOK'
  <2>1. want' \in 0..MaxLength /\ Len(data') <= want'
    BY <1>1, <1>3
  <2>2. node' \in 1..Len(nodes') /\ want' = nodes'[node'].size
    BY <1>1, <1>4, <1>7
  <2> QED BY <1>1, <1>8, <1>9, <2>1, <2>2, SMTT(60) DEF RcvInv, RequestsAsSent, StreamTypeOK
<1>11. ASSUME NEW i \in 1..Len(posted')
       PROVE  \/ Unsayable(i)'
              \/ /\ i <= Len(sent')
                 /\ nodes'[posted'[i]] = [id |-> sent'[i].id, size |-> sent'[i].size, body |-> Body(i, sent'[i].size)]
  <2>1. i \in 1..Len(posted) /\ posted[i] = i /\ i \in 1..Len(nodes)
    BY <1>6 DEF RcvInv, PostedInv
  <2>2. nodes'[posted'[i]] = nodes[posted[i]]
    BY <1>5, <2>1
  <2>3. \/ Unsayable(i)
        \/ /\ i <= Len(sent)
           /\ nodes[posted[i]] = [id |-> sent[i].id, size |-> sent[i].size, body |-> Body(i, sent[i].size)]
    BY <2>1 DEF RcvInv, RequestsAsSent
  <2> QED BY <2>2, <2>3 DEF Unsayable, Body
<1>12. RequestsAsSent'
  BY <1>1, <1>10, <1>11 DEF RequestsAsSent, Body
<1>13. HeadInv' /\ ShortAnswersArrive' /\ BodyInv'
  BY <1>1, <1>6 DEF RcvInv, HeadInv, BodyInv, ShortAnswersArrive
<1>14. PostedInv'
  BY <1>2, <1>5 DEF RcvInv, PostedInv
<1>15. data' \in Seq(Unit)
  BY <1>1
<1> QED BY <1>5, <1>12, <1>13, <1>14, <1>15 DEF RcvInv

(* In step, the node is made for the frame that is read, or the session is *)
(* lost.                                                                   *)
LEMMA StepIntoBody ==
  ASSUME Parameters, RcvInv, InStep, NEW k \in Nat, mode = "head", Given(k), Len(data) + k = want,
         NEW len \in 0..MaxLength, len = Short(sent[Current].size),
         nodes' = Append(nodes, [id |-> sent[Current].id, size |-> len, body |-> <<>>]),
         node' = Len(nodes'), AsyncRead("body", len),
         UNCHANGED <<sent, posted, answer, running>>
  PROVE  Lost' \/ InStep'
<1> DEFINE new == [id |-> sent[Current].id, size |-> len, body |-> <<>>]
<1>1. mode' = "body" /\ want' = len /\ data' = <<>>
  BY DEF AsyncRead
<1>2. /\ SentFrames(sent) /\ nodes \in Seq(Node) /\ Rest \in Seq(Unit) /\ Len(Rest) \in Nat
      /\ Len(sent) \in Nat /\ Len(nodes) \in Nat /\ Len(posted) \in Nat /\ Current \in Nat
  BY RcvTypes, LenProperties
<1>3. /\ Current \in 1..Len(sent)
      /\ Frames(sent, Rest, Current + 1, 2 + sent[Current].size)
      /\ \A j \in 1..sent[Current].size : Rest[2 + j] = <<Current, j>>
      /\ Behind(Rest', Rest, 2)
  BY <1>1, HeadRead
<1>4. sent[Current].size \in Nat /\ sent[Current].id \in Int /\ Half \in Nat /\ len \in Nat
  <2>1. sent[Current].size \in Nat /\ sent[Current].id \in Int
    BY <1>2, <1>3, Sizes, Zenon
  <2>2. Half \in Nat /\ len \in Nat
    BY DEF Parameters
  <2> QED BY <2>1, <2>2
<1>5. new \in Node
  BY <1>4 DEF Node
<1>6. Len(nodes') = Len(nodes) + 1 /\ nodes'[Len(nodes) + 1] = new
  BY <1>2, <1>5, AppendProperties
<1> HIDE DEF new
<1>7. Len(nodes') = Current /\ node' = Current /\ Current' = Current
  BY <1>2, <1>6 DEF RcvInv, HeadInv, Current
<1>8. CASE sent[Current].size >= Half
  <2>1. Current \in 1..Len(sent') /\ Current <= Len(nodes') /\ sent'[Current].size >= Half
    BY <1>2, <1>3, <1>7, <1>8
  <2> QED BY <2>1 DEF Lost, Unsayable
<1>9. CASE sent[Current].size < Half
  <2>1. len = sent[Current].size
    BY <1>4, <1>9, ShortOf
  <2>2. Frames(sent, Rest', Current + 1, len)
    <3>1. 2 \in 0..(2 + len) /\ (2 + len) - 2 = len
      BY <1>4
    <3>2. Frames(sent, Rest', Current + 1, (2 + len) - 2)
      BY <1>2, <1>3, <2>1, <3>1, DropUnits
    <3> QED BY <3>1, <3>2
  <2>3. ASSUME NEW j \in 1..len PROVE Rest'[j] = <<Current, j>>
    <3>1. 2 + len <= Len(Rest)
      BY <1>2, <1>3, <2>1, FramesBound
    <3>2. j \in 1..(Len(Rest) - 2)
      BY <1>2, <1>4, <3>1
    <3> QED BY <1>3, <2>1, <3>2 DEF Behind
  <2>4. nodes'[node'].id = sent[Current].id /\ nodes'[node'].size = len
    BY <1>2, <1>6, <1>7 DEF new
  <2>5. Current <= Len(sent)
    BY <1>2, <1>3
  <2> QED BY <1>1, <1>7, <2>1, <2>2, <2>3, <2>4, <2>5 DEF InStep
<1> QED BY <1>4, <1>8, <1>9

(* A header makes a node, or ends the reading.                             *)
LEMMA ReadHeadInv ==
  ASSUME Parameters, RcvInv, NEW k \in Nat, ReadHead(k)
  PROVE  RcvInv'
<1>1. /\ mode = "head" /\ Given(k) /\ Len(data) + k = want
      /\ UNCHANGED <<sent, posted, answer, running>>
  BY DEF ReadHead
<1>2. PICK id \in Field(Got(k)[1]), len \in Field(Got(k)[2]) :
      \/ StopReading("cleared") /\ UNCHANGED <<node, nodes>>
      \/ len < 0 /\ StopReading("thrown") /\ UNCHANGED <<node, nodes>>
      \/ /\ len \in 0..MaxLength
         /\ nodes' = Append(nodes, [id |-> id, size |-> len, body |-> <<>>])
         /\ node' = Len(nodes')
         /\ AsyncRead("body", len)
  BY DEF ReadHead
<1>3. data' = <<>>
  BY <1>2 DEF StopReading, AsyncRead
<1>4. want = 2 /\ Len(nodes) = Len(posted) /\ Len(posted) \in Nat /\ Len(sent) \in Nat
  BY <1>1, RcvTypes DEF RcvInv, HeadInv
<1>5. Got(k) \in Seq(Unit) /\ Len(Got(k)) = 2 /\ stream' \in Seq(Unit)
  BY <1>1, <1>3, <1>4, ReadEnds
<1>6. id \in Int /\ len \in Int
  <2>1. ASSUME NEW u \in Unit PROVE Field(u) \subseteq Int
    <3>1. BodyValue \subseteq Int
      <4>1. Half \in Nat /\ BodyValue \subseteq (-Half)..(Half - 1)
        BY DEF Parameters
      <4> QED BY <4>1
    <3>2. u[2] \in Int
      BY DEF Unit
    <3> QED BY <3>1, <3>2 DEF Field
  <2>2. Got(k)[1] \in Unit /\ Got(k)[2] \in Unit
    <3> DEFINE g == Got(k)
    <3>1. g \in Seq(Unit) /\ 1 \in 1..Len(g) /\ 2 \in 1..Len(g)
      BY <1>5
    <3> HIDE DEF g
    <3>2. \A i \in 1..Len(g) : g[i] \in Unit
      BY <3>1, ElementOfSeq
    <3>3. g[1] \in Unit /\ g[2] \in Unit
      BY <3>1, <3>2
    <3> QED BY <3>3 DEF g
  <2> QED BY <2>1, <2>2
<1>7. InStep => /\ Current \in 1..Len(sent) /\ id = sent[Current].id
                /\ len = Short(sent[Current].size)
  <2> SUFFICES ASSUME InStep PROVE /\ Current \in 1..Len(sent) /\ id = sent[Current].id
                                   /\ len = Short(sent[Current].size)
    OBVIOUS
  <2>1. /\ Current \in 1..Len(sent)
        /\ Got(k)[1] = <<0, sent[Current].id>> /\ Got(k)[2] = <<0, Short(sent[Current].size)>>
    BY <1>1, HeadRead
  <2> QED BY <2>1 DEF Field
<1>8. CASE StopReading("cleared") /\ UNCHANGED <<node, nodes>>
  BY <1>1, <1>5, <1>8, StopInv
<1>9. CASE len < 0 /\ StopReading("thrown") /\ UNCHANGED <<node, nodes>>
  <2>1. Unsayable(Current)
    <3>1. CASE Lost
      BY <1>4, <3>1 DEF Lost, Unsayable, Current
    <3>2. CASE InStep
      <4>1. sent[Current].size \in Nat /\ Half \in Nat
        BY <1>7, <3>2, RcvTypes, Sizes DEF Parameters
      <4>2. sent[Current].size >= Half
        BY <1>7, <1>9, <3>2, <4>1, ShortOf
      <4> QED BY <1>4, <1>7, <3>2, <4>2 DEF Unsayable
    <3> QED BY <3>1, <3>2 DEF RcvInv
  <2> QED BY <1>1, <1>5, <1>9, <2>1, StopInv
<1>10. CASE /\ len \in 0..MaxLength
            /\ nodes' = Append(nodes, [id |-> id, size |-> len, body |-> <<>>])
            /\ node' = Len(nodes')
            /\ AsyncRead("body", len)
  <2>1. Lost' \/ InStep'
    <3>1. CASE InStep
      BY <1>1, <1>7, <1>10, <3>1, StepIntoBody
    <3>2. CASE Lost
      <4>1. Len(nodes') = Len(nodes) + 1
        <5>1. [id |-> id, size |-> len, body |-> <<>>] \in Node
          BY <1>6, <1>10 DEF Node, Parameters
        <5> QED BY <1>10, <5>1, RcvTypes, AppendProperties
      <4> QED BY <1>1, <1>4, <3>2, <4>1 DEF Lost, Unsayable
    <3> QED BY <3>1, <3>2 DEF RcvInv
  <2> QED BY <1>1, <1>5, <1>6, <1>10, <2>1, NodeBegins
<1> QED BY <1>2, <1>8, <1>9, <1>10

(* A body that was read in step is the one of the frame after the last     *)
(* request, and what comes behind it are the frames after that.            *)
LEMMA BodyRead ==
  ASSUME Parameters, RcvInv, InStep, NEW k \in Nat, ReadBody(k)
  PROVE  /\ Current <= Len(sent) /\ want = sent[Current].size
         /\ Got(k) = Body(Current, want)
         /\ nodes[node].id = sent[Current].id /\ nodes[node].size = want
         /\ Frames(sent, Rest', Current + 1, 0)
<1>1. /\ mode = "body" /\ Given(k) /\ Len(data) + k = want /\ data' = <<>>
  BY DEF ReadBody, AsyncRead
<1>2. /\ SentFrames(sent) /\ Rest \in Seq(Unit) /\ Current \in Nat /\ want \in Nat
  BY RcvTypes
<1>3. /\ Current <= Len(sent) /\ want = sent[Current].size
      /\ Frames(sent, Rest, Current + 1, want)
      /\ \A j \in 1..want : Rest[j] = <<Current, j>>
      /\ nodes[node].id = sent[Current].id /\ nodes[node].size = want
  BY <1>1 DEF InStep
<1>4. /\ Got(k) \in Seq(Unit) /\ Len(Got(k)) = want /\ \A i \in 1..want : Got(k)[i] = Rest[i]
      /\ Behind(Rest', Rest, want)
  BY <1>1, ReadEnds
<1>5. Frames(sent, Rest', Current + 1, 0)
  <2>1. want \in 0..want /\ want - want = 0
    BY <1>2
  <2>2. Frames(sent, Rest', Current + 1, want - want)
    BY <1>2, <1>3, <1>4, <2>1, DropUnits
  <2> QED BY <2>1, <2>2
<1> DEFINE got == Got(k)
<1>6. got = Body(Current, want)
  <2>1. got \in [1..want -> Unit]
    BY <1>4, LenProperties
  <2>2. \A i \in 1..want : got[i] = <<Current, i>>
    BY <1>3, <1>4
  <2> HIDE DEF got
  <2>3. got = [i \in 1..want |-> <<Current, i>>]
    BY <2>1, <2>2
  <2> QED BY <2>3 DEF Body
<1> QED BY <1>3, <1>5, <1>6

(* A body that was read is posted in its node.                             *)
LEMMA ReadBodyInv ==
  ASSUME Parameters, RcvInv, NEW k \in Nat, ReadBody(k)
  PROVE  RcvInv'
<1> DEFINE got == Got(k)
           full == [nodes[Current] EXCEPT !.body = got]
<1>1. /\ mode = "body" /\ Given(k) /\ Len(data) + k = want
      /\ nodes' = [nodes EXCEPT ![node].body = got] /\ posted' = Append(posted, node)
      /\ mode' = "head" /\ want' = 2 /\ data' = <<>>
      /\ UNCHANGED <<sent, node, answer, running>>
  BY DEF ReadBody, AsyncRead, HeadLen
<1>2. /\ nodes \in Seq(Node) /\ posted \in Seq(1..Len(nodes))
      /\ Len(sent) \in Nat /\ Len(nodes) \in Nat /\ Len(posted) \in Nat /\ Current \in Nat /\ want \in Nat
  BY RcvTypes
<1>3. /\ node = Current /\ Len(nodes) = Current /\ Current \in 1..Len(nodes)
      /\ want = nodes[Current].size
  BY <1>1 DEF RcvInv, BodyInv, RequestsAsSent, StreamTypeOK
<1>4. got \in Seq(Unit) /\ Len(got) = want /\ stream' \in Seq(Unit)
  BY <1>1, ReadEnds
<1>5. InStep => /\ Current <= Len(sent) /\ want = sent[Current].size /\ got = Body(Current, want)
                /\ nodes[Current].id = sent[Current].id
                /\ Frames(sent, Rest', Current + 1, 0)
  BY <1>3, BodyRead
<1> HIDE DEF got
<1>6. nodes[Current] \in Node
  BY <1>2, <1>3, ElementOfSeq
<1>7. /\ full = [id |-> nodes[Current].id, size |-> want, body |-> got]
      /\ full \in Node
  <2>1. nodes[Current] = [id |-> nodes[Current].id, size |-> nodes[Current].size, body |-> nodes[Current].body]
    BY <1>6 DEF Node
  <2>2. full = [id |-> nodes[Current].id, size |-> want, body |-> got]
    BY <1>3, <2>1
  <2>3. nodes[Current].id \in Int
    BY <1>6 DEF Node
  <2> HIDE DEF full
  <2> QED BY <1>2, <1>4, <2>2, <2>3 DEF Node
<1>8. nodes' = [nodes EXCEPT ![Current] = full]
  BY <1>1, <1>3
<1> HIDE DEF full
<1>9. /\ nodes' \in Seq(Node) /\ Len(nodes') = Len(nodes) /\ nodes'[Current] = full
      /\ \A i \in 1..Len(nodes) : i # Current => nodes'[i] = nodes[i]
  <2>1. /\ nodes' \in Seq(Node) /\ Len(nodes') = Len(nodes)
        /\ \A i \in 1..Len(nodes) : nodes'[i] = IF i = Current THEN full ELSE nodes[i]
    BY <1>2, <1>3, <1>7, <1>8, ExceptSeq
  <2> QED BY <1>3, <2>1
<1>10. /\ posted' \in Seq(1..Len(nodes)) /\ Len(posted') = Current /\ posted'[Current] = Current
       /\ \A i \in 1..Len(posted) : posted'[i] = posted[i]
  BY <1>1, <1>2, <1>3, AppendProperties DEF Current
<1>11. \A i \in 1..Len(posted') : posted'[i] = i
  <2> SUFFICES ASSUME NEW i \in 1..Current PROVE posted'[i] = i
    BY <1>10
  <2>1. CASE i = Current
    BY <1>10, <2>1
  <2>2. CASE i # Current
    <3>1. i \in 1..Len(posted)
      BY <1>2, <2>2 DEF Current
    <3> QED BY <1>10, <3>1 DEF RcvInv, PostedInv
  <2> QED BY <2>1, <2>2
<1>12. ASSUME NEW i \in 1..Len(posted')
       PROVE  \/ Unsayable(i)'
              \/ /\ i <= Len(sent')
                 /\ nodes'[posted'[i]] = [id |-> sent'[i].id, size |-> sent'[i].size, body |-> Body(i, sent'[i].size)]
  <2>1. i \in 1..Current /\ posted'[i] = i
    BY <1>10, <1>11
  <2>2. CASE i = Current
    <3>1. CASE Lost
      BY <1>1, <1>3, <2>2, <3>1 DEF Lost, Unsayable
    <3>2. CASE InStep
      <4>1. nodes'[i] = [id |-> sent[i].id, size |-> sent[i].size, body |-> Body(i, sent[i].size)]
        BY <1>5, <1>7, <1>9, <2>2, <3>2
      <4> QED BY <1>1, <1>5, <2>1, <2>2, <3>2, <4>1
    <3> QED BY <3>1, <3>2 DEF RcvInv
  <2>3. CASE i # Current
    <3>1. i \in 1..Len(posted) /\ i \in 1..Len(nodes)
      BY <1>2, <1>3, <2>1, <2>3 DEF Current
    <3>2. nodes'[i] = nodes[i] /\ posted[i] = i
      BY <1>9, <2>3, <3>1 DEF RcvInv, PostedInv
    <3>3. \/ Unsayable(i)
          \/ /\ i <= Len(sent)
             /\ nodes[posted[i]] = [id |-> sent[i].id, size |-> sent[i].size, body |-> Body(i, sent[i].size)]
      BY <3>1 DEF RcvInv, RequestsAsSent
    <3> QED BY <1>1, <2>1, <3>2, <3>3 DEF Unsayable
  <2> QED BY <2>2, <2>3
<1>13. \A i \in 1..Len(nodes') : Len(nodes'[i].body) <= nodes'[i].size
  <2> SUFFICES ASSUME NEW i \in 1..Len(nodes) PROVE Len(nodes'[i].body) <= nodes'[i].size
    BY <1>9
  <2>1. CASE i = Current
    BY <1>2, <1>4, <1>7, <1>9, <2>1
  <2>2. CASE i # Current
    BY <1>9, <2>2 DEF RcvInv, RequestsAsSent, StreamTypeOK
  <2> QED BY <2>1, <2>2
<1>14. StreamTypeOK'
  <2>1. want' \in 0..MaxLength /\ Len(data') <= want'
    <3>1. Len(<<>>) = 0 /\ 2 \in 0..MaxLength
      BY DEF Parameters, HeadLen
    <3> QED BY <1>1, <3>1
  <2> QED BY <1>1, <1>9, <1>10, <1>13, <2>1 DEF RcvInv, RequestsAsSent, StreamTypeOK
<1>15. RequestsAsSent'
  BY <1>1, <1>12, <1>14 DEF RequestsAsSent, Body
<1>16. ShortAnswersArrive' /\ BodyInv'
  BY <1>1 DEF RcvInv, BodyInv, ShortAnswersArrive
<1>17. HeadInv' /\ Current' = Current + 1
  BY <1>1, <1>3, <1>9, <1>10 DEF HeadInv, Current
<1>18. PostedInv'
  BY <1>2, <1>3, <1>9, <1>10, <1>11 DEF PostedInv
<1>19. Lost' \/ InStep'
  <2>1. CASE Lost
    BY <1>1, <1>9, <2>1 DEF Lost, Unsayable
  <2>2. CASE InStep
    BY <1>1, <1>5, <1>17, <2>2 DEF InStep
  <2> QED BY <2>1, <2>2 DEF RcvInv
<1>20. data' \in Seq(Unit)
  BY <1>1
<1> QED BY <1>4, <1>9, <1>15, <1>16, <1>17, <1>18, <1>19, <1>20 DEF RcvInv

(* Concatenation, stated for all sequences of units.                       *)
LEMMA ConcatUnits ==
  \A s, t \in Seq(Unit) :
    /\ s \o t \in Seq(Unit) /\ Len(s \o t) = Len(s) + Len(t)
    /\ \A i \in 1..(Len(s) + Len(t)) : (s \o t)[i] = IF i <= Len(s) THEN s[i] ELSE t[i - Len(s)]
BY ConcatProperties

(* A frame that the client sends is behind all that is still to be read.   *)
LEMMA SendLonger ==
  ASSUME Parameters, RcvInv, NEW id \in Id, NEW size \in Size, ClientSends(id, size)
  PROVE  stream' \in Seq(Unit) /\ Longer(Rest', Rest, Len(sent) + 1, [id |-> id, size |-> size])
<1> DEFINE n == Len(sent) + 1
           head == <<<<0, id>>, <<0, Short(size)>>>>
           body == Body(n, size)
<1>1. /\ data \in Seq(Unit) /\ stream \in Seq(Unit) /\ Rest \in Seq(Unit) /\ Len(sent) \in Nat
      /\ sent \in Seq(SentFrame) /\ Len(Rest) \in Nat
  BY RcvTypes, LenProperties DEF SentFrames
<1>2. size \in Nat /\ id \in Int /\ Short(size) \in Int /\ Half \in Nat
  <2>1. Half \in Nat /\ size \in Nat /\ id \in 1..(Half - 1)
    BY DEF Parameters
  <2>2. size \in Nat /\ id \in Int
    BY <2>1
  <2>3. Short(size) \in (-Half)..(Half - 1)
    BY <2>2, ShortRange
  <2> QED BY <2>1, <2>2, <2>3
<1>3. head \in Seq(Unit) /\ Len(head) = 2 /\ head[1] = <<0, id>> /\ head[2] = <<0, Short(size)>>
  BY <1>2 DEF Unit
<1>4. body \in Seq(Unit) /\ Len(body) = size /\ \A j \in 1..size : body[j] = <<n, j>>
  <2>1. \A j \in 1..size : <<n, j>> \in Unit
    BY <1>1, <1>2 DEF Unit
  <2> QED BY <1>2, <2>1 DEF Body
<1>5. stream' = (stream \o head) \o body /\ data' = data
  <2>1. Len(sent') = n
    BY <1>1, AppendProperties DEF ClientSends, SentFrame
  <2> QED BY <2>1 DEF ClientSends
<1> HIDE DEF head, body, n
<1>6. stream \o head \in Seq(Unit) /\ Rest \o head \in Seq(Unit)
  BY <1>1, <1>3, ConcatProperties
<1>7. stream' \in Seq(Unit)
  BY <1>4, <1>5, <1>6, ConcatProperties
<1>8. Rest' = (Rest \o head) \o body
  <2>1. data \o ((stream \o head) \o body) = (data \o (stream \o head)) \o body
    <3>1. data \in Seq(Unit) /\ stream \o head \in Seq(Unit) /\ body \in Seq(Unit)
      BY <1>1, <1>4, <1>6, Zenon
    <3> QED BY <3>1, UnitsAssociate, Zenon
  <2>2. data \o (stream \o head) = (data \o stream) \o head
    <3>1. data \in Seq(Unit) /\ stream \in Seq(Unit) /\ head \in Seq(Unit)
      BY <1>1, <1>3, Zenon
    <3> QED BY <3>1, UnitsAssociate, Zenon
  <2> QED BY <1>5, <2>1, <2>2 DEF Rest
<1>9. /\ Len(Rest \o head) = Len(Rest) + 2 
      /\ \A i \in 1..(Len(Rest) + 2) : (Rest \o head)[i] = IF i <= Len(Rest) THEN Rest[i] ELSE head[i - Len(Rest)]
  <2>1. /\ Len(Rest \o head) = Len(Rest) + Len(head)
        /\ \A i \in 1..(Len(Rest) + Len(head)) :
             (Rest \o head)[i] = IF i <= Len(Rest) THEN Rest[i] ELSE head[i - Len(Rest)]
    BY <1>1, <1>3, ConcatUnits, Zenon
  <2> QED BY <1>3, <2>1, Zenon
<1> DEFINE most == Rest \o head
<1>10. most \in Seq(Unit) /\ Len(most) = Len(Rest) + 2
  BY <1>6, <1>9
<1>11. /\ \A i \in 1..Len(Rest) : most[i] = Rest[i]
       /\ most[Len(Rest) + 1] = <<0, id>> /\ most[Len(Rest) + 2] = <<0, Short(size)>>
  BY <1>1, <1>3, <1>9
<1>12. Rest' = most \o body
  BY <1>8
<1> HIDE DEF most
<1>13. /\ Rest' \in Seq(Unit) /\ Len(Rest') = Len(Rest) + 2 + size
       /\ \A i \in 1..(Len(Rest) + 2 + size) : Rest'[i] = IF i <= Len(Rest) + 2 THEN most[i] ELSE body[i - (Len(Rest) + 2)]
  <2>1. /\ Rest' \in Seq(Unit) /\ Len(Rest') = Len(most) + Len(body)
        /\ \A i \in 1..(Len(most) + Len(body)) :
             Rest'[i] = IF i <= Len(most) THEN most[i] ELSE body[i - Len(most)]
    BY <1>4, <1>10, <1>12, ConcatUnits, Zenon
  <2> QED BY <1>4, <1>10, <2>1, Zenon
<1>14. \A i \in 1..(Len(Rest) + 2) : Rest'[i] = most[i]
  BY <1>1, <1>2, <1>13
<1>15. ASSUME NEW j \in 1..size PROVE Rest'[Len(Rest) + 2 + j] = <<n, j>>
  <2>1. /\ Len(Rest) + 2 + j \in 1..(Len(Rest) + 2 + size) /\ ~(Len(Rest) + 2 + j <= Len(Rest) + 2)
        /\ (Len(Rest) + 2 + j) - (Len(Rest) + 2) = j
    BY <1>1, <1>2
  <2> QED BY <1>4, <1>13, <2>1
<1>16. /\ \A i \in 1..Len(Rest) : Rest'[i] = Rest[i]
       /\ Rest'[Len(Rest) + 1] = <<0, id>> /\ Rest'[Len(Rest) + 2] = <<0, Short(size)>>
  <2>1. Len(Rest) + 1 \in 1..(Len(Rest) + 2) /\ Len(Rest) + 2 \in 1..(Len(Rest) + 2)
    BY <1>1
  <2>2. \A i \in 1..Len(Rest) : i \in 1..(Len(Rest) + 2)
    BY <1>1
  <2> QED BY <1>11, <1>14, <2>1, <2>2
<1> QED BY <1>7, <1>13, <1>15, <1>16 DEF Longer, n

(* The client sends a frame while the session is anywhere in its reading.  *)
LEMMA ClientSendsInv ==
  ASSUME Parameters, RcvInv, NEW id \in Id, NEW size \in Size, ClientSends(id, size)
  PROVE  RcvInv'
<1> DEFINE f == [id |-> id, size |-> size]
<1>1. /\ sent' = Append(sent, f) /\ Len(sent) < MaxFrames
      /\ UNCHANGED <<mode, want, data, node, nodes, posted, answer, running>>
  BY DEF ClientSends
<1>2. /\ SentFrames(sent) /\ Rest \in Seq(Unit) /\ Len(Rest) \in Nat
      /\ Len(sent) \in Nat /\ Len(posted) \in Nat /\ Current \in Nat /\ want \in Nat
  BY RcvTypes, LenProperties
<1>3. f \in SentFrame
  BY DEF SentFrame
<1>4. stream' \in Seq(Unit) /\ Longer(Rest', Rest, Len(sent) + 1, f)
  BY SendLonger
<1> HIDE DEF f
<1>5. /\ sent' \in Seq(SentFrame) /\ Len(sent') = Len(sent) + 1
      /\ \A i \in 1..Len(sent) : sent'[i] = sent[i]
  BY <1>1, <1>2, <1>3, AppendProperties DEF SentFrames
<1>6. ASSUME NEW m, NEW b, Frames(sent, Rest, m, b)
      PROVE  Frames(sent', Rest', m, b)
  BY <1>1, <1>2, <1>3, <1>4, <1>6, GrowFrames
<1>7. StreamTypeOK'
  <2>1. sent' \in Seq([id : Id, size : Size]) /\ Len(sent') <= MaxFrames
    BY <1>1, <1>2, <1>5 DEF SentFrame, Parameters
  <2> QED BY <1>1, <2>1 DEF RcvInv, RequestsAsSent, StreamTypeOK
<1>8. ASSUME NEW n, Unsayable(n) PROVE Unsayable(n)'
  <2>1. PICK j \in 1..Len(sent) : j <= n /\ sent[j].size >= Half
    BY <1>8 DEF Unsayable
  <2>2. j \in 1..Len(sent') /\ sent'[j] = sent[j]
    BY <1>2, <1>5
  <2> QED BY <2>1, <2>2 DEF Unsayable
<1>9. ASSUME NEW i \in 1..Len(posted')
      PROVE  \/ Unsayable(i)'
             \/ /\ i <= Len(sent')
                /\ nodes'[posted'[i]] = [id |-> sent'[i].id, size |-> sent'[i].size, body |-> Body(i, sent'[i].size)]
  <2>1. \/ Unsayable(i)
        \/ /\ i <= Len(sent)
           /\ nodes[posted[i]] = [id |-> sent[i].id, size |-> sent[i].size, body |-> Body(i, sent[i].size)]
    BY <1>1 DEF RcvInv, RequestsAsSent
  <2>2. i <= Len(sent) => i <= Len(sent') /\ sent'[i] = sent[i]
    BY <1>1, <1>2, <1>5
  <2> QED BY <1>1, <1>8, <2>1, <2>2
<1>10. RequestsAsSent'
  <2>1. mode' = "thrown" => Unsayable(Len(posted) + 1)'
    <3>1. mode = "thrown" => Unsayable(Len(posted) + 1)
      BY DEF RcvInv, RequestsAsSent
    <3>2. mode = "thrown" => \E j \in 1..Len(sent') : j <= Len(posted) + 1 /\ sent'[j].size >= Half
      BY <1>8, <3>1 DEF Unsayable
    <3> QED BY <1>1, <3>2 DEF Unsayable
  <2> QED BY <1>7, <1>9, <2>1 DEF RequestsAsSent, Body
<1>11. /\ ShortAnswersArrive' /\ HeadInv' /\ BodyInv' /\ PostedInv'
       /\ nodes' \in Seq(Node) /\ data' \in Seq(Unit)
  BY <1>1 DEF RcvInv, ShortAnswersArrive, HeadInv, BodyInv, PostedInv, Current
<1>12. CASE Lost
  <2>1. \E j \in 1..Len(sent') : j <= Len(nodes) /\ sent'[j].size >= Half
    BY <1>8, <1>12 DEF Lost, Unsayable
  <2>2. Lost'
    BY <1>1, <2>1 DEF Lost, Unsayable
  <2> QED BY <1>4, <1>10, <1>11, <2>2 DEF RcvInv
<1>13. CASE InStep
  <2>1. Current' = Current
    BY <1>1 DEF Current
  <2>2. mode' = "head" => Frames(sent', Rest', Current', 0)
    BY <1>1, <1>6, <1>13, <2>1 DEF InStep
  <2>3. ASSUME mode = "body"
        PROVE  /\ Current <= Len(sent') /\ want = sent'[Current].size
               /\ Frames(sent', Rest', Current + 1, want)
               /\ \A j \in 1..want : Rest'[j] = <<Current, j>>
               /\ nodes[node].id = sent'[Current].id /\ nodes[node].size = want
    <3>1. /\ Current <= Len(sent) /\ want = sent[Current].size
          /\ Frames(sent, Rest, Current + 1, want)
          /\ \A j \in 1..want : Rest[j] = <<Current, j>>
          /\ nodes[node].id = sent[Current].id /\ nodes[node].size = want
      BY <1>13, <2>3 DEF InStep
    <3>2. sent'[Current] = sent[Current] /\ Current <= Len(sent')
      <4>1. Current \in 1..Len(sent)
        BY <1>2, <3>1 DEF Current
      <4> QED BY <1>2, <1>5, <4>1
    <3>3. Frames(sent', Rest', Current + 1, want)
      BY <1>6, <3>1
    <3>4. ASSUME NEW j \in 1..want PROVE Rest'[j] = <<Current, j>>
      <4>1. want <= Len(Rest)
        BY <1>2, <3>1, FramesBound
      <4>2. j \in 1..Len(Rest)
        BY <1>2, <4>1
      <4> QED BY <1>4, <3>1, <4>2 DEF Longer
    <3> QED BY <3>1, <3>2, <3>3, <3>4
  <2>4. InStep'
    BY <1>1, <2>1, <2>2, <2>3 DEF InStep
  <2> QED BY <1>4, <1>10, <1>11, <2>4 DEF RcvInv
<1> QED BY <1>12, <1>13 DEF RcvInv

(* The lengths of a short answer survive both conversions.                 *)
LEMMA SendAnswerInv ==
  ASSUME Parameters, RcvInv, NEW size \in AnswerSize, SendAnswer(size)
  PROVE  RcvInv'
<1> DEFINE len == Short(size)
           total == Short(len + 2)
<1>1. UNCHANGED <<sent, stream, mode, want, data, node, nodes, posted>> /\ running = TRUE
  BY DEF RcvInv, RequestsAsSent, StreamTypeOK, SendAnswer
<1>2. \/ /\ len >= 0 /\ total >= 0
         /\ answer' = [size |-> size, len |-> len, units |-> total] /\ running' = TRUE
      \/ /\ len < 0 \/ total < 0
         /\ answer' = [size |-> size, len |-> 0, units |-> 0] /\ running' = FALSE
  BY <1>1 DEF SendAnswer, HeadLen
<1>3. size \in Nat /\ Half \in Nat /\ Half > 2
  BY DEF Parameters, HeadLen
<1>4. len \in (-Half)..(Half - 1)
  BY <1>3, ShortRange
<1> HIDE DEF len
<1>5. total \in (-Half)..(Half - 1)
  <2>1. len + 2 \in Int
    BY <1>3, <1>4
  <2> QED BY <2>1, ShortRange
<1>6. size + 2 < Half => len = size /\ total = size + 2
  <2> SUFFICES ASSUME size + 2 < Half PROVE len = size /\ total = size + 2
    OBVIOUS
  <2>1. size \in Nat /\ size + 2 \in Nat /\ size < Half
    BY <1>3
  <2>2. len = size
    BY <2>1, ShortOf DEF len
  <2>3. Short(size + 2) = size + 2
    BY <2>1, ShortOf
  <2> QED BY <2>2, <2>3
<1> HIDE DEF total
<1>7. answer' \in [size : Nat, len : 0..(Half - 1), units : 0..(Half - 1)] /\ running' \in BOOLEAN
  <2>1. 0 \in 0..(Half - 1)
    BY <1>3
  <2>2. len >= 0 /\ total >= 0 => len \in 0..(Half - 1) /\ total \in 0..(Half - 1)
    BY <1>3, <1>4, <1>5
  <2>3. PICK l \in 0..(Half - 1), t \in 0..(Half - 1) : answer' = [size |-> size, len |-> l, units |-> t]
    BY <1>2, <2>1, <2>2, Zenon
  <2>4. running' \in BOOLEAN
    BY <1>2, Zenon
  <2> QED BY <1>3, <2>3, <2>4
<1>8. StreamTypeOK'
  BY <1>1, <1>7 DEF RcvInv, RequestsAsSent, StreamTypeOK
<1>9. RequestsAsSent'
  BY <1>1, <1>8 DEF RcvInv, RequestsAsSent, Body, Unsayable
<1>10. ShortAnswersArrive'
  <2> SUFFICES ASSUME answer'.size + 2 < Half
               PROVE  running' /\ answer'.len = answer'.size /\ answer'.units = 2 + answer'.size
    BY DEF ShortAnswersArrive, HeadLen
  <2>1. answer'.size = size
    BY <1>2
  <2>2. len = size /\ total = size + 2
    BY <1>6, <2>1
  <2>3. len >= 0 /\ total >= 0
    BY <1>3, <2>2
  <2>4. answer' = [size |-> size, len |-> len, units |-> total] /\ running' = TRUE
    BY <1>2, <1>4, <1>5, <2>3
  <2> QED BY <1>3, <2>2, <2>4
<1>11. HeadInv' /\ BodyInv' /\ PostedInv' /\ (Lost' \/ InStep')
  BY <1>1 DEF RcvInv, HeadInv, BodyInv, PostedInv, Current, Rest, Lost, Unsayable, InStep
<1> QED BY <1>1, <1>9, <1>10, <1>11 DEF RcvInv

(* Every step of Framing keeps the invariant.                              *)
LEMMA RcvNext ==
  ASSUME Parameters, RcvInv, StreamNext
  PROVE  RcvInv'
<1>1. \A k \in 0..MaxLength : k \in Nat
  BY DEF Parameters
<1>2. CASE \E id \in Id, size \in Size : ClientSends(id, size)
  BY <1>2, ClientSendsInv
<1>3. CASE Read
  <2>1. PICK k \in Nat : ReadMore(k) \/ ReadHead(k) \/ ReadBody(k)
    BY <1>1, <1>3 DEF Read
  <2> QED BY <2>1, ReadMoreInv, ReadHeadInv, ReadBodyInv
<1>4. CASE ReadFailed
  BY <1>4, ReadErrorInv
<1>5. CASE \E size \in AnswerSize : SendAnswer(size)
  BY <1>5, SendAnswerInv
<1> QED BY <1>2, <1>3, <1>4, <1>5 DEF StreamNext

(* The invariant holds always.                                             *)
LEMMA RcvInductive ==
  ASSUME Parameters
  PROVE  StreamSpec => []RcvInv
<1>1. StreamInit => RcvInv
  BY RcvInit
<1>2. RcvInv /\ [StreamNext]_(streamVars) => RcvInv'
  <2> SUFFICES ASSUME RcvInv, [StreamNext]_(streamVars) PROVE RcvInv'
    OBVIOUS
  <2>1. CASE StreamNext
    BY <2>1, RcvNext
  <2>2. CASE UNCHANGED streamVars
    BY <2>2 DEF streamVars, RcvInv, RequestsAsSent, StreamTypeOK, ShortAnswersArrive, Body,
                HeadInv, BodyInv, PostedInv, Current, Rest, Lost, Unsayable, InStep
  <2> QED BY <2>1, <2>2
<1> QED BY <1>1, <1>2, PTL DEF StreamSpec

(* However the stream is cut into pieces and whatever the width of a       *)
(* field, the worker finds the requests in the nodes as they were sent, in *)
(* order, up to the first one with a body that its length field cannot say *)
(* the size of (CSession.cpp AsyncReadHead, AsyncReadBody, asyncReadLen).  *)
THEOREM RequestsReadAsSent == StreamSpec => []RequestsAsSent
<1>1. RcvInv => RequestsAsSent
  BY DEF RcvInv
<1>2. StreamSpec => []RcvInv
  BY ParametersAssumption, RcvInductive
<1> QED BY <1>1, <1>2, PTL

(* An answer that leaves room for the header has lengths the client can    *)
(* read.                                                                   *)
THEOREM ShortAnswersAreFramed == StreamSpec => []ShortAnswersArrive
<1>1. RcvInv => ShortAnswersArrive
  BY DEF RcvInv
<1>2. StreamSpec => []RcvInv
  BY ParametersAssumption, RcvInductive
<1> QED BY <1>1, <1>2, PTL
=============================================================================
