----------------------------- MODULE SendQueue -----------------------------
(***************************************************************************)
(* The send side of one CSession (ChatServer/CSession.cpp).  The logic     *)
(* worker and the gRPC threads call Send, which runs under _send_lock; the *)
(* io thread of the session runs HandleWrite and the read handlers.  A     *)
(* message is known by the position at which Send accepted it.             *)
(***************************************************************************)
EXTENDS Integers, Sequences

CONSTANTS MaxSendQue,   \* MAX_SENDQUE
          Parts,        \* pieces in which the socket takes one frame
          MaxSends      \* bound on the accepted calls of Send

ASSUME MaxSendQueAssumption == MaxSendQue \in Nat
ASSUME PartsAssumption == Parts \in Nat \ {0}
ASSUME MaxSendsAssumption == MaxSends \in Nat

VARIABLES sendQue,    \* _send_que
          writes,     \* the async_writes whose handler has not run yet
          open,       \* the socket is open (Close has not run)
          reading,    \* a read of the header or the body is outstanding
          cleared,    \* ClearSession has been called for this session
          accepted,   \* calls of Send that pushed
          refused,    \* a call of Send found the queue full and dropped
          wire        \* pieces of frames the socket has taken, in order

vars == <<sendQue, writes, open, reading, cleared, accepted, refused, wire>>

(* The stream is up until the socket is closed or a write has failed.      *)
Up == open /\ \A w \in writes : w.result # "error"

FS == INSTANCE FrameStream WITH up <- Up

Write == [frame : Nat, done : 0..Parts, result : {"pending", "ok", "error"}]

(* async_write on the front of queue q.  On a closed socket it completes   *)
(* with an error at once (its handler still runs later, on the io thread). *)
StartWrite(q) ==
  [frame |-> Head(q), done |-> 0, result |-> IF open THEN "pending" ELSE "error"]

Failed(w) == [frame |-> w.frame, done |-> w.done, result |-> "error"]

Advanced(w) == [frame |-> w.frame, done |-> w.done + 1,
                result |-> IF w.done + 1 = Parts THEN "ok" ELSE "pending"]

(* Closing the socket aborts what is still being written.                  *)
Aborted(ws) ==
  {IF w.result = "pending" THEN Failed(w) ELSE w : w \in ws}

Init == /\ sendQue = <<>>
        /\ writes = {}
        /\ open = TRUE
        /\ reading = TRUE
        /\ cleared = FALSE
        /\ accepted = 0
        /\ refused = FALSE
        /\ wire = <<>>

SendFull == /\ Len(sendQue) > MaxSendQue
            /\ refused' = TRUE
            /\ UNCHANGED <<sendQue, writes, open, reading, cleared, accepted, wire>>

(* Mutant: every call starts a write, whatever is outstanding.             *)
Send_AlwaysWrites ==
  /\ accepted < MaxSends
  /\ ~(Len(sendQue) > MaxSendQue)
  /\ accepted' = accepted + 1
  /\ sendQue' = Append(sendQue, accepted')
  /\ writes' = writes \cup {StartWrite(sendQue')}
  /\ UNCHANGED <<open, reading, cleared, refused, wire>>

(* Only the call that finds the queue empty starts a write.                *)
Send == /\ accepted < MaxSends
        /\ ~(Len(sendQue) > MaxSendQue)
        /\ accepted' = accepted + 1
        /\ sendQue' = Append(sendQue, accepted')
        /\ writes' = IF sendQue = <<>> THEN writes \cup {StartWrite(sendQue')} ELSE writes
        /\ UNCHANGED <<open, reading, cleared, refused, wire>>

(* The kernel takes the next piece of an outstanding write.                *)
SocketTakes(w) ==
  /\ w.result = "pending"
  /\ wire' = Append(wire, [frame |-> w.frame, part |-> w.done + 1])
  /\ writes' = (writes \ {w}) \cup {Advanced(w)}
  /\ UNCHANGED <<sendQue, open, reading, cleared, accepted, refused>>

(* The connection is reset while the write is under way.                   *)
SocketFails(w) ==
  /\ w.result = "pending"
  /\ writes' = (writes \ {w}) \cup {Failed(w)}
  /\ UNCHANGED <<sendQue, open, reading, cleared, accepted, refused, wire>>

(* Mutant: the handler pops and forgets the rest of the queue.             *)
HandleWrite_NoNext(w) ==
  /\ w.result = "ok"
  /\ sendQue' = Tail(sendQue)
  /\ writes' = writes \ {w}
  /\ UNCHANGED <<open, reading, cleared, accepted, refused, wire>>

(* Mutant: the handler writes the front again instead of popping it.       *)
HandleWrite_NoPop(w) ==
  /\ w.result = "ok"
  /\ writes' = (writes \ {w}) \cup {StartWrite(sendQue)}
  /\ UNCHANGED <<sendQue, open, reading, cleared, accepted, refused, wire>>

(* HandleWrite without error: pop, and write the new front if there is one. *)
HandleWrite(w) ==
  /\ w.result = "ok"
  /\ sendQue' = Tail(sendQue)
  /\ writes' = (writes \ {w}) \cup (IF sendQue' = <<>> THEN {} ELSE {StartWrite(sendQue')})
  /\ UNCHANGED <<open, reading, cleared, accepted, refused, wire>>

(* HandleWrite with an error: nothing is popped, nothing is written again. *)
HandleWriteError(w) ==
  /\ w.result = "error"
  /\ open' = FALSE
  /\ writes' = Aborted(writes \ {w})
  /\ cleared' = TRUE
  /\ UNCHANGED <<sendQue, reading, accepted, refused, wire>>

(* A read handler sees an error (or its read was aborted by Close).        *)
ReadError ==
  /\ reading
  /\ reading' = FALSE
  /\ open' = FALSE
  /\ writes' = Aborted(writes)
  /\ cleared' = TRUE
  /\ UNCHANGED <<sendQue, accepted, refused, wire>>

(* A header with an id or a length above MAX_LENGTH: the session is taken  *)
(* out of the server's table and is not read any more, but stays open.     *)
InvalidHeader ==
  /\ reading /\ open
  /\ reading' = FALSE
  /\ cleared' = TRUE
  /\ UNCHANGED <<sendQue, writes, open, accepted, refused, wire>>

Next == \/ Send
        \/ SendFull
        \/ \E w \in writes : SocketTakes(w)
        \/ \E w \in writes : SocketFails(w)
        \/ \E w \in writes : HandleWrite(w)
        \/ \E w \in writes : HandleWriteError(w)
        \/ ReadError
        \/ InvalidHeader

(* The peer keeps reading or the connection fails; the io thread runs the  *)
(* handlers that are ready.  Nobody is obliged to call Send.               *)
Fairness == /\ WF_vars(\E w \in writes : SocketTakes(w) \/ SocketFails(w))
            /\ WF_vars(\E w \in writes : HandleWrite(w) \/ HandleWriteError(w))

SafeSpec == Init /\ [][Next]_vars

Spec == SafeSpec /\ Fairness

-----------------------------------------------------------------------------
(* Types; the queue exceeds MAX_SENDQUE by one (CSession.cpp compares with *)
(* > before it pushes).                                                    *)
TypeOK == /\ sendQue \in Seq(Nat)
          /\ Len(sendQue) <= MaxSendQue + 1
          /\ writes \subseteq Write
          /\ open \in BOOLEAN
          /\ reading \in BOOLEAN
          /\ cleared \in BOOLEAN
          /\ accepted \in Nat
          /\ refused \in BOOLEAN
          /\ wire \in Seq(FS!Piece)

(* Two async_writes are never outstanding on one socket, whichever threads *)
(* call Send and whenever the handler of the previous write runs           *)
(* (CSession.cpp:49, 182): boost::asio would interleave their bytes.       *)
OneWriteOutstanding == \A v, w \in writes : v = w

(* The frames go out whole, one after the other, in the order in which     *)
(* Send accepted them, none skipped and none repeated - also when a write  *)
(* failed half way, when the queue filled up, and when Send was called     *)
(* between a write's end and its handler.                                  *)
FramesContiguous ==
  \A k \in 1..Len(wire) :
    wire[k] = FS!After(IF k = 1 THEN FS!End(<<>>) ELSE wire[k - 1])

(* Messages wait with no write to carry them out only on a closed session  *)
(* that the server has been told about: the queue left behind by a failed  *)
(* write is never waited for on a live session.                            *)
StalledOnlyWhenClosed == sendQue # <<>> /\ writes = {} => ~open /\ cleared

(* Every accepted message is written whole, or the session is closed and   *)
(* cleared: no message stays in the queue of a session that lives.         *)
AcceptedIsWritten ==
  \A n \in 1..MaxSends :
    accepted >= n ~> (\/ \E k \in 1..Len(wire) : wire[k] = [frame |-> n, part |-> Parts]
                      \/ ~open /\ cleared)

(* The session implements the frame stream, liveness included.             *)
ImplementsFrameStream == FS!Spec
=============================================================================
