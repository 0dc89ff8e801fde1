---------------------------- MODULE FrameStream ----------------------------
(***************************************************************************)
(* What one client connection promises to its reader, seen from the wire:  *)
(* a byte stream in which the accepted frames appear in the order in which *)
(* they were accepted, each one whole before the next one begins.  A frame *)
(* is known by the position at which it was accepted (1, 2, ...) and goes  *)
(* out in Parts pieces; the reader (HEAD_TOTAL_LEN bytes of header, then   *)
(* the announced number of body bytes) loses the frame boundaries for ever *)
(* as soon as two frames overlap or one is left half written.              *)
(***************************************************************************)
EXTENDS Integers, Sequences

CONSTANTS Parts,      \* pieces in which the socket takes one frame
          MaxSends    \* bound on the calls of Send


VARIABLES accepted,   \* frames accepted so far
          wire,       \* the pieces the socket has taken, in order
          up          \* FALSE once the stream is broken

vars == <<accepted, wire, up>>

Piece == [frame : Nat, part : 1..Parts]

(* The last piece on the wire; the empty wire ends a frame numbered 0.     *)
End(w) == IF w = <<>> THEN [frame |-> 0, part |-> Parts] ELSE w[Len(w)]

(* The piece that has to follow p.                                         *)
After(p) == IF p.part < Parts
            THEN [frame |-> p.frame, part |-> p.part + 1]
            ELSE [frame |-> p.frame + 1, part |-> 1]

Init == /\ accepted = 0
        /\ wire = <<>>
        /\ up = TRUE

Accept == /\ accepted < MaxSends
          /\ accepted' = accepted + 1
          /\ UNCHANGED <<wire, up>>

Emit == /\ up
        /\ After(End(wire)).frame <= accepted
        /\ wire' = Append(wire, After(End(wire)))
        /\ UNCHANGED <<accepted, up>>

(* The connection fails; a frame accepted meanwhile is never emitted.      *)
Break == /\ up
         /\ up' = FALSE
         /\ UNCHANGED <<accepted, wire>>

Next == Accept \/ Emit \/ Break

SafeSpec == Init /\ [][Next]_vars

Spec == SafeSpec /\ WF_vars(Emit)
=============================================================================
