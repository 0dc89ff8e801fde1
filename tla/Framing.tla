------------------------------ MODULE Framing -------------------------------
(***************************************************************************)
(* How one CSession cuts the byte stream of its client into requests, and  *)
(* how SendNode lays out an answer.                                        *)
(*                                                                         *)
(* A frame is a header, the message id and the length of the body, each in *)
(* a field of fixed width, and the body.  The session reads a whole header *)
(* and then a whole body into _data, in as many pieces as the socket gives *)
(* it; it copies a body into a new node and posts the node to the logic    *)
(* queue, whose worker looks at it later.  Here a field is one unit of the *)
(* stream, and its range is scaled down to -Half..(Half - 1).              *)
(*                                                                         *)
(* A body may be longer than its field can say.  If the number that the    *)
(* field says instead is negative, the session throws; if it is not, the   *)
(* session goes on reading headers out of the middle of the body.          *)
(***************************************************************************)
EXTENDS Integers, Sequences

CONSTANTS Half,        \* 2^15: a short is in -Half..(Half - 1)
          MaxLength,   \* MAX_LENGTH, the size of _data
          Id,          \* the ids of messages that clients send
          Size,        \* the sizes of the bodies that clients send
          BodyValue,   \* what a field says that is read out of a body
          AnswerSize,  \* the sizes of the texts that are sent to clients
          MaxFrames,   \* bound on the frames a client sends
          None

HeadLen == 2           \* HEAD_TOTAL_LEN, in units

(* The conversion of an int to a short.                                    *)
Short(n) == ((n + Half) % (2 * Half)) - Half

Parameters ==
  /\ Half \in Nat /\ MaxLength \in HeadLen..(Half - 1)
  /\ Id \subseteq 1..(Half - 1)
  /\ Size \subseteq {n \in Nat : Short(n) # -1}         \* -1: undefined
  /\ BodyValue \subseteq (-Half..(Half - 1)) \ {-1}
  /\ AnswerSize \subseteq Nat /\ MaxFrames \in Nat

ASSUME ParametersAssumption == Parameters

VARIABLES
  sent,      \* the frames the client has sent: id and size
  stream,    \* what the session has not read of them
  mode,      \* the read that is outstanding, or why there is none
  want,      \* the number of units it is for
  data,      \* _data: what it has read of them
  node,      \* _recv_msg_node: which one it is
  nodes,     \* the nodes made so far: id, size, body
  posted,    \* the nodes handed to the logic queue, in order
  answer,    \* the last answer: size of the text, length field, units written
  running    \* the process runs

streamVars == <<sent, stream, mode, want, data, node, nodes, posted, answer, running>>

StreamInit == /\ sent = <<>> /\ stream = <<>>
              /\ mode = "head" /\ want = HeadLen /\ data = <<>>
              /\ node = 0 /\ nodes = <<>> /\ posted = <<>>
              /\ answer = None /\ running = TRUE

(* A unit of the stream is a field, <<0, value>>, or a unit of the body of *)
(* the n-th frame.                                                         *)
Body(n, size) == [i \in 1..size |-> <<n, i>>]

(* The client sends a frame, a body longer than the field can say included.*)
ClientSends(id, size) ==
  /\ Len(sent) < MaxFrames
  /\ sent' = Append(sent, [id |-> id, size |-> size])
  /\ stream' = stream \o <<<<0, id>>, <<0, Short(size)>>>> \o Body(Len(sent'), size)
  /\ UNCHANGED <<mode, want, data, node, nodes, posted, answer, running>>

-----------------------------------------------------------------------------
(* async_read_some gives k units (none is enough for an empty body).       *)
Given(k) == /\ running /\ mode \in {"head", "body"}
            /\ k <= Len(stream) /\ (k > 0 \/ want = 0)
            /\ stream' = SubSeq(stream, k + 1, Len(stream))

Got(k) == data \o SubSeq(stream, 1, k)

(* What the session takes a unit for that it reads in a header's place.    *)
Field(unit) == IF unit[1] = 0 THEN {unit[2]} ELSE BodyValue

AsyncRead(what, n) == mode' = what /\ want' = n /\ data' = <<>>
StopReading(why) == mode' = why /\ want' = 0 /\ data' = <<>>

(* asyncReadLen: not enough yet.                                           *)
ReadMore(k) ==
  /\ Given(k) /\ Len(data) + k < want
  /\ data' = Got(k)
  /\ UNCHANGED <<sent, mode, want, node, nodes, posted, answer, running>>

(* Mutant: one node serves all messages.                                   *)
ReadHead_OneNode(k) ==
  /\ mode = "head" /\ Given(k) /\ Len(data) + k = want
  /\ \E id \in Field(Got(k)[1]), len \in Field(Got(k)[2]) :
        IF id > MaxLength \/ len > MaxLength \/ len < 0
        THEN StopReading("cleared") /\ UNCHANGED <<node, nodes>>
        ELSE /\ nodes' = <<[id |-> id, size |-> len, body |-> <<>>]>>
             /\ node' = 1
             /\ AsyncRead("body", len)
  /\ UNCHANGED <<sent, posted, answer, running>>

(* AsyncReadHead's handler.  An id or a length above MAX_LENGTH clears the *)
(* session.  The allocation for a negative length throws, and the handler  *)
(* ends: nothing is read any more, and nothing is cleared.                 *)
ReadHead(k) ==
  /\ mode = "head" /\ Given(k) /\ Len(data) + k = want
  /\ \E id \in Field(Got(k)[1]), len \in Field(Got(k)[2]) :
        \/ /\ id > MaxLength \/ len > MaxLength
           /\ StopReading("cleared") /\ UNCHANGED <<node, nodes>>
        \/ /\ id <= MaxLength /\ len < 0
           /\ StopReading("thrown") /\ UNCHANGED <<node, nodes>>
        \/ /\ id <= MaxLength /\ len \in 0..MaxLength
           /\ nodes' = Append(nodes, [id |-> id, size |-> len, body |-> <<>>])
           /\ node' = Len(nodes')
           /\ AsyncRead("body", len)
  /\ UNCHANGED <<sent, posted, answer, running>>

(* Mutant: no further header is read after a body of no units.             *)
ReadBody_StopsOnEmpty(k) ==
  /\ mode = "body" /\ Given(k) /\ Len(data) + k = want
  /\ nodes' = [nodes EXCEPT ![node].body = Got(k)]
  /\ posted' = Append(posted, node)
  /\ IF k = 0 THEN StopReading("thrown") ELSE AsyncRead("head", HeadLen)
  /\ UNCHANGED <<sent, node, answer, running>>

(* AsyncReadBody's handler.                                                *)
ReadBody(k) ==
  /\ mode = "body" /\ Given(k) /\ Len(data) + k = want
  /\ nodes' = [nodes EXCEPT ![node].body = Got(k)]
  /\ posted' = Append(posted, node)
  /\ AsyncRead("head", HeadLen)
  /\ UNCHANGED <<sent, node, answer, running>>

(* Either handler is told of an error: Close and ClearSession.             *)
ReadFailed ==
  /\ running /\ mode \in {"head", "body"}
  /\ StopReading("cleared")
  /\ UNCHANGED <<sent, stream, node, nodes, posted, answer, running>>

-----------------------------------------------------------------------------
(* Mutant: the length field counts the header as well.                     *)
SendAnswer_CountsHead(size) ==
  /\ running /\ posted # <<>> /\ answer = None
  /\ LET len == Short(size)
         total == Short(len + HeadLen)
     IN answer' = [size |-> size, len |-> total, units |-> total]
  /\ UNCHANGED <<sent, stream, mode, want, data, node, nodes, posted, running>>

(* Send of a text: its size is taken as a short, the size of the node is a *)
(* short again.  For a negative one the allocation throws, or memcpy gets  *)
(* a huge size; the Defer of the handler cannot pass an exception on, so   *)
(* either ends the process.                                                *)
SendAnswer(size) ==
  /\ running /\ posted # <<>> /\ answer = None
  /\ LET len == Short(size)
         total == Short(len + HeadLen)
     IN \/ /\ len >= 0 /\ total >= 0
           /\ answer' = [size |-> size, len |-> len, units |-> total]
           /\ UNCHANGED running
        \/ /\ len < 0 \/ total < 0
           /\ answer' = [size |-> size, len |-> 0, units |-> 0]
           /\ running' = FALSE
  /\ UNCHANGED <<sent, stream, mode, want, data, node, nodes, posted>>

Read == \E k \in 0..MaxLength : ReadMore(k) \/ ReadHead(k) \/ ReadBody(k)

StreamNext == \/ \E id \in Id, size \in Size : ClientSends(id, size)
              \/ Read \/ ReadFailed
              \/ \E size \in AnswerSize : SendAnswer(size)

(* The socket delivers what was sent; the client need not send anything.   *)
StreamSpec == StreamInit /\ [][StreamNext]_streamVars /\ WF_streamVars(Read)

-----------------------------------------------------------------------------
(* The types; what is read fits into _data and into the node it is for.    *)
StreamTypeOK ==
  /\ sent \in Seq([id : Id, size : Size]) /\ Len(sent) <= MaxFrames
  /\ mode \in {"head", "body", "cleared", "thrown"}
  /\ want \in 0..MaxLength /\ Len(data) <= want
  /\ mode = "body" => node \in 1..Len(nodes) /\ want = nodes[node].size
  /\ \A i \in 1..Len(nodes) : Len(nodes[i].body) <= nodes[i].size
  /\ posted \in Seq(1..Len(nodes))
  /\ answer = None \/ answer \in [size : Nat, len : 0..(Half - 1), units : 0..(Half - 1)]
  /\ running \in BOOLEAN

Legal(frame) == frame.id <= MaxLength /\ frame.size <= MaxLength

(* A frame among the first n that the client sent has a body longer than   *)
(* its length field can say.                                               *)
Unsayable(n) == \E j \in 1..Len(sent) : j <= n /\ sent[j].size >= Half

(* The types; and however the stream is cut into pieces, the worker finds  *)
(* in the nodes of its queue the requests as they were sent, in order, and *)
(* goes on finding them there while later ones are read, up to the first   *)
(* one with a body whose size its length field cannot say.  Only such a    *)
(* one, or what is read after it, makes the session stop reading for good  *)
(* without being cleared.                                                  *)
RequestsAsSent ==
  /\ StreamTypeOK
  /\ \A i \in 1..Len(posted) :
       \/ Unsayable(i)
       \/ /\ i <= Len(sent)
          /\ nodes[posted[i]] = [id |-> sent[i].id, size |-> sent[i].size, body |-> Body(i, sent[i].size)]
  /\ mode = "thrown" => Unsayable(Len(posted) + 1)

(* An answer that leaves room for the header is one the client can cut off *)
(* the stream again; only a longer one ends the process.                   *)
ShortAnswersArrive ==
  answer # None /\ answer.size + HeadLen < Half
    => running /\ answer.len = answer.size /\ answer.units = HeadLen + answer.size

(* Every request of a client that sends nothing illegal is posted, unless  *)
(* the connection or the process fails.                                    *)
RequestsArrive ==
  (Len(posted) < Len(sent)) ~>
    \/ Len(posted) >= Len(sent)
    \/ mode = "cleared" \/ ~running
    \/ \E i \in 1..Len(sent) : ~Legal(sent[i])
=============================================================================
