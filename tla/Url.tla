-------------------------------- MODULE Url ---------------------------------
(***************************************************************************)
(* The parameters of a GET request (HttpConnection.cpp), on sequences of   *)
(* bytes.  UrlEncode is what the gate offers and clients do; UrlDecode and *)
(* PreParseGetParam are what the gate does with the target of a request.   *)
(*                                                                         *)
(* The assertions of UrlDecode and FromHex are compiled out by the build   *)
(* script; what a string that violates them decodes to is not modelled.    *)
(***************************************************************************)
EXTENDS Integers, Sequences, FiniteSets, SequencesExt

Space == 32     Percent == 37     Amp == 38      Plus == 43
Slash == 47     Equal == 61       Question == 63

isalnum(x) == x \in 48..57 \cup 65..90 \cup 97..122

ToHex(x) == IF x > 9 THEN x + 55 ELSE x + 48

FromHex(x) == CASE x \in 65..90  -> x - 65 + 10
                [] x \in 97..122 -> x - 97 + 10
                [] x \in 48..57  -> x - 48

(* "-", ".", "_" and "~" are sent as they are, like letters and digits.    *)
UrlEncode(str) ==
  LET Code(x) == CASE isalnum(x) \/ x \in {45, 46, 95, 126} -> <<x>>
                   [] x = Space -> <<Plus>>
                   [] OTHER -> <<Percent, ToHex(x \div 16), ToHex(x % 16)>>
  IN FlattenSeq([i \in DOMAIN str |-> Code(str[i])])

(* Decoded so far, and how many digits of a "%" are still to come.         *)
Decoding == [out |-> <<>>, digits |-> 0, high |-> 0]

(* Mutant: the digits are taken in the wrong order.                        *)
UrlDecode_LowFirst(str) ==
  LET Take(d, x) ==
        CASE d.digits = 2 -> [d EXCEPT !.digits = 1, !.high = FromHex(x)]
          [] d.digits = 1 -> [d EXCEPT !.digits = 0,
                                       !.out = Append(@, (FromHex(x) * 16 + d.high) % 256)]
          [] x = Percent /\ d.digits = 0 -> [d EXCEPT !.digits = 2]
          [] OTHER        -> [d EXCEPT !.out = Append(@, IF x = Plus THEN Space ELSE x)]
  IN FoldLeft(Take, Decoding, str).out

UrlDecode(str) ==
  LET Take(d, x) ==
        CASE d.digits = 2 -> [d EXCEPT !.digits = 1, !.high = FromHex(x)]
          [] d.digits = 1 -> [d EXCEPT !.digits = 0,
                                       !.out = Append(@, (d.high * 16 + FromHex(x)) % 256)]
          [] x = Percent /\ d.digits = 0 -> [d EXCEPT !.digits = 2]
          [] OTHER        -> [d EXCEPT !.out = Append(@, IF x = Plus THEN Space ELSE x)]
  IN FoldLeft(Take, Decoding, str).out

-----------------------------------------------------------------------------
First(str, byte) == SelectInSeq(str, LAMBDA x : x = byte)       \* 0: none

(* The parts of the query between the "&"s.                                *)
Parts(query) ==
  FoldLeft(LAMBDA ps, x : IF x = Amp THEN Append(ps, <<>>)
                                     ELSE [ps EXCEPT ![Len(ps)] = Append(@, x)],
           << <<>> >>, query)

(* A part without "=" is left out; of two with the same key the later one  *)
(* counts.                                                                 *)
PutPair(found, pair) ==
  LET eq == First(pair, Equal)
  IN IF eq = 0 THEN found
     ELSE UrlDecode(SubSeq(pair, 1, eq - 1)) :> UrlDecode(SubSeq(pair, eq + 1, Len(pair)))
          @@ found

PreParseGetParam(uri) ==
  LET cut == First(uri, Question)
  IN IF cut = 0 THEN [url |-> uri, params |-> <<>>]
     ELSE [url |-> SubSeq(uri, 1, cut - 1),
           params |-> FoldLeft(PutPair, <<>>, Parts(SubSeq(uri, cut + 1, Len(uri))))]

-----------------------------------------------------------------------------
(* The reference: what a client means with a sequence of parameters, each  *)
(* a key and a value, and what it sends.                                   *)
Meant(ps) ==
  [k \in {ps[i][1] : i \in DOMAIN ps} |->
     ps[CHOOSE i \in DOMAIN ps : /\ ps[i][1] = k
                                /\ \A j \in DOMAIN ps : ps[j][1] = k => j <= i][2]]

Query(ps) ==
  FlattenSeq([i \in DOMAIN ps |-> (IF i = 1 THEN <<>> ELSE <<Amp>>)
                                 \o UrlEncode(ps[i][1]) \o <<Equal>> \o UrlEncode(ps[i][2])])
=============================================================================
