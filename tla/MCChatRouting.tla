--------------------------- MODULE MCChatRouting ---------------------------
(* Two servers; two sessions on the first and one on the second; two uids. *)
EXTENDS ChatRouting

CONSTANTS A, B, s1, s2, s3, u1, u2

MCHome == [s \in Session |-> IF s = s3 THEN B ELSE A]

(* Messages: the user of the first server writes to itself and to the      *)
(* user of the second; or each of them writes to the other.                *)
LoginOwn == [s \in Session |-> IF s = s1 THEN {u1} ELSE {u2}]
TextFirst == [s \in Session |-> IF s = s1 THEN {u1, u2} ELSE {}]
TextOther == [s \in Session |-> IF s = s1 THEN {u2} ELSE {u1}]

(* Logins: every session as u1, the first one also as u2.                  *)
LoginShared == [s \in Session |-> IF s = s1 THEN {u1, u2} ELSE {u1}]
NoText == [s \in Session |-> {}]
=============================================================================
