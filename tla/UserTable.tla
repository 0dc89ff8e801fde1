----------------------------- MODULE UserTable -----------------------------
(***************************************************************************)
(* What the gate's accounts promise to the other servers, which know a     *)
(* user by the uid alone: a table that only grows, whose rows keep their   *)
(* uid, name and email for ever, and in which each uid is the next value   *)
(* of a counter that no failed registration moves.  A password is changed  *)
(* in all rows of an email at once, and in no others.                      *)
(***************************************************************************)
EXTENDS Integers, Sequences

CONSTANTS Name, Email, Pwd

VARIABLES users,      \* the rows in the order they were added
          counter     \* the last uid that was given out

vars == <<users, counter>>

User == [uid : Nat, name : Name, email : Email, pwd : Pwd]

Init == users = <<>> /\ counter = 0

Register(n, e, p) ==
  /\ counter' = counter + 1
  /\ users' = Append(users, [uid |-> counter + 1, name |-> n, email |-> e, pwd |-> p])

SetPwd(e, p) ==
  /\ users' = [i \in DOMAIN users |-> IF users[i].email = e THEN [users[i] EXCEPT !.pwd = p]
                                                            ELSE users[i]]
  /\ UNCHANGED counter

Next == \E e \in Email, p \in Pwd : SetPwd(e, p) \/ \E n \in Name : Register(n, e, p)

Spec == Init /\ [][Next]_vars
=============================================================================
