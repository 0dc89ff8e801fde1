----------------------------- MODULE MCAccounts -----------------------------
(* Requests for TLC: two registrations that want the same email or the same  *)
(* name, two resets, which may find no user, and a login.                    *)
EXTENDS Accounts, TLC

CONSTANTS r1, r2, s1, s2, l1, e1, e2, n1, n2, p1, p2, p3

Of(e, n, p) == [email |-> e, name |-> n, pwd |-> p]

MCKind == r1 :> "register" @@ r2 :> "register"
          @@ s1 :> "reset" @@ s2 :> "reset" @@ l1 :> "login"

MCMayAsk == r1 :> {Of(e1, n1, p1)} @@ r2 :> {Of(e1, n2, p1), Of(e2, n1, p1)}
            @@ s1 :> {Of(e1, n1, p2)} @@ s2 :> {Of(e1, n1, p3)}
            @@ l1 :> {Of(e1, n1, p1), Of(e1, n1, p2)}
=============================================================================
