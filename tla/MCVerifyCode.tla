---------------------------- MODULE MCVerifyCode ----------------------------
(* Three requests for codes and one that uses a code.                      *)
EXTENDS VerifyCode, TLC

CONSTANTS c1, c2, c3, u1, e1, e2

MCKind == c1 :> "code" @@ c2 :> "code" @@ c3 :> "code" @@ u1 :> "user"
MCMayAsk == c1 :> {e1} @@ c2 :> {e1, e2} @@ c3 :> {e1} @@ u1 :> {e1}
=============================================================================
