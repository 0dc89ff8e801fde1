---------------------------- MODULE MCLoginFlow -----------------------------
(* Two logins of one user, on two servers, one of which may stop.          *)
EXTENDS LoginFlow, TLC

CONSTANTS a, b, l1, l2, u

MCUidOf == l1 :> u @@ l2 :> u
=============================================================================
