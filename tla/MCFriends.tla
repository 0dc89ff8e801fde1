----------------------------- MODULE MCFriends ------------------------------
(* One user has an application from another, and a later one from a third, *)
(* who stays away; it may apply to the other itself.  It logs in once, the *)
(* other on either server or on both.  The limit is one.                   *)
EXTENDS Friends, TLC

CONSTANTS a, b, u1, u2, u3, x1, x2, x3

MCUserOf == x1 :> u1 @@ x2 :> u2 @@ x3 :> u2
MCHome == x1 :> a @@ x2 :> a @@ x3 :> b
MCAsks == x1 :> 2 @@ x2 :> 0 @@ x3 :> 1
MCStored == <<<<u2, u1>>, <<u3, u1>>>>
MCMayApply == {<<u1, u2>>}
=============================================================================
