---------------------------- MODULE MCSendQueue ----------------------------
(* SendQueue with a queue of three places (MAX_SENDQUE = 2 and one more)   *)
(* and five accepted messages of two pieces each.                          *)
EXTENDS SendQueue
=============================================================================
