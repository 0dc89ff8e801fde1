---------------------------- MODULE MCLogicQueue ----------------------------
(* Two io threads (the pool has one per core) and up to four messages.     *)
EXTENDS LogicQueue
=============================================================================
