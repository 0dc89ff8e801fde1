----------------------------- MODULE MCConnPool -----------------------------
(* Two connections (the servers make five), and up to three threads.       *)
EXTENDS ConnPool

CONSTANTS c1, c2, w1, w2, w3

MCOne == <<c1>>
MCTwo == <<c1, c2>>
=============================================================================
