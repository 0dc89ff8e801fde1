----------------------------- MODULE MCUserCache ----------------------------
(* A worker and the gRPC thread of another server; two users with the same *)
(* name.  "" stands for the texts without an int.                          *)
EXTENDS UserCache, TLC

CONSTANTS w, g, s1, s2

MCServerOf == w :> s1 @@ g :> s2
MCText == {"", "1", "01", "2", "ann"}
MCNumberOf == "" :> NoInt @@ "1" :> 1 @@ "01" :> 1 @@ "2" :> 2 @@ "ann" :> None
MCNameOf == 1 :> "ann" @@ 2 :> "ann"
MCTextOf == 1 :> "1" @@ 2 :> "2"
=============================================================================
