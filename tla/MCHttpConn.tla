----------------------------- MODULE MCHttpConn -----------------------------
(* Three connections on two io threads.                                    *)
EXTENDS HttpConn, TLC

CONSTANTS a, b, c, t, u

MCAsks == a :> {"verify", "plain", "throws"} @@ b :> {"verify", "status"}
            @@ c :> {"status", "method"}
MCIoThread == a :> t @@ b :> u @@ c :> t

(* "a&=" is "%+ ", byte 200 is empty, then "a&=" is byte 255 and "?".      *)
MCSent == { << << <<97, 38, 61>>, <<37, 43, 32>> >>,
               << <<200>>, <<>> >>,
               << <<97, 38, 61>>, <<255, 63>> >> >> }
=============================================================================
