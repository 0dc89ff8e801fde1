----------------------------- MODULE MCFraming ------------------------------
(* A short of -4..3, bodies of none, one, all and too many units; one      *)
(* whose size becomes negative and one whose size becomes 1, with negative *)
(* and small numbers in it; answers around the same edges.                 *)
EXTENDS Framing

MCSize == {0, 1, 2, 3, 5, 9}
MCBodyValue == {-2, 1}
MCAnswerSize == {0, 1, 2, 5, 8, 9}
=============================================================================
