---------------------------- MODULE MCVideoCapture ----------------------------
(* VideoCapture for TLC: two modes, two interchangeable processes. *)
EXTENDS VideoCapture, TLC

CONSTANTS hd, sd, none, p1, p2

Twins == Permutations(Pids)
=============================================================================
