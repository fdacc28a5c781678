---------------------------- MODULE MCLocalInput ----------------------------
(* LocalInput for TLC: a chord of two keys, a plain key and a button. *)
EXTENDS LocalInput

CONSTANTS ctrl, esc, a, left
=============================================================================
