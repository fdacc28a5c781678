-------------------------- MODULE MCSerialSession --------------------------
(* SerialSession for TLC: a text of two chunks beside a burst and an emergency
   release, or a burst of two reports beside the heartbeat. *)
EXTENDS SerialSession, TLC

CONSTANTS text, burst, release, none

TextAndMove == text :> 2 @@ burst :> 1
Reports     == burst :> 2
=============================================================================
