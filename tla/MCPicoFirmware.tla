--------------------------- MODULE MCPicoFirmware ---------------------------
(* PicoFirmware for TLC: two sessions, one key and one button. *)
EXTENDS PicoFirmware

CONSTANTS s1, s2, none, junk
=============================================================================
