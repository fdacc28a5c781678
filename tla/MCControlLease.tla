--------------------------- MODULE MCControlLease ---------------------------
(* ControlLease for TLC: the bounds are given in the configuration. *)
EXTENDS ControlLease
=============================================================================
