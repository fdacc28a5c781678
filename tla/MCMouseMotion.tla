---------------------------- MODULE MCMouseMotion ----------------------------
(* MouseMotion for TLC: deltas and moves at the edges of the limits. *)
EXTENDS MouseMotion

Few == {-3, 1, 6}

(* Moves at the edges of a report and of a command, and just past them. *)
Asked ==
  {v \in [Axes -> {-9, -8, -4, -3, 0, 3, 4, 8, 9}] : v["wheel"] \in {-4, 0, 3, 4}}
=============================================================================
