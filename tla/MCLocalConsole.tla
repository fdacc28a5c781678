--------------------------- MODULE MCLocalConsole ---------------------------
(* Instance of LocalConsole for TLC: an operator who arms and goes away, one  *)
(* who records clips and one who looks at what is stored.                     *)
EXTENDS LocalConsole

CONSTANTS i1, i2

TwoItems == {i1, i2}
May(bs, f, l) == [buttons |-> bs, faults |-> f, late |-> l]
Arming   == May({"arm", "disarm", "desktop", "source", "close"}, 2, 2)
Clipping == May({"source", "clip"}, 1, 0)
Looking  == May({"source", "media"}, 0, 0)
Saving   == May({"source", "other", "close"}, 1, 1)
Sessions == {Arming, Clipping, Looking, Saving}
=============================================================================
