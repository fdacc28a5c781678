-------------------------- MODULE MCGatewayControl --------------------------
(* Small instances of GatewayControl for TLC. *)
EXTENDS GatewayControl, TLC

CONSTANTS r1, r2, k1, idler, dog

Use(cs, f) == [calls |-> cs, faults |-> f]
Each(ts) == [r \in Requests |-> ts]
Alone(ts) == [r \in Requests |-> IF r = r1 THEN ts ELSE {}]

Http      == {Use(Each({"claim", "input", "release", "emergency"}), 1)}
Local     == {Use(Alone(AllEndpoints), 1), Use(Each({"claim", "arm", "disarm", "switch"}), 0)}
LockOrder == {Use(Each({"arm", "emergency"}), 0)}
Preempt   == {Use(Each({"claim", "input", "release"}), 1)}
Confirm   == {Use(Alone({"arm", "disarm"}), 1)}
=============================================================================
