------------------------- MODULE MCEnvironmentCamera -------------------------
(* Instance of EnvironmentCamera for TLC: one browser fetches frames or       *)
(* watches while the other changes the camera, or both change it.             *)
EXTENDS EnvironmentCamera, TLC

CONSTANTS b1, b2

TwoBrowsers == {b1, b2}
Fetching  == b1 :> {"off"} @@ b2 :> {"frame"}
Streaming == b1 :> {"off"} @@ b2 :> {"watch"}
Fencing   == b1 :> {"off"} @@ b2 :> {"on"}
Storing   == b1 :> {} @@ b2 :> {"store"}
Asked     == {Fetching, Streaming, Fencing, Storing}
=============================================================================
