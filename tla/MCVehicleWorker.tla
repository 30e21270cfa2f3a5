--------------------------- MODULE MCVehicleWorker ---------------------------
(* Instances of VehicleWorker for TLC. *)
EXTENDS VehicleWorker

CONSTANTS p1, p2, c1, c2
TwoProcs == {p1, p2}
TwoConns == {c1, c2}
=============================================================================
