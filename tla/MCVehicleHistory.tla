-------------------------- MODULE MCVehicleHistory --------------------------
(* Instances of VehicleHistory for TLC. *)
EXTENDS VehicleHistory

Frame(via, power, charger) == [via |-> via, power |-> power, charger |-> charger]

\* A charge that goes on by state or by status, pauses and ends, and Parallax power, which says
\* nothing of the charger.
SomeFrames == {Frame("ws", "none", "charging"), Frame("ws", "none", "connected"),
               Frame("ws", "none", "idle"), Frame("ws", "ready", "done"),
               Frame("parallax", "ready", "none")}

=============================================================================
