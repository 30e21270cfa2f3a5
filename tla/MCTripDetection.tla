-------------------------- MODULE MCTripDetection --------------------------
EXTENDS TripDetection

\* The Parallax topic of the power state, a legacy frame with a direct speed, whose
\* odometer is an instant old, and one without, whose power reading is.
SomeShapes ==
    {[source |-> "parallax", power |-> 0, speed |-> Absent, odometer |-> Absent, place |-> Absent],
     [source |-> "legacy", power |-> 0, speed |-> 0, odometer |-> 1, place |-> Absent],
     [source |-> "legacy", power |-> 1, speed |-> Absent, odometer |-> 0, place |-> 0]}
=============================================================================
