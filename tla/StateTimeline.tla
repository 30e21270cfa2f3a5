--------------------------- MODULE StateTimeline ---------------------------
(* What a vehicle's state timeline promises the charts that read it: one     *)
(* unbroken chain of periods.  A vehicle is in one state at a time, the next *)
(* period begins at the instant the one before it ended, and only the last   *)
(* period is open.  VehicleHistory shows that the ingestion worker keeps it  *)
(* through out-of-order frames, failed writes and restarts.                  *)
EXTENDS Naturals, Sequences

CONSTANTS
    States,
    Times    \* instants, from 1

VARIABLE periods

Ongoing == 0   \* a NULL end; time starts at 1
Periods == [state : States, from : Times, to : Times \cup {Ongoing}]

Current == periods[Len(periods)]

Init == periods = <<>>

\* The first thing ever observed of the vehicle.
Begin(s, t) ==
    /\ periods = <<>>
    /\ periods' = <<[state |-> s, from |-> t, to |-> Ongoing]>>

\* The vehicle is seen in another state: one period ends where the next begins.
Change(s, t) ==
    /\ periods # <<>>
    /\ Current.state # s
    /\ t >= Current.from
    /\ periods' = Append([periods EXCEPT ![Len(periods)].to = t],
                         [state |-> s, from |-> t, to |-> Ongoing])

Next == \E s \in States, t \in Times : Begin(s, t) \/ Change(s, t)

Spec == Init /\ [][Next]_periods
=============================================================================
