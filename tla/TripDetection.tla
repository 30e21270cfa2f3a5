--------------------------- MODULE TripDetection ---------------------------
(***************************************************************************)
(* How the ingestion worker finds the trips of one vehicle in the frames   *)
(* it receives.                                                            *)
(*                                                                         *)
(*   apps/api/src/ingestion/trip_signals.rs    TripSignalFusion            *)
(*   apps/api/src/ingestion/trip_detector.rs   TripDetectorState           *)
(*   apps/api/src/ingestion/worker.rs          the worker's use of the two *)
(*                                                                         *)
(* The car drives one mile in every instant it is "driving" (in gear and   *)
(* moving) and reports readings of its power, speed, odometer and place,   *)
(* the place being the mile it is at.  A frame has a shape: which readings *)
(* it carries and how old each is against the frame's own time, which is   *)
(* that of its newest reading (parser.rs).  Any frame may be lost, come    *)
(* twice, or come up to Lateness instants after it was due.                *)
(*                                                                         *)
(* Both detector and fusion live in the worker's memory and start empty    *)
(* with it; only a finished trip is stored.  Battery, range, altitude,     *)
(* temperature and regeneration are left out; the readings are true ones,  *)
(* so that the checks for impossible values never refuse one.              *)
(***************************************************************************)
EXTENDS Integers, Sequences

CONSTANTS
    Shapes,        \* the frames the vehicle sends
    MaxTime,       \* bound: the last instant
    Lateness,      \* bound: how late a frame may come
    Memory,        \* bound: how far back a reading may lie
    MaxFaults,     \* bound: worker ends, failed inserts and frames
                   \* out of order, together
    PowerAge,      \* POWER_MAX_AGE, 2 minutes
    FixAge,        \* FIX_MAX_AGE, 2 minutes
    FixGap,        \* MAX_FIX_INTERVAL, 5 minutes
    StopAfter,     \* STOPPED_DURATION_SECS, 5 minutes
    AnchorAge      \* GEAR_ANCHOR_MAX_AGE_SECS, 15 minutes

Absent == -1
Ages   == {Absent} \cup 0 .. MaxTime

ASSUME ShapesAssumption ==
    Shapes \subseteq [source : {"legacy", "parallax"}, power : Ages, speed : Ages,
                      odometer : Ages, place : Ages]
ASSUME TimesAssumption ==
    /\ {MaxTime, Lateness, Memory, MaxFaults} \subseteq Nat
    /\ {PowerAge, FixAge, FixGap, StopAfter, AnchorAge} \subseteq Nat

VARIABLES
    now,      \* the wall clock
    mode,     \* what the car did at each of the last instants
    miles,    \* its odometer at each of them
    fusion,   \* TripSignalFusion
    det,      \* TripDetectorState
    trips,    \* riviamigo.trips of the vehicle, in the order of insertion
    heard,    \* the time of the newest frame delivered so far
    late,     \* how far behind it a frame has come at most
    read,     \* the time of the newest odometer reading delivered so far
    behind,   \* how far behind it a reading of the odometer has come at most
    faults

car    == <<now, mode, miles>>
worker == <<fusion, det>>
order  == <<heard, late, read, behind>>
vars   == <<car, worker, trips, order, faults>>

Times == 0 .. MaxTime
Later(t, u) == IF t < u THEN u ELSE t
Kept(t) == (IF t < Memory THEN 0 ELSE t - Memory) .. t
Modes == {"sleep", "ready", "stopped", "driving"}

PowerOf(m) == CASE m = "sleep" -> "sleep" [] m = "ready" -> "ready" [] OTHER -> "go"
Awake      == {"go", "ready"}

NoFusion == [power |-> "none", powerAt |-> Absent, latched |-> FALSE,
             place |-> Absent, placeAt |-> Absent,
             odometer |-> Absent, odometerAt |-> Absent, segments |-> 0]
NoDet    == [active |-> FALSE, from |-> Absent, start |-> Absent, last |-> Absent,
             moved |-> Absent, inGear |-> FALSE, gearOdometer |-> Absent,
             gearAt |-> Absent, parked |-> Absent, parkedAt |-> Absent,
             track |-> Absent, path |-> 0]

Init ==
    /\ now = 0 /\ mode \in [{0} -> Modes] /\ miles = [t \in {0} |-> 0]
    /\ fusion = NoFusion /\ det = NoDet /\ trips = << >>
    /\ heard = 0 /\ late = 0 /\ read = 0 /\ behind = 0 /\ faults = 0

----------------------------------------------------------------------------
(* The car                                                                 *)

Drive(m) ==
    /\ now < MaxTime
    /\ now' = now + 1
    /\ mode' = [t \in Kept(now + 1) |-> IF t <= now THEN mode[t] ELSE m]
    /\ miles' = [t \in Kept(now + 1) |->
                   IF t <= now THEN miles[t]
                   ELSE miles[now] + (IF mode[now] = "driving" THEN 1 ELSE 0)]
    /\ UNCHANGED <<worker, trips, order, faults>>

\* The readings of the frame of shape s due at t, and their own times.
At(t, age)  == IF age = Absent THEN Absent ELSE t - age
Frame(t, s) ==
    LET powerAt == At(t, s.power)
        speedAt == At(t, s.speed)
        milesAt == At(t, s.odometer)
        placeAt == At(t, s.place)
    IN [ts |-> t, change |-> s.source = "parallax",
        power |-> IF powerAt = Absent THEN "none" ELSE PowerOf(mode[powerAt]), powerAt |-> powerAt,
        speed |-> IF speedAt = Absent THEN "none"
                  ELSE IF mode[speedAt] = "driving" THEN "moving" ELSE "zero",
        speedAt |-> speedAt,
        odometer |-> IF milesAt = Absent THEN Absent ELSE miles[milesAt], odometerAt |-> milesAt,
        place |-> IF placeAt = Absent THEN Absent ELSE miles[placeAt], placeAt |-> placeAt]

----------------------------------------------------------------------------
(* TripSignalFusion::fuse_from                                             *)

\* The cached power after f: an accepted reading keeps its source's policy.
Latch(u, f) ==
    IF /\ f.power # "none"
       /\ f.change \/ f.ts - f.powerAt <= PowerAge
       /\ f.powerAt >= u.powerAt
    THEN [u EXCEPT !.power = f.power, !.powerAt = f.powerAt, !.latched = f.change]
    ELSE u

\* The power the detector is given: the one just accepted or one carried forward.
Carried(u, f) ==
    LET v == Latch(u, f)
    IN IF f.ts >= v.powerAt /\ (v.latched \/ f.ts - v.powerAt <= PowerAge)
       THEN v.power ELSE "none"

Reported(f) == f.speed # "none" /\ f.ts - f.speedAt <= FixAge

\* A fix moves the motion streak on unless a direct speed has precedence.
FixTaken(u, f) == f.placeAt # Absent /\ f.ts - f.placeAt <= FixAge /\ f.placeAt > u.placeAt
InReach(at, prior) == prior # Absent /\ at - prior \in 1 .. FixGap
Derives(u, f) == FixTaken(u, f) /\ InReach(f.placeAt, u.placeAt) /\ ~Reported(f)
Segments(u, f) ==
    IF Reported(f) THEN 0
    ELSE IF Derives(u, f) THEN (IF f.place > u.place THEN IF u.segments = 0 THEN 1 ELSE 2 ELSE 0)
    ELSE IF FixTaken(u, f) /\ u.placeAt # Absent THEN 0
    ELSE u.segments

MilesTaken(u, f) == f.odometerAt # Absent /\ f.odometerAt > u.odometerAt
FromMiles(u, f) ==
    /\ MilesTaken(u, f) /\ f.ts - f.odometerAt <= FixAge
    /\ InReach(f.odometerAt, u.odometerAt) /\ f.odometer > u.odometer

Moving(u, f) ==
    IF Reported(f) THEN f.speed = "moving"
    ELSE (Derives(u, f) /\ Segments(u, f) = 2) \/ FromMiles(u, f)

Fused(u, f) ==
    LET v == Latch(u, f)
    IN [v EXCEPT !.place      = IF FixTaken(u, f) THEN f.place ELSE @,
                 !.placeAt    = IF FixTaken(u, f) THEN f.placeAt ELSE @,
                 !.odometer   = IF MilesTaken(u, f) THEN f.odometer ELSE @,
                 !.odometerAt = IF MilesTaken(u, f) THEN f.odometerAt ELSE @,
                 !.segments   = Segments(u, f)]

\* The joined sample.  A late odometer reading is passed on, a late fix is not.
Sample(u, f) ==
    [ts |-> f.ts, power |-> Carried(u, f), moving |-> Moving(u, f), odometer |-> f.odometer,
     place |-> IF FixTaken(u, f) THEN f.place ELSE Absent]

----------------------------------------------------------------------------
(* TripDetectorState::process                                              *)

Known(x, y) == IF x = Absent THEN y ELSE x
Apart(x, y) == IF x = Absent \/ y = Absent THEN 0 ELSE IF x < y THEN y - x ELSE x - y
Fresh(ts, at) == at # Absent /\ at <= ts /\ ts - at <= AnchorAge

\* The bookkeeping every sample gets: odometer, gear anchor, track, parking place.
Shifted(d, e) ==
    IF e.power = "none" THEN d
    ELSE IF e.power # "go" THEN [d EXCEPT !.inGear = FALSE, !.gearOdometer = Absent, !.gearAt = Absent]
    ELSE IF d.inGear THEN d
    ELSE [d EXCEPT !.inGear = TRUE, !.gearOdometer = Known(d.last, e.odometer), !.gearAt = e.ts]

Tracked(d, e) ==
    IF ~d.active \/ e.place = Absent THEN d
    ELSE [d EXCEPT !.track = e.place, !.path = @ + Apart(d.track, e.place)]

Seen(d, e) ==
    LET g == [Shifted(Tracked(d, e), e) EXCEPT !.last = Known(e.odometer, @)]
    IN IF ~g.active /\ ~g.inGear /\ ~e.moving /\ e.place # Absent
       THEN [g EXCEPT !.parked = e.place, !.parkedAt = e.ts] ELSE g

Starts(d, e) == ~d.active /\ e.power \in Awake /\ e.moving

\* Where the trip began: the shift into gear, the reading before the motion, or e.
StartMiles(prior, g, e) ==
    LET anchor == IF Fresh(e.ts, g.gearAt) THEN g.gearOdometer ELSE Absent
        here   == Known(e.odometer, prior)
    IN IF anchor # Absent /\ (here = Absent \/ anchor <= here) THEN anchor
       ELSE IF prior # Absent /\ e.odometer > prior THEN prior
       ELSE here

Started(d, e) ==
    LET g         == Seen(d, e)
        start     == StartMiles(d.last, g, e)
        backdated == start # Absent /\ start < Known(e.odometer, d.last)
        parked    == IF backdated /\ Fresh(e.ts, g.parkedAt) THEN g.parked ELSE Absent
    IN [g EXCEPT !.active = TRUE, !.start = start, !.moved = e.ts,
                 !.from = IF backdated /\ Fresh(e.ts, g.gearAt) THEN g.gearAt ELSE e.ts,
                 !.gearAt = Absent, !.gearOdometer = Absent, !.parked = Absent, !.parkedAt = Absent,
                 !.track = Known(e.place, parked), !.path = Apart(parked, e.place)]

Continued(d, e) ==
    LET g == Seen(d, e) IN IF e.moving /\ d.active THEN [g EXCEPT !.moved = e.ts] ELSE g

\* What follows takes the detector g as the sample e has continued it.

\* Mutation: a sleeping car that still seems to move keeps its trip.
EndsVariant(g, e) ==
    g.active /\ ((e.power = "sleep" /\ ~e.moving) \/ e.ts - g.moved > StopAfter)

Ends(g, e) == g.active /\ (e.power = "sleep" \/ e.ts - g.moved > StopAfter)

\* Mutation: the next trip in gear is anchored where the car last moved.
ClosedVariant(g, e) ==
    [NoDet EXCEPT !.last = g.last, !.inGear = g.inGear,
                  !.parked = g.parked, !.parkedAt = g.parkedAt,
                  !.gearOdometer = IF g.inGear THEN g.last ELSE g.gearOdometer,
                  !.gearAt = IF g.inGear THEN g.moved ELSE g.gearAt]

\* Mutation: the next trip in gear is anchored at the start of this one.
ClosedStartVariant(g, e) ==
    [NoDet EXCEPT !.last = g.last, !.inGear = g.inGear,
                  !.parked = g.parked, !.parkedAt = g.parkedAt,
                  !.gearOdometer = IF g.inGear THEN g.start ELSE g.gearOdometer,
                  !.gearAt = IF g.inGear THEN e.ts ELSE g.gearAt]

\* Mutation: a closed trip keeps its start.
ClosedFromVariant(g, e) ==
    [NoDet EXCEPT !.last = g.last, !.inGear = g.inGear, !.from = g.from,
                  !.parked = g.parked, !.parkedAt = g.parkedAt,
                  !.gearOdometer = IF g.inGear THEN g.last ELSE g.gearOdometer,
                  !.gearAt = IF g.inGear THEN e.ts ELSE g.gearAt]

\* close_trip; a trip that ends in gear anchors the one that resumes it.
Closed(g, e) ==
    [NoDet EXCEPT !.last = g.last, !.inGear = g.inGear,
                  !.parked = g.parked, !.parkedAt = g.parkedAt,
                  !.gearOdometer = IF g.inGear THEN g.last ELSE g.gearOdometer,
                  !.gearAt = IF g.inGear THEN e.ts ELSE g.gearAt]

\* compute_distance_odometer_or_gps
Distance(g) == IF g.start # Absent /\ g.last # Absent /\ g.last > g.start
               THEN g.last - g.start ELSE g.path
TripOf(g, e)  == [from |-> g.from, to |-> e.ts, start |-> g.start, end |-> g.last]
LongEnough(g) == Distance(g) >= 1

Process(d, e) ==
    LET g == Continued(d, e)
    IN IF Starts(d, e) THEN Started(d, e) ELSE IF Ends(g, e) THEN Closed(g, e) ELSE g

----------------------------------------------------------------------------
(* The worker                                                              *)

\* A frame due at t is fused and given to the detector; a trip that ended and
\* is long enough is stored, and one that cannot be stored is dropped.
Receive(t, s) ==
    /\ t \in 0 .. now /\ now - t <= Lateness
    /\ \A age \in {0, s.power, s.speed, s.odometer, s.place} \ {Absent} : t - age \in Kept(now)
    /\ heard' = Later(heard, t) /\ late' = Later(late, heard - t)
    /\ LET at == Frame(t, s).odometerAt
       IN IF at = Absent THEN UNCHANGED <<read, behind>>
          ELSE read' = Later(read, at) /\ behind' = Later(behind, read - at)
    /\ LET f == Frame(t, s)
           e == Sample(fusion, f)
           g == Continued(det, e)
           old == IF t < heard THEN 1 ELSE 0     \* out of order, within MaxFaults
       IN /\ faults + old <= MaxFaults
          /\ fusion' = Fused(fusion, f)
          /\ det' = Process(det, e)
          /\ IF ~Starts(det, e) /\ Ends(g, e) /\ LongEnough(g)
             THEN \/ trips' = Append(trips, TripOf(g, e)) /\ faults' = faults + old
                  \/ faults + old < MaxFaults /\ faults' = faults + old + 1 /\ UNCHANGED trips
             ELSE faults' = faults + old /\ UNCHANGED trips
    /\ UNCHANGED car

\* The worker ends and a new one starts with nothing but the rows.
Restart ==
    /\ faults < MaxFaults
    /\ faults' = faults + 1
    /\ fusion' = NoFusion /\ det' = NoDet
    /\ UNCHANGED <<car, trips, order>>

Next ==
    \/ \E m \in Modes : Drive(m)
    \/ \E t \in Times, s \in Shapes : Receive(t, s)
    \/ Restart

Spec == Init /\ [][Next]_vars

----------------------------------------------------------------------------
(* Properties                                                              *)

\* A trip has the times of frames and miles the car has been at.
TypeOK ==
    /\ now \in Times /\ heard \in 0 .. now /\ late \in 0 .. Lateness
    /\ read \in 0 .. now /\ behind \in 0 .. Memory
    /\ DOMAIN mode = Kept(now) /\ DOMAIN miles = Kept(now)
    /\ det.active = (det.from # Absent)
    /\ \A i \in DOMAIN trips :
          /\ trips[i].from \in Times /\ trips[i].to \in Times
          /\ trips[i].start \in {Absent} \cup 0 .. miles[now]
          /\ trips[i].end \in {Absent} \cup 0 .. miles[now]

\* The trips of a vehicle follow one another: across stops in gear, backdated
\* starts and restarts a trip begins no earlier than the one before it ended,
\* but for the lateness of frames that came out of order.
TripsInOrder ==
    \A i \in DOMAIN trips :
        /\ trips[i].from - late <= trips[i].to
        /\ \A j \in DOMAIN trips : i < j => trips[i].to - late <= trips[j].from

\* No mile of the odometer belongs to two trips, but for those the car can drive (one
\* an instant) in the time a reading comes behind a newer one: in a late frame, or
\* in a frame whose odometer is older than the rest of it.
OdometerMilesOnce ==
    \A i, j \in DOMAIN trips :
        i < j /\ trips[i].end # Absent /\ trips[j].start # Absent
        => trips[i].end - behind <= trips[j].start

\* A trip is open only while the newest power reading the worker has accepted is
\* an awake one: the reading that ends a trip cannot be outlived by it, and late
\* readings of the drive cannot open it again.
OpenTripIsAwake == det.active => fusion.power \in Awake

\* What the stored trips and the open one are, with the types.
TripsInv == TypeOK /\ TripsInOrder /\ OdometerMilesOnce /\ OpenTripIsAwake

============================================================================
