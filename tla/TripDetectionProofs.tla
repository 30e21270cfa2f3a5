------------------------ MODULE TripDetectionProofs ------------------------
(***************************************************************************)
(* TripsInv holds for every set of shapes, every bound and every limit of  *)
(* the fusion and the detector.                                            *)
(*                                                                         *)
(* A trip's times and miles pass through the detector's fields before they *)
(* are stored, so the inductive invariant says of each field what the      *)
(* property says of a trip: that it is no earlier than the trips stored so *)
(* far, but for the lateness of what was delivered (AfterTrips), and, of a *)
(* mile, that the car was there by the newest odometer reading (MilesInv). *)
(***************************************************************************)
EXTENDS TripDetection, TLAPS

Stamps   == {Absent} \cup Times
Readings == {Absent} \cup Nat
Powers   == {"none", "sleep", "ready", "go"}

\* TripSignalFusion and TripDetectorState.
Fusions ==
    [power : Powers, powerAt : Stamps, latched : BOOLEAN, place : Readings, placeAt : Stamps,
     odometer : Readings, odometerAt : Stamps, segments : 0 .. 2]
Detectors ==
    [active : BOOLEAN, from : Stamps, start : Readings, last : Readings, moved : Stamps,
     inGear : BOOLEAN, gearOdometer : Readings, gearAt : Stamps, parked : Readings,
     parkedAt : Stamps, track : Readings, path : Nat]
Trips == [from : Times, to : Times, start : Readings, end : Readings]

\* The counters, and the miles of the car, which drives one in an instant at most.
CarInv ==
    /\ now \in Times /\ heard \in 0 .. now /\ late \in 0 .. Lateness
    /\ read \in 0 .. now /\ behind \in 0 .. Memory /\ faults \in Nat
    /\ DOMAIN mode = Kept(now)
    /\ miles \in [Kept(now) -> Nat]
    /\ \A x, y \in Kept(now) : x <= y => miles[x] <= miles[y] /\ miles[y] <= miles[x] + y - x

\* A detector has a start if it has a trip, and no gear anchor out of gear.
WorkerInv ==
    /\ fusion \in Fusions /\ det \in Detectors /\ trips \in Seq(Trips)
    /\ det.active = (det.from # Absent)
    /\ ~det.inGear => det.gearAt = Absent /\ det.gearOdometer = Absent

\* The car was at mile v no later than at the newest reading of its odometer.
Passed(v) ==
    \A x \in Kept(now) : v <= miles[x] + (IF x < read THEN read - x ELSE 0)

MilesInv ==
    /\ Passed(det.last) /\ Passed(det.gearOdometer) /\ Passed(det.start)
    /\ \A i \in DOMAIN trips : Passed(trips[i].start) /\ Passed(trips[i].end)

\* The instants and the miles that a next trip may begin at, as trip p left them.
NextFrom(p)  == {t \in Stamps : t # Absent => t <= heard /\ p.to - late <= t}
NextMiles(p) == {v \in Readings : p.end # Absent /\ v # Absent => p.end - behind <= v}
AfterTrips ==
    /\ det.from <= heard /\ det.gearAt <= heard
    /\ \A i \in DOMAIN trips :
          /\ trips[i].to <= heard
          /\ det.from \in NextFrom(trips[i]) /\ det.gearAt \in NextFrom(trips[i])
          /\ {det.last, det.gearOdometer, det.start} \subseteq NextMiles(trips[i])

IInv == /\ CarInv /\ WorkerInv /\ MilesInv /\ AfterTrips
        /\ TripsInOrder /\ OdometerMilesOnce /\ OpenTripIsAwake

-----------------------------------------------------------------------------
(* The detector                                                            *)

\* What the detector needs of a joined sample.
Sampled(e) == e.ts \in Times /\ e.odometer \in Readings /\ e.place \in Readings

\* The bookkeeping keeps a trip as it is, takes the sample's odometer, and anchors the gear
\* at the sample or not at all.
LEMMA SeenIs ==
  ASSUME NEW d \in Detectors, NEW e, Sampled(e),
         ~d.inGear => d.gearAt = Absent /\ d.gearOdometer = Absent,
         NEW g, g = Seen(d, e)
  PROVE  /\ g \in Detectors
         /\ g.active = d.active /\ g.from = d.from /\ g.start = d.start /\ g.moved = d.moved
         /\ g.last = Known(e.odometer, d.last)
         /\ g.gearAt \in {d.gearAt, Absent, e.ts}
         /\ g.gearOdometer \in {d.gearOdometer, Absent, d.last, e.odometer}
         /\ ~g.inGear => g.gearAt = Absent /\ g.gearOdometer = Absent
<1> DEFINE a == Tracked(d, e)
           b == Shifted(a, e)
           c == [b EXCEPT !.last = Known(e.odometer, @)]
<1>1. /\ a \in Detectors
      /\ a.active = d.active /\ a.from = d.from /\ a.start = d.start /\ a.moved = d.moved
      /\ a.last = d.last /\ a.gearAt = d.gearAt /\ a.gearOdometer = d.gearOdometer
      /\ a.inGear = d.inGear
  <2>1. CASE ~d.active \/ e.place = Absent
    BY <2>1 DEF Tracked
  <2>2. CASE ~(~d.active \/ e.place = Absent)
    <3>1. Apart(d.track, e.place) \in Nat
      BY DEF Apart, Sampled, Detectors, Readings, Absent
    <3>2. a = [d EXCEPT !.track = e.place, !.path = @ + Apart(d.track, e.place)]
      BY <2>2 DEF Tracked
    <3>3. d.path + Apart(d.track, e.place) \in Nat
      BY <3>1 DEF Detectors
    <3> HIDE DEF a
    <3> QED  BY <3>2, <3>3 DEF Detectors, Sampled
  <2> QED  BY <2>1, <2>2
<1>2. /\ b \in Detectors
      /\ b.active = a.active /\ b.from = a.from /\ b.start = a.start /\ b.moved = a.moved
      /\ b.last = a.last
      /\ b.gearAt \in {a.gearAt, Absent, e.ts}
      /\ b.gearOdometer \in {a.gearOdometer, Absent, a.last, e.odometer}
      /\ ~b.inGear => b.gearAt = Absent /\ b.gearOdometer = Absent
  <2> HIDE DEF a
  <2>1. CASE e.power = "none" \/ (e.power = "go" /\ a.inGear)
    BY <1>1, <2>1 DEF Shifted
  <2>2. CASE e.power # "none" /\ e.power # "go"
    <3>1. b = [a EXCEPT !.inGear = FALSE, !.gearOdometer = Absent, !.gearAt = Absent]
      BY <2>2 DEF Shifted
    <3> HIDE DEF b
    <3> QED  BY <1>1, <3>1 DEF Detectors, Stamps, Readings
  <2>3. CASE e.power = "go" /\ ~a.inGear
    <3>1. b = [a EXCEPT !.inGear = TRUE, !.gearOdometer = Known(a.last, e.odometer),
                        !.gearAt = e.ts]
      BY <2>3 DEF Shifted
    <3>2. Known(a.last, e.odometer) \in Readings /\ Known(a.last, e.odometer) \in {a.last, e.odometer}
      BY <1>1 DEF Known, Detectors, Sampled
    <3> HIDE DEF b
    <3> QED  BY <1>1, <3>1, <3>2 DEF Detectors, Stamps, Sampled
  <2> QED  BY <2>1, <2>2, <2>3
<1>3. /\ c \in Detectors
      /\ c.active = b.active /\ c.from = b.from /\ c.start = b.start /\ c.moved = b.moved
      /\ c.last = Known(e.odometer, b.last)
      /\ c.gearAt = b.gearAt /\ c.gearOdometer = b.gearOdometer /\ c.inGear = b.inGear
  <2> HIDE DEF b
  <2>1. Known(e.odometer, b.last) \in Readings
    BY <1>2 DEF Known, Detectors, Sampled
  <2> QED  BY <1>2, <2>1 DEF Detectors
<1>4. g = c \/ g = [c EXCEPT !.parked = e.place, !.parkedAt = e.ts]
  BY DEF Seen
<1> HIDE DEF a, b, c
<1>5. /\ g \in Detectors
      /\ g.active = c.active /\ g.from = c.from /\ g.start = c.start /\ g.moved = c.moved
      /\ g.last = c.last /\ g.gearAt = c.gearAt /\ g.gearOdometer = c.gearOdometer
      /\ g.inGear = c.inGear
  BY <1>3, <1>4 DEF Detectors, Stamps, Sampled
<1> QED  BY <1>1, <1>2, <1>3, <1>5

\* A trip in progress is continued as it is, with the time of the last motion.
LEMMA ContinuedIs ==
  ASSUME NEW d \in Detectors, NEW e, Sampled(e),
         ~d.inGear => d.gearAt = Absent /\ d.gearOdometer = Absent,
         NEW g, g = Continued(d, e)
  PROVE  /\ g \in Detectors
         /\ g.active = d.active /\ g.from = d.from /\ g.start = d.start
         /\ g.last = Known(e.odometer, d.last)
         /\ g.gearAt \in {d.gearAt, Absent, e.ts}
         /\ g.gearOdometer \in {d.gearOdometer, Absent, d.last, e.odometer}
         /\ ~g.inGear => g.gearAt = Absent /\ g.gearOdometer = Absent
<1> DEFINE h == Seen(d, e)
<1>1. /\ h \in Detectors
      /\ h.active = d.active /\ h.from = d.from /\ h.start = d.start
      /\ h.last = Known(e.odometer, d.last)
      /\ h.gearAt \in {d.gearAt, Absent, e.ts}
      /\ h.gearOdometer \in {d.gearOdometer, Absent, d.last, e.odometer}
      /\ ~h.inGear => h.gearAt = Absent /\ h.gearOdometer = Absent
  BY SeenIs
<1>2. g = h \/ g = [h EXCEPT !.moved = e.ts]
  BY DEF Continued
<1> HIDE DEF h
<1>3. /\ g \in Detectors
      /\ g.active = h.active /\ g.from = h.from /\ g.start = h.start /\ g.last = h.last
      /\ g.gearAt = h.gearAt /\ g.gearOdometer = h.gearOdometer /\ g.inGear = h.inGear
  BY <1>1, <1>2 DEF Detectors, Stamps, Sampled
<1> QED  BY <1>1, <1>3

\* A trip starts at the sample or at the shift into gear, at a mile the detector knew or
\* the sample tells.
LEMMA StartedIs ==
  ASSUME NEW d \in Detectors, NEW e, Sampled(e),
         ~d.inGear => d.gearAt = Absent /\ d.gearOdometer = Absent,
         NEW g, g = Started(d, e)
  PROVE  /\ g \in Detectors
         /\ g.active /\ g.from # Absent /\ g.from \in {d.gearAt, e.ts}
         /\ g.start \in {d.last, d.gearOdometer, e.odometer, Absent}
         /\ g.last = Known(e.odometer, d.last)
         /\ g.gearAt = Absent /\ g.gearOdometer = Absent
<1> DEFINE h == Seen(d, e)
           start == StartMiles(d.last, h, e)
           backdated == start # Absent /\ start < Known(e.odometer, d.last)
           parked == IF backdated /\ Fresh(e.ts, h.parkedAt) THEN h.parked ELSE Absent
           from == IF backdated /\ Fresh(e.ts, h.gearAt) THEN h.gearAt ELSE e.ts
           track == Known(e.place, parked)
           path == Apart(parked, e.place)
<1>1. /\ h \in Detectors
      /\ h.last = Known(e.odometer, d.last)
      /\ h.gearAt \in {d.gearAt, Absent, e.ts}
      /\ h.gearOdometer \in {d.gearOdometer, Absent, d.last, e.odometer}
  BY SeenIs
<1>2. start \in {d.last, d.gearOdometer, e.odometer, Absent} /\ start \in Readings
  <2> HIDE DEF h
  <2> QED  BY <1>1 DEF StartMiles, Known, Detectors, Sampled, Readings
<1>3. from # Absent /\ from \in {d.gearAt, e.ts} /\ from \in Stamps
  <2>1. e.ts # Absent /\ e.ts \in Stamps /\ h.gearAt \in Stamps
    BY <1>1 DEF Sampled, Times, Stamps, Absent, Detectors
  <2>2. Fresh(e.ts, h.gearAt) => h.gearAt # Absent
    BY DEF Fresh
  <2> HIDE DEF h, start, backdated
  <2> QED  BY <1>1, <2>1, <2>2
<1>4. parked \in Readings
  <2> HIDE DEF h, start, backdated
  <2> QED  BY <1>1 DEF Detectors, Readings
<1>5. track \in Readings /\ path \in Nat
  <2> HIDE DEF parked
  <2> QED  BY <1>4 DEF Known, Apart, Sampled, Readings, Absent
<1>6. g = [h EXCEPT !.active = TRUE, !.start = start, !.moved = e.ts, !.from = from,
                    !.gearAt = Absent, !.gearOdometer = Absent, !.parked = Absent,
                    !.parkedAt = Absent, !.track = track, !.path = path]
  BY DEF Started
<1> HIDE DEF h, start, from, track, path
<1> QED  BY <1>1, <1>2, <1>3, <1>5, <1>6, ZenonT(30) DEF Detectors, Stamps, Readings, Sampled

\* A trip that ends leaves its last mile, as the anchor of the next one too if in gear.
LEMMA ClosedIs ==
  ASSUME NEW g \in Detectors, NEW e, Sampled(e),
         ~g.inGear => g.gearAt = Absent /\ g.gearOdometer = Absent,
         NEW c, c = Closed(g, e)
  PROVE  /\ c \in Detectors
         /\ ~c.active /\ c.from = Absent /\ c.start = Absent /\ c.last = g.last
         /\ c.gearAt \in {Absent, e.ts} /\ c.gearOdometer \in {Absent, g.last}
         /\ ~c.inGear => c.gearAt = Absent /\ c.gearOdometer = Absent
<1> DEFINE odometer == IF g.inGear THEN g.last ELSE g.gearOdometer
           at == IF g.inGear THEN e.ts ELSE g.gearAt
<1>1. odometer \in Readings /\ odometer \in {Absent, g.last}
  BY DEF Detectors
<1>2. at \in Stamps /\ at \in {Absent, e.ts}
  BY DEF Detectors, Sampled, Stamps
<1>3. c = [NoDet EXCEPT !.last = g.last, !.inGear = g.inGear, !.parked = g.parked,
                        !.parkedAt = g.parkedAt, !.gearOdometer = odometer, !.gearAt = at]
  BY DEF Closed
<1>4. ~g.inGear => odometer = Absent /\ at = Absent
  OBVIOUS
<1> HIDE DEF odometer, at
<1>5. NoDet \in Detectors /\ ~NoDet.active /\ NoDet.from = Absent /\ NoDet.start = Absent
  BY DEF NoDet, Detectors, Stamps, Readings
<1> QED  BY <1>1, <1>2, <1>3, <1>4, <1>5 DEF Detectors

-----------------------------------------------------------------------------
(* The frames and the fusion                                               *)

\* What the fusion needs of a frame.
Framed(f) ==
    /\ f.ts \in Times /\ f.change \in BOOLEAN
    /\ f.power \in Powers /\ f.powerAt \in Stamps
    /\ f.power # "none" => f.powerAt # Absent /\ f.powerAt <= f.ts
    /\ f.place \in Readings /\ f.placeAt \in Stamps /\ (f.placeAt # Absent => f.place # Absent)
    /\ f.odometer \in Readings /\ f.odometerAt \in Stamps
    /\ f.odometerAt = Absent <=> f.odometer = Absent

\* A frame can be delivered as long as the car remembers its readings.
Remembered(t, s) ==
    \A age \in {0, s.power, s.speed, s.odometer, s.place} \ {Absent} : t - age \in Kept(now)

\* A frame has its readings as the car had them at their times.
LEMMA FrameIs ==
  ASSUME CarInv, NEW t \in Times, NEW s \in Shapes, Remembered(t, s),
         NEW f, f = Frame(t, s)
  PROVE  /\ Framed(f) /\ f.ts = t
         /\ f.odometerAt # Absent => f.odometerAt \in Kept(now) /\ f.odometer = miles[f.odometerAt]
<1> DEFINE powerAt == At(t, s.power)
           milesAt == At(t, s.odometer)
           placeAt == At(t, s.place)
<1>1. \A age \in {s.power, s.odometer, s.place} :
         /\ At(t, age) \in Stamps
         /\ At(t, age) # Absent => At(t, age) \in Kept(now) /\ At(t, age) <= t
  <2> SUFFICES ASSUME NEW age \in {s.power, s.odometer, s.place}
               PROVE  /\ At(t, age) \in Stamps
                      /\ At(t, age) # Absent => At(t, age) \in Kept(now) /\ At(t, age) <= t
    OBVIOUS
  <2>1. age \in Ages
    BY ShapesAssumption
  <2>2. CASE age = Absent
    BY <2>2 DEF At, Stamps
  <2>3. CASE age # Absent
    <3>1. At(t, age) = t - age /\ t - age \in Kept(now)
      BY <2>3 DEF At, Remembered
    <3>2. t - age <= t
      BY <2>1, <2>3, TimesAssumption DEF Ages, Times
    <3>3. Kept(now) \subseteq Times
      BY TimesAssumption DEF CarInv, Kept, Times
    <3> QED  BY <3>1, <3>2, <3>3 DEF Stamps
  <2> QED  BY <2>2, <2>3
<1> HIDE DEF powerAt, milesAt, placeAt
<1>2. /\ f.ts = t /\ f.change \in BOOLEAN
      /\ f.power = IF powerAt = Absent THEN "none" ELSE PowerOf(mode[powerAt])
      /\ f.powerAt = powerAt
      /\ f.odometer = IF milesAt = Absent THEN Absent ELSE miles[milesAt]
      /\ f.odometerAt = milesAt
      /\ f.place = IF placeAt = Absent THEN Absent ELSE miles[placeAt]
      /\ f.placeAt = placeAt
  BY DEF Frame, powerAt, milesAt, placeAt
<1>3. f.power \in Powers /\ (f.power # "none" => powerAt # Absent)
  BY <1>2 DEF PowerOf, Powers
<1>4. /\ powerAt \in Stamps /\ milesAt \in Stamps /\ placeAt \in Stamps
      /\ powerAt # Absent => powerAt <= t
      /\ milesAt # Absent => milesAt \in Kept(now)
      /\ placeAt # Absent => placeAt \in Kept(now)
  BY <1>1 DEF powerAt, milesAt, placeAt
<1>5. \A x \in Kept(now) : miles[x] \in Readings /\ miles[x] # Absent
  BY DEF CarInv, Readings, Absent
<1>6. f.odometer \in Readings /\ (f.odometerAt = Absent <=> f.odometer = Absent)
  BY <1>2, <1>4, <1>5 DEF Readings
<1>7. f.place \in Readings /\ (f.placeAt # Absent => f.place # Absent)
  BY <1>2, <1>4, <1>5 DEF Readings
<1> QED  BY <1>2, <1>3, <1>4, <1>6, <1>7 DEF Framed

\* The power is kept, or replaced by that of the frame.
LEMMA LatchIs ==
  ASSUME NEW u \in Fusions, NEW f, Framed(f), NEW v, v = Latch(u, f)
  PROVE  /\ v \in Fusions
         /\ \/ v.power = u.power
            \/ v.power = f.power /\ f.power # "none" /\ Carried(u, f) = f.power
<1>1. CASE v = u
  BY <1>1
<1>2. CASE v # u
  <2>1. /\ v = [u EXCEPT !.power = f.power, !.powerAt = f.powerAt, !.latched = f.change]
        /\ f.power # "none" /\ (f.change \/ f.ts - f.powerAt <= PowerAge)
    BY <1>2 DEF Latch
  <2>2. v \in Fusions /\ v.power = f.power /\ v.powerAt = f.powerAt /\ v.latched = f.change
    BY <2>1 DEF Fusions, Framed
  <2>3. f.ts >= v.powerAt /\ (v.latched \/ f.ts - v.powerAt <= PowerAge)
    BY <2>1, <2>2 DEF Framed, Stamps, Times
  <2> QED  BY <2>1, <2>2, <2>3 DEF Carried
<1> QED  BY <1>1, <1>2

\* The fusion stays one; its power is the accepted reading, which is what the detector is
\* given if it gets one.
LEMMA FusedIs ==
  ASSUME NEW u \in Fusions, NEW f, Framed(f)
  PROVE  /\ Fused(u, f) \in Fusions
         /\ Carried(u, f) \in {"none", Fused(u, f).power}
         /\ \/ Fused(u, f).power = u.power
            \/ Fused(u, f).power # "none" /\ Carried(u, f) = Fused(u, f).power
         /\ Sampled(Sample(u, f)) /\ Sample(u, f).ts = f.ts
         /\ Sample(u, f).power = Carried(u, f) /\ Sample(u, f).odometer = f.odometer
<1> DEFINE v == Latch(u, f)
           place == IF FixTaken(u, f) THEN f.place ELSE v.place
           placeAt == IF FixTaken(u, f) THEN f.placeAt ELSE v.placeAt
           odometer == IF MilesTaken(u, f) THEN f.odometer ELSE v.odometer
           odometerAt == IF MilesTaken(u, f) THEN f.odometerAt ELSE v.odometerAt
           w == Fused(u, f)
<1>1. v \in Fusions /\ (v.power = u.power \/ (v.power = f.power /\ f.power # "none" /\ Carried(u, f) = f.power))
  BY LatchIs
<1>2. Carried(u, f) \in {"none", v.power}
  BY DEF Carried
<1>3. /\ place \in Readings /\ placeAt \in Stamps
      /\ odometer \in Readings /\ odometerAt \in Stamps
  <2> HIDE DEF v
  <2> QED  BY <1>1 DEF Framed, Fusions
<1>4. Segments(u, f) \in 0 .. 2
  BY DEF Segments, Fusions
<1>5. w = [v EXCEPT !.place = place, !.placeAt = placeAt, !.odometer = odometer,
                    !.odometerAt = odometerAt, !.segments = Segments(u, f)]
  BY DEF Fused
<1>6. w \in Fusions /\ w.power = v.power
  <2> HIDE DEF v, place, placeAt, odometer, odometerAt, w
  <2> QED  BY <1>1, <1>3, <1>4, <1>5 DEF Fusions
<1>7. Sampled(Sample(u, f))
  BY DEF Sample, Sampled, Framed, Readings
<1>8. /\ Sample(u, f).ts = f.ts /\ Sample(u, f).power = Carried(u, f)
      /\ Sample(u, f).odometer = f.odometer
  BY DEF Sample
<1> HIDE DEF v, w
<1> QED  BY <1>1, <1>2, <1>6, <1>7, <1>8 DEF w

-----------------------------------------------------------------------------
(* The car                                                                 *)

\* The car remembers the last instants, the present one included.
LEMMA KeptIs ==
  ASSUME NEW t \in Nat
  PROVE  /\ t \in Kept(t) /\ Kept(t) \subseteq 0 .. t
         /\ \A x \in Kept(t) : t - x <= Memory
         /\ Kept(t + 1) \subseteq Kept(t) \cup {t + 1} /\ t + 1 \in Kept(t + 1)
  BY TimesAssumption DEF Kept

\* What the car has passed it has passed for good.
LEMMA CarStep ==
  ASSUME CarInv, Next
  PROVE  CarInv' /\ \A v \in Readings : Passed(v) => Passed(v)'
<1>0. now \in Nat /\ now <= MaxTime /\ {MaxTime, Lateness, Memory} \subseteq Nat
  BY TimesAssumption DEF CarInv, Times
<1>1. ASSUME NEW m \in Modes, Drive(m)
      PROVE  CarInv' /\ \A v \in Readings : Passed(v) => Passed(v)'
  <2>1. /\ now' = now + 1 /\ now \in Nat /\ now < MaxTime /\ UNCHANGED <<order, faults>>
        /\ now \in Kept(now) /\ Kept(now') \subseteq Kept(now) \cup {now'}
        /\ Kept(now) \subseteq 0 .. now
    <3>1. now' = now + 1 /\ now < MaxTime /\ UNCHANGED <<order, faults>>
      BY <1>1 DEF Drive
    <3> QED  BY <1>0, <3>1, KeptIs
  <2> DEFINE step == IF mode[now] = "driving" THEN 1 ELSE 0
  <2>2. /\ miles' = [x \in Kept(now') |-> IF x <= now THEN miles[x] ELSE miles[now] + step]
        /\ DOMAIN mode' = Kept(now')
    BY <1>1 DEF Drive
  <2>3. /\ \A x \in Kept(now) : x <= now /\ x \in Nat /\ miles[x] \in Nat
        /\ \A x \in Kept(now) \cap Kept(now') : miles'[x] = miles[x]
        /\ \A x \in Kept(now') : x \notin Kept(now) => x = now' /\ miles'[x] = miles[now] + step
        /\ \A x \in Kept(now) : x < now'
    BY <2>1, <2>2 DEF CarInv
  <2>4. step \in 0 .. 1
    OBVIOUS
  <2> HIDE DEF step
  <2>5. miles' \in [Kept(now') -> Nat]
    BY <2>1, <2>2, <2>4 DEF CarInv
  <2>6. ASSUME NEW x \in Kept(now'), NEW y \in Kept(now'), x <= y
        PROVE  miles'[x] <= miles'[y] /\ miles'[y] <= miles'[x] + y - x
    <3>1. CASE y \in Kept(now) /\ x \in Kept(now)
      BY <2>3, <2>6, <3>1 DEF CarInv
    <3>2. CASE y \notin Kept(now) /\ x \in Kept(now)
      <4>1. miles[x] <= miles[now] /\ miles[now] <= miles[x] + now - x
        BY <2>1, <2>3, <3>2 DEF CarInv
      <4>2. y = now + 1 /\ miles'[y] = miles[now] + step /\ miles'[x] = miles[x]
        BY <2>1, <2>3, <2>6, <3>2
      <4> QED  BY <2>1, <2>3, <2>4, <3>2, <4>1, <4>2
    <3>3. CASE x \notin Kept(now)
      BY <2>1, <2>3, <2>5, <2>6, <3>3
    <3> QED  BY <3>1, <3>2, <3>3
  <2>7. CarInv'
    BY <1>0, <2>1, <2>2, <2>5, <2>6 DEF CarInv, order, Times
  <2>8. ASSUME NEW v \in Readings, Passed(v)
        PROVE  Passed(v)'
    <3> SUFFICES ASSUME NEW x \in Kept(now')
                 PROVE  v <= miles'[x] + (IF x < read THEN read - x ELSE 0)
      BY <2>1 DEF Passed, order
    <3>1. CASE x \in Kept(now)
      BY <2>3, <2>8, <3>1 DEF Passed
    <3>2. CASE x \notin Kept(now)
      <4>1. x = now + 1 /\ miles'[x] = miles[now] + step /\ read \in 0 .. now
        BY <2>1, <2>3, <3>2 DEF CarInv
      <4>2. v <= miles[now]
        BY <2>1, <2>3, <2>8, <4>1 DEF Passed
      <4> QED  BY <2>1, <2>3, <2>4, <4>1, <4>2 DEF Readings, Absent
    <3> QED  BY <3>1, <3>2
  <2> QED  BY <2>7, <2>8
<1>2. ASSUME NEW t \in Times, NEW s \in Shapes, Receive(t, s)
      PROVE  CarInv' /\ \A v \in Readings : Passed(v) => Passed(v)'
  <2> DEFINE at == Frame(t, s).odometerAt
  <2>1. /\ UNCHANGED car /\ t \in 0 .. now /\ now - t <= Lateness /\ faults' \in Nat
        /\ heard' = Later(heard, t) /\ late' = Later(late, heard - t)
        /\ \/ UNCHANGED <<read, behind>>
           \/ at # Absent /\ read' = Later(read, at) /\ behind' = Later(behind, read - at)
    <3> DEFINE old == IF t < heard THEN 1 ELSE 0
    <3>1. faults' = faults + old \/ faults' = faults + old + 1
      BY <1>2 DEF Receive
    <3>2. faults' \in Nat
      BY <3>1 DEF CarInv
    <3> QED  BY <1>2, <3>2 DEF Receive
  <2>2. at # Absent => at \in Kept(now)
    BY <1>2, FrameIs DEF Receive, Remembered
  <2>3. \A x \in Kept(now) : x \in 0 .. now /\ now - x <= Memory
    BY <1>0, KeptIs
  <2> HIDE DEF at
  <2>4. heard' \in 0 .. now /\ late' \in 0 .. Lateness
    BY <1>0, <2>1 DEF CarInv, Later
  <2>5. read' \in 0 .. now /\ behind' \in 0 .. Memory /\ read <= read'
    BY <1>0, <2>1, <2>2, <2>3 DEF CarInv, Later
  <2>6. CarInv'
    BY <2>1, <2>4, <2>5 DEF CarInv, car
  <2>7. ASSUME NEW v \in Readings, Passed(v)
        PROVE  Passed(v)'
    <3> SUFFICES ASSUME NEW x \in Kept(now)
                 PROVE  v <= miles[x] + (IF x < read' THEN read' - x ELSE 0)
      BY <2>1 DEF Passed, car
    <3>1. v <= miles[x] + (IF x < read THEN read - x ELSE 0) /\ miles[x] \in Nat /\ x \in Nat
      BY <2>3, <2>7 DEF Passed, CarInv
    <3> QED  BY <2>5, <3>1 DEF CarInv, Readings, Absent, Times
  <2> QED  BY <2>6, <2>7
<1>3. CASE Restart
  BY <1>3 DEF Restart, CarInv, Passed, car, order
<1> QED  BY <1>1, <1>2, <1>3 DEF Next

-----------------------------------------------------------------------------
(* A frame                                                                 *)

\* A delivered frame is fused and given to the detector, which starts a trip, ends one or
\* goes on; an ended trip is stored or not.
LEMMA ReceiveIs ==
  ASSUME IInv, NEW t \in Times, NEW s \in Shapes, Receive(t, s),
         NEW f, f = Frame(t, s), NEW e, e = Sample(fusion, f), NEW g, g = Continued(det, e)
  PROVE  /\ Framed(f) /\ Sampled(e) /\ e.ts = t /\ e.odometer = f.odometer
         /\ fusion' = Fused(fusion, f) /\ UNCHANGED car
         /\ heard' = Later(heard, t) /\ late' = Later(late, heard - t)
         /\ \/ e.odometer = Absent /\ UNCHANGED <<read, behind>>
            \/ \E at \in Kept(now) :
                  /\ e.odometer = miles[at]
                  /\ read' = Later(read, at) /\ behind' = Later(behind, read - at)
         /\ \/ Starts(det, e) /\ det' = Started(det, e) /\ trips' = trips
            \/ /\ ~Starts(det, e) /\ Ends(g, e) /\ det' = Closed(g, e)
               /\ trips' = trips \/ trips' = Append(trips, TripOf(g, e))
            \/ ~Starts(det, e) /\ ~Ends(g, e) /\ det' = g /\ trips' = trips
<1> USE DEF IInv
<1>1. /\ Framed(f) /\ f.ts = t
      /\ f.odometerAt # Absent => f.odometerAt \in Kept(now) /\ f.odometer = miles[f.odometerAt]
  BY FrameIs DEF Receive, Remembered
<1>2. Sampled(e) /\ e.ts = t /\ e.odometer = f.odometer
  BY <1>1, FusedIs DEF WorkerInv
<1>3. /\ fusion' = Fused(fusion, f) /\ UNCHANGED car
      /\ heard' = Later(heard, t) /\ late' = Later(late, heard - t)
      /\ IF f.odometerAt = Absent THEN UNCHANGED <<read, behind>>
         ELSE /\ read' = Later(read, f.odometerAt)
              /\ behind' = Later(behind, read - f.odometerAt)
  BY DEF Receive
<1>4. /\ det' = Process(det, e)
      /\ IF ~Starts(det, e) /\ Ends(g, e) /\ LongEnough(g)
         THEN trips' = trips \/ trips' = Append(trips, TripOf(g, e))
         ELSE trips' = trips
  BY DEF Receive
<1>5. \/ Starts(det, e) /\ det' = Started(det, e) /\ trips' = trips
      \/ /\ ~Starts(det, e) /\ Ends(g, e) /\ det' = Closed(g, e)
         /\ trips' = trips \/ trips' = Append(trips, TripOf(g, e))
      \/ ~Starts(det, e) /\ ~Ends(g, e) /\ det' = g /\ trips' = trips
  BY <1>4 DEF Process
<1>6. \/ e.odometer = Absent /\ UNCHANGED <<read, behind>>
      \/ \E at \in Kept(now) :
            /\ e.odometer = miles[at]
            /\ read' = Later(read, at) /\ behind' = Later(behind, read - at)
  BY <1>1, <1>2, <1>3 DEF Framed
<1> QED  BY <1>1, <1>2, <1>3, <1>5, <1>6

\* Where the detector's fields come from, whatever it does with the sample, and what the
\* trip it ends has.
LEMMA DetectorIs ==
  ASSUME WorkerInv, NEW e, Sampled(e), NEW g, g = Continued(det, e), NEW d,
         \/ Starts(det, e) /\ d = Started(det, e)
         \/ ~Starts(det, e) /\ Ends(g, e) /\ d = Closed(g, e)
         \/ ~Starts(det, e) /\ ~Ends(g, e) /\ d = g
  PROVE  /\ d \in Detectors /\ d.active = (d.from # Absent)
         /\ ~d.inGear => d.gearAt = Absent /\ d.gearOdometer = Absent
         /\ d.from \in {det.from, det.gearAt, e.ts, Absent}
         /\ d.gearAt \in {det.gearAt, e.ts, Absent}
         /\ {d.last, d.gearOdometer, d.start} \subseteq
               {det.last, det.gearOdometer, det.start, e.odometer, Absent}
         /\ ~Starts(det, e) /\ Ends(g, e) =>
               /\ TripOf(g, e) \in Trips
               /\ TripOf(g, e).from = det.from /\ TripOf(g, e).to = e.ts
               /\ TripOf(g, e).start = det.start /\ TripOf(g, e).end = d.last
               /\ d.from = Absent /\ d.start = Absent
               /\ d.gearAt \in {e.ts, Absent} /\ d.gearOdometer \in {d.last, Absent}
<1> USE DEF WorkerInv
<1>1. /\ g \in Detectors
      /\ g.active = det.active /\ g.from = det.from /\ g.start = det.start
      /\ g.last = Known(e.odometer, det.last)
      /\ g.gearAt \in {det.gearAt, Absent, e.ts}
      /\ g.gearOdometer \in {det.gearOdometer, Absent, det.last, e.odometer}
      /\ ~g.inGear => g.gearAt = Absent /\ g.gearOdometer = Absent
  BY ContinuedIs
<1>2. g.last \in {det.last, e.odometer}
  BY <1>1 DEF Known
<1>3. CASE Starts(det, e) /\ d = Started(det, e)
  <2>1. /\ d \in Detectors
        /\ d.active /\ d.from # Absent /\ d.from \in {det.gearAt, e.ts}
        /\ d.start \in {det.last, det.gearOdometer, e.odometer, Absent}
        /\ d.last = Known(e.odometer, det.last)
        /\ d.gearAt = Absent /\ d.gearOdometer = Absent
    BY <1>3, StartedIs
  <2>2. d.last \in {det.last, e.odometer}
    BY <2>1 DEF Known
  <2>3. d.active = (d.from # Absent)
    BY <2>1 DEF Detectors
  <2> QED  BY <1>3, <2>1, <2>2, <2>3
<1>4. CASE ~Starts(det, e) /\ Ends(g, e) /\ d = Closed(g, e)
  <2>1. /\ d \in Detectors
        /\ ~d.active /\ d.from = Absent /\ d.start = Absent /\ d.last = g.last
        /\ d.gearAt \in {Absent, e.ts} /\ d.gearOdometer \in {Absent, g.last}
        /\ ~d.inGear => d.gearAt = Absent /\ d.gearOdometer = Absent
    BY <1>1, <1>4, ClosedIs
  <2>2. /\ TripOf(g, e).from = det.from /\ TripOf(g, e).to = e.ts
        /\ TripOf(g, e).start = det.start /\ TripOf(g, e).end = d.last
    BY <1>1, <2>1 DEF TripOf
  <2>3. g.active
    BY <1>4 DEF Ends
  <2>4. g.from \in Times
    BY <1>1, <2>3 DEF Detectors, Stamps
  <2>5. TripOf(g, e) \in Trips
    BY <1>1, <2>4 DEF TripOf, Trips, Detectors, Sampled
  <2>6. d.active = (d.from # Absent)
    BY <2>1 DEF Detectors
  <2> QED  BY <1>2, <2>1, <2>2, <2>5, <2>6
<1>5. CASE ~Starts(det, e) /\ ~Ends(g, e) /\ d = g
  <2>1. d.active = (d.from # Absent)
    BY <1>1, <1>5
  <2> QED  BY <1>1, <1>2, <1>5, <2>1
<1> QED  BY <1>3, <1>4, <1>5

-----------------------------------------------------------------------------
(* The trips                                                               *)

\* The trips are those from before and the one that ended, if it was stored.
LEMMA TripsAre ==
  ASSUME NEW old \in Seq(Trips), NEW p \in Trips, NEW new, new = Append(old, p)
  PROVE  /\ new \in Seq(Trips) /\ DOMAIN old = 1 .. Len(old)
         /\ DOMAIN new = DOMAIN old \cup {Len(old) + 1}
         /\ \A i \in DOMAIN old : new[i] = old[i] /\ i < Len(old) + 1
         /\ new[Len(old) + 1] = p
  OBVIOUS

\* A sequence has a length.
LEMMA LenNat == ASSUME NEW u \in Seq(Trips) PROVE Len(u) \in Nat
  OBVIOUS

\* A trip of the sequence is a trip.
LEMMA TripIs == ASSUME NEW u \in Seq(Trips), NEW i \in DOMAIN u PROVE u[i] \in Trips
  OBVIOUS

\* A new worker has a fusion and a detector without a trip.
LEMMA EmptyIs ==
  /\ NoFusion \in Fusions /\ NoDet \in Detectors
  /\ NoDet.active = (NoDet.from # Absent) /\ NoDet.from = Absent /\ NoDet.start = Absent
  /\ NoDet.last = Absent /\ NoDet.gearAt = Absent /\ NoDet.gearOdometer = Absent
<1>1. NoFusion \in Fusions
  BY DEF NoFusion, Fusions, Stamps, Readings, Powers
<1>2. NoDet \in Detectors
  BY DEF NoDet, Detectors, Stamps, Readings
<1> QED  BY <1>1, <1>2 DEF NoDet

\* No reading is of a mile at all.
LEMMA AbsentIs == CarInv => Passed(Absent)
<1> SUFFICES ASSUME CarInv, NEW x \in Kept(now)
             PROVE  Absent <= miles[x] + (IF x < read THEN read - x ELSE 0)
  BY DEF Passed
<1>1. x \in Nat /\ miles[x] \in Nat /\ read \in Nat
  BY KeptIs, TimesAssumption DEF CarInv, Times
<1> QED  BY <1>1 DEF Absent

\* The worker starts empty.
LEMMA InvInit == Init => IInv
<1> SUFFICES ASSUME Init PROVE IInv
  OBVIOUS
<1> USE TimesAssumption
<1>1. CarInv
  <2>1. Kept(0) = {0}
    BY DEF Kept
  <2> QED  BY <2>1 DEF Init, CarInv, Times
<1>2. WorkerInv
  <2>1. << >> \in Seq(Trips)
    OBVIOUS
  <2> QED  BY <2>1, EmptyIs DEF Init, WorkerInv
<1>3. MilesInv
  BY <1>1, EmptyIs, AbsentIs DEF Init, MilesInv
<1>4. AfterTrips
  BY DEF Init, AfterTrips, NoDet, Absent
<1>5. TripsInOrder /\ OdometerMilesOnce /\ OpenTripIsAwake
  BY DEF Init, TripsInOrder, OdometerMilesOnce, OpenTripIsAwake, NoDet
<1> QED  BY <1>1, <1>2, <1>3, <1>4, <1>5 DEF IInv

\* No reading is earlier than the trips, but for the lateness, and none is of a mile the car
\* has still to reach.
LEMMA ReadingIs ==
  ASSUME IInv, NEW t \in Times, NEW s \in Shapes, Receive(t, s),
         NEW e, e = Sample(fusion, Frame(t, s))
  PROVE  /\ e.odometer \in Readings /\ Passed(e.odometer)'
         /\ \A v \in Readings : Passed(v) /\ v # Absent /\ e.odometer # Absent
                                   => v - behind' <= e.odometer
         /\ heard <= heard' /\ t <= heard' /\ heard - late' <= t
         /\ late <= late' /\ behind <= behind'
         /\ {heard', late', behind', read'} \subseteq Nat
<1> DEFINE f == Frame(t, s)
           g == Continued(det, e)
<1> USE DEF IInv
<1>1. /\ Framed(f) /\ Sampled(e) /\ UNCHANGED car
      /\ heard' = Later(heard, t) /\ late' = Later(late, heard - t)
      /\ \/ e.odometer = Absent /\ UNCHANGED <<read, behind>>
         \/ \E at \in Kept(now) :
               /\ e.odometer = miles[at]
               /\ read' = Later(read, at) /\ behind' = Later(behind, read - at)
  BY ReceiveIs
<1> HIDE DEF f, g
<1>0. /\ {now, heard, late, read, behind, t} \subseteq Nat
      /\ Kept(now) \subseteq Nat
  BY KeptIs, TimesAssumption DEF CarInv, Times
<1>2. /\ heard <= heard' /\ t <= heard' /\ heard - late' <= t /\ late <= late'
      /\ heard' \in Nat /\ late' \in Nat
  BY <1>0, <1>1 DEF Later
<1>3. CASE e.odometer = Absent /\ UNCHANGED <<read, behind>>
  <2>1. Passed(e.odometer)'
    BY <1>0, <1>1, <1>3 DEF Passed, CarInv, car, Absent
  <2> QED  BY <1>0, <1>1, <1>2, <1>3, <2>1 DEF Sampled
<1>4. ASSUME NEW at \in Kept(now), e.odometer = miles[at],
             read' = Later(read, at), behind' = Later(behind, read - at)
      PROVE  /\ Passed(e.odometer)'
             /\ \A v \in Readings : Passed(v) /\ v # Absent /\ e.odometer # Absent
                                       => v - behind' <= e.odometer
             /\ behind <= behind' /\ {behind', read'} \subseteq Nat
  <2>1. /\ behind <= behind' /\ read - at <= behind' /\ at <= read'
        /\ behind' \in Nat /\ read' \in Nat
    BY <1>0, <1>4 DEF Later
  <2>2. Passed(e.odometer)'
    <3> SUFFICES ASSUME NEW x \in Kept(now)
                 PROVE  miles[at] <= miles[x] + (IF x < read' THEN read' - x ELSE 0)
      BY <1>1, <1>4 DEF Passed, car
    <3>1. CASE at <= x
      BY <1>0, <2>1, <3>1 DEF CarInv
    <3>2. CASE x < at
      <4>1. miles[at] <= miles[x] + at - x /\ miles[x] \in Nat /\ miles[at] \in Nat
        BY <1>0, <3>2 DEF CarInv
      <4> QED  BY <1>0, <2>1, <3>2, <4>1
    <3> QED  BY <1>0, <3>1, <3>2
  <2>3. ASSUME NEW v \in Readings, Passed(v), v # Absent
        PROVE  v - behind' <= e.odometer
    <3>1. v <= miles[at] + (IF at < read THEN read - at ELSE 0) /\ miles[at] \in Nat /\ v \in Nat
      BY <2>3 DEF Passed, CarInv, Readings
    <3> QED  BY <1>0, <1>4, <2>1, <3>1
  <2> QED  BY <2>1, <2>2, <2>3
<1> QED  BY <1>1, <1>2, <1>3, <1>4 DEF Sampled

\* What a frame leaves of the trips and the detector.
LEMMA ReceiveStep ==
  ASSUME IInv, NEW t \in Times, NEW s \in Shapes, Receive(t, s)
  PROVE  IInv'
<1> PICK f : f = Frame(t, s)
  OBVIOUS
<1> PICK e : e = Sample(fusion, f)
  OBVIOUS
<1> PICK g : g = Continued(det, e)
  OBVIOUS
<1> DEFINE p == TripOf(g, e)
           ended == ~Starts(det, e) /\ Ends(g, e)
<1> USE DEF IInv
<1>1. /\ Framed(f) /\ Sampled(e) /\ e.ts = t
      /\ fusion' = Fused(fusion, f) /\ UNCHANGED car
      /\ \/ Starts(det, e) /\ det' = Started(det, e) /\ trips' = trips
         \/ /\ ~Starts(det, e) /\ Ends(g, e) /\ det' = Closed(g, e)
            /\ trips' = trips \/ trips' = Append(trips, p)
         \/ ~Starts(det, e) /\ ~Ends(g, e) /\ det' = g /\ trips' = trips
  BY ReceiveIs
<1>2. /\ e.odometer \in Readings /\ Passed(e.odometer)'
      /\ \A v \in Readings : Passed(v) /\ v # Absent /\ e.odometer # Absent
                                => v - behind' <= e.odometer
      /\ heard <= heard' /\ t <= heard' /\ heard - late' <= t
      /\ late <= late' /\ behind <= behind'
      /\ {heard', late', behind', read'} \subseteq Nat
  BY ReadingIs
<1>3. /\ det' \in Detectors /\ det'.active = (det'.from # Absent)
      /\ ~det'.inGear => det'.gearAt = Absent /\ det'.gearOdometer = Absent
      /\ det'.from \in {det.from, det.gearAt, t, Absent}
      /\ det'.gearAt \in {det.gearAt, t, Absent}
      /\ {det'.last, det'.gearOdometer, det'.start} \subseteq
            {det.last, det.gearOdometer, det.start, e.odometer, Absent}
      /\ ended =>
            /\ p \in Trips /\ p.from = det.from /\ p.to = t
            /\ p.start = det.start /\ p.end = det'.last
            /\ det'.from = Absent /\ det'.start = Absent
            /\ det'.gearAt \in {t, Absent} /\ det'.gearOdometer \in {det'.last, Absent}
  BY <1>1, DetectorIs
<1>4. /\ Fused(fusion, f) \in Fusions
      /\ Carried(fusion, f) \in {"none", Fused(fusion, f).power}
      /\ \/ Fused(fusion, f).power = fusion.power
         \/ /\ Fused(fusion, f).power # "none"
            /\ Carried(fusion, f) = Fused(fusion, f).power
      /\ e.power = Carried(fusion, f)
  BY <1>1, FusedIs DEF WorkerInv
<1>5. CarInv' /\ \A v \in Readings : Passed(v) => Passed(v)'
  <2>1. Next
    BY DEF Next
  <2> QED  BY <2>1, CarStep
<1>6. \/ trips' = trips
      \/ ended /\ trips' = Append(trips, p)
  BY <1>1
<1>7. OpenTripIsAwake'
  <2>1. CASE Starts(det, e)
    BY <1>1, <1>4, <2>1 DEF OpenTripIsAwake, Starts, Awake
  <2>2. CASE ~Starts(det, e) /\ Ends(g, e)
    BY <1>1, <1>3, <2>2 DEF OpenTripIsAwake
  <2>3. CASE ~Starts(det, e) /\ ~Ends(g, e)
    <3>1. det' = g /\ g.active = det.active
      BY <1>1, <2>3, ContinuedIs DEF WorkerInv
    <3>2. g.active => fusion.power \in Awake /\ e.power # "sleep"
      BY <2>3, <3>1 DEF Ends, OpenTripIsAwake
    <3>3. Fused(fusion, f).power \in {"none", "sleep", "go", "ready"}
      BY <1>4 DEF Fusions, Powers
    <3>4. CASE Fused(fusion, f).power = fusion.power
      BY <1>1, <3>1, <3>2, <3>4 DEF OpenTripIsAwake
    <3>5. CASE Fused(fusion, f).power # "none" /\ Fused(fusion, f).power = e.power
      BY <1>1, <3>1, <3>2, <3>3, <3>5 DEF OpenTripIsAwake, Awake
    <3> QED  BY <1>4, <3>4, <3>5
  <2> QED  BY <2>1, <2>2, <2>3
<1> HIDE DEF p, ended
<1>8. WorkerInv'
  BY <1>1, <1>3, <1>4, <1>6, TripsAre DEF WorkerInv
<1>9. /\ \A i \in DOMAIN trips :
            /\ trips[i].from \in Nat /\ trips[i].to \in Nat
            /\ trips[i].start \in Readings /\ trips[i].end \in Readings
      /\ det.from \in Stamps /\ det.gearAt \in Stamps /\ t \in Stamps /\ Absent \in Stamps
      /\ det.last \in Readings /\ det.gearOdometer \in Readings /\ det.start \in Readings
      /\ Absent \in Readings /\ t \in Nat /\ t # Absent
      /\ heard \in Nat /\ late \in Nat /\ behind \in Nat /\ read \in Nat
      /\ heard' \in Nat /\ late' \in Nat /\ behind' \in Nat /\ read' \in Nat
      /\ Stamps \subseteq Int /\ Times \subseteq Nat
  <2>1. Times \subseteq Nat
    BY TimesAssumption DEF Times
  <2>2. \A i \in DOMAIN trips : trips[i] \in Trips
    BY TripIs DEF WorkerInv
  <2>3. heard \in Nat /\ late \in Nat /\ behind \in Nat /\ read \in Nat
    BY TimesAssumption DEF CarInv, Times
  <2>4. /\ det.from \in Stamps /\ det.gearAt \in Stamps
        /\ det.last \in Readings /\ det.gearOdometer \in Readings /\ det.start \in Readings
    BY DEF WorkerInv, Detectors
  <2>5. t \in Stamps /\ Absent \in Stamps /\ Absent \in Readings /\ t \in Nat /\ t # Absent
    BY <2>1 DEF Stamps, Readings, Absent
  <2>6. Stamps \subseteq Int
    BY <2>1 DEF Stamps, Absent
  <2>7. heard' \in Nat /\ late' \in Nat /\ behind' \in Nat /\ read' \in Nat
    BY <1>2
  <2>8. \A i \in DOMAIN trips :
            /\ trips[i].from \in Nat /\ trips[i].to \in Nat
            /\ trips[i].start \in Readings /\ trips[i].end \in Readings
    BY <2>1, <2>2 DEF Trips
  <2> QED  BY <2>1, <2>3, <2>4, <2>5, <2>6, <2>7, <2>8
<1>20. /\ {t, heard, heard', late, late', behind, behind'} \subseteq Nat
       /\ heard <= heard' /\ t <= heard' /\ heard - late' <= t
       /\ late <= late' /\ behind <= behind'
  BY <1>2, <1>9
\* What comes after a trip that is stored already.
<1>10. ASSUME NEW i \in DOMAIN trips, NEW q, q = trips[i]
       PROVE  /\ q.to <= heard' /\ q.to \in Nat
              /\ {det.from, det.gearAt, t, Absent} \subseteq NextFrom(q)'
              /\ {det.last, det.gearOdometer, det.start, e.odometer, Absent} \subseteq
                    NextMiles(q)'
  <2>1. /\ q.to <= heard
        /\ det.from \in NextFrom(q) /\ det.gearAt \in NextFrom(q)
        /\ {det.last, det.gearOdometer, det.start} \subseteq NextMiles(q)
    BY <1>10 DEF AfterTrips
  <2>2. q.to \in Nat /\ q.end \in Readings /\ Passed(q.end)
    BY <1>9, <1>10 DEF MilesInv
  <2>3. ASSUME NEW x \in {det.from, det.gearAt, t, Absent}
        PROVE  x \in Stamps /\ (x # Absent => x <= heard' /\ q.to - late' <= x)
    <3>1. x \in Stamps /\ (x # Absent => (x <= heard /\ q.to - late <= x) \/ x = t)
      BY <1>9, <2>1 DEF NextFrom
    <3>2. x \in Int /\ (x = Absent \/ (x <= heard /\ q.to - late <= x) \/ x = t)
      BY <1>9, <3>1
    <3>3. /\ heard <= heard' /\ t <= heard' /\ heard - late' <= t /\ late <= late'
          /\ {heard, heard', late, late', t, q.to} \subseteq Nat
      BY <1>2, <1>9, <2>2
    <3> HIDE DEF IInv
    <3> QED  BY <2>1, <3>1, <3>2, <3>3
  <2>4. ASSUME NEW v \in {det.last, det.gearOdometer, det.start, e.odometer, Absent}
        PROVE  v \in Readings /\ (q.end # Absent /\ v # Absent => q.end - behind' <= v)
    <3>1. /\ v \in Readings
          /\ q.end # Absent /\ v # Absent => q.end - behind <= v \/ v = e.odometer
      BY <1>2, <1>9, <2>1 DEF NextMiles
    <3>2. v = e.odometer /\ q.end # Absent /\ v # Absent => q.end - behind' <= v
      BY <1>2, <2>2
    <3> HIDE DEF IInv
    <3>3. v \in Int /\ (q.end # Absent => q.end \in Nat)
      BY <2>2, <3>1 DEF Readings, Absent
    <3> QED  BY <1>20, <3>1, <3>2, <3>3
  <2> QED  BY <1>2, <1>9, <2>1, <2>2, <2>3, <2>4 DEF NextFrom, NextMiles
<1> DEFINE n == Len(trips) + 1
\* The trips afterwards: the old ones and perhaps the one that ended.
<1>11. ASSUME NEW i \in DOMAIN trips'
       PROVE  \/ i \in DOMAIN trips /\ trips'[i] = trips[i]
              \/ ended /\ i = n /\ trips'[i] = p
  <2>1. CASE trips' = trips
    BY <2>1
  <2>2. CASE ended /\ trips' = Append(trips, p)
    BY <1>3, <2>2, TripsAre DEF WorkerInv
  <2> QED  BY <1>6, <2>1, <2>2
<1>12. \A i \in DOMAIN trips : i \in Nat /\ i < n
  BY DEF WorkerInv
<1> HIDE DEF n
<1>13. MilesInv'
  <2>1. \A v \in {det.last, det.gearOdometer, det.start, e.odometer, Absent} : Passed(v)'
    <3>1. Passed(Absent)'
      <4>1. (CarInv => Passed(Absent))'
        BY AbsentIs, PTL
      <4> QED  BY <1>5, <4>1
    <3> QED  BY <1>2, <1>5, <1>9, <3>1 DEF MilesInv
  <2>2. Passed(det.last)' /\ Passed(det.gearOdometer)' /\ Passed(det.start)'
    <3>1. \A v \in {det'.last, det'.gearOdometer, det'.start} : Passed(v)'
      BY <1>3, <2>1
    <3> QED  BY <3>1 DEF Passed
  <2>3. ASSUME NEW i \in DOMAIN trips'
        PROVE  Passed(trips[i].start)' /\ Passed(trips[i].end)'
    <3>1. \A v \in {trips'[i].start, trips'[i].end} : Passed(v)'
      <4>1. CASE i \in DOMAIN trips /\ trips'[i] = trips[i]
        BY <1>5, <1>9, <4>1 DEF MilesInv
      <4>2. CASE ended /\ trips'[i] = p
        BY <1>3, <2>1, <4>2
      <4> QED  BY <1>11, <4>1, <4>2
    <3> QED  BY <3>1 DEF Passed
  <2> QED  BY <2>2, <2>3 DEF MilesInv
<1>14. AfterTrips'
  <2>1. det'.from <= heard' /\ det'.gearAt <= heard'
    <3>1. \A x \in {det.from, det.gearAt, t, Absent} : x \in Int /\ (x <= heard \/ x = t)
      <4>1. det.from <= heard /\ det.gearAt <= heard
        BY DEF AfterTrips
      <4>2. Absent <= heard
        BY <1>9 DEF Absent
      <4> QED  BY <1>9, <4>1, <4>2
    <3>2. \A x \in {det.from, det.gearAt, t, Absent} : x <= heard'
      BY <1>2, <1>9, <3>1
    <3> QED  BY <1>3, <3>2
  <2>2. ASSUME NEW i \in DOMAIN trips', NEW q, q = trips'[i]
        PROVE  /\ q.to <= heard'
               /\ det'.from \in NextFrom(q)' /\ det'.gearAt \in NextFrom(q)'
               /\ {det'.last, det'.gearOdometer, det'.start} \subseteq NextMiles(q)'
    <3>1. CASE i \in DOMAIN trips /\ trips'[i] = trips[i]
      BY <1>3, <1>10, <2>2, <3>1
    <3>2. CASE ended /\ trips'[i] = p
      <4>1. q.to = t /\ q.end = det'.last /\ q.to <= heard'
        BY <1>2, <1>3, <2>2, <3>2
      <4>2. det'.from \in {t, Absent} /\ det'.gearAt \in {t, Absent}
        BY <1>3, <3>2
      <4>3. {t, Absent} \subseteq NextFrom(q)'
        <5>1. t \in Stamps /\ Absent \in Stamps
          BY <1>9
        <5>2. t <= heard' /\ q.to - late' <= t
          <6>1. t \in Nat /\ late' \in Nat /\ t <= heard' /\ q.to = t
            BY <1>20, <4>1
          <6>2. \A a, b \in Nat : a - b <= a
            OBVIOUS
          <6> QED  BY <6>1, <6>2
        <5>3. \A x \in {t, Absent} :
                 x \in Stamps /\ (x # Absent => x <= heard' /\ q.to - late' <= x)
          BY <5>1, <5>2
        <5> HIDE DEF IInv
        <5> QED  BY <5>3 DEF NextFrom
      <4>4. {q.end, Absent} \subseteq NextMiles(q)'
        BY <1>2, <1>3, <1>9, <4>1 DEF NextMiles, Detectors, Readings, Absent
      <4> QED  BY <1>3, <3>2, <4>1, <4>2, <4>3, <4>4
    <3> QED  BY <1>11, <3>1, <3>2
  <2>3. AfterTrips'
    <3> SUFFICES ASSUME NEW i \in DOMAIN trips'
                 PROVE  /\ (trips[i].to <= heard)'
                        /\ (det.from \in NextFrom(trips[i]))'
                        /\ (det.gearAt \in NextFrom(trips[i]))'
                        /\ ({det.last, det.gearOdometer, det.start} \subseteq NextMiles(trips[i]))'
      BY <2>1 DEF AfterTrips
    <3> QED  BY <2>2 DEF NextFrom, NextMiles
  <2> QED  BY <2>3
<1>15. TripsInOrder'
  <2>1. ASSUME NEW i \in DOMAIN trips'
        PROVE  trips'[i].from - late' <= trips'[i].to
    <3>1. CASE i \in DOMAIN trips /\ trips'[i] = trips[i]
      BY <1>2, <1>9, <3>1 DEF TripsInOrder
    <3>2. CASE ended /\ trips'[i] = p
      <4>1. p.from \in Nat /\ p.from <= heard /\ p.to = t
        BY <1>3, <1>9, <3>2 DEF AfterTrips, Trips
      <4> HIDE DEF IInv
      <4> QED  BY <1>20, <3>2, <4>1
    <3> QED  BY <1>11, <3>1, <3>2
  <2>2. ASSUME NEW i \in DOMAIN trips', NEW j \in DOMAIN trips', i < j
        PROVE  trips'[i].to - late' <= trips'[j].from
    <3>1. CASE /\ i \in DOMAIN trips /\ trips'[i] = trips[i]
               /\ j \in DOMAIN trips /\ trips'[j] = trips[j]
      <4>1. trips[i].to - late <= trips[j].from /\ trips[i].to \in Nat /\ trips[j].from \in Nat
        BY <1>9, <2>2, <3>1 DEF TripsInOrder
      <4> HIDE DEF IInv
      <4> QED  BY <1>20, <3>1, <4>1
    <3>2. CASE /\ i \in DOMAIN trips /\ trips'[i] = trips[i]
               /\ ended /\ trips'[j] = p
      <4>1. det.from \in NextFrom(trips[i]) /\ p.from = det.from /\ p.from \in Nat
        BY <1>3, <1>9, <3>2 DEF AfterTrips, Trips
      <4>2. trips[i].to - late <= p.from /\ trips[i].to \in Nat
        BY <1>9, <3>2, <4>1 DEF NextFrom, Absent
      <4> HIDE DEF IInv
      <4> QED  BY <1>20, <3>2, <4>1, <4>2
    <3>3. CASE i = n
      BY <1>11, <1>12, <2>2, <3>3, LenNat DEF n
    <3> QED  BY <1>11, <3>1, <3>2, <3>3
  <2> QED  BY <2>1, <2>2 DEF TripsInOrder
<1>16. OdometerMilesOnce'
  <2> SUFFICES ASSUME NEW i \in DOMAIN trips', NEW j \in DOMAIN trips', i < j,
                      trips'[i].end # Absent, trips'[j].start # Absent
               PROVE  trips'[i].end - behind' <= trips'[j].start
    BY DEF OdometerMilesOnce
  <2>1. CASE /\ i \in DOMAIN trips /\ trips'[i] = trips[i]
             /\ j \in DOMAIN trips /\ trips'[j] = trips[j]
    <3>1. trips[i].end - behind <= trips[j].start
      BY <2>1 DEF OdometerMilesOnce
    <3>2. trips[i].end \in Nat /\ trips[j].start \in Nat
      BY <1>9, <2>1 DEF Readings
    <3> HIDE DEF IInv
    <3> QED  BY <1>20, <2>1, <3>1, <3>2
  <2>2. CASE /\ i \in DOMAIN trips /\ trips'[i] = trips[i]
             /\ ended /\ trips'[j] = p
    <3>1. det.start \in NextMiles(trips[i]) /\ p.start = det.start
      BY <1>3, <2>2 DEF AfterTrips
    <3>2. trips[i].end - behind <= p.start /\ trips[i].end \in Nat /\ p.start \in Nat
      BY <1>9, <2>2, <3>1 DEF NextMiles, Readings
    <3> HIDE DEF IInv
    <3> QED  BY <1>20, <2>2, <3>2
  <2>3. CASE i = n
    BY <1>11, <1>12, <2>3, LenNat DEF n
  <2> QED  BY <1>11, <2>1, <2>2, <2>3
<1> QED  BY <1>5, <1>7, <1>8, <1>13, <1>14, <1>15, <1>16

\* The car and a restart change no trip.
LEMMA InvStep == IInv /\ [Next]_vars => IInv'
<1> SUFFICES ASSUME IInv, [Next]_vars PROVE IInv'
  OBVIOUS
<1>1. CASE \E t \in Times, s \in Shapes : Receive(t, s)
  BY <1>1, ReceiveStep
<1>2. CASE \E m \in Modes : Drive(m)
  <2>1. /\ UNCHANGED <<fusion, det, trips, heard, late, behind>>
    BY <1>2 DEF Drive, worker, order
  <2>2. CarInv' /\ \A v \in Readings : Passed(v) => Passed(v)'
    BY <1>2, CarStep DEF IInv, Next
  <2>3. MilesInv'
    <3>1. {det.last, det.gearOdometer, det.start} \subseteq Readings
      BY DEF IInv, WorkerInv, Detectors
    <3>2. \A i \in DOMAIN trips : trips[i].start \in Readings /\ trips[i].end \in Readings
      BY TripIs DEF IInv, WorkerInv, Trips
    <3>3. /\ \A v \in {det.last, det.gearOdometer, det.start} : Passed(v)'
          /\ \A i \in DOMAIN trips : \A v \in {trips[i].start, trips[i].end} : Passed(v)'
      BY <2>2, <3>1, <3>2 DEF IInv, MilesInv
    <3> QED  BY <2>1, <3>3 DEF MilesInv, Passed
  <2>4. WorkerInv' /\ AfterTrips' /\ TripsInOrder' /\ OdometerMilesOnce' /\ OpenTripIsAwake'
    BY <2>1 DEF IInv, WorkerInv, AfterTrips, NextFrom, NextMiles, TripsInOrder,
       OdometerMilesOnce, OpenTripIsAwake
  <2> QED  BY <2>2, <2>3, <2>4 DEF IInv
<1>3. CASE Restart
  <2>1. /\ fusion' = NoFusion /\ det' = NoDet
        /\ UNCHANGED <<car, trips, heard, late, read, behind>>
    BY <1>3 DEF Restart, order
  <2>2. CarInv'
    BY <1>3, CarStep DEF IInv, Next
  <2>3. WorkerInv'
    BY <2>1, EmptyIs DEF IInv, WorkerInv
  <2>4. MilesInv'
    <3>1. Passed(Absent)
      BY AbsentIs DEF IInv
    <3> QED  BY <2>1, <3>1, EmptyIs DEF IInv, MilesInv, Passed, car
  <2>5. AfterTrips'
    BY <2>1, TimesAssumption DEF IInv, AfterTrips, NextFrom, NextMiles, NoDet, Absent, CarInv,
       Times, Stamps, Readings
  <2>6. TripsInOrder' /\ OdometerMilesOnce' /\ OpenTripIsAwake'
    BY <2>1 DEF IInv, TripsInOrder, OdometerMilesOnce, OpenTripIsAwake, NoDet
  <2> QED  BY <2>2, <2>3, <2>4, <2>5, <2>6 DEF IInv
<1>4. CASE UNCHANGED vars
  BY <1>4 DEF vars, car, worker, order, IInv, CarInv, WorkerInv, MilesInv, Passed, AfterTrips,
     NextFrom, NextMiles, TripsInOrder, OdometerMilesOnce, OpenTripIsAwake
<1> QED  BY <1>1, <1>2, <1>3, <1>4 DEF Next

\* In every reachable state the detector's fields are as late as the trips allow.
THEOREM TripsInvariant == Spec => []IInv
  BY InvInit, InvStep, PTL DEF Spec

\* The trips of a vehicle follow one another, share no mile of the odometer but for the
\* lateness of what was delivered, and are open only while the car is awake.
THEOREM TripsHold == Spec => []TripsInv
<1>1. IInv => TripsInv
  <2> SUFFICES ASSUME IInv PROVE TypeOK
    BY DEF IInv, TripsInv
  <2> USE DEF IInv
  <2>1. \A v \in Readings : Passed(v) => v \in {Absent} \cup 0 .. miles[now]
    <3>1. now \in Kept(now) /\ miles[now] \in Nat /\ read <= now
      BY KeptIs, TimesAssumption DEF CarInv, Times
    <3> QED  BY <3>1, TimesAssumption DEF Passed, Readings, Absent, CarInv, Times
  <2>2. ASSUME NEW i \in DOMAIN trips
        PROVE  /\ trips[i].from \in Times /\ trips[i].to \in Times
               /\ trips[i].start \in {Absent} \cup 0 .. miles[now]
               /\ trips[i].end \in {Absent} \cup 0 .. miles[now]
    BY <2>1, TripIs DEF WorkerInv, MilesInv, Trips
  <2>3. DOMAIN miles = Kept(now)
    BY DEF CarInv
  <2> QED  BY <2>2, <2>3 DEF TypeOK, CarInv, WorkerInv
<1> QED  BY <1>1, TripsInvariant, PTL
=============================================================================
