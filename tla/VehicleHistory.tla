--------------------------- MODULE VehicleHistory ---------------------------
(***************************************************************************)
(* What the ingestion worker makes of the frames of one vehicle: telemetry *)
(* rows, charge sessions and the state timeline.                           *)
(*                                                                         *)
(*   apps/api/src/ingestion/worker.rs           main loop, periods, rows   *)
(*   apps/api/src/ingestion/charge_detector.rs  start and end of a charge  *)
(*   apps/api/src/services/charge_session_repair.rs   heal_active_tail     *)
(*                                                                         *)
(* One frame takes several database statements, each of which may fail and *)
(* is then only logged; the process may end between any two.  A worker     *)
(* that starts heals the tail, rehydrates the detector from the rows and   *)
(* reconciles the timeline before it takes a frame.                        *)
(*                                                                         *)
(* A frame carries what the lifecycle reads: the power state, and one of   *)
(* the charger readings                                                    *)
(*   "charging"   charger_state Charging                                   *)
(*   "done"       charger_state Done or Disconnected                       *)
(*   "connected"  charger_status alone, which says that it charges         *)
(*   "unplugged"  charger_status alone, not connected                      *)
(*   "idle"       charger_status alone, connected but not charging, with   *)
(*                no time to the end of charge                             *)
(*   "remaining"  only a time to the end of charge                         *)
(* Of two readings with one timestamp the later one stands, as if state    *)
(* and status were one column.  Energy, location, OTA and online readings  *)
(* are left out, and so is the history that Rivian's API may add.          *)
(***************************************************************************)
EXTENDS Integers, FiniteSetsExt, SequencesExt

CONSTANTS
    Frames,          \* frames the vehicle may send
    MaxTime,         \* bound: the last instant
    MaxSessions,     \* bound: charge sessions opened
    MaxFrames,       \* bound: frames received
    MaxCrashes,      \* bound: worker ends
    MaxFaults,       \* bound: failed statements
    MergeGap,        \* 15 minutes in heal_active_tail
    ChargeTimeout,   \* 30 minutes in the detector
    Staleness,       \* 120 minutes in load_active_charge_snapshot
    StateLookback    \* 24 hours in reconcile_state_period_tail

Powers   == {"none", "ready", "go", "sleep"}
Chargers == {"none", "charging", "done", "connected", "unplugged", "idle", "remaining"}

ASSUME FramesAssumption ==
    Frames \subseteq [via : {"ws", "parallax"}, power : Powers, charger : Chargers]
ASSUME TimesAssumption ==
    /\ {MaxTime, MaxSessions, MaxFrames, MaxCrashes, MaxFaults} \subseteq Nat
    /\ {MergeGap, ChargeTimeout, Staleness, StateLookback} \subseteq Nat /\ MaxTime # 0
    /\ MergeGap <= ChargeTimeout /\ ChargeTimeout < Staleness /\ Staleness < StateLookback

VARIABLES
    now,       \* the wall clock
    rows,      \* timeseries.telemetry of the vehicle, by timestamp
    sessions,  \* riviamigo.charge_sessions, by id
    periods,   \* riviamigo.vehicle_state_periods, in the order of insertion
    pc,        \* step of the worker: "down", "heal", "merge", "rehydrate", "tail",
               \* "idle", or the statement of the frame in hand
    repair,    \* the startup repair's transaction: pairs still to be merged, and
               \* the rows and sessions as it has them, or NoRepair
    det,       \* the charge detector: its open session, or NoCharge
    latest,    \* last power and charger reading the persistence gate saw
    frame,     \* the frame in hand, with its timestamp
    ended,     \* the session that frame ended, or NoCharge
    lastId, received, crashes, faults

stored  == <<rows, sessions, periods>>
volatile == <<det, latest, frame, ended>>
memory  == <<pc, repair, volatile>>
budgets == <<lastId, received, crashes, faults>>
vars    == <<now, stored, memory, budgets>>

Times   == 1 .. MaxTime
Ids     == 1 .. MaxSessions
Ongoing == 0   \* a NULL end; time starts at 1
States  == {"charging", "drive", "ready", "sleep", "unknown"}

NoRow     == [power |-> "none", charger |-> "none", by |-> -1]
NoSession == [from |-> 0, to |-> 0]
NoCharge  == [id |-> 0, from |-> 0, last |-> 0]
NoReading == [power |-> "unseen", charger |-> "unseen"]
Blank     == [power |-> "none", charger |-> "none"]
NoRepair  == [pairs |-> {}, rows |-> [t \in Times |-> NoRow],
              sessions |-> [i \in Ids |-> NoSession]]
NoFrame   == [via |-> "none", power |-> "none", charger |-> "none", ts |-> 0]

Stored(rs)   == {t \in Times : rs[t] # NoRow}
Linked(rs, i) == {t \in Stored(rs) : rs[t].by = i}
IsOpen(s)    == s # NoSession /\ s.to = Ongoing

Faulty == faults < MaxFaults /\ faults' = faults + 1
Sound  == UNCHANGED faults

-----------------------------------------------------------------------------
(* The charge detector. *)

\* What the detector and the startup repair take for charging, and for its end.
Charges(r)  == r.charger \in {"charging", "connected"}
Terminal(r) == r.charger \in {"done", "unplugged"}

ActivelyCharging(d, f) ==
    Charges(f) \/ (d # NoCharge /\ f.charger = "remaining")

SaysEnded(d, f) ==
    Terminal(f) \/ (d # NoCharge /\ f.charger = "idle")

\* What process makes of frame f: the detector afterwards and the session it
\* ended.  Parallax frames do not reach it.
Detect(d, f) ==
    LET seen == IF ActivelyCharging(d, f) THEN [d EXCEPT !.last = f.ts] ELSE d
        over == SaysEnded(d, f) \/ f.ts - seen.last > ChargeTimeout
    IN  IF f.via = "parallax" THEN [det |-> d, ended |-> NoCharge]
        ELSE IF d = NoCharge
        THEN [det   |-> IF ActivelyCharging(d, f)
                        THEN [id |-> lastId + 1, from |-> f.ts, last |-> f.ts] ELSE d,
              ended |-> NoCharge]
        ELSE IF over THEN [det |-> NoCharge, ended |-> seen]
        ELSE [det |-> seen, ended |-> NoCharge]

\* The session a row of the frame in hand is stamped with.
Stamp == IF ended # NoCharge THEN ended.id ELSE det.id

-----------------------------------------------------------------------------
(* The state timeline, which reads charger_state and not charger_status. *)

HasState(r) == r.charger \in {"charging", "done"}

Infer(r) ==
    CASE r.charger = "charging" -> "charging"
      [] r.charger # "charging" /\ r.power = "go"    -> "drive"
      [] r.charger # "charging" /\ r.power = "sleep" -> "sleep"
      [] r.charger # "charging" /\ r.power = "ready" -> "ready"
      [] OTHER -> "unknown"

\* While a charge session is open, a Parallax frame drives no transition.
DrivesPeriod(f) ==
    /\ ~(f.via = "parallax" /\ det # NoCharge /\ ~HasState(f))
    /\ f.power # "none" \/ Infer(f) # "unknown"

Opened(s, t) == [state |-> s, from |-> t, to |-> Ongoing]

\* Mutation: frames that are older than the open period are taken.
TransitionVariant(ps, s, t) ==
    IF ps = <<>> THEN <<Opened(s, t)>>
    ELSE IF Last(ps).state = s THEN ps
    ELSE Append([ps EXCEPT ![Len(ps)].to = t], Opened(s, t))

\* transition_state_period, one transaction.
Transition(ps, s, t) ==
    IF ps = <<>> THEN <<Opened(s, t)>>
    ELSE IF Last(ps).state = s \/ t < Last(ps).from THEN ps
    ELSE Append([ps EXCEPT ![Len(ps)].to = t], Opened(s, t))

\* Rows the reconciliation reads, and the newest of them.
Stateful(r) == r.power # "none" \/ HasState(r)
TailRows == {t \in Stored(rows) : Stateful(rows[t]) /\ t >= now - StateLookback}
TailTime    == Max(TailRows)
TailSays    ==
    TailRows # {} /\ ~(Infer(rows[TailTime]) = "unknown" /\ rows[TailTime].power = "none")

Reconciled ==
    IF TailSays THEN Transition(periods, Infer(rows[TailTime]), TailTime) ELSE periods

-----------------------------------------------------------------------------
(* Startup repair. *)

\* Left stayed open, the next linked row, at most MergeGap later, is right's,
\* both have rows that charge, and no row between them says the charge stopped.
SplitCharge(rs, ss, l, r) ==
    /\ l # r /\ IsOpen(ss[l]) /\ ss[r] # NoSession /\ ss[r].from >= ss[l].from
    /\ \A i \in {l, r} : \E t \in Linked(rs, i) : Charges(rs[t])
    /\ \E u \in Linked(rs, l), t \in Linked(rs, r) :
         /\ u < t /\ t - u <= MergeGap
         /\ \A v \in Stored(rs) : u < v /\ v < t => rs[v].by = 0
         /\ \A v \in Stored(rs) : u <= v /\ v <= t => ~Terminal(rs[v]) /\ rs[v].charger # "idle"

Candidates(rs, ss) ==
    LET eligible == {p \in Ids \X Ids : SplitCharge(rs, ss, p[1], p[2])}
    IN  {p \in eligible : \A q \in eligible : p[1] = q[1] <=> p[2] = q[2]}

\* Mutation: the merge forgets the rows.
JoinedVariant(rs, l, r) == rs

Joined(rs, l, r) ==
    [t \in Times |-> IF rs[t].by = r THEN [rs[t] EXCEPT !.by = l] ELSE rs[t]]

\* A session that an earlier pair has merged away is left alone.
Merge(st, p) ==
    LET l == p[1]  r == p[2]
        a == st.sessions[l]  b == st.sessions[r]
    IN  IF a = NoSession \/ b = NoSession THEN st
        ELSE [st EXCEPT !.rows = Joined(@, l, r),
                        !.sessions = [@ EXCEPT ![l] = [from |-> Min({a.from, b.from}),
                                                       to   |-> b.to],
                                               ![r] = NoSession]]

\* The first definitive end of charge after the last row of session i.
Stops(rs, s, i) ==
    LET after == IF Linked(rs, i) = {} THEN s.from ELSE Max(Linked(rs, i))
    IN  {t \in Stored(rs) : t > after /\ Terminal(rs[t])}

\* Mutation: sessions that have an end are closed too.
CloseVariant(rs, ss) ==
    [i \in Ids |-> IF ss[i] # NoSession /\ Stops(rs, ss[i], i) # {}
                   THEN [ss[i] EXCEPT !.to = Min(Stops(rs, ss[i], i))] ELSE ss[i]]

Close(rs, ss) ==
    [i \in Ids |-> IF IsOpen(ss[i]) /\ Stops(rs, ss[i], i) # {}
                   THEN [ss[i] EXCEPT !.to = Min(Stops(rs, ss[i], i))] ELSE ss[i]]

\* Session i with the rows linked to it, the way the detector takes it up.
Snapshot(i) == [id |-> i, from |-> Min(Linked(rows, i)), last |-> Max(Linked(rows, i))]

\* Mutation: sessions that have an end are resumed.
ResumableVariant == {i \in Ids : Linked(rows, i) # {} /\ Snapshot(i).last >= now - Staleness}

\* Mutation: sessions whose row was created are not resumed.
ResumableOldVariant ==
    {i \in Ids : /\ Linked(rows, i) # {} /\ sessions[i] = NoSession
                 /\ Snapshot(i).last >= now - Staleness}

Resumable == {i \in Ids : /\ Linked(rows, i) # {}
                          /\ sessions[i] = NoSession \/ IsOpen(sessions[i])
                          /\ Snapshot(i).last >= now - Staleness}
-----------------------------------------------------------------------------
Init ==
    /\ now = 1
    /\ rows = [t \in Times |-> NoRow] /\ sessions = [i \in Ids |-> NoSession]
    /\ periods = <<>>
    /\ pc = "down" /\ det = NoCharge /\ latest = NoReading
    /\ frame = NoFrame /\ ended = NoCharge /\ repair = NoRepair
    /\ lastId = 0 /\ received = 0 /\ crashes = 0 /\ faults = 0

\* The steps of one frame do not read the clock, so it moves between frames.
Tick ==
    /\ pc \in {"down", "idle"}
    /\ now < MaxTime /\ now' = now + 1
    /\ UNCHANGED <<stored, memory, budgets>>

\* The worker ends wherever it is; what is stored stays.
Crash ==
    /\ pc # "down" /\ crashes < MaxCrashes
    /\ crashes' = crashes + 1
    /\ pc' = "down" /\ repair' = NoRepair /\ det' = NoCharge /\ latest' = NoReading
    /\ frame' = NoFrame /\ ended' = NoCharge
    /\ UNCHANGED <<now, stored, lastId, received, faults>>

Start ==
    /\ pc = "down" /\ pc' = "heal"
    /\ UNCHANGED <<now, repair, stored, volatile, budgets>>

\* heal_active_tail: one transaction lists the pairs, merges one after the other, closes
\* sessions and commits; a statement that fails rolls all of it back.
ListPairs ==
    /\ pc = "heal" /\ pc' = "merge" /\ Sound
    /\ repair' = [pairs |-> Candidates(rows, sessions), rows |-> rows, sessions |-> sessions]
    /\ UNCHANGED <<rows, sessions>>

MergePair ==
    /\ pc = "merge" /\ UNCHANGED pc /\ Sound
    /\ \E p \in repair.pairs : repair' = Merge([repair EXCEPT !.pairs = @ \ {p}], p)
    /\ UNCHANGED <<rows, sessions>>

CloseAndCommit ==
    /\ pc = "merge" /\ repair.pairs = {} /\ pc' = "rehydrate" /\ Sound
    /\ rows' = repair.rows /\ sessions' = Close(repair.rows, repair.sessions)
    /\ repair' = NoRepair

RollBack ==
    /\ pc \in {"heal", "merge"} /\ pc' = "rehydrate" /\ Faulty
    /\ repair' = NoRepair
    /\ UNCHANGED <<rows, sessions>>

Heal ==
    /\ ListPairs \/ MergePair \/ CloseAndCommit \/ RollBack
    /\ UNCHANGED <<now, periods, volatile, lastId, received, crashes>>

Rehydrate ==
    /\ pc = "rehydrate" /\ pc' = "tail"
    /\ \/ /\ Sound
          /\ IF Resumable = {} THEN det' = NoCharge
             ELSE \E i \in Resumable :
                    /\ \A j \in Resumable : Snapshot(j).last <= Snapshot(i).last
                    /\ det' = Snapshot(i)
       \/ Faulty /\ det' = NoCharge
    /\ UNCHANGED <<now, repair, stored, latest, frame, ended, lastId, received, crashes>>

\* Mutation: only at startup.
ReconcileVariant ==
    /\ pc = "tail" /\ pc' = "idle"
    /\ \/ Sound /\ periods' = Reconciled
       \/ Faulty /\ UNCHANGED periods
    /\ UNCHANGED <<now, repair, rows, sessions, volatile, lastId, received, crashes>>

\* At startup, and again at every interval of the main loop.
Reconcile ==
    /\ pc \in {"tail", "idle"} /\ pc' = "idle"
    /\ \/ Sound /\ periods' = Reconciled
       \/ Faulty /\ UNCHANGED periods
    /\ UNCHANGED <<now, repair, rows, sessions, volatile, lastId, received, crashes>>

\* A frame arrives, with a timestamp that may lie a little back.
Receive ==
    /\ pc = "idle" /\ received < MaxFrames /\ received' = received + 1
    /\ \E f \in Frames, t \in Times \cap {now - 1, now} :
         LET g == [via |-> f.via, power |-> f.power, charger |-> f.charger, ts |-> t]
             d == Detect(det, g)
         IN  /\ d.det.id <= MaxSessions
             /\ frame' = g /\ det' = d.det /\ ended' = d.ended
             /\ lastId' = IF d.det.id > lastId THEN d.det.id ELSE lastId
             /\ pc' = IF d.det = NoCharge /\ d.ended = NoCharge THEN "write" ELSE "ensure"
    /\ UNCHANGED <<now, repair, stored, latest, crashes, faults>>

First(i) == IF Linked(rows, i) = {} THEN frame.ts ELSE Min(Linked(rows, i))

\* ensure_active_charge_session: the session's row exists from its first frame.
Ensure ==
    /\ pc = "ensure" /\ pc' = "write"
    /\ \/ /\ Sound
          /\ sessions' = IF sessions[Stamp] # NoSession THEN sessions
                         ELSE [sessions EXCEPT ![Stamp] =
                                [from |-> First(Stamp), to |-> Ongoing]]
       \/ Faulty /\ UNCHANGED sessions
    /\ UNCHANGED <<now, repair, rows, periods, volatile, lastId, received, crashes>>

\* A reading the frame does not carry leaves the old one; the time to the end
\* of charge is not kept.
Patch(old, new) == IF new \in {"none", "remaining"} THEN old ELSE new

Patched(old, f) ==
    [power |-> Patch(old.power, f.power), charger |-> Patch(old.charger, f.charger)]

\* A frame that repeats what the gate saw is kept only for other readings.
MustPersist ==
    \/ latest = NoReading
    \/ frame.power \notin {"none", latest.power}
    \/ frame.charger \notin {"none", "remaining", latest.charger}

\* A row of the same timestamp is patched, not replaced.
Upserted ==
    [rows EXCEPT ![frame.ts] =
        [power   |-> Patch(@.power, frame.power),
         charger |-> Patch(@.charger, frame.charger),
         by      |-> IF Stamp # 0 THEN Stamp ELSE Max({@.by, 0})]]

Write ==
    /\ pc = "write" /\ pc' = "period"
    /\ latest' = Patched(IF latest = NoReading THEN Blank ELSE latest, frame)
    /\ \/ Sound /\ rows' = Upserted
       \/ Sound /\ ~MustPersist /\ UNCHANGED rows
       \/ Faulty /\ UNCHANGED rows
    /\ UNCHANGED <<now, repair, sessions, periods, det, frame, ended, lastId, received, crashes>>

Period ==
    /\ pc = "period" /\ pc' = IF ended # NoCharge THEN "persist" ELSE "idle"
    /\ \/ /\ Sound
          /\ periods' = IF DrivesPeriod(frame)
                        THEN Transition(periods, Infer(frame), frame.ts) ELSE periods
       \/ Faulty /\ DrivesPeriod(frame) /\ UNCHANGED periods
    /\ frame' = IF ended # NoCharge THEN frame ELSE NoFrame
    /\ UNCHANGED <<now, repair, rows, sessions, det, latest, ended, lastId, received, crashes>>

\* Mutation: the ended session is kept in hand.
PersistVariant ==
    /\ pc = "persist" /\ pc' = "idle" /\ Sound
    /\ sessions' = [sessions EXCEPT ![ended.id] =
            [from |-> IF @ = NoSession THEN ended.from ELSE Min({@.from, ended.from}),
             to   |-> frame.ts]]
    /\ frame' = NoFrame
    /\ UNCHANGED <<now, repair, rows, periods, det, latest, ended, lastId, received, crashes>>

\* persist_charge_session gives the session its end; a failure is not retried.
Persist ==
    /\ pc = "persist" /\ pc' = "idle"
    /\ \/ /\ Sound
          /\ sessions' = [sessions EXCEPT ![ended.id] =
                [from |-> IF @ = NoSession THEN ended.from ELSE Min({@.from, ended.from}),
                 to   |-> frame.ts]]
       \/ Faulty /\ UNCHANGED sessions
    /\ frame' = NoFrame /\ ended' = NoCharge
    /\ UNCHANGED <<now, repair, rows, periods, det, latest, lastId, received, crashes>>

Next ==
    \/ Tick \/ Crash
    \/ Start \/ Heal \/ Rehydrate \/ Reconcile
    \/ Receive \/ Ensure \/ Write \/ Period \/ Persist

Spec == Init /\ [][Next]_vars

\* The worker takes its next step; its interval timer keeps firing.
FairSpec ==
    /\ Spec
    /\ WF_vars(Start) /\ WF_vars(Heal) /\ WF_vars(Rehydrate) /\ WF_vars(Reconcile)
    /\ WF_vars(Ensure) /\ WF_vars(Write) /\ WF_vars(Period) /\ WF_vars(Persist)
-----------------------------------------------------------------------------
\* What the tables may hold.
RowSets == [Times -> [power : Powers, charger : Chargers, by : -1 .. MaxSessions]]
SessionSets == [Ids -> [from : Times, to : Times \cup {Ongoing}] \cup {NoSession}]

\* The variables keep their types.
TypeOK ==
    /\ now \in Times
    /\ rows \in RowSets /\ sessions \in SessionSets
    /\ periods \in Seq([state : States, from : Times, to : Times \cup {Ongoing}])
    /\ pc \in {"down", "heal", "merge", "rehydrate", "tail", "idle", "ensure", "write", "period",
              "persist"}
    /\ repair \in [pairs : SUBSET (Ids \X Ids), rows : RowSets, sessions : SessionSets]
    /\ pc # "merge" => repair = NoRepair
    /\ det \in [id : Ids, from : Times, last : Times] \cup {NoCharge}
    /\ ended \in [id : Ids, from : Times, last : Times] \cup {NoCharge}
    /\ ended # NoCharge => pc \in {"ensure", "write", "period", "persist"}
    /\ frame # NoFrame <=> pc \in {"ensure", "write", "period", "persist"}
    /\ latest \in [power : Powers, charger : Chargers] \cup {NoReading}
    /\ lastId \in 0 .. MaxSessions /\ received \in 0 .. MaxFrames
    /\ crashes \in 0 .. MaxCrashes /\ faults \in 0 .. MaxFaults

\* The detector's session is an open row, also after a restart took it up from
\* the rows: a session that startup merged or closed is not taken up again.
DetectorFollowsRow ==
    faults = 0 /\ pc = "idle" /\ det # NoCharge => IsOpen(sessions[det.id])

\* A charge is not split by a restart: no open session is followed, within the
\* merge gap and with nothing between that says the charge stopped, by charging
\* rows of a session opened after it.
RestartKeepsCharge ==
    faults = 0 /\ pc = "idle" =>
        \A l, r \in Ids : l < r => ~SplitCharge(rows, sessions, l, r)

\* What a restart finds and makes of the charges, with the types.
ChargesInv == TypeOK /\ DetectorFollowsRow /\ RestartKeepsCharge

\* A closed session keeps its start and end; a session can only be merged away as a whole,
\* and then leaves none of its rows behind: they belong to a session that exists.
SessionsStand ==
    [][\A i \in Ids : sessions[i] # NoSession =>
         IF sessions'[i] = NoSession
         THEN \A t \in Linked(rows, i) : sessions'[rows'[t].by] # NoSession
         ELSE IsOpen(sessions[i]) \/ sessions'[i] = sessions[i]]_vars

\* The open period says what the newest row that tells a state says, unless that
\* period began later.
Agrees ==
    TailSays => /\ periods # <<>>
                /\ \/ Last(periods).state = Infer(rows[TailTime])
                   \/ Last(periods).from > TailTime

\* Whatever was missed - a failed statement, a restart in the middle of a frame -
\* the timeline catches up with the rows.
TimelineSettles == <>[]Agrees

TL == INSTANCE StateTimeline

\* The periods are an unbroken chain at every commit.
ImplementsTimeline == TL!Spec
=============================================================================
