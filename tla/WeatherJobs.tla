----------------------------- MODULE WeatherJobs -----------------------------
(***************************************************************************)
(* Trip weather enrichment: the table weather_enrichment_jobs, the one     *)
(* worker task that claims and runs jobs, the two ways a job is queued,    *)
(* the administrator's switch and the provider's daily request budget.     *)
(*                                                                         *)
(*   apps/api/src/services/weather_enrichment.rs    queue and worker       *)
(*   apps/api/src/services/trip_enrichment.rs       six-hourly reconciler  *)
(*   apps/api/src/ingestion/worker.rs               persist_trip           *)
(*   apps/api/src/services/external_connections.rs  switch and counter     *)
(***************************************************************************)
EXTENDS Naturals, FiniteSets

CONSTANTS
    Trips, NoTrip,
    MaxAttempts,   \* claims of one job, 5 in the code
    Budget,        \* DAILY_REQUEST_BUDGET
    MaxChunks,     \* bound: provider requests one trip needs
    MaxFailures,   \* bound: failed requests and statements, and lost counter updates
    MaxCrashes     \* bound: process restarts and lost status writes

ASSUME NoTripAssumption == NoTrip \notin Trips
ASSUME SizesAssumption == /\ MaxAttempts \in Nat \ {0} /\ Budget \in Nat
                          /\ MaxChunks \in Nat
                          /\ MaxFailures \in Nat /\ MaxCrashes \in Nat

VARIABLES
    trips,       \* persisted trips
    located,     \* trips with a usable coordinate
    toEnqueue,   \* trips inserted by persist_trip, whose enqueue is still to come
    status,      \* job status by trip; "none" when there is no row
    attempts,    \* attempts column
    wait,        \* next_attempt_at: "due", "backoff" or "tomorrow"
    weather,     \* trips whose weather has been written
    enabled,     \* the administrator's switch for Open-Meteo
    count,       \* request_count of today
    pc, cur, left,   \* the worker: step, claimed trip, requests still to make
    sent,        \* history: requests made today
    uncounted,   \* history: those of them record_attempt failed to count
    late,        \* history: requests made since the switch was last turned off
    concluded,   \* history: claims of a job since its attempts were reset that ended in
                 \* weather, "unavailable" or a failure
    failures, crashes

queue  == <<status, attempts, wait>>
worker == <<pc, cur, left>>
meter  == <<count, sent, uncounted, late>>
world  == <<trips, located, toEnqueue, enabled>>
vars   == <<queue, worker, meter, world, weather, concluded, failures, crashes>>

Statuses == {"none", "pending", "running", "succeeded", "unavailable", "failed"}
Outcomes == {"complete", "unavailable", "paused", "budget", "error"}

Init ==
    /\ trips = {} /\ located = {} /\ toEnqueue = {} /\ weather = {}
    /\ status = [t \in Trips |-> "none"] /\ attempts = [t \in Trips |-> 0]
    /\ wait = [t \in Trips |-> "due"] /\ concluded = [t \in Trips |-> 0]
    /\ enabled = TRUE /\ count = 0 /\ sent = 0 /\ uncounted = 0 /\ late = 0
    /\ pc = "idle" /\ cur = NoTrip /\ left = 0
    /\ failures = 0 /\ crashes = 0

-----------------------------------------------------------------------------
(* Queueing. Faulty variants (named ...Variant here and below) are used only to show
   that a property fails when the definition after them is wrong in a plausible way. *)

\* persist_trip inserts the trip; the vehicle may not have reported a position.
PersistTrip(t) ==
    /\ t \notin trips
    /\ trips' = trips \cup {t} /\ toEnqueue' = toEnqueue \cup {t}
    /\ \/ located' = located \cup {t}
       \/ UNCHANGED located
    /\ UNCHANGED <<queue, worker, meter, enabled, weather, concluded, failures, crashes>>

Requeue(t) ==
    /\ status' = [status EXCEPT ![t] = "pending"]
    /\ wait' = [wait EXCEPT ![t] = "due"]

\* weather_enrichment::enqueue: a job that has succeeded stays as it is, and an
\* existing job keeps its attempts.
Enqueue(t) ==
    /\ t \in toEnqueue /\ toEnqueue' = toEnqueue \ {t}
    /\ IF status[t] = "succeeded"
       THEN wait' = [wait EXCEPT ![t] = "due"] /\ UNCHANGED status
       ELSE Requeue(t)
    /\ UNCHANGED <<attempts, worker, meter, trips, located, enabled, weather, concluded,
                   failures, crashes>>

\* enqueue_trip_weather_enrichment, every six hours for every completed trip.
ReconcileVariant(t) ==                 \* failed jobs are left to their own retries
    /\ t \in trips /\ status[t] = "none"
    /\ Requeue(t)
    /\ UNCHANGED <<attempts, concluded, worker, meter, world, weather, failures, crashes>>
Reconcile(t) ==
    /\ t \in trips /\ status[t] \in {"none", "failed", "unavailable"}
    /\ Requeue(t)
    /\ attempts' = [attempts EXCEPT ![t] = 0]
    /\ concluded' = [concluded EXCEPT ![t] = 0]
    /\ UNCHANGED <<worker, meter, world, weather, failures, crashes>>

-----------------------------------------------------------------------------
(* The worker: process_next_job and enrich_trip *)

\* require_enabled and the budget, before anything is claimed.
Gate ==
    /\ pc = "idle" /\ enabled /\ count < Budget
    /\ pc' = "claim"
    /\ UNCHANGED <<queue, cur, left, meter, world, weather, concluded, failures, crashes>>

Claimable(t) == /\ status[t] \in {"pending", "failed"}
                /\ attempts[t] < MaxAttempts /\ wait[t] = "due"

Claim(t) ==
    /\ pc = "claim" /\ Claimable(t)
    /\ status' = [status EXCEPT ![t] = "running"]
    /\ attempts' = [attempts EXCEPT ![t] = @ + 1]
    /\ pc' = "load" /\ cur' = t
    /\ UNCHANGED <<wait, left, meter, world, weather, concluded, failures, crashes>>

NoJob ==
    /\ pc = "claim" /\ \A t \in Trips : ~Claimable(t)
    /\ pc' = "idle"
    /\ UNCHANGED <<queue, cur, left, meter, world, weather, concluded, failures, crashes>>

\* A statement or a request fails, which enrich_trip returns as the job's error.
StepFails == failures < MaxFailures /\ failures' = failures + 1 /\ pc' = "error"

\* build_targets; positions the vehicle's own sensor covers need no request.
Load ==
    /\ pc = "load"
    /\ \/ /\ cur \in located /\ pc' = "chunk" /\ left' \in 0..MaxChunks
          /\ UNCHANGED failures
       \/ cur \notin located /\ pc' = "unavailable" /\ UNCHANGED <<left, failures>>
       \/ StepFails /\ UNCHANGED left
    /\ UNCHANGED <<queue, cur, meter, world, weather, concluded, crashes>>

\* Before each request the switch and the budget are read again.
ChunkUngatedVariant ==                 \* the switch is only read before the claim
    /\ pc = "chunk" /\ left > 0
    /\ pc' = IF count >= Budget THEN "budget" ELSE "send"
    /\ UNCHANGED <<queue, cur, left, meter, world, weather, concluded, failures, crashes>>
ChunkUnmeteredVariant ==               \* the budget is only read before the claim
    /\ pc = "chunk" /\ left > 0
    /\ pc' = IF enabled THEN "send" ELSE "paused"
    /\ UNCHANGED <<queue, cur, left, meter, world, weather, concluded, failures, crashes>>
ChunkGate ==
    /\ pc = "chunk" /\ left > 0
    /\ \/ ~enabled /\ pc' = "paused" /\ UNCHANGED failures
       \/ enabled /\ count >= Budget /\ pc' = "budget" /\ UNCHANGED failures
       \/ enabled /\ count < Budget /\ pc' = "send" /\ UNCHANGED failures
       \/ StepFails
    /\ UNCHANGED <<queue, cur, left, meter, world, weather, concluded, crashes>>

\* record_attempt, whose own failure is ignored, then the request.
Send ==
    /\ pc = "send" /\ sent' = sent + 1
    /\ \/ count' = count + 1 /\ UNCHANGED <<uncounted, failures>>
       \/ /\ failures < MaxFailures /\ failures' = failures + 1
          /\ uncounted' = uncounted + 1 /\ UNCHANGED count
    /\ late' = IF enabled THEN late ELSE late + 1
    /\ pc' = "fetch"
    /\ UNCHANGED <<queue, cur, left, world, weather, concluded, crashes>>

Fetch ==
    /\ pc = "fetch"
    /\ \/ pc' = "chunk" /\ left' = left - 1 /\ UNCHANGED failures
       \/ StepFails /\ UNCHANGED left
    /\ UNCHANGED <<queue, cur, meter, world, weather, concluded, crashes>>

\* One transaction replaces the samples and updates the trip; answers without a
\* usable temperature are an error.
Commit ==
    /\ pc = "chunk" /\ left = 0
    /\ \/ /\ weather' = weather \cup {cur} /\ pc' = "complete"
          /\ UNCHANGED failures
       \/ StepFails /\ UNCHANGED weather
    /\ UNCHANGED <<queue, cur, left, meter, world, concluded, crashes>>

Rest == pc' = "idle" /\ cur' = NoTrip /\ left' = 0

Settle ==
    /\ pc \in {"complete", "unavailable"}
    /\ status' = [status EXCEPT ![cur] =
                     IF pc = "complete" THEN "succeeded" ELSE "unavailable"]
    /\ concluded' = [concluded EXCEPT ![cur] = @ + 1]
    /\ Rest
    /\ UNCHANGED <<attempts, wait, meter, world, weather, failures, crashes>>

Refunded == IF attempts[cur] > 0 THEN attempts[cur] - 1 ELSE 0

\* WeatherPausedError and WeatherBudgetError give the attempt back.
PostponeVariant ==                     \* the attempt stays used
    /\ pc \in {"paused", "budget"}
    /\ status' = [status EXCEPT ![cur] = IF pc = "paused" THEN "pending" ELSE "failed"]
    /\ wait' = [wait EXCEPT ![cur] = IF pc = "paused" THEN "due" ELSE "tomorrow"]
    /\ Rest
    /\ UNCHANGED <<attempts, meter, world, weather, concluded, failures, crashes>>
Postpone ==
    /\ pc \in {"paused", "budget"}
    /\ status' = [status EXCEPT ![cur] = IF pc = "paused" THEN "pending" ELSE "failed"]
    /\ wait' = [wait EXCEPT ![cur] = IF pc = "paused" THEN "due" ELSE "tomorrow"]
    /\ attempts' = [attempts EXCEPT ![cur] = Refunded]
    /\ Rest
    /\ UNCHANGED <<meter, world, weather, concluded, failures, crashes>>

\* Any other error: exponential back-off or the provider's Retry-After.
FailJob ==
    /\ pc = "error"
    /\ status' = [status EXCEPT ![cur] = "failed"]
    /\ wait' = [wait EXCEPT ![cur] = "backoff"]
    /\ concluded' = [concluded EXCEPT ![cur] = @ + 1]
    /\ Rest
    /\ UNCHANGED <<attempts, meter, world, weather, failures, crashes>>

WorkerNext == \/ Gate \/ NoJob \/ Load \/ ChunkGate \/ Send \/ Fetch \/ Commit
              \/ Settle \/ Postpone \/ FailJob
              \/ \E t \in Trips : Claim(t)

-----------------------------------------------------------------------------
(* The environment *)

\* update_connection, or the button that disables every connection.
Toggle ==
    /\ enabled' = ~enabled /\ late' = 0
    /\ UNCHANGED <<queue, worker, count, sent, uncounted, trips, located, toEnqueue,
                   weather, concluded, failures, crashes>>

\* A back-off lasts minutes; persist_trip's enqueue follows its insert at once.
BackoffEnds(t) ==
    /\ wait[t] = "backoff" /\ t \notin toEnqueue
    /\ wait' = [wait EXCEPT ![t] = "due"]
    /\ UNCHANGED <<status, attempts, worker, meter, world, weather, concluded, failures,
                   crashes>>

\* usage_date is no longer today: the count reads as zero.
Midnight ==
    /\ sent > 0 \/ \E t \in Trips : wait[t] = "tomorrow"
    /\ count' = 0 /\ sent' = 0 /\ uncounted' = 0
    /\ wait' = [t \in Trips |-> IF wait[t] = "tomorrow" THEN "due" ELSE wait[t]]
    /\ UNCHANGED <<status, attempts, worker, late, world, weather, concluded, failures,
                   crashes>>

\* backfill_trip_coordinates finds a position for a trip without one.
Locate(t) ==
    /\ t \in trips \ located /\ located' = located \cup {t}
    /\ UNCHANGED <<queue, worker, meter, trips, toEnqueue, enabled, weather, concluded,
                   failures, crashes>>

\* The process restarts, or a status write concluded and the iteration is abandoned.
Crash ==
    /\ crashes < MaxCrashes /\ crashes' = crashes + 1
    /\ pc' = "idle" /\ cur' = NoTrip /\ left' = 0
    /\ toEnqueue' = {}
    /\ UNCHANGED <<queue, meter, trips, located, enabled, weather, concluded, failures>>

Next == \/ WorkerNext \/ Toggle \/ Midnight \/ Crash
        \/ \E t \in Trips : \/ PersistTrip(t) \/ Enqueue(t) \/ Reconcile(t)
                            \/ BackoffEnds(t) \/ Locate(t)

Spec == Init /\ [][Next]_vars

\* The worker and the reconciler loop for ever; time passes.
FairSpec == /\ Spec /\ WF_vars(WorkerNext) /\ WF_vars(Midnight)
            /\ \A t \in Trips : /\ SF_vars(Claim(t)) /\ WF_vars(Reconcile(t))
                                /\ WF_vars(BackoffEnds(t))

-----------------------------------------------------------------------------
(* Properties *)

\* The columns keep their types, and the worker holds a trip exactly while it runs.
TypeOK ==
    /\ trips \subseteq Trips /\ located \subseteq trips /\ toEnqueue \subseteq trips
    /\ weather \subseteq trips
    /\ status \in [Trips -> Statuses] /\ attempts \in [Trips -> 0..MaxAttempts]
    /\ wait \in [Trips -> {"due", "backoff", "tomorrow"}]
    /\ enabled \in BOOLEAN /\ late \in Nat
    /\ count \in Nat /\ sent \in Nat /\ uncounted \in Nat
    /\ pc \in {"idle", "claim", "load", "chunk", "send", "fetch"} \cup Outcomes
    /\ cur \in Trips \cup {NoTrip} /\ left \in 0..MaxChunks
    /\ pc \in {"idle", "claim"} <=> cur = NoTrip
    /\ concluded \in [Trips -> Nat]
    /\ failures \in 0..MaxFailures /\ crashes \in 0..MaxCrashes

\* The daily budget bounds the requests really made in a day, whatever is queued,
\* retried or interrupted, with midnight between the check and the request: only a
\* request whose counting failed comes on top of it.
BudgetRespected == sent <= Budget + uncounted

\* Turning the switch off stops the worker at its next request: at most the one it
\* had already checked goes out.
AtMostOneLateRequest == late <= 1

\* A job is reported succeeded only after its trip's weather was committed.
SucceededHasWeather == \A t \in Trips : status[t] = "succeeded" => t \in weather

\* A pause or a spent budget never uses up an attempt: beyond the claims that came to a
\* conclusion only a restart (and the claim in progress) can.
AttemptsAreUsed ==
    \A t \in Trips : attempts[t] <= concluded[t] + crashes + (IF cur = t THEN 1 ELSE 0)

\* While nothing crashes, a persisted trip gets its weather or is found to have no
\* position, once weather stays enabled: retries, back-off, the attempts limit and
\* the daily budget only delay it.
TripSettles ==
    [](crashes = 0) /\ <>[]enabled => \A t \in Trips :
        t \in trips ~> status[t] \in {"succeeded", "unavailable"}

(* What the proofs add to the above to make it inductive. *)

\* Only persisted trips have jobs, and a request still to be answered is counted in left.
QueueInv == /\ TypeOK
            /\ \A t \in Trips : status[t] # "none" => t \in trips
            /\ cur # NoTrip => cur \in trips
            /\ pc \in {"send", "fetch"} => left > 0

\* Every request is counted or known to be uncounted, and a checked one fits in the budget.
MeterInv == sent = count + uncounted /\ count <= Budget /\ (pc = "send" => count < Budget)

\* While the switch is on, and between a check and its request, no request is late.
SwitchInv == late <= 1 /\ (enabled \/ pc = "send" => late = 0)

\* A completed claim has committed its trip's weather.
OutcomeInv == SucceededHasWeather /\ (pc = "complete" => cur \in weather)
=============================================================================
