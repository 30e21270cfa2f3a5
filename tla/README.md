# TLA+ models of Riviamigo

Riviamigo is a self-hosted telemetry service for Rivian vehicles: an Axum API with
Tokio background tasks, PostgreSQL/TimescaleDB, Redis, a React application, a restore
agent and a shell supervisor, the last two in one container with the API. This
directory holds TLA+ models of its parts, TLC configurations that check them and
proofs that TLAPS checks. Paths below are relative to the repository;
`api/` stands for `apps/api/src/`.

## 1. The system

| Component | State it keeps | Operations | What is hard |
|---|---|---|---|
| Restore agent (`api/bin/riviamigo-restore-agent.rs`) and journal (`api/services/restore_jobs.rs`) | the journal file, three database names, staging, artwork directories, the marker in `/tmp`, the recovery lock | execute a job, retry an interrupted one, roll back, reconcile | crashes between steps, a deadline, a supervisor that polls, two writers of one file |
| Supervisor script (`compose/production-services.sh`) | its loop, the API's pid | restart the API, shut down | races with the marker |
| Restore routes and lock (`api/routes/backups.rs`, `api/services/backups.rs`) | restore request rows, an advisory lock | queue and hand over a restore, import a package | a lost answer, a lock whose session ends |
| Backup runs (the same two files) | run rows, artifact rows, packages on disk and in a bucket, a schedule | run, upload, retain, clean up, rescan, reconcile | six statements that others see, three kinds of owner of a file, restarts |
| Ingestion supervisor and vehicle worker (`api/ingestion/supervisor.rs`, `worker.rs`) | worker generations, a session lock on a pooled connection, `needs_reauth` | start, stop, abort, lock, flag | generations overlap; a lock outlives its task |
| Vehicle history (`worker.rs`, `charge_detector.rs`, `charge_session_repair.rs`) | telemetry, charge sessions, state periods | detect, ensure, write, transition, persist, heal, rehydrate, reconcile | late frames, a restart within a frame |
| Charge history (`rivian_poll.rs`, `api/services/charge_backfill.rs`, `charge_sessions.rs`) | sessions, aliases, payloads and their identities, a backfill status, a lock | sync, backfill, match, insert, replay, merge | statements without a transaction, tasks that overlap, retention |
| Trip detection (`trip_signals.rs`, `trip_detector.rs`) | cached signals, the open trip | fuse, start, continue, end | readings of different age |
| Rivian session (`routes/vehicles.rs`, `rivian_poll.rs`, `rivian_auth.rs`) | token bundles in Redis and the database, a failure counter | sign in, one-time code, save, rotate | several callers with one refused bundle |
| Rivian websocket (`ws_client.rs`, `worker/state_decisions.rs`) | the loop's step, refused fields, an event channel, health | connect, subscribe, heal, back off, watch | a full channel, a silent server |
| Weather jobs (`api/services/weather_enrichment.rs`, `trip_enrichment.rs`, `external_connections.rs`) | one job row per trip, a request counter, a switch | queue, claim, request, settle, reconcile | checks before awaits, attempts given back, restarts |
| Ingestion capture (`api/services/ingestion_capture.rs`) | a row and event rows, a window in memory, a channel, a ledger | start, stop, record, write, expire, purge, restore at start | memory and database disagree; a bounded channel; a limit counted in memory |
| Authentication and the tabs (`api/routes/auth.rs`, `packages/hooks`, `apps/web` AuthGuard) | refresh tokens, one cookie jar, pages | sign in, rotate, bootstrap, sign out | two tabs, overtaking replies |
| Database start (`api/db/migrations.rs`, `api/keys.rs`, `api/main.rs`) | two ledgers, the schema, three key rows, a session lock | adopt, migrate, validate, bootstrap keys | two releases, interrupted starts |

Interactions: the API writes a journal and asks the agent over loopback HTTP; the agent
stops the API with a signal and holds the supervisor back with the marker; the restarted
API migrates, reads its keys and the journal. The supervisor starts one worker per vehicle; the worker
runs the websocket loop and a poll loop over one channel and one token bundle, turns frames into
telemetry, charges, periods and trips, and queues the weather of a trip; the trip
enrichment loop requeues it. Captures are fed by every ingestion task through
one channel. The agent takes its safety backup with the API's backup code.

What makes each correct: the owner's data exists whatever the agent does, and reports say
what happened (restore, backups); one collector per vehicle, within reach of every command (worker);
an unbroken timeline, and charges and trips that are neither split, doubled nor lost beyond what
the code accepts (history, charge history, trips); a sign-in that
is never overwritten by an older one (Rivian session); a socket that always comes back and is shown as it is (websocket); budget, switch and attempts
that mean what they say (weather); a
capture that is whole, bounded, stopped and deleted (capture); one
successor of a refresh token (authentication); a ledger that records the schema (start).

## 2. Modules

| Module | About |
|---|---|
| `RestoreAgent`, `RestoreAgentProofs` | the agent, the journal, hand-off, supervisor, reconciler and lock, in one state machine |
| `BackupRuns`, `BackupRunsProofs` | backup runs, imports, retention, rescans and the scheduler |
| `CollectorLock` | abstract: what the collector lock of a vehicle promises |
| `VehicleWorker`, `VehicleWorkerProofs` | supervisors and workers of one vehicle in several processes |
| `StateTimeline` | abstract: what the state timeline promises |
| `VehicleHistory` (proofs in `VehicleWorkerProofs`) | telemetry, charge sessions and state periods of one vehicle |
| `ChargeHistory`, `ChargeHistoryProofs` | Rivian's charge history: payloads, matching, backfill and merging of duplicates |
| `TripDetection`, `TripDetectionProofs` | fusion of trip signals, and trips |
| `RivianSession` | token bundles, sign-in and rotation |
| `RivianSocket` | the websocket loop, its events and health |
| `WeatherJobs` | job queue, worker, reconciler, switch and counter |
| `IngestionCapture` | captures of one vehicle |
| `QueueProofs` | proofs about `WeatherJobs` and `IngestionCapture` |
| `BrowserSession` | refresh tokens, cookie jar and tabs |
| `SessionProofs` | proofs about `RivianSession`, `RivianSocket` and `BrowserSession` |
| `DatabaseStart`, `DatabaseStartProofs` | ledgers, migrations and keys |
| `MC*` | instances for TLC |

`VehicleWorker` implements `CollectorLock` (`ImplementsCollectorLock`, by the mapping `Owner`) and
`VehicleHistory` implements `StateTimeline` (`ImplementsTimeline`). `RivianSocket` takes the token
bundle as good or not; that a bad one is replaced, its fairness of `Renew`, is what
`RivianSession` shows (`ExpiredPairIsRotated`).

Definitions named `...Variant` are plausible bugs of the definition after them. A run with
the variant in place of the definition violates the property it is paired with in
`PROJECT.json`; nothing else uses them.

### RestoreAgent

One restore of one package. A database name (`live`, `cand`, `prev`) is a slot with a
database or nothing: what it holds (original, restored, or a dump half loaded) and the status of
the restore's request row in it. `pc` is the step of the agent's task and
`mode` tells `execute_job` from `retry_interrupted_restore`, which treat errors in opposite
order. Each action is one awaited step of the agent; every step that can fail has a
disjunct with `Fault`, and `Deadline` stands for the timeout around
`perform_restore_inner`, which drops the future at any await. `job` is the journal file;
`rec` and `held` are the copies the API's reconciler and the agent's retry read, and write back
later. The lock is an advisory lock of a session on `riviamigo`, so it goes when that
session is terminated. `ContainerRestarts` forgets the processes, `/tmp` and the sessions
and keeps the databases and the backup volume, and makes an empty artwork directory where
there is none; the container also restarts itself when the supervisor finds the API gone and no marker.

Artwork is the owner's, the package's, an empty directory or absent. Renaming a directory onto
an empty one replaces it, and onto another fails, which is what a retry meets that moves artwork aside
again. `package` is the package that is restored: its kind, the artwork it has, if any, and what it is
restored over.

A package is `good`, `unbootable` (the API exits on the restored database) or `unhealthy`
(it starts and fails verification). Timing assumptions, each named at its definition:
`SupervisorNoticed` (copying artwork or dropping a database takes longer than the supervisor's poll of
0.2 s), `RestoreCandidate` (loading a dump takes longer than that too), `ApiExits` (an
API that cannot start takes longer to give up than the agent's scan of a directory).
A crash of one process alone is not modelled: the container's supervisor ends with either.

### BackupRuns

Packages have the number of their run, which stands for `created_at`. `pc[r]` is the statement of
`run_backup_inner_for_run`, or of the import handler, that comes next; `doomed` holds the rows retention read
and has not handled; `found` and `due` are what a rescan and the scheduler read before
their next await. The lock is a session lock held by the run (`LoseLock`: its session ends). The
API and the agent, which makes safety packages, crash separately; `Boot` is
`reconcile_running_runs`. `LoseCatalog` is the directory seen by another database.
Archives are whole or absent: hidden partial files are never listed (nor removed).

### VehicleWorker

A worker is a process and a generation; `pc` is its step in `run_vehicle_worker`, `slot` the entry of its
supervisor's map. `conn` is the pooled connection it keeps for the lock, `holder` the database
session that has the lock and `depth` how often it took it: `pg_try_advisory_lock` succeeds again on a session
that has it, so a leaked lock can be taken by the next worker that is handed the
connection. `Dropped` is a future dropped by abort or panic: the connection goes
back to the pool as it is. `told` is the shutdown channel, signalled or closed. The poll loop
has its own receiver, and after a panic or an abort the websocket loop and the parallax task, whose handles nobody
awaits then, are on their own too: `loops` are the workers of which such a task runs. Handlers commit and then send (`pending`), and may be dropped in between.

### VehicleHistory

Instants are small numbers; MergeGap <= ChargeTimeout < Staleness < StateLookback is the order of the code's 15, 30
and 120 minutes and 24 hours. A frame carries a power state and one charger reading: the detector and the repair read the charger's state and its status
(`connected`, `unplugged` and `idle` are by status alone), the timeline only the state. A row keeps one of them. The statements of one frame are separate
steps (`Ensure`, `Write`, `Period`, `Persist`), any of which may fail alone and is then
only logged. Several rows of one timestamp are one row (upsert). `Heal` is one transaction, statement by
statement on a copy of the tables (`repair`): it lists the pairs, merges them in any order, re-reading
both sessions, closes what ended and commits, or rolls back. The clock moves between frames.

### ChargeHistory

The rows of one vehicle's charges, with what Rivian lists of them. Charges are more than an hour apart, so that
the overlap matches only what is of the same charge; a summary has its start and end and the rows of the charge lie
between them, so that the search by time window, which follows the overlap, decides nothing. A summary is amended once or more, and
version `v` of it names the external ids 1 .. v. `task[t]` is a sync or a backfill at its next statement, with what it
has read; statements in a row whose order nothing else depends on are one action. `ledger` is
the payload of a version, its identity and its link; `Expire` is the 90 days' retention, which leaves the identity.
`Init` starts with rows of earlier releases, duplicates among them, or with none. Foreign keys and unique
indexes are guards (`Refused`). A backfill takes less than the 120 minutes after which its claim may be taken over
(`GoStale`); section 6 says what happens if it does not.

### TripDetection

The car drives a mile in each instant; a frame is a shape, which readings it carries and how old each is,
applied to the car's past. Frames may be lost, repeated or up to `Lateness` late. `Fused` and
`Sample` are `TripSignalFusion::fuse_from`, `Process` is `TripDetectorState::process`. Speed without
a direct reading is derived from fixes (two segments) or the odometer, as in the code.
`late` and `behind` are history: how far a frame has come behind the newest one, and an odometer reading
behind the newest reading, which can be the case in a frame that is on time: the odometer has a time of its own.

### RivianSession and RivianSocket

A bundle is a sign-in and a CSRF pair. Callers (the poll loop, the gap fillers, a handler) share
`with_vehicle_auth_retry`: call, lock the row, compare, rotate or reuse, retry, count. Numbers of pairs nobody
knows any more are reused, so that the state space is finite. Rivian's answers are external.

The websocket loop's `ws` is its await point; `events` the worker's bounded channel, on which the loop
waits when it is full. `GoesSilent` is a half-open connection; `Watchdog` the ten minutes
without a message. Rivian names at least one refused field per rejection, any subset.

### WeatherJobs

`status`, `attempts` and `wait` (next_attempt_at, as due, in back-off, or tomorrow) are the columns.
The worker is a program counter over `process_next_job` and `enrich_trip`: every await that separates
a check from the act it allows is a step of its own (`Gate`/`Claim`, `ChunkGate`/`Send`/`Fetch`,
`Commit`/`Settle`). `Midnight` and `Toggle` may come between any two steps. `record_attempt`
ignores its own failure, so `Send` may leave a request uncounted. Every other statement of `enrich_trip` may
fail (`StepFails`), which fails the job. `Crash` is a process
restart, or a failed status write, which abandons the claim alike. `sent`,
`uncounted`, `late` and `concluded` are history variables.

### IngestionCapture

`row` is the vehicle's row, `log[c]` the events ever committed for capture `c` and `cut[c]` how many
of them were deleted; captures are numbered in commit order, an id the code draws at
random. `window` is the in-memory registration. `task[t]` holds a request handler or the
expiry loop at its await points. The start transaction is split at its DELETE, whose
snapshot does not include events committed after it, and its commit. `Write` admits a whole batch: `Stores`
and `Truncates` say how many of a capture's records `CapLedger::admit` stores, one record after the
other, and whether it leaves a marker; nothing else is told apart of a record. `Quiet` says that
no handler or batch is under way: claims about what the system settles in are made in
such states.

### BrowserSession

Tokens carry the sign-in they descend from; a revoked one is as good as none, so a cookie that has it is no cookie, and its
number is given out again. A request holds the cookie of the moment it was sent and, once answered,
the Set-Cookie header of its reply; the jar takes headers as replies arrive.
Revoking a token and issuing its successor are two statements (`Present`, `Issue`). `tab` is the
page AuthGuard and the transport show or wait for; calls of one tab share one refresh. A sign-out is a request nobody
waits for (`SignOut`, one at a time), and may go beside a refresh, whose reply signs the tab in again (`NextPage`); so may a new
sign-in. After a 429 the browser refuses the recovery itself, so that no request is sent. A page that is loaded
again abandons its request, which is a failure of the request before the page starts.

### DatabaseStart

Migrations are a chain of which a release knows a prefix; a ledger is its length, absent, or alien.
`Inspect` decides the ledger action as the code does; adoption is one transaction, each migration is another.
Processes may restart as another release. Key rows carry the generation that made them.

## 3. Runs

| Run | Bounds | States | What it shows |
|---|---|---|---|
| `Restore` | four packages (below), 2 crashes, 2 faults or deadlines, 2 retries, the answer may be lost | 774 000 | databases, artwork and reports are safe; with one fault at most and no crash the job ends and its outcome is merged unless an earlier one was marked as merged, the API returns, an unbootable package is swapped out |
| `Weather` | 2 trips, budget 2, up to 2 requests each, 2 attempts, 1 failure, 1 crash | 289 000 | budget, switch, attempts; every trip settles |
| `Capture` | 2 requests and the expiry loop, 2 captures, 5 events for a limit of 2, channel 1, batch 2, 1 fault, 1 crash | 465 000 | completeness, single stop, the limit, deletion |
| `Worker` | 2 processes with 2 connections each, 2 generations, queue 2, 1 refresh, 1 crash, 1 fault | 184 000 | one collector, no task out of reach, the abstract lock, stops end, starts collect |
| `Session` | 2 callers, threshold 2, 1 sign-in, 1 expiry, 1 fault | 255 000 | one rotation per refusal, never over a sign-in; an expired pair is replaced |
| `Socket` | 2 fields, channel 4, 2 expiries, 1 save, 2 faults | 376 000 | only refused fields are dropped, health, recovery |
| `History` | 4 instants, 2 sessions, 3 frames, 2 restarts, 1 failed statement | 1 329 000 | charges and rows agree, the abstract timeline, it catches up |
| `Charges` | 1 charge, 2 tasks, 2 versions, 4 rows, 1 fault or crash | 348 000 | no charge and no telemetry of one is lost in a merge, syncs make a charge once, one backfill at a time, what Rivian lists lands |
| `Trip` | 4 instants, 3 shapes, lateness 1, memory 1, 1 fault (restart, failed insert or frame out of order) | 482 000 | order of trips, miles counted once, an open trip is awake |
| `Backup` | 2 runs, 1 due time, retention 1, destinations with S3, 1 crash, 1 fault and a failed report of it | 763 000 | succeeded is stored, refused is kept, safety stands, runs end, a due time served once |
| `Browser` | 2 tabs and a sign-out, 1 more sign-in, 2 faults | 96 000 | one live token per sign-in, or one being issued; tabs settle |
| `Start` | 2 processes, 2 releases, 11 databases, 1 crash, 1 fault, 1 damaged key, 3 generations | 395 000 | truthful ledger, ready means current, one set of keys, newest starts |

Each run checks a module's safety and, under its `FairSpec`, its liveness; `Trip` has none.
Three more configurations show what the code makes of a sentence of the documentation; TLC finds each violated, as
section 6 describes: `RestoreNoArtwork.cfg` (`EveryUnbootableIsSwappedBack`) and `RestoreReported.cfg`
(`LastOutcomeReconciled`) of `MCRestoreAgent`, `BrowserSignOut.cfg` (`SignOutRevokes`) of `MCBrowserSession`.
`...Inv` of a module is the conjunction of its type invariant and named safety invariants.

Why the bounds are enough. Restore: the packages are a good and an unhealthy one with artwork over artwork, and two
that the API cannot start on, with artwork on one side only, the package's or the owner's; two crashes cover a crash in the recovery from a crash, after
which the retry limit decides; two faults cover a failing step and a failing
rollback. Weather: two requests are the least that put a budget check between two
requests; two attempts make the limit reachable after a refund. Capture: two handlers and the
expiry loop are all that act on one capture at different steps; a limit of two, the start
marker included, is passed by the second event, truncated once by the third, and dropped
after that. Worker: two generations are an old and a new one; two connections let a leaked lock and its
next taker be on the same one or not. Session: two callers are refused together, a third would
repeat the second. Browser: three requests, two of tabs and a sign-out, meet one cookie; another sign-in lets replies
of an old session meet a new one. Socket: two fields are refused one after another. History: two sessions are what
a restart splits; three frames start, split and end a charge; a second restart meets the repair of the first. Charges: two tasks are two syncs, or a sync beside a backfill; two versions are a summary and
its amendment; a fifth row is never reached. Trip: four
instants hold a drive, a stop as long as `StopAfter` and a second drive; a fault falls into any of them. Backup: the second run
makes the first excess. Start: two releases are an older and a newer one. `MaxRetries`,
`MaxAttempts`, `Threshold`, `QueueLength`, `Cap` and the durations are limits of the code made small; the other
`Max...` constants, `Lateness` and `Memory` are bounds of the model, named where they are declared.

Deadlock is checked in `Charges`, whose syncs go on for ever, and in no other run: every bounded counter runs out, a restore ends, a tab may stay
closed, and nothing needs to happen after that. Liveness properties state what must happen before.

Fairness. `RestoreAgent`: weak fairness of each process's steps (Tokio polls every task,
the shell loops), none of faults, crashes or of an import being started. `WeatherJobs`:
weak fairness of the worker, the reconciler, midnight and the end of a back-off; strong
fairness of claiming a trip, because the claim takes the longest-waiting job, so a job
that is claimable again and again has its turn. `IngestionCapture`: weak fairness of the handlers and loops
and of time; strong fairness of `Age`, as twenty-four hours pass for a stopped
capture although single handlers keep the state from being `Quiet` at times. `VehicleWorker`: weak
fairness of a worker's steps, of the five-second abort, of the detached loops seeing their channel, of
the supervisor and of sending, and of `RecycleConn` (pooled connections have a life time). `RivianSession`:
weak fairness of callers, as the poll loop calls again and again. `RivianSocket`: of the loop, the watchdog, the
handling of events and the renewal of a bundle. `VehicleHistory`: of each statement, the start and
the interval that reconciles, not of crashes or frames. `ChargeHistory`: of each task's statements and of the poll loop's syncs, not of claims, retention or the car. `BackupRuns`: of the tasks, the scheduler's tick
and the restart of the API by its container. `BrowserSession`: what a page waits for is answered or fails; users do as they like. `DatabaseStart`: weak fairness of a started process and strong fairness
of `Lock`, since PostgreSQL serves the waiters of a lock in turn.

The liveness properties are conditional where the code is: `OutcomeReconciled` speaks of good packages and
of behaviours without a crash and with one fault at most (`Undisturbed`), and of merging only where no
outcome is marked as reconciled that an agent goes on from, `ApiComesBack` of packages the API can
start on, `UnbootableIsSwappedBack` of behaviours without another fault (with artwork in the installation or the package),
`TripSettles` of a switch that ends up on, `CaptureIsDeleted` of handlers that are not cut short,
`StartedWorkerCollects`, `NewestStarts` and `RunsEnd` of behaviours without the faults they name,
`ExpiredPairIsRotated` of a sign-in that is not revoked, and `ChargeLands` of charges within the
30 days for which a sync inserts.

## 4. Proofs

Eight modules hold proofs, for every value of the constants. Each proves one inductive
invariant, step by step, and draws the properties from it. TLC checked every one of these
invariants on its module's run before it was proved.

`RestoreAgentProofs`:

* `TypeCorrect`: `Spec => []TypeOK`. `TypeOK` is not inductive by itself: `RetryWrite`
  increments the retry count of a copy, in range only because the copy was read
  below the limit (`RetryBound`, by `RetryBoundStep`).
* `OriginalSurvives`, `LiveAlwaysBound`, `SafetyPackageFirst`: all from `DatabaseInv`, which
  says which database can be under which name. Until verification either the original is live
  and there is no previous database, or the restored one is live and the original is the
  previous one; the steps between the candidate's completion and the swap (`ReadyPcs`) have a
  restored candidate; after the safety backup the live database's contents are in a
  package. Without the last two parts a swap could make a partial dump live.
* `RestoreHolds`, `ActivationStopped`, `RollbackReported`: from `ActivationInv`, in five parts.
  `ProcessInv`: the agent stops the API only after the supervisor's loop went back to
  watching and the marker is in place, so nothing starts the API before the swap, and the
  reconciler's copy and an import have gone with it. `ArtworkInv`: an attempt that has
  placed the restored artwork has the owner's beside it, until verification.
  `KeptInv`: the original is dropped only when the staging directory is gone, without which
  nothing takes the job up again. `CompletedInv`: nothing runs after Completed was written, nor
  while a copy that says so is held. `ReportInv`: the reconciler writes back what it read,
  minutes later perhaps, over a journal the agent has changed since. If the copy reports a
  rollback and the journal does not, the original is live: a journal that got the report late,
  between the checkpoint and the swap, got `reconciled` with it and is not read again, and
  after that step there is no reconciler until the swap. `ArtworkNeverLost`
  speaks of restores over artwork (`package.over = "original"`); over none, a retry may move restored artwork aside.

`BackupRunsProofs`:

* `RunsInvariant`: `Spec => []IInv`, and from it `RunsHold` and `SafetyKept`. `SucceededIsStored`
  is not inductive: a run is reported as succeeded only at its last statement, so `StoredInv` follows
  its package from the statement that makes it, with the step of the run (`StepOf`) and its rows
  (`RowOf`). A package that retention removed stays justified although retention goes on:
  in the catalogue it removes the oldest rows beyond the count, so as many newer ones as it keeps
  are left (`LocalRowsStay`), and of several packages removed at once at the remote
  the newest has that many newer that stay (`RemoteRemoved`). `doomed`, read before the
  removal, stays right because newer rows are only added. `DueInv` says that the due
  time the scheduler found is later than every scheduled run's, from its check to the start in
  another transaction; `CatalogInv` says which steps may still add the row of a package.
* `SafetyKept`: what removes a file is retention, of an ordinary package, a run's own clean-up,
  which a finished one is past, or the owner's deletion of an import.

`ChargeHistoryProofs`: `HistoryHolds`, from `IInv`. Nothing locks the rows that a backfill merges, and
minutes pass between what it reads and what it deletes. `MergeInv` says what of its reading still
stands at each statement: the survivor and the rows of the cluster still to be merged are there
and of its charge, the rows of the clusters after it are untouched, and from `repay` on no telemetry refers
to the row that `drop` will delete. It stays true because only a backfill deletes rows and moves telemetry,
because no second one runs (`LoneInv`: its claim is in the status until its own end, and goes stale
only without it), and because a new row gets an id nobody has (`NewIdIs`). `NoChargeLost` follows at the one
step that deletes, where the survivor is of the same charge. `OneApiRow` needs `FindInv`: a sync that is about
to insert has found no row of Rivian's, and the lock it has had since (`SyncInv`) lets no other sync
insert one. `TelemetryHoused` has an exception: a session of the detector whose row could be written neither at
its start nor at its end (`unwritten`).

`TripDetectionProofs`: `TripsHold`, from `IInv`. A trip's times and miles pass through the
detector before they are stored, so `AfterTrips` says of each of its fields what the property
says of a trip: no earlier than the stored trips, but for the lateness. Nothing else about the
detector is needed: whatever it does with a sample, a field afterwards comes from another field or
the sample (`DetectorIs`). A new reading is late by no more than `behind` because the car had
passed every mile in the worker's hands, or in a trip, by the newest reading (`MilesInv`),
and drives a mile in an instant at most. That an open trip is awake follows from the fusion giving the
detector each reading it accepts (`FusedIs`).

`QueueProofs`, of the weather queue: `TypeCorrect` from `QueueInv` (job rows belong to persisted trips,
a request in flight is still counted in `left`), `BudgetHolds` from `MeterInv` (a request that
passed its check still fits), `OneLateRequest` from `SwitchInv` (a request passes its check
while the switch is on), `WeatherBeforeSuccess` from `OutcomeInv`, and `AttemptsAccounted`,
inductive given the types.

Of captures, the instance `IC` with `Assumed`, the ASSUMEs of its module, as a hypothesis, `CaptureHolds`
(which is `CaptureInv`), from `CapturesInv`. The limit holds because the ledger's count of a capture is never
below what is stored of it (`LedgerInv`). Seeding from the rows still stored makes this true only for a
capture of which none was deleted, the one the row names, which is also the only one the INSERT adds
to. A failed batch leaves the count too high, which loses room and stores no more. A truncation marker the
ledger does not know of was followed by a restart. `StopInv` says that the stop that closed the
row is the only one that may still write the marker, and that there is none yet. Of captures not
committed there is nothing in a log, in the ledger or on the way to the writer (`FutureInv`), and the starts under way
find a number (`StartsInv`, for which the handlers must be finitely many). `CurrentCaptureComplete` is
inductive with these: a DELETE reaches no further than its snapshot, taken before its capture is
numbered, and the purge takes the row with the events.

`VehicleWorkerProofs`:

* `WorkersCorrect`: at most one collector, every worker within reach. `OneCollector` is not
  inductive: that two workers hold the lock is excluded by what they hold it with. `LockInv`
  says that a worker between taking and giving up the lock has a connection of its own, and that
  the session of that connection has the lock unless it was lost; `TryLock` keeps it because it
  only hands out idle connections, though the lock may already be theirs. `Reachable` needs
  `FreshInv`: generations not spawned yet have no task.
* `ReauthStands`: the action property, with `TypeOK` for the counter.
* `ImplementsLock`: `Spec => Collector!Spec`. `Owner` is the worker that keeps the holder's
  connection, `Leaked` when nobody does; `OwnerIs` shows that it is unique under `LockInv`. Each
  step takes, gives up, leaks or expires the abstract lock, or stutters.
* `KeepsTimeline`: the history a worker writes, `VehicleHistory` as the instance `H` beside the
  worker's own state, implements `StateTimeline`. It has `H!TimesAssumption` as a hypothesis,
  because what a module assumes of its constants is not assumed of an instance. The periods change
  only through `Transition`, which begins the chain, ends the last period where the next begins,
  or leaves it (`TransitionStep`). It needs an instant to work with: the frame's, kept by
  `TimelineInv`, or that of the newest row that tells a state, which exists because a set of
  instants that is not empty has a last one (`LastInstant`, from well-foundedness of the finite
  subsets).
* `ChargesHold` (`ChargesInv` of `VehicleHistory`) and `SessionsStandHolds` (its `SessionsStand`),
  both from `HistoryIInv`, with the two ASSUMEs of the module as hypothesis (`HistoryAssumed`).
  `DetectorFollowsRow` speaks of an idle worker. `HandsInv` follows the session through a frame:
  what the detector or the worker has in hand was given out, is not closed, is the newest one while no
  statement has failed, and is open from `Ensure` on. That a restart resumes that one and no other is
  `OthersStale`: open sessions but the newest have no row within `Staleness`; and that a frame may
  open a new one is `FreeInv`: with nothing in hand no open session has recent rows, since a
  restart would have resumed it. Hence `Apart`: the rows of an open session lie more than
  `MergeGap` before those of every later one, so that no restart splits a charge. The other way round
  holds only up to one instant (`Ordered`), because a frame may be late; such a pair, its left
  session the later one, is all that the repair still merges (`PairsInv`), and merging it ends the
  session and keeps the copy tidy (`TidyMerges`), in any order. `SessionsStand` needs none of
  that and holds with failed statements too, from `CopyInv`: what the copy says of each session before
  the commit.

`SessionProofs`: of the session at Rivian, `TypeCorrect` and the action property `OnlyRefusedRotate`, from
`SessionInv`. A caller that means to rotate was refused with the bundle it has, and one that
rotates has the row locked since it read the same bundle there (`CallersInv`); the bundles of
sign-ins on their way to the row are of other sign-ins than the stored one (`SignInsInv`). A new
pair leaves every refused bundle somebody has refused (`NewPairKeeps`).

Of the websocket, the instance `Socket` with `Socket!BoundsAssumption` as a hypothesis, `SocketHolds`, from `SocketIInv`. `OnlyRefusedFieldsDropped` needs
the first rejection counted right too (`CountsInv`). `ConnectedMeansSocket` speaks of a worker that has
handled every event; `HealthInv` says it of the last event in the channel, which decides what the
worker will show: handling the first event does not change it (`HandledSettles`) and sending
replaces it (`SentDecides`).

Of the browser, the instance `Browser` with `Assumed`, the ASSUMEs of its module, as a hypothesis,
`BrowserHolds` (which is `SessionInv`), from `BrowserInv`. `OneSuccessor` is about live
tokens; `Unique` counts a token and the successor being issued for it together, so that a
rotation, which ends one before it makes the other, never adds one. A revoked token leaves the
other requests that have it (`OthersKept`). `SessionKept` needs `JarInv`: while
requests do not overlap and nobody has signed out, the one in flight has the jar's cookie or brings its successor.

`DatabaseStartProofs`: `ReadyHolds` and the action property `TruthfulHolds`, from
`StartInv`. A process that has the lock acts on the ledgers it read (`Stands`: nobody
changes them while it has the lock), one past the adoption works on a settled database, whose one
ledger records the schema, and one past the migrations has those of its release. `KeysInv`
does the same for the keys: a set that was complete stays as it is, since inserts do
not overwrite.

They rest on the ASSUMEs of the modules only, which TLC evaluates in the runs: the constants
are naturals or finite sets, the four periods of time are in their order, `NoTrip` is not a trip, a package set is not empty, the names of
`VehicleWorker` are distinct, `Free` is neither a task nor a charge, `Nil` is none of the values it stands beside, and
`RecordAssumption` of `DatabaseStart`: in a database as a start finds it, a ledger that some
release can follow, and that has a schema, records that schema (sqlx writes an entry in its
migration's transaction). A ledger from elsewhere, from the future or of no schema is not excluded.

Only model-checked:

* every liveness property, the fairness part of `ImplementsCollectorLock` included: fairness is
  beyond the prover.

## 5. Not modelled

* Restore: host restore (which migrates without the coordinator's lock), sanitisation and schema transforms, the merge of catalogue rows, removal
  of remote artifacts, and the Windows path of the agent: command-line or data-only steps whose success or
  failure is a disjunct of the step around them. Failure of a single journal write where the agent ignores it.
* Weather: interpolation, addresses and saved places; secrets and network
  policy of external connections. Capture: its export, which only reads.
* Worker and history: repair of closed trips, driver detection, notifications, health summaries, energy and
  location readings, rollback of a repair. Charge history: energy, cost and place of a charge, payloads
  that earlier releases left without an identity, annotations, the diagnosis that only reads.
  Poller and parser: what is fetched and how payloads are decoded; by far the longest code of the
  ingestion, and data throughout.
* Trips: battery, range, altitude, temperature, regeneration, closure motion, and the checks for
  impossible values, as readings are true.
* Backups: their settings, transfers and the archive format.
* Authentication: registration, passwords, API keys, settings and single sign-on.
* Restore compatibility transforms, dashboards, themes, settings, charts, live streams, the vehicle, trip,
  charge and metrics routes and the screens of the web application: single statements or
  transactions per request, reads and presentation without a protocol of their own. They are most of the
  repository's lines.

## 6. Where the code and its words differ

Met while modelling. Those of the code with itself or with a document are quoted with their line; the others
are limits that a model reaches or that an assumption of a model leaves out.

Restore:

* The deadline drops the restore after the swap and nothing rolls back; the
  job fails with the restored database live (agent 633; `docs/runbooks/backup-restore.md:76`).
* The automatic retry returns on a failed rename with the marker in
  place, and the supervisor waits for ever (agent 546; the same runbook, line 70).
* The automatic retry swaps only the database back. A later rollback
  reports success, restores whatever the last attempt moved aside, and the owner's artwork
  stays beside it (agent 546, 953).
* When the answer to the hand-off is lost, the API fails a job that goes on. That outcome is reconciled, and the
  completion that follows counts as reconciled too and is never merged (`restore_jobs.rs` 376; runbook line 43;
  `RestoreReported.cfg`, without a crash and with this fault alone).
* Neither the installation nor the package has artwork: each retry of a package with which the API never starts
  moves an empty directory over an empty one, so none of them rolls back, and after the last the
  database stays live (agent 1455, 518; `docs/guides/backup-and-restore.md:46`; `RestoreNoArtwork.cfg`). With artwork in
  either, the refused rename of the second attempt brings the original back.
* The reconciler writes back a stale copy of a failed journal that the retry took up meanwhile;
  its completion then is never merged either (`restore_jobs.rs` 441).
* A restart before a package is staged leaves its job in PreparingCandidate
  (agent 522; `docs/guides/backup-and-restore.md:49`).
* A rollback cut short by the supervisor's shutdown is repeated at start without
  recording success (agent 546; runbook line 67).
* Terminating the sessions on `riviamigo` ends the agent's own lock session, so an import can
  start while the restore is verified (agent 1095; runbook line 47).

Backups:

* The API's start fails the agent's running safety row too (`backups.rs` 935); it stays failed, and a
  rescan can then list the package a second time.
* Deleting an import that a rescan listed removes the file and leaves the row; an import that fails after its
  row was added does too; a rescan between the failure of a run and its clean-up can list a package that is then removed.
* A cancelled import leaves a running row until the next start of the API, and so does a crash of the agent.
* A failed scheduled run is not tried again before the next due time. Partial archives are never removed.

Worker and websocket:

* After a panic of a worker the lock leaks until the pool closes the connection, and its poll loop, websocket
  loop and parallax task go on until the supervisor drops the entry.
* A delete handler may fail between the DELETE and the stop command; a delete on one process does not
  stop another process's worker.
* A start command that arrives while a worker without credentials is still about to flag itself is
  ignored (`docs/rivian-auth.md:77`).
* Saving credentials does not reset `consecutive_auth_failures`.
* While a connection is renewed at the end of its life, or the credentials cannot be read, the health stays "connected".

History and trips:

* A Parallax frame without a charger state must not close the Charging period (comment at `worker.rs` 3393); the
  five-minute reconciliation reads its row and does.
* A late terminal frame can end a session before its start; the repair at start may close an orphan at a later
  session's end; a crash between `Ensure` and `Write` leaves a session without telemetry.
* A late frame after a trip's end can start a trip that overlaps it, and a late sleep can end a trip before its
  start, both by no more than the lateness. An odometer reading older than the one before, in a late frame
  or in a frame whose other readings are newer, is passed on, so that trips share as many miles. The miles of a trip
  measured by GPS may be counted again.
* A drive the worker missed is attributed to the next trip by the prior odometer reading; the age limit
  described at `trip_detector.rs` 137 covers only the anchor.
* A trip in progress is lost in a restart, and one that cannot be stored is dropped.

Charge history:

* A payload with a known transaction id is linked when it is recorded. If the update of the row fails after
  that, every later sync takes the summary for unchanged and linked, and skips it (`rivian_poll.rs` 982, 1261).
* A backfill merges duplicates without a lock or a transaction: after a failure of its last update the survivor keeps the
  source and times of before. An alias read after the rows can be of a row inserted meanwhile, which panics
  (`charge_sessions.rs` 1407) and leaves the status "running" until it is stale.
* A backfill that takes longer than 120 minutes can be claimed again while it runs; two of them may
  delete each other's survivors, and the first to end reports for both (`charge_backfill.rs` 99, 147).
* The replay of payloads in a backfill and a sync can insert the same charge twice; the next backfill merges it.
* If the row of a charge can be written neither when the detector begins it nor when it ends it, its telemetry
  keeps an id of which there is no row (`worker.rs` 984, 3083).
* Charges within an hour of each other can be matched by the time window, unless two of them are about equally near.

Weather and capture:

* A job running at a restart is never claimed or requeued (`weather_enrichment.rs` 167;
  `docs/guides/external-connections.md:26`).
* Unavailable weather jobs are requeued every six hours, position or not
  (`trip_enrichment.rs` 986; the same guide).
* Two starts that register in the other order than they commit leave the
  recorded capture unregistered (`ingestion_capture.rs` 300; `docs/runbooks/r2-ingestion-diagnostics.md:19`).
* A stop between a start's commit and its registration leaves a stopped capture recording; a
  start's DELETE misses events committed during it; a capture started after the expiry loop
  listed its vehicle is stopped as expired; a failed batch is not reported as dropped; a start or stop
  cut short half-way leaves a capture that is not deleted until a restart.

Sessions of the browser and start:

* Two tabs that overlap can lose the session: the loser's bootstrap clears the cookie after the winner
  set it. A lost reply to a refresh costs the session too.
* A sign-out while a refresh is in flight: the refresh has spent the cookie that the sign-out brings, its
  successor stays live, and its reply signs the tab in again, with no cookie to renew it if the sign-out is answered
  last (`transport.ts` 539; `docs/guides/oidc-sso.md:58`; `BrowserSignOut.cfg`).
* `api/keys.rs:50` answers a damaged key row with "... is corrupt — clear it and restart
  to regenerate". The restart generates a whole pair and inserts only the missing row
  (`ON CONFLICT DO NOTHING`), so the old private key is paired with a new public key.
* The rows read back after an insert of keys are used without parsing the age key.
* A restore dump leaves the keys out, so they are generated again after a swap.

## 7. Plan

Modelled so far: everything section 2 lists. What is left, most important first:

1. Models: rollback of a repair, single sign-on's login state, settings of
   authentication and the repair of closed trips.
2. Proofs: the safety part of what these models will say.
