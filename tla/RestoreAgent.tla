---------------------------- MODULE RestoreAgent ----------------------------
(***************************************************************************)
(* In-app restore of one recovery package: the API that queues and hands   *)
(* over the job, the restore agent that performs it, the shell supervisor  *)
(* that restarts the API, and the API task that reconciles the journal.    *)
(*                                                                         *)
(*   apps/api/src/bin/riviamigo-restore-agent.rs   the agent               *)
(*   apps/api/src/services/restore_jobs.rs         the journal             *)
(*   apps/api/src/routes/backups.rs                start and hand-off      *)
(*   compose/production-services.sh                the supervisor          *)
(*                                                                         *)
(* One container runs the three processes.  PostgreSQL and the backup      *)
(* volume survive a container restart; /tmp (the marker, the pid file) and *)
(* every process do not.  A database name is a slot holding a database.    *)
(***************************************************************************)
EXTENDS Naturals, FiniteSets

CONSTANTS
    Packages,    \* the packages to restore, each over an installation: see Package
    LosesReply,  \* whether the agent's answer to the hand-off may be lost
    MaxRetries,  \* automatic_retry_count limit, 2 in the code
    MaxCrashes,  \* bound: container crashes
    MaxFaults    \* bound: transient failures of one step, and deadlines

PackageKinds == {"good", "unbootable", "unhealthy"}
ArtKinds == {"original", "restored", "empty", "none"}

\* How the restored database behaves, the package's artwork, and the artwork it is restored
\* over; either may be an empty directory.
Package == [kind : PackageKinds, art : {"restored", "empty"}, over : {"original", "empty"}]

ASSUME PackagesAssumption == Packages \subseteq Package /\ Packages # {}
ASSUME ReplyAssumption == LosesReply \in BOOLEAN
ASSUME BoundsAssumption == /\ MaxRetries \in Nat
                           /\ MaxCrashes \in Nat
                           /\ MaxFaults \in Nat

VARIABLES
    job,        \* the journal file .restore-jobs/<id>.json
    live,       \* the database named riviamigo
    cand,       \* the database named riviamigo_restore_<id>
    prev,       \* the database named riviamigo_previous_<id>
    safety,     \* contents of which a safety package exists on the volume
    staged,     \* .restore-staging/<id> holds manifest.json and database.dump
    art,        \* the vehicle artwork directory
    before,     \* .vehicle-images-before-<id>
    marker,     \* /tmp/riviamigo-restore-in-progress exists
    pc,         \* the step the agent's job task is at
    mode,       \* "execute" (execute_job) or "retry" (retry_interrupted_restore)
    artHeld,    \* the ArtworkActivation value a rollback would receive
    lock,       \* holder of the recovery-mutation lock on riviamigo
    api,        \* the API process
    shell,      \* where the supervisor's loop is
    handoff,    \* the API's prepare_and_handoff_restore task
    rec,        \* the journal copy the API's reconciler is working on, if any
    uploading,  \* an import holds (or held) the recovery lock and is writing
    held,       \* the journal copy retry_interrupted_restore is working on, if any
    package,    \* the package and what it is restored over, fixed
    verified,   \* history: verify_api_state has succeeded for the candidate
    crashes, faults

dbs    == <<live, cand, prev, safety>>
disk   == <<staged, art, before>>
agent  == <<pc, mode, artHeld>>
procs  == <<api, shell, handoff, rec, uploading>>
others == <<held, package, verified, crashes>>
vars   == <<job, dbs, disk, marker, agent, lock, procs, others, faults>>

-----------------------------------------------------------------------------
Phases == {"Queued", "PreparingCandidate", "SafetyBackup", "StoppingApplication",
           "SwappingDatabase", "RestoringSettings", "RestoringArtwork",
           "StartingApplication", "VerifyingHealth", "RollingBack",
           "Completed", "Failed"}
Terminal == {"Completed", "Failed"}

Journal == [phase : Phases, retryable : BOOLEAN, retries : 0..MaxRetries,
            previous : BOOLEAN,      \* previous_database is recorded
            rollback : {"NotRequired", "Available", "InProgress", "Succeeded"},
            reconciled : BOOLEAN]

\* A database: what it holds and the status of this job's restore request row.
Statuses == {"none", "pending", "running", "failed", "completed"}
Database == [data : {"none", "original", "restored", "partial"}, req : Statuses]
NoDb == [data |-> "none", req |-> "none"]

RetryPcs    == {"boot", "retryMark", "retryStop", "retryDb", "retryFinish", "retryWrite"}
PreparePcs  == {"stage", "extract", "create", "restore", "safety", "checkpoint"}
SwapPcs     == {"mark", "stop", "terminate", "swap"}
ActivatePcs == {"settings", "artMove", "artPlace", "unmark", "verify"}
RollbackPcs == {"rbWrite", "rbMark", "rbStop", "rbDb", "rbArt", "rbUnmark", "rbHealth"}
FinishPcs   == {"finArt", "finStage", "finDb", "finDone"}
\* The steps under perform_restore's lock guard and deadline.
InnerPcs == PreparePcs \cup SwapPcs \cup ActivatePcs \cup RollbackPcs \cup FinishPcs
AgentPcs == {"idle", "lock", "err1", "err2"} \cup RetryPcs \cup InnerPcs

Init ==
    /\ job = [phase |-> "Queued", retryable |-> TRUE, retries |-> 0,
              previous |-> FALSE, rollback |-> "NotRequired", reconciled |-> FALSE]
    /\ live = [data |-> "original", req |-> "pending"]
    /\ cand = NoDb /\ prev = NoDb /\ safety = {}
    /\ staged = FALSE /\ before = "none"
    /\ marker = FALSE /\ pc = "idle" /\ mode = "execute" /\ artHeld = FALSE
    /\ lock = "none" /\ api = "up" /\ shell = "watch" /\ handoff = "queued"
    /\ rec = {} /\ uploading = FALSE /\ held = {}
    /\ package \in Packages /\ art = package.over /\ verified = FALSE
    /\ crashes = 0 /\ faults = 0

-----------------------------------------------------------------------------
(* Helpers *)

\* A step fails for a reason the model does not otherwise carry.
Fault   == faults < MaxFaults /\ faults' = faults + 1
NoFault == UNCHANGED faults

Phase(p) == job' = [job EXCEPT !.phase = p]

\* The inner future returns an error: perform_restore gives the lock up.
Fail == pc' = "err1" /\ lock' = IF lock = "agent" THEN "none" ELSE lock

\* The error was met after the swap: rollback_activated_candidate runs.
RollBackFrom == pc' = "rbWrite" /\ UNCHANGED lock

\* The supervisor polls five times a second: work that takes longer than that (copying
\* the artwork, dropping a full database) ends after it has seen the API gone.
SupervisorNoticed == ~(shell = "watch" /\ api = "down")

\* psql -c runs both renames in one transaction.
\* Faulty variants (named ...Variant here and below) are used only to show that a
\* property fails when the definition after them is wrong in a plausible way.
CanSwapVariant == cand # NoDb                  \* an existing previous database is replaced
CanSwap == cand # NoDb /\ prev = NoDb
SwapIn  == live' = cand /\ prev' = live /\ cand' = NoDb
CanRollBack == prev # NoDb /\ cand = NoDb
SwapBack    == live' = prev /\ cand' = live /\ prev' = NoDb

Boots(db) == db.data = "original" \/ (db.data = "restored" /\ package.kind # "unbootable")
Healthy(db) == Boots(db) /\ (db.data = "restored" => package.kind = "good")

-----------------------------------------------------------------------------
(* The API's hand-off: start_restore left a Queued job. *)

HandoffPrepare ==
    /\ handoff = "queued" /\ api = "up"
    /\ Phase("PreparingCandidate")
    /\ live' = [live EXCEPT !.req = "running"]
    /\ handoff' = "prepared"
    /\ UNCHANGED <<cand, prev, safety, disk, marker, agent, lock, api, shell, rec,
                   uploading, others, faults>>

\* execute_job accepts the job and spawns perform_restore.
HandoffAccepted ==
    /\ handoff = "prepared" /\ api = "up" /\ pc = "idle"
    /\ job.phase = "PreparingCandidate"
    /\ pc' = "lock" /\ mode' = "execute" /\ handoff' = "sent"
    /\ UNCHANGED <<job, dbs, disk, marker, artHeld, lock, api, shell, rec, uploading,
                   others, faults>>

HandoffDone ==
    /\ handoff = "sent" /\ api = "up" /\ handoff' = "none"
    /\ UNCHANGED <<job, dbs, disk, marker, agent, lock, api, shell, rec, uploading,
                   others, faults>>

\* The agent is unreachable, or its answer is lost: the API fails the job.
HandoffFails ==
    /\ api = "up" /\ Fault
    /\ handoff = "prepared" \/ (handoff = "sent" /\ LosesReply)
    /\ Phase("Failed")
    /\ live' = [live EXCEPT !.req = "failed"]
    /\ handoff' = "none"
    /\ UNCHANGED <<cand, prev, safety, disk, marker, agent, lock, api, shell, rec,
                   uploading, others>>

-----------------------------------------------------------------------------
(* The agent at container start: retry_interrupted_restore *)

Interrupted == /\ job.phase \notin {"Completed", "Queued"}
               /\ job.retryable /\ job.retries < MaxRetries
               /\ staged

BootSkip ==
    /\ pc = "boot" /\ ~Interrupted /\ pc' = "idle"
    /\ UNCHANGED <<job, dbs, disk, marker, mode, artHeld, lock, procs, others, faults>>

\* database_exists(previous), an error of which counts as "no".
BootRetry ==
    /\ pc = "boot" /\ Interrupted
    /\ mode' = "retry" /\ artHeld' = FALSE /\ held' = {job}
    /\ \/ job.previous /\ prev # NoDb /\ pc' = "retryMark" /\ NoFault
       \/ ~(job.previous /\ prev # NoDb) /\ pc' = "retryWrite" /\ NoFault
       \/ job.previous /\ prev # NoDb /\ pc' = "retryWrite" /\ Fault
    /\ UNCHANGED <<job, dbs, disk, marker, lock, procs, package, verified, crashes>>

WriteMarker(from, to) ==
    /\ pc = from /\ marker' = TRUE /\ pc' = to
    /\ UNCHANGED <<job, dbs, disk, mode, artHeld, lock, procs, others, faults>>

\* stop_api_process: TERM, then wait for the process to go.
TermApi(at) ==
    /\ pc = at /\ api \in {"starting", "up"} /\ api' = "stopping"
    /\ UNCHANGED <<job, dbs, disk, marker, agent, lock, shell, handoff, rec, uploading,
                   others, faults>>
ApiGone(at, to) ==
    /\ pc = at /\ api = "down" /\ pc' = to
    /\ UNCHANGED <<job, dbs, disk, marker, mode, artHeld, lock, procs, others, faults>>
\* ... but not within 30 seconds, which both rollback paths ignore.
ApiStaysIgnored(at, to) ==
    /\ pc = at /\ api = "stopping" /\ Fault /\ pc' = to
    /\ UNCHANGED <<job, dbs, disk, marker, mode, artHeld, lock, procs, others>>

\* rollback_databases, whose error ends the retry with the marker in place.
RetryRollBackDb ==
    /\ pc = "retryDb"
    /\ \/ CanRollBack /\ SwapBack /\ pc' = "retryFinish" /\ NoFault /\ UNCHANGED held
       \/ /\ Fault \/ (NoFault /\ ~CanRollBack)
          /\ held' = {} /\ pc' = "idle" /\ UNCHANGED <<live, cand, prev>>
    /\ lock' = "none"      \* the sessions on riviamigo are terminated
    /\ UNCHANGED <<job, safety, disk, marker, mode, artHeld, procs, package, verified,
                   crashes>>

RetryFinish ==
    /\ pc = "retryFinish" /\ SupervisorNoticed
    /\ cand' = NoDb /\ marker' = FALSE /\ pc' = "retryWrite"
    /\ UNCHANGED <<job, live, prev, safety, disk, mode, artHeld, lock, procs, others,
                   faults>>

\* The copy read by the scan is written back, over what the reconciler wrote since.
RetryWrite ==
    /\ pc = "retryWrite"
    /\ \E copy \in held :
         job' = [copy EXCEPT !.phase = "PreparingCandidate", !.retries = @ + 1]
    /\ held' = {} /\ pc' = "lock"
    /\ UNCHANGED <<dbs, disk, marker, mode, artHeld, lock, procs, package, verified,
                   crashes, faults>>

-----------------------------------------------------------------------------
(* perform_restore and perform_restore_inner, up to the swap *)

AcquireLock ==
    /\ pc = "lock"
    /\ IF lock = "none" THEN lock' = "agent" /\ pc' = "stage"
                        ELSE UNCHANGED lock /\ pc' = "err1"
    /\ UNCHANGED <<job, dbs, disk, marker, mode, artHeld, procs, others, faults>>

ClearStaging ==
    /\ pc = "stage" /\ staged' = FALSE /\ pc' = "extract"
    /\ UNCHANGED <<job, dbs, art, before, marker, mode, artHeld, lock, procs, others,
                   faults>>

\* Copy, validate and extract the package; a changed checksum is terminal.
Extract ==
    /\ pc = "extract"
    /\ \/ /\ staged' = TRUE /\ pc' = "create" /\ Phase("PreparingCandidate")
          /\ NoFault /\ UNCHANGED lock
       \/ Fault /\ Fail /\ UNCHANGED <<staged, job>>
       \/ /\ Fault /\ Fail /\ UNCHANGED staged
          /\ job' = [job EXCEPT !.retryable = FALSE]
    /\ UNCHANGED <<dbs, art, before, marker, mode, artHeld, procs, others>>

\* prepare_restore_database drops a leftover candidate and creates a new one.
CreateCandidate ==
    /\ pc = "create"
    /\ cand' = [data |-> "partial", req |-> "none"] /\ pc' = "restore"
    /\ UNCHANGED <<job, live, prev, safety, disk, marker, mode, artHeld, lock, procs,
                   others, faults>>

\* pg_restore, schema preparation and history merge.  A failure, or transforms or
\* a schema other than the plan's, drops the candidate and ends the job.  It takes
\* minutes, by which time the supervisor has answered an earlier marker removal.
RestoreCandidate ==
    /\ pc = "restore" /\ shell = "watch" /\ SupervisorNoticed
    /\ \/ /\ cand' = [data |-> "restored", req |-> "running"]
          /\ pc' = "safety" /\ Phase("SafetyBackup")
          /\ NoFault /\ UNCHANGED lock
       \/ /\ Fault /\ Fail /\ cand' = NoDb
          /\ job' = [job EXCEPT !.retryable = FALSE]
    /\ UNCHANGED <<live, prev, safety, disk, marker, mode, artHeld, procs, others>>

SafetyBackupVariant ==                  \* a failed safety backup is only logged
    /\ pc = "safety" /\ pc' = "checkpoint"
    /\ \/ safety' = safety \cup {live.data} /\ NoFault
       \/ Fault /\ UNCHANGED safety
    /\ cand' = [cand EXCEPT !.req = live.req]
    /\ UNCHANGED <<job, live, prev, disk, marker, mode, artHeld, lock, procs, others>>

\* run_backup_now(PreRestore) of riviamigo, then its catalogue is merged.
SafetyBackup ==
    /\ pc = "safety"
    /\ \/ /\ safety' = safety \cup {live.data}
          /\ cand' = [cand EXCEPT !.req = live.req]
          /\ pc' = "checkpoint" /\ NoFault /\ UNCHANGED lock
       \/ Fault /\ Fail /\ UNCHANGED <<safety, cand>>
    /\ UNCHANGED <<job, live, prev, disk, marker, mode, artHeld, procs, others>>

Checkpoint ==
    /\ pc = "checkpoint"
    /\ job' = [job EXCEPT !.previous = TRUE, !.rollback = "Available",
                          !.phase = "StoppingApplication"]
    /\ pc' = "mark"
    /\ UNCHANGED <<dbs, disk, marker, mode, artHeld, lock, procs, others, faults>>

StopTimesOutVariant ==                  \* the failure to stop the API is ignored
    /\ pc = "stop" /\ api = "stopping" /\ Fault /\ pc' = "terminate"
    /\ UNCHANGED <<job, dbs, disk, marker, mode, artHeld, lock, procs, others>>
StopTimesOut ==
    /\ pc = "stop" /\ api = "stopping" /\ Fault /\ Fail
    /\ UNCHANGED <<job, dbs, disk, marker, mode, artHeld, procs, others>>

\* pg_terminate_backend on riviamigo also ends the recovery lock's own session.
TerminateSessions ==
    /\ pc = "terminate" /\ lock' = "none"
    /\ Phase("SwappingDatabase") /\ pc' = "swap"
    /\ UNCHANGED <<dbs, disk, marker, mode, artHeld, procs, others, faults>>

SwapDatabases ==
    /\ pc = "swap"
    /\ \/ CanSwap /\ SwapIn /\ pc' = "settings" /\ NoFault /\ UNCHANGED lock
       \/ ~CanSwap /\ Fail /\ NoFault /\ UNCHANGED <<live, cand, prev>>
       \/ Fault /\ Fail /\ UNCHANGED <<live, cand, prev>>
    /\ UNCHANGED <<job, safety, disk, marker, mode, artHeld, procs, others>>

-----------------------------------------------------------------------------
(* After the swap: every error goes to rollback_activated_candidate *)

\* The RestoringSettings and RestoringArtwork updates, which only write the journal.
UpdateSettings ==
    /\ pc = "settings"
    /\ \/ Phase("RestoringArtwork") /\ pc' = "artMove" /\ NoFault /\ UNCHANGED lock
       \/ Fault /\ RollBackFrom /\ UNCHANGED job
    /\ UNCHANGED <<dbs, disk, marker, mode, artHeld, procs, others>>

MoveArtworkVariant ==                   \* an earlier attempt's directory is replaced
    /\ pc = "artMove" /\ SupervisorNoticed
    /\ before' = (IF art = "none" THEN before ELSE art) /\ art' = "none"
    /\ pc' = "artPlace"
    /\ UNCHANGED <<job, dbs, staged, marker, mode, artHeld, lock, procs, others, faults>>

\* rename(destination, previous) of directories replaces an empty one and is refused
\* when previous holds something: an earlier attempt's artwork.
MoveArtworkAside ==
    /\ pc = "artMove" /\ SupervisorNoticed
    /\ \/ /\ art = "none" \/ before \in {"none", "empty"}
          /\ before' = (IF art = "none" THEN before ELSE art) /\ art' = "none"
          /\ pc' = "artPlace" /\ NoFault /\ UNCHANGED lock
       \/ art # "none" /\ before \notin {"none", "empty"} /\ NoFault
          /\ RollBackFrom /\ UNCHANGED <<art, before>>
       \/ Fault /\ RollBackFrom /\ UNCHANGED <<art, before>>
    /\ UNCHANGED <<job, dbs, staged, marker, mode, artHeld, procs, others>>

\* rename(incoming, destination), whose error leaves no activation to roll back, and
\* the StartingApplication update, whose error rolls this one back.
PlaceArtwork ==
    /\ pc = "artPlace"
    /\ \/ /\ art' = package.art /\ artHeld' = TRUE
          /\ Phase("StartingApplication") /\ pc' = "unmark" /\ NoFault
       \/ /\ art' = package.art /\ artHeld' = TRUE
          /\ Fault /\ pc' = "rbWrite" /\ UNCHANGED job
       \/ Fault /\ pc' = "rbWrite" /\ UNCHANGED <<job, art, artHeld>>
    /\ UNCHANGED <<dbs, staged, before, marker, mode, lock, procs, others>>

\* The marker goes, so the supervisor restarts the API, before verification.
RemoveMarker ==
    /\ pc = "unmark" /\ marker' = FALSE
    /\ \/ Phase("VerifyingHealth") /\ pc' = "verify" /\ NoFault
       \/ Fault /\ pc' = "rbWrite" /\ UNCHANGED job
    /\ UNCHANGED <<dbs, disk, mode, artHeld, lock, procs, others>>

VerifyPasses ==
    /\ pc = "verify" /\ api = "up" /\ Healthy(live)
    /\ verified' = TRUE /\ pc' = "finArt"
    /\ UNCHANGED <<job, dbs, disk, marker, mode, artHeld, lock, procs, held, package,
                   crashes, faults>>

\* Wrong setup state, or no healthy answer within 180 seconds.
VerifyFails ==
    /\ pc = "verify" /\ RollBackFrom
    /\ \/ api = "up" /\ ~Healthy(live) /\ NoFault
       \/ Fault
    /\ UNCHANGED <<job, dbs, disk, marker, mode, artHeld, procs, others>>

FinalizeArtwork ==
    /\ pc = "finArt" /\ before' = "none" /\ pc' = "finStage"
    /\ UNCHANGED <<job, dbs, staged, art, marker, mode, artHeld, lock, procs, others,
                   faults>>
RemoveStaging ==
    /\ pc = "finStage" /\ staged' = FALSE /\ pc' = "finDb"
    /\ UNCHANGED <<job, dbs, art, before, marker, mode, artHeld, lock, procs, others,
                   faults>>
DropPrevious ==
    /\ pc = "finDb" /\ pc' = "finDone"
    /\ \/ prev' = NoDb /\ NoFault
       \/ Fault /\ UNCHANGED prev       \* only a warning is logged
    /\ UNCHANGED <<job, live, cand, safety, disk, marker, mode, artHeld, lock, procs,
                   others>>
Complete ==
    /\ pc = "finDone" /\ Phase("Completed") /\ pc' = "idle"
    /\ lock' = IF lock = "agent" THEN "none" ELSE lock
    /\ UNCHANGED <<dbs, disk, marker, mode, artHeld, procs, others, faults>>

-----------------------------------------------------------------------------
(* rollback_activated_candidate *)

RollbackWrite ==
    /\ pc = "rbWrite"
    /\ \/ /\ job' = [job EXCEPT !.phase = "RollingBack", !.rollback = "InProgress"]
          /\ pc' = "rbMark" /\ NoFault
       \/ Fault /\ pc' = "err1" /\ UNCHANGED job
    /\ UNCHANGED <<dbs, disk, marker, mode, artHeld, lock, procs, others>>

RollBackDbVariant ==                    \* a failed rename back is only logged
    /\ pc = "rbDb" /\ pc' = IF artHeld THEN "rbArt" ELSE "rbUnmark"
    /\ \/ CanRollBack /\ SwapBack /\ NoFault
       \/ Fault /\ UNCHANGED <<live, cand, prev>>
    /\ lock' = "none"
    /\ UNCHANGED <<job, safety, disk, marker, mode, artHeld, procs, others>>

RollBackDb ==
    /\ pc = "rbDb"
    /\ \/ CanRollBack /\ SwapBack /\ NoFault
          /\ pc' = IF artHeld THEN "rbArt" ELSE "rbUnmark"
       \/ ~CanRollBack /\ pc' = "err1" /\ NoFault /\ UNCHANGED <<live, cand, prev>>
       \/ Fault /\ pc' = "err1" /\ UNCHANGED <<live, cand, prev>>
    /\ lock' = "none"
    /\ UNCHANGED <<job, safety, disk, marker, mode, artHeld, procs, others>>

\* rollback_artwork removes the destination, then renames the previous one back.
RollBackArtwork ==
    /\ pc = "rbArt"
    /\ IF before # "none" THEN art' = before /\ before' = "none"
                          ELSE art' = "none" /\ UNCHANGED before
    /\ pc' = "rbUnmark"
    /\ UNCHANGED <<job, dbs, staged, marker, mode, artHeld, lock, procs, others, faults>>

RollbackUnmark ==
    /\ pc = "rbUnmark" /\ marker' = FALSE /\ pc' = "rbHealth"
    /\ UNCHANGED <<job, dbs, disk, mode, artHeld, lock, procs, others, faults>>

RollbackHealthVariant ==                \* the error is lost once the rollback succeeded
    /\ pc = "rbHealth" /\ pc' = "finDone" /\ api = "up"
    /\ job' = [job EXCEPT !.rollback = "Succeeded", !.retryable = TRUE]
    /\ UNCHANGED <<dbs, disk, marker, mode, artHeld, lock, procs, others, faults>>

\* wait_for_api_health, then the outcome; the restore returns an error either way.
RollbackHealth ==
    /\ pc = "rbHealth" /\ pc' = "err1"
    /\ \/ /\ api = "up" /\ NoFault
          /\ job' = [job EXCEPT !.rollback = "Succeeded", !.retryable = TRUE]
       \/ Fault /\ UNCHANGED job
    /\ UNCHANGED <<dbs, disk, marker, mode, artHeld, lock, procs, others>>

(* Errors: execute_job journals the failure and then removes the marker,
   retry_interrupted_restore does the two in the other order. *)

FailWritesVariant ==                    \* the failure is not journalled
    /\ \/ pc = "err1" /\ mode = "execute" /\ pc' = "err2"
       \/ pc = "err2" /\ mode = "retry" /\ pc' = "idle"
    /\ UNCHANGED <<job, dbs, disk, marker, mode, artHeld, lock, procs, others, faults>>
FailRemovesVariant ==                   \* the failure leaves the marker in place
    /\ \/ pc = "err1" /\ mode = "retry" /\ pc' = "err2"
       \/ pc = "err2" /\ mode = "execute" /\ pc' = "idle"
    /\ UNCHANGED <<job, dbs, disk, marker, mode, artHeld, lock, procs, others, faults>>
FailWritesJournal ==
    /\ \/ pc = "err1" /\ mode = "execute" /\ pc' = "err2"
       \/ pc = "err2" /\ mode = "retry" /\ pc' = "idle"
    /\ Phase("Failed")
    /\ UNCHANGED <<dbs, disk, marker, mode, artHeld, lock, procs, others, faults>>
FailRemovesMarker ==
    /\ \/ pc = "err1" /\ mode = "retry" /\ pc' = "err2"
       \/ pc = "err2" /\ mode = "execute" /\ pc' = "idle"
    /\ marker' = FALSE
    /\ UNCHANGED <<job, dbs, disk, mode, artHeld, lock, procs, others, faults>>

\* The restore deadline drops the inner future at whatever step it has reached.
Deadline ==
    /\ pc \in InnerPcs /\ Fault /\ Fail
    /\ UNCHANGED <<job, dbs, disk, marker, mode, artHeld, procs, others>>

-----------------------------------------------------------------------------
(* The API process and the supervisor *)

ApiBoots ==
    /\ api = "starting" /\ Boots(live) /\ api' = "up"
    /\ UNCHANGED <<job, dbs, disk, marker, agent, lock, shell, handoff, rec, uploading,
                   others, faults>>

\* The process exits: it was told to, or it cannot start on this database, which takes
\* it longer (pool, migrations) than the agent's scan of the journal directory.
ApiExits ==
    /\ \/ api = "stopping"
       \/ api = "starting" /\ ~Boots(live) /\ pc \notin {"boot", "retryMark"}
    /\ api' = "down" /\ rec' = {} /\ uploading' = FALSE /\ handoff' = "none"
    /\ lock' = IF lock = "upload" THEN "none" ELSE lock
    /\ UNCHANGED <<job, dbs, disk, marker, agent, shell, others, faults>>

ShellWaits ==
    /\ shell = "watch" /\ api = "down" /\ marker /\ shell' = "wait"
    /\ UNCHANGED <<job, dbs, disk, marker, agent, lock, api, handoff, rec, uploading,
                   others, faults>>
ShellSeesMarkerGone ==
    /\ shell = "wait" /\ ~marker /\ shell' = "launch"
    /\ UNCHANGED <<job, dbs, disk, marker, agent, lock, api, handoff, rec, uploading,
                   others, faults>>
ShellStartsApi ==
    /\ shell = "launch" /\ api = "down" /\ shell' = "watch" /\ api' = "starting"
    /\ UNCHANGED <<job, dbs, disk, marker, agent, lock, handoff, rec, uploading,
                   others, faults>>

\* The container starts again: processes, /tmp and database sessions are gone, and
\* prepare_storage makes a missing artwork directory.
ContainerRestarts ==
    /\ art' = IF art = "none" THEN "empty" ELSE art
    /\ marker' = FALSE /\ pc' = "boot" /\ artHeld' = FALSE /\ lock' = "none"
    /\ api' = "starting" /\ shell' = "watch" /\ handoff' = "none"
    /\ rec' = {} /\ uploading' = FALSE /\ held' = {}
    /\ UNCHANGED <<job, dbs, staged, before, mode, package, verified, faults>>

\* The API is gone and no restore is marked: the supervisor shuts everything down.
ShellShutsDown ==
    /\ shell = "watch" /\ api = "down" /\ ~marker
    /\ ContainerRestarts /\ UNCHANGED crashes
Crash == crashes < MaxCrashes /\ crashes' = crashes + 1 /\ ContainerRestarts

-----------------------------------------------------------------------------
(* reconcile_completed_jobs, at API start and every 15 seconds: it reads the
   journal, validates packages, then writes its copy back. *)

ReconcileReadVariant ==                 \* failed jobs are not reconciled
    /\ api # "down" /\ rec = {}
    /\ job.phase = "Completed" /\ ~job.reconciled
    /\ rec' = {job}
    /\ UNCHANGED <<job, dbs, disk, marker, agent, lock, api, shell, handoff, uploading,
                   others, faults>>
ReconcileRead ==
    /\ api # "down" /\ rec = {}
    /\ job.phase \in Terminal /\ ~job.reconciled
    /\ rec' = {job}
    /\ UNCHANGED <<job, dbs, disk, marker, agent, lock, api, shell, handoff, uploading,
                   others, faults>>

ReconcileWrite ==
    /\ api # "down"
    /\ \E copy \in rec :
         /\ live' = [live EXCEPT !.req =
                        IF copy.phase = "Completed" THEN "completed" ELSE "failed"]
         /\ job' = [copy EXCEPT !.reconciled = TRUE]
    /\ rec' = {}
    /\ UNCHANGED <<cand, prev, safety, disk, marker, agent, lock, api, shell, handoff,
                   uploading, others, faults>>

\* An import takes the same recovery lock for as long as it writes.
UploadStarts ==
    /\ api = "up" /\ ~uploading /\ lock = "none"
    /\ lock' = "upload" /\ uploading' = TRUE
    /\ UNCHANGED <<job, dbs, disk, marker, agent, api, shell, handoff, rec, others,
                   faults>>
UploadEnds ==
    /\ uploading /\ uploading' = FALSE
    /\ lock' = IF lock = "upload" THEN "none" ELSE lock
    /\ UNCHANGED <<job, dbs, disk, marker, agent, api, shell, handoff, rec, others,
                   faults>>

-----------------------------------------------------------------------------
HandoffNext == HandoffPrepare \/ HandoffAccepted \/ HandoffDone \/ HandoffFails

RetryNext ==
    \/ BootSkip \/ BootRetry
    \/ WriteMarker("retryMark", "retryStop")
    \/ TermApi("retryStop") \/ ApiGone("retryStop", "retryDb")
    \/ ApiStaysIgnored("retryStop", "retryDb")
    \/ RetryRollBackDb \/ RetryFinish \/ RetryWrite

PrepareNext ==
    \/ AcquireLock \/ ClearStaging \/ Extract \/ CreateCandidate \/ RestoreCandidate
    \/ SafetyBackup \/ Checkpoint
    \/ WriteMarker("mark", "stop")
    \/ TermApi("stop") \/ ApiGone("stop", "terminate") \/ StopTimesOut
    \/ TerminateSessions \/ SwapDatabases

ActivateNext ==
    \/ UpdateSettings \/ MoveArtworkAside \/ PlaceArtwork \/ RemoveMarker
    \/ VerifyPasses \/ VerifyFails
    \/ FinalizeArtwork \/ RemoveStaging \/ DropPrevious \/ Complete

RollbackNext ==
    \/ RollbackWrite
    \/ WriteMarker("rbMark", "rbStop")
    \/ TermApi("rbStop") \/ ApiGone("rbStop", "rbDb") \/ ApiStaysIgnored("rbStop", "rbDb")
    \/ RollBackDb \/ RollBackArtwork \/ RollbackUnmark \/ RollbackHealth

FailNext  == FailWritesJournal \/ FailRemovesMarker
AgentNext == RetryNext \/ PrepareNext \/ ActivateNext \/ RollbackNext \/ FailNext
ApiNext   == ApiBoots \/ ApiExits
ShellNext == ShellWaits \/ ShellSeesMarkerGone \/ ShellStartsApi \/ ShellShutsDown
ReconcileNext == ReconcileRead \/ ReconcileWrite
UploadNext == UploadStarts \/ UploadEnds

Next == \/ HandoffNext \/ AgentNext \/ Deadline \/ ApiNext \/ ShellNext
        \/ ReconcileNext \/ UploadNext \/ Crash

\* Every process keeps running: tokio polls the tasks, the shell loops.
Fairness == /\ WF_vars(HandoffNext) /\ WF_vars(AgentNext) /\ WF_vars(ApiNext)
            /\ WF_vars(ShellNext) /\ WF_vars(ReconcileNext) /\ WF_vars(UploadEnds)

Spec     == Init /\ [][Next]_vars
FairSpec == Spec /\ Fairness

-----------------------------------------------------------------------------
(* Properties *)

\* Every variable keeps its type, and the journal its shape.
TypeOK ==
    /\ job \in Journal
    /\ live \in Database /\ cand \in Database /\ prev \in Database
    /\ safety \subseteq {"none", "original", "restored", "partial"}
    /\ staged \in BOOLEAN /\ art \in ArtKinds /\ before \in ArtKinds
    /\ marker \in BOOLEAN
    /\ pc \in AgentPcs /\ mode \in {"execute", "retry"} /\ artHeld \in BOOLEAN
    /\ lock \in {"none", "agent", "upload"}
    /\ api \in {"starting", "up", "stopping", "down"}
    /\ shell \in {"watch", "wait", "launch"}
    /\ handoff \in {"none", "queued", "prepared", "sent"}
    /\ rec \subseteq Journal /\ held \subseteq Journal /\ uploading \in BOOLEAN
    /\ package \in Package /\ verified \in BOOLEAN
    /\ crashes \in 0..MaxCrashes /\ faults \in 0..MaxFaults

\* Whatever crashes, deadlines, retries and rollbacks do, the database that was live
\* before the restore exists under one of its three names until the restored one has
\* passed verify_api_state (DropPrevious is the only legal end of it).
OriginalNeverLost == verified \/ "original" \in {live.data, cand.data, prev.data}

\* The name riviamigo always refers to the original or to a completely restored
\* database: it never dangles between the two renames and is never a half-loaded dump.
LiveNameBound == live.data \in {"original", "restored"}

\* The restored database is never the live one unless a safety package of the
\* original was written first, in this attempt or in an earlier one.
SafetyBeforeSwap == live.data = "restored" => "original" \in safety

\* The owner's artwork, if there was any, survives in the artwork directory or beside it
\* until the restored application has been verified.
ArtworkNeverLost == package.over = "original" => verified \/ "original" \in {art, before}

\* A job reported Completed left the restored database and the package's artwork in
\* place, and they had been verified.
CompletedMeansRestored ==
    job.phase = "Completed" => verified /\ live.data = "restored" /\ art = package.art

\* At every moment of a restore, its crashes and its retries, the owner's artwork is
\* still there, and a job that is reported as completed has been restored.
RestoreInv == ArtworkNeverLost /\ CompletedMeansRestored

\* The candidate becomes live only while the API process is gone and cannot be
\* started: the supervisor has seen the marker, or will see it before it starts one.
ActivationWhileStopped ==
    [][live.data = "original" /\ live'.data = "restored"
        => api = "down" /\ marker /\ shell # "launch" /\ ~uploading]_vars

\* The journal comes to say that the rollback succeeded only when the original database
\* is the live one, whoever writes it.
RollbackReportIsTrue ==
    [][job.rollback # "Succeeded" /\ job'.rollback = "Succeeded"
        => live.data = "original"]_vars

\* There is artwork in the package or in the installation it is restored over.
HasArtwork == package.art = "restored" \/ package.over = "original"

\* No crash, and one failing step at most.
Undisturbed == [](crashes = 0 /\ faults <= 1)

\* The request row of the live database says what the journal says.
Settled  == job.phase \in Terminal
Merged   == /\ Settled /\ job.reconciled
            /\ live.req = IF job.phase = "Completed" THEN "completed" ELSE "failed"

\* Whichever step fails or runs into the deadline while the container stays up, a restore
\* that the API can run after ends in a terminal phase; and if no outcome is marked as
\* reconciled that an agent goes on from or takes up again, reconcile_completed_jobs merges
\* the last one into the live database, where it stays.
OutcomeReconciled ==
    Undisturbed /\ package.kind = "good" =>
        /\ <>[]Settled
        /\ [](Settled /\ job.reconciled => []Settled) => <>[]Merged

\* docs/runbooks/backup-restore.md:43 says it of every job the agent completes: the
\* restarted API merges the history back.  So the outcome that stands in the end is the
\* one that was merged.  It is not when a passing outcome was reconciled first.
LastOutcomeReconciled ==
    Undisturbed /\ package.kind = "good" => <>[](Settled => Merged)

\* The API comes back whenever it was stopped for a swap or a rollback, if it can run on
\* the restored database at all.
ApiComesBack == Undisturbed /\ package.kind # "unbootable" => []<>(api = "up")

\* A package with which the API cannot start does not stay live, although the agent
\* goes down with the container each time: docs/guides/backup-and-restore.md:46, "a
\* failed verification automatically swaps the previous database and artwork back".
\* What swaps it back in the end is the refusal to move artwork over an earlier
\* attempt's, so it takes artwork in the installation or in the package.
UnbootableIsSwappedBack ==
    [](crashes = 0 /\ faults = 0) /\ package.kind = "unbootable" /\ HasArtwork
        => <>[](live.data = "original")

\* What the guide says, of every package.  Without artwork each retry replaces the empty
\* directory that an earlier one moved aside, and the last leaves the database live.
EveryUnbootableIsSwappedBack ==
    [](crashes = 0 /\ faults = 0) /\ package.kind = "unbootable" => <>[](live.data = "original")

-----------------------------------------------------------------------------
(* Inductive strengthenings, used by RestoreAgentProofs *)

\* The copy a retry is working on was read below the limit.
RetryBound == \A copy \in held : copy.retries < MaxRetries

ReadyPcs == {"safety", "checkpoint"} \cup SwapPcs

\* Before verification the original is live and no previous database exists, or the
\* restored one is live and the original is the previous one.
OriginalKept ==
    /\ cand.data # "original"
    /\ \/ live.data = "original" /\ prev = NoDb
       \/ live.data = "restored" /\ prev.data = "original"

DatabaseInv ==
    /\ live.data \in {"original", "restored"}
    /\ prev = NoDb \/ prev.data \in {"original", "restored"}
    /\ pc \in ReadyPcs => cand.data = "restored"
    /\ pc \in FinishPcs => verified
    /\ verified \/ OriginalKept
    /\ live.data = "restored" \/ prev.data = "restored" => "original" \in safety
    /\ pc \in ReadyPcs \ {"safety"} => live.data \in safety
=============================================================================
