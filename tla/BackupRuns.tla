----------------------------- MODULE BackupRuns -----------------------------
(***************************************************************************)
(* Backup runs, their packages on disk and in S3, and the catalogue of     *)
(* both.                                                                   *)
(*                                                                         *)
(*   apps/api/src/services/backups.rs   lock, scheduler, run, retention,   *)
(*                                      reconciliation                     *)
(*   apps/api/src/routes/backups.rs     overview, import, deletion         *)
(*   apps/api/src/main.rs               reconciliation at start            *)
(*                                                                         *)
(* A run makes one package and both have the same number; later runs have  *)
(* higher numbers, which stand for created_at. The API runs the manual and *)
(* scheduled backups and the imports; the safety backup of a restore runs  *)
(* in the restore agent, another process.                                  *)
(***************************************************************************)
EXTENDS Naturals, FiniteSets

CONSTANTS
    Nil,
    MaxRuns,        \* bound: backup runs and imports
    MaxSlot,        \* bound: due times of the schedule
    Retention,      \* retention_count
    Destinations,   \* settings of the destinations: sets of "local" and "s3"
    MaxCrashes,     \* bound: ends of the API or agent process
    MaxFaults       \* bound: failed statements, copies and requests, and lost connections

ASSUME BoundsAssumption ==
    /\ MaxRuns \in Nat /\ MaxSlot \in Nat /\ MaxCrashes \in Nat /\ MaxFaults \in Nat
    /\ Retention \in Nat \ {0}
    /\ Destinations \subseteq (SUBSET {"local", "s3"}) \ {{}}

Triggers == {"manual", "scheduled", "pre_restore", "upload"}
Statuses == {"running", "succeeded", "failed"}
ASSUME NilAssumption ==
    Nil \notin 0 .. MaxRuns /\ Nil \notin 0 .. MaxSlot /\ Nil \notin Triggers \cup Statuses

Runs == 1 .. MaxRuns

VARIABLES
    run,      \* backup_runs: run -> trigger, status, due time at its start, destinations
    rows,     \* backup_artifacts
    files,    \* runs with a whole package in the backup directory; rescans pass others over
    remote,   \* packages in the bucket
    pc,       \* the task of a run: its next step, "idle" before and "done" after
    doomed,   \* rows that the retention step of a run has read and not handled yet
    lock,     \* run whose session holds the backup advisory lock, or Nil
    found,    \* rescan: the package it has found without a row, or Nil
    due,      \* scheduler: the due time it has found without a run, or Nil
    slot,     \* most recent due time
    up,       \* the API is serving
    refused,  \* history: runs whose upload to S3 failed
    finished, \* history: runs that reached their last statement
    crashes, faults

task  == <<pc, doomed>>
store == <<rows, files, remote>>
api   == <<found, due, slot, up>>
past  == <<refused, finished, crashes, faults>>
vars  == <<run, store, task, lock, api, past>>

Packaging == {"package", "catalog", "upload", "catalogS3", "retain", "prune", "pruneS3",
              "tidy", "finish", "fail", "cleanup"}
Importing == {"receive", "list", "report"}
Row       == [pkg : Runs, run : Runs \cup {Nil}, type : {"local", "safety", "uploaded", "s3"}]
NoRun     == [trigger |-> Nil, status |-> Nil, slot |-> 0, to |-> {}]

Init ==
    /\ run = [r \in Runs |-> NoRun] /\ rows = {} /\ remote = {}
    /\ files = {}
    /\ pc = [r \in Runs |-> "idle"] /\ doomed = [r \in Runs |-> {}]
    /\ lock = Nil
    /\ found = Nil /\ due = Nil /\ slot = 0 /\ up = TRUE
    /\ refused = {} /\ finished = {} /\ crashes = 0 /\ faults = 0

Safety(r)  == run[r].trigger = "pre_restore"
Local(r)   == Safety(r) \/ "local" \in run[r].to      \* retain_local
ToS3(r)    == ~Safety(r) /\ "s3" \in run[r].to
Active(r)  == pc[r] \in Packaging \cup Importing
OfApi(r)   == Active(r) /\ ~Safety(r)
Goto(r, step) == pc' = [pc EXCEPT ![r] = step]
Fault == faults < MaxFaults /\ faults' = faults + 1 /\ UNCHANGED <<refused, finished, crashes>>
NextRun(r) == pc[r] = "idle" /\ \A q \in Runs : q < r => pc[q] # "idle"

\* A statement with "WHERE id = $1 AND status = 'running'".
SetStatus(r, status) ==
    run' = IF run[r].status = "running" THEN [run EXCEPT ![r].status = status] ELSE run

\* A row that the run adds for its own package.
Own(r, type) == [pkg |-> r, run |-> r, type |-> type]

-----------------------------------------------------------------------------
(* Starting a run. Definitions named ...Variant, here and below, are faulty forms used only
   to show that a property notices when the definition after them is wrong. *)

\* The lock is tried and, once held, the row is inserted and the task spawned.
Begin(r, trigger, at) ==
    /\ NextRun(r) /\ lock = Nil
    /\ lock' = r /\ Goto(r, "package")
    /\ \E to \in Destinations :
         run' = [run EXCEPT ![r] = [trigger |-> trigger, status |-> "running",
                                    slot |-> at, to |-> to]]
    /\ UNCHANGED <<store, doomed, past>>

StartManual(r) == up /\ Begin(r, "manual", slot) /\ UNCHANGED api

\* Upload and restore exclude each other with the recovery lock.
Recovering == \E r \in Runs : pc[r] \in Importing \/ (Active(r) /\ Safety(r))
StartSafety(r) == ~Recovering /\ Begin(r, "pre_restore", slot) /\ UNCHANGED api

\* Mutation: an attempt that failed does not count.
ServedVariant(at) ==
    \E r \in Runs : /\ run[r].trigger \in {"manual", "scheduled"} /\ run[r].slot >= at
                    /\ run[r].status # "failed"

\* maybe_run_scheduled_backup: a manual or scheduled run since the due time counts,
\* whatever became of it.
Served(at) == \E r \in Runs : run[r].trigger \in {"manual", "scheduled"} /\ run[r].slot >= at

\* Mutation: the next due time is taken for the most recent one.
CheckVariant ==
    /\ up /\ due = Nil /\ ~Served(slot) /\ due' = slot + 1
    /\ UNCHANGED <<run, store, task, lock, found, slot, up, past>>

Check ==
    /\ up /\ due = Nil /\ ~Served(slot) /\ due' = slot
    /\ UNCHANGED <<run, store, task, lock, found, slot, up, past>>

\* With the lock taken the start is refused and the next tick checks again.
StartScheduled(r) ==
    /\ due # Nil /\ due' = Nil
    /\ \/ Begin(r, "scheduled", slot)
       \/ lock # Nil /\ NextRun(r) /\ UNCHANGED <<run, store, task, lock, past>>
    /\ UNCHANGED <<found, slot, up>>

-----------------------------------------------------------------------------
(* run_backup_inner_for_run, one step per statement that others can see. *)

Package(r) ==
    /\ pc[r] = "package" /\ files' = files \cup {r} /\ Goto(r, "catalog")
    /\ UNCHANGED <<run, rows, remote, doomed, lock, api, past>>

Catalog(r) ==
    /\ pc[r] = "catalog" /\ Goto(r, "upload")
    /\ rows' = rows \cup (IF Local(r) THEN {Own(r, IF Safety(r) THEN "safety" ELSE "local")} ELSE {})
    /\ UNCHANGED <<run, files, remote, doomed, lock, api, past>>

Upload(r) ==
    /\ pc[r] = "upload"
    /\ IF ToS3(r) THEN remote' = remote \cup {r} /\ Goto(r, "catalogS3")
                  ELSE remote' = remote /\ Goto(r, "retain")
    /\ UNCHANGED <<run, rows, files, doomed, lock, api, past>>

\* Mutation: a failed upload adds no row for the package on disk.
EmergencyVariant(r) == rows' = rows

\* The package is kept here instead, in the catalogue as a local one.
Emergency(r) == rows' = rows \cup (IF Local(r) THEN {} ELSE {Own(r, "local")})

UploadFails(r) ==
    /\ pc[r] = "upload" /\ ToS3(r) /\ faults < MaxFaults /\ faults' = faults + 1
    /\ Emergency(r) /\ Goto(r, "fail") /\ refused' = refused \cup {r}
    /\ UNCHANGED <<run, files, remote, doomed, lock, api, finished, crashes>>

CatalogS3(r) ==
    /\ pc[r] = "catalogS3" /\ rows' = rows \cup {Own(r, "s3")} /\ Goto(r, "retain")
    /\ UNCHANGED <<run, files, remote, doomed, lock, api, past>>

-----------------------------------------------------------------------------
(* Retention. *)

\* Mutation: every package on disk counts.
ExcessVariant(catalogue) ==
    LET onDisk == {row \in catalogue : row.type # "s3"} IN
    {row \in onDisk : Cardinality({newer \in onDisk : newer.pkg > row.pkg}) >= Retention}

\* prune_retained_artifacts' query: local rows but the newest ones.
Excess(catalogue) ==
    LET local == {row \in catalogue : row.type = "local"} IN
    {row \in local : Cardinality({newer \in local : newer.pkg > row.pkg}) >= Retention}

Retain(r) ==
    /\ pc[r] = "retain" /\ doomed' = [doomed EXCEPT ![r] = Excess(rows)] /\ Goto(r, "prune")
    /\ UNCHANGED <<run, store, lock, api, past>>

\* The file of a row, then the row.
Prune(r) ==
    /\ pc[r] = "prune"
    /\ \/ \E row \in doomed[r] :
            /\ files' = files \ {row.pkg} /\ rows' = rows \ {row}
            /\ doomed' = [doomed EXCEPT ![r] = @ \ {row}] /\ UNCHANGED pc
       \/ doomed[r] = {} /\ Goto(r, "pruneS3") /\ UNCHANGED <<files, rows, doomed>>
    /\ UNCHANGED <<run, remote, lock, api, past>>

\* The row stays when a statement fails after the file has gone.
PruneFails(r) ==
    /\ pc[r] = "prune" /\ Fault /\ Goto(r, "fail")
    /\ \E row \in doomed[r] : files' = files \ {row.pkg}
    /\ doomed' = [doomed EXCEPT ![r] = {}]
    /\ UNCHANGED <<run, rows, remote, lock, api>>

\* prune_remote_artifacts lists the bucket, whoever filled it.
PruneS3(r) ==
    LET old == {p \in remote : Cardinality({q \in remote : q > p}) >= Retention} IN
    /\ pc[r] = "pruneS3" /\ Goto(r, "tidy")
    /\ IF ToS3(r) THEN /\ remote' = remote \ old
                       /\ rows' = {row \in rows : row.type # "s3" \/ row.pkg \notin old}
                  ELSE UNCHANGED <<remote, rows>>
    /\ UNCHANGED <<run, files, doomed, lock, api, past>>

PruneS3Fails(r) ==
    /\ pc[r] = "pruneS3" /\ ToS3(r) /\ Fault /\ Emergency(r) /\ Goto(r, "fail")
    /\ UNCHANGED <<run, files, remote, doomed, lock, api>>

-----------------------------------------------------------------------------
(* The end of a run. *)

\* Mutation: a guard that is dropped puts its session back into the pool as it is.
UnlockVariant(r) == lock' = lock

Unlock(r) == lock' = IF lock = r THEN Nil ELSE lock

\* A package that only S3 keeps leaves the disk.
Tidy(r) ==
    /\ pc[r] = "tidy" /\ Goto(r, "finish")
    /\ files' = IF Local(r) THEN files ELSE files \ {r}
    /\ UNCHANGED <<run, rows, remote, doomed, lock, api, past>>

Finish(r) ==
    /\ pc[r] = "finish" /\ SetStatus(r, "succeeded") /\ Goto(r, "done") /\ Unlock(r)
    /\ finished' = finished \cup {r}
    /\ UNCHANGED <<store, doomed, api, refused, crashes, faults>>

\* A statement, the dump or the archive fails.
StepFails(r) ==
    /\ pc[r] \in Packaging \ {"prune", "fail", "cleanup"} /\ Fault /\ Goto(r, "fail")
    /\ UNCHANGED <<run, store, doomed, lock, api>>

\* mark_backup_run_failed.
MarkFailed(r) ==
    /\ pc[r] = "fail" /\ SetStatus(r, "failed") /\ Goto(r, "cleanup")
    /\ UNCHANGED <<store, doomed, lock, api, past>>

\* Its error ends the task: the row goes on running and nothing is removed. It is a second
\* fault, for which the bound makes room.
MarkFails(r) ==
    /\ pc[r] = "fail" /\ faults <= MaxFaults /\ faults' = faults + 1
    /\ Goto(r, "done") /\ Unlock(r)
    /\ UNCHANGED <<run, store, doomed, api, refused, finished, crashes>>

\* Mutation: the package of a failed run is removed whether or not the catalogue has it.
CleanupVariant(r) ==
    /\ pc[r] = "cleanup" /\ Goto(r, "done") /\ Unlock(r)
    /\ files' = files \ {r}
    /\ UNCHANGED <<run, rows, remote, doomed, api, past>>

\* The package is removed unless this run has listed it.
Cleanup(r) ==
    /\ pc[r] = "cleanup" /\ Goto(r, "done") /\ Unlock(r)
    /\ files' = IF {Own(r, "local"), Own(r, "safety")} \cap rows # {} THEN files
                ELSE files \ {r}
    /\ UNCHANGED <<run, rows, remote, doomed, api, past>>

\* The session that holds the lock ends, and the task does not notice.
LoseLock == lock # Nil /\ lock' = Nil /\ Fault /\ UNCHANGED <<run, store, task, api>>

-----------------------------------------------------------------------------
(* Imports: upload_backup_artifact and delete_uploaded_artifact. *)

StartImport(r) ==
    /\ up /\ NextRun(r) /\ ~Recovering /\ Goto(r, "receive")
    /\ run' = [run EXCEPT ![r] = [trigger |-> "upload", status |-> "running",
                                  slot |-> slot, to |-> {}]]
    /\ UNCHANGED <<store, doomed, lock, api, past>>

\* Received under a hidden name and validated, it gets its own name.
Name(r) ==
    /\ pc[r] = "receive" /\ files' = files \cup {r} /\ Goto(r, "list")
    /\ UNCHANGED <<run, rows, remote, doomed, lock, api, past>>

List(r) ==
    /\ pc[r] = "list" /\ rows' = rows \cup {Own(r, "uploaded")} /\ Goto(r, "report")
    /\ UNCHANGED <<run, files, remote, doomed, lock, api, past>>

Report(r) ==
    /\ pc[r] = "report" /\ SetStatus(r, "succeeded") /\ Goto(r, "done")
    /\ finished' = finished \cup {r}
    /\ UNCHANGED <<store, doomed, lock, api, refused, crashes, faults>>

\* The files go, the row of a listed package stays, and the last update may fail as well.
ImportFails(r) ==
    /\ pc[r] \in Importing /\ Fault /\ Goto(r, "done")
    /\ files' = files \ {r}
    /\ SetStatus(r, "failed") \/ UNCHANGED run
    /\ UNCHANGED <<rows, remote, doomed, lock, api>>

\* The client goes away and the handler with it.
ImportCancelled(r) ==
    /\ pc[r] \in Importing /\ Fault /\ Goto(r, "done")
    /\ UNCHANGED <<run, store, doomed, lock, api>>

\* The files, then the run and with it the row. A row that a rescan added has no run.
DeleteImport(row) ==
    /\ up /\ row.type = "uploaded" /\ row.pkg \in files
    /\ files' = files \ {row.pkg}
    /\ IF row.run = Nil THEN UNCHANGED <<rows, run>>
       ELSE /\ rows' = {other \in rows : other.run # row.run}
            /\ run' = [run EXCEPT ![row.run] = NoRun]
    /\ UNCHANGED <<remote, task, lock, api, past>>

-----------------------------------------------------------------------------
(* Reconciliation and restarts. *)

Listed(p) == \E row \in rows : row.pkg = p /\ row.type # "s3"

\* Mutation: packages of unfinished runs are visited too.
VisitVariant(p) ==
    /\ up /\ found = Nil /\ p \in files /\ ~Listed(p) /\ found' = p
    /\ UNCHANGED <<run, store, task, lock, due, slot, up, past>>

\* reconcile_local_catalog, at start and for each overview, package by package: those of
\* unfinished runs, listed ones and invalid ones are passed over.
Visit(p) ==
    /\ up /\ found = Nil /\ p \in files /\ ~Listed(p) /\ run[p].status # "running" /\ found' = p
    /\ UNCHANGED <<run, store, task, lock, due, slot, up, past>>

\* What the directory and the manifest say of a package.
TypeOf(p) == CASE run[p].trigger = "upload" -> "uploaded"
               [] Safety(p) -> "safety"
               [] OTHER -> "local"

\* Mutation: a rescan takes every package for a local one.
InsertVariant ==
    /\ found # Nil /\ found' = Nil
    /\ rows' = rows \cup {[pkg |-> found, run |-> Nil, type |-> "local"]}
    /\ UNCHANGED <<run, files, remote, task, lock, due, slot, up, past>>

\* Once it is validated; the statement adds no second row.
Insert ==
    /\ found # Nil /\ found' = Nil
    /\ rows' = rows \cup (IF Listed(found) THEN {}
                          ELSE {[pkg |-> found, run |-> Nil, type |-> TypeOf(found)]})
    /\ UNCHANGED <<run, files, remote, task, lock, due, slot, up, past>>

\* A process takes its tasks and its sessions with it.
Kill(tasks) ==
    /\ crashes < MaxCrashes /\ crashes' = crashes + 1
    /\ pc' = [r \in Runs |-> IF r \in tasks THEN "done" ELSE pc[r]]
    /\ doomed' = [r \in Runs |-> IF r \in tasks THEN {} ELSE doomed[r]]
    /\ lock' = IF lock \in tasks THEN Nil ELSE lock
    /\ UNCHANGED <<run, store, slot, refused, finished, faults>>

CrashApi ==
    /\ up /\ up' = FALSE /\ due' = Nil /\ found' = Nil
    /\ Kill({r \in Runs : OfApi(r)})

CrashAgent ==
    /\ \E r \in Runs : Active(r) /\ Safety(r)
    /\ Kill({r \in Runs : Active(r) /\ Safety(r)}) /\ UNCHANGED <<found, due, up>>

\* Mutation: rows are left as they are.
BootVariant ==
    /\ ~up /\ up' = TRUE 
    /\ UNCHANGED <<run, store, task, lock, found, due, slot, past>>

\* reconcile_running_runs fails the rows of every process's tasks.
Boot ==
    /\ ~up /\ up' = TRUE
    /\ run' = [r \in Runs |-> IF run[r].status = "running" THEN [run[r] EXCEPT !.status = "failed"]
                              ELSE run[r]]
    /\ UNCHANGED <<store, task, lock, found, due, slot, past>>

\* The directory outlives the catalogue: another database starts without its rows.
LoseCatalog ==
    /\ ~up /\ \A r \in Runs : ~Active(r)
    /\ rows' = {} /\ run' = [r \in Runs |-> [run[r] EXCEPT !.status = Nil]]
    /\ UNCHANGED <<files, remote, task, lock, api, past>>

\* The schedule's next time comes.
NextSlot ==
    /\ slot < MaxSlot /\ slot' = slot + 1
    /\ UNCHANGED <<run, store, task, lock, found, due, up, past>>

-----------------------------------------------------------------------------
RunStep(r) ==
    \/ Package(r) \/ Catalog(r) \/ Upload(r) \/ CatalogS3(r) \/ Retain(r)
    \/ Prune(r) \/ PruneS3(r) \/ Tidy(r) \/ Finish(r) \/ MarkFailed(r) \/ Cleanup(r)
ImportStep(r) == Name(r) \/ List(r) \/ Report(r)
Schedule == Check \/ \E r \in Runs : StartScheduled(r)

Next ==
    \/ \E r \in Runs : StartManual(r) \/ StartSafety(r) \/ StartImport(r)
    \/ \E r \in Runs : RunStep(r) \/ ImportStep(r)
    \/ \E r \in Runs : UploadFails(r) \/ PruneFails(r) \/ PruneS3Fails(r) \/ StepFails(r)
                       \/ MarkFails(r) \/ ImportFails(r) \/ ImportCancelled(r)
    \/ \E row \in rows : DeleteImport(row)
    \/ Schedule
    \/ Insert \/ \E p \in Runs : Visit(p)
    \/ LoseLock \/ CrashApi \/ CrashAgent \/ Boot \/ LoseCatalog \/ NextSlot

Spec == Init /\ [][Next]_vars

\* Tasks go on, the scheduler ticks, and the process supervisor restarts the API.
FairSpec ==
    /\ Spec
    /\ \A r \in Runs : WF_vars(RunStep(r)) /\ WF_vars(ImportStep(r))
    /\ WF_vars(Schedule) /\ WF_vars(Boot)

-----------------------------------------------------------------------------
(* Properties *)

\* Types of the state.
TypeOK ==
    /\ run \in [Runs -> [trigger : Triggers \cup {Nil}, status : Statuses \cup {Nil},
                         slot : 0 .. MaxSlot, to : SUBSET {"local", "s3"}]]
    /\ rows \subseteq Row /\ files \subseteq Runs /\ remote \subseteq Runs
    /\ pc \in [Runs -> Packaging \cup Importing \cup {"idle", "done"}]
    /\ doomed \in [Runs -> SUBSET Row]
    /\ lock \in Runs \cup {Nil} /\ due \in 0 .. MaxSlot \cup {Nil}
    /\ found \in Runs \cup {Nil}
    /\ slot \in 0 .. MaxSlot /\ up \in BOOLEAN
    /\ refused \subseteq Runs /\ finished \subseteq Runs
    /\ crashes \in 0 .. MaxCrashes /\ faults \in 0 .. MaxFaults + 1

\* Local packages that the catalogue holds and that are newer.
NewerLocal(p) == {row \in rows : row.type = "local" /\ row.pkg > p}

\* A run reported as succeeded has its package where its settings want it, unless as many
\* newer ones of that place as the retention count keeps have pushed it out: restarts,
\* rescans and failing runs take nothing away (run_backup_inner_for_run).
SucceededIsStored ==
    \A r \in Runs : run[r].status = "succeeded" /\ run[r].trigger # "upload" =>
        /\ Local(r) => r \in files \/ (~Safety(r) /\ Cardinality(NewerLocal(r)) >= Retention)
        /\ ToS3(r)  => r \in remote \/ Cardinality({q \in remote : q > r}) >= Retention

\* A safety package or an import that was completed stays on disk, through retention,
\* rescans, restarts and the loss of the catalogue, until the owner deletes the import.
SafetyStands ==
    [][\A p \in finished : run[p].trigger \in {"pre_restore", "upload"} /\ p \in files =>
         \/ p \in files'
         \/ \E row \in rows : row.pkg = p /\ DeleteImport(row)]_vars

\* A run whose upload failed is not reported as succeeded, and its package is on disk and in
\* the catalogue unless retention or the loss of the catalogue came after, whatever the
\* destinations are (the emergency row and the check before the clean-up).
RefusedIsKept ==
    \A r \in refused :
        /\ run[r].status # "succeeded"
        /\ \/ run[r].status = Nil
           \/ r \in files /\ \E row \in rows : row.pkg = r /\ row.type = "local"
           \/ Cardinality(NewerLocal(r)) >= Retention

\* A due time gets one scheduled run at most, even when it fails: the check and the start are
\* two transactions (maybe_run_scheduled_backup).
SlotOnce ==
    \A r, q \in Runs :
        run[r].trigger = "scheduled" /\ run[q].trigger = "scheduled" /\ run[r].slot = run[q].slot
            => q = r

\* A rescan lists no package twice while the API has not been restarted under the agent.
ListedOnce ==
    crashes = 0 => \A one, other \in rows :
        one.pkg = other.pkg /\ one.type # "s3" /\ other.type # "s3" => one = other

\* What the rows of runs say, with the types.
RunsInv == TypeOK /\ SucceededIsStored /\ RefusedIsKept /\ SlotOnce /\ ListedOnce

\* A row of the API's says running only for a while, unless the update that ends it fails:
\* the start after a crash ends the rows that the crash left (reconcile_running_runs).
RunsEnd ==
    \A r \in Runs : [](faults = 0) =>
        (run[r].status = "running" /\ ~Safety(r) ~> run[r].status # "running")

\* A due time that stays the most recent one gets a run.
SlotServed == (slot = MaxSlot) ~> (Served(MaxSlot) \/ \A r \in Runs : pc[r] # "idle")

=============================================================================
