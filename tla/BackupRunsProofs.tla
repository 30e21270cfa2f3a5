------------------------- MODULE BackupRunsProofs -------------------------
(***************************************************************************)
(* Proofs about BackupRuns, for every number of runs, every retention      *)
(* count, every setting of the destinations and any number of crashes and  *)
(* faults: what the rows of runs say of the packages, and that a safety    *)
(* package or an import that was completed stays.                          *)
(*                                                                         *)
(* None of it is inductive.  That a succeeded run has its package follows  *)
(* the package from the step that makes it (StoredInv); that retention     *)
(* takes nothing from it needs that a package once pushed out by newer     *)
(* ones stays so, although retention removes some of those.                *)
(***************************************************************************)
EXTENDS BackupRuns, FiniteSetTheorems, TLAPS

-----------------------------------------------------------------------------
(* The inductive invariant *)

\* As many newer packages of the same place as retention keeps.
PushedOut(p)    == Cardinality(NewerLocal(p)) >= Retention
NewerRemote(p)  == {q \in remote : q > p}
PushedOutS3(p)  == Cardinality(NewerRemote(p)) >= Retention

\* A run's row, its step and the process that runs it.
StepOf(r) ==
    /\ pc[r] = "idle" => run[r].trigger = Nil /\ run[r].status = Nil
    /\ pc[r] \in Packaging => run[r].trigger \in Triggers \ {"upload"}
    /\ pc[r] \in Packaging \ {"cleanup"} /\ (crashes = 0 \/ ~Safety(r)) =>
         run[r].status = "running"
    /\ pc[r] \in {"receive", "list"} => run[r].trigger = "upload" /\ run[r].status = "running"
    /\ pc[r] = "report" => run[r].trigger \in {"upload", Nil}
    /\ run[r].trigger \in {"upload", Nil} => run[r].to = {}
    /\ run[r].status = "succeeded" => pc[r] = "done"
    /\ doomed[r] # {} => pc[r] = "prune"
    /\ OfApi(r) => up

StepsInv ==
    /\ \A r \in Runs : StepOf(r)
    /\ crashes = 0 => up
    /\ ~up => due = Nil
    /\ \A r \in files \cup refused \cup finished : pc[r] # "idle"
    /\ \A r \in finished : pc[r] = "done"

\* What a row says of the run that made its package, and what it says while it is in the
\* catalogue. A row that a run has read may have gone.
RowOf(row) ==
    /\ pc[row.pkg] # "idle"
    /\ row.type = "local" => run[row.pkg].trigger \notin {"pre_restore", "upload"}
ListedOf(row) ==
    /\ RowOf(row)
    /\ row.run # Nil => /\ row.pkg = row.run /\ run[row.run].trigger # Nil
                        /\ pc[row.run] \notin {"receive", "list"}
    /\ row.type = "uploaded" => run[row.pkg].trigger \in {"upload", Nil}

RowsInv ==
    /\ IsFiniteSet(rows)
    /\ \A row \in rows : ListedOf(row)
    /\ \A r \in Runs : \A row \in doomed[r] : RowOf(row)
    /\ found # Nil => pc[found] # "idle"

\* The due time that the scheduler has found is later than those of all scheduled runs.
DueInv ==
    /\ \A r \in Runs : run[r].slot <= slot
    /\ due # Nil =>
         /\ due <= slot
         /\ \A r \in Runs : run[r].trigger = "scheduled" => run[r].slot < due

\* The steps of a run after its upload, and a package that is on disk and listed.
Shipping == {"catalogS3", "retain", "prune", "pruneS3", "tidy", "finish"}
Kept(r)  == r \in files /\ Own(r, "local") \in rows

\* Where the package of a run is, from the step that makes it on.
StoredInv ==
    \A r \in Runs :
       /\ \/ pc[r] \in {"catalog", "upload"}
          \/ (pc[r] \in Shipping \/ run[r].status = "succeeded") /\ Local(r)
          => r \in files \/ (~Safety(r) /\ PushedOut(r))
       /\ (pc[r] \in Shipping \/ run[r].status = "succeeded") /\ ToS3(r) =>
            r \in remote \/ PushedOutS3(r)
       /\ pc[r] = "upload" /\ Local(r) /\ ~Safety(r) => Kept(r) \/ PushedOut(r)
       /\ \A row \in doomed[r] : row.type = "local" /\ PushedOut(row.pkg)

\* A run whose upload failed keeps its package until its task ends, and then as
\* RefusedIsKept says.
RefusedInv ==
    /\ \A r \in refused :
         /\ run[r].trigger \in {"manual", "scheduled"}
         /\ pc[r] \in {"fail", "cleanup", "done"}
         /\ pc[r] # "done" => Kept(r) \/ PushedOut(r)
    /\ RefusedIsKept

\* Before the first crash, a package is listed by its own run or, later, by a rescan.
OnDisk(p) == {row \in rows : row.pkg = p /\ row.type # "s3"}
CatalogInv ==
    crashes = 0 =>
      /\ \A r \in Runs : OnDisk(r) # {} =>
            /\ pc[r] \notin {"idle", "package", "catalog", "receive", "list"}
            /\ pc[r] \in Packaging \ {"fail", "cleanup"} => Local(r)
      /\ found # Nil => pc[found] \in {"cleanup", "report", "done"}
      /\ \A r \in Runs : \A one, other \in OnDisk(r) : one = other

IInv == /\ TypeOK /\ StepsInv /\ RowsInv /\ DueInv /\ SlotOnce
        /\ StoredInv /\ RefusedInv /\ CatalogInv

-----------------------------------------------------------------------------
(* Type correctness *)

\* No run has been started.
LEMMA TypeInit == Init => TypeOK
  BY BoundsAssumption DEF Init, TypeOK, NoRun

\* Nil is no run.
LEMMA NoRunIsNil == Nil \notin Runs
  BY NilAssumption, BoundsAssumption DEF Runs

\* What run holds.
Rows == [Runs -> [trigger : Triggers \cup {Nil}, status : Statuses \cup {Nil},
                  slot : 0 .. MaxSlot, to : SUBSET {"local", "s3"}]]

\* A status changes nothing else of its run and nothing of the others.
LEMMA StatusType ==
  ASSUME TypeOK, NEW r \in Runs, NEW s \in Statuses, SetStatus(r, s)
  PROVE  /\ run' \in Rows
         /\ \A q \in Runs :
              /\ run'[q].trigger = run[q].trigger /\ run'[q].slot = run[q].slot
              /\ run'[q].to = run[q].to
              /\ q # r \/ run[q].status # "running" => run'[q].status = run[q].status
              /\ q = r /\ run[q].status = "running" => run'[q].status = s
<1> USE DEF Rows
<1>1. CASE run[r].status = "running"
  BY <1>1 DEF TypeOK, SetStatus
<1>2. CASE run[r].status # "running"
  BY <1>2 DEF TypeOK, SetStatus
<1> QED  BY <1>1, <1>2

\* The start of a run keeps the types.
LEMMA BeginType ==
  ASSUME TypeOK, NEW r \in Runs, NEW t \in Triggers, Begin(r, t, slot)
  PROVE  /\ run' \in Rows
         /\ \A q \in Runs : q # r => run'[q] = run[q] /\ pc'[q] = pc[q]
         /\ run'[r].trigger = t /\ run'[r].status = "running" /\ run'[r].slot = slot
         /\ pc[r] = "idle" /\ pc'[r] = "package"
         /\ pc' \in [Runs -> Packaging \cup Importing \cup {"idle", "done"}]
         /\ lock' \in Runs
<1>1. PICK to \in Destinations :
        run' = [run EXCEPT ![r] = [trigger |-> t, status |-> "running", slot |-> slot, to |-> to]]
  BY DEF Begin
<1>2. to \in SUBSET {"local", "s3"} /\ "running" \in Statuses
  BY BoundsAssumption DEF Statuses
<1>3. run' \in Rows /\ run'[r] = [trigger |-> t, status |-> "running", slot |-> slot, to |-> to]
  BY <1>1, <1>2 DEF TypeOK, Rows
<1> QED  BY <1>1, <1>3 DEF TypeOK, Begin, Goto, Packaging, NextRun

\* Every action keeps the types.
LEMMA TypeStep ==
  ASSUME TypeOK, [Next]_vars
  PROVE  TypeOK'
<1> USE BoundsAssumption, NilAssumption DEF TypeOK, store, task, api, past,
        Goto, Fault, Own, Row, Packaging, Importing, Rows, vars
<1>1. ASSUME NEW r \in Runs, StartManual(r) PROVE TypeOK'
  BY <1>1, BeginType DEF StartManual, Begin, Triggers
<1>2. ASSUME NEW r \in Runs, StartSafety(r) PROVE TypeOK'
  BY <1>2, BeginType DEF StartSafety, Begin, Triggers
<1>3. ASSUME NEW r \in Runs, StartImport(r) PROVE TypeOK'
  BY <1>3 DEF StartImport, NextRun, Triggers, Statuses
<1>4. ASSUME NEW r \in Runs, StartScheduled(r) PROVE TypeOK'
  BY <1>4, BeginType DEF StartScheduled, Begin, Triggers
<1>5. ASSUME NEW r \in Runs, Package(r) PROVE TypeOK'
  BY <1>5 DEF Package
<1>6. ASSUME NEW r \in Runs, Catalog(r) PROVE TypeOK'
  BY <1>6 DEF Catalog
<1>7. ASSUME NEW r \in Runs, Upload(r) PROVE TypeOK'
  BY <1>7 DEF Upload
<1>8. ASSUME NEW r \in Runs, CatalogS3(r) PROVE TypeOK'
  BY <1>8 DEF CatalogS3
<1>9. ASSUME NEW r \in Runs, Retain(r) PROVE TypeOK'
  BY <1>9 DEF Retain, Excess
<1>10. ASSUME NEW r \in Runs, Prune(r) PROVE TypeOK'
  <2>1. rows' \subseteq rows /\ files' \subseteq files
    BY <1>10 DEF Prune
  <2>2. doomed' \in [Runs -> SUBSET Row]
    BY <1>10 DEF Prune
  <2>3. pc' \in [Runs -> Packaging \cup Importing \cup {"idle", "done"}]
    BY <1>10 DEF Prune
  <2> QED  BY <1>10, <2>1, <2>2, <2>3 DEF Prune
<1>11. ASSUME NEW r \in Runs, PruneS3(r) PROVE TypeOK'
  <2>1. rows' \subseteq rows /\ remote' \subseteq remote
    BY <1>11, ZenonT(30) DEF PruneS3
  <2> QED  BY <1>11, <2>1 DEF PruneS3
<1>12. ASSUME NEW r \in Runs, Tidy(r) PROVE TypeOK'
  BY <1>12 DEF Tidy
<1>13. ASSUME NEW r \in Runs, Finish(r) PROVE TypeOK'
  BY <1>13, StatusType DEF Finish, Unlock, Statuses
<1>14. ASSUME NEW r \in Runs, MarkFailed(r) PROVE TypeOK'
  BY <1>14, StatusType DEF MarkFailed, Statuses
<1>15. ASSUME NEW r \in Runs, Cleanup(r) PROVE TypeOK'
  BY <1>15 DEF Cleanup, Unlock
<1>16. ASSUME NEW r \in Runs, Name(r) PROVE TypeOK'
  BY <1>16 DEF Name
<1>17. ASSUME NEW r \in Runs, List(r) PROVE TypeOK'
  BY <1>17 DEF List
<1>18. ASSUME NEW r \in Runs, Report(r) PROVE TypeOK'
  BY <1>18, StatusType DEF Report, Statuses
<1>19. ASSUME NEW r \in Runs, UploadFails(r) PROVE TypeOK'
  BY <1>19 DEF UploadFails, Emergency
<1>20. ASSUME NEW r \in Runs, PruneFails(r) PROVE TypeOK'
  BY <1>20 DEF PruneFails
<1>21. ASSUME NEW r \in Runs, PruneS3Fails(r) PROVE TypeOK'
  BY <1>21 DEF PruneS3Fails, Emergency
<1>22. ASSUME NEW r \in Runs, StepFails(r) PROVE TypeOK'
  BY <1>22 DEF StepFails
<1>23. ASSUME NEW r \in Runs, MarkFails(r) PROVE TypeOK'
  BY <1>23 DEF MarkFails, Unlock
<1>24. ASSUME NEW r \in Runs, ImportFails(r) PROVE TypeOK'
  <2>1. run' \in Rows
    <3>1. "failed" \in Statuses
      BY DEF Statuses
    <3>2. SetStatus(r, "failed") \/ UNCHANGED run
      BY <1>24 DEF ImportFails
    <3> QED  BY <3>1, <3>2, StatusType DEF Rows
  <2>2. pc' \in [Runs -> Packaging \cup Importing \cup {"idle", "done"}]
    BY <1>24 DEF ImportFails
  <2> QED  BY <1>24, <2>1, <2>2 DEF ImportFails
<1>25. ASSUME NEW r \in Runs, ImportCancelled(r) PROVE TypeOK'
  BY <1>25 DEF ImportCancelled
<1>26. ASSUME NEW row \in rows, DeleteImport(row) PROVE TypeOK'
  BY <1>26 DEF DeleteImport, NoRun
<1>27. ASSUME NEW p \in Runs, Visit(p) PROVE TypeOK'
  BY <1>27 DEF Visit
<1>28. CASE Check
  BY <1>28 DEF Check
<1>29. CASE Insert
  BY <1>29 DEF Insert, TypeOf
<1>30. CASE LoseLock
  BY <1>30 DEF LoseLock
<1>31. CASE CrashApi
  <2> DEFINE Tasks == {r \in Runs : OfApi(r)}
  <2>1. Kill(Tasks) /\ up' = FALSE /\ due' = Nil /\ found' = Nil
    BY <1>31 DEF CrashApi
  <2> HIDE DEF Tasks
  <2>2. pc' \in [Runs -> Packaging \cup Importing \cup {"idle", "done"}]
    BY <2>1 DEF Kill
  <2>3. doomed' \in [Runs -> SUBSET Row]
    BY <2>1 DEF Kill
  <2>4. lock' \in Runs \cup {Nil} /\ crashes' \in 0 .. MaxCrashes
    BY <2>1 DEF Kill
  <2> QED  BY <2>1, <2>2, <2>3, <2>4 DEF Kill
<1>32. CASE CrashAgent
  BY <1>32 DEF CrashAgent, Kill
<1>33. CASE Boot
  BY <1>33 DEF Boot, Statuses
<1>34. CASE LoseCatalog
  <2>1. \A r \in Runs : [run[r] EXCEPT !.status = Nil] \in
          [trigger : Triggers \cup {Nil}, status : Statuses \cup {Nil},
           slot : 0 .. MaxSlot, to : SUBSET {"local", "s3"}]
    OBVIOUS
  <2> QED  BY <1>34, <2>1 DEF LoseCatalog
<1>35. CASE NextSlot
  BY <1>35 DEF NextSlot
<1>36. CASE UNCHANGED vars
  BY <1>36 DEF vars
<1> QED
  BY <1>1, <1>2, <1>3, <1>4, <1>5, <1>6, <1>7, <1>8, <1>9, <1>10, <1>11, <1>12, <1>13,
     <1>14, <1>15, <1>16, <1>17, <1>18, <1>19, <1>20, <1>21, <1>22, <1>23, <1>24, <1>25,
     <1>26, <1>27, <1>28, <1>29, <1>30, <1>31, <1>32, <1>33, <1>34, <1>35, <1>36
     DEF Next, RunStep, ImportStep, Schedule

-----------------------------------------------------------------------------
(* Steps, rows and due times *)

\* The statement that ends a task, or its failure, leaves the row with what belongs to the
\* step that follows.
LEMMA StatusStep ==
  ASSUME TypeOK, StepsInv, NEW r \in Runs, pc[r] \notin {"idle", "prune"},
         NEW s \in {"succeeded", "failed"}, NEW step \in {"done", "cleanup"},
         SetStatus(r, s), Goto(r, step), UNCHANGED <<doomed, up, crashes>>,
         step = "cleanup" => pc[r] = "fail" /\ s = "failed"
  PROVE  \A q \in Runs : StepOf(q)'
<1> SUFFICES ASSUME NEW q \in Runs PROVE StepOf(q)'
  OBVIOUS
<1>1. s \in Statuses /\ run[r].status \in Statuses \cup {Nil}
  BY DEF Statuses, TypeOK
<1>2. /\ run'[q].trigger = run[q].trigger /\ run'[q].to = run[q].to
      /\ q # r \/ run[q].status # "running" => run'[q].status = run[q].status
      /\ q = r /\ run[q].status = "running" => run'[q].status = s
  BY <1>1, StatusType
<1>3. pc'[q] = IF q = r THEN step ELSE pc[q]
  BY DEF Goto, TypeOK
<1>4. StepOf(q)
  BY DEF StepsInv
<1>5. CASE q # r
  <2>1. run'[q] = run[q]
    BY <1>5 DEF SetStatus, TypeOK
  <2> QED  BY <1>3, <1>4, <1>5, <2>1 DEF StepOf, OfApi, Active, Safety
<1>6. CASE q = r
  <2>1. doomed[q] = {}
    BY <1>4, <1>6 DEF StepOf
  <2> QED  BY <1>2, <1>3, <1>4, <1>6, <2>1 DEF StepOf, OfApi, Active, Safety, Packaging, Importing
<1> QED  BY <1>5, <1>6

\* Every step of a task goes with the run's row, and the process it runs in.
LEMMA StepOfStep ==
  ASSUME TypeOK, StepsInv, RowsInv, [Next]_vars
  PROVE  \A q \in Runs : StepOf(q)'
<1> USE BoundsAssumption, NilAssumption DEF TypeOK, StepsInv, store, task, api, past,
        Goto, Fault, vars
<1>1. ASSUME NEW r \in Runs, StartScheduled(r) PROVE \A q \in Runs : StepOf(q)'
  <2>1. CASE Begin(r, "scheduled", slot)
    <3>1. \A q \in Runs : q # r => run'[q] = run[q] /\ pc'[q] = pc[q]
      BY <2>1, BeginType DEF Triggers
    <3>2. UNCHANGED <<doomed, up, crashes>> /\ up
      BY <1>1, <2>1 DEF StartScheduled, Begin
    <3>3. ASSUME NEW q \in Runs, q # r PROVE StepOf(q)'
      BY <3>1, <3>2, <3>3 DEF StepOf, OfApi, Active, Safety
    <3>4. StepOf(r)'
      <4>1. /\ run'[r].trigger = "scheduled" /\ run'[r].status = "running"
            /\ pc[r] = "idle" /\ pc'[r] = "package"
        BY <2>1, BeginType DEF Triggers
      <4>2. StepOf(r) /\ "scheduled" # Nil /\ "running" # Nil
        BY DEF Triggers, Statuses
      <4> QED  BY <3>2, <4>1, <4>2 DEF StepOf, Packaging, Triggers
    <3> QED  BY <3>3, <3>4
  <2>2. CASE UNCHANGED <<run, store, task, lock, past>>
    BY <1>1, <2>2 DEF StartScheduled, StepOf, OfApi, Active, Safety
  <2> QED  BY <1>1, <2>1, <2>2 DEF StartScheduled
<1>2. ASSUME NEW r \in Runs, Finish(r) PROVE \A q \in Runs : StepOf(q)'
  <2>1. SetStatus(r, "succeeded") /\ Goto(r, "done") /\ UNCHANGED <<doomed, up, crashes>>
    BY <1>2 DEF Finish
  <2> QED  BY <1>2, <2>1, StatusStep DEF Finish
<1>3. ASSUME NEW r \in Runs, MarkFailed(r) PROVE \A q \in Runs : StepOf(q)'
  <2>1. SetStatus(r, "failed") /\ Goto(r, "cleanup") /\ UNCHANGED <<doomed, up, crashes>>
    BY <1>3 DEF MarkFailed
  <2> QED  BY <1>3, <2>1, StatusStep DEF MarkFailed
<1>4. ASSUME NEW r \in Runs, Report(r) PROVE \A q \in Runs : StepOf(q)'
  <2>1. SetStatus(r, "succeeded") /\ Goto(r, "done") /\ UNCHANGED <<doomed, up, crashes>>
    BY <1>4 DEF Report
  <2> QED  BY <1>4, <2>1, StatusStep DEF Report
<1>5. ASSUME NEW r \in Runs, ImportFails(r) PROVE \A q \in Runs : StepOf(q)'
  <2>1. Goto(r, "done") /\ UNCHANGED <<doomed, up, crashes>>
    BY <1>5 DEF ImportFails
  <2>2. CASE SetStatus(r, "failed")
    BY <1>5, <2>1, <2>2, StatusStep DEF ImportFails, Importing
  <2>3. CASE UNCHANGED run
    BY <1>5, <2>1, <2>3 DEF ImportFails, StepOf, OfApi, Active, Safety, Packaging, Importing
  <2> QED  BY <1>5, <2>2, <2>3 DEF ImportFails
<1>6. ASSUME NEW row \in rows, DeleteImport(row) PROVE \A q \in Runs : StepOf(q)'
  <2>1. UNCHANGED <<pc, doomed, up, crashes>> /\ up
    BY <1>6 DEF DeleteImport
  <2>2. ASSUME NEW q \in Runs, q # row.run \/ row.run = Nil PROVE StepOf(q)'
    <3>1. run'[q] = run[q]
      BY <1>6, <2>2 DEF DeleteImport
    <3> QED  BY <2>1, <3>1 DEF StepOf, OfApi, Active, Safety
  <2>3. ASSUME row.run \in Runs PROVE StepOf(row.run)'
    <3>1. /\ run[row.run].trigger = "upload"
          /\ pc[row.run] \notin {"receive", "list"}
      BY <1>6, <2>3, NoRunIsNil DEF DeleteImport, RowsInv, ListedOf
    <3>2. run'[row.run] = NoRun
      BY <1>6, <2>3, NoRunIsNil DEF DeleteImport
    <3>3. StepOf(row.run)
      BY <2>3
    <3> QED  BY <2>1, <2>3, <3>1, <3>2, <3>3 DEF StepOf, OfApi, Active, Safety, NoRun, Triggers,
               Statuses, Packaging
  <2> QED  BY <2>2, <2>3
<1>7. CASE Boot
  <2>1. UNCHANGED <<pc, doomed, crashes>> /\ up' /\ crashes # 0
    BY <1>7 DEF Boot
  <2>2. ASSUME NEW q \in Runs PROVE StepOf(q)'
    <3>1. /\ run'[q].trigger = run[q].trigger /\ run'[q].to = run[q].to
          /\ run[q].status # "running" => run'[q] = run[q]
          /\ run[q].status = "running" => run'[q].status = "failed"
      <4>1. run'[q] = IF run[q].status = "running" THEN [run[q] EXCEPT !.status = "failed"]
                      ELSE run[q]
        BY <1>7 DEF Boot
      <4>2. run[q] \in [trigger : Triggers \cup {Nil}, status : Statuses \cup {Nil},
                        slot : 0 .. MaxSlot, to : SUBSET {"local", "s3"}]
        OBVIOUS
      <4> QED  BY <4>1, <4>2
    <3>2. StepOf(q) /\ ~OfApi(q)
      BY <1>7 DEF Boot, StepOf
    <3>3. "running" # Nil
      BY DEF Statuses
    <3> QED  BY <2>1, <3>1, <3>2, <3>3 DEF StepOf, OfApi, Active, Safety
  <2> QED  BY <2>2
<1>8. CASE LoseCatalog
  <2>1. UNCHANGED <<pc, doomed, up, crashes>> /\ \A q \in Runs : ~Active(q)
    BY <1>8 DEF LoseCatalog
  <2>2. ASSUME NEW q \in Runs PROVE StepOf(q)'
    <3>1. run'[q] = [run[q] EXCEPT !.status = Nil]
      BY <1>8 DEF LoseCatalog
    <3>2. run[q] \in [trigger : Triggers \cup {Nil}, status : Statuses \cup {Nil},
                      slot : 0 .. MaxSlot, to : SUBSET {"local", "s3"}]
      OBVIOUS
    <3>3. /\ run'[q].trigger = run[q].trigger /\ run'[q].to = run[q].to
          /\ run'[q].status = Nil
      BY <3>1, <3>2
    <3>4. StepOf(q) /\ ~Active(q) /\ "succeeded" # Nil
      BY <2>1 DEF Statuses
    <3> QED  BY <2>1, <3>3, <3>4 DEF StepOf, OfApi, Active, Safety
  <2> QED  BY <2>2
<1> USE DEF StepOf, OfApi, Active, Safety, Packaging, Importing, Triggers, Statuses, NoRun
<1>9. ASSUME NEW r \in Runs, StartManual(r) PROVE \A q \in Runs : StepOf(q)'
  BY <1>9 DEF StartManual, Begin, NextRun
<1>10. ASSUME NEW r \in Runs, StartSafety(r) PROVE \A q \in Runs : StepOf(q)'
  BY <1>10 DEF StartSafety, Begin, NextRun
<1>11. ASSUME NEW r \in Runs, StartImport(r) PROVE \A q \in Runs : StepOf(q)'
  BY <1>11 DEF StartImport, NextRun
<1>12. ASSUME NEW r \in Runs, Package(r) PROVE \A q \in Runs : StepOf(q)'
  BY <1>12 DEF Package
<1>13. ASSUME NEW r \in Runs, Catalog(r) PROVE \A q \in Runs : StepOf(q)'
  BY <1>13 DEF Catalog
<1>14. ASSUME NEW r \in Runs, Upload(r) PROVE \A q \in Runs : StepOf(q)'
  BY <1>14 DEF Upload
<1>15. ASSUME NEW r \in Runs, CatalogS3(r) PROVE \A q \in Runs : StepOf(q)'
  BY <1>15 DEF CatalogS3
<1>16. ASSUME NEW r \in Runs, Retain(r) PROVE \A q \in Runs : StepOf(q)'
  BY <1>16 DEF Retain
<1>17. ASSUME NEW r \in Runs, Prune(r) PROVE \A q \in Runs : StepOf(q)'
  BY <1>17 DEF Prune
<1>18. ASSUME NEW r \in Runs, PruneS3(r) PROVE \A q \in Runs : StepOf(q)'
  BY <1>18 DEF PruneS3
<1>19. ASSUME NEW r \in Runs, Tidy(r) PROVE \A q \in Runs : StepOf(q)'
  BY <1>19 DEF Tidy
<1>20. ASSUME NEW r \in Runs, Cleanup(r) PROVE \A q \in Runs : StepOf(q)'
  BY <1>20 DEF Cleanup
<1>21. ASSUME NEW r \in Runs, Name(r) PROVE \A q \in Runs : StepOf(q)'
  BY <1>21 DEF Name
<1>22. ASSUME NEW r \in Runs, List(r) PROVE \A q \in Runs : StepOf(q)'
  BY <1>22 DEF List
<1>23. ASSUME NEW r \in Runs, UploadFails(r) PROVE \A q \in Runs : StepOf(q)'
  BY <1>23 DEF UploadFails
<1>24. ASSUME NEW r \in Runs, PruneFails(r) PROVE \A q \in Runs : StepOf(q)'
  BY <1>24 DEF PruneFails
<1>25. ASSUME NEW r \in Runs, PruneS3Fails(r) PROVE \A q \in Runs : StepOf(q)'
  BY <1>25 DEF PruneS3Fails
<1>26. ASSUME NEW r \in Runs, StepFails(r) PROVE \A q \in Runs : StepOf(q)'
  BY <1>26 DEF StepFails
<1>27. ASSUME NEW r \in Runs, MarkFails(r) PROVE \A q \in Runs : StepOf(q)'
  BY <1>27 DEF MarkFails
<1>28. ASSUME NEW r \in Runs, ImportCancelled(r) PROVE \A q \in Runs : StepOf(q)'
  BY <1>28 DEF ImportCancelled
<1>29. ASSUME NEW p \in Runs, Visit(p) PROVE \A q \in Runs : StepOf(q)'
  BY <1>29 DEF Visit
<1>30. CASE Check
  BY <1>30 DEF Check
<1>31. CASE Insert
  BY <1>31 DEF Insert
<1>32. CASE LoseLock
  BY <1>32 DEF LoseLock
<1>33. CASE CrashApi
  BY <1>33 DEF CrashApi, Kill
<1>34. CASE CrashAgent
  BY <1>34 DEF CrashAgent, Kill
<1>35. CASE NextSlot
  BY <1>35 DEF NextSlot
<1>36. CASE UNCHANGED vars
  BY <1>36 DEF vars
<1> QED
  BY <1>1, <1>2, <1>3, <1>4, <1>5, <1>6, <1>7, <1>8, <1>9, <1>10, <1>11, <1>12, <1>13,
     <1>14, <1>15, <1>16, <1>17, <1>18, <1>19, <1>20, <1>21, <1>22, <1>23, <1>24, <1>25,
     <1>26, <1>27, <1>28, <1>29, <1>30, <1>31, <1>32, <1>33, <1>34, <1>35, <1>36
     DEF Next, RunStep, ImportStep, Schedule

\* The scheduler's find and the runs of which something is recorded.
LEMMA StepsStep ==
  ASSUME TypeOK, StepsInv, RowsInv, [Next]_vars
  PROVE  StepsInv'
<1>0. \A q \in Runs : StepOf(q)'
  BY StepOfStep
<1> USE BoundsAssumption, NilAssumption DEF TypeOK, StepsInv, store, task, api, past,
        Goto, Fault, vars, Packaging, Importing
<1>1. ASSUME NEW r \in Runs, StartManual(r) PROVE StepsInv'
  BY <1>1, <1>0 DEF StartManual, Begin, NextRun
<1>2. ASSUME NEW r \in Runs, StartSafety(r) PROVE StepsInv'
  BY <1>2, <1>0 DEF StartSafety, Begin, NextRun
<1>3. ASSUME NEW r \in Runs, StartImport(r) PROVE StepsInv'
  BY <1>3, <1>0 DEF StartImport, NextRun
<1>4. ASSUME NEW r \in Runs, StartScheduled(r) PROVE StepsInv'
  BY <1>4, <1>0 DEF StartScheduled, Begin, NextRun
<1>5. ASSUME NEW r \in Runs, Package(r) PROVE StepsInv'
  BY <1>5, <1>0 DEF Package
<1>6. ASSUME NEW r \in Runs, Catalog(r) PROVE StepsInv'
  BY <1>6, <1>0 DEF Catalog
<1>7. ASSUME NEW r \in Runs, Upload(r) PROVE StepsInv'
  BY <1>7, <1>0 DEF Upload
<1>8. ASSUME NEW r \in Runs, CatalogS3(r) PROVE StepsInv'
  BY <1>8, <1>0 DEF CatalogS3
<1>9. ASSUME NEW r \in Runs, Retain(r) PROVE StepsInv'
  BY <1>9, <1>0 DEF Retain
<1>10. ASSUME NEW r \in Runs, Prune(r) PROVE StepsInv'
  BY <1>10, <1>0 DEF Prune
<1>11. ASSUME NEW r \in Runs, PruneS3(r) PROVE StepsInv'
  BY <1>11, <1>0 DEF PruneS3
<1>12. ASSUME NEW r \in Runs, Tidy(r) PROVE StepsInv'
  BY <1>12, <1>0 DEF Tidy
<1>13. ASSUME NEW r \in Runs, Finish(r) PROVE StepsInv'
  BY <1>13, <1>0 DEF Finish
<1>14. ASSUME NEW r \in Runs, MarkFailed(r) PROVE StepsInv'
  BY <1>14, <1>0 DEF MarkFailed
<1>15. ASSUME NEW r \in Runs, Cleanup(r) PROVE StepsInv'
  BY <1>15, <1>0 DEF Cleanup
<1>16. ASSUME NEW r \in Runs, Name(r) PROVE StepsInv'
  BY <1>16, <1>0 DEF Name
<1>17. ASSUME NEW r \in Runs, List(r) PROVE StepsInv'
  BY <1>17, <1>0 DEF List
<1>18. ASSUME NEW r \in Runs, Report(r) PROVE StepsInv'
  BY <1>18, <1>0 DEF Report
<1>19. ASSUME NEW r \in Runs, UploadFails(r) PROVE StepsInv'
  BY <1>19, <1>0 DEF UploadFails
<1>20. ASSUME NEW r \in Runs, PruneFails(r) PROVE StepsInv'
  BY <1>20, <1>0 DEF PruneFails
<1>21. ASSUME NEW r \in Runs, PruneS3Fails(r) PROVE StepsInv'
  BY <1>21, <1>0 DEF PruneS3Fails
<1>22. ASSUME NEW r \in Runs, StepFails(r) PROVE StepsInv'
  BY <1>22, <1>0 DEF StepFails
<1>23. ASSUME NEW r \in Runs, MarkFails(r) PROVE StepsInv'
  BY <1>23, <1>0 DEF MarkFails
<1>24. ASSUME NEW r \in Runs, ImportFails(r) PROVE StepsInv'
  BY <1>24, <1>0 DEF ImportFails
<1>25. ASSUME NEW r \in Runs, ImportCancelled(r) PROVE StepsInv'
  BY <1>25, <1>0 DEF ImportCancelled
<1>26. ASSUME NEW row \in rows, DeleteImport(row) PROVE StepsInv'
  BY <1>26, <1>0 DEF DeleteImport
<1>27. ASSUME NEW p \in Runs, Visit(p) PROVE StepsInv'
  BY <1>27, <1>0 DEF Visit
<1>28. CASE Check
  BY <1>28, <1>0 DEF Check
<1>29. CASE Insert
  BY <1>29, <1>0 DEF Insert
<1>30. CASE LoseLock
  BY <1>30, <1>0 DEF LoseLock
<1>31. CASE CrashApi
  BY <1>31, <1>0 DEF CrashApi, Kill
<1>32. CASE CrashAgent
  BY <1>32, <1>0 DEF CrashAgent, Kill, Active
<1>33. CASE Boot
  BY <1>33, <1>0 DEF Boot
<1>34. CASE LoseCatalog
  BY <1>34, <1>0 DEF LoseCatalog
<1>35. CASE NextSlot
  BY <1>35, <1>0 DEF NextSlot
<1>36. CASE UNCHANGED vars
  BY <1>36, <1>0 DEF vars
<1> QED
  BY <1>1, <1>2, <1>3, <1>4, <1>5, <1>6, <1>7, <1>8, <1>9, <1>10, <1>11, <1>12, <1>13,
     <1>14, <1>15, <1>16, <1>17, <1>18, <1>19, <1>20, <1>21, <1>22, <1>23, <1>24, <1>25,
     <1>26, <1>27, <1>28, <1>29, <1>30, <1>31, <1>32, <1>33, <1>34, <1>35, <1>36
     DEF Next, RunStep, ImportStep, Schedule

\* A run that was started stays so, with its trigger and its destinations, until its import is
\* deleted and the rows of its package with it; an import does not go back.
LEMMA RunStays ==
  ASSUME TypeOK, StepsInv, RowsInv, [Next]_vars, NEW q \in Runs, pc[q] # "idle"
  PROVE  /\ pc'[q] # "idle"
         /\ pc[q] \notin {"receive", "list"} => pc'[q] \notin {"receive", "list"}
         /\ \/ run'[q].trigger = run[q].trigger /\ run'[q].to = run[q].to
            \/ /\ run[q].trigger = "upload" /\ run'[q] = NoRun
               /\ \A row \in rows' : row.run # q
<1> DEFINE Stays ==
         /\ pc'[q] # "idle"
         /\ pc[q] \notin {"receive", "list"} => pc'[q] \notin {"receive", "list"}
         /\ \/ run'[q].trigger = run[q].trigger /\ run'[q].to = run[q].to
            \/ /\ run[q].trigger = "upload" /\ run'[q] = NoRun
               /\ \A row \in rows' : row.run # q
<1> USE DEF TypeOK, store, task, api, past, Goto, vars
<1>1. ASSUME NEW r \in Runs, StartManual(r) PROVE Stays
  BY <1>1 DEF StartManual, Begin, NextRun
<1>2. ASSUME NEW r \in Runs, StartSafety(r) PROVE Stays
  BY <1>2 DEF StartSafety, Begin, NextRun
<1>3. ASSUME NEW r \in Runs, StartImport(r) PROVE Stays
  BY <1>3 DEF StartImport, NextRun
<1>4. ASSUME NEW r \in Runs, StartScheduled(r) PROVE Stays
  BY <1>4 DEF StartScheduled, Begin, NextRun
<1>5. ASSUME NEW r \in Runs, Package(r) PROVE Stays
  BY <1>5 DEF Package
<1>6. ASSUME NEW r \in Runs, Catalog(r) PROVE Stays
  BY <1>6 DEF Catalog
<1>7. ASSUME NEW r \in Runs, Upload(r) PROVE Stays
  BY <1>7 DEF Upload
<1>8. ASSUME NEW r \in Runs, CatalogS3(r) PROVE Stays
  BY <1>8 DEF CatalogS3
<1>9. ASSUME NEW r \in Runs, Retain(r) PROVE Stays
  BY <1>9 DEF Retain
<1>10. ASSUME NEW r \in Runs, Prune(r) PROVE Stays
  BY <1>10 DEF Prune
<1>11. ASSUME NEW r \in Runs, PruneS3(r) PROVE Stays
  BY <1>11 DEF PruneS3
<1>12. ASSUME NEW r \in Runs, Tidy(r) PROVE Stays
  BY <1>12 DEF Tidy
<1>13. ASSUME NEW r \in Runs, Finish(r) PROVE Stays
  <2>1. \E s \in Statuses : SetStatus(r, s) \/ UNCHANGED run
    BY <1>13 DEF Finish, Statuses
  <2>2. run'[q].trigger = run[q].trigger /\ run'[q].to = run[q].to
    BY <2>1, StatusType
  <2> QED  BY <1>13, <2>2 DEF Finish
<1>14. ASSUME NEW r \in Runs, MarkFailed(r) PROVE Stays
  <2>1. \E s \in Statuses : SetStatus(r, s) \/ UNCHANGED run
    BY <1>14 DEF MarkFailed, Statuses
  <2>2. run'[q].trigger = run[q].trigger /\ run'[q].to = run[q].to
    BY <2>1, StatusType
  <2> QED  BY <1>14, <2>2 DEF MarkFailed
<1>15. ASSUME NEW r \in Runs, Cleanup(r) PROVE Stays
  BY <1>15 DEF Cleanup
<1>16. ASSUME NEW r \in Runs, Name(r) PROVE Stays
  BY <1>16 DEF Name
<1>17. ASSUME NEW r \in Runs, List(r) PROVE Stays
  BY <1>17 DEF List
<1>18. ASSUME NEW r \in Runs, Report(r) PROVE Stays
  <2>1. \E s \in Statuses : SetStatus(r, s) \/ UNCHANGED run
    BY <1>18 DEF Report, Statuses
  <2>2. run'[q].trigger = run[q].trigger /\ run'[q].to = run[q].to
    BY <2>1, StatusType
  <2> QED  BY <1>18, <2>2 DEF Report
<1>19. ASSUME NEW r \in Runs, UploadFails(r) PROVE Stays
  BY <1>19 DEF UploadFails
<1>20. ASSUME NEW r \in Runs, PruneFails(r) PROVE Stays
  BY <1>20 DEF PruneFails
<1>21. ASSUME NEW r \in Runs, PruneS3Fails(r) PROVE Stays
  BY <1>21 DEF PruneS3Fails
<1>22. ASSUME NEW r \in Runs, StepFails(r) PROVE Stays
  BY <1>22 DEF StepFails
<1>23. ASSUME NEW r \in Runs, MarkFails(r) PROVE Stays
  BY <1>23 DEF MarkFails
<1>24. ASSUME NEW r \in Runs, ImportFails(r) PROVE Stays
  <2>1. \E s \in Statuses : SetStatus(r, s) \/ UNCHANGED run
    BY <1>24 DEF ImportFails, Statuses
  <2>2. run'[q].trigger = run[q].trigger /\ run'[q].to = run[q].to
    BY <2>1, StatusType
  <2> QED  BY <1>24, <2>2 DEF ImportFails
<1>25. ASSUME NEW r \in Runs, ImportCancelled(r) PROVE Stays
  BY <1>25 DEF ImportCancelled
<1>26. ASSUME NEW row \in rows, DeleteImport(row) PROVE Stays
  <2>1. UNCHANGED pc
    BY <1>26 DEF DeleteImport
  <2>2. CASE row.run = q
    <3>1. run[q].trigger = "upload"
      BY <1>26, <2>2, NoRunIsNil DEF DeleteImport, RowsInv, ListedOf
    <3>2. run'[q] = NoRun /\ rows' = {other \in rows : other.run # row.run}
      BY <1>26, <2>2, NoRunIsNil DEF DeleteImport
    <3> QED  BY <2>1, <2>2, <3>1, <3>2
  <2>3. CASE row.run # q
    BY <1>26, <2>1, <2>3 DEF DeleteImport
  <2> QED  BY <2>2, <2>3
<1>27. ASSUME NEW p \in Runs, Visit(p) PROVE Stays
  BY <1>27 DEF Visit
<1>28. CASE Check
  BY <1>28 DEF Check
<1>29. CASE Insert
  BY <1>29 DEF Insert
<1>30. CASE LoseLock
  BY <1>30 DEF LoseLock
<1>31. CASE CrashApi
  BY <1>31 DEF CrashApi, Kill
<1>32. CASE CrashAgent
  BY <1>32 DEF CrashAgent, Kill
<1>33. CASE Boot
  BY <1>33 DEF Boot
<1>34. CASE LoseCatalog
  BY <1>34 DEF LoseCatalog
<1>35. CASE NextSlot
  BY <1>35 DEF NextSlot
<1>36. CASE UNCHANGED vars
  BY <1>36 DEF vars
<1> QED
  BY <1>1, <1>2, <1>3, <1>4, <1>5, <1>6, <1>7, <1>8, <1>9, <1>10, <1>11, <1>12, <1>13,
     <1>14, <1>15, <1>16, <1>17, <1>18, <1>19, <1>20, <1>21, <1>22, <1>23, <1>24, <1>25,
     <1>26, <1>27, <1>28, <1>29, <1>30, <1>31, <1>32, <1>33, <1>34, <1>35, <1>36
     DEF Next, RunStep, ImportStep, Schedule

\* A row comes into the catalogue with what the rows of its package are to say.
LEMMA RowsArrive ==
  ASSUME TypeOK, StepsInv, RowsInv, [Next]_vars, NEW row \in rows', row \notin rows
  PROVE  ListedOf(row)' /\ \E x \in Row : rows' = rows \cup {x}
<1> USE DEF TypeOK, Row, Own, Goto, ListedOf, RowOf
<1>1. ASSUME NEW r \in Runs, Catalog(r) \/ CatalogS3(r) \/ UploadFails(r) \/ PruneS3Fails(r)
      PROVE  ListedOf(row)' /\ \E x \in Row : rows' = rows \cup {x}
  <2>1. /\ run' = run /\ pc' \in [Runs -> {"upload", "retain", "fail"} \cup {pc[q] : q \in Runs}]
        /\ pc'[r] \in {"upload", "retain", "fail"} /\ pc[r] \in Packaging
    BY <1>1 DEF Catalog, CatalogS3, UploadFails, PruneS3Fails, Packaging
  <2>2. run[r].trigger \in Triggers \ {"upload"}
    BY <2>1 DEF StepsInv, StepOf
  <2>3. PICK type \in {"local", "safety", "s3"} :
          rows' = rows \cup {Own(r, type)} /\ (type = "local" => ~Safety(r))
    BY <1>1 DEF Catalog, CatalogS3, UploadFails, PruneS3Fails, Emergency, Local
  <2>4. row = [pkg |-> r, run |-> r, type |-> type]
    BY <2>3
  <2>5. Nil \notin Triggers
    BY NilAssumption
  <2> QED  BY <2>1, <2>2, <2>3, <2>4, <2>5 DEF Safety
<1>2. ASSUME NEW r \in Runs, List(r)
      PROVE  ListedOf(row)' /\ \E x \in Row : rows' = rows \cup {x}
  <2>1. run' = run /\ pc'[r] = "report" /\ pc[r] = "list"
    BY <1>2 DEF List
  <2>2. run[r].trigger = "upload" /\ "upload" # Nil
    BY <2>1, NilAssumption DEF StepsInv, StepOf, Triggers
  <2>3. /\ rows' = rows \cup {Own(r, "uploaded")}
        /\ row = [pkg |-> r, run |-> r, type |-> "uploaded"]
    BY <1>2 DEF List
  <2> QED  BY <2>1, <2>2, <2>3
<1>3. ASSUME Insert
      PROVE  ListedOf(row)' /\ \E x \in Row : rows' = rows \cup {x}
  <2>1. run' = run /\ pc' = pc /\ found \in Runs /\ pc[found] # "idle"
    BY <1>3 DEF Insert, task, RowsInv
  <2>2. PICK type : type = TypeOf(found)
    OBVIOUS
  <2>3. rows' = rows \cup {[pkg |-> found, run |-> Nil, type |-> type]}
    BY <1>3, <2>2 DEF Insert
  <2>4. row = [pkg |-> found, run |-> Nil, type |-> type]
    BY <2>3
  <2>5. /\ type \in {"uploaded", "safety", "local"}
        /\ type = "local" => run[found].trigger \notin {"pre_restore", "upload"}
        /\ type = "uploaded" => run[found].trigger = "upload"
    BY <2>2 DEF TypeOf, Safety
  <2> QED  BY <2>1, <2>3, <2>4, <2>5
<1> HIDE DEF TypeOK, Row, Own, Goto, ListedOf, RowOf
<1>4. CASE rows' \subseteq rows
  BY <1>4
<1>5. ASSUME NEW r \in Runs, RunStep(r) \/ ImportStep(r), ~Catalog(r), ~CatalogS3(r), ~List(r)
      PROVE  rows' \subseteq rows
  BY <1>5 DEF RunStep, ImportStep, Package, Upload, Retain, Prune, PruneS3, Tidy, Finish,
     MarkFailed, Cleanup, Name, Report, store
<1>6. ASSUME NEW r \in Runs,
             \/ StartManual(r) \/ StartSafety(r) \/ StartImport(r) \/ StartScheduled(r)
             \/ PruneFails(r) \/ StepFails(r) \/ MarkFails(r) \/ ImportFails(r)
             \/ ImportCancelled(r)
      PROVE  rows' \subseteq rows
  BY <1>6 DEF StartManual, StartSafety, StartImport, StartScheduled, Begin, PruneFails,
     StepFails, MarkFails, ImportFails, ImportCancelled, store
<1>7. ASSUME NEW x \in rows, DeleteImport(x) PROVE rows' \subseteq rows
  BY <1>7 DEF DeleteImport
<1>8. ASSUME \/ Check \/ (\E p \in Runs : Visit(p)) \/ LoseLock \/ CrashApi \/ CrashAgent
             \/ Boot \/ LoseCatalog \/ NextSlot \/ UNCHANGED vars
      PROVE  rows' \subseteq rows
  BY <1>8 DEF Check, Visit, LoseLock, CrashApi, CrashAgent, Kill, Boot, LoseCatalog, NextSlot,
     vars, store
<1> QED
  BY <1>1, <1>2, <1>3, <1>4, <1>5, <1>6, <1>7, <1>8 DEF Next, RunStep, ImportStep, Schedule

\* The rows that a run reads are in the catalogue.
LEMMA DoomedRead ==
  ASSUME TypeOK, [Next]_vars, NEW r \in Runs
  PROVE  doomed'[r] \subseteq doomed[r] \/ (Retain(r) /\ doomed'[r] = Excess(rows))
<1> DEFINE Read == doomed'[r] \subseteq doomed[r] \/ (Retain(r) /\ doomed'[r] = Excess(rows))
<1> USE DEF TypeOK
<1>1. ASSUME NEW q \in Runs, RunStep(q) \/ ImportStep(q) PROVE Read
  BY <1>1 DEF RunStep, ImportStep, Package, Catalog, Upload, CatalogS3, Retain, Prune, PruneS3,
     Tidy, Finish, MarkFailed, Cleanup, Name, List, Report
<1>2. ASSUME NEW q \in Runs,
             \/ StartManual(q) \/ StartSafety(q) \/ StartImport(q) \/ StartScheduled(q)
             \/ UploadFails(q) \/ PruneFails(q) \/ PruneS3Fails(q) \/ StepFails(q)
             \/ MarkFails(q) \/ ImportFails(q) \/ ImportCancelled(q)
      PROVE  Read
  BY <1>2 DEF StartManual, StartSafety, StartImport, StartScheduled, Begin, UploadFails,
     PruneFails, PruneS3Fails, StepFails, MarkFails, ImportFails, ImportCancelled, task
<1>3. ASSUME NEW row \in rows, DeleteImport(row) PROVE Read
  BY <1>3 DEF DeleteImport, task
<1>4. ASSUME \/ Check \/ Insert \/ (\E p \in Runs : Visit(p)) \/ LoseLock \/ CrashApi
             \/ CrashAgent \/ Boot \/ LoseCatalog \/ NextSlot \/ UNCHANGED vars
      PROVE  Read
  BY <1>4 DEF Check, Insert, Visit, LoseLock, CrashApi, CrashAgent, Kill, Boot, LoseCatalog,
     NextSlot, task, vars
<1> QED  BY <1>1, <1>2, <1>3, <1>4 DEF Next, Schedule

\* Only a rescan's visit finds a package.
LEMMA FoundArrives ==
  ASSUME [Next]_vars, found' # found
  PROVE  found' = Nil \/ \E p \in Runs : Visit(p)
<1>1. ASSUME NEW r \in Runs, RunStep(r) \/ ImportStep(r) PROVE FALSE
  BY <1>1 DEF RunStep, ImportStep, Package, Catalog, Upload, CatalogS3, Retain, Prune, PruneS3,
     Tidy, Finish, MarkFailed, Cleanup, Name, List, Report, api
<1>2. ASSUME NEW r \in Runs,
             \/ StartManual(r) \/ StartSafety(r) \/ StartImport(r) \/ StartScheduled(r)
             \/ UploadFails(r) \/ PruneFails(r) \/ PruneS3Fails(r) \/ StepFails(r)
             \/ MarkFails(r) \/ ImportFails(r) \/ ImportCancelled(r)
      PROVE  FALSE
  BY <1>2 DEF StartManual, StartSafety, StartImport, StartScheduled, UploadFails, PruneFails,
     PruneS3Fails, StepFails, MarkFails, ImportFails, ImportCancelled, api
<1>3. ASSUME NEW row \in rows, DeleteImport(row) PROVE FALSE
  BY <1>3 DEF DeleteImport, api
<1>4. ASSUME Insert \/ CrashApi PROVE found' = Nil
  BY <1>4 DEF Insert, CrashApi
<1>5. ASSUME Check \/ LoseLock \/ CrashAgent \/ Boot \/ LoseCatalog \/ NextSlot \/ UNCHANGED vars
      PROVE  FALSE
  BY <1>5 DEF Check, LoseLock, CrashAgent, Boot, LoseCatalog, NextSlot, vars, api
<1> QED  BY <1>1, <1>2, <1>3, <1>4, <1>5 DEF Next, Schedule

\* What rows say of runs stays true, and what a rescan has found was made by a run.
LEMMA RowsStep ==
  ASSUME TypeOK, StepsInv, RowsInv, TypeOK', [Next]_vars
  PROVE  RowsInv'
<1>1. ASSUME NEW row \in Row, RowOf(row) PROVE RowOf(row)'
  <2>1. row.pkg \in Runs /\ pc[row.pkg] # "idle"
    BY <1>1 DEF Row, RowOf
  <2>2. NoRun.trigger \notin {"pre_restore", "upload"}
    BY NilAssumption DEF NoRun, Triggers
  <2> QED  BY <1>1, <2>1, <2>2, RunStays DEF RowOf
<1>2. ASSUME NEW row \in rows', row \in rows PROVE ListedOf(row)'
  <2>1. row \in Row /\ ListedOf(row) /\ RowOf(row)'
    BY <1>1, <1>2 DEF RowsInv, ListedOf, TypeOK
  <2>2. ASSUME row.run # Nil
        PROVE  /\ row.pkg = row.run /\ run'[row.run].trigger # Nil
               /\ pc'[row.run] \notin {"receive", "list"}
    BY <1>2, <2>1, <2>2, RunStays DEF ListedOf, RowOf, Row
  <2>3. ASSUME row.type = "uploaded" PROVE run'[row.pkg].trigger \in {"upload", Nil}
    BY <2>1, <2>3, RunStays DEF ListedOf, RowOf, Row, NoRun
  <2> QED  BY <2>1, <2>2, <2>3 DEF ListedOf
<1>3. \A row \in rows' : ListedOf(row)'
  BY <1>2, RowsArrive
<1>4. IsFiniteSet(rows')
  <2>1. CASE rows' \subseteq rows
    BY <2>1, FS_Subset DEF RowsInv
  <2>2. ASSUME NEW row \in rows', row \notin rows PROVE IsFiniteSet(rows')
    BY <2>2, RowsArrive, FS_AddElement DEF RowsInv
  <2> QED  BY <2>1, <2>2
<1>5. ASSUME NEW r \in Runs, NEW row \in doomed'[r] PROVE RowOf(row)'
  <2>1. CASE doomed'[r] \subseteq doomed[r]
    BY <1>1, <1>5, <2>1 DEF RowsInv, TypeOK
  <2>2. CASE doomed'[r] = Excess(rows)
    BY <1>1, <1>5, <2>2 DEF Excess, RowsInv, ListedOf, TypeOK
  <2> QED  BY <2>1, <2>2, DoomedRead
<1>6. found' # Nil => pc'[found'] # "idle"
  <2>1. CASE found' \in {found, Nil}
    BY <2>1, NoRunIsNil, RunStays DEF RowsInv, TypeOK
  <2>2. CASE found' \notin {found, Nil}
    <3>1. PICK p \in Runs : Visit(p)
      BY <2>2, FoundArrives
    <3> QED  BY <3>1 DEF Visit, StepsInv, task
  <2> QED  BY <2>1, <2>2
<1> QED  BY <1>3, <1>4, <1>5, <1>6 DEF RowsInv

\* A scheduled run gets a due time that is later than those of the others, because the check
\* of the scheduler has seen them and only its finding starts another.
LEMMA DueStep ==
  ASSUME TypeOK, DueInv, SlotOnce, [Next]_vars
  PROVE  DueInv' /\ SlotOnce'
<1> USE BoundsAssumption, NilAssumption DEF TypeOK, DueInv, SlotOnce, api, vars
<1>1. ASSUME NEW r \in Runs, StartManual(r) PROVE DueInv' /\ SlotOnce'
  <2>1. /\ run'[r].trigger = "manual" /\ run'[r].slot = slot /\ UNCHANGED <<slot, due>>
        /\ \A q \in Runs : q # r => run'[q] = run[q]
    BY <1>1, BeginType DEF StartManual, Triggers
  <2> QED  BY <2>1
<1>2. ASSUME NEW r \in Runs, StartSafety(r) PROVE DueInv' /\ SlotOnce'
  <2>1. /\ run'[r].trigger = "pre_restore" /\ run'[r].slot = slot /\ UNCHANGED <<slot, due>>
        /\ \A q \in Runs : q # r => run'[q] = run[q]
    BY <1>2, BeginType DEF StartSafety, Triggers
  <2> QED  BY <2>1
<1>3. ASSUME NEW r \in Runs, StartImport(r) PROVE DueInv' /\ SlotOnce'
  <2>1. /\ run'[r].trigger = "upload" /\ run'[r].slot = slot /\ UNCHANGED <<slot, due>>
        /\ \A q \in Runs : q # r => run'[q] = run[q]
    BY <1>3 DEF StartImport
  <2> QED  BY <2>1
<1>4. ASSUME NEW r \in Runs, StartScheduled(r) PROVE DueInv' /\ SlotOnce'
  <2>1. CASE Begin(r, "scheduled", slot)
    <3>1. /\ run'[r].trigger = "scheduled" /\ run'[r].slot = slot
          /\ \A q \in Runs : q # r => run'[q] = run[q]
      BY <2>1, BeginType DEF Triggers
    <3>2. due # Nil /\ due' = Nil /\ slot' = slot
      BY <1>4 DEF StartScheduled
    <3> QED  BY <3>1, <3>2
  <2>2. CASE UNCHANGED run
    BY <1>4, <2>2 DEF StartScheduled
  <2> QED  BY <1>4, <2>1, <2>2 DEF StartScheduled
<1>5. ASSUME NEW r \in Runs, Finish(r) PROVE DueInv' /\ SlotOnce'
  <2>1. \A q \in Runs : run'[q].trigger = run[q].trigger /\ run'[q].slot = run[q].slot
    <3>1. SetStatus(r, "succeeded") /\ "succeeded" \in Statuses
      BY <1>5 DEF Finish, Statuses
    <3> QED  BY <3>1, StatusType
  <2> QED  BY <1>5, <2>1 DEF Finish
<1>6. ASSUME NEW r \in Runs, MarkFailed(r) PROVE DueInv' /\ SlotOnce'
  <2>1. \A q \in Runs : run'[q].trigger = run[q].trigger /\ run'[q].slot = run[q].slot
    <3>1. SetStatus(r, "failed") /\ "failed" \in Statuses
      BY <1>6 DEF MarkFailed, Statuses
    <3> QED  BY <3>1, StatusType
  <2> QED  BY <1>6, <2>1 DEF MarkFailed
<1>7. ASSUME NEW r \in Runs, Report(r) PROVE DueInv' /\ SlotOnce'
  <2>1. \A q \in Runs : run'[q].trigger = run[q].trigger /\ run'[q].slot = run[q].slot
    <3>1. SetStatus(r, "succeeded") /\ "succeeded" \in Statuses
      BY <1>7 DEF Report, Statuses
    <3> QED  BY <3>1, StatusType
  <2> QED  BY <1>7, <2>1 DEF Report
<1>8. ASSUME NEW r \in Runs, ImportFails(r) PROVE DueInv' /\ SlotOnce'
  <2>1. \A q \in Runs : run'[q].trigger = run[q].trigger /\ run'[q].slot = run[q].slot
    <3>1. (SetStatus(r, "failed") \/ UNCHANGED run) /\ "failed" \in Statuses
      BY <1>8 DEF ImportFails, Statuses
    <3> QED  BY <3>1, StatusType
  <2> QED  BY <1>8, <2>1 DEF ImportFails
<1>9. ASSUME NEW row \in rows, DeleteImport(row) PROVE DueInv' /\ SlotOnce'
  <2>1. \A q \in Runs : run'[q] \in {run[q], NoRun}
    BY <1>9 DEF DeleteImport
  <2>2. NoRun.slot = 0 /\ NoRun.trigger # "scheduled"
    BY NilAssumption DEF NoRun, Triggers
  <2>3. UNCHANGED <<slot, due>>
    BY <1>9 DEF DeleteImport
  <2> QED  BY <2>1, <2>2, <2>3
<1>10. CASE Check
  BY <1>10 DEF Check, Served, Triggers
<1>11. CASE CrashApi
  BY <1>11 DEF CrashApi, Kill
<1>12. CASE CrashAgent
  BY <1>12 DEF CrashAgent, Kill
<1>13. CASE Boot
  <2>1. \A q \in Runs : run'[q].trigger = run[q].trigger /\ run'[q].slot = run[q].slot
    BY <1>13 DEF Boot
  <2> QED  BY <1>13, <2>1 DEF Boot
<1>14. CASE LoseCatalog
  <2>1. \A q \in Runs : run'[q].trigger = run[q].trigger /\ run'[q].slot = run[q].slot
    BY <1>14 DEF LoseCatalog
  <2> QED  BY <1>14, <2>1 DEF LoseCatalog
<1>15. ASSUME NEW r \in Runs, Package(r) PROVE DueInv' /\ SlotOnce'
  BY <1>15 DEF Package
<1>16. ASSUME NEW r \in Runs, Catalog(r) PROVE DueInv' /\ SlotOnce'
  BY <1>16 DEF Catalog
<1>17. ASSUME NEW r \in Runs, Upload(r) PROVE DueInv' /\ SlotOnce'
  BY <1>17 DEF Upload
<1>18. ASSUME NEW r \in Runs, CatalogS3(r) PROVE DueInv' /\ SlotOnce'
  BY <1>18 DEF CatalogS3
<1>19. ASSUME NEW r \in Runs, Retain(r) PROVE DueInv' /\ SlotOnce'
  BY <1>19 DEF Retain
<1>20. ASSUME NEW r \in Runs, Prune(r) PROVE DueInv' /\ SlotOnce'
  BY <1>20 DEF Prune
<1>21. ASSUME NEW r \in Runs, PruneS3(r) PROVE DueInv' /\ SlotOnce'
  BY <1>21 DEF PruneS3
<1>22. ASSUME NEW r \in Runs, Tidy(r) PROVE DueInv' /\ SlotOnce'
  BY <1>22 DEF Tidy
<1>23. ASSUME NEW r \in Runs, Cleanup(r) PROVE DueInv' /\ SlotOnce'
  BY <1>23 DEF Cleanup
<1>24. ASSUME NEW r \in Runs, Name(r) PROVE DueInv' /\ SlotOnce'
  BY <1>24 DEF Name
<1>25. ASSUME NEW r \in Runs, List(r) PROVE DueInv' /\ SlotOnce'
  BY <1>25 DEF List
<1>26. ASSUME NEW r \in Runs, UploadFails(r) PROVE DueInv' /\ SlotOnce'
  BY <1>26 DEF UploadFails
<1>27. ASSUME NEW r \in Runs, PruneFails(r) PROVE DueInv' /\ SlotOnce'
  BY <1>27 DEF PruneFails
<1>28. ASSUME NEW r \in Runs, PruneS3Fails(r) PROVE DueInv' /\ SlotOnce'
  BY <1>28 DEF PruneS3Fails
<1>29. ASSUME NEW r \in Runs, StepFails(r) PROVE DueInv' /\ SlotOnce'
  BY <1>29 DEF StepFails
<1>30. ASSUME NEW r \in Runs, MarkFails(r) PROVE DueInv' /\ SlotOnce'
  BY <1>30 DEF MarkFails
<1>31. ASSUME NEW r \in Runs, ImportCancelled(r) PROVE DueInv' /\ SlotOnce'
  BY <1>31 DEF ImportCancelled
<1>32. ASSUME NEW p \in Runs, Visit(p) PROVE DueInv' /\ SlotOnce'
  BY <1>32 DEF Visit
<1>33. CASE Insert
  BY <1>33 DEF Insert
<1>34. CASE LoseLock
  BY <1>34 DEF LoseLock
<1>35. CASE NextSlot
  BY <1>35 DEF NextSlot
<1>36. CASE UNCHANGED vars
  BY <1>36 DEF vars
<1> QED
  BY <1>1, <1>2, <1>3, <1>4, <1>5, <1>6, <1>7, <1>8, <1>9, <1>10, <1>11, <1>12, <1>13,
     <1>14, <1>15, <1>16, <1>17, <1>18, <1>19, <1>20, <1>21, <1>22, <1>23, <1>24, <1>25,
     <1>26, <1>27, <1>28, <1>29, <1>30, <1>31, <1>32, <1>33, <1>34, <1>35, <1>36
     DEF Next, RunStep, ImportStep, Schedule

-----------------------------------------------------------------------------
(* Retention *)

\* Runs are finitely many numbers.
LEMMA RunsFinite == IsFiniteSet(Runs) /\ Runs \subseteq Int
<1>1. IsFiniteSet(1 .. MaxRuns) /\ 1 .. MaxRuns \subseteq Int
  BY BoundsAssumption, FS_Interval
<1> QED  BY <1>1 DEF Runs

\* A set of packages that is not empty has a newest one: otherwise the sets of its packages
\* after one of them would descend for ever.
LEMMA Newest ==
  ASSUME NEW S \in SUBSET Runs, S # {}
  PROVE  \E m \in S : \A q \in S : ~(q > m)
<1>1. Runs \subseteq Int /\ IsFiniteSet(S)
  BY RunsFinite, FS_Subset
<1>2. IsWellFoundedOn(StrictSubsetOrdering(S), FiniteSubsetsOf(S))
  BY FS_StrictSubsetOrderingWellFounded
<1> DEFINE After(p) == {q \in S : q > p}
           Rests == {After(p) : p \in S}
<1>3. Rests \subseteq FiniteSubsetsOf(S) /\ Rests # {}
  <2>1. FiniteSubsetsOf(S) = SUBSET S
    BY <1>1, FS_FiniteSubsetsOfFinite
  <2>2. ASSUME NEW p \in S PROVE After(p) \in SUBSET S
    OBVIOUS
  <2>3. PICK p \in S : TRUE
    OBVIOUS
  <2>4. After(p) \in Rests
    OBVIOUS
  <2> HIDE DEF After
  <2> QED  BY <2>1, <2>2, <2>4
<1>4. PICK T \in Rests : \A U \in Rests : <<U, T>> \notin StrictSubsetOrdering(S)
  <2> HIDE DEF Rests
  <2> QED  BY <1>2, <1>3, WFMin
<1>5. PICK m \in S : T = After(m)
  BY <1>4
<1>6. ASSUME NEW q \in S, q > m PROVE FALSE
  <2>1. q \in After(m) /\ q \notin After(q)
    BY <1>1, <1>6
  <2>2. \A p \in S : p > q => p > m
    BY <1>1, <1>6
  <2>3. After(q) \subseteq After(m)
    BY <2>2
  <2>4. <<After(q), After(m)>> \in StrictSubsetOrdering(S)
    BY <2>1, <2>3 DEF StrictSubsetOrdering
  <2> QED  BY <1>4, <1>5, <2>4
<1> QED  BY <1>6

\* A local row leaves the catalogue only with the catalogue itself or pruned: a deleted
\* import's rows are of another type.
LEMMA LocalRowsStay ==
  ASSUME TypeOK, StepsInv, RowsInv, [Next]_vars, ~LoseCatalog,
         NEW row \in rows, row.type = "local", row \notin rows'
  PROVE  \E r \in Runs : row \in doomed[r] /\ rows' = rows \ {row}
<1>1. ASSUME NEW r \in Runs, Prune(r)
      PROVE  \E q \in Runs : row \in doomed[q] /\ rows' = rows \ {row}
  BY <1>1 DEF Prune
<1>2. ASSUME NEW r \in Runs, PruneS3(r) PROVE FALSE
  BY <1>2 DEF PruneS3
<1>3. ASSUME NEW x \in rows, DeleteImport(x) PROVE FALSE
  <2>1. x.run # Nil /\ row.run = x.run
    BY <1>3 DEF DeleteImport
  <2>2. /\ ListedOf(row) /\ ListedOf(x)
    BY DEF RowsInv
  <2>3. x.pkg = x.run /\ row.pkg = x.pkg /\ run[x.pkg].trigger # Nil
    BY <2>1, <2>2 DEF ListedOf
  <2>4. run[x.pkg].trigger = "upload"
    BY <1>3, <2>2, <2>3 DEF ListedOf, DeleteImport
  <2> QED  BY <2>2, <2>3, <2>4 DEF ListedOf, RowOf
<1>4. ASSUME NEW r \in Runs, RunStep(r) \/ ImportStep(r), ~Prune(r), ~PruneS3(r) PROVE FALSE
  BY <1>4 DEF RunStep, ImportStep, Package, Catalog, Upload, CatalogS3, Retain, Tidy, Finish,
     MarkFailed, Cleanup, Name, List, Report, store
<1>5. ASSUME NEW r \in Runs,
             \/ StartManual(r) \/ StartSafety(r) \/ StartImport(r) \/ StartScheduled(r)
             \/ UploadFails(r) \/ PruneFails(r) \/ PruneS3Fails(r) \/ StepFails(r)
             \/ MarkFails(r) \/ ImportFails(r) \/ ImportCancelled(r)
      PROVE  FALSE
  BY <1>5 DEF StartManual, StartSafety, StartImport, StartScheduled, Begin, UploadFails,
     PruneFails, PruneS3Fails, Emergency, StepFails, MarkFails, ImportFails, ImportCancelled,
     store
<1>6. ASSUME \/ Check \/ Insert \/ (\E p \in Runs : Visit(p)) \/ LoseLock \/ CrashApi
             \/ CrashAgent \/ Boot \/ NextSlot \/ UNCHANGED vars
      PROVE  FALSE
  BY <1>6 DEF Check, Insert, Visit, LoseLock, CrashApi, CrashAgent, Kill, Boot, NextSlot, vars,
     store
<1> QED  BY <1>1, <1>2, <1>3, <1>4, <1>5, <1>6 DEF Next, Schedule

\* What has been pushed out stays so: a row that retention removes has enough newer ones.
LEMMA PushedOutStays ==
  ASSUME TypeOK, StepsInv, RowsInv, StoredInv, TypeOK', RowsInv', [Next]_vars, ~LoseCatalog,
         NEW p \in Runs, PushedOut(p)
  PROVE  PushedOut(p)'
<1>1. ASSUME NEW q \in Runs, PushedOut(q), NewerLocal(q) \subseteq NewerLocal(p)'
      PROVE  PushedOut(p)'
  <2>1. IsFiniteSet(NewerLocal(p)') /\ IsFiniteSet(NewerLocal(q))
    <3>1. NewerLocal(p)' \subseteq rows' /\ NewerLocal(q) \subseteq rows
      BY DEF NewerLocal
    <3> QED  BY <3>1, FS_Subset DEF RowsInv
  <2>2. Cardinality(NewerLocal(q)) <= Cardinality(NewerLocal(p)')
    BY <1>1, <2>1, FS_Subset
  <2>3. Cardinality(NewerLocal(q)) \in Nat /\ Cardinality(NewerLocal(p)') \in Nat
    BY <2>1, FS_CardinalityType
  <2> QED  BY <1>1, <2>2, <2>3, BoundsAssumption DEF PushedOut
<1>2. CASE \A row \in rows : row.type = "local" => row \in rows'
  BY <1>1, <1>2 DEF NewerLocal
<1>3. ASSUME NEW row \in rows, row.type = "local", row \notin rows' PROVE PushedOut(p)'
  <2>1. PICK r \in Runs : row \in doomed[r] /\ rows' = rows \ {row}
    BY <1>3, LocalRowsStay
  <2>2. row.pkg \in Runs /\ PushedOut(row.pkg)
    BY <1>3, <2>1 DEF StoredInv, TypeOK, Row
  <2>3. Runs \subseteq Int /\ \A x \in rows : x.pkg \in Int
    BY BoundsAssumption DEF Runs, TypeOK, Row
  <2>4. CASE row.pkg > p
    <3>1. NewerLocal(row.pkg) \subseteq NewerLocal(p)'
      BY <2>1, <2>2, <2>3, <2>4 DEF NewerLocal
    <3> QED  BY <1>1, <2>2, <3>1
  <2>5. CASE ~(row.pkg > p)
    BY <1>1, <2>1, <2>5 DEF NewerLocal
  <2> QED  BY <2>4, <2>5
<1> QED  BY <1>2, <1>3

\* Only retention removes packages from the bucket, and none but old ones.
LEMMA RemoteRemoved ==
  ASSUME TypeOK, [Next]_vars, NEW p \in remote, p \notin remote'
  PROVE  remote' = {q \in remote : ~PushedOutS3(q)} /\ PushedOutS3(p)
<1>1. PICK r \in Runs : PruneS3(r)
  <2>1. ASSUME NEW r \in Runs, RunStep(r) \/ ImportStep(r), ~PruneS3(r) PROVE FALSE
    BY <2>1 DEF RunStep, ImportStep, Package, Catalog, Upload, CatalogS3, Retain, Prune, Tidy,
       Finish, MarkFailed, Cleanup, Name, List, Report, store
  <2>2. ASSUME NEW r \in Runs,
               \/ StartManual(r) \/ StartSafety(r) \/ StartImport(r) \/ StartScheduled(r)
               \/ UploadFails(r) \/ PruneFails(r) \/ PruneS3Fails(r) \/ StepFails(r)
               \/ MarkFails(r) \/ ImportFails(r) \/ ImportCancelled(r)
        PROVE  FALSE
    BY <2>2 DEF StartManual, StartSafety, StartImport, StartScheduled, Begin, UploadFails,
       PruneFails, PruneS3Fails, StepFails, MarkFails, ImportFails, ImportCancelled, store
  <2>3. ASSUME NEW x \in rows, DeleteImport(x) PROVE FALSE
    BY <2>3 DEF DeleteImport
  <2>4. ASSUME \/ Check \/ Insert \/ (\E q \in Runs : Visit(q)) \/ LoseLock \/ CrashApi
               \/ CrashAgent \/ Boot \/ LoseCatalog \/ NextSlot \/ UNCHANGED vars
        PROVE  FALSE
    BY <2>4 DEF Check, Insert, Visit, LoseLock, CrashApi, CrashAgent, Kill, Boot, LoseCatalog,
       NextSlot, vars, store
  <2> QED  BY <2>1, <2>2, <2>3, <2>4 DEF Next, RunStep, Schedule
<1>2. remote' = remote \ {q \in remote : PushedOutS3(q)}
  BY <1>1 DEF PruneS3, PushedOutS3, NewerRemote
<1> QED  BY <1>2

\* What has been pushed out of the bucket stays so: the newest of the packages that go is
\* older than enough that stay.
LEMMA PushedOutS3Stays ==
  ASSUME TypeOK, TypeOK', [Next]_vars, NEW p \in Runs, PushedOutS3(p)
  PROVE  PushedOutS3(p)'
<1>1. ASSUME NEW q \in Runs, PushedOutS3(q), NewerRemote(q) \subseteq NewerRemote(p)'
      PROVE  PushedOutS3(p)'
  <2>1. IsFiniteSet(NewerRemote(p)') /\ IsFiniteSet(NewerRemote(q))
    <3>1. NewerRemote(p)' \subseteq Runs /\ NewerRemote(q) \subseteq Runs
      BY DEF NewerRemote, TypeOK
    <3> QED  BY <3>1, RunsFinite, FS_Subset
  <2>2. Cardinality(NewerRemote(q)) <= Cardinality(NewerRemote(p)')
    BY <1>1, <2>1, FS_Subset
  <2>3. Cardinality(NewerRemote(q)) \in Nat /\ Cardinality(NewerRemote(p)') \in Nat
    BY <2>1, FS_CardinalityType
  <2> QED  BY <1>1, <2>2, <2>3, BoundsAssumption DEF PushedOutS3
<1>2. CASE NewerRemote(p) \subseteq remote'
  BY <1>1, <1>2 DEF NewerRemote
<1>3. CASE ~(NewerRemote(p) \subseteq remote')
  <2> DEFINE Gone == {q \in NewerRemote(p) : q \notin remote'}
  <2>1. Gone \in SUBSET Runs /\ Gone # {}
    BY <1>3 DEF NewerRemote, TypeOK
  <2>2. PICK m \in Gone : \A q \in Gone : ~(q > m)
    <3> HIDE DEF Gone
    <3> QED  BY <2>1, Newest
  <2>3. m \in Runs /\ m \in remote /\ m > p /\ PushedOutS3(m)
    BY <2>1, <2>2, RemoteRemoved DEF NewerRemote
  <2>5. ASSUME NEW q \in NewerRemote(m) PROVE q \in NewerRemote(p)'
    <3>1. q \in remote /\ q \in Runs /\ q > m
      BY DEF NewerRemote, TypeOK
    <3>2. q > p
      <4>1. p \in Int /\ q \in Int /\ m \in Int
        BY <2>3, <3>1, RunsFinite
      <4> QED  BY <2>3, <3>1, <4>1
    <3>3. q \in remote'
      BY <2>2, <3>1, <3>2 DEF NewerRemote
    <3> QED  BY <3>2, <3>3 DEF NewerRemote
  <2> QED  BY <1>1, <2>3, <2>5
<1> QED  BY <1>2, <1>3

-----------------------------------------------------------------------------
(* What a step may do to a task, a status and a file *)

\* The order of a task's steps, and where the outcomes of an upload are decided.
LEMMA TaskMoves ==
  ASSUME TypeOK, [Next]_vars, NEW q \in Runs
  PROVE  /\ pc'[q] = "catalog" => pc[q] = "catalog" \/ Package(q)
         /\ pc'[q] = "upload" => pc[q] = "upload" \/ Catalog(q)
         /\ pc'[q] \in Shipping => pc[q] \in Shipping \/ Upload(q)
         /\ pc'[q] \in {"package", "catalog"} => pc[q] \in {"idle", "package", "catalog"}
         /\ pc'[q] \in Packaging \ {"fail", "cleanup"} =>
              pc[q] \in {"idle"} \cup (Packaging \ {"fail", "cleanup"})
         /\ \A S \in {{"fail", "cleanup", "done"}, {"cleanup", "report", "done"}, {"done"}} :
              pc[q] \in S => pc'[q] \in S
<1> DEFINE Moves ==
         /\ pc'[q] = "catalog" => pc[q] = "catalog" \/ Package(q)
         /\ pc'[q] = "upload" => pc[q] = "upload" \/ Catalog(q)
         /\ pc'[q] \in Shipping => pc[q] \in Shipping \/ Upload(q)
         /\ pc'[q] \in {"package", "catalog"} => pc[q] \in {"idle", "package", "catalog"}
         /\ pc'[q] \in Packaging \ {"fail", "cleanup"} =>
              pc[q] \in {"idle"} \cup (Packaging \ {"fail", "cleanup"})
         /\ \A S \in {{"fail", "cleanup", "done"}, {"cleanup", "report", "done"}, {"done"}} :
              pc[q] \in S => pc'[q] \in S
<1>0. pc \in [Runs -> Packaging \cup Importing \cup {"idle", "done"}]
  BY DEF TypeOK
<1> USE DEF Goto, Packaging, Importing, Shipping
<1>1. CASE pc' = pc
  BY <1>1
<1>2. ASSUME NEW r \in Runs, r # q, RunStep(r) \/ ImportStep(r) PROVE pc'[q] = pc[q]
  BY <1>0, <1>2 DEF RunStep, ImportStep, Package, Catalog, Upload, CatalogS3, Retain, Prune,
     PruneS3, Tidy, Finish, MarkFailed, Cleanup, Name, List, Report
<1>3. CASE RunStep(q)
  <2>1. CASE Package(q) \/ Catalog(q) \/ Upload(q)
    BY <1>0, <2>1 DEF Package, Catalog, Upload
  <2>2. CASE ~(Package(q) \/ Catalog(q) \/ Upload(q))
    BY <1>0, <1>3, <2>2 DEF RunStep, CatalogS3, Retain, Prune, PruneS3, Tidy, Finish,
       MarkFailed, Cleanup
  <2> QED  BY <2>1, <2>2
<1>4. CASE ImportStep(q)
  BY <1>0, <1>4 DEF ImportStep, Name, List, Report
<1>5. ASSUME NEW r \in Runs,
             StartManual(r) \/ StartSafety(r) \/ StartImport(r) \/ StartScheduled(r)
      PROVE  Moves
  BY <1>0, <1>5 DEF StartManual, StartSafety, StartImport, StartScheduled, Begin, NextRun, task
<1>6. ASSUME NEW r \in Runs,
             \/ UploadFails(r) \/ PruneFails(r) \/ PruneS3Fails(r) \/ StepFails(r)
             \/ MarkFails(r) \/ ImportFails(r) \/ ImportCancelled(r)
      PROVE  Moves
  BY <1>0, <1>6 DEF UploadFails, PruneFails, PruneS3Fails, StepFails, MarkFails, ImportFails,
     ImportCancelled
<1>7. ASSUME NEW row \in rows, DeleteImport(row) PROVE pc' = pc
  BY <1>7 DEF DeleteImport, task
<1>8. CASE CrashApi \/ CrashAgent
  <2>1. pc'[q] \in {pc[q], "done"}
    BY <1>8 DEF CrashApi, CrashAgent, Kill
  <2> QED  BY <1>0, <2>1
<1>9. ASSUME \/ Check \/ Insert \/ (\E p \in Runs : Visit(p)) \/ LoseLock \/ Boot
             \/ LoseCatalog \/ NextSlot \/ UNCHANGED vars
      PROVE  pc' = pc
  BY <1>9 DEF Check, Insert, Visit, LoseLock, Boot, LoseCatalog, NextSlot, vars, task
<1>10. CASE pc'[q] = pc[q]
  BY <1>10
<1> QED
  BY <1>1, <1>2, <1>3, <1>4, <1>5, <1>6, <1>7, <1>8, <1>9, <1>10 DEF Next, Schedule

\* A run succeeds with its last statement, and the loss of the catalogue is final.
LEMMA StatusMoves ==
  ASSUME TypeOK, StepsInv, [Next]_vars, NEW q \in Runs
  PROVE  /\ run'[q].status = "succeeded" =>
              run[q].status = "succeeded" \/ Finish(q) \/ Report(q)
         /\ run[q].status = Nil /\ pc[q] # "idle" => run'[q].status = Nil
<1> DEFINE Moves ==
         /\ run'[q].status = "succeeded" =>
              run[q].status = "succeeded" \/ Finish(q) \/ Report(q)
         /\ run[q].status = Nil /\ pc[q] # "idle" => run'[q].status = Nil
<1>0. "running" # Nil /\ {"succeeded", "failed"} \subseteq Statuses
  BY NilAssumption DEF Statuses
<1>1. CASE run' = run
  BY <1>1
<1>2. ASSUME NEW r \in Runs, RunStep(r) \/ ImportStep(r),
             ~Finish(r), ~MarkFailed(r), ~Report(r)
      PROVE  run' = run
  BY <1>2 DEF RunStep, ImportStep, Package, Catalog, Upload, CatalogS3, Retain, Prune, PruneS3,
     Tidy, Cleanup, Name, List
<1>3. ASSUME NEW r \in Runs, Finish(r) \/ Report(r) PROVE Moves
  <2>1. SetStatus(r, "succeeded")
    BY <1>3 DEF Finish, Report
  <2> QED  BY <1>0, <1>3, <2>1, StatusType
<1>4. ASSUME NEW r \in Runs, MarkFailed(r) \/ ImportFails(r) PROVE Moves
  <2>1. SetStatus(r, "failed") \/ UNCHANGED run
    BY <1>4 DEF MarkFailed, ImportFails
  <2> QED  BY <1>0, <2>1, StatusType
<1>5. ASSUME NEW r \in Runs,
             StartManual(r) \/ StartSafety(r) \/ StartImport(r) \/ StartScheduled(r)
      PROVE  Moves
  BY <1>5 DEF StartManual, StartSafety, StartImport, StartScheduled, Begin, NextRun, TypeOK
<1>6. ASSUME NEW r \in Runs,
             \/ UploadFails(r) \/ PruneFails(r) \/ PruneS3Fails(r) \/ StepFails(r)
             \/ MarkFails(r) \/ ImportCancelled(r)
      PROVE  run' = run
  BY <1>6 DEF UploadFails, PruneFails, PruneS3Fails, StepFails, MarkFails, ImportCancelled
<1>7. ASSUME NEW row \in rows, DeleteImport(row) PROVE Moves
  <2>1. run'[q] \in {run[q], NoRun} /\ "succeeded" # Nil
    BY <1>7, NilAssumption DEF DeleteImport, TypeOK, Statuses
  <2> QED  BY <2>1 DEF NoRun
<1>8. CASE Boot
  <2>1. run'[q] = IF run[q].status = "running" THEN [run[q] EXCEPT !.status = "failed"]
                  ELSE run[q]
    BY <1>8 DEF Boot
  <2> QED  BY <1>0, <2>1 DEF TypeOK
<1>9. CASE LoseCatalog
  <2>1. run'[q].status = Nil /\ "succeeded" # Nil
    BY <1>9, NilAssumption DEF LoseCatalog, TypeOK, Statuses
  <2> QED  BY <2>1
<1>10. ASSUME \/ Check \/ Insert \/ (\E p \in Runs : Visit(p)) \/ LoseLock \/ CrashApi
              \/ CrashAgent \/ NextSlot \/ UNCHANGED vars
       PROVE  run' = run
  BY <1>10 DEF Check, Insert, Visit, LoseLock, CrashApi, CrashAgent, Kill, NextSlot, vars
<1> QED
  BY <1>1, <1>2, <1>3, <1>4, <1>5, <1>6, <1>7, <1>8, <1>9, <1>10 DEF Next, Schedule

\* Who may remove a package from the disk.
LEMMA FilesLeave ==
  ASSUME TypeOK, [Next]_vars, NEW p \in files, p \notin files'
  PROVE  \/ \E r \in Runs : \E row \in doomed[r] : row.pkg = p
         \/ Tidy(p) /\ ~Local(p)
         \/ Cleanup(p) /\ {Own(p, "local"), Own(p, "safety")} \cap rows = {}
         \/ ImportFails(p)
         \/ \E row \in rows : row.pkg = p /\ DeleteImport(row)
<1> DEFINE Who ==
         \/ \E r \in Runs : \E row \in doomed[r] : row.pkg = p
         \/ Tidy(p) /\ ~Local(p)
         \/ Cleanup(p) /\ {Own(p, "local"), Own(p, "safety")} \cap rows = {}
         \/ ImportFails(p)
         \/ \E row \in rows : row.pkg = p /\ DeleteImport(row)
<1>1. ASSUME NEW r \in Runs, Prune(r) \/ PruneFails(r)
      PROVE  \E row \in doomed[r] : row.pkg = p
  BY <1>1 DEF Prune, PruneFails
<1>2. ASSUME NEW r \in Runs, Tidy(r) PROVE Tidy(p) /\ ~Local(p)
  BY <1>2 DEF Tidy
<1>3. ASSUME NEW r \in Runs, Cleanup(r)
      PROVE  Cleanup(p) /\ {Own(p, "local"), Own(p, "safety")} \cap rows = {}
  <2>1. r = p
    BY <1>3 DEF Cleanup
  <2> QED  BY <1>3, <2>1 DEF Cleanup
<1>4. ASSUME NEW r \in Runs, ImportFails(r) PROVE ImportFails(p)
  BY <1>4 DEF ImportFails
<1>5. ASSUME NEW row \in rows, DeleteImport(row) PROVE row.pkg = p
  BY <1>5 DEF DeleteImport
<1>6. ASSUME NEW r \in Runs, RunStep(r) \/ ImportStep(r), ~Prune(r), ~Tidy(r), ~Cleanup(r)
      PROVE  FALSE
  BY <1>6 DEF RunStep, ImportStep, Package, Catalog, Upload, CatalogS3, Retain, PruneS3, Finish,
     MarkFailed, Name, List, Report, store
<1>7. ASSUME NEW r \in Runs,
             \/ StartManual(r) \/ StartSafety(r) \/ StartImport(r) \/ StartScheduled(r)
             \/ UploadFails(r) \/ PruneS3Fails(r) \/ StepFails(r) \/ MarkFails(r)
             \/ ImportCancelled(r)
      PROVE  FALSE
  BY <1>7 DEF StartManual, StartSafety, StartImport, StartScheduled, Begin, UploadFails,
     PruneS3Fails, StepFails, MarkFails, ImportCancelled, store
<1>8. ASSUME \/ Check \/ Insert \/ (\E r \in Runs : Visit(r)) \/ LoseLock \/ CrashApi
             \/ CrashAgent \/ Boot \/ LoseCatalog \/ NextSlot \/ UNCHANGED vars
      PROVE  FALSE
  BY <1>8 DEF Check, Insert, Visit, LoseLock, CrashApi, CrashAgent, Kill, Boot, LoseCatalog,
     NextSlot, vars, store
<1> QED
  BY <1>1, <1>2, <1>3, <1>4, <1>5, <1>6, <1>7, <1>8 DEF Next, RunStep, Schedule

-----------------------------------------------------------------------------
(* Packages of succeeded and of refused runs *)

\* A run that is still to ship or has succeeded keeps its settings, and so do those that rest
\* on them.
LEMMA SettingsStay ==
  ASSUME TypeOK, StepsInv, RowsInv, [Next]_vars, NEW q \in Runs, pc[q] # "idle"
  PROVE  /\ Local(q)' => Local(q)
         /\ ToS3(q)' => ToS3(q)
         /\ Safety(q)' => Safety(q)
         /\ run[q].trigger \notin {"upload", Nil} =>
              run'[q].trigger = run[q].trigger /\ (Local(q)' <=> Local(q))
<1>1. NoRun.trigger # "pre_restore" /\ NoRun.to = {}
  BY NilAssumption DEF NoRun, Triggers
<1> QED  BY <1>1, RunStays DEF Local, ToS3, Safety

\* An import wants no place of its own, and what is gone wants none.
LEMMA ImportsWantNothing ==
  ASSUME StepsInv, NEW q \in Runs, run[q].trigger \in {"upload", Nil}
  PROVE  ~Local(q) /\ ~ToS3(q) /\ ~Safety(q) /\ pc[q] \notin Packaging
<1>1. run[q].to = {} /\ pc[q] \notin Packaging
  BY NilAssumption DEF StepsInv, StepOf, Triggers
<1> QED  BY <1>1, NilAssumption DEF Local, ToS3, Safety, Triggers

\* A run that has to have its package.
Made(q) == \/ pc[q] \in {"catalog", "upload"}
           \/ (pc[q] \in Shipping \/ run[q].status = "succeeded") /\ Local(q)

\* A run gets to have its package by making it only.
LEMMA MadeBefore ==
  ASSUME TypeOK, StepsInv, RowsInv, [Next]_vars, NEW q \in Runs, Made(q)'
  PROVE  Package(q) \/ (Made(q) /\ pc[q] # "idle")
<1>1. pc[q] = "idle" => run[q].status = Nil
  BY DEF StepsInv, StepOf
<1>2. ASSUME pc'[q] \in {"catalog", "upload"} PROVE Package(q) \/ (Made(q) /\ pc[q] # "idle")
  BY <1>2, TaskMoves DEF Made, Catalog
<1>3. ASSUME pc'[q] \in Shipping, Local(q)' PROVE Made(q) /\ pc[q] # "idle"
  <2>1. pc[q] \in Shipping \/ pc[q] = "upload"
    BY <1>3, TaskMoves DEF Upload
  <2>2. pc[q] # "idle"
    BY <2>1 DEF Shipping
  <2> QED  BY <1>3, <2>1, <2>2, SettingsStay DEF Made
<1>4. ASSUME run'[q].status = "succeeded", Local(q)' PROVE Made(q) /\ pc[q] # "idle"
  <2>1. CASE run[q].status = "succeeded"
    <3>1. pc[q] = "done"
      BY <2>1 DEF StepsInv, StepOf
    <3> QED  BY <1>4, <2>1, <3>1, SettingsStay DEF Made
  <2>2. CASE Finish(q)
    <3>1. pc[q] = "finish"
      BY <2>2 DEF Finish
    <3> QED  BY <1>4, <3>1, SettingsStay DEF Made, Shipping
  <2>3. CASE Report(q)
    <3>1. pc[q] = "report" /\ run[q].trigger \in {"upload", Nil}
      BY <2>3 DEF Report, StepsInv, StepOf
    <3> QED  BY <1>4, <3>1, SettingsStay, ImportsWantNothing
  <2> QED  BY <1>4, <2>1, <2>2, <2>3, StatusMoves
<1> QED  BY <1>2, <1>3, <1>4 DEF Made

\* A package that a run has to have leaves the disk only when newer ones have pushed it out.
LEMMA MadeStays ==
  ASSUME TypeOK, StepsInv, RowsInv, StoredInv, TypeOK', StepsInv', RowsInv', [Next]_vars,
         ~LoseCatalog, NEW q \in Runs, Made(q)'
  PROVE  q \in files' \/ (~Safety(q)' /\ PushedOut(q)')
<1>1. CASE Package(q)
  BY <1>1 DEF Package
<1>2. CASE Made(q) /\ pc[q] # "idle"
  <2>1. q \in files \/ (~Safety(q) /\ PushedOut(q))
    BY <1>2 DEF StoredInv, Made
  <2>2. ASSUME ~Safety(q), PushedOut(q) PROVE ~Safety(q)' /\ PushedOut(q)'
    BY <1>2, <2>2, SettingsStay, PushedOutStays
  <2>3. ASSUME q \in files, q \notin files' PROVE ~Safety(q) /\ PushedOut(q)
    <3>1. ASSUME NEW r \in Runs, NEW row \in doomed[r], row.pkg = q
          PROVE  ~Safety(q) /\ PushedOut(q)
      BY <3>1 DEF StoredInv, RowsInv, RowOf, Safety
    <3>2. ASSUME Tidy(q), ~Local(q) PROVE FALSE
      <4>1. pc'[q] = "finish" /\ run'[q].status # "succeeded"
        BY <3>2 DEF Tidy, Goto, TypeOK, StepsInv, StepOf
      <4> QED  BY <1>2, <3>2, <4>1, SettingsStay DEF Made
    <3>3. ASSUME Cleanup(q) \/ ImportFails(q) PROVE FALSE
      <4>1. pc'[q] = "done" /\ pc[q] # "done" /\ run[q].status # "succeeded"
        BY <3>3 DEF Cleanup, ImportFails, Importing, Goto, TypeOK, StepsInv, StepOf
      <4>2. run'[q].status # "succeeded"
        BY <3>3, <4>1, StatusMoves DEF Cleanup, ImportFails, Importing, Finish, Report,
           SetStatus, TypeOK
      <4> QED  BY <4>1, <4>2 DEF Made, Shipping
    <3>4. ASSUME NEW row \in rows, row.pkg = q, DeleteImport(row) PROVE FALSE
      <4>1. run[q].trigger \in {"upload", Nil}
        BY <3>4 DEF DeleteImport, RowsInv, ListedOf
      <4> QED  BY <1>2, <4>1, ImportsWantNothing DEF Made, Packaging
    <3> QED  BY <2>3, <3>1, <3>2, <3>3, <3>4, FilesLeave
  <2> QED  BY <2>1, <2>2, <2>3
<1> QED  BY <1>1, <1>2, MadeBefore

\* A package that is on disk and listed by its backup run stays so while its task can do no
\* more than to clean up, unless newer ones push it out.
LEMMA KeptStays ==
  ASSUME TypeOK, StepsInv, RowsInv, StoredInv, TypeOK', RowsInv', [Next]_vars, ~LoseCatalog,
         NEW q \in Runs, pc[q] \in {"upload", "fail", "cleanup"}, Kept(q) \/ PushedOut(q)
  PROVE  Kept(q)' \/ PushedOut(q)'
<1>1. ASSUME PushedOut(q) PROVE PushedOut(q)'
  BY <1>1, PushedOutStays
<1>2. ASSUME Kept(q), Own(q, "local") \notin rows' PROVE PushedOut(q)
  <2>1. PICK r \in Runs : Own(q, "local") \in doomed[r]
    BY <1>2, LocalRowsStay DEF Kept, Own
  <2> QED  BY <2>1 DEF StoredInv, Own
<1>3. ASSUME Kept(q), q \notin files' PROVE PushedOut(q)
  <2>1. ASSUME NEW r \in Runs, NEW row \in doomed[r], row.pkg = q PROVE PushedOut(q)
    BY <2>1 DEF StoredInv
  <2>2. ~Tidy(q) /\ ~ImportFails(q)
    BY DEF Tidy, ImportFails, Importing
  <2>3. Own(q, "local") \in rows
    BY <1>3 DEF Kept
  <2>4. ASSUME NEW row \in rows, row.pkg = q, DeleteImport(row) PROVE FALSE
    <3>1. run[q].trigger \in {"upload", Nil}
      BY <2>4 DEF DeleteImport, RowsInv, ListedOf
    <3> QED  BY <3>1, ImportsWantNothing DEF Packaging
  <2> QED  BY <1>3, <2>1, <2>2, <2>3, <2>4, FilesLeave DEF Kept
<1> QED  BY <1>1, <1>2, <1>3 DEF Kept

\* Every package of a run is where StoredInv has it.
LEMMA StoredStep ==
  ASSUME TypeOK, StepsInv, RowsInv, StoredInv, TypeOK', StepsInv', RowsInv', [Next]_vars
  PROVE  StoredInv'
<1>1. CASE LoseCatalog
  <2>1. ASSUME NEW q \in Runs
        PROVE  pc'[q] \notin Packaging /\ run'[q].status # "succeeded" /\ doomed'[q] = {}
    <3>1. pc[q] \notin Packaging /\ pc' = pc /\ doomed' = doomed
      BY <1>1 DEF LoseCatalog, Active, task
    <3>2. doomed[q] = {}
      BY <3>1 DEF StepsInv, StepOf, Packaging
    <3>3. run'[q].status = Nil /\ "succeeded" # Nil
      BY <1>1, NilAssumption DEF LoseCatalog, TypeOK, Statuses
    <3> QED  BY <3>1, <3>2, <3>3
  <2> QED  BY <2>1 DEF StoredInv, Packaging, Shipping
<1>2. ASSUME ~LoseCatalog, NEW q \in Runs
      PROVE  /\ Made(q)' => q \in files' \/ (~Safety(q)' /\ PushedOut(q)')
             /\ (pc'[q] \in Shipping \/ run'[q].status = "succeeded") /\ ToS3(q)' =>
                  q \in remote' \/ PushedOutS3(q)'
             /\ pc'[q] = "upload" /\ Local(q)' /\ ~Safety(q)' => Kept(q)' \/ PushedOut(q)'
             /\ \A row \in doomed'[q] : row.type = "local" /\ PushedOut(row.pkg)'
  <2>1. ASSUME Made(q)' PROVE q \in files' \/ (~Safety(q)' /\ PushedOut(q)')
    BY <1>2, <2>1, MadeStays
  <2>2. ASSUME pc'[q] \in Shipping \/ run'[q].status = "succeeded", ToS3(q)'
        PROVE  q \in remote' \/ PushedOutS3(q)'
    <3>1. CASE Upload(q)
      <4>1. ToS3(q)
        BY <2>2, <3>1, SettingsStay DEF Upload
      <4> QED  BY <3>1, <4>1 DEF Upload
    <3>2. CASE ~Upload(q)
      <4>1. (pc[q] \in Shipping \/ run[q].status = "succeeded") /\ ToS3(q)
        <5>1. CASE pc[q] \in Shipping
          BY <2>2, <5>1, SettingsStay DEF Shipping
        <5>2. CASE run[q].status = "succeeded"
          <6>1. pc[q] = "done"
            BY <5>2 DEF StepsInv, StepOf
          <6> QED  BY <2>2, <5>2, <6>1, SettingsStay
        <5>3. CASE Finish(q)
          BY <5>1, <5>3 DEF Finish, Shipping
        <5>4. CASE Report(q)
          <6>1. pc[q] = "report" /\ run[q].trigger \in {"upload", Nil}
            BY <5>4 DEF Report, StepsInv, StepOf
          <6> QED  BY <2>2, <6>1, SettingsStay, ImportsWantNothing
        <5> QED  BY <2>2, <3>2, <5>1, <5>2, <5>3, <5>4, TaskMoves, StatusMoves
      <4>2. q \in remote \/ PushedOutS3(q)
        BY <4>1 DEF StoredInv
      <4> QED  BY <4>2, RemoteRemoved, PushedOutS3Stays
    <3> QED  BY <3>1, <3>2
  <2>3. ASSUME pc'[q] = "upload", Local(q)', ~Safety(q)' PROVE Kept(q)' \/ PushedOut(q)'
    <3>1. pc[q] = "upload" \/ Catalog(q)
      BY <2>3, TaskMoves
    <3>2. run'[q].trigger = run[q].trigger /\ Local(q) /\ ~Safety(q)
      <4>1. pc[q] \in Packaging
        BY <3>1 DEF Packaging, Catalog
      <4>2. run[q].trigger \notin {"upload", Nil} /\ pc[q] # "idle"
        BY <4>1, ImportsWantNothing DEF Packaging
      <4> QED  BY <2>3, <4>2, SettingsStay DEF Safety
    <3>3. CASE pc[q] = "upload"
      <4>1. Kept(q) \/ PushedOut(q)
        BY <3>2, <3>3 DEF StoredInv
      <4> QED  BY <1>2, <3>3, <4>1, KeptStays
    <3>4. CASE Catalog(q)
      <4>1. Own(q, "local") \in rows' /\ files' = files /\ pc[q] = "catalog"
        BY <3>2, <3>4 DEF Catalog
      <4>2. q \in files \/ PushedOut(q)
        BY <4>1 DEF StoredInv
      <4> QED  BY <1>2, <4>1, <4>2, PushedOutStays DEF Kept, Own
    <3> QED  BY <3>1, <3>3, <3>4
  <2>4. ASSUME NEW row \in doomed'[q] PROVE row.type = "local" /\ PushedOut(row.pkg)'
    <3>1. row.type = "local" /\ PushedOut(row.pkg) /\ row.pkg \in Runs
      <4>1. row.pkg \in Runs
        BY DEF TypeOK, Row
      <4>2. CASE row \in doomed[q]
        BY <4>1, <4>2 DEF StoredInv
      <4>3. CASE row \in Excess(rows)
        <5>1. {newer \in {x \in rows : x.type = "local"} : newer.pkg > row.pkg} =
                NewerLocal(row.pkg)
          BY DEF NewerLocal
        <5> QED  BY <4>1, <4>3, <5>1 DEF Excess, PushedOut
      <4> QED  BY <4>2, <4>3, DoomedRead
    <3> QED  BY <1>2, <3>1, PushedOutStays
  <2> QED  BY <2>1, <2>2, <2>3, <2>4
<1> QED  BY <1>1, <1>2 DEF StoredInv, Made

\* Only a failed upload makes a run a refused one.
LEMMA RefusedArrive ==
  ASSUME [Next]_vars, NEW r \in refused', r \notin refused
  PROVE  UploadFails(r)
<1>1. ASSUME NEW q \in Runs, UploadFails(q) PROVE q = r
  BY <1>1 DEF UploadFails
<1>2. ASSUME NEW q \in Runs, RunStep(q) \/ ImportStep(q) PROVE FALSE
  BY <1>2 DEF RunStep, ImportStep, Package, Catalog, Upload, CatalogS3, Retain, Prune, PruneS3,
     Tidy, Finish, MarkFailed, Cleanup, Name, List, Report, past
<1>3. ASSUME NEW q \in Runs,
             \/ StartManual(q) \/ StartSafety(q) \/ StartImport(q) \/ StartScheduled(q)
             \/ PruneFails(q) \/ PruneS3Fails(q) \/ StepFails(q) \/ MarkFails(q)
             \/ ImportFails(q) \/ ImportCancelled(q)
      PROVE  FALSE
  BY <1>3 DEF StartManual, StartSafety, StartImport, StartScheduled, Begin, PruneFails,
     PruneS3Fails, StepFails, MarkFails, ImportFails, ImportCancelled, Fault, past
<1>4. ASSUME NEW row \in rows, DeleteImport(row) PROVE FALSE
  BY <1>4 DEF DeleteImport, past
<1>5. ASSUME \/ Check \/ Insert \/ (\E p \in Runs : Visit(p)) \/ LoseLock \/ CrashApi
             \/ CrashAgent \/ Boot \/ LoseCatalog \/ NextSlot \/ UNCHANGED vars
      PROVE  FALSE
  BY <1>5 DEF Check, Insert, Visit, LoseLock, Fault, CrashApi, CrashAgent, Kill, Boot,
     LoseCatalog, NextSlot, vars, past
<1> QED  BY <1>1, <1>2, <1>3, <1>4, <1>5 DEF Next, Schedule

\* A run whose upload failed has its package, from the emergency row to the clean-up and after.
LEMMA RefusedStep ==
  ASSUME TypeOK, StepsInv, RowsInv, StoredInv, RefusedInv,
         TypeOK', StepsInv', RowsInv', [Next]_vars, NEW r \in refused'
  PROVE  /\ run'[r].trigger \in {"manual", "scheduled"}
         /\ pc'[r] \in {"fail", "cleanup", "done"}
         /\ pc'[r] # "done" => Kept(r)' \/ PushedOut(r)'
         /\ run'[r].status # "succeeded"
         /\ \/ run'[r].status = Nil
            \/ r \in files' /\ \E row \in rows' : row.pkg = r /\ row.type = "local"
            \/ PushedOut(r)'
<1> r \in Runs
  BY DEF TypeOK
<1>1. CASE UploadFails(r)
  <2>1. /\ pc[r] = "upload" /\ ToS3(r) /\ pc'[r] = "fail"
        /\ rows' = rows \cup (IF Local(r) THEN {} ELSE {Own(r, "local")})
        /\ UNCHANGED <<run, files>>
    BY <1>1 DEF UploadFails, Emergency, Goto, TypeOK
  <2>2. run[r].trigger \in {"manual", "scheduled"} /\ run[r].status # "succeeded"
    BY <2>1 DEF StepsInv, StepOf, Packaging, ToS3, Safety, Triggers
  <2>3. ~LoseCatalog
    BY <2>1 DEF LoseCatalog, Active, Packaging
  <2>4. Kept(r)' \/ PushedOut(r)'
    <3>1. CASE Local(r)
      <4>1. Kept(r) \/ PushedOut(r)
        BY <2>1, <3>1 DEF StoredInv, ToS3
      <4> QED  BY <2>1, <2>3, <4>1, KeptStays
    <3>2. CASE ~Local(r)
      <4>1. r \in files \/ PushedOut(r)
        BY <2>1 DEF StoredInv
      <4> QED  BY <2>1, <2>3, <3>2, <4>1, PushedOutStays DEF Kept, Own
    <3> QED  BY <3>1, <3>2
  <2> QED  BY <2>1, <2>2, <2>4 DEF Kept, Own
<1>2. CASE r \in refused
  <2>1. /\ run[r].trigger \in {"manual", "scheduled"} /\ run[r].status # "succeeded"
        /\ pc[r] \in {"fail", "cleanup", "done"}
        /\ pc[r] # "done" => Kept(r) \/ PushedOut(r)
        /\ \/ run[r].status = Nil
           \/ r \in files /\ \E row \in rows : row.pkg = r /\ row.type = "local"
           \/ PushedOut(r)
    BY <1>2 DEF RefusedInv, RefusedIsKept, PushedOut
  <2>2. run'[r].trigger = run[r].trigger
    BY <2>1, RunStays
  <2>3. pc'[r] \in {"fail", "cleanup", "done"} /\ (pc'[r] # "done" => pc[r] # "done")
    BY <2>1, TaskMoves
  <2>4. ASSUME pc'[r] # "done" PROVE Kept(r)' \/ PushedOut(r)'
    <3>1. pc[r] \in {"fail", "cleanup"}
      BY <2>1, <2>3, <2>4
    <3>2. ~LoseCatalog
      BY <3>1 DEF LoseCatalog, Active, Packaging
    <3> QED  BY <2>1, <3>1, <3>2, KeptStays
  <2>5. run'[r].status # "succeeded"
    BY <2>1, StatusMoves DEF Finish, Report
  <2>6. \/ run'[r].status = Nil
        \/ r \in files' /\ \E row \in rows' : row.pkg = r /\ row.type = "local"
        \/ PushedOut(r)'
    <3>1. CASE LoseCatalog
      BY <3>1 DEF LoseCatalog, TypeOK
    <3>2. CASE run[r].status = Nil
      BY <2>1, <3>2, StatusMoves
    <3>3. CASE ~LoseCatalog /\ PushedOut(r)
      BY <3>3, PushedOutStays
    <3>4. ASSUME ~LoseCatalog, r \in files, NEW row \in rows, row.pkg = r, row.type = "local"
          PROVE  (r \in files' /\ row \in rows') \/ PushedOut(r)
      <4>1. ASSUME row \notin rows' PROVE PushedOut(r)
        BY <3>4, <4>1, LocalRowsStay DEF StoredInv
      <4>2. ASSUME r \notin files' PROVE PushedOut(r)
        <5>1. ASSUME NEW q \in Runs, NEW x \in doomed[q], x.pkg = r PROVE PushedOut(r)
          BY <5>1 DEF StoredInv
        <5>2. ~Tidy(r) /\ ~ImportFails(r)
          BY <2>1 DEF Tidy, ImportFails, Importing
        <5>3. ASSUME Cleanup(r), {Own(r, "local"), Own(r, "safety")} \cap rows = {}
              PROVE  PushedOut(r)
          BY <2>1, <5>3 DEF Cleanup, Kept
        <5>4. ASSUME NEW x \in rows, x.pkg = r, DeleteImport(x) PROVE FALSE
          <6>1. run[r].trigger \in {"upload", Nil}
            BY <5>4 DEF DeleteImport, RowsInv, ListedOf
          <6> QED  BY <2>1, <6>1, NilAssumption DEF Triggers
        <5> QED  BY <3>4, <4>2, <5>1, <5>2, <5>3, <5>4, FilesLeave
      <4> QED  BY <4>1, <4>2
    <3> QED  BY <2>1, <3>1, <3>2, <3>3, <3>4
  <2> QED  BY <2>1, <2>2, <2>3, <2>4, <2>5, <2>6
<1> QED  BY <1>1, <1>2, RefusedArrive

-----------------------------------------------------------------------------
(* The catalogue before the first crash *)

\* Nothing lists a package that is on disk a second time, and its run has come far enough when
\* it is listed first.
LEMMA FirstListed ==
  ASSUME TypeOK, StepsInv, RowsInv, CatalogInv, crashes = 0, [Next]_vars,
         NEW row \in rows', row \notin rows, row.type # "s3"
  PROVE  /\ OnDisk(row.pkg) = {} /\ rows' = rows \cup {row}
         /\ pc'[row.pkg] \in {"upload", "fail", "cleanup", "report", "done"}
         /\ pc'[row.pkg] = "upload" => Local(row.pkg)'
<1> DEFINE First ==
         /\ OnDisk(row.pkg) = {} /\ rows' = rows \cup {row}
         /\ pc'[row.pkg] \in {"upload", "fail", "cleanup", "report", "done"}
         /\ pc'[row.pkg] = "upload" => Local(row.pkg)'
<1>1. ASSUME NEW r \in Runs, Catalog(r) PROVE First
  <2>1. /\ pc[r] = "catalog" /\ pc'[r] = "upload" /\ run' = run
        /\ Local(r) /\ row.pkg = r /\ rows' = rows \cup {row}
    BY <1>1 DEF Catalog, Goto, TypeOK, Own
  <2>2. Local(r)'
    BY <2>1 DEF Local, Safety
  <2>3. OnDisk(r) = {}
    BY <2>1 DEF CatalogInv
  <2> QED  BY <2>1, <2>2, <2>3
<1>2. ASSUME NEW r \in Runs, UploadFails(r) \/ PruneS3Fails(r) PROVE First
  <2>1. pc[r] \in {"upload", "pruneS3"} /\ pc'[r] = "fail" /\ Emergency(r)
    BY <1>2 DEF UploadFails, PruneS3Fails, Goto, TypeOK
  <2>2. ~Local(r) /\ row.pkg = r /\ rows' = rows \cup {row}
    BY <2>1 DEF Emergency, Own
  <2>3. OnDisk(r) = {}
    BY <2>1, <2>2 DEF CatalogInv, Packaging
  <2> QED  BY <2>1, <2>2, <2>3
<1>3. ASSUME NEW r \in Runs, List(r) PROVE First
  <2>1. /\ pc[r] = "list" /\ pc'[r] = "report" /\ row.pkg = r /\ rows' = rows \cup {row}
    BY <1>3 DEF List, Goto, TypeOK, Own
  <2>2. OnDisk(r) = {}
    BY <2>1 DEF CatalogInv
  <2> QED  BY <2>1, <2>2
<1>4. ASSUME Insert PROVE First
  <2>1. ~Listed(found) /\ row.pkg = found /\ rows' = rows \cup {row} /\ pc' = pc
    BY <1>4 DEF Insert, task
  <2>2. pc[found] \in {"cleanup", "report", "done"}
    BY <1>4 DEF Insert, CatalogInv
  <2>3. OnDisk(found) = {}
    BY <2>1 DEF Listed, OnDisk
  <2> QED  BY <2>1, <2>2, <2>3
<1>5. ASSUME NEW r \in Runs, CatalogS3(r) PROVE FALSE
  BY <1>5 DEF CatalogS3, Own
<1>6. ASSUME NEW r \in Runs, RunStep(r) \/ ImportStep(r), ~Catalog(r), ~CatalogS3(r), ~List(r)
      PROVE  FALSE
  BY <1>6 DEF RunStep, ImportStep, Package, Upload, Retain, Prune, PruneS3, Tidy, Finish,
     MarkFailed, Cleanup, Name, Report, store
<1>7. ASSUME NEW r \in Runs,
             \/ StartManual(r) \/ StartSafety(r) \/ StartImport(r) \/ StartScheduled(r)
             \/ PruneFails(r) \/ StepFails(r) \/ MarkFails(r) \/ ImportFails(r)
             \/ ImportCancelled(r)
      PROVE  FALSE
  BY <1>7 DEF StartManual, StartSafety, StartImport, StartScheduled, Begin, PruneFails,
     StepFails, MarkFails, ImportFails, ImportCancelled, store
<1>8. ASSUME NEW x \in rows, DeleteImport(x) PROVE FALSE
  BY <1>8 DEF DeleteImport
<1>9. ASSUME \/ Check \/ (\E p \in Runs : Visit(p)) \/ LoseLock \/ CrashApi \/ CrashAgent
             \/ Boot \/ LoseCatalog \/ NextSlot \/ UNCHANGED vars
      PROVE  FALSE
  BY <1>9 DEF Check, Visit, LoseLock, CrashApi, CrashAgent, Kill, Boot, LoseCatalog, NextSlot,
     vars, store
<1> QED
  BY <1>1, <1>2, <1>3, <1>4, <1>5, <1>6, <1>7, <1>8, <1>9 DEF Next, RunStep, ImportStep,
     Schedule

\* A rescan finds what an unfinished run has made only when the run is past its last use of it.
LEMMA FoundStep ==
  ASSUME TypeOK, StepsInv, CatalogInv, crashes = 0, [Next]_vars, found' # Nil
  PROVE  pc'[found'] \in {"cleanup", "report", "done"}
<1>1. CASE found' = found
  <2>1. pc[found] \in {"cleanup", "report", "done"} /\ found \in Runs
    BY <1>1 DEF CatalogInv, TypeOK
  <2> QED  BY <1>1, <2>1, TaskMoves
<1>2. ASSUME NEW p \in Runs, Visit(p) PROVE pc'[found'] \in {"cleanup", "report", "done"}
  <2>1. found' = p /\ pc' = pc /\ p \in files /\ run[p].status # "running"
    BY <1>2 DEF Visit, task
  <2>2. /\ pc[p] # "idle"
        /\ pc[p] \notin Packaging \ {"cleanup"} /\ pc[p] \notin {"receive", "list"}
    BY <2>1 DEF StepsInv, StepOf
  <2>3. pc[p] \in Packaging \cup Importing \cup {"idle", "done"}
    BY DEF TypeOK
  <2> QED  BY <2>1, <2>2, <2>3 DEF Importing
<1> QED  BY <1>1, <1>2, FoundArrives

\* Crashes are counted.
LEMMA CrashesCount ==
  ASSUME [Next]_vars, crashes \in Nat, crashes' = 0
  PROVE  crashes = 0
<1>1. ASSUME NEW r \in Runs, RunStep(r) \/ ImportStep(r) PROVE crashes' = crashes
  BY <1>1 DEF RunStep, ImportStep, Package, Catalog, Upload, CatalogS3, Retain, Prune, PruneS3,
     Tidy, Finish, MarkFailed, Cleanup, Name, List, Report, past
<1>2. ASSUME NEW r \in Runs,
             \/ StartManual(r) \/ StartSafety(r) \/ StartImport(r) \/ StartScheduled(r)
             \/ UploadFails(r) \/ PruneFails(r) \/ PruneS3Fails(r) \/ StepFails(r)
             \/ MarkFails(r) \/ ImportFails(r) \/ ImportCancelled(r)
      PROVE  crashes' = crashes
  BY <1>2 DEF StartManual, StartSafety, StartImport, StartScheduled, Begin, UploadFails,
     PruneFails, PruneS3Fails, StepFails, MarkFails, ImportFails, ImportCancelled, Fault, past
<1>3. ASSUME NEW row \in rows, DeleteImport(row) PROVE crashes' = crashes
  BY <1>3 DEF DeleteImport, past
<1>4. ASSUME CrashApi \/ CrashAgent PROVE FALSE
  BY <1>4 DEF CrashApi, CrashAgent, Kill
<1>5. ASSUME \/ Check \/ Insert \/ (\E p \in Runs : Visit(p)) \/ LoseLock \/ Boot
             \/ LoseCatalog \/ NextSlot \/ UNCHANGED vars
      PROVE  crashes' = crashes
  BY <1>5 DEF Check, Insert, Visit, LoseLock, Fault, Boot, LoseCatalog, NextSlot, vars, past
<1> QED  BY <1>1, <1>2, <1>3, <1>4, <1>5 DEF Next, Schedule

\* Before the first crash no package on disk is in the catalogue twice.
LEMMA CatalogStep ==
  ASSUME TypeOK, StepsInv, RowsInv, CatalogInv, TypeOK', [Next]_vars
  PROVE  CatalogInv'
<1> SUFFICES ASSUME crashes' = 0 PROVE CatalogInv'
  BY DEF CatalogInv
<1>1. crashes = 0
  BY CrashesCount DEF TypeOK
<1>2. ASSUME NEW r \in Runs, OnDisk(r)' # {}
      PROVE  /\ pc'[r] \notin {"idle", "package", "catalog", "receive", "list"}
             /\ pc'[r] \in Packaging \ {"fail", "cleanup"} => Local(r)'
  <2>1. PICK row \in rows' : row.pkg = r /\ row.type # "s3"
    BY <1>2 DEF OnDisk
  <2>2. CASE row \in rows
    <3>1. OnDisk(r) # {}
      BY <2>1, <2>2 DEF OnDisk
    <3>2. /\ pc[r] \notin {"idle", "package", "catalog", "receive", "list"}
          /\ pc[r] \in Packaging \ {"fail", "cleanup"} => Local(r)
      BY <1>1, <3>1 DEF CatalogInv
    <3>3. pc'[r] \notin {"idle", "package", "catalog", "receive", "list"}
      BY <3>2, RunStays, TaskMoves
    <3>4. ASSUME pc'[r] \in Packaging \ {"fail", "cleanup"} PROVE Local(r)'
      <4>1. pc[r] \in Packaging \ {"fail", "cleanup"} /\ pc[r] # "idle"
        BY <3>2, <3>4, TaskMoves
      <4>2. Local(r) /\ run[r].trigger \notin {"upload", Nil}
        BY <3>2, <4>1, ImportsWantNothing
      <4> QED  BY <4>1, <4>2, SettingsStay
    <3> QED  BY <3>3, <3>4
  <2>3. CASE row \notin rows
    BY <1>1, <2>1, <2>3, FirstListed DEF Packaging
  <2> QED  BY <2>2, <2>3
<1>3. ASSUME NEW r \in Runs, NEW one \in OnDisk(r)', NEW other \in OnDisk(r)' PROVE one = other
  <2>1. ASSUME NEW row \in OnDisk(r)', row \notin rows PROVE \A x \in OnDisk(r)' : x = row
    <3>1. OnDisk(r) = {} /\ rows' = rows \cup {row}
      BY <1>1, <2>1, FirstListed DEF OnDisk
    <3> QED  BY <3>1 DEF OnDisk
  <2>2. CASE one \in rows /\ other \in rows
    BY <1>1, <2>2 DEF CatalogInv, OnDisk
  <2> QED  BY <2>1, <2>2
<1>4. found' # Nil => pc'[found'] \in {"cleanup", "report", "done"}
  BY <1>1, FoundStep
<1> QED  BY <1>2, <1>3, <1>4 DEF CatalogInv

-----------------------------------------------------------------------------
(* Theorems *)

\* At first no run has been started and nothing is stored.
LEMMA InvInit == Init => IInv
<1> SUFFICES ASSUME Init PROVE IInv
  OBVIOUS
<1> USE DEF Init, NoRun
<1>1. TypeOK
  BY TypeInit
<1>2. Nil \notin {"succeeded", "running", "scheduled", "upload", "pre_restore"}
  BY NilAssumption DEF Triggers, Statuses
<1>3. StepsInv
  BY <1>2 DEF StepsInv, StepOf, OfApi, Active, Packaging, Importing, Safety
<1>4. RowsInv
  BY FS_EmptySet DEF RowsInv
<1>5. DueInv /\ SlotOnce
  BY <1>1, <1>2, BoundsAssumption DEF DueInv, SlotOnce, TypeOK
<1>6. StoredInv
  BY <1>2 DEF StoredInv, Shipping
<1>7. RefusedInv
  BY DEF RefusedInv, RefusedIsKept
<1>8. CatalogInv
  BY DEF CatalogInv, OnDisk
<1> QED  BY <1>1, <1>3, <1>4, <1>5, <1>6, <1>7, <1>8 DEF IInv

\* Every step keeps the inductive invariant.
LEMMA InvStep == IInv /\ [Next]_vars => IInv'
<1> SUFFICES ASSUME IInv, [Next]_vars PROVE IInv'
  OBVIOUS
<1> USE DEF IInv
<1>1. TypeOK'
  BY TypeStep
<1>2. StepsInv'
  BY StepsStep
<1>3. RowsInv'
  BY <1>1, RowsStep
<1>4. DueInv' /\ SlotOnce'
  BY DueStep
<1>5. StoredInv'
  BY <1>1, <1>2, <1>3, StoredStep
<1>6. RefusedInv'
  BY <1>1, <1>2, <1>3, RefusedStep DEF RefusedInv, RefusedIsKept, PushedOut
<1>7. CatalogInv'
  BY <1>1, CatalogStep
<1> QED  BY <1>1, <1>2, <1>3, <1>4, <1>5, <1>6, <1>7

\* The steps of the runs, the catalogue, the disk and the bucket go together in every
\* reachable state.
THEOREM RunsInvariant == Spec => []IInv
  BY InvInit, InvStep, PTL DEF Spec

\* The invariant contains what a run's row promises.
LEMMA InvSays == IInv => RunsInv
<1> SUFFICES ASSUME IInv PROVE RunsInv
  OBVIOUS
<1> USE DEF IInv
<1>1. SucceededIsStored
  BY DEF SucceededIsStored, StoredInv, PushedOut, PushedOutS3, NewerRemote
<1>2. ListedOnce
  <2> SUFFICES ASSUME crashes = 0, NEW one \in rows, NEW other \in rows,
                      one.pkg = other.pkg, one.type # "s3", other.type # "s3"
               PROVE  one = other
    BY DEF ListedOnce
  <2>1. one.pkg \in Runs /\ one \in OnDisk(one.pkg) /\ other \in OnDisk(one.pkg)
    BY DEF TypeOK, Row, OnDisk
  <2> QED  BY <2>1 DEF CatalogInv
<1> QED  BY <1>1, <1>2 DEF RunsInv, RefusedInv

\* Whatever fails, ends or is lost: a succeeded run has its package where its settings want it
\* unless enough newer ones have pushed it out, a run whose upload failed has it on disk and in
\* the catalogue, a due time gets one scheduled run, and before a crash a package is listed
\* once (run_backup_inner_for_run, prune_retained_artifacts, reconcile_local_catalog).
THEOREM RunsHold == Spec => []RunsInv
  BY RunsInvariant, InvSays, PTL

\* Retention, clean-up, rescans, crashes and the loss of the catalogue take no completed safety
\* package and no completed import from the disk; the owner's deletion of an import does
\* (prune_retained_artifacts, delete_uploaded_artifact).
THEOREM SafetyKept == Spec => SafetyStands
<1> DEFINE Stands ==
      \A p \in finished : run[p].trigger \in {"pre_restore", "upload"} /\ p \in files =>
         \/ p \in files'
         \/ \E row \in rows : row.pkg = p /\ DeleteImport(row)
<1>1. IInv /\ [Next]_vars => Stands
  <2> SUFFICES ASSUME IInv, [Next]_vars, NEW p \in finished,
                      run[p].trigger \in {"pre_restore", "upload"}, p \in files, p \notin files'
               PROVE  \E row \in rows : row.pkg = p /\ DeleteImport(row)
    OBVIOUS
  <2> USE DEF IInv
  <2>1. pc[p] = "done"
    BY DEF StepsInv
  <2>2. ~Tidy(p) /\ ~Cleanup(p) /\ ~ImportFails(p)
    BY <2>1 DEF Tidy, Cleanup, ImportFails, Importing
  <2>3. ASSUME NEW r \in Runs, NEW row \in doomed[r], row.pkg = p PROVE FALSE
    BY <2>3 DEF StoredInv, RowsInv, RowOf
  <2> QED  BY <2>2, <2>3, FilesLeave
<1>2. IInv /\ [Next]_vars => [Stands]_vars
  BY <1>1
<1> HIDE DEF Stands
<1>3. Spec => [][Stands]_vars
  BY <1>2, RunsInvariant, PTL DEF Spec
<1> QED  BY <1>3 DEF SafetyStands, Stands
=============================================================================
