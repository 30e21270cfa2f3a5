------------------------- MODULE RestoreAgentProofs -------------------------
(***************************************************************************)
(* Proofs about RestoreAgent, for every set of packages, with or without   *)
(* artwork, and every bound on retries, crashes and faults.                *)
(*                                                                         *)
(* TypeOK is not inductive by itself: RetryWrite increments a copy's       *)
(* retry count, which is in range only because of RetryBound.  The three   *)
(* database properties follow from DatabaseInv, those of the artwork, of   *)
(* a completed job and of the single steps from ActivationInv.             *)
(***************************************************************************)
EXTENDS RestoreAgent, TLAPS

\* Every edit the agent and the API make to the journal yields a journal.
LEMMA JournalEdits ==
  ASSUME NEW j \in Journal
  PROVE  /\ \A p \in Phases : [j EXCEPT !.phase = p] \in Journal
         /\ [j EXCEPT !.retryable = FALSE] \in Journal
         /\ [j EXCEPT !.reconciled = TRUE] \in Journal
         /\ [j EXCEPT !.rollback = "Succeeded", !.retryable = TRUE] \in Journal
         /\ [j EXCEPT !.phase = "RollingBack", !.rollback = "InProgress"] \in Journal
         /\ [j EXCEPT !.previous = TRUE, !.rollback = "Available",
                      !.phase = "StoppingApplication"] \in Journal
<1>1. \A p \in Phases : [j EXCEPT !.phase = p] \in Journal
  BY DEF Journal
<1>2. [j EXCEPT !.retryable = FALSE] \in Journal
  BY DEF Journal
<1>3. [j EXCEPT !.reconciled = TRUE] \in Journal
  BY DEF Journal
<1>4. [j EXCEPT !.rollback = "Succeeded", !.retryable = TRUE] \in Journal
  BY DEF Journal
<1>5. [j EXCEPT !.phase = "RollingBack", !.rollback = "InProgress"] \in Journal
  BY DEF Journal, Phases
<1>6. [j EXCEPT !.previous = TRUE, !.rollback = "Available",
                !.phase = "StoppingApplication"] \in Journal
  BY DEF Journal, Phases
<1> QED  BY <1>1, <1>2, <1>3, <1>4, <1>5, <1>6

-----------------------------------------------------------------------------
(* Type correctness *)

\* A queued job, the original database and idle processes are well-typed.
LEMMA TypeInit == Init => TypeOK
<1> SUFFICES ASSUME Init PROVE TypeOK
  OBVIOUS
<1>1. staged \in BOOLEAN /\ marker \in BOOLEAN /\ artHeld \in BOOLEAN
      /\ uploading \in BOOLEAN /\ verified \in BOOLEAN
  BY DEF Init
<1>2. job \in Journal
  BY BoundsAssumption DEF Init, Journal, Phases
<1> QED
  BY <1>1, <1>2, PackagesAssumption, BoundsAssumption
  DEF Init, TypeOK, Database, Statuses, ArtKinds, Package, AgentPcs, RetryPcs, NoDb

\* Every step keeps the types, given that a retry counts up from below the limit.
LEMMA TypeStep == TypeOK /\ RetryBound /\ [Next]_vars => TypeOK'
<1> SUFFICES ASSUME TypeOK, RetryBound, [Next]_vars PROVE TypeOK'
  OBVIOUS
<1> USE BoundsAssumption
<1> USE DEF Database, Statuses, ArtKinds, AgentPcs, RetryPcs, InnerPcs,
            PreparePcs, SwapPcs, ActivatePcs, RollbackPcs, FinishPcs, NoDb
<1>1. CASE HandoffNext
  <2>1. CASE HandoffPrepare
    <3>1. job' \in Journal
      BY <2>1, JournalEdits DEF HandoffPrepare, Phase, TypeOK, Phases
    <3> QED  BY <2>1, <3>1 DEF HandoffPrepare, Phase, disk, agent, others, TypeOK
  <2>2. CASE HandoffAccepted
    BY <2>2 DEF HandoffAccepted, dbs, disk, others, TypeOK
  <2>3. CASE HandoffDone
    BY <2>3 DEF HandoffDone, dbs, disk, agent, others, TypeOK
  <2>4. CASE HandoffFails
    <3>1. job' \in Journal
      BY <2>4, JournalEdits DEF HandoffFails, Phase, TypeOK, Phases
    <3> QED  BY <2>4, <3>1 DEF HandoffFails, Phase, Fault, disk, agent, others, TypeOK
  <2> QED  BY <1>1, <2>1, <2>2, <2>3, <2>4 DEF HandoffNext
<1>2. CASE RetryNext
  <2>1. CASE BootSkip
    BY <2>1 DEF BootSkip, Interrupted, dbs, disk, procs, others, TypeOK
  <2>2. CASE BootRetry
    <3>1. artHeld' \in BOOLEAN /\ held' \subseteq Journal
      BY <2>2 DEF BootRetry, TypeOK
    <3> QED  BY <2>2, <3>1 DEF BootRetry, Fault, NoFault, Interrupted, dbs, disk, procs,
                  others, TypeOK
  <2>3. CASE WriteMarker("retryMark", "retryStop")
    BY <2>3 DEF WriteMarker, dbs, disk, procs, others, TypeOK
  <2>4. CASE TermApi("retryStop")
    BY <2>4 DEF TermApi, dbs, disk, agent, others, TypeOK
  <2>5. CASE ApiGone("retryStop", "retryDb")
    BY <2>5 DEF ApiGone, dbs, disk, procs, others, TypeOK
  <2>6. CASE ApiStaysIgnored("retryStop", "retryDb")
    BY <2>6 DEF ApiStaysIgnored, Fault, dbs, disk, procs, others, TypeOK
  <2>7. CASE RetryRollBackDb
    BY <2>7 DEF RetryRollBackDb, Fault, NoFault, SwapBack, CanRollBack, disk, procs,
         others, TypeOK
  <2>8. CASE RetryFinish
    <3>1. marker' \in BOOLEAN
      BY <2>8 DEF RetryFinish
    <3> QED  BY <2>8, <3>1 DEF RetryFinish, SupervisorNoticed, disk, procs, others, TypeOK
  <2>9. CASE RetryWrite
    <3>1. PICK copy \in held :
             job' = [copy EXCEPT !.phase = "PreparingCandidate", !.retries = @ + 1]
      BY <2>9 DEF RetryWrite
    <3>2. copy \in Journal /\ copy.retries < MaxRetries
      BY DEF TypeOK, RetryBound
    <3>3. copy.retries + 1 \in 0..MaxRetries
      BY <3>2, BoundsAssumption DEF Journal
    <3>4. job' \in Journal  BY <3>1, <3>2, <3>3 DEF Journal, Phases
    <3> QED  BY <2>9, <3>4 DEF RetryWrite, dbs, disk, procs, others, TypeOK
  <2> QED  BY <1>2, <2>1, <2>2, <2>3, <2>4, <2>5, <2>6, <2>7, <2>8, <2>9 DEF RetryNext
<1>3. CASE PrepareNext
  <2>1. CASE AcquireLock
    BY <2>1 DEF AcquireLock, dbs, disk, agent, procs, others, TypeOK
  <2>2. CASE ClearStaging
    <3>1. staged' \in BOOLEAN
      BY <2>2 DEF ClearStaging
    <3> QED  BY <2>2, <3>1 DEF ClearStaging, dbs, procs, others, TypeOK
  <2>3. CASE Extract
    <3>1. staged' \in BOOLEAN
      BY <2>3 DEF Extract, TypeOK
    <3>2. job' \in Journal
      BY <2>3, JournalEdits DEF Extract, Phase, TypeOK, Phases
    <3> QED  BY <2>3, <3>1, <3>2 DEF Extract, Phase, Fault, NoFault, Fail, dbs, procs,
                  others, agent, TypeOK
  <2>4. CASE CreateCandidate
    BY <2>4 DEF CreateCandidate, disk, procs, others, TypeOK
  <2>5. CASE RestoreCandidate
    <3>1. job' \in Journal
      BY <2>5, JournalEdits DEF RestoreCandidate, Phase, TypeOK, Phases
    <3> QED  BY <2>5, <3>1 DEF RestoreCandidate, Phase, Fault, NoFault, Fail,
                  SupervisorNoticed, disk, procs, others, agent, TypeOK
  <2>6. CASE SafetyBackup
    BY <2>6 DEF SafetyBackup, Fault, NoFault, Fail, disk, procs, others, agent, TypeOK
  <2>7. CASE Checkpoint
    <3>1. job' \in Journal
      BY <2>7, JournalEdits DEF Checkpoint, TypeOK, Phases
    <3> QED  BY <2>7, <3>1 DEF Checkpoint, dbs, disk, procs, others, TypeOK
  <2>8. CASE WriteMarker("mark", "stop")
    BY <2>8 DEF WriteMarker, dbs, disk, procs, others, TypeOK
  <2>9. CASE TermApi("stop")
    BY <2>9 DEF TermApi, dbs, disk, agent, others, TypeOK
  <2>10. CASE ApiGone("stop", "terminate")
    BY <2>10 DEF ApiGone, dbs, disk, procs, others, TypeOK
  <2>11. CASE StopTimesOut
    BY <2>11 DEF StopTimesOut, Fault, Fail, dbs, disk, procs, others, agent, TypeOK
  <2>12. CASE TerminateSessions
    <3>1. job' \in Journal
      BY <2>12, JournalEdits DEF TerminateSessions, Phase, TypeOK, Phases
    <3> QED  BY <2>12, <3>1 DEF TerminateSessions, Phase, dbs, disk, procs, others, TypeOK
  <2>13. CASE SwapDatabases
    BY <2>13 DEF SwapDatabases, Fault, NoFault, Fail, SwapIn, CanSwap, disk, procs,
         others, agent, TypeOK
  <2> QED  BY <1>3, <2>1, <2>2, <2>3, <2>4, <2>5, <2>6, <2>7, <2>8, <2>9, <2>10, <2>11,
                <2>12, <2>13 DEF PrepareNext
<1>4. CASE ActivateNext
  <2>1. CASE UpdateSettings
    <3>1. job' \in Journal
      BY <2>1, JournalEdits DEF UpdateSettings, Phase, TypeOK, Phases
    <3> QED  BY <2>1, <3>1 DEF UpdateSettings, Phase, Fault, NoFault, RollBackFrom, dbs,
                  disk, procs, others, TypeOK
  <2>2. CASE MoveArtworkAside
    BY <2>2 DEF MoveArtworkAside, Fault, NoFault, RollBackFrom, SupervisorNoticed, dbs,
         procs, others, TypeOK
  <2>3. CASE PlaceArtwork
    <3>1. job' \in Journal
      BY <2>3, JournalEdits DEF PlaceArtwork, Phase, TypeOK, Phases
    <3>2. art' \in ArtKinds /\ artHeld' \in BOOLEAN
      BY <2>3 DEF PlaceArtwork, TypeOK, Package
    <3>3. pc' \in AgentPcs /\ faults' \in 0..MaxFaults
      BY <2>3, BoundsAssumption DEF PlaceArtwork, Fault, NoFault, TypeOK
    <3> QED  BY <2>3, <3>1, <3>2, <3>3 DEF PlaceArtwork, dbs, procs, others, TypeOK
  <2>4. CASE RemoveMarker
    <3>1. marker' \in BOOLEAN
      BY <2>4 DEF RemoveMarker
    <3>2. job' \in Journal
      BY <2>4, JournalEdits, ZenonT(30) DEF RemoveMarker, Phase, TypeOK, Phases
    <3> QED  BY <2>4, <3>1, <3>2 DEF RemoveMarker, Phase, Fault, NoFault, dbs, disk,
                  procs, others, TypeOK
  <2>5. CASE VerifyPasses
    BY <2>5 DEF VerifyPasses, Healthy, dbs, disk, procs, TypeOK
  <2>6. CASE VerifyFails
    BY <2>6 DEF VerifyFails, Fault, NoFault, RollBackFrom, Healthy, dbs, disk, procs,
         others, TypeOK
  <2>7. CASE FinalizeArtwork
    BY <2>7 DEF FinalizeArtwork, dbs, procs, others, TypeOK
  <2>8. CASE RemoveStaging
    <3>1. staged' \in BOOLEAN
      BY <2>8 DEF RemoveStaging
    <3> QED  BY <2>8, <3>1 DEF RemoveStaging, dbs, procs, others, TypeOK
  <2>9. CASE DropPrevious
    BY <2>9 DEF DropPrevious, Fault, NoFault, disk, procs, others, TypeOK
  <2>10. CASE Complete
    <3>1. job' \in Journal
      BY <2>10, JournalEdits DEF Complete, Phase, TypeOK, Phases
    <3> QED  BY <2>10, <3>1 DEF Complete, Phase, dbs, disk, agent, procs, others, TypeOK
  <2> QED  BY <1>4, <2>1, <2>2, <2>3, <2>4, <2>5, <2>6, <2>7, <2>8, <2>9, <2>10
                DEF ActivateNext
<1>5. CASE RollbackNext
  <2>1. CASE RollbackWrite
    <3>1. job' \in Journal
      BY <2>1, JournalEdits DEF RollbackWrite, TypeOK, Phases
    <3> QED  BY <2>1, <3>1 DEF RollbackWrite, Fault, NoFault, dbs, disk, procs, others,
                  TypeOK
  <2>2. CASE WriteMarker("rbMark", "rbStop")
    BY <2>2 DEF WriteMarker, dbs, disk, procs, others, TypeOK
  <2>3. CASE TermApi("rbStop")
    BY <2>3 DEF TermApi, dbs, disk, agent, others, TypeOK
  <2>4. CASE ApiGone("rbStop", "rbDb")
    BY <2>4 DEF ApiGone, dbs, disk, procs, others, TypeOK
  <2>5. CASE ApiStaysIgnored("rbStop", "rbDb")
    BY <2>5 DEF ApiStaysIgnored, Fault, dbs, disk, procs, others, TypeOK
  <2>6. CASE RollBackDb
    BY <2>6 DEF RollBackDb, Fault, NoFault, SwapBack, CanRollBack, disk, procs, others,
         TypeOK
  <2>7. CASE RollBackArtwork
    BY <2>7 DEF RollBackArtwork, dbs, procs, others, TypeOK
  <2>8. CASE RollbackUnmark
    <3>1. marker' \in BOOLEAN
      BY <2>8 DEF RollbackUnmark
    <3> QED  BY <2>8, <3>1 DEF RollbackUnmark, dbs, disk, procs, others, TypeOK
  <2>9. CASE RollbackHealth
    <3>1. job' \in Journal
      BY <2>9, JournalEdits DEF RollbackHealth, TypeOK, Phases
    <3> QED  BY <2>9, <3>1 DEF RollbackHealth, Fault, NoFault, dbs, disk, procs, others,
                  TypeOK
  <2> QED  BY <1>5, <2>1, <2>2, <2>3, <2>4, <2>5, <2>6, <2>7, <2>8, <2>9 DEF RollbackNext
<1>6. CASE FailNext
  <2>1. CASE FailWritesJournal
    <3>1. job' \in Journal
      BY <2>1, JournalEdits DEF FailWritesJournal, Phase, TypeOK, Phases
    <3> QED  BY <2>1, <3>1 DEF FailWritesJournal, Phase, dbs, disk, procs, others, TypeOK
  <2>2. CASE FailRemovesMarker
    <3>1. marker' \in BOOLEAN
      BY <2>2 DEF FailRemovesMarker
    <3> QED  BY <2>2, <3>1 DEF FailRemovesMarker, dbs, disk, procs, others, TypeOK
  <2> QED  BY <1>6, <2>1, <2>2 DEF FailNext
<1>7. CASE Deadline
  BY <1>7 DEF Deadline, Fault, Fail, dbs, disk, procs, others, agent, TypeOK
<1>8. CASE ApiNext
  <2>1. CASE ApiBoots
    BY <2>1 DEF ApiBoots, Boots, dbs, disk, agent, others, TypeOK
  <2>2. CASE ApiExits
    <3>1. uploading' \in BOOLEAN
      BY <2>2 DEF ApiExits
    <3> QED  BY <2>2, <3>1 DEF ApiExits, Boots, dbs, disk, agent, others, TypeOK
  <2> QED  BY <1>8, <2>1, <2>2 DEF ApiNext
<1>9. CASE ShellNext
  <2>1. CASE ShellWaits
    BY <2>1 DEF ShellWaits, dbs, disk, agent, others, TypeOK
  <2>2. CASE ShellSeesMarkerGone
    BY <2>2 DEF ShellSeesMarkerGone, dbs, disk, agent, others, TypeOK
  <2>3. CASE ShellStartsApi
    BY <2>3 DEF ShellStartsApi, dbs, disk, agent, others, TypeOK
  <2>4. CASE ShellShutsDown
    <3>1. marker' \in BOOLEAN /\ artHeld' \in BOOLEAN /\ uploading' \in BOOLEAN
      BY <2>4 DEF ShellShutsDown, ContainerRestarts
    <3> QED  BY <2>4, <3>1 DEF ShellShutsDown, ContainerRestarts, dbs, disk, TypeOK
  <2> QED  BY <1>9, <2>1, <2>2, <2>3, <2>4 DEF ShellNext
<1>10. CASE ReconcileNext
  <2>1. CASE ReconcileRead
    BY <2>1 DEF ReconcileRead, dbs, disk, agent, others, Terminal, TypeOK
  <2>2. CASE ReconcileWrite
    <3>1. PICK copy \in rec :
             /\ live' = [live EXCEPT !.req =
                            IF copy.phase = "Completed" THEN "completed" ELSE "failed"]
             /\ job' = [copy EXCEPT !.reconciled = TRUE]
      BY <2>2 DEF ReconcileWrite
    <3>2. job' \in Journal  BY <3>1, JournalEdits DEF TypeOK
    <3>3. live' \in Database  BY <3>1 DEF TypeOK, Database, Statuses
    <3> QED  BY <2>2, <3>2, <3>3 DEF ReconcileWrite, disk, agent, others, TypeOK
  <2> QED  BY <1>10, <2>1, <2>2 DEF ReconcileNext
<1>11. CASE UploadNext
  <2>1. CASE UploadStarts
    BY <2>1 DEF UploadStarts, dbs, disk, agent, others, TypeOK
  <2>2. CASE UploadEnds
    <3>1. uploading' \in BOOLEAN
      BY <2>2 DEF UploadEnds
    <3> QED  BY <2>2, <3>1 DEF UploadEnds, dbs, disk, agent, others, TypeOK
  <2> QED  BY <1>11, <2>1, <2>2 DEF UploadNext
<1>12. CASE Crash
  <2>1. marker' \in BOOLEAN /\ artHeld' \in BOOLEAN /\ uploading' \in BOOLEAN
    BY <1>12 DEF Crash, ContainerRestarts
  <2> QED  BY <1>12, <2>1 DEF Crash, ContainerRestarts, dbs, disk, TypeOK
<1>13. CASE UNCHANGED vars
  BY <1>13 DEF vars, dbs, disk, agent, procs, others, TypeOK
<1> QED  BY <1>1, <1>2, <1>3, <1>4, <1>5, <1>6, <1>7, <1>8, <1>9, <1>10, <1>11, <1>12,
              <1>13 DEF Next, AgentNext

\* A copy of the journal is held only if it was read below the limit of retries.
LEMMA RetryBoundStep == TypeOK /\ RetryBound /\ [Next]_vars => RetryBound'
<1> SUFFICES ASSUME TypeOK, RetryBound, [Next]_vars PROVE RetryBound'
  OBVIOUS
<1>1. CASE HandoffNext
  <2>1. CASE HandoffPrepare
    BY <2>1 DEF HandoffPrepare, others, RetryBound
  <2>2. CASE HandoffAccepted
    BY <2>2 DEF HandoffAccepted, others, RetryBound
  <2>3. CASE HandoffDone
    BY <2>3 DEF HandoffDone, others, RetryBound
  <2>4. CASE HandoffFails
    BY <2>4 DEF HandoffFails, others, RetryBound
  <2> QED  BY <1>1, <2>1, <2>2, <2>3, <2>4 DEF HandoffNext
<1>2. CASE RetryNext
  <2>1. CASE BootSkip
    BY <2>1 DEF BootSkip, others, RetryBound
  <2>2. CASE BootRetry
    BY <2>2 DEF BootRetry, Interrupted, RetryBound
  <2>3. CASE WriteMarker("retryMark", "retryStop")
    BY <2>3 DEF WriteMarker, others, RetryBound
  <2>4. CASE TermApi("retryStop")
    BY <2>4 DEF TermApi, others, RetryBound
  <2>5. CASE ApiGone("retryStop", "retryDb")
    BY <2>5 DEF ApiGone, others, RetryBound
  <2>6. CASE ApiStaysIgnored("retryStop", "retryDb")
    BY <2>6 DEF ApiStaysIgnored, others, RetryBound
  <2>7. CASE RetryRollBackDb
    BY <2>7 DEF RetryRollBackDb, others, RetryBound
  <2>8. CASE RetryFinish
    BY <2>8 DEF RetryFinish, others, RetryBound
  <2>9. CASE RetryWrite
    BY <2>9 DEF RetryWrite, others, RetryBound
  <2> QED  BY <1>2, <2>1, <2>2, <2>3, <2>4, <2>5, <2>6, <2>7, <2>8, <2>9 DEF RetryNext
<1>3. CASE PrepareNext
  <2>1. CASE AcquireLock
    BY <2>1 DEF AcquireLock, others, RetryBound
  <2>2. CASE ClearStaging
    BY <2>2 DEF ClearStaging, others, RetryBound
  <2>3. CASE Extract
    BY <2>3 DEF Extract, others, RetryBound
  <2>4. CASE CreateCandidate
    BY <2>4 DEF CreateCandidate, others, RetryBound
  <2>5. CASE RestoreCandidate
    BY <2>5 DEF RestoreCandidate, others, RetryBound
  <2>6. CASE SafetyBackup
    BY <2>6 DEF SafetyBackup, others, RetryBound
  <2>7. CASE Checkpoint
    BY <2>7 DEF Checkpoint, others, RetryBound
  <2>8. CASE WriteMarker("mark", "stop")
    BY <2>8 DEF WriteMarker, others, RetryBound
  <2>9. CASE TermApi("stop")
    BY <2>9 DEF TermApi, others, RetryBound
  <2>10. CASE ApiGone("stop", "terminate")
    BY <2>10 DEF ApiGone, others, RetryBound
  <2>11. CASE StopTimesOut
    BY <2>11 DEF StopTimesOut, others, RetryBound
  <2>12. CASE TerminateSessions
    BY <2>12 DEF TerminateSessions, others, RetryBound
  <2>13. CASE SwapDatabases
    BY <2>13 DEF SwapDatabases, others, RetryBound
  <2> QED  BY <1>3, <2>1, <2>2, <2>3, <2>4, <2>5, <2>6, <2>7, <2>8, <2>9, <2>10, <2>11,
                <2>12, <2>13 DEF PrepareNext
<1>4. CASE ActivateNext
  <2>1. CASE UpdateSettings
    BY <2>1 DEF UpdateSettings, others, RetryBound
  <2>2. CASE MoveArtworkAside
    BY <2>2 DEF MoveArtworkAside, others, RetryBound
  <2>3. CASE PlaceArtwork
    BY <2>3 DEF PlaceArtwork, others, RetryBound
  <2>4. CASE RemoveMarker
    BY <2>4 DEF RemoveMarker, others, RetryBound
  <2>5. CASE VerifyPasses
    BY <2>5 DEF VerifyPasses, RetryBound
  <2>6. CASE VerifyFails
    BY <2>6 DEF VerifyFails, others, RetryBound
  <2>7. CASE FinalizeArtwork
    BY <2>7 DEF FinalizeArtwork, others, RetryBound
  <2>8. CASE RemoveStaging
    BY <2>8 DEF RemoveStaging, others, RetryBound
  <2>9. CASE DropPrevious
    BY <2>9 DEF DropPrevious, others, RetryBound
  <2>10. CASE Complete
    BY <2>10 DEF Complete, others, RetryBound
  <2> QED  BY <1>4, <2>1, <2>2, <2>3, <2>4, <2>5, <2>6, <2>7, <2>8, <2>9, <2>10
                DEF ActivateNext
<1>5. CASE RollbackNext
  <2>1. CASE RollbackWrite
    BY <2>1 DEF RollbackWrite, others, RetryBound
  <2>2. CASE WriteMarker("rbMark", "rbStop")
    BY <2>2 DEF WriteMarker, others, RetryBound
  <2>3. CASE TermApi("rbStop")
    BY <2>3 DEF TermApi, others, RetryBound
  <2>4. CASE ApiGone("rbStop", "rbDb")
    BY <2>4 DEF ApiGone, others, RetryBound
  <2>5. CASE ApiStaysIgnored("rbStop", "rbDb")
    BY <2>5 DEF ApiStaysIgnored, others, RetryBound
  <2>6. CASE RollBackDb
    BY <2>6 DEF RollBackDb, others, RetryBound
  <2>7. CASE RollBackArtwork
    BY <2>7 DEF RollBackArtwork, others, RetryBound
  <2>8. CASE RollbackUnmark
    BY <2>8 DEF RollbackUnmark, others, RetryBound
  <2>9. CASE RollbackHealth
    BY <2>9 DEF RollbackHealth, others, RetryBound
  <2> QED  BY <1>5, <2>1, <2>2, <2>3, <2>4, <2>5, <2>6, <2>7, <2>8, <2>9 DEF RollbackNext
<1>6. CASE FailNext
  <2>1. CASE FailWritesJournal
    BY <2>1 DEF FailWritesJournal, others, RetryBound
  <2>2. CASE FailRemovesMarker
    BY <2>2 DEF FailRemovesMarker, others, RetryBound
  <2> QED  BY <1>6, <2>1, <2>2 DEF FailNext
<1>7. CASE Deadline
  BY <1>7 DEF Deadline, others, RetryBound
<1>8. CASE ApiNext
  <2>1. CASE ApiBoots
    BY <2>1 DEF ApiBoots, others, RetryBound
  <2>2. CASE ApiExits
    BY <2>2 DEF ApiExits, others, RetryBound
  <2> QED  BY <1>8, <2>1, <2>2 DEF ApiNext
<1>9. CASE ShellNext
  <2>1. CASE ShellWaits
    BY <2>1 DEF ShellWaits, others, RetryBound
  <2>2. CASE ShellSeesMarkerGone
    BY <2>2 DEF ShellSeesMarkerGone, others, RetryBound
  <2>3. CASE ShellStartsApi
    BY <2>3 DEF ShellStartsApi, others, RetryBound
  <2>4. CASE ShellShutsDown
    BY <2>4 DEF ShellShutsDown, ContainerRestarts, RetryBound
  <2> QED  BY <1>9, <2>1, <2>2, <2>3, <2>4 DEF ShellNext
<1>10. CASE ReconcileNext
  <2>1. CASE ReconcileRead
    BY <2>1 DEF ReconcileRead, others, RetryBound
  <2>2. CASE ReconcileWrite
    BY <2>2 DEF ReconcileWrite, others, RetryBound
  <2> QED  BY <1>10, <2>1, <2>2 DEF ReconcileNext
<1>11. CASE UploadNext
  <2>1. CASE UploadStarts
    BY <2>1 DEF UploadStarts, others, RetryBound
  <2>2. CASE UploadEnds
    BY <2>2 DEF UploadEnds, others, RetryBound
  <2> QED  BY <1>11, <2>1, <2>2 DEF UploadNext
<1>12. CASE Crash
  BY <1>12 DEF Crash, ContainerRestarts, RetryBound
<1>13. CASE UNCHANGED vars
  BY <1>13 DEF vars, others, RetryBound
<1> QED  BY <1>1, <1>2, <1>3, <1>4, <1>5, <1>6, <1>7, <1>8, <1>9, <1>10, <1>11, <1>12,
              <1>13 DEF Next, AgentNext

\* Every reachable state is well-typed, and no run takes more than MaxRetries retries.
THEOREM TypeCorrect == Spec => []TypeOK
<1>1. Init => TypeOK /\ RetryBound
  BY TypeInit DEF Init, RetryBound
<1>2. TypeOK /\ RetryBound /\ [Next]_vars => TypeOK' /\ RetryBound'
  BY TypeStep, RetryBoundStep
<1> QED  BY <1>1, <1>2, PTL DEF Spec

-----------------------------------------------------------------------------
(* The three databases *)

\* Every step keeps the three databases in one of their legal arrangements.
LEMMA DatabaseStep == TypeOK /\ DatabaseInv /\ [Next]_vars => DatabaseInv'
<1> SUFFICES ASSUME TypeOK, DatabaseInv, [Next]_vars PROVE DatabaseInv'
  OBVIOUS
<1> USE DEF NoDb, ReadyPcs, RetryPcs, InnerPcs, PreparePcs, SwapPcs, ActivatePcs,
            RollbackPcs, FinishPcs
<1>0. live \in Database /\ cand \in Database /\ prev \in Database
  BY DEF TypeOK
<1>1. CASE HandoffNext
  <2>1. CASE HandoffPrepare
    BY <2>1, <1>0 DEF HandoffPrepare, Phase, disk, agent, others, DatabaseInv,
         OriginalKept, Database, Statuses
  <2>2. CASE HandoffAccepted
    BY <2>2, <1>0 DEF HandoffAccepted, dbs, disk, others, DatabaseInv, OriginalKept,
         Database, Statuses
  <2>3. CASE HandoffDone
    BY <2>3, <1>0 DEF HandoffDone, dbs, disk, agent, others, DatabaseInv, OriginalKept,
         Database, Statuses
  <2>4. CASE HandoffFails
    BY <2>4, <1>0 DEF HandoffFails, Phase, Fault, disk, agent, others, DatabaseInv,
         OriginalKept, Database, Statuses
  <2> QED  BY <1>1, <2>1, <2>2, <2>3, <2>4 DEF HandoffNext
<1>2. CASE RetryNext
  <2>1. CASE BootSkip
    BY <2>1, <1>0 DEF BootSkip, Interrupted, dbs, disk, procs, others, DatabaseInv,
         OriginalKept, Database, Statuses
  <2>2. CASE BootRetry
    BY <2>2, <1>0 DEF BootRetry, Fault, NoFault, Interrupted, dbs, disk, procs, others,
         DatabaseInv, OriginalKept, Database, Statuses
  <2>3. CASE WriteMarker("retryMark", "retryStop")
    BY <2>3, <1>0 DEF WriteMarker, dbs, disk, procs, others, DatabaseInv, OriginalKept,
         Database, Statuses
  <2>4. CASE TermApi("retryStop")
    BY <2>4, <1>0 DEF TermApi, dbs, disk, agent, others, DatabaseInv, OriginalKept,
         Database, Statuses
  <2>5. CASE ApiGone("retryStop", "retryDb")
    BY <2>5, <1>0 DEF ApiGone, dbs, disk, procs, others, DatabaseInv, OriginalKept,
         Database, Statuses
  <2>6. CASE ApiStaysIgnored("retryStop", "retryDb")
    BY <2>6, <1>0 DEF ApiStaysIgnored, Fault, dbs, disk, procs, others, DatabaseInv,
         OriginalKept, Database, Statuses
  <2>7. CASE RetryRollBackDb
    BY <2>7, <1>0 DEF RetryRollBackDb, Fault, NoFault, SwapBack, CanRollBack, disk,
         procs, others, DatabaseInv, OriginalKept, Database, Statuses
  <2>8. CASE RetryFinish
    BY <2>8, <1>0 DEF RetryFinish, SupervisorNoticed, disk, procs, others, DatabaseInv,
         OriginalKept, Database, Statuses
  <2>9. CASE RetryWrite
    BY <2>9, <1>0 DEF RetryWrite, dbs, disk, procs, others, DatabaseInv, OriginalKept,
         Database, Statuses
  <2> QED  BY <1>2, <2>1, <2>2, <2>3, <2>4, <2>5, <2>6, <2>7, <2>8, <2>9 DEF RetryNext
<1>3. CASE PrepareNext
  <2>1. CASE AcquireLock
    BY <2>1, <1>0 DEF AcquireLock, dbs, disk, agent, procs, others, DatabaseInv,
         OriginalKept, Database, Statuses
  <2>2. CASE ClearStaging
    BY <2>2, <1>0 DEF ClearStaging, dbs, procs, others, DatabaseInv, OriginalKept,
         Database, Statuses
  <2>3. CASE Extract
    BY <2>3, <1>0 DEF Extract, Phase, Fault, NoFault, Fail, dbs, procs, others, agent,
         DatabaseInv, OriginalKept, Database, Statuses
  <2>4. CASE CreateCandidate
    BY <2>4, <1>0 DEF CreateCandidate, disk, procs, others, DatabaseInv, OriginalKept,
         Database, Statuses
  <2>5. CASE RestoreCandidate
    BY <2>5, <1>0 DEF RestoreCandidate, Phase, Fault, NoFault, Fail, SupervisorNoticed,
         disk, procs, others, agent, DatabaseInv, OriginalKept, Database, Statuses
  <2>6. CASE SafetyBackup
    BY <2>6, <1>0 DEF SafetyBackup, Fault, NoFault, Fail, disk, procs, others, agent,
         DatabaseInv, OriginalKept, Database, Statuses
  <2>7. CASE Checkpoint
    BY <2>7, <1>0 DEF Checkpoint, dbs, disk, procs, others, DatabaseInv, OriginalKept,
         Database, Statuses
  <2>8. CASE WriteMarker("mark", "stop")
    BY <2>8, <1>0 DEF WriteMarker, dbs, disk, procs, others, DatabaseInv, OriginalKept,
         Database, Statuses
  <2>9. CASE TermApi("stop")
    BY <2>9, <1>0 DEF TermApi, dbs, disk, agent, others, DatabaseInv, OriginalKept,
         Database, Statuses
  <2>10. CASE ApiGone("stop", "terminate")
    BY <2>10, <1>0 DEF ApiGone, dbs, disk, procs, others, DatabaseInv, OriginalKept,
         Database, Statuses
  <2>11. CASE StopTimesOut
    BY <2>11, <1>0 DEF StopTimesOut, Fault, Fail, dbs, disk, procs, others, agent,
         DatabaseInv, OriginalKept, Database, Statuses
  <2>12. CASE TerminateSessions
    BY <2>12, <1>0 DEF TerminateSessions, Phase, dbs, disk, procs, others, DatabaseInv,
         OriginalKept, Database, Statuses
  <2>13. CASE SwapDatabases
    BY <2>13, <1>0 DEF SwapDatabases, Fault, NoFault, Fail, SwapIn, CanSwap, disk, procs,
         others, agent, DatabaseInv, OriginalKept, Database, Statuses
  <2> QED  BY <1>3, <2>1, <2>2, <2>3, <2>4, <2>5, <2>6, <2>7, <2>8, <2>9, <2>10, <2>11,
                <2>12, <2>13 DEF PrepareNext
<1>4. CASE ActivateNext
  <2>1. CASE UpdateSettings
    BY <2>1, <1>0 DEF UpdateSettings, Phase, Fault, NoFault, RollBackFrom, dbs, disk,
         procs, others, DatabaseInv, OriginalKept, Database, Statuses
  <2>2. CASE MoveArtworkAside
    BY <2>2, <1>0 DEF MoveArtworkAside, Fault, NoFault, RollBackFrom, SupervisorNoticed,
         dbs, procs, others, DatabaseInv, OriginalKept, Database, Statuses
  <2>3. CASE PlaceArtwork
    BY <2>3, <1>0 DEF PlaceArtwork, Phase, Fault, NoFault, dbs, procs, others,
         DatabaseInv, OriginalKept, Database, Statuses
  <2>4. CASE RemoveMarker
    BY <2>4, <1>0 DEF RemoveMarker, Phase, Fault, NoFault, dbs, disk, procs, others,
         DatabaseInv, OriginalKept, Database, Statuses
  <2>5. CASE VerifyPasses
    BY <2>5, <1>0 DEF VerifyPasses, Healthy, dbs, disk, procs, DatabaseInv, OriginalKept,
         Database, Statuses
  <2>6. CASE VerifyFails
    BY <2>6, <1>0 DEF VerifyFails, Fault, NoFault, RollBackFrom, Healthy, dbs, disk,
         procs, others, DatabaseInv, OriginalKept, Database, Statuses
  <2>7. CASE FinalizeArtwork
    BY <2>7, <1>0 DEF FinalizeArtwork, dbs, procs, others, DatabaseInv, OriginalKept,
         Database, Statuses
  <2>8. CASE RemoveStaging
    BY <2>8, <1>0 DEF RemoveStaging, dbs, procs, others, DatabaseInv, OriginalKept,
         Database, Statuses
  <2>9. CASE DropPrevious
    BY <2>9, <1>0 DEF DropPrevious, Fault, NoFault, disk, procs, others, DatabaseInv,
         OriginalKept, Database, Statuses
  <2>10. CASE Complete
    BY <2>10, <1>0 DEF Complete, Phase, dbs, disk, agent, procs, others, DatabaseInv,
         OriginalKept, Database, Statuses
  <2> QED  BY <1>4, <2>1, <2>2, <2>3, <2>4, <2>5, <2>6, <2>7, <2>8, <2>9, <2>10
                DEF ActivateNext
<1>5. CASE RollbackNext
  <2>1. CASE RollbackWrite
    BY <2>1, <1>0 DEF RollbackWrite, Fault, NoFault, dbs, disk, procs, others,
         DatabaseInv, OriginalKept, Database, Statuses
  <2>2. CASE WriteMarker("rbMark", "rbStop")
    BY <2>2, <1>0 DEF WriteMarker, dbs, disk, procs, others, DatabaseInv, OriginalKept,
         Database, Statuses
  <2>3. CASE TermApi("rbStop")
    BY <2>3, <1>0 DEF TermApi, dbs, disk, agent, others, DatabaseInv, OriginalKept,
         Database, Statuses
  <2>4. CASE ApiGone("rbStop", "rbDb")
    BY <2>4, <1>0 DEF ApiGone, dbs, disk, procs, others, DatabaseInv, OriginalKept,
         Database, Statuses
  <2>5. CASE ApiStaysIgnored("rbStop", "rbDb")
    BY <2>5, <1>0 DEF ApiStaysIgnored, Fault, dbs, disk, procs, others, DatabaseInv,
         OriginalKept, Database, Statuses
  <2>6. CASE RollBackDb
    BY <2>6, <1>0 DEF RollBackDb, Fault, NoFault, SwapBack, CanRollBack, disk, procs,
         others, DatabaseInv, OriginalKept, Database, Statuses
  <2>7. CASE RollBackArtwork
    BY <2>7, <1>0 DEF RollBackArtwork, dbs, procs, others, DatabaseInv, OriginalKept,
         Database, Statuses
  <2>8. CASE RollbackUnmark
    BY <2>8, <1>0 DEF RollbackUnmark, dbs, disk, procs, others, DatabaseInv,
         OriginalKept, Database, Statuses
  <2>9. CASE RollbackHealth
    BY <2>9, <1>0 DEF RollbackHealth, Fault, NoFault, dbs, disk, procs, others,
         DatabaseInv, OriginalKept, Database, Statuses
  <2> QED  BY <1>5, <2>1, <2>2, <2>3, <2>4, <2>5, <2>6, <2>7, <2>8, <2>9 DEF RollbackNext
<1>6. CASE FailNext
  <2>1. CASE FailWritesJournal
    BY <2>1, <1>0 DEF FailWritesJournal, Phase, dbs, disk, procs, others, DatabaseInv,
         OriginalKept, Database, Statuses
  <2>2. CASE FailRemovesMarker
    BY <2>2, <1>0 DEF FailRemovesMarker, dbs, disk, procs, others, DatabaseInv,
         OriginalKept, Database, Statuses
  <2> QED  BY <1>6, <2>1, <2>2 DEF FailNext
<1>7. CASE Deadline
  BY <1>7, <1>0 DEF Deadline, Fault, Fail, dbs, disk, procs, others, agent, DatabaseInv,
       OriginalKept, Database, Statuses
<1>8. CASE ApiNext
  <2>1. CASE ApiBoots
    BY <2>1, <1>0 DEF ApiBoots, Boots, dbs, disk, agent, others, DatabaseInv,
         OriginalKept, Database, Statuses
  <2>2. CASE ApiExits
    BY <2>2, <1>0 DEF ApiExits, Boots, dbs, disk, agent, others, DatabaseInv,
         OriginalKept, Database, Statuses
  <2> QED  BY <1>8, <2>1, <2>2 DEF ApiNext
<1>9. CASE ShellNext
  <2>1. CASE ShellWaits
    BY <2>1, <1>0 DEF ShellWaits, dbs, disk, agent, others, DatabaseInv, OriginalKept,
         Database, Statuses
  <2>2. CASE ShellSeesMarkerGone
    BY <2>2, <1>0 DEF ShellSeesMarkerGone, dbs, disk, agent, others, DatabaseInv,
         OriginalKept, Database, Statuses
  <2>3. CASE ShellStartsApi
    BY <2>3, <1>0 DEF ShellStartsApi, dbs, disk, agent, others, DatabaseInv,
         OriginalKept, Database, Statuses
  <2>4. CASE ShellShutsDown
    BY <2>4, <1>0 DEF ShellShutsDown, ContainerRestarts, dbs, disk, DatabaseInv,
         OriginalKept, Database, Statuses
  <2> QED  BY <1>9, <2>1, <2>2, <2>3, <2>4 DEF ShellNext
<1>10. CASE ReconcileNext
  <2>1. CASE ReconcileRead
    BY <2>1, <1>0 DEF ReconcileRead, dbs, disk, agent, others, Terminal, DatabaseInv,
         OriginalKept, Database, Statuses
  <2>2. CASE ReconcileWrite
    BY <2>2, <1>0 DEF ReconcileWrite, disk, agent, others, DatabaseInv, OriginalKept,
         Database, Statuses
  <2> QED  BY <1>10, <2>1, <2>2 DEF ReconcileNext
<1>11. CASE UploadNext
  <2>1. CASE UploadStarts
    BY <2>1, <1>0 DEF UploadStarts, dbs, disk, agent, others, DatabaseInv, OriginalKept,
         Database, Statuses
  <2>2. CASE UploadEnds
    BY <2>2, <1>0 DEF UploadEnds, dbs, disk, agent, others, DatabaseInv, OriginalKept,
         Database, Statuses
  <2> QED  BY <1>11, <2>1, <2>2 DEF UploadNext
<1>12. CASE Crash
  BY <1>12, <1>0 DEF Crash, ContainerRestarts, dbs, disk, DatabaseInv, OriginalKept,
       Database, Statuses
<1>13. CASE UNCHANGED vars
  BY <1>13, <1>0 DEF vars, dbs, disk, agent, procs, others, DatabaseInv, OriginalKept,
       Database, Statuses
<1> QED  BY <1>1, <1>2, <1>3, <1>4, <1>5, <1>6, <1>7, <1>8, <1>9, <1>10, <1>11, <1>12,
              <1>13 DEF Next, AgentNext

\* In every reachable state the three databases are in a legal arrangement.
LEMMA DatabaseInvariant == Spec => []DatabaseInv
<1>1. Init => DatabaseInv
  BY DEF Init, DatabaseInv, OriginalKept, NoDb, ReadyPcs, SwapPcs, FinishPcs
<1>2. TypeOK /\ DatabaseInv /\ [Next]_vars => DatabaseInv'
  BY DatabaseStep
<1> QED  BY <1>1, <1>2, TypeCorrect, PTL DEF Spec

\* The database that was live before the restore is never lost before verification.
THEOREM OriginalSurvives == Spec => []OriginalNeverLost
<1>1. DatabaseInv => OriginalNeverLost
  BY DEF DatabaseInv, OriginalKept, OriginalNeverLost
<1> QED  BY <1>1, DatabaseInvariant, PTL

\* The name riviamigo is always bound to a complete database.
THEOREM LiveAlwaysBound == Spec => []LiveNameBound
<1>1. DatabaseInv => LiveNameBound
  BY DEF DatabaseInv, LiveNameBound
<1> QED  BY <1>1, DatabaseInvariant, PTL

\* A safety package of the original precedes every activation.
THEOREM SafetyPackageFirst == Spec => []SafetyBeforeSwap
<1>1. DatabaseInv => SafetyBeforeSwap
  BY DEF DatabaseInv, SafetyBeforeSwap
<1> QED  BY <1>1, DatabaseInvariant, PTL

-----------------------------------------------------------------------------
(* Processes, artwork and the journal's copies *)

ActivePcs == ActivatePcs \cup FinishPcs
MarkedPcs == SwapPcs \ {"mark"}

\* What runs at which step: the hand-off precedes the job, the reconciler and the imports
\* live in the API process, and between the marker and the swap nothing can start it.
ProcessInv ==
    /\ handoff \in {"queued", "prepared"} => pc = "idle" /\ ~artHeld /\ ~marker
    /\ handoff # "none" => pc \notin RetryPcs
    /\ held # {} => pc \in RetryPcs \ {"boot"}
    /\ api = "down" => ~uploading /\ rec = {} /\ handoff = "none"
    /\ pc \in {"boot", "retryWrite", "lock", "mark"} \cup PreparePcs => ~marker
    /\ pc \in {"safety", "checkpoint", "mark"} => shell = "watch"
    /\ pc \in MarkedPcs => marker /\ shell # "launch"
    /\ pc \in {"terminate", "swap"} => api = "down"

\* Where the owner's artwork is while a restore replaces it.
ArtworkInv ==
    /\ artHeld => pc \in {"idle", "unmark", "verify", "err1", "err2"} \cup RollbackPcs \cup FinishPcs
    /\ pc = "rbArt" => artHeld
    /\ pc = "artPlace" => art = "none"
    /\ pc \in {"unmark", "verify"} \cup FinishPcs => art = package.art
    /\ package.over = "original" /\ ~verified =>
         /\ "original" \in {art, before}
         /\ artHeld /\ pc \in {"unmark", "verify", "rbWrite", "rbMark", "rbStop", "rbDb", "rbArt"}
              => before = "original"

\* The previous database is dropped only in an attempt that nothing takes up again.
KeptInv ==
    /\ pc \in ActivePcs => live.data = "restored"
    /\ pc \in {"rbArt", "rbUnmark", "rbHealth"} => live.data = "original"
    /\ pc \in {"finDb", "finDone"} => ~staged
    /\ \/ OriginalKept
       \/ /\ pc \in {"finDone", "err1", "err2", "idle", "boot"} /\ ~staged
          /\ live.data = "restored" /\ handoff \notin {"queued", "prepared"}

\* A journal, or a copy of one, that says Completed.
Completed == job.phase = "Completed" \/ \E copy \in rec : copy.phase = "Completed"

CompletedInv ==
    Completed =>
        /\ verified /\ live.data = "restored" /\ art = package.art
        /\ pc \in {"idle", "boot"} /\ ~staged /\ handoff \notin {"queued", "prepared"}

\* Copies of the journal that say the rollback succeeded, and are still to be written back.
ReportInv ==
    /\ job.rollback = "Succeeded" => live.data = "original" \/ job.reconciled
    /\ pc \in SwapPcs /\ job.rollback = "Succeeded" => job.reconciled
    /\ \A copy \in rec : copy.rollback = "Succeeded" => live.data = "original"
    /\ \A copy \in held :
         /\ copy.rollback = job.rollback
         /\ copy.rollback = "Succeeded" => live.data = "original" \/ copy.reconciled
    /\ pc \in RetryPcs => \A copy \in rec : copy.rollback = job.rollback

ActivationInv == ProcessInv /\ ArtworkInv /\ KeptInv /\ CompletedInv /\ ReportInv

\* Before the hand-off nothing runs, and nothing is held, moved or reported.
LEMMA ActivationInit == Init => ActivationInv
<1> SUFFICES ASSUME Init PROVE ActivationInv
  OBVIOUS
<1> USE DEF Init, RetryPcs, PreparePcs, SwapPcs, ActivatePcs, RollbackPcs, FinishPcs
<1>1. ProcessInv
  BY DEF ProcessInv, MarkedPcs
<1>2. ArtworkInv
  BY DEF ArtworkInv
<1>3. KeptInv
  BY DEF KeptInv, OriginalKept, ActivePcs, NoDb
<1>4. CompletedInv
  BY DEF CompletedInv, Completed
<1>5. ReportInv
  BY DEF ReportInv
<1> QED  BY <1>1, <1>2, <1>3, <1>4, <1>5 DEF ActivationInv

\* Every step keeps the processes in step with each other: from the marker to the swap the
\* supervisor waits, and the API with all that runs in it is gone.
LEMMA ProcessStep ==
  ASSUME TypeOK, ProcessInv, [Next]_vars
  PROVE  ProcessInv'
<1> USE DEF TypeOK, ProcessInv, MarkedPcs, AgentPcs, RetryPcs, InnerPcs, PreparePcs,
            SwapPcs, ActivatePcs, RollbackPcs, FinishPcs, dbs, disk, agent, procs, others,
            Fault, NoFault, Phase, Fail, RollBackFrom, SupervisorNoticed, SwapIn, SwapBack,
            CanSwap, CanRollBack, Terminal
<1>1. CASE HandoffNext
  BY <1>1 DEF HandoffNext, HandoffPrepare, HandoffAccepted, HandoffDone, HandoffFails
<1>2. CASE RetryNext
  <2>1. CASE BootSkip
    BY <2>1 DEF BootSkip
  <2>2. CASE BootRetry
    BY <2>2 DEF BootRetry
  <2>3. CASE WriteMarker("retryMark", "retryStop")
    BY <2>3 DEF WriteMarker
  <2>4. CASE TermApi("retryStop")
    BY <2>4 DEF TermApi
  <2>5. CASE ApiGone("retryStop", "retryDb")
    BY <2>5 DEF ApiGone
  <2>6. CASE ApiStaysIgnored("retryStop", "retryDb")
    BY <2>6 DEF ApiStaysIgnored
  <2>7. CASE RetryRollBackDb
    BY <2>7 DEF RetryRollBackDb
  <2>8. CASE RetryFinish
    BY <2>8 DEF RetryFinish
  <2>9. CASE RetryWrite
    BY <2>9 DEF RetryWrite
  <2> QED  BY <1>2, <2>1, <2>2, <2>3, <2>4, <2>5, <2>6, <2>7, <2>8, <2>9 DEF RetryNext
<1>3. CASE PrepareNext
  <2>1. CASE AcquireLock
    BY <2>1 DEF AcquireLock
  <2>2. CASE ClearStaging
    BY <2>2 DEF ClearStaging
  <2>3. CASE Extract
    BY <2>3 DEF Extract
  <2>4. CASE CreateCandidate
    BY <2>4 DEF CreateCandidate
  <2>5. CASE RestoreCandidate
    BY <2>5 DEF RestoreCandidate
  <2>6. CASE SafetyBackup
    BY <2>6 DEF SafetyBackup
  <2>7. CASE Checkpoint
    BY <2>7 DEF Checkpoint
  <2>8. CASE WriteMarker("mark", "stop")
    BY <2>8 DEF WriteMarker
  <2>9. CASE TermApi("stop")
    BY <2>9 DEF TermApi
  <2>10. CASE ApiGone("stop", "terminate")
    BY <2>10 DEF ApiGone
  <2>11. CASE StopTimesOut
    BY <2>11 DEF StopTimesOut
  <2>12. CASE TerminateSessions
    BY <2>12 DEF TerminateSessions
  <2>13. CASE SwapDatabases
    BY <2>13 DEF SwapDatabases
  <2> QED  BY <1>3, <2>1, <2>2, <2>3, <2>4, <2>5, <2>6, <2>7, <2>8, <2>9, <2>10, <2>11,
             <2>12, <2>13 DEF PrepareNext
<1>4. CASE ActivateNext
  <2>1. CASE UpdateSettings
    BY <2>1 DEF UpdateSettings
  <2>2. CASE MoveArtworkAside
    BY <2>2 DEF MoveArtworkAside
  <2>3. CASE PlaceArtwork
    BY <2>3 DEF PlaceArtwork
  <2>4. CASE RemoveMarker
    BY <2>4 DEF RemoveMarker
  <2>5. CASE VerifyPasses
    BY <2>5 DEF VerifyPasses
  <2>6. CASE VerifyFails
    BY <2>6 DEF VerifyFails
  <2>7. CASE FinalizeArtwork
    BY <2>7 DEF FinalizeArtwork
  <2>8. CASE RemoveStaging
    BY <2>8 DEF RemoveStaging
  <2>9. CASE DropPrevious
    BY <2>9 DEF DropPrevious
  <2>10. CASE Complete
    BY <2>10 DEF Complete
  <2> QED  BY <1>4, <2>1, <2>2, <2>3, <2>4, <2>5, <2>6, <2>7, <2>8, <2>9, <2>10 DEF ActivateNext
<1>5. CASE RollbackNext
  <2>1. CASE RollbackWrite
    BY <2>1 DEF RollbackWrite
  <2>2. CASE WriteMarker("rbMark", "rbStop")
    BY <2>2 DEF WriteMarker
  <2>3. CASE TermApi("rbStop")
    BY <2>3 DEF TermApi
  <2>4. CASE ApiGone("rbStop", "rbDb")
    BY <2>4 DEF ApiGone
  <2>5. CASE ApiStaysIgnored("rbStop", "rbDb")
    BY <2>5 DEF ApiStaysIgnored
  <2>6. CASE RollBackDb
    BY <2>6 DEF RollBackDb
  <2>7. CASE RollBackArtwork
    BY <2>7 DEF RollBackArtwork
  <2>8. CASE RollbackUnmark
    BY <2>8 DEF RollbackUnmark
  <2>9. CASE RollbackHealth
    BY <2>9 DEF RollbackHealth
  <2> QED  BY <1>5, <2>1, <2>2, <2>3, <2>4, <2>5, <2>6, <2>7, <2>8, <2>9 DEF RollbackNext
<1>6. CASE FailNext
  BY <1>6 DEF FailNext, FailWritesJournal, FailRemovesMarker
<1>7. CASE Deadline
  BY <1>7 DEF Deadline
<1>8. CASE ApiNext
  BY <1>8 DEF ApiNext, ApiBoots, ApiExits
<1>9. CASE ShellNext
  BY <1>9 DEF ShellNext, ShellWaits, ShellSeesMarkerGone, ShellStartsApi, ShellShutsDown,
           ContainerRestarts
<1>10. CASE ReconcileNext
  BY <1>10 DEF ReconcileNext, ReconcileRead, ReconcileWrite
<1>11. CASE UploadNext
  BY <1>11 DEF UploadNext, UploadStarts, UploadEnds
<1>12. CASE Crash
  BY <1>12 DEF Crash, ContainerRestarts
<1>13. CASE UNCHANGED vars
  BY <1>13 DEF vars
<1> QED  BY <1>1, <1>2, <1>3, <1>4, <1>5, <1>6, <1>7, <1>8, <1>9, <1>10, <1>11, <1>12, <1>13 DEF Next, AgentNext

\* No step removes the only copy of the owner's artwork before verification: what is taken
\* away is put aside first, and a rollback brings back only what this attempt put aside.
LEMMA ArtworkStep ==
  ASSUME TypeOK, ProcessInv, DatabaseInv, ArtworkInv, [Next]_vars
  PROVE  ArtworkInv'
<1> USE DEF ArtworkInv, ProcessInv, DatabaseInv, ArtKinds, TypeOK, AgentPcs, RetryPcs,
            InnerPcs, PreparePcs, SwapPcs, ActivatePcs, RollbackPcs, FinishPcs, dbs, disk,
            agent, procs, others, Fault, NoFault, Phase, Fail, RollBackFrom,
            SupervisorNoticed, SwapIn, SwapBack, CanSwap, CanRollBack, Healthy, Boots,
            Interrupted, Terminal, NoDb
<1>1. CASE HandoffNext
  BY <1>1 DEF HandoffNext, HandoffPrepare, HandoffAccepted, HandoffDone, HandoffFails
<1>2. CASE RetryNext
  <2>1. CASE BootSkip
    BY <2>1 DEF BootSkip
  <2>2. CASE BootRetry
    BY <2>2 DEF BootRetry
  <2>3. CASE WriteMarker("retryMark", "retryStop")
    BY <2>3 DEF WriteMarker
  <2>4. CASE TermApi("retryStop")
    BY <2>4 DEF TermApi
  <2>5. CASE ApiGone("retryStop", "retryDb")
    BY <2>5 DEF ApiGone
  <2>6. CASE ApiStaysIgnored("retryStop", "retryDb")
    BY <2>6 DEF ApiStaysIgnored
  <2>7. CASE RetryRollBackDb
    BY <2>7 DEF RetryRollBackDb
  <2>8. CASE RetryFinish
    BY <2>8 DEF RetryFinish
  <2>9. CASE RetryWrite
    BY <2>9 DEF RetryWrite
  <2> QED  BY <1>2, <2>1, <2>2, <2>3, <2>4, <2>5, <2>6, <2>7, <2>8, <2>9 DEF RetryNext
<1>3. CASE PrepareNext
  <2>1. CASE AcquireLock
    BY <2>1 DEF AcquireLock
  <2>2. CASE ClearStaging
    BY <2>2 DEF ClearStaging
  <2>3. CASE Extract
    BY <2>3 DEF Extract
  <2>4. CASE CreateCandidate
    BY <2>4 DEF CreateCandidate
  <2>5. CASE RestoreCandidate
    BY <2>5 DEF RestoreCandidate
  <2>6. CASE SafetyBackup
    BY <2>6 DEF SafetyBackup
  <2>7. CASE Checkpoint
    BY <2>7 DEF Checkpoint
  <2>8. CASE WriteMarker("mark", "stop")
    BY <2>8 DEF WriteMarker
  <2>9. CASE TermApi("stop")
    BY <2>9 DEF TermApi
  <2>10. CASE ApiGone("stop", "terminate")
    BY <2>10 DEF ApiGone
  <2>11. CASE StopTimesOut
    BY <2>11 DEF StopTimesOut
  <2>12. CASE TerminateSessions
    BY <2>12 DEF TerminateSessions
  <2>13. CASE SwapDatabases
    BY <2>13 DEF SwapDatabases
  <2> QED  BY <1>3, <2>1, <2>2, <2>3, <2>4, <2>5, <2>6, <2>7, <2>8, <2>9, <2>10, <2>11,
             <2>12, <2>13 DEF PrepareNext
<1>4. CASE ActivateNext
  <2>1. CASE UpdateSettings
    BY <2>1 DEF UpdateSettings
  <2>2. CASE MoveArtworkAside
    BY <2>2 DEF MoveArtworkAside
  <2>3. CASE PlaceArtwork
    BY <2>3 DEF PlaceArtwork
  <2>4. CASE RemoveMarker
    BY <2>4 DEF RemoveMarker
  <2>5. CASE VerifyPasses
    BY <2>5 DEF VerifyPasses
  <2>6. CASE VerifyFails
    BY <2>6 DEF VerifyFails
  <2>7. CASE FinalizeArtwork
    BY <2>7 DEF FinalizeArtwork
  <2>8. CASE RemoveStaging
    BY <2>8 DEF RemoveStaging
  <2>9. CASE DropPrevious
    BY <2>9 DEF DropPrevious
  <2>10. CASE Complete
    BY <2>10 DEF Complete
  <2> QED  BY <1>4, <2>1, <2>2, <2>3, <2>4, <2>5, <2>6, <2>7, <2>8, <2>9, <2>10 DEF ActivateNext
<1>5. CASE RollbackNext
  <2>1. CASE RollbackWrite
    BY <2>1 DEF RollbackWrite
  <2>2. CASE WriteMarker("rbMark", "rbStop")
    BY <2>2 DEF WriteMarker
  <2>3. CASE TermApi("rbStop")
    BY <2>3 DEF TermApi
  <2>4. CASE ApiGone("rbStop", "rbDb")
    BY <2>4 DEF ApiGone
  <2>5. CASE ApiStaysIgnored("rbStop", "rbDb")
    BY <2>5 DEF ApiStaysIgnored
  <2>6. CASE RollBackDb
    BY <2>6 DEF RollBackDb
  <2>7. CASE RollBackArtwork
    BY <2>7 DEF RollBackArtwork
  <2>8. CASE RollbackUnmark
    BY <2>8 DEF RollbackUnmark
  <2>9. CASE RollbackHealth
    BY <2>9 DEF RollbackHealth
  <2> QED  BY <1>5, <2>1, <2>2, <2>3, <2>4, <2>5, <2>6, <2>7, <2>8, <2>9 DEF RollbackNext
<1>6. CASE FailNext
  BY <1>6 DEF FailNext, FailWritesJournal, FailRemovesMarker
<1>7. CASE Deadline
  BY <1>7 DEF Deadline
<1>8. CASE ApiNext
  BY <1>8 DEF ApiNext, ApiBoots, ApiExits
<1>9. CASE ShellNext
  BY <1>9 DEF ShellNext, ShellWaits, ShellSeesMarkerGone, ShellStartsApi, ShellShutsDown,
           ContainerRestarts
<1>10. CASE ReconcileNext
  BY <1>10 DEF ReconcileNext, ReconcileRead, ReconcileWrite
<1>11. CASE UploadNext
  BY <1>11 DEF UploadNext, UploadStarts, UploadEnds
<1>12. CASE Crash
  BY <1>12 DEF Crash, ContainerRestarts
<1>13. CASE UNCHANGED vars
  BY <1>13 DEF vars
<1> QED  BY <1>1, <1>2, <1>3, <1>4, <1>5, <1>6, <1>7, <1>8, <1>9, <1>10, <1>11, <1>12, <1>13 DEF Next, AgentNext

\* Every step keeps the original database until an attempt ends that cannot be retried.
LEMMA KeptStep ==
  ASSUME TypeOK, ProcessInv, DatabaseInv, KeptInv, [Next]_vars
  PROVE  KeptInv'
<1> USE DEF KeptInv, OriginalKept, ProcessInv, DatabaseInv, ActivePcs, ReadyPcs, Database,
            TypeOK, AgentPcs, RetryPcs, InnerPcs, PreparePcs, SwapPcs, ActivatePcs,
            RollbackPcs, FinishPcs, dbs, disk, agent, procs, others, Fault, NoFault, Phase,
            Fail, RollBackFrom, SupervisorNoticed, SwapIn, SwapBack, CanSwap, CanRollBack,
            Healthy, Boots, Interrupted, Terminal, NoDb
<1>1. CASE HandoffNext
  BY <1>1 DEF HandoffNext, HandoffPrepare, HandoffAccepted, HandoffDone, HandoffFails
<1>2. CASE RetryNext
  <2>1. CASE BootSkip
    BY <2>1 DEF BootSkip
  <2>2. CASE BootRetry
    BY <2>2 DEF BootRetry
  <2>3. CASE WriteMarker("retryMark", "retryStop")
    BY <2>3 DEF WriteMarker
  <2>4. CASE TermApi("retryStop")
    BY <2>4 DEF TermApi
  <2>5. CASE ApiGone("retryStop", "retryDb")
    BY <2>5 DEF ApiGone
  <2>6. CASE ApiStaysIgnored("retryStop", "retryDb")
    BY <2>6 DEF ApiStaysIgnored
  <2>7. CASE RetryRollBackDb
    BY <2>7 DEF RetryRollBackDb
  <2>8. CASE RetryFinish
    BY <2>8 DEF RetryFinish
  <2>9. CASE RetryWrite
    BY <2>9 DEF RetryWrite
  <2> QED  BY <1>2, <2>1, <2>2, <2>3, <2>4, <2>5, <2>6, <2>7, <2>8, <2>9 DEF RetryNext
<1>3. CASE PrepareNext
  <2>1. CASE AcquireLock
    BY <2>1 DEF AcquireLock
  <2>2. CASE ClearStaging
    BY <2>2 DEF ClearStaging
  <2>3. CASE Extract
    BY <2>3 DEF Extract
  <2>4. CASE CreateCandidate
    BY <2>4 DEF CreateCandidate
  <2>5. CASE RestoreCandidate
    BY <2>5 DEF RestoreCandidate
  <2>6. CASE SafetyBackup
    BY <2>6 DEF SafetyBackup
  <2>7. CASE Checkpoint
    BY <2>7 DEF Checkpoint
  <2>8. CASE WriteMarker("mark", "stop")
    BY <2>8 DEF WriteMarker
  <2>9. CASE TermApi("stop")
    BY <2>9 DEF TermApi
  <2>10. CASE ApiGone("stop", "terminate")
    BY <2>10 DEF ApiGone
  <2>11. CASE StopTimesOut
    BY <2>11 DEF StopTimesOut
  <2>12. CASE TerminateSessions
    BY <2>12 DEF TerminateSessions
  <2>13. CASE SwapDatabases
    BY <2>13 DEF SwapDatabases
  <2> QED  BY <1>3, <2>1, <2>2, <2>3, <2>4, <2>5, <2>6, <2>7, <2>8, <2>9, <2>10, <2>11,
             <2>12, <2>13 DEF PrepareNext
<1>4. CASE ActivateNext
  <2>1. CASE UpdateSettings
    BY <2>1 DEF UpdateSettings
  <2>2. CASE MoveArtworkAside
    BY <2>2 DEF MoveArtworkAside
  <2>3. CASE PlaceArtwork
    BY <2>3 DEF PlaceArtwork
  <2>4. CASE RemoveMarker
    BY <2>4 DEF RemoveMarker
  <2>5. CASE VerifyPasses
    BY <2>5 DEF VerifyPasses
  <2>6. CASE VerifyFails
    BY <2>6 DEF VerifyFails
  <2>7. CASE FinalizeArtwork
    BY <2>7 DEF FinalizeArtwork
  <2>8. CASE RemoveStaging
    BY <2>8 DEF RemoveStaging
  <2>9. CASE DropPrevious
    BY <2>9 DEF DropPrevious
  <2>10. CASE Complete
    BY <2>10 DEF Complete
  <2> QED  BY <1>4, <2>1, <2>2, <2>3, <2>4, <2>5, <2>6, <2>7, <2>8, <2>9, <2>10 DEF ActivateNext
<1>5. CASE RollbackNext
  <2>1. CASE RollbackWrite
    BY <2>1 DEF RollbackWrite
  <2>2. CASE WriteMarker("rbMark", "rbStop")
    BY <2>2 DEF WriteMarker
  <2>3. CASE TermApi("rbStop")
    BY <2>3 DEF TermApi
  <2>4. CASE ApiGone("rbStop", "rbDb")
    BY <2>4 DEF ApiGone
  <2>5. CASE ApiStaysIgnored("rbStop", "rbDb")
    BY <2>5 DEF ApiStaysIgnored
  <2>6. CASE RollBackDb
    BY <2>6 DEF RollBackDb
  <2>7. CASE RollBackArtwork
    BY <2>7 DEF RollBackArtwork
  <2>8. CASE RollbackUnmark
    BY <2>8 DEF RollbackUnmark
  <2>9. CASE RollbackHealth
    BY <2>9 DEF RollbackHealth
  <2> QED  BY <1>5, <2>1, <2>2, <2>3, <2>4, <2>5, <2>6, <2>7, <2>8, <2>9 DEF RollbackNext
<1>6. CASE FailNext
  BY <1>6 DEF FailNext, FailWritesJournal, FailRemovesMarker
<1>7. CASE Deadline
  BY <1>7 DEF Deadline
<1>8. CASE ApiNext
  BY <1>8 DEF ApiNext, ApiBoots, ApiExits
<1>9. CASE ShellNext
  BY <1>9 DEF ShellNext, ShellWaits, ShellSeesMarkerGone, ShellStartsApi, ShellShutsDown,
           ContainerRestarts
<1>10. CASE ReconcileNext
  BY <1>10 DEF ReconcileNext, ReconcileRead, ReconcileWrite
<1>11. CASE UploadNext
  BY <1>11 DEF UploadNext, UploadStarts, UploadEnds
<1>12. CASE Crash
  BY <1>12 DEF Crash, ContainerRestarts
<1>13. CASE UNCHANGED vars
  BY <1>13 DEF vars
<1> QED  BY <1>1, <1>2, <1>3, <1>4, <1>5, <1>6, <1>7, <1>8, <1>9, <1>10, <1>11, <1>12, <1>13 DEF Next, AgentNext

\* Only Complete, and a reconciler that read it, says Completed, and nothing restarts after.
LEMMA CompletedStep ==
  ASSUME TypeOK, ProcessInv, DatabaseInv, ArtworkInv, KeptInv, CompletedInv, [Next]_vars
  PROVE  CompletedInv'
<1> USE DEF CompletedInv, Completed, KeptInv, ArtworkInv, OriginalKept, ProcessInv,
            DatabaseInv, ActivePcs, Journal, TypeOK, AgentPcs, RetryPcs, InnerPcs,
            PreparePcs, SwapPcs, ActivatePcs, RollbackPcs, FinishPcs, dbs, disk, agent,
            procs, others, Fault, NoFault, Phase, Fail, RollBackFrom, SupervisorNoticed,
            SwapIn, SwapBack, CanSwap, CanRollBack, Healthy, Boots, Interrupted, Terminal,
            NoDb
<1>1. CASE HandoffNext
  <2>1. CASE HandoffPrepare
    BY <2>1 DEF HandoffPrepare
  <2>2. CASE HandoffAccepted
    BY <2>2 DEF HandoffAccepted
  <2>3. CASE HandoffDone
    BY <2>3 DEF HandoffDone
  <2>4. CASE HandoffFails
    BY <2>4 DEF HandoffFails
  <2> QED  BY <1>1, <2>1, <2>2, <2>3, <2>4 DEF HandoffNext
<1>2. CASE RetryNext
  <2>1. CASE BootSkip
    BY <2>1 DEF BootSkip
  <2>2. CASE BootRetry
    BY <2>2 DEF BootRetry
  <2>3. CASE WriteMarker("retryMark", "retryStop")
    BY <2>3 DEF WriteMarker
  <2>4. CASE TermApi("retryStop")
    BY <2>4 DEF TermApi
  <2>5. CASE ApiGone("retryStop", "retryDb")
    BY <2>5 DEF ApiGone
  <2>6. CASE ApiStaysIgnored("retryStop", "retryDb")
    BY <2>6 DEF ApiStaysIgnored
  <2>7. CASE RetryRollBackDb
    BY <2>7 DEF RetryRollBackDb
  <2>8. CASE RetryFinish
    BY <2>8 DEF RetryFinish
  <2>9. CASE RetryWrite
    BY <2>9 DEF RetryWrite
  <2> QED  BY <1>2, <2>1, <2>2, <2>3, <2>4, <2>5, <2>6, <2>7, <2>8, <2>9 DEF RetryNext
<1>3. CASE PrepareNext
  <2>1. CASE AcquireLock
    BY <2>1 DEF AcquireLock
  <2>2. CASE ClearStaging
    BY <2>2 DEF ClearStaging
  <2>3. CASE Extract
    BY <2>3 DEF Extract
  <2>4. CASE CreateCandidate
    BY <2>4 DEF CreateCandidate
  <2>5. CASE RestoreCandidate
    BY <2>5 DEF RestoreCandidate
  <2>6. CASE SafetyBackup
    BY <2>6 DEF SafetyBackup
  <2>7. CASE Checkpoint
    BY <2>7 DEF Checkpoint
  <2>8. CASE WriteMarker("mark", "stop")
    BY <2>8 DEF WriteMarker
  <2>9. CASE TermApi("stop")
    BY <2>9 DEF TermApi
  <2>10. CASE ApiGone("stop", "terminate")
    BY <2>10 DEF ApiGone
  <2>11. CASE StopTimesOut
    BY <2>11 DEF StopTimesOut
  <2>12. CASE TerminateSessions
    BY <2>12 DEF TerminateSessions
  <2>13. CASE SwapDatabases
    BY <2>13 DEF SwapDatabases
  <2> QED  BY <1>3, <2>1, <2>2, <2>3, <2>4, <2>5, <2>6, <2>7, <2>8, <2>9, <2>10, <2>11,
             <2>12, <2>13 DEF PrepareNext
<1>4. CASE ActivateNext
  <2>1. CASE UpdateSettings
    BY <2>1 DEF UpdateSettings
  <2>2. CASE MoveArtworkAside
    BY <2>2 DEF MoveArtworkAside
  <2>3. CASE PlaceArtwork
    BY <2>3 DEF PlaceArtwork
  <2>4. CASE RemoveMarker
    BY <2>4 DEF RemoveMarker
  <2>5. CASE VerifyPasses
    BY <2>5 DEF VerifyPasses
  <2>6. CASE VerifyFails
    BY <2>6 DEF VerifyFails
  <2>7. CASE FinalizeArtwork
    BY <2>7 DEF FinalizeArtwork
  <2>8. CASE RemoveStaging
    BY <2>8 DEF RemoveStaging
  <2>9. CASE DropPrevious
    BY <2>9 DEF DropPrevious
  <2>10. CASE Complete
    BY <2>10 DEF Complete
  <2> QED  BY <1>4, <2>1, <2>2, <2>3, <2>4, <2>5, <2>6, <2>7, <2>8, <2>9, <2>10 DEF ActivateNext
<1>5. CASE RollbackNext
  <2>1. CASE RollbackWrite
    BY <2>1 DEF RollbackWrite
  <2>2. CASE WriteMarker("rbMark", "rbStop")
    BY <2>2 DEF WriteMarker
  <2>3. CASE TermApi("rbStop")
    BY <2>3 DEF TermApi
  <2>4. CASE ApiGone("rbStop", "rbDb")
    BY <2>4 DEF ApiGone
  <2>5. CASE ApiStaysIgnored("rbStop", "rbDb")
    BY <2>5 DEF ApiStaysIgnored
  <2>6. CASE RollBackDb
    BY <2>6 DEF RollBackDb
  <2>7. CASE RollBackArtwork
    BY <2>7 DEF RollBackArtwork
  <2>8. CASE RollbackUnmark
    BY <2>8 DEF RollbackUnmark
  <2>9. CASE RollbackHealth
    BY <2>9 DEF RollbackHealth
  <2> QED  BY <1>5, <2>1, <2>2, <2>3, <2>4, <2>5, <2>6, <2>7, <2>8, <2>9 DEF RollbackNext
<1>6. CASE FailNext
  BY <1>6 DEF FailNext, FailWritesJournal, FailRemovesMarker
<1>7. CASE Deadline
  BY <1>7 DEF Deadline
<1>8. CASE ApiNext
  BY <1>8 DEF ApiNext, ApiBoots, ApiExits
<1>9. CASE ShellNext
  BY <1>9 DEF ShellNext, ShellWaits, ShellSeesMarkerGone, ShellStartsApi, ShellShutsDown,
           ContainerRestarts, Package
<1>10. CASE ReconcileNext
  <2>1. CASE ReconcileRead
    BY <2>1 DEF ReconcileRead
  <2>2. CASE ReconcileWrite
    BY <2>2 DEF ReconcileWrite
  <2> QED  BY <1>10, <2>1, <2>2 DEF ReconcileNext
<1>11. CASE UploadNext
  BY <1>11 DEF UploadNext, UploadStarts, UploadEnds
<1>12. CASE Crash
  BY <1>12 DEF Crash, ContainerRestarts, Package
<1>13. CASE UNCHANGED vars
  BY <1>13 DEF vars
<1> QED  BY <1>1, <1>2, <1>3, <1>4, <1>5, <1>6, <1>7, <1>8, <1>9, <1>10, <1>11, <1>12, <1>13 DEF Next, AgentNext

\* Every copy of the journal that reports a rollback is written back while the original is
\* live, or over a journal that reports it already.
LEMMA ReportStep ==
  ASSUME TypeOK, ProcessInv, DatabaseInv, KeptInv, ReportInv, [Next]_vars
  PROVE  ReportInv'
<1> USE DEF ReportInv, KeptInv, OriginalKept, ProcessInv, DatabaseInv, ActivePcs, Journal,
            TypeOK, AgentPcs, RetryPcs, InnerPcs, PreparePcs, SwapPcs, ActivatePcs,
            RollbackPcs, FinishPcs, dbs, disk, agent, procs, others, Fault, NoFault, Phase,
            Fail, RollBackFrom, SupervisorNoticed, SwapIn, SwapBack, CanSwap, CanRollBack,
            Healthy, Boots, Interrupted, Terminal, NoDb
<1>1. CASE HandoffNext
  <2>1. CASE HandoffPrepare
    BY <2>1 DEF HandoffPrepare
  <2>2. CASE HandoffAccepted
    BY <2>2 DEF HandoffAccepted
  <2>3. CASE HandoffDone
    BY <2>3 DEF HandoffDone
  <2>4. CASE HandoffFails
    BY <2>4 DEF HandoffFails
  <2> QED  BY <1>1, <2>1, <2>2, <2>3, <2>4 DEF HandoffNext
<1>2. CASE RetryNext
  <2>1. CASE BootSkip
    BY <2>1 DEF BootSkip
  <2>2. CASE BootRetry
    BY <2>2 DEF BootRetry
  <2>3. CASE WriteMarker("retryMark", "retryStop")
    BY <2>3 DEF WriteMarker
  <2>4. CASE TermApi("retryStop")
    BY <2>4 DEF TermApi
  <2>5. CASE ApiGone("retryStop", "retryDb")
    BY <2>5 DEF ApiGone
  <2>6. CASE ApiStaysIgnored("retryStop", "retryDb")
    BY <2>6 DEF ApiStaysIgnored
  <2>7. CASE RetryRollBackDb
    BY <2>7 DEF RetryRollBackDb
  <2>8. CASE RetryFinish
    BY <2>8 DEF RetryFinish
  <2>9. CASE RetryWrite
    BY <2>9 DEF RetryWrite
  <2> QED  BY <1>2, <2>1, <2>2, <2>3, <2>4, <2>5, <2>6, <2>7, <2>8, <2>9 DEF RetryNext
<1>3. CASE PrepareNext
  <2>1. CASE AcquireLock
    BY <2>1 DEF AcquireLock
  <2>2. CASE ClearStaging
    BY <2>2 DEF ClearStaging
  <2>3. CASE Extract
    BY <2>3 DEF Extract
  <2>4. CASE CreateCandidate
    BY <2>4 DEF CreateCandidate
  <2>5. CASE RestoreCandidate
    BY <2>5 DEF RestoreCandidate
  <2>6. CASE SafetyBackup
    BY <2>6 DEF SafetyBackup
  <2>7. CASE Checkpoint
    BY <2>7 DEF Checkpoint
  <2>8. CASE WriteMarker("mark", "stop")
    BY <2>8 DEF WriteMarker
  <2>9. CASE TermApi("stop")
    BY <2>9 DEF TermApi
  <2>10. CASE ApiGone("stop", "terminate")
    BY <2>10 DEF ApiGone
  <2>11. CASE StopTimesOut
    BY <2>11 DEF StopTimesOut
  <2>12. CASE TerminateSessions
    BY <2>12 DEF TerminateSessions
  <2>13. CASE SwapDatabases
    BY <2>13 DEF SwapDatabases
  <2> QED  BY <1>3, <2>1, <2>2, <2>3, <2>4, <2>5, <2>6, <2>7, <2>8, <2>9, <2>10, <2>11,
             <2>12, <2>13 DEF PrepareNext
<1>4. CASE ActivateNext
  <2>1. CASE UpdateSettings
    BY <2>1 DEF UpdateSettings
  <2>2. CASE MoveArtworkAside
    BY <2>2 DEF MoveArtworkAside
  <2>3. CASE PlaceArtwork
    BY <2>3 DEF PlaceArtwork
  <2>4. CASE RemoveMarker
    BY <2>4 DEF RemoveMarker
  <2>5. CASE VerifyPasses
    BY <2>5 DEF VerifyPasses
  <2>6. CASE VerifyFails
    BY <2>6 DEF VerifyFails
  <2>7. CASE FinalizeArtwork
    BY <2>7 DEF FinalizeArtwork
  <2>8. CASE RemoveStaging
    BY <2>8 DEF RemoveStaging
  <2>9. CASE DropPrevious
    BY <2>9 DEF DropPrevious
  <2>10. CASE Complete
    BY <2>10 DEF Complete
  <2> QED  BY <1>4, <2>1, <2>2, <2>3, <2>4, <2>5, <2>6, <2>7, <2>8, <2>9, <2>10 DEF ActivateNext
<1>5. CASE RollbackNext
  <2>1. CASE RollbackWrite
    BY <2>1 DEF RollbackWrite
  <2>2. CASE WriteMarker("rbMark", "rbStop")
    BY <2>2 DEF WriteMarker
  <2>3. CASE TermApi("rbStop")
    BY <2>3 DEF TermApi
  <2>4. CASE ApiGone("rbStop", "rbDb")
    BY <2>4 DEF ApiGone
  <2>5. CASE ApiStaysIgnored("rbStop", "rbDb")
    BY <2>5 DEF ApiStaysIgnored
  <2>6. CASE RollBackDb
    BY <2>6 DEF RollBackDb
  <2>7. CASE RollBackArtwork
    BY <2>7 DEF RollBackArtwork
  <2>8. CASE RollbackUnmark
    BY <2>8 DEF RollbackUnmark
  <2>9. CASE RollbackHealth
    BY <2>9 DEF RollbackHealth
  <2> QED  BY <1>5, <2>1, <2>2, <2>3, <2>4, <2>5, <2>6, <2>7, <2>8, <2>9 DEF RollbackNext
<1>6. CASE FailNext
  BY <1>6 DEF FailNext, FailWritesJournal, FailRemovesMarker
<1>7. CASE Deadline
  BY <1>7 DEF Deadline
<1>8. CASE ApiNext
  BY <1>8 DEF ApiNext, ApiBoots, ApiExits
<1>9. CASE ShellNext
  BY <1>9 DEF ShellNext, ShellWaits, ShellSeesMarkerGone, ShellStartsApi, ShellShutsDown,
           ContainerRestarts
<1>10. CASE ReconcileNext
  <2>1. CASE ReconcileRead
    BY <2>1 DEF ReconcileRead
  <2>2. CASE ReconcileWrite
    BY <2>2 DEF ReconcileWrite
  <2> QED  BY <1>10, <2>1, <2>2 DEF ReconcileNext
<1>11. CASE UploadNext
  BY <1>11 DEF UploadNext, UploadStarts, UploadEnds
<1>12. CASE Crash
  BY <1>12 DEF Crash, ContainerRestarts
<1>13. CASE UNCHANGED vars
  BY <1>13 DEF vars
<1> QED  BY <1>1, <1>2, <1>3, <1>4, <1>5, <1>6, <1>7, <1>8, <1>9, <1>10, <1>11, <1>12, <1>13 DEF Next, AgentNext

\* In every reachable state the processes, the artwork and the journal's copies are as above.
THEOREM ActivationInvariant == Spec => []ActivationInv
<1>1. TypeOK /\ DatabaseInv /\ ActivationInv /\ [Next]_vars => ActivationInv'
  BY ProcessStep, ArtworkStep, KeptStep, CompletedStep, ReportStep DEF ActivationInv
<1> QED  BY <1>1, ActivationInit, TypeCorrect, DatabaseInvariant, PTL DEF Spec

\* Until the restored application is verified, the owner's artwork is in its directory or
\* beside it; a job that says Completed was verified, with the restored database and
\* artwork in place (RestoreInv).
THEOREM RestoreHolds == Spec => []RestoreInv
<1>1. ActivationInv => RestoreInv
  BY DEF ActivationInv, ArtworkInv, CompletedInv, Completed, RestoreInv, ArtworkNeverLost,
         CompletedMeansRestored
<1> QED  BY <1>1, ActivationInvariant, PTL

-----------------------------------------------------------------------------
(* What a step may not do *)

\* A step that makes the restored database live is the swap, with the application stopped.
LEMMA ActivationStep ==
  ASSUME TypeOK, ProcessInv, DatabaseInv, KeptInv, live.data = "original",
         live'.data = "restored", [Next]_vars
  PROVE  api = "down" /\ marker /\ shell # "launch" /\ ~uploading
<1> USE DEF ProcessInv, DatabaseInv, KeptInv, OriginalKept, MarkedPcs, ReadyPcs, Database,
            TypeOK, AgentPcs, RetryPcs, InnerPcs, PreparePcs, SwapPcs, ActivatePcs,
            RollbackPcs, FinishPcs, dbs, disk, agent, procs, others, Fault, NoFault, Phase,
            Fail, RollBackFrom, SupervisorNoticed, SwapIn, SwapBack, CanSwap, CanRollBack,
            NoDb
<1>1. CASE HandoffNext
  BY <1>1 DEF HandoffNext, HandoffPrepare, HandoffAccepted, HandoffDone, HandoffFails
<1>2. CASE RetryNext
  <2>1. CASE BootSkip
    BY <2>1 DEF BootSkip
  <2>2. CASE BootRetry
    BY <2>2 DEF BootRetry
  <2>3. CASE WriteMarker("retryMark", "retryStop")
    BY <2>3 DEF WriteMarker
  <2>4. CASE TermApi("retryStop")
    BY <2>4 DEF TermApi
  <2>5. CASE ApiGone("retryStop", "retryDb")
    BY <2>5 DEF ApiGone
  <2>6. CASE ApiStaysIgnored("retryStop", "retryDb")
    BY <2>6 DEF ApiStaysIgnored
  <2>7. CASE RetryRollBackDb
    BY <2>7 DEF RetryRollBackDb
  <2>8. CASE RetryFinish
    BY <2>8 DEF RetryFinish
  <2>9. CASE RetryWrite
    BY <2>9 DEF RetryWrite
  <2> QED  BY <1>2, <2>1, <2>2, <2>3, <2>4, <2>5, <2>6, <2>7, <2>8, <2>9 DEF RetryNext
<1>3. CASE PrepareNext
  <2>1. CASE AcquireLock
    BY <2>1 DEF AcquireLock
  <2>2. CASE ClearStaging
    BY <2>2 DEF ClearStaging
  <2>3. CASE Extract
    BY <2>3 DEF Extract
  <2>4. CASE CreateCandidate
    BY <2>4 DEF CreateCandidate
  <2>5. CASE RestoreCandidate
    BY <2>5 DEF RestoreCandidate
  <2>6. CASE SafetyBackup
    BY <2>6 DEF SafetyBackup
  <2>7. CASE Checkpoint
    BY <2>7 DEF Checkpoint
  <2>8. CASE WriteMarker("mark", "stop")
    BY <2>8 DEF WriteMarker
  <2>9. CASE TermApi("stop")
    BY <2>9 DEF TermApi
  <2>10. CASE ApiGone("stop", "terminate")
    BY <2>10 DEF ApiGone
  <2>11. CASE StopTimesOut
    BY <2>11 DEF StopTimesOut
  <2>12. CASE TerminateSessions
    BY <2>12 DEF TerminateSessions
  <2>13. CASE SwapDatabases
    BY <2>13 DEF SwapDatabases
  <2> QED  BY <1>3, <2>1, <2>2, <2>3, <2>4, <2>5, <2>6, <2>7, <2>8, <2>9, <2>10, <2>11,
             <2>12, <2>13 DEF PrepareNext
<1>4. CASE ActivateNext
  <2>1. CASE UpdateSettings
    BY <2>1 DEF UpdateSettings
  <2>2. CASE MoveArtworkAside
    BY <2>2 DEF MoveArtworkAside
  <2>3. CASE PlaceArtwork
    BY <2>3 DEF PlaceArtwork
  <2>4. CASE RemoveMarker
    BY <2>4 DEF RemoveMarker
  <2>5. CASE VerifyPasses
    BY <2>5 DEF VerifyPasses
  <2>6. CASE VerifyFails
    BY <2>6 DEF VerifyFails
  <2>7. CASE FinalizeArtwork
    BY <2>7 DEF FinalizeArtwork
  <2>8. CASE RemoveStaging
    BY <2>8 DEF RemoveStaging
  <2>9. CASE DropPrevious
    BY <2>9 DEF DropPrevious
  <2>10. CASE Complete
    BY <2>10 DEF Complete
  <2> QED  BY <1>4, <2>1, <2>2, <2>3, <2>4, <2>5, <2>6, <2>7, <2>8, <2>9, <2>10 DEF ActivateNext
<1>5. CASE RollbackNext
  <2>1. CASE RollbackWrite
    BY <2>1 DEF RollbackWrite
  <2>2. CASE WriteMarker("rbMark", "rbStop")
    BY <2>2 DEF WriteMarker
  <2>3. CASE TermApi("rbStop")
    BY <2>3 DEF TermApi
  <2>4. CASE ApiGone("rbStop", "rbDb")
    BY <2>4 DEF ApiGone
  <2>5. CASE ApiStaysIgnored("rbStop", "rbDb")
    BY <2>5 DEF ApiStaysIgnored
  <2>6. CASE RollBackDb
    BY <2>6 DEF RollBackDb
  <2>7. CASE RollBackArtwork
    BY <2>7 DEF RollBackArtwork
  <2>8. CASE RollbackUnmark
    BY <2>8 DEF RollbackUnmark
  <2>9. CASE RollbackHealth
    BY <2>9 DEF RollbackHealth
  <2> QED  BY <1>5, <2>1, <2>2, <2>3, <2>4, <2>5, <2>6, <2>7, <2>8, <2>9 DEF RollbackNext
<1>6. CASE FailNext
  BY <1>6 DEF FailNext, FailWritesJournal, FailRemovesMarker
<1>7. CASE Deadline
  BY <1>7 DEF Deadline
<1>8. CASE ApiNext
  BY <1>8 DEF ApiNext, ApiBoots, ApiExits
<1>9. CASE ShellNext
  BY <1>9 DEF ShellNext, ShellWaits, ShellSeesMarkerGone, ShellStartsApi, ShellShutsDown,
           ContainerRestarts
<1>10. CASE ReconcileNext
  BY <1>10 DEF ReconcileNext, ReconcileRead, ReconcileWrite
<1>11. CASE UploadNext
  BY <1>11 DEF UploadNext, UploadStarts, UploadEnds
<1>12. CASE Crash
  BY <1>12 DEF Crash, ContainerRestarts
<1>13. CASE UNCHANGED vars
  BY <1>13 DEF vars
<1> QED  BY <1>1, <1>2, <1>3, <1>4, <1>5, <1>6, <1>7, <1>8, <1>9, <1>10, <1>11, <1>12, <1>13 DEF Next, AgentNext

\* The candidate becomes live only while the API process is gone and the supervisor cannot
\* start it (ActivationWhileStopped).
THEOREM ActivationStopped == Spec => ActivationWhileStopped
<1> DEFINE Stopped ==
      live.data = "original" /\ live'.data = "restored"
        => api = "down" /\ marker /\ shell # "launch" /\ ~uploading
<1>1. TypeOK /\ DatabaseInv /\ ActivationInv /\ [Next]_vars => [Stopped]_vars
  BY ActivationStep DEF ActivationInv
<1>2. Spec => [][Stopped]_vars
  BY <1>1, TypeCorrect, DatabaseInvariant, ActivationInvariant, PTL DEF Spec
<1> QED  BY <1>2 DEF ActivationWhileStopped

\* A step that makes the journal report a rolled-back restore finds the original live.
LEMMA ReportTrueStep ==
  ASSUME TypeOK, ProcessInv, DatabaseInv, KeptInv, ReportInv, job.rollback # "Succeeded",
         job'.rollback = "Succeeded", [Next]_vars
  PROVE  live.data = "original"
<1> USE DEF ProcessInv, KeptInv, ReportInv, Journal, TypeOK, AgentPcs, RetryPcs, InnerPcs,
            PreparePcs, SwapPcs, ActivatePcs, RollbackPcs, FinishPcs, dbs, disk, agent,
            procs, others, Fault, NoFault, Phase, Fail, RollBackFrom, SupervisorNoticed,
            SwapIn, SwapBack, CanSwap, CanRollBack, NoDb
<1>1. CASE HandoffNext
  BY <1>1 DEF HandoffNext, HandoffPrepare, HandoffAccepted, HandoffDone, HandoffFails
<1>2. CASE RetryNext
  <2>1. CASE BootSkip
    BY <2>1 DEF BootSkip
  <2>2. CASE BootRetry
    BY <2>2 DEF BootRetry
  <2>3. CASE WriteMarker("retryMark", "retryStop")
    BY <2>3 DEF WriteMarker
  <2>4. CASE TermApi("retryStop")
    BY <2>4 DEF TermApi
  <2>5. CASE ApiGone("retryStop", "retryDb")
    BY <2>5 DEF ApiGone
  <2>6. CASE ApiStaysIgnored("retryStop", "retryDb")
    BY <2>6 DEF ApiStaysIgnored
  <2>7. CASE RetryRollBackDb
    BY <2>7 DEF RetryRollBackDb
  <2>8. CASE RetryFinish
    BY <2>8 DEF RetryFinish
  <2>9. CASE RetryWrite
    BY <2>9 DEF RetryWrite
  <2> QED  BY <1>2, <2>1, <2>2, <2>3, <2>4, <2>5, <2>6, <2>7, <2>8, <2>9 DEF RetryNext
<1>3. CASE PrepareNext
  <2>1. CASE AcquireLock
    BY <2>1 DEF AcquireLock
  <2>2. CASE ClearStaging
    BY <2>2 DEF ClearStaging
  <2>3. CASE Extract
    BY <2>3 DEF Extract
  <2>4. CASE CreateCandidate
    BY <2>4 DEF CreateCandidate
  <2>5. CASE RestoreCandidate
    BY <2>5 DEF RestoreCandidate
  <2>6. CASE SafetyBackup
    BY <2>6 DEF SafetyBackup
  <2>7. CASE Checkpoint
    BY <2>7 DEF Checkpoint
  <2>8. CASE WriteMarker("mark", "stop")
    BY <2>8 DEF WriteMarker
  <2>9. CASE TermApi("stop")
    BY <2>9 DEF TermApi
  <2>10. CASE ApiGone("stop", "terminate")
    BY <2>10 DEF ApiGone
  <2>11. CASE StopTimesOut
    BY <2>11 DEF StopTimesOut
  <2>12. CASE TerminateSessions
    BY <2>12 DEF TerminateSessions
  <2>13. CASE SwapDatabases
    BY <2>13 DEF SwapDatabases
  <2> QED  BY <1>3, <2>1, <2>2, <2>3, <2>4, <2>5, <2>6, <2>7, <2>8, <2>9, <2>10, <2>11,
             <2>12, <2>13 DEF PrepareNext
<1>4. CASE ActivateNext
  <2>1. CASE UpdateSettings
    BY <2>1 DEF UpdateSettings
  <2>2. CASE MoveArtworkAside
    BY <2>2 DEF MoveArtworkAside
  <2>3. CASE PlaceArtwork
    BY <2>3 DEF PlaceArtwork
  <2>4. CASE RemoveMarker
    BY <2>4 DEF RemoveMarker
  <2>5. CASE VerifyPasses
    BY <2>5 DEF VerifyPasses
  <2>6. CASE VerifyFails
    BY <2>6 DEF VerifyFails
  <2>7. CASE FinalizeArtwork
    BY <2>7 DEF FinalizeArtwork
  <2>8. CASE RemoveStaging
    BY <2>8 DEF RemoveStaging
  <2>9. CASE DropPrevious
    BY <2>9 DEF DropPrevious
  <2>10. CASE Complete
    BY <2>10 DEF Complete
  <2> QED  BY <1>4, <2>1, <2>2, <2>3, <2>4, <2>5, <2>6, <2>7, <2>8, <2>9, <2>10 DEF ActivateNext
<1>5. CASE RollbackNext
  <2>1. CASE RollbackWrite
    BY <2>1 DEF RollbackWrite
  <2>2. CASE WriteMarker("rbMark", "rbStop")
    BY <2>2 DEF WriteMarker
  <2>3. CASE TermApi("rbStop")
    BY <2>3 DEF TermApi
  <2>4. CASE ApiGone("rbStop", "rbDb")
    BY <2>4 DEF ApiGone
  <2>5. CASE ApiStaysIgnored("rbStop", "rbDb")
    BY <2>5 DEF ApiStaysIgnored
  <2>6. CASE RollBackDb
    BY <2>6 DEF RollBackDb
  <2>7. CASE RollBackArtwork
    BY <2>7 DEF RollBackArtwork
  <2>8. CASE RollbackUnmark
    BY <2>8 DEF RollbackUnmark
  <2>9. CASE RollbackHealth
    BY <2>9 DEF RollbackHealth
  <2> QED  BY <1>5, <2>1, <2>2, <2>3, <2>4, <2>5, <2>6, <2>7, <2>8, <2>9 DEF RollbackNext
<1>6. CASE FailNext
  BY <1>6 DEF FailNext, FailWritesJournal, FailRemovesMarker
<1>7. CASE Deadline
  BY <1>7 DEF Deadline
<1>8. CASE ApiNext
  BY <1>8 DEF ApiNext, ApiBoots, ApiExits
<1>9. CASE ShellNext
  BY <1>9 DEF ShellNext, ShellWaits, ShellSeesMarkerGone, ShellStartsApi, ShellShutsDown,
           ContainerRestarts
<1>10. CASE ReconcileNext
  BY <1>10 DEF ReconcileNext, ReconcileRead, ReconcileWrite
<1>11. CASE UploadNext
  BY <1>11 DEF UploadNext, UploadStarts, UploadEnds
<1>12. CASE Crash
  BY <1>12 DEF Crash, ContainerRestarts
<1>13. CASE UNCHANGED vars
  BY <1>13 DEF vars
<1> QED  BY <1>1, <1>2, <1>3, <1>4, <1>5, <1>6, <1>7, <1>8, <1>9, <1>10, <1>11, <1>12, <1>13 DEF Next, AgentNext

\* The journal comes to say that the rollback succeeded only while the original database is
\* the live one, also when a stale copy is written back (RollbackReportIsTrue).
THEOREM RollbackReported == Spec => RollbackReportIsTrue
<1> DEFINE Report ==
      job.rollback # "Succeeded" /\ job'.rollback = "Succeeded" => live.data = "original"
<1>1. TypeOK /\ DatabaseInv /\ ActivationInv /\ [Next]_vars => [Report]_vars
  BY ReportTrueStep DEF ActivationInv
<1>2. Spec => [][Report]_vars
  BY <1>1, TypeCorrect, DatabaseInvariant, ActivationInvariant, PTL DEF Spec
<1> QED  BY <1>2 DEF RollbackReportIsTrue
=============================================================================
