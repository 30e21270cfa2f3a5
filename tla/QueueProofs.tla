----------------------------- MODULE QueueProofs -----------------------------
(***************************************************************************)
(* Proofs about the two background writers that work off a queue and keep  *)
(* a limit: WeatherJobs, for every set of trips, attempt limit, daily      *)
(* budget and bound on chunks, failures and crashes; and IngestionCapture, *)
(* as the instance IC, for any finite set of request handlers, every       *)
(* limit on stored events, every size of channel and batch, and all bounds.*)
(*                                                                         *)
(* Of the weather jobs, QueueInv types the state; the other invariants are *)
(* strengthened by what holds between a check and the act it allows:       *)
(* MeterInv and SwitchInv at "send", OutcomeInv at "complete".             *)
(*                                                                         *)
(* Of the captures, LedgerInv holds the limit only because the writer's    *)
(* ledger counts no less than is stored of the capture in the row, which   *)
(* needs that the row's capture was never partly deleted; StopInv because  *)
(* the stop that closed the row is the only one about to write a marker;   *)
(* FutureInv and StartsInv because captures are numbered when committed.   *)
(***************************************************************************)
EXTENDS WeatherJobs, FiniteSetTheorems, SequenceTheorems, TLAPS

\* Types, and the ownership of jobs and claims, are preserved.
LEMMA QueueStep == QueueInv /\ [Next]_vars => QueueInv'
<1> SUFFICES ASSUME QueueInv, [Next]_vars PROVE QueueInv'
  OBVIOUS
<1> USE NoTripAssumption, SizesAssumption
<1> USE DEF QueueInv, TypeOK, Statuses, Outcomes, queue, worker, meter, world
<1>1. CASE WorkerNext
  <2>1. CASE Gate
    BY <2>1 DEF Gate
  <2>2. CASE NoJob
    BY <2>2 DEF NoJob
  <2>3. CASE Load
    BY <2>3 DEF Load, StepFails
  <2>4. CASE ChunkGate
    BY <2>4 DEF ChunkGate, StepFails
  <2>5. CASE Send
    BY <2>5 DEF Send
  <2>6. CASE Fetch
    BY <2>6 DEF Fetch, StepFails
  <2>7. CASE Commit
    BY <2>7 DEF Commit, StepFails
  <2>8. CASE Settle
    BY <2>8 DEF Settle, Rest
  <2>9. CASE Postpone
    BY <2>9 DEF Postpone, Rest, Refunded
  <2>10. CASE FailJob
    BY <2>10 DEF FailJob, Rest
  <2>11. ASSUME NEW t \in Trips, Claim(t) PROVE QueueInv'
    BY <2>11 DEF Claim, Claimable
  <2> QED  BY <1>1, <2>1, <2>2, <2>3, <2>4, <2>5, <2>6, <2>7, <2>8, <2>9, <2>10,
                <2>11 DEF WorkerNext
<1>2. ASSUME NEW t \in Trips, PersistTrip(t) PROVE QueueInv'
  BY <1>2 DEF PersistTrip
<1>3. ASSUME NEW t \in Trips, Enqueue(t) PROVE QueueInv'
  BY <1>3 DEF Enqueue, Requeue
<1>4. ASSUME NEW t \in Trips, Reconcile(t) PROVE QueueInv'
  BY <1>4 DEF Reconcile, Requeue
<1>5. ASSUME NEW t \in Trips, BackoffEnds(t) PROVE QueueInv'
  BY <1>5 DEF BackoffEnds
<1>6. ASSUME NEW t \in Trips, Locate(t) PROVE QueueInv'
  BY <1>6 DEF Locate
<1>7. CASE Toggle
  BY <1>7 DEF Toggle
<1>8. CASE Midnight
  BY <1>8 DEF Midnight
<1>9. CASE Crash
  BY <1>9 DEF Crash
<1>10. CASE UNCHANGED vars
  BY <1>10 DEF vars
<1> QED  BY <1>1, <1>2, <1>3, <1>4, <1>5, <1>6, <1>7, <1>8, <1>9, <1>10 DEF Next

\* In every reachable state the queue keeps its types and its counter covers what is in flight.
LEMMA QueueInvariant == Spec => []QueueInv
<1>1. Init => QueueInv
  BY NoTripAssumption, SizesAssumption DEF Init, QueueInv, TypeOK, Statuses, Outcomes
<1> QED  BY <1>1, QueueStep, PTL DEF Spec

\* The columns and the worker's registers keep their types.
THEOREM TypeCorrect == Spec => []TypeOK
<1>1. QueueInv => TypeOK
  BY DEF QueueInv
<1> QED  BY <1>1, QueueInvariant, PTL

\* The counter keeps up with the requests, and the budget with the counter.
LEMMA MeterStep == QueueInv /\ MeterInv /\ [Next]_vars => MeterInv'
<1> SUFFICES ASSUME QueueInv, MeterInv, [Next]_vars PROVE MeterInv'
  OBVIOUS
<1> USE SizesAssumption
<1> USE DEF MeterInv, QueueInv, TypeOK, queue, worker, meter, world
<1>1. CASE WorkerNext
  <2>1. CASE Gate
    BY <2>1 DEF Gate
  <2>2. CASE NoJob
    BY <2>2 DEF NoJob
  <2>3. CASE Load
    BY <2>3 DEF Load, StepFails
  <2>4. CASE ChunkGate
    BY <2>4 DEF ChunkGate, StepFails
  <2>5. CASE Send
    BY <2>5 DEF Send
  <2>6. CASE Fetch
    BY <2>6 DEF Fetch, StepFails
  <2>7. CASE Commit
    BY <2>7 DEF Commit, StepFails
  <2>8. CASE Settle
    BY <2>8 DEF Settle, Rest
  <2>9. CASE Postpone
    BY <2>9 DEF Postpone, Rest, Refunded
  <2>10. CASE FailJob
    BY <2>10 DEF FailJob, Rest
  <2>11. ASSUME NEW t \in Trips, Claim(t) PROVE MeterInv'
    BY <2>11 DEF Claim, Claimable
  <2> QED  BY <1>1, <2>1, <2>2, <2>3, <2>4, <2>5, <2>6, <2>7, <2>8, <2>9, <2>10,
                <2>11 DEF WorkerNext
<1>2. ASSUME NEW t \in Trips, PersistTrip(t) PROVE MeterInv'
  BY <1>2 DEF PersistTrip
<1>3. ASSUME NEW t \in Trips, Enqueue(t) PROVE MeterInv'
  BY <1>3 DEF Enqueue, Requeue
<1>4. ASSUME NEW t \in Trips, Reconcile(t) PROVE MeterInv'
  BY <1>4 DEF Reconcile, Requeue
<1>5. ASSUME NEW t \in Trips, BackoffEnds(t) PROVE MeterInv'
  BY <1>5 DEF BackoffEnds
<1>6. ASSUME NEW t \in Trips, Locate(t) PROVE MeterInv'
  BY <1>6 DEF Locate
<1>7. CASE Toggle
  BY <1>7 DEF Toggle
<1>8. CASE Midnight
  BY <1>8 DEF Midnight
<1>9. CASE Crash
  BY <1>9 DEF Crash
<1>10. CASE UNCHANGED vars
  BY <1>10 DEF vars
<1> QED  BY <1>1, <1>2, <1>3, <1>4, <1>5, <1>6, <1>7, <1>8, <1>9, <1>10 DEF Next

\* No day sees more provider requests than the budget.
THEOREM BudgetHolds == Spec => []BudgetRespected
<1>1. Init => MeterInv
  BY SizesAssumption DEF Init, MeterInv
<1>2. QueueInv /\ MeterInv => BudgetRespected
  BY SizesAssumption DEF MeterInv, BudgetRespected, QueueInv, TypeOK
<1> QED  BY <1>1, <1>2, MeterStep, QueueInvariant, PTL DEF Spec

\* A request passes its check while the switch is on.
LEMMA SwitchStep == QueueInv /\ SwitchInv /\ [Next]_vars => SwitchInv'
<1> SUFFICES ASSUME QueueInv, SwitchInv, [Next]_vars PROVE SwitchInv'
  OBVIOUS
<1> USE DEF SwitchInv, QueueInv, TypeOK, queue, worker, meter, world
<1>1. CASE WorkerNext
  <2>1. CASE Gate
    BY <2>1 DEF Gate
  <2>2. CASE NoJob
    BY <2>2 DEF NoJob
  <2>3. CASE Load
    BY <2>3 DEF Load, StepFails
  <2>4. CASE ChunkGate
    BY <2>4 DEF ChunkGate, StepFails
  <2>5. CASE Send
    BY <2>5 DEF Send
  <2>6. CASE Fetch
    BY <2>6 DEF Fetch, StepFails
  <2>7. CASE Commit
    BY <2>7 DEF Commit, StepFails
  <2>8. CASE Settle
    BY <2>8 DEF Settle, Rest
  <2>9. CASE Postpone
    BY <2>9 DEF Postpone, Rest, Refunded
  <2>10. CASE FailJob
    BY <2>10 DEF FailJob, Rest
  <2>11. ASSUME NEW t \in Trips, Claim(t) PROVE SwitchInv'
    BY <2>11 DEF Claim, Claimable
  <2> QED  BY <1>1, <2>1, <2>2, <2>3, <2>4, <2>5, <2>6, <2>7, <2>8, <2>9, <2>10,
                <2>11 DEF WorkerNext
<1>2. ASSUME NEW t \in Trips, PersistTrip(t) PROVE SwitchInv'
  BY <1>2 DEF PersistTrip
<1>3. ASSUME NEW t \in Trips, Enqueue(t) PROVE SwitchInv'
  BY <1>3 DEF Enqueue, Requeue
<1>4. ASSUME NEW t \in Trips, Reconcile(t) PROVE SwitchInv'
  BY <1>4 DEF Reconcile, Requeue
<1>5. ASSUME NEW t \in Trips, BackoffEnds(t) PROVE SwitchInv'
  BY <1>5 DEF BackoffEnds
<1>6. ASSUME NEW t \in Trips, Locate(t) PROVE SwitchInv'
  BY <1>6 DEF Locate
<1>7. CASE Toggle
  BY <1>7 DEF Toggle
<1>8. CASE Midnight
  BY <1>8 DEF Midnight
<1>9. CASE Crash
  BY <1>9 DEF Crash
<1>10. CASE UNCHANGED vars
  BY <1>10 DEF vars
<1> QED  BY <1>1, <1>2, <1>3, <1>4, <1>5, <1>6, <1>7, <1>8, <1>9, <1>10 DEF Next

\* One request at most is made after the switch is turned off.
THEOREM OneLateRequest == Spec => []AtMostOneLateRequest
<1>1. Init => SwitchInv
  BY DEF Init, SwitchInv
<1>2. QueueInv /\ SwitchInv => AtMostOneLateRequest
  BY DEF SwitchInv, AtMostOneLateRequest
<1> QED  BY <1>1, <1>2, SwitchStep, QueueInvariant, PTL DEF Spec

\* Weather, once committed, stays, and completion follows it.
LEMMA OutcomeStep == QueueInv /\ OutcomeInv /\ [Next]_vars => OutcomeInv'
<1> SUFFICES ASSUME QueueInv, OutcomeInv, [Next]_vars PROVE OutcomeInv'
  OBVIOUS
<1> USE DEF OutcomeInv, SucceededHasWeather, QueueInv, TypeOK, Statuses, Outcomes, queue,
worker, meter, world
<1>1. CASE WorkerNext
  <2>1. CASE Gate
    BY <2>1 DEF Gate
  <2>2. CASE NoJob
    BY <2>2 DEF NoJob
  <2>3. CASE Load
    BY <2>3 DEF Load, StepFails
  <2>4. CASE ChunkGate
    BY <2>4 DEF ChunkGate, StepFails
  <2>5. CASE Send
    BY <2>5 DEF Send
  <2>6. CASE Fetch
    BY <2>6 DEF Fetch, StepFails
  <2>7. CASE Commit
    BY <2>7 DEF Commit, StepFails
  <2>8. CASE Settle
    BY <2>8 DEF Settle, Rest
  <2>9. CASE Postpone
    BY <2>9 DEF Postpone, Rest, Refunded
  <2>10. CASE FailJob
    BY <2>10 DEF FailJob, Rest
  <2>11. ASSUME NEW t \in Trips, Claim(t) PROVE OutcomeInv'
    BY <2>11 DEF Claim, Claimable
  <2> QED  BY <1>1, <2>1, <2>2, <2>3, <2>4, <2>5, <2>6, <2>7, <2>8, <2>9, <2>10,
                <2>11 DEF WorkerNext
<1>2. ASSUME NEW t \in Trips, PersistTrip(t) PROVE OutcomeInv'
  BY <1>2 DEF PersistTrip
<1>3. ASSUME NEW t \in Trips, Enqueue(t) PROVE OutcomeInv'
  BY <1>3 DEF Enqueue, Requeue
<1>4. ASSUME NEW t \in Trips, Reconcile(t) PROVE OutcomeInv'
  BY <1>4 DEF Reconcile, Requeue
<1>5. ASSUME NEW t \in Trips, BackoffEnds(t) PROVE OutcomeInv'
  BY <1>5 DEF BackoffEnds
<1>6. ASSUME NEW t \in Trips, Locate(t) PROVE OutcomeInv'
  BY <1>6 DEF Locate
<1>7. CASE Toggle
  BY <1>7 DEF Toggle
<1>8. CASE Midnight
  BY <1>8 DEF Midnight
<1>9. CASE Crash
  BY <1>9 DEF Crash
<1>10. CASE UNCHANGED vars
  BY <1>10 DEF vars
<1> QED  BY <1>1, <1>2, <1>3, <1>4, <1>5, <1>6, <1>7, <1>8, <1>9, <1>10 DEF Next

\* A job is marked succeeded only after its trip's weather was committed.
THEOREM WeatherBeforeSuccess == Spec => []SucceededHasWeather
<1>1. Init => OutcomeInv
  BY DEF Init, OutcomeInv, SucceededHasWeather
<1>2. QueueInv /\ OutcomeInv => SucceededHasWeather
  BY DEF OutcomeInv
<1> QED  BY <1>1, <1>2, OutcomeStep, QueueInvariant, PTL DEF Spec

\* Every claim ends in a conclusion, a refund or a crash.
LEMMA AttemptsStep == QueueInv /\ AttemptsAreUsed /\ [Next]_vars => AttemptsAreUsed'
<1> SUFFICES ASSUME QueueInv, AttemptsAreUsed, [Next]_vars PROVE AttemptsAreUsed'
  OBVIOUS
<1> USE NoTripAssumption, SizesAssumption
<1> USE DEF AttemptsAreUsed, QueueInv, TypeOK, Statuses, Outcomes, queue, worker, meter,
world
<1>1. CASE WorkerNext
  <2>1. CASE Gate
    BY <2>1 DEF Gate
  <2>2. CASE NoJob
    BY <2>2 DEF NoJob
  <2>3. CASE Load
    BY <2>3 DEF Load, StepFails
  <2>4. CASE ChunkGate
    BY <2>4 DEF ChunkGate, StepFails
  <2>5. CASE Send
    BY <2>5 DEF Send
  <2>6. CASE Fetch
    BY <2>6 DEF Fetch, StepFails
  <2>7. CASE Commit
    BY <2>7 DEF Commit, StepFails
  <2>8. CASE Settle
    BY <2>8 DEF Settle, Rest
  <2>9. CASE Postpone
    BY <2>9 DEF Postpone, Rest, Refunded
  <2>10. CASE FailJob
    BY <2>10 DEF FailJob, Rest
  <2>11. ASSUME NEW t \in Trips, Claim(t) PROVE AttemptsAreUsed'
    BY <2>11 DEF Claim, Claimable
  <2> QED  BY <1>1, <2>1, <2>2, <2>3, <2>4, <2>5, <2>6, <2>7, <2>8, <2>9, <2>10,
                <2>11 DEF WorkerNext
<1>2. ASSUME NEW t \in Trips, PersistTrip(t) PROVE AttemptsAreUsed'
  BY <1>2 DEF PersistTrip
<1>3. ASSUME NEW t \in Trips, Enqueue(t) PROVE AttemptsAreUsed'
  BY <1>3 DEF Enqueue, Requeue
<1>4. ASSUME NEW t \in Trips, Reconcile(t) PROVE AttemptsAreUsed'
  BY <1>4 DEF Reconcile, Requeue
<1>5. ASSUME NEW t \in Trips, BackoffEnds(t) PROVE AttemptsAreUsed'
  BY <1>5 DEF BackoffEnds
<1>6. ASSUME NEW t \in Trips, Locate(t) PROVE AttemptsAreUsed'
  BY <1>6 DEF Locate
<1>7. CASE Toggle
  BY <1>7 DEF Toggle
<1>8. CASE Midnight
  BY <1>8 DEF Midnight
<1>9. CASE Crash
  BY <1>9 DEF Crash
<1>10. CASE UNCHANGED vars
  BY <1>10 DEF vars
<1> QED  BY <1>1, <1>2, <1>3, <1>4, <1>5, <1>6, <1>7, <1>8, <1>9, <1>10 DEF Next

\* Attempts are used by claims that came to a conclusion and by crashes, and by nothing else.
THEOREM AttemptsAccounted == Spec => []AttemptsAreUsed
<1>1. Init => AttemptsAreUsed
  BY SizesAssumption DEF Init, AttemptsAreUsed
<1> QED  BY <1>1, AttemptsStep, QueueInvariant, PTL DEF Spec

-----------------------------------------------------------------------------
(* The ingestion captures *)

CONSTANTS Requests, Expirer, Cap, ChannelCapacity, BatchRows, MaxCaptures, MaxLoad, MaxFaults
VARIABLES row, log, cut, made, lapsed, window, chan, batch, writing, ledger, task,
          offered, abandons, faults, restarts

\* The bound on restarts has the same name in both modules.
IC == INSTANCE IngestionCapture WITH crashes <- restarts

\* A set is finite in the instance when it is here.
LEMMA SameFinite == \A S : IC!IsFiniteSet(S) <=> IsFiniteSet(S)
  BY DEF IC!IsFiniteSet, IsFiniteSet

\* A set is counted in the instance as it is here.
LEMMA SameCount == \A S : IC!Cardinality(S) = Cardinality(S)
  BY DEF IC!Cardinality, Cardinality


\* The limits and bounds are as the module assumes.
Assumed == IC!RequestsAssumption /\ IC!CapacityAssumption /\ IC!BoundsAssumption

\* A task at a step has what the step needs.  A start has seen no more than was committed.
Steps == {"idle", "delete", "commit", "register", "unregister", "update", "marker"}
State == [at : Steps, reason : {"none", "user", "expired"}, id : IC!Captures \cup {0},
          dropped : BOOLEAN, seen : [IC!Captures -> Nat]]
TasksInv ==
    /\ task \in [IC!Tasks -> State]
    /\ \A t \in IC!Tasks :
         /\ IC!At(t, "delete") \/ IC!At(t, "commit") => t \in Requests
         /\ IC!At(t, "register") \/ IC!At(t, "marker") => task[t].id \in 1 .. made
         /\ IC!At(t, "unregister") \/ IC!At(t, "update") => task[t].reason # "none"
         /\ IC!At(t, "commit") => \A c \in IC!Captures : task[t].seen[c] <= Len(log[c])

\* The starts under way will find a number for their capture.
StartsInv == made + Cardinality(IC!Starting) <= MaxCaptures

\* Of a capture that is not committed yet nothing is stored, queued or known.
FutureInv ==
    /\ \A c \in IC!Captures : c > made => log[c] = <<>> /\ ~ledger[c].known
    /\ \A i \in DOMAIN chan : chan[i] <= made
    /\ \A i \in DOMAIN batch : batch[i] <= made

\* The ledger counts no less than is stored of the capture that can still grow; a marker it
\* does not know of was followed by a restart.
Taken(c) == IC!Number("started", c) + IC!Number("frame", c)
LedgerInv ==
    \A c \in IC!Captures :
        /\ Taken(c) <= Cap
        /\ ledger[c].known /\ c = row.id => Taken(c) <= ledger[c].count
        /\ ledger[c].truncated => ledger[c].known
        /\ IC!Number("truncated", c) <= restarts + (IF ledger[c].truncated THEN 1 ELSE 0)

\* A stop that has closed the row is the only one to write the marker.
StopInv ==
    \A c \in IC!Captures :
        /\ IC!Number("stopped", c) <= 1
        /\ IC!Number("stopped", c) = 1 /\ c = row.id => row.stop # "open"
        /\ \A t \in IC!Tasks : IC!At(t, "marker") /\ task[t].id = c =>
             /\ IC!Number("stopped", c) = 0 /\ (c = row.id => row.stop # "open")
             /\ \A u \in IC!Tasks : IC!At(u, "marker") /\ task[u].id = c => u = t

CapturesInv ==
    /\ Assumed /\ IC!TypeOK /\ TasksInv /\ StartsInv /\ FutureInv /\ LedgerInv /\ StopInv
    /\ IC!CurrentCaptureComplete

-----------------------------------------------------------------------------
(* Counting the events of a kind                                           *)

Positions(kind, s) == {i \in DOMAIN s : s[i] = kind}
Count(kind, s)     == Cardinality(Positions(kind, s))

\* The events of a kind are finitely many.
LEMMA CountType ==
  ASSUME NEW s \in Seq(IC!Kinds), NEW kind
  PROVE  /\ Positions(kind, s) \subseteq 1 .. Len(s) /\ IsFiniteSet(Positions(kind, s))
         /\ Count(kind, s) \in Nat
<1>1. Len(s) \in Nat /\ Positions(kind, s) \subseteq 1 .. Len(s)
  BY DEF Positions
<1>2. IsFiniteSet(1 .. Len(s))
  BY <1>1, FS_Interval
<1>3. IsFiniteSet(Positions(kind, s))
  BY <1>1, <1>2, FS_Subset
<1> QED  BY <1>1, <1>3, FS_CardinalityType DEF Count

\* Nothing is counted in the empty log, and one event in a log of one.
LEMMA CountShort ==
  ASSUME NEW kind
  PROVE  /\ Count(kind, <<>>) = 0
         /\ \A e : Count(kind, <<e>>) = IF e = kind THEN 1 ELSE 0
<1>1. Positions(kind, <<>>) = {}
  BY DEF Positions
<1>2. \A e : Positions(kind, <<e>>) = IF e = kind THEN {1} ELSE {}
  BY DEF Positions
<1>3. Cardinality({}) = 0 /\ Cardinality({1}) = 1
  BY FS_EmptySet, FS_Singleton
<1> QED  BY <1>1, <1>2, <1>3 DEF Count

\* What is appended is counted on its own.
LEMMA CountConcat ==
  ASSUME NEW s \in Seq(IC!Kinds), NEW u \in Seq(IC!Kinds), NEW kind
  PROVE  Count(kind, s \o u) = Count(kind, s) + Count(kind, u)
<1> DEFINE n == Len(s)
           P == Positions(kind, u)
           Moved == {i + n : i \in P}
           Shift == [i \in P |-> i + n]
<1>1. n \in Nat /\ P \subseteq 1 .. Len(u) /\ Len(u) \in Nat /\ IsFiniteSet(P)
  BY CountType
<1>2. Positions(kind, s \o u) = Positions(kind, s) \cup Moved
  <2>1. /\ s \o u \in Seq(IC!Kinds) /\ Len(s \o u) = n + Len(u)
        /\ \A i \in 1 .. n + Len(u) : (s \o u)[i] = IF i <= n THEN s[i] ELSE u[i - n]
    OBVIOUS
  <2>2. ASSUME NEW i \in Positions(kind, s \o u), i \notin Positions(kind, s)
        PROVE  i \in Moved
    <3>1. i \in 1 .. n + Len(u) /\ (s \o u)[i] = kind
      BY <2>1, <2>2 DEF Positions
    <3>2. ~(i <= n)
      BY <1>1, <2>1, <2>2, <3>1 DEF Positions
    <3>3. i - n \in P /\ i = (i - n) + n
      BY <1>1, <2>1, <3>1, <3>2 DEF Positions
    <3> QED  BY <3>3
  <2>3. ASSUME NEW i \in P PROVE i + n \in Positions(kind, s \o u)
    <3>1. i \in 1 .. Len(u) /\ u[i] = kind
      BY <1>1 DEF Positions
    <3>2. i + n \in 1 .. n + Len(u) /\ ~(i + n <= n) /\ (i + n) - n = i
      BY <1>1, <3>1
    <3> QED  BY <2>1, <3>1, <3>2 DEF Positions
  <2>4. ASSUME NEW i \in Positions(kind, s) PROVE i \in Positions(kind, s \o u)
    <3>1. i \in 1 .. n /\ s[i] = kind
      BY DEF Positions
    <3> QED  BY <1>1, <2>1, <3>1 DEF Positions
  <2> HIDE DEF P, n
  <2> QED  BY <2>2, <2>3, <2>4
<1>3. Positions(kind, s) \cap Moved = {}
  <2>1. Positions(kind, s) \subseteq 1 .. n
    BY CountType
  <2> HIDE DEF P, n
  <2> QED  BY <1>1, <2>1
<1>4. IsFiniteSet(Moved) /\ Cardinality(Moved) = Cardinality(P)
  <2> HIDE DEF P, n
  <2>1. Shift \in Bijection(P, Moved)
    BY <1>1 DEF Bijection, Injection, Surjection, IsInjective
  <2>2. ExistsBijection(P, Moved)
    BY <2>1 DEF ExistsBijection
  <2> HIDE DEF Moved
  <2> QED  BY <1>1, <2>2, FS_Bijection
<1>5. IsFiniteSet(Positions(kind, s)) /\ Cardinality(Positions(kind, s)) \in Nat
      /\ Cardinality(P) \in Nat
  BY CountType DEF Count
<1> HIDE DEF Moved, P
<1>6. Cardinality(Positions(kind, s) \cup Moved)
         = Cardinality(Positions(kind, s)) + Cardinality(Moved) - Cardinality({})
  BY <1>3, <1>4, <1>5, FS_Union
<1> QED  BY <1>2, <1>4, <1>5, <1>6, FS_EmptySet DEF Count, P

\* One event more counts one more of its kind.
LEMMA CountAppend ==
  ASSUME NEW s \in Seq(IC!Kinds), NEW e \in IC!Kinds, NEW kind
  PROVE  Count(kind, Append(s, e)) = IF e = kind THEN Count(kind, s) + 1 ELSE Count(kind, s)
<1>1. Append(s, e) = s \o <<e>> /\ <<e>> \in Seq(IC!Kinds)
  BY AppendIsConcat
<1>2. Count(kind, s \o <<e>>) = Count(kind, s) + Count(kind, <<e>>)
  BY <1>1, CountConcat
<1>3. Count(kind, <<e>>) = (IF e = kind THEN 1 ELSE 0) /\ Count(kind, s) \in Nat
  BY CountShort, CountType
<1> QED  BY <1>1, <1>2, <1>3

\* As many frames as there are.
Frames(n) == [i \in 1 .. n |-> "frame"]
\* A run of frames is a log of frames only.
LEMMA CountFrames ==
  ASSUME NEW n \in Nat, NEW kind
  PROVE  /\ Frames(n) \in Seq(IC!Kinds) /\ Len(Frames(n)) = n
         /\ Count(kind, Frames(n)) = IF kind = "frame" THEN n ELSE 0
<1>1. Frames(n) \in Seq(IC!Kinds) /\ Len(Frames(n)) = n
  BY DEF Frames, IC!Kinds
<1>2. Positions(kind, Frames(n)) = IF kind = "frame" THEN 1 .. n ELSE {}
  BY DEF Positions, Frames
<1>3. Cardinality(1 .. n) = n
  BY FS_Interval
<1> QED  BY <1>1, <1>2, <1>3, FS_EmptySet DEF Count

\* Events of two kinds are no more than all events.
LEMMA CountsFit ==
  ASSUME NEW s \in Seq(IC!Kinds), NEW a, NEW b, a # b
  PROVE  Count(a, s) + Count(b, s) <= Len(s)
<1>1. /\ IsFiniteSet(Positions(a, s)) /\ IsFiniteSet(Positions(b, s))
      /\ Cardinality(Positions(a, s)) \in Nat /\ Cardinality(Positions(b, s)) \in Nat
      /\ Positions(a, s) \cup Positions(b, s) \subseteq 1 .. Len(s)
  BY CountType DEF Count
<1>2. Positions(a, s) \cap Positions(b, s) = {}
  BY DEF Positions
<1>3. Len(s) \in Nat /\ IsFiniteSet(1 .. Len(s)) /\ Cardinality(1 .. Len(s)) = Len(s)
  <2>1. PICK n \in Nat : n = Len(s)
    OBVIOUS
  <2>2. IsFiniteSet(1 .. n) /\ Cardinality(1 .. n) = n
    BY FS_Interval
  <2> QED  BY <2>1, <2>2
<1>4. Cardinality(Positions(a, s) \cup Positions(b, s)) <= Len(s)
  BY <1>1, <1>3, FS_Subset
<1>5. Cardinality(Positions(a, s) \cup Positions(b, s))
        = Cardinality(Positions(a, s)) + Cardinality(Positions(b, s)) - Cardinality({})
  BY <1>1, <1>2, FS_Union
<1> QED  BY <1>1, <1>3, <1>4, <1>5, FS_EmptySet DEF Count

\* The number of a kind in the log of a capture.
LEMMA NumberIs == \A kind, c : IC!Number(kind, c) = Count(kind, log[c])
  BY SameCount DEF IC!Number, Count, Positions

-----------------------------------------------------------------------------
(* What the actions do                                                     *)

\* The types, in the forms the proofs below use.
LEMMA TypesAre ==
  ASSUME CapturesInv
  PROVE  /\ MaxCaptures \in Nat /\ made \in Nat
       /\ made <= MaxCaptures /\ IC!Captures = 1 .. MaxCaptures
         /\ Cap \in Nat /\ Cap >= 1 /\ ChannelCapacity \in Nat /\ BatchRows \in Nat
         /\ MaxLoad \in Nat /\ MaxFaults \in Nat /\ MaxCrashes \in Nat
         /\ row.id \in Nat /\ row.id <= made /\ (row.id # 0 => row.id \in IC!Captures)
         /\ \A c \in IC!Captures : /\ log[c] \in Seq(IC!Kinds) /\ Len(log[c]) \in Nat
                                /\ cut[c] \in Nat /\ cut[c] <= Len(log[c])
                                /\ ledger[c].count \in Nat /\ ledger[c].truncated \in BOOLEAN
                                /\ ledger[c].known \in BOOLEAN
<1>1. /\ MaxCaptures \in Nat /\ Cap \in Nat /\ Cap >= 1 /\ ChannelCapacity \in Nat
      /\ BatchRows \in Nat /\ MaxLoad \in Nat /\ MaxFaults \in Nat /\ MaxCrashes \in Nat
  BY DEF CapturesInv, Assumed, IC!CapacityAssumption, IC!BoundsAssumption
<1>2. made \in Nat /\ made <= MaxCaptures /\ row.id \in Nat /\ row.id <= made
  BY <1>1 DEF CapturesInv, IC!TypeOK
<1>3. ASSUME NEW c \in IC!Captures
      PROVE  /\ log[c] \in Seq(IC!Kinds) /\ Len(log[c]) \in Nat
             /\ cut[c] \in Nat /\ cut[c] <= Len(log[c])
  <2>1. log[c] \in Seq(IC!Kinds) /\ cut[c] \in Nat /\ Len(log[c]) - cut[c] >= 0
    BY DEF CapturesInv, IC!TypeOK, IC!Kept
  <2>2. \A n, m \in Nat : n - m >= 0 => m <= n
    OBVIOUS
  <2> QED  BY <2>1, <2>2
<1>4. ASSUME NEW c \in IC!Captures
      PROVE  ledger[c].count \in Nat /\ ledger[c].truncated \in BOOLEAN
           /\ ledger[c].known \in BOOLEAN
  BY DEF CapturesInv, IC!TypeOK
<1> QED  BY <1>1, <1>2, <1>3, <1>4 DEF IC!Captures

\* What a batch stores of a capture.
LEMMA RowsAre ==
  ASSUME CapturesInv, NEW c \in IC!Captures
  PROVE  /\ IC!Stores(c) \in Nat /\ IC!Truncates(c) \in BOOLEAN
         /\ IC!Stores(c) = 0 \/ ledger[c].count + IC!Stores(c) <= Cap
         /\ IC!Truncates(c) => ~ledger[c].truncated
         /\ IC!Unseeded = {} /\ ~ledger[c].known => IC!Stores(c) = 0 /\ ~IC!Truncates(c)
         /\ IC!Rows(c) \in Seq(IC!Kinds) /\ Len(IC!Rows(c)) \in Nat
         /\ Count("frame", IC!Rows(c)) = IC!Stores(c)
         /\ Count("started", IC!Rows(c)) = 0 /\ Count("stopped", IC!Rows(c)) = 0
         /\ Count("truncated", IC!Rows(c)) = IF IC!Truncates(c) THEN 1 ELSE 0
<1>1. ledger[c].count \in Nat /\ ledger[c].truncated \in BOOLEAN /\ Cap \in Nat
  BY TypesAre
<1>2. IC!Room(c) \in Nat /\ (IC!Room(c) = 0 \/ ledger[c].count + IC!Room(c) <= Cap)
  BY <1>1 DEF IC!Room
<1> DEFINE R == {i \in DOMAIN batch : batch[i] = c}
<1>3. IsFiniteSet(R) /\ IC!Records(c) \in Nat /\ IC!Records(c) = Cardinality(R)
  <2>1. Len(batch) \in Nat /\ R \subseteq 1 .. Len(batch)
    <3>1. batch \in Seq(IC!Captures)
      BY DEF CapturesInv, IC!TypeOK
    <3> QED  BY <3>1
  <2>2. IsFiniteSet(1 .. Len(batch))
    BY <2>1, FS_Interval
  <2> HIDE DEF R
  <2>3. IsFiniteSet(R)
    BY <2>1, <2>2, FS_Subset
  <2>4. IC!Records(c) = Cardinality(R)
    BY SameCount DEF IC!Records, R
  <2> QED  BY <2>3, <2>4, FS_CardinalityType
<1>4. /\ IC!Stores(c) \in Nat /\ IC!Stores(c) <= IC!Room(c) /\ IC!Truncates(c) \in BOOLEAN
      /\ IC!Truncates(c) => ~ledger[c].truncated
  BY <1>1, <1>2, <1>3 DEF IC!Stores, IC!Truncates
<1>5. ASSUME IC!Unseeded = {}, ~ledger[c].known PROVE IC!Stores(c) = 0 /\ ~IC!Truncates(c)
  <2>1. R = {}
    BY <1>5 DEF IC!Unseeded
  <2> HIDE DEF R
  <2>2. IC!Records(c) = 0
    BY <1>3, <2>1, FS_EmptySet
  <2> QED  BY <1>2, <2>2 DEF IC!Stores, IC!Truncates
<1>6. /\ Frames(IC!Stores(c)) \in Seq(IC!Kinds) /\ Len(Frames(IC!Stores(c))) \in Nat
      /\ \A kind : Count(kind, Frames(IC!Stores(c))) = IF kind = "frame" THEN IC!Stores(c) ELSE 0
  BY <1>4, CountFrames
<1> DEFINE M == IF IC!Truncates(c) THEN <<"truncated">> ELSE <<>>
<1>7. M \in Seq(IC!Kinds) /\ IC!Rows(c) = Frames(IC!Stores(c)) \o M
  <2>1. M \in Seq(IC!Kinds)
    <3>1. "truncated" \in IC!Kinds
      BY DEF IC!Kinds
    <3>2. <<"truncated">> \in Seq(IC!Kinds) /\ <<>> \in Seq(IC!Kinds)
      BY <3>1
    <3> QED  BY <3>2
  <2>2. IC!Rows(c) = Frames(IC!Stores(c)) \o M
    BY DEF IC!Rows, Frames
  <2> QED  BY <2>1, <2>2
<1>8. \A kind : Count(kind, M) = IF IC!Truncates(c) /\ kind = "truncated" THEN 1 ELSE 0
  BY CountShort
<1> HIDE DEF M
<1>9. \A kind : Count(kind, IC!Rows(c)) = Count(kind, Frames(IC!Stores(c))) + Count(kind, M)
  BY <1>6, <1>7, CountConcat
<1>10. IC!Rows(c) \in Seq(IC!Kinds) /\ Len(IC!Rows(c)) \in Nat
  BY <1>6, <1>7
<1>11. /\ Count("frame", IC!Rows(c)) = IC!Stores(c) + 0 /\ Count("started", IC!Rows(c)) = 0 + 0
       /\ Count("stopped", IC!Rows(c)) = 0 + 0
       /\ Count("truncated", IC!Rows(c)) = 0 + (IF IC!Truncates(c) THEN 1 ELSE 0)
  BY <1>6, <1>8, <1>9
<1>12. IC!Stores(c) = 0 \/ ledger[c].count + IC!Stores(c) <= Cap
  BY <1>1, <1>2, <1>4
<1> QED  BY <1>4, <1>5, <1>10, <1>11, <1>12

\* A handler that gives up.
LEMMA AbandonIs ==
  ASSUME CapturesInv, NEW t \in IC!Tasks, IC!Abandon(t)
  PROVE  /\ task' = [task EXCEPT ![t] = IC!Idle] /\ UNCHANGED <<offered, faults, restarts>>
         /\ abandons' \in 0 .. MaxFaults
<1>1. MaxFaults \in Nat /\ faults \in 0 .. MaxFaults /\ abandons \in 0 .. MaxFaults
  BY TypesAre DEF CapturesInv, IC!TypeOK
<1>2. faults + abandons < MaxFaults /\ abandons' = abandons + 1
  BY DEF IC!Abandon
<1> QED  BY <1>1, <1>2 DEF IC!Abandon, IC!Done

\* Positions up to which rows are deleted stay within the log.
LEMMA DeleteIs ==
  ASSUME CapturesInv, NEW positions \in [IC!Captures -> Nat], IC!Delete(positions),
         NEW c \in IC!Captures, NEW n \in Nat, positions[c] <= n, cut[c] <= n
  PROVE  cut'[c] \in Nat /\ cut'[c] <= n
  BY TypesAre DEF IC!Delete

\* The number of the next capture.
LEMMA NextCapture ==
  ASSUME CapturesInv, NEW t \in IC!Tasks, IC!At(t, "commit")
  PROVE  /\ made + 1 \in IC!Captures /\ t \in IC!Starting /\ IsFiniteSet(IC!Starting)
         /\ Cardinality(IC!Starting) \in Nat /\ log[made + 1] = <<>> /\ ~ledger[made + 1].known
<1>1. t \in IC!Starting
  BY DEF CapturesInv, TasksInv, IC!Starting
<1>2. IsFiniteSet(IC!Starting)
  <2>1. IsFiniteSet(Requests) /\ IC!Starting \subseteq Requests
    BY SameFinite DEF CapturesInv, Assumed, IC!RequestsAssumption, IC!Starting
  <2> QED  BY <2>1, FS_Subset
<1>3. Cardinality(IC!Starting) \in Nat /\ Cardinality(IC!Starting) # 0
  BY <1>1, <1>2, FS_CardinalityType, FS_EmptySet
<1>4. made + Cardinality(IC!Starting) <= MaxCaptures /\ made \in Nat /\ MaxCaptures \in Nat
  BY TypesAre DEF CapturesInv, StartsInv
<1>5. made + 1 \in IC!Captures /\ made + 1 > made
  BY <1>3, <1>4 DEF IC!Captures
<1> QED  BY <1>1, <1>2, <1>3, <1>5 DEF CapturesInv, FutureInv

-----------------------------------------------------------------------------
(* The types                                                               *)

\* What is stored, what the writer holds and what is counted have their types.
RowType == [id : 0 .. made, stop : {"none", "open", "user", "expired"},
          dropped : BOOLEAN, old : BOOLEAN]
Logs == /\ log \in [IC!Captures -> Seq(IC!Kinds)] /\ cut \in [IC!Captures -> Nat]
        /\ \A c \in IC!Captures : cut[c] <= Len(log[c])
Places == /\ row \in RowType /\ (row.id = 0 <=> row.stop = "none")
          /\ made \in 0 .. MaxCaptures /\ lapsed \in 0 .. made
          /\ window \in [id : 0 .. made, dropped : BOOLEAN]
Queues == /\ chan \in Seq(IC!Captures) /\ Len(chan) <= ChannelCapacity
          /\ batch \in Seq(IC!Captures) /\ Len(batch) <= BatchRows /\ writing \in BOOLEAN
Entries == [known : BOOLEAN, count : Nat, truncated : BOOLEAN]
Known == ledger \in [IC!Captures -> Entries]
Counts == /\ DOMAIN task = IC!Tasks /\ offered \in 0 .. MaxLoad /\ faults \in 0 .. MaxFaults
          /\ abandons \in 0 .. MaxFaults /\ restarts \in 0 .. MaxCrashes

\* The types in parts.
LEMMA TypeIs == /\ IC!TypeOK => Logs /\ Places /\ Queues /\ Known /\ Counts
                /\ Logs' /\ Places' /\ Queues' /\ Known' /\ Counts' => IC!TypeOK'
<1>1. \A n, m \in Nat : n - m >= 0 <=> m <= n
  OBVIOUS
<1>2. ASSUME IC!TypeOK PROVE Logs
  <2>1. log \in [IC!Captures -> Seq(IC!Kinds)] /\ cut \in [IC!Captures -> Nat]
        /\ \A c \in IC!Captures : Len(log[c]) - cut[c] >= 0
    BY <1>2 DEF IC!TypeOK, IC!Kept
  <2>2. \A c \in IC!Captures : Len(log[c]) \in Nat /\ cut[c] \in Nat
    BY <2>1
  <2> QED  BY <1>1, <2>1, <2>2 DEF Logs
<1>3. IC!TypeOK => Places /\ Queues /\ Known /\ Counts
  BY DEF IC!TypeOK, Places, Queues, Known, Entries, Counts, RowType
<1>4. ASSUME Logs' PROVE \A c \in IC!Captures : IC!Kept(c)' >= 0
  <2>1. ASSUME NEW c \in IC!Captures PROVE IC!Kept(c)' >= 0
    <3>1. log'[c] \in Seq(IC!Kinds) /\ cut'[c] \in Nat /\ cut'[c] <= Len(log'[c])
      BY <1>4 DEF Logs
    <3>2. Len(log'[c]) \in Nat
      BY <3>1
    <3>3. IC!Kept(c)' = Len(log'[c]) - cut'[c]
      BY DEF IC!Kept
    <3> QED  BY <1>1, <3>1, <3>2, <3>3
  <2> QED  BY <2>1
<1>5. ASSUME Logs', Places', Queues', Known', Counts' PROVE IC!TypeOK'
  <2>1. \A c \in IC!Captures : IC!Kept(c)' >= 0
    BY <1>4, <1>5
  <2> QED  BY <1>5, <2>1 DEF IC!TypeOK, Logs, Places, Queues, Known, Entries, Counts, RowType
<1> QED  BY <1>2, <1>3, <1>5

\* What grows: captures are numbered upwards and their logs are only appended to.
Grows == /\ made \in Nat /\ made' \in Nat /\ made <= made'
         /\ \A c \in IC!Captures : Len(log[c]) \in Nat /\ Len(log'[c]) \in Nat
                                /\ Len(log[c]) <= Len(log'[c])

\* What a start stores when its transaction commits: the row and the first event of a new
\* capture, of which nothing was stored or known; it deletes what it saw of the others.
LEMMA CommitIs ==
  ASSUME CapturesInv, NEW t \in IC!Tasks, IC!StartCommit(t), ~UNCHANGED IC!store
  PROVE  /\ made' = made + 1 /\ made + 1 \in IC!Captures /\ made \in Nat
         /\ row' = [id |-> made + 1, stop |-> "open", dropped |-> FALSE, old |-> FALSE]
         /\ log[made + 1] = <<>> /\ ~ledger[made + 1].known
         /\ log' = [log EXCEPT ![made + 1] = <<"started">>]
         /\ IC!Delete(task[t].seen)
         /\ task[t].seen \in [IC!Captures -> Nat]
         /\ \A c \in IC!Captures : task[t].seen[c] <= Len(log[c])
<1>1. /\ made' = made + 1
      /\ row' = [id |-> made', stop |-> "open", dropped |-> FALSE, old |-> FALSE]
      /\ log' = [log EXCEPT ![made'] = <<"started">>] /\ IC!Delete(task[t].seen)
      /\ IC!At(t, "commit")
  BY DEF IC!StartCommit
<1>2. made + 1 \in IC!Captures /\ log[made + 1] = <<>> /\ ~ledger[made + 1].known
  BY <1>1, NextCapture
<1>3. made \in Nat
  BY TypesAre
<1>4. task[t] \in State /\ \A c \in IC!Captures : task[t].seen[c] <= Len(log[c])
  BY <1>1 DEF CapturesInv, TasksInv
<1>5. task[t].seen \in [IC!Captures -> Nat]
  BY <1>4 DEF State
<1> QED  BY <1>1, <1>2, <1>3, <1>4, <1>5

\* The row and the logs of what a commit stored.
LEMMA CommitLogs ==
  ASSUME CapturesInv, NEW t \in IC!Tasks, IC!StartCommit(t), ~UNCHANGED IC!store
  PROVE  Logs' /\ Grows /\ log'[made + 1] = <<"started">> /\ cut'[made + 1] = 0
         /\ \A c \in IC!Captures \ {made + 1} : log'[c] = log[c]
<1>1. Logs
  BY TypeIs DEF CapturesInv
<1>2. log'[made + 1] = <<"started">> /\ \A c \in IC!Captures \ {made + 1} : log'[c] = log[c]
  BY <1>1, CommitIs DEF Logs
<1>3. <<"started">> \in Seq(IC!Kinds) /\ Len(<<"started">>) = 1 /\ Len(log[made + 1]) = 0
  BY CommitIs DEF IC!Kinds
<1>4. log' \in [IC!Captures -> Seq(IC!Kinds)]
  BY <1>1, <1>3, CommitIs DEF Logs
<1>5. ASSUME NEW c \in IC!Captures
      PROVE  Len(log[c]) \in Nat /\ Len(log'[c]) \in Nat /\ Len(log[c]) <= Len(log'[c])
  <2>1. CASE c = made + 1
    BY <1>2, <1>3, <2>1
  <2>2. CASE c # made + 1
    <3>1. log'[c] = log[c] /\ log[c] \in Seq(IC!Kinds)
      BY <1>1, <1>2, <2>2 DEF Logs
    <3> QED  BY <3>1
  <2> QED  BY <2>1, <2>2
<1>6. cut' = [c \in IC!Captures |-> IF task[t].seen[c] > cut[c] THEN task[t].seen[c] ELSE cut[c]]
  BY CommitIs DEF IC!Delete
<1>7. ASSUME NEW c \in IC!Captures PROVE cut'[c] \in Nat /\ cut'[c] <= Len(log[c])
  <2>1. cut[c] \in Nat /\ cut[c] <= Len(log[c]) /\ task[t].seen[c] \in Nat
        /\ task[t].seen[c] <= Len(log[c])
    BY <1>1, CommitIs DEF Logs
  <2>2. cut'[c] = IF task[t].seen[c] > cut[c] THEN task[t].seen[c] ELSE cut[c]
    BY <1>6
  <2> QED  BY <2>1, <2>2
<1>8. \A c \in IC!Captures : cut'[c] <= Len(log'[c])
  BY <1>5, <1>7
<1>9. cut' \in [IC!Captures -> Nat]
  BY <1>6, <1>7
<1>10. cut'[made + 1] = 0
  BY <1>3, <1>7, CommitIs
<1>11. Grows
  BY <1>5, CommitIs DEF Grows
<1> QED  BY <1>2, <1>4, <1>8, <1>9, <1>10, <1>11 DEF Logs

\* Nothing stored changes.
LEMMA StillLogs ==
  ASSUME CapturesInv, log' = log, made' = made
  PROVE  Grows /\ (cut' = cut => Logs')
<1>1. Logs /\ made \in Nat
  BY TypeIs, TypesAre DEF CapturesInv
<1>2. \A c \in IC!Captures : Len(log[c]) \in Nat /\ log'[c] = log[c]
  BY <1>1 DEF Logs
<1>3. Grows
  BY <1>1, <1>2 DEF Grows
<1> QED  BY <1>1, <1>3 DEF Logs

\* Something is appended to one of the logs.
LEMMA AppendLogs ==
  ASSUME CapturesInv, NEW d \in IC!Captures, NEW u \in Seq(IC!Kinds), UNCHANGED <<made, cut>>,
         log' = [log EXCEPT ![d] = @ \o u]
  PROVE  Logs' /\ Grows
<1>1. Logs /\ made \in Nat
  BY TypeIs, TypesAre DEF CapturesInv
<1>2. ASSUME NEW c \in IC!Captures
      PROVE  Len(log[c]) \in Nat /\ Len(log'[c]) \in Nat /\ Len(log[c]) <= Len(log'[c])
  <2>1. log[c] \in Seq(IC!Kinds) /\ Len(log[c]) \in Nat /\ Len(u) \in Nat
    BY <1>1 DEF Logs
  <2>2. log'[c] = log[c] \/ log'[c] = log[c] \o u
    BY <1>1 DEF Logs
  <2>3. Len(log[c] \o u) = Len(log[c]) + Len(u)
    BY <2>1
  <2> QED  BY <2>1, <2>2, <2>3
<1>3. log' \in [IC!Captures -> Seq(IC!Kinds)]
  <2>1. log[d] \o u \in Seq(IC!Kinds)
    BY <1>1 DEF Logs
  <2> QED  BY <1>1, <2>1 DEF Logs
<1>4. \A c \in IC!Captures : cut'[c] <= Len(log'[c])
  BY <1>1, <1>2 DEF Logs
<1> QED  BY <1>1, <1>2, <1>3, <1>4 DEF Logs, Grows

\* Rows up to where the logs now are may be deleted.
LEMMA PurgeLogs ==
  ASSUME CapturesInv, log' = log, made' = made, IC!Delete(IC!Everything)
  PROVE  Logs' /\ Grows
<1>1. Logs /\ Grows
  BY TypeIs, StillLogs DEF CapturesInv
<1>2. cut' = [c \in IC!Captures |-> IF Len(log[c]) > cut[c] THEN Len(log[c]) ELSE cut[c]]
  BY DEF IC!Delete, IC!Everything
<1>3. \A c \in IC!Captures : Len(log[c]) \in Nat /\ cut[c] \in Nat /\ cut[c] <= Len(log[c])
  BY <1>1 DEF Logs
<1>4. \A c \in IC!Captures : cut'[c] \in Nat /\ cut'[c] <= Len(log[c])
  BY <1>2, <1>3
<1> QED  BY <1>1, <1>2, <1>4 DEF Logs

\* What a stop appends to the log of the capture it has closed.
LEMMA MarkerIs ==
  ASSUME CapturesInv, NEW t \in IC!Tasks, IC!StopMarker(t), ~UNCHANGED log
  PROVE  /\ task[t].id \in IC!Captures /\ task[t].id \in 1 .. made
       /\ <<"stopped">> \in Seq(IC!Kinds)
         /\ log' = [log EXCEPT ![task[t].id] = @ \o <<"stopped">>]
         /\ IC!At(t, "marker") /\ task' = [task EXCEPT ![t] = IC!Idle] /\ UNCHANGED IC!counts
<1>1. /\ log' = [log EXCEPT ![task[t].id] = Append(@, "stopped")] /\ IC!At(t, "marker")
      /\ task' = [task EXCEPT ![t] = IC!Idle] /\ UNCHANGED IC!counts
  BY DEF IC!StopMarker, IC!Done
<1>2. task[t].id \in 1 .. made /\ made \in Nat /\ made <= MaxCaptures /\ MaxCaptures \in Nat
  BY <1>1, TypesAre DEF CapturesInv, TasksInv
<1>3. task[t].id \in IC!Captures
  BY <1>2 DEF IC!Captures
<1>4. Logs /\ "stopped" \in IC!Kinds
  BY TypeIs DEF CapturesInv, IC!Kinds
<1>5. log[task[t].id] \in Seq(IC!Kinds)
  BY <1>3, <1>4 DEF Logs
<1>6. Append(log[task[t].id], "stopped") = log[task[t].id] \o <<"stopped">>
  BY <1>4, <1>5, AppendIsConcat
<1>7. <<"stopped">> \in Seq(IC!Kinds)
  BY <1>4
<1>8. log' = [log EXCEPT ![task[t].id] = log[task[t].id] \o <<"stopped">>]
  BY <1>1, <1>6
<1> QED  BY <1>1, <1>2, <1>3, <1>7, <1>8

\* What a batch appends: the rows of the records that belong to the current row.
LEMMA WriteIs ==
  ASSUME CapturesInv, IC!Write, ~UNCHANGED log
  PROVE  /\ row.id \in IC!Captures /\ IC!Rows(row.id) \in Seq(IC!Kinds)
         /\ log' = [log EXCEPT ![row.id] = @ \o IC!Rows(row.id)]
         /\ writing' = FALSE /\ batch' = <<>> /\ UNCHANGED IC!counts
<1>1. /\ log' = [c \in IC!Captures |-> IF c = row.id THEN log[c] \o IC!Rows(c) ELSE log[c]]
      /\ writing' = FALSE /\ batch' = <<>> /\ UNCHANGED IC!counts
  BY DEF IC!Write
<1>2. Logs
  BY TypeIs DEF CapturesInv
<1>3. row.id \in IC!Captures
  BY <1>1, <1>2 DEF Logs
<1>4. IC!Rows(row.id) \in Seq(IC!Kinds)
  BY <1>3, RowsAre
<1>5. log' = [log EXCEPT ![row.id] = @ \o IC!Rows(row.id)]
  BY <1>1, <1>2, <1>3 DEF Logs
<1> QED  BY <1>1, <1>3, <1>4, <1>5

\* Every step keeps the types of the logs, which only grow.
LEMMA LogsStep == CapturesInv /\ [IC!Next]_(IC!vars) => Logs' /\ Grows
<1> SUFFICES ASSUME CapturesInv, [IC!Next]_(IC!vars) PROVE Logs' /\ Grows
  OBVIOUS
<1>1. CASE UNCHANGED IC!store
  BY <1>1, StillLogs DEF IC!store
<1>2. ASSUME NEW t \in IC!Tasks, IC!StartCommit(t) PROVE Logs' /\ Grows
  BY <1>1, <1>2, CommitLogs
<1>3. ASSUME NEW t \in IC!Tasks, IC!StopMarker(t) PROVE Logs' /\ Grows
  <2>1. made' = made /\ cut' = cut
    BY <1>3 DEF IC!StopMarker
  <2>2. CASE log' = log
    BY <2>1, <2>2, StillLogs
  <2>3. CASE log' # log
    <3>1. /\ task[t].id \in IC!Captures /\ <<"stopped">> \in Seq(IC!Kinds)
          /\ log' = [log EXCEPT ![task[t].id] = @ \o <<"stopped">>]
      BY <1>3, <2>3, MarkerIs
    <3> QED  BY <2>1, <3>1, AppendLogs
  <2> QED  BY <2>2, <2>3
<1>4. ASSUME IC!Write PROVE Logs' /\ Grows
  <2>1. made' = made /\ cut' = cut
    BY <1>4 DEF IC!Write
  <2>2. CASE log' = log
    BY <2>1, <2>2, StillLogs
  <2>3. CASE log' # log
    <3>1. /\ row.id \in IC!Captures /\ IC!Rows(row.id) \in Seq(IC!Kinds)
          /\ log' = [log EXCEPT ![row.id] = @ \o IC!Rows(row.id)]
      BY <1>4, <2>3, WriteIs
    <3> QED  BY <2>1, <3>1, AppendLogs
  <2> QED  BY <2>2, <2>3
<1>5. CASE IC!Purge
  BY <1>5, PurgeLogs DEF IC!Purge
<1>6. ASSUME NEW t \in IC!Tasks, IC!StartBegin(t) \/ IC!StopBegin(t) \/ IC!StartDelete(t)
        \/ IC!StartRegister(t)
                              \/ IC!StopUnregister(t) \/ IC!StopUpdate(t)
      PROVE  log' = log /\ made' = made /\ cut' = cut
  BY <1>6 DEF IC!StartBegin, IC!StopBegin, IC!StartDelete, IC!StartRegister, IC!StopUnregister,
     IC!StopUpdate, IC!store
<1>7. CASE IC!ExpiryScan \/ IC!Record \/ IC!Receive \/ IC!Flush \/ IC!Seed \/ IC!Lapse \/ IC!Age
        \/ IC!Restart
           \/ UNCHANGED IC!vars
  <2>1. log' = log /\ made' = made /\ cut' = cut
    BY <1>7 DEF IC!ExpiryScan, IC!Record, IC!Receive, IC!Flush, IC!Seed, IC!Lapse, IC!Age,
       IC!Restart, IC!vars, IC!store
  <2> QED  BY <2>1, StillLogs
<1> QED
  BY <1>2, <1>3, <1>4, <1>5, <1>6, <1>7, StillLogs DEF IC!Next, IC!TaskStep, IC!WriterNext

\* The starts under way are finitely many.
LEMMA StartingFinite ==
  ASSUME CapturesInv
  PROVE  IsFiniteSet(IC!Starting) /\ Cardinality(IC!Starting) \in Nat /\ IC!Load \in Nat
<1>1. IsFiniteSet(Requests) /\ IC!Starting \subseteq Requests
  BY SameFinite DEF CapturesInv, Assumed, IC!RequestsAssumption, IC!Starting
<1>2. IsFiniteSet(IC!Starting) /\ Cardinality(IC!Starting) \in Nat
  BY <1>1, FS_Subset, FS_CardinalityType
<1>3. made \in Nat /\ MaxLoad \in Nat /\ offered \in 0 .. MaxLoad
  BY TypeIs, TypesAre DEF CapturesInv, Counts
<1> QED  BY <1>2, <1>3, SameCount DEF IC!Load, IC!Begun

\* Every step keeps the types of the row, the numbers and the window.
LEMMA PlacesStep == CapturesInv /\ [IC!Next]_(IC!vars) => Places'
<1> SUFFICES ASSUME CapturesInv, [IC!Next]_(IC!vars) PROVE Places'
  OBVIOUS
<1>1. Places /\ task \in [IC!Tasks -> State]
  BY TypeIs DEF CapturesInv, TasksInv
<1>2. made \in Nat /\ MaxCaptures \in Nat /\ IC!NoWindow \in [id : 0 .. made, dropped : BOOLEAN]
  BY TypesAre DEF IC!NoWindow
<1>3. ASSUME NEW n \in 0 .. made, window' = [id |-> n, dropped |-> FALSE],
             UNCHANGED <<row, made, lapsed>>
      PROVE  Places'
  BY <1>1, <1>3 DEF Places, RowType
<1>4. ASSUME window' = window \/ window' = IC!NoWindow, UNCHANGED <<row, made, lapsed>>
        PROVE Places'
  BY <1>1, <1>2, <1>4 DEF Places, RowType
<1>5. ASSUME NEW t \in IC!Tasks,
             IC!StartBegin(t) \/ IC!StopBegin(t) \/ IC!StartDelete(t) \/ IC!StopUnregister(t)
                  \/ IC!StopMarker(t)
      PROVE  Places'
  <2>1. (window' = window \/ window' = IC!NoWindow) /\ UNCHANGED <<row, made, lapsed>>
    BY <1>5 DEF IC!StartBegin, IC!StopBegin, IC!StartDelete, IC!StopUnregister, IC!StopMarker,
       IC!store
  <2> QED  BY <1>4, <2>1
<1>6. CASE IC!ExpiryScan \/ IC!Receive \/ IC!Flush \/ IC!Seed \/ IC!Write \/ UNCHANGED IC!vars
  <2>1. window' = window /\ UNCHANGED <<row, made, lapsed>>
    BY <1>6 DEF IC!ExpiryScan, IC!Receive, IC!Flush, IC!Seed, IC!Write, IC!vars, IC!store
  <2> QED  BY <1>4, <2>1
<1>7. ASSUME NEW t \in IC!Tasks, IC!StartCommit(t) PROVE Places'
  <2>1. lapsed' = lapsed /\ window' = window
    BY <1>7 DEF IC!StartCommit
  <2>2. CASE UNCHANGED IC!store
    BY <1>4, <2>1, <2>2 DEF IC!store
  <2>3. CASE ~UNCHANGED IC!store
    <3>1. /\ made' = made + 1 /\ made + 1 \in IC!Captures
          /\ row' = [id |-> made + 1, stop |-> "open", dropped |-> FALSE, old |-> FALSE]
      BY <1>7, <2>3, CommitIs
    <3>2. made + 1 \in 1 .. MaxCaptures
      BY <3>1 DEF IC!Captures
    <3>3. lapsed \in 0 .. made /\ window \in [id : 0 .. made, dropped : BOOLEAN]
      BY <1>1 DEF Places
    <3>4. made' \in 0 .. MaxCaptures /\ 0 .. made \subseteq 0 .. made' /\ made' # 0
      BY <1>2, <3>1, <3>2
    <3>5. row' \in RowType' /\ row'.id # 0 /\ row'.stop = "open"
      BY <1>2, <3>1, <3>4 DEF RowType
    <3>6. window \in [id : 0 .. made', dropped : BOOLEAN] /\ lapsed \in 0 .. made'
      BY <3>3, <3>4
    <3> QED  BY <2>1, <3>4, <3>5, <3>6 DEF Places
  <2> QED  BY <2>2, <2>3
<1>8. ASSUME NEW t \in IC!Tasks, IC!StartRegister(t) PROVE Places'
  <2>1. task[t].id \in 1 .. made
    BY <1>8 DEF CapturesInv, TasksInv, IC!StartRegister
  <2>2. window' = [id |-> task[t].id, dropped |-> FALSE] /\ UNCHANGED <<row, made, lapsed>>
        /\ task[t].id \in 0 .. made
    BY <1>2, <1>8, <2>1 DEF IC!StartRegister, IC!store
  <2> QED  BY <1>3, <2>2
<1>9. ASSUME NEW t \in IC!Tasks, IC!StopUpdate(t) PROVE Places'
  <2>1. UNCHANGED <<made, lapsed, window>>
    BY <1>9 DEF IC!StopUpdate
  <2>2. CASE row' = row
    BY <1>4, <2>1, <2>2
  <2>3. CASE row' # row
    <3>1. row.stop = "open" /\ row' = [row EXCEPT !.stop = task[t].reason,
                                                  !.dropped = row.dropped \/ task[t].dropped]
      BY <1>9, <2>3 DEF IC!StopUpdate, IC!Stopped
    <3>2. task[t].reason \in {"user", "expired"} /\ task[t].dropped \in BOOLEAN
      <4>1. task[t] \in State /\ task[t].reason # "none"
        BY <1>1, <1>9 DEF CapturesInv, TasksInv, IC!StopUpdate
      <4> QED  BY <4>1 DEF State
    <3>3. row \in RowType /\ row.id # 0
      BY <1>1, <3>1 DEF Places
    <3>4. row' \in RowType /\ row'.id = row.id /\ row'.stop = task[t].reason
      BY <3>1, <3>2, <3>3 DEF RowType
    <3> QED  BY <1>1, <2>1, <3>2, <3>3, <3>4 DEF Places, RowType
  <2> QED  BY <2>2, <2>3
<1>10. ASSUME IC!Record PROVE Places'
  <2>1. window \in [id : 0 .. made, dropped : BOOLEAN]
    BY <1>1 DEF Places
  <2>2. window' = window \/ window' = [window EXCEPT !.dropped = TRUE]
    BY <1>10 DEF IC!Record
  <2>3. window' \in [id : 0 .. made, dropped : BOOLEAN]
    BY <2>1, <2>2
  <2> QED  BY <1>1, <1>10, <2>3 DEF Places, RowType, IC!Record, IC!store
<1>11. ASSUME IC!Lapse PROVE Places'
  <2>1. lapsed < made /\ lapsed' = lapsed + 1 /\ UNCHANGED <<row, made, window>>
    BY <1>11 DEF IC!Lapse, IC!store
  <2>2. lapsed' \in 0 .. made
    BY <1>1, <1>2, <2>1 DEF Places
  <2> QED  BY <1>1, <2>1, <2>2 DEF Places, RowType
<1>12. ASSUME IC!Age PROVE Places'
  <2>1. row' = [row EXCEPT !.old = TRUE] /\ lapsed' = made /\ UNCHANGED <<made, window>>
    BY <1>12 DEF IC!Age
  <2>2. row \in RowType
    BY <1>1 DEF Places
  <2>3. row' \in RowType /\ row'.id = row.id /\ row'.stop = row.stop
    BY <2>1, <2>2 DEF RowType
  <2>4. lapsed' \in 0 .. made
    BY <1>2, <2>1
  <2> QED  BY <1>1, <2>1, <2>3, <2>4 DEF Places, RowType
<1>13. ASSUME IC!Purge PROVE Places'
  <2>1. row' = IC!NoRow /\ UNCHANGED <<made, lapsed, window>>
    BY <1>13 DEF IC!Purge
  <2>2. IC!NoRow \in RowType /\ IC!NoRow.id = 0 /\ IC!NoRow.stop = "none"
    BY <1>2 DEF IC!NoRow, RowType
  <2> QED  BY <1>1, <2>1, <2>2 DEF Places, RowType
<1>14. ASSUME IC!Restart PROVE Places'
  <2>1. /\ row' = IC!Restarted /\ UNCHANGED <<made, lapsed>>
        /\ window' = IC!NoWindow \/ window' = [id |-> row.id, dropped |-> FALSE]
    BY <1>14 DEF IC!Restart
  <2>2. row \in RowType /\ row.id \in 0 .. made
    BY <1>1 DEF Places, RowType
  <2>3. IC!Restarted \in RowType /\ IC!Restarted.id = row.id
        /\ \/ IC!Restarted.stop = row.stop
           \/ row.stop = "open" /\ IC!Restarted.stop = "expired"
    BY <2>2 DEF IC!Restarted, RowType
  <2>4. window' \in [id : 0 .. made, dropped : BOOLEAN]
    <3>1. \A n \in 0 .. made :
            [id |-> n, dropped |-> FALSE] \in [id : 0 .. made, dropped : BOOLEAN]
      OBVIOUS
    <3>2. row.id \in 0 .. made
      BY <2>2
    <3> QED  BY <1>2, <2>1, <3>1, <3>2
  <2> QED  BY <1>1, <2>1, <2>3, <2>4 DEF Places, RowType
<1> QED
  BY <1>5, <1>6, <1>7, <1>8, <1>9, <1>10, <1>11, <1>12, <1>13, <1>14
     DEF IC!Next, IC!TaskStep, IC!WriterNext

\* A step leaves the queues and the ledger alone, or is one of the writer's, a record or a
\* restart.
LEMMA QueuesStill ==
  ASSUME [IC!Next]_(IC!vars)
  PROVE  UNCHANGED IC!writer \/ IC!Record \/ IC!Receive \/ IC!Flush \/ IC!Seed \/ IC!Write
       \/ IC!Restart
<1>1. ASSUME NEW t \in IC!Tasks, IC!StartBegin(t) \/ IC!StopBegin(t) \/ IC!TaskStep(t)
        PROVE UNCHANGED IC!writer
  BY <1>1 DEF IC!StartBegin, IC!StopBegin, IC!TaskStep, IC!StartDelete, IC!StartCommit,
     IC!StartRegister,
     IC!StopUnregister, IC!StopUpdate, IC!StopMarker
<1>2. ASSUME IC!ExpiryScan \/ IC!Lapse \/ IC!Age \/ IC!Purge PROVE UNCHANGED IC!writer
  BY <1>2 DEF IC!ExpiryScan, IC!Lapse, IC!Age, IC!Purge
<1> QED  BY <1>1, <1>2 DEF IC!Next, IC!WriterNext, IC!vars

\* Every step keeps the types of the queues and the ledger.
LEMMA QueuesStep == CapturesInv /\ [IC!Next]_(IC!vars) => Queues' /\ Known'
<1> SUFFICES ASSUME CapturesInv, [IC!Next]_(IC!vars) PROVE Queues' /\ Known'
  OBVIOUS
<1>1. Queues /\ Known /\ Places /\ Logs
  BY TypeIs DEF CapturesInv
<1>2. MaxCaptures \in Nat /\ ChannelCapacity \in Nat /\ BatchRows \in Nat /\ made \in Nat
      /\ made <= MaxCaptures /\ IC!Captures = 1 .. MaxCaptures
  BY TypesAre
<1>3. CASE UNCHANGED IC!writer
  BY <1>1, <1>3 DEF IC!writer, Queues, Known
<1>4. ASSUME IC!Record PROVE Queues' /\ Known'
  <2>1. window.id > lapsed /\ window.id \in 0 .. made /\ lapsed \in 0 .. made
    BY <1>1, <1>4 DEF IC!Record, Places
  <2>2. window.id \in IC!Captures
    BY <1>2, <2>1
  <2>3. chan \in Seq(IC!Captures) /\ Len(chan) \in Nat /\ Len(chan) <= ChannelCapacity
    BY <1>1 DEF Queues
  <2>4. chan' = chan \/ (Len(chan) < ChannelCapacity /\ chan' = Append(chan, window.id))
    BY <1>4 DEF IC!Record
  <2>5. chan' \in Seq(IC!Captures) /\ Len(chan') <= ChannelCapacity
    BY <1>2, <2>2, <2>3, <2>4
  <2> QED  BY <1>1, <1>4, <2>5 DEF Queues, Known, IC!Record
<1>5. ASSUME IC!Receive PROVE Queues' /\ Known'
  <2>1. chan \in Seq(IC!Captures) /\ chan # <<>> /\ batch \in Seq(IC!Captures)
        /\ Len(chan) <= ChannelCapacity /\ Len(batch) < BatchRows
        /\ batch' = Append(batch, Head(chan)) /\ chan' = Tail(chan)
    BY <1>1, <1>5 DEF Queues, IC!Receive
  <2>2. Head(chan) \in IC!Captures /\ Tail(chan) \in Seq(IC!Captures)
          /\ Len(Tail(chan)) = Len(chan) - 1
        /\ Len(chan) \in Nat /\ Len(batch) \in Nat
    BY <2>1
  <2>3. batch' \in Seq(IC!Captures) /\ Len(batch') = Len(batch) + 1
    BY <2>1, <2>2
  <2>4. Len(chan') <= ChannelCapacity /\ Len(batch') <= BatchRows
    BY <1>2, <2>1, <2>2, <2>3
  <2> QED  BY <1>1, <1>5, <2>1, <2>2, <2>3, <2>4 DEF Queues, Known, IC!Receive
<1>6. ASSUME IC!Flush PROVE Queues' /\ Known'
  BY <1>1, <1>6 DEF Queues, Known, IC!Flush
<1>7. ASSUME batch' = <<>> PROVE batch' \in Seq(IC!Captures) /\ Len(batch') <= BatchRows
  <2>1. <<>> \in Seq(IC!Captures) /\ Len(<<>>) = 0
    OBVIOUS
  <2> QED  BY <1>2, <1>7, <2>1
<1>8. ASSUME IC!Seed PROVE Queues' /\ Known'
  <2>1. chan' = chan /\ \/ batch' = batch /\ writing' = writing
                        \/ batch' = <<>> /\ writing' = FALSE
    BY <1>8 DEF IC!Seed, IC!WriteFails
  <2>2. Queues'
    BY <1>1, <1>7, <2>1 DEF Queues
  <2>3. CASE ledger' = ledger
    BY <1>1, <2>2, <2>3 DEF Known
  <2>4. ASSUME NEW c \in IC!Unseeded,
               ledger' = [ledger EXCEPT ![c] = [known |-> TRUE, count |-> IC!Kept(c),
                                                truncated |-> FALSE]]
        PROVE  Known'
    <3>1. c \in IC!Captures
      <4>1. batch \in Seq(IC!Captures)
        BY <1>1 DEF Queues
      <4>2. \A i \in DOMAIN batch : batch[i] \in IC!Captures
        BY <4>1
      <4> QED  BY <4>2 DEF IC!Unseeded
    <3>2. IC!Kept(c) \in Nat
      <4>1. log[c] \in Seq(IC!Kinds) /\ cut[c] \in Nat /\ cut[c] <= Len(log[c])
        BY <1>1, <3>1 DEF Logs
      <4>2. Len(log[c]) \in Nat
        BY <4>1
      <4> QED  BY <4>1, <4>2 DEF IC!Kept
    <3>3. [known |-> TRUE, count |-> IC!Kept(c), truncated |-> FALSE] \in Entries
      BY <3>2 DEF Entries
    <3> QED  BY <1>1, <2>4, <3>1, <3>3 DEF Known
  <2> QED  BY <1>8, <2>2, <2>3, <2>4 DEF IC!Seed
<1>9. ASSUME IC!Write PROVE Queues' /\ Known'
  <2>1. chan' = chan /\ batch' = <<>> /\ writing' = FALSE
    BY <1>9 DEF IC!Write, IC!WriteFails
  <2>2. Queues'
    BY <1>1, <1>7, <2>1 DEF Queues
  <2>3. ledger' = [c \in IC!Captures |->
                     [ledger[c] EXCEPT !.count = ledger[c].count + IC!Stores(c),
                                       !.truncated = ledger[c].truncated \/ IC!Truncates(c)]]
    BY <1>9 DEF IC!Write
  <2>4. ASSUME NEW c \in IC!Captures
        PROVE  [ledger[c] EXCEPT !.count = ledger[c].count + IC!Stores(c),
                                 !.truncated = ledger[c].truncated \/ IC!Truncates(c)] \in Entries
    <3>1. IC!Stores(c) \in Nat /\ IC!Truncates(c) \in BOOLEAN
      BY RowsAre
    <3>2. ledger[c] \in Entries
      BY <1>1 DEF Known
    <3>3. ledger[c].count + IC!Stores(c) \in Nat
      BY <3>1, <3>2 DEF Entries
    <3> QED  BY <3>1, <3>2, <3>3 DEF Entries
  <2> QED  BY <2>2, <2>3, <2>4 DEF Known
<1>10. ASSUME IC!Restart PROVE Queues' /\ Known'
  <2>1. chan' = <<>> /\ batch' = <<>> /\ writing' = FALSE
        /\ ledger' = [c \in IC!Captures |-> IC!Unknown]
    BY <1>10 DEF IC!Restart
  <2>2. chan' \in Seq(IC!Captures) /\ Len(chan') <= ChannelCapacity
    <3>1. <<>> \in Seq(IC!Captures) /\ Len(<<>>) = 0
      OBVIOUS
    <3> QED  BY <1>2, <2>1, <3>1
  <2>3. IC!Unknown \in Entries
    BY DEF IC!Unknown, Entries
  <2> QED  BY <1>7, <2>1, <2>2, <2>3 DEF Queues, Known
<1> QED  BY <1>3, <1>4, <1>5, <1>6, <1>8, <1>9, <1>10, QueuesStill

\* Every step keeps the types of the counters.
LEMMA CountsStep == CapturesInv /\ [IC!Next]_(IC!vars) => Counts'
<1> SUFFICES ASSUME CapturesInv, [IC!Next]_(IC!vars) PROVE Counts'
  OBVIOUS
<1>1. Counts /\ MaxLoad \in Nat /\ MaxFaults \in Nat /\ MaxCrashes \in Nat
  BY TypeIs, TypesAre DEF CapturesInv
<1>2. ASSUME DOMAIN task' = DOMAIN task, UNCHANGED IC!counts PROVE Counts'
  BY <1>1, <1>2 DEF Counts, IC!counts
<1>3. ASSUME NEW t \in IC!Tasks, IC!Abandon(t) PROVE Counts'
  BY <1>1, <1>3, AbandonIs DEF Counts
<1>4. ASSUME NEW t \in IC!Tasks, IC!StartBegin(t) \/ IC!StopBegin(t) \/ IC!TaskStep(t)
        PROVE Counts'
  <2>1. IC!Abandon(t) \/ (DOMAIN task' = DOMAIN task /\ UNCHANGED IC!counts)
    <3>1. CASE IC!StartBegin(t) \/ IC!StopBegin(t) \/ IC!StartRegister(t) \/ IC!StopUnregister(t)
      BY <3>1 DEF IC!StartBegin, IC!StopBegin, IC!StartRegister, IC!StopUnregister, IC!Goto,
         IC!Done
    <3>2. CASE IC!StartDelete(t)
      BY <3>2 DEF IC!StartDelete
    <3>3. CASE IC!StartCommit(t)
      BY <3>3 DEF IC!StartCommit
    <3>4. CASE IC!StopUpdate(t)
      BY <3>4 DEF IC!StopUpdate, IC!Done
    <3>5. CASE IC!StopMarker(t)
      BY <3>5 DEF IC!StopMarker, IC!Done
    <3> QED  BY <1>4, <3>1, <3>2, <3>3, <3>4, <3>5 DEF IC!TaskStep
  <2> QED  BY <1>2, <1>3, <2>1
<1>5. CASE IC!ExpiryScan \/ IC!Receive \/ IC!Flush \/ IC!Lapse \/ IC!Age \/ IC!Purge
        \/ UNCHANGED IC!vars
  <2>1. DOMAIN task' = DOMAIN task /\ UNCHANGED IC!counts
    BY <1>5 DEF IC!ExpiryScan, IC!Receive, IC!Flush, IC!Lapse, IC!Age, IC!Purge, IC!vars
  <2> QED  BY <1>2, <2>1
<1>6. CASE IC!Record
  <2>1. IC!Load < MaxLoad /\ offered' = offered + 1
          /\ UNCHANGED <<task, abandons, faults, restarts>>
    BY <1>6 DEF IC!Record
  <2>2. Cardinality(IC!Starting) \in Nat /\ made \in Nat /\ offered \in 0 .. MaxLoad
    BY <1>1, StartingFinite, TypesAre DEF Counts
  <2>3. offered + 2 * (made + Cardinality(IC!Starting)) < MaxLoad
    BY <2>1, SameCount DEF IC!Load, IC!Begun
  <2>4. offered' \in 0 .. MaxLoad
    BY <1>1, <2>1, <2>2, <2>3
  <2> QED  BY <1>1, <2>1, <2>4 DEF Counts
<1>7. CASE IC!Seed \/ IC!Write
  <2>1. task' = task /\ (IC!Fault \/ UNCHANGED IC!counts)
    BY <1>7 DEF IC!Seed, IC!Write, IC!WriteFails
  <2>2. ASSUME IC!Fault PROVE faults' \in 0 .. MaxFaults
          /\ UNCHANGED <<offered, abandons, restarts>>
    <3>1. faults + abandons < MaxFaults /\ faults' = faults + 1
          /\ UNCHANGED <<offered, abandons, restarts>>
      BY <2>2 DEF IC!Fault
    <3>2. faults \in 0 .. MaxFaults /\ abandons \in 0 .. MaxFaults
      BY <1>1 DEF Counts
    <3> QED  BY <1>1, <3>1, <3>2
  <2> QED  BY <1>1, <1>2, <2>1, <2>2 DEF Counts
<1>8. CASE IC!Restart
  <2>1. restarts < MaxCrashes /\ restarts' = restarts + 1
          /\ UNCHANGED <<offered, abandons, faults>>
        /\ DOMAIN task' = IC!Tasks
    BY <1>8 DEF IC!Restart
  <2>2. restarts' \in 0 .. MaxCrashes
    BY <1>1, <2>1 DEF Counts
  <2> QED  BY <1>1, <2>1, <2>2 DEF Counts
<1> QED  BY <1>4, <1>5, <1>6, <1>7, <1>8 DEF IC!Next, IC!WriterNext

\* Every step keeps the types.
LEMMA TypeStep == CapturesInv /\ [IC!Next]_(IC!vars) => IC!TypeOK'
  BY LogsStep, PlacesStep, QueuesStep, CountsStep, TypeIs

-----------------------------------------------------------------------------
(* The handlers and the expiry loop                                        *)

\* What a step of a handler or of the expiry loop makes of its own place; it leaves the
\* others'.
LEMMA TaskIs ==
  ASSUME CapturesInv, NEW t \in IC!Tasks,
         IC!StartBegin(t) \/ IC!StopBegin(t) \/ IC!TaskStep(t) \/ (t = Expirer /\ IC!ExpiryScan)
  PROVE  \E s \in State :
           /\ task' = [task EXCEPT ![t] = s]
           /\ s.at = "delete" => t \in Requests
           /\ s.at = "commit" => t \in Requests /\ \A c \in IC!Captures : s.seen[c] <= Len(log[c])
           /\ s.at = "register" => s.id \in 1 .. made'
           /\ s.at = "marker" => s.id = row.id /\ row.stop = "open" /\ row.id \in 1 .. made
                                 /\ row' = IC!Stopped(t) /\ UNCHANGED <<log, ledger, cut>>
           /\ s.at = "unregister" \/ s.at = "update" => s.reason # "none"
<1>1. task \in [IC!Tasks -> State] /\ task[t] \in State
  BY DEF CapturesInv, TasksInv
<1>2. /\ IC!At(t, "delete") \/ IC!At(t, "commit") => t \in Requests
      /\ IC!At(t, "unregister") \/ IC!At(t, "update") => task[t].reason # "none"
  BY DEF CapturesInv, TasksInv
<1>3. IC!Idle \in State /\ IC!Idle.at = "idle" /\ IC!Idle.reason = "none"
        /\ IC!Idle.seen = IC!Nothing
  BY DEF IC!Idle, State, Steps, IC!Nothing
<1>4. ASSUME task' = [task EXCEPT ![t] = IC!Idle]
      PROVE  \E s \in State : task' = [task EXCEPT ![t] = s] /\ s.at = "idle"
  BY <1>3, <1>4
<1>5. CASE IC!StartBegin(t)
  <2> DEFINE s == [task[t] EXCEPT !.at = "delete"]
  <2>1. s \in State /\ s.at = "delete"
    BY <1>1 DEF State, Steps
  <2>2. task' = [task EXCEPT ![t] = s] /\ t \in Requests
    BY <1>1, <1>5 DEF IC!StartBegin, IC!Goto
  <2> HIDE DEF s
  <2> QED  BY <2>1, <2>2
<1>6. CASE IC!StopBegin(t) \/ (t = Expirer /\ IC!ExpiryScan)
  <2>1. PICK r \in {"user", "expired"} :
          task' = [task EXCEPT ![t] = [IC!Idle EXCEPT !.at = "unregister", !.reason = r]]
    BY <1>6 DEF IC!StopBegin, IC!ExpiryScan
  <2> DEFINE s == [IC!Idle EXCEPT !.at = "unregister", !.reason = r]
  <2>2. s \in State /\ s.at = "unregister" /\ s.reason # "none"
    BY <1>3 DEF State, Steps
  <2>3. task' = [task EXCEPT ![t] = s]
    BY <2>1
  <2> HIDE DEF s
  <2> QED  BY <2>2, <2>3
<1>7. CASE IC!StartDelete(t)
  <2>1. CASE IC!Abandon(t)
    BY <1>4, <2>1 DEF IC!Abandon, IC!Done
  <2>2. CASE ~IC!Abandon(t)
    <3> DEFINE s == [task[t] EXCEPT !.at = "commit", !.seen = IC!Everything]
    <3>1. IC!Everything \in [IC!Captures -> Nat]
            /\ \A c \in IC!Captures : IC!Everything[c] <= Len(log[c])
      BY TypesAre DEF IC!Everything
    <3>2. s \in State /\ s.at = "commit" /\ s.seen = IC!Everything
      BY <1>1, <3>1 DEF State, Steps
    <3>3. task' = [task EXCEPT ![t] = s] /\ t \in Requests
      BY <1>1, <1>2, <1>7, <2>2 DEF IC!StartDelete
    <3> HIDE DEF s
    <3> QED  BY <3>1, <3>2, <3>3
  <2> QED  BY <2>1, <2>2
<1>8. CASE IC!StartCommit(t)
  <2>1. CASE IC!Abandon(t)
    BY <1>4, <2>1 DEF IC!Abandon, IC!Done
  <2>2. CASE ~IC!Abandon(t)
    <3> DEFINE s == [IC!Idle EXCEPT !.at = "register", !.id = made + 1]
    <3>1. /\ made' = made + 1 /\ IC!At(t, "commit")
          /\ task' = [task EXCEPT ![t] = [IC!Idle EXCEPT !.at = "register", !.id = made']]
      BY <1>8, <2>2 DEF IC!StartCommit
    <3>2. made \in Nat /\ made + 1 \in IC!Captures
      BY <3>1, NextCapture, TypesAre
    <3>3. s \in State /\ s.at = "register" /\ s.id = made + 1
      BY <1>3, <3>2 DEF State, Steps
    <3>4. task' = [task EXCEPT ![t] = s] /\ made + 1 \in 1 .. made'
      BY <3>1, <3>2
    <3> HIDE DEF s
    <3> QED  BY <3>3, <3>4
  <2> QED  BY <2>1, <2>2
<1>9. CASE IC!StartRegister(t)
  BY <1>4, <1>9 DEF IC!StartRegister, IC!Done
<1>10. CASE IC!StopUnregister(t)
  <2> DEFINE s == [task[t] EXCEPT !.at = "update", !.dropped = window.dropped]
  <2>1. window.dropped \in BOOLEAN
    BY TypeIs DEF CapturesInv, Places
  <2>2. s \in State /\ s.at = "update" /\ s.reason = task[t].reason
    BY <1>1, <2>1 DEF State, Steps
  <2>3. task' = [task EXCEPT ![t] = s] /\ task[t].reason # "none"
    BY <1>1, <1>2, <1>10 DEF IC!StopUnregister
  <2> HIDE DEF s
  <2> QED  BY <2>2, <2>3
<1>11. CASE IC!StopUpdate(t)
  <2>1. CASE IC!Abandon(t) \/ IC!Done(t)
    BY <1>4, <2>1 DEF IC!Abandon, IC!Done
  <2>2. CASE ~IC!Abandon(t) /\ ~IC!Done(t)
    <3> DEFINE s == [task[t] EXCEPT !.at = "marker", !.id = row.id]
    <3>1. /\ row.stop = "open" /\ row' = IC!Stopped(t) /\ UNCHANGED <<log, cut, ledger>>
          /\ task' = [task EXCEPT ![t].at = "marker", ![t].id = row.id]
      BY <1>11, <2>2 DEF IC!StopUpdate, IC!writer
    <3>2. row.id \in Nat /\ row.id <= made /\ made \in Nat /\ row.id # 0 /\ row.id \in IC!Captures
      BY <3>1, TypeIs, TypesAre DEF CapturesInv, Places
    <3>3. s \in State /\ s.at = "marker" /\ s.id = row.id
      BY <1>1, <3>2 DEF State, Steps
    <3>4. task' = [task EXCEPT ![t] = s]
      BY <1>1, <3>1
    <3>5. row.id \in 1 .. made
      BY <3>2
    <3> HIDE DEF s
    <3> QED  BY <3>1, <3>3, <3>4, <3>5
  <2> QED  BY <2>1, <2>2
<1>12. CASE IC!StopMarker(t)
  BY <1>4, <1>12 DEF IC!StopMarker, IC!Abandon, IC!Done
<1> QED  BY <1>5, <1>6, <1>7, <1>8, <1>9, <1>10, <1>11, <1>12 DEF IC!TaskStep

\* A step that is none of the handlers' and the expiry loop's leaves them or starts them anew.
LEMMA TaskStill ==
  ASSUME [IC!Next]_(IC!vars)
  PROVE  \/ UNCHANGED task \/ task' = [t \in IC!Tasks |-> IC!Idle]
         \/ \E t \in IC!Tasks :
              IC!StartBegin(t) \/ IC!StopBegin(t) \/ IC!TaskStep(t)
                   \/ (t = Expirer /\ IC!ExpiryScan)
<1>1. ASSUME IC!Record \/ IC!Receive \/ IC!Flush \/ IC!Seed \/ IC!Write \/ IC!Lapse \/ IC!Age
        \/ IC!Purge \/ UNCHANGED IC!vars
      PROVE  UNCHANGED task
  BY <1>1 DEF IC!Record, IC!Receive, IC!Flush, IC!Seed, IC!Write, IC!Lapse, IC!Age, IC!Purge,
     IC!vars
<1>2. IC!Restart => task' = [t \in IC!Tasks |-> IC!Idle]
  BY DEF IC!Restart
<1>3. Expirer \in IC!Tasks
  BY DEF IC!Tasks
<1> QED  BY <1>1, <1>2, <1>3 DEF IC!Next, IC!WriterNext

\* Every step keeps what a handler and the expiry loop rely on.
LEMMA TasksStep == CapturesInv /\ [IC!Next]_(IC!vars) => TasksInv'
<1> SUFFICES ASSUME CapturesInv, [IC!Next]_(IC!vars) PROVE TasksInv'
  OBVIOUS
<1>1. /\ task \in [IC!Tasks -> State]
      /\ \A u \in IC!Tasks :
           /\ task[u].at = "delete" \/ task[u].at = "commit" => u \in Requests
           /\ task[u].at = "register" \/ task[u].at = "marker" => task[u].id \in 1 .. made
           /\ task[u].at = "unregister" \/ task[u].at = "update" => task[u].reason # "none"
           /\ task[u].at = "commit" => \A c \in IC!Captures : task[u].seen[c] <= Len(log[c])
  BY DEF CapturesInv, TasksInv, IC!At
<1>2. Grows
  BY LogsStep
<1>3. \A n : n \in 1 .. made => n \in 1 .. made'
  BY <1>2 DEF Grows
<1>4. \A u \in IC!Tasks, c \in IC!Captures : task[u].seen[c] \in Nat
  BY <1>1 DEF State
<1>5. \A u \in IC!Tasks : task[u].at = "commit"
        => \A c \in IC!Captures : task[u].seen[c] <= Len(log'[c])
  BY <1>1, <1>2, <1>4 DEF Grows
<1>6. CASE UNCHANGED task
  BY <1>1, <1>3, <1>5, <1>6 DEF TasksInv, IC!At
<1>7. CASE task' = [t \in IC!Tasks |-> IC!Idle]
  <2>1. IC!Idle \in State /\ IC!Idle.at = "idle"
    BY DEF IC!Idle, State, Steps, IC!Nothing
  <2> QED  BY <1>7, <2>1 DEF TasksInv, IC!At
<1>8. ASSUME NEW t \in IC!Tasks,
             IC!StartBegin(t) \/ IC!StopBegin(t) \/ IC!TaskStep(t)
                  \/ (t = Expirer /\ IC!ExpiryScan)
      PROVE  TasksInv'
  <2>1. PICK s \in State :
          /\ task' = [task EXCEPT ![t] = s]
          /\ s.at = "delete" => t \in Requests
          /\ s.at = "commit" => t \in Requests /\ \A c \in IC!Captures : s.seen[c] <= Len(log[c])
          /\ s.at = "register" => s.id \in 1 .. made'
          /\ s.at = "marker" => s.id = row.id /\ row.stop = "open" /\ row.id \in 1 .. made
                                /\ row' = IC!Stopped(t) /\ UNCHANGED <<log, ledger, cut>>
          /\ s.at = "unregister" \/ s.at = "update" => s.reason # "none"
    BY <1>8, TaskIs
  <2>2. s.at = "commit" => \A c \in IC!Captures : s.seen[c] <= Len(log'[c])
    <3>1. \A c \in IC!Captures : s.seen[c] \in Nat
      BY DEF State
    <3> QED  BY <1>2, <2>1, <3>1 DEF Grows
  <2>3. s.at = "register" \/ s.at = "marker" => s.id \in 1 .. made'
    BY <1>3, <2>1
  <2>4. task' \in [IC!Tasks -> State]
    BY <1>1, <2>1
  <2>5. \A u \in IC!Tasks : task'[u] = IF u = t THEN s ELSE task[u]
    BY <1>1, <2>1
  <2>6. ASSUME NEW u \in IC!Tasks
        PROVE  /\ task'[u].at = "delete" \/ task'[u].at = "commit" => u \in Requests
               /\ task'[u].at = "register" \/ task'[u].at = "marker" => task'[u].id \in 1 .. made'
               /\ task'[u].at = "unregister" \/ task'[u].at = "update" => task'[u].reason # "none"
               /\ task'[u].at = "commit"
                       => \A c \in IC!Captures : task'[u].seen[c] <= Len(log'[c])
    <3>1. CASE u = t
      BY <2>1, <2>2, <2>3, <2>5, <3>1
    <3>2. CASE u # t
      BY <1>1, <1>3, <1>5, <2>5, <3>2
    <3> QED  BY <3>1, <3>2
  <2> QED  BY <2>4, <2>6 DEF TasksInv, IC!At
<1> QED  BY <1>6, <1>7, <1>8, TaskStill

\* Every step keeps a number for each start under way.
LEMMA StartsStep == CapturesInv /\ [IC!Next]_(IC!vars) => StartsInv'
<1> SUFFICES ASSUME CapturesInv, [IC!Next]_(IC!vars) PROVE StartsInv'
  OBVIOUS
<1>1. /\ made + Cardinality(IC!Starting) <= MaxCaptures /\ made \in Nat /\ MaxCaptures \in Nat
      /\ IsFiniteSet(IC!Starting) /\ Cardinality(IC!Starting) \in Nat
              /\ task \in [IC!Tasks -> State]
  BY StartingFinite, TypesAre DEF CapturesInv, StartsInv, TasksInv
<1>2. IC!Starting = {t \in Requests : task[t].at \in {"delete", "commit"}}
  BY DEF IC!Starting, IC!At
<1>3. IC!Starting' = {t \in Requests : task'[t].at \in {"delete", "commit"}}
  BY DEF IC!Starting, IC!At
<1>4. Requests \subseteq IC!Tasks
  BY DEF IC!Tasks
<1>5. ASSUME NEW t \in Requests, NEW s, task' = [task EXCEPT ![t] = s],
             s.at \notin {"delete", "commit"}
      PROVE  IC!Starting' = IC!Starting \ {t}
  BY <1>1, <1>2, <1>3, <1>4, <1>5
<1>6. ASSUME IC!Starting' \subseteq IC!Starting, made' = made PROVE StartsInv'
  <2>1. Cardinality(IC!Starting') \in Nat /\ Cardinality(IC!Starting') <= Cardinality(IC!Starting)
    <3>1. IsFiniteSet(IC!Starting')
      BY <1>1, <1>6, FS_Subset
    <3> QED  BY <1>1, <1>6, <3>1, FS_Subset, FS_CardinalityType
  <2>2. made' + Cardinality(IC!Starting') <= MaxCaptures
    BY <1>1, <1>6, <2>1
  <2> QED  BY <2>2 DEF StartsInv
<1>7. CASE IC!ExpiryScan \/ IC!Record \/ IC!Receive \/ IC!Flush \/ IC!Seed \/ IC!Write
        \/ IC!Lapse \/ IC!Age \/ IC!Purge
           \/ IC!Restart \/ UNCHANGED IC!vars
  <2>1. made' = made
    BY <1>7 DEF IC!Restart, IC!Record, IC!Receive, IC!Flush, IC!Seed, IC!Write, IC!Lapse,
       IC!Age, IC!Purge, IC!ExpiryScan,
                IC!vars, IC!store
  <2>2. \A u \in IC!Tasks : task'[u].at \in {"delete", "commit"} => task'[u] = task[u]
    <3>1. CASE IC!Restart
      BY <3>1 DEF IC!Restart, IC!Idle
    <3>2. CASE IC!ExpiryScan
      BY <1>1, <3>2 DEF IC!ExpiryScan, IC!Idle
    <3>3. CASE IC!Record \/ IC!Receive \/ IC!Flush \/ IC!Seed \/ IC!Write \/ IC!Lapse \/ IC!Age
            \/ IC!Purge
               \/ UNCHANGED IC!vars
      BY <3>3 DEF IC!Record, IC!Receive, IC!Flush, IC!Seed, IC!Write, IC!Lapse, IC!Age,
         IC!Purge, IC!vars
    <3> QED  BY <1>7, <3>1, <3>2, <3>3
  <2>3. IC!Starting' \subseteq IC!Starting
    BY <1>2, <1>3, <1>4, <2>2
  <2> QED  BY <1>6, <2>1, <2>3
<1>8. ASSUME NEW t \in IC!Tasks, IC!StartBegin(t) PROVE StartsInv'
  <2>1. made' = made /\ t \in Requests /\ made + Cardinality(IC!Starting) < MaxCaptures
    BY <1>8, SameCount DEF IC!StartBegin, IC!Begun, IC!store
  <2>2. IC!Starting' \subseteq IC!Starting \cup {t}
    BY <1>1, <1>2, <1>3, <1>4, <1>8 DEF IC!StartBegin, IC!Goto
  <2>3. IsFiniteSet(IC!Starting \cup {t})
          /\ Cardinality(IC!Starting \cup {t}) <= Cardinality(IC!Starting) + 1
        /\ Cardinality(IC!Starting \cup {t}) \in Nat
    <3>1. /\ IsFiniteSet(IC!Starting \cup {t})
          /\ Cardinality(IC!Starting \cup {t})
               = IF t \in IC!Starting THEN Cardinality(IC!Starting)
                    ELSE Cardinality(IC!Starting) + 1
      BY <1>1, FS_AddElement
    <3> QED  BY <1>1, <3>1
  <2>4. IsFiniteSet(IC!Starting') /\ Cardinality(IC!Starting')
          <= Cardinality(IC!Starting \cup {t})
    BY <2>2, <2>3, FS_Subset
  <2>5. Cardinality(IC!Starting') \in Nat
    BY <2>4, FS_CardinalityType
  <2>6. made' + Cardinality(IC!Starting') <= MaxCaptures
    BY <1>1, <2>1, <2>3, <2>4, <2>5
  <2> QED  BY <2>6 DEF StartsInv
<1>9. ASSUME NEW t \in IC!Tasks, IC!StopBegin(t) \/ IC!StartDelete(t) \/ IC!StartRegister(t)
                              \/ IC!StopUnregister(t) \/ IC!StopUpdate(t) \/ IC!StopMarker(t)
      PROVE  StartsInv'
  <2>1. made' = made
    BY <1>9 DEF IC!StopBegin, IC!StartDelete, IC!StartRegister, IC!StopUnregister,
       IC!StopUpdate, IC!StopMarker,
                IC!store
  <2>2. \A u \in IC!Tasks : task'[u].at \in {"delete", "commit"}
          => task[u].at \in {"delete", "commit"}
    <3>1. CASE IC!StartDelete(t)
      <4>1. task[t].at = "delete" /\ \A u \in IC!Tasks \ {t} : task'[u] = task[u]
        BY <1>1, <3>1 DEF IC!StartDelete, IC!Abandon, IC!Done, IC!At
      <4> QED  BY <4>1
    <3>2. CASE IC!StopBegin(t)
      BY <1>1, <3>2 DEF IC!StopBegin, IC!Idle
    <3>3. CASE IC!StartRegister(t)
      BY <1>1, <3>3 DEF IC!StartRegister, IC!Done, IC!Idle
    <3>4. CASE IC!StopUnregister(t)
      BY <1>1, <3>4 DEF IC!StopUnregister
    <3>5. CASE IC!StopUpdate(t)
      <4>1. \/ task' = [task EXCEPT ![t] = IC!Idle]
            \/ task' = [task EXCEPT ![t].at = "marker", ![t].id = row.id]
        BY <3>5 DEF IC!StopUpdate, IC!Abandon, IC!Done
      <4>2. IC!Idle.at = "idle"
        BY DEF IC!Idle
      <4>3. CASE task' = [task EXCEPT ![t] = IC!Idle]
        BY <1>1, <4>2, <4>3
      <4>4. CASE task' = [task EXCEPT ![t].at = "marker", ![t].id = row.id]
        <5>1. task' = [task EXCEPT ![t] = [task[t] EXCEPT !.at = "marker", !.id = row.id]]
          BY <1>1, <4>4
        <5>2. task[t] \in State
          BY <1>1
        <5>3. [task[t] EXCEPT !.at = "marker", !.id = row.id].at = "marker"
          BY <5>2 DEF State
        <5> QED  BY <1>1, <5>1, <5>3
      <4> QED  BY <4>1, <4>3, <4>4
    <3>6. CASE IC!StopMarker(t)
      BY <1>1, <3>6 DEF IC!StopMarker, IC!Abandon, IC!Done, IC!Idle
    <3> QED  BY <1>9, <3>1, <3>2, <3>3, <3>4, <3>5, <3>6
  <2>3. IC!Starting' \subseteq IC!Starting
    BY <1>2, <1>3, <1>4, <2>2
  <2> QED  BY <1>6, <2>1, <2>3
<1>10. ASSUME NEW t \in IC!Tasks, IC!StartCommit(t) PROVE StartsInv'
  <2>1. IC!At(t, "commit")
    BY <1>10 DEF IC!StartCommit
  <2>2. t \in IC!Starting
    BY <2>1, NextCapture
  <2>3. PICK s : task' = [task EXCEPT ![t] = s] /\ s.at \notin {"delete", "commit"}
    <3>1. /\ IC!Idle.at = "idle"
          /\ \A n : [IC!Idle EXCEPT !.at = "register", !.id = n].at = "register"
      BY DEF IC!Idle
    <3>2. \/ task' = [task EXCEPT ![t] = IC!Idle]
          \/ task' = [task EXCEPT ![t] = [IC!Idle EXCEPT !.at = "register", !.id = made']]
      BY <1>10 DEF IC!StartCommit, IC!Abandon, IC!Done
    <3> QED  BY <3>1, <3>2
  <2>4. IC!Starting' = IC!Starting \ {t}
    BY <1>2, <1>5, <2>2, <2>3
  <2>5. IsFiniteSet(IC!Starting') /\ Cardinality(IC!Starting') = Cardinality(IC!Starting) - 1
    BY <1>1, <2>2, <2>4, FS_RemoveElement
  <2>6. made' = made \/ made' = made + 1
    BY <1>10 DEF IC!StartCommit, IC!store
  <2>7. made' + Cardinality(IC!Starting') <= MaxCaptures
    BY <1>1, <2>5, <2>6
  <2> QED  BY <2>7 DEF StartsInv
<1> QED  BY <1>7, <1>8, <1>9, <1>10 DEF IC!Next, IC!TaskStep, IC!WriterNext

-----------------------------------------------------------------------------
(* The logs, the ledger and the row                                        *)

\* The steps that write to a log.
LEMMA LogWriters ==
  ASSUME [IC!Next]_(IC!vars)
  PROVE  \/ log' = log /\ made' = made
         \/ \E t \in IC!Tasks : IC!StartCommit(t) /\ ~UNCHANGED IC!store
         \/ \E t \in IC!Tasks : IC!StopMarker(t) /\ ~UNCHANGED log
         \/ IC!Write /\ ~UNCHANGED log
<1>1. ASSUME NEW t \in IC!Tasks, IC!StartBegin(t) \/ IC!StopBegin(t) \/ IC!StartDelete(t)
        \/ IC!StartRegister(t)
                              \/ IC!StopUnregister(t) \/ IC!StopUpdate(t)
      PROVE  log' = log /\ made' = made
  BY <1>1 DEF IC!StartBegin, IC!StopBegin, IC!StartDelete, IC!StartRegister, IC!StopUnregister,
     IC!StopUpdate, IC!store
<1>2. ASSUME IC!ExpiryScan \/ IC!Record \/ IC!Receive \/ IC!Flush \/ IC!Seed \/ IC!Lapse
        \/ IC!Age \/ IC!Purge \/ IC!Restart
             \/ UNCHANGED IC!vars
      PROVE  log' = log /\ made' = made
  BY <1>2 DEF IC!ExpiryScan, IC!Record, IC!Receive, IC!Flush, IC!Seed, IC!Lapse, IC!Age,
     IC!Purge, IC!Restart, IC!vars, IC!store
<1>3. ASSUME NEW t \in IC!Tasks, IC!StopMarker(t) PROVE made' = made
  BY <1>3 DEF IC!StopMarker
<1>4. IC!Write => made' = made
  BY DEF IC!Write
<1>5. UNCHANGED IC!store => log' = log /\ made' = made
  BY DEF IC!store
<1> QED  BY <1>1, <1>2, <1>3, <1>4, <1>5 DEF IC!Next, IC!TaskStep, IC!WriterNext

\* The steps that change the row and what is deleted.
LEMMA RowWriters ==
  ASSUME [IC!Next]_(IC!vars)
  PROVE  \/ row' = row /\ cut' = cut
         \/ \E t \in IC!Tasks : IC!StartCommit(t) /\ ~UNCHANGED IC!store
         \/ \E t \in IC!Tasks : IC!StopUpdate(t) /\ ~UNCHANGED row
         \/ IC!Age \/ IC!Purge \/ IC!Restart
<1>1. ASSUME NEW t \in IC!Tasks, IC!StartBegin(t) \/ IC!StopBegin(t) \/ IC!StartDelete(t)
        \/ IC!StartRegister(t)
                              \/ IC!StopUnregister(t) \/ IC!StopMarker(t)
      PROVE  row' = row /\ cut' = cut
  BY <1>1 DEF IC!StartBegin, IC!StopBegin, IC!StartDelete, IC!StartRegister, IC!StopUnregister,
     IC!StopMarker, IC!store
<1>2. ASSUME IC!ExpiryScan \/ IC!Record \/ IC!Receive \/ IC!Flush \/ IC!Seed \/ IC!Write
        \/ IC!Lapse \/ UNCHANGED IC!vars
      PROVE  row' = row /\ cut' = cut
  BY <1>2 DEF IC!ExpiryScan, IC!Record, IC!Receive, IC!Flush, IC!Seed, IC!Write, IC!Lapse,
     IC!vars, IC!store
<1>3. ASSUME NEW t \in IC!Tasks, IC!StopUpdate(t) PROVE cut' = cut
  BY <1>3 DEF IC!StopUpdate
<1>4. UNCHANGED IC!store => row' = row /\ cut' = cut
  BY DEF IC!store
<1> QED  BY <1>1, <1>2, <1>3, <1>4 DEF IC!Next, IC!TaskStep, IC!WriterNext

\* How the row changes: it is replaced by that of a new capture, deleted, or stopped, the row
\* keeping its number; nothing opens it again.
LEMMA RowIs ==
  ASSUME CapturesInv, [IC!Next]_(IC!vars)
  PROVE  \/ \E t \in IC!Tasks : IC!StartCommit(t) /\ ~UNCHANGED IC!store
         \/ row'.id = 0
         \/ row'.id = row.id /\ cut' = cut /\ (row'.stop = "open" => row.stop = "open")
<1>1. row \in RowType
  BY TypeIs DEF CapturesInv, Places
<1>2. CASE row' = row /\ cut' = cut
  BY <1>2
<1>3. ASSUME NEW t \in IC!Tasks, IC!StopUpdate(t), ~UNCHANGED row
      PROVE  row'.id = row.id /\ cut' = cut /\ (row'.stop = "open" => row.stop = "open")
  <2>1. row' = IC!Stopped(t) /\ row.stop = "open" /\ cut' = cut
    BY <1>3 DEF IC!StopUpdate
  <2> QED  BY <1>1, <2>1 DEF IC!Stopped, RowType
<1>4. ASSUME IC!Age PROVE row'.id = row.id /\ cut' = cut /\ row'.stop = row.stop
  BY <1>1, <1>4 DEF IC!Age, RowType
<1>5. IC!Purge => row'.id = 0
  BY DEF IC!Purge, IC!NoRow
<1>6. ASSUME IC!Restart
      PROVE  row'.id = row.id /\ cut' = cut /\ (row'.stop = "open" => row.stop = "open")
  BY <1>1, <1>6 DEF IC!Restart, IC!Restarted, RowType
<1> QED  BY <1>2, <1>3, <1>4, <1>5, <1>6, RowWriters

\* The steps that change the ledger.
LEMMA LedgerWriters == [IC!Next]_(IC!vars) => ledger' = ledger \/ IC!Seed \/ IC!Write
     \/ IC!Restart
<1>1. UNCHANGED IC!writer => ledger' = ledger
  BY DEF IC!writer
<1>2. IC!Record \/ IC!Receive \/ IC!Flush => ledger' = ledger
  BY DEF IC!Record, IC!Receive, IC!Flush
<1> QED  BY <1>1, <1>2, QueuesStill

\* What a step does to the log of a capture.
LEMMA LogIs ==
  ASSUME CapturesInv, [IC!Next]_(IC!vars), NEW c \in IC!Captures
  PROVE  \/ log'[c] = log[c]
         \/ /\ c = made + 1 /\ made' = made + 1 /\ log'[c] = <<"started">> /\ log[c] = <<>>
            /\ row'.id = c /\ row'.stop = "open" /\ cut'[c] = 0
            /\ \E t \in IC!Tasks : IC!StartCommit(t)
         \/ /\ log'[c] = log[c] \o <<"stopped">> /\ c \in 1 .. made /\ row' = row
            /\ \E t \in IC!Tasks : /\ IC!At(t, "marker") /\ task[t].id = c
                                /\ IC!StopMarker(t) /\ task' = [task EXCEPT ![t] = IC!Idle]
         \/ IC!Write /\ c = row.id /\ log'[c] = log[c] \o IC!Rows(c) /\ row' = row
<1>1. Logs
  BY TypeIs DEF CapturesInv
<1>2. CASE log' = log
  BY <1>2
<1>3. ASSUME NEW t \in IC!Tasks, IC!StartCommit(t), ~UNCHANGED IC!store
      PROVE  \/ log'[c] = log[c]
             \/ /\ c = made + 1 /\ made' = made + 1 /\ log'[c] = <<"started">> /\ log[c] = <<>>
                /\ row'.id = c /\ row'.stop = "open" /\ cut'[c] = 0
  BY <1>3, CommitIs, CommitLogs
<1>4. ASSUME NEW t \in IC!Tasks, IC!StopMarker(t), ~UNCHANGED log
      PROVE  \/ log'[c] = log[c]
             \/ /\ log'[c] = log[c] \o <<"stopped">> /\ c \in 1 .. made /\ row' = row
                /\ IC!At(t, "marker") /\ task[t].id = c /\ IC!StopMarker(t)
                /\ task' = [task EXCEPT ![t] = IC!Idle]
  <2>1. /\ task[t].id \in IC!Captures /\ task[t].id \in 1 .. made
        /\ log' = [log EXCEPT ![task[t].id] = @ \o <<"stopped">>]
        /\ IC!At(t, "marker") /\ task' = [task EXCEPT ![t] = IC!Idle]
    BY <1>4, MarkerIs
  <2>2. row' = row
    BY <1>4 DEF IC!StopMarker
  <2> QED  BY <1>1, <1>4, <2>1, <2>2 DEF Logs
<1>5. ASSUME IC!Write, ~UNCHANGED log
      PROVE  log'[c] = log[c] \/ (c = row.id /\ log'[c] = log[c] \o IC!Rows(c) /\ row' = row)
  <2>1. log' = [log EXCEPT ![row.id] = @ \o IC!Rows(row.id)]
    BY <1>5, WriteIs
  <2>2. row' = row
    BY <1>5 DEF IC!Write
  <2> QED  BY <1>1, <2>1, <2>2 DEF Logs
<1> QED  BY <1>2, <1>3, <1>4, <1>5, LogWriters

\* Every step leaves the captures to come empty.
LEMMA FutureStep == CapturesInv /\ [IC!Next]_(IC!vars) => FutureInv'
<1> SUFFICES ASSUME CapturesInv, [IC!Next]_(IC!vars) PROVE FutureInv'
  OBVIOUS
<1>1. /\ \A c \in IC!Captures : c > made => log[c] = <<>> /\ ~ledger[c].known
      /\ \A i \in DOMAIN chan : chan[i] <= made
      /\ \A i \in DOMAIN batch : batch[i] <= made
  BY DEF CapturesInv, FutureInv
<1>2. made \in Nat /\ made' \in Nat /\ made <= made' /\ IC!Captures = 1 .. MaxCaptures
      /\ MaxCaptures \in Nat /\ row.id \in Nat /\ row.id <= made
  BY LogsStep, TypesAre DEF Grows
<1>3. chan \in Seq(IC!Captures) /\ batch \in Seq(IC!Captures) /\ Known
  BY TypeIs DEF CapturesInv, Queues
<1>4. ASSUME NEW c \in IC!Captures, c > made' PROVE log'[c] = <<>>
  <2>1. c \in Nat /\ c > made /\ c # row.id /\ ~(c \in 1 .. made)
    BY <1>2, <1>4
  <2>2. log'[c] = log[c] \/ (c = made + 1 /\ made' = made + 1)
    BY <2>1, LogIs
  <2> QED  BY <1>1, <1>2, <1>4, <2>1, <2>2
<1>5. \A i \in DOMAIN chan : chan[i] \in Nat
  BY <1>2, <1>3
<1>6. \A i \in DOMAIN batch : batch[i] \in Nat /\ batch[i] \in IC!Captures
  BY <1>2, <1>3
<1>7. ASSUME NEW c \in IC!Captures, c > made' PROVE ~ledger'[c].known
  <2>1. c \in Nat /\ c > made /\ ~ledger[c].known
    BY <1>1, <1>2, <1>7
  <2>2. CASE ledger' = ledger
    BY <2>1, <2>2
  <2>3. CASE IC!Seed
    <3>1. CASE ledger' = ledger
      BY <2>1, <3>1
    <3>2. ASSUME NEW d \in IC!Unseeded,
                 ledger' = [ledger EXCEPT ![d] = [known |-> TRUE, count |-> IC!Kept(d),
                                                  truncated |-> FALSE]]
          PROVE  ~ledger'[c].known
      <4>1. PICK i \in DOMAIN batch : d = batch[i]
        BY DEF IC!Unseeded
      <4>2. c # d
        BY <1>1, <1>2, <1>6, <2>1, <4>1
      <4> QED  BY <1>3, <2>1, <3>2, <4>2 DEF Known
    <3> QED  BY <2>3, <3>1, <3>2 DEF IC!Seed
  <2>4. CASE IC!Write
    <3>1. ledger'[c].known = ledger[c].known
      BY <1>3, <2>4 DEF IC!Write, Known, Entries
    <3> QED  BY <2>1, <3>1
  <2>5. CASE IC!Restart
    BY <2>5 DEF IC!Restart, IC!Unknown
  <2> QED  BY <2>2, <2>3, <2>4, <2>5, LedgerWriters
<1>8. (\A i \in DOMAIN chan' : chan'[i] <= made) /\ (\A i \in DOMAIN batch' : batch'[i] <= made)
  <2>1. CASE UNCHANGED IC!writer
    BY <1>1, <2>1 DEF IC!writer
  <2>2. CASE IC!Record
    <3>1. batch' = batch
      BY <2>2 DEF IC!Record
    <3>2. CASE chan' = chan
      BY <1>1, <3>1, <3>2
    <3>3. CASE chan' = Append(chan, window.id)
      <4>1. window.id <= made /\ window.id \in Nat
        BY <1>2, TypeIs DEF CapturesInv, Places
      <4>2. PICK w : w = window.id
        OBVIOUS
      <4>3. \A i \in DOMAIN chan' : chan'[i] = w \/ (i \in DOMAIN chan /\ chan'[i] = chan[i])
        <5>1. w \in IC!Captures \cup {w} /\ chan \in Seq(IC!Captures \cup {w})
          BY <1>3
        <5>2. Len(chan') = Len(chan) + 1 /\ DOMAIN chan' = 1 .. Len(chan) + 1 /\ Len(chan) \in Nat
              /\ DOMAIN chan = 1 .. Len(chan)
              /\ \A i \in 1 .. Len(chan) + 1 :
                   chan'[i] = IF i <= Len(chan) THEN chan[i] ELSE w
          BY <3>3, <4>2, <5>1
        <5> QED  BY <5>2
      <4> QED  BY <1>1, <3>1, <4>1, <4>2, <4>3
    <3> QED  BY <2>2, <3>2, <3>3 DEF IC!Record
  <2>3. CASE IC!Receive
    <3>1. chan # <<>> /\ batch' = Append(batch, Head(chan)) /\ chan' = Tail(chan)
      BY <2>3 DEF IC!Receive
    <3>2. Len(chan) \in Nat /\ Len(chan) >= 1 /\ DOMAIN chan = 1 .. Len(chan)
            /\ Head(chan) = chan[1]
          /\ Head(chan) \in IC!Captures
      BY <1>3, <3>1
    <3>3. ASSUME NEW i \in DOMAIN chan' PROVE i + 1 \in DOMAIN chan /\ chan'[i] = chan[i + 1]
      BY <1>3, <3>1, <3>2, <3>3
    <3>4. 1 \in DOMAIN chan
      BY <3>2
    <3>5. ASSUME NEW i \in DOMAIN batch'
          PROVE  batch'[i] = chan[1] \/ (i \in DOMAIN batch /\ batch'[i] = batch[i])
      <4>1. Len(batch) \in Nat /\ DOMAIN batch = 1 .. Len(batch)
            /\ DOMAIN batch' = 1 .. Len(batch) + 1
            /\ \A j \in 1 .. Len(batch) + 1 :
                 batch'[j] = IF j <= Len(batch) THEN batch[j] ELSE Head(chan)
        BY <1>3, <3>1, <3>2
      <4> QED  BY <3>2, <3>5, <4>1
    <3> QED  BY <1>1, <3>3, <3>4, <3>5
  <2>4. CASE IC!Flush \/ IC!Seed \/ IC!Write
    <3>1. chan' = chan /\ (batch' = batch \/ batch' = <<>>)
      BY <2>4 DEF IC!Flush, IC!Seed, IC!Write, IC!WriteFails
    <3> QED  BY <1>1, <3>1
  <2>5. CASE IC!Restart
    <3>1. chan' = <<>> /\ batch' = <<>>
      BY <2>5 DEF IC!Restart
    <3> QED  BY <3>1
  <2> QED  BY <2>1, <2>2, <2>3, <2>4, <2>5, QueuesStill
<1>9. Queues'
  BY QueuesStep
<1>10. (\A i \in DOMAIN chan' : chan'[i] \in Nat) /\ (\A i \in DOMAIN batch' : batch'[i] \in Nat)
  <2>1. chan' \in Seq(IC!Captures) /\ batch' \in Seq(IC!Captures)
    BY <1>9 DEF Queues
  <2>2. (\A i \in DOMAIN chan' : chan'[i] \in IC!Captures)
        /\ (\A i \in DOMAIN batch' : batch'[i] \in IC!Captures)
    BY <2>1
  <2> QED  BY <1>2, <2>2
<1>11. (\A i \in DOMAIN chan' : chan'[i] <= made')
        /\ (\A i \in DOMAIN batch' : batch'[i] <= made')
  BY <1>2, <1>8, <1>10
<1> QED  BY <1>4, <1>7, <1>11 DEF FutureInv

\* How the ledger of a capture changes: it starts from the stored rows, counts a batch, or is
\* forgotten.
LEMMA LedgerIs ==
  ASSUME CapturesInv, [IC!Next]_(IC!vars), NEW c \in IC!Captures
  PROVE  \/ ledger'[c] = ledger[c] /\ ~IC!Write
         \/ /\ IC!Seed /\ ~ledger[c].known /\ ledger'[c].known /\ ledger'[c].count = IC!Kept(c)
            /\ ~ledger'[c].truncated
         \/ /\ IC!Write /\ ledger'[c].known = ledger[c].known /\ IC!Unseeded = {}
            /\ ledger'[c].count = ledger[c].count + IC!Stores(c)
            /\ ledger'[c].truncated = (ledger[c].truncated \/ IC!Truncates(c))
         \/ /\ IC!Restart /\ ~IC!Write /\ ~ledger'[c].known /\ ~ledger'[c].truncated
<1>1. Known
  BY TypeIs DEF CapturesInv
<1>2. ASSUME IC!Write
      PROVE  /\ ledger'[c].known = ledger[c].known /\ IC!Unseeded = {}
             /\ ledger'[c].count = ledger[c].count + IC!Stores(c)
             /\ ledger'[c].truncated = (ledger[c].truncated \/ IC!Truncates(c))
  <2>1. ledger'[c] = [ledger[c] EXCEPT !.count = ledger[c].count + IC!Stores(c),
                                       !.truncated = ledger[c].truncated \/ IC!Truncates(c)]
    BY <1>2 DEF IC!Write
  <2>2. ledger[c] \in Entries
    BY <1>1 DEF Known
  <2>3. /\ ledger'[c].known = ledger[c].known
        /\ ledger'[c].count = ledger[c].count + IC!Stores(c)
        /\ ledger'[c].truncated = (ledger[c].truncated \/ IC!Truncates(c))
    BY <2>1, <2>2 DEF Entries
  <2> QED  BY <1>2, <2>3 DEF IC!Write
<1>3. CASE IC!Write
  BY <1>2, <1>3
<1>4. ASSUME IC!Seed, ~IC!Write
      PROVE  \/ ledger'[c] = ledger[c]
             \/ /\ ~ledger[c].known /\ ledger'[c].known /\ ledger'[c].count = IC!Kept(c)
                /\ ~ledger'[c].truncated
  <2>1. CASE ledger' = ledger
    BY <2>1
  <2>2. ASSUME NEW d \in IC!Unseeded,
               ledger' = [ledger EXCEPT ![d] = [known |-> TRUE, count |-> IC!Kept(d),
                                                truncated |-> FALSE]]
        PROVE  \/ ledger'[c] = ledger[c]
               \/ /\ ~ledger[c].known /\ ledger'[c].known /\ ledger'[c].count = IC!Kept(c)
                  /\ ~ledger'[c].truncated
    <3>1. ~ledger[d].known
      BY DEF IC!Unseeded
    <3>2. CASE c # d
      BY <1>1, <2>2, <3>2 DEF Known
    <3>3. CASE c = d
      <4>1. ledger'[c] = [known |-> TRUE, count |-> IC!Kept(c), truncated |-> FALSE]
        BY <1>1, <2>2, <3>3 DEF Known
      <4> QED  BY <3>1, <3>3, <4>1
    <3> QED  BY <3>2, <3>3
  <2> QED  BY <1>4, <2>1, <2>2 DEF IC!Seed
<1>5. ASSUME IC!Restart PROVE ~ledger'[c].known /\ ~ledger'[c].truncated
  BY <1>5 DEF IC!Restart, IC!Unknown
<1> QED  BY <1>3, <1>4, <1>5, LedgerWriters

\* What is counted of the log of a capture, before and after a step.
LEMMA NumbersAre ==
  ASSUME CapturesInv, [IC!Next]_(IC!vars), NEW c \in IC!Captures
  PROVE  \A kind :
           /\ IC!Number(kind, c) = Count(kind, log[c])
                   /\ IC!Number(kind, c)' = Count(kind, log'[c])
           /\ Count(kind, log[c]) \in Nat
           /\ Count(kind, log[c] \o <<"stopped">>)
                = IF kind = "stopped" THEN Count(kind, log[c]) + 1 ELSE Count(kind, log[c])
           /\ Count(kind, log[c] \o IC!Rows(c)) = Count(kind, log[c]) + Count(kind, IC!Rows(c))
           /\ Count(kind, <<"started">>) = IF kind = "started" THEN 1 ELSE 0
<1>1. log[c] \in Seq(IC!Kinds) /\ IC!Rows(c) \in Seq(IC!Kinds) /\ "stopped" \in IC!Kinds
  BY TypesAre, RowsAre DEF IC!Kinds
<1>2. \A kind : IC!Number(kind, c) = Count(kind, log[c])
        /\ IC!Number(kind, c)' = Count(kind, log'[c])
  BY SameCount DEF IC!Number, Count, Positions
<1>3. \A kind : Count(kind, log[c]) \in Nat
  BY <1>1, CountType
<1>4. log[c] \o <<"stopped">> = Append(log[c], "stopped")
  BY <1>1, AppendIsConcat
<1>5. \A kind : Count(kind, Append(log[c], "stopped"))
                  = IF kind = "stopped" THEN Count(kind, log[c]) + 1 ELSE Count(kind, log[c])
  <2>1. ASSUME NEW kind
        PROVE  Count(kind, Append(log[c], "stopped"))
                  = IF kind = "stopped" THEN Count(kind, log[c]) + 1 ELSE Count(kind, log[c])
    BY <1>1, CountAppend
  <2> QED  BY <2>1
<1>6. \A kind : Count(kind, log[c] \o IC!Rows(c)) = Count(kind, log[c]) + Count(kind, IC!Rows(c))
  BY <1>1, CountConcat
<1>7. \A kind : Count(kind, <<"started">>) = IF kind = "started" THEN 1 ELSE 0
  BY CountShort
<1> QED  BY <1>2, <1>3, <1>4, <1>5, <1>6, <1>7

\* Every step keeps the ledger above what is stored, and what is stored within the limit.
LEMMA LedgerStep == CapturesInv /\ [IC!Next]_(IC!vars) => LedgerInv'
<1> SUFFICES ASSUME CapturesInv, [IC!Next]_(IC!vars), NEW c \in IC!Captures
             PROVE  /\ Taken(c)' <= Cap
                    /\ ledger'[c].known /\ c = row'.id => Taken(c)' <= ledger'[c].count
                    /\ ledger'[c].truncated => ledger'[c].known
                    /\ IC!Number("truncated", c)'
                         <= restarts' + (IF ledger'[c].truncated THEN 1 ELSE 0)
  BY DEF LedgerInv
<1> DEFINE S == Count("started", log[c])
           F == Count("frame", log[c])
           U == Count("truncated", log[c])
           S1 == Count("started", log'[c])
           F1 == Count("frame", log'[c])
           U1 == Count("truncated", log'[c])
<1>1. /\ Taken(c) = S + F /\ Taken(c)' = S1 + F1 /\ IC!Number("truncated", c) = U
      /\ IC!Number("truncated", c)' = U1 /\ S \in Nat /\ F \in Nat /\ U \in Nat
  BY NumbersAre DEF Taken
<1>2. /\ S + F <= Cap
      /\ ledger[c].known /\ c = row.id => S + F <= ledger[c].count
      /\ ledger[c].truncated => ledger[c].known
      /\ U <= restarts + (IF ledger[c].truncated THEN 1 ELSE 0)
  BY <1>1 DEF CapturesInv, LedgerInv
<1>3. /\ ledger[c].count \in Nat /\ ledger[c].known \in BOOLEAN /\ ledger[c].truncated \in BOOLEAN
      /\ Cap \in Nat /\ Cap >= 1 /\ restarts \in Nat /\ made \in Nat
  BY TypesAre, TypeIs DEF CapturesInv, Counts
<1>4. restarts' = restarts \/ (IC!Restart /\ restarts' = restarts + 1)
  <2>1. ASSUME NEW t \in IC!Tasks, IC!StartBegin(t) \/ IC!StopBegin(t) \/ IC!TaskStep(t)
        PROVE  restarts' = restarts
    BY <2>1 DEF IC!StartBegin, IC!StopBegin, IC!TaskStep, IC!StartDelete, IC!StartCommit,
       IC!StartRegister,
                IC!StopUnregister, IC!StopUpdate, IC!StopMarker, IC!Abandon, IC!counts
  <2>2. IC!ExpiryScan \/ IC!Record \/ IC!Receive \/ IC!Flush \/ IC!Seed \/ IC!Write \/ IC!Lapse
          \/ IC!Age \/ IC!Purge
        \/ UNCHANGED IC!vars => restarts' = restarts
    BY DEF IC!ExpiryScan, IC!Record, IC!Receive, IC!Flush, IC!Seed, IC!Write, IC!WriteFails,
       IC!Fault, IC!Lapse, IC!Age, IC!Purge,
           IC!vars, IC!counts
  <2> QED  BY <2>1, <2>2 DEF IC!Next, IC!WriterNext, IC!Restart
<1>5. restarts' \in Nat /\ restarts <= restarts'
  BY <1>3, <1>4
<1>6. ASSUME NEW t \in IC!Tasks, IC!StartCommit(t), ~UNCHANGED IC!store
      PROVE  /\ ledger' = ledger /\ row'.id = made + 1 /\ ~ledger[made + 1].known
             /\ log'[made + 1] = <<"started">> /\ (c # made + 1 => log'[c] = log[c])
  BY <1>6, CommitIs, CommitLogs DEF IC!StartCommit, IC!writer
<1>7. /\ IC!Stores(c) \in Nat /\ IC!Truncates(c) \in BOOLEAN
      /\ IC!Stores(c) = 0 \/ ledger[c].count + IC!Stores(c) <= Cap
      /\ IC!Truncates(c) => ~ledger[c].truncated
      /\ IC!Unseeded = {} /\ ~ledger[c].known => IC!Stores(c) = 0 /\ ~IC!Truncates(c)
      /\ Count("frame", IC!Rows(c)) = IC!Stores(c) /\ Count("started", IC!Rows(c)) = 0
      /\ Count("truncated", IC!Rows(c)) = IF IC!Truncates(c) THEN 1 ELSE 0
  BY RowsAre
<1>8. ASSUME log'[c] = <<"started">>
      PROVE  S1 = 1 /\ F1 = 0 /\ U1 = 0
  BY <1>8, NumbersAre
<1>9. ASSUME log'[c] = log[c] \/ log'[c] = log[c] \o <<"stopped">>
      PROVE  S1 = S /\ F1 = F /\ U1 = U
  BY <1>9, NumbersAre
<1>10. ASSUME log'[c] = log[c] \o IC!Rows(c)
       PROVE  S1 = S /\ F1 = F + IC!Stores(c) /\ U1 = U + (IF IC!Truncates(c) THEN 1 ELSE 0)
  <2>1. /\ S1 = S + Count("started", IC!Rows(c)) /\ F1 = F + Count("frame", IC!Rows(c))
        /\ U1 = U + Count("truncated", IC!Rows(c))
    BY <1>10, NumbersAre
  <2> QED  BY <1>1, <1>7, <2>1
<1>11. ledger[c].known /\ c = row.id => cut[c] = 0
  BY DEF CapturesInv, IC!CurrentCaptureComplete, IC!Captures
<1>12. c = row.id => S + F <= IC!Kept(c)
  <2>1. log[c] \in Seq(IC!Kinds) /\ Len(log[c]) \in Nat
    BY TypesAre
  <2>2. S + F <= Len(log[c])
    BY <2>1, CountsFit
  <2>3. c = row.id => cut[c] = 0
    BY DEF CapturesInv, IC!CurrentCaptureComplete, IC!Captures
  <2> QED  BY <2>1, <2>2, <2>3 DEF IC!Kept
<1> HIDE DEF S, F, U, S1, F1, U1
<1>13. CASE IC!Write
  <2>1. /\ ledger'[c].known = ledger[c].known /\ IC!Unseeded = {}
        /\ ledger'[c].count = ledger[c].count + IC!Stores(c)
        /\ ledger'[c].truncated = (ledger[c].truncated \/ IC!Truncates(c))
    BY <1>13, LedgerIs DEF IC!Write, IC!Seed, IC!Restart
  <2>2. row' = row /\ restarts' = restarts
    BY <1>13 DEF IC!Write, IC!WriteFails, IC!Fault, IC!counts
  <2>3. log'[c] = log[c] \/ (c = row.id /\ log'[c] = log[c] \o IC!Rows(c))
    BY <1>13 DEF IC!Write
  <2>4. ledger'[c].truncated => ledger'[c].known
    BY <1>2, <1>3, <1>7, <2>1
  <2>5. CASE log'[c] = log[c]
    <3>1. S1 = S /\ F1 = F /\ U1 = U
      BY <1>9, <2>5
    <3>2. U1 <= restarts' + (IF ledger'[c].truncated THEN 1 ELSE 0)
      BY <1>1, <1>2, <1>3, <1>7, <2>1, <2>2, <3>1
    <3>3. ledger'[c].known /\ c = row'.id => S1 + F1 <= ledger'[c].count
      BY <1>1, <1>2, <1>3, <1>7, <2>1, <2>2, <3>1
    <3> QED  BY <1>1, <1>2, <2>4, <3>1, <3>2, <3>3
  <2>6. CASE c = row.id /\ log'[c] = log[c] \o IC!Rows(c)
    <3>1. S1 = S /\ F1 = F + IC!Stores(c) /\ U1 = U + (IF IC!Truncates(c) THEN 1 ELSE 0)
      BY <1>10, <2>6
    <3>2. U1 <= restarts' + (IF ledger'[c].truncated THEN 1 ELSE 0)
      BY <1>1, <1>2, <1>3, <1>7, <2>1, <2>2, <3>1
    <3>3. ledger'[c].known => S1 + F1 <= ledger'[c].count
      BY <1>1, <1>2, <1>3, <1>7, <2>1, <2>2, <2>6, <3>1
    <3>4. S1 + F1 <= Cap
      BY <1>1, <1>2, <1>3, <1>7, <2>1, <2>6, <3>1
    <3> QED  BY <1>1, <2>4, <3>2, <3>3, <3>4
  <2> QED  BY <2>3, <2>5, <2>6
<1>14. ASSUME NEW t \in IC!Tasks, IC!StartCommit(t), ~UNCHANGED IC!store, c = made + 1
       PROVE  /\ S1 + F1 <= Cap
              /\ ledger'[c].known /\ c = row'.id => S1 + F1 <= ledger'[c].count
              /\ ledger'[c].truncated => ledger'[c].known
              /\ U1 <= restarts' + (IF ledger'[c].truncated THEN 1 ELSE 0)
  <2>1. ~ledger'[c].known /\ ~ledger'[c].truncated /\ log'[c] = <<"started">>
    BY <1>2, <1>6, <1>14
  <2>2. S1 = 1 /\ F1 = 0 /\ U1 = 0
    BY <1>8, <2>1
  <2>3. (IF ledger'[c].truncated THEN 1 ELSE 0) = 0
    BY <2>1
  <2>4. \A k \in Nat : 0 <= k + 0
    OBVIOUS
  <2>5. restarts' \in Nat
    BY <1>5
  <2>6. U1 <= restarts' + 0
    BY <2>2, <2>4, <2>5
  <2>7. \A k \in Nat : k >= 1 => 1 + 0 <= k
    OBVIOUS
  <2>8. S1 + F1 <= Cap
    BY <1>3, <2>2, <2>7
  <2> QED  BY <2>1, <2>3, <2>6, <2>8
<1>15. ASSUME ~IC!Write, ~(\E t \in IC!Tasks : IC!StartCommit(t) /\ ~UNCHANGED IC!store
        /\ c = made + 1)
       PROVE  /\ S1 + F1 <= Cap
              /\ ledger'[c].known /\ c = row'.id => S1 + F1 <= ledger'[c].count
              /\ ledger'[c].truncated => ledger'[c].known
              /\ U1 <= restarts' + (IF ledger'[c].truncated THEN 1 ELSE 0)
  <2>1. c # 0
    BY TypesAre
  <2>2. row'.id = c => row.id = c
    BY <1>6, <1>15, <2>1, RowIs
  <2>3. log'[c] = log[c] \/ log'[c] = log[c] \o <<"stopped">>
    <3>1. CASE log' = log
      BY <3>1
    <3>2. CASE \E t \in IC!Tasks : IC!StartCommit(t) /\ ~UNCHANGED IC!store
      BY <1>6, <1>15, <3>2
    <3>3. ASSUME NEW t \in IC!Tasks, IC!StopMarker(t), ~UNCHANGED log
          PROVE  log'[c] = log[c] \/ log'[c] = log[c] \o <<"stopped">>
      <4>1. Logs /\ log' = [log EXCEPT ![task[t].id] = @ \o <<"stopped">>]
        BY <3>3, MarkerIs, TypeIs DEF CapturesInv
      <4> QED  BY <4>1 DEF Logs
    <3> QED  BY <1>15, <3>1, <3>2, <3>3, LogWriters
  <2>4. S1 = S /\ F1 = F /\ U1 = U
    BY <1>9, <2>3
  <2>5. \/ ledger'[c] = ledger[c]
        \/ /\ ~ledger[c].known /\ ledger'[c].known /\ ledger'[c].count = IC!Kept(c)
           /\ ~ledger'[c].truncated
        \/ restarts' = restarts + 1 /\ ~ledger'[c].known /\ ~ledger'[c].truncated
    BY <1>15, LedgerIs DEF IC!Restart
  <2>6. CASE ledger'[c] = ledger[c]
    <3>1. PICK n \in {0, 1} : n = (IF ledger[c].truncated THEN 1 ELSE 0)
                            /\ n = (IF ledger'[c].truncated THEN 1 ELSE 0)
      BY <2>6
    <3>2. U <= restarts + n
      BY <1>2, <3>1
    <3>3. \A u, k, l \in Nat : u <= k + n /\ k <= l => u <= l + n
      OBVIOUS
    <3>4. U1 <= restarts' + n
      BY <1>1, <1>3, <1>5, <2>4, <3>2, <3>3
    <3> QED  BY <1>2, <2>2, <2>4, <2>6, <3>1, <3>4
  <2>7. CASE /\ ~ledger[c].known /\ ledger'[c].known /\ ledger'[c].count = IC!Kept(c)
             /\ ~ledger'[c].truncated
    <3>1. ~ledger[c].truncated
      BY <1>2, <2>7
    <3>2. U1 <= restarts'
      BY <1>1, <1>2, <1>3, <1>5, <2>4, <3>1
    <3> QED  BY <1>2, <1>5, <1>12, <2>2, <2>4, <2>7, <3>2
  <2>8. CASE restarts' = restarts + 1 /\ ~ledger'[c].known /\ ~ledger'[c].truncated
    <3>1. U1 <= restarts'
      BY <1>1, <1>2, <1>3, <2>4, <2>8
    <3> QED  BY <1>2, <1>5, <2>4, <2>8, <3>1
  <2> QED  BY <2>5, <2>6, <2>7, <2>8
<1> QED  BY <1>1, <1>13, <1>14, <1>15

\* Every step lets no capture record a second stop, and none while it runs.
LEMMA StopStep == CapturesInv /\ [IC!Next]_(IC!vars) => StopInv'
<1> SUFFICES ASSUME CapturesInv, [IC!Next]_(IC!vars), NEW c \in IC!Captures
             PROVE  /\ IC!Number("stopped", c)' <= 1
                    /\ IC!Number("stopped", c)' = 1 /\ c = row'.id => row'.stop # "open"
                    /\ \A t \in IC!Tasks : IC!At(t, "marker")' /\ task'[t].id = c =>
                         /\ IC!Number("stopped", c)' = 0 /\ (c = row'.id => row'.stop # "open")
                         /\ \A u \in IC!Tasks : IC!At(u, "marker")' /\ task'[u].id = c => u = t
  BY DEF StopInv
<1> DEFINE P == Count("stopped", log[c])
           P1 == Count("stopped", log'[c])
           Marks(t) == task[t].at = "marker" /\ task[t].id = c
           Marks1(t) == task'[t].at = "marker" /\ task'[t].id = c
           Open == c = row.id /\ row.stop = "open"
           Open1 == c = row'.id /\ row'.stop = "open"
<1>1. IC!Number("stopped", c) = P /\ IC!Number("stopped", c)' = P1 /\ P \in Nat
  BY NumbersAre
<1>2. P <= 1 /\ (P = 1 => ~Open)
      /\ \A t \in IC!Tasks : Marks(t) => P = 0 /\ ~Open /\ \A u \in IC!Tasks : Marks(u) => u = t
  BY <1>1 DEF CapturesInv, StopInv, IC!At
<1> SUFFICES /\ P1 <= 1 /\ (P1 = 1 => ~Open1)
             /\ \A t \in IC!Tasks : Marks1(t) => P1 = 0 /\ ~Open1
                                              /\ \A u \in IC!Tasks : Marks1(u) => u = t
  BY <1>1 DEF IC!At
<1>3. task \in [IC!Tasks -> State] /\ \A t \in IC!Tasks : Marks(t) => c \in 1 .. made
  BY DEF CapturesInv, TasksInv, IC!At
<1>4. row'.id = row.id /\ (row'.stop = "open" => row.stop = "open") => (Open1 => Open)
  OBVIOUS
<1>5. c # 0 /\ made \in Nat
  BY TypesAre
<1>6. ASSUME NEW t \in IC!Tasks, IC!StartCommit(t), ~UNCHANGED IC!store, c = made + 1
      PROVE  P1 = 0 /\ \A u \in IC!Tasks : ~Marks1(u)
  <2>1. P1 = 0
    BY <1>6, CommitLogs, NumbersAre
  <2>2. task' = [task EXCEPT ![t] = IC!Idle]
        \/ task' = [task EXCEPT ![t] = [IC!Idle EXCEPT !.at = "register", !.id = made']]
    BY <1>6 DEF IC!StartCommit, IC!Abandon, IC!Done
  <2>3. IC!Idle.at # "marker" /\ [IC!Idle EXCEPT !.at = "register", !.id = made'].at # "marker"
    BY DEF IC!Idle
  <2>4. ~(c \in 1 .. made)
    BY <1>5, <1>6
  <2>5. \A u \in IC!Tasks : Marks1(u) => Marks(u)
    BY <1>3, <2>2, <2>3
  <2> QED  BY <1>3, <2>1, <2>4, <2>5
<1>7. ASSUME ~(\E t \in IC!Tasks : IC!StartCommit(t) /\ ~UNCHANGED IC!store /\ c = made + 1)
      PROVE  Open1 => Open
  <2>1. \A t \in IC!Tasks : IC!StartCommit(t) /\ ~UNCHANGED IC!store => row'.id = made + 1
    BY CommitIs
  <2> QED  BY <1>4, <1>5, <1>7, <2>1, RowIs
<1>8. ASSUME NEW t \in IC!Tasks, IC!StopMarker(t), ~UNCHANGED log, task[t].id = c
      PROVE  P1 = 1 /\ ~Open1 /\ \A u \in IC!Tasks : ~Marks1(u)
  <2>1. /\ log' = [log EXCEPT ![task[t].id] = @ \o <<"stopped">>] /\ IC!At(t, "marker")
        /\ task' = [task EXCEPT ![t] = IC!Idle] /\ Logs
    BY <1>8, MarkerIs, TypeIs DEF CapturesInv
  <2>2. Marks(t)
    BY <1>8, <2>1 DEF IC!At
  <2>3. P = 0 /\ ~Open /\ \A u \in IC!Tasks : Marks(u) => u = t
    BY <1>2, <2>2
  <2>4. log'[c] = log[c] \o <<"stopped">>
    BY <1>8, <2>1 DEF Logs
  <2>5. P1 = P + 1
    BY <2>4, NumbersAre
  <2>6. IC!Idle.at # "marker"
    BY DEF IC!Idle
  <2>7. \A u \in IC!Tasks : ~Marks1(u)
    BY <1>3, <2>1, <2>3, <2>6
  <2>8. row' = row
    BY <1>8 DEF IC!StopMarker
  <2> QED  BY <2>3, <2>5, <2>7, <2>8
<1>9. ASSUME ~(\E t \in IC!Tasks : IC!StartCommit(t) /\ ~UNCHANGED IC!store /\ c = made + 1),
             ~(\E t \in IC!Tasks : IC!StopMarker(t) /\ ~UNCHANGED log /\ task[t].id = c)
      PROVE  P1 = P
  <2>1. CASE log' = log
    BY <2>1
  <2>2. ASSUME NEW t \in IC!Tasks, IC!StartCommit(t), ~UNCHANGED IC!store PROVE P1 = P
    BY <1>9, <2>2, CommitLogs
  <2>3. ASSUME NEW t \in IC!Tasks, IC!StopMarker(t), ~UNCHANGED log PROVE P1 = P
    <3>1. log' = [log EXCEPT ![task[t].id] = @ \o <<"stopped">>] /\ Logs
      BY <2>3, MarkerIs, TypeIs DEF CapturesInv
    <3>2. log'[c] = log[c]
      BY <1>9, <2>3, <3>1 DEF Logs
    <3> QED  BY <3>2
  <2>4. CASE IC!Write
    <3>1. log'[c] = log[c] \/ log'[c] = log[c] \o IC!Rows(c)
      BY <2>4 DEF IC!Write
    <3>2. Count("stopped", IC!Rows(c)) = 0
      BY RowsAre
    <3>3. Count("stopped", log[c] \o IC!Rows(c)) = P + Count("stopped", IC!Rows(c))
      BY NumbersAre
    <3>4. P + 0 = P
      BY <1>1
    <3>5. CASE log'[c] = log[c]
      BY <3>5
    <3>6. CASE log'[c] = log[c] \o IC!Rows(c)
      <4>1. P1 = P + 0
        BY <3>2, <3>3, <3>6
      <4> QED  BY <3>4, <4>1
    <3> QED  BY <3>1, <3>5, <3>6
  <2> QED  BY <2>1, <2>2, <2>3, <2>4, LogWriters
<1> HIDE DEF P, P1, Open, Open1
<1>10. ASSUME P1 = P, Open1 => Open, \A u \in IC!Tasks : Marks1(u) => Marks(u)
       PROVE  /\ P1 <= 1 /\ (P1 = 1 => ~Open1)
              /\ \A t \in IC!Tasks : Marks1(t) => P1 = 0 /\ ~Open1
                                               /\ \A u \in IC!Tasks : Marks1(u) => u = t
  BY <1>2, <1>10
<1>11. ASSUME NEW t \in IC!Tasks,
              IC!StartBegin(t) \/ IC!StopBegin(t) \/ IC!TaskStep(t)
                   \/ (t = Expirer /\ IC!ExpiryScan),
              P1 = P, Open1 => Open
       PROVE  /\ P1 <= 1 /\ (P1 = 1 => ~Open1)
              /\ \A u \in IC!Tasks : Marks1(u) => P1 = 0 /\ ~Open1
                                               /\ \A v \in IC!Tasks : Marks1(v) => v = u
  <2>1. PICK s \in State :
          /\ task' = [task EXCEPT ![t] = s]
          /\ s.at = "marker" => s.id = row.id /\ row.stop = "open" /\ row.id \in 1 .. made
                                /\ row' = IC!Stopped(t) /\ UNCHANGED <<log, ledger, cut>>
    BY <1>11, TaskIs
  <2>2. \A u \in IC!Tasks : task'[u] = IF u = t THEN s ELSE task[u]
    BY <1>3, <2>1
  <2>3. CASE ~(s.at = "marker" /\ s.id = c)
    BY <1>10, <1>11, <2>2, <2>3
  <2>4. CASE s.at = "marker" /\ s.id = c
    <3>1. Open
      BY <2>1, <2>4 DEF Open
    <3>2. P = 0 /\ \A u \in IC!Tasks : ~Marks(u)
      BY <1>1, <1>2, <3>1
    <3>3. \A u \in IC!Tasks : Marks1(u) => u = t
      BY <2>2, <3>2
    <3>4. ~Open1
      <4>1. row'.stop = task[t].reason
        <5>1. row \in RowType
          BY TypeIs DEF CapturesInv, Places
        <5> QED  BY <2>1, <2>4, <5>1 DEF IC!Stopped, RowType
      <4>2. task[t].reason # "open"
        BY <1>3 DEF State
      <4> QED  BY <4>1, <4>2 DEF Open1
    <3> QED  BY <1>11, <3>2, <3>3, <3>4
  <2> QED  BY <2>3, <2>4
<1>12. ASSUME UNCHANGED task \/ task' = [t \in IC!Tasks |-> IC!Idle], P1 = P, Open1 => Open
       PROVE  /\ P1 <= 1 /\ (P1 = 1 => ~Open1)
              /\ \A u \in IC!Tasks : Marks1(u) => P1 = 0 /\ ~Open1
                                               /\ \A v \in IC!Tasks : Marks1(v) => v = u
  <2>1. IC!Idle.at # "marker"
    BY DEF IC!Idle
  <2>2. \A u \in IC!Tasks : Marks1(u) => Marks(u)
    BY <1>12, <2>1
  <2> QED  BY <1>10, <1>12, <2>2
<1>13. CASE \E t \in IC!Tasks : IC!StartCommit(t) /\ ~UNCHANGED IC!store /\ c = made + 1
  BY <1>6, <1>13
<1>14. CASE \E t \in IC!Tasks : IC!StopMarker(t) /\ ~UNCHANGED log /\ task[t].id = c
  BY <1>8, <1>14
<1>15. CASE /\ ~(\E t \in IC!Tasks : IC!StartCommit(t) /\ ~UNCHANGED IC!store /\ c = made + 1)
            /\ ~(\E t \in IC!Tasks : IC!StopMarker(t) /\ ~UNCHANGED log /\ task[t].id = c)
  <2>1. P1 = P /\ (Open1 => Open)
    BY <1>7, <1>9, <1>15
  <2> QED  BY <1>11, <1>12, <2>1, TaskStill
<1> QED  BY <1>13, <1>14, <1>15

\* Every step keeps the current capture's log from its first event.
LEMMA CompleteStep == CapturesInv /\ [IC!Next]_(IC!vars) => IC!CurrentCaptureComplete'
<1> SUFFICES ASSUME CapturesInv, [IC!Next]_(IC!vars), row'.id # 0
             PROVE  cut'[row'.id] = 0 /\ log'[row'.id] # <<>> /\ Head(log'[row'.id]) = "started"
  BY DEF IC!CurrentCaptureComplete
<1>1. ASSUME NEW t \in IC!Tasks, IC!StartCommit(t), ~UNCHANGED IC!store
      PROVE  cut'[row'.id] = 0 /\ log'[row'.id] # <<>> /\ Head(log'[row'.id]) = "started"
  <2>1. row'.id = made + 1 /\ log'[made + 1] = <<"started">> /\ cut'[made + 1] = 0
    BY <1>1, CommitIs, CommitLogs
  <2>2. <<"started">> # <<>> /\ Head(<<"started">>) = "started"
    OBVIOUS
  <2> QED  BY <2>1, <2>2
<1>2. ASSUME ~(\E t \in IC!Tasks : IC!StartCommit(t) /\ ~UNCHANGED IC!store)
      PROVE  cut'[row'.id] = 0 /\ log'[row'.id] # <<>> /\ Head(log'[row'.id]) = "started"
  <2>1. row'.id = row.id /\ cut' = cut
    BY <1>2, RowIs
  <2>2. PICK c \in IC!Captures : c = row.id
    BY <2>1, TypesAre
  <2>3. cut[c] = 0 /\ log[c] # <<>> /\ Head(log[c]) = "started" /\ log[c] \in Seq(IC!Kinds)
    BY <2>1, <2>2, TypesAre DEF CapturesInv, IC!CurrentCaptureComplete
  <2>4. \E u \in Seq(IC!Kinds) : log'[c] = log[c] \o u
    <3>1. <<>> \in Seq(IC!Kinds) /\ log[c] \o <<>> = log[c] /\ <<"stopped">> \in Seq(IC!Kinds)
      BY <2>3 DEF IC!Kinds
    <3>2. CASE log'[c] = log[c]
      BY <3>1, <3>2
    <3>3. ASSUME NEW t \in IC!Tasks, IC!StopMarker(t), ~UNCHANGED log
          PROVE  log'[c] = log[c] \/ log'[c] = log[c] \o <<"stopped">>
      <4>1. Logs /\ log' = [log EXCEPT ![task[t].id] = @ \o <<"stopped">>]
        BY <3>3, MarkerIs, TypeIs DEF CapturesInv
      <4> QED  BY <4>1 DEF Logs
    <3>4. IC!Write => log'[c] = log[c] \/ log'[c] = log[c] \o IC!Rows(c)
      BY DEF IC!Write
    <3>5. IC!Rows(c) \in Seq(IC!Kinds)
      BY RowsAre
    <3> QED  BY <1>2, <3>1, <3>2, <3>3, <3>4, <3>5, LogWriters
  <2>5. PICK u \in Seq(IC!Kinds) : log'[c] = log[c] \o u
    BY <2>4
  <2>6. log[c] \o u # <<>> /\ Head(log[c] \o u) = Head(log[c])
    BY <2>3
  <2> QED  BY <2>1, <2>2, <2>3, <2>5, <2>6
<1> QED  BY <1>1, <1>2

-----------------------------------------------------------------------------
(* The theorems                                                            *)

\* The initial states satisfy the invariant.
LEMMA CapturesInit == Assumed /\ IC!Init => CapturesInv
<1> SUFFICES ASSUME Assumed, IC!Init PROVE CapturesInv
  OBVIOUS
<1>1. /\ MaxCaptures \in Nat /\ Cap \in Nat /\ Cap >= 1 /\ ChannelCapacity \in Nat
      /\ BatchRows \in Nat /\ MaxLoad \in Nat /\ MaxFaults \in Nat /\ MaxCrashes \in Nat
  BY DEF Assumed, IC!CapacityAssumption, IC!BoundsAssumption
<1>2. /\ log = [c \in IC!Captures |-> <<>>] /\ cut = [c \in IC!Captures |-> 0] /\ made = 0
      /\ ledger = [c \in IC!Captures |-> IC!Unknown] /\ task = [t \in IC!Tasks |-> IC!Idle]
      /\ chan = <<>> /\ batch = <<>> /\ row = IC!NoRow /\ restarts = 0
  BY DEF IC!Init, IC!Nothing
<1>3. IC!TypeOK
  <2>1. \A c \in IC!Captures : log[c] = <<>> /\ cut[c] = 0 /\ Len(<<>>) = 0
    BY <1>2
  <2>2. \A c \in IC!Captures : IC!Kept(c) >= 0
    BY <2>1 DEF IC!Kept
  <2>3. log \in [IC!Captures -> Seq(IC!Kinds)] /\ cut \in [IC!Captures -> Nat]
    BY <1>2
  <2>4. row \in [id : 0 .. made, stop : {"none", "open", "user", "expired"},
                 dropped : BOOLEAN, old : BOOLEAN] /\ (row.id = 0 <=> row.stop = "none")
    BY <1>2 DEF IC!NoRow
  <2>5. window \in [id : 0 .. made, dropped : BOOLEAN] /\ lapsed \in 0 .. made
    BY <1>2 DEF IC!Init, IC!NoWindow
  <2>6. ledger \in [IC!Captures -> [known : BOOLEAN, count : Nat, truncated : BOOLEAN]]
    BY <1>2 DEF IC!Unknown
  <2>7. chan \in Seq(IC!Captures) /\ Len(chan) = 0 /\ batch \in Seq(IC!Captures) /\ Len(batch) = 0
    BY <1>2
  <2>8. \A n \in Nat : 0 \in 0 .. n /\ 0 <= n
    OBVIOUS
  <2>9. /\ made = 0 /\ writing = FALSE /\ DOMAIN task = IC!Tasks
        /\ offered = 0 /\ faults = 0 /\ abandons = 0 /\ restarts = 0
    BY <1>2 DEF IC!Init
  <2>10. made \in 0 .. MaxCaptures /\ writing \in BOOLEAN /\ DOMAIN task = IC!Tasks
        /\ offered \in 0 .. MaxLoad /\ faults \in 0 .. MaxFaults /\ abandons \in 0 .. MaxFaults
        /\ restarts \in 0 .. MaxCrashes
    BY <1>1, <2>8, <2>9
  <2> QED  BY <1>1, <2>2, <2>3, <2>4, <2>5, <2>6, <2>7, <2>8, <2>10 DEF IC!TypeOK
<1>4. TasksInv
  <2>1. IC!Idle \in State /\ IC!Idle.at = "idle"
    BY DEF IC!Idle, State, Steps, IC!Nothing
  <2> QED  BY <1>2, <2>1 DEF TasksInv, IC!At
<1>5. StartsInv
  <2>1. IC!Starting = {}
    BY <1>2 DEF IC!Starting, IC!At, IC!Tasks, IC!Idle
  <2>2. Cardinality(IC!Starting) = 0
    BY <2>1, FS_EmptySet
  <2>3. made + Cardinality(IC!Starting) <= MaxCaptures
    BY <1>1, <1>2, <2>2
  <2> QED  BY <2>3 DEF StartsInv
<1>6. FutureInv
  BY <1>2 DEF FutureInv, IC!Unknown
<1>7. \A c \in IC!Captures : \A kind : IC!Number(kind, c) = 0
  <2>1. \A c \in IC!Captures : log[c] = <<>>
    BY <1>2
  <2> QED  BY <2>1, NumberIs, CountShort
<1>8. LedgerInv
  <2>1. \A c \in IC!Captures : ~ledger[c].known /\ ~ledger[c].truncated /\ Taken(c) = 0 + 0
                            /\ IC!Number("truncated", c) = 0
    BY <1>2, <1>7 DEF Taken, IC!Unknown
  <2> QED  BY <1>1, <1>2, <2>1 DEF LedgerInv
<1>9. StopInv
  <2>1. \A t \in IC!Tasks : ~IC!At(t, "marker")
    BY <1>2 DEF IC!At, IC!Idle
  <2> QED  BY <1>7, <2>1 DEF StopInv
<1>10. IC!CurrentCaptureComplete
  BY <1>2 DEF IC!CurrentCaptureComplete, IC!NoRow
<1> QED  BY <1>3, <1>4, <1>5, <1>6, <1>8, <1>9, <1>10 DEF CapturesInv

\* The invariant contains what is claimed.
LEMMA CapturesImply == CapturesInv => IC!CaptureInv
<1> SUFFICES ASSUME CapturesInv PROVE IC!CaptureInv
  OBVIOUS
<1>1. IC!StoredWithinCap
  BY DEF CapturesInv, LedgerInv, Taken, IC!StoredWithinCap
<1>2. ASSUME NEW c \in IC!Captures PROVE IC!Number("truncated", c) <= 1 + restarts
  <2>1. IC!Number("truncated", c) \in Nat /\ restarts \in Nat
    BY NumberIs, CountType, TypesAre, TypeIs DEF CapturesInv, Counts
  <2>2. IC!Number("truncated", c) <= restarts + (IF ledger[c].truncated THEN 1 ELSE 0)
    BY DEF CapturesInv, LedgerInv
  <2> QED  BY <2>1, <2>2
<1>3. IC!OneStop
  BY DEF CapturesInv, StopInv, IC!OneStop
<1> QED  BY <1>1, <1>2, <1>3 DEF CapturesInv, IC!CaptureInv, IC!FewTruncationMarkers

\* What holds of the logs, the ledger, the writer's queues and the handlers in every reachable
\* state.
THEOREM CaptureInvariant == Assumed => (IC!Spec => []CapturesInv)
<1>1. Assumed <=> Assumed'
  BY DEF Assumed, IC!RequestsAssumption, IC!CapacityAssumption, IC!BoundsAssumption
<1>2. CapturesInv /\ [IC!Next]_(IC!vars) => CapturesInv'
  BY <1>1, TypeStep, TasksStep, StartsStep, FutureStep, LedgerStep, StopStep,
     CompleteStep DEF CapturesInv
<1> QED  BY <1>2, CapturesInit, PTL DEF IC!Spec

\* The limit on stored events holds across restarts, failed batches and replaced captures; the
\* capture in the row is complete from its first event; no capture records a second stop, or a
\* stop while it runs; and truncation markers are no more than one and one for each restart.
THEOREM CaptureHolds == Assumed => (IC!Spec => []IC!CaptureInv)
  BY CaptureInvariant, CapturesImply, PTL

=============================================================================
