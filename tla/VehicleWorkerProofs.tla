------------------------- MODULE VehicleWorkerProofs -------------------------
(***************************************************************************)
(* One collector for one vehicle, for every number of processes,           *)
(* connections, workers, crashes and failures: type correctness, mutual    *)
(* exclusion by the advisory lock, and that no task is out of reach.       *)
(*                                                                         *)
(* Then, for every set of frames and every bound, the history that such a  *)
(* worker writes, as the instance H of VehicleHistory.  It keeps the       *)
(* timeline that StateTimeline promises: a step changes the timeline only  *)
(* through Transition, with the time of the frame in hand or of the newest *)
(* stored row that tells a state.  And it keeps its charges: what startup  *)
(* merges, closes and resumes, what a frame writes, and what the detector  *)
(* holds fit each other, wherever the worker ends.                         *)
(***************************************************************************)
EXTENDS VehicleWorker, FiniteSetTheorems, TLAPS

\* A session that has the lock has taken it.
LEMMA HeldDepth ==
  ASSUME TypeOK, LockInv, NEW w \in Workers, holder = Session(w)
  PROVE  depth > 0
<1>1. w[1] \in Procs /\ conn[w] \in Conns \cup {NoConn, Lost}
  BY DEF Workers, TypeOK
<1>2. Session(w) # Nobody
  BY <1>1, NobodyAssumption DEF Session
<1> QED  BY <1>2 DEF LockInv

-----------------------------------------------------------------------------
(* Type correctness *)

\* Processes without a worker and with empty pools are well-typed.
LEMMA TypeInit == Init => TypeOK
  BY BoundsAssumption DEF Init, TypeOK, Steps, Ended, Workers

\* Every action keeps the types; depth stays natural because a session that gives the lock
\* up has it.
LEMMA TypeStep == TypeOK /\ LockInv /\ [Next]_vars => TypeOK'
<1> SUFFICES ASSUME TypeOK, LockInv, [Next]_vars PROVE TypeOK'
  OBVIOUS
<1> USE BoundsAssumption DEF TypeOK, vehicle, supervisor, tasks, lock, budgets
<1>1. ASSUME NEW w \in Workers, WorkerStep(w) PROVE TypeOK'
  <2> USE DEF Works, Goto, UpsertAuth, Steps, Holding, Ended
  <2>1. CASE Load(w)  BY <2>1 DEF Load
  <2>2. CASE Flag(w)  BY <2>2 DEF Flag
  <2>3. CASE TryLock(w)
    <3>1. w[1] \in Procs  BY DEF Workers
    <3>2. PICK c \in Idle(w[1]) :
            IF holder \in {Nobody, <<w[1], c>>}
            THEN /\ holder' = <<w[1], c>> /\ depth' = depth + 1
                 /\ conn' = [conn EXCEPT ![w] = c] /\ Goto(w, "setup")
            ELSE Goto(w, "passive") /\ UNCHANGED <<conn, lock>>
      BY <2>3 DEF TryLock
    <3>3. c \in Conns  BY DEF Idle
    <3>4. holder' \in (Procs \X Conns) \cup {Nobody} /\ depth' \in Nat
      BY <3>1, <3>2, <3>3
    <3>5. conn' \in [Workers -> Conns \cup {NoConn, Lost}] /\ pc' \in [Workers -> Steps]
      BY <3>2, <3>3
    <3> QED  BY <2>3, <3>4, <3>5 DEF TryLock
  <2>4. CASE Passive(w)  BY <2>4 DEF Passive
  <2>5. CASE Setup(w)
    <3>1. CASE row = "present"  BY <2>5, <3>1 DEF Setup
    <3>2. CASE row # "present"
      <4>1. holder = Session(w) => depth > 0  BY HeldDepth
      <4>2. Release(w) /\ Goto(w, "done") /\ UNCHANGED loops
        BY <2>5, <3>2 DEF Setup
      <4>3. conn' \in [Workers -> Conns \cup {NoConn, Lost}] /\ pc' \in [Workers -> Steps]
        BY <4>2 DEF Release
      <4>4. holder' \in (Procs \X Conns) \cup {Nobody} /\ depth' \in Nat
        BY <4>1, <4>2 DEF Release
      <4> QED  BY <2>5, <3>2, <4>2, <4>3, <4>4 DEF Setup
    <3> QED  BY <3>1, <3>2
  <2>6. CASE LeaveLoop(w)  BY <2>6 DEF LeaveLoop
  <2>7. CASE Exit(w)
    <3>1. holder = Session(w) => depth > 0  BY HeldDepth
    <3> QED  BY <2>7, <3>1 DEF Exit, Release
  <2> QED  BY <1>1, <2>1, <2>2, <2>3, <2>4, <2>5, <2>6, <2>7 DEF WorkerStep
<1>2. ASSUME NEW w \in Workers, WorkerFault(w) PROVE TypeOK'
  <2> USE DEF Works, Goto, UpsertAuth, Steps, Holding, Ended, Fault
  <2>1. CASE QueryFails(w)  BY <2>1 DEF QueryFails
  <2>2. CASE SetupFails(w)
    <3>1. holder = Session(w) => depth > 0  BY HeldDepth
    <3> QED  BY <2>2, <3>1 DEF SetupFails, Release
  <2>3. CASE Panic(w)  BY <2>3 DEF Panic, Dropped
  <2>4. CASE Hang(w)  BY <2>4 DEF Hang
  <2> QED  BY <1>2, <2>1, <2>2, <2>3, <2>4 DEF WorkerFault
<1>3. ASSUME NEW w \in Workers, Abort(w) PROVE TypeOK'
  BY <1>3 DEF Abort, Dropped, Goto, Steps, Ended
<1>4. ASSUME NEW w \in Workers, LoopsEnd(w) PROVE TypeOK'
  BY <1>4 DEF LoopsEnd
<1>5. ASSUME NEW p \in Procs, ProcessStep(p) PROVE TypeOK'
  <2>1. CASE StartWorker(p)
    <3>1. queue'[p] \in Seq({"start", "stop"}) /\ queue' \in [Procs -> Seq({"start", "stop"})]
      BY <2>1 DEF StartWorker
    <3>2. CASE Busy(p) /\ UNCHANGED <<gen, slot, pc, told>>
      BY <2>1, <3>1, <3>2 DEF StartWorker
    <3>3. CASE ~Busy(p) /\ gen[p] < MaxGens
      <4>1. gen[p] + 1 \in 1 .. MaxGens /\ Worker(p, gen[p] + 1) \in Workers
        BY <3>3 DEF Worker, Workers
      <4>2. slot[p] # 0 => Worker(p, slot[p]) \in Workers
        BY DEF Worker, Workers
      <4>3. gen' \in [Procs -> 0 .. MaxGens] /\ slot' \in [Procs -> 0 .. MaxGens]
        <5>1. gen' = [gen EXCEPT ![p] = gen[p] + 1] /\ slot' = [slot EXCEPT ![p] = gen[p] + 1]
          BY <2>1, <3>3 DEF StartWorker
        <5>2. gen[p] + 1 \in 0 .. MaxGens  BY <4>1
        <5> QED  BY <5>1, <5>2
      <4>4. pc' \in [Workers -> Steps] /\ told' \in SUBSET Workers
        BY <2>1, <3>3, <4>1, <4>2 DEF StartWorker, Busy, Goto, Steps
      <4> QED  BY <2>1, <3>1, <4>3, <4>4 DEF StartWorker
    <3> QED  BY <2>1, <3>2, <3>3 DEF StartWorker
  <2>2. CASE StopWorker(p)
    <3>1. queue' \in [Procs -> Seq({"start", "stop"})]  BY <2>2 DEF StopWorker
    <3>2. slot[p] # 0 => Worker(p, slot[p]) \in Workers
      BY DEF Worker, Workers
    <3> QED  BY <2>2, <3>1, <3>2 DEF StopWorker
  <2>3. CASE Send(p)  BY <2>3 DEF Send
  <2>4. CASE Abandon(p)  BY <2>4 DEF Abandon, Fault
  <2>5. CASE SaveCredentials(p)  BY <2>5 DEF SaveCredentials, Ask
  <2>6. CASE DeleteVehicle(p)  BY <2>6 DEF DeleteVehicle, Ask
  <2>7. CASE Boot(p)
    <3>1. <<"start">> \in Seq({"start", "stop"}) /\ <<>> \in Seq({"start", "stop"})  OBVIOUS
    <3> QED  BY <2>7, <3>1 DEF Boot
  <2>8. CASE Crash(p)
    <3>1. <<>> \in Seq({"start", "stop"})  OBVIOUS
    <3>2. pc' \in [Workers -> Steps] /\ conn' \in [Workers -> Conns \cup {NoConn, Lost}]
      BY <2>8 DEF Crash, Steps, Ended
    <3> QED  BY <2>8, <3>1, <3>2 DEF Crash
  <2>9. ASSUME NEW c \in Conns, LoseConn(p, c) PROVE TypeOK'
    <3>1. conn' \in [Workers -> Conns \cup {NoConn, Lost}]  BY <2>9 DEF LoseConn
    <3> QED  BY <2>9, <3>1 DEF LoseConn, Fault
  <2>10. ASSUME NEW c \in Conns, RecycleConn(p, c) PROVE TypeOK'  BY <2>10 DEF RecycleConn
  <2> QED  BY <1>5, <2>1, <2>2, <2>3, <2>4, <2>5, <2>6, <2>7, <2>8, <2>9, <2>10 DEF ProcessStep
<1>6. CASE UNCHANGED vars
  BY <1>6 DEF vars
<1> QED  BY <1>1, <1>2, <1>3, <1>4, <1>5, <1>6 DEF Next

-----------------------------------------------------------------------------
(* The lock *)

\* At the start no session has the lock.
LEMMA LockInit == Init => LockInv
  BY NamesAssumption DEF Init, LockInv, Holding

\* A worker that gives the lock up takes nothing from the others.
LEMMA ReleaseKeeps ==
  ASSUME TypeOK, LockInv, NEW w \in Workers, Release(w), pc' = [pc EXCEPT ![w] = "done"]
  PROVE  LockInv'
<1> USE NamesAssumption DEF TypeOK, Holding
<1>1. conn' = [conn EXCEPT ![w] = NoConn]
  BY DEF Release
<1>2. \A v \in Workers : conn'[v] \in Conns => pc'[v] \in Holding
  BY <1>1 DEF LockInv
<1>3. ASSUME NEW v \in Workers, pc'[v] \in Holding
      PROVE  conn'[v] = Lost \/ (conn'[v] \in Conns /\ holder' = Session(v)')
  <2>1. v # w /\ conn'[v] = conn[v] /\ pc[v] \in Holding
    BY <1>1, <1>3
  <2>2. CASE conn[v] = Lost  BY <2>1, <2>2
  <2>3. CASE conn[v] \in Conns /\ holder = Session(v)
    <3>1. holder # Session(w)
      <4> SUFFICES ASSUME holder = Session(w) PROVE FALSE
        OBVIOUS
      <4>1. w[1] = v[1] /\ conn[w] = conn[v]
        BY <2>3 DEF Session
      <4> QED  BY <4>1, <2>1, <2>3 DEF LockInv
    <3> QED  BY <2>1, <2>3, <3>1 DEF Release, lock, Session
  <2> QED  BY <2>1, <2>2, <2>3 DEF LockInv
<1>4. \A v1, v2 \in Workers :
        v1[1] = v2[1] /\ conn'[v1] = conn'[v2] /\ conn'[v1] \in Conns => v1 = v2
  BY <1>1 DEF LockInv
<1>5. holder' # Nobody => depth' > 0
  <2>1. CASE holder = Session(w)
    <3>1. depth > 0  BY <2>1, HeldDepth
    <3> QED  BY <2>1, <3>1 DEF Release
  <2>2. CASE holder # Session(w)  BY <2>2 DEF Release, lock, LockInv
  <2> QED  BY <2>1, <2>2
<1> QED  BY <1>2, <1>3, <1>4, <1>5 DEF LockInv

\* A worker whose future is dropped leaves the lock as it is.
LEMMA DroppedKeeps ==
  ASSUME TypeOK, LockInv, NEW w \in Workers, Dropped(w)
  PROVE  LockInv'
<1> USE NamesAssumption DEF TypeOK, Holding, Dropped, Goto, lock
<1>1. conn' = [conn EXCEPT ![w] = NoConn] /\ pc' = [pc EXCEPT ![w] = "done"]
      /\ holder' = holder /\ depth' = depth
  OBVIOUS
<1> QED  BY <1>1 DEF LockInv, Session

\* What a step that neither enters nor leaves the lock preserves.
LEMMA OutsideKeeps ==
  ASSUME TypeOK, LockInv, UNCHANGED <<conn, holder, depth>>,
         \A w \in Workers : (pc'[w] \in Holding) = (pc[w] \in Holding)
  PROVE  LockInv'
  BY DEF LockInv, Session

\* Every step keeps a worker's connection its own, and the lock with its session.
LEMMA LockStep == TypeOK /\ LockInv /\ FreshInv /\ [Next]_vars => LockInv'
<1> SUFFICES ASSUME TypeOK, LockInv, FreshInv, [Next]_vars PROVE LockInv'
  OBVIOUS
<1> USE DEF lock
<1>1. ASSUME NEW w \in Workers, WorkerStep(w) PROVE LockInv'
  <2> USE DEF Works, Goto
  <2>1. CASE Load(w)  BY <2>1, OutsideKeeps DEF Load, Holding, TypeOK
  <2>2. CASE Flag(w)  BY <2>2, OutsideKeeps DEF Flag, Holding, TypeOK
  <2>3. CASE TryLock(w)
    <3>1. PICK c \in Idle(w[1]) :
            IF holder \in {Nobody, <<w[1], c>>}
            THEN /\ holder' = <<w[1], c>> /\ depth' = depth + 1
                 /\ conn' = [conn EXCEPT ![w] = c] /\ Goto(w, "setup")
            ELSE Goto(w, "passive") /\ UNCHANGED <<conn, lock>>
      BY <2>3 DEF TryLock
    <3>2. CASE holder \in {Nobody, <<w[1], c>>}
      <4>1. c \in Conns /\ \A v \in Workers : v[1] = w[1] => conn[v] # c
        BY DEF Idle
      <4>2. conn' = [conn EXCEPT ![w] = c] /\ pc' = [pc EXCEPT ![w] = "setup"]
            /\ holder' = <<w[1], c>> /\ depth' = depth + 1
        BY <3>1, <3>2
      <4>3. \A v \in Workers : conn'[v] \in Conns => pc'[v] \in Holding
        BY <4>1, <4>2 DEF LockInv, Holding, TypeOK
      <4>4. ASSUME NEW v \in Workers, pc'[v] \in Holding
            PROVE  conn'[v] = Lost \/ (conn'[v] \in Conns /\ holder' = Session(v)')
        <5>1. CASE v = w  BY <5>1, <4>1, <4>2 DEF Session, TypeOK
        <5>2. CASE v # w
          <6>1. pc[v] \in Holding /\ conn'[v] = conn[v]
            BY <4>2, <4>4, <5>2 DEF TypeOK
          <6>2. conn[v] \in Conns => holder = <<v[1], conn[v]>>
            BY <6>1, NamesAssumption DEF LockInv, Session
          <6>3. conn[v] \in Conns => holder # Nobody
            BY <6>2, NobodyAssumption DEF Workers
          <6>4. conn[v] \notin Conns
            BY <3>2, <6>2, <6>3, <4>1
          <6> QED  BY <6>1, <6>4 DEF LockInv
        <5> QED  BY <5>1, <5>2
      <4>5. \A v1, v2 \in Workers :
              v1[1] = v2[1] /\ conn'[v1] = conn'[v2] /\ conn'[v1] \in Conns => v1 = v2
        BY <4>1, <4>2 DEF LockInv, TypeOK
      <4>6. depth' > 0  BY <4>2 DEF TypeOK
      <4> QED  BY <4>3, <4>4, <4>5, <4>6 DEF LockInv
    <3>3. CASE holder \notin {Nobody, <<w[1], c>>}
      BY <2>3, <3>1, <3>3, OutsideKeeps DEF TryLock, Holding, TypeOK
    <3> QED  BY <3>2, <3>3
  <2>4. CASE Passive(w)  BY <2>4, OutsideKeeps DEF Passive, Holding, TypeOK
  <2>5. CASE Setup(w)
    <3>1. CASE row = "present"  BY <2>5, <3>1, OutsideKeeps DEF Setup, Holding, TypeOK
    <3>2. CASE row # "present"  BY <2>5, <3>2, ReleaseKeeps DEF Setup
    <3> QED  BY <3>1, <3>2
  <2>6. CASE LeaveLoop(w)  BY <2>6, OutsideKeeps DEF LeaveLoop, Holding, TypeOK
  <2>7. CASE Exit(w)  BY <2>7, ReleaseKeeps DEF Exit
  <2> QED  BY <1>1, <2>1, <2>2, <2>3, <2>4, <2>5, <2>6, <2>7 DEF WorkerStep
<1>2. ASSUME NEW w \in Workers, WorkerFault(w) PROVE LockInv'
  <2>1. CASE QueryFails(w)  BY <2>1, OutsideKeeps DEF QueryFails, Works, Goto, Holding, TypeOK
  <2>2. CASE SetupFails(w)  BY <2>2, ReleaseKeeps DEF SetupFails, Goto
  <2>3. CASE Panic(w)  BY <2>3, DroppedKeeps DEF Panic
  <2>4. CASE Hang(w)  BY <2>4, OutsideKeeps DEF Hang
  <2> QED  BY <1>2, <2>1, <2>2, <2>3, <2>4 DEF WorkerFault
<1>3. ASSUME NEW w \in Workers, Abort(w) PROVE LockInv'
  BY <1>3, DroppedKeeps DEF Abort
<1>4. ASSUME NEW w \in Workers, LoopsEnd(w) PROVE LockInv'
  BY <1>4, OutsideKeeps DEF LoopsEnd
<1>5. ASSUME NEW p \in Procs, ProcessStep(p) PROVE LockInv'
  <2>1. CASE StartWorker(p)
    <3>1. UNCHANGED <<conn, holder, depth>>  BY <2>1 DEF StartWorker
    <3>2. \A w \in Workers : (pc'[w] \in Holding) = (pc[w] \in Holding)
      <4>1. CASE UNCHANGED pc  BY <4>1
      <4>2. CASE pc' = [pc EXCEPT ![Worker(p, gen[p] + 1)] = "load"] /\ gen[p] < MaxGens
        <5>1. Worker(p, gen[p] + 1) \in Workers /\ pc[Worker(p, gen[p] + 1)] = "none"
          BY <4>2, BoundsAssumption DEF FreshInv, Worker, Workers, TypeOK
        <5> QED  BY <4>2, <5>1 DEF Holding, TypeOK
      <4> QED  BY <2>1, <4>1, <4>2 DEF StartWorker, Goto
    <3> QED  BY <3>1, <3>2, OutsideKeeps
  <2>2. CASE StopWorker(p)  BY <2>2, OutsideKeeps DEF StopWorker
  <2>3. CASE Send(p)  BY <2>3, OutsideKeeps DEF Send, tasks
  <2>4. CASE Abandon(p)  BY <2>4, OutsideKeeps DEF Abandon, tasks
  <2>5. CASE SaveCredentials(p)  BY <2>5, OutsideKeeps DEF SaveCredentials, tasks
  <2>6. CASE DeleteVehicle(p)  BY <2>6, OutsideKeeps DEF DeleteVehicle, tasks
  <2>7. CASE Boot(p)  BY <2>7, OutsideKeeps DEF Boot, tasks
  <2>8. CASE Crash(p)
    <3>1. /\ pc' = [w \in Workers |-> IF w[1] = p /\ pc[w] # "none" THEN "done" ELSE pc[w]]
          /\ conn' = [w \in Workers |-> IF w[1] = p THEN NoConn ELSE conn[w]]
          /\ IF \E c \in Conns : holder = <<p, c>>
             THEN holder' = Nobody /\ depth' = 0
             ELSE UNCHANGED lock
      BY <2>8 DEF Crash
    <3>2. \A w \in Workers : conn'[w] \in Conns => pc'[w] \in Holding
      BY <3>1, NamesAssumption DEF LockInv
    <3>3. ASSUME NEW w \in Workers, pc'[w] \in Holding
          PROVE  conn'[w] = Lost \/ (conn'[w] \in Conns /\ holder' = Session(w)')
      <4>1. w[1] # p /\ pc[w] \in Holding /\ conn'[w] = conn[w]
        BY <3>1, <3>3 DEF Holding
      <4>2. holder = Session(w) => holder' = holder
        BY <3>1, <4>1 DEF Session
      <4> QED  BY <4>1, <4>2 DEF LockInv, Session
    <3>4. \A v1, v2 \in Workers :
            v1[1] = v2[1] /\ conn'[v1] = conn'[v2] /\ conn'[v1] \in Conns => v1 = v2
      BY <3>1, NamesAssumption DEF LockInv
    <3>5. holder' # Nobody => depth' > 0
      BY <3>1 DEF LockInv
    <3> QED  BY <3>2, <3>3, <3>4, <3>5 DEF LockInv
  <2>9. ASSUME NEW c \in Conns, LoseConn(p, c) PROVE LockInv'
    <3>1. /\ holder = <<p, c>> /\ holder' = Nobody /\ pc' = pc
          /\ conn' = [w \in Workers |-> IF w[1] = p /\ conn[w] = c THEN Lost ELSE conn[w]]
      BY <2>9 DEF LoseConn
    <3>2. \A w \in Workers : pc'[w] \in Holding => conn'[w] = Lost
      BY <3>1 DEF LockInv, Session
    <3> QED  BY <3>1, <3>2, NamesAssumption DEF LockInv
  <2>10. ASSUME NEW c \in Conns, RecycleConn(p, c) PROVE LockInv'
    <3>1. /\ holder = <<p, c>> /\ holder' = Nobody /\ pc' = pc /\ conn' = conn
          /\ \A w \in Workers : w[1] = p => conn[w] # c
      BY <2>10 DEF RecycleConn, Idle, tasks
    <3>2. \A w \in Workers : pc'[w] \in Holding => conn'[w] = Lost
      BY <3>1 DEF LockInv, Session
    <3> QED  BY <3>1, <3>2 DEF LockInv
  <2> QED  BY <1>5, <2>1, <2>2, <2>3, <2>4, <2>5, <2>6, <2>7, <2>8, <2>9, <2>10 DEF ProcessStep
<1>6. CASE UNCHANGED vars
  BY <1>6, OutsideKeeps DEF vars, tasks
<1> QED  BY <1>1, <1>2, <1>3, <1>4, <1>5, <1>6 DEF Next

-----------------------------------------------------------------------------
(* Spawning, and reach *)

\* Only StartWorker begins a worker, and it counts it.
LEMMA FreshStep == TypeOK /\ FreshInv /\ [Next]_vars => FreshInv'
<1> SUFFICES ASSUME TypeOK, FreshInv, [Next]_vars PROVE FreshInv'
  OBVIOUS
<1> USE DEF TypeOK, FreshInv, supervisor, tasks
<1>1. ASSUME NEW w \in Workers, WorkerStep(w) \/ WorkerFault(w) \/ Abort(w) \/ LoopsEnd(w)
      PROVE  FreshInv'
  <2>1. gen' = gen
    BY <1>1 DEF WorkerStep, WorkerFault, Load, Flag, TryLock, Passive, Setup, LeaveLoop, Exit,
                QueryFails, SetupFails, Panic, Hang, Abort, Dropped, LoopsEnd
  <2>2. pc' = pc \/ (pc[w] # "none" /\ \E step \in Steps : pc' = [pc EXCEPT ![w] = step])
    BY <1>1 DEF WorkerStep, WorkerFault, Load, Flag, TryLock, Passive, Setup, LeaveLoop, Exit,
                QueryFails, SetupFails, Panic, Hang, Abort, Dropped, LoopsEnd, Works, Goto,
                Steps, Holding, Ended
  <2> QED  BY <2>1, <2>2
<1>2. ASSUME NEW p \in Procs, ProcessStep(p) PROVE FreshInv'
  <2>1. CASE StartWorker(p)
    <3>1. CASE UNCHANGED <<gen, pc>>  BY <3>1
    <3>2. CASE /\ gen' = [gen EXCEPT ![p] = gen[p] + 1]
               /\ pc' = [pc EXCEPT ![Worker(p, gen[p] + 1)] = "load"]
      <4> SUFFICES ASSUME NEW w \in Workers, gen'[w[1]] < w[2] PROVE pc'[w] = "none"
        OBVIOUS
      <4>1. w # Worker(p, gen[p] + 1) /\ gen[w[1]] < w[2]
        BY <3>2 DEF Worker, Workers
      <4> QED  BY <3>2, <4>1
    <3> QED  BY <2>1, <3>1, <3>2 DEF StartWorker, Goto
  <2>2. CASE Crash(p)  BY <2>2 DEF Crash
  <2>3. CASE UNCHANGED <<gen, pc>>  BY <2>3
  <2> QED
    BY <1>2, <2>1, <2>2, <2>3 DEF ProcessStep, StopWorker, Send, Abandon, SaveCredentials,
       DeleteVehicle, Boot, LoseConn, RecycleConn
<1>3. CASE UNCHANGED vars
  BY <1>3 DEF vars
<1> QED  BY <1>1, <1>2, <1>3 DEF Next

\* A task that was not told to stop stays the one in the map.
LEMMA ReachStep == TypeOK /\ Reachable /\ [Next]_vars => Reachable'
<1> SUFFICES ASSUME TypeOK, Reachable, [Next]_vars PROVE Reachable'
  OBVIOUS
<1> USE DEF TypeOK, Reachable, supervisor, tasks
<1>1. ASSUME NEW w \in Workers, WorkerStep(w) \/ WorkerFault(w) \/ Abort(w) \/ LoopsEnd(w)
      PROVE  Reachable'
  <2>1. slot' = slot /\ told' = told
    BY <1>1 DEF WorkerStep, WorkerFault, Load, Flag, TryLock, Passive, Setup, LeaveLoop, Exit,
                QueryFails, SetupFails, Panic, Hang, Abort, Dropped, LoopsEnd
  <2>2. \/ pc' = pc
        \/ pc[w] \notin Ended /\ \E step \in Steps : pc' = [pc EXCEPT ![w] = step]
    BY <1>1 DEF WorkerStep, WorkerFault, Load, Flag, TryLock, Passive, Setup, LeaveLoop, Exit,
                QueryFails, SetupFails, Panic, Hang, Abort, Dropped, LoopsEnd, Works, Goto,
                Steps, Holding, Ended
  <2>3. loops' \subseteq loops \/ (pc[w] \notin Ended /\ loops' = loops \cup {w})
    BY <1>1 DEF WorkerStep, WorkerFault, Load, Flag, TryLock, Passive, Setup, LeaveLoop, Exit,
                QueryFails, SetupFails, Panic, Hang, Abort, Dropped, LoopsEnd, Works, Goto,
                Ended
  <2> QED  BY <2>1, <2>2, <2>3
<1>2. ASSUME NEW p \in Procs, ProcessStep(p) PROVE Reachable'
  <2>1. CASE StartWorker(p)
    <3>1. CASE UNCHANGED <<slot, pc, told>>  BY <2>1, <3>1 DEF StartWorker
    <3>2. CASE /\ slot' = [slot EXCEPT ![p] = gen[p] + 1]
               /\ pc' = [pc EXCEPT ![Worker(p, gen[p] + 1)] = "load"]
               /\ told' = IF slot[p] = 0 THEN told ELSE told \cup {Worker(p, slot[p])}
      <4> SUFFICES ASSUME NEW w \in Workers, pc'[w] \notin Ended \/ w \in loops', w \notin told'
                   PROVE  slot'[w[1]] = w[2]
        OBVIOUS
      <4>1. loops' = loops  BY <2>1 DEF StartWorker
      <4>2. CASE w = Worker(p, gen[p] + 1)  BY <3>2, <4>2 DEF Worker
      <4>3. CASE w # Worker(p, gen[p] + 1)
        <5>1. slot[w[1]] = w[2]  BY <3>2, <4>1, <4>3
        <5>2. w[1] # p
          BY <3>2, <5>1 DEF Worker, Workers
        <5> QED  BY <3>2, <5>1, <5>2 DEF Workers
      <4> QED  BY <4>2, <4>3
    <3> QED  BY <2>1, <3>1, <3>2 DEF StartWorker, Goto
  <2>2. CASE StopWorker(p)
    <3>1. /\ slot' = [slot EXCEPT ![p] = 0] /\ UNCHANGED <<pc, loops>>
          /\ told' = IF slot[p] = 0 THEN told ELSE told \cup {Worker(p, slot[p])}
      BY <2>2 DEF StopWorker
    <3> SUFFICES ASSUME NEW w \in Workers, pc'[w] \notin Ended \/ w \in loops', w \notin told'
                 PROVE  slot'[w[1]] = w[2]
      OBVIOUS
    <3>2. slot[w[1]] = w[2]  BY <3>1
    <3>3. w[1] # p  BY <3>1, <3>2 DEF Worker, Workers
    <3> QED  BY <3>1, <3>2, <3>3 DEF Workers
  <2>3. CASE Crash(p)
    <3>1. /\ slot' = [slot EXCEPT ![p] = 0] /\ told' = told
          /\ pc' = [w \in Workers |-> IF w[1] = p /\ pc[w] # "none" THEN "done" ELSE pc[w]]
          /\ loops' = {w \in loops : w[1] # p}
      BY <2>3 DEF Crash
    <3> QED  BY <3>1 DEF Ended, Workers
  <2>4. CASE UNCHANGED <<slot, pc, told, loops>>  BY <2>4
  <2> QED
    BY <1>2, <2>1, <2>2, <2>3, <2>4 DEF ProcessStep, Send, Abandon, SaveCredentials,
       DeleteVehicle, Boot, LoseConn, RecycleConn
<1>3. CASE UNCHANGED vars
  BY <1>3 DEF vars
<1> QED  BY <1>1, <1>2, <1>3 DEF Next

-----------------------------------------------------------------------------

\* In every reachable state the lock, the generations and the registries agree.
LEMMA LockInvariant == Spec => [](TypeOK /\ LockInv /\ FreshInv /\ Reachable)
<1> DEFINE IInv == TypeOK /\ LockInv /\ FreshInv /\ Reachable
<1>1. Init => IInv
  BY TypeInit, LockInit DEF Init, FreshInv, Reachable, Ended
<1>2. IInv /\ [Next]_vars => IInv'
  BY TypeStep, LockStep, FreshStep, ReachStep
<1> QED  BY <1>1, <1>2, PTL DEF Spec

\* One worker at most collects with its lock, and every task that runs can still be
\* stopped, however many processes and workers there are and whatever fails.
THEOREM WorkersCorrect == Spec => []WorkersInv
<1>1. TypeOK /\ LockInv /\ FreshInv /\ Reachable => WorkersInv
  <2> SUFFICES ASSUME TypeOK, LockInv, Reachable PROVE OneCollector
    BY DEF WorkersInv
  <2> SUFFICES ASSUME NEW w1 \in Workers, NEW w2 \in Workers,
                      pc[w1] \in Holding, pc[w2] \in Holding, conn[w1] # Lost, conn[w2] # Lost
               PROVE  w1 = w2
    BY DEF OneCollector
  <2>1. holder = <<w1[1], conn[w1]>> /\ holder = <<w2[1], conn[w2]>> /\ conn[w1] \in Conns
    BY DEF LockInv, Session
  <2>2. w1[1] = w2[1] /\ conn[w1] = conn[w2]
    BY <2>1
  <2> QED  BY <2>1, <2>2 DEF LockInv
<1> QED  BY <1>1, LockInvariant, PTL

-----------------------------------------------------------------------------
(* Credentials *)

\* needs_reauth is withdrawn by saved credentials only, whichever worker writes its health
\* when.
THEOREM ReauthStands == Spec => OnlySavingClearsReauth
<1> DEFINE Kept == auth = "needs_reauth" /\ auth' = "authorized" => refreshes' > refreshes
<1>1. TypeOK /\ [Next]_vars => [Kept]_vars
  <2> SUFFICES ASSUME TypeOK, [Next]_vars, auth = "needs_reauth", auth' = "authorized"
               PROVE  refreshes' > refreshes
    OBVIOUS
  <2>1. ASSUME NEW w \in Workers, WorkerStep(w) \/ WorkerFault(w) \/ Abort(w) \/ LoopsEnd(w)
        PROVE  auth' # "authorized"
    BY <2>1 DEF vehicle, WorkerStep, WorkerFault, Load, Flag, TryLock, Passive, Setup, LeaveLoop,
       Exit, QueryFails, SetupFails, Panic, Hang, Abort, Dropped, LoopsEnd, UpsertAuth
  <2>2. ASSUME NEW p \in Procs, ProcessStep(p), ~SaveCredentials(p)
        PROVE  auth' = auth
    BY <2>2 DEF vehicle, ProcessStep, StartWorker, StopWorker, Send, Abandon, DeleteVehicle, Boot,
       Crash, LoseConn, RecycleConn
  <2>3. ASSUME NEW p \in Procs, SaveCredentials(p)
        PROVE  refreshes' > refreshes
    BY <2>3 DEF SaveCredentials, TypeOK
  <2>4. CASE UNCHANGED vars
    BY <2>4 DEF vars, vehicle
  <2> QED  BY <2>1, <2>2, <2>3, <2>4 DEF Next
<1>2. Spec => []TypeOK
  <2>1. WorkersInv => TypeOK
    BY DEF WorkersInv
  <2> QED  BY <2>1, WorkersCorrect, PTL
<1> QED  BY <1>1, <1>2, PTL DEF Spec, OnlySavingClearsReauth

-----------------------------------------------------------------------------
(* The abstract lock *)

\* The owner of a session is unique.
LEMMA OwnerIs ==
  ASSUME NEW h \in (Procs \X Conns) \cup {Nobody},
         NEW c \in [Workers -> Conns \cup {NoConn, Lost}],
         \A w1, w2 \in Workers : w1[1] = w2[1] /\ c[w1] = c[w2] /\ c[w1] \in Conns => w1 = w2
  PROVE  /\ h = Nobody => OwnerOf(h, c) = Nobody
         /\ \A w \in Workers : h = <<w[1], c[w]>> => OwnerOf(h, c) = w
         /\ h # Nobody /\ (\A w \in Workers : h # <<w[1], c[w]>>) => OwnerOf(h, c) = Leaked
<1>1. ASSUME NEW w \in Workers, h = <<w[1], c[w]>> PROVE OwnerOf(h, c) = w
  <2>1. h # Nobody
    BY <1>1, NobodyAssumption DEF Workers
  <2>2. c[w] \in Conns
    BY <1>1, <2>1
  <2>3. \A v \in Workers : h = <<v[1], c[v]>> => v = w
    BY <1>1, <2>2
  <2> QED  BY <1>1, <2>1, <2>3 DEF OwnerOf
<1> QED  BY <1>1 DEF OwnerOf

\* What the mapping gives in a state of the program.
LEMMA OwnerNow ==
  ASSUME TypeOK, LockInv
  PROVE  /\ holder = Nobody => Owner = Nobody
         /\ \A w \in Workers : holder = Session(w) => Owner = w
         /\ holder # Nobody /\ (\A w \in Workers : holder # Session(w)) => Owner = Leaked
         /\ Owner \in Workers \cup {Nobody, Leaked}
<1>1. /\ holder = Nobody => Owner = Nobody
      /\ \A w \in Workers : holder = Session(w) => Owner = w
      /\ holder # Nobody /\ (\A w \in Workers : holder # Session(w)) => Owner = Leaked
  BY OwnerIs DEF Owner, Session, TypeOK, LockInv
<1> QED  BY <1>1

\* The same of the next state.
LEMMA OwnerNext ==
  ASSUME TypeOK', LockInv'
  PROVE  /\ holder' = Nobody => Owner' = Nobody
         /\ \A w \in Workers : holder' = <<w[1], conn'[w]>> => Owner' = w
         /\ holder' # Nobody /\ (\A w \in Workers : holder' # <<w[1], conn'[w]>>)
               => Owner' = Leaked
  BY OwnerIs DEF Owner, Session, TypeOK, LockInv

\* A lock that nobody has afterwards was given up, has expired or was free.
LEMMA FreedStep ==
  ASSUME TypeOK, LockInv, TypeOK', LockInv', holder' = Nobody
  PROVE  [Collector!Next]_Owner
  BY OwnerNow, OwnerNext DEF Collector!Next, Collector!GiveUp, Collector!Expire

\* A worker that lets its connection go leaks the lock, or did not have it.
LEMMA DropStep ==
  ASSUME TypeOK, LockInv, TypeOK', LockInv', NEW w \in Workers,
         conn' = [conn EXCEPT ![w] = NoConn], holder' = holder
  PROVE  [Collector!Next]_Owner
<1> USE DEF TypeOK
<1>1. CASE holder = Nobody
  BY <1>1, OwnerNow, OwnerNext
<1>2. CASE holder # Nobody /\ holder = Session(w)
  <2>1. Owner = w  BY <1>2, OwnerNow
  <2>2. conn[w] \in Conns
    BY <1>2 DEF Session
  <2>3. \A v \in Workers : holder # <<v[1], conn'[v]>>
    <3> SUFFICES ASSUME NEW v \in Workers, holder = <<v[1], conn'[v]>> PROVE FALSE
      OBVIOUS
    <3>1. v # w  BY <2>2, <1>2, NamesAssumption DEF Session
    <3>2. v[1] = w[1] /\ conn[v] = conn[w]  BY <1>2, <3>1 DEF Session
    <3> QED  BY <2>2, <3>1, <3>2 DEF LockInv
  <2>4. Owner' = Leaked  BY <1>2, <2>3, OwnerNext
  <2> QED  BY <2>1, <2>4 DEF Collector!Next, Collector!GiveUp
<1>3. CASE holder # Nobody /\ holder # Session(w)
  <2>1. \A v \in Workers : (holder' = <<v[1], conn'[v]>>) = (holder = Session(v))
    <3>1. holder # <<w[1], conn'[w]>>
      BY <1>3, NamesAssumption
    <3> QED  BY <1>3, <3>1 DEF Session
  <2>2. Owner' = Owner
    <3>1. CASE \E v \in Workers : holder = Session(v)
      <4>1. PICK v \in Workers : holder = Session(v)
        BY <3>1
      <4>2. Owner = v
        BY <1>3, <4>1, OwnerNow
      <4>3. holder' = <<v[1], conn'[v]>>
        BY <2>1, <4>1
      <4>4. Owner' = v
        BY <1>3, <4>3, OwnerNext
      <4> QED
        BY <4>2, <4>4
    <3>2. CASE \A v \in Workers : holder # Session(v)
      BY <1>3, <2>1, <3>2, OwnerNow, OwnerNext
    <3> QED  BY <3>1, <3>2
  <2> QED  BY <2>2
<1> QED  BY <1>1, <1>2, <1>3

\* Steps that touch neither the lock nor a connection.
LEMMA SameOwner ==
  ASSUME UNCHANGED <<conn, holder>>
  PROVE  [Collector!Next]_Owner
  BY DEF Owner

\* A worker that gives its connection up frees the abstract lock, or leaks it, or had none.
LEMMA ReleaseStep ==
  ASSUME TypeOK, LockInv, TypeOK', LockInv', NEW w \in Workers, Release(w)
  PROVE  [Collector!Next]_Owner
<1>1. holder' = Nobody \/ holder' = holder
  BY DEF Release, lock
<1>2. conn' = [conn EXCEPT ![w] = NoConn]
  BY DEF Release
<1> QED  BY <1>1, <1>2, FreedStep, DropStep

\* Every step of the workers is a step of the abstract lock or leaves it alone.
LEMMA CollectorStep ==
  ASSUME TypeOK, LockInv, TypeOK', LockInv', [Next]_vars
  PROVE  [Collector!Next]_Owner
<1> USE DEF lock, tasks
<1>1. ASSUME NEW w \in Workers, WorkerStep(w) PROVE [Collector!Next]_Owner
  <2>1. CASE TryLock(w)
    <3>1. PICK c \in Idle(w[1]) :
            IF holder \in {Nobody, <<w[1], c>>}
            THEN /\ holder' = <<w[1], c>> /\ depth' = depth + 1
                 /\ conn' = [conn EXCEPT ![w] = c] /\ Goto(w, "setup")
            ELSE Goto(w, "passive") /\ UNCHANGED <<conn, lock>>
      BY <2>1 DEF TryLock
    <3>2. CASE holder \in {Nobody, <<w[1], c>>}
      <4>1. c \in Conns /\ \A v \in Workers : v[1] = w[1] => conn[v] # c
        BY DEF Idle
      <4>2. holder # Nobody => \A v \in Workers : holder # Session(v)
        BY <3>2, <4>1 DEF Session
      <4>3. Owner \in {Nobody, Leaked}
        BY <4>2, OwnerNow
      <4>4. holder' = <<w[1], conn'[w]>>
        BY <3>1, <3>2 DEF TypeOK
      <4>5. Owner' = w
        BY <4>4, OwnerNext
      <4> QED  BY <4>3, <4>5 DEF Collector!Next, Collector!Take
    <3>3. CASE holder \notin {Nobody, <<w[1], c>>}
      BY <3>1, <3>3, SameOwner
    <3> QED  BY <3>2, <3>3
  <2>2. CASE Setup(w)
    <3>1. CASE row = "present"  BY <2>2, <3>1, SameOwner DEF Setup
    <3>2. CASE row # "present"  BY <2>2, <3>2, ReleaseStep DEF Setup
    <3> QED  BY <3>1, <3>2
  <2>3. CASE Exit(w)  BY <2>3, ReleaseStep DEF Exit
  <2>4. CASE Load(w) \/ Flag(w) \/ Passive(w) \/ LeaveLoop(w)
    BY <2>4, SameOwner DEF Load, Flag, Passive, LeaveLoop
  <2> QED  BY <1>1, <2>1, <2>2, <2>3, <2>4 DEF WorkerStep
<1>2. ASSUME NEW w \in Workers, WorkerFault(w) PROVE [Collector!Next]_Owner
  <2>1. CASE SetupFails(w)  BY <2>1, ReleaseStep DEF SetupFails
  <2>2. CASE Panic(w)  BY <2>2, DropStep DEF Panic, Dropped
  <2>3. CASE QueryFails(w) \/ Hang(w)  BY <2>3, SameOwner DEF QueryFails, Hang
  <2> QED  BY <1>2, <2>1, <2>2, <2>3 DEF WorkerFault
<1>3. ASSUME NEW w \in Workers, Abort(w) PROVE [Collector!Next]_Owner
  BY <1>3, DropStep DEF Abort, Dropped
<1>4. ASSUME NEW w \in Workers, LoopsEnd(w) PROVE [Collector!Next]_Owner
  BY <1>4, SameOwner DEF LoopsEnd
<1>5. ASSUME NEW p \in Procs, ProcessStep(p) PROVE [Collector!Next]_Owner
  <2>1. CASE Crash(p)
    <3>1. CASE \E c \in Conns : holder = <<p, c>>
      BY <2>1, <3>1, FreedStep DEF Crash
    <3>2. CASE ~\E c \in Conns : holder = <<p, c>>
      <4>1. holder' = holder
            /\ conn' = [w \in Workers |-> IF w[1] = p THEN NoConn ELSE conn[w]]
        BY <2>1, <3>2 DEF Crash
      <4>2. CASE holder = Nobody
        BY <4>1, <4>2, OwnerNow, OwnerNext
      <4>3. CASE holder # Nobody
        <5>1. \A w \in Workers : (holder' = <<w[1], conn'[w]>>) = (holder = Session(w))
          <6> SUFFICES ASSUME NEW w \in Workers
                       PROVE  (holder' = <<w[1], conn'[w]>>) = (holder = Session(w))
            OBVIOUS
          <6>1. PICK q \in Procs, c \in Conns : holder = <<q, c>>
            BY <4>3 DEF TypeOK
          <6>2. CASE w[1] = p  BY <3>2, <4>1, <6>1, <6>2 DEF Session
          <6>3. CASE w[1] # p  BY <4>1, <6>3 DEF Session
          <6> QED  BY <6>2, <6>3
        <5>2. CASE \E w \in Workers : holder = Session(w)
          BY <5>1, <5>2, OwnerNow, OwnerNext
        <5>3. CASE \A w \in Workers : holder # Session(w)
          BY <4>1, <4>3, <5>1, <5>3, OwnerNow, OwnerNext
        <5> QED  BY <5>2, <5>3
      <4> QED  BY <4>2, <4>3
    <3> QED  BY <3>1, <3>2
  <2>2. ASSUME NEW c \in Conns, LoseConn(p, c) \/ RecycleConn(p, c)
        PROVE  [Collector!Next]_Owner
    BY <2>2, FreedStep DEF LoseConn, RecycleConn
  <2>3. CASE UNCHANGED <<conn, holder>>
    BY <2>3, SameOwner
  <2> QED
    BY <1>5, <2>1, <2>2, <2>3 DEF ProcessStep, StartWorker, StopWorker, Send, Abandon,
       SaveCredentials, DeleteVehicle, Boot
<1>6. CASE UNCHANGED vars
  BY <1>6, SameOwner DEF vars
<1> QED  BY <1>1, <1>2, <1>3, <1>4, <1>5, <1>6 DEF Next

\* The workers, their pools and the database's sessions implement the abstract lock: it
\* passes from one worker to another only after it was given up. (That a leaked lock does
\* not stay so is a matter of fairness, and of the run.)
THEOREM ImplementsLock == Spec => Collector!Spec
<1>1. Init => Collector!Init
  BY DEF Init, Collector!Init, Owner, OwnerOf
<1>2. TypeOK /\ LockInv /\ TypeOK' /\ LockInv' /\ [Next]_vars => [Collector!Next]_Owner
  BY CollectorStep
<1>3. Spec => [](TypeOK /\ LockInv)
  BY LockInvariant, PTL
<1> QED  BY <1>1, <1>2, <1>3, PTL DEF Spec, Collector!Spec

-----------------------------------------------------------------------------
(* The history that a worker writes *)

CONSTANTS Frames, MaxTime, MaxSessions, MaxFrames, MergeGap, ChargeTimeout, Staleness,
          StateLookback
VARIABLES now, rows, sessions, periods, step, det, latest, frame, ended, lastId, received,
          restarts, failures, repair

\* The two modules look at one worker with the same bounds, each in steps of its own.
H == INSTANCE VehicleHistory WITH pc <- step, crashes <- restarts, faults <- failures

\* The steps that have a frame in hand.
FramePcs == {"ensure", "write", "period", "persist"}

\* Periods are periods, and the frame in hand has a time. What VehicleHistory assumes of its
\* instants is a part of it, so that every step has it.
TimelineInv ==
    /\ H!TimesAssumption
    /\ periods \in Seq(H!TL!Periods)
    /\ step \in FramePcs => frame.ts \in H!Times

-----------------------------------------------------------------------------
(* The history that a worker writes: its instants *)

\* A set of instants that is not empty has a last one, which Max chooses: otherwise the
\* sets of its instants after one of them would descend for ever.
LEMMA LastInstant ==
  ASSUME H!TimesAssumption, NEW S \in SUBSET H!Times, S # {}
  PROVE  H!Max(S) \in S /\ \A u \in S : u <= H!Max(S)
<1>1. MaxTime \in Nat
  BY DEF H!TimesAssumption
<1>2. IsFiniteSet(S)
  <2>1. IsFiniteSet(1 .. MaxTime)
    BY <1>1, FS_Interval
  <2> QED  BY <2>1, FS_Subset DEF H!Times
<1>3. IsWellFoundedOn(StrictSubsetOrdering(S), FiniteSubsetsOf(S))
  BY FS_StrictSubsetOrderingWellFounded
<1> DEFINE After(t) == {u \in S : u > t}
           Rests == {After(t) : t \in S}
<1>4. Rests \subseteq FiniteSubsetsOf(S) /\ Rests # {}
  <2>1. FiniteSubsetsOf(S) = SUBSET S
    BY <1>2, FS_FiniteSubsetsOfFinite
  <2>2. ASSUME NEW t \in S PROVE After(t) \in SUBSET S
    OBVIOUS
  <2>3. PICK t \in S : TRUE
    OBVIOUS
  <2>4. After(t) \in Rests
    OBVIOUS
  <2> HIDE DEF After
  <2> QED  BY <2>1, <2>2, <2>4
<1>5. PICK T \in Rests : \A U \in Rests : <<U, T>> \notin StrictSubsetOrdering(S)
  <2> HIDE DEF Rests
  <2> QED  BY <1>3, <1>4, WFMin
<1>6. PICK t \in S : T = After(t)
  BY <1>5
<1>7. S \subseteq Int
  BY <1>1 DEF H!Times
<1>8. ASSUME NEW u \in S, u > t PROVE FALSE
  <2>1. u \in After(t)
    BY <1>8
  <2>2. u \notin After(u)
    BY <1>7
  <2>3. \A v \in S : v > u => v > t
    BY <1>7, <1>8
  <2>4. After(u) \subseteq After(t)
    BY <2>3
  <2>5. <<After(u), After(t)>> \in StrictSubsetOrdering(S)
    BY <2>1, <2>2, <2>4 DEF StrictSubsetOrdering
  <2> QED  BY <1>5, <1>6, <2>5
<1>9. \E m \in S : \A u \in S : m >= u
  BY <1>7, <1>8
<1>10. H!Max(S) \in S /\ \A u \in S : H!Max(S) >= u
  BY <1>9 DEF H!Max
<1> QED  BY <1>7, <1>10

\* A row's readings tell one of the timeline's states.
LEMMA InferredState ==
  ASSUME NEW r
  PROVE  H!Infer(r) \in H!States
BY DEF H!Infer, H!States

-----------------------------------------------------------------------------
(* The timeline *)

\* Transition begins the timeline, appends to it as StateTimeline allows, or leaves it.
LEMMA TransitionStep ==
  ASSUME H!TimesAssumption, periods \in Seq(H!TL!Periods),
         NEW s \in H!States, NEW t \in H!Times,
         periods' = H!Transition(periods, s, t)
  PROVE  periods' \in Seq(H!TL!Periods) /\ (H!TL!Next \/ UNCHANGED periods)
<1>1. H!Times \subseteq Int /\ MaxTime \in Nat
  BY DEF H!TimesAssumption, H!Times
<1>2. H!Opened(s, t) \in H!TL!Periods
  BY DEF H!Opened, H!TL!Periods, H!TL!Ongoing, H!Ongoing
<1>3. CASE periods = <<>>
  <2>1. periods' = <<H!Opened(s, t)>>
    BY <1>3 DEF H!Transition
  <2>2. H!TL!Begin(s, t)
    BY <1>3, <2>1 DEF H!TL!Begin, H!Opened, H!TL!Ongoing, H!Ongoing
  <2> QED  BY <1>2, <2>1, <2>2 DEF H!TL!Next
<1>4. CASE periods # <<>> /\ (H!Last(periods).state = s \/ t < H!Last(periods).from)
  BY <1>4 DEF H!Transition
<1>5. CASE periods # <<>> /\ ~(H!Last(periods).state = s \/ t < H!Last(periods).from)
  <2>1. periods' = Append([periods EXCEPT ![Len(periods)].to = t], H!Opened(s, t))
    BY <1>5 DEF H!Transition
  <2>2. Len(periods) \in 1 .. Len(periods)
    BY <1>5
  <2>3. H!Last(periods) \in H!TL!Periods
    BY <2>2 DEF H!Last
  <2>4. H!Last(periods).from \in H!Times
    BY <2>3 DEF H!TL!Periods
  <2>5. t >= H!Last(periods).from
    <3>1. PICK begun \in H!Times : begun = H!Last(periods).from
      BY <2>4
    <3>2. ~(t < begun)
      BY <1>5, <3>1
    <3>3. t >= begun
      BY <1>1, <3>2
    <3> QED  BY <3>1, <3>3
  <2>6. H!TL!Change(s, t)
    BY <1>5, <2>1, <2>5 DEF H!TL!Change, H!TL!Current, H!Last, H!Opened, H!TL!Ongoing, H!Ongoing
  <2>7. [periods EXCEPT ![Len(periods)].to = t] \in Seq(H!TL!Periods)
    <3>1. [H!Last(periods) EXCEPT !.to = t] \in H!TL!Periods
      BY <2>3 DEF H!TL!Periods
    <3> QED  BY <2>2, <3>1 DEF H!Last
  <2>8. periods' \in Seq(H!TL!Periods)
    BY <1>2, <2>1, <2>7
  <2> QED  BY <2>6, <2>8 DEF H!TL!Next
<1> QED  BY <1>3, <1>4, <1>5

\* Nothing has been observed of the vehicle, and no frame is in hand.
LEMMA TimelineInit == H!TimesAssumption /\ H!Init => TimelineInv /\ H!TL!Init
BY DEF H!Init, TimelineInv, FramePcs, H!TL!Init

\* The reconciliation takes its time from a stored row.
LEMMA TailInstant ==
  ASSUME H!TimesAssumption, H!TailSays
  PROVE  H!TailTime \in H!Times
<1>1. H!TailRows \in SUBSET H!Times /\ H!TailRows # {}
  BY DEF H!TailSays, H!TailRows, H!Stored
<1> QED  BY <1>1, LastInstant DEF H!TailTime

\* Every step of the worker leaves the timeline alone or takes a step of StateTimeline.
LEMMA PeriodsStep ==
  ASSUME TimelineInv, [H!Next]_(H!vars)
  PROVE  periods' \in Seq(H!TL!Periods) /\ (H!TL!Next \/ UNCHANGED periods)
<1>1. CASE H!Reconcile
  <2>1. CASE periods' = H!Reconciled /\ H!TailSays
    <3>1. periods' = H!Transition(periods, H!Infer(rows[H!TailTime]), H!TailTime)
      BY <2>1 DEF H!Reconciled
    <3>2. H!TailTime \in H!Times /\ H!Infer(rows[H!TailTime]) \in H!States
      BY <2>1, TailInstant, InferredState DEF TimelineInv
    <3> QED  BY <3>1, <3>2, TransitionStep DEF TimelineInv
  <2>2. CASE UNCHANGED periods
    BY <2>2 DEF TimelineInv
  <2>3. UNCHANGED periods \/ periods' = H!Reconciled
    BY <1>1 DEF H!Reconcile
  <2> QED  BY <2>1, <2>2, <2>3 DEF H!Reconciled
<1>2. CASE H!Period
  <2>1. CASE periods' = H!Transition(periods, H!Infer(frame), frame.ts)
    <3>1. frame.ts \in H!Times
      BY <1>2 DEF H!Period, TimelineInv, FramePcs
    <3> QED  BY <2>1, <3>1, InferredState, TransitionStep DEF TimelineInv
  <2>2. CASE UNCHANGED periods
    BY <2>2 DEF TimelineInv
  <2> QED  BY <1>2, <2>1, <2>2 DEF H!Period
<1>3. CASE ~(H!Reconcile \/ H!Period)
  <2>1. UNCHANGED periods
    <3>1. \/ H!Tick \/ H!Crash \/ H!Start \/ H!Heal \/ H!Rehydrate \/ H!Receive
          \/ H!Ensure \/ H!Write \/ H!Persist \/ UNCHANGED H!vars
      BY <1>3 DEF H!Next
    <3> QED  BY <3>1 DEF H!Tick, H!Crash, H!Start, H!Heal, H!Rehydrate, H!Receive,
               H!Ensure, H!Write, H!Persist, H!vars, H!stored
  <2> QED  BY <2>1 DEF TimelineInv
<1> QED  BY <1>1, <1>2, <1>3

\* Every step that has a frame in hand afterwards got it at an instant, or had it before.
LEMMA FrameStep ==
  ASSUME TimelineInv, [H!Next]_(H!vars)
  PROVE  (step \in FramePcs => frame.ts \in H!Times)'
<1>1. CASE H!Receive
  <2>1. PICK f \in Frames, t \in H!Times :
           frame' = [via |-> f.via, power |-> f.power, charger |-> f.charger, ts |-> t]
    BY <1>1 DEF H!Receive
  <2>2. frame'.ts = t
    BY <2>1
  <2> QED  BY <2>2 DEF H!Times
<1>2. CASE ~H!Receive
  <2>1. step' \notin FramePcs \/ (step \in FramePcs /\ frame' = frame)
    <3>1. \/ H!Tick \/ H!Crash \/ H!Start \/ H!Heal \/ H!Rehydrate \/ H!Reconcile
          \/ H!Ensure \/ H!Write \/ H!Period \/ H!Persist \/ UNCHANGED H!vars
      BY <1>2 DEF H!Next
    <3> QED  BY <3>1 DEF H!Tick, H!Crash, H!Start, H!Heal, H!Rehydrate, H!Reconcile,
               H!Ensure, H!Write, H!Period, H!Persist, H!vars, H!memory,
               H!volatile, H!ListPairs, H!MergePair, H!CloseAndCommit, H!RollBack, FramePcs
  <2> QED  BY <2>1 DEF TimelineInv, H!Times
<1> QED  BY <1>1, <1>2

\* In every reachable state the periods are periods and the frame in hand has a time.
LEMMA TimelineInvariant == H!TimesAssumption => (H!Spec => []TimelineInv)
<1>1. TimelineInv /\ [H!Next]_(H!vars) => TimelineInv'
  BY PeriodsStep, FrameStep DEF TimelineInv, H!TL!Periods, H!TL!Ongoing, H!States,
     H!Times, H!Ongoing
<1> QED  BY <1>1, TimelineInit, PTL DEF H!Spec

\* Whatever frames arrive in whatever order, whichever statement fails and wherever the
\* worker ends, the stored periods stay an unbroken chain of which only the last is open
\* (transition_state_period, reconcile_state_period_tail).
THEOREM KeepsTimeline == H!TimesAssumption => (H!Spec => H!ImplementsTimeline)
<1>1. H!TimesAssumption /\ H!Init => H!TL!Init
  BY TimelineInit
<1>2. TimelineInv /\ [H!Next]_(H!vars) => [H!TL!Next]_periods
  BY PeriodsStep
<1> QED  BY <1>1, <1>2, TimelineInvariant, PTL DEF H!Spec, H!ImplementsTimeline, H!TL!Spec

-----------------------------------------------------------------------------
(* What the charges rest on *)

\* What holds of the tables, and of the repair's copy of them, whatever fails: the ids are those
\* given out, and the rows are of the past.
GivenOut(rs, ss, last, at) ==
    /\ \A i \in H!Ids : i > last => ss[i] = H!NoSession /\ H!Linked(rs, i) = {}
    /\ \A t \in H!Stored(rs) : t <= at

\* What holds of them while no statement has failed. A row's session exists. The rows of an
\* open session are long before those of a later session, and after those of an earlier one but
\* for a late frame. Only the newest open session has recent rows.
Housed(rs, ss) == \A i \in H!Ids : H!Linked(rs, i) # {} => ss[i] # H!NoSession
Apart(rs, ss) ==
    \A d, e \in H!Ids : H!IsOpen(ss[d]) /\ d < e =>
        \A u \in H!Linked(rs, d), t \in H!Linked(rs, e) : u + MergeGap < t
Ordered(rs, ss) ==
    \A d, e \in H!Ids : H!IsOpen(ss[d]) /\ e < d =>
        \A u \in H!Linked(rs, d), t \in H!Linked(rs, e) : t <= u + 1
OthersStale(rs, ss, last, at) ==
    \A d \in H!Ids : H!IsOpen(ss[d]) /\ d # last =>
        \A u \in H!Linked(rs, d) : u + Staleness < at
Tidy(rs, ss, last, at) ==
    Housed(rs, ss) /\ Apart(rs, ss) /\ Ordered(rs, ss) /\ OthersStale(rs, ss, last, at)

\* The frame in hand is of now, or a little late.
FrameInv ==
    step \in FramePcs =>
        /\ frame \in [via : {"ws", "parallax"}, power : H!Powers, charger : H!Chargers,
                      ts : H!Times]
        /\ now - 1 <= frame.ts /\ frame.ts <= now

\* The session in the detector's or the worker's hands was given out and is not closed. While no
\* statement has failed it is the newest, and open once its row was ensured.
InHand(c) ==
    c # H!NoCharge =>
        /\ c.id <= lastId
        /\ sessions[c.id] = H!NoSession \/ H!IsOpen(sessions[c.id])
        /\ failures = 0 => c.id = lastId /\ (step # "ensure" => H!IsOpen(sessions[c.id]))
HandsInv ==
    /\ InHand(det) /\ InHand(ended)
    /\ det # H!NoCharge => ended = H!NoCharge
    /\ det # H!NoCharge => step \in {"tail", "idle"} \cup FramePcs
    /\ step = "ensure" => det # H!NoCharge \/ ended # H!NoCharge
    /\ step = "persist" => ended # H!NoCharge

\* With nothing in hand, and no statement failed, no open session has recent rows.
FreeInv ==
    /\ failures = 0 /\ step \in {"tail", "idle"} \cup FramePcs
    /\ det = H!NoCharge /\ ended = H!NoCharge
    => \A i \in H!Ids : H!IsOpen(sessions[i]) =>
         \A u \in H!Linked(rows, i) : u + Staleness < now

\* The repair's copy: a session was open before or is as it was, rows lose their session to
\* one that exists, and every pair's left one was open.
CopyInv ==
    /\ \A i \in H!Ids : sessions[i] # H!NoSession =>
         /\ \/ repair.sessions[i] = H!NoSession \/ H!IsOpen(sessions[i])
            \/ repair.sessions[i] = sessions[i]
         /\ \A t \in H!Linked(rows, i) :
              /\ repair.rows[t].by \in H!Ids
              /\ repair.sessions[repair.rows[t].by] # H!NoSession
    /\ \A i \in H!Ids : sessions[i] = H!NoSession => repair.sessions[i] = H!NoSession
    /\ \A p \in repair.pairs : p[1] # p[2] /\ H!IsOpen(sessions[p[1]])

\* While no statement has failed the pairs are of late frames: the left one is the later
\* session, open, with a row before one of the right one's.
PairsInv ==
    \A p \in repair.pairs :
        /\ p[2] < p[1]
        /\ \A q \in repair.pairs : p[1] = q[1] <=> p[2] = q[2]
        /\ repair.sessions[p[1]] # H!NoSession /\ repair.sessions[p[2]] # H!NoSession =>
             /\ H!IsOpen(repair.sessions[p[1]])
             /\ \E u \in H!Linked(repair.rows, p[1]), t \in H!Linked(repair.rows, p[2]) : u < t

TablesInv ==
    /\ GivenOut(rows, sessions, lastId, now)
    /\ failures = 0 => Tidy(rows, sessions, lastId, now)
RepairInv ==
    step = "merge" =>
        /\ GivenOut(repair.rows, repair.sessions, lastId, now) /\ CopyInv
        /\ failures = 0 => /\ Tidy(repair.rows, repair.sessions, lastId, now)
                           /\ PairsInv

HistoryAssumed == H!FramesAssumption /\ H!TimesAssumption
HistoryIInv ==
    /\ HistoryAssumed /\ H!TypeOK /\ FrameInv /\ HandsInv /\ FreeInv /\ TablesInv /\ RepairInv

-----------------------------------------------------------------------------
(* Operators of the history *)

\* A set of instants that is not empty has a first one, which Min chooses.
LEMMA FirstInstant ==
  ASSUME H!TimesAssumption, NEW S \in SUBSET H!Times, S # {}
  PROVE  H!Min(S) \in S /\ \A u \in S : H!Min(S) <= u
<1>1. MaxTime \in Nat /\ H!Times \subseteq Int
  BY DEF H!TimesAssumption, H!Times
<1> DEFINE Mirror == {MaxTime + 1 - u : u \in S}
<1>2. Mirror \in SUBSET H!Times /\ Mirror # {}
  BY <1>1 DEF H!Times
<1>3. PICK m \in Mirror : \A v \in Mirror : v <= m
  <2> HIDE DEF Mirror
  <2> QED  BY <1>2, LastInstant
<1>4. PICK t \in S : m = MaxTime + 1 - t
  BY <1>3
<1>5. \A u \in S : t <= u
  <2> TAKE u \in S
  <2>1. MaxTime + 1 - u <= m
    BY <1>3
  <2> QED  BY <1>1, <1>4, <2>1
<1>6. \E x \in S : \A u \in S : x =< u
  BY <1>5
<1> QED  BY <1>6 DEF H!Min

\* The rows of a session are instants, and those of the past when they are stored.
LEMMA LinkedIs ==
  ASSUME NEW rs, NEW i
  PROVE  H!Linked(rs, i) = {t \in H!Times : rs[t] # H!NoRow /\ rs[t].by = i}
BY DEF H!Linked, H!Stored

\* The instants, ids and bounds are numbers.
LEMMA Numbers ==
  ASSUME HistoryAssumed
  PROVE  /\ MaxTime \in Nat /\ MaxSessions \in Nat /\ MergeGap \in Nat /\ Staleness \in Nat
         /\ MergeGap < Staleness
         /\ H!Times \subseteq Nat /\ H!Ids \subseteq Nat /\ 0 \notin H!Times /\ 0 \notin H!Ids
BY DEF HistoryAssumed, H!TimesAssumption, H!Times, H!Ids

\* A session of an id with rows is known by them.
LEMMA LinkedInt ==
  ASSUME HistoryAssumed, NEW rs \in H!RowSets, NEW i \in H!Ids
  PROVE  H!Linked(rs, i) = {t \in H!Times : rs[t].by = i}
<1>1. \A t \in H!Times : rs[t].by = i => rs[t] # H!NoRow
  BY Numbers DEF H!NoRow
<1> QED  BY <1>1 DEF H!Linked, H!Stored

\* Merging the pair of two sessions that exist gives the left one the rows of the right one,
\* the earlier start and the right one's end; otherwise only the pair is done with.
LEMMA MergeIs ==
  ASSUME HistoryAssumed, H!TypeOK, NEW p \in repair.pairs,
         repair' = H!Merge([repair EXCEPT !.pairs = @ \ {p}], p)
  PROVE  /\ p[1] \in H!Ids /\ p[2] \in H!Ids /\ repair.pairs \subseteq H!Ids \X H!Ids
         /\ repair' \in [pairs : SUBSET (H!Ids \X H!Ids), rows : H!RowSets,
                         sessions : H!SessionSets]
         /\ repair'.pairs = repair.pairs \ {p}
         /\ \/ /\ repair.sessions[p[1]] = H!NoSession \/ repair.sessions[p[2]] = H!NoSession
               /\ repair'.rows = repair.rows /\ repair'.sessions = repair.sessions
            \/ /\ repair.sessions[p[1]] # H!NoSession /\ repair.sessions[p[2]] # H!NoSession
               /\ \A t \in H!Times : repair'.rows[t] = IF repair.rows[t].by = p[2]
                     THEN [repair.rows[t] EXCEPT !.by = p[1]] ELSE repair.rows[t]
               /\ repair'.sessions[p[2]] = H!NoSession
               /\ p[1] # p[2] => /\ repair'.sessions[p[1]] # H!NoSession
                                 /\ repair'.sessions[p[1]].to = repair.sessions[p[2]].to
               /\ \A i \in H!Ids : i # p[1] /\ i # p[2] =>
                     repair'.sessions[i] = repair.sessions[i]
<1> DEFINE l == p[1]  r == p[2]  a == repair.sessions[l]  b == repair.sessions[r]
           st == [repair EXCEPT !.pairs = @ \ {p}]
<1>1. /\ repair \in [pairs : SUBSET (H!Ids \X H!Ids), rows : H!RowSets,
                     sessions : H!SessionSets]
      /\ l \in H!Ids /\ r \in H!Ids
  BY DEF H!TypeOK
<1>2. st = [pairs |-> repair.pairs \ {p}, rows |-> repair.rows, sessions |-> repair.sessions]
  BY <1>1
<1>3. CASE a = H!NoSession \/ b = H!NoSession
  <2>1. repair' = st
    BY <1>2, <1>3 DEF H!Merge
  <2> QED  BY <1>1, <1>2, <1>3, <2>1
<1>4. CASE a # H!NoSession /\ b # H!NoSession
  <2> DEFINE x == [from |-> H!Min({a.from, b.from}), to |-> b.to]
             ss == [repair.sessions EXCEPT ![l] = x, ![r] = H!NoSession]
             rs == H!Joined(repair.rows, l, r)
  <2>1. repair' = [pairs |-> repair.pairs \ {p}, rows |-> rs, sessions |-> ss]
    BY <1>1, <1>2, <1>4 DEF H!Merge
  <2>2. a \in [from : H!Times, to : H!Times \cup {H!Ongoing}]
        /\ b \in [from : H!Times, to : H!Times \cup {H!Ongoing}]
    BY <1>1, <1>4 DEF H!SessionSets
  <2>3. H!Min({a.from, b.from}) \in H!Times
    <3>1. {a.from, b.from} \in SUBSET H!Times /\ {a.from, b.from} # {}
      BY <2>2
    <3>2. H!Min({a.from, b.from}) \in {a.from, b.from}
      BY <3>1, FirstInstant DEF HistoryAssumed
    <3> QED  BY <3>1, <3>2
  <2>4. /\ x \in [from : H!Times, to : H!Times \cup {H!Ongoing}] /\ x # H!NoSession
        /\ x.to = b.to
    BY <2>2, <2>3, Numbers DEF H!NoSession
  <2>5. ss \in H!SessionSets /\ ss[r] = H!NoSession /\ (l # r => ss[l] = x)
        /\ \A i \in H!Ids : i # l /\ i # r => ss[i] = repair.sessions[i]
    <3> HIDE DEF x
    <3> QED  BY <1>1, <2>4 DEF H!SessionSets
  <2>6. rs = [t \in H!Times |-> IF repair.rows[t].by = r
                                THEN [repair.rows[t] EXCEPT !.by = l] ELSE repair.rows[t]]
    BY DEF H!Joined
  <2>7. rs \in H!RowSets
    <3>1. l \in -1 .. MaxSessions
      BY <1>1, Numbers DEF H!Ids
    <3>2. ASSUME NEW t \in H!Times
          PROVE  rs[t] \in [power : H!Powers, charger : H!Chargers, by : -1 .. MaxSessions]
      <4>1. repair.rows[t] \in [power : H!Powers, charger : H!Chargers, by : -1 .. MaxSessions]
        BY <1>1 DEF H!RowSets
      <4> QED  BY <2>6, <3>1, <4>1
    <3> QED  BY <2>6, <3>2 DEF H!RowSets
  <2>8. \A t \in H!Times : rs[t] = IF repair.rows[t].by = r
                                   THEN [repair.rows[t] EXCEPT !.by = l] ELSE repair.rows[t]
    BY <2>6
  <2>9. x.to = repair.sessions[p[2]].to
    BY <2>4
  <2> HIDE DEF ss, rs, x
  <2>10. repair'.pairs = repair.pairs \ {p} /\ repair'.rows = rs /\ repair'.sessions = ss
    BY <2>1
  <2>11. repair' \in [pairs : SUBSET (H!Ids \X H!Ids), rows : H!RowSets,
                      sessions : H!SessionSets]
    BY <1>1, <2>1, <2>5, <2>7
  <2>12. /\ \A t \in H!Times : repair'.rows[t] = IF repair.rows[t].by = p[2]
               THEN [repair.rows[t] EXCEPT !.by = p[1]] ELSE repair.rows[t]
         /\ repair'.sessions[p[2]] = H!NoSession
         /\ p[1] # p[2] => /\ repair'.sessions[p[1]] # H!NoSession
                           /\ repair'.sessions[p[1]].to = repair.sessions[p[2]].to
         /\ \A i \in H!Ids : i # p[1] /\ i # p[2] =>
               repair'.sessions[i] = repair.sessions[i]
    BY <2>4, <2>5, <2>8, <2>9, <2>10
  <2>13. repair.sessions[p[1]] # H!NoSession /\ repair.sessions[p[2]] # H!NoSession
    BY <1>4
  <2>14. p[1] \in H!Ids /\ p[2] \in H!Ids /\ repair.pairs \subseteq H!Ids \X H!Ids
    BY <1>1
  <2> HIDE DEF l, r, a, b, st
  <2> QED  BY <2>10, <2>11, <2>12, <2>13, <2>14
<1> QED  BY <1>3, <1>4

\* In qs the rows of r are l's, and otherwise those of rs.
Handed(rs, qs, l, r) ==
    \A t \in H!Times : qs[t] = IF rs[t].by = r THEN [rs[t] EXCEPT !.by = l] ELSE rs[t]

\* After merging, the rows of the left session are those of both, and no row is lost.
LEMMA MergedRows ==
  ASSUME HistoryAssumed, NEW rs \in H!RowSets, NEW qs \in H!RowSets,
         NEW l \in H!Ids, NEW r \in H!Ids, l # r, Handed(rs, qs, l, r)
  PROVE  /\ H!Stored(qs) = H!Stored(rs)
         /\ H!Linked(qs, r) = {} /\ H!Linked(qs, l) = H!Linked(rs, l) \cup H!Linked(rs, r)
         /\ \A i \in H!Ids : i # l /\ i # r => H!Linked(qs, i) = H!Linked(rs, i)
<1>1. ASSUME NEW t \in H!Times
      PROVE  /\ qs[t].by = IF rs[t].by = r THEN l ELSE rs[t].by
             /\ qs[t] # H!NoRow <=> rs[t] # H!NoRow
  <2>1. rs[t] \in [power : H!Powers, charger : H!Chargers, by : -1 .. MaxSessions]
    BY DEF H!RowSets
  <2>2. CASE rs[t].by = r
    <3>1. qs[t] = [rs[t] EXCEPT !.by = l] /\ qs[t].by = l
      BY <2>1, <2>2 DEF Handed
    <3>2. rs[t].by # -1 /\ qs[t].by # -1
      BY <2>2, <3>1, Numbers
    <3>3. rs[t] # H!NoRow /\ qs[t] # H!NoRow
      BY <3>2 DEF H!NoRow
    <3> QED  BY <2>2, <3>1, <3>3
  <2>3. CASE rs[t].by # r
    BY <2>3 DEF Handed
  <2> QED  BY <2>2, <2>3
<1>2. H!Stored(qs) = H!Stored(rs)
  BY <1>1 DEF H!Stored
<1>3. ASSUME NEW i \in H!Ids
      PROVE  /\ H!Linked(qs, i) = {t \in H!Times : qs[t].by = i}
             /\ H!Linked(rs, i) = {t \in H!Times : rs[t].by = i}
  BY LinkedInt
<1>4. H!Linked(qs, r) = {}
  BY <1>1, <1>3
<1>5. H!Linked(qs, l) = H!Linked(rs, l) \cup H!Linked(rs, r)
  BY <1>1, <1>3
<1>6. ASSUME NEW i \in H!Ids, i # l, i # r PROVE H!Linked(qs, i) = H!Linked(rs, i)
  <2>1. \A t \in H!Times : qs[t].by = i <=> rs[t].by = i
    BY <1>1, <1>6
  <2> QED  BY <1>3, <2>1
<1> QED  BY <1>2, <1>4, <1>5, <1>6

\* A written row belongs to the session in hand, or to that it belonged to.
LEMMA UpsertIs ==
  ASSUME HistoryAssumed, H!TypeOK, FrameInv, step = "write", H!Stamp \in H!Ids \cup {0},
         rows' = H!Upserted
  PROVE  /\ rows' \in H!RowSets
         /\ H!Stored(rows') \subseteq H!Stored(rows) \cup {frame.ts}
         /\ \A i \in H!Ids : H!Linked(rows', i) \subseteq H!Linked(rows, i) \cup
               (IF i = H!Stamp THEN {frame.ts} ELSE {})
<1> DEFINE old == rows[frame.ts]
           new == [power   |-> H!Patch(old.power, frame.power),
                   charger |-> H!Patch(old.charger, frame.charger),
                   by      |-> IF H!Stamp # 0 THEN H!Stamp ELSE H!Max({old.by, 0})]
<1>1. /\ rows \in H!RowSets /\ frame.ts \in H!Times
      /\ frame.power \in H!Powers /\ frame.charger \in H!Chargers
  BY DEF H!TypeOK, FrameInv, FramePcs
<1>2. old \in [power : H!Powers, charger : H!Chargers, by : -1 .. MaxSessions]
  BY <1>1 DEF H!RowSets
<1>3. rows' = [rows EXCEPT ![frame.ts] = new]
  BY DEF H!Upserted
<1>4. H!Max({old.by, 0}) = IF old.by > 0 THEN old.by ELSE 0
  <2>1. old.by \in Int
    BY <1>2, Numbers
  <2>2. \E x \in {old.by, 0} : \A y \in {old.by, 0} : x >= y
    BY <2>1
  <2>3. H!Max({old.by, 0}) \in {old.by, 0} /\ \A y \in {old.by, 0} : H!Max({old.by, 0}) >= y
    BY <2>2 DEF H!Max
  <2> QED  BY <2>1, <2>3
<1>5. /\ new.by \in 0 .. MaxSessions
      /\ new.by = IF H!Stamp # 0 THEN H!Stamp ELSE IF old.by > 0 THEN old.by ELSE 0
  <2>1. old.by \in -1 .. MaxSessions
    BY <1>2
  <2>2. MaxSessions \in Nat /\ H!Ids = 1 .. MaxSessions
    BY Numbers DEF H!Ids
  <2>3. H!Stamp \in 0 .. MaxSessions
    BY <2>2
  <2> QED  BY <1>4, <2>1, <2>2, <2>3
<1>6. new.power \in H!Powers /\ new.charger \in H!Chargers
  BY <1>1, <1>2 DEF H!Patch
<1>7. new \in [power : H!Powers, charger : H!Chargers, by : -1 .. MaxSessions]
  BY <1>5, <1>6, Numbers
<1> HIDE DEF new, old
<1>8. rows' \in H!RowSets
  BY <1>1, <1>3, <1>7 DEF H!RowSets
<1>9. /\ \A t \in H!Times : t # frame.ts => rows'[t] = rows[t]
      /\ rows'[frame.ts] = new
  BY <1>1, <1>3 DEF H!RowSets
<1>10. H!Stored(rows') \subseteq H!Stored(rows) \cup {frame.ts}
  BY <1>9 DEF H!Stored
<1>11. ASSUME NEW i \in H!Ids, new.by = i, i # H!Stamp PROVE rows[frame.ts].by = i
  BY <1>5, <1>11, Numbers DEF old
<1>12. ASSUME NEW i \in H!Ids
       PROVE  H!Linked(rows', i) \subseteq H!Linked(rows, i) \cup
                 (IF i = H!Stamp THEN {frame.ts} ELSE {})
  <2>1. /\ H!Linked(rows', i) = {t \in H!Times : rows'[t].by = i}
        /\ H!Linked(rows, i) = {t \in H!Times : rows[t].by = i}
    BY <1>1, <1>8, LinkedInt
  <2> QED  BY <1>1, <1>9, <1>11, <2>1
<1> QED  BY <1>8, <1>10, <1>12

-----------------------------------------------------------------------------
(* The session in hand *)

\* A session as the detector has it.
Charge == [id : H!Ids, from : H!Times, last : H!Times]

\* Every session in hand has an id, and having none is to have none of them.
LEMMA ChargeIs ==
  ASSUME HistoryAssumed
  PROVE  /\ H!NoCharge \notin Charge /\ H!NoCharge.id = 0
         /\ \A c \in Charge : c.id \in H!Ids /\ c.id # 0 /\ c # H!NoCharge
BY Numbers DEF Charge, H!NoCharge

\* Rows of a frame in hand get the id of the session that it ended or is of.
LEMMA StampIs ==
  ASSUME HistoryIInv
  PROVE  /\ det \in Charge \cup {H!NoCharge} /\ ended \in Charge \cup {H!NoCharge}
         /\ H!Stamp \in H!Ids \cup {0} /\ (step = "ensure" => H!Stamp \in H!Ids)
         /\ H!Stamp # 0 => /\ det # H!NoCharge \/ ended # H!NoCharge
                           /\ H!Stamp <= lastId
                           /\ sessions[H!Stamp] = H!NoSession \/ H!IsOpen(sessions[H!Stamp])
                           /\ failures = 0 => H!Stamp = lastId
         /\ H!Stamp = 0 => det = H!NoCharge /\ ended = H!NoCharge
         /\ ended # H!NoCharge => H!Stamp = ended.id
         /\ det # H!NoCharge => H!Stamp = det.id
<1>1. det \in Charge \cup {H!NoCharge} /\ ended \in Charge \cup {H!NoCharge}
  BY DEF HistoryIInv, H!TypeOK, Charge
<1>2. CASE ended # H!NoCharge
  <2>1. H!Stamp = ended.id /\ ended \in Charge /\ det = H!NoCharge
    BY <1>1, <1>2 DEF H!Stamp, HistoryIInv, HandsInv
  <2>2. H!Stamp \in H!Ids /\ H!Stamp # 0
    BY <2>1, ChargeIs DEF HistoryIInv
  <2>3. InHand(ended)
    BY DEF HistoryIInv, HandsInv
  <2> QED  BY <1>1, <1>2, <2>1, <2>2, <2>3 DEF InHand
<1>3. CASE ended = H!NoCharge /\ det # H!NoCharge
  <2>1. H!Stamp = det.id /\ det \in Charge
    BY <1>1, <1>3 DEF H!Stamp
  <2>2. H!Stamp \in H!Ids /\ H!Stamp # 0
    BY <2>1, ChargeIs DEF HistoryIInv
  <2>3. InHand(det)
    BY DEF HistoryIInv, HandsInv
  <2> QED  BY <1>1, <1>3, <2>1, <2>2, <2>3 DEF InHand
<1>4. CASE ended = H!NoCharge /\ det = H!NoCharge
  <2>1. H!Stamp = 0
    BY <1>4, ChargeIs DEF H!Stamp, HistoryIInv
  <2>2. step # "ensure"
    BY <1>4 DEF HistoryIInv, HandsInv
  <2> QED  BY <1>1, <1>4, <2>1, <2>2
<1> QED  BY <1>2, <1>3, <1>4

\* A frame leaves the detector's session, starts the next one, ends it, or sees more of it.
LEMMA ReceiveIs ==
  ASSUME HistoryIInv, H!Receive
  PROVE  /\ frame' \in [via : {"ws", "parallax"}, power : H!Powers, charger : H!Chargers,
                        ts : H!Times]
         /\ frame'.ts \in {now - 1, now} /\ frame' # H!NoFrame
         /\ lastId' \in 0 .. MaxSessions /\ lastId <= lastId'
         /\ det' = H!NoCharge /\ ended' = H!NoCharge => step' = "write"
         /\ det' # H!NoCharge \/ ended' # H!NoCharge => step' = "ensure"
         /\ \/ det' = det /\ ended' = H!NoCharge /\ lastId' = lastId
            \/ /\ det = H!NoCharge /\ det' \in Charge /\ ended' = H!NoCharge
               /\ det'.id = lastId + 1 /\ lastId' = lastId + 1
            \/ /\ det # H!NoCharge /\ det' = H!NoCharge /\ ended' \in Charge
               /\ ended'.id = det.id /\ lastId' = lastId
            \/ /\ det # H!NoCharge /\ det' \in Charge /\ det'.id = det.id
               /\ ended' = H!NoCharge /\ lastId' = lastId
<1>1. PICK f \in Frames, t \in H!Times \cap {now - 1, now} :
         LET g == [via |-> f.via, power |-> f.power, charger |-> f.charger, ts |-> t]
             d == H!Detect(det, g)
         IN  /\ d.det.id <= MaxSessions
             /\ frame' = g /\ det' = d.det /\ ended' = d.ended
             /\ lastId' = IF d.det.id > lastId THEN d.det.id ELSE lastId
             /\ step' = IF d.det = H!NoCharge /\ d.ended = H!NoCharge
                        THEN "write" ELSE "ensure"
  BY DEF H!Receive
<1> DEFINE g == [via |-> f.via, power |-> f.power, charger |-> f.charger, ts |-> t]
           d == H!Detect(det, g)
<1>2. /\ d.det.id <= MaxSessions /\ frame' = g /\ det' = d.det /\ ended' = d.ended
      /\ lastId' = IF d.det.id > lastId THEN d.det.id ELSE lastId
      /\ step' = IF d.det = H!NoCharge /\ d.ended = H!NoCharge THEN "write" ELSE "ensure"
  BY <1>1
<1>3. /\ f \in [via : {"ws", "parallax"}, power : H!Powers, charger : H!Chargers]
      /\ t \in H!Times /\ t \in {now - 1, now}
  BY DEF HistoryIInv, HistoryAssumed, H!FramesAssumption
<1>4. /\ g \in [via : {"ws", "parallax"}, power : H!Powers, charger : H!Chargers,
                ts : H!Times]
      /\ g.ts = t /\ g # H!NoFrame
  <2>1. g.via # "none"
    BY <1>3
  <2> QED  BY <1>3, <2>1 DEF H!NoFrame
<1>5. lastId \in 0 .. MaxSessions /\ lastId \in Int /\ MaxSessions \in Nat
  BY Numbers DEF HistoryIInv, H!TypeOK
<1>6. det \in Charge \cup {H!NoCharge} /\ (det # H!NoCharge => det.id \in 1 .. lastId)
  <2>1. det # H!NoCharge => det.id \in H!Ids /\ det.id <= lastId
    BY StampIs, ChargeIs DEF HistoryIInv, HandsInv, InHand
  <2> QED  BY <1>5, <2>1, StampIs DEF H!Ids
<1> HIDE DEF g
<1>7. CASE det = H!NoCharge
  <2>1. \/ d.det = H!NoCharge /\ d.ended = H!NoCharge
        \/ d.det = [id |-> lastId + 1, from |-> t, last |-> t] /\ d.ended = H!NoCharge
    BY <1>4, <1>7 DEF H!Detect
  <2>2. CASE d.det = H!NoCharge /\ d.ended = H!NoCharge
    <3>1. d.det.id = 0
      BY <2>2 DEF H!NoCharge
    <3>2. lastId' = lastId
      BY <1>2, <1>5, <3>1
    <3> HIDE DEF d
    <3> QED  BY <1>2, <1>3, <1>4, <1>5, <1>7, <2>2, <3>2
  <2>3. CASE d.det = [id |-> lastId + 1, from |-> t, last |-> t] /\ d.ended = H!NoCharge
    <3>1. d.det.id = lastId + 1
      BY <2>3
    <3>2. lastId + 1 \in H!Ids
      BY <1>2, <1>5, <3>1 DEF H!Ids
    <3>3. d.det \in Charge /\ d.det # H!NoCharge
      <4>1. d.det \in Charge
        BY <1>3, <2>3, <3>2 DEF Charge
      <4> QED  BY <4>1, ChargeIs DEF HistoryIInv
    <3>4. lastId' = lastId + 1 /\ lastId' \in 0 .. MaxSessions /\ lastId <= lastId'
      BY <1>2, <1>5, <3>1
    <3> HIDE DEF d
    <3> QED  BY <1>2, <1>3, <1>4, <1>7, <2>3, <3>1, <3>3, <3>4
  <2> QED  BY <2>1, <2>2, <2>3
<1>8. CASE det # H!NoCharge
  <2> DEFINE seen == IF H!ActivelyCharging(det, g) THEN [det EXCEPT !.last = g.ts] ELSE det
  <2>1. det \in Charge
    BY <1>6, <1>8
  <2>2. seen \in Charge /\ seen.id = det.id /\ seen # H!NoCharge
    <3>1. seen \in Charge /\ seen.id = det.id
      BY <1>3, <1>4, <2>1 DEF Charge
    <3> HIDE DEF seen
    <3> QED  BY <3>1, ChargeIs DEF HistoryIInv
  <2>3. \/ d.det = det /\ d.ended = H!NoCharge
        \/ d.det = H!NoCharge /\ d.ended = seen
        \/ d.det = seen /\ d.ended = H!NoCharge
    BY <1>8 DEF H!Detect
  <2> HIDE DEF d, seen
  <2>4. d.det.id = det.id \/ d.det.id = 0
    BY <2>2, <2>3, ChargeIs DEF HistoryIInv
  <2>5. lastId' = lastId
    <3>1. det.id \in 1 .. lastId
      BY <1>6, <1>8
    <3> QED  BY <1>2, <1>5, <2>4, <3>1
  <2> QED  BY <1>2, <1>3, <1>4, <1>5, <1>8, <2>1, <2>2, <2>3, <2>5
<1> QED  BY <1>7, <1>8

-----------------------------------------------------------------------------
(* Types *)

\* What the lemmas about the timeline ask for.
LEMMA TimelineToo ==
  ASSUME HistoryIInv
  PROVE  TimelineInv
<1>1. step \in FramePcs => frame.ts \in H!Times
  BY DEF HistoryIInv, FrameInv
<1>2. periods \in Seq(H!TL!Periods)
  BY DEF HistoryIInv, H!TypeOK, H!TL!Periods, H!States, H!Times, H!Ongoing, H!TL!Ongoing
<1> QED  BY <1>1, <1>2 DEF TimelineInv, HistoryIInv, HistoryAssumed

\* The closing statement leaves a session, or gives an open one an instant for its end.
LEMMA CloseIs ==
  ASSUME HistoryAssumed, NEW rs, NEW ss \in H!SessionSets
  PROVE  /\ H!Close(rs, ss) \in H!SessionSets
         /\ \A i \in H!Ids :
              /\ \/ H!Close(rs, ss)[i] = ss[i]
                 \/ H!IsOpen(ss[i]) /\ ~H!IsOpen(H!Close(rs, ss)[i])
              /\ H!Close(rs, ss)[i] = H!NoSession <=> ss[i] = H!NoSession
<1> DEFINE SessionRow == [from : H!Times, to : H!Times \cup {H!Ongoing}]
           WithEnd(i) == [ss[i] EXCEPT !.to = H!Min(H!Stops(rs, ss[i], i))]
<1>1. H!Close(rs, ss) = [i \in H!Ids |-> IF H!IsOpen(ss[i]) /\ H!Stops(rs, ss[i], i) # {}
                                         THEN WithEnd(i) ELSE ss[i]]
  BY DEF H!Close
<1>2. ASSUME NEW i \in H!Ids, H!IsOpen(ss[i]), H!Stops(rs, ss[i], i) # {}
      PROVE  WithEnd(i) \in SessionRow /\ ~H!IsOpen(WithEnd(i)) /\ WithEnd(i) # H!NoSession
  <2>1. ss[i] \in SessionRow
    BY <1>2 DEF H!IsOpen, H!SessionSets
  <2>2. H!Stops(rs, ss[i], i) \in SUBSET H!Times
    BY DEF H!Stops, H!Stored
  <2>3. H!Min(H!Stops(rs, ss[i], i)) \in H!Times
    BY <1>2, <2>2, FirstInstant DEF HistoryAssumed
  <2>4. WithEnd(i) \in SessionRow /\ WithEnd(i).to = H!Min(H!Stops(rs, ss[i], i))
    BY <2>1, <2>3
  <2>5. H!Min(H!Stops(rs, ss[i], i)) # 0
    BY <2>3, Numbers
  <2> HIDE DEF WithEnd
  <2>6. WithEnd(i).to # 0
    BY <2>4, <2>5
  <2> QED  BY <2>4, <2>6 DEF H!IsOpen, H!Ongoing, H!NoSession
<1>3. \A i \in H!Ids : ss[i] \in SessionRow \cup {H!NoSession}
  BY DEF H!SessionSets
<1> HIDE DEF WithEnd
<1>4. H!Close(rs, ss) \in H!SessionSets
  BY <1>1, <1>2, <1>3 DEF H!SessionSets
<1>5. ASSUME NEW i \in H!Ids
      PROVE  /\ \/ H!Close(rs, ss)[i] = ss[i]
                \/ H!IsOpen(ss[i]) /\ ~H!IsOpen(H!Close(rs, ss)[i])
             /\ H!Close(rs, ss)[i] = H!NoSession <=> ss[i] = H!NoSession
  BY <1>1, <1>2 DEF H!IsOpen
<1> QED  BY <1>4, <1>5

\* Every step keeps the types.
LEMMA TypesKept ==
  ASSUME HistoryIInv, [H!Next]_(H!vars)
  PROVE  H!TypeOK'
<1> USE DEF H!volatile, H!budgets, H!stored, H!memory
<1>1. /\ now \in H!Times /\ rows \in H!RowSets /\ sessions \in H!SessionSets
      /\ periods \in Seq([state : H!States, from : H!Times, to : H!Times \cup {H!Ongoing}])
      /\ step \in {"down", "heal", "merge", "rehydrate", "tail", "idle", "ensure", "write",
                   "period", "persist"}
      /\ repair \in [pairs : SUBSET (H!Ids \X H!Ids), rows : H!RowSets,
                     sessions : H!SessionSets]
      /\ step # "merge" => repair = H!NoRepair
      /\ det \in Charge \cup {H!NoCharge} /\ ended \in Charge \cup {H!NoCharge}
      /\ ended # H!NoCharge => step \in FramePcs
      /\ frame # H!NoFrame <=> step \in FramePcs
      /\ latest \in [power : H!Powers, charger : H!Chargers] \cup {H!NoReading}
      /\ lastId \in 0 .. MaxSessions /\ received \in 0 .. MaxFrames
      /\ restarts \in 0 .. MaxCrashes /\ failures \in 0 .. MaxFaults
  BY DEF HistoryIInv, H!TypeOK, Charge, FramePcs
<1>2. /\ MaxTime \in Nat /\ MaxSessions \in Nat /\ MaxFrames \in Nat /\ MaxCrashes \in Nat
      /\ MaxFaults \in Nat /\ now \in 1 .. MaxTime /\ HistoryAssumed
  BY <1>1 DEF HistoryIInv, HistoryAssumed, H!TimesAssumption, H!Times
<1> DEFINE TypesNext ==
      /\ now \in H!Times /\ rows \in H!RowSets /\ sessions \in H!SessionSets
      /\ step \in {"down", "heal", "merge", "rehydrate", "tail", "idle", "ensure", "write",
                   "period", "persist"}
      /\ repair \in [pairs : SUBSET (H!Ids \X H!Ids), rows : H!RowSets,
                     sessions : H!SessionSets]
      /\ step # "merge" => repair = H!NoRepair
      /\ det \in Charge \cup {H!NoCharge} /\ ended \in Charge \cup {H!NoCharge}
      /\ ended # H!NoCharge => step \in FramePcs
      /\ frame # H!NoFrame <=> step \in FramePcs
      /\ latest \in [power : H!Powers, charger : H!Chargers] \cup {H!NoReading}
      /\ lastId \in 0 .. MaxSessions /\ received \in 0 .. MaxFrames
      /\ restarts \in 0 .. MaxCrashes /\ failures \in 0 .. MaxFaults
<1>3. SUFFICES TypesNext'
  <2>1. periods' \in Seq([state : H!States, from : H!Times, to : H!Times \cup {H!Ongoing}])
    <3>1. periods' \in Seq(H!TL!Periods)
      BY PeriodsStep, TimelineToo
    <3> QED  BY <3>1 DEF H!TL!Periods, H!States, H!Times, H!Ongoing, H!TL!Ongoing
  <2>2. TypesNext' /\ periods' \in Seq([state : H!States, from : H!Times,
                                        to : H!Times \cup {H!Ongoing}])
        => H!TypeOK'
    BY DEF H!TypeOK, Charge, FramePcs
  <2> QED  BY <2>1, <2>2
<1>4. H!NoRepair \in [pairs : SUBSET (H!Ids \X H!Ids), rows : H!RowSets,
                      sessions : H!SessionSets]
  <2>1. H!NoRow \in [power : H!Powers, charger : H!Chargers, by : -1 .. MaxSessions]
    BY <1>2 DEF H!NoRow, H!Powers, H!Chargers
  <2> QED  BY <2>1 DEF H!NoRepair, H!RowSets, H!SessionSets
<1>5. H!Sound => failures' \in 0 .. MaxFaults
  BY <1>1 DEF H!Sound
<1>6. H!Faulty => failures' \in 0 .. MaxFaults
  BY <1>1, <1>2 DEF H!Faulty
<1>7. CASE H!Tick
  <2>1. now' \in H!Times
    BY <1>2, <1>7 DEF H!Tick, H!Times
  <2> QED  BY <1>1, <1>7, <2>1 DEF H!Tick, FramePcs
<1>8. CASE H!Crash
  <2>1. restarts' \in 0 .. MaxCrashes
    BY <1>1, <1>2, <1>8 DEF H!Crash
  <2> QED  BY <1>1, <1>4, <1>8, <2>1 DEF H!Crash, FramePcs
<1>9. CASE H!Start
  BY <1>1, <1>4, <1>9 DEF H!Start, FramePcs
<1>10. CASE H!Heal
  <2>1. failures' \in 0 .. MaxFaults
    BY <1>5, <1>6, <1>10 DEF H!Heal, H!ListPairs, H!MergePair, H!CloseAndCommit, H!RollBack
  <2>2. CASE H!ListPairs
    <3>1. H!Candidates(rows, sessions) \in SUBSET (H!Ids \X H!Ids)
      BY DEF H!Candidates
    <3>2. repair' \in [pairs : SUBSET (H!Ids \X H!Ids), rows : H!RowSets,
                       sessions : H!SessionSets]
      BY <1>1, <2>2, <3>1 DEF H!ListPairs
    <3> QED  BY <1>1, <1>10, <2>1, <2>2, <3>2 DEF H!Heal, H!ListPairs, FramePcs
  <2>3. CASE H!MergePair
    <3>1. PICK p \in repair.pairs : repair' = H!Merge([repair EXCEPT !.pairs = @ \ {p}], p)
      BY <2>3 DEF H!MergePair
    <3>2. repair' \in [pairs : SUBSET (H!Ids \X H!Ids), rows : H!RowSets,
                       sessions : H!SessionSets]
      BY <1>2, <3>1, MergeIs DEF HistoryIInv
    <3>3. /\ step = "merge" /\ step' = step /\ rows' = rows /\ sessions' = sessions
      BY <2>3 DEF H!MergePair
    <3> QED  BY <1>1, <1>10, <2>1, <3>2, <3>3 DEF H!Heal
  <2>4. CASE H!CloseAndCommit
    <3>1. rows' \in H!RowSets /\ sessions' \in H!SessionSets
      BY <1>1, <1>2, <2>4, CloseIs DEF H!CloseAndCommit
    <3> QED  BY <1>1, <1>4, <1>10, <2>1, <2>4, <3>1 DEF H!Heal, H!CloseAndCommit, FramePcs
  <2>5. CASE H!RollBack
    BY <1>1, <1>4, <1>10, <2>1, <2>5 DEF H!Heal, H!RollBack, FramePcs
  <2> QED  BY <1>10, <2>2, <2>3, <2>4, <2>5 DEF H!Heal
<1>11. CASE H!Rehydrate
  <2>1. failures' \in 0 .. MaxFaults
    BY <1>5, <1>6, <1>11 DEF H!Rehydrate
  <2>2. det' \in Charge \cup {H!NoCharge}
    <3>1. ASSUME NEW i \in H!Ids, H!Linked(rows, i) # {} PROVE H!Snapshot(i) \in Charge
      <4>1. H!Linked(rows, i) \in SUBSET H!Times
        BY LinkedIs
      <4>2. H!Min(H!Linked(rows, i)) \in H!Times /\ H!Max(H!Linked(rows, i)) \in H!Times
        BY <1>2, <3>1, <4>1, FirstInstant, LastInstant DEF HistoryAssumed
      <4> QED  BY <4>2 DEF H!Snapshot, Charge
    <3> QED  BY <1>11, <3>1 DEF H!Rehydrate, H!Resumable
  <2> QED  BY <1>1, <1>11, <2>1, <2>2 DEF H!Rehydrate, FramePcs
<1>12. CASE H!Reconcile
  <2>1. failures' \in 0 .. MaxFaults
    BY <1>5, <1>6, <1>12 DEF H!Reconcile
  <2> QED  BY <1>1, <1>12, <2>1 DEF H!Reconcile, FramePcs
<1>13. CASE H!Receive
  <2>1. received' \in 0 .. MaxFrames
    BY <1>1, <1>2, <1>13 DEF H!Receive
  <2>2. /\ lastId' \in 0 .. MaxSessions /\ frame' # H!NoFrame /\ step' \in {"write", "ensure"}
        /\ det' \in Charge \cup {H!NoCharge} /\ ended' \in Charge \cup {H!NoCharge}
    BY <1>1, <1>13, ReceiveIs
  <2>3. /\ repair' = repair /\ rows' = rows /\ sessions' = sessions /\ now' = now
        /\ latest' = latest /\ restarts' = restarts /\ failures' = failures /\ step = "idle"
    BY <1>13 DEF H!Receive
  <2>4. step' \in FramePcs /\ step' # "merge"
    BY <2>2 DEF FramePcs
  <2>5. step' \in {"down", "heal", "merge", "rehydrate", "tail", "idle", "ensure", "write",
                   "period", "persist"}
    BY <2>2
  <2> QED  BY <1>1, <2>1, <2>2, <2>3, <2>4, <2>5 DEF FramePcs
<1>14. CASE H!Ensure
  <2>1. failures' \in 0 .. MaxFaults
    BY <1>5, <1>6, <1>14 DEF H!Ensure
  <2>2. H!First(H!Stamp) \in H!Times
    <3>1. H!Linked(rows, H!Stamp) \in SUBSET H!Times
      BY LinkedIs
    <3>2. frame.ts \in H!Times
      BY <1>14 DEF H!Ensure, HistoryIInv, FrameInv, FramePcs
    <3>3. H!Linked(rows, H!Stamp) # {} => H!Min(H!Linked(rows, H!Stamp)) \in H!Times
      BY <1>2, <3>1, FirstInstant DEF HistoryAssumed
    <3> QED  BY <3>2, <3>3 DEF H!First
  <2>3. sessions' \in H!SessionSets
    <3>1. [from |-> H!First(H!Stamp), to |-> H!Ongoing]
             \in [from : H!Times, to : H!Times \cup {H!Ongoing}]
      BY <2>2
    <3> QED  BY <1>1, <1>14, <3>1 DEF H!Ensure, H!SessionSets
  <2> QED  BY <1>1, <1>14, <2>1, <2>3 DEF H!Ensure, FramePcs
<1>15. CASE H!Write
  <2>1. failures' \in 0 .. MaxFaults
    BY <1>5, <1>6, <1>15 DEF H!Write
  <2>2. step = "write" /\ FrameInv /\ H!TypeOK
    BY <1>15 DEF H!Write, HistoryIInv
  <2>3. rows' \in H!RowSets
    BY <1>1, <1>2, <1>15, <2>2, StampIs, UpsertIs DEF H!Write
  <2>4. latest' \in [power : H!Powers, charger : H!Chargers]
    <3>1. frame.power \in H!Powers /\ frame.charger \in H!Chargers
      BY <2>2 DEF FrameInv, FramePcs
    <3>2. ASSUME NEW old \in [power : H!Powers, charger : H!Chargers]
          PROVE  H!Patched(old, frame) \in [power : H!Powers, charger : H!Chargers]
      BY <3>1 DEF H!Patched, H!Patch
    <3>3. H!Blank \in [power : H!Powers, charger : H!Chargers]
      BY DEF H!Blank, H!Powers, H!Chargers
    <3>4. (IF latest = H!NoReading THEN H!Blank ELSE latest)
             \in [power : H!Powers, charger : H!Chargers]
      BY <1>1, <3>3
    <3> QED  BY <1>15, <3>2, <3>4 DEF H!Write
  <2> QED  BY <1>1, <1>15, <2>1, <2>3, <2>4 DEF H!Write, FramePcs
<1>16. CASE H!Period
  <2>1. failures' \in 0 .. MaxFaults
    BY <1>5, <1>6, <1>16 DEF H!Period
  <2>2. ended # H!NoCharge => step' = "persist" /\ frame' = frame
    BY <1>16 DEF H!Period
  <2>3. ended = H!NoCharge => step' = "idle" /\ frame' = H!NoFrame
    BY <1>16 DEF H!Period
  <2>4. step = "period" /\ UNCHANGED <<now, repair, rows, sessions, det, latest, ended, lastId,
                                       received, restarts>>
    BY <1>16 DEF H!Period
  <2> QED  BY <1>1, <2>1, <2>2, <2>3, <2>4 DEF FramePcs
<1>17. CASE H!Persist
  <2>1. failures' \in 0 .. MaxFaults
    BY <1>5, <1>6, <1>17 DEF H!Persist
  <2>2. ended \in Charge /\ frame.ts \in H!Times
    BY <1>1, <1>17 DEF H!Persist, HistoryIInv, HandsInv, FrameInv, FramePcs
  <2> DEFINE begun(s) == IF s = H!NoSession THEN ended.from ELSE H!Min({s.from, ended.from})
             closed == [sessions EXCEPT ![ended.id] = [from |-> begun(@), to |-> frame.ts]]
  <2>3. ended.id \in H!Ids /\ ended.from \in H!Times
    BY <2>2 DEF Charge
  <2>4. begun(sessions[ended.id]) \in H!Times
    <3>1. ASSUME sessions[ended.id] # H!NoSession
          PROVE  H!Min({sessions[ended.id].from, ended.from}) \in H!Times
      <4>1. sessions[ended.id].from \in H!Times
        BY <1>1, <2>3, <3>1 DEF H!SessionSets
      <4>2. {sessions[ended.id].from, ended.from} \in SUBSET H!Times
            /\ {sessions[ended.id].from, ended.from} # {}
        BY <2>3, <4>1
      <4>3. H!Min({sessions[ended.id].from, ended.from})
               \in {sessions[ended.id].from, ended.from}
        BY <1>2, <4>2, FirstInstant DEF HistoryAssumed
      <4> QED  BY <4>2, <4>3
    <3> QED  BY <2>3, <3>1
  <2>5. closed \in H!SessionSets
    <3>1. [from |-> begun(sessions[ended.id]), to |-> frame.ts]
             \in [from : H!Times, to : H!Times \cup {H!Ongoing}]
      BY <2>2, <2>4
    <3>2. closed = [sessions EXCEPT ![ended.id] =
                       [from |-> begun(sessions[ended.id]), to |-> frame.ts]]
      BY <1>1, <2>3 DEF H!SessionSets
    <3> HIDE DEF closed, begun
    <3> QED  BY <1>1, <2>3, <3>1, <3>2 DEF H!SessionSets
  <2>6. sessions' = closed \/ sessions' = sessions
    BY <1>17 DEF H!Persist
  <2>7. sessions' \in H!SessionSets
    <3> HIDE DEF closed
    <3> QED  BY <1>1, <2>5, <2>6
  <2>8. /\ step' = "idle" /\ frame' = H!NoFrame /\ ended' = H!NoCharge /\ step = "persist"
        /\ UNCHANGED <<now, repair, rows, periods, det, latest, lastId, received, restarts>>
    BY <1>17 DEF H!Persist
  <2> HIDE DEF closed, begun
  <2> QED  BY <1>1, <2>1, <2>7, <2>8 DEF FramePcs
<1>18. CASE UNCHANGED H!vars
  BY <1>1, <1>18 DEF H!vars, FramePcs
<1> QED  BY <1>7, <1>8, <1>9, <1>10, <1>11, <1>12, <1>13, <1>14, <1>15, <1>16, <1>17, <1>18
     DEF H!Next

-----------------------------------------------------------------------------
(* The tables *)

\* Rows may lose their session, sessions may end, and time may pass.
LEMMA TidyShrinks ==
  ASSUME HistoryAssumed, NEW rs, NEW ss, NEW qs, NEW ts, NEW last, NEW at \in Int,
         NEW later \in Int, at <= later, Tidy(rs, ss, last, at),
         \A i \in H!Ids : /\ H!Linked(qs, i) \subseteq H!Linked(rs, i)
                          /\ H!IsOpen(ts[i]) => H!IsOpen(ss[i])
                          /\ H!Linked(qs, i) # {} => ts[i] # H!NoSession
  PROVE  Tidy(qs, ts, last, later)
<1>1. Housed(qs, ts)
  BY DEF Housed
<1>2. Apart(qs, ts)
  BY DEF Tidy, Apart
<1>3. Ordered(qs, ts)
  BY DEF Tidy, Ordered
<1>4. OthersStale(qs, ts, last, later)
  <2> SUFFICES ASSUME NEW d \in H!Ids, H!IsOpen(ts[d]), d # last, NEW u \in H!Linked(qs, d)
               PROVE  u + Staleness < later
    BY DEF OthersStale
  <2>1. u + Staleness < at
    BY DEF Tidy, OthersStale
  <2>2. u \in Int /\ Staleness \in Int
    BY LinkedIs, Numbers
  <2> QED  BY <2>1, <2>2
<1> QED  BY <1>1, <1>2, <1>3, <1>4 DEF Tidy

\* Merging a late frame's session ends it, and takes it no rows that are near another open one's.
LEMMA TidyMerges ==
  ASSUME HistoryAssumed, NEW rs \in H!RowSets, NEW ss, NEW qs, NEW ts, NEW last, NEW at,
         NEW l \in H!Ids, NEW r \in H!Ids, r < l, Tidy(rs, ss, last, at), H!IsOpen(ss[l]),
         ss[r] # H!NoSession,
         NEW u \in H!Linked(rs, l), NEW t \in H!Linked(rs, r), u < t,
         H!Linked(qs, r) = {}, H!Linked(qs, l) = H!Linked(rs, l) \cup H!Linked(rs, r),
         ts[r] = H!NoSession, ts[l] # H!NoSession, ts[l].to = ss[r].to,
         \A i \in H!Ids : i # l /\ i # r =>
             H!Linked(qs, i) = H!Linked(rs, i) /\ ts[i] = ss[i]
  PROVE  Tidy(qs, ts, last, at)
<1>1. /\ \A i \in H!Ids : H!Linked(rs, i) \subseteq Int
      /\ MergeGap \in Nat /\ l \in Int /\ r \in Int /\ H!Ids \subseteq Int
  BY LinkedIs, Numbers
<1>2. ~H!IsOpen(ss[r])
  <2> SUFFICES ASSUME H!IsOpen(ss[r]) PROVE FALSE
    OBVIOUS
  <2>1. t + MergeGap < u
    BY DEF Tidy, Apart
  <2> QED  BY <1>1, <2>1
<1>3. ~H!IsOpen(ts[l]) /\ ~H!IsOpen(ts[r])
  BY <1>2 DEF H!IsOpen
<1>4. ASSUME NEW d \in H!Ids, H!IsOpen(ts[d])
      PROVE  /\ d # l /\ d # r /\ H!IsOpen(ss[d]) /\ H!Linked(qs, d) = H!Linked(rs, d)
  BY <1>3, <1>4
<1>5. Housed(qs, ts)
  BY DEF Tidy, Housed
<1>6. Apart(qs, ts)
  <2> SUFFICES ASSUME NEW d \in H!Ids, NEW e \in H!Ids, H!IsOpen(ts[d]), d < e,
                      NEW x \in H!Linked(qs, d), NEW y \in H!Linked(qs, e)
               PROVE  x + MergeGap < y
    BY DEF Apart
  <2>1. d # l /\ d # r /\ H!IsOpen(ss[d]) /\ x \in H!Linked(rs, d)
    BY <1>4
  <2>2. CASE y \in H!Linked(rs, e)
    BY <2>1, <2>2 DEF Tidy, Apart
  <2>3. CASE y \notin H!Linked(rs, e)
    <3>1. e = l /\ y \in H!Linked(rs, r)
      BY <2>3
    <3>2. CASE d < r
      BY <2>1, <3>1, <3>2 DEF Tidy, Apart
    <3>3. CASE r < d
      <4>1. x + MergeGap < u
        BY <2>1, <3>1 DEF Tidy, Apart
      <4>2. t <= x + 1
        BY <2>1, <3>3 DEF Tidy, Ordered
      <4>3. x \in Int /\ u \in Int /\ t \in Int
        BY <1>1, <2>1
      <4> QED  BY <1>1, <4>1, <4>2, <4>3
    <3> QED  BY <1>1, <2>1, <3>2, <3>3
  <2> QED  BY <2>2, <2>3
<1>7. Ordered(qs, ts)
  <2> SUFFICES ASSUME NEW d \in H!Ids, NEW e \in H!Ids, H!IsOpen(ts[d]), e < d,
                      NEW x \in H!Linked(qs, d), NEW y \in H!Linked(qs, e)
               PROVE  y <= x + 1
    BY DEF Ordered
  <2>1. H!IsOpen(ss[d]) /\ x \in H!Linked(rs, d)
    BY <1>4
  <2>2. CASE y \in H!Linked(rs, e)
    BY <2>1, <2>2 DEF Tidy, Ordered
  <2>3. CASE y \notin H!Linked(rs, e)
    <3>1. e = l /\ y \in H!Linked(rs, r)
      BY <2>3
    <3>2. r < d
      BY <1>1, <3>1
    <3> QED  BY <2>1, <3>1, <3>2 DEF Tidy, Ordered
  <2> QED  BY <2>2, <2>3
<1>8. OthersStale(qs, ts, last, at)
  <2> SUFFICES ASSUME NEW d \in H!Ids, H!IsOpen(ts[d]), d # last, NEW x \in H!Linked(qs, d)
               PROVE  x + Staleness < at
    BY DEF OthersStale
  <2>1. H!IsOpen(ss[d]) /\ x \in H!Linked(rs, d)
    BY <1>4
  <2> QED  BY <2>1 DEF Tidy, OthersStale
<1> QED  BY <1>5, <1>6, <1>7, <1>8 DEF Tidy

\* A row written for the newest session is not near those of another open one, and is the newest
\* but for a late frame.
LEMMA TidyWrites ==
  ASSUME HistoryAssumed, NEW rs, NEW ss, NEW qs, NEW last \in Int, NEW at \in Int,
         NEW w \in H!Times, at - 1 <= w, w <= at,
         Tidy(rs, ss, last, at), GivenOut(rs, ss, last, at), ss[last] # H!NoSession,
         \A i \in H!Ids : H!Linked(qs, i) \subseteq
             H!Linked(rs, i) \cup (IF i = last THEN {w} ELSE {})
  PROVE  Tidy(qs, ss, last, at)
<1>1. /\ \A i \in H!Ids : H!Linked(rs, i) \subseteq Int
      /\ MergeGap \in Nat /\ Staleness \in Nat /\ MergeGap < Staleness /\ w \in Int
      /\ H!Ids \subseteq Int
  BY LinkedIs, Numbers
<1>2. \A i \in H!Ids : i # last => H!Linked(qs, i) \subseteq H!Linked(rs, i)
  OBVIOUS
<1>3. \A i \in H!Ids : i > last => ss[i] = H!NoSession /\ H!Linked(rs, i) = {}
  BY DEF GivenOut
<1>4. \A i \in H!Ids : \A x \in H!Linked(rs, i) : x <= at
  BY DEF GivenOut, H!Linked
<1>5. Housed(qs, ss)
  BY <1>2 DEF Tidy, Housed
<1>6. Apart(qs, ss)
  <2> SUFFICES ASSUME NEW d \in H!Ids, NEW e \in H!Ids, H!IsOpen(ss[d]), d < e,
                      NEW x \in H!Linked(qs, d), NEW y \in H!Linked(qs, e)
               PROVE  x + MergeGap < y
    BY DEF Apart
  <2>1. d # last /\ x \in H!Linked(rs, d)
    <3>1. ~(e > last)
      BY <1>1, <1>2, <1>3
    <3> QED  BY <1>1, <1>2, <3>1
  <2>2. CASE y \in H!Linked(rs, e)
    BY <2>1, <2>2 DEF Tidy, Apart
  <2>3. CASE y \notin H!Linked(rs, e)
    <3>1. y = w
      BY <2>3
    <3>2. x + Staleness < at
      BY <2>1 DEF Tidy, OthersStale
    <3> QED  BY <1>1, <2>1, <3>1, <3>2
  <2> QED  BY <2>2, <2>3
<1>7. Ordered(qs, ss)
  <2> SUFFICES ASSUME NEW d \in H!Ids, NEW e \in H!Ids, H!IsOpen(ss[d]), e < d,
                      NEW x \in H!Linked(qs, d), NEW y \in H!Linked(qs, e)
               PROVE  y <= x + 1
    BY DEF Ordered
  <2>1. e # last /\ y \in H!Linked(rs, e)
    <3>1. ~(d > last)
      BY <1>3 DEF H!IsOpen
    <3> QED  BY <1>1, <1>2, <3>1
  <2>2. CASE x \in H!Linked(rs, d)
    BY <2>1, <2>2 DEF Tidy, Ordered
  <2>3. CASE x \notin H!Linked(rs, d)
    <3>1. x = w
      BY <2>3
    <3>2. y <= at
      BY <1>4, <2>1
    <3> QED  BY <1>1, <2>1, <3>1, <3>2
  <2> QED  BY <2>2, <2>3
<1>8. OthersStale(qs, ss, last, at)
  BY <1>2 DEF Tidy, OthersStale
<1> QED  BY <1>5, <1>6, <1>7, <1>8 DEF Tidy

\* A session that has just got its row has none of the telemetry.
LEMMA TidyOpens ==
  ASSUME HistoryAssumed, NEW rs, NEW ss, NEW ts, NEW last \in H!Ids, NEW at,
         Tidy(rs, ss, last, at), GivenOut(rs, ss, last, at), ss[last] = H!NoSession,
         ts[last] # H!NoSession, \A i \in H!Ids : i # last => ts[i] = ss[i]
  PROVE  Tidy(rs, ts, last, at)
<1>1. H!Linked(rs, last) = {}
  BY DEF Tidy, Housed
<1>2. Housed(rs, ts)
  BY DEF Tidy, Housed
<1>3. Apart(rs, ts)
  BY <1>1 DEF Tidy, Apart
<1>4. Ordered(rs, ts)
  BY <1>1 DEF Tidy, Ordered
<1>5. OthersStale(rs, ts, last, at)
  BY DEF Tidy, OthersStale
<1> QED  BY <1>2, <1>3, <1>4, <1>5 DEF Tidy

-----------------------------------------------------------------------------
(* Steps *)

\* A statement that has not failed after a step had not failed before it, and did not fail in it.
LEMMA NoFailure ==
  ASSUME HistoryIInv, [H!Next]_(H!vars), failures' = 0
  PROVE  failures = 0 /\ ~H!Faulty
<1>1. failures \in Nat
  BY DEF HistoryIInv, H!TypeOK
<1>2. failures' = failures \/ failures' = failures + 1
  BY DEF H!Next, H!Tick, H!Crash, H!Start, H!Heal, H!ListPairs, H!MergePair, H!CloseAndCommit,
         H!RollBack, H!Rehydrate, H!Reconcile, H!Receive, H!Ensure, H!Write, H!Period,
         H!Persist, H!Sound, H!Faulty, H!vars, H!budgets
<1> QED  BY <1>1, <1>2 DEF H!Faulty

\* The numbers of a state.
LEMMA StateNumbers ==
  ASSUME HistoryIInv
  PROVE  /\ now \in Nat /\ lastId \in Nat /\ failures \in Nat /\ lastId <= MaxSessions
         /\ \A i \in H!Ids : H!Linked(rows, i) \subseteq Nat
         /\ Staleness \in Nat
BY Numbers, LinkedIs DEF HistoryIInv, H!TypeOK

\* A frame keeps its time while it is in hand, and so does the clock.
LEMMA FrameKept ==
  ASSUME HistoryIInv, [H!Next]_(H!vars)
  PROVE  FrameInv'
<1>1. CASE H!Receive
  <2>1. now' = now /\ now \in Nat
    BY <1>1, StateNumbers DEF H!Receive
  <2> QED  BY <1>1, <2>1, ReceiveIs DEF FrameInv
<1>2. CASE H!Tick
  BY <1>2 DEF H!Tick, H!memory, FrameInv, FramePcs
<1>3. CASE ~(H!Receive \/ H!Tick)
  <2>1. \/ step' \notin FramePcs
        \/ step \in FramePcs /\ frame' = frame /\ now' = now
    BY <1>3 DEF H!Next, H!Crash, H!Start, H!Heal, H!ListPairs, H!MergePair, H!CloseAndCommit,
           H!RollBack, H!Rehydrate, H!Reconcile, H!Ensure, H!Write, H!Period, H!Persist,
           H!vars, H!memory, H!volatile, FramePcs
  <2> QED  BY <2>1 DEF FrameInv, HistoryIInv
<1> QED  BY <1>1, <1>2, <1>3

\* A row's session, once ensured, is open; others are as they were.
LEMMA EnsureIs ==
  ASSUME HistoryIInv, H!Ensure
  PROVE  /\ H!Stamp \in H!Ids /\ H!Stamp <= lastId /\ UNCHANGED <<now, rows, lastId, det, ended>>
         /\ \A i \in H!Ids : i # H!Stamp => sessions'[i] = sessions[i]
         /\ sessions[H!Stamp] # H!NoSession => sessions' = sessions
         /\ sessions[H!Stamp] = H!NoSession => \/ H!Faulty /\ sessions' = sessions
                                               \/ H!IsOpen(sessions'[H!Stamp])
<1>1. H!Stamp \in H!Ids /\ H!Stamp <= lastId /\ UNCHANGED <<now, rows, lastId, det, ended>>
  BY StampIs, ChargeIs, Numbers DEF H!Ensure, HistoryIInv, H!volatile
<1>2. H!TypeOK
  BY DEF HistoryIInv
<1>3. CASE sessions' = sessions /\ (H!Faulty \/ sessions[H!Stamp] # H!NoSession)
  BY <1>1, <1>3
<1>4. CASE /\ sessions[H!Stamp] = H!NoSession
           /\ sessions' = [sessions EXCEPT ![H!Stamp] =
                              [from |-> H!First(H!Stamp), to |-> H!Ongoing]]
  <2>1. /\ sessions'[H!Stamp] = [from |-> H!First(H!Stamp), to |-> H!Ongoing]
        /\ \A i \in H!Ids : i # H!Stamp => sessions'[i] = sessions[i]
    BY <1>1, <1>2, <1>4 DEF H!TypeOK, H!SessionSets
  <2>2. H!First(H!Stamp) \in H!Times
    <3>1. H!Linked(rows, H!Stamp) \in SUBSET H!Times
      BY LinkedIs
    <3>2. frame.ts \in H!Times
      BY DEF H!Ensure, HistoryIInv, FrameInv, FramePcs
    <3>3. H!Linked(rows, H!Stamp) # {} => H!Min(H!Linked(rows, H!Stamp)) \in H!Times
      BY <3>1, FirstInstant DEF HistoryIInv, HistoryAssumed
    <3> QED  BY <3>2, <3>3 DEF H!First
  <2>3. H!First(H!Stamp) # 0
    BY <2>2, Numbers DEF HistoryIInv
  <2>4. H!IsOpen(sessions'[H!Stamp])
    BY <2>1, <2>3 DEF H!IsOpen, H!NoSession
  <2> QED  BY <1>1, <1>4, <2>1, <2>4
<1> QED  BY <1>3, <1>4 DEF H!Ensure

\* Nothing but the ended session is written at its end.
LEMMA PersistIs ==
  ASSUME HistoryIInv, H!Persist
  PROVE  /\ ended # H!NoCharge /\ det = H!NoCharge /\ ended.id \in H!Ids /\ ended.id <= lastId
         /\ UNCHANGED <<now, rows, lastId, det>> /\ ended' = H!NoCharge
         /\ \A i \in H!Ids : i # ended.id => sessions'[i] = sessions[i]
         /\ \/ H!Faulty /\ sessions' = sessions
            \/ sessions'[ended.id] # H!NoSession /\ ~H!IsOpen(sessions'[ended.id])
<1>1. /\ ended # H!NoCharge /\ det = H!NoCharge /\ UNCHANGED <<now, rows, lastId, det>>
      /\ ended' = H!NoCharge /\ H!TypeOK
  BY DEF H!Persist, HistoryIInv, HandsInv
<1>2. ended.id \in H!Ids /\ ended.id <= lastId
  BY <1>1, StampIs, ChargeIs DEF HistoryIInv
<1>3. frame.ts \in H!Times /\ frame.ts # 0
  BY Numbers DEF H!Persist, HistoryIInv, FrameInv, FramePcs
<1>4. CASE H!Faulty /\ sessions' = sessions
  BY <1>1, <1>2, <1>4
<1>5. CASE ~(H!Faulty /\ sessions' = sessions)
  <2>1. sessions' = [sessions EXCEPT ![ended.id] =
          [from |-> IF @ = H!NoSession THEN ended.from ELSE H!Min({@.from, ended.from}),
           to   |-> frame.ts]]
    BY <1>5 DEF H!Persist
  <2>2. /\ sessions'[ended.id].to = frame.ts
        /\ \A i \in H!Ids : i # ended.id => sessions'[i] = sessions[i]
    BY <1>1, <1>2, <2>1 DEF H!TypeOK, H!SessionSets
  <2>3. sessions'[ended.id] # H!NoSession /\ ~H!IsOpen(sessions'[ended.id])
    BY <1>3, <2>2 DEF H!IsOpen, H!NoSession, H!Ongoing
  <2> QED  BY <1>1, <1>2, <2>2, <2>3
<1> QED  BY <1>4, <1>5

\* The tables keep what holds of them.
LEMMA TablesKept ==
  ASSUME HistoryIInv, [H!Next]_(H!vars)
  PROVE  TablesInv'
<1> USE DEF H!volatile, H!budgets, H!stored, H!memory
<1>1. GivenOut(rows, sessions, lastId, now) /\ HistoryAssumed
  BY DEF HistoryIInv, TablesInv
<1>2. failures' = 0 => failures = 0 /\ ~H!Faulty /\ Tidy(rows, sessions, lastId, now)
  BY NoFailure DEF HistoryIInv, TablesInv
<1>3. now \in Int /\ lastId \in Int /\ H!Ids \subseteq Int
  BY StateNumbers, Numbers DEF HistoryIInv
<1>4. CASE UNCHANGED <<rows, sessions, lastId, now>>
  BY <1>1, <1>2, <1>4 DEF TablesInv
<1>5. CASE H!Tick
  <2>1. UNCHANGED <<rows, sessions, lastId>> /\ now' = now + 1
    BY <1>5 DEF H!Tick
  <2>2. GivenOut(rows', sessions', lastId', now')
    <3>1. H!Stored(rows) \subseteq Int
      BY Numbers, <1>1 DEF H!Stored
    <3> QED  BY <1>1, <1>3, <2>1, <3>1 DEF GivenOut
  <2>3. ASSUME failures' = 0 PROVE Tidy(rows', sessions', lastId', now')
    <3>1. \A i \in H!Ids : H!Linked(rows, i) # {} => sessions[i] # H!NoSession
      BY <1>2, <2>3 DEF Tidy, Housed
    <3>2. now <= now' /\ now' \in Int
      BY <1>3, <2>1
    <3>3. Tidy(rows, sessions, lastId, now')
      BY <1>1, <1>2, <1>3, <2>3, <3>1, <3>2, TidyShrinks
    <3> QED  BY <2>1, <3>3
  <2> QED  BY <2>2, <2>3 DEF TablesInv
<1>6. CASE H!CloseAndCommit /\ H!Heal
  <2>1. /\ rows' = repair.rows /\ sessions' = H!Close(repair.rows, repair.sessions)
        /\ UNCHANGED <<lastId, now>> /\ step = "merge"
    BY <1>6 DEF H!CloseAndCommit, H!Heal
  <2>2. /\ GivenOut(repair.rows, repair.sessions, lastId, now)
        /\ failures = 0 => Tidy(repair.rows, repair.sessions, lastId, now)
        /\ repair.sessions \in H!SessionSets
    BY <2>1 DEF HistoryIInv, RepairInv, H!TypeOK
  <2>3. \A i \in H!Ids : /\ H!IsOpen(sessions'[i]) => H!IsOpen(repair.sessions[i])
                         /\ sessions'[i] = H!NoSession <=> repair.sessions[i] = H!NoSession
    BY <1>1, <2>1, <2>2, CloseIs
  <2>4. GivenOut(rows', sessions', lastId', now')
    BY <2>1, <2>2, <2>3 DEF GivenOut
  <2>5. ASSUME failures' = 0 PROVE Tidy(rows', sessions', lastId', now')
    <3>1. Tidy(repair.rows, repair.sessions, lastId, now)
      BY <1>2, <2>2, <2>5
    <3>2. \A i \in H!Ids : H!Linked(repair.rows, i) # {} => sessions'[i] # H!NoSession
      BY <2>3, <3>1 DEF Tidy, Housed
    <3>3. Tidy(repair.rows, sessions', lastId, now)
      BY <1>1, <1>3, <2>3, <3>1, <3>2, TidyShrinks
    <3> QED  BY <2>1, <3>3
  <2> QED  BY <2>4, <2>5 DEF TablesInv
<1>7. CASE H!Receive
  <2>1. UNCHANGED <<rows, sessions, now>> /\ step = "idle"
    BY <1>7 DEF H!Receive
  <2>2. lastId' = lastId \/ (det = H!NoCharge /\ lastId' = lastId + 1)
    BY <1>7, ReceiveIs
  <2>3. GivenOut(rows', sessions', lastId', now')
    BY <1>1, <1>3, <2>1, <2>2 DEF GivenOut
  <2>4. ASSUME failures' = 0 PROVE Tidy(rows', sessions', lastId', now')
    <3>1. CASE lastId' = lastId
      BY <1>2, <2>1, <2>4, <3>1
    <3>2. CASE det = H!NoCharge /\ lastId' = lastId + 1
      <4>1. ended = H!NoCharge
        BY <2>1 DEF HistoryIInv, H!TypeOK
      <4>2. OthersStale(rows, sessions, lastId', now)
        BY <1>2, <2>1, <2>4, <3>2, <4>1 DEF HistoryIInv, FreeInv, OthersStale
      <4> QED  BY <1>2, <2>1, <2>4, <4>2 DEF Tidy
    <3> QED  BY <2>2, <3>1, <3>2
  <2> QED  BY <2>3, <2>4 DEF TablesInv
<1>8. CASE H!Ensure
  <2>1. GivenOut(rows', sessions', lastId', now')
    <3>1. H!Stamp \in Int
      BY <1>3, <1>8, EnsureIs
    <3> QED  BY <1>1, <1>3, <1>8, <3>1, EnsureIs DEF GivenOut
  <2>2. ASSUME failures' = 0 PROVE Tidy(rows', sessions', lastId', now')
    <3>1. CASE sessions' = sessions
      BY <1>2, <1>8, <2>2, <3>1, EnsureIs
    <3>2. CASE sessions' # sessions
      <4>1. /\ sessions[H!Stamp] = H!NoSession /\ H!IsOpen(sessions'[H!Stamp])
            /\ H!Stamp \in H!Ids /\ UNCHANGED <<now, rows, lastId>>
            /\ \A i \in H!Ids : i # H!Stamp => sessions'[i] = sessions[i]
        BY <1>8, <3>2, EnsureIs
      <4>2. H!Stamp = lastId
        BY <1>2, <2>2, <4>1, StampIs, Numbers DEF HistoryIInv
      <4>3. sessions'[lastId] # H!NoSession
        BY <4>1, <4>2 DEF H!IsOpen
      <4>4. Tidy(rows, sessions', lastId, now)
        BY <1>1, <1>2, <2>2, <4>1, <4>2, <4>3, TidyOpens
      <4> QED  BY <4>1, <4>4
    <3> QED  BY <3>1, <3>2
  <2> QED  BY <2>1, <2>2 DEF TablesInv
<1>9. CASE H!Write
  <2>1. UNCHANGED <<sessions, now, lastId>> /\ step = "write"
    BY <1>9 DEF H!Write
  <2>2. CASE rows' = rows
    BY <1>4, <2>1, <2>2
  <2>3. CASE rows' # rows
    <3>1. rows' = H!Upserted
      BY <1>9, <2>3 DEF H!Write
    <3>2. /\ H!Stored(rows') \subseteq H!Stored(rows) \cup {frame.ts}
          /\ \A i \in H!Ids : H!Linked(rows', i) \subseteq H!Linked(rows, i) \cup
                (IF i = H!Stamp THEN {frame.ts} ELSE {})
      BY <1>1, <2>1, <3>1, UpsertIs, StampIs DEF HistoryIInv
    <3>3. frame.ts \in H!Times /\ now - 1 <= frame.ts /\ frame.ts <= now
      BY <2>1 DEF HistoryIInv, FrameInv, FramePcs
    <3>4. GivenOut(rows', sessions', lastId', now')
      <4>1. \A t \in H!Stored(rows') : t <= now
        BY <1>1, <3>2, <3>3 DEF GivenOut
      <4>2. ASSUME NEW i \in H!Ids, i > lastId PROVE H!Linked(rows', i) = {}
        <5>1. i # H!Stamp
          BY <1>3, <4>2, StampIs, Numbers DEF HistoryIInv
        <5> QED  BY <1>1, <3>2, <4>2, <5>1 DEF GivenOut
      <4> QED  BY <1>1, <2>1, <4>1, <4>2 DEF GivenOut
    <3>5. ASSUME failures' = 0 PROVE Tidy(rows', sessions', lastId', now')
      <4>1. CASE H!Stamp = 0
        <5>1. \A i \in H!Ids : H!Linked(rows', i) \subseteq H!Linked(rows, i)
          BY <3>2, <4>1, Numbers DEF HistoryIInv
        <5>2. \A i \in H!Ids : H!Linked(rows', i) # {} => sessions[i] # H!NoSession
          BY <1>2, <3>5, <5>1 DEF Tidy, Housed
        <5>3. now <= now
          BY <1>3
        <5>4. Tidy(rows', sessions, lastId, now)
          BY <1>1, <1>2, <1>3, <3>5, <5>1, <5>2, <5>3, TidyShrinks
        <5> QED  BY <2>1, <5>4
      <4>2. CASE H!Stamp # 0
        <5>1. H!Stamp = lastId /\ lastId \in H!Ids
          BY <1>2, <3>5, <4>2, StampIs
        <5>2. H!IsOpen(sessions[lastId])
          <6>1. /\ InHand(det) /\ InHand(ended) /\ failures = 0 /\ step # "ensure"
                /\ det # H!NoCharge \/ ended # H!NoCharge
            BY <1>2, <2>1, <3>5, <4>2, StampIs DEF HistoryIInv, HandsInv
          <6> QED  BY <6>1 DEF InHand
        <5>3. sessions[lastId] # H!NoSession
          BY <5>2 DEF H!IsOpen
        <5>4. Tidy(rows', sessions, lastId, now)
          BY <1>1, <1>2, <1>3, <3>2, <3>3, <3>5, <5>1, <5>3, TidyWrites
        <5> QED  BY <2>1, <5>4
      <4> QED  BY <4>1, <4>2
    <3> QED  BY <3>4, <3>5 DEF TablesInv
  <2> QED  BY <2>2, <2>3
<1>10. CASE H!Persist
  <2>1. GivenOut(rows', sessions', lastId', now')
    <3>1. ended.id \in Int
      BY <1>3, <1>10, PersistIs
    <3> QED  BY <1>1, <1>3, <1>10, <3>1, PersistIs DEF GivenOut
  <2>2. ASSUME failures' = 0 PROVE Tidy(rows', sessions', lastId', now')
    <3>1. /\ \A i \in H!Ids : i # ended.id => sessions'[i] = sessions[i]
          /\ sessions'[ended.id] # H!NoSession /\ ~H!IsOpen(sessions'[ended.id])
          /\ UNCHANGED <<now, rows, lastId>>
      BY <1>2, <1>10, <2>2, PersistIs
    <3>2. \A i \in H!Ids : /\ H!IsOpen(sessions'[i]) => H!IsOpen(sessions[i])
                           /\ H!Linked(rows, i) # {} => sessions'[i] # H!NoSession
      BY <1>2, <2>2, <3>1 DEF Tidy, Housed
    <3>3. now <= now
      BY <1>3
    <3>4. Tidy(rows, sessions', lastId, now)
      BY <1>1, <1>2, <1>3, <2>2, <3>2, <3>3, TidyShrinks
    <3> QED  BY <3>1, <3>4
  <2> QED  BY <2>1, <2>2 DEF TablesInv
<1>11. CASE ~(\/ H!Tick \/ (H!CloseAndCommit /\ H!Heal) \/ H!Receive \/ H!Ensure \/ H!Write
              \/ H!Persist)
  <2>1. UNCHANGED <<rows, sessions, lastId, now>>
    BY <1>11 DEF H!Next, H!Crash, H!Start, H!Heal, H!ListPairs, H!MergePair, H!RollBack,
           H!Rehydrate, H!Reconcile, H!Period, H!vars
  <2> QED  BY <1>4, <2>1
<1> QED  BY <1>5, <1>6, <1>7, <1>8, <1>9, <1>10, <1>11

\* A session that a restart takes up has rows, is not closed, and no other has later ones.
LEMMA RehydrateIs ==
  ASSUME HistoryIInv, H!Rehydrate, det' # H!NoCharge
  PROVE  /\ ~H!Faulty /\ det'.id \in H!Ids /\ H!Linked(rows, det'.id) # {}
         /\ sessions[det'.id] = H!NoSession \/ H!IsOpen(sessions[det'.id])
         /\ \E u \in H!Linked(rows, det'.id) : u >= now - Staleness
<1>1. ~H!Faulty /\ \E i \in H!Resumable : det' = H!Snapshot(i)
  <2>1. H!Sound /\ \E i \in H!Resumable : det' = H!Snapshot(i)
    BY DEF H!Rehydrate
  <2>2. failures \in Nat
    BY StateNumbers
  <2> QED  BY <2>1, <2>2 DEF H!Sound, H!Faulty
<1>2. PICK i \in H!Resumable : det' = H!Snapshot(i)
  BY <1>1
<1>3. /\ i \in H!Ids /\ H!Linked(rows, i) # {} /\ H!Snapshot(i).last >= now - Staleness
      /\ sessions[i] = H!NoSession \/ H!IsOpen(sessions[i])
  BY <1>2 DEF H!Resumable
<1>4. det'.id = i /\ H!Snapshot(i).last = H!Max(H!Linked(rows, i))
  BY <1>2 DEF H!Snapshot
<1>5. H!Max(H!Linked(rows, i)) \in H!Linked(rows, i)
  <2>1. H!Linked(rows, i) \in SUBSET H!Times
    BY LinkedIs
  <2> QED  BY <1>3, <2>1, LastInstant DEF HistoryIInv, HistoryAssumed
<1> QED  BY <1>1, <1>3, <1>4, <1>5

\* What is in hand keeps its id and its session.
LEMMA HandsKept ==
  ASSUME HistoryIInv, [H!Next]_(H!vars)
  PROVE  HandsInv'
<1> USE DEF H!volatile, H!budgets, H!stored, H!memory
<1>1. HandsInv /\ GivenOut(rows, sessions, lastId, now) /\ HistoryAssumed
  BY DEF HistoryIInv, TablesInv
<1>2. failures' = 0 => failures = 0 /\ ~H!Faulty /\ Tidy(rows, sessions, lastId, now)
  BY NoFailure DEF HistoryIInv, TablesInv
<1>3. now \in Int /\ lastId \in Int /\ H!Ids \subseteq Int /\ Staleness \in Int
  BY StateNumbers, Numbers DEF HistoryIInv
<1>4. ended # H!NoCharge => step \in FramePcs
  BY DEF HistoryIInv, H!TypeOK, FramePcs
<1>5. CASE /\ UNCHANGED <<det, ended, sessions, lastId>> /\ (step' = "ensure" => step = "ensure")
           /\ step = "ensure" => step' = "ensure"
           /\ det # H!NoCharge => step' \in {"tail", "idle"} \cup FramePcs
           /\ step' = "persist" => ended # H!NoCharge
  BY <1>1, <1>2, <1>5 DEF HandsInv, InHand
<1>6. CASE H!Tick
  BY <1>1, <1>5, <1>6 DEF H!Tick, HandsInv
<1>7. CASE det' = H!NoCharge /\ ended' = H!NoCharge /\ step' \notin {"ensure", "persist"}
  BY <1>7 DEF HandsInv, InHand
<1>8. CASE H!Crash
  BY <1>7, <1>8 DEF H!Crash
<1>9. CASE H!Start \/ H!Heal
  <2>1. step \in {"down", "heal", "merge"} /\ step' \in {"heal", "merge", "rehydrate"}
        /\ UNCHANGED <<det, ended>>
    BY <1>9 DEF H!Start, H!Heal, H!ListPairs, H!MergePair, H!CloseAndCommit, H!RollBack
  <2>2. det = H!NoCharge /\ ended = H!NoCharge
    BY <1>1, <1>4, <2>1 DEF HandsInv, FramePcs
  <2> QED  BY <1>7, <2>1, <2>2
<1>10. CASE H!Rehydrate
  <2>1. /\ step = "rehydrate" /\ step' = "tail" /\ UNCHANGED <<rows, sessions, lastId, ended>>
    BY <1>10 DEF H!Rehydrate
  <2>2. ended = H!NoCharge
    BY <1>4, <2>1 DEF FramePcs
  <2>3. CASE det' = H!NoCharge
    BY <1>7, <2>1, <2>2, <2>3
  <2>4. CASE det' # H!NoCharge
    <3> DEFINE i == det'.id
    <3>1. /\ i \in H!Ids /\ H!Linked(rows, i) # {}
          /\ sessions[i] = H!NoSession \/ H!IsOpen(sessions[i])
          /\ \E u \in H!Linked(rows, i) : u >= now - Staleness
      BY <1>10, <2>4, RehydrateIs
    <3> HIDE DEF i
    <3>2. i <= lastId
      BY <1>1, <1>3, <3>1 DEF GivenOut
    <3>3. ASSUME failures' = 0 PROVE i = lastId /\ H!IsOpen(sessions[i])
      <4>1. H!IsOpen(sessions[i])
        BY <1>2, <3>1, <3>3 DEF Tidy, Housed
      <4>2. PICK u \in H!Linked(rows, i) : u >= now - Staleness
        BY <3>1
      <4>3. u \in Int
        BY <3>1, StateNumbers
      <4>4. ~(u + Staleness < now)
        BY <1>3, <4>2, <4>3
      <4> QED  BY <1>2, <3>1, <3>3, <4>1, <4>4 DEF Tidy, OthersStale
    <3>4. InHand(det)'
      BY <2>1, <3>1, <3>2, <3>3 DEF InHand, i
    <3>5. InHand(ended)'
      BY <2>1, <2>2 DEF InHand
    <3> QED  BY <2>1, <2>2, <3>4, <3>5 DEF HandsInv
  <2> QED  BY <2>3, <2>4
<1>11. CASE H!Reconcile
  <2>1. step' = "idle" /\ step \in {"tail", "idle"} /\ UNCHANGED <<det, ended, sessions, lastId>>
    BY <1>11 DEF H!Reconcile
  <2> QED  BY <1>5, <2>1
<1>12. CASE H!Receive
  <2>1. UNCHANGED <<rows, sessions, now>> /\ step = "idle" /\ failures' = failures
    BY <1>12 DEF H!Receive
  <2>2. ended = H!NoCharge
    BY <1>4, <2>1 DEF FramePcs
  <2>3. /\ det' = H!NoCharge /\ ended' = H!NoCharge => step' = "write"
        /\ det' # H!NoCharge \/ ended' # H!NoCharge => step' = "ensure"
        /\ \/ det' = det /\ ended' = H!NoCharge /\ lastId' = lastId
           \/ /\ det = H!NoCharge /\ det' \in Charge /\ ended' = H!NoCharge
              /\ det'.id = lastId + 1 /\ lastId' = lastId + 1
           \/ /\ det # H!NoCharge /\ det' = H!NoCharge /\ ended' \in Charge
              /\ ended'.id = det.id /\ lastId' = lastId
           \/ /\ det # H!NoCharge /\ det' \in Charge /\ det'.id = det.id
              /\ ended' = H!NoCharge /\ lastId' = lastId
    BY <1>12, ReceiveIs
  <2>4. InHand(det) /\ step' \in {"write", "ensure"}
    BY <1>1, <2>3 DEF HandsInv
  <2>5. InHand(det)' /\ InHand(ended)' /\ (det' # H!NoCharge => ended' = H!NoCharge)
    <3>1. CASE det' = det /\ ended' = H!NoCharge /\ lastId' = lastId
      BY <2>1, <2>3, <2>4, <3>1 DEF InHand
    <3>2. CASE /\ det = H!NoCharge /\ det' \in Charge /\ ended' = H!NoCharge
               /\ det'.id = lastId + 1 /\ lastId' = lastId + 1
      <4>1. det'.id \in H!Ids /\ det'.id > lastId /\ det'.id <= lastId' /\ det' # H!NoCharge
        BY <1>1, <1>3, <3>2, ChargeIs
      <4>2. sessions'[det'.id] = H!NoSession
        BY <1>1, <2>1, <4>1 DEF GivenOut
      <4> QED  BY <2>3, <3>2, <4>1, <4>2 DEF InHand
    <3>3. CASE /\ det # H!NoCharge /\ det' = H!NoCharge /\ ended' \in Charge
               /\ ended'.id = det.id /\ lastId' = lastId
      <4>1. step' = "ensure"
        BY <1>1, <2>3, <3>3, ChargeIs
      <4> QED  BY <2>1, <2>4, <3>3, <4>1 DEF InHand
    <3>4. CASE /\ det # H!NoCharge /\ det' \in Charge /\ det'.id = det.id
               /\ ended' = H!NoCharge /\ lastId' = lastId
      <4>1. step' = "ensure"
        BY <1>1, <2>3, <3>4, ChargeIs
      <4> QED  BY <2>1, <2>4, <3>4, <4>1 DEF InHand
    <3> QED  BY <2>3, <3>1, <3>2, <3>3, <3>4
  <2>6. step' \in FramePcs /\ step' # "persist"
    BY <2>4 DEF FramePcs
  <2> QED  BY <2>3, <2>5, <2>6 DEF HandsInv
<1>13. CASE H!Ensure
  <2>1. step = "ensure" /\ step' = "write"
    BY <1>13 DEF H!Ensure
  <2>2. /\ H!Stamp \in H!Ids /\ UNCHANGED <<lastId, det, ended>>
        /\ \A i \in H!Ids : i # H!Stamp => sessions'[i] = sessions[i]
        /\ sessions[H!Stamp] # H!NoSession => sessions' = sessions
        /\ sessions[H!Stamp] = H!NoSession => \/ H!Faulty /\ sessions' = sessions
                                              \/ H!IsOpen(sessions'[H!Stamp])
    BY <1>13, EnsureIs
  <2>3. /\ H!Stamp <= lastId
        /\ sessions[H!Stamp] = H!NoSession \/ H!IsOpen(sessions[H!Stamp])
        /\ failures = 0 => H!Stamp = lastId
        /\ ended # H!NoCharge => H!Stamp = ended.id
        /\ det # H!NoCharge => H!Stamp = det.id
    BY <2>2, StampIs, Numbers DEF HistoryIInv
  <2>4. /\ sessions'[H!Stamp] = H!NoSession \/ H!IsOpen(sessions'[H!Stamp])
        /\ failures' = 0 => H!Stamp = lastId /\ H!IsOpen(sessions'[H!Stamp])
    BY <1>2, <2>2, <2>3
  <2>5. InHand(det)' /\ InHand(ended)'
    BY <2>1, <2>2, <2>3, <2>4 DEF InHand
  <2>6. step' \in FramePcs /\ step' # "ensure" /\ step' # "persist"
    BY <2>1 DEF FramePcs
  <2> QED  BY <1>1, <2>2, <2>5, <2>6 DEF HandsInv
<1>14. CASE H!Write
  <2>1. step = "write" /\ step' = "period" /\ UNCHANGED <<det, ended, sessions, lastId>>
    BY <1>14 DEF H!Write
  <2>2. step' \in FramePcs
    BY <2>1 DEF FramePcs
  <2> QED  BY <1>5, <2>1, <2>2
<1>15. CASE H!Period
  <2>1. /\ step = "period" /\ UNCHANGED <<det, ended, sessions, lastId>>
        /\ step' = IF ended # H!NoCharge THEN "persist" ELSE "idle"
    BY <1>15 DEF H!Period
  <2>2. step' \in {"idle"} \cup FramePcs
    BY <2>1 DEF FramePcs
  <2>3. step' # "ensure" /\ (step' = "persist" => ended # H!NoCharge)
    BY <2>1
  <2> QED  BY <1>5, <2>1, <2>2, <2>3
<1>16. CASE H!Persist
  <2>1. step' = "idle"
    BY <1>16 DEF H!Persist
  <2> QED  BY <1>7, <1>16, <2>1, PersistIs
<1>17. CASE UNCHANGED H!vars
  BY <1>1, <1>5, <1>17 DEF H!vars, HandsInv
<1> QED  BY <1>6, <1>8, <1>9, <1>10, <1>11, <1>12, <1>13, <1>14, <1>15, <1>16, <1>17 DEF H!Next

\* With nothing in hand nothing recent is open.
LEMMA FreeKept ==
  ASSUME HistoryIInv, [H!Next]_(H!vars)
  PROVE  FreeInv'
<1> USE DEF H!volatile, H!budgets, H!stored, H!memory
<1>1. SUFFICES ASSUME failures' = 0, step' \in {"tail", "idle"} \cup FramePcs,
                      det' = H!NoCharge, ended' = H!NoCharge,
                      NEW i \in H!Ids, H!IsOpen(sessions'[i]), NEW u \in H!Linked(rows', i)
               PROVE  u + Staleness < now'
  BY DEF FreeInv
<1>2. failures = 0 /\ ~H!Faulty /\ Tidy(rows, sessions, lastId, now)
  BY <1>1, NoFailure DEF HistoryIInv, TablesInv
<1>3. now \in Int /\ Staleness \in Int /\ H!Linked(rows', i) \subseteq Int
  BY StateNumbers, Numbers, LinkedIs DEF HistoryIInv
<1>4. CASE /\ step \in {"tail", "idle"} \cup FramePcs /\ det = H!NoCharge /\ ended = H!NoCharge
           /\ sessions' = sessions /\ H!Linked(rows', i) \subseteq H!Linked(rows, i)
           /\ now <= now' /\ now' \in Int
  <2>1. u + Staleness < now
    BY <1>1, <1>2, <1>4 DEF HistoryIInv, FreeInv
  <2> QED  BY <1>1, <1>3, <1>4, <2>1
<1>5. CASE H!Tick
  <2>1. /\ UNCHANGED <<sessions, rows, step, det, ended>> /\ now' = now + 1
    BY <1>5 DEF H!Tick
  <2>2. now <= now' /\ now' \in Int
    BY <1>3, <2>1
  <2> QED  BY <1>1, <1>4, <2>1, <2>2
<1>6. CASE H!Crash \/ H!Start \/ H!Heal
  <2>1. step' \in {"down", "heal", "merge", "rehydrate"}
    BY <1>6 DEF H!Crash, H!Start, H!Heal, H!ListPairs, H!MergePair, H!CloseAndCommit,
           H!RollBack
  <2> QED  BY <1>1, <2>1 DEF FramePcs
<1>7. CASE H!Rehydrate
  <2>1. UNCHANGED <<sessions, rows, now>>
    BY <1>7 DEF H!Rehydrate
  <2>2. H!Resumable = {}
    <3>1. ASSUME NEW j \in H!Ids PROVE H!Snapshot(j) # H!NoCharge
      <4>1. H!Snapshot(j).id = j /\ H!NoCharge.id = 0
        BY DEF H!Snapshot, H!NoCharge
      <4> QED  BY <4>1, Numbers DEF HistoryIInv
    <3> QED  BY <1>1, <1>2, <1>7, <3>1 DEF H!Rehydrate, H!Resumable
  <2>3. H!Linked(rows, i) \in SUBSET H!Times /\ u \in H!Linked(rows, i)
    BY <1>1, <2>1, LinkedIs
  <2>4. H!Max(H!Linked(rows, i)) \in Int /\ u <= H!Max(H!Linked(rows, i))
    BY <2>3, LastInstant, Numbers DEF HistoryIInv, HistoryAssumed
  <2>5. ~(H!Snapshot(i).last >= now - Staleness)
    BY <1>1, <2>1, <2>2, <2>3 DEF H!Resumable
  <2>6. H!Snapshot(i).last = H!Max(H!Linked(rows, i))
    BY DEF H!Snapshot
  <2> QED  BY <1>3, <2>1, <2>3, <2>4, <2>5, <2>6
<1>8. CASE H!Reconcile
  BY <1>1, <1>3, <1>4, <1>8 DEF H!Reconcile
<1>9. CASE H!Receive
  <2>1. UNCHANGED <<rows, sessions, now>> /\ step = "idle"
    BY <1>9 DEF H!Receive
  <2>2. det = H!NoCharge
    BY <1>1, <1>9, ReceiveIs, ChargeIs DEF HistoryIInv
  <2>3. ended = H!NoCharge
    BY <2>1 DEF HistoryIInv, H!TypeOK
  <2> QED  BY <1>3, <1>4, <2>1, <2>2, <2>3
<1>10. CASE H!Ensure
  <2>1. step = "ensure" /\ UNCHANGED <<det, ended>>
    BY <1>10 DEF H!Ensure
  <2> QED  BY <1>1, <2>1 DEF HistoryIInv, HandsInv
<1>11. CASE H!Write
  <2>1. step = "write" /\ UNCHANGED <<det, ended, sessions, now>>
    BY <1>11 DEF H!Write
  <2>2. H!Stamp = 0
    BY <1>1, <2>1, StampIs
  <2>3. H!Linked(rows', i) \subseteq H!Linked(rows, i)
    <3>1. CASE rows' = rows
      BY <3>1
    <3>2. CASE rows' # rows
      <4>1. H!TypeOK /\ FrameInv /\ HistoryAssumed /\ rows' = H!Upserted /\ i # H!Stamp
        BY <1>11, <2>2, <3>2, Numbers DEF HistoryIInv, H!Write
      <4> QED  BY <2>1, <2>2, <4>1, UpsertIs
    <3> QED  BY <3>1, <3>2
  <2>4. step \in FramePcs
    BY <2>1 DEF FramePcs
  <2> QED  BY <1>1, <1>3, <1>4, <2>1, <2>3, <2>4
<1>12. CASE H!Period
  <2>1. step = "period" /\ UNCHANGED <<det, ended, sessions, rows, now>>
    BY <1>12 DEF H!Period
  <2>2. step \in FramePcs
    BY <2>1 DEF FramePcs
  <2> QED  BY <1>1, <1>3, <1>4, <2>1, <2>2
<1>13. CASE H!Persist
  <2>1. /\ ended # H!NoCharge /\ ended.id \in H!Ids /\ UNCHANGED <<now, rows, lastId>>
        /\ \A j \in H!Ids : j # ended.id => sessions'[j] = sessions[j]
        /\ ~H!IsOpen(sessions'[ended.id])
    BY <1>2, <1>13, PersistIs
  <2>2. ended.id = lastId
    BY <1>2, <2>1 DEF HistoryIInv, HandsInv, InHand
  <2>3. i # lastId /\ H!IsOpen(sessions[i])
    BY <1>1, <2>1, <2>2
  <2> QED  BY <1>1, <1>2, <2>1, <2>3 DEF Tidy, OthersStale
<1>14. CASE UNCHANGED H!vars
  BY <1>1, <1>3, <1>4, <1>14 DEF H!vars
<1> QED  BY <1>5, <1>6, <1>7, <1>8, <1>9, <1>10, <1>11, <1>12, <1>13, <1>14 DEF H!Next

-----------------------------------------------------------------------------
(* The startup repair *)

\* A merge of the pair p in the repair's copy of the tables.
Merging(p) ==
    /\ step = "merge" /\ step' = "merge" /\ p \in repair.pairs
    /\ repair' = H!Merge([repair EXCEPT !.pairs = @ \ {p}], p)
    /\ UNCHANGED <<rows, sessions, lastId, now>>

\* The pairs are of ids.
LEMMA PairIs ==
  ASSUME H!TypeOK, NEW q \in repair.pairs
  PROVE  q[1] \in H!Ids /\ q[2] \in H!Ids /\ q = <<q[1], q[2]>>
BY DEF H!TypeOK

\* A merge that changes the tables: its right session exists and is not its left one, and what
\* becomes of rows and sessions.
LEMMA MergingIs ==
  ASSUME HistoryIInv, NEW p \in repair.pairs, Merging(p)
  PROVE  /\ p[1] \in H!Ids /\ p[2] \in H!Ids /\ p[1] # p[2]
         /\ repair'.pairs = repair.pairs \ {p}
         /\ repair.rows \in H!RowSets /\ repair'.rows \in H!RowSets
         /\ \/ repair'.rows = repair.rows /\ repair'.sessions = repair.sessions
            \/ /\ repair.sessions[p[1]] # H!NoSession /\ repair.sessions[p[2]] # H!NoSession
               /\ \A t \in H!Times : repair'.rows[t] = IF repair.rows[t].by = p[2]
                     THEN [repair.rows[t] EXCEPT !.by = p[1]] ELSE repair.rows[t]
               /\ repair'.sessions[p[2]] = H!NoSession
               /\ repair'.sessions[p[1]] # H!NoSession
               /\ repair'.sessions[p[1]].to = repair.sessions[p[2]].to
               /\ \A i \in H!Ids : i # p[1] /\ i # p[2] =>
                     /\ repair'.sessions[i] = repair.sessions[i]
                     /\ H!Linked(repair'.rows, i) = H!Linked(repair.rows, i)
               /\ H!Stored(repair'.rows) = H!Stored(repair.rows)
               /\ H!Linked(repair'.rows, p[2]) = {}
               /\ H!Linked(repair'.rows, p[1]) =
                     H!Linked(repair.rows, p[1]) \cup H!Linked(repair.rows, p[2])
<1>1. /\ HistoryAssumed /\ H!TypeOK /\ repair.rows \in H!RowSets /\ p[1] # p[2]
      /\ repair' = H!Merge([repair EXCEPT !.pairs = @ \ {p}], p)
  BY DEF HistoryIInv, H!TypeOK, RepairInv, CopyInv, Merging
<1>2. /\ p[1] \in H!Ids /\ p[2] \in H!Ids
      /\ repair' \in [pairs : SUBSET (H!Ids \X H!Ids), rows : H!RowSets,
                      sessions : H!SessionSets]
      /\ repair'.pairs = repair.pairs \ {p}
      /\ \/ /\ repair.sessions[p[1]] = H!NoSession \/ repair.sessions[p[2]] = H!NoSession
            /\ repair'.rows = repair.rows /\ repair'.sessions = repair.sessions
         \/ /\ repair.sessions[p[1]] # H!NoSession /\ repair.sessions[p[2]] # H!NoSession
            /\ \A t \in H!Times : repair'.rows[t] = IF repair.rows[t].by = p[2]
                  THEN [repair.rows[t] EXCEPT !.by = p[1]] ELSE repair.rows[t]
            /\ repair'.sessions[p[2]] = H!NoSession
            /\ p[1] # p[2] => /\ repair'.sessions[p[1]] # H!NoSession
                              /\ repair'.sessions[p[1]].to = repair.sessions[p[2]].to
            /\ \A i \in H!Ids : i # p[1] /\ i # p[2] =>
                  repair'.sessions[i] = repair.sessions[i]
  BY <1>1, MergeIs
<1>3. repair'.rows \in H!RowSets
  BY <1>2
<1>4. CASE repair'.rows = repair.rows /\ repair'.sessions = repair.sessions
  BY <1>1, <1>2, <1>3, <1>4
<1>5. CASE ~(repair'.rows = repair.rows /\ repair'.sessions = repair.sessions)
  <2>1. \A t \in H!Times : repair'.rows[t] = IF repair.rows[t].by = p[2]
           THEN [repair.rows[t] EXCEPT !.by = p[1]] ELSE repair.rows[t]
    BY <1>2, <1>5
  <2>2. /\ H!Stored(repair'.rows) = H!Stored(repair.rows)
        /\ H!Linked(repair'.rows, p[2]) = {}
        /\ H!Linked(repair'.rows, p[1]) =
              H!Linked(repair.rows, p[1]) \cup H!Linked(repair.rows, p[2])
        /\ \A i \in H!Ids : i # p[1] /\ i # p[2] =>
              H!Linked(repair'.rows, i) = H!Linked(repair.rows, i)
    <3>1. /\ HistoryAssumed /\ p[1] \in H!Ids /\ p[2] \in H!Ids /\ p[1] # p[2]
          /\ repair.rows \in H!RowSets /\ repair'.rows \in H!RowSets
      BY <1>1, <1>2, <1>3
    <3>2. Handed(repair.rows, repair'.rows, p[1], p[2])
      BY <2>1 DEF Handed
    <3> QED  BY <3>1, <3>2, MergedRows
  <2> QED  BY <1>1, <1>2, <1>3, <1>5, <2>1, <2>2
<1> QED  BY <1>4, <1>5

\* A merge keeps what the repair's copy has of the tables.
LEMMA CopyKept ==
  ASSUME HistoryIInv, NEW p \in repair.pairs, Merging(p)
  PROVE  CopyInv' /\ GivenOut(repair'.rows, repair'.sessions, lastId, now)
<1>1. CopyInv /\ GivenOut(repair.rows, repair.sessions, lastId, now) /\ HistoryAssumed
      /\ UNCHANGED <<rows, sessions>>
  BY DEF HistoryIInv, RepairInv, Merging
<1>2. /\ p[1] \in H!Ids /\ p[2] \in H!Ids /\ p[1] # p[2]
      /\ repair'.pairs = repair.pairs \ {p}
  BY MergingIs
<1>3. CASE repair'.rows = repair.rows /\ repair'.sessions = repair.sessions
  BY <1>1, <1>2, <1>3 DEF CopyInv
<1>4. CASE ~(repair'.rows = repair.rows /\ repair'.sessions = repair.sessions)
  <2>1. /\ repair.sessions[p[1]] # H!NoSession /\ repair.sessions[p[2]] # H!NoSession
        /\ \A t \in H!Times : repair'.rows[t] = IF repair.rows[t].by = p[2]
              THEN [repair.rows[t] EXCEPT !.by = p[1]] ELSE repair.rows[t]
        /\ repair'.sessions[p[2]] = H!NoSession
        /\ repair'.sessions[p[1]] # H!NoSession
        /\ \A i \in H!Ids : i # p[1] /\ i # p[2] =>
              /\ repair'.sessions[i] = repair.sessions[i]
              /\ H!Linked(repair'.rows, i) = H!Linked(repair.rows, i)
        /\ H!Stored(repair'.rows) = H!Stored(repair.rows)
    BY <1>4, MergingIs
  <2>2. ASSUME NEW i \in H!Ids, sessions[i] # H!NoSession
        PROVE  /\ \/ repair'.sessions[i] = H!NoSession \/ H!IsOpen(sessions[i])
                  \/ repair'.sessions[i] = sessions[i]
               /\ \A t \in H!Linked(rows, i) :
                    /\ repair'.rows[t].by \in H!Ids
                    /\ repair'.sessions[repair'.rows[t].by] # H!NoSession
    <3>1. \/ repair'.sessions[i] = H!NoSession \/ H!IsOpen(sessions[i])
          \/ repair'.sessions[i] = sessions[i]
      BY <1>1, <2>1, <2>2 DEF CopyInv
    <3>2. ASSUME NEW t \in H!Linked(rows, i)
          PROVE  /\ repair'.rows[t].by \in H!Ids
                 /\ repair'.sessions[repair'.rows[t].by] # H!NoSession
      <4>1. /\ repair.rows[t].by \in H!Ids /\ t \in H!Times
            /\ repair.sessions[repair.rows[t].by] # H!NoSession
        BY <1>1, <2>2, LinkedIs DEF CopyInv
      <4>2. CASE repair.rows[t].by = p[2]
        <5>1. repair.rows[t] \in [power : H!Powers, charger : H!Chargers,
                                  by : -1 .. MaxSessions]
          BY <4>1 DEF HistoryIInv, H!TypeOK, H!RowSets
        <5>2. repair'.rows[t] = [repair.rows[t] EXCEPT !.by = p[1]]
          BY <2>1, <4>1, <4>2
        <5>3. repair'.rows[t].by = p[1]
          BY <5>1, <5>2
        <5> QED  BY <1>2, <2>1, <5>3
      <4>3. CASE repair.rows[t].by # p[2]
        <5>1. repair'.rows[t] = repair.rows[t]
          BY <2>1, <4>1, <4>3
        <5> QED  BY <2>1, <4>1, <4>3, <5>1
      <4> QED  BY <4>2, <4>3
    <3> QED  BY <3>1, <3>2
  <2>3. \A i \in H!Ids : sessions[i] = H!NoSession => repair'.sessions[i] = H!NoSession
    BY <1>1, <2>1 DEF CopyInv
  <2>4. \A q \in repair'.pairs : q[1] # q[2] /\ H!IsOpen(sessions[q[1]])
    BY <1>1, <1>2 DEF CopyInv
  <2>5. GivenOut(repair'.rows, repair'.sessions, lastId, now)
    BY <1>1, <1>2, <2>1 DEF GivenOut
  <2>6. CopyInv'
    BY <1>1, <2>2, <2>3, <2>4 DEF CopyInv
  <2> QED  BY <2>5, <2>6
<1> QED  BY <1>3, <1>4

\* While no statement has failed a merge keeps the copy tidy, and the other pairs' sessions.
LEMMA PairsKept ==
  ASSUME HistoryIInv, failures = 0, NEW p \in repair.pairs, Merging(p)
  PROVE  Tidy(repair'.rows, repair'.sessions, lastId, now) /\ PairsInv'
<1>1. Tidy(repair.rows, repair.sessions, lastId, now) /\ PairsInv /\ HistoryAssumed
  BY DEF HistoryIInv, RepairInv, Merging
<1>2. /\ p[1] \in H!Ids /\ p[2] \in H!Ids /\ p[1] # p[2]
      /\ repair'.pairs = repair.pairs \ {p} /\ repair.rows \in H!RowSets
      /\ repair'.rows \in H!RowSets
  BY MergingIs
<1>3. CASE repair'.rows = repair.rows /\ repair'.sessions = repair.sessions
  BY <1>1, <1>2, <1>3 DEF PairsInv
<1>4. CASE ~(repair'.rows = repair.rows /\ repair'.sessions = repair.sessions)
  <2>1. /\ repair.sessions[p[1]] # H!NoSession /\ repair.sessions[p[2]] # H!NoSession
        /\ repair'.sessions[p[2]] = H!NoSession
        /\ repair'.sessions[p[1]] # H!NoSession
        /\ repair'.sessions[p[1]].to = repair.sessions[p[2]].to
        /\ \A i \in H!Ids : i # p[1] /\ i # p[2] =>
              /\ repair'.sessions[i] = repair.sessions[i]
              /\ H!Linked(repair'.rows, i) = H!Linked(repair.rows, i)
        /\ H!Linked(repair'.rows, p[2]) = {}
        /\ H!Linked(repair'.rows, p[1]) =
              H!Linked(repair.rows, p[1]) \cup H!Linked(repair.rows, p[2])
    BY <1>4, MergingIs
  <2>2. /\ p[2] < p[1] /\ H!IsOpen(repair.sessions[p[1]])
        /\ \E u \in H!Linked(repair.rows, p[1]), t \in H!Linked(repair.rows, p[2]) : u < t
    BY <1>1, <2>1 DEF PairsInv
  <2>3. Tidy(repair'.rows, repair'.sessions, lastId, now)
    <3>1. PICK u \in H!Linked(repair.rows, p[1]), t \in H!Linked(repair.rows, p[2]) : u < t
      BY <2>2
    <3>2. /\ HistoryAssumed /\ repair.rows \in H!RowSets /\ p[1] \in H!Ids /\ p[2] \in H!Ids
          /\ p[2] < p[1] /\ Tidy(repair.rows, repair.sessions, lastId, now)
          /\ H!IsOpen(repair.sessions[p[1]]) /\ repair.sessions[p[2]] # H!NoSession
      BY <1>1, <1>2, <2>1, <2>2
    <3>3. \A i \in H!Ids : i # p[1] /\ i # p[2] =>
             /\ H!Linked(repair'.rows, i) = H!Linked(repair.rows, i)
             /\ repair'.sessions[i] = repair.sessions[i]
      BY <2>1
    <3> QED  BY <2>1, <3>1, <3>2, <3>3, TidyMerges
  <2>4. ASSUME NEW q \in repair'.pairs,
               repair'.sessions[q[1]] # H!NoSession, repair'.sessions[q[2]] # H!NoSession
        PROVE  /\ H!IsOpen(repair'.sessions[q[1]])
               /\ \E u \in H!Linked(repair'.rows, q[1]), t \in H!Linked(repair'.rows, q[2]) :
                     u < t
    <3>1. q \in repair.pairs /\ q # p
      BY <1>2
    <3>2. /\ q[1] \in H!Ids /\ q[2] \in H!Ids /\ (q[1] # p[1] \/ q[2] # p[2])
      BY <3>1, PairIs DEF HistoryIInv
    <3>3. q[1] # p[1] /\ q[2] # p[2] /\ q[1] # p[2]
      BY <1>1, <2>1, <2>4, <3>1, <3>2 DEF PairsInv
    <3>4. repair.sessions[q[1]] # H!NoSession /\ repair.sessions[q[2]] # H!NoSession
      BY <2>1, <2>4, <3>2, <3>3
    <3>5. /\ H!IsOpen(repair.sessions[q[1]])
          /\ \E u \in H!Linked(repair.rows, q[1]), t \in H!Linked(repair.rows, q[2]) : u < t
      BY <1>1, <3>1, <3>4 DEF PairsInv
    <3>6. /\ repair'.sessions[q[1]] = repair.sessions[q[1]]
          /\ H!Linked(repair'.rows, q[1]) = H!Linked(repair.rows, q[1])
          /\ H!Linked(repair.rows, q[2]) \subseteq H!Linked(repair'.rows, q[2])
      BY <2>1, <3>2, <3>3
    <3> QED  BY <3>5, <3>6
  <2>5. PairsInv'
    BY <1>1, <1>2, <2>4 DEF PairsInv
  <2> QED  BY <2>3, <2>5
<1> QED  BY <1>3, <1>4

\* Pairs are of an open session and another one. While no statement has failed, the other is the
\* earlier of the two.
LEMMA ListIs ==
  ASSUME HistoryIInv
  PROVE  \A p \in H!Candidates(rows, sessions) :
           /\ p \in H!Ids \X H!Ids /\ p[1] # p[2] /\ H!IsOpen(sessions[p[1]])
           /\ \A q \in H!Candidates(rows, sessions) : p[1] = q[1] <=> p[2] = q[2]
           /\ failures = 0 => p[2] < p[1]
           /\ \E u \in H!Linked(rows, p[1]), t \in H!Linked(rows, p[2]) : u < t
<1> SUFFICES ASSUME NEW p \in H!Candidates(rows, sessions)
             PROVE  /\ p \in H!Ids \X H!Ids /\ p[1] # p[2] /\ H!IsOpen(sessions[p[1]])
                    /\ \A q \in H!Candidates(rows, sessions) : p[1] = q[1] <=> p[2] = q[2]
                    /\ failures = 0 => p[2] < p[1]
                    /\ \E u \in H!Linked(rows, p[1]), t \in H!Linked(rows, p[2]) : u < t
  OBVIOUS
<1>1. /\ p \in H!Ids \X H!Ids /\ H!SplitCharge(rows, sessions, p[1], p[2])
      /\ \A q \in H!Candidates(rows, sessions) : p[1] = q[1] <=> p[2] = q[2]
  BY DEF H!Candidates
<1>2. /\ p[1] # p[2] /\ H!IsOpen(sessions[p[1]]) /\ p[1] \in H!Ids /\ p[2] \in H!Ids
      /\ \E u \in H!Linked(rows, p[1]), t \in H!Linked(rows, p[2]) :
            u < t /\ t - u <= MergeGap
  BY <1>1 DEF H!SplitCharge
<1>3. ASSUME failures = 0 PROVE p[2] < p[1]
  <2>1. Apart(rows, sessions)
    BY <1>3 DEF HistoryIInv, TablesInv, Tidy
  <2>2. PICK u \in H!Linked(rows, p[1]), t \in H!Linked(rows, p[2]) : t - u <= MergeGap
    BY <1>2
  <2>3. u \in Int /\ t \in Int /\ MergeGap \in Int /\ p[1] \in Int /\ p[2] \in Int
    BY <1>2, StateNumbers, Numbers DEF HistoryIInv
  <2>4. ~(u + MergeGap < t)
    BY <2>2, <2>3
  <2>5. ~(p[1] < p[2])
    BY <1>2, <2>1, <2>4 DEF Apart
  <2> QED  BY <1>2, <2>3, <2>5
<1> QED  BY <1>1, <1>2, <1>3

\* The repair's copy keeps what holds of it, statement by statement.
LEMMA RepairKept ==
  ASSUME HistoryIInv, [H!Next]_(H!vars)
  PROVE  RepairInv'
<1> USE DEF H!volatile, H!budgets, H!stored, H!memory
<1>1. failures' = 0 => failures = 0
  BY NoFailure
<1>2. CASE H!Heal /\ H!ListPairs
  <2>1. /\ repair' = [pairs |-> H!Candidates(rows, sessions), rows |-> rows,
                      sessions |-> sessions]
        /\ UNCHANGED <<rows, sessions, lastId, now>>
    BY <1>2 DEF H!Heal, H!ListPairs
  <2>2. /\ repair'.pairs = H!Candidates(rows, sessions) /\ repair'.rows = rows
        /\ repair'.sessions = sessions
    BY <2>1
  <2>3. /\ GivenOut(rows, sessions, lastId, now)
        /\ failures = 0 => Tidy(rows, sessions, lastId, now)
    BY DEF HistoryIInv, TablesInv
  <2>4. CopyInv'
    <3>1. \A i \in H!Ids : \A t \in H!Linked(rows, i) : rows[t].by = i
      BY LinkedIs
    <3> QED  BY <2>1, <2>2, <3>1, ListIs DEF CopyInv
  <2>5. failures = 0 => PairsInv'
    BY <2>1, <2>2, ListIs DEF PairsInv
  <2> QED  BY <1>1, <2>1, <2>2, <2>3, <2>4, <2>5 DEF RepairInv
<1>3. CASE H!Heal /\ H!MergePair
  <2>1. PICK p \in repair.pairs : Merging(p)
    BY <1>3 DEF H!Heal, H!MergePair, Merging
  <2>2. UNCHANGED <<lastId, now>>
    BY <2>1 DEF Merging
  <2>3. CopyInv' /\ GivenOut(repair'.rows, repair'.sessions, lastId, now)
    BY <2>1, CopyKept
  <2>4. failures = 0 => Tidy(repair'.rows, repair'.sessions, lastId, now) /\ PairsInv'
    BY <2>1, PairsKept
  <2> QED  BY <1>1, <2>2, <2>3, <2>4 DEF RepairInv
<1>4. CASE UNCHANGED H!vars
  BY <1>4 DEF H!vars, HistoryIInv, RepairInv, GivenOut, CopyInv, Tidy, Housed, Apart, Ordered,
     OthersStale, PairsInv
<1>5. CASE step' # "merge"
  BY <1>5 DEF RepairInv
<1>6. step' # "merge" \/ (H!Heal /\ H!ListPairs) \/ (H!Heal /\ H!MergePair) \/ UNCHANGED H!vars
  BY ReceiveIs DEF H!Next, H!Tick, H!Crash, H!Start, H!Heal, H!CloseAndCommit, H!RollBack,
     H!Rehydrate, H!Reconcile, H!Receive, H!Ensure, H!Write, H!Period, H!Persist
<1> QED  BY <1>2, <1>3, <1>4, <1>5, <1>6

-----------------------------------------------------------------------------
(* The charges *)

\* A vehicle without rows and sessions, and a worker with nothing in hand.
LEMMA HistoryInit ==
  ASSUME HistoryAssumed, H!Init
  PROVE  HistoryIInv
<1>1. /\ {MaxTime, MaxSessions, MaxFrames, MaxCrashes, MaxFaults} \subseteq Nat /\ MaxTime # 0
      /\ 1 \in H!Times
  BY DEF HistoryAssumed, H!TimesAssumption, H!Times
<1>2. /\ rows = [t \in H!Times |-> H!NoRow] /\ sessions = [i \in H!Ids |-> H!NoSession]
      /\ step = "down" /\ det = H!NoCharge /\ ended = H!NoCharge /\ repair = H!NoRepair
      /\ now = 1 /\ lastId = 0
  BY DEF H!Init
<1>3. rows \in H!RowSets /\ sessions \in H!SessionSets
  <2>1. H!NoRow \in [power : H!Powers, charger : H!Chargers, by : -1 .. MaxSessions]
    BY <1>1 DEF H!NoRow, H!Powers, H!Chargers
  <2> QED  BY <1>2, <2>1 DEF H!RowSets, H!SessionSets
<1>4. H!TypeOK
  <2>1. repair \in [pairs : SUBSET (H!Ids \X H!Ids), rows : H!RowSets, sessions : H!SessionSets]
    BY <1>2, <1>3 DEF H!NoRepair
  <2>2. frame = H!NoFrame /\ latest = H!NoReading /\ periods = <<>>
        /\ received = 0 /\ restarts = 0 /\ failures = 0
    BY DEF H!Init
  <2> QED  BY <1>1, <1>2, <1>3, <2>1, <2>2 DEF H!TypeOK
<1>5. H!Stored(rows) = {} /\ \A i \in H!Ids : H!Linked(rows, i) = {} /\ ~H!IsOpen(sessions[i])
  BY <1>2 DEF H!Stored, H!Linked, H!IsOpen
<1>6. TablesInv
  BY <1>2, <1>5 DEF TablesInv, GivenOut, Tidy, Housed, Apart, Ordered, OthersStale
<1> QED  BY <1>2, <1>4, <1>6 DEF HistoryIInv, FrameInv, FramePcs, HandsInv, InHand, FreeInv,
         RepairInv

\* What the repair, the detector and the written rows rely on of each other holds in every
\* reachable state, whatever fails and wherever the worker ends.
THEOREM ChargesInvariant == HistoryAssumed => (H!Spec => []HistoryIInv)
<1>1. HistoryAssumed /\ H!Init => HistoryIInv
  BY HistoryInit
<1>2. HistoryIInv /\ [H!Next]_(H!vars) => HistoryIInv'
  <2> SUFFICES ASSUME HistoryIInv, [H!Next]_(H!vars) PROVE HistoryIInv'
    OBVIOUS
  <2>1. HistoryAssumed'
    BY DEF HistoryIInv, HistoryAssumed, H!FramesAssumption, H!TimesAssumption, H!Powers,
           H!Chargers
  <2> QED  BY <2>1, TypesKept, FrameKept, HandsKept, FreeKept, TablesKept, RepairKept
           DEF HistoryIInv
<1> QED  BY <1>1, <1>2, PTL DEF H!Spec

\* Whatever frames arrive and wherever the worker ends: while no statement has failed, an idle
\* worker's detector holds a session whose row is open, also after a restart took it up from the
\* rows, and no restart has split a charge (load_active_charge_snapshot, heal_active_tail).
THEOREM ChargesHold == HistoryAssumed => (H!Spec => []H!ChargesInv)
<1>1. ASSUME HistoryIInv PROVE H!ChargesInv
  <2>1. H!DetectorFollowsRow
    BY <1>1 DEF HistoryIInv, HandsInv, InHand, H!DetectorFollowsRow
  <2>2. H!RestartKeepsCharge
    <3> SUFFICES ASSUME failures = 0, NEW l \in H!Ids, NEW r \in H!Ids, l < r,
                        H!SplitCharge(rows, sessions, l, r)
                 PROVE  FALSE
      BY DEF H!RestartKeepsCharge
    <3>1. PICK u \in H!Linked(rows, l), t \in H!Linked(rows, r) : t - u <= MergeGap
      BY DEF H!SplitCharge
    <3>2. u + MergeGap < t
      BY <1>1 DEF H!SplitCharge, HistoryIInv, TablesInv, Tidy, Apart
    <3>3. u \in Int /\ t \in Int /\ MergeGap \in Int
      BY <1>1, StateNumbers, Numbers DEF HistoryIInv
    <3> QED  BY <3>1, <3>2, <3>3
  <2> QED  BY <1>1, <2>1, <2>2 DEF HistoryIInv, H!ChargesInv
<1> QED  BY <1>1, ChargesInvariant, PTL

\* Whatever fails: a session with an end keeps its start and end, and one that a startup repair
\* merges away leaves its rows to a session that exists (heal_active_tail,
\* ensure_active_charge_session, persist_charge_session).
THEOREM SessionsStandHolds == HistoryAssumed => (H!Spec => H!SessionsStand)
<1> DEFINE Stands(i) ==
      IF sessions'[i] = H!NoSession
      THEN \A t \in H!Linked(rows, i) : sessions'[rows'[t].by] # H!NoSession
      ELSE H!IsOpen(sessions[i]) \/ sessions'[i] = sessions[i]
<1>1. ASSUME HistoryIInv, [H!Next]_(H!vars), NEW i \in H!Ids, sessions[i] # H!NoSession
      PROVE  Stands(i)
  <2>1. CASE H!Heal /\ H!CloseAndCommit
    <3>1. /\ step = "merge" /\ rows' = repair.rows
          /\ sessions' = H!Close(repair.rows, repair.sessions)
      BY <2>1 DEF H!CloseAndCommit
    <3>2. /\ \/ repair.sessions[i] = H!NoSession \/ H!IsOpen(sessions[i])
             \/ repair.sessions[i] = sessions[i]
          /\ \A t \in H!Linked(rows, i) :
               /\ repair.rows[t].by \in H!Ids
               /\ repair.sessions[repair.rows[t].by] # H!NoSession
      BY <1>1, <3>1 DEF HistoryIInv, RepairInv, CopyInv
    <3>3. repair.sessions \in H!SessionSets /\ HistoryAssumed
      BY <1>1 DEF HistoryIInv, H!TypeOK
    <3>4. \A e \in H!Ids :
            /\ sessions'[e] = repair.sessions[e] \/ H!IsOpen(repair.sessions[e])
            /\ sessions'[e] = H!NoSession <=> repair.sessions[e] = H!NoSession
      BY <3>1, <3>3, CloseIs
    <3> QED  BY <1>1, <3>1, <3>2, <3>4
  <2>2. CASE H!Ensure
    BY <1>1, <2>2, EnsureIs
  <2>3. CASE H!Persist
    <3>1. sessions[ended.id] = H!NoSession \/ H!IsOpen(sessions[ended.id])
      BY <1>1, <2>3, PersistIs DEF HistoryIInv, HandsInv, InHand
    <3> QED  BY <1>1, <2>3, <3>1, PersistIs
  <2>4. CASE sessions' = sessions
    BY <1>1, <2>4
  <2> QED  BY <1>1, <2>1, <2>2, <2>3, <2>4
           DEF H!Next, H!Tick, H!Crash, H!Start, H!Heal, H!ListPairs, H!MergePair, H!RollBack,
               H!Rehydrate, H!Reconcile, H!Receive, H!Write, H!Period, H!stored, H!vars
<1>2. HistoryIInv /\ [H!Next]_(H!vars) =>
        [\A i \in H!Ids : sessions[i] # H!NoSession =>
           IF sessions'[i] = H!NoSession
           THEN \A t \in H!Linked(rows, i) : sessions'[rows'[t].by] # H!NoSession
           ELSE H!IsOpen(sessions[i]) \/ sessions'[i] = sessions[i]]_(H!vars)
  BY <1>1
<1> HIDE DEF Stands
<1> QED  BY <1>2, ChargesInvariant, PTL DEF H!SessionsStand, H!Spec
=============================================================================
