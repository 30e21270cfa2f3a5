---------------------------- MODULE VehicleWorker ----------------------------
(***************************************************************************)
(* The workers that collect the telemetry of one vehicle: the supervisor   *)
(* of each API process, the life of run_vehicle_worker, the Postgres       *)
(* advisory lock that lets one process collect, and the requests that      *)
(* start and stop workers.                                                 *)
(*                                                                         *)
(*   apps/api/src/ingestion/supervisor.rs   one task per vehicle           *)
(*   apps/api/src/ingestion/worker.rs       run_vehicle_worker, the lock   *)
(*   apps/api/src/ingestion/mod.rs          start_workers at boot          *)
(*   apps/api/src/routes/vehicles.rs        add, refresh, delete           *)
(*                                                                         *)
(* The lock is a session lock: it belongs to the pooled connection it was  *)
(* taken on, and taking it again on that connection succeeds.              *)
(***************************************************************************)
EXTENDS Naturals, Sequences, FiniteSets

CONSTANTS
    Procs,        \* API processes on one database
    Conns,        \* connections of a process's pool
    Nobody, Leaked, NoConn, Lost,
    MaxGens,      \* bound: workers spawned by one process
    QueueLength,  \* capacity of the supervisor's channel, 64 in the code
    MaxRefreshes, \* bound: credential refreshes
    MaxCrashes,   \* bound: process crashes
    MaxFaults     \* bound: failed queries, panics, hangs, lost connections, abandoned requests

ASSUME NamesAssumption == NoConn \notin Conns /\ Lost \notin Conns /\ NoConn # Lost
ASSUME NobodyAssumption ==
    /\ Nobody \notin Procs \X (Conns \cup {NoConn, Lost} \cup Nat) /\ Leaked \notin Procs \X Nat
    /\ Nobody # Leaked
ASSUME BoundsAssumption ==
    MaxGens \in Nat /\ QueueLength \in Nat /\ MaxRefreshes \in Nat
    /\ MaxCrashes \in Nat /\ MaxFaults \in Nat

VARIABLES
    row,       \* the vehicle's row: "absent", "present" or "deleted"
    creds,     \* its stored credentials: "none", "good" or "bad" (cannot be decrypted)
    auth,      \* auth_state of vehicle_runtime_state
    up,        \* processes that run
    pending,   \* commands a request handler has still to send, by process
    queue,     \* the supervisor's channel, by process
    slot,      \* generation of the worker in the supervisor's map, 0 when it has none
    gen,       \* workers spawned so far, by process
    pc,        \* step of each worker
    told,      \* workers whose shutdown channel was signalled or closed
    stuck,     \* workers waiting for an answer that does not come
    conn,      \* the lock connection a worker keeps
    loops,     \* workers of which a task runs that nobody waits for: see Dropped
    holder,    \* the database session that has the advisory lock
    depth,     \* how many times it has taken it
    refreshes, crashes, faults

vehicle    == <<row, creds, auth>>
supervisor == <<up, pending, queue, slot, gen>>
tasks      == <<pc, told, stuck, conn, loops>>
lock       == <<holder, depth>>
budgets    == <<refreshes, crashes, faults>>
vars       == <<vehicle, supervisor, tasks, lock, budgets>>

Workers == Procs \X (1 .. MaxGens)
Holding == {"setup", "run", "exit"}
Ended   == {"none", "done"}
Steps   == {"load", "flag", "try", "passive"} \cup Holding \cup Ended

Init ==
    /\ row \in {"absent", "present"}
    /\ creds \in IF row = "present" THEN {"none", "good", "bad"} ELSE {"none"}
    /\ auth = "authorized"
    /\ up = {} /\ pending = [p \in Procs |-> {}] /\ queue = [p \in Procs |-> <<>>]
    /\ slot = [p \in Procs |-> 0] /\ gen = [p \in Procs |-> 0]
    /\ pc = [w \in Workers |-> "none"] /\ told = {} /\ stuck = {} /\ loops = {}
    /\ conn = [w \in Workers |-> NoConn]
    /\ holder = Nobody /\ depth = 0
    /\ refreshes = 0 /\ crashes = 0 /\ faults = 0

Fault == faults < MaxFaults /\ faults' = faults + 1 /\ UNCHANGED <<refreshes, crashes>>

Goto(w, step) == pc' = [pc EXCEPT ![w] = step]
Worker(p, g)  == <<p, g>>
Busy(p)       == slot[p] # 0 /\ pc[Worker(p, slot[p])] \notin Ended
Session(w)    == <<w[1], conn[w]>>
Idle(p)       == {c \in Conns : \A w \in Workers : w[1] = p => conn[w] # c}

-----------------------------------------------------------------------------
(* The supervisor. Definitions named ...Variant, here and below, are faulty forms used
   only to show that a property notices when the definition after them is wrong. *)

\* prepare_worker_start without the test that the worker has finished.
StartWorkerVariant(p) ==
    /\ queue[p] # <<>> /\ Head(queue[p]) = "start" /\ gen[p] < MaxGens
    /\ queue' = [queue EXCEPT ![p] = Tail(@)]
    /\ LET w == Worker(p, gen[p] + 1) IN
         /\ gen' = [gen EXCEPT ![p] = @ + 1] /\ slot' = [slot EXCEPT ![p] = gen[p] + 1]
         /\ Goto(w, "load")
         /\ told' = IF slot[p] = 0 THEN told ELSE told \cup {Worker(p, slot[p])}
    /\ UNCHANGED <<vehicle, up, pending, stuck, conn, loops, lock, budgets>>

\* WorkerSupervisor::run, StartWorker: a running worker is left alone. The entry of a
\* finished one is dropped, and with it the sender of its shutdown channel.
StartWorker(p) ==
    /\ queue[p] # <<>> /\ Head(queue[p]) = "start"
    /\ queue' = [queue EXCEPT ![p] = Tail(@)]
    /\ \/ Busy(p) /\ UNCHANGED <<gen, slot, pc, told>>
       \/ /\ ~Busy(p) /\ gen[p] < MaxGens
          /\ gen' = [gen EXCEPT ![p] = @ + 1] /\ slot' = [slot EXCEPT ![p] = gen[p] + 1]
          /\ Goto(Worker(p, gen[p] + 1), "load")
          /\ told' = IF slot[p] = 0 THEN told ELSE told \cup {Worker(p, slot[p])}
    /\ UNCHANGED <<vehicle, up, pending, stuck, conn, loops, lock, budgets>>

\* Only a worker that still runs is told.
StopWorkerVariant(p) ==
    /\ queue[p] # <<>> /\ Head(queue[p]) = "stop"
    /\ queue' = [queue EXCEPT ![p] = Tail(@)]
    /\ slot' = [slot EXCEPT ![p] = 0]
    /\ told' = IF Busy(p) THEN told \cup {Worker(p, slot[p])} ELSE told
    /\ UNCHANGED <<vehicle, up, pending, gen, pc, stuck, conn, loops, lock, budgets>>

\* WorkerSupervisor::run, StopWorker: the entry leaves the map, its shutdown channel is
\* signalled and dropped, and a task is left behind that aborts the worker (Abort).
StopWorker(p) ==
    /\ queue[p] # <<>> /\ Head(queue[p]) = "stop"
    /\ queue' = [queue EXCEPT ![p] = Tail(@)]
    /\ slot' = [slot EXCEPT ![p] = 0]
    /\ told' = IF slot[p] = 0 THEN told ELSE told \cup {Worker(p, slot[p])}
    /\ UNCHANGED <<vehicle, up, pending, gen, pc, stuck, conn, loops, lock, budgets>>

\* The future of a worker is dropped: its connection goes back to the pool as it is, with
\* the lock.  The poll loop always was on its own; the websocket loop and the parallax task,
\* whose handles are dropped unawaited, now are as well.
Dropped(w) ==
    /\ Goto(w, "done")
    /\ conn' = [conn EXCEPT ![w] = NoConn] /\ stuck' = stuck \ {w}
    /\ loops' = IF pc[w] \in {"run", "exit"} THEN loops \cup {w} ELSE loops
    /\ UNCHANGED <<vehicle, supervisor, told, lock>>

AbortVariant(w) == FALSE /\ Dropped(w) /\ UNCHANGED budgets

\* The five seconds of the task StopWorker left behind are over.
Abort(w) == w \in told /\ pc[w] \notin Ended /\ Dropped(w) /\ UNCHANGED budgets

Panic(w) == pc[w] = "run" /\ Dropped(w) /\ Fault

\* A query or a request of the worker gets no answer.
Hang(w) ==
    /\ pc[w] \notin Ended /\ w \notin stuck /\ Fault
    /\ stuck' = stuck \cup {w}
    /\ UNCHANGED <<vehicle, supervisor, pc, told, conn, loops, lock>>

-----------------------------------------------------------------------------
(* run_vehicle_worker. *)

Works(w, step) == pc[w] = step /\ w \notin stuck

\* upsert_health without the CASE that keeps needs_reauth.
UpsertAuthVariant(state) == auth' = IF row = "present" THEN state ELSE auth

\* upsert_health: needs_reauth survives "authorized"; the row of a deleted vehicle is not
\* made again (foreign key).
UpsertAuth(state) ==
    auth' = IF row = "present" /\ ~(auth = "needs_reauth" /\ state = "authorized")
            THEN state ELSE auth

Load(w) ==
    /\ Works(w, "load") /\ Goto(w, IF creds = "good" THEN "try" ELSE "flag")
    /\ UNCHANGED <<vehicle, supervisor, told, stuck, conn, loops, lock, budgets>>

\* The credentials were missing or could not be decrypted when they were read.
Flag(w) ==
    /\ Works(w, "flag") /\ UpsertAuth("needs_reauth") /\ Goto(w, "done")
    /\ UNCHANGED <<row, creds, supervisor, told, stuck, conn, loops, lock, budgets>>

QueryFails(w) ==
    /\ Works(w, "load") \/ Works(w, "try")
    /\ Goto(w, "done") /\ Fault
    /\ UNCHANGED <<vehicle, supervisor, told, stuck, conn, loops, lock>>

\* The connection the lock was taken on goes back to the pool at once.
TryLockVariant(w) ==
    /\ Works(w, "try")
    /\ \E c \in Idle(w[1]) :
         IF holder \in {Nobody, <<w[1], c>>}
         THEN /\ holder' = <<w[1], c>> /\ depth' = depth + 1
              /\ \/ conn' = [conn EXCEPT ![w] = c]
                 \/ \E d \in Idle(w[1]) : conn' = [conn EXCEPT ![w] = d]
              /\ Goto(w, "setup")
         ELSE Goto(w, "passive") /\ UNCHANGED <<conn, lock>>
    /\ UNCHANGED <<vehicle, supervisor, told, stuck, loops, budgets>>

\* acquire_collector_lock: pg_try_advisory_lock on whichever connection the pool hands out;
\* when it succeeds the worker keeps that connection.
TryLock(w) ==
    /\ Works(w, "try")
    /\ \E c \in Idle(w[1]) :
         IF holder \in {Nobody, <<w[1], c>>}
         THEN /\ holder' = <<w[1], c>> /\ depth' = depth + 1
              /\ conn' = [conn EXCEPT ![w] = c] /\ Goto(w, "setup")
         ELSE Goto(w, "passive") /\ UNCHANGED <<conn, lock>>
    /\ UNCHANGED <<vehicle, supervisor, told, stuck, loops, budgets>>

Passive(w) ==
    /\ Works(w, "passive") /\ UpsertAuth("authorized") /\ Goto(w, "done")
    /\ UNCHANGED <<row, creds, supervisor, told, stuck, conn, loops, lock, budgets>>

\* The unlock is taken to have succeeded.
ReleaseVariant(w) ==
    /\ conn' = [conn EXCEPT ![w] = NoConn]
    /\ depth' = depth - 1 /\ holder' = IF depth = 1 THEN Nobody ELSE holder

\* release_collector_lock, then the worker's connection returns to the pool. The unlock
\* fails when the connection was lost meanwhile.
Release(w) ==
    /\ conn' = [conn EXCEPT ![w] = NoConn]
    /\ IF holder = Session(w)
       THEN depth' = depth - 1 /\ holder' = IF depth = 1 THEN Nobody ELSE holder
       ELSE UNCHANGED lock

\* From the lock to the main loop: the poll loop, the websocket and the parallax task start.
Setup(w) ==
    /\ Works(w, "setup") /\ UpsertAuth("authorized")
    /\ IF row = "present"
       THEN Goto(w, "run") /\ loops' = loops \cup {w} /\ UNCHANGED <<conn, lock>>
       ELSE Goto(w, "done") /\ Release(w) /\ UNCHANGED loops
    /\ UNCHANGED <<row, creds, supervisor, told, stuck, budgets>>

\* Redis cannot be reached.
SetupFails(w) ==
    /\ Works(w, "setup") /\ row = "present" /\ UpsertAuth("authorized")
    /\ Goto(w, "done") /\ Release(w) /\ Fault
    /\ UNCHANGED <<row, creds, supervisor, told, stuck, loops>>

\* The main loop sees the shutdown channel, or finds it closed.
LeaveLoop(w) ==
    /\ Works(w, "run") /\ w \in told /\ Goto(w, "exit")
    /\ UNCHANGED <<vehicle, supervisor, told, stuck, conn, loops, lock, budgets>>

\* The websocket and the parallax task have ended.
Exit(w) ==
    /\ Works(w, "exit") /\ Release(w) /\ Goto(w, "done")
    /\ UNCHANGED <<vehicle, supervisor, told, stuck, loops, budgets>>

\* The last of the worker's loops sees its own receiver of the shutdown channel.
LoopsEnd(w) ==
    /\ w \in loops \cap told /\ loops' = loops \ {w}
    /\ UNCHANGED <<vehicle, supervisor, pc, told, stuck, conn, lock, budgets>>

-----------------------------------------------------------------------------
(* Requests. A handler commits, then sends a command; it may be dropped in between, when
   the client goes away or a later query fails. *)

Ask(p, command) == pending' = [pending EXCEPT ![p] = @ \cup {command}]

\* add_vehicle and refresh_vehicle_credentials.
SaveCredentials(p) ==
    /\ p \in up /\ row # "deleted" /\ refreshes < MaxRefreshes
    /\ refreshes' = refreshes + 1
    /\ row' = "present" /\ creds' = "good" /\ auth' = "authorized"
    /\ Ask(p, "start")
    /\ UNCHANGED <<up, queue, slot, gen, tasks, lock, crashes, faults>>

DeleteVehicle(p) ==
    /\ p \in up /\ row = "present"
    /\ row' = "deleted" /\ creds' = "none"
    /\ Ask(p, "stop")
    /\ UNCHANGED <<auth, up, queue, slot, gen, tasks, lock, budgets>>

Send(p) ==
    /\ Len(queue[p]) < QueueLength
    /\ \E command \in pending[p] :
         /\ pending' = [pending EXCEPT ![p] = @ \ {command}]
         /\ queue' = [queue EXCEPT ![p] = Append(@, command)]
    /\ UNCHANGED <<vehicle, up, slot, gen, tasks, lock, budgets>>

Abandon(p) ==
    /\ \E command \in pending[p] : pending' = [pending EXCEPT ![p] = @ \ {command}]
    /\ Fault
    /\ UNCHANGED <<vehicle, up, queue, slot, gen, tasks, lock>>

-----------------------------------------------------------------------------
(* Processes and connections. *)

\* start_workers: every vehicle, with credentials or without.
Boot(p) ==
    /\ p \notin up /\ up' = up \cup {p}
    /\ queue' = [queue EXCEPT ![p] = IF row = "present" THEN <<"start">> ELSE <<>>]
    /\ UNCHANGED <<vehicle, pending, slot, gen, tasks, lock, budgets>>

Crash(p) ==
    /\ p \in up /\ crashes < MaxCrashes /\ crashes' = crashes + 1
    /\ up' = up \ {p} /\ pending' = [pending EXCEPT ![p] = {}]
    /\ queue' = [queue EXCEPT ![p] = <<>>] /\ slot' = [slot EXCEPT ![p] = 0]
    /\ pc' = [w \in Workers |-> IF w[1] = p /\ pc[w] # "none" THEN "done" ELSE pc[w]]
    /\ conn' = [w \in Workers |-> IF w[1] = p THEN NoConn ELSE conn[w]]
    /\ stuck' = {w \in stuck : w[1] # p} /\ loops' = {w \in loops : w[1] # p}
    /\ IF \E c \in Conns : holder = <<p, c>>
       THEN holder' = Nobody /\ depth' = 0
       ELSE UNCHANGED lock
    /\ UNCHANGED <<vehicle, gen, told, refreshes, faults>>

\* The server ends a session, and with it the locks it has; the worker is not told.
LoseConn(p, c) ==
    /\ holder = <<p, c>> /\ holder' = Nobody /\ depth' = 0
    /\ conn' = [w \in Workers |-> IF w[1] = p /\ conn[w] = c THEN Lost ELSE conn[w]]
    /\ Fault
    /\ UNCHANGED <<vehicle, supervisor, pc, told, stuck, loops>>

\* Connections are kept for ever.
RecycleConnVariant(p, c) ==
    FALSE /\ holder = <<p, c>> /\ holder' = Nobody /\ UNCHANGED <<vehicle, supervisor, tasks, depth, budgets>>

\* The pool closes an idle connection at the end of its life.
RecycleConn(p, c) ==
    /\ holder = <<p, c>> /\ c \in Idle(p)
    /\ holder' = Nobody /\ depth' = 0
    /\ UNCHANGED <<vehicle, supervisor, tasks, budgets>>

WorkerStep(w) ==
    Load(w) \/ Flag(w) \/ TryLock(w) \/ Passive(w) \/ Setup(w) \/ LeaveLoop(w) \/ Exit(w)

WorkerFault(w) == QueryFails(w) \/ SetupFails(w) \/ Panic(w) \/ Hang(w)

ProcessStep(p) ==
    \/ StartWorker(p) \/ StopWorker(p) \/ Send(p) \/ Abandon(p)
    \/ SaveCredentials(p) \/ DeleteVehicle(p) \/ Boot(p) \/ Crash(p)
    \/ \E c \in Conns : LoseConn(p, c) \/ RecycleConn(p, c)

Next ==
    \/ \E w \in Workers : WorkerStep(w) \/ WorkerFault(w) \/ Abort(w) \/ LoopsEnd(w)
    \/ \E p \in Procs : ProcessStep(p)

Spec == Init /\ [][Next]_vars

\* Tasks that can go on are scheduled, timers fire, and the pool's connections have a life
\* time. Nothing makes a process boot or a client send a request.
FairSpec ==
    /\ Spec
    /\ \A w \in Workers :
         WF_vars(WorkerStep(w)) /\ WF_vars(Abort(w)) /\ WF_vars(LoopsEnd(w))
    /\ \A p \in Procs :
         /\ WF_vars(StartWorker(p)) /\ WF_vars(StopWorker(p)) /\ WF_vars(Send(p))
         /\ \A c \in Conns : WF_vars(RecycleConn(p, c))

-----------------------------------------------------------------------------

TypeOK ==
    /\ row \in {"absent", "present", "deleted"} /\ creds \in {"none", "good", "bad"}
    /\ auth \in {"authorized", "needs_reauth"}
    /\ up \in SUBSET Procs
    /\ pending \in [Procs -> SUBSET {"start", "stop"}]
    /\ queue \in [Procs -> Seq({"start", "stop"})]
    /\ slot \in [Procs -> 0 .. MaxGens] /\ gen \in [Procs -> 0 .. MaxGens]
    /\ pc \in [Workers -> Steps] /\ told \in SUBSET Workers
    /\ stuck \in SUBSET Workers /\ loops \in SUBSET Workers
    /\ conn \in [Workers -> Conns \cup {NoConn, Lost}]
    /\ holder \in (Procs \X Conns) \cup {Nobody} /\ depth \in Nat
    /\ refreshes \in Nat /\ crashes \in Nat /\ faults \in Nat

\* At most one worker of all processes collects with its lock: whoever else is between
\* taking and giving up the lock has lost its database session. Leaked locks, re-entrant
\* acquisition and workers still on their way out do not add a second one.
OneCollector ==
    \A w1, w2 \in Workers :
        pc[w1] \in Holding /\ pc[w2] \in Holding /\ conn[w1] # Lost /\ conn[w2] # Lost
        => w1 = w2

\* A worker, or a loop that outlived its worker, that was not told to stop is the one
\* in its supervisor's map: no task is out of the reach of a later command.
Reachable ==
    \A w \in Workers : (pc[w] \notin Ended \/ w \in loops) /\ w \notin told => slot[w[1]] = w[2]

\* Who works on the vehicle, with the types.
WorkersInv == TypeOK /\ OneCollector /\ Reachable

\* Only saved credentials withdraw needs_reauth: the health updates of workers that run,
\* start or stay passive do not (docs/rivian-auth.md).
OnlySavingClearsReauth ==
    [][auth = "needs_reauth" /\ auth' = "authorized" => refreshes' > refreshes]_vars

\* A worker that was told to stop ends, and so do the loops it started, though it hang.
StopEnds ==
    \A w \in Workers : w \in told ~> (w \notin loops /\ pc[w] \in Ended)

Collected == \E w \in Workers : pc[w] = "run"

\* While nothing fails, a worker that starts with good credentials leads to one that
\* collects from then on, itself or the one whose lock made it passive.
StartedWorkerCollects ==
    [](faults = 0 /\ crashes = 0) =>
        [](creds = "good" /\ (\E w \in Workers : pc[w] = "try")
           => <>(row = "deleted") \/ <>[]Collected)

\* The lock as CollectorLock sees it: the worker that keeps connection c of the session h.
OwnerOf(h, c) ==
    IF h = Nobody THEN Nobody
    ELSE IF \E w \in Workers : h = <<w[1], c[w]>>
         THEN CHOOSE w \in Workers : h = <<w[1], c[w]>>
         ELSE Leaked

Owner == OwnerOf(holder, conn)

Collector == INSTANCE CollectorLock
    WITH Workers <- Workers, Nobody <- Nobody, Leaked <- Leaked, owner <- Owner

\* The workers and their pools implement the abstract lock.
ImplementsCollectorLock == Collector!FairSpec

-----------------------------------------------------------------------------
(* What the proofs add to the above to make it inductive. *)

\* A worker that was not spawned yet has not begun.
FreshInv == \A w \in Workers : gen[w[1]] < w[2] => pc[w] = "none"

\* A worker keeps a connection of its own from the lock to its end, and as long as that
\* connection lives its session has the lock.
LockInv ==
    /\ \A w \in Workers : conn[w] \in Conns => pc[w] \in Holding
    /\ \A w \in Workers :
         pc[w] \in Holding => conn[w] = Lost \/ (conn[w] \in Conns /\ holder = Session(w))
    /\ \A w1, w2 \in Workers :
         w1[1] = w2[1] /\ conn[w1] = conn[w2] /\ conn[w1] \in Conns => w1 = w2
    /\ holder # Nobody => depth > 0
=============================================================================
