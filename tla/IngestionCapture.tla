--------------------------- MODULE IngestionCapture ---------------------------
(***************************************************************************)
(* Owner-started ingestion captures of one vehicle: the in-memory window   *)
(* the hot paths read, the bounded channel and the batch writer with its   *)
(* per-capture ledger, the diagnostics row and the stored events, the      *)
(* start and stop requests, the expiry loop, the purge loop and restarts.  *)
(*                                                                         *)
(*   apps/api/src/services/ingestion_capture.rs                            *)
(*   apps/api/src/routes/vehicles.rs   start and stop routes               *)
(***************************************************************************)
EXTENDS Naturals, Sequences, FiniteSets

CONSTANTS
    Requests,      \* request handlers that may run at the same time
    Expirer,       \* the expiry loop
    Cap,           \* MAX_EVENTS_PER_CAPTURE
    ChannelCapacity, BatchRows,
    MaxCaptures,   \* bound: captures started
    MaxLoad,       \* bound: events offered, and two for each capture started
    MaxFaults,     \* bound: batches that cannot be written, starts and stops dropped
    MaxCrashes     \* bound: process restarts

ASSUME RequestsAssumption == IsFiniteSet(Requests) /\ Expirer \notin Requests
ASSUME CapacityAssumption == /\ Cap \in Nat \ {0} /\ ChannelCapacity \in Nat \ {0}
                             /\ BatchRows \in Nat \ {0}
ASSUME BoundsAssumption == /\ MaxCaptures \in Nat /\ MaxLoad \in Nat
                           /\ MaxFaults \in Nat /\ MaxCrashes \in Nat

VARIABLES
    row,      \* the vehicle's vehicle_ingestion_diagnostics row; id 0 when absent
    log,      \* by capture: the event rows ever committed, in id order
    cut,      \* by capture: how many of them, oldest first, have been deleted
    made,     \* captures committed so far; they are numbered in commit order
    lapsed,   \* captures up to this number have passed their enabled_until
    window,   \* the capture registered in memory, 0 for none, and its drop counter
    chan, batch, writing, ledger,   \* the channel, the writer and its CapLedger
    task,     \* by request handler or expiry loop: where it is
    offered, abandons, faults, crashes

store  == <<row, log, cut, made>>
writer == <<chan, batch, writing, ledger>>
counts == <<offered, abandons, faults, crashes>>
vars   == <<store, lapsed, window, writer, task, counts>>

Captures == 1..MaxCaptures
Tasks == Requests \cup {Expirer}
Kinds == {"started", "frame", "truncated", "stopped"}
NoRow == [id |-> 0, stop |-> "none", dropped |-> FALSE, old |-> FALSE]
NoWindow == [id |-> 0, dropped |-> FALSE]
Unknown == [known |-> FALSE, count |-> 0, truncated |-> FALSE]
Nothing == [c \in Captures |-> 0]
Idle == [at |-> "idle", reason |-> "none", id |-> 0, dropped |-> FALSE, seen |-> Nothing]

Init ==
    /\ row = NoRow /\ log = [c \in Captures |-> <<>>] /\ cut = Nothing
    /\ made = 0 /\ lapsed = 0 /\ window = NoWindow
    /\ chan = <<>> /\ batch = <<>> /\ writing = FALSE
    /\ ledger = [c \in Captures |-> Unknown]
    /\ task = [t \in Tasks |-> Idle]
    /\ offered = 0 /\ abandons = 0 /\ faults = 0 /\ crashes = 0

-----------------------------------------------------------------------------
\* A batch cannot be written.
Fault ==
    faults + abandons < MaxFaults /\ faults' = faults + 1 /\ UNCHANGED <<offered, abandons, crashes>>

At(t, step) == task[t].at = step
Goto(t, step) == task' = [task EXCEPT ![t].at = step]
Done(t) == task' = [task EXCEPT ![t] = Idle]
\* A database call of a handler fails, or its client goes away and it is dropped.
Abandon(t) ==
    /\ faults + abandons < MaxFaults /\ abandons' = abandons + 1
    /\ Done(t) /\ UNCHANGED <<offered, faults, crashes>>
Kept(c) == Len(log[c]) - cut[c]

\* Rows up to the given positions are deleted; those committed since are not.
Delete(positions) ==
    cut' = [c \in Captures |-> IF positions[c] > cut[c] THEN positions[c] ELSE cut[c]]
Everything == [c \in Captures |-> Len(log[c])]

-----------------------------------------------------------------------------
(* Faulty variants (named ...Variant) are used only to show that a property fails
   when the definition after them is wrong in a plausible way.

   start: the window goes at once; one transaction deletes the vehicle's
   events, replaces the row and writes the first event; then the window is
   registered. *)

Starting == {t \in Requests : At(t, "delete") \/ At(t, "commit")}
Begun == made + Cardinality(Starting)
Load == offered + 2 * Begun
StartBegin(t) ==
    /\ t \in Requests /\ At(t, "idle") /\ Begun < MaxCaptures /\ Load + 2 <= MaxLoad
    /\ window' = NoWindow /\ Goto(t, "delete")
    /\ UNCHANGED <<store, lapsed, writer, counts>>

\* The DELETE sees the rows committed before it, and takes effect at the commit.
StartDeleteVariant(t) ==               \* the DELETE runs outside the transaction
    /\ At(t, "delete")
    /\ \/ /\ task' = [task EXCEPT ![t].at = "commit"]
          /\ Delete(Everything) /\ UNCHANGED counts
       \/ Abandon(t) /\ UNCHANGED cut
    /\ UNCHANGED <<row, log, made, lapsed, window, writer>>
StartDelete(t) ==
    /\ At(t, "delete")
    /\ \/ /\ task' = [task EXCEPT ![t].at = "commit", ![t].seen = Everything]
          /\ UNCHANGED counts
       \/ Abandon(t)
    /\ UNCHANGED <<store, lapsed, window, writer>>

\* A commit that fails, one that succeeds, and one whose handler is then dropped.
StartCommit(t) ==
    /\ At(t, "commit")
    /\ \/ Abandon(t) /\ UNCHANGED store
       \/ /\ made' = made + 1
          /\ row' = [id |-> made', stop |-> "open", dropped |-> FALSE, old |-> FALSE]
          /\ log' = [log EXCEPT ![made'] = <<"started">>]
          /\ Delete(task[t].seen)
          /\ \/ /\ task' = [task EXCEPT ![t] = [Idle EXCEPT !.at = "register", !.id = made']]
                /\ UNCHANGED counts
             \/ Abandon(t)
    /\ UNCHANGED <<lapsed, window, writer>>

StartRegister(t) ==
    /\ At(t, "register")
    /\ window' = [id |-> task[t].id, dropped |-> FALSE]
    /\ Done(t)
    /\ UNCHANGED <<store, lapsed, writer, counts>>

-----------------------------------------------------------------------------
(* stop: for a user, or for each vehicle the expiry loop has listed *)

StopBegin(t) ==
    /\ t \in Requests /\ At(t, "idle")
    /\ task' = [task EXCEPT ![t] = [Idle EXCEPT !.at = "unregister", !.reason = "user"]]
    /\ UNCHANGED <<store, lapsed, window, writer, counts>>

\* run_expiry lists the lapsed windows, then stops them one after the other, each stop
\* waiting for the database: this vehicle's window may have changed by its turn.
ExpiryScan ==
    /\ At(Expirer, "idle") /\ window.id # 0 /\ window.id <= lapsed
    /\ task' = [task EXCEPT ![Expirer] =
                   [Idle EXCEPT !.at = "unregister", !.reason = "expired"]]
    /\ UNCHANGED <<store, lapsed, window, writer, counts>>

StopUnregister(t) ==
    /\ At(t, "unregister")
    /\ task' = [task EXCEPT ![t].at = "update", ![t].dropped = window.dropped]
    /\ window' = NoWindow
    /\ UNCHANGED <<store, lapsed, writer, counts>>

Stopped(t) == [row EXCEPT !.stop = task[t].reason, !.dropped = @ \/ task[t].dropped]
StopUpdateVariant(t) ==                \* stopped_at IS NULL is not asked for
    /\ At(t, "update") /\ row.id # 0
    /\ row' = Stopped(t)
    /\ task' = [task EXCEPT ![t].at = "marker", ![t].id = row.id]
    /\ UNCHANGED <<log, cut, made, lapsed, window, writer, counts>>
StopUpdate(t) ==
    /\ At(t, "update")
    /\ \/ Abandon(t) /\ UNCHANGED row
       \/ row.stop # "open" /\ Done(t) /\ UNCHANGED <<row, counts>>
       \/ /\ row.stop = "open" /\ row' = Stopped(t)
          /\ task' = [task EXCEPT ![t].at = "marker", ![t].id = row.id]
          /\ UNCHANGED counts
    /\ UNCHANGED <<log, cut, made, lapsed, window, writer>>

StopMarker(t) ==
    /\ At(t, "marker")
    /\ \/ Abandon(t) /\ UNCHANGED log
       \/ /\ log' = [log EXCEPT ![task[t].id] = Append(@, "stopped")]
          /\ Done(t) /\ UNCHANGED counts
    /\ UNCHANGED <<row, cut, made, lapsed, window, writer>>

TaskStep(t) == \/ StartDelete(t) \/ StartCommit(t) \/ StartRegister(t)
               \/ StopUnregister(t) \/ StopUpdate(t) \/ StopMarker(t)

-----------------------------------------------------------------------------
(* record, and the batch writer *)

Record ==
    /\ window.id > lapsed /\ Load < MaxLoad /\ offered' = offered + 1
    /\ \/ /\ Len(chan) < ChannelCapacity /\ chan' = Append(chan, window.id)
          /\ UNCHANGED window
       \/ /\ Len(chan) = ChannelCapacity /\ UNCHANGED chan
          /\ window' = [window EXCEPT !.dropped = TRUE]
    /\ UNCHANGED <<store, lapsed, batch, writing, ledger, task, abandons, faults, crashes>>

Receive ==
    /\ ~writing /\ chan # <<>> /\ Len(batch) < BatchRows
    /\ batch' = Append(batch, Head(chan)) /\ chan' = Tail(chan)
    /\ UNCHANGED <<store, lapsed, window, writing, ledger, task, counts>>

\* The batch is full, or the flush interval ticks.
Flush ==
    /\ ~writing /\ batch # <<>> /\ writing' = TRUE
    /\ UNCHANGED <<store, lapsed, window, chan, batch, ledger, task, counts>>

Unseeded == {batch[i] : i \in {j \in DOMAIN batch : ~ledger[batch[j]].known}}
WriteFails == Fault /\ writing' = FALSE /\ batch' = <<>>

\* A capture the ledger does not know starts from its number of stored rows.
SeedVariant ==                         \* ... or from zero
    /\ writing
    /\ \E c \in Unseeded : ledger' = [ledger EXCEPT ![c].known = TRUE]
    /\ UNCHANGED <<store, lapsed, window, chan, batch, writing, task, counts>>
Seed ==
    /\ writing /\ Unseeded # {}
    /\ \/ WriteFails /\ UNCHANGED ledger
       \/ /\ \E c \in Unseeded :
               ledger' = [ledger EXCEPT ![c] = [known |-> TRUE, count |-> Kept(c),
                                                truncated |-> FALSE]]
          /\ UNCHANGED <<batch, writing, counts>>
    /\ UNCHANGED <<store, lapsed, window, chan, task>>

\* CapLedger::admit for the records of a batch, one after the other: those of a capture that
\* has room are stored, the first one refused leaves a marker, the others are dropped.
Records(c) == Cardinality({i \in DOMAIN batch : batch[i] = c})
Room(c)    == IF ledger[c].count < Cap THEN Cap - ledger[c].count ELSE 0
Stores(c)  == IF Records(c) <= Room(c) THEN Records(c) ELSE Room(c)
TruncatesVariant(c) == Records(c) > Room(c)      \* every batch with refused records does
Truncates(c) == Records(c) > Room(c) /\ ~ledger[c].truncated
Rows(c) == [i \in 1 .. Stores(c) |-> "frame"] \o IF Truncates(c) THEN <<"truncated">> ELSE <<>>

\* The INSERT joins the current row: records of a replaced capture are dropped.
Write ==
    /\ writing /\ Unseeded = {}
    /\ ledger' = [c \in Captures |->
                     [ledger[c] EXCEPT !.count = @ + Stores(c), !.truncated = @ \/ Truncates(c)]]
    /\ \/ WriteFails /\ UNCHANGED log
       \/ /\ log' = [c \in Captures |-> IF c = row.id THEN log[c] \o Rows(c) ELSE log[c]]
          /\ writing' = FALSE /\ batch' = <<>> /\ UNCHANGED counts
    /\ UNCHANGED <<row, cut, made, lapsed, window, chan, task>>

WriterNext == Receive \/ Flush \/ Seed \/ Write

-----------------------------------------------------------------------------
(* Time, the purge and restarts *)

\* An hour has passed since the next capture started; no handler takes that long.
Lapse ==
    /\ lapsed < made /\ lapsed' = lapsed + 1
    /\ \A t \in Tasks : ~(At(t, "register") /\ task[t].id = lapsed')
    /\ UNCHANGED <<store, window, writer, task, counts>>

Quiet == /\ \A t \in Tasks : At(t, "idle")
         /\ chan = <<>> /\ batch = <<>>

\* CAPTURE_RETENTION has passed since the capture was stopped.
Age ==
    /\ row.stop \in {"user", "expired"} /\ ~row.old /\ Quiet
    /\ row' = [row EXCEPT !.old = TRUE] /\ lapsed' = made
    /\ UNCHANGED <<log, cut, made, window, writer, task, counts>>

Purge ==
    /\ row.old /\ row' = NoRow /\ Delete(Everything)
    /\ UNCHANGED <<log, made, lapsed, window, writer, task, counts>>

\* The process restarts: init closes a lapsed row and registers a running one.
RestartedVariant ==                    \* ... whether or not there is a row
    IF row.id <= lapsed THEN [row EXCEPT !.stop = "expired"] ELSE row
Restarted == IF row.stop = "open" /\ row.id <= lapsed
             THEN [row EXCEPT !.stop = "expired"] ELSE row
RestartVariant ==                      \* nothing is registered at start
    /\ crashes < MaxCrashes /\ crashes' = crashes + 1
    /\ window' = NoWindow
    /\ chan' = <<>> /\ batch' = <<>> /\ writing' = FALSE
    /\ ledger' = [c \in Captures |-> Unknown]
    /\ task' = [t \in Tasks |-> Idle]
    /\ UNCHANGED <<store, lapsed, offered, abandons, faults>>
Restart ==
    /\ crashes < MaxCrashes /\ crashes' = crashes + 1
    /\ row' = Restarted
    /\ window' = IF Restarted.stop = "open" THEN [id |-> row.id, dropped |-> FALSE]
                                            ELSE NoWindow
    /\ chan' = <<>> /\ batch' = <<>> /\ writing' = FALSE
    /\ ledger' = [c \in Captures |-> Unknown]
    /\ task' = [t \in Tasks |-> Idle]
    /\ UNCHANGED <<log, cut, made, lapsed, offered, abandons, faults>>

-----------------------------------------------------------------------------
Next == \/ \E t \in Tasks : StartBegin(t) \/ StopBegin(t) \/ TaskStep(t)
        \/ ExpiryScan \/ Record \/ WriterNext \/ Lapse \/ Age \/ Purge \/ Restart

Spec == Init /\ [][Next]_vars

\* Handlers and the three loops keep running, and time passes.
FairSpec == /\ Spec /\ \A t \in Tasks : WF_vars(TaskStep(t))
            /\ WF_vars(ExpiryScan) /\ WF_vars(WriterNext)
            /\ WF_vars(Lapse) /\ SF_vars(Age) /\ WF_vars(Purge)

-----------------------------------------------------------------------------
(* Properties *)

Number(kind, c) == Cardinality({i \in DOMAIN log[c] : log[c][i] = kind})

\* The variables keep their types.
TypeOK ==
    /\ row \in [id : 0..made, stop : {"none", "open", "user", "expired"},
                dropped : BOOLEAN, old : BOOLEAN]
    /\ row.id = 0 <=> row.stop = "none"
    /\ log \in [Captures -> Seq(Kinds)]
    /\ cut \in [Captures -> Nat] /\ \A c \in Captures : Kept(c) >= 0
    /\ made \in 0..MaxCaptures /\ lapsed \in 0..made
    /\ window \in [id : 0..made, dropped : BOOLEAN]
    /\ chan \in Seq(Captures) /\ Len(chan) <= ChannelCapacity
    /\ batch \in Seq(Captures) /\ Len(batch) <= BatchRows
    /\ writing \in BOOLEAN
    /\ ledger \in [Captures -> [known : BOOLEAN, count : Nat, truncated : BOOLEAN]]
    /\ DOMAIN task = Tasks
    /\ offered \in 0..MaxLoad /\ faults \in 0..MaxFaults /\ abandons \in 0..MaxFaults
    /\ crashes \in 0..MaxCrashes

\* The limit on stored events holds across restarts, failed batches and replaced
\* captures, the start marker being one of them.
StoredWithinCap == \A c \in Captures : Number("started", c) + Number("frame", c) <= Cap

\* A capture leaves one truncation marker at most, and one more for each restart.
FewTruncationMarkers == \A c \in Captures : Number("truncated", c) <= 1 + crashes

\* The vehicle's capture can be exported from its first event: no concurrent start,
\* failed transaction or purge deletes events of the capture the row names.
CurrentCaptureComplete ==
    row.id # 0 => /\ cut[row.id] = 0
                  /\ log[row.id] # <<>> /\ Head(log[row.id]) = "started"

\* However many requests, expiries and restarts try to stop a capture, it records one
\* stop, and only when it has stopped.
OneStop == \A c \in Captures :
    /\ Number("stopped", c) <= 1
    /\ Number("stopped", c) = 1 /\ c = row.id => row.stop # "open"

\* What is stored of captures, and how much of it, with the types.
CaptureInv ==
    TypeOK /\ CurrentCaptureComplete /\ OneStop /\ StoredWithinCap /\ FewTruncationMarkers

\* Unless a start or stop fails half-way or requests overlap for ever, every capture
\* stops and is deleted in time, whatever becomes of the batches and across restarts.
CaptureIsDeleted ==
    [](abandons = 0) /\ []<>(\A t \in Requests : At(t, "idle"))
        => \A c \in Captures : row.id = c ~> row.id # c
=============================================================================
