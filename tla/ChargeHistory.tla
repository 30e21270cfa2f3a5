--------------------------- MODULE ChargeHistory ---------------------------
(***************************************************************************)
(* How the charge sessions of one vehicle take up what Rivian's own charge *)
(* history says of them, and how duplicates are merged.                    *)
(*                                                                         *)
(*   apps/api/src/ingestion/rivian_poll.rs      incremental sync, payloads *)
(*   apps/api/src/services/charge_backfill.rs   claim and full backfill    *)
(*   apps/api/src/services/charge_sessions.rs   matching, merging          *)
(*   apps/api/src/ingestion/worker.rs           rows of the charge detector*)
(*                                                                         *)
(* Charges are more than an hour apart, so that a row or a summary is near *)
(* or overlaps only what is of the same charge. A summary has its start    *)
(* and end, between which the rows of the charge lie: a row there is       *)
(* overlaps it, and the search within an hour of its start, which finds    *)
(* nothing between two rows near each other, decides nothing. Rivian may   *)
(* amend the summary of a charge: version v names the external ids 1 .. v, *)
(* of which a higher one is of a better kind, and 1 is the transaction id. *)
(* What else a summary says (energy, cost, place) is left out, and         *)
(* statements in a row whose order nothing else depends on are one action. *)
(***************************************************************************)
EXTENDS Naturals, FiniteSets

CONSTANTS
    Charges,
    Tasks,         \* syncs and backfills of the vehicle at a time
    Free,          \* no task
    MaxVersion,    \* bound: versions of a summary
    MaxRows,       \* bound: rows and references to rows at a time
    MaxFaults      \* bound: failed statements and requests, ends of the API process

ASSUME BoundsAssumption ==
    /\ MaxVersion \in Nat \ {0} /\ MaxRows \in Nat \ {0, 1} /\ MaxFaults \in Nat
    /\ Free \notin Tasks /\ Free \notin Charges

VARIABLES
    car,      \* charge -> what the charge detector knows of it, and its session id
    listed,   \* charge -> version of its summary at Rivian, 0 for none
    recent,   \* charges within RECENT_INCREMENTAL_INSERT_LOOKBACK_DAYS
    rows,     \* charge_sessions, with their external aliases
    tele,     \* charge -> rows that telemetry of the charge refers to
    ledger,   \* rivian_charge_payloads and identities: (charge, version) -> state, link
    lock,     \* task that holds the transaction lock of the vehicle's charge history
    status,   \* history_backfill_status, and whether its claim has gone stale
    task,     \* the tasks: step, and what they have read
    known,    \* history: charges that have had a row
    unwritten,\* history: ids of the detector's sessions whose row was not written
    faults

world == <<car, listed, recent>>
store == <<rows, tele, ledger>>
history == <<known, unwritten>>
vars  == <<world, store, lock, status, task, history, faults>>

Versions == 1 .. MaxVersion
RowIds   == 1 .. MaxRows
Items    == Charges \X Versions
NoRow    == [charge |-> Free, src |-> "none", sid |-> 0, meta |-> 0, al |-> {}, new |-> FALSE]
Idle     == [pc |-> "idle", full |-> FALSE, replay |-> FALSE, todo |-> {}, cur |-> << >>,
             row |-> 0, src |-> "none", ref |-> FALSE, snap |-> {}, dup |-> 0]

Live(i)     == rows[i] # NoRow
Of(c)       == {i \in RowIds : rows[i].charge = c}

\* The rows a task has read of or works on.
Held(t) == {task[t].row, task[t].dup} \cup {s.id : s \in task[t].snap}

\* A new uuid: no row has it, and nothing refers to a row that had it.
Used == {i \in RowIds : Live(i)} \cup (UNION {tele[c] : c \in Charges})
        \cup {ledger[x].link : x \in Items} \cup {car[c].id : c \in Charges}
        \cup (UNION {Held(t) : t \in Tasks})
NewId == CHOOSE i \in RowIds \ Used : \A j \in RowIds \ Used : i <= j

----------------------------------------------------------------------------
(* Initial states: charges to come, and old ones with the rows that earlier *)
(* releases have left, duplicates among them.                              *)

Old(src, v) == [NoRow EXCEPT !.src = src, !.sid = v, !.meta = v, !.al = IF v = 0 THEN {} ELSE {v}]
Legacies == {<< >>, <<Old("none", 0), Old("a", 1)>>, <<Old("a", 1), Old("a", MaxVersion)>>,
             <<Old("t", 0), Old("ta", 1)>>}

Init ==
    \E c \in Charges, old \in Legacies :
        /\ rows = [i \in RowIds |-> IF i \in DOMAIN old THEN [old[i] EXCEPT !.charge = c] ELSE NoRow]
        /\ known = (IF old = << >> THEN {} ELSE {c}) /\ unwritten = {}
        /\ tele = [d \in Charges |-> {i \in DOMAIN old : d = c /\ old[i].src # "a"}]
        /\ car = [d \in Charges |-> [at |-> IF d = c /\ old # << >> THEN "over" ELSE "ahead", id |-> 0]]
        /\ listed = [d \in Charges |-> IF d = c /\ old # << >> THEN 1 ELSE 0]
        /\ recent = IF old = << >> THEN Charges ELSE Charges \ {c}
        /\ ledger = [x \in Items |-> [st |-> "none", link |-> 0]]
        /\ lock = Free /\ status = [st |-> "none", stale |-> FALSE]
        /\ task = [t \in Tasks |-> Idle]
        /\ faults = 0

----------------------------------------------------------------------------
(* The car, Rivian and the database's retention                            *)

\* A statement or request fails, within the bound.
Fault == faults < MaxFaults /\ faults' = faults + 1

Insert(i, row) ==
    /\ rows' = [rows EXCEPT ![i] = row]
    /\ known' = known \cup {row.charge}

\* A charge begins: its telemetry has the session's id, its row is ensured or not.
Begin(c) ==
    /\ car[c].at = "ahead" /\ RowIds \ Used # {}
    /\ car' = [car EXCEPT ![c] = [at |-> "on", id |-> NewId]]
    /\ tele' = [tele EXCEPT ![c] = {NewId}]
    /\ \/ /\ Insert(NewId, [NoRow EXCEPT !.charge = c, !.src = "t"])
          /\ UNCHANGED <<unwritten, faults>>
       \/ Fault /\ unwritten' = unwritten \cup {NewId} /\ UNCHANGED <<rows, known>>
    /\ UNCHANGED <<listed, recent, ledger, lock, status, task>>

\* Rivian lists the charge, or amends what it lists.
List(c) ==
    /\ car[c].at # "ahead" /\ listed[c] < MaxVersion
    /\ listed' = [listed EXCEPT ![c] = @ + 1]
    /\ UNCHANGED <<car, recent, store, lock, status, task, history, faults>>

\* The detector ends the charge: its row is written, or written again, under its id.
Persist(c) ==
    /\ car[c].at = "on"
    /\ car' = [car EXCEPT ![c] = [at |-> "over", id |-> 0]]
    /\ \/ /\ IF Live(car[c].id) THEN UNCHANGED <<rows, known>>
             ELSE Insert(car[c].id, [NoRow EXCEPT !.charge = c, !.src = "t"])
          /\ unwritten' = unwritten \ {car[c].id} /\ UNCHANGED faults
       \/ Fault /\ UNCHANGED <<rows, history>>
    /\ UNCHANGED <<listed, recent, tele, ledger, lock, status, task>>

\* TimescaleDB drops the payload; its identity stays.
Expire(x) ==
    /\ ledger[x].st = "kept"
    /\ ledger' = [ledger EXCEPT ![x] = [st |-> "expired", link |-> 0]]
    /\ UNCHANGED <<world, rows, tele, lock, status, task, history, faults>>

----------------------------------------------------------------------------
(* Tasks: incremental syncs of the poll loop and after a charge, and full  *)
(* backfills of the first start or the owner. Definitions named            *)
(* ...Variant, here and below, are faulty forms used only to show that a   *)
(* property notices when the definition after them is wrong.               *)

Goto(t, step) == task' = [task EXCEPT ![t].pc = step]
Active(t)     == task[t].pc # "idle"
Backfills     == {t \in Tasks : Active(t) /\ task[t].full}
Unlock(t)     == lock' = IF lock = t THEN Free ELSE lock

\* Mutation: a claim succeeds whether or not another one runs.
ClaimableVariant == TRUE

Claimable == status.st # "running" \/ status.stale

\* claim: one statement.
Claim(t) ==
    /\ task[t].pc = "idle" /\ Claimable
    /\ status' = [st |-> "running", stale |-> FALSE]
    /\ task' = [task EXCEPT ![t].pc = "lock", ![t].full = TRUE]
    /\ UNCHANGED <<world, store, lock, history, faults>>

\* Two hours pass after the end of a backfill that could not report; a shorter one is
\* not taken for stale.
GoStale ==
    /\ status.st = "running" /\ Backfills = {}
    /\ status' = [status EXCEPT !.stale = TRUE]
    /\ UNCHANGED <<world, store, lock, task, history, faults>>

\* Mutation: the lock is taken without waiting for the transaction that holds it.
LockHistoryVariant(t) ==
    /\ lock' = t /\ Goto(t, "ask")
    /\ UNCHANGED <<world, store, status, history, faults>>

\* pg_advisory_xact_lock of a transaction that stays open during the fetch.
LockHistory(t) ==
    /\ lock = Free /\ lock' = t /\ Goto(t, "ask")
    /\ UNCHANGED <<world, store, status, history, faults>>

\* A sync is of interest from its lock on.
StartSync(t)  == task[t].pc = "idle" /\ LockHistory(t)
AwaitLock(t)  == task[t].pc = "lock" /\ LockHistory(t)

\* Where a task goes when nothing is left to do, in its fetch or in its replay.
AfterItems(t) ==
    IF task[t].replay THEN [task[t] EXCEPT !.pc = "read", !.todo = {}, !.cur = << >>]
    ELSE IF task[t].full THEN [Idle EXCEPT !.pc = "seed", !.full = TRUE]
    ELSE Idle

\* The next summary of what is left; a replay takes the payloads in their order.
Take(t, left) ==
    IF left = {} THEN task' = [task EXCEPT ![t] = AfterItems(t)] /\ Unlock(t)
    ELSE /\ \E x \in left :
               /\ \A y \in left : task[t].replay => x[2] <= y[2]
               /\ task' = [task EXCEPT ![t] =
                    [@ EXCEPT !.pc = IF task[t].replay THEN "find" ELSE "record", !.ref = task[t].replay,
                              !.row = 0, !.src = "none", !.todo = left \ {x}, !.cur = x]]
         /\ UNCHANGED lock

\* The request: Rivian answers with the latest version of every summary.
Ask(t) ==
    /\ task[t].pc = "ask"
    /\ Take(t, {<<c, listed[c]>> : c \in {d \in Charges : listed[d] > 0}})
    /\ UNCHANGED <<world, store, status, history, faults>>

\* Where an error leaves a task: a backfill goes on to report it.
Failed(t) == IF task[t].full THEN [Idle EXCEPT !.pc = "error", !.full = TRUE] ELSE Idle

\* A statement or the request fails; that of Record and the last ones are below.
Fails(t) ==
    /\ task[t].pc \notin {"idle", "record", "finish", "error"} /\ Fault
    /\ task' = [task EXCEPT ![t] = Failed(t)] /\ Unlock(t)
    /\ UNCHANGED <<world, store, status, history>>

\* A foreign key or unique index refuses what a concurrent task has overtaken.
Refused(t) ==
    /\ task' = [task EXCEPT ![t] = Failed(t)] /\ Unlock(t)
    /\ UNCHANGED <<world, store, status, history, faults>>

----------------------------------------------------------------------------
(* One summary: its payload, its row, its aliases                          *)

Charge(t)  == task[t].cur[1]
Version(t) == task[t].cur[2]
Names(t)   == 1 .. Version(t)                       \* parse_summary_aliases

\* The row a new payload is linked to at once: one that has the transaction id.
LinkedAtOnce(c) ==
    LET same == {i \in Of(c) : rows[i].sid = 1 \/ 1 \in rows[i].al}
    IN IF same = {} THEN {0} ELSE same

\* Mutation: an unchanged payload needs no further look, linked or not.
SettledVariant(x) == ledger[x].st = "kept"

\* unchanged_linked_session; the link counts only while its row exists.
Settled(x) == ledger[x].st = "kept" /\ ledger[x].link # 0 /\ Live(ledger[x].link)

\* record_charge_payload_with_ref. What is unchanged and linked needs no more; the
\* evidence that retention has dropped is not made again; a failure is only counted.
Record(t) ==
    LET x == task[t].cur
    IN /\ task[t].pc = "record"
       /\ \/ /\ Settled(x) /\ Take(t, task[t].todo) /\ UNCHANGED <<ledger, faults>>
          \/ /\ ~Settled(x) /\ ledger[x].st # "none"
             /\ task' = [task EXCEPT ![t].pc = "find", ![t].ref = ledger[x].st = "kept"]
             /\ UNCHANGED <<ledger, lock, faults>>
          \/ /\ ledger[x].st = "none"
             /\ \E i \in LinkedAtOnce(x[1]) : ledger' = [ledger EXCEPT ![x] = [st |-> "kept", link |-> i]]
             /\ task' = [task EXCEPT ![t].pc = "find", ![t].ref = TRUE]
             /\ UNCHANGED <<lock, faults>>
          \/ /\ Fault /\ Goto(t, "find") /\ UNCHANGED <<ledger, lock>>
       /\ UNCHANGED <<world, rows, tele, status, history>>

Rank(src) == CASE src = "ta" -> 4 [] src = "t" -> 3 [] src = "none" -> 2 [] src = "a" -> 1

\* The row of a summary: one with an external id of it, else the best that overlaps.
Matches(t) ==
    LET of    == Of(Charge(t))
        named == {i \in of : rows[i].sid \in Names(t) \/ rows[i].al \cap Names(t) # {}}
    IN IF named # {} THEN named
       ELSE {i \in of : \A j \in of : Rank(rows[j].src) <= Rank(rows[i].src)}

Find(t) ==
    /\ task[t].pc = "find"
    /\ \E i \in IF Matches(t) = {} THEN {0} ELSE Matches(t) :
         task' = [task EXCEPT ![t].pc = "write", ![t].row = i,
                              ![t].src = IF i = 0 THEN "none" ELSE rows[i].src]
    /\ UNCHANGED <<world, store, lock, status, history, faults>>

Enriched(src) == IF src = "a" THEN "a" ELSE "ta"    \* summarize_source

\* update_session_from_summary, with the source that was read before.
Update(t) ==
    /\ task[t].pc = "write" /\ task[t].row # 0
    /\ rows' = IF Live(task[t].row)
               THEN [rows EXCEPT ![task[t].row].src = Enriched(task[t].src),
                                 ![task[t].row].meta = IF @ = 0 THEN Version(t) ELSE @]
               ELSE rows
    /\ Goto(t, "alias")
    /\ UNCHANGED <<world, tele, ledger, lock, status, history, faults>>

\* should_insert_unmatched_session
MayInsert(t) == task[t].full \/ Charge(t) \in recent

\* insert_api_only_session, unless its external id is another row's.
InsertApiOnly(t) ==
    /\ task[t].pc = "write" /\ task[t].row = 0
    /\ IF MayInsert(t) /\ \A i \in Of(Charge(t)) : rows[i].sid # Version(t)
       THEN /\ RowIds \ Used # {}
            /\ Insert(NewId, [charge |-> Charge(t), src |-> "a", sid |-> Version(t),
                              meta |-> Version(t), al |-> {}, new |-> TRUE])
            /\ task' = [task EXCEPT ![t].pc = "alias", ![t].row = NewId]
            /\ UNCHANGED lock
       ELSE Take(t, task[t].todo) /\ UNCHANGED <<rows, known>>
    /\ UNCHANGED <<world, tele, ledger, status, unwritten, faults>>

\* finalize_charge_session_aliases: the best alias, unless it is another row's id.
Best(names) == IF names = {} THEN 0 ELSE CHOOSE v \in names : \A w \in names : w <= v
Finalized(rs, i) ==
    LET best == Best(rs[i].al)
    IN IF best = 0 \/ \E j \in RowIds \ {i} : rs[j].charge = rs[i].charge /\ rs[j].sid = best
       THEN rs ELSE [rs EXCEPT ![i].sid = best]

\* upsert_external_aliases, for which the row must still exist, and the above.
Alias(t) ==
    /\ task[t].pc = "alias"
    /\ IF Live(task[t].row)
       THEN /\ rows' = Finalized([rows EXCEPT ![task[t].row].al = @ \cup Names(t)], task[t].row)
            /\ Goto(t, "link")
            /\ UNCHANGED <<world, tele, ledger, lock, status, history, faults>>
       ELSE Refused(t)

\* The payload is linked to the row; the next summary follows.
Link(t) ==
    LET x == task[t].cur
    IN /\ task[t].pc = "link"
       /\ ledger' = IF task[t].ref /\ ledger[x].st = "kept"
                    THEN [ledger EXCEPT ![x].link = task[t].row] ELSE ledger
       /\ Take(t, task[t].todo)
       /\ UNCHANGED <<world, rows, tele, status, history, faults>>

----------------------------------------------------------------------------
(* canonicalize_charge_sessions, statement by statement, without a lock    *)

\* Rows without a source are telemetry's; all with an external id get aliases again.
Sources(t) ==
    /\ task[t].pc = "seed"
    /\ rows' = [i \in RowIds |-> IF Live(i) /\ rows[i].src = "none"
                                 THEN [rows[i] EXCEPT !.src = "t"] ELSE rows[i]]
    /\ task' = [task EXCEPT ![t].pc = "reseed", ![t].todo = {i \in RowIds : rows[i].meta # 0}]
    /\ UNCHANGED <<world, tele, ledger, lock, status, history, faults>>

Reseed(t) ==
    \E i \in task[t].todo :
        /\ task[t].pc = "reseed"
        /\ IF Live(i)
           THEN /\ rows' = Finalized([rows EXCEPT ![i].al = @ \cup 1 .. rows[i].meta], i)
                /\ task' = [task EXCEPT ![t].todo = @ \ {i}]
                /\ UNCHANGED <<world, tele, ledger, lock, status, history, faults>>
           ELSE Refused(t)

\* replay_charge_payload_summaries: every payload kept is matched again.
Replay(t) ==
    /\ task[t].pc = "reseed" /\ task[t].todo = {}
    /\ LET kept == {x \in Items : ledger[x].st = "kept"}
       IN IF kept = {} THEN Goto(t, "read")
          ELSE \E x \in kept :
                 /\ \A y \in kept : x[2] <= y[2]
                 /\ task' = [task EXCEPT ![t] = [@ EXCEPT !.pc = "find", !.replay = TRUE, !.ref = TRUE,
                                                          !.todo = kept \ {x}, !.cur = x]]
    /\ UNCHANGED <<world, store, lock, status, history, faults>>

Read(t) ==
    /\ task[t].pc = "read"
    /\ LET all == {i \in RowIds : Live(i)}
       IN task' = [task EXCEPT ![t] = [Idle EXCEPT
                     !.full = TRUE, !.pc = IF Cardinality(all) < 2 THEN "finish" ELSE "aliases",
                     !.snap = {[id |-> i, charge |-> rows[i].charge, src |-> rows[i].src, best |-> 0] :
                               i \in all}]]
    /\ UNCHANGED <<world, store, lock, status, history, faults>>

\* An alias that a row inserted meanwhile shares with one read before is looked up
\* among the rows read, and the task panics.
Done(snap)    == \A r, s \in snap : r # s => r.charge # s.charge
Aliased(snap) == {[s EXCEPT !.best = Best(rows[s.id].al)] : s \in snap}
ReadAliases(t) ==
    LET read     == {s.id : s \in task[t].snap}
        stranger == {i \in RowIds \ read : Live(i)}
    IN /\ task[t].pc = "aliases"
       /\ task' = [task EXCEPT ![t] =
            IF \E i \in stranger, j \in RowIds :
                 i # j /\ rows[i].charge = rows[j].charge /\ rows[i].al \cap rows[j].al # {}
            THEN Idle
            ELSE [@ EXCEPT !.pc = IF Done(task[t].snap) THEN "finish" ELSE "merge",
                           !.snap = Aliased(task[t].snap)]]
       /\ UNCHANGED <<world, store, lock, status, history, faults>>

Cluster(t, c) == {s \in task[t].snap : s.charge = c}
Duplicated(t) == {c \in Charges : Cardinality(Cluster(t, c)) > 1}

\* choose_canonical_session: the better source, then the better alias; a row without
\* aliases counts as one with the best.
Prio(s)     == IF s.best = 0 THEN MaxVersion ELSE s.best
Above(r, s) == Rank(r.src) > Rank(s.src) \/ (Rank(r.src) = Rank(s.src) /\ Prio(r) >= Prio(s))

\* Mutation: the survivor is one of its own duplicates.
OthersVariant(t, k) == {s.id : s \in Cluster(t, k.charge)}

Others(t, k) == {s.id : s \in Cluster(t, k.charge)} \ {k.id}

Choose(t) ==
    /\ task[t].pc = "merge"
    /\ \E c \in Duplicated(t) : \E k \in Cluster(t, c) :
         /\ \A s \in Cluster(t, c) : Above(k, s)
         /\ \E d \in Others(t, k) :
              task' = [task EXCEPT ![t] = [@ EXCEPT
                !.pc = "restamp", !.row = k.id, !.cur = <<c>>, !.dup = d, !.todo = Others(t, k) \ {d}]]
    /\ UNCHANGED <<world, store, lock, status, history, faults>>

\* Mutation: only the charge curve points and payloads are moved, no telemetry.
RestampVariant(t) ==
    /\ task[t].pc = "restamp" /\ Goto(t, "repay")
    /\ UNCHANGED <<world, store, lock, status, history, faults>>

\* Telemetry goes to the survivor; then payloads; each statement is on its own.
Restamp(t) ==
    LET k == task[t].row d == task[t].dup
    IN /\ task[t].pc = "restamp" /\ Goto(t, "repay")
       /\ tele' = [c \in Charges |-> IF d \in tele[c] THEN (tele[c] \ {d}) \cup {k} ELSE tele[c]]
       /\ UNCHANGED <<world, rows, ledger, lock, status, history, faults>>

Repay(t) ==
    LET k == task[t].row d == task[t].dup
    IN /\ task[t].pc = "repay" /\ Goto(t, "rehome")
       /\ ledger' = [x \in Items |-> IF ledger[x].link = d THEN [ledger[x] EXCEPT !.link = k] ELSE ledger[x]]
       /\ UNCHANGED <<world, rows, tele, lock, status, history, faults>>

\* The duplicate's aliases become the survivor's.
Rehome(t) ==
    LET k == task[t].row d == task[t].dup
    IN /\ task[t].pc = "rehome"
       /\ IF rows[d].al = {} \/ Live(k)
          THEN /\ rows' = IF rows[d].al = {} THEN rows
                          ELSE [rows EXCEPT ![k].al = @ \cup rows[d].al, ![d].al = {}]
               /\ Goto(t, "drop")
               /\ UNCHANGED <<world, tele, ledger, lock, status, history, faults>>
          ELSE Refused(t)

\* What the survivor lacks it takes from the duplicate, which is then deleted.
Drop(t) ==
    LET k == task[t].row d == task[t].dup
    IN /\ task[t].pc = "drop"
       /\ rows' = [rows EXCEPT ![d] = NoRow,
                               ![k].meta = IF Live(k) /\ @ = 0 THEN rows[d].meta ELSE @]
       /\ IF task[t].todo = {} THEN task' = [task EXCEPT ![t].pc = "crown", ![t].dup = 0]
          ELSE \E e \in task[t].todo :
                 task' = [task EXCEPT ![t].pc = "restamp", ![t].dup = e, ![t].todo = @ \ {e}]
       /\ UNCHANGED <<world, tele, ledger, lock, status, history, faults>>

\* The survivor gets the source and the best id of all that were read.
Crown(t) ==
    LET k    == task[t].row
        read == Cluster(t, task[t].cur[1])
        src  == IF \A s \in read : s.src = "a" THEN "a"
                ELSE IF \E s \in read : s.src \in {"a", "ta"} THEN "ta" ELSE "t"
        best == Best({s.best : s \in read})
    IN /\ task[t].pc = "crown"
       /\ IF best # 0 /\ \E i \in RowIds \ {k} : Live(i) /\ rows[i].charge = rows[k].charge /\ rows[i].sid = best
          THEN Refused(t)
          ELSE /\ rows' = IF Live(k)
                          THEN Finalized([rows EXCEPT ![k].src = src, ![k].sid = IF best = 0 THEN @ ELSE best], k)
                          ELSE rows
               /\ task' = [task EXCEPT ![t].row = 0, ![t].cur = << >>, ![t].snap = @ \ read,
                         ![t].pc = IF Done(task[t].snap \ read) THEN "finish" ELSE "merge"]
               /\ UNCHANGED <<world, tele, ledger, lock, status, history, faults>>

----------------------------------------------------------------------------
(* The end of a backfill, and of the process                               *)

\* The status is written whoever has claimed the backfill since; a failure leaves it.
Report(t, pc, st) ==
    /\ task[t].pc = pc /\ task' = [task EXCEPT ![t] = Idle]
    /\ \/ status' = [st |-> st, stale |-> FALSE] /\ UNCHANGED faults
       \/ Fault /\ UNCHANGED status
    /\ UNCHANGED <<world, store, lock, history>>

Finish(t)      == Report(t, "finish", "done")
ReportError(t) == Report(t, "error", "error")

Crash ==
    /\ Fault /\ task' = [t \in Tasks |-> Idle] /\ lock' = Free
    /\ UNCHANGED <<world, store, status, history>>

Fetch(t) ==
    \/ AwaitLock(t) \/ Ask(t) \/ Record(t) \/ Find(t) \/ Update(t) \/ InsertApiOnly(t)
    \/ Alias(t) \/ Link(t)
Canonicalize(t) ==
    \/ Sources(t) \/ Reseed(t) \/ Replay(t) \/ Read(t) \/ ReadAliases(t) \/ Choose(t)
    \/ Restamp(t) \/ Repay(t) \/ Rehome(t) \/ Drop(t) \/ Crown(t)
Step(t) == Fetch(t) \/ Canonicalize(t) \/ Finish(t) \/ ReportError(t)

Next ==
    \/ \E c \in Charges : Begin(c) \/ List(c) \/ Persist(c)
    \/ \E x \in Items : Expire(x)
    \/ \E t \in Tasks : StartSync(t) \/ Claim(t) \/ Fails(t) \/ Step(t)
    \/ GoStale \/ Crash

Spec == Init /\ [][Next]_vars

\* A task that runs goes on, and the poll loop syncs for ever.
FairSpec == Spec /\ \A t \in Tasks : WF_vars(Step(t)) /\ WF_vars(StartSync(t))
----------------------------------------------------------------------------
(* Properties                                                              *)

TypeOK ==
    /\ \A c \in Charges : car[c].at \in {"ahead", "on", "over"} /\ car[c].id \in RowIds \cup {0}
    /\ listed \in [Charges -> 0 .. MaxVersion]
    /\ \A i \in RowIds : rows[i] # NoRow => rows[i].charge \in Charges /\ rows[i].src \in {"none", "a", "t", "ta"}
    /\ ledger \in [Items -> [st : {"none", "kept", "expired"}, link : RowIds \cup {0}]]
    /\ lock \in Tasks \cup {Free}
    /\ status \in [st : {"none", "running", "done", "error"}, stale : BOOLEAN]
    /\ \A t \in Tasks : task[t].row \in RowIds \cup {0}

\* Merging never leaves a charge that had a row without one.
NoChargeLost == \A c \in known : Of(c) # {}

\* Telemetry refers to a row there is, unless the row of its session was never written.
TelemetryHoused == \A c \in Charges : tele[c] \subseteq {i \in RowIds : Live(i)} \cup unwritten

\* Until a backfill matches payloads again, which takes no lock, Rivian's summaries
\* make at most one row of their own of a charge.
OneApiRow == status.st = "none" => \A c \in Charges : Cardinality({i \in Of(c) : rows[i].new}) <= 1

\* Backfills do not overlap, and the status says so while one runs.
LeaseInv == Cardinality(Backfills) <= 1 /\ (Backfills # {} => status.st = "running")

\* However syncs, a backfill, the charge detector, retention, failures and restarts
\* interleave, no charge and no telemetry of one is lost in a merge, syncs do not
\* make a charge twice, and one backfill runs at a time.
HistoryInv == TypeOK /\ NoChargeLost /\ TelemetryHoused /\ OneApiRow /\ LeaseInv

\* What Rivian lists of a recent charge reaches a row of the charge and stays, whatever
\* failed or was interrupted before.
ChargeLands ==
    \A c \in Charges : (listed[c] > 0 /\ c \in recent) ~> [](\E i \in Of(c) : rows[i].meta # 0)
=============================================================================
