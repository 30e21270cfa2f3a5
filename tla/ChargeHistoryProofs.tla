------------------------ MODULE ChargeHistoryProofs ------------------------
(***************************************************************************)
(* HistoryInv holds for any charges, any number of tasks and every bound.  *)
(*                                                                         *)
(* Nothing locks the rows a backfill merges.  It may trust what it has     *)
(* read because only a backfill deletes rows, LeaseInv leaves it alone,    *)
(* and no task moves a row to another charge: MergeInv says which rows     *)
(* of its cluster are still there at each statement, and that no           *)
(* telemetry refers to the row that is about to be deleted.  Syncs are     *)
(* kept apart by their lock (SyncInv), and a sync that has found no row    *)
(* of a charge has found none of Rivian's before it inserts one (FindInv). *)
(***************************************************************************)
EXTENDS ChargeHistory, FiniteSetTheorems, TLAPS

Kinds == {"none", "a", "t", "ta"}
Ids      == RowIds \cup {0}

Row == [charge : Charges \cup {Free}, src : Kinds, sid : 0 .. MaxVersion,
        meta : 0 .. MaxVersion, al : SUBSET Versions, new : BOOLEAN]

\* The steps that work on one summary, those of a merge, and the others.
Summary  == {"record", "find", "write", "alias", "link"}
Merging  == {"restamp", "repay", "rehome", "drop", "crown"}
Alone    == {"lock", "seed", "reseed", "read", "aliases", "merge", "finish", "error"} \cup Merging
Pcs      == {"idle", "ask"} \cup Summary \cup Alone

Reading  == [id : RowIds, charge : Charges, src : Kinds, best : 0 .. MaxVersion]
Work     == [pc : Pcs, full : BOOLEAN, replay : BOOLEAN, todo : SUBSET (Items \cup RowIds),
             cur : Items \cup {<<c>> : c \in Charges} \cup {<< >>},
             row : Ids, src : Kinds, ref : BOOLEAN, snap : SUBSET Reading, dup : Ids]

\* What a task has read fits the step it is at.
Fits(w) ==
    /\ w \in Work
    /\ w.pc \in Summary => w.cur \in Items /\ w.todo \subseteq Items
    /\ w.pc \in Merging => w.cur \in {<<c>> : c \in Charges}
    /\ w.pc \in Merging \cup {"alias"} => w.row \in RowIds
    /\ w.pc \in Merging \cup {"reseed"} => w.todo \subseteq RowIds
    /\ w.pc \in Alone \/ w.replay => w.full
    /\ w.pc = "idle" => ~w.full

\* The rows are rows, of a charge unless they are none.
RowsInv ==
    /\ rows \in [RowIds -> Row]
    /\ \A i \in RowIds : rows[i].charge = Free <=> rows[i] = NoRow

\* The rest of the state.  A session that goes on has an id.
StateInv ==
    /\ car \in [Charges -> [at : {"ahead", "on", "over"}, id : Ids]]
    /\ \A c \in Charges : car[c].at = "on" => car[c].id \in RowIds
    /\ listed \in [Charges -> 0 .. MaxVersion]
    /\ tele \in [Charges -> SUBSET RowIds] /\ known \subseteq Charges
    /\ ledger \in [Items -> [st : {"none", "kept", "expired"}, link : Ids]]
    /\ lock \in Tasks \cup {Free}
    /\ status \in [st : {"none", "running", "done", "error"}, stale : BOOLEAN]

TasksInv == DOMAIN task = Tasks /\ \A t \in Tasks : Fits(task[t])

\* A sync has the lock until it ends.
SyncInv == \A t \in Tasks : Active(t) /\ ~task[t].full => lock = t

\* One backfill at a time, by the status.
LoneInv ==
    /\ \A t, u \in Backfills : t = u
    /\ Backfills # {} => status.st = "running" /\ ~status.stale

\* A row that was read is still there and of its charge, except those of the cluster that is
\* being merged, of which the survivor and those to be merged are.
IsOf(i, c) == rows[i].charge = c
Merges(w) ==
    /\ w.pc \in {"aliases", "merge"} => \A s \in w.snap : IsOf(s.id, s.charge)
    /\ w.pc \in Merging =>
          LET c == w.cur[1]
          IN IsOf(w.row, c) /\ \A s \in w.snap : s.charge # c => IsOf(s.id, s.charge)
    /\ w.pc \in Merging \ {"crown"} =>
          LET c == w.cur[1]
          IN /\ w.dup \in RowIds \ {w.row} /\ IsOf(w.dup, c)
             /\ \A e \in w.todo : e \notin {w.row, w.dup} /\ IsOf(e, c)
    /\ w.pc \in {"repay", "rehome", "drop"} => \A c \in Charges : w.dup \notin tele[c]
MergeInv == \A t \in Tasks : Merges(task[t])

\* While there was no backfill yet, at most one row of a charge is of a sync.
NewInv ==
    status.st = "none" =>
        \A i, j \in RowIds :
            rows[i].new /\ rows[j].new /\ rows[i].charge = rows[j].charge => i = j

\* Then a sync that inserts a row has found none before.
Finds(w) ==
    status.st = "none" /\ w.pc = "write" /\ w.row = 0 =>
        \A i \in Of(w.cur[1]) : ~rows[i].new
FindInv == \A t \in Tasks : Finds(task[t])

IInv == /\ RowsInv /\ StateInv /\ TasksInv /\ SyncInv /\ LoneInv /\ MergeInv
        /\ NewInv /\ FindInv /\ NoChargeLost /\ TelemetryHoused

-----------------------------------------------------------------------------
(* Ids and names                                                           *)

\* The bounds are bounds.
LEMMA BoundsAre ==
  /\ MaxVersion \in Nat /\ MaxVersion >= 1 /\ MaxRows \in Nat /\ MaxRows >= 2
  /\ RowIds \subseteq Nat /\ Versions \subseteq Nat /\ 0 \notin RowIds /\ 0 \notin Versions
  /\ {1, 2} \subseteq RowIds /\ 1 \in Versions /\ MaxVersion \in Versions
  BY BoundsAssumption DEF RowIds, Versions

\* A set of naturals that is not empty has a greatest one if it is bounded: the sets of what
\* is above one of its members cannot shrink for ever.
LEMMA Greatest ==
  ASSUME NEW n \in Nat, NEW S \in SUBSET (0 .. n), S # {}
  PROVE  \E i \in S : \A j \in S : j <= i
<1>1. IsFiniteSet(S)
  <2>1. IsFiniteSet(0 .. n)
    BY FS_Interval
  <2> QED  BY <2>1, FS_Subset
<1>2. IsWellFoundedOn(StrictSubsetOrdering(S), FiniteSubsetsOf(S))
  BY FS_StrictSubsetOrderingWellFounded
<1> DEFINE Over(i) == {j \in S : j > i}
           Rests == {Over(i) : i \in S}
<1>3. Rests \subseteq FiniteSubsetsOf(S) /\ Rests # {}
  <2>1. FiniteSubsetsOf(S) = SUBSET S
    BY <1>1, FS_FiniteSubsetsOfFinite
  <2>2. ASSUME NEW i \in S PROVE Over(i) \in SUBSET S
    OBVIOUS
  <2>3. PICK i \in S : TRUE
    OBVIOUS
  <2>4. Over(i) \in Rests
    OBVIOUS
  <2> HIDE DEF Over
  <2> QED  BY <2>1, <2>2, <2>4
<1>4. PICK T \in Rests : \A U \in Rests : <<U, T>> \notin StrictSubsetOrdering(S)
  <2> HIDE DEF Rests
  <2> QED  BY <1>2, <1>3, WFMin
<1>5. PICK i \in S : T = Over(i)
  BY <1>4
<1>6. ASSUME NEW j \in S, j > i PROVE FALSE
  <2>1. j \in Over(i) /\ j \notin Over(j)
    BY <1>6
  <2>2. \A k \in S : k > j => k > i
    BY <1>6
  <2>3. Over(j) \subseteq Over(i)
    BY <2>2
  <2>4. <<Over(j), Over(i)>> \in StrictSubsetOrdering(S)
    BY <2>1, <2>3 DEF StrictSubsetOrdering
  <2> QED  BY <1>4, <1>5, <2>4
<1> QED  BY <1>6

\* A new id is no row's, and nothing refers to it.
LEMMA NewIdIs ==
  ASSUME RowIds \ Used # {}
  PROVE  /\ NewId \in RowIds /\ ~Live(NewId)
         /\ \A c \in Charges : NewId \notin tele[c]
         /\ \A t \in Tasks : NewId # task[t].row /\ NewId # task[t].dup
<1> DEFINE S == RowIds \ Used
           R == {MaxRows - i : i \in S}
<1>1. \E i \in S : \A j \in S : i <= j
  <2>1. S \subseteq RowIds /\ MaxRows \in Nat
    BY BoundsAre
  <2> HIDE DEF S
  <2>2. R \in SUBSET (0 .. MaxRows) /\ R # {}
    BY <2>1 DEF RowIds, S
  <2> HIDE DEF R
  <2>3. PICK r \in R : \A q \in R : q <= r
    BY <2>1, <2>2, Greatest
  <2> USE DEF R
  <2>4. PICK i \in S : r = MaxRows - i
    BY <2>3
  <2>5. ASSUME NEW j \in S PROVE i <= j
    <3>1. MaxRows - j \in R
      OBVIOUS
    <3>2. MaxRows - j <= MaxRows - i
      BY <2>3, <2>4, <3>1
    <3>3. i \in Nat /\ j \in Nat
      BY <2>1 DEF RowIds
    <3> QED  BY <2>1, <3>2, <3>3
  <2> QED  BY <2>5
<1>2. NewId \in S
  BY <1>1 DEF NewId
<1> HIDE DEF NewId
<1>3. ~Live(NewId)
  BY <1>2 DEF Used
<1>4. ASSUME NEW c \in Charges PROVE NewId \notin tele[c]
  BY <1>2 DEF Used
<1>5. ASSUME NEW t \in Tasks PROVE NewId # task[t].row /\ NewId # task[t].dup
  <2>1. Held(t) \subseteq Used
    BY DEF Used
  <2>2. task[t].row \in Held(t) /\ task[t].dup \in Held(t)
    BY DEF Held
  <2>3. NewId \notin Used
    BY <1>2
  <2> QED  BY <2>1, <2>2, <2>3
<1> QED  BY <1>2, <1>3, <1>4, <1>5

\* The best of some names is one of them, or 0 if there is none.
LEMMA BestIs ==
  ASSUME NEW S \in SUBSET (0 .. MaxVersion)
  PROVE  Best(S) \in 0 .. MaxVersion /\ (S # {} => Best(S) \in S)
<1>1. CASE S = {}
  BY <1>1, BoundsAre DEF Best
<1>2. CASE S # {}
  <2>1. \E x \in S : \A w \in S : w <= x
    BY <1>2, BoundsAre, Greatest
  <2>2. Best(S) \in S
    BY <1>2, <2>1 DEF Best
  <2> QED  BY <2>2
<1> QED  BY <1>1, <1>2

-----------------------------------------------------------------------------
(* The tasks                                                               *)

\* Task t goes on as w: a sync as long as it has the lock, a backfill only if it was one.
Moved(t, w) ==
    /\ task' = [task EXCEPT ![t] = w]
    /\ Fits(w)
    /\ w.full => task[t].full
    /\ w.pc # "idle" /\ ~w.full => lock' = t
    /\ \/ lock' = lock
       \/ lock = t /\ lock' = Free
       \/ lock = Free /\ lock' = t

\* An idle task is one.
LEMMA IdleIs ==
  /\ Fits(Idle) /\ Idle.pc = "idle" /\ ~Idle.full
  /\ \A w : w = [Idle EXCEPT !.pc = "seed", !.full = TRUE] => Fits(w) /\ w.pc = "seed" /\ w.full
  /\ \A w : w = [Idle EXCEPT !.pc = "error", !.full = TRUE] => Fits(w) /\ w.pc = "error" /\ w.full
<1>1. Idle \in Work
  BY DEF Idle, Work, Pcs, Summary, Merging, Alone, Ids, Kinds
<1>2. Fits(Idle) /\ Idle.pc = "idle" /\ ~Idle.full
  BY <1>1 DEF Idle, Fits, Summary, Merging, Alone
<1>3. ASSUME NEW w, w = [Idle EXCEPT !.pc = "seed", !.full = TRUE]
      PROVE  Fits(w) /\ w.pc = "seed" /\ w.full
  <2>1. w \in Work /\ w.pc = "seed" /\ w.full
    BY <1>1, <1>3 DEF Work, Summary, Merging, Alone, Pcs
  <2> QED  BY <2>1 DEF Fits, Summary, Merging
<1>4. ASSUME NEW w, w = [Idle EXCEPT !.pc = "error", !.full = TRUE]
      PROVE  Fits(w) /\ w.pc = "error" /\ w.full
  <2>1. w \in Work /\ w.pc = "error" /\ w.full
    BY <1>1, <1>4 DEF Work, Summary, Merging, Alone, Pcs
  <2> QED  BY <2>1 DEF Fits, Summary, Merging
<1> QED  BY <1>2, <1>3, <1>4

\* The steps are different.
LEMMA PcsAre ==
  /\ Summary \cap Alone = {} /\ Merging \subseteq Alone /\ Alone \subseteq Pcs
  /\ Summary \subseteq Pcs /\ "idle" \notin Summary \cup Alone /\ "ask" \notin Summary \cup Alone
  BY DEF Summary, Alone, Merging, Pcs

\* After the last summary a task ends, or goes on as the backfill it is.
LEMMA TakeMoves ==
  ASSUME TasksInv, SyncInv, NEW t \in Tasks, task[t].pc \in Summary \cup {"ask"},
         NEW left \in SUBSET Items, Take(t, left)
  PROVE  \E w : Moved(t, w) /\ w.pc \in {"record", "find", "read", "seed", "idle"}
<1>1. /\ task[t] \in Work /\ (task[t].replay => task[t].full)
      /\ ~task[t].full => lock = t
  BY DEF TasksInv, Fits, SyncInv, Active, Summary
<1>2. CASE left = {}
  <2> DEFINE w == AfterItems(t)
  <2>1. task' = [task EXCEPT ![t] = w] /\ (lock' = lock \/ (lock = t /\ lock' = Free))
    BY <1>2 DEF Take, Unlock
  <2>2. CASE task[t].replay
    <3>1. w = [task[t] EXCEPT !.pc = "read", !.todo = {}, !.cur = << >>]
      BY <2>2 DEF AfterItems
    <3>2. w \in Work /\ w.pc = "read" /\ w.full = task[t].full
      BY <1>1, <3>1 DEF Work, Summary, Merging, Alone, Pcs
    <3>3. Fits(w)
      BY <1>1, <2>2, <3>2 DEF Fits, Summary, Merging, Alone
    <3> QED  BY <1>1, <2>1, <2>2, <3>2, <3>3 DEF Moved
  <2>3. CASE ~task[t].replay /\ task[t].full
    <3>1. w = [Idle EXCEPT !.pc = "seed", !.full = TRUE]
      BY <2>3 DEF AfterItems
    <3>2. Fits(w) /\ w.pc = "seed" /\ w.full
      BY <3>1, IdleIs
    <3> QED  BY <2>1, <2>3, <3>2 DEF Moved
  <2>4. CASE ~task[t].replay /\ ~task[t].full
    <3>1. w = Idle
      BY <2>4 DEF AfterItems
    <3> QED  BY <2>1, <2>4, <3>1, IdleIs DEF Moved
  <2> QED  BY <2>2, <2>3, <2>4, <1>1 DEF Work
<1>3. CASE left # {}
  <2>1. PICK x \in left :
           task' = [task EXCEPT ![t] =
                    [@ EXCEPT !.pc = IF task[t].replay THEN "find" ELSE "record", !.ref = task[t].replay,
                              !.row = 0, !.src = "none", !.todo = left \ {x}, !.cur = x]]
    BY <1>3 DEF Take
  <2> DEFINE w == [task[t] EXCEPT !.pc = IF task[t].replay THEN "find" ELSE "record",
                                  !.ref = task[t].replay, !.row = 0, !.src = "none",
                                  !.todo = left \ {x}, !.cur = x]
  <2>2. task' = [task EXCEPT ![t] = w] /\ lock' = lock
    BY <1>3, <2>1 DEF Take, TasksInv
  <2>3. /\ w \in Work /\ w.pc \in {"find", "record"} /\ w.todo \subseteq Items /\ w.cur \in Items
        /\ w.full = task[t].full /\ w.replay = task[t].replay
    BY <1>1, <2>1, ZenonT(30) DEF Work, Summary, Merging, Alone, Pcs, Ids, Kinds
  <2> HIDE DEF w
  <2>4. Fits(w)
    BY <1>1, <2>3 DEF Fits, Summary, Merging, Alone
  <2> QED  BY <1>1, <2>2, <2>3, <2>4 DEF Moved
<1> QED  BY <1>2, <1>3

\* The acting task alone changes.
LEMMA OneMoves ==
  ASSUME TasksInv, NEW t \in Tasks, NEW w, task' = [task EXCEPT ![t] = w]
  PROVE  /\ task'[t] = w /\ \A u \in Tasks \ {t} : task'[u] = task[u]
         /\ DOMAIN task' = Tasks
BY DEF TasksInv

\* While there is a backfill the status says so; a sync under way has the lock.
LEMMA AloneIs ==
  ASSUME TasksInv, SyncInv, LoneInv, NEW t \in Tasks
  PROVE  /\ task[t].full => status.st = "running" /\ \A u \in Tasks : task[u].full => u = t
         /\ task[t].pc \in Alone => task[t].full
         /\ status.st = "none" => /\ ~task[t].full
                                  /\ task[t].pc # "idle" =>
                                        \A u \in Tasks : task[u].pc # "idle" => u = t
<1>1. \A u \in Tasks : task[u].full => u \in Backfills
  BY DEF TasksInv, Fits, Backfills, Active
<1>2. \A u \in Tasks : task[u].pc # "idle" /\ ~task[u].full => lock = u
  BY DEF SyncInv, Active
<1>3. task[t].pc \in Alone => task[t].full
  BY DEF TasksInv, Fits
<1>4. task[t].full => status.st = "running" /\ \A u \in Tasks : task[u].full => u = t
  BY <1>1 DEF LoneInv
<1>5. status.st = "none" => \A u \in Tasks : ~task[u].full
  BY <1>1 DEF LoneInv
<1> QED  BY <1>2, <1>3, <1>4, <1>5

\* A step of a task keeps what holds of the tasks, their lock and their lease.
LEMMA TasksStay ==
  ASSUME TasksInv, SyncInv, LoneInv, lock \in Tasks \cup {Free}, NEW t \in Tasks, NEW w,
         Moved(t, w)
  PROVE  /\ TasksInv' /\ SyncInv' /\ lock' \in Tasks \cup {Free} /\ Backfills' \subseteq Backfills
<1>1. /\ task'[t] = w /\ \A u \in Tasks \ {t} : task'[u] = task[u]
      /\ DOMAIN task' = Tasks
  BY OneMoves DEF Moved
<1>2. Fits(w)
  BY DEF Moved
<1>3. TasksInv'
  <2>1. ASSUME NEW u \in Tasks PROVE Fits(task[u])'
    <3>1. CASE u = t
      BY <1>1, <1>2, <3>1 DEF Fits
    <3>2. CASE u # t
      BY <1>1, <3>2 DEF TasksInv, Fits
    <3> QED  BY <3>1, <3>2
  <2> QED  BY <1>1, <2>1 DEF TasksInv
<1>4. SyncInv'
  <2>1. ASSUME NEW u \in Tasks, task'[u].pc # "idle", ~task'[u].full PROVE lock' = u
    <3>1. CASE u = t
      BY <1>1, <2>1, <3>1 DEF Moved
    <3>2. CASE u # t
      <4>1. lock = u
        BY <1>1, <2>1, <3>2 DEF SyncInv, Active
      <4> QED  BY <3>2, <4>1, BoundsAssumption DEF Moved
    <3> QED  BY <3>1, <3>2
  <2> QED  BY <2>1 DEF SyncInv, Active
<1>5. lock' \in Tasks \cup {Free}
  BY DEF Moved
<1>6. ASSUME NEW u \in Backfills' PROVE u \in Backfills
  <2>1. u \in Tasks /\ task'[u].full /\ task'[u].pc # "idle"
    BY DEF Backfills, Active
  <2>2. task[u].full
    BY <1>1, <2>1 DEF Moved
  <2> QED  BY <2>1, <2>2 DEF TasksInv, Fits, Backfills, Active
<1> QED  BY <1>3, <1>4, <1>5, <1>6

\* What was read stays true while rows keep their charges and no new telemetry refers to
\* the row to be deleted.
LEMMA MergesStay ==
  ASSUME NEW w, Fits(w), Merges(w),
         \A i \in RowIds, c \in Charges : IsOf(i, c) => IsOf(i, c)',
         \A c \in Charges : w.dup \in tele'[c] => \E d \in Charges : w.dup \in tele[d]
  PROVE  Merges(w)'
<1>1. w \in Work
  BY DEF Fits
<1>2. \A s \in w.snap : s.id \in RowIds /\ s.charge \in Charges
  BY <1>1 DEF Work, Reading
<1>3. w.pc \in {"aliases", "merge"} => \A s \in w.snap : IsOf(s.id, s.charge)'
  BY <1>2 DEF Merges
<1>4. ASSUME w.pc \in Merging
      PROVE  /\ IsOf(w.row, w.cur[1])'
             /\ \A s \in w.snap : s.charge # w.cur[1] => IsOf(s.id, s.charge)'
             /\ w.pc # "crown" =>
                   /\ w.dup \in RowIds \ {w.row} /\ IsOf(w.dup, w.cur[1])'
                   /\ \A e \in w.todo : e \notin {w.row, w.dup} /\ IsOf(e, w.cur[1])'
  <2>1. w.cur[1] \in Charges /\ w.row \in RowIds /\ w.todo \subseteq RowIds
    BY <1>4 DEF Fits
  <2> QED  BY <1>2, <1>4, <2>1 DEF Merges
<1>5. w.pc \in {"repay", "rehome", "drop"} => \A c \in Charges : w.dup \notin tele'[c]
  BY DEF Merges
<1> QED  BY <1>3, <1>4, <1>5 DEF Merges, IsOf

\* What is done to rows when none is inserted or deleted.
Edits ==
    /\ rows' \in [RowIds -> Row]
    /\ \A i \in RowIds : /\ rows'[i].charge = rows[i].charge /\ rows'[i].new = rows[i].new
                         /\ rows[i] = NoRow => rows'[i] = NoRow

\* A step of task t that edits rows at most.
Edited(t, w) ==
    /\ Moved(t, w) /\ Edits /\ Merges(w)' /\ Finds(w)'
    /\ UNCHANGED <<car, listed, tele, status, known, unwritten>>
    /\ ledger' \in [Items -> [st : {"none", "kept", "expired"}, link : Ids]]

LEMMA EditedStays ==
  ASSUME IInv, NEW t \in Tasks, NEW w, Edited(t, w)
  PROVE  IInv'
<1> USE DEF IInv
<1>1. /\ TasksInv' /\ SyncInv' /\ lock' \in Tasks \cup {Free} /\ Backfills' \subseteq Backfills
  BY TasksStay DEF Edited, StateInv
<1>2. /\ rows' \in [RowIds -> Row]
      /\ \A i \in RowIds : /\ rows'[i].charge = rows[i].charge /\ rows'[i].new = rows[i].new
                           /\ rows[i] = NoRow => rows'[i] = NoRow
  BY DEF Edited, Edits
<1>3. UNCHANGED <<car, listed, tele, status, known, unwritten>>
  BY DEF Edited
<1>4. NoRow.charge = Free
  BY DEF NoRow
<1>5. RowsInv'
  BY <1>2, <1>4 DEF RowsInv
<1>6. StateInv'
  BY <1>1, <1>3 DEF Edited, StateInv
<1>7. LoneInv'
  BY <1>1, <1>3 DEF LoneInv
<1>8. task'[t] = w /\ \A u \in Tasks \ {t} : task'[u] = task[u]
  BY OneMoves DEF Edited, Moved
<1>9. MergeInv'
  <2>1. ASSUME NEW u \in Tasks \ {t} PROVE Merges(task[u])'
    <3> PICK v : v = task[u]
      OBVIOUS
    <3>1. Fits(v) /\ Merges(v)
      BY DEF TasksInv, MergeInv
    <3>2. \A i \in RowIds, c \in Charges : IsOf(i, c) => IsOf(i, c)'
      BY <1>2 DEF IsOf
    <3>3. Merges(v)'
      BY <1>3, <3>1, <3>2, MergesStay
    <3>4. task'[u] = v
      BY <1>8
    <3> QED  BY <3>3, <3>4 DEF Merges
  <2>2. Merges(task[t])'
    BY <1>8 DEF Edited, Merges
  <2> QED  BY <2>1, <2>2 DEF MergeInv
<1>10. NewInv'
  BY <1>2, <1>3 DEF NewInv
<1>11. FindInv'
  <2>1. ASSUME NEW u \in Tasks \ {t} PROVE Finds(task[u])'
    BY <1>2, <1>3, <1>8 DEF FindInv, Finds, Of
  <2>2. Finds(task[t])'
    BY <1>8 DEF Edited, Finds
  <2> QED  BY <2>1, <2>2 DEF FindInv
<1>12. NoChargeLost'
  BY <1>2, <1>3 DEF NoChargeLost, Of
<1>13. TelemetryHoused'
  <2>1. \A i \in RowIds : Live(i) => Live(i)'
    BY <1>2, <1>4 DEF Live, RowsInv
  <2> QED  BY <1>3, <2>1 DEF TelemetryHoused
<1> QED  BY <1>1, <1>5, <1>6, <1>7, <1>9, <1>10, <1>11, <1>12, <1>13

\* Most steps have nothing to remember of the rows.
LEMMA Otherwise ==
  ASSUME NEW w, w.pc \notin {"aliases", "merge", "write"} \cup Merging
  PROVE  Merges(w)' /\ Finds(w)'
BY DEF Merges, Finds, Merging

\* Rows that do not change are edited at most.
LEMMA SameRows == ASSUME RowsInv, UNCHANGED rows PROVE Edits
BY DEF RowsInv, Edits

\* A step that changes the task and the ledger at most.
LEMMA QuietStays ==
  ASSUME IInv, NEW t \in Tasks, NEW w, Moved(t, w), Merges(w)', Finds(w)',
         UNCHANGED <<world, rows, tele, status, known, unwritten>>,
         ledger' \in [Items -> [st : {"none", "kept", "expired"}, link : Ids]]
  PROVE  IInv'
BY SameRows, EditedStays DEF IInv, Edited, world

\* The ledger afterwards, when it stays.
LEMMA SameLedger ==
  ASSUME StateInv, UNCHANGED ledger
  PROVE  ledger' \in [Items -> [st : {"none", "kept", "expired"}, link : Ids]]
BY DEF StateInv

\* Edits of live rows, of what does not say which charge they are of.
LEMMA EditOne ==
  ASSUME RowsInv, NEW rs \in [RowIds -> Row], NEW i \in RowIds, Live(i), NEW r \in Row,
         \A j \in RowIds : /\ rs[j].charge = rows[j].charge /\ rs[j].new = rows[j].new
                           /\ rows[j] = NoRow => rs[j] = NoRow,
         r.charge = rs[i].charge, r.new = rs[i].new
  PROVE  /\ [rs EXCEPT ![i] = r] \in [RowIds -> Row]
         /\ \A j \in RowIds :
               /\ [rs EXCEPT ![i] = r][j].charge = rows[j].charge
               /\ [rs EXCEPT ![i] = r][j].new = rows[j].new
               /\ rows[j] = NoRow => [rs EXCEPT ![i] = r][j] = NoRow
BY DEF Live

\* Finalizing a row's aliases is such an edit.
LEMMA FinalizedIs ==
  ASSUME RowsInv, NEW rs \in [RowIds -> Row], NEW i \in RowIds, Live(i),
         \A j \in RowIds : /\ rs[j].charge = rows[j].charge /\ rs[j].new = rows[j].new
                           /\ rows[j] = NoRow => rs[j] = NoRow,
         rows' = Finalized(rs, i)
  PROVE  Edits
<1> DEFINE best == Best(rs[i].al)
<1>1. best \in 0 .. MaxVersion
  <2>1. rs[i].al \in SUBSET (0 .. MaxVersion)
    BY BoundsAre DEF Row, Versions
  <2> QED  BY <2>1, BestIs
<1> HIDE DEF best
<1>2. CASE rows' = rs
  BY <1>2 DEF Edits
<1>3. CASE rows' = [rs EXCEPT ![i].sid = best]
  <2> DEFINE r == [rs[i] EXCEPT !.sid = best]
  <2>1. r \in Row /\ r.charge = rs[i].charge /\ r.new = rs[i].new
    BY <1>1 DEF Row
  <2>2. rows' = [rs EXCEPT ![i] = r]
    BY <1>3
  <2> HIDE DEF r
  <2> QED  BY <2>1, <2>2, EditOne DEF Edits
<1> QED  BY <1>2, <1>3 DEF Finalized, best

\* Aliases are added to a live row, which are then finalized.
LEMMA AliasedIs ==
  ASSUME RowsInv, NEW i \in RowIds, Live(i), NEW names \in SUBSET Versions,
         rows' = Finalized([rows EXCEPT ![i].al = @ \cup names], i)
  PROVE  Edits
<1> DEFINE r == [rows[i] EXCEPT !.al = @ \cup names]
<1>1. r \in Row /\ r.charge = rows[i].charge /\ r.new = rows[i].new
  BY DEF RowsInv, Row
<1> DEFINE rs == [rows EXCEPT ![i] = r]
<1>2. rows' = Finalized(rs, i)
  OBVIOUS
<1>3. rs \in [RowIds -> Row]
  BY <1>1 DEF RowsInv
<1>4. \A j \in RowIds : /\ rs[j].charge = rows[j].charge /\ rs[j].new = rows[j].new
                        /\ rows[j] = NoRow => rs[j] = NoRow
  BY <1>1 DEF RowsInv, Live
<1> HIDE DEF rs, r
<1> QED  BY <1>2, <1>3, <1>4, FinalizedIs

\* Where an error or a refusal leaves a task.
LEMMA FailedMoves ==
  ASSUME IInv, NEW t \in Tasks, task[t].pc # "idle", task' = [task EXCEPT ![t] = Failed(t)], Unlock(t)
  PROVE  \E w : Moved(t, w) /\ w.pc \in {"error", "idle"}
<1>1. lock' = lock \/ (lock = t /\ lock' = Free)
  BY DEF Unlock
<1>2. CASE task[t].full
  <2> PICK w : w = [Idle EXCEPT !.pc = "error", !.full = TRUE]
    OBVIOUS
  <2>1. Fits(w) /\ w.pc = "error" /\ w.full
    BY IdleIs
  <2> QED  BY <1>1, <1>2, <2>1 DEF Failed, Moved
<1>3. CASE ~task[t].full
  BY <1>1, <1>3, IdleIs DEF Failed, Moved
<1> QED  BY <1>2, <1>3

-----------------------------------------------------------------------------
(* The steps of the tasks                                                  *)

\* A task whose step is refused or fails keeps the invariant, and so does its lock's taking.
LEMMA RefusedStep ==
  ASSUME IInv, NEW t \in Tasks, Fails(t) \/ (task[t].pc # "idle" /\ Refused(t))
  PROVE  IInv'
<1>1. /\ task' = [task EXCEPT ![t] = Failed(t)] /\ Unlock(t) /\ task[t].pc # "idle"
      /\ UNCHANGED <<world, store, status, history>>
  BY DEF Fails, Refused
<1>2. PICK w : Moved(t, w) /\ w.pc \in {"error", "idle"}
  BY <1>1, FailedMoves
<1>3. Merges(w)' /\ Finds(w)'
  BY <1>2, Otherwise DEF Merging
<1> QED  BY <1>1, <1>2, <1>3, QuietStays, SameLedger DEF IInv, store, history

LEMMA LockStep ==
  ASSUME IInv, NEW t \in Tasks, StartSync(t) \/ AwaitLock(t)
  PROVE  IInv'
<1>1. task[t].pc \in {"idle", "lock"} /\ LockHistory(t)
  BY DEF StartSync, AwaitLock
<1> PICK w : w = [task[t] EXCEPT !.pc = "ask"]
  OBVIOUS
<1>2. task[t] \in Work /\ (task[t].replay => task[t].full)
  BY DEF IInv, TasksInv, Fits
<1>3. w \in Work /\ w.pc = "ask" /\ w.full = task[t].full /\ w.replay = task[t].replay
  BY <1>2 DEF Work, Pcs
<1>4. Fits(w)
  BY <1>2, <1>3 DEF Fits, Summary, Merging, Alone
<1>5. task' = [task EXCEPT ![t] = w]
  BY <1>1 DEF LockHistory, Goto, IInv, TasksInv
<1>6. Moved(t, w)
  BY <1>1, <1>3, <1>4, <1>5 DEF Moved, LockHistory
<1>7. Merges(w)' /\ Finds(w)'
  BY <1>3, Otherwise DEF Merging
<1> QED  BY <1>1, <1>6, <1>7, QuietStays, SameLedger DEF IInv, LockHistory, store, history

LEMMA AskStep == ASSUME IInv, NEW t \in Tasks, Ask(t) PROVE IInv'
<1> DEFINE left == {<<c, listed[c]>> : c \in {d \in Charges : listed[d] > 0}}
<1>1. left \in SUBSET Items
  BY BoundsAre DEF IInv, StateInv, Items, Versions
<1>2. Take(t, left) /\ task[t].pc = "ask" /\ UNCHANGED <<world, store, status, history, faults>>
  BY DEF Ask
<1> HIDE DEF left
<1>3. PICK w : Moved(t, w) /\ w.pc \in {"record", "find", "read", "seed", "idle"}
  BY <1>1, <1>2, TakeMoves DEF IInv
<1>4. Merges(w)' /\ Finds(w)'
  BY <1>3, Otherwise DEF Merging
<1> QED  BY <1>2, <1>3, <1>4, QuietStays, SameLedger DEF IInv, store, history

\* What a task at one summary is: one that goes on with it keeps its lock.
LEMMA SummaryIs ==
  ASSUME IInv, NEW t \in Tasks, task[t].pc \in Summary
  PROVE  /\ task[t] \in Work /\ (task[t].replay => task[t].full)
         /\ task[t].cur \in Items /\ task[t].todo \in SUBSET Items
         /\ Charge(t) \in Charges /\ Version(t) \in Versions
         /\ ~task[t].full => lock = t
<1>1. /\ task[t] \in Work /\ (task[t].replay => task[t].full)
      /\ task[t].cur \in Items /\ task[t].todo \in SUBSET Items
  BY DEF IInv, TasksInv, Fits
<1>2. Charge(t) \in Charges /\ Version(t) \in Versions
  BY <1>1 DEF Items, Charge, Version
<1>3. ~task[t].full => lock = t
  BY DEF IInv, SyncInv, Active, Summary
<1> QED  BY <1>1, <1>2, <1>3

\* It goes on with it at another step.
LEMMA GoesOn ==
  ASSUME IInv, NEW t \in Tasks, task[t].pc \in Summary, NEW w \in Work,
         w.pc \in Summary, w.full = task[t].full, w.replay = task[t].replay,
         w.cur = task[t].cur, w.todo = task[t].todo, w.pc = "alias" => w.row \in RowIds,
         task' = [task EXCEPT ![t] = w], lock' = lock
  PROVE  Moved(t, w)
<1>1. Fits(w)
  BY SummaryIs, PcsAre DEF Fits, Summary, Merging, Alone
<1> QED  BY <1>1, SummaryIs DEF Moved, Summary

LEMMA RecordStep == ASSUME IInv, NEW t \in Tasks, Record(t) PROVE IInv'
<1> DEFINE x == task[t].cur
           st == [Items -> [st : {"none", "kept", "expired"}, link : Ids]]
<1>1. task[t].pc = "record" /\ UNCHANGED <<world, rows, tele, status, history>>
  BY DEF Record
<1>2. task[t].pc \in Summary
  BY <1>1 DEF Summary
<1>3. /\ task[t] \in Work /\ (task[t].replay => task[t].full)
      /\ x \in Items /\ task[t].todo \in SUBSET Items /\ x[1] \in Charges
  BY <1>2, SummaryIs DEF Charge
<1>4. ledger \in st
  BY DEF IInv, StateInv
<1> HIDE DEF st
<1>5. CASE Take(t, task[t].todo) /\ UNCHANGED ledger
  <2>1. PICK w : Moved(t, w) /\ w.pc \in {"record", "find", "read", "seed", "idle"}
    BY <1>2, <1>3, <1>5, TakeMoves DEF IInv
  <2>2. Merges(w)' /\ Finds(w)'
    BY <2>1, Otherwise DEF Merging
  <2> QED  BY <1>1, <1>4, <1>5, <2>1, <2>2, QuietStays DEF IInv, history, st
<1>6. ASSUME NEW w, w \in {[task[t] EXCEPT !.pc = "find", !.ref = b] : b \in BOOLEAN} \cup
                          {[task[t] EXCEPT !.pc = "find"]},
             task' = [task EXCEPT ![t] = w], lock' = lock, ledger' \in st
      PROVE  IInv'
  <2>1. /\ w \in Work /\ w.pc = "find" /\ w.full = task[t].full /\ w.replay = task[t].replay
        /\ w.cur = task[t].cur /\ w.todo = task[t].todo
    BY <1>3, <1>6 DEF Work, Pcs, Summary
  <2>2. Moved(t, w)
    BY <1>2, <1>6, <2>1, GoesOn DEF Summary
  <2>3. Merges(w)' /\ Finds(w)'
    BY <2>1, Otherwise DEF Merging
  <2> QED  BY <1>1, <1>6, <2>2, <2>3, QuietStays DEF IInv, history, st
<1>7. CASE /\ task' = [task EXCEPT ![t].pc = "find", ![t].ref = ledger[x].st = "kept"]
           /\ UNCHANGED <<ledger, lock>>
  <2> PICK w : w = [task[t] EXCEPT !.pc = "find", !.ref = ledger[x].st = "kept"]
    OBVIOUS
  <2>1. task' = [task EXCEPT ![t] = w]
    BY <1>7 DEF IInv, TasksInv
  <2>2. (ledger[x].st = "kept") \in BOOLEAN
    OBVIOUS
  <2> QED  BY <1>4, <1>6, <1>7, <2>1, <2>2
<1>8. CASE /\ \E i \in LinkedAtOnce(x[1]) : ledger' = [ledger EXCEPT ![x] = [st |-> "kept", link |-> i]]
           /\ task' = [task EXCEPT ![t].pc = "find", ![t].ref = TRUE] /\ UNCHANGED lock
  <2> PICK w : w = [task[t] EXCEPT !.pc = "find", !.ref = TRUE]
    OBVIOUS
  <2>1. task' = [task EXCEPT ![t] = w]
    BY <1>8 DEF IInv, TasksInv
  <2>2. LinkedAtOnce(x[1]) \subseteq Ids
    BY DEF LinkedAtOnce, Of, Ids
  <2>3. ledger' \in st
    BY <1>3, <1>4, <1>8, <2>2 DEF st
  <2> QED  BY <1>6, <1>8, <2>1, <2>3
<1>9. CASE Goto(t, "find") /\ UNCHANGED <<ledger, lock>>
  <2> PICK w : w = [task[t] EXCEPT !.pc = "find"]
    OBVIOUS
  <2>1. task' = [task EXCEPT ![t] = w]
    BY <1>9 DEF Goto, IInv, TasksInv
  <2> QED  BY <1>4, <1>6, <1>9, <2>1
<1> QED  BY <1>5, <1>7, <1>8, <1>9 DEF Record

\* A summary matches no row only if its charge has none.
LEMMA MatchesAre ==
  ASSUME IInv, NEW t \in Tasks, task[t].pc \in Summary
  PROVE  Matches(t) \subseteq RowIds /\ (Matches(t) = {} => Of(Charge(t)) = {})
<1> DEFINE of == Of(Charge(t))
           R == {Rank(rows[i].src) : i \in of}
           best == {i \in of : \A j \in of : Rank(rows[j].src) <= Rank(rows[i].src)}
<1>1. of \subseteq RowIds /\ Matches(t) \subseteq of
  BY DEF Matches, Of
<1>2. best # {} => Matches(t) # {}
  <2> HIDE DEF of
  <2> QED  BY DEF Matches, of
<1>3. ASSUME of # {} PROVE best # {}
  <2>1. \A i \in RowIds : rows[i].src \in Kinds
    BY DEF IInv, RowsInv, Row
  <2>2. R \in SUBSET (0 .. 4) /\ R # {}
    BY <1>1, <1>3, <2>1 DEF Rank, Kinds
  <2> HIDE DEF R
  <2>3. PICK r \in R : \A q \in R : q <= r
    BY <2>2, Greatest
  <2> USE DEF R
  <2> HIDE DEF of
  <2>4. PICK i \in of : r = Rank(rows[i].src)
    BY <2>3
  <2>5. \A j \in of : Rank(rows[j].src) \in R
    OBVIOUS
  <2>6. \A j \in of : Rank(rows[j].src) <= Rank(rows[i].src)
    BY <2>3, <2>4, <2>5
  <2> QED  BY <2>6
<1> QED  BY <1>1, <1>2, <1>3

LEMMA FindStep == ASSUME IInv, NEW t \in Tasks, Find(t) PROVE IInv'
<1>1. task[t].pc \in Summary /\ UNCHANGED <<world, store, lock, status, history, faults>>
  BY DEF Find, Summary
<1>2. PICK i \in IF Matches(t) = {} THEN {0} ELSE Matches(t) :
         task' = [task EXCEPT ![t].pc = "write", ![t].row = i,
                              ![t].src = IF i = 0 THEN "none" ELSE rows[i].src]
  BY DEF Find
<1>3. i \in Ids /\ (i = 0 => Of(Charge(t)) = {})
  BY <1>1, <1>2, MatchesAre, BoundsAre DEF Ids
<1> PICK src : src = IF i = 0 THEN "none" ELSE rows[i].src
  OBVIOUS
<1>4. src \in Kinds
  BY <1>3 DEF IInv, RowsInv, Row, Ids, Kinds
<1> PICK w : w = [task[t] EXCEPT !.pc = "write", !.row = i, !.src = src]
  OBVIOUS
<1>5. /\ task[t] \in Work /\ task[t].cur \in Items
  BY <1>1, SummaryIs
<1>6. /\ w \in Work /\ w.pc = "write" /\ w.full = task[t].full /\ w.replay = task[t].replay
      /\ w.cur = task[t].cur /\ w.todo = task[t].todo /\ w.row = i
  BY <1>3, <1>4, <1>5 DEF Work, Pcs, Summary
<1>7. task' = [task EXCEPT ![t] = w]
  BY <1>2 DEF IInv, TasksInv
<1>8. Moved(t, w)
  BY <1>1, <1>6, <1>7, GoesOn DEF Summary
<1>9. Merges(w)'
  BY <1>6 DEF Merges, Merging
<1>10. Finds(w)'
  BY <1>1, <1>3, <1>6 DEF Finds, Of, Charge, store
<1> QED  BY <1>1, <1>8, <1>9, <1>10, QuietStays, SameLedger DEF IInv, store, history

LEMMA UpdateStep == ASSUME IInv, NEW t \in Tasks, Update(t) PROVE IInv'
<1> DEFINE k == task[t].row
<1>1. /\ task[t].pc \in Summary /\ k # 0
      /\ UNCHANGED <<world, tele, ledger, lock, status, history, faults>>
  BY DEF Update, Summary
<1>2. /\ task[t] \in Work /\ Version(t) \in Versions
  BY <1>1, SummaryIs
<1>3. k \in RowIds
  BY <1>1, <1>2 DEF Work, Ids
<1> PICK w : w = [task[t] EXCEPT !.pc = "alias"]
  OBVIOUS
<1>4. /\ w \in Work /\ w.pc = "alias" /\ w.full = task[t].full /\ w.replay = task[t].replay
      /\ w.cur = task[t].cur /\ w.todo = task[t].todo /\ w.row \in RowIds
  BY <1>2, <1>3 DEF Work, Pcs, Summary
<1>5. task' = [task EXCEPT ![t] = w]
  BY DEF Update, Goto, IInv, TasksInv
<1>6. Moved(t, w)
  BY <1>1, <1>4, <1>5, GoesOn DEF Summary
<1>7. Merges(w)' /\ Finds(w)'
  BY <1>4, Otherwise DEF Merging
<1>8. Edits
  <2>1. CASE rows[k] = NoRow
    <3>1. rows' = rows
      BY <2>1 DEF Update, Live
    <3> QED  BY <3>1, SameRows DEF IInv
  <2>2. CASE rows[k] # NoRow
    <3> DEFINE r == [rows[k] EXCEPT !.src = Enriched(task[t].src),
                                    !.meta = IF @ = 0 THEN Version(t) ELSE @]
    <3>1. r \in Row /\ r.charge = rows[k].charge /\ r.new = rows[k].new
      <4>1. Enriched(task[t].src) \in Kinds
        BY DEF Enriched, Kinds
      <4>2. rows[k] \in Row /\ Version(t) \in 0 .. MaxVersion
        BY <1>2, <1>3, BoundsAre DEF IInv, RowsInv, Versions
      <4> QED  BY <4>1, <4>2 DEF Row
    <3>2. rows' = [rows EXCEPT ![k] = r]
      <4>1. rows' = [rows EXCEPT ![k].src = Enriched(task[t].src),
                                 ![k].meta = IF @ = 0 THEN Version(t) ELSE @]
        BY <2>2 DEF Update, Live
      <4> QED  BY <1>3, <4>1 DEF IInv, RowsInv, Row
    <3> HIDE DEF r, k
    <3> QED  BY <1>3, <2>2, <3>1, <3>2, EditOne DEF Edits, IInv, RowsInv, Live
  <2> QED  BY <2>1, <2>2
<1> QED  BY <1>1, <1>6, <1>7, <1>8, EditedStays, SameLedger DEF IInv, Edited, world, history

LEMMA AliasStep == ASSUME IInv, NEW t \in Tasks, Alias(t) PROVE IInv'
<1>1. task[t].pc \in Summary /\ task[t].pc # "idle"
  BY DEF Alias, Summary
<1>2. CASE ~Live(task[t].row)
  BY <1>1, <1>2, RefusedStep DEF Alias
<1>3. CASE Live(task[t].row)
  <2>1. /\ rows' = Finalized([rows EXCEPT ![task[t].row].al = @ \cup Names(t)], task[t].row)
        /\ Goto(t, "link")
        /\ UNCHANGED <<world, tele, ledger, lock, status, history, faults>>
    BY <1>3 DEF Alias
  <2>2. /\ task[t] \in Work /\ Version(t) \in Versions
    BY <1>1, SummaryIs
  <2> PICK w : w = [task[t] EXCEPT !.pc = "link"]
    OBVIOUS
  <2>3. /\ w \in Work /\ w.pc = "link" /\ w.full = task[t].full /\ w.replay = task[t].replay
        /\ w.cur = task[t].cur /\ w.todo = task[t].todo
    BY <2>2 DEF Work, Pcs, Summary
  <2>4. task' = [task EXCEPT ![t] = w]
    BY <2>1 DEF Goto, IInv, TasksInv
  <2>5. Moved(t, w)
    BY <1>1, <2>1, <2>3, <2>4, GoesOn DEF Summary
  <2>6. Merges(w)' /\ Finds(w)'
    BY <2>3, Otherwise DEF Merging
  <2>7. task[t].row \in RowIds
    BY DEF Alias, IInv, TasksInv, Fits
  <2>8. Names(t) \in SUBSET Versions
    BY <2>2, BoundsAre DEF Names, Versions
  <2>9. Edits
    BY <1>3, <2>1, <2>7, <2>8, AliasedIs DEF IInv
  <2> QED  BY <2>1, <2>5, <2>6, <2>9, EditedStays, SameLedger DEF IInv, Edited, world, history
<1> QED  BY <1>2, <1>3

LEMMA LinkStep == ASSUME IInv, NEW t \in Tasks, Link(t) PROVE IInv'
<1> DEFINE x == task[t].cur
           st == [Items -> [st : {"none", "kept", "expired"}, link : Ids]]
<1>1. task[t].pc \in Summary /\ Take(t, task[t].todo) /\ UNCHANGED <<world, rows, tele, status, history>>
  BY DEF Link, Summary
<1>2. task[t] \in Work /\ x \in Items /\ task[t].todo \in SUBSET Items
  BY <1>1, SummaryIs
<1>3. PICK w : Moved(t, w) /\ w.pc \in {"record", "find", "read", "seed", "idle"}
  BY <1>1, <1>2, TakeMoves DEF IInv
<1>4. Merges(w)' /\ Finds(w)'
  BY <1>3, Otherwise DEF Merging
<1>5. ledger' \in st
  <2>1. ledger \in st /\ task[t].row \in Ids
    BY <1>2 DEF IInv, StateInv, Work
  <2>2. ledger' = ledger \/ ledger' = [ledger EXCEPT ![x].link = task[t].row]
    BY DEF Link
  <2> HIDE DEF x
  <2> QED  BY <1>2, <2>1, <2>2
<1> QED  BY <1>1, <1>3, <1>4, <1>5, QuietStays DEF IInv, history

\* A row is inserted under an id that no row has.
LEMMA InsertIs ==
  ASSUME IInv, NEW i \in RowIds, ~Live(i), NEW r \in Row, r.charge \in Charges, Insert(i, r)
  PROVE  /\ RowsInv' /\ NoChargeLost' /\ Live(i)' /\ known' \subseteq Charges
         /\ \A j \in RowIds : j # i => rows'[j] = rows[j]
         /\ rows'[i] = r
         /\ \A j \in RowIds : Live(j) => Live(j)'
         /\ \A j \in RowIds, c \in Charges : IsOf(j, c) => IsOf(j, c)'
<1>1. /\ rows \in [RowIds -> Row] /\ rows' = [rows EXCEPT ![i] = r] /\ known' = known \cup {r.charge}
      /\ r.charge # Free /\ NoRow.charge = Free /\ rows[i] = NoRow
  BY BoundsAssumption DEF IInv, RowsInv, Insert, NoRow, Live
<1>2. (\A j \in RowIds : j # i => rows'[j] = rows[j]) /\ rows'[i] = r /\ rows' \in [RowIds -> Row]
  BY <1>1
<1>3. RowsInv'
  BY <1>1, <1>2 DEF IInv, RowsInv
<1>4. Live(i)' /\ \A j \in RowIds : Live(j) => Live(j)'
  BY <1>1, <1>2 DEF Live
<1>5. ASSUME NEW j \in RowIds, NEW c \in Charges, IsOf(j, c) PROVE IsOf(j, c)'
  <2>1. j # i
    BY <1>1, <1>5, BoundsAssumption DEF IsOf
  <2> QED  BY <1>2, <1>5, <2>1 DEF IsOf
<1>6. NoChargeLost'
  <2> SUFFICES ASSUME NEW c \in known' PROVE \E j \in RowIds : rows'[j].charge = c
    BY DEF NoChargeLost, Of
  <2>1. CASE c = r.charge
    BY <1>2, <2>1
  <2>2. CASE c # r.charge
    <3>1. PICK j \in RowIds : rows[j].charge = c
      BY <1>1, <2>2 DEF IInv, NoChargeLost, Of
    <3>2. CASE j = i
      BY <1>1, <2>2, <3>1, <3>2, BoundsAssumption DEF IInv, StateInv
    <3>3. CASE j # i
      BY <1>2, <3>1, <3>3
    <3> QED  BY <3>2, <3>3
  <2> QED  BY <2>1, <2>2
<1>7. known' \subseteq Charges
  BY <1>1 DEF IInv, StateInv
<1> QED  BY <1>2, <1>3, <1>4, <1>5, <1>6, <1>7

\* The row of a sync.
LEMMA InsertApiOnlyStep == ASSUME IInv, NEW t \in Tasks, InsertApiOnly(t) PROVE IInv'
<1> DEFINE c == Charge(t)
           st == [Items -> [st : {"none", "kept", "expired"}, link : Ids]]
<1>1. /\ task[t].pc = "write" /\ task[t].row = 0 /\ task[t].pc \in Summary
      /\ UNCHANGED <<world, tele, ledger, status, unwritten, faults>>
  BY DEF InsertApiOnly, Summary
<1>2. /\ task[t] \in Work /\ task[t].cur \in Items /\ task[t].todo \in SUBSET Items
      /\ c \in Charges /\ Version(t) \in Versions
  BY <1>1, SummaryIs
<1>3. ledger' \in st
  BY <1>1, SameLedger DEF IInv
<1>4. CASE Take(t, task[t].todo) /\ UNCHANGED <<rows, known>>
  <2>1. PICK w : Moved(t, w) /\ w.pc \in {"record", "find", "read", "seed", "idle"}
    BY <1>1, <1>2, <1>4, TakeMoves DEF IInv
  <2>2. Merges(w)' /\ Finds(w)'
    BY <2>1, Otherwise DEF Merging
  <2> QED  BY <1>1, <1>3, <1>4, <2>1, <2>2, QuietStays
<1>5. CASE /\ RowIds \ Used # {}
           /\ Insert(NewId, [charge |-> Charge(t), src |-> "a", sid |-> Version(t),
                             meta |-> Version(t), al |-> {}, new |-> TRUE])
           /\ task' = [task EXCEPT ![t].pc = "alias", ![t].row = NewId]
           /\ UNCHANGED lock
  <2> PICK i : i = NewId
    OBVIOUS
  <2> PICK r : r = [charge |-> Charge(t), src |-> "a", sid |-> Version(t),
                    meta |-> Version(t), al |-> {}, new |-> TRUE]
    OBVIOUS
  <2> PICK w : w = [task[t] EXCEPT !.pc = "alias", !.row = i]
    OBVIOUS
  <2>1. i \in RowIds /\ ~Live(i) /\ \A u \in Tasks : i # task[u].dup
    BY <1>5, NewIdIs
  <2>2. r \in Row /\ r.charge = c
    BY <1>2, BoundsAre DEF Row, Kinds, Versions
  <2>3. /\ w \in Work /\ w.pc = "alias" /\ w.full = task[t].full /\ w.replay = task[t].replay
        /\ w.cur = task[t].cur /\ w.todo = task[t].todo /\ w.row \in RowIds
    BY <1>2, <2>1 DEF Work, Pcs, Summary, Ids
  <2>4. task' = [task EXCEPT ![t] = w]
    BY <1>5 DEF IInv, TasksInv
  <2>5. Moved(t, w)
    BY <1>1, <1>5, <2>3, <2>4, GoesOn DEF Summary
  <2>6. TasksInv' /\ SyncInv' /\ lock' \in Tasks \cup {Free} /\ Backfills' \subseteq Backfills
    BY <2>5, TasksStay DEF IInv, StateInv
  <2>7. /\ RowsInv' /\ NoChargeLost' /\ known' \subseteq Charges
        /\ \A j \in RowIds : j # i => rows'[j] = rows[j]
        /\ rows'[i] = r
        /\ \A j \in RowIds : Live(j) => Live(j)'
        /\ \A j \in RowIds, d \in Charges : IsOf(j, d) => IsOf(j, d)'
    <3>1. Insert(i, r)
      BY <1>5
    <3> QED  BY <1>2, <2>1, <2>2, <3>1, InsertIs
  <2>8. task'[t] = w /\ \A u \in Tasks \ {t} : task'[u] = task[u]
    BY <2>4, OneMoves DEF IInv
  <2>9. StateInv'
    BY <1>1, <2>6, <2>7 DEF IInv, StateInv, world
  <2>10. LoneInv'
    BY <1>1, <2>6 DEF IInv, LoneInv
  <2>11. MergeInv'
    <3>1. ASSUME NEW u \in Tasks \ {t} PROVE Merges(task[u])'
      <4> PICK v : v = task[u]
        OBVIOUS
      <4>1. Fits(v) /\ Merges(v)
        BY DEF IInv, TasksInv, MergeInv
      <4>2. Merges(v)'
        BY <1>1, <2>7, <4>1, MergesStay
      <4> QED  BY <2>8, <4>2 DEF Merges
    <3>2. Merges(w)'
      BY <2>3, Otherwise DEF Merging
    <3>3. Merges(task[t])'
      BY <2>8, <3>2 DEF Merges
    <3> QED  BY <3>1, <3>3 DEF MergeInv
  <2>12. NewInv'
    <3> SUFFICES ASSUME status'.st = "none", NEW j \in RowIds, NEW k \in RowIds,
                        rows'[j].new, rows'[k].new, rows'[j].charge = rows'[k].charge, j # k
                 PROVE  FALSE
      BY DEF NewInv
    <3>1. status.st = "none"
      BY <1>1
    <3>2. \A l \in RowIds : rows[l].charge = c => ~rows[l].new
      BY <1>1, <3>1 DEF IInv, FindInv, Finds, Of, Charge
    <3>3. CASE j # i /\ k # i
      BY <2>7, <3>1, <3>3 DEF IInv, NewInv
    <3>4. CASE j = i
      BY <2>2, <2>7, <3>2, <3>4
    <3>5. CASE k = i
      BY <2>2, <2>7, <3>2, <3>5
    <3> QED  BY <3>3, <3>4, <3>5
  <2>13. FindInv'
    <3>1. ASSUME NEW u \in Tasks PROVE Finds(task[u])'
      <4>1. CASE u = t
        BY <2>3, <2>8, <4>1 DEF Finds
      <4>2. CASE u # t
        <5>1. status.st = "none" => task[u].pc = "idle"
          BY <1>1, <4>2, AloneIs DEF IInv
        <5> QED  BY <1>1, <2>8, <4>2, <5>1 DEF Finds
      <4> QED  BY <4>1, <4>2
    <3> QED  BY <3>1 DEF FindInv
  <2>14. TelemetryHoused'
    BY <1>1, <2>7 DEF IInv, TelemetryHoused
  <2> QED  BY <2>6, <2>7, <2>9, <2>10, <2>11, <2>12, <2>13, <2>14 DEF IInv
<1> QED  BY <1>4, <1>5 DEF InsertApiOnly

\* A backfill that canonicalizes is alone, and its next step is Moved.
LEMMA CanonIs ==
  ASSUME IInv, NEW t \in Tasks, task[t].pc \in Alone
  PROVE  /\ task[t] \in Work /\ Fits(task[t]) /\ Merges(task[t]) /\ task[t].full
         /\ status.st = "running" /\ \A u \in Tasks : task[u].full => u = t
         /\ \A w : Fits(w) /\ (w.full \/ w.pc = "idle") /\ task' = [task EXCEPT ![t] = w]
                   /\ lock' = lock => Moved(t, w)
<1>1. task[t] \in Work /\ Fits(task[t]) /\ Merges(task[t])
  BY DEF IInv, TasksInv, MergeInv, Fits
<1>2. task[t].full /\ status.st = "running" /\ \A u \in Tasks : task[u].full => u = t
  BY AloneIs DEF IInv
<1> QED  BY <1>1, <1>2 DEF Moved

\* A step of a backfill that changes the task, the rows and the ledger at most.
LEMMA CanonStays ==
  ASSUME IInv, NEW t \in Tasks, task[t].pc \in Alone, NEW w, Fits(w), w.full \/ w.pc = "idle",
         task' = [task EXCEPT ![t] = w], Edits, Merges(w)',
         UNCHANGED <<world, tele, lock, status, history>>,
         ledger' \in [Items -> [st : {"none", "kept", "expired"}, link : Ids]]
  PROVE  IInv'
<1>1. Moved(t, w) /\ status.st = "running"
  BY CanonIs
<1>2. Finds(w)'
  BY <1>1 DEF Finds
<1> QED  BY <1>1, <1>2, EditedStays DEF Edited, world, history

LEMMA SourcesStep == ASSUME IInv, NEW t \in Tasks, Sources(t) PROVE IInv'
<1> DEFINE todo == {i \in RowIds : rows[i].meta # 0}
<1>1. task[t].pc = "seed" /\ task[t].pc \in Alone
      /\ UNCHANGED <<world, tele, ledger, lock, status, history, faults>>
  BY DEF Sources, Alone
<1>2. task[t] \in Work /\ task[t].full
  BY <1>1, CanonIs
<1> PICK w : w = [task[t] EXCEPT !.pc = "reseed", !.todo = todo]
  OBVIOUS
<1>3. task' = [task EXCEPT ![t] = w]
  BY DEF Sources, IInv, TasksInv
<1>4. w \in Work /\ w.pc = "reseed" /\ w.full /\ w.todo \subseteq RowIds
  BY <1>2 DEF Work, Pcs, Alone
<1>5. Fits(w)
  BY <1>4 DEF Fits, Summary, Merging
<1>6. Merges(w)'
  BY <1>4, Otherwise DEF Merging
<1>7. Edits
  <2>1. ASSUME NEW i \in RowIds
        PROVE  /\ rows'[i] \in Row /\ rows'[i].charge = rows[i].charge
               /\ rows'[i].new = rows[i].new /\ (rows[i] = NoRow => rows'[i] = NoRow)
    <3>1. rows[i] \in Row
      BY DEF IInv, RowsInv
    <3>2. CASE Live(i) /\ rows[i].src = "none"
      <4>1. rows'[i] = [rows[i] EXCEPT !.src = "t"]
        BY <3>2 DEF Sources
      <4> QED  BY <3>1, <3>2, <4>1 DEF Row, Kinds, Live
    <3>3. CASE ~(Live(i) /\ rows[i].src = "none")
      BY <3>1, <3>3 DEF Sources
    <3> QED  BY <3>2, <3>3
  <2>2. rows' = [i \in RowIds |-> rows'[i]]
    BY DEF Sources
  <2> QED  BY <2>1, <2>2 DEF Edits
<1> QED  BY <1>1, <1>3, <1>4, <1>5, <1>6, <1>7, CanonStays, SameLedger DEF IInv

LEMMA ReseedStep == ASSUME IInv, NEW t \in Tasks, Reseed(t) PROVE IInv'
<1>1. task[t].pc = "reseed" /\ task[t].pc \in Alone /\ task[t].pc # "idle"
  BY DEF Reseed, Alone
<1>2. task[t] \in Work /\ task[t].full /\ task[t].todo \subseteq RowIds
  BY <1>1, CanonIs DEF Fits
<1>3. PICK i \in task[t].todo :
         IF Live(i)
         THEN /\ rows' = Finalized([rows EXCEPT ![i].al = @ \cup 1 .. rows[i].meta], i)
              /\ task' = [task EXCEPT ![t].todo = @ \ {i}]
              /\ UNCHANGED <<world, tele, ledger, lock, status, history, faults>>
         ELSE Refused(t)
  BY DEF Reseed
<1>4. CASE ~Live(i)
  BY <1>1, <1>3, <1>4, RefusedStep
<1>5. CASE Live(i)
  <2>1. i \in RowIds
    BY <1>2
  <2> PICK w : w = [task[t] EXCEPT !.todo = task[t].todo \ {i}]
    OBVIOUS
  <2>2. task' = [task EXCEPT ![t] = w]
    BY <1>3, <1>5 DEF IInv, TasksInv
  <2>3. w \in Work /\ w.pc = "reseed" /\ w.full /\ w.todo \subseteq RowIds
    BY <1>1, <1>2 DEF Work
  <2>4. Fits(w)
    BY <2>3 DEF Fits, Summary, Merging
  <2>5. Merges(w)'
    BY <2>3, Otherwise DEF Merging
  <2>6. Edits
    <3>1. 1 .. rows[i].meta \in SUBSET Versions
      BY <2>1, BoundsAre DEF IInv, RowsInv, Row, Versions
    <3> QED  BY <1>3, <1>5, <2>1, <3>1, AliasedIs DEF IInv
  <2> QED  BY <1>1, <1>3, <1>5, <2>2, <2>3, <2>4, <2>5, <2>6, CanonStays, SameLedger DEF IInv
<1> QED  BY <1>4, <1>5

LEMMA ReplayStep == ASSUME IInv, NEW t \in Tasks, Replay(t) PROVE IInv'
<1> DEFINE kept == {x \in Items : ledger[x].st = "kept"}
<1>1. task[t].pc = "reseed" /\ task[t].pc \in Alone
      /\ UNCHANGED <<world, store, lock, status, history, faults>>
  BY DEF Replay, Alone
<1>2. task[t] \in Work /\ task[t].full
  BY <1>1, CanonIs
<1>3. Edits
  BY <1>1, SameRows DEF IInv, store
<1>4. ASSUME NEW w, Fits(w), w.full, w.pc \in {"read", "find"}, task' = [task EXCEPT ![t] = w]
      PROVE  IInv'
  <2>1. Merges(w)'
    BY <1>4, Otherwise DEF Merging
  <2> QED  BY <1>1, <1>3, <1>4, <2>1, CanonStays, SameLedger DEF IInv, store
<1>5. CASE Goto(t, "read")
  <2> PICK w : w = [task[t] EXCEPT !.pc = "read"]
    OBVIOUS
  <2>1. w \in Work /\ w.pc = "read" /\ w.full
    BY <1>2 DEF Work, Pcs, Alone
  <2>2. Fits(w)
    BY <2>1 DEF Fits, Summary, Merging
  <2>3. task' = [task EXCEPT ![t] = w]
    BY <1>5 DEF Goto, IInv, TasksInv
  <2> QED  BY <1>4, <2>1, <2>2, <2>3
<1>6. ASSUME NEW x \in kept,
             task' = [task EXCEPT ![t] = [@ EXCEPT !.pc = "find", !.replay = TRUE, !.ref = TRUE,
                                                   !.todo = kept \ {x}, !.cur = x]]
      PROVE  IInv'
  <2> PICK w : w = [task[t] EXCEPT !.pc = "find", !.replay = TRUE, !.ref = TRUE,
                                   !.todo = kept \ {x}, !.cur = x]
    OBVIOUS
  <2>1. w \in Work /\ w.pc = "find" /\ w.full /\ w.todo \subseteq Items /\ w.cur \in Items
    BY <1>2 DEF Work, Pcs, Summary
  <2>2. Fits(w)
    BY <2>1 DEF Fits, Merging
  <2>3. task' = [task EXCEPT ![t] = w]
    BY <1>6 DEF IInv, TasksInv
  <2> QED  BY <1>4, <2>1, <2>2, <2>3
<1> QED  BY <1>5, <1>6 DEF Replay

LEMMA ReadStep == ASSUME IInv, NEW t \in Tasks, Read(t) PROVE IInv'
<1> DEFINE all == {i \in RowIds : Live(i)}
           snap == {[id |-> i, charge |-> rows[i].charge, src |-> rows[i].src, best |-> 0] : i \in all}
<1>1. task[t].pc \in Alone /\ UNCHANGED <<world, store, lock, status, history, faults>>
  BY DEF Read, Alone
<1>2. PICK w : /\ task' = [task EXCEPT ![t] = w]
               /\ w = [Idle EXCEPT !.full = TRUE,
                          !.pc = IF Cardinality(all) < 2 THEN "finish" ELSE "aliases", !.snap = snap]
  BY DEF Read
<1>3. snap \subseteq Reading /\ \A s \in snap : rows[s.id].charge = s.charge
  <2>1. ASSUME NEW i \in all
        PROVE  rows[i].charge \in Charges /\ rows[i].src \in Kinds /\ i \in RowIds
    BY DEF IInv, RowsInv, Row, Live
  <2>2. 0 \in 0 .. MaxVersion
    BY BoundsAre
  <2> QED  BY <2>1, <2>2 DEF Reading
<1> HIDE DEF snap, all
<1>4. /\ w \in Work /\ w.full /\ w.pc \in {"finish", "aliases"} /\ w.snap = snap
  <2>1. Idle \in Work
    BY IdleIs DEF Fits
  <2> QED  BY <1>2, <1>3, <2>1 DEF Work, Pcs, Alone
<1>5. Fits(w)
  BY <1>4 DEF Fits, Summary, Merging
<1>6. Merges(w)'
  BY <1>1, <1>3, <1>4 DEF Merges, Merging, IsOf, store
<1>7. Edits
  BY <1>1, SameRows DEF IInv, store
<1> QED  BY <1>1, <1>2, <1>4, <1>5, <1>6, <1>7, CanonStays, SameLedger DEF IInv, store

LEMMA ReadAliasesStep == ASSUME IInv, NEW t \in Tasks, ReadAliases(t) PROVE IInv'
<1>1. /\ task[t].pc = "aliases" /\ task[t].pc \in Alone
      /\ UNCHANGED <<world, store, lock, status, history, faults>>
  BY DEF ReadAliases, Alone
<1>2. task[t] \in Work /\ task[t].full /\ Merges(task[t])
  BY <1>1, CanonIs
<1>3. Edits
  BY <1>1, SameRows DEF IInv, store
<1>4. ASSUME NEW w, Fits(w), w.full \/ w.pc = "idle", task' = [task EXCEPT ![t] = w], Merges(w)'
      PROVE  IInv'
  BY <1>1, <1>3, <1>4, CanonStays, SameLedger DEF IInv, store
<1>5. CASE task' = [task EXCEPT ![t] = Idle]
  <2> PICK w : w = Idle
    OBVIOUS
  <2>1. Fits(w) /\ w.pc = "idle"
    BY IdleIs
  <2>2. Merges(w)'
    BY <2>1, Otherwise DEF Merging
  <2> QED  BY <1>4, <1>5, <2>1, <2>2
<1>6. CASE task' = [task EXCEPT ![t] =
               [@ EXCEPT !.pc = IF Done(task[t].snap) THEN "finish" ELSE "merge",
                         !.snap = Aliased(task[t].snap)]]
  <2> DEFINE snap == Aliased(task[t].snap)
  <2> PICK w : w = [task[t] EXCEPT !.pc = IF Done(task[t].snap) THEN "finish" ELSE "merge",
                                   !.snap = snap]
    OBVIOUS
  <2>1. task' = [task EXCEPT ![t] = w]
    BY <1>6 DEF IInv, TasksInv
  <2>2. snap \subseteq Reading /\ \A s \in snap : rows[s.id].charge = s.charge
    <3> SUFFICES ASSUME NEW s \in task[t].snap, NEW r, r = [s EXCEPT !.best = Best(rows[s.id].al)]
                 PROVE  r \in Reading /\ rows[r.id].charge = r.charge
      BY DEF Aliased
    <3>1. s \in Reading
      BY <1>2 DEF Work
    <3>2. rows[s.id].al \in SUBSET (0 .. MaxVersion)
      BY <3>1, BoundsAre DEF Reading, IInv, RowsInv, Row, Versions
    <3>3. Best(rows[s.id].al) \in 0 .. MaxVersion
      BY <3>2, BestIs
    <3>4. rows[s.id].charge = s.charge
      BY <1>1, <1>2 DEF Merges, IsOf
    <3> QED  BY <3>1, <3>3, <3>4 DEF Reading
  <2> HIDE DEF snap
  <2>3. w \in Work /\ w.full /\ w.pc \in {"finish", "merge"} /\ w.snap = snap
    BY <1>2, <2>2 DEF Work, Pcs, Alone
  <2>4. Fits(w)
    BY <2>3 DEF Fits, Summary, Merging
  <2>5. Merges(w)'
    BY <1>1, <2>2, <2>3 DEF Merges, Merging, IsOf, store
  <2> QED  BY <1>4, <2>1, <2>3, <2>4, <2>5
<1> QED  BY <1>5, <1>6 DEF ReadAliases

LEMMA ChooseStep == ASSUME IInv, NEW t \in Tasks, Choose(t) PROVE IInv'
<1>1. /\ task[t].pc = "merge" /\ task[t].pc \in Alone
      /\ UNCHANGED <<world, store, lock, status, history, faults>>
  BY DEF Choose, Alone
<1>2. task[t] \in Work /\ task[t].full /\ Merges(task[t])
  BY <1>1, CanonIs
<1>3. PICK c \in Charges : \E k \in Cluster(t, c) : \E d \in Others(t, k) :
         task' = [task EXCEPT ![t] = [@ EXCEPT !.pc = "restamp", !.row = k.id, !.cur = <<c>>,
                                               !.dup = d, !.todo = Others(t, k) \ {d}]]
  BY DEF Choose, Duplicated
<1> PICK k \in Cluster(t, c) : \E d \in Others(t, k) :
         task' = [task EXCEPT ![t] = [@ EXCEPT !.pc = "restamp", !.row = k.id, !.cur = <<c>>,
                                               !.dup = d, !.todo = Others(t, k) \ {d}]]
  BY <1>3
<1>11. PICK d \in Others(t, k) :
         task' = [task EXCEPT ![t] = [@ EXCEPT !.pc = "restamp", !.row = k.id, !.cur = <<c>>,
                                               !.dup = d, !.todo = Others(t, k) \ {d}]]
  OBVIOUS
<1>4. /\ k \in task[t].snap /\ k.charge = c /\ k.id \in RowIds /\ IsOf(k.id, c)
      /\ \A s \in task[t].snap : s.id \in RowIds /\ IsOf(s.id, s.charge)
  BY <1>1, <1>2 DEF Cluster, Work, Reading, Merges
<1>5. \A e \in Others(t, k) : e \in RowIds \ {k.id} /\ IsOf(e, c)
  BY <1>4 DEF Others, Cluster
<1> PICK w : w = [task[t] EXCEPT !.pc = "restamp", !.row = k.id, !.cur = <<c>>,
                                 !.dup = d, !.todo = Others(t, k) \ {d}]
  OBVIOUS
<1>6. /\ w \in Work /\ w.pc = "restamp" /\ w.full /\ w.row = k.id /\ w.cur = <<c>> /\ w.dup = d
      /\ w.todo = Others(t, k) \ {d} /\ w.snap = task[t].snap
  BY <1>2, <1>4, <1>5 DEF Work, Pcs, Alone, Merging, Ids
<1>7. Fits(w)
  BY <1>4, <1>5, <1>6 DEF Fits, Summary, Merging
<1>8. task' = [task EXCEPT ![t] = w]
  BY <1>11 DEF IInv, TasksInv
<1>9. Merges(w)'
  BY <1>1, <1>4, <1>5, <1>6 DEF Merges, Merging, IsOf, store
<1>10. Edits
  BY <1>1, SameRows DEF IInv, store
<1> QED  BY <1>1, <1>6, <1>7, <1>8, <1>9, <1>10, CanonStays, SameLedger DEF IInv, store

\* What a backfill that merges knows of the survivor, the duplicate and the other rows.
LEMMA MergingIs ==
  ASSUME IInv, NEW t \in Tasks, task[t].pc \in Merging
  PROVE  /\ task[t].pc \in Alone /\ task[t] \in Work /\ Fits(task[t]) /\ task[t].full
         /\ \E c \in Charges :
               /\ task[t].cur = <<c>> /\ task[t].row \in RowIds /\ IsOf(task[t].row, c)
               /\ Live(task[t].row)
               /\ \A s \in task[t].snap : s.id \in RowIds
                                          /\ (s.charge # c => IsOf(s.id, s.charge))
               /\ task[t].todo \subseteq RowIds
               /\ task[t].pc # "crown" =>
                     /\ task[t].dup \in RowIds \ {task[t].row} /\ IsOf(task[t].dup, c)
                     /\ \A e \in task[t].todo : e \notin {task[t].row, task[t].dup} /\ IsOf(e, c)
<1>1. task[t].pc \in Alone
  BY PcsAre
<1>2. task[t] \in Work /\ Fits(task[t]) /\ task[t].full /\ Merges(task[t])
  BY <1>1, CanonIs
<1>3. PICK c \in Charges : task[t].cur = <<c>>
  BY <1>2 DEF Fits
<1>4. task[t].row \in RowIds /\ task[t].todo \subseteq RowIds
  BY <1>2 DEF Fits
<1>5. /\ IsOf(task[t].row, c) /\ \A s \in task[t].snap : s.charge # c => IsOf(s.id, s.charge)
      /\ task[t].pc # "crown" =>
            /\ task[t].dup \in RowIds \ {task[t].row} /\ IsOf(task[t].dup, c)
            /\ \A e \in task[t].todo : e \notin {task[t].row, task[t].dup} /\ IsOf(e, c)
  BY <1>2, <1>3 DEF Merges
<1>6. \A s \in task[t].snap : s.id \in RowIds
  BY <1>2 DEF Work, Reading
<1>7. Live(task[t].row)
  BY <1>5, BoundsAssumption DEF Live, IsOf, NoRow
<1> QED  BY <1>1, <1>2, <1>3, <1>4, <1>5, <1>6, <1>7

LEMMA RepayStep == ASSUME IInv, NEW t \in Tasks, Repay(t) PROVE IInv'
<1> PICK k : k = task[t].row
  OBVIOUS
<1> PICK d : d = task[t].dup
  OBVIOUS
<1>1. /\ task[t].pc = "repay" /\ task[t].pc \in Merging /\ task[t].pc \in Alone
      /\ UNCHANGED <<world, rows, tele, lock, status, history, faults>>
      /\ ledger' = [x \in Items |-> IF ledger[x].link = d THEN [ledger[x] EXCEPT !.link = k]
                                    ELSE ledger[x]]
  BY DEF Repay, Merging, Alone
<1> PICK w : w = [task[t] EXCEPT !.pc = "rehome"]
  OBVIOUS
<1>2. /\ Fits(w) /\ w.full /\ w.pc = "rehome" /\ w.row = task[t].row /\ w.dup = task[t].dup
      /\ w.cur = task[t].cur /\ w.todo = task[t].todo /\ w.snap = task[t].snap
  <2>1. task[t] \in Work /\ Fits(task[t]) /\ task[t].full
    BY <1>1, MergingIs
  <2>2. /\ w \in Work /\ w.full /\ w.pc = "rehome" /\ w.row = task[t].row /\ w.dup = task[t].dup
        /\ w.cur = task[t].cur /\ w.todo = task[t].todo /\ w.snap = task[t].snap
    BY <2>1 DEF Work, Pcs, Alone, Merging
  <2>3. Fits(w)
    BY <1>1, <2>1, <2>2 DEF Fits, Merging, Summary
  <2> QED  BY <2>2, <2>3
<1>3. task' = [task EXCEPT ![t] = w]
  BY DEF Repay, Goto, IInv, TasksInv
<1>4. Merges(w)'
  BY <1>1, <1>2 DEF IInv, MergeInv, Merges, Merging, IsOf
<1>5. k \in Ids
  BY <1>1, MergingIs DEF Ids
<1>6. ledger' \in [Items -> [st : {"none", "kept", "expired"}, link : Ids]]
  <2>1. ledger \in [Items -> [st : {"none", "kept", "expired"}, link : Ids]]
    BY DEF IInv, StateInv
  <2> QED  BY <1>1, <1>5, <2>1
<1>7. Edits
  BY <1>1, SameRows DEF IInv
<1> QED  BY <1>1, <1>2, <1>3, <1>4, <1>6, <1>7, CanonStays

LEMMA RehomeStep == ASSUME IInv, NEW t \in Tasks, Rehome(t) PROVE IInv'
<1> PICK k : k = task[t].row
  OBVIOUS
<1> PICK d : d = task[t].dup
  OBVIOUS
<1>1. task[t].pc = "rehome" /\ task[t].pc \in Merging /\ task[t].pc \in Alone
  BY DEF Rehome, Merging, Alone
<1>2. k \in RowIds /\ Live(k) /\ d \in RowIds /\ d # k
  BY <1>1, MergingIs
<1>3. /\ rows' = IF rows[d].al = {} THEN rows
                 ELSE [rows EXCEPT ![k].al = @ \cup rows[d].al, ![d].al = {}]
      /\ Goto(t, "drop")
      /\ UNCHANGED <<world, tele, ledger, lock, status, history, faults>>
  BY <1>2 DEF Rehome
<1> PICK w : w = [task[t] EXCEPT !.pc = "drop"]
  OBVIOUS
<1>4. /\ Fits(w) /\ w.full /\ w.pc = "drop" /\ w.row = task[t].row /\ w.dup = task[t].dup
      /\ w.cur = task[t].cur /\ w.todo = task[t].todo /\ w.snap = task[t].snap
  <2>1. task[t] \in Work /\ Fits(task[t]) /\ task[t].full
    BY <1>1, MergingIs
  <2>2. /\ w \in Work /\ w.full /\ w.pc = "drop" /\ w.row = task[t].row /\ w.dup = task[t].dup
        /\ w.cur = task[t].cur /\ w.todo = task[t].todo /\ w.snap = task[t].snap
    BY <2>1 DEF Work, Pcs, Alone, Merging
  <2>3. Fits(w)
    BY <1>1, <2>1, <2>2 DEF Fits, Merging, Summary
  <2> QED  BY <2>2, <2>3
<1>5. task' = [task EXCEPT ![t] = w]
  BY <1>3 DEF Goto, IInv, TasksInv
<1>6. Edits
  <2>1. CASE rows[d].al = {}
    BY <1>3, <2>1, SameRows DEF IInv
  <2>2. CASE rows[d].al # {}
    <3> DEFINE r == [rows[k] EXCEPT !.al = @ \cup rows[d].al]
               q == [rows[d] EXCEPT !.al = {}]
               rs == [rows EXCEPT ![k] = r]
    <3>1. rows[k] \in Row /\ rows[d] \in Row /\ rows \in [RowIds -> Row]
      BY <1>2 DEF IInv, RowsInv
    <3>2. /\ r \in Row /\ r.charge = rows[k].charge /\ r.new = rows[k].new
          /\ q \in Row /\ q.charge = rows[d].charge /\ q.new = rows[d].new
      BY <3>1 DEF Row
    <3>3. rows' = [rs EXCEPT ![d] = q]
      BY <1>2, <1>3, <2>2, <3>1
    <3>4. Live(d)
      BY <2>2 DEF Live, NoRow
    <3> HIDE DEF r, q
    <3>5. /\ rs \in [RowIds -> Row] /\ rs[d] = rows[d]
          /\ \A j \in RowIds : /\ rs[j].charge = rows[j].charge /\ rs[j].new = rows[j].new
                               /\ rows[j] = NoRow => rs[j] = NoRow
      BY <1>2, <3>1, <3>2 DEF Live
    <3> HIDE DEF rs
    <3> QED  BY <1>2, <3>2, <3>3, <3>4, <3>5, EditOne DEF Edits, IInv
  <2> QED  BY <2>1, <2>2
<1>7. Merges(w)'
  <2>1. PICK v : v = task[t] /\ Merges(v) /\ Fits(v)
    BY DEF IInv, MergeInv, TasksInv
  <2>2. \A i \in RowIds, c \in Charges : IsOf(i, c) => IsOf(i, c)'
    BY <1>6 DEF Edits, IsOf
  <2>3. Merges(v)'
    BY <1>3, <2>1, <2>2, MergesStay
  <2> QED  BY <1>1, <1>4, <2>1, <2>3 DEF Merges, Merging, IsOf
<1> QED  BY <1>1, <1>3, <1>4, <1>5, <1>6, <1>7, CanonStays, SameLedger DEF IInv

\* A step of a backfill that may delete rows or change what telemetry refers to.
LEMMA CanonChanges ==
  ASSUME IInv, NEW t \in Tasks, task[t].pc \in Alone, NEW w, Fits(w), w.full,
         task' = [task EXCEPT ![t] = w], Merges(w)',
         RowsInv', tele' \in [Charges -> SUBSET RowIds], NoChargeLost', TelemetryHoused',
         UNCHANGED <<car, listed, ledger, known, lock, status>>
  PROVE  IInv'
<1>1. Moved(t, w) /\ status.st = "running" /\ \A u \in Tasks : task[u].full => u = t
  BY CanonIs
<1>2. TasksInv' /\ SyncInv' /\ lock' \in Tasks \cup {Free} /\ Backfills' \subseteq Backfills
  BY <1>1, TasksStay DEF IInv, StateInv
<1>3. task'[t] = w /\ \A u \in Tasks \ {t} : task'[u] = task[u]
  BY OneMoves DEF IInv
<1>4. StateInv' /\ LoneInv' /\ NewInv' /\ FindInv'
  BY <1>1, <1>2 DEF IInv, StateInv, LoneInv, NewInv, FindInv, Finds
<1>5. MergeInv'
  <2>1. ASSUME NEW u \in Tasks \ {t} PROVE Merges(task[u])'
    <3>1. task'[u].pc \notin Alone
      BY <1>1, <1>3, AloneIs DEF IInv
    <3> QED  BY <3>1 DEF Merges, Alone, Merging
  <2>2. Merges(task[t])'
    BY <1>3 DEF Merges
  <2> QED  BY <2>1, <2>2 DEF MergeInv
<1> QED  BY <1>2, <1>4, <1>5 DEF IInv

LEMMA RestampStep == ASSUME IInv, NEW t \in Tasks, Restamp(t) PROVE IInv'
<1> PICK k : k = task[t].row
  OBVIOUS
<1> PICK d : d = task[t].dup
  OBVIOUS
<1>1. /\ task[t].pc = "restamp" /\ task[t].pc \in Merging /\ task[t].pc \in Alone
      /\ UNCHANGED <<world, rows, ledger, lock, status, history, faults>>
      /\ tele' = [c \in Charges |-> IF d \in tele[c] THEN (tele[c] \ {d}) \cup {k} ELSE tele[c]]
  BY DEF Restamp, Merging, Alone
<1>2. k \in RowIds /\ Live(k) /\ d \in RowIds /\ d # k
  BY <1>1, MergingIs
<1> PICK w : w = [task[t] EXCEPT !.pc = "repay"]
  OBVIOUS
<1>3. /\ Fits(w) /\ w.full /\ w.pc = "repay" /\ w.row = task[t].row /\ w.dup = task[t].dup
      /\ w.cur = task[t].cur /\ w.todo = task[t].todo /\ w.snap = task[t].snap
  <2>1. task[t] \in Work /\ Fits(task[t]) /\ task[t].full
    BY <1>1, MergingIs
  <2>2. /\ w \in Work /\ w.full /\ w.pc = "repay" /\ w.row = task[t].row /\ w.dup = task[t].dup
        /\ w.cur = task[t].cur /\ w.todo = task[t].todo /\ w.snap = task[t].snap
    BY <2>1 DEF Work, Pcs, Alone, Merging
  <2>3. Fits(w)
    BY <1>1, <2>1, <2>2 DEF Fits, Merging, Summary
  <2> QED  BY <2>2, <2>3
<1>4. task' = [task EXCEPT ![t] = w]
  BY DEF Restamp, Goto, IInv, TasksInv
<1>5. \A c \in Charges : d \notin tele'[c] /\ tele'[c] \subseteq tele[c] \cup {k}
  BY <1>1, <1>2
<1>6. Merges(w)'
  BY <1>1, <1>3, <1>5 DEF IInv, MergeInv, Merges, Merging, IsOf
<1>7. tele' \in [Charges -> SUBSET RowIds]
  BY <1>1, <1>2 DEF IInv, StateInv
<1>8. RowsInv' /\ NoChargeLost'
  BY <1>1 DEF IInv, RowsInv, NoChargeLost, Of, history
<1>9. TelemetryHoused'
  BY <1>1, <1>2, <1>5 DEF IInv, TelemetryHoused, Live, history
<1> QED  BY <1>1, <1>3, <1>4, <1>6, <1>7, <1>8, <1>9, CanonChanges DEF world, history

LEMMA DropStep == ASSUME IInv, NEW t \in Tasks, Drop(t) PROVE IInv'
<1> PICK k : k = task[t].row
  OBVIOUS
<1> PICK d : d = task[t].dup
  OBVIOUS
<1>1. /\ task[t].pc = "drop" /\ task[t].pc \in Merging /\ task[t].pc \in Alone
      /\ UNCHANGED <<world, tele, ledger, lock, status, history, faults>>
      /\ rows' = [rows EXCEPT ![d] = NoRow,
                              ![k].meta = IF Live(k) /\ @ = 0 THEN rows[d].meta ELSE @]
  BY DEF Drop, Merging, Alone
<1>2. PICK c \in Charges :
         /\ task[t].cur = <<c>> /\ k \in RowIds /\ IsOf(k, c) /\ Live(k)
         /\ d \in RowIds /\ d # k /\ IsOf(d, c) /\ task[t].todo \subseteq RowIds
         /\ \A s \in task[t].snap : s.id \in RowIds /\ (s.charge # c => IsOf(s.id, s.charge))
         /\ \A e \in task[t].todo : e \notin {k, d} /\ IsOf(e, c)
  BY <1>1, MergingIs
<1>3. task[t] \in Work /\ Fits(task[t]) /\ task[t].full
  BY <1>1, MergingIs
<1>4. \A b \in Charges : d \notin tele[b]
  BY <1>1 DEF IInv, MergeInv, Merges
<1>5. /\ rows'[d] = NoRow /\ rows'[k].charge = c /\ Live(k)' /\ rows'[k] \in Row
      /\ \A i \in RowIds \ {d, k} : rows'[i] = rows[i]
      /\ rows' \in [RowIds -> Row]
  <2>1. rows \in [RowIds -> Row] /\ rows[k] \in Row /\ rows[d] \in Row /\ rows[k].charge = c
    BY <1>2 DEF IInv, RowsInv, IsOf
  <2> PICK r : r = [rows[k] EXCEPT !.meta = IF @ = 0 THEN rows[d].meta ELSE @]
    OBVIOUS
  <2>2. r \in Row /\ r.charge = c
    BY <2>1 DEF Row
  <2>3. rows' = [rows EXCEPT ![d] = NoRow, ![k] = r]
    BY <1>1, <1>2, <2>1
  <2>4. NoRow \in Row /\ NoRow.charge = Free
    BY BoundsAre DEF NoRow, Row, Kinds
  <2>5. r # NoRow
    BY <2>2, <2>4, BoundsAssumption
  <2> QED  BY <1>2, <2>1, <2>2, <2>3, <2>4, <2>5 DEF Live
<1>6. \A i \in RowIds \ {d} : rows'[i].charge = rows[i].charge
  BY <1>2, <1>5 DEF IsOf
<1>7. RowsInv'
  <2>1. ASSUME NEW i \in RowIds PROVE rows'[i].charge = Free <=> rows'[i] = NoRow
    <3>1. CASE i = d
      BY <1>5, <3>1 DEF NoRow
    <3>2. CASE i = k
      BY <1>5, <3>2, BoundsAssumption DEF Live
    <3>3. CASE i \notin {d, k}
      BY <1>5, <3>3 DEF IInv, RowsInv
    <3> QED  BY <3>1, <3>2, <3>3
  <2> QED  BY <1>5, <2>1 DEF RowsInv
<1>8. NoChargeLost'
  <2> SUFFICES ASSUME NEW b \in known PROVE \E i \in RowIds : rows'[i].charge = b
    BY <1>1 DEF NoChargeLost, Of, history
  <2>1. PICK i \in RowIds : rows[i].charge = b
    BY DEF IInv, NoChargeLost, Of
  <2>2. CASE i = d
    BY <1>2, <1>5, <2>1, <2>2 DEF IsOf
  <2>3. CASE i # d
    BY <1>6, <2>1, <2>3
  <2> QED  BY <2>2, <2>3
<1>9. TelemetryHoused'
  <2> SUFFICES ASSUME NEW b \in Charges, NEW i \in tele[b]
               PROVE  (i \in RowIds /\ rows'[i] # NoRow) \/ i \in unwritten
    BY <1>1 DEF TelemetryHoused, Live, history
  <2>1. i \in unwritten \/ (i \in RowIds /\ rows[i] # NoRow)
    BY DEF IInv, TelemetryHoused, Live
  <2>2. i # d
    BY <1>4
  <2> QED  BY <1>5, <2>1, <2>2 DEF Live
<1>10. tele' \in [Charges -> SUBSET RowIds]
  BY <1>1 DEF IInv, StateInv
<1>11. ASSUME NEW w, Fits(w), w.full, task' = [task EXCEPT ![t] = w], Merges(w)'
       PROVE  IInv'
  BY <1>1, <1>7, <1>8, <1>9, <1>10, <1>11, CanonChanges DEF world, history
<1>12. \A s \in task[t].snap : s.charge # c => IsOf(s.id, s.charge)'
  <2>1. ASSUME NEW s \in task[t].snap, s.charge # c PROVE rows'[s.id].charge = s.charge
    BY <1>2, <1>6, <2>1 DEF IsOf
  <2> QED  BY <2>1 DEF IsOf
<1>13. \A e \in task[t].todo : IsOf(e, c)'
  BY <1>2, <1>6 DEF IsOf
<1>14. CASE task' = [task EXCEPT ![t].pc = "crown", ![t].dup = 0]
  <2> PICK w : w = [task[t] EXCEPT !.pc = "crown", !.dup = 0]
    OBVIOUS
  <2>1. task' = [task EXCEPT ![t] = w]
    BY <1>14 DEF IInv, TasksInv
  <2>2. /\ w \in Work /\ w.full /\ w.pc = "crown" /\ w.row = k
        /\ w.cur = <<c>> /\ w.todo = task[t].todo /\ w.snap = task[t].snap
    BY <1>2, <1>3 DEF Work, Pcs, Alone, Merging, Ids
  <2>3. Fits(w)
    BY <1>1, <1>2, <1>3, <2>2 DEF Fits, Merging, Summary
  <2>4. Merges(w)'
    BY <1>5, <1>12, <2>2 DEF Merges, Merging, IsOf
  <2> QED  BY <1>11, <2>1, <2>2, <2>3, <2>4
<1>15. ASSUME NEW e \in task[t].todo,
              task' = [task EXCEPT ![t].pc = "restamp", ![t].dup = e, ![t].todo = @ \ {e}]
       PROVE  IInv'
  <2> PICK w : w = [task[t] EXCEPT !.pc = "restamp", !.dup = e, !.todo = task[t].todo \ {e}]
    OBVIOUS
  <2>1. task' = [task EXCEPT ![t] = w]
    BY <1>15 DEF IInv, TasksInv
  <2>2. /\ w \in Work /\ w.full /\ w.pc = "restamp" /\ w.row = k /\ w.dup = e
        /\ w.cur = <<c>> /\ w.todo = task[t].todo \ {e} /\ w.snap = task[t].snap
    BY <1>2, <1>3 DEF Work, Pcs, Alone, Merging, Ids
  <2>3. Fits(w)
    BY <1>1, <1>2, <1>3, <2>2 DEF Fits, Merging, Summary
  <2>4. Merges(w)'
    BY <1>2, <1>5, <1>12, <1>13, <2>2 DEF Merges, Merging, IsOf
  <2> QED  BY <1>11, <2>1, <2>2, <2>3, <2>4
<1> QED  BY <1>14, <1>15 DEF Drop

LEMMA CrownStep == ASSUME IInv, NEW t \in Tasks, Crown(t) PROVE IInv'
<1> PICK k : k = task[t].row
  OBVIOUS
<1> PICK read : read = Cluster(t, task[t].cur[1])
  OBVIOUS
<1> PICK best : best = Best({s.best : s \in read})
  OBVIOUS
<1> PICK src : src = IF \A s \in read : s.src = "a" THEN "a"
                     ELSE IF \E s \in read : s.src \in {"a", "ta"} THEN "ta" ELSE "t"
  OBVIOUS
<1>1. task[t].pc = "crown" /\ task[t].pc \in Merging /\ task[t].pc \in Alone /\ task[t].pc # "idle"
  BY DEF Crown, Merging, Alone
<1>2. PICK c \in Charges :
         /\ task[t].cur = <<c>> /\ k \in RowIds /\ Live(k)
         /\ \A s \in task[t].snap : s.id \in RowIds /\ (s.charge # c => IsOf(s.id, s.charge))
  BY <1>1, MergingIs
<1>3. task[t] \in Work /\ task[t].full
  BY <1>1, MergingIs
<1>4. CASE Refused(t)
  BY <1>1, <1>4, RefusedStep
<1>5. CASE /\ rows' = Finalized([rows EXCEPT ![k].src = src, ![k].sid = IF best = 0 THEN @ ELSE best], k)
           /\ task' = [task EXCEPT ![t].row = 0, ![t].cur = << >>, ![t].snap = @ \ read,
                         ![t].pc = IF Done(task[t].snap \ read) THEN "finish" ELSE "merge"]
           /\ UNCHANGED <<world, tele, ledger, lock, status, history, faults>>
  <2> PICK w : w = [task[t] EXCEPT !.row = 0, !.cur = << >>, !.snap = task[t].snap \ read,
                       !.pc = IF Done(task[t].snap \ read) THEN "finish" ELSE "merge"]
    OBVIOUS
  <2>1. task' = [task EXCEPT ![t] = w]
    BY <1>5 DEF IInv, TasksInv
  <2>2. w \in Work /\ w.full /\ w.pc \in {"finish", "merge"} /\ w.snap = task[t].snap \ read
    BY <1>3 DEF Work, Pcs, Alone, Ids
  <2>3. Fits(w)
    BY <2>2 DEF Fits, Summary, Merging
  <2>4. Edits
    <3>1. best \in 0 .. MaxVersion /\ src \in Kinds
      <4>1. {s.best : s \in read} \in SUBSET (0 .. MaxVersion)
        BY <1>3 DEF Cluster, Work, Reading
      <4> QED  BY <4>1, BestIs DEF Kinds
    <3>2. rows \in [RowIds -> Row] /\ rows[k] \in Row
      BY <1>2 DEF IInv, RowsInv
    <3> PICK r : r = [rows[k] EXCEPT !.src = src, !.sid = IF best = 0 THEN @ ELSE best]
      OBVIOUS
    <3>3. r \in Row /\ r.charge = rows[k].charge /\ r.new = rows[k].new
      BY <3>1, <3>2 DEF Row
    <3> PICK rs : rs = [rows EXCEPT ![k] = r]
      OBVIOUS
    <3>4. rows' = Finalized(rs, k)
      BY <1>2, <1>5, <3>2
    <3>5. /\ rs \in [RowIds -> Row]
          /\ \A j \in RowIds : /\ rs[j].charge = rows[j].charge /\ rs[j].new = rows[j].new
                               /\ rows[j] = NoRow => rs[j] = NoRow
      BY <1>2, <3>2, <3>3 DEF Live
    <3> QED  BY <1>2, <3>4, <3>5, FinalizedIs DEF IInv
  <2>5. Merges(w)'
    <3>1. \A s \in w.snap : s.id \in RowIds /\ rows[s.id].charge = s.charge
      BY <1>2, <2>2 DEF Cluster, IsOf
    <3>2. \A s \in w.snap : rows'[s.id].charge = s.charge
      BY <2>4, <3>1 DEF Edits
    <3> QED  BY <2>2, <3>2 DEF Merges, Merging, IsOf
  <2> QED  BY <1>1, <1>5, <2>1, <2>2, <2>3, <2>4, <2>5, CanonStays, SameLedger DEF IInv
<1> QED  BY <1>2, <1>4, <1>5 DEF Crown

-----------------------------------------------------------------------------
(* The other steps                                                         *)

\* Nothing is stored by a step that changes tasks, lock or status only.
LEMMA StoredStays ==
  ASSUME IInv, UNCHANGED <<world, store, history>>
  PROVE  /\ RowsInv' /\ NoChargeLost' /\ TelemetryHoused'
         /\ car' \in [Charges -> [at : {"ahead", "on", "over"}, id : Ids]]
         /\ \A c \in Charges : car'[c].at = "on" => car'[c].id \in RowIds
         /\ listed' \in [Charges -> 0 .. MaxVersion]
         /\ tele' \in [Charges -> SUBSET RowIds] /\ known' \subseteq Charges
         /\ ledger' \in [Items -> [st : {"none", "kept", "expired"}, link : Ids]]
<1>1. UNCHANGED <<car, listed, rows, tele, ledger, known, unwritten>>
  BY DEF world, store, history
<1>2. RowsInv' /\ NoChargeLost' /\ TelemetryHoused'
  BY <1>1 DEF IInv, RowsInv, NoChargeLost, Of, TelemetryHoused, Live
<1> QED  BY <1>1, <1>2 DEF IInv, StateInv

\* A task that is none of the backfills merges nothing.
LEMMA IdleMerges ==
  ASSUME NEW w, w.pc \notin {"aliases", "merge"} \cup Merging
  PROVE  Merges(w)'
BY DEF Merges, Merging

LEMMA ClaimStep == ASSUME IInv, NEW t \in Tasks, Claim(t) PROVE IInv'
<1> PICK w : w = [task[t] EXCEPT !.pc = "lock", !.full = TRUE]
  OBVIOUS
<1>1. /\ task[t].pc = "idle" /\ Claimable /\ status' = [st |-> "running", stale |-> FALSE]
      /\ UNCHANGED <<world, store, lock, history, faults>> /\ task' = [task EXCEPT ![t] = w]
  BY DEF Claim, IInv, TasksInv
<1>2. Backfills = {}
  BY <1>1 DEF Claimable, IInv, LoneInv
<1>3. w \in Work /\ w.pc = "lock" /\ w.full
  BY DEF IInv, TasksInv, Fits, Work, Pcs, Alone
<1>4. Fits(w)
  BY <1>3 DEF Fits, Summary, Merging
<1>5. /\ task'[t] = w /\ \A u \in Tasks \ {t} : task'[u] = task[u]
      /\ DOMAIN task' = Tasks
  BY <1>1, OneMoves DEF IInv
<1>6. TasksInv'
  <2>1. ASSUME NEW u \in Tasks PROVE Fits(task[u])'
    <3>1. CASE u = t
      BY <1>4, <1>5, <3>1 DEF Fits
    <3>2. CASE u # t
      BY <1>5, <3>2 DEF IInv, TasksInv, Fits
    <3> QED  BY <3>1, <3>2
  <2> QED  BY <1>5, <2>1 DEF TasksInv
<1>7. SyncInv'
  BY <1>1, <1>3, <1>5 DEF IInv, SyncInv, Active
<1>8. LoneInv'
  <2>1. ASSUME NEW u \in Backfills' PROVE u = t
    <3>1. u # t => u \in Backfills
      BY <1>5 DEF Backfills, Active
    <3> QED  BY <1>2, <3>1
  <2> QED  BY <1>1, <2>1 DEF LoneInv
<1>9. MergeInv'
  <2>1. ASSUME NEW u \in Tasks PROVE Merges(task[u])'
    <3>1. u # t => task[u].pc \notin Alone
      <4>1. task[u].pc \in Alone => u \in Backfills
        BY DEF IInv, TasksInv, Fits, Backfills, Active
      <4> QED  BY <1>2, <4>1
    <3>2. task'[u].pc \notin {"aliases", "merge"} \cup Merging
      BY <1>3, <1>5, <3>1 DEF Alone, Merging
    <3> QED  BY <3>2 DEF Merges, Merging
  <2> QED  BY <2>1 DEF MergeInv
<1>10. NewInv' /\ FindInv'
  BY <1>1 DEF NewInv, FindInv, Finds
<1>11. StateInv'
  BY <1>1, StoredStays DEF IInv, StateInv
<1> QED  BY <1>1, <1>6, <1>7, <1>8, <1>9, <1>10, <1>11, StoredStays DEF IInv

LEMMA StaleStep == ASSUME IInv, GoStale PROVE IInv'
<1>1. /\ status.st = "running" /\ Backfills = {} /\ status' = [status EXCEPT !.stale = TRUE]
      /\ UNCHANGED <<world, store, lock, task, history, faults>>
  BY DEF GoStale
<1>2. status' \in [st : {"none", "running", "done", "error"}, stale : BOOLEAN]
      /\ status'.st = "running"
  BY <1>1 DEF IInv, StateInv
<1>3. TasksInv' /\ SyncInv' /\ Backfills' = {}
  BY <1>1 DEF IInv, TasksInv, Fits, SyncInv, Backfills, Active
<1>4. MergeInv'
  <2>1. ASSUME NEW t \in Tasks PROVE Merges(task[t])'
    BY <1>1 DEF IInv, MergeInv, Merges, Merging, IsOf, store
  <2> QED  BY <2>1 DEF MergeInv
<1>5. LoneInv' /\ NewInv' /\ FindInv'
  BY <1>2, <1>3 DEF LoneInv, NewInv, FindInv, Finds
<1>6. StateInv'
  BY <1>1, <1>2, StoredStays DEF IInv, StateInv
<1> QED  BY <1>1, <1>3, <1>4, <1>5, <1>6, StoredStays DEF IInv

\* The end of a backfill, reported or not.
LEMMA ReportStep == ASSUME IInv, NEW t \in Tasks, Finish(t) \/ ReportError(t) PROVE IInv'
<1> PICK w : w = Idle
  OBVIOUS
<1>1. /\ task[t].pc \in {"finish", "error"} /\ task[t].pc \in Alone
      /\ task' = [task EXCEPT ![t] = w] /\ UNCHANGED <<world, store, lock, history>>
      /\ \/ \E st \in {"done", "error"} : status' = [st |-> st, stale |-> FALSE]
         \/ UNCHANGED status
  BY DEF Finish, ReportError, Report, Alone
<1>2. Fits(w) /\ w.pc = "idle" /\ ~w.full
  BY IdleIs
<1>3. Moved(t, w) /\ \A u \in Tasks : task[u].full => u = t
  BY <1>1, <1>2, CanonIs
<1>4. TasksInv' /\ SyncInv' /\ lock' \in Tasks \cup {Free} /\ Backfills' \subseteq Backfills
  BY <1>3, TasksStay DEF IInv, StateInv
<1>5. task'[t] = w /\ \A u \in Tasks \ {t} : task'[u] = task[u]
  BY <1>1, OneMoves DEF IInv
<1>6. Backfills' = {}
  BY <1>2, <1>3, <1>5 DEF Backfills, Active
<1>7. CASE UNCHANGED status
  <2>1. Merges(w)' /\ Finds(w)'
    BY <1>2, Otherwise DEF Merging
  <2> QED  BY <1>1, <1>3, <1>7, <2>1, QuietStays, SameLedger DEF IInv, store, history
<1>8. CASE \E st \in {"done", "error"} : status' = [st |-> st, stale |-> FALSE]
  <2>1. status' \in [st : {"none", "running", "done", "error"}, stale : BOOLEAN]
        /\ status'.st # "none"
    BY <1>8
  <2>2. MergeInv'
    <3>1. ASSUME NEW u \in Tasks PROVE Merges(task[u])'
      <4>1. ~task'[u].full
        BY <1>2, <1>3, <1>5
      <4>2. task'[u].pc \notin Alone
        BY <1>4, <4>1 DEF TasksInv, Fits
      <4> QED  BY <4>2 DEF Merges, Merging, Alone
    <3> QED  BY <3>1 DEF MergeInv
  <2>3. LoneInv' /\ NewInv' /\ FindInv'
    BY <1>6, <2>1 DEF LoneInv, NewInv, FindInv, Finds
  <2>4. StateInv'
    BY <1>1, <1>4, <2>1, StoredStays DEF IInv, StateInv
  <2> QED  BY <1>1, <1>4, <2>2, <2>3, <2>4, StoredStays DEF IInv
<1> QED  BY <1>1, <1>7, <1>8

LEMMA CrashStep == ASSUME IInv, Crash PROVE IInv'
<1>1. /\ task' = [t \in Tasks |-> Idle] /\ lock' = Free
      /\ UNCHANGED <<world, store, status, history>>
  BY DEF Crash
<1>2. \A t \in Tasks : task'[t] = Idle
  BY <1>1
<1>3. Fits(Idle) /\ Idle.pc = "idle" /\ ~Idle.full
  BY IdleIs
<1>4. TasksInv'
  <2>1. ASSUME NEW t \in Tasks PROVE Fits(task[t])'
    BY <1>2, <1>3 DEF Fits
  <2> QED  BY <1>1, <2>1 DEF TasksInv
<1>5. SyncInv' /\ Backfills' = {}
  BY <1>2, <1>3 DEF SyncInv, Backfills, Active
<1>6. MergeInv'
  <2>1. ASSUME NEW t \in Tasks PROVE Merges(task[t])'
    BY <1>2, <1>3 DEF Merges, Merging
  <2> QED  BY <2>1 DEF MergeInv
<1>7. FindInv'
  <2>1. ASSUME NEW t \in Tasks PROVE Finds(task[t])'
    BY <1>2, <1>3 DEF Finds
  <2> QED  BY <2>1 DEF FindInv
<1>8. LoneInv' /\ NewInv'
  BY <1>1, <1>5 DEF IInv, LoneInv, NewInv, store
<1>9. StateInv'
  BY <1>1, StoredStays DEF IInv, StateInv
<1> QED  BY <1>1, <1>4, <1>5, <1>6, <1>7, <1>8, <1>9, StoredStays DEF IInv

\* What the car, Rivian and the retention do leaves the tasks alone.
LEMMA CarStays ==
  ASSUME IInv, UNCHANGED <<lock, status, task>>,
         RowsInv', StateInv', NoChargeLost', TelemetryHoused',
         \A i \in RowIds, c \in Charges : IsOf(i, c) => IsOf(i, c)',
         \A i \in RowIds : rows'[i].new => rows[i].new /\ rows'[i].charge = rows[i].charge,
         \A t \in Tasks, c \in Charges :
             task[t].dup \in tele'[c] => \E d \in Charges : task[t].dup \in tele[d]
  PROVE  IInv'
<1>1. TasksInv' /\ SyncInv' /\ LoneInv'
  BY DEF IInv, TasksInv, Fits, SyncInv, LoneInv, Backfills, Active
<1>2. MergeInv'
  <2>1. ASSUME NEW t \in Tasks PROVE Merges(task[t])'
    <3> PICK v : v = task[t]
      OBVIOUS
    <3>1. Fits(v) /\ Merges(v)
      BY DEF IInv, TasksInv, MergeInv
    <3>2. Merges(v)'
      BY <3>1, MergesStay
    <3> QED  BY <3>2 DEF Merges
  <2> QED  BY <2>1 DEF MergeInv
<1>3. NewInv'
  BY DEF IInv, NewInv
<1>4. FindInv'
  <2>1. ASSUME NEW t \in Tasks PROVE Finds(task[t])'
    BY DEF IInv, FindInv, Finds, Of
  <2> QED  BY <2>1 DEF FindInv
<1> QED  BY <1>1, <1>2, <1>3, <1>4 DEF IInv

\* The row of the charge detector.
LEMMA RowIs ==
  ASSUME NEW c \in Charges, NEW r, r = [NoRow EXCEPT !.charge = c, !.src = "t"]
  PROVE  r \in Row /\ r.charge = c /\ ~r.new
<1>1. NoRow \in Row /\ ~NoRow.new
  BY BoundsAre DEF NoRow, Row, Kinds
<1> QED  BY <1>1 DEF Row, Kinds

LEMMA BeginStep == ASSUME IInv, NEW c \in Charges, Begin(c) PROVE IInv'
<1> PICK i : i = NewId
  OBVIOUS
<1> PICK r : r = [NoRow EXCEPT !.charge = c, !.src = "t"]
  OBVIOUS
<1>1. /\ RowIds \ Used # {} /\ car' = [car EXCEPT ![c] = [at |-> "on", id |-> i]]
      /\ tele' = [tele EXCEPT ![c] = {i}]
      /\ UNCHANGED <<listed, recent, ledger, lock, status, task>>
      /\ \/ Insert(i, r) /\ UNCHANGED unwritten
         \/ unwritten' = unwritten \cup {i} /\ UNCHANGED <<rows, known>>
  BY DEF Begin
<1>2. i \in RowIds /\ ~Live(i) /\ \A t \in Tasks : i # task[t].dup
  BY <1>1, NewIdIs
<1>3. r \in Row /\ r.charge = c /\ ~r.new
  BY RowIs
<1>4. /\ RowsInv' /\ NoChargeLost' /\ known' \subseteq Charges
      /\ \A j \in RowIds : Live(j) => Live(j)'
      /\ \A j \in RowIds, d \in Charges : IsOf(j, d) => IsOf(j, d)'
      /\ \A j \in RowIds : rows'[j].new => rows[j].new /\ rows'[j].charge = rows[j].charge
      /\ Live(i)' \/ i \in unwritten'
      /\ unwritten \subseteq unwritten'
  <2>1. CASE Insert(i, r) /\ UNCHANGED unwritten
    BY <1>2, <1>3, <2>1, InsertIs
  <2>2. CASE unwritten' = unwritten \cup {i} /\ UNCHANGED <<rows, known>>
    <3>1. RowsInv' /\ NoChargeLost' /\ known' \subseteq Charges
      BY <2>2 DEF IInv, RowsInv, NoChargeLost, Of, StateInv
    <3> QED  BY <2>2, <3>1 DEF Live, IsOf
  <2> QED  BY <1>1, <2>1, <2>2
<1>5. StateInv'
  <2>1. /\ car' \in [Charges -> [at : {"ahead", "on", "over"}, id : Ids]]
        /\ \A d \in Charges : car'[d].at = "on" => car'[d].id \in RowIds
    BY <1>1, <1>2 DEF IInv, StateInv, Ids
  <2>2. tele' \in [Charges -> SUBSET RowIds]
    BY <1>1, <1>2 DEF IInv, StateInv
  <2> QED  BY <1>1, <1>4, <2>1, <2>2 DEF IInv, StateInv
<1>6. \A d \in Charges : tele'[d] \subseteq tele[d] \cup {i}
  BY <1>1 DEF IInv, StateInv
<1>7. TelemetryHoused'
  <2> SUFFICES ASSUME NEW d \in Charges, NEW j \in tele'[d]
               PROVE  (j \in RowIds /\ Live(j)') \/ j \in unwritten'
    BY DEF TelemetryHoused
  <2>1. CASE j = i
    BY <1>2, <1>4, <2>1
  <2>2. CASE j # i
    <3>1. j \in tele[d]
      BY <1>6, <2>2
    <3>2. (j \in RowIds /\ Live(j)) \/ j \in unwritten
      BY <3>1 DEF IInv, TelemetryHoused
    <3> QED  BY <1>4, <3>2
  <2> QED  BY <2>1, <2>2
<1>8. \A t \in Tasks, d \in Charges :
         task[t].dup \in tele'[d] => \E b \in Charges : task[t].dup \in tele[b]
  BY <1>2, <1>6
<1> QED  BY <1>1, <1>4, <1>5, <1>7, <1>8, CarStays

LEMMA PersistStep == ASSUME IInv, NEW c \in Charges, Persist(c) PROVE IInv'
<1> PICK i : i = car[c].id
  OBVIOUS
<1> PICK r : r = [NoRow EXCEPT !.charge = c, !.src = "t"]
  OBVIOUS
<1>1. /\ car[c].at = "on" /\ car' = [car EXCEPT ![c] = [at |-> "over", id |-> 0]]
      /\ UNCHANGED <<listed, recent, tele, ledger, lock, status, task>>
      /\ \/ Live(i) /\ UNCHANGED <<rows, known>> /\ unwritten' = unwritten \ {i}
         \/ ~Live(i) /\ Insert(i, r) /\ unwritten' = unwritten \ {i}
         \/ UNCHANGED <<rows, known, unwritten>>
  BY DEF Persist, history
<1>2. i \in RowIds
  BY <1>1 DEF IInv, StateInv
<1>3. r \in Row /\ r.charge = c /\ ~r.new
  BY RowIs
<1>4. /\ RowsInv' /\ NoChargeLost' /\ known' \subseteq Charges
      /\ \A j \in RowIds : Live(j) => Live(j)'
      /\ \A j \in RowIds, d \in Charges : IsOf(j, d) => IsOf(j, d)'
      /\ \A j \in RowIds : rows'[j].new => rows[j].new /\ rows'[j].charge = rows[j].charge
      /\ \/ unwritten' = unwritten
         \/ Live(i)' /\ unwritten' = unwritten \ {i}
  <2>1. CASE ~Live(i) /\ Insert(i, r) /\ unwritten' = unwritten \ {i}
    <3>0. i \in RowIds /\ ~Live(i) /\ r \in Row /\ r.charge \in Charges /\ Insert(i, r)
      BY <1>2, <1>3, <2>1
    <3>1. /\ RowsInv' /\ NoChargeLost' /\ Live(i)' /\ known' \subseteq Charges
          /\ \A j \in RowIds : j # i => rows'[j] = rows[j]
          /\ rows'[i] = r
          /\ \A j \in RowIds : Live(j) => Live(j)'
          /\ \A j \in RowIds, d \in Charges : IsOf(j, d) => IsOf(j, d)'
      BY ONLY IInv, <3>0, InsertIs
    <3>2. \A j \in RowIds : rows'[j].new => rows[j].new /\ rows'[j].charge = rows[j].charge
      BY <1>3, <3>1
    <3> QED  BY <2>1, <3>1, <3>2
  <2>2. CASE UNCHANGED <<rows, known>> /\ (UNCHANGED unwritten
                                           \/ (Live(i) /\ unwritten' = unwritten \ {i}))
    <3>1. RowsInv' /\ NoChargeLost' /\ known' \subseteq Charges
      BY <2>2 DEF IInv, RowsInv, NoChargeLost, Of, StateInv
    <3> QED  BY <2>2, <3>1 DEF Live, IsOf
  <2> QED  BY <1>1, <2>1, <2>2
<1>5. StateInv'
  <2>1. /\ car' \in [Charges -> [at : {"ahead", "on", "over"}, id : Ids]]
        /\ \A d \in Charges : car'[d].at = "on" => car'[d].id \in RowIds
    BY <1>1 DEF IInv, StateInv, Ids
  <2> QED  BY <1>1, <1>4, <2>1 DEF IInv, StateInv
<1>6. TelemetryHoused'
  <2> SUFFICES ASSUME NEW d \in Charges, NEW j \in tele[d]
               PROVE  (j \in RowIds /\ Live(j)') \/ j \in unwritten'
    BY <1>1 DEF TelemetryHoused
  <2>1. (j \in RowIds /\ Live(j)) \/ j \in unwritten
    BY DEF IInv, TelemetryHoused
  <2> QED  BY <1>2, <1>4, <2>1
<1> QED  BY <1>1, <1>4, <1>5, <1>6, CarStays

LEMMA ListStep == ASSUME IInv, NEW c \in Charges, List(c) PROVE IInv'
<1>1. /\ listed[c] < MaxVersion /\ listed' = [listed EXCEPT ![c] = @ + 1]
      /\ UNCHANGED <<car, recent, store, lock, status, task, history, faults>>
  BY DEF List
<1>2. UNCHANGED <<rows, tele, ledger, known, unwritten>>
  BY <1>1 DEF store, history
<1>3. RowsInv' /\ NoChargeLost' /\ TelemetryHoused'
  BY <1>2 DEF IInv, RowsInv, NoChargeLost, Of, TelemetryHoused, Live
<1>4. StateInv'
  BY <1>1, <1>2, BoundsAre DEF IInv, StateInv
<1> QED  BY <1>1, <1>2, <1>3, <1>4, CarStays DEF IsOf

LEMMA ExpireStep == ASSUME IInv, NEW x \in Items, Expire(x) PROVE IInv'
<1>1. /\ ledger' = [ledger EXCEPT ![x] = [st |-> "expired", link |-> 0]]
      /\ UNCHANGED <<world, rows, tele, lock, status, task, history, faults>>
  BY DEF Expire
<1>2. UNCHANGED <<car, listed, rows, tele, known, unwritten>>
  BY <1>1 DEF world, history
<1>3. RowsInv' /\ NoChargeLost' /\ TelemetryHoused'
  BY <1>2 DEF IInv, RowsInv, NoChargeLost, Of, TelemetryHoused, Live
<1>4. StateInv'
  BY <1>1, <1>2 DEF IInv, StateInv, Ids
<1> QED  BY <1>1, <1>2, <1>3, <1>4, CarStays DEF IsOf

-----------------------------------------------------------------------------
(* The theorems                                                            *)

\* Old rows of one charge are what earlier releases left.
LEMMA InitHolds == Init => IInv
<1> SUFFICES ASSUME Init PROVE IInv
  OBVIOUS
<1> PICK c \in Charges, old \in Legacies :
        /\ rows = [i \in RowIds |-> IF i \in DOMAIN old THEN [old[i] EXCEPT !.charge = c] ELSE NoRow]
        /\ known = (IF old = << >> THEN {} ELSE {c}) /\ unwritten = {}
        /\ tele = [d \in Charges |-> {i \in DOMAIN old : d = c /\ old[i].src # "a"}]
        /\ car = [d \in Charges |-> [at |-> IF d = c /\ old # << >> THEN "over" ELSE "ahead", id |-> 0]]
        /\ listed = [d \in Charges |-> IF d = c /\ old # << >> THEN 1 ELSE 0]
        /\ recent = IF old = << >> THEN Charges ELSE Charges \ {c}
        /\ ledger = [x \in Items |-> [st |-> "none", link |-> 0]]
        /\ lock = Free /\ status = [st |-> "none", stale |-> FALSE]
        /\ task = [t \in Tasks |-> Idle]
        /\ faults = 0
  BY DEF Init
<1>1. /\ DOMAIN old \subseteq {1, 2} /\ (old # << >> => 1 \in DOMAIN old)
      /\ \A i \in DOMAIN old : /\ old[i] \in Row /\ ~old[i].new
  <2>1. ASSUME NEW src \in Kinds, NEW v \in {0, 1, MaxVersion}
        PROVE  Old(src, v) \in Row /\ ~Old(src, v).new
    <3>1. NoRow \in Row /\ ~NoRow.new
      BY BoundsAre DEF NoRow, Row, Kinds
    <3>2. v \in 0 .. MaxVersion /\ (v # 0 => v \in Versions)
      BY BoundsAre DEF Versions
    <3> PICK al : al = IF v = 0 THEN {} ELSE {v}
      OBVIOUS
    <3>3. al \in SUBSET Versions
      BY <3>2
    <3>4. Old(src, v) = [NoRow EXCEPT !.src = src, !.sid = v, !.meta = v, !.al = al]
      BY DEF Old
    <3> QED  BY <3>1, <3>2, <3>3, <3>4 DEF Row
  <2>2. old \in {<< >>, <<Old("none", 0), Old("a", 1)>>, <<Old("a", 1), Old("a", MaxVersion)>>,
                 <<Old("t", 0), Old("ta", 1)>>}
    BY DEF Legacies
  <2>3. {"none", "a", "t", "ta"} \subseteq Kinds
    BY DEF Kinds
  <2> HIDE DEF Kinds
  <2> QED  BY <2>1, <2>2, <2>3
<1>2. \A i \in RowIds : /\ i \in DOMAIN old => /\ rows[i] \in Row /\ rows[i].charge = c
                                               /\ ~rows[i].new
                        /\ i \notin DOMAIN old => rows[i] = NoRow
  BY <1>1 DEF Row
<1>3. NoRow \in Row /\ NoRow.charge = Free /\ ~NoRow.new
  BY BoundsAre DEF NoRow, Row, Kinds
<1>4. RowsInv
  <2>1. \A i \in RowIds : rows[i] \in Row
    BY <1>2, <1>3
  <2>2. \A i \in RowIds : rows[i].charge = Free <=> rows[i] = NoRow
    BY <1>2, <1>3, BoundsAssumption
  <2> QED  BY <2>1, <2>2 DEF RowsInv
<1>5. DOMAIN old \subseteq RowIds
  BY <1>1, BoundsAre
<1>6. StateInv
  <2>1. tele \in [Charges -> SUBSET RowIds]
    BY <1>5
  <2>2. listed \in [Charges -> 0 .. MaxVersion]
    BY BoundsAre
  <2> QED  BY <2>1, <2>2 DEF StateInv, Ids
<1>7. \A t \in Tasks : task[t] = Idle
  OBVIOUS
<1>8. TasksInv /\ SyncInv /\ Backfills = {}
  BY <1>7, IdleIs DEF TasksInv, SyncInv, Backfills, Active
<1>9. LoneInv /\ MergeInv /\ FindInv
  BY <1>7, <1>8, IdleIs DEF LoneInv, MergeInv, Merges, Merging, FindInv, Finds
<1>10. NewInv
  BY <1>2, <1>3 DEF NewInv
<1>11. NoChargeLost
  <2>1. old # << >> => 1 \in RowIds /\ rows[1].charge = c
    BY <1>1, <1>2, <1>5
  <2> QED  BY <2>1 DEF NoChargeLost, Of
<1>12. TelemetryHoused
  BY <1>2, <1>5, BoundsAssumption DEF TelemetryHoused, Live, NoRow
<1> QED  BY <1>4, <1>6, <1>8, <1>9, <1>10, <1>11, <1>12 DEF IInv

LEMMA InvStep == IInv /\ [Next]_vars => IInv'
<1> SUFFICES ASSUME IInv, [Next]_vars PROVE IInv'
  OBVIOUS
<1>1. ASSUME NEW t \in Tasks, Step(t) PROVE IInv'
  <2>1. CASE Fetch(t)
    BY <2>1, LockStep, AskStep, RecordStep, FindStep, UpdateStep, InsertApiOnlyStep, AliasStep,
       LinkStep DEF Fetch
  <2>2. CASE Canonicalize(t)
    BY <2>2, SourcesStep, ReseedStep, ReplayStep, ReadStep, ReadAliasesStep, ChooseStep,
       RestampStep, RepayStep, RehomeStep, DropStep, CrownStep DEF Canonicalize
  <2> QED  BY <1>1, <2>1, <2>2, ReportStep DEF Step
<1>2. CASE UNCHANGED vars
  <2>1. UNCHANGED <<lock, status, task>> /\ UNCHANGED <<rows, tele>>
        /\ UNCHANGED <<world, store, history>>
    BY <1>2 DEF vars, store
  <2>2. StateInv'
    BY <2>1, StoredStays DEF IInv, StateInv
  <2> QED  BY <2>1, <2>2, StoredStays, CarStays DEF IsOf
<1>3. CASE Next
  BY <1>1, <1>3, BeginStep, ListStep, PersistStep, ExpireStep, LockStep, ClaimStep, RefusedStep,
     StaleStep, CrashStep DEF Next
<1> QED  BY <1>2, <1>3

\* However syncs, a backfill, the charge detector, retention, failures and restarts
\* interleave, a backfill that merges without a lock deletes only a row to which no
\* telemetry refers, whose survivor is there, and knows of every other row it has read
\* that it is still of its charge (canonicalize_charge_sessions).
THEOREM HistoryInvariant == Spec => []IInv
BY InitHolds, InvStep, PTL DEF Spec

\* No charge that has had a row, and no telemetry that was stored, is lost in a merge, syncs
\* do not make a charge twice, and one backfill runs at a time (HistoryInv).
THEOREM HistoryHolds == Spec => []HistoryInv
<1>1. IInv => HistoryInv
  <2> SUFFICES ASSUME IInv PROVE HistoryInv
    OBVIOUS
  <2>1. TypeOK
    <3>1. \A i \in RowIds : rows[i] # NoRow =>
             rows[i].charge \in Charges /\ rows[i].src \in {"none", "a", "t", "ta"}
      BY DEF IInv, RowsInv, Row, Kinds
    <3>2. \A t \in Tasks : task[t].row \in Ids
      BY DEF IInv, TasksInv, Fits, Work
    <3> QED  BY <3>1, <3>2 DEF TypeOK, IInv, StateInv, Ids
  <2>2. OneApiRow
    <3> SUFFICES ASSUME status.st = "none", NEW c \in Charges
                 PROVE  Cardinality({i \in Of(c) : rows[i].new}) <= 1
      BY DEF OneApiRow
    <3> DEFINE S == {i \in Of(c) : rows[i].new}
    <3>1. \A i, j \in S : i = j
      BY DEF IInv, NewInv, Of
    <3> HIDE DEF S
    <3>2. CASE S = {}
      <4>1. Cardinality(S) = 0
        BY <3>2, FS_EmptySet
      <4> QED  BY <4>1 DEF S
    <3>3. CASE S # {}
      <4>1. PICK i : S = {i}
        BY <3>1, <3>3
      <4>2. Cardinality(S) = 1
        BY <4>1, FS_Singleton
      <4> QED  BY <4>2 DEF S
    <3> QED  BY <3>2, <3>3
  <2>3. LeaseInv
    <3>1. CASE Backfills = {}
      BY <3>1, FS_EmptySet DEF LeaseInv
    <3>2. CASE Backfills # {}
      <4>1. PICK t \in Backfills : \A u \in Backfills : u = t
        BY <3>2 DEF IInv, LoneInv
      <4>2. Backfills = {t}
        BY <4>1
      <4>3. Cardinality(Backfills) = 1
        BY <4>2, FS_Singleton
      <4> QED  BY <4>3 DEF LeaseInv, IInv, LoneInv
    <3> QED  BY <3>1, <3>2
  <2> QED  BY <2>1, <2>2, <2>3 DEF HistoryInv, IInv
<1> QED  BY <1>1, HistoryInvariant, PTL
=============================================================================
