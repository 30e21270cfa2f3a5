--------------------------- MODULE DatabaseStart ---------------------------
(***************************************************************************)
(* How API processes that start at the same time bring the database to     *)
(* the schema of their release and agree on the cryptographic keys.        *)
(*                                                                         *)
(*   apps/api/src/db/migrations.rs   run_current_migrations                *)
(*   apps/api/src/keys.rs            bootstrap_keys                        *)
(*   apps/api/src/main.rs            the order of the two                  *)
(*                                                                         *)
(* A release knows the migrations 1 .. n of one chain.  A ledger is the    *)
(* number of its entries, Absent when there is no such table, and Alien    *)
(* when an entry differs from every release's.  What a migration does is   *)
(* left out: applying it raises the schema by one, in one transaction with *)
(* its ledger entry.  A key row holds the number of the generation it came *)
(* from.  Keys from the environment, the defaults seeded between the two   *)
(* steps and the host restore's own migration are left out.                *)
(***************************************************************************)
EXTENDS Integers, FiniteSets

CONSTANTS
    Procs,           \* API processes
    Releases,        \* how many migrations the images know
    Databases,       \* the databases found at first
    None,            \* nobody
    MaxCrashes,      \* bound: processes killed
    MaxFaults,       \* bound: failed statements
    MaxCorruptions,  \* bound: key rows damaged
    MaxKeys          \* bound: key generations

Absent == -1
Newest == CHOOSE n \in Releases : \A m \in Releases : m <= n
Alien  == Newest + 1
Ledger == Absent .. Alien

ASSUME ReleasesAssumption == Releases # {} /\ IsFiniteSet(Releases) /\ Releases \subseteq Nat \ {0}
ASSUME DatabasesAssumption ==
    Databases \subseteq [public : Ledger, legacy : Ledger, schema : 0 .. Newest, other : BOOLEAN]
ASSUME ProcsAssumption == None \notin Procs
ASSUME BoundsAssumption == {MaxCrashes, MaxFaults, MaxCorruptions, MaxKeys} \subseteq Nat

VARIABLES
    db,       \* the two ledgers, the applied migrations, foreign objects
    keys,     \* the key rows of riviamigo.system_config
    lock,     \* the session lock riviamigo-schema-migrations
    pc,       \* by process: its step
    release,  \* by process: the image it runs
    plan,     \* by process: the ledger action it decided on, and the ledger it read
    ring,     \* by process: the keys it works with
    made,     \* key generations so far
    crashes, faults, corruptions

local  == <<release, plan, ring>>
counts == <<crashes, faults, corruptions>>
vars   == <<db, keys, lock, pc, local, made, counts>>

KeyNames == {"private", "public", "age"}
Corrupt  == -2
NoKeys   == [k \in KeyNames |-> Absent]
Complete(r) == \A k \in KeyNames : r[k] # Absent
NoPlan   == [action |-> "none", ledger |-> Absent]

Init ==
    /\ db \in Databases /\ keys = NoKeys /\ lock = None
    /\ pc = [p \in Procs |-> "down"]
    /\ release \in [Procs -> Releases]
    /\ plan = [p \in Procs |-> NoPlan] /\ ring = [p \in Procs |-> NoKeys]
    /\ made = 0 /\ crashes = 0 /\ faults = 0 /\ corruptions = 0

At(p, step)   == pc[p] = step
Goto(p, step) == pc' = [pc EXCEPT ![p] = step]

----------------------------------------------------------------------------
(* Migrations                                                              *)

\* The container starts an image, possibly a newer or an older one than before.
Start(p) ==
    /\ At(p, "down") /\ Goto(p, "lock")
    /\ \E n \in Releases : release' = [release EXCEPT ![p] = n]
    /\ UNCHANGED <<db, keys, lock, plan, ring, made, counts>>

LockVariant(p) ==   \* Mutation: pg_try_advisory_lock, and its answer is not looked at.
    /\ At(p, "lock") /\ Goto(p, "inspect")
    /\ lock' = IF lock = None THEN p ELSE lock
    /\ UNCHANGED <<db, keys, local, made, counts>>
Lock(p) ==
    /\ At(p, "lock") /\ lock = None
    /\ lock' = p /\ Goto(p, "inspect")
    /\ UNCHANGED <<db, keys, local, made, counts>>

\* validate_ledger_prefix
ValidVariant(n, p) == n = release[p]   \* Mutation: a release follows no database but its own.
Valid(n, p) == n \in 1 .. release[p]

\* Which of its ledgers a database is taken to follow; "refuse" when none.
ActionVariant(p) ==   \* Mutation: a database without a ledger is taken for a fresh one.
    CASE db.public = Absent /\ db.legacy = Absent -> "fresh"
      [] db.public # Absent /\ db.legacy = Absent ->
           IF Valid(db.public, p) /\ db.schema > 0 THEN "public" ELSE "refuse"
      [] db.public = Absent /\ db.legacy # Absent ->
           IF Valid(db.legacy, p) /\ db.schema > 0 THEN "relocate" ELSE "refuse"
      [] OTHER ->
           IF Valid(db.public, p) /\ db.schema > 0 /\ db.legacy \in {0, db.public}
           THEN "redundant" ELSE "refuse"
Action(p) ==
    CASE db.public = Absent /\ db.legacy = Absent ->
           IF db.schema = 0 /\ ~db.other THEN "fresh" ELSE "refuse"
      [] db.public # Absent /\ db.legacy = Absent ->
           IF Valid(db.public, p) /\ db.schema > 0 THEN "public" ELSE "refuse"
      [] db.public = Absent /\ db.legacy # Absent ->
           IF Valid(db.legacy, p) /\ db.schema > 0 THEN "relocate" ELSE "refuse"
      [] OTHER ->
           IF Valid(db.public, p) /\ db.schema > 0 /\ db.legacy \in {0, db.public}
           THEN "redundant" ELSE "refuse"

Inspect(p) ==
    /\ At(p, "inspect")
    /\ Goto(p, IF Action(p) = "refuse" THEN "give up" ELSE "adopt")
    /\ plan' = [plan EXCEPT ![p] = [action |-> Action(p), ledger |-> db.legacy]]
    /\ UNCHANGED <<db, keys, lock, release, ring, made, counts>>

\* Each ledger action is one transaction or one statement.
Adopted(d, p) ==
    CASE plan[p].action = "fresh"     -> [d EXCEPT !.schema = 1, !.public = 1]
      [] plan[p].action = "relocate"  -> [d EXCEPT !.public = plan[p].ledger, !.legacy = Absent]
      [] plan[p].action = "redundant" -> [d EXCEPT !.legacy = Absent]
      [] OTHER                        -> d
Adopt(p) ==
    /\ At(p, "adopt")
    /\ ~(plan[p].action = "fresh" /\ db.schema > 0)   \* its tables exist: the statement fails
    /\ db' = Adopted(db, p) /\ Goto(p, "migrate")
    /\ UNCHANGED <<keys, lock, local, made, counts>>

\* MIGRATOR.run_direct applies one pending migration after the other.
AppliedVariant(d) == [d EXCEPT !.public = @ + 1]   \* Mutation: the entry is written on its own.
Applied(d) == [d EXCEPT !.public = @ + 1, !.schema = @ + 1]
Migrate(p) ==
    /\ At(p, "migrate") /\ db.public < release[p]
    /\ db' = Applied(db)
    /\ UNCHANGED <<keys, lock, pc, local, made, counts>>

\* validate_complete_ledger, and no legacy ledger left; then the lock is released.
Validate(p) ==
    /\ At(p, "migrate") /\ db.public >= release[p]
    /\ IF db.public = release[p] /\ db.legacy = Absent
       THEN Goto(p, "keys") /\ lock' = None ELSE Goto(p, "give up") /\ UNCHANGED lock
    /\ UNCHANGED <<db, keys, local, made, counts>>

\* A step that failed: the lock is released and the process ends with the error.
GiveUp(p) ==
    /\ At(p, "give up")
    /\ lock' = IF lock = p THEN None ELSE lock
    /\ Goto(p, "failed")
    /\ UNCHANGED <<db, keys, local, made, counts>>

----------------------------------------------------------------------------
(* bootstrap_keys                                                          *)

\* A complete set is used once every key of it has been parsed.
ReadKeys(p) ==
    /\ At(p, "keys")
    /\ IF ~Complete(keys) THEN Goto(p, "insert") /\ UNCHANGED ring
       ELSE IF \E k \in KeyNames : keys[k] = Corrupt THEN Goto(p, "failed") /\ UNCHANGED ring
       ELSE Goto(p, "ready") /\ ring' = [ring EXCEPT ![p] = keys]
    /\ UNCHANGED <<db, keys, lock, release, plan, made, counts>>

\* A new set is generated; the rows that are missing are inserted, the others stay.
InsertedVariant == [k \in KeyNames |-> made + 1]   \* Mutation: ON CONFLICT DO UPDATE.
Inserted == [k \in KeyNames |-> IF keys[k] = Absent THEN made + 1 ELSE keys[k]]
InsertKeys(p) ==
    /\ At(p, "insert") /\ made < MaxKeys
    /\ made' = made + 1 /\ keys' = Inserted
    /\ Goto(p, "reread")
    /\ UNCHANGED <<db, lock, local, counts>>

\* Whoever won, the rows are the keys.  JwtKeys::new parses the pair, nobody the age key.
Reread(p) ==
    /\ At(p, "reread")
    /\ IF Complete(keys) /\ keys["private"] # Corrupt /\ keys["public"] # Corrupt
       THEN Goto(p, "ready") /\ ring' = [ring EXCEPT ![p] = keys]
       ELSE Goto(p, "failed") /\ UNCHANGED ring
    /\ UNCHANGED <<db, keys, lock, release, plan, made, counts>>

----------------------------------------------------------------------------
(* What happens around them                                                *)

StepOf(p) ==
    \/ Lock(p) \/ Inspect(p) \/ Adopt(p) \/ Migrate(p) \/ Validate(p) \/ GiveUp(p)
    \/ ReadKeys(p) \/ InsertKeys(p) \/ Reread(p)

\* A statement fails; under the lock the process still releases it.
Fails(p) ==
    /\ faults < MaxFaults /\ faults' = faults + 1
    /\ pc[p] \in {"inspect", "adopt", "migrate", "keys", "insert", "reread"}
    /\ Goto(p, IF pc[p] \in {"inspect", "adopt", "migrate"} THEN "give up" ELSE "failed")
    /\ UNCHANGED <<db, keys, lock, local, made, crashes, corruptions>>

\* The supervisor script ends the container with the process, and it is started again.
Restarts(p) ==
    /\ At(p, "failed") /\ Goto(p, "down")
    /\ UNCHANGED <<db, keys, lock, local, made, counts>>

Crash(p) ==
    /\ crashes < MaxCrashes /\ crashes' = crashes + 1
    /\ pc[p] # "down" /\ Goto(p, "down")
    /\ lock' = IF lock = p THEN None ELSE lock
    /\ plan' = [plan EXCEPT ![p] = NoPlan] /\ ring' = [ring EXCEPT ![p] = NoKeys]
    /\ UNCHANGED <<db, keys, release, made, faults, corruptions>>

\* A key row is damaged; its owner clears it when a process has failed with that message.
Damage(k) ==
    /\ corruptions < MaxCorruptions /\ corruptions' = corruptions + 1
    /\ keys[k] \notin {Absent, Corrupt}
    /\ keys' = [keys EXCEPT ![k] = Corrupt]
    /\ UNCHANGED <<db, lock, pc, local, made, crashes, faults>>
ClearKey(k) ==
    /\ keys[k] = Corrupt /\ \E p \in Procs : At(p, "failed")
    /\ keys' = [keys EXCEPT ![k] = Absent]
    /\ UNCHANGED <<db, lock, pc, local, made, counts>>

Next ==
    \/ \E p \in Procs : Start(p) \/ StepOf(p) \/ Fails(p) \/ Restarts(p) \/ Crash(p)
    \/ \E k \in KeyNames : Damage(k) \/ ClearKey(k)

Spec == Init /\ [][Next]_vars

\* A started process runs on, and PostgreSQL serves those that wait for the lock in turn.
FairSpec == Spec /\ \A p \in Procs : WF_vars(StepOf(p)) /\ SF_vars(Lock(p))

----------------------------------------------------------------------------
(* Properties                                                              *)

Steps == {"down", "lock", "inspect", "adopt", "migrate", "give up", "keys", "insert",
          "reread", "ready", "failed"}

\* The variables keep their types, and under the lock only its holder works.
TypeOK ==
    /\ db \in [public : Ledger, legacy : Ledger, schema : 0 .. Newest, other : BOOLEAN]
    /\ keys \in [KeyNames -> {Absent, Corrupt} \cup 1 .. MaxKeys]
    /\ lock \in Procs \cup {None}
    /\ pc \in [Procs -> Steps] /\ release \in [Procs -> Releases]
    /\ \A p \in Procs : pc[p] \in {"inspect", "adopt", "migrate"} => lock = p

\* What the ledgers record is what was applied, or there is neither.
Truthful(d) ==
    \/ d.schema > 0 /\ d.public = d.schema
    \/ d.schema > 0 /\ d.public = Absent /\ d.legacy = d.schema
    \/ d.schema = 0 /\ d.public = Absent /\ d.legacy = Absent /\ ~d.other

\* A ledger that some release follows records what was applied, as its entries are written
\* in the transactions of their migrations.
Recorded(d) ==
    /\ d.public \in 1 .. Newest /\ d.legacy \in {Absent, 0, d.public} /\ d.schema > 0
         => d.public = d.schema
    /\ d.public = Absent /\ d.legacy \in 1 .. Newest /\ d.schema > 0 => d.legacy = d.schema

ASSUME RecordAssumption == \A d \in Databases : Recorded(d)

\* However starts interleave, fail and are killed, the ledger goes on recording the
\* schema, and a database whose ledgers do not record it is left as it was found.
LedgerStaysTruthful ==
    [][db' # db => Truthful(db) /\ Truthful(db')]_db

\* An API that serves requests has every migration of its release, in one ledger.
ReadyIsCurrent ==
    \A p \in Procs : pc[p] = "ready" =>
        /\ db.schema >= release[p] /\ db.public = db.schema /\ db.legacy = Absent

\* Processes that generated keys at the same time all use the ones that were stored.
OneKeyring ==
    corruptions = 0 => \A p \in Procs : pc[p] = "ready" => ring[p] = keys

\* What a ready API can rely on, with the types.
ReadyInv == TypeOK /\ ReadyIsCurrent /\ OneKeyring

\* The newest image starts on every database it can follow, unless something fails.
NewestStarts ==
    [](crashes = 0 /\ faults = 0 /\ corruptions = 0) =>
        \A p \in Procs :
            (At(p, "lock") /\ release[p] = Newest /\ Truthful(db)) ~> At(p, "ready")
============================================================================
