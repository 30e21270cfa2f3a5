------------------------- MODULE DatabaseStartProofs -------------------------
(***************************************************************************)
(* Starts of any number of processes of any releases, on any database that *)
(* an earlier release or somebody else has left: the ledger stays truthful,*)
(* an API that serves is current, and one set of keys is used.             *)
(***************************************************************************)
EXTENDS DatabaseStart, FiniteSetTheorems, TLAPS

-----------------------------------------------------------------------------
(* Releases *)

\* A finite set of numbers has a greatest element: otherwise the sets of its elements above
\* one of them would descend for ever.
LEMMA GreatestExists ==
  ASSUME NEW S \in SUBSET Nat, IsFiniteSet(S), S # {}
  PROVE  \E n \in S : \A m \in S : m <= n
<1> DEFINE Above(n) == {m \in S : m > n}
           Tops == {Above(n) : n \in S}
<1>1. IsWellFoundedOn(StrictSubsetOrdering(S), FiniteSubsetsOf(S))
  BY FS_StrictSubsetOrderingWellFounded
<1>2. Tops \subseteq FiniteSubsetsOf(S) /\ Tops # {}
  <2>1. FiniteSubsetsOf(S) = SUBSET S  BY FS_FiniteSubsetsOfFinite
  <2>2. ASSUME NEW n \in S PROVE Above(n) \in SUBSET S  OBVIOUS
  <2>3. PICK n \in S : TRUE  OBVIOUS
  <2>4. Above(n) \in Tops  OBVIOUS
  <2> HIDE DEF Above
  <2> QED  BY <2>1, <2>2, <2>4
<1>3. PICK T \in Tops : \A U \in Tops : <<U, T>> \notin StrictSubsetOrdering(S)
  <2> HIDE DEF Tops
  <2> QED  BY <1>1, <1>2, WFMin
<1>4. PICK n \in S : T = Above(n)
  BY <1>3
<1>5. ASSUME NEW m \in S, m > n PROVE FALSE
  <2>1. m \in Above(n)  BY <1>5
  <2>2. m \notin Above(m)  OBVIOUS
  <2>3. \A l \in S : l > m => l > n  BY <1>5
  <2>4. Above(m) \subseteq Above(n)  BY <2>3
  <2>5. <<Above(m), Above(n)>> \in StrictSubsetOrdering(S)
    BY <2>1, <2>2, <2>4 DEF StrictSubsetOrdering
  <2> QED  BY <1>3, <1>4, <2>5
<1> QED  BY <1>5

\* The newest release has every migration.
LEMMA NewestRelease ==
  /\ Newest \in Releases /\ Newest \in Nat /\ Newest >= 1
  /\ \A n \in Releases : n \in 1 .. Newest
<1>1. Releases \in SUBSET Nat
  BY ReleasesAssumption
<1>2. \E n \in Releases : \A m \in Releases : m <= n
  BY <1>1, ReleasesAssumption, GreatestExists
<1>3. Newest \in Releases /\ \A m \in Releases : m <= Newest
  BY <1>2 DEF Newest
<1> QED  BY <1>3, ReleasesAssumption

-----------------------------------------------------------------------------
(* The inductive invariant *)

Actions == {"none", "fresh", "public", "relocate", "redundant", "refuse"}

\* The types of what the processes keep to themselves.
LocalOK ==
    /\ plan \in [Procs -> [action : Actions, ledger : Ledger]]
    /\ ring \in [Procs -> [KeyNames -> {Absent, Corrupt} \cup 1 .. MaxKeys]]
    /\ made \in 0 .. MaxKeys /\ corruptions \in Nat

\* What a database is, and one that has a single ledger, which records the schema.
Shape == [public : Ledger, legacy : Ledger, schema : 0 .. Newest, other : BOOLEAN]
Settled(d) == d.schema > 0 /\ d.public = d.schema /\ d.legacy = Absent

\* A process that has the lock acts on the ledgers it has read, one past the adoption works
\* on a settled database, and one past the migrations has those of its release.
Stands(p) ==
    /\ pc[p] = "adopt" =>
         Action(p) # "refuse" /\ plan[p] = [action |-> Action(p), ledger |-> db.legacy]
    /\ pc[p] = "migrate" => Settled(db)
    /\ pc[p] \in {"keys", "insert", "reread", "ready"} =>
         Settled(db) /\ db.schema >= release[p]
LedgerInv == Recorded(db) /\ \A p \in Procs : Stands(p)

\* Until a row is damaged, a set that was complete stays as it is.
KeysInv ==
    corruptions = 0 =>
        /\ \A k \in KeyNames : keys[k] # Corrupt
        /\ \A p \in Procs :
             /\ pc[p] \in {"reread", "ready"} => Complete(keys)
             /\ pc[p] = "ready" => ring[p] = keys

StartInv == TypeOK /\ LocalOK /\ LedgerInv /\ KeysInv

-----------------------------------------------------------------------------
(* What the helpers do to the ledgers *)

\* Whatever action was decided on, carrying it out leaves a settled database.
LEMMA AdoptionSettles ==
  ASSUME TypeOK, Recorded(db), NEW p \in Procs, Action(p) # "refuse",
         plan[p] = [action |-> Action(p), ledger |-> db.legacy]
  PROVE  /\ Adopted(db, p) \in Shape /\ Settled(Adopted(db, p))
         /\ Adopted(db, p) # db => Truthful(db)
<1>1. Newest \in Nat /\ Newest >= 1 /\ release[p] \in 1 .. Newest
  BY NewestRelease DEF TypeOK
<1>2. db \in Shape
  BY DEF TypeOK, Shape
<1>3. Absent \in Ledger /\ 1 \in Ledger /\ 1 \in 0 .. Newest /\ Absent # 1
  BY <1>1 DEF Ledger, Alien, Absent
<1>4. plan[p].action = Action(p) /\ plan[p].ledger = db.legacy
  OBVIOUS
<1>5. CASE db.public = Absent /\ db.legacy = Absent
  <2>1. Action(p) = "fresh" /\ db.schema = 0 /\ ~db.other  BY <1>5 DEF Action
  <2>2. Adopted(db, p) = [db EXCEPT !.schema = 1, !.public = 1]  BY <1>4, <2>1 DEF Adopted
  <2>3. Adopted(db, p) \in Shape  BY <1>2, <1>3, <2>2 DEF Shape
  <2>4. Settled(Adopted(db, p))  BY <1>2, <1>5, <2>2 DEF Shape, Settled
  <2> QED  BY <1>5, <2>1, <2>3, <2>4 DEF Truthful
<1>6. CASE db.public # Absent /\ db.legacy = Absent
  <2>1. Action(p) = "public" /\ Valid(db.public, p) /\ db.schema > 0  BY <1>6 DEF Action
  <2>2. Adopted(db, p) = db  BY <1>4, <2>1 DEF Adopted
  <2>3. db.public = db.schema  BY <1>1, <1>6, <2>1 DEF Valid, Recorded
  <2> QED  BY <1>2, <1>6, <2>1, <2>2, <2>3 DEF Settled
<1>7. CASE db.public = Absent /\ db.legacy # Absent
  <2>1. Action(p) = "relocate" /\ Valid(db.legacy, p) /\ db.schema > 0  BY <1>7 DEF Action
  <2>2. Adopted(db, p) = [db EXCEPT !.public = db.legacy, !.legacy = Absent]
    BY <1>4, <2>1 DEF Adopted
  <2>3. db.legacy = db.schema  BY <1>1, <1>7, <2>1 DEF Valid, Recorded
  <2>4. Adopted(db, p) \in Shape  BY <1>2, <1>3, <2>2 DEF Shape
  <2>5. Settled(Adopted(db, p))  BY <1>2, <2>1, <2>2, <2>3 DEF Shape, Settled
  <2> QED  BY <1>7, <2>1, <2>3, <2>4, <2>5 DEF Truthful
<1>8. CASE db.public # Absent /\ db.legacy # Absent
  <2>1. Action(p) = "redundant" /\ Valid(db.public, p) /\ db.schema > 0
        /\ db.legacy \in {0, db.public}
    BY <1>8 DEF Action
  <2>2. Adopted(db, p) = [db EXCEPT !.legacy = Absent]  BY <1>4, <2>1 DEF Adopted
  <2>3. db.public = db.schema  BY <1>1, <1>8, <2>1 DEF Valid, Recorded
  <2>4. Adopted(db, p) \in Shape  BY <1>2, <1>3, <2>2 DEF Shape
  <2>5. Settled(Adopted(db, p))  BY <1>2, <2>1, <2>2, <2>3 DEF Shape, Settled
  <2> QED  BY <2>1, <2>3, <2>4, <2>5 DEF Truthful
<1> QED  BY <1>5, <1>6, <1>7, <1>8

\* On a settled database there is no ledger action to take.
LEMMA SettledStays ==
  ASSUME TypeOK, Settled(db), NEW p \in Procs, plan[p].action = Action(p), Action(p) # "refuse"
  PROVE  Adopted(db, p) = db
<1>1. db.public # Absent /\ db.legacy = Absent
  BY NewestRelease DEF TypeOK, Settled, Absent
<1>2. Action(p) = "public"
  BY <1>1 DEF Action
<1> QED  BY <1>2 DEF Adopted

\* One migration keeps a settled database settled, and within the newest release.
LEMMA MigrationSettles ==
  ASSUME TypeOK, Settled(db), NEW p \in Procs, db.public < release[p]
  PROVE  /\ Applied(db) \in Shape /\ Settled(Applied(db))
         /\ Applied(db).schema = db.schema + 1
<1>1. Newest \in Nat /\ release[p] \in 1 .. Newest
  BY NewestRelease DEF TypeOK
<1>2. db \in Shape
  BY DEF TypeOK, Shape
<1>3. db.schema \in 0 .. Newest /\ db.schema < release[p]
  BY <1>2 DEF Shape, Settled
<1>4. db.schema + 1 \in 0 .. Newest /\ db.schema + 1 \in Ledger
  BY <1>1, <1>3 DEF Ledger, Alien, Absent
<1>5. Applied(db) = [db EXCEPT !.public = db.schema + 1, !.schema = db.schema + 1]
  BY DEF Applied, Settled
<1>6. Applied(db) \in Shape
  BY <1>2, <1>4, <1>5 DEF Shape
<1>7. Applied(db).schema = db.schema + 1 /\ Applied(db).public = db.schema + 1
      /\ Applied(db).legacy = db.legacy
  BY <1>2, <1>5 DEF Shape
<1> QED  BY <1>3, <1>6, <1>7 DEF Settled

-----------------------------------------------------------------------------
(* The invariant holds in every reachable state *)

\* Every database a process may find satisfies the invariant.
LEMMA StartInit == Init => StartInv
<1> SUFFICES ASSUME Init PROVE StartInv
  OBVIOUS
<1>1. TypeOK
  BY DatabasesAssumption DEF Init, TypeOK, NoKeys, Steps
<1>2. LocalOK
  BY NewestRelease, BoundsAssumption
     DEF Init, LocalOK, NoKeys, NoPlan, Actions, Ledger, Alien, Absent
<1>3. LedgerInv
  BY RecordAssumption DEF Init, LedgerInv, Stands
<1>4. KeysInv
  BY DEF Init, KeysInv, NoKeys, KeyNames, Absent, Corrupt
<1> QED  BY <1>1, <1>2, <1>3, <1>4 DEF StartInv

\* The types are kept: an adoption and a migration end within the newest release.
LEMMA TypeStep == StartInv /\ [Next]_vars => TypeOK' /\ LocalOK'
<1> SUFFICES ASSUME StartInv, [Next]_vars PROVE TypeOK' /\ LocalOK'
  OBVIOUS
<1>1. TypeOK /\ LocalOK /\ LedgerInv
  BY DEF StartInv
<1> MaxKeys \in Nat
  BY BoundsAssumption
<1> DEFINE Row == {Absent, Corrupt} \cup 1 .. MaxKeys
<1>b. keys \in [KeyNames -> Row] /\ ring \in [Procs -> [KeyNames -> Row]]
  BY <1>1 DEF TypeOK, LocalOK
<1>c. made \in Nat /\ corruptions \in Nat
  BY <1>1 DEF LocalOK
<1> USE DEF TypeOK, LocalOK, local, counts, At, Goto, Steps
<1>2. ASSUME NEW p \in Procs, Start(p) PROVE TypeOK' /\ LocalOK'
  BY <1>1, <1>2 DEF Start
<1>3. ASSUME NEW p \in Procs, Lock(p) PROVE TypeOK' /\ LocalOK'
  <2>1. lock' \in Procs \cup {None} /\ pc' \in [Procs -> Steps]
    BY <1>1, <1>3 DEF Lock
  <2>2. \A r \in Procs : pc'[r] \in {"inspect", "adopt", "migrate"} => lock' = r
    BY <1>1, <1>3, ProcsAssumption DEF Lock
  <2> QED  BY <1>1, <1>3, <2>1, <2>2 DEF Lock
<1>4. ASSUME NEW p \in Procs, Inspect(p) PROVE TypeOK' /\ LocalOK'
  <2>1. Action(p) \in Actions /\ db.legacy \in Ledger
    BY <1>1 DEF Action, Actions
  <2>2. [action |-> Action(p), ledger |-> db.legacy] \in [action : Actions, ledger : Ledger]
    BY <2>1
  <2>3. plan' \in [Procs -> [action : Actions, ledger : Ledger]]
    BY <1>1, <1>4, <2>2 DEF Inspect
  <2> QED  BY <1>1, <1>4, <2>3 DEF Inspect
<1>5. ASSUME NEW p \in Procs, Adopt(p) PROVE TypeOK' /\ LocalOK'
  <2>1. Adopted(db, p) \in Shape
    BY <1>1, <1>5, AdoptionSettles DEF Adopt, LedgerInv, Stands
  <2> QED  BY <1>1, <1>5, <2>1 DEF Adopt, Shape
<1>6. ASSUME NEW p \in Procs, Migrate(p) PROVE TypeOK' /\ LocalOK'
  <2>1. Applied(db) \in Shape
    BY <1>1, <1>6, MigrationSettles DEF Migrate, LedgerInv, Stands
  <2> QED  BY <1>1, <1>6, <2>1 DEF Migrate, Shape
<1>7. ASSUME NEW p \in Procs, Validate(p) PROVE TypeOK' /\ LocalOK'
  BY <1>1, <1>7 DEF Validate
<1>8. ASSUME NEW p \in Procs, GiveUp(p) PROVE TypeOK' /\ LocalOK'
  BY <1>1, <1>8 DEF GiveUp
<1>9. ASSUME NEW p \in Procs, ReadKeys(p) PROVE TypeOK' /\ LocalOK'
  <2>1. ring' \in [Procs -> [KeyNames -> Row]]
    <3> HIDE DEF Row
    <3> QED  BY <1>b, <1>9 DEF ReadKeys
  <2> QED  BY <1>1, <1>9, <2>1 DEF ReadKeys
<1>10. ASSUME NEW p \in Procs, InsertKeys(p) PROVE TypeOK' /\ LocalOK'
  <2>1. made + 1 \in 1 .. MaxKeys
    BY <1>c, <1>10 DEF InsertKeys
  <2>2. Inserted \in [KeyNames -> {Absent, Corrupt} \cup 1 .. MaxKeys]
    BY <1>1, <2>1 DEF Inserted
  <2>3. made' \in 0 .. MaxKeys
    BY <2>1, <1>c, <1>10 DEF InsertKeys
  <2>4. pc' \in [Procs -> Steps]
        /\ \A r \in Procs : pc'[r] \in {"inspect", "adopt", "migrate"} => lock' = r
    BY <1>1, <1>10 DEF InsertKeys
  <2>5. keys' \in [KeyNames -> Row]
    BY <2>2, <1>10 DEF InsertKeys
  <2> QED  BY <1>1, <1>10, <2>3, <2>4, <2>5 DEF InsertKeys
<1>11. ASSUME NEW p \in Procs, Reread(p) PROVE TypeOK' /\ LocalOK'
  <2>1. ring' \in [Procs -> [KeyNames -> Row]]
    <3> HIDE DEF Row
    <3> QED  BY <1>b, <1>11 DEF Reread
  <2> QED  BY <1>1, <1>11, <2>1 DEF Reread
<1>12. ASSUME NEW p \in Procs, Fails(p) PROVE TypeOK' /\ LocalOK'
  BY <1>1, <1>12 DEF Fails
<1>13. ASSUME NEW p \in Procs, Restarts(p) PROVE TypeOK' /\ LocalOK'
  BY <1>1, <1>13 DEF Restarts
<1>14. ASSUME NEW p \in Procs, Crash(p) PROVE TypeOK' /\ LocalOK'
  <2>1. NoPlan \in [action : Actions, ledger : Ledger]
    BY NewestRelease DEF NoPlan, Actions, Ledger, Alien, Absent
  <2> QED  BY <1>1, <1>14, <2>1 DEF Crash, NoKeys
<1>15. ASSUME NEW k \in KeyNames, Damage(k) PROVE TypeOK' /\ LocalOK'
  <2>1. keys' \in [KeyNames -> Row]
    BY <1>b, <1>15 DEF Damage
  <2>2. corruptions' \in Nat
    BY <1>c, <1>15 DEF Damage
  <2> QED  BY <1>1, <1>15, <2>1, <2>2 DEF Damage
<1>16. ASSUME NEW k \in KeyNames, ClearKey(k) PROVE TypeOK' /\ LocalOK'
  BY <1>1, <1>16 DEF ClearKey
<1>17. CASE UNCHANGED vars
  BY <1>1, <1>17 DEF vars
<1> QED
  BY <1>2, <1>3, <1>4, <1>5, <1>6, <1>7, <1>8, <1>9, <1>10, <1>11, <1>12, <1>13, <1>14,
     <1>15, <1>16, <1>17 DEF Next, StepOf

\* A settled database is one whose ledger records its schema.
LEMMA SettledRecords == \A d : Settled(d) /\ d \in Shape => Recorded(d)
<1> SUFFICES ASSUME NEW d, Settled(d), d \in Shape PROVE Recorded(d)
  OBVIOUS
<1>1. Newest \in Nat /\ d.public \in Nat
  BY NewestRelease DEF Settled, Shape
<1> QED  BY <1>1 DEF Settled, Recorded, Absent

\* A process whose own state and whose database stay the same stands as before.
LEMMA UnmovedStands ==
  ASSUME NEW p \in Procs, Stands(p), db' = db,
         pc'[p] = pc[p], release'[p] = release[p], plan'[p] = plan[p]
  PROVE  Stands(p)'
<1>1. Action(p)' = Action(p)
  BY DEF Action, Valid
<1> QED  BY <1>1 DEF Stands

\* Only the process that has the lock changes the ledgers, and it does not take a settled
\* database back, so what the others have relied on goes on holding.
LEMMA LedgerStep == StartInv /\ [Next]_vars => LedgerInv'
<1> SUFFICES ASSUME StartInv, [Next]_vars PROVE LedgerInv'
  OBVIOUS
<1>1. TypeOK /\ LocalOK /\ LedgerInv
  BY DEF StartInv
<1>2. db \in Shape
  BY <1>1 DEF TypeOK, Shape
<1>3. ASSUME NEW p \in Procs, db' = db, Stands(p)',
             \A q \in Procs \ {p} :
               pc'[q] = pc[q] /\ release'[q] = release[q] /\ plan'[q] = plan[q]
      PROVE  LedgerInv'
  <2>1. ASSUME NEW q \in Procs PROVE Stands(q)'
    BY <1>1, <1>3, UnmovedStands DEF LedgerInv
  <2>2. Recorded(db')
    BY <1>1, <1>3 DEF LedgerInv
  <2> QED  BY <2>1, <2>2 DEF LedgerInv
<1>4. ASSUME NEW p \in Procs, lock = p, pc[p] \in {"adopt", "migrate"}, pc'[p] = "migrate",
             db' \in Shape, Settled(db'), Settled(db) => db'.schema >= db.schema,
             \A q \in Procs \ {p} : pc'[q] = pc[q], release' = release
      PROVE  LedgerInv'
  <2>1. ASSUME NEW q \in Procs PROVE Stands(q)'
    <3>1. CASE q = p  BY <1>4, <3>1 DEF Stands
    <3>2. CASE q # p
      <4>1. pc'[q] # "adopt"  BY <1>1, <1>4, <3>2 DEF TypeOK
      <4>2. Stands(q) /\ pc'[q] = pc[q]  BY <1>1, <1>4, <3>2 DEF LedgerInv
      <4>3. db.schema \in Nat /\ db'.schema \in Nat
        BY <1>2, <1>4, NewestRelease DEF Shape
      <4>4. release'[q] = release[q] /\ release[q] \in Nat
        BY <1>1, <1>4, ReleasesAssumption DEF TypeOK
      <4> QED  BY <1>4, <4>1, <4>2, <4>3, <4>4 DEF Stands
    <3> QED  BY <3>1, <3>2
  <2> QED  BY <1>4, <2>1, SettledRecords DEF LedgerInv
<1> USE DEF At, Goto, local, counts
<1>5. ASSUME NEW p \in Procs, Start(p) PROVE LedgerInv'
  <2>1. pc'[p] = "lock" /\ db' = db  BY <1>1, <1>5 DEF Start, TypeOK
  <2> QED  BY <1>1, <1>3, <1>5, <2>1 DEF Start, TypeOK, Stands
<1>6. ASSUME NEW p \in Procs, Lock(p) PROVE LedgerInv'
  <2>1. pc'[p] = "inspect"  BY <1>1, <1>6 DEF Lock, TypeOK
  <2>2. Stands(p)'  BY <2>1 DEF Stands
  <2> QED  BY <1>1, <1>3, <1>6, <2>2 DEF Lock, TypeOK
<1>7. ASSUME NEW p \in Procs, Inspect(p) PROVE LedgerInv'
  <2>1. Action(p)' = Action(p) /\ db' = db  BY <1>7 DEF Inspect, Action, Valid
  <2>2. pc'[p] = IF Action(p) = "refuse" THEN "give up" ELSE "adopt"
    BY <1>1, <1>7 DEF Inspect, TypeOK
  <2>3. plan'[p] = [action |-> Action(p), ledger |-> db.legacy]
    BY <1>1, <1>7 DEF Inspect, LocalOK
  <2>4. Stands(p)'  BY <2>1, <2>2, <2>3 DEF Stands
  <2> QED  BY <1>1, <1>3, <1>7, <2>1, <2>4 DEF Inspect, TypeOK, LocalOK
<1>8. ASSUME NEW p \in Procs, Adopt(p) PROVE LedgerInv'
  <2>1. db' = Adopted(db, p) /\ lock = p /\ pc[p] = "adopt" /\ pc'[p] = "migrate"
    BY <1>1, <1>8 DEF Adopt, TypeOK
  <2>2. Recorded(db) /\ Action(p) # "refuse"
        /\ plan[p] = [action |-> Action(p), ledger |-> db.legacy]
    BY <1>1, <2>1 DEF LedgerInv, Stands
  <2>3. db' \in Shape /\ Settled(db')
    BY <1>1, <2>1, <2>2, AdoptionSettles
  <2>4. Settled(db) => db' = db
    BY <1>1, <2>1, <2>2, SettledStays
  <2>5. db.schema \in Nat  BY <1>2, NewestRelease DEF Shape
  <2>6. \A q \in Procs \ {p} : pc'[q] = pc[q]
    BY <1>1, <1>8 DEF Adopt, TypeOK
  <2> QED  BY <1>4, <1>8, <2>1, <2>3, <2>4, <2>5, <2>6 DEF Adopt
<1>9. ASSUME NEW p \in Procs, Migrate(p) PROVE LedgerInv'
  <2>1. db' = Applied(db) /\ lock = p /\ pc[p] = "migrate" /\ pc' = pc
    BY <1>1, <1>9 DEF Migrate, TypeOK
  <2>2. Settled(db)  BY <1>1, <2>1 DEF LedgerInv, Stands
  <2>3. db' \in Shape /\ Settled(db') /\ db'.schema = db.schema + 1
    BY <1>1, <1>9, <2>1, <2>2, MigrationSettles DEF Migrate
  <2>4. db.schema \in Nat  BY <1>2, NewestRelease DEF Shape
  <2> QED  BY <1>4, <1>9, <2>1, <2>3, <2>4 DEF Migrate
<1>10. ASSUME NEW p \in Procs, Validate(p) PROVE LedgerInv'
  <2>1. pc[p] = "migrate" /\ db' = db /\ release' = release /\ Settled(db)
    BY <1>1, <1>10 DEF Validate, LedgerInv, Stands
  <2>2. \/ pc'[p] = "keys" /\ db.public = release[p]
        \/ pc'[p] = "give up"
    BY <1>1, <1>10 DEF Validate, TypeOK
  <2>3. db.schema >= db.public  BY <1>2, <2>1, NewestRelease DEF Shape, Settled
  <2>4. Stands(p)'  BY <2>1, <2>2, <2>3 DEF Stands
  <2> QED  BY <1>1, <1>3, <1>10, <2>4 DEF Validate, TypeOK
<1>11. ASSUME NEW p \in Procs, GiveUp(p) \/ Fails(p) \/ Restarts(p) \/ Crash(p)
       PROVE  LedgerInv'
  <2>1. pc'[p] \in {"failed", "give up", "down"} /\ db' = db
    BY <1>1, <1>11 DEF GiveUp, Fails, Restarts, Crash, TypeOK
  <2>2. Stands(p)'  BY <2>1 DEF Stands
  <2>3. \A q \in Procs \ {p} :
          pc'[q] = pc[q] /\ release'[q] = release[q] /\ plan'[q] = plan[q]
    BY <1>1, <1>11 DEF GiveUp, Fails, Restarts, Crash, TypeOK, LocalOK
  <2> QED  BY <1>3, <2>1, <2>2, <2>3
<1>12. ASSUME NEW p \in Procs, ReadKeys(p) \/ InsertKeys(p) \/ Reread(p)
       PROVE  LedgerInv'
  <2>1. pc'[p] \in {"insert", "failed", "ready", "reread"} /\ db' = db /\ release' = release
        /\ pc[p] \in {"keys", "insert", "reread"}
    BY <1>1, <1>12 DEF ReadKeys, InsertKeys, Reread, TypeOK
  <2>2. Settled(db) /\ db.schema >= release[p]
    BY <1>1, <2>1 DEF LedgerInv, Stands
  <2>3. Stands(p)'  BY <2>1, <2>2 DEF Stands
  <2>4. \A q \in Procs \ {p} :
          pc'[q] = pc[q] /\ release'[q] = release[q] /\ plan'[q] = plan[q]
    BY <1>1, <1>12 DEF ReadKeys, InsertKeys, Reread, TypeOK
  <2> QED  BY <1>3, <2>1, <2>3, <2>4
<1>13. ASSUME UNCHANGED <<db, pc, release, plan>> PROVE LedgerInv'
  <2>1. ASSUME NEW q \in Procs PROVE Stands(q)'
    BY <1>1, <1>13, UnmovedStands DEF LedgerInv
  <2> QED  BY <1>1, <1>13, <2>1 DEF LedgerInv
<1>14. ASSUME NEW k \in KeyNames, Damage(k) \/ ClearKey(k) PROVE LedgerInv'
  BY <1>13, <1>14 DEF Damage, ClearKey
<1>15. CASE UNCHANGED vars
  BY <1>13, <1>15 DEF vars
<1> QED
  BY <1>5, <1>6, <1>7, <1>8, <1>9, <1>10, <1>11, <1>12, <1>14, <1>15 DEF Next, StepOf

\* Whoever completes the set, the rows that were there stay.
LEMMA KeysStep == StartInv /\ [Next]_vars => KeysInv'
<1> SUFFICES ASSUME StartInv, [Next]_vars, corruptions' = 0 PROVE KeysInv'
  BY DEF KeysInv
<1>1. TypeOK /\ LocalOK /\ KeysInv
  BY DEF StartInv
<1>2. CASE \E k \in KeyNames : Damage(k)
  BY <1>1, <1>2 DEF Damage, LocalOK
<1>3. ASSUME corruptions' = corruptions PROVE KeysInv'
  <2>1. /\ \A k \in KeyNames : keys[k] # Corrupt
        /\ \A p \in Procs : /\ pc[p] \in {"reread", "ready"} => Complete(keys)
                            /\ pc[p] = "ready" => ring[p] = keys
    BY <1>1, <1>3 DEF KeysInv
  <2>2. CASE \E k \in KeyNames : ClearKey(k)
    BY <2>1, <2>2 DEF ClearKey
  <2>3. ASSUME NEW p \in Procs, keys' = keys, pc'[p] \notin {"reread", "ready"},
               \A q \in Procs \ {p} : pc'[q] = pc[q] /\ ring'[q] = ring[q]
        PROVE  KeysInv'
    BY <2>1, <2>3 DEF KeysInv, Complete
  <2>4. ASSUME NEW p \in Procs,
               Start(p) \/ Lock(p) \/ Inspect(p) \/ Adopt(p) \/ Validate(p) \/ GiveUp(p)
                 \/ Fails(p) \/ Restarts(p) \/ Crash(p)
        PROVE  KeysInv'
    <3>1. keys' = keys /\ pc'[p] \notin {"reread", "ready"}
      BY <1>1, <2>4 DEF Start, Lock, Inspect, Adopt, Validate, GiveUp, Fails, Restarts, Crash,
                        TypeOK, At, Goto, local, counts
    <3>2. \A q \in Procs \ {p} : pc'[q] = pc[q] /\ ring'[q] = ring[q]
      BY <1>1, <2>4 DEF Start, Lock, Inspect, Adopt, Validate, GiveUp, Fails, Restarts, Crash,
                        TypeOK, LocalOK, At, Goto, local, counts
    <3> QED  BY <2>3, <3>1, <3>2
  <2>5. CASE UNCHANGED <<keys, pc, ring>>
    BY <2>1, <2>5 DEF KeysInv, Complete
  <2>6. ASSUME NEW p \in Procs, ReadKeys(p) \/ Reread(p) PROVE KeysInv'
    <3>1. keys' = keys /\ \A q \in Procs \ {p} : pc'[q] = pc[q] /\ ring'[q] = ring[q]
      BY <1>1, <2>6 DEF ReadKeys, Reread, TypeOK, LocalOK, At, Goto
    <3>2. \/ pc'[p] \in {"insert", "failed"}
          \/ pc'[p] = "ready" /\ Complete(keys) /\ ring'[p] = keys
      BY <1>1, <2>6 DEF ReadKeys, Reread, TypeOK, LocalOK, At, Goto
    <3>3. CASE pc'[p] \in {"insert", "failed"}  BY <2>3, <3>1, <3>3
    <3>4. CASE pc'[p] = "ready" /\ Complete(keys) /\ ring'[p] = keys
      BY <2>1, <3>1, <3>4 DEF KeysInv, Complete
    <3> QED  BY <3>2, <3>3, <3>4
  <2>7. ASSUME NEW p \in Procs, InsertKeys(p) PROVE KeysInv'
    <3>1. keys' = Inserted /\ ring' = ring /\ pc' = [pc EXCEPT ![p] = "reread"] /\ made + 1 \in Nat
      BY <1>1, <2>7, BoundsAssumption DEF InsertKeys, Goto, local, LocalOK
    <3>2. Complete(Inserted) /\ \A k \in KeyNames : Inserted[k] # Corrupt
      BY <2>1, <3>1 DEF Inserted, Complete, Absent, Corrupt
    <3>3. Complete(keys) => Inserted = keys
      BY <1>1 DEF Inserted, Complete, TypeOK
    <3> QED  BY <1>1, <2>1, <3>1, <3>2, <3>3 DEF KeysInv, TypeOK
  <2>8. ASSUME NEW p \in Procs, Migrate(p) PROVE KeysInv'
    BY <2>5, <2>8 DEF Migrate, local
  <2>9. CASE UNCHANGED vars
    BY <2>5, <2>9 DEF vars, local
  <2> QED
    BY <1>3, <2>2, <2>4, <2>6, <2>7, <2>8, <2>9, <1>2 DEF Next, StepOf
<1>4. corruptions' = corruptions \/ \E k \in KeyNames : Damage(k)
  BY DEF Next, StepOf, Start, Lock, Inspect, Adopt, Migrate, Validate, GiveUp, ReadKeys,
         InsertKeys, Reread, Fails, Restarts, Crash, ClearKey, vars, counts
<1> QED  BY <1>2, <1>3, <1>4

\* Every step of a start preserves the inductive invariant.
LEMMA StartStep == StartInv /\ [Next]_vars => StartInv'
  BY TypeStep, LedgerStep, KeysStep DEF StartInv

\* The inductive invariant of the start.
THEOREM StartInvariant == Spec => []StartInv
<1>1. Init => StartInv
  BY StartInit
<1>2. StartInv /\ [Next]_vars => StartInv'
  BY StartStep
<1> QED
  BY <1>1, <1>2, PTL DEF Spec

\* An API that serves has every migration of its release in one ledger and the keys that are
\* stored, with the types: run_current_migrations and bootstrap_keys, however many starts
\* interleave, fail and are killed.
THEOREM ReadyHolds == Spec => []ReadyInv
<1>1. StartInv => ReadyInv
  BY DEF StartInv, LedgerInv, Stands, KeysInv, Settled, ReadyInv, ReadyIsCurrent, OneKeyring
<1> QED
  BY <1>1, StartInvariant, PTL

\* A step that changes the ledgers or the schema finds them truthful and leaves them so.
LEMMA TruthfulStep ==
  StartInv /\ [Next]_vars => [db' # db => Truthful(db) /\ Truthful(db')]_db
<1> SUFFICES ASSUME StartInv, [Next]_vars, db' # db PROVE Truthful(db) /\ Truthful(db')
  OBVIOUS
<1>1. TypeOK /\ LedgerInv
  BY DEF StartInv
<1>2. PICK p \in Procs : Adopt(p) \/ Migrate(p)
  BY DEF Next, StepOf, Start, Lock, Inspect, Validate, GiveUp, ReadKeys, InsertKeys, Reread,
         Fails, Restarts, Crash, Damage, ClearKey, vars
<1>3. CASE Adopt(p)
  <2>1. db' = Adopted(db, p) /\ Recorded(db) /\ Action(p) # "refuse"
        /\ plan[p] = [action |-> Action(p), ledger |-> db.legacy]
    BY <1>1, <1>3 DEF Adopt, At, LedgerInv, Stands
  <2> QED  BY <1>1, <2>1, AdoptionSettles DEF Settled, Truthful
<1>4. CASE Migrate(p)
  <2>1. db' = Applied(db) /\ Settled(db) /\ db.public < release[p]
    BY <1>1, <1>4 DEF Migrate, At, LedgerInv, Stands
  <2> QED  BY <1>1, <2>1, MigrationSettles DEF Settled, Truthful
<1> QED  BY <1>2, <1>3, <1>4

\* The ledgers only ever record what was applied: a database whose ledgers do not is left as
\* it was found (run_current_migrations and its ledger actions).
THEOREM TruthfulHolds == Spec => LedgerStaysTruthful
<1>1. StartInv /\ [Next]_vars => [db' # db => Truthful(db) /\ Truthful(db')]_db
  BY TruthfulStep
<1> QED
  BY <1>1, StartInvariant, PTL DEF Spec, LedgerStaysTruthful

=============================================================================
