---------------------------- MODULE RivianSession ----------------------------
(***************************************************************************)
(* The Rivian account session of one vehicle: signing in and saving the    *)
(* token bundle, the REST callers that rotate its short-lived CSRF pair,   *)
(* and the authorization state they write.                                 *)
(*                                                                         *)
(*   apps/api/src/routes/vehicles.rs           connect, OTP, add, refresh  *)
(*   apps/api/src/ingestion/rivian_poll.rs     with_vehicle_auth_retry     *)
(*   apps/api/src/ingestion/rivian_auth.rs     CSRF session                *)
(*                                                                         *)
(* A token bundle is the pair of a sign-in (long-lived) and a CSRF pair    *)
(* (rotated). Rivian's side is external: it accepts a bundle while the     *)
(* sign-in is not revoked and the CSRF pair has not expired.               *)
(***************************************************************************)
EXTENDS Naturals, Sequences, FiniteSets

CONSTANTS
    Callers,        \* concurrent REST operations on the vehicle
    Nil,
    Threshold,      \* NEEDS_REAUTH_FAILURE_THRESHOLD, 3 in the code
    MaxLogins,      \* bound: sign-ins after the first
    MaxExpiries,    \* bound: CSRF pairs that expire
    MaxFaults       \* bound: network failures, transient refusals and revocations

ASSUME BoundsAssumption ==
    Threshold \in Nat /\ MaxLogins \in Nat
    /\ MaxExpiries \in Nat /\ MaxFaults \in Nat

VARIABLES
    revoked, expired, logins,  \* Rivian: refused sign-ins and CSRF pairs, sign-ins so far
    connectKey,  \* Redis rivian:connect:<user>: the bundle of a completed sign-in, or Nil
    otpKey,      \* Redis rivian:otp:<challenge>: the sign-in waits for its code
    saving,      \* the bundle a save handler has read from connectKey, or Nil
    stored,      \* vehicle_credentials
    rowLock,     \* caller that holds the row FOR UPDATE, or Nil
    auth, failures,  \* auth_state and consecutive_auth_failures
    pc, snap,    \* REST callers: step, bundle in use
    rejected,    \* history: bundles Rivian refused a REST caller
    expiries, faults

provider == <<revoked, expired, logins>>
redis    == <<connectKey, otpKey, saving>>
database == <<stored, rowLock>>
runtime  == <<auth, failures>>
rest     == <<pc, snap, rejected>>
vars     == <<provider, redis, database, runtime, rest, expiries, faults>>

Bundles == [login : Nat, csrf : Nat]
ASSUME NilAssumption == Nil \notin Callers \cup Bundles

CallerSteps == {"idle", "call", "lock", "rotate", "retry", "reset", "count", "mark"}

Init ==
    /\ revoked = {} /\ expired = {}
    /\ logins = 1
    /\ connectKey = Nil /\ otpKey = Nil /\ saving = Nil
    /\ stored = [login |-> 1, csrf |-> 1] /\ rowLock = Nil
    /\ auth = "authorized" /\ failures = 0
    /\ pc = [c \in Callers |-> "idle"] /\ snap = [c \in Callers |-> Nil] /\ rejected = {}
    /\ expiries = 0 /\ faults = 0

\* Bundles somebody has. Rivian's new CSRF pair is none of theirs: numbers that nobody uses
\* any more are given out again.
Known == ({connectKey, otpKey, saving, stored} \cup {snap[c] : c \in Callers}) \ {Nil}
NewPair(n) ==
    /\ \A b \in Known : b.csrf # n
    /\ \A m \in 1 .. n - 1 : \E b \in Known : b.csrf = m
    /\ expired' = expired \ {n} /\ rejected' = {b \in rejected : b.csrf # n}

Accepts(bundle) == bundle.login \notin revoked /\ bundle.csrf \notin expired

Fault == faults < MaxFaults /\ faults' = faults + 1

-----------------------------------------------------------------------------
(* Signing in and saving. Definitions named ...Variant, here and below, are faulty forms
   used only to show that a property notices when the definition after them is wrong. *)

\* connect: Rivian authenticates at once, or asks for a code.
Connect ==
    /\ logins <= MaxLogins /\ logins' = logins + 1
    /\ \E n \in 1 .. Cardinality(Known) + 1 :
         /\ NewPair(n)
         /\ LET bundle == [login |-> logins + 1, csrf |-> n] IN
              \/ connectKey' = bundle /\ UNCHANGED otpKey
              \/ otpKey' = bundle /\ UNCHANGED connectKey
    /\ UNCHANGED <<revoked, saving, database, runtime, pc, snap, expiries, faults>>

\* connect_otp: the challenge is deleted once the session is stored.
ConnectOtp ==
    /\ otpKey # Nil /\ connectKey' = otpKey /\ otpKey' = Nil
    /\ UNCHANGED <<provider, saving, database, runtime, rest, expiries, faults>>

\* Both keys live for 300 seconds.
KeyExpires ==
    /\ \/ connectKey # Nil /\ connectKey' = Nil /\ UNCHANGED otpKey
       \/ otpKey # Nil /\ otpKey' = Nil /\ UNCHANGED connectKey
    /\ UNCHANGED <<provider, saving, database, runtime, rest, expiries, faults>>

\* add_vehicle and refresh_vehicle_credentials read the session; a refresh asks Rivian with
\* these tokens whether the account has the vehicle.
ReadSession ==
    /\ saving = Nil /\ connectKey # Nil
    /\ saving' = connectKey
    /\ UNCHANGED <<provider, connectKey, otpKey, database, runtime, rest, expiries, faults>>

\* A missing session is not an error.
SaveVariant ==
    /\ rowLock = Nil
    /\ stored' = saving /\ saving' = Nil /\ connectKey' = Nil
    /\ auth' = "authorized"
    /\ UNCHANGED <<provider, otpKey, rowLock, failures, rest, expiries, faults>>

\* The transaction that saves them, then the removal of the key, whatever it holds by then.
\* The count of failures is left as it is.
Save ==
    /\ saving # Nil /\ rowLock = Nil
    /\ stored' = saving /\ saving' = Nil /\ connectKey' = Nil
    /\ auth' = "authorized"
    /\ UNCHANGED <<provider, otpKey, rowLock, failures, rest, expiries, faults>>

-----------------------------------------------------------------------------
(* with_vehicle_auth_retry: load, call, rotate and retry once. *)

Goto(c, step) == pc' = [pc EXCEPT ![c] = step]

Return(c) == Goto(c, "idle") /\ snap' = [snap EXCEPT ![c] = Nil]

LoadTokens(c) ==
    /\ pc[c] = "idle" /\ Goto(c, "call") /\ snap' = [snap EXCEPT ![c] = stored]
    /\ UNCHANGED <<provider, redis, database, runtime, rejected, expiries, faults>>

\* The operation, first ("call") and after a rotation ("retry"). Rivian may refuse a bundle
\* it accepts a moment later.
Operate(c, step, onRefusal) ==
    /\ pc[c] = step
    /\ \/ /\ Accepts(snap[c]) /\ Goto(c, "reset") /\ UNCHANGED <<rejected, faults>>
       \/ /\ \/ ~Accepts(snap[c]) /\ UNCHANGED faults
             \/ Accepts(snap[c]) /\ Fault
          /\ Goto(c, onRefusal) /\ rejected' = rejected \cup {snap[c]}
    /\ UNCHANGED <<provider, redis, database, runtime, snap, expiries>>

\* A failure that is not about authorization changes nothing.
OperationFails(c) ==
    /\ pc[c] \in {"call", "retry"} /\ Fault /\ Return(c)
    /\ UNCHANGED <<provider, redis, database, runtime, rejected, expiries>>

\* try_refresh_csrf without the comparison: whoever waited rotates the new pair again.
LockRowVariant(c) ==
    /\ pc[c] = "lock" /\ rowLock = Nil
    /\ snap' = [snap EXCEPT ![c] = stored] /\ rowLock' = c /\ Goto(c, "rotate")
    /\ UNCHANGED <<provider, redis, stored, runtime, rejected, expiries, faults>>

\* Without FOR UPDATE.
LockRowUnlockedVariant(c) ==
    /\ pc[c] = "lock"
    /\ snap' = [snap EXCEPT ![c] = stored] /\ rowLock' = Nil
    /\ IF stored # snap[c] THEN Goto(c, "retry") ELSE Goto(c, "rotate")
    /\ UNCHANGED <<provider, redis, stored, runtime, rejected, expiries, faults>>

\* try_refresh_csrf: SELECT ... FOR UPDATE, then the bundle another caller stored meanwhile
\* is reused instead of rotating a second time.
LockRow(c) ==
    /\ pc[c] = "lock" /\ rowLock = Nil
    /\ snap' = [snap EXCEPT ![c] = stored]
    /\ IF stored # snap[c]
       THEN Goto(c, "retry") /\ UNCHANGED rowLock
       ELSE Goto(c, "rotate") /\ rowLock' = c
    /\ UNCHANGED <<provider, redis, stored, runtime, rejected, expiries, faults>>

\* The new pair is used, and not stored.
RotateVariant(c) ==
    /\ pc[c] = "rotate" /\ rowLock' = Nil /\ Goto(c, "retry")
    /\ UNCHANGED <<provider, redis, stored, runtime, snap, rejected, expiries, faults>>

\* rivian_refresh_csrf: a new CSRF pair, the sign-in's tokens unchanged; then the commit.
Rotate(c) ==
    /\ pc[c] = "rotate"
    /\ \E n \in 1 .. Cardinality(Known) + 1 :
         /\ NewPair(n)
         /\ stored' = [snap[c] EXCEPT !.csrf = n]
    /\ snap' = [snap EXCEPT ![c] = stored']
    /\ rowLock' = Nil /\ Goto(c, "retry")
    /\ UNCHANGED <<revoked, logins, redis, runtime, expiries, faults>>

\* Any error on the way rolls back and counts as an authentication failure.
RotateFails(c) ==
    /\ pc[c] = "rotate" /\ Fault /\ rowLock' = Nil /\ Goto(c, "count")
    /\ UNCHANGED <<provider, redis, stored, runtime, snap, rejected, expiries>>

\* reset_auth_failure_counter.
Reset(c) ==
    /\ pc[c] = "reset" /\ failures' = 0 /\ Return(c)
    /\ UNCHANGED <<provider, redis, database, auth, rejected, expiries, faults>>

\* record_auth_failure; the flag is a statement of its own.
CountFailure(c) ==
    /\ pc[c] = "count" /\ failures' = IF failures < Threshold THEN failures + 1 ELSE failures
    /\ IF failures + 1 >= Threshold
       THEN Goto(c, "mark") /\ UNCHANGED snap
       ELSE Return(c)
    /\ UNCHANGED <<provider, redis, database, auth, rejected, expiries, faults>>

\* mark_needs_reauth.
Mark(c) ==
    /\ pc[c] = "mark" /\ Return(c)
    /\ auth' = "needs_reauth"
    /\ UNCHANGED <<provider, redis, database, failures, rejected, expiries, faults>>

-----------------------------------------------------------------------------
(* Rivian. *)

Revoke ==
    /\ Fault /\ \E l \in (1 .. logins) \ revoked : revoked' = revoked \cup {l}
    /\ UNCHANGED <<expired, logins, redis, database, runtime, rest, expiries>>

ExpirePair ==
    /\ expiries < MaxExpiries /\ expiries' = expiries + 1
    /\ stored.csrf \notin expired /\ expired' = expired \cup {stored.csrf}
    /\ UNCHANGED <<revoked, logins, redis, database, runtime, rest, faults>>

CallerStep(c) ==
    \/ LoadTokens(c) \/ Operate(c, "call", "lock") \/ Operate(c, "retry", "count")
    \/ LockRow(c) \/ Rotate(c) \/ Reset(c) \/ CountFailure(c) \/ Mark(c)

Next ==
    \/ \E c \in Callers : CallerStep(c) \/ OperationFails(c) \/ RotateFails(c)
    \/ Connect \/ ConnectOtp \/ KeyExpires \/ ReadSession \/ Save
    \/ Revoke \/ ExpirePair

Spec == Init /\ [][Next]_vars

\* The poll loop calls again and again and Rivian answers; users need not sign in.
FairSpec == Spec /\ \A c \in Callers : WF_vars(CallerStep(c))

-----------------------------------------------------------------------------

TypeOK ==
    /\ revoked \in SUBSET Nat /\ expired \in SUBSET Nat /\ logins \in Nat
    /\ {connectKey, otpKey, saving} \subseteq Bundles \cup {Nil}
    /\ stored \in Bundles /\ rowLock \in Callers \cup {Nil}
    /\ auth \in {"authorized", "needs_reauth"} /\ failures \in 0 .. Threshold
    /\ pc \in [Callers -> CallerSteps] /\ snap \in [Callers -> Bundles \cup {Nil}]
    /\ rejected \in SUBSET Bundles
    /\ expiries \in Nat /\ faults \in Nat

\* Automatic rotation never brings an earlier sign-in back over a bundle a user has saved,
\* however late it comes, and callers that are refused at the same time rotate once: a CSRF
\* pair that was never refused is not replaced (try_refresh_csrf: the row is the coordinator).
OnlyRefusedPairsRotate ==
    [][/\ stored'.login # stored.login => stored' = saving
       /\ stored'.login = stored.login /\ stored'.csrf # stored.csrf => stored \in rejected]_vars

\* The poller replaces an expired pair in the database, as long as the sign-in is good, so
\* that the websocket's next connection finds a good one.
ExpiredPairIsRotated ==
    (stored.csrf \in expired) ~> (stored.csrf \notin expired \/ stored.login \in revoked)
=============================================================================
