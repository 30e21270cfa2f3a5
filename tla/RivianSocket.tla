----------------------------- MODULE RivianSocket -----------------------------
(***************************************************************************)
(* The websocket of one vehicle's worker: run_ws_loop with its reconnects  *)
(* and its answer to a changed schema, the control events it sends to the  *)
(* worker, the health the worker derives from them, and the watchdog.      *)
(*                                                                         *)
(*   apps/api/src/ingestion/ws_client.rs               the loop            *)
(*   apps/api/src/ingestion/worker.rs                  events, watchdog    *)
(*   apps/api/src/ingestion/worker/state_decisions.rs  health of an event  *)
(*                                                                         *)
(* The stored token bundle is RivianSession's: here it is accepted or not, *)
(* expires, and is replaced by the poller or by a user who signs in again. *)
(***************************************************************************)
EXTENDS Naturals, Sequences

CONSTANTS
    Fields,        \* fields of the vehicleState subscription
    QueueLength,   \* capacity of the worker's event channel, 256 in the code
    MaxExpiries,   \* bound: times the stored bundle stops being accepted
    MaxSaves,      \* bound: bundles saved by a user
    MaxFaults      \* bound: network failures, silent servers, crashed tasks

ASSUME BoundsAssumption ==
    QueueLength \in Nat /\ MaxExpiries \in Nat /\ MaxSaves \in Nat /\ MaxFaults \in Nat

VARIABLES
    storedGood,   \* Rivian accepts the stored bundle
    heldGood,     \* Rivian accepts the bundle the loop holds
    unsupported,  \* fields Rivian's schema does not have
    ws,           \* step of the loop
    silent,       \* the server has stopped answering on this connection
    counts,       \* failure_counts: rejections of each field
    disabled,     \* disabled_fields
    events,       \* the worker's channel
    health, auth, \* worker_health, auth_state
    expiries, saves, faults

tokens  == <<storedGood, heldGood, unsupported>>
loop    == <<ws, silent, counts, disabled>>
runtime == <<health, auth>>
budgets == <<expiries, saves, faults>>
vars    == <<tokens, loop, events, runtime, budgets>>

Init ==
    /\ storedGood \in BOOLEAN /\ heldGood = FALSE /\ unsupported \in SUBSET Fields
    /\ ws = "load" /\ silent = FALSE
    /\ counts = [f \in Fields |-> 0] /\ disabled = {}
    /\ events = <<>> /\ health = "starting" /\ auth = "authorized"
    /\ expiries = 0 /\ saves = 0 /\ faults = 0

Fault == faults < MaxFaults /\ faults' = faults + 1 /\ UNCHANGED <<expiries, saves>>

-----------------------------------------------------------------------------
(* run_ws_loop. A message to the worker waits while the channel is full. Definitions named
   ...Variant are faulty forms used only to show that a property notices when the
   definition after them is wrong. *)

\* The channel is unbounded.
EmitVariant(kinds) == events' = events \o kinds

Emit(kinds) == Len(events) + Len(kinds) <= QueueLength /\ events' = events \o kinds

\* Every connection starts from the stored bundle.
Load ==
    /\ ws = "load" /\ ws' = "connect" /\ heldGood' = storedGood
    /\ UNCHANGED <<storedGood, unsupported, silent, counts, disabled, events, runtime, budgets>>

\* The credentials cannot be read: the loop backs off and says nothing.
LoadFails ==
    /\ ws = "load" /\ ws' = "unread" /\ Fault
    /\ UNCHANGED <<tokens, silent, counts, disabled, events, runtime>>

\* connect_and_subscribe up to connection_init; a refusal is reported before the error.
Handshake ==
    /\ ws = "connect" /\ ~silent
    /\ IF heldGood
       THEN ws' = "ack" /\ Emit(<<"connection_open">>)
       ELSE ws' = "backoff" /\ Emit(<<"ws_handshake_rejected", "reconnect">>)
    /\ UNCHANGED <<tokens, silent, counts, disabled, runtime, budgets>>

\* The server refuses the upgrade for another reason than the bundle.
HandshakeFails ==
    /\ ws = "connect" /\ ~silent /\ Fault
    /\ ws' = "backoff" /\ Emit(<<"ws_handshake_failed", "reconnect">>)
    /\ UNCHANGED <<tokens, silent, counts, disabled, runtime>>

Acknowledge ==
    /\ ws = "ack" /\ ~silent /\ Emit(<<"connection_ack">>) /\ ws' = "subscribe"
    /\ UNCHANGED <<tokens, silent, counts, disabled, runtime, budgets>>

Refused == unsupported \ disabled

Subscribe ==
    /\ ws = "subscribe" /\ ~silent /\ Refused = {} /\ ws' = "open"
    /\ UNCHANGED <<tokens, silent, counts, disabled, events, runtime, budgets>>

\* A rejection is counted for the connection, not for the loop.
RejectVariant ==
    /\ ws = "subscribe" /\ ~silent /\ ws' = "backoff"
    /\ \E named \in (SUBSET Refused) \ {{}} : counts' = [f \in Fields |-> IF f \in named THEN 1 ELSE 0]
    /\ disabled' = {f \in Fields : counts'[f] >= 2}
    /\ Emit(<<"ws_schema_rejected", "reconnect">>)
    /\ UNCHANGED <<tokens, silent, runtime, budgets>>

\* Once a field has been named twice the whole subscription is narrowed.
RejectAllVariant ==
    /\ ws = "subscribe" /\ ~silent /\ ws' = "backoff"
    /\ \E named \in (SUBSET Refused) \ {{}} :
         counts' = [f \in Fields |-> IF f \in named /\ counts[f] < 2 THEN counts[f] + 1 ELSE counts[f]]
    /\ disabled' = IF \E f \in Fields : counts'[f] >= 2 THEN Fields ELSE {}
    /\ Emit(<<"ws_schema_rejected", "reconnect">>)
    /\ UNCHANGED <<tokens, silent, runtime, budgets>>

\* Rivian names at least one field it refuses; record_rejection drops a field named twice
\* from the next query.
Reject ==
    /\ ws = "subscribe" /\ ~silent /\ ws' = "backoff"
    /\ \E named \in (SUBSET Refused) \ {{}} :
         counts' = [f \in Fields |-> IF f \in named /\ counts[f] < 2 THEN counts[f] + 1 ELSE counts[f]]
    /\ disabled' = {f \in Fields : counts'[f] >= 2}
    /\ Emit(<<"ws_schema_rejected">>
            \o (IF disabled' # disabled THEN <<"ws_schema_degraded">> ELSE <<>>) \o <<"reconnect">>)
    /\ UNCHANGED <<tokens, silent, runtime, budgets>>

Connected == ws \in {"ack", "subscribe", "open"}

\* The worker is not told that the socket closed.
SocketFailsVariant ==
    /\ Connected /\ Fault /\ ws' = "backoff" /\ silent' = FALSE
    /\ UNCHANGED <<tokens, counts, disabled, events, runtime>>

\* The network fails, or the server closes the socket.
SocketFails ==
    /\ Connected \/ ws = "connect"
    /\ Fault /\ ws' = "backoff" /\ silent' = FALSE /\ Emit(<<"reconnect">>)
    /\ UNCHANGED <<tokens, counts, disabled, runtime>>

\* The server ends the connection at the end of its life time: it is renewed at once, and
\* the worker is not told.
SocketExpires ==
    /\ ws = "open" /\ ~silent /\ Fault /\ ws' = "load"
    /\ UNCHANGED <<tokens, silent, counts, disabled, events, runtime>>

\* Half-open connection, or an answer to the upgrade or the init that never comes; nothing
\* in the loop bounds the wait.
GoesSilent ==
    /\ Connected \/ ws = "connect"
    /\ ~silent /\ Fault /\ silent' = TRUE
    /\ UNCHANGED <<tokens, ws, counts, disabled, events, runtime>>

BackoffEnds ==
    /\ ws \in {"backoff", "unread"} /\ ws' = "load"
    /\ UNCHANGED <<tokens, silent, counts, disabled, events, runtime, budgets>>

-----------------------------------------------------------------------------
(* The worker. *)

\* A new loop, which knows nothing of the fields refused so far.
NewLoop ==
    /\ ws' = "load" /\ silent' = FALSE
    /\ counts' = [f \in Fields |-> 0] /\ disabled' = {}

WatchdogVariant ==
    FALSE /\ NewLoop /\ UNCHANGED <<tokens, events, runtime, budgets>>

\* Nothing was heard for ten minutes: the loop is aborted and started again.
Watchdog ==
    /\ silent /\ events = <<>> /\ NewLoop /\ health' = "stale"
    /\ UNCHANGED <<tokens, events, auth, budgets>>

\* The loop's task panicked.
TaskPanics ==
    /\ Fault /\ NewLoop /\ health' = "degraded"
    /\ UNCHANGED <<tokens, events, auth>>

\* runtime_health_update_for_ws_control.
HealthOf(event) ==
    CASE event = "connection_open" -> "starting"
      [] event = "connection_ack" -> "connected"
      [] event \in {"ws_handshake_rejected", "ws_handshake_failed"} -> "error"
      [] OTHER -> "degraded"

AuthOf(event) == IF event = "ws_handshake_rejected" THEN "needs_reauth" ELSE "authorized"

\* handle_inbound_accounting and upsert_health.
HandleControl ==
    /\ events # <<>> /\ events' = Tail(events)
    /\ health' = HealthOf(Head(events))
    /\ auth' = IF auth = "needs_reauth" THEN auth ELSE AuthOf(Head(events))
    /\ UNCHANGED <<tokens, loop, budgets>>

-----------------------------------------------------------------------------
(* The stored bundle. *)

Expire ==
    /\ expiries < MaxExpiries /\ expiries' = expiries + 1
    /\ storedGood' = FALSE /\ heldGood' = FALSE
    /\ UNCHANGED <<unsupported, loop, events, runtime, saves, faults>>

\* The poller's rotation (RivianSession.ExpiredPairIsRotated).
Renew ==
    /\ ~storedGood /\ storedGood' = TRUE
    /\ UNCHANGED <<heldGood, unsupported, loop, events, runtime, budgets>>

\* refresh_vehicle_credentials, with the worker running.
Save ==
    /\ saves < MaxSaves /\ saves' = saves + 1
    /\ storedGood' = TRUE /\ health' = "starting" /\ auth' = "authorized"
    /\ UNCHANGED <<heldGood, unsupported, loop, events, expiries, faults>>

LoopStep == Load \/ Handshake \/ Acknowledge \/ Subscribe \/ Reject \/ BackoffEnds

Next ==
    \/ LoopStep \/ LoadFails \/ HandshakeFails \/ SocketFails \/ SocketExpires \/ GoesSilent
    \/ Watchdog \/ TaskPanics \/ HandleControl
    \/ Expire \/ Renew \/ Save

Spec == Init /\ [][Next]_vars

\* Timers fire, the server answers unless it went silent, and the poller renews an expired
\* bundle; nobody has to save one.
FairSpec ==
    Spec /\ WF_vars(LoopStep) /\ WF_vars(Watchdog) /\ WF_vars(HandleControl) /\ WF_vars(Renew)

-----------------------------------------------------------------------------

TypeOK ==
    /\ storedGood \in BOOLEAN /\ heldGood \in BOOLEAN /\ unsupported \in SUBSET Fields
    /\ ws \in {"load", "connect", "ack", "subscribe", "open", "backoff", "unread"} /\ silent \in BOOLEAN
    /\ counts \in [Fields -> 0 .. 2] /\ disabled \in SUBSET Fields
    /\ Len(events) <= QueueLength
    /\ health \in {"starting", "connected", "degraded", "error", "stale"}
    /\ auth \in {"authorized", "needs_reauth"}
    /\ expiries \in Nat /\ saves \in Nat /\ faults \in Nat

\* Schema healing never gives up a field Rivian still serves.
OnlyRefusedFieldsDropped == disabled \subseteq unsupported

\* With every event handled, "connected" is not shown while the socket is in backoff or
\* waits for its acknowledgement. (It is while the loop renews a connection that reached
\* the end of its life time, and while it cannot read its credentials.)
ConnectedMeansSocket == health = "connected" /\ events = <<>> => ws \notin {"backoff", "ack"}

\* All of them, and the types.
SocketInv == TypeOK /\ OnlyRefusedFieldsDropped /\ ConnectedMeansSocket

\* The loop comes back to an open subscription after network failures, silent servers,
\* expired bundles, crashed tasks and fields the schema refuses, every time.
SocketRecovers == []<>(ws = "open")
=============================================================================
