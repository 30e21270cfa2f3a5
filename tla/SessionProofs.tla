---------------------------- MODULE SessionProofs ----------------------------
(***************************************************************************)
(* Proofs about the three components that keep somebody signed in:         *)
(* RivianSession, the stored sign-in at Rivian, for any number of REST     *)
(* callers, sign-ins and faults; RivianSocket, as the instance Socket, for *)
(* every set of fields, every capacity of the worker's channel and every   *)
(* bound; and BrowserSession, as the instance Browser, for any number of   *)
(* tabs.                                                                   *)
(*                                                                         *)
(* None of the properties is inductive.  Of the session, CallersInv says   *)
(* what a caller that rotates has read, and SignInsInv which sign-ins are  *)
(* on their way to the database.  A field is dropped after its second      *)
(* rejection, so CountsInv follows the first one too.  What the worker     *)
(* will show is decided by the last event still in the channel: HealthInv  *)
(* speaks of that event, and holds before the worker caught up.  Of the    *)
(* browser, OriginInv says which sign-in a token or a cookie comes from,   *)
(* TokensInv that a token and its successor never meet, and JarInv where   *)
(* the usable token is while one request at a time is in flight.           *)
(***************************************************************************)
EXTENDS RivianSession, FiniteSetTheorems, SequenceTheorems, TLAPS

-----------------------------------------------------------------------------
(* The inductive invariant *)

\* A caller works with a bundle, and one that wants to rotate has been refused with it; the
\* one that rotates has the row locked since it read it.
CallersInv ==
    \A c \in Callers :
        /\ pc[c] # "idle" => snap[c] # Nil
        /\ pc[c] \in {"lock", "rotate"} => snap[c] \in rejected
        /\ pc[c] = "rotate" => rowLock = c /\ snap[c] = stored

\* The sign-ins on their way to the database are newer than the stored one's, or older ones
\* that were never stored; a sign-in waits for its code or is complete, not both.
Waiting == {connectKey, otpKey, saving} \ {Nil}
SignInsInv ==
    /\ stored.login <= logins
    /\ \A b \in Waiting : b.login <= logins /\ b.login # stored.login
    /\ otpKey # Nil => \A b \in {connectKey, saving} \ {Nil} : b.login # otpKey.login

SessionInv == TypeOK /\ CallersInv /\ SignInsInv

-----------------------------------------------------------------------------
(* What a new pair leaves alone *)

\* Rivian's new pair is nobody's: the bundles somebody has stay refused.
LEMMA NewPairKeeps ==
  ASSUME TypeOK, NEW n \in Nat, NewPair(n)
  PROVE  /\ rejected' \in SUBSET Bundles /\ expired' \in SUBSET Nat
         /\ stored \in rejected => stored \in rejected'
         /\ \A c \in Callers : snap[c] # Nil /\ snap[c] \in rejected => snap[c] \in rejected'
<1>1. \A b \in Known : b.csrf # n
  BY DEF NewPair
<1>2. rejected' = {b \in rejected : b.csrf # n} /\ expired' = expired \ {n}
  BY DEF NewPair
<1>3. stored \in Known
  BY NilAssumption DEF Known, TypeOK
<1>4. \A c \in Callers : snap[c] # Nil => snap[c] \in Known
  BY DEF Known
<1>5. rejected' \in SUBSET Bundles /\ expired' \in SUBSET Nat
  BY <1>2 DEF TypeOK
<1> QED  BY <1>1, <1>2, <1>3, <1>4, <1>5

-----------------------------------------------------------------------------
(* The invariant holds in every reachable state *)

\* A user who has signed in once, with no caller at work, satisfies the invariant.
LEMMA SessionInit == Init => SessionInv
<1> SUFFICES ASSUME Init PROVE SessionInv
  OBVIOUS
<1>1. TypeOK
  BY BoundsAssumption DEF Init, TypeOK, Bundles, CallerSteps
<1>2. CallersInv
  BY DEF Init, CallersInv
<1>3. SignInsInv
  BY DEF Init, SignInsInv, Waiting
<1> QED  BY <1>1, <1>2, <1>3 DEF SessionInv

\* The types are kept: whoever is past the load has a bundle.
LEMMA TypeStep == SessionInv /\ [Next]_vars => TypeOK'
<1> SUFFICES ASSUME TypeOK, CallersInv, [Next]_vars PROVE TypeOK'
  BY DEF SessionInv
<1>1. stored \in Bundles /\ Nil \notin Bundles /\ Threshold \in Nat
  BY NilAssumption, BoundsAssumption DEF TypeOK
<1>2. \A c \in Callers : pc[c] # "idle" => snap[c] \in Bundles
  BY DEF CallersInv, TypeOK
<1> USE DEF TypeOK, provider, redis, database, runtime, rest, Goto, Return, CallerSteps, Fault
<1>3. ASSUME NEW c \in Callers, LoadTokens(c) PROVE TypeOK'
  BY <1>1, <1>3 DEF LoadTokens
<1>4. ASSUME NEW c \in Callers, Operate(c, "call", "lock") PROVE TypeOK'
  BY <1>2, <1>4 DEF Operate
<1>5. ASSUME NEW c \in Callers, Operate(c, "retry", "count") PROVE TypeOK'
  BY <1>2, <1>5 DEF Operate
<1>6. ASSUME NEW c \in Callers, LockRow(c) PROVE TypeOK'
  BY <1>1, <1>6 DEF LockRow
<1>7. ASSUME NEW c \in Callers, Rotate(c) PROVE TypeOK'
  <2>1. PICK n \in Nat : NewPair(n) /\ stored' = [snap[c] EXCEPT !.csrf = n]
    BY <1>7 DEF Rotate
  <2>2. stored' \in Bundles
    BY <1>2, <1>7, <2>1 DEF Rotate, Bundles
  <2>3. rejected' \in SUBSET Bundles /\ expired' \in SUBSET Nat
    BY <2>1, NewPairKeeps
  <2> QED  BY <1>7, <2>2, <2>3 DEF Rotate
<1>8. ASSUME NEW c \in Callers, Reset(c) PROVE TypeOK'
  BY <1>1, <1>8 DEF Reset
<1>9. ASSUME NEW c \in Callers, CountFailure(c) PROVE TypeOK'
  <2>1. failures' \in 0 .. Threshold
    BY <1>1, <1>9 DEF CountFailure
  <2> QED  BY <1>9, <2>1 DEF CountFailure
<1>10. ASSUME NEW c \in Callers, Mark(c) PROVE TypeOK'
  BY <1>10 DEF Mark
<1>11. ASSUME NEW c \in Callers, OperationFails(c) PROVE TypeOK'
  BY <1>11 DEF OperationFails
<1>12. ASSUME NEW c \in Callers, RotateFails(c) PROVE TypeOK'
  BY <1>12 DEF RotateFails
<1>13. CASE Connect
  <2>1. PICK n \in Nat : /\ NewPair(n)
                         /\ LET bundle == [login |-> logins + 1, csrf |-> n] IN
                              \/ connectKey' = bundle /\ UNCHANGED otpKey
                              \/ otpKey' = bundle /\ UNCHANGED connectKey
    BY <1>13 DEF Connect
  <2>2. [login |-> logins + 1, csrf |-> n] \in Bundles
    BY DEF Bundles
  <2>3. {connectKey', otpKey', saving} \subseteq Bundles \cup {Nil}
    BY <2>1, <2>2
  <2>4. rejected' \in SUBSET Bundles /\ expired' \in SUBSET Nat
    BY <2>1, NewPairKeeps
  <2> QED  BY <1>13, <2>3, <2>4 DEF Connect
<1>14. CASE ConnectOtp  BY <1>14 DEF ConnectOtp
<1>15. CASE KeyExpires  BY <1>15 DEF KeyExpires
<1>16. CASE ReadSession  BY <1>16 DEF ReadSession
<1>17. CASE Save  BY <1>17 DEF Save
<1>18. CASE Revoke  BY <1>18 DEF Revoke
<1>19. CASE ExpirePair
  <2>1. expired' \in SUBSET Nat
    BY <1>1, <1>19 DEF ExpirePair, Bundles
  <2> QED  BY <1>19, <2>1 DEF ExpirePair
<1>20. CASE UNCHANGED vars  BY <1>20 DEF vars
<1> QED
  BY <1>3, <1>4, <1>5, <1>6, <1>7, <1>8, <1>9, <1>10, <1>11, <1>12, <1>13, <1>14, <1>15,
     <1>16, <1>17, <1>18, <1>19, <1>20 DEF Next, CallerStep

\* The row is locked from its comparison to the commit, and nobody else's new pair is one
\* that a refused caller goes on with.
LEMMA CallersStep == SessionInv /\ [Next]_vars => CallersInv'
<1> SUFFICES ASSUME TypeOK, CallersInv, [Next]_vars PROVE CallersInv'
  BY DEF SessionInv
<1>1. stored \in Bundles /\ stored # Nil /\ \A c \in Callers : c # Nil
  BY NilAssumption DEF TypeOK
<1> USE DEF provider, redis, database, runtime, rest, Goto, Return, Fault
<1>2. ASSUME NEW c \in Callers, UNCHANGED stored, rejected \subseteq rejected',
             \A d \in Callers \ {c} : pc'[d] = pc[d] /\ snap'[d] = snap[d],
             \A d \in Callers \ {c} : rowLock = d => rowLock' = d,
             pc'[c] # "idle" => snap'[c] # Nil,
             pc'[c] \in {"lock", "rotate"} => snap'[c] \in rejected',
             pc'[c] = "rotate" => rowLock' = c /\ snap'[c] = stored
      PROVE  CallersInv'
  BY <1>2 DEF CallersInv
<1>3. ASSUME NEW c \in Callers, LoadTokens(c) PROVE CallersInv'
  BY <1>1, <1>2, <1>3 DEF LoadTokens, TypeOK
<1>4. ASSUME NEW c \in Callers, Operate(c, "call", "lock") \/ Operate(c, "retry", "count")
      PROVE  CallersInv'
  <2>1. pc'[c] \in {"reset", "lock", "count"} /\ snap' = snap /\ snap[c] # Nil
        /\ (pc'[c] = "lock" => snap[c] \in rejected')
    BY <1>4 DEF Operate, TypeOK, CallersInv
  <2>2. rejected \subseteq rejected' /\ UNCHANGED <<stored, rowLock>>
        /\ \A d \in Callers \ {c} : pc'[d] = pc[d]
    BY <1>4 DEF Operate, TypeOK
  <2> QED  BY <1>2, <2>1, <2>2
<1>5. ASSUME NEW c \in Callers, LockRow(c) PROVE CallersInv'
  <2>1. rowLock = Nil /\ UNCHANGED <<stored, rejected>> /\ snap'[c] = stored
    BY <1>5 DEF LockRow, TypeOK
  <2>2. \A d \in Callers \ {c} : pc'[d] = pc[d] /\ snap'[d] = snap[d]
    BY <1>5 DEF LockRow, TypeOK
  <2>3. \/ pc'[c] = "retry"
        \/ pc'[c] = "rotate" /\ rowLock' = c /\ snap[c] = stored
    BY <1>5 DEF LockRow, TypeOK
  <2>4. snap[c] \in rejected
    BY <1>5 DEF LockRow, CallersInv
  <2> QED  BY <1>1, <1>2, <2>1, <2>2, <2>3, <2>4
<1>6. ASSUME NEW c \in Callers, Rotate(c) PROVE CallersInv'
  <2>1. PICK n \in Nat : NewPair(n) /\ stored' = [snap[c] EXCEPT !.csrf = n]
    BY <1>6 DEF Rotate
  <2>2. \A d \in Callers : snap[d] # Nil /\ snap[d] \in rejected => snap[d] \in rejected'
    BY <2>1, NewPairKeeps
  <2>3. pc'[c] = "retry" /\ snap'[c] = stored' /\ rowLock = c
        /\ \A d \in Callers \ {c} : pc'[d] = pc[d] /\ snap'[d] = snap[d]
    BY <1>6 DEF Rotate, TypeOK, CallersInv
  <2>4. stored' \in Bundles
    BY <1>6, <2>1 DEF Rotate, CallersInv, TypeOK, Bundles
  <2>5. \A d \in Callers \ {c} : pc[d] # "rotate"
    BY <2>3 DEF CallersInv
  <2> QED  BY <2>2, <2>3, <2>4, <2>5, NilAssumption DEF CallersInv
<1>7. ASSUME NEW c \in Callers,
             Reset(c) \/ CountFailure(c) \/ Mark(c) \/ OperationFails(c) \/ RotateFails(c)
      PROVE  CallersInv'
  <2>1. pc'[c] \in {"idle", "mark", "count"} /\ (pc'[c] # "idle" => snap'[c] = snap[c])
        /\ pc[c] # "idle" /\ UNCHANGED <<stored, rejected>>
    BY <1>7 DEF Reset, CountFailure, Mark, OperationFails, RotateFails, TypeOK
  <2>2. \A d \in Callers \ {c} : pc'[d] = pc[d] /\ snap'[d] = snap[d]
    BY <1>7 DEF Reset, CountFailure, Mark, OperationFails, RotateFails, TypeOK
  <2>3. rowLock' = rowLock \/ rowLock = c
    BY <1>7 DEF Reset, CountFailure, Mark, OperationFails, RotateFails, CallersInv
  <2> QED  BY <1>2, <2>1, <2>2, <2>3 DEF CallersInv
<1>8. CASE Connect
  <2>1. PICK n \in Nat : NewPair(n)
    BY <1>8 DEF Connect
  <2>2. \A c \in Callers : snap[c] # Nil /\ snap[c] \in rejected => snap[c] \in rejected'
    BY <2>1, NewPairKeeps
  <2> QED  BY <1>8, <2>2 DEF Connect, CallersInv
<1>9. CASE Save
  <2>1. \A c \in Callers : pc[c] # "rotate"
    BY <1>1, <1>9 DEF Save, CallersInv
  <2> QED  BY <1>9, <2>1 DEF Save, CallersInv
<1>10. CASE ConnectOtp \/ KeyExpires \/ ReadSession \/ Revoke \/ ExpirePair
  BY <1>10 DEF ConnectOtp, KeyExpires, ReadSession, Revoke, ExpirePair, CallersInv
<1>11. CASE UNCHANGED vars  BY <1>11 DEF vars, CallersInv
<1> QED
  BY <1>3, <1>4, <1>5, <1>6, <1>7, <1>8, <1>9, <1>10, <1>11 DEF Next, CallerStep

\* A sign-in is stored once: the key it was read from goes when it is saved.
LEMMA SignInsStep == SessionInv /\ [Next]_vars => SignInsInv'
<1> SUFFICES ASSUME TypeOK, CallersInv, SignInsInv, [Next]_vars PROVE SignInsInv'
  BY DEF SessionInv
<1> USE DEF provider, redis, database, runtime, rest
<1>1. CASE Connect
  <2>1. PICK n \in Nat : LET bundle == [login |-> logins + 1, csrf |-> n] IN
                            \/ connectKey' = bundle /\ UNCHANGED otpKey
                            \/ otpKey' = bundle /\ UNCHANGED connectKey
    BY <1>1 DEF Connect
  <2>2. logins' = logins + 1 /\ stored' = stored /\ saving' = saving
    BY <1>1 DEF Connect
  <2>3. \A b \in Waiting \cup {stored} : b.login \in Nat /\ b.login <= logins
    BY DEF Waiting, SignInsInv, TypeOK, Bundles
  <2>4. [login |-> logins + 1, csrf |-> n] \in Bundles /\ Nil \notin Bundles /\ logins \in Nat
    BY NilAssumption DEF Bundles, TypeOK
  <2> QED  BY <2>1, <2>2, <2>3, <2>4 DEF SignInsInv, Waiting
<1>2. CASE ConnectOtp  BY <1>2 DEF ConnectOtp, SignInsInv, Waiting
<1>3. CASE KeyExpires  BY <1>3 DEF KeyExpires, SignInsInv, Waiting
<1>4. CASE ReadSession  BY <1>4 DEF ReadSession, SignInsInv, Waiting
<1>5. CASE Save  BY <1>5 DEF Save, SignInsInv, Waiting
<1>6. ASSUME NEW c \in Callers, Rotate(c) PROVE SignInsInv'
  <2>1. snap[c] = stored /\ stored \in Bundles
    BY <1>6 DEF Rotate, CallersInv, TypeOK
  <2>2. stored'.login = stored.login
    BY <1>6, <2>1 DEF Rotate, Bundles
  <2>3. UNCHANGED <<logins, connectKey, otpKey, saving>>
    BY <1>6 DEF Rotate
  <2> QED  BY <2>2, <2>3 DEF SignInsInv, Waiting
<1>7. ASSUME UNCHANGED <<logins, connectKey, otpKey, saving, stored>> PROVE SignInsInv'
  BY <1>7 DEF SignInsInv, Waiting
<1>8. CASE Revoke \/ ExpirePair  BY <1>7, <1>8 DEF Revoke, ExpirePair
<1>9. ASSUME NEW c \in Callers,
             \/ LoadTokens(c) \/ Operate(c, "call", "lock") \/ Operate(c, "retry", "count")
             \/ LockRow(c) \/ Reset(c) \/ CountFailure(c) \/ Mark(c)
             \/ OperationFails(c) \/ RotateFails(c)
      PROVE  SignInsInv'
  BY <1>7, <1>9 DEF LoadTokens, Operate, LockRow, Reset, CountFailure, Mark, OperationFails,
                    RotateFails
<1>10. CASE UNCHANGED vars  BY <1>7, <1>10 DEF vars
<1> QED
  BY <1>1, <1>2, <1>3, <1>4, <1>5, <1>6, <1>8, <1>9, <1>10 DEF Next, CallerStep

\* In every reachable state callers and sign-ins are as described above.
LEMMA SessionInvariant == Spec => []SessionInv
<1>1. Init => SessionInv
  BY SessionInit
<1>2. SessionInv /\ [Next]_vars => SessionInv'
  BY TypeStep, CallersStep, SignInsStep DEF SessionInv
<1> QED
  BY <1>1, <1>2, PTL DEF Spec

\* The session's state is well-typed, for any number of callers, sign-ins and faults.
THEOREM TypeCorrect == Spec => []TypeOK
<1>1. SessionInv => TypeOK
  BY DEF SessionInv
<1> QED
  BY <1>1, SessionInvariant, PTL

\* A step that replaces the bundle saves a user's sign-in or rotates a refused pair.
LEMMA ReplacementStep ==
  SessionInv /\ [Next]_vars =>
    [/\ stored'.login # stored.login => stored' = saving
     /\ stored'.login = stored.login /\ stored'.csrf # stored.csrf => stored \in rejected]_vars
<1> SUFFICES ASSUME TypeOK, CallersInv, SignInsInv, Next
             PROVE  /\ stored'.login # stored.login => stored' = saving
                    /\ stored'.login = stored.login /\ stored'.csrf # stored.csrf
                         => stored \in rejected
  BY DEF SessionInv
<1>1. CASE Save
  BY <1>1 DEF Save, SignInsInv, Waiting
<1>2. ASSUME NEW c \in Callers, Rotate(c)
      PROVE  stored'.login = stored.login /\ stored \in rejected
  <2>1. snap[c] = stored /\ stored \in rejected /\ stored \in Bundles
    BY <1>2 DEF Rotate, CallersInv, TypeOK
  <2> QED  BY <1>2, <2>1 DEF Rotate, Bundles
<1>3. stored' = stored \/ Save \/ \E c \in Callers : Rotate(c)
  BY DEF Next, CallerStep, LoadTokens, Operate, LockRow, Reset, CountFailure, Mark,
         OperationFails, RotateFails, Connect, ConnectOtp, KeyExpires, ReadSession, Revoke,
         ExpirePair, provider, redis, database, runtime, rest
<1> QED  BY <1>1, <1>2, <1>3

\* Whoever is late, only a saved sign-in replaces the stored one and only a refused CSRF pair
\* is rotated (try_refresh_csrf and its SELECT ... FOR UPDATE, add_vehicle, the refresh).
THEOREM OnlyRefusedRotate == Spec => OnlyRefusedPairsRotate
<1>1. SessionInv /\ [Next]_vars =>
        [/\ stored'.login # stored.login => stored' = saving
         /\ stored'.login = stored.login /\ stored'.csrf # stored.csrf
              => stored \in rejected]_vars
  BY ReplacementStep
<1> QED
  BY <1>1, SessionInvariant, PTL DEF Spec, OnlyRefusedPairsRotate

-----------------------------------------------------------------------------
(* The websocket *)

CONSTANTS Fields, QueueLength, MaxSaves
VARIABLES storedGood, heldGood, unsupported, ws, silent, counts, disabled, events, health, saves

\* The column auth_state, the bounds and the budgets have the same names in both modules.
Socket == INSTANCE RivianSocket

Kinds == {"connection_open", "connection_ack", "ws_handshake_rejected",
          "ws_handshake_failed", "ws_schema_rejected", "ws_schema_degraded", "reconnect"}

\* The health the worker shows once it has handled every event of queue q.
Settled(q, h) == IF q = <<>> THEN h ELSE Socket!HealthOf(q[Len(q)])

QueueInv == events \in Seq(Kinds)

\* Only a field Rivian refused is counted, and only one refused twice is dropped.
CountsInv ==
    /\ \A f \in Fields : counts[f] > 0 => f \in unsupported
    /\ disabled = {f \in Fields : counts[f] >= 2}

\* The last word of a loop in backoff, or waiting for its acknowledgement, is not
\* "connected".
HealthInv == ws \in {"backoff", "ack"} => Settled(events, health) # "connected"

\* What RivianSocket assumes of its constants is a part of it, so that every step has it.
SocketIInv == Socket!BoundsAssumption /\ Socket!TypeOK /\ QueueInv /\ CountsInv /\ HealthInv

-----------------------------------------------------------------------------
(* The channel *)

\* A channel is empty exactly when nothing is in it.
LEMMA EmptyChannel ==
  ASSUME NEW q \in Seq(Kinds)
  PROVE  q = <<>> <=> Len(q) = 0
BY EmptySeq

\* The messages appended last are at the end of the channel.
LEMMA AppendedLast ==
  ASSUME NEW q \in Seq(Kinds), NEW k \in Seq(Kinds), k # <<>>
  PROVE  /\ q \o k \in Seq(Kinds) /\ q \o k # <<>>
         /\ (q \o k)[Len(q \o k)] = k[Len(k)]
<1>1. Len(k) \in Nat /\ Len(k) > 0 /\ Len(q) \in Nat
  BY EmptySeq
<1>2. q \o k \in Seq(Kinds) /\ Len(q \o k) = Len(q) + Len(k)
  OBVIOUS
<1>3. (q \o k)[Len(q) + Len(k)] = k[Len(k)]
  BY <1>1
<1>4. q \o k # <<>>
  BY <1>1, <1>2
<1> QED  BY <1>2, <1>3, <1>4

\* After a message was sent, it decides what the worker will show.
LEMMA SentDecides ==
  ASSUME NEW q \in Seq(Kinds), NEW k \in Seq(Kinds), k # <<>>, NEW h
  PROVE  /\ q \o k \in Seq(Kinds)
         /\ Settled(q \o k, h) = Socket!HealthOf(k[Len(k)])
BY AppendedLast DEF Settled

\* Handling the first event does not change what the worker will show in the end.
LEMMA HandledSettles ==
  ASSUME NEW q \in Seq(Kinds), q # <<>>, NEW h
  PROVE  /\ Tail(q) \in Seq(Kinds) /\ Len(Tail(q)) < Len(q)
         /\ Settled(Tail(q), Socket!HealthOf(Head(q))) = Settled(q, h)
<1>1. Len(q) \in Nat /\ Len(q) > 0 /\ Head(q) = q[1]
  BY EmptySeq
<1>2. PICK t : t = Tail(q)
  OBVIOUS
<1>3. t \in Seq(Kinds) /\ Len(t) = Len(q) - 1
  BY <1>1, <1>2
<1>4. Settled(t, Socket!HealthOf(Head(q))) = Settled(q, h)
  <2>1. CASE Len(q) = 1
    <3>1. t = <<>>
      BY <1>3, <2>1, EmptyChannel
    <3> QED  BY <1>1, <2>1, <3>1 DEF Settled
  <2>2. CASE Len(q) > 1
    <3>1. t # <<>>
      BY <1>1, <1>3, <2>2, EmptyChannel
    <3>2. t[Len(t)] = q[Len(q)]
      BY <1>1, <1>2, <1>3, <2>2
    <3> QED  BY <1>1, <3>1, <3>2 DEF Settled
  <2>3. Len(q) = 1 \/ Len(q) > 1
    <3>1. PICK n \in Nat : n = Len(q)
      BY <1>1
    <3>2. n > 0
      BY <1>1, <3>1
    <3>3. n = 1 \/ n > 1
      BY <3>2
    <3> QED  BY <3>1, <3>3
  <2> QED  BY <2>1, <2>2, <2>3
<1>5. Len(t) < Len(q)
  BY <1>1, <1>3
<1> QED  BY <1>2, <1>3, <1>4, <1>5

\* An event leaves the worker in one of its states.
LEMMA HealthType ==
  ASSUME NEW e
  PROVE  /\ Socket!HealthOf(e) \in {"starting", "connected", "degraded", "error"}
         /\ Socket!AuthOf(e) \in {"authorized", "needs_reauth"}
BY DEF Socket!HealthOf, Socket!AuthOf

\* What a rejection reports.
Rejection(dropped) ==
    <<"ws_schema_rejected">> \o (IF dropped THEN <<"ws_schema_degraded">> ELSE <<>>)
        \o <<"reconnect">>

\* Whether or not it drops a field, the report of a rejection ends in "reconnect".
LEMMA RejectionEnds ==
  ASSUME NEW dropped \in BOOLEAN
  PROVE  LET k == Rejection(dropped)
         IN  k \in Seq(Kinds) /\ k # <<>> /\ k[Len(k)] = "reconnect"
<1> DEFINE more == IF dropped THEN <<"ws_schema_degraded">> ELSE <<>>
<1>1. PICK first : first = <<"ws_schema_rejected">>
  OBVIOUS
<1>2. first \in Seq(Kinds)
  BY <1>1 DEF Kinds
<1>3. more \in Seq(Kinds)
  <2>1. CASE dropped
    BY <2>1 DEF Kinds
  <2>2. CASE ~dropped
    BY <2>2 DEF Kinds
  <2> QED  BY <2>1, <2>2
<1>4. PICK report : report = first \o more
  OBVIOUS
<1> HIDE DEF more
<1>5. report \in Seq(Kinds)
  BY <1>2, <1>3, <1>4
<1>6. PICK end : end = <<"reconnect">>
  OBVIOUS
<1>7. end \in Seq(Kinds) /\ end # <<>> /\ end[Len(end)] = "reconnect"
  BY <1>6 DEF Kinds
<1>8. Rejection(dropped) = report \o end
  BY <1>1, <1>4, <1>6 DEF Rejection, more
<1> QED  BY <1>5, <1>7, <1>8, AppendedLast

-----------------------------------------------------------------------------
(* The inductive invariant *)

\* A worker starts with nothing counted and nothing to say.
LEMMA SocketInit == Socket!BoundsAssumption /\ Socket!Init => SocketIInv
<1> SUFFICES ASSUME Socket!BoundsAssumption, Socket!Init PROVE SocketIInv
  OBVIOUS
<1>1. Socket!TypeOK
  <2>1. Len(events) <= QueueLength
    BY EmptySeq DEF Socket!BoundsAssumption, Socket!Init
  <2>2. counts \in [Fields -> 0 .. 2]
    BY DEF Socket!Init
  <2> QED  BY <2>1, <2>2 DEF Socket!Init, Socket!TypeOK
<1>2. QueueInv
  BY EmptySeq DEF Socket!Init, QueueInv
<1>3. CountsInv
  BY DEF Socket!Init, CountsInv
<1>4. HealthInv
  BY DEF Socket!Init, HealthInv
<1> QED  BY <1>1, <1>2, <1>3, <1>4 DEF SocketIInv

\* What a step does to the channel: nothing, one message of the loop, or one event handled.
LEMMA ChannelStep ==
  ASSUME Socket!TypeOK, QueueInv, [Socket!Next]_(Socket!vars)
  PROVE  \/ /\ events' = events
            /\ ws' \in {"ack", "backoff"} => ws' = ws /\ health' \in {health, "starting"}
         \/ /\ events # <<>> /\ events' = Tail(events) /\ health' = Socket!HealthOf(Head(events))
            /\ ws' = ws
         \/ \E k \in Seq(Kinds) :
              /\ k # <<>> /\ events' = events \o k /\ Len(events) + Len(k) <= QueueLength
              /\ ws' \in {"ack", "backoff"} => k[Len(k)] # "connection_ack"
<1>1. CASE Socket!Handshake
  <2>1. CASE heldGood
    <3>1. PICK k : k = <<"connection_open">>
      OBVIOUS
    <3>2. k \in Seq(Kinds) /\ k # <<>> /\ k[Len(k)] # "connection_ack"
      BY <3>1 DEF Kinds
    <3> QED  BY <1>1, <2>1, <3>1, <3>2 DEF Socket!Handshake, Socket!Emit
  <2>2. CASE ~heldGood
    <3>1. PICK k : k = <<"ws_handshake_rejected", "reconnect">>
      OBVIOUS
    <3>2. k \in Seq(Kinds) /\ k # <<>> /\ k[Len(k)] # "connection_ack"
      BY <3>1 DEF Kinds
    <3> QED  BY <1>1, <2>2, <3>1, <3>2 DEF Socket!Handshake, Socket!Emit
  <2> QED  BY <2>1, <2>2
<1>2. CASE Socket!HandshakeFails
  <2>1. PICK k : k = <<"ws_handshake_failed", "reconnect">>
    OBVIOUS
  <2>2. k \in Seq(Kinds) /\ k # <<>> /\ k[Len(k)] # "connection_ack"
    BY <2>1 DEF Kinds
  <2> QED  BY <1>2, <2>1, <2>2 DEF Socket!HandshakeFails, Socket!Emit
<1>3. CASE Socket!Acknowledge
  <2>1. PICK k : k = <<"connection_ack">>
    OBVIOUS
  <2>2. k \in Seq(Kinds) /\ k # <<>>
    BY <2>1 DEF Kinds
  <2> QED  BY <1>3, <2>1, <2>2 DEF Socket!Acknowledge, Socket!Emit
<1>4. CASE Socket!Reject
  <2>1. PICK k : k = Rejection(disabled' # disabled)
    OBVIOUS
  <2>2. k \in Seq(Kinds) /\ k # <<>> /\ k[Len(k)] = "reconnect"
    BY <2>1, RejectionEnds
  <2>3. Socket!Emit(k)
    BY <1>4, <2>1 DEF Socket!Reject, Rejection
  <2> QED  BY <2>2, <2>3 DEF Socket!Emit
<1>5. CASE Socket!SocketFails
  <2>1. PICK k : k = <<"reconnect">>
    OBVIOUS
  <2>2. k \in Seq(Kinds) /\ k # <<>> /\ k[Len(k)] # "connection_ack"
    BY <2>1 DEF Kinds
  <2> QED  BY <1>5, <2>1, <2>2 DEF Socket!SocketFails, Socket!Emit
<1>6. CASE Socket!HandleControl
  BY <1>6 DEF Socket!HandleControl, Socket!loop
<1>7. CASE ~(Socket!Handshake \/ Socket!HandshakeFails \/ Socket!Acknowledge
     \/ Socket!Reject \/ Socket!SocketFails
             \/ Socket!HandleControl)
  <2>1. \/ Socket!Load \/ Socket!Subscribe \/ Socket!BackoffEnds \/ Socket!LoadFails
       \/ Socket!SocketExpires \/ Socket!GoesSilent
        \/ Socket!Watchdog \/ Socket!TaskPanics \/ Socket!Expire \/ Socket!Renew
             \/ Socket!Save \/ UNCHANGED Socket!vars
    BY <1>7 DEF Socket!Next, Socket!LoopStep
  <2> QED  BY <2>1 DEF Socket!Load, Socket!Subscribe, Socket!BackoffEnds, Socket!LoadFails,
                       Socket!SocketExpires, Socket!GoesSilent,
             Socket!Watchdog, Socket!TaskPanics, Socket!NewLoop, Socket!Expire, Socket!Renew,
                  Socket!Save, Socket!vars, Socket!loop, Socket!runtime
<1> QED  BY <1>1, <1>2, <1>3, <1>4, <1>5, <1>6, <1>7

\* Every step keeps the channel within its capacity and its messages in their kinds.
LEMMA QueueStep ==
  ASSUME Socket!BoundsAssumption, Socket!TypeOK, QueueInv, [Socket!Next]_(Socket!vars)
  PROVE  QueueInv' /\ Len(events') <= QueueLength
<1>1. CASE events' = events
  BY <1>1 DEF Socket!TypeOK, QueueInv
<1>2. CASE events # <<>> /\ events' = Tail(events)
  <2>1. events' \in Seq(Kinds) /\ Len(events') < Len(events)
    BY <1>2, HandledSettles DEF QueueInv
  <2> QED  BY <2>1 DEF Socket!BoundsAssumption, Socket!TypeOK, QueueInv
<1>3. ASSUME NEW k \in Seq(Kinds), events' = events \o k, Len(events) + Len(k) <= QueueLength
      PROVE  QueueInv' /\ Len(events') <= QueueLength
  BY <1>3 DEF QueueInv
<1> QED  BY <1>1, <1>2, <1>3, ChannelStep

\* A rejection counts a field at most twice, and every field it counts is refused.
LEMMA RejectCounts ==
  ASSUME Socket!TypeOK, CountsInv, Socket!Reject
  PROVE  counts' \in [Fields -> 0 .. 2] /\ disabled' \in SUBSET Fields /\ CountsInv'
<1>1. PICK named \in (SUBSET Socket!Refused) \ {{}} :
         counts' = [f \in Fields |-> IF f \in named /\ counts[f] < 2
                                     THEN counts[f] + 1 ELSE counts[f]]
  BY DEF Socket!Reject
<1>2. named \subseteq unsupported
  BY DEF Socket!Refused
<1>3. disabled' = {f \in Fields : counts'[f] >= 2} /\ unsupported' = unsupported
  BY DEF Socket!Reject, Socket!tokens
<1>4. \A f \in Fields : counts[f] \in 0 .. 2
  BY DEF Socket!TypeOK
<1>5. counts' \in [Fields -> 0 .. 2]
  BY <1>1, <1>4
<1>6. \A f \in Fields : counts'[f] > 0 => f \in unsupported
  <2> SUFFICES ASSUME NEW f \in Fields, counts'[f] > 0 PROVE f \in unsupported
    OBVIOUS
  <2>1. CASE f \in named
    BY <1>2, <2>1
  <2>2. CASE f \notin named
    <3>1. counts[f] > 0
      BY <1>1, <2>2
    <3> QED  BY <3>1 DEF CountsInv
  <2> QED  BY <2>1, <2>2
<1> QED  BY <1>3, <1>5, <1>6 DEF CountsInv

\* The steps other than a rejection keep the counts, or begin a new loop with none.
LEMMA CountsStand ==
  ASSUME [Socket!Next]_(Socket!vars), ~Socket!Reject
  PROVE  /\ unsupported' = unsupported
         /\ \/ counts' = counts /\ disabled' = disabled
            \/ counts' = [f \in Fields |-> 0] /\ disabled' = {}
<1>1. CASE Socket!LoopStep
  BY <1>1 DEF Socket!LoopStep, Socket!Load, Socket!Handshake, Socket!Acknowledge,
              Socket!Subscribe, Socket!BackoffEnds, Socket!tokens, Socket!loop
<1>2. CASE ~Socket!LoopStep
  <2>1. \/ Socket!LoadFails \/ Socket!HandshakeFails \/ Socket!SocketFails
       \/ Socket!SocketExpires \/ Socket!GoesSilent
        \/ Socket!Watchdog \/ Socket!TaskPanics \/ Socket!HandleControl \/ Socket!Expire
             \/ Socket!Renew \/ Socket!Save
        \/ UNCHANGED Socket!vars
    BY <1>2 DEF Socket!Next
  <2> QED  BY <2>1 DEF Socket!LoadFails, Socket!HandshakeFails, Socket!SocketFails,
                       Socket!SocketExpires, Socket!GoesSilent,
             Socket!Watchdog, Socket!TaskPanics, Socket!HandleControl, Socket!Expire,
                  Socket!Renew, Socket!Save, Socket!NewLoop, Socket!vars, Socket!tokens,
                       Socket!loop
<1> QED  BY <1>1, <1>2

\* Every step counts only fields Rivian refuses, and drops only those refused twice.
LEMMA CountsStep ==
  ASSUME Socket!TypeOK, CountsInv, [Socket!Next]_(Socket!vars)
  PROVE  counts' \in [Fields -> 0 .. 2] /\ disabled' \in SUBSET Fields /\ CountsInv'
<1>1. CASE Socket!Reject
  BY <1>1, RejectCounts
<1>2. CASE ~Socket!Reject /\ counts' = counts /\ disabled' = disabled
  BY <1>2, CountsStand DEF Socket!TypeOK, CountsInv
<1>3. CASE ~Socket!Reject /\ counts' = [f \in Fields |-> 0] /\ disabled' = {}
  BY <1>3, CountsStand DEF CountsInv
<1> QED  BY <1>1, <1>2, <1>3, CountsStand

\* Every step leaves the loop, the worker and the stored bundle in one of their states.
LEMMA StatesStep ==
  ASSUME Socket!TypeOK, [Socket!Next]_(Socket!vars)
  PROVE  /\ storedGood' \in BOOLEAN /\ heldGood' \in BOOLEAN /\ unsupported' \in SUBSET Fields
         /\ ws' \in {"load", "connect", "ack", "subscribe", "open", "backoff", "unread"}
         /\ silent' \in BOOLEAN
         /\ health' \in {"starting", "connected", "degraded", "error", "stale"}
         /\ auth' \in {"authorized", "needs_reauth"}
<1> USE DEF Socket!TypeOK, Socket!tokens, Socket!loop, Socket!runtime, Socket!NewLoop
<1>1. CASE Socket!LoopStep
  BY <1>1 DEF Socket!LoopStep, Socket!Load, Socket!Handshake, Socket!Acknowledge,
              Socket!Subscribe, Socket!Reject, Socket!BackoffEnds
<1>2. CASE Socket!HandleControl
  BY <1>2, HealthType DEF Socket!HandleControl
<1>3. CASE ~Socket!LoopStep /\ ~Socket!HandleControl
  <2>1. \/ Socket!LoadFails \/ Socket!HandshakeFails \/ Socket!SocketFails
       \/ Socket!SocketExpires \/ Socket!GoesSilent
        \/ Socket!Watchdog \/ Socket!TaskPanics \/ Socket!Expire \/ Socket!Renew
             \/ Socket!Save \/ UNCHANGED Socket!vars
    BY <1>3 DEF Socket!Next
  <2> QED  BY <2>1, ZenonT(30) DEF Socket!LoadFails, Socket!HandshakeFails, Socket!SocketFails,
                       Socket!SocketExpires, Socket!GoesSilent,
             Socket!Watchdog, Socket!TaskPanics, Socket!Expire, Socket!Renew, Socket!Save,
                  Socket!vars
<1> QED  BY <1>1, <1>2, <1>3

\* Every step spends at most one of each budget.
LEMMA BudgetStep ==
  ASSUME Socket!TypeOK, [Socket!Next]_(Socket!vars)
  PROVE  expiries' \in Nat /\ saves' \in Nat /\ faults' \in Nat
<1>1. UNCHANGED Socket!budgets \/ Socket!Fault \/ Socket!Expire \/ Socket!Save
  <2>1. CASE Socket!LoopStep
    BY <2>1 DEF Socket!LoopStep, Socket!Load, Socket!Handshake, Socket!Acknowledge,
                Socket!Subscribe, Socket!Reject, Socket!BackoffEnds
  <2>2. CASE ~Socket!LoopStep
    BY <2>2 DEF Socket!Next, Socket!LoadFails, Socket!HandshakeFails, Socket!SocketFails,
                Socket!SocketExpires, Socket!GoesSilent,
       Socket!Watchdog, Socket!TaskPanics, Socket!HandleControl, Socket!Renew, Socket!vars
  <2> QED  BY <2>1, <2>2
<1> QED  BY <1>1 DEF Socket!budgets, Socket!Fault, Socket!Expire, Socket!Save, Socket!TypeOK

\* A loop enters backoff, or a handshake, only with an event that does not end in
\* "connected", and nothing but the loop's next report changes that.
LEMMA HealthStep ==
  ASSUME Socket!TypeOK, QueueInv, HealthInv, [Socket!Next]_(Socket!vars)
  PROVE  HealthInv'
<1> SUFFICES ASSUME ws' \in {"backoff", "ack"}
             PROVE  Settled(events', health') # "connected"
  BY DEF HealthInv
<1>1. CASE events # <<>> /\ events' = Tail(events) /\ health' = Socket!HealthOf(Head(events))
           /\ ws' = ws
  BY <1>1, HandledSettles DEF QueueInv, HealthInv
<1>2. ASSUME NEW k \in Seq(Kinds), k # <<>>, events' = events \o k,
             k[Len(k)] # "connection_ack"
      PROVE  Settled(events', health') # "connected"
  <2>1. Settled(events', health') = Socket!HealthOf(k[Len(k)])
    BY <1>2, SentDecides DEF QueueInv
  <2> QED  BY <1>2, <2>1 DEF Socket!HealthOf
<1>3. CASE events' = events /\ ws' = ws /\ health' \in {health, "starting"}
  <2>1. CASE events = <<>>
    BY <1>3, <2>1 DEF HealthInv, Settled
  <2>2. CASE events # <<>>
    BY <1>3, <2>2 DEF HealthInv, Settled
  <2> QED  BY <2>1, <2>2
<1> QED  BY <1>1, <1>2, <1>3, ChannelStep

-----------------------------------------------------------------------------
(* The theorems *)

\* Every step preserves the inductive invariant.
LEMMA SocketStep == SocketIInv /\ [Socket!Next]_(Socket!vars) => SocketIInv'
<1> SUFFICES ASSUME SocketIInv, [Socket!Next]_(Socket!vars) PROVE SocketIInv'
  OBVIOUS
<1> USE DEF SocketIInv
<1>1. Socket!TypeOK'
  BY StatesStep, BudgetStep, QueueStep, CountsStep DEF Socket!TypeOK
<1> QED  BY <1>1, QueueStep, CountsStep, HealthStep

\* In every reachable state the counts are of refused fields only, and the last report in
\* the channel of a loop that is not connected says so (run_ws_loop, record_rejection,
\* runtime_health_update_for_ws_control).
THEOREM SocketInvariant == Socket!BoundsAssumption => (Socket!Spec => []SocketIInv)
BY SocketInit, SocketStep, PTL DEF Socket!Spec

\* Schema healing never gives up a field Rivian still serves, and once the worker has
\* handled every event it does not show "connected" for a socket in backoff or waiting
\* for its acknowledgement (SocketInv).
THEOREM SocketHolds == Socket!BoundsAssumption => (Socket!Spec => []Socket!SocketInv)
<1>1. SocketIInv => Socket!SocketInv
  <2> SUFFICES ASSUME SocketIInv PROVE Socket!SocketInv
    OBVIOUS
  <2>1. disabled \subseteq unsupported
    BY DEF SocketIInv, CountsInv, Socket!TypeOK
  <2>2. Socket!ConnectedMeansSocket
    BY DEF SocketIInv, HealthInv, Settled, Socket!ConnectedMeansSocket
  <2> QED  BY <2>1, <2>2 DEF SocketIInv, Socket!SocketInv, Socket!OnlyRefusedFieldsDropped
<1> QED  BY <1>1, SocketInvariant, PTL

-----------------------------------------------------------------------------
(* The browser *)

CONSTANTS Tabs, SignOut, Clear
VARIABLES live, jar, tab, req, crowded, left

\* The count of sign-ins, the bounds and Nil have the same names in both modules.
Browser == INSTANCE BrowserSession


-----------------------------------------------------------------------------
(* The browser: the inductive invariant *)

InFlight(t) == req[t] # Nil
IssuingCall(t, login) == InFlight(t) /\ req[t].stage = "issuing" /\ req[t].cookie.login = login

\* Nobody has a token of a sign-in that is still to come, a token is being replaced only for a
\* cookie, and the cookie of a sign-out is one of the sign-ins it ends.
OriginInv ==
    /\ \A token \in live : token.login <= logins
    /\ jar # Nil => jar.login <= logins
    /\ \A t \in Browser!Calls : InFlight(t) =>
         /\ req[t].stage = "issuing" => req[t].cookie # Nil
         /\ req[t].cookie # Nil => req[t].cookie.login <= logins
         /\ req[t].set \notin {Clear, Nil} => req[t].set.login <= logins
         /\ req[t].kind = "logout" /\ req[t].cookie # Nil => req[t].cookie.login \in left

\* A token and a successor being issued, two of either: a sign-in never has both.
Unique(login) ==
    /\ \A x, y \in live : x.login = login /\ y.login = login => x = y
    /\ \A t, u \in Browser!Calls : IssuingCall(t, login) /\ IssuingCall(u, login) => t = u
    /\ \A x \in live, t \in Browser!Calls : ~(x.login = login /\ IssuingCall(t, login))
Alive(login) == \/ \E x \in live : x.login = login
                \/ \E t \in Browser!Calls : IssuingCall(t, login)
TokensInv ==
    \A login \in 1 .. logins :
        Unique(login) /\ (faults = 0 /\ login \notin left => Alive(login))

\* While nothing has overlapped or failed, at most one request is in flight, it has the
\* cookie of the jar and brings its successor; without one the jar has the live token.
Undisturbed == ~crowded /\ faults = 0 /\ left = {}
JarInv ==
    Undisturbed =>
        /\ \A t \in Tabs : tab[t] # "login"
        /\ (\A t \in Browser!Calls : ~InFlight(t)) => jar \in live
        /\ \A t \in Browser!Calls : InFlight(t) =>
             /\ \A u \in Browser!Calls \ {t} : ~InFlight(u)
             /\ req[t].kind # "logout"
             /\ req[t].stage = "sent" => req[t].cookie = jar /\ jar \in live
             /\ req[t].stage = "replied" => req[t].reply = "ok" /\ req[t].set \in live

\* What BrowserSession assumes of its constants is a part of the invariant, so that every step
\* has it.
Assumed == Browser!BoundsAssumption /\ Browser!TabsAssumption /\ Browser!NilAssumption
BrowserInv == Assumed /\ Browser!TypeOK /\ OriginInv /\ TokensInv /\ JarInv

\* A set is counted in the instance as it is here.
LEMMA SameCount == \A S : Browser!Cardinality(S) = Cardinality(S)
  BY DEF Browser!Cardinality, Cardinality

-----------------------------------------------------------------------------
(* The browser: requests *)

\* What a tab sends is a request.
LEMMA SentIsRequest ==
  ASSUME NEW kind \in {"bootstrap", "refresh", "logout"}, NEW cookie \in Browser!Token \cup {Nil}
  PROVE  Browser!Sent(kind, cookie) \in Browser!Request
  BY DEF Browser!Sent, Browser!Request

\* What a reply does to the jar.
LEMMA JarType ==
  ASSUME Assumed, jar \in Browser!Token \cup {Nil}, NEW set \in Browser!Token \cup {Clear, Nil}
  PROVE  /\ Browser!Jar(set) \in Browser!Token \cup {Nil}
         /\ set \in Browser!Token => Browser!Jar(set) = set
         /\ Browser!Jar(set) \in {Nil, jar, set} /\ (Browser!Jar(set) = Nil
              \/ Browser!Jar(set) = jar \/ set \in Browser!Token)
  BY DEF Assumed, Browser!NilAssumption, Browser!Jar

\* Handling a reply: the tab waits on only for a recovery, and its request is a new one.
LEMMA HandleType ==
  ASSUME Assumed, Browser!TypeOK, NEW t \in Browser!Calls, InFlight(t),
       NEW set \in Browser!Token \cup {Clear, Nil}, NEW reply,
         Browser!Handle(t, reply, set)
  PROVE  /\ tab' \in [Tabs -> Browser!Waiting \cup Browser!Settled \cup {"closed"}]
         /\ req' \in [Browser!Calls -> Browser!Request \cup {Nil}] /\ crowded' \in BOOLEAN
         /\ jar' = Browser!Jar(set) /\ jar' \in Browser!Token \cup {Nil}
         /\ \A u \in Browser!Calls \ {t} : req'[u] = req[u]
         /\ \A u \in Tabs \ {t} : tab'[u] = tab[u]
         /\ req'[t] \in {Nil, Browser!Sent("bootstrap", jar')}
         /\ t \in Tabs => tab'[t] = Browser!NextPage(t, req[t].kind, reply)
<1> DEFINE page == Browser!NextPage(t, req[t].kind, reply)
<1>1. t \in Tabs => page \in Browser!Waiting \cup Browser!Settled \cup {"closed"}
  BY DEF Browser!NextPage, Browser!TypeOK, Browser!Waiting, Browser!Settled
<1>0. tab' = IF t \in Tabs THEN [tab EXCEPT ![t] = page] ELSE tab
  BY DEF Browser!Handle
<1>2. jar' = Browser!Jar(set) /\ jar' \in Browser!Token \cup {Nil}
  BY JarType DEF Browser!Handle, Browser!TypeOK
<1>3. Browser!Sent("bootstrap", jar') \in Browser!Request
  BY <1>2, SentIsRequest
<1>4. \E r \in {Nil, Browser!Sent("bootstrap", jar')} : req' = [req EXCEPT ![t] = r]
  BY <1>2 DEF Browser!Handle
<1>5. req' \in [Browser!Calls -> Browser!Request \cup {Nil}]
      /\ (\A u \in Browser!Calls \ {t} : req'[u] = req[u])
      /\ req'[t] \in {Nil, Browser!Sent("bootstrap", jar')}
  BY <1>3, <1>4 DEF Browser!TypeOK
<1>6. crowded' \in BOOLEAN
  BY DEF Browser!Handle, Browser!TypeOK
<1> HIDE DEF page
<1>7. tab' \in [Tabs -> Browser!Waiting \cup Browser!Settled \cup {"closed"}]
      /\ (\A u \in Tabs \ {t} : tab'[u] = tab[u]) /\ (t \in Tabs => tab'[t] = page)
  BY <1>0, <1>1 DEF Browser!TypeOK
<1> QED  BY <1>2, <1>5, <1>6, <1>7 DEF page

\* An answer keeps the request's kind; the cookie is spent.
LEMMA AnswerType ==
  ASSUME Assumed, Browser!TypeOK, NEW t \in Browser!Calls, InFlight(t),
         NEW reply \in {"ok", "none", "error", Nil},
         NEW set \in Browser!Token \cup {Clear, Nil}, Browser!Answer(t, reply, set)
  PROVE  /\ req' \in [Browser!Calls -> Browser!Request \cup {Nil}]
         /\ \A u \in Browser!Calls \ {t} : req'[u] = req[u]
         /\ req'[t] # Nil /\ req'[t].stage = "replied" /\ req'[t].set = set
         /\ req'[t].kind = req[t].kind /\ req'[t].cookie = Nil
         /\ req'[t].reply = reply
<1>1. req[t] \in Browser!Request
  BY DEF Browser!TypeOK, InFlight
<1> DEFINE r == [req[t] EXCEPT !.cookie = Nil, !.stage = "replied", !.reply = reply, !.set = set]
<1>2. r \in Browser!Request /\ r.stage = "replied" /\ r.set = set /\ r.reply = reply
      /\ r.kind = req[t].kind /\ r.cookie = Nil
  BY <1>1 DEF Browser!Request
<1>3. req' = [req EXCEPT ![t] = r]
  BY DEF Browser!Answer, Browser!Answered
<1> HIDE DEF r
<1>4. req' \in [Browser!Calls -> Browser!Request \cup {Nil}] /\ req'[t] = r
      /\ \A u \in Browser!Calls \ {t} : req'[u] = req[u]
  BY <1>2, <1>3 DEF Browser!TypeOK
<1> QED  BY <1>2, <1>4 DEF Assumed, Browser!NilAssumption

\* Sending from a tab that waits for nothing.
LEMMA SendType ==
  ASSUME Assumed, Browser!TypeOK, NEW t \in Browser!Calls, NEW kind \in {"bootstrap", "refresh",
       "logout"}, Browser!Send(t, kind)
  PROVE  /\ req' \in [Browser!Calls -> Browser!Request \cup {Nil}] /\ crowded' \in BOOLEAN
         /\ \A u \in Browser!Calls \ {t} : req'[u] = req[u]
         /\ req'[t] = Browser!Sent(kind, jar)
<1>1. Browser!Sent(kind, jar) \in Browser!Request
  BY SentIsRequest DEF Browser!TypeOK
<1>2. req' = [req EXCEPT ![t] = Browser!Sent(kind, jar)] /\ crowded' \in BOOLEAN
  BY DEF Browser!Send, Browser!TypeOK
<1> QED  BY <1>1, <1>2 DEF Browser!TypeOK

\* A start, a refresh and a sign-out send one request, or join the one there is.
LEMMA Sends ==
  ASSUME Assumed, NEW t \in Tabs, Browser!Open(t) \/ Browser!Refresh(t) \/ Browser!Logout(t)
  PROVE  \/ UNCHANGED <<req, crowded>>
         \/ \E c \in Browser!Calls, kind \in {"bootstrap", "refresh", "logout"} :
              /\ Browser!Send(c, kind) /\ req[c] = Nil
              /\ kind = "logout" => left' = left \cup 1 .. logins
  BY DEF Browser!Open, Browser!Refresh, Browser!Logout, Browser!Calls

\* A request of another call that carries a revoked token loses it; nothing else of it changes.
Stripped(u) == /\ req[u] # Nil /\ req[u].stage = "sent"
               /\ req'[u] = [req[u] EXCEPT !.cookie = Nil]
OthersKept(t) == \A u \in Browser!Calls \ {t} : req'[u] = req[u] \/ Stripped(u)

\* What a stripped request is.
LEMMA StrippedType ==
  ASSUME Browser!TypeOK, NEW u \in Browser!Calls, Stripped(u)
  PROVE  /\ req'[u] \in Browser!Request /\ req'[u].cookie = Nil /\ req'[u].stage = "sent"
         /\ req'[u].kind = req[u].kind /\ req'[u].set = req[u].set
  BY DEF Stripped, Browser!TypeOK, Browser!Request

\* A token that is revoked leaves the live ones, and every other request that carries it.
LEMMA RevokeType ==
  ASSUME Browser!TypeOK, NEW t \in Browser!Calls, NEW r \in Browser!Request, Browser!Revoke(t, r)
  PROVE  /\ req' \in [Browser!Calls -> Browser!Request \cup {Nil}] /\ req'[t] = r
         /\ OthersKept(t) /\ live' = live \ {req[t].cookie} /\ jar' \in {jar, Nil}
<1> DEFINE f(d) == IF d = t THEN r ELSE Browser!Without(req[d], req[t].cookie)
<1>1. req' = [d \in Browser!Calls |-> f(d)] /\ live' = live \ {req[t].cookie} /\ jar' \in {jar, Nil}
  BY DEF Browser!Revoke
<1>2. ASSUME NEW u \in Browser!Calls \ {t}
      PROVE  f(u) = req[u] \/ (req[u] # Nil /\ req[u].stage = "sent"
                               /\ f(u) = [req[u] EXCEPT !.cookie = Nil])
  BY <1>2 DEF Browser!Without
<1>3. f(t) = r
  OBVIOUS
<1> HIDE DEF f
<1>4. req'[t] = r /\ \A u \in Browser!Calls : req'[u] = f(u)
  BY <1>1, <1>3
<1>5. OthersKept(t)
  BY <1>2, <1>4 DEF OthersKept, Stripped
<1>6. \A u \in Browser!Calls : req'[u] \in Browser!Request \cup {Nil}
  BY <1>4, <1>5, StrippedType DEF OthersKept, Browser!TypeOK
<1> QED  BY <1>1, <1>4, <1>5, <1>6

\* The token a request that is presented takes out of the live ones.
LEMMA PresentType ==
  ASSUME Assumed, Browser!TypeOK, NEW t \in Browser!Calls, Browser!Present(t),
         req[t].cookie \in live
  PROVE  /\ req' \in [Browser!Calls -> Browser!Request \cup {Nil}] /\ OthersKept(t)
         /\ InFlight(t) /\ req'[t] # Nil /\ req[t].stage = "sent" /\ req'[t].stage = "issuing"
         /\ req'[t].kind = req[t].kind /\ req'[t].cookie = req[t].cookie
         /\ req'[t].set = req[t].set /\ live' = live \ {req[t].cookie} /\ jar' \in {jar, Nil}
<1>1. req[t] \in Browser!Request
  BY DEF Browser!TypeOK, Browser!Present
<1> DEFINE r == [req[t] EXCEPT !.stage = "issuing"]
<1>2. r \in Browser!Request /\ r.stage = "issuing" /\ r.kind = req[t].kind
     /\ r.cookie = req[t].cookie
      /\ r.set = req[t].set
  BY <1>1 DEF Browser!Request
<1>3. Browser!Revoke(t, r) /\ req[t] # Nil /\ req[t].stage = "sent"
  BY DEF Browser!Present
<1> HIDE DEF r
<1> QED  BY <1>2, <1>3, RevokeType DEF Assumed, Browser!NilAssumption, InFlight

\* A sign-out takes its token out of the live ones and is answered.
LEMMA LogoutType ==
  ASSUME Assumed, Browser!TypeOK, NEW t \in Browser!Calls, Browser!PresentLogout(t)
  PROVE  /\ req' \in [Browser!Calls -> Browser!Request \cup {Nil}] /\ OthersKept(t)
         /\ InFlight(t) /\ req[t].stage = "sent" /\ req[t].kind = "logout"
         /\ req'[t] # Nil /\ req'[t].stage = "replied" /\ req'[t].cookie = Nil
         /\ req'[t].set = Clear /\ live' = live \ {req[t].cookie} /\ jar' \in {jar, Nil}
<1>1. req[t] \in Browser!Request
  BY DEF Browser!TypeOK, Browser!PresentLogout
<1> DEFINE r == Browser!Answered(req[t], "none", Clear)
<1>2. r \in Browser!Request /\ r.stage = "replied" /\ r.cookie = Nil /\ r.set = Clear
  BY <1>1 DEF Browser!Answered, Browser!Request
<1>3. Browser!Revoke(t, r) /\ req[t] # Nil /\ req[t].stage = "sent" /\ req[t].kind = "logout"
  BY DEF Browser!PresentLogout
<1> HIDE DEF r
<1> QED  BY <1>2, <1>3, RevokeType DEF Assumed, Browser!NilAssumption, InFlight

-----------------------------------------------------------------------------
(* The browser: the invariant holds in every reachable state *)

\* A browser that has just signed in satisfies the invariant.
LEMMA BrowserInit == Assumed /\ Browser!Init => BrowserInv
<1> SUFFICES ASSUME Assumed, Browser!Init PROVE BrowserInv
  OBVIOUS
<1>2. [login |-> 1, id |-> 1] \in Browser!Token
  BY DEF Assumed, Browser!BoundsAssumption, Browser!Token
<1>3. Browser!TypeOK
  <2>1. logins \in 1 .. MaxLogins + 1 /\ faults \in 0 .. MaxFaults
    BY DEF Assumed, Browser!BoundsAssumption, Browser!Init
  <2> QED  BY <1>2, <2>1 DEF Browser!Init, Browser!TypeOK
<1>4. OriginInv /\ JarInv
  BY DEF Browser!Init, OriginInv, JarInv, InFlight
<1>5. TokensInv
  BY DEF Browser!Init, TokensInv, Unique, Alive, IssuingCall, InFlight
<1> QED  BY <1>3, <1>4, <1>5 DEF BrowserInv

\* Every action keeps the types.
LEMMA BrowserTypeStep == Assumed /\ Browser!TypeOK /\ [Browser!Next]_(Browser!vars)
     => Browser!TypeOK'
<1> SUFFICES ASSUME Assumed, Browser!TypeOK, [Browser!Next]_(Browser!vars) PROVE Browser!TypeOK'
  OBVIOUS
<1>1. MaxLogins \in Nat /\ MaxFaults \in Nat
  BY DEF Assumed, Browser!BoundsAssumption
<1> USE DEF Browser!TypeOK
<1>2. ASSUME NEW t \in Tabs, Browser!Open(t) \/ Browser!Refresh(t)
     \/ Browser!Logout(t) PROVE Browser!TypeOK'
  <2>2. req' \in [Browser!Calls -> Browser!Request \cup {Nil}] /\ crowded' \in BOOLEAN
    BY <1>2, Sends, SendType
  <2>3. tab' \in [Tabs -> Browser!Waiting \cup Browser!Settled \cup {"closed"}]
    BY <1>2 DEF Browser!Open, Browser!Refresh, Browser!Logout, Browser!Goto, Browser!Waiting,
                Browser!Settled
  <2>4. UNCHANGED <<live, jar, logins, faults>> /\ left' \subseteq 1 .. logins
    BY <1>2 DEF Browser!Open, Browser!Refresh, Browser!Logout
  <2> QED  BY <2>2, <2>3, <2>4
<1>3. ASSUME NEW t \in Tabs, Browser!AccessExpires(t) PROVE Browser!TypeOK'
  BY <1>3 DEF Browser!AccessExpires, Browser!Goto, Browser!Settled
<1>4. ASSUME NEW t \in Tabs, Browser!Login(t) PROVE Browser!TypeOK'
  <2>1. logins' \in 1 .. MaxLogins + 1 /\ left' \subseteq 1 .. logins'
    BY <1>1, <1>4 DEF Browser!Login
  <2>2. live' \subseteq Browser!Token /\ jar' \in Browser!Token
    BY <1>4 DEF Browser!Login
  <2>3. tab' \in [Tabs -> Browser!Waiting \cup Browser!Settled \cup {"closed"}]
    BY <1>4 DEF Browser!Login, Browser!Goto, Browser!Settled
  <2> QED  BY <1>4, <2>1, <2>2, <2>3 DEF Browser!Login
<1>5. ASSUME NEW t \in Browser!Calls, InFlight(t),
     Browser!Refuse(t) PROVE req' \in [Browser!Calls -> Browser!Request \cup {Nil}]
  BY <1>5, AnswerType DEF Browser!Refuse
<1>6. ASSUME NEW t \in Browser!Calls, Browser!Present(t) PROVE Browser!TypeOK'
  <2>1. CASE req[t].cookie \in live
    <3>1. UNCHANGED <<tab, logins, crowded, left, faults>>
      BY <1>6 DEF Browser!Present
    <3> QED  BY <1>6, <2>1, <3>1, PresentType
  <2>2. CASE req[t].cookie \notin live
    BY <1>5, <1>6, <2>2 DEF Browser!Present, InFlight
  <2> QED  BY <2>1, <2>2
<1>7. ASSUME NEW t \in Browser!Calls, Browser!Issue(t) PROVE Browser!TypeOK'
  <2>1. PICK token \in Browser!Token : live' = live \cup {token} /\ Browser!Answer(t, "ok", token)
    BY <1>7 DEF Browser!Issue
  <2>2. req' \in [Browser!Calls -> Browser!Request \cup {Nil}]
    BY <1>7, <2>1, AnswerType DEF Browser!Issue, InFlight
  <2> QED  BY <1>7, <2>1, <2>2 DEF Browser!Issue
<1>8. ASSUME NEW t \in Browser!Calls, Browser!IssueFails(t) PROVE Browser!TypeOK'
  <2>1. InFlight(t) /\ (Browser!Answer(t, "error", Nil) \/ Browser!Refuse(t))
    BY <1>8 DEF Browser!IssueFails, InFlight
  <2>2. req' \in [Browser!Calls -> Browser!Request \cup {Nil}]
    BY <1>5, <2>1, AnswerType
  <2>3. faults' \in 0 .. MaxFaults
    BY <1>1, <1>8 DEF Browser!IssueFails, Browser!Fault
  <2> QED  BY <1>8, <2>2, <2>3 DEF Browser!IssueFails
<1>9. ASSUME NEW t \in Browser!Calls, Browser!PresentLogout(t) PROVE Browser!TypeOK'
  <2>1. UNCHANGED <<tab, logins, crowded, left, faults>>
    BY <1>9 DEF Browser!PresentLogout
  <2> QED  BY <1>9, <2>1, LogoutType
<1>10. ASSUME NEW t \in Browser!Calls, Browser!Deliver(t) PROVE Browser!TypeOK'
  <2>1. InFlight(t) /\ req[t].set \in Browser!Token \cup {Clear, Nil}
    BY <1>10 DEF Browser!Deliver, InFlight, Browser!Request
  <2>2. Browser!Handle(t, req[t].reply, req[t].set)
    BY <1>10 DEF Browser!Deliver
  <2> QED  BY <1>10, <2>1, <2>2, HandleType DEF Browser!Deliver
<1>11. ASSUME NEW t \in Browser!Calls, Browser!NetworkFails(t) PROVE Browser!TypeOK'
  <2>1. InFlight(t) /\ \E reply \in {"error", "limited"} : Browser!Handle(t, reply, Nil)
    BY <1>11 DEF Browser!NetworkFails, InFlight
  <2>2. /\ tab' \in [Tabs -> Browser!Waiting \cup Browser!Settled \cup {"closed"}]
        /\ req' \in [Browser!Calls -> Browser!Request \cup {Nil}] /\ crowded' \in BOOLEAN
        /\ jar' \in Browser!Token \cup {Nil}
    BY <2>1, HandleType
  <2>3. faults' \in 0 .. MaxFaults
    BY <1>1, <1>11 DEF Browser!NetworkFails, Browser!Fault
  <2> QED  BY <1>11, <2>2, <2>3 DEF Browser!NetworkFails
<1>12. CASE UNCHANGED Browser!vars
  BY <1>12 DEF Browser!vars
<1> QED
  BY <1>2, <1>3, <1>4, <1>6, <1>7, <1>8, <1>9, <1>10, <1>11, <1>12 DEF Browser!Next,
       Browser!Progress

\* Tokens, cookies and replies come from sign-ins there have been.
LEMMA OriginStep == Assumed /\ Browser!TypeOK /\ OriginInv /\ [Browser!Next]_(Browser!vars)
     => OriginInv'
<1> SUFFICES ASSUME Assumed, Browser!TypeOK, OriginInv,
     [Browser!Next]_(Browser!vars) PROVE OriginInv'
  OBVIOUS
<1>1. logins \in Nat /\ logins >= 1 /\ Nil \notin Browser!Token
     /\ Clear \notin Browser!Token /\ Nil # Clear
  BY DEF Assumed, Browser!BoundsAssumption, Browser!NilAssumption, Browser!TypeOK
<1> DEFINE Fits(r, ended) ==
             /\ r.stage = "issuing" => r.cookie # Nil
             /\ r.cookie # Nil => r.cookie.login <= logins
             /\ r.set \notin {Clear, Nil} => r.set.login <= logins
             /\ r.kind = "logout" /\ r.cookie # Nil => r.cookie.login \in ended
<1>2. /\ \A u \in Browser!Calls : req[u] # Nil => Fits(req[u], left)
      /\ \A token \in live : token.login <= logins
      /\ jar # Nil => jar.login <= logins
  BY DEF OriginInv, InFlight
<1>3. ASSUME logins' = logins, left \subseteq left',
             \A token \in live' : token.login <= logins,
             jar' # Nil => jar'.login <= logins,
             NEW t \in Browser!Calls, OthersKept(t), req'[t] # Nil => Fits(req'[t], left')
      PROVE  OriginInv'
  <2>1. ASSUME NEW u \in Browser!Calls \ {t}, req'[u] # Nil PROVE Fits(req'[u], left')
    <3>1. CASE req'[u] = req[u]
      BY <1>2, <1>3, <2>1, <3>1
    <3>2. CASE Stripped(u)
      BY <1>2, <2>1, <3>2, StrippedType DEF Stripped
    <3> QED  BY <1>3, <2>1, <3>1, <3>2 DEF OthersKept
  <2>2. \A u \in Browser!Calls : req'[u] # Nil => Fits(req'[u], left')
    <3> HIDE DEF Fits
    <3> QED  BY <1>3, <2>1
  <2> QED  BY <1>3, <2>2 DEF OriginInv, InFlight
<1>4. ASSUME NEW t \in Tabs, Browser!Open(t) \/ Browser!Refresh(t)
     \/ Browser!Logout(t) PROVE OriginInv'
  <2>3. UNCHANGED <<live, jar, logins>> /\ left \subseteq left'
    BY <1>4 DEF Browser!Open, Browser!Refresh, Browser!Logout
  <2>4. jar # Nil => jar.login \in 1 .. logins
    BY <1>1, <1>2 DEF Browser!TypeOK, Browser!Token
  <2>5. ASSUME NEW c \in Browser!Calls, NEW kind \in {"bootstrap", "refresh", "logout"},
               Browser!Send(c, kind), kind = "logout" => left' = left \cup 1 .. logins
        PROVE  OriginInv'
    <3>1. req'[c] = Browser!Sent(kind, jar) /\ \A u \in Browser!Calls \ {c} : req'[u] = req[u]
      BY <2>5, SendType
    <3>2. Fits(Browser!Sent(kind, jar), left')
      BY <2>4, <2>5, <1>2 DEF Browser!Sent
    <3> HIDE DEF Fits
    <3> QED  BY <1>2, <1>3, <2>3, <3>1, <3>2 DEF OthersKept
  <2>6. CASE UNCHANGED req
    BY <1>2, <2>3, <2>6 DEF OriginInv, InFlight
  <2> QED  BY <1>4, <2>5, <2>6, Sends
<1>5. ASSUME NEW t \in Tabs, Browser!AccessExpires(t) PROVE OriginInv'
  BY <1>5 DEF Browser!AccessExpires, OriginInv, InFlight
<1>6. ASSUME NEW t \in Tabs, Browser!Login(t) PROVE OriginInv'
  <2>1. PICK token \in Browser!Token : token.login = logins + 1 /\ live' = live \cup {token}
       /\ jar' = token
    BY <1>6 DEF Browser!Login
  <2>2. logins' = logins + 1 /\ req' = req /\ left' = left
    BY <1>6 DEF Browser!Login
  <2>3. \A x \in Browser!Token : x.login \in Nat
    BY <1>1 DEF Assumed, Browser!BoundsAssumption, Browser!Token
  <2>4. \A x \in live' : x.login <= logins'
    BY <1>1, <1>2, <2>1, <2>2, <2>3 DEF Browser!TypeOK
  <2>5. \A u \in Browser!Calls : req[u] # Nil =>
          /\ req[u].cookie # Nil => req[u].cookie.login <= logins'
          /\ req[u].set \notin {Clear, Nil} => req[u].set.login <= logins'
    <3>1. \A u \in Browser!Calls : req[u] # Nil => req[u] \in Browser!Request
      BY DEF Browser!TypeOK
    <3>2. \A u \in Browser!Calls : req[u] # Nil =>
            /\ req[u].cookie # Nil => req[u].cookie \in Browser!Token
            /\ req[u].set \notin {Clear, Nil} => req[u].set \in Browser!Token
      BY <3>1 DEF Browser!Request
    <3> QED  BY <1>1, <1>2, <2>2, <2>3, <3>2
  <2>6. jar'.login <= logins'
    BY <1>1, <2>1, <2>2
  <2> QED  BY <1>2, <2>2, <2>4, <2>5, <2>6 DEF OriginInv, InFlight
<1>7. ASSUME NEW t \in Browser!Calls, InFlight(t), NEW reply \in {"ok", "none", "error", Nil},
             NEW set \in Browser!Token \cup {Clear, Nil}, Browser!Answer(t, reply, set),
             set \notin {Clear, Nil} => set.login <= logins
      PROVE  (\A u \in Browser!Calls \ {t} : req'[u] = req[u]) /\ Fits(req'[t], left)
  BY <1>2, <1>7, AnswerType DEF InFlight
<1>8. ASSUME NEW t \in Browser!Calls, InFlight(t), Browser!Refuse(t)
      PROVE  (\A u \in Browser!Calls \ {t} : req'[u] = req[u]) /\ Fits(req'[t], left)
  <2>1. \E set \in {Clear, Nil} : Browser!Answer(t, "none", set)
    BY <1>8 DEF Browser!Refuse
  <2> HIDE DEF Fits
  <2> QED  BY <1>7, <1>8, <2>1
<1>9. ASSUME NEW t \in Browser!Calls, Browser!Present(t) PROVE OriginInv'
  <2>1. UNCHANGED <<logins, left>> /\ InFlight(t)
    BY <1>9 DEF Browser!Present, InFlight
  <2>2. /\ OthersKept(t) /\ jar' \in {jar, Nil} /\ live' \subseteq live
        /\ req'[t] # Nil => Fits(req'[t], left)
    <3>1. CASE req[t].cookie \in live
      <4>1. req[t].cookie # Nil  BY <1>1, <3>1 DEF Browser!TypeOK
      <4>2. Fits(req'[t], left)
        BY <1>2, <1>9, <2>1, <3>1, <4>1, PresentType DEF InFlight
      <4> HIDE DEF Fits
      <4> QED  BY <1>9, <3>1, <4>2, PresentType
    <3>2. CASE req[t].cookie \notin live
      <4>1. Browser!Refuse(t) /\ UNCHANGED <<live, jar>>
        BY <1>9, <3>2 DEF Browser!Present
      <4> HIDE DEF Fits
      <4> QED  BY <1>8, <2>1, <4>1 DEF OthersKept
    <3> QED  BY <3>1, <3>2
  <2> HIDE DEF Fits
  <2> QED  BY <1>2, <1>3, <2>1, <2>2
<1>10. ASSUME NEW t \in Browser!Calls, Browser!Issue(t) PROVE OriginInv'
  <2>1. PICK token \in Browser!Token : /\ token.login = req[t].cookie.login
                               /\ live' = live \cup {token} /\ Browser!Answer(t, "ok", token)
    BY <1>10 DEF Browser!Issue
  <2>2. InFlight(t) /\ UNCHANGED <<jar, logins, left>>
    BY <1>10 DEF Browser!Issue, InFlight
  <2>3. token.login <= logins
    BY <1>2, <1>10, <2>1 DEF Browser!Issue
  <2>4. (\A u \in Browser!Calls \ {t} : req'[u] = req[u]) /\ Fits(req'[t], left)
    <3> HIDE DEF Fits
    <3> QED  BY <1>7, <2>1, <2>2, <2>3
  <2>5. \A x \in live' : x.login <= logins
    BY <1>2, <2>1, <2>3
  <2> HIDE DEF Fits
  <2> QED  BY <1>2, <1>3, <2>2, <2>4, <2>5 DEF OthersKept
<1>11. ASSUME NEW t \in Browser!Calls, Browser!IssueFails(t) PROVE OriginInv'
  <2>1. InFlight(t) /\ UNCHANGED <<live, jar, logins, left>>
    BY <1>11 DEF Browser!IssueFails, InFlight
  <2>2. Browser!Answer(t, "error", Nil) \/ Browser!Refuse(t)
    BY <1>11 DEF Browser!IssueFails
  <2>3. (\A u \in Browser!Calls \ {t} : req'[u] = req[u]) /\ Fits(req'[t], left)
    <3> HIDE DEF Fits
    <3> QED  BY <1>7, <1>8, <2>1, <2>2
  <2> HIDE DEF Fits
  <2> QED  BY <1>2, <1>3, <2>1, <2>3 DEF OthersKept
<1>12. ASSUME NEW t \in Browser!Calls, InFlight(t), NEW reply,
              NEW set \in Browser!Token \cup {Clear, Nil},
              Browser!Handle(t, reply, set), UNCHANGED <<live, logins, left>>,
              set \notin {Clear, Nil} => set.login <= logins
       PROVE  OriginInv'
  <2>1. /\ jar' = Browser!Jar(set) /\ \A u \in Browser!Calls \ {t} : req'[u] = req[u]
        /\ req'[t] \in {Nil, Browser!Sent("bootstrap", jar')}
    BY <1>12, HandleType
  <2>2. jar' # Nil => jar'.login <= logins
    BY <1>1, <1>2, <1>12, <2>1, JarType DEF Browser!TypeOK
  <2>3. Fits(Browser!Sent("bootstrap", jar'), left)
    BY <2>2 DEF Browser!Sent
  <2> HIDE DEF Fits
  <2> QED  BY <1>2, <1>3, <1>12, <2>1, <2>2, <2>3 DEF OthersKept
<1>13. ASSUME NEW t \in Browser!Calls, Browser!Deliver(t) PROVE OriginInv'
  <2>1. InFlight(t) /\ req[t].set \in Browser!Token \cup {Clear, Nil}
    BY <1>13 DEF Browser!Deliver, InFlight, Browser!TypeOK, Browser!Request
  <2>2. req[t].set \notin {Clear, Nil} => req[t].set.login <= logins
    BY <1>2, <2>1 DEF InFlight
  <2> QED  BY <1>12, <1>13, <2>1, <2>2 DEF Browser!Deliver
<1>14. ASSUME NEW t \in Browser!Calls, Browser!NetworkFails(t) PROVE OriginInv'
  BY <1>12, <1>14 DEF Browser!NetworkFails, InFlight
<1>15. ASSUME NEW t \in Browser!Calls, Browser!PresentLogout(t) PROVE OriginInv'
  <2>1. UNCHANGED <<logins, left>>
    BY <1>15 DEF Browser!PresentLogout
  <2>2. Fits(req'[t], left)
    BY <1>15, LogoutType
  <2> HIDE DEF Fits
  <2> QED  BY <1>2, <1>3, <1>15, <2>1, <2>2, LogoutType
<1>16. CASE UNCHANGED Browser!vars
  BY <1>16 DEF Browser!vars, OriginInv, InFlight
<1> QED
  BY <1>4, <1>5, <1>6, <1>9, <1>10, <1>11, <1>13, <1>14, <1>15, <1>16 DEF Browser!Next,
       Browser!Progress

\* With fewer tokens and fewer successors being issued, a sign-in has at most as many.
LEMMA FewerTokens ==
  ASSUME NEW login, Unique(login), live' \subseteq live,
         \A u \in Browser!Calls : IssuingCall(u, login)' => IssuingCall(u, login)
  PROVE  Unique(login)'
  BY DEF Unique

\* Sign-ins that a step leaves alone.
LEMMA SameTokens ==
  ASSUME NEW login, Unique(login), \A x : x.login = login => (x \in live' <=> x \in live),
         \A u \in Browser!Calls : IssuingCall(u, login)' <=> IssuingCall(u, login)
  PROVE  Unique(login)' /\ (Alive(login) => Alive(login)')
  BY DEF Unique, Alive

\* A request that is being exchanged is so after the step if and only if it was before.
LEMMA SameIssuing ==
  ASSUME Browser!TypeOK, NEW t \in Browser!Calls, OthersKept(t),
         req[t] # Nil => req[t].stage # "issuing",
         req'[t] # Nil => req'[t].stage # "issuing"
  PROVE  \A u \in Browser!Calls : \A login : IssuingCall(u, login)' <=> IssuingCall(u, login)
<1>1. \A u \in Browser!Calls \ {t} : req'[u] = req[u]
                                     \/ (req[u].stage # "issuing" /\ req'[u].stage # "issuing")
  BY StrippedType DEF OthersKept, Stripped
<1> QED  BY <1>1 DEF IssuingCall, InFlight

\* The token is revoked before its successor is issued, in one statement with the question
\* whether it was valid: two tabs that present it never get a successor each.
LEMMA TokensStep == BrowserInv /\ [Browser!Next]_(Browser!vars) => TokensInv'
<1> SUFFICES ASSUME Assumed, Browser!TypeOK, OriginInv, TokensInv,
     [Browser!Next]_(Browser!vars) PROVE TokensInv'
  BY DEF BrowserInv
<1>1. logins \in Nat /\ logins >= 1 /\ Nil \notin Browser!Token
      /\ \A token \in Browser!Token : token.login \in Nat /\ token.login >= 1
  BY DEF Assumed, Browser!BoundsAssumption, Browser!NilAssumption, Browser!TypeOK, Browser!Token
<1>2. \A login \in 1 .. logins : Unique(login) /\ (faults = 0 /\ login \notin left
     => Alive(login))
  BY DEF TokensInv
<1>3. ASSUME live' = live, logins' = logins, left \subseteq left', faults' = 0 => faults = 0,
             \A u \in Browser!Calls : \A login : IssuingCall(u, login)' <=> IssuingCall(u, login)
      PROVE  TokensInv'
  BY <1>2, <1>3, SameTokens DEF TokensInv
<1>4. ASSUME NEW t \in Tabs, Browser!Open(t) \/ Browser!Refresh(t)
     \/ Browser!Logout(t) PROVE TokensInv'
  <2>1. UNCHANGED <<live, logins, faults>> /\ left \subseteq left'
    BY <1>4 DEF Browser!Open, Browser!Refresh, Browser!Logout
  <2>2. ASSUME NEW c \in Browser!Calls, NEW kind \in {"bootstrap", "refresh", "logout"},
               Browser!Send(c, kind), req[c] = Nil
        PROVE  TokensInv'
    <3>1. req'[c].stage = "sent" /\ \A u \in Browser!Calls \ {c} : req'[u] = req[u]
      BY <2>2, SendType DEF Browser!Sent
    <3> QED  BY <1>3, <2>1, <2>2, <3>1, SameIssuing DEF OthersKept
  <2>3. CASE UNCHANGED req
    BY <1>3, <2>1, <2>3 DEF IssuingCall, InFlight
  <2> QED  BY <1>4, <2>2, <2>3, Sends
<1>5. ASSUME NEW t \in Tabs, Browser!AccessExpires(t) PROVE TokensInv'
  BY <1>3, <1>5 DEF Browser!AccessExpires, IssuingCall, InFlight
<1>6. ASSUME NEW t \in Tabs, Browser!Login(t) PROVE TokensInv'
  <2>1. PICK token \in Browser!Token : token.login = logins + 1 /\ live' = live \cup {token}
    BY <1>6 DEF Browser!Login
  <2>2. logins' = logins + 1 /\ req' = req /\ left' = left /\ faults' = faults
    BY <1>6 DEF Browser!Login
  <2>3. \A u \in Browser!Calls : \A login : IssuingCall(u, login)' <=> IssuingCall(u, login)
    BY <2>2 DEF IssuingCall, InFlight
  <2>4. ASSUME NEW login \in 1 .. logins
        PROVE  Unique(login)' /\ (faults' = 0 /\ login \notin left' => Alive(login)')
    <3>1. \A x : x.login = login => (x \in live' <=> x \in live)
      BY <1>1, <2>1
    <3> QED  BY <1>2, <2>2, <2>3, <3>1, SameTokens
  <2>5. PICK n \in Nat : n = logins + 1
    BY <1>1
  <2>6. Unique(n)' /\ Alive(n)'
    <3>1. \A x \in live' : x.login = n => x = token
      <4>1. \A x \in live : x.login # n
        BY <1>1, <2>5 DEF OriginInv, Browser!TypeOK
      <4> QED  BY <2>1, <4>1
    <3>2. \A u \in Browser!Calls : ~IssuingCall(u, n)'
      <4>1. \A u \in Browser!Calls : ~IssuingCall(u, n)
        BY <1>1, <2>5 DEF IssuingCall, OriginInv, InFlight
      <4> QED  BY <2>3, <4>1
    <3>3. token \in live' /\ token.login = n
      BY <2>1, <2>5
    <3> QED  BY <3>1, <3>2, <3>3 DEF Unique, Alive
  <2>7. \A login \in 1 .. logins' : login \in 1 .. logins \/ login = n
    BY <1>1, <2>2, <2>5
  <2> QED  BY <2>4, <2>6, <2>7 DEF TokensInv
<1>7. ASSUME NEW t \in Browser!Calls, InFlight(t), NEW reply \in {"ok", "none", "error", Nil},
             NEW set \in Browser!Token \cup {Clear, Nil}, Browser!Answer(t, reply, set)
      PROVE  (\A u \in Browser!Calls \ {t} : req'[u] = req[u]) /\ req'[t].stage = "replied"
  BY <1>7, AnswerType
<1>8. ASSUME NEW t \in Browser!Calls, InFlight(t), Browser!Refuse(t)
      PROVE  (\A u \in Browser!Calls \ {t} : req'[u] = req[u]) /\ req'[t].stage = "replied"
  <2>1. \E set \in {Clear, Nil} : Browser!Answer(t, "none", set)
    BY <1>8 DEF Browser!Refuse
  <2> QED  BY <1>7, <1>8, <2>1
<1>9. ASSUME NEW t \in Browser!Calls, Browser!Present(t) PROVE TokensInv'
  <2>1. UNCHANGED <<logins, left, faults>> /\ InFlight(t) /\ req[t].stage = "sent"
    BY <1>9 DEF Browser!Present, InFlight
  <2>2. CASE req[t].cookie \notin live
    <3>1. Browser!Refuse(t) /\ live' = live  BY <1>9, <2>2 DEF Browser!Present
    <3> QED  BY <1>3, <1>8, <2>1, <3>1, SameIssuing DEF OthersKept
  <2>3. CASE req[t].cookie \in live
    <3>1. /\ \A u \in Browser!Calls \ {t} : req'[u] = req[u]
                  \/ (req[u].stage # "issuing" /\ req'[u].stage # "issuing")
          /\ req'[t] # Nil /\ req'[t].stage = "issuing" /\ req'[t].cookie = req[t].cookie
          /\ live' = live \ {req[t].cookie}
      <4>1. OthersKept(t) /\ req'[t] # Nil /\ req'[t].stage = "issuing"
            /\ req'[t].cookie = req[t].cookie /\ live' = live \ {req[t].cookie}
        BY <1>9, <2>3, PresentType
      <4> QED  BY <4>1, StrippedType DEF OthersKept, Stripped
    <3>2. \A u \in Browser!Calls : \A login : IssuingCall(u, login)' <=>
                                 IssuingCall(u, login) \/ (u = t /\ login = req[t].cookie.login)
      BY <2>1, <3>1 DEF IssuingCall, InFlight
    <3>3. ASSUME NEW login \in 1 .. logins
          PROVE  Unique(login)' /\ (faults' = 0 /\ login \notin left' => Alive(login)')
      <4>1. CASE login = req[t].cookie.login
        <5>1. \A x \in live' : x.login # login
          BY <1>2, <2>3, <3>1, <4>1 DEF Unique
        <5>2. \A u \in Browser!Calls : IssuingCall(u, login)' <=> u = t
          BY <1>2, <2>3, <3>2, <4>1 DEF Unique
        <5> QED  BY <5>1, <5>2 DEF Unique, Alive
      <4>2. CASE login # req[t].cookie.login
        <5>1. \A x : x.login = login => (x \in live' <=> x \in live)
          BY <3>1, <4>2
        <5>2. \A u \in Browser!Calls : IssuingCall(u, login)' <=> IssuingCall(u, login)
          BY <3>2, <4>2
        <5> QED  BY <1>2, <2>1, <5>1, <5>2, SameTokens
      <4> QED  BY <4>1, <4>2
    <3> QED  BY <2>1, <3>3 DEF TokensInv
  <2> QED  BY <2>2, <2>3
<1>10. ASSUME NEW t \in Browser!Calls, Browser!Issue(t) PROVE TokensInv'
  <2>1. PICK token \in Browser!Token : /\ token.login = req[t].cookie.login
                               /\ live' = live \cup {token} /\ Browser!Answer(t, "ok", token)
    BY <1>10 DEF Browser!Issue
  <2>2. InFlight(t) /\ req[t].stage = "issuing" /\ UNCHANGED <<logins, left, faults>>
    BY <1>10 DEF Browser!Issue, InFlight
  <2>3. (\A u \in Browser!Calls \ {t} : req'[u] = req[u]) /\ req'[t].stage = "replied"
    BY <1>7, <2>1, <2>2
  <2>4. \A u \in Browser!Calls : \A login :
          IssuingCall(u, login)' <=> IssuingCall(u, login) /\ u # t
    BY <2>3 DEF IssuingCall, InFlight
  <2>5. ASSUME NEW login \in 1 .. logins
        PROVE  Unique(login)' /\ (faults' = 0 /\ login \notin left' => Alive(login)')
    <3>1. CASE login = token.login
      <4>1. IssuingCall(t, login)
        BY <2>1, <2>2, <3>1 DEF IssuingCall
      <4>2. (\A x \in live : x.login # login) /\ \A u \in Browser!Calls : ~IssuingCall(u, login)'
        BY <1>2, <2>4, <4>1 DEF Unique
      <4> QED  BY <2>1, <3>1, <4>2 DEF Unique, Alive
    <3>2. CASE login # token.login
      <4>1. \A x : x.login = login => (x \in live' <=> x \in live)
        BY <2>1, <3>2
      <4>2. \A u \in Browser!Calls : IssuingCall(u, login)' <=> IssuingCall(u, login)
        BY <2>1, <2>4, <3>2 DEF IssuingCall
      <4> QED  BY <1>2, <2>2, <4>1, <4>2, SameTokens
    <3> QED  BY <3>1, <3>2
  <2> QED  BY <2>2, <2>5 DEF TokensInv
<1>11. ASSUME NEW t \in Browser!Calls, Browser!IssueFails(t) PROVE TokensInv'
  <2>1. InFlight(t) /\ live' = live /\ logins' = logins /\ faults' # 0
    BY <1>11 DEF Browser!IssueFails, InFlight, Browser!Fault, Browser!TypeOK
  <2>2. (\A u \in Browser!Calls \ {t} : req'[u] = req[u]) /\ req'[t].stage = "replied"
    BY <1>7, <1>8, <1>11, <2>1 DEF Browser!IssueFails
  <2>3. \A u \in Browser!Calls : \A login : IssuingCall(u, login)' => IssuingCall(u, login)
    BY <2>2 DEF IssuingCall, InFlight
  <2> QED  BY <1>2, <2>1, <2>3, FewerTokens DEF TokensInv
<1>12. ASSUME NEW t \in Browser!Calls, Browser!PresentLogout(t) PROVE TokensInv'
  <2>1. InFlight(t) /\ req[t].stage = "sent" /\ req[t].kind = "logout"
        /\ live' = live \ {req[t].cookie} /\ UNCHANGED <<logins, left, faults>>
    BY <1>12, LogoutType DEF Browser!PresentLogout
  <2>2. OthersKept(t) /\ req'[t].stage = "replied"
    BY <1>12, LogoutType
  <2>3. \A u \in Browser!Calls : \A login : IssuingCall(u, login)' <=> IssuingCall(u, login)
    BY <2>1, <2>2, SameIssuing
  <2>4. ASSUME NEW login \in 1 .. logins
        PROVE  Unique(login)' /\ (faults' = 0 /\ login \notin left' => Alive(login)')
    <3>1. Unique(login)'
      BY <1>2, <2>1, <2>3, FewerTokens
    <3>2. ASSUME login \notin left PROVE \A x : x.login = login => (x \in live' <=> x \in live)
      <4>1. req[t].cookie # Nil => req[t].cookie.login \in left
        BY <2>1 DEF OriginInv, InFlight
      <4>2. Nil \notin live
        BY <1>1 DEF Browser!TypeOK
      <4> QED  BY <2>1, <3>2, <4>1, <4>2
    <3> QED  BY <1>2, <2>1, <2>3, <3>1, <3>2, SameTokens
  <2> QED  BY <2>1, <2>4 DEF TokensInv
<1>13. ASSUME NEW t \in Browser!Calls, InFlight(t), NEW reply,
              NEW set \in Browser!Token \cup {Clear, Nil},
              req[t].stage # "issuing", Browser!Handle(t, reply, set)
       PROVE  \A u \in Browser!Calls : \A login : IssuingCall(u, login)' <=> IssuingCall(u, login)
  <2>1. (\A u \in Browser!Calls \ {t} : req'[u] = req[u])
        /\ req'[t] \in {Nil, Browser!Sent("bootstrap", jar')}
    BY <1>13, HandleType
  <2>2. req'[t] # Nil => req'[t].stage # "issuing"
    BY <2>1 DEF Browser!Sent
  <2> QED  BY <1>13, <2>1, <2>2, SameIssuing DEF OthersKept, InFlight
<1>14. ASSUME NEW t \in Browser!Calls, Browser!Deliver(t) PROVE TokensInv'
  <2>1. InFlight(t) /\ req[t].set \in Browser!Token \cup {Clear, Nil} /\ req[t].stage # "issuing"
    BY <1>14 DEF Browser!Deliver, InFlight, Browser!TypeOK, Browser!Request
  <2> QED  BY <1>3, <1>13, <1>14, <2>1 DEF Browser!Deliver
<1>15. ASSUME NEW t \in Browser!Calls, Browser!NetworkFails(t) PROVE TokensInv'
  <2>1. InFlight(t) /\ req[t].stage # "issuing" /\ faults' # 0
    BY <1>15 DEF Browser!NetworkFails, InFlight, Browser!Fault, Browser!TypeOK
  <2>2. \A u \in Browser!Calls : \A login : IssuingCall(u, login)' <=> IssuingCall(u, login)
    BY <1>13, <1>15, <2>1 DEF Browser!NetworkFails
  <2> QED  BY <1>3, <1>15, <2>1, <2>2 DEF Browser!NetworkFails
<1>16. CASE UNCHANGED Browser!vars
  BY <1>3, <1>16 DEF Browser!vars, IssuingCall, InFlight
<1> QED
  BY <1>4, <1>5, <1>6, <1>9, <1>10, <1>11, <1>12, <1>14, <1>15, <1>16 DEF Browser!Next,
       Browser!Progress

\* One request at a time: its cookie is the jar's, its token is live until it is exchanged,
\* and its reply brings the successor into the jar.
LEMMA JarStep == BrowserInv /\ [Browser!Next]_(Browser!vars) => JarInv'
<1> SUFFICES ASSUME Assumed, Browser!TypeOK, OriginInv, JarInv, [Browser!Next]_(Browser!vars),
     Undisturbed' PROVE JarInv'
  BY DEF BrowserInv, JarInv
<1>1. Nil \notin Browser!Token /\ Clear \notin Browser!Token /\ Nil # Clear
     /\ logins \in Nat /\ logins >= 1
      /\ live \subseteq Browser!Token
  BY DEF Assumed, Browser!BoundsAssumption, Browser!NilAssumption, Browser!TypeOK
<1> DEFINE Kept(t) ==
             /\ req[t].kind # "logout"
             /\ req[t].stage = "sent" => req[t].cookie = jar /\ jar \in live
             /\ req[t].stage = "replied" => req[t].reply = "ok" /\ req[t].set \in live
<1>2. ASSUME Undisturbed
      PROVE  /\ \A t \in Tabs : tab[t] # "login"
             /\ (\A t \in Browser!Calls : ~InFlight(t)) => jar \in live
             /\ \A t \in Browser!Calls :
                  InFlight(t) => (\A u \in Browser!Calls \ {t} : ~InFlight(u)) /\ Kept(t)
  BY <1>2 DEF JarInv
<1>3. ASSUME NEW t \in Browser!Calls, \A u \in Browser!Calls \ {t} : ~InFlight(u)',
             \A u \in Tabs : tab'[u] # "login",
             InFlight(t)' => Kept(t)', ~InFlight(t)' => jar' \in live'
      PROVE  JarInv'
  BY <1>3 DEF JarInv
<1>4. ASSUME NEW t \in Tabs, Browser!Open(t) \/ Browser!Refresh(t) PROVE JarInv'
  <2>1. UNCHANGED <<live, jar, faults, left>>
    BY <1>4 DEF Browser!Open, Browser!Refresh
  <2>2. Undisturbed
    BY <1>4, <2>1 DEF Undisturbed, Browser!Open, Browser!Refresh, Browser!Send, Browser!TypeOK
  <2>3. \A u \in Tabs : tab'[u] # "login"
    BY <1>2, <1>4, <2>2 DEF Browser!Open, Browser!Refresh, Browser!Goto, Browser!TypeOK
  <2>4. ASSUME NEW kind \in {"bootstrap", "refresh"}, Browser!Send(t, kind), req[t] = Nil
        PROVE  JarInv'
    <3>1. t \in Browser!Calls
      BY DEF Browser!Calls
    <3>2. req'[t] = Browser!Sent(kind, jar) /\ \A u \in Browser!Calls \ {t} : req'[u] = req[u]
      BY <2>4, <3>1, SendType
    <3>3. \A u \in Browser!Calls \ {t} : req[u] = Nil
      BY <2>4 DEF Undisturbed, Browser!Send, Browser!TypeOK
    <3>4. jar \in live
      BY <1>2, <2>2, <2>4, <3>3 DEF InFlight
    <3>5. \A u \in Browser!Calls \ {t} : ~InFlight(u)'
      BY <3>2, <3>3 DEF InFlight
    <3>6. Kept(t)'
      BY <2>1, <3>2, <3>4 DEF Browser!Sent
    <3>7. InFlight(t)'
      BY <3>2, SentIsRequest DEF Assumed, Browser!NilAssumption, InFlight, Browser!TypeOK
    <3> QED  BY <1>3, <2>3, <3>1, <3>5, <3>6, <3>7
  <2>5. CASE UNCHANGED req
    BY <1>2, <2>1, <2>2, <2>3, <2>5 DEF JarInv, InFlight
  <2> QED  BY <1>4, <2>4, <2>5 DEF Browser!Open, Browser!Refresh
<1>5. ASSUME NEW t \in Tabs, Browser!Logout(t) PROVE FALSE
  <2>1. 1 \in left'
    BY <1>1, <1>5 DEF Browser!Logout
  <2> QED  BY <2>1 DEF Undisturbed
<1>6. ASSUME NEW t \in Tabs, Browser!AccessExpires(t) PROVE JarInv'
  BY <1>6 DEF Browser!AccessExpires, Browser!Goto, JarInv, Undisturbed, InFlight, Browser!TypeOK
<1>7. ASSUME NEW t \in Tabs, Browser!Login(t) PROVE FALSE
  BY <1>2, <1>7 DEF Browser!Login, Undisturbed
<1>8. ASSUME NEW t \in Browser!Calls, Browser!IssueFails(t) \/ Browser!NetworkFails(t) PROVE FALSE
  BY <1>8 DEF Browser!IssueFails, Browser!NetworkFails, Browser!Fault, Undisturbed, Browser!TypeOK
<1>9. ASSUME NEW t \in Browser!Calls, Browser!Present(t) PROVE JarInv'
  <2>1. InFlight(t) /\ req[t].stage = "sent" /\ UNCHANGED <<tab, crowded, left, faults>>
    BY <1>9 DEF Browser!Present, InFlight
  <2>2. Undisturbed /\ Kept(t) /\ (\A u \in Browser!Calls \ {t} : ~InFlight(u))
        /\ \A u \in Tabs : tab[u] # "login"
    BY <1>2, <2>1 DEF Undisturbed
  <2>3. req[t].cookie \in live
    BY <2>1, <2>2
  <2>4. /\ OthersKept(t)
        /\ req'[t] # Nil /\ req'[t].stage = "issuing" /\ req'[t].kind = req[t].kind
    BY <1>9, <2>3, PresentType
  <2>5. \A u \in Browser!Calls \ {t} : req'[u] = Nil
    BY <2>2, <2>4 DEF OthersKept, Stripped, InFlight
  <2> QED  BY <1>3, <2>1, <2>2, <2>4, <2>5 DEF InFlight
<1>10. ASSUME NEW t \in Browser!Calls, Browser!Issue(t) PROVE JarInv'
  <2>1. InFlight(t) /\ UNCHANGED <<jar, tab, crowded, left, faults>>
    BY <1>10 DEF Browser!Issue, InFlight
  <2>2. Undisturbed /\ Kept(t) /\ (\A u \in Browser!Calls \ {t} : ~InFlight(u))
        /\ \A u \in Tabs : tab[u] # "login"
    BY <1>2, <2>1 DEF Undisturbed
  <2>3. PICK token \in Browser!Token : live' = live \cup {token} /\ Browser!Answer(t, "ok", token)
    BY <1>10 DEF Browser!Issue
  <2>4. /\ \A u \in Browser!Calls \ {t} : req'[u] = req[u]
        /\ req'[t] # Nil /\ req'[t].stage = "replied" /\ req'[t].set = token
        /\ req'[t].kind = req[t].kind /\ req'[t].reply = "ok"
    BY <2>1, <2>3, AnswerType
  <2> QED  BY <1>3, <2>1, <2>2, <2>3, <2>4 DEF InFlight
<1>11. ASSUME NEW t \in Browser!Calls, Browser!PresentLogout(t) PROVE FALSE
  BY <1>2, <1>11 DEF Browser!PresentLogout, InFlight, Undisturbed
<1>12. ASSUME NEW t \in Browser!Calls, Browser!Deliver(t) PROVE JarInv'
  <2>1. InFlight(t) /\ req[t].stage = "replied" /\ UNCHANGED <<live, faults, left>>
        /\ Browser!Handle(t, req[t].reply, req[t].set)
    BY <1>12 DEF Browser!Deliver, InFlight
  <2>2. Undisturbed
    BY <2>1 DEF Undisturbed, Browser!Handle, Browser!TypeOK
  <2>3. Kept(t) /\ (\A u \in Browser!Calls \ {t} : ~InFlight(u))
        /\ \A u \in Tabs : tab[u] # "login"
    BY <1>2, <2>1, <2>2
  <2>4. req[t].reply = "ok" /\ req[t].set \in live /\ req[t].set \in Browser!Token
    BY <1>1, <2>1, <2>3
  <2>5. /\ jar' = Browser!Jar(req[t].set)
        /\ t \in Tabs => tab'[t] = Browser!NextPage(t, req[t].kind, "ok")
        /\ \A u \in Browser!Calls \ {t} : req'[u] = req[u]
        /\ \A u \in Tabs \ {t} : tab'[u] = tab[u]
    BY <2>1, <2>4, HandleType
  <2>6. jar' \in live'
    BY <2>1, <2>4, <2>5, JarType DEF Browser!TypeOK
  <2>7. Browser!NextPage(t, req[t].kind, "ok") = "in"
    BY DEF Browser!NextPage
  <2>8. req'[t] = Nil
    BY <2>1, <2>4, <2>7 DEF Browser!Handle, Browser!TypeOK
  <2>9. \A u \in Tabs : tab'[u] # "login"
    BY <2>3, <2>5, <2>7
  <2>10. ~InFlight(t)' /\ \A u \in Browser!Calls \ {t} : ~InFlight(u)'
    BY <2>3, <2>5, <2>8 DEF InFlight
  <2> QED  BY <1>3, <2>6, <2>9, <2>10
<1>13. CASE UNCHANGED Browser!vars
  BY <1>13 DEF Browser!vars, JarInv, Undisturbed, InFlight
<1> QED
  BY <1>4, <1>5, <1>6, <1>7, <1>8, <1>9, <1>10, <1>11, <1>12, <1>13 DEF Browser!Next,
       Browser!Progress

-----------------------------------------------------------------------------
(* The browser: what follows from the invariant *)

\* Counting what is unique: the sum of the two sets is at most one, and one when one is.
LEMMA UniqueCount ==
  ASSUME NEW login, Unique(login)
  PROVE  LET tokens == Cardinality(Browser!Of(login)) + Cardinality(Browser!Issuing(login))
         IN  tokens <= 1 /\ (Alive(login) => tokens = 1)
<1>1. CASE \E x \in live : x.login = login
  <2>1. PICK x \in live : x.login = login  BY <1>1
  <2>2. Browser!Of(login) = {x} /\ Browser!Issuing(login) = {}
    BY <2>1 DEF Browser!Of, Browser!Issuing, Unique, IssuingCall, InFlight
  <2> QED  BY <2>2, FS_EmptySet, FS_Singleton
<1>2. CASE \E t \in Browser!Calls : IssuingCall(t, login)
  <2>1. PICK t \in Browser!Calls : IssuingCall(t, login)  BY <1>2
  <2>2. Browser!Of(login) = {} /\ Browser!Issuing(login) = {t}
    BY <2>1 DEF Browser!Of, Browser!Issuing, Unique, IssuingCall, InFlight
  <2>3. Cardinality({}) = 0 /\ Cardinality({t}) = 1
    BY FS_EmptySet, FS_Singleton
  <2> QED  BY <2>2, <2>3
<1>3. CASE ~Alive(login)
  <2>1. Browser!Of(login) = {} /\ Browser!Issuing(login) = {}
    BY <1>3 DEF Browser!Of, Browser!Issuing, Alive, IssuingCall, InFlight
  <2> QED  BY <1>3, <2>1, FS_EmptySet
<1> QED  BY <1>1, <1>2, <1>3 DEF Alive

\* The inductive invariant of the browser's session.
THEOREM BrowserInvariant == Assumed => (Browser!Spec => []BrowserInv)
<1>1. Assumed /\ Browser!Init => BrowserInv
  BY BrowserInit
<1>2. BrowserInv /\ [Browser!Next]_(Browser!vars) => BrowserInv'
  <2>1. Assumed <=> Assumed'
    BY DEF Assumed, Browser!BoundsAssumption, Browser!TabsAssumption, Browser!NilAssumption,
           Browser!Token, Browser!Request
  <2> QED  BY <2>1, BrowserTypeStep, OriginStep, TokensStep, JarStep DEF BrowserInv
<1> QED
  BY <1>1, <1>2, PTL DEF Browser!Spec

\* For any number of tabs: a sign-in has one usable token or one successor being issued at
\* most (refresh_from_cookie), exactly one while nothing fails, and a user whose requests do
\* not overlap stays signed in (resumeSession and the refresh after a 401).
THEOREM BrowserHolds == Assumed => (Browser!Spec => []Browser!SessionInv)
<1>1. BrowserInv => Browser!SessionInv
  <2> SUFFICES ASSUME BrowserInv PROVE Browser!OneSuccessor /\ Browser!SessionKept
    BY DEF BrowserInv, Browser!SessionInv
  <2>1. Browser!OneSuccessor
    BY UniqueCount, SameCount DEF BrowserInv, TokensInv, Browser!OneSuccessor
  <2>2. Browser!SessionKept
    BY DEF BrowserInv, JarInv, Undisturbed, Browser!SessionKept
  <2> QED  BY <2>1, <2>2
<1> QED
  BY <1>1, BrowserInvariant, PTL

=============================================================================
