---------------------------- MODULE CollectorLock ----------------------------
(***************************************************************************)
(* What the collector lock of one vehicle promises: one worker at a time   *)
(* owns it, it passes from one worker to the next only after it was given  *)
(* up, and a lock whose worker ended without giving it up ("leaked") does  *)
(* not stay so for ever.                                                   *)
(***************************************************************************)
CONSTANTS
    Workers,
    Nobody, Leaked   \* two values that are not workers

VARIABLE owner

Init == owner = Nobody

Take(w) == owner \in {Nobody, Leaked} /\ owner' = w

GiveUp == owner \in Workers /\ owner' \in {Nobody, Leaked}

Expire == owner = Leaked /\ owner' = Nobody

Next == GiveUp \/ Expire \/ \E w \in Workers : Take(w)

Spec     == Init /\ [][Next]_owner
FairSpec == Spec /\ WF_owner(Expire)
=============================================================================
