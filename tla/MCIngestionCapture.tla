-------------------------- MODULE MCIngestionCapture --------------------------
(* An instance of IngestionCapture for TLC. *)
EXTENDS IngestionCapture

CONSTANTS r1, r2
TwoRequests == {r1, r2}
=============================================================================
