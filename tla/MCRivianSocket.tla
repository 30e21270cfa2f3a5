---------------------------- MODULE MCRivianSocket ----------------------------
(* Instances of RivianSocket for TLC. *)
EXTENDS RivianSocket

CONSTANTS f1, f2
TwoFields == {f1, f2}
=============================================================================
