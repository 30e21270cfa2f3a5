--------------------------- MODULE MCRivianSession ---------------------------
(* Instances of RivianSession for TLC. *)
EXTENDS RivianSession

CONSTANTS c1, c2
TwoCallers == {c1, c2}
=============================================================================
