--------------------------- MODULE MCRestoreAgent ---------------------------
(* Instances of RestoreAgent for TLC. *)
EXTENDS RestoreAgent

Restoring(kind, new, old) == [kind |-> kind, art |-> new, over |-> old]

\* Every kind of package; the unbootable one with artwork on one of the two sides.
SomePackages == {Restoring("good", "restored", "original"),
                 Restoring("unhealthy", "restored", "original"),
                 Restoring("unbootable", "restored", "empty"),
                 Restoring("unbootable", "empty", "original")}

GoodPackage == {Restoring("good", "restored", "original")}
WithoutArtwork == {Restoring("unbootable", "empty", "empty")}
=============================================================================
