-------------------------- MODULE MCDatabaseStart --------------------------
EXTENDS DatabaseStart

CONSTANTS p, q
TwoProcs    == {p, q}
TwoReleases == {1, 2}
Found(public, legacy, schema, other) ==
    [public |-> public, legacy |-> legacy, schema |-> schema, other |-> other]

\* A fresh database, ones an earlier release has left, and ones no release follows: no
\* ledger, two that disagree, a foreign one, an empty one, one without its schema.
FoundDatabases ==
    {Found(Absent, Absent, 0, FALSE), Found(1, Absent, 1, FALSE), Found(Absent, 1, 1, FALSE),
     Found(1, 0, 1, FALSE), Found(2, 2, 2, FALSE),
     Found(Absent, Absent, 0, TRUE), Found(Absent, Absent, 1, TRUE), Found(1, 2, 2, FALSE),
     Found(Alien, Absent, 1, FALSE), Found(0, Absent, 0, FALSE), Found(1, Absent, 0, FALSE)}
=============================================================================
