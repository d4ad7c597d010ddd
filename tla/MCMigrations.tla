---------------------------- MODULE MCMigrations ----------------------------
(***************************************************************************)
(* Instances of the migrations for TLC: databases left at any version that *)
(* differs in what this module tells apart.                                *)
(***************************************************************************)
EXTENDS MigrationsProperties

CONSTANTS p1, p2, key1, key2, dest1, dest2

TwoProcs == {p1, p2}
TwoRequests == {1, 2}
TwoKeys == {key1, key2}
TwoDests == {dest1, dest2}
OldVersions == {0, 5, 6, 8, 9}
=============================================================================
