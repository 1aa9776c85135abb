----------------------------- MODULE MCMigrator -----------------------------
(* An instance of Migrator for TLC: the binaries of an old and of a new    *)
(* release.                                                                *)
EXTENDS Migrator

MCRelease == [p \in Process |-> IF p = "old" THEN 2 ELSE 3]

=============================================================================
