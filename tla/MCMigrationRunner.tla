--------------------------- MODULE MCMigrationRunner ---------------------------
(* Small instances of MigrationRunner. *)
EXTENDS MigrationRunner
=============================================================================
