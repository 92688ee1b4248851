----------------------------- MODULE MigrationRunner -----------------------------
(***************************************************************************)
(* Startup of API and worker: runtime/migrations.js applies the SQL files  *)
(* of db/migrations in the order of their names, under an advisory lock    *)
(* and one transaction per file, then checks the schema, and               *)
(* scripts/ensure-location-catalog.js looks for the location tables and    *)
(* downloads what they lack; the process serves or exits with code 1, and  *)
(* its container starts it again (docker-compose.yml, restart:             *)
(* unless-stopped).                                                        *)
(*                                                                         *)
(* Some files were renamed, and moved past others by it: their row in      *)
(* schema_migrations may bear the name of an earlier release.  Some begin  *)
(* with a look at the data and raise until somebody has reconciled it.     *)
(* PostgreSQL is external: when a process dies, its session keeps lock     *)
(* and transaction until the server notices.                               *)
(*                                                                         *)
(* Definitions under "Mutant" are faulty variants of the definition after  *)
(* them; nothing in the specification uses one.                            *)
(***************************************************************************)
EXTENDS Naturals

CONSTANTS Process,     \* processes that start: replicas of API and worker
          Migrating,   \* those that run migrations (RUN_MIGRATIONS_ON_STARTUP)
          Files,       \* number of migration files, in the order of their names
          Renamed,     \* files listed in LEGACY_MIGRATION_NAMES under another name
          Guarded,     \* files that raise on rows nobody has reconciled
          Required,    \* files whose tables are in REQUIRED_OPERATIONAL_SCHEMA
          Located,     \* files that create the tables of the location catalog
          MaxFault     \* bound: failed statements and downloads, lost answers, crashes

ASSUME MigrationAssumption ==
  /\ Migrating \subseteq Process
  /\ Files \in Nat
  /\ Renamed \subseteq 1 .. Files
  /\ Guarded \subseteq 1 .. Files
  /\ Required \subseteq 1 .. Files
  /\ Located \subseteq 1 .. Files
  /\ MaxFault \in Nat

File == 1 .. Files

Free == [kind |-> "free"]
LiveSession(p) == [kind |-> "live", of |-> p]
DeadSession(p) == [kind |-> "dead", of |-> p]

VARIABLES
  table,     \* whether schema_migrations exists
  ledger,    \* committed rows of schema_migrations, under today's names
  legacy,    \* rows that an earlier release has left under the old names
  applied,   \* how often the SQL of a file has been executed and committed
  unreconciled, \* guarded files that the data of the database makes raise
  lock,      \* the session that holds the advisory lock
  pc, at,    \* where a process stands, and the file in hand
  known,     \* whether the legacy row of that file was found
  inserted,  \* whether the claim inserted its row
  faults

database == <<table, ledger, legacy, applied>>
locals == <<at, known, inserted>>
migrationVars == <<database, unreconciled, lock, pc, locals, faults>>

PC == {"down", "lock", "table", "legacy", "claim", "sql", "commit", "rollback",
       "unlock", "abandon", "schema", "catalog", "serving"}

\* A process in the protected part of runSqlMigrations.
Running == {"table", "legacy", "claim", "sql", "commit", "rollback", "unlock", "abandon"}

Recorded == ledger \union legacy

Go(p, l) == pc' = [pc EXCEPT ![p] = l]

Fault == faults < MaxFault /\ faults' = faults + 1

\* Earlier releases have applied some of the files, the renamed ones under either name or
\* both: what they knew need not be a prefix of today's order.
MigrationInit ==
  /\ ledger \in SUBSET File
  /\ legacy \in SUBSET Renamed
  /\ table \in BOOLEAN
  /\ Recorded # {} => table
  /\ applied = [f \in File |-> IF f \in Recorded THEN 1 ELSE 0]
  /\ unreconciled \in SUBSET Guarded
  /\ lock = Free
  /\ pc = [p \in Process |-> "down"]
  /\ at = [p \in Process |-> 1]
  /\ known = [p \in Process |-> FALSE]
  /\ inserted = [p \in Process |-> FALSE]
  /\ faults = 0

(***************************************************************************)
(* prepareOperationalDatabase, from start to serving.                      *)
(***************************************************************************)
Start(p) ==
  /\ pc[p] = "down"
  /\ Go(p, IF p \in Migrating THEN "lock" ELSE "schema")
  /\ UNCHANGED <<database, lock, locals, faults, unreconciled>>

\* Mutant: whoever asks gets the lock.
Shared(p) == TRUE

\* pg_advisory_lock waits for the session that holds it.
Obtains(p) == lock = Free

AcquireLock(p) ==
  /\ pc[p] = "lock"
  /\ Obtains(p)
  /\ lock' = LiveSession(p)
  /\ Go(p, "table")
  /\ UNCHANGED <<database, locals, faults, unreconciled>>

\* Mutant: the loop ends one file too late.
NextFileLate(p, f) ==
  /\ at' = [at EXCEPT ![p] = f]
  /\ known' = [known EXCEPT ![p] = FALSE]
  /\ inserted' = [inserted EXCEPT ![p] = FALSE]
  /\ Go(p, IF f > Files + 1 THEN "unlock" ELSE "legacy")

\* The next file of the loop, or its end.
NextFile(p, f) ==
  /\ at' = [at EXCEPT ![p] = f]
  /\ known' = [known EXCEPT ![p] = FALSE]
  /\ inserted' = [inserted EXCEPT ![p] = FALSE]
  /\ Go(p, IF f > Files THEN "unlock" ELSE "legacy")

CreateTable(p) ==
  /\ pc[p] = "table"
  /\ table' = TRUE
  /\ NextFile(p, 1)
  /\ UNCHANGED <<ledger, legacy, applied, lock, faults, unreconciled>>

\* Mutant: rows of earlier names are not looked for.
NoLegacy(f) == FALSE

\* The select by the file's legacy name.
HasLegacyRow(f) == f \in legacy

FindLegacy(p) ==
  /\ pc[p] = "legacy"
  /\ known' = [known EXCEPT ![p] = HasLegacyRow(at[p])]
  /\ Go(p, "claim")
  /\ UNCHANGED <<database, lock, at, inserted, faults, unreconciled>>

\* insert ... on conflict do nothing: the row is not committed yet.
ClaimFile(p) ==
  /\ pc[p] = "claim"
  /\ inserted' = [inserted EXCEPT ![p] = at[p] \notin ledger]
  /\ Go(p, IF at[p] \notin ledger /\ ~known[p] THEN "sql" ELSE "commit")
  /\ UNCHANGED <<database, lock, at, known, faults, unreconciled>>

\* The SQL of the file runs in the same transaction; a guarded file may raise.
RunSql(p) ==
  /\ pc[p] = "sql"
  /\ Go(p, IF at[p] \in unreconciled THEN "rollback" ELSE "commit")
  /\ UNCHANGED <<database, lock, locals, faults, unreconciled>>

\* What a commit of process p writes.
Committed(p) ==
  /\ ledger' = IF inserted[p] THEN ledger \union {at[p]} ELSE ledger
  /\ applied' = IF inserted[p] /\ ~known[p] THEN [applied EXCEPT ![at[p]] = @ + 1] ELSE applied

Commit(p) ==
  /\ pc[p] = "commit"
  /\ Committed(p)
  /\ NextFile(p, at[p] + 1)
  /\ UNCHANGED <<table, legacy, lock, faults, unreconciled>>

\* Mutant: the loop goes on after a file that failed.
GoesOn(p) == NextFile(p, at[p] + 1)

\* The catch block rolls back and throws; finally unlocks.
Throws(p) == Go(p, "abandon") /\ UNCHANGED locals

RollBack(p) ==
  /\ pc[p] = "rollback"
  /\ Throws(p)
  /\ UNCHANGED <<database, lock, faults, unreconciled>>

\* Mutant: the connection returns to its pool with the lock.
Kept == lock

\* pg_advisory_unlock
Released == Free

\* finally, after the loop or after an error; an error ends the process.
ReleaseLock(p) ==
  /\ pc[p] \in {"unlock", "abandon"}
  /\ lock' = Released
  /\ Go(p, IF pc[p] = "unlock" THEN "schema" ELSE "down")
  /\ UNCHANGED <<database, locals, faults, unreconciled>>

\* Mutant: whatever the schema is.
AnySchema == TRUE

\* assertOperationalSchema looks for the columns of the required tables.
SchemaReady == \A f \in Required : applied[f] > 0

CheckSchema(p) ==
  /\ pc[p] = "schema"
  /\ Go(p, IF SchemaReady THEN "catalog" ELSE "down")
  /\ UNCHANGED <<database, lock, locals, faults, unreconciled>>

\* ensureLocationCatalog: without its tables the process ends; rows that are missing are
\* downloaded.
EnsureCatalog(p) ==
  /\ pc[p] = "catalog"
  /\ Go(p, IF \A f \in Located : applied[f] > 0 THEN "serving" ELSE "down")
  /\ UNCHANGED <<database, lock, locals, faults, unreconciled>>

(***************************************************************************)
(* Faults.                                                                 *)
(***************************************************************************)
\* A statement or a download fails: outside of the loop finally alone is left, inside the
\* catch block runs.
StatementFails(p) ==
  /\ Fault
  /\ \/ pc[p] = "table" /\ Go(p, "abandon")
     \/ pc[p] \in {"legacy", "claim", "sql", "commit"} /\ Go(p, "rollback")
     \/ pc[p] \in {"lock", "schema", "catalog"} /\ Go(p, "down")
  /\ UNCHANGED <<database, lock, locals, unreconciled>>

\* What the server does with the session of p: it keeps the lock until the server notices.
Orphaned(p) == lock' = IF lock = LiveSession(p) THEN DeadSession(p) ELSE lock

\* The process dies, or its connection does, and its transaction is never committed.
Crash(p) ==
  /\ pc[p] # "down"
  /\ Fault
  /\ Orphaned(p)
  /\ Go(p, "down")
  /\ UNCHANGED <<database, locals, unreconciled>>

\* It dies while the server commits.
CrashInCommit(p) ==
  /\ pc[p] = "commit"
  /\ Fault
  /\ Committed(p)
  /\ Orphaned(p)
  /\ Go(p, "down")
  /\ UNCHANGED <<table, legacy, locals, unreconciled>>

\* The server notices that the client is gone: its lock is free.
EndSession ==
  /\ \E p \in Process : lock = DeadSession(p)
  /\ lock' = Free
  /\ UNCHANGED <<database, pc, locals, faults, unreconciled>>

\* Rows appear that make guarded files raise, or somebody reconciles them.
DataChanges ==
  /\ unreconciled' \in (SUBSET Guarded) \ {unreconciled}
  /\ UNCHANGED <<database, lock, pc, locals, faults>>

Run(p) ==
  \/ Start(p) \/ AcquireLock(p) \/ CreateTable(p) \/ FindLegacy(p) \/ ClaimFile(p)
  \/ RunSql(p) \/ Commit(p) \/ RollBack(p) \/ ReleaseLock(p) \/ CheckSchema(p)
  \/ EnsureCatalog(p)

MigrationNext ==
  \/ \E p \in Process : Run(p) \/ StatementFails(p) \/ Crash(p) \/ CrashInCommit(p)
  \/ EndSession \/ DataChanges

MigrationSpec == MigrationInit /\ [][MigrationNext]_migrationVars

\* A process that is not dead goes on, a container is started again, and the server
\* notices sessions that are gone.  Nothing makes anybody reconcile the data.
FairSpec ==
  /\ MigrationSpec
  /\ \A p \in Process : WF_migrationVars(Run(p))
  /\ WF_migrationVars(EndSession)

(***************************************************************************)
(* Properties.                                                             *)
(***************************************************************************)
\* Every variable holds values of its kind.
MigrationTypeOK ==
  /\ table \in BOOLEAN
  /\ ledger \subseteq File /\ legacy \subseteq Renamed
  /\ applied \in [File -> Nat]
  /\ lock \in {Free} \union {LiveSession(p) : p \in Process}
                     \union {DeadSession(p) : p \in Process}
  /\ pc \in [Process -> PC]
  /\ at \in [Process -> 1 .. Files + 1]
  /\ known \in [Process -> BOOLEAN]
  /\ inserted \in [Process -> BOOLEAN]
  /\ unreconciled \subseteq Guarded
  /\ faults \in 0 .. MaxFault

\* The SQL of a file is committed at most once, and exactly when schema_migrations says so:
\* claim and SQL are one transaction, and a file renamed since it was applied is not
\* applied again, whatever crashes or starts beside it.
AppliedExactly == \A f \in File : applied[f] = IF f \in Recorded THEN 1 ELSE 0

\* A run records a file only on top of all the files before it, whatever gaps earlier
\* releases have left: a file that fails ends the run, and no second runner overtakes.
InOrder ==
  [][\A f \in ledger' \ ledger : \A g \in File : g < f => g \in Recorded]_migrationVars

\* A process that serves and runs migrations finds every file applied; one that does not,
\* as by default, finds only the required tables and those of the location catalog.
ServingIsMigrated ==
  \A p \in Process :
    pc[p] = "serving" => /\ p \in Migrating => Recorded = File
                         /\ Required \union Located \subseteq Recorded

\* Two runners are never between the advisory lock and its release, although the lock of a
\* process that has died outlives it.
OneRunner == \A p, q \in Process : pc[p] \in Running /\ pc[q] \in Running => p = q

\* Every process serves in the end, if in the end no file's data makes it raise: the faults
\* end in a restart, and neither an error nor a death leaves the lock taken.
EventuallyServing ==
  <>[](unreconciled = {}) => \A p \in Process : <>[](pc[p] = "serving")
=============================================================================
