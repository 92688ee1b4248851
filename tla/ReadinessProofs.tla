------------------------------ MODULE ReadinessProofs ------------------------------
(***************************************************************************)
(* Theorems about the two components that answer whether something may be  *)
(* served: MigrationRunner for a process, at its start, and                *)
(* ModuleAvailability for an operation of a module.  They share no state,  *)
(* and each is proved by itself.                                           *)
(*                                                                         *)
(* Migrations.  The lock keeps the database still while its holder works   *)
(* (Locked), so what the holder has read (ReadStill) and what lies behind  *)
(* it in the loop (Behind) stay true until it commits, however earlier     *)
(* releases have left the database.                                        *)
(*                                                                         *)
(* Availability.  Nothing but a transition that named a version ahead of   *)
(* the row leads out of decommissioning, so a call that began under it     *)
(* finds it still there (Gone), whatever the control plane, the collectors *)
(* and the clock do during the call.  What a call judges of health and     *)
(* circuit is what it has read (Judged).                                   *)
(***************************************************************************)
EXTENDS MigrationRunner, ModuleAvailability, TLAPS

(***************************************************************************)
(* MigrationRunner.                                                        *)
(***************************************************************************)
Sessions == {LiveSession(p) : p \in Process} \union {DeadSession(p) : p \in Process}

InLoop == {"legacy", "claim", "sql", "commit", "rollback"}

\* The holder of the lock is the process that works.
Locked == \A p \in Process : pc[p] \in Running => lock = LiveSession(p)

\* All files before the one in hand are recorded; after the loop all are.
Behind ==
  \A p \in Process :
    /\ pc[p] \in InLoop =>
         at[p] \in File /\ \A g \in File : g < at[p] => g \in Recorded
    /\ (pc[p] = "unlock" \/ (pc[p] \in {"schema", "catalog", "serving"} /\ p \in Migrating)) =>
         Recorded = File

\* What the transaction has read and claimed is still so.
ReadStill ==
  \A p \in Process :
    /\ pc[p] \in {"claim", "sql", "commit"} => (known[p] <=> at[p] \in legacy)
    /\ pc[p] \in {"sql", "commit"} => (inserted[p] <=> at[p] \notin ledger)

\* A process past the schema check has seen the required tables, and one that serves those
\* of the location catalog too.
Checked ==
  \A p \in Process :
    /\ pc[p] \in {"catalog", "serving"} => \A f \in Required : applied[f] > 0
    /\ pc[p] = "serving" => \A f \in Located : applied[f] > 0

IInv == MigrationTypeOK /\ Locked /\ Behind /\ ReadStill /\ AppliedExactly /\ Checked

-----------------------------------------------------------------------------
LEMMA InitInv == MigrationInit => IInv
<1> SUFFICES ASSUME MigrationInit PROVE IInv
  OBVIOUS
<1> USE MigrationAssumption DEF MigrationInit, File, Recorded
<1>1. Recorded \subseteq File
  BY DEF Recorded
<1>2. MigrationTypeOK
  BY DEF MigrationTypeOK, PC, Free
<1>4. AppliedExactly
  BY DEF AppliedExactly
<1>5. Locked /\ Behind /\ ReadStill /\ Checked
  BY DEF Locked, Behind, ReadStill, Checked, Running, InLoop
<1> QED
  BY <1>2, <1>4, <1>5 DEF IInv

-----------------------------------------------------------------------------
\* The step of a runner to file f, or past the last one.
LEMMA NextFileInv ==
  ASSUME IInv, NEW p \in Process, pc[p] \in Running, NEW f \in 1 .. Files + 1,
         NextFile(p, f), lock' = lock, faults' = faults, table' \in BOOLEAN,
         legacy' = legacy, ledger' \subseteq File, ledger \subseteq ledger',
         applied' \in [File -> Nat], AppliedExactly', unreconciled' = unreconciled,
         \A g \in File : applied'[g] >= applied[g],
         \A g \in File : g < f => g \in Recorded'
  PROVE  IInv'
<1> USE MigrationAssumption DEF File
<1>1. lock = LiveSession(p)
  BY DEF IInv, Locked
<1>2. \A q \in Process \ {p} : pc[q] \notin Running
  BY <1>1 DEF IInv, Locked, LiveSession
<1>3. /\ pc' = [pc EXCEPT ![p] = IF f > Files THEN "unlock" ELSE "legacy"]
      /\ at' = [at EXCEPT ![p] = f]
      /\ known' = [known EXCEPT ![p] = FALSE]
      /\ inserted' = [inserted EXCEPT ![p] = FALSE]
  BY DEF NextFile, Go
<1>4. MigrationTypeOK'
  BY <1>3 DEF IInv, MigrationTypeOK, PC
<1>5. Locked'
  BY <1>1, <1>2, <1>3 DEF Locked, Running, IInv, MigrationTypeOK
<1>6. Recorded \subseteq Recorded' /\ Recorded' \subseteq File
  BY DEF Recorded, IInv, MigrationTypeOK
<1>7. Behind'
  <2> SUFFICES ASSUME NEW q \in Process
               PROVE  /\ pc'[q] \in InLoop =>
                           at'[q] \in File /\ \A g \in File : g < at'[q] => g \in Recorded'
                      /\ (pc'[q] = "unlock" \/ (pc'[q] \in {"schema", "catalog", "serving"} /\ q \in Migrating)) =>
                           Recorded' = File
    BY DEF Behind
  <2>1. CASE q = p
    <3>1. pc'[q] = (IF f > Files THEN "unlock" ELSE "legacy") /\ at'[q] = f
      BY <1>3, <2>1 DEF IInv, MigrationTypeOK
    <3>2. CASE f > Files
      <4>1. \A g \in File : g \in Recorded'
        BY <3>2
      <4>2. Recorded' = File
        BY <4>1, <1>6
      <4> QED
        BY <3>1, <3>2, <4>2 DEF InLoop
    <3>3. CASE f <= Files
      BY <3>1, <3>3 DEF InLoop
    <3> QED
      BY <3>2, <3>3
  <2>2. CASE q # p
    <3>1. pc'[q] = pc[q] /\ pc[q] \notin Running /\ at'[q] = at[q]
      BY <1>2, <1>3, <2>2 DEF IInv, MigrationTypeOK
    <3>2. (pc[q] \in {"schema", "catalog", "serving"} /\ q \in Migrating) => Recorded = File
      BY DEF IInv, Behind
    <3> QED
      BY <3>1, <3>2, <1>6 DEF Running, InLoop
  <2> QED
    BY <2>1, <2>2
<1>8. ReadStill'
  BY <1>2, <1>3 DEF ReadStill, Running, IInv, MigrationTypeOK
<1>9. Checked'
  <2> SUFFICES ASSUME NEW q \in Process, NEW g \in File, applied[g] > 0
               PROVE  applied'[g] > 0
    BY <1>3 DEF Checked, IInv, MigrationTypeOK
  <2>1. applied[g] \in Nat /\ applied'[g] \in Nat /\ applied'[g] >= applied[g]
    BY DEF IInv, MigrationTypeOK
  <2> QED
    BY <2>1
<1> QED
  BY <1>4, <1>5, <1>7, <1>8, <1>9 DEF IInv

\* A step of one process that leaves the database alone, and the lock to its holder.
LEMMA QuietInv ==
  ASSUME IInv, NEW p \in Process, NEW l \in PC, Go(p, l), UNCHANGED database,
         lock' \in {Free} \union Sessions,
         \A q \in Process \ {p} : pc[q] \in Running => lock' = LiveSession(q),
         l \in Running => lock' = LiveSession(p),
         faults' \in 0 .. MaxFault, unreconciled' \subseteq Guarded,
         at' = at, known' \in [Process -> BOOLEAN], inserted' \in [Process -> BOOLEAN],
         \A q \in Process \ {p} : known'[q] = known[q] /\ inserted'[q] = inserted[q],
         l \in InLoop => pc[p] \in InLoop,
         l \in {"claim", "sql", "commit"} => (known'[p] <=> at[p] \in legacy),
         l \in {"sql", "commit"} => (inserted'[p] <=> at[p] \notin ledger),
         (l = "unlock" \/ (l \in {"schema", "catalog", "serving"} /\ p \in Migrating)) =>
            pc[p] = "unlock" \/ (pc[p] \in {"schema", "catalog", "serving"} /\ p \in Migrating),
         l \in {"catalog", "serving"} => \A f \in Required : applied[f] > 0,
         l = "serving" => \A f \in Located : applied[f] > 0
  PROVE  IInv'
<1> USE DEF Sessions
<1>1. pc' = [pc EXCEPT ![p] = l]
  BY DEF Go
<1>2. UNCHANGED <<table, ledger, legacy, applied>> /\ Recorded' = Recorded
  BY DEF database, Recorded
<1>3. MigrationTypeOK'
  BY <1>1, <1>2 DEF IInv, MigrationTypeOK
<1>4. Locked'
  BY <1>1, <1>2 DEF IInv, MigrationTypeOK, Locked
<1>5. Behind'
  BY <1>1, <1>2 DEF IInv, MigrationTypeOK, Behind
<1>6. ReadStill'
  BY <1>1, <1>2 DEF IInv, MigrationTypeOK, ReadStill
<1>7. AppliedExactly'
  BY <1>2 DEF IInv, AppliedExactly
<1>8. Checked'
  BY <1>1, <1>2 DEF IInv, MigrationTypeOK, Checked
<1> QED
  BY <1>3, <1>4, <1>5, <1>6, <1>7, <1>8 DEF IInv

-----------------------------------------------------------------------------
\* The database after the commit of p.
LEMMA CommittedInv ==
  ASSUME IInv, NEW p \in Process, pc[p] = "commit", Committed(p), legacy' = legacy
  PROVE  /\ ledger \subseteq ledger' /\ ledger' \subseteq File
         /\ applied' \in [File -> Nat]
         /\ \A g \in File : applied'[g] >= applied[g]
         /\ at[p] \in Recorded' /\ at[p] \in File
         /\ AppliedExactly'
         /\ \A f \in ledger' \ ledger : \A g \in File : g < f => g \in Recorded
<1> USE DEF Recorded
<1>1. /\ at[p] \in File /\ at[p] \in Nat
      /\ \A g \in File : g < at[p] => g \in Recorded
      /\ known[p] <=> at[p] \in legacy
      /\ inserted[p] <=> at[p] \notin ledger
  BY DEF IInv, Behind, ReadStill, InLoop, File
<1>2. applied \in [File -> Nat] /\ ledger \subseteq File
  BY DEF IInv, MigrationTypeOK
<1>3. ledger' = ledger \union {at[p]}
  BY <1>1 DEF Committed
<1>4. applied' = IF at[p] \notin ledger \union legacy
                 THEN [applied EXCEPT ![at[p]] = @ + 1] ELSE applied
  BY <1>1 DEF Committed
<1>5. applied' \in [File -> Nat]
  BY <1>1, <1>2, <1>4
<1>6. \A g \in File : applied'[g] >= applied[g]
  BY <1>1, <1>2, <1>4, <1>5
<1>7. AppliedExactly'
  <2> SUFFICES ASSUME NEW f \in File
               PROVE  applied'[f] = IF f \in ledger' \union legacy' THEN 1 ELSE 0
    BY DEF AppliedExactly
  <2>1. applied[f] = IF f \in ledger \union legacy THEN 1 ELSE 0
    BY DEF IInv, AppliedExactly
  <2>2. CASE f = at[p]
    BY <1>1, <1>2, <1>3, <1>4, <2>1, <2>2
  <2>3. CASE f # at[p]
    BY <1>1, <1>2, <1>3, <1>4, <2>1, <2>3
  <2> QED
    BY <2>2, <2>3
<1>8. \A f \in ledger' \ ledger : \A g \in File : g < f => g \in Recorded
  BY <1>1, <1>3
<1> QED
  BY <1>1, <1>2, <1>3, <1>5, <1>6, <1>7, <1>8

\* At most one process works, and it holds the lock.
LEMMA Alone ==
  ASSUME IInv, NEW p \in Process, pc[p] \in Running
  PROVE  lock = LiveSession(p) /\ \A q \in Process \ {p} : pc[q] \notin Running
BY DEF IInv, Locked, LiveSession

-----------------------------------------------------------------------------
LEMMA NextInv == IInv /\ [MigrationNext]_migrationVars => IInv'
<1> SUFFICES ASSUME IInv, [MigrationNext]_migrationVars PROVE IInv'
  OBVIOUS
<1> USE MigrationAssumption DEF Sessions
<1>0. /\ faults \in 0 .. MaxFault /\ known \in [Process -> BOOLEAN]
      /\ inserted \in [Process -> BOOLEAN] /\ pc \in [Process -> PC]
      /\ at \in [Process -> 1 .. Files + 1]
      /\ lock \in {Free} \union Sessions /\ unreconciled \subseteq Guarded
      /\ \A q \in Process : pc[q] \in Running => lock = LiveSession(q)
  BY DEF IInv, MigrationTypeOK, Locked
<1>1. ASSUME NEW p \in Process, Start(p) PROVE IInv'
  <2> DEFINE l == IF p \in Migrating THEN "lock" ELSE "schema"
  <2>1. l \in PC /\ l \notin Running /\ l \notin InLoop /\ l \notin {"catalog", "serving"}
    BY DEF PC, Running, InLoop
  <2>2. (l = "unlock" \/ (l \in {"schema", "catalog", "serving"} /\ p \in Migrating)) => FALSE
    OBVIOUS
  <2> HIDE DEF l
  <2>3. Go(p, l)
    BY <1>1 DEF Start, l
  <2> QED
    BY <1>0, <1>1, <2>1, <2>2, <2>3, QuietInv DEF Start, locals, Running, InLoop
<1>2. ASSUME NEW p \in Process, AcquireLock(p) PROVE IInv'
  <2>1. lock = Free /\ \A q \in Process : pc[q] \notin Running
    BY <1>0, <1>2 DEF AcquireLock, Obtains, LiveSession, Free
  <2> QED
    BY <1>0, <1>2, <2>1, QuietInv DEF AcquireLock, locals, Running, InLoop, PC
<1>3. ASSUME NEW p \in Process, CreateTable(p) PROVE IInv'
  <2>1. pc[p] \in Running
    BY <1>3 DEF CreateTable, Running
  <2>2. 1 \in 1 .. Files + 1 /\ \A g \in File : g < 1 => g \in Recorded'
    BY DEF File
  <2>3. /\ ledger \subseteq File /\ applied \in [File -> Nat]
        /\ AppliedExactly' /\ \A g \in File : applied[g] >= applied[g]
    BY <1>3 DEF CreateTable, IInv, MigrationTypeOK, AppliedExactly, Recorded
  <2> QED
    BY <1>3, <2>1, <2>2, <2>3, NextFileInv DEF CreateTable
<1>4. ASSUME NEW p \in Process, FindLegacy(p) PROVE IInv'
  <2>1. known'[p] <=> at[p] \in legacy
    BY <1>0, <1>4 DEF FindLegacy, HasLegacyRow
  <2>2. known' \in [Process -> BOOLEAN] /\ \A q \in Process \ {p} : known'[q] = known[q]
    BY <1>0, <1>4 DEF FindLegacy, HasLegacyRow
  <2> QED
    BY <1>0, <1>4, <2>1, <2>2, QuietInv DEF FindLegacy, Running, InLoop, PC
<1>5. ASSUME NEW p \in Process, ClaimFile(p) PROVE IInv'
  <2> DEFINE l == IF at[p] \notin ledger /\ ~known[p] THEN "sql" ELSE "commit"
  <2>1. l \in {"sql", "commit"}
    OBVIOUS
  <2> HIDE DEF l
  <2>2. Go(p, l) /\ pc[p] = "claim"
    BY <1>5 DEF ClaimFile, l
  <2>3. inserted'[p] <=> at[p] \notin ledger
    BY <1>0, <1>5 DEF ClaimFile
  <2>4. inserted' \in [Process -> BOOLEAN] /\ \A q \in Process \ {p} : inserted'[q] = inserted[q]
    BY <1>0, <1>5 DEF ClaimFile
  <2>5. known[p] <=> at[p] \in legacy
    BY <2>2 DEF IInv, ReadStill
  <2> QED
    BY <1>0, <1>5, <2>1, <2>2, <2>3, <2>4, <2>5, QuietInv DEF ClaimFile, Running, InLoop, PC
<1>6. ASSUME NEW p \in Process, RunSql(p) PROVE IInv'
  <2>1. (known[p] <=> at[p] \in legacy) /\ (inserted[p] <=> at[p] \notin ledger)
    BY <1>6 DEF RunSql, IInv, ReadStill
  <2> DEFINE l == IF at[p] \in unreconciled THEN "rollback" ELSE "commit"
  <2>2. l \in {"rollback", "commit"}
    OBVIOUS
  <2> HIDE DEF l
  <2>3. Go(p, l) /\ pc[p] = "sql"
    BY <1>6 DEF RunSql, l
  <2> QED
    BY <1>0, <1>6, <2>1, <2>2, <2>3, QuietInv DEF RunSql, locals, Running, InLoop, PC
<1>7. ASSUME NEW p \in Process, Commit(p) PROVE IInv'
  <2>1. pc[p] = "commit" /\ Committed(p) /\ legacy' = legacy /\ pc[p] \in Running
    BY <1>7 DEF Commit, Running
  <2>2. /\ at[p] \in File /\ at[p] + 1 \in 1 .. Files + 1
        /\ \A g \in File : g < at[p] + 1 => g \in Recorded'
    <3>1. at[p] \in File /\ at[p] \in Recorded' /\ ledger \subseteq ledger'
      BY <2>1, CommittedInv
    <3>2. \A g \in File : g < at[p] => g \in Recorded'
      BY <2>1, <3>1 DEF IInv, Behind, InLoop, Recorded
    <3> QED
      BY <3>1, <3>2 DEF File
  <2>3. table' \in BOOLEAN /\ NextFile(p, at[p] + 1) /\ lock' = lock /\ faults' = faults
    BY <1>7 DEF Commit, IInv, MigrationTypeOK
  <2>4. unreconciled' = unreconciled
    BY <1>7 DEF Commit
  <2> QED
    BY <2>1, <2>2, <2>3, <2>4, CommittedInv, NextFileInv
<1>8. ASSUME NEW p \in Process, RollBack(p) PROVE IInv'
  BY <1>0, <1>8, QuietInv DEF RollBack, Throws, locals, Running, InLoop, PC
<1>9. ASSUME NEW p \in Process, ReleaseLock(p) PROVE IInv'
  <2> DEFINE l == IF pc[p] = "unlock" THEN "schema" ELSE "down"
  <2>1. l \in {"schema", "down"} /\ (l = "schema" => pc[p] = "unlock")
    OBVIOUS
  <2> HIDE DEF l
  <2>2. Go(p, l) /\ pc[p] \in Running /\ lock' = Free
    BY <1>9 DEF ReleaseLock, Released, Running, l
  <2>3. \A q \in Process \ {p} : pc[q] \notin Running
    BY <2>2, Alone
  <2> QED
    BY <1>0, <1>9, <2>1, <2>2, <2>3, QuietInv DEF ReleaseLock, locals, Running, InLoop, PC
<1>10. ASSUME NEW p \in Process, CheckSchema(p) PROVE IInv'
  <2> DEFINE l == IF SchemaReady THEN "catalog" ELSE "down"
  <2>1. l \in {"catalog", "down"} /\ (l = "catalog" => \A f \in Required : applied[f] > 0)
    BY DEF SchemaReady
  <2> HIDE DEF l
  <2>2. Go(p, l) /\ pc[p] = "schema"
    BY <1>10 DEF CheckSchema, l
  <2> QED
    BY <1>0, <1>10, <2>1, <2>2, QuietInv DEF CheckSchema, locals, Running, InLoop, PC
<1>10a. ASSUME NEW p \in Process, EnsureCatalog(p) PROVE IInv'
  <2> DEFINE l == IF \A f \in Located : applied[f] > 0 THEN "serving" ELSE "down"
  <2>1. l \in {"serving", "down"} /\ (l = "serving" => \A f \in Located : applied[f] > 0)
    OBVIOUS
  <2> HIDE DEF l
  <2>2. Go(p, l) /\ pc[p] = "catalog" /\ \A f \in Required : applied[f] > 0
    BY <1>10a DEF EnsureCatalog, l, IInv, Checked
  <2> QED
    BY <1>0, <1>10a, <2>1, <2>2, QuietInv DEF EnsureCatalog, locals, Running, InLoop, PC
<1>11. ASSUME NEW p \in Process, StatementFails(p) PROVE IInv'
  <2>1. faults' \in 0 .. MaxFault
    BY <1>0, <1>11 DEF StatementFails, Fault
  <2>2. CASE pc[p] = "table" /\ Go(p, "abandon")
    BY <1>0, <1>11, <2>1, <2>2, QuietInv DEF StatementFails, locals, Running, InLoop, PC
  <2>3. CASE pc[p] \in {"legacy", "claim", "sql", "commit"} /\ Go(p, "rollback")
    BY <1>0, <1>11, <2>1, <2>3, QuietInv DEF StatementFails, locals, Running, InLoop, PC
  <2>4. CASE pc[p] \in {"lock", "schema", "catalog"} /\ Go(p, "down")
    BY <1>0, <1>11, <2>1, <2>4, QuietInv DEF StatementFails, locals, Running, InLoop, PC
  <2> QED
    BY <1>11, <2>2, <2>3, <2>4 DEF StatementFails
<1>12. ASSUME NEW p \in Process, Orphaned(p)
       PROVE  /\ lock' \in {Free} \union Sessions
              /\ \A q \in Process \ {p} : pc[q] \in Running => lock' = LiveSession(q)
  BY <1>0, <1>12 DEF Orphaned, LiveSession
<1>13. ASSUME NEW p \in Process, Crash(p) PROVE IInv'
  <2>1. faults' \in 0 .. MaxFault
    BY <1>0, <1>13 DEF Crash, Fault
  <2> QED
    BY <1>0, <1>12, <1>13, <2>1, QuietInv DEF Crash, locals, Running, InLoop, PC
<1>14. ASSUME NEW p \in Process, CrashInCommit(p) PROVE IInv'
  <2>1. /\ pc[p] = "commit" /\ Committed(p) /\ legacy' = legacy /\ table' = table
        /\ pc' = [pc EXCEPT ![p] = "down"] /\ Orphaned(p)
        /\ at' = at /\ known' = known /\ inserted' = inserted /\ faults' \in 0 .. MaxFault
    BY <1>0, <1>14 DEF CrashInCommit, Go, locals, Fault
  <2>2. /\ ledger \subseteq ledger' /\ ledger' \subseteq File
        /\ applied' \in [File -> Nat]
        /\ \A g \in File : applied'[g] >= applied[g]
        /\ AppliedExactly' /\ unreconciled' = unreconciled
    BY <1>14, <2>1, CommittedInv DEF CrashInCommit
  <2>3. \A q \in Process \ {p} : pc[q] \notin Running
    BY <2>1, Alone DEF Running
  <2>4. MigrationTypeOK'
    BY <1>12, <2>1, <2>2 DEF IInv, MigrationTypeOK, PC
  <2>5. Locked'
    BY <1>0, <2>1, <2>3 DEF Locked, Running
  <2>6. Behind'
    <3>1. Recorded \subseteq Recorded' /\ Recorded' \subseteq File
      BY <2>1, <2>2 DEF IInv, MigrationTypeOK, Recorded, File
    <3> QED
      BY <1>0, <2>1, <2>3, <3>1 DEF IInv, Behind, Running, InLoop
  <2>7. ReadStill'
    BY <1>0, <2>1, <2>3 DEF ReadStill, Running
  <2>8. Checked'
    <3> SUFFICES ASSUME NEW g \in File, applied[g] > 0
                 PROVE  applied'[g] > 0
      BY <1>0, <2>1, MigrationAssumption DEF Checked, IInv, File
    <3>1. applied[g] \in Nat /\ applied'[g] \in Nat /\ applied'[g] >= applied[g]
      BY <2>2 DEF IInv, MigrationTypeOK
    <3> QED
      BY <3>1
  <2> QED
    BY <2>2, <2>4, <2>5, <2>6, <2>7, <2>8 DEF IInv
<1>15. CASE EndSession
  <2>1. \A q \in Process : pc[q] \notin Running
    <3>1. PICK d \in Process : lock = DeadSession(d)
      BY <1>15 DEF EndSession
    <3>2. lock.kind = "dead" /\ \A q \in Process : LiveSession(q).kind = "live"
      BY <3>1 DEF LiveSession, DeadSession
    <3> QED
      BY <1>0, <3>2
  <2> QED
    BY <1>0, <1>15, <2>1 DEF EndSession, database, locals, IInv, MigrationTypeOK, Locked, Behind, ReadStill,
         AppliedExactly, Checked, Recorded
<1>16. CASE UNCHANGED migrationVars
  BY <1>16 DEF migrationVars, database, locals, IInv, MigrationTypeOK, Locked, Behind, ReadStill,
       AppliedExactly, Checked, Recorded
<1>17. CASE DataChanges
  BY <1>17 DEF DataChanges, database, locals, IInv, MigrationTypeOK, Locked, Behind, ReadStill,
       AppliedExactly, Checked, Recorded
<1> QED
  BY <1>1, <1>2, <1>3, <1>4, <1>5, <1>6, <1>7, <1>8, <1>9, <1>10, <1>10a, <1>11, <1>13, <1>14,
     <1>15, <1>16, <1>17 DEF MigrationNext, Run

-----------------------------------------------------------------------------
\* Every reachable state satisfies the inductive invariant: what holds between the lock,
\* the runner that owns it and the rows of schema_migrations (runSqlMigrations).
THEOREM MigrationInductive == MigrationSpec => []IInv
BY InitInv, NextInv, PTL DEF MigrationSpec

\* Every variable holds values of its kind, for any number of files and processes.
THEOREM MigrationTypeCorrect == MigrationSpec => []MigrationTypeOK
<1>1. IInv => MigrationTypeOK
  BY DEF IInv
<1> QED
  BY <1>1, MigrationInductive, PTL

\* No SQL file is committed twice, and none is recorded without it, whatever crashes,
\* fails or starts at the same time (claim and SQL in one transaction, legacy names).
THEOREM AppliedOnce == MigrationSpec => []AppliedExactly
<1>1. IInv => AppliedExactly
  BY DEF IInv
<1> QED
  BY <1>1, MigrationInductive, PTL

\* A run records a file only when every file before it is recorded, whatever gaps earlier
\* releases have left: the first failure ends the run (the catch block throws).
THEOREM FilesInOrder == MigrationSpec => InOrder
<1> DEFINE Step == \A f \in ledger' \ ledger : \A g \in File : g < f => g \in Recorded
<1>1. ASSUME IInv, [MigrationNext]_migrationVars PROVE [Step]_migrationVars
  <2>1. ASSUME NEW p \in Process, Commit(p) \/ CrashInCommit(p) PROVE Step
    <3>1. pc[p] = "commit" /\ Committed(p) /\ legacy' = legacy
      BY <2>1 DEF Commit, CrashInCommit
    <3> QED
      BY <1>1, <3>1, CommittedInv
  <2>2. ledger' = ledger \/ \E p \in Process : Commit(p) \/ CrashInCommit(p)
    BY <1>1 DEF MigrationNext, migrationVars, database, Run, Start, AcquireLock, CreateTable, FindLegacy,
       ClaimFile, RunSql, RollBack, ReleaseLock, CheckSchema, EnsureCatalog, StatementFails, Crash,
       EndSession, DataChanges
  <2> QED
    BY <2>1, <2>2
<1> QED
  BY <1>1, MigrationInductive, PTL DEF MigrationSpec, InOrder

\* The advisory lock excludes a second runner, sessions of dead processes included.
THEOREM RunnerExclusive == MigrationSpec => []OneRunner
<1>1. IInv => OneRunner
  BY DEF IInv, Locked, OneRunner, LiveSession
<1> QED
  BY <1>1, MigrationInductive, PTL

\* A process that serves after running migrations finds them all applied.  One that does not
\* run them, as by default, finds the tables that are required and those of the location
\* catalog, and nothing more is promised of the other files.
THEOREM ServesMigrated == MigrationSpec => []ServingIsMigrated
<1>1. ASSUME IInv PROVE ServingIsMigrated
  <2> SUFFICES ASSUME NEW p \in Process, pc[p] = "serving"
               PROVE  /\ p \in Migrating => Recorded = File
                      /\ Required \union Located \subseteq Recorded
    BY DEF ServingIsMigrated
  <2>1. p \in Migrating => Recorded = File
    BY <1>1 DEF IInv, Behind
  <2>2. \A f \in Required \union Located : f \in File /\ applied[f] > 0
    BY <1>1, MigrationAssumption DEF IInv, Checked, File
  <2>3. \A f \in Required \union Located : f \in Recorded
    BY <1>1, <2>2 DEF IInv, AppliedExactly
  <2> QED
    BY <2>1, <2>3
<1> QED
  BY <1>1, MigrationInductive, PTL

(***************************************************************************)
(* ModuleAvailability.                                                     *)
(***************************************************************************)
\* TypeOK in parts that are disturbed by different actions.
LifecycleTypes ==
  /\ lifecycle \in LIFECYCLES \cup {"missing"}
  /\ version \in 0..MaxVersion
  /\ audit \in Seq(LIFECYCLES)
  /\ foretold \subseteq 1..MaxVersion

BindingTypes ==
  /\ published \subseteq ModuleVersion
  /\ compatibility \in [ModuleVersion -> CompatibilityStatus]
  /\ status \in [Binding -> {"missing", "bound", "suspended"}]

EvidenceTypes ==
  /\ now \in 0..MaxTime
  /\ health \in [Binding -> HealthState]
  /\ observedAt \in [Binding -> 0..MaxTime]
  /\ circuit \in [Binding -> CircuitState]
  /\ policy \in PolicyMode

ReadTypes ==
  /\ op \in [Resolver -> Operation \cup {NoOperation}]
  /\ evaluatedAt \in [Resolver -> 0..MaxTime]
  /\ lifecycleOf \in [Resolver -> LIFECYCLES \cup {"missing"}]
  /\ bindingOf \in [Resolver -> Binding \cup {None}]
  /\ healthOf \in [Resolver -> HealthState]
  /\ compatibleOf \in [Resolver -> BOOLEAN]

CallTypes ==
  /\ rpc \in [Resolver -> {"idle", "installation", "bindings", "compatibility", "health",
                           "circuit", "decided"}]
  /\ decision \in [Resolver -> {"none", "denied", "read only", "executable"}]
  /\ openSince \in [Resolver -> SUBSET Binding]
  /\ startedAs \in [Resolver -> LIFECYCLES \cup {"missing"}]

LEMMA TypeParts ==
  TypeOK <=> LifecycleTypes /\ BindingTypes /\ EvidenceTypes /\ ReadTypes /\ CallTypes
BY Zenon DEF TypeOK, LifecycleTypes, BindingTypes, EvidenceTypes, ReadTypes, CallTypes

LEMMA TypePartsNext ==
  TypeOK' <=> LifecycleTypes' /\ BindingTypes' /\ EvidenceTypes' /\ ReadTypes' /\ CallTypes'
BY Zenon DEF TypeOK, LifecycleTypes, BindingTypes, EvidenceTypes, ReadTypes, CallTypes

\* A call that asks for compatibility, health or circuit has a binding to ask for:
\* what the types of the reads rest on.
Bound ==
  \A q \in Resolver : rpc[q] \in {"compatibility", "health", "circuit"} => bindingOf[q] \in Binding

\* A part whose variables do not change.
LEMMA TypeKept ==
  /\ LifecycleTypes /\ UNCHANGED lifecycleVars => LifecycleTypes'
  /\ BindingTypes /\ UNCHANGED <<published, compatibility, status>> => BindingTypes'
  /\ EvidenceTypes /\ UNCHANGED evidence => EvidenceTypes'
  /\ ReadTypes /\ UNCHANGED <<reads, compatibleOf>> => ReadTypes'
  /\ CallTypes /\ UNCHANGED <<rpc, decision, openSince, startedAs>> => CallTypes'
<1>1. LifecycleTypes /\ UNCHANGED lifecycleVars => LifecycleTypes'
  BY DEF LifecycleTypes, lifecycleVars
<1>2. BindingTypes /\ UNCHANGED <<published, compatibility, status>> => BindingTypes'
  BY DEF BindingTypes
<1>3. EvidenceTypes /\ UNCHANGED evidence => EvidenceTypes'
  BY DEF EvidenceTypes, evidence
<1>4. ReadTypes /\ UNCHANGED <<reads, compatibleOf>> => ReadTypes'
  BY DEF ReadTypes, reads
<1>5. CallTypes /\ UNCHANGED <<rpc, decision, openSince, startedAs>> => CallTypes'
  BY DEF CallTypes
<1> QED
  BY <1>1, <1>2, <1>3, <1>4, <1>5

LEMMA TypeInit == AvailabilityInit => TypeOK
<1> SUFFICES ASSUME AvailabilityInit PROVE TypeOK
  OBVIOUS
<1> USE AvailabilityAssumption DEF AvailabilityAssumption, AvailabilityInit
<1>1. LifecycleTypes
  BY DEF Init, LifecycleTypes
<1>2. BindingTypes
  BY DEF BindingTypes, CompatibilityStatus
<1>3. EvidenceTypes
  BY DEF EvidenceTypes, HealthState, CircuitState, PolicyMode
<1>4. ReadTypes
  BY DEF ReadTypes, HealthState
<1>5. CallTypes
  BY DEF CallTypes
<1> QED
  BY <1>1, <1>2, <1>3, <1>4, <1>5, TypeParts

LEMMA LifecycleTyped ==
  ASSUME LifecycleTypes, Install \/ Move \/ Overtake, version < MaxVersion PROVE LifecycleTypes'
<1>0. \A s \in LIFECYCLES : TRANSITIONS[s] \subseteq LIFECYCLES
  BY DEF LIFECYCLES, TRANSITIONS
<1>1. PICK to \in LIFECYCLES : Enter(to)
  <2>1. CASE Install
    BY <2>1 DEF Install
  <2>2. CASE Move
    BY <1>0, <2>2 DEF Move
  <2>3. CASE Overtake
    <3>1. PICK i \in 1..Len(audit) : \E to \in TRANSITIONS[audit[i]] : Enter(to)
      BY <2>3 DEF Overtake
    <3>2. audit[i] \in LIFECYCLES
      BY <3>1 DEF LifecycleTypes
    <3> QED
      BY <1>0, <3>1, <3>2
  <2> QED
    BY <2>1, <2>2, <2>3
<1>2. version' \in 0..MaxVersion
  BY <1>1, AvailabilityAssumption DEF AvailabilityAssumption, LifecycleTypes, Enter
<1>3. audit' \in Seq(LIFECYCLES)
  BY <1>1 DEF LifecycleTypes, Enter
<1> QED
  BY <1>1, <1>2, <1>3 DEF LifecycleTypes, Enter

LEMMA ForetoldTyped ==
  ASSUME LifecycleTypes, NEW e \in (version + 1)..(MaxVersion - 1), Foretell(e) PROVE LifecycleTypes'
BY AvailabilityAssumption DEF AvailabilityAssumption, LifecycleTypes, Foretell

LEMMA ControlTyped ==
  ASSUME TypeOK, ControlStep PROVE LifecycleTypes' /\ BindingTypes' /\ UNCHANGED <<evidence, resolverVars>>
<1> USE TypeParts, TypeKept
<1>1. ASSUME LifecycleStep PROVE LifecycleTypes' /\ BindingTypes' /\ UNCHANGED <<evidence, resolverVars>>
  BY <1>1, LifecycleTyped, ForetoldTyped DEF LifecycleStep
<1>2. ASSUME UNCHANGED <<lifecycleVars, evidence, resolverVars>>, BindingTypes'
      PROVE  LifecycleTypes' /\ BindingTypes' /\ UNCHANGED <<evidence, resolverVars>>
  BY <1>2
<1>3. ASSUME NEW v \in ModuleVersion, Publish(v)
      PROVE  BindingTypes' /\ UNCHANGED <<lifecycleVars, evidence, resolverVars>>
  BY <1>3 DEF Publish, BindingTypes
<1>4. ASSUME NEW v \in ModuleVersion, NEW s \in CompatibilityStatus, RecordCompatibility(v, s)
      PROVE  BindingTypes' /\ UNCHANGED <<lifecycleVars, evidence, resolverVars>>
  BY <1>4 DEF RecordCompatibility, BindingTypes
<1>5. ASSUME NEW b \in Binding, Bind(b) \/ Suspend(b)
      PROVE  BindingTypes' /\ UNCHANGED <<lifecycleVars, evidence, resolverVars>>
  BY <1>5 DEF Bind, Suspend, BindingTypes
<1> QED
  BY <1>1, <1>2, <1>3, <1>4, <1>5 DEF ControlStep

LEMMA EvidenceTyped ==
  ASSUME TypeOK, EvidenceStep
  PROVE  /\ EvidenceTypes' /\ openSince' \in [Resolver -> SUBSET Binding]
         /\ UNCHANGED <<control, reads, compatibleOf, rpc, decision, startedAs>>
<1> USE TypeParts
<1>1. ASSUME Tick PROVE EvidenceTypes' /\ UNCHANGED <<control, resolverVars>>
  BY <1>1, AvailabilityAssumption DEF AvailabilityAssumption, Tick, EvidenceTypes
<1>2. ASSUME NEW b \in Binding, NEW s \in HealthState, NEW seen \in 0..now, RecordHealth(b, s, seen)
      PROVE  EvidenceTypes' /\ UNCHANGED <<control, resolverVars>>
  <2>1. seen \in 0..MaxTime
    BY <1>2, AvailabilityAssumption DEF AvailabilityAssumption, EvidenceTypes
  <2>2. health' \in [Binding -> HealthState \cup {"missing"}] /\ observedAt' \in [Binding -> 0..MaxTime]
    BY <1>2, <2>1 DEF RecordHealth, EvidenceTypes
  <2> QED
    BY <1>2, <2>2 DEF RecordHealth, EvidenceTypes
<1>3. ASSUME NEW b \in Binding, NEW s \in CircuitState, WriteCircuit(b, s)
      PROVE  /\ EvidenceTypes' /\ openSince' \in [Resolver -> SUBSET Binding]
             /\ UNCHANGED <<control, reads, compatibleOf, rpc, decision, startedAs>>
  <2>1. circuit' \in [Binding -> CircuitState \cup {"missing"}]
    BY <1>3 DEF WriteCircuit, EvidenceTypes
  <2>2. openSince' \in [Resolver -> SUBSET Binding]
    BY <1>3 DEF WriteCircuit, CallTypes
  <2> QED
    BY <1>3, <2>1, <2>2 DEF WriteCircuit, EvidenceTypes
<1> QED
  BY <1>1, <1>2, <1>3 DEF EvidenceStep, CallTypes, resolverVars

LEMMA ResolveTyped ==
  ASSUME TypeOK, Bound, NEW q \in Resolver, ResolveStep(q)
  PROVE  ReadTypes' /\ CallTypes' /\ UNCHANGED <<control, evidence>>
<1> USE TypeParts DEF reads, Read, Decide
<1>1. ASSUME NEW o \in Operation, ResolveStart(q, o)
      PROVE  ReadTypes' /\ CallTypes' /\ UNCHANGED <<control, evidence>>
  BY <1>1 DEF ResolveStart, ReadTypes, CallTypes, LifecycleTypes, EvidenceTypes
<1>2. ASSUME ReadInstallation(q) PROVE ReadTypes' /\ CallTypes' /\ UNCHANGED <<control, evidence>>
  <2>1. ReadTypes'
    BY <1>2 DEF ReadInstallation, ReadTypes, LifecycleTypes
  <2>2. CallTypes'
    BY <1>2 DEF ReadInstallation, CallTypes
  <2> QED
    BY <1>2, <2>1, <2>2 DEF ReadInstallation
<1>3. ASSUME ReadBindings(q) PROVE ReadTypes' /\ CallTypes' /\ UNCHANGED <<control, evidence>>
  <2>1. bindingOf' \in [Resolver -> Binding \cup {None}]
    <3>1. CASE UNCHANGED bindingOf
      BY <3>1 DEF ReadTypes
    <3>2. CASE \E b \in ExecutableBinding : bindingOf' = [bindingOf EXCEPT ![q] = b]
      BY <3>2 DEF ReadTypes, ExecutableBinding
    <3> QED
      BY <1>3, <3>1, <3>2 DEF ReadBindings
  <2>2. CallTypes'
    BY <1>3 DEF ReadBindings, CallTypes
  <2> QED
    BY <1>3, <2>1, <2>2 DEF ReadBindings, ReadTypes
<1>4. ASSUME ReadCompatibility(q) PROVE ReadTypes' /\ CallTypes' /\ UNCHANGED <<control, evidence>>
  <2>1. ReadTypes'
    BY <1>4 DEF ReadCompatibility, ReadTypes
  <2>2. CallTypes'
    BY <1>4 DEF ReadCompatibility, CallTypes
  <2> QED
    BY <1>4, <2>1, <2>2 DEF ReadCompatibility
<1>5. ASSUME ReadHealth(q) PROVE ReadTypes' /\ CallTypes' /\ UNCHANGED <<control, evidence>>
  <2>1. Read(q, "circuit") \/ Decide(q, "read only") \/ Decide(q, "denied")
    BY <1>5 DEF ReadHealth
  <2>2. CallTypes'
    BY <2>1 DEF CallTypes
  <2>3. bindingOf[q] \in Binding => health[bindingOf[q]] \in HealthState
    BY DEF EvidenceTypes
  <2>4. healthOf' = [healthOf EXCEPT ![q] = health[bindingOf[q]]]
    BY <1>5 DEF ReadHealth
  <2>5. bindingOf[q] \in Binding
    BY <1>5 DEF ReadHealth, Bound
  <2> QED
    BY <1>5, <2>2, <2>3, <2>4, <2>5 DEF ReadHealth, ReadTypes
<1>6. ASSUME ReadCircuit(q) PROVE ReadTypes' /\ CallTypes' /\ UNCHANGED <<control, evidence>>
  <2>1. ReadTypes'
    BY <1>6 DEF ReadCircuit, ReadTypes
  <2>2. CallTypes'
    BY <1>6 DEF ReadCircuit, CallTypes
  <2> QED
    BY <1>6, <2>1, <2>2 DEF ReadCircuit
<1> QED
  BY <1>1, <1>2, <1>3, <1>4, <1>5, <1>6 DEF ResolveStep

LEMMA BoundNext == TypeOK /\ Bound /\ [AvailabilityNext]_vars => Bound'
<1> SUFFICES ASSUME TypeOK, Bound, [AvailabilityNext]_vars PROVE Bound'
  OBVIOUS
<1> USE DEF Bound
<1>0. /\ rpc \in [Resolver -> {"idle", "installation", "bindings", "compatibility", "health",
                              "circuit", "decided"}]
      /\ bindingOf \in [Resolver -> Binding \cup {None}]
  BY DEF TypeOK
<1>1. ASSUME NEW q \in Resolver, NEW s \in {"installation", "bindings", "decided"},
             rpc' = [rpc EXCEPT ![q] = s],
             \A r \in Resolver : r # q => bindingOf'[r] = bindingOf[r]
      PROVE  Bound'
  BY <1>0, <1>1
<1>2. ASSUME NEW q \in Resolver, ReadBindings(q) PROVE Bound'
  <2>1. CASE rpc' = [rpc EXCEPT ![q] = "decided"] /\ UNCHANGED bindingOf
    BY <1>1, <2>1
  <2>2. ASSUME NEW b \in Binding, bindingOf' = [bindingOf EXCEPT ![q] = b],
               rpc' = [rpc EXCEPT ![q] = "compatibility"]
        PROVE  Bound'
    BY <1>0, <2>2
  <2> QED
    BY <1>2, <2>1, <2>2 DEF ReadBindings, ExecutableBinding, Read, Decide
<1>3. ASSUME NEW q \in Resolver, rpc[q] \in {"compatibility", "health"}, UNCHANGED bindingOf,
             NEW s \in {"health", "circuit", "decided"}, rpc' = [rpc EXCEPT ![q] = s]
      PROVE  Bound'
  BY <1>0, <1>3
<1>4. ASSUME NEW q \in Resolver, NEW o \in Operation, ResolveStart(q, o) PROVE Bound'
  BY <1>1, <1>4 DEF ResolveStart
<1>5. ASSUME NEW q \in Resolver, ReadInstallation(q) PROVE Bound'
  BY <1>1, <1>5 DEF ReadInstallation, Read, Decide
<1>6. ASSUME NEW q \in Resolver, ReadCompatibility(q) \/ ReadHealth(q) \/ ReadCircuit(q) PROVE Bound'
  <2>1. CASE ReadCompatibility(q)
    BY <1>3, <2>1 DEF ReadCompatibility, Read, Decide, reads
  <2>2. CASE ReadHealth(q)
    <3>1. Read(q, "circuit") \/ Decide(q, "read only") \/ Decide(q, "denied")
      BY <2>2 DEF ReadHealth
    <3> QED
      BY <1>3, <2>2, <3>1 DEF ReadHealth, Read, Decide
  <2>3. CASE ReadCircuit(q)
    BY <1>1, <2>3 DEF ReadCircuit, Decide, reads
  <2> QED
    BY <1>6, <2>1, <2>2, <2>3
<1>7. CASE UNCHANGED <<rpc, bindingOf>>
  BY <1>7
<1>8. CASE ControlStep
  BY <1>7, <1>8, ControlTyped DEF resolverVars, reads
<1>9. CASE EvidenceStep
  BY <1>7, <1>9, EvidenceTyped DEF reads
<1> QED
  BY <1>2, <1>4, <1>5, <1>6, <1>7, <1>8, <1>9
     DEF AvailabilityNext, ResolveStep, vars, resolverVars, reads

LEMMA TypeNext == TypeOK /\ Bound /\ [AvailabilityNext]_vars => TypeOK'
<1> SUFFICES ASSUME TypeOK, Bound, [AvailabilityNext]_vars PROVE TypeOK'
  OBVIOUS
<1> USE TypeParts, TypePartsNext, TypeKept DEF control, resolverVars
<1>1. CASE ControlStep
  BY <1>1, ControlTyped
<1>2. CASE EvidenceStep
  BY <1>2, EvidenceTyped DEF CallTypes
<1>3. ASSUME NEW q \in Resolver, ResolveStep(q) PROVE TypeOK'
  BY <1>3, ResolveTyped
<1>4. CASE UNCHANGED vars
  BY <1>4 DEF vars
<1> QED
  BY <1>1, <1>2, <1>3, <1>4 DEF AvailabilityNext

\* Rows, evidence and what a call has read keep their types.
THEOREM TypeCorrect == AvailabilitySpec => []TypeOK
<1>1. AvailabilityInit => Bound
  BY DEF AvailabilityInit, Bound
<1> QED
  BY <1>1, TypeInit, TypeNext, BoundNext, PTL DEF AvailabilitySpec

-----------------------------------------------------------------------------
\* A call that has not decided has returned nothing; one that began under
\* decommissioning finds it there, and gets no further than the installation,
\* as long as no call of the control plane has named a version ahead of the row.
Gone ==
  /\ \A q \in Resolver : rpc[q] # "decided" => decision[q] = "none"
  /\ foretold = {} =>
       \A q \in Resolver : startedAs[q] = "decommissioning" =>
         /\ lifecycle = "decommissioning"
         /\ rpc[q] \in {"installation", "decided"}
         /\ decision[q] \in {"none", "denied"}

\* A foretold version stays so, and without one decommissioning is not left.
LEMMA DecommissioningStays ==
  ASSUME ControlStep
  PROVE  /\ foretold' = {} => foretold = {}
         /\ foretold = {} /\ lifecycle = "decommissioning" => UNCHANGED lifecycle
<1>1. CASE LifecycleStep
  <2>1. CASE \E e \in (version + 1)..(MaxVersion - 1) : Foretell(e)
    BY <2>1 DEF Foretell
  <2>2. CASE Install \/ Overtake
    BY <2>2 DEF Install, Overtake, Enter
  <2>3. CASE Move
    BY <2>3 DEF Move, Enter, TRANSITIONS
  <2> QED
    BY <1>1, <2>1, <2>2, <2>3 DEF LifecycleStep
<1> QED
  BY <1>1 DEF ControlStep, Publish, RecordCompatibility, Bind, Suspend, lifecycleVars

LEMMA GoneNext == TypeOK /\ Gone /\ [AvailabilityNext]_vars => Gone'
<1> SUFFICES ASSUME TypeOK, Gone, [AvailabilityNext]_vars PROVE Gone'
  OBVIOUS
<1> USE TypeParts DEF Gone, Read, Decide, CallTypes
<1>1. CASE /\ UNCHANGED <<rpc, decision, startedAs>> /\ (foretold' = {} => foretold = {})
           /\ foretold = {} /\ lifecycle = "decommissioning" => UNCHANGED lifecycle
  BY <1>1
<1>2. CASE ControlStep
  BY <1>1, <1>2, ControlTyped, DecommissioningStays DEF resolverVars
<1>3. CASE EvidenceStep
  BY <1>1, <1>3, EvidenceTyped DEF control, lifecycleVars
<1>4. ASSUME NEW q \in Resolver, NEW o \in Operation, ResolveStart(q, o) PROVE Gone'
  BY <1>4 DEF ResolveStart, control, lifecycleVars
<1>5. ASSUME NEW q \in Resolver, ReadInstallation(q) PROVE Gone'
  BY <1>5 DEF ReadInstallation, Live, control, lifecycleVars
<1>6. ASSUME NEW q \in Resolver, rpc[q] \in {"bindings", "compatibility", "health", "circuit"},
             \/ \E s \in {"compatibility", "health", "circuit"} : Read(q, s)
             \/ \E d \in {"denied", "read only", "executable"} : Decide(q, d),
             UNCHANGED <<lifecycle, foretold>>
      PROVE  Gone'
  BY <1>6
<1>7. ASSUME NEW q \in Resolver,
             ReadBindings(q) \/ ReadCompatibility(q) \/ ReadHealth(q) \/ ReadCircuit(q)
      PROVE  Gone'
  <2>1. CASE ReadBindings(q)
    BY <1>6, <2>1 DEF ReadBindings, control, lifecycleVars
  <2>2. CASE ReadCompatibility(q)
    BY <1>6, <2>2 DEF ReadCompatibility, control, lifecycleVars
  <2>3. CASE ReadHealth(q)
    <3>1. Read(q, "circuit") \/ Decide(q, "read only") \/ Decide(q, "denied")
      BY <2>3 DEF ReadHealth
    <3> QED
      BY <1>6, <2>3, <3>1 DEF ReadHealth, control, lifecycleVars
  <2>4. CASE ReadCircuit(q)
    BY <1>6, <2>4 DEF ReadCircuit, control, lifecycleVars
  <2> QED
    BY <1>7, <2>1, <2>2, <2>3, <2>4
<1>8. CASE UNCHANGED vars
  BY <1>1, <1>8 DEF vars, resolverVars, control, lifecycleVars
<1> QED
  BY <1>2, <1>3, <1>4, <1>5, <1>7, <1>8 DEF AvailabilityNext, ResolveStep

\* A call made once the module is decommissioning denies, whatever moves meanwhile,
\* unless some transition named a version ahead of the row.
THEOREM DecommissionedIsDenied == AvailabilitySpec => []DecommissionedDenied
<1>1. AvailabilityInit => Gone
  BY DEF AvailabilityInit, Gone
<1>2. Gone => DecommissionedDenied
  BY DEF Gone, DecommissionedDenied, Executable
<1> QED
  BY <1>1, <1>2, GoneNext, TypeCorrect, PTL DEF AvailabilitySpec
-----------------------------------------------------------------------------
\* A call gets to the circuit on healthy evidence, or on degraded health under a policy
\* that does not deny it; what it finds open there has been open since it began or is denied:
\* an open circuit is passed by on degraded health and the read-only policy only.
Judged ==
  \A q \in Resolver :
    /\ rpc[q] # "decided" => decision[q] = "none"
    /\ rpc[q] = "circuit" /\ healthOf[q] = "degraded" => ~PolicyDenies(op[q])
    /\ \A b \in openSince[q] : circuit[b] = "open"
    /\ Executable(q) /\ bindingOf[q] \in openSince[q] =>
         healthOf[q] = "degraded" /\ policy = "read_only" /\ op[q].kind = "read"

\* A decision is one call's own.
LEMMA DecidesAlone ==
  ASSUME CallTypes, NEW q \in Resolver, NEW d, Decide(q, d)
  PROVE  /\ rpc'[q] = "decided" /\ decision'[q] = d
         /\ \A r \in Resolver \ {q} : rpc'[r] = rpc[r] /\ decision'[r] = decision[r]
<1>1. rpc \in [Resolver -> {rpc[r] : r \in Resolver}] /\ decision \in [Resolver -> {decision[r] : r \in Resolver}]
  BY DEF CallTypes
<1>2. rpc' = [rpc EXCEPT ![q] = "decided"] /\ decision' = [decision EXCEPT ![q] = d]
  BY DEF Decide
<1> QED
  BY <1>1, <1>2

LEMMA JudgedNext ==
  TypeOK /\ Judged /\ DegradedNeedsPolicy /\ [AvailabilityNext]_vars => Judged' /\ DegradedNeedsPolicy'
<1> SUFFICES ASSUME TypeOK, Judged, DegradedNeedsPolicy, [AvailabilityNext]_vars
             PROVE  Judged' /\ DegradedNeedsPolicy'
  OBVIOUS
<1> USE DEF Judged, DegradedNeedsPolicy, Executable, PolicyDenies
<1>0. CallTypes /\ ReadTypes /\ EvidenceTypes
  BY TypeParts
<1>1. CASE UNCHANGED <<rpc, reads, decision, policy>> /\ UNCHANGED <<openSince, circuit>>
  BY <1>1 DEF reads
<1>2. CASE ControlStep
  BY <1>1, <1>2, ControlTyped DEF resolverVars, evidence
<1>3. CASE EvidenceStep
  <2>1. CASE Tick \/ \E b \in Binding, s \in HealthState, seen \in 0..now : RecordHealth(b, s, seen)
    BY <1>1, <2>1 DEF Tick, RecordHealth, resolverVars
  <2>2. ASSUME NEW b \in Binding, NEW s \in CircuitState, WriteCircuit(b, s)
        PROVE  Judged' /\ DegradedNeedsPolicy'
    <3>1. UNCHANGED <<rpc, reads, decision, policy>>
      BY <2>2 DEF WriteCircuit
    <3>2. \A q \in Resolver : openSince'[q] \subseteq openSince[q]
      BY <1>0, <2>2 DEF WriteCircuit, CallTypes
    <3>3. \A q \in Resolver : \A c \in openSince'[q] : circuit'[c] = "open"
      BY <1>0, <2>2, <3>2 DEF WriteCircuit, CallTypes, EvidenceTypes
    <3> QED
      BY <3>1, <3>2, <3>3 DEF reads
  <2> QED
    BY <1>3, <2>1, <2>2 DEF EvidenceStep
<1> DEFINE Solo(q) ==
             /\ \A r \in Resolver \ {q} :
                  /\ rpc'[r] = rpc[r] /\ decision'[r] = decision[r] /\ op'[r] = op[r]
                  /\ lifecycleOf'[r] = lifecycleOf[r] /\ bindingOf'[r] = bindingOf[r]
                  /\ healthOf'[r] = healthOf[r] /\ openSince'[r] = openSince[r]
             /\ circuit' = circuit /\ policy' = policy
\* What one call has to answer for.
<1>4. ASSUME NEW q \in Resolver, Solo(q),
             rpc'[q] # "decided" => decision'[q] = "none",
             rpc'[q] = "circuit" /\ healthOf'[q] = "degraded" => ~PolicyDenies(op'[q]),
             \A b \in openSince'[q] : circuit[b] = "open",
             decision'[q] \notin {"none", "denied"} =>
               /\ bindingOf'[q] \in openSince'[q] =>
                    healthOf'[q] = "degraded" /\ policy = "read_only" /\ op'[q].kind = "read"
               /\ "degraded" \in {lifecycleOf'[q], healthOf'[q]} => ~PolicyDenies(op'[q])
      PROVE  Judged' /\ DegradedNeedsPolicy'
  <2>2. ASSUME NEW r \in Resolver, r # q
        PROVE  /\ rpc'[r] = rpc[r] /\ decision'[r] = decision[r] /\ op'[r] = op[r]
               /\ lifecycleOf'[r] = lifecycleOf[r] /\ bindingOf'[r] = bindingOf[r]
               /\ healthOf'[r] = healthOf[r] /\ openSince'[r] = openSince[r]
               /\ circuit' = circuit /\ policy' = policy
    BY <1>4, <2>2
  <2>3. ASSUME NEW r \in Resolver
        PROVE  /\ rpc'[r] # "decided" => decision'[r] = "none"
               /\ rpc'[r] = "circuit" /\ healthOf'[r] = "degraded" => ~PolicyDenies(op[r])'
               /\ \A b \in openSince'[r] : circuit'[b] = "open"
               /\ Executable(r)' /\ bindingOf'[r] \in openSince'[r] =>
                    healthOf'[r] = "degraded" /\ policy' = "read_only" /\ op'[r].kind = "read"
    <3>1. CASE r = q
      BY <1>4, <3>1
    <3>2. CASE r # q
      <4>1. /\ rpc'[r] = rpc[r] /\ decision'[r] = decision[r] /\ op'[r] = op[r]
            /\ bindingOf'[r] = bindingOf[r] /\ healthOf'[r] = healthOf[r]
            /\ openSince'[r] = openSince[r] /\ circuit' = circuit /\ policy' = policy
        BY <2>2, <3>2
      <4> QED
        BY <4>1
    <3> QED
      BY <3>1, <3>2
  <2>4. ASSUME NEW r \in Resolver, Executable(r)', "degraded" \in {lifecycleOf'[r], healthOf'[r]}
        PROVE  ~PolicyDenies(op[r])'
    BY <1>4, <2>2, <2>4
  <2> QED
    BY <2>3, <2>4
<1>t. /\ rpc \in [Resolver -> {"idle", "installation", "bindings", "compatibility", "health", "circuit", "decided"}]
      /\ decision \in [Resolver -> {"none", "denied", "read only", "executable"}]
      /\ openSince \in [Resolver -> SUBSET Binding]
      /\ op \in [Resolver -> Operation \cup {NoOperation}]
      /\ lifecycleOf \in [Resolver -> LIFECYCLES \cup {"missing"}]
      /\ bindingOf \in [Resolver -> Binding \cup {None}]
      /\ healthOf \in [Resolver -> HealthState]
  BY <1>0 DEF CallTypes, ReadTypes
<1>6. ASSUME NEW q \in Resolver, NEW o \in Operation, ResolveStart(q, o)
      PROVE  Judged' /\ DegradedNeedsPolicy'
  <2>1. Solo(q) /\ rpc[q] # "decided"
    BY <1>t, <1>6 DEF ResolveStart, evidence
  <2>2. rpc'[q] # "circuit" /\ decision'[q] = "none"
    BY <1>t, <1>6 DEF ResolveStart
  <2>3. \A b \in openSince'[q] : circuit[b] = "open"
    BY <1>t, <1>6 DEF ResolveStart
  <2> QED
    BY <1>4, <2>1, <2>2, <2>3
\* The reads before the circuit, but for the health that lets a read through.
<1>7. ASSUME NEW q \in Resolver, rpc[q] # "decided", UNCHANGED <<op, openSince, circuit, policy>>,
             \A r \in Resolver \ {q} : /\ lifecycleOf'[r] = lifecycleOf[r]
                                       /\ bindingOf'[r] = bindingOf[r] /\ healthOf'[r] = healthOf[r],
             \/ \E l \in {"bindings", "compatibility", "health", "circuit"} :
                  Read(q, l) /\ (l = "circuit" /\ healthOf'[q] = "degraded" => ~PolicyDenies(op[q]))
             \/ Decide(q, "denied")
      PROVE  Judged' /\ DegradedNeedsPolicy'
  <2> DEFINE Effect(l, d) ==
               /\ rpc' = [rpc EXCEPT ![q] = l] /\ decision' = [decision EXCEPT ![q] = d]
               /\ \/ l \in {"bindings", "compatibility", "health"} /\ d = decision[q]
                  \/ /\ l = "circuit" /\ d = decision[q]
                     /\ healthOf'[q] = "degraded" => ~PolicyDenies(op[q])
                  \/ l = "decided" /\ d = "denied"
  <2>0. \E l, d : Effect(l, d)
    <3>1. decision = [decision EXCEPT ![q] = decision[q]]
      BY <1>t
    <3>2. ASSUME NEW l \in {"bindings", "compatibility", "health", "circuit"}, Read(q, l),
                 l = "circuit" /\ healthOf'[q] = "degraded" => ~PolicyDenies(op[q])
          PROVE  Effect(l, decision[q])
      <4>1. rpc' = [rpc EXCEPT ![q] = l] /\ decision' = [decision EXCEPT ![q] = decision[q]]
        BY <3>1, <3>2 DEF Read
      <4> QED
        BY <3>2, <4>1
    <3>3. ASSUME Decide(q, "denied") PROVE Effect("decided", "denied")
      BY <3>3 DEF Decide
    <3> QED
      BY <1>7, <3>2, <3>3
  <2>1. Solo(q)
    <3>1. \A r \in Resolver \ {q} : rpc'[r] = rpc[r] /\ decision'[r] = decision[r]
      BY <1>t, <2>0
    <3> QED
      BY <1>7, <3>1
  <2>2. \A b \in openSince'[q] : circuit[b] = "open"
    BY <1>7
  <2>3. rpc'[q] = "circuit" /\ healthOf'[q] = "degraded" => ~PolicyDenies(op'[q])
    BY <1>t, <1>7, <2>0
  <2>4. decision'[q] \in {"none", "denied"} /\ (rpc'[q] # "decided" => decision'[q] = "none")
    <3>1. decision[q] = "none"
      BY <1>7
    <3> QED
      BY <1>t, <2>0, <3>1
  <2> QED
    BY <1>4, <1>7, <2>1, <2>2, <2>3, <2>4
<1>8. ASSUME NEW q \in Resolver, ReadInstallation(q) \/ ReadBindings(q) \/ ReadCompatibility(q)
      PROVE  Judged' /\ DegradedNeedsPolicy'
  <2>1. rpc[q] # "decided" /\ UNCHANGED <<op, openSince, circuit, policy>>
    BY <1>8 DEF ReadInstallation, ReadBindings, ReadCompatibility, Read, Decide, reads, evidence
  <2>2. \A r \in Resolver \ {q} : /\ lifecycleOf'[r] = lifecycleOf[r]
                                  /\ bindingOf'[r] = bindingOf[r] /\ healthOf'[r] = healthOf[r]
    BY <1>t, <1>8 DEF ReadInstallation, ReadBindings, ReadCompatibility, reads
  <2>3. (\E l \in {"bindings", "compatibility", "health"} : Read(q, l)) \/ Decide(q, "denied")
    BY <1>8 DEF ReadInstallation, ReadBindings, ReadCompatibility
  <2> QED
    BY <1>7, <2>1, <2>2, <2>3
<1>9. ASSUME NEW q \in Resolver, ReadHealth(q) PROVE Judged' /\ DegradedNeedsPolicy'
  <2>1. \/ (health[bindingOf[q]] = "degraded" => ~PolicyDenies(op[q])) /\ Read(q, "circuit")
        \/ /\ health[bindingOf[q]] = "degraded" /\ ~PolicyDenies(op[q]) /\ policy = "read_only"
           /\ Decide(q, "read only")
        \/ Decide(q, "denied")
    BY <1>9 DEF ReadHealth
  <2>2. /\ rpc[q] = "health" /\ healthOf' = [healthOf EXCEPT ![q] = health[bindingOf[q]]]
        /\ UNCHANGED <<op, lifecycleOf, bindingOf, circuit, policy>>
    BY <1>9 DEF ReadHealth, evidence
  <2>3. /\ healthOf'[q] = health[bindingOf[q]]
        /\ \A r \in Resolver \ {q} : healthOf'[r] = healthOf[r]
    BY <1>t, <2>2
  <2>4. openSince' = openSince
    BY <2>1 DEF Read, Decide
  <2>5. CASE \/ (health[bindingOf[q]] = "degraded" => ~PolicyDenies(op[q])) /\ Read(q, "circuit")
             \/ Decide(q, "denied")
    <3>1. rpc[q] # "decided" /\ UNCHANGED <<op, openSince, circuit, policy>>
      BY <2>2, <2>4
    <3>2. \A r \in Resolver \ {q} : /\ lifecycleOf'[r] = lifecycleOf[r]
                                    /\ bindingOf'[r] = bindingOf[r] /\ healthOf'[r] = healthOf[r]
      BY <2>2, <2>3
    <3>3. \/ Read(q, "circuit") /\ (healthOf'[q] = "degraded" => ~PolicyDenies(op[q]))
          \/ Decide(q, "denied")
      BY <2>3, <2>5
    <3> QED
      BY <1>7, <3>1, <3>2, <3>3
  <2>6. CASE /\ health[bindingOf[q]] = "degraded" /\ ~PolicyDenies(op[q]) /\ policy = "read_only"
             /\ Decide(q, "read only")
    <3>1. Solo(q) /\ rpc'[q] = "decided"
      <4>1. \A r \in Resolver \ {q} : rpc'[r] = rpc[r] /\ decision'[r] = decision[r]
        BY <1>0, <2>6, DecidesAlone
      <4>2. rpc'[q] = "decided"
        BY <1>0, <2>6, DecidesAlone
      <4> QED
        BY <2>2, <2>3, <2>4, <4>1, <4>2
    <3>2. /\ policy = "read_only" /\ op'[q].kind = "read" /\ healthOf'[q] = "degraded"
          /\ ~PolicyDenies(op'[q])
      BY <2>2, <2>3, <2>6
    <3>3. \A b \in openSince'[q] : circuit[b] = "open"
      BY <2>4
    <3> QED
      BY <1>4, <3>1, <3>2, <3>3
  <2> QED
    BY <2>1, <2>5, <2>6
<1>10. ASSUME NEW q \in Resolver, ReadCircuit(q) PROVE Judged' /\ DegradedNeedsPolicy'
  <2>1. \/ Decide(q, "denied")
        \/ /\ circuit[bindingOf[q]] # "open"
           /\ lifecycleOf[q] = "degraded" => ~PolicyDenies(op[q])
           /\ \E d \in {"read only", "executable"} : Decide(q, d)
    BY <1>10 DEF ReadCircuit
  <2>2. /\ rpc[q] = "circuit" /\ UNCHANGED <<op, lifecycleOf, bindingOf, healthOf, circuit, policy>>
    BY <1>10 DEF ReadCircuit, evidence, reads
  <2>3. openSince' = openSince
    BY <2>1 DEF Decide
  <2>4. CASE Decide(q, "denied")
    BY <1>7, <2>2, <2>3, <2>4
  <2>5. CASE /\ circuit[bindingOf[q]] # "open"
             /\ lifecycleOf[q] = "degraded" => ~PolicyDenies(op[q])
             /\ \E d \in {"read only", "executable"} : Decide(q, d)
    <3>1. Solo(q) /\ rpc'[q] = "decided"
      <4>1. \A r \in Resolver \ {q} : rpc'[r] = rpc[r] /\ decision'[r] = decision[r]
        BY <1>0, <2>5, DecidesAlone
      <4>2. rpc'[q] = "decided"
        BY <1>0, <2>5, DecidesAlone
      <4> QED
        BY <2>2, <2>3, <4>1, <4>2
    <3>2. bindingOf'[q] \notin openSince'[q]
      BY <2>2, <2>3, <2>5
    <3>3. "degraded" \in {lifecycleOf'[q], healthOf'[q]} => ~PolicyDenies(op'[q])
      BY <2>2, <2>5
    <3>4. \A b \in openSince'[q] : circuit[b] = "open"
      BY <2>3
    <3> QED
      BY <1>4, <3>1, <3>2, <3>3, <3>4
  <2> QED
    BY <2>1, <2>4, <2>5
<1>11. CASE UNCHANGED vars
  BY <1>1, <1>11 DEF vars, resolverVars, evidence
<1> QED
  BY <1>2, <1>3, <1>6, <1>8, <1>9, <1>10, <1>11 DEF AvailabilityNext, ResolveStep

LEMMA JudgedAlways == AvailabilitySpec => [](Judged /\ DegradedNeedsPolicy)
<1>1. AvailabilityInit => Judged /\ DegradedNeedsPolicy
  BY DEF AvailabilityInit, Judged, DegradedNeedsPolicy, Executable
<1> QED
  BY <1>1, JudgedNext, TypeCorrect, PTL DEF AvailabilitySpec

\* Degraded execution requires a policy that does not deny the operation, so a read under
\* the read-only one, wherever the degradation was found and whatever the installation, the
\* binding and the evidence do during the call.  A policy of an unknown mode denies nothing.
THEOREM DegradedIsPermitted == AvailabilitySpec => []DegradedNeedsPolicy
BY JudgedAlways, PTL

\* What a circuit that stays open during the whole call lets through.
OpenLetsReadsThrough ==
  \A q \in Resolver :
    Executable(q) /\ bindingOf[q] \in openSince[q] =>
      healthOf[q] = "degraded" /\ policy = "read_only" /\ op[q].kind = "read"

\* "Circuit open denies" fails in one case only: a read, under the read-only policy, on
\* degraded health, which resolve decides before it reads the circuit.
THEOREM OpenCircuitException == AvailabilitySpec => []OpenLetsReadsThrough
<1>1. Judged => OpenLetsReadsThrough
  BY DEF Judged, OpenLetsReadsThrough
<1> QED
  BY <1>1, JudgedAlways, PTL
===================================================================================
