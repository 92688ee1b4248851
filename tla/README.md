# Verification of the civitas10 backend

TLA+ models, TLC runs and TLAPS proofs for the stateful core of the backend in `src/backend`: what happens to an
event, an operation, a module installation, a document, a new organization, a migration or a permission when callers,
workers and dispatchers interleave, crash, lose answers or outlive their leases. Every definition translates the
JavaScript and SQL of the repository; the docs are only quoted where the code says something else.

## 1. The system

civitas10 is a multi-tenant administration platform. Its API server (`backend/index.js`) and its worker
(`backend/worker/index.js`) share one PostgreSQL database and one Redis; identity lives in an external provider
(Logto). Whatever changes across processes goes through a few durable structures:

```
 HTTP routes ──► services ──► operational_operations ──► BullMQ ──► worker ──► idempotency_records
     │               │                    ▲                             │
     │               │                    └───── reconciler (30 s) ─────┘
     │               ├──► integration_outbox_events ──► dispatcher ──► transport ──► consumers
     │               │                                                   │
     │               │                     integration_inbox_receipts ◄──┘ ──► Logto adapter
     │               ├──► organization_modules, bindings ──► availability resolver ◄── health, circuits
     │               ├──► provisioning ──► Logto, operational_operation_steps, drafts
     │               └──► ceilings, activations, policy version ──► entitlement decisions
     └──► document operations ──► BullMQ ──► document worker ──► object storage, documents

 startup of API and worker ──► advisory lock ──► migration files, schema_migrations ──► serve or restart
```

### 1.1 Components, their state and what makes them correct

| Component (`PROJECT.json`) | State it keeps | Operations | Hard part | Correct when |
|---|---|---|---|---|
| Integration outbox and dispatcher (`services/integrationEvents.js`) | `integration_outbox_events`, `integration_dead_letters` | append, claim a batch under a lease, publish, mark, retry, dead-letter, release | leases that expire under their holder, crashes with a batch in hand, commits whose answer is lost | every row is settled once, in the end, and no delivery is unaccounted for |
| Inbox receipts, operations and SCIM ledger (`integrationEvents.js`, `scim/scimOperationLedger.js`) | `integration_inbox_receipts`, `operational_operations` (state, version) | enqueue a SCIM operation, claim a receipt, call the adapter, settle the receipt, move the operation | statements without a transaction, one catch block for three failures | a receipt has one holder and one outcome, every effect is charged |
| Operational operations queue and worker (`services/operationalOperations.js`, `worker/`, `queues/`) | `operational_operations.status`, `idempotency_records`, BullMQ jobs | request, enqueue, execute, save, retry, reconcile | two queues with one id space each, status writes after `queue.add`, stalled jobs, rows of other subsystems in the same table | a completed operation has run, a bounded number of times, and no row is forgotten while the reconciler's way is clear |
| Module control plane (`services/moduleControlPlane.js`, migration 0017) | installation row with lifecycle and version, runtimes, compatibility, bindings, audit | provision, transition, register, record compatibility, bind, change a binding | check in one statement, write in another, a version in the request that nobody compares with the row read | the row moves one version at a time, the audit trail is its history, and a move off `TRANSITIONS` needs a request that named a future version |
| Module availability resolver (`services/moduleAvailabilityResolver.js`, migration 0018) | health snapshots, circuit states | resolve, record snapshots, write circuits | five reads in turn of rows that move | what must not execute is denied |
| Document generation (`documents/`) | document operations, dead letters, documents, objects in storage, one BullMQ job per operation | request, run, cancel, recover, decide on dead letters, retention | two workers on one operation, catch block saving an old copy, objects and rows without a common transaction | one document per success, whose object exists |
| Organization provisioning (`services/organizationProvisioning*.js`, `logtoManagement.js`) | operation rows, completed steps, the wizard's draft, idempotency record; organization, users, members, roles in Logto | create or resume, run the steps, record each, complete or fail | the same key sent again or twice at once, effects whose answer is lost, a unique index that refuses both endings | a recorded step took effect, a completed operation is bootstrapped, an organization is named by some row |
| Migration runner (`runtime/migrations.js`, startup in `index.js`) | `schema_migrations`, advisory lock, the schema | lock, look for legacy names, claim and apply a file, check the schema, look for the location catalog, serve or exit | processes that start together, die with the lock, meet renamed files, gaps and data that makes a file raise | each file applied once, on top of all before it, before a migrating process serves |
| Entitlement overlay (`authorization/entitlements/`, `governanceRolesReadModel.js`, migration 0007) | ceilings, locks, activations, policy version | Owner's and tenant's PUTs, the evaluator's decision | statements meant for a transaction that commit one by one; a decision that reads two tables in turn | no decision grants a role that was not allowed and enabled at one instant |
| Authorization outbox and freshness (`authorization/runtime/`) | versions per scope, cached decisions, authorization outbox | bump version, invalidate, publish, reconcile | claims without fencing, stale saves, three effects without a transaction | not modelled yet |
| Planning aggregate and review (`planning/`) | event streams with versions, idempotency ledger | author, submit, review, approve | compare-and-set appends, repeated commands | not modelled yet |
| Planning federated transport (`planning/infrastructure/`) | circuit breaker, cache | remote reads and writes with retries and timeouts | timeouts racing answers, half-open probes | not modelled yet |
| Production handoff (`production-handoff/`) | handoffs, receipts, inbox | hand off, cancel, take receipts | receipts racing cancellation | not modelled yet |
| Identity federation apply (`identity-federation/`) | reconciliation runs, deprovision limits | plan, apply, resume | partial failure, limits of mass deprovisioning | not modelled yet |
| SCIM users, groups, reconciliation (`scim/`) | drafts and mirrors of Logto users and groups | create, patch, reconcile | drift between mirror and provider | not modelled yet |
| Organization mapping, taxonomy, role labels, structure | versioned drafts and publications | edit, review, publish, project | optimistic locking, projections | not modelled yet |
| Data scopes, delegation, decision pipeline (`authorization/`) | assignments, delegations | assign, revoke, evaluate | windows of validity, composition of policies | not modelled yet |
| In-memory action engine; HTTP, middleware, authentication; frontend, contracts, scripts | none of their own | — | — | not modelled: see section 8 |

Which of these run: the operations queue with its worker and reconciler, provisioning, migrations and the entitlement
PUTs are wired from `backend/index.js` and `backend/worker/index.js`; entitlement decisions are made by the LMS group
leadership service there. The control plane and the resolver are constructed in `index.js` for planning only, and that
composition does not succeed: `index.js:80` names `authorizationFreshnessService`, which the file does not declare, so that
its `catch` leaves the planning routes unmounted. Outbox, dispatcher, SCIM ledger, document handlers and document worker
are called by the repository's tests only. All these are library code, modelled as their own modules and tests
compose them.

### 1.2 Interactions

* The SCIM ledger appends to the outbox, whose dispatcher delivers to the consumer that claims an inbox receipt:
  `ScimOperationLedger` composes with the outbox through the outbox's contract, not its details.
* The reconciler and the request path enqueue the same rows into BullMQ: `OperationalQueue` holds both.
* The resolver reads what the control plane writes: `ModuleAvailability` builds on `ModuleLifecycle`, which
  `ModuleControlPlane` implements.
* Provisioning writes operation rows of its own type, with their steps; the worker takes none of them. Its unique index
  is the one of migration 0028 that the operations queue lives with too.
* The migration runner comes before all the others. `ServingIsMigrated` says what they find: all files applied if their
  process migrates, else, as by default (`RUN_MIGRATIONS_ON_STARTUP` is false), the tables of the startup checks only.
* Document generation shares `operational_operations` and the outbox table with the other components, under its own
  operation type and with statements of its own. Nothing else moves its rows, but the reconciler of the operations queue
  selects every row by status alone, those of documents, SCIM and control plane too: it has no action for their types,
  and the first one ends its pass with an error. `OperationalQueue` has such rows (`Foreign`).

## 2. Modules

| Module | Models |
|---|---|
| `IntegrationEventContract` | what a producer may rely on: open until delivered and published, or given up with one dead letter |
| `IntegrationOutbox` | the rows, the dispatcher's loop and its leases; implements the contract |
| `IntegrationOutboxProofs` | eight theorems about it |
| `ScimOperationLedger` | `enqueueScimOperation`, `applyScimOperationEvent`, `transitionOperation` over `IntegrationEventContract` |
| `ScimOperationLedgerProofs` | eight theorems about it |
| `OperationalQueue` | request, two BullMQ queues, their workers, the reconciler |
| `OperationalQueueProofs` | four theorems about it |
| `ModuleLifecycle` | what the control plane promises: one version at a time, an exact audit trail, legal moves but after a call that named a future version |
| `ModuleControlPlane` | the service calls statement by statement; implements `ModuleLifecycle` |
| `ModuleControlPlaneProofs` | five theorems about it |
| `ModuleAvailability` | `resolve` and the writers of its evidence; extends `ModuleLifecycle` |
| `DocumentGeneration` | the whole life of a document operation, its job, its files |
| `DocumentGenerationProofs` | seven theorems about it |
| `OrganizationProvisioning` | `POST /owner/organizations` sent again and again: recorder, draft, Logto |
| `OrganizationProvisioningProofs` | eight theorems about it, its inductive invariant among them |
| `MigrationRunner` | startup of the processes: lock, ledger, files, schema check |
| `ReadinessProofs` | ten theorems about `MigrationRunner` and `ModuleAvailability`, which share no state: what may be served, by a process and by a module |
| `EntitlementOverlay` | the PUTs of ceilings and activations statement by statement, and the decisions that read them |
| `EntitlementOverlayProofs` | three theorems about it, its inductive invariant among them |
| `MC…` | one per component: the symmetry set of its runs, and nothing else |

Conventions. One action is one SQL statement, or one transaction where the code opens one, or one call to an external
service, or one step of BullMQ. A process that stands between two statements is a value of its program counter (`pc`,
`wpc`, `rpc`, …) with the JavaScript locals it still uses as variables beside it; that is where staleness comes from.
Times are what the guards compare: a lease is live or expired, a retry due or not. Ids, payloads and reasons are model
values or left out. A value that may be lost or duplicated by the network is not a message but a statement whose
answer does not arrive (`MarkPublishedError`, `ConnectionLost`, `CommitFails`).

Definitions under a comment "Mutant" are faulty variants: a plausible slip in the definition that follows them, with
which the property it belongs to must fail. No specification uses one.

### 2.1 `IntegrationOutbox`

State: `state`, `attempts`, `owner`, `expiry`, `due`, `created` are columns of a row; `dlq` counts the dead letters;
`delivered` records the owner tokens under which the transport took the event (a history variable). A dispatcher has
`pc`, its `token`, the rest of its `batch`, the row in hand `cur` and the `class` of the error it caught.

| Code | Action |
|---|---|
| `appendEvent` | `AppendEvent` |
| `claimBatch` (select `for update skip locked`, update) | `ClaimBatch` with `Claimable`, `Picked`, `Charge` |
| loop of `dispatchOnce` | `NextRow`, `Proceed`, `Leave` |
| `transport.publish` | `Publish` (taken, refused, or taken with the answer lost) |
| `markPublished` | `MarkPublished`, `MarkPublishedError` |
| `catch`: `scheduleRetry`, `moveToDeadLetter`, lease conflict | `ScheduleRetry`, `MoveToDeadLetter`, `FailureConflict` |
| `releaseExpiredClaims` | `ReleaseExpiredClaims` |
| process death, passing time | `Crash`, `RetryFallsDue`, `LeaseExpires` |

### 2.2 `ScimOperationLedger`

A key is a client's idempotency key and with it one operation, one event and one receipt, as `uuidFromHash` makes it.
Requesters go `Request`, `CreateOperation`, `AppendEvent`, `MarkOperationQueued`; consumers `ClaimInbox` or
`ClaimDeadLettered`, `CallAdapter`, `MarkInboxProcessed`, `GetOperation`, `MoveInboxToDeadLetter`; consumers and
operators share `SelectForTransition` and `UpdateOperation`. `OutboxStep` is a step of the contract. `applied` counts
the adapter calls that took effect.

### 2.3 `OperationalQueue`

`status` and `records` are tables, `job`, `made` and the stalled counts are BullMQ's, by queue and operation; a
`Poster` is a request, each queue has its one worker, the reconciler has its selection. `Post`, `PosterAdd`,
`PosterMark` are `requestOperation` and `enqueueOperation`; `TakeJob`, `Lookup`, `Begin`, `Execute`, `Save`,
`Complete`, `Fail`, `JobSettles` are `executeActionJob`; `ReconcileSelect`, `ReconcileNext`, `ReconcileAdd` are
`reconcileQueuedOperations`, `ReconcileFails` a failing Redis or a death in the middle of it. `StalledCheck`,
`BackoffOver`, `Evict` are external. A request adds its job to either queue or, as `body.queueName` may have it, to one
that no worker serves. The type of an operation need not be in the catalog (`Uncatalogued`): the worker's lookup throws
on it, and so does the reconciler, which leaves the rest of its selection alone. `Foreign` rows are never posted;
`ForeignMoves` stands for the subsystem they belong to. Each queue has one worker of concurrency 1, the default of
`WORKER_CONCURRENCY` in one worker process; replicas would have more.

### 2.4 `ModuleControlPlane` and `ModuleAvailability`

A `Caller` of the control plane is between two statements of `provisionOrganizationModule` (`ProvisionRead`,
`ProvisionInsert`), `transitionOrganizationModuleLifecycle` (`TransitionRead`, `TransitionBindings`,
`TransitionUpdate`) or `bindOrganizationModuleRuntime` (`BindRead`, `BindCompatibility`, `BindInsert`). Calls of one
statement are atomic: `Publish`, `RegisterRuntime`, `RecordCompatibility`, `UpdateBindingStatus`. The initial
lifecycle and the `expectedVersion` of a transition are the caller's choice: a version that the row has not reached is
possible, and the history variable `foretold` remembers such versions. A `Resolver` goes `ResolveStart`,
`ReadInstallation`, `ReadBindings`, `ReadCompatibility`, `ReadHealth`, `ReadCircuit` and remembers what it read;
`RecordHealth`, `WriteCircuit`, `Tick`, `Bind`, `Suspend`, `LifecycleStep` happen in between. An operation is a kind
and the flag `isProbe`; a degraded policy may be of any mode (`PolicyMode`), since the registry checks none.

### 2.5 `DocumentGeneration`

`status`, `attempts`, `asked`, `docId` are the operation's row; `letter` its dead letter, `events` the outbox rows by
type, `documents`, `objects` and `puts` the files (a file `<<o, n>>` is the n-th object written for `o`), `job`,
`holder` BullMQ's. `running[w]` is the copy of the row a worker claimed and which its catch block saves. The storage may
give one operation a reference a second time (`MaxRepeat`): `saveDocument` then inserts nothing, and the operation
succeeds with an id that is in no row (`Unsaved`). `Held` are the operations whose documents are under legal hold.

| Code | Action |
|---|---|
| `requestGeneration`, `producer.enqueue` | `Request`, `Enqueue`, `EnqueueLost` |
| `createDocumentWorker` | `TakeJob`, `JobSettles`, `WorkerCrash`, `Forget` |
| `runGeneration` | `GetOperation`, `Claim`, `Render`, `Recheck`, `Put`, `Commit`, `CommitFails` |
| its catch block | `SaveFailure`, `AppendFailure`, `DeadLetter`, `StatementFails` |
| `cancel` | `CancelRead`, `CancelSave`, `CancelAppend`, `CancelFails` |
| `recoverStale`, `reconcileDeadLetter` | `RecoverStale`, `RetryDeadLetter`, `DiscardDeadLetter` |
| `enforceRetention` | `ListExpired`, `DeleteObject`, `DeleteDocument`, `AnnounceDeleted`, `RetentionFails` |

The row's version, problem and times decide nothing in this code and are left out; so are a reference given to two
operations, and the transaction that `reconcileDeadLetter` leaves open on its client when it finds nothing
(`reconcile.js:7`).

### 2.6 `OrganizationProvisioning`

A request inserts at most one row and creates at most one organization, so both bear its name. `status`, `owner`,
`steps` are the rows, `draft` and `ledger` the wizard's draft and the idempotency record, `logto` the set of what
exists in Logto. A request has its `pc`, the step it is `at` and the `call` within that step, the row it `resumed`
with the steps read there (`snap`), its operation id `op` and its organization `org`.

| Code | Action |
|---|---|
| the route's draft writes | `SaveDraft`, `SaveCompleted`, `SaveFailed` |
| recorder: resume, start, record, complete, fail | `ReadSteps`, `InsertOperation`, `RecordStarted`, `RecordStep`, `CompleteOperation`, `RecordCompleted`, `FailOperation`, `RecordFailed` |
| `runCanonicalOrganizationProvisioning` | `ListRoles`, `ValidateTemplate`, `CallLogto` (taken, refused, or taken with the answer lost) |
| failed statement, process death | `StatementFails`, `Crash` |

### 2.7 `MigrationRunner`

`table`, `ledger`, `legacy` are `schema_migrations` and its rows under today's and former names, `applied` counts how
often a file's SQL was committed, `lock` is the session that holds the advisory lock: free, of a live process, or of a
dead one whose session the server has not dropped. A process goes through the lock, the table, and per file the legacy
lookup, the claim, the SQL and the commit; then unlock, schema check, location catalog, serving. `MigrationInit` has any set
of recorded files, the renamed ones under either name: the renames of `LEGACY_MIGRATION_NAMES` moved files past
others, so that what earlier releases recorded need not be a prefix of today's order. `Guarded` files begin with a look
at the data and raise while some is `unreconciled`; `DataChanges` is whoever writes or reconciles it. `EnsureCatalog` is
`ensureLocationCatalog`, without whose tables or download the process ends.

### 2.8 `EntitlementOverlay`

One permission of one organization, a row of each table per role. `repository.transaction` hands its callback a
repository bound to the connection; the callbacks of `entitlementService.js` take no parameter and go on with the
pool's, so every statement commits by itself and is a step. The write of an activation is two steps, `AdminWrite` (row
and trigger) and `AdminCommit`: the trigger reads the ceiling without a lock, and a denial may commit in between;
`pending` is the row in between. `OwnerDisable` waits for a row being updated and passes by a row being inserted, as
PostgreSQL's update does.

| Code | Action |
|---|---|
| `upsertOwnerLimits` | `Begin`, `Bump`, `OwnerRead`, `OwnerUpsert`, `OwnerDisable` |
| `upsertTenantActivations` | `Begin`, `Check`, `Bump`, `AdminWrite` (with `TriggerAllows`), `AdminCommit` |
| a statement fails, the process dies | `Fault` |
| `evaluateOrganizationEntitlement` | `ReadBegin`, `ReadStale`, `ReadCeiling`, `ReadActivation` |

`effective` and `wrote` are history variables: the roles that were effective at some instant since a decision began, and
whether a request has committed a statement.

## 3. What is checked

State counts are TLC's distinct states.

| Run | Instance | Checks | States |
|---|---|---|---|
| `outbox_safety` | 2 events, 2 dispatchers, 2 attempts, batch of 2, 1 crash, 1 outlived lease | `TypeOK`, `LeaseExclusive`, `DeliveriesCharged`, `ImplementsContract` | 4.2 M (symmetry) |
| `outbox_liveness` | 2 events, 1 dispatcher, otherwise the same, with fairness | `EventuallySettled` | 0.8 M |
| `scim_safety` | 1 key, 2 requesters, 2 consumers, 1 operator, 1 each of crash, outlived lease, replay, move | `TypeOK`, `InboxLedger`, `ReceiptExclusive`, `EffectsCharged`, `ReceiptFinal`, `LegalMoves`, `StuckByCrashOnly` | 0.9 M |
| `queue_safety` | 2 operations sharing a key, one of them with a job in two queues, 2 requests, 1 crash | `TypeOK`, `CompletedHasEffect`, `ExecutionsBounded` | 8.6 M |
| `queue_liveness` | 1 operation beside 1 row of another subsystem, one row a pass, 2 attempts, 1 request, 1 crash, 1 forgotten job, with fairness | `EventuallyTaken` | 1.4 M |
| `control_safety` | 2 callers, 2 runtimes (one foreign), 2 bindings, versions to 3, any of them named by a caller | `TypeOK`, `ExecutableIsEligible`, `PendingMoveLegal`, `LifecycleImplemented` | 3.9 M (symmetry) |
| `availability_safety` | 1 resolver, 4 sorts of operation, 3 policies, 1 binding, versions to 3, 2 instants | `TypeOK`, `DecommissionedDenied` | 8.4 M |
| `documents_safety` | 1 operation, 2 workers, 1 caller, any two of: 2 faults, 1 outlived lock, 1 commit in doubt, 1 repeated reference, 1 cancel, 1 decision on a dead letter, 1 forgotten job | `TypeOK`, `SucceededHasDocument`, `OneDocument`, `DocumentHasObject`, `CancelHolds` | 0.8 M (symmetry) |
| `provisioning_safety` | 3 requests of one key, two at a time, 1 contact, 1 refusal, 1 fault | `TypeOK`, `StepsAreReal`, `CompletedIsBootstrapped`, `OrganizationFound`, `RunningHasRequest` | 1.3 M (symmetry) |
| `migration_startup` | 3 processes, two of them migrating, 4 files, two renamed, one guarded, any recorded set, 2 faults, with fairness | `MigrationTypeOK`, `AppliedExactly`, `InOrder`, `ServingIsMigrated`, `OneRunner`, `EventuallyServing` | 0.4 M |
| `entitlement_safety` | 2 roles, 1 PUT of ceilings and 2 of activations at a time, 3 PUTs in all, 1 decision, 1 fault | `TypeOK`, `HeldAtOnce` | 0.3 M (symmetry) |

What each property says, and the code it is about, stands above its definition. In short:

* **Outbox.** Two dispatchers never both pass the lease test for one row (`LeaseExclusive`); the transport takes a row
  at most `attempt_count` times (`DeliveriesCharged`); each row settles in the end (`EventuallySettled`).
  `ImplementsContract` is the refinement of `IntegrationEventContract` under the mapping at the end of
  `IntegrationOutbox`: what is published was delivered, what is given up has one dead letter, what is settled stays
  so. Section 4 proves these three separately as well (`AtLeastOnce`, `DeadLetterLedger`, `SettledForever`).
* **SCIM.** A receipt is in one consumer's hands (`ReceiptExclusive`), is final once processed or dead-lettered
  (`ReceiptFinal`, `InboxLedger`), an effect precedes the mark and is charged (`EffectsCharged`), operations move along
  `TRANSITIONS` one version at a time although test and write are two statements (`LegalMoves`), and a receipt stays in
  processing with nobody at work on it only after a death or a lost connection (`StuckByCrashOnly`). That such a receipt
  is taken up again is not claimed: only a delivery does, and once the outbox is done with the event there is none; the
  p3-010 runbook tells operators to watch for stuck receipts (line 21).
* **Queue.** A completed operation's action ran to its end under its key (`CompletedHasEffect`); until BullMQ forgets
  a job, an operation is executed at most `attempts` times for each queue that holds its job, plus once for each stall
  (`ExecutionsBounded`); a row that waits gets a job that ends, although its request may die, name a queue without a
  worker, or have its job forgotten (`EventuallyTaken`), provided that from some time on the reconciler's way is clear
  (`ReconcilerClear`): no waiting row is of a type that makes its pass throw, and one pass can select all that wait. The
  instance violates the premise in some behaviours and meets it in others; without it the claim is `PendingReconciled`,
  which is refuted (section 5).
* **Control plane.** It implements `ModuleLifecycle` (`LifecycleImplemented`); what makes its compare and set safe is
  `PendingMoveLegal`: a transition under way was legal in the version it names unless that version is gone. The one
  exception is in both: nothing compares the caller's `expectedVersion` with the row the service reads, so that a call
  may name a version that does not exist yet, be checked against the present one and written over the later one. At most
  one binding is executable and it is eligible (`ExecutableIsEligible`), by a compatibility that was on record when it was
  inserted: one withdrawn later is not looked at again. That a transition makes a module active only if it has
  been bound, whatever versions are named (`ActivationWasBound`), is proved in section 4; `insertOrganizationModule` itself
  takes `active` as an initial lifecycle.
* **Resolver.** A call made after decommissioning denies, whatever moves during the call (`DecommissionedDenied`), unless
  a call of the control plane named a future version. It is the first of the five reads that sees the lifecycle, so
  this says that no later read overrides it.
* **Documents.** Success names a document committed with it, or, if the storage gave the reference before, an id without a
  row beside an earlier document of the same operation (`SucceededHasDocument`); there is one document unless a
  worker outlives its lock, a commit is in doubt or an operator retries (`OneDocument`, whose three exceptions are each
  necessary: TLC refutes it when any is dropped); a row lacks its object only once retention has begun, as long as no
  reference is given twice (`DocumentHasObject`); nobody starts on a cancelled operation (`CancelHolds`).
* **Provisioning.** What is recorded as completed took effect in Logto, in the organization of that row, so that a
  resumed request never skips what nobody did (`StepsAreReal`); an operation or draft that says completed names an
  organization in which every step took effect, unless its request resumed a resumed row (`CompletedIsBootstrapped`);
  an organization is named by some row once its request has ended without a fault (`OrganizationFound`); a row stays
  running only by a fault or because the unique index refuses both endings (`RunningHasRequest`). The exceptions are
  in the statements, and each is a behaviour of the code: section 6. In particular `OrganizationFound` says nothing of a
  creation whose answer times out: that organization no row names.
* **Migrations.** A file's SQL is committed once, and exactly when the ledger says so (`AppliedExactly`); a run records
  a file only on top of all the files before it, whatever gaps it found (`InOrder`); two runners are never inside the lock
  (`OneRunner`); a migrating process that serves finds every file applied, any other one the tables its checks ask for
  (`ServingIsMigrated`); every process serves in the end, if from some time on no data makes a file raise
  (`EventuallyServing`).
* **Entitlements.** A decision reads the ceiling, then the activation. `HeldAtOnce`: every role it grants was
  effective - allowed, and enabled by a row that is there or past its trigger - at one instant since it began. So a
  decision that begins after a denial does not grant the role, and an old ceiling is never paired with a newer
  activation. It is the trigger that makes this true: with the service's own check alone (the mutant) it fails.

Each of these properties fails when one mapped definition is replaced by its mutant (`PROJECT.json`, "mutants"): a
lease test without its owner, a takeover that is not charged, a mark before the send, an update without the version,
a claim without its condition, an object put after the row.

### 3.1 Bounds, and why they are enough

* Two actors suffice for a race over one row: the guards compare a row with one actor's locals, and no guard counts
  actors. Two events make a batch whose rest can be abandoned; a third adds nothing a guard reads.
* `MaxAttempts = 2` has a first attempt, a retry and the exhausted case.
* `MaxCrash`, `MaxSlow`, `MaxFault`, `MaxDoubt`, `MaxRepeat`, `MaxReplay`, `MaxMove`, `MaxEvict`, `MaxCancel`, `MaxRetry`,
  `MaxPost`, `MaxRefuse`, `MaxRequest`, `MaxDecision` bound how often the environment interferes; they are spent in
  the guards of the actions named for them. The case where two interferences meet (a crash of the holder and an
  outlived lease of its successor) is inside each instance. Three requests of one key are needed before a request can
  resume a row that was itself a resumed one; two roles and two PUTs of activations before a request can fail in the
  middle of its body beside another. In `documents_safety`, where there are seven kinds, `MaxEvent = 2` allows any two,
  of one kind or of two.
* `MaxVersion` bounds the installation's row. Three versions are enough because a row may be installed in any lifecycle:
  two moves from there include every move of `TRANSITIONS`, one checked in the version before it, and one written over a
  version it had named in advance. `ControlMoves.cfg` and `ControlActivation.cfg` have five.
* In `queue_liveness` one row a pass and one row of another subsystem are the least with which the reconciler can be kept
  from the operation, by the selection as well as by the error; the second operation of `queue_safety` would add a row
  to be selected and nothing else. A forgotten job is in `queue_liveness` only: in `queue_safety` it would take the
  premise from `ExecutionsBounded`, and `CompletedHasEffect` is proved with it.
* `MaxTime = 1` and `SnapshotTTL = 1` have a snapshot that is valid, then stale, within one call.
* `Spec` is free of these bounds' effect in the proofs: they are arbitrary naturals there, so the theorems hold for
  any number of crashes and any number of actors.

### 3.2 Fairness, and why the code justifies it

* **Outbox**: no entry point hosts the dispatcher yet. The assumption is the one thing a host has to do: call
  `dispatchOnce` again and again and let each call run (`WF(Dispatch(d))`), which the code's own loop then justifies
  step by step; time passes, so a retry falls due and a lease expires. Appends, crashes and the sweep of expired
  claims are not fair: liveness does not need the sweep, since `claimBatch` takes expired claims itself.
* **SCIM**: none in `scim_safety`. `FairSpec` serves the refutations of section 5 only, and gives more than the code
  does (deliveries without end): what fails even so fails.
* **Queue**: a BullMQ worker takes waiting jobs and runs them, its timers (backoff, stalled check) fire, the interval
  of the reconciler in `worker/index.js` fires, a request that does not crash ends. Nobody is obliged to post, and
  nothing obliges another subsystem to take its rows out of the reconciler's way: that is `ReconcilerClear`, the premise
  of `EventuallyTaken`.
* **Documents**: no liveness is stated. Nothing in `src` schedules `recoverDocumentOperations`, so an operation whose
  worker died for good need not end; see 6.
* **Migrations**: a process runs on once it has started, the container restarts one that has exited (`restart:
  unless-stopped`), and the server drops the session of a dead client, which frees its lock. Passing failures, downloads
  of the location catalog among them, are bounded; nothing makes anybody reconcile data, which is the premise of
  `EventuallyServing`.
* **Control plane, resolver, provisioning, entitlements**: requests only; nothing must happen by itself.

`CHECK_DEADLOCK FALSE` stands in every configuration: with the environment's bounds spent and all rows settled these
systems are idle, as they should be.

## 4. What is proved

TLAPS checks the following for every value of the constants, under the named assumptions of the modules
(`OutboxAssumption`: the limits are positive, the bounds natural, `NoEvent` is no event; `ConstantsAssumption`: the
foreign runtimes are runtimes, `None` is neither runtime nor version, `MaxVersion` is natural; `MigrationAssumption`:
the migrating processes are processes; renamed, guarded, required and located files are files; `OverlayAssumption`:
PUTs of ceilings are not PUTs of activations, `None` is no role; `LedgerAssumption`: operators are not consumers,
`NoKey` is no key; `QueueAssumption`: a job has an attempt, the reconciler selects some row, foreign rows are
uncatalogued ones, `NoOp` is no operation; `AvailabilityAssumption`: the catalog's version is a version, a snapshot is
valid for some time, `None` is no binding; `DocumentAssumption`: operations and jobs have an attempt, `None` is
neither operation, worker nor file, `Unsaved` is no file; `ProvisioningAssumption`: contacts are a sequence, none of
them bears the name of another step, some request may be under way, `None` is no request). The bounds of the
environment are natural numbers in all of them, and nothing else.

`IntegrationOutboxProofs`:

| Theorem | States |
|---|---|
| `TypeCorrect` | `Spec => []TypeOK` |
| `SettledIsForever` | `Spec => SettledForever` |
| `LedgerIsExact` | `Spec => []DeadLetterLedger` |
| `DeliveredAtLeastOnce` | `Spec => []AtLeastOnce` |
| `LeaseIsExclusive` | `Spec => []LeaseExclusive` |
| `EveryDeliveryIsCharged` | `Spec => []DeliveriesCharged` |
| `OutboxImplementsContract` | `Spec => ImplementsContract` |
| `AttemptsArePaid` | `attempts[e] <= MaxAttempts`, plus the crashes, lost connections and outlived leases so far |

The argument. Type correctness and the ledger are inductive as they stand. `AtLeastOnce` is not: the mark relies on the
delivery before it, so it is strengthened with `Ready` (a dispatcher that is marking has delivered its row).
`LeaseExclusive` follows from `Tokens`: claim owners below `fresh` are spent, and two calls at work never share one;
a row's live lease names one owner, hence one call. `DeliveriesCharged` compares a set of deliveries with a counter;
its invariant `Charged` bounds the larger set `Granted(e)`, the tokens under which the row was or still may be
delivered: a claim adds one token and charges one attempt, everything else only shrinks the set, so the bound is kept
by an injection of deliveries into claims and no step has to count. The refinement needs `Ready` again (the
contract publishes only what was delivered) and `Appended` (only appended rows are handled). `AttemptsArePaid` is the
bound that holds where the runbook's does not (`AttemptsBounded`, section 5), and TLC reaches it: `Paid` says that an
open row has room for one more claim unless it is `Kept`, that is unless its dispatcher has every row in its hands
under a live lease. Such a dispatcher settles the row or schedules its retry below the limit; to drop it, it
must crash or first outlive a lease, and either makes room.

`ModuleControlPlaneProofs`: `TypeCorrect`, `PendingLegal` (`Spec => []PendingMoveLegal`), `Implementation`
(`Spec => LifecycleImplemented`), `Bound` (`Spec => ActivationWasBound`) and `ExecutableEligible` (`Spec =>
[]ExecutableIsEligible`).

The argument. The inductive invariant `IInv` adds to type correctness and `PendingMoveLegal` that the audit trail is the
history of the row (its length is the version and its last entry the lifecycle), and that a version named above the
row's is among the foretold. The legality test reads the row in one statement and the write happens in another; it is
the compare and set on the version that turns the write into a step of `ModuleLifecycle`: into `Move` when the version
named is the one the test saw, into `Overtake` when it was foretold. Callers may name any version, so that nothing better
is provable, and `ControlMoves.cfg` shows that nothing better is true. `Bound` follows because a binding's row, once
inserted, never goes missing and a transition to `active` is reached only past the listing of the bindings.
`ExecutableEligible` needs `BinderReady`: what a caller about to insert an executable binding has read stays true, which
it does because versions and compatibility records are never withdrawn; the unique index of executable bindings is
what leaves only one.

`ScimOperationLedgerProofs`:

| Theorem | States |
|---|---|
| `TypeCorrect` | `Spec => []TypeOK` |
| `MovesAreLegal` | `Spec => LegalMoves` |
| `SettledReceiptStays` | `Spec => ReceiptFinal` |
| `InboxLedgerExact` | `Spec => []InboxLedger` |
| `ReceiptIsExclusive` | `Spec => []ReceiptExclusive` |
| `EffectsAreCharged` | `Spec => []EffectsCharged` |
| `QueuedAwaitsOperator` | only an operator's update takes an operation out of `queued` |
| `StuckNeedsCrash` | `Spec => []StuckByCrashOnly` |

The argument. `Rows` links the ledgers: what was delivered was appended, what was appended has an operation. `Chosen`
carries the test of `transitionOperation` to its write: the state a mover is about to write is a legal successor in
the version it names, while that version is current. `Tokens` is the outbox's argument once more, with one difference:
a call that works without a claim of its own works on a dead-lettered receipt. `Charged` bounds the effects there are
together with the calls that may still have one, so that an attempt is charged before its effect. `InHand`: a receipt
in processing has its claimant at a step that ends in a mark or a dead letter, and only a death or a lost connection
takes it from there (`StuckNeedsCrash`). `QueuedAwaitsOperator` is why `LedgersAgree` fails (section 5): a consumer
asks for `succeeded` and nothing else (`AsksSuccess`), and by `Chosen` it writes only what `TRANSITIONS` allows, which
from `queued` it does not.

`OperationalQueueProofs`: `TypeCorrect`, `CompletionIsEarned` (`Spec => []CompletedHasEffect`), `ExecutionsArePaid`
(`Spec => []ExecutionsBounded`), `ExecutionsAfterRecord`.

The argument. `Rows` (jobs, requests and selections belong to rows) and `Jobs` (a worker's job is active; a job that
may still run has an attempt and a stall left) are what type correctness needs. `Earned` follows the effect of an
execution from the worker to the record of its key and from there to the status. `Paid` gives each queue a credit:
attempts made, stalls, and one for a worker past `execute`; an execution only starts under a credit not yet used.
`ExecutionsAfterRecord` is what remains of `SecondExecutionCached` (section 5). `Late(k)` are the workers that missed the
record of a key and may still execute under it: once the record is there the set only shrinks, and each execution
takes its worker out of it. How many there are depends on how many workers run.

`ReadinessProofs`, on the resolver: `TypeCorrect`, `DecommissionedIsDenied` (`AvailabilitySpec =>
[]DecommissionedDenied`), `DegradedIsPermitted` (`AvailabilitySpec => []DegradedNeedsPolicy`) and `OpenCircuitException`.

The argument. No move leads out of decommissioning (`Gone`) while no version is foretold, so that the lifecycle a call
reads is one that denies if it was so when the call began. `DegradedIsPermitted` is what `resolve` guarantees with an
unchecked registry: degraded execution needs a policy, which restricts it to reads if its mode is `read_only` and not
at all if its mode is unknown. `OpenCircuitException` is what remains of `OpenCircuitDenies`
(section 5): a circuit open during the whole call lets through reads under the read-only policy on degraded health and
nothing else. Its invariant `Judged` follows a call: it reads the circuit on healthy evidence only, and what was open
all along it finds open there and denies.

`DocumentGenerationProofs`: `TypeCorrect`, `SuccessIsBacked` (`Spec => []SucceededHasDocument`), `CancellationHolds`
(`Spec => CancelHolds`), `ObjectBehindDocument` (`Spec => []DocumentHasObject`), `DocumentIsUnique` (`Spec =>
[]OneDocument`), `SuccessIsKept`, `HoldIsKept` (`Spec => []HoldKept`).

The argument. Copies of rows travel: a worker's `running` and a caller's `read` are saved later, over whatever the row has
become. `Good` says of each copy that its document is a file put for its own operation, and since objects are numbered
upwards a copy stays good (`PutStep`, `GoodStays`). `Lent` is type correctness of BullMQ: a lock is on an active job,
and a job that may still run has an attempt left. `WhoWrites` lists the ways in which a row changes; success and
cancellation follow from it, the former because documents only move to the purged (`StoreGrows`). `ObjectBehindDocument`
needs `Stored`: what is about to be committed has its object, or retention has come to it already.

`DocumentIsUnique` does not count documents but shows that two of one operation are equal (`Unique`). While none of its
three exceptions has occurred (`Certain`), whoever works on a job has its lock (`Locked`: a lock is lost by a crash or
by being outlived), so that one worker is past the claim of an operation; and an operation with a document is succeeded
or cancelled with nobody past its claim (`Over`), which no claim, recovery or save undoes. A commit then finds no
earlier document. `SuccessIsKept` is what remains of `TerminalNotCancelled` (section 5), with no exception of its own:
a success gives way to a cancellation, to the failure a worker saves from its older copy, or to an operator's retry.

`OrganizationProvisioningProofs`:

| Theorem | States |
|---|---|
| `ProvisioningInductive` | `Spec => []IInv` |
| `ProvisioningTypeCorrect` | `Spec => []TypeOK` |
| `RecordedStepsAreReal` | `Spec => []StepsAreReal` |
| `CompletionIsBootstrapped` | `Spec => []CompletedIsBootstrapped` |
| `OrganizationIsFound` | `Spec => []OrganizationFound` |
| `RunningIsAccounted` | `Spec => []RunningHasRequest` |
| `EffectsHaveOrganization` | no domain, member or role is written but into an organization that Logto has |
| `OrganizationIsFinal` | a request that knows its organization keeps it |

The argument. From its insert on a request records under its own row (`Own`), and one that may fail the row of another
has no organization yet (`Strangers`); so a row's steps are the work of one request. What its row records was done in
its organization (`Backed`); what it read of the row it resumed is still part of that row (`Snapshot`); the steps
before the one in hand are recorded here or there (`Passed`), and the calls before the one in hand have taken effect
(`Called`). None of these is inductive without the others, and they need that the organization does not change
(`Before`, `Creating`). At the end of the plan every step took effect, in one organization unless the request resumed a
resumed row (`Finished`). `Settling` and `Found` follow a request without a fault to its end; the unique index is what
keeps two rows from naming one organization. The 16 actions are grouped by what they do to rows and Logto (`Works`), so
that each part is proved over eight kinds of step. `NextStep` chooses by `CHOOSE`; that there is a number to choose is
`LeastNumber`, from the well-foundedness of strict inclusion among finite sets.

`ReadinessProofs`, on the migrations: `MigrationTypeCorrect`, `AppliedOnce` (`MigrationSpec => []AppliedExactly`),
`FilesInOrder` (`MigrationSpec => InOrder`), `RunnerExclusive` (`MigrationSpec => []OneRunner`), `ServesMigrated`
(`MigrationSpec => []ServingIsMigrated`).

The argument. The holder of the lock is the process that works (`Locked`), so nothing moves the ledger under it: what
its transaction has looked up and claimed is still so (`Read`), and the files before the one in hand are recorded
(`Behind`). None of the five is inductive without these; a process that dies leaves `lock` as its own dead session's,
which `Locked` tells apart from a live one.

`EntitlementOverlayProofs`: `TypeCorrect` and `NeverTorn` (`Spec => []HeldAtOnce`).

The argument. What is effective now has been seen by every decision under way (`Watched`). A decision between its two
reads has seen its role effective if the role's row, there or on its way, is enabled (`Between`): when the decision
read an allowed ceiling over an enabled row, by `Watched`; when the row becomes enabled later, because the trigger
lets it only under an allowed ceiling, so that the role is effective at that instant. `Between` is what the second
read needs, and it is inductive only together with `Watched`; that an uncommitted row has exactly one request to
commit it (`Holding`, `Held`) is the part of type correctness that needs proof.

Model-checked only: the liveness properties `EventuallySettled`, `EventuallyTaken` and
`EventuallyServing` (fairness and `ENABLED` are beyond the prover). Every safety property of a passing run is the
statement of a theorem; those of section 5 are refuted, and where part of one holds a theorem says which.

## 5. Where the code and what is said of it differ

The run `provisioning_resume` states something the repository says of the program and ends with a counterexample;
`PROJECT.json`, "findings", quotes the line and describes the behaviour. The claim is `OneOrganization`: drafts "are
keyed by idempotency_key so owner wizard resumes do not create a parallel canonical organization"
(`db/migrations/0000_foundation.sql:96`; `tests/organizationProvisioningResume.test.js:46` checks it with the
in-memory recorder). Since migration 0028 the unique index is on organization and key, rows without an organization
never conflict, every POST inserts a row of its own, and the lookup of the row to resume has no order: a third POST
may resume a row that does not know of the creation and create a second organization.

More configurations stand beside the regular runs; TLC refutes the one property each of these names:

| Configuration (module) | The claim | What happens |
|---|---|---|
| `EntitlementAtomic.cfg` (`MCEntitlementOverlay`) | `FailedWroteNothing`: state change and version increment "are written in one transaction" (`docs/authorization-runtime-consistency.md:22`) | the callback of `repository.transaction` goes on with the unscoped repository; a PUT refused by the trigger leaves its version and its earlier rows behind |
| `EntitlementDenied.cfg` (`MCEntitlementOverlay`) | `DeniedAtRest`: `enabled=true` "cannot coexist effectively with `allowed=false`" (`docs/authorization/tenant-isolation-and-entitlements.md:33`) | the trigger guards the activation's table only; a denial and its `disableActivation` are two statements, and one that passes by an activation being inserted leaves it enabled. The evaluator still denies it, until the ceiling is allowed again |
| `ScimAppend.cfg` (`MCScimOperationLedger`) | `EventuallyAppended`: "transactional outbox" (`docs/operations/p3-010-integration-events-operations-runbook.md:5`) | operation and event are written by two statements without a transaction; after a crash in between every retry returns the operation as a duplicate and its event is never appended |
| `QueueFinal.cfg` (`MCOperationalQueue`) | `CompletedFinal`: retries must not change the final state (Phase 2 engineering design, line 856) | `enqueueOperation` writes `queued` after `queue.add`, over a status that a faster worker or an earlier run has completed |
| `ControlMoves.cfg` (`MCModuleControlPlane`) | `MovesLegal`: "invalid module lifecycle transition" (`moduleControlPlane.js:134`) | the service checks the move against the row it reads and never compares the row's version with `expectedVersion`; a caller that names the next version has the move written over whatever lifecycle that version brings |
| `ControlActivation.cfg` (`MCModuleControlPlane`) | `ActivationHasBinding`: "active lifecycle requires executable runtime binding" (`moduleControlPlane.js:134`) | the binding is suspended between the listing and the write, whose compare and set covers the installation only |
| `AvailabilityCircuit.cfg` (`MCModuleAvailability`) | `OpenCircuitDenies`: "Circuit `open` denies" (`docs/operations/p3-006-module-availability-runbook.md:13`) | degraded health with the read-only policy is decided before the circuit is read |
| `OutboxAttempts.cfg` (`MCIntegrationOutbox`) | `AttemptsBounded`: "bounded backoff and attempts" (the p3-010 runbook, lines 13 and 17) | `claimBatch` charges every takeover but only `scheduleRetry` compares with `max_attempts`, and it needs a live lease: a dispatcher that crashes or is slow each time delivers more often |
| `ScimReplay.cfg` (`MCScimOperationLedger`) | `ReplayRepairs`: replaying a repaired event empties the dead-letter queue (`docs/operations/phase3-production-readiness.md:16`) | `claimInbox` returns a dead-lettered receipt unchanged, the adapter runs again, `markInboxProcessed` refuses |
| `ScimLedgers.cfg` (`MCScimOperationLedger`) | `LedgersAgree`: "zero unexplained drift" (same line) | nothing makes a SCIM operation `running`, and `TRANSITIONS` has no move from `queued` to `succeeded`: the receipt is processed, the operation stays queued |
| `QueueCached.cfg` (`MCOperationalQueue`) | `SecondExecutionCached`: "Second execution with the same idempotency key returns the cached result" (`docs/foundation/phase-0.md:55`) | request and reconciler add the job to different queues, both workers miss the record and execute |
| `QueuePending.cfg` (`MCOperationalQueue`) | `PendingReconciled`: pending operations are reconciled (the engineering design, line 854) | one row whose type is not in the action catalog makes `selectQueueForAction` throw and ends every pass before the rows behind it; with no such row, rows left in `retry_scheduled` by a failed job stay selectable and fill every selection |
| `AvailabilityCompatible.cfg` (`MCModuleAvailability`) | `CompatibleOnly`: an incompatible version blocks access (`docs/architecture/CIVITAS_AUTHORIZATION_POLICY_MODEL.md:38`) | the compatibility of a catalog version that `module_versions` does not hold is never asked for |
| `DocumentCancel.cfg` (`MCDocumentGeneration`) | `TerminalNotCancelled`: "terminal operation cannot be cancelled" (`documents/documentService.js:63`) | `cancel` reads the row and saves it by an unconditional statement; a worker succeeds in between |
| `DocumentRepeat.cfg` (`MCDocumentGeneration`) | `SuccessNamesRow`: an operation's `documentId` is a document (`documents/documentService.js:56`) | a put repeated after a commit in doubt is answered with the reference given before; `saveDocument` inserts nothing (`on conflict ... do nothing`) and the operation is saved with the new id |

One more configuration passes: `DocumentHold.cfg` checks `HoldKept` (a document under legal hold keeps row and object)
with the bounds of `documents_safety`, in whose own instance no document is held, so that retention deletes some.

## 6. Known ends that the models show and no property forbids

* A dead-lettered outbox row stays there: no statement of `src` moves it on.
* A document request that dies before `producer.enqueue` leaves a pending operation without a job: recovery looks at
  running and failed operations only.
* Retrying a document dead letter while BullMQ still holds the failed job of that id adds no job.
* A document operation that is dead-lettered a second time keeps the reconciliation status of its first dead letter.
* A row whose last attempt failed stays `retry_scheduled`; a job refused by its schema leaves its row `queued`.
* Provisioning checks that the contacts' e-mails differ, not their keys: of two contacts that name the same `key`
  (`organizationProvisioningCore.js:103`), the second finds its step completed and is skipped. The model gives each
  contact a key of its own.
* A completed provisioning sent again leaves its second row `running` for good and sets the draft to failed: the unique
  index refuses to complete the row and to fail it.
* A provisioning whose insert fails runs `failOperation` on the row it resumed and overwrites it. The reconciler of the
  operations queue does not take `running` rows.
* A module may be installed as `active` or in any other lifecycle, without a binding: `input.lifecycle` is taken as it is.
* A receipt left in `processing` by a crash whose event the outbox has published or dead-lettered stays there.
* Once an organization was created behind a timed-out call, no row names it and a later request creates another.
* The policy version is raised before the rows it stands for are written: a reader that pairs them may take the old
  rows for the new version. A decision passes no version in production, so nothing does.
* A PUT of ceilings or activations holds a pool connection it does not use while its statements take others; ten at once
  use up the pool, and their statements fail after the connect timeout.
* The rows documents append to the outbox carry `schema_version` `'1'` where the registry of the outbox says
  `civitas-integration-event/v1`.

## 7. Plan

Done: the outbox and the control plane with their contracts, the SCIM ledger, the operations queue, the resolver,
document generation, provisioning, the migration runner and the entitlement overlay, each with proofs of all its
safety properties. Next, in this order:

1. `AuthorizationOutbox` (`authorization/runtime/outbox`, version and freshness services): claims without fencing,
   version increment, invalidation and publication as three effects. Abstract specification: a cache that never
   serves a decision older than the freshness bound. Runs: two publishers and a reconciler; one stale reader.
2. `PlanningReview` (aggregate, review workflow, idempotency ledger): an event stream with compare-and-set versions as
   the abstract specification; two reviewers and a repeated command.
3. `ProductionHandoff`: two callers and receipts out of order ("A receipt that races with cancellation wins",
   `docs/architecture/production-handoff.md:27`).
4. `PlanningTransport`: circuit breaker, retry and timeout of remote calls, with a late answer.
5. `IdentityFederationApply` with the mass-deprovision guard; then SCIM users and groups over it.
6. Versioned drafts (organization mapping, taxonomy, role labels, data scopes) over one abstract specification of
   optimistic locking; the decision pipeline as a pure function.

Proofs: no safety property of a passing run is without one; each new module brings its own. Runs of the new modules take the
place of liveness runs that can be joined with the safety run of their component.

## 8. Not modelled, and why

* **External systems** (BullMQ, object storage, Logto, the transport) are modelled by what the code relies on; the map
  marks them external. PostgreSQL statements are atomic, transactions all or nothing; its isolation is not modelled
  beyond that, which is what the code's `for update skip locked` and single-statement updates need.
* **Row security, permissions, payload validation, redaction**: no state that an interleaving could break.
* **In-memory engine** (`worker/engine.js`): a reference used by its own test; the deployed path is `executeActionJob`.
* `claimNextOperation`, `completeOperation`, `failOperation` of `operationalOperations.js` have no caller.
* **HTTP routes, middleware, authentication, frontend, contracts, generated code, scripts**: request handling without
  state of its own, or user interface and tooling.
* The planned components of section 7.
