---------------------------- MODULE OperationalQueue ----------------------------
(***************************************************************************)
(* An operation of POST /owner/system/operations, from its row in          *)
(* operational_operations through BullMQ to the worker and back:           *)
(* services/operationalOperations.js, queues/actionQueue.js,               *)
(* worker/executeActionJob.js and worker/reconcileQueuedOperations.js.     *)
(*                                                                         *)
(* An operation stands for the client's idempotency key: a repeated POST   *)
(* finds the same row.  BullMQ is external: a queue keeps at most one job  *)
(* of an id, retries it up to "attempts" times, gives a stalled job back   *)
(* once, and forgets old finished jobs (removeOnComplete, removeOnFail).   *)
(* Each queue has one worker of concurrency 1, the default of              *)
(* WORKER_CONCURRENCY in one worker process.                               *)
(*                                                                         *)
(* Definitions under "Mutant" are faulty variants of the definition after  *)
(* them; nothing in the specification uses one.                            *)
(***************************************************************************)
EXTENDS Naturals, FiniteSets

CONSTANTS Op,              \* operations
          Poster,          \* API requests in progress
          Background,      \* operations whose action's queue is background_events
          Keyless,         \* operations without an idempotency key in the worker
          Shared,          \* operations whose action derives one and the same key
          BadInput,        \* operations whose input their action's schema refuses
          Uncatalogued,    \* operations whose type is not in the action catalog
          Foreign,         \* those among them that are rows of another subsystem
          JobAttempts,     \* defaultJobOptions().attempts
          ReconcileLimit,  \* "limit" of reconcileQueuedOperations
          MaxPost,         \* bound: POST requests in a behaviour
          MaxCrash,        \* bound: crashes and lost connections
          MaxEvict,        \* bound: finished jobs forgotten by BullMQ
          NoOp             \* no operation in hand

ASSUME QueueAssumption ==
  /\ Background \subseteq Op /\ Keyless \subseteq Op /\ Shared \subseteq Op
  /\ BadInput \subseteq Op
  /\ Uncatalogued \subseteq Op /\ Foreign \subseteq Uncatalogued
  /\ JobAttempts \in Nat \ {0}
  /\ ReconcileLimit \in Nat \ {0}
  /\ MaxPost \in Nat /\ MaxCrash \in Nat /\ MaxEvict \in Nat
  /\ NoOp \notin Op

Queue == {"priority_commands", "background_events"}

VARIABLES
  status,     \* operational_operations.status, or "absent"
  records,    \* keys of idempotency_records
  job,        \* BullMQ: state of the job action-operation-<id>, by queue
  made,       \* BullMQ: attemptsMade
  stalled,    \* BullMQ: times the job was given back after a stall
  starts,     \* calls of definition.execute
  effects,    \* operations whose execute has succeeded
  ppc, pop,   \* createOperation, by poster
  wpc, wop,   \* executeActionJob, by queue
  rpc, rows, rop,  \* reconcileQueuedOperations
  posts, crashes, evictions

jobVars == <<job, made, stalled>>
runVars == <<starts, effects>>
posterVars == <<ppc, pop>>
workerVars == <<wpc, wop>>
reconVars == <<rpc, rows, rop>>
bounds == <<posts, crashes, evictions>>
vars == <<status, records, jobVars, runVars, posterVars, workerVars, reconVars, bounds>>

Init ==
  /\ status = [o \in Op |-> "absent"]
  /\ records = {}
  /\ job = [q \in Queue |-> [o \in Op |-> "none"]]
  /\ made = [q \in Queue |-> [o \in Op |-> 0]]
  /\ stalled = [q \in Queue |-> [o \in Op |-> 0]]
  /\ starts = [o \in Op |-> 0]
  /\ effects = {}
  /\ ppc = [p \in Poster |-> "idle"]
  /\ pop = [p \in Poster |-> NoOp]
  /\ wpc = [q \in Queue |-> "idle"]
  /\ wop = [q \in Queue |-> NoOp]
  /\ rpc = "idle" /\ rows = {} /\ rop = NoOp
  /\ posts = MaxPost /\ crashes = MaxCrash /\ evictions = MaxEvict

-----------------------------------------------------------------------------
(* BullMQ                                                                  *)

\* Mutant: jobs are added under a new id each time.
AddableAnyway(q, o) == job[q][o] # "active"

\* getActionJobId names the job by its operation, and queue.add under an id that exists
\* returns the old job, whatever its state.
Addable(q, o) == job[q][o] = "none"

AddJob(q, o) ==
  IF Addable(q, o)
  THEN /\ job' = [job EXCEPT ![q][o] = "waiting"]
       /\ made' = [made EXCEPT ![q][o] = 0]
       /\ stalled' = [stalled EXCEPT ![q][o] = 0]
  ELSE UNCHANGED jobVars

MaxStalled == 1

\* The stalled-job check finds an active job whose worker is gone.
StalledCheck(q, o) ==
  /\ job[q][o] = "active"
  /\ wop[q] # o
  /\ job' = [job EXCEPT ![q][o] = IF stalled[q][o] < MaxStalled THEN "waiting" ELSE "failed"]
  /\ stalled' = [stalled EXCEPT ![q][o] = @ + 1]
  /\ UNCHANGED <<status, records, made, runVars, posterVars, workerVars, reconVars, bounds>>

BackoffOver(q, o) ==
  /\ job[q][o] = "delayed"
  /\ job' = [job EXCEPT ![q][o] = "waiting"]
  /\ UNCHANGED <<status, records, made, stalled, runVars, posterVars, workerVars, reconVars, bounds>>

Evict(q, o) ==
  /\ job[q][o] \in {"completed", "failed"}
  /\ evictions > 0
  /\ evictions' = evictions - 1
  /\ job' = [job EXCEPT ![q][o] = "none"]
  /\ UNCHANGED <<status, records, made, stalled, runVars, posterVars, workerVars, reconVars,
                 posts, crashes>>

-----------------------------------------------------------------------------
(* createOperation and enqueueOperation                                    *)

SetStatus(o, s) == status' = [status EXCEPT ![o] = s]

PosterAt(p, s) == ppc' = [ppc EXCEPT ![p] = s]

\* insert ... onConflictDoNothing; on conflict the row of the key is selected.
Post(p, o) ==
  /\ ppc[p] = "idle" /\ o \notin Foreign
  /\ posts > 0
  /\ posts' = posts - 1
  /\ IF status[o] = "absent" THEN SetStatus(o, "pending") ELSE UNCHANGED status
  /\ PosterAt(p, "add")
  /\ pop' = [pop EXCEPT ![p] = o]
  /\ UNCHANGED <<records, jobVars, runVars, workerVars, reconVars, crashes, evictions>>

\* The queue is the body's queueName, or the runtime's first; never the action's.  The
\* body may name a queue that no worker serves and no snapshot looks into.
PosterAdd(p) ==
  /\ ppc[p] = "add"
  /\ (\E q \in Queue : AddJob(q, pop[p])) \/ UNCHANGED jobVars
  /\ PosterAt(p, "mark")
  /\ UNCHANGED <<status, records, runVars, pop, workerVars, reconVars, bounds>>

\* set({ status: "queued", ... }).where(id): whatever the worker did meanwhile.
PosterMark(p) ==
  /\ ppc[p] = "mark"
  /\ SetStatus(pop[p], "queued")
  /\ PosterAt(p, "idle")
  /\ pop' = [pop EXCEPT ![p] = NoOp]
  /\ UNCHANGED <<records, jobVars, runVars, workerVars, reconVars, bounds>>

\* The API dies, or Redis or the database fails it, between two calls.
PosterCrash(p) ==
  /\ ppc[p] # "idle"
  /\ crashes > 0
  /\ crashes' = crashes - 1
  /\ PosterAt(p, "idle")
  /\ pop' = [pop EXCEPT ![p] = NoOp]
  /\ UNCHANGED <<status, records, jobVars, runVars, workerVars, reconVars, posts, evictions>>

\* The status of another subsystem's row is that subsystem's: a document operation or a
\* module's is "pending", a SCIM operation's "queued", while they wait for their own worker.
\* "pending" stands for all that the reconciler selects, "failed" for the others.
ForeignMoves(o) ==
  /\ o \in Foreign
  /\ \E s \in {"pending", "failed"} : SetStatus(o, s)
  /\ UNCHANGED <<records, jobVars, runVars, posterVars, workerVars, reconVars, bounds>>

-----------------------------------------------------------------------------
(* executeActionJob, one step per call that another process can observe    *)

WorkerAt(q, s) == wpc' = [wpc EXCEPT ![q] = s]

\* The action's idempotencyKey(input), or the operation's own.
Key(o) == IF o \in Shared THEN "shared" ELSE o

HasKey(o) == o \notin Keyless

\* Mutant: the idempotency record is saved before the action is executed.
SaveFirst == "save"

FirstCall == "execute"

TakeJob(q, o) ==
  /\ wpc[q] = "idle"
  /\ job[q][o] = "waiting"
  /\ job' = [job EXCEPT ![q][o] = "active"]
  /\ WorkerAt(q, "lookup")
  /\ wop' = [wop EXCEPT ![q] = o]
  /\ UNCHANGED <<status, records, made, stalled, runVars, posterVars, reconVars, bounds>>

\* loadOperation, getActionDefinition, which throws a plain error, inputSchema and
\* getIdempotencyRecord.  The status is not looked at.
Lookup(q) ==
  /\ wpc[q] = "lookup"
  /\ WorkerAt(q, IF wop[q] \in Uncatalogued THEN "throw"
                 ELSE IF wop[q] \in BadInput THEN "unrecoverable"
                 ELSE IF HasKey(wop[q]) /\ Key(wop[q]) \in records THEN "complete"
                 ELSE "begin")
  /\ UNCHANGED <<status, records, jobVars, runVars, posterVars, wop, reconVars, bounds>>

Begin(q) ==
  /\ wpc[q] = "begin"
  /\ SetStatus(wop[q], "processing")
  /\ WorkerAt(q, FirstCall)
  /\ UNCHANGED <<records, jobVars, runVars, posterVars, wop, reconVars, bounds>>

\* definition.precondition and definition.execute
Execute(q) ==
  /\ wpc[q] = "execute"
  /\ starts' = [starts EXCEPT ![wop[q]] = @ + 1]
  /\ \/ effects' = effects \cup {wop[q]} /\ WorkerAt(q, "save")
     \/ UNCHANGED effects /\ WorkerAt(q, "retryable")
     \/ UNCHANGED effects /\ WorkerAt(q, "terminal")
  /\ UNCHANGED <<status, records, jobVars, posterVars, wop, reconVars, bounds>>

\* recordOperationStep and saveIdempotencyRecord (onConflictDoUpdate)
Save(q) ==
  /\ wpc[q] = "save"
  /\ records' = IF HasKey(wop[q]) THEN records \cup {Key(wop[q])} ELSE records
  /\ WorkerAt(q, "complete")
  /\ UNCHANGED <<status, jobVars, runVars, posterVars, wop, reconVars, bounds>>

\* updateOperationStatus(... "completed"), after a hit or after the save
Complete(q) ==
  /\ wpc[q] = "complete"
  /\ SetStatus(wop[q], "completed")
  /\ WorkerAt(q, "return")
  /\ UNCHANGED <<records, jobVars, runVars, posterVars, wop, reconVars, bounds>>

\* Mutant: the catch block writes BullMQ's word for the state.
JobWord == "delayed"

RetryStatus == "retry_scheduled"

\* The catch block; retry_scheduled also when no attempt is left.
Fail(q) ==
  /\ \/ wpc[q] = "retryable" /\ SetStatus(wop[q], RetryStatus) /\ WorkerAt(q, "throw")
     \/ wpc[q] = "terminal" /\ SetStatus(wop[q], "failed") /\ WorkerAt(q, "unrecoverable")
  /\ UNCHANGED <<records, jobVars, runVars, posterVars, wop, reconVars, bounds>>

\* A database call fails.  A failing save runs the catch block; the others reject
\* the job as they are, the last update too, which is returned and not awaited.
DatabaseError(q) ==
  /\ wpc[q] \in {"lookup", "begin", "save", "complete", "retryable", "terminal"}
  /\ crashes > 0
  /\ crashes' = crashes - 1
  /\ WorkerAt(q, IF wpc[q] = "save" THEN "retryable" ELSE "throw")
  /\ UNCHANGED <<status, records, jobVars, runVars, posterVars, wop, reconVars, posts, evictions>>

FinalAttempt(q) == made[q][wop[q]] + 1 >= JobAttempts

\* BullMQ moves the job on when the processor settles.
JobSettles(q) ==
  /\ wpc[q] \in {"return", "throw", "unrecoverable"}
  /\ job' = [job EXCEPT ![q][wop[q]] =
               CASE wpc[q] = "return" -> "completed"
                 [] wpc[q] = "throw" /\ ~FinalAttempt(q) -> "delayed"
                 [] OTHER -> "failed"]
  /\ made' = [made EXCEPT ![q][wop[q]] = @ + 1]
  /\ WorkerAt(q, "idle")
  /\ wop' = [wop EXCEPT ![q] = NoOp]
  /\ UNCHANGED <<status, records, stalled, runVars, posterVars, reconVars, bounds>>

\* The worker's process dies: its job stays active until the stalled-job check.
WorkerCrash(q) ==
  /\ wpc[q] # "idle"
  /\ crashes > 0
  /\ crashes' = crashes - 1
  /\ WorkerAt(q, "idle")
  /\ wop' = [wop EXCEPT ![q] = NoOp]
  /\ UNCHANGED <<status, records, jobVars, runVars, posterVars, reconVars, posts, evictions>>

-----------------------------------------------------------------------------
(* reconcileQueuedOperations                                               *)

\* Mutant: rows whose enqueue never began are not selected.
MarkedOnly == {o \in Op : status[o] \in {"queued", "retry_scheduled"}}

Selectable == {o \in Op : status[o] \in {"pending", "queued", "retry_scheduled"}}

SomeJob(o) == \E q \in Queue : job[q][o] # "none"

\* selectQueueForAction, of a type the catalog has
HomeQueue(o) == IF o \in Background THEN "background_events" ELSE "priority_commands"

\* select ... limit n, in no order
ReconcileSelect ==
  /\ rpc = "idle"
  /\ \E found \in SUBSET Selectable :
       /\ found # {}
       /\ Cardinality(found) <= ReconcileLimit
       /\ Cardinality(found) = ReconcileLimit \/ found = Selectable
       /\ rows' = found
  /\ rpc' = "scan"
  /\ UNCHANGED <<status, records, jobVars, runVars, posterVars, workerVars, rop, bounds>>

\* getActionJobSnapshot of the next row; a job in any state counts.
ReconcileNext ==
  /\ rpc = "scan"
  /\ \/ \E o \in rows :
          /\ rows' = rows \ {o}
          /\ IF SomeJob(o) THEN UNCHANGED <<rpc, rop>> ELSE rpc' = "add" /\ rop' = o
     \/ rows = {} /\ rpc' = "idle" /\ UNCHANGED <<rows, rop>>
  /\ UNCHANGED <<status, records, jobVars, runVars, posterVars, workerVars, bounds>>

\* enqueueActionOperation to the action's own queue; the row is not written.  A type that
\* is not in the catalog throws, and the error ends the pass.
ReconcileAdd ==
  /\ rpc = "add"
  /\ rop' = NoOp
  /\ IF rop \in Uncatalogued
     THEN rpc' = "idle" /\ rows' = {} /\ UNCHANGED jobVars
     ELSE rpc' = "scan" /\ AddJob(HomeQueue(rop), rop) /\ UNCHANGED rows
  /\ UNCHANGED <<status, records, runVars, posterVars, workerVars, bounds>>

\* The process dies in its pass, or Redis fails it.
ReconcileFails ==
  /\ rpc # "idle"
  /\ crashes > 0
  /\ crashes' = crashes - 1
  /\ rpc' = "idle" /\ rows' = {} /\ rop' = NoOp
  /\ UNCHANGED <<status, records, jobVars, runVars, posterVars, workerVars, posts, evictions>>

-----------------------------------------------------------------------------
Work(q) ==
  \/ \E o \in Op : TakeJob(q, o)
  \/ Lookup(q) \/ Begin(q) \/ Execute(q) \/ Save(q) \/ Complete(q) \/ Fail(q) \/ JobSettles(q)

Bull(q, o) == StalledCheck(q, o) \/ BackoffOver(q, o)

Reconcile == ReconcileSelect \/ ReconcileNext \/ ReconcileAdd

Next ==
  \/ \E p \in Poster : PosterAdd(p) \/ PosterMark(p) \/ PosterCrash(p) \/ \E o \in Op : Post(p, o)
  \/ \E q \in Queue : Work(q) \/ DatabaseError(q) \/ WorkerCrash(q)
  \/ \E q \in Queue, o \in Op : Bull(q, o) \/ Evict(q, o)
  \/ Reconcile \/ ReconcileFails
  \/ \E o \in Op : ForeignMoves(o)

Spec == Init /\ [][Next]_vars

\* Workers take some waiting job and run it to the end; the timers of BullMQ and
\* the interval of the reconciler fire; a request that does not crash ends.
Fairness ==
  /\ \A p \in Poster : WF_vars(PosterAdd(p) \/ PosterMark(p))
  /\ \A q \in Queue : WF_vars(Work(q))
  /\ \A q \in Queue, o \in Op : WF_vars(Bull(q, o))
  /\ WF_vars(Reconcile)

FairSpec == Spec /\ Fairness

-----------------------------------------------------------------------------
\* Type invariant: statuses and job states are those of the table and of BullMQ,
\* and whoever is past his first step has an operation in hand that exists.
TypeOK ==
  /\ status \in [Op -> {"absent", "pending", "queued", "processing", "completed",
                        "retry_scheduled", "failed"}]
  /\ records \subseteq {Key(o) : o \in Op}
  /\ job \in [Queue -> [Op -> {"none", "waiting", "active", "delayed", "completed", "failed"}]]
  /\ made \in [Queue -> [Op -> 0..JobAttempts]]
  /\ stalled \in [Queue -> [Op -> 0..(MaxStalled + 1)]]
  /\ starts \in [Op -> Nat]
  /\ effects \subseteq Op
  /\ ppc \in [Poster -> {"idle", "add", "mark"}]
  /\ pop \in [Poster -> Op \cup {NoOp}]
  /\ wpc \in [Queue -> {"idle", "lookup", "begin", "execute", "save", "complete", "retryable",
                        "terminal", "return", "throw", "unrecoverable"}]
  /\ wop \in [Queue -> Op \cup {NoOp}]
  /\ \A q \in Queue : wpc[q] # "idle" => wop[q] \in Op /\ status[wop[q]] # "absent"
  /\ rpc \in {"idle", "scan", "add"} /\ rows \subseteq Op /\ rop \in Op \cup {NoOp}
  /\ posts \in Nat /\ crashes \in Nat /\ evictions \in Nat

\* An operation is completed only after an action ran to its end under its key
\* (its own, if it has no key to share): no crash between execute, save and
\* complete, and no hit on another operation's record, completes one for nothing.
CompletedHasEffect ==
  \A o \in Op : status[o] = "completed" =>
    IF HasKey(o) THEN \E e \in effects : HasKey(e) /\ Key(e) = Key(o) ELSE o \in effects

\* The action of an operation is executed at most once for each attempt of each of
\* its jobs and each time one of them was given back after a stall, however often
\* the operation is posted and reconciled, until BullMQ forgets its jobs.
ExecutionsBounded ==
  evictions = MaxEvict =>
    \A o \in Op :
      starts[o] <= JobAttempts * Cardinality({q \in Queue : job[q][o] # "none"})
                     + stalled["priority_commands"][o] + stalled["background_events"][o]

\* Rows on which a pass of the reconciler throws
Blocking == {o \in Selectable \cap Uncatalogued : ~SomeJob(o)}

\* From some time on a pass can reach every row that waits: none of them throws, and
\* they are not more than one pass selects.
ReconcilerClear == <>[](Blocking = {} /\ Cardinality(Selectable) <= ReconcileLimit)

\* A row that waits for its job is not lost, whether its request died before the job was
\* added, added it where no worker is, or BullMQ forgot the job: the reconciler adds one
\* and a worker settles it, once the reconciler's way is clear.
EventuallyTaken ==
  ReconcilerClear =>
    \A o \in Op \ Foreign :
      status[o] \in {"pending", "queued", "retry_scheduled"} ~>
        \E q \in Queue : job[q][o] \in {"completed", "failed"}

\* "exige que reintentar no cambie el estado final" (docs/architecture/
\* Civitas_Phase_2_Authorization_Engineering_Design (2).md, line 856): a completed
\* operation stays completed.
CompletedFinal ==
  [][\A o \in Op : status[o] = "completed" => status'[o] = "completed"]_vars

\* "Second execution with the same idempotency key returns the cached result"
\* (docs/foundation/phase-0.md, line 55): once an execution has succeeded, the
\* actions of its key are not executed again.
SecondExecutionCached ==
  [][\A o \in Op : o \in effects /\ HasKey(o) => starts'[o] = starts[o]]_vars

\* "reconciliador de operaciones pendientes cada 30 segundos" (the same design,
\* line 854): a pending operation is reconciled, although others are pending too.
PendingReconciled ==
  \A o \in Op \ Uncatalogued : status[o] = "pending" ~> status[o] # "pending" \/ SomeJob(o)
=============================================================================
