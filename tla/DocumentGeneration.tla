--------------------------- MODULE DocumentGeneration ---------------------------
(***************************************************************************)
(* The generation of documents: requests, the BullMQ job and its workers,  *)
(* cancellation, recovery, dead letters and retention:                     *)
(* documents/documentService.js, postgresRepository.js, documentQueue.js,  *)
(* reconcile.js and the request handler of routes.js.                      *)
(*                                                                         *)
(* One action is one statement of the repository (a transaction is one     *)
(* statement), one call of the storage or one step of BullMQ.  An          *)
(* operation stands for its tenant's idempotency key; a file <<o, n>> is   *)
(* the n-th reference the storage gave for operation o, and the row of     *)
(* documents that bears it.  No two operations are given one reference.    *)
(* The row's version, problem and times decide nothing and are left out.   *)
(*                                                                         *)
(* Definitions under "Mutant" are faulty variants of the definition after  *)
(* them; nothing in the specification uses one.                            *)
(***************************************************************************)
EXTENDS Naturals, FiniteSets

CONSTANTS Op,           \* operations
          Worker,       \* BullMQ's slots: concurrency times processes
          Caller,       \* callers of cancel
          Held,         \* operations requested with legalHold
          MaxAttempts,  \* max_attempts of an operation
          JobAttempts,  \* DOCUMENT_JOB_ATTEMPTS
          MaxFault,     \* bound: crashes, lost calls and failing statements
          MaxSlow,      \* bound: workers that outlive their job's lock
          MaxDoubt,     \* bound: commits whose answer is lost
          MaxRepeat,    \* bound: puts answered with a reference given before
          MaxCancel,    \* bound: calls of cancel
          MaxRetry,     \* bound: dead letters an operator decides on
          MaxEvict,     \* bound: finished jobs forgotten by BullMQ
          MaxEvent,     \* bound: all of these together
          Unsaved,      \* the id of a document whose insert met the row of its reference
          None          \* nothing in hand

ASSUME DocumentAssumption ==
  /\ Held \subseteq Op
  /\ MaxAttempts \in Nat \ {0} /\ JobAttempts \in Nat \ {0}
  /\ MaxFault \in Nat /\ MaxSlow \in Nat /\ MaxDoubt \in Nat /\ MaxRepeat \in Nat
  /\ MaxCancel \in Nat /\ MaxRetry \in Nat /\ MaxEvict \in Nat /\ MaxEvent \in Nat
  /\ None \notin Op \cup Worker \cup Op \X Nat
  /\ Unsaved \notin (Op \X Nat) \cup {None}

VARIABLES
  status, attempts, asked, docId,  \* operational_operations: asked is cancellation_requested_at
  letter,                          \* document_operation_dead_letters
  events,                          \* integration_outbox_events, by type and operation
  documents, purged,               \* rows of documents, and those deleted since
  objects, puts,                   \* the storage, and how many references it gave
  job, made, stalls, holder,       \* BullMQ: the job of each operation and who has its lock
  calls,                           \* calls of producer.enqueue under way
  wpc, wop, running, file, fatal,  \* runGeneration: its variables, and ~error.retryable
  cpc, read,                       \* cancel, and the row it has read
  tpc, due, expired, row,          \* enforceRetention: due are the rows past retention_until
  left                             \* what is left of each bound

opVars == <<status, attempts, asked, docId>>
dataVars == <<letter, events, documents, purged, objects, puts>>
jobVars == <<job, made, stalls, holder>>
workVars == <<wop, running, file, fatal>>
cancelVars == <<cpc, read>>
retainVars == <<tpc, due, expired, row>>
vars == <<opVars, dataVars, jobVars, calls, wpc, workVars, cancelVars, retainVars, left>>

Row(o) == [op |-> o, attempts |-> attempts[o], doc |-> docId[o]]

NoRow == [op |-> None, attempts |-> 0, doc |-> None]

Init ==
  /\ status = [o \in Op |-> "absent"] /\ attempts = [o \in Op |-> 0]
  /\ asked = {} /\ docId = [o \in Op |-> None]
  /\ letter = [o \in Op |-> "none"] /\ events = {}
  /\ documents = {} /\ purged = {} /\ objects = {} /\ puts = [o \in Op |-> 0]
  /\ job = [o \in Op |-> "none"] /\ made = [o \in Op |-> 0]
  /\ stalls = [o \in Op |-> 0] /\ holder = [o \in Op |-> None]
  /\ calls = {}
  /\ wpc = [w \in Worker |-> "idle"] /\ wop = [w \in Worker |-> None]
  /\ running = [w \in Worker |-> NoRow] /\ file = [w \in Worker |-> None]
  /\ fatal = [w \in Worker |-> FALSE]
  /\ cpc = [c \in Caller |-> "idle"] /\ read = [c \in Caller |-> NoRow]
  /\ tpc = "idle" /\ due = {} /\ expired = {} /\ row = None
  /\ left = [fault |-> MaxFault, slow |-> MaxSlow, doubt |-> MaxDoubt,
             repeat |-> MaxRepeat, cancel |-> MaxCancel, retry |-> MaxRetry, evict |-> MaxEvict, any |-> MaxEvent]

Spend(kind) ==
  /\ left[kind] > 0 /\ left.any > 0
  /\ left' = [left EXCEPT ![kind] = @ - 1, !.any = @ - 1]

Announce(type, o) == events' = events \cup {<<type, o>>}

\* saveOperation: an update by id alone, with the caller's copy of the row.
SaveOperation(r, state, cancelled) ==
  /\ status' = [status EXCEPT ![r.op] = state]
  /\ attempts' = [attempts EXCEPT ![r.op] = r.attempts]
  /\ docId' = [docId EXCEPT ![r.op] = r.doc]
  /\ asked' = IF cancelled THEN asked \cup {r.op} ELSE asked \ {r.op}

-----------------------------------------------------------------------------
(* Requests and the producer                                               *)

\* requestGeneration: the row and its event in one transaction.  A request that
\* meets its key again writes nothing and enqueues nothing.
Request(o) ==
  /\ status[o] = "absent"
  /\ status' = [status EXCEPT ![o] = "pending"]
  /\ Announce("requested", o)
  /\ calls' = calls \cup {<<"request", o>>}
  /\ UNCHANGED <<attempts, asked, docId, letter, documents, purged, objects, puts, jobVars,
                 wpc, workVars, cancelVars, retainVars, left>>

\* queue.add under an existing job id returns the old job, whatever its state.
Enqueue(call) ==
  LET o == call[2] IN
  /\ calls' = calls \ {call}
  /\ IF job[o] = "none"
     THEN /\ job' = [job EXCEPT ![o] = "waiting"]
          /\ made' = [made EXCEPT ![o] = 0]
          /\ stalls' = [stalls EXCEPT ![o] = 0]
     ELSE UNCHANGED <<job, made, stalls>>
  /\ UNCHANGED <<opVars, dataVars, holder, wpc, workVars, cancelVars, retainVars, left>>

\* The process dies before the call, or Redis refuses it.
EnqueueLost(call) ==
  /\ Spend("fault")
  /\ calls' = calls \ {call}
  /\ UNCHANGED <<opVars, dataVars, jobVars, wpc, workVars, cancelVars, retainVars>>

-----------------------------------------------------------------------------
(* BullMQ                                                                  *)

MaxStalled == 1

\* The stalled-job check finds a job whose lock has expired: its worker is gone, or
\* has been busy for too long and goes on regardless.
StalledCheck(o) ==
  /\ job[o] = "active"
  /\ IF holder[o] = None THEN UNCHANGED left ELSE Spend("slow")
  /\ job' = [job EXCEPT ![o] = IF stalls[o] < MaxStalled THEN "waiting" ELSE "failed"]
  /\ stalls' = [stalls EXCEPT ![o] = @ + 1]
  /\ holder' = [holder EXCEPT ![o] = None]
  /\ UNCHANGED <<opVars, dataVars, made, calls, wpc, workVars, cancelVars, retainVars>>

BackoffOver(o) ==
  /\ job[o] = "delayed"
  /\ job' = [job EXCEPT ![o] = "waiting"]
  /\ UNCHANGED <<opVars, dataVars, made, stalls, holder, calls, wpc, workVars, cancelVars,
                 retainVars, left>>

Evict(o) ==
  /\ job[o] \in {"completed", "failed"}
  /\ Spend("evict")
  /\ job' = [job EXCEPT ![o] = "none"]
  /\ UNCHANGED <<opVars, dataVars, made, stalls, holder, calls, wpc, workVars, cancelVars,
                 retainVars>>

TakeJob(w, o) ==
  /\ wpc[w] = "idle" /\ job[o] = "waiting"
  /\ job' = [job EXCEPT ![o] = "active"]
  /\ holder' = [holder EXCEPT ![o] = w]
  /\ wpc' = [wpc EXCEPT ![w] = "read"]
  /\ wop' = [wop EXCEPT ![w] = o]
  /\ UNCHANGED <<opVars, dataVars, made, stalls, calls, running, file, fatal, cancelVars,
                 retainVars, left>>

\* What the worker forgets between two jobs.
Forget(w) ==
  /\ wpc' = [wpc EXCEPT ![w] = "idle"]
  /\ wop' = [wop EXCEPT ![w] = None]
  /\ running' = [running EXCEPT ![w] = NoRow]
  /\ file' = [file EXCEPT ![w] = None]
  /\ fatal' = [fatal EXCEPT ![w] = FALSE]

\* The processor settles: every error is retried, as far as the job's attempts go;
\* a worker that has lost the lock settles nothing.
JobSettles(w) ==
  LET o == wop[w] IN
  /\ wpc[w] \in {"return", "throw"}
  /\ IF holder[o] = w
     THEN /\ job' = [job EXCEPT ![o] = IF wpc[w] = "return" THEN "completed"
                                        ELSE IF made[o] + 1 < JobAttempts THEN "delayed"
                                        ELSE "failed"]
          /\ made' = [made EXCEPT ![o] = IF wpc[w] = "throw" THEN @ + 1 ELSE @]
          /\ holder' = [holder EXCEPT ![o] = None]
     ELSE UNCHANGED <<job, made, holder>>
  /\ Forget(w)
  /\ UNCHANGED <<opVars, dataVars, stalls, calls, cancelVars, retainVars, left>>

WorkerCrash(w) ==
  /\ wpc[w] # "idle"
  /\ Spend("fault")
  /\ holder' = [o \in Op |-> IF holder[o] = w THEN None ELSE holder[o]]
  /\ Forget(w)
  /\ UNCHANGED <<opVars, dataVars, job, made, stalls, calls, cancelVars, retainVars>>

-----------------------------------------------------------------------------
(* runGeneration                                                           *)

\* The worker of a job at step "from" goes to step "to".
Step(w, from, to) == wpc[w] = from /\ wpc' = [wpc EXCEPT ![w] = to]

\* getOperation: what has succeeded or is cancelled is left alone.
GetOperation(w) ==
  /\ Step(w, "read", IF status[wop[w]] \in {"succeeded", "cancelled"} THEN "return" ELSE "claim")
  /\ UNCHANGED <<opVars, dataVars, jobVars, calls, workVars, cancelVars, retainVars, left>>

\* Mutant: the claim trusts the state that was read before.
ClaimableAnyway(o) == status[o] # "succeeded"

Claimable(o) == status[o] \in {"pending", "failed", "running"} /\ o \notin asked

\* claim: one conditional update, which counts the attempt.
Claim(w) ==
  LET o == wop[w] IN
  /\ wpc[w] = "claim"
  /\ IF Claimable(o)
     THEN /\ Step(w, "claim", "render")
          /\ status' = [status EXCEPT ![o] = "running"]
          /\ attempts' = [attempts EXCEPT ![o] = @ + 1]
          /\ running' = [running EXCEPT ![w] = [Row(o) EXCEPT !.attempts = @ + 1]]
     ELSE Step(w, "claim", "return") /\ UNCHANGED <<status, attempts, running>>
  /\ UNCHANGED <<asked, docId, dataVars, jobVars, calls, wop, file, fatal, cancelVars, retainVars,
                 left>>

\* render returns bytes, or throws an error that may be retryable.
Render(w) ==
  /\ \/ Step(w, "render", "recheck") /\ UNCHANGED fatal
     \/ /\ Step(w, "render", "fail")
        /\ \E b \in BOOLEAN : fatal' = [fatal EXCEPT ![w] = b]
  /\ UNCHANGED <<opVars, dataVars, jobVars, calls, wop, running, file, cancelVars, retainVars, left>>

\* The second getOperation, for a cancellation meanwhile
Recheck(w) ==
  LET o == wop[w] IN
  /\ Step(w, "recheck", IF status[o] = "cancelled" \/ o \in asked THEN "return" ELSE "put")
  /\ UNCHANGED <<opVars, dataVars, jobVars, calls, workVars, cancelVars, retainVars, left>>

\* Mutant: the upload is not awaited, and may still fail.
PutLater(w) ==
  LET f == <<wop[w], puts[wop[w]] + 1>> IN
  /\ Step(w, "put", "commit")
  /\ file' = [file EXCEPT ![w] = f]
  /\ puts' = [puts EXCEPT ![wop[w]] = @ + 1]
  /\ objects' \in {objects, objects \cup {f}}
  /\ UNCHANGED <<opVars, letter, events, documents, purged, jobVars, calls, wop, running, fatal,
                 cancelVars, retainVars, left>>

\* storage.put and assertOpaqueReference: a new reference, or one given before (a store
\* that names an object by its content, when the same bytes are rendered again).
Put(w) ==
  LET o == wop[w] IN
  /\ \/ /\ Step(w, "put", "commit")
        /\ \E n \in 1..(puts[o] + 1) :
             /\ IF n <= puts[o] THEN Spend("repeat") /\ UNCHANGED puts
                ELSE puts' = [puts EXCEPT ![o] = n] /\ UNCHANGED left
             /\ objects' = objects \cup {<<o, n>>}
             /\ file' = [file EXCEPT ![w] = <<o, n>>]
        /\ UNCHANGED fatal
     \/ /\ Step(w, "put", "fail")
        /\ Spend("fault")
        /\ puts' = [puts EXCEPT ![o] = @ + 1]
        /\ objects' \in {objects, objects \cup {<<o, puts[o] + 1>>}}
        /\ \E b \in BOOLEAN : fatal' = [fatal EXCEPT ![w] = b]
        /\ UNCHANGED file
  /\ UNCHANGED <<opVars, letter, events, documents, purged, jobVars, calls, wop, running,
                 cancelVars, retainVars>>

\* saveDocument: insert ... on conflict (the tenant's file_reference) do nothing.  A row
\* that is inserted has its own retention_until.
SaveDocument(w) ==
  /\ documents' = documents \cup {file[w]}
  /\ due' = IF file[w] \in documents THEN due ELSE due \ {file[w]}

\* The id made before the insert, which names no row when the insert did nothing.
DocumentId(w) == IF file[w] \in documents THEN Unsaved ELSE file[w]

SaveSuccess(w) ==
  /\ SaveOperation([running[w] EXCEPT !.doc = DocumentId(w)], "succeeded", FALSE)
  /\ Announce("succeeded", wop[w])

\* Mutant: the statements are not in one transaction, and the operation is saved first.
CommitOperationFirst(w) ==
  /\ Step(w, "commit", "return")
  /\ SaveSuccess(w)
  /\ SaveDocument(w) \/ UNCHANGED <<documents, due>>
  /\ UNCHANGED <<letter, purged, objects, puts, jobVars, calls, workVars, cancelVars, tpc, expired,
                 row, left>>

\* Mutant: the statements are not in one transaction, and the document is saved first.
CommitDocumentFirst(w) ==
  /\ SaveDocument(w)
  /\ \/ Step(w, "commit", "return") /\ SaveSuccess(w) /\ UNCHANGED left
     \/ Step(w, "commit", "throw") /\ Spend("fault") /\ UNCHANGED <<opVars, events>>
  /\ UNCHANGED <<letter, purged, objects, puts, jobVars, calls, workVars, cancelVars, tpc, expired,
                 row>>

\* The transaction of saveDocument, saveOperation and appendOutbox
Commit(w) ==
  /\ Step(w, "commit", "return")
  /\ SaveSuccess(w)
  /\ SaveDocument(w)
  /\ UNCHANGED <<letter, purged, objects, puts, jobVars, calls, workVars, cancelVars, tpc, expired,
                 row, left>>

\* The transaction fails, or it commits and the answer is lost: the catch block runs
\* either way, with the document's id in "running" once saveOperation was reached.
CommitFails(w) ==
  /\ Step(w, "commit", "fail")
  /\ fatal' = [fatal EXCEPT ![w] = TRUE]
  /\ \/ Spend("fault") /\ UNCHANGED <<opVars, documents, due, events>>
     \/ Spend("doubt") /\ SaveSuccess(w) /\ SaveDocument(w)
  /\ \/ running' = [running EXCEPT ![w].doc = DocumentId(w)]
     \/ UNCHANGED <<running, opVars>>
  /\ UNCHANGED <<letter, purged, objects, puts, jobVars, calls, wop, file, cancelVars, tpc, expired,
                 row>>

Exhausted(w) == running[w].attempts >= MaxAttempts \/ fatal[w]

\* The catch block: saveOperation, appendOutbox and, for the last attempt, deadLetter,
\* each a statement of its own; then the error is thrown again.
SaveFailure(w) ==
  /\ Step(w, "fail", "announce")
  /\ SaveOperation(running[w], "failed", FALSE)
  /\ UNCHANGED <<dataVars, jobVars, calls, workVars, cancelVars, retainVars, left>>

AppendFailure(w) ==
  /\ Step(w, "announce", IF Exhausted(w) THEN "letter" ELSE "throw")
  /\ Announce("failed", wop[w])
  /\ UNCHANGED <<opVars, letter, documents, purged, objects, puts, jobVars, calls, workVars,
                 cancelVars, retainVars, left>>

\* insert ... on conflict: a second letter keeps the reconciliation_status of the first.
DeadLetter(w) ==
  /\ Step(w, "letter", "throw")
  /\ letter' = [letter EXCEPT ![wop[w]] = IF @ = "none" THEN "pending_review" ELSE @]
  /\ UNCHANGED <<opVars, events, documents, purged, objects, puts, jobVars, calls, workVars,
                 cancelVars, retainVars, left>>

\* Another statement fails: the second getOperation runs the catch block, the rest
\* rejects the job as it is.
StatementFails(w) ==
  /\ wpc[w] \in {"read", "claim", "recheck", "fail", "announce", "letter"}
  /\ Spend("fault")
  /\ IF wpc[w] = "recheck"
     THEN Step(w, "recheck", "fail") /\ fatal' = [fatal EXCEPT ![w] = TRUE]
     ELSE Step(w, wpc[w], "throw") /\ UNCHANGED fatal
  /\ UNCHANGED <<opVars, dataVars, jobVars, calls, wop, running, file, cancelVars, retainVars>>

-----------------------------------------------------------------------------
(* cancel: a read, an unconditional save and an event, three statements    *)

CancelStep(c, from, to) == cpc[c] = from /\ cpc' = [cpc EXCEPT ![c] = to]

CancelRead(c, o) ==
  /\ status[o] \notin {"absent", "succeeded", "failed"}
  /\ CancelStep(c, "idle", "save")
  /\ Spend("cancel")
  /\ read' = [read EXCEPT ![c] = Row(o)]
  /\ UNCHANGED <<opVars, dataVars, jobVars, calls, wpc, workVars, retainVars>>

CancelSave(c) ==
  /\ CancelStep(c, "save", "announce")
  /\ SaveOperation(read[c], "cancelled", TRUE)
  /\ UNCHANGED <<dataVars, jobVars, calls, wpc, workVars, read, retainVars, left>>

CancelAppend(c) ==
  /\ CancelStep(c, "announce", "idle")
  /\ Announce("cancelled", read[c].op)
  /\ read' = [read EXCEPT ![c] = NoRow]
  /\ UNCHANGED <<opVars, letter, documents, purged, objects, puts, jobVars, calls, wpc, workVars,
                 retainVars, left>>

\* The process dies, or a statement fails.
CancelFails(c) ==
  /\ cpc[c] # "idle"
  /\ Spend("fault")
  /\ CancelStep(c, cpc[c], "idle")
  /\ read' = [read EXCEPT ![c] = NoRow]
  /\ UNCHANGED <<opVars, dataVars, jobVars, calls, wpc, workVars, retainVars>>

-----------------------------------------------------------------------------
(* Recovery and dead letters                                               *)

\* Mutant: the word of operation_state.
AcceptedAgain == "accepted"

PendingAgain == "pending"

\* recoverStale: the heartbeat is written by the claim and by saves only, so that a
\* running operation is stale when its worker is gone, or renders for a minute.
RecoverStale(o) ==
  /\ status[o] = "running" /\ o \notin asked
  /\ status' = [status EXCEPT ![o] = PendingAgain]
  /\ calls' = calls \cup {<<"recovery", o>>}
  /\ UNCHANGED <<attempts, asked, docId, dataVars, jobVars, wpc, workVars, cancelVars, retainVars,
                 left>>

\* reconcileDeadLetter: the letter is locked; the operation's state is not looked at.
\* Without a letter nothing is written, and the client goes back to the pool inside its
\* transaction; what that does to the pool's next user is left out.
RetryDeadLetter(o) ==
  /\ letter[o] # "none"
  /\ Spend("retry")
  /\ letter' = [letter EXCEPT ![o] = "requeued"]
  /\ status' = [status EXCEPT ![o] = PendingAgain]
  /\ attempts' = [attempts EXCEPT ![o] = 0]
  /\ calls' = calls \cup {<<"operator", o>>}
  /\ UNCHANGED <<asked, docId, events, documents, purged, objects, puts, jobVars, wpc, workVars,
                 cancelVars, retainVars>>

DiscardDeadLetter(o) ==
  /\ letter[o] # "none"
  /\ Spend("retry")
  /\ letter' = [letter EXCEPT ![o] = "discarded"]
  /\ UNCHANGED <<opVars, events, documents, purged, objects, puts, jobVars, calls, wpc, workVars,
                 cancelVars, retainVars>>

-----------------------------------------------------------------------------
(* enforceRetention                                                        *)

\* retention_until passes.
Expire(f) ==
  /\ f[1] \notin Held
  /\ due' = due \cup {f}
  /\ UNCHANGED <<opVars, dataVars, jobVars, calls, wpc, workVars, cancelVars, tpc, expired, row,
                 left>>

\* listExpired, and then the loop over its rows
ListExpired ==
  /\ tpc = "idle" /\ documents \cap due # {}
  /\ tpc' = "next"
  /\ expired' = documents \cap due
  /\ UNCHANGED <<opVars, dataVars, jobVars, calls, wpc, workVars, cancelVars, due, row, left>>

\* storage.delete
DeleteObject ==
  /\ tpc = "next"
  /\ \E f \in expired :
       /\ objects' = objects \ {f}
       /\ row' = f
       /\ expired' = expired \ {f}
  /\ tpc' = "delete"
  /\ UNCHANGED <<opVars, letter, events, documents, purged, puts, jobVars, calls, wpc, workVars,
                 cancelVars, due, left>>

\* delete from documents where id = ... and legal_hold = false
DeleteDocument ==
  LET gone == {f \in {row} : f[1] \notin Held} IN
  /\ tpc = "delete"
  /\ tpc' = "announce"
  /\ documents' = documents \ gone
  /\ purged' = purged \cup gone
  /\ UNCHANGED <<opVars, letter, events, objects, puts, jobVars, calls, wpc, workVars, cancelVars,
                 due, expired, row, left>>

AnnounceDeleted ==
  /\ tpc = "announce"
  /\ tpc' = IF expired = {} THEN "idle" ELSE "next"
  /\ Announce("retention.deleted", row[1])
  /\ row' = None
  /\ UNCHANGED <<opVars, letter, documents, purged, objects, puts, jobVars, calls, wpc, workVars,
                 cancelVars, due, expired, left>>

RetentionFails ==
  /\ tpc # "idle"
  /\ Spend("fault")
  /\ tpc' = "idle" /\ expired' = {} /\ row' = None
  /\ UNCHANGED <<opVars, dataVars, jobVars, calls, wpc, workVars, cancelVars, due>>

-----------------------------------------------------------------------------
Run(w) ==
  \/ GetOperation(w) \/ Claim(w) \/ Render(w) \/ Recheck(w) \/ Put(w)
  \/ Commit(w) \/ CommitFails(w)
  \/ SaveFailure(w) \/ AppendFailure(w) \/ DeadLetter(w) \/ StatementFails(w)

Cancel(c) == CancelSave(c) \/ CancelAppend(c) \/ CancelFails(c) \/ \E o \in Op : CancelRead(c, o)

Recover(o) == RecoverStale(o) \/ RetryDeadLetter(o) \/ DiscardDeadLetter(o)

Retain == ListExpired \/ DeleteObject \/ DeleteDocument \/ AnnounceDeleted \/ RetentionFails

Next ==
  \/ \E o \in Op : Request(o) \/ StalledCheck(o) \/ BackoffOver(o) \/ Evict(o) \/ Recover(o)
  \/ \E call \in calls : Enqueue(call) \/ EnqueueLost(call)
  \/ \E w \in Worker : Run(w) \/ JobSettles(w) \/ WorkerCrash(w) \/ \E o \in Op : TakeJob(w, o)
  \/ \E c \in Caller : Cancel(c)
  \/ \E f \in documents \ due : Expire(f)
  \/ Retain

Spec == Init /\ [][Next]_vars

-----------------------------------------------------------------------------
File(o) == {o} \X (1..puts[o])

AllFiles == UNION {File(o) : o \in Op}

\* Type invariant: states are those of the table, files have been put, and a worker
\* past its claim holds the row it has claimed.
TypeOK ==
  /\ status \in [Op -> {"absent", "pending", "running", "succeeded", "failed", "cancelled"}]
  /\ attempts \in [Op -> Nat] /\ asked \subseteq Op
  /\ \A o \in Op : docId[o] \in File(o) \cup {None, Unsaved}
  /\ letter \in [Op -> {"none", "pending_review", "requeued", "discarded"}]
  /\ events \subseteq {"requested", "succeeded", "failed", "cancelled", "retention.deleted"} \X Op
  /\ documents \subseteq AllFiles /\ purged \subseteq AllFiles
  /\ objects \subseteq AllFiles /\ due \subseteq AllFiles /\ expired \subseteq AllFiles
  /\ puts \in [Op -> Nat]
  /\ job \in [Op -> {"none", "waiting", "active", "delayed", "completed", "failed"}]
  /\ made \in [Op -> 0..JobAttempts] /\ stalls \in [Op -> 0..(MaxStalled + 1)]
  /\ holder \in [Op -> Worker \cup {None}]
  /\ calls \subseteq {"request", "recovery", "operator"} \X Op
  /\ \A w \in Worker :
       CASE wpc[w] = "idle" -> wop[w] = None
         [] wpc[w] \in {"read", "claim", "return", "throw"} -> wop[w] \in Op
         [] wpc[w] \in {"render", "recheck", "put", "fail", "announce", "letter"} ->
              wop[w] \in Op /\ running[w].op = wop[w]
         [] wpc[w] = "commit" -> running[w].op = wop[w] /\ file[w] \in File(wop[w])
  /\ fatal \in [Worker -> BOOLEAN]
  /\ \A c \in Caller : cpc[c] = "idle" \/ (cpc[c] \in {"save", "announce"} /\ read[c].op \in Op)
  /\ tpc \in {"idle", "next", "delete", "announce"}
  /\ row \in AllFiles \cup {None}

\* An operation that reports success names a document that was committed with it,
\* whatever a slow worker, a cancellation or a recovery wrote in between; unless the
\* storage has given a reference twice: then it may name an id that was not inserted,
\* and the row of its reference is an earlier one of the same operation.
SucceededHasDocument ==
  \A o \in Op : status[o] = "succeeded" =>
    /\ <<"succeeded", o>> \in events
    /\ \/ docId[o] \in documents \cup purged
       \/ /\ docId[o] = Unsaved /\ left.repeat < MaxRepeat
          /\ \E f \in documents \cup purged : f[1] = o

\* "the persisted claim makes execution idempotent after a process crash"
\* (documentQueue.js, line 21): crashes, failing statements, retries, recovery and
\* cancellations never produce a second document of an operation, as long as no worker
\* outlives its lock, no commit is in doubt and no operator retries a dead letter.
OneDocument ==
  left.slow = MaxSlow /\ left.doubt = MaxDoubt /\ left.retry = MaxRetry =>
    \A o \in Op : Cardinality({f \in documents \cup purged : f[1] = o}) <= 1

\* A document row lacks its object only when retention has begun to delete it:
\* the object comes before the row, and goes before it; as long as the storage gives
\* no reference twice, of which retention may delete the object before the second commit.
DocumentHasObject == left.repeat = MaxRepeat => documents \subseteq objects \cup due

PastClaim == {"render", "recheck", "put", "commit", "fail"}

\* A cancelled operation leaves that state only by the save of a worker that had
\* claimed it before, or by an operator's retry: nobody starts on it any more.
CancelHolds ==
  [][\A o \in Op : status[o] = "cancelled" /\ status'[o] # "cancelled" =>
       \/ \E w \in Worker : wop[w] = o /\ wpc[w] \in PastClaim /\ wpc'[w] # wpc[w]
       \/ letter'[o] = "requeued"]_vars

\* A document under legal hold keeps its row and its object, whatever retention does.
HoldKept ==
  \A f \in documents \cup purged : f[1] \in Held => f \in documents \cap objects

\* A success names a document's row: it does not, once the storage has given a reference
\* twice (saveDocument, "on conflict ... do nothing").
SuccessNamesRow ==
  \A o \in Op : status[o] = "succeeded" => docId[o] \in documents \cup purged

\* "terminal operation cannot be cancelled" (documentService.js, line 63).
TerminalNotCancelled ==
  [][\A o \in Op : status[o] = "succeeded" => status'[o] # "cancelled"]_vars
=============================================================================
