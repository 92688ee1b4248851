-------------------------- MODULE OperationalQueueProofs --------------------------
(***************************************************************************)
(* Proofs about OperationalQueue.  Jobs says what holds between a queue,   *)
(* its worker and the operations' rows.  Earned carries the effect of an   *)
(* execution to the status, past the record of its key.  Paid charges      *)
(* every execution to an attempt of a job or to one of its stalls.  Late is *)
(* who has missed a record and may still execute under its key.            *)
(***************************************************************************)
EXTENDS OperationalQueue, FiniteSetTheorems, TLAPS

JobState == {"none", "waiting", "active", "delayed", "completed", "failed"}
Pending == {"waiting", "active", "delayed"}

\* TypeOK in parts that are disturbed by different actions.
RowTypes ==
  /\ status \in [Op -> {"absent", "pending", "queued", "processing", "completed",
                        "retry_scheduled", "failed"}]
  /\ records \subseteq {Key(o) : o \in Op}
  /\ starts \in [Op -> Nat]
  /\ effects \subseteq Op

JobTypes ==
  /\ job \in [Queue -> [Op -> JobState]]
  /\ made \in [Queue -> [Op -> 0..JobAttempts]]
  /\ stalled \in [Queue -> [Op -> 0..(MaxStalled + 1)]]

WorkTypes ==
  /\ wpc \in [Queue -> {"idle", "lookup", "begin", "execute", "save", "complete", "retryable",
                        "terminal", "return", "throw", "unrecoverable"}]
  /\ wop \in [Queue -> Op \cup {NoOp}]
  /\ \A q \in Queue : wpc[q] # "idle" => wop[q] \in Op

CallTypes ==
  /\ ppc \in [Poster -> {"idle", "add", "mark"}]
  /\ pop \in [Poster -> Op \cup {NoOp}]
  /\ \A p \in Poster : ppc[p] # "idle" => pop[p] \in Op
  /\ rpc \in {"idle", "scan", "add"} /\ rows \subseteq Op /\ rop \in Op \cup {NoOp}
  /\ rpc = "add" => rop \in Op

BoundTypes == posts \in Nat /\ crashes \in Nat /\ evictions \in Nat /\ evictions <= MaxEvict

Types == RowTypes /\ JobTypes /\ WorkTypes /\ CallTypes /\ BoundTypes

\* A job, a request and a selected row belong to a row that exists.
Rows ==
  /\ \A q \in Queue, o \in Op : job[q][o] # "none" => status[o] # "absent"
  /\ \A p \in Poster : ppc[p] # "idle" => status[pop[p]] # "absent"
  /\ \A o \in rows : status[o] # "absent"
  /\ rpc = "add" => status[rop] # "absent"

\* A worker's job is active; a job that may still run has an attempt left, and has
\* not been given back too often.
Jobs ==
  /\ \A q \in Queue : wpc[q] # "idle" => job[q][wop[q]] = "active"
  /\ \A q \in Queue : wpc[q] = "idle" => wop[q] = NoOp
  /\ \A q \in Queue, o \in Op :
       job[q][o] \in Pending => made[q][o] < JobAttempts /\ stalled[q][o] <= MaxStalled

TInv == Types /\ Rows /\ Jobs

LEMMA TypesImply == TInv => TypeOK
BY DEF TInv, Types, Rows, Jobs, RowTypes, JobTypes, WorkTypes, CallTypes, BoundTypes, TypeOK, JobState

LEMMA TypesInit == Init => TInv
BY QueueAssumption
   DEF QueueAssumption, Init, TInv, Types, Rows, Jobs, RowTypes, JobTypes, WorkTypes, CallTypes,
       BoundTypes, JobState, Pending, MaxStalled

-----------------------------------------------------------------------------
\* What a step may do to the job of o in q.
JobMove(q, o) ==
  \/ /\ job'[q][o] = job[q][o] /\ made'[q][o] = made[q][o] /\ stalled'[q][o] = stalled[q][o]
  \/ /\ job[q][o] = "none" /\ job'[q][o] = "waiting" /\ made'[q][o] = 0 /\ stalled'[q][o] = 0
     /\ UNCHANGED workerVars
  \/ /\ job[q][o] = "active" /\ wop[q] # o /\ UNCHANGED workerVars
     /\ made'[q][o] = made[q][o] /\ stalled'[q][o] = stalled[q][o] + 1
     /\ job'[q][o] = IF stalled[q][o] < MaxStalled THEN "waiting" ELSE "failed"
  \/ /\ job[q][o] = "delayed" /\ job'[q][o] = "waiting" /\ UNCHANGED workerVars
     /\ made'[q][o] = made[q][o] /\ stalled'[q][o] = stalled[q][o]
  \/ /\ job[q][o] \in {"completed", "failed"} /\ job'[q][o] = "none" /\ UNCHANGED workerVars
     /\ made'[q][o] = made[q][o] /\ stalled'[q][o] = stalled[q][o]
     /\ evictions' < MaxEvict
  \/ /\ job[q][o] = "waiting" /\ job'[q][o] = "active" /\ wpc[q] = "idle" /\ wpc'[q] = "lookup"
     /\ wop'[q] = o /\ made'[q][o] = made[q][o] /\ stalled'[q][o] = stalled[q][o]
  \/ /\ wpc[q] # "idle" /\ wop[q] = o /\ wpc'[q] = "idle" /\ wop'[q] = NoOp
     /\ made'[q][o] = made[q][o] + 1 /\ stalled'[q][o] = stalled[q][o]
     /\ job'[q][o] \in {"completed", "failed", "delayed"}
     /\ job'[q][o] = "delayed" => made[q][o] + 1 < JobAttempts

\* Which operations a step may give a job they did not have: existing ones.
LEMMA AddJobMoves ==
  ASSUME Types, NEW q \in Queue, NEW o \in Op, AddJob(q, o), UNCHANGED workerVars
  PROVE  /\ JobTypes'
         /\ \A r \in Queue, p \in Op : JobMove(r, p)
         /\ \A r \in Queue, p \in Op : job[r][p] = "none" /\ job'[r][p] # "none" => p = o
<1>1. CASE job[q][o] = "none"
  <2>1. /\ job' = [job EXCEPT ![q][o] = "waiting"] /\ made' = [made EXCEPT ![q][o] = 0]
        /\ stalled' = [stalled EXCEPT ![q][o] = 0]
    BY <1>1 DEF AddJob, Addable
  <2> QED
    BY <1>1, <2>1, QueueAssumption DEF QueueAssumption, Types, JobTypes, JobState, JobMove, MaxStalled
<1>2. CASE job[q][o] # "none"
  BY <1>2 DEF AddJob, Addable, Types, JobTypes, JobMove, jobVars
<1> QED
  BY <1>1, <1>2

LEMMA HomeIsQueue == ASSUME NEW o PROVE HomeQueue(o) \in Queue
BY DEF HomeQueue, Queue

LEMMA JobStep ==
  ASSUME TInv, [Next]_vars
  PROVE  JobTypes' /\ \A r \in Queue, p \in Op : JobMove(r, p)
<1> DEFINE Goal == JobTypes' /\ \A r \in Queue, p \in Op : JobMove(r, p)
<1> USE DEF TInv, Types
<1>1. ASSUME NEW p \in Poster, PosterAdd(p) PROVE Goal
  <2>1. pop[p] \in Op /\ wpc' = wpc /\ wop' = wop /\ UNCHANGED workerVars
    BY <1>1 DEF PosterAdd, CallTypes, workerVars
  <2>2. CASE UNCHANGED jobVars
    BY <2>2 DEF jobVars, JobTypes, JobMove
  <2>3. ASSUME NEW q \in Queue, AddJob(q, pop[p]) PROVE Goal
    BY <2>1, <2>3, AddJobMoves
  <2> QED
    BY <1>1, <2>2, <2>3 DEF PosterAdd
<1>2. CASE ReconcileAdd
  <2>1. CASE UNCHANGED jobVars
    BY <2>1 DEF jobVars, JobTypes, JobMove
  <2>2. CASE AddJob(HomeQueue(rop), rop)
    BY <1>2, <2>2, AddJobMoves, HomeIsQueue DEF ReconcileAdd, CallTypes
  <2> QED
    BY <1>2, <2>1, <2>2 DEF ReconcileAdd
<1>3. ASSUME NEW q \in Queue, NEW o \in Op, StalledCheck(q, o) PROVE Goal
  <2>1. stalled[q][o] \in {0, 1} /\ stalled[q][o] + 1 \in 0..2
    BY <1>3 DEF StalledCheck, JobTypes, Jobs, Pending, MaxStalled
  <2> QED
    BY <1>3, <2>1 DEF StalledCheck, JobTypes, JobState, JobMove, MaxStalled
<1>4. ASSUME NEW q \in Queue, NEW o \in Op, BackoffOver(q, o) PROVE Goal
  BY <1>4 DEF BackoffOver, JobTypes, JobState, JobMove
<1>5. ASSUME NEW q \in Queue, NEW o \in Op, Evict(q, o) PROVE Goal
  <2>1. evictions' < MaxEvict
    BY <1>5, QueueAssumption DEF Evict, BoundTypes, QueueAssumption
  <2> QED
    BY <1>5, <2>1 DEF Evict, JobTypes, JobState, JobMove
<1>6. ASSUME NEW q \in Queue, NEW o \in Op, TakeJob(q, o) PROVE Goal
  <2>1. /\ job' = [job EXCEPT ![q][o] = "active"] /\ UNCHANGED <<made, stalled>>
        /\ wpc' = [wpc EXCEPT ![q] = "lookup"] /\ wop' = [wop EXCEPT ![q] = o]
        /\ wpc[q] = "idle" /\ job[q][o] = "waiting"
    BY <1>6 DEF TakeJob, WorkerAt
  <2>2. JobTypes'
    BY <2>1 DEF JobTypes, JobState
  <2>3. ASSUME NEW r \in Queue, NEW p \in Op PROVE JobMove(r, p)
    BY <2>1 DEF JobTypes, WorkTypes, JobMove
  <2> QED
    BY <2>2, <2>3
<1>7. ASSUME NEW q \in Queue, JobSettles(q) PROVE Goal
  <2> DEFINE o == wop[q]
  <2>1. o \in Op /\ wpc[q] # "idle" /\ made[q][o] < JobAttempts
    BY <1>7 DEF JobSettles, WorkTypes, Jobs, Pending
  <2>2. PICK s \in {"completed", "failed", "delayed"} :
          /\ job' = [job EXCEPT ![q][o] = s]
          /\ s = "delayed" => ~FinalAttempt(q)
    BY <1>7 DEF JobSettles
  <2>3. /\ made' = [made EXCEPT ![q][o] = @ + 1] /\ UNCHANGED stalled
        /\ wpc' = [wpc EXCEPT ![q] = "idle"] /\ wop' = [wop EXCEPT ![q] = NoOp]
    BY <1>7 DEF JobSettles, WorkerAt
  <2>4. made[q][o] \in Nat /\ made[q][o] + 1 \in 0..JobAttempts
    BY <2>1, QueueAssumption DEF QueueAssumption, JobTypes
  <2>5. ~FinalAttempt(q) => made[q][o] + 1 < JobAttempts
    BY <2>4, QueueAssumption DEF QueueAssumption, FinalAttempt
  <2>6. JobTypes'
    BY <2>1, <2>2, <2>3, <2>4 DEF JobTypes, JobState
  <2>7. ASSUME NEW r \in Queue, NEW p \in Op PROVE JobMove(r, p)
    BY <2>1, <2>2, <2>3, <2>5 DEF JobTypes, WorkTypes, JobMove
  <2> QED
    BY <2>6, <2>7
<1>8. CASE UNCHANGED jobVars
  BY <1>8 DEF jobVars, JobTypes, JobMove
<1> QED
  BY <1>1, <1>2, <1>3, <1>4, <1>5, <1>6, <1>7, <1>8
     DEF Next, Work, Bull, Reconcile, vars, PosterMark, PosterCrash, Post, Lookup, Begin, Execute, Save,
         Complete, Fail, DatabaseError, WorkerCrash, ReconcileSelect, ReconcileNext, ReconcileFails,
         ForeignMoves

\* A row stays once it is there, and keeps a status of the table.
LEMMA StatusStep ==
  ASSUME TInv, [Next]_vars
  PROVE  /\ status' \in [Op -> {"absent", "pending", "queued", "processing", "completed",
                                "retry_scheduled", "failed"}]
         /\ \A o \in Op : status[o] # "absent" => status'[o] # "absent"
<1> USE DEF TInv, Types, RowTypes, SetStatus
<1>1. ASSUME NEW o \in Op, NEW s \in {"pending", "queued", "processing", "completed",
                                      "retry_scheduled", "failed"}, SetStatus(o, s)
      PROVE  /\ status' \in [Op -> {"absent", "pending", "queued", "processing", "completed",
                                    "retry_scheduled", "failed"}]
             /\ \A p \in Op : status[p] # "absent" => status'[p] # "absent"
  BY <1>1
<1>2. ASSUME NEW p \in Poster, NEW o \in Op, Post(p, o)
      PROVE  UNCHANGED status \/ SetStatus(o, "pending")
  BY <1>2 DEF Post
<1>3. ASSUME NEW p \in Poster, PosterMark(p) PROVE pop[p] \in Op /\ SetStatus(pop[p], "queued")
  BY <1>3 DEF PosterMark, CallTypes
<1>4. ASSUME NEW q \in Queue, Begin(q) PROVE wop[q] \in Op /\ SetStatus(wop[q], "processing")
  BY <1>4 DEF Begin, WorkTypes
<1>5. ASSUME NEW q \in Queue, Complete(q) PROVE wop[q] \in Op /\ SetStatus(wop[q], "completed")
  BY <1>5 DEF Complete, WorkTypes
<1>6. ASSUME NEW q \in Queue, Fail(q)
      PROVE  wop[q] \in Op /\ (SetStatus(wop[q], "retry_scheduled") \/ SetStatus(wop[q], "failed"))
  BY <1>6 DEF Fail, RetryStatus, WorkTypes
<1>7. CASE UNCHANGED status
  BY <1>7
<1>8. ASSUME NEW o \in Op, ForeignMoves(o)
      PROVE  \E s \in {"pending", "queued", "processing", "completed", "retry_scheduled", "failed"} :
               SetStatus(o, s)
  BY <1>8 DEF ForeignMoves
<1>9. CASE \E o \in Op, s \in {"pending", "queued", "processing", "completed", "retry_scheduled",
                               "failed"} : SetStatus(o, s)
  BY <1>1, <1>9
<1> QED
  BY <1>2, <1>3, <1>4, <1>5, <1>6, <1>7, <1>8, <1>9
     DEF Next, Work, Bull, Evict, Reconcile, vars, PosterAdd, PosterCrash, TakeJob, Lookup, Execute, Save,
         JobSettles, DatabaseError, WorkerCrash, StalledCheck, BackoffOver, ReconcileSelect,
         ReconcileNext, ReconcileAdd, ReconcileFails

LEMMA RecordStep ==
  ASSUME TInv, [Next]_vars
  PROVE  /\ records' \subseteq {Key(o) : o \in Op} /\ records \subseteq records'
         /\ starts' \in [Op -> Nat] /\ effects' \subseteq Op /\ effects \subseteq effects'
<1> USE DEF TInv, Types, RowTypes
<1>1. ASSUME NEW q \in Queue, Save(q)
      PROVE  records' \subseteq {Key(o) : o \in Op} /\ records \subseteq records' /\ UNCHANGED runVars
  BY <1>1 DEF Save, WorkTypes
<1>2. ASSUME NEW q \in Queue, Execute(q)
      PROVE  /\ starts' \in [Op -> Nat] /\ effects' \subseteq Op /\ effects \subseteq effects'
             /\ UNCHANGED records
  BY <1>2 DEF Execute, WorkTypes
<1>3. CASE UNCHANGED <<records, runVars>>
  BY <1>3 DEF runVars
<1> QED
  BY <1>1, <1>2, <1>3
     DEF Next, Work, Bull, Evict, Reconcile, vars, PosterAdd, PosterMark, PosterCrash, Post, TakeJob,
         Lookup, Begin, Complete, Fail, JobSettles, DatabaseError, WorkerCrash, StalledCheck,
         BackoffOver, ReconcileSelect, ReconcileNext, ReconcileAdd, ReconcileFails,
         ForeignMoves, runVars

\* What a step may do to the worker of q.
WorkMove(q) ==
  \/ /\ wpc[q] = "idle" /\ wpc'[q] = "lookup" /\ wop'[q] \in Op
     /\ job[q][wop'[q]] = "waiting" /\ job'[q][wop'[q]] = "active"
  \/ wpc'[q] = "idle" /\ wop'[q] = NoOp
  \/ wpc[q] = "idle" /\ wpc'[q] = "idle" /\ wop'[q] = wop[q]
  \/ wpc[q] # "idle" /\ wpc'[q] # "idle" /\ wop'[q] = wop[q]

LEMMA WorkStep ==
  ASSUME TInv, [Next]_vars
  PROVE  WorkTypes' /\ \A r \in Queue : WorkMove(r)
<1> DEFINE Goal == WorkTypes' /\ \A r \in Queue : WorkMove(r)
<1> USE DEF TInv, Types, WorkTypes, WorkMove, WorkerAt
<1>1. ASSUME NEW q \in Queue, NEW o \in Op, TakeJob(q, o) PROVE Goal
  <2>1. job[q][o] = "waiting" /\ job'[q][o] = "active"
    BY <1>1 DEF TakeJob, JobTypes
  <2> QED
    BY <1>1, <2>1 DEF TakeJob
<1>2. ASSUME NEW q \in Queue, wpc[q] # "idle", UNCHANGED wop,
             NEW s \in {"begin", "execute", "save", "complete", "retryable",
                        "terminal", "return", "throw", "unrecoverable"}, WorkerAt(q, s)
      PROVE  Goal
  BY <1>2
<1>3. ASSUME NEW q \in Queue, WorkerAt(q, "idle"), wop' = [wop EXCEPT ![q] = NoOp] PROVE Goal
  BY <1>3
<1>4. ASSUME NEW q \in Queue, Lookup(q) PROVE Goal
  BY <1>2, <1>4 DEF Lookup
<1>5. ASSUME NEW q \in Queue, Begin(q) \/ Save(q) \/ Complete(q) PROVE Goal
  BY <1>2, <1>5 DEF Begin, Save, Complete, FirstCall
<1>6. ASSUME NEW q \in Queue, Execute(q) \/ Fail(q) PROVE Goal
  BY <1>2, <1>6 DEF Execute, Fail
<1>7. ASSUME NEW q \in Queue, DatabaseError(q) PROVE Goal
  BY <1>2, <1>7 DEF DatabaseError
<1>8. ASSUME NEW q \in Queue, JobSettles(q) \/ WorkerCrash(q) PROVE Goal
  BY <1>3, <1>8 DEF JobSettles, WorkerCrash
<1>9. CASE UNCHANGED workerVars
  BY <1>9 DEF workerVars
<1> QED
  BY <1>1, <1>4, <1>5, <1>6, <1>7, <1>8, <1>9
     DEF Next, Work, Bull, Evict, Reconcile, vars, PosterAdd, PosterMark, PosterCrash, Post,
         StalledCheck, BackoffOver, ReconcileSelect, ReconcileNext, ReconcileAdd, ReconcileFails,
         ForeignMoves

LEMMA CallStep == TInv /\ [Next]_vars => CallTypes' /\ BoundTypes'
<1> SUFFICES ASSUME TInv, [Next]_vars PROVE CallTypes' /\ BoundTypes'
  OBVIOUS
<1> USE QueueAssumption DEF QueueAssumption, TInv, Types, CallTypes, BoundTypes, PosterAt, bounds,
        posterVars, reconVars
<1>1. ASSUME NEW p \in Poster, PosterAdd(p) \/ PosterMark(p) \/ PosterCrash(p)
      PROVE  CallTypes' /\ BoundTypes'
  BY <1>1 DEF PosterAdd, PosterMark, PosterCrash
<1>2. ASSUME NEW p \in Poster, NEW o \in Op, Post(p, o) PROVE CallTypes' /\ BoundTypes'
  BY <1>2 DEF Post
<1>3. CASE ReconcileSelect
  BY <1>3 DEF ReconcileSelect, Selectable
<1>4. CASE ReconcileNext \/ ReconcileAdd \/ ReconcileFails
  BY <1>4 DEF ReconcileNext, ReconcileAdd, ReconcileFails
<1>5. ASSUME NEW q \in Queue, DatabaseError(q) \/ WorkerCrash(q) PROVE CallTypes' /\ BoundTypes'
  BY <1>5 DEF DatabaseError, WorkerCrash
<1>6. ASSUME NEW q \in Queue, NEW o \in Op, Evict(q, o) PROVE CallTypes' /\ BoundTypes'
  BY <1>6 DEF Evict
<1>7. CASE UNCHANGED <<posterVars, reconVars, bounds>>
  BY <1>7
<1> QED
  BY <1>1, <1>2, <1>3, <1>4, <1>5, <1>6, <1>7
     DEF Next, Work, Bull, Reconcile, vars, TakeJob, Lookup, Begin, Execute, Save, Complete, Fail,
         JobSettles, StalledCheck, BackoffOver, ForeignMoves

LEMMA JobsNext == TInv /\ [Next]_vars => Jobs'
<1> SUFFICES ASSUME TInv, [Next]_vars PROVE Jobs'
  OBVIOUS
<1>1. /\ \A r \in Queue, p \in Op : JobMove(r, p)
      /\ \A r \in Queue : WorkMove(r) /\ WorkTypes'
  BY JobStep, WorkStep
<1>2. ASSUME NEW q \in Queue, wpc'[q] # "idle" PROVE job'[q][wop'[q]] = "active"
  <2>1. WorkMove(q) /\ (wpc[q] # "idle" => wop[q] \in Op /\ job[q][wop[q]] = "active")
    BY <1>1 DEF TInv, Types, WorkTypes, Jobs
  <2>2. CASE wpc[q] # "idle" /\ wop'[q] = wop[q]
    <3>1. JobMove(q, wop[q])
      BY <1>1, <2>1, <2>2
    <3> QED
      BY <1>2, <2>1, <2>2, <3>1 DEF JobMove, workerVars
  <2> QED
    BY <1>2, <2>1, <2>2 DEF WorkMove
<1>3. ASSUME NEW q \in Queue, wpc'[q] = "idle" PROVE wop'[q] = NoOp
  BY <1>1, <1>3 DEF WorkMove, TInv, Jobs
<1>4. ASSUME NEW q \in Queue, NEW o \in Op, job'[q][o] \in Pending
      PROVE  made'[q][o] < JobAttempts /\ stalled'[q][o] <= MaxStalled
  <2>1. JobMove(q, o) /\ made[q][o] \in Nat /\ stalled[q][o] \in Nat
    BY <1>1, QueueAssumption DEF QueueAssumption, TInv, Types, JobTypes, MaxStalled
  <2>2. job[q][o] \in Pending => made[q][o] < JobAttempts /\ stalled[q][o] <= MaxStalled
    BY DEF TInv, Jobs
  <2>3. wpc[q] # "idle" /\ wop[q] = o => job[q][o] = "active"
    BY DEF TInv, Jobs
  <2> QED
    BY <1>4, <2>1, <2>2, <2>3, QueueAssumption DEF QueueAssumption, JobMove, Pending, MaxStalled
<1> QED
  BY <1>2, <1>3, <1>4 DEF Jobs

LEMMA RowsNext == TInv /\ [Next]_vars => Rows'
<1> SUFFICES ASSUME TInv, [Next]_vars PROVE Rows'
  OBVIOUS
<1>1. \A o \in Op : status[o] # "absent" => status'[o] # "absent"
  BY StatusStep
<1>2. ASSUME NEW q \in Queue, NEW o \in Op, job[q][o] = "none", job'[q][o] # "none"
      PROVE  status[o] # "absent"
  <2>1. ASSUME NEW p \in Poster, PosterAdd(p) PROVE status[o] # "absent"
    <3>1. pop[p] \in Op /\ status[pop[p]] # "absent" /\ UNCHANGED workerVars
      BY <2>1 DEF PosterAdd, TInv, Types, CallTypes, Rows
    <3>2. PICK r \in Queue : AddJob(r, pop[p])
      BY <1>2, <2>1 DEF PosterAdd, jobVars
    <3> QED
      BY <1>2, <3>1, <3>2, AddJobMoves DEF TInv
  <2>2. CASE ReconcileAdd
    <3>1. rop \in Op /\ status[rop] # "absent" /\ HomeQueue(rop) \in Queue
      BY <2>2, HomeIsQueue DEF ReconcileAdd, TInv, Types, CallTypes, Rows
    <3>2. AddJob(HomeQueue(rop), rop) /\ UNCHANGED workerVars
      BY <1>2, <2>2 DEF ReconcileAdd, jobVars
    <3> QED
      BY <1>2, <3>1, <3>2, AddJobMoves DEF TInv
  <2>3. ASSUME NEW r \in Queue, NEW p \in Op, job[r][p] # "none",
               NEW t, job' = [job EXCEPT ![r][p] = t]
        PROVE  status[o] # "absent"
    BY <1>2, <2>3 DEF TInv, Types, JobTypes
  <2>4. ASSUME NEW r \in Queue, NEW p \in Op, StalledCheck(r, p) \/ BackoffOver(r, p) \/ TakeJob(r, p)
                                               \/ Evict(r, p)
        PROVE  status[o] # "absent"
    BY <2>3, <2>4 DEF StalledCheck, BackoffOver, TakeJob, Evict
  <2>5. ASSUME NEW r \in Queue, JobSettles(r) PROVE status[o] # "absent"
    <3>1. wop[r] \in Op /\ job[r][wop[r]] = "active"
      BY <2>5 DEF JobSettles, TInv, Types, WorkTypes, Jobs
    <3> QED
      BY <2>3, <2>5, <3>1 DEF JobSettles
  <2>6. CASE UNCHANGED job
    BY <1>2, <2>6
  <2> QED
    BY <2>1, <2>2, <2>4, <2>5, <2>6
       DEF Next, Work, Bull, Reconcile, vars, jobVars, PosterMark, PosterCrash, Post, Lookup, Begin,
           Execute, Save, Complete, Fail, DatabaseError, WorkerCrash, ReconcileSelect, ReconcileNext,
           ReconcileFails, ForeignMoves
<1>3. ASSUME NEW q \in Queue, NEW o \in Op, job'[q][o] # "none" PROVE status'[o] # "absent"
  BY <1>1, <1>2, <1>3 DEF TInv, Rows
<1>4. ASSUME NEW p \in Poster, ppc'[p] # "idle" PROVE status'[pop'[p]] # "absent"
  <2>1. CASE ppc[p] # "idle" /\ pop'[p] = pop[p]
    BY <1>1, <2>1 DEF TInv, Types, CallTypes, Rows
  <2>2. ASSUME NEW o \in Op, Post(p, o) PROVE status'[pop'[p]] # "absent"
    BY <2>2 DEF Post, SetStatus, TInv, Types, CallTypes, RowTypes
  <2>3. ASSUME NEW r \in Poster, r # p, PosterAdd(r) \/ PosterMark(r) \/ PosterCrash(r)
                                        \/ \E o \in Op : Post(r, o)
        PROVE  ppc'[p] = ppc[p] /\ pop'[p] = pop[p]
    BY <2>3 DEF PosterAdd, PosterMark, PosterCrash, Post, PosterAt, TInv, Types, CallTypes
  <2>4. CASE PosterAdd(p) \/ PosterMark(p) \/ PosterCrash(p)
    BY <1>4, <2>1, <2>4 DEF PosterAdd, PosterMark, PosterCrash, PosterAt, TInv, Types, CallTypes
  <2>5. CASE UNCHANGED posterVars
    BY <1>4, <2>1, <2>5 DEF posterVars
  <2> QED
    BY <1>4, <2>1, <2>2, <2>3, <2>4, <2>5
       DEF Next, Work, Bull, Evict, Reconcile, vars, TakeJob, Lookup, Begin, Execute, Save, Complete,
           Fail, JobSettles, DatabaseError, WorkerCrash, StalledCheck, BackoffOver, ReconcileSelect,
           ReconcileNext, ReconcileAdd, ReconcileFails, ForeignMoves
<1>5. (\A o \in rows' : status'[o] # "absent") /\ (rpc' = "add" => status'[rop'] # "absent")
  <2>1. CASE ReconcileSelect
    BY <1>1, <2>1 DEF ReconcileSelect, Selectable, TInv, Types, CallTypes, Rows
  <2>2. CASE ReconcileNext \/ ReconcileAdd \/ ReconcileFails
    BY <1>1, <2>2 DEF ReconcileNext, ReconcileAdd, ReconcileFails, TInv, Types, CallTypes, Rows
  <2>3. CASE UNCHANGED reconVars
    BY <1>1, <2>3 DEF reconVars, TInv, Types, CallTypes, Rows
  <2> QED
    BY <2>1, <2>2, <2>3
       DEF Next, Work, Bull, Evict, Reconcile, vars, PosterAdd, PosterMark, PosterCrash, Post, TakeJob,
           Lookup, Begin, Execute, Save, Complete, Fail, JobSettles, DatabaseError, WorkerCrash,
           StalledCheck, BackoffOver, ForeignMoves
<1> QED
  BY <1>3, <1>4, <1>5 DEF Rows

LEMMA TInvNext == TInv /\ [Next]_vars => TInv'
BY JobStep, StatusStep, RecordStep, WorkStep, CallStep, JobsNext, RowsNext DEF TInv, Types, RowTypes

\* Rows, jobs and the locals of every process keep their types.
THEOREM TypeCorrect == Spec => []TypeOK
BY TypesImply, TypesInit, TInvNext, PTL DEF Spec

-----------------------------------------------------------------------------
\* What CompletedHasEffect asks for o when its status is completed.
HasEffect(o) ==
  IF HasKey(o) THEN \E e \in effects : HasKey(e) /\ Key(e) = Key(o) ELSE o \in effects

\* From the effect to the status: the worker carries it to the save, the record
\* keeps it for its key, and a hit or the save hands it to the last update.
Earned ==
  /\ \A k \in records : \E e \in effects : HasKey(e) /\ Key(e) = k
  /\ \A q \in Queue : wpc[q] = "save" => wop[q] \in effects
  /\ \A q \in Queue : wpc[q] = "complete" => HasEffect(wop[q])
  /\ CompletedHasEffect

LEMMA EarnedInit == Init => Earned
BY DEF Init, Earned, CompletedHasEffect, HasEffect

\* No effect is taken back.
LEMMA EffectsStay ==
  ASSUME TInv, [Next]_vars
  PROVE  /\ effects \subseteq effects' /\ records \subseteq records'
         /\ \A o \in Op : HasEffect(o) => HasEffect(o)'
  BY RecordStep DEF HasEffect

LEMMA EarnedNext == TInv /\ Earned /\ [Next]_vars => Earned'
<1> SUFFICES ASSUME TInv, Earned, [Next]_vars PROVE Earned'
  OBVIOUS
<1>1. /\ effects \subseteq effects'
      /\ \A o \in Op : HasEffect(o) => HasEffect(o)'
  BY EffectsStay
<1>2. WorkTypes /\ RowTypes
  BY DEF TInv, Types
<1> USE DEF WorkTypes, RowTypes
<1>3. ASSUME NEW k \in records' PROVE \E e \in effects' : HasKey(e) /\ Key(e) = k
  <2>1. CASE k \in records
    BY <1>1, <2>1 DEF Earned
  <2>2. ASSUME NEW q \in Queue, Save(q), k \notin records
        PROVE  wop[q] \in effects /\ HasKey(wop[q]) /\ k = Key(wop[q])
    BY <2>2 DEF Save, Earned
  <2>3. UNCHANGED records \/ \E q \in Queue : Save(q)
    BY DEF Next, Work, Bull, Evict, Reconcile, vars, PosterAdd, PosterMark, PosterCrash, Post, TakeJob,
           Lookup, Begin, Execute, Complete, Fail, JobSettles, DatabaseError, WorkerCrash,
           StalledCheck, BackoffOver, ReconcileSelect, ReconcileNext, ReconcileAdd, ReconcileFails,
           ForeignMoves
  <2> QED
    BY <1>1, <2>1, <2>2, <2>3
<1>4. ASSUME NEW q \in Queue, wpc'[q] \in {"save", "complete"}
      PROVE  \/ wpc'[q] = wpc[q] /\ wop'[q] = wop[q]
             \/ Lookup(q) \/ Execute(q) \/ Save(q)
  <2>1. CASE UNCHANGED workerVars
    BY <2>1 DEF workerVars
  <2>2. ASSUME NEW r \in Queue, r # q, Work(r) \/ DatabaseError(r) \/ WorkerCrash(r)
        PROVE  wpc'[q] = wpc[q] /\ wop'[q] = wop[q]
    BY <1>2, <2>2 DEF Work, TakeJob, Lookup, Begin, Execute, Save, Complete, Fail, JobSettles, DatabaseError,
                      WorkerCrash, WorkerAt
  <2>3. CASE Work(q) \/ DatabaseError(q) \/ WorkerCrash(q)
    BY <1>2, <1>4, <2>3 DEF Work, TakeJob, Begin, Complete, Fail, JobSettles, DatabaseError,
                            WorkerCrash, WorkerAt, FirstCall
  <2> QED
    BY <2>1, <2>2, <2>3
       DEF Next, Bull, Evict, Reconcile, vars, PosterAdd, PosterMark, PosterCrash, Post,
           StalledCheck, BackoffOver, ReconcileSelect, ReconcileNext, ReconcileAdd, ReconcileFails,
           ForeignMoves
<1>5. ASSUME NEW q \in Queue, wpc'[q] = "save" PROVE wop'[q] \in effects'
  <2>1. CASE Lookup(q) \/ Save(q)
    BY <1>2, <1>5, <2>1 DEF Lookup, Save, WorkerAt
  <2>2. CASE Execute(q)
    BY <1>2, <1>5, <2>2 DEF Execute, WorkerAt
  <2> QED
    BY <1>1, <1>4, <1>5, <2>1, <2>2 DEF Earned
<1>6. ASSUME NEW q \in Queue, wpc'[q] = "complete" PROVE HasEffect(wop[q])' /\ wop'[q] = wop[q]
  <2>1. CASE wpc[q] = "complete" /\ wop'[q] = wop[q]
    BY <1>1, <1>2, <2>1 DEF Earned
  <2>2. CASE Lookup(q)
    <3>1. HasKey(wop[q]) /\ Key(wop[q]) \in records /\ wop[q] \in Op /\ wop'[q] = wop[q]
      BY <1>2, <1>6, <2>2 DEF Lookup, WorkerAt
    <3>2. HasEffect(wop[q])
      BY <3>1 DEF Earned, HasEffect
    <3> QED
      BY <1>1, <3>1, <3>2
  <2>3. CASE Save(q)
    <3>1. wop[q] \in effects /\ wop[q] \in Op /\ wop'[q] = wop[q]
      BY <1>2, <2>3 DEF Save, Earned
    <3>2. HasEffect(wop[q])
      BY <3>1 DEF HasEffect
    <3> QED
      BY <1>1, <3>1, <3>2
  <2>4. CASE Execute(q)
    BY <1>2, <1>6, <2>4 DEF Execute, WorkerAt
  <2> QED
    BY <1>4, <1>6, <2>1, <2>2, <2>3, <2>4
<1>7. ASSUME NEW o \in Op, status'[o] = "completed" PROVE HasEffect(o)'
  <2>1. CASE status[o] = "completed"
    BY <1>1, <2>1 DEF Earned, CompletedHasEffect, HasEffect
  <2>2. ASSUME NEW q \in Queue, Complete(q), status[o] # "completed" PROVE HasEffect(o)
    BY <1>2, <1>7, <2>2 DEF Complete, SetStatus, Earned
  <2>3. ASSUME status[o] # "completed" PROVE \E q \in Queue : Complete(q)
    BY <1>2, <1>7, <2>3
       DEF Next, Work, Bull, Evict, Reconcile, vars, PosterAdd, PosterMark, PosterCrash, Post, TakeJob,
           Lookup, Begin, Execute, Save, Fail, JobSettles, DatabaseError, WorkerCrash, SetStatus,
           RetryStatus, StalledCheck, BackoffOver, ReconcileSelect, ReconcileNext, ReconcileAdd, ReconcileFails,
           ForeignMoves
  <2> QED
    BY <1>1, <2>1, <2>2, <2>3
<1> QED
  BY <1>3, <1>5, <1>6, <1>7 DEF Earned, CompletedHasEffect, HasEffect

\* A completed operation had an action run to its end under its key, whatever
\* crashed between execute, save and the last update, and whoever wrote the record.
THEOREM CompletionIsEarned == Spec => []CompletedHasEffect
<1>1. Earned => CompletedHasEffect
  BY DEF Earned
<1> QED
  BY <1>1, TypesInit, TInvNext, EarnedInit, EarnedNext, PTL DEF Spec

-----------------------------------------------------------------------------
\* Steps of executeActionJob after the one that calls execute.
Past == {"save", "complete", "retryable", "terminal", "return", "throw", "unrecoverable"}

\* An attempt of o's job in q is under way, and its one call of execute is made or
\* can no longer be made: the worker is past it, or is gone.
Begun(q, o) ==
  IF job[q][o] = "active" /\ (wop[q] = o => wpc[q] \in Past) THEN 1 ELSE 0

\* What o's job in q pays for: its attempts, its stalls and the attempt under way.
Credit(q, o) ==
  IF job[q][o] = "none" THEN 0 ELSE made[q][o] + stalled[q][o] + Begun(q, o)

Paid ==
  evictions = MaxEvict =>
    \A o \in Op : starts[o] <= Credit("priority_commands", o) + Credit("background_events", o)

LEMMA PaidInit == Init => Paid
BY DEF Init, Paid, Credit, Queue

\* The worker does not go back before execute while it has the job.
LEMMA PastStep ==
  ASSUME TInv, [Next]_vars, NEW q \in Queue
  PROVE  /\ wpc[q] \in Past /\ wpc'[q] # "idle" => wpc'[q] \in Past
         /\ Execute(q) => wpc'[q] \in Past /\ wop'[q] = wop[q] /\ wop[q] \in Op
<1> USE DEF TInv, Types, WorkTypes, WorkerAt, Past
<1>1. Execute(q) => wpc'[q] \in Past /\ wop'[q] = wop[q] /\ wop[q] \in Op
  BY DEF Execute
<1>2. CASE UNCHANGED workerVars
  BY <1>1, <1>2 DEF workerVars
<1>3. ASSUME NEW r \in Queue, r # q, Work(r) \/ DatabaseError(r) \/ WorkerCrash(r)
      PROVE  wpc'[q] = wpc[q]
  BY <1>3 DEF Work, TakeJob, Lookup, Begin, Execute, Save, Complete, Fail, JobSettles, DatabaseError,
              WorkerCrash
<1>4. CASE Work(q) \/ DatabaseError(q) \/ WorkerCrash(q)
  BY <1>1, <1>4 DEF Work, TakeJob, Lookup, Begin, Execute, Save, Complete, Fail, JobSettles,
                    DatabaseError, WorkerCrash
<1> QED
  BY <1>1, <1>2, <1>3, <1>4
     DEF Next, Bull, Evict, Reconcile, vars, PosterAdd, PosterMark, PosterCrash, Post,
         StalledCheck, BackoffOver, ReconcileSelect, ReconcileNext, ReconcileAdd, ReconcileFails,
         ForeignMoves

\* Only an execution is charged, to the operation in the worker's hand.
LEMMA StartStep ==
  ASSUME TInv, [Next]_vars, NEW o \in Op
  PROVE  \/ starts'[o] = starts[o]
         \/ \E q \in Queue : Execute(q) /\ wop[q] = o /\ starts'[o] = starts[o] + 1
<1>1. ASSUME NEW q \in Queue, Execute(q)
      PROVE  starts'[o] = starts[o] \/ (wop[q] = o /\ starts'[o] = starts[o] + 1)
  BY <1>1 DEF Execute, TInv, Types, RowTypes, WorkTypes
<1>2. CASE UNCHANGED runVars
  BY <1>2 DEF runVars
<1> QED
  BY <1>1, <1>2
     DEF Next, Work, Bull, Evict, Reconcile, vars, PosterAdd, PosterMark, PosterCrash, Post, TakeJob,
         Lookup, Begin, Save, Complete, Fail, JobSettles, DatabaseError, WorkerCrash, StalledCheck,
         BackoffOver, ReconcileSelect, ReconcileNext, ReconcileAdd, ReconcileFails,
         ForeignMoves, runVars

LEMMA EvictionStep == ASSUME TInv, [Next]_vars PROVE evictions' = MaxEvict => evictions = MaxEvict
<1> USE QueueAssumption DEF QueueAssumption, TInv, Types, BoundTypes
<1>1. ASSUME NEW q \in Queue, NEW o \in Op, Evict(q, o) PROVE evictions' # MaxEvict
  BY <1>1 DEF Evict
<1>2. UNCHANGED evictions \/ \E q \in Queue, o \in Op : Evict(q, o)
  BY DEF Next, Work, Bull, Reconcile, vars, bounds, PosterAdd, PosterMark, PosterCrash, Post, TakeJob,
         Lookup, Begin, Execute, Save, Complete, Fail, JobSettles, DatabaseError, WorkerCrash,
         StalledCheck, BackoffOver, ReconcileSelect, ReconcileNext, ReconcileAdd, ReconcileFails,
         ForeignMoves
<1> QED
  BY <1>1, <1>2

\* While nothing is forgotten a job's credit does not shrink, and an execution of
\* its worker raises it.
LEMMA CreditStep ==
  ASSUME TInv, [Next]_vars, NEW q \in Queue, NEW o \in Op, evictions' = MaxEvict
  PROVE  /\ Credit(q, o) \in Nat /\ Credit(q, o)' \in Nat
         /\ Credit(q, o) <= Credit(q, o)'
         /\ Execute(q) /\ wop[q] = o => Credit(q, o) + 1 <= Credit(q, o)'
<1>1. /\ made[q][o] \in Nat /\ stalled[q][o] \in Nat
      /\ made'[q][o] \in Nat /\ stalled'[q][o] \in Nat
      /\ evictions' \in Nat
  <2>1. JobTypes /\ JobTypes' /\ BoundTypes'
    BY JobStep, CallStep DEF TInv, Types
  <2>2. made[q][o] \in 0..JobAttempts /\ stalled[q][o] \in 0..2
    BY <2>1 DEF JobTypes, MaxStalled
  <2>3. made'[q][o] \in 0..JobAttempts /\ stalled'[q][o] \in 0..2
    BY <2>1 DEF JobTypes, MaxStalled
  <2> QED
    BY <2>1, <2>2, <2>3, QueueAssumption DEF QueueAssumption, BoundTypes
<1>2. Credit(q, o) \in Nat /\ Credit(q, o)' \in Nat /\ Begun(q, o) \in {0, 1} /\ Begun(q, o)' \in {0, 1}
  BY <1>1 DEF Credit, Begun
<1>3. JobMove(q, o) /\ WorkMove(q)
  BY JobStep, WorkStep
<1>4. /\ wpc[q] # "idle" => job[q][wop[q]] = "active" /\ wop[q] \in Op
      /\ wpc[q] = "idle" => wop[q] = NoOp
      /\ wpc'[q] = "idle" => wop'[q] = NoOp
      /\ NoOp # o
  <2>1. Jobs' /\ Jobs /\ WorkTypes
    BY JobsNext DEF TInv, Types
  <2> QED
    BY <2>1, QueueAssumption DEF QueueAssumption, WorkTypes, Jobs
<1>5. /\ wpc[q] \in Past /\ wpc'[q] # "idle" => wpc'[q] \in Past
      /\ Execute(q) => wpc'[q] \in Past /\ wop'[q] = wop[q]
  BY PastStep
<1>6. CASE /\ job'[q][o] = job[q][o] /\ made'[q][o] = made[q][o] /\ stalled'[q][o] = stalled[q][o]
  <2>1. Begun(q, o) <= Begun(q, o)'
    <3>1. ASSUME Begun(q, o) = 1, wop'[q] = o PROVE wpc'[q] \in Past
      <4>1. job[q][o] = "active" /\ (wop[q] = o => wpc[q] \in Past)
        BY <3>1 DEF Begun
      <4>2. CASE wop[q] = o
        BY <1>4, <1>5, <3>1, <4>1, <4>2
      <4>3. CASE wop[q] # o
        BY <1>3, <1>4, <3>1, <4>1, <4>3, <1>6 DEF WorkMove, JobMove
      <4> QED
        BY <4>2, <4>3
    <3> QED
      BY <1>2, <1>6, <3>1 DEF Begun
  <2>2. ASSUME Execute(q), wop[q] = o PROVE Begun(q, o) = 0 /\ Begun(q, o)' = 1 /\ job[q][o] = "active"
    BY <1>4, <1>5, <1>6, <2>2 DEF Begun, Execute, Past
  <2> QED
    BY <1>1, <1>2, <1>6, <2>1, <2>2 DEF Credit
<1>7. CASE ~(/\ job'[q][o] = job[q][o] /\ made'[q][o] = made[q][o] /\ stalled'[q][o] = stalled[q][o])
  <2>1. Execute(q) => UNCHANGED jobVars
    BY DEF Execute
  <2>2. Credit(q, o) <= Credit(q, o)'
    BY <1>1, <1>2, <1>3, <1>4, <1>7 DEF JobMove, Credit, Begun, workerVars, MaxStalled
  <2> QED
    BY <1>2, <1>7, <2>1, <2>2 DEF jobVars
<1> QED
  BY <1>6, <1>7

LEMMA PaidNext == TInv /\ Paid /\ [Next]_vars => Paid'
<1> SUFFICES ASSUME TInv, Paid, [Next]_vars, evictions' = MaxEvict, NEW o \in Op
             PROVE  starts'[o] <= Credit("priority_commands", o)' + Credit("background_events", o)'
  BY DEF Paid
<1>1. starts[o] <= Credit("priority_commands", o) + Credit("background_events", o)
  BY EvictionStep DEF Paid
<1>2. starts[o] \in Nat /\ starts'[o] \in Nat
  BY RecordStep DEF TInv, Types, RowTypes
<1>3. /\ "priority_commands" \in Queue /\ "background_events" \in Queue
      /\ \A q \in Queue : q = "priority_commands" \/ q = "background_events"
  BY DEF Queue
<1> HIDE DEF Queue, Credit
<1>4. \A q \in Queue :
         /\ Credit(q, o) \in Nat /\ Credit(q, o)' \in Nat /\ Credit(q, o) <= Credit(q, o)'
         /\ Execute(q) /\ wop[q] = o => Credit(q, o) + 1 <= Credit(q, o)'
  BY CreditStep
<1> QED
  BY <1>1, <1>2, <1>3, <1>4, StartStep

\* A job that may still run keeps an attempt for the execution under way.
LEMMA PaidBounds == TInv /\ Paid => ExecutionsBounded
<1> SUFFICES ASSUME TInv, Paid, evictions = MaxEvict, NEW o \in Op
             PROVE  starts[o] <= JobAttempts * Cardinality({q \in Queue : job[q][o] # "none"})
                       + stalled["priority_commands"][o] + stalled["background_events"][o]
  BY DEF ExecutionsBounded
<1> DEFINE Used == {q \in Queue : job[q][o] # "none"}
<1>1. ASSUME NEW q \in Queue
      PROVE  /\ Credit(q, o) \in Nat /\ stalled[q][o] \in Nat
             /\ Credit(q, o) <= stalled[q][o] + (IF job[q][o] = "none" THEN 0 ELSE JobAttempts)
  BY QueueAssumption
     DEF QueueAssumption, TInv, Types, JobTypes, Jobs, Pending, Credit, Begun, MaxStalled
<1>2. PICK p, b : p = "priority_commands" /\ b = "background_events"
  OBVIOUS
<1>3. p \in Queue /\ b \in Queue /\ p # b /\ Queue = {p, b}
  BY <1>2 DEF Queue
<1>4. starts[o] <= Credit(p, o) + Credit(b, o) /\ starts[o] \in Nat
  BY <1>2 DEF Paid, TInv, Types, RowTypes
<1>5. JobAttempts \in Nat
  BY QueueAssumption DEF QueueAssumption
<1>6. /\ Cardinality({}) = 0 /\ Cardinality({p}) = 1 /\ Cardinality({b}) = 1
      /\ Cardinality({p, b}) = 2
  <2>1. IsFiniteSet({b}) /\ Cardinality({b}) = 1 /\ Cardinality({p}) = 1 /\ Cardinality({}) = 0
    BY FS_EmptySet, FS_Singleton
  <2>2. Cardinality({b} \cup {p}) = 2
    BY <1>3, <2>1, FS_AddElement
  <2>3. {b} \cup {p} = {p, b}
    OBVIOUS
  <2> QED
    BY <2>1, <2>2, <2>3
<1> SUFFICES starts[o] <= JobAttempts * Cardinality(Used) + stalled[p][o] + stalled[b][o]
  BY <1>2
<1>7. Credit(p, o) \in Nat /\ Credit(b, o) \in Nat /\ stalled[p][o] \in Nat /\ stalled[b][o] \in Nat
  BY <1>1, <1>3
<1>8. CASE job[p][o] # "none" /\ job[b][o] # "none"
  <2>1. Used = {p, b}
    BY <1>3, <1>8
  <2>2. Cardinality(Used) = 2
    BY <1>6, <2>1
  <2>3. Credit(p, o) <= stalled[p][o] + JobAttempts /\ Credit(b, o) <= stalled[b][o] + JobAttempts
    BY <1>1, <1>3, <1>8
  <2> HIDE DEF Used
  <2> QED
    BY <1>4, <1>5, <1>7, <2>2, <2>3
<1>9. CASE job[p][o] # "none" /\ job[b][o] = "none"
  <2>1. Used = {p}
    BY <1>3, <1>9
  <2>2. Cardinality(Used) = 1
    BY <1>6, <2>1
  <2>3. Credit(p, o) <= stalled[p][o] + JobAttempts /\ Credit(b, o) <= stalled[b][o]
    BY <1>1, <1>3, <1>9
  <2> HIDE DEF Used
  <2> QED
    BY <1>4, <1>5, <1>7, <2>2, <2>3
<1>10. CASE job[p][o] = "none" /\ job[b][o] # "none"
  <2>1. Used = {b}
    BY <1>3, <1>10
  <2>2. Cardinality(Used) = 1
    BY <1>6, <2>1
  <2>3. Credit(p, o) <= stalled[p][o] /\ Credit(b, o) <= stalled[b][o] + JobAttempts
    BY <1>1, <1>3, <1>10
  <2> HIDE DEF Used
  <2> QED
    BY <1>4, <1>5, <1>7, <2>2, <2>3
<1>11. CASE job[p][o] = "none" /\ job[b][o] = "none"
  <2>1. Used = {}
    BY <1>3, <1>11
  <2>2. Cardinality(Used) = 0
    BY <1>6, <2>1
  <2>3. Credit(p, o) <= stalled[p][o] /\ Credit(b, o) <= stalled[b][o]
    BY <1>1, <1>3, <1>11
  <2> HIDE DEF Used
  <2> QED
    BY <1>4, <1>5, <1>7, <2>2, <2>3
<1> QED
  BY <1>8, <1>9, <1>10, <1>11

\* Every call of execute is paid for by an attempt of a job of its operation or by
\* a stall of one, for any number of operations, requests and crashes.
THEOREM ExecutionsArePaid == Spec => []ExecutionsBounded
BY TypesInit, TInvNext, PaidInit, PaidNext, PaidBounds, PTL DEF Spec
-----------------------------------------------------------------------------
\* Workers that missed the record of key k and may still execute an action under it.
Late(k) == {q \in Queue : wpc[q] \in {"begin", "execute"} /\ HasKey(wop[q]) /\ Key(wop[q]) = k}

\* No worker joins them, and an execution under k is the last of one of them.
Closing(k) ==
  /\ Late(k)' \subseteq Late(k)
  /\ \A o \in Op :
       HasKey(o) /\ Key(o) = k /\ starts'[o] # starts[o] => \E q \in Late(k) : q \notin Late(k)'

\* A worker gets to execute by a lookup that finds no record.
LEMMA LateStep ==
  ASSUME TInv, [Next]_vars, NEW q \in Queue, wpc'[q] \in {"begin", "execute"}
  PROVE  /\ wop'[q] = wop[q]
         /\ \/ wpc[q] \in {"begin", "execute"}
            \/ wpc[q] = "lookup" /\ ~(HasKey(wop[q]) /\ Key(wop[q]) \in records)
<1> USE DEF TInv, Types, WorkTypes, WorkerAt
<1>1. CASE UNCHANGED workerVars
  BY <1>1 DEF workerVars
<1>2. ASSUME NEW r \in Queue, r # q, Work(r) \/ DatabaseError(r) \/ WorkerCrash(r)
      PROVE  wpc'[q] = wpc[q] /\ wop'[q] = wop[q]
  BY <1>2 DEF Work, TakeJob, Lookup, Begin, Execute, Save, Complete, Fail, JobSettles, DatabaseError,
              WorkerCrash
<1>3. CASE Lookup(q)
  BY <1>3 DEF Lookup
<1>4. CASE Begin(q)
  BY <1>4 DEF Begin
<1>5. ASSUME \/ \E o \in Op : TakeJob(q, o)
             \/ Execute(q) \/ Save(q) \/ Complete(q) \/ Fail(q) \/ JobSettles(q)
             \/ DatabaseError(q) \/ WorkerCrash(q)
      PROVE  FALSE
  BY <1>5 DEF TakeJob, Execute, Save, Complete, Fail, JobSettles, DatabaseError, WorkerCrash
<1> QED
  BY <1>1, <1>2, <1>3, <1>4, <1>5
     DEF Next, Work, Bull, Evict, Reconcile, vars, PosterAdd, PosterMark, PosterCrash, Post,
         StalledCheck, BackoffOver, ReconcileSelect, ReconcileNext, ReconcileAdd, ReconcileFails,
         ForeignMoves

LEMMA ClosingStep ==
  ASSUME TInv, [Next]_vars, NEW k \in records
  PROVE  Closing(k)
<1>1. Late(k)' \subseteq Late(k)
  BY LateStep DEF Late
<1>2. ASSUME NEW o \in Op, HasKey(o), Key(o) = k, starts'[o] # starts[o]
      PROVE  \E q \in Late(k) : q \notin Late(k)'
  <2>1. PICK q \in Queue : Execute(q) /\ wop[q] = o
    BY <1>2, StartStep
  <2>2. q \in Late(k)
    BY <1>2, <2>1 DEF Late, Execute
  <2>3. wpc'[q] \in Past
    BY <2>1, PastStep
  <2> QED
    BY <2>2, <2>3 DEF Late, Past
<1> QED
  BY <1>1, <1>2 DEF Closing

\* Once a key is recorded no further worker begins an action under it; and each execution
\* under it takes away one of the workers whose lookup came before the record.
THEOREM ExecutionsAfterRecord == Spec => [][\A k \in records : Closing(k)]_vars
<1>1. TInv /\ [Next]_vars => [\A k \in records : Closing(k)]_vars
  BY ClosingStep
<1> QED
  BY <1>1, TypesInit, TInvNext, PTL DEF Spec
===================================================================================
